------------------------------ MODULE TeamWork ------------------------------
(***************************************************************************)
(* Workstreams (src/team/workstreams.rs), playbooks, and the runs of       *)
(* playbooks (src/team/playbooks.rs).  A run copies the steps of its       *)
(* playbook when it is started, names the revision they were copied from,  *)
(* and ends when every step is complete or when it is abandoned.           *)
(***************************************************************************)
EXTENDS TeamDesk

CONSTANTS
  Playbook, Workstream, PlaybookRun,   \* ids of the records
  NoWork,         \* no such record; a run that names no workstream
  Todo,           \* a step of a run that nobody has completed
  StepSets,       \* bound: the steps a playbook's author may write down
  WorkStep,       \* steps of a workstream
  StepStatus,     \* bound: what a step of a workstream is set to
  StreamStatus,   \* bound: what a workstream is created in or updated to
  GitNames,       \* whether Git names the actor who is no member
  MaxRevision,    \* bound: changes of a playbook
  SlowWork        \* bound: the kinds of action a process sits on before it applies them

ASSUME WorkAssumption ==
  /\ GitNames \in BOOLEAN
  /\ MaxRevision \in Nat
  /\ Todo \notin Member \cup {Nobody}
  /\ StreamStatus \subseteq {"planned", "active", "blocked", "done"}
  /\ StepStatus \subseteq {"pending", "in_progress", "done", "blocked", "committed"}

VARIABLES
  playbooks,     \* id -> [state, steps, revision], or NoWork
  workstreams,   \* id -> [status, steps], or NoWork
  runs           \* id -> [playbook, revision, workstream, steps, state], or NoWork

workVars == <<playbooks, workstreams, runs>>

WorkInit ==
  /\ playbooks = [b \in Playbook |-> NoWork]
  /\ workstreams = [w \in Workstream |-> NoWork]
  /\ runs = [r \in PlaybookRun |-> NoWork]

(* A playbook is changed by active members, a run by anybody with a name.  *)
Known(actor) == actor \in Active \/ (actor = Nobody /\ GitNames)

Written(file, value) == [file |-> file, value |-> value]

----------------------------------------------------------------------------
(* Playbooks.  A patch sets the state and the steps, and may change only   *)
(* the texts, which counts as a revision too.                              *)
Usable(state, steps) == state = "active" => steps # {}

CreatePlaybook(act, actor) ==
  IF actor \notin Active \/ playbooks[act.id] # NoWork \/ ~Usable(act.state, act.steps)
    THEN Refused
  ELSE Written("playbook", [state |-> act.state, steps |-> act.steps, revision |-> 1])

UpdatePlaybook(act, actor) ==
  LET b == playbooks[act.id]
  IN IF actor \notin Active \/ b = NoWork THEN Refused
     ELSE IF b.state = "archived" \/ ~Usable(act.state, act.steps) THEN Refused
     ELSE Written("playbook",
            [state |-> act.state, steps |-> act.steps, revision |-> b.revision + 1])

ArchivePlaybook(act, actor) ==
  LET b == playbooks[act.id]
  IN IF actor \notin Active \/ b = NoWork THEN Refused
     ELSE IF b.state = "archived" THEN Refused
     ELSE Written("playbook", [b EXCEPT !.state = "archived", !.revision = @ + 1])

----------------------------------------------------------------------------
(* Runs.                                                                   *)
StartRun(act, actor) ==
  LET b == playbooks[act.playbook]
      open == act.workstream = NoWork
                \/ (workstreams[act.workstream] # NoWork
                      /\ workstreams[act.workstream].status # "archived")
  IN IF ~Known(actor) \/ b = NoWork THEN Refused
     ELSE IF b.state # "active" \/ ~open \/ runs[act.id] # NoWork THEN Refused
     ELSE Written("run",
            [playbook |-> act.playbook, revision |-> b.revision,
             workstream |-> act.workstream,
             steps |-> [s \in b.steps |-> Todo], state |-> "active"])

CompleteStep(act, actor) ==
  LET run == runs[act.id]
  IN IF ~Known(actor) \/ run = NoWork THEN Refused
     ELSE IF run.state # "active" \/ act.step \notin DOMAIN run.steps THEN Refused
     ELSE IF run.steps[act.step] # Todo THEN Refused
     ELSE LET steps == [run.steps EXCEPT ![act.step] = actor]
              finished == \A s \in DOMAIN steps : steps[s] # Todo
          IN Written("run", [run EXCEPT !.steps = steps,
                                       !.state = IF finished THEN "completed" ELSE @])

AbandonRun(act, actor) ==
  LET run == runs[act.id]
  IN IF ~Known(actor) \/ run = NoWork THEN Refused
     ELSE IF run.state # "active" THEN Refused
     ELSE Written("run", [run EXCEPT !.state = "abandoned"])

----------------------------------------------------------------------------
(* Workstreams, which ask nobody who they are.  An update may reopen an    *)
(* archived one; its steps are set only while it is open.                  *)
CreateWorkstream(act) ==
  IF workstreams[act.id] # NoWork THEN Refused
  ELSE Written("workstream", [status |-> act.status, steps |-> [s \in WorkStep |-> NoWork]])

UpdateWorkstream(act) ==
  IF workstreams[act.id] = NoWork THEN Refused
  ELSE Written("workstream", [workstreams[act.id] EXCEPT !.status = act.status])

ArchiveWorkstream(act) ==
  LET old == workstreams[act.id]
  IN IF old = NoWork THEN Refused
     ELSE IF old.status = "archived" THEN Refused
     ELSE Written("workstream", [old EXCEPT !.status = "archived"])

UpdateStep(act) ==
  LET old == workstreams[act.id]
  IN IF old = NoWork THEN Refused
     ELSE IF old.status \in {"archived", "done"} THEN Refused
     ELSE Written("workstream", [old EXCEPT !.steps[act.step] = act.status])

----------------------------------------------------------------------------
WorkPlan(act, actor) ==
  CASE act.kind = "playbook.create" -> CreatePlaybook(act, actor)
    [] act.kind = "playbook.update" -> UpdatePlaybook(act, actor)
    [] act.kind = "playbook.archive" -> ArchivePlaybook(act, actor)
    [] act.kind = "run.start" -> StartRun(act, actor)
    [] act.kind = "run.complete-step" -> CompleteStep(act, actor)
    [] act.kind = "run.abandon" -> AbandonRun(act, actor)
    [] act.kind = "workstream.create" -> CreateWorkstream(act)
    [] act.kind = "workstream.update" -> UpdateWorkstream(act)
    [] act.kind = "workstream.archive" -> ArchiveWorkstream(act)
    [] act.kind = "workstream.step.update" -> UpdateStep(act)

PlaybookActs ==
  [kind : {"playbook.create", "playbook.update"}, id : Playbook,
   state : {"draft", "active"}, steps : StepSets]
    \cup [kind : {"playbook.archive"}, id : Playbook]

RunActs ==
  [kind : {"run.start"}, id : PlaybookRun, playbook : Playbook,
   workstream : Workstream \cup {NoWork}]
    \cup [kind : {"run.complete-step"}, id : PlaybookRun, step : UNION StepSets]
    \cup [kind : {"run.abandon"}, id : PlaybookRun]

WorkstreamActs ==
  [kind : {"workstream.create", "workstream.update"}, id : Workstream, status : StreamStatus]
    \cup [kind : {"workstream.archive"}, id : Workstream]
    \cup [kind : {"workstream.step.update"}, id : Workstream, step : WorkStep,
          status : StepStatus]

(* The files a run's plan has read or would replace.                       *)
RunSeen(act) ==
  <<runs[act.id],
    IF act.kind = "run.start"
      THEN <<playbooks[act.playbook],
             IF act.workstream \in Workstream THEN workstreams[act.workstream] ELSE NoWork>>
      ELSE <<>> >>

RevisionsLeft(id, plan) == plan.file = "playbook" => plan.value.revision <= MaxRevision

WorkCommit(id, plan) ==
  /\ playbooks' = IF plan.file = "playbook" THEN [playbooks EXCEPT ![id] = plan.value]
                  ELSE playbooks
  /\ workstreams' = IF plan.file = "workstream" THEN [workstreams EXCEPT ![id] = plan.value]
                    ELSE workstreams
  /\ runs' = IF plan.file = "run" THEN [runs EXCEPT ![id] = plan.value] ELSE runs

WorkPreview(p, act) ==
  /\ act.kind \in SlowWork
  /\ Previews(p, act, 0, WorkPlan(act, Resolved), RunSeen(act))
  /\ UNCHANGED workVars

(* Mutant of WorkApply: the held plan is written if the file it replaces   *)
(* is the one the preview saw; the others are not looked at again.         *)
WorkApplyHeld(p) ==
  /\ desk[p] # Idle
  /\ desk[p].act.kind \in SlowWork
  /\ runs[desk[p].act.id] = desk[p].seen[1]
  /\ desk' = [desk EXCEPT ![p] = Idle]
  /\ UNCHANGED registry
  /\ WorkCommit(desk[p].act.id, desk[p].plan)

WorkApply(p) ==
  /\ desk[p] # Idle
  /\ desk[p].act.kind \in SlowWork
  /\ Applies(p, WorkPlan(desk[p].act, Resolved), RunSeen(desk[p].act))
  /\ WorkCommit(desk[p].act.id, desk[p].plan)

WorkExecute(act) ==
  LET plan == WorkPlan(act, Resolved)
  IN /\ plan # Refused
     /\ RevisionsLeft(act.id, plan)
     /\ WorkCommit(act.id, plan)
     /\ UNCHANGED deskVars

WorkNext ==
  \/ \E p \in Process, act \in RunActs : WorkPreview(p, act)
  \/ \E p \in Process : WorkApply(p) \/ (Abandon(p) /\ UNCHANGED workVars)
  \/ \E act \in PlaybookActs \cup RunActs \cup WorkstreamActs : WorkExecute(act)
  \/ ClearSelection /\ UNCHANGED workVars
  \/ \E m \in Member : SelectMember(m) /\ UNCHANGED workVars

WorkSpec == DeskInit /\ WorkInit /\ [][WorkNext]_<<deskVars, workVars>>

----------------------------------------------------------------------------
(* Every record keeps its type, and a run is completed when no step of it  *)
(* is left to do.                                                          *)
WorkTypeOK ==
  /\ \A b \in Playbook : playbooks[b] # NoWork =>
       /\ playbooks[b].state \in {"draft", "active", "archived"}
       /\ playbooks[b].revision \in 1 .. MaxRevision
       /\ Usable(playbooks[b].state, playbooks[b].steps)
  /\ \A w \in Workstream : workstreams[w] # NoWork =>
       workstreams[w].status \in StreamStatus \cup {"archived"}
  /\ \A r \in PlaybookRun : runs[r] # NoWork =>
       /\ runs[r].state \in {"active", "completed", "abandoned"}
       /\ runs[r].state = "completed" <=>
            \A s \in DOMAIN runs[r].steps : runs[r].steps[s] # Todo

(* "Playbook entityRevision the steps were snapshotted from"               *)
(* (playbooks.rs:142): however long its preview was held, a run starts     *)
(* with the steps and the revision its playbook has at that moment, active,*)
(* and in no archived workstream.  "Completed and abandoned runs, and     *)
(* completed run steps, are immutable" (playbooks.rs:15): what one process *)
(* previewed never undoes what another has written since.                  *)
StartsNow(run) ==
  LET b == playbooks[run.playbook]
  IN /\ b # NoWork
     /\ b.state = "active"
     /\ run.revision = b.revision
     /\ DOMAIN run.steps = b.steps
     /\ run.workstream # NoWork => workstreams[run.workstream].status # "archived"

CarriesOn(run, new) ==
  /\ run.state = "active"
  /\ <<new.playbook, new.revision, new.workstream>>
       = <<run.playbook, run.revision, run.workstream>>
  /\ DOMAIN new.steps = DOMAIN run.steps
  /\ \A s \in DOMAIN run.steps : run.steps[s] \in {Todo, new.steps[s]}

RunsKeepTheirWord ==
  [][\A r \in PlaybookRun :
       runs'[r] # runs[r] =>
         IF runs[r] = NoWork THEN StartsNow(runs'[r]) ELSE CarriesOn(runs[r], runs'[r])]_runs
=============================================================================
