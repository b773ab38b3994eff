-------------------------- MODULE TeamTransaction --------------------------
(***************************************************************************)
(* Preview, apply and crash recovery of team commands                      *)
(* (src/team/workflow.rs: preview, apply, recover; src/team/store.rs:      *)
(* execute_journaled, roll_forward, recover_interrupted, prune_journal).   *)
(*                                                                         *)
(* Any process of a checkout may preview a command, without a lock, and    *)
(* any process may apply an issued envelope, any number of times.  Apply   *)
(* takes the team lock (module TeamLock), rolls interrupted operations     *)
(* forward, looks its operation id up in the journal, checks that nothing  *)
(* it read or would write has changed, plans again, and writes: an intent  *)
(* record, each file, the event line, and the complete record.             *)
(*                                                                         *)
(* Signature, actor and 30-minute age checks come before the lock and can  *)
(* only refuse; an envelope they refuse is one this module never applies.  *)
(***************************************************************************)
EXTENDS TeamPlan, Naturals, Sequences, FiniteSets

CONSTANTS
  Proc,          \* the knobyte processes of the checkout
  Foreign,       \* an edit no operation made
  NoEntry,       \* the journal has no file for the operation id
  Nothing,       \* a process has no command, entry or file in hand
  Window,        \* JOURNAL_WINDOW: complete entries kept for replay
  LiveEdits,     \* may other programs edit files while the lock is held?
  MaxPreviews,   \* bound: envelopes issued
  MaxCommits,    \* bound: intent records written
  MaxCrashes,    \* bound: crashes (or failing writes of one's own apply)
  MaxIoErrors,   \* bound: writes that fail while recovering somebody else's
  MaxEdits,      \* bound: edits by other programs
  MaxTroubles    \* bound: crashes and edits together

VARIABLES
  file,      \* Path -> content, or Absent
  lines,     \* envelope -> times its line is in the event log
  journal,   \* Op -> [state, env, writes, at], or NoEntry
  envs,      \* the envelopes issued, in order
  commits,   \* the envelopes whose intent was recorded, in order
  pc,        \* where each process is
  plan,      \* the plan of a process between planning and sealing
  env,       \* the envelope a process is applying, 0 for `recover`
  todo,      \* interrupted operations it still has to roll forward
  cur,       \* the entry it is rolling forward: [op, own]
  left,      \* the files of that entry it has not visited
  target,    \* the file it has checked and is about to write
  answer,    \* what its last apply returned
  crashes, ioErrors, edits

disk == <<file, lines, journal>>
local == <<plan, env, todo, cur, left, target>>
faults == <<crashes, ioErrors, edits>>
vars == <<disk, envs, commits, pc, local, answer, faults>>

----------------------------------------------------------------------------
(* The places a process can be in.  All but the first three are under the  *)
(* team lock, from acquire to the drop of its guard.                       *)
Locked == {"recovering", "rolling", "writing", "completing", "deciding", "accepted"}
Free == {"idle", "planning", "waiting"}
InLock == {p \in Proc : pc[p] \in Locked}

Contents == {Absent} \cup SUBSET (Op \cup {Foreign})

(* What a planner or an operation holds for each of some files.            *)
OnPaths(S) == UNION {[D -> S] : D \in SUBSET Path}
Writes == OnPaths([before : Contents, after : Contents])
Entries == [state : {"intent", "complete", "conflicted"},
            env : Nat, writes : Writes, at : Nat]

ASSUME TransactionAssumption ==
  /\ IsFiniteSet(Proc)
  /\ Window \in Nat
  /\ MaxPreviews \in Nat
  /\ LiveEdits \in BOOLEAN
  /\ NoEntry \notin Entries
  /\ Nothing \notin [cmd : Command, before : OnPaths(Contents)]

Interrupted == {op \in Op : journal[op] # NoEntry /\ journal[op].state = "intent"}
Completed(j) == {op \in Op : j[op] # NoEntry /\ j[op].state = "complete"}

(* FileChange: what a planned content makes of the files as they are.      *)
Changes(after) ==
  [path \in Changed(after, file) |-> [before |-> file[path], after |-> after[path]]]

OpOf(e) == envs[e].cmd.op

Goto(p, step) == pc' = [pc EXCEPT ![p] = step]

Reset(p) ==
  /\ plan' = [plan EXCEPT ![p] = Nothing]
  /\ env' = [env EXCEPT ![p] = 0]
  /\ todo' = [todo EXCEPT ![p] = {}]
  /\ cur' = [cur EXCEPT ![p] = Nothing]
  /\ left' = [left EXCEPT ![p] = {}]
  /\ target' = [target EXCEPT ![p] = Nothing]

(* Apply returns and its TeamLock is dropped.                              *)
Return(p, result) ==
  /\ Goto(p, "idle")
  /\ answer' = [answer EXCEPT ![p] = [result |-> result, env |-> env[p]]]
  /\ Reset(p)

Init ==
  /\ file \in [Path -> {Absent, {}}]
  /\ lines = [e \in 1..MaxPreviews |-> 0]
  /\ journal = [op \in Op |-> NoEntry]
  /\ envs = <<>>
  /\ commits = <<>>
  /\ pc = [p \in Proc |-> "idle"]
  /\ plan = [p \in Proc |-> Nothing]
  /\ env = [p \in Proc |-> 0]
  /\ todo = [p \in Proc |-> {}]
  /\ cur = [p \in Proc |-> Nothing]
  /\ left = [p \in Proc |-> {}]
  /\ target = [p \in Proc |-> Nothing]
  /\ answer = [p \in Proc |-> Nothing]
  /\ crashes = 0 /\ ioErrors = 0 /\ edits = 0

----------------------------------------------------------------------------
(* preview: the planner reads the records it edits ...                     *)
PlanPreview(p, c) ==
  /\ pc[p] = "idle"
  /\ Len(envs) + Cardinality({q \in Proc : pc[q] = "planning"}) < MaxPreviews
  /\ Plannable(c, file)
  /\ Goto(p, "planning")
  /\ plan' = [plan EXCEPT ![p] = [cmd |-> c, after |-> Planned(c, file)]]
  /\ UNCHANGED <<disk, envs, commits, env, todo, cur, left, target, answer, faults>>

(* ... and only then are the before-revisions taken, of the files it would *)
(* change and of those it read.  Nothing is locked in between.             *)
SealPreview(p) ==
  /\ pc[p] = "planning"
  /\ LET changes == Changes(plan[p].after)
         pinned == DOMAIN changes \cup plan[p].cmd.reads
     IN envs' = Append(envs, [cmd |-> plan[p].cmd, changes |-> changes,
                              pins |-> [path \in pinned |-> file[path]]])
  /\ Goto(p, "idle")
  /\ plan' = [plan EXCEPT ![p] = Nothing]
  /\ UNCHANGED <<disk, commits, env, todo, cur, left, target, answer, faults>>

----------------------------------------------------------------------------
(* apply (an envelope) and recover (0) go for the lock.                    *)
BeginApply(p, e) ==
  /\ pc[p] = "idle"
  /\ e = 0 \/ Len(commits) + Cardinality({q \in Proc : env[q] # 0}) < MaxCommits
  /\ Goto(p, "waiting")
  /\ env' = [env EXCEPT ![p] = e]
  /\ answer' = [answer EXCEPT ![p] = Nothing]
  /\ UNCHANGED <<disk, envs, commits, plan, todo, cur, left, target, faults>>

(* Mutant of Acquire: interrupted operations are not rolled forward.       *)
AcquireWithoutRecovery(p) ==
  /\ pc[p] = "waiting"
  /\ InLock = {}
  /\ Goto(p, "recovering")
  /\ UNCHANGED <<disk, envs, commits, plan, env, todo, cur, left, target, answer, faults>>

(* The lock is free: list the interrupted entries.                         *)
Acquire(p) ==
  /\ pc[p] = "waiting"
  /\ InLock = {}
  /\ Goto(p, "recovering")
  /\ todo' = [todo EXCEPT ![p] = Interrupted]
  /\ UNCHANGED <<disk, envs, commits, plan, env, cur, left, target, answer, faults>>

(* "Another team operation holds ...": ten seconds are over.               *)
LockTimeout(p) ==
  /\ pc[p] = "waiting"
  /\ InLock # {}
  /\ Return(p, "locked")
  /\ UNCHANGED <<disk, envs, commits, faults>>

(* The next interrupted entry, oldest first.                               *)
RecoverNext(p) ==
  /\ pc[p] = "recovering"
  /\ \E op \in todo[p] :
       /\ \A other \in todo[p] : journal[op].at <= journal[other].at
       /\ cur' = [cur EXCEPT ![p] = [op |-> op, own |-> FALSE]]
       /\ todo' = [todo EXCEPT ![p] = @ \ {op}]
       /\ left' = [left EXCEPT ![p] = DOMAIN journal[op].writes]
  /\ Goto(p, "rolling")
  /\ UNCHANGED <<disk, envs, commits, plan, env, target, answer, faults>>

(* recover_interrupted is done: recover returns, apply looks its id up.    *)
RecoverDone(p) ==
  /\ pc[p] = "recovering"
  /\ todo[p] = {}
  /\ IF env[p] = 0
       THEN Return(p, "recovered")
       ELSE /\ Goto(p, "deciding")
            /\ cur' = [cur EXCEPT ![p] = Nothing]
            /\ UNCHANGED <<plan, env, todo, left, target, answer>>
  /\ UNCHANGED <<disk, envs, commits, faults>>

----------------------------------------------------------------------------
(* roll_forward, one file at a time.  The entry's order is fixed when it   *)
(* is planned; here any order may happen.                                  *)
Entry(p) == journal[cur[p].op]

Visit(p, path) == /\ pc[p] = "rolling"
                  /\ path \in left[p]

(* `current == after`: an earlier attempt wrote this file.                 *)
SkipWritten(p) ==
  /\ \E path \in left[p] :
       /\ Visit(p, path)
       /\ file[path] = Entry(p).writes[path].after
       /\ left' = [left EXCEPT ![p] = @ \ {path}]
  /\ UNCHANGED <<disk, envs, commits, pc, plan, env, todo, cur, target, answer, faults>>

(* Mutant of CheckFile: only "already written" is looked for.              *)
CheckNothing(p) ==
  /\ \E path \in left[p] :
       /\ Visit(p, path)
       /\ file[path] # Entry(p).writes[path].after
       /\ target' = [target EXCEPT ![p] = path]
  /\ Goto(p, "writing")
  /\ UNCHANGED <<disk, envs, commits, plan, env, todo, cur, left, answer, faults>>

(* `current == before`: the file may be written.                           *)
CheckFile(p) ==
  /\ \E path \in left[p] :
       /\ Visit(p, path)
       /\ file[path] # Entry(p).writes[path].after
       /\ file[path] = Entry(p).writes[path].before
       /\ target' = [target EXCEPT ![p] = path]
  /\ Goto(p, "writing")
  /\ UNCHANGED <<disk, envs, commits, plan, env, todo, cur, left, answer, faults>>

(* atomic_write or remove_if_exists, over whatever is there by now.        *)
WriteFile(p) ==
  /\ pc[p] = "writing"
  /\ file' = [file EXCEPT ![target[p]] = Entry(p).writes[target[p]].after]
  /\ left' = [left EXCEPT ![p] = @ \ {target[p]}]
  /\ target' = [target EXCEPT ![p] = Nothing]
  /\ Goto(p, "rolling")
  /\ UNCHANGED <<lines, journal, envs, commits, plan, env, todo, cur, answer, faults>>

(* roll_forward returned Err.  Its own apply reports OPERATION_INTERRUPTED *)
(* and leaves the intent; recovery marks the entry conflicted.             *)
RollFails(p) ==
  IF cur[p].own
    THEN Return(p, "interrupted") /\ UNCHANGED journal
    ELSE /\ journal' = [journal EXCEPT ![cur[p].op].state = "conflicted"]
         /\ Goto(p, "recovering")
         /\ left' = [left EXCEPT ![p] = {}]
         /\ target' = [target EXCEPT ![p] = Nothing]
         /\ UNCHANGED <<plan, env, todo, cur, answer>>

(* The file is neither as it was nor as it should become.                  *)
FindConflict(p) ==
  /\ \E path \in left[p] :
       /\ Visit(p, path)
       /\ file[path] \notin {Entry(p).writes[path].before, Entry(p).writes[path].after}
  /\ RollFails(p)
  /\ UNCHANGED <<file, lines, envs, commits, faults>>

(* Mutants of AppendLine: the marker is not looked for; the line and the   *)
(* complete record do not wait for the last file.                          *)
AppendLineAlways(p) ==
  /\ pc[p] = "rolling"
  /\ left[p] = {}
  /\ LET e == Entry(p).env
     IN lines' = IF envs[e].cmd.logs THEN [lines EXCEPT ![e] = @ + 1] ELSE lines
  /\ Goto(p, "completing")
  /\ UNCHANGED <<file, journal, envs, commits, local, answer, faults>>

AppendLineEarly(p) ==
  /\ pc[p] = "rolling"
  /\ LET e == Entry(p).env
     IN lines' = IF envs[e].cmd.logs /\ lines[e] = 0 THEN [lines EXCEPT ![e] = @ + 1]
                                                     ELSE lines
  /\ Goto(p, "completing")
  /\ UNCHANGED <<file, journal, envs, commits, local, answer, faults>>

(* The event line, unless the log already contains its marker.             *)
AppendLine(p) ==
  /\ pc[p] = "rolling"
  /\ left[p] = {}
  /\ LET e == Entry(p).env
     IN lines' = IF envs[e].cmd.logs /\ lines[e] = 0 THEN [lines EXCEPT ![e] = @ + 1]
                                                     ELSE lines
  /\ Goto(p, "completing")
  /\ UNCHANGED <<file, journal, envs, commits, local, answer, faults>>

(* Mutant of Pruned: off by one, the window is one entry short.            *)
PrunedEarly(j) ==
  [op \in Op |->
     IF /\ op \in Completed(j)
        /\ Cardinality({o \in Completed(j) : j[o].at >= j[op].at}) >= Window
       THEN NoEntry ELSE j[op]]

(* prune_journal: the oldest complete entries beyond the window go.        *)
Pruned(j) ==
  [op \in Op |->
     IF /\ op \in Completed(j)
        /\ Cardinality({o \in Completed(j) : j[o].at > j[op].at}) >= Window
       THEN NoEntry ELSE j[op]]

(* Mutant of Complete: recovery forgets to write the complete record.      *)
CompleteOwn(p) ==
  /\ pc[p] = "completing"
  /\ IF cur[p].own
       THEN /\ journal' = Pruned([journal EXCEPT ![cur[p].op].state = "complete"])
            /\ Return(p, "applied")
       ELSE Goto(p, "recovering") /\ UNCHANGED <<journal, local, answer>>
  /\ UNCHANGED <<file, lines, envs, commits, faults>>

(* complete_entry; its own apply then prunes and returns, recovery goes on *)
(* with the next entry.                                                    *)
Complete(p) ==
  /\ pc[p] = "completing"
  /\ LET done == [journal EXCEPT ![cur[p].op].state = "complete"]
     IN IF cur[p].own
          THEN journal' = Pruned(done) /\ Return(p, "applied")
          ELSE /\ journal' = done
               /\ Goto(p, "recovering")
               /\ UNCHANGED <<local, answer>>
  /\ UNCHANGED <<file, lines, envs, commits, faults>>

----------------------------------------------------------------------------
(* Mutant of AnswerFromJournal: the content behind the id is not compared. *)
AnswerById(p) ==
  /\ pc[p] = "deciding"
  /\ LET j == journal[OpOf(env[p])]
     IN /\ j # NoEntry
        /\ Return(p, IF j.state # "complete" THEN "interrupted" ELSE "replay")
  /\ UNCHANGED <<disk, envs, commits, faults>>

(* A journal entry of the envelope's operation id decides the apply: an    *)
(* exact replay, an id already used, or an operation recovery gave up.     *)
AnswerFromJournal(p) ==
  /\ pc[p] = "deciding"
  /\ LET j == journal[OpOf(env[p])]
     IN /\ j # NoEntry
        /\ Return(p, CASE j.state # "complete" -> "interrupted"
                       [] j.state = "complete" /\ j.env = env[p] -> "replay"
                       [] OTHER -> "used")
  /\ UNCHANGED <<disk, envs, commits, faults>>

(* Mutant of Fresh: whatever can be planned again is accepted.             *)
FreshEnough(e) == Plannable(e.cmd, file)

(* check_expectations, then prepare again: the same changes.               *)
Fresh(e) ==
  /\ \A path \in DOMAIN e.pins : file[path] = e.pins[path]
  /\ Plannable(e.cmd, file)
  /\ Changes(Planned(e.cmd, file)) = e.changes

Decide(p) ==
  /\ pc[p] = "deciding"
  /\ journal[OpOf(env[p])] = NoEntry
  /\ LET e == envs[env[p]]
     IN IF Fresh(e)
          THEN /\ Goto(p, "accepted")
               /\ plan' = [plan EXCEPT ![p] = [cmd |-> e.cmd, after |-> Planned(e.cmd, file)]]
               /\ UNCHANGED <<env, todo, cur, left, target, answer>>
          ELSE Return(p, "conflict")
  /\ UNCHANGED <<disk, envs, commits, faults>>

(* The before-revisions of the entry are read once more; the intent record *)
(* is the operation's commit point.                                        *)
WriteIntent(p) ==
  /\ pc[p] = "accepted"
  /\ LET op == plan[p].cmd.op
         writes == Changes(plan[p].after)
     IN /\ journal' = [journal EXCEPT ![op] =
                         [state |-> "intent", env |-> env[p], writes |-> writes,
                          at |-> Len(commits) + 1]]
        /\ cur' = [cur EXCEPT ![p] = [op |-> op, own |-> TRUE]]
        /\ left' = [left EXCEPT ![p] = DOMAIN writes]
  /\ commits' = Append(commits, env[p])
  /\ plan' = [plan EXCEPT ![p] = Nothing]
  /\ Goto(p, "rolling")
  /\ UNCHANGED <<file, lines, envs, env, todo, target, answer, faults>>

----------------------------------------------------------------------------
(* The process dies under the lock; waiters break its lock file later.  An *)
(* I/O error of its own apply leaves the disk in the same state.           *)
Crash(p) ==
  /\ pc[p] \in Locked
  /\ crashes < MaxCrashes /\ crashes + edits < MaxTroubles
  /\ crashes' = crashes + 1
  /\ Goto(p, "idle")
  /\ Reset(p)
  /\ UNCHANGED <<disk, envs, commits, answer, ioErrors, edits>>

(* A write of somebody else's entry fails during recovery: roll_forward    *)
(* returns the error text where it returns a path for a conflict.          *)
RecoveryWriteFails(p) ==
  /\ pc[p] = "writing" \/ (pc[p] = "rolling" /\ left[p] = {})
  /\ ~cur[p].own
  /\ ioErrors < MaxIoErrors
  /\ ioErrors' = ioErrors + 1
  /\ RollFails(p)
  /\ UNCHANGED <<file, lines, envs, commits, crashes, edits>>

(* `let _ = complete_entry(...)`: the entry stays an intent, recovery goes *)
(* on as if it were complete.                                              *)
RecoveryCompleteFails(p) ==
  /\ pc[p] = "completing"
  /\ ~cur[p].own
  /\ ioErrors < MaxIoErrors
  /\ ioErrors' = ioErrors + 1
  /\ Goto(p, "recovering")
  /\ UNCHANGED <<disk, envs, commits, local, answer, crashes, edits>>

(* `let _ = write_journal(...)`: nor does recovery notice when it cannot   *)
(* record a conflict.                                                      *)
RecoveryMarkFails(p) ==
  /\ \E path \in left[p] :
       /\ Visit(p, path)
       /\ file[path] \notin {Entry(p).writes[path].before, Entry(p).writes[path].after}
  /\ ~cur[p].own
  /\ ioErrors < MaxIoErrors
  /\ ioErrors' = ioErrors + 1
  /\ Goto(p, "recovering")
  /\ left' = [left EXCEPT ![p] = {}]
  /\ UNCHANGED <<disk, envs, commits, plan, env, todo, cur, target, answer, crashes, edits>>

(* An editor or `git pull` replaces or removes a file.                     *)
ForeignEdit ==
  /\ edits < MaxEdits /\ crashes + edits < MaxTroubles
  /\ LiveEdits \/ InLock = {}
  /\ edits' = edits + 1
  /\ \E path \in Path : \E new \in {{Foreign}, Absent} :
       file' = [file EXCEPT ![path] = new]
  /\ UNCHANGED <<lines, journal, envs, commits, pc, local, answer, crashes, ioErrors>>

(* The code a process executes from acquire to the end of its command.     *)
Step(p) ==
  \/ Acquire(p) \/ LockTimeout(p) \/ RecoverNext(p) \/ RecoverDone(p)
  \/ SkipWritten(p) \/ CheckFile(p) \/ WriteFile(p) \/ FindConflict(p)
  \/ AppendLine(p) \/ Complete(p)
  \/ AnswerFromJournal(p) \/ Decide(p) \/ WriteIntent(p)

Next ==
  \/ \E p \in Proc :
       \/ \E c \in Command : PlanPreview(p, c)
       \/ SealPreview(p)
       \/ \E e \in 0..Len(envs) : BeginApply(p, e)
       \/ Step(p)
       \/ Crash(p) \/ RecoveryWriteFails(p) \/ RecoveryCompleteFails(p)
       \/ RecoveryMarkFails(p)
  \/ ForeignEdit

Spec == Init /\ [][Next]_vars

(* A process that has started a command keeps running.                     *)
FairSpec == Spec /\ \A p \in Proc : WF_vars(Step(p))

----------------------------------------------------------------------------
(* Every variable keeps its range, and what a process has in hand fits the *)
(* place it is in.                                                         *)
TypeOK ==
  /\ file \in [Path -> Contents]
  /\ lines \in [1..MaxPreviews -> Nat]
  /\ \A op \in Op : journal[op] # NoEntry =>
       /\ journal[op].state \in {"intent", "complete", "conflicted"}
       /\ journal[op].env \in DOMAIN envs
       /\ journal[op].at \in DOMAIN commits
       /\ DOMAIN journal[op].writes \subseteq Path
  /\ pc \in [Proc -> Locked \cup Free]
  /\ env \in [Proc -> 0..Len(envs)]
  /\ todo \in [Proc -> SUBSET Op]
  /\ \A p \in Proc :
       /\ pc[p] \in {"rolling", "writing", "completing"} =>
            /\ journal[cur[p].op] # NoEntry
            /\ left[p] \subseteq DOMAIN Entry(p).writes
       /\ pc[p] = "writing" => target[p] \in left[p]

(* "The next mutation rolls an interrupted operation forward"              *)
(* (docs/team-memory-workflows.md:118): no operation starts before every   *)
(* interrupted one is closed, so at most one is ever in flight.            *)
OneInFlight == \A o1, o2 \in Interrupted : o1 = o2

(* "Returns Err(path) when a file matches neither its before nor after     *)
(* revision" (store.rs:309): recovery gives an operation up for good only  *)
(* when somebody else has changed one of its files.                        *)
ConflictNeedsAnEdit ==
  edits = 0 => \A op \in Op : journal[op] # NoEntry => journal[op].state # "conflicted"

(* The journal's marker check (store.rs:237): however often an operation   *)
(* is interrupted, recovered, replayed or applied again after pruning, its *)
(* line is in the event log at most once.                                  *)
LineOnce == \A e \in DOMAIN lines : lines[e] <= 1

(* A "complete" record (store.rs:362) is written only over files that all  *)
(* hold what the operation planned, with the event line in the log: the    *)
(* entry drops the contents that would be needed to do it again.           *)
CompleteMeansDone ==
  [][\A op \in Interrupted :
       (journal'[op] # journal[op] /\ (journal'[op] = NoEntry \/ journal'[op].state = "complete"))
       => /\ \A path \in DOMAIN journal[op].writes :
               file[path] = journal[op].writes[path].after
          /\ envs[journal[op].env].cmd.logs => lines[journal[op].env] = 1]_vars

(* "refused [if] any file it read or would write has changed since the     *)
(* preview" (docs/team-memory-workflows.md:106): a team command only ever  *)
(* replaces the very content its envelope showed, also when the write is   *)
(* made by another process recovering it.                                  *)
WritesOnlyPreviewed ==
  [][\A path \in Path :
       file'[path] # file[path] /\ edits' = edits =>
         \E op \in Interrupted :
           LET changes == envs[journal[op].env].changes
           IN /\ path \in DOMAIN changes
              /\ changes[path].before = file[path]
              /\ changes[path].after = file'[path]]_vars

(* "Replaying the exact same operation succeeds with idempotentReplay"     *)
(* (docs/team-memory-workflows.md:115): an envelope takes effect again     *)
(* only once at least Window later operations were completed and pushed    *)
(* its record out of the journal.                                          *)
ReplayWindow ==
  \A i, j \in DOMAIN commits :
    i < j /\ OpOf(commits[i]) = OpOf(commits[j]) => j - i > Window

(* An apply that answers "applied" or "replay" is telling the truth: this  *)
(* very envelope took effect, and the operation was completed, not left    *)
(* half-written or given up as conflicted.                                 *)
AnswersAreTrue ==
  [][\A p \in Proc :
       /\ answer'[p] # answer[p] /\ answer'[p] # Nothing
       /\ answer'[p].result \in {"applied", "replay"}
       => LET j == journal'[OpOf(answer'[p].env)]
          IN /\ \E i \in DOMAIN commits : commits[i] = answer'[p].env
             /\ j = NoEntry \/ (j.state = "complete" /\ j.env = answer'[p].env)]_vars

(* An interrupted operation does not stay interrupted while team commands  *)
(* keep coming.                                                            *)
InterruptedIsClosed ==
  []<>(\E p \in Proc : pc[p] = "recovering") =>
    \A op \in Op : op \in Interrupted ~> op \notin Interrupted

(* From the intent record on, an operation has taken effect: what is still *)
(* missing on disk is what rolling it forward will write.                  *)
Effective ==
  [path \in Path |->
     IF \E op \in Interrupted : /\ path \in DOMAIN journal[op].writes
                                /\ file[path] = journal[op].writes[path].before
       THEN LET op == CHOOSE o \in Interrupted : path \in DOMAIN journal[o].writes
            IN journal[op].writes[path].after
       ELSE file[path]]

OpenOp ==
  IF Interrupted = {} THEN Nothing
  ELSE LET j == journal[CHOOSE op \in Interrupted : TRUE]
       IN [cmd |-> envs[j.env].cmd,
           before |-> [path \in DOMAIN j.writes |-> j.writes[path].before]]

(* Preview and apply, with crashes and recovery by other processes,        *)
(* implement a store whose operations are atomic.                          *)
Atomic == INSTANCE AtomicStore WITH
  content <- Effective,
  order <- [i \in DOMAIN commits |-> OpOf(commits[i])],
  open <- OpenOp,
  edits <- edits
ImplementsAtomicStore == Atomic!Spec
=============================================================================
