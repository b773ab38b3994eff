---------------------------- MODULE SetupWizard ----------------------------
(***************************************************************************)
(* The Hub's set-up wizard (src/hub/setup_wizard.rs, SetupService) and the *)
(* agent session that its population step runs (src/agent/mod.rs,          *)
(* run_agent).                                                             *)
(*                                                                         *)
(* Requests begin an action if none is running; setup and finalize work by *)
(* themselves, population runs an agent in a process group of its own and  *)
(* keeps a transcript of it.  Cancelling sets one flag of the process.     *)
(***************************************************************************)
EXTENDS Naturals, Sequences

CONSTANTS
  Visitor,     \* concurrent requests that cancel, skip or commit
  Batch,       \* TRANSCRIPT_BATCH
  MaxActions,  \* bound: actions begun
  MaxLines     \* bound: an agent's lines are read up to this many entries

ASSUME SetupAssumption ==
  /\ Batch \in Nat \ {0}
  /\ MaxActions \in Nat
  /\ MaxLines \in Nat

VARIABLES
  run,         \* SetupService.run: status, action and transcript_id
  worker,      \* the actions begun: where each is, how its agent ended, and
               \* the processes of the agent that are alive
  transcript,  \* whose it is, the id of its last entry, and its done
  cancelFlag,  \* CANCELLED
  asked,       \* visitor -> what its request, past its check, will do
  page,        \* one page: the transcript it follows, and how far it is
  overtaken,   \* has a skip or a commit written over a running action?
  mistaken     \* has an action closed the transcript of another?

setupVars == <<run, worker, transcript, cancelFlag, asked, page,
               overtaken, mistaken>>

----------------------------------------------------------------------------
Actions == {"setup", "population", "finalize"}
Requests == {"cancel", "skip", "commit"}

Group == {"main", "helper"}
Detached == "detached"  \* a process that left the group and holds the outputs
Processes == Group \cup {Detached}

(* setup and finalize are "working" until they are "over".  Population goes *)
(* through "opening", "naming", "preparing", "installing", "spawning",     *)
(* "watching" and "looked" (the two halves of a turn of run_agent's loop), *)
(* "reaping", "joining", "reporting", "settling" and "closing".  An action *)
(* is "lost", a session "unwatched", if its thread is gone and nobody will *)
(* end its run.                                                            *)
Begun(action) == [at |-> IF action = "population" THEN "opening" ELSE "working",
                  result |-> "none", procs |-> {}]

NoPage == [at |-> "closed", of |-> 0, cursor |-> 0]

SetupInit ==
  /\ run = [status |-> "idle", action |-> "none", transcript |-> 0]
  /\ worker = <<>>
  /\ transcript = [of |-> 0, last |-> 0, done |-> FALSE]
  /\ cancelFlag = FALSE
  /\ asked = [v \in Visitor |-> "nothing"]
  /\ page = NoPage
  /\ overtaken = FALSE
  /\ mistaken = FALSE

SetRun(status) == run' = [run EXCEPT !.status = status]
Onto(i, place) == worker' = [worker EXCEPT ![i].at = place]
Resulting(i, place, result) ==
  worker' = [worker EXCEPT ![i].at = place, ![i].result = result]
SameHistory == UNCHANGED <<overtaken, mistaken>>

----------------------------------------------------------------------------
(* Mutant of BeginAction: it does not ask whether an action is running.    *)
BeginAnyway(action) ==
  /\ Len(worker) < MaxActions
  /\ run' = [run EXCEPT !.status = "running", !.action = action]
  /\ worker' = Append(worker, Begun(action))
  /\ UNCHANGED <<transcript, cancelFlag, asked, page>> /\ SameHistory

(* start_setup, start_population, finalize: begin.                         *)
BeginAction(action) ==
  /\ run.status # "running"
  /\ Len(worker) < MaxActions
  /\ run' = [run EXCEPT !.status = "running", !.action = action]
  /\ worker' = Append(worker, Begun(action))
  /\ UNCHANGED <<transcript, cancelFlag, asked, page>> /\ SameHistory

(* setup and finalize end; a panic of setup is caught and is a failure.    *)
EndWork(i) ==
  /\ worker[i].at = "working"
  /\ \E status \in {"succeeded", "failed"} : SetRun(status)
  /\ Onto(i, "over")
  /\ UNCHANGED <<transcript, cancelFlag, asked, page>> /\ SameHistory

(* thread::spawn panics in the request, or the work of finalize panics:    *)
(* the run stays "running", and nothing will change it.                    *)
LoseWork(i) ==
  /\ worker[i].at = "working"
  /\ Onto(i, "lost")
  /\ UNCHANGED <<run, transcript, cancelFlag, asked, page>> /\ SameHistory

(* start_population: start_transcript ...                                  *)
StartTranscript(i) ==
  /\ worker[i].at = "opening"
  /\ transcript' = [of |-> i, last |-> 0, done |-> FALSE]
  /\ Onto(i, "naming")
  /\ UNCHANGED <<run, cancelFlag, asked, page>> /\ SameHistory

(* ... and its id goes into the run; then the thread is spawned.           *)
NameTranscript(i) ==
  /\ worker[i].at = "naming"
  /\ run' = [run EXCEPT !.transcript = i]
  /\ Onto(i, "preparing")
  /\ UNCHANGED <<transcript, cancelFlag, asked, page>> /\ SameHistory

(* start_population's thread::spawn panics as well.                        *)
LoseSession(i) ==
  /\ worker[i].at = "preparing"
  /\ Onto(i, "unwatched")
  /\ UNCHANGED <<run, transcript, cancelFlag, asked, page>> /\ SameHistory

----------------------------------------------------------------------------
(* push: to the transcript there is, whoever's it is.                      *)
Pushed == [transcript EXCEPT !.last = @ + 1]

(* The thread announces itself; run_agent looks for the program and writes *)
(* the prompt.                                                             *)
PreparePrompt(i) ==
  /\ worker[i].at = "preparing"
  /\ transcript' = Pushed
  /\ \/ Onto(i, "installing")
     \/ Resulting(i, "reporting", "failed")
  /\ UNCHANGED <<run, cancelFlag, asked, page>> /\ SameHistory

(* SignalGuard::install forgets every cancellation before it.              *)
InstallGuard(i) ==
  /\ worker[i].at = "installing"
  /\ cancelFlag' = FALSE
  /\ Onto(i, "spawning")
  /\ UNCHANGED <<run, transcript, asked, page>> /\ SameHistory

(* The agent starts, or does not; or it does, but a reader of its outputs  *)
(* cannot be spawned: a panic, after which nobody watches the agent.       *)
SpawnAgent(i) ==
  /\ worker[i].at = "spawning"
  /\ \/ \E place \in {"watching", "unwatched"} :
          worker' = [worker EXCEPT ![i].at = place, ![i].procs = {"main"}]
     \/ Resulting(i, "reporting", "failed")
  /\ UNCHANGED <<run, transcript, cancelFlag, asked, page>> /\ SameHistory

(* The agent prints a line that decodes to an event.                       *)
ReceiveLine(i) ==
  /\ worker[i].at = "watching"
  /\ "main" \in worker[i].procs
  /\ transcript.last < MaxLines
  /\ transcript' = Pushed
  /\ UNCHANGED <<run, worker, cancelFlag, asked, page>> /\ SameHistory

(* terminate_tree: SIGTERM, a grace period, SIGKILL, to the whole group.   *)
Terminate(i, result) ==
  worker' = [worker EXCEPT ![i].at = "reaping", ![i].result = result,
                           ![i].procs = @ \ Group]

(* Mutant of SeeCancel: the flag is looked at only when a line arrives.    *)
SeeCancelOnLine(i) ==
  /\ worker[i].at = "watching" /\ cancelFlag
  /\ "main" \in worker[i].procs
  /\ transcript.last < MaxLines
  /\ transcript' = Pushed
  /\ Terminate(i, "cancelled")
  /\ UNCHANGED <<run, cancelFlag, asked, page>> /\ SameHistory

(* A turn of the loop looks first at the flag, ...                         *)
SeeCancel(i) ==
  /\ worker[i].at = "watching" /\ cancelFlag
  /\ Terminate(i, "cancelled")
  /\ UNCHANGED <<run, transcript, cancelFlag, asked, page>> /\ SameHistory

(* ... which may be set just after that.  A turn that finds neither flag,  *)
(* time-out nor exit changes nothing: only the last turn is told apart.    *)
LookPast(i) ==
  /\ worker[i].at = "watching" /\ ~cancelFlag
  /\ Onto(i, "looked")
  /\ UNCHANGED <<run, transcript, cancelFlag, asked, page>> /\ SameHistory

(* It looks then at the time (or try_wait fails) ...                       *)
SeeTimeout(i) ==
  /\ worker[i].at = "looked"
  /\ Terminate(i, "failed")
  /\ UNCHANGED <<run, transcript, cancelFlag, asked, page>> /\ SameHistory

(* ... and at the agent.                                                   *)
SeeExit(i) ==
  /\ worker[i].at = "looked"
  /\ "main" \notin worker[i].procs
  /\ Resulting(i, "reaping", "exited")
  /\ UNCHANGED <<run, transcript, cancelFlag, asked, page>> /\ SameHistory

(* Mutant of ReapGroup: helpers the agent left behind are let live.        *)
ReapNothing(i) ==
  /\ worker[i].at = "reaping"
  /\ Onto(i, "joining")
  /\ UNCHANGED <<run, transcript, cancelFlag, asked, page>> /\ SameHistory

(* What is left of the group is killed ...                                 *)
ReapGroup(i) ==
  /\ worker[i].at = "reaping"
  /\ worker' = [worker EXCEPT ![i].at = "joining", ![i].procs = @ \ Group]
  /\ UNCHANGED <<run, transcript, cancelFlag, asked, page>> /\ SameHistory

(* ... and the readers are joined: they return when nobody holds the       *)
(* agent's outputs any more.  What they had read is handled.               *)
JoinReaders(i) ==
  /\ worker[i].at = "joining"
  /\ worker[i].procs = {}
  /\ Onto(i, "reporting")
  /\ \/ UNCHANGED transcript
     \/ transcript.last < MaxLines /\ transcript' = Pushed
  /\ UNCHANGED <<run, cancelFlag, asked, page>> /\ SameHistory

----------------------------------------------------------------------------
(* The processes of an agent: they start others, which may leave the       *)
(* group, and end.                                                         *)
ForkHelper(i) ==
  /\ worker[i].procs \cap Group # {}
  /\ \E p \in Processes \ {"main"} : worker' = [worker EXCEPT ![i].procs = @ \cup {p}]
  /\ UNCHANGED <<run, transcript, cancelFlag, asked, page>> /\ SameHistory

ExitProcess(i, p) ==
  /\ p \in worker[i].procs
  /\ worker' = [worker EXCEPT ![i].procs = @ \ {p}]
  /\ UNCHANGED <<run, transcript, cancelFlag, asked, page>> /\ SameHistory

----------------------------------------------------------------------------
(* The thread pushes its last entry, ...                                   *)
PushOutcome(i) ==
  /\ worker[i].at = "reporting"
  /\ transcript' = Pushed
  /\ Onto(i, "settling")
  /\ UNCHANGED <<run, cancelFlag, asked, page>> /\ SameHistory

(* An agent that exited may have failed, or left files unpopulated; or its *)
(* session directory could not be removed.                                 *)
StatusesOf(result) ==
  IF result = "exited" THEN {"succeeded", "paused", "failed"} ELSE {result}

(* ... gives the run its status ...                                        *)
SettleRun(i) ==
  /\ worker[i].at = "settling"
  /\ \E status \in StatusesOf(worker[i].result) : SetRun(status)
  /\ Onto(i, "closing")
  /\ UNCHANGED <<transcript, cancelFlag, asked, page>> /\ SameHistory

(* ... and closes the transcript: the one there is (finish_transcript).    *)
FinishTranscript(i) ==
  /\ worker[i].at = "closing"
  /\ transcript' = [transcript EXCEPT !.done = TRUE]
  /\ mistaken' = (mistaken \/ transcript.of # i)
  /\ Resulting(i, "over", "none")
  /\ UNCHANGED <<run, cancelFlag, asked, page, overtaken>>

----------------------------------------------------------------------------
(* cancel, skip_population and commit look at the run ...                  *)
Ask(v, request) ==
  /\ asked[v] = "nothing"
  /\ \/ request = "cancel" /\ run.status = "running" /\ run.action = "population"
     \/ request # "cancel" /\ run.status # "running"
  /\ asked' = [asked EXCEPT ![v] = request]
  /\ UNCHANGED <<run, worker, transcript, cancelFlag, page>> /\ SameHistory

Answered(v) == asked' = [asked EXCEPT ![v] = "nothing"]

(* ... and act later: request_cancel, ...                                  *)
RequestCancel(v) ==
  /\ asked[v] = "cancel"
  /\ cancelFlag' = TRUE
  /\ Answered(v)
  /\ UNCHANGED <<run, worker, transcript, page>> /\ SameHistory

(* ... the flag that population is deferred, or the git commit, ...        *)
WriteOver(v) ==
  /\ asked[v] \in {"skip", "commit"}
  /\ run' = [run EXCEPT !.status = "succeeded",
                        !.action = IF asked[v] = "skip" THEN "population" ELSE "commit"]
  /\ overtaken' = (run.status = "running")
  /\ Answered(v)
  /\ UNCHANGED <<worker, transcript, cancelFlag, page, mistaken>>

(* ... unless there is no scaffold, the write fails, the review is stale   *)
(* or git refuses.                                                         *)
AnswerFailure(v) ==
  /\ asked[v] \in {"skip", "commit"}
  /\ Answered(v)
  /\ UNCHANGED <<run, worker, transcript, cancelFlag, page>> /\ SameHistory

----------------------------------------------------------------------------
(* transcript_events: for the transcript the run names, if there is still  *)
(* that one; from the start, or after the last entry seen.                 *)
OpenTranscriptEvents ==
  /\ page.at # "following"
  /\ run.transcript # 0 /\ transcript.of = run.transcript
  /\ \E after \in {0} \cup (IF page.of = run.transcript THEN {page.cursor} ELSE {}) :
       page' = [at |-> "following", of |-> run.transcript, cursor |-> after]
  /\ UNCHANGED <<run, worker, transcript, cancelFlag, asked>> /\ SameHistory

(* Where a batch of the entries after the cursor ends.                     *)
BatchEnd ==
  IF page.cursor + Batch < transcript.last THEN page.cursor + Batch ELSE transcript.last

(* Mutant of ReadTranscript: done does not wait for the last batch.        *)
ReadTranscriptCutShort ==
  /\ page.at = "following" /\ transcript.of = page.of
  /\ page' = [page EXCEPT !.cursor = BatchEnd,
                          !.at = IF transcript.done THEN "told" ELSE @]
  /\ UNCHANGED <<run, worker, transcript, cancelFlag, asked>> /\ SameHistory

(* read_transcript: a batch, and done when nothing comes after it.         *)
ReadTranscript ==
  /\ page.at = "following" /\ transcript.of = page.of
  /\ page' = [page EXCEPT !.cursor = BatchEnd,
                          !.at = IF transcript.done /\ BatchEnd = transcript.last
                                   THEN "told" ELSE @]
  /\ UNCHANGED <<run, worker, transcript, cancelFlag, asked>> /\ SameHistory

(* The stream breaks when the transcript has been replaced, and whenever   *)
(* the connection does.                                                    *)
CloseTranscriptEvents ==
  /\ page.at = "following"
  /\ page' = [page EXCEPT !.at = "closed"]
  /\ UNCHANGED <<run, worker, transcript, cancelFlag, asked>> /\ SameHistory

----------------------------------------------------------------------------
(* What an action does by itself.                                          *)
Advance(i) ==
  \/ EndWork(i) \/ StartTranscript(i) \/ NameTranscript(i) \/ PreparePrompt(i)
  \/ InstallGuard(i) \/ SpawnAgent(i)
  \/ SeeCancel(i) \/ LookPast(i) \/ SeeTimeout(i) \/ SeeExit(i)
  \/ ReapGroup(i) \/ JoinReaders(i)
  \/ PushOutcome(i) \/ SettleRun(i) \/ FinishTranscript(i)

(* Bound: a behaviour is followed until a request has overtaken an action: *)
(* two sessions then share one flag, one transcript and one run.           *)
SetupNext ==
  /\ ~overtaken
  /\ \/ \E action \in Actions : BeginAction(action)
     \/ \E i \in DOMAIN worker :
          \/ Advance(i) \/ LoseWork(i) \/ LoseSession(i) \/ ReceiveLine(i) \/ ForkHelper(i)
          \/ \E p \in Processes : ExitProcess(i, p)
     \/ \E v \in Visitor :
          \/ \E request \in Requests : Ask(v, request)
          \/ RequestCancel(v) \/ WriteOver(v) \/ AnswerFailure(v)
     \/ OpenTranscriptEvents \/ ReadTranscript \/ CloseTranscriptEvents

(* A thread goes on, and some turn is an agent's last: its session always  *)
(* has a time-out (SETUP_AGENT_TIMEOUT).  Nothing makes an agent end by    *)
(* itself, or what it starts.                                              *)
SetupFairness ==
  \A i \in 1..MaxActions :
    WF_setupVars(~overtaken /\ i \in DOMAIN worker /\ Advance(i))

SetupSpec == SetupInit /\ [][SetupNext]_setupVars /\ SetupFairness

----------------------------------------------------------------------------
(* While a process of an agent lives, the run is that agent's and is       *)
(* running, no other action is at work, and so no second agent edits the   *)
(* same files: unless a skip or a commit that had found the Hub idle has   *)
(* written its outcome over an action begun since (busy is asked before,   *)
(* set_run comes after).                                                   *)
NoAgentIsLeft ==
  overtaken \/ \A i \in DOMAIN worker :
    worker[i].procs # {} =>
      /\ run.status = "running" /\ run.transcript = i
      /\ \A j \in DOMAIN worker \ {i} : worker[j].at \in {"closing", "over"}

(* A cancellation that comes before a turn of the loop looks at the flag   *)
(* ends the session as cancelled, also when the agent prints nothing, or   *)
(* has exited and nobody has looked: unless another session is begun over  *)
(* it, whose guard clears the flag (run_agent's loop, SignalGuard).  One   *)
(* that comes after the look is lost if the same turn finds the time over  *)
(* or the agent gone.                                                      *)
CancelStops ==
  (cancelFlag /\ \E i \in DOMAIN worker : worker[i].at = "watching")
    ~> (overtaken \/ \E i \in DOMAIN worker : worker[i].result = "cancelled")

(* An agent's output is held open by a process that left its group, or the *)
(* thread of an action is gone.                                            *)
Held ==
  \E i \in DOMAIN worker :
    Detached \in worker[i].procs \/ worker[i].at \in {"lost", "unwatched"}

(* A set-up action does not run for ever, whatever processes its agent     *)
(* leaves in its group: they are killed before the readers of their        *)
(* outputs are waited for (run_agent).  It does so only if a process that  *)
(* left the group holds the outputs for ever, which nothing kills although *)
(* "the process tree is always reaped" (agent/mod.rs:475), or if its       *)
(* thread was lost.                                                        *)
SetupEnds == []<>(run.status # "running") \/ <>[]Held

(* A page is told that a transcript is done only when its session is over  *)
(* and the page has its last entry: unless another action has been begun,  *)
(* by an overtaking request or between the two last statements of a        *)
(* population (read_transcript, start_transcript and finish_transcript).   *)
TranscriptIsWhole ==
  page.at = "told" /\ ~overtaken /\ ~mistaken =>
    /\ worker[page.of].at = "over"
    /\ transcript.of = page.of => page.cursor = transcript.last
=============================================================================
