------------------------------ MODULE HubJobs ------------------------------
(***************************************************************************)
(* The Hub's index jobs (src/hub/jobs.rs, JobManager).                     *)
(*                                                                         *)
(* HTTP requests start and cancel jobs, each job runs on a thread of its   *)
(* own.  The job list is behind a mutex, but every update releases it      *)
(* before the new snapshot is broadcast, and takes it again to drop the    *)
(* cancel flag and to write the list to local/hub/jobs.json.  What a task  *)
(* (a request or a thread) still has to do after unlocking is in its `at`. *)
(*                                                                         *)
(* Job ids are fresh; here they are counted, so newest first is by id.     *)
(***************************************************************************)
EXTENDS Naturals, Sequences, FiniteSets

CONSTANTS
  Client,        \* concurrent HTTP requests of the job API
  Kind,          \* job kinds
  Program,       \* Kind -> what its executor does, in order
  Nothing,       \* a task has no snapshot to broadcast
  HistoryLimit,  \* HISTORY_LIMIT: jobs kept
  Capacity,      \* messages the broadcast channel keeps for a receiver
  MaxJobs,       \* bound: jobs started
  MaxCancels,    \* bound: cancel requests
  MaxFaults      \* bound: threads not spawned, lists not written, and Hub
                 \* processes that died, together

ASSUME JobsAssumption ==
  /\ HistoryLimit \in Nat \ {0}
  /\ Capacity \in Nat \ {0}
  /\ MaxJobs \in Nat
  /\ \A c \in Client : c \notin 0..MaxJobs
  /\ \A k \in Kind : Program[k] \in Seq({"phase", "check", "publish"})

VARIABLES
  jobs,       \* the listed ids -> their snapshots
  flags,      \* cancel_flags: id -> has cancellation been requested?
  disk,       \* jobs.json, as `jobs`
  task,       \* client or job id -> what that request or thread is doing
  inbox,      \* receiver of the broadcast -> its queue, and did it overflow?
  published,  \* the jobs whose executor has replaced an index
  created, cancels, restarts, failures

counts == <<cancels, restarts, failures>>
vars == <<jobs, flags, disk, task, inbox, published, created, counts>>

----------------------------------------------------------------------------
Ids == 1..MaxJobs
States == {"queued", "running", "succeeded", "failed", "interrupted"}

(* interrupted_reason together with the summary that goes with it.         *)
Reasons == {"none", "process_restart",
            "queued",        \* user_cancelled before it ran
            "unpublished",   \* "Cancelled before anything was published."
            "finishing"}     \* "Cancelled while finishing; ..."

Job == [id : Ids, kind : Kind, state : States, cancelRequested : BOOLEAN,
        why : Reasons, revision : Nat]

Terminal(job) == job.state \in {"succeeded", "failed", "interrupted"}
Active == {i \in DOMAIN jobs : ~Terminal(jobs[i])}

Places == {"idle",     \* no request; the job's thread does not exist
           "send",     \* unlocked; `snap` is to be broadcast
           "persist",  \* jobs.json is to be written
           "spawn",    \* start: the thread is to be spawned
           "flag", "mark",                \* cancel: saw it active; flag set
           "begin", "work",               \* thread: spawned; executor runs
           "stopped", "broken", "ended"}  \* Cancelled; Failed; returned

Task == [at : Places, doing : {"none", "start", "cancel", "run"},
         id : {0} \cup Ids, snap : Job \cup {Nothing}, step : Nat]

Idle == [at |-> "idle", doing |-> "none", id |-> 0, snap |-> Nothing, step |-> 0]
Ended == [Idle EXCEPT !.at = "ended"]
Thread(i) == [Idle EXCEPT !.at = "begin", !.doing = "run", !.id = i, !.step = 1]

(* Where a request or a thread is once its update is all done.             *)
Rest(t) == IF t.doing = "run" THEN Ended ELSE Idle

Init ==
  /\ jobs = <<>>
  /\ flags = <<>>
  /\ disk = <<>>
  /\ task = [a \in Client \cup Ids |-> Idle]
  /\ inbox = <<>>
  /\ published = {}
  /\ created = 0 /\ cancels = 0 /\ restarts = 0 /\ failures = 0

----------------------------------------------------------------------------
(* start: refused while a job is active, otherwise listed as queued; the   *)
(* list is cut to its newest HistoryLimit jobs.                            *)
Newest(ids) == {i \in ids : Cardinality({j \in ids : j > i}) < HistoryLimit}

(* Mutant of Start: another active job is no reason to refuse.             *)
StartAnyway(c, k) ==
  /\ task[c].at = "idle"
  /\ created < MaxJobs
  /\ LET new == created + 1
         job == [id |-> new, kind |-> k, state |-> "queued", cancelRequested |-> FALSE,
                 why |-> "none", revision |-> 1]
     IN /\ created' = new
        /\ jobs' = [i \in Newest(DOMAIN jobs \cup {new}) |->
                      IF i = new THEN job ELSE jobs[i]]
        /\ flags' = [i \in DOMAIN flags \cup {new} |-> IF i = new THEN FALSE ELSE flags[i]]
        /\ task' = [task EXCEPT ![c] = [at |-> "send", doing |-> "start", id |-> new,
                                        snap |-> job, step |-> 0]]
  /\ UNCHANGED <<disk, inbox, published, counts>>

Start(c, k) ==
  /\ task[c].at = "idle"
  /\ created < MaxJobs
  /\ Active = {}
  /\ LET new == created + 1
         job == [id |-> new, kind |-> k, state |-> "queued", cancelRequested |-> FALSE,
                 why |-> "none", revision |-> 1]
     IN /\ created' = new
        /\ jobs' = [i \in Newest(DOMAIN jobs \cup {new}) |->
                      IF i = new THEN job ELSE jobs[i]]
        /\ flags' = [i \in DOMAIN flags \cup {new} |-> IF i = new THEN FALSE ELSE flags[i]]
        /\ task' = [task EXCEPT ![c] = [at |-> "send", doing |-> "start", id |-> new,
                                        snap |-> job, step |-> 0]]
  /\ UNCHANGED <<disk, inbox, published, counts>>

(* The broadcast, after unlocking.  A receiver that is Capacity messages   *)
(* behind loses the oldest and will be told so.                            *)
Received(box, snap) ==
  IF Len(box.queue) < Capacity
    THEN [box EXCEPT !.queue = Append(@, snap)]
    ELSE [queue |-> Append(Tail(box.queue), snap), lagged |-> TRUE]

(* Mutant of AfterSend: a request that ended a job does not write the list.*)
AfterSendForgets(t) ==
  CASE t.doing = "start" \/ (t.doing = "run" /\ Terminal(t.snap))
                           -> [t EXCEPT !.at = "persist", !.snap = Nothing]
    [] t.doing = "run" /\ ~Terminal(t.snap) -> [t EXCEPT !.at = "work", !.snap = Nothing]
    [] t.doing = "cancel"  -> Idle

(* Start goes on to write the list; an update does so if it was terminal.  *)
AfterSend(t) ==
  CASE t.doing = "start" \/ Terminal(t.snap)  -> [t EXCEPT !.at = "persist", !.snap = Nothing]
    [] t.doing = "run" /\ ~Terminal(t.snap)   -> [t EXCEPT !.at = "work", !.snap = Nothing]
    [] t.doing = "cancel" /\ ~Terminal(t.snap) -> Idle

Send(a) ==
  /\ task[a].at = "send"
  /\ inbox' = [w \in DOMAIN inbox |-> Received(inbox[w], task[a].snap)]
  /\ task' = [task EXCEPT ![a] = AfterSend(@)]
  /\ UNCHANGED <<jobs, flags, disk, published, created, counts>>

(* After a terminal update its cancel flag is dropped, which nobody reads  *)
(* any more; then persist reads and writes the list under the mutex, and   *)
(* ignores errors while writing.                                           *)
WithoutFlag(t) ==
  [i \in DOMAIN flags \ (IF t.doing = "start" THEN {} ELSE {t.id}) |-> flags[i]]

AfterPersist(t) == IF t.doing = "start" THEN [t EXCEPT !.at = "spawn"] ELSE Rest(t)

Persist(a) ==
  /\ task[a].at = "persist"
  /\ disk' = jobs
  /\ flags' = WithoutFlag(task[a])
  /\ task' = [task EXCEPT ![a] = AfterPersist(@)]
  /\ UNCHANGED <<jobs, inbox, published, created, counts>>

PersistFails(a) ==
  /\ task[a].at = "persist"
  /\ restarts + failures < MaxFaults
  /\ failures' = failures + 1
  /\ flags' = WithoutFlag(task[a])
  /\ task' = [task EXCEPT ![a] = AfterPersist(@)]
  /\ UNCHANGED <<jobs, disk, inbox, published, created, cancels, restarts>>

Spawn(c) ==
  /\ task[c].at = "spawn"
  /\ task' = [task EXCEPT ![task[c].id] = Thread(task[c].id), ![c] = Idle]
  /\ UNCHANGED <<jobs, flags, disk, inbox, published, created, counts>>

(* "could not start job": the job stays listed as queued.                  *)
SpawnFails(c) ==
  /\ task[c].at = "spawn"
  /\ restarts + failures < MaxFaults
  /\ failures' = failures + 1
  /\ task' = [task EXCEPT ![c] = Idle]
  /\ UNCHANGED <<jobs, flags, disk, inbox, published, created, cancels, restarts>>

----------------------------------------------------------------------------
(* A locked update of a listed job, to be broadcast by `a`.                *)
Changed(job) == [job EXCEPT !.revision = @ + 1]

Update(i, job) == jobs' = [jobs EXCEPT ![i] = Changed(job)]

Hold(a, job) == task' = [task EXCEPT ![a].at = "send", ![a].snap = Changed(job)]

(* begin: a job cancelled while queued never runs.                         *)
Begin(i) ==
  /\ task[i].at = "begin"
  /\ IF i \in DOMAIN jobs /\ jobs[i].state = "queued"
       THEN LET job == [jobs[i] EXCEPT !.state = "running"]
            IN Update(i, job) /\ Hold(i, job)
       ELSE task' = [task EXCEPT ![i] = Ended] /\ UNCHANGED jobs
  /\ UNCHANGED <<flags, disk, inbox, published, created, counts>>

(* The executor: its next statement, or none.                              *)
At(i, statement) ==
  /\ task[i].at = "work"
  /\ i \in DOMAIN jobs
  /\ task[i].step \in DOMAIN Program[jobs[i].kind]
  /\ Program[jobs[i].kind][task[i].step] = statement

ReportPhase(i) ==
  /\ At(i, "phase")
  /\ Update(i, jobs[i])
  /\ task' = [task EXCEPT ![i].at = "send", ![i].snap = Changed(jobs[i]), ![i].step = @ + 1]
  /\ UNCHANGED <<flags, disk, inbox, published, created, counts>>

(* checkpoint: JobFailure::Cancelled once the flag is set.                 *)
Checkpoint(i) ==
  /\ At(i, "check")
  /\ LET cancelled == i \in DOMAIN flags /\ flags[i]
     IN \/ cancelled /\ task' = [task EXCEPT ![i].at = "stopped"]
        \/ ~cancelled /\ task' = [task EXCEPT ![i].step = @ + 1]
  /\ UNCHANGED <<jobs, flags, disk, inbox, published, created, counts>>

(* An index is replaced, or found up to date.                              *)
Publish(i) ==
  /\ At(i, "publish")
  /\ published' \in {published, published \cup {i}}
  /\ task' = [task EXCEPT ![i].step = @ + 1]
  /\ UNCHANGED <<jobs, flags, disk, inbox, created, counts>>

(* It returns Failed or panics, wherever it is.                            *)
ExecutorFails(i) ==
  /\ \E statement \in {"phase", "check", "publish"} : At(i, statement)
  /\ task' = [task EXCEPT ![i].at = "broken"]
  /\ UNCHANGED <<jobs, flags, disk, inbox, published, created, counts>>

(* Mutant of Outcome: no cancel_won.                                       *)
OutcomeRegardless(job, at) ==
  CASE at = "stopped" -> [job EXCEPT !.state = "interrupted", !.why = "unpublished"]
    [] at = "work"    -> [job EXCEPT !.state = "succeeded"]
    [] at = "broken"  -> [job EXCEPT !.state = "failed"]

(* The outcome, unless cancel_won.                                         *)
Outcome(job, at) ==
  CASE at = "stopped" -> [job EXCEPT !.state = "interrupted", !.why = "unpublished"]
    [] at # "stopped" /\ job.cancelRequested
                      -> [job EXCEPT !.state = "interrupted", !.why = "finishing"]
    [] at = "work" /\ ~job.cancelRequested   -> [job EXCEPT !.state = "succeeded"]
    [] at = "broken" /\ ~job.cancelRequested -> [job EXCEPT !.state = "failed"]

(* Mutant of Finish: a cancelled thread returns without its last update.   *)
FinishSilently(i) ==
  /\ \/ task[i].at = "work" /\ i \in DOMAIN jobs
                            /\ task[i].step > Len(Program[jobs[i].kind])
     \/ task[i].at \in {"stopped", "broken"}
  /\ LET job == Outcome(jobs[i], task[i].at)
     IN IF task[i].at = "stopped"
          THEN task' = [task EXCEPT ![i] = Ended] /\ UNCHANGED jobs
          ELSE Update(i, job) /\ Hold(i, job)
  /\ UNCHANGED <<flags, disk, inbox, published, created, counts>>

Finish(i) ==
  /\ \/ task[i].at = "work" /\ i \in DOMAIN jobs
                            /\ task[i].step > Len(Program[jobs[i].kind])
     \/ task[i].at \in {"stopped", "broken"}
  /\ LET job == Outcome(jobs[i], task[i].at)
     IN Update(i, job) /\ Hold(i, job)
  /\ UNCHANGED <<flags, disk, inbox, published, created, counts>>

----------------------------------------------------------------------------
(* cancel: the job is looked up; a terminal one is returned as it is.      *)
Cancel(c, i) ==
  /\ task[c].at = "idle"
  /\ cancels < MaxCancels
  /\ i \in Active
  /\ cancels' = cancels + 1
  /\ task' = [task EXCEPT ![c] = [Idle EXCEPT !.at = "flag", !.doing = "cancel", !.id = i]]
  /\ UNCHANGED <<jobs, flags, disk, inbox, published, created, restarts, failures>>

SetFlag(c) ==
  /\ task[c].at = "flag"
  /\ flags' = [i \in DOMAIN flags |-> flags[i] \/ i = task[c].id]
  /\ task' = [task EXCEPT ![c].at = "mark"]
  /\ UNCHANGED <<jobs, disk, inbox, published, created, counts>>

(* Mutant of Marked: the job is not looked at again.                       *)
MarkedBlindly(job) ==
  CASE job.state = "queued" -> [job EXCEPT !.cancelRequested = TRUE,
                                           !.state = "interrupted", !.why = "queued"]
    [] job.state # "queued" -> [job EXCEPT !.cancelRequested = TRUE]

(* "The job may have finished between the check above and this update."    *)
Marked(job) ==
  CASE Terminal(job) -> job
    [] job.state = "queued" -> [job EXCEPT !.cancelRequested = TRUE,
                                           !.state = "interrupted", !.why = "queued"]
    [] job.state = "running" -> [job EXCEPT !.cancelRequested = TRUE]

MarkCancelled(c) ==
  /\ task[c].at = "mark"
  /\ LET i == task[c].id
     IN IF i \in DOMAIN jobs
          THEN Update(i, Marked(jobs[i])) /\ Hold(c, Marked(jobs[i]))
          ELSE task' = [task EXCEPT ![c] = Idle] /\ UNCHANGED jobs
  /\ UNCHANGED <<flags, disk, inbox, published, created, counts>>

----------------------------------------------------------------------------
(* The Hub dies and is started again: jobs.json is read, what was active   *)
(* is interrupted, and the list is written back.                           *)
Restored(job) ==
  IF Terminal(job) THEN job
  ELSE Changed([job EXCEPT !.state = "interrupted", !.why = "process_restart"])

Restart ==
  /\ restarts + failures < MaxFaults
  /\ restarts' = restarts + 1
  /\ jobs' = [i \in DOMAIN disk |-> Restored(disk[i])]
  /\ disk' = jobs'
  /\ flags' = <<>>
  /\ task' = [a \in Client \cup Ids |-> Idle]
  /\ inbox' = <<>>
  /\ UNCHANGED <<published, created, cancels, failures>>

(* What a request or a thread does next of its own accord.                 *)
RequestStep(c) == Send(c) \/ Persist(c) \/ Spawn(c) \/ SetFlag(c) \/ MarkCancelled(c)
ThreadStep(i) == \/ Send(i) \/ Persist(i)
                 \/ Begin(i) \/ ReportPhase(i) \/ Checkpoint(i) \/ Publish(i) \/ Finish(i)

Step ==
  \/ \E c \in Client : \/ \E k \in Kind : Start(c, k)
                       \/ \E i \in Ids : Cancel(c, i)
                       \/ RequestStep(c)
                       \/ SpawnFails(c)
  \/ \E i \in Ids : ThreadStep(i) \/ ExecutorFails(i)
  \/ \E a \in Client \cup Ids : PersistFails(a)

Next == Step \/ Restart

Spec == Init /\ [][Next]_vars

(* Requests and threads are scheduled; nobody has to ask for anything.     *)
FairSpec == /\ Spec
            /\ \A c \in Client : WF_vars(RequestStep(c))
            /\ \A i \in Ids : WF_vars(ThreadStep(i))

----------------------------------------------------------------------------
(* Every variable keeps its range.                                         *)
IsList(f, S) == DOMAIN f \subseteq Ids /\ f \in [DOMAIN f -> S]

TypeOK ==
  /\ IsList(jobs, Job)
  /\ IsList(disk, Job)
  /\ IsList(flags, BOOLEAN)
  /\ task \in [Client \cup Ids -> Task]
  /\ \A a \in Client \cup Ids :
       /\ task[a].at \notin {"idle", "ended"} => task[a].doing # "none"
       /\ task[a].at = "send" => task[a].snap \in Job
  /\ published \in SUBSET Ids
  /\ created \in 0..MaxJobs

(* The executor of job i is running, or is between two of its statements.  *)
Executing(i) ==
  \/ task[i].at \in {"work", "stopped", "broken"}
  \/ task[i].at = "send" /\ ~Terminal(task[i].snap)

(* "Only one job runs at a time" (docs/hub.md:93): at most one listed job  *)
(* is active, and an executor runs only for a job listed as running, so    *)
(* two executors never run together and a job cancelled while queued never *)
(* starts working.                                                         *)
OneAtATime ==
  /\ \A i, j \in Active : i = j
  /\ \A i \in Ids : Executing(i) => i \in DOMAIN jobs /\ jobs[i].state = "running"

(* "Once cancellation was requested the job ends `interrupted`, never      *)
(* `succeeded`/`failed` with a dangling request" (jobs.rs:361), whichever  *)
(* of the request and the executor is first, in the list and on disk.  And *)
(* one that says "Cancelled before anything was published." (jobs.rs:393)  *)
(* has replaced no index, unless its executor replaces one before it looks *)
(* at the flag for the last time, as wiki_job and cozo_job do.             *)
Honoured(list) ==
  \A i \in DOMAIN list :
    list[i].cancelRequested /\ Terminal(list[i]) => list[i].state = "interrupted"

PublishesEarly(kind) ==
  \E m, n \in DOMAIN Program[kind] :
    m < n /\ Program[kind][m] = "publish" /\ Program[kind][n] = "check"

Truthful(list) ==
  \A i \in DOMAIN list :
    list[i].why = "unpublished" /\ i \in published => PublishesEarly(list[i].kind)

CancelWins == Honoured(jobs) /\ Honoured(disk)
CancelledInTime == Truthful(jobs) /\ Truthful(disk)

CancelHonoured == CancelWins /\ CancelledInTime

(* An outcome is final: no late phase, second update or cancellation       *)
(* rewrites it while the process lives, and once it is in jobs.json no     *)
(* restart or later write changes it (it is only dropped when it is old).  *)
Keeps(old, new) ==
  \A i \in DOMAIN old \cap DOMAIN new :
    Terminal(old[i]) => new[i] = [old[i] EXCEPT !.revision = new[i].revision]
OutcomeIsFinal ==
  [][Keeps(disk, disk') /\ (restarts' = restarts => Keeps(jobs, jobs'))]_vars

(* jobs.json is written by whoever ended or started a job, each after      *)
(* unlocking.  Whatever order they come in, once all are done it holds the *)
(* outcome of every listed job, if no write failed.                        *)
DiskCatchesUp ==
  (\A a \in Client \cup Ids : task[a].at \in {"idle", "ended"}) /\ failures = 0
    => \A i \in DOMAIN jobs : i \in DOMAIN disk /\ (Terminal(jobs[i]) => disk[i] = jobs[i])

(* Every started job comes to an end and makes room for the next one,      *)
(* unless its thread could not be spawned.                                 *)
Stranded(i) == /\ jobs[i].state = "queued"
               /\ task[i].at = "idle"
               /\ \A c \in Client : task[c].doing = "start" => task[c].id # i
JobsEnd == \A i \in Ids : i \in Active ~> (i \notin Active \/ Stranded(i))
=============================================================================
