--------------------------- MODULE HubJobs_proofs ---------------------------
(***************************************************************************)
(* Proofs about HubJobs, for any number of requests, jobs and kinds and    *)
(* any executor programs: the job list and the threads agree on which one  *)
(* job is running, a requested cancellation is what the job ends with and  *)
(* what it says of itself is true, outcomes are final, and jobs.json ends  *)
(* up with all of them.                                                    *)
(***************************************************************************)
EXTENDS HubJobs, TLAPS

JobsInv == TypeOK /\ OneAtATime /\ CancelWins

(* The tasks of requests are not threads.                                  *)
LEMMA ClientsAreNotThreads == \A c \in Client : c \notin Ids
BY JobsAssumption DEF JobsAssumption, Ids

(* A locked update only counts the revision.                               *)
LEMMA ChangedJob ==
  ASSUME NEW job \in Job
  PROVE  /\ Changed(job) \in Job
         /\ Changed(job).state = job.state
         /\ Changed(job).cancelRequested = job.cancelRequested
         /\ Terminal(Changed(job)) <=> Terminal(job)
BY DEF Job, Changed, Terminal

(* Every outcome ends the job, as interrupted if that was requested.       *)
LEMMA OutcomeEnds ==
  ASSUME NEW job \in Job, NEW at \in {"work", "stopped", "broken"}
  PROVE  /\ Outcome(job, at) \in Job
         /\ Terminal(Outcome(job, at))
         /\ Outcome(job, at).cancelRequested => Outcome(job, at).state = "interrupted"
<1>1. CASE at = "stopped"
  BY <1>1 DEF Outcome, Job, Terminal, States, Reasons
<1>2. CASE at # "stopped" /\ job.cancelRequested
  BY <1>2 DEF Outcome, Job, Terminal, States, Reasons
<1>3. CASE at = "work" /\ ~job.cancelRequested
  BY <1>3 DEF Outcome, Job, Terminal, States, Reasons
<1>4. CASE at = "broken" /\ ~job.cancelRequested
  BY <1>4 DEF Outcome, Job, Terminal, States, Reasons
<1> QED BY <1>1, <1>2, <1>3, <1>4

(* A cancellation ends a queued job and nothing else, and leaves no        *)
(* terminal job with a request it does not honour.                         *)
LEMMA MarkedJob ==
  ASSUME NEW job \in Job,
         job.cancelRequested /\ Terminal(job) => job.state = "interrupted"
  PROVE  /\ Marked(job) \in Job
         /\ job.state = "running" => Marked(job).state = "running"
         /\ Terminal(job) => Terminal(Marked(job))
         /\ Marked(job).cancelRequested /\ Terminal(Marked(job))
              => Marked(job).state = "interrupted"
<1>1. CASE Terminal(job)
  <2>1. Marked(job) = job
    BY <1>1 DEF Marked, Terminal
  <2> QED BY <2>1
<1>2. CASE job.state = "queued"
  BY <1>2 DEF Marked, Job, Terminal, States, Reasons
<1>3. CASE job.state = "running"
  BY <1>3 DEF Marked, Job, Terminal, States, Reasons
<1> QED BY <1>1, <1>2, <1>3 DEF Job, States, Terminal

(* A restart makes every job it reads terminal and honours its request.    *)
LEMMA RestoredJob ==
  ASSUME NEW job \in Job
  PROVE  /\ Restored(job) \in Job
         /\ Terminal(Restored(job))
         /\ Restored(job).state = job.state \/ Restored(job).state = "interrupted"
         /\ Restored(job).cancelRequested = job.cancelRequested
         /\ Terminal(job) => Restored(job) = job
<1>1. CASE Terminal(job)
  BY <1>1 DEF Restored
<1>2. CASE ~Terminal(job)
  <2> DEFINE ended == [job EXCEPT !.state = "interrupted", !.why = "process_restart"]
  <2>1. /\ ended \in Job
        /\ ended.state = "interrupted"
        /\ ended.cancelRequested = job.cancelRequested
    BY DEF Job, States, Reasons
  <2>2. Restored(job) = Changed(ended)
    BY <1>2 DEF Restored
  <2> HIDE DEF ended
  <2> QED BY <1>2, <2>1, <2>2, ChangedJob DEF Terminal
<1> QED BY <1>1, <1>2

(* What replacing one listed job by a later version of it takes to keep    *)
(* the list well formed, at most one job active and the requests honoured. *)
LEMMA UpdateKeepsList ==
  ASSUME JobsInv, NEW i \in DOMAIN jobs, NEW job \in Job, Update(i, job),
         Terminal(jobs[i]) => Terminal(job),
         job.cancelRequested /\ Terminal(job) => job.state = "interrupted"
  PROVE  /\ IsList(jobs, Job)'
         /\ DOMAIN jobs' = DOMAIN jobs
         /\ jobs'[i] = Changed(job)
         /\ \A j \in DOMAIN jobs \ {i} : jobs'[j] = jobs[j]
         /\ \A j, k \in Active' : j = k
         /\ Honoured(jobs')
<1>1. IsList(jobs, Job) /\ Changed(job) \in Job
  BY ChangedJob DEF JobsInv, TypeOK
<1>2. jobs' = [jobs EXCEPT ![i] = Changed(job)]
  BY DEF Update
<1>3. /\ IsList(jobs, Job)'
      /\ DOMAIN jobs' = DOMAIN jobs
      /\ jobs'[i] = Changed(job)
      /\ \A j \in DOMAIN jobs \ {i} : jobs'[j] = jobs[j]
  BY <1>1, <1>2 DEF IsList
<1>4. Active' \subseteq Active
  BY <1>3, ChangedJob DEF Active
<1>5. \A j, k \in Active' : j = k
  BY <1>4 DEF JobsInv, OneAtATime
<1>6. Honoured(jobs')
  BY <1>3, ChangedJob DEF JobsInv, CancelWins, Honoured
<1> QED BY <1>3, <1>5, <1>6

----------------------------------------------------------------------------
(* What a step has to keep of the tasks.                                   *)
TasksOK ==
  /\ task \in [Client \cup Ids -> Task]
  /\ \A a \in Client \cup Ids :
       /\ task[a].at \notin {"idle", "ended"} => task[a].doing # "none"
       /\ task[a].at = "send" => task[a].snap \in Job

(* One task moves on.                                                      *)
LEMMA OneTaskMoves ==
  ASSUME JobsInv, NEW a \in Client \cup Ids, NEW t \in Task,
         task' = [task EXCEPT ![a] = t],
         t.at \notin {"idle", "ended"} => t.doing # "none",
         t.at = "send" => t.snap \in Job
  PROVE  /\ TasksOK'
         /\ task'[a] = t
         /\ \A b \in Client \cup Ids : b # a => task'[b] = task[b]
BY DEF JobsInv, TypeOK, TasksOK

(* Steps that leave the list alone keep the invariant when no executor     *)
(* starts and what is written to disk is the list or what was there.       *)
LEMMA ListUnchanged ==
  ASSUME JobsInv, UNCHANGED jobs, disk' \in {disk, jobs}, TasksOK',
         IsList(flags, BOOLEAN)', published' \in SUBSET Ids, UNCHANGED created,
         \A i \in Ids : Executing(i)' => Executing(i)
  PROVE  JobsInv'
<1>1. TypeOK'
  BY DEF JobsInv, TypeOK, TasksOK, IsList
<1>2. OneAtATime'
  BY DEF JobsInv, OneAtATime, Active
<1>3. CancelWins'
  BY DEF JobsInv, CancelWins, Honoured
<1> QED BY <1>1, <1>2, <1>3 DEF JobsInv

(* Steps by which task `a` updates job i keep it when `a` goes to broadcast *)
(* the new snapshot and no executor is left with a job that is not running.*)
LEMMA JobUpdated ==
  ASSUME JobsInv, NEW i \in DOMAIN jobs, NEW job \in Job, Update(i, job),
         Terminal(jobs[i]) => Terminal(job),
         job.cancelRequested /\ Terminal(job) => job.state = "interrupted",
         UNCHANGED <<flags, disk, published, created>>, TasksOK',
         \A j \in Ids \ {i} : Executing(j)' => Executing(j),
         Executing(i)' => job.state = "running"
  PROVE  JobsInv'
<1>1. /\ IsList(jobs, Job)'
      /\ DOMAIN jobs' = DOMAIN jobs
      /\ jobs'[i] = Changed(job)
      /\ \A j \in DOMAIN jobs \ {i} : jobs'[j] = jobs[j]
      /\ \A j, k \in Active' : j = k
      /\ Honoured(jobs')
  BY UpdateKeepsList
<1>2. TypeOK'
  BY <1>1 DEF JobsInv, TypeOK, TasksOK, IsList
<1>3. OneAtATime'
  <2>1. \A j \in Ids : Executing(j)' => j \in DOMAIN jobs' /\ jobs'[j].state = "running"
    BY <1>1, ChangedJob DEF JobsInv, OneAtATime
  <2> QED BY <1>1, <2>1 DEF OneAtATime
<1>4. CancelWins'
  BY <1>1 DEF JobsInv, CancelWins, Honoured
<1> QED BY <1>2, <1>3, <1>4 DEF JobsInv

----------------------------------------------------------------------------
(* The invariant holds with no job listed and no task doing anything.      *)
LEMMA JobsInit == Init => JobsInv
<1> SUFFICES ASSUME Init PROVE JobsInv
  OBVIOUS
<1>1. DOMAIN jobs = {} /\ DOMAIN disk = {} /\ DOMAIN flags = {}
  BY DEF Init
<1>2. Idle \in Task /\ Idle.at = "idle"
  BY DEF Idle, Task, Places, Job
<1>3. TypeOK
  BY <1>1, <1>2, JobsAssumption DEF Init, TypeOK, IsList, JobsAssumption
<1>4. \A i \in Ids : ~Executing(i)
  BY <1>2 DEF Init, Executing
<1> QED BY <1>1, <1>3, <1>4 DEF JobsInv, OneAtATime, Active, CancelWins, Honoured

(* start: nothing was active, so no executor was running either.           *)
LEMMA StartKeeps ==
  ASSUME JobsInv, NEW c \in Client, NEW k \in Kind, Start(c, k)
  PROVE  JobsInv'
<1> DEFINE new == created + 1
           job == [id |-> new, kind |-> k, state |-> "queued", cancelRequested |-> FALSE,
                   why |-> "none", revision |-> 1]
           t == [at |-> "send", doing |-> "start", id |-> new, snap |-> job, step |-> 0]
<1>1. new \in Ids /\ created' = new /\ new \in 0..MaxJobs
  BY JobsAssumption DEF JobsInv, TypeOK, Start, Ids, JobsAssumption
<1>2. job \in Job /\ ~Terminal(job)
  BY <1>1 DEF Job, States, Reasons, Terminal
<1>3. TasksOK' /\ \A i \in Ids : task'[i] = task[i]
  <2>1. t \in Task
    BY <1>1, <1>2 DEF Task, Places
  <2>2. task' = [task EXCEPT ![c] = t]
    BY DEF Start
  <2> HIDE DEF t
  <2>3. t.at = "send" /\ t.doing = "start" /\ t.snap = job
    BY DEF t
  <2> HIDE DEF job
  <2>4. t.at \notin {"idle", "ended"} => t.doing # "none"
    BY <2>3
  <2>5. t.at = "send" => t.snap \in Job
    BY <1>2, <2>3
  <2>6. TasksOK' /\ \A b \in Client \cup Ids : b # c => task'[b] = task[b]
    BY <2>1, <2>2, <2>4, <2>5, OneTaskMoves
  <2> QED BY <2>6, ClientsAreNotThreads
<1>4. /\ DOMAIN jobs' \subseteq DOMAIN jobs \cup {new}
      /\ jobs' = [i \in DOMAIN jobs' |-> IF i = new THEN job ELSE jobs[i]]
  BY DEF Start, Newest
<1>5. /\ DOMAIN flags' = DOMAIN flags \cup {new}
      /\ flags' = [i \in DOMAIN flags' |-> IF i = new THEN FALSE ELSE flags[i]]
      /\ UNCHANGED <<disk, published>>
  BY DEF Start
<1>6. \A i \in DOMAIN jobs : Terminal(jobs[i])
  BY DEF Start, Active
<1> HIDE DEF job, new
<1>7. IsList(jobs, Job)' /\ IsList(flags, BOOLEAN)'
  BY <1>1, <1>2, <1>4, <1>5 DEF JobsInv, TypeOK, IsList
<1>8. TypeOK'
  BY <1>1, <1>3, <1>5, <1>7 DEF JobsInv, TypeOK, TasksOK, IsList
<1>9. OneAtATime'
  <2>1. Active' \subseteq {new}
    BY <1>4, <1>6 DEF Active
  <2>2. \A i \in Ids : ~Executing(i)
    BY <1>6 DEF JobsInv, OneAtATime, Terminal
  <2>3. \A i \in Ids : ~Executing(i)'
    BY <1>3, <2>2 DEF Executing
  <2> QED BY <2>1, <2>3 DEF OneAtATime
<1>10. CancelWins'
  BY <1>2, <1>4, <1>5 DEF JobsInv, CancelWins, Honoured
<1> QED BY <1>8, <1>9, <1>10 DEF JobsInv

(* The broadcast: a task goes on from where it held the snapshot.          *)
LEMMA SendKeeps ==
  ASSUME JobsInv, NEW a \in Client \cup Ids, Send(a)
  PROVE  JobsInv'
<1> DEFINE old == task[a]
           t == AfterSend(old)
<1>1. old \in Task /\ old.doing # "none" /\ old.at = "send" /\ old.snap \in Job
  BY DEF JobsInv, TypeOK, Send
<1>2. /\ t \in Task
      /\ t.at \notin {"idle", "ended"} => t.doing # "none"
      /\ t.at # "send"
      /\ t.at \in {"work", "stopped", "broken"} => ~Terminal(old.snap)
  <2> HIDE DEF old
  <2>1. CASE old.doing = "start" \/ Terminal(old.snap)
    BY <1>1, <2>1 DEF AfterSend, Task, Places
  <2>2. CASE old.doing = "run" /\ ~Terminal(old.snap)
    BY <1>1, <2>2 DEF AfterSend, Task, Places
  <2>3. CASE old.doing = "cancel" /\ ~Terminal(old.snap)
    BY <1>1, <2>3 DEF AfterSend, Task, Places, Idle, Job
  <2> QED BY <1>1, <2>1, <2>2, <2>3 DEF Task
<1>3. task' = [task EXCEPT ![a] = t]
  BY DEF Send
<1> HIDE DEF t
<1>4. TasksOK' /\ task'[a] = t /\ \A b \in Client \cup Ids : b # a => task'[b] = task[b]
  BY <1>2, <1>3, OneTaskMoves
<1>5. \A i \in Ids : Executing(i)' => Executing(i)
  BY <1>1, <1>2, <1>4 DEF Executing
<1> QED BY <1>4, <1>5, ListUnchanged DEF Send, JobsInv, TypeOK, IsList, counts

(* Writing the list, or failing to.                                        *)
LEMMA PersistKeeps ==
  ASSUME JobsInv, NEW a \in Client \cup Ids, Persist(a) \/ PersistFails(a)
  PROVE  JobsInv'
<1> DEFINE t == AfterPersist(task[a])
<1>1. task[a] \in Task /\ task[a].at = "persist" /\ task[a].doing # "none"
  BY DEF JobsInv, TypeOK, Persist, PersistFails
<1>2. /\ t \in Task
      /\ t.at \notin {"idle", "ended"} => t.doing # "none"
      /\ t.at \in {"spawn", "idle", "ended"}
  BY <1>1 DEF AfterPersist, Rest, Ended, Idle, Task, Places, Job
<1>3. task' = [task EXCEPT ![a] = t]
  BY DEF Persist, PersistFails
<1> HIDE DEF t
<1>4. TasksOK' /\ task'[a] = t /\ \A b \in Client \cup Ids : b # a => task'[b] = task[b]
  BY <1>2, <1>3, OneTaskMoves
<1>5. \A i \in Ids : Executing(i)' => Executing(i)
  BY <1>2, <1>4 DEF Executing
<1>6. IsList(flags, BOOLEAN)'
  BY DEF Persist, PersistFails, WithoutFlag, JobsInv, TypeOK, IsList
<1>7. UNCHANGED <<jobs, published, created>> /\ disk' \in {disk, jobs}
  BY DEF Persist, PersistFails, counts
<1> QED BY <1>4, <1>5, <1>6, <1>7, ListUnchanged DEF JobsInv, TypeOK

(* The thread is spawned, at begin, or it is not.                          *)
LEMMA SpawnKeeps ==
  ASSUME JobsInv, NEW c \in Client, Spawn(c) \/ SpawnFails(c)
  PROVE  JobsInv'
<1> DEFINE i == task[c].id
<1>1. Idle \in Task /\ Idle.at = "idle"
  BY DEF Idle, Task, Places, Job
<1>2. \A j \in Ids : Thread(j) \in Task /\ Thread(j).at = "begin" /\ Thread(j).doing = "run"
  BY DEF Thread, Idle, Task, Places, Job
<1>3. /\ \A a \in Client \cup Ids :
           \/ task'[a] = task[a]
           \/ task'[a] = Idle
           \/ a \in Ids /\ task'[a] = Thread(a)
      /\ task' \in [Client \cup Ids -> Task]
  <2>1. CASE Spawn(c)
    <3>1. task' = [[task EXCEPT ![i] = Thread(i)] EXCEPT ![c] = Idle]
      BY <2>1 DEF Spawn
    <3>2. i \in {0} \cup Ids /\ 0 \notin Ids
      BY DEF JobsInv, TypeOK, Task, Ids
    <3>3. CASE i \in Ids
      BY <1>1, <1>2, <3>1, <3>3 DEF JobsInv, TypeOK
    <3>4. CASE i = 0
      <4>1. 0 \notin Client \cup Ids
        BY <3>2, JobsAssumption DEF JobsAssumption
      <4> QED BY <1>1, <3>1, <3>4, <4>1 DEF JobsInv, TypeOK
    <3> QED BY <3>2, <3>3, <3>4
  <2>2. CASE SpawnFails(c)
    BY <1>1, <2>2 DEF SpawnFails, JobsInv, TypeOK
  <2> QED BY <2>1, <2>2
<1>4. TasksOK'
  BY <1>1, <1>2, <1>3 DEF JobsInv, TypeOK, TasksOK
<1>5. \A j \in Ids : Executing(j)' => Executing(j)
  BY <1>1, <1>2, <1>3 DEF Executing
<1>6. UNCHANGED <<jobs, flags, disk, published, created>>
  BY DEF Spawn, SpawnFails, counts
<1> QED BY <1>4, <1>5, <1>6, ListUnchanged DEF JobsInv, TypeOK, IsList

(* begin: a queued job is running and its thread is its executor.          *)
LEMMA BeginKeeps ==
  ASSUME JobsInv, NEW i \in Ids, Begin(i)
  PROVE  JobsInv'
<1>0. task[i] \in Task /\ task[i].at = "begin" /\ task[i].doing # "none"
  BY DEF JobsInv, TypeOK, Begin
<1>1. CASE i \in DOMAIN jobs /\ jobs[i].state = "queued"
  <2> DEFINE job == [jobs[i] EXCEPT !.state = "running"]
             t == [task[i] EXCEPT !.at = "send", !.snap = Changed(job)]
  <2>1. /\ job \in Job /\ job.state = "running" /\ ~Terminal(job) /\ ~Terminal(jobs[i])
    BY <1>1 DEF JobsInv, TypeOK, IsList, Job, States, Terminal
  <2>2. Update(i, job) /\ task' = [task EXCEPT ![i] = t]
    BY <1>1 DEF Begin, Hold
  <2> HIDE DEF job
  <2>3. t \in Task /\ t.at = "send" /\ t.snap \in Job /\ t.doing # "none"
    BY <1>0, <2>1, ChangedJob DEF Task, Places
  <2> HIDE DEF t
  <2>4. TasksOK' /\ \A b \in Client \cup Ids : b # i => task'[b] = task[b]
    BY <2>2, <2>3, OneTaskMoves
  <2>5. \A j \in Ids \ {i} : Executing(j)' => Executing(j)
    BY <2>4 DEF Executing
  <2>6. UNCHANGED <<flags, disk, published, created>>
    BY DEF Begin
  <2> QED BY <1>1, <2>1, <2>2, <2>4, <2>5, <2>6, JobUpdated
<1>2. CASE ~(i \in DOMAIN jobs /\ jobs[i].state = "queued")
  <2>1. Ended \in Task /\ Ended.at = "ended"
    BY DEF Ended, Idle, Task, Places, Job
  <2>2. task' = [task EXCEPT ![i] = Ended]
    BY <1>2 DEF Begin
  <2>3. /\ TasksOK' /\ task'[i] = Ended
        /\ \A b \in Client \cup Ids : b # i => task'[b] = task[b]
    BY <2>1, <2>2, OneTaskMoves
  <2>4. \A j \in Ids : Executing(j)' => Executing(j)
    BY <2>1, <2>3 DEF Executing
  <2>5. UNCHANGED <<jobs, flags, disk, published, created>>
    BY <1>2 DEF Begin
  <2> QED BY <2>3, <2>4, <2>5, ListUnchanged DEF JobsInv, TypeOK, IsList
<1> QED BY <1>1, <1>2

(* Statements of the executor that touch no shared job state.              *)
LEMMA StatementKeeps ==
  ASSUME JobsInv, NEW i \in Ids, Checkpoint(i) \/ Publish(i) \/ ExecutorFails(i)
  PROVE  JobsInv'
<1>1. task[i] \in Task /\ task[i].at = "work" /\ task[i].doing # "none"
  BY DEF JobsInv, TypeOK, Checkpoint, Publish, ExecutorFails, At
<1>2. \E t \in Task : /\ task' = [task EXCEPT ![i] = t]
                      /\ t.at \in {"work", "stopped", "broken"}
                      /\ t.doing = task[i].doing
  <2> DEFINE on == [task[i] EXCEPT !.step = @ + 1]
             stopped == [task[i] EXCEPT !.at = "stopped"]
             broken == [task[i] EXCEPT !.at = "broken"]
  <2>1. /\ on \in Task /\ on.at = "work" /\ on.doing = task[i].doing
        /\ stopped \in Task /\ stopped.at = "stopped" /\ stopped.doing = task[i].doing
        /\ broken \in Task /\ broken.at = "broken" /\ broken.doing = task[i].doing
    BY <1>1 DEF Task, Places
  <2>2. \/ task' = [task EXCEPT ![i] = on]
        \/ task' = [task EXCEPT ![i] = stopped]
        \/ task' = [task EXCEPT ![i] = broken]
    <3>1. CASE Checkpoint(i)
      BY <3>1 DEF Checkpoint
    <3>2. CASE Publish(i)
      BY <3>2 DEF Publish
    <3>3. CASE ExecutorFails(i)
      BY <3>3 DEF ExecutorFails
    <3> QED BY <3>1, <3>2, <3>3
  <2> HIDE DEF on, stopped, broken
  <2> QED BY <2>1, <2>2
<1>3. PICK t \in Task : /\ task' = [task EXCEPT ![i] = t]
                       /\ t.at \in {"work", "stopped", "broken"}
                       /\ t.doing = task[i].doing
  BY <1>2
<1>4. TasksOK' /\ task'[i] = t /\ \A b \in Client \cup Ids : b # i => task'[b] = task[b]
  BY <1>1, <1>3, OneTaskMoves
<1>5. \A j \in Ids : Executing(j)' => Executing(j)
  BY <1>1, <1>4 DEF Executing
<1>6. UNCHANGED <<jobs, flags, disk, created>> /\ published' \in SUBSET Ids
  BY DEF Checkpoint, Publish, ExecutorFails, JobsInv, TypeOK
<1> QED BY <1>4, <1>5, <1>6, ListUnchanged DEF JobsInv, TypeOK, IsList

(* A phase report changes a running job's revision only.                   *)
LEMMA ReportPhaseKeeps ==
  ASSUME JobsInv, NEW i \in Ids, ReportPhase(i)
  PROVE  JobsInv'
<1> DEFINE snap == Changed(jobs[i])
           t == [task[i] EXCEPT !.at = "send", !.snap = snap, !.step = task[i].step + 1]
<1>1. task[i] \in Task /\ task[i].at = "work" /\ task[i].doing # "none"
  BY DEF JobsInv, TypeOK, ReportPhase, At
<1>2. i \in DOMAIN jobs /\ jobs[i] \in Job
  BY DEF ReportPhase, At, JobsInv, TypeOK, IsList
<1>3. jobs[i].state = "running" /\ ~Terminal(jobs[i])
  BY <1>1 DEF JobsInv, OneAtATime, Executing, Terminal
<1>4. Update(i, jobs[i]) /\ task' = [task EXCEPT ![i] = t]
  BY DEF ReportPhase
<1>5. t \in Task /\ t.at = "send" /\ t.snap \in Job /\ t.doing # "none"
  <2>1. snap \in Job
    BY <1>2, ChangedJob
  <2> HIDE DEF snap
  <2> DEFINE sent == [task[i] EXCEPT !.at = "send", !.snap = snap]
  <2>2. sent \in Task /\ sent.at = "send" /\ sent.snap = snap
        /\ sent.doing = task[i].doing /\ sent.step = task[i].step
    BY <1>1, <2>1 DEF Task, Places
  <2>3. t = [sent EXCEPT !.step = sent.step + 1]
    BY <1>1 DEF Task
  <2> HIDE DEF sent
  <2> HIDE DEF t
  <2>4. t \in Task
    BY <2>2, <2>3 DEF Task
  <2> QED BY <1>1, <2>1, <2>2, <2>3, <2>4 DEF Task
<1> HIDE DEF t
<1>6. TasksOK' /\ \A b \in Client \cup Ids : b # i => task'[b] = task[b]
  BY <1>4, <1>5, OneTaskMoves
<1>7. \A j \in Ids \ {i} : Executing(j)' => Executing(j)
  BY <1>6 DEF Executing
<1>8. UNCHANGED <<flags, disk, published, created>>
  BY DEF ReportPhase
<1> QED BY <1>2, <1>3, <1>4, <1>6, <1>7, <1>8, JobUpdated

(* The executor is over: its job is terminal and it runs no more.          *)
LEMMA FinishKeeps ==
  ASSUME JobsInv, NEW i \in Ids, Finish(i)
  PROVE  JobsInv'
<1> DEFINE job == Outcome(jobs[i], task[i].at)
           snap == Changed(job)
           t == [task[i] EXCEPT !.at = "send", !.snap = snap]
<1>1. task[i] \in Task /\ task[i].at \in {"work", "stopped", "broken"}
      /\ task[i].doing # "none"
  BY DEF JobsInv, TypeOK, Finish
<1>2. i \in DOMAIN jobs /\ jobs[i] \in Job /\ jobs[i].state = "running"
  BY <1>1 DEF JobsInv, TypeOK, OneAtATime, Executing, IsList
<1>3. /\ job \in Job /\ Terminal(job)
      /\ job.cancelRequested => job.state = "interrupted"
  BY <1>1, <1>2, OutcomeEnds
<1>4. Update(i, job) /\ task' = [task EXCEPT ![i] = t]
  BY DEF Finish, Hold
<1> HIDE DEF job
<1>5. snap \in Job /\ Terminal(snap)
  BY <1>3, ChangedJob
<1> HIDE DEF snap
<1>6. t \in Task /\ t.at = "send" /\ t.snap = snap /\ t.doing # "none"
  BY <1>1, <1>5 DEF Task, Places
<1> HIDE DEF t
<1>7. /\ TasksOK' /\ task'[i] = t
      /\ \A b \in Client \cup Ids : b # i => task'[b] = task[b]
  BY <1>4, <1>5, <1>6, OneTaskMoves
<1>8. /\ \A j \in Ids \ {i} : Executing(j)' => Executing(j)
      /\ ~Executing(i)'
  BY <1>5, <1>6, <1>7 DEF Executing
<1>9. UNCHANGED <<flags, disk, published, created>>
  BY DEF Finish
<1> QED BY <1>2, <1>3, <1>4, <1>7, <1>8, <1>9, JobUpdated

(* cancel, up to the flag: no job changes.                                 *)
LEMMA RequestKeeps ==
  ASSUME JobsInv, NEW c \in Client,
         (\E i \in Ids : Cancel(c, i)) \/ SetFlag(c)
  PROVE  JobsInv'
<1>1. \E t \in Task : /\ task' = [task EXCEPT ![c] = t]
                      /\ t.at # "send" /\ t.doing # "none"
  <2>1. ASSUME NEW i \in Ids, Cancel(c, i)
        PROVE  \E t \in Task : /\ task' = [task EXCEPT ![c] = t]
                               /\ t.at # "send" /\ t.doing # "none"
    <3> DEFINE t == [Idle EXCEPT !.at = "flag", !.doing = "cancel", !.id = i]
    <3>1. t \in Task /\ t.at = "flag" /\ t.doing = "cancel"
      BY DEF Idle, Task, Places
    <3>2. task' = [task EXCEPT ![c] = t]
      BY <2>1 DEF Cancel
    <3> HIDE DEF t
    <3> QED BY <3>1, <3>2
  <2>2. ASSUME SetFlag(c)
        PROVE  \E t \in Task : /\ task' = [task EXCEPT ![c] = t]
                               /\ t.at # "send" /\ t.doing # "none"
    <3> DEFINE t == [task[c] EXCEPT !.at = "mark"]
    <3>1. task[c] \in Task /\ task[c].doing # "none"
      BY <2>2 DEF JobsInv, TypeOK, SetFlag
    <3>2. t \in Task /\ t.at = "mark" /\ t.doing # "none"
      BY <3>1 DEF Task, Places
    <3>3. task' = [task EXCEPT ![c] = t]
      BY <2>2 DEF SetFlag
    <3> HIDE DEF t
    <3> QED BY <3>2, <3>3
  <2> QED BY <2>1, <2>2
<1>2. PICK t \in Task : /\ task' = [task EXCEPT ![c] = t]
                       /\ t.at # "send" /\ t.doing # "none"
  BY <1>1
<1>3. TasksOK' /\ \A b \in Client \cup Ids : b # c => task'[b] = task[b]
  BY <1>2, OneTaskMoves
<1>4. \A j \in Ids : Executing(j)' => Executing(j)
  BY <1>3, ClientsAreNotThreads DEF Executing
<1>5. IsList(flags, BOOLEAN)'
  BY DEF Cancel, SetFlag, JobsInv, TypeOK, IsList
<1>6. UNCHANGED <<jobs, disk, published, created>>
  BY DEF Cancel, SetFlag, counts
<1> QED BY <1>3, <1>4, <1>5, <1>6, ListUnchanged DEF JobsInv, TypeOK

(* cancel's update: a queued job ends, a running one is marked, a terminal *)
(* one stays as it is.                                                     *)
LEMMA MarkKeeps ==
  ASSUME JobsInv, NEW c \in Client, MarkCancelled(c)
  PROVE  JobsInv'
<1> PICK i : i = task[c].id
  OBVIOUS
<1>0. task[c] \in Task /\ task[c].doing # "none" /\ c \notin Ids
  BY ClientsAreNotThreads DEF JobsInv, TypeOK, MarkCancelled
<1>1. CASE i \in DOMAIN jobs
  <2> DEFINE job == Marked(jobs[i])
             snap == Changed(job)
             t == [task[c] EXCEPT !.at = "send", !.snap = snap]
  <2>1. i \in Ids /\ jobs[i] \in Job
    BY <1>1 DEF JobsInv, TypeOK, IsList
  <2>2. /\ job \in Job
        /\ jobs[i].state = "running" => job.state = "running"
        /\ Terminal(jobs[i]) => Terminal(job)
        /\ job.cancelRequested /\ Terminal(job) => job.state = "interrupted"
    BY <1>1, <2>1, MarkedJob DEF JobsInv, CancelWins, Honoured
  <2>3. Update(i, job) /\ task' = [task EXCEPT ![c] = t]
    BY <1>1 DEF MarkCancelled, Hold
  <2> HIDE DEF job
  <2>4. snap \in Job
    BY <2>2, ChangedJob
  <2> HIDE DEF snap
  <2>5. t \in Task /\ t.at = "send" /\ t.snap = snap /\ t.doing # "none"
    BY <1>0, <2>4 DEF Task, Places
  <2> HIDE DEF t
  <2>6. TasksOK' /\ \A b \in Client \cup Ids : b # c => task'[b] = task[b]
    BY <2>3, <2>4, <2>5, OneTaskMoves
  <2>7. \A j \in Ids : Executing(j)' => Executing(j)
    BY <1>0, <2>6 DEF Executing
  <2>8. Executing(i)' => job.state = "running"
    BY <2>1, <2>2, <2>7 DEF JobsInv, OneAtATime
  <2>9. UNCHANGED <<flags, disk, published, created>>
    BY DEF MarkCancelled
  <2> QED BY <1>1, <2>2, <2>3, <2>6, <2>7, <2>8, <2>9, JobUpdated
<1>2. CASE i \notin DOMAIN jobs
  <2>1. Idle \in Task /\ Idle.at = "idle"
    BY DEF Idle, Task, Places, Job
  <2>2. task' = [task EXCEPT ![c] = Idle]
    BY <1>2 DEF MarkCancelled
  <2>3. TasksOK' /\ \A b \in Client \cup Ids : b # c => task'[b] = task[b]
    BY <2>1, <2>2, OneTaskMoves
  <2>4. \A j \in Ids : Executing(j)' => Executing(j)
    BY <1>0, <2>3 DEF Executing
  <2>5. UNCHANGED <<jobs, flags, disk, published, created>>
    BY <1>2 DEF MarkCancelled
  <2> QED BY <2>3, <2>4, <2>5, ListUnchanged DEF JobsInv, TypeOK, IsList
<1> QED BY <1>1, <1>2

(* Whatever jobs.json holds, nothing is active after a restart.            *)
LEMMA RestartKeeps ==
  ASSUME JobsInv, Restart
  PROVE  JobsInv'
<1>1. Idle \in Task /\ Idle.at = "idle"
  BY DEF Idle, Task, Places, Job
<1>2. /\ DOMAIN jobs' = DOMAIN disk /\ disk' = jobs'
      /\ jobs' = [i \in DOMAIN disk |-> Restored(disk[i])]
      /\ \A i \in DOMAIN disk : disk[i] \in Job
  BY DEF Restart, JobsInv, TypeOK, IsList
<1>3. \A i \in DOMAIN disk : /\ jobs'[i] \in Job /\ Terminal(jobs'[i])
                             /\ jobs'[i].cancelRequested => jobs'[i].state = "interrupted"
  <2> TAKE i \in DOMAIN disk
  <2>1. jobs'[i] = Restored(disk[i]) /\ disk[i] \in Job
    BY <1>2
  <2>2. /\ Restored(disk[i]) \in Job /\ Terminal(Restored(disk[i]))
        /\ Restored(disk[i]).state = disk[i].state \/ Restored(disk[i]).state = "interrupted"
        /\ Restored(disk[i]).cancelRequested = disk[i].cancelRequested
        /\ Terminal(disk[i]) => Restored(disk[i]) = disk[i]
    BY <2>1, RestoredJob
  <2>3. Terminal(disk[i]) /\ disk[i].cancelRequested => disk[i].state = "interrupted"
    BY DEF JobsInv, CancelWins, Honoured
  <2>4. CASE Terminal(disk[i])
    BY <2>1, <2>2, <2>3, <2>4
  <2>5. CASE ~Terminal(disk[i])
    BY <2>1, <2>2, <2>5 DEF Terminal
  <2> QED BY <2>4, <2>5
<1>a. /\ DOMAIN jobs' = DOMAIN disk /\ disk' = jobs'
      /\ jobs' = [i \in DOMAIN jobs' |-> jobs'[i]]
  BY <1>2
<1>4. TypeOK'
  <2>1. DOMAIN jobs' \subseteq Ids /\ jobs' \in [DOMAIN jobs' -> Job]
    BY <1>a, <1>3 DEF JobsInv, TypeOK, IsList
  <2>2. IsList(flags, BOOLEAN)'
    BY DEF Restart, IsList
  <2>3. task' = [a \in Client \cup Ids |-> Idle] /\ UNCHANGED <<published, created>>
    BY DEF Restart
  <2> QED BY <1>1, <1>a, <2>1, <2>2, <2>3 DEF JobsInv, TypeOK, IsList
<1>5. OneAtATime'
  <2>1. Active' = {}
    BY <1>a, <1>3 DEF Active, Terminal
  <2>2. \A i \in Ids : ~Executing(i)'
    BY <1>1 DEF Restart, Executing
  <2> QED BY <2>1, <2>2 DEF OneAtATime
<1>6. CancelWins'
  BY <1>a, <1>3 DEF CancelWins, Honoured, Terminal
<1> QED BY <1>4, <1>5, <1>6 DEF JobsInv

----------------------------------------------------------------------------
(* Every step of the job manager keeps the invariant.                      *)
LEMMA JobsStepKeeps == JobsInv /\ [Next]_vars => JobsInv'
<1> SUFFICES ASSUME JobsInv, [Next]_vars PROVE JobsInv'
  OBVIOUS
<1>1. ASSUME NEW c \in Client, NEW k \in Kind, Start(c, k) PROVE JobsInv'
  BY <1>1, StartKeeps
<1>2. ASSUME NEW a \in Client \cup Ids, Send(a) PROVE JobsInv'
  BY <1>2, SendKeeps
<1>3. ASSUME NEW a \in Client \cup Ids, Persist(a) \/ PersistFails(a) PROVE JobsInv'
  BY <1>3, PersistKeeps
<1>4. ASSUME NEW c \in Client, Spawn(c) \/ SpawnFails(c) PROVE JobsInv'
  BY <1>4, SpawnKeeps
<1>5. ASSUME NEW i \in Ids, Begin(i) PROVE JobsInv'
  BY <1>5, BeginKeeps
<1>6. ASSUME NEW i \in Ids, Checkpoint(i) \/ Publish(i) \/ ExecutorFails(i) PROVE JobsInv'
  BY <1>6, StatementKeeps
<1>7. ASSUME NEW i \in Ids, ReportPhase(i) PROVE JobsInv'
  BY <1>7, ReportPhaseKeeps
<1>8. ASSUME NEW i \in Ids, Finish(i) PROVE JobsInv'
  BY <1>8, FinishKeeps
<1>9. ASSUME NEW c \in Client, (\E i \in Ids : Cancel(c, i)) \/ SetFlag(c) PROVE JobsInv'
  BY <1>9, RequestKeeps
<1>10. ASSUME NEW c \in Client, MarkCancelled(c) PROVE JobsInv'
  BY <1>10, MarkKeeps
<1>11. CASE Restart
  BY <1>11, RestartKeeps
<1>12. CASE UNCHANGED vars
  <2>1. UNCHANGED <<jobs, flags, disk, task, published, created>>
    BY <1>12 DEF vars
  <2>2. TypeOK'
    BY <2>1 DEF JobsInv, TypeOK, IsList
  <2>3. OneAtATime'
    BY <2>1 DEF JobsInv, OneAtATime, Active, Executing
  <2>4. CancelWins'
    BY <2>1 DEF JobsInv, CancelWins
  <2> QED BY <2>2, <2>3, <2>4 DEF JobsInv
<1>13. CASE Step
  BY <1>13, <1>1, <1>2, <1>3, <1>4, <1>5, <1>6, <1>7, <1>8, <1>9, <1>10
     DEF Step, RequestStep, ThreadStep
<1> QED BY <1>11, <1>12, <1>13 DEF Next

(* The invariant holds in every state.                                     *)
LEMMA JobsInvariant == Spec => []JobsInv
<1>1. Init => JobsInv
  BY JobsInit
<1>2. JobsInv /\ [Next]_vars => JobsInv'
  BY JobsStepKeeps
<1> QED BY <1>1, <1>2, PTL DEF Spec

(* Every variable of the job manager keeps its range, whatever the         *)
(* requests, the executors, failures and restarts do.                      *)
THEOREM JobsTypeCorrect == Spec => []TypeOK
<1>1. JobsInv => TypeOK
  BY DEF JobsInv
<1> QED BY <1>1, JobsInvariant, PTL

(* "Only one job runs at a time": at most one listed job is active, and an *)
(* executor only ever runs for the one listed as running.                  *)
THEOREM OnlyOneJobRuns == Spec => []OneAtATime
<1>1. JobsInv => OneAtATime
  BY DEF JobsInv
<1> QED BY <1>1, JobsInvariant, PTL

----------------------------------------------------------------------------
(* What the order of the updates rests on: jobs are numbered as they are   *)
(* created; a request that starts a job is the only one that does, and the *)
(* job's thread does not exist yet; and what jobs.json says of a job that  *)
(* had ended there is still what the list says.                            *)
Numbered == \A i \in DOMAIN jobs \cup DOMAIN disk : i <= created

Threads ==
  /\ \A c \in Client : task[c].doing = "start" =>
       task[c].id \in 1..created /\ task[task[c].id].at = "idle"
  /\ \A c, d \in Client :
       task[c].doing = "start" /\ task[d].doing = "start" /\ task[c].id = task[d].id => c = d
  /\ \A c \in Client : task[c].at = "spawn" => task[c].doing = "start"
  /\ \A i \in Ids : i > created => task[i].at = "idle"

Same(old, new) == new = [old EXCEPT !.revision = new.revision]
Behind ==
  \A i \in DOMAIN disk \cap DOMAIN jobs : Terminal(disk[i]) => Same(disk[i], jobs[i])

(* jobs.json is current, or somebody is about to write the list.           *)
Current ==
  \A i \in DOMAIN jobs : i \in DOMAIN disk /\ (Terminal(jobs[i]) => disk[i] = jobs[i])
Writes(t) ==
  \/ t.at = "persist"
  \/ t.at = "send" /\ (t.doing = "start" \/ Terminal(t.snap))
Written ==
  /\ failures \in Nat
  /\ failures = 0 => Current \/ \E a \in Client \cup Ids : Writes(task[a])

OrderInv == JobsInv /\ Numbered /\ Threads /\ Behind /\ Written

(* A task that is not about to appear moves on: a thread that exists, or a *)
(* request that starts the job it was starting, or none.                   *)
LEMMA ThreadsKept ==
  ASSUME JobsInv, Threads, UNCHANGED created, NEW a \in Client \cup Ids,
         task' \in [Client \cup Ids -> Task],
         \A b \in Client \cup Ids : b # a => task'[b] = task[b],
         a \in Ids => task[a].at # "idle",
         a \in Client /\ task'[a].doing = "start" =>
           task[a].doing = "start" /\ task'[a].id = task[a].id,
         a \in Client /\ task'[a].at = "spawn" => task'[a].doing = "start"
  PROVE  Threads'
<1>1. created \in Nat /\ 1..created \subseteq Ids
  BY JobsAssumption DEF JobsInv, TypeOK, Ids, JobsAssumption
<1>2. \A c \in Client : task'[c].doing = "start" =>
        task[c].doing = "start" /\ task'[c].id = task[c].id
  BY ClientsAreNotThreads
<1>3. \A c \in Client : task'[c].doing = "start" =>
        task'[c].id \in 1..created /\ task'[task'[c].id].at = "idle"
  <2> SUFFICES ASSUME NEW c \in Client, task'[c].doing = "start"
               PROVE  task'[c].id \in 1..created /\ task'[task'[c].id].at = "idle"
    OBVIOUS
  <2>1. task[c].id \in 1..created /\ task[task[c].id].at = "idle" /\ task'[c].id = task[c].id
    BY <1>2 DEF Threads
  <2>2. task[c].id \in Ids /\ task[c].id # a
    BY <1>1, <2>1, ClientsAreNotThreads
  <2> QED BY <2>1, <2>2
<1>4. \A i \in Ids : i > created => task'[i].at = "idle"
  BY DEF Threads
<1>5. \A c \in Client : task'[c].at = "spawn" => task'[c].doing = "start"
  BY DEF Threads
<1> QED BY <1>2, <1>3, <1>4, <1>5 DEF Threads

(* Steps that leave list and disk alone, and only move one task on.        *)
LEMMA OnlyTasks ==
  ASSUME JobsInv, Numbered, Behind, Written, UNCHANGED <<jobs, disk, created>>,
         failures' \in {failures, failures + 1}, NEW a \in Client \cup Ids,
         \A b \in Client \cup Ids : b # a => task'[b] = task[b],
         Writes(task[a]) => Writes(task'[a])
  PROVE  Numbered' /\ Behind' /\ Written'
<1>1. Numbered' /\ Behind'
  BY DEF Numbered, Behind
<1>2. (\E b \in Client \cup Ids : Writes(task[b])) => \E b \in Client \cup Ids : Writes(task'[b])
  OBVIOUS
<1>3. Current => Current'
  BY DEF Current
<1> QED BY <1>1, <1>2, <1>3 DEF Written, Writes

(* The snapshot of a listed job is replaced by a later one: an outcome     *)
(* stays, and whoever ends a job goes on to write the list.                *)
LEMMA Updated ==
  ASSUME JobsInv, Numbered, Behind, Written, UNCHANGED <<disk, created, failures>>,
         NEW i \in DOMAIN jobs, NEW job \in Job, Update(i, job),
         Terminal(jobs[i]) => job = jobs[i],
         NEW a \in Client \cup Ids,
         \A b \in Client \cup Ids : b # a => task'[b] = task[b],
         Terminal(job) => Writes(task'[a]),
         ~Writes(task[a])
  PROVE  Numbered' /\ Behind' /\ Written' /\ Keeps(jobs, jobs')
<1>1. IsList(jobs, Job) /\ Changed(job) \in Job /\ IsList(disk, Job)
  BY ChangedJob DEF JobsInv, TypeOK
<1>2. /\ DOMAIN jobs' = DOMAIN jobs
      /\ jobs'[i] = Changed(job)
      /\ \A j \in DOMAIN jobs \ {i} : jobs'[j] = jobs[j]
  BY <1>1 DEF Update, IsList
<1>3. Numbered'
  BY <1>2 DEF Numbered
<1>4. Keeps(jobs, jobs')
  <2> SUFFICES ASSUME NEW j \in DOMAIN jobs, Terminal(jobs[j]) PROVE Same(jobs[j], jobs'[j])
    BY DEF Keeps, Same
  <2>1. CASE j = i
    BY <1>1, <1>2, <2>1 DEF Same, Changed, IsList, Job
  <2>2. CASE j # i
    BY <1>1, <1>2, <2>2 DEF Same, IsList, Job
  <2> QED BY <2>1, <2>2
<1>5. Behind'
  <2> SUFFICES ASSUME NEW j \in DOMAIN disk \cap DOMAIN jobs, Terminal(disk[j])
               PROVE  Same(disk[j], jobs'[j])
    BY <1>2 DEF Behind
  <2>1. Same(disk[j], jobs[j]) /\ disk[j] \in Job /\ jobs[j] \in Job
    BY <1>1 DEF Behind, IsList
  <2>2. Terminal(jobs[j])
    BY <2>1 DEF Same, Terminal, Job
  <2>3. Same(jobs[j], jobs'[j])
    BY <1>4, <2>2, <1>2 DEF Keeps, Same
  <2> QED BY <2>1, <2>3 DEF Same, Job
<1>6. Written'
  <2>1. CASE Terminal(job)
    BY <2>1 DEF Written
  <2>2. CASE ~Terminal(job)
    <3>1. Current => Current'
      BY <1>2, <2>2, ChangedJob DEF Current
    <3>2. (\E b \in Client \cup Ids : Writes(task[b])) =>
            \E b \in Client \cup Ids : Writes(task'[b])
      OBVIOUS
    <3> QED BY <3>1, <3>2 DEF Written, Writes
  <2> QED BY <2>1, <2>2
<1> QED BY <1>3, <1>4, <1>5, <1>6

Final == Keeps(disk, disk') /\ (restarts' = restarts => Keeps(jobs, jobs'))

LEMMA WrittenMeansCurrent == OrderInv => DiskCatchesUp
BY DEF OrderInv, Written, Writes, Current, DiskCatchesUp

LEMMA KeptAsItIs == ASSUME JobsInv PROVE Keeps(jobs, jobs) /\ Keeps(disk, disk)
BY DEF JobsInv, TypeOK, IsList, Keeps, Job

LEMMA OrderStarts == Init => OrderInv
<1> SUFFICES ASSUME Init PROVE OrderInv
  OBVIOUS
<1>1. DOMAIN jobs = {} /\ DOMAIN disk = {} /\ \A a \in Client \cup Ids : task[a] = Idle
  BY DEF Init
<1>2. Threads
  BY <1>1 DEF Threads, Idle
<1>3. failures = 0
  BY DEF Init
<1> QED BY <1>1, <1>2, <1>3, JobsInit DEF OrderInv, Numbered, Behind, Written, Current

LEMMA StartOrders ==
  ASSUME OrderInv, NEW c \in Client, NEW k \in Kind, Start(c, k)
  PROVE  Numbered' /\ Threads' /\ Behind' /\ Written' /\ Final
<1> DEFINE new == created + 1
           job == [id |-> new, kind |-> k, state |-> "queued", cancelRequested |-> FALSE,
                   why |-> "none", revision |-> 1]
           t == [at |-> "send", doing |-> "start", id |-> new, snap |-> job, step |-> 0]
<1>1. created \in Nat /\ new \in Ids /\ created' = new /\ new \notin DOMAIN jobs \cup DOMAIN disk
      /\ \A i \in DOMAIN jobs \cup DOMAIN disk : i \in Nat /\ i <= created
  BY JobsAssumption DEF OrderInv, Numbered, JobsInv, TypeOK, IsList, Start, Ids, JobsAssumption
<1>2. /\ DOMAIN jobs' \subseteq DOMAIN jobs \cup {new}
      /\ jobs' = [i \in DOMAIN jobs' |-> IF i = new THEN job ELSE jobs[i]]
      /\ UNCHANGED <<disk, restarts, failures>>
  BY DEF Start, Newest, counts
<1>3. /\ task' = [task EXCEPT ![c] = t]
      /\ task' \in [Client \cup Ids -> Task]
  BY StartKeeps DEF Start, OrderInv, JobsInv, TypeOK
<1>4. /\ task'[c] = t /\ t.doing = "start" /\ t.id = new /\ t.at = "send"
      /\ \A b \in Client \cup Ids : b # c => task'[b] = task[b]
  BY <1>3 DEF OrderInv, JobsInv, TypeOK
<1> HIDE DEF job, t
<1>5. \A i \in DOMAIN jobs' : i \in DOMAIN jobs => jobs'[i] = jobs[i]
  BY <1>1, <1>2
<1>6. Numbered'
  BY <1>1, <1>2 DEF Numbered
<1>7. Threads'
  <2>1. task[new].at = "idle" /\ task'[new] = task[new] /\ c \notin Ids
    BY <1>1, <1>4, ClientsAreNotThreads DEF OrderInv, Threads
  <2>2. \A d \in Client \ {c} : task'[d] = task[d] /\ (task[d].doing = "start" => task[d].id # new)
    BY <1>1, <1>4 DEF OrderInv, Threads
  <2>3. \A i \in Ids : task'[i] = task[i]
    BY <1>4, ClientsAreNotThreads
  <2>4. 1..created \subseteq 1..new /\ 1..new \subseteq Ids /\ \A i \in Ids : i > new => i > created
    BY <1>1, JobsAssumption DEF Ids, JobsAssumption
  <2>5. \A d \in Client : task'[d].doing = "start" =>
          task'[d].id \in 1..new /\ task'[task'[d].id].at = "idle"
    BY <1>1, <1>4, <2>1, <2>2, <2>3, <2>4 DEF OrderInv, Threads
  <2>a. \A d \in Client : task'[d].at = "spawn" => task'[d].doing = "start"
    BY <1>4, <2>2 DEF OrderInv, Threads
  <2>6. \A d, e \in Client :
          task'[d].doing = "start" /\ task'[e].doing = "start" /\ task'[d].id = task'[e].id => d = e
    BY <1>4, <2>2 DEF OrderInv, Threads
  <2> QED BY <1>1, <2>3, <2>4, <2>5, <2>a, <2>6 DEF OrderInv, Threads
<1>8. Behind'
  BY <1>1, <1>2, <1>5 DEF OrderInv, Behind
<1>9. Written'
  BY <1>2, <1>4 DEF OrderInv, Written, Writes
<1>10. Final
  <2>1. Keeps(disk, disk') /\ Keeps(jobs, jobs)
    BY <1>2, KeptAsItIs DEF OrderInv
  <2>2. Keeps(jobs, jobs')
    BY <1>5, <2>1 DEF Keeps
  <2> QED BY <2>1, <2>2 DEF Final
<1> QED BY <1>6, <1>7, <1>8, <1>9, <1>10

(* The broadcast, and writing the list.                                    *)
LEMMA SendOrders ==
  ASSUME OrderInv, NEW a \in Client \cup Ids, Send(a)
  PROVE  Numbered' /\ Threads' /\ Behind' /\ Written' /\ Final
<1>1. task' \in [Client \cup Ids -> Task] /\ task[a] \in Task /\ task[a].snap \in Job
  BY SendKeeps DEF OrderInv, JobsInv, TypeOK, Send
<1>2. task'[a] = AfterSend(task[a]) /\ \A b \in Client \cup Ids : b # a => task'[b] = task[b]
  BY DEF Send, OrderInv, JobsInv, TypeOK
<1>3. /\ Writes(task[a]) => task'[a].at = "persist"
      /\ task'[a].doing = "start" => task[a].doing = "start" /\ task'[a].id = task[a].id
      /\ task'[a].at # "spawn"
  <2>1. CASE task[a].doing = "start" \/ Terminal(task[a].snap)
    BY <1>1, <1>2, <2>1 DEF AfterSend, Task, Writes, Send
  <2>2. CASE task[a].doing = "run" /\ ~Terminal(task[a].snap)
    BY <1>1, <1>2, <2>2 DEF AfterSend, Task, Writes, Send
  <2>3. CASE task[a].doing = "cancel" /\ ~Terminal(task[a].snap)
    BY <1>1, <1>2, <2>3 DEF AfterSend, Task, Writes, Send, Idle
  <2>4. task[a].doing # "none"
    BY DEF OrderInv, JobsInv, TypeOK, Send
  <2> QED BY <1>1, <2>1, <2>2, <2>3, <2>4 DEF Task
<1>4. UNCHANGED <<jobs, disk, created, failures, restarts>> /\ task[a].at = "send"
  BY DEF Send, counts
<1>5. Threads'
  BY <1>1, <1>2, <1>3, <1>4, ThreadsKept DEF OrderInv
<1>6. Numbered' /\ Behind' /\ Written'
  BY <1>2, <1>3, <1>4, OnlyTasks DEF OrderInv, Writes
<1> QED BY <1>4, <1>5, <1>6, KeptAsItIs DEF Final, OrderInv

LEMMA PersistOrders ==
  ASSUME OrderInv, NEW a \in Client \cup Ids, Persist(a) \/ PersistFails(a)
  PROVE  Numbered' /\ Threads' /\ Behind' /\ Written' /\ Final
<1>1. task' \in [Client \cup Ids -> Task] /\ task[a] \in Task /\ task[a].at = "persist"
  BY PersistKeeps DEF OrderInv, JobsInv, TypeOK, Persist, PersistFails
<1>2. task'[a] = AfterPersist(task[a]) /\ \A b \in Client \cup Ids : b # a => task'[b] = task[b]
  BY DEF Persist, PersistFails, OrderInv, JobsInv, TypeOK
<1>3. /\ task'[a].doing = "start" => task[a].doing = "start" /\ task'[a].id = task[a].id
      /\ task'[a].at = "spawn" => task'[a].doing = "start"
  BY <1>1, <1>2 DEF AfterPersist, Rest, Ended, Idle, Task
<1>4. /\ UNCHANGED <<jobs, created, restarts>>
      /\ Persist(a) => disk' = jobs
      /\ PersistFails(a) => UNCHANGED disk /\ failures' = failures + 1
  BY DEF Persist, PersistFails, counts
<1>5. Threads'
  BY <1>1, <1>2, <1>3, <1>4, ThreadsKept DEF OrderInv
<1>6. Keeps(jobs, jobs) /\ Keeps(disk, disk)
  BY KeptAsItIs DEF OrderInv
<1>7. CASE Persist(a)
  <2>1. Keeps(disk, disk')
    BY <1>4, <1>7 DEF OrderInv, Behind, Same, Keeps
  <2>2. Behind'
    BY <1>4, <1>6, <1>7 DEF Behind, Same, Keeps
  <2>3. Current'
    BY <1>4, <1>7 DEF Current
  <2>4. UNCHANGED failures
    BY <1>7 DEF Persist, counts
  <2> QED BY <1>4, <1>5, <1>6, <1>7, <2>1, <2>2, <2>3, <2>4 DEF Final, OrderInv, Numbered, Written
<1>8. CASE PersistFails(a)
  <2>1. failures' # 0
    BY <1>4, <1>8 DEF OrderInv, Written
  <2> QED BY <1>4, <1>5, <1>6, <1>8, <2>1 DEF Final, OrderInv, Numbered, Behind, Written
<1> QED BY <1>7, <1>8

(* The thread appears, or does not and its job stays as it is.             *)
LEMMA SpawnOrders ==
  ASSUME OrderInv, NEW c \in Client, Spawn(c) \/ SpawnFails(c)
  PROVE  Numbered' /\ Threads' /\ Behind' /\ Written' /\ Final
<1> DEFINE i == task[c].id
<1>1. task' \in [Client \cup Ids -> Task] /\ task[c].at = "spawn"
  BY SpawnKeeps DEF OrderInv, JobsInv, TypeOK, Spawn, SpawnFails
<1>2. /\ UNCHANGED <<jobs, disk, created, restarts>>
      /\ failures' \in {failures, failures + 1}
  BY DEF Spawn, SpawnFails, counts
<1>3. created \in Nat /\ 1..created \subseteq Ids /\ c \notin Ids /\ i \in {0} \cup Ids
      /\ task \in [Client \cup Ids -> Task]
  BY JobsAssumption, ClientsAreNotThreads
     DEF OrderInv, JobsInv, TypeOK, Ids, JobsAssumption, Task
<1>4. CASE Spawn(c)
  <2>0. 0 \notin Client \cup Ids
    BY JobsAssumption DEF JobsAssumption, Ids
  <2>1. /\ task'[c] = Idle
        /\ \A b \in Client \cup Ids : b # c /\ b # i => task'[b] = task[b]
        /\ i \in Ids => task'[i] = Thread(i)
    BY <1>3, <1>4, <2>0 DEF Spawn
  <2>2. Idle.doing = "none" /\ Idle.at = "idle"
    BY DEF Idle
  <2>3. i \in 1..created /\ i \in Ids /\ task[i].at = "idle" /\ task[c].doing = "start"
        /\ \A d \in Client \ {c} : task[d].doing = "start" => task[d].id # i
    BY <1>1, <1>3 DEF OrderInv, Threads
  <2>4. Threads'
    <3>1. \A d \in Client : task'[d].doing = "start" => d # c /\ task'[d] = task[d]
      BY <2>1, <2>2, <2>3, ClientsAreNotThreads
    <3>2. \A d \in Client : task'[d].doing = "start" =>
            task'[d].id \in 1..created /\ task'[task'[d].id].at = "idle"
      BY <1>3, <2>1, <2>3, <3>1 DEF OrderInv, Threads
    <3>3. \A j \in Ids : j > created => task'[j].at = "idle"
      BY <1>3, <2>1, <2>3 DEF OrderInv, Threads
    <3>4. \A d \in Client : task'[d].at = "spawn" => task'[d].doing = "start"
      BY <2>1, <2>2, <2>3, ClientsAreNotThreads DEF OrderInv, Threads
    <3> QED BY <1>2, <3>1, <3>2, <3>3, <3>4 DEF OrderInv, Threads
  <2>5. \A a \in Client \cup Ids : Writes(task[a]) => Writes(task'[a])
    BY <1>1, <2>1, <2>3 DEF Writes
  <2>6. Numbered' /\ Behind' /\ Written'
    BY <1>2, <2>5 DEF OrderInv, Numbered, Behind, Written, Current
  <2> QED BY <1>2, <2>4, <2>6, KeptAsItIs DEF Final, OrderInv
<1>5. CASE SpawnFails(c)
  <2>1. task'[c] = Idle /\ \A b \in Client \cup Ids : b # c => task'[b] = task[b]
    BY <1>5 DEF SpawnFails, OrderInv, JobsInv, TypeOK
  <2>2. Threads'
    BY <1>1, <1>2, <1>3, <2>1, ThreadsKept DEF OrderInv, Idle
  <2>3. Numbered' /\ Behind' /\ Written'
    BY <1>1, <1>2, <2>1, OnlyTasks DEF OrderInv, Writes
  <2> QED BY <1>2, <2>2, <2>3, KeptAsItIs DEF Final, OrderInv
<1> QED BY <1>4, <1>5

(* Statements of a thread and of a request that update no job.             *)
LEMMA StatementOrders ==
  ASSUME OrderInv, NEW a \in Client \cup Ids,
         \/ a \in Ids /\ (Checkpoint(a) \/ Publish(a) \/ ExecutorFails(a))
         \/ a \in Client /\ ((\E i \in Ids : Cancel(a, i)) \/ SetFlag(a))
  PROVE  Numbered' /\ Threads' /\ Behind' /\ Written' /\ Final
<1>1. task \in [Client \cup Ids -> Task] /\ task' \in [Client \cup Ids -> Task]
  BY StatementKeeps, RequestKeeps DEF OrderInv, JobsInv, TypeOK
<1>2. \A b \in Client \cup Ids : b # a => task'[b] = task[b]
  BY <1>1 DEF Checkpoint, Publish, ExecutorFails, Cancel, SetFlag
<1>3. UNCHANGED <<jobs, disk, created, failures, restarts>>
  BY DEF Checkpoint, Publish, ExecutorFails, Cancel, SetFlag, counts
<1>4. /\ ~Writes(task[a])
      /\ a \in Ids => task[a].at # "idle"
      /\ task'[a].doing = "start" => task[a].doing = "start" /\ task'[a].id = task[a].id
      /\ task'[a].at # "spawn"
  <2>1. CASE a \in Ids /\ (Checkpoint(a) \/ Publish(a) \/ ExecutorFails(a))
    BY <1>1, <2>1 DEF Checkpoint, Publish, ExecutorFails, At, Writes, Task
  <2>2. CASE a \in Client /\ SetFlag(a)
    BY <1>1, <2>2, ClientsAreNotThreads DEF SetFlag, Writes, Task
  <2>3. CASE a \in Client /\ \E i \in Ids : Cancel(a, i)
    <3>1. task[a].at = "idle" /\ task'[a].at = "flag" /\ task'[a].doing = "cancel"
      BY <1>1, <2>3 DEF Cancel, Idle
    <3> QED BY <2>3, <3>1, ClientsAreNotThreads DEF Writes
  <2> QED BY <2>1, <2>2, <2>3
<1>5. Threads'
  BY <1>1, <1>2, <1>3, <1>4, ThreadsKept DEF OrderInv
<1>6. Numbered' /\ Behind' /\ Written'
  BY <1>2, <1>3, <1>4, OnlyTasks DEF OrderInv
<1> QED BY <1>3, <1>5, <1>6, KeptAsItIs DEF Final, OrderInv

(* The end of a thread that never ran, and of a request for a job that is  *)
(* no longer listed.                                                       *)
LEMMA ReturnOrders ==
  ASSUME OrderInv, UNCHANGED <<jobs, disk, created, failures, restarts>>,
         NEW a \in Client \cup Ids, task[a].at \in {"begin", "mark"},
         task' \in {[task EXCEPT ![a] = Idle], [task EXCEPT ![a] = Ended]},
         task' \in [Client \cup Ids -> Task]
  PROVE  Numbered' /\ Threads' /\ Behind' /\ Written' /\ Final
<1>1. /\ \A b \in Client \cup Ids : b # a => task'[b] = task[b]
      /\ task'[a].doing = "none" /\ task'[a].at # "spawn"
  BY DEF OrderInv, JobsInv, TypeOK, Idle, Ended
<1>2. Threads'
  BY <1>1, ThreadsKept DEF OrderInv
<1>3. Numbered' /\ Behind' /\ Written'
  BY <1>1, OnlyTasks DEF OrderInv, Writes
<1> QED BY <1>2, <1>3, KeptAsItIs DEF Final, OrderInv

(* The updates of a thread.                                                *)
LEMMA UpdateOrders ==
  ASSUME OrderInv, UNCHANGED <<disk, created, failures, restarts>>,
         NEW i \in DOMAIN jobs, NEW job \in Job, Update(i, job),
         Terminal(jobs[i]) => job = jobs[i],
         NEW a \in Client \cup Ids, task[a].at \in {"begin", "work", "stopped", "broken", "mark"},
         \A b \in Client \cup Ids : b # a => task'[b] = task[b],
         task' \in [Client \cup Ids -> Task],
         task'[a].at = "send" /\ task'[a].snap = Changed(job),
         task'[a].doing = task[a].doing /\ task'[a].id = task[a].id
  PROVE  Numbered' /\ Threads' /\ Behind' /\ Written' /\ Final
<1>1. Threads'
  BY ThreadsKept DEF OrderInv
<1>2. Terminal(job) => Writes(task'[a])
  BY ChangedJob DEF Writes
<1>3. ~Writes(task[a])
  BY DEF Writes
<1>4. Numbered' /\ Behind' /\ Written' /\ Keeps(jobs, jobs')
  BY <1>2, <1>3, Updated DEF OrderInv
<1> QED BY <1>1, <1>4, KeptAsItIs DEF Final, OrderInv

LEMMA BeginOrders ==
  ASSUME OrderInv, NEW i \in Ids, Begin(i)
  PROVE  Numbered' /\ Threads' /\ Behind' /\ Written' /\ Final
<1>1. task' \in [Client \cup Ids -> Task] /\ task \in [Client \cup Ids -> Task]
  BY BeginKeeps DEF OrderInv, JobsInv, TypeOK
<1>2. UNCHANGED <<disk, created, failures, restarts>> /\ task[i].at = "begin"
  BY DEF Begin, counts
<1>3. CASE i \in DOMAIN jobs /\ jobs[i].state = "queued"
  <2> DEFINE job == [jobs[i] EXCEPT !.state = "running"]
  <2>1. job \in Job /\ ~Terminal(jobs[i])
    BY <1>3 DEF OrderInv, JobsInv, TypeOK, IsList, Job, States, Terminal
  <2>2. Update(i, job) /\ Hold(i, job)
    BY <1>3 DEF Begin
  <2> HIDE DEF job
  <2>3. /\ \A b \in Client \cup Ids : b # i => task'[b] = task[b]
        /\ task'[i].at = "send" /\ task'[i].snap = Changed(job)
        /\ task'[i].doing = task[i].doing /\ task'[i].id = task[i].id
    BY <1>1, <2>2 DEF Hold, Task
  <2> QED BY <1>1, <1>2, <1>3, <2>1, <2>2, <2>3, UpdateOrders
<1>4. CASE ~(i \in DOMAIN jobs /\ jobs[i].state = "queued")
  <2>1. UNCHANGED jobs /\ task' = [task EXCEPT ![i] = Ended]
    BY <1>4 DEF Begin
  <2> QED BY <1>1, <1>2, <2>1, ReturnOrders
<1> QED BY <1>3, <1>4

LEMMA ReportPhaseOrders ==
  ASSUME OrderInv, NEW i \in Ids, ReportPhase(i)
  PROVE  Numbered' /\ Threads' /\ Behind' /\ Written' /\ Final
<1>1. task' \in [Client \cup Ids -> Task] /\ task \in [Client \cup Ids -> Task]
  BY ReportPhaseKeeps DEF OrderInv, JobsInv, TypeOK
<1>2. UNCHANGED <<disk, created, failures, restarts>> /\ task[i].at = "work"
  BY DEF ReportPhase, At, counts
<1>3. i \in DOMAIN jobs /\ jobs[i] \in Job /\ Update(i, jobs[i])
  BY DEF ReportPhase, At, OrderInv, JobsInv, TypeOK, IsList
<1>4. /\ \A b \in Client \cup Ids : b # i => task'[b] = task[b]
      /\ task'[i].at = "send" /\ task'[i].snap = Changed(jobs[i])
      /\ task'[i].doing = task[i].doing /\ task'[i].id = task[i].id
  BY <1>1 DEF ReportPhase, Task
<1> QED BY <1>1, <1>2, <1>3, <1>4, UpdateOrders

LEMMA FinishOrders ==
  ASSUME OrderInv, NEW i \in Ids, Finish(i)
  PROVE  Numbered' /\ Threads' /\ Behind' /\ Written' /\ Final
<1> DEFINE job == Outcome(jobs[i], task[i].at)
<1>1. task' \in [Client \cup Ids -> Task] /\ task \in [Client \cup Ids -> Task]
  BY FinishKeeps DEF OrderInv, JobsInv, TypeOK
<1>2. /\ UNCHANGED <<disk, created, failures, restarts>>
      /\ task[i].at \in {"work", "stopped", "broken"}
  BY DEF Finish, counts
<1>3. i \in DOMAIN jobs /\ jobs[i] \in Job /\ ~Terminal(jobs[i])
  BY <1>2 DEF OrderInv, JobsInv, TypeOK, OneAtATime, Executing, IsList, Terminal
<1>4. job \in Job /\ Update(i, job) /\ Hold(i, job)
  BY <1>2, <1>3, OutcomeEnds DEF Finish
<1> HIDE DEF job
<1>5. /\ \A b \in Client \cup Ids : b # i => task'[b] = task[b]
      /\ task'[i].at = "send" /\ task'[i].snap = Changed(job)
      /\ task'[i].doing = task[i].doing /\ task'[i].id = task[i].id
  BY <1>1, <1>4 DEF Hold, Task
<1> QED BY <1>1, <1>2, <1>3, <1>4, <1>5, UpdateOrders

LEMMA MarkOrders ==
  ASSUME OrderInv, NEW c \in Client, MarkCancelled(c)
  PROVE  Numbered' /\ Threads' /\ Behind' /\ Written' /\ Final
<1> PICK i : i = task[c].id
  OBVIOUS
<1>1. task' \in [Client \cup Ids -> Task] /\ task \in [Client \cup Ids -> Task]
  BY MarkKeeps DEF OrderInv, JobsInv, TypeOK
<1>2. UNCHANGED <<disk, created, failures, restarts>> /\ task[c].at = "mark"
  BY DEF MarkCancelled, counts
<1>3. CASE i \in DOMAIN jobs
  <2> DEFINE job == Marked(jobs[i])
  <2>1. jobs[i] \in Job
    BY <1>3 DEF OrderInv, JobsInv, TypeOK, IsList
  <2>2. job \in Job
    BY <1>3, <2>1, MarkedJob DEF OrderInv, JobsInv, CancelWins, Honoured
  <2>3. Terminal(jobs[i]) => job = jobs[i]
    BY DEF Marked, Terminal
  <2>4. Update(i, job) /\ Hold(c, job)
    BY <1>3 DEF MarkCancelled
  <2> HIDE DEF job
  <2>5. /\ \A b \in Client \cup Ids : b # c => task'[b] = task[b]
        /\ task'[c].at = "send" /\ task'[c].snap = Changed(job)
        /\ task'[c].doing = task[c].doing /\ task'[c].id = task[c].id
    BY <1>1, <2>4 DEF Hold, Task
  <2> QED BY <1>1, <1>2, <1>3, <2>2, <2>3, <2>4, <2>5, UpdateOrders
<1>4. CASE i \notin DOMAIN jobs
  <2>1. UNCHANGED jobs /\ task' = [task EXCEPT ![c] = Idle]
    BY <1>4 DEF MarkCancelled
  <2> QED BY <1>1, <1>2, <2>1, ReturnOrders
<1> QED BY <1>3, <1>4

(* A restart reads the list back and writes it.                            *)
LEMMA RestartOrders ==
  ASSUME OrderInv, restarts \in Nat, Restart
  PROVE  Numbered' /\ Threads' /\ Behind' /\ Written' /\ Final
<1>1. /\ DOMAIN jobs' = DOMAIN disk /\ disk' = jobs' /\ UNCHANGED <<created, failures>>
      /\ jobs' = [i \in DOMAIN disk |-> Restored(disk[i])]
      /\ \A a \in Client \cup Ids : task'[a] = Idle
      /\ restarts' = restarts + 1
  BY DEF Restart
<1>2. Numbered'
  BY <1>1 DEF OrderInv, Numbered
<1>3. Threads'
  BY <1>1 DEF OrderInv, Threads, Idle
<1>4. JobsInv' /\ Keeps(jobs', jobs')
  BY RestartKeeps DEF OrderInv, JobsInv, TypeOK, IsList, Keeps, Job
<1>5. Behind' /\ Current'
  BY <1>1, <1>4 DEF Behind, Current, Keeps, Same
<1>6. Written'
  BY <1>1, <1>5 DEF OrderInv, Written
<1>7. Keeps(disk, disk')
  BY <1>1, KeptAsItIs DEF OrderInv, Keeps, Restored
<1>8. restarts' # restarts
  BY <1>1
<1> QED BY <1>2, <1>3, <1>5, <1>6, <1>7, <1>8 DEF Final

LEMMA RestartsAreCounted == ASSUME restarts \in Nat, [Next]_vars PROVE restarts' \in Nat
<1> USE DEF counts
<1>1. ASSUME NEW c \in Client,
             \/ \E k \in Kind : Start(c, k)
             \/ \E i \in Ids : Cancel(c, i)
             \/ RequestStep(c) \/ SpawnFails(c)
      PROVE  UNCHANGED restarts
  BY <1>1 DEF Start, Cancel, RequestStep, MarkCancelled, Send, Persist, Spawn, SpawnFails, SetFlag
<1>2. ASSUME NEW i \in Ids, ThreadStep(i) \/ ExecutorFails(i) PROVE UNCHANGED restarts
  BY <1>2 DEF ThreadStep, Begin, ReportPhase, Send, Persist, Checkpoint, Publish, ExecutorFails, Finish
<1>3. ASSUME NEW a \in Client \cup Ids, PersistFails(a) PROVE UNCHANGED restarts
  BY <1>3 DEF PersistFails
<1>4. CASE UNCHANGED vars
  BY <1>4 DEF vars
<1>5. CASE Restart
  BY <1>5 DEF Restart
<1> QED BY <1>1, <1>2, <1>3, <1>4, <1>5 DEF Next, Step

LEMMA OrderStep == ASSUME OrderInv, restarts \in Nat, Next PROVE OrderInv' /\ Final
<1> DEFINE Goal == Numbered' /\ Threads' /\ Behind' /\ Written' /\ Final
<1>1. ASSUME NEW c \in Client,
             \/ \E k \in Kind : Start(c, k)
             \/ \E i \in Ids : Cancel(c, i)
             \/ RequestStep(c) \/ SpawnFails(c)
      PROVE  Goal
  BY <1>1, StartOrders, StatementOrders, SendOrders, PersistOrders, SpawnOrders, MarkOrders
     DEF RequestStep
<1>2. ASSUME NEW i \in Ids, ThreadStep(i) \/ ExecutorFails(i) PROVE Goal
  BY <1>2, SendOrders, PersistOrders, BeginOrders, ReportPhaseOrders, StatementOrders,
     FinishOrders DEF ThreadStep
<1>3. ASSUME NEW a \in Client \cup Ids, PersistFails(a) PROVE Goal
  BY <1>3, PersistOrders
<1>4. Goal
  BY <1>1, <1>2, <1>3, RestartOrders DEF Next, Step
<1>5. JobsInv'
  BY JobsStepKeeps DEF OrderInv
<1> QED BY <1>4, <1>5 DEF OrderInv

LEMMA OrderKeeps ==
  OrderInv /\ restarts \in Nat /\ [Next]_vars => OrderInv' /\ (restarts \in Nat)'
<1> SUFFICES ASSUME OrderInv, restarts \in Nat, [Next]_vars PROVE OrderInv' /\ restarts' \in Nat
  OBVIOUS
<1>1. CASE UNCHANGED vars
  <2>1. JobsInv'
    BY JobsStepKeeps DEF OrderInv
  <2>2. Numbered' /\ Threads' /\ Behind' /\ Written'
    BY <1>1 DEF vars, counts, OrderInv, Numbered, Threads, Behind, Written, Current
  <2> QED BY <2>1, <2>2, RestartsAreCounted DEF OrderInv
<1> QED BY <1>1, OrderStep, RestartsAreCounted

LEMMA OrderAlways == Spec => [](OrderInv /\ restarts \in Nat)
<1>1. Init => restarts \in Nat
  BY DEF Init
<1> QED BY OrderStarts, OrderKeeps, <1>1, PTL DEF Spec

(* Outcomes are final, in the list while the process lives and in          *)
(* jobs.json for good: whatever order updates, broadcasts and writes of    *)
(* any number of requests and threads come in, and whatever restarts.      *)
THEOREM OutcomesAreFinal == Spec => OutcomeIsFinal
<1>1. OrderInv /\ restarts \in Nat /\ [Next]_vars =>
        [Keeps(disk, disk') /\ (restarts' = restarts => Keeps(jobs, jobs'))]_vars
  BY OrderStep DEF Final
<1> QED BY OrderAlways, <1>1, PTL DEF Spec, OutcomeIsFinal

(* Once every request and thread is done, jobs.json lists every listed job *)
(* and holds its outcome, if no write failed, although each writes after   *)
(* unlocking and in any order (persist).                                   *)
THEOREM DiskIsCurrent == Spec => []DiskCatchesUp
BY OrderAlways, WrittenMeansCurrent, PTL

----------------------------------------------------------------------------
(* What a cancelled job has replaced.  An executor that has replaced an    *)
(* index is past the statement that did, and one that was stopped is at    *)
(* its checkpoint; a job whose thread does not exist has replaced none.    *)
HasPublished(i) ==
  \E m \in DOMAIN Program[jobs[i].kind] :
    m < task[i].step /\ Program[jobs[i].kind][m] = "publish"

AtCheck(i) ==
  /\ task[i].step \in DOMAIN Program[jobs[i].kind]
  /\ Program[jobs[i].kind][task[i].step] = "check"

TimelyTasks ==
  /\ \A c \in Client : task[c].doing = "start" => task[c].id \notin published
  /\ \A i \in Ids : i \in published =>
       task[i].at # "begin" /\ (Executing(i) => HasPublished(i))
  /\ \A i \in Ids : task[i].at = "stopped" => AtCheck(i)

Timely(list) ==
  \A i \in DOMAIN list : list[i].why = "unpublished" =>
    Terminal(list[i]) /\ (i \in published => PublishesEarly(list[i].kind))

TimelyInv ==
  published \subseteq 1..created /\ TimelyTasks /\ Timely(jobs) /\ Timely(disk)

(* A request or a thread goes on with what it was doing.                   *)
GoesOn(a) ==
  /\ task'[a].doing = "start" => task[a].doing = "start" /\ task'[a].id = task[a].id
  /\ a \in Ids =>
       /\ task'[a].at # "begin"
       /\ task'[a].at = "stopped" =>
            AtCheck(a) /\ a \in DOMAIN jobs /\ task'[a].step = task[a].step
       /\ Executing(a)' =>
            a \notin published \/ (Executing(a) /\ task[a].step <= task'[a].step)

(* Steps that replace no index, and of which the kinds of jobs are left.   *)
LEMMA GoingOnIsTimely ==
  ASSUME JobsInv, TimelyTasks, UNCHANGED published, NEW a \in Client \cup Ids, GoesOn(a),
         task' \in [Client \cup Ids -> Task],
         \A b \in Client \cup Ids : b # a => task'[b] = task[b],
         \A i \in DOMAIN jobs : i \in DOMAIN jobs' /\ jobs'[i].kind = jobs[i].kind
  PROVE  TimelyTasks'
<1>1. \A c \in Client : task'[c].doing = "start" => task'[c].id \notin published'
  BY DEF TimelyTasks, GoesOn
<1>2. ASSUME NEW i \in Ids, i \in published
      PROVE  task'[i].at # "begin" /\ (Executing(i)' => HasPublished(i)')
  <2>1. task'[i].at # "begin"
    BY <1>2 DEF TimelyTasks, GoesOn
  <2>2. Executing(i)' => Executing(i) /\ task[i].step <= task'[i].step
    <3>1. task[i].step \in Nat
      BY DEF JobsInv, TypeOK, Task
    <3> QED BY <1>2, <3>1 DEF GoesOn, Executing
  <2>3. Executing(i)' => HasPublished(i) /\ i \in DOMAIN jobs /\ jobs'[i].kind = jobs[i].kind
    BY <1>2, <2>2 DEF TimelyTasks, JobsInv, OneAtATime
  <2>4. Executing(i)' => HasPublished(i)'
    <3> SUFFICES ASSUME Executing(i)' PROVE HasPublished(i)'
      OBVIOUS
    <3>1. PICK m \in DOMAIN Program[jobs[i].kind] :
                 m < task[i].step /\ Program[jobs[i].kind][m] = "publish"
      BY <2>3 DEF HasPublished
    <3>2. task[i].step \in Nat /\ task'[i].step \in Nat /\ jobs[i].kind \in Kind
      BY <2>3 DEF JobsInv, TypeOK, IsList, Task, Job
    <3>3. m \in Nat
      BY <3>1, <3>2, JobsAssumption DEF JobsAssumption
    <3>4. m < task'[i].step
      BY <2>2, <3>1, <3>2, <3>3
    <3> QED BY <2>3, <3>1, <3>4 DEF HasPublished
  <2> QED BY <2>1, <2>4
<1>3. ASSUME NEW i \in Ids, task'[i].at = "stopped" PROVE AtCheck(i)'
  <2>1. CASE i = a
    BY <1>3, <2>1 DEF GoesOn, AtCheck
  <2>2. CASE i # a
    <3>1. task'[i] = task[i]
      BY <2>2
    <3>2. AtCheck(i) /\ i \in DOMAIN jobs
      BY <1>3, <3>1 DEF TimelyTasks, JobsInv, OneAtATime, Executing
    <3> QED BY <3>1, <3>2 DEF AtCheck
  <2> QED BY <2>1, <2>2
<1> QED BY <1>1, <1>2, <1>3 DEF TimelyTasks

LEMMA UpdateIsTimely ==
  ASSUME JobsInv, Timely(jobs), Timely(disk), NEW i \in DOMAIN jobs, NEW job \in Job,
         Update(i, job), UNCHANGED <<disk, published>>, job.kind = jobs[i].kind,
         job.why = "unpublished" =>
           Terminal(job) /\ (i \in published => PublishesEarly(job.kind))
  PROVE  /\ Timely(jobs)' /\ Timely(disk)'
         /\ \A j \in DOMAIN jobs : j \in DOMAIN jobs' /\ jobs'[j].kind = jobs[j].kind
<1>1. jobs' = [jobs EXCEPT ![i] = Changed(job)]
  BY DEF Update
<1>2. /\ Changed(job).kind = job.kind /\ Changed(job).why = job.why
      /\ Terminal(Changed(job)) <=> Terminal(job)
  BY DEF Changed, Terminal, Job
<1>a. /\ DOMAIN jobs' = DOMAIN jobs /\ jobs'[i] = Changed(job)
      /\ \A j \in DOMAIN jobs : j # i => jobs'[j] = jobs[j]
  BY <1>1 DEF JobsInv, TypeOK, IsList
<1>3. Timely(jobs)'
  <2> SUFFICES ASSUME NEW j \in DOMAIN jobs, jobs'[j].why = "unpublished"
               PROVE  /\ Terminal(jobs'[j])
                      /\ j \in published => PublishesEarly(jobs'[j].kind)
    BY <1>a DEF Timely, PublishesEarly, Terminal
  <2>1. CASE j = i
    BY <1>2, <1>a, <2>1
  <2>2. CASE j # i
    BY <1>a, <2>2 DEF Timely
  <2> QED BY <2>1, <2>2
<1>4. Timely(disk)'
  BY DEF Timely, PublishesEarly, Terminal
<1>5. \A j \in DOMAIN jobs : j \in DOMAIN jobs' /\ jobs'[j].kind = jobs[j].kind
  BY <1>1, <1>2 DEF JobsInv, TypeOK, IsList
<1> QED BY <1>3, <1>4, <1>5

LEMMA ListsStayTimely ==
  ASSUME Timely(jobs), Timely(disk), UNCHANGED <<jobs, published>>, disk' = disk \/ disk' = jobs
  PROVE  Timely(jobs)' /\ Timely(disk)'
BY DEF Timely, PublishesEarly, Terminal

LEMMA TimelyBegins == Init => TimelyInv
BY JobsAssumption DEF JobsAssumption, Init, TimelyInv, TimelyTasks, Timely, Idle, Executing

LEMMA StartIsTimely ==
  ASSUME OrderInv, TimelyInv, NEW c \in Client, NEW k \in Kind, Start(c, k)
  PROVE  TimelyInv'
<1> DEFINE new == created + 1
<1>1. /\ created \in Nat /\ created' = new /\ UNCHANGED <<disk, published>>
      /\ new \notin published /\ published \subseteq 1..created'
  BY DEF Start, OrderInv, JobsInv, TypeOK, TimelyInv
<1>2. /\ \A b \in Client \cup Ids : b # c => task'[b] = task[b]
      /\ task'[c].id = new
  BY DEF Start, OrderInv, JobsInv, TypeOK
<1>3. /\ DOMAIN jobs' \subseteq DOMAIN jobs \cup {new}
      /\ \A i \in DOMAIN jobs' : \/ i = new /\ jobs'[i].why = "none"
                                 \/ i \in DOMAIN jobs /\ jobs'[i] = jobs[i]
  BY DEF Start, Newest
<1>4. \A i \in Ids : task'[i] = task[i] /\ ~Executing(i)
  BY <1>2, ClientsAreNotThreads DEF Start, Active, OrderInv, JobsInv, OneAtATime, Terminal
<1>5. TimelyTasks'
  <2>1. \A d \in Client : task'[d].doing = "start" => task'[d].id \notin published'
    BY <1>1, <1>2 DEF TimelyInv, TimelyTasks
  <2>2. \A i \in Ids : ~Executing(i)' /\ task'[i].at # "stopped"
    BY <1>4 DEF Executing
  <2> QED BY <1>1, <1>4, <2>1, <2>2 DEF TimelyInv, TimelyTasks
<1>6. Timely(jobs)' /\ Timely(disk)'
  BY <1>1, <1>3 DEF TimelyInv, Timely, PublishesEarly, Terminal
<1> QED BY <1>1, <1>5, <1>6 DEF TimelyInv

LEMMA SendIsTimely ==
  ASSUME OrderInv, TimelyInv, NEW a \in Client \cup Ids, Send(a)
  PROVE  TimelyInv'
<1>1. task[a] \in Task /\ task[a].at = "send" /\ task[a].snap \in Job
  BY DEF Send, OrderInv, JobsInv, TypeOK
<1>2. /\ task' = [task EXCEPT ![a] = AfterSend(task[a])]
      /\ UNCHANGED <<jobs, disk, published, created>>
  BY DEF Send
<1>3. task' \in [Client \cup Ids -> Task]
  BY SendKeeps DEF OrderInv, JobsInv, TypeOK
<1>4. /\ task'[a] = AfterSend(task[a])
      /\ \A b \in Client \cup Ids : b # a => task'[b] = task[b]
  BY <1>2 DEF OrderInv, JobsInv, TypeOK
<1>5. GoesOn(a)
  <2>1. CASE task[a].doing = "start" \/ Terminal(task[a].snap)
    <3>1. AfterSend(task[a]) = [task[a] EXCEPT !.at = "persist", !.snap = Nothing]
      BY <2>1 DEF AfterSend
    <3> QED BY <1>1, <1>4, <3>1 DEF GoesOn, Executing, Task
  <2>2. CASE task[a].doing = "run" /\ ~Terminal(task[a].snap)
    <3>1. AfterSend(task[a]) = [task[a] EXCEPT !.at = "work", !.snap = Nothing]
      BY <2>2 DEF AfterSend
    <3> QED BY <1>1, <1>4, <2>2, <3>1 DEF GoesOn, Executing, Task
  <2>3. CASE task[a].doing = "cancel" /\ ~Terminal(task[a].snap)
    <3>1. AfterSend(task[a]) = Idle
      BY <2>3 DEF AfterSend
    <3> QED BY <1>4, <3>1 DEF GoesOn, Executing, Idle
  <2> QED BY <1>1, <2>1, <2>2, <2>3 DEF Task, OrderInv, JobsInv, TypeOK
<1>6. TimelyTasks'
  BY <1>2, <1>3, <1>4, <1>5, GoingOnIsTimely DEF OrderInv, TimelyInv
<1> QED BY <1>2, <1>6, ListsStayTimely DEF TimelyInv

LEMMA PersistIsTimely ==
  ASSUME OrderInv, TimelyInv, NEW a \in Client \cup Ids, Persist(a) \/ PersistFails(a)
  PROVE  TimelyInv'
<1>1. /\ task' = [task EXCEPT ![a] = AfterPersist(task[a])]
      /\ disk' = disk \/ disk' = jobs
      /\ UNCHANGED <<jobs, published, created>>
  BY DEF Persist, PersistFails
<1>2. task' \in [Client \cup Ids -> Task] /\ task[a] \in Task
  BY PersistKeeps DEF OrderInv, JobsInv, TypeOK
<1>3. /\ task'[a] = AfterPersist(task[a])
      /\ \A b \in Client \cup Ids : b # a => task'[b] = task[b]
  BY <1>1 DEF OrderInv, JobsInv, TypeOK
<1>4. GoesOn(a)
  BY <1>2, <1>3 DEF GoesOn, AfterPersist, Rest, Ended, Idle, Executing, Task
<1>5. TimelyTasks'
  BY <1>1, <1>2, <1>3, <1>4, GoingOnIsTimely DEF OrderInv, TimelyInv
<1> QED BY <1>1, <1>5, ListsStayTimely DEF TimelyInv

LEMMA SpawnIsTimely ==
  ASSUME OrderInv, TimelyInv, NEW c \in Client, Spawn(c) \/ SpawnFails(c)
  PROVE  TimelyInv'
<1>1. UNCHANGED <<jobs, disk, published, created>>
  BY DEF Spawn, SpawnFails
<1>2. CASE SpawnFails(c)
  <2>1. task' = [task EXCEPT ![c] = Idle]
    BY <1>2 DEF SpawnFails
  <2>2. task' \in [Client \cup Ids -> Task]
    BY SpawnKeeps DEF OrderInv, JobsInv, TypeOK
  <2>3. task'[c] = Idle /\ \A b \in Client \cup Ids : b # c => task'[b] = task[b]
    BY <2>1 DEF OrderInv, JobsInv, TypeOK
  <2>4. GoesOn(c)
    BY <2>3 DEF GoesOn, Idle, Executing
  <2>5. TimelyTasks'
    BY <1>1, <2>2, <2>3, <2>4, GoingOnIsTimely DEF OrderInv, TimelyInv
  <2> QED BY <1>1, <2>5, ListsStayTimely DEF TimelyInv
<1>3. CASE Spawn(c)
  <2> PICK i : i = task[c].id
    OBVIOUS
  <2>1. /\ i \in 1..created /\ i \notin published /\ task[i].at = "idle"
    BY <1>3 DEF Spawn, OrderInv, Threads, TimelyInv, TimelyTasks
  <2>2. i \in Ids /\ i # c
    BY <2>1, ClientsAreNotThreads, JobsAssumption
       DEF OrderInv, JobsInv, TypeOK, Ids, JobsAssumption
  <2>3. /\ task'[c] = Idle /\ task'[i] = Thread(i)
        /\ \A b \in Client \cup Ids : b \notin {c, i} => task'[b] = task[b]
    BY <1>3, <2>2 DEF Spawn, OrderInv, JobsInv, TypeOK
  <2>4. /\ \A d \in Client : task'[d].doing = "start" => task'[d] = task[d]
        /\ \A j \in Ids : j = i \/ task'[j] = task[j]
    BY <2>2, <2>3, ClientsAreNotThreads DEF Idle
  <2>5. task'[i].at = "begin" /\ ~Executing(i)'
    <3>1. Thread(i).at = "begin"
      BY DEF Thread, Idle
    <3> QED BY <2>3, <3>1 DEF Executing
  <2>6. TimelyTasks'
    BY <1>1, <2>1, <2>4, <2>5
       DEF TimelyInv, TimelyTasks, Executing, HasPublished, AtCheck
  <2> QED BY <1>1, <2>6, ListsStayTimely DEF TimelyInv
<1> QED BY <1>2, <1>3

LEMMA RequestIsTimely ==
  ASSUME OrderInv, TimelyInv, NEW c \in Client,
         (\E i \in Ids : Cancel(c, i)) \/ SetFlag(c)
  PROVE  TimelyInv'
<1>1. UNCHANGED <<jobs, disk, published, created>>
  BY DEF Cancel, SetFlag
<1>2. task' \in [Client \cup Ids -> Task] /\ task[c] \in Task
  BY RequestKeeps DEF OrderInv, JobsInv, TypeOK
<1>3. /\ \A b \in Client \cup Ids : b # c => task'[b] = task[b]
      /\ task'[c].doing = "start" => task[c].doing = "start" /\ task'[c].id = task[c].id
  <2>1. CASE SetFlag(c)
    BY <1>2, <2>1 DEF SetFlag, OrderInv, JobsInv, TypeOK, Task
  <2>2. CASE \E i \in Ids : Cancel(c, i)
    <3>1. PICK i \in Ids :
            task' = [task EXCEPT ![c] = [Idle EXCEPT !.at = "flag", !.doing = "cancel",
                                                     !.id = i]]
      BY <2>2 DEF Cancel
    <3>2. task'[c].doing = "cancel" /\ \A b \in Client \cup Ids : b # c => task'[b] = task[b]
      BY <3>1 DEF Idle, OrderInv, JobsInv, TypeOK
    <3> QED BY <3>2
  <2> QED BY <2>1, <2>2
<1>4. GoesOn(c)
  BY <1>3, ClientsAreNotThreads DEF GoesOn
<1>5. TimelyTasks'
  BY <1>1, <1>2, <1>3, <1>4, GoingOnIsTimely DEF OrderInv, TimelyInv
<1> QED BY <1>1, <1>5, ListsStayTimely DEF TimelyInv

LEMMA MarkIsTimely ==
  ASSUME OrderInv, TimelyInv, NEW c \in Client, MarkCancelled(c)
  PROVE  TimelyInv'
<1> DEFINE i == task[c].id
<1>1. UNCHANGED <<disk, published, created>>
  BY DEF MarkCancelled
<1>2. task' \in [Client \cup Ids -> Task] /\ task[c] \in Task
  BY MarkKeeps DEF OrderInv, JobsInv, TypeOK
<1>3. /\ \A b \in Client \cup Ids : b # c => task'[b] = task[b]
      /\ task'[c].doing = "start" => task[c].doing = "start" /\ task'[c].id = task[c].id
  BY <1>2 DEF MarkCancelled, Hold, Idle, OrderInv, JobsInv, TypeOK, Task
<1>4. GoesOn(c)
  BY <1>3, ClientsAreNotThreads DEF GoesOn
<1>5. /\ Timely(jobs)' /\ Timely(disk)'
      /\ \A j \in DOMAIN jobs : j \in DOMAIN jobs' /\ jobs'[j].kind = jobs[j].kind
  <2>1. CASE i \in DOMAIN jobs
    <3>1. jobs[i] \in Job /\ Update(i, Marked(jobs[i]))
      BY <2>1 DEF MarkCancelled, OrderInv, JobsInv, TypeOK, IsList
    <3>2. Marked(jobs[i]) \in Job
      BY <2>1, <3>1, MarkedJob DEF OrderInv, JobsInv, CancelWins, Honoured
    <3>3. /\ Marked(jobs[i]).kind = jobs[i].kind
          /\ \/ Marked(jobs[i]) = jobs[i]
             \/ ~Terminal(jobs[i]) /\ Marked(jobs[i]).why \in {"queued", jobs[i].why}
      <4>1. CASE Terminal(jobs[i])
        <5>1. Marked(jobs[i]) = jobs[i]
          BY <4>1 DEF Marked, Terminal
        <5> QED BY <5>1
      <4>2. CASE jobs[i].state = "queued"
        BY <3>1, <4>2 DEF Marked, Terminal, Job
      <4>3. CASE jobs[i].state = "running"
        BY <3>1, <4>3 DEF Marked, Terminal, Job
      <4> QED BY <3>1, <4>1, <4>2, <4>3 DEF Terminal, Job, States
    <3>4. Marked(jobs[i]).why = "unpublished" =>
            /\ Terminal(Marked(jobs[i]))
            /\ i \in published => PublishesEarly(Marked(jobs[i]).kind)
      BY <2>1, <3>3 DEF TimelyInv, Timely
    <3> QED BY <1>1, <2>1, <3>1, <3>2, <3>3, <3>4, UpdateIsTimely DEF OrderInv, TimelyInv
  <2>2. CASE i \notin DOMAIN jobs
    <3>1. UNCHANGED jobs
      BY <2>2 DEF MarkCancelled
    <3> QED BY <1>1, <3>1, ListsStayTimely DEF TimelyInv
  <2> QED BY <2>1, <2>2
<1>6. TimelyTasks'
  BY <1>1, <1>2, <1>3, <1>4, <1>5, GoingOnIsTimely DEF OrderInv, TimelyInv
<1> QED BY <1>1, <1>5, <1>6 DEF TimelyInv

(* The updates of a thread whose executor goes on.                         *)
LEMMA ThreadUpdateIsTimely ==
  ASSUME OrderInv, TimelyInv, NEW i \in DOMAIN jobs, NEW job \in Job, Update(i, job),
         UNCHANGED <<disk, published, created>>, job.kind = jobs[i].kind,
         job.why = "unpublished" =>
           Terminal(job) /\ (i \in published => PublishesEarly(job.kind)),
         NEW a \in Client \cup Ids, GoesOn(a),
         task' \in [Client \cup Ids -> Task],
         \A b \in Client \cup Ids : b # a => task'[b] = task[b]
  PROVE  TimelyInv'
<1>1. /\ Timely(jobs)' /\ Timely(disk)'
      /\ \A j \in DOMAIN jobs : j \in DOMAIN jobs' /\ jobs'[j].kind = jobs[j].kind
  BY UpdateIsTimely DEF OrderInv, TimelyInv
<1>2. TimelyTasks'
  BY <1>1, GoingOnIsTimely DEF OrderInv, TimelyInv
<1> QED BY <1>1, <1>2 DEF TimelyInv

LEMMA BeginIsTimely ==
  ASSUME OrderInv, TimelyInv, NEW i \in Ids, Begin(i)
  PROVE  TimelyInv'
<1>1. task' \in [Client \cup Ids -> Task] /\ task \in [Client \cup Ids -> Task]
  BY BeginKeeps DEF OrderInv, JobsInv, TypeOK
<1>2. UNCHANGED <<disk, published, created>> /\ task[i].at = "begin" /\ i \notin published
  BY DEF Begin, TimelyInv, TimelyTasks
<1>3. CASE i \in DOMAIN jobs /\ jobs[i].state = "queued"
  <2> DEFINE job == [jobs[i] EXCEPT !.state = "running"]
  <2>1. /\ job \in Job /\ job.kind = jobs[i].kind /\ job.why = jobs[i].why
        /\ ~Terminal(jobs[i])
    BY <1>3 DEF OrderInv, JobsInv, TypeOK, IsList, Job, States, Terminal
  <2>2. Update(i, job) /\ Hold(i, job)
    BY <1>3 DEF Begin
  <2> HIDE DEF job
  <2>3. /\ \A b \in Client \cup Ids : b # i => task'[b] = task[b]
        /\ task'[i].at = "send"
        /\ task'[i].doing = task[i].doing /\ task'[i].id = task[i].id
    BY <1>1, <2>2 DEF Hold, Task
  <2>4. GoesOn(i)
    BY <1>2, <2>3 DEF GoesOn
  <2>5. job.why # "unpublished"
    BY <1>3, <2>1 DEF TimelyInv, Timely
  <2> QED BY <1>1, <1>2, <1>3, <2>1, <2>2, <2>3, <2>4, <2>5, ThreadUpdateIsTimely
<1>4. CASE ~(i \in DOMAIN jobs /\ jobs[i].state = "queued")
  <2>1. UNCHANGED jobs /\ task' = [task EXCEPT ![i] = Ended]
    BY <1>4 DEF Begin
  <2>2. task'[i] = Ended /\ \A b \in Client \cup Ids : b # i => task'[b] = task[b]
    BY <1>1, <2>1
  <2>3. GoesOn(i)
    BY <2>2 DEF GoesOn, Ended, Idle, Executing
  <2>4. TimelyTasks'
    BY <1>1, <1>2, <2>1, <2>2, <2>3, GoingOnIsTimely DEF OrderInv, TimelyInv
  <2> QED BY <1>2, <2>1, <2>4, ListsStayTimely DEF TimelyInv
<1> QED BY <1>3, <1>4

LEMMA ReportPhaseIsTimely ==
  ASSUME OrderInv, TimelyInv, NEW i \in Ids, ReportPhase(i)
  PROVE  TimelyInv'
<1>1. task' \in [Client \cup Ids -> Task] /\ task[i] \in Task
  BY ReportPhaseKeeps DEF OrderInv, JobsInv, TypeOK
<1>2. UNCHANGED <<disk, published, created>> /\ task[i].at = "work"
  BY DEF ReportPhase, At
<1>3. /\ i \in DOMAIN jobs /\ jobs[i] \in Job /\ Update(i, jobs[i])
      /\ jobs[i].state = "running"
  BY DEF ReportPhase, At, OrderInv, JobsInv, TypeOK, IsList, OneAtATime, Executing
<1>4. /\ \A b \in Client \cup Ids : b # i => task'[b] = task[b]
      /\ task'[i].at = "send" /\ task'[i].step = task[i].step + 1
      /\ task'[i].doing = task[i].doing /\ task'[i].id = task[i].id
  BY <1>1 DEF ReportPhase, Task, OrderInv, JobsInv, TypeOK
<1>5. GoesOn(i)
  BY <1>1, <1>2, <1>4 DEF GoesOn, Executing, Task
<1>6. jobs[i].why # "unpublished"
  BY <1>3 DEF TimelyInv, Timely, Terminal
<1> QED BY <1>1, <1>2, <1>3, <1>4, <1>5, <1>6, ThreadUpdateIsTimely

(* A checkpoint that stops the executor is the one it is at.               *)
LEMMA StatementIsTimely ==
  ASSUME OrderInv, TimelyInv, NEW i \in Ids, Checkpoint(i) \/ ExecutorFails(i)
  PROVE  TimelyInv'
<1>1. task' \in [Client \cup Ids -> Task] /\ task[i] \in Task
  BY StatementKeeps DEF OrderInv, JobsInv, TypeOK
<1>2. UNCHANGED <<jobs, disk, published, created>> /\ task[i].at = "work" /\ i \in DOMAIN jobs
  BY DEF Checkpoint, ExecutorFails, At
<1>3. /\ \A b \in Client \cup Ids : b # i => task'[b] = task[b]
      /\ task'[i].doing = task[i].doing /\ task'[i].id = task[i].id
      /\ task'[i].at # "begin"
      /\ task[i].step <= task'[i].step
      /\ task'[i].at = "stopped" => Checkpoint(i) /\ task'[i].step = task[i].step
  BY <1>1, <1>2 DEF Checkpoint, ExecutorFails, Task, OrderInv, JobsInv, TypeOK
<1>4. Checkpoint(i) => AtCheck(i)
  BY DEF Checkpoint, At, AtCheck
<1>5. GoesOn(i)
  BY <1>2, <1>3, <1>4 DEF GoesOn, Executing
<1>6. TimelyTasks'
  BY <1>1, <1>2, <1>3, <1>5, GoingOnIsTimely DEF OrderInv, TimelyInv
<1> QED BY <1>2, <1>6, ListsStayTimely DEF TimelyInv

(* Replacing an index: the executor is past that statement.                *)
LEMMA PublishIsTimely ==
  ASSUME OrderInv, TimelyInv, NEW i \in Ids, Publish(i)
  PROVE  TimelyInv'
<1>1. task' \in [Client \cup Ids -> Task] /\ task[i] \in Task
  BY StatementKeeps DEF OrderInv, JobsInv, TypeOK
<1>2. /\ UNCHANGED <<jobs, disk, created>> /\ task[i].at = "work" /\ i \in DOMAIN jobs
      /\ task[i].step \in DOMAIN Program[jobs[i].kind]
      /\ Program[jobs[i].kind][task[i].step] = "publish"
      /\ published' \subseteq published \cup {i}
  BY DEF Publish, At
<1>3. /\ \A b \in Client \cup Ids : b # i => task'[b] = task[b]
      /\ task'[i].doing = task[i].doing /\ task'[i].id = task[i].id
      /\ task'[i].at = "work" /\ task'[i].step = task[i].step + 1
  BY <1>1, <1>2 DEF Publish, Task, OrderInv, JobsInv, TypeOK
<1>4. jobs[i] \in Job /\ jobs[i].state = "running"
  BY <1>2 DEF OrderInv, JobsInv, TypeOK, IsList, OneAtATime, Executing
<1>5. created \in Nat /\ i \in 1..created
  BY <1>2, JobsAssumption DEF OrderInv, JobsInv, TypeOK, Numbered, Ids, JobsAssumption
<1>6. TimelyTasks'
  <2>1. ASSUME NEW c \in Client, task'[c].doing = "start" PROVE task'[c].id \notin published'
    <3>1. task'[c] = task[c]
      BY <1>3, ClientsAreNotThreads
    <3>2. task[task[c].id].at = "idle" /\ task[c].id \notin published
      BY <2>1, <3>1 DEF OrderInv, Threads, TimelyInv, TimelyTasks
    <3> QED BY <1>2, <3>1, <3>2
  <2>2. task[i].step < task'[i].step
    BY <1>1, <1>3 DEF Task
  <2>3. ASSUME NEW j \in Ids, j \in published'
        PROVE  task'[j].at # "begin" /\ (Executing(j)' => HasPublished(j)')
    <3>1. CASE j = i
      BY <1>2, <1>3, <2>2, <3>1 DEF HasPublished
    <3>2. CASE j # i
      BY <1>2, <1>3, <2>3, <3>2 DEF TimelyInv, TimelyTasks, Executing, HasPublished
    <3> QED BY <3>1, <3>2
  <2>4. ASSUME NEW j \in Ids, task'[j].at = "stopped" PROVE AtCheck(j)'
    BY <1>2, <1>3, <2>4 DEF TimelyInv, TimelyTasks, AtCheck
  <2> QED BY <2>1, <2>3, <2>4 DEF TimelyTasks
<1>7. Timely(jobs)' /\ Timely(disk)'
  <2>1. jobs[i].why # "unpublished"
    BY <1>2, <1>4 DEF TimelyInv, Timely, Terminal
  <2>2. i \in DOMAIN disk => disk[i].why # "unpublished"
    <3> SUFFICES ASSUME i \in DOMAIN disk, disk[i].why = "unpublished" PROVE FALSE
      OBVIOUS
    <3>1. Terminal(disk[i]) /\ disk[i] \in Job
      BY DEF TimelyInv, Timely, OrderInv, JobsInv, TypeOK, IsList
    <3>2. jobs[i] = [disk[i] EXCEPT !.revision = jobs[i].revision]
      BY <1>2, <3>1 DEF OrderInv, Behind, Same
    <3>3. jobs[i].why = disk[i].why
      BY <3>1, <3>2 DEF Job
    <3> QED BY <2>1, <3>3
  <2>3. \A j \in DOMAIN jobs : jobs[j].why = "unpublished" => j # i
    BY <2>1
  <2> QED BY <1>2, <2>1, <2>2, <2>3 DEF TimelyInv, Timely, PublishesEarly, Terminal
<1> QED BY <1>2, <1>5, <1>6, <1>7 DEF TimelyInv

(* A stopped executor had replaced no index before its checkpoint, or its  *)
(* kind publishes early.                                                   *)
LEMMA FinishIsTimely ==
  ASSUME OrderInv, TimelyInv, NEW i \in Ids, Finish(i)
  PROVE  TimelyInv'
<1> DEFINE job == Outcome(jobs[i], task[i].at)
<1>1. task' \in [Client \cup Ids -> Task] /\ task \in [Client \cup Ids -> Task]
  BY FinishKeeps DEF OrderInv, JobsInv, TypeOK
<1>2. /\ UNCHANGED <<disk, published, created>>
      /\ task[i].at \in {"work", "stopped", "broken"}
  BY DEF Finish
<1>3. i \in DOMAIN jobs /\ jobs[i] \in Job /\ jobs[i].state = "running"
  BY <1>2 DEF OrderInv, JobsInv, TypeOK, OneAtATime, Executing, IsList
<1>4. jobs[i].why # "unpublished"
  BY <1>3 DEF TimelyInv, Timely, Terminal
<1>5. job \in Job /\ Terminal(job) /\ Update(i, job) /\ Hold(i, job)
  BY <1>2, <1>3, OutcomeEnds DEF Finish
<1>6. job.kind = jobs[i].kind /\ (job.why = "unpublished" => task[i].at = "stopped")
  <2>1. CASE task[i].at = "stopped"
    BY <1>3, <2>1 DEF Outcome, Job
  <2>2. CASE task[i].at # "stopped" /\ jobs[i].cancelRequested
    BY <1>3, <2>2 DEF Outcome, Job
  <2>3. CASE task[i].at = "work" /\ ~jobs[i].cancelRequested
    BY <1>3, <1>4, <2>3 DEF Outcome, Job
  <2>4. CASE task[i].at = "broken" /\ ~jobs[i].cancelRequested
    BY <1>3, <1>4, <2>4 DEF Outcome, Job
  <2> QED BY <1>2, <2>1, <2>2, <2>3, <2>4
<1>7. task[i].at = "stopped" /\ i \in published => PublishesEarly(jobs[i].kind)
  <2> SUFFICES ASSUME task[i].at = "stopped", i \in published
               PROVE  PublishesEarly(jobs[i].kind)
    OBVIOUS
  <2>1. AtCheck(i) /\ HasPublished(i)
    BY DEF TimelyInv, TimelyTasks, Executing
  <2>2. PICK m \in DOMAIN Program[jobs[i].kind] :
               m < task[i].step /\ Program[jobs[i].kind][m] = "publish"
    BY <2>1 DEF HasPublished
  <2>3. /\ Program[jobs[i].kind] \in Seq({"phase", "check", "publish"})
        /\ task[i].step \in Nat
    BY <1>1, <1>3, JobsAssumption DEF JobsAssumption, Job, Task
  <2>4. m \in 1..Len(Program[jobs[i].kind]) /\ task[i].step \in DOMAIN Program[jobs[i].kind]
    BY <2>1, <2>2, <2>3 DEF AtCheck
  <2> QED BY <2>1, <2>2, <2>4 DEF PublishesEarly, AtCheck
<1> HIDE DEF job
<1>8. /\ \A b \in Client \cup Ids : b # i => task'[b] = task[b]
      /\ task'[i].at = "send" /\ task'[i].snap = Changed(job)
      /\ task'[i].doing = task[i].doing /\ task'[i].id = task[i].id
  BY <1>1, <1>5 DEF Hold, Task
<1>9. GoesOn(i)
  BY <1>5, <1>8, ChangedJob DEF GoesOn, Executing
<1> QED BY <1>1, <1>2, <1>3, <1>5, <1>6, <1>7, <1>8, <1>9, ThreadUpdateIsTimely

LEMMA RestartIsTimely ==
  ASSUME OrderInv, TimelyInv, Restart
  PROVE  TimelyInv'
<1>1. /\ jobs' = [i \in DOMAIN disk |-> Restored(disk[i])]
      /\ disk' = jobs' /\ UNCHANGED <<published, created>>
      /\ \A a \in Client \cup Ids : task'[a] = Idle
  BY DEF Restart
<1>2. TimelyTasks'
  BY <1>1 DEF TimelyTasks, Executing, Idle
<1>3. Timely(jobs)'
  <2> SUFFICES ASSUME NEW i \in DOMAIN disk, jobs'[i].why = "unpublished"
               PROVE  /\ Terminal(jobs'[i])
                      /\ i \in published => PublishesEarly(jobs'[i].kind)
    BY <1>1 DEF Timely, PublishesEarly, Terminal
  <2>1. disk[i] \in Job /\ jobs'[i] = Restored(disk[i])
    BY <1>1 DEF OrderInv, JobsInv, TypeOK, IsList
  <2>2. Terminal(disk[i])
    BY <2>1 DEF Restored, Changed, Job
  <2>3. jobs'[i] = disk[i]
    BY <2>1, <2>2, RestoredJob
  <2> QED BY <2>2, <2>3 DEF TimelyInv, Timely
<1>4. Timely(disk)'
  BY <1>1, <1>3 DEF Timely
<1> QED BY <1>1, <1>2, <1>3, <1>4 DEF TimelyInv

LEMMA TimelyStep ==
  ASSUME OrderInv, TimelyInv, [Next]_vars
  PROVE  TimelyInv'
<1>1. ASSUME NEW c \in Client,
             \/ \E k \in Kind : Start(c, k)
             \/ \E i \in Ids : Cancel(c, i)
             \/ RequestStep(c) \/ SpawnFails(c)
      PROVE  TimelyInv'
  BY <1>1, StartIsTimely, SendIsTimely, PersistIsTimely, SpawnIsTimely, RequestIsTimely,
     MarkIsTimely DEF RequestStep
<1>2. ASSUME NEW i \in Ids, ThreadStep(i) \/ ExecutorFails(i) PROVE TimelyInv'
  BY <1>2, SendIsTimely, PersistIsTimely, BeginIsTimely, ReportPhaseIsTimely,
     StatementIsTimely, PublishIsTimely, FinishIsTimely DEF ThreadStep
<1>3. ASSUME NEW a \in Client \cup Ids, PersistFails(a) PROVE TimelyInv'
  BY <1>3, PersistIsTimely
<1>4. CASE UNCHANGED vars
  BY <1>4 DEF vars, TimelyInv, TimelyTasks, Timely, PublishesEarly, Terminal, Executing,
              HasPublished, AtCheck
<1> QED BY <1>1, <1>2, <1>3, <1>4, RestartIsTimely DEF Next, Step

LEMMA CancelledMeans == OrderInv /\ TimelyInv => CancelHonoured
BY DEF OrderInv, JobsInv, TimelyInv, Timely, CancelHonoured, CancelledInTime, Truthful

(* A requested cancellation is what the job ends with, in memory and in    *)
(* jobs.json, however it races the executor's end and across restarts; and *)
(* a job that says nothing was published has replaced no index, unless its *)
(* executor replaces one before its last checkpoint.                       *)
THEOREM CancellationWins == Spec => []CancelHonoured
<1>1. Spec => [](OrderInv /\ TimelyInv)
  <2>1. OrderInv /\ TimelyInv /\ [Next]_vars => TimelyInv'
    BY TimelyStep
  <2> QED BY <2>1, TimelyBegins, OrderAlways, PTL DEF Spec
<1> QED BY <1>1, CancelledMeans, PTL
=============================================================================
