----------------------------- MODULE Hub_proofs -----------------------------
(***************************************************************************)
(* Proofs about the Hub's shared state and about who follows it, for any   *)
(* connections, visitors, followers, tabs and limits.  HubStreams: whoever *)
(* follows a job is told its end, and a tab that learned all it knows from *)
(* one stream ends up with what the list says, in whatever order the       *)
(* snapshots were broadcast and however many messages were dropped.        *)
(* HubSessions: the counter of open streams is the number of slots held,   *)
(* no more streams run than the limit allows, and no more sessions are     *)
(* kept than theirs.  SetupWizard: while a process of an agent lives the   *)
(* run is that agent's, and a page is told that a transcript is done only  *)
(* at its end.  Hub: what is proved of each part holds of the Hub as a     *)
(* whole.                                                                  *)
(***************************************************************************)
EXTENDS Hub, HubStreams, HubJobs_proofs, FiniteSetTheorems, WellFoundedInduction

----------------------------------------------------------------------------
(* The streams of job events.                                              *)

(* The snapshots that are about to be broadcast, that wait in a receiver's *)
(* queue, and all that anybody may still come to see of a job.             *)
Sending == {task[a].snap : a \in {b \in Client \cup Ids : task[b].at = "send"}}
In(box) == {box.queue[k] : k \in DOMAIN box.queue}
Waiting(r) == In(inbox[r])
InQueues == UNION {Waiting(r) : r \in DOMAIN inbox}
Listings == {jobs[i] : i \in DOMAIN jobs}
Snaps == Sending \cup InQueues \cup Listings

LEMMA WhatIsSaid ==
  /\ \A j \in DOMAIN jobs : jobs[j] \in Snaps
  /\ \A r \in DOMAIN inbox : Waiting(r) \subseteq Snaps
  /\ Sending \subseteq Snaps
<1>1. \A j \in DOMAIN jobs : jobs[j] \in Listings
  BY DEF Listings
<1>2. \A r \in DOMAIN inbox : Waiting(r) \subseteq InQueues
  BY DEF InQueues
<1> QED BY <1>1, <1>2 DEF Snaps

Box == [queue : Seq(Job), lagged : BOOLEAN]

(* What is said of a job goes up to what is listed, and every end of it    *)
(* that is said comes after everything else that is.                       *)
SnapsOK ==
  /\ \A r \in DOMAIN inbox : inbox[r] \in Box
  /\ \A i \in DOMAIN jobs : jobs[i].id = i
  /\ \A i \in DOMAIN disk : disk[i].id = i
  /\ \A s \in Snaps : s.id <= created
  /\ \A s, t \in Snaps : s.id = t.id /\ Terminal(t) /\ ~Terminal(s) => s.revision < t.revision
  /\ \A s \in Snaps : s.id \in DOMAIN jobs => s.revision <= jobs[s.id].revision

----------------------------------------------------------------------------
(* The four things a step of the job manager may do to what is said.       *)
Starting ==
  \E i \in Ids, job \in Job :
    /\ i = created + 1 /\ created' = i
    /\ job.id = i /\ ~Terminal(job)
    /\ Active = {}
    /\ i \in DOMAIN jobs' /\ jobs'[i] = job /\ DOMAIN jobs' \subseteq DOMAIN jobs \cup {i}
    /\ \A j \in DOMAIN jobs' \ {i} : jobs'[j] = jobs[j]
    /\ Sending' = Sending \cup {job}
    /\ UNCHANGED inbox

Updating ==
  \E i \in DOMAIN jobs, job \in Job :
    /\ job.id = i /\ job.revision = jobs[i].revision + 1
    /\ Terminal(jobs[i]) => Terminal(job)
    /\ DOMAIN jobs' = DOMAIN jobs /\ jobs'[i] = job
    /\ \A j \in DOMAIN jobs \ {i} : jobs'[j] = jobs[j]
    /\ Sending' = Sending \cup {job}
    /\ UNCHANGED <<inbox, created>>

Telling ==
  \E snap \in Sending :
    /\ snap \in Job
    /\ inbox' = [r \in DOMAIN inbox |-> Received(inbox[r], snap)]
    /\ Sending' \subseteq Sending /\ Sending \subseteq Sending' \cup {snap}
    /\ UNCHANGED <<jobs, created>>

Saying == UNCHANGED <<jobs, inbox, created, Sending>>

LEMMA SendingIs ==
  ASSUME NEW a \in Client \cup Ids, \A b \in Client \cup Ids : b # a => task'[b] = task[b]
  PROVE  /\ task[a].at # "send" /\ task'[a].at # "send" => Sending' = Sending
         /\ task[a].at # "send" /\ task'[a].at = "send"
              => Sending' = Sending \cup {task'[a].snap}
         /\ task[a].at = "send" /\ task'[a].at # "send"
              => Sending' \subseteq Sending /\ Sending \subseteq Sending' \cup {task[a].snap}
BY DEF Sending

(* An update, of the job's own snapshot, by a task that then broadcasts it.*)
LEMMA UpdatesAreTold ==
  ASSUME JobsInv, SnapsOK, UNCHANGED <<inbox, created>>,
         NEW i \in DOMAIN jobs, NEW job \in Job, Update(i, job),
         job.id = i, job.revision = jobs[i].revision, Terminal(jobs[i]) => Terminal(job),
         NEW a \in Client \cup Ids, task[a].at # "send",
         \A b \in Client \cup Ids : b # a => task'[b] = task[b],
         task'[a].at = "send", task'[a].snap = Changed(job)
  PROVE  Updating
<1>1. /\ Changed(job) \in Job /\ Changed(job).id = i
      /\ Changed(job).revision = jobs[i].revision + 1
      /\ Terminal(Changed(job)) <=> Terminal(job)
  BY ChangedJob DEF Changed, Job
<1>2. /\ DOMAIN jobs' = DOMAIN jobs /\ jobs'[i] = Changed(job)
      /\ \A j \in DOMAIN jobs \ {i} : jobs'[j] = jobs[j]
  BY DEF Update, JobsInv, TypeOK, IsList
<1>3. Sending' = Sending \cup {Changed(job)}
  BY SendingIs DEF JobsInv, TypeOK
<1> HIDE DEF Changed
<1> QED BY <1>1, <1>2, <1>3 DEF Updating

LEMMA StartIsTold ==
  ASSUME JobsInv, SnapsOK, NEW c \in Client, NEW k \in Kind, Start(c, k)
  PROVE  Starting
<1> DEFINE i == created + 1
           job == [id |-> i, kind |-> k, state |-> "queued", cancelRequested |-> FALSE,
                   why |-> "none", revision |-> 1]
<1>1. created \in Nat /\ i \in Ids /\ created' = i /\ Active = {} /\ UNCHANGED inbox
  BY JobsAssumption DEF JobsInv, TypeOK, Start, Ids, JobsAssumption
<1>2. job \in Job /\ job.id = i /\ ~Terminal(job)
  BY <1>1 DEF Job, States, Reasons, Terminal
<1>3. /\ task[c].at = "idle"
      /\ task' = [task EXCEPT ![c] = [at |-> "send", doing |-> "start", id |-> i,
                                      snap |-> job, step |-> 0]]
      /\ jobs' = [j \in Newest(DOMAIN jobs \cup {i}) |-> IF j = i THEN job ELSE jobs[j]]
  BY DEF Start
<1> HIDE DEF job
<1>4. Sending' = Sending \cup {job}
  BY <1>3, SendingIs DEF JobsInv, TypeOK
<1>5. \A j \in DOMAIN jobs : j < i
  <2> SUFFICES ASSUME NEW j \in DOMAIN jobs PROVE j < i
    OBVIOUS
  <2>1. jobs[j] \in Snaps
    BY WhatIsSaid
  <2>2. j <= created /\ j \in Nat
    BY <2>1 DEF SnapsOK, JobsInv, TypeOK, IsList, Ids
  <2> QED BY <1>1, <2>2
<1>6. i \in Newest(DOMAIN jobs \cup {i})
  <2>1. {j \in DOMAIN jobs \cup {i} : j > i} = {}
    BY <1>1, <1>5 DEF JobsInv, TypeOK, IsList, Ids
  <2>2. Cardinality({}) < HistoryLimit
    BY FS_EmptySet, JobsAssumption DEF JobsAssumption
  <2> QED BY <2>1, <2>2 DEF Newest
<1>7. /\ i \in DOMAIN jobs' /\ jobs'[i] = job /\ DOMAIN jobs' \subseteq DOMAIN jobs \cup {i}
      /\ \A j \in DOMAIN jobs' \ {i} : jobs'[j] = jobs[j]
  BY <1>3, <1>6 DEF Newest
<1> HIDE DEF i
<1> QED BY <1>1, <1>2, <1>4, <1>7 DEF Starting, i

LEMMA SendTells ==
  ASSUME JobsInv, NEW a \in Client \cup Ids, Send(a)
  PROVE  Telling
<1>1. task[a].at = "send" /\ task[a].snap \in Job /\ task[a].snap \in Sending
      /\ task[a] \in Task
  BY DEF Send, JobsInv, TypeOK, Sending
<1>2. task'[a] = AfterSend(task[a]) /\ \A b \in Client \cup Ids : b # a => task'[b] = task[b]
  BY DEF Send, JobsInv, TypeOK
<1>3. task'[a].at # "send"
  <2>1. task[a].doing \in {"start", "cancel", "run"}
    BY <1>1 DEF JobsInv, TypeOK, Task
  <2>2. CASE task[a].doing = "start" \/ Terminal(task[a].snap)
    BY <1>1, <1>2, <2>2 DEF AfterSend, Task
  <2>3. CASE task[a].doing = "run" /\ ~Terminal(task[a].snap)
    BY <1>1, <1>2, <2>3 DEF AfterSend, Task
  <2>4. CASE task[a].doing = "cancel" /\ ~Terminal(task[a].snap)
    BY <1>1, <1>2, <2>4 DEF AfterSend, Task, Idle
  <2> QED BY <2>1, <2>2, <2>3, <2>4
<1>4. Sending' \subseteq Sending /\ Sending \subseteq Sending' \cup {task[a].snap}
  BY <1>1, <1>2, <1>3, SendingIs
<1>5. /\ inbox' = [r \in DOMAIN inbox |-> Received(inbox[r], task[a].snap)]
      /\ UNCHANGED <<jobs, created>>
  BY DEF Send
<1> QED BY <1>1, <1>4, <1>5 DEF Telling

(* Nothing is said, or it is said to be listened to no longer.             *)
LEMMA PersistIsSilent ==
  ASSUME JobsInv, NEW a \in Client \cup Ids, Persist(a) \/ PersistFails(a)
  PROVE  Saying
<1>1. task[a].at = "persist" /\ task[a] \in Task
      /\ task'[a] = AfterPersist(task[a]) /\ \A b \in Client \cup Ids : b # a => task'[b] = task[b]
  BY DEF Persist, PersistFails, JobsInv, TypeOK
<1>2. task'[a].at # "send"
  BY <1>1 DEF AfterPersist, Rest, Ended, Idle, Task
<1>3. UNCHANGED <<jobs, inbox, created>>
  BY DEF Persist, PersistFails
<1> QED BY <1>1, <1>2, <1>3, SendingIs DEF Saying

LEMMA SpawnIsSilent ==
  ASSUME OrderInv, NEW c \in Client, Spawn(c) \/ SpawnFails(c)
  PROVE  Saying
<1> DEFINE i == task[c].id
<1>1. UNCHANGED <<jobs, inbox, created>> /\ task[c].at = "spawn"
  BY DEF Spawn, SpawnFails
<1>2. /\ c \notin Ids /\ i \in Ids /\ task[i].at = "idle"
      /\ task \in [Client \cup Ids -> Task]
  BY <1>1, ClientsAreNotThreads, JobsAssumption
     DEF OrderInv, Threads, JobsInv, TypeOK, Ids, JobsAssumption
<1>3. CASE Spawn(c)
  <2>1. /\ task'[c] = Idle /\ task'[i] = Thread(i)
        /\ \A b \in Client \cup Ids : b # c /\ b # i => task'[b] = task[b]
    BY <1>2, <1>3 DEF Spawn
  <2>2. Idle.at = "idle" /\ Thread(i).at = "begin"
    BY DEF Idle, Thread
  <2>3. \A b \in Client \cup Ids :
          /\ task'[b].at = "send" <=> task[b].at = "send"
          /\ task[b].at = "send" => task'[b].snap = task[b].snap
    BY <1>1, <1>2, <2>1, <2>2
  <2>4. Sending' = Sending
    BY <2>3 DEF Sending
  <2> QED BY <1>1, <2>4 DEF Saying
<1>4. CASE SpawnFails(c)
  <2>1. task'[c].at = "idle" /\ \A b \in Client \cup Ids : b # c => task'[b] = task[b]
    BY <1>2, <1>4 DEF SpawnFails, Idle
  <2> QED BY <1>1, <2>1, SendingIs DEF Saying
<1> QED BY <1>3, <1>4

LEMMA StatementIsSilent ==
  ASSUME JobsInv, NEW a \in Client \cup Ids,
         \/ a \in Ids /\ (Checkpoint(a) \/ Publish(a) \/ ExecutorFails(a))
         \/ a \in Client /\ ((\E i \in Ids : Cancel(a, i)) \/ SetFlag(a))
  PROVE  Saying
<1>1. task \in [Client \cup Ids -> Task] /\ UNCHANGED <<jobs, inbox, created>>
  BY DEF JobsInv, TypeOK, Checkpoint, Publish, ExecutorFails, Cancel, SetFlag
<1>2. \A b \in Client \cup Ids : b # a => task'[b] = task[b]
  BY <1>1 DEF Checkpoint, Publish, ExecutorFails, Cancel, SetFlag
<1>3. task[a].at # "send" /\ task'[a].at # "send"
  <2>1. CASE a \in Ids /\ (Checkpoint(a) \/ Publish(a) \/ ExecutorFails(a))
    BY <1>1, <2>1 DEF Checkpoint, Publish, ExecutorFails, At, Task
  <2>2. CASE a \in Client /\ SetFlag(a)
    BY <1>1, <2>2 DEF SetFlag, Task
  <2>3. CASE a \in Client /\ \E i \in Ids : Cancel(a, i)
    BY <1>1, <2>3 DEF Cancel, Idle
  <2> QED BY <2>1, <2>2, <2>3
<1> QED BY <1>1, <1>2, <1>3, SendingIs DEF Saying

(* A listed job's snapshot, its identity.                                  *)
LEMMA ListedJob ==
  ASSUME JobsInv, SnapsOK, NEW i \in DOMAIN jobs
  PROVE  jobs[i] \in Job /\ jobs[i].id = i
BY DEF JobsInv, TypeOK, IsList, SnapsOK

LEMMA BeginTells ==
  ASSUME JobsInv, SnapsOK, NEW i \in Ids, Begin(i)
  PROVE  Updating \/ Saying
<1>1. task \in [Client \cup Ids -> Task] /\ task[i].at = "begin"
      /\ UNCHANGED <<inbox, created>>
  BY DEF Begin, JobsInv, TypeOK
<1>2. CASE i \in DOMAIN jobs /\ jobs[i].state = "queued"
  <2> DEFINE job == [jobs[i] EXCEPT !.state = "running"]
  <2>1. /\ job \in Job /\ job.id = i /\ job.revision = jobs[i].revision
        /\ ~Terminal(jobs[i])
    BY <1>2, ListedJob DEF Job, States, Terminal
  <2>2. Update(i, job) /\ Hold(i, job)
    BY <1>2 DEF Begin
  <2> HIDE DEF job
  <2>3. /\ \A b \in Client \cup Ids : b # i => task'[b] = task[b]
        /\ task'[i].at = "send" /\ task'[i].snap = Changed(job)
    BY <1>1, <2>2 DEF Hold, Task
  <2> QED BY <1>1, <1>2, <2>1, <2>2, <2>3, UpdatesAreTold
<1>3. CASE ~(i \in DOMAIN jobs /\ jobs[i].state = "queued")
  <2>1. UNCHANGED jobs /\ task' = [task EXCEPT ![i] = Ended]
    BY <1>3 DEF Begin
  <2>2. task'[i].at # "send" /\ \A b \in Client \cup Ids : b # i => task'[b] = task[b]
    BY <1>1, <2>1 DEF Ended, Idle
  <2> QED BY <1>1, <2>1, <2>2, SendingIs DEF Saying
<1> QED BY <1>2, <1>3

LEMMA ReportPhaseTells ==
  ASSUME JobsInv, SnapsOK, NEW i \in Ids, ReportPhase(i)
  PROVE  Updating
<1>1. task \in [Client \cup Ids -> Task] /\ task[i].at = "work" /\ i \in DOMAIN jobs
      /\ UNCHANGED <<inbox, created>> /\ Update(i, jobs[i])
  BY DEF ReportPhase, At, JobsInv, TypeOK
<1>2. jobs[i] \in Job /\ jobs[i].id = i
  BY <1>1, ListedJob
<1>3. /\ \A b \in Client \cup Ids : b # i => task'[b] = task[b]
      /\ task'[i].at = "send" /\ task'[i].snap = Changed(jobs[i])
  BY <1>1 DEF ReportPhase, Task
<1> QED BY <1>1, <1>2, <1>3, UpdatesAreTold

LEMMA FinishTells ==
  ASSUME JobsInv, SnapsOK, NEW i \in Ids, Finish(i)
  PROVE  Updating
<1> DEFINE job == Outcome(jobs[i], task[i].at)
<1>1. task \in [Client \cup Ids -> Task] /\ task[i].at \in {"work", "stopped", "broken"}
      /\ UNCHANGED <<inbox, created>>
  BY DEF Finish, JobsInv, TypeOK
<1>2. i \in DOMAIN jobs /\ jobs[i] \in Job /\ jobs[i].id = i
  BY <1>1, ListedJob DEF JobsInv, OneAtATime, Executing
<1>3. /\ job \in Job /\ Terminal(job) /\ Update(i, job) /\ Hold(i, job)
  BY <1>1, <1>2, OutcomeEnds DEF Finish
<1>4. job.id = i /\ job.revision = jobs[i].revision
  BY <1>1, <1>2 DEF Outcome, Job
<1> HIDE DEF job
<1>5. /\ \A b \in Client \cup Ids : b # i => task'[b] = task[b]
      /\ task'[i].at = "send" /\ task'[i].snap = Changed(job)
  BY <1>1, <1>3 DEF Hold, Task
<1> QED BY <1>1, <1>2, <1>3, <1>4, <1>5, UpdatesAreTold

LEMMA MarkTells ==
  ASSUME JobsInv, SnapsOK, NEW c \in Client, MarkCancelled(c)
  PROVE  Updating \/ Saying
<1> PICK i : i = task[c].id
  OBVIOUS
<1>1. task \in [Client \cup Ids -> Task] /\ task[c].at = "mark"
      /\ UNCHANGED <<inbox, created>>
  BY DEF MarkCancelled, JobsInv, TypeOK
<1>2. CASE i \in DOMAIN jobs
  <2> DEFINE job == Marked(jobs[i])
  <2>1. jobs[i] \in Job /\ jobs[i].id = i
    BY <1>2, ListedJob
  <2>2. job \in Job /\ (Terminal(jobs[i]) => Terminal(job))
    BY <1>2, <2>1, MarkedJob DEF JobsInv, CancelWins, Honoured
  <2>3. job.id = i /\ job.revision = jobs[i].revision
    <3>1. CASE Terminal(jobs[i])
      BY <2>1, <3>1 DEF Marked, Terminal
    <3>2. CASE jobs[i].state = "queued"
      BY <2>1, <3>2 DEF Marked, Job, Terminal
    <3>3. CASE jobs[i].state = "running"
      BY <2>1, <3>3 DEF Marked, Job, Terminal
    <3> QED BY <2>1, <3>1, <3>2, <3>3 DEF Job, States, Terminal
  <2>4. Update(i, job) /\ Hold(c, job)
    BY <1>2 DEF MarkCancelled
  <2> HIDE DEF job
  <2>5. /\ \A b \in Client \cup Ids : b # c => task'[b] = task[b]
        /\ task'[c].at = "send" /\ task'[c].snap = Changed(job)
    BY <1>1, <2>4 DEF Hold, Task
  <2> QED BY <1>1, <1>2, <2>2, <2>3, <2>4, <2>5, UpdatesAreTold
<1>3. CASE i \notin DOMAIN jobs
  <2>1. UNCHANGED jobs /\ task' = [task EXCEPT ![c] = Idle]
    BY <1>3 DEF MarkCancelled
  <2>2. task'[c].at # "send" /\ \A b \in Client \cup Ids : b # c => task'[b] = task[b]
    BY <1>1, <2>1 DEF Idle
  <2> QED BY <1>1, <2>1, <2>2, SendingIs DEF Saying
<1> QED BY <1>2, <1>3

LEMMA WhatJobsSay ==
  ASSUME OrderInv, SnapsOK, Step
  PROVE  Starting \/ Updating \/ Telling \/ Saying
<1> DEFINE Goal == Starting \/ Updating \/ Telling \/ Saying
<1> USE DEF OrderInv
<1>1. ASSUME NEW c \in Client,
             \/ \E k \in Kind : Start(c, k)
             \/ \E i \in Ids : Cancel(c, i)
             \/ RequestStep(c) \/ SpawnFails(c)
      PROVE  Goal
  BY <1>1, StartIsTold, StatementIsSilent, SendTells, PersistIsSilent, SpawnIsSilent, MarkTells
     DEF RequestStep
<1>2. ASSUME NEW i \in Ids, ThreadStep(i) \/ ExecutorFails(i) PROVE Goal
  BY <1>2, SendTells, PersistIsSilent, BeginTells, ReportPhaseTells, StatementIsSilent,
     FinishTells DEF ThreadStep
<1>3. ASSUME NEW a \in Client \cup Ids, PersistFails(a) PROVE Goal
  BY <1>3, PersistIsSilent
<1> QED BY <1>1, <1>2, <1>3 DEF Step

LEMMA DiskIsAList == ASSUME Step PROVE disk' \in {disk, jobs}
<1> DEFINE Goal == disk' \in {disk, jobs}
<1>1. ASSUME NEW c \in Client,
             \/ \E k \in Kind : Start(c, k)
             \/ \E i \in Ids : Cancel(c, i)
             \/ RequestStep(c) \/ SpawnFails(c)
      PROVE  Goal
  BY <1>1 DEF Start, Cancel, RequestStep, MarkCancelled, Send, Persist, Spawn, SpawnFails, SetFlag
<1>2. ASSUME NEW i \in Ids, ThreadStep(i) \/ ExecutorFails(i) PROVE Goal
  BY <1>2 DEF ThreadStep, Begin, ReportPhase, Send, Persist, Checkpoint, Publish, ExecutorFails,
              Finish
<1>3. ASSUME NEW a \in Client \cup Ids, PersistFails(a) PROVE Goal
  BY <1>3 DEF PersistFails
<1> QED BY <1>1, <1>2, <1>3 DEF Step

----------------------------------------------------------------------------
(* A message that arrives, and one that is taken.                          *)
LEMMA ReceivedBox ==
  ASSUME NEW box \in Box, NEW snap \in Job
  PROVE  /\ Received(box, snap) \in Box
         /\ In(Received(box, snap)) \subseteq In(box) \cup {snap}
         /\ Received(box, snap).lagged \/ In(box) \cup {snap} \subseteq In(Received(box, snap))
         /\ box.lagged => Received(box, snap).lagged
<1>1. box.queue \in Seq(Job) /\ box.lagged \in BOOLEAN
  BY DEF Box
<1>2. CASE Len(box.queue) < Capacity
  <2> DEFINE q == Append(box.queue, snap)
  <2>1. Received(box, snap) = [box EXCEPT !.queue = q]
    BY <1>2 DEF Received
  <2>2. Received(box, snap) \in Box /\ Received(box, snap).queue = q
        /\ Received(box, snap).lagged = box.lagged
    BY <1>1, <2>1 DEF Box
  <2>3. /\ Len(q) = Len(box.queue) + 1 /\ DOMAIN q = 1..Len(q) /\ q[Len(q)] = snap
        /\ \A k \in DOMAIN box.queue : k \in DOMAIN q /\ q[k] = box.queue[k]
        /\ \A k \in DOMAIN q : k # Len(q) => k \in DOMAIN box.queue
    BY <1>1
  <2>4. Len(q) \in DOMAIN q
    BY <1>1
  <2> HIDE DEF q
  <2>5. In(Received(box, snap)) = {q[k] : k \in DOMAIN q}
    BY <2>2 DEF In
  <2>6. \A x \in In(box) \cup {snap} : x \in {q[k] : k \in DOMAIN q}
    BY <2>3, <2>4 DEF In
  <2>7. \A k \in DOMAIN q : q[k] \in In(box) \cup {snap}
    BY <2>3 DEF In
  <2> QED BY <2>2, <2>5, <2>6, <2>7
<1>3. CASE ~(Len(box.queue) < Capacity)
  <2> DEFINE q == Append(Tail(box.queue), snap)
  <2>1. Received(box, snap) = [queue |-> q, lagged |-> TRUE]
    BY <1>3 DEF Received
  <2>2. box.queue # <<>> /\ Tail(box.queue) \in Seq(Job)
    BY <1>1, <1>3, JobsAssumption DEF JobsAssumption
  <2>3. q \in Seq(Job)
    BY <2>2
  <2>4. /\ DOMAIN q = 1..Len(box.queue) /\ q[Len(box.queue)] = snap
        /\ \A k \in DOMAIN q : k # Len(box.queue) =>
             k + 1 \in DOMAIN box.queue /\ q[k] = box.queue[k + 1]
    BY <1>1, <2>2
  <2> HIDE DEF q
  <2>5. \A k \in DOMAIN q : q[k] \in In(box) \cup {snap}
    BY <2>4 DEF In
  <2> QED BY <2>1, <2>3, <2>5 DEF Box, In
<1> QED BY <1>2, <1>3

LEMMA TakenBox ==
  ASSUME NEW box \in Box, box.queue # <<>>
  PROVE  /\ [box EXCEPT !.queue = Tail(@)] \in Box
         /\ In([box EXCEPT !.queue = Tail(@)]) \subseteq In(box)
         /\ In(box) \subseteq In([box EXCEPT !.queue = Tail(@)]) \cup {Head(box.queue)}
         /\ Head(box.queue) \in In(box)
<1> DEFINE q == Tail(box.queue)
<1>1. box.queue \in Seq(Job)
  BY DEF Box
<1>2. /\ q \in Seq(Job)
      /\ \A k \in DOMAIN q : k + 1 \in DOMAIN box.queue /\ q[k] = box.queue[k + 1]
      /\ \A k \in DOMAIN box.queue : k # 1 => k - 1 \in DOMAIN q /\ q[k - 1] = box.queue[k]
      /\ 1 \in DOMAIN box.queue /\ Head(box.queue) = box.queue[1]
  BY <1>1
<1> DEFINE rest == [box EXCEPT !.queue = Tail(@)]
<1>3. rest \in Box /\ rest.queue = q
  BY <1>1, <1>2 DEF Box
<1> HIDE DEF q, rest
<1>4. \A k \in DOMAIN q : q[k] \in In(box)
  BY <1>2 DEF In
<1>5. \A x \in In(box) : x \in {q[k] : k \in DOMAIN q} \cup {Head(box.queue)}
  BY <1>2 DEF In
<1>6. Head(box.queue) \in In(box)
  BY <1>2 DEF In
<1>7. In(rest) = {q[k] : k \in DOMAIN q}
  BY <1>3 DEF In
<1>8. /\ rest \in Box /\ In(rest) \subseteq In(box)
      /\ In(box) \subseteq In(rest) \cup {Head(box.queue)}
  BY <1>3, <1>4, <1>5, <1>7
<1> QED BY <1>6, <1>8 DEF rest

LEMMA SaidAreJobs == ASSUME JobsInv, SnapsOK PROVE Snaps \subseteq Job
<1>1. \A s \in Sending : s \in Job
  BY DEF JobsInv, TypeOK, Sending
<1>2. \A r \in DOMAIN inbox : \A s \in Waiting(r) : s \in Job
  BY DEF SnapsOK, Waiting, In, Box
<1>3. \A s \in Listings : s \in Job
  BY DEF JobsInv, TypeOK, IsList, Listings
<1> QED BY <1>1, <1>2, <1>3 DEF Snaps, InQueues

(* What a broadcast does to a receiver.                                    *)
LEMMA TellingIs ==
  ASSUME SnapsOK, Telling, NEW r \in DOMAIN inbox
  PROVE  /\ DOMAIN inbox' = DOMAIN inbox
         /\ inbox'[r] \in Box
         /\ Waiting(r)' \subseteq Waiting(r) \cup Sending
         /\ inbox[r].lagged => inbox'[r].lagged
         /\ inbox'[r].lagged \/ Waiting(r) \cup Sending \subseteq Waiting(r)' \cup Sending'
<1> PICK snap \in Sending :
      /\ snap \in Job
      /\ inbox' = [w \in DOMAIN inbox |-> Received(inbox[w], snap)]
      /\ Sending' \subseteq Sending /\ Sending \subseteq Sending' \cup {snap}
  BY DEF Telling
<1>1. DOMAIN inbox' = DOMAIN inbox /\ inbox'[r] = Received(inbox[r], snap)
  OBVIOUS
<1>2. inbox[r] \in Box
  BY DEF SnapsOK
<1>3. /\ inbox'[r] \in Box
      /\ In(inbox'[r]) \subseteq In(inbox[r]) \cup {snap}
      /\ inbox'[r].lagged \/ In(inbox[r]) \cup {snap} \subseteq In(inbox'[r])
      /\ inbox[r].lagged => inbox'[r].lagged
  BY <1>1, <1>2, ReceivedBox
<1>4. Waiting(r) = In(inbox[r]) /\ Waiting(r)' = In(inbox'[r])
  BY DEF Waiting, In
<1> HIDE DEF In, Sending
<1> QED BY <1>1, <1>3, <1>4

(* Nothing is said but what was, and what a step says for the first time.  *)
LEMMA NothingElseIsSaid ==
  ASSUME SnapsOK, Starting \/ Updating \/ Telling \/ Saying
  PROVE  /\ Starting \/ Updating => Snaps' \subseteq Snaps \cup Sending' \cup Listings'
         /\ Telling \/ Saying => Snaps' \subseteq Snaps
         /\ \A r \in DOMAIN inbox' : inbox'[r] \in Box
<1>1. CASE Starting \/ Updating \/ Saying
  <2>1. UNCHANGED inbox
    BY <1>1 DEF Starting, Updating, Saying
  <2>2. InQueues' = InQueues
    BY <2>1 DEF InQueues, Waiting, In
  <2>3. Saying => Listings' = Listings /\ Sending' = Sending
    BY DEF Saying, Listings
  <2>4. \A r \in DOMAIN inbox' : inbox'[r] \in Box
    BY <2>1 DEF SnapsOK
  <2>5. ~Telling \/ Snaps' \subseteq Snaps
    <3> SUFFICES ASSUME Telling PROVE Snaps' \subseteq Snaps
      OBVIOUS
    <3>1. Listings' = Listings /\ Sending' \subseteq Sending
      BY DEF Telling, Listings
    <3> QED BY <2>2, <3>1 DEF Snaps
  <2> HIDE DEF Sending, InQueues, Listings
  <2>6. Snaps' = Sending' \cup InQueues' \cup Listings'
    BY DEF Snaps
  <2> QED BY <2>2, <2>3, <2>4, <2>5, <2>6 DEF Snaps
<1>2. CASE Telling /\ ~(Starting \/ Updating \/ Saying)
  <2>1. Listings' = Listings /\ Sending' \subseteq Sending
    BY <1>2 DEF Telling, Listings
  <2>2. \A r \in DOMAIN inbox :
          DOMAIN inbox' = DOMAIN inbox /\ inbox'[r] \in Box /\ Waiting(r)' \subseteq Waiting(r) \cup Sending
    BY <1>2, TellingIs
  <2>3. DOMAIN inbox' = DOMAIN inbox
    BY <1>2 DEF Telling
  <2>4. InQueues' \subseteq InQueues \cup Sending
    BY <2>2, <2>3 DEF InQueues
  <2> QED BY <1>2, <2>1, <2>2, <2>3, <2>4 DEF Snaps
<1> QED BY <1>1, <1>2

LEMMA StartKeepsSnaps ==
  ASSUME OrderInv, SnapsOK, Starting, disk' \in {disk, jobs}
  PROVE  SnapsOK'
<1> PICK i \in Ids, job \in Job :
    /\ i = created + 1 /\ created' = i
    /\ job.id = i /\ ~Terminal(job)
    /\ Active = {}
    /\ i \in DOMAIN jobs' /\ jobs'[i] = job /\ DOMAIN jobs' \subseteq DOMAIN jobs \cup {i}
    /\ \A j \in DOMAIN jobs' \ {i} : jobs'[j] = jobs[j]
    /\ Sending' = Sending \cup {job}
    /\ UNCHANGED inbox
  BY DEF Starting
<1>1. created \in Nat /\ i \in Nat
  BY JobsAssumption DEF OrderInv, JobsInv, TypeOK, Ids, JobsAssumption
<1>2. \A j \in DOMAIN jobs' :
        (jobs'[j] = job /\ j = i) \/ (jobs'[j] = jobs[j] /\ j \in DOMAIN jobs)
  OBVIOUS
<1>3. \A s \in Listings' : s = job \/ s \in Snaps
  BY <1>2, WhatIsSaid DEF Listings
<1>4. \A s \in Snaps' : s = job \/ s \in Snaps
  <2>1. Snaps' \subseteq Snaps \cup Sending' \cup Listings'
    BY NothingElseIsSaid
  <2> HIDE DEF Snaps, Sending, Listings
  <2> QED BY <1>3, <2>1, WhatIsSaid
<1>5. \A s \in Snaps : s \in Job /\ s.id <= created /\ s.id \in Nat
  BY SaidAreJobs DEF OrderInv, SnapsOK, Job, Ids
<1>6. \A s \in Snaps : s.id # i
  BY <1>1, <1>5
<1>7. \A r \in DOMAIN inbox' : inbox'[r] \in Box
  BY NothingElseIsSaid
<1>8. (\A j \in DOMAIN jobs' : jobs'[j].id = j) /\ (\A j \in DOMAIN disk' : disk'[j].id = j)
  BY <1>2 DEF SnapsOK
<1>9. \A s \in Snaps' : s.id <= created'
  BY <1>1, <1>4, <1>5
<1>10. \A s, t \in Snaps' : s.id = t.id /\ Terminal(t) /\ ~Terminal(s) => s.revision < t.revision
  BY <1>4, <1>6 DEF SnapsOK
<1>11. \A s \in Snaps' : s.id \in DOMAIN jobs' => s.revision <= jobs'[s.id].revision
  <2> SUFFICES ASSUME NEW s \in Snaps', s.id \in DOMAIN jobs'
               PROVE  s.revision <= jobs'[s.id].revision
    OBVIOUS
  <2>1. CASE s = job
    BY <2>1 DEF Job
  <2>2. CASE s # job
    BY <1>2, <1>4, <1>6, <2>2 DEF SnapsOK
  <2> QED BY <2>1, <2>2
<1> HIDE DEF Snaps
<1> QED BY <1>7, <1>8, <1>9, <1>10, <1>11 DEF SnapsOK

LEMMA UpdateKeepsSnaps ==
  ASSUME OrderInv, SnapsOK, Updating, disk' \in {disk, jobs}
  PROVE  SnapsOK'
<1> PICK i \in DOMAIN jobs, job \in Job :
    /\ job.id = i /\ job.revision = jobs[i].revision + 1
    /\ Terminal(jobs[i]) => Terminal(job)
    /\ DOMAIN jobs' = DOMAIN jobs /\ jobs'[i] = job
    /\ \A j \in DOMAIN jobs \ {i} : jobs'[j] = jobs[j]
    /\ Sending' = Sending \cup {job}
    /\ UNCHANGED <<inbox, created>>
  BY DEF Updating
<1>1. jobs[i] \in Job /\ jobs[i].id = i /\ jobs[i] \in Snaps
  BY ListedJob, WhatIsSaid DEF OrderInv
<1>2. \A s \in Listings' : s = job \/ s \in Snaps
  <2>1. \A j \in DOMAIN jobs' : jobs'[j] = job \/ jobs'[j] = jobs[j]
    OBVIOUS
  <2> QED BY <2>1, WhatIsSaid DEF Listings
<1>3. \A s \in Snaps' : s = job \/ s \in Snaps
  <2>1. Snaps' \subseteq Snaps \cup Sending' \cup Listings'
    BY NothingElseIsSaid
  <2> HIDE DEF Snaps, Sending, Listings
  <2> QED BY <1>2, <2>1, WhatIsSaid
<1>4. \A s \in Snaps : s \in Job /\ s.id <= created /\ s.revision \in Nat
  BY SaidAreJobs DEF OrderInv, SnapsOK, Job
<1>5. \A s \in Snaps : s.id = i => s.revision < job.revision
  BY <1>1, <1>4 DEF SnapsOK, Job
<1>6. ~Terminal(job) => \A s \in Snaps : s.id = i => ~Terminal(s)
  BY <1>1, <1>4 DEF SnapsOK, Job
<1>7. \A r \in DOMAIN inbox' : inbox'[r] \in Box
  BY NothingElseIsSaid
<1>8. (\A j \in DOMAIN jobs' : jobs'[j].id = j) /\ (\A j \in DOMAIN disk' : disk'[j].id = j)
  BY DEF SnapsOK
<1>9. \A s \in Snaps' : s.id <= created'
  BY <1>1, <1>3, <1>4
<1>10. \A s, t \in Snaps' : s.id = t.id /\ Terminal(t) /\ ~Terminal(s) => s.revision < t.revision
  BY <1>3, <1>5, <1>6 DEF SnapsOK
<1>11. \A s \in Snaps' : s.id \in DOMAIN jobs' => s.revision <= jobs'[s.id].revision
  <2> SUFFICES ASSUME NEW s \in Snaps', s.id \in DOMAIN jobs'
               PROVE  s.revision <= jobs'[s.id].revision
    OBVIOUS
  <2>1. CASE s = job
    BY <2>1 DEF Job
  <2>2. CASE s # job /\ s.id = i
    BY <1>3, <1>4, <1>5, <2>2 DEF Job
  <2>3. CASE s # job /\ s.id # i
    BY <1>3, <2>3 DEF SnapsOK
  <2> QED BY <2>1, <2>2, <2>3
<1> HIDE DEF Snaps
<1> QED BY <1>7, <1>8, <1>9, <1>10, <1>11 DEF SnapsOK

(* A step that lists nothing new and says nothing new.                     *)
LEMMA SilenceKeepsSnaps ==
  ASSUME SnapsOK, UNCHANGED <<jobs, created>>, disk' \in {disk, jobs}, Snaps' \subseteq Snaps,
         \A r \in DOMAIN inbox' : inbox'[r] \in Box
  PROVE  SnapsOK'
BY DEF SnapsOK

LEMMA JobsKeepSnaps ==
  ASSUME OrderInv, SnapsOK, Step
  PROVE  SnapsOK'
<1>1. disk' \in {disk, jobs}
  BY DiskIsAList
<1>2. CASE Telling \/ Saying
  <2>1. UNCHANGED <<jobs, created>>
    BY <1>2 DEF Telling, Saying
  <2>2. Snaps' \subseteq Snaps /\ \A r \in DOMAIN inbox' : inbox'[r] \in Box
    BY <1>2, NothingElseIsSaid
  <2> QED BY <1>1, <2>1, <2>2, SilenceKeepsSnaps
<1> QED BY <1>1, <1>2, WhatJobsSay, StartKeepsSnaps, UpdateKeepsSnaps

----------------------------------------------------------------------------
(* The receivers come and go, and take what they were sent.                *)
Listening(r) ==
  \/ Subscribe(r)
  \/ Unsubscribe(r)
  \/ HasMessage(r) /\ Take(r)
  \/ HasLagged(r) /\ TakeLag(r)
  \/ UNCHANGED inbox

LEMMA ListeningIs ==
  ASSUME SnapsOK, OnlyInbox, NEW r, Listening(r)
  PROVE  /\ Sending' = Sending /\ Snaps' \subseteq Snaps
         /\ \A w \in DOMAIN inbox' : inbox'[w] \in Box
         /\ \A w \in DOMAIN inbox : w # r => w \in DOMAIN inbox' /\ inbox'[w] = inbox[w]
         /\ Subscribe(r) => r \in DOMAIN inbox'
         /\ Take(r) /\ HasMessage(r) =>
              /\ DOMAIN inbox' = DOMAIN inbox /\ r \in DOMAIN inbox /\ Message(r) \in Waiting(r)
              /\ Waiting(r) \subseteq Waiting(r)' \cup {Message(r)}
              /\ inbox'[r].lagged = inbox[r].lagged
         /\ TakeLag(r) /\ HasLagged(r) => DOMAIN inbox' = DOMAIN inbox /\ r \in DOMAIN inbox
<1>1. Sending' = Sending /\ Listings' = Listings
  BY DEF OnlyInbox, Sending, Listings
<1>2. /\ \A w \in DOMAIN inbox' : w # r => w \in DOMAIN inbox /\ inbox'[w] = inbox[w]
      /\ \A w \in DOMAIN inbox : w # r => w \in DOMAIN inbox' /\ inbox'[w] = inbox[w]
  BY DEF Listening, Subscribe, Unsubscribe, Take, TakeLag
<1>3. r \in DOMAIN inbox' => inbox'[r] \in Box /\ Waiting(r)' \subseteq InQueues
  <2> SUFFICES ASSUME r \in DOMAIN inbox' PROVE inbox'[r] \in Box /\ Waiting(r)' \subseteq InQueues
    OBVIOUS
  <2>1. CASE Subscribe(r)
    <3>1. inbox'[r] = [queue |-> <<>>, lagged |-> FALSE]
      BY <2>1 DEF Subscribe
    <3> QED BY <3>1 DEF Box, Waiting, In
  <2>2. CASE Unsubscribe(r)
    BY <2>2 DEF Unsubscribe
  <2>3. CASE HasMessage(r) /\ Take(r)
    <3>1. inbox[r] \in Box /\ inbox[r].queue # <<>> /\ r \in DOMAIN inbox
      BY <2>3 DEF HasMessage, SnapsOK
    <3>2. inbox'[r] = [inbox[r] EXCEPT !.queue = Tail(@)]
      BY <2>3, <3>1 DEF Take
    <3>3. inbox'[r] \in Box /\ In(inbox'[r]) \subseteq In(inbox[r])
      BY <3>1, <3>2, TakenBox
    <3>4. Waiting(r) \subseteq InQueues
      BY <3>1 DEF InQueues
    <3>5. Waiting(r) = In(inbox[r]) /\ Waiting(r)' = In(inbox'[r])
      BY DEF Waiting, In
    <3> QED BY <3>3, <3>4, <3>5
  <2>4. CASE HasLagged(r) /\ TakeLag(r)
    <3>1. inbox[r] \in Box /\ r \in DOMAIN inbox
      BY <2>4 DEF HasLagged, SnapsOK
    <3>2. inbox'[r] = [inbox[r] EXCEPT !.lagged = FALSE]
      BY <2>4, <3>1 DEF TakeLag
    <3>3. inbox'[r] \in Box /\ inbox'[r].queue = inbox[r].queue
      BY <3>1, <3>2 DEF Box
    <3> QED BY <3>1, <3>3 DEF InQueues, Waiting, In
  <2>5. CASE UNCHANGED inbox
    BY <2>5 DEF InQueues, SnapsOK, Waiting, In
  <2> QED BY <2>1, <2>2, <2>3, <2>4, <2>5 DEF Listening
<1>4. \A w \in DOMAIN inbox' : inbox'[w] \in Box /\ Waiting(w)' \subseteq InQueues
  <2> SUFFICES ASSUME NEW w \in DOMAIN inbox', w # r
               PROVE  inbox'[w] \in Box /\ Waiting(w)' \subseteq InQueues
    BY <1>3
  <2>1. w \in DOMAIN inbox /\ inbox'[w] = inbox[w]
    BY <1>2
  <2> QED BY <2>1 DEF InQueues, SnapsOK, Waiting, In
<1>5. Snaps' \subseteq Snaps
  <2>1. InQueues' \subseteq InQueues
    BY <1>4 DEF InQueues
  <2> QED BY <1>1, <2>1 DEF Snaps
<1>6. Subscribe(r) => r \in DOMAIN inbox'
  BY DEF Subscribe
<1>7. TakeLag(r) /\ HasLagged(r) => DOMAIN inbox' = DOMAIN inbox /\ r \in DOMAIN inbox
  BY DEF TakeLag, HasLagged
<1>8. ASSUME Take(r), HasMessage(r)
      PROVE  /\ DOMAIN inbox' = DOMAIN inbox /\ r \in DOMAIN inbox /\ Message(r) \in Waiting(r)
             /\ Waiting(r) \subseteq Waiting(r)' \cup {Message(r)}
             /\ inbox'[r].lagged = inbox[r].lagged
  <2>1. inbox[r] \in Box /\ inbox[r].queue # <<>> /\ r \in DOMAIN inbox
    BY <1>8 DEF HasMessage, SnapsOK
  <2>2. inbox'[r] = [inbox[r] EXCEPT !.queue = Tail(@)] /\ DOMAIN inbox' = DOMAIN inbox
    BY <1>8, <2>1 DEF Take
  <2>3. /\ In(inbox[r]) \subseteq In(inbox'[r]) \cup {Head(inbox[r].queue)}
        /\ Head(inbox[r].queue) \in In(inbox[r])
    BY <2>1, <2>2, TakenBox
  <2>4. Waiting(r) = In(inbox[r]) /\ Waiting(r)' = In(inbox'[r])
    BY DEF Waiting, In
  <2>5. inbox'[r].lagged = inbox[r].lagged
    BY <2>1, <2>2 DEF Box
  <2> QED BY <2>1, <2>2, <2>3, <2>4, <2>5 DEF Message
<1> HIDE DEF Sending, Snaps, Waiting
<1> QED BY <1>1, <1>2, <1>4, <1>5, <1>6, <1>7, <1>8

----------------------------------------------------------------------------
(* A follower whose job is over has still to be told, or has missed a      *)
(* message; and no end that it may be told of looks old to it.             *)
StreamTypes ==
  stream \in [Follower -> [at : {"closed", "subscribed", "open", "ended"}, id : {0} \cup Ids,
                           last : Nat, missed : BOOLEAN]]

Due(f) ==
  \/ stream[f].id \in Active
  \/ stream[f].missed
  \/ inbox[f].lagged
  \/ \E s \in Sending \cup Waiting(f) : s.id = stream[f].id /\ Terminal(s)

InTime(f) ==
  /\ \A s \in Snaps : s.id = stream[f].id /\ Terminal(s) => stream[f].last < s.revision
  /\ stream[f].id \in DOMAIN jobs => stream[f].last <= jobs[stream[f].id].revision

Followed(f) ==
  /\ stream[f].at \in {"subscribed", "open"} => f \in DOMAIN inbox /\ stream[f].id <= created
  /\ stream[f].at = "open" => InTime(f) /\ Due(f)

FollowOK == StreamTypes /\ \A f \in Follower : Followed(f)

LEMMA JobsAreFollowed ==
  ASSUME OrderInv, SnapsOK, StreamTypes, Step, UNCHANGED stream, NEW f \in Follower, Followed(f)
  PROVE  Followed(f)'
<1> DEFINE id == stream[f].id
           last == stream[f].last
<1>1. created \in Nat /\ id \in Nat /\ last \in Nat
  BY JobsAssumption DEF OrderInv, JobsInv, TypeOK, StreamTypes, Ids, JobsAssumption
<1>2. \A s \in Snaps : s \in Job
  BY SaidAreJobs DEF OrderInv
<1>3. CASE Starting
  <2> PICK i \in Ids, job \in Job :
      /\ i = created + 1 /\ created' = i
      /\ job.id = i /\ ~Terminal(job)
      /\ Active = {}
      /\ i \in DOMAIN jobs' /\ jobs'[i] = job /\ DOMAIN jobs' \subseteq DOMAIN jobs \cup {i}
      /\ \A j \in DOMAIN jobs' \ {i} : jobs'[j] = jobs[j]
      /\ Sending' = Sending \cup {job}
      /\ UNCHANGED inbox
    BY <1>3 DEF Starting
  <2>1. \A s \in Listings' : s = job \/ s \in Snaps
    <3>1. \A j \in DOMAIN jobs' : jobs'[j] = job \/ (j \in DOMAIN jobs /\ jobs'[j] = jobs[j])
      OBVIOUS
    <3> QED BY <3>1, WhatIsSaid DEF Listings
  <2>2. \A s \in Snaps' : s = job \/ s \in Snaps
    <3>1. Snaps' \subseteq Snaps \cup Sending' \cup Listings'
      BY <1>3, NothingElseIsSaid
    <3> HIDE DEF Snaps, Sending, Listings
    <3> QED BY <2>1, <3>1, WhatIsSaid
  <2>3. Waiting(f)' = Waiting(f)
    BY DEF Waiting, In
  <2> HIDE DEF Sending, Snaps, Waiting
  <2>4. SUFFICES ASSUME stream[f].at \in {"subscribed", "open"}
                 PROVE  Followed(f)'
    BY DEF Followed
  <2>5. f \in DOMAIN inbox /\ id <= created /\ id # i
    BY <1>1, <2>4 DEF Followed
  <2>6. stream[f].at = "open" => InTime(f)'
    BY <2>2, <2>5 DEF Followed, InTime
  <2>7. stream[f].at = "open" => Due(f)'
    BY <2>3, <2>5 DEF Followed, Due
  <2> QED BY <1>1, <2>5, <2>6, <2>7 DEF Followed
<1>4. CASE Updating
  <2> PICK i \in DOMAIN jobs, job \in Job :
      /\ job.id = i /\ job.revision = jobs[i].revision + 1
      /\ Terminal(jobs[i]) => Terminal(job)
      /\ DOMAIN jobs' = DOMAIN jobs /\ jobs'[i] = job
      /\ \A j \in DOMAIN jobs \ {i} : jobs'[j] = jobs[j]
      /\ Sending' = Sending \cup {job}
      /\ UNCHANGED <<inbox, created>>
    BY <1>4 DEF Updating
  <2>1. \A s \in Listings' : s = job \/ s \in Snaps
    <3>1. \A j \in DOMAIN jobs' : jobs'[j] = job \/ (j \in DOMAIN jobs /\ jobs'[j] = jobs[j])
      OBVIOUS
    <3> QED BY <3>1, WhatIsSaid DEF Listings
  <2>2. \A s \in Snaps' : s = job \/ s \in Snaps
    <3>1. Snaps' \subseteq Snaps \cup Sending' \cup Listings'
      BY <1>4, NothingElseIsSaid
    <3> HIDE DEF Snaps, Sending, Listings
    <3> QED BY <2>1, <3>1, WhatIsSaid
  <2>3. Waiting(f)' = Waiting(f)
    BY DEF Waiting, In
  <2>4. jobs[i].revision \in Nat
    BY ListedJob DEF OrderInv, Job
  <2>5. id \in Active => id \in Active' \/ (id = i /\ Terminal(job))
    BY DEF Active
  <2> HIDE DEF Sending, Snaps, Waiting, Active
  <2>6. stream[f].at = "open" => InTime(f)'
    <3>1. SUFFICES ASSUME stream[f].at = "open" PROVE InTime(f)'
      OBVIOUS
    <3>2. InTime(f)
      BY <3>1 DEF Followed
    <3>3. id = i => last < job.revision
      BY <1>1, <2>4, <3>2 DEF InTime
    <3>4. \A s \in Snaps' : s.id = id /\ Terminal(s) => last < s.revision
      BY <2>2, <3>2, <3>3 DEF InTime
    <3>5. id \in DOMAIN jobs' => last <= jobs'[id].revision
      <4>1. CASE id = i
        BY <1>1, <2>4, <3>2, <4>1 DEF InTime
      <4>2. CASE id # i
        BY <3>2, <4>2 DEF InTime
      <4> QED BY <4>1, <4>2
    <3> QED BY <3>4, <3>5 DEF InTime
  <2>7. stream[f].at = "open" => Due(f)'
    BY <2>3, <2>5 DEF Followed, Due
  <2> QED BY <2>6, <2>7 DEF Followed
<1>5. CASE Telling \/ Saying
  <2>1. UNCHANGED <<jobs, created>> /\ Snaps' \subseteq Snaps
    BY <1>5, NothingElseIsSaid DEF Telling, Saying
  <2>2. Active' = Active
    BY <2>1 DEF Active
  <2>3. SUFFICES ASSUME stream[f].at \in {"subscribed", "open"}
                 PROVE  Followed(f)'
    BY DEF Followed
  <2>4. f \in DOMAIN inbox /\ id <= created
    BY <2>3 DEF Followed
  <2>5. /\ f \in DOMAIN inbox'
        /\ inbox[f].lagged => inbox'[f].lagged
        /\ inbox'[f].lagged \/ Waiting(f) \cup Sending \subseteq Waiting(f)' \cup Sending'
    <3>1. CASE Telling
      <4> HIDE DEF Sending, Waiting
      <4> QED BY <2>4, <3>1, TellingIs
    <3>2. CASE Saying
      BY <2>4, <3>2 DEF Saying, Waiting, In
    <3> QED BY <1>5, <3>1, <3>2
  <2> HIDE DEF Sending, Snaps, Waiting, Active
  <2>6. stream[f].at = "open" => InTime(f)'
    BY <2>1 DEF Followed, InTime
  <2>7. stream[f].at = "open" => Due(f)'
    BY <2>2, <2>5 DEF Followed, Due
  <2> QED BY <2>1, <2>4, <2>5, <2>6, <2>7 DEF Followed
<1> QED BY <1>3, <1>4, <1>5, WhatJobsSay

(* A restart lists only jobs that have ended, and nobody is told anything. *)
LEMMA RestartKeepsSnaps == ASSUME OrderInv, SnapsOK, Restart PROVE SnapsOK'
<1>1. /\ jobs' = [i \in DOMAIN disk |-> Restored(disk[i])] /\ disk' = jobs'
      /\ DOMAIN inbox' = {} /\ created' = created
      /\ \A a \in Client \cup Ids : task'[a].at = "idle"
  BY DEF Restart, Idle
<1>2. ASSUME NEW i \in DOMAIN jobs'
      PROVE  i <= created /\ jobs'[i].id = i /\ Terminal(jobs'[i]) /\ jobs'[i].revision \in Nat
  <2>1. disk[i] \in Job /\ disk[i].id = i /\ i \in DOMAIN disk /\ jobs'[i] = Restored(disk[i])
    BY <1>1 DEF OrderInv, JobsInv, TypeOK, IsList, SnapsOK
  <2>2. Restored(disk[i]) \in Job /\ Terminal(Restored(disk[i]))
    BY <2>1, RestoredJob
  <2>3. Restored(disk[i]).id = i
    BY <2>1 DEF Restored, Changed, Job
  <2>4. i <= created
    BY <2>1 DEF OrderInv, Numbered
  <2> QED BY <2>1, <2>2, <2>3, <2>4 DEF Job
<1>3. Sending' = {} /\ InQueues' = {}
  BY <1>1 DEF Sending, InQueues
<1>4. \A s \in Snaps' : \E i \in DOMAIN jobs' : s = jobs'[i]
  BY <1>3 DEF Snaps, Listings
<1> QED BY <1>1, <1>2, <1>4 DEF SnapsOK

LEMMA OthersAreFollowed ==
  ASSUME SnapsOK, OnlyInbox, NEW r, Listening(r), NEW f \in Follower, f # r,
         stream'[f] = stream[f], Followed(f)
  PROVE  Followed(f)'
<1>1. /\ Sending' = Sending /\ Snaps' \subseteq Snaps /\ UNCHANGED <<jobs, created>>
      /\ f \in DOMAIN inbox => f \in DOMAIN inbox' /\ inbox'[f] = inbox[f]
  BY ListeningIs DEF OnlyInbox
<1>2. f \in DOMAIN inbox => Waiting(f)' = Waiting(f)
  BY <1>1 DEF Waiting, In
<1>3. Active' = Active
  BY <1>1 DEF Active
<1> HIDE DEF Sending, Snaps, Waiting, Active
<1> QED BY <1>1, <1>2, <1>3 DEF Followed, InTime, Due

(* The stream's own steps.                                                 *)
LEMMA FollowerKeeps ==
  ASSUME OrderInv, SnapsOK, StreamTypes, NEW f \in Follower, Followed(f),
         (\E i \in Ids : Follow(f, i)) \/ FollowerStep(f)
  PROVE  StreamTypes' /\ Followed(f)' /\ OnlyInbox /\ Listening(f)
         /\ \A g \in Follower : g # f => stream'[g] = stream[g]
<1>1. /\ OnlyInbox /\ Listening(f)
      /\ \A g \in Follower : g # f => stream'[g] = stream[g]
  BY DEF Follow, FollowerStep, FirstEvent, NextEvent, IgnoreLag, Listening, StreamTypes
<1>2. /\ Sending' = Sending /\ Snaps' \subseteq Snaps /\ UNCHANGED <<jobs, created>>
      /\ Active' = Active
  BY <1>1, ListeningIs DEF OnlyInbox, Active
<1>3. \A s \in Snaps : s \in Job
  BY SaidAreJobs DEF OrderInv
<1>4. ASSUME NEW i \in Ids, Follow(f, i) PROVE StreamTypes' /\ Followed(f)'
  <2>1. /\ stream' = [stream EXCEPT ![f] = [NoStream EXCEPT !.at = "subscribed", !.id = i]]
        /\ Subscribe(f) /\ i <= created
    BY <1>4 DEF Follow
  <2>2. stream'[f].at = "subscribed" /\ stream'[f].id = i
    BY <2>1 DEF NoStream, StreamTypes
  <2>3. StreamTypes'
    BY <2>1 DEF NoStream, StreamTypes
  <2>4. f \in DOMAIN inbox'
    BY <2>1 DEF Subscribe
  <2> QED BY <1>2, <2>1, <2>2, <2>3, <2>4 DEF Followed
<1>5. ASSUME FirstEvent(f) PROVE StreamTypes' /\ Followed(f)'
  <2> DEFINE i == stream[f].id
  <2>0. f \in DOMAIN inbox /\ i <= created
    BY <1>5 DEF FirstEvent, Followed
  <2>1. CASE i \in Active
    <3>1. stream' = [stream EXCEPT ![f].at = "open", ![f].last = jobs[i].revision] /\ UNCHANGED inbox
      BY <1>5, <2>1 DEF FirstEvent
    <3>2. i \in DOMAIN jobs /\ jobs[i] \in Job /\ jobs[i].id = i /\ ~Terminal(jobs[i])
          /\ jobs[i] \in Snaps
      BY <2>1, ListedJob, WhatIsSaid DEF Active, OrderInv
    <3>3. /\ stream'[f].at = "open" /\ stream'[f].id = i /\ stream'[f].last = jobs[i].revision
          /\ jobs[i].revision \in Nat
      BY <3>1, <3>2 DEF StreamTypes, Job
    <3>4. StreamTypes'
      BY <3>1, <3>3 DEF StreamTypes
    <3>5. InTime(f)'
      BY <1>2, <3>2, <3>3 DEF InTime, SnapsOK
    <3>6. Due(f)'
      BY <1>2, <2>1, <3>3 DEF Due
    <3> HIDE DEF Snaps, Sending
    <3> QED BY <1>2, <2>0, <3>1, <3>3, <3>4, <3>5, <3>6 DEF Followed
  <2>2. CASE i \notin Active
    <3>1. stream' = [stream EXCEPT ![f].at = "ended"]
      BY <1>5, <2>2 DEF FirstEvent
    <3>2. StreamTypes' /\ stream'[f].at = "ended"
      BY <3>1 DEF StreamTypes
    <3> QED BY <3>2 DEF Followed
  <2> QED BY <2>1, <2>2
<1>6. ASSUME NextEvent(f) PROVE StreamTypes' /\ Followed(f)'
  <2> DEFINE id == stream[f].id
             last == stream[f].last
             new == Message(f)
             mine == new.id = id /\ new.revision > last
  <2>1. /\ stream[f].at = "open" /\ HasMessage(f)
        /\ f \in DOMAIN inbox /\ id <= created /\ InTime(f) /\ Due(f)
    BY <1>6 DEF NextEvent, Followed
  <2>2. new \in Snaps /\ new \in Job
    <3>1. new \in Waiting(f)
      <4>1. inbox[f] \in Box /\ inbox[f].queue # <<>>
        BY <2>1 DEF HasMessage, SnapsOK
      <4>2. Head(inbox[f].queue) \in In(inbox[f])
        BY <4>1, TakenBox
      <4> QED BY <4>2 DEF Message, Waiting
    <3> QED BY <1>3, <2>1, <3>1, WhatIsSaid
  <2>3. CASE mine /\ Terminal(new)
    <3>1. stream' = [stream EXCEPT ![f].at = "ended", ![f].last = new.revision]
      BY <1>6, <2>3 DEF NextEvent
    <3>2. StreamTypes' /\ stream'[f].at = "ended"
      BY <2>2, <3>1 DEF StreamTypes, Job
    <3> QED BY <3>2 DEF Followed
  <2>4. CASE ~(mine /\ Terminal(new))
    <3>1. /\ stream' = IF mine THEN [stream EXCEPT ![f].last = new.revision] ELSE stream
          /\ Take(f)
      BY <1>6, <2>4 DEF NextEvent
    <3>2. /\ StreamTypes' /\ stream'[f].at = "open" /\ stream'[f].id = id
          /\ stream'[f].missed = stream[f].missed
          /\ stream'[f].last = IF mine THEN new.revision ELSE last
      BY <2>1, <2>2, <3>1 DEF StreamTypes, Job
    <3>3. /\ DOMAIN inbox' = DOMAIN inbox /\ inbox'[f].lagged = inbox[f].lagged
          /\ Waiting(f) \subseteq Waiting(f)' \cup {new}
      BY <1>1, <2>1, <3>1, ListeningIs
    <3>4. ~(new.id = id /\ Terminal(new))
      BY <2>2, <2>4, <2>1 DEF InTime, Job, StreamTypes
    <3> HIDE DEF new
    <3>5. InTime(f)'
      <4>1. CASE mine
        <5>1. \A s \in Snaps' : s.id = id /\ Terminal(s) => new.revision < s.revision
          BY <1>2, <2>2, <3>4, <4>1 DEF SnapsOK
        <5>2. id \in DOMAIN jobs => new.revision <= jobs[id].revision
          BY <2>2, <4>1 DEF SnapsOK
        <5> QED BY <1>2, <3>2, <4>1, <5>1, <5>2 DEF InTime
      <4>2. CASE ~mine
        BY <1>2, <2>1, <3>2, <4>2 DEF InTime
      <4> QED BY <4>1, <4>2
    <3> HIDE DEF Sending, Snaps, Waiting, Active
    <3>6. Due(f)'
      BY <1>2, <2>1, <3>2, <3>3, <3>4 DEF Due
    <3> QED BY <1>2, <2>1, <3>2, <3>3, <3>5, <3>6 DEF Followed
  <2> QED BY <2>3, <2>4
<1>7. ASSUME IgnoreLag(f) PROVE StreamTypes' /\ Followed(f)'
  <2>1. /\ stream' = [stream EXCEPT ![f].missed = TRUE]
        /\ stream[f].at = "open" /\ f \in DOMAIN inbox /\ stream[f].id <= created
        /\ InTime(f) /\ HasLagged(f) /\ TakeLag(f)
    BY <1>7 DEF IgnoreLag, Followed
  <2>2. /\ StreamTypes' /\ stream'[f].at = "open" /\ stream'[f].missed
        /\ stream'[f].id = stream[f].id /\ stream'[f].last = stream[f].last
    BY <2>1 DEF StreamTypes
  <2>3. f \in DOMAIN inbox'
    BY <1>1, <2>1, ListeningIs
  <2> HIDE DEF Snaps
  <2> QED BY <1>2, <2>1, <2>2, <2>3 DEF Followed, InTime, Due
<1> QED BY <1>1, <1>4, <1>5, <1>6, <1>7 DEF FollowerStep

----------------------------------------------------------------------------
(* Lists of states, as a tab keeps and folds them in.                      *)
Lists == UNION {[S -> States] : S \in SUBSET Ids}

LEMMA ListsAre == \A f : f \in Lists <=> DOMAIN f \subseteq Ids /\ f \in [DOMAIN f -> States]
<1>1. \A f : f \in Lists => DOMAIN f \subseteq Ids /\ f \in [DOMAIN f -> States]
  <2> SUFFICES ASSUME NEW f, NEW S \in SUBSET Ids, f \in [S -> States]
               PROVE  DOMAIN f \subseteq Ids /\ f \in [DOMAIN f -> States]
    BY DEF Lists
  <2>1. DOMAIN f = S
    OBVIOUS
  <2> QED BY <2>1
<1>2. \A f : DOMAIN f \subseteq Ids /\ f \in [DOMAIN f -> States] => f \in Lists
  BY DEF Lists
<1> QED BY <1>1, <1>2

LEMMA NothingIsNoList == Nothing \notin Lists
BY StreamsAssumption DEF StreamsAssumption, Lists

LEMMA EmptyList == <<>> \in Lists /\ DOMAIN <<>> = {}
<1>1. DOMAIN <<>> = {} /\ <<>> \in [{} -> States]
  OBVIOUS
<1> QED BY <1>1, ListsAre

(* The list says that the job is over.                                     *)
Over(list, i) == i \in DOMAIN list /\ list[i] \notin ActiveStates

(* Folding a list in adds its jobs, and ends what it says is over.         *)
LEMMA ObservedIs ==
  ASSUME NEW states \in Lists, NEW list \in Lists
  PROVE  /\ Observed(states, list) \in Lists
         /\ DOMAIN Observed(states, list) = DOMAIN states \cup DOMAIN list
         /\ \A i : Over(Observed(states, list), i) <=> Over(states, i) \/ Over(list, i)
<1> DEFINE o == Observed(states, list)
<1>1. /\ DOMAIN states \subseteq Ids /\ \A i \in DOMAIN states : states[i] \in States
      /\ DOMAIN list \subseteq Ids /\ \A i \in DOMAIN list : list[i] \in States
  BY ListsAre
<1>2. DOMAIN o = DOMAIN states \cup DOMAIN list
  BY DEF Observed
<1>3. ASSUME NEW i \in DOMAIN o
      PROVE  /\ i \notin DOMAIN list => o[i] = states[i]
             /\ i \notin DOMAIN states => o[i] = list[i]
             /\ i \in DOMAIN states /\ i \in DOMAIN list =>
                  o[i] = IF states[i] \notin ActiveStates /\ list[i] \in ActiveStates
                           THEN states[i] ELSE list[i]
  <2>1. CASE i \notin DOMAIN list
    BY <1>2, <2>1 DEF Observed
  <2>2. CASE i \in DOMAIN list /\ i \notin DOMAIN states
    BY <1>2, <2>2 DEF Observed
  <2>3. CASE i \in DOMAIN list /\ i \in DOMAIN states
    BY <1>2, <2>3 DEF Observed
  <2> QED BY <1>2, <2>1, <2>2, <2>3
<1>4. o = [i \in DOMAIN o |-> o[i]]
  BY <1>2 DEF Observed
<1> HIDE DEF o
<1>5. \A i \in DOMAIN o : o[i] \in States
  BY <1>1, <1>2, <1>3
<1>6. o \in [DOMAIN o -> States]
  BY <1>4, <1>5
<1>7. o \in Lists
  BY <1>1, <1>2, <1>6, ListsAre
<1>8. \A i : Over(o, i) <=> Over(states, i) \/ Over(list, i)
  BY <1>2, <1>3 DEF Over
<1> QED BY <1>2, <1>7, <1>8 DEF o

(* What a list says of a job is no more than what is listed now.           *)
NotAhead(list) ==
  \A i \in DOMAIN list : i <= created /\ (Over(list, i) => i \notin Active)

LEMMA ListedIs ==
  ASSUME OrderInv
  PROVE  /\ Listed \in Lists /\ DOMAIN Listed = DOMAIN jobs /\ NotAhead(Listed)
         /\ \A i \in DOMAIN jobs : Over(Listed, i) <=> i \notin Active
<1>1. DOMAIN Listed = DOMAIN jobs /\ \A i \in DOMAIN jobs : Listed[i] = jobs[i].state
  BY DEF Listed
<1>2. \A i \in DOMAIN jobs : jobs[i] \in Job /\ i \in Ids /\ i <= created
  BY DEF OrderInv, Numbered, JobsInv, TypeOK, IsList
<1>3. Listed \in [DOMAIN jobs -> States]
  BY <1>2 DEF Listed, Job
<1>4. \A i \in DOMAIN jobs : Over(Listed, i) <=> i \notin Active
  BY <1>1, <1>2 DEF Over, Active, ActiveStates, Terminal, Job, States
<1> HIDE DEF Listed
<1> QED BY <1>1, <1>2, <1>3, <1>4, ListsAre DEF NotAhead

LEMMA ObservedNotAhead ==
  ASSUME NEW states \in Lists, NEW list \in Lists, NotAhead(states), NotAhead(list)
  PROVE  NotAhead(Observed(states, list))
<1> DEFINE o == Observed(states, list)
<1>1. DOMAIN o = DOMAIN states \cup DOMAIN list
      /\ \A i : Over(o, i) <=> Over(states, i) \/ Over(list, i)
  BY ObservedIs
<1> HIDE DEF o
<1>2. ASSUME NEW i \in DOMAIN o PROVE i <= created /\ (Over(o, i) => i \notin Active)
  <2>1. i <= created
    BY <1>1 DEF NotAhead
  <2>2. Over(states, i) \/ Over(list, i) => i \notin Active
    BY DEF NotAhead, Over
  <2> QED BY <1>1, <2>1, <2>2
<1> QED BY <1>2 DEF NotAhead, o

(* An end that is said is true of a listed job.                            *)
LEMMA EndsAreTrue ==
  ASSUME JobsInv, SnapsOK, NEW s \in Snaps, Terminal(s)
  PROVE  s.id \notin Active
<1> SUFFICES ASSUME s.id \in Active PROVE FALSE
  OBVIOUS
<1>1. /\ s.id \in DOMAIN jobs /\ ~Terminal(jobs[s.id]) /\ jobs[s.id] \in Snaps
      /\ jobs[s.id].id = s.id /\ jobs[s.id] \in Job /\ s \in Job
  BY WhatIsSaid, ListedJob, SaidAreJobs DEF Active
<1> QED BY <1>1 DEF SnapsOK, Job

LEMMA ToldIs ==
  ASSUME OrderInv, NEW states \in Lists, NotAhead(states)
  PROVE  /\ Told(states) \in Lists /\ NotAhead(Told(states))
         /\ DOMAIN states = {} =>
              /\ DOMAIN jobs \subseteq DOMAIN Told(states)
              /\ \A i \in DOMAIN jobs : i \notin Active => Over(Told(states), i)
<1> DEFINE unknown == [i \in DOMAIN Listed \ DOMAIN states |-> Listed[i]]
           now == [i \in Active |-> Listed[i]]
           first == Observed(states, unknown)
<1>1. /\ Listed \in Lists /\ DOMAIN Listed = DOMAIN jobs /\ NotAhead(Listed)
      /\ \A i \in DOMAIN jobs : Over(Listed, i) <=> i \notin Active
      /\ DOMAIN Listed \subseteq Ids /\ \A i \in DOMAIN Listed : Listed[i] \in States
      /\ Active \subseteq DOMAIN Listed
  BY ListedIs, ListsAre DEF Active
<1> HIDE DEF Listed, Active
<1>2. unknown \in Lists /\ NotAhead(unknown)
      /\ \A i \in DOMAIN Listed \ DOMAIN states : Over(Listed, i) <=> Over(unknown, i)
  BY <1>1, ListsAre DEF NotAhead, Over
<1>3. now \in Lists /\ NotAhead(now)
  BY <1>1, ListsAre DEF NotAhead, Over
<1>4. Told(states) = Observed(first, now) /\ DOMAIN unknown = DOMAIN Listed \ DOMAIN states
  BY DEF Told
<1> HIDE DEF unknown, now
<1>5. first \in Lists /\ NotAhead(first)
      /\ DOMAIN first = DOMAIN states \cup DOMAIN unknown
      /\ \A i : Over(unknown, i) => Over(first, i)
  BY <1>2, ObservedIs, ObservedNotAhead
<1> HIDE DEF first
<1>6. /\ Observed(first, now) \in Lists /\ NotAhead(Observed(first, now))
      /\ DOMAIN Observed(first, now) = DOMAIN first \cup DOMAIN now
      /\ \A i : Over(Observed(first, now), i) <=> Over(first, i) \/ Over(now, i)
  BY <1>3, <1>5, ObservedIs, ObservedNotAhead
<1> QED BY <1>1, <1>2, <1>4, <1>5, <1>6

----------------------------------------------------------------------------
(* A tab is never ahead of the list.  One that learned all it knows from   *)
(* one stream has taken over what that stream sent, and of every listed    *)
(* job it knows, or is still to be told, whether it is over: unless its    *)
(* last poll failed.                                                       *)
TabState == [at : {"closed", "opening", "subscribed", "open"}, known : Lists, states : Lists,
             poll : Lists \cup {Nothing}, fresh : BOOLEAN, missed : BOOLEAN]

Tells(list, i) == i \in DOMAIN list /\ (i \in Active \/ Over(list, i))

Learnt(t, i) ==
  \/ Tells(tab[t].states, i)
  \/ tab[t].poll # Nothing /\ Tells(tab[t].poll, i)
  \/ tab[t].missed
  \/ inbox[t].lagged
  \/ \E s \in Sending \cup Waiting(t) : s.id = i /\ (i \in Active \/ Terminal(s))

Follows(t) ==
  \A i \in DOMAIN tab[t].known :
    i \in DOMAIN tab[t].states /\ (Over(tab[t].known, i) => Over(tab[t].states, i))

Watched(t) ==
  /\ tab[t].at \in {"subscribed", "open"} => t \in DOMAIN inbox
  /\ tab[t].at # "open" => DOMAIN tab[t].known = {}
  /\ NotAhead(tab[t].states)
  /\ tab[t].poll # Nothing => NotAhead(tab[t].poll)
  /\ tab[t].fresh => Follows(t)
  /\ tab[t].fresh /\ tab[t].at = "open" => \A i \in DOMAIN jobs : Learnt(t, i)

TabTypes == tab \in [Tab -> TabState]
TabsOK == TabTypes /\ \A t \in Tab : Watched(t)

(* What a step of the jobs, or one that only others listen to, has to keep *)
(* for a tab that stays as it is.                                          *)
LEMMA StillWatched ==
  ASSUME created \in Nat, created' \in {created, created + 1},
         \A i \in Active' : i \in Active \/ i > created,
         TabTypes, NEW t \in Tab, Watched(t), tab'[t] = tab[t],
         t \in DOMAIN inbox => t \in DOMAIN inbox',
         t \in DOMAIN inbox => \A i \in DOMAIN jobs' :
           (i \in DOMAIN jobs => Learnt(t, i)) => Learnt(t, i)'
  PROVE  Watched(t)'
<1> DEFINE states == tab[t].states
           poll == tab[t].poll
<1>1. /\ DOMAIN states \subseteq Nat
      /\ poll # Nothing => DOMAIN poll \subseteq Nat
  BY ListsAre DEF TabTypes, TabState, Ids
<1>2. ASSUME NEW list, DOMAIN list \subseteq Nat, NotAhead(list)
      PROVE  \A i \in DOMAIN list : i <= created' /\ (Over(list, i) => i \notin Active')
  BY <1>2 DEF NotAhead
<1>3. NotAhead(tab[t].states)'
  BY <1>1, <1>2 DEF Watched, NotAhead, Over
<1>4. (tab[t].poll # Nothing => NotAhead(tab[t].poll))'
  BY <1>1, <1>2 DEF Watched, NotAhead, Over
<1>5. Follows(t) => Follows(t)'
  BY DEF Follows, Over
<1>6. (t \in DOMAIN inbox /\ \A i \in DOMAIN jobs : Learnt(t, i)) => (\A i \in DOMAIN jobs : Learnt(t, i))'
  OBVIOUS
<1> HIDE DEF Active, Learnt, Follows, NotAhead
<1> QED BY <1>3, <1>4, <1>5, <1>6 DEF Watched

LEMMA StillLearnt ==
  ASSUME NEW t \in Tab, tab'[t] = tab[t], NEW i, Learnt(t, i), i \in Active => i \in Active',
         inbox[t].lagged => inbox'[t].lagged,
         inbox'[t].lagged \/ Waiting(t) \cup Sending \subseteq Waiting(t)' \cup Sending'
  PROVE  Learnt(t, i)'
<1>1. \A list : Tells(list, i) => i \in DOMAIN list /\ (i \in Active' \/ Over(list, i))
  BY DEF Tells
<1>2. Tells(tab[t].states, i) => Tells(tab[t].states, i)'
  BY <1>1 DEF Tells, Over
<1>3. tab[t].poll # Nothing /\ Tells(tab[t].poll, i) => (tab[t].poll # Nothing /\ Tells(tab[t].poll, i))'
  BY <1>1 DEF Tells, Over
<1> HIDE DEF Active, Waiting, Sending, Tells
<1> QED BY <1>2, <1>3 DEF Learnt

LEMMA JobsAreWatched ==
  ASSUME OrderInv, SnapsOK, TabTypes, Step, UNCHANGED tab, NEW t \in Tab, Watched(t)
  PROVE  Watched(t)'
<1>1. created \in Nat /\ \A j \in DOMAIN jobs : j <= created
  BY JobsAssumption DEF OrderInv, Numbered, JobsInv, TypeOK, Ids, JobsAssumption
<1>2. CASE Starting
  <2> PICK i \in Ids, job \in Job :
      /\ i = created + 1 /\ created' = i
      /\ job.id = i /\ ~Terminal(job)
      /\ Active = {}
      /\ i \in DOMAIN jobs' /\ jobs'[i] = job /\ DOMAIN jobs' \subseteq DOMAIN jobs \cup {i}
      /\ \A j \in DOMAIN jobs' \ {i} : jobs'[j] = jobs[j]
      /\ Sending' = Sending \cup {job}
      /\ UNCHANGED inbox
    BY <1>2 DEF Starting
  <2>1. i \in Active' /\ \A j \in Active' : j = i
    BY DEF Active
  <2>2. Waiting(t)' = Waiting(t)
    BY DEF Waiting, In
  <2>3. Learnt(t, i)'
    BY <2>1 DEF Learnt
  <2>4. ASSUME NEW j \in DOMAIN jobs', j \in DOMAIN jobs => Learnt(t, j) PROVE Learnt(t, j)'
    <3>1. CASE j = i
      BY <2>3, <3>1
    <3>2. CASE j # i
      <4>1. Learnt(t, j)
        BY <2>4, <3>2
      <4> HIDE DEF Active, Waiting, Sending, Learnt
      <4> QED BY <2>2, <4>1, StillLearnt
    <3> QED BY <3>1, <3>2
  <2>5. created' \in {created, created + 1} /\ \A j \in Active' : j \in Active \/ j > created
    BY <1>1, <2>1
  <2> HIDE DEF Active, Sending
  <2> QED BY <1>1, <2>4, <2>5, StillWatched
<1>3. CASE Updating
  <2> PICK i \in DOMAIN jobs, job \in Job :
      /\ job.id = i /\ job.revision = jobs[i].revision + 1
      /\ Terminal(jobs[i]) => Terminal(job)
      /\ DOMAIN jobs' = DOMAIN jobs /\ jobs'[i] = job
      /\ \A j \in DOMAIN jobs \ {i} : jobs'[j] = jobs[j]
      /\ Sending' = Sending \cup {job}
      /\ UNCHANGED <<inbox, created>>
    BY <1>3 DEF Updating
  <2>1. /\ Active' \subseteq Active /\ \A j \in Active : j # i => j \in Active'
        /\ i \in Active' \/ Terminal(job)
    BY DEF Active
  <2>2. Waiting(t)' = Waiting(t)
    BY DEF Waiting, In
  <2>3. Terminal(job) => Learnt(t, i)'
    BY DEF Learnt
  <2>4. ASSUME NEW j \in DOMAIN jobs', j \in DOMAIN jobs => Learnt(t, j) PROVE Learnt(t, j)'
    <3>1. CASE j = i /\ Terminal(job)
      BY <2>3, <3>1
    <3>2. CASE ~(j = i /\ Terminal(job))
      <4>1. Learnt(t, j) /\ (j \in Active => j \in Active')
        BY <2>1, <2>4, <3>2
      <4> HIDE DEF Active, Waiting, Sending, Learnt
      <4> QED BY <2>2, <4>1, StillLearnt
    <3> QED BY <3>1, <3>2
  <2>5. created' \in {created, created + 1} /\ \A j \in Active' : j \in Active
    BY <2>1
  <2> HIDE DEF Active, Sending
  <2> QED BY <1>1, <2>4, <2>5, StillWatched
<1>4. CASE Telling \/ Saying
  <2>1. UNCHANGED <<jobs, created>>
    BY <1>4 DEF Telling, Saying
  <2>2. Active' = Active
    BY <2>1 DEF Active
  <2>3. ASSUME t \in DOMAIN inbox
        PROVE  /\ t \in DOMAIN inbox'
               /\ inbox[t].lagged => inbox'[t].lagged
               /\ inbox'[t].lagged \/ Waiting(t) \cup Sending \subseteq Waiting(t)' \cup Sending'
    <3>1. CASE Telling
      <4> HIDE DEF Sending, Waiting
      <4> QED BY <2>3, <3>1, TellingIs
    <3>2. CASE Saying
      BY <2>3, <3>2 DEF Saying, Waiting, In
    <3> QED BY <1>4, <3>1, <3>2
  <2> HIDE DEF Active, Waiting, Sending, Learnt
  <2>4. ASSUME t \in DOMAIN inbox, NEW j \in DOMAIN jobs', j \in DOMAIN jobs => Learnt(t, j)
        PROVE  Learnt(t, j)'
    BY <2>1, <2>2, <2>3, <2>4, StillLearnt
  <2> QED BY <1>1, <2>1, <2>2, <2>3, <2>4, StillWatched
<1> QED BY <1>2, <1>3, <1>4, WhatJobsSay

(* Steps of a follower or of another tab.                                  *)
LEMMA OthersAreWatched ==
  ASSUME OrderInv, SnapsOK, TabTypes, OnlyInbox, NEW r, Listening(r), NEW t \in Tab, t # r,
         tab'[t] = tab[t], Watched(t)
  PROVE  Watched(t)'
<1>1. /\ Sending' = Sending /\ UNCHANGED <<jobs, created>>
      /\ t \in DOMAIN inbox => t \in DOMAIN inbox' /\ inbox'[t] = inbox[t]
  BY ListeningIs DEF OnlyInbox
<1>2. t \in DOMAIN inbox => Waiting(t)' = Waiting(t)
  BY <1>1 DEF Waiting, In
<1>3. Active' = Active /\ created \in Nat
  BY <1>1, JobsAssumption DEF Active, OrderInv, JobsInv, TypeOK, JobsAssumption
<1> HIDE DEF Active, Waiting, Sending, Learnt
<1>4. ASSUME t \in DOMAIN inbox, NEW j \in DOMAIN jobs', j \in DOMAIN jobs => Learnt(t, j)
      PROVE  Learnt(t, j)'
  BY <1>1, <1>2, <1>3, <1>4, StillLearnt
<1> QED BY <1>1, <1>3, <1>4, StillWatched

----------------------------------------------------------------------------
(* A tab's own steps.                                                      *)
LEMMA TabSteps ==
  ASSUME SnapsOK, TabTypes, NEW t \in Tab, Boot(t) \/ TabStep(t) \/ Disconnect(t)
  PROVE  /\ OnlyInbox /\ Listening(t) /\ UNCHANGED stream
         /\ UNCHANGED <<jobs, disk, created>> /\ Active' = Active /\ Sending' = Sending
         /\ \A u \in Tab : u # t => tab'[u] = tab[u]
<1>1. /\ OnlyInbox /\ Listening(t) /\ UNCHANGED stream
      /\ \A u \in Tab : u # t => tab'[u] = tab[u]
  BY DEF Boot, TabStep, OpenStream, Hello, JobEvent, Resync, PollAnswer, PollFails,
     Disconnect, Listening,
         TabTypes
<1>2. UNCHANGED <<jobs, disk, created>> /\ Active' = Active /\ Sending' = Sending
  BY <1>1 DEF OnlyInbox, Active, Sending
<1> QED BY <1>1, <1>2

(* What a tab's step has to establish, its lists being unprimed.           *)
LEMMA TabMoves ==
  ASSUME UNCHANGED <<jobs, created>>, Active' = Active,
         TabTypes, NEW t \in Tab, \A u \in Tab : u # t => tab'[u] = tab[u], DOMAIN tab' = Tab,
         tab' = [u \in Tab |-> tab'[u]],
         NEW next \in TabState, tab'[t] = next,
         next.at \in {"subscribed", "open"} => t \in DOMAIN inbox',
         next.at # "open" => DOMAIN next.known = {},
         NotAhead(next.states), next.poll # Nothing => NotAhead(next.poll),
         next.fresh => \A i \in DOMAIN next.known :
           i \in DOMAIN next.states /\ (Over(next.known, i) => Over(next.states, i)),
         next.fresh /\ next.at = "open" => \A i \in DOMAIN jobs : Learnt(t, i)'
  PROVE  TabTypes' /\ Watched(t)'
<1>1. TabTypes'
  BY DEF TabTypes
<1>2. NotAhead(tab[t].states)' /\ (tab[t].poll # Nothing => NotAhead(tab[t].poll))'
  BY DEF NotAhead, Over
<1>3. next.fresh => Follows(t)'
  BY DEF Follows, Over
<1> HIDE DEF Active, Learnt
<1> QED BY <1>1, <1>2, <1>3 DEF Watched

LEMMA TabOpens ==
  ASSUME OrderInv, SnapsOK, TabTypes, NEW t \in Tab, Watched(t), Boot(t) \/ OpenStream(t)
  PROVE  TabTypes' /\ Watched(t)'
<1>1. /\ UNCHANGED <<jobs, created>> /\ Active' = Active
      /\ \A u \in Tab : u # t => tab'[u] = tab[u]
  BY TabSteps DEF TabStep
<1>2. tab[t] \in TabState /\ DOMAIN tab' = Tab /\ tab' = [u \in Tab |-> tab'[u]]
  BY DEF TabTypes, Boot, OpenStream
<1>3. /\ Listed \in Lists /\ NotAhead(Listed) /\ <<>> \in Lists /\ NotAhead(<<>>)
  BY ListedIs, EmptyList DEF NotAhead
<1>4. /\ NotAhead(tab[t].states) /\ (tab[t].poll # Nothing => NotAhead(tab[t].poll))
      /\ (tab[t].at # "open" => DOMAIN tab[t].known = {})
  BY DEF Watched
<1> HIDE DEF Listed
<1>5. CASE Boot(t)
  <2>1. PICK seed \in {Listed, <<>>} :
          tab' = [tab EXCEPT ![t].at = "opening", ![t].states = seed]
    BY <1>5 DEF Boot
  <2> DEFINE next == [tab[t] EXCEPT !.at = "opening", !.states = seed]
  <2>2. tab[t].at = "closed"
    BY <1>5 DEF Boot
  <2>3. tab'[t] = next
    BY <2>1 DEF TabTypes
  <2>4. /\ next \in TabState /\ next.at = "opening" /\ next.states = seed
        /\ next.known = tab[t].known /\ next.poll = tab[t].poll
    BY <1>2, <1>3 DEF TabState
  <2> HIDE DEF next
  <2>5. NotAhead(next.states)
    BY <1>3, <2>4
  <2> QED BY <1>1, <1>2, <1>4, <2>2, <2>3, <2>4, <2>5, TabMoves
<1>6. CASE OpenStream(t)
  <2> DEFINE next == [tab[t] EXCEPT !.at = "subscribed"]
  <2>1. tab' = [tab EXCEPT ![t].at = "subscribed"] /\ tab[t].at = "opening" /\ t \in DOMAIN inbox'
    BY <1>6 DEF OpenStream, Subscribe
  <2>2. tab'[t] = next
    BY <2>1 DEF TabTypes
  <2>3. /\ next \in TabState /\ next.at = "subscribed" /\ next.states = tab[t].states
        /\ next.known = tab[t].known /\ next.poll = tab[t].poll
    BY <1>2 DEF TabState
  <2> HIDE DEF next
  <2>4. /\ NotAhead(next.states) /\ (next.poll # Nothing => NotAhead(next.poll))
        /\ DOMAIN next.known = {} /\ next.at # "open"
    BY <1>4, <2>1, <2>3
  <2> HIDE DEF Active
  <2> QED BY <1>1, <1>2, <2>1, <2>2, <2>3, <2>4, TabMoves
<1> QED BY <1>5, <1>6

LEMMA HelloKeeps ==
  ASSUME OrderInv, SnapsOK, TabTypes, NEW t \in Tab, Watched(t), Hello(t)
  PROVE  TabTypes' /\ Watched(t)'
<1> DEFINE next == [tab[t] EXCEPT !.at = "open", !.known = Listed,
                                  !.states = Told(tab[t].states), !.missed = FALSE,
                                  !.fresh = tab[t].fresh /\ tab[t].states = <<>>]
<1>1. /\ UNCHANGED <<jobs, created>> /\ Active' = Active
      /\ \A u \in Tab : u # t => tab'[u] = tab[u]
  BY TabSteps DEF TabStep
<1>2. tab[t] \in TabState /\ DOMAIN tab' = Tab /\ tab' = [u \in Tab |-> tab'[u]]
  BY DEF TabTypes, Hello
<1>3. /\ Listed \in Lists /\ DOMAIN Listed = DOMAIN jobs
      /\ \A i \in DOMAIN jobs : Over(Listed, i) <=> i \notin Active
  BY ListedIs
<1>4. /\ tab[t].states \in Lists /\ NotAhead(tab[t].states)
      /\ (tab[t].poll # Nothing => NotAhead(tab[t].poll))
      /\ tab[t].at = "subscribed" /\ t \in DOMAIN inbox /\ UNCHANGED inbox
  BY <1>2 DEF Watched, Hello, TabState
<1>5. /\ Told(tab[t].states) \in Lists /\ NotAhead(Told(tab[t].states))
      /\ DOMAIN tab[t].states = {} =>
           /\ DOMAIN jobs \subseteq DOMAIN Told(tab[t].states)
           /\ \A i \in DOMAIN jobs : i \notin Active => Over(Told(tab[t].states), i)
  BY <1>4, ToldIs
<1> HIDE DEF Listed, Told
<1>6. tab'[t] = next
  BY DEF Hello, TabTypes, TabState
<1>7. /\ next \in TabState /\ next.at = "open" /\ next.known = Listed
      /\ next.states = Told(tab[t].states) /\ next.poll = tab[t].poll
      /\ next.fresh = (tab[t].fresh /\ tab[t].states = <<>>)
  BY <1>2, <1>3, <1>5 DEF TabState
<1> HIDE DEF next
<1>8. next.fresh => DOMAIN tab[t].states = {}
  BY <1>7, EmptyList
<1>9. next.fresh => \A i \in DOMAIN next.known :
        i \in DOMAIN next.states /\ (Over(next.known, i) => Over(next.states, i))
  BY <1>3, <1>5, <1>7, <1>8
<1>10. next.fresh => \A i \in DOMAIN jobs : Learnt(t, i)'
  <2> SUFFICES ASSUME next.fresh, NEW i \in DOMAIN jobs PROVE Learnt(t, i)'
    OBVIOUS
  <2>1. i \in DOMAIN next.states /\ (i \in Active \/ Over(next.states, i))
    BY <1>5, <1>7, <1>8
  <2>2. Tells(tab[t].states, i)'
    BY <1>1, <1>6, <2>1 DEF Tells, Over
  <2> HIDE DEF Tells
  <2> QED BY <2>2 DEF Learnt
<1> HIDE DEF Learnt, Active
<1> QED BY <1>1, <1>2, <1>4, <1>5, <1>6, <1>7, <1>9, <1>10, TabMoves

(* What Learnt leaves to show after a tab folded a list in.                *)
LEMMA FoldedIn ==
  ASSUME NEW t \in Tab, NEW list \in Lists, tab[t] \in TabState,
         tab'[t].states = Observed(tab[t].states, list), Active' = Active, NEW i,
         Tells(tab[t].states, i) \/ Tells(list, i)
  PROVE  Learnt(t, i)'
<1> DEFINE o == Observed(tab[t].states, list)
<1>1. /\ DOMAIN o = DOMAIN tab[t].states \cup DOMAIN list
      /\ Over(o, i) <=> Over(tab[t].states, i) \/ Over(list, i)
  BY ObservedIs DEF TabState
<1> HIDE DEF o
<1>2. i \in DOMAIN o /\ (i \in Active \/ Over(o, i))
  BY <1>1 DEF Tells
<1>3. tab'[t].states = o
  BY DEF o
<1>4. Tells(tab[t].states, i)'
  BY <1>2, <1>3 DEF Tells, Over
<1> HIDE DEF Tells
<1> QED BY <1>4 DEF Learnt

LEMMA JobEventKeeps ==
  ASSUME OrderInv, SnapsOK, TabTypes, NEW t \in Tab, Watched(t), JobEvent(t)
  PROVE  TabTypes' /\ Watched(t)'
<1> DEFINE new == Message(t)
           now == [i \in {new.id} |-> new.state]
           known == [i \in DOMAIN tab[t].known \cup {new.id} |->
                       IF i = new.id THEN new.state ELSE tab[t].known[i]]
           next == [tab[t] EXCEPT !.states = Observed(tab[t].states, now), !.known = known]
           ignored == new.id \in DOMAIN tab[t].known /\ tab[t].known[new.id] = new.state
<1>1. /\ UNCHANGED <<jobs, created>> /\ Active' = Active /\ Sending' = Sending
      /\ \A u \in Tab : u # t => tab'[u] = tab[u]
      /\ OnlyInbox /\ Listening(t)
  BY TabSteps DEF TabStep
<1>2. /\ tab[t] \in TabState /\ DOMAIN tab' = Tab /\ tab' = [u \in Tab |-> tab'[u]]
      /\ tab[t].at = "open" /\ HasMessage(t) /\ Take(t) /\ t \in DOMAIN inbox
      /\ NotAhead(tab[t].states) /\ (tab[t].poll # Nothing => NotAhead(tab[t].poll))
  BY DEF TabTypes, JobEvent, Watched
<1>3. /\ DOMAIN inbox' = DOMAIN inbox /\ new \in Waiting(t)
      /\ Waiting(t) \subseteq Waiting(t)' \cup {new}
      /\ inbox'[t].lagged = inbox[t].lagged
  BY <1>1, <1>2, ListeningIs
<1>4. new \in Snaps /\ new \in Job /\ new.id <= created /\ (Terminal(new) => new.id \notin Active)
  <2>1. new \in Snaps
    BY <1>2, <1>3, WhatIsSaid
  <2>2. new \in Job /\ new.id <= created
    BY <2>1, SaidAreJobs DEF OrderInv, SnapsOK
  <2> QED BY <2>1, <2>2, EndsAreTrue DEF OrderInv
<1>5. new.id \in Ids /\ new.state \in States /\ (Terminal(new) <=> new.state \notin ActiveStates)
  BY <1>4 DEF Job, Terminal, ActiveStates, States
<1>6. now \in Lists /\ NotAhead(now) /\ DOMAIN now = {new.id} /\ (Over(now, new.id) <=> Terminal(new))
  <2>1. now \in Lists
    BY <1>5, ListsAre
  <2> QED BY <1>4, <1>5, <2>1 DEF NotAhead, Over
<1> HIDE DEF new
<1>7. known \in Lists /\ DOMAIN known = DOMAIN tab[t].known \cup {new.id}
      /\ known[new.id] = new.state
      /\ \A i \in DOMAIN tab[t].known : i # new.id => known[i] = tab[t].known[i]
  <2>1. DOMAIN tab[t].known \subseteq Ids /\ \A i \in DOMAIN tab[t].known : tab[t].known[i] \in States
    BY <1>2, ListsAre DEF TabState
  <2>2. DOMAIN known \subseteq Ids /\ known \in [DOMAIN known -> States]
    BY <1>5, <2>1
  <2>3. known \in Lists
    BY <2>2, ListsAre
  <2> QED BY <2>3
<1>8. ASSUME tab[t].fresh, NEW i \in DOMAIN jobs
      PROVE  \/ Tells(tab[t].states, i)
             \/ tab[t].missed
             \/ tab[t].poll # Nothing /\ Tells(tab[t].poll, i)
             \/ inbox'[t].lagged
             \/ \E s \in Sending' \cup Waiting(t)' : s.id = i /\ (i \in Active \/ Terminal(s))
             \/ new.id = i /\ (i \in Active \/ Terminal(new))
  <2>1. Learnt(t, i)
    BY <1>2, <1>8 DEF Watched
  <2> HIDE DEF Waiting, Sending, Active, Tells
  <2> QED BY <1>1, <1>3, <2>1 DEF Learnt
<1>9. CASE ignored
  <2>1. tab' = tab
    BY <1>9 DEF JobEvent, new
  <2>2. tab[t].fresh => Follows(t)
    BY DEF Watched
  <2>3. tab[t].fresh => \A i \in DOMAIN jobs : Learnt(t, i)'
    <3> SUFFICES ASSUME tab[t].fresh, NEW i \in DOMAIN jobs PROVE Learnt(t, i)'
      OBVIOUS
    <3>1. CASE new.id = i /\ (i \in Active \/ Terminal(new))
      <4>1. i \in DOMAIN tab[t].states /\ (Over(tab[t].known, i) => Over(tab[t].states, i))
        BY <1>9, <2>2, <3>1 DEF Follows
      <4>2. Terminal(new) => Over(tab[t].known, i)
        BY <1>5, <1>9, <3>1 DEF Over
      <4>3. Tells(tab[t].states, i)
        BY <3>1, <4>1, <4>2 DEF Tells
      <4>4. Tells(tab[t].states, i)'
        BY <1>1, <2>1, <4>3 DEF Tells, Over
      <4> HIDE DEF Tells
      <4> QED BY <4>4 DEF Learnt
    <3>2. CASE ~(new.id = i /\ (i \in Active \/ Terminal(new)))
      <4>1. Tells(tab[t].states, i) => Tells(tab[t].states, i)'
        BY <1>1, <2>1 DEF Tells, Over
      <4>2. tab[t].poll # Nothing /\ Tells(tab[t].poll, i)
              => (tab[t].poll # Nothing /\ Tells(tab[t].poll, i))'
        BY <1>1, <2>1 DEF Tells, Over
      <4>3. tab'[t].missed = tab[t].missed
        BY <2>1
      <4> HIDE DEF Tells, Active, Waiting, Sending
      <4> QED BY <1>1, <1>8, <3>2, <4>1, <4>2, <4>3 DEF Learnt
    <3> QED BY <3>1, <3>2
  <2> HIDE DEF Learnt, Active
  <2>4. tab'[t] = tab[t]
    BY <2>1
  <2> QED BY <1>1, <1>2, <1>3, <2>2, <2>3, <2>4, TabMoves DEF Follows
<1>10. CASE ~ignored
  <2>1. tab' = [tab EXCEPT ![t] = next]
    BY <1>10 DEF JobEvent, new, TabTypes, TabState
  <2>2. /\ Observed(tab[t].states, now) \in Lists /\ NotAhead(Observed(tab[t].states, now))
        /\ DOMAIN Observed(tab[t].states, now) = DOMAIN tab[t].states \cup DOMAIN now
        /\ \A i : Over(Observed(tab[t].states, now), i) <=> Over(tab[t].states, i) \/ Over(now, i)
    <3>1. tab[t].states \in Lists
      BY <1>2 DEF TabState
    <3> DEFINE known0 == tab[t].states
    <3>2. known0 \in Lists /\ NotAhead(known0) /\ now \in Lists /\ NotAhead(now)
      BY <1>2, <1>6, <3>1
    <3> HIDE DEF known0, now
    <3>3. NotAhead(Observed(known0, now))
      BY <3>2, ObservedNotAhead
    <3>4. /\ Observed(known0, now) \in Lists
          /\ DOMAIN Observed(known0, now) = DOMAIN known0 \cup DOMAIN now
          /\ \A i : Over(Observed(known0, now), i) <=> Over(known0, i) \/ Over(now, i)
      BY <3>2, ObservedIs
    <3> QED BY <3>3, <3>4 DEF known0
  <2> DEFINE o == Observed(tab[t].states, now)
  <2> HIDE DEF now, known, o
  <2>3. /\ next \in TabState /\ next.at = "open" /\ next.states = o /\ next.known = known
        /\ next.poll = tab[t].poll /\ next.fresh = tab[t].fresh
        /\ next.missed = tab[t].missed
    BY <1>2, <1>7, <2>2 DEF TabState, o
  <2>4. tab'[t] = next
    BY <2>1 DEF TabTypes
  <2> HIDE DEF next
  <2>5. next.fresh => \A i \in DOMAIN next.known :
          i \in DOMAIN next.states /\ (Over(next.known, i) => Over(next.states, i))
    <3> SUFFICES ASSUME tab[t].fresh, NEW i \in DOMAIN known
                 PROVE  i \in DOMAIN o /\ (Over(known, i) => Over(o, i))
      BY <2>3
    <3>1. CASE i = new.id
      <4>1. Over(known, i) => Over(now, i)
        BY <1>5, <1>6, <1>7, <3>1 DEF Over
      <4> QED BY <1>6, <2>2, <3>1, <4>1 DEF o
    <3>2. CASE i # new.id
      <4>1. i \in DOMAIN tab[t].known /\ known[i] = tab[t].known[i]
        BY <1>7, <3>2
      <4>2. i \in DOMAIN tab[t].states /\ (Over(tab[t].known, i) => Over(tab[t].states, i))
        BY <4>1 DEF Watched, Follows
      <4> QED BY <2>2, <4>1, <4>2 DEF Over, o
    <3> QED BY <3>1, <3>2
  <2>6. next.fresh => \A i \in DOMAIN jobs : Learnt(t, i)'
    <3> SUFFICES ASSUME tab[t].fresh, NEW i \in DOMAIN jobs PROVE Learnt(t, i)'
      BY <2>3
    <3>1. CASE Tells(tab[t].states, i) \/ Tells(now, i)
      BY <1>1, <1>2, <1>6, <2>3, <2>4, <3>1, FoldedIn DEF o
    <3>2. new.id = i /\ (i \in Active \/ Terminal(new)) => Tells(now, i)
      BY <1>6 DEF Tells
    <3>3. tab[t].poll # Nothing /\ Tells(tab[t].poll, i)
            => (tab[t].poll # Nothing /\ Tells(tab[t].poll, i))'
      BY <1>1, <2>3, <2>4 DEF Tells, Over
    <3> HIDE DEF Tells, Active, Waiting, Sending
    <3>4. tab[t].missed => tab'[t].missed
      BY <2>3, <2>4
    <3> QED BY <1>1, <1>8, <3>1, <3>2, <3>3, <3>4 DEF Learnt
  <2>7. NotAhead(next.states) /\ (next.poll # Nothing => NotAhead(next.poll))
    BY <1>2, <2>2, <2>3 DEF o
  <2> HIDE DEF Learnt, Active
  <2> QED BY <1>1, <1>2, <1>3, <2>3, <2>4, <2>5, <2>6, <2>7, TabMoves
<1> QED BY <1>9, <1>10

LEMMA PollKeeps ==
  ASSUME OrderInv, SnapsOK, TabTypes, NEW t \in Tab, Watched(t),
         Resync(t) \/ PollAnswer(t) \/ PollFails(t)
  PROVE  TabTypes' /\ Watched(t)'
<1>1. /\ UNCHANGED <<jobs, created>> /\ Active' = Active /\ Sending' = Sending
      /\ \A u \in Tab : u # t => tab'[u] = tab[u]
      /\ OnlyInbox /\ Listening(t)
  BY TabSteps DEF TabStep
<1>2. /\ tab[t] \in TabState /\ DOMAIN tab' = Tab /\ tab' = [u \in Tab |-> tab'[u]]
      /\ NotAhead(tab[t].states) /\ (tab[t].poll # Nothing => NotAhead(tab[t].poll))
      /\ (tab[t].at # "open" => DOMAIN tab[t].known = {})
      /\ (tab[t].fresh => Follows(t))
  BY DEF TabTypes, Resync, PollAnswer, PollFails, Watched
<1>3. CASE Resync(t)
  <2> DEFINE next == [tab[t] EXCEPT !.poll = Listed, !.missed = FALSE]
  <2>1. /\ tab[t].at = "open" /\ tab[t].poll = Nothing /\ HasLagged(t) /\ TakeLag(t)
        /\ tab' = [tab EXCEPT ![t].poll = Listed, ![t].missed = FALSE]
    BY <1>3 DEF Resync
  <2>2. /\ Listed \in Lists /\ NotAhead(Listed) /\ DOMAIN Listed = DOMAIN jobs
        /\ \A i \in DOMAIN jobs : Over(Listed, i) <=> i \notin Active
    BY ListedIs
  <2>3. t \in DOMAIN inbox'
    BY <1>1, <2>1, ListeningIs
  <2> HIDE DEF Listed
  <2>4. tab'[t] = next
    BY <2>1 DEF TabTypes
  <2>5. /\ next \in TabState /\ next.at = "open" /\ next.states = tab[t].states
        /\ next.known = tab[t].known /\ next.poll = Listed /\ next.fresh = tab[t].fresh
    BY <1>2, <2>1, <2>2 DEF TabState
  <2> HIDE DEF next
  <2>6. \A i \in DOMAIN jobs : Learnt(t, i)'
    <3> SUFFICES ASSUME NEW i \in DOMAIN jobs PROVE Learnt(t, i)'
      OBVIOUS
    <3>1. tab'[t].poll # Nothing
      BY <2>2, <2>4, <2>5, NothingIsNoList
    <3>2. Tells(tab[t].poll, i)'
      BY <1>1, <2>2, <2>4, <2>5 DEF Tells, Over
    <3> HIDE DEF Tells
    <3> QED BY <3>1, <3>2 DEF Learnt
  <2> HIDE DEF Learnt, Active
  <2> QED BY <1>1, <1>2, <2>2, <2>3, <2>4, <2>5, <2>6, TabMoves DEF Follows
<1>4. CASE PollAnswer(t)
  <2> DEFINE o == Observed(tab[t].states, tab[t].poll)
             next == [tab[t] EXCEPT !.states = o, !.poll = Nothing]
  <2>1. tab[t].poll # Nothing /\ tab[t].poll \in Lists /\ UNCHANGED inbox
    BY <1>2, <1>4 DEF PollAnswer, TabState
  <2>2. tab' = [tab EXCEPT ![t] = next]
    BY <1>4 DEF PollAnswer, TabTypes, TabState
  <2>3. /\ o \in Lists /\ NotAhead(o)
        /\ DOMAIN o = DOMAIN tab[t].states \cup DOMAIN tab[t].poll
        /\ \A i : Over(o, i) <=> Over(tab[t].states, i) \/ Over(tab[t].poll, i)
    BY <1>2, <2>1, ObservedIs, ObservedNotAhead DEF TabState
  <2> HIDE DEF o
  <2>4. /\ next \in TabState /\ next.at = tab[t].at /\ next.states = o
        /\ next.known = tab[t].known /\ next.poll = Nothing /\ next.fresh = tab[t].fresh
        /\ next.missed = tab[t].missed
    BY <1>2, <2>3 DEF TabState
  <2>5. tab'[t] = next
    BY <2>2 DEF TabTypes
  <2> HIDE DEF next
  <2>6. next.fresh => \A i \in DOMAIN next.known :
          i \in DOMAIN next.states /\ (Over(next.known, i) => Over(next.states, i))
    BY <1>2, <2>3, <2>4 DEF Follows
  <2>7. next.fresh /\ next.at = "open" => \A i \in DOMAIN jobs : Learnt(t, i)'
    <3> SUFFICES ASSUME tab[t].fresh, tab[t].at = "open", NEW i \in DOMAIN jobs
                 PROVE  Learnt(t, i)'
      BY <2>4
    <3>1. Learnt(t, i)
      BY DEF Watched
    <3>2. CASE Tells(tab[t].states, i) \/ Tells(tab[t].poll, i)
      BY <1>1, <1>2, <2>1, <2>4, <2>5, <3>2, FoldedIn DEF o
    <3>3. Waiting(t)' = Waiting(t)
      BY <2>1 DEF Waiting, In
    <3>4. tab'[t].missed = tab[t].missed
      BY <2>4, <2>5
    <3> HIDE DEF Tells, Active, Waiting, Sending
    <3> QED BY <1>1, <2>1, <3>1, <3>2, <3>3, <3>4 DEF Learnt
  <2>8. next.at \in {"subscribed", "open"} => t \in DOMAIN inbox'
    BY <2>1, <2>4 DEF Watched
  <2> HIDE DEF Learnt, Active
  <2> QED BY <1>1, <1>2, <2>3, <2>4, <2>5, <2>6, <2>7, <2>8, TabMoves
<1>5. CASE PollFails(t)
  <2> DEFINE next == [tab[t] EXCEPT !.poll = Nothing, !.missed = TRUE]
  <2>1. UNCHANGED inbox
    BY <1>5 DEF PollFails
  <2>2. tab'[t] = next
    BY <1>5 DEF PollFails, TabTypes, TabState
  <2>3. /\ next \in TabState /\ next.at = tab[t].at /\ next.states = tab[t].states
        /\ next.known = tab[t].known /\ next.poll = Nothing /\ next.fresh = tab[t].fresh
        /\ next.missed
    BY <1>2 DEF TabState
  <2> HIDE DEF next
  <2>4. \A i \in DOMAIN jobs : Learnt(t, i)'
    BY <2>2, <2>3 DEF Learnt
  <2>5. next.at \in {"subscribed", "open"} => t \in DOMAIN inbox'
    BY <2>1, <2>3 DEF Watched
  <2>6. next.fresh => \A i \in DOMAIN next.known :
          i \in DOMAIN next.states /\ (Over(next.known, i) => Over(next.states, i))
    BY <1>2, <2>3 DEF Follows
  <2> HIDE DEF Learnt, Active
  <2> QED BY <1>1, <1>2, <2>2, <2>3, <2>4, <2>5, <2>6, TabMoves
<1> QED BY <1>3, <1>4, <1>5

LEMMA DisconnectKeeps ==
  ASSUME OrderInv, SnapsOK, TabTypes, NEW t \in Tab, Watched(t), Disconnect(t)
  PROVE  TabTypes' /\ Watched(t)'
<1> DEFINE next == [tab[t] EXCEPT !.at = "opening", !.known = <<>>]
<1>1. /\ UNCHANGED <<jobs, created>> /\ Active' = Active
      /\ \A u \in Tab : u # t => tab'[u] = tab[u]
  BY TabSteps
<1>2. /\ tab[t] \in TabState /\ DOMAIN tab' = Tab /\ tab' = [u \in Tab |-> tab'[u]]
      /\ NotAhead(tab[t].states) /\ (tab[t].poll # Nothing => NotAhead(tab[t].poll))
      /\ tab' = [tab EXCEPT ![t].at = "opening", ![t].known = <<>>]
  BY DEF TabTypes, Disconnect, Watched
<1>3. tab'[t] = next
  BY <1>2 DEF TabTypes
<1>4. /\ next \in TabState /\ next.at = "opening" /\ next.states = tab[t].states
      /\ DOMAIN next.known = {} /\ next.poll = tab[t].poll
  BY <1>2, EmptyList DEF TabState
<1> HIDE DEF next, Active
<1>5. NotAhead(next.states) /\ (next.poll # Nothing => NotAhead(next.poll))
  BY <1>2, <1>4
<1> QED BY <1>1, <1>2, <1>3, <1>4, <1>5, TabMoves

----------------------------------------------------------------------------
(* All of it, in every state.                                              *)
StreamsInv == OrderInv /\ restarts \in Nat /\ SnapsOK /\ FollowOK /\ TabsOK

LEMMA StreamsStart == AllInit => StreamsInv
<1> SUFFICES ASSUME AllInit PROVE StreamsInv
  OBVIOUS
<1>1. OrderInv /\ restarts \in Nat
  BY OrderStarts DEF AllInit, Init
<1>2. DOMAIN jobs = {} /\ DOMAIN disk = {} /\ DOMAIN inbox = {}
      /\ \A a \in Client \cup Ids : task[a].at = "idle"
  BY DEF AllInit, Init, Idle
<1>3. SnapsOK
  <2>1. Sending = {} /\ InQueues = {} /\ Listings = {}
    BY <1>2 DEF Sending, InQueues, Listings
  <2> QED BY <1>2, <2>1 DEF SnapsOK, Snaps
<1>4. FollowOK
  BY DEF AllInit, StreamsInit, FollowOK, StreamTypes, Followed, NoStream
<1>5. NoTab \in TabState
  BY EmptyList DEF NoTab, TabState
<1>6. TabsOK
  <2>1. /\ TabTypes /\ \A t \in Tab : tab[t] = NoTab
    BY <1>5 DEF AllInit, StreamsInit, TabTypes
  <2>2. NoTab.at = "closed" /\ NoTab.known = <<>> /\ NoTab.states = <<>> /\ NoTab.poll = Nothing
    BY DEF NoTab
  <2> QED BY <2>1, <2>2, EmptyList DEF TabsOK, Watched, NotAhead, Follows
<1> QED BY <1>1, <1>3, <1>4, <1>6 DEF StreamsInv

LEMMA StreamsStep == StreamsInv /\ [StreamsNext]_allVars => StreamsInv'
<1> SUFFICES ASSUME StreamsInv, [StreamsNext]_allVars PROVE StreamsInv'
  OBVIOUS
<1> USE DEF StreamsInv
<1>1. ASSUME OnlyInbox PROVE OrderInv' /\ restarts' \in Nat
  <2>1. UNCHANGED <<jobs, flags, disk, task, published, created, cancels, restarts, failures>>
    BY <1>1 DEF OnlyInbox, counts
  <2>2. JobsInv'
    BY <2>1 DEF OrderInv, JobsInv, TypeOK, IsList, OneAtATime, Active, Executing, CancelWins
  <2>3. Numbered' /\ Threads' /\ Behind' /\ Written'
    BY <2>1 DEF OrderInv, Numbered, Threads, Behind, Written, Current
  <2> QED BY <2>1, <2>2, <2>3 DEF OrderInv
<1>2. ASSUME OnlyInbox, NEW r, Listening(r) PROVE SnapsOK'
  <2>1. UNCHANGED <<jobs, created, disk>>
    BY <1>2 DEF OnlyInbox
  <2>2. Snaps' \subseteq Snaps /\ \A w \in DOMAIN inbox' : inbox'[w] \in Box
    BY <1>2, ListeningIs
  <2> QED BY <2>1, <2>2, SilenceKeepsSnaps
<1>3. \A f \in Follower : f \notin Tab
  BY StreamsAssumption DEF StreamsAssumption
<1>4. CASE JobsStep
  <2>1. Step /\ UNCHANGED <<stream, tab>>
    BY <1>4 DEF JobsStep, streams
  <2>2. OrderInv' /\ restarts' \in Nat
    BY <2>1, OrderStep, RestartsAreCounted DEF Next
  <2>3. SnapsOK'
    BY <2>1, JobsKeepSnaps
  <2>4. StreamTypes' /\ TabTypes'
    BY <2>1 DEF FollowOK, StreamTypes, TabsOK, TabTypes
  <2>5. \A f \in Follower : Followed(f)'
    BY <2>1, JobsAreFollowed DEF FollowOK
  <2>6. \A t \in Tab : Watched(t)'
    BY <2>1, JobsAreWatched DEF TabsOK
  <2> QED BY <2>2, <2>3, <2>4, <2>5, <2>6 DEF FollowOK, TabsOK
<1>5. CASE RestartHub
  <2>1. Restart
    BY <1>5 DEF RestartHub
  <2>2. OrderInv' /\ restarts' \in Nat
    BY <2>1, OrderStep, RestartsAreCounted DEF Next
  <2>3. SnapsOK'
    BY <2>1, RestartKeepsSnaps
  <2>4. FollowOK'
    BY <1>5 DEF RestartHub, FollowOK, StreamTypes, Followed, NoStream
  <2>5. NoTab \in TabState
    BY EmptyList DEF NoTab, TabState
  <2>6. TabTypes' /\ \A t \in Tab : tab'[t] = NoTab
    BY <1>5, <2>5 DEF RestartHub, TabTypes
  <2>7. NoTab.at = "closed" /\ NoTab.known = <<>> /\ NoTab.states = <<>> /\ NoTab.poll = Nothing
    BY DEF NoTab
  <2>8. TabsOK'
    BY <2>6, <2>7, EmptyList DEF TabsOK, Watched, NotAhead, Follows
  <2> QED BY <2>2, <2>3, <2>4, <2>8
<1>6. ASSUME NEW f \in Follower, (\E i \in Ids : Follow(f, i)) \/ FollowerStep(f)
      PROVE  StreamsInv'
  <2>1. /\ StreamTypes' /\ Followed(f)' /\ OnlyInbox /\ Listening(f)
        /\ \A g \in Follower : g # f => stream'[g] = stream[g]
    BY <1>6, FollowerKeeps DEF FollowOK
  <2>2. UNCHANGED tab
    BY <1>6 DEF Follow, FollowerStep, FirstEvent, NextEvent, IgnoreLag
  <2>3. \A g \in Follower : Followed(g)'
    BY <2>1, OthersAreFollowed DEF FollowOK
  <2>4. TabTypes' /\ \A t \in Tab : t # f /\ tab'[t] = tab[t]
    BY <1>3, <2>2 DEF TabsOK, TabTypes
  <2>5. \A t \in Tab : Watched(t)'
    BY <2>1, <2>4, OthersAreWatched DEF TabsOK
  <2> QED BY <1>1, <1>2, <2>1, <2>3, <2>4, <2>5 DEF FollowOK, TabsOK
<1>7. ASSUME NEW t \in Tab, Boot(t) \/ TabStep(t) \/ Disconnect(t)
      PROVE  StreamsInv'
  <2>1. TabTypes /\ Watched(t)
    BY DEF TabsOK
  <2>2. /\ OnlyInbox /\ Listening(t) /\ UNCHANGED stream
        /\ \A u \in Tab : u # t => tab'[u] = tab[u]
    BY <1>7, <2>1, TabSteps
  <2>3. TabTypes' /\ Watched(t)'
    BY <1>7, <2>1, TabOpens, HelloKeeps, JobEventKeeps, PollKeeps, DisconnectKeeps DEF TabStep
  <2>4. \A u \in Tab : Watched(u)'
    BY <2>2, <2>3, OthersAreWatched DEF TabsOK
  <2>5. StreamTypes' /\ \A f \in Follower : f # t /\ stream'[f] = stream[f]
    BY <1>3, <2>2 DEF FollowOK, StreamTypes
  <2>6. \A f \in Follower : Followed(f)'
    BY <2>2, <2>5, OthersAreFollowed DEF FollowOK
  <2> QED BY <1>1, <1>2, <2>2, <2>3, <2>4, <2>5, <2>6 DEF FollowOK, TabsOK
<1>8. CASE UNCHANGED allVars
  <2>1. OnlyInbox /\ UNCHANGED inbox /\ UNCHANGED <<stream, tab>>
    BY <1>8 DEF allVars, vars, streams, OnlyInbox
  <2>2. PICK r : r \notin Follower \cup Tab
    BY NoSetContainsEverything
  <2>3. Listening(r)
    BY <2>1 DEF Listening
  <2>4. StreamTypes' /\ \A f \in Follower : Followed(f)'
    BY <2>1, <2>2, <2>3, OthersAreFollowed DEF FollowOK, StreamTypes
  <2>5. TabTypes' /\ \A t \in Tab : Watched(t)'
    BY <2>1, <2>2, <2>3, OthersAreWatched DEF TabsOK, TabTypes
  <2> QED BY <1>1, <1>2, <2>1, <2>3, <2>4, <2>5 DEF FollowOK, TabsOK
<1> QED BY <1>4, <1>5, <1>6, <1>7, <1>8 DEF StreamsNext

LEMMA StreamsAlways == StreamsSpec => []StreamsInv
BY StreamsStart, StreamsStep, PTL DEF StreamsSpec

(* "The stream ends after the terminal event": a page that follows a job   *)
(* is told its end once everything sent has arrived, unless it fell so far *)
(* behind that messages were dropped (job_events).                         *)
THEOREM EndsAreTold == StreamsSpec => []FollowersAreTold
<1>1. StreamsInv => FollowersAreTold
  <2> SUFFICES ASSUME StreamsInv, NEW f \in Follower, stream[f].at = "open", AllArrived(f)
               PROVE  stream[f].id \in Active \/ stream[f].missed
    BY DEF FollowersAreTold
  <2>1. Due(f)
    BY DEF StreamsInv, FollowOK, Followed
  <2>2. Sending = {} /\ Waiting(f) = {} /\ ~inbox[f].lagged
    BY DEF AllArrived, Sending, Waiting, In
  <2> HIDE DEF Sending, Waiting, Active
  <2> QED BY <2>1, <2>2 DEF Due
<1> QED BY StreamsAlways, <1>1, PTL

(* A tab that learned all it knows from one lifecycle stream takes exactly *)
(* the active job for active once everything sent has arrived, although    *)
(* snapshots come in any order, messages are dropped and the poll that     *)
(* makes up for them is answered late: unless that poll failed             *)
(* (lifecycle.js).                                                         *)
THEOREM FreshTabsAreUpToDate == StreamsSpec => []FreshTabsLearn
<1>1. StreamsInv => FreshTabsLearn
  <2> SUFFICES ASSUME StreamsInv, NEW t \in Tab, Quiet(t), tab[t].fresh, ~tab[t].missed
               PROVE  UpToDate(t)
    BY DEF FreshTabsLearn
  <2>1. Watched(t) /\ tab[t].at = "open" /\ tab[t].poll = Nothing /\ AllArrived(t)
    BY DEF StreamsInv, TabsOK, Quiet
  <2>2. Sending = {} /\ Waiting(t) = {} /\ ~inbox[t].lagged
    BY <2>1 DEF AllArrived, Sending, Waiting, In
  <2>3. \A i \in DOMAIN jobs : Tells(tab[t].states, i)
    <3> HIDE DEF Sending, Waiting, Active
    <3> QED BY <2>1, <2>2 DEF Watched, Learnt
  <2>4. \A i \in DOMAIN tab[t].states : Over(tab[t].states, i) => i \notin Active
    BY <2>1 DEF Watched, NotAhead
  <2>5. Active \subseteq DOMAIN jobs
    BY DEF Active
  <2> HIDE DEF Active
  <2> QED BY <2>3, <2>4, <2>5 DEF UpToDate, Tells, Over
<1> QED BY StreamsAlways, <1>1, PTL

----------------------------------------------------------------------------
(* Sessions and their streams.                                             *)
SessionsInv == HubTypeOK /\ SlotsAreCounted

(* What a connection does is typed, and so is what it is changed to.       *)
Conn == [at : ConnPlaces, session : Nat]

----------------------------------------------------------------------------
(* Sets of connections are finite, and streams are among the holders.      *)
LEMMA SlotSets ==
  /\ IsFiniteSet(Holders) /\ IsFiniteSet(Streams)
  /\ Cardinality(Holders) \in Nat /\ Cardinality(Streams) \in Nat
  /\ Cardinality(Streams) <= Cardinality(Holders)
<1>1. Holders \in SUBSET Connection /\ Streams \in SUBSET Holders
  BY DEF Holders, Streams
<1>2. IsFiniteSet(Connection)
  BY SessionsAssumption DEF SessionsAssumption
<1>3. IsFiniteSet(Holders)
  BY <1>1, <1>2, FS_Subset
<1>4. IsFiniteSet(Streams) /\ Cardinality(Streams) <= Cardinality(Holders)
  BY <1>1, <1>3, FS_Subset
<1> QED BY <1>3, <1>4, FS_CardinalityType

(* Every set of naturals that is not empty has a least element.            *)
LEMMA Least ==
  ASSUME NEW S \in SUBSET Nat, S # {}
  PROVE  \E s \in S : \A t \in S : s <= t
<1> DEFINE Less == {p \in Nat \X Nat : p[1] < p[2]}
<1>1. IsWellFoundedOn(Less, Nat)
  BY NatLessThanWellFounded, Zenon DEF OpToRel
<1> HIDE DEF Less
<1>2. PICK s \in S : \A t \in S : <<t, s>> \notin Less
  BY <1>1, WFMin
<1>3. \A t \in S : ~(t < s)
  BY <1>2 DEF Less
<1> QED BY <1>3

(* The sessions are finitely many.                                         *)
LEMMA FiniteSessions ==
  ASSUME HubTypeOK
  PROVE  IsFiniteSet(sessions)
<1>1. issued \in Nat /\ sessions \in SUBSET (1..issued)
  BY DEF HubTypeOK
<1>2. IsFiniteSet(1..issued)
  BY <1>1, FS_Interval
<1> QED BY <1>1, <1>2, FS_Subset

(* The oldest session is left out when there are too many, so one more is  *)
(* within the limit.                                                       *)
LEMMA RoomForOne ==
  ASSUME HubTypeOK
  PROVE  /\ Kept \in SUBSET sessions
         /\ IsFiniteSet(Kept)
         /\ Cardinality(Kept) \in Nat
         /\ Cardinality(Kept) + 1 <= MaxSessions
<1>1. MaxSessions \in Nat /\ MaxSessions >= 1
  BY SessionsAssumption DEF SessionsAssumption
<1>2. issued \in Nat /\ sessions \in SUBSET (1..issued) /\ Cardinality(sessions) <= MaxSessions
  BY DEF HubTypeOK
<1>3. IsFiniteSet(sessions)
  BY FiniteSessions
<1>4. Alive \in SUBSET sessions
  BY DEF Alive
<1>5. /\ IsFiniteSet(Alive)
      /\ Cardinality(Alive) <= Cardinality(sessions)
  BY <1>3, <1>4, FS_Subset
<1>6. Cardinality(Alive) \in Nat /\ Cardinality(sessions) \in Nat
  BY <1>3, <1>5, FS_CardinalityType
<1>7. CASE Cardinality(Alive) < MaxSessions
  <2>1. Kept = Alive
    BY <1>1, <1>6, <1>7 DEF Kept
  <2> QED BY <1>1, <1>4, <1>5, <1>6, <1>7, <2>1
<1>8. CASE Cardinality(Alive) >= MaxSessions
  <2>1. Alive \in SUBSET Nat /\ Alive # {}
    BY <1>1, <1>2, <1>4, <1>8, FS_EmptySet
  <2>2. PICK old \in Alive : \A s \in Alive : old <= s
    BY <2>1, Least
  <2>3. Kept \in SUBSET (Alive \ {old})
    BY <1>8, <2>1, <2>2 DEF Kept
  <2>4. /\ IsFiniteSet(Alive \ {old})
        /\ Cardinality(Alive \ {old}) = Cardinality(Alive) - 1
    BY <1>5, <2>2, FS_RemoveElement
  <2>5. IsFiniteSet(Kept) /\ Cardinality(Kept) <= Cardinality(Alive) - 1
    BY <2>3, <2>4, FS_Subset
  <2>6. Cardinality(Kept) \in Nat
    BY <2>5, FS_CardinalityType
  <2> QED BY <1>1, <1>2, <1>4, <1>5, <1>6, <2>3, <2>5, <2>6
<1> QED BY <1>1, <1>6, <1>7, <1>8

(* Dropping sessions keeps their type.                                     *)
LEMMA FewerSessions ==
  ASSUME HubTypeOK, NEW S \in SUBSET sessions
  PROVE  S \subseteq 1..issued /\ Cardinality(S) <= MaxSessions
<1>1. issued \in Nat /\ sessions \in SUBSET (1..issued) /\ Cardinality(sessions) <= MaxSessions
  BY DEF HubTypeOK
<1>2. IsFiniteSet(sessions)
  BY FiniteSessions
<1>3. IsFiniteSet(S) /\ Cardinality(S) <= Cardinality(sessions)
  BY <1>2, FS_Subset
<1>4. Cardinality(S) \in Nat /\ Cardinality(sessions) \in Nat /\ MaxSessions \in Nat
  BY <1>2, <1>3, FS_CardinalityType, SessionsAssumption DEF SessionsAssumption
<1> QED BY <1>1, <1>3, <1>4

----------------------------------------------------------------------------
(* The ways in which one connection moves, and what each does to the       *)
(* slots: it stays on its side, takes one, or gives one back.              *)
LEMMA StaysPut ==
  ASSUME SessionsInv, UNCHANGED openStreams,
         Holders' = Holders, Streams' \subseteq Streams
  PROVE  SlotsAreCounted'
<1>1. IsFiniteSet(Streams) /\ Streams' \in SUBSET Streams
  BY SlotSets
<1>2. IsFiniteSet(Streams') /\ Cardinality(Streams') <= Cardinality(Streams)
  BY <1>1, FS_Subset
<1>3. Cardinality(Streams') \in Nat /\ Cardinality(Streams) \in Nat /\ MaxStreams \in Nat
  BY <1>1, <1>2, FS_CardinalityType, SessionsAssumption DEF SessionsAssumption
<1> QED BY <1>2, <1>3 DEF SessionsInv, SlotsAreCounted

LEMMA GivesBack ==
  ASSUME SessionsInv, NEW c \in Holders, openStreams' = openStreams - 1,
         Holders' = Holders \ {c}, Streams' \subseteq Streams
  PROVE  /\ SlotsAreCounted'
         /\ openStreams' \in Nat
<1>1. IsFiniteSet(Holders) /\ IsFiniteSet(Streams)
  BY SlotSets
<1>2. Cardinality(Holders') = Cardinality(Holders) - 1 /\ IsFiniteSet(Holders')
  BY <1>1, FS_RemoveElement
<1>3. IsFiniteSet(Streams') /\ Cardinality(Streams') <= Cardinality(Streams)
  BY <1>1, FS_Subset
<1>4. /\ Cardinality(Streams') \in Nat /\ Cardinality(Streams) \in Nat
      /\ Cardinality(Holders') \in Nat /\ MaxStreams \in Nat
  BY <1>1, <1>2, <1>3, FS_CardinalityType, SessionsAssumption DEF SessionsAssumption
<1> QED BY <1>2, <1>3, <1>4 DEF SessionsInv, SlotsAreCounted
LEMMA TakesOne ==
  ASSUME SessionsInv, NEW c, c \notin Holders, openStreams' = openStreams + 1,
         Holders' = Holders \cup {c},
         Streams' = IF openStreams >= MaxStreams THEN Streams ELSE Streams \cup {c}
  PROVE  SlotsAreCounted' /\ openStreams' \in Nat
<1>1. IsFiniteSet(Holders) /\ IsFiniteSet(Streams)
  BY SlotSets
<1>2. Cardinality(Holders') = Cardinality(Holders) + 1
  BY <1>1, FS_AddElement
<1>3. /\ Cardinality(Streams \cup {c}) <= Cardinality(Streams) + 1
      /\ Cardinality(Holders) \in Nat /\ Cardinality(Streams) \in Nat
      /\ Cardinality(Streams) <= Cardinality(Holders)
  <2>1. Cardinality(Streams \cup {c})
          = IF c \in Streams THEN Cardinality(Streams) ELSE Cardinality(Streams) + 1
    BY <1>1, FS_AddElement
  <2> QED BY <2>1, SlotSets
<1>4. Cardinality(Streams \cup {c}) \in Nat /\ MaxStreams \in Nat
  BY <1>1, FS_AddElement, FS_CardinalityType, SessionsAssumption DEF SessionsAssumption
<1>5. openStreams = Cardinality(Holders) /\ Cardinality(Streams) <= MaxStreams
  BY DEF SessionsInv, SlotsAreCounted
<1>6. CASE openStreams >= MaxStreams
  <2>1. Streams' = Streams
    BY <1>6
  <2> QED BY <1>2, <1>3, <1>5, <2>1 DEF SlotsAreCounted
<1>7. CASE ~(openStreams >= MaxStreams)
  <2>1. Streams' = Streams \cup {c}
    BY <1>7
  <2>2. Cardinality(Streams \cup {c}) <= MaxStreams
    BY <1>3, <1>4, <1>5, <1>7
  <2> QED BY <1>2, <1>3, <1>5, <2>1, <2>2 DEF SlotsAreCounted
<1> QED BY <1>6, <1>7

(* A connection goes to another place, or is over.                         *)
LEMMA Goes ==
  ASSUME HubTypeOK, NEW c \in Connection, NEW at \in ConnPlaces, Go(c, at)
  PROVE  /\ conn' \in [Connection -> Conn]
         /\ conn'[c].at = at
         /\ \A d \in Connection : conn'[d].session = conn[d].session
         /\ \A d \in Connection \ {c} : conn'[d] = conn[d]
BY DEF HubTypeOK, Go, Conn

LEMMA Leaves ==
  ASSUME HubTypeOK, NEW c \in Connection, Leave(c)
  PROVE  /\ conn' \in [Connection -> Conn]
         /\ conn'[c] = NoConn
         /\ \A d \in Connection : conn'[d].session \in {conn[d].session, Bearer}
         /\ \A d \in Connection \ {c} : conn'[d] = conn[d]
BY DEF HubTypeOK, Leave, NoConn, Bearer, Conn, ConnPlaces

(* What a step must show of the sessions and the connections.              *)
LEMMA TypeKept ==
  ASSUME HubTypeOK,
         issued' \in Nat, issued <= issued', lapsed' \in Nat, lapsed' <= issued',
         link' \in {"fresh", "consumed", "expired"}, links' \in Nat,
         sessions' \subseteq sessions, openStreams' \in Nat,
         conn' \in [Connection -> Conn],
         \A c \in Connection : conn'[c].session <= issued'
  PROVE  HubTypeOK'
<1>1. sessions' \subseteq 1..issued /\ Cardinality(sessions') <= MaxSessions
  BY FewerSessions
<1>2. issued \in Nat
  BY DEF HubTypeOK
<1>3. sessions' \subseteq 1..issued'
  BY <1>1, <1>2
<1> QED BY <1>1, <1>3 DEF HubTypeOK, Conn

----------------------------------------------------------------------------
(* The kinds of step of one connection.                                    *)
LEMMA GivingBackKeeps ==
  ASSUME SessionsInv, NEW c \in Connection, conn[c].at \in Admitted \cup {"refused"},
         openStreams' = openStreams - 1, Leave(c), SameSessions
  PROVE  SessionsInv'
<1>1. HubTypeOK
  BY DEF SessionsInv
<1>2. /\ conn' \in [Connection -> Conn]
      /\ conn'[c] = NoConn
      /\ \A d \in Connection : conn'[d].session \in {conn[d].session, Bearer}
      /\ \A d \in Connection \ {c} : conn'[d] = conn[d]
  BY <1>1, Leaves
<1>3. c \in Holders /\ Holders' = Holders \ {c} /\ Streams' \subseteq Streams
  BY <1>2 DEF Holders, Streams, Admitted, NoConn
<1>4. SlotsAreCounted' /\ openStreams' \in Nat
  BY <1>3, GivesBack
<1>5. \A d \in Connection : conn'[d].session <= issued'
  BY <1>1, <1>2 DEF HubTypeOK, SameSessions, Bearer
<1>6. HubTypeOK'
  BY <1>1, <1>2, <1>4, <1>5, TypeKept DEF HubTypeOK, SameSessions
<1> QED BY <1>4, <1>6 DEF SessionsInv

LEMMA StayingKeeps ==
  ASSUME SessionsInv, NEW c \in Connection, conn[c].at \in Admitted,
         NEW at \in Streaming, Go(c, at), sessions' \subseteq sessions,
         UNCHANGED <<issued, lapsed, link, links, openStreams>>
  PROVE  SessionsInv'
<1>1. HubTypeOK /\ at \in ConnPlaces
  BY DEF SessionsInv, Streaming, ConnPlaces
<1>2. /\ conn' \in [Connection -> Conn]
      /\ conn'[c].at = at
      /\ \A d \in Connection : conn'[d].session = conn[d].session
      /\ \A d \in Connection \ {c} : conn'[d] = conn[d]
  BY <1>1, Goes
<1>3. Holders' = Holders /\ Streams' \subseteq Streams
  BY <1>2 DEF Holders, Streams, Admitted, Streaming
<1>4. SlotsAreCounted'
  BY <1>3, StaysPut
<1>5. HubTypeOK'
  BY <1>1, <1>2, TypeKept DEF HubTypeOK
<1> QED BY <1>4, <1>5 DEF SessionsInv

LEMMA ElsewhereKeeps ==
  ASSUME SessionsInv, conn' \in [Connection -> Conn], UNCHANGED openStreams,
         \A c \in Connection :
           (conn'[c].at \in Admitted \cup {"refused"} \/ conn[c].at \in Admitted \cup {"refused"})
             => /\ conn[c].at = "refused" <=> conn'[c].at = "refused"
                /\ conn[c].at \in Admitted <=> conn'[c].at \in Admitted
  PROVE  SlotsAreCounted'
<1>1. Holders' = Holders /\ Streams' = Streams
  BY DEF Holders, Streams
<1> QED BY <1>1, StaysPut

LEMMA SessionRequestKeeps == ASSUME SessionsInv, NEW c \in Connection, Request(c) PROVE SessionsInv'
<1>1. HubTypeOK /\ conn[c].at = "idle"
  BY DEF SessionsInv, Request
<1>2. /\ conn' \in [Connection -> Conn]
      /\ \A d \in Connection : conn'[d].session <= issued
      /\ conn'[c].at \in {"idle", "stream", "logout"}
      /\ \A d \in Connection \ {c} : conn'[d] = conn[d]
      /\ sessions' \subseteq sessions
  <2>1. CASE conn' = [conn EXCEPT ![c].at = "stream"] /\ UNCHANGED sessions
    BY <1>1, <2>1 DEF HubTypeOK, Conn, ConnPlaces
  <2>2. CASE \E s \in Alive, at \in {"stream", "logout"} :
          /\ conn' = [conn EXCEPT ![c] = [at |-> at, session |-> s]]
          /\ UNCHANGED sessions
    <3>1. PICK s \in Alive, at \in {"stream", "logout"} :
            /\ conn' = [conn EXCEPT ![c] = [at |-> at, session |-> s]]
            /\ UNCHANGED sessions
      BY <2>2
    <3>2. s \in Nat /\ s <= issued
      BY <1>1 DEF HubTypeOK, Alive
    <3>3. [at |-> at, session |-> s] \in Conn
      BY <3>2 DEF Conn, ConnPlaces
    <3> QED BY <1>1, <3>1, <3>2, <3>3 DEF HubTypeOK, Conn
  <2>3. CASE \E s \in sessions \ Alive : sessions' = sessions \ {s} /\ UNCHANGED conn
    BY <1>1, <2>3 DEF HubTypeOK, Conn
  <2> QED BY <2>1, <2>2, <2>3 DEF Request
<1>3. UNCHANGED <<issued, lapsed, link, links, openStreams>>
  BY DEF Request
<1>4. SlotsAreCounted'
  BY <1>1, <1>2, <1>3, ElsewhereKeeps DEF Admitted
<1>5. HubTypeOK'
  BY <1>1, <1>2, <1>3, TypeKept DEF HubTypeOK
<1> QED BY <1>4, <1>5 DEF SessionsInv

LEMMA LogoutKeeps ==
  ASSUME SessionsInv, NEW c \in Connection, Revoke(c) \/ NotifyWaiters(c)
  PROVE  SessionsInv'
<1>1. HubTypeOK
  BY DEF SessionsInv
<1>2. CASE Revoke(c)
  <2>1. /\ conn[c].at = "logout" /\ Go(c, "notify") /\ sessions' \subseteq sessions
        /\ UNCHANGED <<issued, lapsed, link, links, openStreams>>
    BY <1>2 DEF Revoke
  <2>2. /\ conn' \in [Connection -> Conn]
        /\ conn'[c].at = "notify"
        /\ \A d \in Connection : conn'[d].session = conn[d].session
        /\ \A d \in Connection \ {c} : conn'[d] = conn[d]
    BY <1>1, <2>1, Goes DEF ConnPlaces
  <2>3. SlotsAreCounted'
    BY <2>1, <2>2, ElsewhereKeeps DEF Admitted
  <2>4. HubTypeOK'
    BY <1>1, <2>1, <2>2, TypeKept DEF HubTypeOK
  <2> QED BY <2>3, <2>4 DEF SessionsInv
<1>3. CASE NotifyWaiters(c)
  <2>1. /\ conn[c].at = "notify"
        /\ UNCHANGED <<sessions, issued, lapsed, link, links, openStreams>>
    BY <1>3 DEF NotifyWaiters, SameSessions
  <2>2. \A d \in Connection :
          /\ [conn[d] EXCEPT !.at = "woken"] \in Conn
          /\ [conn[d] EXCEPT !.at = "woken"].at = "woken"
          /\ [conn[d] EXCEPT !.at = "woken"].session = conn[d].session
    BY <1>1 DEF HubTypeOK, Conn, ConnPlaces
  <2>3. /\ conn' \in [Connection -> Conn]
        /\ conn'[c] = NoConn
        /\ \A d \in Connection \ {c} :
             conn'[d] = IF conn[d].at = "waiting" THEN [conn[d] EXCEPT !.at = "woken"] ELSE conn[d]
    BY <1>1, <1>3, <2>2 DEF NotifyWaiters, HubTypeOK, Conn, ConnPlaces, NoConn, Bearer
  <2>4. \A d \in Connection : conn'[d].session <= issued
    BY <1>1, <2>2, <2>3 DEF HubTypeOK, NoConn, Bearer
  <2>5. SlotsAreCounted'
    <3>1. \A d \in Connection \ {c} :
            \/ conn'[d] = conn[d]
            \/ conn[d].at = "waiting" /\ conn'[d].at = "woken"
      BY <2>2, <2>3
    <3> QED BY <2>1, <2>3, <3>1, ElsewhereKeeps DEF Admitted, NoConn
  <2>6. HubTypeOK'
    BY <1>1, <2>1, <2>3, <2>4, TypeKept DEF HubTypeOK
  <2> QED BY <2>5, <2>6 DEF SessionsInv
<1> QED BY <1>2, <1>3

LEMMA AcquireKeeps ==
  ASSUME SessionsInv, NEW c \in Connection, AcquireStream(c)
  PROVE  SessionsInv'
<1> DEFINE at == IF openStreams >= MaxStreams THEN "refused" ELSE "reserved"
<1>1. HubTypeOK /\ conn[c].at = "stream" /\ openStreams' = openStreams + 1
  BY DEF SessionsInv, AcquireStream
<1>2. at \in ConnPlaces /\ Go(c, at)
  BY DEF AcquireStream, ConnPlaces
<1>3. /\ conn' \in [Connection -> Conn]
      /\ conn'[c].at = at
      /\ \A d \in Connection : conn'[d].session = conn[d].session
      /\ \A d \in Connection \ {c} : conn'[d] = conn[d]
  BY <1>1, <1>2, Goes
<1>4. /\ c \notin Holders
      /\ Holders' = Holders \cup {c}
      /\ Streams' = IF openStreams >= MaxStreams THEN Streams ELSE Streams \cup {c}
  BY <1>1, <1>3 DEF Holders, Streams, Admitted
<1>5. SlotsAreCounted' /\ openStreams' \in Nat
  BY <1>1, <1>4, TakesOne
<1>6. HubTypeOK'
  BY <1>1, <1>3, <1>5, TypeKept DEF HubTypeOK, AcquireStream, SameSessions
<1> QED BY <1>5, <1>6 DEF SessionsInv

LEMMA CheckKeeps ==
  ASSUME SessionsInv, NEW c \in Connection, conn[c].at \in Streaming, CheckSession(c)
  PROVE  SessionsInv'
<1>1. PICK at \in {"waiting", "ending"} : Go(c, at)
  BY DEF CheckSession
<1>2. /\ sessions' \subseteq sessions
      /\ UNCHANGED <<issued, lapsed, link, links, openStreams>>
  BY DEF CheckSession
<1>3. at \in Streaming /\ conn[c].at \in Admitted
  BY DEF Streaming, Admitted
<1> QED BY <1>1, <1>2, <1>3, StayingKeeps

LEMMA ExchangeKeeps == ASSUME SessionsInv, Exchange PROVE SessionsInv'
<1>1. HubTypeOK /\ issued \in Nat /\ issued' = issued + 1
  BY DEF SessionsInv, Exchange, HubTypeOK
<1>2. sessions' = Kept \cup {issued + 1}
  BY DEF Exchange
<1>3. /\ Kept \in SUBSET sessions
      /\ IsFiniteSet(Kept)
      /\ Cardinality(Kept) \in Nat
      /\ Cardinality(Kept) + 1 <= MaxSessions
  BY <1>1, RoomForOne
<1>4. Cardinality(sessions') <= MaxSessions
  <2>1. Cardinality(sessions')
          = IF issued + 1 \in Kept THEN Cardinality(Kept) ELSE Cardinality(Kept) + 1
    BY <1>2, <1>3, FS_AddElement
  <2>2. MaxSessions \in Nat
    BY SessionsAssumption DEF SessionsAssumption
  <2> QED BY <1>3, <2>1, <2>2
<1>5. sessions' \subseteq 1..issued'
  BY <1>1, <1>2, <1>3 DEF HubTypeOK
<1>6. UNCHANGED <<lapsed, links, openStreams, conn>> /\ link' \in {link, "consumed"}
  BY DEF Exchange
<1>7. HubTypeOK'
  BY <1>1, <1>4, <1>5, <1>6 DEF HubTypeOK
<1>8. SlotsAreCounted'
  BY <1>6 DEF SessionsInv, SlotsAreCounted, Holders, Streams
<1> QED BY <1>7, <1>8 DEF SessionsInv

----------------------------------------------------------------------------
(* Every step keeps the invariant.                                         *)
LEMMA ServeKeeps == ASSUME SessionsInv, NEW c \in Connection, Serve(c) PROVE SessionsInv'
<1>1. CASE Request(c)
  BY <1>1, SessionRequestKeeps
<1>2. CASE Revoke(c) \/ NotifyWaiters(c)
  BY <1>2, LogoutKeeps
<1>3. CASE AcquireStream(c)
  BY <1>3, AcquireKeeps
<1>4. CASE Refuse(c) \/ DropStream(c) \/ EndStream(c)
  BY <1>4, GivingBackKeeps DEF Refuse, DropStream, EndStream, Admitted
<1>5. CASE StartStream(c) \/ Resume(c) \/ Item(c)
  <2>1. PICK at \in {"waiting", "yielding"} : Go(c, at)
    BY <1>5 DEF StartStream, Resume, Item
  <2>2. /\ conn[c].at \in Admitted /\ at \in Streaming
        /\ UNCHANGED <<sessions, issued, lapsed, link, links, openStreams>>
    BY <1>5 DEF StartStream, Resume, Item, Admitted, Streaming, SameSessions
  <2> QED BY <2>1, <2>2, StayingKeeps
<1>6. CASE Tick(c) \/ Notified(c)
  BY <1>6, CheckKeeps DEF Tick, Notified, Streaming
<1> QED BY <1>1, <1>2, <1>3, <1>4, <1>5, <1>6 DEF Serve, Proceed

LEMMA SessionsStepKeeps == ASSUME SessionsInv, [HubNext]_hubVars PROVE SessionsInv'
<1>1. HubTypeOK
  BY DEF SessionsInv
<1>2. CASE Exchange
  BY <1>2, ExchangeKeeps
<1>3. CASE RotateBootstrap \/ LinkExpires \/ SessionExpires
  <2>1. UNCHANGED <<sessions, issued, openStreams, conn>>
    BY <1>3 DEF RotateBootstrap, LinkExpires, SessionExpires
  <2>2. HubTypeOK'
    BY <1>1, <1>3, <2>1 DEF HubTypeOK, RotateBootstrap, LinkExpires, SessionExpires
  <2>3. SlotsAreCounted'
    BY <2>1 DEF SessionsInv, SlotsAreCounted, Holders, Streams
  <2> QED BY <2>2, <2>3 DEF SessionsInv
<1>4. CASE \E c \in Connection : Serve(c)
  BY <1>4, ServeKeeps
<1>5. CASE UNCHANGED hubVars
  BY <1>5 DEF SessionsInv, HubTypeOK, SlotsAreCounted, Holders, Streams, hubVars
<1> QED BY <1>2, <1>3, <1>4, <1>5 DEF HubNext

LEMMA SessionsStart == HubInit => SessionsInv
<1> SUFFICES ASSUME HubInit PROVE SessionsInv
  OBVIOUS
<1>1. Holders = {} /\ Streams = {}
  BY DEF HubInit, Holders, Streams, Admitted, NoConn
<1>2. Cardinality({}) = 0 /\ MaxStreams \in Nat /\ MaxSessions \in Nat
  BY FS_EmptySet, SessionsAssumption DEF SessionsAssumption
<1>3. SlotsAreCounted
  BY <1>1, <1>2 DEF HubInit, SlotsAreCounted
<1>4. HubTypeOK
  BY <1>2 DEF HubInit, HubTypeOK, NoConn, Bearer, ConnPlaces
<1> QED BY <1>3, <1>4 DEF SessionsInv

(* The session table, the bootstrap link and what every connection does    *)
(* keep their types, and no more sessions are kept than MAX_SESSIONS       *)
(* (exchange).                                                             *)
THEOREM SessionsTypeCorrect == HubSpec => []HubTypeOK
<1>1. SessionsInv => HubTypeOK
  BY DEF SessionsInv
<1> QED BY SessionsStart, SessionsStepKeeps, <1>1, PTL DEF HubSpec

(* The counter is the number of slots held and the limit of open streams   *)
(* is kept, however many requests arrive at once (acquire_stream).         *)
THEOREM SlotsStayCounted == HubSpec => []SlotsAreCounted
<1>1. SessionsInv => SlotsAreCounted
  BY DEF SessionsInv
<1> QED BY SessionsStart, SessionsStepKeeps, <1>1, PTL DEF HubSpec

----------------------------------------------------------------------------
(* Where an action may be: it works or opens its transcript, has named it, *)
(* runs its session, or is done, or its thread is lost.  An agent has      *)
(* processes only while it is watched, cleaned up after or left unwatched. *)
Session == {"preparing", "installing", "spawning", "watching", "looked", "reaping",
            "joining", "reporting", "settling", "unwatched"}
Holding == {"watching", "looked", "reaping", "joining", "unwatched"}
Done == {"closing", "over"}
Action == [at : {"working", "lost", "opening", "naming"} \cup Session \cup Done,
           result : {"none", "failed", "cancelled", "exited"},
           procs : SUBSET Processes]

Run(n) == [status : {"idle", "running", "succeeded", "failed", "cancelled", "paused"},
           action : Actions \cup {"none", "commit"}, transcript : 0..n]
Transcript(n) == [of : 0..n, last : Nat, done : BOOLEAN]
Page(n) == [at : {"closed", "following", "told"}, of : 0..n, cursor : Nat]

SetupTypeOK ==
  /\ worker \in Seq(Action)
  /\ run \in Run(Len(worker))
  /\ transcript \in Transcript(Len(worker))
  /\ page \in Page(Len(worker))
  /\ asked \in [Visitor -> Requests \cup {"nothing"}]
  /\ cancelFlag \in BOOLEAN /\ overtaken \in BOOLEAN /\ mistaken \in BOOLEAN

(* An action at work is the last begun and has the run; from its naming on *)
(* its transcript is the one there is, and then the one the run names; and *)
(* processes are those of an agent that is watched or cleaned up after,    *)
(* which has ended in some way by then.                                    *)
OfAction(i) ==
  /\ worker[i].at \notin Done => i = Len(worker) /\ run.status = "running"
  /\ worker[i].at \in Session => run.transcript = i
  /\ worker[i].at \in {"naming"} \cup Session => transcript.of = i
  /\ worker[i].procs # {} => worker[i].at \in Holding
  /\ worker[i].at \in {"reaping", "joining", "reporting", "settling"} =>
       worker[i].result # "none"

(* A transcript that is done is that of an action that is over, and a page *)
(* that was told so is at its end.                                         *)
OfTranscript ==
  transcript.done /\ ~mistaken =>
    transcript.of \in DOMAIN worker /\ worker[transcript.of].at = "over"
OfPage ==
  page.at = "told" /\ ~mistaken =>
    /\ page.of \in DOMAIN worker /\ worker[page.of].at = "over"
    /\ transcript.of = page.of => transcript.done /\ page.cursor = transcript.last

SetupWork == (\A i \in DOMAIN worker : OfAction(i)) /\ OfTranscript /\ OfPage
SetupInv == SetupTypeOK /\ (overtaken \/ SetupWork)

----------------------------------------------------------------------------
(* One action changes, and the others stay as they are.                    *)
LEMMA Changes ==
  ASSUME SetupTypeOK, NEW i \in DOMAIN worker, NEW new \in Action,
         worker' = [worker EXCEPT ![i] = new]
  PROVE  /\ worker' \in Seq(Action)
         /\ Len(worker') = Len(worker)
         /\ DOMAIN worker' = DOMAIN worker
         /\ worker'[i] = new
         /\ \A j \in DOMAIN worker \ {i} : worker'[j] = worker[j]
  BY DEF SetupTypeOK

LEMMA SetupStarts == SetupInit => SetupInv
<1> SUFFICES ASSUME SetupInit PROVE SetupInv
  OBVIOUS
<1>1. worker \in Seq(Action) /\ Len(worker) = 0 /\ DOMAIN worker = {}
  BY DEF SetupInit
<1>2. run \in Run(Len(worker)) /\ transcript \in Transcript(Len(worker))
  BY <1>1 DEF SetupInit, Run, Transcript
<1>3. page \in Page(Len(worker))
  BY <1>1 DEF SetupInit, NoPage, Page
<1>4. asked \in [Visitor -> Requests \cup {"nothing"}]
  BY DEF SetupInit
<1>5. SetupTypeOK
  BY <1>1, <1>2, <1>3, <1>4 DEF SetupInit, SetupTypeOK
<1>6. SetupWork
  BY <1>1 DEF SetupInit, SetupWork, OfTranscript, OfPage, NoPage
<1> QED BY <1>5, <1>6 DEF SetupInv

(* Beginning an action: whoever was at work is done.                       *)
LEMMA SetupBegins ==
  ASSUME SetupInv, ~overtaken, NEW action \in Actions, BeginAction(action)
  PROVE  SetupInv'
<1> DEFINE n == Len(worker) + 1
<1>1. SetupTypeOK /\ SetupWork
  BY DEF SetupInv
<1>2. Begun(action) \in Action
  BY DEF Begun, Action
<1>3. /\ worker' \in Seq(Action) /\ Len(worker') = n /\ DOMAIN worker' = 1..n
      /\ worker'[n] = Begun(action)
      /\ \A j \in DOMAIN worker : worker'[j] = worker[j]
  BY <1>1, <1>2 DEF BeginAction, SetupTypeOK
<1>4. SetupTypeOK'
  <2>1. run' \in Run(n)
    <3>1. run.transcript \in 0..n /\ run.action \in Actions \cup {"none", "commit"}
      BY <1>1 DEF SetupTypeOK, Run
    <3> QED BY <1>1, <3>1 DEF BeginAction, SetupTypeOK, Run
  <2>2. transcript' \in Transcript(n) /\ page' \in Page(n)
    BY <1>1 DEF BeginAction, SetupTypeOK, Transcript, Page
  <2> QED BY <1>1, <1>3, <2>1, <2>2 DEF BeginAction, SetupTypeOK, SameHistory
<1>5. ASSUME NEW i \in DOMAIN worker' PROVE OfAction(i)'
  <2>1. CASE i = n
    BY <1>1, <1>3, <2>1 DEF BeginAction, OfAction, Begun, Session, Holding, Done,
       SetupTypeOK, Run
  <2>2. CASE i # n
    <3>1. i \in DOMAIN worker /\ OfAction(i) /\ worker'[i] = worker[i]
      BY <1>1, <1>3, <1>5, <2>2 DEF SetupWork, SetupTypeOK
    <3>2. worker[i].at \in Done
      BY <3>1 DEF OfAction, BeginAction
    <3> QED BY <3>1, <3>2 DEF OfAction, Session, Done
  <2> QED BY <2>1, <2>2
<1>6. OfTranscript' /\ OfPage'
  BY <1>1, <1>3 DEF SetupWork, OfTranscript, OfPage, BeginAction, SameHistory, SetupTypeOK
<1> QED BY <1>4, <1>5, <1>6 DEF SetupInv, SetupWork

(* A step of one session that leaves the run alone and pushes an entry or  *)
(* none: nobody else is at work, and the transcript is not done.           *)
LEMMA SessionKeeps ==
  ASSUME SetupInv, ~overtaken, NEW i \in DOMAIN worker, NEW new \in Action,
         worker[i].at \in Session, new.at \in Session,
         worker' = [worker EXCEPT ![i] = new],
         new.procs # {} => new.at \in Holding,
         new.at \in {"reaping", "joining", "reporting", "settling"} => new.result # "none",
         transcript' \in {transcript, Pushed}, cancelFlag' \in BOOLEAN,
         UNCHANGED <<run, asked, page, overtaken, mistaken>>
  PROVE  SetupInv'
<1>1. SetupTypeOK /\ SetupWork
  BY DEF SetupInv
<1>2. /\ worker' \in Seq(Action) /\ Len(worker') = Len(worker)
      /\ DOMAIN worker' = DOMAIN worker /\ worker'[i] = new
      /\ \A j \in DOMAIN worker \ {i} : worker'[j] = worker[j]
  BY <1>1, Changes
<1>3. i \in Nat /\ transcript.of = i /\ worker[i].at \notin Done
  BY <1>1 DEF SetupWork, OfAction, Session, Done, SetupTypeOK
<1>4. ~transcript.done \/ mistaken
  BY <1>1, <1>3 DEF SetupWork, OfTranscript, Done
<1>5. transcript' \in Transcript(Len(worker)) /\ transcript'.of = i
      /\ transcript'.done = transcript.done
  BY <1>1, <1>3 DEF SetupTypeOK, Transcript, Pushed
<1>6. SetupTypeOK'
  BY <1>1, <1>2, <1>5 DEF SetupTypeOK
<1>7. ASSUME NEW j \in DOMAIN worker' PROVE OfAction(j)'
  <2>1. OfAction(j) /\ OfAction(i)
    BY <1>1, <1>2 DEF SetupWork
  <2>2. CASE j = i
    BY <1>2, <1>3, <1>5, <2>1, <2>2 DEF OfAction, Session, Holding, Done
  <2>3. CASE j # i
    BY <1>2, <1>3, <1>5, <2>1, <2>3 DEF OfAction, Session, Holding, Done
  <2> QED BY <2>2, <2>3
<1>8. OfTranscript'
  BY <1>4, <1>5 DEF OfTranscript
<1>9. OfPage'
  BY <1>1, <1>2, <1>3, <1>5 DEF SetupWork, OfPage, Done
<1> QED BY <1>6, <1>7, <1>8, <1>9 DEF SetupInv, SetupWork

(* The steps of a session and of its agent's processes.                    *)
LEMMA SessionStepKeeps ==
  ASSUME SetupInv, ~overtaken, NEW i \in DOMAIN worker,
         \/ LoseSession(i)
         \/ PreparePrompt(i) \/ InstallGuard(i) \/ SpawnAgent(i) \/ ReceiveLine(i)
         \/ SeeCancel(i) \/ LookPast(i) \/ SeeTimeout(i) \/ SeeExit(i)
         \/ ReapGroup(i) \/ JoinReaders(i)
         \/ PushOutcome(i) \/ ForkHelper(i) \/ \E p \in Processes : ExitProcess(i, p)
  PROVE  SetupInv'
<1>1. worker[i] \in Action /\ worker \in Seq(Action) /\ cancelFlag \in BOOLEAN /\ OfAction(i)
  BY DEF SetupInv, SetupTypeOK, SetupWork
<1>2. worker[i].procs \in SUBSET Processes /\ worker[i].procs \ Group \in SUBSET Processes
  BY <1>1 DEF Action
<1> DEFINE Moved(new) == /\ new \in Action
                         /\ worker' = [worker EXCEPT ![i] = new]
                         /\ worker[i].at \in Session /\ new.at \in Session
                         /\ new.procs # {} => new.at \in Holding
                         /\ new.at \in {"reaping", "joining", "reporting", "settling"} =>
                              new.result # "none"
<1>3. UNCHANGED <<run, asked, page, overtaken, mistaken>> /\ cancelFlag' \in BOOLEAN
  BY <1>1 DEF PreparePrompt, InstallGuard, SpawnAgent, ReceiveLine, SeeCancel, LookPast,
     SeeTimeout, SeeExit, LoseSession, ReapGroup, JoinReaders, PushOutcome, ForkHelper, ExitProcess, SameHistory
<1>4. transcript' \in {transcript, Pushed}
  BY DEF PreparePrompt, InstallGuard, SpawnAgent, ReceiveLine, SeeCancel, LookPast,
     SeeTimeout, SeeExit, LoseSession, ReapGroup, JoinReaders, PushOutcome, ForkHelper, ExitProcess
<1>5. \E new \in Action : Moved(new)
  <2>1. CASE PreparePrompt(i)
    <3>1. CASE Onto(i, "installing")
      <4>1. Moved([worker[i] EXCEPT !.at = "installing"])
        BY <1>1, <1>2, <2>1, <3>1 DEF PreparePrompt, Onto, Action, Session, Holding, OfAction
      <4> QED BY <4>1
    <3>2. CASE Resulting(i, "reporting", "failed")
      <4>1. Moved([worker[i] EXCEPT !.at = "reporting", !.result = "failed"])
        BY <1>1, <1>2, <2>1, <3>2 DEF PreparePrompt, Resulting, Action, Session, Holding, OfAction
      <4> QED BY <4>1
    <3> QED BY <2>1, <3>1, <3>2 DEF PreparePrompt
  <2>2. CASE InstallGuard(i)
    <3>1. Moved([worker[i] EXCEPT !.at = "spawning"])
      BY <1>1, <1>2, <2>2 DEF InstallGuard, Onto, Action, Session, Holding, OfAction
    <3> QED BY <3>1
  <2>3. CASE SpawnAgent(i)
    <3>1. ASSUME NEW place \in {"watching", "unwatched"},
                 worker' = [worker EXCEPT ![i].at = place, ![i].procs = {"main"}]
          PROVE  \E new \in Action : Moved(new)
      <4>1. Moved([worker[i] EXCEPT !.at = place, !.procs = {"main"}])
        BY <1>1, <1>2, <2>3, <3>1 DEF SpawnAgent, Processes, Group, Action, Session, Holding, OfAction
      <4> QED BY <4>1
    <3>2. CASE Resulting(i, "reporting", "failed")
      <4>1. Moved([worker[i] EXCEPT !.at = "reporting", !.result = "failed"])
        BY <1>1, <1>2, <2>3, <3>2 DEF SpawnAgent, Resulting, Action, Session, Holding, OfAction
      <4> QED BY <4>1
    <3> QED BY <2>3, <3>1, <3>2 DEF SpawnAgent
  <2>4. CASE ReceiveLine(i)
    <3>1. Moved(worker[i])
      BY <1>1, <1>2, <2>4 DEF ReceiveLine, Action, Session, Holding, OfAction
    <3> QED BY <3>1
  <2>5. CASE SeeCancel(i)
    <3> DEFINE new == [worker[i] EXCEPT !.at = "reaping", !.result = "cancelled", !.procs = @ \ Group]
    <3>1. new \in Action /\ new.at = "reaping" /\ new.result = "cancelled"
      BY <1>1, <1>2 DEF Action, Session
    <3>2. worker' = [worker EXCEPT ![i] = new]
      BY <1>1, <2>5 DEF SeeCancel, Terminate, Action
    <3>3. worker[i].at \in Session
      BY <1>1, <2>5 DEF SeeCancel, Session, Holding, OfAction
    <3> HIDE DEF new
    <3>4. Moved(new)
      BY <3>1, <3>2, <3>3 DEF Session, Holding
    <3> QED BY <3>1, <3>4
  <2>6. CASE SeeTimeout(i)
    <3> DEFINE new == [worker[i] EXCEPT !.at = "reaping", !.result = "failed", !.procs = @ \ Group]
    <3>1. new \in Action /\ new.at = "reaping" /\ new.result = "failed"
      BY <1>1, <1>2 DEF Action, Session
    <3>2. worker' = [worker EXCEPT ![i] = new]
      BY <1>1, <2>6 DEF SeeTimeout, Terminate, Action
    <3>3. worker[i].at \in Session
      BY <1>1, <2>6 DEF SeeTimeout, Session, Holding, OfAction
    <3> HIDE DEF new
    <3>4. Moved(new)
      BY <3>1, <3>2, <3>3 DEF Session, Holding
    <3> QED BY <3>1, <3>4
  <2>7. CASE SeeExit(i)
    <3>1. Moved([worker[i] EXCEPT !.at = "reaping", !.result = "exited"])
      BY <1>1, <1>2, <2>7 DEF SeeExit, Resulting, Action, Session, Holding, OfAction
    <3> QED BY <3>1
  <2>8. CASE ReapGroup(i)
    <3> DEFINE new == [worker[i] EXCEPT !.at = "joining", !.procs = @ \ Group]
    <3>1. new \in Action /\ new.at = "joining" /\ new.result = worker[i].result
      BY <1>1, <1>2 DEF Action, Session
    <3>2. worker' = [worker EXCEPT ![i] = new]
      BY <1>1, <2>8 DEF ReapGroup, Action
    <3>3. worker[i].at \in Session /\ worker[i].result # "none"
      BY <1>1, <2>8 DEF ReapGroup, Session, Holding, OfAction
    <3> HIDE DEF new
    <3>4. Moved(new)
      BY <3>1, <3>2, <3>3 DEF Session, Holding
    <3> QED BY <3>1, <3>4
  <2>9. CASE JoinReaders(i)
    <3>1. Moved([worker[i] EXCEPT !.at = "reporting"])
      BY <1>1, <1>2, <2>9 DEF JoinReaders, Onto, Action, Session, Holding, OfAction
    <3> QED BY <3>1
  <2>10. CASE PushOutcome(i)
    <3>1. Moved([worker[i] EXCEPT !.at = "settling"])
      BY <1>1, <1>2, <2>10 DEF PushOutcome, Onto, Action, Session, Holding, OfAction
    <3> QED BY <3>1
  <2>11. CASE ForkHelper(i)
    <3>1. PICK p \in Processes : worker' = [worker EXCEPT ![i].procs = @ \cup {p}]
      BY <2>11 DEF ForkHelper
    <3>2. worker[i].procs # {}
      BY <2>11 DEF ForkHelper
    <3>3. Moved([worker[i] EXCEPT !.procs = @ \cup {p}])
      BY <1>1, <1>2, <3>1, <3>2 DEF Action, Session, Holding, OfAction
    <3> QED BY <3>3
  <2>12. ASSUME NEW p \in Processes, ExitProcess(i, p) PROVE \E new \in Action : Moved(new)
    <3>1. Moved([worker[i] EXCEPT !.procs = @ \ {p}])
      BY <1>1, <1>2, <2>12 DEF ExitProcess, Action, Session, Holding, OfAction
    <3> QED BY <3>1
  <2>13. CASE LookPast(i)
    <3>1. Moved([worker[i] EXCEPT !.at = "looked"])
      BY <1>1, <1>2, <2>13 DEF LookPast, Onto, Action, Session, Holding, OfAction
    <3> QED BY <3>1
  <2>14. CASE LoseSession(i)
    <3>1. Moved([worker[i] EXCEPT !.at = "unwatched"])
      BY <1>1, <1>2, <2>14 DEF LoseSession, Onto, Action, Session, Holding, OfAction
    <3> QED BY <3>1
  <2> QED BY <2>1, <2>2, <2>3, <2>4, <2>5, <2>6, <2>7, <2>8, <2>9, <2>10, <2>11, <2>12,
             <2>13, <2>14
<1> QED BY <1>3, <1>4, <1>5, SessionKeeps

(* The other steps of an action: it takes a transcript and names it, and   *)
(* ends, population in two steps.                                          *)
LEMMA ActionKeeps ==
  ASSUME SetupInv, ~overtaken, NEW i \in DOMAIN worker,
         EndWork(i) \/ LoseWork(i) \/ StartTranscript(i) \/ NameTranscript(i)
           \/ SettleRun(i) \/ FinishTranscript(i)
  PROVE  SetupInv'
<1>1. SetupTypeOK /\ SetupWork /\ OfAction(i) /\ worker[i] \in Action /\ i \in 1..Len(worker)
  BY DEF SetupInv, SetupTypeOK, SetupWork
<1>2. PICK new \in Action :
        /\ worker' = [worker EXCEPT ![i] = new]
        /\ new.procs = worker[i].procs
        /\ EndWork(i) => new.at = "over"
        /\ LoseWork(i) => new.at = "lost"
        /\ StartTranscript(i) => new.at = "naming"
        /\ NameTranscript(i) => new.at = "preparing"
        /\ SettleRun(i) => new.at = "closing"
        /\ FinishTranscript(i) => new.at = "over"
  <2>1. CASE EndWork(i)
    <3>1. [worker[i] EXCEPT !.at = "over"] \in Action
      BY <1>1 DEF Action, Session, Done
    <3> QED BY <1>1, <2>1, <3>1 DEF Action, Onto, EndWork,
            LoseWork, StartTranscript, NameTranscript, SettleRun, FinishTranscript
  <2>2. CASE StartTranscript(i)
    <3>1. [worker[i] EXCEPT !.at = "naming"] \in Action
      BY <1>1 DEF Action, Session, Done
    <3> QED BY <1>1, <2>2, <3>1 DEF Action, Onto, StartTranscript,
            EndWork, LoseWork, NameTranscript, SettleRun, FinishTranscript
  <2>3. CASE NameTranscript(i)
    <3>1. [worker[i] EXCEPT !.at = "preparing"] \in Action
      BY <1>1 DEF Action, Session, Done
    <3> QED BY <1>1, <2>3, <3>1 DEF Action, Onto, NameTranscript,
            EndWork, LoseWork, StartTranscript, SettleRun, FinishTranscript
  <2>4. CASE SettleRun(i)
    <3>1. [worker[i] EXCEPT !.at = "closing"] \in Action
      BY <1>1 DEF Action, Session, Done
    <3> QED BY <1>1, <2>4, <3>1 DEF Action, Onto, SettleRun,
            EndWork, LoseWork, StartTranscript, NameTranscript, FinishTranscript
  <2>5. CASE FinishTranscript(i)
    <3>1. [worker[i] EXCEPT !.at = "over", !.result = "none"] \in Action
      BY <1>1 DEF Action, Session, Done
    <3> QED BY <1>1, <2>5, <3>1 DEF Action, Resulting, FinishTranscript,
            EndWork, LoseWork, StartTranscript, NameTranscript, SettleRun
  <2>6. CASE LoseWork(i)
    <3>1. [worker[i] EXCEPT !.at = "lost"] \in Action
      BY <1>1 DEF Action, Session, Done
    <3> QED BY <1>1, <2>6, <3>1 DEF Action, Onto, LoseWork, EndWork,
            StartTranscript, NameTranscript, SettleRun, FinishTranscript
  <2> QED BY <2>1, <2>2, <2>3, <2>4, <2>5, <2>6
<1>3. /\ worker' \in Seq(Action) /\ Len(worker') = Len(worker)
      /\ DOMAIN worker' = DOMAIN worker /\ worker'[i] = new
      /\ \A j \in DOMAIN worker \ {i} : worker'[j] = worker[j]
  BY <1>1, <1>2, Changes
<1>4. worker[i].procs = {} /\ new.procs = {}
  BY <1>1, <1>2 DEF EndWork, LoseWork, StartTranscript, NameTranscript, SettleRun,
     FinishTranscript, OfAction, Holding
<1>5. UNCHANGED <<cancelFlag, asked, page, overtaken>>
  BY DEF EndWork, LoseWork, StartTranscript, NameTranscript, SettleRun, FinishTranscript,
     SameHistory
<1>6. run' \in Run(Len(worker)) /\ mistaken' \in BOOLEAN /\ transcript' \in Transcript(Len(worker))
  <2>1. run.transcript \in 0..Len(worker) /\ run.action \in Actions \cup {"none", "commit"}
        /\ i \in 0..Len(worker)
    BY <1>1 DEF SetupTypeOK, Run
  <2>2. SettleRun(i) => worker[i].result \in {"failed", "cancelled", "exited"}
    BY <1>1 DEF SettleRun, OfAction, Action
  <2>3. run' \in Run(Len(worker))
    BY <1>1, <2>1, <2>2 DEF SetupTypeOK, Run, SetRun, StatusesOf, EndWork, LoseWork,
       StartTranscript, NameTranscript, SettleRun, FinishTranscript
  <2>4. transcript' \in Transcript(Len(worker)) /\ mistaken' \in BOOLEAN
    <3>1. CASE FinishTranscript(i)
      BY <1>1, <3>1 DEF SetupTypeOK, Transcript, FinishTranscript
    <3>2. CASE ~FinishTranscript(i)
      <4>1. mistaken' = mistaken
        BY <3>2 DEF SameHistory, EndWork, LoseWork, StartTranscript, NameTranscript, SettleRun
      <4>2. transcript' = transcript \/ transcript' = [of |-> i, last |-> 0, done |-> FALSE]
        BY <3>2 DEF EndWork, LoseWork, StartTranscript, NameTranscript, SettleRun
      <4>3. [of |-> i, last |-> 0, done |-> FALSE] \in Transcript(Len(worker))
        BY <2>1 DEF Transcript
      <4> QED BY <1>1, <4>1, <4>2, <4>3 DEF SetupTypeOK
    <3> QED BY <3>1, <3>2
  <2> QED BY <2>3, <2>4
<1>7. SetupTypeOK'
  BY <1>1, <1>3, <1>5, <1>6 DEF SetupTypeOK
<1>8. ASSUME NEW j \in DOMAIN worker' PROVE OfAction(j)'
  <2>1. OfAction(j) /\ j \in 1..Len(worker)
    BY <1>1, <1>3 DEF SetupWork
  <2>2. ASSUME j # i, ~FinishTranscript(i) PROVE worker[j].at \in Done
    BY <1>1, <2>1, <2>2 DEF OfAction, Done, EndWork, LoseWork, StartTranscript,
       NameTranscript, SettleRun
  <2>3. CASE j = i
    BY <1>1, <1>2, <1>3, <1>4, <2>3 DEF OfAction, Session, Holding, Done, SetRun, SetupTypeOK,
       Run, Transcript, EndWork, LoseWork, StartTranscript, NameTranscript, SettleRun, FinishTranscript
  <2>4. CASE j # i /\ ~FinishTranscript(i)
    BY <1>3, <2>1, <2>2, <2>4 DEF OfAction, Session, Holding, Done
  <2>5. CASE j # i /\ FinishTranscript(i)
    BY <1>1, <1>3, <2>1, <2>5 DEF OfAction, Holding, FinishTranscript, SetupTypeOK, Transcript
  <2> QED BY <2>3, <2>4, <2>5
<1>9. OfTranscript' /\ OfPage'
  <2>1. CASE FinishTranscript(i)
    BY <1>1, <1>2, <1>3, <1>5, <2>1 DEF FinishTranscript, SetupWork, OfTranscript, OfPage,
       SetupTypeOK, Transcript
  <2>2. CASE StartTranscript(i)
    BY <1>1, <1>2, <1>3, <1>5, <2>2 DEF StartTranscript, SetupWork, OfTranscript, OfPage,
       SameHistory
  <2>3. CASE EndWork(i) \/ LoseWork(i) \/ NameTranscript(i) \/ SettleRun(i)
    BY <1>1, <1>2, <1>3, <1>5, <2>3 DEF EndWork, LoseWork, NameTranscript, SettleRun, SetupWork,
       OfTranscript, OfPage, SameHistory
  <2> QED BY <2>1, <2>2, <2>3
<1> QED BY <1>3, <1>7, <1>8, <1>9 DEF SetupInv, SetupWork

(* Requests: only one that writes over a run changes it, and if it was     *)
(* running nothing more is claimed.                                        *)
LEMMA RequestStepKeeps ==
  ASSUME SetupInv, ~overtaken, NEW v \in Visitor,
         \/ \E request \in Requests : Ask(v, request)
         \/ RequestCancel(v) \/ WriteOver(v) \/ AnswerFailure(v)
  PROVE  SetupInv'
<1>1. SetupTypeOK /\ SetupWork
  BY DEF SetupInv
<1>2. UNCHANGED <<worker, transcript, page, mistaken>>
  BY DEF Ask, RequestCancel, WriteOver, AnswerFailure, SameHistory
<1>3. /\ run' \in Run(Len(worker)) /\ run'.transcript = run.transcript
      /\ overtaken' \in BOOLEAN /\ cancelFlag' \in BOOLEAN
      /\ asked' \in [Visitor -> Requests \cup {"nothing"}]
      /\ overtaken' \/ run' = run \/ run.status # "running"
  <2>1. CASE WriteOver(v)
    <3>1. run.transcript \in 0..Len(worker)
      BY <1>1 DEF SetupTypeOK, Run
    <3>2. run' \in Run(Len(worker)) /\ run'.transcript = run.transcript
      BY <1>1, <2>1, <3>1 DEF SetupTypeOK, Run, WriteOver, Actions
    <3> QED BY <1>1, <2>1, <3>2 DEF SetupTypeOK, Answered, WriteOver
  <2>2. CASE (\E request \in Requests : Ask(v, request)) \/ RequestCancel(v) \/ AnswerFailure(v)
    BY <1>1, <2>2 DEF SetupTypeOK, Ask, Answered, RequestCancel, AnswerFailure, SameHistory
  <2> QED BY <2>1, <2>2
<1>4. SetupTypeOK'
  BY <1>1, <1>2, <1>3 DEF SetupTypeOK
<1>5. CASE ~overtaken'
  <2>1. \A i \in DOMAIN worker : OfAction(i)'
    BY <1>1, <1>2, <1>3, <1>5 DEF SetupWork, OfAction, Session, Holding, Done
  <2>2. OfTranscript' /\ OfPage'
    BY <1>1, <1>2 DEF SetupWork, OfTranscript, OfPage
  <2> QED BY <1>2, <1>4, <2>1, <2>2 DEF SetupInv, SetupWork
<1> QED BY <1>4, <1>5 DEF SetupInv

(* The page.                                                               *)
LEMMA PageKeeps ==
  ASSUME SetupInv, ~overtaken,
         OpenTranscriptEvents \/ ReadTranscript \/ CloseTranscriptEvents
  PROVE  SetupInv'
<1>1. SetupTypeOK /\ SetupWork
  BY DEF SetupInv
<1>2. UNCHANGED <<run, worker, transcript, cancelFlag, asked, overtaken, mistaken>>
  BY DEF OpenTranscriptEvents, ReadTranscript, CloseTranscriptEvents, SameHistory
<1>3. page' \in Page(Len(worker))
  <2>1. BatchEnd \in Nat
    BY <1>1, SetupAssumption DEF SetupAssumption, SetupTypeOK, BatchEnd, Page, Transcript
  <2>2. run.transcript \in 0..Len(worker) /\ page \in Page(Len(worker))
    BY <1>1 DEF SetupTypeOK, Run
  <2>3. CASE OpenTranscriptEvents
    BY <2>2, <2>3 DEF Page, OpenTranscriptEvents
  <2>4. CASE ReadTranscript
    BY <2>1, <2>2, <2>4 DEF Page, ReadTranscript
  <2>5. CASE CloseTranscriptEvents
    BY <2>2, <2>5 DEF Page, CloseTranscriptEvents
  <2> QED BY <2>3, <2>4, <2>5
<1>4. OfPage'
  <2>1. CASE ReadTranscript
    <3>1. /\ page'.of = transcript.of /\ page'.cursor = BatchEnd
          /\ page'.at = "told" => transcript.done /\ BatchEnd = transcript.last
      BY <1>1, <2>1 DEF ReadTranscript, SetupTypeOK, Page
    <3> QED BY <1>1, <1>2, <3>1 DEF OfPage, OfTranscript, SetupWork
  <2>2. CASE OpenTranscriptEvents \/ CloseTranscriptEvents
    <3>1. page'.at # "told"
      BY <1>1, <2>2 DEF OpenTranscriptEvents, CloseTranscriptEvents, SetupTypeOK, Page
    <3> QED BY <3>1 DEF OfPage
  <2> QED BY <2>1, <2>2
<1>5. (\A i \in DOMAIN worker : OfAction(i)') /\ OfTranscript'
  BY <1>1, <1>2 DEF SetupWork, OfAction, OfTranscript
<1> QED BY <1>1, <1>2, <1>3, <1>4, <1>5 DEF SetupInv, SetupWork, SetupTypeOK

LEMMA SetupStepKeeps == ASSUME SetupInv, [SetupNext]_setupVars PROVE SetupInv'
<1>1. CASE SetupNext
  <2>1. ~overtaken
    BY <1>1 DEF SetupNext
  <2>2. ASSUME NEW i \in DOMAIN worker, Advance(i) PROVE SetupInv'
    BY <2>1, <2>2, SessionStepKeeps, ActionKeeps DEF Advance
  <2> QED BY <1>1, <2>1, <2>2, SetupBegins, SessionStepKeeps, ActionKeeps, RequestStepKeeps,
             PageKeeps
          DEF SetupNext
<1>2. CASE UNCHANGED setupVars
  BY <1>2 DEF setupVars, SetupInv, SetupTypeOK, SetupWork, OfAction, OfTranscript, OfPage
<1> QED BY <1>1, <1>2

LEMMA SetupMeans == SetupInv => NoAgentIsLeft /\ TranscriptIsWhole
<1>1. SetupInv => NoAgentIsLeft
  BY DEF SetupInv, SetupWork, OfAction, NoAgentIsLeft, Session, Holding, Done
<1>2. SetupInv => TranscriptIsWhole
  BY DEF SetupInv, SetupWork, OfPage, TranscriptIsWhole
<1> QED BY <1>1, <1>2

(* While a process of an agent lives, the run is that agent's, and nobody  *)
(* else is at work: however actions begin and end, agents fork, exit and   *)
(* are cancelled, until a request overtakes an action (begin, set_run,     *)
(* run_agent).                                                             *)
THEOREM AgentsAreReaped == SetupSpec => []NoAgentIsLeft
BY SetupStarts, SetupStepKeeps, SetupMeans, PTL DEF SetupSpec

(* A page is told that a transcript is done only at its end and when the   *)
(* session is over (read_transcript, finish_transcript).                   *)
THEOREM TranscriptsAreWhole == SetupSpec => []TranscriptIsWhole
BY SetupStarts, SetupStepKeeps, SetupMeans, PTL DEF SetupSpec

----------------------------------------------------------------------------
(* Every step of the Hub is one of its parts', or none, of each part.      *)
LEMMA HubStepsAreParts ==
  [HubStateNext]_hubState => [Next]_vars /\ [HubNext]_hubVars /\ [SetupNext]_setupVars
<1> SUFFICES ASSUME [HubStateNext]_hubState
             PROVE  [Next]_vars /\ [HubNext]_hubVars /\ [SetupNext]_setupVars
  OBVIOUS
<1>1. CASE UNCHANGED hubState
  <2>1. UNCHANGED vars /\ UNCHANGED hubVars /\ UNCHANGED setupVars
    BY <1>1, Zenon DEF hubState
  <2> QED BY <2>1
<1>2. CASE HubStateNext
  <2>1. (Next \/ UNCHANGED vars) /\ (HubNext \/ UNCHANGED hubVars)
        /\ (SetupNext \/ UNCHANGED setupVars)
    BY <1>2, Zenon DEF HubStateNext
  <2> QED BY <2>1
<1> QED BY <1>1, <1>2

(* The Hub as a whole: one job at a time, requested cancellations, an      *)
(* up-to-date jobs.json, counted stream slots, agents cleaned up after and *)
(* whole transcripts, however requests to its parts interleave.            *)
THEOREM HubIsSafe ==
  HubStateSpec => [](/\ OneAtATime /\ CancelHonoured /\ DiskCatchesUp
                     /\ SlotsAreCounted /\ NoAgentIsLeft /\ TranscriptIsWhole)
<1> DEFINE Parts == OrderInv /\ restarts \in Nat /\ TimelyInv /\ SessionsInv /\ SetupInv
<1>1. HubStateInit => Parts
  <2>1. Init => restarts \in Nat
    BY DEF Init
  <2> QED BY <2>1, OrderStarts, TimelyBegins, SessionsStart, SetupStarts DEF HubStateInit
<1>2. Parts /\ [HubStateNext]_hubState => Parts'
  BY HubStepsAreParts, OrderKeeps, TimelyStep, SessionsStepKeeps, SetupStepKeeps
<1>3. Parts => /\ OneAtATime /\ CancelHonoured /\ DiskCatchesUp
               /\ SlotsAreCounted /\ NoAgentIsLeft /\ TranscriptIsWhole
  <2>1. OrderInv => OneAtATime /\ DiskCatchesUp
    BY WrittenMeansCurrent DEF OrderInv, JobsInv
  <2>2. SessionsInv => SlotsAreCounted
    BY DEF SessionsInv
  <2>3. SetupInv => NoAgentIsLeft /\ TranscriptIsWhole
    BY SetupMeans
  <2> QED BY <2>1, <2>2, <2>3, CancelledMeans
<1> QED BY <1>1, <1>2, <1>3, PTL DEF HubStateSpec

(* Outcomes are final in the Hub as a whole.                               *)
THEOREM HubOutcomesAreFinal == HubStateSpec => OutcomeIsFinal
<1> DEFINE Jobs == OrderInv /\ restarts \in Nat
<1>1. HubStateInit => Jobs
  BY OrderStarts DEF HubStateInit, Init
<1>2. Jobs /\ [HubStateNext]_hubState => Jobs'
  BY HubStepsAreParts, OrderKeeps
<1>3. Jobs /\ [HubStateNext]_hubState =>
        [Keeps(disk, disk') /\ (restarts' = restarts => Keeps(jobs, jobs'))]_vars
  BY HubStepsAreParts, OrderStep DEF Final
<1> QED BY <1>1, <1>2, <1>3, PTL DEF HubStateSpec, OutcomeIsFinal
=============================================================================
