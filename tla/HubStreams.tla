----------------------------- MODULE HubStreams -----------------------------
(***************************************************************************)
(* The two event streams over the Hub's jobs (src/hub/jobs.rs, job_events  *)
(* and lifecycle_events) and what a browser tab makes of the second        *)
(* (src/hub/assets/js/lifecycle.js).                                       *)
(*                                                                         *)
(* A follower streams the snapshots of one job until it ends.  A tab keeps *)
(* the last state it knows of every job: it asks for the list, opens the   *)
(* stream, folds in the list the stream starts with, then one event per    *)
(* message whose state the stream has not just sent.  Snapshots are        *)
(* broadcast after unlocking, so they arrive in any order.                 *)
(***************************************************************************)
EXTENDS HubJobs

CONSTANTS
  Follower,     \* open GET /api/jobs/{id}/events
  Tab,          \* tabs on GET /api/jobs/events
  MaxOpened,    \* bound: job streams opened
  MaxDrops      \* bound: lost connections, which EventSource reopens

ASSUME StreamsAssumption ==
  /\ Follower \cap Tab = {}
  /\ \A S \in SUBSET Ids : Nothing \notin [S -> States]
  /\ MaxOpened \in Nat
  /\ MaxDrops \in Nat

VARIABLES
  stream,   \* follower -> where it is, its job, the last revision it sent,
            \* and has it lost messages?
  tab,      \* tab -> where it is, the states its stream sent last, the
            \* states it knows, the list it has polled but not folded in,
            \* did it know nothing when its stream began, and has its last
            \* poll failed?
  opened, drops

streams == <<stream, tab, opened, drops>>
allVars == <<vars, streams>>

----------------------------------------------------------------------------
NoStream == [at |-> "closed", id |-> 0, last |-> 0, missed |-> FALSE]
NoTab == [at |-> "closed", known |-> <<>>, states |-> <<>>, poll |-> Nothing,
          fresh |-> TRUE, missed |-> FALSE]

StreamsInit ==
  /\ stream = [f \in Follower |-> NoStream]
  /\ tab = [t \in Tab |-> NoTab]
  /\ opened = 0 /\ drops = 0

(* subscribe, and dropping the receiver.                                   *)
Subscribe(r) ==
  inbox' = [w \in DOMAIN inbox \cup {r} |->
              IF w = r THEN [queue |-> <<>>, lagged |-> FALSE] ELSE inbox[w]]
Unsubscribe(r) == inbox' = [w \in DOMAIN inbox \ {r} |-> inbox[w]]

HasMessage(r) == r \in DOMAIN inbox /\ ~inbox[r].lagged /\ inbox[r].queue # <<>>
HasLagged(r) == r \in DOMAIN inbox /\ inbox[r].lagged
Message(r) == Head(inbox[r].queue)
Take(r) == inbox' = [inbox EXCEPT ![r].queue = Tail(@)]
TakeLag(r) == inbox' = [inbox EXCEPT ![r].lagged = FALSE]

OnlyInbox == UNCHANGED <<jobs, flags, disk, task, published, created, counts>>

----------------------------------------------------------------------------
(* job_events: subscribe first ...                                         *)
Follow(f, i) ==
  /\ stream[f].at = "closed"
  /\ opened < MaxOpened
  /\ i <= created
  /\ opened' = opened + 1
  /\ Subscribe(f)
  /\ stream' = [stream EXCEPT ![f] = [NoStream EXCEPT !.at = "subscribed", !.id = i]]
  /\ OnlyInbox /\ UNCHANGED <<tab, drops>>

(* ... then look the job up: 404, or its snapshot as the first event, and  *)
(* the stream's end if that was terminal.                                  *)
FirstEvent(f) ==
  /\ stream[f].at = "subscribed"
  /\ LET i == stream[f].id
     IN IF i \in Active
          THEN /\ stream' = [stream EXCEPT ![f].at = "open", ![f].last = jobs[i].revision]
               /\ UNCHANGED inbox
          ELSE /\ stream' = [stream EXCEPT ![f].at = "ended"]
               /\ Unsubscribe(f)
  /\ OnlyInbox /\ UNCHANGED <<tab, opened, drops>>

(* Mutant of NextEvent: only the very next revision is taken.              *)
NextEventInOrder(f) ==
  /\ stream[f].at = "open"
  /\ HasMessage(f)
  /\ LET new == Message(f)
         mine == new.id = stream[f].id /\ new.revision = stream[f].last + 1
     IN IF mine /\ Terminal(new)
          THEN /\ stream' = [stream EXCEPT ![f].at = "ended", ![f].last = new.revision]
               /\ Unsubscribe(f)
          ELSE /\ stream' = IF mine THEN [stream EXCEPT ![f].last = new.revision] ELSE stream
               /\ Take(f)
  /\ OnlyInbox /\ UNCHANGED <<tab, opened, drops>>

(* Newer snapshots of this job; the terminal one is the last.              *)
NextEvent(f) ==
  /\ stream[f].at = "open"
  /\ HasMessage(f)
  /\ LET new == Message(f)
         mine == new.id = stream[f].id /\ new.revision > stream[f].last
     IN IF mine /\ Terminal(new)
          THEN /\ stream' = [stream EXCEPT ![f].at = "ended", ![f].last = new.revision]
               /\ Unsubscribe(f)
          ELSE /\ stream' = IF mine THEN [stream EXCEPT ![f].last = new.revision] ELSE stream
               /\ Take(f)
  /\ OnlyInbox /\ UNCHANGED <<tab, opened, drops>>

(* `Err(Lagged(_)) => {}`                                                  *)
IgnoreLag(f) ==
  /\ stream[f].at = "open"
  /\ HasLagged(f)
  /\ TakeLag(f)
  /\ stream' = [stream EXCEPT ![f].missed = TRUE]
  /\ OnlyInbox /\ UNCHANGED <<tab, opened, drops>>

----------------------------------------------------------------------------
(* observeJob for every job of a list: a terminal job never goes back.     *)
ActiveStates == {"queued", "running"}

(* Mutant of Observed: the last message wins.                              *)
ObservedBlindly(states, list) ==
  [i \in DOMAIN states \cup DOMAIN list |-> IF i \in DOMAIN list THEN list[i] ELSE states[i]]

Observed(states, list) ==
  [i \in DOMAIN states \cup DOMAIN list |->
     CASE i \notin DOMAIN list -> states[i]
       [] i \in DOMAIN list /\ i \notin DOMAIN states -> list[i]
       [] i \in DOMAIN list /\ i \in DOMAIN states ->
            IF states[i] \notin ActiveStates /\ list[i] \in ActiveStates
              THEN states[i] ELSE list[i]]

Listed == [i \in DOMAIN jobs |-> jobs[i].state]

(* startJobLifecycle: remember the list, if that request succeeds ...      *)
Boot(t) ==
  /\ tab[t].at = "closed"
  /\ \E seed \in {Listed, <<>>} :
       tab' = [tab EXCEPT ![t].at = "opening", ![t].states = seed]
  /\ OnlyInbox /\ UNCHANGED <<inbox, stream, opened, drops>>

(* ... and open the lifecycle stream, which subscribes, ...                *)
OpenStream(t) ==
  /\ tab[t].at = "opening"
  /\ Subscribe(t)
  /\ tab' = [tab EXCEPT ![t].at = "subscribed"]
  /\ OnlyInbox /\ UNCHANGED <<stream, opened, drops>>

(* ... then lists the jobs and starts with a `jobs` event: the tab only    *)
(* takes over the states of jobs it does not know, and the active job.     *)
Told(states) ==
  LET unknown == [i \in DOMAIN Listed \ DOMAIN states |-> Listed[i]]
  IN Observed(Observed(states, unknown), [i \in Active |-> Listed[i]])

Hello(t) ==
  /\ tab[t].at = "subscribed"
  /\ tab' = [tab EXCEPT ![t].at = "open", ![t].known = Listed,
                         ![t].states = Told(@), ![t].missed = FALSE,
                         ![t].fresh = (@ /\ tab[t].states = <<>>)]
  /\ OnlyInbox /\ UNCHANGED <<inbox, stream, opened, drops>>

(* A `job` event, unless the stream knows the job in this very state.      *)
JobEvent(t) ==
  /\ tab[t].at = "open"
  /\ HasMessage(t)
  /\ Take(t)
  /\ LET new == Message(t)
         now == [i \in {new.id} |-> new.state]
     IN tab' = IF new.id \in DOMAIN tab[t].known /\ tab[t].known[new.id] = new.state
                 THEN tab
                 ELSE [tab EXCEPT ![t].states = Observed(@, now),
                                  ![t].known = [i \in DOMAIN @ \cup {new.id} |->
                                                  IF i = new.id THEN new.state ELSE @[i]]]
  /\ OnlyInbox /\ UNCHANGED <<stream, opened, drops>>

(* Lagged: a `resync` event; the tab asks for the list, and the answer may *)
(* come after later events.                                                *)
Resync(t) ==
  /\ tab[t].at = "open"
  /\ HasLagged(t)
  /\ tab[t].poll = Nothing
  /\ TakeLag(t)
  /\ tab' = [tab EXCEPT ![t].poll = Listed, ![t].missed = FALSE]
  /\ OnlyInbox /\ UNCHANGED <<stream, opened, drops>>

PollAnswer(t) ==
  /\ tab[t].poll # Nothing
  /\ tab' = [tab EXCEPT ![t].states = Observed(@, tab[t].poll), ![t].poll = Nothing]
  /\ OnlyInbox /\ UNCHANGED <<inbox, stream, opened, drops>>

(* The request fails, which pollOnce takes for transient and does not ask  *)
(* again: what was dropped stays unknown.                                  *)
PollFails(t) ==
  /\ tab[t].poll # Nothing
  /\ tab' = [tab EXCEPT ![t].poll = Nothing, ![t].missed = TRUE]
  /\ OnlyInbox /\ UNCHANGED <<inbox, stream, opened, drops>>

(* The connection is lost; EventSource opens it again.                     *)
Disconnect(t) ==
  /\ tab[t].at = "open"
  /\ drops < MaxDrops
  /\ drops' = drops + 1
  /\ Unsubscribe(t)
  /\ tab' = [tab EXCEPT ![t].at = "opening", ![t].known = <<>>]
  /\ OnlyInbox /\ UNCHANGED <<stream, opened>>

----------------------------------------------------------------------------
(* A new Hub process knows no session: every page is loaded again.         *)
RestartHub ==
  /\ Restart
  /\ stream' = [f \in Follower |-> NoStream]
  /\ tab' = [t \in Tab |-> NoTab]
  /\ UNCHANGED <<opened, drops>>

JobsStep == Step /\ UNCHANGED streams

FollowerStep(f) == FirstEvent(f) \/ NextEvent(f) \/ IgnoreLag(f)
TabStep(t) ==
  \/ OpenStream(t) \/ Hello(t) \/ JobEvent(t)
  \/ Resync(t) \/ PollAnswer(t) \/ PollFails(t)

StreamsNext ==
  \/ JobsStep
  \/ RestartHub
  \/ \E f \in Follower : (\E i \in Ids : Follow(f, i)) \/ FollowerStep(f)
  \/ \E t \in Tab : Boot(t) \/ TabStep(t) \/ Disconnect(t)

AllInit == Init /\ StreamsInit

StreamsSpec == AllInit /\ [][StreamsNext]_allVars

----------------------------------------------------------------------------
(* Everything sent has arrived at the receiver; nothing is about to be.    *)
AllArrived(r) ==
  /\ inbox[r] = [queue |-> <<>>, lagged |-> FALSE]
  /\ \A a \in Client \cup Ids : task[a].at # "send"

(* "the stream ends after the terminal event" (jobs.rs:672): a page that   *)
(* follows a job is told its end, whenever it opened the stream and in     *)
(* whatever order snapshots were broadcast, unless it fell so far behind   *)
(* that messages were dropped.                                             *)
FollowersAreTold ==
  \A f \in Follower :
    stream[f].at = "open" /\ AllArrived(f) => stream[f].id \in Active \/ stream[f].missed

(* A tab with nothing under way, and one that takes exactly the active job *)
(* for active, of the jobs that are still listed.                          *)
Quiet(t) == tab[t].at = "open" /\ tab[t].poll = Nothing /\ AllArrived(t)
UpToDate(t) ==
  Active = {i \in DOMAIN jobs \cap DOMAIN tab[t].states : tab[t].states[i] \in ActiveStates}

(* "Every open Hub tab subscribes so all of them learn when a job starts   *)
(* or finishes" (jobs.rs:722): a tab is up to date once everything sent    *)
(* has arrived, whenever it opened its stream.                             *)
TabsLearn == \A t \in Tab : Quiet(t) => UpToDate(t)

(* The same for a tab that learned all it knows from one stream: neither   *)
(* snapshots broadcast out of order, nor dropped messages and a late       *)
(* answer to the poll that makes up for them, leave it with a stale state. *)
(* A poll that fails does: its failure is swallowed and nothing repeats    *)
(* it, so the tab stays wrong until another event tells it                 *)
(* (lifecycle.js:109-113).                                                 *)
FreshTabsLearn ==
  \A t \in Tab : Quiet(t) /\ tab[t].fresh /\ ~tab[t].missed => UpToDate(t)
=============================================================================
