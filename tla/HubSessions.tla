---------------------------- MODULE HubSessions ----------------------------
(***************************************************************************)
(* Hub sessions and the slots of its event streams (src/hub/security.rs).  *)
(*                                                                         *)
(* A bootstrap link or the access token is exchanged for a session; every  *)
(* request is authenticated once, when it arrives.  A request for an event *)
(* stream then takes a slot, and its stream looks for its session again    *)
(* every few seconds and whenever a logout wakes it.                       *)
(*                                                                         *)
(* Sessions all live equally long, so they expire in the order they were   *)
(* issued: they are counted, and `lapsed` is the last one past its time.   *)
(***************************************************************************)
EXTENDS Naturals, FiniteSets

CONSTANTS
  Connection,  \* concurrent connections to the Hub
  MaxStreams,  \* MAX_EVENT_STREAMS
  MaxSessions, \* MAX_SESSIONS
  MaxIssued,   \* bound: sessions issued
  MaxLinks     \* bound: bootstrap links, the one printed at the start included

ASSUME SessionsAssumption ==
  /\ IsFiniteSet(Connection)
  /\ MaxStreams \in Nat \ {0}
  /\ MaxSessions \in Nat \ {0}
  /\ MaxIssued \in Nat
  /\ MaxLinks \in Nat

VARIABLES
  sessions,     \* the ids in HubSecurity.sessions
  issued,       \* ids 1..issued have been given out
  lapsed,       \* ids 1..lapsed are past their time
  link,         \* the bootstrap token: "fresh", "consumed" or "expired"
  links,        \* bootstrap links so far
  openStreams,  \* HubSecurity.open_streams
  conn          \* connection -> what it does, and under which session

hubVars == <<sessions, issued, lapsed, link, links, openStreams, conn>>

----------------------------------------------------------------------------
Bearer == 0     \* the access token was sent: there is no session behind it

ConnPlaces == {"idle",
               "stream",    \* authenticated; asks for an event stream
               "logout",    \* authenticated; asks to end its session
               "notify",    \* revoke: session removed, waiters not woken yet
               "refused",   \* acquire_stream: counted, over the limit
               "reserved",  \* acquire_stream: has its slot, no stream yet
               "waiting",   \* session_bound_stream: in select!
               "woken",     \* the same, and revoked.notified() is ready
               "yielding",  \* an event is handed to the client
               "ending"}    \* so is "session-ended", the last one

Admitted == {"reserved", "waiting", "woken", "yielding", "ending"}
Streaming == {"waiting", "woken", "yielding", "ending"}

NoConn == [at |-> "idle", session |-> Bearer]

Alive == {s \in sessions : s > lapsed}
Holders == {c \in Connection : conn[c].at \in Admitted \cup {"refused"}}
Streams == {c \in Connection : conn[c].at \in Admitted}

HubInit ==
  /\ sessions = {} /\ issued = 0 /\ lapsed = 0
  /\ link = "fresh" /\ links = 1
  /\ openStreams = 0
  /\ conn = [c \in Connection |-> NoConn]

Go(c, place) == conn' = [conn EXCEPT ![c].at = place]
Leave(c) == conn' = [conn EXCEPT ![c] = NoConn]
SameSessions == UNCHANGED <<sessions, issued, lapsed, link, links>>

----------------------------------------------------------------------------
(* The sessions that are kept when a new one arrives: those that have not  *)
(* expired, without the one that expires first when there are too many.    *)
Kept ==
  IF Cardinality(Alive) >= MaxSessions
    THEN {s \in Alive : \E t \in Alive : t < s}
    ELSE Alive

(* exchange: the access token, or the bootstrap token once and in time.    *)
Exchange ==
  /\ issued < MaxIssued
  /\ \/ UNCHANGED link
     \/ link = "fresh" /\ link' = "consumed"
  /\ issued' = issued + 1
  /\ sessions' = Kept \cup {issued + 1}
  /\ UNCHANGED <<lapsed, links, openStreams, conn>>

(* rotate_bootstrap.                                                       *)
RotateBootstrap ==
  /\ links < MaxLinks
  /\ link' = "fresh"
  /\ links' = links + 1
  /\ UNCHANGED <<sessions, issued, lapsed, openStreams, conn>>

(* BOOTSTRAP_TTL passes.                                                   *)
LinkExpires ==
  /\ link = "fresh"
  /\ link' = "expired"
  /\ UNCHANGED <<sessions, issued, lapsed, links, openStreams, conn>>

(* SESSION_TTL passes for the next session; nothing removes it yet.        *)
SessionExpires ==
  /\ lapsed < issued
  /\ lapsed' = lapsed + 1
  /\ UNCHANGED <<sessions, issued, link, links, openStreams, conn>>

(* guard_inner: a request is authenticated, once; authenticate_session     *)
(* drops the session it finds expired.                                     *)
Request(c) ==
  /\ conn[c].at = "idle"
  /\ \/ conn' = [conn EXCEPT ![c].at = "stream"]
        /\ UNCHANGED sessions
     \/ \E s \in Alive, at \in {"stream", "logout"} :
          /\ conn' = [conn EXCEPT ![c] = [at |-> at, session |-> s]]
          /\ UNCHANGED sessions
     \/ \E s \in sessions \ Alive :
          /\ sessions' = sessions \ {s}
          /\ UNCHANGED conn
  /\ UNCHANGED <<issued, lapsed, link, links, openStreams>>

(* revoke, up to the unlock ...                                            *)
Revoke(c) ==
  /\ conn[c].at = "logout"
  /\ sessions' = sessions \ {conn[c].session}
  /\ Go(c, "notify")
  /\ UNCHANGED <<issued, lapsed, link, links, openStreams>>

(* ... and notify_waiters: it wakes who waits now, and leaves no permit.   *)
NotifyWaiters(c) ==
  /\ conn[c].at = "notify"
  /\ conn' = [d \in Connection |->
                CASE d = c -> NoConn
                  [] d # c /\ conn[d].at = "waiting" -> [conn[d] EXCEPT !.at = "woken"]
                  [] OTHER -> conn[d]]
  /\ SameSessions /\ UNCHANGED openStreams

----------------------------------------------------------------------------
(* Mutant of AcquireStream: the limit is compared with the new count.      *)
AcquireOneMore(c) ==
  /\ conn[c].at = "stream"
  /\ openStreams' = openStreams + 1
  /\ Go(c, IF openStreams > MaxStreams THEN "refused" ELSE "reserved")
  /\ SameSessions

(* acquire_stream: fetch_add, and only then the limit.                     *)
AcquireStream(c) ==
  /\ conn[c].at = "stream"
  /\ openStreams' = openStreams + 1
  /\ Go(c, IF openStreams >= MaxStreams THEN "refused" ELSE "reserved")
  /\ SameSessions

(* Mutant of Refuse: 429 is answered and the slot is forgotten.            *)
RefuseAndForget(c) ==
  /\ conn[c].at = "refused"
  /\ Leave(c)
  /\ SameSessions /\ UNCHANGED openStreams

(* drop(slot), and 429.                                                    *)
Refuse(c) ==
  /\ conn[c].at = "refused"
  /\ openStreams' = openStreams - 1
  /\ Leave(c)
  /\ SameSessions

(* The handler has its stream ...                                          *)
StartStream(c) ==
  /\ conn[c].at = "reserved"
  /\ Go(c, "waiting")
  /\ SameSessions /\ UNCHANGED openStreams

(* ... or, for a job that does not exist, 404.  A stream is dropped too    *)
(* when what it streams ends, or when the client goes away.                *)
DropStream(c) ==
  /\ conn[c].at \in Admitted
  /\ openStreams' = openStreams - 1
  /\ Leave(c)
  /\ SameSessions

(* select! takes the next event.  If a notification was ready as well, it  *)
(* is lost with its future.                                                *)
Item(c) ==
  /\ conn[c].at \in {"waiting", "woken"}
  /\ Go(c, "yielding")
  /\ SameSessions /\ UNCHANGED openStreams

(* The client has read the event: the loop waits again.                    *)
Resume(c) ==
  /\ conn[c].at = "yielding"
  /\ Go(c, "waiting")
  /\ SameSessions /\ UNCHANGED openStreams

(* session_alive for the stream's session; a bearer has none to end.       *)
CheckSession(c) ==
  LET s == conn[c].session
  IN /\ Go(c, IF s = Bearer \/ s \in Alive THEN "waiting" ELSE "ending")
     /\ sessions' = sessions \ ({s} \ Alive)
     /\ UNCHANGED <<issued, lapsed, link, links, openStreams>>

(* Mutant of Tick: only a logout makes the stream look for its session.    *)
TickIgnored(c) ==
  /\ conn[c].at \in {"waiting", "woken"}
  /\ UNCHANGED hubVars

(* select! takes the tick ...                                              *)
Tick(c) ==
  /\ conn[c].at \in {"waiting", "woken"}
  /\ CheckSession(c)

(* ... or the notification.                                                *)
Notified(c) ==
  /\ conn[c].at = "woken"
  /\ CheckSession(c)

(* "session-ended" is read; the loop is left.                              *)
EndStream(c) ==
  /\ conn[c].at = "ending"
  /\ openStreams' = openStreams - 1
  /\ Leave(c)
  /\ SameSessions

----------------------------------------------------------------------------
(* What goes on by itself once a request is authenticated.                 *)
Proceed(c) ==
  \/ Revoke(c) \/ NotifyWaiters(c)
  \/ AcquireStream(c) \/ Refuse(c) \/ StartStream(c)
  \/ Resume(c) \/ EndStream(c)

Serve(c) ==
  \/ Request(c) \/ Proceed(c) \/ DropStream(c)
  \/ Item(c) \/ Tick(c) \/ Notified(c)

HubNext ==
  \/ Exchange \/ RotateBootstrap \/ LinkExpires \/ SessionExpires
  \/ \E c \in Connection : Serve(c)

(* A started handler goes on; clients read what they are sent or go away;  *)
(* select! draws among what is ready, so a tick that stays due is taken    *)
(* in the end however many events there are.                               *)
HubFairness ==
  \A c \in Connection : WF_hubVars(Proceed(c)) /\ SF_hubVars(Tick(c))

HubSpec == HubInit /\ [][HubNext]_hubVars /\ HubFairness

----------------------------------------------------------------------------
(* Every variable holds a value of its kind; no more sessions are kept     *)
(* than MAX_SESSIONS, and none that was not issued.                        *)
HubTypeOK ==
  /\ issued \in Nat /\ lapsed \in Nat /\ lapsed <= issued
  /\ sessions \subseteq 1..issued
  /\ Cardinality(sessions) <= MaxSessions
  /\ link \in {"fresh", "consumed", "expired"}
  /\ links \in Nat
  /\ openStreams \in Nat
  /\ conn \in [Connection -> [at : ConnPlaces, session : Nat]]
  /\ \A c \in Connection : conn[c].session <= issued

(* At most MAX_EVENT_STREAMS streams are open, whatever requests overtake  *)
(* each other between the count and the comparison, and the counter is     *)
(* the number of slots that are held: no path out of a handler or a        *)
(* stream keeps one (acquire_stream and Drop for StreamSlot).              *)
SlotsAreCounted ==
  /\ openStreams = Cardinality(Holders)
  /\ Cardinality(Streams) <= MaxStreams

(* A stream whose session was logged out, has expired or was evicted ends, *)
(* also when the notification finds it between two waits, before its first *)
(* one, or loses against an event (session_bound_stream).                  *)
EndedSessionsStop ==
  \A c \in Connection :
    (conn[c].at \in Streaming /\ conn[c].session \notin Alive \cup {Bearer})
      ~> conn[c].at = "idle"
=============================================================================
