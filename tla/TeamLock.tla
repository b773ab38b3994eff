------------------------------ MODULE TeamLock ------------------------------
(***************************************************************************)
(* The lock file `local/team.lock` (src/team/store.rs, TeamLock).          *)
(*                                                                         *)
(* A process creates the file exclusively, writes its token into it, works *)
(* and, on drop, removes the file if it still holds its token.  A waiter   *)
(* that finds a file older than 120 s removes it, whoever wrote it, and    *)
(* tries again.  The file's age is never refreshed, and neither "look at   *)
(* the age, then remove" nor "read the token, then remove" is atomic.  So  *)
(* the lock excludes only until one of two things happens, which `excuses` *)
(* records: a second waiter found the file stale before the first had      *)
(* removed it, or a live holder kept the lock for more than 120 s.         *)
(*                                                                         *)
(* Tokens are fresh UUIDs; all the code asks of a token is whether it is   *)
(* the caller's own, so the file is represented by the process whose       *)
(* current acquisition created it, or by Orphan when that acquisition has  *)
(* no process left to drop it.                                             *)
(***************************************************************************)
EXTENDS Naturals

CONSTANTS
  Proc,            \* the knobyte processes of one checkout
  Absent,          \* there is no lock file
  Orphan,          \* a lock file no live process will drop
  MaxFaults        \* bound on crashes, failed creations and token writes,
                   \* overstayed locks and spells of failing removals

ASSUME LockAssumption ==
  /\ Absent \notin Proc
  /\ Orphan \notin Proc
  /\ Absent # Orphan
  /\ MaxFaults \in Nat

VARIABLES
  lockFile,   \* Absent, Orphan, or the process whose acquisition created it
  aged,       \* its modification time is more than STALE_LOCK_AGE ago
  pc,         \* where each process is in acquire_with_timeout / drop
  jammed,     \* remove_file fails on it (permissions, a file held open)
  faults,     \* faults so far
  excuses     \* history: what has happened that the lock cannot withstand

vars == <<lockFile, aged, pc, jammed, faults, excuses>>

----------------------------------------------------------------------------
Steps == {"idle",      \* not in a team mutation
          "trying",    \* at the top of the acquire loop
          "breaking",  \* lock_is_stale said yes, remove_file comes next
          "created",   \* created the file, has not written its token
          "holding",   \* acquire returned; the caller is mutating
          "dropping",  \* drop read its own token, remove_file comes next
          "down"}      \* crashed

(* The processes between acquire's create_new and the start of drop.       *)
Holders == {p \in Proc : pc[p] \in {"created", "holding"}}

(* The processes that still expect to remove the file they created.        *)
Owners == {p \in Proc : pc[p] \in {"created", "holding", "dropping"}}

Init ==
  /\ lockFile = Absent
  /\ aged = FALSE
  /\ pc = [p \in Proc |-> "idle"]
  /\ jammed = FALSE
  /\ faults = 0
  /\ excuses = {}

----------------------------------------------------------------------------
(* A team command reaches TeamLock::acquire.                               *)
BeginAcquire(p) ==
  /\ pc[p] = "idle"
  /\ pc' = [pc EXCEPT ![p] = "trying"]
  /\ UNCHANGED <<lockFile, aged, jammed, faults, excuses>>

(* OpenOptions::create_new succeeds: the path was free.                    *)
CreateLock(p) ==
  /\ pc[p] = "trying"
  /\ lockFile = Absent
  /\ lockFile' = p
  /\ aged' = FALSE
  /\ pc' = [pc EXCEPT ![p] = "created"]
  /\ UNCHANGED <<jammed, faults, excuses>>

(* Any other error of create_new, or of the directory's creation.          *)
CreateFails(p) ==
  /\ pc[p] = "trying"
  /\ faults < MaxFaults
  /\ faults' = faults + 1
  /\ pc' = [pc EXCEPT ![p] = "idle"]
  /\ UNCHANGED <<lockFile, aged, jammed, excuses>>

(* write_all through the open handle: it reaches the file created above,   *)
(* which the path may no longer name, and refreshes that file's age.       *)
WriteToken(p) ==
  /\ pc[p] = "created"
  /\ aged' = IF lockFile = p THEN FALSE ELSE aged
  /\ pc' = [pc EXCEPT ![p] = "holding"]
  /\ UNCHANGED <<lockFile, jammed, faults, excuses>>

(* write_all fails: acquire returns the error, the file stays behind.      *)
WriteTokenFails(p) ==
  /\ pc[p] = "created"
  /\ faults < MaxFaults
  /\ faults' = faults + 1
  /\ lockFile' = IF lockFile = p THEN Orphan ELSE lockFile
  /\ pc' = [pc EXCEPT ![p] = "idle"]
  /\ UNCHANGED <<aged, jammed, excuses>>

(* A waiter has found the file stale while another is about to remove it. *)
Noticed(p) ==
  /\ excuses' = IF \E q \in Proc \ {p} : pc[q] = "breaking"
                THEN excuses \cup {"raced"} ELSE excuses
  /\ pc' = [pc EXCEPT ![p] = "breaking"]
  /\ UNCHANGED <<lockFile, aged, jammed, faults>>

(* Mutant of SeeStale: any lock file counts as stale.                      *)
SeeAnyAsStale(p) == pc[p] = "trying" /\ lockFile # Absent /\ Noticed(p)

(* AlreadyExists, and lock_is_stale finds the file older than 120 s.       *)
SeeStale(p) ==
  /\ pc[p] = "trying"
  /\ lockFile # Absent
  /\ aged
  /\ Noticed(p)

(* remove_file on the path, whichever file it names by now, and `continue`:*)
(* whether or not it worked, the time-out is not looked at on this way.    *)
BreakLock(p) ==
  /\ pc[p] = "breaking"
  /\ lockFile' = IF jammed THEN lockFile ELSE Absent
  /\ aged' = (jammed /\ aged)
  /\ pc' = [pc EXCEPT ![p] = "trying"]
  /\ UNCHANGED <<jammed, faults, excuses>>

(* Mutants of GiveUp: the timeout is looked at before the file's age; it   *)
(* is only looked at for stale files.                                      *)
GiveUpFirst(p) ==
  /\ pc[p] = "trying"
  /\ lockFile # Absent
  /\ pc' = [pc EXCEPT ![p] = "idle"]
  /\ UNCHANGED <<lockFile, aged, jammed, faults, excuses>>

GiveUpOnStale(p) == aged /\ GiveUpFirst(p)

(* AlreadyExists, not stale, and LOCK_WAIT is over: acquire returns Err.   *)
(* (Before that the loop sleeps 25 ms and looks again: a stuttering step.) *)
GiveUp(p) ==
  /\ pc[p] = "trying"
  /\ lockFile # Absent
  /\ ~aged
  /\ pc' = [pc EXCEPT ![p] = "idle"]
  /\ UNCHANGED <<lockFile, aged, jammed, faults, excuses>>

(* Drop for TeamLock reads the file: only its own token sends it on to     *)
(* remove_file.                                                            *)
DropRead(p) ==
  /\ pc[p] = "holding"
  /\ pc' = [pc EXCEPT ![p] = IF lockFile = p THEN "dropping" ELSE "idle"]
  /\ UNCHANGED <<lockFile, aged, jammed, faults, excuses>>

(* ... and remove_file takes whatever the path names by now.  If it fails  *)
(* the file stays behind, with nobody left to drop it.                     *)
DropRemove(p) ==
  /\ pc[p] = "dropping"
  /\ lockFile' = IF ~jammed THEN Absent
                 ELSE IF lockFile = p THEN Orphan ELSE lockFile
  /\ aged' = (jammed /\ aged)
  /\ pc' = [pc EXCEPT ![p] = "idle"]
  /\ UNCHANGED <<jammed, faults, excuses>>

----------------------------------------------------------------------------
(* Two minutes pass since a file was last written that nobody will drop.   *)
Age ==
  /\ lockFile # Absent
  /\ ~aged
  /\ lockFile \notin Owners
  /\ aged' = TRUE
  /\ UNCHANGED <<lockFile, pc, jammed, faults, excuses>>

(* They pass under a live holder: nothing refreshes the file it created.   *)
Overstay ==
  /\ lockFile \in Owners
  /\ ~aged
  /\ faults < MaxFaults
  /\ faults' = faults + 1
  /\ aged' = TRUE
  /\ excuses' = excuses \cup {"overstayed"}
  /\ UNCHANGED <<lockFile, pc, jammed>>

(* Removals begin to fail, and work again.                                 *)
Jam ==
  /\ ~jammed
  /\ faults < MaxFaults
  /\ faults' = faults + 1
  /\ jammed' = TRUE
  /\ UNCHANGED <<lockFile, aged, pc, excuses>>

Unjam ==
  /\ jammed
  /\ jammed' = FALSE
  /\ UNCHANGED <<lockFile, aged, pc, faults, excuses>>

(* The process dies anywhere; a lock file it created is left behind.       *)
Crash(p) ==
  /\ pc[p] \notin {"idle", "down"}
  /\ faults < MaxFaults
  /\ faults' = faults + 1
  /\ lockFile' = IF lockFile = p THEN Orphan ELSE lockFile
  /\ pc' = [pc EXCEPT ![p] = "down"]
  /\ UNCHANGED <<aged, jammed, excuses>>

Restart(p) ==
  /\ pc[p] = "down"
  /\ pc' = [pc EXCEPT ![p] = "idle"]
  /\ UNCHANGED <<lockFile, aged, jammed, faults, excuses>>

(* The code a running process executes once it has called acquire.         *)
Step(p) ==
  \/ CreateLock(p) \/ CreateFails(p) \/ WriteToken(p) \/ WriteTokenFails(p)
  \/ SeeStale(p) \/ BreakLock(p) \/ GiveUp(p)
  \/ DropRead(p) \/ DropRemove(p)

Next ==
  \/ Age \/ Overstay \/ Jam \/ Unjam
  \/ \E p \in Proc : BeginAcquire(p) \/ Step(p) \/ Crash(p) \/ Restart(p)

Spec == Init /\ [][Next]_vars

(* A running process keeps running and time passes.  Nobody has to start a *)
(* command, to crash or to come back, and nothing has to make removals     *)
(* work again.                                                             *)
FairSpec == Spec /\ WF_vars(Age) /\ \A p \in Proc : WF_vars(Step(p))

----------------------------------------------------------------------------
(* Every variable keeps its range, and only a file that exists is old.     *)
TypeOK ==
  /\ lockFile \in Proc \cup {Absent, Orphan}
  /\ aged \in BOOLEAN
  /\ aged => lockFile # Absent
  /\ pc \in [Proc -> Steps]
  /\ jammed \in BOOLEAN
  /\ faults \in 0..MaxFaults
  /\ excuses \subseteq {"raced", "overstayed"}

(* "Exclusive team mutation lock" (store.rs:143): two processes never run  *)
(* a team mutation at the same time ...                                    *)
Exclusive == \A p, q \in Holders : p = q

(* ... at least if every holder is done within 120 s.  The code does not   *)
(* keep this: two waiters that found the same file stale both remove "it", *)
(* the second possibly the file of the first (store.rs:175-178).           *)
PromptHoldersExclude == "overstayed" \notin excuses => Exclusive

(* "Only remove the lock if it is still ours" (store.rs:205): until two    *)
(* waiters have found one file stale, or a holder has overstayed 120 s,    *)
(* the file a dropping process is about to remove is the one it created,   *)
(* so a drop never frees the lock under another holder.                    *)
DropRemovesOnlyOwn ==
  excuses = {} => \A p \in Proc : pc[p] = "dropping" => lockFile = p

(* The lock file implements the abstract lock up to and excluding the      *)
(* first step that the lock cannot withstand: crashes at any place, files  *)
(* left behind, waiters that break them one at a time, failing creations,  *)
(* writes and removals do not break the mutual exclusion (store.rs:5).     *)
Abstract == INSTANCE Mutex WITH holders <- Holders
ImplementsMutex == Abstract!Init /\ [][Abstract!Next \/ excuses' # {}]_Holders

(* A lock file left by a crash or a failed write does not block the team   *)
(* for ever: while processes keep trying, and removals do not fail for     *)
(* ever, it is broken (store.rs:150).                                      *)
OrphanIsBroken ==
  <>[]~jammed /\ []<>(\E p \in Proc : pc[p] = "trying")
    => (lockFile = Orphan ~> lockFile # Orphan)

(* Every acquire returns, with the lock or with an error, however the      *)
(* other processes crash and race, if removals do not fail for ever.  If   *)
(* they do, an acquire that finds a stale file never returns: the failure  *)
(* is ignored and `continue` passes the time-out by (store.rs:177-180),    *)
(* although it is "waiting up to a few seconds" (store.rs:150).            *)
AcquireReturns ==
  <>[]~jammed =>
    \A p \in Proc : pc[p] = "trying" ~> pc[p] \in {"holding", "idle", "down"}
=============================================================================
