-------------------------- MODULE TeamLock_proofs --------------------------
(***************************************************************************)
(* What the team lock keeps, for every set of processes and any number of  *)
(* faults: until two waiters have found one file stale, or a live holder   *)
(* has kept the lock for 120 s, it excludes.  Nothing is assumed of when   *)
(* either happens; crashes and failing creations, writes and removals are  *)
(* no excuse.                                                              *)
(***************************************************************************)
EXTENDS TeamLock, TLAPS

(* An owner's file is on disk, fresh and its own; a waiter about to break  *)
(* the lock is alone, and the file it saw is still there, stale and        *)
(* nobody's.  Neither half is inductive without the other: a breaker that  *)
(* removed a fresh file would let a second owner in, and a second owner    *)
(* could drop the first one's file.                                        *)
OneOwner ==
  /\ \A p \in Proc : p \in Owners => lockFile = p /\ ~aged
  /\ \A p \in Proc : pc[p] = "breaking" => lockFile # Absent /\ aged
  /\ \A p, q \in Proc : pc[p] = "breaking" /\ pc[q] = "breaking" => p = q

LockInv == excuses = {} => OneOwner

----------------------------------------------------------------------------
(* Every variable keeps its range, whatever processes and faults do, and   *)
(* only a lock file that exists is old.                                    *)
THEOREM TypeCorrect == Spec => []TypeOK
<1>1. Init => TypeOK
  <2>1. Init => faults \in 0..MaxFaults
    BY LockAssumption DEF LockAssumption, Init
  <2>2. QED
    BY <2>1 DEF Init, TypeOK, Steps
<1>2. TypeOK /\ [Next]_vars => TypeOK'
  <2> SUFFICES ASSUME TypeOK, [Next]_vars PROVE TypeOK'
    OBVIOUS
  <2> USE LockAssumption DEF LockAssumption, TypeOK, Steps
  <2>1. CASE Age \/ Overstay \/ Jam \/ Unjam
    <3>1. CASE Age
      BY <3>1 DEF Age
    <3>2. CASE Overstay
      BY <3>2 DEF Overstay, Owners
    <3>3. CASE Jam
      BY <3>3 DEF Jam
    <3>4. CASE Unjam
      BY <3>4 DEF Unjam
    <3>5. QED
      BY <2>1, <3>1, <3>2, <3>3, <3>4
  <2>2. ASSUME NEW p \in Proc,
               BeginAcquire(p) \/ CreateFails(p) \/ Crash(p) \/ Restart(p)
        PROVE  TypeOK'
    <3>1. CASE BeginAcquire(p)
      BY <3>1 DEF BeginAcquire
    <3>2. CASE CreateFails(p)
      BY <3>2 DEF CreateFails
    <3>3. CASE Crash(p)
      BY <3>3 DEF Crash
    <3>4. CASE Restart(p)
      BY <3>4 DEF Restart
    <3>5. QED
      BY <2>2, <3>1, <3>2, <3>3, <3>4
  <2>3. ASSUME NEW p \in Proc, CreateLock(p) \/ WriteToken(p) \/ WriteTokenFails(p)
        PROVE  TypeOK'
    <3>1. CASE CreateLock(p)
      BY <3>1 DEF CreateLock
    <3>2. CASE WriteToken(p)
      BY <3>2 DEF WriteToken
    <3>3. CASE WriteTokenFails(p)
      BY <3>3 DEF WriteTokenFails
    <3>4. QED
      BY <2>3, <3>1, <3>2, <3>3
  <2>4. ASSUME NEW p \in Proc, SeeStale(p) \/ BreakLock(p) \/ GiveUp(p)
        PROVE  TypeOK'
    <3>1. CASE SeeStale(p)
      BY <3>1 DEF SeeStale, Noticed
    <3>2. CASE BreakLock(p)
      BY <3>2 DEF BreakLock
    <3>3. CASE GiveUp(p)
      BY <3>3 DEF GiveUp
    <3>4. QED
      BY <2>4, <3>1, <3>2, <3>3
  <2>5. ASSUME NEW p \in Proc, DropRead(p) \/ DropRemove(p)
        PROVE  TypeOK'
    <3>1. CASE DropRead(p)
      BY <3>1 DEF DropRead
    <3>2. CASE DropRemove(p)
      BY <3>2 DEF DropRemove
    <3>3. QED
      BY <2>5, <3>1, <3>2
  <2>6. CASE UNCHANGED vars
    BY <2>6 DEF vars
  <2>7. QED
    BY <2>1, <2>2, <2>3, <2>4, <2>5, <2>6 DEF Next, Step
<1>3. QED
  BY <1>1, <1>2, PTL DEF Spec

----------------------------------------------------------------------------
(* Nobody owns a file or is about to break one before the first command.   *)
LEMMA LockInvInit == Init => LockInv
BY DEF Init, LockInv, OneOwner, Owners

(* One case per action that touches the file or a process's place.         *)
LEMMA LockInvStep ==
  ASSUME TypeOK, LockInv, [Next]_vars
  PROVE  LockInv'
<1> USE LockAssumption DEF LockAssumption, TypeOK, LockInv, OneOwner, Owners
<1>1. CASE Age \/ Overstay \/ Jam \/ Unjam
  BY <1>1 DEF Age, Overstay, Jam, Unjam
<1>2. ASSUME NEW p \in Proc, BeginAcquire(p)
      PROVE  LockInv'
  BY <1>2 DEF BeginAcquire
<1>3. ASSUME NEW p \in Proc, CreateLock(p)
      PROVE  LockInv'
  BY <1>3 DEF CreateLock
<1>4. ASSUME NEW p \in Proc, WriteToken(p)
      PROVE  LockInv'
  BY <1>4 DEF WriteToken
<1>5. ASSUME NEW p \in Proc, WriteTokenFails(p)
      PROVE  LockInv'
  BY <1>5 DEF WriteTokenFails
<1>6. ASSUME NEW p \in Proc, SeeStale(p)
      PROVE  LockInv'
  BY <1>6 DEF SeeStale, Noticed
<1>7. ASSUME NEW p \in Proc, BreakLock(p)
      PROVE  LockInv'
  BY <1>7 DEF BreakLock
<1>8. ASSUME NEW p \in Proc, GiveUp(p)
      PROVE  LockInv'
  BY <1>8 DEF GiveUp
<1>9. ASSUME NEW p \in Proc, DropRead(p)
      PROVE  LockInv'
  BY <1>9 DEF DropRead
<1>10. ASSUME NEW p \in Proc, DropRemove(p)
       PROVE  LockInv'
  BY <1>10 DEF DropRemove
<1>11. ASSUME NEW p \in Proc, Crash(p)
       PROVE  LockInv'
  BY <1>11 DEF Crash
<1>12. ASSUME NEW p \in Proc, Restart(p)
       PROVE  LockInv'
  BY <1>12 DEF Restart
<1>13. ASSUME NEW p \in Proc, CreateFails(p)
       PROVE  LockInv'
  BY <1>13 DEF CreateFails
<1>14. CASE UNCHANGED vars
  BY <1>14 DEF vars
<1>15. QED
  BY <1>1, <1>2, <1>3, <1>4, <1>5, <1>6, <1>7, <1>8, <1>9, <1>10, <1>11,
     <1>12, <1>13, <1>14 DEF Next, Step

(* What has been excused once stays so, and before that one owner is alone *)
(* with its file.                                                          *)
LEMMA LockInvariant == Spec => []LockInv
<1>1. TypeOK /\ LockInv /\ [Next]_vars => LockInv'
  BY LockInvStep
<1>2. QED
  BY LockInvInit, <1>1, TypeCorrect, PTL DEF Spec

(* Two holders would both have the one lock file be their own.             *)
LEMMA LockInvExcludes ==
  LockInv => (excuses = {} => Exclusive) /\ DropRemovesOnlyOwn
BY DEF LockInv, OneOwner, Exclusive, DropRemovesOnlyOwn, Holders, Owners

----------------------------------------------------------------------------
(* Two processes run a team mutation at the same time only after two       *)
(* waiters have found one file stale, or after a holder has overstayed.    *)
THEOREM MutualExclusion == Spec => [](excuses = {} => Exclusive)
BY LockInvariant, LockInvExcludes, PTL

(* A drop removes another process's lock file only after one of the two.   *)
THEOREM DropIsSafe == Spec => []DropRemovesOnlyOwn
BY LockInvariant, LockInvExcludes, PTL

(* An unexcused step that starts or ends a mutation is a step of the       *)
(* abstract lock.                                                          *)
LEMMA LockStepRefines ==
  ASSUME TypeOK, LockInv, [Next]_vars
  PROVE  [Abstract!Next \/ excuses' # {}]_Holders
<1> SUFFICES ASSUME excuses' = {}
             PROVE  [Abstract!Next]_Holders
  OBVIOUS
<1>0. excuses = {}
  <2>1. excuses \subseteq excuses'
    BY DEF Next, Step, vars, Age, Overstay, Jam, Unjam, BeginAcquire, CreateLock,
           CreateFails, WriteToken, WriteTokenFails, SeeStale, Noticed, BreakLock,
           GiveUp, DropRead, DropRemove, Crash, Restart
  <2>2. QED
    BY <2>1
<1> USE <1>0, LockAssumption
    DEF LockAssumption, TypeOK, LockInv, OneOwner, Owners, Holders
<1>1. ASSUME NEW p \in Proc, CreateLock(p)
      PROVE  Abstract!Enter(p)
  BY <1>1 DEF CreateLock, Abstract!Enter
<1>2. ASSUME NEW p \in Proc, DropRead(p) \/ WriteTokenFails(p)
      PROVE  Abstract!Leave(p)
  BY <1>2 DEF DropRead, WriteTokenFails, Abstract!Leave
<1>3. ASSUME NEW p \in Proc, Crash(p)
      PROVE  Abstract!Leave(p) \/ Holders' = Holders
  BY <1>3 DEF Crash, Abstract!Leave
<1>4. ASSUME NEW p \in Proc, WriteToken(p)
      PROVE  Holders' = Holders
  BY <1>4 DEF WriteToken
<1>5. ASSUME NEW p \in Proc,
             \/ BeginAcquire(p) \/ CreateFails(p) \/ SeeStale(p)
             \/ BreakLock(p) \/ GiveUp(p) \/ DropRemove(p) \/ Restart(p)
      PROVE  Holders' = Holders
  BY <1>5
     DEF BeginAcquire, CreateFails, SeeStale, Noticed, BreakLock, GiveUp,
         DropRemove, Restart
<1>6. CASE Age \/ Overstay \/ Jam \/ Unjam \/ UNCHANGED vars
  BY <1>6 DEF Age, Overstay, Jam, Unjam, vars
<1>7. QED
  BY <1>1, <1>2, <1>3, <1>4, <1>5, <1>6 DEF Next, Step, Abstract!Next

(* The lock file, with its crashes, its ages and its failing calls,        *)
(* implements the abstract lock up to the first race of two waiters or     *)
(* overstayed lock.                                                        *)
THEOREM LockRefinesMutex == Spec => ImplementsMutex
<1>1. Init => Abstract!Init
  BY DEF Init, Abstract!Init, Holders
<1>2. TypeOK /\ LockInv /\ [Next]_vars => [Abstract!Next \/ excuses' # {}]_Holders
  BY LockStepRefines
<1>3. QED
  BY <1>1, <1>2, TypeCorrect, LockInvariant, PTL
     DEF Spec, ImplementsMutex
=============================================================================
