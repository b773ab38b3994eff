------------------------------- MODULE Mutex -------------------------------
(***************************************************************************)
(* What "an exclusive cross-process lock file for team mutations"          *)
(* (src/team/store.rs, line 5) promises: at any time at most one process   *)
(* runs a team mutation.  A process leaves by releasing the lock or by     *)
(* dying; the abstract lock does not care which.                           *)
(***************************************************************************)
CONSTANT Proc          \* the knobyte processes of one checkout

VARIABLE holders       \* the processes inside a team mutation

Enter(p) == holders = {} /\ holders' = {p}

Leave(p) == p \in holders /\ holders' = holders \ {p}

Init == holders = {}

Next == \E p \in Proc : Enter(p) \/ Leave(p)

Spec == Init /\ [][Next]_holders

=============================================================================
