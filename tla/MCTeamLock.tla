----------------------------- MODULE MCTeamLock -----------------------------
(* TLC instances of TeamLock: three processes, so that a crashed holder    *)
(* leaves its file to two waiters.                                         *)
EXTENDS TeamLock
=============================================================================
