---------------------------- MODULE MCHubStreams ----------------------------
(***************************************************************************)
(* TLC instances of HubStreams; the executor is drift_job's, its two phase *)
(* reports merged: it has no checkpoint and replaces no index.             *)
(***************************************************************************)
EXTENDS HubStreams, TLC

CONSTANTS drift

Symmetry == Permutations(Client)

MCProgram == drift :> <<"phase">>
=============================================================================
