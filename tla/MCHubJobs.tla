----------------------------- MODULE MCHubJobs -----------------------------
(***************************************************************************)
(* TLC instances of Hub.  The executors of jobs.rs with repeated phase     *)
(* reports merged: graph_job, wiki_job and cozo_job.                       *)
(***************************************************************************)
EXTENDS Hub, TLC

CONSTANTS graph, wiki, cozo

MCProgram ==
  graph :> <<"phase", "check", "publish", "phase">>
    @@ wiki :> <<"phase", "publish", "check", "phase">>
    @@ cozo :> <<"publish", "check", "phase", "publish">>

Symmetry == Permutations(Client)
=============================================================================
