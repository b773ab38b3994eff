-------------------------------- MODULE Hub --------------------------------
(***************************************************************************)
(* The Hub's shared state (src/hub/mod.rs, HubState): its jobs, its        *)
(* sessions and its set-up service.  None of them looks at another, so     *)
(* every interleaving is one of each: a behaviour exercises one part, the  *)
(* others stay as they were when the Hub started.                          *)
(***************************************************************************)
EXTENDS HubJobs, HubSessions, SetupWizard

VARIABLE
  part      \* which part of the Hub this behaviour exercises

hubState == <<vars, hubVars, setupVars, part>>

HubStateInit ==
  /\ Init
  /\ HubInit
  /\ SetupInit
  /\ part \in {"jobs", "sessions", "setup"}

HubStateNext ==
  \/ part = "jobs" /\ Next /\ UNCHANGED <<hubVars, setupVars, part>>
  \/ part = "sessions" /\ HubNext /\ UNCHANGED <<vars, setupVars, part>>
  \/ part = "setup" /\ SetupNext /\ UNCHANGED <<vars, hubVars, part>>

HubStateSpec ==
  /\ HubStateInit /\ [][HubStateNext]_hubState
  /\ \A c \in Client : WF_vars(RequestStep(c))
  /\ \A i \in Ids : WF_vars(ThreadStep(i))
  /\ HubFairness
  /\ SetupFairness
=============================================================================
