------------------------------ MODULE TeamDesk ------------------------------
(***************************************************************************)
(* The desk of one checkout: who acts there (src/team/identity.rs), the    *)
(* registry of members (src/team/members.rs), and the two halves of every  *)
(* team mutation (src/team/workflow.rs): a preview plans and keeps what it *)
(* read, and applying it later plans again under the team lock and refuses *)
(* whatever came out differently.  TeamTransaction shows that an apply is  *)
(* atomic, so here it is one step.                                         *)
(*                                                                         *)
(* TeamInbox and TeamRelay extend this module with their records.  Each    *)
(* gives a planner: the records as the action leaves them, or Refused.     *)
(***************************************************************************)
EXTENDS Naturals, Sequences, FiniteSets

CONSTANTS
  Member,     \* ids of the registry
  Founder,    \* those registered at the start
  Leaver,     \* bound: those whose registration changes
  Git,        \* the member whose alias the checkout's Git identity matches, or Nobody
  Nobody,     \* the actor who is no member, and the empty selection
  Process,    \* Hub tabs, commands and agents that may sit on a preview
  Idle,       \* a process without one
  Refused     \* what a planner answers instead of a plan

ASSUME DeskAssumption ==
  /\ Founder \subseteq Member
  /\ Leaver \subseteq Member
  /\ Git \in Member \cup {Nobody}
  /\ Nobody \notin Member

VARIABLES
  status,     \* member -> "absent", "active" or "inactive"
  selected,   \* local/current_member.json
  desk        \* process -> the preview it holds, or Idle

deskVars == <<status, selected, desk>>
registry == <<status, selected>>

Active == {m \in Member : status[m] = "active"}

(* resolve_actor: the selection if it is active, else the one active       *)
(* member Git names, else nobody of the registry.                          *)
Resolved ==
  IF selected \in Active THEN selected
  ELSE IF Git \in Active THEN Git
  ELSE Nobody

DeskInit ==
  /\ status = [m \in Member |-> IF m \in Founder THEN "active" ELSE "absent"]
  /\ selected = Nobody
  /\ desk = [p \in Process |-> Idle]

----------------------------------------------------------------------------
(* The registry.  Only the selection stands in the way of a deactivation:  *)
(* what the member still has in hand does not.                             *)
Registers(m, s) ==
  /\ status' = [status EXCEPT ![m] = s]
  /\ UNCHANGED <<selected, desk>>

AddMember(m) == status[m] = "absent" /\ Registers(m, "active")

Deactivate(m) ==
  /\ status[m] = "active"
  /\ selected # m
  /\ Registers(m, "inactive")

Reactivate(m) == status[m] = "inactive" /\ Registers(m, "active")

SelectMember(m) ==
  /\ m \in Active
  /\ selected' = m
  /\ UNCHANGED <<status, desk>>

ClearSelection ==
  /\ selected' = Nobody
  /\ UNCHANGED <<status, desk>>

ChangeMembers ==
  \/ \E m \in Leaver : AddMember(m) \/ Deactivate(m) \/ Reactivate(m)
  \/ \E m \in Member : SelectMember(m)
  \/ ClearSelection

----------------------------------------------------------------------------
(* preview: the plan made now, by the actor of now, with the files it read *)
(* or would replace.  Nothing is written.                                  *)
Previews(p, act, now, plan, seen) ==
  /\ desk[p] = Idle
  /\ plan # Refused
  /\ desk' = [desk EXCEPT ![p] = [act |-> act, actor |-> Resolved, stamp |-> now,
                                  plan |-> plan, seen |-> seen]]
  /\ UNCHANGED registry

(* apply: the actor, every file read and the plan must be those of the     *)
(* preview.                                                                *)
Applies(p, plan, seen) ==
  /\ desk[p] # Idle
  /\ Resolved = desk[p].actor
  /\ seen = desk[p].seen
  /\ plan = desk[p].plan
  /\ desk' = [desk EXCEPT ![p] = Idle]
  /\ UNCHANGED registry

(* A preview not applied: refused, older than 30 minutes, or forgotten.    *)
Abandon(p) ==
  /\ desk[p] # Idle
  /\ desk' = [desk EXCEPT ![p] = Idle]
  /\ UNCHANGED registry

DeskTypeOK ==
  /\ status \in [Member -> {"absent", "active", "inactive"}]
  /\ selected \in Member \cup {Nobody}
  /\ \A p \in Process : desk[p] # Idle => desk[p].actor \in Member \cup {Nobody}
=============================================================================
