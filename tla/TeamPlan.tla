------------------------------ MODULE TeamPlan ------------------------------
(***************************************************************************)
(* What a team command plans (src/team/workflow.rs, plan_action and        *)
(* prepare), reduced to what the transaction machinery can tell apart.     *)
(*                                                                         *)
(* A file is Absent or the set of operations whose edits it carries, so a  *)
(* read-modify-write planned over an old version is visibly a lost update. *)
(* A command names its operation id, the files it edits and how, the files *)
(* it only reads, and whether it appends a line to the event log.          *)
(***************************************************************************)
CONSTANTS
  Path,      \* the files of the scaffold
  Op,        \* operation ids
  Absent,    \* the content of a file that does not exist
  Command    \* records [op, edits, reads, logs]

EditKinds == {"create", "update", "delete"}

ASSUME PlanAssumption ==
  /\ \A c \in Command :
       /\ c.op \in Op
       /\ DOMAIN c.edits \subseteq Path
       /\ \A path \in DOMAIN c.edits : c.edits[path] \in EditKinds
       /\ c.reads \subseteq Path
       /\ c.logs \in BOOLEAN

(* The planner reads the record it edits: it refuses to update or delete   *)
(* one that is missing and to create one that exists.                      *)
Plannable(c, files) ==
  \A path \in DOMAIN c.edits : files[path] = Absent <=> c.edits[path] = "create"

(* The content the planner computes from the content it read.              *)
Edited(c, path, content) ==
  CASE c.edits[path] = "create" -> {c.op}
    [] c.edits[path] = "update" -> content \cup {c.op}
    [] c.edits[path] = "delete" -> Absent

(* The planned content of every file the command writes.                   *)
Planned(c, files) == [path \in DOMAIN c.edits |-> Edited(c, path, files[path])]

(* `before == after` writes are left out of the changes.                   *)
Changed(after, files) == {path \in DOMAIN after : files[path] # after[path]}
=============================================================================
