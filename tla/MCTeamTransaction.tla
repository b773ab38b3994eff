------------------------- MODULE MCTeamTransaction -------------------------
(***************************************************************************)
(* TLC instances of TeamTransaction: a draft and the record published from *)
(* it.  Two commands share an operation id; "draft" and "publish" undo     *)
(* each other's files, so contents come back to what an old envelope saw.  *)
(***************************************************************************)
EXTENDS TeamTransaction, Functions, TLC

CONSTANTS draft, record, op1, op2

MCCommand ==
  {[op |-> op1, edits |-> draft :> "create", reads |-> {}, logs |-> FALSE],
   [op |-> op2, edits |-> draft :> "delete" @@ record :> "create", reads |-> {}, logs |-> TRUE],
   [op |-> op2, edits |-> record :> "update", reads |-> {draft}, logs |-> TRUE]}

(* Without the third, for the runs with I/O errors.                        *)
MCTwoCommands == {c \in MCCommand : "delete" \in Range(c.edits) \/ c.op = op1}

Symmetry == Permutations(Proc)
=============================================================================
