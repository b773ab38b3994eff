----------------------------- MODULE MCRecords -----------------------------
(***************************************************************************)
(* TLC instances of Records.  The wiki's batches: 1, a file, updates the   *)
(* entity of page 1 and replaces it by one that it makes on page 2; 2      *)
(* supersedes the same entity by the one of page 2 that was there, makes   *)
(* one under an id that it asks for, and asks for one that is there; 3     *)
(* moves the one of page 2 to page 1.                                      *)
(***************************************************************************)
EXTENDS Records, TLC

CONSTANTS ann, ben, cat, dan, main, dev, v, w, x1, x2

Symmetry ==
  Permutations({main, dev}) \cup Permutations({v, w}) \cup Permutations({x1, x2})

MCAudience == {[team |-> TRUE, to |-> {}]}

MCFirstEntity == ann :> 1 @@ ben :> 2 @@ cat :> 0 @@ dan :> 0

Op(o, kind, title, page, of, by) ==
  [op |-> o, kind |-> kind, title |-> title, id |-> <<of, 1>>, page |-> page,
   by |-> IF by = AnyId THEN AnyId ELSE <<by, 1>>, base |-> Unpinned]

MCProgram ==
  1 :> <<Op("u", "update", ann, 0, ann, ann), Op("r", "replace", cat, 2, ann, AnyId)>>
    @@ 2 :> <<Op("s", "supersede", ann, 0, ann, ben), Op("d", "create", dan, 1, dan, dan),
              Op("e", "create", ann, 1, ann, ann)>>
    @@ 3 :> <<Op("m", "move", ben, 1, ben, ann)>>

MCHandEdited == {<<ann, 1>>}
=============================================================================
