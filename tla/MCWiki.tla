------------------------------- MODULE MCWiki -------------------------------
(***************************************************************************)
(* A TLC instance of WikiOperations: two files create an entity of one     *)
(* title on one page, and the first changes another page before.           *)
(***************************************************************************)
EXTENDS WikiOperations, TLC

CONSTANTS ann, ben, cat, v

MCFirstEntity == ann :> 1 @@ ben :> 2 @@ cat :> 0

Op(o, kind, title, page) ==
  [op |-> o, kind |-> kind, title |-> title, id |-> <<title, 1>>, page |-> page,
   by |-> IF kind = "create" THEN AnyId ELSE <<title, 1>>, base |-> Unpinned]

MCNamesakes ==
  1 :> <<Op("u", "update", ben, 0), Op("n", "create", cat, 1)>>
    @@ 2 :> <<Op("n2", "create", cat, 1)>>

MCHandEdited == {<<ann, 1>>}
=============================================================================
