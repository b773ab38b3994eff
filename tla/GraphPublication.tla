-------------------------- MODULE GraphPublication --------------------------
(***************************************************************************)
(* What the maintenance of a code graph promises its readers: the live     *)
(* database changes only by whole publications, each under an id that was  *)
(* never used before and with rows that are faithful to the tree; or it is *)
(* damaged, mended as it was, or moved aside for an empty one by a rebuild *)
(* that could not open it.                                                 *)
(***************************************************************************)
EXTENDS SourceTree

CONSTANT MaxBuilds  \* bound: publication ids given out

ASSUME PublicationAssumption == MaxBuilds \in Nat

VARIABLES
  live,  \* the live database: [sound, built, index, pub]
  spent  \* publication ids up to this one will not be published any more

vars == <<tree, edits, live, spent>>

(* A graph nobody has built; its publication id, 0, is None.               *)
NotBuilt == [sound |-> TRUE, built |-> FALSE, index |-> <<>>, pub |-> 0]

Init ==
  /\ TreeInit
  /\ live = NotBuilt
  /\ spent = 0

Indexes == {index \in UNION {[files -> [hash : Content, mtime : 0..(edits + 1)]] :
                              files \in SUBSET File} : Faithful(index)}

Publish ==
  /\ spent < MaxBuilds
  /\ spent' = spent + 1
  /\ \E index \in Indexes : \E sound \in {live.sound, TRUE} :
       live' = [sound |-> sound, built |-> TRUE, index |-> index, pub |-> spent']

(* A run that was given an id dies or stops before it publishes.           *)
Abandon ==
  /\ spent < MaxBuilds
  /\ spent' = spent + 1
  /\ UNCHANGED live

Damage == live.built /\ live' = [live EXCEPT !.sound = FALSE] /\ UNCHANGED spent
Mend == live' = [live EXCEPT !.sound = TRUE] /\ UNCHANGED spent
MoveAside == live' = NotBuilt /\ UNCHANGED spent

Maintain == (Publish \/ Abandon \/ Damage \/ Mend \/ MoveAside) /\ UNCHANGED <<tree, edits>>

Change == \E f \in File : \E new \in Content \cup {Absent} : Edit(f, new)

Next == Maintain \/ (Change /\ UNCHANGED <<live, spent>>)

Spec == Init /\ [][Next]_vars
=============================================================================
