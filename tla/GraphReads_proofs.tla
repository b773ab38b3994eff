-------------------------- MODULE GraphReads_proofs --------------------------
(***************************************************************************)
(* What a read session returns is true of the tree, whatever the number of *)
(* files, edits, publications and retries.                                 *)
(*                                                                         *)
(* The argument: edits give a file a modification time no row has, so rows *)
(* that are faithful stay faithful; an inspection that finds a file not    *)
(* drifted therefore relates its row to a content the file has now; and a  *)
(* publication id names one set of rows for ever, so the session, which is *)
(* opened later, has the rows that were inspected.  What drifted and is    *)
(* not listed passes only a tolerant read.  And an attempt that fails has  *)
(* met a change of its own, so that one change never fails a read.         *)
(***************************************************************************)
EXTENDS GraphReads, TLAPS

Index == UNION {[files -> [hash : Content, mtime : Nat]] : files \in SUBSET File}
Database == [sound : BOOLEAN, built : BOOLEAN, index : Index, pub : Nat]

TreeOK ==
  /\ edits \in Nat
  /\ tree \in [File -> [content : Content \cup {Absent}, mtime : 1..(edits + 1)]]

(* Rows no later edit can make unfaithful.                                 *)
Recorded(index) ==
  /\ DOMAIN index \subseteq File
  /\ \A f \in DOMAIN index : index[f].mtime \in 0..(edits + 1)
  /\ Faithful(index)

LiveOK ==
  /\ spent \in Nat
  /\ live \in Database
  /\ live.pub <= spent
  /\ live.built <=> live.pub # 0
  /\ Recorded(live.index)

ReadsAt(places) ==
  [at : places, tolerant : BOOLEAN, observed : Nat, opened : Nat, before : Nat, db : Database,
   scanned : BOOLEAN, listed : SUBSET File, todo : SUBSET File, drifted : SUBSET File,
   unlisted : SUBSET File, session : Database]

ReaderOK ==
  reader \in ReadsAt(Outcomes \cup {"observing", "inspecting", "comparing", "opening", "serving"})

WitnessOK ==
  /\ DOMAIN witness = File
  /\ reader.at \in {"inspecting", "comparing", "opening", "serving"} =>
       \A f \in File : tree[f].content \in witness[f]

Inspected == reader.at \in {"comparing", "opening", "serving"}

(* The rows that were inspected: those of their publication id.            *)
InspectedOK ==
  Inspected =>
    /\ Recorded(reader.db.index)
    /\ reader.db.pub <= spent
    /\ (live.built /\ reader.db.built /\ live.pub = reader.db.pub) =>
         live.index = reader.db.index
    /\ At("comparing") => \A f \in File \ reader.listed : Absent \in witness[f]
    /\ ~At("comparing") => reader.todo = {} /\ reader.db.built

(* What a comparison has established of a file.                            *)
Established(f) ==
  IF f \in DOMAIN reader.db.index
  THEN reader.db.index[f].hash \in witness[f] \/ reader.db.index[f].mtime = 0
  ELSE Absent \in witness[f]

Unlisted == IF At("comparing") THEN {} ELSE reader.unlisted

ComparedOK ==
  (Inspected /\ reader.db.built /\ reader.scanned) =>
    \A f \in File \ (reader.todo \cup reader.drifted \cup Unlisted) : Established(f)

(* What the list of changes does not tell a strict read, only a failed     *)
(* scan hides.                                                             *)
ListedOK ==
  reader.at \in {"opening", "serving"} =>
    /\ reader.unlisted # {} => reader.tolerant \/ ~reader.scanned
    /\ ~reader.scanned => reader.unlisted = File

SessionOK == At("serving") => reader.session.index = reader.db.index

IInv ==
  /\ TreeOK /\ LiveOK /\ ReaderOK /\ WitnessOK
  /\ InspectedOK /\ ComparedOK /\ ListedOK /\ SessionOK

----------------------------------------------------------------------------
LEMMA NotBuiltIsDatabase == NotBuilt \in Database /\ Recorded(<<>>)
<1>1. <<>> \in [{} -> [hash : Content, mtime : Nat]]
  OBVIOUS
<1>2. <<>> \in Index
  BY <1>1 DEF Index
<1>3. DOMAIN <<>> = {}
  OBVIOUS
<1> QED BY <1>2, <1>3 DEF NotBuilt, Database, Recorded, Faithful

(* The rows a publication may have.                                        *)
LEMMA IndexesAreRecorded ==
  ASSUME TreeOK, NEW index \in Indexes
  PROVE  index \in Index /\ Recorded(index)
<1>1. PICK files \in SUBSET File : index \in [files -> [hash : Content, mtime : 0..(edits + 1)]]
  BY DEF Indexes
<1>2. index \in [files -> [hash : Content, mtime : Nat]]
  BY <1>1 DEF TreeOK
<1>3. index \in Index
  BY <1>2 DEF Index
<1>4. \A f \in DOMAIN index : index[f].mtime \in 0..(edits + 1)
  BY <1>1
<1> QED BY <1>1, <1>3, <1>4 DEF Recorded, Indexes

(* An edit leaves recorded rows recorded: its modification time is new.    *)
LEMMA RecordedIsStable ==
  ASSUME TreeOK, NEW index, Recorded(index), NEW f \in File, NEW new, Edit(f, new)
  PROVE  Recorded(index)'
<1>1. edits' = edits + 1 /\ tree' = [tree EXCEPT ![f] = [content |-> new, mtime |-> edits + 2]]
  BY DEF Edit
<1>2. \A g \in DOMAIN index : index[g].mtime \in 0..(edits' + 1)
  BY <1>1 DEF Recorded, TreeOK
<1>3. ASSUME NEW g \in DOMAIN index, index[g].mtime = Mtime(g)', g \in Present'
      PROVE  index[g].hash = tree'[g].content
  <2>1. g \in File /\ index[g].mtime \in 0..(edits + 1)
    BY DEF Recorded
  <2>2. Mtime(g)' = tree'[g].mtime
    BY <1>3 DEF Mtime, Present
  <2>3. g # f
    BY <1>1, <1>3, <2>1, <2>2 DEF TreeOK
  <2>4. tree'[g] = tree[g]
    BY <1>1, <2>1, <2>3 DEF TreeOK
  <2> QED BY <1>3, <2>1, <2>4 DEF Recorded, Faithful, Mtime, Present
<1> QED BY <1>2, <1>3 DEF Recorded, Faithful

LEMMA InitIsGood == ReadInit => IInv
<1> SUFFICES ASSUME ReadInit PROVE IInv
  OBVIOUS
<1> USE DEF ReadInit, Init, TreeInit
<1>1. TreeOK
  BY DEF TreeOK
<1>2. LiveOK
  BY NotBuiltIsDatabase DEF LiveOK, NotBuilt
<1>3. ReaderOK
  BY NotBuiltIsDatabase DEF ReaderOK, ReadsAt, NoRead, Outcomes
<1>4. reader.at = "idle"
  BY DEF NoRead
<1>5. WitnessOK
  BY <1>4 DEF WitnessOK
<1> QED BY <1>1, <1>2, <1>3, <1>4, <1>5
       DEF IInv, InspectedOK, ComparedOK, ListedOK, SessionOK, Inspected, At

----------------------------------------------------------------------------
(* The steps of the reader leave the tree and the database alone.          *)
LEMMA ReaderStepIsGood ==
  ASSUME IInv, ReadStep
  PROVE  IInv'
<1> USE DEF IInv, At, Answer
<1>1. TreeOK' /\ LiveOK'
  <2>1. UNCHANGED <<tree, edits, live, spent>>
    BY DEF ReadStep, Begin, Observe, Inspect, Compare, Settle, Open, Finish, vars
  <2> QED BY <2>1 DEF TreeOK, LiveOK, Recorded, Faithful, Mtime, Present
<1>2. NotBuilt \in Database /\ reader.observed + 1 \in Nat /\ reader.opened + 1 \in Nat
      /\ reader.tolerant \in BOOLEAN
  BY NotBuiltIsDatabase DEF ReaderOK, ReadsAt
<1>3. NoRead \in ReadsAt(Outcomes)
  BY NotBuiltIsDatabase DEF NoRead, Outcomes, ReadsAt
<1>4. ASSUME reader' \in ReadsAt(Outcomes \cup {"observing"}), UNCHANGED witness
      PROVE  IInv'
  <2>1. ReaderOK'
    BY <1>4 DEF ReaderOK, ReadsAt
  <2>2. reader'.at \notin {"inspecting", "comparing", "opening", "serving"}
    BY <1>4 DEF Outcomes, ReadsAt
  <2> QED BY <1>1, <1>4, <2>1, <2>2
          DEF WitnessOK, InspectedOK, ComparedOK, ListedOK, SessionOK, Inspected
<1>5. ASSUME NEW outcome \in Outcomes, Answer(outcome), UNCHANGED witness
      PROVE  IInv'
  BY <1>3, <1>4, <1>5 DEF Outcomes, ReadsAt
<1>6. ASSUME NEW tolerant \in BOOLEAN, Begin(tolerant)
      PROVE  IInv'
  <2>1. reader' = [NoRead EXCEPT !.at = "observing", !.tolerant = tolerant]
    BY <1>6 DEF Begin
  <2> QED BY <1>3, <1>4, <1>6, <2>1 DEF Begin, ReadsAt
<1>7. CASE Observe
  <2>1. PICK id \in PublicationIds :
          reader' = [reader EXCEPT !.at = "inspecting", !.observed = @ + 1, !.before = id,
                                   !.db = NotBuilt, !.scanned = TRUE, !.listed = {},
                                   !.drifted = {}]
    BY <1>7 DEF Observe
  <2>2. id \in Nat
    BY DEF PublicationIds, LiveOK, Database
  <2>3. ReaderOK' /\ reader'.at = "inspecting"
    <3> DEFINE n == reader.observed + 1
    <3>1. reader' = [reader EXCEPT !.at = "inspecting", !.observed = n, !.before = id,
                                   !.db = NotBuilt, !.scanned = TRUE, !.listed = {},
                                   !.drifted = {}]
      BY <2>1
    <3>2. n \in Nat
      BY <1>2
    <3> HIDE DEF n
    <3> QED BY <1>2, <2>2, <3>1, <3>2 DEF ReaderOK, ReadsAt
  <2>4. WitnessOK'
    BY <1>7, <2>3 DEF Observe, WitnessOK, vars
  <2> QED BY <1>1, <2>3, <2>4 DEF InspectedOK, ComparedOK, ListedOK, SessionOK, Inspected
<1>8. CASE Inspect
  <2>1. CASE live.sound
    <3>1. PICK scanned \in BOOLEAN :
            reader' = [reader EXCEPT !.at = "comparing", !.db = live, !.scanned = scanned,
                                     !.listed = Present,
                                     !.todo = IF live.built /\ scanned THEN File ELSE {}]
      BY <1>8, <2>1 DEF Inspect
    <3>2. ReaderOK' /\ reader'.at = "comparing"
      BY <3>1 DEF ReaderOK, ReadsAt, LiveOK, Present
    <3>3. /\ reader'.db = live /\ reader'.listed = Present
          /\ live.built /\ reader'.scanned => reader'.todo = File
      BY <3>1 DEF ReaderOK, ReadsAt
    <3>4. WitnessOK'
      BY <1>8, <3>2 DEF Inspect, WitnessOK, vars
    <3>5. \A f \in File \ Present : Absent \in witness[f]
      BY <1>8 DEF Inspect, WitnessOK, Present
    <3>6. InspectedOK'
      <4>1. UNCHANGED <<tree, edits, live, spent, witness>>
        BY <1>8 DEF Inspect, vars
      <4>2. Recorded(live.index)' /\ live.pub <= spent
        BY <1>1, <4>1 DEF LiveOK
      <4> QED BY <3>2, <3>3, <3>5, <4>1, <4>2 DEF InspectedOK, Inspected
    <3> QED BY <1>1, <3>2, <3>3, <3>4, <3>6 DEF ComparedOK, ListedOK, SessionOK
  <2>2. CASE ~live.sound
    BY <1>5, <1>8, <2>2 DEF Inspect, Outcomes
  <2> QED BY <2>1, <2>2
<1>9. ASSUME NEW f \in File, Compare(f)
      PROVE  IInv'
  <2>1. PICK differs \in {Drifted(f), Drifted(f) \/ IsRead(f)} :
          reader' = [reader EXCEPT !.todo = @ \ {f},
                                   !.drifted = IF differs THEN @ \cup {f} ELSE @]
    BY <1>9 DEF Compare
  <2>2. /\ reader.at = "comparing" /\ reader'.at = "comparing"
        /\ reader'.db = reader.db /\ reader'.listed = reader.listed
        /\ reader'.scanned = reader.scanned
        /\ reader'.todo = reader.todo \ {f}
        /\ reader.drifted \subseteq reader'.drifted
        /\ Drifted(f) => f \in reader'.drifted
    BY <1>9, <2>1 DEF Compare, ReaderOK, ReadsAt
  <2>3. ReaderOK'
    BY <2>1 DEF ReaderOK, ReadsAt
  <2>4. WitnessOK'
    BY <1>9, <2>2 DEF Compare, WitnessOK, vars
  <2>5. InspectedOK'
    BY <1>1, <1>9, <2>2 DEF Compare, InspectedOK, Inspected, LiveOK, Recorded, Faithful,
                            Mtime, Present, vars
  <2>6. ~Drifted(f) => Established(f)
    <3> SUFFICES ASSUME ~Drifted(f) PROVE Established(f)
      OBVIOUS
    <3>1. tree[f].content \in witness[f]
      BY <2>2 DEF WitnessOK
    <3>2. f \notin reader.listed => Absent \in witness[f]
      BY <2>2 DEF InspectedOK, Inspected
    <3>3. CASE f \notin DOMAIN reader.db.index
      BY <3>2, <3>3 DEF Drifted, Established
    <3>4. CASE f \in DOMAIN reader.db.index /\ reader.db.index[f].hash = tree[f].content
      BY <3>1, <3>4 DEF Established
    <3>5. CASE f \in DOMAIN reader.db.index /\ reader.db.index[f].mtime = Mtime(f)
      <4>1. f \in Present => reader.db.index[f].hash = tree[f].content
        BY <2>2, <3>5 DEF InspectedOK, Inspected, Recorded, Faithful
      <4>2. f \notin Present => Mtime(f) = 0
        BY DEF Mtime, Present
      <4> QED BY <3>1, <3>5, <4>1, <4>2 DEF Established
    <3> QED BY <3>3, <3>4, <3>5 DEF Drifted
  <2>7. \A g \in File : Established(g) => Established(g)'
    BY <1>9, <2>2 DEF Established, Compare
  <2>8. ComparedOK'
    BY <2>2, <2>6, <2>7 DEF ComparedOK, Inspected, Unlisted
  <2> QED BY <1>1, <2>2, <2>3, <2>4, <2>5, <2>8 DEF ListedOK, SessionOK
<1>10. CASE Settle
  <2>1. CASE \E outcome \in Outcomes : Answer(outcome)
    BY <1>5, <1>10, <2>1 DEF Settle
  <2>2. CASE reader' = [reader EXCEPT !.at = "observing"]
    BY <1>4, <1>10, <2>2 DEF Settle, ReaderOK, ReadsAt
  <2>3. ASSUME NEW cut \in Cuts, reader.db.built, ~cut.truncated \/ reader.tolerant,
               reader' = [reader EXCEPT !.at = "opening", !.listed = {}, !.drifted = cut.list,
                            !.unlisted = IF reader.scanned THEN reader.drifted \ cut.list
                                         ELSE File]
        PROVE  IInv'
    <3>1. /\ reader.at = "comparing" /\ reader'.at = "opening"
          /\ reader'.db = reader.db /\ reader'.scanned = reader.scanned
          /\ reader'.tolerant = reader.tolerant
          /\ reader'.todo = reader.todo /\ reader.todo = {}
          /\ reader'.drifted = cut.list
          /\ reader'.unlisted = IF reader.scanned THEN reader.drifted \ cut.list ELSE File
      BY <1>10, <2>3 DEF Settle, ReaderOK, ReadsAt
    <3>2. /\ cut.list \subseteq reader.drifted
          /\ cut.truncated \/ cut.list = reader.drifted
      BY DEF Cuts
    <3>3. ReaderOK'
      BY <2>3, <3>2 DEF ReaderOK, ReadsAt
    <3>4. WitnessOK'
      BY <1>10, <3>1 DEF Settle, WitnessOK, vars
    <3>5. InspectedOK'
      BY <1>10, <2>3, <3>1 DEF Settle, InspectedOK, Inspected, Recorded, Faithful,
                               Mtime, Present, vars
    <3>6. ComparedOK'
      BY <1>10, <2>3, <3>1, <3>2 DEF Settle, ComparedOK, Inspected, Established, Unlisted
    <3>7. ListedOK'
      BY <2>3, <3>1, <3>2 DEF ListedOK
    <3> QED BY <1>1, <3>1, <3>3, <3>4, <3>5, <3>6, <3>7 DEF SessionOK
  <2>4. "refused" \in Outcomes /\ "raced" \in Outcomes
    BY DEF Outcomes
  <2> QED BY <1>10, <2>1, <2>2, <2>3, <2>4 DEF Settle
<1>11. CASE Open
  <2>1. CASE reader' = [reader EXCEPT !.at = "serving", !.session = live]
             /\ live.built /\ live.pub = reader.db.pub
    <3>1. /\ reader.at = "opening" /\ reader'.at = "serving"
          /\ reader'.db = reader.db /\ reader'.scanned = reader.scanned
          /\ reader'.todo = reader.todo /\ reader'.drifted = reader.drifted
          /\ reader'.unlisted = reader.unlisted /\ reader'.tolerant = reader.tolerant
          /\ reader'.session = live
      BY <1>11, <2>1 DEF Open, ReaderOK, ReadsAt
    <3>2. ReaderOK'
      BY <2>1 DEF ReaderOK, ReadsAt, LiveOK
    <3>3. WitnessOK'
      BY <1>11, <3>1 DEF Open, WitnessOK, vars
    <3>4. InspectedOK'
      BY <1>11, <3>1 DEF Open, InspectedOK, Inspected, Recorded, Faithful,
                         Mtime, Present, vars
    <3>5. ComparedOK' /\ ListedOK'
      BY <1>11, <3>1 DEF Open, ComparedOK, ListedOK, Inspected, Established, Unlisted
    <3>6. SessionOK'
      BY <2>1, <3>1 DEF SessionOK, InspectedOK, Inspected
    <3> QED BY <1>1, <3>2, <3>3, <3>4, <3>5, <3>6
  <2>2. CASE reader' = [NoRead EXCEPT !.at = "observing", !.tolerant = reader.tolerant,
                                      !.opened = reader.opened + 1]
    <3> DEFINE n == reader.opened + 1
    <3>1. n \in Nat /\ reader' = [NoRead EXCEPT !.at = "observing", !.tolerant = reader.tolerant,
                                                !.opened = n]
      BY <1>2, <2>2
    <3> HIDE DEF n
    <3>2. reader' \in ReadsAt(Outcomes \cup {"observing"})
      BY <1>2, <1>3, <3>1 DEF ReadsAt
    <3> QED BY <1>4, <1>11, <3>2 DEF Open
  <2>3. CASE \E outcome \in Outcomes : Answer(outcome)
    BY <1>5, <1>11, <2>3 DEF Open
  <2> QED BY <1>11, <2>1, <2>2, <2>3 DEF Open, Outcomes
<1>12. CASE Finish
  BY <1>5, <1>12 DEF Finish, Outcomes
<1> QED BY <1>6, <1>7, <1>8, <1>9, <1>10, <1>11, <1>12 DEF ReadStep

----------------------------------------------------------------------------
(* Maintenance: the reader keeps its rows, and no later publication has    *)
(* the id they were inspected under.                                       *)
LEMMA MaintainIsGood ==
  ASSUME IInv, Maintain, UNCHANGED <<reader, witness>>
  PROVE  IInv'
<1> USE DEF IInv
<1>1. TreeOK' /\ UNCHANGED <<tree, edits>>
  BY DEF Maintain, TreeOK
<1>2. ReaderOK' /\ WitnessOK' /\ ComparedOK' /\ ListedOK' /\ SessionOK'
  BY <1>1 DEF ReaderOK, WitnessOK, ComparedOK, ListedOK, SessionOK, Established, Inspected,
              Unlisted, At
<1>3. \A index : Recorded(index) => Recorded(index)'
  BY <1>1 DEF Recorded, Faithful, Mtime, Present
<1> DEFINE SameRows == Inspected =>
                         /\ reader.db.pub <= spent'
                         /\ (live'.built /\ reader.db.built /\ live'.pub = reader.db.pub) =>
                              live'.index = reader.db.index
<1>4. SUFFICES LiveOK' /\ SameRows
  <2>1. Inspected => Recorded(reader.db.index)'
    BY <1>1 DEF InspectedOK, Recorded, Faithful, Mtime, Present
  <2>2. SameRows => InspectedOK'
    BY <2>1 DEF InspectedOK, Inspected, At
  <2> QED BY <1>1, <1>2, <2>2
<1>5. reader.db.pub \in Nat
  BY DEF ReaderOK, ReadsAt, Database
<1>6. CASE Publish
  <2>1. PICK index \in Indexes, sound \in {live.sound, TRUE} :
          live' = [sound |-> sound, built |-> TRUE, index |-> index, pub |-> spent']
    BY <1>6 DEF Publish
  <2>2. spent' = spent + 1 /\ index \in Index /\ Recorded(index) /\ sound \in BOOLEAN
    BY <1>6, IndexesAreRecorded DEF Publish, LiveOK, Database
  <2>3. live' \in Database /\ live'.pub = spent + 1 /\ live'.index = index /\ live'.built
    BY <2>1, <2>2 DEF LiveOK, Database
  <2>4. LiveOK'
    BY <1>3, <2>2, <2>3 DEF LiveOK
  <2>5. Inspected => reader.db.pub <= spent
    BY DEF InspectedOK
  <2> QED BY <1>5, <2>2, <2>3, <2>4, <2>5 DEF LiveOK
<1>7. CASE Abandon
  BY <1>3, <1>5, <1>7 DEF Abandon, LiveOK, InspectedOK, Database
<1>8. CASE Damage \/ Mend
  <2>1. PICK sound \in BOOLEAN : live' = [live EXCEPT !.sound = sound] /\ spent' = spent
    BY <1>8 DEF Damage, Mend
  <2>2. /\ live' \in Database /\ live'.built = live.built /\ live'.index = live.index
        /\ live'.pub = live.pub
    BY <2>1 DEF LiveOK, Database
  <2> QED BY <1>3, <2>1, <2>2 DEF LiveOK, InspectedOK
<1>9. CASE MoveAside
  <2>1. live' = NotBuilt /\ spent' = spent
    BY <1>9 DEF MoveAside
  <2>2. Recorded(<<>>)' /\ live' \in Database /\ live'.index = <<>> /\ live'.pub = 0
        /\ ~live'.built
    BY <1>3, <2>1, NotBuiltIsDatabase DEF NotBuilt
  <2> QED BY <2>1, <2>2 DEF LiveOK, InspectedOK
<1> QED BY <1>6, <1>7, <1>8, <1>9 DEF Maintain

(* An edit: rows stay recorded, and the witness only grows.                *)
LEMMA ChangeIsGood ==
  ASSUME IInv, Change, UNCHANGED <<live, spent, reader>>,
         witness' = [f \in File |-> witness[f] \cup {tree'[f].content}]
  PROVE  IInv'
<1> USE DEF IInv
<1>1. PICK f \in File, new \in Content \cup {Absent} : Edit(f, new)
  BY DEF Change
<1>2. edits' = edits + 1 /\ tree' = [tree EXCEPT ![f] = [content |-> new, mtime |-> edits + 2]]
  BY <1>1 DEF Edit
<1>3. TreeOK'
  BY <1>2 DEF TreeOK
<1>4. \A index : Recorded(index) => Recorded(index)'
  BY <1>1, RecordedIsStable
<1>5. LiveOK'
  BY <1>4 DEF LiveOK
<1>6. ReaderOK' /\ ListedOK' /\ SessionOK' /\ WitnessOK'
  BY DEF ReaderOK, ListedOK, SessionOK, WitnessOK, At
<1>7. \A g \in File : witness[g] \subseteq witness'[g]
  OBVIOUS
<1>8. InspectedOK'
  BY <1>4, <1>7 DEF InspectedOK, Inspected, At
<1>9. ComparedOK'
  BY <1>7 DEF ComparedOK, Inspected, Established, Unlisted, At
<1> QED BY <1>3, <1>5, <1>6, <1>8, <1>9

LEMMA StepIsGood == IInv /\ [ReadNext]_allVars => IInv'
<1> SUFFICES ASSUME IInv, [ReadNext]_allVars PROVE IInv'
  OBVIOUS
<1>1. CASE ReadStep
  BY <1>1, ReaderStepIsGood
<1>2. CASE Maintain /\ UNCHANGED <<reader, witness>>
  BY <1>2, MaintainIsGood
<1>3. CASE Change /\ UNCHANGED <<live, spent, reader>>
           /\ witness' = [f \in File |-> witness[f] \cup {tree'[f].content}]
  BY <1>3, ChangeIsGood
<1>4. CASE UNCHANGED allVars
  BY <1>4 DEF allVars, vars, readVars, IInv, TreeOK, LiveOK, ReaderOK, WitnessOK, InspectedOK,
              ComparedOK, ListedOK, SessionOK, Inspected, Established, Unlisted, Recorded,
              Faithful, Mtime, Present, At
<1> QED BY <1>1, <1>2, <1>3, <1>4 DEF ReadNext

(* The invariant holds of every read under any maintenance.                *)
LEMMA InvariantHolds == ReadSpec => []IInv
<1>1. ReadInit => IInv
  BY InitIsGood
<1>2. IInv /\ [ReadNext]_allVars => IInv'
  BY StepIsGood
<1> QED BY <1>1, <1>2, PTL DEF ReadSpec

(* The facts a session returns are of a content the file has had since its *)
(* inspection began, apart from what the list of changes leaves out in a   *)
(* tolerant read and when the scan fails: inspect_status, classify,        *)
(* ReadGate::verify and prepare_file together, for any number of files,    *)
(* edits and publications.                                                 *)
THEOREM SessionsAreTrue == ReadSpec => []ServedIsTrue
<1>1. IInv => ServedIsTrue
  BY DEF IInv, ServedIsTrue, Served, Disregarded, At, SessionOK, ComparedOK, ListedOK,
         InspectedOK, Inspected, Unlisted, Recorded, Established
<1> QED BY <1>1, InvariantHolds, PTL

(* A file that was there all along is in the answer or reported as left    *)
(* out of it, with the same exceptions: what ReadGate declares with a      *)
(* response is complete as far as the list of changes is.                  *)
THEOREM SessionsAreComplete == ReadSpec => []NothingIsHidden
<1>1. IInv => NothingIsHidden
  BY DEF IInv, NothingIsHidden, Served, Disregarded, At, SessionOK, ComparedOK, ListedOK,
         InspectedOK, Inspected, Unlisted, Established
<1> QED BY <1>1, InvariantHolds, PTL
----------------------------------------------------------------------------
(* Every attempt that failed has met a change of its own: those of before  *)
(* are behind the count, and while the attempt goes on either there has    *)
(* been another one or the live database is still the one it looked at.    *)
Counted(n) == changes >= 2 \/ changes >= n
Attempts == reader.opened + reader.observed
Trying == reader.at \in {"inspecting", "comparing", "opening"}

Unchanged ==
  IF At("inspecting") THEN reader.before \in PublicationIds
  ELSE /\ live.sound /\ live.built = reader.db.built
       /\ live.pub = reader.db.pub /\ reader.before = reader.db.pub

CountInv ==
  /\ changes \in Nat
  /\ At("observing") => Counted(Attempts)
  /\ Trying => /\ reader.observed >= 1 /\ Counted(Attempts - 1)
               /\ Counted(Attempts) \/ Unchanged
  /\ OneChangeIsSurvived

LEMMA Answered ==
  ASSUME changes \in Nat, UNCHANGED changes, NEW outcome \in {"idle", "refused"}, Answer(outcome)
  PROVE  CountInv'
<1>1. reader'.at = outcome
  BY DEF Answer, NoRead
<1> QED BY <1>1 DEF CountInv, At, Trying, OneChangeIsSurvived

(* A read that goes on within its attempt.                                 *)
LEMMA GoesOnTrying ==
  ASSUME IInv, CountInv, Trying, reader'.at \in {"comparing", "opening"},
         reader'.opened = reader.opened, reader'.observed = reader.observed, UNCHANGED changes,
         Counted(Attempts) \/ Unchanged'
  PROVE  CountInv'
BY DEF CountInv, Trying, Attempts, Counted, OneChangeIsSurvived, At

LEMMA ReaderStepCounts ==
  ASSUME IInv, CountInv, ReadStep
  PROVE  CountInv'
<1> USE DEF At
<1>1. /\ reader.observed \in Nat /\ reader.opened \in Nat /\ changes \in Nat
      /\ DOMAIN reader = DOMAIN NoRead
  BY DEF IInv, ReaderOK, ReadsAt, CountInv, NoRead
<1>2. DOMAIN NoRead = {"at", "tolerant", "observed", "opened", "before", "db", "scanned",
                       "listed", "todo", "drifted", "unlisted", "session"}
  BY DEF NoRead
<1>3. ASSUME NEW tolerant, Begin(tolerant) PROVE CountInv'
  <2>1. /\ reader' = [NoRead EXCEPT !.at = "observing", !.tolerant = tolerant]
        /\ changes' = 0
    BY <1>3 DEF Begin
  <2>2. reader'.at = "observing" /\ reader'.opened = 0 /\ reader'.observed = 0
    BY <2>1 DEF NoRead
  <2> QED BY <2>1, <2>2 DEF CountInv, Counted, Attempts, Trying, OneChangeIsSurvived
<1>4. CASE Observe
  <2>1. PICK id \in PublicationIds :
          reader' = [reader EXCEPT !.at = "inspecting", !.observed = reader.observed + 1,
                                   !.before = id, !.db = NotBuilt, !.scanned = TRUE,
                                   !.listed = {}, !.drifted = {}]
    BY <1>4 DEF Observe
  <2>2. /\ reader.at = "observing" /\ reader'.at = "inspecting" /\ reader'.before = id
        /\ reader'.observed = reader.observed + 1 /\ reader'.opened = reader.opened
    BY <1>1, <1>2, <1>4, <2>1 DEF Observe
  <2>3. UNCHANGED <<live, changes>>
    BY <1>4 DEF Observe, vars
  <2>4. Unchanged'
    BY <2>2, <2>3 DEF Unchanged, PublicationIds
  <2> HIDE DEF PublicationIds
  <2> QED BY <1>1, <2>2, <2>3, <2>4
          DEF CountInv, Counted, Attempts, Trying, OneChangeIsSurvived
<1>5. CASE Inspect
  <2>1. reader.at = "inspecting" /\ Trying /\ UNCHANGED <<live, changes>>
    BY <1>5 DEF Inspect, Trying, vars
  <2>2. CASE live.sound
    <3>1. PICK scanned \in BOOLEAN :
            reader' = [reader EXCEPT !.at = "comparing", !.db = live, !.scanned = scanned,
                                     !.listed = Present,
                                     !.todo = IF live.built /\ scanned THEN File ELSE {}]
      BY <1>5, <2>2 DEF Inspect
    <3>2. /\ reader'.at = "comparing" /\ reader'.db = live /\ reader'.before = reader.before
          /\ reader'.observed = reader.observed /\ reader'.opened = reader.opened
      BY <1>1, <1>2, <3>1
    <3>3. Unchanged => Unchanged'
      BY <2>1, <2>2, <3>2 DEF Unchanged, PublicationIds
    <3> QED BY <2>1, <3>2, <3>3, GoesOnTrying DEF CountInv
  <2>3. CASE ~live.sound
    BY <1>1, <1>5, <2>1, <2>3, Answered DEF Inspect
  <2> QED BY <2>2, <2>3
<1>6. ASSUME NEW f \in File, Compare(f) PROVE CountInv'
  <2>1. /\ reader.at = "comparing" /\ Trying /\ UNCHANGED <<live, changes>>
        /\ \E differs :
             reader' = [reader EXCEPT !.todo = reader.todo \ {f},
                          !.drifted = IF differs THEN reader.drifted \cup {f} ELSE reader.drifted]
    BY <1>6 DEF Compare, Trying, vars
  <2>2. /\ reader'.at = "comparing" /\ reader'.db = reader.db /\ reader'.before = reader.before
        /\ reader'.observed = reader.observed /\ reader'.opened = reader.opened
    BY <1>1, <1>2, <2>1
  <2>3. Unchanged => Unchanged'
    BY <2>1, <2>2 DEF Unchanged
  <2> QED BY <2>1, <2>2, <2>3, GoesOnTrying DEF CountInv
<1>7. CASE Settle
  <2>1. reader.at = "comparing" /\ Trying /\ UNCHANGED <<live, changes>>
    BY <1>7 DEF Settle, Trying, vars
  <2> DEFINE still(after) == reader.before = after /\ after = reader.db.pub
             last == reader.observed >= MAX_OBSERVATION_ATTEMPTS
  <2>2. PICK after \in PublicationIds :
          \/ ~still(after) /\ ~last /\ reader' = [reader EXCEPT !.at = "observing"]
          \/ Answer("refused")
          \/ ~still(after) /\ last /\ Answer("raced")
          \/ /\ still(after) \/ last
             /\ reader.db.built
             /\ \E list, unlisted :
                  reader' = [reader EXCEPT !.at = "opening", !.listed = {}, !.drifted = list,
                                           !.unlisted = unlisted]
    BY <1>7 DEF Settle
  <2>3. still(after) \/ Counted(Attempts)
    BY <2>1, <2>2 DEF CountInv, Unchanged, PublicationIds
  <2> HIDE DEF still
  <2>4. CASE ~still(after) /\ reader' = [reader EXCEPT !.at = "observing"]
    <3>1. /\ reader'.at = "observing"
          /\ reader'.observed = reader.observed /\ reader'.opened = reader.opened
      BY <1>1, <1>2, <2>4
    <3> QED BY <1>1, <2>1, <2>3, <2>4, <3>1
            DEF CountInv, Counted, Attempts, Trying, OneChangeIsSurvived
  <2>5. CASE Answer("refused")
    BY <1>1, <2>1, <2>5, Answered
  <2>6. CASE ~still(after) /\ last /\ Answer("raced")
    <3>1. reader'.at = "raced"
      BY <2>6 DEF Answer, NoRead
    <3>2. changes >= 2
      BY <1>1, <2>3, <2>6 DEF Counted, Attempts, MAX_OBSERVATION_ATTEMPTS
    <3> QED BY <1>1, <2>1, <3>1, <3>2 DEF CountInv, Trying, OneChangeIsSurvived
  <2>7. CASE \E list, unlisted :
               reader' = [reader EXCEPT !.at = "opening", !.listed = {}, !.drifted = list,
                                        !.unlisted = unlisted]
    <3>1. /\ reader'.at = "opening" /\ reader'.db = reader.db /\ reader'.before = reader.before
          /\ reader'.observed = reader.observed /\ reader'.opened = reader.opened
      BY <1>1, <1>2, <2>7
    <3>2. Unchanged => Unchanged'
      BY <2>1, <3>1 DEF Unchanged
    <3> QED BY <2>1, <3>1, <3>2, GoesOnTrying DEF CountInv
  <2> QED BY <2>2, <2>4, <2>5, <2>6, <2>7
<1>8. CASE Open
  <2>1. reader.at = "opening" /\ Trying /\ UNCHANGED <<live, changes>>
    BY <1>8 DEF Open, Trying, vars
  <2>2. CASE /\ live.built /\ live.pub = reader.db.pub
             /\ reader' = [reader EXCEPT !.at = "serving", !.session = live]
    <3>1. reader'.at = "serving"
      BY <1>1, <1>2, <2>2
    <3> QED BY <1>1, <2>1, <3>1 DEF CountInv, Trying, OneChangeIsSurvived
  <2>3. CASE live.built => live.pub # reader.db.pub
    <3>1. reader.db.built
      BY <2>1 DEF IInv, InspectedOK, Inspected
    <3>2. ~Unchanged
      BY <2>1, <2>3, <3>1 DEF Unchanged
    <3>3. Counted(reader.opened + 1)
      BY <1>1, <2>1, <3>2 DEF CountInv, Counted, Attempts
    <3>4. CASE reader' = [NoRead EXCEPT !.at = "observing", !.tolerant = reader.tolerant,
                                        !.opened = reader.opened + 1]
      <4>1. reader'.at = "observing" /\ reader'.observed = 0 /\ reader'.opened = reader.opened + 1
        BY <3>4 DEF NoRead
      <4> QED BY <1>1, <2>1, <3>3, <4>1
              DEF CountInv, Counted, Attempts, Trying, OneChangeIsSurvived
    <3>5. CASE reader.opened + 1 = MAX_OPEN_ATTEMPTS /\ Answer("changed")
      <4>1. reader'.at = "changed" /\ changes >= 2
        BY <1>1, <3>3, <3>5 DEF Answer, NoRead, Counted, MAX_OPEN_ATTEMPTS
      <4> QED BY <1>1, <2>1, <4>1 DEF CountInv, Trying, OneChangeIsSurvived
    <3>6. CASE Answer("refused")
      BY <1>1, <2>1, <3>6, Answered
    <3> QED BY <1>8, <2>2, <2>3, <3>4, <3>5, <3>6 DEF Open
  <2>4. CASE Answer("refused")
    BY <1>1, <2>1, <2>4, Answered
  <2> QED BY <1>8, <2>2, <2>3, <2>4 DEF Open
<1>9. CASE Finish
  BY <1>1, <1>9, Answered DEF Finish
<1> QED BY <1>3, <1>4, <1>5, <1>6, <1>7, <1>8, <1>9 DEF ReadStep

(* Maintenance that is not counted leaves the database as it was looked    *)
(* at, for no publication has the id of another.                           *)
LEMMA MaintainCounts ==
  ASSUME IInv, CountInv, Maintain, UNCHANGED <<reader, witness>>,
         changes' = IF Changed THEN changes + 1 ELSE changes
  PROVE  CountInv'
<1>1. /\ changes \in Nat /\ changes' \in Nat /\ changes' >= changes
      /\ reader.observed \in Nat /\ reader.opened \in Nat
  BY DEF IInv, ReaderOK, ReadsAt, CountInv
<1>2. (live'.pub = live.pub /\ live'.sound = live.sound) => live'.built = live.built
  <2>1. LiveOK /\ LiveOK'
    BY MaintainIsGood DEF IInv
  <2>2. live.built \in BOOLEAN /\ live'.built \in BOOLEAN
    BY <2>1 DEF LiveOK, Database
  <2>3. live'.pub = live.pub => (live.built <=> live'.built)
    BY <2>1 DEF LiveOK
  <2> QED BY <2>2, <2>3
<1>3. CASE live'.pub = live.pub /\ live'.sound = live.sound
  <2>1. Unchanged => Unchanged'
    BY <1>2, <1>3 DEF Unchanged, PublicationIds, At
  <2> QED BY <1>1, <2>1 DEF CountInv, Counted, Attempts, Trying, At, OneChangeIsSurvived
<1>4. CASE ~(live'.pub = live.pub /\ live'.sound = live.sound)
  <2>1. changes >= 2 \/ changes' = changes + 1
    BY <1>1, <1>4 DEF Changed
  <2> QED BY <1>1, <2>1 DEF CountInv, Counted, Attempts, Trying, At, OneChangeIsSurvived
<1> QED BY <1>3, <1>4

LEMMA StepCounts == IInv /\ CountInv /\ [ReadNext]_allVars => CountInv'
<1> SUFFICES ASSUME IInv, CountInv, [ReadNext]_allVars PROVE CountInv'
  OBVIOUS
<1>1. CASE ReadStep
  BY <1>1, ReaderStepCounts
<1>2. CASE /\ Maintain /\ UNCHANGED <<reader, witness>>
           /\ changes' = IF Changed THEN changes + 1 ELSE changes
  BY <1>2, MaintainCounts
<1>3. CASE UNCHANGED <<live, reader, changes>>
  BY <1>3 DEF CountInv, Counted, Attempts, Trying, At, OneChangeIsSurvived, Unchanged,
              PublicationIds
<1> QED BY <1>1, <1>2, <1>3 DEF ReadNext, allVars, vars, readVars

(* A read that answers "retry", after three inspections or two sessions    *)
(* that another publication overtook, has met two changes at least: one    *)
(* publication, damage or repair under a read never fails it               *)
(* (inspect_status, open_session).                                         *)
THEOREM OneChangeNeverFailsARead == ReadSpec => []OneChangeIsSurvived
<1>1. ReadInit => CountInv
  BY DEF ReadInit, NoRead, CountInv, At, Trying, OneChangeIsSurvived
<1>2. IInv /\ CountInv /\ [ReadNext]_allVars => CountInv'
  BY StepCounts
<1>3. CountInv => OneChangeIsSurvived
  BY DEF CountInv
<1> QED BY <1>1, <1>2, <1>3, InvariantHolds, PTL DEF ReadSpec
=============================================================================
