----------------------- MODULE GraphMaintenance_proofs -----------------------
(***************************************************************************)
(* Maintenance of the code graph for any processes, files, contents and    *)
(* bounds: it implements GraphPublication, which is all that GraphReads    *)
(* takes of it, and a run that succeeds leaves a graph of its own time.    *)
(*                                                                         *)
(* The argument: the lock makes every run work on a database that nobody   *)
(* else changes, except that the disk damages it; edits give a file a      *)
(* modification time that nothing has recorded; and what a run knows of a  *)
(* file is something the file was during the run, or the recorded row of   *)
(* a file that is not there.                                               *)
(***************************************************************************)
EXTENDS GraphMaintenance, TLAPS

Partial(f, S) == DOMAIN f \subseteq File /\ f \in [DOMAIN f -> S]

IsDb(db) ==
  /\ db = [sound |-> db.sound, built |-> db.built, index |-> db.index,
           pub |-> db.pub, head |-> db.head]
  /\ IsDatabase(db)
  /\ Partial(db.index, Rows)

Finding == [hash : Content \cup {Absent, Todo, Unread}, mtime : 0..(MaxEdits + 1)]

TreeTyped ==
  /\ tree \in [File -> [content : Content \cup {Absent}, mtime : 1..(MaxEdits + 1)]]
  /\ edits \in 0..MaxEdits
  /\ head \in 0..MaxMoves

DatabaseTyped ==
  /\ builds \in 0..MaxBuilds
  /\ IsDb(live)
  /\ DOMAIN draft = Proc /\ \A p \in Proc : IsDb(draft[p])

RunTyped ==
  /\ pc \in [Proc -> Places] /\ kind \in [Proc -> Kinds]
  /\ scanned \in [Proc -> SUBSET File]
  /\ DOMAIN found = Proc
  /\ \A p \in Proc :
       /\ Partial(found[p], Finding)
       /\ DOMAIN found[p] \subseteq scanned[p]
       /\ DOMAIN found[p] # {} => pc[p] \in {"preparing", "ready"}
  /\ since \in [Proc -> [File -> SUBSET (Content \cup {Absent})]]

LockTyped ==
  /\ lock \in Proc \cup {Free}
  /\ candidates \subseteq Proc \cup {Stray}
  /\ \A p \in Proc : pc[p] \in Running <=> lock = p

Typed == TreeTyped /\ DatabaseTyped /\ RunTyped /\ LockTyped

(* What a run can rely on under the lock.                                  *)
UnderLock ==
  \A p \in Proc :
    /\ pc[p] = "preparing" => kind[p] # "repair"
    /\ pc[p] = "preparing" /\ kind[p] = "refresh" => live.built
    /\ pc[p] = "ready" => /\ p \in candidates
                          /\ draft[p].built /\ draft[p].pub = builds

(* Rows no later edit can make unfaithful.                                 *)
Recorded(index) ==
  /\ \A f \in DOMAIN index : index[f].mtime <= edits + 1
  /\ Faithful(index)

(* What a run knows of a file it has read.                                 *)
Observed(f, row) ==
  /\ row.mtime <= edits + 1
  /\ (row.hash \in Content /\ f \in Present /\ row.mtime = Mtime(f)) =>
       row.hash = tree[f].content

Faith ==
  /\ \A f \in File : tree[f].mtime <= edits + 1
  /\ Recorded(live.index)
  /\ \A p \in Proc : /\ Recorded(draft[p].index)
                     /\ \A f \in DOMAIN found[p] : Observed(f, found[p][f])

Builds(p) == kind[p] # "repair" /\ pc[p] \in {"waiting"} \cup Running

(* The recorded row of a file that was not there.                          *)
Vanished(p, f) ==
  /\ kind[p] = "refresh"
  /\ found[p][f].hash \in Content
  /\ f \in DOMAIN live.index
  /\ live.index[f].mtime = 0 /\ found[p][f].mtime = 0

Recent ==
  \A p \in Proc : Builds(p) =>
    /\ \A f \in File : /\ tree[f].content \in since[p][f]
                       /\ f \notin scanned[p] => Absent \in since[p][f]
    /\ pc[p] = "preparing" =>
         /\ DOMAIN found[p] = scanned[p]
         /\ \A f \in DOMAIN found[p] :
              \/ found[p][f].hash \in {Todo, Unread} \cup since[p][f]
              \/ Vanished(p, f)
    /\ pc[p] = "ready" =>
         /\ \A f \in DOMAIN draft[p].index :
              draft[p].index[f].hash \in since[p][f] \/ draft[p].index[f].mtime = 0
         /\ \A f \in File : Absent \notin since[p][f] => f \in DOMAIN draft[p].index

IInv == Typed /\ UnderLock /\ Faith /\ Recent

----------------------------------------------------------------------------
LEMMA EmptyIsDatabase == IsDb(Empty) /\ Recorded(<<>>) /\ Partial(<<>>, Finding)
<1>1. DOMAIN <<>> = {}
  OBVIOUS
<1>2. <<>> \in [{} -> Rows] /\ <<>> \in [{} -> Finding]
  OBVIOUS
<1>3. Partial(<<>>, Rows) /\ Partial(<<>>, Finding) /\ IsIndex(<<>>)
  BY <1>1, <1>2 DEF Partial, IsIndex
<1>4. IsDatabase(Empty)
  BY <1>3, GraphAssumption DEF IsDatabase, Empty
<1>5. Empty = [sound |-> Empty.sound, built |-> Empty.built, index |-> Empty.index,
               pub |-> Empty.pub, head |-> Empty.head]
  BY DEF Empty
<1>6. Partial(Empty.index, Rows)
  BY <1>3 DEF Empty
<1> QED BY <1>1, <1>3, <1>4, <1>5, <1>6 DEF IsDb, Recorded, Faithful

(* An edit leaves recorded rows and observations what they are.            *)
LEMMA EditIsNew ==
  ASSUME TreeTyped, Faith, NEW g \in File, NEW new, Edit(g, new)
  PROVE  /\ \A f \in File : tree'[f].mtime <= edits' + 1
         /\ \A index : DOMAIN index \subseteq File /\ IsIndex(index) /\ Recorded(index) =>
              /\ \A f \in DOMAIN index : index[f].mtime <= edits' + 1
              /\ Faithful(index)'
         /\ \A f \in File, row \in Finding : Observed(f, row) => Observed(f, row)'
<1> USE TreeAssumption DEF TreeTyped
<1>1. edits' = edits + 1 /\ tree' = [tree EXCEPT ![g] = [content |-> new, mtime |-> edits + 2]]
  BY DEF Edit
<1>2. \A f \in File : tree[f].mtime <= edits + 1
  BY DEF Faith
<1>3. \A f \in File : tree'[f].mtime <= edits' + 1
  BY <1>1, <1>2
<1>4. ASSUME NEW f \in File, NEW m \in 0..(edits + 1), f \in Present', m = Mtime(f)'
      PROVE  f \in Present /\ m = Mtime(f) /\ tree'[f] = tree[f]
  <2>1. m = tree'[f].mtime
    BY <1>4 DEF Mtime, Present
  <2>2. f # g
    BY <1>1, <1>4, <2>1
  <2>3. tree'[f] = tree[f]
    BY <1>1, <2>2
  <2> QED BY <1>4, <2>1, <2>3 DEF Mtime, Present
<1>5. ASSUME NEW index, DOMAIN index \subseteq File, IsIndex(index), Recorded(index)
      PROVE  /\ \A f \in DOMAIN index : index[f].mtime <= edits' + 1
             /\ Faithful(index)'
  <2>1. \A f \in DOMAIN index : f \in File /\ index[f].mtime \in 0..(edits + 1)
    BY <1>5 DEF IsIndex, Rows, Recorded
  <2>2. Faithful(index)'
    BY <1>4, <1>5, <2>1 DEF Recorded, Faithful
  <2> QED BY <1>1, <2>1, <2>2
<1>6. ASSUME NEW f \in File, NEW row \in Finding, Observed(f, row)
      PROVE  Observed(f, row)'
  <2>1. row.mtime \in 0..(edits + 1)
    BY <1>6 DEF Finding, Observed
  <2> QED BY <1>1, <1>4, <1>6, <2>1 DEF Observed
<1> QED BY <1>3, <1>5, <1>6

(* The index of a candidate is what its run has observed.                  *)
LEMMA IndexIsRecorded ==
  ASSUME TreeTyped, RunTyped, Faith, NEW p \in Proc, Prepared(p)
  PROVE  Partial(Index(p), Rows) /\ IsIndex(Index(p)) /\ Recorded(Index(p))
<1> DEFINE index == Index(p)
<1>1. DOMAIN index = Readable(p) /\ \A f \in Readable(p) : index[f] = found[p][f]
  BY DEF Index
<1>2. \A f \in Readable(p) : f \in File /\ f \in DOMAIN found[p] /\ found[p][f] \in Finding
  BY DEF Readable, RunTyped, Partial
<1>3. \A f \in Readable(p) : found[p][f].hash \in Content
  BY <1>2 DEF Readable, Prepared, Finding
<1>4. \A f \in Readable(p) : found[p][f] \in Rows
  BY <1>2, <1>3 DEF Finding, Rows
<1>5. index \in [Readable(p) -> Rows]
  BY <1>4 DEF Index
<1>6. Partial(index, Rows) /\ IsIndex(index)
  BY <1>1, <1>2, <1>4, <1>5 DEF Partial, IsIndex
<1>7. \A f \in Readable(p) : Observed(f, index[f])
  BY <1>1, <1>2 DEF Faith
<1>8. Recorded(index)
  BY <1>1, <1>3, <1>7 DEF Recorded, Faithful, Observed
<1> QED BY <1>6, <1>8

LEMMA InitIsGood == Init => IInv
<1> SUFFICES ASSUME Init PROVE IInv
  OBVIOUS
<1> USE GraphAssumption, TreeAssumption DEF Init, TreeInit
<1>1. TreeTyped
  BY DEF TreeTyped
<1>2. DatabaseTyped
  BY EmptyIsDatabase DEF DatabaseTyped
<1>3. RunTyped
  BY EmptyIsDatabase DEF RunTyped, Places, Kinds, NoHistory
<1>4. LockTyped
  BY DEF LockTyped, Running
<1>5. UnderLock /\ Recent
  BY DEF UnderLock, Recent, Builds
<1>6. Faith
  BY EmptyIsDatabase DEF Faith, Empty
<1> QED BY <1>1, <1>2, <1>3, <1>4, <1>5, <1>6 DEF IInv, Typed

----------------------------------------------------------------------------
(* Each step keeps the types.                                              *)
LEMMA TypedStep == IInv /\ [Next]_vars => Typed'
<1> SUFFICES ASSUME IInv, [Next]_vars PROVE Typed'
  OBVIOUS
<1> USE GraphAssumption, TreeAssumption DEF IInv, Typed, bounds
<1>1. TreeTyped'
  <2>1. CASE \E f \in File : \E new \in Content \cup {Absent} : EditUnderRuns(f, new)
    BY <2>1 DEF EditUnderRuns, Edit, TreeTyped
  <2>2. CASE MoveHead
    BY <2>2 DEF MoveHead, TreeTyped
  <2>3. CASE UNCHANGED <<tree, edits, head>>
    BY <2>3 DEF TreeTyped
  <2> QED BY <2>1, <2>2, <2>3
         DEF Next, Step, Scan, GiveUp, Acquire, OpenToRebuild, OpenToRefresh, Repair, Stat, Read,
             Noop, Build, Publish, Stop, Crash, Damage, vars
<1>2. ASSUME NEW p \in Proc, NEW place \in {"idle", "done"}, Return(p, place), IsDb(live)',
             UNCHANGED <<tree, edits, head>>, builds' \in 0..MaxBuilds
      PROVE  DatabaseTyped' /\ RunTyped' /\ LockTyped'
  <2>1. DatabaseTyped'
    BY <1>2, EmptyIsDatabase DEF DatabaseTyped, Return
  <2>2. RunTyped'
    BY <1>2, EmptyIsDatabase DEF RunTyped, Return, Places, Kinds, NoHistory
  <2>3. LockTyped'
    BY <1>2 DEF LockTyped, RunTyped, Return, Running
  <2> QED BY <2>1, <2>2, <2>3
<1>3. ASSUME NEW p \in Proc, NEW k \in Kinds, Scan(p, k)
      PROVE  DatabaseTyped' /\ RunTyped' /\ LockTyped'
  <2>1. DatabaseTyped'
    BY <1>3 DEF DatabaseTyped, Scan
  <2>2. RunTyped'
    BY <1>3 DEF RunTyped, TreeTyped, Scan, Goto, Places, Present, NoHistory, Partial
  <2>3. LockTyped'
    BY <1>3 DEF LockTyped, RunTyped, Scan, Goto, Running
  <2> QED BY <2>1, <2>2, <2>3
<1>4. ASSUME NEW p \in Proc, Acquire(p)
      PROVE  DatabaseTyped' /\ RunTyped' /\ LockTyped'
  BY <1>4 DEF DatabaseTyped, RunTyped, LockTyped, Acquire, Goto, Running, Places
<1>5. ASSUME NEW p \in Proc, OpenToRebuild(p) \/ OpenToRefresh(p)
      PROVE  DatabaseTyped' /\ RunTyped' /\ LockTyped'
  <2>1. DatabaseTyped'
    BY <1>5, EmptyIsDatabase DEF DatabaseTyped, OpenToRebuild, OpenToRefresh
  <2>2. Partial(NotLooked(scanned[p]), Finding) /\ DOMAIN NotLooked(scanned[p]) = scanned[p]
    BY DEF NotLooked, Partial, Finding, RunTyped
  <2>3. RunTyped'
    BY <1>5, <2>2 DEF RunTyped, OpenToRebuild, OpenToRefresh, Goto, Places, Kinds
  <2>4. LockTyped'
    BY <1>5 DEF LockTyped, RunTyped, OpenToRebuild, OpenToRefresh, Goto, Running
  <2> QED BY <2>1, <2>3, <2>4
<1>6. ASSUME NEW p \in Proc, NEW f \in File, Stat(p, f) \/ Read(p, f)
      PROVE  DatabaseTyped' /\ RunTyped' /\ LockTyped'
  <2>1. DatabaseTyped' /\ LockTyped'
    BY <1>6 DEF DatabaseTyped, LockTyped, Stat, Read
  <2>2. PICK row \in Finding : f \in DOMAIN found[p] /\ found' = [found EXCEPT ![p][f] = row]
    <3>1. CASE Stat(p, f)
      <4>1. Mtime(f) \in 0..(MaxEdits + 1)
        BY DEF Mtime, TreeTyped
      <4>2. Known(p, f) => live.index[f].hash \in Content
        BY DEF Known, DatabaseTyped, IsDb, IsDatabase, IsIndex, Rows
      <4> DEFINE row == [hash |-> IF Known(p, f) THEN live.index[f].hash ELSE Unread,
                         mtime |-> Mtime(f)]
      <4>3. row \in Finding
        BY <4>1, <4>2 DEF Finding
      <4>4. f \in DOMAIN found[p] /\ found' = [found EXCEPT ![p][f] = row]
        BY <3>1 DEF Stat
      <4> HIDE DEF row
      <4> QED BY <4>3, <4>4
    <3>2. CASE Read(p, f)
      <4>1. found[p][f] \in Finding /\ f \in DOMAIN found[p]
        BY <3>2 DEF Read, RunTyped, Partial
      <4> DEFINE row == [found[p][f] EXCEPT !.hash = tree[f].content]
      <4>2. row \in Finding
        BY <4>1 DEF Finding, TreeTyped
      <4>3. found' = [found EXCEPT ![p][f] = row]
        BY <3>2 DEF Read
      <4> HIDE DEF row
      <4> QED BY <4>1, <4>2, <4>3
    <3> QED BY <1>6, <3>1, <3>2
  <2>3. /\ DOMAIN found' = Proc
        /\ \A q \in Proc : Partial(found'[q], Finding) /\ DOMAIN found'[q] = DOMAIN found[q]
    BY <2>2 DEF RunTyped, Partial
  <2>4. RunTyped'
    BY <1>6, <2>3 DEF RunTyped, Stat, Read
  <2> QED BY <2>1, <2>4
<1>7. ASSUME NEW p \in Proc, Build(p)
      PROVE  DatabaseTyped' /\ RunTyped' /\ LockTyped'
  <2>1. Partial(Index(p), Rows) /\ IsIndex(Index(p))
    BY <1>7, IndexIsRecorded DEF Build
  <2>2. builds' \in 1..MaxBuilds
    BY <1>7 DEF Build, DatabaseTyped
  <2>3. IsDb([sound |-> TRUE, built |-> TRUE, index |-> Index(p), pub |-> builds', head |-> head])
    BY <2>1, <2>2 DEF IsDb, IsDatabase, TreeTyped
  <2>4. DatabaseTyped'
    BY <1>7, <2>2, <2>3 DEF DatabaseTyped, Build
  <2>5. RunTyped' /\ LockTyped'
    BY <1>7 DEF RunTyped, LockTyped, Build, Prepared, Goto, Places, Running
  <2> QED BY <2>4, <2>5
<1>8. ASSUME NEW p \in Proc, Crash(p)
      PROVE  DatabaseTyped' /\ RunTyped' /\ LockTyped'
  <2>1. DatabaseTyped'
    BY <1>8, EmptyIsDatabase DEF DatabaseTyped, Crash
  <2>2. RunTyped'
    BY <1>8, EmptyIsDatabase DEF RunTyped, Crash, Places, Kinds, NoHistory
  <2>3. LockTyped'
    BY <1>8 DEF LockTyped, RunTyped, Crash, Running
  <2> QED BY <2>1, <2>2, <2>3
<1>9. ASSUME NEW f \in File, NEW new \in Content \cup {Absent}, EditUnderRuns(f, new)
      PROVE  DatabaseTyped' /\ RunTyped' /\ LockTyped'
  BY <1>9 DEF DatabaseTyped, RunTyped, LockTyped, EditUnderRuns, run
<1>10. ASSUME NEW sound \in BOOLEAN, NEW db, IsDb(db)
       PROVE  IsDb([db EXCEPT !.sound = sound])
  BY <1>10 DEF IsDb, IsDatabase
<1>11. CASE Damage
  <2>1. IsDb(live)'
    BY <1>10, <1>11 DEF Damage, DatabaseTyped
  <2> QED BY <1>1, <1>11, <2>1 DEF Damage, run, DatabaseTyped, RunTyped, LockTyped
<1>12. CASE MoveHead \/ UNCHANGED vars
  BY <1>1, <1>12 DEF MoveHead, vars, run, DatabaseTyped, RunTyped, LockTyped
<1>13. ASSUME NEW p \in Proc, GiveUp(p) \/ Stop(p) \/ Repair(p) \/ Publish(p)
       PROVE  DatabaseTyped' /\ RunTyped' /\ LockTyped'
  <2>1. \E place \in {"idle", "done"} : Return(p, place)
    BY <1>13 DEF GiveUp, Stop, Repair, Publish
  <2>2. IsDb(live)'
    <3>1. IsDb(live) /\ IsDb(draft[p]) /\ live.sound \in BOOLEAN
      BY DEF DatabaseTyped, IsDb, IsDatabase
    <3>2. CASE GiveUp(p) \/ Stop(p)
      BY <3>1, <3>2 DEF GiveUp, Stop, IsDb
    <3>3. CASE Repair(p) \/ Publish(p)
      <4>1. PICK sound \in BOOLEAN, db \in {live, draft[p]} : live' = [db EXCEPT !.sound = sound]
        BY <3>1, <3>3 DEF Repair, Publish
      <4> QED BY <1>10, <3>1, <4>1
    <3> QED BY <1>13, <3>2, <3>3
  <2>3. builds' = builds /\ UNCHANGED <<tree, edits, head>>
    BY <1>13 DEF GiveUp, Stop, Repair, Publish
  <2> QED BY <1>2, <2>1, <2>2, <2>3 DEF DatabaseTyped
<1>14. ASSUME NEW p \in Proc, Noop(p)
       PROVE  DatabaseTyped' /\ RunTyped' /\ LockTyped'
  <2>1. live.built
    BY <1>14 DEF Noop, Prepared, UnderLock
  <2>2. IsDb(live)' /\ builds' \in 0..MaxBuilds
    <3>1. CASE UNCHANGED <<live, builds>>
      BY <3>1 DEF DatabaseTyped
    <3>2. CASE builds < MaxBuilds /\ builds' = builds + 1
               /\ live' = [live EXCEPT !.head = head, !.pub = builds']
      <4>1. builds' \in 1..MaxBuilds
        BY <3>2 DEF DatabaseTyped
      <4>2. live = [sound |-> live.sound, built |-> live.built, index |-> live.index,
                    pub |-> live.pub, head |-> live.head]
        BY DEF DatabaseTyped, IsDb
      <4>3. live' = [sound |-> live.sound, built |-> live.built, index |-> live.index,
                     pub |-> builds', head |-> head]
        BY <3>2, <4>2
      <4> QED BY <2>1, <4>1, <4>3 DEF DatabaseTyped, IsDb, IsDatabase, TreeTyped
    <3> QED BY <1>14, <3>1, <3>2 DEF Noop
  <2> QED BY <1>2, <1>14, <2>2 DEF Noop
<1> QED
  BY <1>1, <1>3, <1>4, <1>5, <1>6, <1>7, <1>8, <1>9, <1>11, <1>12, <1>13, <1>14 DEF Next, Step

----------------------------------------------------------------------------
(* Only the run under the lock touches the live database, the candidates   *)
(* and the publication ids, but for the damage of the disk.                *)
LEMMA UnderLockStep == IInv /\ [Next]_vars => UnderLock'
<1> SUFFICES ASSUME IInv, [Next]_vars PROVE UnderLock'
  OBVIOUS
<1> USE GraphAssumption DEF IInv, Typed, RunTyped, LockTyped, DatabaseTyped, UnderLock, Goto, Running,
                            Places, bounds
<1>1. ASSUME NEW p \in Proc, NEW place \in {"idle", "done"}, Return(p, place),
             (pc[p] = "waiting" /\ UNCHANGED <<live, builds>>) \/ lock = p
      PROVE  UnderLock'
  BY <1>1 DEF Return
<1>2. ASSUME NEW p \in Proc,
             GiveUp(p) \/ Stop(p) \/ Repair(p) \/ Publish(p) \/ Noop(p)
      PROVE  UnderLock'
  BY <1>1, <1>2 DEF GiveUp, Stop, Repair, Publish, Noop, Prepared
<1>3. ASSUME NEW p \in Proc, Crash(p)
      PROVE  UnderLock'
  BY <1>3 DEF Crash
<1>4. ASSUME NEW p \in Proc, NEW k \in Kinds, Scan(p, k)
      PROVE  UnderLock'
  BY <1>4 DEF Scan
<1>5. ASSUME NEW p \in Proc, Acquire(p)
      PROVE  UnderLock'
  BY <1>5 DEF Acquire
<1>6. ASSUME NEW p \in Proc, OpenToRebuild(p) \/ OpenToRefresh(p)
      PROVE  UnderLock'
  BY <1>6 DEF OpenToRebuild, OpenToRefresh, Kinds
<1>7. ASSUME NEW p \in Proc, NEW f \in File, Stat(p, f) \/ Read(p, f)
      PROVE  UnderLock'
  BY <1>7 DEF Stat, Read
<1>8. ASSUME NEW p \in Proc, Build(p)
      PROVE  UnderLock'
  BY <1>8 DEF Build, Prepared
<1>9. CASE Damage
  BY <1>9 DEF Damage, run, IsDb, IsDatabase
<1>10. ASSUME NEW f \in File, NEW new \in Content \cup {Absent}, EditUnderRuns(f, new)
       PROVE  UnderLock'
  BY <1>10 DEF EditUnderRuns, run
<1>11. CASE MoveHead \/ UNCHANGED vars
  BY <1>11 DEF MoveHead, vars, run
<1> QED
  BY <1>2, <1>3, <1>4, <1>5, <1>6, <1>7, <1>8, <1>9, <1>10, <1>11 DEF Next, Step

----------------------------------------------------------------------------
(* What is recorded stays faithful.                                        *)
LEMMA FaithStep == IInv /\ [Next]_vars => Faith'
<1> SUFFICES ASSUME IInv, [Next]_vars PROVE Faith'
  OBVIOUS
<1> USE DEF IInv, Typed
<1>1. ASSUME UNCHANGED <<tree, edits>>, Recorded(live'.index),
             \A p \in Proc : /\ Recorded(draft'[p].index)
                             /\ \A f \in DOMAIN found'[p] : Observed(f, found'[p][f])
      PROVE  Faith'
  BY <1>1 DEF Faith, Recorded, Faithful, Observed, Present, Mtime
<1>2. Recorded(live.index) /\ Recorded(Empty.index)
  BY EmptyIsDatabase DEF Faith, Empty
<1>3. ASSUME NEW p \in Proc, NEW place, Return(p, place), Recorded(live'.index),
             UNCHANGED <<tree, edits>>
      PROVE  Faith'
  <2>1. \A q \in Proc : /\ Recorded(draft'[q].index)
                        /\ \A f \in DOMAIN found'[q] : Observed(f, found'[q][f])
    BY <1>2, <1>3 DEF Return, Faith, DatabaseTyped, RunTyped
  <2> QED BY <1>1, <1>3, <2>1
<1>4. ASSUME NEW p \in Proc,
             GiveUp(p) \/ Stop(p) \/ Repair(p) \/ Publish(p) \/ Noop(p)
      PROVE  Faith'
  <2>1. Recorded(live'.index)
    <3>1. live'.index \in {live.index, draft[p].index}
      BY <1>4 DEF GiveUp, Stop, Repair, Publish, Noop, DatabaseTyped, IsDb
    <3> QED BY <1>2, <3>1 DEF Faith
  <2> QED BY <1>3, <1>4, <2>1 DEF GiveUp, Stop, Repair, Publish, Noop, bounds
<1>5. ASSUME NEW p \in Proc, Crash(p)
      PROVE  Faith'
  <2>1. \A q \in Proc : /\ Recorded(draft'[q].index)
                        /\ \A f \in DOMAIN found'[q] : Observed(f, found'[q][f])
    BY <1>2, <1>5 DEF Crash, Faith, DatabaseTyped, RunTyped
  <2> QED BY <1>1, <1>2, <1>5, <2>1 DEF Crash
<1>6. ASSUME NEW p \in Proc, OpenToRebuild(p) \/ OpenToRefresh(p)
      PROVE  Faith'
  <2>1. live' \in {live, Empty}
    BY <1>6 DEF OpenToRebuild, OpenToRefresh
  <2>2. \A f \in DOMAIN NotLooked(scanned[p]) : Observed(f, NotLooked(scanned[p])[f])
    BY GraphAssumption DEF NotLooked, Observed, TreeTyped
  <2>3. \A q \in Proc : /\ Recorded(draft'[q].index)
                        /\ \A f \in DOMAIN found'[q] : Observed(f, found'[q][f])
    BY <1>6, <2>2 DEF OpenToRebuild, OpenToRefresh, Faith, RunTyped
  <2> QED BY <1>1, <1>2, <1>6, <2>1, <2>3 DEF OpenToRebuild, OpenToRefresh
<1>7. ASSUME NEW p \in Proc, NEW f \in File, Stat(p, f) \/ Read(p, f)
      PROVE  Faith'
  <2>1. f \in DOMAIN found[p] /\ Observed(f, found'[p][f])
    <3>1. Mtime(f) <= edits + 1
      BY DEF Mtime, Faith, TreeTyped
    <3>2. CASE Stat(p, f)
      <4>1. found'[p][f] = [hash |-> IF Known(p, f) THEN live.index[f].hash ELSE Unread,
                            mtime |-> Mtime(f)]
        BY <3>2 DEF Stat, RunTyped, Partial
      <4>2. Known(p, f) /\ f \in Present => live.index[f].hash = tree[f].content
        BY DEF Known, Faith, Recorded, Faithful
      <4> QED BY <3>1, <3>2, <4>1, <4>2, GraphAssumption DEF Stat, Observed
    <3>3. CASE Read(p, f)
      <4>1. found[p][f] \in Finding /\ f \in DOMAIN found[p]
        BY <3>3 DEF Read, RunTyped, Partial
      <4>2. found'[p][f] = [found[p][f] EXCEPT !.hash = tree[f].content]
        BY <3>3 DEF Read, RunTyped, Partial
      <4>3. found'[p][f].hash = tree[f].content /\ found'[p][f].mtime = found[p][f].mtime
        BY <4>1, <4>2 DEF Finding
      <4> QED BY <4>1, <4>3 DEF Observed, Faith
    <3> QED BY <1>7, <3>2, <3>3
  <2>2. \A q \in Proc : /\ DOMAIN found'[q] = DOMAIN found[q]
                        /\ \A g \in DOMAIN found[q] :
                             q # p \/ g # f => found'[q][g] = found[q][g]
    BY <1>7 DEF Stat, Read, RunTyped, Partial
  <2>3. \A q \in Proc : \A g \in DOMAIN found'[q] : Observed(g, found'[q][g])
    BY <2>1, <2>2 DEF Faith
  <2> QED BY <1>1, <1>2, <1>7, <2>3 DEF Stat, Read, Faith
<1>8. ASSUME NEW p \in Proc, Build(p)
      PROVE  Faith'
  <2>1. Recorded(Index(p))
    BY <1>8, IndexIsRecorded DEF Build
  <2>2. \A q \in Proc : Recorded(draft'[q].index)
    BY <1>8, <2>1 DEF Build, Faith, DatabaseTyped
  <2> QED BY <1>1, <1>2, <1>8, <2>2 DEF Build, Faith
<1>9. ASSUME NEW f \in File, NEW new \in Content \cup {Absent}, EditUnderRuns(f, new)
      PROVE  Faith'
  <2>1. Edit(f, new) /\ UNCHANGED <<live, found, draft>>
    BY <1>9 DEF EditUnderRuns, run
  <2>2. /\ DOMAIN live.index \subseteq File /\ IsIndex(live.index)
        /\ \A p \in Proc : DOMAIN draft[p].index \subseteq File /\ IsIndex(draft[p].index)
    BY DEF DatabaseTyped, IsDb, IsDatabase, Partial
  <2>3. /\ \A g \in File : tree'[g].mtime <= edits' + 1
        /\ \A index : DOMAIN index \subseteq File /\ IsIndex(index) /\ Recorded(index) =>
             /\ \A g \in DOMAIN index : index[g].mtime <= edits' + 1
             /\ Faithful(index)'
        /\ \A g \in File, row \in Finding : Observed(g, row) => Observed(g, row)'
    BY <2>1, EditIsNew
  <2>4. Recorded(live.index)' /\ \A p \in Proc : Recorded(draft[p].index)'
    BY <2>1, <2>2, <2>3 DEF Faith, Recorded
  <2>5. \A p \in Proc : \A g \in DOMAIN found[p] : g \in File /\ found[p][g] \in Finding
    BY DEF RunTyped, Partial
  <2>6. \A p \in Proc : \A g \in DOMAIN found'[p] : Observed(g, found[p][g])'
    BY <2>1, <2>3, <2>5 DEF Faith
  <2> QED BY <2>3, <2>4, <2>6 DEF Faith
<1>10. CASE Damage
  <2>1. live'.index = live.index
    BY <1>10 DEF Damage, DatabaseTyped, IsDb
  <2> QED BY <1>1, <1>2, <1>10, <2>1 DEF Damage, run, Faith
<1>11. CASE MoveHead \/ UNCHANGED vars \/ \E p \in Proc : Acquire(p) \/ \E k \in Kinds : Scan(p, k)
  BY <1>1, <1>2, <1>11 DEF MoveHead, Acquire, Scan, vars, run, Faith
<1> QED
  BY <1>4, <1>5, <1>6, <1>7, <1>8, <1>9, <1>10, <1>11 DEF Next, Step

----------------------------------------------------------------------------
(* What a run knows is of its own time.                                    *)
LEMMA RecentStep == IInv /\ [Next]_vars => Recent'
<1> SUFFICES ASSUME IInv, [Next]_vars PROVE Recent'
  OBVIOUS
<1> USE DEF IInv, Typed
<1> DEFINE Knows(p) ==
      /\ \A f \in File : /\ tree[f].content \in since[p][f]
                         /\ f \notin scanned[p] => Absent \in since[p][f]
      /\ pc[p] = "preparing" =>
           /\ DOMAIN found[p] = scanned[p]
           /\ \A f \in DOMAIN found[p] :
                \/ found[p][f].hash \in {Todo, Unread} \cup since[p][f]
                \/ Vanished(p, f)
      /\ pc[p] = "ready" =>
           /\ \A f \in DOMAIN draft[p].index :
                draft[p].index[f].hash \in since[p][f] \/ draft[p].index[f].mtime = 0
           /\ \A f \in File : Absent \notin since[p][f] => f \in DOMAIN draft[p].index
<1>1. \A p \in Proc : Builds(p) => Knows(p)
  BY DEF Recent
<1>2. SUFFICES ASSUME NEW q \in Proc, Builds(q)'
               PROVE  Knows(q)'
  BY DEF Recent
<1>3. ASSUME UNCHANGED <<tree, pc[q], kind[q], scanned[q], found[q], draft[q], since[q]>>,
             pc[q] = "preparing" => live'.index = live.index
      PROVE  Knows(q)'
  <2>1. \A f : pc[q] = "preparing" => (Vanished(q, f)' <=> Vanished(q, f))
    BY <1>3 DEF Vanished
  <2> QED BY <1>1, <1>2, <1>3, <2>1 DEF Builds
(* A step of another run: under the lock, and then q does not prepare, or  *)
(* with the live database as it was.                                       *)
<1>4. ASSUME NEW p \in Proc, p # q, Step(p) \/ \E k \in Kinds : Scan(p, k)
      PROVE  Knows(q)'
  <2>1. UNCHANGED <<tree, pc[q], kind[q], scanned[q], found[q], draft[q], since[q]>>
    BY <1>4 DEF Step, Scan, GiveUp, Acquire, OpenToRebuild, OpenToRefresh, Repair, Stat, Read,
                Noop, Build, Publish, Stop, Crash, Return, Goto, RunTyped, DatabaseTyped
  <2>2. live' = live \/ pc[p] \in Running
    BY <1>4 DEF Step, Scan, GiveUp, Acquire, OpenToRebuild, OpenToRefresh, Repair, Stat, Read,
                Noop, Build, Publish, Stop, Crash, Prepared, Running
  <2>3. pc[q] = "preparing" => live' = live
    BY <1>4, <2>2 DEF LockTyped, Running
  <2> QED BY <1>3, <2>1, <2>3
<1>5. CASE MoveHead \/ Damage \/ UNCHANGED vars
  <2>1. live'.index = live.index
    BY <1>5 DEF MoveHead, Damage, vars, DatabaseTyped, IsDb
  <2> QED BY <1>3, <1>5, <2>1 DEF MoveHead, Damage, vars, run
<1>6. ASSUME NEW f \in File, NEW new \in Content \cup {Absent}, EditUnderRuns(f, new)
      PROVE  Knows(q)'
  <2>1. /\ UNCHANGED <<pc, kind, scanned, found, draft, live>>
        /\ tree' = [tree EXCEPT ![f] = [content |-> new, mtime |-> edits + 2]]
        /\ since' = [p \in Proc |-> [since[p] EXCEPT ![f] = IF @ = {} THEN {} ELSE @ \cup {new}]]
    BY <1>6 DEF EditUnderRuns, Edit, run
  <2>2. Knows(q)
    BY <1>1, <1>2, <2>1 DEF Builds
  <2>3. \A g \in File : /\ since[q][g] \subseteq since'[q][g]
                        /\ tree'[g].content \in since'[q][g]
    BY <2>1, <2>2 DEF TreeTyped, RunTyped
  <2>4. \A g : Vanished(q, g)' <=> Vanished(q, g)
    BY <2>1 DEF Vanished
  <2>5. \A g \in DOMAIN found[q] \cup DOMAIN draft[q].index : g \in File
    BY DEF RunTyped, Partial, DatabaseTyped, IsDb
  <2> QED BY <2>1, <2>2, <2>3, <2>4, <2>5
<1>7. ASSUME NEW k \in Kinds, Scan(q, k)
      PROVE  Knows(q)'
  <2>1. /\ k # "repair" /\ pc'[q] = "waiting" /\ tree' = tree
        /\ scanned'[q] = Present /\ since'[q] = [f \in File |-> {tree[f].content}]
    BY <1>2, <1>7 DEF Scan, Goto, Builds, RunTyped
  <2> QED BY <2>1 DEF Present
<1>8. CASE Acquire(q)
  BY <1>1, <1>2, <1>8 DEF Acquire, Goto, Builds, RunTyped
<1>9. CASE OpenToRebuild(q) \/ OpenToRefresh(q)
  <2>1. /\ pc'[q] = "preparing" /\ UNCHANGED <<tree, scanned, since>>
        /\ found'[q] = NotLooked(scanned[q])
    BY <1>9 DEF OpenToRebuild, OpenToRefresh, Goto, RunTyped
  <2>2. Knows(q)
    BY <1>1, <1>9 DEF OpenToRebuild, OpenToRefresh, Builds, Running
  <2> QED BY <2>1, <2>2 DEF NotLooked
<1>10. CASE Repair(q) \/ Publish(q) \/ Noop(q) \/ GiveUp(q) \/ Stop(q) \/ Crash(q)
  BY <1>2, <1>10 DEF Repair, Publish, Noop, GiveUp, Stop, Crash, Return, Builds, RunTyped
<1>11. ASSUME NEW f \in File, Stat(q, f) \/ Read(q, f)
       PROVE  Knows(q)'
  <2>1. /\ pc[q] = "preparing" /\ f \in DOMAIN found[q]
        /\ UNCHANGED <<tree, pc, kind, scanned, since, live, draft>>
        /\ DOMAIN found'[q] = DOMAIN found[q]
        /\ \A g \in DOMAIN found[q] : g # f => found'[q][g] = found[q][g]
    BY <1>11 DEF Stat, Read, RunTyped, Partial
  <2>2. Knows(q)
    BY <1>1, <1>2, <2>1 DEF Builds
  <2>3. found'[q][f].hash \in {Unread} \cup since[q][f] \/ Vanished(q, f)'
    <3>1. CASE Stat(q, f)
      <4>1. found'[q][f] = [hash |-> IF Known(q, f) THEN live.index[f].hash ELSE Unread,
                            mtime |-> Mtime(f)]
        BY <3>1 DEF Stat, RunTyped, Partial
      <4>2. CASE ~Known(q, f)
        BY <4>1, <4>2
      <4>3. CASE Known(q, f) /\ f \in Present
        <5>1. live.index[f].hash = tree[f].content
          BY <4>3 DEF Known, Faith, Recorded, Faithful
        <5> QED BY <2>2, <4>1, <4>3, <5>1
      <4>4. CASE Known(q, f) /\ f \notin Present
        <5>1. Mtime(f) = 0
          BY <4>4 DEF Mtime, Present
        <5>2. live.index[f].hash \in Content
          BY <4>4 DEF Known, DatabaseTyped, IsDb, IsDatabase, IsIndex, Rows
        <5> QED BY <2>1, <4>1, <4>4, <5>1, <5>2 DEF Vanished, Known
      <4> QED BY <4>2, <4>3, <4>4
    <3>2. CASE Read(q, f)
      <4>1. found[q][f] \in Finding
        BY <2>1 DEF RunTyped, Partial
      <4>2. found'[q][f] = [found[q][f] EXCEPT !.hash = tree[f].content]
        BY <3>2 DEF Read, RunTyped, Partial
      <4> QED BY <2>2, <4>1, <4>2 DEF Finding
    <3> QED BY <1>11, <3>1, <3>2
  <2>4. \A g \in DOMAIN found[q] : g # f => (Vanished(q, g)' <=> Vanished(q, g))
    BY <2>1 DEF Vanished
  <2> QED BY <2>1, <2>2, <2>3, <2>4
<1>12. CASE Build(q)
  <2>1. /\ pc[q] = "preparing" /\ pc'[q] = "ready" /\ UNCHANGED <<tree, scanned, since>>
        /\ draft'[q].index = Index(q) /\ Prepared(q)
    BY <1>12 DEF Build, Prepared, Goto, RunTyped, DatabaseTyped
  <2>2. Knows(q)
    BY <1>1, <1>2, <1>12, <2>1 DEF Builds, Build, Running
  <2>3. \A f \in DOMAIN found[q] : \/ found[q][f].hash \in since[q][f]
                                   \/ found[q][f].hash \in Content /\ found[q][f].mtime = 0
    BY <2>1, <2>2 DEF Prepared, Vanished
  <2>4. \A f \in DOMAIN Index(q) : f \in DOMAIN found[q] /\ Index(q)[f] = found[q][f]
    BY DEF Index, Readable
  <2>5. \A f \in File : Absent \notin since[q][f] => f \in DOMAIN Index(q)
    BY <2>1, <2>2, <2>3, TreeAssumption DEF Index, Readable
  <2> QED BY <2>1, <2>2, <2>3, <2>4, <2>5
<1> QED
  BY <1>4, <1>5, <1>6, <1>7, <1>8, <1>9, <1>10, <1>11, <1>12 DEF Next, Step

----------------------------------------------------------------------------
LEMMA InvariantHolds == Spec => []IInv
<1>1. IInv /\ [Next]_vars => IInv'
  BY TypedStep, UnderLockStep, FaithStep, RecentStep DEF IInv
<1> QED BY <1>1, InitIsGood, PTL DEF Spec

(* The database, the candidates and every run keep their types, and who is *)
(* at work holds the lock.                                                 *)
THEOREM MaintenanceTypeCorrect == Spec => []TypeOK
<1>1. IInv => TypeOK
  BY DEF IInv, Typed, TreeTyped, DatabaseTyped, RunTyped, LockTyped, IsDb, TypeOK
<1> QED BY <1>1, InvariantHolds, PTL

(* No run loses its candidate to the cleanup of another                    *)
(* (maintenance.rs:289).                                                   *)
THEOREM CandidatesAreKept == Spec => []CandidateIsKept
<1>1. IInv => CandidateIsKept
  BY DEF IInv, UnderLock, CandidateIsKept
<1> QED BY <1>1, InvariantHolds, PTL

(* A recorded modification time stands for the recorded hash, however the  *)
(* file is edited while it is prepared (build.rs:183).                     *)
THEOREM MtimesMeanHashes == Spec => []MtimeMeansHash
<1>1. IInv => MtimeMeansHash
  BY DEF IInv, Faith, Recorded, MtimeMeansHash
<1> QED BY <1>1, InvariantHolds, PTL

----------------------------------------------------------------------------
LEMMA DoneStep ==
  ASSUME IInv, [Next]_vars, NEW p \in Proc, pc[p] # "done", pc'[p] = "done", kind[p] # "repair"
  PROVE  /\ \A f \in DOMAIN live'.index :
              live'.index[f].hash \in since[p][f] \/ live'.index[f].mtime = 0
         /\ \A f \in File : Absent \notin since[p][f] => f \in DOMAIN live'.index
<1> USE DEF IInv, Typed
<1>1. Publish(p) \/ Noop(p)
  <2>1. pc' # pc
    OBVIOUS
  <2>2. PICK q \in Proc : Step(q) \/ \E k \in Kinds : Scan(q, k)
    BY <2>1 DEF Next, EditUnderRuns, MoveHead, Damage, vars, run
  <2>3. q = p
    BY <2>2 DEF Step, Scan, GiveUp, Acquire, OpenToRebuild, OpenToRefresh, Repair, Stat, Read,
                Noop, Build, Publish, Stop, Crash, Return, Goto, RunTyped
  <2> QED BY <2>2, <2>3
          DEF Step, Scan, GiveUp, Acquire, OpenToRebuild, OpenToRefresh, Repair, Stat, Read,
              Build, Stop, Crash, Return, Goto, RunTyped
<1>2. CASE Publish(p)
  <2>1. live'.index = draft[p].index
    BY <1>2 DEF Publish, DatabaseTyped, IsDb
  <2> QED BY <1>2, <2>1 DEF Publish, Recent, Builds, Running
<1>3. CASE Noop(p)
  <2>1. Prepared(p) /\ Unchanged(p) /\ live'.index = live.index
    BY <1>3 DEF Noop, DatabaseTyped, IsDb
  <2>2. /\ DOMAIN live.index = Readable(p)
        /\ \A f \in Readable(p) : live.index[f].hash = found[p][f].hash
    <3>1. DOMAIN Hashes(Index(p)) = Readable(p) /\ DOMAIN Hashes(live.index) = DOMAIN live.index
      BY DEF Hashes, Index
    <3>2. \A f \in Readable(p) : Hashes(Index(p))[f] = found[p][f].hash
      BY DEF Hashes, Index
    <3>3. \A f \in DOMAIN live.index : Hashes(live.index)[f] = live.index[f].hash
      BY DEF Hashes
    <3> QED BY <2>1, <3>1, <3>2, <3>3 DEF Unchanged
  <2>3. Builds(p) /\ pc[p] = "preparing"
    BY <2>1 DEF Prepared, Builds, Running
  <2>4. \A f \in DOMAIN found[p] : found[p][f].hash \in since[p][f] \/ Vanished(p, f)
    BY <2>1, <2>3 DEF Prepared, Recent
  <2>5. \A f \in File : Absent \notin since[p][f] => f \in Readable(p)
    BY <2>3, <2>4, TreeAssumption DEF Recent, Readable, Vanished
  <2> QED BY <2>1, <2>2, <2>4, <2>5 DEF Readable, Vanished
<1> QED BY <1>1, <1>2, <1>3

(* A run that reports success leaves a graph of its own time, except for   *)
(* the rows of files that were not there when prepare_file looked.         *)
THEOREM SuccessIsRecent == Spec => DoneIsRecent
<1>1. IInv /\ [Next]_vars =>
        [\A p \in Proc :
           (pc[p] # "done" /\ pc'[p] = "done" /\ kind[p] # "repair") =>
             /\ \A f \in DOMAIN live'.index :
                  live'.index[f].hash \in since[p][f] \/ live'.index[f].mtime = 0
             /\ \A f \in File : Absent \notin since[p][f] => f \in DOMAIN live'.index]_vars
  BY DoneStep
<1> QED BY <1>1, InvariantHolds, PTL DEF Spec, DoneIsRecent

----------------------------------------------------------------------------
(* Every step publishes, abandons, damages, mends or moves aside, changes  *)
(* the tree, or is nothing to the readers.                                 *)
Visible == [sound |-> live.sound, built |-> live.built, index |-> live.index, pub |-> live.pub]
Spent == IF \E p \in Proc : pc[p] = "ready" THEN builds - 1 ELSE builds

LEMMA IsIndexes ==
  ASSUME NEW index, Partial(index, Rows), Recorded(index), TreeTyped
  PROVE  index \in Publication!Indexes
<1>1. \A f \in DOMAIN index : index[f] \in [hash : Content, mtime : 0..(edits + 1)]
  <2>1. \A f \in DOMAIN index : index[f] \in Rows /\ index[f].mtime <= edits + 1
    BY DEF Partial, Recorded
  <2> QED BY <2>1 DEF Rows, TreeTyped
<1>2. index \in [DOMAIN index -> [hash : Content, mtime : 0..(edits + 1)]]
  BY <1>1 DEF Partial
<1>3. Publication!Faithful(index)
  BY DEF Recorded, Faithful, Publication!Faithful, Mtime, Publication!Mtime, Present,
         Publication!Present
<1> QED BY <1>2, <1>3 DEF Publication!Indexes, Partial

LEMMA StepRefines ==
  ASSUME IInv, [Next]_vars
  PROVE  [Publication!Next]_<<tree, edits, Visible, Spent>>
<1> USE GraphAssumption DEF IInv, Typed
<1>1. \A p, q \in Proc : pc[p] \in Running /\ pc[q] \in Running => p = q
  BY DEF LockTyped
<1>2. ASSUME NEW p \in Proc, pc[p] \in Running, pc[p] # "ready"
      PROVE  Spent = builds
  BY <1>1, <1>2 DEF Spent, Running
<1>3. ASSUME NEW p \in Proc, pc[p] = "ready"
      PROVE  Spent = builds - 1 /\ builds \in 1..MaxBuilds
  BY <1>3 DEF Spent, UnderLock, DatabaseTyped, IsDb, IsDatabase
<1>4. ASSUME NEW p \in Proc, NEW place \in {"idle", "done"},
             Return(p, place) \/ Crash(p), pc[p] \in Running
      PROVE  Spent' = builds'
  BY <1>1, <1>4 DEF Spent, Return, Crash, RunTyped, Running
<1>5. ASSUME NEW p \in Proc, Publish(p)
      PROVE  Publication!Publish /\ UNCHANGED <<tree, edits>>
  <2>1. PICK sound \in {live.sound, TRUE} : live' = [draft[p] EXCEPT !.sound = sound]
    BY <1>5 DEF Publish
  <2>2. pc[p] = "ready" /\ Return(p, "done") /\ builds' = builds
    BY <1>5 DEF Publish, bounds
  <2>3. Visible' = [sound |-> sound, built |-> TRUE, index |-> draft[p].index, pub |-> builds]
    <3>1. draft[p].built = TRUE /\ draft[p].pub = builds
      BY <2>2 DEF UnderLock, DatabaseTyped, IsDb, IsDatabase
    <3>2. draft[p] = [sound |-> draft[p].sound, built |-> draft[p].built,
                      index |-> draft[p].index, pub |-> draft[p].pub, head |-> draft[p].head]
      BY DEF DatabaseTyped, IsDb
    <3>3. live' = [sound |-> sound, built |-> TRUE, index |-> draft[p].index, pub |-> builds,
                   head |-> draft[p].head]
      BY <2>1, <3>1, <3>2
    <3> QED BY <3>3 DEF Visible
  <2>4. Spent = builds - 1 /\ Spent' = builds /\ builds \in 1..MaxBuilds
    BY <1>3, <1>4, <2>2 DEF Running
  <2>5. draft[p].index \in Publication!Indexes
    BY IsIndexes DEF DatabaseTyped, IsDb, Faith
  <2>6. \E index \in Publication!Indexes : \E s \in {Visible.sound, TRUE} :
          Visible' = [sound |-> s, built |-> TRUE, index |-> index, pub |-> Spent']
    <3>1. sound \in {Visible.sound, TRUE}
      BY DEF Visible
    <3> QED BY <2>3, <2>4, <2>5, <3>1
  <2>7. Spent < MaxBuilds /\ Spent' = Spent + 1
    BY <2>4, GraphAssumption
  <2> QED BY <1>5, <2>6, <2>7 DEF Publish, Publication!Publish, Visible, Spent
<1>6. ASSUME NEW p \in Proc, Noop(p)
      PROVE  (Publication!Publish /\ UNCHANGED <<tree, edits>>) \/ UNCHANGED <<tree, edits, Visible, Spent>>
  <2>1. /\ pc[p] = "preparing" /\ Return(p, "done") /\ Spent = builds /\ Spent' = builds'
        /\ live.built = TRUE
    BY <1>2, <1>4, <1>6 DEF Noop, Prepared, Running, UnderLock, DatabaseTyped, IsDb, IsDatabase
  <2>2. CASE UNCHANGED <<live, builds>>
    BY <1>6, <2>1, <2>2 DEF Noop, Visible
  <2>3. CASE builds < MaxBuilds /\ builds' = builds + 1
             /\ live' = [live EXCEPT !.head = head, !.pub = builds']
    <3>1. live = [sound |-> live.sound, built |-> live.built, index |-> live.index,
                  pub |-> live.pub, head |-> live.head]
      BY DEF DatabaseTyped, IsDb
    <3>2. live' = [sound |-> live.sound, built |-> TRUE, index |-> live.index,
                   pub |-> builds', head |-> head]
      BY <2>1, <2>3, <3>1
    <3>3. live.index \in Publication!Indexes
      BY IsIndexes DEF DatabaseTyped, IsDb, Faith
    <3>4. \E index \in Publication!Indexes : \E s \in {Visible.sound, TRUE} :
            Visible' = [sound |-> s, built |-> TRUE, index |-> index, pub |-> Spent']
      BY <2>1, <3>2, <3>3 DEF Visible
    <3>5. Spent < MaxBuilds /\ Spent' = Spent + 1
      BY <2>1, <2>3
    <3> QED BY <1>6, <3>4, <3>5 DEF Noop, Publication!Publish, Visible, Spent
  <2> QED BY <1>6, <2>2, <2>3 DEF Noop
<1>7. ASSUME NEW p \in Proc, Stop(p) \/ Crash(p)
      PROVE  (Publication!Abandon /\ UNCHANGED <<tree, edits>>) \/ UNCHANGED <<tree, edits, Visible, Spent>>
  <2>1. pc[p] \in Running /\ Spent' = builds /\ builds' = builds /\ UNCHANGED <<live, tree, edits>>
    BY <1>4, <1>7 DEF Stop, Crash, bounds
  <2>2. CASE pc[p] = "ready"
    <3>1. Spent = builds - 1 /\ builds \in 1..MaxBuilds
      BY <1>3, <2>2
    <3>2. Spent < MaxBuilds /\ Spent' = Spent + 1
      BY <2>1, <3>1
    <3> QED BY <2>1, <3>2 DEF Publication!Abandon, Visible, Spent
  <2>3. CASE pc[p] # "ready"
    BY <1>2, <2>1, <2>3 DEF Visible
  <2> QED BY <2>2, <2>3
<1>8. ASSUME NEW p \in Proc, Repair(p)
      PROVE  (Publication!Mend /\ UNCHANGED <<tree, edits>>) \/ UNCHANGED <<tree, edits, Visible, Spent>>
  <2>1. /\ pc[p] = "opening" /\ builds' = builds /\ UNCHANGED <<tree, edits>>
        /\ \E place \in {"idle", "done"} : Return(p, place)
    BY <1>8 DEF Repair, bounds
  <2>2. Spent' = Spent
    BY <1>2, <1>4, <2>1 DEF Running
  <2>3. PICK sound \in {live.sound, TRUE} : live' = [live EXCEPT !.sound = sound]
    BY <1>8 DEF Repair
  <2>4. live = [sound |-> live.sound, built |-> live.built, index |-> live.index,
                pub |-> live.pub, head |-> live.head]
    BY DEF DatabaseTyped, IsDb
  <2>5. Visible' = [Visible EXCEPT !.sound = sound]
    BY <2>3, <2>4 DEF Visible
  <2>6. sound = live.sound => Visible' = Visible
    BY <2>5 DEF Visible
  <2>7. sound = TRUE => Visible' = [Visible EXCEPT !.sound = TRUE]
    BY <2>5
  <2> QED BY <2>1, <2>2, <2>3, <2>6, <2>7 DEF Publication!Mend, Visible, Spent
<1>9. ASSUME NEW p \in Proc, OpenToRebuild(p)
      PROVE  (Publication!MoveAside /\ UNCHANGED <<tree, edits>>) \/ UNCHANGED <<tree, edits, Visible, Spent>>
  <2>1. /\ pc[p] = "opening" /\ pc' = [pc EXCEPT ![p] = "preparing"]
        /\ builds' = builds /\ UNCHANGED <<tree, edits>>
    BY <1>9 DEF OpenToRebuild, Goto, bounds
  <2>2. Spent' = Spent
    BY <2>1 DEF Spent, RunTyped
  <2>3. live' = live \/ live' = Empty
    BY <1>9 DEF OpenToRebuild
  <2>4. live' = Empty => Visible' = Publication!NotBuilt
    BY DEF Visible, Empty, Publication!NotBuilt
  <2>5. live' = live => Visible' = Visible
    BY DEF Visible
  <2> QED BY <2>1, <2>2, <2>3, <2>4, <2>5 DEF Publication!MoveAside, Visible, Spent
<1>10. ASSUME NEW p \in Proc, Build(p)
       PROVE  UNCHANGED <<tree, edits, Visible, Spent>>
  <2>1. /\ pc[p] = "preparing" /\ pc' = [pc EXCEPT ![p] = "ready"] /\ builds' = builds + 1
        /\ UNCHANGED <<tree, edits, live>>
    BY <1>10 DEF Build, Prepared, Goto
  <2>2. Spent = builds
    BY <1>2, <2>1 DEF Running
  <2>3. Spent' = builds' - 1
    BY <2>1 DEF Spent, RunTyped
  <2> QED BY <2>1, <2>2, <2>3 DEF Visible, DatabaseTyped
<1>11. ASSUME NEW p \in Proc,
              \/ GiveUp(p) \/ Acquire(p) \/ OpenToRefresh(p)
              \/ \E f \in File : Stat(p, f) \/ Read(p, f)
              \/ \E k \in Kinds : Scan(p, k)
       PROVE  UNCHANGED <<tree, edits, Visible, Spent>>
  BY <1>11 DEF GiveUp, Acquire, OpenToRefresh, Stat, Read, Scan, Return, Goto, Visible, Spent,
               RunTyped, bounds
<1>12. ASSUME NEW f \in File, NEW new \in Content \cup {Absent}, EditUnderRuns(f, new)
       PROVE  Publication!Change /\ UNCHANGED <<Visible, Spent>>
  BY <1>12 DEF EditUnderRuns, Edit, Publication!Change, Publication!Edit, Visible, Spent, run, bounds
<1>13. CASE Damage
  <2>1. live.built /\ live' = [live EXCEPT !.sound = FALSE] /\ UNCHANGED <<tree, edits, pc, builds>>
    BY <1>13 DEF Damage, run
  <2>2. Visible' = [Visible EXCEPT !.sound = FALSE] /\ Visible.built
    <3>1. live = [sound |-> live.sound, built |-> live.built, index |-> live.index,
                  pub |-> live.pub, head |-> live.head]
      BY DEF DatabaseTyped, IsDb
    <3>2. live' = [sound |-> FALSE, built |-> live.built, index |-> live.index,
                   pub |-> live.pub, head |-> live.head]
      BY <2>1, <3>1
    <3>3. Visible' = [Visible EXCEPT !.sound = FALSE]
      <4>1. \A v : live' = [sound |-> v, built |-> live.built, index |-> live.index,
                           pub |-> live.pub, head |-> live.head]
                    => Visible' = [Visible EXCEPT !.sound = v]
        BY DEF Visible
      <4> QED BY <3>2, <4>1
    <3>4. Visible.built = live.built
      BY DEF Visible
    <3>5. live.built
      BY <2>1
    <3> QED BY <3>3, <3>4, <3>5
  <2>3. Spent' = Spent
    BY <2>1 DEF Spent
  <2>4. Publication!Damage /\ UNCHANGED <<tree, edits>>
    BY <2>1, <2>2, <2>3 DEF Publication!Damage, Visible, Spent
  <2> QED BY <2>4 DEF Publication!Next, Publication!Maintain
<1>14. CASE MoveHead \/ UNCHANGED vars
  BY <1>14 DEF MoveHead, vars, run, bounds, Visible, Spent
<1>15. ASSUME NEW p \in Proc, Step(p) \/ \E k \in Kinds : Scan(p, k)
       PROVE  [Publication!Next]_<<tree, edits, Visible, Spent>>
  BY <1>5, <1>6, <1>7, <1>8, <1>9, <1>10, <1>11, <1>15
     DEF Step, Publication!Next, Publication!Maintain
<1>16. ASSUME NEW f \in File, NEW new \in Content \cup {Absent}, EditUnderRuns(f, new)
       PROVE  Publication!Next
  BY <1>12, <1>16 DEF Publication!Next, Visible, Spent
<1> QED BY <1>13, <1>14, <1>15, <1>16 DEF Next

LEMMA InitRefines == Init => Publication!Init
<1> SUFFICES ASSUME Init PROVE Publication!Init
  OBVIOUS
<1>1. Publication!TreeInit
  BY DEF Init, TreeInit, Publication!TreeInit
<1>2. Visible = Publication!NotBuilt
  BY DEF Init, Empty, Visible, Publication!NotBuilt
<1>3. Spent = 0
  BY DEF Init, Spent
<1> QED BY <1>1, <1>2, <1>3 DEF Publication!Init, Visible, Spent

(* Whatever runs, dies, is damaged or edited, readers see whole            *)
(* publications of faithful rows under ids that were never used before.    *)
THEOREM MaintenanceRefines == Spec => ImplementsPublication
<1>1. IInv /\ [Next]_vars => [Publication!Next]_(Publication!vars)
  BY StepRefines DEF Publication!vars, Visible, Spent
<1> QED BY <1>1, InitRefines, InvariantHolds, PTL
        DEF Spec, ImplementsPublication, Publication!Spec
=============================================================================
