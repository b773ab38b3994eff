-------------------------- MODULE GraphMaintenance --------------------------
(***************************************************************************)
(* Rebuild, refresh and repair of the code graph (src/graph/maintenance.rs *)
(* with lock.rs and the file preparation of build.rs).                     *)
(*                                                                         *)
(* A run scans the tree for source files, takes the maintenance lock,      *)
(* reads every file it found while editors keep writing them, writes a     *)
(* candidate database beside the live one, and publishes it in one         *)
(* transaction.  A refresh does not read a file whose modification time    *)
(* is the one recorded with its content hash.                              *)
(*                                                                         *)
(* GraphPublication is what the readers of the live database see of this.  *)
(***************************************************************************)
EXTENDS SourceTree

CONSTANTS
  Proc,         \* processes that run maintenance
  Todo,         \* the file has not been looked at by a run
  Unread,       \* its modification time has been read, its content not
  Free,         \* nobody holds the maintenance lock
  Stray,        \* the candidate of a run that died
  MaxMoves,     \* bound: commits and checkouts that move HEAD
  MaxBuilds,    \* bound: publication ids given out
  MaxCrashes,   \* bound: runs that die
  MaxDamage     \* bound: corruptions of the live database

ASSUME GraphAssumption ==
  /\ Free \notin Proc /\ Stray \notin Proc
  /\ {Absent, Todo, Unread} \cap Content = {}
  /\ Absent # Todo /\ Absent # Unread /\ Todo # Unread
  /\ {MaxMoves, MaxBuilds, MaxCrashes, MaxDamage} \subseteq Nat

VARIABLES
  head,        \* the repository's branch and HEAD
  live,        \* the live database: [sound, built, index, pub, head]
  lock,        \* the run that holds the maintenance lock, or Free
  candidates,  \* the candidate databases on disk, by the run that made them
  pc, kind,    \* where each run is, and what it is
  scanned,     \* the files its scan found
  found,       \* what it knows of them: file -> [hash, mtime]
  draft,       \* the database in its candidate
  since,       \* history: the contents every file has had since the scan of its run
  builds, crashes, damage

run == <<pc, kind, scanned, found, draft>>
bounds == <<builds, crashes, damage>>
vars == <<tree, head, live, lock, candidates, run, since, edits, bounds>>

----------------------------------------------------------------------------
Kinds == {"rebuild", "refresh", "repair"}
Places == {"idle", "done",   \* not running; the last run reported success
           "waiting",        \* scanned, wants the lock
           "opening",        \* has the lock, has removed old candidates
           "preparing",      \* reads the files
           "ready"}          \* candidate written and validated
Running == {"opening", "preparing", "ready"}

(* A graph nobody has built, and what a run knows before it looks.         *)
Empty == [sound |-> TRUE, built |-> FALSE, index |-> <<>>, pub |-> 0, head |-> 0]
NotLooked(files) == [f \in files |-> [hash |-> Todo, mtime |-> 0]]

NoHistory == [f \in File |-> {}]

Init ==
  /\ TreeInit
  /\ head = 0
  /\ live = Empty
  /\ lock = Free
  /\ candidates = {}
  /\ pc = [p \in Proc |-> "idle"]
  /\ kind = [p \in Proc |-> "repair"]
  /\ scanned = [p \in Proc |-> {}]
  /\ found = [p \in Proc |-> <<>>]
  /\ draft = [p \in Proc |-> Empty]
  /\ since = [p \in Proc |-> NoHistory]
  /\ builds = 0 /\ crashes = 0 /\ damage = 0

Goto(p, place) == pc' = [pc EXCEPT ![p] = place]

(* The run returns: its candidate is dropped, then its lock.               *)
Return(p, place) ==
  /\ pc' = [pc EXCEPT ![p] = place]
  /\ kind' = [kind EXCEPT ![p] = "repair"]
  /\ scanned' = [scanned EXCEPT ![p] = {}]
  /\ found' = [found EXCEPT ![p] = <<>>]
  /\ draft' = [draft EXCEPT ![p] = Empty]
  /\ since' = [since EXCEPT ![p] = NoHistory]
  /\ candidates' = candidates \ {p}
  /\ lock' = IF lock = p THEN Free ELSE lock

----------------------------------------------------------------------------
(* The caller scans the corpus before it asks for the lock.  (A repair     *)
(* scans nothing, and refuses when there is no database.)                  *)
Scan(p, k) ==
  /\ pc[p] \in {"idle", "done"}
  /\ k = "repair" => live.built
  /\ Goto(p, "waiting")
  /\ kind' = [kind EXCEPT ![p] = k]
  /\ scanned' = [scanned EXCEPT ![p] = IF k = "repair" THEN {} ELSE Present]
  /\ since' = [since EXCEPT ![p] = IF k = "repair" THEN NoHistory
                                   ELSE [f \in File |-> {tree[f].content}]]
  /\ UNCHANGED <<tree, head, live, lock, candidates, found, draft, edits, bounds>>

(* GRAPH_MAINTENANCE_LOCKED                                                *)
GiveUp(p) ==
  /\ pc[p] = "waiting"
  /\ lock # Free
  /\ Return(p, "idle")
  /\ UNCHANGED <<tree, head, live, edits, bounds>>

(* Mutant of Acquire: candidates are cleaned up whoever has the lock.      *)
AcquireAfterCleanup(p) ==
  /\ pc[p] = "waiting"
  /\ candidates' = {}
  /\ lock' = IF lock = Free THEN p ELSE lock
  /\ Goto(p, IF lock = Free THEN "opening" ELSE "idle")
  /\ UNCHANGED <<tree, head, live, kind, scanned, found, draft, since, edits, bounds>>

(* The OS lock, and cleanup_stale_candidates under it.                     *)
Acquire(p) ==
  /\ pc[p] = "waiting"
  /\ lock = Free
  /\ lock' = p
  /\ candidates' = {}
  /\ Goto(p, "opening")
  /\ UNCHANGED <<tree, head, live, kind, scanned, found, draft, since, edits, bounds>>

(* A run that extracts every file starts with its candidate: a rebuild,    *)
(* or a refresh of a graph nobody has built.  A rebuild moves a database   *)
(* that does not open aside and goes on with a fresh one: a damaged one, or*)
(* a sound one that is busy or cannot be read just then.                   *)
OpenToRebuild(p) ==
  /\ pc[p] = "opening"
  /\ \/ kind[p] = "rebuild" /\ \E opens \in {live.sound, FALSE} :
                                live' = IF opens THEN live ELSE Empty
     \/ kind[p] = "refresh" /\ live.sound /\ ~live.built /\ UNCHANGED live
  /\ kind' = [kind EXCEPT ![p] = "rebuild"]
  /\ candidates' = candidates \cup {p}
  /\ found' = [found EXCEPT ![p] = NotLooked(scanned[p])]
  /\ Goto(p, "preparing")
  /\ UNCHANGED <<tree, head, lock, scanned, draft, since, edits, bounds>>

(* A refresh refuses a database that does not open.                        *)
OpenToRefresh(p) ==
  /\ pc[p] = "opening"
  /\ kind[p] = "refresh"
  /\ live.sound /\ live.built
  /\ found' = [found EXCEPT ![p] = NotLooked(scanned[p])]
  /\ Goto(p, "preparing")
  /\ UNCHANGED <<tree, head, live, lock, candidates, kind, scanned, draft, since, edits, bounds>>

(* A repair mends the file in place, or reports that it cannot.            *)
Repair(p) ==
  /\ pc[p] = "opening"
  /\ kind[p] = "repair"
  /\ \E sound \in {live.sound, TRUE} :
       /\ live' = [live EXCEPT !.sound = sound]
       /\ Return(p, IF sound THEN "done" ELSE "idle")
  /\ UNCHANGED <<tree, head, edits, bounds>>

----------------------------------------------------------------------------
(* prepare_file: the modification time is read first (0 when there is no   *)
(* file); with the one the live graph recorded, a refresh takes the        *)
(* recorded hash ...                                                       *)
Known(p, f) ==
  /\ kind[p] = "refresh"
  /\ f \in DOMAIN live.index
  /\ live.index[f].mtime = Mtime(f)

(* Mutant of Stat: the file is read, then its modification time.           *)
ReadThenStat(p, f) ==
  /\ pc[p] = "preparing"
  /\ f \in DOMAIN found[p]
  /\ \/ /\ found[p][f].hash = Todo
        /\ found' = [found EXCEPT ![p][f].hash = tree[f].content]
     \/ /\ found[p][f].hash \in Content
        /\ found[p][f].mtime = 0
        /\ found' = [found EXCEPT ![p][f].mtime = Mtime(f)]
  /\ UNCHANGED <<tree, head, live, lock, candidates, pc, kind, scanned, draft, since,
                 edits, bounds>>

Stat(p, f) ==
  /\ pc[p] = "preparing"
  /\ f \in DOMAIN found[p]
  /\ found[p][f].hash = Todo
  /\ found' = [found EXCEPT ![p][f] =
                 [hash |-> IF Known(p, f) THEN live.index[f].hash ELSE Unread,
                  mtime |-> Mtime(f)]]
  /\ UNCHANGED <<tree, head, live, lock, candidates, pc, kind, scanned, draft, since,
                 edits, bounds>>

(* ... otherwise it reads and hashes the file, if it can.                  *)
Read(p, f) ==
  /\ pc[p] = "preparing"
  /\ f \in DOMAIN found[p]
  /\ found[p][f].hash = Unread
  /\ found' = [found EXCEPT ![p][f].hash = tree[f].content]
  /\ UNCHANGED <<tree, head, live, lock, candidates, pc, kind, scanned, draft, since,
                 edits, bounds>>

Prepared(p) ==
  /\ pc[p] = "preparing"
  /\ \A f \in DOMAIN found[p] : found[p][f].hash \notin {Todo, Unread}

Readable(p) == {f \in DOMAIN found[p] : found[p][f].hash # Absent}
Hashes(index) == [f \in DOMAIN index |-> index[f].hash]
Index(p) == [f \in Readable(p) |-> found[p][f]]
Unchanged(p) == Hashes(Index(p)) = Hashes(live.index)

(* A refresh that finds nothing changed touches no row; it records where   *)
(* HEAD is now, under a new publication id, if that has moved.             *)
Noop(p) ==
  /\ Prepared(p)
  /\ kind[p] = "refresh"
  /\ Unchanged(p)
  /\ \/ /\ live.head = head
        /\ UNCHANGED <<live, builds>>
     \/ /\ live.head # head
        /\ builds < MaxBuilds
        /\ builds' = builds + 1
        /\ live' = [live EXCEPT !.head = head, !.pub = builds']
  /\ Return(p, "done")
  /\ UNCHANGED <<tree, head, edits, crashes, damage>>

(* Mutant of Build: publication ids are counted on from the live one.      *)
BuildNextId(p) ==
  /\ Prepared(p)
  /\ kind[p] = "rebuild" \/ ~Unchanged(p)
  /\ builds < MaxBuilds
  /\ builds' = builds + 1
  /\ draft' = [draft EXCEPT ![p] = [sound |-> TRUE, built |-> TRUE, index |-> Index(p),
                                    pub |-> live.pub + 1, head |-> head]]
  /\ candidates' = candidates \cup {p}
  /\ Goto(p, "ready")
  /\ UNCHANGED <<tree, head, live, lock, kind, scanned, found, since, edits, crashes, damage>>

(* write_graph and validate_candidate                                      *)
Build(p) ==
  /\ Prepared(p)
  /\ kind[p] = "rebuild" \/ ~Unchanged(p)
  /\ builds < MaxBuilds
  /\ builds' = builds + 1
  /\ draft' = [draft EXCEPT ![p] = [sound |-> TRUE, built |-> TRUE, index |-> Index(p),
                                    pub |-> builds', head |-> head]]
  /\ candidates' = candidates \cup {p}
  /\ Goto(p, "ready")
  /\ UNCHANGED <<tree, head, live, lock, kind, scanned, found, since, edits, crashes, damage>>

(* Mutant of Publish: rows of files the candidate does not have stay.      *)
PublishOver(p) ==
  /\ pc[p] = "ready"
  /\ live' = [draft[p] EXCEPT !.index =
                [f \in DOMAIN draft[p].index \cup DOMAIN live.index |->
                   IF f \in DOMAIN live.index THEN live.index[f] ELSE draft[p].index[f]]]
  /\ Return(p, "done")
  /\ UNCHANGED <<tree, head, edits, bounds>>

(* publish_candidate or publish_candidate_delta: one transaction that      *)
(* leaves exactly the candidate's rows.                                    *)
Publish(p) ==
  /\ pc[p] = "ready"
  /\ \E sound \in {live.sound, TRUE} : live' = [draft[p] EXCEPT !.sound = sound]
  /\ Return(p, "done")
  /\ UNCHANGED <<tree, head, edits, bounds>>

(* The run is cancelled at one of its checkpoints, refused, or fails.      *)
Stop(p) ==
  /\ pc[p] \in Running
  /\ Return(p, "idle")
  /\ UNCHANGED <<tree, head, live, edits, bounds>>

(* The process dies: the OS releases its lock, its candidate stays, and a  *)
(* transaction it has not committed is rolled back.                        *)
Crash(p) ==
  /\ pc[p] \in Running
  /\ crashes < MaxCrashes
  /\ crashes' = crashes + 1
  /\ pc' = [pc EXCEPT ![p] = "idle"]
  /\ kind' = [kind EXCEPT ![p] = "repair"]
  /\ scanned' = [scanned EXCEPT ![p] = {}]
  /\ found' = [found EXCEPT ![p] = <<>>]
  /\ draft' = [draft EXCEPT ![p] = Empty]
  /\ since' = [since EXCEPT ![p] = NoHistory]
  /\ candidates' = (candidates \ {p}) \cup (IF p \in candidates THEN {Stray} ELSE {})
  /\ lock' = IF lock = p THEN Free ELSE lock
  /\ UNCHANGED <<tree, head, live, edits, builds, damage>>

----------------------------------------------------------------------------
(* A source file changes under the runs.                                   *)
EditUnderRuns(f, new) ==
  /\ Edit(f, new)
  /\ since' = [p \in Proc |-> [since[p] EXCEPT ![f] = IF @ = {} THEN {} ELSE @ \cup {new}]]
  /\ UNCHANGED <<head, live, lock, candidates, run, bounds>>

MoveHead ==
  /\ head < MaxMoves
  /\ head' = head + 1
  /\ UNCHANGED <<tree, live, lock, candidates, run, since, edits, bounds>>

(* The disk loses part of the live database.                               *)
Damage ==
  /\ damage < MaxDamage
  /\ live.built
  /\ damage' = damage + 1
  /\ live' = [live EXCEPT !.sound = FALSE]
  /\ UNCHANGED <<tree, head, lock, candidates, run, since, edits, builds, crashes>>

Step(p) ==
  \/ GiveUp(p) \/ Acquire(p)
  \/ OpenToRebuild(p) \/ OpenToRefresh(p) \/ Repair(p)
  \/ \E f \in File : Stat(p, f) \/ Read(p, f)
  \/ Noop(p) \/ Build(p) \/ Publish(p)
  \/ Stop(p) \/ Crash(p)

Next ==
  \/ \E p \in Proc : Step(p) \/ \E k \in Kinds : Scan(p, k)
  \/ \E f \in File : \E new \in Content \cup {Absent} : EditUnderRuns(f, new)
  \/ MoveHead
  \/ Damage

Spec == Init /\ [][Next]_vars

----------------------------------------------------------------------------
(* Every variable keeps its range, and only a run under the lock is beyond *)
(* waiting for it.                                                         *)
IsDatabase(db) ==
  /\ db.sound \in BOOLEAN /\ db.built \in BOOLEAN
  /\ db.pub \in 0..MaxBuilds /\ db.head \in 0..MaxMoves
  /\ db.built <=> db.pub # 0
  /\ IsIndex(db.index)

TypeOK ==
  /\ tree \in [File -> [content : Content \cup {Absent}, mtime : 1..(MaxEdits + 1)]]
  /\ IsDatabase(live)
  /\ lock \in Proc \cup {Free}
  /\ candidates \subseteq Proc \cup {Stray}
  /\ pc \in [Proc -> Places]
  /\ kind \in [Proc -> Kinds]
  /\ \A p \in Proc : /\ pc[p] \in Running <=> lock = p
                     /\ scanned[p] \subseteq File
                     /\ DOMAIN found[p] \subseteq scanned[p]
                     /\ IsDatabase(draft[p])

(* "so no candidate can belong to a live run" (maintenance.rs:289): a run  *)
(* that has written its candidate still has it when it publishes, whatever *)
(* the cleanup of other runs removes.                                      *)
CandidateIsKept == \A p \in Proc : pc[p] = "ready" => p \in candidates

(* A file that still has the modification time recorded with its hash has  *)
(* the content that was hashed, although it may have been edited while it  *)
(* was being read.                                                         *)
MtimeMeansHash == Faithful(live.index)

(* A rebuild or refresh that reports success leaves a graph in which every *)
(* file has a content it had during the run, and from which no file that   *)
(* existed all along is missing: neither an older publication nor another  *)
(* run's shows through.  The exception is a row recorded with modification *)
(* time 0, that of a file that did not exist when prepare_file looked but  *)
(* did when it read: the row matches the file whenever it is gone again.   *)
DoneIsRecent ==
  [][\A p \in Proc :
       (pc[p] # "done" /\ pc'[p] = "done" /\ kind[p] # "repair") =>
         /\ \A f \in DOMAIN live'.index :
              live'.index[f].hash \in since[p][f] \/ live'.index[f].mtime = 0
         /\ \A f \in File : Absent \notin since[p][f] => f \in DOMAIN live'.index]_vars

(* Readers see whole publications with ids that were never used before:    *)
(* GraphPublication, where an id is spent once the run it was given to has *)
(* published or is over.  "A crash (or error) at any point before that     *)
(* commit leaves the live graph exactly as it was" (maintenance.rs:6), and *)
(* "cancelled (...); the live graph was not changed" (maintenance.rs:132), *)
(* do not hold: a rebuild has moved aside a graph that did not open, a     *)
(* sound one too, before it has a candidate (maintenance.rs:602), and when *)
(* it then stops or dies no graph is left.  This is the abstract step      *)
(* MoveAside, the only other change of the graph besides damage and repair.*)
Publication == INSTANCE GraphPublication WITH
  live <- [sound |-> live.sound, built |-> live.built, index |-> live.index, pub |-> live.pub],
  spent <- IF \E p \in Proc : pc[p] = "ready" THEN builds - 1 ELSE builds

ImplementsPublication == Publication!Spec
=============================================================================
