----------------------------- MODULE GraphReads -----------------------------
(***************************************************************************)
(* A read of the code graph while it is maintained and its sources are     *)
(* edited (src/graph/status.rs, read.rs, and pin_snapshot of engine.rs).   *)
(*                                                                         *)
(* The reader inspects the graph: it loads the indexed files from one      *)
(* snapshot of the database, compares each of them with the tree, and      *)
(* starts over when the publication id was not the same before and after.  *)
(* Then it opens a session on a second snapshot, which must be the         *)
(* publication it inspected, and answers from it, leaving out the files    *)
(* found to have drifted, as far as the list of them goes.                 *)
(***************************************************************************)
EXTENDS GraphPublication

VARIABLES
  reader,   \* the read that is under way
  witness,  \* history: the contents every file has had since its inspection began
  changes   \* history: how often the live database changed since it began, up to 2

readVars == <<reader, witness, changes>>
allVars == <<vars, readVars>>

MAX_OBSERVATION_ATTEMPTS == 3
MAX_OPEN_ATTEMPTS == 2

Outcomes == {"idle", "refused",   \* no read; the graph cannot be used
             "raced", "changed"}  \* GRAPH_STATUS_OBSERVATION_RACE, READER_DATABASE_CHANGED

NoRead ==
  [at |-> "idle", tolerant |-> FALSE, observed |-> 0, opened |-> 0, before |-> 0,
   db |-> NotBuilt, scanned |-> TRUE, listed |-> {}, todo |-> {}, drifted |-> {},
   unlisted |-> {}, session |-> NotBuilt]

ReadInit ==
  /\ Init
  /\ reader = NoRead
  /\ witness = [f \in File |-> {}]
  /\ changes = 0

At(place) == reader.at = place
Answer(outcome) == reader' = [NoRead EXCEPT !.at = outcome]

(* publication_id_at: None, 0 here, for a database nobody has built, and   *)
(* perhaps for a damaged one.                                              *)
PublicationIds == {live.pub} \cup (IF live.sound THEN {} ELSE {0})

----------------------------------------------------------------------------
(* A command asks for a read session; `graph scope' tolerates a graph that *)
(* is stale in ways it cannot list.                                        *)
Begin(tolerant) ==
  /\ reader.at \in Outcomes
  /\ reader' = [NoRead EXCEPT !.at = "observing", !.tolerant = tolerant]
  /\ changes' = 0
  /\ UNCHANGED <<vars, witness>>

(* inspect_status, one attempt: the publication id before ...              *)
Observe ==
  /\ At("observing")
  /\ \E id \in PublicationIds :
       reader' = [reader EXCEPT !.at = "inspecting", !.observed = @ + 1, !.before = id,
                                !.db = NotBuilt, !.scanned = TRUE, !.listed = {},
                                !.drifted = {}]
  /\ witness' = [f \in File |-> {tree[f].content}]
  /\ UNCHANGED <<vars, changes>>

(* ... the rows of one snapshot of a sound database, and the list of the   *)
(* files there are, unless there are more than the corpus may have: then   *)
(* no file is compared ...                                                 *)
Inspect ==
  /\ At("inspecting")
  /\ \/ /\ live.sound
        /\ \E scanned \in BOOLEAN :
             /\ live.built \/ scanned
             /\ reader' = [reader EXCEPT !.at = "comparing", !.db = live, !.scanned = scanned,
                                      !.listed = Present,
                                      !.todo = IF live.built /\ scanned THEN File ELSE {}]
     \/ /\ ~live.sound
        /\ Answer("refused")
  /\ UNCHANGED <<vars, witness, changes>>

(* Mutant of Drifted: files that are gone are not looked for.              *)
DriftedInPlace(f) ==
  /\ f \in reader.listed
  /\ \/ f \notin DOMAIN reader.db.index
     \/ /\ reader.db.index[f].mtime # Mtime(f)
        /\ reader.db.index[f].hash # tree[f].content

(* ... each file compared with its row, by modification time or else by    *)
(* content: added, modified and deleted files have drifted, and files that *)
(* cannot be read are taken for modified ...                               *)
Drifted(f) ==
  IF f \in reader.listed
  THEN \/ f \notin DOMAIN reader.db.index
       \/ /\ reader.db.index[f].mtime # Mtime(f)
          /\ reader.db.index[f].hash # tree[f].content
  ELSE f \in DOMAIN reader.db.index

IsRead(f) ==
  f \in reader.listed \cap DOMAIN reader.db.index /\ reader.db.index[f].mtime # Mtime(f)

Compare(f) ==
  /\ At("comparing")
  /\ f \in reader.todo
  /\ \E differs \in {Drifted(f), Drifted(f) \/ IsRead(f)} :
       reader' = [reader EXCEPT !.todo = @ \ {f},
                                !.drifted = IF differs THEN @ \cup {f} ELSE @]
  /\ UNCHANGED <<vars, witness, changes>>

(* Mutant of Settle: the second race is already an answer.                 *)
SettleAtOnce ==
  /\ At("comparing")
  /\ reader.todo = {}
  /\ \/ /\ reader.before = live.pub /\ live.pub = reader.db.pub
        /\ reader.db.built
        /\ reader' = [reader EXCEPT !.at = "opening"]
     \/ /\ reader.before # live.pub \/ live.pub # reader.db.pub
        /\ Answer("raced")
  /\ UNCHANGED <<vars, witness, changes>>

(* ... of each kind of change the first MAX_LISTED_PATHS, by name, listed. *)
(* Of a corpus of any size the model follows the files of File: any of     *)
(* those that drifted may come after so many others, and the list may have *)
(* been cut without one of them ...                                        *)
Cuts == {cut \in [list : SUBSET reader.drifted, truncated : BOOLEAN] :
           \/ cut.truncated /\ reader.scanned
           \/ cut.list = reader.drifted /\ ~cut.truncated}

(* ... and the publication id after.  A list that was cut, and the third   *)
(* race, which is reported as one, only a tolerant read accepts; a failed  *)
(* scan has found no change, and so the graph is fresh.                    *)
Settle ==
  /\ At("comparing")
  /\ reader.todo = {}
  /\ \E after \in PublicationIds : \E cut \in Cuts :
       LET still == reader.before = after /\ after = reader.db.pub
           last == reader.observed >= MAX_OBSERVATION_ATTEMPTS
           bounded == still /\ ~cut.truncated
       IN \/ ~still /\ ~last /\ reader' = [reader EXCEPT !.at = "observing"]
          \/ /\ still \/ last
             /\ \/ ~reader.db.built /\ Answer("refused")
                \/ /\ reader.db.built /\ ~bounded /\ ~reader.tolerant
                   /\ Answer(IF still THEN "refused" ELSE "raced")
                \/ /\ reader.db.built
                   /\ bounded \/ reader.tolerant
                   /\ reader' = [reader EXCEPT !.at = "opening", !.listed = {}, !.drifted = cut.list,
                                    !.unlisted = IF reader.scanned THEN reader.drifted \ cut.list
                                                 ELSE File]
  /\ UNCHANGED <<vars, witness, changes>>

(* Mutant of Open: whatever is live now is served.                         *)
OpenUnverified ==
  /\ At("opening")
  /\ reader' = [reader EXCEPT !.at = "serving", !.session = live]
  /\ UNCHANGED <<vars, witness, changes>>

(* open_session: the engine pins a snapshot and verify compares its        *)
(* publication id with the inspected one; after a first difference the     *)
(* graph is inspected again.                                               *)
Open ==
  /\ At("opening")
  /\ \/ /\ live.built /\ live.pub = reader.db.pub
        /\ reader' = [reader EXCEPT !.at = "serving", !.session = live]
     \/ /\ live.built => live.pub # reader.db.pub
        /\ reader.opened + 1 < MAX_OPEN_ATTEMPTS
        /\ reader' = [NoRead EXCEPT !.at = "observing", !.tolerant = reader.tolerant,
                                    !.opened = reader.opened + 1]
     \/ /\ live.built => live.pub # reader.db.pub
        /\ reader.opened + 1 = MAX_OPEN_ATTEMPTS
        /\ Answer("changed")
     \/ /\ ~live.sound
        /\ Answer("refused")
  /\ UNCHANGED <<vars, witness, changes>>

Finish ==
  /\ At("serving")
  /\ Answer("idle")
  /\ UNCHANGED <<vars, witness, changes>>

ReadStep ==
  \/ \E tolerant \in BOOLEAN : Begin(tolerant)
  \/ Observe \/ Inspect
  \/ \E f \in File : Compare(f)
  \/ Settle \/ Open \/ Finish

----------------------------------------------------------------------------
(* The database is replaced, damaged or mended under the reader.           *)
Changed == (live'.pub # live.pub \/ live'.sound # live.sound) /\ changes < 2

ReadNext ==
  \/ ReadStep
  \/ /\ Maintain
     /\ changes' = IF Changed THEN changes + 1 ELSE changes
     /\ UNCHANGED <<reader, witness>>
  \/ /\ Change
     /\ witness' = [f \in File |-> witness[f] \cup {tree'[f].content}]
     /\ UNCHANGED <<live, spent, reader, changes>>

ReadSpec == ReadInit /\ [][ReadNext]_allVars

----------------------------------------------------------------------------
(* "Facts in them are never returned" (read.rs:129), of files changed since*)
(* the build, does not hold of what the list of changes leaves out: in a   *)
(* tolerant read the changes past the first fifty of a kind                *)
(* (status.rs:617), and in any read every change when the scan fails, for  *)
(* the graph then is "fresh" (status.rs:608), though status.rs:32 calls it *)
(* "stale (unbounded)" and read.rs:8 says that is refused.                 *)
Disregarded(f) == f \in reader.unlisted /\ (reader.tolerant \/ ~reader.scanned)

(* Apart from these, whatever is edited and published between the          *)
(* inspection and the answer, the facts a session returns of a file it does*)
(* not exclude are of a content the file has had since the inspection      *)
(* began.  (A row with modification time 0 is the exception DoneIsRecent   *)
(* has.)  In particular a strict read never answers from a list that was   *)
(* cut, whatever the races.                                                *)
Served == DOMAIN reader.session.index \ reader.drifted
ServedIsTrue ==
  At("serving") =>
    \A f \in Served : \/ reader.session.index[f].hash \in witness[f]
                      \/ reader.session.index[f].mtime = 0
                      \/ Disregarded(f)

(* A file that was there all along is in the answer or is reported as      *)
(* excluded from it, with the same exceptions: an added file past the first*)
(* fifty is neither.                                                       *)
NothingIsHidden ==
  At("serving") =>
    \A f \in File : Absent \notin witness[f] => f \in Served \cup reader.drifted \/ Disregarded(f)

(* "A publication landing between the inspection and the open is           *)
(* re-inspected once" (read.rs:196): a read that is told to retry has met  *)
(* at least two changes of the live database.                              *)
OneChangeIsSurvived == reader.at \in {"raced", "changed"} => changes >= 2
=============================================================================
