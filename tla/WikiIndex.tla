----------------------------- MODULE WikiIndex -----------------------------
(***************************************************************************)
(* The wiki index (src/wiki/index.rs) over the Markdown of the scaffold:   *)
(* one maintainer at a time, by a lease (src/wiki/maintenance.rs), reads   *)
(* the files between two observations of their modification times and      *)
(* commits only if the two are the same; a read session                    *)
(* (src/wiki/session.rs) compares the index with the files and then opens  *)
(* a snapshot of it.  Nothing keeps editors, or a publication between the  *)
(* comparison and the snapshot, away.                                      *)
(*                                                                         *)
(* Every walk of the corpus visits the files in the order of their paths,  *)
(* one at a time.                                                          *)
(***************************************************************************)
EXTENDS Naturals, Sequences

CONSTANTS
  Documents,       \* bound: the Markdown files are 1 .. Documents, in order
  Text,            \* contents of a file; a hash is its content
  NoText,          \* the file does not exist
  MaxDocEdits,     \* bound: edits of the files, and reads that fail
  Maintainer,      \* processes that rebuild or refresh the index
  NoLease,         \* nobody holds the lease
  Unbuilt          \* an index that was never published

ASSUME IndexAssumption ==
  /\ Documents \in Nat /\ MaxDocEdits \in Nat
  /\ NoText \notin Text
  /\ NoLease \notin Maintainer

VARIABLES
  corpus, docEdits,   \* the files, and the edits made of them
  failures,           \* number of reads that failed
  index,              \* what is published: file -> hash of its rows
  lease,              \* who holds the maintenance lease
  pass,               \* maintainer -> where its pass is
  session,            \* the read session
  had                 \* history: file -> what it was, or was taken for, since the session began

docVars == <<corpus, docEdits>>
indexVars == <<docVars, failures, index, lease, pass, session, had>>

Document == 1 .. Documents

Disk == INSTANCE SourceTree WITH
  File <- Document, Content <- Text, Absent <- NoText, MaxEdits <- MaxDocEdits,
  tree <- corpus, edits <- docEdits

There(f) == corpus[f].content # NoText
Away == [at |-> "away"]
NoHad == [f \in Document |-> {}]

IndexInit ==
  /\ Disk!TreeInit
  /\ failures = 0
  /\ index = Unbuilt
  /\ lease = NoLease
  /\ pass = [m \in Maintainer |-> Away]
  /\ session = Away
  /\ had = NoHad

(* A walk can read a file that it found if the file is still there; and    *)
(* even so a read may fail.  What is not read is passed over, unsaid.      *)
Gets(f, files) == f \in files /\ There(f)
AReadFails == docEdits + failures < MaxDocEdits /\ failures' = failures + 1

----------------------------------------------------------------------------
(* A pass of maintenance: it observes the corpus, finds and reads the      *)
(* files, and observes again.  `next` is the file a walk is at.  History:  *)
(* `there`, the files that have existed since the pass began, `instant`,   *)
(* what the files were when they were found, and `unread`, the files whose *)
(* read failed.                                                            *)
InPhase(m, walk) == pass[m].at = walk
Walks(m, walk) == InPhase(m, walk) /\ pass[m].next \in Document
Finished(m, walk) == InPhase(m, walk) /\ pass[m].next \notin Document

GoesOn(m, p) == pass' = [pass EXCEPT ![m] = p]
Visits(m, p) == GoesOn(m, [p EXCEPT !.next = @ + 1])

(* acquire_lease.  Who does not get it within LEASE_WAIT gives up.         *)
TakeLease(m) ==
  /\ InPhase(m, "away")
  /\ lease = NoLease
  /\ lease' = m
  /\ GoesOn(m, [at |-> "observe", next |-> 1, seen |-> <<>>, there |-> Disk!Present])
  /\ UNCHANGED <<docVars, failures, index, session, had>>

(* observe_corpus: of each file its modification time, 0 if there is none. *)
(* (A file that goes between the listing and its metadata is "unreadable"  *)
(* in the code, which only makes it refuse more.)                          *)
ObserveDocument(m) ==
  /\ Walks(m, "observe")
  /\ Visits(m, [pass[m] EXCEPT !.seen = Append(@, Disk!Mtime(pass[m].next))])
  /\ UNCHANGED <<docVars, failures, index, lease, session, had>>

(* discover_checked, and the rows the pass starts from: a rebuild drops    *)
(* all, a refresh those of files that were not found.                      *)
Discover(m) ==
  /\ Finished(m, "observe")
  /\ \E kept \in {{}} \cup (IF index = Unbuilt THEN {} ELSE {DOMAIN index \cap Disk!Present}) :
       GoesOn(m, [at |-> "read", next |-> 1, seen |-> pass[m].seen, there |-> pass[m].there,
                files |-> Disk!Present, rows |-> [f \in kept |-> index[f]],
                unread |-> {}, instant |-> [f \in Document |-> corpus[f].content]])
  /\ UNCHANGED <<docVars, failures, index, lease, session, had>>

(* The rows with those of one file written anew.                           *)
WithRow(rows, f, hash) ==
  [g \in DOMAIN rows \cup {f} |-> IF g = f THEN hash ELSE rows[g]]

(* The rows of a file that is not read are left as they are.              *)
ReadFile(m) ==
  LET p == pass[m]
      f == p.next
      read == [p EXCEPT !.rows = WithRow(p.rows, f, corpus[f].content)]
  IN /\ Walks(m, "read")
     /\ \/ Visits(m, IF Gets(f, p.files) THEN read ELSE p) /\ UNCHANGED failures
        \/ /\ Gets(f, p.files) /\ AReadFails
           /\ Visits(m, [p EXCEPT !.unread = @ \cup {f}])
     /\ UNCHANGED <<docVars, index, lease, session, had>>

(* The boundaries, at each of which an abort is honoured.                  *)
StartAgain(m) ==
  /\ Finished(m, "read")
  /\ GoesOn(m, [pass[m] EXCEPT !.at = "again", !.next = 1])
  /\ UNCHANGED <<docVars, failures, index, lease, session, had>>

(* Mutant of ObserveDocumentAgain: files are only counted.                 *)
CountAgain(m) ==
  /\ Walks(m, "again")
  /\ There(pass[m].next) <=> pass[m].seen[pass[m].next] # 0
  /\ Visits(m, pass[m])
  /\ UNCHANGED <<docVars, failures, index, lease, session, had>>

(* assert_corpus_unchanged: what differs can only stop the pass.           *)
ObserveDocumentAgain(m) ==
  /\ Walks(m, "again")
  /\ Disk!Mtime(pass[m].next) = pass[m].seen[pass[m].next]
  /\ Visits(m, pass[m])
  /\ UNCHANGED <<docVars, failures, index, lease, session, had>>

(* The pass returns: its lease is dropped, a transaction it has not        *)
(* committed is rolled back.                                               *)
Returns(m) ==
  /\ GoesOn(m, Away)
  /\ lease' = NoLease

(* What a pass takes a file for: nothing, if it was not there when it was  *)
(* observed, or else what it was at the instant of the pass.               *)
Stood(p, f) == IF p.seen[f] = 0 THEN NoText ELSE p.instant[f]

CommitIndex(m) ==
  /\ Finished(m, "again")
  /\ index' = pass[m].rows
  /\ Returns(m)
  /\ had' = IF session = Away THEN had
            ELSE [f \in Document |-> had[f] \cup {Stood(pass[m], f)}]
  /\ session' = IF session = Away \/ session.at = "open" THEN session
                ELSE [session EXCEPT !.unread = @ \cup pass[m].unread]
  /\ UNCHANGED <<docVars, failures>>

(* The corpus changed or is too large, the pass was aborted, its process   *)
(* died.                                                                   *)
PassInterrupted(m) ==
  /\ lease = m
  /\ Returns(m)
  /\ UNCHANGED <<docVars, failures, index, session, had>>

----------------------------------------------------------------------------
(* open_read_session.  inspect_index lists the files and takes the known   *)
(* rows (freshness); a known file that was not found was removed.          *)
(* `unread` is history: the files whose read failed in the inspection, or  *)
(* in a pass that committed since.                                         *)
InspectIndex ==
  /\ session = Away
  /\ index # Unbuilt
  /\ session' = [at |-> "comparing", next |-> 1, files |-> Disk!Present, known |-> index,
                 stale |-> ~(DOMAIN index \subseteq Disk!Present), unread |-> {}]
  /\ had' = [f \in Document |-> {corpus[f].content}]
  /\ UNCHANGED <<docVars, failures, index, lease, pass>>

(* freshness fails, and the index is taken for fresh (inspect_index).      *)
InspectionFails ==
  /\ session = Away
  /\ index # Unbuilt
  /\ AReadFails
  /\ session' = [at |-> "comparing", next |-> Documents + 1, files |-> {}, known |-> index,
                 stale |-> FALSE, unread |-> Document]
  /\ had' = [f \in Document |-> {corpus[f].content}]
  /\ UNCHANGED <<docVars, index, lease, pass>>

Compares(stale, unread) ==
  session' = [session EXCEPT !.next = @ + 1, !.stale = @ \/ stale, !.unread = @ \cup unread]

Comparing == session.at = "comparing" /\ session.next \in Document
SameButSession == UNCHANGED <<docVars, index, lease, pass, had>>

(* Mutant of CompareDocument: a known file is taken for unchanged.         *)
CompareNames ==
  /\ Comparing
  /\ Compares(session.next \in session.files \ DOMAIN session.known, {})
  /\ UNCHANGED failures
  /\ SameButSession

(* A file that is not read is taken for unchanged.                         *)
CompareDocument ==
  LET f == session.next
      known == session.known
  IN /\ Comparing
     /\ \/ /\ Compares(/\ Gets(f, session.files)
                       /\ f \notin DOMAIN known \/ known[f] # corpus[f].content, {})
           /\ UNCHANGED failures
        \/ Gets(f, session.files) /\ AReadFails /\ Compares(FALSE, {f})
     /\ SameButSession

(* The snapshot is of the index as it is by then; the status stays what    *)
(* the inspection found.                                                   *)
OpenSession ==
  /\ session.at = "comparing"
  /\ session.next \notin Document
  /\ session' = [at |-> "open", stale |-> session.stale, rows |-> index, unread |-> session.unread]
  /\ UNCHANGED <<docVars, failures, index, lease, pass, had>>

CloseSession ==
  /\ session.at = "open"
  /\ session' = Away
  /\ had' = NoHad
  /\ UNCHANGED <<docVars, failures, index, lease, pass>>

----------------------------------------------------------------------------
EditDocument(f, new) ==
  /\ docEdits + failures < MaxDocEdits
  /\ Disk!Edit(f, new)
  /\ UNCHANGED failures
  /\ pass' = [m \in Maintainer |->
                IF pass[m] = Away \/ new = NoText THEN pass[m]
                ELSE [pass[m] EXCEPT !.there = @ \cup {f}]]
  /\ had' = IF session = Away THEN had ELSE [had EXCEPT ![f] = @ \cup {new}]
  /\ UNCHANGED <<index, lease, session>>

Maintains(m) ==
  \/ TakeLease(m) \/ ObserveDocument(m) \/ Discover(m) \/ ReadFile(m)
  \/ StartAgain(m) \/ ObserveDocumentAgain(m) \/ CommitIndex(m) \/ PassInterrupted(m)

IndexNext ==
  \/ \E m \in Maintainer : Maintains(m)
  \/ InspectIndex \/ InspectionFails \/ CompareDocument \/ OpenSession \/ CloseSession
  \/ \E f \in Document : \E new \in Text \cup {NoText} : EditDocument(f, new)

IndexSpec == IndexInit /\ [][IndexNext]_indexVars

----------------------------------------------------------------------------
IsIndexed(rows) ==
  DOMAIN rows \subseteq Document /\ \A f \in DOMAIN rows : rows[f] \in Text

(* Types, and only who holds the lease is at work.                         *)
IndexTypeOK ==
  /\ index # Unbuilt => IsIndexed(index)
  /\ \A m \in Maintainer : pass[m] # Away => lease = m
  /\ session # Away /\ session.at = "open" => IsIndexed(session.rows)

CommitsFile(p, f) ==
  /\ (p.seen[f] # 0 /\ f \notin p.unread) => f \in DOMAIN index' /\ index'[f] = p.instant[f]
  /\ (f \in DOMAIN index' /\ f \in p.unread)
       => index # Unbuilt /\ f \in DOMAIN index /\ index'[f] = index[f]
  /\ f \in DOMAIN index' => f \in p.there

(* "Publish only an index of the corpus that still exists": what a pass    *)
(* commits is the corpus as it was at one instant of the pass, when all    *)
(* files had the committed contents together, although they were read one  *)
(* after the other while people wrote them.  Except for a file that came   *)
(* and went again between the two observations, which sees neither; and    *)
(* for a file whose read failed, of which the pass still commits, without  *)
(* a word, no other row than the one that was published before.            *)
IndexIsOneInstant ==
  [][\A m \in Maintainer :
       (Finished(m, "again") /\ index' # index)
         => \A f \in Document : CommitsFile(pass[m], f)]_indexVars

(* A session that is called fresh serves of each file what the file was    *)
(* since the inspection began, or at the instant of an index that was      *)
(* committed since, and leaves no file out that was there all the time:    *)
(* although the snapshot is opened after the comparison and never compared *)
(* itself.  Except for files that went away meanwhile, for files that came *)
(* and went within the pass of that index, which a walk may have missed,   *)
(* and for files whose read failed in the inspection or in such a pass,    *)
(* which both pass over; if the inspection fails as a whole, the index is  *)
(* called fresh whatever it holds.                                         *)
FreshIsTrue ==
  (session # Away /\ session.at = "open" /\ ~session.stale) =>
    \A f \in Document : (NoText \notin had[f] /\ f \notin session.unread) =>
      f \in DOMAIN session.rows /\ session.rows[f] \in had[f]
=============================================================================
