----------------------------- MODULE SourceTree -----------------------------
(***************************************************************************)
(* The source files a graph is built from, as editors and git change them  *)
(* under it, and what the graph records of a file: the hash of its content *)
(* and its modification time (src/graph/corpus.rs, build.rs).              *)
(*                                                                         *)
(* All files are taken to have the same size, the case in which only the   *)
(* modification time can tell two contents apart, and no two writes of a   *)
(* file to have the same modification time.                                *)
(***************************************************************************)
EXTENDS Naturals

CONSTANTS
  File,     \* paths of the corpus
  Content,  \* contents of a file; a hash is its content
  Absent,   \* the file does not exist
  MaxEdits  \* bound: edits of the tree

ASSUME TreeAssumption == Absent \notin Content /\ MaxEdits \in Nat

VARIABLES
  tree,  \* File -> [content, mtime]
  edits  \* number of edits made

TreeInit ==
  /\ tree \in [File -> [content : Content \cup {Absent}, mtime : {1}]]
  /\ edits = 0

(* An editor or git writes, creates or removes a source file.              *)
Edit(f, new) ==
  /\ edits < MaxEdits
  /\ new # tree[f].content
  /\ edits' = edits + 1
  /\ tree' = [tree EXCEPT ![f] = [content |-> new, mtime |-> edits + 2]]

(* scan_corpus, and file_mtime_ms with its 0 for a file that is not there. *)
Present == {f \in File : tree[f].content # Absent}
Mtime(f) == IF tree[f].content = Absent THEN 0 ELSE tree[f].mtime

(* The rows of the files table, one of each indexed file.                  *)
Rows == [hash : Content, mtime : 0..(MaxEdits + 1)]
IsIndex(index) == DOMAIN index \subseteq File /\ \A f \in DOMAIN index : index[f] \in Rows

(* "lets an unchanged mtime+size skip reading the file" (build.rs:183): a  *)
(* file with the modification time recorded of it has the recorded hash.   *)
Faithful(index) ==
  \A f \in DOMAIN index :
    (index[f].mtime = Mtime(f) /\ f \in Present) => index[f].hash = tree[f].content
=============================================================================
