---------------------------- MODULE AtomicStore ----------------------------
(***************************************************************************)
(* What the team store promises its callers: an accepted operation changes *)
(* all its files at once, over exactly the contents it was planned on;     *)
(* operations take effect one after the other; an operation id takes       *)
(* effect again only after Window later ones.  The one exception: when     *)
(* somebody else edits a file of an operation that has not been closed,    *)
(* what is left of it may be given up.                                     *)
(***************************************************************************)
EXTENDS TeamPlan, Naturals, Sequences

CONSTANTS
  Window,     \* how many closed operations are remembered
  Foreign,    \* an edit no operation made
  Nothing     \* no operation is open

VARIABLES
  content,    \* what every file holds
  order,      \* the operation ids that took effect, in order
  open,       \* the operation not yet closed: [cmd, before], or Nothing
  edits       \* how many edits somebody else has made

vars == <<content, order, open, edits>>

Init ==
  /\ content \in [Path -> {Absent, {}}]
  /\ order = <<>>
  /\ open = Nothing
  /\ edits = 0

Remembered(op) == \E i \in DOMAIN order : i > Len(order) - Window /\ order[i] = op

(* The operation takes effect.                                             *)
Commit(c) ==
  /\ open = Nothing
  /\ Plannable(c, content)
  /\ ~Remembered(c.op)
  /\ content' = [path \in Path |-> IF path \in DOMAIN c.edits
                                     THEN Edited(c, path, content[path])
                                     ELSE content[path]]
  /\ order' = Append(order, c.op)
  /\ open' = [cmd |-> c,
              before |-> [path \in Changed(Planned(c, content), content) |-> content[path]]]
  /\ UNCHANGED edits

Intact == \A path \in DOMAIN open.before :
            content[path] = Edited(open.cmd, path, open.before[path])

Close ==
  /\ open # Nothing
  /\ Intact
  /\ open' = Nothing
  /\ UNCHANGED <<content, order, edits>>

(* Somebody else's edit got in the way: the operation is given up, and     *)
(* some of its files go back to what they were before it.                  *)
Abandon ==
  /\ open # Nothing
  /\ ~Intact
  /\ \E back \in SUBSET DOMAIN open.before :
       content' = [path \in Path |-> IF path \in back THEN open.before[path]
                                                      ELSE content[path]]
  /\ open' = Nothing
  /\ UNCHANGED <<order, edits>>

(* What an edit can make of a file: another program's content, or none.    *)
(* Who puts back the content from before an operation that is still open   *)
(* lets the operation take effect on that file again.                      *)
EditedTo(path) ==
  {{Foreign}, Absent} \cup
    (IF open # Nothing /\ path \in DOMAIN open.before
       THEN {Edited(open.cmd, path, open.before[path])} ELSE {})

(* An editor, `git pull` or another program replaces or removes a file.    *)
Edit ==
  /\ \E path \in Path : \E new \in EditedTo(path) :
       content' = [content EXCEPT ![path] = new]
  /\ edits' = edits + 1
  /\ UNCHANGED <<order, open>>

Next == (\E c \in Command : Commit(c)) \/ Close \/ Abandon \/ Edit

Spec == Init /\ [][Next]_vars
=============================================================================
