--------------------------- MODULE WikiOperations ---------------------------
(***************************************************************************)
(* Typed wiki operations (src/wiki/ops.rs) and the plan registry of the    *)
(* MCP server (src/wiki/plans.rs).  A batch of operations is planned on an *)
(* overlay of the pages, refused as a whole on the first error, and then   *)
(* logged as intended, written page by page in order of name, and logged   *)
(* as complete.  No lock is taken: two processes that apply, and whoever   *)
(* edits by hand, meet on the pages.                                       *)
(***************************************************************************)
EXTENDS Naturals, Sequences, FiniteSets

CONSTANTS
  WikiPages,     \* bound: pages are 1 .. WikiPages, in order of name
  Title,         \* what entities are called
  FirstEntity,   \* title -> the page it is on at the start, or 0
  Batch,
  Program,       \* batch -> its operations, unpinned
  Handled,       \* batches that go through the plan registry; others are files
  Pinned,        \* files written with the state of what they change
  Unpinned,
  AnyId,         \* what a creation asks for that leaves its id to be minted
  Writer,        \* processes that apply
  MaxPlans,      \* MAX_PLANS
  MaxStops,      \* bound: crashes, failed writes and edits by hand, together
  HandEdited     \* bound: ids of entities that someone edits by hand, once

(* OPERATION_TYPES, as far as they differ here: "update" stands for every  *)
(* change of an entity's own fields, "replace" for a supersession by an    *)
(* entity made by it.  The field "by" is the other entity of a relation;   *)
(* of a creation it is the id it asks for.                                 *)
Kinds == {"create", "update", "archive", "add-relation", "supersede", "replace", "move"}

ASSUME WikiAssumption ==
  /\ WikiPages \in Nat \ {0} /\ IsFiniteSet(Title)
  /\ FirstEntity \in [Title -> 0 .. WikiPages]
  /\ Handled \cup Pinned \subseteq Batch
  /\ \A b \in Batch :
       /\ Len(Program[b]) \in Nat \ {0} /\ DOMAIN Program[b] = 1 .. Len(Program[b])
       /\ \A k \in DOMAIN Program[b] :
            /\ DOMAIN Program[b][k] = {"op", "kind", "title", "id", "page", "by", "base"}
            /\ Program[b][k].kind \in Kinds
            /\ Program[b][k].kind \in {"create", "replace", "move"} =>
                 Program[b][k].page \in 1 .. WikiPages
            /\ (Program[b][k].kind \in {"create", "replace"} /\ Program[b][k].by # AnyId) =>
                 Program[b][k].by \in {Program[b][k].title} \X (Nat \ {0})
            /\ Program[b][k].op # "hand"
            /\ \A c \in Batch : \A n \in DOMAIN Program[c] :
                 Program[c][n].op = Program[b][k].op => c = b /\ n = k
  /\ MaxPlans \in Nat \ {0} /\ MaxStops \in Nat

VARIABLES
  wiki,        \* page -> its entities, by id
  batches,     \* batch -> its operations with their pins, once written
  log,         \* batch -> its last phase in the operation log, and the ids it creates
  plans,       \* handles in the order they were issued
  live,        \* those of them that have not expired
  writer,      \* process -> where it is in apply_operations
  stops,
  half,        \* history: batches stopped between two of their pages, and not finished since
  doubled,     \* history: batches that two processes applied at once
  clobbered    \* history: a page was written over that had changed since it was read

wikiVars == <<wiki, batches, log, plans, live, writer, stops, half, doubled, clobbered>>

WikiPage == 1 .. WikiPages
Out == [at |-> "out"]

(* A plan holds at least one operation; so does a file that does anything. *)
Unwritten == <<>>

Made(marks, over) ==
  [status |-> "in_flight", rev |-> 1, supersedes |-> over, marks |-> marks]

WikiInit ==
  /\ wiki = [p \in WikiPage |->
               [i \in {<<t, 1>> : t \in {u \in Title : FirstEntity[u] = p}} |-> Made({}, {})]]
  /\ batches = [b \in Batch |-> Unwritten]
  /\ log = [b \in Batch |-> [phase |-> "none", created |-> {}]]
  /\ plans = <<>>
  /\ live = {}
  /\ writer = [w \in Writer |-> Out]
  /\ stops = 0
  /\ half = {}
  /\ doubled = {}
  /\ clobbered = FALSE

----------------------------------------------------------------------------
(* Pages, and where an id is: the first page that has it.                  *)
Ids(pgs) == UNION {DOMAIN pgs[p] : p \in WikiPage}

Located(pgs, i) == CHOOSE p \in WikiPage :
  i \in DOMAIN pgs[p] /\ \A q \in WikiPage : i \in DOMAIN pgs[q] => p <= q

Entity(pgs, i) == pgs[Located(pgs, i)][i]

Put(pgs, p, i, e) ==
  [pgs EXCEPT ![p] = [j \in DOMAIN @ \cup {i} |-> IF j = i THEN e ELSE @[j]]]
Cut(pgs, p, i) == [pgs EXCEPT ![p] = [j \in DOMAIN @ \ {i} |-> @[j]]]

(* mutate: the revision goes up by one.  The mark of the operation stands  *)
(* for what it changes, once more each time.                               *)
Marked(e, op) == e.marks \cup {<<op, Cardinality({m \in e.marks : m[1] = op}) + 1>>}

Mutated(pgs, i, op, s, over) ==
  Put(pgs, Located(pgs, i), i,
      [Entity(pgs, i) EXCEPT !.status = s, !.rev = @ + 1,
                             !.supersedes = @ \cup over, !.marks = Marked(Entity(pgs, i), op)])

(* would_cycle: new is among those that old leads to.                      *)
Superseded(pgs, S) == S \cup UNION {Entity(pgs, i).supersedes : i \in S}
Reached(pgs, i) ==
  LET step[n \in Nat] == IF n = 0 THEN {i} ELSE Superseded(pgs, step[n - 1])
  IN step[Cardinality(Ids(pgs))]

WouldCycle(pgs, new, old) == new = old \/ new \in Reached(pgs, old)

(* mint_id: the first free id of the title.                                *)
Minted(pgs, t) ==
  <<t, CHOOSE n \in 1 .. Cardinality(Ids(pgs)) + 1 :
         <<t, n>> \notin Ids(pgs) /\ \A k \in 1 .. n - 1 : <<t, k>> \in Ids(pgs)>>

(* A plan in the making: the overlay, what it changed and created so far.  *)
Refusal == [ok |-> FALSE, pages |-> <<>>, touched |-> {}, created |-> {}]

Leaves(s, pgs, i) == [s EXCEPT !.pages = pgs, !.touched = @ \cup i]

(* create_into: an id, taken from the intent or asked for by the payload,  *)
(* that is in its file already is settled: nothing is written for it.      *)
CreateEntry(s, op, forced, over) ==
  LET again == {f \in forced : f[1] = op.op}
      i == IF again # {} THEN (CHOOSE f \in again : TRUE)[2]
           ELSE IF op.by # AnyId THEN op.by
           ELSE Minted(s.pages, op.title)
      made == [s EXCEPT !.created = @ \cup {<<op.op, i>>}, !.touched = @ \cup {i}]
  IN IF i \in DOMAIN s.pages[op.page] THEN made
     ELSE IF i \in Ids(s.pages) THEN Refusal
     ELSE [made EXCEPT !.pages = Put(s.pages, op.page, i, Made({<<op.op, 1>>}, over))]

ArchiveEntry(s, op) ==
  IF Entity(s.pages, op.id).status = "archived" THEN Refusal
  ELSE Leaves(s, Mutated(s.pages, op.id, op.op, "archived", {}), {op.id})

UpdateEntry(s, op) ==
  Leaves(s, Mutated(s.pages, op.id, op.op, Entity(s.pages, op.id).status, {}), {op.id})

(* add_relation of a supersession: op.id supersedes op.by.                 *)
Supersedes(s, new, old, op) ==
  IF old \in Entity(s.pages, new).supersedes \/ WouldCycle(s.pages, new, old) THEN Refusal
  ELSE Leaves(s, Mutated(s.pages, new, op.op, Entity(s.pages, new).status, {old}), {new})

AddRelation(s, op) ==
  IF op.by \notin Ids(s.pages) THEN Refusal ELSE Supersedes(s, op.id, op.by, op)

(* supersede_entry: the old entity is deprecated; the new one gains the    *)
(* relation, or is created with it.                                        *)
SupersedeEntry(s, op, forced) ==
  LET old == Leaves(s, Mutated(s.pages, op.id, op.op, "deprecated", {}), {op.id})
  IN IF op.kind = "replace" THEN CreateEntry(old, op, forced, {op.id})
     ELSE IF op.by \notin Ids(s.pages) THEN Refusal
     ELSE Supersedes(old, op.by, op.id, op)

(* Mutant of MoveEntry: the entity is not removed from the page it leaves. *)
MoveEntryCopies(s, op) ==
  IF Located(s.pages, op.id) = op.page THEN Refusal
  ELSE Leaves(s, Put(s.pages, op.page, op.id, Entity(s.pages, op.id)), {op.id})

(* move_entry                                                              *)
MoveEntry(s, op) ==
  LET from == Located(s.pages, op.id)
      gone == Cut(s.pages, from, op.id)
  IN IF from = op.page THEN Refusal
     ELSE Leaves(s, IF op.id \in DOMAIN gone[op.page] THEN gone
                    ELSE Put(gone, op.page, op.id, Entity(s.pages, op.id)), {op.id})

(* Mutant of Holds: the pin is not compared.                               *)
HoldsAnyway(s, op) == TRUE

(* The base revision and content of an operation, unless an earlier one of *)
(* its batch changed the entity.                                           *)
Holds(s, op) ==
  op.base = Unpinned \/ op.id \in s.touched \/ op.base = Entity(s.pages, op.id)

PlanOperation(s, op, forced) ==
  IF ~s.ok THEN s
  ELSE IF op.kind = "create" THEN CreateEntry(s, op, forced, {})
  ELSE IF op.id \notin Ids(s.pages) THEN Refusal
  ELSE IF ~Holds(s, op) THEN Refusal
  ELSE CASE op.kind = "update" -> UpdateEntry(s, op)
         [] op.kind = "archive" -> ArchiveEntry(s, op)
         [] op.kind = "add-relation" -> AddRelation(s, op)
         [] op.kind \in {"supersede", "replace"} -> SupersedeEntry(s, op, forced)
         [] op.kind = "move" -> MoveEntry(s, op)

(* apply_operations_with, up to the dry-run return.                        *)
PlannedOn(pgs, ops, forced) ==
  LET after[n \in 0 .. Len(ops)] ==
        IF n = 0 THEN [ok |-> TRUE, pages |-> pgs, touched |-> {}, created |-> {}]
        ELSE PlanOperation(after[n - 1], ops[n], forced)
  IN after[Len(ops)]

----------------------------------------------------------------------------
(* A batch file is written, with or without the state of what it changes.  *)
Pin(b, pinned) ==
  [k \in DOMAIN Program[b] |->
     LET o == Program[b][k]
     IN [o EXCEPT !.base = IF pinned /\ o.kind # "create" /\ o.id \in Ids(wiki)
                             THEN Entity(wiki, o.id) ELSE Unpinned]]

Author(b) ==
  /\ b \notin Handled
  /\ batches[b] = Unwritten
  /\ batches' = [batches EXCEPT ![b] = Pin(b, b \in Pinned)]
  /\ UNCHANGED <<wiki, log, plans, live, writer, stops, half, doubled, clobbered>>

(* The handles that stay when a plan is registered: the oldest go.         *)
Kept ==
  SubSeq(plans, IF Len(plans) < MaxPlans THEN 1 ELSE Len(plans) - MaxPlans + 2, Len(plans))

(* plan: pinned, dry-run, and kept under a handle.                         *)
Register(b) ==
  /\ b \in Handled
  /\ batches[b] = Unwritten
  /\ PlannedOn(wiki, Pin(b, TRUE), {}).ok
  /\ plans' = Append(Kept, b)
  /\ live' = (live \cap {Kept[k] : k \in DOMAIN Kept}) \cup {b}
  /\ batches' = [batches EXCEPT ![b] = Pin(b, TRUE)]
  /\ UNCHANGED <<wiki, log, writer, stops, half, doubled, clobbered>>

(* PLAN_TTL.  The handle keeps its place in the order.                     *)
Expire(b) ==
  /\ b \in live
  /\ live' = live \ {b}
  /\ UNCHANGED <<wiki, batches, log, plans, writer, stops, half, doubled, clobbered>>

(* What a process has read before it has read anything.                    *)
Blank == [p \in WikiPage |-> <<>>]

Enters(w, b) ==
  /\ writer[w] = Out
  /\ doubled' = IF \E v \in Writer : writer[v] # Out /\ writer[v].batch = b
                  THEN doubled \cup {b} ELSE doubled
  /\ writer' = [writer EXCEPT ![w] = [at |-> "read", batch |-> b, created |-> log[b].created,
                                      was |-> Blank, todo |-> WikiPage]]

(* apply_operations reads the log first.  A complete batch is replayed:    *)
(* nothing happens.                                                        *)
Apply(w, b) ==
  /\ b \notin Handled
  /\ batches[b] # Unwritten
  /\ log[b].phase # "complete"
  /\ Enters(w, b)
  /\ UNCHANGED <<wiki, batches, log, plans, live, stops, half, clobbered>>

(* A handle stands in the order once (retain).                             *)
Without(b) ==
  LET k == CHOOSE n \in DOMAIN plans : plans[n] = b
  IN SubSeq(plans, 1, k - 1) \o SubSeq(plans, k + 1, Len(plans))

(* apply_planned: the handle is taken out of the registry before anything  *)
(* else, whatever becomes of it.                                           *)
ApplyPlanned(w, b) ==
  /\ b \in live
  /\ Enters(w, b)
  /\ plans' = Without(b)
  /\ live' = live \ {b}
  /\ UNCHANGED <<wiki, batches, log, stops, half, clobbered>>

(* Vfs.parsed: a page is read when an operation first looks at it, and     *)
(* what was parsed is kept.  So the pages are read one by one, in an order *)
(* that the operations decide, while others write.                         *)
ReadUpTo(w, p) == [writer[w].was EXCEPT ![p] = wiki[p]]

ReadPage(w, p) ==
  /\ writer[w].at = "read"
  /\ p \in writer[w].todo /\ writer[w].todo # {p}
  /\ writer' = [writer EXCEPT ![w].was = ReadUpTo(w, p), ![w].todo = @ \ {p}]
  /\ UNCHANGED <<wiki, batches, log, plans, live, stops, half, doubled, clobbered>>

(* With the last page the batch is planned on what was read, or refused as *)
(* a whole.                                                                *)
PlanBatch(w, p) ==
  /\ writer[w].at = "read"
  /\ writer[w].todo = {p}
  /\ LET b == writer[w].batch
         was == ReadUpTo(w, p)
         plan == PlannedOn(was, batches[b], writer[w].created)
     IN writer' = [writer EXCEPT ![w] =
          IF ~plan.ok THEN Out
          ELSE [at |-> "planned", batch |-> b, created |-> plan.created,
                was |-> was, pages |-> plan.pages,
                todo |-> {q \in WikiPage : plan.pages[q] # was[q]}]]
  /\ UNCHANGED <<wiki, batches, log, plans, live, stops, half, doubled, clobbered>>

Logs(b, phase, created) == log' = [log EXCEPT ![b] = [phase |-> phase, created |-> created]]

LogIntents(w) ==
  /\ writer[w].at = "planned"
  /\ Logs(writer[w].batch, IF log[writer[w].batch].phase = "complete" THEN "complete" ELSE "intent",
          writer[w].created)
  /\ writer' = [writer EXCEPT ![w].at = "writing"]
  /\ UNCHANGED <<wiki, batches, plans, live, stops, half, doubled, clobbered>>

WritePage(w) ==
  /\ writer[w].at = "writing"
  /\ writer[w].todo # {}
  /\ LET p == CHOOSE q \in writer[w].todo : \A r \in writer[w].todo : q <= r
     IN /\ wiki' = [wiki EXCEPT ![p] = writer[w].pages[p]]
        /\ writer' = [writer EXCEPT ![w].todo = @ \ {p}]
        /\ clobbered' = (clobbered \/ wiki[p] # writer[w].was[p])
  /\ UNCHANGED <<batches, log, plans, live, stops, half, doubled>>

(* Mutant of LogComplete: completion is logged before the last page.       *)
LogCompleteEarly(w) ==
  /\ writer[w].at = "writing"
  /\ log[writer[w].batch].phase # "complete"
  /\ Logs(writer[w].batch, "complete", writer[w].created)
  /\ UNCHANGED <<wiki, batches, plans, live, writer, stops, half, doubled, clobbered>>

LogComplete(w) ==
  /\ writer[w].at = "writing"
  /\ writer[w].todo = {}
  /\ Logs(writer[w].batch, "complete", writer[w].created)
  /\ half' = half \ {writer[w].batch}
  /\ writer' = [writer EXCEPT ![w] = Out]
  /\ UNCHANGED <<wiki, batches, plans, live, stops, doubled, clobbered>>

(* The process dies, or a page or the log cannot be written: what is       *)
(* written stays, and the same file may be applied again.  That finishes   *)
(* an unpinned batch; a pinned one is refused from then on if what it      *)
(* changes first is among what was written, and stays half.                *)
Begun(w) == writer[w].at = "writing" /\ \E p \in WikiPage \ writer[w].todo :
                                          writer[w].pages[p] # writer[w].was[p]

Stop(w) ==
  /\ writer[w] # Out
  /\ stops < MaxStops
  /\ stops' = stops + 1
  /\ half' = IF Begun(w) /\ writer[w].todo # {} THEN half \cup {writer[w].batch} ELSE half
  /\ writer' = [writer EXCEPT ![w] = Out]
  /\ UNCHANGED <<wiki, batches, log, plans, live, doubled, clobbered>>

(* An editor changes the text of an entity, not its revision.              *)
HandEdit(p, i) ==
  /\ i \in HandEdited
  /\ stops < MaxStops
  /\ stops' = stops + 1
  /\ <<"hand", 1>> \notin wiki[p][i].marks
  /\ wiki' = [wiki EXCEPT ![p][i].marks = Marked(wiki[p][i], "hand")]
  /\ UNCHANGED <<batches, log, plans, live, writer, half, doubled, clobbered>>

WriterStep(w) ==
  \/ \E b \in Batch : Apply(w, b) \/ ApplyPlanned(w, b)
  \/ \E p \in WikiPage : ReadPage(w, p) \/ PlanBatch(w, p)
  \/ LogIntents(w)
  \/ WritePage(w)
  \/ LogComplete(w)

WikiNext ==
  \/ \E w \in Writer : WriterStep(w) \/ Stop(w)
  \/ \E b \in Batch : Author(b) \/ Register(b) \/ Expire(b)
  \/ \E p \in WikiPage : \E i \in DOMAIN wiki[p] : HandEdit(p, i)

WikiSpec == WikiInit /\ [][WikiNext]_wikiVars

----------------------------------------------------------------------------
Places == {"out", "read", "planned", "writing"}

(* Types, and a bounded registry whose live handles are all in its order.  *)
WikiTypeOK ==
  /\ \A p \in WikiPage : \A i \in DOMAIN wiki[p] : wiki[p][i].rev \in Nat \ {0}
  /\ \A b \in Batch : log[b].phase \in {"none", "intent", "complete"}
  /\ \A w \in Writer : writer[w].at \in Places
  /\ Len(plans) <= MaxPlans
  /\ live \subseteq {plans[k] : k \in DOMAIN plans}

OpsOf(b) == {Program[b][k].op : k \in DOMAIN Program[b]}
Creates(o) == o.kind \in {"create", "replace"}
Creating(b) == {k \in DOMAIN Program[b] : Creates(Program[b][k])}

MarksOn(pgs, i) == UNION {pgs[p][i].marks : p \in {q \in WikiPage : i \in DOMAIN pgs[q]}}
Bears(pgs, i, op) == \E m \in MarksOn(pgs, i) : m[1] = op

Marks == UNION {MarksOn(wiki, i) : i \in Ids(wiki)}
OnDisk == {m[1] : m \in Marks}

(* The entities that operation k of b made: those that bear its mark,      *)
(* except the one it replaces.                                             *)
MadeBy(b, k) ==
  {i \in Ids(wiki) : Bears(wiki, i, Program[b][k].op)}
    \ (IF Program[b][k].kind = "replace" THEN {Program[b][k].id} ELSE {})

(* No operation before k of the batch makes or moves the entity of k: only *)
(* such an operation checks what it was pinned to.                         *)
Alone(b, k) ==
  \A n \in 1 .. k - 1 :
    /\ Program[b][n].kind = "move" => Program[b][n].id # Program[b][k].id
    /\ Creates(Program[b][n]) => Program[b][n].title # Program[b][k].id[1]

IsPinned(b, k) == batches[b] # Unwritten /\ batches[b][k].base # Unpinned

Quiet(b) == \A w \in Writer : writer[w] # Out => writer[w].batch # b

(* Entities of a title go where operations move or create them.            *)
Relocates(o, t) == o.kind = "move" /\ o.id[1] = t
Claims(o, t) == Relocates(o, t) \/ (Creates(o) /\ o.title = t)
IsMovedBy(b, t) == \E k \in DOMAIN Program[b] : Relocates(Program[b][k], t)
IsMoved(t) == \E b \in Batch : IsMovedBy(b, t)

Uncontested(t) ==
  \A b, c \in Batch : \A k \in DOMAIN Program[b], n \in DOMAIN Program[c] :
    (Claims(Program[b][k], t) /\ Claims(Program[c][n], t)) => b = c /\ k = n

Lone == {t \in Title : Uncontested(t)}
Movers == [t \in Title |-> {b \in Batch : IsMovedBy(b, t)}]

Subject(o) == IF o.kind = "create" THEN o.title ELSE o.id[1]

(* The operations that change what nothing moves, or create what nothing   *)
(* else creates and what is not there at the start, and those of them      *)
(* whose mark is on the pages.  (A creation that asks for an id that is in *)
(* its file is settled and logged as complete whoever wrote it, although   *)
(* the code calls it "already created (a resumed or replayed operation)",  *)
(* ops.rs:1680.)                                                           *)
Settled(o) == o.by # AnyId /\ FirstEntity[o.title] # 0
IsSteady(o) ==
  /\ o.kind # "move" /\ ~IsMoved(Subject(o))
  /\ o.kind = "create" => Uncontested(o.title) /\ ~Settled(o)
SteadySteps == [b \in Batch |-> {k \in DOMAIN Program[b] : IsSteady(Program[b][k])}]
Steady(b) == SteadySteps[b]

Shown(b) ==
  {k \in Steady(b) : \E i \in Ids(wiki) :
     i[1] = Subject(Program[b][k]) /\ Bears(wiki, i, Program[b][k].op)}

(* However often a batch is applied again after a crash, a failed write or *)
(* an answer that was lost: a plan behind a handle leaves each of its      *)
(* marks once on an entity, a pinned operation of a file does so too if no *)
(* operation before it makes or moves its entity, and a creation makes one *)
(* entity.  (Two processes that apply one creation at the same time may    *)
(* mint two ids: see the README.)                                          *)
AppliedOnce ==
  /\ \A m \in Marks : m[2] > 1 =>
       \A b \in Batch : \A k \in DOMAIN Program[b] :
         (b \in Handled \/ (IsPinned(b, k) /\ Alone(b, k))) => m[1] # Program[b][k].op
  /\ \A b \in Batch \ doubled : \A k \in Creating(b) : \A i, j \in MadeBy(b, k) : i = j

(* The log and the pages agree: what is on a page was logged as intended   *)
(* first, what is logged as complete is on the pages, and a batch nobody   *)
(* is applying is there as a whole or not at all, unless it was stopped    *)
(* between two of its pages and not finished since.  The last two as long  *)
(* as no page was written over that had changed since it was read, and as  *)
(* far as entities go that nothing moves and that are created once.        *)
IntentsComeFirst == \A b \in Batch : log[b].phase = "none" => OpsOf(b) \cap OnDisk = {}

BatchesAreWhole ==
  \A b \in Batch :
    /\ log[b].phase = "complete" => Shown(b) = Steady(b)
    /\ (Quiet(b) /\ b \notin half) => Shown(b) \in {{}, Steady(b)}

LogAndPagesAgree == IntentsComeFirst /\ (~clobbered => BatchesAreWhole)

(* Nor is an entity lost or on two pages, that one operation at most may   *)
(* move or create, unless its move is under way or was stopped.  (Two that *)
(* move it may lose it: see the README.)                                   *)
NothingIsLost ==
  ~clobbered =>
    \A t \in Lone :
      (\A b \in Movers[t] : Quiet(b) /\ b \notin half) =>
        /\ FirstEntity[t] # 0 => <<t, 1>> \in Ids(wiki)
        /\ \A p, q \in WikiPage : \A i \in DOMAIN wiki[p] \cap DOMAIN wiki[q] : i[1] = t => p = q

(* Already created (a resumed or replayed operation): settled.  So what    *)
(* is logged as complete was created, as long as nobody wrote over a page  *)
(* that had changed, and no two processes applied the batch at once.       *)
CompleteMeansCreated ==
  \A b \in Batch \ doubled : (log[b].phase = "complete" /\ ~clobbered) =>
    \A k \in Creating(b) : MadeBy(b, k) # {}
=============================================================================
