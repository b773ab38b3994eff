----------------------- MODULE WikiOperations_proofs -----------------------
(***************************************************************************)
(* Proofs about the wiki's operations and the plan registry, for any       *)
(* pages, entities, batches, processes, crashes and edits by hand: every   *)
(* variable keeps its type; however often a batch is applied again, each   *)
(* of its operations that is pinned is on the pages once and each of its   *)
(* creations makes one entity; nothing of a batch is on a page before it   *)
(* was logged as intended; and as long as no page was written over that    *)
(* had changed since it was read, the log and the pages agree and no       *)
(* entity is lost.                                                         *)
(***************************************************************************)
EXTENDS WikiOperations, SequenceTheorems, FiniteSetTheorems, WellFoundedInduction, TLAPS

(* Every set of naturals that is not empty has a least element.            *)
LEMMA LeastNatural ==
  ASSUME NEW S \in SUBSET Nat, S # {}
  PROVE  \E s \in S : \A t \in S : s <= t
<1> DEFINE Less == {p \in Nat \X Nat : p[1] < p[2]}
<1>1. IsWellFoundedOn(Less, Nat)
  BY NatLessThanWellFounded, Zenon DEF OpToRel
<1> HIDE DEF Less
<1>2. PICK s \in S : \A t \in S : <<t, s>> \notin Less
  BY <1>1, WFMin
<1>3. \A t \in S : ~(t < s)
  BY <1>2 DEF Less
<1> QED BY <1>3

----------------------------------------------------------------------------
(* Types of the wiki.  Pages of entities, each with a revision.            *)
EntryOK(e) ==
  DOMAIN e = {"status", "rev", "supersedes", "marks"} /\ e.rev \in Nat \ {0}

PagesOK(pgs) ==
  DOMAIN pgs = WikiPage /\ \A p \in WikiPage : \A i \in DOMAIN pgs[p] : EntryOK(pgs[p][i])

LEMMA EntitiesAreTyped ==
  ASSUME NEW pgs, PagesOK(pgs), NEW i \in Ids(pgs)
  PROVE  Located(pgs, i) \in WikiPage /\ EntryOK(Entity(pgs, i))
<1> DEFINE having == {p \in WikiPage : i \in DOMAIN pgs[p]}
<1>1. having # {} /\ having \in SUBSET Nat
  BY DEF Ids, WikiPage
<1>2. \E p \in having : \A q \in having : p <= q
  BY <1>1, LeastNatural
<1>3. \E p \in WikiPage :
        i \in DOMAIN pgs[p] /\ \A q \in WikiPage : i \in DOMAIN pgs[q] => p <= q
  BY <1>2
<1>4. Located(pgs, i) \in WikiPage /\ i \in DOMAIN pgs[Located(pgs, i)]
  BY <1>3 DEF Located
<1> QED BY <1>4 DEF Entity, PagesOK

LEMMA PutIsTyped ==
  ASSUME NEW pgs, PagesOK(pgs), NEW p, NEW i, NEW e, EntryOK(e)
  PROVE  PagesOK(Put(pgs, p, i, e))
BY DEF PagesOK, Put

LEMMA CutIsTyped ==
  ASSUME NEW pgs, PagesOK(pgs), NEW p, NEW i
  PROVE  PagesOK(Cut(pgs, p, i))
BY DEF PagesOK, Cut

LEMMA MutatedIsTyped ==
  ASSUME NEW pgs, PagesOK(pgs), NEW i \in Ids(pgs), NEW op, NEW s, NEW over
  PROVE  PagesOK(Mutated(pgs, i, op, s, over))
<1> DEFINE e == [Entity(pgs, i) EXCEPT !.status = s, !.rev = @ + 1,
                   !.supersedes = @ \cup over, !.marks = Marked(Entity(pgs, i), op)]
<1>1. EntryOK(e)
  BY EntitiesAreTyped DEF EntryOK
<1> HIDE DEF e
<1>2. PagesOK(Put(pgs, Located(pgs, i), i, e))
  BY <1>1, PutIsTyped
<1> QED BY <1>2 DEF Mutated, e

(* An entity stays on the pages when another, or it, is changed.           *)
LEMMA MutatedKeepsIds ==
  ASSUME NEW pgs, PagesOK(pgs), NEW i, NEW op, NEW s, NEW over
  PROVE  Ids(pgs) \subseteq Ids(Mutated(pgs, i, op, s, over))
BY DEF PagesOK, Mutated, Put, Ids

----------------------------------------------------------------------------
(* A plan that is not refused has pages; so has what an operation makes of *)
(* it.                                                                     *)
PlanOK(s) ==
  /\ DOMAIN s = {"ok", "pages", "touched", "created"}
  /\ s.ok => PagesOK(s.pages)

LEMMA RefusalIsTyped == PlanOK(Refusal)
BY DEF PlanOK, Refusal

LEMMA LeavesIsTyped ==
  ASSUME NEW s, PlanOK(s), NEW pgs, PagesOK(pgs), NEW i
  PROVE  PlanOK(Leaves(s, pgs, i)) /\ Leaves(s, pgs, i).ok = s.ok
                                   /\ Leaves(s, pgs, i).pages = pgs
BY DEF PlanOK, Leaves

LEMMA CreateIsTyped ==
  ASSUME NEW s, PlanOK(s), s.ok, NEW op, NEW forced, NEW over
  PROVE  PlanOK(CreateEntry(s, op, forced, over))
<1> DEFINE again == {f \in forced : f[1] = op.op}
           i == IF again # {} THEN (CHOOSE f \in again : TRUE)[2]
                ELSE IF op.by # AnyId THEN op.by
                ELSE Minted(s.pages, op.title)
           made == [s EXCEPT !.created = @ \cup {<<op.op, i>>}, !.touched = @ \cup {i}]
           e == Made({<<op.op, 1>>}, over)
           to == Put(s.pages, op.page, i, e)
<1>1. CreateEntry(s, op, forced, over) \in {made, Refusal, [made EXCEPT !.pages = to]}
  BY DEF CreateEntry
<1> HIDE DEF i
<1>2. PlanOK(made) /\ made.ok = s.ok
  BY DEF PlanOK
<1>3. PagesOK(to)
  <2>1. EntryOK(e)
    BY DEF EntryOK, Made
  <2>2. PagesOK(s.pages)
    BY DEF PlanOK
  <2> HIDE DEF e
  <2> QED BY <2>1, <2>2, PutIsTyped
<1> HIDE DEF made, to
<1>4. PlanOK([made EXCEPT !.pages = to])
  BY <1>2, <1>3 DEF PlanOK
<1> QED BY <1>1, <1>2, <1>4, RefusalIsTyped

LEMMA SupersedesIsTyped ==
  ASSUME NEW s, PlanOK(s), s.ok, NEW new \in Ids(s.pages), NEW old, NEW op
  PROVE  PlanOK(Supersedes(s, new, old, op))
<1> DEFINE pgs == Mutated(s.pages, new, op.op, Entity(s.pages, new).status, {old})
<1>1. PagesOK(s.pages)
  BY DEF PlanOK
<1>2. PagesOK(pgs)
  BY <1>1, MutatedIsTyped
<1>3. Supersedes(s, new, old, op) \in {Refusal, Leaves(s, pgs, {new})}
  BY DEF Supersedes
<1> HIDE DEF pgs
<1> QED BY <1>2, <1>3, LeavesIsTyped, RefusalIsTyped

LEMMA WikiChangesAreTyped ==
  ASSUME NEW s, PlanOK(s), s.ok, NEW op, op.id \in Ids(s.pages), NEW forced
  PROVE  /\ PlanOK(UpdateEntry(s, op)) /\ PlanOK(ArchiveEntry(s, op))
         /\ PlanOK(AddRelation(s, op)) /\ PlanOK(SupersedeEntry(s, op, forced))
         /\ PlanOK(MoveEntry(s, op))
<1>1. PagesOK(s.pages)
  BY DEF PlanOK
<1>2. \A st : PlanOK(Leaves(s, Mutated(s.pages, op.id, op.op, st, {}), {op.id}))
  BY <1>1, MutatedIsTyped, LeavesIsTyped
<1>3. PlanOK(UpdateEntry(s, op)) /\ PlanOK(ArchiveEntry(s, op))
  BY <1>2, RefusalIsTyped DEF UpdateEntry, ArchiveEntry
<1>4. PlanOK(AddRelation(s, op))
  BY SupersedesIsTyped, RefusalIsTyped DEF AddRelation
<1>5. PlanOK(SupersedeEntry(s, op, forced))
  <2> DEFINE pgs == Mutated(s.pages, op.id, op.op, "deprecated", {})
             old == Leaves(s, pgs, {op.id})
  <2>1. PlanOK(old) /\ old.ok /\ old.pages = pgs /\ Ids(s.pages) \subseteq Ids(pgs)
    BY <1>1, MutatedIsTyped, MutatedKeepsIds, LeavesIsTyped
  <2> HIDE DEF pgs
  <2>2. PlanOK(CreateEntry(old, op, forced, {op.id}))
    BY <2>1, CreateIsTyped
  <2>3. op.by \in Ids(s.pages) => PlanOK(Supersedes(old, op.by, op.id, op))
    BY <2>1, SupersedesIsTyped
  <2>4. SupersedeEntry(s, op, forced) =
          IF op.kind = "replace" THEN CreateEntry(old, op, forced, {op.id})
          ELSE IF op.by \notin Ids(s.pages) THEN Refusal
          ELSE Supersedes(old, op.by, op.id, op)
    BY DEF SupersedeEntry, pgs
  <2> HIDE DEF old
  <2> QED BY <2>2, <2>3, <2>4, RefusalIsTyped
<1>6. PlanOK(MoveEntry(s, op))
  <2> DEFINE gone == Cut(s.pages, Located(s.pages, op.id), op.id)
             to == IF op.id \in DOMAIN gone[op.page] THEN gone
                   ELSE Put(gone, op.page, op.id, Entity(s.pages, op.id))
  <2>1. PagesOK(gone)
    BY <1>1, CutIsTyped
  <2> HIDE DEF gone
  <2>2. PagesOK(to)
    BY <1>1, <2>1, EntitiesAreTyped, PutIsTyped
  <2>3. MoveEntry(s, op) \in {Refusal, Leaves(s, to, {op.id})}
    BY DEF MoveEntry, gone
  <2> HIDE DEF to
  <2> QED BY <2>2, <2>3, LeavesIsTyped, RefusalIsTyped
<1> QED BY <1>3, <1>4, <1>5, <1>6

LEMMA OperationIsTyped ==
  ASSUME NEW s, PlanOK(s), NEW op, op.kind \in Kinds, NEW forced
  PROVE  PlanOK(PlanOperation(s, op, forced))
<1>1. CASE ~s.ok
  BY <1>1 DEF PlanOperation
<1>2. CASE s.ok /\ op.kind = "create"
  BY <1>2, CreateIsTyped DEF PlanOperation
<1>3. CASE s.ok /\ op.kind # "create" /\ (op.id \notin Ids(s.pages) \/ ~Holds(s, op))
  BY <1>3, RefusalIsTyped DEF PlanOperation
<1>4. CASE s.ok /\ op.kind # "create" /\ op.id \in Ids(s.pages) /\ Holds(s, op)
  <2>1. PlanOperation(s, op, forced)
          \in {UpdateEntry(s, op), ArchiveEntry(s, op), AddRelation(s, op),
               SupersedeEntry(s, op, forced), MoveEntry(s, op)}
    BY <1>4 DEF PlanOperation, Kinds
  <2> QED BY <1>4, <2>1, WikiChangesAreTyped
<1> QED BY <1>1, <1>2, <1>3, <1>4

----------------------------------------------------------------------------
(* A batch: so many operations, each of a kind.                            *)
BatchOK(ops) == Len(ops) \in Nat /\ \A k \in 1 .. Len(ops) : ops[k].kind \in Kinds

(* The plans after each operation: there is one such function, built one   *)
(* operation after the other, and all of it is typed.                      *)
PlansOf(after, pgs, ops, forced) ==
  /\ after[0] = [ok |-> TRUE, pages |-> pgs, touched |-> {}, created |-> {}]
  /\ \A n \in 1 .. Len(ops) : after[n] = PlanOperation(after[n - 1], ops[n], forced)
  /\ \A n \in 0 .. Len(ops) : PlanOK(after[n])
  /\ PlannedOn(pgs, ops, forced) = after[Len(ops)]

LEMMA PlansFollow ==
  ASSUME NEW pgs, PagesOK(pgs), NEW ops, BatchOK(ops), NEW forced
  PROVE  \E after : PlansOf(after, pgs, ops, forced)
<1> DEFINE start == [ok |-> TRUE, pages |-> pgs, touched |-> {}, created |-> {}]
           Builds(g, m) == g = [n \in 0 .. m |-> IF n = 0 THEN start
                                                  ELSE PlanOperation(g[n - 1], ops[n], forced)]
           after == CHOOSE g : Builds(g, Len(ops))
           short == {m \in 0 .. Len(ops) : ~\E g : Builds(g, m)}
           bad == {n \in 0 .. Len(ops) : ~PlanOK(after[n])}
<1>1. Len(ops) \in Nat
  BY DEF BatchOK
<1>2. short = {}
  <2> SUFFICES ASSUME short # {} PROVE FALSE
    OBVIOUS
  <2>1. PICK m \in short : \A k \in short : m <= k
    <3>1. short \in SUBSET Nat
      BY <1>1
    <3> QED BY <3>1, LeastNatural
  <2>2. m # 0
    <3>1. Builds([n \in 0 .. 0 |-> start], 0)
      OBVIOUS
    <3> QED BY <3>1, <2>1
  <2>3. PICK g : Builds(g, m - 1)
    <3>1. m - 1 \in 0 .. Len(ops) /\ ~(m <= m - 1)
      BY <1>1, <2>1, <2>2
    <3> QED BY <2>1, <3>1
  <2> DEFINE h == [n \in 0 .. m |-> IF n = m THEN PlanOperation(g[m - 1], ops[m], forced)
                                    ELSE g[n]]
  <2>4. Builds(h, m)
    <3>1. m \in Nat \ {0}
      BY <1>1, <2>1, <2>2
    <3>2. \A n \in 0 .. m - 1 : g[n] = IF n = 0 THEN start
                                       ELSE PlanOperation(g[n - 1], ops[n], forced)
      BY <2>3, <3>1
    <3>3. ASSUME NEW n \in 0 .. m
          PROVE  h[n] = IF n = 0 THEN start ELSE PlanOperation(h[n - 1], ops[n], forced)
      <4>1. CASE n = m
        BY <3>1, <4>1
      <4>2. CASE n # m
        <5>1. n \in 0 .. m - 1 /\ (n # 0 => n - 1 \in 0 .. m /\ n - 1 # m)
          BY <3>1, <4>2
        <5>2. h[n] = g[n] /\ (n # 0 => h[n - 1] = g[n - 1])
          BY <5>1
        <5> QED BY <3>2, <5>1, <5>2
      <4> QED BY <4>1, <4>2
    <3>4. h = [n \in 0 .. m |-> h[n]]
      OBVIOUS
    <3> QED BY <3>3, <3>4, Zenon
  <2> QED BY <2>1, <2>4
<1>3. \E g : Builds(g, Len(ops))
  <2>1. Len(ops) \in 0 .. Len(ops)
    BY <1>1
  <2> QED BY <1>2, <2>1
<1>4. Builds(after, Len(ops))
  BY <1>3
<1>5. PlannedOn(pgs, ops, forced) = after[Len(ops)]
  BY DEF PlannedOn
<1> HIDE DEF after
<1>6. \A n \in 0 .. Len(ops) :
        after[n] = IF n = 0 THEN start ELSE PlanOperation(after[n - 1], ops[n], forced)
  BY <1>1, <1>4
<1>7. bad = {}
  <2> SUFFICES ASSUME bad # {} PROVE FALSE
    OBVIOUS
  <2>1. PICK n \in bad : \A k \in bad : n <= k
    <3>1. bad \in SUBSET Nat
      BY <1>1
    <3> QED BY <3>1, LeastNatural
  <2>2. n # 0
    BY <1>6, <2>1 DEF PlanOK
  <2>3. n \in 1 .. Len(ops) /\ n - 1 \in 0 .. Len(ops) /\ PlanOK(after[n - 1])
    BY <1>1, <2>1, <2>2
  <2>4. after[n] = PlanOperation(after[n - 1], ops[n], forced)
    BY <1>6, <2>2, <2>3
  <2>5. ops[n].kind \in Kinds
    BY <2>3 DEF BatchOK
  <2> QED BY <2>1, <2>3, <2>4, <2>5, OperationIsTyped
<1>8. after[0] = start
  <2>1. 0 \in 0 .. Len(ops)
    BY <1>1
  <2> HIDE DEF start
  <2> QED BY <1>6, <2>1
<1>9. \A n \in 1 .. Len(ops) : after[n] = PlanOperation(after[n - 1], ops[n], forced)
  BY <1>1, <1>6
<1>10. PlansOf(after, pgs, ops, forced)
  BY <1>5, <1>7, <1>8, <1>9 DEF PlansOf
<1> QED BY <1>10

LEMMA PlannedIsTyped ==
  ASSUME NEW pgs, PagesOK(pgs), NEW ops, BatchOK(ops), NEW forced
  PROVE  PlanOK(PlannedOn(pgs, ops, forced))
<1>1. PICK after : PlansOf(after, pgs, ops, forced)
  BY PlansFollow
<1>2. Len(ops) \in 0 .. Len(ops)
  BY DEF BatchOK
<1> QED BY <1>1, <1>2 DEF PlansOf

----------------------------------------------------------------------------
(* The log, the registry and the processes that apply: a live handle is in *)
(* the order, what a process applies was written, and what it is going to  *)
(* write are pages.                                                        *)
Phases == {"none", "intent", "complete"}

LogInv == DOMAIN log = Batch /\ \A b \in Batch : log[b].phase \in Phases

PlansInv ==
  /\ plans \in Seq(Batch) /\ Len(plans) <= MaxPlans
  /\ live \subseteq {plans[k] : k \in DOMAIN plans}

WrittenInv ==
  /\ DOMAIN batches = Batch
  /\ \A b \in Batch : batches[b] # Unwritten => BatchOK(batches[b])
  /\ \A b \in live : BatchOK(batches[b])

WriterOK(x) ==
  \/ x = Out
  \/ /\ x.at \in {"read", "planned", "writing"}
     /\ {"at", "batch", "was", "todo"} \subseteq DOMAIN x
     /\ x.batch \in Batch /\ BatchOK(batches[x.batch])
     /\ x.todo \subseteq WikiPage /\ PagesOK(x.was)
     /\ x.at # "read" => PagesOK(x.pages)

WritersInv == DOMAIN writer = Writer /\ \A w \in Writer : WriterOK(writer[w])

WikiInv == PagesOK(wiki) /\ LogInv /\ PlansInv /\ WrittenInv /\ WritersInv

LEMMA PinnedIsWritten ==
  ASSUME NEW b \in Batch, NEW pinned
  PROVE  BatchOK(Pin(b, pinned))
<1> DEFINE o(k) == Program[b][k]
           ops == Pin(b, pinned)
<1>1. /\ Len(Program[b]) \in Nat /\ DOMAIN Program[b] = 1 .. Len(Program[b])
      /\ \A k \in 1 .. Len(Program[b]) : "base" \in DOMAIN o(k) /\ o(k).kind \in Kinds
  BY WikiAssumption DEF WikiAssumption
<1> DEFINE n == Len(Program[b])
           base(k) == IF pinned /\ o(k).kind # "create" /\ o(k).id \in Ids(wiki)
                        THEN Entity(wiki, o(k).id) ELSE Unpinned
<1>2. ops = [k \in 1 .. n |-> [o(k) EXCEPT !.base = base(k)]]
  BY <1>1 DEF Pin
<1>3. \A k \in 1 .. n : [o(k) EXCEPT !.base = base(k)].kind = o(k).kind
  BY <1>1
<1> HIDE DEF o, base
<1>4. Len(ops) = n
  BY <1>1, <1>2
<1> QED BY <1>1, <1>2, <1>3, <1>4 DEF BatchOK

LEMMA WikiBegins == WikiInit => WikiInv
<1> SUFFICES ASSUME WikiInit PROVE WikiInv
  OBVIOUS
<1>1. PagesOK(wiki)
  BY DEF WikiInit, PagesOK, EntryOK, Made
<1>2. LogInv /\ PlansInv /\ WrittenInv /\ WritersInv
  BY WikiAssumption
     DEF WikiInit, LogInv, Phases, PlansInv, WrittenInv, WritersInv, WriterOK, Out, WikiAssumption
<1> QED BY <1>1, <1>2 DEF WikiInv

LEMMA WikiStepKeeps == WikiInv /\ [WikiNext]_wikiVars => WikiInv'
<1> SUFFICES ASSUME WikiInv, [WikiNext]_wikiVars PROVE WikiInv'
  OBVIOUS
<1>1. PagesOK(wiki) /\ LogInv /\ PlansInv /\ WrittenInv /\ WritersInv
  BY DEF WikiInv
<1>2. ASSUME UNCHANGED wiki PROVE PagesOK(wiki)'
  BY <1>1, <1>2
<1>3. ASSUME UNCHANGED log PROVE LogInv'
  BY <1>1, <1>3 DEF LogInv
<1>4. ASSUME UNCHANGED <<plans, live>> PROVE PlansInv'
  BY <1>1, <1>4 DEF PlansInv
<1>5. ASSUME UNCHANGED batches, live' \subseteq live PROVE WrittenInv'
  BY <1>1, <1>5 DEF WrittenInv
<1>6. ASSUME NEW w \in Writer, NEW x, UNCHANGED batches, writer' = [writer EXCEPT ![w] = x],
             WriterOK(x)
      PROVE  WritersInv'
  BY <1>1, <1>6 DEF WritersInv, WriterOK
<1>7. WriterOK(Out)
  BY DEF WriterOK
<1>8. ASSUME NEW b \in Batch, NEW pinned, batches[b] = Unwritten,
             batches' = [batches EXCEPT ![b] = Pin(b, pinned)], live' \subseteq live \cup {b},
             UNCHANGED writer
      PROVE  WrittenInv' /\ WritersInv'
  <2>1. BatchOK(Pin(b, pinned))
    BY PinnedIsWritten
  <2>2. \A c \in Batch : BatchOK(batches[c]) \/ c = b => BatchOK(batches'[c])
    BY <1>1, <1>8, <2>1 DEF WrittenInv
  <2>3. \A c \in Batch : batches'[c] # batches[c] => c = b
    BY <1>1, <1>8 DEF WrittenInv
  <2>4. live \subseteq Batch
    BY <1>1 DEF PlansInv
  <2>5. WrittenInv'
    BY <1>1, <1>8, <2>2, <2>3, <2>4 DEF WrittenInv
  <2>6. WritersInv'
    BY <1>1, <1>8, <2>2 DEF WritersInv, WriterOK
  <2> QED BY <2>5, <2>6
<1>9. ASSUME NEW w \in Writer, NEW b \in Batch, Enters(w, b), BatchOK(batches[b]), UNCHANGED batches
      PROVE  WritersInv'
  <2> DEFINE x == [at |-> "read", batch |-> b, created |-> log[b].created,
                    was |-> Blank, todo |-> WikiPage]
  <2>1. writer' = [writer EXCEPT ![w] = x] /\ WriterOK(x)
    <3>1. PagesOK(Blank)
      BY DEF PagesOK, Blank
    <3> QED BY <1>9, <3>1 DEF Enters, WriterOK
  <2> HIDE DEF x
  <2> QED BY <1>6, <1>9, <2>1
<1>10. ASSUME NEW w \in Writer, NEW b \in Batch, Apply(w, b) PROVE WikiInv'
  <2>1. BatchOK(batches[b])
    BY <1>1, <1>10 DEF Apply, WrittenInv
  <2> QED BY <1>2, <1>3, <1>4, <1>5, <1>9, <1>10, <2>1 DEF Apply, WikiInv
<1>11. ASSUME NEW w \in Writer, NEW b \in Batch, ApplyPlanned(w, b) PROVE WikiInv'
  <2>1. BatchOK(batches[b])
    BY <1>1, <1>11 DEF ApplyPlanned, WrittenInv
  <2>2. PlansInv'
    <3> DEFINE k == CHOOSE n \in DOMAIN plans : plans[n] = b
               before == SubSeq(plans, 1, k - 1)
               after == SubSeq(plans, k + 1, Len(plans))
    <3>1. k \in 1 .. Len(plans) /\ plans[k] = b
      BY <1>1, <1>11 DEF ApplyPlanned, PlansInv
    <3>2. plans' = before \o after /\ live' = live \ {b}
      BY <1>11 DEF ApplyPlanned, Without
    <3> HIDE DEF k
    <3>3. /\ before \in Seq(Batch) /\ Len(before) = k - 1
          /\ \A n \in 1 .. k - 1 : before[n] = plans[n]
      BY <1>1, <3>1 DEF PlansInv
    <3>4. /\ after \in Seq(Batch) /\ Len(after) = Len(plans) - k
          /\ \A n \in 1 .. Len(plans) - k : after[n] = plans[n + k]
      BY <1>1, <3>1 DEF PlansInv
    <3> HIDE DEF before, after
    <3>5. /\ plans' \in Seq(Batch) /\ Len(plans') = Len(plans) - 1
          /\ \A n \in 1 .. k - 1 : plans'[n] = before[n]
          /\ \A n \in 1 .. Len(plans) - k : plans'[n + k - 1] = after[n]
      <4>1. Len(plans) \in Nat /\ k \in Nat
        BY <1>1, <3>1 DEF PlansInv
      <4>2. /\ plans' \in Seq(Batch) /\ Len(plans') = Len(before) + Len(after)
            /\ \A n \in 1 .. Len(before) : plans'[n] = before[n]
            /\ \A n \in 1 .. Len(after) : plans'[Len(before) + n] = after[n]
        <5>1. /\ plans' = before \o after /\ before \in Seq(Batch) /\ after \in Seq(Batch)
              /\ Len(before) \in Nat /\ Len(after) \in Nat
          BY <3>2, <3>3, <3>4
        <5>2. \A m \in 1 .. Len(before) + Len(after) :
                plans'[m] = IF m <= Len(before) THEN before[m] ELSE after[m - Len(before)]
          BY <5>1
        <5>3. plans' \in Seq(Batch) /\ Len(plans') = Len(before) + Len(after)
          BY <5>1
        <5>4. \A n \in 1 .. Len(before) : plans'[n] = before[n]
          BY <5>1, <5>2
        <5>5. \A n \in 1 .. Len(after) : plans'[Len(before) + n] = after[n]
          BY <5>1, <5>2
        <5> QED BY <5>3, <5>4, <5>5
      <4>3. Len(before) = k - 1 /\ Len(after) = Len(plans) - k
        BY <3>3, <3>4
      <4>4. Len(plans') = Len(plans) - 1
        BY <4>1, <4>2, <4>3
      <4>5. \A n \in 1 .. k - 1 : plans'[n] = before[n]
        BY <4>2, <4>3
      <4>6. ASSUME NEW n \in 1 .. Len(plans) - k PROVE plans'[n + k - 1] = after[n]
        <5>1. Len(before) + n = n + k - 1
          BY <4>1, <4>3
        <5> QED BY <4>2, <4>3, <5>1
      <4> QED BY <4>2, <4>4, <4>5, <4>6
    <3>6. ASSUME NEW c \in live' PROVE \E n \in DOMAIN plans' : plans'[n] = c
      <4>1. PICK n \in 1 .. Len(plans) : plans[n] = c
        BY <1>1, <3>2, <3>6 DEF PlansInv
      <4>2. n # k
        BY <3>1, <3>2, <3>6, <4>1
      <4>3. CASE n < k
        <5>1. n \in 1 .. k - 1 /\ n \in DOMAIN plans'
          BY <1>1, <3>1, <3>5, <4>1, <4>3 DEF PlansInv
        <5> QED BY <3>3, <3>5, <4>1, <5>1
      <4>4. CASE n > k
        <5>1. n - k \in 1 .. Len(plans) - k /\ n - 1 \in DOMAIN plans'
          BY <1>1, <3>1, <3>5, <4>1, <4>4 DEF PlansInv
        <5>2. plans'[n - k + k - 1] = plans[n - k + k]
          BY <3>4, <3>5, <5>1
        <5>3. n - k + k - 1 = n - 1 /\ n - k + k = n
          BY <1>1, <3>1, <4>1 DEF PlansInv
        <5> QED BY <4>1, <5>1, <5>2, <5>3
      <4> QED BY <1>1, <3>1, <4>1, <4>2, <4>3, <4>4 DEF PlansInv
    <3> QED BY <1>1, <3>5, <3>6, WikiAssumption DEF PlansInv, WikiAssumption
  <2>3. live' \subseteq live
    BY <1>11 DEF ApplyPlanned
  <2> QED BY <1>2, <1>3, <1>5, <1>9, <1>11, <2>1, <2>2, <2>3 DEF ApplyPlanned, WikiInv
<1>23. ASSUME NEW w \in Writer, NEW p \in WikiPage, writer[w].at = "read"
       PROVE  PagesOK(ReadUpTo(w, p)) /\ WriterOK(writer[w]) /\ writer[w] # Out
  <2>1. WriterOK(writer[w]) /\ writer[w] # Out
    BY <1>1, <1>23 DEF WritersInv, Out
  <2> QED BY <1>1, <2>1 DEF PagesOK, ReadUpTo, WriterOK
<1>24. ASSUME NEW w \in Writer, NEW p \in WikiPage, ReadPage(w, p) PROVE WikiInv'
  <2> DEFINE was == ReadUpTo(w, p)
             x == [writer[w] EXCEPT !.was = was, !.todo = @ \ {p}]
  <2>1. writer' = [writer EXCEPT ![w] = x] /\ UNCHANGED <<wiki, batches, log, plans, live>>
    BY <1>1, <1>24 DEF ReadPage, WritersInv
  <2>2. WriterOK(writer[w]) /\ writer[w].at = "read" /\ writer[w] # Out /\ PagesOK(was)
    BY <1>23, <1>24 DEF ReadPage
  <2> HIDE DEF was
  <2>3. /\ x.at = "read" /\ DOMAIN x = DOMAIN writer[w] /\ x.todo \subseteq writer[w].todo
        /\ x.batch = writer[w].batch /\ x.was = was
    BY <2>2 DEF WriterOK
  <2> HIDE DEF x
  <2>4. WriterOK(x)
    BY <2>2, <2>3 DEF WriterOK
  <2> QED BY <1>2, <1>3, <1>4, <1>5, <1>6, <2>1, <2>4 DEF WikiInv
<1>12. ASSUME NEW w \in Writer, NEW p \in WikiPage, PlanBatch(w, p) PROVE WikiInv'
  <2> DEFINE b == writer[w].batch
             was == ReadUpTo(w, p)
             plan == PlannedOn(was, batches[b], writer[w].created)
             x == IF ~plan.ok THEN Out
                  ELSE [at |-> "planned", batch |-> b, created |-> plan.created,
                        was |-> was, pages |-> plan.pages,
                        todo |-> {q \in WikiPage : plan.pages[q] # was[q]}]
  <2>1. writer' = [writer EXCEPT ![w] = x] /\ UNCHANGED <<wiki, batches, log, plans, live>>
    BY <1>12 DEF PlanBatch
  <2>2. b \in Batch /\ BatchOK(batches[b]) /\ PagesOK(was)
    BY <1>12, <1>23 DEF PlanBatch, WriterOK
  <2> HIDE DEF b, was
  <2>3. PlanOK(plan)
    BY <2>2, PlannedIsTyped
  <2> HIDE DEF plan
  <2>4. WriterOK(x)
    BY <1>7, <2>2, <2>3 DEF WriterOK, PlanOK
  <2> HIDE DEF x
  <2> QED BY <1>2, <1>3, <1>4, <1>5, <1>6, <2>1, <2>4 DEF WikiInv
<1>13. ASSUME NEW w \in Writer, NEW ph \in Phases, NEW made,
              Logs(writer[w].batch, ph, made)
       PROVE  LogInv'
  BY <1>1, <1>13 DEF Logs, LogInv
<1>14. ASSUME NEW w \in Writer, LogIntents(w) PROVE WikiInv'
  <2> DEFINE x == [writer[w] EXCEPT !.at = "writing"]
  <2>1. writer' = [writer EXCEPT ![w] = x] /\ UNCHANGED <<wiki, batches, plans, live>>
    BY <1>1, <1>14 DEF LogIntents, WritersInv
  <2>2. WriterOK(writer[w]) /\ writer[w].at = "planned" /\ writer[w] # Out
    BY <1>1, <1>14 DEF LogIntents, WritersInv, Out
  <2>3. /\ x.at = "writing" /\ DOMAIN x = DOMAIN writer[w]
        /\ x.batch = writer[w].batch /\ x.todo = writer[w].todo
        /\ x.was = writer[w].was /\ x.pages = writer[w].pages
    BY <2>2 DEF WriterOK
  <2> HIDE DEF x
  <2>4. WriterOK(x)
    BY <2>2, <2>3 DEF WriterOK
  <2>5. LogInv'
    BY <1>13, <1>14 DEF LogIntents, Phases
  <2> QED BY <1>2, <1>4, <1>5, <1>6, <2>1, <2>4, <2>5 DEF WikiInv
<1>15. ASSUME NEW w \in Writer, WritePage(w) PROVE WikiInv'
  <2> DEFINE todo == writer[w].todo
             p == CHOOSE q \in todo : \A r \in todo : q <= r
             x == [writer[w] EXCEPT !.todo = todo \ {p}]
  <2>1. /\ writer' = [writer EXCEPT ![w] = x] /\ UNCHANGED <<batches, log, plans, live>>
        /\ wiki' = [wiki EXCEPT ![p] = writer[w].pages[p]]
    BY <1>1, <1>15 DEF WritePage, WritersInv
  <2>2. WriterOK(writer[w]) /\ writer[w].at = "writing" /\ writer[w] # Out
    BY <1>1, <1>15 DEF WritePage, WritersInv, Out
  <2>3. /\ x.at = "writing" /\ DOMAIN x = DOMAIN writer[w] /\ x.todo \subseteq writer[w].todo
        /\ x.batch = writer[w].batch /\ x.was = writer[w].was /\ x.pages = writer[w].pages
    BY <2>2 DEF WriterOK
  <2> HIDE DEF x, p
  <2>4. WriterOK(x)
    BY <2>2, <2>3 DEF WriterOK
  <2>5. PagesOK(writer[w].pages)
    BY <2>2 DEF WriterOK
  <2>6. PagesOK(wiki)'
    BY <1>1, <2>1, <2>5 DEF PagesOK
  <2> QED BY <1>3, <1>4, <1>5, <1>6, <2>1, <2>4, <2>6 DEF WikiInv
<1>16. ASSUME NEW w \in Writer, LogComplete(w) PROVE WikiInv'
  <2>1. LogInv'
    BY <1>13, <1>16 DEF LogComplete, Phases
  <2> QED BY <1>2, <1>4, <1>5, <1>6, <1>7, <1>16, <2>1 DEF LogComplete, WikiInv
<1>17. ASSUME NEW w \in Writer, Stop(w) PROVE WikiInv'
  BY <1>2, <1>3, <1>4, <1>5, <1>6, <1>7, <1>17 DEF Stop, WikiInv
<1>18. ASSUME NEW b \in Batch, Author(b) PROVE WikiInv'
  BY <1>2, <1>3, <1>4, <1>8, <1>18 DEF Author, WikiInv
<1>19. ASSUME NEW b \in Batch, Register(b) PROVE WikiInv'
  <2>1. live' \subseteq live \cup {b}
    BY <1>19 DEF Register
  <2>2. PlansInv'
    <3>1. Kept \in Seq(Batch) /\ Len(Kept) \in Nat /\ Len(Kept) <= MaxPlans - 1
      <4>1. plans \in Seq(Batch) /\ Len(plans) \in Nat /\ Len(plans) <= MaxPlans
            /\ MaxPlans \in Nat \ {0}
        BY <1>1, WikiAssumption DEF PlansInv, WikiAssumption
      <4>2. CASE Len(plans) < MaxPlans
        <5>1. Kept = SubSeq(plans, 1, Len(plans))
          BY <4>2 DEF Kept
        <5> QED BY <4>1, <4>2, <5>1
      <4>3. CASE ~(Len(plans) < MaxPlans)
        <5>1. Len(plans) = MaxPlans /\ Kept = SubSeq(plans, 2, Len(plans))
          BY <4>1, <4>3 DEF Kept
        <5> QED BY <4>1, <5>1
      <4> QED BY <4>2, <4>3
    <3>2. /\ plans' = Append(Kept, b)
          /\ live' = (live \cap {Kept[k] : k \in DOMAIN Kept}) \cup {b}
      BY <1>19 DEF Register
    <3> DEFINE kept == Kept
    <3> HIDE DEF kept
    <3>3. /\ plans' \in Seq(Batch) /\ Len(plans') = Len(Kept) + 1 /\ plans'[Len(Kept) + 1] = b
          /\ \A k \in 1 .. Len(Kept) : plans'[k] = Kept[k]
      BY <3>1, <3>2
    <3>4. Len(plans') <= MaxPlans
      BY <3>1, <3>3, WikiAssumption DEF WikiAssumption
    <3>5. DOMAIN plans' = 1 .. Len(Kept) + 1 /\ DOMAIN Kept = 1 .. Len(Kept)
      BY <3>1, <3>3
    <3>6. live' \subseteq {plans'[k] : k \in DOMAIN plans'}
      BY <3>1, <3>2, <3>3, <3>5
    <3> QED BY <3>3, <3>4, <3>6 DEF PlansInv
  <2> QED BY <1>2, <1>3, <1>8, <1>19, <2>1, <2>2 DEF Register, WikiInv
<1>20. ASSUME NEW b \in Batch, Expire(b) PROVE WikiInv'
  <2>1. WrittenInv' /\ PlansInv' /\ WritersInv'
    BY <1>1, <1>20 DEF Expire, WrittenInv, PlansInv, WritersInv, WriterOK
  <2> QED BY <1>2, <1>3, <1>20, <2>1 DEF Expire, WikiInv
<1>21. ASSUME NEW p \in WikiPage, NEW i \in DOMAIN wiki[p], HandEdit(p, i) PROVE WikiInv'
  <2>1. WrittenInv' /\ PlansInv' /\ WritersInv' /\ LogInv'
    BY <1>1, <1>21 DEF HandEdit, WrittenInv, PlansInv, WritersInv, WriterOK, LogInv
  <2>2. wiki' = [wiki EXCEPT ![p][i].marks = Marked(wiki[p][i], "hand")]
    BY <1>21 DEF HandEdit
  <2>3. PagesOK(wiki)'
    BY <1>1, <2>2 DEF PagesOK, EntryOK
  <2> QED BY <2>1, <2>3 DEF WikiInv
<1>22. CASE UNCHANGED wikiVars
  BY <1>1, <1>22 DEF wikiVars, WikiInv, LogInv, PlansInv, WrittenInv, WritersInv, WriterOK
<1> QED BY <1>10, <1>11, <1>12, <1>14, <1>15, <1>16, <1>17, <1>18, <1>19, <1>20, <1>21, <1>22, <1>24
        DEF WikiNext, WriterStep

LEMMA WikiMeans == WikiInv => WikiTypeOK
<1> SUFFICES ASSUME WikiInv PROVE WikiTypeOK
  OBVIOUS
<1>1. PagesOK(wiki) /\ LogInv /\ PlansInv /\ WritersInv
  BY DEF WikiInv
<1>2. \A p \in WikiPage : \A i \in DOMAIN wiki[p] : wiki[p][i].rev \in Nat \ {0}
  BY <1>1 DEF PagesOK, EntryOK
<1>3. \A w \in Writer : writer[w].at \in Places
  BY <1>1 DEF WritersInv, WriterOK, Out, Places
<1> QED BY <1>1, <1>2, <1>3 DEF WikiTypeOK, LogInv, Phases, PlansInv

----------------------------------------------------------------------------
(* History.  What each batch left is read off the pages: every copy of an  *)
(* entity, on the pages or in what a process is about to write, fits each  *)
(* batch whose marks it bears.  A copy that a creation of the batch made   *)
(* has the one id it was given; an operation that compares its pin finds   *)
(* none of its own marks, because the pin has none and nothing else of the *)
(* batch comes in between; and a supersession, which may not repeat,       *)
(* leaves the relation behind that refuses it the next time.  The log and  *)
(* whoever is at work on the batch agree on the ids.                       *)

(* What stands on the pages: ids with what is there.                       *)
Copies(pgs) == UNION {{<<j, pgs[p][j]>> : j \in DOMAIN pgs[p]} : p \in WikiPage}

Wears(e, op) == \E m \in e.marks : m[1] = op
Bare(b, e) == \A m \in e.marks : m[1] \notin OpsOf(b)

Once(b, k) == b \in Handled \/ (IsPinned(b, k) /\ Alone(b, k))
Links(o, j) == o.kind = "supersede" /\ o.by = j /\ o.id # j

(* A supersession that a copy gained before.                               *)
LinkedBefore(b, k, j, e) ==
  \A n \in 1 .. k - 1 : Links(Program[b][n], j) => Program[b][n].id \in e.supersedes

FitsMark(b, k, j, e, C) ==
  LET o == Program[b][k]
  IN /\ (b \notin doubled /\ Creates(o)) => <<o.op, j>> \in C \/ (o.kind = "replace" /\ o.id = j)
     /\ Links(o, j) => o.id \in e.supersedes
     /\ (o.kind # "create" /\ o.id = j /\ Alone(b, k)) => LinkedBefore(b, k, j, e)

Fits(b, j, e, C) ==
  \A k \in DOMAIN Program[b] : \A m \in e.marks : m[1] = Program[b][k].op =>
    /\ Once(b, k) => m[2] = 1
    /\ FitsMark(b, k, j, e, C)

(* Ids that the creations of a batch were given.                           *)
Given(b, C) ==
  /\ \A c \in C : \E k \in DOMAIN Program[b] :
       /\ Creates(Program[b][k])
       /\ c = <<Program[b][k].op, c[2]>> /\ c[2][1] = Program[b][k].title
  /\ \A c, d \in C : c[1] = d[1] => c = d

Matches(b, ops) ==
  /\ Len(ops) = Len(Program[b])
  /\ \A k \in 1 .. Len(ops) :
       LET o == Program[b][k]
       IN /\ ops[k].op = o.op /\ ops[k].kind = o.kind /\ ops[k].title = o.title
          /\ ops[k].id = o.id /\ ops[k].page = o.page /\ ops[k].by = o.by
          /\ o.kind = "create" => ops[k].base = Unpinned
          /\ ops[k].base = Unpinned \/ Bare(b, ops[k].base)
          /\ \A n \in 1 .. Len(ops) :
               (o.kind # "create" /\ Program[b][n].kind # "create" /\ Program[b][n].id = o.id)
                 => ops[n].base = ops[k].base

At(w, b) == writer[w] # Out /\ writer[w].batch = b

BatchesInv ==
  \A b \in Batch :
    IF batches[b] = Unwritten
    THEN log[b].phase = "none" /\ b \notin live /\ \A w \in Writer : ~At(w, b)
    ELSE Matches(b, batches[b])

LiveInv == \A b \in live : b \in Handled /\ log[b].phase = "none" /\ \A w \in Writer : ~At(w, b)

AloneInv ==
  /\ Handled \cap doubled = {}
  /\ \A v, w \in Writer, b \in Batch : (At(v, b) /\ At(w, b)) => v = w \/ b \in doubled

LogsInv ==
  \A b \in Batch : Given(b, log[b].created) /\ (log[b].phase = "none" => log[b].created = {})

WriterInv(x) ==
  LET b == x.batch
  IN /\ Given(b, x.created)
     /\ x.at = "read" /\ b \notin doubled => x.created = log[b].created
     /\ x.at = "planned" /\ b \notin doubled => log[b].created \subseteq x.created
     /\ x.at = "writing" => log[b].phase # "none" /\ (b \notin doubled => x.created = log[b].created)
     /\ b \in Handled /\ x.at # "writing" => log[b].phase = "none"

Fit(b, pgs, C) == \A x \in Copies(pgs) : Fits(b, x[1], x[2], C)
Untouched(b, pgs) == \A x \in Copies(pgs) : Bare(b, x[2])

(* The pages a process has in hand: those it has read, and what it makes   *)
(* of them.                                                                *)
InHand(x) == IF x.at = "read" THEN x.was ELSE x.pages
Own(x, b) == x.batch = b /\ x.at # "read"

HandFits(x, b) ==
  /\ Fit(b, InHand(x), IF Own(x, b) THEN x.created ELSE log[b].created)
  /\ (~Own(x, b) /\ log[b].phase = "none") => Untouched(b, InHand(x))

SameHand(y, x) ==
  /\ InHand(y) = InHand(x) /\ (y.at = "read" <=> x.at = "read")
  /\ y.batch = x.batch /\ y.created = x.created

PagesFit(w, b) == writer[w] # Out => HandFits(writer[w], b)

WikiFits(b) ==
  /\ Fit(b, wiki, log[b].created)
  /\ log[b].phase = "none" => Untouched(b, wiki)

CopiesInv == \A b \in Batch : WikiFits(b) /\ \A w \in Writer : PagesFit(w, b)

WritersGive == \A w \in Writer : writer[w] # Out => WriterInv(writer[w])

HistoryInv == BatchesInv /\ LiveInv /\ AloneInv /\ LogsInv /\ WritersGive /\ CopiesInv

----------------------------------------------------------------------------
(* How operations change the pages.  An entity may stand on two pages: a   *)
(* move copies it, and is stopped before the other page is written.        *)

LEMMA CopiesOf ==
  ASSUME NEW pgs, NEW x
  PROVE  x \in Copies(pgs) <=> \E p \in WikiPage : \E j \in DOMAIN pgs[p] : x = <<j, pgs[p][j]>>
BY DEF Copies

LEMMA PagesAreNumbers == WikiPage \subseteq Nat
BY DEF WikiPage

(* An id is located on the first page that has it.                         *)
LEMMA LocatedFirst ==
  ASSUME NEW pgs, NEW i \in Ids(pgs)
  PROVE  /\ Located(pgs, i) \in WikiPage /\ i \in DOMAIN pgs[Located(pgs, i)]
         /\ \A q \in WikiPage : i \in DOMAIN pgs[q] => Located(pgs, i) <= q
         /\ <<i, Entity(pgs, i)>> \in Copies(pgs)
<1> DEFINE having == {p \in WikiPage : i \in DOMAIN pgs[p]}
<1>1. having # {} /\ having \in SUBSET Nat
  BY DEF Ids, WikiPage
<1>2. \E p \in having : \A q \in having : p <= q
  BY <1>1, LeastNatural
<1>3. \E p \in WikiPage :
        i \in DOMAIN pgs[p] /\ \A q \in WikiPage : i \in DOMAIN pgs[q] => p <= q
  BY <1>2
<1>4. /\ Located(pgs, i) \in WikiPage /\ i \in DOMAIN pgs[Located(pgs, i)]
      /\ \A q \in WikiPage : i \in DOMAIN pgs[q] => Located(pgs, i) <= q
  BY <1>3 DEF Located
<1> QED BY <1>4, CopiesOf DEF Entity

(* An entity that stays where it was, as it was, is the same entity.       *)
LEMMA SameEntity ==
  ASSUME NEW pgs, NEW new, NEW j \in Ids(new),
         \A p \in WikiPage : j \in DOMAIN new[p] <=> j \in DOMAIN pgs[p],
         \A p \in WikiPage : j \in DOMAIN new[p] => new[p][j] = pgs[p][j]
  PROVE  j \in Ids(pgs) /\ Located(new, j) = Located(pgs, j) /\ Entity(new, j) = Entity(pgs, j)
<1>1. j \in Ids(pgs)
  BY DEF Ids
<1>2. Located(new, j) <= Located(pgs, j) /\ Located(pgs, j) <= Located(new, j)
  BY <1>1, LocatedFirst
<1>3. Located(new, j) \in Nat /\ Located(pgs, j) \in Nat
  BY <1>1, LocatedFirst, PagesAreNumbers
<1>4. Located(new, j) = Located(pgs, j)
  BY <1>2, <1>3
<1> QED BY <1>1, <1>4, LocatedFirst DEF Entity

LEMMA PutLeavesOthers ==
  ASSUME NEW pgs, PagesOK(pgs), NEW p, NEW i, NEW e
  PROVE  /\ Copies(Put(pgs, p, i, e)) \subseteq Copies(pgs) \cup {<<i, e>>}
         /\ i \in Ids(Put(pgs, p, i, e)) \ Ids(pgs) => Entity(Put(pgs, p, i, e), i) = e
         /\ \A j \in Ids(Put(pgs, p, i, e)) \ {i} :
              j \in Ids(pgs) /\ Entity(Put(pgs, p, i, e), j) = Entity(pgs, j)
<1> DEFINE new == Put(pgs, p, i, e)
<1>1. \A q \in WikiPage :
        /\ q # p => new[q] = pgs[q]
        /\ q = p => new[q] = [j \in DOMAIN pgs[q] \cup {i} |-> IF j = i THEN e ELSE pgs[q][j]]
  BY DEF Put, PagesOK
<1> HIDE DEF new
<1>2. \A q \in WikiPage : \A j \in DOMAIN new[q] :
        \/ q = p /\ j = i /\ new[q][j] = e
        \/ j \in DOMAIN pgs[q] /\ new[q][j] = pgs[q][j]
  <2> SUFFICES ASSUME NEW q \in WikiPage, NEW j \in DOMAIN new[q]
               PROVE  \/ q = p /\ j = i /\ new[q][j] = e
                      \/ j \in DOMAIN pgs[q] /\ new[q][j] = pgs[q][j]
    OBVIOUS
  <2>1. CASE q # p
    BY <1>1, <2>1
  <2>2. CASE q = p
    <3>1. new[q] = [k \in DOMAIN pgs[q] \cup {i} |-> IF k = i THEN e ELSE pgs[q][k]]
      BY <1>1, <2>2
    <3>2. j \in DOMAIN pgs[q] \cup {i}
      BY <3>1
    <3>3. new[q][j] = IF j = i THEN e ELSE pgs[q][j]
      BY <3>1, <3>2
    <3> QED BY <2>2, <3>2, <3>3
  <2> QED BY <2>1, <2>2
<1>3. Copies(new) \subseteq Copies(pgs) \cup {<<i, e>>}
  <2> SUFFICES ASSUME NEW x \in Copies(new) PROVE x \in Copies(pgs) \cup {<<i, e>>}
    OBVIOUS
  <2>1. PICK q \in WikiPage : \E j \in DOMAIN new[q] : x = <<j, new[q][j]>>
    BY CopiesOf
  <2> QED BY <1>2, <2>1, CopiesOf
<1>4. i \in Ids(new) \ Ids(pgs) => Entity(new, i) = e
  <2>1. i \in Ids(new) => Located(new, i) \in WikiPage /\ i \in DOMAIN new[Located(new, i)]
    BY LocatedFirst
  <2> QED BY <1>2, <2>1 DEF Entity, Ids
<1>5. ASSUME NEW j \in Ids(new) \ {i} PROVE j \in Ids(pgs) /\ Entity(new, j) = Entity(pgs, j)
  <2>1. \A q \in WikiPage : j \in DOMAIN new[q] <=> j \in DOMAIN pgs[q]
    BY <1>1
  <2>2. \A q \in WikiPage : j \in DOMAIN new[q] => new[q][j] = pgs[q][j]
    BY <1>2
  <2> QED BY <2>1, <2>2, SameEntity
<1> QED BY <1>3, <1>4, <1>5 DEF new

LEMMA CutLeavesOthers ==
  ASSUME NEW pgs, PagesOK(pgs), NEW p, NEW i
  PROVE  /\ Copies(Cut(pgs, p, i)) \subseteq Copies(pgs)
         /\ \A j \in Ids(Cut(pgs, p, i)) \ {i} :
              j \in Ids(pgs) /\ Entity(Cut(pgs, p, i), j) = Entity(pgs, j)
<1> DEFINE new == Cut(pgs, p, i)
<1>1. \A q \in WikiPage :
        /\ q # p => new[q] = pgs[q]
        /\ q = p => new[q] = [j \in DOMAIN pgs[q] \ {i} |-> pgs[q][j]]
  BY DEF Cut, PagesOK
<1> HIDE DEF new
<1>2. \A q \in WikiPage : \A j \in DOMAIN new[q] : j \in DOMAIN pgs[q] /\ new[q][j] = pgs[q][j]
  BY <1>1
<1>3. Copies(new) \subseteq Copies(pgs)
  <2> SUFFICES ASSUME NEW x \in Copies(new) PROVE x \in Copies(pgs)
    OBVIOUS
  <2>1. PICK q \in WikiPage : \E j \in DOMAIN new[q] : x = <<j, new[q][j]>>
    BY CopiesOf
  <2> QED BY <1>2, <2>1, CopiesOf
<1>5. ASSUME NEW j \in Ids(new) \ {i} PROVE j \in Ids(pgs) /\ Entity(new, j) = Entity(pgs, j)
  <2>1. \A q \in WikiPage : j \in DOMAIN new[q] <=> j \in DOMAIN pgs[q]
    BY <1>1
  <2>2. \A q \in WikiPage : j \in DOMAIN new[q] => new[q][j] = pgs[q][j]
    BY <1>2
  <2> QED BY <2>1, <2>2, SameEntity
<1> QED BY <1>3, <1>5 DEF new

(* What a change of an entity's fields makes of it.                        *)
Grown(e, old, op, over) ==
  e.marks = Marked(old, op) /\ e.supersedes = old.supersedes \cup over

LEMMA MutatedGrows ==
  ASSUME NEW pgs, PagesOK(pgs), NEW i \in Ids(pgs), NEW op, NEW st, NEW over
  PROVE  LET new == Mutated(pgs, i, op, st, over)
         IN /\ Ids(new) = Ids(pgs)
            /\ Copies(new) \subseteq Copies(pgs) \cup {<<i, Entity(new, i)>>}
            /\ Grown(Entity(new, i), Entity(pgs, i), op, over)
            /\ \A j \in Ids(pgs) \ {i} : Entity(new, j) = Entity(pgs, j)
<1> DEFINE at == Located(pgs, i)
           e == [Entity(pgs, i) EXCEPT !.status = st, !.rev = @ + 1,
                   !.supersedes = @ \cup over, !.marks = Marked(Entity(pgs, i), op)]
           new == Put(pgs, at, i, e)
<1>1. Mutated(pgs, i, op, st, over) = new
  BY DEF Mutated
<1>2. at \in WikiPage /\ i \in DOMAIN pgs[at]
  BY LocatedFirst
<1>3. Grown(e, Entity(pgs, i), op, over)
  BY EntitiesAreTyped DEF Grown, EntryOK
<1> HIDE DEF e
<1>4. /\ \A q \in WikiPage : DOMAIN new[q] = DOMAIN pgs[q]
      /\ new[at][i] = e
  BY <1>2 DEF Put, PagesOK
<1>5. Ids(new) = Ids(pgs)
  BY <1>4 DEF Ids
<1>6. /\ Copies(new) \subseteq Copies(pgs) \cup {<<i, e>>}
      /\ \A j \in Ids(new) \ {i} : Entity(new, j) = Entity(pgs, j)
  BY PutLeavesOthers
<1> HIDE DEF new
<1>7. Entity(new, i) = e
  <2>1. Located(new, i) <= at /\ at <= Located(new, i)
    BY <1>2, <1>4, <1>5, LocatedFirst
  <2>2. Located(new, i) \in Nat /\ at \in Nat
    BY <1>2, <1>5, LocatedFirst, PagesAreNumbers
  <2>3. Located(new, i) = at
    BY <2>1, <2>2
  <2> QED BY <1>4, <2>3 DEF Entity
<1> QED BY <1>1, <1>3, <1>5, <1>6, <1>7


(* What an operation that is not refused makes of an entity it touches:    *)
(* one that stays as it is (it was settled, or moves), one that is new, or *)
(* one that bears its mark once more.                                      *)
Stands(s, t, op, j) ==
  /\ <<j, Entity(t.pages, j)>> \in Copies(s.pages)
  /\ (op.kind = "move" /\ j = op.id) \/ (Creates(op) /\ j[1] = op.title)

Arises(s, t, op, j) ==
  /\ j \notin Ids(s.pages) /\ Creates(op) /\ j[1] = op.title
  /\ <<op.op, j>> \in t.created
  /\ Entity(t.pages, j).marks = {<<op.op, 1>>}

Changes(s, t, op, j) ==
  /\ j \in Ids(s.pages) /\ op.kind \notin {"create", "move"}
  /\ j = op.id \/ (Links(op, j) /\ op.id \notin Entity(s.pages, j).supersedes)
  /\ \E over : Grown(Entity(t.pages, j), Entity(s.pages, j), op.op, over)
  /\ Links(op, j) => op.id \in Entity(t.pages, j).supersedes

Does(s, t, op, N) ==
  /\ t.touched = s.touched \cup N
  /\ op.kind # "create" => op.id \in Ids(s.pages) /\ Holds(s, op)
  /\ op.kind = "supersede" => op.by \in N
  /\ \A j \in N \cap Ids(t.pages) :
       Stands(s, t, op, j) \/ Arises(s, t, op, j) \/ Changes(s, t, op, j)
  /\ \A j \in Ids(t.pages) \ N : j \in Ids(s.pages) /\ Entity(t.pages, j) = Entity(s.pages, j)
  /\ Copies(t.pages) \subseteq Copies(s.pages)
                                 \cup {<<j, Entity(t.pages, j)>> : j \in N \cap Ids(t.pages)}

(* The ids that the intent already gives this operation, and the one that  *)
(* it asks for.                                                            *)
Forces(forced, op) ==
  /\ Creates(op) => op.by = AnyId \/ op.by[1] = op.title
  /\ \A f \in forced : f[1] = op.op => f = <<op.op, f[2]>> /\ f[2][1] = op.title
  /\ \A f, g \in forced : (f[1] = op.op /\ g[1] = op.op) => f = g

GivesId(s, t, op, forced, i) ==
  /\ t.created = s.created \cup {<<op.op, i>>}
  /\ i[1] = op.title
  /\ \A f \in forced : f[1] = op.op => f = <<op.op, i>>

Gives(s, t, op, forced) ==
  IF Creates(op) THEN \E i : GivesId(s, t, op, forced, i) ELSE t.created = s.created

LEMMA CopiesHaveIds ==
  ASSUME NEW pgs, NEW i, NEW e, <<i, e>> \in Copies(pgs)
  PROVE  i \in Ids(pgs)
<1>1. PICK p \in WikiPage : \E j \in DOMAIN pgs[p] : <<i, e>> = <<j, pgs[p][j]>>
  BY CopiesOf
<1> QED BY <1>1 DEF Ids

(* An entry that is settled, or new on its page.                           *)
ComesIn(s, t, op, forced, i) ==
  /\ GivesId(s, t, op, forced, i)
  /\ t.touched = s.touched \cup {i}
  /\ \/ t.pages = s.pages /\ i \in DOMAIN s.pages[op.page]
     \/ /\ i \notin Ids(s.pages)
        /\ Copies(t.pages) \subseteq Copies(s.pages) \cup {<<i, Entity(t.pages, i)>>}
        /\ i \in Ids(t.pages) => Entity(t.pages, i).marks = {<<op.op, 1>>}
  /\ \A j \in Ids(t.pages) \ {i} :
       j \in Ids(s.pages) /\ Entity(t.pages, j) = Entity(s.pages, j)

(* An entity whose fields change.                                          *)
Gains(s, t, i, mark, over) ==
  /\ PlanOK(t) /\ t.ok
  /\ t.touched = s.touched \cup {i} /\ t.created = s.created
  /\ Ids(t.pages) = Ids(s.pages)
  /\ Grown(Entity(t.pages, i), Entity(s.pages, i), mark, over)
  /\ \A j \in Ids(s.pages) \ {i} : Entity(t.pages, j) = Entity(s.pages, j)
  /\ Copies(t.pages) \subseteq Copies(s.pages) \cup {<<i, Entity(t.pages, i)>>}

LEMMA CreateDoes ==
  ASSUME NEW s, PlanOK(s), s.ok, NEW op, Creates(op), NEW forced, Forces(forced, op), NEW over,
         CreateEntry(s, op, forced, over).ok
  PROVE  \E i : ComesIn(s, CreateEntry(s, op, forced, over), op, forced, i)
<1> DEFINE again == {f \in forced : f[1] = op.op}
           i == IF again # {} THEN (CHOOSE f \in again : TRUE)[2]
                ELSE IF op.by # AnyId THEN op.by
                ELSE Minted(s.pages, op.title)
           made == [s EXCEPT !.created = @ \cup {<<op.op, i>>}, !.touched = @ \cup {i}]
           e == Made({<<op.op, 1>>}, over)
           to == Put(s.pages, op.page, i, e)
           t == CreateEntry(s, op, forced, over)
<1>1. t = IF i \in DOMAIN s.pages[op.page] THEN made
          ELSE IF i \in Ids(s.pages) THEN Refusal
          ELSE [made EXCEPT !.pages = to]
  BY DEF CreateEntry
<1>2. i[1] = op.title /\ \A f \in forced : f[1] = op.op => f = <<op.op, i>>
  <2>1. CASE again = {}
    BY <2>1 DEF Minted, Forces
  <2>2. CASE again # {}
    <3> DEFINE g == CHOOSE f \in again : TRUE
    <3>1. g \in again /\ i = g[2]
      BY <2>2
    <3> HIDE DEF g, i
    <3> QED BY <3>1 DEF Forces
  <2> QED BY <2>1, <2>2
<1> HIDE DEF i
<1>3. /\ made.created = s.created \cup {<<op.op, i>>} /\ made.touched = s.touched \cup {i}
      /\ made.pages = s.pages /\ DOMAIN made = DOMAIN s
  BY DEF PlanOK
<1>4. ~Refusal.ok /\ e.marks = {<<op.op, 1>>}
  BY DEF Refusal, Made
<1> HIDE DEF made, e, t
<1>5. CASE i \in DOMAIN s.pages[op.page]
  <2>1. t = made
    BY <1>1, <1>5 DEF t
  <2>2. GivesId(s, t, op, forced, i)
    BY <1>2, <1>3, <2>1 DEF GivesId
  <2>3. ComesIn(s, t, op, forced, i)
    BY <1>3, <1>5, <2>1, <2>2 DEF ComesIn
  <2> QED BY <2>3 DEF t
<1>6. CASE i \notin DOMAIN s.pages[op.page]
  <2>1. i \notin Ids(s.pages) /\ t = [made EXCEPT !.pages = to]
    BY <1>1, <1>4, <1>6 DEF t
  <2>2. t.pages = to /\ t.created = made.created /\ t.touched = made.touched
    BY <1>3, <2>1 DEF PlanOK
  <2>3. GivesId(s, t, op, forced, i)
    BY <1>2, <1>3, <2>2 DEF GivesId
  <2>4. PagesOK(s.pages)
    BY DEF PlanOK
  <2>5. /\ Copies(to) \subseteq Copies(s.pages) \cup {<<i, e>>}
        /\ i \in Ids(to) => Entity(to, i) = e
        /\ \A j \in Ids(to) \ {i} : j \in Ids(s.pages) /\ Entity(to, j) = Entity(s.pages, j)
    BY <2>1, <2>4, PutLeavesOthers
  <2> HIDE DEF to
  <2>6. <<i, e>> \in Copies(to) => Entity(to, i) = e
    BY <2>5, CopiesHaveIds
  <2>7. Copies(to) \subseteq Copies(s.pages) \cup {<<i, Entity(to, i)>>}
    BY <2>5, <2>6
  <2>8. ComesIn(s, t, op, forced, i)
    BY <1>3, <1>4, <2>1, <2>2, <2>3, <2>5, <2>7 DEF ComesIn
  <2> QED BY <2>8 DEF t
<1> QED BY <1>5, <1>6

(* An entity whose fields change: what Leaves makes of Mutated.            *)
LEMMA ChangeDoes ==
  ASSUME NEW s, PlanOK(s), s.ok, NEW i \in Ids(s.pages), NEW mark, NEW st, NEW over
  PROVE  Gains(s, Leaves(s, Mutated(s.pages, i, mark, st, over), {i}), i, mark, over)
<1> DEFINE pgs == Mutated(s.pages, i, mark, st, over)
           t == Leaves(s, pgs, {i})
<1>1. PagesOK(s.pages)
  BY DEF PlanOK
<1>2. /\ PagesOK(pgs) /\ Ids(pgs) = Ids(s.pages)
      /\ Copies(pgs) \subseteq Copies(s.pages) \cup {<<i, Entity(pgs, i)>>}
      /\ Grown(Entity(pgs, i), Entity(s.pages, i), mark, over)
      /\ \A j \in Ids(s.pages) \ {i} : Entity(pgs, j) = Entity(s.pages, j)
  BY <1>1, MutatedIsTyped, MutatedGrows
<1> HIDE DEF pgs
<1>4. PlanOK(t) /\ t.ok /\ t.pages = pgs
  BY <1>2, LeavesIsTyped
<1>5. t.touched = s.touched \cup {i} /\ t.created = s.created
  BY DEF PlanOK, Leaves
<1> HIDE DEF t
<1>6. Gains(s, t, i, mark, over)
  BY <1>2, <1>4, <1>5 DEF Gains
<1> QED BY <1>6 DEF t, pgs


(* A change of one entity's fields, as an operation of its own.            *)
LEMMA OneChangeDoes ==
  ASSUME NEW s, PlanOK(s), s.ok, NEW op, op.id \in Ids(s.pages), Holds(s, op),
         op.kind \in {"update", "archive", "add-relation"}, NEW st, NEW over,
         NEW t, t = Leaves(s, Mutated(s.pages, op.id, op.op, st, over), {op.id})
  PROVE  \E N : Does(s, t, op, N)
<1>1. /\ t.touched = s.touched \cup {op.id}
      /\ Ids(t.pages) = Ids(s.pages)
      /\ Grown(Entity(t.pages, op.id), Entity(s.pages, op.id), op.op, over)
      /\ \A j \in Ids(s.pages) \ {op.id} : Entity(t.pages, j) = Entity(s.pages, j)
      /\ Copies(t.pages) \subseteq Copies(s.pages) \cup {<<op.id, Entity(t.pages, op.id)>>}
  <2>1. Gains(s, t, op.id, op.op, over)
    BY ChangeDoes
  <2> QED BY <2>1 DEF Gains
<1>2. Changes(s, t, op, op.id)
  BY <1>1 DEF Changes, Links
<1>3. Does(s, t, op, {op.id})
  BY <1>1, <1>2 DEF Does
<1> QED BY <1>3

LEMMA SupersedeDoes ==
  ASSUME NEW s, PlanOK(s), s.ok, NEW op, op.id \in Ids(s.pages), Holds(s, op), op.kind = "supersede",
         NEW forced, NEW t, t = SupersedeEntry(s, op, forced), t.ok
  PROVE  (\E N : Does(s, t, op, N)) /\ t.created = s.created
<1> DEFINE m == Leaves(s, Mutated(s.pages, op.id, op.op, "deprecated", {}), {op.id})
           st == Entity(m.pages, op.by).status
           u == Leaves(m, Mutated(m.pages, op.by, op.op, st, {op.id}), {op.by})
<1>1. t = IF op.by \notin Ids(s.pages) THEN Refusal ELSE Supersedes(m, op.by, op.id, op)
  BY DEF SupersedeEntry
<1>2. /\ PlanOK(m) /\ m.ok /\ m.touched = s.touched \cup {op.id} /\ m.created = s.created
      /\ Ids(m.pages) = Ids(s.pages)
      /\ Grown(Entity(m.pages, op.id), Entity(s.pages, op.id), op.op, {})
      /\ \A j \in Ids(s.pages) \ {op.id} : Entity(m.pages, j) = Entity(s.pages, j)
      /\ Copies(m.pages) \subseteq Copies(s.pages) \cup {<<op.id, Entity(m.pages, op.id)>>}
  <2>1. Gains(s, m, op.id, op.op, {})
    BY ChangeDoes
  <2> QED BY <2>1 DEF Gains
<1> HIDE DEF m
<1>3. /\ op.by \in Ids(s.pages) /\ op.by # op.id
      /\ op.id \notin Entity(m.pages, op.by).supersedes /\ t = u
  BY <1>1 DEF Supersedes, WouldCycle, Refusal
<1>4. /\ u.touched = m.touched \cup {op.by} /\ u.created = m.created
      /\ Ids(u.pages) = Ids(m.pages)
      /\ Grown(Entity(u.pages, op.by), Entity(m.pages, op.by), op.op, {op.id})
      /\ \A j \in Ids(m.pages) \ {op.by} : Entity(u.pages, j) = Entity(m.pages, j)
      /\ Copies(u.pages) \subseteq Copies(m.pages) \cup {<<op.by, Entity(u.pages, op.by)>>}
  <2>1. Gains(m, u, op.by, op.op, {op.id})
    BY <1>2, <1>3, ChangeDoes
  <2> QED BY <2>1 DEF Gains
<1> HIDE DEF u
<1>5. Entity(t.pages, op.id) = Entity(m.pages, op.id) /\ Entity(m.pages, op.by) = Entity(s.pages, op.by)
  BY <1>2, <1>3, <1>4
<1>6. Changes(s, t, op, op.id)
  BY <1>2, <1>3, <1>5 DEF Changes, Links
<1>7. Changes(s, t, op, op.by)
  <2>1. Grown(Entity(t.pages, op.by), Entity(s.pages, op.by), op.op, {op.id})
    BY <1>3, <1>4, <1>5
  <2> QED BY <1>3, <1>5, <2>1 DEF Changes, Links, Grown
<1>8. Does(s, t, op, {op.id, op.by})
  <2>1. t.touched = s.touched \cup {op.id, op.by}
    BY <1>2, <1>3, <1>4
  <2>2. \A j \in Ids(t.pages) \ {op.id, op.by} :
          j \in Ids(s.pages) /\ Entity(t.pages, j) = Entity(s.pages, j)
    BY <1>2, <1>3, <1>4
  <2>3. Copies(t.pages) \subseteq Copies(s.pages)
            \cup {<<j, Entity(t.pages, j)>> : j \in {op.id, op.by} \cap Ids(t.pages)}
    BY <1>2, <1>3, <1>4, <1>5
  <2> QED BY <1>6, <1>7, <2>1, <2>2, <2>3 DEF Does
<1> QED BY <1>2, <1>3, <1>4, <1>8

LEMMA CreateOperationDoes ==
  ASSUME NEW s, PlanOK(s), s.ok, NEW op, op.kind = "create", NEW forced, Forces(forced, op),
         NEW t, t = CreateEntry(s, op, forced, {}), t.ok
  PROVE  (\E N : Does(s, t, op, N)) /\ Gives(s, t, op, forced)
<1>2. Creates(op)
  BY DEF Creates
<1>1. PICK i : ComesIn(s, t, op, forced, i)
  BY <1>2, CreateDoes
<1>3. i[1] = op.title /\ <<op.op, i>> \in t.created
  BY <1>1 DEF GivesId, ComesIn
<1>4. CASE t.pages = s.pages
  <2>1. i \in Ids(t.pages) => Stands(s, t, op, i)
    BY <1>2, <1>3, <1>4, LocatedFirst DEF Stands
  <2>2. Does(s, t, op, {i})
    BY <1>1, <1>4, <2>1 DEF Does, ComesIn
  <2> QED BY <1>1, <1>2, <2>2 DEF Gives, ComesIn
<1>5. CASE t.pages # s.pages
  <2>1. i \in Ids(t.pages) => Arises(s, t, op, i)
    BY <1>1, <1>2, <1>3, <1>5 DEF Arises, ComesIn
  <2>2. Copies(t.pages) \subseteq Copies(s.pages)
            \cup {<<j, Entity(t.pages, j)>> : j \in {i} \cap Ids(t.pages)}
    BY <1>1, <1>5, CopiesHaveIds DEF ComesIn
  <2>3. Does(s, t, op, {i})
    BY <1>1, <2>1, <2>2 DEF Does, ComesIn
  <2> QED BY <1>1, <1>2, <2>3 DEF Gives, ComesIn
<1> QED BY <1>4, <1>5

LEMMA ReplaceDoes ==
  ASSUME NEW s, PlanOK(s), s.ok, NEW op, op.id \in Ids(s.pages), Holds(s, op), op.kind = "replace",
         NEW forced, Forces(forced, op), NEW t, t = SupersedeEntry(s, op, forced), t.ok
  PROVE  (\E N : Does(s, t, op, N)) /\ Gives(s, t, op, forced)
<1> DEFINE m == Leaves(s, Mutated(s.pages, op.id, op.op, "deprecated", {}), {op.id})
<1>1. t = CreateEntry(m, op, forced, {op.id})
  BY DEF SupersedeEntry
<1>2. /\ PlanOK(m) /\ m.ok /\ m.touched = s.touched \cup {op.id} /\ m.created = s.created
      /\ Ids(m.pages) = Ids(s.pages)
      /\ Grown(Entity(m.pages, op.id), Entity(s.pages, op.id), op.op, {})
      /\ \A j \in Ids(s.pages) \ {op.id} : Entity(m.pages, j) = Entity(s.pages, j)
      /\ Copies(m.pages) \subseteq Copies(s.pages) \cup {<<op.id, Entity(m.pages, op.id)>>}
  <2>1. Gains(s, m, op.id, op.op, {})
    BY ChangeDoes
  <2> QED BY <2>1 DEF Gains
<1> HIDE DEF m
<1>3. PICK i : ComesIn(m, t, op, forced, i)
  BY <1>1, <1>2, CreateDoes DEF Creates
<1>4. Creates(op) /\ GivesId(s, t, op, forced, i)
  BY <1>2, <1>3 DEF Creates, GivesId, ComesIn
<1>5. i[1] = op.title /\ <<op.op, i>> \in t.created
  BY <1>4 DEF GivesId
<1>6. op.id \in Ids(t.pages) => Entity(t.pages, op.id) = Entity(m.pages, op.id)
  BY <1>2, <1>3 DEF ComesIn
<1>7. op.id \in Ids(t.pages) => Changes(s, t, op, op.id)
  BY <1>2, <1>6 DEF Changes, Links
<1>8. i \in Ids(t.pages) /\ i # op.id => Stands(s, t, op, i) \/ Arises(s, t, op, i)
  <2>1. CASE t.pages = m.pages
    <3>1. i \in Ids(t.pages) /\ i # op.id => i \in Ids(s.pages) /\ Entity(t.pages, i) = Entity(s.pages, i)
      BY <1>2, <2>1
    <3> QED BY <1>4, <1>5, <3>1, LocatedFirst DEF Stands
  <2>2. CASE t.pages # m.pages
    BY <1>2, <1>3, <1>4, <1>5, <2>2 DEF Arises, ComesIn
  <2> QED BY <2>1, <2>2
<1>9. Copies(t.pages) \subseteq Copies(s.pages)
          \cup {<<j, Entity(t.pages, j)>> : j \in {op.id, i} \cap Ids(t.pages)}
  <2> SUFFICES ASSUME NEW x \in Copies(t.pages)
               PROVE  x \in Copies(s.pages)
                        \cup {<<j, Entity(t.pages, j)>> : j \in {op.id, i} \cap Ids(t.pages)}
    OBVIOUS
  <2>1. x \in Copies(m.pages) \/ x = <<i, Entity(t.pages, i)>>
    BY <1>3 DEF ComesIn
  <2>2. x \in Copies(s.pages) \/ x = <<op.id, Entity(m.pages, op.id)>> \/ x = <<i, Entity(t.pages, i)>>
    BY <1>2, <2>1
  <2> QED BY <1>6, <2>2, CopiesHaveIds
<1>10. Does(s, t, op, {op.id, i})
  <2>1. t.touched = s.touched \cup {op.id, i}
    BY <1>2, <1>3 DEF ComesIn
  <2>2. \A j \in Ids(t.pages) \ {op.id, i} :
          j \in Ids(s.pages) /\ Entity(t.pages, j) = Entity(s.pages, j)
    BY <1>2, <1>3 DEF ComesIn
  <2> QED BY <1>7, <1>8, <1>9, <2>1, <2>2 DEF Does
<1> QED BY <1>4, <1>10 DEF Gives

LEMMA MoveDoes ==
  ASSUME NEW s, PlanOK(s), s.ok, NEW op, op.id \in Ids(s.pages), Holds(s, op), op.kind = "move",
         NEW t, t = MoveEntry(s, op), t.ok
  PROVE  (\E N : Does(s, t, op, N)) /\ t.created = s.created
<1> DEFINE gone == Cut(s.pages, Located(s.pages, op.id), op.id)
           e == Entity(s.pages, op.id)
           to == IF op.id \in DOMAIN gone[op.page] THEN gone ELSE Put(gone, op.page, op.id, e)
<1>1. PagesOK(s.pages) /\ <<op.id, e>> \in Copies(s.pages)
  BY LocatedFirst DEF PlanOK
<1>2. /\ PagesOK(gone) /\ Copies(gone) \subseteq Copies(s.pages)
      /\ \A j \in Ids(gone) \ {op.id} : j \in Ids(s.pages) /\ Entity(gone, j) = Entity(s.pages, j)
  BY <1>1, CutIsTyped, CutLeavesOthers
<1>3. t = Leaves(s, to, {op.id})
  BY DEF MoveEntry, Refusal
<1> HIDE DEF gone, e
<1>4. /\ Copies(to) \subseteq Copies(gone) \cup {<<op.id, e>>}
      /\ \A j \in Ids(to) \ {op.id} : j \in Ids(gone) /\ Entity(to, j) = Entity(gone, j)
  BY <1>2, PutLeavesOthers
<1>5. /\ Copies(to) \subseteq Copies(s.pages)
      /\ \A j \in Ids(to) \ {op.id} : j \in Ids(s.pages) /\ Entity(to, j) = Entity(s.pages, j)
  BY <1>1, <1>2, <1>4
<1> HIDE DEF to
<1>6. t.pages = to /\ t.touched = s.touched \cup {op.id} /\ t.created = s.created
  BY <1>3 DEF PlanOK, Leaves
<1>7. op.id \in Ids(to) => Stands(s, t, op, op.id)
  BY <1>5, <1>6, LocatedFirst DEF Stands
<1>8. Does(s, t, op, {op.id})
  BY <1>5, <1>6, <1>7 DEF Does
<1> QED BY <1>6, <1>8

(* What any operation does.                                                *)
LEMMA OperationDoes ==
  ASSUME NEW s, PlanOK(s), NEW op, op.kind \in Kinds, NEW forced, Forces(forced, op),
         NEW t, t = PlanOperation(s, op, forced), t.ok
  PROVE  s.ok /\ PlanOK(t) /\ (\E N : Does(s, t, op, N)) /\ Gives(s, t, op, forced)
<1>1. s.ok
  BY DEF PlanOperation
<1>2. PlanOK(t)
  BY OperationIsTyped
<1>3. CASE op.kind = "create"
  <2>1. t = CreateEntry(s, op, forced, {})
    BY <1>1, <1>3 DEF PlanOperation
  <2> QED BY <1>1, <1>2, <1>3, <2>1, CreateOperationDoes
<1>4. CASE op.kind # "create"
  <2>1. op.id \in Ids(s.pages) /\ Holds(s, op)
    BY <1>1, <1>4 DEF PlanOperation, Refusal
  <2>2. CASE op.kind \in {"update", "archive", "add-relation"}
    <3>1. \E st, over : t = Leaves(s, Mutated(s.pages, op.id, op.op, st, over), {op.id})
      <4>1. CASE op.kind = "update"
        <5>1. t = UpdateEntry(s, op)
          BY <1>1, <2>1, <4>1 DEF PlanOperation
        <5> QED BY <5>1 DEF UpdateEntry
      <4>2. CASE op.kind = "archive"
        <5>1. t = ArchiveEntry(s, op)
          BY <1>1, <2>1, <4>2 DEF PlanOperation
        <5> QED BY <5>1 DEF ArchiveEntry, Refusal
      <4>3. CASE op.kind = "add-relation"
        <5>1. t = AddRelation(s, op)
          BY <1>1, <2>1, <4>3 DEF PlanOperation
        <5> QED BY <5>1 DEF AddRelation, Supersedes, Refusal
      <4> QED BY <2>2, <4>1, <4>2, <4>3
    <3>2. PICK st, over : t = Leaves(s, Mutated(s.pages, op.id, op.op, st, over), {op.id})
      BY <3>1
    <3>3. \E N : Does(s, t, op, N)
      BY <1>1, <2>1, <2>2, <3>2, OneChangeDoes
    <3>4. t.created = s.created
      <4>1. Gains(s, t, op.id, op.op, over)
        BY <1>1, <2>1, <3>2, ChangeDoes
      <4> QED BY <4>1 DEF Gains
    <3> QED BY <1>1, <1>2, <2>2, <3>3, <3>4 DEF Gives, Creates
  <2>3. CASE op.kind = "supersede"
    <3>1. t = SupersedeEntry(s, op, forced)
      BY <1>1, <2>1, <2>3 DEF PlanOperation
    <3> QED BY <1>1, <1>2, <2>1, <2>3, <3>1, SupersedeDoes DEF Gives, Creates
  <2>4. CASE op.kind = "replace"
    <3>1. t = SupersedeEntry(s, op, forced)
      BY <1>1, <2>1, <2>4 DEF PlanOperation
    <3> QED BY <1>1, <1>2, <2>1, <2>4, <3>1, ReplaceDoes
  <2>5. CASE op.kind = "move"
    <3>1. t = MoveEntry(s, op)
      BY <1>1, <2>1, <2>5 DEF PlanOperation
    <3> QED BY <1>1, <1>2, <2>1, <2>5, <3>1, MoveDoes DEF Gives, Creates
  <2> QED BY <1>4, <2>2, <2>3, <2>4, <2>5 DEF Kinds
<1> QED BY <1>3, <1>4

----------------------------------------------------------------------------
(* What operations keep: the marks of a batch fit what it gave.            *)

LEMMA LabelsDiffer ==
  ASSUME NEW b \in Batch, NEW k \in DOMAIN Program[b], NEW c \in Batch, NEW n \in DOMAIN Program[c],
         Program[b][k].op = Program[c][n].op
  PROVE  b = c /\ k = n
BY WikiAssumption DEF WikiAssumption

LEMMA OperationsAre ==
  ASSUME NEW b \in Batch
  PROVE  /\ Len(Program[b]) \in Nat \ {0} /\ DOMAIN Program[b] = 1 .. Len(Program[b])
         /\ \A k \in DOMAIN Program[b] :
              /\ Program[b][k].kind \in Kinds /\ Program[b][k].op # "hand"
              /\ DOMAIN Program[b][k] = {"op", "kind", "title", "id", "page", "by", "base"}
BY WikiAssumption DEF WikiAssumption

(* A copy that fits still does when more ids are given, and it supersedes  *)
(* more.                                                                   *)
LEMMA MarkStillFits ==
  ASSUME NEW b, NEW k, NEW j, NEW e, NEW C, FitsMark(b, k, j, e, C),
         NEW f, e.supersedes \subseteq f.supersedes, NEW D, C \subseteq D
  PROVE  FitsMark(b, k, j, f, D)
BY DEF FitsMark, LinkedBefore

LEMMA StillFits ==
  ASSUME NEW b, NEW j, NEW e, NEW C, Fits(b, j, e, C), NEW D, C \subseteq D
  PROVE  Fits(b, j, e, D)
BY MarkStillFits DEF Fits

(* One more mark.                                                          *)
LEMMA GrownFits ==
  ASSUME NEW b \in Batch, NEW n \in DOMAIN Program[b], NEW j, NEW e, NEW C, Fits(b, j, e, C),
         NEW D, C \subseteq D, NEW f, NEW over, Grown(f, e, Program[b][n].op, over),
         Once(b, n) => ~Wears(e, Program[b][n].op), FitsMark(b, n, j, f, D)
  PROVE  Fits(b, j, f, D)
<1> DEFINE op == Program[b][n].op
           before == {m \in e.marks : m[1] = op}
<1>1. /\ f.marks = e.marks \cup {<<op, Cardinality(before) + 1>>}
      /\ e.supersedes \subseteq f.supersedes
  BY DEF Grown, Marked
<1>2. Once(b, n) => Cardinality(before) = 0
  <2>1. Once(b, n) => before = {}
    BY DEF Wears
  <2> QED BY <2>1, FS_EmptySet
<1> HIDE DEF before
<1> SUFFICES ASSUME NEW k \in DOMAIN Program[b], NEW m \in f.marks, m[1] = Program[b][k].op
             PROVE  (Once(b, k) => m[2] = 1) /\ FitsMark(b, k, j, f, D)
  BY DEF Fits
<1>3. CASE m \in e.marks
  <2>1. (Once(b, k) => m[2] = 1) /\ FitsMark(b, k, j, e, C)
    BY <1>3 DEF Fits
  <2> QED BY <1>1, <2>1, MarkStillFits
<1>4. CASE m = <<op, Cardinality(before) + 1>>
  <2>1. k = n
    BY <1>4, LabelsDiffer
  <2> QED BY <1>2, <1>4, <2>1
<1> QED BY <1>1, <1>3, <1>4

(* A copy that bears no mark of the batch.                                 *)
LEMMA BareFits ==
  ASSUME NEW b, NEW j, NEW e, Bare(b, e), NEW C
  PROVE  Fits(b, j, e, C)
BY DEF Bare, Fits, OpsOf

(* A plan under way, after n operations: ids are given to what they made,  *)
(* and operations that follow find what they are about as they expect it.  *)
Numbered(b, n, C, F) ==
  /\ \A c \in C : \E k \in 1 .. n :
       /\ Creates(Program[b][k])
       /\ c = <<Program[b][k].op, c[2]>> /\ c[2][1] = Program[b][k].title
  /\ \A c, d \in C \cup F : c[1] = d[1] => c = d
  /\ \A f \in F : \A k \in 1 .. n : f[1] = Program[b][k].op => f \in C

Ready(b, n, s) ==
  \A k \in DOMAIN Program[b] :
    LET j == Program[b][k].id
        e == Entity(s.pages, j)
    IN (k > n /\ Alone(b, k) /\ Program[b][k].kind # "create" /\ j \in Ids(s.pages)) =>
         /\ \A m \in 1 .. n : Links(Program[b][m], j) => Program[b][m].id \in e.supersedes
         /\ (j \in s.touched /\ IsPinned(b, k)) => ~Wears(e, Program[b][k].op)

Ahead(b, n, pgs) ==
  \A x \in Copies(pgs) : \A k \in DOMAIN Program[b] : k > n => ~Wears(x[2], Program[b][k].op)

Going(b, n, s, F) ==
  /\ Fit(b, s.pages, s.created \cup F)
  /\ Numbered(b, n, s.created, F)
  /\ Ready(b, n, s)
  /\ b \in Handled => Ahead(b, n, s.pages)

LEMMA ForcedIsGiven ==
  ASSUME NEW b \in Batch, NEW n \in DOMAIN Program[b], NEW F, Given(b, F),
         NEW op, op.op = Program[b][n].op, op.title = Program[b][n].title,
         op.kind = Program[b][n].kind, op.by = Program[b][n].by
  PROVE  /\ Forces(F, op)
         /\ ~Creates(Program[b][n]) => \A f \in F : f[1] # op.op
<1>1. ASSUME NEW f \in F, f[1] = op.op
      PROVE  f = <<op.op, f[2]>> /\ f[2][1] = op.title /\ Creates(Program[b][n])
  <2>1. PICK k \in DOMAIN Program[b] :
          /\ Creates(Program[b][k])
          /\ f = <<Program[b][k].op, f[2]>> /\ f[2][1] = Program[b][k].title
    BY DEF Given
  <2>2. f[1] = Program[b][k].op
    BY <2>1
  <2>3. k = n
    <3>1. Program[b][k].op = Program[b][n].op
      BY <1>1, <2>2
    <3> QED BY <3>1, LabelsDiffer
  <2> QED BY <2>1, <2>3
<1>2. Creates(op) => op.by = AnyId \/ op.by[1] = op.title
  BY WikiAssumption DEF WikiAssumption, Creates
<1> QED BY <1>1, <1>2 DEF Forces, Given

(* The ids given, after one more operation.                                *)
LEMMA NumbersGoOn ==
  ASSUME NEW b \in Batch, NEW n \in DOMAIN Program[b], NEW F, Given(b, F),
         NEW op, op.op = Program[b][n].op, op.title = Program[b][n].title,
         op.kind = Program[b][n].kind, op.by = Program[b][n].by,
         NEW s, NEW t, Gives(s, t, op, F), Numbered(b, n - 1, s.created, F)
  PROVE  Numbered(b, n, t.created, F) /\ s.created \subseteq t.created
<1>1. DOMAIN Program[b] = 1 .. Len(Program[b]) /\ Len(Program[b]) \in Nat /\ n \in Nat \ {0}
  BY OperationsAre
<1>2. Creates(op) <=> Creates(Program[b][n])
  BY DEF Creates
<1>3. 1 .. n = (1 .. n - 1) \cup {n} /\ 1 .. n \subseteq DOMAIN Program[b]
  BY <1>1
<1>4. CASE ~Creates(op)
  <2>1. t.created = s.created
    BY <1>4 DEF Gives
  <2>2. \A f \in F : f[1] # Program[b][n].op
    BY <1>2, <1>4, ForcedIsGiven
  <2> QED BY <1>3, <2>1, <2>2 DEF Numbered
<1>5. CASE Creates(op)
  <2>1. PICK i : /\ t.created = s.created \cup {<<op.op, i>>} /\ i[1] = op.title
                 /\ \A f \in F : f[1] = op.op => f = <<op.op, i>>
    BY <1>5 DEF Gives, GivesId
  <2> DEFINE new == <<op.op, i>>
  <2>2. new[1] = op.op /\ new = <<op.op, new[2]>> /\ new[2][1] = op.title
    BY <2>1
  <2>3. \A c \in s.created : c[1] # op.op
    <3> SUFFICES ASSUME NEW c \in s.created, c[1] = op.op PROVE FALSE
      OBVIOUS
    <3>1. PICK k \in 1 .. n - 1 : c = <<Program[b][k].op, c[2]>>
      BY DEF Numbered
    <3>2. c[1] = Program[b][k].op
      BY <3>1
    <3>3. k = n
      <4>1. Program[b][k].op = Program[b][n].op /\ k \in DOMAIN Program[b]
        BY <1>3, <3>2
      <4> QED BY <4>1, LabelsDiffer
    <3> QED BY <1>1, <3>3
  <2>4. \A f \in F : f[1] = op.op => f = new
    BY <2>1
  <2>5. t.created = s.created \cup {new}
    BY <2>1
  <2> HIDE DEF new
  <2>6. \A c \in t.created : \E k \in 1 .. n :
          /\ Creates(Program[b][k])
          /\ c = <<Program[b][k].op, c[2]>> /\ c[2][1] = Program[b][k].title
    <3> SUFFICES ASSUME NEW c \in t.created
                 PROVE  \E k \in 1 .. n :
                          /\ Creates(Program[b][k])
                          /\ c = <<Program[b][k].op, c[2]>> /\ c[2][1] = Program[b][k].title
      OBVIOUS
    <3>1. CASE c \in s.created
      BY <1>3, <3>1 DEF Numbered
    <3>2. CASE c = new
      <4>1. n \in 1 .. n
        BY <1>1
      <4> QED BY <1>2, <1>5, <2>2, <3>2, <4>1
    <3> QED BY <2>5, <3>1, <3>2
  <2>7. \A c, d \in t.created \cup F : c[1] = d[1] => c = d
    BY <2>2, <2>3, <2>4, <2>5 DEF Numbered
  <2>8. \A f \in F : \A k \in 1 .. n : f[1] = Program[b][k].op => f \in t.created
    BY <1>3, <2>4, <2>5 DEF Numbered
  <2> QED BY <2>5, <2>6, <2>7, <2>8 DEF Numbered
<1> QED BY <1>4, <1>5


(* A mark of one operation is none of another's.                           *)
LEMMA GrownWears ==
  ASSUME NEW e, NEW f, NEW op, NEW over, Grown(f, e, op, over), NEW other, other # op, ~Wears(e, other)
  PROVE  ~Wears(f, other)
<1>1. PICK c : f.marks = e.marks \cup {<<op, c>>}
  BY DEF Grown, Marked
<1>2. <<op, c>>[1] = op
  OBVIOUS
<1> QED BY <1>1, <1>2 DEF Wears

(* What is said of every copy is said of an entity.                        *)
LEMMA EntityFits ==
  ASSUME NEW b, NEW pgs, NEW C, Fit(b, pgs, C), NEW j \in Ids(pgs)
  PROVE  Fits(b, j, Entity(pgs, j), C)
<1>1. <<j, Entity(pgs, j)>> \in Copies(pgs)
  BY LocatedFirst
<1> DEFINE x == <<j, Entity(pgs, j)>>
<1>2. x[1] = j /\ x[2] = Entity(pgs, j)
  OBVIOUS
<1> HIDE DEF x
<1>3. Fits(b, x[1], x[2], C)
  BY <1>1 DEF Fit, x
<1> QED BY <1>2, <1>3

(* An entity that an operation changes does not bear the mark of a later   *)
(* one that is pinned to it.                                               *)
LEMMA PinnedComesUnmarked ==
  ASSUME NEW b \in Batch, batches[b] # Unwritten, Matches(b, batches[b]),
         NEW n \in DOMAIN Program[b], NEW op, op = batches[b][n],
         NEW F, NEW s, Going(b, n - 1, s, F),
         NEW k \in DOMAIN Program[b], k >= n, Alone(b, k), IsPinned(b, k),
         Program[b][k].kind # "create", NEW j, j = Program[b][k].id,
         NEW t, Changes(s, t, op, j), Holds(s, op)
  PROVE  ~Wears(Entity(s.pages, j), Program[b][k].op)
<1>1. /\ DOMAIN Program[b] = 1 .. Len(Program[b]) /\ Len(Program[b]) \in Nat
      /\ Len(batches[b]) = Len(Program[b])
  BY OperationsAre DEF Matches
<1>2. /\ op.id = Program[b][n].id /\ op.kind = Program[b][n].kind /\ op.by = Program[b][n].by
      /\ batches[b][k].base # Unpinned
  BY <1>1 DEF Matches, IsPinned
<1>3. j \in Ids(s.pages) /\ op.kind # "create"
  BY DEF Changes
<1>4. CASE j \in s.touched
  <2>1. k > n - 1
    BY <1>1
  <2> QED BY <1>3, <1>4, <2>1 DEF Going, Ready
<1>5. CASE j \notin s.touched /\ j = op.id
  <2>1. batches[b][n].base = batches[b][k].base
    <3>1. \A i, m \in 1 .. Len(batches[b]) :
            (Program[b][i].kind # "create" /\ Program[b][m].kind # "create"
               /\ Program[b][m].id = Program[b][i].id) => batches[b][m].base = batches[b][i].base
      BY DEF Matches
    <3>2. Program[b][n].id = Program[b][k].id /\ Program[b][n].kind # "create"
      BY <1>2, <1>3, <1>5
    <3> QED BY <1>1, <3>1, <3>2
  <2>2. op.base = Entity(s.pages, j)
    BY <1>2, <1>5, <2>1 DEF Holds
  <2>3. Bare(b, op.base)
    BY <1>1, <1>2, <2>1 DEF Matches
  <2> QED BY <2>2, <2>3 DEF Bare, Wears, OpsOf
<1>6. CASE Links(op, j) /\ op.id \notin Entity(s.pages, j).supersedes
  <2>1. Links(Program[b][n], j) /\ n \in 1 .. k - 1
    <3>1. k # n
      BY <1>2, <1>6 DEF Links
    <3> QED BY <1>1, <1>2, <1>6, <3>1 DEF Links
  <2>2. Fits(b, j, Entity(s.pages, j), s.created \cup F)
    BY <1>3, EntityFits DEF Going
  <2>3. Wears(Entity(s.pages, j), Program[b][k].op)
          => FitsMark(b, k, j, Entity(s.pages, j), s.created \cup F)
    BY <2>2 DEF Fits, Wears
  <2>4. Wears(Entity(s.pages, j), Program[b][k].op) => LinkedBefore(b, k, j, Entity(s.pages, j))
    BY <2>3 DEF FitsMark
  <2> QED BY <1>2, <1>6, <2>1, <2>4 DEF LinkedBefore
<1> QED BY <1>4, <1>5, <1>6 DEF Changes

LEMMA OperationKeeps ==
  ASSUME NEW b \in Batch, batches[b] # Unwritten, Matches(b, batches[b]),
         NEW n \in DOMAIN Program[b], NEW F, Given(b, F),
         NEW s, PlanOK(s), Going(b, n - 1, s, F),
         NEW t, t = PlanOperation(s, batches[b][n], F), t.ok
  PROVE  Going(b, n, t, F)
<1> DEFINE o == Program[b][n]
           op == batches[b][n]
<1>1. /\ DOMAIN Program[b] = 1 .. Len(Program[b]) /\ Len(Program[b]) \in Nat /\ n \in Nat \ {0}
      /\ Len(batches[b]) = Len(Program[b])
  BY OperationsAre DEF Matches
<1>2. /\ op.op = o.op /\ op.kind = o.kind /\ op.title = o.title
      /\ op.id = o.id /\ op.page = o.page /\ op.by = o.by /\ op.kind \in Kinds
  BY <1>1, OperationsAre DEF Matches
<1> HIDE DEF op
<1>3. op = batches[b][n]
  BY DEF op
<1>4. Forces(F, op)
  BY <1>2, ForcedIsGiven
<1>5. s.ok /\ PlanOK(t) /\ (\E N : Does(s, t, op, N)) /\ Gives(s, t, op, F)
  BY <1>2, <1>3, <1>4, OperationDoes
<1>6. PICK N : Does(s, t, op, N)
  BY <1>5
<1>7. Numbered(b, n, t.created, F) /\ s.created \subseteq t.created
  BY <1>2, <1>5, NumbersGoOn DEF Going
<1>8. ASSUME NEW k \in DOMAIN Program[b], k >= n, Alone(b, k), IsPinned(b, k),
             Program[b][k].kind # "create", Changes(s, t, op, Program[b][k].id)
      PROVE  ~Wears(Entity(s.pages, Program[b][k].id), Program[b][k].op)
  <2>1. Holds(s, op)
    BY <1>6, <1>8 DEF Does, Changes
  <2> QED BY <1>3, <1>8, <2>1, PinnedComesUnmarked
<1>9. ASSUME NEW j, Changes(s, t, op, j)
      PROVE  Fits(b, j, Entity(t.pages, j), t.created \cup F)
  <2> DEFINE e == Entity(s.pages, j)
             f == Entity(t.pages, j)
  <2>1. j \in Ids(s.pages) /\ <<j, e>> \in Copies(s.pages)
    BY <1>9, LocatedFirst DEF Changes
  <2>2. Fits(b, j, e, s.created \cup F)
    BY <2>1 DEF Going, Fit
  <2>3. PICK over : Grown(f, e, o.op, over)
    BY <1>2, <1>9 DEF Changes
  <2>4. Links(o, j) <=> Links(op, j)
    BY <1>2 DEF Links
  <2>5. Once(b, n) => ~Wears(e, o.op)
    <3>1. CASE b \in Handled
      <4>1. n > n - 1
        BY <1>1
      <4> QED BY <2>1, <3>1, <4>1 DEF Going, Ahead
    <3>2. CASE IsPinned(b, n) /\ Alone(b, n) /\ j = op.id
      <4>1. n >= n /\ o.kind # "create" /\ j = o.id
        BY <1>1, <1>2, <1>9, <3>2 DEF Changes
      <4> QED BY <1>8, <1>9, <3>2, <4>1
    <3>3. CASE Links(op, j) /\ op.id \notin e.supersedes
      <4>1. Wears(e, o.op) => FitsMark(b, n, j, e, s.created \cup F)
        BY <2>2 DEF Fits, Wears
      <4> QED BY <1>2, <2>4, <3>3, <4>1 DEF FitsMark
    <3> QED BY <1>9, <3>1, <3>2, <3>3 DEF Once, Changes
  <2>6. FitsMark(b, n, j, f, t.created \cup F)
    <3>1. Creates(o) => o.kind = "replace" /\ o.id = j
      BY <1>2, <1>9 DEF Creates, Changes, Links
    <3>2. Links(o, j) => o.id \in f.supersedes
      BY <1>2, <1>9, <2>4 DEF Changes
    <3>3. (o.kind # "create" /\ o.id = j /\ Alone(b, n)) => LinkedBefore(b, n, j, f)
      <4>1. e.supersedes \subseteq f.supersedes
        BY <2>3 DEF Grown
      <4>2. n > n - 1
        BY <1>1
      <4>3. (o.kind # "create" /\ o.id = j /\ Alone(b, n)) =>
              \A m \in 1 .. n - 1 : Links(Program[b][m], j) => Program[b][m].id \in e.supersedes
        BY <2>1, <4>2 DEF Going, Ready
      <4> QED BY <4>1, <4>3 DEF LinkedBefore
    <3> QED BY <3>1, <3>2, <3>3 DEF FitsMark
  <2> HIDE DEF e, f
  <2>7. s.created \cup F \subseteq t.created \cup F
    BY <1>7
  <2>8. Fits(b, j, f, t.created \cup F)
    BY <2>2, <2>3, <2>5, <2>6, <2>7, GrownFits
  <2> QED BY <2>8 DEF f
<1>10. ASSUME NEW j, Arises(s, t, op, j)
       PROVE  Fits(b, j, Entity(t.pages, j), t.created \cup F)
  <2> DEFINE f == Entity(t.pages, j)
  <2>1. f.marks = {<<o.op, 1>>} /\ <<o.op, j>> \in t.created /\ Creates(op) /\ j \notin Ids(s.pages)
    BY <1>2, <1>10 DEF Arises
  <2>2. op.kind # "create" => op.id # j
    BY <1>6, <2>1 DEF Does
  <2>3. FitsMark(b, n, j, f, t.created \cup F)
    BY <1>2, <2>1, <2>2 DEF FitsMark, Creates, Links
  <2>4. \A k \in DOMAIN Program[b] : o.op = Program[b][k].op => k = n
    BY LabelsDiffer
  <2> HIDE DEF f, o
  <2>5. Fits(b, j, f, t.created \cup F)
    BY <2>1, <2>3, <2>4 DEF Fits
  <2> QED BY <2>5 DEF f
<1>11. ASSUME NEW x \in Copies(s.pages) PROVE Fits(b, x[1], x[2], t.created \cup F)
  <2>1. Fits(b, x[1], x[2], s.created \cup F) /\ s.created \cup F \subseteq t.created \cup F
    BY <1>7, <1>11 DEF Going, Fit
  <2> QED BY <2>1, StillFits
<1>12. ASSUME NEW x \in Copies(t.pages)
       PROVE  \/ x \in Copies(s.pages)
              \/ \E j \in N \cap Ids(t.pages) :
                   x = <<j, Entity(t.pages, j)>> /\ (Arises(s, t, op, j) \/ Changes(s, t, op, j))
  <2>1. \/ x \in Copies(s.pages)
        \/ \E j \in N \cap Ids(t.pages) : x = <<j, Entity(t.pages, j)>>
    BY <1>6, <1>12 DEF Does
  <2>2. \A j \in N \cap Ids(t.pages) :
          <<j, Entity(t.pages, j)>> \in Copies(s.pages) \/ Arises(s, t, op, j) \/ Changes(s, t, op, j)
    BY <1>6 DEF Does, Stands
  <2> QED BY <2>1, <2>2
<1>13. Fit(b, t.pages, t.created \cup F)
  <2> SUFFICES ASSUME NEW x \in Copies(t.pages) PROVE Fits(b, x[1], x[2], t.created \cup F)
    BY DEF Fit
  <2>1. CASE x \in Copies(s.pages)
    BY <1>11, <2>1
  <2>2. ASSUME NEW j, x = <<j, Entity(t.pages, j)>>, Arises(s, t, op, j) \/ Changes(s, t, op, j)
        PROVE  Fits(b, x[1], x[2], t.created \cup F)
    <3>1. x[1] = j /\ x[2] = Entity(t.pages, j)
      BY <2>2
    <3> QED BY <1>9, <1>10, <2>2, <3>1
  <2> QED BY <1>12, <2>1, <2>2
<1>14. Ready(b, n, t)
  <2> SUFFICES ASSUME NEW k \in DOMAIN Program[b], NEW j, j = Program[b][k].id,
                      k > n, Alone(b, k), Program[b][k].kind # "create", j \in Ids(t.pages)
               PROVE  /\ \A m \in 1 .. n :
                           Links(Program[b][m], j) => Program[b][m].id \in Entity(t.pages, j).supersedes
                      /\ (j \in t.touched /\ IsPinned(b, k)) =>
                           ~Wears(Entity(t.pages, j), Program[b][k].op)
    BY DEF Ready
  <2> DEFINE e == Entity(s.pages, j)
             f == Entity(t.pages, j)
  <2>1. n \in 1 .. k - 1 /\ k > n - 1 /\ k >= n /\ k # n
        /\ \A m \in 1 .. n : m = n \/ m \in 1 .. n - 1
    BY <1>1
  <2>2. /\ op.kind = "move" => op.id # j
        /\ Creates(op) => op.title # j[1]
    BY <1>2, <2>1 DEF Alone, Creates
  <2>3. CASE j \notin N
    <3>1. j \in Ids(s.pages) /\ f = e /\ (j \in t.touched => j \in s.touched)
      BY <1>6, <2>3 DEF Does
    <3>2. ~Links(o, j)
      BY <1>2, <1>6, <2>3 DEF Does, Links
    <3>3. /\ \A m \in 1 .. n - 1 : Links(Program[b][m], j) => Program[b][m].id \in e.supersedes
          /\ (j \in s.touched /\ IsPinned(b, k)) => ~Wears(e, Program[b][k].op)
      BY <2>1, <3>1 DEF Going, Ready
    <3> QED BY <2>1, <3>1, <3>2, <3>3
  <2>4. CASE j \in N
    <3>1. Changes(s, t, op, j)
      BY <1>6, <2>2, <2>4 DEF Does, Stands, Arises
    <3>2. PICK over : Grown(f, e, o.op, over)
      BY <1>2, <3>1 DEF Changes
    <3>3. j \in Ids(s.pages) /\ (Links(o, j) => o.id \in f.supersedes)
      BY <1>2, <3>1 DEF Changes, Links
    <3>4. \A m \in 1 .. n - 1 : Links(Program[b][m], j) => Program[b][m].id \in e.supersedes
      BY <2>1, <3>3 DEF Going, Ready
    <3>5. \A m \in 1 .. n : Links(Program[b][m], j) => Program[b][m].id \in f.supersedes
      BY <2>1, <3>2, <3>3, <3>4 DEF Grown
    <3>6. IsPinned(b, k) => ~Wears(f, Program[b][k].op)
      <4>1. IsPinned(b, k) => ~Wears(e, Program[b][k].op)
        BY <1>8, <2>1, <3>1
      <4>2. o.op # Program[b][k].op
        BY <2>1, LabelsDiffer
      <4> QED BY <3>2, <4>1, <4>2, GrownWears
    <3> QED BY <3>5, <3>6
  <2> QED BY <2>3, <2>4
<1>15. ASSUME b \in Handled PROVE Ahead(b, n, t.pages)
  <2> SUFFICES ASSUME NEW x \in Copies(t.pages), NEW k \in DOMAIN Program[b], k > n
               PROVE  ~Wears(x[2], Program[b][k].op)
    BY DEF Ahead
  <2>1. k > n - 1 /\ k # n
    BY <1>1
  <2>2. \A y \in Copies(s.pages) : ~Wears(y[2], Program[b][k].op)
    BY <1>15, <2>1 DEF Going, Ahead
  <2>3. o.op # Program[b][k].op
    BY <2>1, LabelsDiffer
  <2>4. ASSUME NEW j, x = <<j, Entity(t.pages, j)>>, Changes(s, t, op, j)
        PROVE  ~Wears(x[2], Program[b][k].op)
    <3>1. x[2] = Entity(t.pages, j) /\ j \in Ids(s.pages)
      BY <2>4 DEF Changes
    <3>2. PICK over : Grown(x[2], Entity(s.pages, j), o.op, over)
      BY <1>2, <2>4, <3>1 DEF Changes
    <3>3. ~Wears(Entity(s.pages, j), Program[b][k].op)
      <4>1. <<j, Entity(s.pages, j)>> \in Copies(s.pages)
        BY <3>1, LocatedFirst
      <4>2. ~Wears(<<j, Entity(s.pages, j)>>[2], Program[b][k].op)
        BY <2>2, <4>1
      <4> QED BY <4>2
    <3> QED BY <2>3, <3>2, <3>3, GrownWears
  <2>5. ASSUME NEW j, x = <<j, Entity(t.pages, j)>>, Arises(s, t, op, j)
        PROVE  ~Wears(x[2], Program[b][k].op)
    <3>1. x[2].marks = {<<o.op, 1>>}
      BY <1>2, <2>5 DEF Arises
    <3> QED BY <2>3, <3>1 DEF Wears
  <2> QED BY <1>12, <2>2, <2>4, <2>5
<1> QED BY <1>7, <1>13, <1>14, <1>15 DEF Going

----------------------------------------------------------------------------
(* A batch as a whole: what is planned fits, for it and for the others.    *)

(* Which of two sets of ids was given tells nothing of a batch that two    *)
(* processes applied.                                                      *)
LEMMA DoubledFits ==
  ASSUME NEW b, b \in doubled, NEW j, NEW e, NEW C, Fits(b, j, e, C), NEW D
  PROVE  Fits(b, j, e, D)
BY DEF Fits, FitsMark

(* The pages that a batch is planned on, and the plan.                     *)
LEMMA PlannedFits ==
  ASSUME NEW b \in Batch, batches[b] # Unwritten, Matches(b, batches[b]), BatchOK(batches[b]),
         NEW pgs, PagesOK(pgs), NEW F, Given(b, F), Fit(b, pgs, F),
         b \in Handled => Untouched(b, pgs),
         NEW plan, plan = PlannedOn(pgs, batches[b], F), plan.ok
  PROVE  Given(b, plan.created) /\ F \subseteq plan.created /\ Fit(b, plan.pages, plan.created)
<1> DEFINE L == Len(batches[b])
<1>1. PICK after : PlansOf(after, pgs, batches[b], F)
  BY PlansFollow
<1>2. /\ L \in Nat /\ L = Len(Program[b]) /\ DOMAIN Program[b] = 1 .. L
  BY OperationsAre DEF Matches
<1> DEFINE bad == {n \in 0 .. L : after[n].ok /\ ~Going(b, n, after[n], F)}
<1>3. Going(b, 0, after[0], F)
  <2>1. /\ after[0].pages = pgs /\ after[0].touched = {} /\ after[0].created = {}
    BY <1>1 DEF PlansOf
  <2>2. after[0].created \cup F = F
    BY <2>1
  <2>3. Fit(b, after[0].pages, after[0].created \cup F)
    BY <2>1, <2>2
  <2>4. Numbered(b, 0, after[0].created, F)
    BY <2>1, <2>2 DEF Numbered, Given
  <2>5. Ready(b, 0, after[0])
    BY <2>1 DEF Ready
  <2>6. b \in Handled => Ahead(b, 0, after[0].pages)
    BY <2>1 DEF Ahead, Untouched, Bare, Wears, OpsOf
  <2> QED BY <2>3, <2>4, <2>5, <2>6 DEF Going
<1>4. bad = {}
  <2> SUFFICES ASSUME bad # {} PROVE FALSE
    OBVIOUS
  <2>1. PICK n \in bad : \A k \in bad : n <= k
    <3>1. bad \in SUBSET Nat
      BY <1>2
    <3> QED BY <3>1, LeastNatural
  <2>2. n # 0
    BY <1>3, <2>1
  <2>3. n \in 1 .. L /\ n - 1 \in 0 .. L /\ ~(n <= n - 1)
    BY <1>2, <2>1, <2>2
  <2> DEFINE s == after[n - 1]
             t == after[n]
             op == batches[b][n]
  <2>4. PlanOK(s) /\ t = PlanOperation(s, op, F) /\ t.ok
    BY <1>1, <2>1, <2>3 DEF PlansOf
  <2>5. s.ok
    BY <2>4 DEF PlanOperation
  <2>6. Going(b, n - 1, s, F)
    BY <2>1, <2>3, <2>5
  <2>7. Going(b, n, t, F)
    BY <1>2, <2>3, <2>4, <2>6, OperationKeeps
  <2> QED BY <2>1, <2>7
<1>5. Going(b, L, plan, F)
  <2>1. plan = after[L] /\ L \in 0 .. L
    BY <1>1, <1>2 DEF PlansOf
  <2> QED BY <1>4, <2>1
<1>6. Numbered(b, L, plan.created, F) /\ Fit(b, plan.pages, plan.created \cup F)
  BY <1>5 DEF Going
<1>7. F \subseteq plan.created
  <2> SUFFICES ASSUME NEW f \in F PROVE f \in plan.created
    OBVIOUS
  <2>1. PICK k \in DOMAIN Program[b] : f = <<Program[b][k].op, f[2]>>
    BY DEF Given
  <2>2. f[1] = Program[b][k].op
    BY <2>1
  <2> QED BY <1>2, <1>6, <2>2 DEF Numbered
<1>8. plan.created \cup F = plan.created
  BY <1>7
<1>9. Given(b, plan.created)
  BY <1>2, <1>6 DEF Numbered, Given
<1> QED BY <1>6, <1>7, <1>8, <1>9

(* A copy in a plan of b, compared to the pages it was planned on: it is   *)
(* of b's making, or one of theirs that b may have marked.                 *)
Comes(b, pgs, x) ==
  \/ \A m \in x[2].marks : m[1] \in OpsOf(b)
  \/ \E y \in Copies(pgs) :
       /\ y[1] = x[1] /\ y[2].supersedes \subseteq x[2].supersedes
       /\ \A m \in x[2].marks : m \in y[2].marks \/ m[1] \in OpsOf(b)

LEMMA ComesFrom ==
  ASSUME NEW b \in Batch, NEW pgs, NEW n \in DOMAIN Program[b],
         NEW s, \A x \in Copies(s.pages) : Comes(b, pgs, x),
         NEW op, op.op = Program[b][n].op,
         NEW t, NEW N, Does(s, t, op, N)
  PROVE  \A x \in Copies(t.pages) : Comes(b, pgs, x)
<1>1. op.op \in OpsOf(b)
  BY DEF OpsOf
<1>2. ASSUME NEW j, Changes(s, t, op, j), NEW x, x = <<j, Entity(t.pages, j)>>
      PROVE  Comes(b, pgs, x)
  <2> DEFINE z == <<j, Entity(s.pages, j)>>
  <2>1. z \in Copies(s.pages) /\ z[1] = x[1] /\ z[2] = Entity(s.pages, j) /\ x[2] = Entity(t.pages, j)
    BY <1>2, LocatedFirst DEF Changes
  <2> HIDE DEF z
  <2>2. PICK over : Grown(x[2], z[2], op.op, over)
    BY <1>2, <2>1 DEF Changes
  <2>3. /\ z[2].supersedes \subseteq x[2].supersedes
        /\ \A m \in x[2].marks : m \in z[2].marks \/ m[1] \in OpsOf(b)
    <3>1. PICK c : x[2].marks = z[2].marks \cup {<<op.op, c>>}
      BY <2>2 DEF Grown, Marked
    <3>2. <<op.op, c>>[1] = op.op
      OBVIOUS
    <3> QED BY <1>1, <2>2, <3>1, <3>2 DEF Grown
  <2>4. Comes(b, pgs, z)
    BY <2>1
  <2>5. CASE \A m \in z[2].marks : m[1] \in OpsOf(b)
    BY <2>3, <2>5 DEF Comes
  <2>6. ASSUME NEW y \in Copies(pgs), y[1] = z[1], y[2].supersedes \subseteq z[2].supersedes,
               \A m \in z[2].marks : m \in y[2].marks \/ m[1] \in OpsOf(b)
        PROVE  Comes(b, pgs, x)
    <3>1. y[1] = x[1] /\ y[2].supersedes \subseteq x[2].supersedes
      BY <2>1, <2>3, <2>6
    <3>2. \A m \in x[2].marks : m \in y[2].marks \/ m[1] \in OpsOf(b)
      BY <2>3, <2>6
    <3> QED BY <3>1, <3>2 DEF Comes
  <2> QED BY <2>4, <2>5, <2>6 DEF Comes
<1>3. ASSUME NEW j, Arises(s, t, op, j), NEW x, x = <<j, Entity(t.pages, j)>>
      PROVE  Comes(b, pgs, x)
  <2>1. x[2].marks = {<<op.op, 1>>}
    BY <1>3 DEF Arises
  <2> QED BY <1>1, <2>1 DEF Comes
<1>4. ASSUME NEW x \in Copies(t.pages) PROVE Comes(b, pgs, x)
  <2>1. \/ x \in Copies(s.pages)
        \/ \E j \in N \cap Ids(t.pages) : x = <<j, Entity(t.pages, j)>>
    BY <1>4 DEF Does
  <2>2. \A j \in N \cap Ids(t.pages) :
          <<j, Entity(t.pages, j)>> \in Copies(s.pages) \/ Arises(s, t, op, j) \/ Changes(s, t, op, j)
    BY DEF Does, Stands
  <2> QED BY <1>2, <1>3, <2>1, <2>2
<1> QED BY <1>4

LEMMA PlannedComes ==
  ASSUME NEW b \in Batch, Matches(b, batches[b]), BatchOK(batches[b]),
         NEW pgs, PagesOK(pgs), NEW F, Given(b, F),
         NEW plan, plan = PlannedOn(pgs, batches[b], F), plan.ok
  PROVE  \A x \in Copies(plan.pages) : Comes(b, pgs, x)
<1> DEFINE L == Len(batches[b])
           Good(s) == \A x \in Copies(s.pages) : Comes(b, pgs, x)
<1>1. PICK after : PlansOf(after, pgs, batches[b], F)
  BY PlansFollow
<1>2. /\ L \in Nat /\ L = Len(Program[b]) /\ DOMAIN Program[b] = 1 .. L
  BY OperationsAre DEF Matches
<1> DEFINE bad == {n \in 0 .. L : after[n].ok /\ ~Good(after[n])}
<1>3. Good(after[0])
  <2>1. after[0].pages = pgs
    BY <1>1 DEF PlansOf
  <2> QED BY <2>1 DEF Comes
<1>4. bad = {}
  <2> SUFFICES ASSUME bad # {} PROVE FALSE
    OBVIOUS
  <2>1. PICK n \in bad : \A k \in bad : n <= k
    <3>1. bad \in SUBSET Nat
      BY <1>2
    <3> QED BY <3>1, LeastNatural
  <2>2. n # 0
    BY <1>3, <2>1
  <2>3. n \in 1 .. L /\ n - 1 \in 0 .. L /\ ~(n <= n - 1)
    BY <1>2, <2>1, <2>2
  <2> DEFINE s == after[n - 1]
             t == after[n]
             op == batches[b][n]
  <2>4. PlanOK(s) /\ t = PlanOperation(s, op, F) /\ t.ok
    BY <1>1, <2>1, <2>3 DEF PlansOf
  <2>5. s.ok
    BY <2>4 DEF PlanOperation
  <2>6. Good(s)
    BY <2>1, <2>3, <2>5
  <2>7. /\ op.op = Program[b][n].op /\ op.title = Program[b][n].title /\ op.kind \in Kinds
        /\ op.kind = Program[b][n].kind /\ op.by = Program[b][n].by
    BY <1>2, <2>3, OperationsAre DEF Matches
  <2> HIDE DEF s, t, op
  <2>8. Forces(F, op)
    BY <1>2, <2>3, <2>7, ForcedIsGiven
  <2>9. PICK N : Does(s, t, op, N)
    BY <2>4, <2>7, <2>8, OperationDoes
  <2>10. Good(t)
    BY <1>2, <2>3, <2>6, <2>7, <2>9, ComesFrom
  <2> QED BY <2>1, <2>10 DEF t
<1>5. Good(plan)
  <2>1. plan = after[L] /\ L \in 0 .. L
    BY <1>1, <1>2 DEF PlansOf
  <2> QED BY <1>4, <2>1
<1> QED BY <1>5

(* So the marks of another batch are as they were.                         *)
LEMMA OthersFit ==
  ASSUME NEW b \in Batch, NEW c \in Batch, b # c, NEW pgs, NEW new,
         \A x \in Copies(new) : Comes(b, pgs, x)
  PROVE  /\ \A C : Fit(c, pgs, C) => Fit(c, new, C)
         /\ Untouched(c, pgs) => Untouched(c, new)
<1>1. OpsOf(b) \cap OpsOf(c) = {}
  BY LabelsDiffer DEF OpsOf
<1>2. ASSUME NEW C, Fit(c, pgs, C), NEW x \in Copies(new) PROVE Fits(c, x[1], x[2], C)
  <2>1. CASE \A m \in x[2].marks : m[1] \in OpsOf(b)
    <3>1. Bare(c, x[2])
      BY <1>1, <2>1 DEF Bare
    <3> QED BY <3>1, BareFits
  <2>2. ASSUME NEW y \in Copies(pgs), y[1] = x[1], y[2].supersedes \subseteq x[2].supersedes,
               \A m \in x[2].marks : m \in y[2].marks \/ m[1] \in OpsOf(b)
        PROVE  Fits(c, x[1], x[2], C)
    <3>1. Fits(c, x[1], y[2], C)
      BY <1>2, <2>2 DEF Fit
    <3> SUFFICES ASSUME NEW k \in DOMAIN Program[c], NEW m \in x[2].marks, m[1] = Program[c][k].op
                 PROVE  (Once(c, k) => m[2] = 1) /\ FitsMark(c, k, x[1], x[2], C)
      BY DEF Fits
    <3>2. m \in y[2].marks
      BY <1>1, <2>2 DEF OpsOf
    <3>3. (Once(c, k) => m[2] = 1) /\ FitsMark(c, k, x[1], y[2], C)
      BY <3>1, <3>2 DEF Fits
    <3> QED BY <2>2, <3>3, MarkStillFits
  <2> QED BY <2>1, <2>2 DEF Comes
<1>3. Untouched(c, pgs) => Untouched(c, new)
  BY <1>1 DEF Comes, Untouched, Bare
<1> QED BY <1>2, <1>3 DEF Fit

----------------------------------------------------------------------------
(* What stays true while the log grows.                                    *)

(* A copy that fits goes on to, while no new process applies its batch and *)
(* ids are only added.                                                     *)
LEMMA FitsLater ==
  ASSUME NEW b, NEW j, NEW e, NEW C, Fits(b, j, e, C),
         batches'[b] = batches[b], doubled \subseteq doubled', NEW D, C \subseteq D \/ b \in doubled'
  PROVE  Fits(b, j, e, D)'
BY DEF Fits, FitsMark, Once, IsPinned, LinkedBefore

LEMMA FitLater ==
  ASSUME NEW b, NEW pgs, NEW C, Fit(b, pgs, C),
         batches'[b] = batches[b], doubled \subseteq doubled', NEW D, C \subseteq D \/ b \in doubled'
  PROVE  Fit(b, pgs, D)'
BY FitsLater DEF Fit

LEMMA UntouchedFitsLater ==
  ASSUME NEW b, NEW pgs, Untouched(b, pgs), NEW D
  PROVE  Fit(b, pgs, D)'
BY DEF Fit, Untouched, Bare, Fits, OpsOf

(* What the log of a batch may become.                                     *)
LogGrows(b) ==
  /\ log[b].created \subseteq log'[b].created \/ b \in doubled'
  /\ log'[b].phase = "none" => log[b].phase = "none"

LEMMA WikiStillFits ==
  ASSUME NEW b, WikiFits(b), UNCHANGED wiki, batches'[b] = batches[b], doubled \subseteq doubled',
         LogGrows(b)
  PROVE  WikiFits(b)'
<1>1. Fit(b, wiki, log[b].created)'
  BY FitLater DEF WikiFits, LogGrows
<1> QED BY <1>1 DEF WikiFits, LogGrows, Untouched, Copies, Bare

LEMMA HandStillFits ==
  ASSUME NEW b, NEW x, HandFits(x, b), batches'[b] = batches[b], doubled \subseteq doubled',
         LogGrows(b), NEW y, SameHand(y, x)
  PROVE  HandFits(y, b)'
<1>1. PICK pgs : pgs = InHand(x)
  OBVIOUS
<1>2. PICK own \in BOOLEAN : own <=> Own(x, b)
  BY DEF Own
<1>3. PICK C : C = IF own THEN x.created ELSE log[b].created
  OBVIOUS
<1>4. PICK D : D = IF own THEN x.created ELSE log'[b].created
  OBVIOUS
<1>5. InHand(y) = pgs /\ (Own(y, b) <=> own) /\ y.created = x.created
  BY <1>1, <1>2 DEF SameHand, Own
<1>6. Fit(b, pgs, C) /\ ((~own /\ log[b].phase = "none") => Untouched(b, pgs))
  BY <1>1, <1>2, <1>3 DEF HandFits
<1>7. C \subseteq D \/ b \in doubled'
  BY <1>3, <1>4 DEF LogGrows
<1>8. Fit(b, pgs, D)'
  BY <1>6, <1>7, FitLater
<1>9. (~own /\ log'[b].phase = "none") => Untouched(b, pgs)'
  BY <1>6 DEF LogGrows, Untouched, Copies, Bare
<1>10. D = (IF Own(y, b) THEN y.created ELSE log[b].created)'
  BY <1>4, <1>5
<1> QED BY <1>5, <1>8, <1>9, <1>10 DEF HandFits

LEMMA PagesStillFit ==
  ASSUME NEW b, NEW w, PagesFit(w, b), batches'[b] = batches[b], doubled \subseteq doubled',
         LogGrows(b),
         writer'[w] # Out => writer[w] # Out /\ SameHand(writer'[w], writer[w])
  PROVE  PagesFit(w, b)'
<1> SUFFICES ASSUME writer'[w] # Out PROVE HandFits(writer[w], b)'
  BY DEF PagesFit
<1>1. PICK x, y : x = writer[w] /\ y = writer'[w]
  OBVIOUS
<1>2. HandFits(x, b) /\ SameHand(y, x)
  BY <1>1 DEF PagesFit
<1>3. HandFits(y, b)'
  BY <1>2, HandStillFits
<1> QED BY <1>1, <1>3

LEMMA SameHands == \A x : SameHand(x, x)
BY DEF SameHand

(* A process that has read nothing.                                        *)
LEMMA NothingFits ==
  ASSUME NEW b, NEW C
  PROVE  Fit(b, Blank, C) /\ Untouched(b, Blank)
<1>1. Copies(Blank) = {}
  BY DEF Copies, Blank
<1> QED BY <1>1 DEF Fit, Untouched

LEMMA BlankFits ==
  ASSUME NEW b, NEW y, y.at = "read", y.was = Blank
  PROVE  HandFits(y, b)'
<1>1. InHand(y) = Blank /\ ~Own(y, b)
  BY DEF InHand, Own
<1>2. Blank' = Blank
  BY DEF Blank, WikiPage
<1>3. \A C : Fit(b, Blank, C) /\ Untouched(b, Blank)
  BY NothingFits
<1>4. Copies(Blank) = {}
  BY DEF Copies, Blank
<1>5. \A C : Fit(b, Blank, C)'
  BY <1>4 DEF Fit, Copies, Blank
<1>6. Untouched(b, Blank)'
  BY <1>4 DEF Untouched, Copies, Blank
<1> QED BY <1>1, <1>2, <1>5, <1>6 DEF HandFits

LEMMA CopiesStay ==
  ASSUME CopiesInv, NEW b \in Batch, UNCHANGED wiki, batches'[b] = batches[b],
         doubled \subseteq doubled', LogGrows(b),
         \A w \in Writer : writer'[w] # Out => writer[w] # Out /\ SameHand(writer'[w], writer[w])
  PROVE  WikiFits(b)' /\ \A w \in Writer : PagesFit(w, b)'
BY WikiStillFits, PagesStillFit DEF CopiesInv

(* A batch is written.                                                     *)
LEMMA PinMatches ==
  ASSUME NEW b \in Batch, Untouched(b, wiki), NEW pinned
  PROVE  Matches(b, Pin(b, pinned)) /\ Pin(b, pinned) # Unwritten
<1> DEFINE o(k) == Program[b][k]
           n == Len(Program[b])
           base(k) == IF pinned /\ o(k).kind # "create" /\ o(k).id \in Ids(wiki)
                        THEN Entity(wiki, o(k).id) ELSE Unpinned
           ops == Pin(b, pinned)
<1>1. /\ n \in Nat \ {0} /\ DOMAIN Program[b] = 1 .. n
      /\ \A k \in 1 .. n :
           DOMAIN o(k) = {"op", "kind", "title", "id", "page", "by", "base"}
  BY OperationsAre
<1>2. ops = [k \in 1 .. n |-> [o(k) EXCEPT !.base = base(k)]]
  BY <1>1 DEF Pin
<1>3. \A k \in 1 .. n : ops[k] = [o(k) EXCEPT !.base = base(k)]
  BY <1>2
<1>4. Len(ops) = n /\ DOMAIN ops = 1 .. n
  BY <1>1, <1>2
<1> HIDE DEF ops
<1>5. ASSUME NEW k \in 1 .. n
      PROVE  /\ ops[k].op = o(k).op /\ ops[k].kind = o(k).kind /\ ops[k].title = o(k).title
             /\ ops[k].id = o(k).id /\ ops[k].page = o(k).page /\ ops[k].by = o(k).by
             /\ ops[k].base = base(k)
  <2> HIDE DEF base
  <2> QED BY <1>1, <1>3
<1>6. ASSUME NEW k \in 1 .. n, base(k) # Unpinned PROVE Bare(b, base(k))
  <2> DEFINE x == <<o(k).id, Entity(wiki, o(k).id)>>
  <2>1. o(k).id \in Ids(wiki) /\ base(k) = Entity(wiki, o(k).id)
    BY <1>6
  <2>2. x \in Copies(wiki) /\ x[2] = Entity(wiki, o(k).id)
    BY <2>1, LocatedFirst
  <2> HIDE DEF x
  <2>3. Bare(b, x[2])
    BY <2>2 DEF Untouched
  <2> QED BY <2>1, <2>2, <2>3
<1>7. \A k, m \in 1 .. n : (o(k).kind # "create" /\ o(m).kind # "create" /\ o(m).id = o(k).id)
                              => base(m) = base(k)
  OBVIOUS
<1>8. \A k \in 1 .. n : o(k).kind = "create" => base(k) = Unpinned
  OBVIOUS
<1> HIDE DEF base
<1>9. Matches(b, ops)
  BY <1>4, <1>5, <1>6, <1>7, <1>8 DEF Matches
<1>10. ops # Unwritten
  <2>1. 1 \in DOMAIN ops /\ DOMAIN Unwritten = 1 .. 0
    BY <1>1, <1>4 DEF Unwritten
  <2> QED BY <2>1
<1> QED BY <1>9, <1>10 DEF ops

----------------------------------------------------------------------------
(* The steps.                                                              *)

LEMMA HistoryBegins == WikiInit => HistoryInv
<1> SUFFICES ASSUME WikiInit PROVE HistoryInv
  OBVIOUS
<1>1. \A w \in Writer : writer[w] = Out
  BY DEF WikiInit
<1>2. ASSUME NEW b \in Batch PROVE WikiFits(b) /\ \A w \in Writer : PagesFit(w, b)
  <2>1. Untouched(b, wiki)
    <3> SUFFICES ASSUME NEW x \in Copies(wiki) PROVE Bare(b, x[2])
      BY DEF Untouched
    <3>1. PICK p \in WikiPage : \E j \in DOMAIN wiki[p] : x = <<j, wiki[p][j]>>
      BY CopiesOf
    <3>2. x[2] = Made({}, {})
      BY <3>1 DEF WikiInit
    <3> QED BY <3>2 DEF Bare, Made
  <2>2. Fit(b, wiki, log[b].created)
    BY <2>1, BareFits DEF Untouched, Fit
  <2>3. \A w \in Writer : PagesFit(w, b)
    BY <1>1 DEF PagesFit, Out
  <2> QED BY <2>1, <2>2, <2>3 DEF WikiFits
<1>3. BatchesInv /\ LiveInv
  BY <1>1 DEF WikiInit, BatchesInv, LiveInv, At
<1>4. AloneInv /\ LogsInv
  BY <1>1 DEF WikiInit, AloneInv, LogsInv, Given, At
<1>5. WritersGive
  BY <1>1 DEF WritersGive
<1> QED BY <1>2, <1>3, <1>4, <1>5 DEF HistoryInv, CopiesInv

(* A process at work has a batch, and it was written.                      *)
LEMMA AtWorkOn ==
  ASSUME WikiInv, HistoryInv, NEW w \in Writer, writer[w] # Out
  PROVE  /\ writer[w].batch \in Batch /\ At(w, writer[w].batch)
         /\ BatchOK(batches[writer[w].batch]) /\ batches[writer[w].batch] # Unwritten
         /\ Matches(writer[w].batch, batches[writer[w].batch])
         /\ writer[w].batch \notin live
         /\ WriterInv(writer[w])
         /\ writer[w].at \in {"read", "planned", "writing"}
<1>1. WriterOK(writer[w])
  BY DEF WikiInv, WritersInv
<1>2. /\ writer[w].batch \in Batch /\ BatchOK(batches[writer[w].batch])
      /\ writer[w].at \in {"read", "planned", "writing"}
  BY <1>1 DEF WriterOK
<1>3. At(w, writer[w].batch)
  BY DEF At
<1> QED BY <1>2, <1>3 DEF HistoryInv, BatchesInv, LiveInv, WritersGive

(* Steps that leave the log, the batches and the pages alone.              *)
LEMMA QuietKeeps ==
  ASSUME HistoryInv, UNCHANGED <<wiki, batches, log>>, doubled \subseteq doubled',
         \A w \in Writer : writer'[w] # Out =>
           writer'[w] = writer[w] \/ (writer'[w].at = "read" /\ writer'[w].was = Blank)
  PROVE  CopiesInv' /\ LogsInv'
<1>1. LogsInv'
  BY DEF HistoryInv, LogsInv, Given
<1>2. ASSUME NEW b \in Batch PROVE WikiFits(b)' /\ \A w \in Writer : PagesFit(w, b)'
  <2>1. LogGrows(b) /\ WikiFits(b)
    BY DEF LogGrows, HistoryInv, CopiesInv
  <2>2. WikiFits(b)'
    BY <2>1, WikiStillFits
  <2>3. ASSUME NEW w \in Writer PROVE PagesFit(w, b)'
    <3>1. CASE writer'[w] # Out => writer'[w] = writer[w]
      <4>1. writer'[w] # Out => writer[w] # Out /\ SameHand(writer'[w], writer[w])
        BY <3>1, SameHands
      <4>2. PagesFit(w, b)
        BY DEF HistoryInv, CopiesInv
      <4> QED BY <2>1, <4>1, <4>2, PagesStillFit
    <3>2. CASE writer'[w].at = "read" /\ writer'[w].was = Blank
      <4>1. PICK y : y = writer'[w]
        OBVIOUS
      <4>2. HandFits(y, b)'
        BY <3>2, <4>1, BlankFits
      <4> QED BY <4>1, <4>2 DEF PagesFit
    <3> QED BY <3>1, <3>2
  <2> QED BY <2>2, <2>3
<1> QED BY <1>1, <1>2 DEF CopiesInv

LEMMA WriterStillGives ==
  ASSUME NEW x, WriterInv(x), UNCHANGED log, doubled \subseteq doubled'
  PROVE  WriterInv(x)'
BY DEF WriterInv, Given

(* A process takes up a batch.                                             *)
LEMMA EntersKeeps ==
  ASSUME WikiInv, HistoryInv, NEW w \in Writer, NEW b \in Batch, Enters(w, b),
         UNCHANGED <<wiki, batches, log>>, live' \subseteq live \ {b}, batches[b] # Unwritten,
         b \in Handled => log[b].phase = "none" /\ \A v \in Writer : ~At(v, b)
  PROVE  HistoryInv'
<1>0. PICK x : x = [at |-> "read", batch |-> b, created |-> log[b].created,
                    was |-> Blank, todo |-> WikiPage]
  OBVIOUS
<1>1. /\ writer[w] = Out /\ writer' = [writer EXCEPT ![w] = x] /\ DOMAIN writer = Writer
      /\ doubled \subseteq doubled' /\ doubled' \subseteq doubled \cup {b}
      /\ (\E v \in Writer : At(v, b)) => b \in doubled'
      /\ (\A v \in Writer : ~At(v, b)) => doubled' = doubled
  BY <1>0 DEF Enters, WikiInv, WritersInv, At
<1>2. writer'[w] = x /\ \A v \in Writer : v # w => writer'[v] = writer[v]
  BY <1>1
<1>3. x.at = "read" /\ x.batch = b /\ x.created = log[b].created /\ x.was = Blank
  BY <1>0
<1>4. \A v \in Writer, c \in Batch : At(v, c)' => At(v, c) \/ (v = w /\ c = b)
  BY <1>2, <1>3 DEF At
<1>5. BatchesInv'
  BY <1>1, <1>4 DEF HistoryInv, BatchesInv, Matches, Bare, OpsOf, Unwritten
<1>6. LiveInv'
  BY <1>4 DEF HistoryInv, LiveInv, WikiInv, PlansInv
<1>7. AloneInv'
  <2>1. Handled \cap doubled' = {}
    BY <1>1 DEF HistoryInv, AloneInv
  <2>2. ASSUME NEW u \in Writer, NEW v \in Writer, NEW c \in Batch, At(u, c)', At(v, c)', u # v
        PROVE  c \in doubled'
    BY <1>1, <1>4, <2>2 DEF HistoryInv, AloneInv
  <2> QED BY <2>1, <2>2 DEF AloneInv
<1>8. WritersGive'
  <2>1. WriterInv(x)'
    <3>1. Given(b, log[b].created)
      BY DEF HistoryInv, LogsInv
    <3> QED BY <1>3, <3>1 DEF WriterInv, Given
  <2>2. ASSUME NEW v \in Writer, writer'[v] # Out PROVE WriterInv(writer[v])'
    <3>1. CASE v = w
      BY <1>2, <2>1, <3>1
    <3>2. CASE v # w
      BY <1>1, <1>2, <2>2, <3>2, WriterStillGives DEF HistoryInv, WritersGive
    <3> QED BY <3>1, <3>2
  <2> QED BY <2>2 DEF WritersGive
<1>9. CopiesInv' /\ LogsInv'
  BY <1>1, <1>2, <1>3, QuietKeeps
<1> QED BY <1>5, <1>6, <1>7, <1>8, <1>9 DEF HistoryInv


(* Who is at work on what, when one process goes on or leaves.             *)
LEMMA SameAtWork ==
  ASSUME WikiInv, HistoryInv, NEW w \in Writer, NEW x, writer' = [writer EXCEPT ![w] = x],
         x = Out \/ (writer[w] # Out /\ x.batch = writer[w].batch),
         UNCHANGED <<batches, doubled>>, live' \subseteq live,
         \A b \in Batch : log'[b] = log[b] \/ (At(w, b) /\ log'[b].phase # "none")
  PROVE  BatchesInv' /\ LiveInv' /\ AloneInv'
<1>1. writer'[w] = x /\ \A v \in Writer : v # w => writer'[v] = writer[v]
  BY DEF WikiInv, WritersInv
<1>2. \A v \in Writer, b \in Batch : At(v, b)' => At(v, b)
  BY <1>1 DEF At
<1>3. BatchesInv'
  BY <1>2 DEF HistoryInv, BatchesInv, Matches, Bare, OpsOf, Unwritten
<1>4. LiveInv'
  <2>1. live \subseteq Batch
    BY DEF WikiInv, PlansInv
  <2> QED BY <1>2, <2>1 DEF HistoryInv, LiveInv
<1>5. AloneInv'
  BY <1>2 DEF HistoryInv, AloneInv
<1> QED BY <1>3, <1>4, <1>5

LEMMA StopKeeps ==
  ASSUME WikiInv, HistoryInv, NEW w \in Writer, writer' = [writer EXCEPT ![w] = Out],
         UNCHANGED <<wiki, batches, log, live, doubled>>
  PROVE  HistoryInv'
<1>1. writer'[w] = Out /\ \A v \in Writer : v # w => writer'[v] = writer[v]
  BY DEF WikiInv, WritersInv
<1>2. BatchesInv' /\ LiveInv' /\ AloneInv'
  BY SameAtWork
<1>3. CopiesInv' /\ LogsInv'
  BY <1>1, QuietKeeps DEF Out
<1>4. ASSUME NEW v \in Writer, writer'[v] # Out PROVE WriterInv(writer[v])'
  BY <1>1, <1>4, WriterStillGives DEF HistoryInv, WritersGive
<1> QED BY <1>2, <1>3, <1>4 DEF HistoryInv, WritersGive

(* What has been read up to a page fits as what is there does.             *)
LEMMA ReadFits ==
  ASSUME WikiInv, HistoryInv, NEW w \in Writer, writer[w].at = "read", NEW p \in WikiPage
  PROVE  /\ PagesOK(ReadUpTo(w, p))
         /\ \A c \in Batch :
              /\ Fit(c, ReadUpTo(w, p), log[c].created)
              /\ log[c].phase = "none" => Untouched(c, ReadUpTo(w, p))
<1>1. PICK was, now : was = writer[w].was /\ now = ReadUpTo(w, p)
  OBVIOUS
<1>2. writer[w] # Out /\ WriterOK(writer[w])
  BY DEF WikiInv, WritersInv, Out
<1>3. PagesOK(was) /\ PagesOK(wiki) /\ now = [was EXCEPT ![p] = wiki[p]]
  BY <1>1, <1>2 DEF WriterOK, WikiInv, ReadUpTo
<1>4. PagesOK(now)
  BY <1>3 DEF PagesOK
<1>5. Copies(now) \subseteq Copies(was) \cup Copies(wiki)
  <2> SUFFICES ASSUME NEW y \in Copies(now) PROVE y \in Copies(was) \cup Copies(wiki)
    OBVIOUS
  <2>1. PICK q \in WikiPage : \E j \in DOMAIN now[q] : y = <<j, now[q][j]>>
    BY DEF Copies
  <2>2. now[q] = was[q] \/ now[q] = wiki[q]
    BY <1>3, <2>1 DEF PagesOK
  <2> QED BY <2>1, <2>2 DEF Copies
<1>6. ASSUME NEW c \in Batch
      PROVE  Fit(c, now, log[c].created) /\ (log[c].phase = "none" => Untouched(c, now))
  <2>1. /\ Fit(c, was, log[c].created) /\ (log[c].phase = "none" => Untouched(c, was))
        /\ Fit(c, wiki, log[c].created) /\ (log[c].phase = "none" => Untouched(c, wiki))
    <3>1. HandFits(writer[w], c) /\ WikiFits(c)
      BY <1>2 DEF HistoryInv, CopiesInv, PagesFit
    <3>2. InHand(writer[w]) = was /\ ~Own(writer[w], c)
      BY <1>1 DEF InHand, Own
    <3> QED BY <3>1, <3>2 DEF HandFits, WikiFits
  <2> QED BY <1>5, <2>1 DEF Fit, Untouched
<1> QED BY <1>1, <1>4, <1>6

(* A page is read.                                                         *)
LEMMA ReadPageKeeps ==
  ASSUME WikiInv, HistoryInv, NEW w \in Writer, NEW p \in WikiPage, ReadPage(w, p)
  PROVE  HistoryInv'
<1>1. PICK now : now = ReadUpTo(w, p)
  OBVIOUS
<1>2. PICK x : x = [writer[w] EXCEPT !.was = now, !.todo = @ \ {p}]
  OBVIOUS
<1>3. /\ writer[w].at = "read" /\ writer[w] # Out /\ WriterOK(writer[w])
      /\ UNCHANGED <<wiki, batches, log, live, doubled>>
  BY DEF ReadPage, WikiInv, WritersInv, Out
<1>4. /\ writer' = [writer EXCEPT ![w] = x]
      /\ x.at = "read" /\ x.batch = writer[w].batch /\ x.created = writer[w].created /\ x.was = now
  BY <1>1, <1>2, <1>3 DEF ReadPage, WikiInv, WritersInv, WriterOK
<1>5. writer'[w] = x /\ \A v \in Writer : v # w => writer'[v] = writer[v]
  BY <1>4 DEF WikiInv, WritersInv
<1>6. BatchesInv' /\ LiveInv' /\ AloneInv'
  BY <1>3, <1>4, SameAtWork
<1>7. LogsInv'
  BY <1>3 DEF HistoryInv, LogsInv, Given
<1>8. ASSUME NEW v \in Writer, writer'[v] # Out PROVE WriterInv(writer[v])'
  <2>1. CASE v = w
    <3>1. WriterInv(x)
      <4>1. WriterInv(writer[w])
        BY <1>3 DEF HistoryInv, WritersGive
      <4> QED BY <1>3, <1>4, <4>1 DEF WriterInv
    <3>2. WriterInv(x)'
      BY <1>3, <3>1, WriterStillGives
    <3> QED BY <1>5, <2>1, <3>2
  <2>2. CASE v # w
    BY <1>3, <1>5, <1>8, <2>2, WriterStillGives DEF HistoryInv, WritersGive
  <2> QED BY <2>1, <2>2
<1>9. ASSUME NEW c \in Batch PROVE WikiFits(c)' /\ \A v \in Writer : PagesFit(v, c)'
  <2>1. LogGrows(c) /\ WikiFits(c)
    BY <1>3 DEF LogGrows, HistoryInv, CopiesInv
  <2>2. WikiFits(c)'
    BY <1>3, <2>1, WikiStillFits
  <2>3. ASSUME NEW v \in Writer, v # w PROVE PagesFit(v, c)'
    <3>1. PagesFit(v, c) /\ SameHand(writer'[v], writer[v]) /\ writer'[v] = writer[v]
      BY <1>5, <2>3, SameHands DEF HistoryInv, CopiesInv
    <3> QED BY <1>3, <2>1, <3>1, PagesStillFit
  <2>4. HandFits(x, c)'
    <3>1. InHand(x) = now /\ ~Own(x, c)
      BY <1>4 DEF InHand, Own
    <3>2. HandFits(x, c)
      BY <1>1, <1>3, <3>1, ReadFits DEF HandFits
    <3> QED BY <1>3, <2>1, <3>2, SameHands, HandStillFits
  <2>5. PagesFit(w, c)'
    BY <1>5, <2>4 DEF PagesFit
  <2> QED BY <2>2, <2>3, <2>5
<1> QED BY <1>6, <1>7, <1>8, <1>9 DEF HistoryInv, CopiesInv, WritersGive

LEMMA PlanBatchKeeps ==
  ASSUME WikiInv, HistoryInv, NEW w \in Writer, NEW p \in WikiPage, PlanBatch(w, p)
  PROVE  HistoryInv'
<1>1. PICK b, F, now, plan : /\ b = writer[w].batch /\ F = writer[w].created
                             /\ now = ReadUpTo(w, p) /\ plan = PlannedOn(now, batches[b], F)
  OBVIOUS
<1>2. writer[w].at = "read" /\ writer[w] # Out
  BY DEF PlanBatch, Out
<1>3. /\ b \in Batch /\ At(w, b) /\ BatchOK(batches[b]) /\ batches[b] # Unwritten
      /\ Matches(b, batches[b]) /\ WriterInv(writer[w])
  BY <1>1, <1>2, AtWorkOn
<1>4. UNCHANGED <<wiki, batches, log, live, doubled>>
  BY DEF PlanBatch
<1>5. CASE ~plan.ok
  <2>1. writer' = [writer EXCEPT ![w] = Out]
    BY <1>1, <1>5 DEF PlanBatch
  <2> QED BY <1>4, <2>1, StopKeeps
<1>6. CASE plan.ok
  <2>1. PICK x : x = [at |-> "planned", batch |-> b, created |-> plan.created,
                      was |-> now, pages |-> plan.pages,
                      todo |-> {q \in WikiPage : plan.pages[q] # now[q]}]
    OBVIOUS
  <2>2. /\ x.at = "planned" /\ x.batch = b /\ x.created = plan.created /\ x.pages = plan.pages
        /\ writer' = [writer EXCEPT ![w] = x]
    BY <1>1, <1>6, <2>1 DEF PlanBatch
  <2>3. writer'[w] = x /\ \A v \in Writer : v # w => writer'[v] = writer[v]
    BY <2>2 DEF WikiInv, WritersInv
  <2>4. /\ Given(b, F) /\ (b \notin doubled => F = log[b].created)
        /\ b \in Handled => log[b].phase = "none"
    BY <1>1, <1>2, <1>3 DEF WriterInv
  <2>5. /\ PagesOK(now)
        /\ \A c \in Batch : /\ Fit(c, now, log[c].created)
                            /\ log[c].phase = "none" => Untouched(c, now)
    BY <1>1, <1>2, ReadFits
  <2>6. Fit(b, now, F)
    BY <1>3, <2>4, <2>5, DoubledFits DEF Fit
  <2>7. Given(b, plan.created) /\ F \subseteq plan.created /\ Fit(b, plan.pages, plan.created)
    BY <1>1, <1>3, <1>6, <2>4, <2>5, <2>6, PlannedFits
  <2>8. \A y \in Copies(plan.pages) : Comes(b, now, y)
    BY <1>1, <1>3, <1>6, <2>4, <2>5, PlannedComes
  <2>9. BatchesInv' /\ LiveInv' /\ AloneInv'
    BY <1>1, <1>2, <1>4, <2>2, SameAtWork
  <2>10. WritersGive'
    <3>1. WriterInv(x)'
      BY <1>4, <2>2, <2>4, <2>7 DEF WriterInv, Given
    <3>2. ASSUME NEW v \in Writer, writer'[v] # Out PROVE WriterInv(writer[v])'
      <4>1. CASE v = w
        BY <2>3, <3>1, <4>1
      <4>2. CASE v # w
        BY <1>4, <2>3, <3>2, <4>2, WriterStillGives DEF HistoryInv, WritersGive
      <4> QED BY <4>1, <4>2
    <3> QED BY <3>2 DEF WritersGive
  <2>11. LogsInv'
    BY <1>4 DEF HistoryInv, LogsInv, Given
  <2>12. ASSUME NEW c \in Batch PROVE WikiFits(c)' /\ \A v \in Writer : PagesFit(v, c)'
    <3>1. LogGrows(c) /\ WikiFits(c)
      BY <1>4 DEF LogGrows, HistoryInv, CopiesInv
    <3>2. WikiFits(c)'
      BY <1>4, <3>1, WikiStillFits
    <3>3. ASSUME NEW v \in Writer, v # w PROVE PagesFit(v, c)'
      <4>1. PagesFit(v, c)
        BY DEF HistoryInv, CopiesInv
      <4>2. writer'[v] = writer[v] /\ SameHand(writer'[v], writer[v])
        BY <2>3, <3>3, SameHands
      <4> QED BY <1>4, <3>1, <4>1, <4>2, PagesStillFit
    <3>4. PagesFit(w, c)'
      <4>1. InHand(x) = plan.pages /\ (Own(x, c) <=> c = b)
        BY <2>2 DEF InHand, Own
      <4>2. HandFits(x, c)
        <5>1. CASE c = b
          BY <2>2, <2>7, <4>1, <5>1 DEF HandFits
        <5>2. CASE c # b
          <6>1. Fit(c, plan.pages, log[c].created)
            BY <1>3, <2>5, <2>8, <5>2, OthersFit
          <6>2. log[c].phase = "none" => Untouched(c, plan.pages)
            BY <1>3, <2>5, <2>8, <5>2, OthersFit
          <6> QED BY <4>1, <5>2, <6>1, <6>2 DEF HandFits
        <5> QED BY <5>1, <5>2
      <4>3. HandFits(x, c)'
        BY <1>4, <3>1, <4>2, SameHands, HandStillFits
      <4> QED BY <2>3, <4>3 DEF PagesFit
    <3> QED BY <3>2, <3>3, <3>4
  <2> QED BY <2>9, <2>10, <2>11, <2>12 DEF HistoryInv, CopiesInv
<1> QED BY <1>5, <1>6

(* Intent or completion is logged.                                         *)
LEMMA LogsKeep ==
  ASSUME WikiInv, HistoryInv, NEW w \in Writer, writer[w].at \in {"planned", "writing"},
         NEW ph \in {"intent", "complete"}, Logs(writer[w].batch, ph, writer[w].created),
         NEW x, writer' = [writer EXCEPT ![w] = x],
         x = Out \/ (/\ x.at = "writing" /\ x.batch = writer[w].batch
                     /\ x.created = writer[w].created /\ x.pages = writer[w].pages),
         UNCHANGED <<wiki, batches, live, doubled>>
  PROVE  HistoryInv'
<1>1. PICK b, C : b = writer[w].batch /\ C = writer[w].created
  OBVIOUS
<1>2. writer[w] # Out
  BY DEF Out
<1>3. b \in Batch /\ At(w, b) /\ WriterInv(writer[w]) /\ b \notin live
  BY <1>1, <1>2, AtWorkOn
<1>4. /\ log'[b].phase = ph /\ log'[b].created = C
      /\ \A c \in Batch : c # b => log'[c] = log[c]
  BY <1>1, <1>3 DEF Logs, WikiInv, LogInv
<1>5. Given(b, C) /\ (b \notin doubled => log[b].created \subseteq C)
  BY <1>1, <1>3 DEF WriterInv
<1>6. writer'[w] = x /\ \A v \in Writer : v # w => writer'[v] = writer[v]
  BY DEF WikiInv, WritersInv
<1>7. BatchesInv' /\ LiveInv' /\ AloneInv'
  <2>1. \A c \in Batch : log'[c] = log[c] \/ (At(w, c) /\ log'[c].phase # "none")
    BY <1>3, <1>4
  <2> QED BY <1>2, <2>1, SameAtWork
<1>8. LogsInv'
  <2>1. ASSUME NEW c \in Batch
        PROVE  Given(c, log'[c].created) /\ (log'[c].phase = "none" => log'[c].created = {})
    <3>1. CASE c = b
      BY <1>4, <1>5, <3>1
    <3>2. CASE c # b
      BY <1>4, <3>2 DEF HistoryInv, LogsInv
    <3> QED BY <3>1, <3>2
  <2> QED BY <2>1 DEF LogsInv, Given
<1>9. WritersGive'
  <2>1. x # Out => WriterInv(x)'
    <3>1. x # Out => x.at = "writing" /\ x.batch = b /\ x.created = C
      BY <1>1
    <3> QED BY <1>4, <1>5, <3>1 DEF WriterInv, Given
  <2>2. ASSUME NEW v \in Writer, v # w, writer[v] # Out PROVE WriterInv(writer[v])'
    <3>1. writer'[v] = writer[v] /\ WriterInv(writer[v]) /\ writer[v].batch \in Batch
      BY <1>6, <2>2, AtWorkOn
    <3>2. CASE writer[v].batch # b
      <4>1. log'[writer[v].batch] = log[writer[v].batch]
        BY <1>4, <3>1, <3>2
      <4> QED BY <3>1, <4>1 DEF WriterInv, Given
    <3>3. CASE writer[v].batch = b
      <4>1. b \in doubled /\ b \notin Handled
        BY <1>3, <2>2, <3>3 DEF HistoryInv, AloneInv, At
      <4> QED BY <1>4, <3>1, <3>3, <4>1 DEF WriterInv, Given
    <3> QED BY <3>2, <3>3
  <2>3. ASSUME NEW v \in Writer, writer'[v] # Out PROVE WriterInv(writer[v])'
    <3>1. CASE v = w
      BY <1>6, <2>1, <2>3, <3>1
    <3>2. CASE v # w
      BY <1>6, <2>2, <2>3, <3>2
    <3> QED BY <3>1, <3>2
  <2> QED BY <2>3 DEF WritersGive
<1>10. ASSUME NEW c \in Batch PROVE WikiFits(c)' /\ \A v \in Writer : PagesFit(v, c)'
  <2>1. LogGrows(c)
    BY <1>4, <1>5 DEF LogGrows
  <2>2. ASSUME NEW v \in Writer, writer'[v] # Out
        PROVE  writer[v] # Out /\ SameHand(writer'[v], writer[v])
    <3>1. CASE v = w
      BY <1>2, <1>6, <2>2, <3>1 DEF SameHand, InHand
    <3>2. CASE v # w
      BY <1>6, <2>2, <3>2, SameHands
    <3> QED BY <3>1, <3>2
  <2> QED BY <2>1, <2>2, CopiesStay DEF HistoryInv
<1> QED BY <1>7, <1>8, <1>9, <1>10 DEF HistoryInv, CopiesInv

(* A page is written, with what the plan left on it.                       *)
LEMMA WritePageKeeps ==
  ASSUME WikiInv, HistoryInv, NEW w \in Writer, WritePage(w)
  PROVE  HistoryInv'
<1> DEFINE todo == writer[w].todo
           q == CHOOSE p \in todo : \A r \in todo : p <= r
<1>1. PICK b, C, pgs : b = writer[w].batch /\ C = writer[w].created /\ pgs = writer[w].pages
  OBVIOUS
<1>2. /\ writer[w].at = "writing" /\ writer[w] # Out
      /\ UNCHANGED <<batches, log, live, doubled>>
  BY DEF WritePage, Out
<1>3. /\ b \in Batch /\ At(w, b) /\ WriterInv(writer[w]) /\ WriterOK(writer[w])
  BY <1>1, <1>2, AtWorkOn DEF WikiInv, WritersInv
<1>4. PICK x : x = [writer[w] EXCEPT !.todo = todo \ {q}]
  OBVIOUS
<1>5. /\ writer' = [writer EXCEPT ![w] = x]
      /\ wiki' = [wiki EXCEPT ![q] = pgs[q]]
  BY <1>1, <1>4 DEF WritePage, WikiInv, WritersInv
<1> HIDE DEF q, todo
<1>6. x.at = "writing" /\ x.batch = b /\ x.created = C /\ x.pages = pgs
  BY <1>1, <1>2, <1>3, <1>4 DEF WriterOK
<1>7. writer'[w] = x /\ \A v \in Writer : v # w => writer'[v] = writer[v]
  BY <1>5 DEF WikiInv, WritersInv
<1>8. BatchesInv' /\ LiveInv' /\ AloneInv'
  BY <1>1, <1>2, <1>5, <1>6, SameAtWork
<1>9. LogsInv'
  BY <1>2 DEF HistoryInv, LogsInv, Given
<1>10. WritersGive'
  <2>1. WriterInv(x)'
    <3>1. WriterInv(x)
      BY <1>1, <1>2, <1>3, <1>6 DEF WriterInv
    <3> QED BY <1>2, <3>1, WriterStillGives
  <2>2. ASSUME NEW v \in Writer, writer'[v] # Out PROVE WriterInv(writer[v])'
    <3>1. CASE v = w
      BY <1>7, <2>1, <3>1
    <3>2. CASE v # w
      BY <1>2, <1>7, <2>2, <3>2, WriterStillGives DEF HistoryInv, WritersGive
    <3> QED BY <3>1, <3>2
  <2> QED BY <2>2 DEF WritersGive
<1>11. Copies(wiki)' \subseteq Copies(wiki) \cup Copies(pgs)
  <2> SUFFICES ASSUME NEW y \in Copies(wiki)' PROVE y \in Copies(wiki) \cup Copies(pgs)
    OBVIOUS
  <2>1. PICK p \in WikiPage : \E j \in DOMAIN wiki'[p] : y = <<j, wiki'[p][j]>>
    BY DEF Copies
  <2>2. wiki'[p] = wiki[p] \/ wiki'[p] = pgs[p]
    BY <1>5, <2>1 DEF WikiInv, PagesOK
  <2> QED BY <2>1, <2>2 DEF Copies
<1>12. ASSUME NEW c \in Batch PROVE WikiFits(c)' /\ \A v \in Writer : PagesFit(v, c)'
  <2>1. /\ LogGrows(c) /\ WikiFits(c) /\ PagesFit(w, c)
        /\ \A v \in Writer : PagesFit(v, c)
    BY <1>2 DEF LogGrows, HistoryInv, CopiesInv
  <2>2. Fit(c, pgs, log[c].created)
    <3>1. CASE c = b
      <4>1. Fit(b, pgs, C) /\ (b \notin doubled => C = log[b].created)
        BY <1>1, <1>2, <1>3, <2>1, <3>1 DEF PagesFit, HandFits, Own, InHand, WriterInv
      <4> QED BY <3>1, <4>1, DoubledFits DEF Fit
    <3>2. CASE c # b
      BY <1>1, <1>2, <2>1, <3>2 DEF PagesFit, HandFits, Own, InHand
    <3> QED BY <3>1, <3>2
  <2>3. log[c].phase = "none" => Untouched(c, pgs)
    <3>1. CASE c = b
      BY <1>1, <1>2, <1>3, <3>1 DEF WriterInv
    <3>2. CASE c # b
      BY <1>1, <1>2, <2>1, <3>2 DEF PagesFit, HandFits, Own, InHand
    <3> QED BY <3>1, <3>2
  <2>4. WikiFits(c)'
    <3>1. \A y \in Copies(wiki)' : Fits(c, y[1], y[2], log[c].created)
      BY <1>11, <2>1, <2>2 DEF WikiFits, Fit
    <3>2. ASSUME NEW y \in Copies(wiki)' PROVE Fits(c, y[1], y[2], log[c].created)'
      BY <1>2, <3>1, <3>2, FitsLater
    <3>3. log[c].phase = "none" => \A y \in Copies(wiki)' : Bare(c, y[2])
      BY <1>11, <2>1, <2>3 DEF WikiFits, Untouched
    <3> QED BY <1>2, <3>2, <3>3 DEF WikiFits, Fit, Untouched, Bare
  <2>5. \A v \in Writer : PagesFit(v, c)'
    <3> SUFFICES ASSUME NEW v \in Writer PROVE PagesFit(v, c)'
      OBVIOUS
    <3>1. writer'[v] # Out => writer[v] # Out /\ SameHand(writer'[v], writer[v])
      <4>1. CASE v = w
        BY <1>1, <1>2, <1>6, <1>7, <4>1 DEF SameHand, InHand
      <4>2. CASE v # w
        BY <1>7, <4>2, SameHands
      <4> QED BY <4>1, <4>2
    <3> QED BY <1>2, <2>1, <3>1, PagesStillFit
  <2> QED BY <2>4, <2>5
<1> QED BY <1>8, <1>9, <1>10, <1>12 DEF HistoryInv, CopiesInv


(* A batch is written, as a file or a plan behind a handle.                *)
LEMMA WritingKeeps ==
  ASSUME WikiInv, HistoryInv, NEW b \in Batch, NEW pinned, batches[b] = Unwritten,
         batches' = [batches EXCEPT ![b] = Pin(b, pinned)],
         live' \subseteq live \cup (IF b \in Handled THEN {b} ELSE {}),
         UNCHANGED <<wiki, log, writer, doubled>>
  PROVE  HistoryInv'
<1>1. /\ log[b].phase = "none" /\ b \notin live /\ \A w \in Writer : ~At(w, b)
      /\ Untouched(b, wiki)
  BY DEF HistoryInv, BatchesInv, CopiesInv, WikiFits
<1>2. PICK ops : ops = Pin(b, pinned)
  OBVIOUS
<1>3. Matches(b, ops) /\ ops # Unwritten
  BY <1>1, <1>2, PinMatches
<1>4. batches'[b] = ops /\ \A c \in Batch : c # b => batches'[c] = batches[c]
  BY <1>2 DEF WikiInv, WrittenInv
<1>5. \A w \in Writer : \A c : At(w, c)' <=> At(w, c)
  BY DEF At
<1>6. BatchesInv'
  <2>1. ASSUME NEW c \in Batch
        PROVE  IF batches'[c] = Unwritten
               THEN log[c].phase = "none" /\ c \notin live' /\ \A w \in Writer : ~At(w, c)
               ELSE Matches(c, batches'[c])
    <3>1. CASE c = b
      BY <1>3, <1>4, <3>1
    <3>2. CASE c # b
      BY <1>4, <3>2 DEF HistoryInv, BatchesInv
    <3> QED BY <3>1, <3>2
  <2> QED BY <1>5, <2>1 DEF BatchesInv, Matches, Bare, OpsOf, Unwritten
<1>7. LiveInv' /\ AloneInv'
  <2>1. ASSUME NEW c \in live'
        PROVE  c \in Handled /\ log[c].phase = "none" /\ \A w \in Writer : ~At(w, c)
    BY <1>1, <2>1 DEF HistoryInv, LiveInv
  <2>2. LiveInv'
    BY <1>5, <2>1 DEF LiveInv
  <2>3. AloneInv'
    BY <1>5 DEF HistoryInv, AloneInv
  <2> QED BY <2>2, <2>3
<1>8. LogsInv' /\ WritersGive'
  BY WriterStillGives DEF HistoryInv, LogsInv, Given, WritersGive
<1>9. ASSUME NEW c \in Batch PROVE WikiFits(c)' /\ \A w \in Writer : PagesFit(w, c)'
  <2>1. CASE c # b
    <3>1. LogGrows(c)
      BY DEF LogGrows
    <3> QED BY <1>4, <2>1, <3>1, SameHands, CopiesStay DEF HistoryInv
  <2>2. CASE c = b
    <3>1. Fit(b, wiki, log[b].created)'
      BY <1>1, UntouchedFitsLater
    <3>2. WikiFits(b)'
      BY <1>1, <3>1 DEF WikiFits, Untouched, Copies, Bare
    <3>3. ASSUME NEW w \in Writer, writer[w] # Out
          PROVE  ~Own(writer[w], b) /\ Untouched(b, InHand(writer[w]))
      <4>1. ~Own(writer[w], b)
        BY <1>1, <3>3 DEF At, Own
      <4> QED BY <1>1, <3>3, <4>1 DEF HistoryInv, CopiesInv, PagesFit, HandFits
    <3>4. ASSUME NEW w \in Writer PROVE PagesFit(w, b)'
      <4> SUFFICES ASSUME writer[w] # Out PROVE HandFits(writer[w], b)'
        BY DEF PagesFit
      <4>1. PICK x, pgs : x = writer[w] /\ pgs = InHand(x)
        OBVIOUS
      <4>2. ~Own(x, b) /\ Untouched(b, pgs)
        BY <3>3, <4>1
      <4>3. \A D : Fit(b, pgs, D)'
        BY <4>2, UntouchedFitsLater
      <4>4. Untouched(b, pgs)'
        BY <4>2 DEF Untouched, Copies, Bare
      <4>5. HandFits(x, b)'
        BY <4>1, <4>2, <4>3, <4>4 DEF HandFits
      <4> QED BY <4>1, <4>5
    <3> QED BY <2>2, <3>2, <3>4
  <2> QED BY <2>1, <2>2
<1> QED BY <1>6, <1>7, <1>8, <1>9 DEF HistoryInv, CopiesInv

(* A mark that is no operation's.                                          *)
LEMMA HandMarkFits ==
  ASSUME NEW b \in Batch, NEW j, NEW e, NEW f, f.supersedes = e.supersedes,
         NEW c, f.marks = e.marks \cup {<<"hand", c>>}
  PROVE  /\ \A C : Fits(b, j, e, C) => Fits(b, j, f, C)
         /\ Bare(b, e) => Bare(b, f)
<1>1. /\ \A k \in DOMAIN Program[b] : Program[b][k].op # "hand"
      /\ "hand" \notin OpsOf(b)
  BY OperationsAre DEF OpsOf
<1>2. <<"hand", c>>[1] = "hand"
  OBVIOUS
<1>3. ASSUME NEW C, Fits(b, j, e, C) PROVE Fits(b, j, f, C)
  <2> SUFFICES ASSUME NEW k \in DOMAIN Program[b], NEW m \in f.marks, m[1] = Program[b][k].op
               PROVE  (Once(b, k) => m[2] = 1) /\ FitsMark(b, k, j, f, C)
    BY DEF Fits
  <2>1. m \in e.marks
    BY <1>1, <1>2
  <2>2. (Once(b, k) => m[2] = 1) /\ FitsMark(b, k, j, e, C)
    BY <1>3, <2>1 DEF Fits
  <2> QED BY <2>2 DEF FitsMark, LinkedBefore
<1>4. Bare(b, e) => Bare(b, f)
  BY <1>1, <1>2 DEF Bare
<1> QED BY <1>3, <1>4

LEMMA HandEditKeeps ==
  ASSUME WikiInv, HistoryInv, NEW p \in WikiPage, NEW i \in DOMAIN wiki[p], HandEdit(p, i)
  PROVE  HistoryInv'
<1>1. UNCHANGED <<batches, log, live, writer, doubled>>
  BY DEF HandEdit
<1>2. PICK f : f = [wiki[p][i] EXCEPT !.marks = Marked(wiki[p][i], "hand")]
  OBVIOUS
<1>3. wiki' = [wiki EXCEPT ![p] = [wiki[p] EXCEPT ![i] = f]]
  BY <1>2 DEF HandEdit
<1>4. PICK y : y = <<i, wiki[p][i]>>
  OBVIOUS
<1>5. y[1] = i /\ y[2] = wiki[p][i] /\ y \in Copies(wiki)
  BY <1>4 DEF Copies
<1>6. f.supersedes = y[2].supersedes /\ \E c : f.marks = y[2].marks \cup {<<"hand", c>>}
  BY <1>2, <1>5 DEF WikiInv, PagesOK, EntryOK, Marked
<1>7. \A x \in Copies(wiki)' : x \in Copies(wiki) \/ (x[1] = y[1] /\ x[2] = f)
  <2> SUFFICES ASSUME NEW x \in Copies(wiki)', x \notin Copies(wiki)
               PROVE  x[1] = i /\ x[2] = f
    BY <1>5
  <2>1. PICK q \in WikiPage : \E j \in DOMAIN wiki'[q] : x = <<j, wiki'[q][j]>>
    BY DEF Copies
  <2>2. PICK j \in DOMAIN wiki'[q] : x = <<j, wiki'[q][j]>>
    BY <2>1
  <2>3. j \in DOMAIN wiki[q] /\ (wiki'[q][j] = wiki[q][j] \/ (j = i /\ wiki'[q][j] = f))
    BY <1>3, <2>2 DEF WikiInv, PagesOK
  <2>4. x # <<j, wiki[q][j]>>
    BY <2>3 DEF Copies
  <2> QED BY <2>2, <2>3, <2>4
<1>8. BatchesInv' /\ LiveInv' /\ AloneInv' /\ LogsInv' /\ WritersGive'
  BY <1>1 DEF HistoryInv, BatchesInv, LiveInv, AloneInv, LogsInv, WritersGive, WriterInv, At, Given,
              Matches, Bare, OpsOf, Unwritten
<1>9. ASSUME NEW c \in Batch PROVE WikiFits(c)' /\ \A w \in Writer : PagesFit(w, c)'
  <2>1. LogGrows(c) /\ WikiFits(c) /\ \A w \in Writer : PagesFit(w, c)
    BY <1>1 DEF LogGrows, HistoryInv, CopiesInv
  <2>2. ASSUME NEW w \in Writer PROVE PagesFit(w, c)'
    BY <1>1, <2>1, SameHands, PagesStillFit
  <2>3. /\ \A C : Fits(c, y[1], y[2], C) => Fits(c, y[1], f, C)
        /\ Bare(c, y[2]) => Bare(c, f)
    BY <1>6, HandMarkFits
  <2>4. ASSUME NEW x \in Copies(wiki)'
        PROVE  Fits(c, x[1], x[2], log[c].created) /\ (log[c].phase = "none" => Bare(c, x[2]))
    BY <1>5, <1>7, <2>1, <2>3 DEF WikiFits, Fit, Untouched
  <2>5. ASSUME NEW x \in Copies(wiki)' PROVE Fits(c, x[1], x[2], log[c].created)'
    BY <1>1, <2>4, FitsLater
  <2>6. WikiFits(c)'
    BY <1>1, <2>4, <2>5 DEF WikiFits, Fit, Untouched, Bare
  <2> QED BY <2>2, <2>6
<1> QED BY <1>8, <1>9 DEF HistoryInv, CopiesInv

LEMMA HistoryStepKeeps == WikiInv /\ HistoryInv /\ [WikiNext]_wikiVars => HistoryInv'
<1> SUFFICES ASSUME WikiInv, HistoryInv, [WikiNext]_wikiVars PROVE HistoryInv'
  OBVIOUS
<1>1. ASSUME NEW w \in Writer, NEW b \in Batch, Apply(w, b) PROVE HistoryInv'
  <2>1. /\ b \notin Handled /\ batches[b] # Unwritten /\ Enters(w, b)
        /\ UNCHANGED <<wiki, batches, log, live>>
    BY <1>1 DEF Apply
  <2>2. b \notin live
    BY <2>1 DEF HistoryInv, LiveInv
  <2> QED BY <2>1, <2>2, EntersKeeps
<1>2. ASSUME NEW w \in Writer, NEW b \in Batch, ApplyPlanned(w, b) PROVE HistoryInv'
  <2>1. /\ b \in live /\ Enters(w, b) /\ live' = live \ {b}
        /\ UNCHANGED <<wiki, batches, log>>
    BY <1>2 DEF ApplyPlanned
  <2>2. log[b].phase = "none" /\ \A v \in Writer : ~At(v, b)
    BY <2>1 DEF HistoryInv, LiveInv
  <2>3. batches[b] # Unwritten
    BY <2>1 DEF HistoryInv, BatchesInv
  <2> QED BY <2>1, <2>2, <2>3, EntersKeeps
<1>3. ASSUME NEW w \in Writer, LogIntents(w) PROVE HistoryInv'
  <2>1. PICK x : x = [writer[w] EXCEPT !.at = "writing"]
    OBVIOUS
  <2>2. WriterOK(writer[w]) /\ writer[w].at = "planned"
    BY <1>3 DEF LogIntents, WikiInv, WritersInv
  <2>3. /\ x.at = "writing" /\ x.batch = writer[w].batch
        /\ x.created = writer[w].created /\ x.pages = writer[w].pages
    BY <2>1, <2>2 DEF WriterOK, Out
  <2>4. PICK ph \in {"intent", "complete"} : Logs(writer[w].batch, ph, writer[w].created)
    BY <1>3 DEF LogIntents
  <2>5. /\ writer' = [writer EXCEPT ![w] = x]
        /\ UNCHANGED <<wiki, batches, live, doubled>>
    BY <1>3, <2>1 DEF LogIntents, WikiInv, WritersInv
  <2> QED BY <2>2, <2>3, <2>4, <2>5, LogsKeep
<1>4. ASSUME NEW w \in Writer, LogComplete(w) PROVE HistoryInv'
  BY <1>4, LogsKeep DEF LogComplete
<1>5. ASSUME NEW w \in Writer, Stop(w) PROVE HistoryInv'
  BY <1>5, StopKeeps DEF Stop
<1>6. ASSUME NEW b \in Batch, Author(b) PROVE HistoryInv'
  BY <1>6, WritingKeeps DEF Author
<1>7. ASSUME NEW b \in Batch, Register(b) PROVE HistoryInv'
  <2>1. b \in Handled /\ live' \subseteq live \cup {b}
    BY <1>7 DEF Register
  <2> QED BY <1>7, <2>1, WritingKeeps DEF Register
<1>8. ASSUME NEW b \in Batch, Expire(b) PROVE HistoryInv'
  <2>1. live' \subseteq live /\ UNCHANGED <<wiki, batches, log, writer, doubled>>
    BY <1>8 DEF Expire
  <2>2. CopiesInv' /\ LogsInv'
    BY <2>1, QuietKeeps
  <2> QED BY <2>1, <2>2 DEF HistoryInv, BatchesInv, LiveInv, AloneInv, WritersGive, WriterInv, At, Given,
                            Matches, Bare, OpsOf, Unwritten
<1>9. CASE UNCHANGED wikiVars
  <2>1. UNCHANGED <<wiki, batches, log, writer, doubled, live>>
    BY <1>9 DEF wikiVars
  <2>2. CopiesInv' /\ LogsInv'
    BY <2>1, QuietKeeps
  <2> QED BY <2>1, <2>2 DEF HistoryInv, BatchesInv, LiveInv, AloneInv, WritersGive, WriterInv, At, Given,
                            Matches, Bare, OpsOf, Unwritten
<1> QED BY <1>1, <1>2, <1>3, <1>4, <1>5, <1>6, <1>7, <1>8, <1>9,
           ReadPageKeeps, PlanBatchKeeps, WritePageKeeps, HandEditKeeps DEF WikiNext, WriterStep

(* A mark on the pages is on a copy, and so its batch gave it.             *)
LEMMA MarksAreFit ==
  ASSUME WikiInv, HistoryInv, NEW i, NEW m \in MarksOn(wiki, i), NEW b \in Batch,
         NEW k \in DOMAIN Program[b], m[1] = Program[b][k].op
  PROVE  /\ Once(b, k) => m[2] = 1
         /\ (b \notin doubled /\ Creates(Program[b][k])) =>
              <<Program[b][k].op, i>> \in log[b].created
                \/ (Program[b][k].kind = "replace" /\ Program[b][k].id = i)
         /\ log[b].phase # "none"
<1>1. PICK p \in WikiPage : i \in DOMAIN wiki[p] /\ m \in wiki[p][i].marks
  BY DEF MarksOn
<1>2. PICK x : x = <<i, wiki[p][i]>>
  OBVIOUS
<1>3. x \in Copies(wiki) /\ x[1] = i /\ x[2] = wiki[p][i]
  BY <1>1, <1>2 DEF Copies
<1>4. WikiFits(b)
  BY DEF HistoryInv, CopiesInv
<1>5. Fits(b, i, wiki[p][i], log[b].created)
  BY <1>3, <1>4 DEF WikiFits, Fit
<1>6. (Once(b, k) => m[2] = 1) /\ FitsMark(b, k, i, wiki[p][i], log[b].created)
  BY <1>1, <1>5 DEF Fits
<1>7. ~Bare(b, wiki[p][i])
  BY <1>1 DEF Bare, OpsOf
<1>8. log[b].phase # "none"
  BY <1>3, <1>4, <1>7 DEF WikiFits, Untouched
<1> QED BY <1>6, <1>8 DEF FitsMark

LEMMA HistoryMeans ==
  ASSUME WikiInv, HistoryInv
  PROVE  AppliedOnce /\ IntentsComeFirst
<1>1. ASSUME NEW m \in Marks PROVE \E i \in Ids(wiki) : m \in MarksOn(wiki, i)
  BY DEF Marks
<1>2. ASSUME NEW m \in Marks, m[2] > 1, NEW b \in Batch, NEW k \in DOMAIN Program[b],
             Once(b, k)
      PROVE  m[1] # Program[b][k].op
  <2> SUFFICES ASSUME m[1] = Program[b][k].op PROVE FALSE
    OBVIOUS
  <2>1. PICK i : m \in MarksOn(wiki, i)
    BY <1>1
  <2>2. m[2] = 1
    BY <1>2, <2>1, MarksAreFit
  <2> QED BY <1>2, <2>2
<1>3. ASSUME NEW b \in Batch \ doubled, NEW k \in Creating(b),
             NEW i \in MadeBy(b, k), NEW j \in MadeBy(b, k)
      PROVE  i = j
  <2>1. k \in DOMAIN Program[b] /\ Creates(Program[b][k])
    BY DEF Creating
  <2>2. ASSUME NEW h \in MadeBy(b, k) PROVE <<Program[b][k].op, h>> \in log[b].created
    <3>1. PICK m \in MarksOn(wiki, h) : m[1] = Program[b][k].op
      BY DEF MadeBy, Bears
    <3>2. ~(Program[b][k].kind = "replace" /\ Program[b][k].id = h)
      BY DEF MadeBy
    <3> QED BY <2>1, <3>1, <3>2, MarksAreFit
  <2>3. PICK op : op = Program[b][k].op
    OBVIOUS
  <2>4. <<op, i>> \in log[b].created /\ <<op, j>> \in log[b].created
    BY <2>2, <2>3
  <2>5. <<op, i>> = <<op, j>>
    BY <2>4 DEF HistoryInv, LogsInv, Given
  <2> QED BY <2>5
<1>4. AppliedOnce
  BY <1>2, <1>3 DEF AppliedOnce, Once
<1>5. ASSUME NEW b \in Batch, log[b].phase = "none", NEW op \in OpsOf(b) \cap OnDisk PROVE FALSE
  <2>1. PICK m \in Marks : m[1] = op
    BY DEF OnDisk
  <2>2. PICK k \in DOMAIN Program[b] : op = Program[b][k].op
    BY DEF OpsOf
  <2>3. PICK i : m \in MarksOn(wiki, i)
    BY <1>1
  <2>4. m[1] = Program[b][k].op
    BY <2>1, <2>2
  <2>5. log[b].phase # "none"
    BY <2>3, <2>4, MarksAreFit
  <2> QED BY <1>5, <2>5
<1>6. IntentsComeFirst
  BY <1>5 DEF IntentsComeFirst
<1> QED BY <1>4, <1>6

----------------------------------------------------------------------------
(* Whatever is applied, stopped, applied again, by whichever processes and *)
(* however the pages are edited meanwhile, a pinned operation leaves its   *)
(* mark once and a creation makes one entity (apply_operations_with and    *)
(* create_into of src/wiki/ops.rs, apply_planned of src/wiki/plans.rs).    *)
THEOREM BatchesApplyOnce == WikiSpec => []AppliedOnce
<1>1. WikiInit => WikiInv /\ HistoryInv
  BY WikiBegins, HistoryBegins
<1>2. WikiInv /\ HistoryInv /\ [WikiNext]_wikiVars => WikiInv' /\ HistoryInv'
  BY WikiStepKeeps, HistoryStepKeeps
<1>3. WikiInv /\ HistoryInv => AppliedOnce
  BY HistoryMeans
<1> QED BY <1>1, <1>2, <1>3, PTL DEF WikiSpec

----------------------------------------------------------------------------
(* The log and the pages.  What one operation makes of the pages.          *)

(* What is on a page stays there, and the marks on it too.                 *)
PageGrows(old, new) ==
  \A j \in DOMAIN old : j \in DOMAIN new /\ old[j].marks \subseteq new[j].marks

(* An operation adds what it creates, to its page.                         *)
Adds(s, t, op, p, j) ==
  /\ Creates(op) /\ j[1] = op.title /\ p = op.page
  /\ j \notin Ids(s.pages) /\ Wears(t.pages[p][j], op.op)

(* What an operation makes of each page; where the entity it changes       *)
(* stands; and which id it gives.                                          *)
Works(s, t, op, forced) ==
  /\ op.kind # "move" =>
       \A p \in WikiPage :
         /\ PageGrows(s.pages[p], t.pages[p])
         /\ \A j \in DOMAIN t.pages[p] \ DOMAIN s.pages[p] : Adds(s, t, op, p, j)
  /\ op.kind \notin {"create", "move"} =>
       \E p \in WikiPage : op.id \in DOMAIN t.pages[p] /\ Wears(t.pages[p][op.id], op.op)
  /\ IF Creates(op)
       THEN \E i : /\ t.created = s.created \cup {<<op.op, i>>} /\ i[1] = op.title
                   /\ i \in DOMAIN t.pages[op.page]
                   /\ <<op.op, i>> \in forced \/ (op.by # AnyId /\ i = op.by)
                        \/ (i \notin Ids(s.pages) /\ Wears(t.pages[op.page][i], op.op))
       ELSE t.created = s.created
  /\ IsFiniteSet(Ids(t.pages))

(* A move takes the entity off the first page that has it and leaves it on *)
(* its own.                                                                *)
Carries(s, t, op) ==
  LET from == Located(s.pages, op.id)
  IN /\ op.id \in DOMAIN s.pages[from] /\ from \in WikiPage /\ from # op.page
     /\ \A q \in WikiPage : op.id \in DOMAIN s.pages[q] => from <= q
     /\ \A p \in WikiPage :
          /\ DOMAIN t.pages[p] = (DOMAIN s.pages[p] \ (IF p = from THEN {op.id} ELSE {}))
                                   \cup (IF p = op.page THEN {op.id} ELSE {})
          /\ \A j \in DOMAIN s.pages[p] \ {op.id} : t.pages[p][j] = s.pages[p][j]

LEMMA GrowsOn ==
  /\ \A x : PageGrows(x, x)
  /\ \A x, y, z : PageGrows(x, y) /\ PageGrows(y, z) => PageGrows(x, z)
BY DEF PageGrows

LEMMA MintedIsFree ==
  ASSUME NEW pgs, IsFiniteSet(Ids(pgs)), NEW t
  PROVE  Minted(pgs, t) \notin Ids(pgs)
<1> DEFINE N == Cardinality(Ids(pgs))
           f == [n \in 1 .. N + 1 |-> <<t, n>>]
           free == {n \in 1 .. N + 1 : <<t, n>> \notin Ids(pgs)}
<1>1. N \in Nat
  BY FS_CardinalityType
<1> HIDE DEF N
<1>2. IsFiniteSet(1 .. N + 1) /\ Cardinality(1 .. N + 1) = N + 1
  BY <1>1, FS_Interval
<1>3. free # {}
  <2> SUFFICES ASSUME free = {} PROVE FALSE
    OBVIOUS
  <2>1. f \in [1 .. N + 1 -> Ids(pgs)]
    OBVIOUS
  <2>2. Cardinality(Ids(pgs)) < Cardinality(1 .. N + 1)
    BY <1>1, <1>2 DEF N
  <2>3. \A x, y \in 1 .. N + 1 : f[x] = f[y] => x = y
    OBVIOUS
  <2> HIDE DEF f
  <2>4. \E x, y \in 1 .. N + 1 : x # y /\ f[x] = f[y]
    <3>1. PICK S : S = 1 .. N + 1
      OBVIOUS
    <3>2. PICK T : T = Ids(pgs)
      OBVIOUS
    <3>3. /\ IsFiniteSet(S) /\ IsFiniteSet(T) /\ Cardinality(T) < Cardinality(S)
          /\ f \in [S -> T]
      BY <1>2, <2>1, <2>2, <3>1, <3>2
    <3>4. PICK g \in [S -> T] : g = f
      BY <3>3
    <3>5. \E x, y \in S : x # y /\ g[x] = g[y]
      BY <3>3, FS_PigeonHole
    <3> QED BY <3>1, <3>4, <3>5
  <2> QED BY <2>3, <2>4
<1>4. PICK n \in free : \A k \in free : n <= k
  <2>1. free \in SUBSET Nat
    BY <1>1
  <2> QED BY <1>3, <2>1, LeastNatural
<1>5. <<t, n>> \notin Ids(pgs) /\ \A k \in 1 .. n - 1 : <<t, k>> \in Ids(pgs)
  BY <1>1, <1>4
<1> QED BY <1>4, <1>5 DEF Minted, N

(* An entity's fields change.                                              *)
LEMMA MutatedWorks ==
  ASSUME NEW pgs, PagesOK(pgs), NEW i \in Ids(pgs), NEW op, NEW st, NEW over
  PROVE  LET new == Mutated(pgs, i, op, st, over)
         IN /\ \A p \in WikiPage : DOMAIN new[p] = DOMAIN pgs[p] /\ PageGrows(pgs[p], new[p])
            /\ Located(pgs, i) \in WikiPage /\ i \in DOMAIN new[Located(pgs, i)]
            /\ Wears(new[Located(pgs, i)][i], op)
<1> DEFINE l == Located(pgs, i)
           e == [Entity(pgs, i) EXCEPT !.status = st, !.rev = @ + 1,
                   !.supersedes = @ \cup over, !.marks = Marked(Entity(pgs, i), op)]
           new == Mutated(pgs, i, op, st, over)
<1>1. l \in WikiPage /\ i \in DOMAIN pgs[l] /\ EntryOK(pgs[l][i]) /\ Entity(pgs, i) = pgs[l][i]
  BY LocatedFirst DEF PagesOK, Entity
<1>2. e.marks = Marked(pgs[l][i], op)
  BY <1>1 DEF EntryOK
<1>3. pgs[l][i].marks \subseteq e.marks /\ Wears(e, op)
  <2>1. PICK c : e.marks = pgs[l][i].marks \cup {<<op, c>>}
    BY <1>2 DEF Marked
  <2>2. <<op, c>> \in e.marks /\ <<op, c>>[1] = op
    BY <2>1
  <2> QED BY <2>1, <2>2 DEF Wears
<1>4. new = [pgs EXCEPT ![l] = [j \in DOMAIN @ \cup {i} |-> IF j = i THEN e ELSE @[j]]]
  BY DEF Mutated, Put
<1> HIDE DEF e, l
<1>5. \A p \in WikiPage : new[p] = IF p = l
                                    THEN [j \in DOMAIN pgs[l] |-> IF j = i THEN e ELSE pgs[l][j]]
                                    ELSE pgs[p]
  BY <1>1, <1>4 DEF PagesOK
<1> HIDE DEF new
<1>6. \A p \in WikiPage : DOMAIN new[p] = DOMAIN pgs[p] /\ PageGrows(pgs[p], new[p])
  BY <1>3, <1>5 DEF PageGrows
<1>7. i \in DOMAIN new[l] /\ Wears(new[l][i], op)
  BY <1>1, <1>3, <1>5
<1> QED BY <1>1, <1>6, <1>7 DEF new, l

(* The fields of one entity change.                                        *)
Alters(s, t, i, mark) ==
  /\ PlanOK(t) /\ t.ok /\ t.created = s.created
  /\ \A p \in WikiPage : DOMAIN t.pages[p] = DOMAIN s.pages[p] /\ PageGrows(s.pages[p], t.pages[p])
  /\ \E p \in WikiPage : i \in DOMAIN t.pages[p] /\ Wears(t.pages[p][i], mark)
  /\ Ids(t.pages) = Ids(s.pages)

LEMMA ChangeAlters ==
  ASSUME NEW s, PlanOK(s), s.ok, NEW i \in Ids(s.pages), NEW mark, NEW st, NEW over
  PROVE  Alters(s, Leaves(s, Mutated(s.pages, i, mark, st, over), {i}), i, mark)
<1> DEFINE pgs == Mutated(s.pages, i, mark, st, over)
           t == Leaves(s, pgs, {i})
<1>1. PagesOK(s.pages)
  BY DEF PlanOK
<1>2. /\ PagesOK(pgs) /\ Ids(pgs) = Ids(s.pages)
      /\ \A p \in WikiPage : DOMAIN pgs[p] = DOMAIN s.pages[p] /\ PageGrows(s.pages[p], pgs[p])
      /\ \E p \in WikiPage : i \in DOMAIN pgs[p] /\ Wears(pgs[p][i], mark)
  BY <1>1, MutatedIsTyped, MutatedGrows, MutatedWorks
<1> HIDE DEF pgs
<1>3. PlanOK(t) /\ t.ok /\ t.pages = pgs
  BY <1>2, LeavesIsTyped
<1>4. t.created = s.created
  BY DEF PlanOK, Leaves
<1> HIDE DEF t
<1>5. Alters(s, t, i, mark)
  BY <1>2, <1>3, <1>4 DEF Alters
<1> QED BY <1>5 DEF t, pgs

LEMMA AlteredWorks ==
  ASSUME NEW s, IsFiniteSet(Ids(s.pages)), NEW op, op.kind \notin {"create", "replace", "move"},
         NEW t, Alters(s, t, op.id, op.op), NEW forced
  PROVE  Works(s, t, op, forced)
<1>1. \A p \in WikiPage : DOMAIN t.pages[p] \ DOMAIN s.pages[p] = {}
  BY DEF Alters
<1> QED BY <1>1 DEF Alters, Works, Creates

(* An entry is settled, or new on its page.                                *)
Settles(s, t, op, forced) ==
  /\ \A p \in WikiPage :
       /\ PageGrows(s.pages[p], t.pages[p])
       /\ \A j \in DOMAIN t.pages[p] \ DOMAIN s.pages[p] : Adds(s, t, op, p, j)
  /\ \E i : /\ t.created = s.created \cup {<<op.op, i>>} /\ i[1] = op.title
            /\ i \in DOMAIN t.pages[op.page]
            /\ <<op.op, i>> \in forced \/ (op.by # AnyId /\ i = op.by)
                 \/ (i \notin Ids(s.pages) /\ Wears(t.pages[op.page][i], op.op))
  /\ IsFiniteSet(Ids(t.pages))

LEMMA CreateWorks ==
  ASSUME NEW s, PlanOK(s), s.ok, IsFiniteSet(Ids(s.pages)),
         NEW op, Creates(op), op.page \in WikiPage, NEW forced, Forces(forced, op), NEW over,
         NEW t, t = CreateEntry(s, op, forced, over), t.ok
  PROVE  Settles(s, t, op, forced)
<1> DEFINE again == {f \in forced : f[1] = op.op}
           i == IF again # {} THEN (CHOOSE f \in again : TRUE)[2]
                ELSE IF op.by # AnyId THEN op.by
                ELSE Minted(s.pages, op.title)
           made == [s EXCEPT !.created = @ \cup {<<op.op, i>>}, !.touched = @ \cup {i}]
           e == Made({<<op.op, 1>>}, over)
           to == Put(s.pages, op.page, i, e)
<1>1. t = IF i \in DOMAIN s.pages[op.page] THEN made
          ELSE IF i \in Ids(s.pages) THEN Refusal
          ELSE [made EXCEPT !.pages = to]
  BY DEF CreateEntry
<1>2. /\ i[1] = op.title
      /\ <<op.op, i>> \in forced \/ (op.by # AnyId /\ i = op.by) \/ i \notin Ids(s.pages)
  <2>1. CASE again = {} /\ op.by # AnyId
    BY <2>1 DEF Forces
  <2>3. CASE again = {} /\ op.by = AnyId
    BY <2>3, MintedIsFree DEF Minted
  <2>2. CASE again # {}
    <3> DEFINE g == CHOOSE f \in again : TRUE
    <3>1. g \in again /\ i = g[2]
      BY <2>2
    <3> HIDE DEF g, i
    <3> QED BY <3>1 DEF Forces
  <2> QED BY <2>1, <2>2, <2>3
<1> HIDE DEF i
<1>3. /\ made.created = s.created \cup {<<op.op, i>>} /\ made.pages = s.pages
      /\ DOMAIN made = DOMAIN s
  BY DEF PlanOK
<1>4. ~Refusal.ok /\ Wears(e, op.op)
  <2>1. e.marks = {<<op.op, 1>>} /\ <<op.op, 1>>[1] = op.op
    BY DEF Made
  <2> QED BY <2>1 DEF Refusal, Wears
<1>5. PagesOK(s.pages)
  BY DEF PlanOK
<1> HIDE DEF made, e
<1>6. CASE i \in DOMAIN s.pages[op.page]
  <2>1. t.pages = s.pages /\ t.created = s.created \cup {<<op.op, i>>}
    BY <1>1, <1>3, <1>6
  <2>2. <<op.op, i>> \in forced \/ (op.by # AnyId /\ i = op.by)
    BY <1>2, <1>6 DEF Ids
  <2>3. \A p \in WikiPage : PageGrows(s.pages[p], t.pages[p])
    BY <2>1, GrowsOn
  <2> QED BY <1>2, <1>6, <2>1, <2>2, <2>3 DEF Settles
<1>7. CASE i \notin DOMAIN s.pages[op.page]
  <2>1. i \notin Ids(s.pages) /\ t = [made EXCEPT !.pages = to]
    BY <1>1, <1>4, <1>7
  <2>2. t.pages = to /\ t.created = s.created \cup {<<op.op, i>>}
    BY <1>3, <2>1 DEF PlanOK
  <2>3. /\ \A p \in WikiPage :
             DOMAIN to[p] = IF p = op.page THEN DOMAIN s.pages[p] \cup {i} ELSE DOMAIN s.pages[p]
        /\ \A p \in WikiPage : \A j \in DOMAIN s.pages[p] : to[p][j] = s.pages[p][j]
        /\ to[op.page][i] = e
    BY <1>5, <1>7 DEF PagesOK, Put
  <2> HIDE DEF to
  <2>4. \A p \in WikiPage : PageGrows(s.pages[p], t.pages[p])
    BY <1>7, <2>2, <2>3 DEF PageGrows
  <2>5. i \in DOMAIN t.pages[op.page] /\ Wears(t.pages[op.page][i], op.op)
    BY <1>4, <2>2, <2>3
  <2>6. ASSUME NEW p \in WikiPage, NEW j \in DOMAIN t.pages[p] \ DOMAIN s.pages[p]
        PROVE  Adds(s, t, op, p, j)
    <3>1. p = op.page /\ j = i
      BY <2>2, <2>3, <2>6
    <3> QED BY <1>2, <2>1, <2>5, <3>1 DEF Adds
  <2>7. Ids(t.pages) \subseteq Ids(s.pages) \cup {i}
    <3>1. \A p \in WikiPage : DOMAIN t.pages[p] \subseteq DOMAIN s.pages[p] \cup {i}
      BY <2>2, <2>3
    <3> QED BY <3>1 DEF Ids
  <2>8. IsFiniteSet(Ids(t.pages))
    BY <2>7, FS_AddElement, FS_Subset
  <2> QED BY <1>2, <2>1, <2>2, <2>4, <2>5, <2>6, <2>8 DEF Settles
<1> QED BY <1>6, <1>7

LEMMA SupersedeWorks ==
  ASSUME NEW s, PlanOK(s), s.ok, IsFiniteSet(Ids(s.pages)), NEW op, op.id \in Ids(s.pages),
         op.kind = "supersede", NEW forced, NEW t, t = SupersedeEntry(s, op, forced), t.ok
  PROVE  Works(s, t, op, forced)
<1> DEFINE m == Leaves(s, Mutated(s.pages, op.id, op.op, "deprecated", {}), {op.id})
<1>1. Alters(s, m, op.id, op.op)
  BY ChangeAlters
<1>2. op.by \in Ids(s.pages) /\ t = Supersedes(m, op.by, op.id, op)
  BY DEF SupersedeEntry, Refusal
<1> HIDE DEF m
<1>3. PlanOK(m) /\ m.ok /\ Ids(m.pages) = Ids(s.pages)
  BY <1>1 DEF Alters
<1>4. \E st : t = Leaves(m, Mutated(m.pages, op.by, op.op, st, {op.id}), {op.by})
  BY <1>2 DEF Supersedes, Refusal
<1>5. Alters(m, t, op.by, op.op)
  BY <1>2, <1>3, <1>4, ChangeAlters
<1>6. Alters(s, t, op.id, op.op)
  <2>1. PICK p \in WikiPage : op.id \in DOMAIN m.pages[p] /\ Wears(m.pages[p][op.id], op.op)
    BY <1>1 DEF Alters
  <2>2. op.id \in DOMAIN t.pages[p] /\ Wears(t.pages[p][op.id], op.op)
    BY <1>5, <2>1 DEF Alters, PageGrows, Wears
  <2> QED BY <1>1, <1>5, <2>1, <2>2, GrowsOn DEF Alters
<1> QED BY <1>6, AlteredWorks

LEMMA ReplaceWorks ==
  ASSUME NEW s, PlanOK(s), s.ok, IsFiniteSet(Ids(s.pages)), NEW op, op.id \in Ids(s.pages),
         op.kind = "replace", op.page \in WikiPage, NEW forced, Forces(forced, op),
         NEW t, t = SupersedeEntry(s, op, forced), t.ok
  PROVE  Works(s, t, op, forced)
<1> DEFINE m == Leaves(s, Mutated(s.pages, op.id, op.op, "deprecated", {}), {op.id})
<1>1. Alters(s, m, op.id, op.op)
  BY ChangeAlters
<1>2. t = CreateEntry(m, op, forced, {op.id})
  BY DEF SupersedeEntry
<1> HIDE DEF m
<1>3. PlanOK(m) /\ m.ok /\ Ids(m.pages) = Ids(s.pages) /\ m.created = s.created
      /\ Creates(op) /\ IsFiniteSet(Ids(m.pages))
  BY <1>1 DEF Alters, Creates
<1>4. Settles(m, t, op, forced)
  BY <1>2, <1>3, CreateWorks
<1>5. ASSUME NEW p \in WikiPage
      PROVE  /\ PageGrows(s.pages[p], t.pages[p])
             /\ \A j \in DOMAIN t.pages[p] \ DOMAIN s.pages[p] : Adds(s, t, op, p, j)
  BY <1>1, <1>3, <1>4, GrowsOn DEF Alters, Adds, Settles
<1>6. \E p \in WikiPage : op.id \in DOMAIN t.pages[p] /\ Wears(t.pages[p][op.id], op.op)
  <2>1. PICK p \in WikiPage : op.id \in DOMAIN m.pages[p] /\ Wears(m.pages[p][op.id], op.op)
    BY <1>1 DEF Alters
  <2>2. op.id \in DOMAIN t.pages[p] /\ Wears(t.pages[p][op.id], op.op)
    BY <1>4, <2>1 DEF PageGrows, Wears, Settles
  <2> QED BY <2>2
<1> QED BY <1>3, <1>4, <1>5, <1>6 DEF Works, Settles

LEMMA MoveCarries ==
  ASSUME NEW s, PlanOK(s), s.ok, NEW op, op.id \in Ids(s.pages), op.page \in WikiPage,
         op.kind = "move", NEW t, t = MoveEntry(s, op), t.ok
  PROVE  Carries(s, t, op) /\ t.created = s.created
<1> DEFINE from == Located(s.pages, op.id)
           gone == Cut(s.pages, from, op.id)
           e == Entity(s.pages, op.id)
           to == IF op.id \in DOMAIN gone[op.page] THEN gone ELSE Put(gone, op.page, op.id, e)
<1>1. PagesOK(s.pages)
  BY DEF PlanOK
<1>2. /\ from \in WikiPage /\ op.id \in DOMAIN s.pages[from]
      /\ \A q \in WikiPage : op.id \in DOMAIN s.pages[q] => from <= q
  BY LocatedFirst
<1>3. from # op.page /\ t = Leaves(s, to, {op.id})
  BY DEF MoveEntry, Refusal
<1> HIDE DEF from, e
<1>4. /\ DOMAIN gone = WikiPage
      /\ \A p \in WikiPage : DOMAIN gone[p] = DOMAIN s.pages[p] \ (IF p = from THEN {op.id} ELSE {})
      /\ \A p \in WikiPage : \A j \in DOMAIN gone[p] : gone[p][j] = s.pages[p][j]
  BY <1>1, <1>2 DEF Cut, PagesOK
<1> HIDE DEF gone
<1>5. /\ \A p \in WikiPage : DOMAIN to[p] = DOMAIN gone[p] \cup (IF p = op.page THEN {op.id} ELSE {})
      /\ \A p \in WikiPage : \A j \in DOMAIN gone[p] : to[p][j] = gone[p][j]
  <2>1. CASE op.id \in DOMAIN gone[op.page]
    BY <2>1
  <2>2. CASE op.id \notin DOMAIN gone[op.page]
    BY <1>4, <2>2 DEF Put
  <2> QED BY <2>1, <2>2
<1> HIDE DEF to
<1>6. t.pages = to /\ t.created = s.created
  BY <1>3 DEF PlanOK, Leaves
<1>7. ASSUME NEW p \in WikiPage
      PROVE  /\ DOMAIN t.pages[p] = (DOMAIN s.pages[p] \ (IF p = from THEN {op.id} ELSE {}))
                                      \cup (IF p = op.page THEN {op.id} ELSE {})
             /\ \A j \in DOMAIN s.pages[p] \ {op.id} : t.pages[p][j] = s.pages[p][j]
  BY <1>4, <1>5, <1>6
<1> QED BY <1>2, <1>3, <1>6, <1>7 DEF Carries, from

(* Any operation that is not refused.                                      *)
LEMMA OperationWorks ==
  ASSUME NEW s, PlanOK(s), IsFiniteSet(Ids(s.pages)), NEW op, op.kind \in Kinds,
         op.kind \in {"create", "replace", "move"} => op.page \in WikiPage,
         NEW forced, Forces(forced, op), NEW t, t = PlanOperation(s, op, forced), t.ok
  PROVE  s.ok /\ PlanOK(t) /\ Works(s, t, op, forced) /\ (op.kind = "move" => Carries(s, t, op))
<1>1. s.ok
  BY DEF PlanOperation
<1>2. PlanOK(t)
  BY OperationIsTyped
<1>3. CASE op.kind = "create"
  <2>1. t = CreateEntry(s, op, forced, {}) /\ Creates(op)
    BY <1>1, <1>3 DEF PlanOperation, Creates
  <2>2. op.page \in WikiPage
    BY <1>3
  <2>3. Settles(s, t, op, forced)
    BY <1>1, <2>1, <2>2, CreateWorks
  <2> QED BY <1>1, <1>2, <1>3, <2>1, <2>3 DEF Works, Settles
<1>4. CASE op.kind # "create"
  <2>1. op.id \in Ids(s.pages) /\ Holds(s, op)
    BY <1>1, <1>4 DEF PlanOperation, Refusal
  <2>2. CASE op.kind \in {"update", "archive", "add-relation"}
    <3>1. \E st, over : t = Leaves(s, Mutated(s.pages, op.id, op.op, st, over), {op.id})
      <4>1. CASE op.kind = "update"
        <5>1. t = UpdateEntry(s, op)
          BY <1>1, <2>1, <4>1 DEF PlanOperation
        <5> QED BY <5>1 DEF UpdateEntry
      <4>2. CASE op.kind = "archive"
        <5>1. t = ArchiveEntry(s, op)
          BY <1>1, <2>1, <4>2 DEF PlanOperation
        <5> QED BY <5>1 DEF ArchiveEntry, Refusal
      <4>3. CASE op.kind = "add-relation"
        <5>1. t = AddRelation(s, op)
          BY <1>1, <2>1, <4>3 DEF PlanOperation
        <5> QED BY <5>1 DEF AddRelation, Supersedes, Refusal
      <4> QED BY <2>2, <4>1, <4>2, <4>3
    <3>2. Alters(s, t, op.id, op.op)
      BY <1>1, <2>1, <3>1, ChangeAlters
    <3> QED BY <1>1, <1>2, <2>2, <3>2, AlteredWorks
  <2>3. CASE op.kind = "supersede"
    <3>1. t = SupersedeEntry(s, op, forced)
      BY <1>1, <2>1, <2>3 DEF PlanOperation
    <3> QED BY <1>1, <1>2, <2>1, <2>3, <3>1, SupersedeWorks
  <2>4. CASE op.kind = "replace"
    <3>1. t = SupersedeEntry(s, op, forced)
      BY <1>1, <2>1, <2>4 DEF PlanOperation
    <3> QED BY <1>1, <1>2, <2>1, <2>4, <3>1, ReplaceWorks
  <2>5. CASE op.kind = "move"
    <3>1. t = MoveEntry(s, op)
      BY <1>1, <2>1, <2>5 DEF PlanOperation
    <3>2. Carries(s, t, op) /\ t.created = s.created
      BY <1>1, <2>1, <2>5, <3>1, MoveCarries
    <3>3. IsFiniteSet(Ids(t.pages))
      <4>1. Ids(t.pages) \subseteq Ids(s.pages) \cup {op.id}
        <5>1. \A p \in WikiPage : DOMAIN t.pages[p] \subseteq DOMAIN s.pages[p] \cup {op.id}
          BY <3>2 DEF Carries
        <5> QED BY <5>1 DEF Ids
      <4>2. IsFiniteSet(Ids(s.pages) \cup {op.id})
        BY FS_AddElement
      <4> QED BY <4>1, <4>2, FS_Subset
    <3> QED BY <1>1, <1>2, <2>5, <3>2, <3>3 DEF Works, Creates
  <2> QED BY <1>4, <2>2, <2>3, <2>4, <2>5 DEF Kinds
<1> QED BY <1>3, <1>4

(* The entities at the start.  What nothing moves stays where it was at    *)
(* the start, or on the page of the operation that created it, whose mark  *)
(* it bears.                                                               *)
Firsts == {<<t, 1>> : t \in {u \in Title : FirstEntity[u] # 0}}

CreatedBy(o, j, p, e) == Creates(o) /\ o.title = j[1] /\ o.page = p /\ Wears(e, o.op)

AtHome(pgs) ==
  /\ \A i \in Firsts : ~IsMoved(i[1]) => i \in DOMAIN pgs[FirstEntity[i[1]]]
  /\ \A p \in WikiPage : \A j \in DOMAIN pgs[p] :
       ~IsMoved(j[1]) =>
         IF j \in Firsts THEN p = FirstEntity[j[1]]
         ELSE \E b \in Batch : \E k \in DOMAIN Program[b] :
                CreatedBy(Program[b][k], j, p, pgs[p][j])

(* No creation that must leave its mark was given the id of one of them.   *)
NoFirsts(C) ==
  \A c \in C : \A b \in Batch : \A k \in Steady(b) :
    (Program[b][k].kind = "create" /\ Program[b][k].op = c[1]) => c[2] \notin Firsts

(* The mark of an operation stands for itself.                             *)
ShownOn(pgs, o) ==
  \E p \in WikiPage : \E j \in DOMAIN pgs[p] : j[1] = Subject(o) /\ Wears(pgs[p][j], o.op)

(* What a batch makes of what it does not move.                            *)
Tracks(b, old, new) ==
  \A p \in WikiPage :
    /\ \A j \in DOMAIN old[p] : ~IsMovedBy(b, j[1]) =>
         j \in DOMAIN new[p] /\ old[p][j].marks \subseteq new[p][j].marks
    /\ \A j \in DOMAIN new[p] \ DOMAIN old[p] : ~IsMovedBy(b, j[1]) =>
         \E k \in DOMAIN Program[b] : Creates(Program[b][k]) /\ Program[b][k].title = j[1]

(* Batch b as it is planned has the operation of its program.              *)
SameAs(op, o) ==
  /\ op.op = o.op /\ op.kind = o.kind /\ op.title = o.title
  /\ op.id = o.id /\ op.page = o.page /\ op.by = o.by

LEMMA FirstsAre ==
  \A i \in Firsts : FirstEntity[i[1]] \in WikiPage /\ i = <<i[1], 1>> /\ i[1] \in Title
BY WikiAssumption DEF WikiAssumption, Firsts, WikiPage

LEMMA StaysAtHome ==
  ASSUME NEW b \in Batch, NEW k \in DOMAIN Program[b], NEW op, SameAs(op, Program[b][k]),
         NEW s, AtHome(s.pages), NoFirsts(s.created), NEW F, NoFirsts(F),
         NEW t, Works(s, t, op, F), op.kind = "move" => Carries(s, t, op)
  PROVE  AtHome(t.pages) /\ NoFirsts(t.created)
<1>1. NoFirsts(t.created)
  <2>1. CASE ~Creates(op)
    BY <2>1 DEF Works
  <2>2. CASE Creates(op)
    <3>1. PICK i : /\ t.created = s.created \cup {<<op.op, i>>} /\ i[1] = op.title
                   /\ <<op.op, i>> \in F \/ (op.by # AnyId /\ i = op.by) \/ i \notin Ids(s.pages)
      BY <2>2 DEF Works
    <3>2. ASSUME NEW c \in Batch, NEW n \in Steady(c),
                 Program[c][n].kind = "create", Program[c][n].op = op.op
          PROVE  i \notin Firsts
      <4>1. n \in DOMAIN Program[c] /\ IsSteady(Program[c][n])
        BY DEF Steady, SteadySteps
      <4>2. c = b /\ n = k
        BY <3>2, <4>1, LabelsDiffer DEF SameAs
      <4>3. ~IsMoved(i[1]) /\ ~Settled(op)
        BY <3>1, <3>2, <4>1, <4>2 DEF IsSteady, Subject, Settled, SameAs
      <4>4. CASE <<op.op, i>> \in F
        <5>1. PICK f \in F : f = <<op.op, i>>
          BY <4>4
        <5>2. f[1] = op.op /\ f[2] = i
          BY <5>1
        <5> QED BY <3>2, <5>2 DEF NoFirsts
      <4>5. CASE op.by # AnyId
        BY <3>1, <4>3, <4>5, FirstsAre DEF Settled, WikiPage
      <4>6. CASE i \notin Ids(s.pages)
        BY <4>3, <4>6, FirstsAre DEF AtHome, Ids
      <4> QED BY <3>1, <4>4, <4>5, <4>6
    <3>3. \A c \in t.created : c \in s.created \/ (c[1] = op.op /\ c[2] = i)
      BY <3>1
    <3> QED BY <3>2, <3>3 DEF NoFirsts
  <2> QED BY <2>1, <2>2
<1>2. CASE op.kind = "move"
  <2>1. IsMoved(op.id[1])
    BY <1>2 DEF SameAs, IsMoved, IsMovedBy, Relocates
  <2>2. ASSUME NEW p \in WikiPage, NEW j, ~IsMoved(j[1])
        PROVE  /\ j \in DOMAIN t.pages[p] <=> j \in DOMAIN s.pages[p]
               /\ j \in DOMAIN s.pages[p] => t.pages[p][j] = s.pages[p][j]
    <3>1. j # op.id
      BY <2>1, <2>2
    <3> QED BY <1>2, <3>1 DEF Carries
  <2> QED BY <1>1, <2>2, FirstsAre DEF AtHome
<1>3. CASE op.kind # "move"
  <2>1. /\ \A p \in WikiPage : PageGrows(s.pages[p], t.pages[p])
        /\ \A p \in WikiPage : \A j \in DOMAIN t.pages[p] \ DOMAIN s.pages[p] : Adds(s, t, op, p, j)
    BY <1>3 DEF Works
  <2>2. ASSUME NEW i \in Firsts, ~IsMoved(i[1]) PROVE i \in DOMAIN t.pages[FirstEntity[i[1]]]
    BY <2>1, <2>2, FirstsAre DEF AtHome, PageGrows
  <2>3. ASSUME NEW p \in WikiPage, NEW j \in DOMAIN t.pages[p], ~IsMoved(j[1])
        PROVE  IF j \in Firsts THEN p = FirstEntity[j[1]]
               ELSE \E c \in Batch : \E n \in DOMAIN Program[c] :
                      CreatedBy(Program[c][n], j, p, t.pages[p][j])
    <3>1. CASE j \in DOMAIN s.pages[p]
      <4>1. s.pages[p][j].marks \subseteq t.pages[p][j].marks
        BY <2>1, <3>1 DEF PageGrows
      <4> QED BY <2>3, <3>1, <4>1 DEF AtHome, CreatedBy, Wears
    <3>2. CASE j \notin DOMAIN s.pages[p]
      <4>1. Adds(s, t, op, p, j)
        BY <2>1, <3>2
      <4>2. j \notin Firsts
        BY <2>3, <4>1, FirstsAre DEF Adds, AtHome, Ids
      <4>3. CreatedBy(Program[b][k], j, p, t.pages[p][j])
        BY <4>1 DEF Adds, SameAs, CreatedBy, Creates
      <4> QED BY <4>2, <4>3
    <3> QED BY <3>1, <3>2
  <2> QED BY <1>1, <2>2, <2>3 DEF AtHome
<1> QED BY <1>2, <1>3

LEMMA OperationTracks ==
  ASSUME NEW b \in Batch, NEW k \in DOMAIN Program[b], NEW op, SameAs(op, Program[b][k]),
         NEW s, NEW F, NEW t, Works(s, t, op, F), op.kind = "move" => Carries(s, t, op),
         NEW pgs, Tracks(b, pgs, s.pages)
  PROVE  Tracks(b, pgs, t.pages)
<1>1. CASE op.kind = "move"
  <2>1. IsMovedBy(b, op.id[1])
    BY <1>1 DEF SameAs, IsMovedBy, Relocates
  <2>2. ASSUME NEW p \in WikiPage, NEW j, ~IsMovedBy(b, j[1])
        PROVE  /\ j \in DOMAIN t.pages[p] <=> j \in DOMAIN s.pages[p]
               /\ j \in DOMAIN s.pages[p] => t.pages[p][j] = s.pages[p][j]
    <3>1. j # op.id
      BY <2>1, <2>2
    <3> QED BY <1>1, <3>1 DEF Carries
  <2> QED BY <2>2 DEF Tracks
<1>2. CASE op.kind # "move"
  <2>1. /\ \A p \in WikiPage : PageGrows(s.pages[p], t.pages[p])
        /\ \A p \in WikiPage : \A j \in DOMAIN t.pages[p] \ DOMAIN s.pages[p] : Adds(s, t, op, p, j)
    BY <1>2 DEF Works
  <2>2. ASSUME NEW p \in WikiPage, NEW j \in DOMAIN pgs[p], ~IsMovedBy(b, j[1])
        PROVE  j \in DOMAIN t.pages[p] /\ pgs[p][j].marks \subseteq t.pages[p][j].marks
    BY <2>1, <2>2 DEF Tracks, PageGrows
  <2>3. ASSUME NEW p \in WikiPage, NEW j \in DOMAIN t.pages[p] \ DOMAIN pgs[p], ~IsMovedBy(b, j[1])
        PROVE  \E n \in DOMAIN Program[b] : Creates(Program[b][n]) /\ Program[b][n].title = j[1]
    <3>1. CASE j \in DOMAIN s.pages[p]
      BY <2>3, <3>1 DEF Tracks
    <3>2. CASE j \notin DOMAIN s.pages[p]
      BY <2>1, <3>2 DEF Adds, SameAs, Creates
    <3> QED BY <3>1, <3>2
  <2> QED BY <2>2, <2>3 DEF Tracks
<1> QED BY <1>1, <1>2

(* Marks of what nothing moves stay.                                       *)
LEMMA StaysShown ==
  ASSUME NEW b \in Batch, NEW c \in Batch, NEW k \in Steady(c), NEW old, NEW new,
         Tracks(b, old, new), ShownOn(old, Program[c][k])
  PROVE  ShownOn(new, Program[c][k])
<1>1. PICK p \in WikiPage :
        \E j \in DOMAIN old[p] : j[1] = Subject(Program[c][k]) /\ Wears(old[p][j], Program[c][k].op)
  BY DEF ShownOn
<1>2. PICK j \in DOMAIN old[p] : j[1] = Subject(Program[c][k]) /\ Wears(old[p][j], Program[c][k].op)
  BY <1>1
<1>3. ~IsMovedBy(b, j[1])
  BY <1>2 DEF Steady, SteadySteps, IsSteady, IsMoved
<1>4. j \in DOMAIN new[p] /\ old[p][j].marks \subseteq new[p][j].marks
  BY <1>3 DEF Tracks
<1>5. Wears(new[p][j], Program[c][k].op)
  BY <1>2, <1>4 DEF Wears
<1> QED BY <1>2, <1>4, <1>5 DEF ShownOn

(* An operation that changes what nothing moves, or creates what nothing   *)
(* else creates, leaves its mark.                                          *)
LEMMA OperationShows ==
  ASSUME NEW b \in Batch, NEW k \in Steady(b), NEW op, SameAs(op, Program[b][k]),
         op.page \in WikiPage \/ op.kind # "create",
         NEW s, NEW F, NoFirsts(F), NEW t, Works(s, t, op, F), AtHome(t.pages)
  PROVE  ShownOn(t.pages, Program[b][k])
<1>1. /\ k \in DOMAIN Program[b] /\ op.kind # "move" /\ ~IsMoved(Subject(Program[b][k]))
      /\ op.kind = "create" => Uncontested(op.title) /\ ~Settled(op)
  BY DEF Steady, SteadySteps, IsSteady, Settled, SameAs
<1>2. CASE op.kind # "create"
  <2>1. PICK p \in WikiPage : op.id \in DOMAIN t.pages[p] /\ Wears(t.pages[p][op.id], op.op)
    BY <1>1, <1>2 DEF Works
  <2>2. op.id[1] = Subject(Program[b][k])
    BY <1>2 DEF Subject, SameAs
  <2> QED BY <2>1, <2>2 DEF ShownOn, SameAs
<1>3. CASE op.kind = "create"
  <2>1. Creates(op) /\ Subject(Program[b][k]) = op.title /\ op.page \in WikiPage
    BY <1>3 DEF Creates, Subject, SameAs
  <2>2. PICK i : /\ i[1] = op.title /\ i \in DOMAIN t.pages[op.page]
                 /\ \/ <<op.op, i>> \in F \/ (op.by # AnyId /\ i = op.by)
                    \/ Wears(t.pages[op.page][i], op.op)
    BY <2>1 DEF Works
  <2>3. Wears(t.pages[op.page][i], op.op)
    <3> SUFFICES ASSUME <<op.op, i>> \in F \/ (op.by # AnyId /\ i = op.by)
                 PROVE  Wears(t.pages[op.page][i], op.op)
      BY <2>2
    <3>1. i \notin Firsts
      <4>1. CASE <<op.op, i>> \in F
        <5>1. PICK f \in F : f = <<op.op, i>>
          BY <4>1
        <5>2. f[1] = Program[b][k].op /\ f[2] = i /\ Program[b][k].kind = "create"
          BY <1>3, <5>1 DEF SameAs
        <5> QED BY <5>2 DEF NoFirsts
      <4>2. CASE op.by # AnyId
        BY <1>1, <1>3, <2>2, <4>2, FirstsAre DEF Settled, WikiPage
      <4> QED BY <4>1, <4>2
    <3>2. ~IsMoved(i[1])
      BY <1>1, <2>1, <2>2
    <3>3. PICK c \in Batch : \E n \in DOMAIN Program[c] :
                               CreatedBy(Program[c][n], i, op.page, t.pages[op.page][i])
      BY <2>1, <2>2, <3>1, <3>2 DEF AtHome
    <3>4. PICK n \in DOMAIN Program[c] : CreatedBy(Program[c][n], i, op.page, t.pages[op.page][i])
      BY <3>3
    <3>5. Claims(Program[c][n], op.title) /\ Claims(Program[b][k], op.title)
      BY <1>3, <2>1, <2>2, <3>4 DEF CreatedBy, Claims, SameAs, Creates
    <3>6. c = b /\ n = k
      BY <1>1, <1>3, <3>5 DEF Uncontested
    <3> QED BY <3>4, <3>6 DEF CreatedBy, SameAs
  <2> QED BY <2>1, <2>2, <2>3 DEF ShownOn, SameAs
<1> QED BY <1>2, <1>3

----------------------------------------------------------------------------
(* An entity that one operation moves.                                     *)

(* The one operation that moves an entity of the start.  Entities of its   *)
(* title are where they were at the start, or on its page; once planned,   *)
(* on its page alone.                                                      *)
Sole(t, b, k) ==
  /\ k \in DOMAIN Program[b] /\ Relocates(Program[b][k], t) /\ Uncontested(t)

Roams(pgs) ==
  \A b \in Batch : \A k \in DOMAIN Program[b] : \A p \in WikiPage : \A j \in DOMAIN pgs[p] :
    Sole(j[1], b, k) => j \in Firsts /\ p \in {FirstEntity[j[1]], Program[b][k].page}

Brought(pgs, o) ==
  /\ o.id \in Firsts /\ o.id \in DOMAIN pgs[o.page]
  /\ FirstEntity[o.id[1]] # o.page /\ o.id \notin DOMAIN pgs[FirstEntity[o.id[1]]]

(* Where entities of a title are.                                          *)
SamePlaces(old, new, t) ==
  \A p \in WikiPage : {j \in DOMAIN new[p] : j[1] = t} = {j \in DOMAIN old[p] : j[1] = t}

LEMMA SoleIsOne ==
  ASSUME NEW t, NEW b \in Batch, NEW k, Sole(t, b, k)
  PROVE  /\ \A c \in Batch : \A n \in DOMAIN Program[c] :
              Claims(Program[c][n], t) => c = b /\ n = k
         /\ \A c \in Batch : \A n \in DOMAIN Program[c] :
              Creates(Program[c][n]) => Program[c][n].title # t
<1>1. Claims(Program[b][k], t) /\ Program[b][k].kind = "move" /\ k \in DOMAIN Program[b]
  BY DEF Sole, Claims, Relocates
<1>2. \A c \in Batch : \A n \in DOMAIN Program[c] : Claims(Program[c][n], t) => c = b /\ n = k
  BY <1>1 DEF Sole, Uncontested
<1>3. ASSUME NEW c \in Batch, NEW n \in DOMAIN Program[c],
             Creates(Program[c][n]), Program[c][n].title = t
      PROVE  FALSE
  <2>1. Claims(Program[c][n], t) /\ Program[c][n].kind # "move"
    BY <1>3 DEF Claims, Creates
  <2> QED BY <1>1, <1>2, <2>1
<1> QED BY <1>2, <1>3

LEMMA OperationRoams ==
  ASSUME NEW b \in Batch, NEW k \in DOMAIN Program[b], NEW op, SameAs(op, Program[b][k]),
         NEW s, Roams(s.pages), NEW F,
         NEW t, Works(s, t, op, F), op.kind = "move" => Carries(s, t, op)
  PROVE  /\ Roams(t.pages)
         /\ \A u, c, n : (c \in Batch /\ Sole(u, c, n) /\ (c # b \/ n # k))
                            => SamePlaces(s.pages, t.pages, u)
         /\ \A u : Sole(u, b, k) => Brought(t.pages, Program[b][k])
<1>1. ASSUME NEW u, NEW c \in Batch, NEW n, Sole(u, c, n), c # b \/ n # k
      PROVE  SamePlaces(s.pages, t.pages, u)
  <2>1. ~Claims(Program[b][k], u)
    BY <1>1, SoleIsOne
  <2>2. CASE op.kind = "move"
    <3>1. op.id[1] # u
      BY <2>1, <2>2 DEF Claims, Relocates, SameAs
    <3>2. ASSUME NEW p \in WikiPage, NEW j, j[1] = u
          PROVE  j \in DOMAIN t.pages[p] <=> j \in DOMAIN s.pages[p]
      <4>1. j # op.id
        BY <3>1, <3>2
      <4> QED BY <2>2, <4>1 DEF Carries
    <3> QED BY <3>2 DEF SamePlaces
  <2>3. CASE op.kind # "move"
    <3>1. ASSUME NEW p \in WikiPage, NEW j \in DOMAIN t.pages[p] \ DOMAIN s.pages[p]
          PROVE  j[1] # u
      <4>1. Creates(op) /\ j[1] = op.title
        BY <2>3, <3>1 DEF Works, Adds
      <4>2. Creates(Program[b][k]) /\ op.title = Program[b][k].title
        BY <4>1 DEF Creates, SameAs
      <4> QED BY <2>1, <4>1, <4>2 DEF Claims
    <3>2. \A p \in WikiPage : \A j \in DOMAIN s.pages[p] : j \in DOMAIN t.pages[p]
      BY <2>3 DEF Works, PageGrows
    <3> QED BY <3>1, <3>2 DEF SamePlaces
  <2> QED BY <2>2, <2>3
<1>2. ASSUME NEW u, Sole(u, b, k)
      PROVE  /\ op.id[1] = u /\ op.id \in Firsts /\ Brought(t.pages, Program[b][k])
             /\ \A p \in WikiPage : \A j \in DOMAIN t.pages[p] :
                  j[1] = u => j \in Firsts /\ p \in {FirstEntity[u], op.page}
  <2>1. op.kind = "move" /\ op.id[1] = u /\ op.page = Program[b][k].page /\ op.id = Program[b][k].id
    BY <1>2 DEF Sole, Relocates, SameAs
  <2>2. PICK from : /\ from \in WikiPage /\ op.id \in DOMAIN s.pages[from] /\ from # op.page
                    /\ \A p \in WikiPage :
                         DOMAIN t.pages[p] = (DOMAIN s.pages[p] \ (IF p = from THEN {op.id} ELSE {}))
                                               \cup (IF p = op.page THEN {op.id} ELSE {})
    BY <2>1 DEF Carries
  <2>3. \A p \in WikiPage : \A j \in DOMAIN s.pages[p] :
          j[1] = u => j \in Firsts /\ p \in {FirstEntity[u], op.page}
    BY <1>2, <2>1 DEF Roams
  <2>4. op.id \in Firsts /\ from = FirstEntity[u]
    BY <2>1, <2>2, <2>3
  <2>5. op.page \in WikiPage
    <3>1. k \in DOMAIN Program[b] /\ Program[b][k].kind = "move"
      BY <1>2 DEF Sole, Relocates
    <3>2. Program[b][k].page \in WikiPage
      BY <3>1, WikiAssumption DEF WikiAssumption, WikiPage
    <3> QED BY <2>1, <3>2
  <2>6. Brought(t.pages, Program[b][k])
    BY <2>1, <2>2, <2>4, <2>5 DEF Brought
  <2>7. ASSUME NEW p \in WikiPage, NEW j \in DOMAIN t.pages[p], j[1] = u
        PROVE  j \in Firsts /\ p \in {FirstEntity[u], op.page}
    <3>1. j \in DOMAIN s.pages[p] \/ (j = op.id /\ p = op.page)
      BY <2>2, <2>7
    <3> QED BY <2>3, <2>4, <2>7, <3>1
  <2> QED BY <2>1, <2>4, <2>6, <2>7
<1>3. Roams(t.pages)
  <2> SUFFICES ASSUME NEW c \in Batch, NEW n \in DOMAIN Program[c], NEW p \in WikiPage,
                      NEW j \in DOMAIN t.pages[p], Sole(j[1], c, n)
               PROVE  j \in Firsts /\ p \in {FirstEntity[j[1]], Program[c][n].page}
    BY DEF Roams
  <2>1. CASE c = b /\ n = k
    <3>1. op.page = Program[b][k].page
      BY DEF SameAs
    <3> QED BY <1>2, <2>1, <3>1
  <2>2. CASE c # b \/ n # k
    <3>1. SamePlaces(s.pages, t.pages, j[1])
      BY <1>1, <2>2
    <3>2. j \in DOMAIN s.pages[p]
      BY <3>1 DEF SamePlaces
    <3> QED BY <3>2 DEF Roams
  <2> QED BY <2>1, <2>2
<1> QED BY <1>1, <1>2, <1>3

(* What is brought stays brought while places stay.                        *)
LEMMA StaysBrought ==
  ASSUME NEW old, NEW new, NEW o, Brought(old, o), SamePlaces(old, new, o.id[1]),
         o.page \in WikiPage
  PROVE  Brought(new, o)
BY FirstsAre DEF Brought, SamePlaces

(* A plan under way, after n operations, on pages in order.                *)
InOrder(pgs) == IsFiniteSet(Ids(pgs)) /\ AtHome(pgs) /\ Roams(pgs)

Unfolds(b, n, pgs, s) ==
  /\ InOrder(s.pages) /\ NoFirsts(s.created)
  /\ Tracks(b, pgs, s.pages)
  /\ \A k \in Steady(b) : k <= n => ShownOn(s.pages, Program[b][k])
  /\ \A u, k : (Sole(u, b, k) /\ k <= n) => Brought(s.pages, Program[b][k])
  /\ \A u, c, k : (c \in Batch /\ c # b /\ Sole(u, c, k)) => SamePlaces(pgs, s.pages, u)

LEMMA OperationLeaves ==
  ASSUME NEW b \in Batch, NEW n \in DOMAIN Program[b], NEW op, SameAs(op, Program[b][n]),
         op.kind \in Kinds, op.kind \in {"create", "replace", "move"} => op.page \in WikiPage,
         NEW pgs, NEW s, PlanOK(s), Unfolds(b, n - 1, pgs, s),
         NEW F, Forces(F, op), NoFirsts(F), NEW t, t = PlanOperation(s, op, F), t.ok
  PROVE  Unfolds(b, n, pgs, t)
<1>1. /\ PlanOK(t) /\ Works(s, t, op, F) /\ (op.kind = "move" => Carries(s, t, op))
  BY OperationWorks DEF Unfolds, InOrder
<1>2. AtHome(t.pages) /\ NoFirsts(t.created)
  BY <1>1, StaysAtHome DEF Unfolds, InOrder
<1>3. Tracks(b, pgs, t.pages)
  BY <1>1, OperationTracks DEF Unfolds
<1>4. /\ Roams(t.pages)
      /\ \A u, c, k : (c \in Batch /\ Sole(u, c, k) /\ (c # b \/ k # n))
                         => SamePlaces(s.pages, t.pages, u)
      /\ \A u : Sole(u, b, n) => Brought(t.pages, Program[b][n])
  BY <1>1, OperationRoams DEF Unfolds, InOrder
<1>5. IsFiniteSet(Ids(t.pages))
  BY <1>1 DEF Works
<1>6. \A k \in DOMAIN Program[b] : k <= n => k <= n - 1 \/ k = n
  BY OperationsAre
<1>7. ASSUME NEW k \in Steady(b), k <= n PROVE ShownOn(t.pages, Program[b][k])
  <2>1. CASE k = n
    BY <1>1, <1>2, <2>1, OperationShows
  <2>2. CASE k # n
    <3>1. ShownOn(s.pages, Program[b][k])
      BY <1>6, <1>7, <2>2 DEF Steady, SteadySteps, IsSteady, Unfolds
    <3>2. Tracks(b, s.pages, t.pages)
      <4>1. Tracks(b, s.pages, s.pages)
        BY DEF Tracks
      <4> QED BY <1>1, <4>1, OperationTracks
    <3> QED BY <3>1, <3>2, StaysShown
  <2> QED BY <2>1, <2>2
<1>8. ASSUME NEW u, NEW k, Sole(u, b, k), k <= n PROVE Brought(t.pages, Program[b][k])
  <2>1. CASE k = n
    BY <1>4, <1>8, <2>1
  <2>2. CASE k # n
    <3>1. k \in DOMAIN Program[b] /\ Program[b][k].kind = "move" /\ Program[b][k].id[1] = u
      BY <1>8 DEF Sole, Relocates
    <3>2. Brought(s.pages, Program[b][k]) /\ SamePlaces(s.pages, t.pages, u)
      BY <1>4, <1>6, <1>8, <2>2, <3>1 DEF Unfolds
    <3>3. Program[b][k].page \in WikiPage
      BY <3>1, WikiAssumption DEF WikiAssumption, WikiPage
    <3> QED BY <3>1, <3>2, <3>3, StaysBrought
  <2> QED BY <2>1, <2>2
<1>9. ASSUME NEW u, NEW c \in Batch, c # b, NEW k, Sole(u, c, k)
      PROVE  SamePlaces(pgs, t.pages, u)
  <2>1. SamePlaces(pgs, s.pages, u) /\ SamePlaces(s.pages, t.pages, u)
    BY <1>4, <1>9 DEF Unfolds
  <2> QED BY <2>1 DEF SamePlaces
<1> QED BY <1>2, <1>3, <1>4, <1>5, <1>7, <1>8, <1>9 DEF Unfolds, InOrder

LEMMA PlannedLeaves ==
  ASSUME NEW b \in Batch, Matches(b, batches[b]), BatchOK(batches[b]),
         NEW pgs, PagesOK(pgs), InOrder(pgs), NEW F, Given(b, F), NoFirsts(F),
         NEW plan, plan = PlannedOn(pgs, batches[b], F), plan.ok
  PROVE  /\ InOrder(plan.pages) /\ NoFirsts(plan.created) /\ Tracks(b, pgs, plan.pages)
         /\ \A k \in Steady(b) : ShownOn(plan.pages, Program[b][k])
         /\ \A u, k : Sole(u, b, k) => Brought(plan.pages, Program[b][k])
         /\ \A u, c, k : (c \in Batch /\ c # b /\ Sole(u, c, k)) => SamePlaces(pgs, plan.pages, u)
<1> DEFINE L == Len(batches[b])
<1>1. PICK after : PlansOf(after, pgs, batches[b], F)
  BY PlansFollow
<1>2. /\ L \in Nat /\ L = Len(Program[b]) /\ DOMAIN Program[b] = 1 .. L
  BY OperationsAre DEF Matches
<1> DEFINE bad == {n \in 0 .. L : after[n].ok /\ ~Unfolds(b, n, pgs, after[n])}
<1>3. Unfolds(b, 0, pgs, after[0])
  <2>1. after[0].pages = pgs /\ after[0].created = {}
    BY <1>1 DEF PlansOf
  <2>2. \A k \in DOMAIN Program[b] : ~(k <= 0)
    BY <1>2
  <2>3. \A u, k : Sole(u, b, k) => k \in DOMAIN Program[b]
    BY DEF Sole
  <2> QED BY <2>1, <2>2, <2>3
          DEF Unfolds, NoFirsts, Tracks, Steady, SteadySteps, IsSteady, SamePlaces
<1>4. bad = {}
  <2> SUFFICES ASSUME bad # {} PROVE FALSE
    OBVIOUS
  <2>1. PICK n \in bad : \A k \in bad : n <= k
    <3>1. bad \in SUBSET Nat
      BY <1>2
    <3> QED BY <3>1, LeastNatural
  <2>2. n # 0
    BY <1>3, <2>1
  <2>3. n \in 1 .. L /\ n - 1 \in 0 .. L /\ ~(n <= n - 1)
    BY <1>2, <2>1, <2>2
  <2> DEFINE s == after[n - 1]
             t == after[n]
             op == batches[b][n]
  <2>4. PlanOK(s) /\ t = PlanOperation(s, op, F) /\ t.ok
    BY <1>1, <2>1, <2>3 DEF PlansOf
  <2>5. s.ok
    BY <2>4 DEF PlanOperation
  <2>6. Unfolds(b, n - 1, pgs, s)
    BY <2>1, <2>3, <2>5
  <2>7. SameAs(op, Program[b][n]) /\ op.kind \in Kinds
    BY <1>2, <2>3, OperationsAre DEF Matches, SameAs
  <2>8. op.kind \in {"create", "replace", "move"} => op.page \in WikiPage
    BY <1>2, <2>3, <2>7, WikiAssumption DEF SameAs, WikiAssumption, WikiPage
  <2> HIDE DEF s, t, op
  <2>9. Forces(F, op)
    BY <1>2, <2>3, <2>7, ForcedIsGiven DEF SameAs
  <2>10. Unfolds(b, n, pgs, t)
    BY <1>2, <2>3, <2>4, <2>6, <2>7, <2>8, <2>9, OperationLeaves
  <2> QED BY <2>1, <2>10 DEF t
<1>5. Unfolds(b, L, pgs, plan)
  <2>1. plan = after[L] /\ L \in 0 .. L
    BY <1>1, <1>2 DEF PlansOf
  <2> QED BY <1>4, <2>1
<1>6. \A k \in DOMAIN Program[b] : k <= L
  BY <1>2
<1>7. \A u, k : Sole(u, b, k) => k \in DOMAIN Program[b]
  BY DEF Sole
<1> QED BY <1>5, <1>6, <1>7 DEF Unfolds, Steady, SteadySteps, IsSteady

----------------------------------------------------------------------------
(* The invariant: while no page was written over that had changed since    *)
(* it was read, what a process has read and written lasts, and the marks of *)
(* a batch are all there or none is, unless a process is between two of    *)
(* its pages or was stopped there.                                         *)

(* What no operation moves stays on its page, with the marks on it.        *)
KeepsPage(old, new) ==
  \A j \in DOMAIN old : ~IsMoved(j[1]) => j \in DOMAIN new /\ old[j].marks \subseteq new[j].marks

Keeps(old, new) == \A p \in WikiPage : KeepsPage(old[p], new[p])

(* Some process is between two pages of the batch.                         *)
Midway(b) == \E w \in Writer : At(w, b) /\ Begun(w) /\ writer[w].todo # {}

(* What a process is about to write, compared to the pages it has read.    *)
DraftOK(x) ==
  /\ {"at", "batch", "created", "was", "pages", "todo"} \subseteq DOMAIN x
  /\ InOrder(x.pages) /\ Keeps(x.was, x.pages)
  /\ \A p \in x.todo : x.pages[p] # x.was[p]
  /\ \A k \in Steady(x.batch) : ShownOn(x.pages, Program[x.batch][k])
  /\ \A c \in Batch \ {x.batch} : \A k \in DOMAIN Program[c] :
       ShownOn(x.pages, Program[c][k]) => ShownOn(x.was, Program[c][k])
  /\ \A u \in Title : \A k \in DOMAIN Program[x.batch] :
       Sole(u, x.batch, k) => Brought(x.pages, Program[x.batch][k])
  /\ \A u \in Title : \A c \in Batch \ {x.batch} : \A k \in DOMAIN Program[c] :
       Sole(u, c, k) => SamePlaces(x.was, x.pages, u)

(* What it has written is still there, and what it has read.               *)
Lasts(x) ==
  /\ Keeps(x.was, wiki)
  /\ \A p \in WikiPage \ x.todo : KeepsPage(x.pages[p], wiki[p])
  /\ \A u \in Title : \A k \in DOMAIN Program[x.batch] : Sole(u, x.batch, k) =>
       LET o == Program[x.batch][k]
       IN /\ o.page \notin x.todo => o.id \in DOMAIN wiki[o.page]
          /\ FirstEntity[u] \notin x.todo => o.id \notin DOMAIN wiki[FirstEntity[u]]

(* What it knows while it reads: a page it has read as it was then, every   *)
(* other one as it is now.  So reading a page changes nothing.             *)
Seen(x, pgs) == [p \in WikiPage |-> IF p \in x.todo THEN pgs[p] ELSE x.was[p]]

(* What it has read is still there, and an entity that it is to move is    *)
(* where it was then as far as the two ends of the move go.                *)
StillMoves(x, old, new) ==
  \A u \in Title : \A k \in DOMAIN Program[x.batch] : Sole(u, x.batch, k) =>
    LET o == Program[x.batch][k]
    IN /\ o.id \in DOMAIN old[o.page] => o.id \in DOMAIN new[o.page]
       /\ (FirstEntity[u] \in WikiPage /\ o.id \in DOMAIN new[FirstEntity[u]])
            => o.id \in DOMAIN old[FirstEntity[u]]

Recalls(x, pgs) == Keeps(Seen(x, pgs), pgs) /\ StillMoves(x, Seen(x, pgs), pgs)

IsAtOne(u, q) ==
  \E p \in {FirstEntity[u], q} : \A r \in {FirstEntity[u], q} : <<u, 1>> \in DOMAIN wiki[r] <=> r = p

AllShown(b) == \A k \in Steady(b) : ShownOn(wiki, Program[b][k])
NoneShown(b) == \A k \in Steady(b) : ~ShownOn(wiki, Program[b][k])


(* What the batch moves is on one page.                                    *)
Placed(b) ==
  \A u \in Title : \A k \in DOMAIN Program[b] :
    (Sole(u, b, k) /\ FirstEntity[u] # 0) => IsAtOne(u, Program[b][k].page)

AgreesOn(b) ==
  /\ log[b].phase = "complete" => AllShown(b)
  /\ b \notin half => Midway(b) \/ ((AllShown(b) \/ NoneShown(b)) /\ Placed(b))

IsReading(w) == writer[w].at = "read"
Drafts(w) == writer[w].at \in {"planned", "writing"}

OrderInv ==
  /\ InOrder(wiki)
  /\ \A b \in Batch : NoFirsts(log[b].created)
  /\ \A w \in Writer : writer[w] # Out => NoFirsts(writer[w].created)
  /\ \A w \in Writer : /\ IsReading(w) => InOrder(Seen(writer[w], wiki))
                       /\ Drafts(w) => DraftOK(writer[w])

AgreeInv ==
  ~clobbered =>
    /\ \A w \in Writer : /\ IsReading(w) => Recalls(writer[w], wiki)
                         /\ Drafts(w) => Lasts(writer[w])
    /\ \A b \in Batch : AgreesOn(b)

LEMMA KeepsOn ==
  /\ \A x : KeepsPage(x, x) /\ Keeps(x, x)
  /\ \A x, y, z : KeepsPage(x, y) /\ KeepsPage(y, z) => KeepsPage(x, z)
  /\ \A x, y, z : Keeps(x, y) /\ Keeps(y, z) => Keeps(x, z)
<1>1. \A x : KeepsPage(x, x)
  BY DEF KeepsPage
<1>2. \A x, y, z : KeepsPage(x, y) /\ KeepsPage(y, z) => KeepsPage(x, z)
  BY DEF KeepsPage
<1> QED BY <1>1, <1>2 DEF Keeps

LEMMA TracksKeeps ==
  ASSUME NEW b \in Batch, NEW old, NEW new, Tracks(b, old, new)
  PROVE  Keeps(old, new)
BY DEF Tracks, Keeps, KeepsPage, IsMoved

LEMMA KeepsShown ==
  ASSUME NEW c \in Batch, NEW k \in Steady(c), NEW old, NEW new,
         Keeps(old, new), ShownOn(old, Program[c][k])
  PROVE  ShownOn(new, Program[c][k])
<1>1. PICK p \in WikiPage :
        \E j \in DOMAIN old[p] : j[1] = Subject(Program[c][k]) /\ Wears(old[p][j], Program[c][k].op)
  BY DEF ShownOn
<1>2. PICK j \in DOMAIN old[p] : j[1] = Subject(Program[c][k]) /\ Wears(old[p][j], Program[c][k].op)
  BY <1>1
<1>3. ~IsMoved(j[1])
  BY <1>2 DEF Steady, SteadySteps, IsSteady
<1>4. j \in DOMAIN new[p] /\ old[p][j].marks \subseteq new[p][j].marks
  BY <1>3 DEF Keeps, KeepsPage
<1> QED BY <1>2, <1>4 DEF ShownOn, Wears

(* A plan brings no mark of another batch.                                 *)
LEMMA PlannedShowsOthers ==
  ASSUME NEW b \in Batch, NEW c \in Batch, c # b, NEW k \in DOMAIN Program[c],
         NEW pgs, NEW new, \A x \in Copies(new) : Comes(b, pgs, x), ShownOn(new, Program[c][k])
  PROVE  ShownOn(pgs, Program[c][k])
<1>0. PICK p \in WikiPage :
        \E j \in DOMAIN new[p] : j[1] = Subject(Program[c][k]) /\ Wears(new[p][j], Program[c][k].op)
  BY DEF ShownOn
<1>1. PICK j \in DOMAIN new[p] : j[1] = Subject(Program[c][k]) /\ Wears(new[p][j], Program[c][k].op)
  BY <1>0
<1>2. PICK x : x = <<j, new[p][j]>>
  OBVIOUS
<1>3. x \in Copies(new) /\ x[1] = j /\ x[2] = new[p][j]
  BY <1>2 DEF Copies
<1>4. PICK m \in x[2].marks : m[1] = Program[c][k].op
  BY <1>1, <1>3 DEF Wears
<1>5. m[1] \notin OpsOf(b)
  BY <1>4, LabelsDiffer DEF OpsOf
<1>6. PICK y \in Copies(pgs) : y[1] = j /\ m \in y[2].marks
  BY <1>3, <1>5 DEF Comes
<1>7. PICK q \in WikiPage : \E i \in DOMAIN pgs[q] : y = <<i, pgs[q][i]>>
  BY <1>6, CopiesOf
<1>8. PICK i \in DOMAIN pgs[q] : y = <<i, pgs[q][i]>>
  BY <1>7
<1>9. i = j /\ Wears(pgs[q][i], Program[c][k].op)
  BY <1>4, <1>6, <1>8 DEF Wears
<1> QED BY <1>1, <1>8, <1>9 DEF ShownOn

LEMMA MoversAre ==
  ASSUME NEW u, NEW b \in Batch, NEW k, Sole(u, b, k)
  PROVE  /\ k \in DOMAIN Program[b] /\ Program[b][k].kind = "move" /\ Program[b][k].id[1] = u
         /\ Program[b][k].page \in WikiPage
<1>1. k \in DOMAIN Program[b] /\ Program[b][k].kind = "move" /\ Program[b][k].id[1] = u
  BY DEF Sole, Relocates
<1> QED BY <1>1, WikiAssumption DEF WikiAssumption, WikiPage

(* Each page is from one of two wikis.                                     *)
LEMMA WrittenInOrder ==
  ASSUME NEW pgs, InOrder(pgs), NEW plan, InOrder(plan),
         NEW new, \A q \in WikiPage : new[q] = pgs[q] \/ new[q] = plan[q]
  PROVE  InOrder(new)
<1>1. IsFiniteSet(Ids(new))
  <2>1. Ids(new) \subseteq Ids(pgs) \cup Ids(plan)
    BY DEF Ids
  <2>2. IsFiniteSet(Ids(pgs) \cup Ids(plan))
    BY FS_Union DEF InOrder
  <2> QED BY <2>1, <2>2, FS_Subset
<1>2. AtHome(new)
  <2>1. ASSUME NEW i \in Firsts, ~IsMoved(i[1]) PROVE i \in DOMAIN new[FirstEntity[i[1]]]
    BY <2>1, FirstsAre DEF InOrder, AtHome
  <2>2. ASSUME NEW q \in WikiPage, NEW j \in DOMAIN new[q], ~IsMoved(j[1])
        PROVE  IF j \in Firsts THEN q = FirstEntity[j[1]]
               ELSE \E b \in Batch : \E k \in DOMAIN Program[b] :
                      CreatedBy(Program[b][k], j, q, new[q][j])
    <3>1. CASE new[q] = pgs[q]
      BY <2>2, <3>1 DEF InOrder, AtHome
    <3>2. CASE new[q] = plan[q]
      BY <2>2, <3>2 DEF InOrder, AtHome
    <3> QED BY <3>1, <3>2
  <2> QED BY <2>1, <2>2 DEF AtHome
<1>3. Roams(new)
  <2> SUFFICES ASSUME NEW b \in Batch, NEW k \in DOMAIN Program[b], NEW q \in WikiPage,
                      NEW j \in DOMAIN new[q], Sole(j[1], b, k)
               PROVE  j \in Firsts /\ q \in {FirstEntity[j[1]], Program[b][k].page}
    BY DEF Roams
  <2>1. j \in DOMAIN pgs[q] \/ j \in DOMAIN plan[q]
    OBVIOUS
  <2> QED BY <2>1 DEF InOrder, Roams
<1> QED BY <1>1, <1>2, <1>3 DEF InOrder

(* The pages change under a process that reads.                            *)
LEMMA SeenInOrder ==
  ASSUME NEW x, NEW old, InOrder(Seen(x, old)), NEW new, InOrder(new)
  PROVE  InOrder(Seen(x, new))
<1>1. \A q \in WikiPage : Seen(x, new)[q] = Seen(x, old)[q] \/ Seen(x, new)[q] = new[q]
  BY DEF Seen
<1> QED BY <1>1, WrittenInOrder

LEMMA RecallsOn ==
  ASSUME NEW x, NEW old, Recalls(x, old), NEW new, Keeps(old, new), StillMoves(x, old, new),
         x.batch \in Batch
  PROVE  Recalls(x, new)
<1>1. \A q \in WikiPage : \/ Seen(x, new)[q] = new[q] /\ Seen(x, old)[q] = old[q]
                          \/ Seen(x, new)[q] = Seen(x, old)[q]
  BY DEF Seen
<1>2. Keeps(Seen(x, new), new)
  <2> SUFFICES ASSUME NEW q \in WikiPage PROVE KeepsPage(Seen(x, new)[q], new[q])
    BY DEF Keeps
  <2>1. KeepsPage(Seen(x, old)[q], old[q]) /\ KeepsPage(old[q], new[q])
    BY DEF Recalls, Keeps
  <2> QED BY <1>1, <2>1, KeepsOn
<1>3. StillMoves(x, Seen(x, new), new)
  <2> SUFFICES ASSUME NEW u \in Title, NEW k \in DOMAIN Program[x.batch], Sole(u, x.batch, k),
                      NEW o, o = Program[x.batch][k]
               PROVE  /\ o.id \in DOMAIN Seen(x, new)[o.page] => o.id \in DOMAIN new[o.page]
                      /\ (FirstEntity[u] \in WikiPage /\ o.id \in DOMAIN new[FirstEntity[u]])
                           => o.id \in DOMAIN Seen(x, new)[FirstEntity[u]]
    BY DEF StillMoves
  <2>1. o.page \in WikiPage
    BY MoversAre
  <2>2. /\ o.id \in DOMAIN Seen(x, old)[o.page] => o.id \in DOMAIN old[o.page]
        /\ (FirstEntity[u] \in WikiPage /\ o.id \in DOMAIN old[FirstEntity[u]])
             => o.id \in DOMAIN Seen(x, old)[FirstEntity[u]]
    BY DEF Recalls, StillMoves
  <2>3. /\ o.id \in DOMAIN old[o.page] => o.id \in DOMAIN new[o.page]
        /\ (FirstEntity[u] \in WikiPage /\ o.id \in DOMAIN new[FirstEntity[u]])
             => o.id \in DOMAIN old[FirstEntity[u]]
    BY DEF StillMoves
  <2> QED BY <1>1, <2>1, <2>2, <2>3
<1> QED BY <1>2, <1>3 DEF Recalls

(* All pages are there as planned: so the batch is.                        *)
LEMMA DoneIsWhole ==
  ASSUME NEW x, DraftOK(x), Lasts(x), x.todo = {}, x.batch \in Batch
  PROVE  AllShown(x.batch) /\ Placed(x.batch)
<1>1. PICK b \in Batch : b = x.batch
  OBVIOUS
<1>2. Keeps(x.pages, wiki)
  BY DEF Lasts, Keeps
<1>3. AllShown(b)
  BY <1>1, <1>2, KeepsShown DEF DraftOK, AllShown
<1>4. ASSUME NEW u \in Title, NEW k \in DOMAIN Program[b], Sole(u, b, k)
      PROVE  IsAtOne(u, Program[b][k].page)
  <2>1. PICK o : o = Program[b][k]
    OBVIOUS
  <2>2. o.id \in DOMAIN wiki[o.page] /\ o.id \notin DOMAIN wiki[FirstEntity[u]]
    BY <1>1, <1>4, <2>1 DEF Lasts
  <2>3. o.id = <<u, 1>> /\ FirstEntity[u] # o.page
    <3>1. Brought(x.pages, o) /\ o.id[1] = u
      BY <1>1, <1>4, <2>1, MoversAre DEF DraftOK
    <3> QED BY <3>1, FirstsAre DEF Brought
  <2>4. \A r \in {FirstEntity[u], o.page} : <<u, 1>> \in DOMAIN wiki[r] <=> r = o.page
    BY <2>2, <2>3
  <2> QED BY <2>1, <2>4 DEF IsAtOne
<1> QED BY <1>1, <1>3, <1>4 DEF Placed

LEMMA OrderBegins == WikiInit => OrderInv /\ AgreeInv
<1> SUFFICES ASSUME WikiInit PROVE OrderInv /\ AgreeInv
  OBVIOUS
<1>1. /\ \A w \in Writer : writer[w] = Out
      /\ \A b \in Batch : log[b].phase = "none" /\ log[b].created = {}
      /\ \A p \in WikiPage : DOMAIN wiki[p] = {<<t, 1>> : t \in {u \in Title : FirstEntity[u] = p}}
      /\ \A p \in WikiPage : \A j \in DOMAIN wiki[p] : wiki[p][j] = Made({}, {})
  BY DEF WikiInit
<1>2. \A w \in Writer : ~Drafts(w) /\ ~IsReading(w)
  BY <1>1 DEF Drafts, IsReading, Out
<1>3. \A p \in WikiPage : \A j \in DOMAIN wiki[p] :
        j[1] \in Title /\ j = <<j[1], 1>> /\ FirstEntity[j[1]] = p /\ j \in Firsts
  <2> SUFFICES ASSUME NEW p \in WikiPage, NEW j \in DOMAIN wiki[p]
               PROVE  j[1] \in Title /\ j = <<j[1], 1>> /\ FirstEntity[j[1]] = p /\ j \in Firsts
    OBVIOUS
  <2>1. PICK t \in Title : j = <<t, 1>> /\ FirstEntity[t] = p
    BY <1>1
  <2>2. p # 0
    BY DEF WikiPage
  <2> QED BY <2>1, <2>2 DEF Firsts
<1>4. \A u \in Title : \A p \in WikiPage : <<u, 1>> \in DOMAIN wiki[p] <=> FirstEntity[u] = p
  BY <1>1
<1>5. IsFiniteSet(Ids(wiki))
  <2> DEFINE f == [t \in Title |-> <<t, 1>>]
             S == {<<t, 1>> : t \in Title}
  <2>1. f \in Surjection(Title, S)
    BY DEF Surjection
  <2>2. IsFiniteSet(Title)
    BY WikiAssumption DEF WikiAssumption
  <2>3. IsFiniteSet(S)
    <3> HIDE DEF f, S
    <3> QED BY <2>1, <2>2, FS_Surjection
  <2>4. Ids(wiki) \subseteq S
    BY <1>3 DEF Ids
  <2> HIDE DEF S
  <2> QED BY <2>3, <2>4, FS_Subset
<1>6. InOrder(wiki)
  <2>1. AtHome(wiki)
    BY <1>3, <1>4, FirstsAre DEF AtHome
  <2>2. Roams(wiki)
    BY <1>3 DEF Roams
  <2> QED BY <1>5, <2>1, <2>2 DEF InOrder
<1>7. OrderInv
  BY <1>1, <1>2, <1>6 DEF OrderInv, NoFirsts
<1>8. ASSUME NEW b \in Batch PROVE AgreesOn(b)
  <2>1. NoneShown(b)
    BY <1>1 DEF NoneShown, ShownOn, Wears, Made
  <2>2. ASSUME NEW u \in Title, NEW k \in DOMAIN Program[b], Sole(u, b, k), FirstEntity[u] # 0
        PROVE  IsAtOne(u, Program[b][k].page)
    <3>1. Program[b][k].page \in WikiPage /\ FirstEntity[u] \in WikiPage
      BY <2>2, MoversAre, WikiAssumption DEF WikiAssumption, WikiPage
    <3> QED BY <1>4, <3>1 DEF IsAtOne
  <2> QED BY <1>1, <2>1, <2>2 DEF AgreesOn, Placed
<1> QED BY <1>2, <1>7, <1>8 DEF AgreeInv

----------------------------------------------------------------------------
(* The steps.                                                              *)

(* Nothing these invariants are about changes.                             *)
LEMMA StandsStill ==
  ASSUME OrderInv, AgreeInv, UNCHANGED <<wiki, writer, log, half, clobbered>>
  PROVE  OrderInv' /\ AgreeInv'
<1>1. OrderInv'
  BY DEF OrderInv, IsReading, Drafts, Seen, InOrder, Ids
<1>2. \A b \in Batch : AgreesOn(b) => AgreesOn(b)'
  BY DEF AgreesOn, Placed, Midway, At, Begun, AllShown, NoneShown, ShownOn, IsAtOne
<1>3. \A w \in Writer : Recalls(writer[w], wiki) => Recalls(writer[w], wiki)'
  BY DEF Recalls, StillMoves, Seen, Keeps
<1>4. AgreeInv'
  BY <1>2, <1>3 DEF AgreeInv, IsReading, Drafts, Lasts, Keeps
<1> QED BY <1>1, <1>4

(* A batch that a process is not about, or not between two pages of.       *)
LEMMA MidwayStays ==
  ASSUME WikiInv, NEW w \in Writer, NEW x, writer' = [writer EXCEPT ![w] = x],
         NEW b, Midway(b), ~(At(w, b) /\ Begun(w) /\ writer[w].todo # {})
  PROVE  Midway(b)'
<1>1. \A v \in Writer : v # w => writer'[v] = writer[v]
  BY DEF WikiInv, WritersInv
<1>2. PICK v \in Writer : At(v, b) /\ Begun(v) /\ writer[v].todo # {}
  BY DEF Midway
<1>3. v # w
  BY <1>2
<1>4. At(v, b)' /\ Begun(v)' /\ writer'[v].todo # {}
  BY <1>1, <1>2, <1>3 DEF At, Begun
<1> QED BY <1>4 DEF Midway

(* One process goes on, and no page changes.                               *)
LEMMA OneGoesOn ==
  ASSUME WikiInv, OrderInv, AgreeInv, NEW w \in Writer, NEW x,
         writer' = [writer EXCEPT ![w] = x], UNCHANGED <<wiki, clobbered>>,
         x # Out => NoFirsts(x.created),
         x.at = "read" => InOrder(Seen(x, wiki)) /\ (~clobbered => Recalls(x, wiki)),
         x.at \in {"planned", "writing"} => DraftOK(x) /\ (~clobbered => Lasts(x)),
         \A b \in Batch : /\ NoFirsts(log'[b].created)
                          /\ ~clobbered /\ log'[b].phase = "complete" => AllShown(b)
                          /\ ~clobbered /\ b \in half /\ b \notin half' => AllShown(b) /\ Placed(b),
         Begun(w) /\ writer[w].todo # {} => writer[w].batch \in half'
  PROVE  OrderInv' /\ AgreeInv'
<1>1. writer'[w] = x /\ \A v \in Writer : v # w => writer'[v] = writer[v]
  BY DEF WikiInv, WritersInv
<1>2. OrderInv'
  <2>1. InOrder(wiki)'
    BY DEF OrderInv, InOrder, Ids
  <2>2. ASSUME NEW v \in Writer
        PROVE  /\ writer'[v] # Out => NoFirsts(writer'[v].created)
               /\ Drafts(v)' => DraftOK(writer'[v])
               /\ IsReading(v)' => InOrder(Seen(writer'[v], wiki))
    BY <1>1 DEF OrderInv, Drafts, IsReading
  <2>3. ASSUME NEW v \in Writer, IsReading(v)' PROVE InOrder(Seen(writer[v], wiki))'
    <3>1. InOrder(Seen(writer'[v], wiki'))
      BY <2>2, <2>3
    <3> QED BY <3>1 DEF InOrder, Ids, Seen
  <2> QED BY <2>1, <2>2, <2>3 DEF OrderInv
<1>3. AgreeInv'
  <2> SUFFICES ASSUME ~clobbered
               PROVE  /\ \A v \in Writer : /\ IsReading(v)' => Recalls(writer[v], wiki)'
                                           /\ Drafts(v)' => Lasts(writer[v])'
                      /\ \A b \in Batch : AgreesOn(b)'
    BY DEF AgreeInv
  <2>1. ASSUME NEW v \in Writer, Drafts(v)' PROVE Lasts(writer[v])'
    <3>1. Lasts(writer'[v])
      BY <1>1, <2>1 DEF AgreeInv, Drafts
    <3> QED BY <3>1 DEF Lasts, Keeps
  <2>2. ASSUME NEW v \in Writer, IsReading(v)' PROVE Recalls(writer[v], wiki)'
    <3>1. Recalls(writer'[v], wiki)
      BY <1>1, <2>2 DEF AgreeInv, IsReading
    <3> QED BY <3>1 DEF Recalls, StillMoves, Seen, Keeps
  <2>3. ASSUME NEW b \in Batch PROVE AgreesOn(b)'
    <3>1. AgreesOn(b)
      BY DEF AgreeInv
    <3>2. /\ AllShown(b) <=> AllShown(b)'
          /\ NoneShown(b) <=> NoneShown(b)'
          /\ Placed(b) <=> Placed(b)'
      BY DEF AllShown, NoneShown, Placed, ShownOn, IsAtOne
    <3>3. Midway(b) /\ b \notin half' => Midway(b)'
      <4>1. b \notin half' => ~(At(w, b) /\ Begun(w) /\ writer[w].todo # {})
        BY DEF At
      <4> QED BY <4>1, MidwayStays
    <3> QED BY <3>1, <3>2, <3>3 DEF AgreesOn
  <2> QED BY <2>1, <2>2, <2>3
<1> QED BY <1>2, <1>3

(* A process that has read nothing, and one that reads a page.             *)
LEMMA SeesNothingYet ==
  ASSUME InOrder(wiki), NEW x, x.todo = WikiPage, x.batch \in Batch
  PROVE  InOrder(Seen(x, wiki)) /\ Recalls(x, wiki)
<1>1. \A q \in WikiPage : Seen(x, wiki)[q] = wiki[q]
  BY DEF Seen
<1>2. InOrder(Seen(x, wiki))
  BY <1>1, WrittenInOrder
<1>3. Keeps(Seen(x, wiki), wiki)
  BY <1>1, KeepsOn DEF Keeps
<1>4. StillMoves(x, Seen(x, wiki), wiki)
  BY <1>1, MoversAre DEF StillMoves
<1> QED BY <1>2, <1>3, <1>4 DEF Recalls

LEMMA ReadsOrderly ==
  ASSUME WikiInv, OrderInv, AgreeInv, NEW w \in Writer, NEW p \in WikiPage, ReadPage(w, p)
  PROVE  OrderInv' /\ AgreeInv'
<1>1. PICK y, now : y = writer[w] /\ now = ReadUpTo(w, p)
  OBVIOUS
<1>2. PICK x : x = [writer[w] EXCEPT !.was = now, !.todo = @ \ {p}]
  OBVIOUS
<1>3. /\ y.at = "read" /\ y # Out /\ WriterOK(y) /\ p \in y.todo /\ ~Begun(w)
      /\ UNCHANGED <<wiki, log, half, clobbered>>
  BY <1>1 DEF ReadPage, WikiInv, WritersInv, Out, Begun
<1>4. /\ writer' = [writer EXCEPT ![w] = x]
      /\ x.at = "read" /\ x.batch = y.batch /\ x.created = y.created
      /\ x.todo = y.todo \ {p} /\ x.was = [y.was EXCEPT ![p] = wiki[p]]
  BY <1>1, <1>2, <1>3 DEF ReadPage, ReadUpTo, WikiInv, WritersInv, WriterOK
<1>5. Seen(x, wiki) = Seen(y, wiki)
  <2>1. PagesOK(y.was)
    BY <1>3 DEF WriterOK
  <2> QED BY <1>3, <1>4, <2>1 DEF Seen, PagesOK
<1>6. InOrder(Seen(x, wiki)) /\ (~clobbered => Recalls(x, wiki)) /\ NoFirsts(x.created)
  BY <1>1, <1>3, <1>4, <1>5 DEF OrderInv, AgreeInv, IsReading, Recalls, StillMoves
<1>7. \A c \in Batch : /\ NoFirsts(log'[c].created)
                       /\ ~clobbered /\ log'[c].phase = "complete" => AllShown(c)
  BY <1>3 DEF OrderInv, AgreeInv, AgreesOn
<1> QED BY <1>3, <1>4, <1>6, <1>7, OneGoesOn

LEMMA EntersOrderly ==
  ASSUME WikiInv, OrderInv, AgreeInv, NEW w \in Writer, NEW b \in Batch, Enters(w, b),
         UNCHANGED <<wiki, log, half, clobbered>>
  PROVE  OrderInv' /\ AgreeInv'
<1>1. PICK x : x = [at |-> "read", batch |-> b, created |-> log[b].created,
                    was |-> Blank, todo |-> WikiPage]
  OBVIOUS
<1>2. writer[w] = Out /\ writer' = [writer EXCEPT ![w] = x]
  BY <1>1 DEF Enters
<1>3. /\ x.at = "read" /\ x.batch = b /\ x.created = log[b].created /\ x.todo = WikiPage
      /\ ~Begun(w)
  BY <1>1, <1>2 DEF Begun, Out
<1>4. NoFirsts(log[b].created) /\ InOrder(wiki)
  BY DEF OrderInv
<1>5. InOrder(Seen(x, wiki)) /\ Recalls(x, wiki)
  BY <1>3, <1>4, SeesNothingYet
<1>6. \A c \in Batch : /\ NoFirsts(log'[c].created)
                       /\ ~clobbered /\ log'[c].phase = "complete" => AllShown(c)
  BY DEF OrderInv, AgreeInv, AgreesOn
<1> QED BY <1>2, <1>3, <1>4, <1>5, <1>6, OneGoesOn

LEMMA StopsOrderly ==
  ASSUME WikiInv, OrderInv, AgreeInv, NEW w \in Writer, Stop(w)
  PROVE  OrderInv' /\ AgreeInv'
<1>1. Out.at \notin {"read", "planned", "writing"}
  BY DEF Out
<1>2. \A c \in Batch : /\ NoFirsts(log'[c].created)
                       /\ ~clobbered /\ log'[c].phase = "complete" => AllShown(c)
  BY DEF Stop, OrderInv, AgreeInv, AgreesOn
<1>3. /\ writer' = [writer EXCEPT ![w] = Out] /\ UNCHANGED <<wiki, clobbered>> /\ half \subseteq half'
      /\ Begun(w) /\ writer[w].todo # {} => writer[w].batch \in half'
  BY DEF Stop
<1> QED BY <1>1, <1>2, <1>3, OneGoesOn

LEMMA CompletesOrderly ==
  ASSUME WikiInv, HistoryInv, OrderInv, AgreeInv, NEW w \in Writer, LogComplete(w)
  PROVE  OrderInv' /\ AgreeInv'
<1>1. Out.at \notin {"read", "planned", "writing"}
  BY DEF Out
<1>2. /\ writer[w].at = "writing" /\ writer[w].todo = {} /\ Drafts(w) /\ writer[w] # Out
      /\ writer' = [writer EXCEPT ![w] = Out] /\ UNCHANGED <<wiki, clobbered>>
      /\ half' = half \ {writer[w].batch}
  BY DEF LogComplete, Drafts, Out
<1>3. PICK b : b = writer[w].batch
  OBVIOUS
<1>4. b \in Batch
  BY <1>2, <1>3, AtWorkOn
<1>5. /\ log'[b].created = writer[w].created
      /\ \A c \in Batch : c # b => log'[c] = log[c]
  BY <1>3, <1>4 DEF LogComplete, Logs, WikiInv, LogInv
<1>6. ASSUME ~clobbered PROVE AllShown(b) /\ Placed(b)
  <2>1. PICK x : x = writer[w]
    OBVIOUS
  <2>2. Lasts(x) /\ DraftOK(x) /\ x.todo = {} /\ x.batch = b
    BY <1>2, <1>3, <1>6, <2>1 DEF OrderInv, AgreeInv
  <2> QED BY <1>4, <2>2, DoneIsWhole
<1>7. ASSUME NEW c \in Batch
      PROVE  /\ NoFirsts(log'[c].created)
             /\ ~clobbered /\ log'[c].phase = "complete" => AllShown(c)
             /\ ~clobbered /\ c \in half /\ c \notin half' => AllShown(c) /\ Placed(c)
  <2>1. CASE c = b
    BY <1>2, <1>5, <1>6, <2>1 DEF OrderInv
  <2>2. CASE c # b
    BY <1>2, <1>3, <1>5, <2>2 DEF OrderInv, AgreeInv, AgreesOn
  <2> QED BY <2>1, <2>2
<1>8. Begun(w) /\ writer[w].todo # {} => writer[w].batch \in half'
  BY <1>2
<1> QED BY <1>1, <1>2, <1>7, <1>8, OneGoesOn

LEMMA IntendsOrderly ==
  ASSUME WikiInv, HistoryInv, OrderInv, AgreeInv, NEW w \in Writer, LogIntents(w)
  PROVE  OrderInv' /\ AgreeInv'
<1>1. PICK y : y = writer[w]
  OBVIOUS
<1>2. PICK x : x = [y EXCEPT !.at = "writing"]
  OBVIOUS
<1>3. /\ y.at = "planned" /\ Drafts(w) /\ y # Out
      /\ writer' = [writer EXCEPT ![w] = x] /\ UNCHANGED <<wiki, half, clobbered>>
  BY <1>1, <1>2 DEF LogIntents, Drafts, Out, WikiInv, WritersInv
<1>4. PICK b : b = y.batch
  OBVIOUS
<1>5. b \in Batch
  BY <1>1, <1>3, <1>4, AtWorkOn
<1>6. /\ log'[b].created = y.created
      /\ log'[b].phase = "complete" => log[b].phase = "complete"
      /\ \A c \in Batch : c # b => log'[c] = log[c]
  BY <1>1, <1>4, <1>5 DEF LogIntents, Logs, WikiInv, LogInv
<1>7. DraftOK(y) /\ NoFirsts(y.created) /\ (~clobbered => Lasts(y))
  BY <1>1, <1>3 DEF OrderInv, AgreeInv
<1>8. /\ x.at = "writing" /\ x.batch = y.batch /\ x.created = y.created /\ x.was = y.was
      /\ x.pages = y.pages /\ x.todo = y.todo /\ DOMAIN x = DOMAIN y
  BY <1>2, <1>7 DEF DraftOK
<1>9. DraftOK(x) /\ NoFirsts(x.created) /\ (~clobbered => Lasts(x))
  BY <1>7, <1>8 DEF DraftOK, Lasts
<1>10. ASSUME NEW c \in Batch
       PROVE  /\ NoFirsts(log'[c].created)
              /\ ~clobbered /\ log'[c].phase = "complete" => AllShown(c)
  <2>1. CASE c = b
    BY <1>6, <1>7, <2>1 DEF AgreeInv, AgreesOn
  <2>2. CASE c # b
    BY <1>6, <2>2 DEF OrderInv, AgreeInv, AgreesOn
  <2> QED BY <2>1, <2>2
<1>11. ~Begun(w)
  BY <1>1, <1>3 DEF Begun
<1> QED BY <1>3, <1>8, <1>9, <1>10, <1>11, OneGoesOn

LEMMA PlansOrderly ==
  ASSUME WikiInv, HistoryInv, OrderInv, AgreeInv, NEW w \in Writer, NEW p \in WikiPage,
         PlanBatch(w, p)
  PROVE  OrderInv' /\ AgreeInv'
<1>1. PICK y, b, F, now, plan :
        /\ y = writer[w] /\ b = y.batch /\ F = y.created
        /\ now = ReadUpTo(w, p) /\ plan = PlannedOn(now, batches[b], F)
  OBVIOUS
<1>2. writer[w].at = "read" /\ writer[w] # Out /\ ~Begun(w)
  BY DEF PlanBatch, Out, Begun
<1>3. b \in Batch /\ BatchOK(batches[b]) /\ Matches(b, batches[b]) /\ Given(b, F)
  BY <1>1, <1>2, AtWorkOn DEF WriterInv
<1>4. UNCHANGED <<wiki, batches, log, half, clobbered>>
  BY DEF PlanBatch
<1>5. \A c \in Batch : /\ NoFirsts(log'[c].created)
                       /\ ~clobbered /\ log'[c].phase = "complete" => AllShown(c)
  BY <1>4 DEF OrderInv, AgreeInv, AgreesOn
<1>6. CASE ~plan.ok
  <2>1. writer' = [writer EXCEPT ![w] = Out]
    BY <1>1, <1>6 DEF PlanBatch
  <2>2. Out.at \notin {"read", "planned", "writing"}
    BY DEF Out
  <2> QED BY <1>2, <1>4, <1>5, <2>1, <2>2, OneGoesOn
<1>7. CASE plan.ok
  <2>1. PICK x : x = [at |-> "planned", batch |-> b, created |-> plan.created,
                      was |-> now, pages |-> plan.pages,
                      todo |-> {q \in WikiPage : plan.pages[q] # now[q]}]
    OBVIOUS
  <2>2. /\ x.at = "planned" /\ x.batch = b /\ x.created = plan.created
        /\ x.was = now /\ x.pages = plan.pages
        /\ x.todo = {q \in WikiPage : plan.pages[q] # now[q]}
        /\ {"at", "batch", "created", "was", "pages", "todo"} \subseteq DOMAIN x
        /\ writer' = [writer EXCEPT ![w] = x]
    BY <1>1, <1>7, <2>1 DEF PlanBatch
  <2>3. /\ PagesOK(now) /\ NoFirsts(F) /\ \A q \in WikiPage : now[q] = Seen(y, wiki)[q]
        /\ InOrder(now)
    <3>1. PagesOK(now)
      BY <1>1, <1>2, ReadFits
    <3>2. y.todo = {p} /\ PagesOK(y.was) /\ now = [y.was EXCEPT ![p] = wiki[p]]
      BY <1>1, <1>2 DEF PlanBatch, ReadUpTo, WikiInv, WritersInv, WriterOK
    <3>3. \A q \in WikiPage : now[q] = Seen(y, wiki)[q]
      BY <3>2 DEF Seen, PagesOK
    <3>4. InOrder(Seen(y, wiki)) /\ NoFirsts(F)
      BY <1>1, <1>2 DEF OrderInv, IsReading
    <3>5. InOrder(now)
      BY <3>3, <3>4, WrittenInOrder
    <3> QED BY <3>1, <3>3, <3>4, <3>5
  <2>4. /\ InOrder(plan.pages) /\ NoFirsts(plan.created) /\ Tracks(b, now, plan.pages)
        /\ \A k \in Steady(b) : ShownOn(plan.pages, Program[b][k])
        /\ \A u, k : Sole(u, b, k) => Brought(plan.pages, Program[b][k])
        /\ \A u, c, k : (c \in Batch /\ c # b /\ Sole(u, c, k)) => SamePlaces(now, plan.pages, u)
    BY <1>1, <1>3, <1>7, <2>3, PlannedLeaves
  <2>5. \A z \in Copies(plan.pages) : Comes(b, now, z)
    BY <1>1, <1>3, <1>7, <2>3, PlannedComes
  <2>6. Keeps(now, plan.pages)
    BY <1>3, <2>4, TracksKeeps
  <2>7. ASSUME NEW c \in Batch \ {b}, NEW k \in DOMAIN Program[c], ShownOn(plan.pages, Program[c][k])
        PROVE  ShownOn(now, Program[c][k])
    BY <1>3, <2>5, <2>7, PlannedShowsOthers
  <2>8. DraftOK(x)
    BY <2>2, <2>4, <2>6, <2>7 DEF DraftOK
  <2>9. ASSUME ~clobbered PROVE Lasts(x)
    <3>1. Keeps(Seen(y, wiki), wiki) /\ StillMoves(y, Seen(y, wiki), wiki)
      BY <1>1, <1>2, <2>9 DEF AgreeInv, IsReading, Recalls
    <3>2. Keeps(x.was, wiki)
      BY <2>2, <2>3, <3>1 DEF Keeps
    <3>3. \A q \in WikiPage \ x.todo : x.pages[q] = now[q]
      BY <2>2
    <3>4. \A q \in WikiPage \ x.todo : KeepsPage(x.pages[q], wiki[q])
      BY <2>2, <3>2, <3>3 DEF Keeps
    <3>5. ASSUME NEW u \in Title, NEW k \in DOMAIN Program[b], Sole(u, b, k),
                 NEW o, o = Program[b][k]
          PROVE  /\ o.page \notin x.todo => o.id \in DOMAIN wiki[o.page]
                 /\ FirstEntity[u] \notin x.todo => o.id \notin DOMAIN wiki[FirstEntity[u]]
      <4>1. o.page \in WikiPage /\ o.id[1] = u
        BY <1>3, <3>5, MoversAre
      <4>2. Brought(plan.pages, o)
        BY <2>4, <3>5
      <4>3. FirstEntity[u] \in WikiPage
        BY <4>1, <4>2, FirstsAre DEF Brought
      <4>4. /\ o.id \in DOMAIN now[o.page] => o.id \in DOMAIN wiki[o.page]
            /\ o.id \in DOMAIN wiki[FirstEntity[u]] => o.id \in DOMAIN now[FirstEntity[u]]
        BY <1>1, <2>3, <3>1, <3>5, <4>1, <4>3 DEF StillMoves
      <4> QED BY <2>2, <3>3, <4>1, <4>2, <4>3, <4>4 DEF Brought
    <3> QED BY <2>2, <3>2, <3>4, <3>5 DEF Lasts
  <2> QED BY <1>2, <1>4, <1>5, <2>2, <2>4, <2>8, <2>9, OneGoesOn
<1> QED BY <1>6, <1>7

(* An entity's text changes under everybody.                               *)
LEMMA HandEditsOrderly ==
  ASSUME WikiInv, OrderInv, AgreeInv, NEW p \in WikiPage, NEW i \in DOMAIN wiki[p], HandEdit(p, i)
  PROVE  OrderInv' /\ AgreeInv'
<1>1. UNCHANGED <<log, writer, half, clobbered>>
  BY DEF HandEdit
<1>2. PICK f : f = [wiki[p][i] EXCEPT !.marks = Marked(wiki[p][i], "hand")]
  OBVIOUS
<1>3. wiki' = [wiki EXCEPT ![p] = [wiki[p] EXCEPT ![i] = f]]
  BY <1>2 DEF HandEdit
<1>4. PICK c : f.marks = wiki[p][i].marks \cup {<<"hand", c>>}
  BY <1>2 DEF WikiInv, PagesOK, EntryOK, Marked
<1>5. \A q \in WikiPage :
        /\ DOMAIN wiki'[q] = DOMAIN wiki[q]
        /\ \A j \in DOMAIN wiki[q] : \/ wiki'[q][j].marks = wiki[q][j].marks
                                     \/ wiki'[q][j].marks = wiki[q][j].marks \cup {<<"hand", c>>}
  BY <1>3, <1>4 DEF WikiInv, PagesOK
<1>6. Keeps(wiki, wiki')
  BY <1>5 DEF Keeps, KeepsPage
<1>7. <<"hand", c>>[1] = "hand"
  OBVIOUS
<1>8. ASSUME NEW b \in Batch, NEW k \in DOMAIN Program[b]
      PROVE  \A q \in WikiPage : \A j \in DOMAIN wiki[q] :
               Wears(wiki'[q][j], Program[b][k].op) <=> Wears(wiki[q][j], Program[b][k].op)
  <2>1. Program[b][k].op # "hand"
    BY OperationsAre
  <2> QED BY <1>5, <1>7, <2>1 DEF Wears
<1>9. ASSUME NEW b \in Batch, NEW k \in DOMAIN Program[b]
      PROVE  ShownOn(wiki, Program[b][k]) <=> ShownOn(wiki', Program[b][k])
  BY <1>5, <1>8 DEF ShownOn
<1>10. InOrder(wiki')
  <2>1. Ids(wiki') = Ids(wiki)
    BY <1>5 DEF Ids
  <2>2. AtHome(wiki')
    BY <1>5, <1>8, FirstsAre DEF OrderInv, InOrder, AtHome, CreatedBy
  <2>3. Roams(wiki')
    BY <1>5 DEF OrderInv, InOrder, Roams
  <2> QED BY <2>1, <2>2, <2>3 DEF OrderInv, InOrder
<1>11. OrderInv'
  <2>1. InOrder(wiki)'
    BY <1>10 DEF InOrder, Ids
  <2>2. ASSUME NEW w \in Writer, IsReading(w) PROVE InOrder(Seen(writer[w], wiki))'
    <3>1. InOrder(Seen(writer[w], wiki'))
      BY <1>10, <2>2, SeenInOrder DEF OrderInv
    <3> QED BY <1>1, <3>1 DEF InOrder, Ids, Seen
  <2> QED BY <1>1, <2>1, <2>2 DEF OrderInv, Drafts, IsReading
<1>12. AgreeInv'
  <2> SUFFICES ASSUME ~clobbered
               PROVE  /\ \A w \in Writer : /\ IsReading(w)' => Recalls(writer[w], wiki)'
                                           /\ Drafts(w)' => Lasts(writer[w])'
                      /\ \A b \in Batch : AgreesOn(b)'
    BY <1>1 DEF AgreeInv
  <2>1. ASSUME NEW w \in Writer, Drafts(w) PROVE Lasts(writer[w])'
    <3>1. PICK x : x = writer[w]
      OBVIOUS
    <3>2. Lasts(x) /\ DraftOK(x) /\ x.batch \in Batch
      <4>1. WriterOK(x) /\ x # Out
        BY <2>1, <3>1 DEF WikiInv, WritersInv, Drafts, Out
      <4>2. x.batch \in Batch
        BY <4>1 DEF WriterOK
      <4> QED BY <2>1, <3>1, <4>2 DEF AgreeInv, OrderInv
    <3>3. Keeps(x.was, wiki')
      BY <1>6, <3>2, KeepsOn DEF Lasts
    <3>4. \A q \in WikiPage \ x.todo : KeepsPage(x.pages[q], wiki'[q])
      BY <1>6, <3>2, KeepsOn DEF Lasts, Keeps
    <3>5. ASSUME NEW u \in Title, NEW k \in DOMAIN Program[x.batch], Sole(u, x.batch, k)
          PROVE  LET o == Program[x.batch][k]
                 IN /\ o.page \notin x.todo => o.id \in DOMAIN wiki'[o.page]
                    /\ FirstEntity[u] \notin x.todo => o.id \notin DOMAIN wiki'[FirstEntity[u]]
      <4>1. /\ Program[x.batch][k].page \in WikiPage /\ Program[x.batch][k].id[1] = u
            /\ Brought(x.pages, Program[x.batch][k])
        BY <3>2, <3>5, MoversAre DEF DraftOK
      <4>2. FirstEntity[u] \in WikiPage
        BY <4>1, FirstsAre DEF Brought
      <4> QED BY <1>5, <3>2, <3>5, <4>1, <4>2 DEF Lasts
    <3>6. /\ Keeps(x.was, wiki)' /\ \A q \in WikiPage \ x.todo : KeepsPage(x.pages[q], wiki'[q])
      BY <3>3, <3>4 DEF Keeps
    <3> QED BY <1>1, <3>1, <3>5, <3>6 DEF Lasts
  <2>2. ASSUME NEW b \in Batch PROVE AgreesOn(b)'
    <3>1. AgreesOn(b)
      BY DEF AgreeInv
    <3>2. (AllShown(b) <=> AllShown(b)') /\ (NoneShown(b) <=> NoneShown(b)')
      <4>1. \A k \in Steady(b) : ShownOn(wiki, Program[b][k]) <=> ShownOn(wiki', Program[b][k])
        BY <1>9 DEF Steady, SteadySteps, IsSteady
      <4> QED BY <4>1 DEF AllShown, NoneShown
    <3>3. ASSUME NEW u \in Title, NEW k \in DOMAIN Program[b], Sole(u, b, k), FirstEntity[u] # 0
          PROVE  IsAtOne(u, Program[b][k].page) => IsAtOne(u, Program[b][k].page)'
      <4>1. FirstEntity[u] \in WikiPage /\ Program[b][k].page \in WikiPage
        BY <3>3, MoversAre, WikiAssumption DEF WikiAssumption, WikiPage
      <4> QED BY <1>5, <4>1 DEF IsAtOne
    <3>4. Midway(b) => Midway(b)'
      BY <1>1 DEF Midway, At, Begun
    <3> QED BY <1>1, <3>1, <3>2, <3>3, <3>4 DEF AgreesOn, Placed
  <2>3. ASSUME NEW w \in Writer, IsReading(w) PROVE Recalls(writer[w], wiki)'
    <3>1. PICK x : x = writer[w]
      OBVIOUS
    <3>2. Recalls(x, wiki) /\ x.batch \in Batch
      BY <2>3, <3>1 DEF AgreeInv, WikiInv, WritersInv, WriterOK, IsReading, Out
    <3>3. StillMoves(x, wiki, wiki')
      BY <1>5, <3>2, MoversAre DEF StillMoves
    <3>4. Recalls(x, wiki')
      BY <1>6, <3>2, <3>3, RecallsOn
    <3> QED BY <1>1, <3>1, <3>4 DEF Recalls, StillMoves, Seen, Keeps
  <2> QED BY <1>1, <2>1, <2>2, <2>3 DEF Drafts, IsReading
<1> QED BY <1>11, <1>12

(* Where the entities are that a process has moved: its own plan puts them *)
(* there, another leaves them.                                             *)
LEMMA WritingLasts ==
  ASSUME NEW x, DraftOK(x), x.batch \in Batch, NEW p \in WikiPage, wiki[p] = x.was[p],
         wiki'[p] = x.pages[p], \A q \in WikiPage : q # p => wiki'[q] = wiki[q],
         NEW c \in Batch, NEW u \in Title, NEW k \in DOMAIN Program[c], Sole(u, c, k)
  PROVE  LET o == Program[c][k]
         IN /\ (o.page = p /\ c = x.batch) \/ (o.id \in DOMAIN wiki[o.page])
                 => o.id \in DOMAIN wiki'[o.page]
            /\ (/\ FirstEntity[u] \in WikiPage
                /\ (FirstEntity[u] = p /\ c = x.batch) \/ (o.id \notin DOMAIN wiki[FirstEntity[u]]))
                 => o.id \notin DOMAIN wiki'[FirstEntity[u]]
            /\ c # x.batch => \A q \in WikiPage : <<u, 1>> \in DOMAIN wiki'[q] <=> <<u, 1>> \in DOMAIN wiki[q]
<1>1. Program[c][k].page \in WikiPage /\ Program[c][k].id[1] = u
  BY MoversAre
<1>2. CASE c = x.batch
  <2>1. Brought(x.pages, Program[c][k])
    BY <1>2 DEF DraftOK
  <2> QED BY <1>1, <1>2, <2>1 DEF Brought
<1>3. CASE c # x.batch
  <2>1. SamePlaces(x.was, x.pages, u)
    BY <1>3 DEF DraftOK
  <2>2. \A j : j[1] = u => (j \in DOMAIN wiki'[p] <=> j \in DOMAIN wiki[p])
    BY <2>1 DEF SamePlaces
  <2>3. <<u, 1>>[1] = u
    OBVIOUS
  <2>4. \A q \in WikiPage : \A j : j[1] = u => (j \in DOMAIN wiki'[q] <=> j \in DOMAIN wiki[q])
    BY <2>2
  <2>5. \A q \in WikiPage : <<u, 1>> \in DOMAIN wiki'[q] <=> <<u, 1>> \in DOMAIN wiki[q]
    BY <2>3, <2>4
  <2> QED BY <1>1, <1>3, <2>4, <2>5
<1> QED BY <1>2, <1>3

LEMMA WritesOrderly ==
  ASSUME WikiInv, HistoryInv, OrderInv, AgreeInv, NEW w \in Writer, WritePage(w)
  PROVE  OrderInv' /\ AgreeInv'
<1>1. PICK x, b : x = writer[w] /\ b = x.batch
  OBVIOUS
<1>2. PICK p : /\ p \in x.todo
               /\ wiki' = [wiki EXCEPT ![p] = x.pages[p]]
               /\ writer' = [writer EXCEPT ![w].todo = @ \ {p}]
               /\ clobbered' = (clobbered \/ wiki[p] # x.was[p])
  <2>1. x.todo \subseteq WikiPage /\ x.todo # {}
    BY <1>1 DEF WritePage, WikiInv, WritersInv, WriterOK, Out
  <2>2. PICK q \in x.todo : \A r \in x.todo : q <= r
    <3>1. x.todo \in SUBSET Nat
      BY <2>1, PagesAreNumbers
    <3> QED BY <2>1, <3>1, LeastNatural
  <2>3. \E p : p \in x.todo /\ \A r \in x.todo : p <= r
    BY <2>2
  <2> QED BY <1>1, <2>3 DEF WritePage
<1>3. /\ x.at = "writing" /\ Drafts(w) /\ x # Out /\ UNCHANGED <<log, half>>
  BY <1>1 DEF WritePage, Drafts, Out
<1>4. b \in Batch /\ x.todo \subseteq WikiPage /\ p \in WikiPage
  <2>1. b \in Batch
    BY <1>1, <1>3, AtWorkOn
  <2>2. WriterOK(x)
    BY <1>1 DEF WikiInv, WritersInv
  <2> QED BY <1>2, <1>3, <2>1, <2>2 DEF WriterOK
<1>5. DraftOK(x) /\ (~clobbered => Lasts(x))
  BY <1>1, <1>3 DEF OrderInv, AgreeInv
<1>6. PICK y : y = [x EXCEPT !.todo = @ \ {p}]
  OBVIOUS
<1>7. /\ y.at = "writing" /\ y.batch = b /\ y.created = x.created /\ y.was = x.was
      /\ y.pages = x.pages /\ y.todo = x.todo \ {p} /\ DOMAIN y = DOMAIN x
  BY <1>1, <1>3, <1>5, <1>6 DEF DraftOK
<1>8. writer'[w] = y /\ \A v \in Writer : v # w => writer'[v] = writer[v]
  BY <1>1, <1>2, <1>6 DEF WikiInv, WritersInv
<1>9. wiki'[p] = x.pages[p] /\ \A q \in WikiPage : q # p => wiki'[q] = wiki[q]
  BY <1>2, <1>4 DEF WikiInv, PagesOK
<1>10. InOrder(wiki')
  BY <1>5, <1>9, WrittenInOrder DEF OrderInv, DraftOK
<1>11. OrderInv'
  <2>1. InOrder(wiki)'
    BY <1>10 DEF InOrder, Ids
  <2>2. DraftOK(y) /\ NoFirsts(y.created)
    BY <1>1, <1>3, <1>5, <1>7 DEF DraftOK, OrderInv
  <2>3. ASSUME NEW v \in Writer
        PROVE  /\ writer'[v] # Out => NoFirsts(writer'[v].created)
               /\ Drafts(v)' => DraftOK(writer'[v])
    BY <1>8, <2>2 DEF OrderInv, Drafts
  <2>4. ASSUME NEW v \in Writer, IsReading(v)' PROVE InOrder(Seen(writer[v], wiki))'
    <3>1. writer'[v] = writer[v] /\ IsReading(v)
      BY <1>7, <1>8, <2>4 DEF IsReading
    <3>2. InOrder(Seen(writer[v], wiki'))
      BY <1>10, <3>1, SeenInOrder DEF OrderInv
    <3> QED BY <3>1, <3>2 DEF InOrder, Ids, Seen
  <2> QED BY <1>3, <2>1, <2>3, <2>4 DEF OrderInv
<1>12. AgreeInv'
  <2> SUFFICES ASSUME ~clobbered'
               PROVE  /\ \A v \in Writer : /\ IsReading(v)' => Recalls(writer[v], wiki)'
                                           /\ Drafts(v)' => Lasts(writer[v])'
                      /\ \A c \in Batch : AgreesOn(c)'
    BY DEF AgreeInv
  <2>1. ~clobbered /\ wiki[p] = x.was[p] /\ Lasts(x)
    BY <1>2, <1>5
  <2>2. Keeps(wiki, wiki')
    <3>1. KeepsPage(wiki[p], wiki'[p])
      BY <1>4, <1>5, <1>9, <2>1 DEF DraftOK, Keeps
    <3>2. \A q \in WikiPage : q # p => KeepsPage(wiki[q], wiki'[q])
      BY <1>9, KeepsOn
    <3> QED BY <3>1, <3>2 DEF Keeps
  <2>3. ASSUME NEW z, Lasts(z), z.batch \in Batch, NEW z2,
               z2.was = z.was, z2.pages = z.pages, z2.batch = z.batch,
               z2 = z \/ (z.batch = b /\ z.pages = x.pages /\ z2.todo = z.todo \ {p}),
               \A u \in Title : \A k \in DOMAIN Program[z.batch] :
                 Sole(u, z.batch, k) => FirstEntity[u] \in WikiPage
        PROVE  /\ Keeps(z2.was, wiki')
               /\ \A q \in WikiPage \ z2.todo : KeepsPage(z2.pages[q], wiki'[q])
               /\ \A u \in Title : \A k \in DOMAIN Program[z2.batch] : Sole(u, z2.batch, k) =>
                    LET o == Program[z2.batch][k]
                    IN /\ o.page \notin z2.todo => o.id \in DOMAIN wiki'[o.page]
                       /\ FirstEntity[u] \notin z2.todo => o.id \notin DOMAIN wiki'[FirstEntity[u]]
    <3>1. Keeps(z2.was, wiki')
      BY <2>2, <2>3, KeepsOn DEF Lasts
    <3>2. ASSUME NEW q \in WikiPage \ z2.todo PROVE KeepsPage(z2.pages[q], wiki'[q])
      <4>1. CASE q \notin z.todo
        BY <2>2, <2>3, <4>1, KeepsOn DEF Lasts, Keeps
      <4>2. CASE q \in z.todo
        <5>1. q = p /\ z2.pages = x.pages
          BY <2>3, <3>2, <4>2
        <5> QED BY <1>9, <5>1, KeepsOn
      <4> QED BY <4>1, <4>2
    <3>3. ASSUME NEW u \in Title, NEW k \in DOMAIN Program[z.batch], Sole(u, z.batch, k)
          PROVE  LET o == Program[z.batch][k]
                 IN /\ o.page \notin z2.todo => o.id \in DOMAIN wiki'[o.page]
                    /\ FirstEntity[u] \notin z2.todo => o.id \notin DOMAIN wiki'[FirstEntity[u]]
      <4> DEFINE o == Program[z.batch][k]
      <4>1. /\ o.page \notin z.todo => o.id \in DOMAIN wiki[o.page]
            /\ FirstEntity[u] \notin z.todo => o.id \notin DOMAIN wiki[FirstEntity[u]]
        BY <2>3, <3>3 DEF Lasts
      <4>2. \A q : q \notin z2.todo => q \notin z.todo \/ (q = p /\ z.batch = x.batch)
        BY <1>1, <2>3
      <4>3. FirstEntity[u] \in WikiPage
        BY <2>3, <3>3
      <4>4. /\ (o.page = p /\ z.batch = x.batch) \/ (o.id \in DOMAIN wiki[o.page])
                 => o.id \in DOMAIN wiki'[o.page]
            /\ (FirstEntity[u] = p /\ z.batch = x.batch) \/ (o.id \notin DOMAIN wiki[FirstEntity[u]])
                   => o.id \notin DOMAIN wiki'[FirstEntity[u]]
        <5>1. PICK c \in Batch : c = z.batch
          BY <2>3
        <5>2. k \in DOMAIN Program[c] /\ Sole(u, c, k) /\ x.batch \in Batch
          BY <1>1, <1>4, <3>3, <5>1
        <5>3. LET d == Program[c][k]
              IN /\ (d.page = p /\ c = x.batch) \/ (d.id \in DOMAIN wiki[d.page])
                       => d.id \in DOMAIN wiki'[d.page]
                 /\ (/\ FirstEntity[u] \in WikiPage
                     /\ (FirstEntity[u] = p /\ c = x.batch) \/ (d.id \notin DOMAIN wiki[FirstEntity[u]]))
                      => d.id \notin DOMAIN wiki'[FirstEntity[u]]
          BY <1>4, <1>5, <1>9, <2>1, <5>2, WritingLasts
        <5> QED BY <4>3, <5>1, <5>3
      <4> QED BY <4>1, <4>2, <4>4
    <3> QED BY <2>3, <3>1, <3>2, <3>3
  <2>4. ASSUME NEW z, DraftOK(z), z.batch \in Batch
        PROVE  \A u \in Title : \A k \in DOMAIN Program[z.batch] :
                 Sole(u, z.batch, k) => FirstEntity[u] \in WikiPage
    <3>1. ASSUME NEW u \in Title, NEW k \in DOMAIN Program[z.batch], Sole(u, z.batch, k)
          PROVE  FirstEntity[u] \in WikiPage
      <4>1. Brought(z.pages, Program[z.batch][k]) /\ Program[z.batch][k].id[1] = u
        BY <2>4, <3>1, MoversAre DEF DraftOK
      <4> QED BY <4>1, FirstsAre DEF Brought
    <3> QED BY <3>1
  <2>5. /\ Keeps(y.was, wiki')
        /\ \A q \in WikiPage \ y.todo : KeepsPage(y.pages[q], wiki'[q])
        /\ \A u \in Title : \A k \in DOMAIN Program[y.batch] : Sole(u, y.batch, k) =>
             LET o == Program[y.batch][k]
             IN /\ o.page \notin y.todo => o.id \in DOMAIN wiki'[o.page]
                /\ FirstEntity[u] \notin y.todo => o.id \notin DOMAIN wiki'[FirstEntity[u]]
    <3>1. \A u \in Title : \A k \in DOMAIN Program[x.batch] :
            Sole(u, x.batch, k) => FirstEntity[u] \in WikiPage
      BY <1>1, <1>4, <1>5, <2>4
    <3> QED BY <1>1, <1>4, <1>7, <2>1, <2>3, <3>1
  <2>6. ASSUME NEW v \in Writer, Drafts(v)' PROVE Lasts(writer[v])'
    <3>1. CASE v = w
      BY <1>8, <2>5, <3>1 DEF Lasts, Keeps
    <3>2. CASE v # w
      <4>1. PICK z : z = writer[v] /\ z = writer'[v]
        BY <1>8, <3>2
      <4>2. Drafts(v) /\ Lasts(z) /\ DraftOK(z)
        BY <2>1, <2>6, <4>1 DEF Drafts, AgreeInv, OrderInv
      <4>3. z.batch \in Batch
        <5>1. writer[v] # Out
          BY <4>2 DEF Drafts, Out
        <5>2. writer[v].batch \in Batch
          BY <5>1, AtWorkOn
        <5> QED BY <4>1, <5>2
      <4>4. \A u \in Title : \A k \in DOMAIN Program[z.batch] :
              Sole(u, z.batch, k) => FirstEntity[u] \in WikiPage
        BY <2>4, <4>2, <4>3
      <4>5. /\ Keeps(z.was, wiki')
            /\ \A q \in WikiPage \ z.todo : KeepsPage(z.pages[q], wiki'[q])
            /\ \A u \in Title : \A k \in DOMAIN Program[z.batch] : Sole(u, z.batch, k) =>
                 LET o == Program[z.batch][k]
                 IN /\ o.page \notin z.todo => o.id \in DOMAIN wiki'[o.page]
                    /\ FirstEntity[u] \notin z.todo => o.id \notin DOMAIN wiki'[FirstEntity[u]]
        BY <2>3, <4>2, <4>3, <4>4
      <4> QED BY <4>1, <4>5 DEF Lasts, Keeps
    <3> QED BY <3>1, <3>2
  <2>7. ASSUME NEW c \in Batch, AllShown(c) PROVE AllShown(c)'
    BY <2>2, <2>7, KeepsShown DEF AllShown, ShownOn
  <2>8. AgreesOn(b)'
    <3>1. CASE y.todo # {}
      <4>1. Begun(w)'
        BY <1>2, <1>4, <1>5, <1>7, <1>8 DEF Begun, DraftOK
      <4>2. At(w, b)'
        BY <1>7, <1>8 DEF At, Out
      <4>3. Midway(b)'
        BY <1>8, <3>1, <4>1, <4>2 DEF Midway
      <4>4. log'[b].phase = "complete" => AllShown(b)'
        BY <1>3, <1>4, <2>1, <2>7 DEF AgreeInv, AgreesOn
      <4> QED BY <4>3, <4>4 DEF AgreesOn
    <3>2. CASE y.todo = {}
      <4>1. Keeps(x.pages, wiki')
        BY <1>7, <2>5, <3>2 DEF Keeps
      <4>2. \A k \in Steady(b) : ShownOn(wiki', Program[b][k])
        BY <1>1, <1>4, <1>5, <4>1, KeepsShown DEF DraftOK
      <4>3. AllShown(b)'
        BY <4>2 DEF AllShown, ShownOn
      <4>4. ASSUME NEW u \in Title, NEW k \in DOMAIN Program[b], Sole(u, b, k)
            PROVE  IsAtOne(u, Program[b][k].page)'
        <5> DEFINE o == Program[b][k]
        <5>1. o.id \in DOMAIN wiki'[o.page] /\ o.id \notin DOMAIN wiki'[FirstEntity[u]]
          BY <1>7, <2>5, <3>2, <4>4
        <5>2. o.id = <<u, 1>> /\ FirstEntity[u] # o.page
          <6>1. Brought(x.pages, o) /\ o.id[1] = u
            BY <1>1, <1>4, <1>5, <4>4, MoversAre DEF DraftOK
          <6> QED BY <6>1, FirstsAre DEF Brought
        <5> HIDE DEF o
        <5>3. \A r \in {FirstEntity[u], o.page} : <<u, 1>> \in DOMAIN wiki'[r] <=> r = o.page
          BY <5>1, <5>2
        <5>4. IsAtOne(u, o.page)'
          BY <5>3 DEF IsAtOne
        <5> QED BY <5>4 DEF o
      <4> QED BY <4>3, <4>4 DEF AgreesOn, Placed
    <3> QED BY <3>1, <3>2
  <2>9. ASSUME NEW c \in Batch, c # b PROVE AgreesOn(c)'
    <3>1. AgreesOn(c)
      BY <2>1 DEF AgreeInv
    <3>2. Midway(c) => Midway(c)'
      <4>1. ~At(w, c) /\ writer' = [writer EXCEPT ![w] = y]
        BY <1>1, <1>2, <1>6, <2>9 DEF At, WikiInv, WritersInv
      <4> QED BY <4>1, MidwayStays
    <3>3. NoneShown(c) => NoneShown(c)'
      <4> SUFFICES ASSUME NEW k \in Steady(c), ShownOn(wiki', Program[c][k])
                   PROVE  ShownOn(wiki, Program[c][k])
        BY DEF NoneShown, ShownOn
      <4>1. PICK q \in WikiPage : \E j \in DOMAIN wiki'[q] :
              j[1] = Subject(Program[c][k]) /\ Wears(wiki'[q][j], Program[c][k].op)
        BY DEF ShownOn
      <4>2. CASE q # p
        BY <1>9, <4>1, <4>2 DEF ShownOn
      <4>3. CASE q = p
        <5>1. ShownOn(x.pages, Program[c][k])
          BY <1>9, <4>1, <4>3 DEF ShownOn
        <5>2. ShownOn(x.was, Program[c][k])
          BY <1>1, <1>5, <2>9, <5>1 DEF DraftOK, Steady, SteadySteps, IsSteady
        <5>3. Keeps(x.was, wiki)
          BY <2>1 DEF Lasts
        <5> QED BY <5>2, <5>3, KeepsShown
      <4> QED BY <4>2, <4>3
    <3>4. ASSUME NEW u \in Title, NEW k \in DOMAIN Program[c], Sole(u, c, k), FirstEntity[u] # 0,
                 IsAtOne(u, Program[c][k].page)
          PROVE  IsAtOne(u, Program[c][k].page)'
      <4>1. FirstEntity[u] \in WikiPage /\ Program[c][k].page \in WikiPage
        BY <3>4, MoversAre, WikiAssumption DEF WikiAssumption, WikiPage
      <4>2. \A q \in WikiPage : <<u, 1>> \in DOMAIN wiki'[q] <=> <<u, 1>> \in DOMAIN wiki[q]
        BY <1>1, <1>4, <1>5, <1>9, <2>1, <2>9, <3>4, WritingLasts
      <4> QED BY <3>4, <4>1, <4>2 DEF IsAtOne
    <3> QED BY <1>3, <2>7, <3>1, <3>2, <3>3, <3>4 DEF AgreesOn, Placed
  <2>10. ASSUME NEW v \in Writer, IsReading(v)' PROVE Recalls(writer[v], wiki)'
    <3>1. PICK z : z = writer[v] /\ z = writer'[v] /\ z.at = "read"
      BY <1>7, <1>8, <2>10 DEF IsReading
    <3>2. Recalls(z, wiki) /\ z.batch \in Batch
      <4>1. WriterOK(z)
        <5>1. WriterOK(writer[v])
          BY DEF WikiInv, WritersInv
        <5> QED BY <3>1, <5>1
      <4>2. z # Out
        BY <3>1 DEF Out
      <4>3. Recalls(writer[v], wiki)
        BY <2>1, <3>1 DEF AgreeInv, IsReading
      <4> QED BY <3>1, <4>1, <4>2, <4>3 DEF WriterOK
    <3>3. StillMoves(z, wiki, wiki')
      <4> SUFFICES ASSUME NEW u \in Title, NEW k \in DOMAIN Program[z.batch], Sole(u, z.batch, k),
                          NEW o, o = Program[z.batch][k]
                   PROVE  /\ o.id \in DOMAIN wiki[o.page] => o.id \in DOMAIN wiki'[o.page]
                          /\ (FirstEntity[u] \in WikiPage /\ o.id \in DOMAIN wiki'[FirstEntity[u]])
                               => o.id \in DOMAIN wiki[FirstEntity[u]]
        BY DEF StillMoves
      <4>1. PICK c \in Batch : c = z.batch
        BY <3>2
      <4>2. k \in DOMAIN Program[c] /\ Sole(u, c, k) /\ x.batch \in Batch /\ o = Program[c][k]
        BY <1>1, <1>4, <4>1
      <4>3. LET d == Program[c][k]
            IN /\ d.id \in DOMAIN wiki[d.page] => d.id \in DOMAIN wiki'[d.page]
               /\ (FirstEntity[u] \in WikiPage /\ d.id \notin DOMAIN wiki[FirstEntity[u]])
                    => d.id \notin DOMAIN wiki'[FirstEntity[u]]
        BY <1>4, <1>5, <1>9, <2>1, <4>2, WritingLasts
      <4> QED BY <4>2, <4>3
    <3>4. Recalls(z, wiki')
      BY <2>2, <3>2, <3>3, RecallsOn
    <3> QED BY <3>1, <3>4 DEF Recalls, StillMoves, Seen, Keeps
  <2> QED BY <2>6, <2>8, <2>9, <2>10
<1> QED BY <1>11, <1>12

LEMMA AgreeStepKeeps ==
  WikiInv /\ HistoryInv /\ OrderInv /\ AgreeInv /\ [WikiNext]_wikiVars => OrderInv' /\ AgreeInv'
<1> SUFFICES ASSUME WikiInv, HistoryInv, OrderInv, AgreeInv, [WikiNext]_wikiVars
             PROVE  OrderInv' /\ AgreeInv'
  OBVIOUS
<1>1. ASSUME NEW w \in Writer, NEW b \in Batch, Apply(w, b) PROVE OrderInv' /\ AgreeInv'
  BY <1>1, EntersOrderly DEF Apply
<1>2. ASSUME NEW w \in Writer, NEW b \in Batch, ApplyPlanned(w, b) PROVE OrderInv' /\ AgreeInv'
  BY <1>2, EntersOrderly DEF ApplyPlanned
<1>3. ASSUME NEW b \in Batch, Author(b) \/ Register(b) \/ Expire(b) PROVE OrderInv' /\ AgreeInv'
  BY <1>3, StandsStill DEF Author, Register, Expire
<1>4. CASE UNCHANGED wikiVars
  BY <1>4, StandsStill DEF wikiVars
<1> QED BY <1>1, <1>2, <1>3, <1>4, ReadsOrderly, PlansOrderly, IntendsOrderly, WritesOrderly,
           CompletesOrderly, StopsOrderly, HandEditsOrderly DEF WikiNext, WriterStep

LEMMA ShownIs ==
  ASSUME NEW b \in Batch, NEW k \in Steady(b)
  PROVE  k \in Shown(b) <=> ShownOn(wiki, Program[b][k])
<1>1. ASSUME ShownOn(wiki, Program[b][k]) PROVE k \in Shown(b)
  <2>1. PICK p \in WikiPage : \E j \in DOMAIN wiki[p] :
          j[1] = Subject(Program[b][k]) /\ Wears(wiki[p][j], Program[b][k].op)
    BY <1>1 DEF ShownOn
  <2>2. PICK j \in DOMAIN wiki[p] :
          j[1] = Subject(Program[b][k]) /\ Wears(wiki[p][j], Program[b][k].op)
    BY <2>1
  <2>3. j \in Ids(wiki) /\ wiki[p][j].marks \subseteq MarksOn(wiki, j)
    BY <2>2 DEF Ids, MarksOn
  <2>4. Bears(wiki, j, Program[b][k].op)
    BY <2>2, <2>3 DEF Wears, Bears
  <2> QED BY <2>2, <2>3, <2>4 DEF Shown
<1>2. ASSUME k \in Shown(b) PROVE ShownOn(wiki, Program[b][k])
  <2>1. PICK i \in Ids(wiki) : i[1] = Subject(Program[b][k]) /\ Bears(wiki, i, Program[b][k].op)
    BY <1>2 DEF Shown
  <2>2. PICK m \in MarksOn(wiki, i) : m[1] = Program[b][k].op
    BY <2>1 DEF Bears
  <2>3. PICK p \in WikiPage : i \in DOMAIN wiki[p] /\ m \in wiki[p][i].marks
    BY <2>2 DEF MarksOn
  <2> QED BY <2>1, <2>2, <2>3 DEF ShownOn, Wears
<1> QED BY <1>1, <1>2

LEMMA AgreeMeans == WikiInv /\ HistoryInv /\ AgreeInv => LogAndPagesAgree
<1> SUFFICES ASSUME AgreeInv, ~clobbered, NEW b \in Batch
             PROVE  /\ log[b].phase = "complete" => Shown(b) = Steady(b)
                    /\ (Quiet(b) /\ b \notin half) => Shown(b) \in {{}, Steady(b)}
  BY HistoryMeans DEF LogAndPagesAgree, BatchesAreWhole
<1>1. AgreesOn(b) /\ Shown(b) \subseteq Steady(b)
  BY DEF AgreeInv, Shown
<1>2. AllShown(b) => Shown(b) = Steady(b)
  BY <1>1, ShownIs DEF AllShown
<1>3. NoneShown(b) => Shown(b) = {}
  BY <1>1, ShownIs DEF NoneShown
<1>4. Quiet(b) => ~Midway(b)
  BY DEF Quiet, Midway, At
<1> QED BY <1>1, <1>2, <1>3, <1>4 DEF AgreesOn

LEMMA NothingLost == OrderInv /\ AgreeInv => NothingIsLost
<1> SUFFICES ASSUME OrderInv, AgreeInv, ~clobbered, NEW t \in Title, Uncontested(t),
                    \A b \in Batch : IsMovedBy(b, t) => Quiet(b) /\ b \notin half
             PROVE  /\ FirstEntity[t] # 0 => <<t, 1>> \in Ids(wiki)
                    /\ \A p, q \in WikiPage : \A i \in DOMAIN wiki[p] \cap DOMAIN wiki[q] :
                         i[1] = t => p = q
  BY DEF NothingIsLost, Lone, Movers
<1>1. InOrder(wiki)
  BY DEF OrderInv
<1>2. CASE IsMoved(t)
  <2>1. PICK b \in Batch : IsMovedBy(b, t)
    BY <1>2 DEF IsMoved
  <2>2. PICK k \in DOMAIN Program[b] : Sole(t, b, k)
    BY <2>1 DEF IsMovedBy, Sole
  <2>3. Program[b][k].page \in WikiPage
    BY <2>2, MoversAre
  <2>4. FirstEntity[t] # 0 => FirstEntity[t] \in WikiPage /\ IsAtOne(t, Program[b][k].page)
    <3>1. ~Midway(b) /\ AgreesOn(b) /\ b \notin half
      BY <2>1 DEF AgreeInv, Quiet, Midway, At
    <3> QED BY <2>2, <3>1, WikiAssumption DEF AgreesOn, Placed, WikiAssumption, WikiPage
  <2>5. FirstEntity[t] # 0 => <<t, 1>> \in Ids(wiki)
    BY <2>3, <2>4 DEF IsAtOne, Ids
  <2>6. ASSUME NEW p \in WikiPage, NEW q \in WikiPage, NEW i \in DOMAIN wiki[p] \cap DOMAIN wiki[q],
               i[1] = t
        PROVE  p = q
    <3>1. i \in Firsts /\ {p, q} \subseteq {FirstEntity[t], Program[b][k].page}
      BY <1>1, <2>2, <2>6 DEF InOrder, Roams
    <3>2. i = <<t, 1>> /\ FirstEntity[t] \in WikiPage
      BY <2>6, <3>1, FirstsAre
    <3>3. FirstEntity[t] # 0
      BY <3>2 DEF WikiPage
    <3> QED BY <2>4, <2>6, <3>1, <3>2, <3>3 DEF IsAtOne
  <2> QED BY <2>5, <2>6
<1>3. CASE ~IsMoved(t)
  <2>1. FirstEntity[t] # 0 => <<t, 1>> \in Ids(wiki)
    <3>1. PICK i : i = <<t, 1>>
      OBVIOUS
    <3> SUFFICES ASSUME FirstEntity[t] # 0 PROVE i \in Ids(wiki)
      BY <3>1
    <3>2. i \in Firsts /\ i[1] = t
      BY <3>1 DEF Firsts
    <3>3. i \in DOMAIN wiki[FirstEntity[t]] /\ FirstEntity[t] \in WikiPage
      BY <1>1, <1>3, <3>2, FirstsAre DEF InOrder, AtHome
    <3> QED BY <3>3 DEF Ids
  <2>2. ASSUME NEW p \in WikiPage, NEW q \in WikiPage, NEW i \in DOMAIN wiki[p] \cap DOMAIN wiki[q],
               i[1] = t
        PROVE  p = q
    <3>1. CASE i \in Firsts
      BY <1>1, <1>3, <2>2, <3>1 DEF InOrder, AtHome
    <3>2. CASE i \notin Firsts
      <4>1. PICK b \in Batch : \E k \in DOMAIN Program[b] :
                                 CreatedBy(Program[b][k], i, p, wiki[p][i])
        BY <1>1, <1>3, <2>2, <3>2 DEF InOrder, AtHome
      <4>2. PICK c \in Batch : \E n \in DOMAIN Program[c] :
                                 CreatedBy(Program[c][n], i, q, wiki[q][i])
        BY <1>1, <1>3, <2>2, <3>2 DEF InOrder, AtHome
      <4>3. PICK k \in DOMAIN Program[b] : CreatedBy(Program[b][k], i, p, wiki[p][i])
        BY <4>1
      <4>4. PICK n \in DOMAIN Program[c] : CreatedBy(Program[c][n], i, q, wiki[q][i])
        BY <4>2
      <4>5. Claims(Program[b][k], t) /\ Claims(Program[c][n], t)
        BY <2>2, <4>3, <4>4 DEF CreatedBy, Claims
      <4>6. b = c /\ k = n
        BY <4>5 DEF Uncontested
      <4> QED BY <4>3, <4>4, <4>6 DEF CreatedBy
    <3> QED BY <3>1, <3>2
  <2> QED BY <2>1, <2>2
<1> QED BY <1>2, <1>3

----------------------------------------------------------------------------
LEMMA WikiIsKept == WikiSpec => [](WikiInv /\ HistoryInv /\ OrderInv /\ AgreeInv)
<1>1. WikiInit => WikiInv /\ HistoryInv /\ OrderInv /\ AgreeInv
  BY WikiBegins, HistoryBegins, OrderBegins
<1>2. WikiInv /\ HistoryInv /\ OrderInv /\ AgreeInv /\ [WikiNext]_wikiVars
        => WikiInv' /\ HistoryInv' /\ OrderInv' /\ AgreeInv'
  BY WikiStepKeeps, HistoryStepKeeps, AgreeStepKeeps
<1> QED BY <1>1, <1>2, PTL DEF WikiSpec

(* What a batch leaves on a page was logged as intended first.  And as     *)
(* long as no page was written over that had changed since it was read: a  *)
(* batch that is logged as complete is on the pages, and one that nobody   *)
(* is applying and nobody was stopped halfway through is there as a whole  *)
(* or not at all, as far as entities go that nothing moves and that one    *)
(* operation creates (apply_operations_with, write_atomic and append_audit *)
(* of src/wiki/ops.rs).                                                    *)
THEOREM LogIsTrue == WikiSpec => []LogAndPagesAgree
BY WikiIsKept, AgreeMeans, PTL

(* And no entity is lost or doubled that at most one operation moves or    *)
(* creates, unless its move is under way or was stopped halfway            *)
(* (move_entry of src/wiki/ops.rs).                                        *)
THEOREM EntitiesAreKept == WikiSpec => []NothingIsLost
BY WikiIsKept, NothingLost, PTL
=============================================================================
