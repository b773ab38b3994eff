--------------------------- MODULE Records_proofs ---------------------------
(***************************************************************************)
(* Proofs about the records a project keeps beside its code, for any       *)
(* members, records, processes, files and bounds.  Of the inbox: an        *)
(* approval of a text written on top of a pinned page loses nothing of the *)
(* page, and nobody approves a text they wrote as its author or in a       *)
(* repair without saying so.  Of catch-up: no digest, mark, reset or held  *)
(* preview makes a record disappear unseen behind a cursor.  Of playbooks: *)
(* a run starts with what its playbook says then and is never undone.  Of  *)
(* the wiki index: what is committed was on disk at one instant, and what  *)
(* a session calls fresh is so.  At the end, the same of all of them       *)
(* together and of the wiki's operations, and that every record keeps its  *)
(* type.                                                                   *)
(***************************************************************************)
EXTENDS Records, WikiOperations_proofs, SequenceTheorems, WellFoundedInduction, TLAPS

(* The inbox.                                                              *)
InboxKinds == {"save", "delete", "publish", "approve", "reject", "withdraw", "mark-stale", "repair"}

ProposalFields == {"status", "author", "writer", "mode", "text", "pinned", "target", "expect",
           "repairedBy", "repairs", "decidedBy", "selfApproved"}

(* A text that is to replace a page holds what the page held when it was   *)
(* pinned.                                                                 *)
KeepsPin(input) ==
  (input.pin # NoPin /\ input.mode # "append") => input.pin = Absent \/ input.pin \subseteq input.text

KeepsExpected(q) ==
  (q.pinned /\ q.mode # "append") => q.expect = Absent \/ q.expect \subseteq q.text

(* Who repaired last is known as a contributor, and no contributor decided *)
(* without self-approval.                                                  *)
Looked(q) ==
  /\ q.repairs \in Nat
  /\ q.repairs = 0 \/ q.writer = q.author \/ q.writer \in q.repairedBy
  /\ (q.status = "approved" /\ ~q.selfApproved)
       => /\ q.decidedBy \in Member /\ q.decidedBy # q.author
          /\ q.decidedBy \notin q.repairedBy

ProposalInv(q) == DOMAIN q = ProposalFields /\ KeepsExpected(q) /\ Looked(q)

Asked(act) ==
  /\ act.kind \in InboxKinds /\ act.id \in Proposal
  /\ act.kind \in {"save", "repair"} => KeepsPin(act.input)

InboxInv ==
  /\ DOMAIN pages = Page /\ DOMAIN drafts = Proposal /\ DOMAIN proposals = Proposal
  /\ \A i \in Proposal : drafts[i] # NoRecord => KeepsPin(drafts[i].input)
  /\ \A i \in Proposal : proposals[i] # NoRecord => ProposalInv(proposals[i])
  /\ DOMAIN desk = Process
  /\ \A p \in Process : desk[p] # Idle => Asked(desk[p].act) /\ desk[p].plan # Refused

----------------------------------------------------------------------------
(* What may be asked for keeps the pin it gives.                           *)
LEMMA ActsAreAsked ==
  ASSUME NEW i \in Proposal, NEW act \in InboxActs(i)
  PROVE  Asked(act)
<1>1. ASSUME NEW kind, NEW c, act \in Writing(kind, i, c)
      PROVE  act.kind = kind /\ act.id = i /\ KeepsPin(act.input)
  <2>1. PICK n \in Inputs(c) : Honest(n) /\ act = [kind |-> kind, id |-> i, input |-> n]
    BY <1>1 DEF Writing
  <2>2. KeepsPin(n)
    <3>1. CASE n.mode = "create"
      BY <2>1, <3>1 DEF Inputs, KeepsPin
    <3>2. CASE n.mode # "create"
      <4>1. n.mode \in {"replace", "append", "update"}
        BY <2>1, <3>2, InboxAssumption DEF Inputs, InboxAssumption
      <4>2. n.mode # "append" /\ pages[n.target] # Absent => n.text = pages[n.target] \cup {c}
        BY <2>1, <3>2, <4>1 DEF Inputs
      <4> QED BY <2>1, <4>2 DEF Honest, KeepsPin
    <3> QED BY <3>1, <3>2
  <2> QED BY <2>1, <2>2
<1>2. CASE act \in Writing("save", i, <<i, 0>>)
  BY <1>1, <1>2 DEF Asked, InboxKinds
<1>3. CASE act \in Writing("repair", i, <<i, proposals[i].repairs + 1>>)
  BY <1>1, <1>3 DEF Asked, InboxKinds
<1>4. CASE /\ act.kind \in InboxKinds \ {"save", "repair"}
           /\ act.id = i
  BY <1>4 DEF Asked
<1>5. \/ act \in Writing("save", i, <<i, 0>>)
      \/ act \in Writing("repair", i, <<i, proposals[i].repairs + 1>>)
      \/ act.kind \in InboxKinds \ {"save", "repair"} /\ act.id = i
  BY DEF InboxActs, InboxKinds
<1> QED BY <1>2, <1>3, <1>4, <1>5

(* A capture is of the page, which is the pin if there is one.             *)
LEMMA CapturedPage ==
  ASSUME NEW input, KeepsPin(input), Captured(input) # Refused
  PROVE  input.pin # NoPin /\ input.mode # "append"
           => \/ Captured(input).expect = Absent
              \/ Captured(input).expect \subseteq input.text
<1>1. /\ input.pin = NoPin \/ input.pin = pages[Target(input)]
      /\ Captured(input) = [target |-> Target(input), expect |-> pages[Target(input)]]
  BY DEF Captured
<1> QED BY <1>1 DEF KeepsPin

----------------------------------------------------------------------------
(* What a plan leaves.                                                     *)
Sound(act, plan) ==
  /\ plan.draft # NoRecord => KeepsPin(plan.draft.input)
  /\ plan.proposal # NoRecord => ProposalInv(plan.proposal)
  /\ (Pending(act.id) /\ proposals[act.id].pinned /\ plan.proposal.status = "approved")
       => \A t \in Page : (t = plan.target /\ pages[t] # Absent) => pages[t] \subseteq plan.text

(* Plans that leave the draft and change nothing but the proposal's state. *)
LEMMA StateChange ==
  ASSUME InboxInv, NEW act, act.id \in Proposal, proposals[act.id] # NoRecord,
         NEW q, NEW s \in States \ {"approved"},
         q.status = s, DOMAIN q = ProposalFields,
         \A x \in ProposalFields \ {"status", "decidedBy"} : q[x] = proposals[act.id][x]
  PROVE  Sound(act, Records(drafts[act.id], q))
<1> DEFINE old == proposals[act.id]
           plan == Records(drafts[act.id], q)
<1>1. /\ q.author = old.author /\ q.writer = old.writer /\ q.mode = old.mode
      /\ q.text = old.text /\ q.pinned = old.pinned /\ q.expect = old.expect
      /\ q.repairedBy = old.repairedBy /\ q.repairs = old.repairs
  BY DEF ProposalFields
<1>2. ProposalInv(old) /\ s # "approved"
  BY DEF InboxInv, States
<1>3. ProposalInv(q)
  BY <1>1, <1>2 DEF ProposalInv, KeepsExpected, Looked
<1>4. plan.draft = drafts[act.id] /\ plan.proposal = q
  BY DEF Records, Writes
<1>5. plan.draft # NoRecord => KeepsPin(plan.draft.input)
  BY <1>4 DEF InboxInv
<1> HIDE DEF plan
<1>6. Sound(act, plan)
  BY <1>2, <1>3, <1>4, <1>5 DEF Sound
<1> QED BY <1>6 DEF plan

LEMMA SaveIsSound ==
  ASSUME InboxInv, NEW act, Asked(act), act.kind = "save", NEW actor,
         SaveDraft(act, actor) # Refused
  PROVE  Sound(act, SaveDraft(act, actor))
<1> DEFINE d == [author |-> IF drafts[act.id] = NoRecord THEN actor ELSE drafts[act.id].author,
                 writer |-> actor, input |-> act.input]
           plan == SaveDraft(act, actor)
<1>1. proposals[act.id] = NoRecord /\ plan = Records(d, NoRecord)
  BY DEF SaveDraft
<1>2. KeepsPin(d.input)
  BY DEF Asked
<1> HIDE DEF d
<1>3. plan.draft = d /\ plan.proposal = NoRecord
  BY <1>1 DEF Records, Writes
<1> HIDE DEF plan
<1>4. Sound(act, plan)
  BY <1>1, <1>2, <1>3 DEF Sound, Pending
<1> QED BY <1>4 DEF plan

LEMMA DeleteIsSound ==
  ASSUME InboxInv, NEW act, Asked(act), DeleteDraft(act) # Refused
  PROVE  Sound(act, DeleteDraft(act))
<1> DEFINE plan == DeleteDraft(act)
<1>1. plan.draft = NoRecord /\ plan.proposal = proposals[act.id]
  BY DEF DeleteDraft, Records, Writes
<1> HIDE DEF plan
<1>2. Sound(act, plan)
  BY <1>1 DEF Sound, Pending, InboxInv, Asked
<1> QED BY <1>2 DEF plan

LEMMA PublishIsSound ==
  ASSUME InboxInv, NEW act, Asked(act), NEW actor, Publish(act, actor) # Refused
  PROVE  Sound(act, Publish(act, actor))
<1> DEFINE d == drafts[act.id]
           at == Captured(d.input)
           q == [status |-> "pending",
                 author |-> IF d.author \in Unnamed THEN actor ELSE d.author,
                 writer |-> d.writer,
                 mode |-> d.input.mode, text |-> d.input.text,
                 pinned |-> d.input.pin # NoPin,
                 target |-> at.target, expect |-> at.expect,
                 repairedBy |-> {}, repairs |-> 0,
                 decidedBy |-> Nobody, selfApproved |-> FALSE]
           plan == Publish(act, actor)
<1>1. d # NoRecord /\ at # Refused /\ plan = Records(NoRecord, q)
  BY DEF Publish
<1>2. KeepsPin(d.input)
  BY <1>1 DEF InboxInv, Asked
<1>3. KeepsExpected(q)
  BY <1>1, <1>2, CapturedPage DEF KeepsExpected
<1>4. DOMAIN q = ProposalFields /\ Looked(q) /\ q.status = "pending"
  BY DEF ProposalFields, Looked
<1>5. plan.draft = NoRecord /\ plan.proposal = q
  BY <1>1 DEF Records, Writes
<1> HIDE DEF q, plan
<1>6. Sound(act, plan)
  BY <1>3, <1>4, <1>5 DEF Sound, ProposalInv
<1> QED BY <1>6 DEF plan

LEMMA ApproveIsSound ==
  ASSUME InboxInv, NEW act, Asked(act), NEW actor, Approve(act, actor) # Refused
  PROVE  Sound(act, Approve(act, actor))
<1> DEFINE old == proposals[act.id]
           q == [Decided(act.id, "approved", actor) EXCEPT !.selfApproved = IsContributor(old, actor)]
           plan == Approve(act, actor)
<1>1. /\ Reviews(act, actor) /\ ~Drifted(old)
      /\ plan = Writes(drafts[act.id], q, old.target, ApprovedContent(old))
  BY DEF Approve, Applied
<1>2. old # NoRecord /\ actor \in Member /\ ProposalInv(old)
  BY <1>1 DEF Reviews, Pending, Active, InboxInv, Asked
<1>3. /\ DOMAIN q = ProposalFields /\ q.status = "approved" /\ q.decidedBy = actor
      /\ q.selfApproved = IsContributor(old, actor)
      /\ q.author = old.author /\ q.writer = old.writer /\ q.mode = old.mode
      /\ q.text = old.text /\ q.pinned = old.pinned /\ q.expect = old.expect
      /\ q.repairedBy = old.repairedBy /\ q.repairs = old.repairs
  BY <1>2 DEF Decided, ProposalInv, ProposalFields
<1>4. /\ plan.draft = drafts[act.id] /\ plan.proposal = q
      /\ plan.target = old.target /\ plan.text = ApprovedContent(old)
  BY <1>1 DEF Writes
<1> HIDE DEF q, plan
<1>5. ProposalInv(q)
  <2>1. KeepsExpected(q)
    BY <1>2, <1>3 DEF ProposalInv, KeepsExpected
  <2>2. Looked(q)
    BY <1>2, <1>3 DEF ProposalInv, Looked, IsContributor
  <2> QED BY <1>3, <2>1, <2>2 DEF ProposalInv
<1>6. ASSUME old.pinned, pages[old.target] # Absent
      PROVE  pages[old.target] \subseteq ApprovedContent(old)
  <2>1. pages[old.target] = old.expect
    BY <1>1 DEF Drifted
  <2>2. CASE old.mode = "append"
    BY <1>6, <2>2 DEF ApprovedContent
  <2>3. CASE old.mode # "append"
    BY <1>2, <1>6, <2>1, <2>3 DEF ApprovedContent, ProposalInv, KeepsExpected
  <2> QED BY <2>2, <2>3
<1>7. Sound(act, plan)
  BY <1>4, <1>5, <1>6 DEF Sound, InboxInv, Asked
<1> QED BY <1>7 DEF plan

LEMMA ClosingIsSound ==
  ASSUME InboxInv, NEW act, Asked(act), NEW actor, NEW plan, plan # Refused,
         plan \in {Reject(act, actor), Withdraw(act, actor), MarkStale(act)}
  PROVE  Sound(act, plan)
<1> DEFINE old == proposals[act.id]
           Ends(s, q) == q = Decided(act.id, s, actor) \/ q = [old EXCEPT !.status = s]
<1>1. PICK s \in {"rejected", "withdrawn", "stale"} :
        \E q : Pending(act.id) /\ plan = Records(drafts[act.id], q) /\ Ends(s, q)
  BY DEF Reject, Withdraw, MarkStale
<1>2. PICK q : Pending(act.id) /\ plan = Records(drafts[act.id], q) /\ Ends(s, q)
  BY <1>1
<1>3. old # NoRecord /\ DOMAIN old = ProposalFields
  BY <1>2 DEF Pending, InboxInv, ProposalInv, Asked
<1>4. /\ DOMAIN q = ProposalFields /\ q.status = s
      /\ \A x \in ProposalFields \ {"status", "decidedBy"} : q[x] = old[x]
  BY <1>2, <1>3 DEF Decided, ProposalFields
<1>5. s \in States \ {"approved"}
  BY DEF States
<1> QED BY <1>2, <1>3, <1>4, <1>5, StateChange DEF Asked

LEMMA RepairIsSound ==
  ASSUME InboxInv, NEW act, Asked(act), act.kind = "repair", NEW actor,
         Repair(act, actor) # Refused
  PROVE  Sound(act, Repair(act, actor))
<1> DEFINE old == proposals[act.id]
           at == Captured(act.input)
           q == [old EXCEPT !.status = "pending", !.writer = actor, !.mode = act.input.mode,
                            !.text = act.input.text, !.pinned = act.input.pin # NoPin,
                            !.target = at.target, !.expect = at.expect,
                            !.repairedBy = old.repairedBy \cup ({actor} \ {old.author}),
                            !.repairs = old.repairs + 1]
           plan == Repair(act, actor)
<1>1. old # NoRecord /\ at # Refused /\ plan = Records(drafts[act.id], q)
  BY DEF Repair
<1>2. ProposalInv(old) /\ KeepsPin(act.input)
  BY <1>1 DEF InboxInv, Asked
<1>3. /\ DOMAIN q = ProposalFields /\ q.status = "pending"
      /\ q.writer = actor /\ q.author = old.author
      /\ q.mode = act.input.mode /\ q.text = act.input.text
      /\ q.pinned = (act.input.pin # NoPin) /\ q.expect = at.expect
      /\ q.repairedBy = old.repairedBy \cup ({actor} \ {old.author})
      /\ q.repairs = old.repairs + 1
  BY <1>2 DEF ProposalInv, ProposalFields
<1>4. plan.draft = drafts[act.id] /\ plan.proposal = q
  BY <1>1 DEF Records, Writes
<1> HIDE DEF q, plan
<1>5. KeepsExpected(q)
  BY <1>1, <1>2, <1>3, CapturedPage DEF KeepsExpected
<1>6. Looked(q)
  BY <1>2, <1>3 DEF ProposalInv, Looked
<1>7. Sound(act, plan)
  BY <1>3, <1>4, <1>5, <1>6 DEF Sound, ProposalInv, InboxInv, Asked
<1> QED BY <1>7 DEF plan

LEMMA InboxPlanIsSound ==
  ASSUME InboxInv, NEW act, Asked(act), NEW actor, InboxPlan(act, actor) # Refused
  PROVE  Sound(act, InboxPlan(act, actor))
<1>1. CASE act.kind = "save"
  BY <1>1, SaveIsSound DEF InboxPlan
<1>2. CASE act.kind = "delete"
  BY <1>2, DeleteIsSound DEF InboxPlan
<1>3. CASE act.kind = "publish"
  BY <1>3, PublishIsSound DEF InboxPlan
<1>4. CASE act.kind = "approve"
  BY <1>4, ApproveIsSound DEF InboxPlan
<1>5. CASE act.kind \in {"reject", "withdraw", "mark-stale"}
  BY <1>5, ClosingIsSound DEF InboxPlan
<1>6. CASE act.kind = "repair"
  BY <1>6, RepairIsSound DEF InboxPlan
<1> QED BY <1>1, <1>2, <1>3, <1>4, <1>5, <1>6 DEF Asked, InboxKinds

----------------------------------------------------------------------------
(* Steps.                                                                  *)
LEMMA InboxCommitKeeps ==
  ASSUME InboxInv, NEW act, Asked(act), NEW plan, Sound(act, plan), InboxCommit(act.id, plan)
  PROVE  /\ DOMAIN pages' = Page /\ DOMAIN drafts' = Proposal /\ DOMAIN proposals' = Proposal
         /\ \A i \in Proposal : drafts'[i] # NoRecord => KeepsPin(drafts'[i].input)
         /\ \A i \in Proposal : proposals'[i] # NoRecord => ProposalInv(proposals'[i])
         /\ \A i \in Proposal :
              (Pending(i) /\ proposals[i].pinned /\ proposals'[i].status = "approved")
                => \A t \in Page : pages[t] # Absent => pages[t] \subseteq pages'[t]
<1> DEFINE i == act.id
<1>1. /\ drafts' = [drafts EXCEPT ![i] = plan.draft]
      /\ proposals' = [proposals EXCEPT ![i] = plan.proposal]
      /\ pages' = IF plan.target = 0 THEN pages ELSE [pages EXCEPT ![plan.target] = plan.text]
  BY DEF InboxCommit
<1>2. /\ DOMAIN pages = Page /\ DOMAIN drafts = Proposal /\ DOMAIN proposals = Proposal
      /\ i \in Proposal
  BY DEF InboxInv, Asked
<1>3. /\ DOMAIN pages' = Page /\ DOMAIN drafts' = Proposal /\ DOMAIN proposals' = Proposal
      /\ drafts'[i] = plan.draft /\ proposals'[i] = plan.proposal
      /\ \A j \in Proposal \ {i} : drafts'[j] = drafts[j] /\ proposals'[j] = proposals[j]
      /\ \A t \in Page : pages'[t] = pages[t] \/ (t = plan.target /\ pages'[t] = plan.text)
  BY <1>1, <1>2
<1> HIDE DEF i
<1>4. \A j \in Proposal : drafts'[j] # NoRecord => KeepsPin(drafts'[j].input)
  BY <1>3 DEF InboxInv, Sound
<1>5. \A j \in Proposal : proposals'[j] # NoRecord => ProposalInv(proposals'[j])
  BY <1>3 DEF InboxInv, Sound
<1>6. ASSUME NEW j \in Proposal, Pending(j), proposals[j].pinned, proposals'[j].status = "approved",
             NEW t \in Page, pages[t] # Absent
      PROVE  pages[t] \subseteq pages'[t]
  <2>1. j = i
    BY <1>3, <1>6 DEF Pending
  <2> QED BY <1>3, <1>6, <2>1 DEF Sound, i
<1> QED BY <1>3, <1>4, <1>5, <1>6

(* What a step leaves of the records, whatever it does to the desk.        *)
InboxRecordsInv ==
  /\ DOMAIN pages = Page /\ DOMAIN drafts = Proposal /\ DOMAIN proposals = Proposal
  /\ \A i \in Proposal : drafts[i] # NoRecord => KeepsPin(drafts[i].input)
  /\ \A i \in Proposal : proposals[i] # NoRecord => ProposalInv(proposals[i])

InboxDeskInv ==
  /\ DOMAIN desk = Process
  /\ \A p \in Process : desk[p] # Idle => Asked(desk[p].act) /\ desk[p].plan # Refused

LosesNothing ==
  \A i \in Proposal :
    (Pending(i) /\ proposals[i].pinned /\ proposals'[i].status = "approved")
      => \A t \in Page : pages[t] # Absent => pages[t] \subseteq pages'[t]

LEMMA InboxParts == InboxInv <=> InboxRecordsInv /\ InboxDeskInv
BY DEF InboxInv, InboxRecordsInv, InboxDeskInv

LEMMA SameProposals == UNCHANGED inboxVars => LosesNothing
BY DEF LosesNothing, Pending, inboxVars

LEMMA SameRecords ==
  ASSUME InboxInv, UNCHANGED inboxVars
  PROVE  InboxRecordsInv' /\ LosesNothing
<1>1. InboxRecordsInv'
  BY DEF InboxInv, InboxRecordsInv, inboxVars, KeepsPin, ProposalInv, KeepsExpected, Looked, Page
<1>2. LosesNothing
  BY DEF LosesNothing, Pending, inboxVars
<1> QED BY <1>1, <1>2

LEMMA InboxExecuteKeeps ==
  ASSUME InboxInv, NEW i \in Proposal, NEW act \in InboxActs(i), InboxExecute(act)
  PROVE  InboxInv' /\ LosesNothing
<1> DEFINE actor == Resolved
           plan == InboxPlan(act, actor)
<1>1. plan # Refused /\ InboxCommit(act.id, plan) /\ UNCHANGED deskVars
  BY DEF InboxExecute
<1> HIDE DEF actor
<1>2. Asked(act)
  BY ActsAreAsked
<1>3. Sound(act, plan)
  BY <1>1, <1>2, InboxPlanIsSound
<1> HIDE DEF plan
<1>4. InboxRecordsInv' /\ LosesNothing
  BY <1>1, <1>2, <1>3, InboxCommitKeeps
     DEF InboxRecordsInv, LosesNothing, Page, KeepsPin, ProposalInv, KeepsExpected, Looked
<1>5. InboxDeskInv'
  BY <1>1 DEF InboxInv, InboxDeskInv, deskVars, Asked, KeepsPin
<1> QED BY <1>4, <1>5 DEF InboxInv, InboxRecordsInv, InboxDeskInv

LEMMA InboxApplyKeeps ==
  ASSUME InboxInv, NEW p \in Process, InboxApply(p)
  PROVE  InboxInv' /\ LosesNothing
<1> DEFINE act == desk[p].act
           actor == Resolved
           plan == desk[p].plan
<1>1. /\ desk[p] # Idle
      /\ plan = InboxPlan(act, actor)
      /\ InboxCommit(act.id, plan)
      /\ desk' = [desk EXCEPT ![p] = Idle]
  BY DEF InboxApply, Applies
<1>2. Asked(act) /\ plan # Refused
  BY <1>1 DEF InboxInv
<1> HIDE DEF act, actor, plan
<1>3. Sound(act, plan)
  BY <1>1, <1>2, InboxPlanIsSound
<1>4. InboxRecordsInv' /\ LosesNothing
  BY <1>1, <1>2, <1>3, InboxCommitKeeps
     DEF InboxRecordsInv, LosesNothing, Page, KeepsPin, ProposalInv, KeepsExpected, Looked
<1>5. InboxDeskInv'
  BY <1>1 DEF InboxInv, InboxDeskInv, Asked, KeepsPin
<1> QED BY <1>4, <1>5 DEF InboxInv, InboxRecordsInv, InboxDeskInv

LEMMA InboxPreviewKeeps ==
  ASSUME InboxInv, NEW i \in Proposal, NEW act \in InboxActs(i), NEW p \in Process,
         InboxPreview(p, act)
  PROVE  InboxInv' /\ LosesNothing
<1> DEFINE held == [act |-> act, actor |-> Resolved, stamp |-> 0,
                    plan |-> InboxPlan(act, Resolved), seen |-> InboxSeen(act)]
<1>1. /\ desk' = [desk EXCEPT ![p] = held]
      /\ held.act = act /\ held.plan # Refused
      /\ UNCHANGED inboxVars
  BY DEF InboxPreview, Previews
<1> HIDE DEF held
<1>2. Asked(act)
  BY ActsAreAsked
<1>3. InboxDeskInv'
  BY <1>1, <1>2 DEF InboxInv, InboxDeskInv, Asked, KeepsPin
<1> QED BY <1>1, <1>3, SameRecords DEF InboxInv, InboxRecordsInv, InboxDeskInv

LEMMA OutsideEditKeeps ==
  ASSUME InboxInv, NEW t \in Page, OutsideEdit(t)
  PROVE  InboxInv' /\ LosesNothing
<1>1. DOMAIN pages' = Page /\ UNCHANGED <<drafts, proposals, desk>>
  BY DEF OutsideEdit, InboxInv, deskVars
<1>2. InboxRecordsInv'
  BY <1>1 DEF InboxInv, InboxRecordsInv, KeepsPin, ProposalInv, KeepsExpected, Looked, Page
<1>3. InboxDeskInv'
  BY <1>1 DEF InboxInv, InboxDeskInv, Asked, KeepsPin
<1>4. LosesNothing
  BY <1>1 DEF LosesNothing, Pending
<1> QED BY <1>2, <1>3, <1>4 DEF InboxInv, InboxRecordsInv, InboxDeskInv

LEMMA InboxStepKeeps ==
  ASSUME InboxInv, [InboxNext]_<<deskVars, inboxVars>>
  PROVE  InboxInv' /\ LosesNothing
<1>1. CASE InboxStep
  BY <1>1, InboxExecuteKeeps, InboxApplyKeeps, InboxPreviewKeeps, OutsideEditKeeps DEF InboxStep
<1>2. ASSUME UNCHANGED inboxVars, InboxDeskInv' PROVE InboxInv' /\ LosesNothing
  BY <1>2, SameRecords DEF InboxInv, InboxRecordsInv, InboxDeskInv
<1>3. CASE (\E p \in Process : Abandon(p)) /\ UNCHANGED inboxVars
  <2>1. InboxDeskInv'
    BY <1>3 DEF Abandon, InboxInv, InboxDeskInv, Asked, KeepsPin
  <2> QED BY <1>2, <1>3, <2>1
<1>4. CASE UNCHANGED desk /\ UNCHANGED inboxVars
  <2>1. InboxDeskInv'
    BY <1>4 DEF InboxInv, InboxDeskInv, Asked, KeepsPin
  <2> QED BY <1>2, <1>4, <2>1
<1>5. CASE ChangeMembers /\ UNCHANGED inboxVars
  BY <1>4, <1>5 DEF ChangeMembers, AddMember, Deactivate, Reactivate, Registers,
                    SelectMember, ClearSelection
<1>6. CASE UNCHANGED <<deskVars, inboxVars>>
  BY <1>4, <1>6 DEF deskVars
<1> QED BY <1>1, <1>3, <1>5, <1>6 DEF InboxNext

LEMMA InboxBegins == DeskInit /\ InboxInit => InboxInv
BY DEF DeskInit, InboxInit, InboxInv

----------------------------------------------------------------------------
LEMMA InboxMeans == InboxInv => FourEyes
<1> SUFFICES ASSUME InboxInv, NEW i \in Proposal, proposals[i] # NoRecord,
                    proposals[i].status = "approved", ~proposals[i].selfApproved
             PROVE  /\ proposals[i].decidedBy \in Member
                    /\ proposals[i].decidedBy # proposals[i].author
                    /\ proposals[i].decidedBy = proposals[i].writer => proposals[i].repairs = 0
  BY DEF FourEyes
<1>1. Looked(proposals[i])
  BY DEF InboxInv, ProposalInv
<1> QED BY <1>1 DEF Looked

(* Whoever drafts, publishes, repairs, edits and approves in whatever      *)
(* order: an approval without self-approval is by a member who is neither  *)
(* the author nor the one who repaired the text last (plan_inbox for       *)
(* inbox.approve, is_contributor).                                         *)
THEOREM FourEyesHold == InboxSpec => []FourEyes
<1>1. InboxInv /\ [InboxNext]_<<deskVars, inboxVars>> => InboxInv'
  BY InboxStepKeeps
<1> QED BY InboxBegins, InboxMeans, <1>1, PTL DEF InboxSpec

(* Whichever preview an approval is applied from, and whatever was edited, *)
(* approved or repaired since: the page keeps what it held, if the writer  *)
(* pinned the page they read (capture_expectations, proposal_drifted).     *)
THEOREM ApprovalsLoseNothing == InboxSpec => ApprovalLosesNothing
<1>1. InboxInv /\ [InboxNext]_<<deskVars, inboxVars>> => InboxInv'
  BY InboxStepKeeps
<1>2. InboxInv /\ [InboxNext]_<<deskVars, inboxVars>>
        => [\A i \in Proposal :
              (Pending(i) /\ proposals[i].pinned /\ proposals'[i].status = "approved")
                => \A t \in Page : pages[t] # Absent => pages[t] \subseteq pages'[t]]_<<pages, proposals>>
  BY InboxStepKeeps DEF LosesNothing
<1> QED BY InboxBegins, <1>1, <1>2, PTL DEF InboxSpec, ApprovalLosesNothing

----------------------------------------------------------------------------
(* Relays and catch-up.                                                    *)
(* A relay as it is written, with a time for every state it has been in.   *)
RelayFields == {"sender", "team", "to", "status", "claimant", "closer", "stamps"}

Until(s) ==
  IF s = "published" THEN {"published"}
  ELSE IF s = "acknowledged" THEN {"published", "acknowledged"}
  ELSE RelayStates

WellFormed(relay) ==
  /\ DOMAIN relay = RelayFields
  /\ relay.status \in RelayStates
  /\ DOMAIN relay.stamps = Until(relay.status)
  /\ \A x \in DOMAIN relay.stamps : relay.stamps[x] \in Nat

RelaysInv ==
  /\ clock \in Nat
  /\ DOMAIN relays = Relay /\ DOMAIN relayDrafts = Relay
  /\ \A r \in Relay : relayDrafts[r] = NoRelay \/ relays[r] = NoRelay
  /\ \A r \in Sent : WellFormed(relays[r])

(* The previews held are of relay actions.                                 *)
PreviewsInv ==
  /\ DOMAIN desk = Process
  /\ \A p \in Process : desk[p] # Idle =>
       /\ desk[p].stamp \in Nat /\ desk[p].plan # Refused
       /\ \E r \in Relay : desk[p].act \in RelayActs(r)

(* What the pages so far of a list have listed is known.                   *)
PagingInv(m) ==
  paging[m] # NoPage =>
    \A e \in paging[m].corpus.entries :
      /\ e.at \in Nat
      /\ (e \notin paging[m].left /\ passed[m] < e.at) => e \in known[m]

(* The cursor is where a digest has been, or the reader went unread; and   *)
(* what concerns the reader between the two is known to them, or was cut.  *)
ReaderInv(m) ==
  /\ covered[m] \in Nat /\ covered[m] <= clock
  /\ passed[m] \in Nat /\ passed[m] <= covered[m]
  /\ cursor[m] # NoCursor => cursor[m].at \in Nat /\ cursor[m].at <= covered[m]
  /\ PagingInv(m)
  /\ \A i \in Items :
       (Concerns(m, i) /\ passed[m] < Stamp(i) /\ Stamp(i) <= covered[m])
         => Entry(i) \in known[m] \cup cut[m]

ReadersInv ==
  /\ DOMAIN cursor = Reader /\ DOMAIN paging = Reader
  /\ DOMAIN known = Reader /\ DOMAIN cut = Reader
  /\ DOMAIN covered = Reader /\ DOMAIN passed = Reader
  /\ \A m \in Reader : ReaderInv(m)

CatchUpInv == RelaysInv /\ PreviewsInv /\ ReadersInv

----------------------------------------------------------------------------
(* An item is of a relay that was sent, and of a state it has been in.     *)
LEMMA ItemsOf ==
  ASSUME RelaysInv, NEW i \in Items
  PROVE  /\ i.relay \in Sent
         /\ i.status \in DOMAIN relays[i.relay].stamps
         /\ Stamp(i) \in Nat
         /\ i.source = "relay" \/ (i.source = "activity" /\ i.status # "published")
<1>1. CASE i \in RelayItems
  <2>1. PICK r \in Sent : i = Item("relay", r, relays[r].status)
    BY <1>1 DEF RelayItems
  <2>2. i.source = "relay" /\ i.relay = r /\ i.status = relays[r].status
    BY <2>1 DEF Item
  <2>3. relays[r].status \in DOMAIN relays[r].stamps
    BY DEF RelaysInv, WellFormed, Until, RelayStates
  <2> QED BY <2>2, <2>3 DEF RelaysInv, WellFormed, Stamp
<1>2. CASE i \in ActivityItems
  <2>1. PICK r \in Sent : \E s \in DOMAIN relays[r].stamps \ {"published"} :
                             i = Item("activity", r, s)
    BY <1>2 DEF ActivityItems
  <2>2. PICK s \in DOMAIN relays[r].stamps \ {"published"} : i = Item("activity", r, s)
    BY <2>1
  <2>3. i.source = "activity" /\ i.relay = r /\ i.status = s
    BY <2>2 DEF Item
  <2> QED BY <2>3 DEF RelaysInv, WellFormed, Stamp
<1> QED BY <1>1, <1>2 DEF Items

(* What a step may do to a relay that was sent and still is.               *)
Grows(old, new) ==
  /\ new.sender = old.sender /\ new.team = old.team /\ new.to = old.to
  /\ \A x \in DOMAIN old.stamps : new.stamps[x] = old.stamps[x]
  /\ "acknowledged" \in DOMAIN old.stamps => new.claimant = old.claimant
  /\ "closed" \in DOMAIN old.stamps => new.closer = old.closer

(* Then its items concern whom they did, and are as old as they were.      *)
LEMMA ItemsKept ==
  ASSUME RelaysInv, NEW i \in Items, NEW m, Grows(relays[i.relay], relays'[i.relay])
  PROVE  Stamp(i)' = Stamp(i) /\ (Concerns(m, i)' <=> Concerns(m, i))
<1>1. /\ i.relay \in Sent
      /\ i.status \in DOMAIN relays[i.relay].stamps
      /\ i.source = "relay" \/ (i.source = "activity" /\ i.status # "published")
  BY ItemsOf
<1>2. Stamp(i)' = Stamp(i)
  BY <1>1 DEF Stamp, Grows
<1>3. CASE i.source = "relay"
  <2>1. Actor(i)' = Actor(i)
    BY <1>3 DEF Actor, Grows
  <2>2. Addressed(i.relay, m)' <=> Addressed(i.relay, m)
    BY Zenon DEF Addressed, Grows
  <2> QED BY <1>2, <2>1, <2>2 DEF Concerns
<1>4. CASE i.source = "activity" /\ i.status # "published"
  <2>1. i.status \in {"acknowledged", "closed"}
    BY <1>1, <1>4 DEF RelaysInv, WellFormed, Until, RelayStates
  <2>2. Actor(i)' = Actor(i)
    BY <1>1, <1>4, <2>1 DEF Actor, Grows
  <2> QED BY <1>2, <1>4, <2>2 DEF Concerns
<1> QED BY <1>1, <1>3, <1>4

----------------------------------------------------------------------------
(* The planners.                                                           *)
LEMMA MovedRelay ==
  ASSUME NEW relay, WellFormed(relay), NEW actor, NEW now \in Nat,
         NEW s, NEW who,
         \/ relay.status = "published" /\ s = "acknowledged" /\ who = "claimant"
         \/ relay.status = "acknowledged" /\ s = "closed" /\ who = "closer"
  PROVE  WellFormed(Moved(relay, s, who, actor, now))
         /\ Grows(relay, Moved(relay, s, who, actor, now))
<1> DEFINE new == Moved(relay, s, who, actor, now)
           stamps == [x \in DOMAIN relay.stamps \cup {s} |->
                        IF x = s THEN now ELSE relay.stamps[x]]
<1>1. DOMAIN relay = RelayFields /\ who \in RelayFields
  BY DEF WellFormed, RelayFields
<1>2. /\ DOMAIN new = RelayFields
      /\ new.status = s /\ new.stamps = stamps
      /\ new.sender = relay.sender /\ new.team = relay.team /\ new.to = relay.to
      /\ who = "closer" => new.claimant = relay.claimant
  BY <1>1 DEF Moved, RelayFields
<1>3. /\ DOMAIN stamps = DOMAIN relay.stamps \cup {s}
      /\ \A x \in DOMAIN relay.stamps : x # s => stamps[x] = relay.stamps[x]
      /\ stamps[s] = now
  OBVIOUS
<1>4. DOMAIN relay.stamps = Until(relay.status) /\ \A x \in DOMAIN relay.stamps : relay.stamps[x] \in Nat
  BY DEF WellFormed
<1> HIDE DEF new, stamps
<1>5. DOMAIN stamps = Until(s) /\ s \notin DOMAIN relay.stamps /\ s \in RelayStates
  BY <1>3, <1>4 DEF Until, RelayStates
<1>6. WellFormed(new)
  BY <1>2, <1>3, <1>4, <1>5 DEF WellFormed
<1>7. Grows(relay, new)
  <2>1. "closed" \notin DOMAIN relay.stamps
    BY <1>4 DEF Until
  <2>2. "acknowledged" \in DOMAIN relay.stamps => who = "closer"
    BY <1>4 DEF Until
  <2> QED BY <1>2, <1>3, <1>5, <2>1, <2>2 DEF Grows
<1> QED BY <1>6, <1>7 DEF new

(* What a plan leaves: the draft and the relay of its record.              *)
LEMMA PlannedRelay ==
  ASSUME RelaysInv, NEW r \in Relay, NEW act \in RelayActs(r), NEW actor, NEW now \in Nat,
         NEW plan, plan = RelayPlan(act, actor, now), plan # Refused
  PROVE  /\ act.id = r
         /\ plan.draft = NoRelay \/ plan.relay = NoRelay
         /\ \/ plan.relay = relays[r]
            \/ relays[r] = NoRelay /\ WellFormed(plan.relay)
            \/ /\ relays[r] # NoRelay /\ WellFormed(plan.relay)
               /\ Grows(relays[r], plan.relay)
<1>1. /\ act.id = r
      /\ act.kind \in {"relay.save", "relay.delete", "relay.publish",
                        "relay.acknowledge", "relay.close"}
  BY DEF RelayActs
<1>2. relayDrafts[r] = NoRelay \/ relays[r] = NoRelay
  BY DEF RelaysInv
<1>3. relays[r] # NoRelay => WellFormed(relays[r])
  BY DEF RelaysInv, Sent
<1>4. CASE act.kind = "relay.save"
  BY <1>1, <1>2, <1>4, Zenon DEF RelayPlan, SaveRelayDraft, Saved
<1>5. CASE act.kind = "relay.delete"
  BY <1>1, <1>2, <1>5 DEF RelayPlan, DeleteRelayDraft, Saved
<1>6. CASE act.kind = "relay.publish"
  BY <1>1, <1>2, <1>6
     DEF RelayPlan, PublishRelay, Saved, WellFormed, RelayFields, Until, RelayStates
<1>7. CASE act.kind = "relay.acknowledge"
  <2>1. /\ relays[r] # NoRelay /\ relays[r].status = "published"
        /\ plan = Moves(r, "acknowledged", "claimant", actor, now)
    BY <1>1, <1>7 DEF RelayPlan, Acknowledge
  <2> QED BY <1>1, <1>2, <1>3, <2>1, MovedRelay DEF Moves, Saved
<1>8. CASE act.kind = "relay.close"
  <2>1. /\ relays[r] # NoRelay /\ relays[r].status = "acknowledged"
        /\ plan = Moves(r, "closed", "closer", actor, now)
    BY <1>1, <1>8 DEF RelayPlan, CloseRelay
  <2> QED BY <1>1, <1>2, <1>3, <2>1, MovedRelay DEF Moves, Saved
<1> QED BY <1>1, <1>4, <1>5, <1>6, <1>7, <1>8

(* Writing the plan keeps every relay well formed and growing.             *)
LEMMA Committed ==
  ASSUME RelaysInv, NEW r \in Relay, NEW act \in RelayActs(r), NEW actor, NEW now \in Nat,
         NEW plan, plan = RelayPlan(act, actor, now), plan # Refused,
         RelayCommit(act.id, plan)
  PROVE  /\ RelaysInv'
         /\ \A q \in Sent : q \in Sent' => Grows(relays[q], relays'[q])
<1>1. /\ act.id = r
      /\ plan.draft = NoRelay \/ plan.relay = NoRelay
      /\ \/ plan.relay = relays[r]
         \/ relays[r] = NoRelay /\ WellFormed(plan.relay)
         \/ relays[r] # NoRelay /\ WellFormed(plan.relay) /\ Grows(relays[r], plan.relay)
  BY PlannedRelay
<1>2. /\ relays' = [relays EXCEPT ![r] = plan.relay]
      /\ relayDrafts' = [relayDrafts EXCEPT ![r] = plan.draft]
      /\ clock' = clock
  BY <1>1 DEF RelayCommit
<1>3. DOMAIN relays = Relay /\ DOMAIN relayDrafts = Relay /\ clock \in Nat
  BY DEF RelaysInv
<1>4. /\ DOMAIN relays' = Relay /\ DOMAIN relayDrafts' = Relay
      /\ relays'[r] = plan.relay /\ relayDrafts'[r] = plan.draft
      /\ \A q \in Relay \ {r} : relays'[q] = relays[q] /\ relayDrafts'[q] = relayDrafts[q]
  BY <1>2, <1>3
<1>5. \A q \in Sent : Grows(relays[q], relays[q])
  BY DEF Grows
<1>6. \A q \in Sent : WellFormed(relays[q])
  BY DEF RelaysInv
<1>7. \A q \in Sent' : WellFormed(relays'[q])
  BY <1>1, <1>4, <1>6 DEF Sent
<1>8. RelaysInv'
  BY <1>1, <1>2, <1>3, <1>4, <1>7 DEF RelaysInv, WellFormed
<1>9. ASSUME NEW q \in Sent, q \in Sent' PROVE Grows(relays[q], relays'[q])
  BY <1>1, <1>4, <1>5, <1>9 DEF Sent
<1> QED BY <1>8, <1>9

(* The previews held stay those of relay actions.                          *)
LEMMA PreviewsKept ==
  ASSUME CatchUpInv, CatchUpNext
  PROVE  PreviewsInv'
<1>1. PreviewsInv /\ clock \in Nat
  BY DEF CatchUpInv, RelaysInv
<1>2. CASE UNCHANGED desk
  BY <1>1, <1>2 DEF PreviewsInv, RelayActs
<1>3. CASE \E p \in Process : desk' = [desk EXCEPT ![p] = Idle]
  BY <1>1, <1>3 DEF PreviewsInv, RelayActs
<1>4. ASSUME NEW p \in Process, NEW r \in Relay, NEW act \in RelayActs(r),
             RelayPreview(p, act)
      PROVE  PreviewsInv'
  <2> DEFINE held == [act |-> act, actor |-> Resolved, stamp |-> clock,
                      plan |-> RelayPlan(act, Resolved, clock), seen |-> RelaySeen(act)]
  <2>1. desk' = [desk EXCEPT ![p] = held]
    BY <1>4 DEF RelayPreview, Previews
  <2>2. held.act = act /\ held.stamp = clock /\ held.plan # Refused
    BY <1>4 DEF RelayPreview, Previews
  <2> HIDE DEF held
  <2> QED BY <1>1, <2>1, <2>2 DEF PreviewsInv, RelayActs
<1>5. CASE RelayStep
  <2>1. ASSUME NEW r \in Relay, NEW act \in RelayActs(r), RelayExecute(act)
        PROVE  PreviewsInv'
    BY <1>2, <2>1 DEF RelayExecute, deskVars
  <2>2. ASSUME NEW p \in Process, RelayApply(p)
        PROVE  PreviewsInv'
    BY <1>3, <2>2 DEF RelayApply, Applies
  <2> QED BY <1>4, <1>5, <2>1, <2>2 DEF RelayStep
<1>6. CASE \E m \in Reader : Reads(m) \/ MovesCursor(m)
  BY <1>2, <1>6 DEF Reads, MovesCursor, deskVars
<1>7. CASE \E b \in Branch : Checkout(b)
  BY <1>2, <1>7 DEF Checkout, deskVars
<1>8. CASE Tick
  BY <1>2, <1>8 DEF Tick, deskVars
<1>9. CASE \E p \in Process : Abandon(p)
  BY <1>3, <1>9 DEF Abandon
<1>10. CASE ChangeMembers
  BY <1>2, <1>10 DEF ChangeMembers, AddMember, Deactivate, Reactivate, Registers,
                     SelectMember, ClearSelection
<1> QED BY <1>5, <1>6, <1>7, <1>8, <1>9, <1>10 DEF CatchUpNext

----------------------------------------------------------------------------
(* What no relay step changes leaves the items as they are.                *)
LEMMA SameItems ==
  ASSUME UNCHANGED relays
  PROVE  /\ Items' = Items
         /\ \A i : Stamp(i)' = Stamp(i) /\ Entry(i)' = Entry(i)
         /\ \A m, i : Concerns(m, i)' <=> Concerns(m, i)
BY DEF Items, RelayItems, ActivityItems, Sent, Stamp, Entry, Concerns, Actor, Addressed

(* A digest lists, or cuts off, all that its window holds.                 *)
LEMMA WindowIsListed ==
  ASSUME NEW m, NEW i \in Items, Concerns(m, i),
         Baseline(m) < Stamp(i), Stamp(i) <= clock, covered[m] < Stamp(i)
  PROVE  Entry(i) \in Corpus(m).entries \cup CutFor(m)
<1>1. Changed(i, Baseline(m))
  BY DEF Changed, Contains
<1> QED BY <1>1 DEF Corpus, CutFor, CutOff, Digest

(* The last page has all of the list listed; one before it leaves some.    *)
LEMMA ReadsKeep ==
  ASSUME CatchUpInv, NEW r \in Reader, Reads(r)
  PROVE  ReadersInv'
<1> DEFINE base == Baseline(r)
           full == Corpus(r)
<1>1. RelaysInv /\ clock \in Nat /\ ReadersInv /\ ReaderInv(r) /\ DefaultWindow \in Nat
  BY CatchUpAssumption DEF CatchUpInv, RelaysInv, ReadersInv, CatchUpAssumption
<1>2. base \in Int
  BY <1>1 DEF ReaderInv, Baseline
<1>3. \A e \in full.entries : e.at \in Nat
  <2>1. \A i \in Items : Stamp(i) \in Nat
    BY <1>1, ItemsOf
  <2>2. \A i \in Newest(RelayItems) \cup Newest(ActivityItems) : i \in Items
    BY DEF Newest, Items
  <2> QED BY <2>1, <2>2 DEF Corpus, Digest, Entry
<1>4. PICK left :
        /\ Lists(r, left)
        /\ \A e \in full.entries : (e \notin left /\ passed[r] < e.at) => e \in known[r]
  BY <1>1 DEF Reads, ReaderInv, PagingInv
<1>5. UNCHANGED <<cursor, passed, relays, clock>>
  BY DEF Reads, relayVars
<1> HIDE DEF base, full
<1>6. PICK shown \in SUBSET left :
        /\ known' = [known EXCEPT ![r] = known[r] \cup {e \in shown : e.at > passed[r]}]
        /\ paging' = [paging EXCEPT ![r] =
                        IF shown = left THEN NoPage ELSE [corpus |-> full, left |-> left \ shown]]
        /\ IF shown = left /\ base <= covered[r]
             THEN /\ covered' = [covered EXCEPT ![r] = clock]
                  /\ cut' = [cut EXCEPT ![r] = cut[r] \cup CutFor(r)]
             ELSE UNCHANGED <<covered, cut>>
  BY <1>4 DEF Lists, base, full
<1>7. /\ Items' = Items
      /\ \A i : Stamp(i)' = Stamp(i) /\ Entry(i)' = Entry(i)
      /\ \A m, i : Concerns(m, i)' <=> Concerns(m, i)
  BY <1>5, SameItems
<1>8. /\ DOMAIN known' = Reader /\ DOMAIN covered' = Reader
      /\ DOMAIN paging' = Reader /\ DOMAIN cut' = Reader
      /\ known'[r] = known[r] \cup {e \in shown : e.at > passed[r]}
      /\ paging'[r] = IF shown = left THEN NoPage ELSE [corpus |-> full, left |-> left \ shown]
      /\ covered'[r] = IF shown = left /\ base <= covered[r] THEN clock ELSE covered[r]
      /\ cut'[r] = IF shown = left /\ base <= covered[r] THEN cut[r] \cup CutFor(r) ELSE cut[r]
      /\ \A m \in Reader \ {r} : /\ known'[m] = known[m] /\ covered'[m] = covered[m]
                                 /\ paging'[m] = paging[m] /\ cut'[m] = cut[m]
  BY <1>1, <1>6 DEF ReadersInv
<1>9. ASSUME NEW e \in full.entries, e \notin left \ shown, passed[r] < e.at
      PROVE  e \in known'[r]
  BY <1>1, <1>3, <1>4, <1>6, <1>8, <1>9 DEF ReaderInv
<1>10. ReaderInv(r)'
  <2>1. /\ covered[r] \in Nat /\ covered[r] <= clock
        /\ passed[r] \in Nat /\ passed[r] <= covered[r]
        /\ cursor[r] # NoCursor => cursor[r].at \in Nat /\ cursor[r].at <= covered[r]
        /\ \A i \in Items :
             (Concerns(r, i) /\ passed[r] < Stamp(i) /\ Stamp(i) <= covered[r])
               => Entry(i) \in known[r] \cup cut[r]
    BY <1>1 DEF ReaderInv
  <2>2. /\ covered'[r] \in Nat /\ covered'[r] <= clock
        /\ passed'[r] \in Nat /\ passed'[r] <= covered'[r]
    BY <1>1, <1>5, <1>8, <2>1
  <2>3. cursor'[r] # NoCursor => cursor'[r].at \in Nat /\ cursor'[r].at <= covered'[r]
    BY <1>1, <1>5, <1>8, <2>1
  <2>4. ASSUME NEW i \in Items, Concerns(r, i), passed[r] < Stamp(i), Stamp(i) <= covered'[r]
        PROVE  Entry(i) \in known'[r] \cup cut'[r]
    <3>1. Stamp(i) \in Nat /\ Entry(i).at = Stamp(i)
      BY <1>1, ItemsOf DEF Entry
    <3>2. CASE Stamp(i) <= covered[r]
      BY <1>8, <2>1, <2>4, <3>2
    <3>3. CASE ~(Stamp(i) <= covered[r])
      <4>1. shown = left /\ base <= covered[r] /\ Stamp(i) <= clock
        BY <1>8, <2>4, <3>3
      <4>2. base < Stamp(i) /\ covered[r] < Stamp(i)
        BY <1>2, <2>1, <3>1, <3>3, <4>1
      <4>3. Entry(i) \in full.entries \cup CutFor(r)
        BY <2>4, <4>1, <4>2, WindowIsListed DEF base, full
      <4> QED BY <1>8, <1>9, <2>4, <3>1, <4>1, <4>3
    <3> QED BY <3>2, <3>3
  <2>5. PagingInv(r)'
    <3>1. CASE shown = left
      BY <1>8, <3>1 DEF PagingInv
    <3>2. CASE shown # left
      <4>1. paging'[r].corpus = full /\ paging'[r].left = left \ shown
        BY <1>8, <3>2
      <4> QED BY <1>3, <1>5, <1>9, <4>1 DEF PagingInv
    <3> QED BY <3>1, <3>2
  <2> QED BY <1>5, <1>7, <2>2, <2>3, <2>4, <2>5 DEF ReaderInv
<1>11. ASSUME NEW m \in Reader \ {r} PROVE ReaderInv(m)'
  BY <1>1, <1>5, <1>7, <1>8 DEF ReadersInv, ReaderInv, PagingInv
<1> QED BY <1>1, <1>5, <1>8, <1>10, <1>11 DEF ReadersInv

(* Moving the cursor within what digests covered changes nothing; moving   *)
(* it beyond passes all that is before it.                                 *)
LEMMA MovesKeep ==
  ASSUME CatchUpInv, NEW r \in Reader, MovesCursor(r)
  PROVE  ReadersInv'
<1>1. RelaysInv /\ clock \in Nat /\ ReadersInv
  BY DEF CatchUpInv, RelaysInv
<1>2. UNCHANGED <<relays, clock, paging>>
  BY DEF MovesCursor, relayVars
<1>3. /\ Items' = Items
      /\ \A i : Stamp(i)' = Stamp(i) /\ Entry(i)' = Entry(i)
      /\ \A m, i : Concerns(m, i)' <=> Concerns(m, i)
  BY <1>2, SameItems
<1>4. CASE Clear(r) /\ UNCHANGED <<known, cut, covered, passed>>
  BY <1>1, <1>2, <1>3, <1>4 DEF ReadersInv, ReaderInv, PagingInv, Clear
<1>5. ASSUME NEW t \in 0 .. clock, Mark(r, t) \/ Reset(r, t), Goes(r, t)
      PROVE  ReadersInv'
  <2> DEFINE here == [at |-> t, branch |-> branch]
  <2>1. cursor' = [cursor EXCEPT ![r] = here] /\ here.at = t
    BY <1>5 DEF Mark, Reset
  <2> HIDE DEF here
  <2>2. /\ DOMAIN cursor' = Reader /\ cursor'[r] = here
        /\ \A m \in Reader \ {r} : cursor'[m] = cursor[m]
    BY <1>1, <2>1 DEF ReadersInv
  <2>3. CASE t <= covered[r]
    <3>1. UNCHANGED <<known, cut, covered, passed>>
      BY <1>5, <2>3 DEF Goes
    <3>2. \A m \in Reader : PagingInv(m)'
      BY <1>1, <1>2, <3>1 DEF ReadersInv, ReaderInv, PagingInv
    <3> QED BY <1>1, <1>2, <1>3, <1>5, <2>1, <2>2, <2>3, <3>1, <3>2 DEF ReadersInv, ReaderInv
  <2>4. CASE ~(t <= covered[r])
    <3>1. /\ passed' = [passed EXCEPT ![r] = t]
          /\ covered' = [covered EXCEPT ![r] = t]
          /\ known' = [known EXCEPT ![r] = {e \in known[r] : e.at > t}]
          /\ cut' = [cut EXCEPT ![r] = {e \in cut[r] : e.at > t}]
      BY <1>5, <2>4 DEF Goes
    <3>2. /\ DOMAIN passed' = Reader /\ DOMAIN covered' = Reader
          /\ DOMAIN known' = Reader /\ DOMAIN cut' = Reader
          /\ passed'[r] = t /\ covered'[r] = t
          /\ known'[r] = {e \in known[r] : e.at > t}
          /\ \A m \in Reader \ {r} :
               /\ passed'[m] = passed[m] /\ covered'[m] = covered[m]
               /\ known'[m] = known[m] /\ cut'[m] = cut[m]
      BY <1>1, <3>1 DEF ReadersInv
    <3>3. ASSUME NEW i \in Items, t < Stamp(i), Stamp(i) <= t PROVE FALSE
      BY <1>1, <3>3, ItemsOf
    <3>4. PagingInv(r)'
      <4>1. ReaderInv(r)
        BY <1>1 DEF ReadersInv
      <4>2. ASSUME NEW e, e.at \in Nat, t < e.at PROVE passed[r] < e.at /\ e.at > t
        BY <1>1, <1>5, <2>4, <4>1, <4>2 DEF ReaderInv
      <4> QED BY <1>2, <3>2, <4>1, <4>2 DEF ReaderInv, PagingInv
    <3>5. ReaderInv(r)'
      BY <1>1, <1>2, <1>3, <2>1, <2>2, <3>2, <3>3, <3>4 DEF ReaderInv
    <3>6. ASSUME NEW m \in Reader \ {r} PROVE ReaderInv(m)'
      BY <1>1, <1>2, <1>3, <2>2, <3>2 DEF ReadersInv, ReaderInv, PagingInv
    <3> QED BY <1>1, <1>2, <2>2, <3>2, <3>5, <3>6 DEF ReadersInv
  <2> QED BY <2>3, <2>4
<1> QED BY <1>4, <1>5 DEF MovesCursor

(* A relay step adds items, known if a digest has been beyond them.        *)
LEMMA RelayStepKeeps ==
  ASSUME CatchUpInv, RelayStep
  PROVE  RelaysInv' /\ ReadersInv'
<1>1. RelaysInv /\ PreviewsInv /\ ReadersInv /\ clock \in Nat
  BY DEF CatchUpInv, RelaysInv
<1>2. RelaysInv' /\ clock' = clock /\ \A q \in Sent : q \in Sent' => Grows(relays[q], relays'[q])
  <2>1. ASSUME NEW r \in Relay, NEW act \in RelayActs(r), RelayExecute(act)
        PROVE  /\ RelaysInv' /\ clock' = clock
               /\ \A q \in Sent : q \in Sent' => Grows(relays[q], relays'[q])
    <3> DEFINE actor == PublishesFor(act, Resolved)
               plan == RelayPlan(act, actor, clock)
    <3>1. plan # Refused /\ RelayCommit(act.id, plan)
      BY <2>1 DEF RelayExecute
    <3> HIDE DEF actor
    <3>2. plan = RelayPlan(act, actor, clock)
      OBVIOUS
    <3> HIDE DEF plan
    <3>3. /\ RelaysInv'
          /\ \A q \in Sent : q \in Sent' => Grows(relays[q], relays'[q])
      BY <1>1, <3>1, <3>2, Committed
    <3> QED BY <3>1, <3>3 DEF RelayCommit
  <2>2. ASSUME NEW p \in Process, RelayApply(p)
        PROVE  /\ RelaysInv' /\ clock' = clock
               /\ \A q \in Sent : q \in Sent' => Grows(relays[q], relays'[q])
    <3>1. /\ desk[p] # Idle
          /\ RelayPlan(desk[p].act, Resolved, desk[p].stamp) = desk[p].plan
          /\ RelayCommit(desk[p].act.id, desk[p].plan)
      BY <2>2 DEF RelayApply, Applies
    <3>2. PICK r \in Relay : desk[p].act \in RelayActs(r)
      BY <1>1, <3>1 DEF PreviewsInv
    <3>3. desk[p].stamp \in Nat
      BY <1>1, <3>1 DEF PreviewsInv
    <3>4. desk[p].plan # Refused
      BY <1>1, <3>1 DEF PreviewsInv
    <3> DEFINE act == desk[p].act
               plan == desk[p].plan
               now == desk[p].stamp
    <3>5. /\ act \in RelayActs(r) /\ now \in Nat /\ plan = RelayPlan(act, Resolved, now)
          /\ plan # Refused /\ RelayCommit(act.id, plan)
      BY <3>1, <3>2, <3>3, <3>4
    <3> HIDE DEF act, plan, now
    <3>6. /\ RelaysInv'
          /\ \A q \in Sent : q \in Sent' => Grows(relays[q], relays'[q])
      BY <1>1, <3>5, Committed
    <3> QED BY <3>5, <3>6 DEF RelayCommit
  <2>3. ASSUME NEW p \in Process, NEW act, RelayPreview(p, act)
        PROVE  /\ RelaysInv' /\ clock' = clock
               /\ \A q \in Sent : q \in Sent' => Grows(relays[q], relays'[q])
    BY <1>1, <2>3 DEF RelayPreview, relayVars, RelaysInv, Sent, WellFormed, Grows
  <2> QED BY <2>1, <2>2, <2>3 DEF RelayStep
<1>3. /\ UNCHANGED <<cursor, paging, cut, covered, passed>>
      /\ known' = [m \in Reader |->
                     known[m] \cup {Entry(i)' : i \in {j \in Items' \ Items : Stamp(j)' <= covered[m]}}]
  BY DEF RelayStep
<1>4. ASSUME NEW m \in Reader PROVE ReaderInv(m)'
  <2>1. ReaderInv(m)
    BY <1>1 DEF ReadersInv
  <2>2. ASSUME NEW i \in Items', Concerns(m, i)', passed[m] < Stamp(i)', Stamp(i)' <= covered[m]
        PROVE  Entry(i)' \in known'[m] \cup cut[m]
    <3>1. CASE i \notin Items
      BY <1>3, <2>2, <3>1
    <3>2. CASE i \in Items
      <4>1. i.relay \in Sent
        BY <1>1, <3>2, ItemsOf
      <4>2. i.relay \in Sent'
        BY <2>2 DEF Items, RelayItems, ActivityItems, Item
      <4>3. Stamp(i)' = Stamp(i) /\ (Concerns(m, i)' <=> Concerns(m, i))
        BY <1>1, <1>2, <3>2, <4>1, <4>2, ItemsKept
      <4>4. Entry(i)' = Entry(i)
        BY <4>3 DEF Entry
      <4>5. Entry(i) \in known[m] \cup cut[m]
        BY <2>1, <2>2, <3>2, <4>3 DEF ReaderInv
      <4> QED BY <1>3, <4>4, <4>5
    <3> QED BY <3>1, <3>2
  <2>3. PagingInv(m)'
    BY <1>3, <2>1 DEF ReaderInv, PagingInv
  <2> QED BY <1>2, <1>3, <2>1, <2>2, <2>3 DEF ReaderInv
<1> QED BY <1>1, <1>2, <1>3, <1>4 DEF ReadersInv

----------------------------------------------------------------------------
(* Without a change to the relays and the readers, or with a later clock   *)
(* alone, both invariants stay.                                            *)
LEMMA LaterKeeps ==
  ASSUME CatchUpInv,
         UNCHANGED <<relayDrafts, relays, cursor, paging, known, cut, covered, passed>>,
         clock' \in Nat, clock <= clock'
  PROVE  RelaysInv' /\ ReadersInv'
<1>1. RelaysInv /\ ReadersInv /\ clock \in Nat
  BY DEF CatchUpInv, RelaysInv
<1>2. RelaysInv'
  BY <1>1 DEF RelaysInv, Sent, WellFormed
<1>3. /\ Items' = Items
      /\ \A i : Stamp(i)' = Stamp(i) /\ Entry(i)' = Entry(i)
      /\ \A m, i : Concerns(m, i)' <=> Concerns(m, i)
  BY SameItems
<1>4. ASSUME NEW m \in Reader PROVE ReaderInv(m)'
  BY <1>1, <1>3 DEF ReadersInv, ReaderInv, PagingInv
<1> QED BY <1>1, <1>2, <1>4 DEF ReadersInv

LEMMA CatchUpNextKeeps == ASSUME CatchUpInv, CatchUpNext PROVE CatchUpInv'
<1>1. PreviewsInv'
  BY PreviewsKept
<1>2. clock \in Nat /\ RelaysInv
  BY DEF CatchUpInv, RelaysInv
<1>3. CASE RelayStep
  BY <1>1, <1>3, RelayStepKeeps DEF CatchUpInv
<1>4. ASSUME NEW m \in Reader, Reads(m) \/ MovesCursor(m) PROVE CatchUpInv'
  <2>1. UNCHANGED <<clock, relayDrafts, relays>>
    BY <1>4 DEF Reads, MovesCursor, relayVars
  <2>2. RelaysInv'
    BY <1>2, <2>1 DEF RelaysInv, Sent, WellFormed
  <2>3. ReadersInv'
    BY <1>4, ReadsKeep, MovesKeep
  <2> QED BY <1>1, <2>2, <2>3 DEF CatchUpInv
<1>5. CASE \E b \in Branch : Checkout(b)
  BY <1>1, <1>2, <1>5, LaterKeeps DEF CatchUpInv, Checkout, relayVars
<1>6. CASE Tick /\ UNCHANGED catchUpVars
  BY <1>1, <1>2, <1>6, LaterKeeps DEF CatchUpInv, Tick, catchUpVars
<1>7. CASE UNCHANGED <<relayVars, catchUpVars>>
  BY <1>1, <1>2, <1>7, LaterKeeps DEF CatchUpInv, relayVars, catchUpVars
<1> QED BY <1>3, <1>4, <1>5, <1>6, <1>7 DEF CatchUpNext

LEMMA CatchUpStepKeeps ==
  ASSUME CatchUpInv, [CatchUpNext]_<<deskVars, relayVars, catchUpVars>>
  PROVE  CatchUpInv'
<1>1. CASE CatchUpNext
  BY <1>1, CatchUpNextKeeps
<1>2. CASE UNCHANGED <<deskVars, relayVars, catchUpVars>>
  <2>1. clock \in Nat
    BY DEF CatchUpInv, RelaysInv
  <2>2. RelaysInv' /\ ReadersInv'
    BY <1>2, <2>1, LaterKeeps DEF relayVars, catchUpVars
  <2>3. PreviewsInv'
    BY <1>2 DEF CatchUpInv, PreviewsInv, RelayActs, deskVars
  <2> QED BY <2>2, <2>3 DEF CatchUpInv
<1> QED BY <1>1, <1>2

LEMMA CatchUpBegins == DeskInit /\ RelayInit /\ CatchUpInit => CatchUpInv
<1> SUFFICES ASSUME DeskInit, RelayInit, CatchUpInit PROVE CatchUpInv
  OBVIOUS
<1>1. Sent = {}
  BY DEF RelayInit, Sent
<1>2. RelaysInv
  BY <1>1 DEF RelaysInv, RelayInit
<1>3. PreviewsInv
  BY DEF PreviewsInv, DeskInit
<1>4. Items = {}
  BY <1>1 DEF Items, RelayItems, ActivityItems
<1>5. ReadersInv
  BY <1>4 DEF ReadersInv, ReaderInv, PagingInv, CatchUpInit, RelayInit
<1> QED BY <1>2, <1>3, <1>5 DEF CatchUpInv

LEMMA CatchUpMeans == CatchUpInv => NothingIsSkipped
<1> SUFFICES ASSUME CatchUpInv, NEW m \in Reader, cursor[m] # NoCursor,
                    NEW i \in Items, Concerns(m, i),
                    passed[m] < Stamp(i), Stamp(i) <= cursor[m].at
             PROVE  Entry(i) \in known[m] \cup cut[m]
  BY DEF NothingIsSkipped
<1>1. ReaderInv(m) /\ RelaysInv
  BY DEF CatchUpInv, ReadersInv
<1>2. Stamp(i) \in Nat
  BY <1>1, ItemsOf
<1> QED BY <1>1, <1>2 DEF ReaderInv

(* Whatever digests, marks, resets, held previews, changes of members and  *)
(* of branch alternate, what concerns a reader and lies behind their       *)
(* cursor was listed on a page, cut off unsaid, late, or passed on purpose *)
(* (catch_up_digest, and plan for catchup.mark and catchup.reset).         *)
THEOREM NothingGetsLost == CatchUpSpec => []NothingIsSkipped
BY CatchUpBegins, CatchUpStepKeeps, CatchUpMeans, PTL DEF CatchUpSpec

----------------------------------------------------------------------------
(* Workstreams and playbooks.                                              *)
PlaybookFields == {"state", "steps", "revision"}
RunFields == {"playbook", "revision", "workstream", "steps", "state"}

PlaybookInv(b) ==
  /\ DOMAIN b = PlaybookFields
  /\ b.state \in {"draft", "active", "archived"}
  /\ b.revision \in Nat \ {0}
  /\ Usable(b.state, b.steps)

StreamInv(w) == DOMAIN w = {"status", "steps"} /\ w.status \in StreamStatus \cup {"archived"}

RunInv(run) ==
  /\ DOMAIN run = RunFields
  /\ run.state \in {"active", "completed", "abandoned"}
  /\ run.state = "completed" <=> \A s \in DOMAIN run.steps : run.steps[s] # Todo

WorkRecordsInv ==
  /\ DOMAIN playbooks = Playbook /\ DOMAIN workstreams = Workstream /\ DOMAIN runs = PlaybookRun
  /\ \A b \in Playbook : playbooks[b] # NoWork =>
       PlaybookInv(playbooks[b]) /\ playbooks[b].revision <= MaxRevision
  /\ \A w \in Workstream : workstreams[w] # NoWork => StreamInv(workstreams[w])
  /\ \A r \in PlaybookRun : runs[r] # NoWork => RunInv(runs[r])

(* What processes sit on are runs.                                         *)
WorkDeskInv ==
  /\ DOMAIN desk = Process
  /\ \A p \in Process : desk[p] # Idle => desk[p].act \in RunActs /\ desk[p].plan # Refused

WorkInv == WorkRecordsInv /\ WorkDeskInv

WorkActs == PlaybookActs \cup RunActs \cup WorkstreamActs

(* What a plan may replace a run by.                                       *)
Follows(r, new) == IF runs[r] = NoWork THEN StartsNow(new) ELSE CarriesOn(runs[r], new)

Replaces(act, plan) ==
  \/ plan.file = "playbook" /\ act.id \in Playbook /\ PlaybookInv(plan.value)
  \/ plan.file = "workstream" /\ act.id \in Workstream /\ StreamInv(plan.value)
  \/ /\ plan.file = "run" /\ act.id \in PlaybookRun
     /\ RunInv(plan.value) /\ Follows(act.id, plan.value)

----------------------------------------------------------------------------
LEMMA StartIsGood ==
  ASSUME WorkRecordsInv, NEW act \in RunActs, act.kind = "run.start", NEW actor,
         StartRun(act, actor) # Refused
  PROVE  Replaces(act, StartRun(act, actor))
<1> DEFINE b == playbooks[act.playbook]
           new == [playbook |-> act.playbook, revision |-> b.revision,
                   workstream |-> act.workstream,
                   steps |-> [s \in b.steps |-> Todo], state |-> "active"]
           plan == StartRun(act, actor)
<1>1. /\ act.id \in PlaybookRun /\ act.playbook \in Playbook
      /\ act.workstream \in Workstream \cup {NoWork}
  BY DEF RunActs
<1>2. /\ b # NoWork /\ b.state = "active" /\ runs[act.id] = NoWork
      /\ act.workstream = NoWork
           \/ (workstreams[act.workstream] # NoWork
                 /\ workstreams[act.workstream].status # "archived")
      /\ plan = Written("run", new)
  BY DEF StartRun
<1>3. b.steps # {}
  BY <1>1, <1>2 DEF WorkRecordsInv, PlaybookInv, Usable
<1>4. /\ DOMAIN new = RunFields /\ new.state = "active" /\ new.playbook = act.playbook
      /\ new.revision = b.revision /\ new.workstream = act.workstream
      /\ DOMAIN new.steps = b.steps /\ \A s \in b.steps : new.steps[s] = Todo
  BY DEF RunFields
<1>5. plan.file = "run" /\ plan.value = new
  BY <1>2 DEF Written
<1> HIDE DEF new, plan
<1>6. RunInv(new)
  BY <1>3, <1>4 DEF RunInv
<1>7. StartsNow(new)
  BY <1>2, <1>4 DEF StartsNow
<1>8. Replaces(act, plan)
  BY <1>1, <1>2, <1>5, <1>6, <1>7 DEF Replaces, Follows
<1> QED BY <1>8 DEF plan

LEMMA CompleteIsGood ==
  ASSUME WorkRecordsInv, NEW act \in RunActs, act.kind = "run.complete-step",
         NEW actor \in Member \cup {Nobody}, CompleteStep(act, actor) # Refused
  PROVE  Replaces(act, CompleteStep(act, actor))
<1> DEFINE run == runs[act.id]
           steps == [run.steps EXCEPT ![act.step] = actor]
           finished == \A s \in DOMAIN steps : steps[s] # Todo
           new == [run EXCEPT !.steps = steps, !.state = IF finished THEN "completed" ELSE run.state]
           plan == CompleteStep(act, actor)
<1>1. act.id \in PlaybookRun
  BY DEF RunActs
<1>2. /\ run # NoWork /\ run.state = "active" /\ act.step \in DOMAIN run.steps
      /\ run.steps[act.step] = Todo
      /\ plan = Written("run", new)
  BY DEF CompleteStep
<1>3. RunInv(run)
  BY <1>1, <1>2 DEF WorkRecordsInv
<1>4. actor # Todo
  BY WorkAssumption DEF WorkAssumption
<1>5. /\ DOMAIN steps = DOMAIN run.steps /\ steps[act.step] = actor
      /\ \A s \in DOMAIN run.steps \ {act.step} : steps[s] = run.steps[s]
  BY <1>2
<1>6. plan.file = "run" /\ plan.value = new
  BY <1>2 DEF Written
<1> HIDE DEF steps, run, plan
<1>7. /\ DOMAIN new = RunFields /\ new.steps = steps
      /\ new.state = IF finished THEN "completed" ELSE "active"
      /\ new.playbook = run.playbook /\ new.revision = run.revision
      /\ new.workstream = run.workstream
  BY <1>2, <1>3 DEF RunInv, RunFields
<1> HIDE DEF new
<1>8. RunInv(new)
  BY <1>7 DEF RunInv
<1>9. CarriesOn(run, new)
  BY <1>2, <1>5, <1>7 DEF CarriesOn
<1>10. Replaces(act, plan)
  BY <1>1, <1>2, <1>6, <1>8, <1>9 DEF Replaces, Follows, run
<1> QED BY <1>10 DEF plan

LEMMA AbandonIsGood ==
  ASSUME WorkRecordsInv, NEW act \in RunActs, act.kind = "run.abandon", NEW actor,
         AbandonRun(act, actor) # Refused
  PROVE  Replaces(act, AbandonRun(act, actor))
<1> DEFINE run == runs[act.id]
           new == [run EXCEPT !.state = "abandoned"]
           plan == AbandonRun(act, actor)
<1>1. act.id \in PlaybookRun
  BY DEF RunActs
<1>2. run # NoWork /\ run.state = "active" /\ plan = Written("run", new)
  BY DEF AbandonRun
<1>3. RunInv(run)
  BY <1>1, <1>2 DEF WorkRecordsInv
<1>4. plan.file = "run" /\ plan.value = new
  BY <1>2 DEF Written
<1> HIDE DEF run, plan
<1>5. /\ DOMAIN new = RunFields /\ new.steps = run.steps /\ new.state = "abandoned"
      /\ new.playbook = run.playbook /\ new.revision = run.revision
      /\ new.workstream = run.workstream
  BY <1>3 DEF RunInv, RunFields
<1> HIDE DEF new
<1>6. RunInv(new) /\ CarriesOn(run, new)
  BY <1>2, <1>3, <1>5 DEF RunInv, CarriesOn
<1>7. Replaces(act, plan)
  BY <1>1, <1>2, <1>4, <1>6 DEF Replaces, Follows, run
<1> QED BY <1>7 DEF plan

LEMMA RunPlanIsGood ==
  ASSUME WorkRecordsInv, NEW act \in RunActs, NEW actor \in Member \cup {Nobody},
         WorkPlan(act, actor) # Refused
  PROVE  Replaces(act, WorkPlan(act, actor)) /\ WorkPlan(act, actor).file = "run"
<1>1. act.kind \in {"run.start", "run.complete-step", "run.abandon"}
  BY DEF RunActs
<1>2. /\ act.kind = "run.start" => WorkPlan(act, actor) = StartRun(act, actor)
      /\ act.kind = "run.complete-step" => WorkPlan(act, actor) = CompleteStep(act, actor)
      /\ act.kind = "run.abandon" => WorkPlan(act, actor) = AbandonRun(act, actor)
  BY DEF WorkPlan
<1>3. Replaces(act, WorkPlan(act, actor))
  BY <1>1, <1>2, StartIsGood, CompleteIsGood, AbandonIsGood
<1>4. WorkPlan(act, actor).file = "run"
  BY <1>1, <1>2 DEF StartRun, CompleteStep, AbandonRun, Written
<1> QED BY <1>3, <1>4

LEMMA PlaybookPlanIsGood ==
  ASSUME WorkRecordsInv, NEW act \in PlaybookActs, NEW actor, WorkPlan(act, actor) # Refused
  PROVE  Replaces(act, WorkPlan(act, actor))
<1> DEFINE plan == WorkPlan(act, actor)
           b == playbooks[act.id]
<1>1. act.id \in Playbook /\ act.kind \in {"playbook.create", "playbook.update", "playbook.archive"}
  BY DEF PlaybookActs
<1>2. act.kind \in {"playbook.create", "playbook.update"} => act.state \in {"draft", "active"}
  BY DEF PlaybookActs
<1>3. b # NoWork => PlaybookInv(b)
  BY <1>1 DEF WorkRecordsInv
<1>4. CASE act.kind = "playbook.create"
  <2> DEFINE new == [state |-> act.state, steps |-> act.steps, revision |-> 1]
  <2>1. Usable(act.state, act.steps) /\ plan = Written("playbook", new)
    BY <1>4 DEF WorkPlan, CreatePlaybook
  <2>2. PlaybookInv(new)
    BY <1>2, <1>4, <2>1 DEF PlaybookInv, PlaybookFields
  <2> HIDE DEF new
  <2> QED BY <1>1, <2>1, <2>2 DEF Replaces, Written
<1>5. CASE act.kind = "playbook.update"
  <2> DEFINE new == [state |-> act.state, steps |-> act.steps, revision |-> b.revision + 1]
  <2>1. b # NoWork /\ Usable(act.state, act.steps) /\ plan = Written("playbook", new)
    BY <1>5 DEF WorkPlan, UpdatePlaybook
  <2>2. PlaybookInv(new)
    BY <1>2, <1>3, <1>5, <2>1 DEF PlaybookInv, PlaybookFields
  <2> HIDE DEF new
  <2> QED BY <1>1, <2>1, <2>2 DEF Replaces, Written
<1>6. CASE act.kind = "playbook.archive"
  <2> DEFINE new == [b EXCEPT !.state = "archived", !.revision = b.revision + 1]
  <2>1. b # NoWork /\ plan = Written("playbook", new)
    BY <1>6 DEF WorkPlan, ArchivePlaybook
  <2>2. PlaybookInv(new)
    BY <1>3, <2>1 DEF PlaybookInv, PlaybookFields, Usable
  <2> HIDE DEF new
  <2> QED BY <1>1, <2>1, <2>2 DEF Replaces, Written
<1> QED BY <1>1, <1>4, <1>5, <1>6

LEMMA StreamPlanIsGood ==
  ASSUME WorkRecordsInv, NEW act \in WorkstreamActs, NEW actor, WorkPlan(act, actor) # Refused
  PROVE  Replaces(act, WorkPlan(act, actor))
<1> DEFINE plan == WorkPlan(act, actor)
           w == workstreams[act.id]
<1>1. /\ act.id \in Workstream
      /\ act.kind \in {"workstream.create", "workstream.update", "workstream.archive",
                       "workstream.step.update"}
  BY DEF WorkstreamActs
<1>2. act.kind \in {"workstream.create", "workstream.update"} => act.status \in StreamStatus
  BY DEF WorkstreamActs
<1>3. w # NoWork => StreamInv(w)
  BY <1>1 DEF WorkRecordsInv
<1>4. CASE act.kind = "workstream.create"
  <2> DEFINE new == [status |-> act.status, steps |-> [s \in WorkStep |-> NoWork]]
  <2>1. plan = Written("workstream", new)
    BY <1>4 DEF WorkPlan, CreateWorkstream
  <2>2. StreamInv(new)
    BY <1>2, <1>4 DEF StreamInv
  <2> HIDE DEF new
  <2> QED BY <1>1, <2>1, <2>2 DEF Replaces, Written
<1>5. ASSUME NEW new, w # NoWork, plan = Written("workstream", new),
             \/ new = [w EXCEPT !.status = act.status] /\ act.status \in StreamStatus
             \/ new = [w EXCEPT !.status = "archived"]
             \/ new = [w EXCEPT !.steps[act.step] = act.status]
      PROVE  Replaces(act, plan)
  <2>1. StreamInv(new)
    BY <1>3, <1>5 DEF StreamInv
  <2> QED BY <1>1, <1>5, <2>1 DEF Replaces, Written
<1>6. CASE act.kind = "workstream.update"
  BY <1>2, <1>5, <1>6 DEF WorkPlan, UpdateWorkstream
<1>7. CASE act.kind = "workstream.archive"
  BY <1>5, <1>7 DEF WorkPlan, ArchiveWorkstream
<1>8. CASE act.kind = "workstream.step.update"
  BY <1>5, <1>8 DEF WorkPlan, UpdateStep
<1> QED BY <1>1, <1>4, <1>6, <1>7, <1>8

----------------------------------------------------------------------------
RunsFollow == \A r \in PlaybookRun : runs'[r] # runs[r] => Follows(r, runs'[r])

LEMMA WorkCommitKeeps ==
  ASSUME WorkRecordsInv, NEW act, NEW plan, Replaces(act, plan), RevisionsLeft(act.id, plan),
         WorkCommit(act.id, plan)
  PROVE  WorkRecordsInv' /\ RunsFollow
<1> DEFINE i == act.id
           new == plan.value
<1>1. /\ playbooks' = IF plan.file = "playbook" THEN [playbooks EXCEPT ![i] = new] ELSE playbooks
      /\ workstreams' = IF plan.file = "workstream" THEN [workstreams EXCEPT ![i] = new]
                        ELSE workstreams
      /\ runs' = IF plan.file = "run" THEN [runs EXCEPT ![i] = new] ELSE runs
  BY DEF WorkCommit
<1>2. CASE plan.file = "playbook" /\ i \in Playbook /\ PlaybookInv(new)
  <2>1. new.revision <= MaxRevision
    BY <1>2 DEF RevisionsLeft
  <2>2. /\ DOMAIN playbooks' = Playbook /\ playbooks'[i] = new
        /\ \A b \in Playbook \ {i} : playbooks'[b] = playbooks[b]
        /\ UNCHANGED <<workstreams, runs>>
    BY <1>1, <1>2 DEF WorkRecordsInv
  <2> HIDE DEF i, new
  <2> QED BY <1>2, <2>1, <2>2
          DEF WorkRecordsInv, PlaybookInv, StreamInv, RunInv, Usable, RunsFollow
<1>3. CASE plan.file = "workstream" /\ i \in Workstream /\ StreamInv(new)
  <2>1. /\ DOMAIN workstreams' = Workstream /\ workstreams'[i] = new
        /\ \A w \in Workstream \ {i} : workstreams'[w] = workstreams[w]
        /\ UNCHANGED <<playbooks, runs>>
    BY <1>1, <1>3 DEF WorkRecordsInv
  <2> HIDE DEF i, new
  <2> QED BY <1>3, <2>1
          DEF WorkRecordsInv, PlaybookInv, StreamInv, RunInv, Usable, RunsFollow
<1>4. CASE plan.file = "run" /\ i \in PlaybookRun /\ RunInv(new) /\ Follows(i, new)
  <2>1. /\ DOMAIN runs' = PlaybookRun /\ runs'[i] = new
        /\ \A r \in PlaybookRun \ {i} : runs'[r] = runs[r]
        /\ UNCHANGED <<playbooks, workstreams>>
    BY <1>1, <1>4 DEF WorkRecordsInv
  <2> HIDE DEF i, new
  <2>2. WorkRecordsInv'
    BY <1>4, <2>1 DEF WorkRecordsInv, PlaybookInv, StreamInv, RunInv, Usable
  <2>3. RunsFollow
    BY <1>4, <2>1 DEF RunsFollow
  <2> QED BY <2>2, <2>3
<1> QED BY <1>2, <1>3, <1>4 DEF Replaces

LEMMA ResolvedIsKnown == Resolved \in Member \cup {Nobody}
BY DEF Resolved, Active

LEMMA SameWork ==
  ASSUME WorkRecordsInv, UNCHANGED workVars
  PROVE  WorkRecordsInv' /\ RunsFollow
BY DEF WorkRecordsInv, workVars, PlaybookInv, StreamInv, RunInv, Usable, RunsFollow

LEMMA SameWorkDesk ==
  ASSUME WorkDeskInv,
         \/ UNCHANGED desk
         \/ \E p \in Process : desk' = [desk EXCEPT ![p] = Idle]
  PROVE  WorkDeskInv'
BY DEF WorkDeskInv, RunActs

LEMMA WorkExecuteKeeps ==
  ASSUME WorkInv, NEW act \in WorkActs, WorkExecute(act)
  PROVE  WorkInv' /\ RunsFollow
<1> DEFINE actor == Resolved
           plan == WorkPlan(act, actor)
<1>1. /\ plan # Refused /\ RevisionsLeft(act.id, plan) /\ WorkCommit(act.id, plan)
      /\ UNCHANGED desk
  BY DEF WorkExecute, deskVars
<1>2. actor \in Member \cup {Nobody} /\ WorkRecordsInv /\ WorkDeskInv
  BY ResolvedIsKnown DEF WorkInv
<1> HIDE DEF actor
<1>3. Replaces(act, plan)
  BY <1>1, <1>2, RunPlanIsGood, PlaybookPlanIsGood, StreamPlanIsGood DEF WorkActs
<1> HIDE DEF plan
<1> QED BY <1>1, <1>2, <1>3, WorkCommitKeeps, SameWorkDesk DEF WorkInv

LEMMA WorkApplyKeeps ==
  ASSUME WorkInv, NEW p \in Process, WorkApply(p)
  PROVE  WorkInv' /\ RunsFollow
<1> DEFINE act == desk[p].act
           actor == Resolved
           plan == desk[p].plan
<1>1. /\ desk[p] # Idle /\ plan = WorkPlan(act, actor) /\ WorkCommit(act.id, plan)
      /\ desk' = [desk EXCEPT ![p] = Idle]
  BY DEF WorkApply, Applies
<1>2. act \in RunActs /\ plan # Refused
  BY <1>1 DEF WorkInv, WorkDeskInv
<1>3. actor \in Member \cup {Nobody} /\ WorkRecordsInv /\ WorkDeskInv
  BY ResolvedIsKnown DEF WorkInv
<1> HIDE DEF act, actor, plan
<1>4. Replaces(act, plan) /\ plan.file = "run"
  BY <1>1, <1>2, <1>3, RunPlanIsGood
<1>5. RevisionsLeft(act.id, plan)
  BY <1>4 DEF RevisionsLeft
<1> QED BY <1>1, <1>3, <1>4, <1>5, WorkCommitKeeps, SameWorkDesk DEF WorkInv

LEMMA WorkPreviewKeeps ==
  ASSUME WorkInv, NEW p \in Process, NEW act \in RunActs, WorkPreview(p, act)
  PROVE  WorkInv' /\ RunsFollow
<1> DEFINE held == [act |-> act, actor |-> Resolved, stamp |-> 0,
                    plan |-> WorkPlan(act, Resolved), seen |-> RunSeen(act)]
<1>1. /\ desk' = [desk EXCEPT ![p] = held] /\ held.act = act /\ held.plan # Refused
      /\ UNCHANGED workVars
  BY DEF WorkPreview, Previews
<1> HIDE DEF held
<1>2. WorkDeskInv'
  BY <1>1 DEF WorkInv, WorkDeskInv, RunActs
<1> QED BY <1>1, <1>2, SameWork DEF WorkInv

LEMMA WorkStepKeeps ==
  ASSUME WorkInv, [WorkNext]_<<deskVars, workVars>>
  PROVE  WorkInv' /\ RunsFollow
<1>1. CASE \E p \in Process, act \in RunActs : WorkPreview(p, act)
  BY <1>1, WorkPreviewKeeps
<1>2. CASE \E p \in Process : WorkApply(p)
  BY <1>2, WorkApplyKeeps
<1>3. CASE \E act \in WorkActs : WorkExecute(act)
  BY <1>3, WorkExecuteKeeps
<1>4. CASE (\E p \in Process : Abandon(p)) /\ UNCHANGED workVars
  BY <1>4, SameWork, SameWorkDesk DEF WorkInv, Abandon
<1>5. CASE UNCHANGED desk /\ UNCHANGED workVars
  BY <1>5, SameWork, SameWorkDesk DEF WorkInv
<1> QED BY <1>1, <1>2, <1>3, <1>4, <1>5
        DEF WorkNext, WorkActs, ClearSelection, SelectMember, deskVars

LEMMA WorkMeans == WorkInv => WorkTypeOK
BY WorkAssumption
   DEF WorkInv, WorkRecordsInv, WorkTypeOK, PlaybookInv, StreamInv, RunInv, WorkAssumption

LEMMA WorkBegins == DeskInit /\ WorkInit => WorkInv
BY DEF DeskInit, WorkInit, WorkInv, WorkRecordsInv, WorkDeskInv

(* However long a preview was held and whatever was written in between: a  *)
(* run starts with the steps and the revision its playbook has then, and   *)
(* no completed run or step is ever undone (plan for run.start,            *)
(* run.complete-step and run.abandon, and the workflow that plans again    *)
(* before it writes).                                                      *)
THEOREM RunsAreKept == WorkSpec => RunsKeepTheirWord
<1>1. WorkInv /\ [WorkNext]_<<deskVars, workVars>> => WorkInv'
  BY WorkStepKeeps
<1>2. WorkInv /\ [WorkNext]_<<deskVars, workVars>>
        => [\A r \in PlaybookRun :
              runs'[r] # runs[r] =>
                IF runs[r] = NoWork THEN StartsNow(runs'[r]) ELSE CarriesOn(runs[r], runs'[r])]_runs
  BY WorkStepKeeps DEF RunsFollow, Follows
<1> QED BY WorkBegins, <1>1, <1>2, PTL DEF WorkSpec, RunsKeepTheirWord

----------------------------------------------------------------------------
(* The wiki index.  Files have the times of their last edits, and no time  *)
(* is used twice.                                                          *)
DocsInv ==
  /\ docEdits \in Nat
  /\ corpus \in [Document -> [content : Text \cup {NoText}, mtime : 1 .. (docEdits + 1)]]

ObserveFields == {"at", "next", "seen", "there"}
PassFields == ObserveFields \cup {"files", "rows", "unread", "instant"}

(* The row a pass has of a file is what the file was at its instant, if    *)
(* its read did not fail.                                                  *)
Taken(p, f) == f \in p.unread \/ (f \in DOMAIN p.rows /\ p.rows[f] = p.instant[f])

(* Until a file is read, and if its read failed, its row is the published. *)
KeptRow(p, f) ==
  /\ (p.at = "read" /\ f \in p.unread) => f < p.next
  /\ (f \in p.unread \/ (p.at = "read" /\ ~(f < p.next))) =>
       (f \in DOMAIN p.rows => index # Unbuilt /\ f \in DOMAIN index /\ p.rows[f] = index[f])

(* A file that still has the time it was observed with has not been edited *)
(* since; and once that has been seen to be so again, its row is settled,  *)
(* whatever is edited later.                                               *)
FileInv(p, f) ==
  /\ (p.seen[f] # 0 /\ Disk!Mtime(f) = p.seen[f]) =>
       /\ f \in p.files /\ corpus[f].content = p.instant[f]
       /\ p.at = "again" \/ f < p.next => Taken(p, f)
  /\ (p.at = "again" /\ f < p.next /\ p.seen[f] # 0) => Taken(p, f)

ObserveInv(p) == p.at = "observe" /\ DOMAIN p = ObserveFields /\ Len(p.seen) = p.next - 1

WalkInv(p) ==
  /\ p.at \in {"read", "again"} /\ DOMAIN p = PassFields /\ Len(p.seen) = Documents
  /\ DOMAIN p.instant = Document
  /\ p.files \subseteq p.there /\ p.files \subseteq Document
  /\ DOMAIN p.rows \subseteq p.files /\ IsIndexed(p.rows)
  /\ \A f \in Document : FileInv(p, f) /\ KeptRow(p, f)

PassInv(p) ==
  /\ p.next \in 1 .. Documents + 1
  /\ p.seen \in Seq(0 .. (docEdits + 1))
  /\ Disk!Present \subseteq p.there
  /\ ObserveInv(p) \/ WalkInv(p)

(* Only who holds the lease is at work.                                    *)
PassesInv ==
  /\ DOMAIN pass = Maintainer
  /\ \A m \in Maintainer : (pass[m] # Away <=> lease = m) /\ (pass[m] = Away \/ PassInv(pass[m]))

(* What a fresh session may serve, and while it is compared: the index is  *)
(* the one that is compared, or was committed since.                       *)
Serves(rows) ==
  \A f \in Document :
    (NoText \notin had[f] /\ f \notin session.unread) => f \in DOMAIN rows /\ rows[f] \in had[f]

ComparedInv(f) ==
  (NoText \notin had[f] /\ f \notin session.unread) =>
    /\ f \in session.files
    /\ (~session.stale /\ f < session.next)
         => f \in DOMAIN session.known /\ session.known[f] \in had[f]

ComparingInv ==
  /\ DOMAIN session = {"at", "next", "files", "known", "stale", "unread"}
  /\ session.next \in 1 .. Documents + 1
  /\ IsIndexed(index)
  /\ index = session.known \/ Serves(index)
  /\ \A f \in Document : ComparedInv(f)

OpenInv == IsIndexed(session.rows) /\ (~session.stale => Serves(session.rows))

SessionInv ==
  /\ DOMAIN had = Document
  /\ session # Away =>
       /\ \A f \in Document : corpus[f].content \in had[f]
       /\ (session.at = "comparing" /\ ComparingInv) \/ (session.at = "open" /\ OpenInv)

IndexInv == DocsInv /\ PassesInv /\ SessionInv /\ (index # Unbuilt => IsIndexed(index))

----------------------------------------------------------------------------
LEMMA IndexBegins == IndexInit => IndexInv
<1> SUFFICES ASSUME IndexInit PROVE IndexInv
  OBVIOUS
<1>1. DocsInv
  BY DEF IndexInit, Disk!TreeInit, DocsInv
<1>2. PassesInv
  BY IndexAssumption DEF IndexInit, PassesInv, IndexAssumption
<1>3. SessionInv
  BY DEF IndexInit, SessionInv, NoHad
<1> QED BY <1>1, <1>2, <1>3 DEF IndexInit, IndexInv

(* A step of a pass leaves the others, which do nothing, alone.            *)
LEMMA PassesGoOn ==
  ASSUME IndexInv, NEW m \in Maintainer, NEW q, GoesOn(m, q), UNCHANGED docVars,
         q # Away => UNCHANGED index,
         lease \in {m, NoLease},
         \/ lease' = m /\ q # Away /\ PassInv(q)
         \/ lease' = NoLease /\ q = Away
  PROVE  DocsInv' /\ PassesInv'
<1>1. DocsInv /\ PassesInv /\ NoLease \notin Maintainer
  BY IndexAssumption DEF IndexInv, IndexAssumption
<1>2. DocsInv'
  BY <1>1 DEF DocsInv, docVars, Document
<1>3. (q # Away /\ PassInv(q)) => PassInv(q)'
  BY DEF PassInv, ObserveInv, WalkInv, FileInv, Taken, KeptRow, IsIndexed, Document, docVars,
         Disk!Present, Disk!Mtime
<1>4. /\ DOMAIN pass' = Maintainer /\ pass'[m] = q
      /\ \A n \in Maintainer \ {m} : pass'[n] = pass[n]
  BY <1>1 DEF GoesOn, PassesInv
<1>5. \A n \in Maintainer \ {m} : pass[n] = Away /\ lease' # n
  BY <1>1 DEF PassesInv
<1>6. PassesInv'
  BY <1>1, <1>3, <1>4, <1>5 DEF PassesInv, Away
<1> QED BY <1>2, <1>6

(* What leaves the files, the index and the session alone.                 *)
LEMMA SessionStays ==
  ASSUME IndexInv, UNCHANGED <<docVars, index, session, had>>
  PROVE  SessionInv' /\ (index # Unbuilt => IsIndexed(index))'
<1> SUFFICES SessionInv /\ (index # Unbuilt => IsIndexed(index))
  BY DEF SessionInv, ComparingInv, OpenInv, ComparedInv, Serves, IsIndexed, Document, Away, docVars
<1> QED BY DEF IndexInv

LEMMA AtWork ==
  ASSUME IndexInv, NEW m \in Maintainer, pass[m] # Away
  PROVE  lease = m /\ PassInv(pass[m])
BY DEF IndexInv, PassesInv

LEMMA TakeLeaseKeeps ==
  ASSUME IndexInv, NEW m \in Maintainer, TakeLease(m)
  PROVE  IndexInv'
<1> DEFINE q == [at |-> "observe", next |-> 1, seen |-> <<>>, there |-> Disk!Present]
<1>1. GoesOn(m, q) /\ lease = NoLease /\ lease' = m /\ UNCHANGED <<docVars, index, session, had>>
  BY DEF TakeLease
<1>2. q # Away
  BY DEF Away
<1>3. PassInv(q)
  BY IndexAssumption DEF PassInv, ObserveInv, ObserveFields, IndexAssumption
<1> HIDE DEF q
<1> QED BY <1>1, <1>2, <1>3, PassesGoOn, SessionStays DEF IndexInv

LEMMA ObserveKeeps ==
  ASSUME IndexInv, NEW m \in Maintainer, ObserveDocument(m)
  PROVE  IndexInv'
<1> DEFINE p == pass[m]
           q == [[p EXCEPT !.seen = Append(p.seen, Disk!Mtime(p.next))] EXCEPT !.next = p.next + 1]
<1>1. /\ p.at = "observe" /\ p.next \in Document
      /\ GoesOn(m, q) /\ lease' = lease /\ UNCHANGED <<docVars, index, session, had>>
  BY DEF ObserveDocument, Walks, InPhase, Visits
<1>2. lease = m /\ PassInv(p)
  BY <1>1, AtWork DEF Away
<1>3. DOMAIN p = ObserveFields /\ Len(p.seen) = p.next - 1
  BY <1>1, <1>2 DEF PassInv, ObserveInv, WalkInv
<1>4. /\ DOMAIN q = ObserveFields /\ q.at = "observe" /\ q.there = p.there
      /\ q.next = p.next + 1 /\ q.seen = Append(p.seen, Disk!Mtime(p.next))
  BY <1>1, <1>3 DEF ObserveFields
<1>5. Disk!Mtime(p.next) \in 0 .. (docEdits + 1)
  BY <1>1 DEF IndexInv, DocsInv, Disk!Mtime
<1> HIDE DEF p, q
<1>6. PassInv(q)
  <2>1. q.seen \in Seq(0 .. (docEdits + 1)) /\ Len(q.seen) = q.next - 1
    BY <1>2, <1>3, <1>4, <1>5 DEF PassInv
  <2>2. q.next \in 1 .. Documents + 1
    BY <1>1, <1>4, IndexAssumption DEF Document, IndexAssumption
  <2> QED BY <1>2, <1>4, <2>1, <2>2 DEF PassInv, ObserveInv
<1>7. q # Away
  BY <1>4 DEF Away
<1> QED BY <1>1, <1>2, <1>6, <1>7, PassesGoOn, SessionStays DEF IndexInv

LEMMA DiscoverKeeps ==
  ASSUME IndexInv, NEW m \in Maintainer, Discover(m)
  PROVE  IndexInv'
<1> DEFINE p == pass[m]
<1>1. /\ p.at = "observe" /\ p.next \notin Document
      /\ lease' = lease /\ UNCHANGED <<docVars, index, session, had>>
  BY DEF Discover, Finished, InPhase
<1>2. lease = m /\ PassInv(p)
  BY <1>1, AtWork DEF Away
<1>3. Len(p.seen) = Documents /\ p.seen \in Seq(0 .. (docEdits + 1)) /\ Disk!Present \subseteq p.there
  BY <1>1, <1>2, IndexAssumption DEF PassInv, ObserveInv, WalkInv, Document, IndexAssumption
<1>4. PICK kept \in {{}} \cup (IF index = Unbuilt THEN {} ELSE {DOMAIN index \cap Disk!Present}) :
        GoesOn(m, [at |-> "read", next |-> 1, seen |-> p.seen, there |-> p.there,
                   files |-> Disk!Present, rows |-> [f \in kept |-> index[f]],
                   unread |-> {}, instant |-> [f \in Document |-> corpus[f].content]])
  BY DEF Discover
<1> DEFINE q == [at |-> "read", next |-> 1, seen |-> p.seen, there |-> p.there,
                 files |-> Disk!Present, rows |-> [f \in kept |-> index[f]],
                 unread |-> {}, instant |-> [f \in Document |-> corpus[f].content]]
<1>5. /\ DOMAIN q = PassFields /\ q.at = "read" /\ q.next = 1 /\ q.seen = p.seen
      /\ q.there = p.there /\ q.files = Disk!Present
      /\ q.rows = [f \in kept |-> index[f]]
      /\ q.instant = [f \in Document |-> corpus[f].content] /\ q.unread = {}
  BY DEF PassFields, ObserveFields
<1>6. GoesOn(m, q)
  BY <1>4
<1> HIDE DEF p, q
<1>7. DOMAIN q.rows \subseteq Disk!Present /\ IsIndexed(q.rows)
  <2>1. kept \subseteq Disk!Present /\ (kept # {} => index # Unbuilt /\ kept \subseteq DOMAIN index)
    BY <1>4
  <2> QED BY <1>5, <2>1 DEF IndexInv, IsIndexed
<1>8. Disk!Present \subseteq Document
  BY DEF Disk!Present
<1>9. ASSUME NEW f \in Document PROVE FileInv(q, f) /\ KeptRow(q, f)
  <2>1. ~(f < q.next)
    BY <1>5, IndexAssumption DEF Document, IndexAssumption
  <2>2. Disk!Mtime(f) # 0 => f \in Disk!Present
    BY DEF Disk!Mtime, Disk!Present
  <2>3. kept # {} => index # Unbuilt /\ kept \subseteq DOMAIN index
    BY <1>4
  <2>4. KeptRow(q, f)
    BY <1>5, <2>3 DEF KeptRow
  <2> QED BY <1>5, <2>1, <2>2, <2>4 DEF FileInv
<1>10. PassInv(q)
  BY <1>3, <1>5, <1>7, <1>8, <1>9, IndexAssumption DEF PassInv, WalkInv, IndexAssumption
<1>11. q # Away
  BY <1>5 DEF Away
<1> QED BY <1>1, <1>2, <1>6, <1>10, <1>11, PassesGoOn, SessionStays DEF IndexInv

(* A walk that goes on from a file with or without a new row of it.        *)
LEMMA WalksOn ==
  ASSUME NEW p, NEW q, WalkInv(p),
         q.at \in {"read", "again"}, DOMAIN q = PassFields,
         \A x \in PassFields \ {"at", "next", "rows", "unread"} : q[x] = p[x],
         DOMAIN q.rows \subseteq p.files, IsIndexed(q.rows),
         \A f \in Document : FileInv(q, f) /\ KeptRow(q, f)
  PROVE  WalkInv(q)
<1>1. /\ q.seen = p.seen /\ q.there = p.there /\ q.files = p.files /\ q.instant = p.instant
  BY DEF PassFields, ObserveFields
<1> QED BY <1>1 DEF WalkInv

LEMMA ReadFileKeeps ==
  ASSUME IndexInv, NEW m \in Maintainer, ReadFile(m)
  PROVE  IndexInv'
<1> DEFINE p == pass[m]
           f == p.next
           rows == WithRow(p.rows, f, corpus[f].content)
<1>1. /\ p.at = "read" /\ f \in Document
      /\ lease' = lease /\ UNCHANGED <<docVars, index, session, had>>
  BY DEF ReadFile, Walks, InPhase
<1>2. lease = m /\ PassInv(p)
  BY <1>1, AtWork DEF Away
<1>3. WalkInv(p) /\ DOMAIN p = PassFields
  BY <1>1, <1>2 DEF PassInv, ObserveInv, WalkInv
<1> HIDE DEF rows
<1>4. PICK q :
        /\ GoesOn(m, q) /\ DOMAIN q = PassFields /\ q.at = "read" /\ q.next = f + 1
        /\ \A x \in PassFields \ {"at", "next", "rows", "unread"} : q[x] = p[x]
        /\ \/ Gets(f, p.files) /\ q.rows = rows /\ q.unread = p.unread
           \/ ~Gets(f, p.files) /\ q.rows = p.rows /\ q.unread = p.unread
           \/ q.rows = p.rows /\ q.unread = p.unread \cup {f}
  <2>1. CASE Visits(m, IF Gets(f, p.files) THEN [p EXCEPT !.rows = rows] ELSE p)
    <3> DEFINE r == IF Gets(f, p.files) THEN [p EXCEPT !.rows = rows] ELSE p
               q == [r EXCEPT !.next = r.next + 1]
    <3>1. GoesOn(m, q)
      BY <2>1 DEF Visits
    <3>2. /\ DOMAIN q = PassFields /\ q.at = "read" /\ q.next = f + 1
          /\ \A x \in PassFields \ {"at", "next", "rows", "unread"} : q[x] = p[x]
          /\ q.rows = (IF Gets(f, p.files) THEN rows ELSE p.rows) /\ q.unread = p.unread
      BY <1>1, <1>3 DEF PassFields, ObserveFields
    <3> HIDE DEF r, q
    <3> QED BY <3>1, <3>2
  <2>2. CASE Visits(m, [p EXCEPT !.unread = p.unread \cup {f}])
    <3> DEFINE r == [p EXCEPT !.unread = p.unread \cup {f}]
               q == [r EXCEPT !.next = r.next + 1]
    <3>1. GoesOn(m, q)
      BY <2>2 DEF Visits
    <3>2. /\ DOMAIN q = PassFields /\ q.at = "read" /\ q.next = f + 1
          /\ \A x \in PassFields \ {"at", "next", "rows", "unread"} : q[x] = p[x]
          /\ q.rows = p.rows /\ q.unread = p.unread \cup {f}
      BY <1>1, <1>3 DEF PassFields, ObserveFields
    <3> HIDE DEF r, q
    <3> QED BY <3>1, <3>2
  <2> QED BY <2>1, <2>2 DEF ReadFile, rows
<1>5. q.seen = p.seen /\ q.there = p.there /\ q.files = p.files /\ q.instant = p.instant
  BY <1>4 DEF PassFields, ObserveFields
<1>6. p.files \subseteq Document /\ DOMAIN p.rows \subseteq p.files /\ IsIndexed(p.rows)
  BY <1>3 DEF WalkInv
<1>7. There(f) => corpus[f].content \in Text
  BY <1>1 DEF IndexInv, DocsInv, There
<1>8. /\ DOMAIN q.rows \subseteq p.files /\ IsIndexed(q.rows)
      /\ Gets(f, p.files) =>
           f \in q.unread \/ (f \in DOMAIN q.rows /\ q.rows[f] = corpus[f].content)
      /\ f \in q.unread => q.rows = p.rows \/ f \in p.unread
      /\ \A g \in Document \ {f} :
           /\ g \in q.unread <=> g \in p.unread
           /\ g \in DOMAIN q.rows <=> g \in DOMAIN p.rows
           /\ g \in DOMAIN p.rows => q.rows[g] = p.rows[g]
  BY <1>1, <1>4, <1>6, <1>7 DEF WithRow, IsIndexed, Gets, rows
<1> HIDE DEF f
<1>9. ASSUME NEW g \in Document PROVE FileInv(q, g) /\ KeptRow(q, g)
  <2>1. FileInv(p, g) /\ KeptRow(p, g)
    BY <1>3 DEF WalkInv
  <2>2. CASE g = f
    <3>1. ASSUME p.seen[g] # 0, Disk!Mtime(g) = p.seen[g]
          PROVE  g \in p.files /\ corpus[g].content = p.instant[g] /\ Taken(q, g)
      <4>1. g \in p.files /\ corpus[g].content = p.instant[g]
        BY <2>1, <3>1 DEF FileInv
      <4>2. There(g)
        BY <3>1 DEF There, Disk!Mtime
      <4> QED BY <1>5, <1>8, <2>2, <4>1, <4>2 DEF Taken, Gets
    <3>2. FileInv(q, g)
      BY <1>4, <1>5, <3>1 DEF FileInv
    <3>3. ~(g < p.next) /\ g < q.next
      BY <1>1, <1>4, <2>2, IndexAssumption DEF Document, IndexAssumption, f
    <3>4. g \notin p.unread /\ (g \in DOMAIN p.rows => index # Unbuilt /\ g \in DOMAIN index
                                                       /\ p.rows[g] = index[g])
      BY <1>1, <2>1, <3>3 DEF KeptRow
    <3>5. KeptRow(q, g)
      BY <1>4, <1>8, <2>2, <3>3, <3>4 DEF KeptRow
    <3> QED BY <3>2, <3>5
  <2>3. CASE g # f
    <3>1. Taken(p, g) => Taken(q, g)
      BY <1>5, <1>8, <2>3 DEF Taken
    <3>2. g < q.next <=> g < p.next
      BY <1>1, <1>4, <2>3, IndexAssumption DEF Document, IndexAssumption, f
    <3>3. FileInv(q, g)
      BY <1>1, <1>4, <1>5, <2>1, <3>1, <3>2 DEF FileInv
    <3>4. KeptRow(q, g)
      BY <1>1, <1>4, <1>8, <2>1, <2>3, <3>2 DEF KeptRow
    <3> QED BY <3>3, <3>4
  <2> QED BY <2>2, <2>3
<1>10. q.next \in 1 .. Documents + 1
  BY <1>1, <1>4, IndexAssumption DEF Document, IndexAssumption, f
<1>11. WalkInv(q)
  BY <1>3, <1>4, <1>8, <1>9, WalksOn
<1>12. PassInv(q)
  BY <1>2, <1>5, <1>10, <1>11 DEF PassInv
<1>13. q # Away
  BY <1>4 DEF Away
<1>14. GoesOn(m, q)
  BY <1>4
<1> QED BY <1>1, <1>2, <1>12, <1>13, <1>14, PassesGoOn, SessionStays DEF IndexInv

LEMMA StartAgainKeeps ==
  ASSUME IndexInv, NEW m \in Maintainer, StartAgain(m)
  PROVE  IndexInv'
<1> DEFINE p == pass[m]
           q == [p EXCEPT !.at = "again", !.next = 1]
<1>1. /\ p.at = "read" /\ p.next \notin Document
      /\ GoesOn(m, q) /\ lease' = lease /\ UNCHANGED <<docVars, index, session, had>>
  BY DEF StartAgain, Finished, InPhase
<1>2. lease = m /\ PassInv(p)
  BY <1>1, AtWork DEF Away
<1>3. WalkInv(p) /\ DOMAIN p = PassFields
  BY <1>1, <1>2 DEF PassInv, ObserveInv, WalkInv
<1>4. /\ DOMAIN q = PassFields /\ q.at = "again" /\ q.next = 1
      /\ \A x \in PassFields \ {"at", "next"} : q[x] = p[x]
      /\ q.rows = p.rows /\ q.unread = p.unread
  BY <1>1, <1>3 DEF PassFields, ObserveFields
<1>5. q.seen = p.seen /\ q.there = p.there /\ q.files = p.files /\ q.instant = p.instant
  BY <1>4 DEF PassFields, ObserveFields
<1> HIDE DEF p, q
<1>6. ASSUME NEW g \in Document PROVE FileInv(q, g) /\ KeptRow(q, g)
  <2>1. FileInv(p, g) /\ KeptRow(p, g)
    BY <1>3 DEF WalkInv
  <2>2. g < p.next /\ ~(g < q.next)
    BY <1>1, <1>2, <1>4, IndexAssumption DEF PassInv, Document, IndexAssumption
  <2>3. Taken(q, g) <=> Taken(p, g)
    BY <1>4, <1>5 DEF Taken
  <2>4. KeptRow(q, g)
    BY <1>1, <1>4, <2>1 DEF KeptRow
  <2> QED BY <1>4, <1>5, <2>1, <2>2, <2>3, <2>4 DEF FileInv
<1>7. WalkInv(q)
  BY <1>3, <1>4, <1>6, WalksOn DEF WalkInv
<1>8. PassInv(q)
  BY <1>2, <1>4, <1>5, <1>7, IndexAssumption DEF PassInv, IndexAssumption
<1>9. q # Away
  BY <1>4 DEF Away
<1> QED BY <1>1, <1>2, <1>8, <1>9, PassesGoOn, SessionStays DEF IndexInv

LEMMA ObserveAgainKeeps ==
  ASSUME IndexInv, NEW m \in Maintainer, ObserveDocumentAgain(m)
  PROVE  IndexInv'
<1> DEFINE p == pass[m]
           f == p.next
           q == [p EXCEPT !.next = p.next + 1]
<1>1. /\ p.at = "again" /\ f \in Document /\ Disk!Mtime(f) = p.seen[f]
      /\ GoesOn(m, q) /\ lease' = lease /\ UNCHANGED <<docVars, index, session, had>>
  BY DEF ObserveDocumentAgain, Walks, InPhase, Visits
<1>2. lease = m /\ PassInv(p)
  BY <1>1, AtWork DEF Away
<1>3. WalkInv(p) /\ DOMAIN p = PassFields
  BY <1>1, <1>2 DEF PassInv, ObserveInv, WalkInv
<1>4. /\ DOMAIN q = PassFields /\ q.at = "again" /\ q.next = f + 1
      /\ \A x \in PassFields \ {"at", "next"} : q[x] = p[x]
      /\ q.rows = p.rows /\ q.unread = p.unread
  BY <1>1, <1>3 DEF PassFields, ObserveFields
<1>5. q.seen = p.seen /\ q.there = p.there /\ q.files = p.files /\ q.instant = p.instant
  BY <1>4 DEF PassFields, ObserveFields
<1> HIDE DEF q
<1>6. ASSUME NEW g \in Document PROVE FileInv(q, g) /\ KeptRow(q, g)
  <2>1. FileInv(p, g) /\ KeptRow(p, g)
    BY <1>3 DEF WalkInv
  <2>2. g < q.next => g < p.next \/ g = f
    BY <1>1, <1>4, IndexAssumption DEF Document, IndexAssumption
  <2>3. Taken(q, g) <=> Taken(p, g)
    BY <1>4, <1>5 DEF Taken
  <2> HIDE DEF p, f
  <2>4. KeptRow(q, g)
    BY <1>1, <1>4, <2>1 DEF KeptRow
  <2> QED BY <1>1, <1>4, <1>5, <2>1, <2>2, <2>3, <2>4 DEF FileInv
<1>7. WalkInv(q)
  BY <1>3, <1>4, <1>6, WalksOn DEF WalkInv
<1>8. q.next \in 1 .. Documents + 1
  BY <1>1, <1>4, IndexAssumption DEF Document, IndexAssumption
<1>9. PassInv(q)
  BY <1>2, <1>5, <1>7, <1>8 DEF PassInv
<1>10. q # Away
  BY <1>4 DEF Away
<1> QED BY <1>1, <1>2, <1>9, <1>10, PassesGoOn, SessionStays DEF IndexInv

(* What is committed: a row of every file that was there both times, as it *)
(* was at the instant of the pass, and none of a file that never was; of a *)
(* file whose read failed, no other than the published.                    *)
LEMMA CommittedRows ==
  ASSUME IndexInv, NEW m \in Maintainer, Finished(m, "again")
  PROVE  /\ lease = m /\ IsIndexed(pass[m].rows)
         /\ DOMAIN pass[m].rows \subseteq pass[m].there
         /\ \A f \in Document : pass[m].seen[f] # 0 => Taken(pass[m], f)
         /\ \A f \in Document : KeptRow(pass[m], f)
<1> DEFINE p == pass[m]
<1>1. p.at = "again" /\ p.next \notin Document
  BY DEF Finished, InPhase
<1>2. lease = m /\ PassInv(p)
  BY <1>1, AtWork DEF Away
<1>3. WalkInv(p)
  BY <1>1, <1>2 DEF PassInv, ObserveInv
<1>4. \A f \in Document : f < p.next
  BY <1>1, <1>2, IndexAssumption DEF PassInv, Document, IndexAssumption
<1> HIDE DEF p
<1>5. \A f \in Document : p.seen[f] # 0 => Taken(p, f)
  BY <1>1, <1>3, <1>4 DEF WalkInv, FileInv
<1>6. /\ IsIndexed(p.rows) /\ DOMAIN p.rows \subseteq p.there
      /\ \A f \in Document : KeptRow(p, f)
  BY <1>3 DEF WalkInv
<1> QED BY <1>2, <1>5, <1>6 DEF p

LEMMA CommitKeepsIndex ==
  ASSUME IndexInv, NEW m \in Maintainer, CommitIndex(m)
  PROVE  IndexInv'
<1> DEFINE rows == pass[m].rows
           unread == pass[m].unread
<1>1. /\ GoesOn(m, Away) /\ lease' = NoLease /\ index' = rows
      /\ UNCHANGED docVars
      /\ session' = IF session = Away \/ session.at = "open" THEN session
                    ELSE [session EXCEPT !.unread = session.unread \cup unread]
      /\ had' = IF session = Away THEN had
                ELSE [f \in Document |-> had[f] \cup {Stood(pass[m], f)}]
  BY DEF CommitIndex, Returns
<1>2. /\ lease = m /\ IsIndexed(rows)
      /\ \A f \in Document : pass[m].seen[f] # 0 => Taken(pass[m], f)
  BY CommittedRows DEF CommitIndex
<1>3. DocsInv' /\ PassesInv'
  BY <1>1, <1>2, PassesGoOn
<1>4. SessionInv
  BY DEF IndexInv
<1>5. IsIndexed(index')
  BY <1>1, <1>2 DEF IsIndexed, Document
<1>6. CASE session = Away
  BY <1>1, <1>3, <1>4, <1>5, <1>6 DEF IndexInv, SessionInv, IsIndexed, Document, Away
<1>7. CASE session # Away
  <2>1. \A f \in Document : had'[f] = had[f] \cup {Stood(pass[m], f)}
    BY <1>1, <1>7
  <2>2. DOMAIN had' = Document
    BY <1>1, <1>7
  <2>3. ASSUME NEW f \in Document, NoText \notin had'[f], f \notin unread
        PROVE  f \in DOMAIN rows /\ rows[f] \in had'[f]
    <3>1. pass[m].seen[f] # 0
      BY <2>1, <2>3 DEF Stood
    <3>2. Stood(pass[m], f) = pass[m].instant[f]
      BY <3>1 DEF Stood
    <3> QED BY <1>2, <2>1, <2>3, <3>1, <3>2 DEF Taken
  <2>4. \A f \in Document : had[f] \subseteq had'[f]
    BY <2>1
  <2> HIDE DEF rows, unread
  <2>5. \A f \in Document : (corpus[f].content \in had[f])'
    BY <1>1, <1>4, <1>7, <2>4 DEF SessionInv, docVars, Document
  <2>6. CASE session.at = "comparing" /\ ComparingInv
    <3>1. /\ DOMAIN session' = DOMAIN session
          /\ session'.at = "comparing" /\ session'.next = session.next
          /\ session'.files = session.files /\ session'.known = session.known
          /\ session'.stale = session.stale /\ session'.unread = session.unread \cup unread
      BY <1>1, <1>7, <2>6 DEF ComparingInv
    <3>2. Serves(index)'
      BY <1>1, <2>3, <3>1 DEF Serves, Document
    <3>3. ASSUME NEW f \in Document PROVE ComparedInv(f)'
      BY <2>4, <2>6, <3>1 DEF ComparingInv, ComparedInv
    <3>4. ComparingInv'
      BY <1>1, <1>5, <2>6, <3>1, <3>2, <3>3 DEF ComparingInv, Document
    <3> QED BY <1>3, <1>5, <2>2, <2>5, <3>1, <3>4 DEF IndexInv, SessionInv, Document
  <2>7. CASE session.at = "open" /\ OpenInv
    <3>1. session' = session
      BY <1>1, <2>7
    <3>2. OpenInv'
      BY <2>4, <2>7, <3>1 DEF OpenInv, Serves, IsIndexed, Document
    <3> QED BY <1>3, <1>5, <2>2, <2>5, <2>7, <3>1, <3>2 DEF IndexInv, SessionInv, Document
  <2> QED BY <1>4, <1>7, <2>6, <2>7 DEF SessionInv
<1> QED BY <1>6, <1>7

LEMMA MaintainsKeeps ==
  ASSUME IndexInv, NEW m \in Maintainer, Maintains(m)
  PROVE  IndexInv'
<1>1. CASE PassInterrupted(m)
  BY <1>1, PassesGoOn, SessionStays DEF IndexInv, PassInterrupted, Returns
<1> QED BY <1>1, TakeLeaseKeeps, ObserveKeeps, DiscoverKeeps, ReadFileKeeps, StartAgainKeeps,
           ObserveAgainKeeps, CommitKeepsIndex DEF Maintains

----------------------------------------------------------------------------
(* The session.                                                            *)
LEMMA PassesStay ==
  ASSUME IndexInv, UNCHANGED <<docVars, index, lease, pass>>
  PROVE  DocsInv' /\ PassesInv' /\ (index # Unbuilt => IsIndexed(index))'
<1> SUFFICES DocsInv /\ PassesInv /\ (index # Unbuilt => IsIndexed(index))
  BY DEF DocsInv, PassesInv, PassInv, ObserveInv, WalkInv, FileInv, Taken, KeptRow, IsIndexed, Document,
         docVars, Disk!Present, Disk!Mtime
<1> QED BY DEF IndexInv

LEMMA InspectKeeps ==
  ASSUME IndexInv, InspectIndex
  PROVE  IndexInv'
<1>1. /\ index # Unbuilt /\ UNCHANGED <<docVars, index, lease, pass>>
      /\ session' = [at |-> "comparing", next |-> 1, files |-> Disk!Present, known |-> index,
                     stale |-> ~(DOMAIN index \subseteq Disk!Present), unread |-> {}]
      /\ had' = [f \in Document |-> {corpus[f].content}]
  BY DEF InspectIndex
<1>2. /\ session'.at = "comparing" /\ session'.next = 1 /\ session'.files = Disk!Present
      /\ session'.known = index
      /\ DOMAIN session' = {"at", "next", "files", "known", "stale", "unread"}
  BY <1>1
<1>3. \A f \in Document : NoText \notin had'[f] => f \in Disk!Present
  BY <1>1 DEF Disk!Present
<1>4. \A f \in Document : ~(f < 1)
  BY IndexAssumption DEF Document, IndexAssumption
<1>5. ComparingInv'
  BY <1>1, <1>2, <1>3, <1>4, IndexAssumption
     DEF ComparingInv, ComparedInv, IndexInv, IsIndexed, Document, IndexAssumption
<1>6. \A f \in Document : (corpus[f].content \in had[f])'
  BY <1>1 DEF docVars, Document
<1>7. SessionInv'
  BY <1>1, <1>2, <1>5, <1>6 DEF SessionInv, Document
<1> QED BY <1>1, <1>7, PassesStay DEF IndexInv

(* A failed inspection has read nothing.                                   *)
LEMMA FailedKeeps ==
  ASSUME IndexInv, InspectionFails
  PROVE  IndexInv'
<1>1. /\ index # Unbuilt /\ UNCHANGED <<docVars, index, lease, pass>>
      /\ session' = [at |-> "comparing", next |-> Documents + 1, files |-> {}, known |-> index,
                     stale |-> FALSE, unread |-> Document]
      /\ had' = [f \in Document |-> {corpus[f].content}]
  BY DEF InspectionFails
<1>2. /\ session'.at = "comparing" /\ session'.next = Documents + 1
      /\ session'.known = index /\ session'.unread = Document
      /\ DOMAIN session' = {"at", "next", "files", "known", "stale", "unread"}
  BY <1>1
<1>3. ComparingInv'
  BY <1>1, <1>2, IndexAssumption
     DEF ComparingInv, ComparedInv, IndexInv, IsIndexed, Document, IndexAssumption
<1>4. \A f \in Document : (corpus[f].content \in had[f])'
  BY <1>1 DEF docVars, Document
<1>5. SessionInv'
  BY <1>1, <1>2, <1>3, <1>4 DEF SessionInv, Document
<1> QED BY <1>1, <1>5, PassesStay DEF IndexInv

LEMMA CompareKeeps ==
  ASSUME IndexInv, CompareDocument
  PROVE  IndexInv'
<1> DEFINE f == session.next
           differs == /\ Gets(f, session.files)
                      /\ f \notin DOMAIN session.known \/ session.known[f] # corpus[f].content
<1>1. /\ session.at = "comparing" /\ f \in Document
      /\ UNCHANGED <<docVars, index, lease, pass, had>>
  BY DEF CompareDocument, Comparing, SameButSession
<1>2. /\ SessionInv /\ ComparingInv
      /\ \A g \in Document : corpus[g].content \in had[g]
  BY <1>1 DEF IndexInv, SessionInv, Away
<1>3. DOMAIN session = {"at", "next", "files", "known", "stale", "unread"}
  BY <1>2 DEF ComparingInv
<1>4. /\ DOMAIN session' = {"at", "next", "files", "known", "stale", "unread"}
      /\ session'.at = "comparing" /\ session'.next = f + 1
      /\ session'.files = session.files /\ session'.known = session.known
      /\ session.unread \subseteq session'.unread
      /\ ~session'.stale => ~session.stale /\ (f \in session'.unread \/ ~differs)
  <2> HIDE DEF f, differs
  <2>1. ASSUME NEW stale, NEW unread, Compares(stale, unread)
        PROVE  /\ DOMAIN session' = DOMAIN session
               /\ session'.at = session.at /\ session'.next = session.next + 1
               /\ session'.files = session.files /\ session'.known = session.known
               /\ session'.stale <=> session.stale \/ stale
               /\ session'.unread = session.unread \cup unread
    BY <1>3, <2>1 DEF Compares
  <2>2. f = session.next
    BY DEF f
  <2>3. Compares(differs, {}) \/ Compares(FALSE, {f})
    BY DEF CompareDocument, f, differs
  <2>4. CASE Compares(differs, {})
    BY <1>1, <1>3, <2>1, <2>2, <2>4
  <2>5. CASE Compares(FALSE, {f})
    <3>1. /\ DOMAIN session' = DOMAIN session
          /\ session'.at = session.at /\ session'.next = session.next + 1
          /\ session'.files = session.files /\ session'.known = session.known
          /\ session'.unread = session.unread \cup {f}
      BY <1>3, <2>5 DEF Compares
    <3>2. session'.stale <=> session.stale
      BY <1>3, <2>5 DEF Compares
    <3> QED BY <1>1, <1>3, <2>2, <3>1, <3>2
  <2> QED BY <2>3, <2>4, <2>5
<1>5. ASSUME NEW g \in Document, NoText \notin had[g], ~session'.stale, g < f + 1,
             g \notin session'.unread
      PROVE  g \in DOMAIN session.known /\ session.known[g] \in had[g]
  <2>1. ComparedInv(g) /\ corpus[g].content \in had[g]
    BY <1>2 DEF ComparingInv
  <2>2. CASE g = f
    <3>1. Gets(f, session.files)
      BY <1>4, <1>5, <2>1, <2>2 DEF Gets, There, ComparedInv
    <3> QED BY <1>4, <1>5, <2>1, <2>2, <3>1
  <2>3. CASE g # f
    <3>1. g < f
      BY <1>1, <1>5, <2>3, IndexAssumption DEF Document, IndexAssumption
    <3> QED BY <1>4, <1>5, <2>1, <3>1 DEF ComparedInv
  <2> QED BY <2>2, <2>3
<1> HIDE DEF differs
<1>6. ASSUME NEW g \in Document PROVE ComparedInv(g)'
  <2>1. ComparedInv(g)
    BY <1>2 DEF ComparingInv
  <2> HIDE DEF f
  <2>2. session.unread \subseteq session'.unread
    BY <1>4
  <2> QED BY <1>1, <1>4, <1>5, <2>1, <2>2 DEF ComparedInv
<1>7. session'.next \in 1 .. Documents + 1
  BY <1>1, <1>4, IndexAssumption DEF Document, IndexAssumption
<1>8. ComparingInv'
  BY <1>1, <1>2, <1>4, <1>6, <1>7 DEF ComparingInv, IsIndexed, Serves, Document
<1>9. SessionInv'
  BY <1>1, <1>2, <1>4, <1>8 DEF SessionInv, docVars, Document
<1> QED BY <1>1, <1>9, PassesStay DEF IndexInv

LEMMA OpenKeeps ==
  ASSUME IndexInv, OpenSession
  PROVE  IndexInv'
<1>1. /\ session.at = "comparing" /\ session.next \notin Document
      /\ session' = [at |-> "open", stale |-> session.stale, rows |-> index,
                     unread |-> session.unread]
      /\ UNCHANGED <<docVars, index, lease, pass, had>>
  BY DEF OpenSession
<1>2. /\ DOMAIN had = Document /\ ComparingInv
      /\ \A f \in Document : corpus[f].content \in had[f]
  BY <1>1 DEF IndexInv, SessionInv, Away
<1>3. session'.at = "open" /\ session'.stale = session.stale /\ session'.rows = index
      /\ session'.unread = session.unread
  BY <1>1
<1>4. \A f \in Document : f < session.next
  BY <1>1, <1>2, IndexAssumption DEF ComparingInv, Document, IndexAssumption
<1>5. ~session.stale => Serves(index)
  BY <1>2, <1>4 DEF ComparingInv, ComparedInv, Serves
<1>6. OpenInv'
  BY <1>1, <1>2, <1>3, <1>5 DEF OpenInv, ComparingInv, Serves, IsIndexed, Document
<1>7. SessionInv'
  BY <1>1, <1>2, <1>3, <1>6 DEF SessionInv, docVars, Document
<1> QED BY <1>1, <1>7, PassesStay DEF IndexInv

LEMMA CloseKeeps ==
  ASSUME IndexInv, CloseSession
  PROVE  IndexInv'
<1>1. SessionInv'
  BY DEF CloseSession, SessionInv, NoHad, Document, Away
<1> QED BY <1>1, PassesStay DEF CloseSession, IndexInv

----------------------------------------------------------------------------
(* An edit gives the file a time that no pass has observed.                *)
LEMMA EditedFiles ==
  ASSUME IndexInv, NEW f \in Document, NEW new \in Text \cup {NoText}, Disk!Edit(f, new)
  PROVE  /\ DocsInv'
         /\ corpus'[f].content = new
         /\ \A g \in Document \ {f} : corpus'[g] = corpus[g] /\ Disk!Mtime(g)' = Disk!Mtime(g)
         /\ Disk!Mtime(f)' \in {0, docEdits + 2}
         /\ Disk!Present' \subseteq Disk!Present \cup {f}
         /\ new = NoText => Disk!Present' \subseteq Disk!Present
         /\ docEdits' = docEdits + 1
<1> DEFINE row == [content |-> new, mtime |-> docEdits + 2]
<1>1. corpus' = [corpus EXCEPT ![f] = row] /\ docEdits' = docEdits + 1
  BY DEF Disk!Edit
<1>2. /\ docEdits \in Nat
      /\ corpus \in [Document -> [content : Text \cup {NoText}, mtime : 1 .. (docEdits + 1)]]
  BY DEF IndexInv, DocsInv
<1>3. corpus'[f] = row /\ \A g \in Document \ {f} : corpus'[g] = corpus[g]
  BY <1>1, <1>2
<1>4. DOMAIN corpus' = Document /\ corpus' = [g \in Document |-> corpus'[g]]
  BY <1>1, <1>2
<1>5. \A g \in Document :
        corpus'[g] \in [content : Text \cup {NoText}, mtime : 1 .. (docEdits' + 1)]
  BY <1>1, <1>2, <1>3
<1>6. DocsInv'
  BY <1>1, <1>2, <1>4, <1>5 DEF DocsInv, Document
<1>7. row.content = new /\ row.mtime = docEdits + 2
  OBVIOUS
<1> HIDE DEF row
<1>8. \A g \in Document \ {f} : Disk!Mtime(g)' = Disk!Mtime(g)
  BY <1>3 DEF Disk!Mtime
<1>9. Disk!Mtime(f)' \in {0, docEdits + 2}
  BY <1>3, <1>7 DEF Disk!Mtime
<1>10. /\ Disk!Present' \subseteq Disk!Present \cup {f}
       /\ new = NoText => Disk!Present' \subseteq Disk!Present
  BY <1>3, <1>7 DEF Disk!Present, Document
<1> QED BY <1>1, <1>3, <1>6, <1>7, <1>8, <1>9, <1>10

LEMMA EditKeepsPass ==
  ASSUME IndexInv, NEW f \in Document, NEW new \in Text \cup {NoText}, Disk!Edit(f, new),
         UNCHANGED index, NEW m \in Maintainer, pass[m] # Away,
         NEW q, q = IF new = NoText THEN pass[m] ELSE [pass[m] EXCEPT !.there = pass[m].there \cup {f}]
  PROVE  PassInv(q)' /\ q # Away
<1> DEFINE p == pass[m]
<1>1. PassInv(p)
  BY AtWork
<1>2. DOMAIN p = ObserveFields \/ DOMAIN p = PassFields
  BY <1>1 DEF PassInv, ObserveInv, WalkInv
<1>3. /\ DOMAIN q = DOMAIN p
      /\ \A x \in DOMAIN p \ {"there"} : q[x] = p[x]
      /\ q.there = IF new = NoText THEN p.there ELSE p.there \cup {f}
  <2>1. "there" \in DOMAIN p
    BY <1>2 DEF PassFields, ObserveFields
  <2>2. CASE new = NoText
    BY <2>2
  <2>3. CASE new # NoText
    BY <2>1, <2>3
  <2> QED BY <2>2, <2>3
<1> HIDE DEF p
<1>4. /\ q.at = p.at /\ q.next = p.next /\ q.seen = p.seen
      /\ WalkInv(p) => q.files = p.files /\ q.rows = p.rows /\ q.instant = p.instant
                         /\ q.unread = p.unread
  BY <1>2, <1>3 DEF PassFields, ObserveFields, WalkInv
<1>5. /\ docEdits \in Nat /\ docEdits' = docEdits + 1
      /\ \A g \in Document \ {f} : corpus'[g] = corpus[g] /\ Disk!Mtime(g)' = Disk!Mtime(g)
      /\ Disk!Mtime(f)' \in {0, docEdits + 2}
      /\ Disk!Present' \subseteq Disk!Present \cup {f}
      /\ new = NoText => Disk!Present' \subseteq Disk!Present
  BY EditedFiles DEF IndexInv, DocsInv
<1>6. /\ p.next \in 1 .. Documents + 1 /\ p.seen \in Seq(0 .. (docEdits + 1))
      /\ Disk!Present \subseteq p.there
  BY <1>1 DEF PassInv
<1>7. q.seen \in Seq(0 .. (docEdits' + 1))
  BY <1>4, <1>5, <1>6
<1>8. Disk!Present' \subseteq q.there
  <2>1. CASE new = NoText
    BY <1>3, <1>5, <1>6, <2>1
  <2>2. CASE new # NoText
    BY <1>3, <1>5, <1>6, <2>2
  <2> QED BY <2>1, <2>2
<1>9. CASE ObserveInv(p)
  <2>1. ObserveInv(q)'
    BY <1>3, <1>4, <1>9 DEF ObserveInv
  <2> QED BY <1>4, <1>6, <1>7, <1>8, <1>9, <2>1 DEF PassInv, ObserveInv, Away
<1>10. CASE WalkInv(p)
  <2>1. ASSUME NEW g \in Document PROVE (FileInv(q, g) /\ KeptRow(q, g))'
    <3>1. FileInv(p, g) /\ KeptRow(p, g)
      BY <1>10 DEF WalkInv
    <3>4. KeptRow(q, g)'
      BY <1>4, <1>10, <3>1 DEF KeptRow
    <3>2. CASE g = f
      <4>1. p.seen[f] \in 0 .. (docEdits + 1)
        <5>1. f \in 1 .. Len(p.seen)
          BY <1>10 DEF WalkInv, Document
        <5> QED BY <1>6, <5>1, ElementOfSeq
      <4>2. p.seen[f] # 0 => Disk!Mtime(f)' # p.seen[f]
        BY <1>5, <4>1
      <4> QED BY <1>4, <1>10, <3>1, <3>2, <3>4, <4>2 DEF FileInv, Taken
    <3>3. CASE g # f
      BY <1>4, <1>5, <1>10, <3>1, <3>3, <3>4 DEF FileInv, Taken
    <3> QED BY <3>2, <3>3
  <2>2. p.there \subseteq q.there
    BY <1>3
  <2>3. WalkInv(q)'
    BY <1>3, <1>4, <1>10, <2>1, <2>2 DEF WalkInv, IsIndexed, Document
  <2> QED BY <1>4, <1>6, <1>7, <1>8, <1>10, <2>3 DEF PassInv, WalkInv, Away
<1> QED BY <1>1, <1>9, <1>10 DEF PassInv

LEMMA EditKeepsIndex ==
  ASSUME IndexInv, NEW f \in Document, NEW new \in Text \cup {NoText}, EditDocument(f, new)
  PROVE  IndexInv'
<1>1. /\ Disk!Edit(f, new)
      /\ pass' = [m \in Maintainer |->
                    IF pass[m] = Away \/ new = NoText THEN pass[m]
                    ELSE [pass[m] EXCEPT !.there = pass[m].there \cup {f}]]
      /\ had' = IF session = Away THEN had ELSE [had EXCEPT ![f] = had[f] \cup {new}]
      /\ UNCHANGED <<index, lease, session>>
  BY DEF EditDocument
<1>2. PassesInv /\ SessionInv /\ (index # Unbuilt => IsIndexed(index))
  BY DEF IndexInv
<1>3. /\ DocsInv' /\ corpus'[f].content = new
      /\ \A g \in Document \ {f} : corpus'[g] = corpus[g]
  BY <1>1, EditedFiles
<1>4. ASSUME NEW m \in Maintainer
      PROVE  /\ (pass[m] # Away <=> lease = m)'
             /\ (pass[m] = Away \/ PassInv(pass[m]))'
  <2>1. pass[m] # Away <=> lease = m
    BY <1>2 DEF PassesInv
  <2>2. CASE pass[m] = Away
    BY <1>1, <2>1, <2>2 DEF Away
  <2>3. CASE pass[m] # Away
    <3> DEFINE q == IF new = NoText THEN pass[m]
                    ELSE [pass[m] EXCEPT !.there = pass[m].there \cup {f}]
    <3>1. pass'[m] = q
      BY <1>1, <2>3
    <3> HIDE DEF q
    <3>2. q = IF new = NoText THEN pass[m] ELSE [pass[m] EXCEPT !.there = pass[m].there \cup {f}]
      BY DEF q
    <3>3. PICK r : r = q
      OBVIOUS
    <3>4. PassInv(r)' /\ r # Away
      BY <1>1, <2>3, <3>2, <3>3, EditKeepsPass
    <3>5. pass'[m] = r
      BY <3>1, <3>3
    <3>6. PassInv(pass[m])'
      BY <3>4, <3>5 DEF PassInv, ObserveInv, WalkInv, FileInv, Taken, KeptRow
    <3> QED BY <1>1, <2>1, <2>3, <3>4, <3>5, <3>6 DEF Away
  <2> QED BY <2>2, <2>3
<1>5. PassesInv'
  BY <1>1, <1>4 DEF PassesInv
<1>6. SessionInv'
  <2>1. /\ DOMAIN had' = Document /\ \A g \in Document : had[g] \subseteq had'[g]
        /\ session # Away => new \in had'[f]
    BY <1>1, <1>2 DEF SessionInv
  <2>2. CASE session = Away
    BY <1>1, <2>1, <2>2 DEF SessionInv, Away, Document
  <2>3. CASE session # Away
    <3>1. \A g \in Document : (corpus[g].content \in had[g])'
      BY <1>2, <1>3, <2>1, <2>3 DEF SessionInv, Document
    <3>2. CASE session.at = "comparing" /\ ComparingInv
      <4>1. ASSUME NEW g \in Document PROVE ComparedInv(g)'
        BY <1>1, <2>1, <3>2 DEF ComparingInv, ComparedInv
      <4>2. (index = session.known \/ Serves(index))'
        BY <1>1, <2>1, <3>2 DEF ComparingInv, Serves, Document
      <4>3. ComparingInv'
        BY <1>1, <3>2, <4>1, <4>2 DEF ComparingInv, IsIndexed, Document
      <4> QED BY <1>1, <2>1, <3>1, <3>2, <4>3 DEF SessionInv, Document
    <3>3. CASE session.at = "open" /\ OpenInv
      <4>1. OpenInv'
        BY <1>1, <2>1, <3>3 DEF OpenInv, Serves, IsIndexed, Document
      <4> QED BY <1>1, <2>1, <3>1, <3>3, <4>1 DEF SessionInv, Document
    <3> QED BY <1>2, <2>3, <3>2, <3>3 DEF SessionInv
  <2> QED BY <2>2, <2>3
<1> QED BY <1>1, <1>2, <1>3, <1>5, <1>6 DEF IndexInv, IsIndexed, Document

LEMMA IndexStepKeeps ==
  ASSUME IndexInv, [IndexNext]_indexVars
  PROVE  IndexInv'
<1>1. CASE UNCHANGED indexVars
  BY <1>1, PassesStay, SessionStays DEF IndexInv, indexVars
<1>2. CASE IndexNext
  BY <1>2, MaintainsKeeps, InspectKeeps, FailedKeeps, CompareKeeps, OpenKeeps, CloseKeeps, EditKeepsIndex
     DEF IndexNext
<1> QED BY <1>1, <1>2

(* Only a pass that has seen the files again changes the index.            *)
CommitsOneInstant ==
  \A m \in Maintainer :
    (Finished(m, "again") /\ index' # index) => \A f \in Document : CommitsFile(pass[m], f)

LEMMA IndexCommits == IndexInv /\ [IndexNext]_indexVars => CommitsOneInstant
<1> SUFFICES ASSUME IndexInv, [IndexNext]_indexVars, NEW m \in Maintainer, Finished(m, "again"),
                    index' # index, NEW f \in Document
             PROVE  CommitsFile(pass[m], f)
  BY DEF CommitsOneInstant
<1>1. PICK n \in Maintainer : CommitIndex(n)
  BY DEF IndexNext, indexVars, Maintains, TakeLease, ObserveDocument, Discover, ReadFile, StartAgain,
         ObserveDocumentAgain, PassInterrupted, InspectIndex, InspectionFails, CompareDocument,
         SameButSession, OpenSession, CloseSession, EditDocument
<1>2. lease = n /\ lease = m
  BY <1>1, CommittedRows DEF CommitIndex
<1>3. index' = pass[m].rows
  BY <1>1, <1>2 DEF CommitIndex
<1> QED BY <1>3, CommittedRows DEF CommitsFile, Taken, KeptRow

LEMMA IndexMeans == IndexInv => IndexTypeOK /\ FreshIsTrue
BY DEF IndexInv, PassesInv, SessionInv, OpenInv, Serves, IndexTypeOK, FreshIsTrue

(* However editors write, create and remove files, passes are aborted or   *)
(* die, and sessions come and go: a fresh session serves of each file what *)
(* it was, or was taken for, since the session began (inspect_index and    *)
(* open_read_session, which compare first and open the snapshot after),    *)
(* unless a read of the file failed since then.                            *)
THEOREM FreshSessionsAreTrue == IndexSpec => [](IndexTypeOK /\ FreshIsTrue)
BY IndexBegins, IndexStepKeeps, IndexMeans, PTL DEF IndexSpec

(* What is published was on disk all at once, at an instant of its pass,   *)
(* although it was read file by file (rebuild and refresh with             *)
(* assert_corpus_unchanged), except for files whose read failed, which     *)
(* keep the row that was published.                                        *)
THEOREM PassesCommitOneInstant == IndexSpec => IndexIsOneInstant
<1>1. IndexInv /\ [IndexNext]_indexVars
        => [\A m \in Maintainer :
              (Finished(m, "again") /\ index' # index)
                => \A f \in Document : CommitsFile(pass[m], f)]_indexVars
  BY IndexCommits DEF CommitsOneInstant
<1> QED BY IndexBegins, IndexStepKeeps, <1>1, PTL DEF IndexSpec, IndexIsOneInstant

----------------------------------------------------------------------------
(* Types of the records.  Whoever acts is a member or nobody, and so is    *)
(* whoever asked for what a process holds.                                 *)
DeskInv == DeskTypeOK /\ DOMAIN desk = Process

LEMMA ActorsAreMembers == DeskTypeOK => Resolved \in Member \cup {Nobody}
BY DeskAssumption DEF DeskTypeOK, Resolved, Active, DeskAssumption

(* What any step does to the desk.                                         *)
DeskStep ==
  \/ UNCHANGED deskVars
  \/ ChangeMembers
  \/ \E p \in Process :
       /\ UNCHANGED registry
       /\ \/ desk' = [desk EXCEPT ![p] = Idle]
          \/ \E act, stamp, plan, seen :
               desk' = [desk EXCEPT ![p] = [act |-> act, actor |-> Resolved, stamp |-> stamp,
                                            plan |-> plan, seen |-> seen]]

LEMMA DeskStepKeeps == DeskInv /\ DeskStep => DeskInv'
<1> SUFFICES ASSUME DeskInv, DeskStep PROVE DeskInv'
  OBVIOUS
<1>1. CASE UNCHANGED deskVars
  BY <1>1 DEF DeskInv, DeskTypeOK, deskVars
<1>2. CASE ChangeMembers
  <2>1. UNCHANGED desk
    BY <1>2 DEF ChangeMembers, AddMember, Deactivate, Reactivate, Registers, SelectMember,
                ClearSelection
  <2>2. /\ status' \in [Member -> {"absent", "active", "inactive"}]
        /\ selected' \in Member \cup {Nobody}
    BY <1>2, DeskAssumption
       DEF ChangeMembers, AddMember, Deactivate, Reactivate, Registers, SelectMember,
           ClearSelection, DeskInv, DeskTypeOK, Active, DeskAssumption
  <2> QED BY <2>1, <2>2 DEF DeskInv, DeskTypeOK
<1>3. ASSUME NEW p \in Process, UNCHANGED registry, desk' = [desk EXCEPT ![p] = Idle]
      PROVE  DeskInv'
  BY <1>3 DEF DeskInv, DeskTypeOK, registry
<1>4. ASSUME NEW p \in Process, UNCHANGED registry, NEW act, NEW stamp, NEW plan, NEW seen,
             desk' = [desk EXCEPT ![p] = [act |-> act, actor |-> Resolved, stamp |-> stamp,
                                          plan |-> plan, seen |-> seen]]
      PROVE  DeskInv'
  BY <1>4, ActorsAreMembers DEF DeskInv, DeskTypeOK, registry
<1> QED BY <1>1, <1>2, <1>3, <1>4 DEF DeskStep

LEMMA HeldIsDeskStep ==
  ASSUME NEW p \in Process
  PROVE  /\ \A act, now, plan, seen : Previews(p, act, now, plan, seen) => DeskStep
         /\ \A plan, seen : Applies(p, plan, seen) => DeskStep
         /\ Abandon(p) => DeskStep
<1>1. \A act, now, plan, seen : Previews(p, act, now, plan, seen) => DeskStep
  BY DEF Previews, DeskStep
<1>2. \A plan, seen : Applies(p, plan, seen) => DeskStep
  BY DEF Applies, DeskStep
<1>3. Abandon(p) => DeskStep
  BY DEF Abandon, DeskStep
<1> QED BY <1>1, <1>2, <1>3

LEMMA InboxIsDeskStep == [InboxNext]_<<deskVars, inboxVars>> => DeskStep
<1>1. ASSUME NEW act, InboxExecute(act) PROVE DeskStep
  BY <1>1 DEF InboxExecute, DeskStep
<1>2. ASSUME NEW p \in Process, NEW act, InboxPreview(p, act) PROVE DeskStep
  BY <1>2, HeldIsDeskStep DEF InboxPreview
<1>3. ASSUME NEW p \in Process, InboxApply(p) PROVE DeskStep
  BY <1>3, HeldIsDeskStep DEF InboxApply
<1>4. ASSUME NEW t, OutsideEdit(t) PROVE DeskStep
  BY <1>4 DEF OutsideEdit, DeskStep
<1>5. InboxStep => DeskStep
  BY <1>1, <1>2, <1>3, <1>4 DEF InboxStep
<1> QED BY <1>5, HeldIsDeskStep DEF InboxNext, DeskStep

LEMMA CatchUpIsDeskStep == [CatchUpNext]_<<deskVars, relayVars, catchUpVars>> => DeskStep
<1>1. ASSUME NEW act, RelayExecute(act) PROVE DeskStep
  BY <1>1 DEF RelayExecute, DeskStep
<1>2. ASSUME NEW p \in Process, NEW act, RelayPreview(p, act) PROVE DeskStep
  BY <1>2, HeldIsDeskStep DEF RelayPreview
<1>3. ASSUME NEW p \in Process, RelayApply(p) PROVE DeskStep
  BY <1>3, HeldIsDeskStep DEF RelayApply
<1>4. ASSUME NEW m, Reads(m) \/ MovesCursor(m) PROVE DeskStep
  BY <1>4 DEF Reads, MovesCursor, DeskStep
<1>5. ASSUME NEW b, Checkout(b) PROVE DeskStep
  BY <1>5 DEF Checkout, DeskStep
<1>6. Tick => DeskStep
  BY DEF Tick, DeskStep
<1>7. RelayStep => DeskStep
  BY <1>1, <1>2, <1>3 DEF RelayStep
<1> QED BY <1>4, <1>5, <1>6, <1>7, HeldIsDeskStep DEF CatchUpNext, DeskStep

LEMMA WorkIsDeskStep == [WorkNext]_<<deskVars, workVars>> => DeskStep
<1>1. ASSUME NEW act, WorkExecute(act) PROVE DeskStep
  BY <1>1 DEF WorkExecute, DeskStep
<1>2. ASSUME NEW p \in Process, NEW act, WorkPreview(p, act) PROVE DeskStep
  BY <1>2, HeldIsDeskStep DEF WorkPreview
<1>3. ASSUME NEW p \in Process, WorkApply(p) PROVE DeskStep
  BY <1>3, HeldIsDeskStep DEF WorkApply
<1>4. ClearSelection \/ (\E m \in Member : SelectMember(m)) => DeskStep
  BY DEF DeskStep, ChangeMembers
<1> QED BY <1>1, <1>2, <1>3, <1>4, HeldIsDeskStep DEF WorkNext, DeskStep

LEMMA DeskBegins == DeskInit => DeskInv
BY DEF DeskInit, DeskInv, DeskTypeOK

----------------------------------------------------------------------------
(* The inbox: what is handed in is made of contributions and is for a page *)
(* unless the code decides where it goes, and repairs are counted.         *)
InputOK(n) == n.text \subseteq Contribution /\ (n.mode = "create" \/ n.target \in Page)

ProposalTyped(q) ==
  /\ q.status \in States
  /\ q.target \in Page
  /\ q.text \subseteq Contribution
  /\ q.repairs \in 0 .. MaxRepairs

InboxTyped ==
  /\ pages \in [Page -> (SUBSET Contribution) \cup {Absent}]
  /\ \A i \in Proposal :
       /\ drafts[i] = NoRecord \/ proposals[i] = NoRecord
       /\ drafts[i] # NoRecord => InputOK(drafts[i].input)
       /\ proposals[i] # NoRecord => ProposalTyped(proposals[i])

WritesInput(act) == act.kind \in {"save", "repair"}

InboxTypesInv ==
  /\ InboxTyped
  /\ \A p \in Process : (desk[p] # Idle /\ WritesInput(desk[p].act)) => InputOK(desk[p].act.input)

(* A target that is found is a page.                                       *)
LEMMA TargetIsPage ==
  ASSUME NEW n, n.mode = "create" \/ n.target \in Page, Target(n) # 0
  PROVE  Target(n) \in Page
<1>1. CASE n.mode = "create"
  <2> DEFINE free == {t \in Page : pages[t] = Absent}
  <2>1. free # {} /\ Target(n) = CHOOSE t \in free : \A u \in free : t <= u
    BY <1>1 DEF Target
  <2>2. free \in SUBSET Nat /\ free \subseteq Page
    BY InboxAssumption DEF Page, InboxAssumption
  <2> HIDE DEF free
  <2>3. \E t \in free : \A u \in free : t <= u
    BY <2>1, <2>2, LeastNatural
  <2>4. Target(n) \in free
    BY <2>1, <2>3
  <2> QED BY <2>2, <2>4
<1>2. CASE n.mode # "create"
  BY <1>2 DEF Target
<1> QED BY <1>1, <1>2

LEMMA CapturesAPage ==
  ASSUME NEW n, n.mode = "create" \/ n.target \in Page, Captured(n) # Refused
  PROVE  Captured(n).target \in Page
<1>1. Target(n) # 0 /\ Captured(n).target = Target(n)
  BY DEF Captured
<1> QED BY <1>1, TargetIsPage

(* What is handed in for a contribution is made of it and of the page.     *)
LEMMA InputsAreTyped ==
  ASSUME InboxTyped, NEW c, NEW n \in Inputs(c)
  PROVE  /\ n.mode = "create" \/ n.target \in Page
         /\ c \in Contribution => InputOK(n)
<1> DEFINE text(m, t) == IF m \in {"replace", "update"} /\ pages[t] # Absent
                           THEN pages[t] \cup {c} ELSE {c}
<1>1. CASE n \in {[mode |-> m, target |-> 0, text |-> {c}, pin |-> NoPin] :
                    m \in Modes \cap {"create"}}
  BY <1>1 DEF InputOK
<1>2. CASE n \notin {[mode |-> m, target |-> 0, text |-> {c}, pin |-> NoPin] :
                    m \in Modes \cap {"create"}}
  <2>1. PICK m \in Modes \ {"create"}, t \in Page, q \in {NoPin} \cup {pages[u] : u \in Page} :
          n = [mode |-> m, target |-> t, text |-> text(m, t), pin |-> q]
    BY <1>2 DEF Inputs
  <2>2. n.target \in Page /\ n.text \in {pages[t] \cup {c}, {c}}
    BY <2>1
  <2>3. n.text = pages[t] \cup {c} => pages[t] # Absent \/ n.text = {c}
    BY <2>1
  <2>4. pages[t] # Absent => pages[t] \subseteq Contribution
    BY <2>1 DEF InboxTyped
  <2> HIDE DEF text
  <2>5. c \in Contribution => n.text \subseteq Contribution
    BY <2>2, <2>3, <2>4
  <2> QED BY <2>2, <2>5 DEF InputOK
<1> QED BY <1>1, <1>2

(* What may be asked for, and is not refused, is typed.                    *)
LEMMA ActsAreTyped ==
  ASSUME InboxTyped, NEW i \in Proposal, NEW act \in InboxActs(i), NEW actor,
         InboxPlan(act, actor) # Refused, WritesInput(act)
  PROVE  InputOK(act.input)
<1>1. act.kind \in {"save", "repair"}
  BY DEF WritesInput
<1>2. ASSUME NEW kind, NEW c, act \in Writing(kind, i, c)
      PROVE  act.kind = kind /\ act.id = i /\ (c \in Contribution => InputOK(act.input))
  <2>1. PICK n \in Inputs(c) : act = [kind |-> kind, id |-> i, input |-> n]
    BY <1>2 DEF Writing
  <2> QED BY <2>1, InputsAreTyped
<1>3. \/ proposals[i] = NoRecord /\ act \in Writing("save", i, <<i, 0>>)
      \/ /\ proposals[i] # NoRecord
         /\ act \in Writing("repair", i, <<i, proposals[i].repairs + 1>>)
  BY <1>1 DEF InboxActs
<1>4. CASE act \in Writing("save", i, <<i, 0>>)
  <2>1. <<i, 0>> \in Contribution
    BY InboxAssumption DEF Contribution, InboxAssumption
  <2> QED BY <1>2, <1>4, <2>1
<1>5. CASE proposals[i] # NoRecord /\ act \in Writing("repair", i, <<i, proposals[i].repairs + 1>>)
  <2>1. act.kind = "repair" /\ act.id = i
    BY <1>2, <1>5
  <2>2. Repair(act, actor) # Refused
    BY <2>1 DEF InboxPlan
  <2>3. proposals[i].repairs # MaxRepairs
    BY <2>1, <2>2 DEF Repair
  <2>4. proposals[i].repairs + 1 \in 0 .. MaxRepairs
    BY <1>5, <2>3, InboxAssumption DEF InboxTyped, ProposalTyped, InboxAssumption
  <2>5. <<i, proposals[i].repairs + 1>> \in Contribution
    BY <2>4 DEF Contribution
  <2> QED BY <1>2, <1>5, <2>5
<1> QED BY <1>3, <1>4, <1>5

(* What a plan leaves, in types.                                           *)
PlanTyped(plan) ==
  /\ plan.draft = NoRecord \/ plan.proposal = NoRecord
  /\ plan.draft # NoRecord => InputOK(plan.draft.input)
  /\ plan.proposal # NoRecord => ProposalTyped(plan.proposal)
  /\ plan.target # 0 => plan.text \subseteq Contribution

LEMMA ChangesAreTyped ==
  ASSUME InboxTyped, NEW i \in Proposal, proposals[i] # NoRecord,
         DOMAIN proposals[i] = ProposalFields,
         NEW q, NEW s \in States, q.status = s,
         \A x \in ProposalFields \ {"status", "decidedBy", "selfApproved"} : q[x] = proposals[i][x]
  PROVE  ProposalTyped(q) /\ drafts[i] = NoRecord
<1>1. q.target = proposals[i].target /\ q.text = proposals[i].text /\ q.repairs = proposals[i].repairs
  BY DEF ProposalFields
<1> QED BY <1>1 DEF InboxTyped, ProposalTyped

LEMMA InboxPlanIsTyped ==
  ASSUME InboxInv, InboxTyped, NEW act, Asked(act), WritesInput(act) => InputOK(act.input),
         NEW actor, NEW plan, plan = InboxPlan(act, actor), plan # Refused
  PROVE  PlanTyped(plan)
<1> DEFINE i == act.id
           old == proposals[i]
<1>1. i \in Proposal /\ act.kind \in InboxKinds
  BY DEF Asked
<1>2. old # NoRecord => DOMAIN old = ProposalFields
  BY <1>1 DEF InboxInv, ProposalInv
<1>3. CASE act.kind = "save"
  <2> DEFINE d == [author |-> IF drafts[i] = NoRecord THEN actor ELSE drafts[i].author,
                   writer |-> actor, input |-> act.input]
  <2>1. plan = Records(d, NoRecord) /\ InputOK(d.input)
    BY <1>3 DEF InboxPlan, SaveDraft, WritesInput
  <2> HIDE DEF d
  <2>2. plan.draft = d /\ plan.proposal = NoRecord /\ plan.target = 0
    BY <2>1 DEF Records, Writes
  <2> QED BY <2>1, <2>2 DEF PlanTyped
<1>4. CASE act.kind = "delete"
  <2>1. plan.draft = NoRecord /\ plan.proposal = old /\ plan.target = 0
    BY <1>4 DEF InboxPlan, DeleteDraft, Records, Writes
  <2> QED BY <1>1, <2>1 DEF PlanTyped, InboxTyped
<1>5. CASE act.kind = "publish"
  <2> DEFINE d == drafts[i]
             at == Captured(d.input)
             q == [status |-> "pending",
                   author |-> IF d.author \in Unnamed THEN actor ELSE d.author,
                   writer |-> d.writer,
                   mode |-> d.input.mode, text |-> d.input.text,
                   pinned |-> d.input.pin # NoPin,
                   target |-> at.target, expect |-> at.expect,
                   repairedBy |-> {}, repairs |-> 0,
                   decidedBy |-> Nobody, selfApproved |-> FALSE]
  <2>1. d # NoRecord /\ at # Refused /\ plan = Records(NoRecord, q)
    BY <1>5 DEF InboxPlan, Publish
  <2>2. InputOK(d.input)
    BY <1>1, <2>1 DEF InboxTyped
  <2>3. at.target \in Page
    BY <2>1, <2>2, CapturesAPage DEF InputOK
  <2>4. /\ q.status = "pending" /\ q.target = at.target /\ q.text = d.input.text
        /\ q.repairs = 0
    OBVIOUS
  <2>5. ProposalTyped(q)
    BY <2>2, <2>3, <2>4, InboxAssumption DEF ProposalTyped, InputOK, States, InboxAssumption
  <2> HIDE DEF q
  <2>6. plan.draft = NoRecord /\ plan.proposal = q /\ plan.target = 0
    BY <2>1 DEF Records, Writes
  <2> QED BY <2>5, <2>6 DEF PlanTyped
<1>6. CASE act.kind = "approve"
  <2> DEFINE q == [Decided(i, "approved", actor) EXCEPT !.selfApproved = IsContributor(old, actor)]
  <2>1. old # NoRecord /\ plan = Writes(drafts[i], q, old.target, ApprovedContent(old))
    BY <1>6 DEF InboxPlan, Approve, Applied, Reviews, Pending
  <2>2. q.status = "approved"
        /\ \A x \in ProposalFields \ {"status", "decidedBy", "selfApproved"} : q[x] = old[x]
    BY <1>2, <2>1 DEF Decided, ProposalFields
  <2> HIDE DEF q
  <2>3. ProposalTyped(q) /\ drafts[i] = NoRecord
    BY <1>1, <1>2, <2>1, <2>2, ChangesAreTyped DEF States
  <2>4. ProposalTyped(old)
    BY <1>1, <2>1 DEF InboxTyped
  <2>5. pages[old.target] # Absent => pages[old.target] \subseteq Contribution
    BY <2>4 DEF InboxTyped, ProposalTyped
  <2>6. ApprovedContent(old) \subseteq Contribution
    BY <2>4, <2>5 DEF ApprovedContent, ProposalTyped
  <2>7. /\ plan.draft = drafts[i] /\ plan.proposal = q
        /\ plan.text = ApprovedContent(old)
    BY <2>1 DEF Writes
  <2> QED BY <2>3, <2>6, <2>7 DEF PlanTyped
<1>7. CASE act.kind \in {"reject", "withdraw", "mark-stale"}
  <2> DEFINE Ends(s, q) == q = Decided(i, s, actor) \/ q = [old EXCEPT !.status = s]
  <2>1. PICK s \in {"rejected", "withdrawn", "stale"} :
          \E q : old # NoRecord /\ plan = Records(drafts[i], q) /\ Ends(s, q)
    BY <1>7 DEF InboxPlan, Reject, Withdraw, MarkStale, Pending
  <2>2. PICK q : old # NoRecord /\ plan = Records(drafts[i], q) /\ Ends(s, q)
    BY <2>1
  <2>3. /\ q.status = s
        /\ \A x \in ProposalFields \ {"status", "decidedBy", "selfApproved"} : q[x] = old[x]
    BY <1>2, <2>2 DEF Decided, ProposalFields
  <2>4. ProposalTyped(q) /\ drafts[i] = NoRecord
    BY <1>1, <1>2, <2>2, <2>3, ChangesAreTyped DEF States
  <2>5. plan.draft = drafts[i] /\ plan.proposal = q /\ plan.target = 0
    BY <2>2 DEF Records, Writes
  <2> QED BY <2>4, <2>5 DEF PlanTyped
<1>8. CASE act.kind = "repair"
  <2> DEFINE at == Captured(act.input)
             q == [old EXCEPT !.status = "pending", !.writer = actor, !.mode = act.input.mode,
                              !.text = act.input.text, !.pinned = act.input.pin # NoPin,
                              !.target = at.target, !.expect = at.expect,
                              !.repairedBy = old.repairedBy \cup ({actor} \ {old.author}),
                              !.repairs = old.repairs + 1]
  <2>1. /\ old # NoRecord /\ at # Refused /\ plan = Records(drafts[i], q)
        /\ old.repairs # MaxRepairs
    BY <1>8 DEF InboxPlan, Repair
  <2>2. InputOK(act.input)
    BY <1>8 DEF WritesInput
  <2>3. at.target \in Page
    BY <2>1, <2>2, CapturesAPage DEF InputOK
  <2>4. /\ q.status = "pending" /\ q.target = at.target /\ q.text = act.input.text
        /\ q.repairs = old.repairs + 1
    BY <1>2, <2>1 DEF ProposalFields
  <2> HIDE DEF q
  <2>5. ProposalTyped(old) /\ drafts[i] = NoRecord
    BY <1>1, <2>1 DEF InboxTyped
  <2>6. ProposalTyped(q)
    BY <2>1, <2>2, <2>3, <2>4, <2>5, InboxAssumption
       DEF ProposalTyped, InputOK, States, InboxAssumption
  <2>7. plan.draft = drafts[i] /\ plan.proposal = q /\ plan.target = 0
    BY <2>1 DEF Records, Writes
  <2> QED BY <2>5, <2>6, <2>7 DEF PlanTyped
<1> QED BY <1>1, <1>3, <1>4, <1>5, <1>6, <1>7, <1>8 DEF InboxKinds

(* Writing it keeps the types.                                             *)
LEMMA InboxCommitIsTyped ==
  ASSUME InboxInv, InboxTyped, NEW i \in Proposal, NEW plan, PlanTyped(plan),
         InboxCommit(i, plan)
  PROVE  InboxTyped'
<1>1. DOMAIN pages = Page /\ DOMAIN drafts = Proposal /\ DOMAIN proposals = Proposal
  BY DEF InboxInv
<1>2. /\ drafts'[i] = plan.draft /\ proposals'[i] = plan.proposal
      /\ \A j \in Proposal \ {i} : drafts'[j] = drafts[j] /\ proposals'[j] = proposals[j]
  BY <1>1 DEF InboxCommit
<1>3. pages' \in [Page -> (SUBSET Contribution) \cup {Absent}]
  <2>1. pages \in [Page -> (SUBSET Contribution) \cup {Absent}]
    BY DEF InboxTyped
  <2>2. CASE plan.target = 0
    BY <2>1, <2>2 DEF InboxCommit
  <2>3. CASE plan.target # 0
    <3>1. plan.text \in (SUBSET Contribution) \cup {Absent}
      BY <2>3 DEF PlanTyped
    <3>2. pages' = [pages EXCEPT ![plan.target] = plan.text]
      BY <2>3 DEF InboxCommit
    <3> QED BY <2>1, <3>1, <3>2
  <2> QED BY <2>2, <2>3
<1>4. ASSUME NEW j \in Proposal
      PROVE  /\ drafts'[j] = NoRecord \/ proposals'[j] = NoRecord
             /\ drafts'[j] # NoRecord => InputOK(drafts'[j].input)
             /\ proposals'[j] # NoRecord => ProposalTyped(proposals'[j])
  BY <1>2 DEF InboxTyped, PlanTyped
<1>5. Contribution' = Contribution /\ Page' = Page
  BY DEF Contribution, Page
<1> QED BY <1>3, <1>4, <1>5 DEF InboxTyped, InputOK, ProposalTyped

HeldInputs ==
  \A p \in Process : (desk[p] # Idle /\ WritesInput(desk[p].act)) => InputOK(desk[p].act.input)

LEMMA InboxTypesStep ==
  ASSUME InboxInv, InboxTypesInv, [InboxNext]_<<deskVars, inboxVars>>
  PROVE  InboxTypesInv'
<1>1. InboxTyped /\ HeldInputs /\ DOMAIN desk = Process
  BY DEF InboxTypesInv, HeldInputs, InboxInv
<1>2. ASSUME UNCHANGED inboxVars PROVE InboxTyped'
  BY <1>1, <1>2 DEF InboxTyped, inboxVars, Contribution, Page, InputOK, ProposalTyped
<1>3. ASSUME UNCHANGED desk PROVE HeldInputs'
  BY <1>1, <1>3 DEF HeldInputs, WritesInput, InputOK, Contribution, Page
<1>4. ASSUME NEW p \in Process, desk' = [desk EXCEPT ![p] = Idle] PROVE HeldInputs'
  BY <1>1, <1>4 DEF HeldInputs, WritesInput, InputOK, Contribution, Page
<1>5. ASSUME NEW i \in Proposal, NEW act \in InboxActs(i), InboxExecute(act)
      PROVE  InboxTyped' /\ HeldInputs'
  <2> DEFINE actor == Resolved
             plan == InboxPlan(act, actor)
  <2>1. plan # Refused /\ InboxCommit(act.id, plan) /\ UNCHANGED deskVars
    BY <1>5 DEF InboxExecute
  <2> HIDE DEF actor
  <2>2. Asked(act)
    BY ActsAreAsked
  <2>3. WritesInput(act) => InputOK(act.input)
    BY <1>1, <2>1, ActsAreTyped
  <2>4. PlanTyped(plan)
    BY <1>1, <2>1, <2>2, <2>3, InboxPlanIsTyped
  <2> HIDE DEF plan
  <2>5. InboxTyped'
    BY <1>1, <2>1, <2>2, <2>4, InboxCommitIsTyped DEF Asked
  <2> QED BY <1>3, <2>1, <2>5 DEF deskVars
<1>6. ASSUME NEW i \in Proposal, NEW act \in InboxActs(i), NEW p \in Process, InboxPreview(p, act)
      PROVE  InboxTyped' /\ HeldInputs'
  <2> DEFINE plan == InboxPlan(act, Resolved)
             held == [act |-> act, actor |-> Resolved, stamp |-> 0,
                      plan |-> plan, seen |-> InboxSeen(act)]
  <2>1. /\ desk' = [desk EXCEPT ![p] = held] /\ held.act = act
        /\ plan # Refused /\ UNCHANGED inboxVars
    BY <1>6 DEF InboxPreview, Previews
  <2>2. WritesInput(act) => InputOK(act.input)
    BY <1>1, <2>1, ActsAreTyped
  <2> HIDE DEF held, plan
  <2>3. HeldInputs'
    BY <1>1, <2>1, <2>2 DEF HeldInputs, WritesInput, InputOK, Contribution, Page
  <2> QED BY <1>2, <2>1, <2>3
<1>7. ASSUME NEW p \in Process, InboxApply(p)
      PROVE  InboxTyped' /\ HeldInputs'
  <2> DEFINE act == desk[p].act
             actor == Resolved
             plan == desk[p].plan
  <2>1. /\ desk[p] # Idle
        /\ plan = InboxPlan(act, actor)
        /\ InboxCommit(act.id, plan)
        /\ desk' = [desk EXCEPT ![p] = Idle]
    BY <1>7 DEF InboxApply, Applies
  <2>2. /\ Asked(act) /\ plan # Refused
        /\ WritesInput(act) => InputOK(act.input)
    BY <1>1, <2>1 DEF InboxInv, HeldInputs
  <2>3. HeldInputs'
    BY <1>4, <2>1
  <2> HIDE DEF act, actor, plan
  <2>4. PlanTyped(plan)
    BY <1>1, <2>1, <2>2, InboxPlanIsTyped
  <2>5. InboxTyped'
    BY <1>1, <2>1, <2>2, <2>4, InboxCommitIsTyped DEF Asked
  <2> QED BY <2>3, <2>5
<1>8. ASSUME NEW t \in Page, OutsideEdit(t)
      PROVE  InboxTyped' /\ HeldInputs'
  <2> DEFINE new == IF pages[t] = Absent THEN {Outside} ELSE pages[t] \cup {Outside}
  <2>1. /\ pages' = [pages EXCEPT ![t] = new]
        /\ UNCHANGED <<drafts, proposals, desk>>
    BY <1>8 DEF OutsideEdit, deskVars
  <2>2. new \subseteq Contribution
    BY <1>1 DEF InboxTyped, Contribution
  <2> HIDE DEF new
  <2>3. pages' \in [Page -> (SUBSET Contribution) \cup {Absent}]
    BY <1>1, <2>1, <2>2 DEF InboxTyped
  <2>4. InboxTyped'
    BY <1>1, <2>1, <2>3 DEF InboxTyped, Contribution, Page, InputOK, ProposalTyped
  <2> QED BY <1>3, <2>1, <2>4
<1>9. CASE InboxStep
  BY <1>5, <1>6, <1>7, <1>8, <1>9 DEF InboxStep, InboxTypesInv, HeldInputs
<1>10. CASE (\E p \in Process : Abandon(p)) /\ UNCHANGED inboxVars
  BY <1>2, <1>4, <1>10 DEF Abandon, InboxTypesInv, HeldInputs
<1>11. CASE UNCHANGED desk /\ UNCHANGED inboxVars
  BY <1>2, <1>3, <1>11 DEF InboxTypesInv, HeldInputs
<1>12. CASE ChangeMembers /\ UNCHANGED inboxVars
  BY <1>11, <1>12 DEF ChangeMembers, AddMember, Deactivate, Reactivate, Registers,
                      SelectMember, ClearSelection
<1>13. CASE UNCHANGED <<deskVars, inboxVars>>
  BY <1>11, <1>13 DEF deskVars
<1> QED BY <1>9, <1>10, <1>12, <1>13 DEF InboxNext

LEMMA InboxTypesBegin == DeskInit /\ InboxInit => InboxTypesInv
<1> SUFFICES ASSUME DeskInit, InboxInit PROVE InboxTypesInv
  OBVIOUS
<1>1. pages \in [Page -> (SUBSET Contribution) \cup {Absent}]
  BY DEF InboxInit
<1> QED BY <1>1 DEF DeskInit, InboxInit, InboxTypesInv, InboxTyped

LEMMA InboxTypesMean == InboxTyped => InboxTypeOK
BY DEF InboxTyped, InboxTypeOK, ProposalTyped, InputOK

----------------------------------------------------------------------------
(* The relays: who sent, claimed and closed one are members, and no stamp  *)
(* is of the future.                                                       *)
RelayTyped(q, now) ==
  /\ \A x \in DOMAIN q.stamps : q.stamps[x] <= now
  /\ q.sender \in Member
  /\ q.status # "published" <=> q.claimant \in Member
  /\ q.status = "closed" <=> q.closer \in Member

RelayTypesInv ==
  /\ clock <= MaxClock
  /\ \A p \in Process : desk[p] # Idle => desk[p].stamp <= clock
  /\ \A r \in Sent : RelayTyped(relays[r], clock)
  /\ branch \in Branch
  /\ \A m \in Reader :
       /\ passed[m] <= clock
       /\ cursor[m] # NoCursor => cursor[m].branch \in Branch

(* What a plan leaves of the relay it is about.                            *)
LEMMA PlannedRelayIsTyped ==
  ASSUME RelaysInv, RelayTypesInv, DeskInv,
         NEW r \in Relay, NEW act \in RelayActs(r), NEW actor, NEW now \in Nat, now <= clock,
         NEW plan, plan = RelayPlan(act, actor, now), plan # Refused
  PROVE  plan.relay # NoRelay => RelayTyped(plan.relay, clock)
<1>1. /\ act.id = r
      /\ act.kind \in {"relay.save", "relay.delete", "relay.publish",
                        "relay.acknowledge", "relay.close"}
  BY DEF RelayActs
<1>2. relays[r] # NoRelay => WellFormed(relays[r]) /\ RelayTyped(relays[r], clock)
  BY DEF RelaysInv, RelayTypesInv, Sent
<1>3. Active \subseteq Member /\ Nobody \notin Member /\ clock \in Nat
  BY DeskAssumption DEF Active, DeskAssumption, RelaysInv
<1>4. CASE act.kind = "relay.save"
  BY <1>1, <1>4 DEF RelayPlan, SaveRelayDraft, Saved
<1>5. CASE act.kind = "relay.delete"
  BY <1>1, <1>2, <1>5 DEF RelayPlan, DeleteRelayDraft, Saved
<1>6. CASE act.kind = "relay.publish"
  <2> DEFINE d == relayDrafts[r]
             q == [sender |-> actor, team |-> d.team, to |-> d.to, status |-> "published",
                   claimant |-> Nobody, closer |-> Nobody, stamps |-> [published |-> now]]
  <2>1. actor \in Active /\ plan = Saved(NoRelay, q)
    BY <1>1, <1>6 DEF RelayPlan, PublishRelay
  <2>2. RelayTyped(q, clock)
    BY <1>3, <2>1 DEF RelayTyped
  <2> QED BY <2>1, <2>2 DEF Saved
<1>7. ASSUME NEW s, NEW who, relays[r] # NoRelay, actor \in Active,
             plan = Moves(r, s, who, actor, now),
             \/ relays[r].status = "published" /\ s = "acknowledged" /\ who = "claimant"
             \/ relays[r].status = "acknowledged" /\ s = "closed" /\ who = "closer"
      PROVE  RelayTyped(plan.relay, clock)
  <2> DEFINE old == relays[r]
             stamps == [x \in DOMAIN old.stamps \cup {s} |->
                          IF x = s THEN now ELSE old.stamps[x]]
             q == [old EXCEPT !.status = s, ![who] = actor, !.stamps = stamps]
  <2>1. plan.relay = q
    BY <1>7 DEF Moves, Saved, Moved
  <2>2. DOMAIN old = RelayFields
    BY <1>2, <1>7 DEF WellFormed
  <2>3. /\ q.status = s /\ q.stamps = stamps /\ q.sender = old.sender
        /\ who = "claimant" => q.claimant = actor /\ q.closer = old.closer
        /\ who = "closer" => q.closer = actor /\ q.claimant = old.claimant
    BY <1>7, <2>2 DEF RelayFields
  <2>4. \A x \in DOMAIN stamps : stamps[x] <= clock
    BY <1>2, <1>7 DEF RelayTyped
  <2> HIDE DEF q, stamps
  <2> QED BY <1>2, <1>3, <1>7, <2>1, <2>3, <2>4 DEF RelayTyped
<1>8. CASE act.kind = "relay.acknowledge"
  <2>1. /\ relays[r] # NoRelay /\ actor \in Active /\ relays[r].status = "published"
        /\ plan = Moves(r, "acknowledged", "claimant", actor, now)
    BY <1>1, <1>8 DEF RelayPlan, Acknowledge
  <2> QED BY <1>7, <2>1
<1>9. CASE act.kind = "relay.close"
  <2>1. /\ relays[r] # NoRelay /\ actor \in Active /\ relays[r].status = "acknowledged"
        /\ plan = Moves(r, "closed", "closer", actor, now)
    BY <1>1, <1>9 DEF RelayPlan, CloseRelay
  <2> QED BY <1>7, <2>1
<1> QED BY <1>1, <1>4, <1>5, <1>6, <1>8, <1>9

(* Its parts: what processes hold, the relays, and the readers.            *)
StampsInv == \A p \in Process : desk[p] # Idle => desk[p].stamp <= clock
RelaysTyped == clock <= MaxClock /\ \A r \in Sent : RelayTyped(relays[r], clock)
ReadersTyped ==
  /\ branch \in Branch
  /\ \A m \in Reader :
       /\ passed[m] <= clock
       /\ cursor[m] # NoCursor => cursor[m].branch \in Branch

LEMMA RelayTypesParts == RelayTypesInv <=> StampsInv /\ RelaysTyped /\ ReadersTyped
BY DEF RelayTypesInv, StampsInv, RelaysTyped, ReadersTyped

LEMMA CommittedIsTyped ==
  ASSUME RelaysInv, RelayTypesInv, DeskInv,
         NEW r \in Relay, NEW act \in RelayActs(r), NEW actor, NEW now \in Nat, now <= clock,
         NEW plan, plan = RelayPlan(act, actor, now), plan # Refused,
         RelayCommit(act.id, plan)
  PROVE  RelaysTyped' /\ UNCHANGED clock
<1>0. act.id = r
  BY PlannedRelay
<1>1. /\ relays' = [relays EXCEPT ![r] = plan.relay] /\ clock' = clock
      /\ DOMAIN relays = Relay
  BY <1>0 DEF RelayCommit, RelaysInv
<1>2. plan.relay # NoRelay => RelayTyped(plan.relay, clock)
  BY PlannedRelayIsTyped
<1>3. \A q \in Relay \ {r} : relays'[q] = relays[q]
  BY <1>1
<1>4. \A q \in Sent' : RelayTyped(relays'[q], clock)
  BY <1>1, <1>2, <1>3 DEF Sent, RelayTypesInv
<1> QED BY <1>1, <1>4 DEF RelaysTyped, RelayTypesInv, RelayTyped

LEMMA RelayTypesStep ==
  ASSUME CatchUpInv, RelayTypesInv, DeskInv, [CatchUpNext]_<<deskVars, relayVars, catchUpVars>>
  PROVE  RelayTypesInv'
<1>1. /\ RelaysInv /\ PreviewsInv /\ ReadersInv /\ StampsInv /\ RelaysTyped /\ ReadersTyped
      /\ clock \in Nat /\ MaxClock \in Nat /\ DOMAIN desk = Process
  BY RelayTypesParts, RelayAssumption DEF CatchUpInv, RelaysInv, PreviewsInv, RelayAssumption
<1>2. ASSUME UNCHANGED <<relays, clock>> PROVE RelaysTyped'
  BY <1>1, <1>2 DEF RelaysTyped, Sent, RelayTyped
<1>3. ASSUME UNCHANGED <<branch, cursor, passed, clock>> PROVE ReadersTyped'
  BY <1>1, <1>3 DEF ReadersTyped
<1>4. ASSUME UNCHANGED <<desk, clock>> PROVE StampsInv'
  BY <1>1, <1>4 DEF StampsInv
<1>5. ASSUME NEW p \in Process, desk' = [desk EXCEPT ![p] = Idle], UNCHANGED clock
      PROVE  StampsInv'
  BY <1>1, <1>5 DEF StampsInv
<1>6. CASE RelayStep
  <2>1. ASSUME NEW r \in Relay, NEW act \in RelayActs(r), RelayExecute(act)
        PROVE  RelaysTyped' /\ StampsInv' /\ UNCHANGED clock
    <3> DEFINE actor == PublishesFor(act, Resolved)
               plan == RelayPlan(act, actor, clock)
    <3>1. plan # Refused /\ RelayCommit(act.id, plan) /\ UNCHANGED deskVars
      BY <2>1 DEF RelayExecute
    <3> HIDE DEF actor
    <3>2. plan = RelayPlan(act, actor, clock) /\ clock <= clock
      BY <1>1
    <3> HIDE DEF plan
    <3>3. RelaysTyped' /\ UNCHANGED clock
      BY <1>1, <3>1, <3>2, CommittedIsTyped
    <3> QED BY <1>4, <3>1, <3>3 DEF deskVars
  <2>2. ASSUME NEW p \in Process, RelayApply(p)
        PROVE  RelaysTyped' /\ StampsInv' /\ UNCHANGED clock
    <3>1. /\ desk[p] # Idle
          /\ RelayPlan(desk[p].act, Resolved, desk[p].stamp) = desk[p].plan
          /\ RelayCommit(desk[p].act.id, desk[p].plan)
          /\ desk' = [desk EXCEPT ![p] = Idle]
      BY <2>2 DEF RelayApply, Applies
    <3>2. PICK r \in Relay : desk[p].act \in RelayActs(r)
      BY <1>1, <3>1 DEF PreviewsInv
    <3>3. desk[p].stamp \in Nat /\ desk[p].stamp <= clock /\ desk[p].plan # Refused
      BY <1>1, <3>1 DEF PreviewsInv, StampsInv
    <3> DEFINE act == desk[p].act
               plan == desk[p].plan
               now == desk[p].stamp
    <3>4. /\ act \in RelayActs(r) /\ now \in Nat /\ now <= clock
          /\ plan = RelayPlan(act, Resolved, now)
          /\ plan # Refused /\ RelayCommit(act.id, plan)
      BY <3>1, <3>2, <3>3
    <3> HIDE DEF act, plan, now
    <3>5. RelaysTyped' /\ UNCHANGED clock
      BY <1>1, <3>4, CommittedIsTyped
    <3> QED BY <1>5, <3>1, <3>5
  <2>3. ASSUME NEW p \in Process, NEW act, RelayPreview(p, act)
        PROVE  RelaysTyped' /\ StampsInv' /\ UNCHANGED clock
    <3> DEFINE held == [act |-> act, actor |-> Resolved, stamp |-> clock,
                        plan |-> RelayPlan(act, Resolved, clock), seen |-> RelaySeen(act)]
    <3>1. /\ desk' = [desk EXCEPT ![p] = held] /\ held.stamp = clock
          /\ UNCHANGED <<relays, clock>>
      BY <2>3 DEF RelayPreview, Previews, relayVars
    <3> HIDE DEF held
    <3>2. StampsInv'
      BY <1>1, <3>1 DEF StampsInv
    <3> QED BY <1>2, <3>1, <3>2
  <2>4. RelaysTyped' /\ StampsInv' /\ UNCHANGED clock
    BY <1>6, <2>1, <2>2, <2>3 DEF RelayStep
  <2>5. UNCHANGED <<branch, cursor, passed>>
    BY <1>6 DEF RelayStep
  <2> QED BY <1>3, <2>4, <2>5, RelayTypesParts DEF RelayTypesInv, StampsInv, RelaysTyped, ReadersTyped
<1>7. ASSUME NEW m \in Reader, Reads(m) PROVE RelayTypesInv'
  BY <1>2, <1>3, <1>4, <1>7
     DEF Reads, relayVars, deskVars, RelayTypesInv, StampsInv, RelaysTyped, ReadersTyped
<1>8. ASSUME NEW m \in Reader, MovesCursor(m) PROVE RelayTypesInv'
  <2>1. UNCHANGED <<branch, relays, clock, desk>>
    BY <1>8 DEF MovesCursor, relayVars, deskVars
  <2>2. ASSUME NEW t \in 0 .. clock, Mark(m, t) \/ Reset(m, t), Goes(m, t) PROVE ReadersTyped'
    <3>1. cursor' = [cursor EXCEPT ![m] = [at |-> t, branch |-> branch]]
      BY <2>2 DEF Mark, Reset
    <3>2. passed' = passed \/ passed' = [passed EXCEPT ![m] = t]
      BY <2>2 DEF Goes
    <3> QED BY <1>1, <2>1, <3>1, <3>2 DEF ReadersTyped, ReadersInv
  <2>3. ASSUME Clear(m), UNCHANGED <<known, cut, covered, passed>> PROVE ReadersTyped'
    BY <1>1, <2>1, <2>3 DEF ReadersTyped, ReadersInv, Clear
  <2>4. ReadersTyped'
    BY <1>8, <2>2, <2>3 DEF MovesCursor
  <2> QED BY <1>2, <1>4, <2>1, <2>4
         DEF RelayTypesInv, StampsInv, RelaysTyped, ReadersTyped
<1>9. CASE \E b \in Branch : Checkout(b)
  BY <1>1, <1>2, <1>4, <1>9
     DEF Checkout, relayVars, deskVars, RelayTypesInv, StampsInv, RelaysTyped, ReadersTyped
<1>10. CASE Tick /\ UNCHANGED catchUpVars
  BY <1>1, <1>10
     DEF Tick, catchUpVars, deskVars, RelayTypesInv, StampsInv, RelaysTyped, ReadersTyped,
         Sent, RelayTyped, RelaysInv, WellFormed, PreviewsInv, ReadersInv, ReaderInv
<1>11. CASE UNCHANGED desk /\ UNCHANGED <<relayVars, catchUpVars>>
  BY <1>2, <1>3, <1>4, <1>11
     DEF relayVars, catchUpVars, RelayTypesInv, StampsInv, RelaysTyped, ReadersTyped
<1>12. CASE (\E p \in Process : Abandon(p)) /\ UNCHANGED <<relayVars, catchUpVars>>
  BY <1>2, <1>3, <1>5, <1>12
     DEF Abandon, relayVars, catchUpVars, RelayTypesInv, StampsInv, RelaysTyped, ReadersTyped
<1>13. CASE ChangeMembers /\ UNCHANGED <<relayVars, catchUpVars>>
  BY <1>11, <1>13 DEF ChangeMembers, AddMember, Deactivate, Reactivate, Registers,
                      SelectMember, ClearSelection
<1> QED BY <1>6, <1>7, <1>8, <1>9, <1>10, <1>11, <1>12, <1>13 DEF CatchUpNext, deskVars

LEMMA RelayTypesBegin == DeskInit /\ RelayInit /\ CatchUpInit => RelayTypesInv
<1> SUFFICES ASSUME DeskInit, RelayInit, CatchUpInit PROVE RelayTypesInv
  OBVIOUS
<1>1. Sent = {}
  BY DEF RelayInit, Sent
<1> QED BY <1>1, RelayAssumption
        DEF DeskInit, RelayInit, CatchUpInit, RelayTypesInv, RelayAssumption

LEMMA RelayTypesMean == CatchUpInv /\ RelayTypesInv => RelayTypeOK /\ CatchUpTypeOK
<1> SUFFICES ASSUME CatchUpInv, RelayTypesInv PROVE RelayTypeOK /\ CatchUpTypeOK
  OBVIOUS
<1>1. RelaysInv /\ ReadersInv /\ clock \in Nat /\ MaxClock \in Nat
  BY RelayAssumption DEF CatchUpInv, RelaysInv, RelayAssumption
<1>2. RelayTypeOK
  BY <1>1 DEF RelayTypeOK, RelayTypesInv, RelaysInv, RelayTyped, WellFormed, Until, RelayStates,
              Instant
<1>3. CatchUpTypeOK
  BY <1>1 DEF CatchUpTypeOK, RelayTypesInv, ReadersInv, ReaderInv
<1> QED BY <1>2, <1>3

----------------------------------------------------------------------------
(* The records together: those a behaviour does not exercise stay as they  *)
(* were at the start, whoever sits at the desk.                            *)
EachInv ==
  /\ IF area = "inbox" THEN InboxInv ELSE InboxInit
  /\ IF area = "relay" THEN CatchUpInv ELSE RelayInit /\ CatchUpInit
  /\ IF area = "work" THEN WorkInv ELSE WorkInit
  /\ IndexInv

LEMMA RecordsBegin == RecordsInit => EachInv
BY InboxBegins, CatchUpBegins, WorkBegins, IndexBegins DEF RecordsInit, EachInv

(* A step of all is a step, or none, of each.                              *)
LEMMA RecordsStepsAreParts ==
  ASSUME [RecordsNext]_recordVars
  PROVE  /\ UNCHANGED area
         /\ IF area = "inbox" THEN [InboxNext]_<<deskVars, inboxVars>> ELSE UNCHANGED inboxVars
         /\ IF area = "relay" THEN [CatchUpNext]_<<deskVars, relayVars, catchUpVars>>
            ELSE UNCHANGED <<relayVars, catchUpVars>>
         /\ IF area = "work" THEN [WorkNext]_<<deskVars, workVars>> ELSE UNCHANGED workVars
         /\ [IndexNext]_indexVars
BY DEF RecordsNext, recordVars

LEMMA UntouchedStay ==
  /\ InboxInit /\ UNCHANGED inboxVars => InboxInit'
  /\ RelayInit /\ CatchUpInit /\ UNCHANGED <<relayVars, catchUpVars>> => RelayInit' /\ CatchUpInit'
  /\ WorkInit /\ UNCHANGED workVars => WorkInit'
BY DEF InboxInit, inboxVars, Page, RelayInit, relayVars, CatchUpInit, catchUpVars, WorkInit, workVars

LEMMA RecordsStepKeeps == EachInv /\ [RecordsNext]_recordVars => EachInv'
<1> SUFFICES ASSUME EachInv, [RecordsNext]_recordVars PROVE EachInv'
  OBVIOUS
<1>1. UNCHANGED area
  BY RecordsStepsAreParts
<1>2. IF area = "inbox" THEN InboxInv' ELSE InboxInit'
  BY RecordsStepsAreParts, InboxStepKeeps, UntouchedStay DEF EachInv
<1>3. IF area = "relay" THEN CatchUpInv' ELSE RelayInit' /\ CatchUpInit'
  BY RecordsStepsAreParts, CatchUpStepKeeps, UntouchedStay DEF EachInv
<1>4. IF area = "work" THEN WorkInv' ELSE WorkInit'
  BY RecordsStepsAreParts, WorkStepKeeps, UntouchedStay DEF EachInv
<1>5. IndexInv'
  BY RecordsStepsAreParts, IndexStepKeeps DEF EachInv
<1> QED BY <1>1, <1>2, <1>3, <1>4, <1>5 DEF EachInv

(* What a state of each says, and what a step of each may do.              *)
LEMMA EachMeans ==
  ASSUME EachInv
  PROVE  FourEyes /\ NothingIsSkipped /\ WorkTypeOK /\ IndexTypeOK /\ FreshIsTrue
<1>1. FourEyes
  <2>1. CASE area = "inbox"
    BY <2>1, InboxMeans DEF EachInv
  <2>2. CASE area # "inbox"
    BY <2>2 DEF EachInv, InboxInit, FourEyes
  <2> QED BY <2>1, <2>2
<1>2. NothingIsSkipped
  <2>1. CASE area = "relay"
    BY <2>1, CatchUpMeans DEF EachInv
  <2>2. CASE area # "relay"
    BY <2>2 DEF EachInv, CatchUpInit, NothingIsSkipped
  <2> QED BY <2>1, <2>2
<1>3. WorkTypeOK
  <2>1. CASE area = "work"
    BY <2>1, WorkMeans DEF EachInv
  <2>2. CASE area # "work"
    BY <2>2 DEF EachInv, WorkInit, WorkTypeOK
  <2> QED BY <2>1, <2>2
<1>4. IndexTypeOK /\ FreshIsTrue
  BY IndexMeans DEF EachInv
<1> QED BY <1>1, <1>2, <1>3, <1>4

LEMMA EachStepMeans ==
  ASSUME EachInv, [RecordsNext]_recordVars
  PROVE  LosesNothing /\ RunsFollow /\ CommitsOneInstant
<1>1. LosesNothing
  BY RecordsStepsAreParts, InboxStepKeeps, SameProposals DEF EachInv
<1>2. RunsFollow
  BY RecordsStepsAreParts, WorkStepKeeps DEF EachInv, RunsFollow, workVars
<1>3. CommitsOneInstant
  BY RecordsStepsAreParts, IndexCommits DEF EachInv
<1> QED BY <1>1, <1>2, <1>3

(* Whichever records a behaviour exercises: no approval lets its own       *)
(* author through unsaid, nothing is skipped behind a cursor, playbooks,   *)
(* runs and index stay what their types say, and a session called fresh is *)
(* so (the planners of src/team, catch_up_digest, and open_read_session).  *)
THEOREM RecordsAreSafe ==
  RecordsSpec => [](FourEyes /\ NothingIsSkipped /\ WorkTypeOK /\ IndexTypeOK /\ FreshIsTrue)
<1> QED BY RecordsBegin, RecordsStepKeeps, EachMeans, PTL DEF RecordsSpec

(* And no step of any of them loses what a page held, undoes a run or a    *)
(* step of it, or commits an index of files that were not so together.     *)
THEOREM RecordsAreKept ==
  RecordsSpec => ApprovalLosesNothing /\ RunsKeepTheirWord /\ IndexIsOneInstant
<1>1. EachInv /\ [RecordsNext]_recordVars
        => [\A i \in Proposal :
              (Pending(i) /\ proposals[i].pinned /\ proposals'[i].status = "approved")
                => \A t \in Page : pages[t] # Absent => pages[t] \subseteq pages'[t]]_<<pages, proposals>>
  BY EachStepMeans DEF LosesNothing
<1>2. EachInv /\ [RecordsNext]_recordVars
        => [\A r \in PlaybookRun :
              runs'[r] # runs[r] =>
                IF runs[r] = NoWork THEN StartsNow(runs'[r]) ELSE CarriesOn(runs[r], runs'[r])]_runs
  BY EachStepMeans DEF RunsFollow, Follows
<1>3. EachInv /\ [RecordsNext]_recordVars
        => [\A m \in Maintainer :
              (Finished(m, "again") /\ index' # index)
                => \A f \in Document : CommitsFile(pass[m], f)]_indexVars
  BY EachStepMeans DEF CommitsOneInstant
<1> QED BY RecordsBegin, RecordsStepKeeps, <1>1, <1>2, <1>3, PTL
        DEF RecordsSpec, ApprovalLosesNothing, RunsKeepTheirWord, IndexIsOneInstant

----------------------------------------------------------------------------
(* Types of the records together.                                          *)
TypesInv ==
  /\ EachInv
  /\ DeskInv
  /\ IF area = "inbox" THEN InboxTypesInv ELSE InboxInit
  /\ IF area = "relay" THEN RelayTypesInv ELSE RelayInit /\ CatchUpInit
  /\ WikiInv

LEMMA TypesBegin == RecordsInit => TypesInv
BY RecordsBegin, DeskBegins, InboxTypesBegin, RelayTypesBegin, WikiBegins DEF RecordsInit, TypesInv

LEMMA RecordsAreDeskSteps == [RecordsNext]_recordVars => DeskStep /\ [WikiNext]_wikiVars
<1> SUFFICES ASSUME [RecordsNext]_recordVars PROVE DeskStep /\ [WikiNext]_wikiVars
  OBVIOUS
<1>1. [WikiNext]_wikiVars
  BY DEF RecordsNext, recordVars
<1>2. \/ [InboxNext]_<<deskVars, inboxVars>>
      \/ [CatchUpNext]_<<deskVars, relayVars, catchUpVars>>
      \/ [WorkNext]_<<deskVars, workVars>>
      \/ UNCHANGED deskVars
  BY DEF RecordsNext, recordVars
<1> QED BY <1>1, <1>2, InboxIsDeskStep, CatchUpIsDeskStep, WorkIsDeskStep DEF DeskStep

LEMMA TypesStepKeeps == TypesInv /\ [RecordsNext]_recordVars => TypesInv'
<1> SUFFICES ASSUME TypesInv, [RecordsNext]_recordVars PROVE TypesInv'
  OBVIOUS
<1>1. UNCHANGED area /\ EachInv /\ EachInv'
  BY RecordsStepsAreParts, RecordsStepKeeps DEF TypesInv
<1>2. DeskInv' /\ WikiInv'
  BY RecordsAreDeskSteps, DeskStepKeeps, WikiStepKeeps DEF TypesInv
<1>3. IF area = "inbox" THEN InboxTypesInv' ELSE InboxInit'
  BY <1>1, RecordsStepsAreParts, InboxTypesStep, UntouchedStay DEF TypesInv, EachInv
<1>4. IF area = "relay" THEN RelayTypesInv' ELSE RelayInit' /\ CatchUpInit'
  BY <1>1, RecordsStepsAreParts, RelayTypesStep, UntouchedStay DEF TypesInv, EachInv
<1> QED BY <1>1, <1>2, <1>3, <1>4 DEF TypesInv

LEMMA TypesMean == TypesInv => RecordsTypeOK
<1> SUFFICES ASSUME TypesInv PROVE RecordsTypeOK
  OBVIOUS
<1>1. DeskTypeOK /\ WikiTypeOK
  BY WikiMeans DEF TypesInv, DeskInv
<1>2. WorkTypeOK /\ IndexTypeOK
  BY EachMeans DEF TypesInv
<1>3. InboxTypeOK
  <2>1. CASE area = "inbox"
    BY <2>1, InboxTypesMean DEF TypesInv, InboxTypesInv
  <2>2. CASE area # "inbox"
    <3>1. InboxInit
      BY <2>2 DEF TypesInv
    <3> QED BY <3>1 DEF InboxInit, InboxTypeOK
  <2> QED BY <2>1, <2>2
<1>4. RelayTypeOK /\ CatchUpTypeOK
  <2>1. CASE area = "relay"
    BY <2>1, RelayTypesMean DEF TypesInv, EachInv
  <2>2. CASE area # "relay"
    <3>1. RelayInit /\ CatchUpInit
      BY <2>2 DEF TypesInv
    <3>2. Sent = {} /\ clock = 0 /\ MaxClock \in Nat
      BY <3>1, RelayAssumption DEF RelayInit, Sent, RelayAssumption
    <3>3. RelayTypeOK
      BY <3>1, <3>2 DEF RelayInit, RelayTypeOK, Instant
    <3>4. CatchUpTypeOK
      BY <3>1, <3>2 DEF CatchUpInit, CatchUpTypeOK
    <3> QED BY <3>3, <3>4
  <2> QED BY <2>1, <2>2
<1> QED BY <1>1, <1>2, <1>3, <1>4 DEF RecordsTypeOK

(* Whichever records a behaviour exercises, each keeps its type: members,  *)
(* proposals that repairs stay bounded for and that are a draft or         *)
(* published but not both, relays whose stamps are of the past and whose   *)
(* claimant and closer are there exactly when their state says so, wiki    *)
(* pages whose entities have a revision whatever batch was planned on      *)
(* them, and a registry of plans that is bounded and holds every live      *)
(* handle (src/team, src/wiki/ops.rs and plans.rs).                        *)
THEOREM RecordsKeepTheirTypes == RecordsSpec => []RecordsTypeOK
<1> QED BY TypesBegin, TypesStepKeeps, TypesMean, PTL DEF RecordsSpec

----------------------------------------------------------------------------
(* What the wiki's operations leave, in the records together.              *)
LEMMA WikiHistoryKeeps ==
  WikiInv /\ HistoryInv /\ [RecordsNext]_recordVars => WikiInv' /\ HistoryInv'
BY RecordsAreDeskSteps, WikiStepKeeps, HistoryStepKeeps

(* Whichever records a behaviour exercises, and however often a batch is   *)
(* applied again: a pinned operation leaves its mark once and a creation   *)
(* makes one entity (apply_operations_with of src/wiki/ops.rs and          *)
(* apply_planned of src/wiki/plans.rs).                                    *)
THEOREM RecordsApplyOnce == RecordsSpec => []AppliedOnce
<1>1. RecordsInit => WikiInv /\ HistoryInv
  BY WikiBegins, HistoryBegins DEF RecordsInit
<1>2. WikiInv /\ HistoryInv => AppliedOnce
  BY HistoryMeans
<1> QED BY <1>1, <1>2, WikiHistoryKeeps, PTL DEF RecordsSpec

LEMMA WikiAgreementKeeps ==
  WikiInv /\ HistoryInv /\ OrderInv /\ AgreeInv /\ [RecordsNext]_recordVars
    => OrderInv' /\ AgreeInv'
BY RecordsAreDeskSteps, AgreeStepKeeps

(* What a batch leaves on a page was logged as intended first; and while   *)
(* no page was written over that had changed since it was read, the log of *)
(* the batches and the pages agree, and no entity is lost that at most one *)
(* operation moves or creates (apply_operations_with and move_entry of     *)
(* src/wiki/ops.rs).                                                       *)
THEOREM RecordsAgreeWithTheLog == RecordsSpec => [](LogAndPagesAgree /\ NothingIsLost)
<1>1. RecordsInit => WikiInv /\ HistoryInv /\ OrderInv /\ AgreeInv
  BY WikiBegins, HistoryBegins, OrderBegins DEF RecordsInit
<1>2. WikiInv /\ HistoryInv /\ OrderInv /\ AgreeInv => LogAndPagesAgree /\ NothingIsLost
  BY AgreeMeans, NothingLost
<1> QED BY <1>1, <1>2, WikiHistoryKeeps, WikiAgreementKeeps, PTL DEF RecordsSpec
=============================================================================
