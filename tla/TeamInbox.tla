----------------------------- MODULE TeamInbox ------------------------------
(***************************************************************************)
(* The knowledge inbox (src/team/inbox.rs): a local draft is published as  *)
(* a proposal to change a page; members approve it into the page, reject   *)
(* it, or mark it stale once the page has moved on, and a stale proposal   *)
(* is repaired and reviewed again.                                         *)
(*                                                                         *)
(* A page is absent or the set of contributions it holds.  Whoever writes  *)
(* a replacement keeps what the page held when they read it and adds a     *)
(* contribution of their own.                                              *)
(***************************************************************************)
EXTENDS TeamDesk

CONSTANTS
  Proposal,      \* ids of drafts, and of the proposals they become
  Pages,         \* bound: pages are 1 .. Pages
  FirstPages,    \* those that exist at the start
  Absent,        \* a page that does not exist
  Outside,       \* what an edit by hand, by Git or by a wiki operation adds
  NoPin, NoRecord,
  Unnamed,       \* members whose id is that of an author not named, "engineer"
  Slow,          \* bound: the kinds of action a process sits on before it applies them
  MaxRepairs,    \* bound: repairs of one proposal
  Modes          \* of "replace", "append", "update", "create"

ASSUME InboxAssumption ==
  /\ Pages \in Nat \ {0}
  /\ FirstPages \subseteq 1 .. Pages
  /\ Unnamed \subseteq Member
  /\ MaxRepairs \in Nat
  /\ Modes \subseteq {"replace", "append", "update", "create"}

VARIABLES
  pages,       \* page -> what it holds
  drafts,      \* local inbox drafts
  proposals    \* canonical proposals

inboxVars == <<pages, drafts, proposals>>

Page == 1 .. Pages

InboxInit ==
  /\ pages = [t \in Page |-> IF t \in FirstPages THEN {} ELSE Absent]
  /\ drafts = [i \in Proposal |-> NoRecord]
  /\ proposals = [i \in Proposal |-> NoRecord]

----------------------------------------------------------------------------
(* What a writer hands in: a contribution c, on top of what the page holds *)
(* unless it is to be appended.  pin is the revision `inbox target` gave   *)
(* with the page, or NoPin.  Where a new entity goes the code decides.     *)
Inputs(c) ==
  LET text(m, t) == IF m \in {"replace", "update"} /\ pages[t] # Absent
                      THEN pages[t] \cup {c} ELSE {c}
  IN {[mode |-> m, target |-> t, text |-> text(m, t), pin |-> q] :
        m \in Modes \ {"create"}, t \in Page, q \in {NoPin} \cup {pages[u] : u \in Page}}
     \cup {[mode |-> "create", target |-> 0, text |-> {c}, pin |-> NoPin] :
             m \in Modes \cap {"create"}}

(* A pin is of the page it was taken with.                                 *)
Honest(input) == input.pin = NoPin \/ input.pin = pages[input.target]

(* resolve_change_target: the first free path for a new entity, the file   *)
(* of an existing one for an update.  0 if there is none.                  *)
Target(input) ==
  CASE input.mode = "create" ->
         LET free == {t \in Page : pages[t] = Absent}
         IN IF free = {} THEN 0 ELSE CHOOSE t \in free : \A u \in free : t <= u
    [] input.mode = "update" -> IF pages[input.target] = Absent THEN 0 ELSE input.target
    [] OTHER -> input.target

(* Mutant of Captured: the pins of the caller are not compared.            *)
CapturedAnyway(input) ==
  LET t == Target(input)
  IN IF t = 0 THEN Refused ELSE [target |-> t, expect |-> pages[t]]

(* capture_expectations: the revision of the target at publication or      *)
(* repair.  A pin that no longer holds refuses.                            *)
Captured(input) ==
  LET t == Target(input)
  IN IF t = 0 \/ (input.pin # NoPin /\ input.pin # pages[t]) THEN Refused
     ELSE [target |-> t, expect |-> pages[t]]

(* proposal_drifted                                                        *)
Drifted(q) == pages[q.target] # q.expect

IsContributor(q, m) == m = q.author \/ m \in q.repairedBy

(* approved_content: an append keeps the page; a create needs it absent.   *)
ApprovedContent(q) ==
  CASE q.mode = "append" /\ pages[q.target] # Absent -> pages[q.target] \cup q.text
    [] OTHER -> q.text

----------------------------------------------------------------------------
(* The planners: the draft and the proposal as the action leaves them, and *)
(* the page it replaces (target 0 for none).                               *)
Writes(d, q, t, text) == [draft |-> d, proposal |-> q, target |-> t, text |-> text]
Records(d, q) == Writes(d, q, 0, {})

(* A draft keeps the author it was first saved by, whoever saves it again; *)
(* writer is who did, kept for the properties.                             *)
SaveDraft(act, actor) ==
  LET d == drafts[act.id]
  IN IF proposals[act.id] # NoRecord \/ Target(act.input) = 0 THEN Refused
     ELSE Records([author |-> IF d = NoRecord THEN actor ELSE d.author,
                   writer |-> actor, input |-> act.input], NoRecord)

DeleteDraft(act) ==
  IF drafts[act.id] = NoRecord THEN Refused ELSE Records(NoRecord, proposals[act.id])

(* The author of a draft that names none is who publishes it.              *)
Publish(act, actor) ==
  LET d == drafts[act.id]
  IN IF d = NoRecord THEN Refused
     ELSE LET at == Captured(d.input)
          IN IF at = Refused THEN Refused
             ELSE Records(NoRecord,
                    [status |-> "pending",
                     author |-> IF d.author \in Unnamed THEN actor ELSE d.author,
                     writer |-> d.writer,
                     mode |-> d.input.mode, text |-> d.input.text,
                     pinned |-> d.input.pin # NoPin,
                     target |-> at.target, expect |-> at.expect,
                     repairedBy |-> {}, repairs |-> 0,
                     decidedBy |-> Nobody, selfApproved |-> FALSE])

Pending(i) == proposals[i] # NoRecord /\ proposals[i].status = "pending"

Decided(i, s, actor) == [proposals[i] EXCEPT !.status = s, !.decidedBy = actor]

Reviews(act, actor) ==
  /\ Pending(act.id)
  /\ actor \in Active
  /\ IsContributor(proposals[act.id], actor) => act.selfApprove

Applied(act, actor) ==
  LET q == proposals[act.id]
  IN IF q.mode = "create" /\ pages[q.target] # Absent THEN Refused
     ELSE Writes(drafts[act.id],
                 [Decided(act.id, "approved", actor) EXCEPT
                    !.selfApproved = IsContributor(q, actor)],
                 q.target, ApprovedContent(q))

(* Mutant of Approve: a page that moved on is written over.                *)
ApproveDrifted(act, actor) ==
  IF ~Reviews(act, actor) THEN Refused ELSE Applied(act, actor)

Approve(act, actor) ==
  IF ~Reviews(act, actor) THEN Refused
  ELSE IF Drifted(proposals[act.id]) THEN Refused
  ELSE Applied(act, actor)

Reject(act, actor) ==
  IF ~Pending(act.id) \/ actor \notin Active THEN Refused
  ELSE IF IsContributor(proposals[act.id], actor) THEN Refused
  ELSE Records(drafts[act.id], Decided(act.id, "rejected", actor))

Withdraw(act, actor) ==
  IF ~Pending(act.id) THEN Refused
  ELSE IF proposals[act.id].author # actor THEN Refused
  ELSE Records(drafts[act.id], Decided(act.id, "withdrawn", actor))

MarkStale(act) ==
  IF ~Pending(act.id) THEN Refused
  ELSE IF ~Drifted(proposals[act.id]) THEN Refused
  ELSE Records(drafts[act.id], [proposals[act.id] EXCEPT !.status = "stale"])

(* A repair replaces the content and captures the page again.              *)
Repair(act, actor) ==
  LET q == proposals[act.id]
      at == Captured(act.input)
  IN IF q = NoRecord \/ actor \notin Active \/ at = Refused THEN Refused
     ELSE IF q.status # "stale" \/ q.repairs = MaxRepairs THEN Refused
     ELSE Records(drafts[act.id],
            [q EXCEPT !.status = "pending", !.writer = actor, !.mode = act.input.mode,
                      !.text = act.input.text, !.pinned = act.input.pin # NoPin,
                      !.target = at.target, !.expect = at.expect,
                      !.repairedBy = q.repairedBy \cup ({actor} \ {q.author}),
                      !.repairs = q.repairs + 1])

InboxPlan(act, actor) ==
  CASE act.kind = "save" -> SaveDraft(act, actor)
    [] act.kind = "delete" -> DeleteDraft(act)
    [] act.kind = "publish" -> Publish(act, actor)
    [] act.kind = "approve" -> Approve(act, actor)
    [] act.kind = "reject" -> Reject(act, actor)
    [] act.kind = "withdraw" -> Withdraw(act, actor)
    [] act.kind = "mark-stale" -> MarkStale(act)
    [] act.kind = "repair" -> Repair(act, actor)

----------------------------------------------------------------------------
(* What may be asked for of record i now.                                  *)
Writing(kind, i, c) == {[kind |-> kind, id |-> i, input |-> n] : n \in {m \in Inputs(c) : Honest(m)}}

InboxActs(i) ==
  LET q == proposals[i]
  IN IF q = NoRecord
       THEN Writing("save", i, <<i, 0>>)
              \cup {[kind |-> k, id |-> i] : k \in {"delete", "publish"}}
     ELSE Writing("repair", i, <<i, q.repairs + 1>>)
            \cup {[kind |-> k, id |-> i] : k \in {"reject", "withdraw", "mark-stale"}}
            \cup {[kind |-> "approve", id |-> i, selfApprove |-> b] : b \in BOOLEAN}

(* The files an action replaces or reads, as prepare and Plan::read list   *)
(* them.                                                                   *)
InboxSeen(act) ==
  <<drafts[act.id], proposals[act.id],
    IF act.kind = "approve" THEN pages[proposals[act.id].target] ELSE Absent>>

InboxCommit(id, plan) ==
  /\ drafts' = [drafts EXCEPT ![id] = plan.draft]
  /\ proposals' = [proposals EXCEPT ![id] = plan.proposal]
  /\ pages' = IF plan.target = 0 THEN pages ELSE [pages EXCEPT ![plan.target] = plan.text]

InboxPreview(p, act) ==
  /\ act.kind \in Slow
  /\ Previews(p, act, 0, InboxPlan(act, Resolved), InboxSeen(act))
  /\ UNCHANGED inboxVars

InboxApply(p) ==
  /\ desk[p] # Idle
  /\ Applies(p, InboxPlan(desk[p].act, Resolved), InboxSeen(desk[p].act))
  /\ InboxCommit(desk[p].act.id, desk[p].plan)

(* run_action: preview and apply at once.                                  *)
InboxExecute(act) ==
  LET plan == InboxPlan(act, Resolved)
  IN /\ plan # Refused
     /\ InboxCommit(act.id, plan)
     /\ UNCHANGED deskVars

(* The page is edited outside the inbox, or made.                          *)
OutsideEdit(t) ==
  /\ pages' = [pages EXCEPT ![t] = IF @ = Absent THEN {Outside} ELSE @ \cup {Outside}]
  /\ pages' # pages
  /\ UNCHANGED <<drafts, proposals, deskVars>>

InboxStep ==
  \/ \E i \in Proposal : \E act \in InboxActs(i) :
       InboxExecute(act) \/ \E p \in Process : InboxPreview(p, act)
  \/ \E p \in Process : InboxApply(p)
  \/ \E t \in Page : OutsideEdit(t)

InboxNext ==
  \/ InboxStep
  \/ (\E p \in Process : Abandon(p)) /\ UNCHANGED inboxVars
  \/ ChangeMembers /\ UNCHANGED inboxVars

InboxSpec == DeskInit /\ InboxInit /\ [][InboxNext]_<<deskVars, inboxVars>>

----------------------------------------------------------------------------
Contribution == (Proposal \X (0 .. MaxRepairs)) \cup {Outside}
States == {"pending", "approved", "rejected", "withdrawn", "stale"}

(* Types: pages hold contributions, every proposal is of a page and in a   *)
(* state of the inbox, and no id is a draft and a proposal at once.        *)
InboxTypeOK ==
  /\ pages \in [Page -> (SUBSET Contribution) \cup {Absent}]
  /\ \A i \in Proposal :
       /\ drafts[i] = NoRecord \/ proposals[i] = NoRecord
       /\ drafts[i] # NoRecord => drafts[i].input.text \subseteq Contribution
       /\ proposals[i] # NoRecord =>
            /\ proposals[i].status \in States
            /\ proposals[i].target \in Page
            /\ proposals[i].text \subseteq Contribution

(* An approval of a proposal whose writer pinned the page they had read    *)
(* takes nothing off the page: whoever wrote there since is still on it,   *)
(* whichever preview the approval was applied from and whatever was        *)
(* approved, repaired or edited in between.  (Without a pin the page is    *)
(* first looked at when the draft is published, and an edit made before    *)
(* that is written over.)                                                  *)
ApprovalLosesNothing ==
  [][\A i \in Proposal :
       (Pending(i) /\ proposals[i].pinned /\ proposals'[i].status = "approved")
         => \A t \in Page : pages[t] # Absent => pages[t] \subseteq pages'[t]]_<<pages, proposals>>

(* Nobody is the only one to have looked at what an approval wrote unless  *)
(* they said so: who approves without self-approval is neither the author  *)
(* nor anyone who repaired the text.  (Who saves another's draft again is  *)
(* not its author: see the README.)                                        *)
FourEyes ==
  \A i \in Proposal :
    LET q == proposals[i]
    IN (q # NoRecord /\ q.status = "approved" /\ ~q.selfApproved)
         => /\ q.decidedBy \in Member
            /\ q.decidedBy # q.author
            /\ q.decidedBy = q.writer => q.repairs = 0
=============================================================================
