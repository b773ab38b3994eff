------------------------------ MODULE CatchUp -------------------------------
(***************************************************************************)
(* Catch-up (src/team/catchup.rs): a digest lists what changed between a   *)
(* member's cursor and the instant of the digest; marking moves the cursor *)
(* to that instant, to another, or to now.  A digest is read page by page. *)
(* The sources modelled are the relays and the activity records of         *)
(* acknowledging and closing them; the log, wiki and proposal sources      *)
(* filter by the same window.                                              *)
(***************************************************************************)
EXTENDS TeamRelay

CONSTANTS
  Reader,          \* bound: the members who catch up
  Branch,
  NoCursor,
  NoPage,
  DefaultWindow,   \* how far back a digest without a cursor goes
  MaxPerSource     \* MAX_PER_SOURCE: what is read of each source

ASSUME CatchUpAssumption ==
  Reader \subseteq Member /\ DefaultWindow \in Nat /\ MaxPerSource \in Nat

VARIABLES
  branch,     \* that of the checkout
  cursor,     \* reader -> local/catch-up/member-<id>.json
  paging,     \* reader -> nextCursor of the page read last: its corpus and what is left of it
  known,      \* history: reader -> entries listed, or come too late to be listed
  cut,        \* history: reader -> entries beyond the bound of their source when their time was read
  covered,    \* history: reader -> digests have covered all between passed and here
  passed      \* history: reader -> the cursor was put here without reading

catchUpVars == <<branch, cursor, paging, known, cut, covered, passed>>

CatchUpInit ==
  /\ branch \in Branch
  /\ cursor = [m \in Reader |-> NoCursor]
  /\ paging = [m \in Reader |-> NoPage]
  /\ known = [m \in Reader |-> {}]
  /\ cut = [m \in Reader |-> {}]
  /\ covered = [m \in Reader |-> 0]
  /\ passed = [m \in Reader |-> 0]

----------------------------------------------------------------------------
(* The digest.  A source is read newest first and no further than its      *)
(* bound, whatever the window.                                             *)
Item(source, r, s) == [source |-> source, relay |-> r, status |-> s]
Stamp(i) == relays[i.relay].stamps[i.status]

RelayItems == {Item("relay", r, relays[r].status) : r \in Sent}

(* relay.publish is left to the relay source.                              *)
ActivityItems ==
  UNION {{Item("activity", r, s) : s \in DOMAIN relays[r].stamps \ {"published"}} : r \in Sent}

Items == RelayItems \cup ActivityItems

(* The entry of an item in a list: its id and the time it is listed at.  A *)
(* relay keeps its id whatever becomes of it.                              *)
Entry(i) ==
  [source |-> i.source, relay |-> i.relay,
   status |-> IF i.source = "activity" THEN i.status ELSE "any", at |-> Stamp(i)]

Newest(source) ==
  {i \in source :
     Cardinality({j \in source : \/ Stamp(j) > Stamp(i)
                                 \/ Stamp(j) = Stamp(i) /\ j.relay < i.relay}) < MaxPerSource}

Actor(i) ==
  IF i.source = "relay" THEN relays[i.relay].sender
  ELSE IF i.status = "acknowledged" THEN relays[i.relay].claimant
  ELSE relays[i.relay].closer

Concerns(m, i) == Actor(i) # m /\ (i.source = "relay" => Addressed(i.relay, m))

Contains(base, t) == base < t /\ t <= clock

(* Mutant of Changed: a relay counts by when it was made only.             *)
ChangedOnceMade(i, base) ==
  Contains(base, IF i.source = "relay" THEN relays[i.relay].stamps["published"] ELSE Stamp(i))

Changed(i, base) ==
  \/ Contains(base, Stamp(i))
  \/ i.source = "relay" /\ Contains(base, relays[i.relay].stamps["published"])

Waiting(m, i) ==
  i.source = "relay" /\ i.status = "published" /\ m \in relays[i.relay].to

Digest(m, base) ==
  {i \in Newest(RelayItems) \cup Newest(ActivityItems) :
     Concerns(m, i) /\ (Changed(i, base) \/ Waiting(m, i))}

CutOff == Items \ (Newest(RelayItems) \cup Newest(ActivityItems))

(* The window starts at the cursor, without one a few days ago.  (--since  *)
(* reads another window and is not marked from.)                           *)
Baseline(m) ==
  IF cursor[m] # NoCursor THEN cursor[m].at ELSE clock - DefaultWindow

(* The order of a list: handoffs first, in a group the newest first; ties  *)
(* are broken by ids.                                                      *)
Before(e, f) ==
  \/ e.source = "relay" /\ f.source = "activity"
  \/ e.source = f.source /\ e.at > f.at

(* What the cursor of a page binds: where the window starts and the whole  *)
(* list.                                                                   *)
Corpus(m) ==
  [base |-> Baseline(m), entries |-> {Entry(i) : i \in Digest(m, Baseline(m))}]

(* What the digest cuts off, and does not say that it does.                *)
CutFor(m) == {Entry(i) : i \in {j \in CutOff : Concerns(m, j) /\ Stamp(j) > covered[m]}}

(* A page lists some of what is left; with the last page of a digest that  *)
(* starts within what was covered, all is covered up to its instant.       *)
Lists(m, left) ==
  \E shown \in SUBSET left :
    /\ left # {} => shown # {}
    /\ \A e \in shown, f \in left \ shown : ~Before(f, e)
    /\ known' = [known EXCEPT ![m] = @ \cup {e \in shown : e.at > passed[m]}]
    /\ paging' = [paging EXCEPT ![m] =
                  IF shown = left THEN NoPage ELSE [corpus |-> Corpus(m), left |-> left \ shown]]
    /\ IF shown = left /\ Baseline(m) <= covered[m]
         THEN /\ covered' = [covered EXCEPT ![m] = clock]
              /\ cut' = [cut EXCEPT ![m] = @ \cup CutFor(m)]
         ELSE UNCHANGED <<covered, cut>>

(* catch-up, and catch-up --cursor: refused once the list has changed.     *)
Reads(m) ==
  /\ m = Resolved
  /\ m \in Reader
  /\ \/ Lists(m, Corpus(m).entries)
     \/ paging[m] # NoPage /\ paging[m].corpus = Corpus(m) /\ Lists(m, paging[m].left)
  /\ UNCHANGED <<branch, cursor, passed, relayVars, deskVars>>

----------------------------------------------------------------------------
(* Mutant of Mark: the time given is taken for a wish.                     *)
MarkNow(m, t) ==
  /\ cursor[m] # NoCursor => cursor[m].branch = branch /\ t >= cursor[m].at
  /\ cursor' = [cursor EXCEPT ![m] = [at |-> clock, branch |-> branch]]

(* catchup.mark at t: on the branch of the cursor, and never backwards.    *)
Mark(m, t) ==
  /\ cursor[m] # NoCursor => cursor[m].branch = branch /\ t >= cursor[m].at
  /\ cursor' = [cursor EXCEPT ![m] = [at |-> t, branch |-> branch]]

(* catchup.reset to t, or to no cursor at all.                             *)
Reset(m, t) == cursor' = [cursor EXCEPT ![m] = [at |-> t, branch |-> branch]]
Clear(m) == cursor' = [cursor EXCEPT ![m] = NoCursor]

(* The reader moves to t: if that is beyond what digests have covered, all *)
(* before t is passed, and nothing known of it matters any more.           *)
Goes(m, t) ==
  IF t <= covered[m] THEN UNCHANGED <<known, cut, covered, passed>>
  ELSE /\ passed' = [passed EXCEPT ![m] = t]
       /\ covered' = [covered EXCEPT ![m] = t]
       /\ known' = [known EXCEPT ![m] = {e \in @ : e.at > t}]
       /\ cut' = [cut EXCEPT ![m] = {e \in @ : e.at > t}]

MovesCursor(m) ==
  /\ m = Resolved
  /\ m \in Reader
  /\ \/ \E t \in 0 .. clock : (Mark(m, t) \/ Reset(m, t)) /\ Goes(m, t)
     \/ Clear(m) /\ UNCHANGED <<known, cut, covered, passed>>
  /\ UNCHANGED <<branch, paging, relayVars, deskVars>>

Checkout(b) ==
  /\ branch' = b
  /\ branch' # branch
  /\ UNCHANGED <<cursor, paging, known, cut, covered, passed, relayVars, deskVars>>

(* What a relay operation writes with a stamp that a digest has covered    *)
(* already: it was previewed before and applied after, as a git pull also  *)
(* brings records older than the digest.                                   *)
RelayStep ==
  /\ \/ \E r \in Relay : \E act \in RelayActs(r) :
          RelayExecute(act) \/ \E p \in Process : RelayPreview(p, act)
     \/ \E p \in Process : RelayApply(p)
  /\ known' = [m \in Reader |->
                 known[m] \cup {Entry(i)' : i \in {j \in Items' \ Items : Stamp(j)' <= covered[m]}}]
  /\ UNCHANGED <<branch, cursor, paging, cut, covered, passed>>

CatchUpNext ==
  \/ RelayStep
  \/ \E m \in Reader : Reads(m) \/ MovesCursor(m)
  \/ \E b \in Branch : Checkout(b)
  \/ Tick /\ UNCHANGED catchUpVars
  \/ (\E p \in Process : Abandon(p)) /\ UNCHANGED <<relayVars, catchUpVars>>
  \/ ChangeMembers /\ UNCHANGED <<relayVars, catchUpVars>>

CatchUpSpec ==
  DeskInit /\ RelayInit /\ CatchUpInit /\ [][CatchUpNext]_<<deskVars, relayVars, catchUpVars>>

----------------------------------------------------------------------------
(* Types: a cursor is an instant that has been, on a branch.               *)
CatchUpTypeOK ==
  /\ branch \in Branch
  /\ \A m \in Reader :
       /\ cursor[m] # NoCursor => cursor[m].at \in 0 .. clock /\ cursor[m].branch \in Branch
       /\ covered[m] \in 0 .. clock
       /\ passed[m] \in 0 .. clock

(* Nothing is skipped: what concerns a member and lies behind their cursor *)
(* was listed to them, on one page or another, unless they moved the       *)
(* cursor past it unread, it was beyond the bound of its source (which     *)
(* catch_up_digest cuts off without a word, so that a cursor may pass what *)
(* the member never saw), or it arrived with a time that a digest had      *)
(* covered already.  However pages, marks, resets, held previews and       *)
(* changes of branch alternate.                                            *)
NothingIsSkipped ==
  \A m \in Reader : cursor[m] # NoCursor =>
    \A i \in Items :
      (Concerns(m, i) /\ passed[m] < Stamp(i) /\ Stamp(i) <= cursor[m].at)
        => Entry(i) \in known[m] \cup cut[m]
=============================================================================
