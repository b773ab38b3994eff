----------------------------- MODULE TeamRelay -----------------------------
(***************************************************************************)
(* Relays (src/team/relay.rs): a member hands work over to named members   *)
(* or to the team; one of those addressed acknowledges, which claims it,   *)
(* and sender or claimant closes it.  Records carry the time of their      *)
(* preview, which may be older than the time they are written at.          *)
(***************************************************************************)
EXTENDS TeamDesk

CONSTANTS
  Relay,       \* ids of relay drafts, and of the relays they become
  NoRelay,
  Audience,    \* bound: the [team, to] a draft may be addressed to
  MaxClock,    \* bound: the last instant
  SlowRelay    \* bound: the kinds of action a process sits on before it applies them

ASSUME RelayAssumption ==
  /\ Relay \subseteq Nat
  /\ MaxClock \in Nat
  /\ Audience \subseteq [team : BOOLEAN, to : SUBSET Member]

VARIABLES
  clock,
  relayDrafts,   \* local drafts
  relays         \* canonical relays

relayVars == <<clock, relayDrafts, relays>>

Instant == 0 .. MaxClock

RelayInit ==
  /\ clock = 0
  /\ relayDrafts = [r \in Relay |-> NoRelay]
  /\ relays = [r \in Relay |-> NoRelay]

Sent == {r \in Relay : relays[r] # NoRelay}

(* updated_at                                                              *)
Updated(r) == relays[r].stamps[relays[r].status]

(* Who may acknowledge, and whose digest lists it.                         *)
Addressed(r, m) == relays[r].team \/ m \in relays[r].to

----------------------------------------------------------------------------
Saved(d, r) == [draft |-> d, relay |-> r]

SaveRelayDraft(act, actor) ==
  LET d == relayDrafts[act.id]
  IN IF relays[act.id] # NoRelay \/ ~(act.audience.to \subseteq Active) THEN Refused
     ELSE Saved([sender |-> IF d = NoRelay THEN actor ELSE d.sender,
                 team |-> act.audience.team, to |-> act.audience.to], NoRelay)

DeleteRelayDraft(act) ==
  IF relayDrafts[act.id] = NoRelay THEN Refused ELSE Saved(NoRelay, relays[act.id])

PublishRelay(act, actor, now) ==
  LET d == relayDrafts[act.id]
  IN IF d = NoRelay \/ actor \notin Active THEN Refused
     ELSE IF (~d.team /\ d.to = {}) \/ ~(d.to \subseteq Active) THEN Refused
     ELSE Saved(NoRelay,
            [sender |-> actor, team |-> d.team, to |-> d.to, status |-> "published",
             claimant |-> Nobody, closer |-> Nobody, stamps |-> [published |-> now]])

(* The state and the time it was reached at, and by whom.                  *)
Moved(relay, s, who, actor, now) ==
  [relay EXCEPT !.status = s, ![who] = actor,
                !.stamps = [x \in DOMAIN relay.stamps \cup {s} |->
                              IF x = s THEN now ELSE relay.stamps[x]]]

Moves(r, s, who, actor, now) ==
  Saved(relayDrafts[r], Moved(relays[r], s, who, actor, now))

Acknowledge(act, actor, now) ==
  LET r == act.id
  IN IF actor \notin Active \/ relays[r] = NoRelay THEN Refused
     ELSE IF relays[r].status # "published" \/ ~Addressed(r, actor) THEN Refused
     ELSE Moves(r, "acknowledged", "claimant", actor, now)

CloseRelay(act, actor, now) ==
  LET r == act.id
      hands == {relays[r].sender, relays[r].claimant}
  IN IF actor \notin Active \/ relays[r] = NoRelay THEN Refused
     ELSE IF relays[r].status # "acknowledged" THEN Refused
     ELSE IF ~(hands \subseteq Active) \/ actor \notin hands THEN Refused
     ELSE Moves(r, "closed", "closer", actor, now)

RelayPlan(act, actor, now) ==
  CASE act.kind = "relay.save" -> SaveRelayDraft(act, actor)
    [] act.kind = "relay.delete" -> DeleteRelayDraft(act)
    [] act.kind = "relay.publish" -> PublishRelay(act, actor, now)
    [] act.kind = "relay.acknowledge" -> Acknowledge(act, actor, now)
    [] act.kind = "relay.close" -> CloseRelay(act, actor, now)

RelayActs(r) ==
  {[kind |-> "relay.save", id |-> r, audience |-> a] : a \in Audience}
    \cup {[kind |-> k, id |-> r] : k \in {"relay.delete", "relay.publish",
                                          "relay.acknowledge", "relay.close"}}

(* Publishing reads the files of the recipients.                           *)
RelaySeen(act) ==
  <<relayDrafts[act.id], relays[act.id],
    IF act.kind = "relay.publish" /\ relayDrafts[act.id] # NoRelay
      THEN [m \in relayDrafts[act.id].to |-> status[m]] ELSE <<>> >>

(* publish_relay_draft: a checkout without a member publishes as the       *)
(* sender of the draft.                                                    *)
PublishesFor(act, actor) ==
  IF /\ act.kind = "relay.publish" /\ actor = Nobody
     /\ relayDrafts[act.id] # NoRelay
    THEN IF relayDrafts[act.id].sender \in Active THEN relayDrafts[act.id].sender ELSE actor
  ELSE actor

RelayCommit(r, plan) ==
  /\ relayDrafts' = [relayDrafts EXCEPT ![r] = plan.draft]
  /\ relays' = [relays EXCEPT ![r] = plan.relay]
  /\ UNCHANGED clock

RelayPreview(p, act) ==
  /\ act.kind \in SlowRelay
  /\ Previews(p, act, clock, RelayPlan(act, Resolved, clock), RelaySeen(act))
  /\ UNCHANGED relayVars

RelayApply(p) ==
  /\ desk[p] # Idle
  /\ desk[p].act.kind \in SlowRelay
  /\ Applies(p, RelayPlan(desk[p].act, Resolved, desk[p].stamp), RelaySeen(desk[p].act))
  /\ RelayCommit(desk[p].act.id, desk[p].plan)

RelayExecute(act) ==
  LET plan == RelayPlan(act, PublishesFor(act, Resolved), clock)
  IN plan # Refused /\ RelayCommit(act.id, plan) /\ UNCHANGED deskVars

Tick ==
  /\ clock < MaxClock
  /\ clock' = clock + 1
  /\ UNCHANGED <<relayDrafts, relays, deskVars>>

RelayStates == {"published", "acknowledged", "closed"}

(* Types: a relay has an active claimant and closer when its state says    *)
(* so, and no stamp is of the future.                                      *)
RelayTypeOK ==
  /\ clock \in Instant
  /\ \A r \in Relay : relayDrafts[r] = NoRelay \/ relays[r] = NoRelay
  /\ \A r \in Sent :
       /\ relays[r].status \in RelayStates
       /\ relays[r].status \in DOMAIN relays[r].stamps
       /\ \A x \in DOMAIN relays[r].stamps : relays[r].stamps[x] <= clock
       /\ relays[r].sender \in Member
       /\ relays[r].status # "published" <=> relays[r].claimant \in Member
       /\ relays[r].status = "closed" <=> relays[r].closer \in Member
=============================================================================
