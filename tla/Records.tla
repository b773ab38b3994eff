------------------------------ MODULE Records ------------------------------
(***************************************************************************)
(* The records a project keeps beside its code: the inbox, the relays with *)
(* the catch-up over them, the workstreams and playbooks, the pages that   *)
(* wiki operations change, and the index of the pages.  What they share is *)
(* the members and the desk; an action of one leaves the others' records   *)
(* alone (a page that a wiki operation changes under a proposal is         *)
(* OutsideEdit of TeamInbox, an edit by hand under a wiki operation is     *)
(* HandEdit, and any write of a page under the index is EditDocument).     *)
(* So a behaviour exercises one of them, and the others stay as they were, *)
(* the index without files.                                                *)
(***************************************************************************)
EXTENDS TeamInbox, CatchUp, TeamWork, WikiOperations, WikiIndex

VARIABLE
  area      \* which records this behaviour exercises

recordVars == <<deskVars, inboxVars, relayVars, catchUpVars, workVars, wikiVars, indexVars,
                area>>

RecordsInit ==
  /\ DeskInit
  /\ InboxInit
  /\ RelayInit
  /\ CatchUpInit
  /\ WorkInit
  /\ WikiInit
  /\ IndexInit
  /\ \/ area = "index"
     \/ area \in {"inbox", "relay", "work", "wiki"} /\ Disk!Present = {}

RecordsNext ==
  \/ /\ area = "inbox" /\ InboxNext
     /\ UNCHANGED <<relayVars, catchUpVars, workVars, wikiVars, indexVars, area>>
  \/ /\ area = "relay" /\ CatchUpNext
     /\ UNCHANGED <<inboxVars, workVars, wikiVars, indexVars, area>>
  \/ /\ area = "work" /\ WorkNext
     /\ UNCHANGED <<inboxVars, relayVars, catchUpVars, wikiVars, indexVars, area>>
  \/ /\ area = "wiki" /\ WikiNext
     /\ UNCHANGED <<deskVars, inboxVars, relayVars, catchUpVars, workVars, indexVars, area>>
  \/ /\ area = "index" /\ IndexNext
     /\ UNCHANGED <<deskVars, inboxVars, relayVars, catchUpVars, workVars, wikiVars, area>>

RecordsSpec == RecordsInit /\ [][RecordsNext]_recordVars

----------------------------------------------------------------------------
(* Every record keeps its type.                                            *)
RecordsTypeOK ==
  /\ DeskTypeOK
  /\ InboxTypeOK
  /\ RelayTypeOK
  /\ CatchUpTypeOK
  /\ WorkTypeOK
  /\ WikiTypeOK
  /\ IndexTypeOK
=============================================================================
