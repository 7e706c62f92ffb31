------------------------ MODULE TradeRoomRefinement ------------------------
(***************************************************************************)
(* The trade room as an implementation of Agreement: the parties are the   *)
(* sides, the consents are the acceptances ever written, the phase is what *)
(* the room's status says, a party's accounts are those its collector can  *)
(* prove, and the trade and the goods are the chain's.  The requests and   *)
(* what they have loaded, the wallets, the picks, the relays, the expiry   *)
(* and the recorded transaction are hidden.                                *)
(***************************************************************************)
EXTENDS TradeRoomHistory

PhaseOf(status) ==
    CASE status \in {"open", "building"}     -> "draft"
      [] status \in {"accepted", "signing"}  -> "agreed"
      [] status = "sealed"                   -> "done"
      [] OTHER                               -> "off"

Executed == \E i \in DOMAIN relays : relays[i].executed

Owns == [s \in Side |-> SourcesOf(sides[s].user)]

Abstract == INSTANCE Agreement WITH
    Party <- Side, Good <- Moments, Account <- Accounts,
    version <- room.version, consents <- everAccepted,
    phase <- PhaseOf(room.status), traded <- Executed,
    owns <- Owns, at <- at, went <- went, receipt <- receipt

-----------------------------------------------------------------------------

(* Every step of every handler, on whatever it read and however late, and  *)
(* every move of a moment by its owner, is a step of the agreement or      *)
(* none: a room is executable only at a version each side has accepted,    *)
(* only an edit takes it out of a seal or a cancellation, no swap of the   *)
(* room is executed before an agreement, and what a report seals is an     *)
(* agreed room, on terms whose goods have changed hands on the chain.      *)
FollowsAgreement == [][Abstract!Next]_(Abstract!vars)

(* The same of whole behaviours, from a room that was just opened.         *)
ImplementsAgreement == Abstract!Init /\ FollowsAgreement
=============================================================================
