----------------------------- MODULE Agreement -----------------------------
(***************************************************************************)
(* What a trade room promises the two parties, with no request, table,     *)
(* wallet, relay or clock: a proposal has versions; a party consents to a  *)
(* version; the proposal is agreed only while it stands at a version every *)
(* party has consented to, and an edit makes it a draft of the next one;   *)
(* the trade is carried out only if some version was agreed; and only an   *)
(* agreed proposal is recorded as done, against a receipt of goods that    *)
(* did change hands.  A proposal that is done or called off comes back     *)
(* only as another version.                                                *)
(*                                                                         *)
(* The owners of the goods move them as they like, with or without the     *)
(* trade, and a receipt may be of terms that were edited since.            *)
(***************************************************************************)
EXTENDS Naturals

CONSTANTS Party, Good, Account

VARIABLES
    version,   \* of the proposal as it stands
    consents,  \* the <<party, version>> pairs consented to so far
    phase,     \* of the proposal: "draft", "agreed", "done" or "off"
    traded,    \* whether the trade has been carried out
    owns,      \* party -> its accounts; none before the party has come
    at,        \* good -> the account it is in
    went,      \* <<good, x, y>>: it was in account x and then in y
    receipt    \* the terms the proposal was last recorded as done on

vars == <<version, consents, phase, traded, owns, at, went, receipt>>

Agreed(v) == \A p \in Party : <<p, v>> \in consents

HandedOver(terms) ==
    /\ \E p \in Party : terms[p].gives # {}
    /\ \A p \in Party : \A g \in terms[p].gives :
          \E x \in owns[p] : <<g, x, terms[p].to>> \in went

Init ==
    /\ version = 1
    /\ consents = {}
    /\ phase = "draft"
    /\ traded = FALSE
    /\ owns \in [Party -> SUBSET Account]
    /\ at \in [Good -> Account]
    /\ went = {<<g, at[g], at[g]>> : g \in Good}
    /\ \A p \in Party : receipt[p].gives = {}

(* A party takes its place, with the accounts that are its own.            *)
Come(p) ==
    /\ owns[p] = {}
    /\ \A q \in Party \ {p} : owns'[q] = owns[q]
    /\ UNCHANGED <<version, consents, phase, traded, at, went, receipt>>

(* A consent may arrive after an edit: it is of the version it was given.  *)
Consent(p, v) ==
    /\ consents' = consents \cup {<<p, v>>}
    /\ UNCHANGED <<version, phase, traded, owns, at, went, receipt>>

Edit ==
    /\ version' = version + 1
    /\ phase' = "draft"
    /\ UNCHANGED <<consents, traded, owns, at, went, receipt>>

Turn(from, to) ==
    /\ phase \in from
    /\ phase' = to
    /\ UNCHANGED <<version, consents, traded, owns, at, went>>

Agree == Agreed(version) /\ Turn({"draft"}, "agreed") /\ UNCHANGED receipt
Withdraw == Turn({"agreed"}, "draft") /\ UNCHANGED receipt
CallOff == Turn({"draft", "agreed"}, "off") /\ UNCHANGED receipt

(* A second report may replace the receipt.                                *)
Finish == Turn({"agreed", "done"}, "done") /\ HandedOver(receipt')

(* Goods change places, and where each has been is remembered.             *)
Move ==
    /\ at' \in [Good -> Account]
    /\ went' = went \cup
         UNION {{<<g, x, at'[g]>> : x \in {y \in Account : <<g, y, at[g]>> \in went}
                                           \cup {at'[g]}} : g \in Good}
    /\ UNCHANGED <<version, consents, phase, owns, receipt>>

MoveOutside == Move /\ UNCHANGED traded

Trade ==
    /\ \E v \in 1..version : Agreed(v)
    /\ traded' = TRUE
    /\ Move

Next ==
    \/ \E p \in Party : Come(p)
    \/ \E p \in Party, v \in 1..version : Consent(p, v)
    \/ Edit \/ Agree \/ Withdraw \/ CallOff \/ Finish
    \/ MoveOutside \/ Trade

Spec == Init /\ [][Next]_vars
=============================================================================
