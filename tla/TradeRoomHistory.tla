-------------------------- MODULE TradeRoomHistory --------------------------
(***************************************************************************)
(* TradeRoom with a memory, for the properties about what was accepted,    *)
(* which edits succeeded and where the moments of a seal have been.  The   *)
(* history only watches: every step of TradeRoom is a step here, with one  *)
(* value for the five variables.                                           *)
(***************************************************************************)
EXTENDS TradeRoom

VARIABLES
    everAccepted,  \* the <<side, version>> acceptances ever written
    accepts,       \* side -> the proposal its last acceptance was checked on
    edits,         \* the versions successful edits started from, in order
    went,          \* <<moment, x, y>>: it was in account x and then in y
    receipt        \* what the last report that sealed the room was checked on

hvars == <<vars, everAccepted, accepts, edits, went, receipt>>

NewAcceptances ==
    {<<s, sides'[s].accepted>> : s \in {t \in Side : sides'[t].accepted # None}}

(* Request r is the one that writes side s's acceptance in this step.      *)
Accepting(r, s) ==
    /\ Loaded(r, "accept") /\ InRoom(r)
    /\ Me(r) = s
    /\ Accept(r)

(* Request r is a report of a seal, and the one that writes it.            *)
Sealing(r) == At(r, "seal") /\ reqs[r].kind = "sealed" /\ CanSeal /\ MarkSealed(r)

(* What a request loaded: what each side gives, and where it is to go.     *)
Terms(q) == [s \in Side |-> [to |-> q.sides[Other(s)].source, gives |-> q.items[s]]]

Blank == [s \in Side |-> [to |-> None, gives |-> {}]]

(* Where a moment has been before the place it is in, that place included. *)
BeenIn(m) == {x \in Accounts : <<m, x, at[m]>> \in went}

Remember ==
    /\ everAccepted' = everAccepted \cup NewAcceptances
    /\ accepts' = [s \in Side |->
         IF \E r \in Slots : Accepting(r, s)
         THEN LET r == CHOOSE r \in Slots : Accepting(r, s)
              IN  Voucher(reqs[r].sides, reqs[r].items)
         ELSE accepts[s]]
    /\ edits' = IF \E r \in Slots : At(r, "touch") /\ At(r, "reset")'
                THEN LET r == CHOOSE r \in Slots : At(r, "touch") /\ At(r, "reset")'
                     IN  Append(edits, reqs[r].room.version)
                ELSE edits
    /\ went' = went \cup
         UNION {{<<m, x, at'[m]>> : x \in BeenIn(m) \cup {at'[m]}} : m \in Moments}
    /\ receipt' = IF \E r \in Slots : Sealing(r)
                  THEN LET r == CHOOSE r \in Slots : Sealing(r) IN Terms(reqs[r])
                  ELSE receipt

HInit ==
    /\ Init
    /\ everAccepted = {}
    /\ accepts = [s \in Side |-> None]
    /\ edits = << >>
    /\ went = {<<m, at[m], at[m]>> : m \in Moments}
    /\ receipt = Blank

HNext == Next /\ Remember

HSpec == HInit /\ [][HNext]_hvars

-----------------------------------------------------------------------------

(* The room is executable, or done, only at a version that each side has   *)
(* accepted: no interleaving of edits, acceptances, withdrawals, failed    *)
(* requests and locks makes it so at any other.                            *)
ExecutableIsAgreed ==
    room.status \in {"accepted", "signing", "sealed"} =>
        \A s \in Side : <<s, room.version>> \in everAccepted

(* "two concurrent edits cannot both believe they won": no two successful  *)
(* edits started from the same version.                                    *)
OneEditPerVersion == IsInjective(edits)

(* The accounts a collector has proven, or could prove.                    *)
SourcesOf(user) == IF user \in Users THEN {w.source : w \in Wallets[user]} ELSE {}

(* The chain has carried the goods of terms t: each has been in an account *)
(* of the collector who gives it and, after that, in the one it was to go  *)
(* to.                                                                     *)
HandedOver(t) ==
    /\ \E s \in Side : t[s].gives # {}
    /\ \A s \in Side : \A m \in t[s].gives :
          \E x \in SourcesOf(sides[s].user) : <<m, x, t[s].to>> \in went

(* A seal is what a client reports, with any transaction id, and it stands *)
(* over later edits and repeated by later requests.  However those mix,    *)
(* and however moments move outside the room, the room is sealed only when *)
(* goods the two had put up in it did change hands.                        *)
SealedIsHandedOver == room.status = "sealed" => HandedOver(receipt)

(* "nobody can be held to a proposal that changed under them": while an    *)
(* executable room counts side s's acceptance, the proposal is the one the *)
(* acceptance was checked on.                                              *)
HeldToWhatWasAccepted ==
    room.status \in {"accepted", "signing"} =>
        \A s \in Side : sides[s].accepted = room.version
                            => accepts[s] = Voucher(sides, items)
=============================================================================
