----------------------------- MODULE TradeRoom -----------------------------
(***************************************************************************)
(* One trade room: lib/trade-room/store.ts and the POST handler of         *)
(* app/api/trade-room/[code]/route.ts, with the co-signer relay of         *)
(* lib/swap-test/relay.ts.  Two collectors prove a wallet, pick the        *)
(* moments they give, accept the version of the proposal they look at, and *)
(* sign one swap transaction.                                              *)
(*                                                                         *)
(* The handlers run concurrently and no database transaction spans two     *)
(* statements: a request loads the room (three reads), decides on what it  *)
(* loaded, and writes one statement at a time.  Each action below is one   *)
(* statement with the checks that run between it and the one before.  At   *)
(* any point a request may stop for good: a check refuses it, a statement  *)
(* or a chain read fails, or the function is killed; all of it is Fail.    *)
(* Reads whose result a handler does not use are left out.                 *)
(***************************************************************************)
EXTENDS Naturals, Sequences, FiniteSets, Functions

CONSTANTS
    Users,        \* signed-in collectors
    Creator,      \* the one who opened the room
    Accounts,     \* Flow accounts
    Wallets,      \* user -> the [signer, source] pairs they can prove
    Moments,
    Picks,        \* the sets of moments a side may ask for
    HomeOf,       \* where a moment sits before any trade
    TxIds,        \* what has the form of a transaction id
    Slots,        \* request slots: how many handlers run at once
    None,         \* SQL NULL, an absent row, a table not read yet, an idle slot
    MaxRequests,  \* bound: requests started and moments moved outside the swap
    MaxRelays     \* bound: signing attempts

ASSUME WalletAssumption ==
    /\ Creator \in Users
    /\ Wallets \in [Users -> SUBSET [signer : Accounts, source : Accounts]]
    /\ Picks \subseteq SUBSET Moments
    /\ HomeOf \in [Moments -> Accounts]

ASSUME BoundAssumption == MaxRelays \in Nat

ASSUME NullAssumption == None \notin Nat /\ None \notin Users \cup Accounts

Side == {"a", "b"}
Other(s) == IF s = "a" THEN "b" ELSE "a"

Kinds == {"join", "wallet", "items", "accept", "unaccept", "cancel",
          "relay_post", "relay_sign", "signing_ended", "sealed", "verify"}

VARIABLES
    room,      \* the trade_rooms row: status, version, tx
    expired,   \* expires_at has passed
    sides,     \* trade_room_sides: user None when there is no such row
    items,     \* trade_room_items
    relays,    \* trade_room_relay rows, oldest first
    at,        \* the chain: the account each moment sits in
    reqs,      \* slot -> the request it runs
    started    \* requests, and moves outside the swap, so far

db == <<room, expired, sides, items, relays>>
vars == <<room, expired, sides, items, relays, at, reqs, started>>

AbsentSide == [user |-> None, signer |-> None, source |-> None, accepted |-> None]

VoucherCrossed(theSides, theItems) ==
    [s \in Side |-> [signer |-> theSides[s].signer,
                     source |-> theSides[Other(s)].source,
                     gives  |-> theItems[s]]]

(* The voucher of the swap both wallets sign: who gives what from where.   *)
Voucher(theSides, theItems) ==
    [s \in Side |-> [signer |-> theSides[s].signer,
                     source |-> theSides[s].source,
                     gives  |-> theItems[s]]]

-----------------------------------------------------------------------------
(* Requests. *)

(* The handlers that decide on the items as well as the sides.             *)
UsesItems(kind) == kind \in {"items", "accept", "relay_post", "relay_sign",
                             "sealed", "verify"}

At(r, pc) == reqs[r] # None /\ reqs[r].pc = pc

(* All reads of loadRoom are in; pc still names none of the writes.        *)
Loaded(r, kind) ==
    /\ At(r, "load")
    /\ reqs[r].kind = kind
    /\ reqs[r].sides # None
    /\ UsesItems(kind) => reqs[r].items # None

Goto(r, pc) == reqs' = [reqs EXCEPT ![r].pc = pc]
End(r) == reqs' = [reqs EXCEPT ![r] = None]

InRoom(r) == \E s \in Side : reqs[r].sides[s].user = reqs[r].user

(* The caller's side, and the loaded rows of both.                         *)
Me(r) == CHOOSE s \in Side : reqs[r].sides[s].user = reqs[r].user
Mine(r) == reqs[r].sides[Me(r)]
Theirs(r) == reqs[r].sides[Other(Me(r))]

Editable(r) ==
    /\ ~expired
    /\ reqs[r].room.status \in {"open", "building", "accepted"}

BothProven(r) ==
    \A s \in Side : reqs[r].sides[s].signer # None /\ reqs[r].sides[s].source # None

(* A request starts by reading the room's row.                             *)
Start(r, kind, user, arg) ==
    /\ reqs[r] = None
    /\ started < MaxRequests
    /\ started' = started + 1
    /\ reqs' = [reqs EXCEPT ![r] = [kind |-> kind, user |-> user, arg |-> arg,
                                    pc |-> "load", room |-> room,
                                    sides |-> None, items |-> None]]
    /\ UNCHANGED <<db, at>>

(* The two remaining reads run in parallel.                                *)
ReadSides(r) ==
    /\ At(r, "load") /\ reqs[r].sides = None
    /\ reqs' = [reqs EXCEPT ![r].sides = sides]
    /\ UNCHANGED <<db, at, started>>

ReadItems(r) ==
    /\ At(r, "load") /\ reqs[r].items = None /\ UsesItems(reqs[r].kind)
    /\ reqs' = [reqs EXCEPT ![r].items = items]
    /\ UNCHANGED <<db, at, started>>

Fail(r) ==
    /\ reqs[r] # None
    /\ End(r)
    /\ UNCHANGED <<db, at, started>>

-----------------------------------------------------------------------------
(* join. *)

(* The insert: PRIMARY KEY (room_id, side), UNIQUE (room_id, user_id).     *)
InsertAdmitted(user) ==
    /\ sides["b"].user = None
    /\ \A s \in Side : sides[s].user # user

JoinRoom(r) ==
    /\ Loaded(r, "join")
    /\ ~InRoom(r)
    /\ Editable(r)
    /\ reqs[r].sides["b"].user = None
    /\ reqs[r].room.status = "open"
    /\ InsertAdmitted(reqs[r].user)
    /\ sides' = [sides EXCEPT !["b"].user = reqs[r].user]
    /\ Goto(r, "joined")
    /\ UNCHANGED <<room, expired, items, relays, at, started>>

JoinedStatus(r) ==
    /\ At(r, "joined")
    /\ room' = [room EXCEPT !.status = IF @ = "open" THEN "building" ELSE @]
    /\ End(r)
    /\ UNCHANGED <<expired, sides, items, relays, at, started>>

-----------------------------------------------------------------------------
(* wallet and items: write the side, then touch() the room. *)

SetWallet(r) ==
    /\ Loaded(r, "wallet")
    /\ InRoom(r)
    /\ Editable(r)
    /\ Theirs(r).signer # reqs[r].arg.signer
    /\ Theirs(r).source # reqs[r].arg.source
    /\ sides' = [sides EXCEPT ![Me(r)].signer = reqs[r].arg.signer,
                              ![Me(r)].source = reqs[r].arg.source]
    /\ Goto(r, IF Mine(r).source \notin {None, reqs[r].arg.source}
               THEN "clear" ELSE "touch")
    /\ UNCHANGED <<room, expired, items, relays, at, started>>

ClearItems(r) ==
    /\ At(r, "clear")
    /\ items' = [items EXCEPT ![Me(r)] = {}]
    /\ Goto(r, "touch")
    /\ UNCHANGED <<room, expired, sides, relays, at, started>>

(* checkRoomPicks() reads the chain.                                       *)
CheckPicks(r) ==
    /\ Loaded(r, "items")
    /\ InRoom(r)
    /\ Mine(r).source # None
    /\ \A m \in reqs[r].arg : at[m] = Mine(r).source
    /\ Goto(r, "save")
    /\ UNCHANGED <<db, at, started>>

SaveItems(r) ==
    /\ At(r, "save")
    /\ Editable(r)
    /\ reqs[r].arg \cap reqs[r].items[Other(Me(r))] = {}
    \* the upsert: UNIQUE (room_id, collection, moment_id)
    /\ reqs[r].arg \cap items[Other(Me(r))] = {}
    /\ items' = [items EXCEPT ![Me(r)] = @ \cup reqs[r].arg]
    /\ Goto(r, "prune")
    /\ UNCHANGED <<room, expired, sides, relays, at, started>>

PruneItems(r) ==
    /\ At(r, "prune")
    /\ items' = [items EXCEPT ![Me(r)] = @ \cap reqs[r].arg]
    /\ Goto(r, "touch")
    /\ UNCHANGED <<room, expired, sides, relays, at, started>>

(* touch(): the status written is the one LOADED.                          *)
TouchedStatus(loaded) == IF loaded.status = "accepted" THEN "building" ELSE loaded.status

TouchWithoutCondition(r) == TRUE

(* The bump is conditional on the version the caller loaded.               *)
TouchMatches(r) == room.version = reqs[r].room.version

Touch(r) ==
    /\ At(r, "touch")
    /\ TouchMatches(r)
    /\ room' = [room EXCEPT !.version = reqs[r].room.version + 1,
                            !.status = TouchedStatus(reqs[r].room)]
    /\ Goto(r, "reset")
    /\ UNCHANGED <<expired, sides, items, relays, at, started>>

ZeroVersion == 0

(* accepted_version of a side that has accepted nothing.                   *)
NotAccepted == None

ResetAcceptances(r) ==
    /\ At(r, "reset")
    /\ sides' = [s \in Side |-> [sides[s] EXCEPT !.accepted = NotAccepted]]
    /\ End(r)
    /\ UNCHANGED <<room, expired, items, relays, at, started>>

-----------------------------------------------------------------------------
(* accept, unaccept and cancel. *)

Accept(r) ==
    /\ Loaded(r, "accept")
    /\ InRoom(r)
    /\ Editable(r)
    /\ reqs[r].arg = reqs[r].room.version
    /\ BothProven(r)
    /\ \E s \in Side : reqs[r].items[s] # {}
    /\ sides' = [sides EXCEPT ![Me(r)].accepted = reqs[r].arg]
    /\ IF Theirs(r).accepted = reqs[r].arg THEN Goto(r, "lock") ELSE End(r)
    /\ UNCHANGED <<room, expired, items, relays, at, started>>

LockAnyVersion(r) == room.status = "building"
LockAnyStatus(r) == room.version = reqs[r].arg

CanLock(r) == room.version = reqs[r].arg /\ room.status = "building"

LockRoom(r) ==
    /\ At(r, "lock")
    /\ room' = IF CanLock(r) THEN [room EXCEPT !.status = "accepted"] ELSE room
    /\ End(r)
    /\ UNCHANGED <<expired, sides, items, relays, at, started>>

Unaccept(r) ==
    /\ Loaded(r, "unaccept")
    /\ InRoom(r)
    /\ Editable(r)
    /\ sides' = [sides EXCEPT ![Me(r)].accepted = NotAccepted]
    /\ IF reqs[r].room.status = "accepted" THEN Goto(r, "unlock") ELSE End(r)
    /\ UNCHANGED <<room, expired, items, relays, at, started>>

UnlockRoom(r) ==
    /\ At(r, "unlock")
    /\ room' = [room EXCEPT !.status = IF @ = "accepted" THEN "building" ELSE @]
    /\ End(r)
    /\ UNCHANGED <<expired, sides, items, relays, at, started>>

CancelRoom(r) ==
    /\ Loaded(r, "cancel")
    /\ InRoom(r)
    /\ reqs[r].room.status \notin {"sealed", "cancelled"}
    /\ room' = [room EXCEPT !.status = IF @ = "sealed" THEN @ ELSE "cancelled"]
    /\ End(r)
    /\ UNCHANGED <<expired, sides, items, relays, at, started>>

-----------------------------------------------------------------------------
(* Signing: the initiator posts the voucher, the other side signs it. *)

MarkSigning(r) ==
    /\ Loaded(r, "relay_post")
    /\ InRoom(r)
    /\ reqs[r].room.status \in {"accepted", "signing"}
    /\ BothProven(r)
    /\ room.version = reqs[r].room.version
    /\ room.status \in {"accepted", "signing"}
    /\ room' = [room EXCEPT !.status = "signing"]
    /\ Goto(r, "post")
    /\ UNCHANGED <<expired, sides, items, relays, at, started>>

(* Only the loaded room's own trade passes assertSignableMatchesRoom().    *)
PostSignable(r) ==
    /\ At(r, "post")
    /\ Len(relays) < MaxRelays
    /\ relays' = Append(relays,
            [cosigner |-> Theirs(r).signer,
             initiator |-> Me(r),
             voucher |-> Voucher(reqs[r].sides, reqs[r].items),
             signed |-> FALSE, fresh |-> TRUE, executed |-> FALSE])
    /\ End(r)
    /\ UNCHANGED <<room, expired, sides, items, at, started>>

(* getRelay() and the guard, against the room as loaded.                   *)
CheckRelay(r) ==
    /\ Loaded(r, "relay_sign")
    /\ InRoom(r)
    /\ reqs[r].room.status = "signing"
    /\ reqs[r].arg \in DOMAIN relays
    /\ LET relay == relays[reqs[r].arg] IN
        /\ relay.fresh
        /\ relay.cosigner = Mine(r).signer
        /\ BothProven(r)
        /\ relay.initiator = Other(Me(r))
        /\ relay.voucher = Voucher(reqs[r].sides, reqs[r].items)
    /\ Goto(r, "sign")
    /\ UNCHANGED <<db, at, started>>

PostSignature(r) ==
    /\ At(r, "sign")
    /\ relays[reqs[r].arg].fresh
    /\ ~relays[reqs[r].arg].signed
    /\ relays' = [relays EXCEPT ![reqs[r].arg].signed = TRUE]
    /\ End(r)
    /\ UNCHANGED <<room, expired, sides, items, at, started>>

MarkSigningEnded(r) ==
    /\ Loaded(r, "signing_ended")
    /\ InRoom(r)
    /\ room' = [room EXCEPT !.status = IF @ = "signing" THEN "accepted" ELSE @]
    /\ End(r)
    /\ UNCHANGED <<expired, sides, items, relays, at, started>>

-----------------------------------------------------------------------------
(* sealed and verify. *)

(* validateSwapInput(): what was loaded is a swap at all.                  *)
IsSwap(r) ==
    /\ BothProven(r)
    /\ Mine(r).signer # Theirs(r).signer
    /\ Mine(r).source # Theirs(r).source
    /\ \E s \in Side : reqs[r].items[s] # {}

ClaimedLanded(r, s) == TRUE

(* verifyRoom(), one leg: what side s gives sits in the other's account.   *)
Landed(r, s) == \A m \in reqs[r].items[s] : at[m] = reqs[r].sides[Other(s)].source

(* The two legs are read one after the other.                              *)
VerifyLanded(r) ==
    /\ Loaded(r, "sealed")
    /\ InRoom(r)
    /\ reqs[r].room.status \in {"signing", "accepted"}
    /\ IsSwap(r)
    /\ Landed(r, "a")
    /\ Goto(r, "landed")
    /\ UNCHANGED <<db, at, started>>

VerifyOther(r) ==
    /\ At(r, "landed")
    /\ Landed(r, "b")
    /\ Goto(r, "seal")
    /\ UNCHANGED <<db, at, started>>

(* verify re-records the seal it loaded, whatever the chain says now.      *)
VerifyAgain(r) ==
    /\ Loaded(r, "verify")
    /\ InRoom(r)
    /\ IsSwap(r)
    /\ reqs[r].room.status = "sealed"
    /\ reqs' = [reqs EXCEPT ![r].pc = "seal", ![r].arg = reqs[r].room.tx]
    /\ UNCHANGED <<db, at, started>>

SealAnyRoom == TRUE

CanSeal == room.status \in {"accepted", "signing", "sealed"}

MarkSealed(r) ==
    /\ At(r, "seal")
    /\ room' = IF CanSeal THEN [room EXCEPT !.status = "sealed", !.tx = reqs[r].arg]
                          ELSE room
    /\ End(r)
    /\ UNCHANGED <<expired, sides, items, relays, at, started>>

-----------------------------------------------------------------------------
(* The clock and the chain. *)

Expire ==
    /\ ~expired
    /\ expired' = TRUE
    /\ UNCHANGED <<room, sides, items, relays, at, reqs, started>>

(* RELAY_TTL_MS: the relay and its transaction go stale.                   *)
RelayExpires(i) ==
    /\ relays[i].fresh
    /\ relays' = [relays EXCEPT ![i].fresh = FALSE]
    /\ UNCHANGED <<room, expired, sides, items, at, reqs, started>>

(* The initiator's wallet submits the transaction both wallets signed: the *)
(* chain moves every moment of the voucher or none.                        *)
ExecuteSwap(i) ==
    LET v == relays[i].voucher IN
    /\ relays[i].signed /\ relays[i].fresh /\ ~relays[i].executed
    /\ \A s \in Side : \A m \in v[s].gives : at[m] = v[s].source
    /\ at' = [m \in Moments |->
                IF m \in v["a"].gives THEN v["b"].source
                ELSE IF m \in v["b"].gives THEN v["a"].source
                ELSE at[m]]
    /\ relays' = [relays EXCEPT ![i].executed = TRUE]
    /\ UNCHANGED <<room, expired, sides, items, reqs, started>>

(* The owners move moments as they like: a sale, a gift, a swap made       *)
(* elsewhere.                                                              *)
MoveOutside(m, account) ==
    /\ started < MaxRequests
    /\ started' = started + 1
    /\ at[m] # account
    /\ at' = [at EXCEPT ![m] = account]
    /\ UNCHANGED <<db, reqs>>

-----------------------------------------------------------------------------

(* createRoom() has returned its code; or decide(), of the trade block, has *)
(* opened the room for an accepted proposal and seated the proposer, guest. *)
Opened(guest) ==
    /\ room = [status |-> IF guest = None THEN "open" ELSE "building",
               version |-> 1, tx |-> None]
    /\ expired = FALSE
    /\ sides = [s \in Side |->
                  [AbsentSide EXCEPT !.user = IF s = "a" THEN Creator ELSE guest]]
    /\ items = [s \in Side |-> {}]
    /\ relays = << >>
    /\ at = HomeOf
    /\ reqs = [r \in Slots |-> None]
    /\ started = 0

Init == \E guest \in {None} \cup (Users \ {Creator}) : Opened(guest)

(* What a client may send: an acceptance names the version on its screen,  *)
(* a seal names any transaction, and none of the relays needs to exist.    *)
Args(kind, user) ==
    CASE kind = "wallet"     -> Wallets[user]
      [] kind = "items"      -> Picks
      [] kind = "accept"     -> {room.version}
      [] kind = "relay_sign" -> DOMAIN relays
      [] kind = "sealed"     -> TxIds
      [] OTHER               -> {None}

HandlerStep(r) ==
    \/ ReadSides(r) \/ ReadItems(r) \/ Fail(r)
    \/ JoinRoom(r) \/ JoinedStatus(r)
    \/ SetWallet(r) \/ ClearItems(r)
    \/ CheckPicks(r) \/ SaveItems(r) \/ PruneItems(r)
    \/ Touch(r) \/ ResetAcceptances(r)
    \/ Accept(r) \/ LockRoom(r) \/ Unaccept(r) \/ UnlockRoom(r) \/ CancelRoom(r)
    \/ MarkSigning(r) \/ PostSignable(r) \/ CheckRelay(r) \/ PostSignature(r)
    \/ MarkSigningEnded(r)
    \/ VerifyLanded(r) \/ VerifyOther(r) \/ VerifyAgain(r) \/ MarkSealed(r)

(* Idle slots are alike: a new request takes one of them.                  *)
Idle == {r \in Slots : reqs[r] = None}
FreeSlot == {r \in Idle : r = CHOOSE q \in Idle : TRUE}

Next ==
    \/ \E r \in FreeSlot, kind \in Kinds, user \in Users :
          \E arg \in Args(kind, user) : Start(r, kind, user, arg)
    \/ \E r \in Slots : HandlerStep(r)
    \/ Expire
    \/ \E m \in Moments, account \in Accounts : MoveOutside(m, account)
    \/ \E i \in DOMAIN relays : RelayExpires(i) \/ ExecuteSwap(i)

Spec == Init /\ [][Next]_vars

-----------------------------------------------------------------------------
(* Properties of the tables alone. *)

Statuses == {"open", "building", "accepted", "signing", "sealed", "cancelled"}

(* Every row has its columns' types; an acceptance is never of a version   *)
(* the room has not reached.                                               *)
TypeOK ==
    /\ room.status \in Statuses
    /\ room.version \in Nat \ {0}
    /\ room.tx \in {None} \cup TxIds
    /\ expired \in BOOLEAN
    /\ \A s \in Side :
        /\ sides[s].user \in Users \cup {None}
        /\ {sides[s].signer, sides[s].source} \subseteq Accounts \cup {None}
        /\ sides[s].accepted \in {None} \cup 1..room.version
        /\ items[s] \subseteq Moments
    /\ Len(relays) <= MaxRelays
    /\ at \in [Moments -> Accounts]

(* A sealed or cancelled proposal is never taken up again: only an edit,   *)
(* which makes it another version, brings such a room back.                *)
FinishedVersionStaysFinished ==
    [][room.status \in {"sealed", "cancelled"} /\ room'.status # room.status
            => room'.version > room.version]_vars

WalletOf(row) == [signer |-> row.signer, source |-> row.source]

(* Whatever was edited, joined or re-proven since, what is put up for      *)
(* signature takes each side's moments from, and pays into, an account     *)
(* that the collector in that side has proven together with the wallet     *)
(* that signs; no moment is given twice; the wallet asked is the other     *)
(* side's; and nothing is executed that it has not signed.                 *)
VouchersAreProven ==
    \A i \in DOMAIN relays : LET relay == relays[i] IN
        /\ \A s \in Side :
              /\ sides[s].user # None
              /\ WalletOf(relay.voucher[s]) \in Wallets[sides[s].user]
        /\ relay.voucher["a"].gives \cap relay.voucher["b"].gives = {}
        /\ relay.cosigner = relay.voucher[Other(relay.initiator)].signer
        /\ relay.executed => relay.signed
=============================================================================
