-------------------------- MODULE TradeRoomProofs --------------------------
(***************************************************************************)
(* What TLAPS proves of a trade room, for every set of collectors, wallets *)
(* and moments, any number of concurrent requests and every bound.         *)
(*                                                                         *)
(* What a request read earlier is what its later writes rest on, so the    *)
(* invariant says of each request in progress what its readings still      *)
(* guarantee: versions only grow, acceptances once written are history,    *)
(* an edit in progress was loaded from an editable room, a lock about to   *)
(* be set is of a version both sides have accepted (RequestOK).            *)
(***************************************************************************)
EXTENDS TradeRoomRefinement, TLAPS

Pairs == [signer : Accounts, source : Accounts]
ArgValues == {None} \cup Nat \cup TxIds \cup (SUBSET Moments) \cup Pairs

RoomRow == [status : Statuses, version : Nat, tx : {None} \cup TxIds]
SideRow == [user : Users \cup {None}, signer : Accounts \cup {None},
            source : Accounts \cup {None}, accepted : Nat \cup {None}]
SideTable == [Side -> SideRow]
ItemTable == [Side -> SUBSET Moments]
VoucherRow == [signer : Accounts \cup {None}, source : Accounts \cup {None},
               gives : SUBSET Moments]
RelayRow == [cosigner : Accounts \cup {None}, initiator : Side,
             voucher : [Side -> VoucherRow], signed : BOOLEAN, fresh : BOOLEAN,
             executed : BOOLEAN]

Pcs == {"load", "joined", "clear", "save", "prune", "touch", "reset", "lock",
        "unlock", "post", "sign", "landed", "seal"}

Requests == [kind : Kinds, user : Users, arg : ArgValues, pc : Pcs, room : RoomRow,
             sides : {None} \cup SideTable, items : {None} \cup ItemTable]

CallerIn(q) == \E s \in Side : q.sides[s].user = q.user
Editables == {"open", "building", "accepted"}
Executable == {"accepted", "signing", "sealed"}

(* What a request has loaded and was asked, with v the room's version, ever *)
(* the acceptances written.                                                 *)
ReadingOK(q, v, ever) ==
    /\ q.room.version \in 1..v
    /\ q.sides # None =>
          \A s \in Side : q.sides[s].accepted # None => <<s, q.sides[s].accepted>> \in ever
    /\ q.kind = "items" => q.arg \in SUBSET Moments
    /\ q.kind = "wallet" => q.arg \in Pairs
    /\ q.kind = "accept" => q.arg \in 1..v
    /\ q.kind = "sealed" => q.arg \in TxIds

(* What the statement it is at can rely on, with n relay rows.              *)
StageOK(q, ever, n) ==
    /\ q.pc \in {"clear", "save", "prune", "post"} => q.sides # None /\ CallerIn(q)
    /\ q.pc \in {"save", "prune"} => q.kind = "items"
    /\ q.pc \in {"save", "post"} => q.items # None
    /\ q.pc \in {"clear", "touch", "prune"} => q.room.status \in Editables
    /\ q.pc = "lock" => q.arg \in Nat /\ \A s \in Side : <<s, q.arg>> \in ever
    /\ q.pc = "post" => \A s \in Side :
          q.sides[s].source # None /\ <<s, q.room.version>> \in ever
    /\ q.pc = "sign" => q.arg \in 1..n
    /\ q.pc = "landed" => q.kind = "sealed"
    /\ q.pc = "seal" => q.arg \in {None} \cup TxIds

RequestOK(q, v, ever, n) ==
    q \in Requests /\ ReadingOK(q, v, ever) /\ StageOK(q, ever, n)

RequestsOK ==
    /\ reqs = [r \in Slots |-> reqs[r]]
    /\ \A r \in Slots :
          reqs[r] # None => RequestOK(reqs[r], room.version, everAccepted, Len(relays))

RoomOK ==
    /\ room \in RoomRow
    /\ room.version # 0

AcceptedOK ==
    \A s \in Side : sides[s].accepted # None => sides[s].accepted \in 1..room.version

RememberedOK ==
    \A s \in Side : sides[s].accepted # None => <<s, sides[s].accepted>> \in everAccepted

RelaysOK ==
    /\ relays \in Seq(RelayRow)
    /\ Len(relays) <= MaxRelays
    /\ \A i \in 1..Len(relays) : \A s \in Side : relays[i].voucher[s].source # None

TablesOK ==
    /\ RoomOK
    /\ expired \in BOOLEAN
    /\ sides \in SideTable
    /\ AcceptedOK
    /\ items \in ItemTable
    /\ RelaysOK
    /\ at \in [Moments -> Accounts]

EditsOK ==
    /\ edits \in Seq(Nat)
    /\ \A i \in DOMAIN edits : edits[i] < room.version
    /\ OneEditPerVersion

IInv == TablesOK /\ RememberedOK /\ ExecutableIsAgreed /\ EditsOK /\ RequestsOK

USE WalletAssumption, BoundAssumption, NullAssumption DEF Side

-----------------------------------------------------------------------------
(* Requests, whatever the state is.                                        *)

LEMMA ReadingsAge ==
    ASSUME NEW q, NEW v \in Nat, NEW w \in Nat, v <= w,
           NEW ever, NEW more, ever \subseteq more,
           NEW n \in Nat, NEW p \in Nat, n <= p,
           RequestOK(q, v, ever, n)
    PROVE  RequestOK(q, w, more, p)
  BY DEF RequestOK, ReadingOK, StageOK

(* A request that goes on to another statement has what it had.            *)
LEMMA GoesOn ==
    ASSUME NEW q \in Requests, NEW pc \in Pcs
    PROVE  LET p == [q EXCEPT !.pc = pc] IN
           /\ p \in Requests /\ p.pc = pc
           /\ p.kind = q.kind /\ p.user = q.user /\ p.arg = q.arg
           /\ p.room = q.room /\ p.sides = q.sides /\ p.items = q.items
  BY DEF Requests

LEMMA ReadingStays ==
    ASSUME NEW q \in Requests, NEW pc \in Pcs, NEW v, NEW ever,
           ReadingOK(q, v, ever)
    PROVE  ReadingOK([q EXCEPT !.pc = pc], v, ever)
  BY GoesOn DEF ReadingOK

(* What the statement it goes on to relies on, of the request as it is.    *)
LEMMA StageReached ==
    ASSUME NEW q \in Requests, NEW pc \in Pcs, NEW ever, NEW n,
           pc \in {"clear", "save", "prune", "post"} => (q.sides # None /\ CallerIn(q)),
           pc \in {"save", "prune"} => q.kind = "items",
           pc \in {"save", "post"} => q.items # None,
           pc \in {"clear", "touch", "prune"} => q.room.status \in Editables,
           pc = "lock" => (q.arg \in Nat /\ \A s \in Side : <<s, q.arg>> \in ever),
           pc = "post" => \A s \in Side :
              q.sides[s].source # None /\ <<s, q.room.version>> \in ever,
           pc = "sign" => q.arg \in 1..n,
           pc = "landed" => q.kind = "sealed",
           pc = "seal" => q.arg \in {None} \cup TxIds
    PROVE  StageOK([q EXCEPT !.pc = pc], ever, n)
  <1>1. PICK p : p = [q EXCEPT !.pc = pc]
    OBVIOUS
  <1>2. /\ p.pc = pc /\ p.kind = q.kind /\ p.user = q.user /\ p.arg = q.arg
        /\ p.room = q.room /\ p.sides = q.sides /\ p.items = q.items
    BY <1>1, GoesOn
  <1>3. StageOK(p, ever, n)
    BY <1>2 DEF StageOK, CallerIn
  <1> QED BY <1>1, <1>3

(* The caller's side is a side.                                            *)
LEMMA MyOwnSide ==
    ASSUME NEW r \in Slots, InRoom(r)
    PROVE  Me(r) \in Side /\ reqs[r].sides[Me(r)].user = reqs[r].user
  BY DEF InRoom, Me

(* No step but these two invariants' own could undo what others rely on.   *)
Advance ==
    /\ room.version \in Nat /\ room'.version \in Nat
    /\ room.version <= room'.version
    /\ everAccepted \subseteq everAccepted'
    /\ Len(relays) \in Nat /\ Len(relays') \in Nat
    /\ Len(relays) <= Len(relays')

LEMMA OthersKeep ==
    ASSUME RequestsOK, Advance, NEW r \in Slots,
           NEW next, reqs' = [reqs EXCEPT ![r] = next],
           next # None => RequestOK(next, room'.version, everAccepted', Len(relays'))
    PROVE  RequestsOK'
  <1>1. reqs' = [q \in Slots |-> IF q = r THEN next ELSE reqs[q]]
    BY DEF RequestsOK
  <1>2. ASSUME NEW q \in Slots, reqs'[q] # None
        PROVE  RequestOK(reqs'[q], room'.version, everAccepted', Len(relays'))
    <2>1. CASE q = r
      BY <1>1, <1>2, <2>1
    <2>2. CASE q # r
      <3>1. RequestOK(reqs[q], room.version, everAccepted, Len(relays)) /\ reqs'[q] = reqs[q]
        BY <1>1, <1>2, <2>2 DEF RequestsOK
      <3> QED BY <3>1, ReadingsAge DEF Advance
    <2> QED BY <2>1, <2>2
  <1> QED BY <1>1, <1>2 DEF RequestsOK

LEMMA AllKeep ==
    ASSUME RequestsOK, Advance, reqs' = reqs
    PROVE  RequestsOK'
  <1>1. ASSUME NEW q \in Slots, reqs'[q] # None
        PROVE  RequestOK(reqs'[q], room'.version, everAccepted', Len(relays'))
    <2>1. RequestOK(reqs[q], room.version, everAccepted, Len(relays))
      BY <1>1 DEF RequestsOK
    <2> QED BY <2>1, ReadingsAge DEF Advance
  <1> QED BY <1>1 DEF RequestsOK

LEMMA HistoryGrows ==
    ASSUME Remember
    PROVE  everAccepted \subseteq everAccepted' /\ RememberedOK'
  BY DEF Remember, NewAcceptances, RememberedOK

-----------------------------------------------------------------------------
(* What every step of a request shows: its own next state is sound, the    *)
(* tables stay so, and the room is executable only as agreed.              *)

Kept == TablesOK' /\ ExecutableIsAgreed' /\ RequestsOK' /\ Advance

(* A step that writes no table.                                            *)
LEMMA TablesStay ==
    ASSUME IInv, Remember, UNCHANGED <<db, at>>
    PROVE  TablesOK' /\ ExecutableIsAgreed' /\ Advance
  <1>1. UNCHANGED <<room, expired, sides, items, relays, at>>
    BY DEF db
  <1>2. TablesOK'
    BY <1>1 DEF IInv, TablesOK, RoomOK, AcceptedOK, RelaysOK
  <1>3. Advance
    BY <1>1, HistoryGrows DEF IInv, TablesOK, RoomOK, RoomRow, RelaysOK, Advance
  <1>4. ExecutableIsAgreed'
    BY <1>1, HistoryGrows DEF IInv, ExecutableIsAgreed
  <1> QED BY <1>2, <1>3, <1>4

(* One that writes the room's row, and not a lower version into it.        *)
LEMMA RoomWritten ==
    ASSUME IInv, Remember, UNCHANGED <<expired, sides, items, relays, at>>,
           room' \in RoomRow, room.version <= room'.version
    PROVE  TablesOK' /\ Advance
  <1>1. RoomOK'
    BY DEF IInv, TablesOK, RoomOK, RoomRow
  <1>2. AcceptedOK'
    BY DEF IInv, TablesOK, AcceptedOK, RoomOK, RoomRow, SideTable, SideRow
  <1>3. RelaysOK'
    BY DEF IInv, TablesOK, RelaysOK
  <1>4. TablesOK'
    BY <1>1, <1>2, <1>3 DEF IInv, TablesOK
  <1>5. Advance
    BY HistoryGrows DEF IInv, TablesOK, RoomOK, RoomRow, RelaysOK, Advance
  <1> QED BY <1>4, <1>5

(* The status moves within the same version, to an executable one only     *)
(* from another or with the consent of both.                               *)
LEMMA StatusWritten ==
    ASSUME IInv, Remember, UNCHANGED <<expired, sides, items, relays, at>>,
           NEW status \in Statuses, room' = [room EXCEPT !.status = status],
           status \in Executable =>
              \/ room.status \in Executable
              \/ \A s \in Side : <<s, room.version>> \in everAccepted
    PROVE  TablesOK' /\ ExecutableIsAgreed' /\ Advance
  <1>1. /\ room' \in RoomRow /\ room'.version = room.version /\ room'.tx = room.tx
        /\ room'.status = status
    BY DEF IInv, TablesOK, RoomOK, RoomRow
  <1>2. TablesOK' /\ Advance
    BY <1>1, RoomWritten DEF IInv, TablesOK, RoomOK, RoomRow
  <1>3. ExecutableIsAgreed'
    BY <1>1, HistoryGrows DEF IInv, ExecutableIsAgreed, Executable
  <1> QED BY <1>2, <1>3

(* One that writes a side or its items.                                    *)
LEMMA SidesWritten ==
    ASSUME IInv, Remember, UNCHANGED <<room, expired, relays, at>>,
           sides' \in SideTable, items' \in ItemTable, AcceptedOK'
    PROVE  TablesOK' /\ ExecutableIsAgreed' /\ Advance
  <1>1. RoomOK' /\ RelaysOK'
    BY DEF IInv, TablesOK, RoomOK, RelaysOK
  <1>2. TablesOK'
    BY <1>1 DEF IInv, TablesOK
  <1>3. ExecutableIsAgreed'
    BY HistoryGrows DEF IInv, ExecutableIsAgreed
  <1>4. Advance
    BY HistoryGrows DEF IInv, TablesOK, RoomOK, RoomRow, RelaysOK, Advance
  <1> QED BY <1>2, <1>3, <1>4

(* One that writes a relay row.                                            *)
LEMMA RelayWritten ==
    ASSUME IInv, Remember, UNCHANGED <<room, expired, sides, items>>,
           RelaysOK', Len(relays) <= Len(relays'), at' \in [Moments -> Accounts]
    PROVE  TablesOK' /\ ExecutableIsAgreed' /\ Advance
  <1>1. Len(relays) \in Nat /\ Len(relays') \in Nat
    BY DEF IInv, TablesOK, RelaysOK
  <1>2. RoomOK' /\ AcceptedOK'
    BY <1>1 DEF IInv, TablesOK, RoomOK, AcceptedOK
  <1>3. TablesOK'
    BY <1>2 DEF IInv, TablesOK
  <1>4. ExecutableIsAgreed'
    BY HistoryGrows DEF IInv, ExecutableIsAgreed
  <1>5. Advance
    BY <1>1, HistoryGrows DEF IInv, TablesOK, RoomOK, RoomRow, Advance
  <1> QED BY <1>3, <1>4, <1>5

(* A request at work, with its readings as of the next state.              *)
LEMMA AtWork ==
    ASSUME IInv, Advance, NEW r \in Slots, reqs[r] # None
    PROVE  /\ RequestOK(reqs[r], room.version, everAccepted, Len(relays))
           /\ RequestOK(reqs[r], room'.version, everAccepted', Len(relays'))
  <1>1. RequestOK(reqs[r], room.version, everAccepted, Len(relays))
    BY DEF IInv, RequestsOK
  <1> QED BY <1>1, ReadingsAge DEF Advance

(* It ends, or goes on to a statement whose conditions hold.               *)
LEMMA Ends ==
    ASSUME IInv, Advance, NEW r \in Slots, End(r)
    PROVE  RequestsOK'
  BY OthersKeep DEF End, IInv

LEMMA GoesTo ==
    ASSUME IInv, Advance, NEW r \in Slots, reqs[r] # None, NEW pc \in Pcs, Goto(r, pc),
           StageOK([reqs[r] EXCEPT !.pc = pc], everAccepted', Len(relays'))
    PROVE  RequestsOK'
  <1>1. reqs' = [reqs EXCEPT ![r] = [reqs[r] EXCEPT !.pc = pc]]
    BY DEF Goto
  <1>2. RequestOK(reqs[r], room'.version, everAccepted', Len(relays'))
    BY AtWork
  <1>3. /\ [reqs[r] EXCEPT !.pc = pc] \in Requests
        /\ ReadingOK([reqs[r] EXCEPT !.pc = pc], room'.version, everAccepted')
    BY <1>2, GoesOn, ReadingStays DEF RequestOK
  <1> QED BY <1>1, <1>3, OthersKeep DEF RequestOK, IInv

-----------------------------------------------------------------------------
(* The steps that only read. *)

LEMMA FailKeeps ==
    ASSUME IInv, Remember, NEW r \in Slots, Fail(r)
    PROVE  Kept
  <1>1. TablesOK' /\ ExecutableIsAgreed' /\ Advance
    BY TablesStay DEF Fail
  <1> QED BY <1>1, Ends DEF Fail, Kept

LEMMA ReadSidesKeeps ==
    ASSUME IInv, Remember, NEW r \in Slots, ReadSides(r)
    PROVE  Kept
  <1>1. TablesOK' /\ ExecutableIsAgreed' /\ Advance
    BY TablesStay DEF ReadSides
  <1> DEFINE next == [reqs[r] EXCEPT !.sides = sides]
  <1>2. reqs[r] # None /\ reqs[r].pc = "load" /\ reqs' = [reqs EXCEPT ![r] = next]
    BY DEF ReadSides, At
  <1>3. RequestOK(reqs[r], room'.version, everAccepted', Len(relays'))
    BY <1>1, <1>2, AtWork
  <1>4. /\ next \in Requests /\ next.pc = "load" /\ next.kind = reqs[r].kind
        /\ next.arg = reqs[r].arg /\ next.room = reqs[r].room /\ next.sides = sides
    BY <1>2, <1>3 DEF RequestOK, Requests, IInv, TablesOK
  <1>5. \A s \in Side : sides[s].accepted # None => <<s, sides[s].accepted>> \in everAccepted'
    BY HistoryGrows DEF IInv, RememberedOK
  <1>6. ReadingOK(next, room'.version, everAccepted')
    BY <1>3, <1>4, <1>5 DEF RequestOK, ReadingOK
  <1>7. StageOK(next, everAccepted', Len(relays'))
    BY <1>4 DEF StageOK
  <1>8. RequestsOK'
    BY <1>1, <1>2, <1>4, <1>6, <1>7, OthersKeep DEF RequestOK, IInv
  <1> QED BY <1>1, <1>8 DEF Kept

LEMMA ReadItemsKeeps ==
    ASSUME IInv, Remember, NEW r \in Slots, ReadItems(r)
    PROVE  Kept
  <1>1. TablesOK' /\ ExecutableIsAgreed' /\ Advance
    BY TablesStay DEF ReadItems
  <1> DEFINE next == [reqs[r] EXCEPT !.items = items]
  <1>2. reqs[r] # None /\ reqs[r].pc = "load" /\ reqs' = [reqs EXCEPT ![r] = next]
    BY DEF ReadItems, At
  <1>3. RequestOK(reqs[r], room'.version, everAccepted', Len(relays'))
    BY <1>1, <1>2, AtWork
  <1>4. /\ next \in Requests /\ next.pc = "load" /\ next.kind = reqs[r].kind
        /\ next.arg = reqs[r].arg /\ next.room = reqs[r].room /\ next.sides = reqs[r].sides
    BY <1>2, <1>3 DEF RequestOK, Requests, IInv, TablesOK
  <1>5. ReadingOK(next, room'.version, everAccepted')
    BY <1>3, <1>4 DEF RequestOK, ReadingOK
  <1>6. StageOK(next, everAccepted', Len(relays'))
    BY <1>4 DEF StageOK
  <1>7. RequestsOK'
    BY <1>1, <1>2, <1>4, <1>5, <1>6, OthersKeep DEF RequestOK, IInv
  <1> QED BY <1>1, <1>7 DEF Kept

(* What a client sends.                                                    *)
LEMMA ArgsTyped ==
    ASSUME IInv, NEW kind \in Kinds, NEW user \in Users, NEW arg \in Args(kind, user)
    PROVE  /\ arg \in ArgValues
           /\ kind = "items" => arg \in SUBSET Moments
           /\ kind = "wallet" => arg \in Pairs
           /\ kind = "accept" => arg = room.version
           /\ kind = "sealed" => arg \in TxIds
  <1>1. room.version \in Nat /\ DOMAIN relays = 1..Len(relays) /\ Len(relays) \in Nat
    BY DEF IInv, TablesOK, RoomOK, RoomRow, RelaysOK
  <1>2. CASE kind = "wallet"
    BY <1>2 DEF Args, ArgValues, Pairs
  <1>3. CASE kind = "items"
    BY <1>3 DEF Args, ArgValues
  <1>4. CASE kind = "accept"
    BY <1>1, <1>4 DEF Args, ArgValues
  <1>5. CASE kind = "relay_sign"
    BY <1>1, <1>5 DEF Args, ArgValues
  <1>6. CASE kind = "sealed"
    BY <1>1, <1>6 DEF Args, ArgValues
  <1>7. CASE kind \notin {"wallet", "items", "accept", "relay_sign", "sealed"}
    BY <1>7 DEF Args, ArgValues
  <1> QED BY <1>2, <1>3, <1>4, <1>5, <1>6, <1>7

LEMMA StartKeeps ==
    ASSUME IInv, Remember, NEW r \in Slots, NEW kind \in Kinds, NEW user \in Users,
           NEW arg \in Args(kind, user), Start(r, kind, user, arg)
    PROVE  Kept
  <1>1. TablesOK' /\ ExecutableIsAgreed' /\ Advance
    BY TablesStay DEF Start
  <1> DEFINE next == [kind |-> kind, user |-> user, arg |-> arg, pc |-> "load",
                      room |-> room, sides |-> None, items |-> None]
  <1>2. reqs' = [reqs EXCEPT ![r] = next]
    BY DEF Start
  <1>3. room \in RoomRow /\ room.version \in 1..room'.version
    BY <1>1 DEF Start, db, IInv, TablesOK, RoomOK, RoomRow, Advance
  <1>4. next \in Requests
    BY <1>3, ArgsTyped DEF Requests, Pcs
  <1>5. ReadingOK(next, room'.version, everAccepted')
    BY <1>1, <1>3, ArgsTyped DEF ReadingOK, Advance
  <1>6. StageOK(next, everAccepted', Len(relays'))
    BY DEF StageOK
  <1>7. RequestsOK'
    BY <1>1, <1>2, <1>4, <1>5, <1>6, OthersKeep DEF RequestOK, IInv
  <1> QED BY <1>1, <1>7 DEF Kept

(* CheckPicks, CheckRelay and VerifyLanded go on without a write.          *)
LEMMA ChecksKeep ==
    ASSUME IInv, Remember, NEW r \in Slots, reqs[r] # None, UNCHANGED <<db, at>>,
           NEW pc \in Pcs, Goto(r, pc),
           StageOK([reqs[r] EXCEPT !.pc = pc], everAccepted', Len(relays'))
    PROVE  Kept
  <1>1. TablesOK' /\ ExecutableIsAgreed' /\ Advance
    BY TablesStay
  <1> QED BY <1>1, GoesTo DEF Kept

LEMMA CheckPicksKeeps ==
    ASSUME IInv, Remember, NEW r \in Slots, CheckPicks(r)
    PROVE  Kept
  <1>1. /\ reqs[r] # None /\ reqs[r].kind = "items" /\ reqs[r].sides # None
        /\ reqs[r].items # None /\ InRoom(r) /\ Goto(r, "save") /\ UNCHANGED <<db, at>>
    BY DEF CheckPicks, Loaded, At, UsesItems
  <1>2. reqs[r] \in Requests
    BY <1>1 DEF IInv, RequestsOK, RequestOK
  <1>3. StageOK([reqs[r] EXCEPT !.pc = "save"], everAccepted', Len(relays'))
    <2>1. CallerIn(reqs[r])
      BY <1>1, <1>2 DEF CallerIn, InRoom
    <2> QED BY <2>1, <1>1, <1>2, StageReached DEF Pcs
  <1> QED BY <1>1, <1>3, ChecksKeep DEF Pcs

LEMMA CheckRelayKeeps ==
    ASSUME IInv, Remember, NEW r \in Slots, CheckRelay(r)
    PROVE  Kept
  <1>1. /\ reqs[r] # None /\ Goto(r, "sign") /\ UNCHANGED <<db, at>>
        /\ reqs[r].arg \in DOMAIN relays
    BY DEF CheckRelay, Loaded, At
  <1>2. reqs[r] \in Requests /\ reqs[r].arg \in 1..Len(relays')
    BY <1>1 DEF IInv, RequestsOK, RequestOK, TablesOK, RelaysOK, db
  <1>3. StageOK([reqs[r] EXCEPT !.pc = "sign"], everAccepted', Len(relays'))
    BY <1>2, StageReached DEF Pcs
  <1> QED BY <1>1, <1>3, ChecksKeep DEF Pcs

LEMMA VerifyLandedKeeps ==
    ASSUME IInv, Remember, NEW r \in Slots, VerifyLanded(r)
    PROVE  Kept
  <1>1. /\ reqs[r] # None /\ reqs[r].kind = "sealed" /\ Goto(r, "landed")
        /\ UNCHANGED <<db, at>>
    BY DEF VerifyLanded, Loaded, At
  <1>2. reqs[r] \in Requests
    BY <1>1 DEF IInv, RequestsOK, RequestOK
  <1>3. StageOK([reqs[r] EXCEPT !.pc = "landed"], everAccepted', Len(relays'))
    BY <1>1, <1>2, StageReached DEF Pcs
  <1> QED BY <1>1, <1>3, ChecksKeep DEF Pcs

LEMMA VerifyOtherKeeps ==
    ASSUME IInv, Remember, NEW r \in Slots, VerifyOther(r)
    PROVE  Kept
  <1>1. /\ reqs[r] # None /\ reqs[r].pc = "landed" /\ Goto(r, "seal")
        /\ UNCHANGED <<db, at>>
    BY DEF VerifyOther, At
  <1>2. reqs[r] \in Requests /\ reqs[r].arg \in TxIds
    BY <1>1 DEF IInv, RequestsOK, RequestOK, ReadingOK, StageOK
  <1>3. StageOK([reqs[r] EXCEPT !.pc = "seal"], everAccepted', Len(relays'))
    BY <1>2, StageReached DEF Pcs
  <1> QED BY <1>1, <1>3, ChecksKeep DEF Pcs

LEMMA VerifyAgainKeeps ==
    ASSUME IInv, Remember, NEW r \in Slots, VerifyAgain(r)
    PROVE  Kept
  <1>1. TablesOK' /\ ExecutableIsAgreed' /\ Advance
    BY TablesStay DEF VerifyAgain
  <1> DEFINE next == [reqs[r] EXCEPT !.pc = "seal", !.arg = reqs[r].room.tx]
  <1>2. reqs[r] # None /\ reqs[r].kind = "verify"
    BY DEF VerifyAgain, Loaded, At
  <1>3. reqs' = [reqs EXCEPT ![r] = next]
    <2>1. reqs' = [reqs EXCEPT ![r].pc = "seal", ![r].arg = reqs[r].room.tx]
      BY DEF VerifyAgain
    <2>2. reqs = [q \in Slots |-> reqs[q]]
      BY DEF IInv, RequestsOK
    <2>3. reqs[r] \in Requests
      BY <1>2 DEF IInv, RequestsOK, RequestOK
    <2> QED BY <2>1, <2>2, <2>3 DEF Requests
  <1>4. RequestOK(reqs[r], room'.version, everAccepted', Len(relays'))
    BY <1>1, <1>2, AtWork
  <1>5. reqs[r].room.tx \in {None} \cup TxIds
    BY <1>4 DEF RequestOK, Requests, RoomRow
  <1>6. /\ next \in Requests /\ next.pc = "seal" /\ next.kind = "verify"
        /\ next.arg = reqs[r].room.tx /\ next.room = reqs[r].room
        /\ next.sides = reqs[r].sides
    BY <1>2, <1>4, <1>5 DEF RequestOK, Requests, ArgValues, Pcs
  <1>7. ReadingOK(next, room'.version, everAccepted')
    BY <1>4, <1>6 DEF RequestOK, ReadingOK
  <1>8. StageOK(next, everAccepted', Len(relays'))
    BY <1>5, <1>6 DEF StageOK
  <1>9. RequestsOK'
    BY <1>1, <1>3, <1>6, <1>7, <1>8, OthersKeep DEF RequestOK, IInv
  <1> QED BY <1>1, <1>9 DEF Kept

-----------------------------------------------------------------------------
(* The steps that write the room's row. *)

(* A request that moves the status and ends.                               *)
LEMMA StatusEnds ==
    ASSUME IInv, Remember, NEW r \in Slots, End(r),
           UNCHANGED <<expired, sides, items, relays, at>>,
           NEW status \in Statuses, room' = [room EXCEPT !.status = status],
           status \in Executable =>
              \/ room.status \in Executable
              \/ \A s \in Side : <<s, room.version>> \in everAccepted
    PROVE  Kept
  <1>1. TablesOK' /\ ExecutableIsAgreed' /\ Advance
    BY StatusWritten
  <1> QED BY <1>1, Ends DEF Kept

LEMMA JoinedStatusKeeps ==
    ASSUME IInv, Remember, NEW r \in Slots, JoinedStatus(r)
    PROVE  Kept
  <1> DEFINE status == IF room.status = "open" THEN "building" ELSE room.status
  <1>1. room.status \in Statuses
    BY DEF IInv, TablesOK, RoomOK, RoomRow
  <1>2. status \in Statuses /\ (status \in Executable => room.status \in Executable)
    BY <1>1 DEF Statuses, Executable
  <1>3. room' = [room EXCEPT !.status = status]
    BY DEF JoinedStatus, IInv, TablesOK, RoomOK, RoomRow
  <1> HIDE DEF status
  <1> QED BY <1>2, <1>3, StatusEnds DEF JoinedStatus

LEMMA UnlockRoomKeeps ==
    ASSUME IInv, Remember, NEW r \in Slots, UnlockRoom(r)
    PROVE  Kept
  <1> DEFINE status == IF room.status = "accepted" THEN "building" ELSE room.status
  <1>1. room.status \in Statuses
    BY DEF IInv, TablesOK, RoomOK, RoomRow
  <1>2. status \in Statuses /\ (status \in Executable => room.status \in Executable)
    BY <1>1 DEF Statuses, Executable
  <1>3. room' = [room EXCEPT !.status = status]
    BY DEF UnlockRoom, IInv, TablesOK, RoomOK, RoomRow
  <1> HIDE DEF status
  <1> QED BY <1>2, <1>3, StatusEnds DEF UnlockRoom

LEMMA CancelRoomKeeps ==
    ASSUME IInv, Remember, NEW r \in Slots, CancelRoom(r)
    PROVE  Kept
  <1> DEFINE status == IF room.status = "sealed" THEN room.status ELSE "cancelled"
  <1>1. room.status \in Statuses
    BY DEF IInv, TablesOK, RoomOK, RoomRow
  <1>2. status \in Statuses /\ (status \in Executable => room.status \in Executable)
    BY <1>1 DEF Statuses, Executable
  <1>3. room' = [room EXCEPT !.status = status]
    BY DEF CancelRoom, IInv, TablesOK, RoomOK, RoomRow
  <1> HIDE DEF status
  <1> QED BY <1>2, <1>3, StatusEnds DEF CancelRoom

LEMMA MarkSigningEndedKeeps ==
    ASSUME IInv, Remember, NEW r \in Slots, MarkSigningEnded(r)
    PROVE  Kept
  <1> DEFINE status == IF room.status = "signing" THEN "accepted" ELSE room.status
  <1>1. room.status \in Statuses
    BY DEF IInv, TablesOK, RoomOK, RoomRow
  <1>2. status \in Statuses /\ (status \in Executable => room.status \in Executable)
    BY <1>1 DEF Statuses, Executable
  <1>3. room' = [room EXCEPT !.status = status]
    BY DEF MarkSigningEnded, IInv, TablesOK, RoomOK, RoomRow
  <1> HIDE DEF status
  <1> QED BY <1>2, <1>3, StatusEnds DEF MarkSigningEnded

LEMMA LockRoomKeeps ==
    ASSUME IInv, Remember, NEW r \in Slots, LockRoom(r)
    PROVE  Kept
  <1> DEFINE status == IF CanLock(r) THEN "accepted" ELSE room.status
  <1>1. room.status \in Statuses
    BY DEF IInv, TablesOK, RoomOK, RoomRow
  <1>2. \A s \in Side : <<s, reqs[r].arg>> \in everAccepted
    BY DEF LockRoom, At, IInv, RequestsOK, RequestOK, StageOK
  <1>3. /\ status \in Statuses
        /\ status \in Executable =>
              \/ room.status \in Executable
              \/ \A s \in Side : <<s, room.version>> \in everAccepted
    BY <1>1, <1>2 DEF Statuses, Executable, CanLock
  <1>4. room' = [room EXCEPT !.status = status]
    BY DEF LockRoom, IInv, TablesOK, RoomOK, RoomRow
  <1> HIDE DEF status
  <1> QED BY <1>3, <1>4, StatusEnds DEF LockRoom

LEMMA MarkSigningKeeps ==
    ASSUME IInv, Remember, NEW r \in Slots, MarkSigning(r)
    PROVE  Kept
  <1>1. /\ reqs[r] # None /\ reqs[r].sides # None /\ reqs[r].items # None
        /\ InRoom(r) /\ BothProven(r) /\ Goto(r, "post")
    BY DEF MarkSigning, Loaded, At, UsesItems
  <1>2. room' = [room EXCEPT !.status = "signing"] /\ room.status \in Executable
    BY DEF MarkSigning, Executable
  <1>3. TablesOK' /\ ExecutableIsAgreed' /\ Advance
    BY <1>2, StatusWritten DEF MarkSigning, Statuses
  <1>4. reqs[r] \in Requests
    BY <1>1 DEF IInv, RequestsOK, RequestOK
  <1>5. StageOK([reqs[r] EXCEPT !.pc = "post"], everAccepted', Len(relays'))
    <2>1. CallerIn(reqs[r]) /\ \A s \in Side : reqs[r].sides[s].source # None
      BY <1>1 DEF CallerIn, InRoom, BothProven
    <2>2. \A s \in Side : <<s, reqs[r].room.version>> \in everAccepted'
      BY <1>2, HistoryGrows DEF MarkSigning, IInv, ExecutableIsAgreed, Executable
    <2> QED BY <2>1, <2>2, <1>1, <1>4, StageReached DEF Pcs
  <1>6. RequestsOK'
    BY <1>1, <1>3, <1>5, GoesTo DEF Pcs
  <1> QED BY <1>3, <1>6 DEF Kept

LEMMA MarkSealedKeeps ==
    ASSUME IInv, Remember, NEW r \in Slots, MarkSealed(r)
    PROVE  Kept
  <1>1. reqs[r] # None /\ End(r) /\ UNCHANGED <<expired, sides, items, relays, at>>
    BY DEF MarkSealed, At
  <1>2. reqs[r].arg \in {None} \cup TxIds
    BY <1>1 DEF MarkSealed, At, IInv, RequestsOK, RequestOK, StageOK
  <1>3. room \in RoomRow
    BY DEF IInv, TablesOK, RoomOK
  <1>4. CASE CanSeal
    <2>1. room' = [room EXCEPT !.status = "sealed", !.tx = reqs[r].arg]
      BY <1>4 DEF MarkSealed
    <2>2. room' \in RoomRow /\ room'.version = room.version
      BY <2>1, <1>2, <1>3 DEF RoomRow, Statuses
    <2>3. TablesOK' /\ Advance
      BY <1>1, <1>3, <2>2, RoomWritten DEF RoomRow
    <2>4. ExecutableIsAgreed'
      BY <1>4, <2>2, HistoryGrows DEF IInv, ExecutableIsAgreed, CanSeal
    <2> QED BY <1>1, <2>3, <2>4, Ends DEF Kept
  <1>5. CASE ~CanSeal
    <2>1. UNCHANGED <<db, at>>
      BY <1>1, <1>5 DEF MarkSealed, db
    <2>2. TablesOK' /\ ExecutableIsAgreed' /\ Advance
      BY <2>1, TablesStay
    <2> QED BY <1>1, <2>2, Ends DEF Kept
  <1> QED BY <1>4, <1>5

(* The bump writes the status that was loaded, from an editable room.      *)
LEMMA TouchKeeps ==
    ASSUME IInv, Remember, NEW r \in Slots, Touch(r)
    PROVE  Kept
  <1>1. /\ reqs[r] # None /\ Goto(r, "reset") /\ room.version = reqs[r].room.version
        /\ UNCHANGED <<expired, sides, items, relays, at>>
    BY DEF Touch, At, TouchMatches
  <1>2. reqs[r] \in Requests /\ reqs[r].room.status \in Editables
    BY DEF Touch, At, IInv, RequestsOK, RequestOK, StageOK
  <1>3. room \in RoomRow
    BY DEF IInv, TablesOK, RoomOK
  <1>4. TouchedStatus(reqs[r].room) \in {"open", "building"}
    BY <1>2 DEF TouchedStatus, Editables
  <1>5. /\ room' \in RoomRow /\ room'.version = room.version + 1 /\ room'.tx = room.tx
        /\ room'.status \in {"open", "building"}
    <2>1. room' = [room EXCEPT !.version = room.version + 1,
                               !.status = TouchedStatus(reqs[r].room)]
      BY <1>1 DEF Touch
    <2>2. room.version + 1 \in Nat
      BY <1>3 DEF RoomRow
    <2> QED BY <2>1, <2>2, <1>3, <1>4 DEF RoomRow, Statuses
  <1>6. TablesOK' /\ Advance
    BY <1>1, <1>3, <1>5, RoomWritten DEF RoomRow
  <1>7. ExecutableIsAgreed'
    BY <1>5 DEF ExecutableIsAgreed
  <1>8. StageOK([reqs[r] EXCEPT !.pc = "reset"], everAccepted', Len(relays'))
    BY <1>2, StageReached DEF Pcs
  <1>9. RequestsOK'
    BY <1>1, <1>6, <1>8, GoesTo DEF Pcs
  <1> QED BY <1>6, <1>7, <1>9 DEF Kept

-----------------------------------------------------------------------------
(* The steps that write a side or its items. *)

LEMMA JoinRoomKeeps ==
    ASSUME IInv, Remember, NEW r \in Slots, JoinRoom(r)
    PROVE  Kept
  <1>1. reqs[r] # None /\ Goto(r, "joined") /\ UNCHANGED <<room, expired, items, relays, at>>
    BY DEF JoinRoom, Loaded, At
  <1>2. reqs[r] \in Requests
    BY <1>1 DEF IInv, RequestsOK, RequestOK
  <1>3. sides' \in SideTable /\ \A s \in Side : sides'[s].accepted = sides[s].accepted
    BY <1>2 DEF JoinRoom, IInv, TablesOK, SideTable, SideRow, Requests
  <1>4. AcceptedOK' /\ items' \in ItemTable
    BY <1>1, <1>3 DEF IInv, TablesOK, AcceptedOK
  <1>5. TablesOK' /\ ExecutableIsAgreed' /\ Advance
    BY <1>1, <1>3, <1>4, SidesWritten
  <1>6. StageOK([reqs[r] EXCEPT !.pc = "joined"], everAccepted', Len(relays'))
    BY <1>2, StageReached DEF Pcs
  <1>7. RequestsOK'
    BY <1>1, <1>5, <1>6, GoesTo DEF Pcs
  <1> QED BY <1>5, <1>7 DEF Kept

LEMMA SetWalletKeeps ==
    ASSUME IInv, Remember, NEW r \in Slots, SetWallet(r)
    PROVE  Kept
  <1>1. /\ reqs[r] # None /\ reqs[r].kind = "wallet" /\ reqs[r].sides # None
        /\ InRoom(r) /\ reqs[r].room.status \in Editables
        /\ UNCHANGED <<room, expired, items, relays, at>>
    BY DEF SetWallet, Loaded, At, Editable, Editables
  <1> DEFINE pc == IF Mine(r).source \notin {None, reqs[r].arg.source}
                   THEN "clear" ELSE "touch"
  <1>2. Goto(r, pc) /\ pc \in {"clear", "touch"}
    BY DEF SetWallet
  <1>3. reqs[r] \in Requests /\ reqs[r].arg \in Pairs /\ Me(r) \in Side
    BY <1>1, MyOwnSide DEF IInv, RequestsOK, RequestOK, ReadingOK
  <1>4. sides \in SideTable
    BY DEF IInv, TablesOK
  <1>5. sides' = [sides EXCEPT ![Me(r)] =
                    [sides[Me(r)] EXCEPT !.signer = reqs[r].arg.signer,
                                         !.source = reqs[r].arg.source]]
    <2>1. sides' = [sides EXCEPT ![Me(r)].signer = reqs[r].arg.signer,
                                 ![Me(r)].source = reqs[r].arg.source]
      BY DEF SetWallet
    <2> HIDE DEF pc
    <2> QED BY <2>1, <1>3, <1>4 DEF SideTable, SideRow
  <1> HIDE DEF pc
  <1>6. sides' \in SideTable /\ \A s \in Side : sides'[s].accepted = sides[s].accepted
    BY <1>3, <1>4, <1>5 DEF SideTable, SideRow, Pairs
  <1>7. AcceptedOK' /\ items' \in ItemTable
    BY <1>1, <1>6 DEF IInv, TablesOK, AcceptedOK
  <1>8. TablesOK' /\ ExecutableIsAgreed' /\ Advance
    BY <1>1, <1>6, <1>7, SidesWritten
  <1>9. StageOK([reqs[r] EXCEPT !.pc = pc], everAccepted', Len(relays'))
    <2>1. CallerIn(reqs[r])
      BY <1>1 DEF CallerIn, InRoom
    <2> QED BY <2>1, <1>1, <1>2, <1>3, StageReached DEF Pcs
  <1>10. RequestsOK'
    BY <1>1, <1>2, <1>8, <1>9, GoesTo DEF Pcs
  <1> QED BY <1>8, <1>10 DEF Kept

(* The caller's items change and the request goes on.                      *)
LEMMA ItemsWritten ==
    ASSUME IInv, Remember, NEW r \in Slots, reqs[r] # None, NEW s \in Side,
           NEW moments \in SUBSET Moments, items' = [items EXCEPT ![s] = moments],
           UNCHANGED <<room, expired, sides, relays, at>>,
           NEW pc \in Pcs, Goto(r, pc),
           StageOK([reqs[r] EXCEPT !.pc = pc], everAccepted', Len(relays'))
    PROVE  Kept
  <1>1. items' \in ItemTable /\ sides' \in SideTable /\ AcceptedOK'
    BY DEF IInv, TablesOK, ItemTable, AcceptedOK
  <1>2. TablesOK' /\ ExecutableIsAgreed' /\ Advance
    BY <1>1, SidesWritten
  <1> QED BY <1>2, GoesTo DEF Kept

LEMMA ClearItemsKeeps ==
    ASSUME IInv, Remember, NEW r \in Slots, ClearItems(r)
    PROVE  Kept
  <1>1. reqs[r] # None /\ reqs[r].pc = "clear" /\ Goto(r, "touch")
    BY DEF ClearItems, At
  <1>2. /\ reqs[r] \in Requests /\ InRoom(r) /\ reqs[r].room.status \in Editables
    BY <1>1 DEF IInv, RequestsOK, RequestOK, StageOK, CallerIn, InRoom
  <1>3. StageOK([reqs[r] EXCEPT !.pc = "touch"], everAccepted', Len(relays'))
    BY <1>2, StageReached DEF Pcs
  <1>4. Me(r) \in Side /\ items' = [items EXCEPT ![Me(r)] = {}] /\ {} \in SUBSET Moments
    BY <1>2, MyOwnSide DEF ClearItems
  <1> QED BY <1>1, <1>3, <1>4, ItemsWritten DEF ClearItems, Pcs

LEMMA SaveItemsKeeps ==
    ASSUME IInv, Remember, NEW r \in Slots, SaveItems(r)
    PROVE  Kept
  <1>1. /\ reqs[r] # None /\ reqs[r].pc = "save" /\ Goto(r, "prune")
        /\ reqs[r].room.status \in Editables
    BY DEF SaveItems, At, Editable, Editables
  <1>2. /\ reqs[r] \in Requests /\ InRoom(r) /\ reqs[r].sides # None
        /\ reqs[r].kind = "items" /\ reqs[r].arg \in SUBSET Moments
    BY <1>1 DEF IInv, RequestsOK, RequestOK, ReadingOK, StageOK, CallerIn, InRoom
  <1>3. StageOK([reqs[r] EXCEPT !.pc = "prune"], everAccepted', Len(relays'))
    <2>1. CallerIn(reqs[r])
      BY <1>1, <1>2 DEF CallerIn, InRoom
    <2> QED BY <2>1, <1>1, <1>2, StageReached DEF Pcs
  <1>4. Me(r) \in Side /\ items \in ItemTable
    BY <1>2, MyOwnSide DEF IInv, TablesOK
  <1>5. items[Me(r)] \cup reqs[r].arg \in SUBSET Moments
    BY <1>2, <1>4 DEF ItemTable
  <1>6. items' = [items EXCEPT ![Me(r)] = items[Me(r)] \cup reqs[r].arg]
    BY <1>4 DEF SaveItems, ItemTable
  <1> QED BY <1>1, <1>3, <1>4, <1>5, <1>6, ItemsWritten DEF SaveItems, Pcs

LEMMA PruneItemsKeeps ==
    ASSUME IInv, Remember, NEW r \in Slots, PruneItems(r)
    PROVE  Kept
  <1>1. reqs[r] # None /\ reqs[r].pc = "prune" /\ Goto(r, "touch")
    BY DEF PruneItems, At
  <1>2. /\ reqs[r] \in Requests /\ InRoom(r) /\ reqs[r].room.status \in Editables
    BY <1>1 DEF IInv, RequestsOK, RequestOK, StageOK, CallerIn, InRoom
  <1>3. StageOK([reqs[r] EXCEPT !.pc = "touch"], everAccepted', Len(relays'))
    BY <1>2, StageReached DEF Pcs
  <1>4. Me(r) \in Side /\ items \in ItemTable
    BY <1>2, MyOwnSide DEF IInv, TablesOK
  <1>5. items[Me(r)] \cap reqs[r].arg \in SUBSET Moments
    BY <1>4 DEF ItemTable
  <1>6. items' = [items EXCEPT ![Me(r)] = items[Me(r)] \cap reqs[r].arg]
    BY <1>4 DEF PruneItems, ItemTable
  <1> QED BY <1>1, <1>3, <1>4, <1>5, <1>6, ItemsWritten DEF PruneItems, Pcs

LEMMA ResetAcceptancesKeeps ==
    ASSUME IInv, Remember, NEW r \in Slots, ResetAcceptances(r)
    PROVE  Kept
  <1>1. End(r) /\ UNCHANGED <<room, expired, items, relays, at>>
    BY DEF ResetAcceptances
  <1>2. sides \in SideTable /\ items' \in ItemTable
    BY <1>1 DEF IInv, TablesOK
  <1>3. sides' = [s \in Side |-> [sides[s] EXCEPT !.accepted = None]]
    BY DEF ResetAcceptances, NotAccepted
  <1>4. sides' \in SideTable /\ \A s \in Side : sides'[s].accepted = None
    BY <1>2, <1>3 DEF SideTable, SideRow
  <1>5. AcceptedOK'
    BY <1>4 DEF AcceptedOK
  <1>6. TablesOK' /\ ExecutableIsAgreed' /\ Advance
    BY <1>1, <1>2, <1>4, <1>5, SidesWritten
  <1> QED BY <1>1, <1>6, Ends DEF Kept

(* The caller's acceptance is written, and nothing else of the sides.      *)
LEMMA AcceptanceWritten ==
    ASSUME IInv, Remember, NEW s \in Side, NEW accepted \in {None} \cup 1..room.version,
           sides' = [sides EXCEPT ![s].accepted = accepted],
           UNCHANGED <<room, expired, items, relays, at>>
    PROVE  /\ TablesOK' /\ ExecutableIsAgreed' /\ Advance
           /\ sides'[s].accepted = accepted
  <1>1. sides \in SideTable /\ items' \in ItemTable /\ AcceptedOK /\ room.version \in Nat
    BY DEF IInv, TablesOK, RoomOK, RoomRow
  <1>2. accepted \in Nat \cup {None}
    BY <1>1
  <1>3. sides' = [sides EXCEPT ![s] = [sides[s] EXCEPT !.accepted = accepted]]
    BY <1>1 DEF SideTable, SideRow
  <1>4. /\ sides' \in SideTable /\ sides'[s].accepted = accepted
        /\ \A t \in Side : t # s => sides'[t].accepted = sides[t].accepted
    BY <1>1, <1>2, <1>3 DEF SideTable, SideRow
  <1>5. AcceptedOK'
    BY <1>1, <1>4 DEF AcceptedOK
  <1>6. TablesOK' /\ ExecutableIsAgreed' /\ Advance
    BY <1>1, <1>4, <1>5, SidesWritten
  <1> QED BY <1>4, <1>6

LEMMA AcceptKeeps ==
    ASSUME IInv, Remember, NEW r \in Slots, Accept(r)
    PROVE  Kept
  <1>1. /\ reqs[r] # None /\ reqs[r].kind = "accept" /\ reqs[r].sides # None /\ InRoom(r)
        /\ sides' = [sides EXCEPT ![Me(r)].accepted = reqs[r].arg]
        /\ UNCHANGED <<room, expired, items, relays, at>>
    BY DEF Accept, Loaded, At
  <1>2. RequestOK(reqs[r], room.version, everAccepted, Len(relays))
    BY <1>1 DEF IInv, RequestsOK
  <1>3. /\ reqs[r] \in Requests /\ Me(r) \in Side /\ room.version \in Nat
        /\ reqs[r].arg \in 1..room.version
    BY <1>1, <1>2, MyOwnSide DEF RequestOK, ReadingOK, IInv, TablesOK, RoomOK, RoomRow
  <1>4. /\ TablesOK' /\ ExecutableIsAgreed' /\ Advance
        /\ sides'[Me(r)].accepted = reqs[r].arg
    BY <1>1, <1>3, AcceptanceWritten
  <1>5. CASE Theirs(r).accepted = reqs[r].arg
    <2>1. Goto(r, "lock")
      BY <1>5 DEF Accept
    <2>2. reqs[r].arg \in Nat /\ reqs[r].arg # None
      BY <1>3
    <2>3. <<Me(r), reqs[r].arg>> \in everAccepted'
      BY <1>3, <1>4, <2>2 DEF Remember, NewAcceptances
    <2>4. Other(Me(r)) \in Side
      BY DEF Other
    <2>5. <<Other(Me(r)), reqs[r].arg>> \in everAccepted
      BY <1>1, <1>2, <1>5, <2>2, <2>4 DEF RequestOK, ReadingOK, Theirs
    <2>6. \A s \in Side : s = Me(r) \/ s = Other(Me(r))
      BY <1>3 DEF Other
    <2>7. \A s \in Side : <<s, reqs[r].arg>> \in everAccepted'
      BY <2>3, <2>5, <2>6, HistoryGrows
    <2>8. StageOK([reqs[r] EXCEPT !.pc = "lock"], everAccepted', Len(relays'))
      BY <1>3, <2>2, <2>7, StageReached DEF Pcs
    <2> QED BY <1>1, <1>4, <2>1, <2>8, GoesTo DEF Kept, Pcs
  <1>6. CASE Theirs(r).accepted # reqs[r].arg
    BY <1>4, <1>6, Ends DEF Accept, Kept
  <1> QED BY <1>5, <1>6

LEMMA UnacceptKeeps ==
    ASSUME IInv, Remember, NEW r \in Slots, Unaccept(r)
    PROVE  Kept
  <1>1. /\ reqs[r] # None /\ InRoom(r)
        /\ sides' = [sides EXCEPT ![Me(r)].accepted = None]
        /\ UNCHANGED <<room, expired, items, relays, at>>
    BY DEF Unaccept, Loaded, At, NotAccepted
  <1>2. reqs[r] \in Requests /\ Me(r) \in Side
    BY <1>1, MyOwnSide DEF IInv, RequestsOK, RequestOK
  <1>3. TablesOK' /\ ExecutableIsAgreed' /\ Advance
    BY <1>1, <1>2, AcceptanceWritten
  <1>4. CASE reqs[r].room.status = "accepted"
    <2>1. Goto(r, "unlock")
      BY <1>4 DEF Unaccept
    <2>2. StageOK([reqs[r] EXCEPT !.pc = "unlock"], everAccepted', Len(relays'))
      BY <1>2, StageReached DEF Pcs
    <2> QED BY <1>1, <1>3, <2>1, <2>2, GoesTo DEF Kept, Pcs
  <1>5. CASE reqs[r].room.status # "accepted"
    BY <1>3, <1>5, Ends DEF Unaccept, Kept
  <1> QED BY <1>4, <1>5

-----------------------------------------------------------------------------
(* The steps that write a relay row. *)

LEMMA PostSignableKeeps ==
    ASSUME IInv, Remember, NEW r \in Slots, PostSignable(r)
    PROVE  Kept
  <1>1. /\ reqs[r] # None /\ reqs[r].pc = "post" /\ End(r) /\ Len(relays) < MaxRelays
        /\ UNCHANGED <<room, expired, sides, items, at>>
    BY DEF PostSignable, At
  <1>2. RequestOK(reqs[r], room.version, everAccepted, Len(relays))
    BY <1>1 DEF IInv, RequestsOK
  <1>3. /\ reqs[r].sides \in SideTable /\ reqs[r].items \in ItemTable /\ InRoom(r)
        /\ \A s \in Side : reqs[r].sides[s].source # None
    BY <1>1, <1>2 DEF RequestOK, StageOK, Requests, CallerIn, InRoom
  <1>4. PICK row : row = [cosigner |-> Theirs(r).signer, initiator |-> Me(r),
                          voucher |-> Voucher(reqs[r].sides, reqs[r].items),
                          signed |-> FALSE, fresh |-> TRUE, executed |-> FALSE]
    OBVIOUS
  <1>5. relays' = Append(relays, row)
    BY <1>4 DEF PostSignable
  <1>6. /\ Voucher(reqs[r].sides, reqs[r].items) \in [Side -> VoucherRow]
        /\ \A s \in Side : Voucher(reqs[r].sides, reqs[r].items)[s].source # None
    BY <1>3 DEF Voucher, VoucherRow, SideTable, SideRow, ItemTable
  <1>7. Me(r) \in Side /\ Theirs(r).signer \in Accounts \cup {None}
    <2>1. Me(r) \in Side /\ Other(Me(r)) \in Side
      BY <1>3, MyOwnSide DEF Other
    <2> QED BY <1>3, <2>1 DEF Theirs, SideTable, SideRow
  <1>8. row \in RelayRow /\ \A s \in Side : row.voucher[s].source # None
    BY <1>4, <1>6, <1>7 DEF RelayRow
  <1>9. RelaysOK' /\ Len(relays) <= Len(relays')
    <2>1. relays \in Seq(RelayRow) /\ Len(relays) \in Nat
      BY DEF IInv, TablesOK, RelaysOK
    <2>2. relays' \in Seq(RelayRow) /\ Len(relays') = Len(relays) + 1
      BY <1>5, <1>8, <2>1
    <2>3. \A i \in 1..Len(relays') : relays'[i] = IF i <= Len(relays) THEN relays[i] ELSE row
      BY <1>5, <1>8, <2>1, <2>2
    <2>4. \A i \in 1..Len(relays') : \A s \in Side : relays'[i].voucher[s].source # None
      BY <1>8, <2>1, <2>2, <2>3 DEF IInv, TablesOK, RelaysOK
    <2> QED BY <1>1, <2>1, <2>2, <2>4 DEF RelaysOK
  <1>10. TablesOK' /\ ExecutableIsAgreed' /\ Advance
    BY <1>1, <1>9, RelayWritten DEF IInv, TablesOK
  <1> QED BY <1>1, <1>10, Ends DEF Kept

(* One attempt's flags change; what it would move does not.                *)
LEMMA FlagsWritten ==
    ASSUME IInv, Remember, UNCHANGED <<room, expired, sides, items>>,
           NEW i \in 1..Len(relays), NEW row \in RelayRow, relays' = [relays EXCEPT ![i] = row],
           row.voucher = relays[i].voucher, at' \in [Moments -> Accounts]
    PROVE  TablesOK' /\ ExecutableIsAgreed' /\ Advance
  <1>1. relays \in Seq(RelayRow) /\ Len(relays) \in Nat /\ Len(relays) <= MaxRelays
    BY DEF IInv, TablesOK, RelaysOK
  <1>2. relays' \in Seq(RelayRow) /\ Len(relays') = Len(relays)
    BY <1>1
  <1>3. \A j \in 1..Len(relays) : relays'[j].voucher = relays[j].voucher
    BY <1>1
  <1>4. RelaysOK'
    BY <1>1, <1>2, <1>3 DEF IInv, TablesOK, RelaysOK
  <1> QED BY <1>1, <1>2, <1>4, RelayWritten

LEMMA ARelay ==
    ASSUME IInv, NEW i \in DOMAIN relays
    PROVE  i \in 1..Len(relays) /\ relays[i] \in RelayRow
  BY DEF IInv, TablesOK, RelaysOK

LEMMA PostSignatureKeeps ==
    ASSUME IInv, Remember, NEW r \in Slots, PostSignature(r)
    PROVE  Kept
  <1>1. /\ reqs[r] # None /\ reqs[r].pc = "sign" /\ End(r)
        /\ UNCHANGED <<room, expired, sides, items, at>>
    BY DEF PostSignature, At
  <1>2. RequestOK(reqs[r], room.version, everAccepted, Len(relays)) /\ relays \in Seq(RelayRow)
    BY <1>1 DEF IInv, RequestsOK, TablesOK, RelaysOK
  <1>3. PICK i \in 1..Len(relays) : i = reqs[r].arg
    BY <1>1, <1>2 DEF RequestOK, StageOK
  <1>4. PICK row : row = [relays[i] EXCEPT !.signed = TRUE]
    OBVIOUS
  <1>5. relays[i] \in RelayRow
    BY <1>2, <1>3
  <1>6. row \in RelayRow /\ row.voucher = relays[i].voucher
    BY <1>4, <1>5 DEF RelayRow
  <1>7. relays' = [relays EXCEPT ![i] = row]
    BY <1>2, <1>3, <1>4 DEF PostSignature
  <1>8. TablesOK' /\ ExecutableIsAgreed' /\ Advance
    BY <1>1, <1>6, <1>7, FlagsWritten DEF IInv, TablesOK
  <1> QED BY <1>1, <1>8, Ends DEF Kept

LEMMA RelayExpiresKeeps ==
    ASSUME IInv, Remember, NEW i \in DOMAIN relays, RelayExpires(i)
    PROVE  Kept
  <1>1. UNCHANGED <<room, expired, sides, items, at, reqs>>
    BY DEF RelayExpires
  <1>2. relays \in Seq(RelayRow) /\ i \in 1..Len(relays) /\ relays[i] \in RelayRow
    BY ARelay DEF IInv, TablesOK, RelaysOK
  <1>3. PICK row : row = [relays[i] EXCEPT !.fresh = FALSE]
    OBVIOUS
  <1>4. row \in RelayRow /\ row.voucher = relays[i].voucher
    BY <1>2, <1>3 DEF RelayRow
  <1>5. relays' = [relays EXCEPT ![i] = row]
    BY <1>2, <1>3 DEF RelayExpires
  <1>6. TablesOK' /\ ExecutableIsAgreed' /\ Advance
    BY <1>1, <1>2, <1>4, <1>5, FlagsWritten DEF IInv, TablesOK
  <1> QED BY <1>1, <1>6, AllKeep DEF Kept, IInv

LEMMA ExecuteSwapKeeps ==
    ASSUME IInv, Remember, NEW i \in DOMAIN relays, ExecuteSwap(i)
    PROVE  Kept
  <1>1. UNCHANGED <<room, expired, sides, items, reqs>>
    BY DEF ExecuteSwap
  <1>2. relays \in Seq(RelayRow) /\ i \in 1..Len(relays) /\ relays[i] \in RelayRow
    BY ARelay DEF IInv, TablesOK, RelaysOK
  <1>3. PICK row : row = [relays[i] EXCEPT !.executed = TRUE]
    OBVIOUS
  <1>4. row \in RelayRow /\ row.voucher = relays[i].voucher
    BY <1>2, <1>3 DEF RelayRow
  <1>5. relays' = [relays EXCEPT ![i] = row]
    BY <1>2, <1>3 DEF ExecuteSwap
  <1>6. at' \in [Moments -> Accounts]
    <2>1. PICK v : v = relays[i].voucher
      OBVIOUS
    <2>2. v["a"].source \in Accounts /\ v["b"].source \in Accounts
      BY <1>2, <2>1 DEF IInv, TablesOK, RelaysOK, RelayRow, VoucherRow
    <2>3. at' = [m \in Moments |-> IF m \in v["a"].gives THEN v["b"].source
                                   ELSE IF m \in v["b"].gives THEN v["a"].source ELSE at[m]]
      BY <2>1 DEF ExecuteSwap
    <2> QED BY <2>2, <2>3 DEF IInv, TablesOK
  <1>7. TablesOK' /\ ExecutableIsAgreed' /\ Advance
    BY <1>1, <1>2, <1>4, <1>5, <1>6, FlagsWritten
  <1> QED BY <1>1, <1>7, AllKeep DEF Kept, IInv

LEMMA MoveOutsideKeeps ==
    ASSUME IInv, Remember, NEW m \in Moments, NEW account \in Accounts,
           MoveOutside(m, account)
    PROVE  Kept
  <1>1. /\ UNCHANGED <<room, expired, sides, items, relays, reqs>>
        /\ at' = [at EXCEPT ![m] = account]
    BY DEF MoveOutside, db
  <1>2. TablesOK'
    BY <1>1 DEF IInv, TablesOK, RoomOK, AcceptedOK, RelaysOK
  <1>3. ExecutableIsAgreed'
    BY <1>1, HistoryGrows DEF IInv, ExecutableIsAgreed
  <1>4. Advance
    BY <1>1, HistoryGrows DEF IInv, TablesOK, RoomOK, RoomRow, RelaysOK, Advance
  <1> QED BY <1>1, <1>2, <1>3, <1>4, AllKeep DEF Kept, IInv

LEMMA ExpireKeeps ==
    ASSUME IInv, Remember, Expire
    PROVE  Kept
  <1>1. expired' = TRUE /\ UNCHANGED <<room, sides, items, relays, at, reqs>>
    BY DEF Expire
  <1>2. TablesOK'
    BY <1>1 DEF IInv, TablesOK, RoomOK, AcceptedOK, RelaysOK
  <1>3. ExecutableIsAgreed'
    BY <1>1, HistoryGrows DEF IInv, ExecutableIsAgreed
  <1>4. Advance
    BY <1>1, HistoryGrows DEF IInv, TablesOK, RoomOK, RoomRow, RelaysOK, Advance
  <1> QED BY <1>1, <1>2, <1>3, <1>4, AllKeep DEF Kept, IInv

-----------------------------------------------------------------------------
(* Edits: each successful bump starts from a version no other started from. *)

(* A step of request r that is no bump.                                    *)
NoBump(r) ==
    \E next : reqs' = [reqs EXCEPT ![r] = next] /\ (next = None \/ next.pc # "reset")

LEMMA EndIsNoBump ==
    ASSUME NEW r \in Slots, End(r)
    PROVE  NoBump(r)
  BY DEF End, NoBump

LEMMA GotoIsNoBump ==
    ASSUME IInv, NEW r \in Slots, reqs[r] # None, NEW pc \in Pcs \ {"reset"}, Goto(r, pc)
    PROVE  NoBump(r)
  <1>1. PICK next : next = [reqs[r] EXCEPT !.pc = pc]
    OBVIOUS
  <1>2. reqs' = [reqs EXCEPT ![r] = next]
    BY <1>1 DEF Goto
  <1>3. reqs[r] \in Requests
    BY DEF IInv, RequestsOK, RequestOK
  <1>4. next.pc # "reset"
    BY <1>1, <1>3, GoesOn
  <1> QED BY <1>2, <1>4 DEF NoBump

LEMMA NoBumpKeepsEdits ==
    ASSUME IInv, Remember, Advance, NEW r \in Slots, NoBump(r)
    PROVE  EditsOK'
  <1>1. PICK next : /\ reqs' = [reqs EXCEPT ![r] = next]
                    /\ next = None \/ next.pc # "reset"
    BY DEF NoBump
  <1>2. reqs' = [q \in Slots |-> IF q = r THEN next ELSE reqs[q]]
    BY <1>1 DEF IInv, RequestsOK
  <1>3. ASSUME NEW q \in Slots, At(q, "touch"), At(q, "reset")'
        PROVE  FALSE
    <2>1. reqs[q].pc = "touch" /\ reqs'[q] # None /\ reqs'[q].pc = "reset"
      BY <1>3 DEF At
    <2> QED BY <1>1, <1>2, <2>1
  <1>4. edits' = edits
    BY <1>3 DEF Remember
  <1> QED BY <1>4 DEF IInv, EditsOK, OneEditPerVersion, Advance

LEMMA StayKeepsEdits ==
    ASSUME IInv, Remember, Advance, reqs' = reqs
    PROVE  EditsOK'
  <1>1. \A q \in Slots : ~(At(q, "touch") /\ At(q, "reset")')
    BY DEF At
  <1>2. edits' = edits
    BY <1>1 DEF Remember
  <1> QED BY <1>2 DEF IInv, EditsOK, OneEditPerVersion, Advance

LEMMA TouchKeepsEdits ==
    ASSUME IInv, Remember, NEW r \in Slots, Touch(r)
    PROVE  EditsOK'
  <1>1. /\ reqs[r] # None /\ reqs[r].pc = "touch" /\ room.version = reqs[r].room.version
        /\ reqs' = [reqs EXCEPT ![r].pc = "reset"]
    BY DEF Touch, At, TouchMatches, Goto
  <1>2. /\ reqs = [q \in Slots |-> reqs[q]] /\ room.version \in Nat /\ room \in RoomRow
        /\ edits \in Seq(Nat) /\ \A i \in DOMAIN edits : edits[i] < room.version
    BY DEF IInv, RequestsOK, TablesOK, RoomOK, RoomRow, EditsOK
  <1>3. room'.version = room.version + 1
    <2>1. room' = [room EXCEPT !.version = room.version + 1,
                               !.status = TouchedStatus(reqs[r].room)]
      BY <1>1 DEF Touch
    <2> QED BY <2>1, <1>2 DEF RoomRow
  <1>4. \A q \in Slots : At(q, "touch") /\ At(q, "reset")' => q = r
    BY <1>1, <1>2 DEF At
  <1>5. edits' = edits \/ edits' = Append(edits, room.version)
    BY <1>1, <1>4 DEF Remember
  <1>6. CASE edits' = edits
    <2>1. OneEditPerVersion'
      BY <1>6 DEF IInv, EditsOK, OneEditPerVersion
    <2> QED BY <1>2, <1>3, <1>6, <2>1 DEF EditsOK
  <1>7. CASE edits' = Append(edits, room.version)
    <2>1. /\ edits' \in Seq(Nat) /\ DOMAIN edits' = 1..(Len(edits) + 1)
          /\ DOMAIN edits = 1..Len(edits) /\ Len(edits) \in Nat
          /\ edits'[Len(edits) + 1] = room.version
          /\ \A i \in 1..Len(edits) : edits'[i] = edits[i]
      BY <1>2, <1>7
    <2>2. \A i \in DOMAIN edits' : edits'[i] < room'.version
      <3>1. \A i \in 1..Len(edits) : edits[i] \in Nat /\ edits[i] < room.version
        BY <1>2, <2>1
      <3>2. \A i \in 1..Len(edits) : edits'[i] < room.version + 1
        BY <1>2, <2>1, <3>1
      <3>3. \A i \in 1..(Len(edits) + 1) : i \in 1..Len(edits) \/ i = Len(edits) + 1
        BY <2>1
      <3>4. edits'[Len(edits) + 1] < room.version + 1
        BY <1>2, <2>1
      <3> QED BY <1>3, <2>1, <3>2, <3>3, <3>4
    <2>3. OneEditPerVersion'
      <3>1. \A i, j \in 1..Len(edits) : edits[i] = edits[j] => i = j
        BY <2>1 DEF IInv, EditsOK, OneEditPerVersion, IsInjective
      <3>2. \A i \in 1..Len(edits) : edits[i] # room.version
        BY <1>2, <2>1
      <3>3. \A i, j \in DOMAIN edits' : edits'[i] = edits'[j] => i = j
        BY <2>1, <3>1, <3>2
      <3> QED BY <3>3 DEF OneEditPerVersion, IsInjective
    <2> QED BY <2>1, <2>2, <2>3 DEF EditsOK
  <1> QED BY <1>5, <1>6, <1>7

(* Every other step of a request ends it or goes on to another statement.  *)
LEMMA OnlyTouchBumps ==
    ASSUME IInv, NEW r \in Slots, HandlerStep(r), ~Touch(r)
    PROVE  NoBump(r)
  <1>1. CASE ReadSides(r) \/ ReadItems(r)
    <2>1. reqs[r] # None /\ reqs[r].pc = "load" /\ reqs[r] \in Requests
      BY <1>1 DEF ReadSides, ReadItems, At, IInv, RequestsOK, RequestOK
    <2>2. PICK next : \/ next = [reqs[r] EXCEPT !.sides = sides] /\ ReadSides(r)
                      \/ next = [reqs[r] EXCEPT !.items = items] /\ ReadItems(r)
      BY <1>1
    <2>3. next.pc # "reset"
      BY <2>1, <2>2 DEF Requests
    <2>4. reqs' = [reqs EXCEPT ![r] = next]
      BY <2>2 DEF ReadSides, ReadItems
    <2> QED BY <2>3, <2>4 DEF NoBump
  <1>2. CASE VerifyAgain(r)
    <2>1. reqs[r] # None /\ reqs[r] \in Requests
      BY <1>2 DEF VerifyAgain, Loaded, At, IInv, RequestsOK, RequestOK
    <2>2. PICK next : next = [reqs[r] EXCEPT !.pc = "seal", !.arg = reqs[r].room.tx]
      OBVIOUS
    <2>3. next.pc = "seal"
      BY <2>1, <2>2 DEF Requests
    <2>4. reqs = [q \in Slots |-> reqs[q]]
      BY DEF IInv, RequestsOK
    <2>5. reqs' = [reqs EXCEPT ![r] = next]
      BY <1>2, <2>1, <2>2, <2>4 DEF VerifyAgain, Requests
    <2> QED BY <2>3, <2>5 DEF NoBump
  <1>3. CASE \/ Fail(r) \/ JoinedStatus(r) \/ ResetAcceptances(r) \/ LockRoom(r) \/ UnlockRoom(r)
             \/ CancelRoom(r) \/ PostSignable(r) \/ PostSignature(r) \/ MarkSigningEnded(r)
             \/ MarkSealed(r)
    <2>1. End(r)
      BY <1>3 DEF Fail, JoinedStatus, ResetAcceptances, LockRoom, UnlockRoom, CancelRoom,
                  PostSignable, PostSignature, MarkSigningEnded, MarkSealed
    <2> QED BY <2>1, EndIsNoBump
  <1>4. CASE \/ JoinRoom(r) \/ ClearItems(r) \/ CheckPicks(r) \/ SaveItems(r) \/ PruneItems(r)
             \/ MarkSigning(r) \/ CheckRelay(r) \/ VerifyLanded(r) \/ VerifyOther(r)
    <2>1. /\ reqs[r] # None
          /\ \E pc \in {"joined", "touch", "save", "prune", "post", "sign", "landed", "seal"} :
                Goto(r, pc)
      BY <1>4 DEF JoinRoom, ClearItems, CheckPicks, SaveItems, PruneItems, MarkSigning,
                  CheckRelay, VerifyLanded, VerifyOther, Loaded, At
    <2>2. PICK pc \in Pcs \ {"reset"} : Goto(r, pc)
      BY <2>1 DEF Pcs
    <2> QED BY <2>1, <2>2, GotoIsNoBump
  <1>5. CASE SetWallet(r) \/ Accept(r) \/ Unaccept(r)
    <2>1. reqs[r] # None /\ (End(r) \/ \E pc \in {"clear", "touch", "lock", "unlock"} : Goto(r, pc))
      BY <1>5 DEF SetWallet, Accept, Unaccept, Loaded, At
    <2>2. CASE End(r)
      BY <2>2, EndIsNoBump
    <2>3. CASE \E pc \in {"clear", "touch", "lock", "unlock"} : Goto(r, pc)
      <3>1. PICK pc \in Pcs \ {"reset"} : Goto(r, pc)
        BY <2>3 DEF Pcs
      <3> QED BY <2>1, <3>1, GotoIsNoBump
    <2> QED BY <2>1, <2>2, <2>3
  <1> QED BY <1>1, <1>2, <1>3, <1>4, <1>5 DEF HandlerStep

-----------------------------------------------------------------------------
(* The invariant. *)

LEMMA HandlerStepKeeps ==
    ASSUME IInv, Remember, NEW r \in Slots, HandlerStep(r)
    PROVE  Kept
  <1>1. CASE ReadSides(r) \/ ReadItems(r) \/ Fail(r)
    BY <1>1, ReadSidesKeeps, ReadItemsKeeps, FailKeeps
  <1>2. CASE JoinRoom(r) \/ JoinedStatus(r) \/ SetWallet(r) \/ ClearItems(r)
    BY <1>2, JoinRoomKeeps, JoinedStatusKeeps, SetWalletKeeps, ClearItemsKeeps
  <1>3. CASE CheckPicks(r) \/ SaveItems(r) \/ PruneItems(r) \/ Touch(r) \/ ResetAcceptances(r)
    BY <1>3, CheckPicksKeeps, SaveItemsKeeps, PruneItemsKeeps, TouchKeeps,
       ResetAcceptancesKeeps
  <1>4. CASE Accept(r) \/ LockRoom(r) \/ Unaccept(r) \/ UnlockRoom(r) \/ CancelRoom(r)
    BY <1>4, AcceptKeeps, LockRoomKeeps, UnacceptKeeps, UnlockRoomKeeps, CancelRoomKeeps
  <1>5. CASE \/ MarkSigning(r) \/ PostSignable(r) \/ CheckRelay(r) \/ PostSignature(r)
             \/ MarkSigningEnded(r)
    BY <1>5, MarkSigningKeeps, PostSignableKeeps, CheckRelayKeeps, PostSignatureKeeps,
       MarkSigningEndedKeeps
  <1>6. CASE VerifyLanded(r) \/ VerifyOther(r) \/ VerifyAgain(r) \/ MarkSealed(r)
    BY <1>6, VerifyLandedKeeps, VerifyOtherKeeps, VerifyAgainKeeps, MarkSealedKeeps
  <1> QED BY <1>1, <1>2, <1>3, <1>4, <1>5, <1>6 DEF HandlerStep

LEMMA StepKeeps ==
    ASSUME IInv, HNext
    PROVE  IInv'
  <1>1. Remember /\ RememberedOK'
    BY HistoryGrows DEF HNext
  <1>2. CASE \E r \in Slots : HandlerStep(r)
    <2>1. PICK r \in Slots : HandlerStep(r)
      BY <1>2
    <2>2. Kept
      BY <1>1, <2>1, HandlerStepKeeps
    <2>3. EditsOK'
      <3>1. CASE Touch(r)
        BY <1>1, <3>1, TouchKeepsEdits
      <3>2. CASE ~Touch(r)
        BY <1>1, <2>1, <2>2, <3>2, OnlyTouchBumps, NoBumpKeepsEdits DEF Kept
      <3> QED BY <3>1, <3>2
    <2> QED BY <1>1, <2>2, <2>3 DEF Kept, IInv
  <1>3. CASE \E r \in FreeSlot, kind \in Kinds, user \in Users :
                \E arg \in Args(kind, user) : Start(r, kind, user, arg)
    <2>1. PICK r \in FreeSlot, kind \in Kinds, user \in Users :
                \E arg \in Args(kind, user) : Start(r, kind, user, arg)
      BY <1>3
    <2>2. PICK arg \in Args(kind, user) : Start(r, kind, user, arg)
      BY <2>1
    <2>3. r \in Slots
      BY DEF FreeSlot, Idle
    <2>4. Kept
      BY <1>1, <2>2, <2>3, StartKeeps
    <2>5. NoBump(r)
      <3>1. PICK next : next = [kind |-> kind, user |-> user, arg |-> arg, pc |-> "load",
                                room |-> room, sides |-> None, items |-> None]
        OBVIOUS
      <3>2. next.pc = "load" /\ reqs' = [reqs EXCEPT ![r] = next]
        BY <2>2, <3>1 DEF Start
      <3> QED BY <3>2 DEF NoBump
    <2>6. EditsOK'
      BY <1>1, <2>3, <2>4, <2>5, NoBumpKeepsEdits DEF Kept
    <2> QED BY <1>1, <2>4, <2>6 DEF Kept, IInv
  <1>4. CASE \/ Expire
             \/ \E m \in Moments, account \in Accounts : MoveOutside(m, account)
             \/ \E i \in DOMAIN relays : RelayExpires(i) \/ ExecuteSwap(i)
    <2>1. Kept
      BY <1>1, <1>4, ExpireKeeps, MoveOutsideKeeps, RelayExpiresKeeps, ExecuteSwapKeeps
    <2>2. reqs' = reqs
      BY <1>4 DEF Expire, MoveOutside, RelayExpires, ExecuteSwap
    <2>3. EditsOK'
      BY <1>1, <2>1, <2>2, StayKeepsEdits DEF Kept
    <2> QED BY <1>1, <2>1, <2>3 DEF Kept, IInv
  <1> QED BY <1>2, <1>3, <1>4 DEF HNext, Next

LEMMA InitiallySound ==
    ASSUME HInit
    PROVE  IInv
  <1>0. PICK guest \in {None} \cup (Users \ {Creator}) : Opened(guest)
    BY DEF HInit, Init
  <1>1. /\ room = [status |-> IF guest = None THEN "open" ELSE "building",
                   version |-> 1, tx |-> None]
        /\ relays = << >> /\ expired = FALSE /\ at = HomeOf /\ edits = << >>
    BY <1>0 DEF HInit, Opened
  <1>2. /\ room \in RoomRow /\ room.version = 1
        /\ room.status \in {"open", "building"}
    BY <1>1 DEF RoomRow, Statuses
  <1>3. /\ sides = [s \in Side |->
                     [AbsentSide EXCEPT !.user = IF s = "a" THEN Creator ELSE guest]]
        /\ items = [s \in Side |-> {}]
    BY <1>0 DEF Opened
  <1>4. sides \in SideTable /\ \A s \in Side : sides[s].accepted = None
    <2>1. ASSUME NEW u \in Users \cup {None}
          PROVE  /\ [AbsentSide EXCEPT !.user = u] \in SideRow
                 /\ [AbsentSide EXCEPT !.user = u].accepted = None
      BY DEF AbsentSide, SideRow
    <2> QED BY <1>3, <2>1 DEF SideTable
  <1>5. items \in ItemTable
    BY <1>3 DEF ItemTable
  <1>6. relays \in Seq(RelayRow) /\ Len(relays) = 0
    BY <1>1
  <1>7. TablesOK
    <2>1. RoomOK
      BY <1>2 DEF RoomOK
    <2>2. AcceptedOK
      BY <1>4 DEF AcceptedOK
    <2>3. RelaysOK
      BY <1>6 DEF RelaysOK
    <2>4. expired \in BOOLEAN /\ at \in [Moments -> Accounts]
      BY <1>1
    <2> QED BY <1>4, <1>5, <2>1, <2>2, <2>3, <2>4 DEF TablesOK
  <1>8. RememberedOK /\ ExecutableIsAgreed
    BY <1>2, <1>4 DEF RememberedOK, ExecutableIsAgreed
  <1>9. edits \in Seq(Nat) /\ DOMAIN edits = {}
    BY <1>1
  <1>10. EditsOK
    BY <1>9 DEF EditsOK, OneEditPerVersion, IsInjective
  <1>11. reqs = [r \in Slots |-> None]
    BY <1>0 DEF Opened
  <1>12. RequestsOK
    BY <1>11 DEF RequestsOK
  <1> QED BY <1>7, <1>8, <1>10, <1>12 DEF IInv

(* The invariant every theorem below rests on.                             *)
THEOREM RoomInvariant == HSpec => []IInv
  <1>1. HInit => IInv
    BY InitiallySound
  <1>2. IInv /\ [HNext]_hvars => IInv'
    <2> SUFFICES ASSUME IInv, [HNext]_hvars
                 PROVE  IInv'
      OBVIOUS
    <2>1. CASE HNext
      BY <2>1, StepKeeps
    <2>2. CASE UNCHANGED hvars
      BY <2>2 DEF hvars, vars, IInv, TablesOK, RoomOK, AcceptedOK, RelaysOK, RememberedOK,
                  ExecutableIsAgreed, EditsOK, OneEditPerVersion, RequestsOK
    <2> QED BY <2>1, <2>2
  <1> QED BY <1>1, <1>2, PTL DEF HSpec

(* Whatever interleaves, the tables keep their columns' types, and no      *)
(* acceptance is of a version the room has not reached.                    *)
THEOREM RoomTyped == HSpec => []TypeOK
  <1>1. IInv => TypeOK
    <2> SUFFICES ASSUME IInv PROVE TypeOK
      OBVIOUS
    <2>1. Len(relays) <= MaxRelays
      BY DEF IInv, TablesOK, RelaysOK
    <2>2. /\ room.status \in Statuses
          /\ room.version \in Nat \ {0}
          /\ room.tx \in {None} \cup TxIds
      BY DEF IInv, TablesOK, RoomOK, RoomRow
    <2>3. \A s \in Side :
            /\ sides[s].user \in Users \cup {None}
            /\ {sides[s].signer, sides[s].source} \subseteq Accounts \cup {None}
            /\ sides[s].accepted \in {None} \cup 1..room.version
            /\ items[s] \subseteq Moments
      BY DEF IInv, TablesOK, AcceptedOK, SideTable, SideRow, ItemTable
    <2> QED BY <2>1, <2>2, <2>3 DEF IInv, TablesOK, TypeOK
  <1> QED BY <1>1, RoomInvariant, PTL

(* No interleaving of edits, acceptances, withdrawals, failed requests and *)
(* locks makes the room executable at a version a side has not accepted.   *)
THEOREM RoomExecutesWhatWasAgreed == HSpec => []ExecutableIsAgreed
  <1>1. IInv => ExecutableIsAgreed
    BY DEF IInv
  <1> QED BY <1>1, RoomInvariant, PTL

(* Of concurrent edits loaded from one version, one at most succeeds.      *)
THEOREM RoomEditsSerialize == HSpec => []OneEditPerVersion
  <1>1. IInv => OneEditPerVersion
    BY DEF IInv, EditsOK
  <1> QED BY <1>1, RoomInvariant, PTL

-----------------------------------------------------------------------------
(* A finished version stays finished. *)

LEMMA FinishedStays ==
    ASSUME IInv, NEW r \in Slots, HandlerStep(r),
           room.status \in {"sealed", "cancelled"}, room'.status # room.status
    PROVE  room'.version > room.version
  <1>1. room \in RoomRow /\ room' # room
    BY DEF IInv, TablesOK, RoomOK
  <1>2. CASE Touch(r)
    <2>1. room' = [room EXCEPT !.version = room.version + 1,
                               !.status = TouchedStatus(reqs[r].room)]
      BY <1>2 DEF Touch, TouchMatches
    <2>2. room'.version = room.version + 1 /\ room.version \in Nat
      BY <1>1, <2>1 DEF RoomRow
    <2> QED BY <2>2
  <1>3. CASE JoinedStatus(r) \/ UnlockRoom(r) \/ MarkSigningEnded(r)
    <2>1. room'.status = room.status
      BY <1>1, <1>3 DEF JoinedStatus, UnlockRoom, MarkSigningEnded, RoomRow
    <2> QED BY <2>1
  <1>4. CASE LockRoom(r)
    BY <1>1, <1>4 DEF LockRoom, CanLock
  <1>5. CASE MarkSigning(r)
    BY <1>5 DEF MarkSigning
  <1>6. CASE CancelRoom(r)
    <2>1. room'.status = room.status
      BY <1>1, <1>6 DEF CancelRoom, RoomRow
    <2> QED BY <2>1
  <1>7. CASE MarkSealed(r)
    <2>1. CASE CanSeal
      <3>1. room' = [room EXCEPT !.status = "sealed", !.tx = reqs[r].arg] /\ room.status = "sealed"
        BY <1>7, <2>1 DEF MarkSealed, CanSeal
      <3>2. room'.status = room.status
        BY <1>1, <3>1 DEF RoomRow
      <3> QED BY <3>2
    <2>2. CASE ~CanSeal
      BY <1>1, <1>7, <2>2 DEF MarkSealed
    <2> QED BY <2>1, <2>2
  <1>8. CASE \/ ReadSides(r) \/ ReadItems(r) \/ Fail(r) \/ JoinRoom(r) \/ SetWallet(r)
             \/ ClearItems(r) \/ CheckPicks(r) \/ SaveItems(r) \/ PruneItems(r)
             \/ ResetAcceptances(r) \/ Accept(r) \/ Unaccept(r) \/ PostSignable(r)
             \/ CheckRelay(r) \/ PostSignature(r) \/ VerifyLanded(r) \/ VerifyOther(r)
             \/ VerifyAgain(r)
    BY <1>1, <1>8 DEF ReadSides, ReadItems, Fail, JoinRoom, SetWallet, ClearItems, CheckPicks,
         SaveItems, PruneItems, ResetAcceptances, Accept, Unaccept, PostSignable, CheckRelay,
         PostSignature, VerifyLanded, VerifyOther, VerifyAgain, db
  <1> QED BY <1>2, <1>3, <1>4, <1>5, <1>6, <1>7, <1>8 DEF HandlerStep

(* A sealed or cancelled proposal is taken up again only as a new version: *)
(* whatever a late lock, seal, unlock or cancel had read.                  *)
THEOREM RoomStaysFinished == HSpec => FinishedVersionStaysFinished
  <1> DEFINE Stays == room.status \in {"sealed", "cancelled"} /\ room'.status # room.status
                          => room'.version > room.version
  <1>1. IInv /\ [HNext]_hvars => [Stays]_vars
    <2> SUFFICES ASSUME IInv, HNext PROVE Stays
      BY DEF hvars
    <2>1. CASE \E r \in Slots : HandlerStep(r)
      BY <2>1, FinishedStays
    <2>2. CASE room' = room
      BY <2>2
    <2>3. (\E r \in Slots : HandlerStep(r)) \/ room' = room
      BY DEF HNext, Next, Start, db, Expire, MoveOutside, RelayExpires, ExecuteSwap
    <2> QED BY <2>1, <2>2, <2>3
  <1> QED BY <1>1, RoomInvariant, PTL DEF HSpec, FinishedVersionStaysFinished

-----------------------------------------------------------------------------
(* A seal is of goods that changed hands.                                  *)
(*                                                                         *)
(* A side's items, and those a request has loaded, have been in accounts   *)
(* its user proves (ItemsWith), because they were read there before they   *)
(* were saved, and where a moment has been is not forgotten when it moves. *)
(* A report that has read a leg of its swap adds where the goods are       *)
(* (GaveOver), and what it seals or sealed stays handed over (Handed).     *)

SidesOwned ==
    \A s \in Side : sides[s].source # None =>
          sides[s].user # None /\ sides[s].source \in SourcesOf(sides[s].user)

(* Loaded sides are the room's, as far as they were set.                    *)
LoadedOwned(q, now) ==
    /\ q.kind = "wallet" => q.arg \in Wallets[q.user]
    /\ q.sides # None => \A s \in Side :
          /\ q.sides[s].user # None => q.sides[s].user = now[s].user
          /\ q.sides[s].source # None =>
                q.sides[s].user # None /\ q.sides[s].source \in SourcesOf(q.sides[s].user)

(* Moment m has been with user u, and is where chain has it.               *)
With(m, u, chain, paths) ==
    m \in Moments /\ \E x \in SourcesOf(u) : <<m, x, chain[m]>> \in paths

AllWith(moments, u, chain, paths) == \A m \in moments : With(m, u, chain, paths)

ItemsWith(theItems, now, chain, paths) ==
    \A s \in Side : AllWith(theItems[s], now[s].user, chain, paths)

(* What side s gives in the loaded swap has gone to the other side.        *)
GaveOver(q, s, now, paths) ==
    \A m \in q.items[s] :
        \E x \in SourcesOf(now[s].user) : <<m, x, q.sides[Other(s)].source>> \in paths

Handed == HandedOver(receipt)

RequestWith(q, now, chain, paths, done) ==
    /\ q.room.status = "sealed" => done
    /\ q.items # None => ItemsWith(q.items, now, chain, paths)
    /\ q.pc = "save" => AllWith(q.arg, q.user, chain, paths)
    /\ q.pc \in {"landed", "seal"} /\ q.kind = "sealed" =>
          /\ q.items # None
          /\ \E s \in Side : q.items[s] # {}
          /\ GaveOver(q, "a", now, paths)
    /\ q.pc = "seal" /\ q.kind = "sealed" => GaveOver(q, "b", now, paths)
    /\ q.pc = "seal" /\ q.kind # "sealed" => done

Knows(q, now, chain, paths, done) ==
    LoadedOwned(q, now) /\ RequestWith(q, now, chain, paths, done)

SealInv ==
    /\ SidesOwned
    /\ ItemsWith(items, sides, at, went)
    /\ SealedIsHandedOver
    /\ \A r \in Slots : reqs[r] # None => Knows(reqs[r], sides, at, went, Handed)

UsersStay == \A s \in Side : sides[s].user # None => sides'[s].user = sides[s].user

(* What has been shown once stays shown.                                   *)
ShownStays ==
    /\ UsersStay
    /\ went \subseteq went'
    /\ \A m, u : With(m, u, at, went) => With(m, u, at', went')
    /\ Handed => Handed'

TablesShown ==
    /\ ShownStays
    /\ SidesOwned'
    /\ ItemsWith(items', sides', at', went')
    /\ SealedIsHandedOver'

LEMMA SourcesOfSomeone ==
    ASSUME NEW u
    PROVE  /\ SourcesOf(u) \subseteq Accounts
           /\ SourcesOf(u) # {} => u # None
  BY DEF SourcesOf

LEMMA NothingForgotten ==
    ASSUME Remember
    PROVE  /\ went \subseteq went'
           /\ \A m, u : With(m, u, at, went) => With(m, u, at', went')
  <1>1. went' = went \cup
           UNION {{<<m, x, at'[m]>> : x \in BeenIn(m) \cup {at'[m]}} : m \in Moments}
    BY DEF Remember
  <1>2. ASSUME NEW m, NEW u, With(m, u, at, went)
        PROVE  With(m, u, at', went')
    <2>1. PICK x \in SourcesOf(u) : <<m, x, at[m]>> \in went
      BY <1>2 DEF With
    <2>2. m \in Moments /\ x \in BeenIn(m)
      BY <1>2, <2>1, SourcesOfSomeone DEF With, BeenIn
    <2>3. <<m, x, at'[m]>> \in went'
      BY <1>1, <2>2
    <2> QED BY <2>1, <2>2, <2>3 DEF With
  <1> QED BY <1>1, <1>2

LEMMA HandedStays ==
    ASSUME UsersStay, went \subseteq went', NEW t, HandedOver(t)
    PROVE  HandedOver(t)'
  <1>1. ASSUME NEW s \in Side, NEW m \in t[s].gives
        PROVE  \E x \in SourcesOf(sides'[s].user) : <<m, x, t[s].to>> \in went'
    <2>1. PICK x \in SourcesOf(sides[s].user) : <<m, x, t[s].to>> \in went
      BY <1>1 DEF HandedOver
    <2>2. sides'[s].user = sides[s].user
      BY <2>1, SourcesOfSomeone DEF UsersStay
    <2> QED BY <2>1, <2>2
  <1> QED BY <1>1 DEF HandedOver

(* A report that has read both legs seals on terms that were carried out.  *)
LEMMA ReportIsRight ==
    ASSUME SealInv, NEW r \in Slots, At(r, "seal"), reqs[r].kind = "sealed"
    PROVE  HandedOver(Terms(reqs[r]))
  <1>1. RequestWith(reqs[r], sides, at, went, Handed) /\ reqs[r].pc = "seal"
    BY DEF SealInv, Knows, At
  <1>2. /\ \E s \in Side : reqs[r].items[s] # {}
        /\ GaveOver(reqs[r], "a", sides, went) /\ GaveOver(reqs[r], "b", sides, went)
    BY <1>1 DEF RequestWith
  <1>3. \A s \in Side : /\ Terms(reqs[r])[s].gives = reqs[r].items[s]
                        /\ Terms(reqs[r])[s].to = reqs[r].sides[Other(s)].source
    BY DEF Terms
  <1> QED BY <1>2, <1>3 DEF HandedOver, GaveOver

(* The receipt only ever changes for one that is as good.                  *)
LEMMA ReceiptsHold ==
    ASSUME SealInv, Remember, UsersStay
    PROVE  /\ Handed => Handed'
           /\ (\E r \in Slots : Sealing(r)) => Handed'
  <1>1. went \subseteq went'
    BY NothingForgotten
  <1>2. CASE \E r \in Slots : Sealing(r)
    <2>1. PICK r \in Slots : receipt' = Terms(reqs[r]) /\ Sealing(r)
      BY <1>2 DEF Remember
    <2>2. PICK t : t = Terms(reqs[r])
      OBVIOUS
    <2>3. HandedOver(t)'
      BY <1>1, <2>1, <2>2, ReportIsRight, HandedStays DEF Sealing
    <2> QED BY <2>1, <2>2, <2>3 DEF Handed, HandedOver
  <1>3. CASE ~\E r \in Slots : Sealing(r)
    <2>1. receipt' = receipt
      BY <1>3 DEF Remember
    <2>2. PICK t : t = receipt
      OBVIOUS
    <2>3. HandedOver(t) => HandedOver(t)'
      BY <1>1, HandedStays
    <2> QED BY <1>3, <2>1, <2>2, <2>3 DEF Handed, HandedOver
  <1> QED BY <1>2, <1>3

LEMMA Shown ==
    ASSUME SealInv, Remember, UsersStay
    PROVE  ShownStays
  BY NothingForgotten, ReceiptsHold DEF ShownStays

LEMMA KnowsStays ==
    ASSUME ShownStays, NEW q, Knows(q, sides, at, went, Handed)
    PROVE  Knows(q, sides', at', went', Handed')
  <1>1. LoadedOwned(q, sides')
    BY DEF Knows, LoadedOwned, ShownStays, UsersStay
  <1>2. ASSUME NEW s \in Side, NEW x \in SourcesOf(sides[s].user)
        PROVE  sides'[s].user = sides[s].user
    BY <1>2, SourcesOfSomeone DEF ShownStays, UsersStay
  <1>3. ASSUME NEW moments, NEW s \in Side, AllWith(moments, sides[s].user, at, went)
        PROVE  AllWith(moments, sides'[s].user, at', went')
    <2> SUFFICES ASSUME NEW m \in moments PROVE With(m, sides'[s].user, at', went')
      BY DEF AllWith
    <2>1. With(m, sides[s].user, at, went)
      BY <1>3 DEF AllWith
    <2>2. sides'[s].user = sides[s].user
      BY <1>2, <2>1 DEF With
    <2> QED BY <2>1, <2>2 DEF ShownStays
  <1>4. ASSUME NEW theItems, ItemsWith(theItems, sides, at, went)
        PROVE  ItemsWith(theItems, sides', at', went')
    BY <1>3, <1>4 DEF ItemsWith
  <1>5. ASSUME NEW moments, NEW u, AllWith(moments, u, at, went)
        PROVE  AllWith(moments, u, at', went')
    BY <1>5 DEF AllWith, ShownStays
  <1>6. ASSUME NEW s \in Side, GaveOver(q, s, sides, went)
        PROVE  GaveOver(q, s, sides', went')
    <2> SUFFICES ASSUME NEW m \in q.items[s]
                 PROVE  \E x \in SourcesOf(sides'[s].user) :
                            <<m, x, q.sides[Other(s)].source>> \in went'
      BY DEF GaveOver
    <2>1. PICK x \in SourcesOf(sides[s].user) : <<m, x, q.sides[Other(s)].source>> \in went
      BY <1>6 DEF GaveOver
    <2> QED BY <1>2, <2>1 DEF ShownStays
  <1>7. Handed => Handed'
    BY DEF ShownStays
  <1>8. RequestWith(q, sides', at', went', Handed')
    BY <1>4, <1>5, <1>6, <1>7 DEF Knows, RequestWith
  <1> QED BY <1>1, <1>8 DEF Knows

LEMMA KnowsGoesOn ==
    ASSUME NEW q \in Requests, NEW pc \in Pcs \ {"landed", "seal"}, NEW now, NEW chain,
           NEW paths, NEW done, Knows(q, now, chain, paths, done),
           pc = "save" => AllWith(q.arg, q.user, chain, paths)
    PROVE  Knows([q EXCEPT !.pc = pc], now, chain, paths, done)
  <1>1. PICK p : p = [q EXCEPT !.pc = pc]
    OBVIOUS
  <1>2. /\ p.pc = pc /\ p.kind = q.kind /\ p.user = q.user /\ p.arg = q.arg
        /\ p.room = q.room /\ p.sides = q.sides /\ p.items = q.items
    BY <1>1, GoesOn
  <1>3. LoadedOwned(p, now)
    BY <1>2 DEF Knows, LoadedOwned
  <1>4. RequestWith(p, now, chain, paths, done)
    BY <1>2 DEF Knows, RequestWith
  <1> QED BY <1>1, <1>3, <1>4 DEF Knows

(* The step of one request, whatever it writes.                            *)
LEMMA OneKnows ==
    ASSUME IInv, SealInv, TablesShown, NEW r \in Slots, NEW next,
           reqs' = [reqs EXCEPT ![r] = next],
           next # None => Knows(next, sides', at', went', Handed')
    PROVE  SealInv'
  <1>1. reqs' = [q \in Slots |-> IF q = r THEN next ELSE reqs[q]]
    BY DEF IInv, RequestsOK
  <1>2. ASSUME NEW q \in Slots, reqs'[q] # None
        PROVE  Knows(reqs'[q], sides', at', went', Handed')
    <2>1. CASE q = r
      BY <1>1, <1>2, <2>1
    <2>2. CASE q # r
      <3>1. reqs'[q] = reqs[q] /\ Knows(reqs[q], sides, at, went, Handed)
        BY <1>1, <1>2, <2>2 DEF SealInv
      <3> QED BY <3>1, KnowsStays DEF TablesShown
    <2> QED BY <2>1, <2>2
  <1> QED BY <1>2 DEF SealInv, TablesShown

LEMMA NoneKnowsLess ==
    ASSUME SealInv, TablesShown, reqs' = reqs
    PROVE  SealInv'
  <1>1. ASSUME NEW q \in Slots, reqs'[q] # None
        PROVE  Knows(reqs'[q], sides', at', went', Handed')
    <2>1. Knows(reqs[q], sides, at, went, Handed)
      BY <1>1 DEF SealInv
    <2> QED BY <2>1, KnowsStays DEF TablesShown
  <1> QED BY <1>1 DEF SealInv, TablesShown

LEMMA EndKnows ==
    ASSUME IInv, SealInv, TablesShown, NEW r \in Slots, End(r)
    PROVE  SealInv'
  BY OneKnows DEF End

LEMMA GotoKnows ==
    ASSUME IInv, SealInv, TablesShown, NEW r \in Slots, reqs[r] # None,
           NEW pc \in Pcs \ {"landed", "seal"}, Goto(r, pc),
           pc = "save" => AllWith(reqs[r].arg, reqs[r].user, at, went)
    PROVE  SealInv'
  <1>1. reqs[r] \in Requests /\ Knows(reqs[r], sides, at, went, Handed)
    BY DEF IInv, RequestsOK, RequestOK, SealInv
  <1>2. Knows(reqs[r], sides', at', went', Handed')
    BY <1>1, KnowsStays DEF TablesShown
  <1>3. pc = "save" => AllWith(reqs[r].arg, reqs[r].user, at', went')
    BY DEF AllWith, TablesShown, ShownStays
  <1>4. Knows([reqs[r] EXCEPT !.pc = pc], sides', at', went', Handed')
    BY <1>1, <1>2, <1>3, KnowsGoesOn
  <1>5. reqs' = [reqs EXCEPT ![r] = [reqs[r] EXCEPT !.pc = pc]]
    BY DEF Goto
  <1> QED BY <1>4, <1>5, OneKnows

-----------------------------------------------------------------------------

LEMMA ItemsStayWith ==
    ASSUME ShownStays, NEW theItems, ItemsWith(theItems, sides, at, went)
    PROVE  ItemsWith(theItems, sides', at', went')
  <1> SUFFICES ASSUME NEW s \in Side, NEW m \in theItems[s]
               PROVE  With(m, sides'[s].user, at', went')
    BY DEF ItemsWith, AllWith
  <1>1. With(m, sides[s].user, at, went)
    BY DEF ItemsWith, AllWith
  <1>2. sides'[s].user = sides[s].user
    BY <1>1, SourcesOfSomeone DEF With, ShownStays, UsersStay
  <1> QED BY <1>1, <1>2 DEF ShownStays

(* A step that writes neither sides nor items, wherever moments go.        *)
LEMMA RoomShown ==
    ASSUME SealInv, Remember, UNCHANGED <<sides, items>>,
           room'.status = "sealed" => room.status = "sealed" \/ Handed'
    PROVE  TablesShown
  <1>1. ShownStays
    BY Shown DEF UsersStay
  <1>2. SidesOwned'
    BY DEF SealInv, SidesOwned
  <1>3. ItemsWith(items', sides', at', went')
    BY <1>1, ItemsStayWith DEF SealInv
  <1>4. SealedIsHandedOver'
    BY <1>1 DEF SealInv, SealedIsHandedOver, Handed, ShownStays
  <1> QED BY <1>1, <1>2, <1>3, <1>4 DEF TablesShown

(* One that writes a side.                                                 *)
LEMMA SidesShown ==
    ASSUME SealInv, Remember, UNCHANGED <<room, items>>, SidesOwned', UsersStay
    PROVE  TablesShown
  <1>1. ShownStays
    BY Shown
  <1>2. ItemsWith(items', sides', at', went')
    BY <1>1, ItemsStayWith DEF SealInv
  <1>3. SealedIsHandedOver'
    BY <1>1 DEF SealInv, SealedIsHandedOver, Handed, ShownStays
  <1> QED BY <1>1, <1>2, <1>3 DEF TablesShown

(* One that writes the caller's acceptance only.                           *)
LEMMA AcceptanceShown ==
    ASSUME SealInv, Remember, UNCHANGED <<room, items>>,
           \A s \in Side : sides'[s].user = sides[s].user /\ sides'[s].source = sides[s].source
    PROVE  TablesShown
  <1>1. SidesOwned' /\ UsersStay
    BY DEF SealInv, SidesOwned, UsersStay
  <1> QED BY <1>1, SidesShown

(* One that writes a side's items.                                         *)
LEMMA ItemsShown ==
    ASSUME SealInv, Remember, UNCHANGED <<room, sides>>, ItemsWith(items', sides, at, went)
    PROVE  TablesShown
  <1>1. ShownStays
    BY Shown DEF UsersStay
  <1>2. SidesOwned'
    BY DEF SealInv, SidesOwned
  <1>3. PICK theItems : theItems = items'
    OBVIOUS
  <1>4. ItemsWith(items', sides', at', went')
    BY <1>1, <1>3, ItemsStayWith
  <1>5. SealedIsHandedOver'
    BY <1>1 DEF SealInv, SealedIsHandedOver, Handed, ShownStays
  <1> QED BY <1>1, <1>2, <1>4, <1>5 DEF TablesShown

(* A request that is at work knows what it knew, of itself as it is.       *)
LEMMA WhoWorks ==
    ASSUME IInv, SealInv, NEW r \in Slots, reqs[r] # None
    PROVE  /\ reqs[r] \in Requests
           /\ LoadedOwned(reqs[r], sides)
           /\ RequestWith(reqs[r], sides, at, went, Handed)
  BY DEF IInv, RequestsOK, RequestOK, SealInv, Knows

(* The caller is the user of the side it takes for its own.                *)
LEMMA WhoseSide ==
    ASSUME IInv, SealInv, NEW r \in Slots, reqs[r] # None, reqs[r].sides # None, InRoom(r)
    PROVE  /\ Me(r) \in Side
           /\ reqs[r].user \in Users
           /\ reqs[r].sides[Me(r)].user = reqs[r].user
           /\ sides[Me(r)].user = reqs[r].user
           /\ reqs[r].user # None
  <1>1. Me(r) \in Side /\ reqs[r].sides[Me(r)].user = reqs[r].user
    BY MyOwnSide
  <1>2. reqs[r].user \in Users /\ reqs[r].user # None
    BY WhoWorks DEF Requests
  <1>3. sides[Me(r)].user = reqs[r].user
    BY <1>1, <1>2, WhoWorks DEF LoadedOwned
  <1> QED BY <1>1, <1>2, <1>3

LEMMA StartKnows ==
    ASSUME IInv, SealInv, Remember, NEW r \in Slots, NEW kind \in Kinds, NEW user \in Users,
           NEW arg \in Args(kind, user), Start(r, kind, user, arg)
    PROVE  SealInv'
  <1>1. PICK next : next = [kind |-> kind, user |-> user, arg |-> arg, pc |-> "load",
                            room |-> room, sides |-> None, items |-> None]
    OBVIOUS
  <1>2. reqs' = [reqs EXCEPT ![r] = next] /\ UNCHANGED <<room, sides, items>>
    BY <1>1 DEF Start, db
  <1>3. TablesShown
    BY <1>2, RoomShown
  <1>4. kind = "wallet" => arg \in Wallets[user]
    BY DEF Args
  <1>5. LoadedOwned(next, sides')
    BY <1>1, <1>4 DEF LoadedOwned
  <1>6. RequestWith(next, sides', at', went', Handed')
    BY <1>1, <1>3 DEF RequestWith, SealInv, SealedIsHandedOver, Handed, TablesShown, ShownStays
  <1> QED BY <1>2, <1>3, <1>5, <1>6, OneKnows DEF Knows

LEMMA ReadsKnow ==
    ASSUME IInv, SealInv, Remember, NEW r \in Slots, ReadSides(r) \/ ReadItems(r)
    PROVE  SealInv'
  <1>1. reqs[r] # None /\ reqs[r].pc = "load" /\ UNCHANGED <<room, sides, items>>
    BY DEF ReadSides, ReadItems, At, db
  <1>2. TablesShown
    BY <1>1, RoomShown
  <1>3. PICK next : \/ next = [reqs[r] EXCEPT !.sides = sides] /\ ReadSides(r)
                    \/ next = [reqs[r] EXCEPT !.items = items] /\ ReadItems(r)
    OBVIOUS
  <1>4. reqs' = [reqs EXCEPT ![r] = next]
    BY <1>3 DEF ReadSides, ReadItems
  <1>5. /\ next.kind = reqs[r].kind /\ next.user = reqs[r].user /\ next.arg = reqs[r].arg
        /\ next.room = reqs[r].room /\ next.pc = "load"
        /\ next.sides = reqs[r].sides \/ next.sides = sides
        /\ next.items = reqs[r].items \/ next.items = items
    BY <1>1, <1>3, WhoWorks DEF Requests
  <1>6. LoadedOwned(next, sides)
    BY <1>1, <1>5, WhoWorks DEF LoadedOwned, SealInv, SidesOwned
  <1>7. RequestWith(next, sides, at, went, Handed)
    BY <1>1, <1>5, WhoWorks DEF RequestWith, SealInv
  <1>8. Knows(next, sides', at', went', Handed')
    BY <1>2, <1>6, <1>7, KnowsStays DEF Knows, TablesShown
  <1> QED BY <1>2, <1>4, <1>8, OneKnows

(* A seal that is recorded has the receipt of the report that records it,  *)
(* or repeats one that was recorded.                                       *)
LEMMA SealRecorded ==
    ASSUME IInv, SealInv, Remember, UsersStay, NEW r \in Slots, MarkSealed(r), CanSeal
    PROVE  Handed'
  <1>1. At(r, "seal") /\ reqs[r] # None /\ reqs[r].pc = "seal"
    BY DEF MarkSealed, At
  <1>2. CASE reqs[r].kind = "sealed"
    <2>1. Sealing(r)
      BY <1>1, <1>2 DEF Sealing
    <2> QED BY <2>1, ReceiptsHold
  <1>3. CASE reqs[r].kind # "sealed"
    <2>1. Handed
      BY <1>1, <1>3, WhoWorks DEF RequestWith
    <2> QED BY <2>1, ReceiptsHold
  <1> QED BY <1>2, <1>3

(* The steps that end a request and write no more than the room's row.     *)
LEMMA RoomEndsKnow ==
    ASSUME IInv, SealInv, Remember, NEW r \in Slots,
           \/ Fail(r) \/ JoinedStatus(r) \/ LockRoom(r) \/ UnlockRoom(r)
           \/ CancelRoom(r) \/ MarkSigningEnded(r) \/ MarkSealed(r)
    PROVE  SealInv'
  <1>1. reqs[r] # None /\ End(r) /\ UNCHANGED <<sides, items>>
    BY DEF Fail, JoinedStatus, LockRoom, UnlockRoom, CancelRoom, MarkSigningEnded, MarkSealed,
           Loaded, At, db
  <1>2. room \in RoomRow /\ UsersStay
    BY <1>1 DEF IInv, TablesOK, RoomOK, UsersStay
  <1>3. room'.status = "sealed" => room.status = "sealed" \/ Handed'
    <2>1. CASE Fail(r)
      BY <2>1 DEF Fail, db
    <2>2. CASE JoinedStatus(r) \/ UnlockRoom(r) \/ CancelRoom(r) \/ MarkSigningEnded(r)
      BY <1>2, <2>2 DEF JoinedStatus, UnlockRoom, CancelRoom, MarkSigningEnded, RoomRow
    <2>3. CASE LockRoom(r)
      BY <1>2, <2>3 DEF LockRoom, RoomRow
    <2>4. CASE MarkSealed(r) /\ CanSeal
      BY <1>2, <2>4, SealRecorded
    <2>5. CASE MarkSealed(r) /\ ~CanSeal
      BY <2>5 DEF MarkSealed
    <2> QED BY <2>1, <2>2, <2>3, <2>4, <2>5
  <1>4. TablesShown
    BY <1>1, <1>3, RoomShown
  <1> QED BY <1>1, <1>4, EndKnows

LEMMA CheckPicksKnows ==
    ASSUME IInv, SealInv, Remember, \A m \in Moments : <<m, at[m], at[m]>> \in went,
           NEW r \in Slots, CheckPicks(r)
    PROVE  SealInv'
  <1>1. /\ reqs[r] # None /\ reqs[r].sides # None /\ reqs[r].kind = "items" /\ InRoom(r)
        /\ Mine(r).source # None /\ \A m \in reqs[r].arg : at[m] = Mine(r).source
        /\ Goto(r, "save") /\ UNCHANGED <<room, sides, items>>
    BY DEF CheckPicks, Loaded, At, db
  <1>2. TablesShown
    BY <1>1, RoomShown
  <1>3. Mine(r).source \in SourcesOf(reqs[r].user)
    BY <1>1, WhoWorks, WhoseSide DEF LoadedOwned, Mine
  <1>4. reqs[r].arg \in SUBSET Moments
    BY <1>1 DEF IInv, RequestsOK, RequestOK, ReadingOK
  <1>5. AllWith(reqs[r].arg, reqs[r].user, at, went)
    BY <1>1, <1>3, <1>4 DEF AllWith, With
  <1> QED BY <1>1, <1>2, <1>5, GotoKnows DEF Pcs

(* A leg read: its goods have been with their giver and are now there.     *)
LEMMA LegIsGone ==
    ASSUME NEW r \in Slots, NEW s \in Side, Landed(r, s),
           ItemsWith(reqs[r].items, sides, at, went)
    PROVE  GaveOver(reqs[r], s, sides, went)
  <1> SUFFICES ASSUME NEW m \in reqs[r].items[s]
               PROVE  \E x \in SourcesOf(sides[s].user) :
                          <<m, x, reqs[r].sides[Other(s)].source>> \in went
    BY DEF GaveOver
  <1>1. PICK x \in SourcesOf(sides[s].user) : <<m, x, at[m]>> \in went
    BY DEF ItemsWith, AllWith, With
  <1>2. at[m] = reqs[r].sides[Other(s)].source
    BY DEF Landed
  <1> QED BY <1>1, <1>2

LEMMA VerifyLandedKnows ==
    ASSUME IInv, SealInv, Remember, NEW r \in Slots, VerifyLanded(r)
    PROVE  SealInv'
  <1>1. /\ reqs[r] # None /\ reqs[r].items # None /\ reqs[r].kind = "sealed"
        /\ \E s \in Side : reqs[r].items[s] # {}
        /\ Landed(r, "a") /\ Goto(r, "landed") /\ UNCHANGED <<room, sides, items>>
    BY DEF VerifyLanded, IsSwap, Loaded, At, UsesItems, db
  <1>2. TablesShown
    BY <1>1, RoomShown
  <1>3. PICK next : next = [reqs[r] EXCEPT !.pc = "landed"]
    OBVIOUS
  <1>4. reqs' = [reqs EXCEPT ![r] = next]
    BY <1>1, <1>3 DEF Goto
  <1>5. /\ next.pc = "landed" /\ next.kind = "sealed" /\ next.user = reqs[r].user
        /\ next.arg = reqs[r].arg /\ next.room = reqs[r].room
        /\ next.sides = reqs[r].sides /\ next.items = reqs[r].items
    BY <1>1, <1>3, WhoWorks, GoesOn DEF Pcs
  <1>6. LoadedOwned(next, sides)
    BY <1>1, <1>5, WhoWorks DEF LoadedOwned
  <1>7. GaveOver(reqs[r], "a", sides, went)
    BY <1>1, WhoWorks, LegIsGone DEF RequestWith
  <1>8. GaveOver(next, "a", sides, went)
    BY <1>5, <1>7 DEF GaveOver
  <1>9. RequestWith(next, sides, at, went, Handed)
    BY <1>1, <1>5, <1>8, WhoWorks DEF RequestWith
  <1>10. Knows(next, sides', at', went', Handed')
    BY <1>2, <1>6, <1>9, KnowsStays DEF Knows, TablesShown
  <1> QED BY <1>2, <1>4, <1>10, OneKnows

LEMMA VerifyOtherKnows ==
    ASSUME IInv, SealInv, Remember, NEW r \in Slots, VerifyOther(r)
    PROVE  SealInv'
  <1>1. /\ reqs[r] # None /\ reqs[r].pc = "landed" /\ Landed(r, "b") /\ Goto(r, "seal")
        /\ UNCHANGED <<room, sides, items>>
    BY DEF VerifyOther, At, db
  <1>2. TablesShown
    BY <1>1, RoomShown
  <1>3. PICK next : next = [reqs[r] EXCEPT !.pc = "seal"]
    OBVIOUS
  <1>4. reqs' = [reqs EXCEPT ![r] = next]
    BY <1>1, <1>3 DEF Goto
  <1>5. reqs[r].kind = "sealed"
    BY <1>1 DEF IInv, RequestsOK, RequestOK, StageOK
  <1>6. /\ next.pc = "seal" /\ next.kind = "sealed" /\ next.user = reqs[r].user
        /\ next.arg = reqs[r].arg /\ next.room = reqs[r].room
        /\ next.sides = reqs[r].sides /\ next.items = reqs[r].items
    BY <1>1, <1>3, <1>5, WhoWorks, GoesOn DEF Pcs
  <1>7. LoadedOwned(next, sides)
    BY <1>1, <1>6, WhoWorks DEF LoadedOwned
  <1>8. /\ reqs[r].items # None /\ ItemsWith(reqs[r].items, sides, at, went)
        /\ GaveOver(reqs[r], "a", sides, went)
    BY <1>1, <1>5, WhoWorks DEF RequestWith
  <1>9. GaveOver(reqs[r], "b", sides, went)
    BY <1>1, <1>8, LegIsGone
  <1>10. GaveOver(next, "a", sides, went) /\ GaveOver(next, "b", sides, went)
    BY <1>6, <1>8, <1>9 DEF GaveOver
  <1>11. RequestWith(next, sides, at, went, Handed)
    BY <1>1, <1>5, <1>6, <1>10, WhoWorks DEF RequestWith
  <1>12. Knows(next, sides', at', went', Handed')
    BY <1>2, <1>7, <1>11, KnowsStays DEF Knows, TablesShown
  <1> QED BY <1>2, <1>4, <1>12, OneKnows

LEMMA VerifyAgainKnows ==
    ASSUME IInv, SealInv, Remember, NEW r \in Slots, VerifyAgain(r)
    PROVE  SealInv'
  <1>1. /\ reqs[r] # None /\ reqs[r].room.status = "sealed" /\ reqs[r].kind = "verify"
        /\ UNCHANGED <<room, sides, items>>
    BY DEF VerifyAgain, Loaded, At, db
  <1>2. TablesShown
    BY <1>1, RoomShown
  <1>3. PICK next : next = [reqs[r] EXCEPT !.pc = "seal", !.arg = reqs[r].room.tx]
    OBVIOUS
  <1>4. reqs[r] \in Requests
    BY <1>1, WhoWorks
  <1>5. reqs' = [reqs EXCEPT ![r] = next]
    <2>1. reqs = [q \in Slots |-> reqs[q]]
      BY DEF IInv, RequestsOK
    <2> QED BY <1>3, <1>4, <2>1 DEF VerifyAgain, Requests
  <1>6. /\ next.kind = "verify" /\ next.pc = "seal" /\ next.room = reqs[r].room
        /\ next.sides = reqs[r].sides /\ next.items = reqs[r].items
    BY <1>1, <1>3, <1>4 DEF Requests
  <1>7. LoadedOwned(next, sides)
    BY <1>1, <1>6, WhoWorks DEF LoadedOwned
  <1>8. RequestWith(next, sides, at, went, Handed)
    BY <1>1, <1>6, WhoWorks DEF RequestWith
  <1>9. Knows(next, sides', at', went', Handed')
    BY <1>2, <1>7, <1>8, KnowsStays DEF Knows, TablesShown
  <1> QED BY <1>2, <1>5, <1>9, OneKnows

(* MarkSigning, CheckRelay and Touch go on with no word of a seal.         *)
LEMMA RoomGoesOnKnows ==
    ASSUME IInv, SealInv, Remember, NEW r \in Slots, MarkSigning(r) \/ CheckRelay(r) \/ Touch(r)
    PROVE  SealInv'
  <1>1. /\ reqs[r] # None /\ UNCHANGED <<sides, items>>
        /\ Goto(r, "post") \/ Goto(r, "sign") \/ Goto(r, "reset")
    BY DEF MarkSigning, CheckRelay, Touch, Loaded, At, db
  <1>2. room \in RoomRow
    BY DEF IInv, TablesOK, RoomOK
  <1>3. room'.status = "sealed" => room.status = "sealed"
    <2>1. CASE MarkSigning(r)
      BY <1>2, <2>1 DEF MarkSigning, RoomRow
    <2>2. CASE CheckRelay(r)
      BY <2>2 DEF CheckRelay, db
    <2>3. CASE Touch(r)
      <3>1. reqs[r].room.status \in Editables
        BY <1>1, <2>3 DEF Touch, At, IInv, RequestsOK, RequestOK, StageOK
      <3>2. TouchedStatus(reqs[r].room) \in {"open", "building"}
        BY <3>1 DEF TouchedStatus, Editables
      <3>3. room' = [room EXCEPT !.version = reqs[r].room.version + 1,
                                 !.status = TouchedStatus(reqs[r].room)]
        BY <2>3 DEF Touch
      <3>4. room'.status = TouchedStatus(reqs[r].room)
        BY <1>2, <3>3 DEF RoomRow
      <3> QED BY <3>2, <3>4
    <2> QED BY <2>1, <2>2, <2>3
  <1>4. TablesShown
    BY <1>1, <1>3, RoomShown
  <1> QED BY <1>1, <1>4, GotoKnows DEF Pcs

LEMMA JoinRoomKnows ==
    ASSUME IInv, SealInv, Remember, NEW r \in Slots, JoinRoom(r)
    PROVE  SealInv'
  <1>1. /\ reqs[r] # None /\ Goto(r, "joined") /\ UNCHANGED <<room, items>>
        /\ sides["b"].user = None /\ \A s \in Side : sides[s].user # reqs[r].user
        /\ sides' = [sides EXCEPT !["b"].user = reqs[r].user]
    BY DEF JoinRoom, Loaded, At, InsertAdmitted
  <1>2. sides \in SideTable
    BY DEF IInv, TablesOK
  <1>3. /\ sides'["a"] = sides["a"] /\ sides'["b"].user = reqs[r].user
        /\ sides'["b"].source = sides["b"].source
    BY <1>1, <1>2 DEF SideTable, SideRow
  <1>4. sides["b"].source = None
    BY <1>1 DEF SealInv, SidesOwned
  <1>5. SidesOwned' /\ UsersStay
    BY <1>1, <1>3, <1>4 DEF SealInv, SidesOwned, UsersStay
  <1>6. TablesShown
    BY <1>1, <1>5, SidesShown
  <1> QED BY <1>1, <1>6, GotoKnows DEF Pcs

LEMMA SetWalletKnows ==
    ASSUME IInv, SealInv, Remember, NEW r \in Slots, SetWallet(r)
    PROVE  SealInv'
  <1>1. /\ reqs[r] # None /\ reqs[r].sides # None /\ reqs[r].kind = "wallet" /\ InRoom(r)
        /\ (Goto(r, "clear") \/ Goto(r, "touch")) /\ UNCHANGED <<room, items>>
    BY DEF SetWallet, Loaded, At
  <1>2. PICK s \in Side : s = Me(r) /\ sides[s].user = reqs[r].user /\ reqs[r].user # None
    BY <1>1, WhoseSide
  <1>3. sides' = [sides EXCEPT ![s].signer = reqs[r].arg.signer, ![s].source = reqs[r].arg.source]
    BY <1>2 DEF SetWallet
  <1>4. sides \in SideTable
    BY DEF IInv, TablesOK
  <1>5. /\ \A t \in Side : sides'[t].user = sides[t].user
        /\ \A t \in Side : t # s => sides'[t] = sides[t]
        /\ sides'[s].source = reqs[r].arg.source
    BY <1>3, <1>4 DEF SideTable, SideRow
  <1>6. reqs[r].arg \in Wallets[reqs[r].user] /\ reqs[r].user \in Users
    BY <1>1, WhoWorks DEF LoadedOwned, Requests
  <1>7. sides'[s].source \in SourcesOf(sides'[s].user)
    BY <1>2, <1>5, <1>6 DEF SourcesOf
  <1>8. SidesOwned' /\ UsersStay
    BY <1>2, <1>5, <1>7 DEF SealInv, SidesOwned, UsersStay
  <1>9. TablesShown
    BY <1>1, <1>8, SidesShown
  <1> QED BY <1>1, <1>9, GotoKnows DEF Pcs

LEMMA AcceptancesKnow ==
    ASSUME IInv, IInv', SealInv, Remember, NEW r \in Slots,
           ResetAcceptances(r) \/ Accept(r) \/ Unaccept(r)
    PROVE  SealInv'
  <1>1. /\ reqs[r] # None /\ UNCHANGED <<room, items>>
        /\ End(r) \/ Goto(r, "lock") \/ Goto(r, "unlock")
    BY DEF ResetAcceptances, Accept, Unaccept, Loaded, At
  <1>2. sides \in SideTable /\ sides' \in SideTable
    BY DEF IInv, TablesOK
  <1>3. \A s \in Side : sides'[s].user = sides[s].user /\ sides'[s].source = sides[s].source
    <2>1. CASE ResetAcceptances(r)
      BY <1>2, <2>1 DEF ResetAcceptances, SideTable, SideRow
    <2>2. CASE Accept(r)
      <3>1. sides' = [sides EXCEPT ![Me(r)].accepted = reqs[r].arg]
        BY <2>2 DEF Accept
      <3> QED BY <1>2, <3>1 DEF SideTable, SideRow
    <2>3. CASE Unaccept(r)
      <3>1. sides' = [sides EXCEPT ![Me(r)].accepted = NotAccepted]
        BY <2>3 DEF Unaccept
      <3> QED BY <1>2, <3>1 DEF SideTable, SideRow
    <2> QED BY <2>1, <2>2, <2>3
  <1>4. TablesShown
    BY <1>1, <1>2, <1>3, AcceptanceShown
  <1> QED BY <1>1, <1>4, EndKnows, GotoKnows DEF Pcs

LEMMA ItemStepsKnow ==
    ASSUME IInv, SealInv, Remember, NEW r \in Slots, ClearItems(r) \/ SaveItems(r) \/ PruneItems(r)
    PROVE  SealInv'
  <1>1. /\ reqs[r] # None /\ UNCHANGED <<room, sides>>
        /\ reqs[r].pc \in {"clear", "save", "prune"} /\ (SaveItems(r) => reqs[r].pc = "save")
        /\ Goto(r, "touch") \/ Goto(r, "prune")
    BY DEF ClearItems, SaveItems, PruneItems, At
  <1>2. reqs[r].sides # None /\ InRoom(r)
    BY <1>1 DEF IInv, RequestsOK, RequestOK, StageOK, CallerIn, InRoom
  <1>3. PICK s \in Side : s = Me(r) /\ sides[s].user = reqs[r].user /\ reqs[r].user # None
    BY <1>1, <1>2, WhoseSide
  <1>4. items \in ItemTable
    BY DEF IInv, TablesOK
  <1>5. /\ \A t \in Side : t # s => items'[t] = items[t]
        /\ \/ items'[s] \subseteq items[s]
           \/ SaveItems(r) /\ items'[s] = items[s] \cup reqs[r].arg
    BY <1>3, <1>4 DEF ClearItems, SaveItems, PruneItems, ItemTable
  <1>6. ItemsWith(items', sides, at, went)
    <2>1. ItemsWith(items, sides, at, went)
      BY DEF SealInv
    <2>2. SaveItems(r) => AllWith(reqs[r].arg, reqs[r].user, at, went)
      BY <1>1, WhoWorks DEF RequestWith
    <2>3. AllWith(items'[s], sides[s].user, at, went)
      BY <1>3, <1>5, <2>1, <2>2 DEF ItemsWith, AllWith
    <2> QED BY <1>5, <2>1, <2>3 DEF ItemsWith
  <1>7. TablesShown
    BY <1>1, <1>6, ItemsShown
  <1> QED BY <1>1, <1>7, GotoKnows DEF Pcs

LEMMA RelayStepsKnow ==
    ASSUME IInv, SealInv, Remember, NEW r \in Slots, PostSignable(r) \/ PostSignature(r)
    PROVE  SealInv'
  <1>1. reqs[r] # None /\ End(r) /\ UNCHANGED <<room, sides, items>>
    BY DEF PostSignable, PostSignature, At
  <1>2. TablesShown
    BY <1>1, RoomShown
  <1> QED BY <1>1, <1>2, EndKnows

(* What moves on the chain, by the swap or not, leaves its track.          *)
LEMMA ChainKnows ==
    ASSUME IInv, SealInv, Remember,
           \/ Expire
           \/ \E m \in Moments, account \in Accounts : MoveOutside(m, account)
           \/ \E i \in DOMAIN relays : RelayExpires(i) \/ ExecuteSwap(i)
    PROVE  SealInv'
  <1>1. UNCHANGED <<room, sides, items, reqs>>
    BY DEF Expire, MoveOutside, RelayExpires, ExecuteSwap, db
  <1>2. TablesShown
    BY <1>1, RoomShown
  <1> QED BY <1>1, <1>2, NoneKnowsLess

(* Where a moment is, it has been.                                         *)
WhereItIs == \A m \in Moments : <<m, at[m], at[m]>> \in went

LEMMA PlacesRemembered ==
    ASSUME Remember
    PROVE  WhereItIs'
  BY DEF Remember, WhereItIs

LEMMA SealStepKeeps ==
    ASSUME IInv, IInv', SealInv, WhereItIs, HNext
    PROVE  SealInv'
  <1>0. Remember
    BY DEF HNext
  <1>1. CASE \E r \in Slots : HandlerStep(r)
    <2>1. PICK r \in Slots : HandlerStep(r)
      BY <1>1
    <2>2. CASE ReadSides(r) \/ ReadItems(r) \/ MarkSigning(r) \/ CheckRelay(r) \/ Touch(r)
      BY <1>0, <2>2, ReadsKnow, RoomGoesOnKnows
    <2>3. CASE CheckPicks(r)
      BY <1>0, <2>3, CheckPicksKnows DEF WhereItIs
    <2>4. CASE VerifyLanded(r) \/ VerifyOther(r) \/ VerifyAgain(r)
      BY <1>0, <2>4, VerifyLandedKnows, VerifyOtherKnows, VerifyAgainKnows
    <2>5. CASE \/ Fail(r) \/ JoinedStatus(r) \/ LockRoom(r) \/ UnlockRoom(r)
               \/ CancelRoom(r) \/ MarkSigningEnded(r) \/ MarkSealed(r)
      BY <1>0, <2>5, RoomEndsKnow
    <2>6. CASE \/ JoinRoom(r) \/ SetWallet(r) \/ ResetAcceptances(r) \/ Accept(r) \/ Unaccept(r)
      BY <1>0, <2>6, JoinRoomKnows, SetWalletKnows, AcceptancesKnow
    <2>7. CASE \/ ClearItems(r) \/ SaveItems(r) \/ PruneItems(r) \/ PostSignable(r)
               \/ PostSignature(r)
      BY <1>0, <2>7, ItemStepsKnow, RelayStepsKnow
    <2> QED BY <2>1, <2>2, <2>3, <2>4, <2>5, <2>6, <2>7 DEF HandlerStep
  <1>2. CASE \E r \in FreeSlot, kind \in Kinds, user \in Users :
                \E arg \in Args(kind, user) : Start(r, kind, user, arg)
    <2>1. PICK r \in FreeSlot, kind \in Kinds, user \in Users :
                \E arg \in Args(kind, user) : Start(r, kind, user, arg)
      BY <1>2
    <2>2. r \in Slots
      BY DEF FreeSlot, Idle
    <2> QED BY <1>0, <2>1, <2>2, StartKnows
  <1>3. CASE \/ Expire
             \/ \E m \in Moments, account \in Accounts : MoveOutside(m, account)
             \/ \E i \in DOMAIN relays : RelayExpires(i) \/ ExecuteSwap(i)
    BY <1>0, <1>3, ChainKnows
  <1> QED BY <1>1, <1>2, <1>3 DEF HNext, Next

LEMMA SealedInitially ==
    ASSUME HInit
    PROVE  SealInv /\ WhereItIs
  <1>0. PICK guest \in {None} \cup (Users \ {Creator}) : Opened(guest)
    BY DEF HInit, Init
  <1>1. /\ room = [status |-> IF guest = None THEN "open" ELSE "building",
                   version |-> 1, tx |-> None]
        /\ items = [s \in Side |-> {}] /\ reqs = [r \in Slots |-> None]
        /\ sides = [s \in Side |->
                      [AbsentSide EXCEPT !.user = IF s = "a" THEN Creator ELSE guest]]
    BY <1>0 DEF Opened
  <1>2. \A s \in Side : sides[s].source = None
    BY <1>1 DEF AbsentSide
  <1>3. SidesOwned
    BY <1>2 DEF SidesOwned
  <1>4. ItemsWith(items, sides, at, went)
    BY <1>1 DEF ItemsWith, AllWith
  <1>5. SealedIsHandedOver
    BY <1>1 DEF SealedIsHandedOver
  <1>6. WhereItIs
    BY DEF HInit, WhereItIs
  <1> QED BY <1>1, <1>3, <1>4, <1>5, <1>6 DEF SealInv

(* However late it is reported, with whatever transaction, and however the *)
(* moments moved: a sealed room stands on a report that found every moment *)
(* it names with its taker, after it had been with its giver.              *)
THEOREM RoomSealsWhatWasHandedOver == HSpec => []SealedIsHandedOver
  <1>1. HInit => SealInv /\ WhereItIs
    BY SealedInitially
  <1>2. IInv /\ IInv' /\ SealInv /\ WhereItIs /\ [HNext]_hvars => SealInv' /\ WhereItIs'
    <2> SUFFICES ASSUME IInv, IInv', SealInv, WhereItIs, [HNext]_hvars
                 PROVE  SealInv' /\ WhereItIs'
      OBVIOUS
    <2>1. CASE HNext
      BY <2>1, SealStepKeeps, PlacesRemembered DEF HNext
    <2>2. CASE UNCHANGED hvars
      <3>1. UNCHANGED <<room, sides, items, reqs, at, went, receipt>>
        BY <2>2 DEF hvars, vars
      <3>2. Handed' = Handed
        BY <3>1 DEF Handed, HandedOver
      <3> QED BY <3>1, <3>2 DEF SealInv, WhereItIs, SidesOwned, SealedIsHandedOver, HandedOver
    <2> QED BY <2>1, <2>2
  <1>3. SealInv => SealedIsHandedOver
    BY DEF SealInv
  <1> QED BY <1>1, <1>2, <1>3, RoomInvariant, PTL DEF HSpec

-----------------------------------------------------------------------------
(* The room implements Agreement.                                          *)
(*                                                                         *)
(* A step of a handler is a consent (Accept), a party's coming (JoinRoom), *)
(* an edit (Touch), a change of phase (the steps that write the status) or *)
(* nothing the agreement sees, and the chain's steps are its goods' moves. *)
(* Three facts beyond the invariant are needed: no relay, so no trade,     *)
(* comes before some version was agreed (RelaysAgreed), what a report      *)
(* seals has been handed over (SealInv), and a step that moves nothing     *)
(* adds nothing to where the goods have been (WhereItIs).                  *)

SomeAgreed == \E v \in 1..room.version : \A s \in Side : <<s, v>> \in everAccepted

RelaysAgreed == DOMAIN relays # {} => SomeAgreed

PactInv == IInv /\ SealInv /\ WhereItIs /\ RelaysAgreed

(* What the agreement sees of the goods and of whose they are.             *)
GoodsSame == UNCHANGED <<at, went, receipt>> /\ Owns' = Owns

NothingSealed == ~\E r \in Slots : Sealing(r)

LEMMA NowhereNew ==
    ASSUME WhereItIs, Remember, at' = at
    PROVE  went' = went
  <1>1. went' = went \cup
           UNION {{<<m, x, at[m]>> : x \in BeenIn(m) \cup {at[m]}} : m \in Moments}
    BY DEF Remember
  <1>2. \A m \in Moments : \A x \in BeenIn(m) \cup {at[m]} : <<m, x, at[m]>> \in went
    BY DEF BeenIn, WhereItIs
  <1> QED BY <1>1, <1>2

LEMMA GoodsStay ==
    ASSUME IInv, WhereItIs, Remember, NothingSealed, at' = at,
           \A s \in Side : sides'[s].user = sides[s].user
    PROVE  GoodsSame
  <1>1. receipt' = receipt
    BY DEF Remember, NothingSealed
  <1>2. Owns' = Owns
    BY DEF Owns
  <1> QED BY <1>1, <1>2, NowhereNew DEF GoodsSame

(* The sides as far as the agreement sees them: acceptances are kept or    *)
(* cleared, so that none is new.                                           *)
LEMMA NoNewConsent ==
    ASSUME IInv, Remember,
           \A s \in Side : sides'[s].accepted \in {None, sides[s].accepted}
    PROVE  everAccepted' = everAccepted
  <1>1. NewAcceptances \subseteq everAccepted
    BY DEF IInv, RememberedOK, NewAcceptances
  <1> QED BY <1>1 DEF Remember

(* A step the agreement does not see.                                      *)
LEMMA Unseen ==
    ASSUME IInv, WhereItIs, Remember, NothingSealed, UNCHANGED <<room, at>>,
           Executed' = Executed,
           \A s \in Side : /\ sides'[s].accepted \in {None, sides[s].accepted}
                           /\ sides'[s].user = sides[s].user
    PROVE  UNCHANGED Abstract!vars
  BY NoNewConsent, GoodsStay DEF Abstract!vars, GoodsSame

(* The status is written, within a version: the phase stays, or makes one  *)
(* of the agreement's moves.                                               *)
LEMMA PhaseWritten ==
    ASSUME IInv, WhereItIs, Remember, NothingSealed, UNCHANGED <<sides, relays, at>>,
           room'.version = room.version,
           LET from == PhaseOf(room.status)
               to   == PhaseOf(room'.status)
           IN  \/ to = from
               \/ /\ from = "draft" /\ to = "agreed"
                  /\ \A s \in Side : <<s, room.version>> \in everAccepted
               \/ from = "agreed" /\ to = "draft"
               \/ from \in {"draft", "agreed"} /\ to = "off"
    PROVE  [Abstract!Next]_(Abstract!vars)
  <1>1. everAccepted' = everAccepted /\ Executed' = Executed
    BY NoNewConsent DEF Executed
  <1>2. GoodsSame
    BY GoodsStay
  <1>3. CASE PhaseOf(room'.status) = PhaseOf(room.status)
    BY <1>1, <1>2, <1>3 DEF Abstract!vars, GoodsSame
  <1>4. CASE /\ PhaseOf(room.status) = "draft" /\ PhaseOf(room'.status) = "agreed"
             /\ \A s \in Side : <<s, room.version>> \in everAccepted
    <2>1. Abstract!Agree
      BY <1>1, <1>2, <1>4 DEF Abstract!Agree, Abstract!Agreed, Abstract!Turn, GoodsSame
    <2> QED BY <2>1 DEF Abstract!Next
  <1>5. CASE PhaseOf(room.status) = "agreed" /\ PhaseOf(room'.status) = "draft"
    <2>1. Abstract!Withdraw
      BY <1>1, <1>2, <1>5 DEF Abstract!Withdraw, Abstract!Turn, GoodsSame
    <2> QED BY <2>1 DEF Abstract!Next
  <1>6. CASE PhaseOf(room.status) \in {"draft", "agreed"} /\ PhaseOf(room'.status) = "off"
    <2>1. Abstract!CallOff
      BY <1>1, <1>2, <1>6 DEF Abstract!CallOff, Abstract!Turn, GoodsSame
    <2> QED BY <2>1 DEF Abstract!Next
  <1> QED BY <1>3, <1>4, <1>5, <1>6

(* A seal that is written, or written again, is of goods handed over.      *)
LEMMA SealFinishes ==
    ASSUME IInv, SealInv, WhereItIs, Remember, NEW r \in Slots, MarkSealed(r), CanSeal
    PROVE  Abstract!Finish
  <1>1. UNCHANGED <<sides, relays, at>> /\ room \in RoomRow
    BY DEF MarkSealed, IInv, TablesOK, RoomOK
  <1>2. /\ room'.version = room.version /\ room'.status = "sealed"
        /\ room.status \in {"accepted", "signing", "sealed"}
    BY <1>1 DEF MarkSealed, CanSeal, RoomRow
  <1>3. PhaseOf(room.status) \in {"agreed", "done"} /\ PhaseOf(room'.status) = "done"
    BY <1>2 DEF PhaseOf
  <1>4. everAccepted' = everAccepted /\ Executed' = Executed /\ Owns' = Owns
    BY <1>1, NoNewConsent DEF Executed, Owns
  <1>5. went' = went
    BY <1>1, NowhereNew
  <1>6. Handed'
    BY <1>1, SealRecorded DEF UsersStay
  <1>7. Abstract!HandedOver(receipt')
    BY <1>1, <1>5, <1>6 DEF Handed, HandedOver, Abstract!HandedOver, Owns
  <1>8. Abstract!Turn({"agreed", "done"}, "done")
    BY <1>1, <1>2, <1>3, <1>4, <1>5 DEF Abstract!Turn
  <1> QED BY <1>7, <1>8 DEF Abstract!Finish

(* The steps that write the status alone.                                  *)
LEMMA StatusStepsAgree ==
    ASSUME IInv, WhereItIs, Remember, NothingSealed, NEW r \in Slots,
           \/ JoinedStatus(r) \/ LockRoom(r) \/ UnlockRoom(r) \/ CancelRoom(r)
           \/ MarkSigning(r) \/ MarkSigningEnded(r)
    PROVE  [Abstract!Next]_(Abstract!vars)
  <1>1. room \in RoomRow /\ UNCHANGED <<sides, relays, at>>
    BY DEF IInv, TablesOK, RoomOK, JoinedStatus, LockRoom, UnlockRoom, CancelRoom, MarkSigning,
           MarkSigningEnded
  <1>2. CASE JoinedStatus(r)
    <2>1. /\ room'.version = room.version
          /\ room'.status = IF room.status = "open" THEN "building" ELSE room.status
      BY <1>1, <1>2 DEF JoinedStatus, RoomRow
    <2>2. PhaseOf(room'.status) = PhaseOf(room.status)
      BY <2>1 DEF PhaseOf
    <2> QED BY <1>1, <2>1, <2>2, PhaseWritten
  <1>3. CASE LockRoom(r)
    <2>1. CASE ~CanLock(r)
      <3>1. room' = room
        BY <1>3, <2>1 DEF LockRoom
      <3> QED BY <1>1, <3>1, PhaseWritten
    <2>2. CASE CanLock(r)
      <3>1. /\ room'.version = room.version /\ room'.status = "accepted"
            /\ room.status = "building" /\ reqs[r].arg = room.version
        BY <1>1, <1>3, <2>2 DEF LockRoom, CanLock, RoomRow
      <3>2. \A s \in Side : <<s, room.version>> \in everAccepted
        BY <1>3, <3>1 DEF LockRoom, At, IInv, RequestsOK, RequestOK, StageOK
      <3>3. PhaseOf(room.status) = "draft" /\ PhaseOf(room'.status) = "agreed"
        BY <3>1 DEF PhaseOf
      <3> QED BY <1>1, <3>1, <3>2, <3>3, PhaseWritten
    <2> QED BY <2>1, <2>2
  <1>4. CASE UnlockRoom(r)
    <2>1. /\ room'.version = room.version
          /\ room'.status = IF room.status = "accepted" THEN "building" ELSE room.status
      BY <1>1, <1>4 DEF UnlockRoom, RoomRow
    <2>2. \/ PhaseOf(room'.status) = PhaseOf(room.status)
          \/ PhaseOf(room.status) = "agreed" /\ PhaseOf(room'.status) = "draft"
      BY <2>1 DEF PhaseOf
    <2> QED BY <1>1, <2>1, <2>2, PhaseWritten
  <1>5. CASE CancelRoom(r)
    <2>1. /\ room'.version = room.version
          /\ room'.status = IF room.status = "sealed" THEN room.status ELSE "cancelled"
      BY <1>1, <1>5 DEF CancelRoom, RoomRow
    <2>2. room.status \in Statuses
      BY <1>1 DEF RoomRow
    <2>3. \/ PhaseOf(room'.status) = PhaseOf(room.status)
          \/ PhaseOf(room.status) \in {"draft", "agreed"} /\ PhaseOf(room'.status) = "off"
      BY <2>1, <2>2 DEF PhaseOf, Statuses
    <2> QED BY <1>1, <2>1, <2>3, PhaseWritten
  <1>6. CASE MarkSigning(r)
    <2>1. /\ room'.version = room.version
          /\ room'.status = "signing" /\ room.status \in {"accepted", "signing"}
      BY <1>1, <1>6 DEF MarkSigning, RoomRow, Statuses
    <2>2. PhaseOf(room'.status) = PhaseOf(room.status)
      BY <2>1 DEF PhaseOf
    <2> QED BY <1>1, <2>1, <2>2, PhaseWritten
  <1>7. CASE MarkSigningEnded(r)
    <2>1. /\ room'.version = room.version
          /\ room'.status = IF room.status = "signing" THEN "accepted" ELSE room.status
      BY <1>1, <1>7 DEF MarkSigningEnded, RoomRow
    <2>2. PhaseOf(room'.status) = PhaseOf(room.status)
      BY <2>1 DEF PhaseOf
    <2> QED BY <1>1, <2>1, <2>2, PhaseWritten
  <1> QED BY <1>2, <1>3, <1>4, <1>5, <1>6, <1>7

(* The bump is the edit: whatever status it loaded, it leaves a draft.     *)
LEMMA TouchEdits ==
    ASSUME IInv, WhereItIs, Remember, NothingSealed, NEW r \in Slots, Touch(r)
    PROVE  Abstract!Edit
  <1>1. /\ reqs[r] # None /\ room.version = reqs[r].room.version
        /\ UNCHANGED <<sides, relays, at>>
    BY DEF Touch, At, TouchMatches
  <1>2. room \in RoomRow /\ reqs[r].room.status \in Editables
    BY <1>1 DEF Touch, At, IInv, TablesOK, RoomOK, RequestsOK, RequestOK, StageOK
  <1>3. TouchedStatus(reqs[r].room) \in {"open", "building"}
    BY <1>2 DEF TouchedStatus, Editables
  <1>4. room'.version = room.version + 1 /\ room'.status \in {"open", "building"}
    <2>1. room' = [room EXCEPT !.version = room.version + 1,
                               !.status = TouchedStatus(reqs[r].room)]
      BY <1>1 DEF Touch
    <2> QED BY <2>1, <1>2, <1>3 DEF RoomRow
  <1>5. PhaseOf(room'.status) = "draft"
    BY <1>4 DEF PhaseOf
  <1>6. everAccepted' = everAccepted /\ Executed' = Executed
    BY <1>1, NoNewConsent DEF Executed
  <1>7. GoodsSame
    BY <1>1, GoodsStay
  <1> QED BY <1>4, <1>5, <1>6, <1>7 DEF Abstract!Edit, GoodsSame

(* An acceptance is a consent to the version its request loaded.           *)
LEMMA AcceptConsents ==
    ASSUME IInv, WhereItIs, Remember, NothingSealed, NEW r \in Slots, Accept(r)
    PROVE  [Abstract!Next]_(Abstract!vars)
  <1>1. /\ reqs[r] # None /\ reqs[r].kind = "accept" /\ reqs[r].sides # None /\ InRoom(r)
        /\ sides' = [sides EXCEPT ![Me(r)].accepted = reqs[r].arg]
        /\ UNCHANGED <<room, relays, at>>
    BY DEF Accept, Loaded, At
  <1>2. PICK s \in Side : s = Me(r)
    BY <1>1, MyOwnSide
  <1>3. PICK v \in 1..room.version : v = reqs[r].arg
    BY <1>1 DEF IInv, RequestsOK, RequestOK, ReadingOK
  <1>4. sides \in SideTable /\ v # None
    BY <1>3 DEF IInv, TablesOK, RoomOK, RoomRow
  <1>5. /\ sides'[s].accepted = v
        /\ \A t \in Side : t # s => sides'[t].accepted = sides[t].accepted
        /\ \A t \in Side : sides'[t].user = sides[t].user
    <2>1. sides' = [sides EXCEPT ![s].accepted = v]
      BY <1>1, <1>2, <1>3
    <2> QED BY <2>1, <1>4 DEF SideTable, SideRow
  <1>6. everAccepted' = everAccepted \cup {<<s, v>>}
    <2>1. \A t \in Side : t # s /\ sides'[t].accepted # None
                              => <<t, sides'[t].accepted>> \in everAccepted
      BY <1>5 DEF IInv, RememberedOK
    <2>2. NewAcceptances \subseteq everAccepted \cup {<<s, v>>}
      BY <1>5, <2>1 DEF NewAcceptances
    <2>3. <<s, v>> \in NewAcceptances
      BY <1>4, <1>5 DEF NewAcceptances
    <2> QED BY <2>2, <2>3 DEF Remember
  <1>7. GoodsSame
    BY <1>1, <1>5, GoodsStay
  <1>8. Abstract!Consent(s, v)
    BY <1>1, <1>6, <1>7 DEF Abstract!Consent, Executed, GoodsSame
  <1> QED BY <1>8 DEF Abstract!Next

(* Who joins brings its accounts; nobody had any in its place.             *)
LEMMA JoinComes ==
    ASSUME IInv, WhereItIs, Remember, NothingSealed, NEW r \in Slots, JoinRoom(r)
    PROVE  [Abstract!Next]_(Abstract!vars)
  <1>1. /\ sides["b"].user = None
        /\ sides' = [sides EXCEPT !["b"].user = reqs[r].user]
        /\ UNCHANGED <<room, relays, at>>
    BY DEF JoinRoom, InsertAdmitted
  <1>2. sides \in SideTable
    BY DEF IInv, TablesOK
  <1>3. /\ sides'["a"].user = sides["a"].user
        /\ \A s \in Side : sides'[s].accepted = sides[s].accepted
    BY <1>1, <1>2 DEF SideTable, SideRow
  <1>4. everAccepted' = everAccepted /\ Executed' = Executed
    BY <1>1, <1>3, NoNewConsent DEF Executed
  <1>5. went' = went /\ receipt' = receipt
    BY <1>1, NowhereNew DEF Remember, NothingSealed
  <1>6. Owns["b"] = {}
    BY <1>1, NullAssumption DEF Owns, SourcesOf
  <1>7. \A q \in Side \ {"b"} : Owns'[q] = Owns[q]
    BY <1>3 DEF Owns, Side
  <1>8. Abstract!Come("b")
    BY <1>1, <1>4, <1>5, <1>6, <1>7 DEF Abstract!Come
  <1> QED BY <1>8 DEF Abstract!Next, Side

(* The steps that only read, or write a side or its items.                 *)
LEMMA QuietStepsUnseen ==
    ASSUME IInv, WhereItIs, Remember, NothingSealed, NEW r \in Slots,
           \/ ReadSides(r) \/ ReadItems(r) \/ Fail(r) \/ SetWallet(r)
           \/ ClearItems(r) \/ CheckPicks(r) \/ SaveItems(r) \/ PruneItems(r)
           \/ ResetAcceptances(r) \/ Unaccept(r) \/ CheckRelay(r)
           \/ VerifyLanded(r) \/ VerifyOther(r) \/ VerifyAgain(r)
    PROVE  UNCHANGED Abstract!vars
  <1>1. UNCHANGED <<room, relays, at>> /\ sides \in SideTable
    BY DEF ReadSides, ReadItems, Fail, SetWallet, ClearItems, CheckPicks, SaveItems,
           PruneItems, ResetAcceptances, Unaccept, CheckRelay, VerifyLanded, VerifyOther,
           VerifyAgain, db,
           IInv, TablesOK
  <1>2. \A s \in Side : /\ sides'[s].accepted \in {None, sides[s].accepted}
                        /\ sides'[s].user = sides[s].user
    <2>1. CASE SetWallet(r)
      <3>1. sides' = [sides EXCEPT ![Me(r)].signer = reqs[r].arg.signer,
                                   ![Me(r)].source = reqs[r].arg.source]
        BY <2>1 DEF SetWallet
      <3> QED BY <1>1, <3>1 DEF SideTable, SideRow
    <2>2. CASE ResetAcceptances(r)
      BY <1>1, <2>2 DEF ResetAcceptances, NotAccepted, SideTable, SideRow
    <2>3. CASE Unaccept(r)
      <3>1. sides' = [sides EXCEPT ![Me(r)].accepted = None]
        BY <2>3 DEF Unaccept, NotAccepted
      <3> QED BY <1>1, <3>1 DEF SideTable, SideRow
    <2>4. CASE \/ ReadSides(r) \/ ReadItems(r) \/ Fail(r) \/ ClearItems(r) \/ CheckPicks(r)
               \/ SaveItems(r) \/ PruneItems(r) \/ CheckRelay(r) \/ VerifyLanded(r)
               \/ VerifyOther(r) \/ VerifyAgain(r)
      <3>1. sides' = sides
        BY <2>4 DEF ReadSides, ReadItems, Fail, ClearItems, CheckPicks, SaveItems, PruneItems,
                    CheckRelay, VerifyLanded, VerifyOther, VerifyAgain, db
      <3> QED BY <3>1
    <2> QED BY <2>1, <2>2, <2>3, <2>4
  <1>3. Executed' = Executed
    BY <1>1 DEF Executed
  <1> QED BY <1>1, <1>2, <1>3, Unseen

(* Asking for a signature and giving it are no trade yet.                  *)
LEMMA RelayStepsUnseen ==
    ASSUME IInv, WhereItIs, Remember, NothingSealed,
           \/ \E r \in Slots : PostSignable(r) \/ PostSignature(r)
           \/ \E i \in DOMAIN relays : RelayExpires(i)
    PROVE  UNCHANGED Abstract!vars
  <1>1. relays \in Seq(RelayRow) /\ DOMAIN relays = 1..Len(relays) /\ Len(relays) \in Nat
    BY DEF IInv, TablesOK, RelaysOK
  <1>2. UNCHANGED <<room, sides, at>>
    BY DEF PostSignable, PostSignature, RelayExpires
  <1>3. Executed' = Executed
    <2>1. CASE \E r \in Slots : PostSignable(r)
      <3>1. PICK row : relays' = Append(relays, row) /\ row.executed = FALSE
        BY <2>1 DEF PostSignable
      <3>2. /\ DOMAIN relays' = 1..(Len(relays) + 1)
            /\ relays'[Len(relays) + 1] = row
            /\ \A i \in 1..Len(relays) : relays'[i] = relays[i]
        BY <1>1, <3>1
      <3>3. \A i \in DOMAIN relays' : i \in DOMAIN relays \/ i = Len(relays) + 1
        BY <1>1, <3>2
      <3>4. DOMAIN relays \subseteq DOMAIN relays'
        BY <1>1, <3>2
      <3> QED BY <1>1, <3>1, <3>2, <3>3, <3>4 DEF Executed
    <2>2. CASE \E r \in Slots : PostSignature(r)
      <3>1. PICK i : relays' = [relays EXCEPT ![i].signed = TRUE]
        BY <2>2 DEF PostSignature
      <3>2. /\ DOMAIN relays' = DOMAIN relays
            /\ \A j \in DOMAIN relays : relays'[j].executed = relays[j].executed
        BY <1>1, <3>1 DEF RelayRow
      <3> QED BY <3>2 DEF Executed
    <2>3. CASE \E i \in DOMAIN relays : RelayExpires(i)
      <3>1. PICK i : relays' = [relays EXCEPT ![i].fresh = FALSE]
        BY <2>3 DEF RelayExpires
      <3>2. /\ DOMAIN relays' = DOMAIN relays
            /\ \A j \in DOMAIN relays : relays'[j].executed = relays[j].executed
        BY <1>1, <3>1 DEF RelayRow
      <3> QED BY <3>2 DEF Executed
    <2> QED BY <2>1, <2>2, <2>3
  <1> QED BY <1>2, <1>3, Unseen

(* Goods change places, by the swap or not, and leave a track.             *)
LEMMA GoodsMove ==
    ASSUME IInv', Remember, NothingSealed, UNCHANGED <<room, sides>>,
           everAccepted' = everAccepted
    PROVE  Abstract!Move
  <1>1. at' \in [Moments -> Accounts]
    BY DEF IInv, TablesOK
  <1>2. went' = went \cup
           UNION {{<<m, x, at'[m]>> : x \in {y \in Accounts : <<m, y, at[m]>> \in went}
                                             \cup {at'[m]}} : m \in Moments}
    BY DEF Remember, BeenIn
  <1>3. receipt' = receipt
    BY DEF Remember, NothingSealed
  <1>4. Owns' = Owns
    BY DEF Owns
  <1> QED BY <1>1, <1>2, <1>3, <1>4 DEF Abstract!Move

(* The chain carries out the trade, once some version was agreed.          *)
LEMMA SwapTrades ==
    ASSUME IInv, IInv', RelaysAgreed, Remember, NothingSealed,
           NEW i \in DOMAIN relays, ExecuteSwap(i)
    PROVE  Abstract!Trade
  <1>1. /\ UNCHANGED <<room, sides>> /\ relays' = [relays EXCEPT ![i].executed = TRUE]
        /\ relays \in Seq(RelayRow)
    BY DEF ExecuteSwap, IInv, TablesOK, RelaysOK
  <1>2. Executed' = TRUE
    <2>1. DOMAIN relays' = DOMAIN relays
      BY <1>1
    <2>2. relays[i] \in RelayRow
      BY <1>1
    <2>3. relays'[i] = [relays[i] EXCEPT !.executed = TRUE]
      BY <1>1
    <2>4. relays'[i].executed = TRUE
      BY <2>2, <2>3 DEF RelayRow
    <2> QED BY <2>1, <2>4 DEF Executed
  <1>3. everAccepted' = everAccepted
    BY <1>1, NoNewConsent
  <1>4. SomeAgreed
    BY DEF RelaysAgreed
  <1>5. Abstract!Move
    BY <1>1, <1>3, GoodsMove
  <1> QED BY <1>2, <1>4, <1>5 DEF SomeAgreed, Abstract!Trade, Abstract!Agreed

LEMMA OutsideMoves ==
    ASSUME IInv, IInv', Remember, NothingSealed,
           NEW m \in Moments, NEW account \in Accounts, MoveOutside(m, account)
    PROVE  Abstract!MoveOutside
  <1>1. UNCHANGED <<room, sides, relays>>
    BY DEF MoveOutside, db
  <1>2. Executed' = Executed /\ everAccepted' = everAccepted
    BY <1>1, NoNewConsent DEF Executed
  <1>3. Abstract!Move
    BY <1>1, <1>2, GoodsMove
  <1> QED BY <1>2, <1>3 DEF Abstract!MoveOutside

LEMMA StepsAgree ==
    ASSUME PactInv, IInv', HNext
    PROVE  [Abstract!Next]_(Abstract!vars)
  <1>1. IInv /\ SealInv /\ WhereItIs /\ RelaysAgreed /\ Remember
    BY DEF PactInv, HNext
  <1>2. CASE \E r \in Slots : MarkSealed(r) /\ CanSeal
    BY <1>1, <1>2, SealFinishes DEF Abstract!Next
  <1>3. ASSUME ~\E r \in Slots : MarkSealed(r) /\ CanSeal
        PROVE  [Abstract!Next]_(Abstract!vars)
    <2>1. NothingSealed
      BY <1>3 DEF NothingSealed, Sealing
    <2>2. CASE \E r \in Slots : HandlerStep(r)
      <3>1. PICK r \in Slots : HandlerStep(r)
        BY <2>2
      <3>2. CASE \/ JoinedStatus(r) \/ LockRoom(r) \/ UnlockRoom(r) \/ CancelRoom(r)
                 \/ MarkSigning(r) \/ MarkSigningEnded(r)
        BY <1>1, <2>1, <3>2, StatusStepsAgree
      <3>3. CASE Touch(r)
        BY <1>1, <2>1, <3>3, TouchEdits DEF Abstract!Next
      <3>4. CASE Accept(r) \/ JoinRoom(r)
        BY <1>1, <2>1, <3>4, AcceptConsents, JoinComes
      <3>5. CASE PostSignable(r) \/ PostSignature(r)
        BY <1>1, <2>1, <3>5, RelayStepsUnseen
      <3>6. CASE \/ ReadSides(r) \/ ReadItems(r) \/ Fail(r) \/ SetWallet(r)
                 \/ ClearItems(r) \/ CheckPicks(r) \/ SaveItems(r) \/ PruneItems(r)
                 \/ ResetAcceptances(r) \/ Unaccept(r) \/ CheckRelay(r)
                 \/ VerifyLanded(r) \/ VerifyOther(r) \/ VerifyAgain(r)
        BY <1>1, <2>1, <3>6, QuietStepsUnseen
      <3>7. CASE MarkSealed(r)
        <4>1. UNCHANGED <<room, sides, relays, at>>
          BY <1>3, <3>7 DEF MarkSealed
        <4>2. Executed' = Executed
          BY <4>1 DEF Executed
        <4> QED BY <1>1, <2>1, <4>1, <4>2, Unseen
      <3> QED BY <3>1, <3>2, <3>3, <3>4, <3>5, <3>6, <3>7 DEF HandlerStep
    <2>3. CASE \/ \E r \in FreeSlot, kind \in Kinds, user \in Users :
                     \E arg \in Args(kind, user) : Start(r, kind, user, arg)
               \/ Expire
      <3>1. UNCHANGED <<room, sides, relays, at>>
        BY <2>3 DEF Start, Expire, db
      <3>2. Executed' = Executed
        BY <3>1 DEF Executed
      <3> QED BY <1>1, <2>1, <3>1, <3>2, Unseen
    <2>4. CASE \E i \in DOMAIN relays : RelayExpires(i)
      BY <1>1, <2>1, <2>4, RelayStepsUnseen
    <2>5. CASE \E i \in DOMAIN relays : ExecuteSwap(i)
      BY <1>1, <2>1, <2>5, SwapTrades DEF Abstract!Next
    <2>6. CASE \E m \in Moments, account \in Accounts : MoveOutside(m, account)
      BY <1>1, <2>1, <2>6, OutsideMoves DEF Abstract!Next
    <2> QED BY <2>2, <2>3, <2>4, <2>5, <2>6 DEF HNext, Next
  <1> QED BY <1>2, <1>3

-----------------------------------------------------------------------------

(* Versions and acceptances only grow.                                     *)
LEMMA StepAdvances ==
    ASSUME IInv, HNext
    PROVE  Advance
  <1>1. Remember
    BY DEF HNext
  <1>2. CASE \E r \in Slots : HandlerStep(r)
    BY <1>1, <1>2, HandlerStepKeeps DEF Kept
  <1>3. CASE \E r \in FreeSlot, kind \in Kinds, user \in Users :
                \E arg \in Args(kind, user) : Start(r, kind, user, arg)
    <2>1. UNCHANGED <<db, at>>
      BY <1>3 DEF Start
    <2> QED BY <1>1, <2>1, TablesStay
  <1>4. CASE \/ Expire
             \/ \E m \in Moments, account \in Accounts : MoveOutside(m, account)
             \/ \E i \in DOMAIN relays : RelayExpires(i) \/ ExecuteSwap(i)
    BY <1>1, <1>4, ExpireKeeps, MoveOutsideKeeps, RelayExpiresKeeps, ExecuteSwapKeeps DEF Kept
  <1> QED BY <1>2, <1>3, <1>4 DEF HNext, Next

LEMMA AgreedForGood ==
    ASSUME Advance, SomeAgreed
    PROVE  SomeAgreed'
  BY DEF Advance, SomeAgreed

(* No relay row is written but by a request that saw the room executable.  *)
LEMMA RelaysStayAgreed ==
    ASSUME IInv, RelaysAgreed, HNext
    PROVE  RelaysAgreed'
  <1>1. Advance /\ relays \in Seq(RelayRow)
    BY StepAdvances DEF IInv, TablesOK, RelaysOK
  <1>2. CASE DOMAIN relays' = DOMAIN relays
    BY <1>1, <1>2, AgreedForGood DEF RelaysAgreed
  <1>3. CASE \E r \in Slots : PostSignable(r)
    <2>1. PICK r \in Slots : PostSignable(r)
      BY <1>3
    <2>2. RequestOK(reqs[r], room.version, everAccepted, Len(relays)) /\ reqs[r].pc = "post"
      BY <2>1 DEF PostSignable, At, IInv, RequestsOK
    <2>3. /\ reqs[r].room.version \in 1..room.version
          /\ \A s \in Side : <<s, reqs[r].room.version>> \in everAccepted
      BY <2>2 DEF RequestOK, ReadingOK, StageOK
    <2>4. SomeAgreed
      BY <2>3 DEF SomeAgreed
    <2> QED BY <1>1, <2>4, AgreedForGood DEF RelaysAgreed
  <1>4. DOMAIN relays' = DOMAIN relays \/ \E r \in Slots : PostSignable(r)
    BY <1>1 DEF HNext, Next, HandlerStep, Start, Expire, MoveOutside, RelayExpires, ExecuteSwap,
         ReadSides, ReadItems, Fail, JoinRoom, JoinedStatus, SetWallet, ClearItems, CheckPicks, SaveItems,
         PruneItems, Touch, ResetAcceptances, Accept, LockRoom, Unaccept, UnlockRoom, CancelRoom,
         MarkSigning, CheckRelay, PostSignature, MarkSigningEnded, VerifyLanded, VerifyOther,
         VerifyAgain, MarkSealed, db
  <1> QED BY <1>2, <1>3, <1>4

LEMMA PactInitially ==
    ASSUME HInit
    PROVE  PactInv /\ Abstract!Init
  <1>1. PICK guest \in {None} \cup (Users \ {Creator}) : Opened(guest)
    BY DEF HInit, Init
  <1>2. IInv
    BY InitiallySound
  <1>3. SealInv /\ WhereItIs
    BY SealedInitially
  <1>4. /\ relays = << >> /\ room.version = 1 /\ everAccepted = {}
        /\ room.status \in {"open", "building"} /\ at \in [Moments -> Accounts]
        /\ receipt = Blank /\ went = {<<m, at[m], at[m]>> : m \in Moments}
    BY <1>1, WalletAssumption DEF Opened, HInit
  <1>5. DOMAIN relays = {}
    BY <1>4
  <1>6. RelaysAgreed /\ Executed = FALSE
    BY <1>5 DEF RelaysAgreed, Executed
  <1>7. PhaseOf(room.status) = "draft"
    BY <1>4 DEF PhaseOf
  <1>8. Owns \in [Side -> SUBSET Accounts]
    BY SourcesOfSomeone DEF Owns
  <1>9. \A s \in Side : receipt[s].gives = {}
    BY <1>4 DEF Blank
  <1>10. Abstract!Init
    BY <1>4, <1>6, <1>7, <1>8, <1>9 DEF Abstract!Init
  <1> QED BY <1>2, <1>3, <1>6, <1>10 DEF PactInv

LEMMA PactStays ==
    ASSUME PactInv, [HNext]_hvars
    PROVE  PactInv'
  <1>1. CASE HNext
    <2>1. IInv'
      BY <1>1, StepKeeps DEF PactInv
    <2> QED BY <1>1, <2>1, SealStepKeeps, RelaysStayAgreed, PlacesRemembered DEF PactInv, HNext
  <1>2. CASE UNCHANGED hvars
    <2>1. IInv'
      BY <1>2 DEF hvars, vars, PactInv, IInv, TablesOK, RoomOK, AcceptedOK, RelaysOK,
                  RememberedOK, ExecutableIsAgreed, EditsOK, OneEditPerVersion, RequestsOK
    <2>2. SealInv' /\ WhereItIs'
      <3>1. UNCHANGED <<room, sides, items, reqs, at, went, receipt>>
        BY <1>2 DEF hvars, vars
      <3>2. Handed' = Handed
        BY <3>1 DEF Handed, HandedOver
      <3> QED BY <3>1, <3>2 DEF PactInv, SealInv, WhereItIs, SidesOwned, SealedIsHandedOver,
                               HandedOver
    <2>3. RelaysAgreed'
      BY <1>2 DEF hvars, vars, PactInv, RelaysAgreed, SomeAgreed
    <2> QED BY <2>1, <2>2, <2>3 DEF PactInv
  <1> QED BY <1>1, <1>2

(* Every step of every handler, whatever it read and however the owners    *)
(* move their moments meanwhile, is a step of the agreement: the room locks *)
(* what both consented to at one version, the chain trades nothing of the   *)
(* room before, and a report seals what has changed hands.                  *)
THEOREM RoomFollowsAgreement == HSpec => FollowsAgreement
  <1>1. HInit => PactInv
    BY PactInitially
  <1>2. PactInv /\ [HNext]_hvars => PactInv'
    BY PactStays
  <1>3. PactInv /\ PactInv' /\ [HNext]_hvars => [Abstract!Next]_(Abstract!vars)
    <2> SUFFICES ASSUME PactInv, PactInv', [HNext]_hvars
                 PROVE  [Abstract!Next]_(Abstract!vars)
      OBVIOUS
    <2>1. CASE HNext
      BY <2>1, StepsAgree DEF PactInv
    <2>2. CASE UNCHANGED hvars
      BY <2>2 DEF hvars, vars, Executed, Owns, Abstract!vars
    <2> QED BY <2>1, <2>2
  <1> QED BY <1>1, <1>2, <1>3, PTL DEF HSpec, FollowsAgreement

(* The room implements the agreement: it starts as a draft nobody has       *)
(* consented to, and goes on as the agreement does.                         *)
THEOREM RoomImplementsAgreement == HSpec => ImplementsAgreement
  <1>1. HInit => Abstract!Init
    BY PactInitially
  <1> QED BY <1>1, RoomFollowsAgreement, PTL DEF HSpec, ImplementsAgreement

-----------------------------------------------------------------------------
(* What is put up for signature is proven.                                 *)
(*                                                                         *)
(* A side's collector never changes once there is one, so that what a      *)
(* request loaded of a side, however long ago, is of the collector who is  *)
(* in it now: a pair that collector has proven (Grounded).                 *)

Proven(row) == row.user # None /\ WalletOf(row) \in Wallets[row.user]

SidesProven == \A s \in Side : sides[s].source # None => Proven(sides[s])

Apart(theItems) == theItems["a"] \cap theItems["b"] = {}

Grounded(q, now) ==
    /\ q.kind = "wallet" => q.arg \in Wallets[q.user]
    /\ q.sides # None => \A s \in Side :
          /\ q.sides[s].user # None => q.sides[s].user = now[s].user
          /\ q.sides[s].source # None => Proven(q.sides[s])
    /\ q.items # None => Apart(q.items)

RelayProven(relay, now) ==
    /\ \A s \in Side : now[s].user # None /\ WalletOf(relay.voucher[s]) \in Wallets[now[s].user]
    /\ relay.voucher["a"].gives \cap relay.voucher["b"].gives = {}
    /\ relay.cosigner = relay.voucher[Other(relay.initiator)].signer
    /\ relay.executed => relay.signed

RelaysProven == \A i \in DOMAIN relays : RelayProven(relays[i], sides)

TablesProven == SidesProven /\ Apart(items) /\ RelaysProven

ProvenInv ==
    TablesProven /\ \A r \in Slots : reqs[r] # None => Grounded(reqs[r], sides)

LEMMA RelaysStayProven ==
    ASSUME RelaysProven, relays' = relays, UsersStay
    PROVE  RelaysProven'
  BY DEF RelaysProven, RelayProven, UsersStay

LEMMA GroundedStays ==
    ASSUME UsersStay, NEW q, Grounded(q, sides)
    PROVE  Grounded(q, sides')
  BY DEF Grounded, UsersStay

(* The step of one request, whatever it writes.                            *)
LEMMA OneGrounded ==
    ASSUME IInv, ProvenInv, TablesProven', UsersStay, NEW r \in Slots, NEW next,
           reqs' = [reqs EXCEPT ![r] = next],
           next # None => Grounded(next, sides')
    PROVE  ProvenInv'
  <1>1. reqs' = [q \in Slots |-> IF q = r THEN next ELSE reqs[q]]
    BY DEF IInv, RequestsOK
  <1>2. ASSUME NEW q \in Slots, reqs'[q] # None
        PROVE  Grounded(reqs'[q], sides')
    <2>1. CASE q = r
      BY <1>1, <1>2, <2>1
    <2>2. CASE q # r
      BY <1>1, <1>2, <2>2, GroundedStays DEF ProvenInv
    <2> QED BY <2>1, <2>2
  <1> QED BY <1>2 DEF ProvenInv

LEMMA NoneLessGrounded ==
    ASSUME ProvenInv, TablesProven', UsersStay, reqs' = reqs
    PROVE  ProvenInv'
  BY GroundedStays DEF ProvenInv

LEMMA EndGrounded ==
    ASSUME IInv, ProvenInv, TablesProven', UsersStay, NEW r \in Slots, End(r)
    PROVE  ProvenInv'
  BY OneGrounded DEF End

LEMMA GotoGrounded ==
    ASSUME IInv, ProvenInv, TablesProven', UsersStay, NEW r \in Slots, reqs[r] # None,
           NEW pc \in Pcs, Goto(r, pc)
    PROVE  ProvenInv'
  <1>1. reqs[r] \in Requests /\ Grounded(reqs[r], sides)
    BY DEF IInv, RequestsOK, RequestOK, ProvenInv
  <1>2. PICK p : p = [reqs[r] EXCEPT !.pc = pc]
    OBVIOUS
  <1>3. /\ p.kind = reqs[r].kind /\ p.user = reqs[r].user /\ p.arg = reqs[r].arg
        /\ p.sides = reqs[r].sides /\ p.items = reqs[r].items
    BY <1>1, <1>2, GoesOn
  <1>4. Grounded(p, sides')
    BY <1>1, <1>3, GroundedStays DEF Grounded
  <1>5. reqs' = [reqs EXCEPT ![r] = p]
    BY <1>2 DEF Goto
  <1> QED BY <1>4, <1>5, OneGrounded

(* What a request at work has loaded, and whose side it writes.            *)
LEMMA WorksOnGround ==
    ASSUME IInv, ProvenInv, NEW r \in Slots, reqs[r] # None
    PROVE  reqs[r] \in Requests /\ Grounded(reqs[r], sides)
  BY DEF IInv, RequestsOK, RequestOK, ProvenInv

LEMMA OwnSide ==
    ASSUME IInv, ProvenInv, NEW r \in Slots, reqs[r] # None, reqs[r].sides # None, InRoom(r)
    PROVE  Me(r) \in Side /\ sides[Me(r)].user = reqs[r].user /\ reqs[r].user # None
  <1>1. Me(r) \in Side /\ reqs[r].sides[Me(r)].user = reqs[r].user
    BY MyOwnSide
  <1>2. reqs[r].user # None
    BY WorksOnGround DEF Requests
  <1> QED BY <1>1, <1>2, WorksOnGround DEF Grounded

-----------------------------------------------------------------------------

(* A step that leaves what was proven, put up and picked as it is.         *)
LEMMA NothingProvenAnew ==
    ASSUME ProvenInv, UNCHANGED <<items, relays>>,
           \A s \in Side : /\ sides'[s].user = sides[s].user
                           /\ sides'[s].signer = sides[s].signer
                           /\ sides'[s].source = sides[s].source
    PROVE  TablesProven' /\ UsersStay
  <1>1. UsersStay
    BY DEF UsersStay
  <1>2. SidesProven'
    BY DEF ProvenInv, TablesProven, SidesProven, Proven, WalletOf
  <1> QED BY <1>1, <1>2, RelaysStayProven DEF ProvenInv, TablesProven

LEMMA StartGrounded ==
    ASSUME IInv, ProvenInv, NEW r \in Slots, NEW kind \in Kinds, NEW user \in Users,
           NEW arg \in Args(kind, user), Start(r, kind, user, arg)
    PROVE  ProvenInv'
  <1>1. PICK next : next = [kind |-> kind, user |-> user, arg |-> arg, pc |-> "load",
                            room |-> room, sides |-> None, items |-> None]
    OBVIOUS
  <1>2. reqs' = [reqs EXCEPT ![r] = next] /\ UNCHANGED <<sides, items, relays>>
    BY <1>1 DEF Start, db
  <1>3. kind = "wallet" => arg \in Wallets[user]
    BY DEF Args
  <1>4. Grounded(next, sides')
    BY <1>1, <1>3 DEF Grounded
  <1> QED BY <1>2, <1>4, NothingProvenAnew, OneGrounded

LEMMA ReadsGrounded ==
    ASSUME IInv, ProvenInv, NEW r \in Slots, ReadSides(r) \/ ReadItems(r)
    PROVE  ProvenInv'
  <1>1. reqs[r] # None /\ UNCHANGED <<sides, items, relays>>
    BY DEF ReadSides, ReadItems, At, db
  <1>2. PICK next : \/ next = [reqs[r] EXCEPT !.sides = sides] /\ ReadSides(r)
                    \/ next = [reqs[r] EXCEPT !.items = items] /\ ReadItems(r)
    OBVIOUS
  <1>3. reqs' = [reqs EXCEPT ![r] = next]
    BY <1>2 DEF ReadSides, ReadItems
  <1>4. /\ next.kind = reqs[r].kind /\ next.user = reqs[r].user /\ next.arg = reqs[r].arg
        /\ next.sides = reqs[r].sides \/ next.sides = sides
        /\ next.items = reqs[r].items \/ next.items = items
    BY <1>1, <1>2, WorksOnGround DEF Requests
  <1>5. Grounded(next, sides')
    BY <1>1, <1>4, WorksOnGround DEF Grounded, ProvenInv, TablesProven, SidesProven
  <1> QED BY <1>1, <1>3, <1>5, NothingProvenAnew, OneGrounded

LEMMA VerifyAgainGrounded ==
    ASSUME IInv, ProvenInv, NEW r \in Slots, VerifyAgain(r)
    PROVE  ProvenInv'
  <1>1. reqs[r] # None /\ reqs[r].kind = "verify" /\ UNCHANGED <<sides, items, relays>>
    BY DEF VerifyAgain, Loaded, At, db
  <1>2. PICK next : next = [reqs[r] EXCEPT !.pc = "seal", !.arg = reqs[r].room.tx]
    OBVIOUS
  <1>3. reqs[r] \in Requests
    BY <1>1, WorksOnGround
  <1>4. reqs' = [reqs EXCEPT ![r] = next]
    <2>1. reqs = [q \in Slots |-> reqs[q]]
      BY DEF IInv, RequestsOK
    <2> QED BY <1>2, <1>3, <2>1 DEF VerifyAgain, Requests
  <1>5. next.kind = "verify" /\ next.sides = reqs[r].sides /\ next.items = reqs[r].items
    BY <1>1, <1>2, <1>3 DEF Requests
  <1>6. Grounded(next, sides')
    BY <1>1, <1>5, WorksOnGround DEF Grounded
  <1> QED BY <1>1, <1>4, <1>6, NothingProvenAnew, OneGrounded

(* The steps that write no more than the room's row.                       *)
LEMMA RoomStepsGrounded ==
    ASSUME IInv, ProvenInv, NEW r \in Slots,
           \/ Fail(r) \/ JoinedStatus(r) \/ LockRoom(r) \/ UnlockRoom(r) \/ CancelRoom(r)
           \/ MarkSigningEnded(r) \/ MarkSealed(r) \/ MarkSigning(r) \/ CheckRelay(r)
           \/ Touch(r) \/ CheckPicks(r) \/ VerifyLanded(r) \/ VerifyOther(r)
    PROVE  ProvenInv'
  <1>1. /\ reqs[r] # None /\ UNCHANGED <<sides, items, relays>>
        /\ \/ End(r) \/ Goto(r, "post") \/ Goto(r, "sign") \/ Goto(r, "reset")
           \/ Goto(r, "save") \/ Goto(r, "landed") \/ Goto(r, "seal")
    BY DEF Fail, JoinedStatus, LockRoom, UnlockRoom, CancelRoom, MarkSigningEnded, MarkSealed,
           MarkSigning, CheckRelay, Touch, CheckPicks, VerifyLanded, VerifyOther, Loaded, At, db
  <1>2. TablesProven' /\ UsersStay
    BY <1>1, NothingProvenAnew
  <1> QED BY <1>1, <1>2, EndGrounded, GotoGrounded DEF Pcs

LEMMA AcceptancesGrounded ==
    ASSUME IInv, ProvenInv, NEW r \in Slots,
           ResetAcceptances(r) \/ Accept(r) \/ Unaccept(r)
    PROVE  ProvenInv'
  <1>1. /\ reqs[r] # None /\ UNCHANGED <<items, relays>>
        /\ End(r) \/ Goto(r, "lock") \/ Goto(r, "unlock")
    BY DEF ResetAcceptances, Accept, Unaccept, Loaded, At
  <1>2. sides \in SideTable
    BY DEF IInv, TablesOK
  <1>3. \A s \in Side : /\ sides'[s].user = sides[s].user
                        /\ sides'[s].signer = sides[s].signer
                        /\ sides'[s].source = sides[s].source
    <2>1. CASE ResetAcceptances(r)
      BY <1>2, <2>1 DEF ResetAcceptances, SideTable, SideRow
    <2>2. CASE Accept(r)
      <3>1. sides' = [sides EXCEPT ![Me(r)].accepted = reqs[r].arg]
        BY <2>2 DEF Accept
      <3> QED BY <1>2, <3>1 DEF SideTable, SideRow
    <2>3. CASE Unaccept(r)
      <3>1. sides' = [sides EXCEPT ![Me(r)].accepted = NotAccepted]
        BY <2>3 DEF Unaccept
      <3> QED BY <1>2, <3>1 DEF SideTable, SideRow
    <2> QED BY <2>1, <2>2, <2>3
  <1>4. TablesProven' /\ UsersStay
    BY <1>1, <1>3, NothingProvenAnew
  <1> QED BY <1>1, <1>4, EndGrounded, GotoGrounded DEF Pcs

(* Who joins takes an empty side, where nothing is proven yet.             *)
LEMMA JoinRoomGrounded ==
    ASSUME IInv, ProvenInv, NEW r \in Slots, JoinRoom(r)
    PROVE  ProvenInv'
  <1>1. /\ reqs[r] # None /\ Goto(r, "joined") /\ UNCHANGED <<items, relays>>
        /\ sides["b"].user = None
        /\ sides' = [sides EXCEPT !["b"].user = reqs[r].user]
    BY DEF JoinRoom, Loaded, At, InsertAdmitted
  <1>2. sides \in SideTable
    BY DEF IInv, TablesOK
  <1>3. sides'["a"] = sides["a"] /\ sides'["b"].source = sides["b"].source
    BY <1>1, <1>2 DEF SideTable, SideRow
  <1>4. sides["b"].source = None
    BY <1>1 DEF ProvenInv, TablesProven, SidesProven, Proven
  <1>5. SidesProven' /\ UsersStay
    BY <1>1, <1>3, <1>4 DEF ProvenInv, TablesProven, SidesProven, UsersStay
  <1>6. TablesProven'
    BY <1>1, <1>5, RelaysStayProven DEF ProvenInv, TablesProven
  <1> QED BY <1>1, <1>5, <1>6, GotoGrounded DEF Pcs

LEMMA SetWalletGrounded ==
    ASSUME IInv, ProvenInv, NEW r \in Slots, SetWallet(r)
    PROVE  ProvenInv'
  <1>1. /\ reqs[r] # None /\ reqs[r].sides # None /\ reqs[r].kind = "wallet" /\ InRoom(r)
        /\ (Goto(r, "clear") \/ Goto(r, "touch")) /\ UNCHANGED <<items, relays>>
    BY DEF SetWallet, Loaded, At
  <1>2. PICK s \in Side : s = Me(r) /\ sides[s].user = reqs[r].user /\ reqs[r].user # None
    BY <1>1, OwnSide
  <1>3. sides' = [sides EXCEPT ![s].signer = reqs[r].arg.signer, ![s].source = reqs[r].arg.source]
    BY <1>2 DEF SetWallet
  <1>4. sides \in SideTable
    BY DEF IInv, TablesOK
  <1>5. /\ \A t \in Side : sides'[t].user = sides[t].user
        /\ \A t \in Side : t # s => sides'[t] = sides[t]
        /\ sides'[s].source = reqs[r].arg.source
        /\ sides'[s].signer = reqs[r].arg.signer
    BY <1>3, <1>4 DEF SideTable, SideRow
  <1>6. reqs[r].arg \in Wallets[reqs[r].user] /\ reqs[r].user \in Users
    BY <1>1, WorksOnGround DEF Grounded, Requests
  <1>7. reqs[r].arg \in Pairs
    BY <1>6 DEF Pairs
  <1>8. WalletOf(sides'[s]) = reqs[r].arg
    BY <1>5, <1>7 DEF WalletOf, Pairs
  <1>9. Proven(sides'[s])
    BY <1>2, <1>5, <1>6, <1>8 DEF Proven
  <1>10. SidesProven' /\ UsersStay
    BY <1>2, <1>5, <1>9 DEF ProvenInv, TablesProven, SidesProven, UsersStay
  <1>11. TablesProven'
    BY <1>1, <1>10, RelaysStayProven DEF ProvenInv, TablesProven
  <1> QED BY <1>1, <1>10, <1>11, GotoGrounded DEF Pcs

(* A side's items shrink, or grow by picks the other side does not give.   *)
LEMMA ItemStepsGrounded ==
    ASSUME IInv, ProvenInv, NEW r \in Slots, ClearItems(r) \/ SaveItems(r) \/ PruneItems(r)
    PROVE  ProvenInv'
  <1>1. /\ reqs[r] # None /\ UNCHANGED <<sides, relays>>
        /\ reqs[r].pc \in {"clear", "save", "prune"}
        /\ Goto(r, "touch") \/ Goto(r, "prune")
    BY DEF ClearItems, SaveItems, PruneItems, At
  <1>2. reqs[r].sides # None /\ InRoom(r)
    BY <1>1 DEF IInv, RequestsOK, RequestOK, StageOK, CallerIn, InRoom
  <1>3. PICK s \in Side : s = Me(r)
    BY <1>2, MyOwnSide
  <1>4. items \in ItemTable /\ Apart(items)
    BY DEF IInv, TablesOK, ProvenInv, TablesProven
  <1>5. /\ \A t \in Side : t # s => items'[t] = items[t]
        /\ \/ items'[s] \subseteq items[s]
           \/ /\ items'[s] = items[s] \cup reqs[r].arg
              /\ reqs[r].arg \cap items[Other(s)] = {}
    BY <1>3, <1>4 DEF ClearItems, SaveItems, PruneItems, ItemTable
  <1>6. Apart(items')
    BY <1>3, <1>4, <1>5 DEF Apart, Other
  <1>7. UsersStay /\ SidesProven'
    BY <1>1 DEF UsersStay, ProvenInv, TablesProven, SidesProven
  <1>8. TablesProven'
    BY <1>1, <1>6, <1>7, RelaysStayProven DEF ProvenInv, TablesProven
  <1> QED BY <1>1, <1>7, <1>8, GotoGrounded DEF Pcs

-----------------------------------------------------------------------------

(* One attempt is written, and the others stay.                            *)
LEMMA RelayFlagged ==
    ASSUME IInv, ProvenInv, UNCHANGED <<sides, items>>,
           NEW i \in DOMAIN relays, NEW row, relays' = [relays EXCEPT ![i] = row],
           row.voucher = relays[i].voucher, row.cosigner = relays[i].cosigner,
           row.initiator = relays[i].initiator, row.executed => row.signed
    PROVE  TablesProven' /\ UsersStay
  <1>1. /\ DOMAIN relays' = DOMAIN relays /\ relays'[i] = row
        /\ \A j \in DOMAIN relays : j # i => relays'[j] = relays[j]
    BY DEF IInv, TablesOK, RelaysOK
  <1>2. RelayProven(row, sides)
    BY DEF ProvenInv, TablesProven, RelaysProven, RelayProven
  <1>3. RelaysProven'
    BY <1>1, <1>2 DEF ProvenInv, TablesProven, RelaysProven
  <1> QED BY <1>3 DEF ProvenInv, TablesProven, SidesProven, UsersStay

(* The voucher is of the pairs and the items the request loaded.           *)
LEMMA PostSignableGrounded ==
    ASSUME IInv, ProvenInv, NEW r \in Slots, PostSignable(r)
    PROVE  ProvenInv'
  <1>1. /\ reqs[r] # None /\ reqs[r].pc = "post" /\ End(r)
        /\ UNCHANGED <<sides, items>>
    BY DEF PostSignable, At
  <1>2. RequestOK(reqs[r], room.version, everAccepted, Len(relays))
    BY <1>1 DEF IInv, RequestsOK
  <1>3. /\ reqs[r].sides # None /\ reqs[r].items # None /\ InRoom(r)
        /\ \A s \in Side : reqs[r].sides[s].source # None
    BY <1>1, <1>2 DEF RequestOK, StageOK, CallerIn, InRoom
  <1>4. PICK row : row = [cosigner |-> Theirs(r).signer, initiator |-> Me(r),
                          voucher |-> Voucher(reqs[r].sides, reqs[r].items),
                          signed |-> FALSE, fresh |-> TRUE, executed |-> FALSE]
    OBVIOUS
  <1>5. relays' = Append(relays, row)
    BY <1>4 DEF PostSignable
  <1>6. Me(r) \in Side
    BY <1>3, MyOwnSide
  <1>7. \A s \in Side : /\ row.voucher[s].gives = reqs[r].items[s]
                        /\ row.voucher[s].signer = reqs[r].sides[s].signer
                        /\ WalletOf(row.voucher[s]) = WalletOf(reqs[r].sides[s])
    BY <1>4 DEF Voucher, WalletOf
  <1>8. \A s \in Side : Proven(reqs[r].sides[s]) /\ sides[s].user = reqs[r].sides[s].user
    BY <1>1, <1>3, WorksOnGround DEF Grounded, Proven
  <1>9. \A s \in Side : sides[s].user # None /\ WalletOf(row.voucher[s]) \in Wallets[sides[s].user]
    BY <1>7, <1>8 DEF Proven
  <1>10. row.voucher["a"].gives \cap row.voucher["b"].gives = {}
    BY <1>1, <1>3, <1>7, WorksOnGround DEF Grounded, Apart
  <1>11. row.cosigner = row.voucher[Other(row.initiator)].signer
    BY <1>4, <1>6, <1>7 DEF Theirs, Other
  <1>12. RelayProven(row, sides)
    <2>1. row.executed = FALSE
      BY <1>4
    <2> QED BY <1>9, <1>10, <1>11, <2>1 DEF RelayProven
  <1>13. relays \in Seq(RelayRow) /\ DOMAIN relays = 1..Len(relays) /\ Len(relays) \in Nat
    BY DEF IInv, TablesOK, RelaysOK
  <1>14. \A i \in DOMAIN relays' : relays'[i] = row
            \/ (i \in DOMAIN relays /\ relays'[i] = relays[i])
    <2>1. DOMAIN relays' = 1..(Len(relays) + 1)
      BY <1>5, <1>13
    <2>2. relays'[Len(relays) + 1] = row /\ \A i \in 1..Len(relays) : relays'[i] = relays[i]
      BY <1>5, <1>13
    <2> QED BY <1>13, <2>1, <2>2
  <1>15. RelaysProven'
    BY <1>1, <1>12, <1>14 DEF ProvenInv, TablesProven, RelaysProven
  <1>16. TablesProven' /\ UsersStay
    BY <1>1, <1>15 DEF ProvenInv, TablesProven, SidesProven, UsersStay
  <1> QED BY <1>1, <1>16, EndGrounded

LEMMA PostSignatureGrounded ==
    ASSUME IInv, ProvenInv, NEW r \in Slots, PostSignature(r)
    PROVE  ProvenInv'
  <1>1. reqs[r] # None /\ reqs[r].pc = "sign" /\ End(r) /\ UNCHANGED <<sides, items>>
    BY DEF PostSignature, At
  <1>2. reqs[r].arg \in 1..Len(relays)
    BY <1>1 DEF IInv, RequestsOK, RequestOK, StageOK
  <1>3. PICK i \in DOMAIN relays : i = reqs[r].arg
    BY <1>2 DEF IInv, TablesOK, RelaysOK
  <1>4. PICK row : row = [relays[i] EXCEPT !.signed = TRUE]
    OBVIOUS
  <1>5. relays[i] \in RelayRow
    BY ARelay
  <1>6. /\ row.voucher = relays[i].voucher /\ row.cosigner = relays[i].cosigner
        /\ row.initiator = relays[i].initiator
    BY <1>4, <1>5 DEF RelayRow
  <1>7. row.signed = TRUE
    BY <1>4, <1>5 DEF RelayRow
  <1>8. relays' = [relays EXCEPT ![i] = row]
    BY <1>3, <1>4 DEF PostSignature
  <1>9. TablesProven' /\ UsersStay
    BY <1>1, <1>6, <1>7, <1>8, RelayFlagged
  <1> QED BY <1>1, <1>9, EndGrounded

LEMMA ChainGrounded ==
    ASSUME IInv, ProvenInv,
           \/ Expire
           \/ \E m \in Moments, account \in Accounts : MoveOutside(m, account)
           \/ \E i \in DOMAIN relays : RelayExpires(i) \/ ExecuteSwap(i)
    PROVE  ProvenInv'
  <1>1. CASE Expire \/ \E m \in Moments, account \in Accounts : MoveOutside(m, account)
    <2>1. UNCHANGED <<sides, items, relays, reqs>>
      BY <1>1 DEF Expire, MoveOutside, db
    <2> QED BY <2>1, NothingProvenAnew, NoneLessGrounded
  <1>2. CASE \E i \in DOMAIN relays : RelayExpires(i)
    <2>1. PICK i \in DOMAIN relays : RelayExpires(i)
      BY <1>2
    <2>2. PICK row : row = [relays[i] EXCEPT !.fresh = FALSE]
      OBVIOUS
    <2>3. relays[i] \in RelayRow /\ (relays[i].executed => relays[i].signed)
      BY ARelay DEF ProvenInv, TablesProven, RelaysProven, RelayProven
    <2>4. /\ row.voucher = relays[i].voucher /\ row.cosigner = relays[i].cosigner
          /\ row.initiator = relays[i].initiator
      BY <2>2, <2>3 DEF RelayRow
    <2>5. row.executed = relays[i].executed
      BY <2>2, <2>3 DEF RelayRow
    <2>6. row.signed = relays[i].signed
      BY <2>2, <2>3 DEF RelayRow
    <2>7. relays' = [relays EXCEPT ![i] = row] /\ UNCHANGED <<sides, items, reqs>>
      BY <2>1, <2>2 DEF RelayExpires
    <2>8. TablesProven' /\ UsersStay
      BY <2>3, <2>4, <2>5, <2>6, <2>7, RelayFlagged
    <2> QED BY <2>7, <2>8, NoneLessGrounded
  <1>3. CASE \E i \in DOMAIN relays : ExecuteSwap(i)
    <2>1. PICK i \in DOMAIN relays : ExecuteSwap(i)
      BY <1>3
    <2>2. PICK row : row = [relays[i] EXCEPT !.executed = TRUE]
      OBVIOUS
    <2>3. relays[i] \in RelayRow
      BY ARelay
    <2>4. relays[i].signed
      BY <2>1 DEF ExecuteSwap
    <2>5. /\ row.voucher = relays[i].voucher /\ row.cosigner = relays[i].cosigner
          /\ row.initiator = relays[i].initiator
      BY <2>2, <2>3 DEF RelayRow
    <2>6. row.signed = relays[i].signed
      BY <2>2, <2>3 DEF RelayRow
    <2>7. relays' = [relays EXCEPT ![i] = row] /\ UNCHANGED <<sides, items, reqs>>
      BY <2>1, <2>2 DEF ExecuteSwap
    <2>8. TablesProven' /\ UsersStay
      BY <2>4, <2>5, <2>6, <2>7, RelayFlagged
    <2> QED BY <2>7, <2>8, NoneLessGrounded
  <1> QED BY <1>1, <1>2, <1>3

LEMMA ProvenStepKeeps ==
    ASSUME IInv, ProvenInv, HNext
    PROVE  ProvenInv'
  <1>1. CASE \E r \in Slots : HandlerStep(r)
    <2>1. PICK r \in Slots : HandlerStep(r)
      BY <1>1
    <2>2. CASE \/ ReadSides(r) \/ ReadItems(r) \/ VerifyAgain(r) \/ JoinRoom(r) \/ SetWallet(r)
      BY <2>2, ReadsGrounded, VerifyAgainGrounded, JoinRoomGrounded, SetWalletGrounded
    <2>3. CASE \/ Fail(r) \/ JoinedStatus(r) \/ LockRoom(r) \/ UnlockRoom(r) \/ CancelRoom(r)
               \/ MarkSigningEnded(r) \/ MarkSealed(r) \/ MarkSigning(r) \/ CheckRelay(r)
               \/ Touch(r) \/ CheckPicks(r) \/ VerifyLanded(r) \/ VerifyOther(r)
      BY <2>3, RoomStepsGrounded
    <2>4. CASE ResetAcceptances(r) \/ Accept(r) \/ Unaccept(r)
      BY <2>4, AcceptancesGrounded
    <2>5. CASE ClearItems(r) \/ SaveItems(r) \/ PruneItems(r)
      BY <2>5, ItemStepsGrounded
    <2>6. CASE PostSignable(r) \/ PostSignature(r)
      BY <2>6, PostSignableGrounded, PostSignatureGrounded
    <2> QED BY <2>1, <2>2, <2>3, <2>4, <2>5, <2>6 DEF HandlerStep
  <1>2. CASE \E r \in FreeSlot, kind \in Kinds, user \in Users :
                \E arg \in Args(kind, user) : Start(r, kind, user, arg)
    <2>1. PICK r \in FreeSlot, kind \in Kinds, user \in Users :
                \E arg \in Args(kind, user) : Start(r, kind, user, arg)
      BY <1>2
    <2>2. r \in Slots
      BY DEF FreeSlot, Idle
    <2> QED BY <2>1, <2>2, StartGrounded
  <1>3. CASE \/ Expire
             \/ \E m \in Moments, account \in Accounts : MoveOutside(m, account)
             \/ \E i \in DOMAIN relays : RelayExpires(i) \/ ExecuteSwap(i)
    BY <1>3, ChainGrounded
  <1> QED BY <1>1, <1>2, <1>3 DEF HNext, Next

LEMMA ProvenInitially ==
    ASSUME HInit
    PROVE  ProvenInv
  <1>1. PICK guest \in {None} \cup (Users \ {Creator}) : Opened(guest)
    BY DEF HInit, Init
  <1>2. /\ items = [s \in Side |-> {}] /\ reqs = [r \in Slots |-> None] /\ relays = << >>
        /\ sides = [s \in Side |->
                      [AbsentSide EXCEPT !.user = IF s = "a" THEN Creator ELSE guest]]
    BY <1>1 DEF Opened
  <1>3. SidesProven /\ Apart(items)
    BY <1>2 DEF AbsentSide, SidesProven, Apart
  <1>4. RelaysProven
    BY <1>2 DEF RelaysProven
  <1> QED BY <1>2, <1>3, <1>4 DEF ProvenInv, TablesProven

(* What the room holds, what a request has loaded and what is up for        *)
(* signature always name accounts that their side's collector has proven,   *)
(* whoever joins, edits, re-proves or stops in between.                     *)
THEOREM RoomProven == HSpec => []ProvenInv
  <1>1. HInit => ProvenInv
    BY ProvenInitially
  <1>2. IInv /\ ProvenInv /\ [HNext]_hvars => ProvenInv'
    <2> SUFFICES ASSUME IInv, ProvenInv, [HNext]_hvars
                 PROVE  ProvenInv'
      OBVIOUS
    <2>1. CASE HNext
      BY <2>1, ProvenStepKeeps
    <2>2. CASE UNCHANGED hvars
      BY <2>2 DEF hvars, vars, ProvenInv, TablesProven, SidesProven, RelaysProven
    <2> QED BY <2>1, <2>2
  <1> QED BY <1>1, <1>2, RoomInvariant, PTL DEF HSpec

(* Whatever was edited, joined or re-proven since, what is up for          *)
(* signature moves each side's moments between accounts the collectors of  *)
(* the two sides have proven, asks the other side's wallet, and is         *)
(* executed only once that wallet has signed.                              *)
THEOREM RoomAsksOnlyTheProven == HSpec => []VouchersAreProven
  <1>1. ProvenInv => VouchersAreProven
    BY DEF ProvenInv, TablesProven, RelaysProven, RelayProven, VouchersAreProven
  <1> QED BY <1>1, RoomProven, PTL

(* What carries out an attempt of the room is a swap its second wallet has  *)
(* signed, of moments that leave an account their giver's collector has     *)
(* proven for one the other has.                                            *)
SwapsStayBetweenTheTwo ==
    [][\A i \in DOMAIN relays : relays'[i].executed # relays[i].executed =>
            /\ relays[i].signed /\ relays[i].fresh
            /\ \A m \in Moments : at'[m] # at[m] =>
                 \E s \in Side :
                    /\ m \in relays[i].voucher[s].gives
                    /\ at[m] \in SourcesOf(sides[s].user)
                    /\ at'[m] \in SourcesOf(sides[Other(s)].user)]_hvars

Moved(i, m) == \E s \in Side : /\ m \in relays[i].voucher[s].gives
                               /\ at[m] \in SourcesOf(sides[s].user)
                               /\ at'[m] \in SourcesOf(sides[Other(s)].user)

LEMMA SwapMoves ==
    ASSUME IInv, ProvenInv, NEW i \in DOMAIN relays, ExecuteSwap(i),
           NEW m \in Moments, at'[m] # at[m]
    PROVE  Moved(i, m)
  <1>1. PICK v : v = relays[i].voucher
    OBVIOUS
  <1>2. /\ \A s \in Side : \A n \in v[s].gives : at[n] = v[s].source
        /\ at' = [n \in Moments |-> IF n \in v["a"].gives THEN v["b"].source
                                    ELSE IF n \in v["b"].gives THEN v["a"].source
                                    ELSE at[n]]
    BY <1>1 DEF ExecuteSwap
  <1>3. \A s \in Side : v[s].source \in SourcesOf(sides[s].user)
    <2>1. \A s \in Side : sides[s].user # None /\ WalletOf(v[s]) \in Wallets[sides[s].user]
      BY <1>1 DEF ProvenInv, TablesProven, RelaysProven, RelayProven
    <2>2. \A s \in Side : WalletOf(v[s]).source = v[s].source
      BY DEF WalletOf
    <2>3. \A s \in Side : sides[s].user \in Users
      BY <2>1 DEF IInv, TablesOK, SideTable, SideRow
    <2> QED BY <2>1, <2>2, <2>3 DEF SourcesOf
  <1>4. CASE m \in v["a"].gives
    <2>1. at[m] = v["a"].source /\ at'[m] = v["b"].source /\ Other("a") = "b"
      BY <1>2, <1>4 DEF Side, Other
    <2> QED BY <1>1, <1>3, <1>4, <2>1 DEF Moved, Side
  <1>5. CASE m \in v["b"].gives /\ m \notin v["a"].gives
    <2>1. at[m] = v["b"].source /\ at'[m] = v["a"].source /\ Other("b") = "a"
      BY <1>2, <1>5 DEF Side, Other
    <2> QED BY <1>1, <1>3, <1>5, <2>1 DEF Moved, Side
  <1> QED BY <1>2, <1>4, <1>5

(* An attempt's row is marked executed by its execution and by nothing else. *)
LEMMA OnlySwapExecutes ==
    ASSUME IInv, HNext, NEW i \in DOMAIN relays, relays'[i].executed # relays[i].executed
    PROVE  ExecuteSwap(i)
  <1>1. relays \in Seq(RelayRow) /\ relays' # relays /\ relays[i] \in RelayRow
    BY ARelay DEF IInv, TablesOK, RelaysOK
  <1>2. \/ \E r \in Slots : PostSignable(r) \/ PostSignature(r)
        \/ \E j \in DOMAIN relays : RelayExpires(j) \/ ExecuteSwap(j)
    BY <1>1 DEF HNext, Next, HandlerStep, Start, Expire, MoveOutside, ReadSides, ReadItems, Fail,
         JoinRoom, JoinedStatus, SetWallet, ClearItems, CheckPicks, SaveItems, PruneItems, Touch,
         ResetAcceptances, Accept, LockRoom, Unaccept, UnlockRoom, CancelRoom, MarkSigning,
         CheckRelay, MarkSigningEnded, VerifyLanded, VerifyOther, VerifyAgain, MarkSealed, db
  <1>3. ASSUME NEW r \in Slots, PostSignable(r)
        PROVE  FALSE
    <2>1. PICK row : relays' = Append(relays, row)
      BY <1>3 DEF PostSignable
    <2>2. relays'[i] = relays[i]
      BY <1>1, <2>1
    <2> QED BY <2>2
  <1>4. ASSUME NEW r \in Slots, PostSignature(r)
        PROVE  FALSE
    <2>1. PICK j : relays' = [relays EXCEPT ![j].signed = TRUE]
      BY <1>4 DEF PostSignature
    <2>2. relays'[i].executed = relays[i].executed
      BY <1>1, <2>1 DEF RelayRow
    <2> QED BY <2>2
  <1>5. ASSUME NEW j \in DOMAIN relays, RelayExpires(j)
        PROVE  FALSE
    <2>1. relays' = [relays EXCEPT ![j].fresh = FALSE]
      BY <1>5 DEF RelayExpires
    <2>2. relays'[i].executed = relays[i].executed
      BY <1>1, <2>1 DEF RelayRow
    <2> QED BY <2>2
  <1>6. ASSUME NEW j \in DOMAIN relays, ExecuteSwap(j)
        PROVE  j = i
    <2>1. relays' = [relays EXCEPT ![j].executed = TRUE]
      BY <1>6 DEF ExecuteSwap
    <2>2. j # i => relays'[i] = relays[i]
      BY <1>1, <2>1
    <2> QED BY <2>2
  <1> QED BY <1>2, <1>3, <1>4, <1>5, <1>6

(* However old the signed request is, a swap takes nothing from and gives   *)
(* nothing to anybody but the two collectors of the room.                   *)
THEOREM RoomSwapsBetweenTheTwo == HSpec => SwapsStayBetweenTheTwo
  <1> DEFINE Swaps == \A i \in DOMAIN relays : relays'[i].executed # relays[i].executed =>
            /\ relays[i].signed /\ relays[i].fresh
            /\ \A m \in Moments : at'[m] # at[m] =>
                 \E s \in Side :
                    /\ m \in relays[i].voucher[s].gives
                    /\ at[m] \in SourcesOf(sides[s].user)
                    /\ at'[m] \in SourcesOf(sides[Other(s)].user)
  <1>1. IInv /\ ProvenInv /\ [HNext]_hvars => [Swaps]_hvars
    <2> SUFFICES ASSUME IInv, ProvenInv, HNext,
                        NEW i \in DOMAIN relays, relays'[i].executed # relays[i].executed
                 PROVE  /\ relays[i].signed /\ relays[i].fresh
                        /\ \A m \in Moments : at'[m] # at[m] => Moved(i, m)
      BY DEF Moved
    <2>1. ExecuteSwap(i)
      BY OnlySwapExecutes
    <2>2. relays[i].signed /\ relays[i].fresh
      BY <2>1 DEF ExecuteSwap
    <2> QED BY <2>1, <2>2, SwapMoves
  <1> QED BY <1>1, RoomInvariant, RoomProven, PTL DEF HSpec, SwapsStayBetweenTheTwo
=============================================================================
