----------------------------- MODULE TradeBlock -----------------------------
(***************************************************************************)
(* The Trade Block: lib/trade-block/store.ts behind the POST handler of    *)
(* app/api/trade-block/route.ts.  A collector posts a listing, others      *)
(* propose trades on it, and the lister answers; accepting a proposal      *)
(* whose moments can all be signed opens a trade room, which module        *)
(* TradeRoom takes up from there.                                          *)
(*                                                                         *)
(* As in the rooms, handlers run concurrently and no transaction spans two *)
(* statements.  Each action is one statement with the checks between it    *)
(* and the one before, except that reads of rows that never change are     *)
(* taken together with their neighbour.  A request may stop at any point:  *)
(* a refusal, a failed statement or a killed function, all of it Fail.     *)
(*                                                                         *)
(* A table is a function from row ids; an id whose row was never inserted  *)
(* holds None, one whose row was deleted holds Deleted.  What a listing    *)
(* wants, notes and display snapshots are left out: they are stored and    *)
(* shown, and decide nothing.                                              *)
(***************************************************************************)
EXTENDS Naturals, FiniteSets

CONSTANTS
    Users,         \* signed-in collectors
    Moments,
    HolderOf,      \* whose proven account the index finds a moment in
    Signable,      \* the moments of collections a trade room can sign
    Bundles,       \* the sets of moments a client may name
    ListingIds, ProposalIds, RoomIds,   \* bounds: rows ever inserted
    Slots,         \* request slots: how many handlers run at once
    None, Deleted,
    MaxOpenListings,      \* MAX_OPEN_LISTINGS
    MaxPendingProposals,  \* MAX_PENDING_PROPOSALS
    MaxRequests           \* bound: requests started

ASSUME MomentAssumption ==
    /\ HolderOf \in [Moments -> Users]
    /\ Bundles \subseteq SUBSET Moments

ASSUME BoundAssumption == MaxRequests \in Nat

ListingRows ==
    [user : Users, status : {"open", "closed"}, offers : SUBSET Moments,
     expired : BOOLEAN]

ProposalRows ==
    [listing : ListingIds, user : Users,
     status : {"pending", "accepted", "declined", "withdrawn"},
     room : RoomIds \cup {None}, give : SUBSET Moments, get : SUBSET Moments]

RoomRows ==
    [status : {"open", "building"}, a : Users \cup {None}, b : Users \cup {None}]

(* What a running handler has: its caller, the row it acts on, its         *)
(* arguments and program counter, and what it has loaded or inserted.      *)
Requests ==
    [user : Users, peer : Users \cup {None},
     on : ListingIds \cup ProposalIds \cup {None},
     give : SUBSET Moments, get : SUBSET Moments, accept : BOOLEAN,
     pc : {"mine", "duplicates", "list", "offers", "close", "decline",
           "terms", "count", "propose", "lines", "judge", "room", "sideA",
           "sideB", "building", "answer", "withdraw"},
     seen : SUBSET ListingIds,
     row : ListingIds \cup ProposalIds \cup RoomIds \cup {None}]

ASSUME NullAssumption ==
    /\ None # Deleted
    /\ \A null \in {None, Deleted} :
        /\ null \notin Users \cup ListingIds \cup ProposalIds \cup RoomIds
        /\ null \notin ListingRows /\ null \notin ProposalRows
        /\ null \notin RoomRows /\ null \notin Requests

VARIABLES
    listings,   \* trade_block_listings with their offer lines
    proposals,  \* trade_block_proposals with their lines
    rooms,      \* the trade rooms decisions open
    reqs,       \* slot -> the request it runs
    started     \* requests so far

vars == <<listings, proposals, rooms, reqs, started>>

IsRow(row) == row \notin {None, Deleted}

Listing(l) == IsRow(listings[l])
Proposal(p) == IsRow(proposals[p])

IsOpen(l) == Listing(l) /\ listings[l].status = "open"
IsPending(p) == Proposal(p) /\ proposals[p].status = "pending"

OpenListingsOf(user) ==
    {l \in ListingIds : IsOpen(l) /\ listings[l].user = user /\ ~listings[l].expired}

PendingProposalsOf(user) ==
    {p \in ProposalIds : IsPending(p) /\ proposals[p].user = user}

(* requireHeld().                                                          *)
Held(user, moments) == \A m \in moments : HolderOf[m] = user

-----------------------------------------------------------------------------
(* Requests. *)

At(r, pc) == reqs[r] # None /\ reqs[r].pc = pc
Goto(r, pc) == reqs' = [reqs EXCEPT ![r].pc = pc]
End(r) == reqs' = [reqs EXCEPT ![r] = None]

(* Handler r has inserted row `id' and goes on.                            *)
Inserted(r, id, pc) ==
    reqs' = [reqs EXCEPT ![r] = [@ EXCEPT !.row = id, !.pc = pc]]

Request(user, on, give, get, pc) ==
    [user |-> user, peer |-> None, on |-> on, give |-> give, get |-> get,
     accept |-> FALSE, pc |-> pc, seen |-> {}, row |-> None]

Start(r, request) ==
    /\ reqs[r] = None
    /\ started < MaxRequests
    /\ started' = started + 1
    /\ reqs' = [reqs EXCEPT ![r] = request]
    /\ UNCHANGED <<listings, proposals, rooms>>

Fail(r) ==
    /\ reqs[r] # None
    /\ End(r)
    /\ UNCHANGED <<listings, proposals, rooms, started>>

-----------------------------------------------------------------------------
(* create. *)

StartCreate(r, user, offers) ==
    /\ offers # {}
    /\ Cardinality(OpenListingsOf(user)) < MaxOpenListings
    /\ Start(r, Request(user, None, offers, {}, "mine"))

ReadMine(r) ==
    /\ At(r, "mine")
    /\ Held(reqs[r].user, reqs[r].give)
    /\ reqs' = [reqs EXCEPT ![r].seen = OpenListingsOf(reqs[r].user),
                            ![r].pc = "duplicates"]
    /\ UNCHANGED <<listings, proposals, rooms, started>>

CheckDuplicates(r) ==
    /\ At(r, "duplicates")
    /\ \A l \in reqs[r].seen :
            Listing(l) => listings[l].offers \cap reqs[r].give = {}
    /\ Goto(r, "list")
    /\ UNCHANGED <<listings, proposals, rooms, started>>

InsertListing(r, l) ==
    /\ At(r, "list")
    /\ listings[l] = None
    /\ listings' = [listings EXCEPT ![l] =
            [user |-> reqs[r].user, status |-> "open", offers |-> {}, expired |-> FALSE]]
    /\ Inserted(r, l, "offers")
    /\ UNCHANGED <<proposals, rooms, started>>

InsertOffers(r) ==
    /\ At(r, "offers")
    /\ Listing(reqs[r].row)
    /\ listings' = [listings EXCEPT ![reqs[r].row].offers = reqs[r].give]
    /\ End(r)
    /\ UNCHANGED <<proposals, rooms, started>>

(* The lines were refused: the listing goes, and what hangs on it too      *)
(* (ON DELETE CASCADE).                                                    *)
UndoListing(r) ==
    /\ At(r, "offers")
    /\ listings' = [listings EXCEPT ![reqs[r].row] = Deleted]
    /\ proposals' = [p \in ProposalIds |->
            IF Proposal(p) /\ proposals[p].listing = reqs[r].row
            THEN Deleted ELSE proposals[p]]
    /\ End(r)
    /\ UNCHANGED <<rooms, started>>

-----------------------------------------------------------------------------
(* close. *)

StartClose(r, user, l) ==
    /\ IsOpen(l)
    /\ listings[l].user = user
    /\ Start(r, Request(user, l, {}, {}, "close"))

CloseListing(r) ==
    /\ At(r, "close")
    /\ listings' = IF IsOpen(reqs[r].on)
                   THEN [listings EXCEPT ![reqs[r].on].status = "closed"]
                   ELSE listings
    /\ Goto(r, "decline")
    /\ UNCHANGED <<proposals, rooms, started>>

DeclinePending(r) ==
    /\ At(r, "decline")
    /\ proposals' = [p \in ProposalIds |->
            IF IsPending(p) /\ proposals[p].listing = reqs[r].on
            THEN [proposals[p] EXCEPT !.status = "declined"] ELSE proposals[p]]
    /\ End(r)
    /\ UNCHANGED <<listings, rooms, started>>

-----------------------------------------------------------------------------
(* propose. *)

StartPropose(r, user, l, give, get) ==
    /\ IsOpen(l)
    /\ listings[l].user # user
    /\ ~listings[l].expired
    /\ give # {} /\ get # {}
    /\ Start(r, Request(user, l, give, get, "terms"))

(* The listing's lines, read after its row.                                *)
CheckTerms(r) ==
    /\ At(r, "terms")
    /\ Listing(reqs[r].on)
    /\ reqs[r].get \subseteq listings[reqs[r].on].offers
    /\ Goto(r, "count")
    /\ UNCHANGED <<listings, proposals, rooms, started>>

CountPending(r) ==
    /\ At(r, "count")
    /\ Cardinality(PendingProposalsOf(reqs[r].user)) < MaxPendingProposals
    /\ Held(reqs[r].user, reqs[r].give)
    /\ Goto(r, "propose")
    /\ UNCHANGED <<listings, proposals, rooms, started>>

NoIndex(user, l) == TRUE

(* UNIQUE (listing_id, user_id) WHERE status = 'pending'.                  *)
IndexAdmits(user, l) ==
    \A p \in PendingProposalsOf(user) : proposals[p].listing # l

InsertProposal(r, p) ==
    /\ At(r, "propose")
    /\ proposals[p] = None
    /\ Listing(reqs[r].on)
    /\ IndexAdmits(reqs[r].user, reqs[r].on)
    /\ proposals' = [proposals EXCEPT ![p] =
            [listing |-> reqs[r].on, user |-> reqs[r].user, status |-> "pending",
             room |-> None, give |-> {}, get |-> {}]]
    /\ Inserted(r, p, "lines")
    /\ UNCHANGED <<listings, rooms, started>>

InsertLines(r) ==
    /\ At(r, "lines")
    /\ Proposal(reqs[r].row)
    /\ proposals' = [proposals EXCEPT ![reqs[r].row].give = reqs[r].give,
                                      ![reqs[r].row].get = reqs[r].get]
    /\ End(r)
    /\ UNCHANGED <<listings, rooms, started>>

UndoProposal(r) ==
    /\ At(r, "lines")
    /\ proposals' = [proposals EXCEPT ![reqs[r].row] = Deleted]
    /\ End(r)
    /\ UNCHANGED <<listings, rooms, started>>

-----------------------------------------------------------------------------
(* decide and withdraw. *)

(* The row is read first; who may answer, and whether it still can be      *)
(* answered, is judged on that reading.                                    *)
StartDecide(r, user, p, accept) ==
    /\ IsPending(p)
    /\ Listing(proposals[p].listing)
    /\ listings[proposals[p].listing].user = user
    /\ Start(r, [Request(user, p, {}, {}, "judge") EXCEPT
                    !.accept = accept, !.peer = proposals[p].user])

Lines(p) == proposals[p].give \cup proposals[p].get

(* unsignableCollections() of the lines read.                              *)
CanSign(p) == Proposal(p) => Lines(p) \subseteq Signable

JudgeLines(r) ==
    /\ At(r, "judge")
    /\ Goto(r, IF reqs[r].accept /\ CanSign(reqs[r].on) THEN "room" ELSE "answer")
    /\ UNCHANGED <<listings, proposals, rooms, started>>

(* createRoom(): the room, then its side a.                                *)
CreateRoom(r, k) ==
    /\ At(r, "room")
    /\ rooms[k] = None
    /\ rooms' = [rooms EXCEPT ![k] = [status |-> "open", a |-> None, b |-> None]]
    /\ Inserted(r, k, "sideA")
    /\ UNCHANGED <<listings, proposals, started>>

AddSideA(r) ==
    /\ At(r, "sideA")
    /\ rooms' = [rooms EXCEPT ![reqs[r].row].a = reqs[r].user]
    /\ Goto(r, "sideB")
    /\ UNCHANGED <<listings, proposals, started>>

AddLister(r) ==
    /\ At(r, "sideB")
    /\ rooms' = [rooms EXCEPT ![reqs[r].row].b = reqs[r].user]
    /\ Goto(r, "building")
    /\ UNCHANGED <<listings, proposals, started>>

AddSideB(r) ==
    /\ At(r, "sideB")
    /\ rooms' = [rooms EXCEPT ![reqs[r].row].b = reqs[r].peer]
    /\ Goto(r, "building")
    /\ UNCHANGED <<listings, proposals, started>>

StartBuilding(r) ==
    /\ At(r, "building")
    /\ rooms' = [rooms EXCEPT ![reqs[r].row].status = IF @ = "open" THEN "building" ELSE @]
    /\ Goto(r, "answer")
    /\ UNCHANGED <<listings, proposals, started>>

WhateverItsStatus(p) == Proposal(p)

(* .eq("status", "pending") of the two updates below.                      *)
StillPending(p) == IsPending(p)

Answer(r) ==
    /\ At(r, "answer")
    /\ proposals' = IF StillPending(reqs[r].on)
                    THEN [proposals EXCEPT
                            ![reqs[r].on].status = IF reqs[r].accept THEN "accepted"
                                                                     ELSE "declined",
                            ![reqs[r].on].room = reqs[r].row]
                    ELSE proposals
    /\ End(r)
    /\ UNCHANGED <<listings, rooms, started>>

StartWithdraw(r, user, p) ==
    /\ IsPending(p)
    /\ proposals[p].user = user
    /\ Start(r, Request(user, p, {}, {}, "withdraw"))

Withdraw(r) ==
    /\ At(r, "withdraw")
    /\ proposals' = IF StillPending(reqs[r].on)
                    THEN [proposals EXCEPT ![reqs[r].on].status = "withdrawn"]
                    ELSE proposals
    /\ End(r)
    /\ UNCHANGED <<listings, rooms, started>>

-----------------------------------------------------------------------------

Expire(l) ==
    /\ Listing(l)
    /\ ~listings[l].expired
    /\ listings' = [listings EXCEPT ![l].expired = TRUE]
    /\ UNCHANGED <<proposals, rooms, reqs, started>>

Init ==
    /\ listings = [l \in ListingIds |-> None]
    /\ proposals = [p \in ProposalIds |-> None]
    /\ rooms = [k \in RoomIds |-> None]
    /\ reqs = [r \in Slots |-> None]
    /\ started = 0

(* Ids not used yet are alike, and so are idle slots: the next one serves. *)
Unused(table) == {i \in DOMAIN table : table[i] = None}
NewRow(table) == {i \in Unused(table) : i = CHOOSE j \in Unused(table) : TRUE}
FreeSlot == NewRow(reqs)

NewRequest(r, user) ==
    \/ \E offers \in Bundles : StartCreate(r, user, offers)
    \/ \E l \in ListingIds : StartClose(r, user, l)
    \/ \E l \in ListingIds, give, get \in Bundles :
            StartPropose(r, user, l, give, get)
    \/ \E p \in ProposalIds, accept \in BOOLEAN : StartDecide(r, user, p, accept)
    \/ \E p \in ProposalIds : StartWithdraw(r, user, p)

HandlerStep(r) ==
    \/ Fail(r)
    \/ ReadMine(r) \/ CheckDuplicates(r)
    \/ \E l \in NewRow(listings) : InsertListing(r, l)
    \/ InsertOffers(r) \/ UndoListing(r)
    \/ CloseListing(r) \/ DeclinePending(r)
    \/ CheckTerms(r) \/ CountPending(r)
    \/ \E p \in NewRow(proposals) : InsertProposal(r, p)
    \/ InsertLines(r) \/ UndoProposal(r)
    \/ JudgeLines(r)
    \/ \E k \in NewRow(rooms) : CreateRoom(r, k)
    \/ AddSideA(r) \/ AddSideB(r) \/ StartBuilding(r)
    \/ Answer(r) \/ Withdraw(r)

Next ==
    \/ \E r \in FreeSlot, user \in Users : NewRequest(r, user)
    \/ \E r \in Slots : HandlerStep(r)
    \/ \E l \in ListingIds : Expire(l)

Spec == Init /\ [][Next]_vars

-----------------------------------------------------------------------------
(* Properties. *)

(* Every row has its columns' types, and a room code needs an acceptance   *)
(* (the tables' CHECK constraints).                                        *)
TypeOK ==
    /\ listings \in [ListingIds -> ListingRows \cup {None, Deleted}]
    /\ proposals \in [ProposalIds -> ProposalRows \cup {None, Deleted}]
    /\ rooms \in [RoomIds -> RoomRows \cup {None}]
    /\ reqs \in [Slots -> Requests \cup {None}]
    /\ \A p \in ProposalIds :
        Proposal(p) /\ proposals[p].room # None => proposals[p].status = "accepted"
    /\ started \in 0..MaxRequests

(* A proposal is answered once: by the lister, by its proposer or by the   *)
(* close of its listing, whichever comes first, and that answer with its   *)
(* room stands although all three may have loaded it as pending.           *)
DecidedOnce ==
    [][\A p \in ProposalIds :
        Proposal(p) /\ Proposal(p)' /\ proposals[p].status # "pending"
            => /\ proposals'[p].status = proposals[p].status
               /\ proposals'[p].room = proposals[p].room]_vars

RoomReady(p) ==
    LET room == rooms[proposals[p].room] IN
    /\ room.status = "building"
    /\ room.a = listings[proposals[p].listing].user
    /\ room.b = proposals[p].user

(* The room an accepted proposal names has the lister on side a, the       *)
(* proposer on side b and is ready to build in; no other proposal names    *)
(* it, however many decisions opened rooms at the same time.               *)
AcceptedRoomIsReady ==
    \A p \in ProposalIds : Proposal(p) /\ proposals[p].room # None =>
        /\ RoomReady(p)
        /\ \A q \in ProposalIds :
            Proposal(q) /\ proposals[q].room = proposals[p].room => q = p

(* "You already have a pending proposal on this listing": never two, also  *)
(* when both requests counted before either inserted.                      *)
OnePendingEach ==
    \A p, q \in ProposalIds :
        /\ IsPending(p) /\ IsPending(q)
        /\ proposals[p].listing = proposals[q].listing
        /\ proposals[p].user = proposals[q].user
        => p = q
=============================================================================
