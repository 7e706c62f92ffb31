-------------------------- MODULE TradeBlockProofs --------------------------
(***************************************************************************)
(* Proofs about TradeBlock for any number of collectors, moments, rows and *)
(* concurrent handlers.                                                    *)
(***************************************************************************)
EXTENDS TradeBlockRefinement, TLAPS

(* The parts of decide after its reads; those that have a room in hand.    *)
Deciding == {"judge", "room", "sideA", "sideB", "building", "answer"}
Furnishing == {"sideA", "sideB", "building"}

(* What a handler's program counter says of the rows it refers to.         *)
Refers(q) ==
    /\ q.pc \in {"close", "decline", "terms", "count", "propose"} => q.on \in ListingIds
    /\ q.pc \in Deciding \cup {"withdraw"} => q.on \in ProposalIds
    /\ q.pc = "offers" => q.row \in ListingIds
    /\ q.pc = "lines" => q.row \in ProposalIds
    /\ q.pc \in {"judge", "room"} => q.row = None
    /\ q.pc \in Furnishing => q.row \in RoomIds
    /\ q.pc = "answer" => q.row \in RoomIds \cup {None}
    /\ q.pc \in {"room"} \cup Furnishing => q.accept
    /\ q.pc = "answer" /\ q.row # None => q.accept

ReferencesOK == \A r \in Slots : reqs[r] # None => Refers(reqs[r])

TypeInv == TypeOK /\ ReferencesOK

(* Handler r has inserted a room and not named it in a proposal yet.       *)
Holding(q) == q # None /\ (q.pc \in Furnishing \/ (q.pc = "answer" /\ q.row # None))
HoldsRoom(r) == Holding(reqs[r])

(* A room in hand has been inserted.                                       *)
InHandInserted == \A r \in Slots : HoldsRoom(r) => rooms[reqs[r].row] # None

(* No handler takes a room in hand, and those that keep theirs keep it as  *)
(* it is.                                                                  *)
HandsKept == \A r \in Slots : HoldsRoom(r)' => HoldsRoom(r) /\ reqs'[r] = reqs[r]

(* The statements by what they are about: a listing, a proposal, a room.   *)
ReadStep(r) ==
    \/ Fail(r) \/ ReadMine(r) \/ CheckDuplicates(r)
    \/ CheckTerms(r) \/ CountPending(r) \/ JudgeLines(r)

ListingStep(r, l) ==
    \/ InsertListing(r, l) \/ InsertOffers(r) \/ UndoListing(r)
    \/ CloseListing(r) \/ DeclinePending(r)

ProposalStep(r, p) ==
    \/ InsertProposal(r, p) \/ InsertLines(r)
    \/ UndoProposal(r) \/ Answer(r) \/ Withdraw(r)

RoomStep(r, k) ==
    CreateRoom(r, k) \/ AddSideA(r) \/ AddSideB(r) \/ StartBuilding(r)

-----------------------------------------------------------------------------
(* Types. *)

(* A row is a record of its table; a record is a row.                      *)
LEMMA RowFacts ==
    /\ \A row : row \in ListingRows \cup ProposalRows \cup RoomRows => IsRow(row)
    /\ \A row \in ListingRows \cup {None, Deleted} : IsRow(row) => row \in ListingRows
    /\ \A row \in ProposalRows \cup {None, Deleted} : IsRow(row) => row \in ProposalRows
    /\ \A q \in Requests \cup {None} : q # None => q \in Requests
    /\ \A q \in Requests : q # None
  BY NullAssumption DEF IsRow

(* A request that begins is well typed.                                    *)
LEMMA RequestFacts ==
    ASSUME NEW user \in Users, NEW on \in ListingIds \cup ProposalIds \cup {None},
           NEW give \in SUBSET Moments, NEW get \in SUBSET Moments,
           NEW pc \in {"mine", "close", "terms", "judge", "withdraw"}
    PROVE  /\ Request(user, on, give, get, pc) \in Requests
           /\ Request(user, on, give, get, pc).pc = pc
           /\ Request(user, on, give, get, pc).on = on
           /\ Request(user, on, give, get, pc).row = None
           /\ Request(user, on, give, get, pc).user = user
  BY DEF Request, Requests

(* Starting keeps the tables' types and the other handlers.                *)
LEMMA StartKeepsTypes ==
    ASSUME TypeInv, NEW r \in Slots, NEW q \in Requests, Refers(q), Start(r, q)
    PROVE  TypeInv'
  <1>1. started' \in 0..MaxRequests
    BY BoundAssumption DEF TypeInv, TypeOK, Start
  <1>2. TypeOK'
    BY <1>1 DEF TypeInv, TypeOK, Start, Proposal
  <1>3. ReferencesOK'
    BY DEF TypeInv, TypeOK, ReferencesOK, Start
  <1>. QED
    BY <1>2, <1>3 DEF TypeInv

LEMMA NewRequestKeepsTypes ==
    ASSUME TypeInv, NEW r \in Slots, NEW user \in Users, NewRequest(r, user)
    PROVE  TypeInv'
  <1>1. ASSUME NEW offers \in Bundles, StartCreate(r, user, offers)
        PROVE  TypeInv'
    <2> DEFINE q == Request(user, None, offers, {}, "mine")
    <2>1. q \in Requests /\ q.pc = "mine"
      BY MomentAssumption, RequestFacts
    <2>. QED
      BY <1>1, <2>1, StartKeepsTypes DEF StartCreate, Refers, Deciding, Furnishing
  <1>2. ASSUME NEW l \in ListingIds, StartClose(r, user, l)
        PROVE  TypeInv'
    <2> DEFINE q == Request(user, l, {}, {}, "close")
    <2>1. q \in Requests /\ q.pc = "close" /\ q.on = l
      BY RequestFacts
    <2>. QED
      BY <1>2, <2>1, StartKeepsTypes DEF StartClose, Refers, Deciding, Furnishing
  <1>3. ASSUME NEW l \in ListingIds, NEW give \in Bundles, NEW get \in Bundles,
               StartPropose(r, user, l, give, get)
        PROVE  TypeInv'
    <2> DEFINE q == Request(user, l, give, get, "terms")
    <2>1. q \in Requests /\ q.pc = "terms" /\ q.on = l
      BY MomentAssumption, RequestFacts
    <2>. QED
      BY <1>3, <2>1, StartKeepsTypes DEF StartPropose, Refers, Deciding, Furnishing
  <1>4. ASSUME NEW p \in ProposalIds, NEW accept \in BOOLEAN,
               StartDecide(r, user, p, accept)
        PROVE  TypeInv'
    <2> DEFINE q == [Request(user, p, {}, {}, "judge") EXCEPT
                        !.accept = accept, !.peer = proposals[p].user]
    <2>1. proposals[p] \in ProposalRows
      BY <1>4, RowFacts DEF StartDecide, IsPending, Proposal, TypeInv, TypeOK
    <2>2. q \in Requests /\ q.pc = "judge" /\ q.on = p /\ q.row = None
      BY <2>1 DEF Request, Requests, ProposalRows
    <2>. QED
      BY <1>4, <2>2, StartKeepsTypes DEF StartDecide, Refers, Deciding, Furnishing
  <1>5. ASSUME NEW p \in ProposalIds, StartWithdraw(r, user, p)
        PROVE  TypeInv'
    <2> DEFINE q == Request(user, p, {}, {}, "withdraw")
    <2>1. q \in Requests /\ q.pc = "withdraw" /\ q.on = p
      BY RequestFacts
    <2>. QED
      BY <1>5, <2>1, StartKeepsTypes DEF StartWithdraw, Refers, Deciding, Furnishing
  <1>. QED
    BY <1>1, <1>2, <1>3, <1>4, <1>5 DEF NewRequest

(* Noting the row inserted keeps the types of the requests.                *)
LEMMA InsertedKeepsRequests ==
    ASSUME reqs \in [Slots -> Requests \cup {None}],
           NEW r \in Slots, reqs[r] \in Requests,
           NEW id \in ListingIds \cup ProposalIds \cup RoomIds,
           NEW pc \in {"offers", "lines", "sideA"}, Inserted(r, id, pc)
    PROVE  reqs' \in [Slots -> Requests \cup {None}]
  <1>1. [reqs[r] EXCEPT !.row = id, !.pc = pc] \in Requests
    BY DEF Requests
  <1>. QED
    BY <1>1 DEF Inserted

(* A statement keeps the types of the tables it writes; here those of      *)
(* create and close.                                                       *)
LEMMA ListingStepsKeepTypes ==
    ASSUME TypeInv, NEW r \in Slots, NEW l \in ListingIds,
           ListingStep(r, l)
    PROVE  TypeInv'
  <1> USE RowFacts DEF TypeInv, TypeOK, ListingStep
  <1>1. CASE InsertListing(r, l)
    <2>1. reqs[r] \in Requests
      BY <1>1 DEF InsertListing, At
    <2>2. [user |-> reqs[r].user, status |-> "open", offers |-> {}, expired |-> FALSE]
            \in ListingRows
      BY <2>1 DEF Requests, ListingRows
    <2>3. listings' \in [ListingIds -> ListingRows \cup {None, Deleted}]
      BY <1>1, <2>2 DEF InsertListing
    <2>4. reqs' \in [Slots -> Requests \cup {None}]
      BY <1>1, <2>1, InsertedKeepsRequests DEF InsertListing
    <2>5. ReferencesOK'
      BY <1>1, <2>1 DEF InsertListing, Inserted, Requests, ReferencesOK, Refers, Deciding, Furnishing
    <2>. QED
      BY <1>1, <2>3, <2>4, <2>5 DEF InsertListing, Proposal
  <1>2. CASE InsertOffers(r)
    <2>1. reqs[r] \in Requests /\ reqs[r].row \in ListingIds
      BY <1>2 DEF InsertOffers, At, ReferencesOK, Refers
    <2>2. listings[reqs[r].row] \in ListingRows
      BY <1>2, <2>1 DEF InsertOffers, Listing
    <2>3. listings' \in [ListingIds -> ListingRows \cup {None, Deleted}]
      BY <1>2, <2>1, <2>2 DEF InsertOffers, ListingRows, Requests
    <2>4. ReferencesOK' /\ reqs' \in [Slots -> Requests \cup {None}]
      BY <1>2 DEF InsertOffers, End, ReferencesOK
    <2>. QED
      BY <1>2, <2>3, <2>4 DEF InsertOffers, Proposal
  <1>3. CASE UndoListing(r)
    <2>1. listings' \in [ListingIds -> ListingRows \cup {None, Deleted}]
      BY <1>3 DEF UndoListing
    <2>2. proposals' \in [ProposalIds -> ProposalRows \cup {None, Deleted}]
      BY <1>3 DEF UndoListing
    <2>3. \A p \in ProposalIds :
            Proposal(p)' => Proposal(p) /\ proposals'[p] = proposals[p]
      BY <1>3 DEF UndoListing, Proposal, IsRow
    <2>4. ReferencesOK' /\ reqs' \in [Slots -> Requests \cup {None}]
      BY <1>3 DEF UndoListing, End, ReferencesOK
    <2>. QED
      BY <1>3, <2>1, <2>2, <2>3, <2>4 DEF UndoListing
  <1>4. CASE CloseListing(r)
    <2>1. reqs[r] \in Requests /\ reqs[r].on \in ListingIds
      BY <1>4 DEF CloseListing, At, ReferencesOK, Refers
    <2>2. IsOpen(reqs[r].on) => listings[reqs[r].on] \in ListingRows
      BY <2>1 DEF IsOpen, Listing
    <2>3. listings' \in [ListingIds -> ListingRows \cup {None, Deleted}]
      BY <1>4, <2>1, <2>2 DEF CloseListing, ListingRows
    <2>4. reqs' \in [Slots -> Requests \cup {None}]
      BY <1>4, <2>1 DEF CloseListing, Goto, Requests
    <2>5. ReferencesOK'
      BY <1>4, <2>1 DEF CloseListing, At, Goto, Requests, ReferencesOK, Refers, Deciding, Furnishing
    <2>. QED
      BY <1>4, <2>3, <2>4, <2>5 DEF CloseListing, Proposal
  <1>6. CASE DeclinePending(r)
    <2>1. proposals' \in [ProposalIds -> ProposalRows \cup {None, Deleted}]
      BY <1>6 DEF DeclinePending, IsPending, Proposal, ProposalRows
    <2>2. \A q \in ProposalIds : Proposal(q)' /\ proposals'[q].room # None
            => proposals'[q].status = "accepted"
      BY <1>6 DEF DeclinePending, IsPending, Proposal, ProposalRows
    <2>3. ReferencesOK' /\ reqs' \in [Slots -> Requests \cup {None}]
      BY <1>6 DEF DeclinePending, End, ReferencesOK
    <2>. QED
      BY <1>6, <2>1, <2>2, <2>3 DEF DeclinePending
  <1>. QED
    BY <1>1, <1>2, <1>3, <1>4, <1>6

LEMMA ExpireKeepsTypes ==
    ASSUME TypeInv, NEW l \in ListingIds, Expire(l)
    PROVE  TypeInv'
  <1> USE RowFacts DEF TypeInv, TypeOK
  <1>1. listings[l] \in ListingRows
    BY DEF Expire, Listing
  <1>2. [listings[l] EXCEPT !.expired = TRUE] \in ListingRows
    BY <1>1 DEF ListingRows
  <1>3. listings' \in [ListingIds -> ListingRows \cup {None, Deleted}]
    BY <1>2 DEF Expire
  <1>. QED
    BY <1>3 DEF Expire, Proposal, ReferencesOK

(* Those of propose and of the two answers.                                *)
LEMMA ProposalStepsKeepTypes ==
    ASSUME TypeInv, NEW r \in Slots, NEW p \in ProposalIds,
           ProposalStep(r, p)
    PROVE  TypeInv'
  <1> USE RowFacts DEF TypeInv, TypeOK, ProposalStep
  <1> DEFINE Typed == proposals' \in [ProposalIds -> ProposalRows \cup {None, Deleted}]
             RoomNeedsAccept == \A q \in ProposalIds : Proposal(q)'
                /\ proposals'[q].room # None => proposals'[q].status = "accepted"
  <1>2. CASE InsertProposal(r, p)
    <2> DEFINE new == [listing |-> reqs[r].on, user |-> reqs[r].user,
                       status |-> "pending", room |-> None, give |-> {}, get |-> {}]
    <2>1. reqs[r] \in Requests /\ reqs[r].on \in ListingIds
      BY <1>2 DEF InsertProposal, At, ReferencesOK, Refers
    <2>2. new \in ProposalRows
      BY <2>1 DEF Requests, ProposalRows
    <2>3. Typed
      BY <1>2, <2>2 DEF InsertProposal
    <2>4. RoomNeedsAccept
      BY <1>2 DEF InsertProposal, Proposal
    <2>5. reqs' \in [Slots -> Requests \cup {None}]
      BY <1>2, <2>1, InsertedKeepsRequests DEF InsertProposal
    <2>6. ReferencesOK'
      BY <1>2, <2>1 DEF InsertProposal, Inserted, Requests, ReferencesOK, Refers, Deciding, Furnishing
    <2>. QED
      BY <1>2, <2>3, <2>4, <2>5, <2>6 DEF InsertProposal
  <1>3. CASE InsertLines(r)
    <2>1. reqs[r] \in Requests /\ reqs[r].row \in ProposalIds
      BY <1>3 DEF InsertLines, At, ReferencesOK, Refers
    <2>2. proposals[reqs[r].row] \in ProposalRows
      BY <1>3, <2>1 DEF InsertLines, Proposal
    <2>3. Typed
      BY <1>3, <2>1, <2>2 DEF InsertLines, Requests, ProposalRows
    <2>4. RoomNeedsAccept
      BY <1>3, <2>1, <2>2 DEF InsertLines, Proposal, ProposalRows
    <2>5. ReferencesOK' /\ reqs' \in [Slots -> Requests \cup {None}]
      BY <1>3 DEF InsertLines, End, ReferencesOK
    <2>. QED
      BY <1>3, <2>3, <2>4, <2>5 DEF InsertLines
  <1>4. CASE UndoProposal(r)
    <2>1. Typed
      BY <1>4 DEF UndoProposal
    <2>2. RoomNeedsAccept
      BY <1>4 DEF UndoProposal, Proposal, IsRow
    <2>3. ReferencesOK' /\ reqs' \in [Slots -> Requests \cup {None}]
      BY <1>4 DEF UndoProposal, End, ReferencesOK
    <2>. QED
      BY <1>4, <2>1, <2>2, <2>3 DEF UndoProposal
  <1>5. CASE Answer(r)
    <2>1. /\ reqs[r] \in Requests /\ reqs[r].on \in ProposalIds
          /\ reqs[r].row \in RoomIds \cup {None}
          /\ reqs[r].row # None => reqs[r].accept
      BY <1>5 DEF Answer, At, ReferencesOK, Refers, Deciding
    <2>2. StillPending(reqs[r].on) => proposals[reqs[r].on] \in ProposalRows
      BY <2>1 DEF StillPending, IsPending, Proposal
    <2>3. Typed
      BY <1>5, <2>1, <2>2 DEF Answer, ProposalRows
    <2>4. RoomNeedsAccept
      BY <1>5, <2>1, <2>2 DEF Answer, Proposal, ProposalRows
    <2>5. ReferencesOK' /\ reqs' \in [Slots -> Requests \cup {None}]
      BY <1>5 DEF Answer, End, ReferencesOK
    <2>. QED
      BY <1>5, <2>3, <2>4, <2>5 DEF Answer
  <1>6. CASE Withdraw(r)
    <2>1. reqs[r] \in Requests /\ reqs[r].on \in ProposalIds
      BY <1>6 DEF Withdraw, At, ReferencesOK, Refers
    <2>2. StillPending(reqs[r].on) =>
            /\ proposals[reqs[r].on] \in ProposalRows
            /\ proposals[reqs[r].on].room = None
      BY <2>1 DEF StillPending, IsPending, Proposal
    <2>3. Typed
      BY <1>6, <2>1, <2>2 DEF Withdraw, ProposalRows
    <2>4. RoomNeedsAccept
      BY <1>6, <2>1, <2>2 DEF Withdraw, Proposal, ProposalRows
    <2>5. ReferencesOK' /\ reqs' \in [Slots -> Requests \cup {None}]
      BY <1>6 DEF Withdraw, End, ReferencesOK
    <2>. QED
      BY <1>6, <2>3, <2>4, <2>5 DEF Withdraw
  <1>. QED
    BY <1>2, <1>3, <1>4, <1>5, <1>6

(* Reads and refusals touch no table.                                      *)
LEMMA ReadStepsKeepTypes ==
    ASSUME TypeInv, NEW r \in Slots, ReadStep(r)
    PROVE  TypeInv'
  <1> USE RowFacts DEF TypeInv, TypeOK
  <1>1. UNCHANGED <<listings, proposals, rooms, started>>
    BY DEF ReadStep, Fail, ReadMine, CheckDuplicates, CheckTerms, CountPending, JudgeLines
  <1>2. reqs[r] \in Requests
    BY DEF ReadStep, Fail, ReadMine, CheckDuplicates, CheckTerms, CountPending, JudgeLines, At
  <1>3. reqs' \in [Slots -> Requests \cup {None}]
    <2>1. CASE Fail(r)
      BY <2>1 DEF Fail, End
    <2>2. CASE ReadMine(r)
      <3>1. OpenListingsOf(reqs[r].user) \subseteq ListingIds
        BY DEF OpenListingsOf
      <3>2. [reqs[r] EXCEPT !.seen = OpenListingsOf(reqs[r].user), !.pc = "duplicates"]
                \in Requests
        BY <1>2, <3>1 DEF Requests
      <3>. QED
        BY <2>2, <3>2 DEF ReadMine
    <2>3. CASE CheckDuplicates(r) \/ CheckTerms(r) \/ CountPending(r) \/ JudgeLines(r)
      BY <1>2, <2>3 DEF CheckDuplicates, CheckTerms, CountPending, JudgeLines, Goto, Requests
    <2>. QED
      BY <2>1, <2>2, <2>3 DEF ReadStep
  <1>4. ReferencesOK'
    BY <1>2 DEF ReadStep, Fail, ReadMine, CheckDuplicates, CheckTerms, CountPending,
                JudgeLines, At, End, Goto, ReferencesOK, Refers, Deciding, Furnishing, Requests
  <1>. QED
    BY <1>1, <1>3, <1>4 DEF Proposal

(* The room a decision opens, statement by statement.                      *)
LEMMA RoomStepsKeepTypes ==
    ASSUME TypeInv, InHandInserted, NEW r \in Slots, NEW k \in RoomIds,
           RoomStep(r, k)
    PROVE  TypeInv'
  <1> USE RowFacts DEF TypeInv, TypeOK, RoomStep
  <1>1. UNCHANGED <<listings, proposals, started>>
    BY DEF CreateRoom, AddSideA, AddSideB, StartBuilding
  <1>2. reqs[r] \in Requests
    BY DEF CreateRoom, AddSideA, AddSideB, StartBuilding, At
  <1>3. CASE CreateRoom(r, k)
    <2>1. rooms' \in [RoomIds -> RoomRows \cup {None}]
      BY <1>3 DEF CreateRoom, RoomRows
    <2>2. reqs' \in [Slots -> Requests \cup {None}]
      BY <1>2, <1>3, InsertedKeepsRequests DEF CreateRoom
    <2>3. ReferencesOK'
      BY <1>2, <1>3 DEF CreateRoom, At, Inserted, ReferencesOK, Refers, Deciding, Furnishing, Requests
    <2>. QED
      BY <1>1, <2>1, <2>2, <2>3 DEF Proposal
  <1>4. CASE AddSideA(r) \/ AddSideB(r) \/ StartBuilding(r)
    <2>1. reqs[r].row \in RoomIds /\ reqs[r].user \in Users
          /\ reqs[r].peer \in Users \cup {None}
      BY <1>2, <1>4 DEF AddSideA, AddSideB, StartBuilding, At, ReferencesOK, Refers, Furnishing, Requests
    <2>2. rooms' \in [RoomIds -> RoomRows \cup {None}]
      <3>1. rooms[reqs[r].row] \in RoomRows
        BY <1>4, <2>1 DEF AddSideA, AddSideB, StartBuilding, At, InHandInserted,
                          HoldsRoom, Holding, Furnishing
      <3>. QED
        BY <1>4, <2>1, <3>1 DEF AddSideA, AddSideB, StartBuilding, RoomRows
    <2>3. reqs' \in [Slots -> Requests \cup {None}]
      BY <1>2, <1>4 DEF AddSideA, AddSideB, StartBuilding, Goto, Requests
    <2>4. ReferencesOK'
      BY <1>2, <1>4 DEF AddSideA, AddSideB, StartBuilding, At, Goto, ReferencesOK, Refers,
                        Deciding, Furnishing, Requests
    <2>. QED
      BY <1>1, <2>2, <2>3, <2>4 DEF Proposal
  <1>. QED
    BY <1>3, <1>4

-----------------------------------------------------------------------------
(* The steps of the specification, by what they write. *)

(* A handler that acts without naming a new row still has one to name: the *)
(* tables it acts on are not empty.                                        *)
LEMMA StepCases ==
    ASSUME TypeInv, Next
    PROVE  \/ \E r \in Slots, user \in Users : NewRequest(r, user)
           \/ \E r \in Slots : ReadStep(r)
           \/ \E r \in Slots, l \in ListingIds : ListingStep(r, l)
           \/ \E l \in ListingIds : Expire(l)
           \/ \E r \in Slots, p \in ProposalIds : ProposalStep(r, p)
           \/ \E r \in Slots, k \in RoomIds : RoomStep(r, k)
  <1>1. /\ NewRow(listings) \subseteq ListingIds
        /\ NewRow(proposals) \subseteq ProposalIds
        /\ NewRow(rooms) \subseteq RoomIds
        /\ FreeSlot \subseteq Slots
    BY DEF TypeInv, TypeOK, NewRow, Unused, FreeSlot
  <1>2. ASSUME NEW r \in Slots, HandlerStep(r)
        PROVE  \/ ReadStep(r)
               \/ \E l \in ListingIds : ListingStep(r, l)
               \/ \E p \in ProposalIds : ProposalStep(r, p)
               \/ \E k \in RoomIds : RoomStep(r, k)
    <2>1. CASE InsertOffers(r) \/ UndoListing(r) \/ CloseListing(r) \/ DeclinePending(r)
      <3>1. reqs[r].row \in ListingIds \/ reqs[r].on \in ListingIds
        BY <2>1 DEF InsertOffers, UndoListing, CloseListing, DeclinePending, At, TypeInv, ReferencesOK, Refers
      <3>. QED
        BY <2>1, <3>1 DEF ListingStep
    <2>2. CASE InsertLines(r) \/ UndoProposal(r) \/ Answer(r) \/ Withdraw(r)
      <3>1. reqs[r].row \in ProposalIds \/ reqs[r].on \in ProposalIds
        BY <2>2 DEF InsertLines, UndoProposal, Answer, Withdraw, At, TypeInv, ReferencesOK,
                    Refers, Deciding
      <3>. QED
        BY <2>2, <3>1 DEF ProposalStep
    <2>4. CASE AddSideA(r) \/ AddSideB(r) \/ StartBuilding(r)
      <3>1. reqs[r].row \in RoomIds
        BY <2>4 DEF AddSideA, AddSideB, StartBuilding, At, TypeInv, ReferencesOK, Refers,
                    Furnishing
      <3>. QED
        BY <2>4, <3>1 DEF RoomStep
    <2>5. ASSUME NEW l \in NewRow(listings), InsertListing(r, l)
          PROVE  \E k \in ListingIds : ListingStep(r, k)
      BY <1>1, <2>5 DEF ListingStep
    <2>6. ASSUME NEW p \in NewRow(proposals), InsertProposal(r, p)
          PROVE  \E k \in ProposalIds : ProposalStep(r, k)
      BY <1>1, <2>6 DEF ProposalStep
    <2>7. ASSUME NEW k \in NewRow(rooms), CreateRoom(r, k)
          PROVE  \E j \in RoomIds : RoomStep(r, j)
      BY <1>1, <2>7 DEF RoomStep
    <2>. QED
      BY <1>2, <2>1, <2>2, <2>4, <2>5, <2>6, <2>7 DEF HandlerStep, ReadStep
  <1>. QED
    BY <1>1, <1>2 DEF Next

-----------------------------------------------------------------------------
(* Rooms in hand. *)

(* One handler moved on, and not to a room in hand.                        *)
LEMMA OneMoved ==
    ASSUME TypeInv, NEW r \in Slots, NEW q, ~Holding(q), reqs' = [reqs EXCEPT ![r] = q]
    PROVE  HandsKept
  BY DEF TypeInv, TypeOK, HandsKept, HoldsRoom

LEMMA NewRequestKeepsHands ==
    ASSUME TypeInv, NEW r \in Slots, NEW user \in Users, NewRequest(r, user)
    PROVE  HandsKept /\ rooms' = rooms
  <1>1. ASSUME NEW q, q.pc \in {"mine", "close", "terms", "judge", "withdraw"}, Start(r, q)
        PROVE  HandsKept /\ rooms' = rooms
    <2>1. ~Holding(q)
      BY <1>1 DEF Holding, Furnishing
    <2>. QED
      BY <1>1, <2>1, OneMoved DEF Start
  <1>2. \E q : q.pc \in {"mine", "close", "terms", "judge", "withdraw"} /\ Start(r, q)
    <2>1. ASSUME NEW on, NEW give, NEW get, NEW pc
          PROVE  Request(user, on, give, get, pc).pc = pc
      BY DEF Request
    <2>2. ASSUME NEW p, NEW accept
          PROVE  [Request(user, p, {}, {}, "judge") EXCEPT
                    !.accept = accept, !.peer = proposals[p].user].pc = "judge"
      BY DEF Request
    <2>3. ASSUME NEW p \in ProposalIds, NEW accept \in BOOLEAN,
                 StartDecide(r, user, p, accept)
          PROVE  \E q : q.pc = "judge" /\ Start(r, q)
      BY <2>2, <2>3 DEF StartDecide
    <2>. QED
      BY <2>1, <2>3 DEF NewRequest, StartCreate, StartClose, StartPropose, StartWithdraw
  <1>. QED
    BY <1>1, <1>2

LEMMA ReadStepKeepsHands ==
    ASSUME TypeInv, NEW r \in Slots, ReadStep(r)
    PROVE  HandsKept /\ rooms' = rooms
  <1>1. reqs[r] \in Requests
    BY RowFacts DEF ReadStep, Fail, ReadMine, CheckDuplicates, CheckTerms, CountPending,
                    JudgeLines, At, TypeInv, TypeOK
  <1>2. ASSUME NEW pc \in {"list", "count", "propose", "room"}, Goto(r, pc)
        PROVE  HandsKept
    <2> DEFINE q == [reqs[r] EXCEPT !.pc = pc]
    <2>1. ~Holding(q)
      BY <1>1 DEF Holding, Furnishing, Requests
    <2>. QED
      BY <1>2, <2>1, OneMoved DEF Goto
  <1>3. CASE Fail(r)
    BY <1>3, OneMoved DEF Fail, End, Holding
  <1>4. CASE ReadMine(r)
    <2> DEFINE q == [reqs[r] EXCEPT !.seen = OpenListingsOf(reqs[r].user), !.pc = "duplicates"]
    <2>1. ~Holding(q)
      BY <1>1 DEF Holding, Furnishing, Requests
    <2>2. reqs' = [reqs EXCEPT ![r] = q]
      BY <1>4 DEF ReadMine
    <2>. QED
      BY <1>4, <2>1, <2>2, OneMoved DEF ReadMine
  <1>5. CASE CheckDuplicates(r) \/ CheckTerms(r) \/ CountPending(r)
    BY <1>2, <1>5 DEF CheckDuplicates, CheckTerms, CountPending
  <1>6. CASE JudgeLines(r)
    <2> DEFINE q == [reqs[r] EXCEPT !.pc = "answer"]
    <2>1. reqs[r].row = None
      BY <1>6 DEF JudgeLines, At, TypeInv, ReferencesOK, Refers
    <2>2. ~Holding(q)
      BY <1>1, <2>1 DEF Holding, Furnishing, Requests
    <2>3. Goto(r, "answer") => HandsKept
      BY <2>2, OneMoved DEF Goto
    <2>. QED
      BY <1>2, <1>6, <2>3 DEF JudgeLines
  <1>. QED
    BY <1>3, <1>4, <1>5, <1>6 DEF ReadStep

LEMMA ListingStepKeepsHands ==
    ASSUME TypeInv, NEW r \in Slots, NEW l \in ListingIds, ListingStep(r, l)
    PROVE  HandsKept /\ rooms' = rooms
  <1>1. CASE InsertListing(r, l)
    <2> DEFINE q == [reqs[r] EXCEPT !.row = l, !.pc = "offers"]
    <2>1. reqs[r] \in Requests
      BY <1>1, RowFacts DEF InsertListing, At, TypeInv, TypeOK
    <2>2. ~Holding(q)
      BY <2>1 DEF Holding, Furnishing, Requests
    <2>. QED
      BY <1>1, <2>2, OneMoved DEF InsertListing, Inserted
  <1>2. CASE InsertOffers(r) \/ UndoListing(r) \/ DeclinePending(r)
    BY <1>2, OneMoved DEF InsertOffers, UndoListing, DeclinePending, End, Holding
  <1>3. CASE CloseListing(r)
    <2> DEFINE q == [reqs[r] EXCEPT !.pc = "decline"]
    <2>1. reqs[r] \in Requests
      BY <1>3, RowFacts DEF CloseListing, At, TypeInv, TypeOK
    <2>2. ~Holding(q)
      BY <2>1 DEF Holding, Furnishing, Requests
    <2>. QED
      BY <1>3, <2>2, OneMoved DEF CloseListing, Goto
  <1>. QED
    BY <1>1, <1>2, <1>3 DEF ListingStep

LEMMA ProposalStepKeepsHands ==
    ASSUME TypeInv, NEW r \in Slots, NEW p \in ProposalIds, ProposalStep(r, p)
    PROVE  HandsKept /\ rooms' = rooms
  <1>1. CASE InsertProposal(r, p)
    <2> DEFINE q == [reqs[r] EXCEPT !.row = p, !.pc = "lines"]
    <2>1. reqs[r] \in Requests
      BY <1>1, RowFacts DEF InsertProposal, At, TypeInv, TypeOK
    <2>2. ~Holding(q)
      BY <2>1 DEF Holding, Furnishing, Requests
    <2>. QED
      BY <1>1, <2>2, OneMoved DEF InsertProposal, Inserted
  <1>2. CASE InsertLines(r) \/ UndoProposal(r) \/ Answer(r) \/ Withdraw(r)
    BY <1>2, OneMoved DEF InsertLines, UndoProposal, Answer, Withdraw, End, Holding
  <1>. QED
    BY <1>1, <1>2 DEF ProposalStep

-----------------------------------------------------------------------------
(* Who lists, who proposes. *)

OnRealListing == \A p \in ProposalIds : Proposal(p) => Listing(proposals[p].listing)

(* No step changes a listing's or a proposal's author, or leaves a         *)
(* proposal without its listing.                                           *)
KeptParties(p) ==
    /\ proposals[p] # None => proposals'[p] # None
    /\ Proposal(p)' => Listing(proposals[p].listing)'
    /\ Proposal(p)' /\ proposals[p] # None =>
        /\ Proposal(p)
        /\ proposals'[p].user = proposals[p].user
        /\ proposals'[p].listing = proposals[p].listing
        /\ listings'[proposals[p].listing].user = listings[proposals[p].listing].user

KeepsParties == \A p \in ProposalIds : KeptParties(p)

(* A proposal names a room only if it did before.                          *)
NamesKept ==
    \A p \in ProposalIds : Proposal(p)' =>
        proposals'[p].room = None \/ (Proposal(p) /\ proposals'[p].room = proposals[p].room)

LEMMA SameTablesKeepParties ==
    ASSUME TypeInv, OnRealListing, UNCHANGED <<listings, proposals>>
    PROVE  KeepsParties /\ NamesKept
  BY DEF OnRealListing, KeepsParties, KeptParties, NamesKept, Proposal, Listing, IsRow

(* One listing changed, and still has its author.                          *)
LEMMA OneListingKeepsParties ==
    ASSUME TypeInv, OnRealListing, proposals' = proposals,
           NEW k \in ListingIds, \A j \in ListingIds \ {k} : listings'[j] = listings[j],
           Listing(k) => Listing(k)' /\ listings'[k].user = listings[k].user
    PROVE  KeepsParties /\ NamesKept
  <1>1. \A p \in ProposalIds : Proposal(p) => proposals[p].listing \in ListingIds
    BY RowFacts DEF TypeInv, TypeOK, Proposal, ProposalRows
  <1>. QED
    BY <1>1 DEF OnRealListing, KeepsParties, KeptParties, NamesKept, Proposal, Listing, IsRow

LEMMA ExpireKeepsParties ==
    ASSUME TypeInv, OnRealListing, NEW l \in ListingIds, Expire(l)
    PROVE  KeepsParties /\ NamesKept
  <1>1. listings[l] \in ListingRows
    BY RowFacts DEF Expire, Listing, TypeInv, TypeOK
  <1>2. listings'[l] = [listings[l] EXCEPT !.expired = TRUE]
    BY DEF Expire, TypeInv, TypeOK
  <1>3. listings'[l] \in ListingRows /\ listings'[l].user = listings[l].user
    BY <1>1, <1>2 DEF ListingRows
  <1>4. Listing(l)'
    BY <1>3, RowFacts DEF Listing
  <1>. QED
    BY <1>3, <1>4, OneListingKeepsParties DEF Expire, TypeInv, TypeOK

LEMMA ListingStepKeepsParties ==
    ASSUME TypeInv, OnRealListing, NEW r \in Slots, NEW l \in ListingIds, ListingStep(r, l)
    PROVE  KeepsParties /\ NamesKept
  <1> USE RowFacts DEF TypeInv, TypeOK
  <1>2. CASE InsertListing(r, l)
    BY OneListingKeepsParties, <1>2, NullAssumption DEF InsertListing, Listing, IsRow
  <1>3. CASE InsertOffers(r)
    <2>1. reqs[r].row \in ListingIds
      BY <1>3 DEF InsertOffers, At, ReferencesOK, Refers
    <2>2. listings[reqs[r].row] \in ListingRows
      BY <1>3, <2>1 DEF InsertOffers, Listing
    <2>3. listings'[reqs[r].row] \in ListingRows
      BY <1>3, <2>1, <2>2 DEF InsertOffers, ListingRows, Requests, At
    <2>. QED
      BY OneListingKeepsParties, <1>3, <2>1, <2>2, <2>3 DEF InsertOffers, Listing, ListingRows
  <1>4. CASE UndoListing(r)
    <2>1. /\ \A p \in ProposalIds : Proposal(p)' =>
                /\ Proposal(p) /\ proposals'[p] = proposals[p]
                /\ proposals[p].listing # reqs[r].row
          /\ \A p \in ProposalIds : proposals[p] # None => proposals'[p] # None
      BY <1>4, NullAssumption DEF UndoListing, Proposal, IsRow
    <2>2. \A j \in ListingIds : j # reqs[r].row => listings'[j] = listings[j]
      BY <1>4 DEF UndoListing
    <2>3. \A p \in ProposalIds : Proposal(p) => proposals[p].listing \in ListingIds
      BY DEF Proposal, ProposalRows
    <2>. QED
      BY <2>1, <2>2, <2>3 DEF OnRealListing, KeepsParties, KeptParties, NamesKept, Listing,
                              IsRow
  <1>5. CASE CloseListing(r)
    <2>1. reqs[r].on \in ListingIds
      BY <1>5 DEF CloseListing, At, ReferencesOK, Refers
    <2>2. CASE IsOpen(reqs[r].on)
      <3>1. listings[reqs[r].on] \in ListingRows
        BY <2>1, <2>2 DEF IsOpen, Listing
      <3>2. listings'[reqs[r].on] \in ListingRows
        BY <1>5, <2>1, <2>2, <3>1 DEF CloseListing, ListingRows
      <3>. QED
        BY OneListingKeepsParties, <1>5, <2>1, <2>2, <3>1, <3>2 DEF CloseListing, Listing, ListingRows
    <2>3. CASE ~IsOpen(reqs[r].on)
      BY <1>5, <2>3, SameTablesKeepParties DEF CloseListing
    <2>. QED
      BY <2>2, <2>3
  <1>6. CASE DeclinePending(r)
    <2>1. ASSUME NEW p \in ProposalIds
          PROVE  /\ Proposal(p)' <=> Proposal(p)
                 /\ proposals[p] # None => proposals'[p] # None
                 /\ Proposal(p) => /\ proposals'[p].user = proposals[p].user
                                   /\ proposals'[p].listing = proposals[p].listing
                                   /\ proposals'[p].room = proposals[p].room
      <3>1. CASE IsPending(p) /\ proposals[p].listing = reqs[r].on
        <4>1. proposals[p] \in ProposalRows
          BY <3>1 DEF IsPending, Proposal
        <4>2. proposals'[p] = [proposals[p] EXCEPT !.status = "declined"]
          BY <1>6, <3>1 DEF DeclinePending
        <4>3. proposals'[p] \in ProposalRows
          BY <4>1, <4>2 DEF ProposalRows
        <4>. QED
          BY <4>1, <4>2, <4>3, NullAssumption DEF Proposal, ProposalRows, IsRow
      <3>2. CASE ~(IsPending(p) /\ proposals[p].listing = reqs[r].on)
        <4>1. proposals'[p] = proposals[p]
          BY <1>6, <3>2 DEF DeclinePending
        <4>. QED
          BY <4>1 DEF Proposal
      <3>. QED
        BY <3>1, <3>2
    <2>2. listings' = listings
      BY <1>6 DEF DeclinePending
    <2>3. \A p \in ProposalIds : KeptParties(p)
      BY <2>1, <2>2 DEF OnRealListing, KeptParties, Listing, Proposal, IsRow
    <2>. QED
      BY <2>1, <2>3 DEF KeepsParties, NamesKept
  <1>. QED
    BY <1>2, <1>3, <1>4, <1>5, <1>6 DEF ListingStep

(* One proposal changed, and still has its author and its listing.         *)
LEMMA OneProposalKeepsParties ==
    ASSUME TypeInv, OnRealListing, listings' = listings,
           NEW k \in ProposalIds, \A j \in ProposalIds \ {k} : proposals'[j] = proposals[j],
           Proposal(k), proposals'[k] \in ProposalRows,
           proposals'[k].user = proposals[k].user,
           proposals'[k].listing = proposals[k].listing
    PROVE  KeepsParties
  <1>1. Proposal(k)' /\ proposals'[k] # None
    BY RowFacts, NullAssumption DEF Proposal
  <1>2. KeptParties(k)
    BY <1>1 DEF OnRealListing, KeptParties, Listing
  <1>3. ASSUME NEW p \in ProposalIds, p # k
        PROVE  KeptParties(p)
    BY <1>3, NullAssumption DEF OnRealListing, KeptParties, Listing, Proposal, IsRow
  <1>. QED
    BY <1>2, <1>3 DEF KeepsParties

LEMMA ProposalStepKeepsParties ==
    ASSUME TypeInv, OnRealListing, NEW r \in Slots, NEW p \in ProposalIds, ProposalStep(r, p)
    PROVE  KeepsParties
  <1> USE RowFacts DEF TypeInv, TypeOK
  <1>1. CASE InsertProposal(r, p)
    <2> DEFINE new == [listing |-> reqs[r].on, user |-> reqs[r].user,
                       status |-> "pending", room |-> None, give |-> {}, get |-> {}]
    <2>1. /\ proposals[p] = None /\ Listing(reqs[r].on) /\ listings' = listings
          /\ proposals'[p] = new
          /\ \A j \in ProposalIds \ {p} : proposals'[j] = proposals[j]
      BY <1>1 DEF InsertProposal
    <2>2. KeptParties(p)
      BY <2>1 DEF KeptParties, Listing
    <2>3. ASSUME NEW j \in ProposalIds, j # p
          PROVE  KeptParties(j)
      BY <2>1, <2>3, NullAssumption DEF OnRealListing, KeptParties, Listing, Proposal, IsRow
    <2>. QED
      BY <2>2, <2>3 DEF KeepsParties
  <1>2. CASE InsertLines(r)
    <2>1. /\ reqs[r] \in Requests /\ reqs[r].row \in ProposalIds
          /\ proposals[reqs[r].row] \in ProposalRows
      BY <1>2 DEF InsertLines, At, ReferencesOK, Refers, Proposal
    <2> DEFINE given == [proposals[reqs[r].row] EXCEPT !.give = reqs[r].give]
    <2>2. proposals'[reqs[r].row] = [given EXCEPT !.get = reqs[r].get]
      BY <1>2, <2>1 DEF InsertLines
    <2>3. /\ given \in ProposalRows /\ given.user = proposals[reqs[r].row].user
          /\ given.listing = proposals[reqs[r].row].listing
      BY <2>1 DEF ProposalRows, Requests
    <2> HIDE DEF given
    <2>4. /\ proposals'[reqs[r].row] \in ProposalRows
          /\ proposals'[reqs[r].row].user = proposals[reqs[r].row].user
          /\ proposals'[reqs[r].row].listing = proposals[reqs[r].row].listing
      BY <2>1, <2>2, <2>3 DEF ProposalRows, Requests
    <2>. QED
      BY <1>2, <2>1, <2>4, OneProposalKeepsParties DEF InsertLines
  <1>3. CASE UndoProposal(r)
    <2>1. \A j \in ProposalIds :
            proposals'[j] = IF j = reqs[r].row THEN Deleted ELSE proposals[j]
      BY <1>3 DEF UndoProposal
    <2>. QED
      BY <1>3, <2>1, NullAssumption DEF UndoProposal, OnRealListing, KeepsParties, KeptParties,
                                        Listing, Proposal, IsRow
  <1>4. CASE Answer(r) \/ Withdraw(r)
    <2>1. reqs[r] \in Requests /\ reqs[r].on \in ProposalIds
      BY <1>4 DEF Answer, Withdraw, At, ReferencesOK, Refers, Deciding
    <2>2. CASE StillPending(reqs[r].on)
      <3>1. proposals[reqs[r].on] \in ProposalRows /\ Proposal(reqs[r].on)
        BY <2>1, <2>2 DEF StillPending, IsPending, Proposal
      <3>2. proposals' \in [ProposalIds -> ProposalRows \cup {None, Deleted}]
        BY <1>4, ProposalStepsKeepTypes DEF ProposalStep
      <3>3. /\ proposals'[reqs[r].on].user = proposals[reqs[r].on].user
            /\ proposals'[reqs[r].on].listing = proposals[reqs[r].on].listing
            /\ proposals'[reqs[r].on] \in ProposalRows
        BY <1>4, <2>1, <2>2, <3>1, <3>2 DEF Answer, Withdraw, ProposalRows
      <3>. QED
        BY <1>4, <2>1, <2>2, <3>1, <3>3, OneProposalKeepsParties DEF Answer, Withdraw
    <2>3. CASE ~StillPending(reqs[r].on)
      BY <1>4, <2>3, SameTablesKeepParties DEF Answer, Withdraw
    <2>. QED
      BY <2>2, <2>3
  <1>. QED
    BY <1>1, <1>2, <1>3, <1>4 DEF ProposalStep

(* Of the statements about a proposal only the answer names a room.        *)
LEMMA OtherStepsKeepNames ==
    ASSUME TypeInv, NEW r \in Slots, NEW p \in ProposalIds, ProposalStep(r, p), ~Answer(r)
    PROVE  NamesKept
  <1> USE RowFacts DEF TypeInv, TypeOK
  <1>1. CASE InsertProposal(r, p)
    BY <1>1 DEF InsertProposal, NamesKept, Proposal
  <1>2. CASE InsertLines(r)
    <2>1. proposals[reqs[r].row] \in ProposalRows /\ reqs[r].row \in ProposalIds
      BY <1>2 DEF InsertLines, At, ReferencesOK, Refers, Proposal
    <2> DEFINE given == [proposals[reqs[r].row] EXCEPT !.give = reqs[r].give]
    <2>2. proposals'[reqs[r].row] = [given EXCEPT !.get = reqs[r].get]
      BY <1>2, <2>1 DEF InsertLines
    <2>3. proposals'[reqs[r].row].room = proposals[reqs[r].row].room
      BY <2>1, <2>2 DEF ProposalRows
    <2>4. \A j \in ProposalIds \ {reqs[r].row} : proposals'[j] = proposals[j]
      BY <1>2 DEF InsertLines
    <2>. QED
      BY <1>2, <2>3, <2>4 DEF InsertLines, NamesKept, Proposal
  <1>3. CASE UndoProposal(r)
    BY <1>3 DEF UndoProposal, NamesKept, Proposal, IsRow
  <1>4. CASE Withdraw(r)
    <2>1. CASE StillPending(reqs[r].on)
      <3>1. reqs[r].on \in ProposalIds /\ proposals[reqs[r].on] \in ProposalRows
        BY <1>4, <2>1 DEF Withdraw, At, ReferencesOK, Refers, StillPending, IsPending, Proposal
      <3>2. proposals'[reqs[r].on] = [proposals[reqs[r].on] EXCEPT !.status = "withdrawn"]
        BY <1>4, <2>1, <3>1 DEF Withdraw
      <3>3. proposals'[reqs[r].on].room = proposals[reqs[r].on].room
        BY <3>1, <3>2 DEF ProposalRows
      <3>. QED
        BY <1>4, <2>1, <3>3 DEF Withdraw, StillPending, IsPending, NamesKept, Proposal
    <2>2. CASE ~StillPending(reqs[r].on)
      BY <1>4, <2>2 DEF Withdraw, NamesKept, Proposal
    <2>. QED
      BY <2>1, <2>2
  <1>. QED
    BY <1>1, <1>2, <1>3, <1>4 DEF ProposalStep

-----------------------------------------------------------------------------
(* Answers. *)

AnswerKept(p) ==
    Proposal(p) /\ Proposal(p)' /\ proposals[p].status # "pending"
        => /\ proposals'[p].status = proposals[p].status
           /\ proposals'[p].room = proposals[p].room

AnswersKept == \A p \in ProposalIds : AnswerKept(p)

NoNewPending == \A p \in ProposalIds : IsPending(p)' => IsPending(p)

LEMMA SameProposalsKeepAnswers ==
    ASSUME proposals' = proposals
    PROVE  AnswersKept /\ NoNewPending
  BY DEF AnswersKept, AnswerKept, NoNewPending, IsPending, Proposal

LEMMA ListingStepKeepsAnswers ==
    ASSUME TypeInv, NEW r \in Slots, NEW l \in ListingIds, ListingStep(r, l)
    PROVE  AnswersKept /\ NoNewPending
  <1> USE RowFacts DEF TypeInv, TypeOK
  <1>1. CASE InsertListing(r, l) \/ InsertOffers(r) \/ CloseListing(r)
    BY <1>1, SameProposalsKeepAnswers DEF InsertListing, InsertOffers, CloseListing
  <1>2. CASE UndoListing(r)
    <2>1. \A p \in ProposalIds : Proposal(p)' => Proposal(p) /\ proposals'[p] = proposals[p]
      BY <1>2, NullAssumption DEF UndoListing, Proposal, IsRow
    <2>. QED
      BY <2>1 DEF AnswersKept, AnswerKept, NoNewPending, IsPending
  <1>3. CASE DeclinePending(r)
    <2>1. ASSUME NEW p \in ProposalIds
          PROVE  AnswerKept(p) /\ (IsPending(p)' => IsPending(p))
      <3>1. CASE IsPending(p) /\ proposals[p].listing = reqs[r].on
        BY <3>1 DEF AnswerKept, IsPending
      <3>2. CASE ~(IsPending(p) /\ proposals[p].listing = reqs[r].on)
        <4>1. proposals'[p] = proposals[p]
          BY <1>3, <3>2 DEF DeclinePending
        <4>. QED
          BY <4>1 DEF AnswerKept, IsPending, Proposal
      <3>. QED
        BY <3>1, <3>2
    <2>. QED
      BY <2>1 DEF AnswersKept, NoNewPending
  <1>. QED
    BY <1>1, <1>2, <1>3 DEF ListingStep

(* One proposal changed; unless it was pending it keeps its answer.        *)
LEMMA OneProposalKeepsAnswers ==
    ASSUME NEW k \in ProposalIds, \A j \in ProposalIds \ {k} : proposals'[j] = proposals[j],
           AnswerKept(k), IsPending(k)' => IsPending(k)
    PROVE  AnswersKept /\ NoNewPending
  <1>1. \A j \in ProposalIds \ {k} : AnswerKept(j) /\ (IsPending(j)' => IsPending(j))
    BY DEF AnswerKept, IsPending, Proposal
  <1>. QED
    BY <1>1 DEF AnswersKept, NoNewPending

LEMMA ProposalStepKeepsAnswers ==
    ASSUME TypeInv, NEW r \in Slots, NEW p \in ProposalIds, ProposalStep(r, p)
    PROVE  AnswersKept /\ (NoNewPending \/ InsertProposal(r, p))
  <1> USE RowFacts DEF TypeInv, TypeOK
  <1>1. CASE InsertProposal(r, p)
    BY <1>1 DEF InsertProposal, AnswersKept, AnswerKept, Proposal, IsRow
  <1>2. CASE InsertLines(r)
    <2>1. /\ reqs[r].row \in ProposalIds
          /\ proposals[reqs[r].row] \in ProposalRows
      BY <1>2 DEF InsertLines, At, ReferencesOK, Refers, Proposal
    <2> DEFINE given == [proposals[reqs[r].row] EXCEPT !.give = reqs[r].give]
    <2>2. proposals'[reqs[r].row] = [given EXCEPT !.get = reqs[r].get]
      BY <1>2, <2>1 DEF InsertLines
    <2>3. /\ proposals'[reqs[r].row].status = proposals[reqs[r].row].status
          /\ proposals'[reqs[r].row].room = proposals[reqs[r].row].room
      BY <2>1, <2>2 DEF ProposalRows
    <2>. QED
      BY <1>2, <2>1, <2>3, OneProposalKeepsAnswers DEF InsertLines, AnswerKept, IsPending
  <1>3. CASE UndoProposal(r)
    <2>1. reqs[r].row \in ProposalIds
      BY <1>3 DEF UndoProposal, At, ReferencesOK, Refers
    <2>. QED
      BY <1>3, <2>1, OneProposalKeepsAnswers DEF UndoProposal, AnswerKept, IsPending, Proposal, IsRow
  <1>4. CASE Answer(r) \/ Withdraw(r)
    <2>1. reqs[r].on \in ProposalIds
      BY <1>4 DEF Answer, Withdraw, At, ReferencesOK, Refers, Deciding
    <2>2. CASE StillPending(reqs[r].on)
      <3>1. /\ \A j \in ProposalIds \ {reqs[r].on} : proposals'[j] = proposals[j]
            /\ IsPending(reqs[r].on)
        BY <1>4, <2>1, <2>2 DEF Answer, Withdraw, StillPending
      <3>. QED
        BY <2>1, <3>1, OneProposalKeepsAnswers DEF AnswerKept, IsPending
    <2>3. CASE ~StillPending(reqs[r].on)
      BY <1>4, <2>3, SameProposalsKeepAnswers DEF Answer, Withdraw
    <2>. QED
      BY <2>2, <2>3
  <1>. QED
    BY <1>1, <1>2, <1>3, <1>4 DEF ProposalStep

LEMMA NewRequestKeepsTables ==
    ASSUME NEW r \in Slots, NEW user \in Users, NewRequest(r, user)
    PROVE  UNCHANGED <<listings, proposals, rooms>>
  BY DEF NewRequest, StartCreate, StartClose, StartPropose, StartDecide, StartWithdraw, Start

LEMMA ReadStepKeepsTables ==
    ASSUME NEW r \in Slots, ReadStep(r)
    PROVE  UNCHANGED <<listings, proposals, rooms>>
  BY DEF ReadStep, Fail, ReadMine, CheckDuplicates, CheckTerms, CountPending, JudgeLines

LEMMA RoomStepKeepsTables ==
    ASSUME NEW r \in Slots, NEW k \in RoomIds, RoomStep(r, k)
    PROVE  UNCHANGED <<listings, proposals>>
  BY DEF RoomStep, CreateRoom, AddSideA, AddSideB, StartBuilding

LEMMA StepKeepsAnswers ==
    ASSUME TypeInv, [Next]_vars
    PROVE  /\ AnswersKept
           /\ NoNewPending \/ \E r \in Slots, p \in ProposalIds : InsertProposal(r, p)
  <1>1. CASE Next
    <2>1. ASSUME NEW l \in ListingIds, Expire(l)
          PROVE  proposals' = proposals
      BY <2>1 DEF Expire
    <2>. QED
      BY <1>1, <2>1, StepCases, NewRequestKeepsTables, ReadStepKeepsTables,
         RoomStepKeepsTables, SameProposalsKeepAnswers, ListingStepKeepsAnswers,
         ProposalStepKeepsAnswers
  <1>2. CASE UNCHANGED vars
    BY <1>2, SameProposalsKeepAnswers DEF vars
  <1>. QED
    BY <1>1, <1>2

-----------------------------------------------------------------------------
(* Decisions. *)

Judges(q) == q # None /\ q.pc \in Deciding

(* A decision answers a proposal that was inserted, for its proposer, and  *)
(* its caller is the lister.                                               *)
Judged(q) ==
    /\ proposals[q.on] # None
    /\ Proposal(q.on) =>
        /\ q.peer = proposals[q.on].user
        /\ q.user = listings[proposals[q.on].listing].user

JudgedOK == \A r \in Slots : Judges(reqs[r]) => Judged(reqs[r])

(* The decision r makes, if any, is the one it was making.                 *)
SameCase(r) ==
    Judges(reqs'[r]) =>
        /\ Judges(reqs[r])
        /\ reqs'[r].on = reqs[r].on /\ reqs'[r].on \in ProposalIds
        /\ reqs'[r].peer = reqs[r].peer
        /\ reqs'[r].user = reqs[r].user

CasesKept == \A r \in Slots : SameCase(r)

LEMMA SameRequestsKeepCases ==
    ASSUME TypeInv, reqs' = reqs
    PROVE  CasesKept
  BY RowFacts DEF CasesKept, SameCase, Judges, TypeInv, TypeOK, ReferencesOK, Refers

(* A handler that ends, or moves on to another statement.                  *)
LEMMA EndKeepsCases ==
    ASSUME TypeInv, NEW r \in Slots, End(r)
    PROVE  CasesKept
  BY DEF End, CasesKept, SameCase, Judges, TypeInv, TypeOK, ReferencesOK, Refers

LEMMA OneMovedKeepsCases ==
    ASSUME TypeInv, NEW r \in Slots, reqs[r] # None, NEW q,
           reqs' = [reqs EXCEPT ![r] = q],
           q.pc \in Deciding => reqs[r].pc \in Deciding,
           q.on = reqs[r].on, q.peer = reqs[r].peer, q.user = reqs[r].user
    PROVE  CasesKept
  <1>1. ASSUME NEW s \in Slots, s # r
        PROVE  SameCase(s)
    BY <1>1 DEF SameCase, Judges, TypeInv, TypeOK, ReferencesOK, Refers
  <1>2. SameCase(r)
    BY DEF SameCase, Judges, TypeInv, TypeOK, ReferencesOK, Refers
  <1>. QED
    BY <1>1, <1>2 DEF CasesKept

LEMMA GotoKeepsCases ==
    ASSUME TypeInv, NEW r \in Slots, reqs[r] # None, NEW pc, Goto(r, pc),
           pc \in Deciding => reqs[r].pc \in Deciding
    PROVE  CasesKept
  <1> DEFINE q == [reqs[r] EXCEPT !.pc = pc]
  <1>1. reqs[r] \in Requests
    BY DEF TypeInv, TypeOK
  <1>2. q.pc = pc /\ q.on = reqs[r].on /\ q.peer = reqs[r].peer /\ q.user = reqs[r].user
    BY <1>1 DEF Requests
  <1>. QED
    BY <1>2, OneMovedKeepsCases DEF Goto

LEMMA InsertedKeepsCases ==
    ASSUME TypeInv, NEW r \in Slots, reqs[r] # None, NEW id, NEW pc, Inserted(r, id, pc),
           pc \in Deciding => reqs[r].pc \in Deciding
    PROVE  CasesKept
  <1> DEFINE q == [reqs[r] EXCEPT !.row = id, !.pc = pc]
  <1>1. reqs[r] \in Requests
    BY DEF TypeInv, TypeOK
  <1>2. q.pc = pc /\ q.on = reqs[r].on /\ q.peer = reqs[r].peer /\ q.user = reqs[r].user
    BY <1>1 DEF Requests
  <1>. QED
    BY <1>2, OneMovedKeepsCases DEF Inserted

LEMMA HandlerStepKeepsCases ==
    ASSUME TypeInv, NEW r \in Slots, NEW l, NEW p, NEW k,
           ReadStep(r) \/ ListingStep(r, l) \/ ProposalStep(r, p) \/ RoomStep(r, k)
    PROVE  CasesKept
  <1> USE DEF At, Deciding
  <1>1. CASE \/ Fail(r) \/ InsertOffers(r) \/ UndoListing(r) \/ DeclinePending(r)
             \/ InsertLines(r) \/ UndoProposal(r) \/ Answer(r) \/ Withdraw(r)
    BY <1>1, EndKeepsCases DEF Fail, InsertOffers, UndoListing, DeclinePending, InsertLines,
                               UndoProposal, Answer, Withdraw
  <1>2. CASE \/ CheckDuplicates(r) \/ CloseListing(r) \/ CheckTerms(r) \/ CountPending(r)
             \/ JudgeLines(r) \/ AddSideA(r) \/ AddSideB(r) \/ StartBuilding(r)
    BY <1>2, GotoKeepsCases DEF CheckDuplicates, CloseListing, CheckTerms, CountPending,
                                JudgeLines, AddSideA, AddSideB, StartBuilding
  <1>3. CASE InsertListing(r, l) \/ InsertProposal(r, p) \/ CreateRoom(r, k)
    BY <1>3, InsertedKeepsCases DEF InsertListing, InsertProposal, CreateRoom
  <1>4. CASE ReadMine(r)
    <2> DEFINE q == [reqs[r] EXCEPT !.seen = OpenListingsOf(reqs[r].user), !.pc = "duplicates"]
    <2>1. reqs[r] \in Requests
      BY <1>4 DEF ReadMine, TypeInv, TypeOK
    <2>2. q.pc = "duplicates" /\ q.on = reqs[r].on /\ q.peer = reqs[r].peer /\ q.user = reqs[r].user
      BY <2>1 DEF Requests
    <2>3. reqs' = [reqs EXCEPT ![r] = q]
      BY <1>4 DEF ReadMine
    <2>. QED
      BY <1>4, <2>2, <2>3, OneMovedKeepsCases DEF ReadMine
  <1>. QED
    BY <1>1, <1>2, <1>3, <1>4 DEF ReadStep, ListingStep, ProposalStep, RoomStep

LEMMA CasesKeepJudged ==
    ASSUME JudgedOK, KeepsParties, CasesKept
    PROVE  JudgedOK'
  <1>1. ASSUME NEW r \in Slots, Judges(reqs'[r])
        PROVE  Judged(reqs[r])'
    <2>1. /\ Judged(reqs[r]) /\ reqs[r].on \in ProposalIds
          /\ reqs'[r].on = reqs[r].on /\ reqs'[r].peer = reqs[r].peer
          /\ reqs'[r].user = reqs[r].user
      BY <1>1 DEF JudgedOK, CasesKept, SameCase
    <2>2. KeptParties(reqs[r].on)
      BY <2>1 DEF KeepsParties
    <2>. QED
      BY <2>1, <2>2 DEF Judged, KeptParties
  <1>. QED
    BY <1>1 DEF JudgedOK, Judges

LEMMA NewRequestKeepsJudged ==
    ASSUME TypeInv, JudgedOK, NEW r \in Slots, NEW user \in Users, NewRequest(r, user)
    PROVE  JudgedOK'
  <1>1. listings' = listings /\ proposals' = proposals
    BY NewRequestKeepsTables
  <1>2. ASSUME NEW q, Start(r, q), Judges(q) => Judged(q)
        PROVE  JudgedOK'
    <2>1. \A s \in Slots : reqs'[s] = IF s = r THEN q ELSE reqs[s]
      BY <1>2 DEF Start, TypeInv, TypeOK
    <2>. QED
      BY <1>1, <1>2, <2>1 DEF JudgedOK, Judged, Judges, Proposal
  <1>3. ASSUME NEW on, NEW give, NEW get, NEW pc, pc \notin Deciding
        PROVE  ~Judges(Request(user, on, give, get, pc))
    BY <1>3 DEF Judges, Request
  <1>4. ASSUME NEW p \in ProposalIds, NEW accept \in BOOLEAN, StartDecide(r, user, p, accept)
        PROVE  JudgedOK'
    <2> DEFINE q == [Request(user, p, {}, {}, "judge") EXCEPT
                        !.accept = accept, !.peer = proposals[p].user]
    <2>1. q.on = p /\ q.peer = proposals[p].user /\ q.user = user
      BY DEF Request
    <2>2. Judged(q)
      BY <1>4, <2>1, NullAssumption DEF StartDecide, Judged, IsPending, Proposal, IsRow
    <2>3. Start(r, q)
      BY <1>4 DEF StartDecide
    <2>. QED
      BY <1>2, <2>2, <2>3
  <1>. QED
    BY <1>2, <1>3, <1>4 DEF NewRequest, StartCreate, StartClose, StartPropose, StartWithdraw,
                            Deciding

-----------------------------------------------------------------------------
(* Rooms. *)

(* How far the room a decision has in hand is furnished.                   *)
Furnished(q) ==
    LET room == rooms[q.row] IN
    /\ q.pc \in {"sideB", "building", "answer"} => room.a = q.user
    /\ q.pc \in {"building", "answer"} => room.b = q.peer
    /\ q.pc = "answer" => room.status = "building"

FurnishedOK == \A r \in Slots : HoldsRoom(r) => Furnished(reqs[r])

(* A room is in one hand.                                                  *)
OneHand ==
    \A r, s \in Slots :
        HoldsRoom(r) /\ HoldsRoom(s) /\ reqs[r].row = reqs[s].row => r = s

(* A room in hand is named by no proposal.                                 *)
NotNamedYet ==
    \A r \in Slots, p \in ProposalIds :
        HoldsRoom(r) /\ Proposal(p) => proposals[p].room # reqs[r].row

NamedInserted ==
    \A p \in ProposalIds : Proposal(p) /\ proposals[p].room # None
        => rooms[proposals[p].room] # None

HandsOK == InHandInserted /\ FurnishedOK /\ OneHand

RoomsOK == HandsOK /\ NotNamedYet /\ NamedInserted /\ AcceptedRoomIsReady

(* Hands that take nothing leave the rooms in hand as they are.            *)
LEMMA HandsFrame ==
    ASSUME HandsOK, HandsKept, rooms' = rooms
    PROVE  HandsOK'
  <1>1. \A r \in Slots : HoldsRoom(r)' => HoldsRoom(r) /\ reqs'[r] = reqs[r]
    BY DEF HandsKept
  <1>2. InHandInserted'
    BY <1>1 DEF HandsOK, InHandInserted
  <1>3. FurnishedOK'
    BY <1>1 DEF HandsOK, FurnishedOK, Furnished
  <1>4. OneHand'
    BY <1>1 DEF HandsOK, OneHand
  <1>. QED
    BY <1>2, <1>3, <1>4 DEF HandsOK

(* No statement but the answer names a room.                               *)
LEMMA RoomsFrame ==
    ASSUME TypeInv, RoomsOK, HandsKept, rooms' = rooms, KeepsParties, NamesKept
    PROVE  RoomsOK'
  <1>1. HandsOK'
    BY HandsFrame DEF RoomsOK
  <1>2. \A r \in Slots : HoldsRoom(r)' => HoldsRoom(r) /\ reqs'[r] = reqs[r]
    BY DEF HandsKept
  <1>3. \A p \in ProposalIds : Proposal(p)' =>
            proposals'[p].room = None \/ (Proposal(p) /\ proposals'[p].room = proposals[p].room)
    BY DEF NamesKept
  <1>4. NotNamedYet'
    <2>1. \A r \in Slots : HoldsRoom(r) => reqs[r].row # None
      BY NullAssumption DEF TypeInv, ReferencesOK, Refers, HoldsRoom, Holding
    <2>. QED
      BY <1>2, <1>3, <2>1 DEF RoomsOK, NotNamedYet
  <1>5. NamedInserted'
    BY <1>3 DEF RoomsOK, NamedInserted
  <1>6. AcceptedRoomIsReady'
    <2>1. ASSUME NEW p \in ProposalIds, Proposal(p)', proposals'[p].room # None
          PROVE  RoomReady(p)'
      <3>1. Proposal(p) /\ proposals'[p].room = proposals[p].room /\ RoomReady(p)
        BY <1>3, <2>1 DEF RoomsOK, AcceptedRoomIsReady
      <3>2. KeptParties(p) /\ proposals[p] # None
        BY <3>1 DEF KeepsParties, Proposal, IsRow
      <3>. QED
        BY <2>1, <3>1, <3>2 DEF KeptParties, RoomReady
    <2>2. ASSUME NEW p \in ProposalIds, Proposal(p)', proposals'[p].room # None,
                 NEW q \in ProposalIds, Proposal(q)', proposals'[q].room = proposals'[p].room
          PROVE  q = p
      BY <1>3, <2>2 DEF RoomsOK, AcceptedRoomIsReady
    <2>. QED
      BY <2>1, <2>2 DEF AcceptedRoomIsReady
  <1>. QED
    BY <1>1, <1>4, <1>5, <1>6 DEF RoomsOK

(* The names after r's answer: those before it, and the room r had in      *)
(* hand, if any, for the proposal it accepts.                              *)
LEMMA AnswerNames ==
    ASSUME TypeInv, NEW r \in Slots, Answer(r), NEW p \in ProposalIds, Proposal(p)'
    PROVE  /\ Proposal(p)
           /\ \/ proposals'[p].room = proposals[p].room
              \/ /\ p = reqs[r].on /\ proposals'[p].room = reqs[r].row
                 /\ HoldsRoom(r) /\ reqs[r].pc = "answer"
              \/ proposals'[p].room = None
  <1> USE RowFacts DEF TypeInv, TypeOK
  <1>1. reqs[r].on \in ProposalIds /\ reqs[r].pc = "answer" /\ reqs[r] # None
    BY DEF Answer, At, ReferencesOK, Refers, Deciding
  <1>2. CASE StillPending(reqs[r].on) /\ p = reqs[r].on
    <2>1. proposals[p] \in ProposalRows /\ Proposal(p)
      BY <1>2 DEF StillPending, IsPending, Proposal
    <2> DEFINE answered == [proposals[p] EXCEPT !.status =
                            IF reqs[r].accept THEN "accepted" ELSE "declined"]
    <2>2. proposals'[p] = [answered EXCEPT !.room = reqs[r].row]
      BY <1>1, <1>2 DEF Answer
    <2>3. answered \in ProposalRows
      BY <2>1 DEF ProposalRows
    <2> HIDE DEF answered
    <2>4. proposals'[p].room = reqs[r].row
      BY <2>2, <2>3 DEF ProposalRows
    <2>. QED
      BY <1>1, <1>2, <2>1, <2>4 DEF HoldsRoom, Holding
  <1>3. CASE ~(StillPending(reqs[r].on) /\ p = reqs[r].on)
    BY <1>1, <1>3 DEF Answer, Proposal
  <1>. QED
    BY <1>2, <1>3

LEMMA AnswerKeepsRooms ==
    ASSUME TypeInv, OnRealListing, JudgedOK, RoomsOK, NEW r \in Slots, Answer(r),
           HandsKept, rooms' = rooms, KeepsParties
    PROVE  RoomsOK'
  <1>1. HandsOK'
    BY HandsFrame DEF RoomsOK
  <1>2. \A s \in Slots : HoldsRoom(s)' => s # r /\ HoldsRoom(s) /\ reqs'[s] = reqs[s]
    BY DEF HandsKept, Answer, End, HoldsRoom, Holding, TypeInv, TypeOK
  <1>3. \A s \in Slots : HoldsRoom(s) => reqs[s].row # None
    BY NullAssumption DEF TypeInv, ReferencesOK, Refers, HoldsRoom, Holding
  <1>4. NotNamedYet'
    BY <1>2, <1>3, AnswerNames DEF RoomsOK, HandsOK, OneHand, NotNamedYet
  <1>5. NamedInserted'
    BY <1>3, AnswerNames DEF RoomsOK, HandsOK, InHandInserted, NamedInserted
  <1>6. AcceptedRoomIsReady'
    <2>1. ASSUME NEW p \in ProposalIds, Proposal(p)', proposals'[p].room # None
          PROVE  RoomReady(p)'
      <3>1. Proposal(p) /\ KeptParties(p) /\ proposals[p] # None
        BY <2>1, AnswerNames DEF KeepsParties, Proposal, IsRow
      <3>2. CASE proposals'[p].room = proposals[p].room
        <4>1. RoomReady(p)
          BY <2>1, <3>1, <3>2 DEF RoomsOK, AcceptedRoomIsReady
        <4>. QED
          BY <2>1, <3>1, <3>2, <4>1 DEF KeptParties, RoomReady
      <3>3. CASE /\ p = reqs[r].on /\ proposals'[p].room = reqs[r].row
                 /\ HoldsRoom(r) /\ reqs[r].pc = "answer"
        <4>1. Furnished(reqs[r]) /\ Judged(reqs[r])
          BY <3>3 DEF RoomsOK, HandsOK, FurnishedOK, JudgedOK, Judges, Deciding, HoldsRoom,
                      Holding
        <4>2. /\ rooms[reqs[r].row].a = listings[proposals[p].listing].user
              /\ rooms[reqs[r].row].b = proposals[p].user
              /\ rooms[reqs[r].row].status = "building"
          BY <3>1, <3>3, <4>1 DEF Furnished, Judged
        <4>. QED
          BY <2>1, <3>1, <3>3, <4>2 DEF KeptParties, RoomReady
      <3>. QED
        BY <2>1, <3>2, <3>3, AnswerNames
    <2>2. ASSUME NEW p \in ProposalIds, Proposal(p)', proposals'[p].room # None,
                 NEW q \in ProposalIds, Proposal(q)', proposals'[q].room = proposals'[p].room
          PROVE  q = p
      BY <1>3, <2>2, AnswerNames DEF RoomsOK, NotNamedYet, AcceptedRoomIsReady
    <2>. QED
      BY <2>1, <2>2 DEF AcceptedRoomIsReady
  <1>. QED
    BY <1>1, <1>4, <1>5, <1>6 DEF RoomsOK

(* Only rooms in r's hand change, and r goes on furnishing.                *)
LEMMA RoomStepHands ==
    ASSUME TypeInv, HandsOK, NEW r \in Slots, NEW k \in RoomIds, RoomStep(r, k)
    PROVE  /\ \A s \in Slots \ {r} : reqs'[s] = reqs[s]
           /\ HoldsRoom(r)' /\ reqs'[r].row \in RoomIds
           /\ \/ HoldsRoom(r) /\ reqs'[r].row = reqs[r].row
              \/ rooms[reqs'[r].row] = None
           /\ \A j \in RoomIds : j # reqs'[r].row => rooms'[j] = rooms[j]
           /\ rooms'[reqs'[r].row] # None
           /\ Furnished(reqs[r])'
  <1> USE RowFacts DEF TypeInv, TypeOK
  <1>1. reqs[r] \in Requests
    BY DEF RoomStep, CreateRoom, AddSideA, AddSideB, StartBuilding, At
  <1>2. CASE CreateRoom(r, k)
    <2> DEFINE q == [reqs[r] EXCEPT !.row = k, !.pc = "sideA"]
    <2>1. q # None /\ q.pc = "sideA" /\ q.row = k
      BY <1>1, NullAssumption DEF Requests
    <2>2. reqs' = [reqs EXCEPT ![r] = q]
      BY <1>2 DEF CreateRoom, Inserted
    <2>3. reqs'[r] = q /\ \A s \in Slots \ {r} : reqs'[s] = reqs[s]
      BY <2>2
    <2> HIDE DEF q
    <2>4. [status |-> "open", a |-> None, b |-> None] \in RoomRows
      BY DEF RoomRows
    <2>5. rooms[k] = None /\ rooms'[k] # None /\ \A j \in RoomIds : j # k => rooms'[j] = rooms[j]
      BY <1>2, <2>4, NullAssumption DEF CreateRoom
    <2>. QED
      BY <2>1, <2>3, <2>5 DEF HoldsRoom, Holding, Furnishing, Furnished
  <1>3. CASE AddSideA(r) \/ AddSideB(r) \/ StartBuilding(r)
    <2>1. /\ HoldsRoom(r) /\ reqs[r].row \in RoomIds /\ Furnished(reqs[r])
          /\ reqs[r].pc \in Furnishing
      BY <1>3 DEF AddSideA, AddSideB, StartBuilding, At, ReferencesOK, Refers, Furnishing,
                  HoldsRoom, Holding, HandsOK, FurnishedOK
    <2>2. rooms[reqs[r].row] \in RoomRows
      BY <2>1 DEF HandsOK, InHandInserted
    <2>3. ASSUME NEW pc \in Furnishing \cup {"answer"}, Goto(r, pc)
          PROVE  /\ \A s \in Slots \ {r} : reqs'[s] = reqs[s]
                 /\ HoldsRoom(r)' /\ reqs'[r].row = reqs[r].row
                 /\ reqs'[r].pc = pc
                 /\ reqs'[r].user = reqs[r].user /\ reqs'[r].peer = reqs[r].peer
      <3> DEFINE q == [reqs[r] EXCEPT !.pc = pc]
      <3>1. /\ q.row = reqs[r].row /\ q.pc = pc /\ q.user = reqs[r].user
            /\ q.peer = reqs[r].peer /\ q # None
        BY <1>1, NullAssumption DEF Requests, Furnishing
      <3>2. reqs'[r] = q /\ \A s \in Slots \ {r} : reqs'[s] = reqs[s]
        BY <2>3 DEF Goto
      <3>. QED
        BY <2>1, <3>1, <3>2, NullAssumption DEF HoldsRoom, Holding, Furnishing
    <2>4. \A j \in RoomIds : j # reqs[r].row => rooms'[j] = rooms[j]
      BY <1>3 DEF AddSideA, AddSideB, StartBuilding
    <2>5. CASE AddSideA(r)
      <3>1. Goto(r, "sideB")
        BY <2>5 DEF AddSideA
      <3>2. rooms'[reqs[r].row] = [rooms[reqs[r].row] EXCEPT !.a = reqs[r].user]
        BY <2>1, <2>5 DEF AddSideA
      <3>3. rooms'[reqs[r].row] \in RoomRows /\ rooms'[reqs[r].row].a = reqs[r].user
        BY <1>1, <2>2, <3>2 DEF RoomRows, Requests
      <3>. QED
        BY <2>1, <2>3, <2>4, <3>1, <3>3, NullAssumption DEF Furnishing, Furnished
    <2>6. CASE AddSideB(r)
      <3>1. Goto(r, "building") /\ rooms[reqs[r].row].a = reqs[r].user
        BY <2>1, <2>6 DEF AddSideB, At, Furnished
      <3>2. rooms'[reqs[r].row] = [rooms[reqs[r].row] EXCEPT !.b = reqs[r].peer]
        BY <2>1, <2>6 DEF AddSideB
      <3>3. /\ rooms'[reqs[r].row] \in RoomRows
            /\ rooms'[reqs[r].row].a = reqs[r].user
            /\ rooms'[reqs[r].row].b = reqs[r].peer
        BY <1>1, <2>2, <3>1, <3>2 DEF RoomRows, Requests
      <3>. QED
        BY <2>1, <2>3, <2>4, <3>1, <3>3, NullAssumption DEF Furnishing, Furnished
    <2>7. CASE StartBuilding(r)
      <3>1. /\ Goto(r, "answer") /\ rooms[reqs[r].row].a = reqs[r].user
            /\ rooms[reqs[r].row].b = reqs[r].peer
        BY <2>1, <2>7 DEF StartBuilding, At, Furnished
      <3>2. rooms'[reqs[r].row] = [rooms[reqs[r].row] EXCEPT !.status = "building"]
        BY <2>1, <2>2, <2>7 DEF StartBuilding, RoomRows
      <3>3. /\ rooms'[reqs[r].row] \in RoomRows
            /\ rooms'[reqs[r].row].a = reqs[r].user
            /\ rooms'[reqs[r].row].b = reqs[r].peer
            /\ rooms'[reqs[r].row].status = "building"
        BY <2>2, <3>1, <3>2 DEF RoomRows
      <3>. QED
        BY <2>1, <2>3, <2>4, <3>1, <3>3, NullAssumption DEF Furnishing, Furnished
    <2>. QED
      BY <1>3, <2>5, <2>6, <2>7
  <1>. QED
    BY <1>2, <1>3 DEF RoomStep

LEMMA RoomStepKeepsRooms ==
    ASSUME TypeInv, RoomsOK, NEW r \in Slots, NEW k \in RoomIds, RoomStep(r, k)
    PROVE  RoomsOK'
  <1>1. HandsOK
    BY DEF RoomsOK
  <1>2. listings' = listings /\ proposals' = proposals
    BY RoomStepKeepsTables
  (* The room r has in hand now was in no other hand and no proposal.      *)
  <1>3. \A s \in Slots \ {r} : HoldsRoom(s) =>
            reqs[s].row \in RoomIds /\ reqs[s].row # reqs'[r].row
    BY <1>1, RoomStepHands DEF HandsOK, InHandInserted, OneHand, TypeInv, ReferencesOK, Refers,
                               HoldsRoom, Holding
  <1>4. \A p \in ProposalIds : Proposal(p) /\ proposals[p].room # None =>
            proposals[p].room \in RoomIds /\ proposals[p].room # reqs'[r].row
    BY <1>1, RoomStepHands, RowFacts DEF RoomsOK, NotNamedYet, NamedInserted, TypeInv, TypeOK,
                                         Proposal, ProposalRows
  <1>5. \A s \in Slots \ {r} : HoldsRoom(s)' =>
            HoldsRoom(s) /\ reqs'[s] = reqs[s] /\ rooms'[reqs[s].row] = rooms[reqs[s].row]
    BY <1>1, <1>3, RoomStepHands DEF HoldsRoom
  <1>6. \A p \in ProposalIds : Proposal(p) /\ proposals[p].room # None =>
            rooms'[proposals[p].room] = rooms[proposals[p].room]
    BY <1>1, <1>4, RoomStepHands
  <1>7. InHandInserted'
    BY <1>1, <1>5, RoomStepHands DEF HandsOK, InHandInserted
  <1>8. FurnishedOK'
    BY <1>1, <1>5, RoomStepHands DEF HandsOK, FurnishedOK, Furnished
  <1>9. OneHand'
    BY <1>1, <1>3, <1>5 DEF HandsOK, OneHand
  <1>10. NotNamedYet'
    BY <1>1, <1>2, <1>4, <1>5, RoomStepHands, NullAssumption DEF RoomsOK, NotNamedYet, Proposal
  <1>11. NamedInserted'
    BY <1>2, <1>6 DEF RoomsOK, NamedInserted, Proposal
  <1>12. AcceptedRoomIsReady'
    BY <1>2, <1>6 DEF RoomsOK, AcceptedRoomIsReady, RoomReady, Proposal
  <1>. QED
    BY <1>7, <1>8, <1>9, <1>10, <1>11, <1>12 DEF RoomsOK, HandsOK

-----------------------------------------------------------------------------
(* The inductive invariant. *)

IInv == TypeInv /\ OnRealListing /\ JudgedOK /\ RoomsOK /\ OnePendingEach

LEMMA Initially == ASSUME Init PROVE IInv
  <1>1. TypeInv
    BY BoundAssumption DEF Init, TypeInv, TypeOK, ReferencesOK, Proposal, IsRow
  <1>2. \A p \in ProposalIds : ~Proposal(p)
    BY DEF Init, Proposal, IsRow
  <1>3. \A r \in Slots : reqs[r] = None
    BY DEF Init
  <1>4. OnRealListing /\ JudgedOK /\ OnePendingEach
    BY <1>2, <1>3 DEF OnRealListing, JudgedOK, Judges, OnePendingEach, IsPending
  <1>5. RoomsOK
    BY <1>2, <1>3 DEF RoomsOK, HandsOK, InHandInserted, FurnishedOK, OneHand, HoldsRoom, Holding,
                      NotNamedYet, NamedInserted, AcceptedRoomIsReady
  <1>. QED
    BY <1>1, <1>4, <1>5 DEF IInv

LEMMA RealListingsKept ==
    ASSUME KeepsParties
    PROVE  OnRealListing'
  <1>1. ASSUME NEW p \in ProposalIds, Proposal(p)'
        PROVE  Listing(proposals[p].listing)'
    BY <1>1 DEF KeepsParties, KeptParties
  <1>. QED
    BY <1>1 DEF OnRealListing

(* Two proposals pending after a step were so before, unless the step      *)
(* inserted one of them, past the index.                                   *)
LEMMA OnePendingKept ==
    ASSUME TypeInv, OnePendingEach, KeepsParties, [Next]_vars
    PROVE  OnePendingEach'
  <1>1. CASE NoNewPending
    <2>1. ASSUME NEW p \in ProposalIds, IsPending(p)'
          PROVE  /\ IsPending(p)
                 /\ proposals'[p].listing = proposals[p].listing
                 /\ proposals'[p].user = proposals[p].user
      <3>1. KeptParties(p) /\ IsPending(p) /\ Proposal(p)' /\ proposals[p] # None
        BY <1>1, <2>1 DEF NoNewPending, KeepsParties, IsPending, Proposal, IsRow
      <3>. QED
        BY <3>1 DEF KeptParties
    <2>. QED
      BY <2>1 DEF OnePendingEach
  <1>2. ASSUME NEW r \in Slots, NEW p \in ProposalIds, InsertProposal(r, p)
        PROVE  OnePendingEach'
    <2> DEFINE new == [listing |-> reqs[r].on, user |-> reqs[r].user, status |-> "pending",
                       room |-> None, give |-> {}, get |-> {}]
    <2>1. proposals'[p] = new /\ \A j \in ProposalIds \ {p} : proposals'[j] = proposals[j]
      BY <1>2 DEF InsertProposal, TypeInv, TypeOK
    <2>2. \A j \in ProposalIds \ {p} : IsPending(j)' => IsPending(j)
      BY <2>1 DEF IsPending, Proposal
    <2>3. \A j \in ProposalIds : IsPending(j) /\ proposals[j].user = reqs[r].user
            => proposals[j].listing # reqs[r].on
      BY <1>2 DEF InsertProposal, IndexAdmits, PendingProposalsOf
    <2>. QED
      BY <2>1, <2>2, <2>3 DEF OnePendingEach
  <1>. QED
    BY <1>1, <1>2, StepKeepsAnswers

LEMMA NextKeeps ==
    ASSUME IInv, Next
    PROVE  IInv'
  <1> USE DEF IInv
  <1>1. InHandInserted /\ HandsOK
    BY DEF RoomsOK, HandsOK
  <1>2. KeepsParties => OnRealListing' /\ OnePendingEach'
    BY RealListingsKept, OnePendingKept
  <1>3. ASSUME NEW r \in Slots, NEW user \in Users, NewRequest(r, user)
        PROVE  IInv'
    <2>1. KeepsParties /\ NamesKept
      BY <1>3, NewRequestKeepsTables, SameTablesKeepParties
    <2>. QED
      BY <1>2, <1>3, <2>1, NewRequestKeepsTypes, NewRequestKeepsHands, NewRequestKeepsJudged,
         RoomsFrame
  <1>4. ASSUME NEW r \in Slots, ReadStep(r)
        PROVE  IInv'
    <2>1. KeepsParties /\ NamesKept
      BY <1>4, ReadStepKeepsTables, SameTablesKeepParties
    <2>. QED
      BY <1>2, <1>4, <2>1, ReadStepsKeepTypes, ReadStepKeepsHands, HandlerStepKeepsCases,
         CasesKeepJudged, RoomsFrame
  <1>5. ASSUME NEW r \in Slots, NEW l \in ListingIds, ListingStep(r, l)
        PROVE  IInv'
    BY <1>2, <1>5, ListingStepsKeepTypes, ListingStepKeepsHands, ListingStepKeepsParties,
       HandlerStepKeepsCases, CasesKeepJudged, RoomsFrame
  <1>6. ASSUME NEW l \in ListingIds, Expire(l)
        PROVE  IInv'
    <2>1. HandsKept /\ rooms' = rooms /\ reqs' = reqs
      BY <1>6 DEF Expire, HandsKept, HoldsRoom
    <2>. QED
      BY <1>2, <1>6, <2>1, ExpireKeepsTypes, ExpireKeepsParties, SameRequestsKeepCases,
         CasesKeepJudged, RoomsFrame
  <1>7. ASSUME NEW r \in Slots, NEW p \in ProposalIds, ProposalStep(r, p)
        PROVE  IInv'
    <2>1. TypeInv' /\ JudgedOK' /\ OnRealListing' /\ OnePendingEach'
      BY <1>2, <1>7, ProposalStepsKeepTypes, ProposalStepKeepsParties, HandlerStepKeepsCases,
         CasesKeepJudged
    <2>2. CASE Answer(r)
      BY <1>7, <2>1, <2>2, ProposalStepKeepsHands, ProposalStepKeepsParties, AnswerKeepsRooms
    <2>3. CASE ~Answer(r)
      <3>1. NamesKept
        BY <1>7, <2>3, OtherStepsKeepNames
      <3>. QED
        BY <1>7, <2>1, <3>1, ProposalStepKeepsHands, ProposalStepKeepsParties, RoomsFrame
    <2>. QED
      BY <2>2, <2>3
  <1>8. ASSUME NEW r \in Slots, NEW k \in RoomIds, RoomStep(r, k)
        PROVE  IInv'
    <2>1. KeepsParties
      BY <1>8, RoomStepKeepsTables, SameTablesKeepParties
    <2>. QED
      BY <1>1, <1>2, <1>8, <2>1, RoomStepsKeepTypes, HandlerStepKeepsCases, CasesKeepJudged,
         RoomStepKeepsRooms
  <1>. QED
    BY <1>3, <1>4, <1>5, <1>6, <1>7, <1>8, StepCases

LEMMA IInvInvariant == Spec => []IInv
  <1>1. Init => IInv
    BY Initially
  <1>2. IInv /\ [Next]_vars => IInv'
    <2>1. ASSUME IInv, UNCHANGED vars
          PROVE  IInv'
      BY <2>1 DEF vars, IInv, TypeInv, TypeOK, ReferencesOK, Proposal, OnRealListing, Listing,
                  JudgedOK, Judged, RoomsOK, HandsOK, InHandInserted, FurnishedOK, Furnished,
                  OneHand, HoldsRoom, NotNamedYet, NamedInserted, AcceptedRoomIsReady, RoomReady,
                  OnePendingEach, IsPending
    <2>. QED
      BY <2>1, NextKeeps
  <1>. QED
    BY <1>1, <1>2, PTL DEF Spec

-----------------------------------------------------------------------------
(* What follows. *)

(* The rows keep their columns' types through every interleaving, and only *)
(* an accepted proposal has a room code.                                   *)
THEOREM BlockTypeCorrect == Spec => []TypeOK
  <1>1. IInv => TypeOK
    BY DEF IInv, TypeInv
  <1>. QED
    BY <1>1, IInvInvariant, PTL

(* A proposal's answer and room never change once given, whoever answers   *)
(* at the same time: the update's own test of the status decides.          *)
THEOREM AnsweredOnce == Spec => DecidedOnce
  <1>1. IInv /\ [Next]_vars => AnswersKept
    BY StepKeepsAnswers DEF IInv
  <1>2. AnswersKept =>
            \A p \in ProposalIds :
                Proposal(p) /\ Proposal(p)' /\ proposals[p].status # "pending"
                    => /\ proposals'[p].status = proposals[p].status
                       /\ proposals'[p].room = proposals[p].room
    BY DEF AnswersKept, AnswerKept
  <1>. QED
    BY <1>1, <1>2, IInvInvariant, PTL DEF Spec, DecidedOnce

(* No two decisions name one room, and the room a proposal names is        *)
(* furnished for its lister and its proposer, however many handlers decide *)
(* at once and wherever they stop.                                         *)
THEOREM RoomsAreReady == Spec => []AcceptedRoomIsReady
  <1>1. IInv => AcceptedRoomIsReady
    BY DEF IInv, RoomsOK
  <1>. QED
    BY <1>1, IInvInvariant, PTL

(* Two requests that both found none pending do not both insert.           *)
THEOREM OnePendingProposal == Spec => []OnePendingEach
  <1>1. IInv => OnePendingEach
    BY DEF IInv
  <1>. QED
    BY <1>1, IInvInvariant, PTL

-----------------------------------------------------------------------------
(* Requests on their way, from one statement to the next. *)

(* A step keeps a listing that was inserted, or deletes it.                *)
KeptListing(l) ==
    /\ listings[l] # None => listings'[l] # None
    /\ Listing(l)' /\ listings[l] # None =>
        Listing(l) /\ listings'[l].user = listings[l].user

KeepsListings == \A l \in ListingIds : KeptListing(l)

(* What a request's caller was when it was admitted, he still is: the      *)
(* author of what he closes or withdraws and not of what he proposes on;   *)
(* and the row he inserted is there, or has been.                          *)
Says(q) ==
    /\ q.pc = "offers" => listings[q.row] # None
    /\ q.pc = "lines" => proposals[q.row] # None
    /\ q.pc \in {"close", "decline"} =>
        listings[q.on] # None /\ (Listing(q.on) => q.user = listings[q.on].user)
    /\ q.pc \in {"terms", "count", "propose"} =>
        listings[q.on] # None /\ (Listing(q.on) => q.user # listings[q.on].user)
    /\ q.pc = "withdraw" =>
        proposals[q.on] # None /\ (Proposal(q.on) => q.user = proposals[q.on].user)

SaysOK == \A r \in Slots : reqs[r] # None => Says(reqs[r])

(* A handler goes on as q with what it was asked, or ends.                 *)
Continues(old, q) ==
    \/ q = None
    \/ /\ q \in Requests
       /\ q.on = old.on /\ q.user = old.user /\ q.accept = old.accept
       /\ q.pc \in {"close", "decline"} => old.pc \in {"close", "decline"}
       /\ q.pc \in {"terms", "count", "propose"} => old.pc \in {"terms", "count", "propose"}
       /\ q.pc \in Deciding => old.pc \in Deciding
       /\ q.pc # "withdraw"

ContinuesAs(r, q) ==
    /\ reqs[r] \in Requests
    /\ reqs' = [reqs EXCEPT ![r] = q]
    /\ Continues(reqs[r], q)

LEMMA EndContinues ==
    ASSUME NEW r \in Slots, reqs[r] \in Requests, End(r)
    PROVE  ContinuesAs(r, None)
  BY DEF End, ContinuesAs, Continues

LEMMA GotoContinues ==
    ASSUME NEW r \in Slots, reqs[r] \in Requests,
           NEW pc \in {"list", "decline", "count", "propose", "room", "sideB", "building", "answer"},
           Goto(r, pc),
           pc = "decline" => reqs[r].pc = "close",
           pc \in {"count", "propose"} => reqs[r].pc \in {"terms", "count"},
           pc \in Deciding => reqs[r].pc \in Deciding
    PROVE  \E q : ContinuesAs(r, q) /\ q.pc = pc
  <1>1. PICK q : q = [reqs[r] EXCEPT !.pc = pc]
    OBVIOUS
  <1>2. q \in Requests /\ q.pc = pc /\ q.on = reqs[r].on /\ q.user = reqs[r].user
    BY <1>1 DEF Requests
  <1>3. q.accept = reqs[r].accept
    BY <1>1 DEF Requests
  <1>4. reqs' = [reqs EXCEPT ![r] = q]
    BY <1>1 DEF Goto
  <1>. QED
    BY <1>2, <1>3, <1>4 DEF ContinuesAs, Continues, Deciding

LEMMA InsertedContinues ==
    ASSUME NEW r \in Slots, reqs[r] \in Requests,
           NEW id \in ListingIds \cup ProposalIds \cup RoomIds,
           NEW pc \in {"offers", "lines", "sideA"}, Inserted(r, id, pc),
           pc = "sideA" => reqs[r].pc = "room"
    PROVE  \E q : ContinuesAs(r, q) /\ q.pc = pc /\ q.row = id
  <1>1. PICK q : q = [reqs[r] EXCEPT !.row = id, !.pc = pc]
    OBVIOUS
  <1>2. /\ q \in Requests /\ q.pc = pc /\ q.row = id /\ q.on = reqs[r].on
        /\ q.user = reqs[r].user
    BY <1>1 DEF Requests
  <1>3. q.accept = reqs[r].accept
    BY <1>1 DEF Requests
  <1>4. reqs' = [reqs EXCEPT ![r] = q]
    BY <1>1 DEF Inserted
  <1>. QED
    BY <1>2, <1>3, <1>4 DEF ContinuesAs, Continues, Deciding

(* Every statement but the first is somebody's who goes on or ends, and a  *)
(* row it goes on with has been inserted.                                  *)
LEMMA HandlerContinues ==
    ASSUME TypeInv, NEW r \in Slots, NEW l \in ListingIds \cup {None},
           NEW p \in ProposalIds \cup {None}, NEW k \in RoomIds \cup {None},
           \/ ReadStep(r) \/ (l # None /\ ListingStep(r, l))
           \/ (p # None /\ ProposalStep(r, p)) \/ (k # None /\ RoomStep(r, k))
    PROVE  \E q : /\ ContinuesAs(r, q)
                  /\ q # None /\ q.pc = "offers" => listings'[q.row] # None
                  /\ q # None /\ q.pc = "lines" => proposals'[q.row] # None
  <1> USE RowFacts
  <1>1. CASE \/ Fail(r) \/ InsertOffers(r) \/ UndoListing(r) \/ DeclinePending(r)
             \/ InsertLines(r) \/ UndoProposal(r) \/ Answer(r) \/ Withdraw(r)
    <2>1. reqs[r] \in Requests /\ End(r)
      BY <1>1 DEF Fail, InsertOffers, UndoListing, DeclinePending, InsertLines, UndoProposal,
                  Answer, Withdraw, At, TypeInv, TypeOK
    <2>. QED
      BY <2>1, EndContinues
  <1>2. CASE \/ CheckDuplicates(r) \/ CloseListing(r) \/ CheckTerms(r) \/ CountPending(r)
             \/ JudgeLines(r) \/ AddSideA(r) \/ AddSideB(r) \/ StartBuilding(r)
    <2>1. reqs[r] \in Requests
      BY <1>2 DEF CheckDuplicates, CloseListing, CheckTerms, CountPending, JudgeLines, AddSideA,
                  AddSideB, StartBuilding, At, TypeInv, TypeOK
    <2>2. \E pc \in {"list", "decline", "count", "propose", "room", "sideB", "building", "answer"} :
              /\ Goto(r, pc)
              /\ pc = "decline" => reqs[r].pc = "close"
              /\ pc \in {"count", "propose"} => reqs[r].pc \in {"terms", "count"}
              /\ pc \in Deciding => reqs[r].pc \in Deciding
      BY <1>2 DEF CheckDuplicates, CloseListing, CheckTerms, CountPending, JudgeLines, AddSideA,
                  AddSideB, StartBuilding, At, Deciding
    <2>. QED
      BY <2>1, <2>2, GotoContinues
  <1>3. CASE ReadMine(r)
    <2>1. reqs[r] \in Requests
      BY <1>3 DEF ReadMine, At, TypeInv, TypeOK
    <2>2. OpenListingsOf(reqs[r].user) \subseteq ListingIds
      BY DEF OpenListingsOf
    <2>3. PICK q : q = [reqs[r] EXCEPT !.seen = OpenListingsOf(reqs[r].user),
                                      !.pc = "duplicates"]
      OBVIOUS
    <2>4. /\ q \in Requests /\ q.pc = "duplicates" /\ q.on = reqs[r].on
          /\ q.user = reqs[r].user
      BY <2>1, <2>2, <2>3 DEF Requests
    <2>5. q.accept = reqs[r].accept
      BY <2>1, <2>3 DEF Requests
    <2>6. reqs' = [reqs EXCEPT ![r] = q]
      BY <1>3, <2>3 DEF ReadMine
    <2>. QED
      BY <2>1, <2>4, <2>5, <2>6 DEF ContinuesAs, Continues, Deciding
  <1>4. CASE l # None /\ InsertListing(r, l)
    <2>1. /\ reqs[r] \in Requests /\ Inserted(r, l, "offers") /\ l \in ListingIds
      BY <1>4 DEF InsertListing, At, TypeInv, TypeOK
    <2>2. [user |-> reqs[r].user, status |-> "open", offers |-> {}, expired |-> FALSE]
            \in ListingRows
      BY <2>1 DEF Requests, ListingRows
    <2>3. listings'[l] # None
      BY <1>4, <2>1, <2>2, NullAssumption DEF InsertListing, TypeInv, TypeOK
    <2>. QED
      BY <2>1, <2>3, InsertedContinues
  <1>5. CASE p # None /\ InsertProposal(r, p)
    <2>1. /\ reqs[r] \in Requests /\ Inserted(r, p, "lines") /\ p \in ProposalIds
          /\ reqs[r].on \in ListingIds
      BY <1>5 DEF InsertProposal, At, TypeInv, TypeOK, ReferencesOK, Refers
    <2>2. [listing |-> reqs[r].on, user |-> reqs[r].user, status |-> "pending",
           room |-> None, give |-> {}, get |-> {}] \in ProposalRows
      BY <2>1 DEF Requests, ProposalRows
    <2>3. proposals'[p] # None
      BY <1>5, <2>1, <2>2, NullAssumption DEF InsertProposal, TypeInv, TypeOK
    <2>. QED
      BY <2>1, <2>3, InsertedContinues
  <1>6. CASE k # None /\ CreateRoom(r, k)
    <2>1. /\ reqs[r] \in Requests /\ Inserted(r, k, "sideA") /\ k \in RoomIds
          /\ reqs[r].pc = "room"
      BY <1>6 DEF CreateRoom, At, TypeInv, TypeOK
    <2>. QED
      BY <2>1, InsertedContinues
  <1>. QED
    BY <1>1, <1>2, <1>3, <1>4, <1>5, <1>6 DEF ReadStep, ListingStep, ProposalStep, RoomStep

LEMMA OneListingKept ==
    ASSUME NEW k \in ListingIds, \A j \in ListingIds \ {k} : listings'[j] = listings[j],
           listings[k] # None => listings'[k] # None,
           Listing(k)' /\ listings[k] # None =>
                Listing(k) /\ listings'[k].user = listings[k].user
    PROVE  KeepsListings
  BY DEF KeepsListings, KeptListing, Listing, IsRow

LEMMA SameListingsKept ==
    ASSUME listings' = listings
    PROVE  KeepsListings
  BY DEF KeepsListings, KeptListing, Listing

LEMMA ListingStepKeepsListings ==
    ASSUME TypeInv, NEW r \in Slots, NEW l \in ListingIds, ListingStep(r, l) \/ Expire(l)
    PROVE  KeepsListings
  <1> USE RowFacts DEF TypeInv, TypeOK
  <1>1. ASSUME NEW k \in ListingIds, listings[k] \in ListingRows, NEW row \in ListingRows,
               row.user = listings[k].user, listings' = [listings EXCEPT ![k] = row]
        PROVE  KeepsListings
    <2>1. listings'[k] = row /\ \A j \in ListingIds \ {k} : listings'[j] = listings[j]
      BY <1>1
    <2>2. row # None /\ Listing(k)
      BY <1>1, NullAssumption DEF Listing
    <2>. QED
      BY <1>1, <2>1, <2>2, OneListingKept
  <1>2. CASE Expire(l)
    <2>1. listings[l] \in ListingRows
      BY <1>2 DEF Expire, Listing
    <2>2. PICK row : row = [listings[l] EXCEPT !.expired = TRUE]
      OBVIOUS
    <2>3. row \in ListingRows /\ row.user = listings[l].user
      BY <2>1, <2>2 DEF ListingRows
    <2>4. listings' = [listings EXCEPT ![l] = row]
      BY <1>2, <2>2 DEF Expire
    <2>. QED
      BY <1>1, <2>1, <2>3, <2>4
  <1>3. CASE InsertListing(r, l)
    <2>1. listings[l] = None /\ \A j \in ListingIds \ {l} : listings'[j] = listings[j]
      BY <1>3 DEF InsertListing
    <2>. QED
      BY <2>1, OneListingKept
  <1>4. CASE InsertOffers(r)
    <2>1. reqs[r] \in Requests /\ reqs[r].row \in ListingIds
      BY <1>4 DEF InsertOffers, At, ReferencesOK, Refers
    <2>2. listings[reqs[r].row] \in ListingRows
      BY <1>4, <2>1 DEF InsertOffers, Listing
    <2>3. PICK row : row = [listings[reqs[r].row] EXCEPT !.offers = reqs[r].give]
      OBVIOUS
    <2>4. row \in ListingRows /\ row.user = listings[reqs[r].row].user
      BY <2>1, <2>2, <2>3 DEF ListingRows, Requests
    <2>5. listings' = [listings EXCEPT ![reqs[r].row] = row]
      BY <1>4, <2>3 DEF InsertOffers
    <2>. QED
      BY <1>1, <2>1, <2>2, <2>4, <2>5
  <1>5. CASE UndoListing(r)
    <2>1. reqs[r].row \in ListingIds
      BY <1>5 DEF UndoListing, At, ReferencesOK, Refers
    <2>2. /\ listings'[reqs[r].row] = Deleted
          /\ \A j \in ListingIds \ {reqs[r].row} : listings'[j] = listings[j]
      BY <1>5, <2>1 DEF UndoListing
    <2>. QED
      BY <2>1, <2>2, OneListingKept, NullAssumption DEF Listing, IsRow
  <1>6. CASE CloseListing(r)
    <2>1. reqs[r].on \in ListingIds
      BY <1>6 DEF CloseListing, At, ReferencesOK, Refers
    <2>2. CASE IsOpen(reqs[r].on)
      <3>1. listings[reqs[r].on] \in ListingRows
        BY <2>1, <2>2 DEF IsOpen, Listing
      <3>2. PICK row : row = [listings[reqs[r].on] EXCEPT !.status = "closed"]
        OBVIOUS
      <3>3. row \in ListingRows /\ row.user = listings[reqs[r].on].user
        BY <3>1, <3>2 DEF ListingRows
      <3>4. listings' = [listings EXCEPT ![reqs[r].on] = row]
        BY <1>6, <2>2, <3>2 DEF CloseListing
      <3>. QED
        BY <1>1, <2>1, <3>1, <3>3, <3>4
    <2>3. CASE ~IsOpen(reqs[r].on)
      BY <1>6, <2>3, SameListingsKept DEF CloseListing
    <2>. QED
      BY <2>2, <2>3
  <1>7. CASE DeclinePending(r)
    BY <1>7, SameListingsKept DEF DeclinePending
  <1>. QED
    BY <1>2, <1>3, <1>4, <1>5, <1>6, <1>7 DEF ListingStep

(* A request says the same before and after a step of another's.           *)
LEMMA SaysTheSame ==
    ASSUME KeepsListings, KeepsParties, NEW q \in Requests, Refers(q), Says(q)
    PROVE  Says(q)'
  <1> USE DEF Says, KeepsListings, KeptListing, KeepsParties, KeptParties, Refers
  <1>1. CASE q.pc = "offers" \/ q.pc \in {"close", "decline"}
                \/ q.pc \in {"terms", "count", "propose"}
    BY <1>1
  <1>2. CASE q.pc \in {"lines", "withdraw"}
    BY <1>2
  <1>. QED
    BY <1>1, <1>2

LEMMA OneMovedSays ==
    ASSUME TypeInv, SaysOK, KeepsListings, KeepsParties, NEW r \in Slots, NEW q,
           reqs' = [reqs EXCEPT ![r] = q], q # None => Says(q)'
    PROVE  SaysOK'
  <1>1. ASSUME NEW s \in Slots, reqs'[s] # None, s # r
        PROVE  Says(reqs[s])'
    <2>1. PICK o : o = reqs[s]
      OBVIOUS
    <2>2. reqs'[s] = o
      BY <1>1, <2>1
    <2>3. o \in Requests /\ Refers(o) /\ Says(o)
      BY <1>1, <2>1, <2>2, RowFacts DEF TypeInv, TypeOK, ReferencesOK, SaysOK
    <2>4. Says(o)'
      BY <2>3, SaysTheSame
    <2>. QED
      BY <2>2, <2>4 DEF Says
  <1>2. reqs'[r] = q
    BY DEF TypeInv, TypeOK
  <1>3. reqs'[r] # None => Says(reqs[r])'
    BY <1>2 DEF Says
  <1>. QED
    BY <1>1, <1>3 DEF SaysOK

(* Who goes on was admitted, or inserted the row he goes on with.          *)
LEMMA ContinuingSays ==
    ASSUME TypeInv, SaysOK, KeepsListings, KeepsParties, NEW r \in Slots, NEW q,
           ContinuesAs(r, q),
           q # None /\ q.pc = "offers" => listings'[q.row] # None,
           q # None /\ q.pc = "lines" => proposals'[q.row] # None
    PROVE  SaysOK'
  <1>1. PICK old : old = reqs[r]
    OBVIOUS
  <1>2. old \in Requests /\ Refers(old) /\ Says(old) /\ Continues(old, q)
    BY <1>1, RowFacts DEF ContinuesAs, TypeInv, ReferencesOK, SaysOK
  <1>3. Says(old)'
    BY <1>2, SaysTheSame
  <1>4. q # None => Says(q)'
    BY <1>2, <1>3 DEF Says, Continues
  <1>. QED
    BY <1>4, OneMovedSays DEF ContinuesAs

LEMMA NewRequestSays ==
    ASSUME TypeInv, OnRealListing, SaysOK, NEW r \in Slots, NEW user \in Users, NewRequest(r, user)
    PROVE  SaysOK'
  <1>1. /\ listings' = listings /\ proposals' = proposals
        /\ KeepsListings /\ KeepsParties
    BY NewRequestKeepsTables, SameListingsKept, SameTablesKeepParties
  <1>2. ASSUME NEW q, Start(r, q), Says(q)
        PROVE  SaysOK'
    <2>1. Says(q)'
      BY <1>1, <1>2 DEF Says, Listing, Proposal
    <2>. QED
      BY <1>1, <1>2, <2>1, OneMovedSays DEF Start
  <1>3. ASSUME NEW offers \in Bundles, StartCreate(r, user, offers)
        PROVE  SaysOK'
    <2>1. PICK q : q = Request(user, None, offers, {}, "mine")
      OBVIOUS
    <2>2. q.pc = "mine" /\ Start(r, q)
      BY <1>3, <2>1 DEF Request, StartCreate
    <2>. QED
      BY <1>2, <2>2 DEF Says
  <1>4. ASSUME NEW l \in ListingIds, StartClose(r, user, l)
        PROVE  SaysOK'
    <2>1. PICK q : q = Request(user, l, {}, {}, "close")
      OBVIOUS
    <2>2. q.pc = "close" /\ q.on = l /\ q.user = user /\ Start(r, q)
      BY <1>4, <2>1 DEF Request, StartClose
    <2>3. listings[l] # None /\ listings[l].user = user
      BY <1>4 DEF StartClose, IsOpen, Listing, IsRow
    <2>. QED
      BY <1>2, <2>2, <2>3 DEF Says
  <1>5. ASSUME NEW l \in ListingIds, NEW give \in Bundles, NEW get \in Bundles,
               StartPropose(r, user, l, give, get)
        PROVE  SaysOK'
    <2>1. PICK q : q = Request(user, l, give, get, "terms")
      OBVIOUS
    <2>2. q.pc = "terms" /\ q.on = l /\ q.user = user /\ Start(r, q)
      BY <1>5, <2>1 DEF Request, StartPropose
    <2>3. listings[l] # None /\ listings[l].user # user
      BY <1>5 DEF StartPropose, IsOpen, Listing, IsRow
    <2>. QED
      BY <1>2, <2>2, <2>3 DEF Says
  <1>6. ASSUME NEW p \in ProposalIds, NEW accept \in BOOLEAN, StartDecide(r, user, p, accept)
        PROVE  SaysOK'
    <2>1. PICK q : q = [Request(user, p, {}, {}, "judge") EXCEPT
                            !.accept = accept, !.peer = proposals[p].user]
      OBVIOUS
    <2>2. q.pc = "judge" /\ Start(r, q)
      BY <1>6, <2>1 DEF Request, StartDecide
    <2>. QED
      BY <1>2, <2>2 DEF Says
  <1>7. ASSUME NEW p \in ProposalIds, StartWithdraw(r, user, p)
        PROVE  SaysOK'
    <2>1. PICK q : q = Request(user, p, {}, {}, "withdraw")
      OBVIOUS
    <2>2. q.pc = "withdraw" /\ q.on = p /\ q.user = user /\ Start(r, q)
      BY <1>7, <2>1 DEF Request, StartWithdraw
    <2>3. proposals[p] # None /\ proposals[p].user = user
      BY <1>7 DEF StartWithdraw, IsPending, Proposal, IsRow
    <2>. QED
      BY <1>2, <2>2, <2>3 DEF Says
  <1>. QED
    BY <1>3, <1>4, <1>5, <1>6, <1>7 DEF NewRequest

RefInv == IInv /\ SaysOK

LEMMA NextKeepsSays ==
    ASSUME RefInv, Next
    PROVE  SaysOK'
  <1> USE DEF RefInv, IInv
  <1>1. ASSUME KeepsListings, KeepsParties, NEW r \in Slots,
               \E l \in ListingIds \cup {None}, p \in ProposalIds \cup {None},
                  k \in RoomIds \cup {None} :
                   \/ ReadStep(r) \/ (l # None /\ ListingStep(r, l))
                   \/ (p # None /\ ProposalStep(r, p)) \/ (k # None /\ RoomStep(r, k))
        PROVE  SaysOK'
    BY <1>1, HandlerContinues, ContinuingSays
  <1>2. ASSUME NEW r \in Slots, NEW user \in Users, NewRequest(r, user)
        PROVE  SaysOK'
    BY <1>2, NewRequestSays
  <1>3. ASSUME NEW r \in Slots, ReadStep(r)
        PROVE  SaysOK'
    BY <1>1, <1>3, ReadStepKeepsTables, SameListingsKept, SameTablesKeepParties
  <1>4. ASSUME NEW r \in Slots, NEW l \in ListingIds, ListingStep(r, l)
        PROVE  SaysOK'
    BY <1>1, <1>4, ListingStepKeepsListings, ListingStepKeepsParties, NullAssumption
  <1>5. ASSUME NEW l \in ListingIds, Expire(l)
        PROVE  SaysOK'
    <2>1. reqs' = reqs /\ proposals' = proposals
      BY <1>5 DEF Expire
    <2>2. ASSUME NEW s \in Slots, reqs'[s] # None
          PROVE  Says(reqs[s])'
      <3>1. PICK r \in Slots : TRUE
        BY <2>2
      <3>2. KeepsListings /\ KeepsParties
        BY <1>5, ListingStepKeepsListings, ExpireKeepsParties
      <3>3. PICK q : q = reqs[s]
        OBVIOUS
      <3>4. reqs' = [reqs EXCEPT ![s] = q]
        BY <2>1, <3>3 DEF TypeInv, TypeOK
      <3>5. q \in Requests /\ Refers(q) /\ Says(q)
        BY <2>1, <2>2, <3>3, RowFacts DEF TypeInv, TypeOK, ReferencesOK, SaysOK
      <3>6. Says(q)'
        BY <3>2, <3>5, SaysTheSame
      <3>7. SaysOK'
        BY <3>2, <3>4, <3>6, OneMovedSays
      <3>. QED
        BY <2>2, <3>7 DEF SaysOK
    <2>. QED
      BY <2>2 DEF SaysOK
  <1>6. ASSUME NEW r \in Slots, NEW p \in ProposalIds, ProposalStep(r, p)
        PROVE  SaysOK'
    <2>1. listings' = listings
      BY <1>6 DEF ProposalStep, InsertProposal, InsertLines, UndoProposal, Answer, Withdraw
    <2>. QED
      BY <1>1, <1>6, <2>1, SameListingsKept, ProposalStepKeepsParties, NullAssumption
  <1>7. ASSUME NEW r \in Slots, NEW k \in RoomIds, RoomStep(r, k)
        PROVE  SaysOK'
    BY <1>1, <1>7, RoomStepKeepsTables, SameListingsKept, SameTablesKeepParties, NullAssumption
  <1>. QED
    BY <1>2, <1>3, <1>4, <1>5, <1>6, <1>7, StepCases

LEMMA RefInvInvariant == Spec => []RefInv
  <1>1. Init => SaysOK
    BY DEF Init, SaysOK
  <1>2. IInv /\ SaysOK /\ [Next]_vars => SaysOK'
    <2>1. ASSUME SaysOK, UNCHANGED vars
          PROVE  SaysOK'
      BY <2>1 DEF vars, SaysOK, Says, Listing, Proposal
    <2>. QED
      BY <2>1, NextKeepsSays DEF RefInv
  <1>. QED
    BY <1>1, <1>2, IInvInvariant, PTL DEF Spec, RefInv

-----------------------------------------------------------------------------
(* The words on their way. *)

LEMMA VerbFacts ==
    ASSUME NEW q
    PROVE  /\ q.pc \in {"close", "decline"} => VerbOf(q) = "close"
           /\ q.pc = "withdraw" => VerbOf(q) = "withdraw"
           /\ q.pc \in Deciding =>
                VerbOf(q) = IF q.accept THEN "accept" ELSE "decline"
           /\ q.pc \notin {"close", "decline", "withdraw"} \cup Deciding => VerbOf(q) = "none"
  BY DEF VerbOf, Deciding

LEMMA WordsOfOneMoved ==
    ASSUME TypeInv, NEW r \in Slots, NEW q, reqs' = [reqs EXCEPT ![r] = q]
    PROVE  /\ Words' \subseteq Words \cup {WordOf(q)}
           /\ q # None /\ VerbOf(q) # "none" => WordOf(q) \in Words'
           /\ q = None \/ VerbOf(q) = "none" => Words' \subseteq Words
           /\ reqs[r] = None => Words \subseteq Words'
  <1>1. /\ reqs'[r] = q /\ \A s \in Slots \ {r} : reqs'[s] = reqs[s]
    BY DEF TypeInv, TypeOK
  <1>2. ASSUME NEW s \in Slots, s # r, reqs[s] # None, VerbOf(reqs[s]) # "none"
        PROVE  WordOf(reqs[s]) \in Words'
    <2>1. reqs'[s] # None /\ VerbOf(reqs'[s]) # "none" /\ WordOf(reqs'[s]) = WordOf(reqs[s])
      BY <1>1, <1>2
    <2>. QED
      BY <2>1 DEF Words, WordOf, VerbOf
  <1>3. ASSUME NEW s \in Slots, s # r, reqs'[s] # None, VerbOf(reqs'[s]) # "none"
        PROVE  WordOf(reqs'[s]) \in Words
    BY <1>1, <1>3 DEF Words
  <1>4. \A word \in Words' : \E s \in Slots :
            reqs'[s] # None /\ VerbOf(reqs'[s]) # "none" /\ word = WordOf(reqs'[s])
    BY DEF Words, WordOf, VerbOf
  <1>5. \A word \in Words : \E s \in Slots :
            reqs[s] # None /\ VerbOf(reqs[s]) # "none" /\ word = WordOf(reqs[s])
    BY DEF Words
  <1>6. q # None /\ VerbOf(q) # "none" => WordOf(q) \in Words'
    <2>1. ASSUME q # None, VerbOf(q) # "none"
          PROVE  \E s \in Slots : /\ reqs'[s] # None /\ VerbOf(reqs'[s]) # "none"
                                  /\ WordOf(q) = WordOf(reqs'[s])
      BY <1>1, <2>1
    <2>. QED
      BY <2>1 DEF Words, WordOf, VerbOf
  <1>7. Words' \subseteq Words \cup {WordOf(q)}
    BY <1>1, <1>3, <1>4
  <1>8. q = None \/ VerbOf(q) = "none" => Words' \subseteq Words
    BY <1>1, <1>3, <1>4
  <1>9. reqs[r] = None => Words \subseteq Words'
    BY <1>2, <1>5
  <1>. QED
    BY <1>6, <1>7, <1>8, <1>9

(* Who goes on says nothing new.                                           *)
LEMMA ContinuingWords ==
    ASSUME TypeInv, NEW r \in Slots, NEW q, ContinuesAs(r, q)
    PROVE  Words' \subseteq Words
  <1> USE DEF ContinuesAs
  <1>1. CASE q = None \/ VerbOf(q) = "none"
    BY <1>1, WordsOfOneMoved
  <1>2. CASE q # None /\ VerbOf(q) # "none"
    <2>1. /\ q.on = reqs[r].on /\ q.user = reqs[r].user /\ q.accept = reqs[r].accept
          /\ q.pc \in {"close", "decline"} => reqs[r].pc \in {"close", "decline"}
          /\ q.pc \in Deciding => reqs[r].pc \in Deciding
          /\ q.pc # "withdraw"
      BY <1>2 DEF Continues
    <2>2. VerbOf(reqs[r]) = VerbOf(q)
      BY <1>2, <2>1, VerbFacts
    <2>3. WordOf(q) = WordOf(reqs[r])
      BY <2>1, <2>2 DEF WordOf
    <2>4. WordOf(reqs[r]) \in Words
      BY <1>2, <2>2, RowFacts DEF Words
    <2>. QED
      BY <2>3, <2>4, WordsOfOneMoved
  <1>. QED
    BY <1>1, <1>2

LEMMA HandlerWords ==
    ASSUME TypeInv, NEW r \in Slots, NEW l \in ListingIds \cup {None},
           NEW p \in ProposalIds \cup {None}, NEW k \in RoomIds \cup {None},
           \/ ReadStep(r) \/ (l # None /\ ListingStep(r, l))
           \/ (p # None /\ ProposalStep(r, p)) \/ (k # None /\ RoomStep(r, k))
    PROVE  Words' \subseteq Words
  BY HandlerContinues, ContinuingWords

-----------------------------------------------------------------------------
(* The block, seen as Offers sees it. *)

LEMMA AuthorFacts ==
    /\ \A row \in ListingRows : AuthorOf(row) = row.user /\ AuthorOf(row) \in Users
    /\ AuthorOf(None) = None /\ AuthorOf(Deleted) = Deleted
    /\ None \notin Users /\ Deleted \notin Users /\ None # Deleted
  BY RowFacts, NullAssumption DEF AuthorOf, IsRow, ListingRows

LEMMA OfferFacts ==
    /\ \A row \in ProposalRows :
        /\ OfferOf(row) = [on |-> row.listing, by |-> row.user, state |-> row.status,
                           meeting |-> row.room]
        /\ OfferOf(row).state = row.status /\ OfferOf(row).on = row.listing
        /\ OfferOf(row).by = row.user /\ OfferOf(row).meeting = row.room
        /\ row.status \notin {"absent", "gone"}
    /\ OfferOf(None) = Abstract!Nothing("absent") /\ OfferOf(None).state = "absent"
    /\ OfferOf(Deleted) = Abstract!Nothing("gone") /\ OfferOf(Deleted).state = "gone"
  BY RowFacts, NullAssumption DEF OfferOf, IsRow, ProposalRows, Abstract!Nothing

LEMMA ListingSeen ==
    ASSUME TypeInv, NEW l \in ListingIds
    PROVE  /\ Listing(l) => /\ listings[l] \in ListingRows
                            /\ AuthorOf(listings[l]) = listings[l].user
                            /\ AuthorOf(listings[l]) \in Users
           /\ listings[l] = None => AuthorOf(listings[l]) = None
           /\ listings[l] # None => AuthorOf(listings[l]) # None
  BY AuthorFacts, RowFacts DEF TypeInv, TypeOK, Listing, IsRow

LEMMA ProposalSeen ==
    ASSUME TypeInv, NEW p \in ProposalIds
    PROVE  /\ Proposal(p) =>
                /\ proposals[p] \in ProposalRows
                /\ OfferOf(proposals[p]).on = proposals[p].listing
                /\ OfferOf(proposals[p]).by = proposals[p].user
                /\ OfferOf(proposals[p]).state = proposals[p].status
                /\ OfferOf(proposals[p]).meeting = proposals[p].room
           /\ Abstract!Standing(p) <=> Proposal(p)
           /\ Abstract!Waiting(p) <=> IsPending(p)
  <1>1. proposals[p] \in ProposalRows \cup {None, Deleted}
    BY DEF TypeInv, TypeOK
  <1>2. Proposal(p) => proposals[p] \in ProposalRows
    BY <1>1, RowFacts DEF Proposal
  <1>3. ~Proposal(p) => OfferOf(proposals[p]).state \in {"absent", "gone"}
    BY <1>1, OfferFacts DEF Proposal, IsRow
  <1>4. Proposal(p) => OfferOf(proposals[p]).state = proposals[p].status
                        /\ proposals[p].status \notin {"absent", "gone"}
    BY <1>2, OfferFacts
  <1>5. Abstract!Standing(p) <=> Proposal(p)
    BY <1>3, <1>4 DEF Abstract!Standing
  <1>6. Abstract!Waiting(p) <=> IsPending(p)
    BY <1>3, <1>4 DEF Abstract!Waiting, IsPending
  <1>. QED
    BY <1>2, <1>5, <1>6, OfferFacts

(* A statement that changes nothing Offers sees.                           *)
LEMMA Forgets ==
    ASSUME Words' \subseteq Words, rooms' = rooms,
           \A l \in ListingIds : AuthorOf(listings'[l]) = AuthorOf(listings[l]),
           \A p \in ProposalIds : OfferOf(proposals'[p]) = OfferOf(proposals[p])
    PROVE  Abstract!Forget
  BY DEF Abstract!Forget, Abstract!NoNewWord

LEMMA SameTablesForget ==
    ASSUME Words' \subseteq Words, UNCHANGED <<listings, proposals, rooms>>
    PROVE  Abstract!Forget
  BY Forgets

(* A request that begins.                                                  *)
LEMMA AskingWords ==
    ASSUME TypeInv, NEW r \in Slots, NEW q \in Requests, Start(r, q)
    PROVE  /\ VerbOf(q) = "none" => Words' \subseteq Words
           /\ VerbOf(q) # "none" => Words' = Words \cup {WordOf(q)}
  <1>1. reqs' = [reqs EXCEPT ![r] = q] /\ reqs[r] = None /\ q # None
    BY RowFacts DEF Start
  <1>. QED
    BY <1>1, WordsOfOneMoved

LEMMA Asks ==
    ASSUME NEW who, NEW verb, NEW on, UNCHANGED <<listings, proposals, rooms>>,
           Words' = Words \cup {[who |-> who, verb |-> verb, on |-> on]}
    PROVE  Abstract!Ask(Abstract!Word(who, verb, on))
  BY DEF Abstract!Ask, Abstract!Word

LEMMA NewRequestFollows ==
    ASSUME TypeInv, NEW r \in Slots, NEW user \in Users, NewRequest(r, user)
    PROVE  Abstract!Next
  <1>1. UNCHANGED <<listings, proposals, rooms>>
    BY NewRequestKeepsTables
  <1>2. ASSUME NEW q \in Requests, Start(r, q), VerbOf(q) = "none"
        PROVE  Abstract!Next
    BY <1>1, <1>2, AskingWords, SameTablesForget DEF Abstract!Next
  <1>3. ASSUME NEW offers \in Bundles, StartCreate(r, user, offers)
        PROVE  Abstract!Next
    <2>1. PICK q : q = Request(user, None, offers, {}, "mine")
      OBVIOUS
    <2>2. q \in Requests /\ q.pc = "mine" /\ Start(r, q)
      BY <1>3, <2>1, MomentAssumption, RequestFacts DEF StartCreate
    <2>. QED
      BY <1>2, <2>2, VerbFacts DEF Deciding
  <1>4. ASSUME NEW l \in ListingIds, NEW give \in Bundles, NEW get \in Bundles,
               StartPropose(r, user, l, give, get)
        PROVE  Abstract!Next
    <2>1. PICK q : q = Request(user, l, give, get, "terms")
      OBVIOUS
    <2>2. q \in Requests /\ q.pc = "terms" /\ Start(r, q)
      BY <1>4, <2>1, MomentAssumption, RequestFacts DEF StartPropose
    <2>. QED
      BY <1>2, <2>2, VerbFacts DEF Deciding
  <1>5. ASSUME NEW l \in ListingIds, StartClose(r, user, l)
        PROVE  Abstract!Next
    <2>1. PICK q : q = Request(user, l, {}, {}, "close")
      OBVIOUS
    <2>2. /\ q \in Requests /\ q.pc = "close" /\ Start(r, q)
          /\ q.user = user /\ q.on = l
      BY <1>5, <2>1, RequestFacts DEF StartClose
    <2>3. Words' = Words \cup {[who |-> user, verb |-> "close", on |-> l]}
      BY <2>2, VerbFacts, AskingWords DEF WordOf
    <2>4. AuthorOf(listings[l]) = user
      BY <1>5, ListingSeen DEF StartClose, IsOpen
    <2>5. Abstract!AskClose(l)
      BY <1>1, <2>3, <2>4, Asks DEF Abstract!AskClose
    <2>. QED
      BY <2>5 DEF Abstract!Next
  <1>6. ASSUME NEW p \in ProposalIds, NEW accept \in BOOLEAN, StartDecide(r, user, p, accept)
        PROVE  Abstract!Next
    <2>1. PICK q : q = [Request(user, p, {}, {}, "judge") EXCEPT
                            !.accept = accept, !.peer = proposals[p].user]
      OBVIOUS
    <2>2. Proposal(p) /\ proposals[p] \in ProposalRows
      BY <1>6, ProposalSeen DEF StartDecide, IsPending
    <2>3. /\ q \in Requests /\ q.pc = "judge"
          /\ q.user = user /\ q.on = p
      BY <2>1, <2>2 DEF Request, Requests, ProposalRows
    <2>4. q.accept = accept
      BY <2>1 DEF Request
    <2>5. Start(r, q)
      BY <1>6, <2>1 DEF StartDecide
    <2>6. PICK verb \in {"accept", "decline"} : VerbOf(q) = verb
      BY <2>3, VerbFacts DEF Deciding
    <2>7. Words' = Words \cup {[who |-> user, verb |-> verb, on |-> p]}
      BY <2>3, <2>5, <2>6, AskingWords DEF WordOf
    <2>8. /\ proposals[p].listing \in ListingIds
          /\ AuthorOf(listings[proposals[p].listing]) = user
      BY <1>6, <2>2, ListingSeen DEF StartDecide, ProposalRows
    <2>9. Abstract!AskAnswer(p, verb)
      BY <1>1, <1>6, <2>2, <2>7, <2>8, Asks, ProposalSeen
      DEF Abstract!AskAnswer, StartDecide
    <2>. QED
      BY <2>9 DEF Abstract!Next
  <1>7. ASSUME NEW p \in ProposalIds, StartWithdraw(r, user, p)
        PROVE  Abstract!Next
    <2>1. PICK q : q = Request(user, p, {}, {}, "withdraw")
      OBVIOUS
    <2>2. /\ q \in Requests /\ q.pc = "withdraw" /\ Start(r, q)
          /\ q.user = user /\ q.on = p
      BY <1>7, <2>1, RequestFacts DEF StartWithdraw
    <2>3. Words' = Words \cup {[who |-> user, verb |-> "withdraw", on |-> p]}
      BY <2>2, VerbFacts, AskingWords DEF WordOf
    <2>4. OfferOf(proposals[p]).by = user /\ Abstract!Waiting(p)
      BY <1>7, ProposalSeen DEF StartWithdraw, IsPending
    <2>5. Abstract!AskWithdraw(p)
      BY <1>1, <2>3, <2>4, Asks DEF Abstract!AskWithdraw
    <2>. QED
      BY <2>5 DEF Abstract!Next
  <1>. QED
    BY <1>3, <1>4, <1>5, <1>6, <1>7 DEF NewRequest

(* create and close.                                                       *)
LEMMA SameAuthor ==
    ASSUME NEW k \in ListingIds, \A j \in ListingIds \ {k} : listings'[j] = listings[j],
           AuthorOf(listings'[k]) = AuthorOf(listings[k]),
           Words' \subseteq Words, proposals' = proposals, rooms' = rooms
    PROVE  Abstract!Forget
  BY Forgets

LEMMA ListingChangeForgets ==
    ASSUME TypeInv, NEW l \in ListingIds, Words' \subseteq Words,
           \/ Expire(l)
           \/ \E r \in Slots : InsertOffers(r) \/ CloseListing(r)
    PROVE  Abstract!Forget
  <1> USE RowFacts DEF TypeInv, TypeOK
  <1>1. ASSUME NEW k \in ListingIds, listings[k] \in ListingRows, NEW row \in ListingRows,
               row.user = listings[k].user, listings' = [listings EXCEPT ![k] = row],
               proposals' = proposals, rooms' = rooms
        PROVE  Abstract!Forget
    <2>1. listings'[k] = row /\ \A j \in ListingIds \ {k} : listings'[j] = listings[j]
      BY <1>1
    <2>2. AuthorOf(listings'[k]) = AuthorOf(listings[k])
      BY <1>1, <2>1, AuthorFacts
    <2>. QED
      BY <1>1, <2>1, <2>2, SameAuthor
  <1>2. CASE Expire(l)
    <2>1. listings[l] \in ListingRows
      BY <1>2 DEF Expire, Listing
    <2>2. PICK row : row = [listings[l] EXCEPT !.expired = TRUE]
      OBVIOUS
    <2>3. row \in ListingRows /\ row.user = listings[l].user
      BY <2>1, <2>2 DEF ListingRows
    <2>4. listings' = [listings EXCEPT ![l] = row] /\ proposals' = proposals /\ rooms' = rooms
      BY <1>2, <2>2 DEF Expire
    <2>. QED
      BY <1>1, <2>1, <2>3, <2>4
  <1>3. ASSUME NEW r \in Slots, InsertOffers(r)
        PROVE  Abstract!Forget
    <2>1. reqs[r] \in Requests /\ reqs[r].row \in ListingIds
      BY <1>3 DEF InsertOffers, At, ReferencesOK, Refers
    <2>2. listings[reqs[r].row] \in ListingRows
      BY <1>3, <2>1 DEF InsertOffers, Listing
    <2>3. PICK row : row = [listings[reqs[r].row] EXCEPT !.offers = reqs[r].give]
      OBVIOUS
    <2>4. row \in ListingRows /\ row.user = listings[reqs[r].row].user
      BY <2>1, <2>2, <2>3 DEF ListingRows, Requests
    <2>5. /\ listings' = [listings EXCEPT ![reqs[r].row] = row]
          /\ proposals' = proposals /\ rooms' = rooms
      BY <1>3, <2>3 DEF InsertOffers
    <2>. QED
      BY <1>1, <2>1, <2>2, <2>4, <2>5
  <1>4. ASSUME NEW r \in Slots, CloseListing(r)
        PROVE  Abstract!Forget
    <2>1. reqs[r].on \in ListingIds
      BY <1>4 DEF CloseListing, At, ReferencesOK, Refers
    <2>2. CASE IsOpen(reqs[r].on)
      <3>1. listings[reqs[r].on] \in ListingRows
        BY <2>1, <2>2 DEF IsOpen, Listing
      <3>2. PICK row : row = [listings[reqs[r].on] EXCEPT !.status = "closed"]
        OBVIOUS
      <3>3. row \in ListingRows /\ row.user = listings[reqs[r].on].user
        BY <3>1, <3>2 DEF ListingRows
      <3>4. /\ listings' = [listings EXCEPT ![reqs[r].on] = row]
            /\ proposals' = proposals /\ rooms' = rooms
        BY <1>4, <2>2, <3>2 DEF CloseListing
      <3>. QED
        BY <1>1, <2>1, <3>1, <3>3, <3>4
    <2>3. CASE ~IsOpen(reqs[r].on)
      BY <1>4, <2>3, SameTablesForget DEF CloseListing
    <2>. QED
      BY <2>2, <2>3
  <1>. QED
    BY <1>2, <1>3, <1>4

LEMMA InsertListingPosts ==
    ASSUME TypeInv, NEW r \in Slots, NEW l \in ListingIds, InsertListing(r, l),
           Words' \subseteq Words
    PROVE  \E u \in Users : Abstract!Post(l, u)
  <1>1. reqs[r] \in Requests
    BY RowFacts DEF InsertListing, At, TypeInv, TypeOK
  <1>2. PICK row : row = [user |-> reqs[r].user, status |-> "open", offers |-> {},
                          expired |-> FALSE]
    OBVIOUS
  <1>3. row \in ListingRows /\ row.user = reqs[r].user
    BY <1>1, <1>2 DEF Requests, ListingRows
  <1>4. /\ listings[l] = None /\ listings' = [listings EXCEPT ![l] = row]
        /\ proposals' = proposals /\ rooms' = rooms
    BY <1>2 DEF InsertListing
  <1>5. /\ listings'[l] = row /\ \A j \in ListingIds \ {l} : listings'[j] = listings[j]
    BY <1>4 DEF TypeInv, TypeOK
  <1>6. PICK u \in Users : u = row.user
    BY <1>1, <1>3 DEF Requests
  <1>7. AuthorOf(listings'[l]) = u /\ AuthorOf(listings[l]) = None
    BY <1>3, <1>4, <1>5, <1>6, AuthorFacts
  <1>8. [j \in ListingIds |-> AuthorOf(listings'[j])] =
            [[j \in ListingIds |-> AuthorOf(listings[j])] EXCEPT ![l] = u]
    BY <1>5, <1>7
  <1>9. Abstract!Post(l, u)
    BY <1>4, <1>7, <1>8 DEF Abstract!Post, Abstract!NoNewWord
  <1>. QED
    BY <1>9

LEMMA UndoListingRemoves ==
    ASSUME TypeInv, SaysOK, NEW r \in Slots, UndoListing(r), Words' \subseteq Words
    PROVE  \E l \in ListingIds : Abstract!Remove(l)
  <1>1. PICK l \in ListingIds : l = reqs[r].row /\ listings[l] # None
    BY DEF UndoListing, At, TypeInv, ReferencesOK, Refers, SaysOK, Says
  <1>2. /\ listings'[l] = Deleted /\ \A j \in ListingIds \ {l} : listings'[j] = listings[j]
        /\ rooms' = rooms
    BY <1>1 DEF UndoListing, TypeInv, TypeOK
  <1>3. AuthorOf(listings'[l]) = Deleted /\ AuthorOf(listings[l]) # None
    BY <1>1, <1>2, AuthorFacts, ListingSeen
  <1>4. [j \in ListingIds |-> AuthorOf(listings'[j])] =
            [[j \in ListingIds |-> AuthorOf(listings[j])] EXCEPT ![l] = Deleted]
    BY <1>2, <1>3
  <1>5. ASSUME NEW p \in ProposalIds
        PROVE  OfferOf(proposals'[p]) =
                    IF Abstract!Standing(p) /\ OfferOf(proposals[p]).on = l
                    THEN Abstract!Nothing("gone") ELSE OfferOf(proposals[p])
    <2>1. proposals'[p] = IF Proposal(p) /\ proposals[p].listing = l
                          THEN Deleted ELSE proposals[p]
      BY <1>1 DEF UndoListing
    <2>. QED
      BY <2>1, ProposalSeen, OfferFacts
  <1>6. Abstract!Remove(l)
    BY <1>2, <1>3, <1>4, <1>5 DEF Abstract!Remove, Abstract!NoNewWord
  <1>. QED
    BY <1>6

(* The word of a request that has come to its last statement.              *)
LEMMA WordSaid ==
    ASSUME TypeInv, NEW r \in Slots, reqs[r] # None, VerbOf(reqs[r]) # "none"
    PROVE  Abstract!Word(reqs[r].user, VerbOf(reqs[r]), reqs[r].on) \in Words
  BY DEF Words, WordOf, Abstract!Word

LEMMA DeclinePendingCloses ==
    ASSUME TypeInv, OnRealListing, SaysOK, NEW r \in Slots, DeclinePending(r),
           Words' \subseteq Words
    PROVE  Abstract!Next
  <1>1. PICK l \in ListingIds :
            /\ l = reqs[r].on /\ listings[l] # None
            /\ Listing(l) => reqs[r].user = listings[l].user
    BY DEF DeclinePending, At, TypeInv, ReferencesOK, Refers, SaysOK, Says
  <1>2. listings' = listings /\ rooms' = rooms
    BY DEF DeclinePending
  <1>3. \A p \in ProposalIds :
            proposals'[p] = IF IsPending(p) /\ proposals[p].listing = l
                            THEN [proposals[p] EXCEPT !.status = "declined"] ELSE proposals[p]
    BY <1>1 DEF DeclinePending
  <1>4. CASE Listing(l)
    <2>1. Abstract!Word(AuthorOf(listings[l]), "close", l) \in Words
      <3>1. reqs[r] # None /\ VerbOf(reqs[r]) = "close"
        BY VerbFacts DEF DeclinePending, At
      <3>. QED
        BY <1>1, <1>4, <3>1, WordSaid, ListingSeen
    <2>2. ASSUME NEW p \in ProposalIds
          PROVE  OfferOf(proposals'[p]) =
                    IF Abstract!Waiting(p) /\ OfferOf(proposals[p]).on = l
                    THEN [OfferOf(proposals[p]) EXCEPT !.state = "declined"]
                    ELSE OfferOf(proposals[p])
      <3>1. CASE IsPending(p) /\ proposals[p].listing = l
        <4>1. proposals[p] \in ProposalRows
          BY <3>1, ProposalSeen DEF IsPending
        <4>2. PICK row : row = proposals'[p]
          OBVIOUS
        <4>3. row = [proposals[p] EXCEPT !.status = "declined"]
          BY <1>3, <3>1, <4>2
        <4>4. /\ row \in ProposalRows /\ row.status = "declined" /\ row.user = proposals[p].user
              /\ row.listing = proposals[p].listing /\ row.room = proposals[p].room
          BY <4>1, <4>3 DEF ProposalRows
        <4>5. OfferOf(row) = [OfferOf(proposals[p]) EXCEPT !.state = "declined"]
          BY <4>1, <4>4, OfferFacts
        <4>. QED
          BY <3>1, <4>2, <4>5, ProposalSeen DEF IsPending
      <3>2. CASE ~(IsPending(p) /\ proposals[p].listing = l)
        <4>1. proposals'[p] = proposals[p]
          BY <1>3, <3>2
        <4>. QED
          BY <3>2, <4>1, ProposalSeen DEF IsPending
      <3>. QED
        BY <3>1, <3>2
    <2>3. Abstract!Close(l)
      BY <1>2, <2>1, <2>2 DEF Abstract!Close, Abstract!NoNewWord
    <2>. QED
      BY <2>3 DEF Abstract!Next
  (* The listing went in the meantime, and its proposals with it.          *)
  <1>5. CASE ~Listing(l)
    <2>1. \A p \in ProposalIds : proposals'[p] = proposals[p]
      BY <1>3, <1>5 DEF OnRealListing, IsPending
    <2>2. Abstract!Forget
      BY <1>2, <2>1, Forgets
    <2>. QED
      BY <2>2 DEF Abstract!Next
  <1>. QED
    BY <1>4, <1>5

LEMMA ListingStepFollows ==
    ASSUME RefInv, NEW r \in Slots, NEW l \in ListingIds, ListingStep(r, l)
    PROVE  Abstract!Next
  <1> USE DEF RefInv, IInv
  <1>1. Words' \subseteq Words
    BY HandlerWords, NullAssumption
  <1>2. CASE InsertListing(r, l)
    BY <1>1, <1>2, InsertListingPosts DEF Abstract!Next
  <1>3. CASE InsertOffers(r) \/ CloseListing(r)
    BY <1>1, <1>3, ListingChangeForgets DEF Abstract!Next
  <1>4. CASE UndoListing(r)
    BY <1>1, <1>4, UndoListingRemoves DEF Abstract!Next
  <1>5. CASE DeclinePending(r)
    BY <1>1, <1>5, DeclinePendingCloses
  <1>. QED
    BY <1>2, <1>3, <1>4, <1>5 DEF ListingStep

LEMMA ExpireFollows ==
    ASSUME RefInv, NEW l \in ListingIds, Expire(l)
    PROVE  Abstract!Next
  <1>1. Words' = Words
    BY DEF Expire, Words, WordOf, VerbOf
  <1>. QED
    BY <1>1, ListingChangeForgets DEF RefInv, IInv, Abstract!Next

(* propose.                                                                *)
LEMMA OneOfferChanged ==
    ASSUME TypeInv, NEW p \in ProposalIds, NEW row, NEW offer, offer = OfferOf(row),
           proposals' = [proposals EXCEPT ![p] = row]
    PROVE  [q \in ProposalIds |-> OfferOf(proposals'[q])] =
                [[q \in ProposalIds |-> OfferOf(proposals[q])] EXCEPT ![p] = offer]
  <1>1. \A q \in ProposalIds : proposals'[q] = IF q = p THEN row ELSE proposals[q]
    BY DEF TypeInv, TypeOK
  <1>2. \A q \in ProposalIds :
            OfferOf(proposals'[q]) = IF q = p THEN offer ELSE OfferOf(proposals[q])
    BY <1>1
  <1>. QED
    BY <1>2

LEMMA InsertProposalMakes ==
    ASSUME TypeInv, SaysOK, NEW r \in Slots, NEW p \in ProposalIds, InsertProposal(r, p),
           Words' \subseteq Words
    PROVE  \E l \in ListingIds, u \in Users : Abstract!Make(p, l, u)
  <1>1. reqs[r] \in Requests /\ reqs[r].on \in ListingIds
    BY RowFacts DEF InsertProposal, At, TypeInv, TypeOK, ReferencesOK, Refers
  <1>2. PICK l \in ListingIds, u \in Users : l = reqs[r].on /\ u = reqs[r].user
    BY <1>1 DEF Requests
  <1>3. PICK row : row = [listing |-> l, user |-> u, status |-> "pending",
                          room |-> None, give |-> {}, get |-> {}]
    OBVIOUS
  <1>4. row \in ProposalRows
    BY <1>3 DEF ProposalRows
  <1>5. OfferOf(row) = [on |-> l, by |-> u, state |-> "pending", meeting |-> None]
    BY <1>3, <1>4, OfferFacts
  <1>6. /\ proposals[p] = None /\ Listing(l) /\ IndexAdmits(u, l)
        /\ proposals' = [proposals EXCEPT ![p] = row]
        /\ listings' = listings /\ rooms' = rooms
    BY <1>2, <1>3 DEF InsertProposal
  <1>7. OfferOf(proposals[p]).state = "absent"
    BY <1>6, OfferFacts
  <1>8. AuthorOf(listings[l]) \in Users \ {u}
    <2>1. u # listings[l].user
      BY <1>2, <1>6 DEF InsertProposal, At, SaysOK, Says
    <2>. QED
      BY <1>6, <2>1, ListingSeen
  <1>9. ASSUME NEW q \in ProposalIds, Abstract!Waiting(q)
        PROVE  ~(OfferOf(proposals[q]).on = l /\ OfferOf(proposals[q]).by = u)
    <2>1. IsPending(q)
      BY <1>9, ProposalSeen
    <2>2. ~(proposals[q].listing = l /\ proposals[q].user = u)
      BY <1>6, <2>1 DEF IndexAdmits, PendingProposalsOf
    <2>. QED
      BY <2>1, <2>2, ProposalSeen DEF IsPending
  <1>10. [q \in ProposalIds |-> OfferOf(proposals'[q])] =
            [[q \in ProposalIds |-> OfferOf(proposals[q])] EXCEPT ![p] =
                [on |-> l, by |-> u, state |-> "pending", meeting |-> None]]
    BY <1>5, <1>6, OneOfferChanged
  <1>11. Abstract!Make(p, l, u)
    BY <1>6, <1>7, <1>8, <1>9, <1>10 DEF Abstract!Make, Abstract!NoNewWord
  <1>. QED
    BY <1>11

LEMMA InsertLinesForgets ==
    ASSUME TypeInv, NEW r \in Slots, InsertLines(r), Words' \subseteq Words
    PROVE  Abstract!Forget
  <1>1. /\ reqs[r] \in Requests /\ reqs[r].row \in ProposalIds
        /\ proposals[reqs[r].row] \in ProposalRows
    BY RowFacts DEF InsertLines, At, TypeInv, TypeOK, ReferencesOK, Refers, Proposal
  <1>2. PICK p \in ProposalIds : p = reqs[r].row
    BY <1>1
  <1>3. PICK given : given = [proposals[p] EXCEPT !.give = reqs[r].give]
    OBVIOUS
  <1>4. /\ given \in ProposalRows /\ given.listing = proposals[p].listing
        /\ given.user = proposals[p].user /\ given.status = proposals[p].status
        /\ given.room = proposals[p].room
    BY <1>1, <1>2, <1>3 DEF ProposalRows, Requests
  <1>5. PICK row : row = [given EXCEPT !.get = reqs[r].get]
    OBVIOUS
  <1>6. /\ row \in ProposalRows /\ row.listing = given.listing
        /\ row.user = given.user /\ row.status = given.status /\ row.room = given.room
    BY <1>1, <1>4, <1>5 DEF ProposalRows, Requests
  <1>7. /\ proposals'[p] = row
        /\ \A q \in ProposalIds \ {p} : proposals'[q] = proposals[q]
    BY <1>1, <1>2, <1>3, <1>5 DEF InsertLines, TypeInv, TypeOK
  <1>8. OfferOf(row) = OfferOf(proposals[p])
    BY <1>1, <1>2, <1>4, <1>6, OfferFacts
  <1>9. \A q \in ProposalIds : OfferOf(proposals'[q]) = OfferOf(proposals[q])
    BY <1>7, <1>8
  <1>. QED
    BY <1>9, Forgets DEF InsertLines

LEMMA UndoProposalFollows ==
    ASSUME TypeInv, SaysOK, NEW r \in Slots, UndoProposal(r), Words' \subseteq Words
    PROVE  Abstract!Next
  <1>1. PICK p \in ProposalIds : p = reqs[r].row /\ proposals[p] # None
    BY DEF UndoProposal, At, TypeInv, ReferencesOK, Refers, SaysOK, Says
  <1>2. /\ proposals' = [proposals EXCEPT ![p] = Deleted]
        /\ listings' = listings /\ rooms' = rooms
    BY <1>1 DEF UndoProposal
  <1>3. CASE Proposal(p)
    <2>1. [q \in ProposalIds |-> OfferOf(proposals'[q])] =
            [[q \in ProposalIds |-> OfferOf(proposals[q])] EXCEPT ![p] =
                Abstract!Nothing("gone")]
      BY <1>2, OneOfferChanged, OfferFacts
    <2>2. Abstract!TakeBack(p)
      BY <1>2, <1>3, <2>1, ProposalSeen DEF Abstract!TakeBack, Abstract!NoNewWord
    <2>. QED
      BY <2>2 DEF Abstract!Next
  (* It went with its listing.                                             *)
  <1>4. CASE ~Proposal(p)
    <2>1. proposals' = proposals
      BY <1>1, <1>2, <1>4 DEF Proposal, IsRow, TypeInv, TypeOK
    <2>. QED
      BY <1>2, <2>1, SameTablesForget DEF Abstract!Next
  <1>. QED
    BY <1>3, <1>4

(* The two answers.                                                        *)
LEMMA Settles ==
    ASSUME TypeInv, NEW p \in ProposalIds, Proposal(p), NEW row \in ProposalRows,
           row.listing = proposals[p].listing, row.user = proposals[p].user,
           proposals' = [proposals EXCEPT ![p] = row],
           listings' = listings, rooms' = rooms, Words' \subseteq Words
    PROVE  Abstract!Settle(p, row.status, row.room)
  <1>1. PICK offer : offer = OfferOf(row)
    OBVIOUS
  <1>2. offer = [OfferOf(proposals[p]) EXCEPT !.state = row.status, !.meeting = row.room]
    <2>1. PICK old : old = proposals[p]
      OBVIOUS
    <2>2. old \in ProposalRows
      BY <2>1, ProposalSeen
    <2>3. OfferOf(old) = [on |-> old.listing, by |-> old.user, state |-> old.status,
                          meeting |-> old.room]
      BY <2>2, OfferFacts
    <2>4. offer = [on |-> old.listing, by |-> old.user, state |-> row.status,
                   meeting |-> row.room]
      BY <1>1, <2>1, OfferFacts
    <2>5. offer = [OfferOf(old) EXCEPT !.state = row.status, !.meeting = row.room]
      <3>1. PICK mid : mid = [OfferOf(old) EXCEPT !.state = row.status]
        OBVIOUS
      <3>2. mid = [on |-> old.listing, by |-> old.user, state |-> row.status,
                   meeting |-> old.room]
        BY <2>3, <3>1
      <3>3. offer = [mid EXCEPT !.meeting = row.room]
        BY <2>4, <3>2
      <3>. QED
        BY <3>1, <3>3
    <2>. QED
      BY <2>1, <2>5
  <1>3. [q \in ProposalIds |-> OfferOf(proposals'[q])] =
            [[q \in ProposalIds |-> OfferOf(proposals[q])] EXCEPT ![p] = offer]
    BY <1>1, OneOfferChanged
  <1>4. [q \in ProposalIds |-> OfferOf(proposals'[q])] =
            [[q \in ProposalIds |-> OfferOf(proposals[q])] EXCEPT ![p] =
                [@ EXCEPT !.state = row.status, !.meeting = row.room]]
    <2>1. PICK before : before = [q \in ProposalIds |-> OfferOf(proposals[q])]
      OBVIOUS
    <2>2. before[p] = OfferOf(proposals[p])
      BY <2>1
    <2>3. [before EXCEPT ![p] = offer] =
            [before EXCEPT ![p] = [@ EXCEPT !.state = row.status, !.meeting = row.room]]
      BY <1>2, <2>2
    <2>. QED
      BY <1>3, <2>1, <2>3
  <1>. QED
    BY <1>4 DEF Abstract!Settle, Abstract!NoNewWord

(* A room in hand is free.                                                 *)
LEMMA FreeInHand ==
    ASSUME TypeInv, NEW k \in RoomIds,
           \A p \in ProposalIds : Proposal(p) => proposals[p].room # k
    PROVE  Abstract!Free(k)
  BY ProposalSeen DEF Abstract!Free

LEMMA AnswerFollows ==
    ASSUME TypeInv, OnRealListing, JudgedOK, RoomsOK, NEW r \in Slots, Answer(r),
           Words' \subseteq Words
    PROVE  Abstract!Next
  <1>1. /\ reqs[r] \in Requests /\ reqs[r].pc = "answer" /\ reqs[r] # None
        /\ reqs[r].on \in ProposalIds
        /\ reqs[r].row \in RoomIds \cup {None}
    BY RowFacts DEF Answer, At, TypeInv, TypeOK, ReferencesOK, Refers, Deciding
  <1>2. PICK p \in ProposalIds : p = reqs[r].on
    BY <1>1
  <1>3. PICK verb \in {"accept", "decline"} :
            /\ verb = VerbOf(reqs[r])
            /\ verb = IF reqs[r].accept THEN "accept" ELSE "decline"
    BY <1>1, VerbFacts DEF Deciding
  <1>4. listings' = listings /\ rooms' = rooms
    BY DEF Answer
  <1>5. CASE ~StillPending(p)
    <2>1. proposals' = proposals
      BY <1>2, <1>5 DEF Answer
    <2>. QED
      BY <1>4, <2>1, SameTablesForget DEF Abstract!Next
  <1>6. CASE StillPending(p)
    <2>1. proposals[p] \in ProposalRows /\ Proposal(p) /\ Abstract!Waiting(p)
      BY <1>6, ProposalSeen DEF StillPending, IsPending
    <2>2. Judged(reqs[r])
      BY <1>1 DEF JudgedOK, Judges, Deciding
    <2>3. /\ Listing(proposals[p].listing) /\ proposals[p].listing \in ListingIds
          /\ reqs[r].peer = proposals[p].user
          /\ reqs[r].user = listings[proposals[p].listing].user
      BY <1>2, <2>1, <2>2 DEF Judged, OnRealListing, ProposalRows
    <2>4. Abstract!Said(verb, p)
      <3>1. Abstract!Word(AuthorOf(listings[proposals[p].listing]), verb, p) \in Words
        BY <1>1, <1>2, <1>3, <2>3, WordSaid, ListingSeen
      <3>. QED
        BY <2>1, <2>3, <3>1, ProposalSeen DEF Abstract!Said
    <2>5. PICK mid : mid = [proposals[p] EXCEPT !.status = IF reqs[r].accept THEN "accepted"
                                                           ELSE "declined"]
      OBVIOUS
    <2>6. /\ mid \in ProposalRows /\ mid.listing = proposals[p].listing
          /\ mid.user = proposals[p].user
          /\ mid.status = IF verb = "accept" THEN "accepted" ELSE "declined"
      BY <1>3, <2>1, <2>5 DEF ProposalRows
    <2>7. PICK row : row = [mid EXCEPT !.room = reqs[r].row]
      OBVIOUS
    <2>8. /\ row \in ProposalRows /\ row.listing = proposals[p].listing
          /\ row.user = proposals[p].user /\ row.status = mid.status
          /\ row.room = reqs[r].row
      BY <1>1, <2>6, <2>7 DEF ProposalRows
    <2>9. proposals' = [proposals EXCEPT ![p] = row]
      BY <1>2, <1>6, <2>5, <2>7 DEF Answer, TypeInv, TypeOK
    <2>10. Abstract!Settle(p, row.status, row.room)
      BY <1>4, <2>1, <2>8, <2>9, Settles
    <2>11. CASE verb = "decline"
      <3>1. row.room = None
        BY <1>1, <1>3, <2>8, <2>11 DEF TypeInv, ReferencesOK, Refers
      <3>2. Abstract!Decline(p)
        BY <2>4, <2>6, <2>8, <2>10, <2>11, <3>1 DEF Abstract!Decline
      <3>. QED
        BY <3>2 DEF Abstract!Next
    <2>12. CASE verb = "accept" /\ row.room = None
      <3>1. Abstract!Accept(p)
        BY <2>4, <2>6, <2>8, <2>10, <2>12 DEF Abstract!Accept
      <3>. QED
        BY <3>1 DEF Abstract!Next
    <2>13. CASE verb = "accept" /\ row.room # None
      <3>1. PICK k \in RoomIds : k = row.room /\ k = reqs[r].row
        BY <1>1, <2>8, <2>13
      <3>2. HoldsRoom(r)
        BY <1>1, <2>8, <2>13 DEF HoldsRoom, Holding
      <3>3. Furnished(reqs[r]) /\ rooms[k] \in RoomRows
        BY <3>1, <3>2 DEF RoomsOK, HandsOK, FurnishedOK, InHandInserted, TypeInv, TypeOK
      <3>4. /\ rooms[k].a = listings[proposals[p].listing].user
            /\ rooms[k].b = proposals[p].user /\ rooms[k].status = "building"
        BY <1>1, <2>3, <3>1, <3>3 DEF Furnished
      <3>5. rooms[k] = [a |-> AuthorOf(listings[proposals[p].listing]),
                        b |-> proposals[p].user, status |-> "building"]
        <4>1. AuthorOf(listings[proposals[p].listing]) = listings[proposals[p].listing].user
          BY <2>3, ListingSeen
        <4>. QED
          BY <3>3, <3>4, <4>1 DEF RoomRows
      <3>6. Abstract!Free(k)
        BY <3>1, <3>2, FreeInHand DEF RoomsOK, NotNamedYet
      <3>7. OfferOf(proposals[p]).on = proposals[p].listing
            /\ OfferOf(proposals[p]).by = proposals[p].user
        BY <2>1, ProposalSeen
      <3>8. Abstract!AcceptInto(p, k)
        BY <2>3, <2>4, <2>6, <2>8, <2>10, <2>13, <3>1, <3>5, <3>6, <3>7
        DEF Abstract!AcceptInto
      <3>. QED
        BY <3>8 DEF Abstract!Next
    <2>. QED
      BY <2>11, <2>12, <2>13
  <1>. QED
    BY <1>5, <1>6

LEMMA WithdrawFollows ==
    ASSUME TypeInv, SaysOK, NEW r \in Slots, Withdraw(r), Words' \subseteq Words
    PROVE  Abstract!Next
  <1>1. /\ reqs[r] # None /\ reqs[r].pc = "withdraw" /\ reqs[r].on \in ProposalIds
        /\ Says(reqs[r])
    BY DEF Withdraw, At, TypeInv, ReferencesOK, Refers, SaysOK
  <1>2. PICK p \in ProposalIds : p = reqs[r].on
    BY <1>1
  <1>3. listings' = listings /\ rooms' = rooms
    BY DEF Withdraw
  <1>4. CASE ~StillPending(p)
    <2>1. proposals' = proposals
      BY <1>2, <1>4 DEF Withdraw
    <2>. QED
      BY <1>3, <2>1, SameTablesForget DEF Abstract!Next
  <1>5. CASE StillPending(p)
    <2>1. /\ proposals[p] \in ProposalRows /\ Proposal(p) /\ Abstract!Waiting(p)
          /\ proposals[p].status = "pending"
      BY <1>5, ProposalSeen DEF StillPending, IsPending
    <2>2. reqs[r].user = proposals[p].user
      BY <1>1, <1>2, <2>1 DEF Says
    <2>3. Abstract!Recanted(p)
      <3>1. VerbOf(reqs[r]) = "withdraw"
        BY <1>1, VerbFacts
      <3>2. Abstract!Word(proposals[p].user, "withdraw", p) \in Words
        BY <1>1, <1>2, <2>2, <3>1, WordSaid
      <3>. QED
        BY <2>1, <3>2, ProposalSeen DEF Abstract!Recanted
    <2>4. PICK row : row = [proposals[p] EXCEPT !.status = "withdrawn"]
      OBVIOUS
    <2>5. /\ row \in ProposalRows /\ row.listing = proposals[p].listing
          /\ row.user = proposals[p].user /\ row.status = "withdrawn"
          /\ row.room = None
      BY <2>1, <2>4 DEF ProposalRows, TypeInv, TypeOK
    <2>6. proposals' = [proposals EXCEPT ![p] = row]
      BY <1>2, <1>5, <2>4 DEF Withdraw
    <2>7. Abstract!Settle(p, "withdrawn", None)
      BY <1>3, <2>1, <2>5, <2>6, Settles
    <2>8. Abstract!Withdraw(p)
      BY <2>3, <2>7 DEF Abstract!Withdraw
    <2>. QED
      BY <2>8 DEF Abstract!Next
  <1>. QED
    BY <1>4, <1>5

LEMMA ProposalStepFollows ==
    ASSUME RefInv, NEW r \in Slots, NEW p \in ProposalIds, ProposalStep(r, p)
    PROVE  Abstract!Next
  <1> USE DEF RefInv, IInv
  <1>1. Words' \subseteq Words
    BY HandlerWords, NullAssumption
  <1>2. CASE InsertProposal(r, p)
    BY <1>1, <1>2, InsertProposalMakes DEF Abstract!Next
  <1>3. CASE InsertLines(r)
    BY <1>1, <1>3, InsertLinesForgets DEF Abstract!Next
  <1>4. CASE UndoProposal(r)
    BY <1>1, <1>4, UndoProposalFollows
  <1>5. CASE Answer(r)
    BY <1>1, <1>5, AnswerFollows
  <1>6. CASE Withdraw(r)
    BY <1>1, <1>6, WithdrawFollows
  <1>. QED
    BY <1>2, <1>3, <1>4, <1>5, <1>6 DEF ProposalStep

(* Opening a room.                                                         *)
LEMMA RoomStepFollows ==
    ASSUME RefInv, NEW r \in Slots, NEW k \in RoomIds, RoomStep(r, k)
    PROVE  Abstract!Next
  <1> USE DEF RefInv, IInv
  <1>1. HandsOK
    BY DEF RoomsOK
  <1>2. Words' \subseteq Words
    BY HandlerWords, NullAssumption
  <1>3. listings' = listings /\ proposals' = proposals
    BY RoomStepKeepsTables
  <1>4. PICK j \in RoomIds : j = reqs'[r].row
    BY <1>1, RoomStepHands
  <1>5. \A p \in ProposalIds : Proposal(p) => proposals[p].room # j
    BY <1>1, <1>4, RoomStepHands, NullAssumption DEF RoomsOK, NotNamedYet, NamedInserted
  <1>6. \A i \in RoomIds : i # j => rooms'[i] = rooms[i]
    BY <1>1, <1>4, RoomStepHands
  <1>7. rooms' = [rooms EXCEPT ![j] = rooms'[j]]
    <2>1. rooms \in [RoomIds -> RoomRows \cup {None}] /\ rooms' \in [RoomIds -> RoomRows \cup {None}]
      BY <1>1, RoomStepsKeepTypes DEF HandsOK, TypeInv, TypeOK
    <2>. QED
      BY <1>6, <2>1
  <1>8. Abstract!Prepare(j)
    BY <1>2, <1>3, <1>5, <1>7, FreeInHand DEF Abstract!Prepare, Abstract!NoNewWord
  <1>. QED
    BY <1>8 DEF Abstract!Next

LEMMA NextFollows ==
    ASSUME RefInv, Next
    PROVE  Abstract!Next
  <1> USE DEF RefInv, IInv
  <1>1. ASSUME NEW r \in Slots, ReadStep(r)
        PROVE  Abstract!Next
    <2>1. Words' \subseteq Words
      BY <1>1, HandlerWords
    <2>. QED
      BY <1>1, <2>1, ReadStepKeepsTables, SameTablesForget DEF Abstract!Next
  <1>. QED
    BY <1>1, StepCases, NewRequestFollows, ListingStepFollows, ExpireFollows,
       ProposalStepFollows, RoomStepFollows

(* Every statement of every handler is a step of the offers or none, for   *)
(* any number of collectors, rows and handlers.                            *)
THEOREM BlockFollowsOffers == Spec => FollowsOffers
  <1>1. RefInv /\ [Next]_vars => [Abstract!Next]_(Abstract!vars)
    <2>1. ASSUME UNCHANGED vars
          PROVE  UNCHANGED Abstract!vars
      BY <2>1 DEF vars, Abstract!vars, Words, WordOf, VerbOf
    <2>. QED
      BY <2>1, NextFollows
  <1>. QED
    BY <1>1, RefInvInvariant, PTL DEF Spec, FollowsOffers

(* A behaviour of the block is one of the offers, from its empty tables on.*)
THEOREM BlockImplementsOffers == Spec => ImplementsOffers
  <1>1. Init => Abstract!Init
    BY OfferFacts, AuthorFacts DEF Init, Abstract!Init, Words
  <1>. QED
    BY <1>1, BlockFollowsOffers, PTL DEF Spec, ImplementsOffers
=============================================================================
