---------------------------- MODULE MCTradeBlock ----------------------------
(***************************************************************************)
(* Values and starting points for TLC's instances of TradeBlock.           *)
(***************************************************************************)
EXTENDS TradeBlockRefinement

CONSTANTS alice, bob, gem, rare, pin

(* alice has the gem, bob a rare moment and a pin no room can sign.        *)
MCHolderOf == [m \in Moments |-> IF m = gem THEN alice ELSE bob]

MCBundles == {{gem}, {rare}, {pin}}

(* A listing of alice's, then bob's proposal on it: what one create and    *)
(* one propose leave behind.                                               *)
PostedInit ==
    /\ listings = [l \in ListingIds |->
            IF l = 1 THEN [user |-> alice, status |-> "open", offers |-> {gem},
                           expired |-> FALSE]
                     ELSE None]
    /\ \E offered \in {{}, {rare}, {rare, pin}} :
         proposals = [p \in ProposalIds |->
            IF p = 1 /\ offered # {}
            THEN [listing |-> 1, user |-> bob, status |-> "pending", room |-> None,
                  give |-> offered, get |-> {gem}]
            ELSE None]
    /\ rooms = [k \in RoomIds |-> None]
    /\ reqs = [r \in Slots |-> None]
    /\ started = 0

StagesSpec == (Init \/ PostedInit) /\ [][Next]_vars
=============================================================================
