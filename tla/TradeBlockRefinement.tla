------------------------ MODULE TradeBlockRefinement ------------------------
(***************************************************************************)
(* The Trade Block as an implementation of Offers: a post is a listing, of *)
(* which only the lister is seen, an offer a proposal without its lines, a *)
(* meeting a trade room, and a word on its way a request that decides,     *)
(* withdraws or closes.  The offer lines, the expiry and the open or       *)
(* closed status of listings are hidden, and so is what requests loaded.   *)
(***************************************************************************)
EXTENDS TradeBlock

AuthorOf(row) == IF IsRow(row) THEN row.user ELSE row

OfferOf(row) ==
    IF IsRow(row)
    THEN [on |-> row.listing, by |-> row.user, state |-> row.status, meeting |-> row.room]
    ELSE [on |-> None, by |-> None, state |-> IF row = None THEN "absent" ELSE "gone",
          meeting |-> None]

(* What a request is about to do on its caller's word.                     *)
VerbOf(q) ==
    CASE q.pc \in {"close", "decline"} -> "close"
      [] q.pc = "withdraw"             -> "withdraw"
      [] q.pc \in {"judge", "room", "sideA", "sideB", "building", "answer"} ->
            IF q.accept THEN "accept" ELSE "decline"
      [] OTHER                         -> "none"

WordOf(q) == [who |-> q.user, verb |-> VerbOf(q), on |-> q.on]

Words == {WordOf(reqs[r]) : r \in {s \in Slots : reqs[s] # None /\ VerbOf(reqs[s]) # "none"}}

Abstract == INSTANCE Offers WITH
    Posts <- ListingIds, Ids <- ProposalIds, Meetings <- RoomIds, People <- Users,
    Absent <- None, Gone <- Deleted,
    author <- [l \in ListingIds |-> AuthorOf(listings[l])],
    offers <- [p \in ProposalIds |-> OfferOf(proposals[p])],
    meetings <- rooms,
    asked <- Words

-----------------------------------------------------------------------------

(* Every statement of every handler, on whatever it read and however late, *)
(* is a step of the offers or none: a proposal is answered once, on the    *)
(* request of its lister (or withdrawn on its proposer's), the room its    *)
(* acceptance names already seats the two and stays as it is and is no     *)
(* other proposal's, and two proposals of one collector never wait on one  *)
(* listing, nor any on the collector's own.                                *)
FollowsOffers == [][Abstract!Next]_(Abstract!vars)

(* The same of whole behaviours, from an empty block.                      *)
ImplementsOffers == Abstract!Init /\ FollowsOffers
=============================================================================
