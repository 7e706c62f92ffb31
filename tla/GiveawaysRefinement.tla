------------------------ MODULE GiveawaysRefinement ------------------------
(***************************************************************************)
(* The giveaways as an implementation of Raffle: a raffle is a drop, its   *)
(* prizes the rows of its pool, a parcel a submitted transaction.  The     *)
(* admin's requests and what they have read, locked moments, accounts      *)
(* without a collection and the failures are hidden.                       *)
(***************************************************************************)
EXTENDS Giveaways

PledgeOf == [d \in Drops |-> [m \in Moments |-> pool[d][m].source]]
PackOf == [d \in Drops |-> [m \in Moments |-> pool[d][m].pack]]
Recorded == [d \in Drops |-> {m \in Moments : pool[d][m].delivered}]
Parcels == {flight[f] : f \in {g \in Flights : flight[g] # NoFlight}}

Abstract == INSTANCE Raffle WITH
    Raffles <- Drops, Prizes <- Moments, People <- Users,
    Pledging <- Sources, SponsorsOwn <- AdminWallet, AccountsOf <- RecipientsOf,
    PackNumbers <- Packs, PackSize <- PerPack, Nobody <- None,
    holder <- at, had <- held, stage <- status, won <- claims,
    pledge <- PledgeOf, pack <- PackOf, parcels <- Parcels, recorded <- Recorded

-----------------------------------------------------------------------------

(* Every step of every request, on whatever it read and however late, and  *)
(* of every transaction, even one given up, is a step of the raffle or     *)
(* none: a pool is dealt once and whole, a pack is won once, what is sent  *)
(* goes from where it was pooled to its pack's winner, all of a batch or   *)
(* nothing, and delivered_at is set only for a winner who has had it.      *)
FollowsRaffle == [][Abstract!Next]_(Abstract!vars)

(* The same of whole behaviours, from an empty database.                   *)
ImplementsRaffle == Abstract!Init /\ FollowsRaffle
=============================================================================
