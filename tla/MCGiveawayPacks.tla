-------------------------- MODULE MCGiveawayPacks --------------------------
(* Values for TLC's instance of the giveaway packs.                        *)
EXTENDS GiveawayPacks, TLC

CONSTANTS sponsor, dapper, wallet, first, second, m1, m2, topshot

(* Two Sponsor resources in one account; moments of one type.              *)
Alike == [m \in Moments |-> topshot]
OneOwner == [s \in Sponsors |-> sponsor]
=============================================================================
