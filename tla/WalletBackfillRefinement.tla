---------------------- MODULE WalletBackfillRefinement ----------------------
(***************************************************************************)
(* The wallet backfill as an implementation of Mirror: the mirror is       *)
(* wallet_moments_cache, a look is the reading of a walk that goes on with *)
(* it, and the word is the stamp of a walk that lost no chunk, until a     *)
(* claim fails open.  The lock, the ages, the lists and chunks in hand and *)
(* the faults are hidden.                                                  *)
(***************************************************************************)
EXTENDS WalletBackfill

LookOf(q) == [saw |-> q.observed, kept |-> q.since]

Looking == {"prove", "list", "write", "load", "confirm", "remove", "stamp"}
Looks == {LookOf(walk[w]) : w \in {v \in Walks : walk[v].pc \in Looking}}

Vouched == IF stamp.whole /\ ~opened THEN stamp.sure ELSE {}

Abstract == INSTANCE Mirror WITH
    holds <- held, shows <- cache, looks <- Looks, vouched <- Vouched

-----------------------------------------------------------------------------

(* Every statement of every walk, killed, failed, or overtaken by another  *)
(* one after a stale claim, is a step of the mirror or none: a row is      *)
(* written only for a moment its walk saw in the wallet, deleted only for  *)
(* one that has left since its walk looked, and never against the word of  *)
(* a clean walk.                                                           *)
FollowsMirror == [][Abstract!Next]_(Abstract!vars)

(* The same of whole behaviours, from any cache of any wallet.             *)
ImplementsMirror == Abstract!Init /\ FollowsMirror
=============================================================================
