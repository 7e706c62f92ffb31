----------------------- MODULE SalesIndexerRefinement -----------------------
(***************************************************************************)
(* The sales indexer and its drain as an implementation of Replica: the    *)
(* events are the sales, the table is public.sales, what waits are the     *)
(* sales with an unresolved row of unmapped_sales, however many, and the   *)
(* mark is the cursor.  The ticks and what they have in hand, the resolved *)
(* rows and the faults are hidden.                                         *)
(***************************************************************************)
EXTENDS SalesIndexer

Waiting == {s \in Sales : open[s] > 0}

Abstract == INSTANCE Replica WITH
    Events <- Sales, HeightOf <- BlockOf, Refused <- Poison, Genesis <- Origin,
    mark <- cursor, table <- sold, waiting <- Waiting, complete <- known

-----------------------------------------------------------------------------

(* Every step of every tick, of the drain and of hydration, whatever fails *)
(* or overlaps, is a step of the replica or none: only sales of sealed     *)
(* blocks are recorded or parked, none leaves unmapped_sales but into      *)
(* public.sales, and the cursor is written only to a sealed block that has *)
(* no unrecorded sale behind it.                                           *)
FollowsReplica == [][Abstract!Next]_(Abstract!vars)

(* The same of whole behaviours, from a cursor at the chain's last block.  *)
ImplementsReplica == Abstract!Init /\ FollowsReplica
=============================================================================
