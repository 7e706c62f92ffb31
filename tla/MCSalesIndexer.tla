--------------------------- MODULE MCSalesIndexer ---------------------------
(***************************************************************************)
(* Values for TLC's instances of SalesIndexer.                             *)
(***************************************************************************)
EXTENDS SalesIndexerRefinement

CONSTANTS first, second, bad, storefront, market, cronJob, actions

(* The first sale is of the first chunk and of one source, the others of   *)
(* the last block and the other source.                                    *)
MCBlockOf == [s \in Sales |-> IF s = first THEN 2 ELSE IF MaxHeight < 4 THEN MaxHeight ELSE 4]
MCSourceOf == [s \in Sales |-> IF s = first THEN storefront ELSE market]
=============================================================================
