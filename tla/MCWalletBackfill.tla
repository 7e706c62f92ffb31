------------------------- MODULE MCWalletBackfill -------------------------
(* Instances of the wallet backfill for TLC.                               *)
EXTENDS WalletBackfillRefinement, TLC

(* The ids and the invocations are interchangeable; safety runs only.      *)
Interchangeable == Permutations(Moments) \union Permutations(Walks)
=============================================================================
