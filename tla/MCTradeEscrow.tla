--------------------------- MODULE MCTradeEscrow ---------------------------
(***************************************************************************)
(* Values for TLC's instances of TradeEscrow.                              *)
(***************************************************************************)
EXTENDS TradeEscrowRefinement

CONSTANTS alice, bob, moment, allday,
          aliceHome, bobHome, bobOther

(* Each party has a collection that takes every type; bob has a second     *)
(* receiver whose collection takes one type only.                          *)
MCHolderOf == [r \in Receivers |-> IF r = aliceHome THEN alice ELSE bob]

MCAccepts == [r \in Receivers |-> IF r = bobOther THEN {moment} ELSE Types]

(* Types run: a side commits nothing, one NFT, or one NFT listed twice.    *)
SingleLists == {<< >>, <<1>>, <<1, 1>>}

(* Release run: two trades that compete for the NFTs they commit.          *)
OneEach == {<<1>>, <<2>>}
=============================================================================
