----------------------- MODULE TradeEscrowRefinement -----------------------
(***************************************************************************)
(* The escrow contract as an implementation of AtomicSwap: the holder of   *)
(* an NFT is the account whose collection has it, or the vault; a trade is *)
(* a deal whose bundles are its escrows.  Time, the pause switch, the      *)
(* capabilities and the commitments are hidden.                            *)
(***************************************************************************)
EXTENDS TradeEscrow

CONSTANT Vault

ASSUME VaultAssumption == Vault \notin Accounts

HolderOfNft(n) ==
    IF \E a \in Accounts : n \in held[a]
    THEN CHOOSE a \in Accounts : n \in held[a]
    ELSE Vault

AccountOf(r) == IF r \in Receivers THEN HolderOf[r] ELSE Vault

DealOf(t) == [bundle |-> t.escrow,
              home   |-> [s \in Side |-> AccountOf(t.refund[s])],
              goal   |-> [s \in Side |-> AccountOf(t.incoming[s])]]

holderBar == [n \in NFTs |-> HolderOfNft(n)]
dealsBar == [i \in DOMAIN trades |-> DealOf(trades[i])]

Abstract == INSTANCE AtomicSwap WITH
    DealIds <- TradeIds, holder <- holderBar, deals <- dealsBar

(* Every behaviour of the contract, whatever the interleaving of trades,   *)
(* pauses, expiries and revoked receivers, is one of the atomic swap.      *)
ImplementsAtomicSwap == Abstract!Spec
=============================================================================
