----------------------------- MODULE AtomicSwap -----------------------------
(***************************************************************************)
(* What a swap escrow promises, with no clock, pause switch, capability,   *)
(* id list or NFT type: an owner locks a bundle of NFTs into one side of a *)
(* deal, naming where the bundle returns to (home) and where the other     *)
(* side's bundle is to go (goal); then either both bundles change hands or *)
(* each goes home.  `holder' is a function: an NFT is never in two places  *)
(* and never nowhere.                                                      *)
(***************************************************************************)
EXTENDS Naturals

CONSTANTS Accounts, NFTs,
          Vault,      \* the escrow, as a holder; also "no account named yet"
          DealIds

Side == {"A", "B"}
Other(s) == IF s = "A" THEN "B" ELSE "A"

Deal == [bundle : [Side -> SUBSET NFTs],
         home   : [Side -> Accounts \cup {Vault}],
         goal   : [Side -> Accounts \cup {Vault}]]

EmptyDeal == [bundle |-> [s \in Side |-> {}],
              home   |-> [s \in Side |-> Vault],
              goal   |-> [s \in Side |-> Vault]]

VARIABLES holder,   \* NFT -> the account that has it, or Vault
          deals     \* open deal id -> Deal

vars == <<holder, deals>>

Live(d) == d \in DOMAIN deals

OpenDeal(d) ==
    /\ ~Live(d)
    /\ deals' = [e \in DOMAIN deals \cup {d} |->
                    IF e = d THEN EmptyDeal ELSE deals[e]]
    /\ UNCHANGED holder

Lock(d, s, bundle, home, goal) ==
    /\ Live(d)
    /\ deals[d].bundle[s] = {}
    /\ bundle # {}
    /\ \E owner \in Accounts : \A n \in bundle : holder[n] = owner
    /\ holder' = [n \in NFTs |-> IF n \in bundle THEN Vault ELSE holder[n]]
    /\ deals' = [deals EXCEPT ![d] = [@ EXCEPT !.bundle[s] = bundle,
                                              !.home[s] = home,
                                              !.goal[s] = goal]]

(* Close deal d, each bundle going to the account `to' names for its side. *)
Release(d, to) ==
    /\ holder' = [n \in NFTs |->
                    IF n \in deals[d].bundle["A"] THEN to["A"]
                    ELSE IF n \in deals[d].bundle["B"] THEN to["B"]
                    ELSE holder[n]]
    /\ deals' = [e \in DOMAIN deals \ {d} |-> deals[e]]

Swap(d) ==
    /\ Live(d)
    /\ \A s \in Side : deals[d].bundle[s] # {}
    /\ Release(d, [s \in Side |-> deals[d].goal[Other(s)]])

Return(d) ==
    /\ Live(d)
    /\ Release(d, deals[d].home)

Move(n, to) ==
    /\ holder[n] \in Accounts
    /\ holder' = [holder EXCEPT ![n] = to]
    /\ UNCHANGED deals

Init ==
    /\ holder \in [NFTs -> Accounts]
    /\ deals = << >>

Next ==
    \/ \E d \in DealIds : OpenDeal(d) \/ Swap(d) \/ Return(d)
    \/ \E d \in DealIds, s \in Side, bundle \in SUBSET NFTs,
          home, goal \in Accounts : Lock(d, s, bundle, home, goal)
    \/ \E n \in NFTs, to \in Accounts : Move(n, to)

Spec == Init /\ [][Next]_vars
=============================================================================
