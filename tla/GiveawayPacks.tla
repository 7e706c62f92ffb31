--------------------------- MODULE GiveawayPacks ---------------------------
(***************************************************************************)
(* The on-chain giveaway packs (cadence/contracts/RPCGiveawayPacks.cdc):   *)
(* a Sponsor resource seals moments into a pack, names its winner and may  *)
(* reclaim it; the winner, or a parent account that has redeemed the       *)
(* winner's, opens it into one of the winner's own accounts.               *)
(*                                                                         *)
(* A transaction is one step, or none when anything in it panics.  Around  *)
(* the contract, Hybrid Custody links are offered, redeemed and removed,   *)
(* collections stop and start to receive a type, and moments outside packs *)
(* change hands: MaxMoves such acts.  A tick is a part of RECLAIM_DELAY.   *)
(*                                                                         *)
(* Left out: dropID, packNo and receiverPath, which the contract only      *)
(* records, events and views, capabilities to a Sponsor or a Winner that   *)
(* its owner issues to others.                                             *)
(***************************************************************************)
EXTENDS Naturals, FiniteSets

CONSTANTS
    Accounts,
    Moments,
    Types,
    TypeOf,         \* moment -> its NFT type
    Sponsors,       \* Sponsor resources
    OwnerOf,        \* Sponsor resource -> the account that stores it
    MaxPerPack,     \* MAX_MOMENTS_PER_PACK
    Delay,          \* RECLAIM_DELAY, in ticks
    MaxPacks,       \* bound: packs ever sealed
    MaxMoves,       \* bound: acts around the contract
    None

PackIds == 1..MaxPacks

ASSUME NumberAssumption ==
    /\ MaxPerPack \in Nat
    /\ Delay \in Nat \ {0}
    /\ MaxPacks \in Nat
    /\ MaxMoves \in Nat
ASSUME ValueAssumption ==
    /\ TypeOf \in [Moments -> Types]
    /\ OwnerOf \in [Sponsors -> Accounts]
    /\ None \notin Accounts \union Sponsors
    /\ Accounts \intersect PackIds = {}

VARIABLES
    at,         \* moment -> the account or the pack it is in
    packs,      \* packs[id], NoPack where the dictionary has none
    nextPackID,
    links,      \* <<child, parent>> -> the child's OwnedAccount record
    receives,   \* <<account, type>>: a collection that takes the type
    moves

vars == <<at, packs, nextPackID, links, receives, moves>>

NoPack == [sponsor |-> None, recipient |-> None, waited |-> 0]
Exists(p) == packs[p] # NoPack
Assigned(p) == packs[p].recipient # None
Nfts(p) == {m \in Moments : at[m] = p}
Pairs == {pair \in Accounts \X Accounts : pair[1] # pair[2]}

(* isRedeemedParent.                                                       *)
LinkedAtAll(child, parent) ==
    <<child, parent>> \in Pairs /\ links[<<child, parent>>] # "none"
IsRedeemedParent(child, parent) ==
    <<child, parent>> \in Pairs /\ links[<<child, parent>>] = "redeemed"

Init ==
    /\ at \in [Moments -> Accounts]
    /\ packs = [p \in PackIds |-> NoPack]
    /\ nextPackID = 1
    /\ links = [pair \in Pairs |-> "none"]
    /\ receives = Accounts \X Types
    /\ moves = 0
-----------------------------------------------------------------------------
(* Around the contract.                                                    *)

Move == moves < MaxMoves /\ moves' = moves + 1

(* publishToParent, redeemAccount, removeParent.                           *)
SetLink(pair, from, to) ==
    /\ Move
    /\ links[pair] \in from
    /\ links' = [links EXCEPT ![pair] = to]
    /\ UNCHANGED <<at, packs, nextPackID, receives>>

Relink(pair) ==
    \/ SetLink(pair, {"none"}, "offered")
    \/ SetLink(pair, {"offered"}, "redeemed")
    \/ SetLink(pair, {"offered", "redeemed"}, "none")

SetReceives(a, t) ==
    /\ Move
    /\ receives' = IF <<a, t>> \in receives THEN receives \ {<<a, t>>}
                                            ELSE receives \union {<<a, t>>}
    /\ UNCHANGED <<at, packs, nextPackID, links>>

Transfer(m, a) ==
    /\ Move
    /\ at[m] \in Accounts
    /\ at' = [at EXCEPT ![m] = a]
    /\ UNCHANGED <<packs, nextPackID, links, receives>>

(* The time since assignedAt, up to RECLAIM_DELAY.                         *)
Tick ==
    /\ packs' = [p \in PackIds |->
                    IF Assigned(p) /\ packs[p].waited < Delay
                    THEN [packs[p] EXCEPT !.waited = @ + 1]
                    ELSE packs[p]]
    /\ UNCHANGED <<at, nextPackID, links, receives, moves>>
-----------------------------------------------------------------------------
(* The contract.                                                           *)

(* Mutant: the id is the next after the number of packs there are.         *)
CountedId == Cardinality({p \in PackIds : Exists(p)}) + 1
NewId == nextPackID

Seal(s, ms) ==
    /\ NewId <= MaxPacks
    /\ ms # {}
    /\ Cardinality(ms) <= MaxPerPack
    /\ \A m \in ms : at[m] = OwnerOf[s]
    /\ \A m, n \in ms : TypeOf[m] = TypeOf[n]
    /\ ~Exists(NewId)
    /\ packs' = [packs EXCEPT ![NewId] = [NoPack EXCEPT !.sponsor = s]]
    /\ at' = [m \in Moments |-> IF m \in ms THEN NewId ELSE at[m]]
    /\ nextPackID' = nextPackID + 1
    /\ UNCHANGED <<links, receives, moves>>

Assign(s, p, recipient) ==
    /\ packs[p].sponsor = s
    /\ ~Assigned(p)
    /\ packs' = [packs EXCEPT ![p].recipient = recipient]
    /\ UNCHANGED <<at, nextPackID, links, receives, moves>>

(* Mutant: one moment is drained and the pack destroyed.                   *)
DrainOne(p, a) ==
    /\ \E m \in Nfts(p) : at' = [at EXCEPT ![m] = a]
    /\ packs' = [packs EXCEPT ![p] = NoPack]
    /\ UNCHANGED <<nextPackID, links, receives, moves>>

(* packs.remove, drainTo and destroy: every deposit must be accepted.      *)
Drain(p, a) ==
    /\ \A m \in Nfts(p) : <<a, TypeOf[m]>> \in receives
    /\ at' = [m \in Moments |-> IF at[m] = p THEN a ELSE at[m]]
    /\ packs' = [packs EXCEPT ![p] = NoPack]
    /\ UNCHANGED <<nextPackID, links, receives, moves>>

OpenAs(p, opener, dest) ==
    /\ Exists(p)
    /\ Assigned(p)
    /\ LET recipient == packs[p].recipient IN
          /\ opener = recipient \/ IsRedeemedParent(recipient, opener)
          /\ dest \in {recipient, opener} \/ IsRedeemedParent(dest, opener)
    /\ Drain(p, dest)

(* Mutant: a pack is reclaimed only after the delay of its assignment.     *)
ReclaimableWhenAssigned(p) == Assigned(p) /\ packs[p].waited >= Delay
Reclaimable(p) == Assigned(p) => packs[p].waited >= Delay

Reclaim(s, p, dest) ==
    /\ Exists(p)
    /\ packs[p].sponsor = s
    /\ Reclaimable(p)
    /\ Drain(p, dest)
-----------------------------------------------------------------------------
Next ==
    \/ \E s \in Sponsors :
          \/ \E ms \in SUBSET Moments : Seal(s, ms)
          \/ \E p \in PackIds, a \in Accounts : Assign(s, p, a) \/ Reclaim(s, p, a)
    \/ \E p \in PackIds, opener, dest \in Accounts : OpenAs(p, opener, dest)
    \/ \E pair \in Pairs : Relink(pair)
    \/ \E a \in Accounts, t \in Types : SetReceives(a, t)
    \/ \E m \in Moments, a \in Accounts : Transfer(m, a)
    \/ Tick

Spec == Init /\ [][Next]_vars

(* Time passes, and a sponsor who can have a pack back asks for it.        *)
Fairness ==
    /\ WF_vars(Tick)
    /\ \A p \in PackIds : WF_vars(\E s \in Sponsors, a \in Accounts : Reclaim(s, p, a))

FairSpec == Spec /\ Fairness
-----------------------------------------------------------------------------
PackType == [sponsor : Sponsors \union {None}, recipient : Accounts \union {None},
             waited : 0..Delay]

(* Every variable has its type, and what a destroyed pack held has left it.*)
TypeOK ==
    /\ at \in [Moments -> Accounts \union PackIds]
    /\ packs \in [PackIds -> PackType]
    /\ nextPackID \in 1..(MaxPacks + 1)
    /\ links \in [Pairs -> {"none", "offered", "redeemed"}]
    /\ receives \subseteq Accounts \X Types
    /\ moves \in 0..MaxMoves
    /\ \A m \in Moments : at[m] \in PackIds => Exists(at[m])

(* An id names one pack for good: whatever is sealed, opened and reclaimed *)
(* between the reading of a pack and the transaction that was built on it, *)
(* the pack under that id is the one that was read, or there is none.      *)
IdNamesOnePack ==
    [][\A p \in 1..(nextPackID - 1) :
          Exists(p)' => /\ Exists(p)
                        /\ Nfts(p)' = Nfts(p)
                        /\ packs'[p].sponsor = packs[p].sponsor]_vars

(* No pack is stuck: if its sponsor asks for it back, it leaves the        *)
(* contract, unless no account is left that can receive what is in it.     *)
EventuallyOut ==
    \A p \in PackIds :
        []<>(~Exists(p) \/ \A a \in Accounts : \E m \in Nfts(p) : <<a, TypeOf[m]>> \notin receives)
-----------------------------------------------------------------------------
(* The refinement of SealedGift: a moment in a pack is its sponsor's gift  *)
(* to the pack's winner.                                                   *)
Sealed(m) == at[m] \in PackIds

holderBar == [m \in Moments |-> IF Sealed(m) THEN None ELSE at[m]]
giverBar == [m \in Moments |-> IF Sealed(m) THEN packs[at[m]].sponsor ELSE None]
winnerBar == [m \in Moments |-> IF Sealed(m) THEN packs[at[m]].recipient ELSE None]
ripeBar == {m \in Moments : Sealed(m) /\ Assigned(at[m]) /\ packs[at[m]].waited >= Delay}
familyBar == {pair \in Pairs : links[pair] = "redeemed"}

Gift == INSTANCE SealedGift WITH
    Givers <- Sponsors, AccountOf <- OwnerOf, Nobody <- None,
    holder <- holderBar, giver <- giverBar, winner <- winnerBar,
    ripe <- ripeBar, family <- familyBar

(* The packs keep the promise of a sealed gift: under every interleaving   *)
(* of sponsors, winners, links and time, what is sealed reaches only an    *)
(* account of its winner's, or goes back under the rules of reclaim().     *)
ImplementsSealedGift == Gift!Spec
=============================================================================
