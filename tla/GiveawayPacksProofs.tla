------------------------ MODULE GiveawayPacksProofs ------------------------
(***************************************************************************)
(* What TLAPS proves of the giveaway packs contract, for every set of      *)
(* accounts, moments, types and sponsors, every size, delay and bound:     *)
(*   TypeCorrect       Spec => []TypeOK                                    *)
(*   IdsArePermanent   Spec => IdNamesOnePack                              *)
(*   Implements        Spec => ImplementsSealedGift                        *)
(* The inductive invariant adds that a pack has a sponsor and that only an *)
(* assigned one waits: its winner is not named and late in one step.       *)
(***************************************************************************)
EXTENDS GiveawayPacks, TLAPS

PacksOK ==
    \A p \in PackIds :
        /\ Exists(p) => packs[p].sponsor # None
        /\ packs[p].recipient = None => packs[p].waited = 0

IInv == TypeOK /\ PacksOK
-----------------------------------------------------------------------------
LEMMA NothingIsTyped ==
    /\ NoPack \in PackType
    /\ NoPack.sponsor = None /\ NoPack.recipient = None /\ NoPack.waited = 0
BY NumberAssumption DEF NoPack, PackType

LEMMA AccountsAreNotPacks ==
    \A a \in Accounts : a \notin PackIds /\ a # None
BY ValueAssumption

(* A step that leaves packs and moments' packs alone.                      *)
LEMMA AroundKeeps ==
    ASSUME IInv, UNCHANGED <<packs, nextPackID>>,
           at' \in [Moments -> Accounts \union PackIds],
           \A m \in Moments : at'[m] \in PackIds => at'[m] = at[m],
           links' \in [Pairs -> {"none", "offered", "redeemed"}],
           receives' \subseteq Accounts \X Types,
           moves' \in 0..MaxMoves
    PROVE  IInv'
BY DEF IInv, TypeOK, PacksOK, Exists

LEMMA MoveIsCounted == ASSUME IInv, Move PROVE moves' \in 0..MaxMoves
BY NumberAssumption DEF IInv, TypeOK, Move

LEMMA RelinkKeeps ==
    ASSUME IInv, NEW pair \in Pairs, Relink(pair)
    PROVE  IInv'
<1>1. links' \in [Pairs -> {"none", "offered", "redeemed"}]
    BY DEF Relink, SetLink, IInv, TypeOK
<1> QED BY <1>1, MoveIsCounted, AroundKeeps DEF Relink, SetLink, IInv, TypeOK

LEMMA SetReceivesKeeps ==
    ASSUME IInv, NEW a \in Accounts, NEW t \in Types, SetReceives(a, t)
    PROVE  IInv'
BY MoveIsCounted, AroundKeeps DEF SetReceives, IInv, TypeOK

LEMMA TransferKeeps ==
    ASSUME IInv, NEW m \in Moments, NEW a \in Accounts, Transfer(m, a)
    PROVE  IInv'
<1>1. /\ at' \in [Moments -> Accounts \union PackIds]
      /\ \A n \in Moments : at'[n] \in PackIds => at'[n] = at[n]
    BY AccountsAreNotPacks DEF Transfer, IInv, TypeOK
<1> QED BY <1>1, MoveIsCounted, AroundKeeps DEF Transfer, IInv, TypeOK

(* Time changes nothing of a pack but how long it has waited.              *)
LEMMA TickOnlyWaits ==
    ASSUME IInv, Tick
    PROVE  /\ packs' \in [PackIds -> PackType]
           /\ \A p \in PackIds :
                 /\ packs'[p].sponsor = packs[p].sponsor
                 /\ packs'[p].recipient = packs[p].recipient
                 /\ ~Assigned(p) => packs'[p] = packs[p]
                 /\ packs[p].waited >= Delay => packs'[p].waited >= Delay
<1> SUFFICES ASSUME NEW p \in PackIds
             PROVE  /\ packs'[p] \in PackType
                    /\ packs'[p].sponsor = packs[p].sponsor
                    /\ packs'[p].recipient = packs[p].recipient
                    /\ ~Assigned(p) => packs'[p] = packs[p]
                    /\ packs[p].waited >= Delay => packs'[p].waited >= Delay
    BY DEF Tick
<1>1. packs[p] \in PackType
    BY DEF IInv, TypeOK
<1>2. CASE Assigned(p) /\ packs[p].waited < Delay
    <2>1. packs'[p] = [packs[p] EXCEPT !.waited = packs[p].waited + 1]
        BY <1>2 DEF Tick
    <2>2. packs[p].waited \in 0..Delay /\ packs[p].waited + 1 \in 0..Delay
        BY <1>1, <1>2, NumberAssumption DEF PackType
    <2> QED BY <1>1, <1>2, <2>1, <2>2, NumberAssumption DEF PackType
<1>3. CASE ~(Assigned(p) /\ packs[p].waited < Delay)
    BY <1>1, <1>3 DEF Tick
<1> QED BY <1>2, <1>3

LEMMA TickKeeps == ASSUME IInv, Tick PROVE IInv'
<1>1. \A p \in PackIds : Exists(p) => Exists(p)'
    BY TickOnlyWaits, NothingIsTyped DEF IInv, PacksOK, Exists
<1>2. TypeOK'
    BY <1>1, TickOnlyWaits DEF Tick, IInv, TypeOK, Exists
<1>3. PacksOK'
    <2> SUFFICES ASSUME NEW p \in PackIds
                 PROVE  /\ Exists(p)' => packs'[p].sponsor # None
                        /\ packs'[p].recipient = None => packs'[p].waited = 0
        BY DEF PacksOK
    <2>1. Exists(p)' => packs'[p].sponsor # None
        BY TickOnlyWaits DEF IInv, PacksOK, Exists, Assigned, NoPack
    <2>2. packs'[p].recipient = None => packs'[p].waited = 0
        BY TickOnlyWaits DEF IInv, PacksOK, Assigned
    <2> QED BY <2>1, <2>2
<1> QED BY <1>2, <1>3 DEF IInv
-----------------------------------------------------------------------------
LEMMA SealKeeps ==
    ASSUME IInv, NEW s \in Sponsors, NEW ms \in SUBSET Moments, Seal(s, ms)
    PROVE  IInv'
<1>1. PICK r \in PackType : r = [NoPack EXCEPT !.sponsor = s]
    BY NothingIsTyped DEF PackType
<1>2. r.sponsor = s /\ r.recipient = None /\ r.waited = 0 /\ s # None
    BY <1>1, ValueAssumption DEF NoPack
<1>3. nextPackID \in PackIds /\ nextPackID' \in 1..(MaxPacks + 1)
    BY NumberAssumption DEF Seal, NewId, PackIds, IInv, TypeOK
<1>4. packs' = [packs EXCEPT ![nextPackID] = r]
    BY <1>1 DEF Seal, NewId
<1>5. packs'[nextPackID] = r /\ \A p \in PackIds \ {nextPackID} : packs'[p] = packs[p]
    BY <1>3, <1>4 DEF IInv, TypeOK
<1>6. r # NoPack
    BY <1>2, NothingIsTyped
<1>7. at' = [m \in Moments |-> IF m \in ms THEN nextPackID ELSE at[m]]
    BY DEF Seal, NewId
<1>8. \A m \in Moments : at'[m] \in PackIds => Exists(at[m])' \/ at'[m] = nextPackID
    BY <1>5, <1>6, <1>7 DEF IInv, TypeOK, Exists
<1>9. TypeOK'
    <2>1. \A m \in Moments : at'[m] \in PackIds => packs'[at'[m]] # NoPack
        BY <1>5, <1>6, <1>7 DEF IInv, TypeOK, Exists
    <2>2. at' \in [Moments -> Accounts \union PackIds]
        BY <1>3, <1>7 DEF IInv, TypeOK
    <2>3. packs' \in [PackIds -> PackType]
        BY <1>4 DEF IInv, TypeOK
    <2> QED BY <1>3, <2>1, <2>2, <2>3 DEF Seal, IInv, TypeOK, Exists
<1>10. PacksOK'
    BY <1>2, <1>5 DEF IInv, PacksOK, Exists
<1> QED BY <1>9, <1>10 DEF IInv

LEMMA AssignKeeps ==
    ASSUME IInv, NEW s \in Sponsors, NEW p \in PackIds, NEW a \in Accounts, Assign(s, p, a)
    PROVE  IInv'
<1>1. PICK r \in PackType : r = [packs[p] EXCEPT !.recipient = a]
    BY DEF IInv, TypeOK, PackType
<1>2. r.sponsor = s /\ r.recipient = a /\ s # None /\ a # None
    BY <1>1, ValueAssumption DEF Assign, IInv, TypeOK, PackType
<1>3. packs' = [packs EXCEPT ![p] = r]
    BY <1>1 DEF Assign
<1>4. packs'[p] = r /\ \A q \in PackIds \ {p} : packs'[q] = packs[q]
    BY <1>3 DEF IInv, TypeOK
<1>5. r # NoPack
    BY <1>2, NothingIsTyped
<1>6. TypeOK'
    <2>1. packs' \in [PackIds -> PackType]
        BY <1>3 DEF IInv, TypeOK
    <2>2. \A m \in Moments : at[m] \in PackIds => packs'[at[m]] # NoPack
        BY <1>4, <1>5 DEF IInv, TypeOK, Exists
    <2> QED BY <2>1, <2>2 DEF Assign, IInv, TypeOK, Exists
<1>7. PacksOK'
    BY <1>2, <1>4 DEF IInv, PacksOK, Exists
<1> QED BY <1>6, <1>7 DEF IInv

LEMMA DrainKeeps ==
    ASSUME IInv, NEW p \in PackIds, NEW a \in Accounts, Drain(p, a)
    PROVE  IInv'
<1>1. packs'[p] = NoPack /\ \A q \in PackIds \ {p} : packs'[q] = packs[q]
    BY DEF Drain, IInv, TypeOK
<1>2. \A m \in Moments : at'[m] = IF at[m] = p THEN a ELSE at[m]
    BY DEF Drain
<1>3. TypeOK'
    <2>1. packs' \in [PackIds -> PackType]
        BY NothingIsTyped DEF Drain, IInv, TypeOK
    <2>2. at' \in [Moments -> Accounts \union PackIds]
        BY DEF Drain, IInv, TypeOK
    <2>3. \A m \in Moments : at'[m] \in PackIds => packs'[at'[m]] # NoPack
        BY <1>1, <1>2, AccountsAreNotPacks DEF IInv, TypeOK, Exists
    <2> QED BY <2>1, <2>2, <2>3 DEF Drain, IInv, TypeOK, Exists
<1>4. PacksOK'
    BY <1>1, NothingIsTyped DEF IInv, PacksOK, Exists
<1> QED BY <1>3, <1>4 DEF IInv
-----------------------------------------------------------------------------
LEMMA InitHolds == Init => IInv
<1> SUFFICES ASSUME Init PROVE IInv
    OBVIOUS
<1>1. \A m \in Moments : at[m] \notin PackIds
    BY AccountsAreNotPacks DEF Init
<1>2. nextPackID \in 1..(MaxPacks + 1) /\ moves \in 0..MaxMoves
    BY NumberAssumption DEF Init
<1>3. packs \in [PackIds -> PackType] /\ \A p \in PackIds : packs[p] = NoPack
    BY NothingIsTyped DEF Init
<1>4. at \in [Moments -> Accounts \union PackIds] /\ receives \subseteq Accounts \X Types
    BY DEF Init
<1>5. links \in [Pairs -> {"none", "offered", "redeemed"}]
    BY DEF Init
<1> QED BY <1>1, <1>2, <1>3, <1>4, <1>5, NothingIsTyped DEF IInv, TypeOK, PacksOK, Exists

LEMMA NextKeeps == ASSUME IInv, [Next]_vars PROVE IInv'
<1>1. CASE UNCHANGED vars
    BY <1>1 DEF vars, IInv, TypeOK, PacksOK, Exists
<1>2. ASSUME NEW p \in PackIds, NEW s \in Sponsors, NEW a \in Accounts, Reclaim(s, p, a)
      PROVE  IInv'
    BY <1>2, DrainKeeps DEF Reclaim
<1>3. ASSUME NEW p \in PackIds, NEW opener \in Accounts, NEW dest \in Accounts,
             OpenAs(p, opener, dest)
      PROVE  IInv'
    BY <1>3, DrainKeeps DEF OpenAs
<1> QED BY <1>1, <1>2, <1>3, RelinkKeeps, SetReceivesKeeps, TransferKeeps, TickKeeps,
           SealKeeps, AssignKeeps DEF Next

LEMMA Invariance == Spec => []IInv
BY InitHolds, NextKeeps, PTL DEF Spec

(* Every reachable state is well typed, and no moment is left in a pack    *)
(* that openAs() or reclaim() destroyed.                                   *)
THEOREM TypeCorrect == Spec => []TypeOK
<1>1. IInv => TypeOK
    BY DEF IInv
<1> QED BY <1>1, Invariance, PTL
-----------------------------------------------------------------------------
(* What happens to the packs the counter has passed.                       *)
PackKept(p) ==
    Exists(p)' => /\ Exists(p)
                  /\ Nfts(p)' = Nfts(p)
                  /\ packs'[p].sponsor = packs[p].sponsor

LEMMA DrainKeepsIds ==
    ASSUME IInv, NEW p \in PackIds, NEW q \in PackIds, NEW a \in Accounts, Drain(q, a)
    PROVE  PackKept(p)
<1>1. p = q => ~Exists(p)'
    BY DEF Drain, IInv, TypeOK, Exists
<1>2. p # q => packs'[p] = packs[p] /\ Nfts(p)' = Nfts(p)
    BY AccountsAreNotPacks DEF Drain, IInv, TypeOK, Nfts
<1> QED BY <1>1, <1>2 DEF PackKept, Exists

LEMMA StepKeepsIds ==
    ASSUME IInv, [Next]_vars, NEW p \in 1..(nextPackID - 1)
    PROVE  PackKept(p)
<1>1. p \in PackIds /\ p # nextPackID
    BY NumberAssumption DEF IInv, TypeOK, PackIds
<1>2. ASSUME UNCHANGED <<at, packs>> PROVE PackKept(p)
    BY <1>2 DEF PackKept, Exists, Nfts
<1>3. ASSUME NEW s \in Sponsors, NEW ms \in SUBSET Moments, Seal(s, ms)
      PROVE  PackKept(p)
    <2>1. packs'[p] = packs[p]
        BY <1>1, <1>3 DEF Seal, NewId, IInv, TypeOK
    <2>2. Nfts(p)' = Nfts(p)
        <3>1. \A m \in ms : at[m] # p
            BY <1>1, <1>3, AccountsAreNotPacks, ValueAssumption DEF Seal
        <3>2. \A m \in Moments : at'[m] = p <=> at[m] = p
            BY <1>1, <1>3, <3>1 DEF Seal, NewId
        <3> QED BY <3>2 DEF Nfts
    <2> QED BY <2>1, <2>2 DEF PackKept, Exists
<1>4. ASSUME NEW s \in Sponsors, NEW q \in PackIds, NEW a \in Accounts, Assign(s, q, a)
      PROVE  PackKept(p)
    <2>1. Exists(q)
        BY <1>4, NothingIsTyped, ValueAssumption DEF Assign, Exists
    <2>2. packs'[p].sponsor = packs[p].sponsor /\ (p # q => packs'[p] = packs[p])
        BY <1>1, <1>4 DEF Assign, IInv, TypeOK, PackType
    <2> QED BY <1>4, <2>1, <2>2 DEF PackKept, Exists, Nfts, Assign
<1>5. ASSUME NEW s \in Sponsors, NEW q \in PackIds, NEW a \in Accounts, Reclaim(s, q, a)
      PROVE  PackKept(p)
    BY <1>1, <1>5, DrainKeepsIds DEF Reclaim
<1>6. ASSUME NEW q \in PackIds, NEW o \in Accounts, NEW a \in Accounts, OpenAs(q, o, a)
      PROVE  PackKept(p)
    BY <1>1, <1>6, DrainKeepsIds DEF OpenAs
<1>7. ASSUME NEW m \in Moments, NEW a \in Accounts, Transfer(m, a) PROVE PackKept(p)
    <2>1. Nfts(p)' = Nfts(p)
        BY <1>1, <1>7, AccountsAreNotPacks DEF Transfer, IInv, TypeOK, Nfts
    <2> QED BY <1>7, <2>1 DEF PackKept, Exists, Transfer
<1>8. CASE Tick
    <2>1. packs'[p].sponsor = packs[p].sponsor /\ (Exists(p)' => Exists(p))
        BY <1>1, <1>8, TickOnlyWaits, NothingIsTyped DEF Assigned, Exists
    <2> QED BY <1>8, <2>1 DEF PackKept, Nfts, Tick
<1>9. ASSUME NEW pair \in Pairs, Relink(pair) PROVE PackKept(p)
    BY <1>2, <1>9 DEF Relink, SetLink
<1>10. ASSUME NEW a \in Accounts, NEW t \in Types, SetReceives(a, t) PROVE PackKept(p)
    BY <1>2, <1>10 DEF SetReceives
<1>11. CASE UNCHANGED vars
    BY <1>2, <1>11 DEF vars
<1> QED BY <1>3, <1>4, <1>5, <1>6, <1>7, <1>8, <1>9, <1>10, <1>11 DEF Next

(* An id names one pack for good, however the transactions of sponsors and *)
(* winners that were built on an earlier reading interleave.               *)
THEOREM IdsArePermanent == Spec => IdNamesOnePack
<1>1. IInv /\ [Next]_vars =>
          [\A p \in 1..(nextPackID - 1) :
              Exists(p)' => /\ Exists(p)
                            /\ Nfts(p)' = Nfts(p)
                            /\ packs'[p].sponsor = packs[p].sponsor]_vars
    BY StepKeepsIds DEF PackKept
<1> QED BY <1>1, Invariance, PTL DEF Spec, IdNamesOnePack
-----------------------------------------------------------------------------
(* The refinement.                                                         *)

(* What the abstract variables say of one moment.                          *)
LEMMA Bars ==
    ASSUME NEW m \in Moments
    PROVE  /\ holderBar[m] = IF Sealed(m) THEN None ELSE at[m]
           /\ giverBar[m] = IF Sealed(m) THEN packs[at[m]].sponsor ELSE None
           /\ winnerBar[m] = IF Sealed(m) THEN packs[at[m]].recipient ELSE None
BY DEF holderBar, giverBar, winnerBar

LEMMA GivenIsSealed ==
    ASSUME NEW ms \in SUBSET Moments, ms # {}, \A m \in ms : Sealed(m)
    PROVE  Gift!Given(ms)
BY Bars DEF Gift!Given

LEMMA InitIsAbstract == Init => Gift!Init
<1> SUFFICES ASSUME Init PROVE Gift!Init
    OBVIOUS
<1>1. \A m \in Moments : ~Sealed(m)
    BY AccountsAreNotPacks DEF Init, Sealed
<1>2. holderBar \in [Moments -> Accounts]
    BY <1>1 DEF holderBar, Init
<1>3. giverBar = [m \in Moments |-> None] /\ winnerBar = [m \in Moments |-> None]
    BY <1>1 DEF giverBar, winnerBar
<1>4. ripeBar = {} /\ familyBar \in SUBSET (Accounts \X Accounts)
    BY <1>1 DEF ripeBar, familyBar, Pairs
<1> QED BY <1>2, <1>3, <1>4 DEF Gift!Init

(* Sealing gives, naming names.                                            *)
LEMMA SealGives ==
    ASSUME IInv, NEW s \in Sponsors, NEW ms \in SUBSET Moments, Seal(s, ms)
    PROVE  Gift!Give(ms, s)
<1>1. nextPackID \in PackIds
    BY NumberAssumption DEF Seal, NewId, PackIds, IInv, TypeOK
<1>2. PICK r \in PackType : r = [NoPack EXCEPT !.sponsor = s]
    BY NothingIsTyped DEF PackType
<1>3. r.sponsor = s /\ r.recipient = None
    BY <1>2 DEF NoPack
<1>4. packs'[nextPackID] = r /\ \A p \in PackIds \ {nextPackID} : packs'[p] = packs[p]
    BY <1>1, <1>2 DEF Seal, NewId, IInv, TypeOK
<1>5. \A m \in Moments : at'[m] = IF m \in ms THEN nextPackID ELSE at[m]
    BY DEF Seal, NewId
<1>6. \A m \in ms : at[m] = OwnerOf[s] /\ at[m] \in Accounts /\ ~Sealed(m)
    BY AccountsAreNotPacks, ValueAssumption DEF Seal, Sealed
<1>7. \A m \in Moments : at[m] # nextPackID
    BY <1>1 DEF Seal, NewId, IInv, TypeOK, Exists
<1>8. \A m \in Moments : Sealed(m)' <=> (m \in ms \/ Sealed(m))
    BY <1>1, <1>5 DEF Sealed
<1>9. \A m \in Moments \ ms : Sealed(m) => packs'[at'[m]] = packs[at[m]] /\ at'[m] = at[m]
    BY <1>4, <1>5, <1>7 DEF Sealed
<1>10. \A m \in ms : at'[m] = nextPackID /\ packs'[at'[m]] = r
    BY <1>4, <1>5
<1>11. holderBar' = Gift!With(holderBar, ms, None)
    BY <1>5, <1>8, Bars DEF holderBar, Gift!With
<1>12. giverBar' = Gift!With(giverBar, ms, s)
    BY <1>3, <1>8, <1>9, <1>10, Bars DEF giverBar, Gift!With
<1>13. winnerBar' = winnerBar
    BY <1>3, <1>6, <1>8, <1>9, <1>10 DEF winnerBar
<1>14. ripeBar' = ripeBar
    BY <1>3, <1>6, <1>8, <1>9, <1>10 DEF ripeBar, Assigned
<1>15. familyBar' = familyBar
    BY DEF familyBar, Seal
<1> QED BY <1>6, <1>11, <1>12, <1>13, <1>14, <1>15, Bars DEF Gift!Give, Seal

(* Naming the winner of a pack names it for every moment of the pack.      *)
LEMMA AssignNames ==
    ASSUME IInv, NEW s \in Sponsors, NEW p \in PackIds, NEW a \in Accounts, Assign(s, p, a)
    PROVE  Gift!Name(Nfts(p), a) \/ UNCHANGED Gift!vars
<1>1. PICK r \in PackType : r = [packs[p] EXCEPT !.recipient = a]
    BY DEF IInv, TypeOK, PackType
<1>2. r.sponsor = packs[p].sponsor /\ r.recipient = a /\ r.waited = 0 /\ a # None
    BY <1>1, ValueAssumption DEF Assign, Assigned, IInv, TypeOK, PackType, PacksOK
<1>3. packs'[p] = r /\ \A q \in PackIds \ {p} : packs'[q] = packs[q]
    BY <1>1 DEF Assign, IInv, TypeOK
<1>4. \A m \in Moments : Sealed(m)' <=> Sealed(m)
    BY DEF Assign, Sealed
<1>5. holderBar' = holderBar /\ familyBar' = familyBar
    BY <1>4 DEF holderBar, familyBar, Assign
<1>6. giverBar' = giverBar
    BY <1>2, <1>3, <1>4 DEF giverBar, Assign, Sealed
<1>7. ripeBar' = ripeBar
    <2> SUFFICES ASSUME NEW m \in Moments, Sealed(m)
                 PROVE  (Assigned(at[m]) /\ packs[at[m]].waited >= Delay)'
                          <=> (Assigned(at[m]) /\ packs[at[m]].waited >= Delay)
        BY <1>4 DEF ripeBar
    <2>1. CASE at[m] = p
        <3>1. packs'[at'[m]].waited = 0 /\ ~Assigned(at[m])
            BY <1>2, <1>3, <2>1 DEF Assign
        <3> QED BY <3>1, NumberAssumption
    <2>2. CASE at[m] # p
        BY <1>3, <2>2 DEF Assign, Assigned, Sealed
    <2> QED BY <2>1, <2>2
<1>8. winnerBar' = Gift!With(winnerBar, Nfts(p), a)
    <2> SUFFICES ASSUME NEW m \in Moments
                 PROVE  winnerBar'[m] = IF m \in Nfts(p) THEN a ELSE winnerBar[m]
        BY DEF winnerBar, Gift!With
    <2>1. winnerBar'[m] = IF Sealed(m) THEN packs'[at[m]].recipient ELSE None
        BY <1>4 DEF winnerBar, Assign
    <2>2. CASE at[m] = p
        BY <1>2, <1>3, <2>1, <2>2 DEF Nfts, Sealed
    <2>3. CASE at[m] # p
        BY <1>3, <2>1, <2>3, Bars DEF Nfts, Sealed
    <2> QED BY <2>2, <2>3
<1>9. \A m \in Nfts(p) : Sealed(m) /\ winnerBar[m] = None
    BY Bars DEF Nfts, Sealed, Assign, Assigned
<1>10. CASE Nfts(p) = {}
    <2>1. winnerBar' = winnerBar
        BY <1>8, <1>10, Bars DEF winnerBar, Gift!With
    <2> QED BY <1>5, <1>6, <1>7, <2>1 DEF Gift!vars
<1>11. CASE Nfts(p) # {}
    <2>1. Gift!Given(Nfts(p))
        BY <1>9, <1>11, GivenIsSealed DEF Nfts
    <2> QED BY <1>5, <1>6, <1>7, <1>8, <1>9, <2>1 DEF Gift!Name
<1> QED BY <1>10, <1>11

(* Emptying a pack settles its moments.                                    *)
LEMMA DrainSettles ==
    ASSUME IInv, NEW p \in PackIds, NEW a \in Accounts, Drain(p, a)
    PROVE  IF Nfts(p) = {} THEN UNCHANGED Gift!vars
                           ELSE Gift!Given(Nfts(p)) /\ Gift!Settle(Nfts(p), a)
<1>1. packs'[p] = NoPack /\ \A q \in PackIds \ {p} : packs'[q] = packs[q]
    BY DEF Drain, IInv, TypeOK
<1>2. \A m \in Moments : at'[m] = IF m \in Nfts(p) THEN a ELSE at[m]
    BY DEF Drain, Nfts
<1>3. \A m \in Nfts(p) : Sealed(m) /\ ~Sealed(m)'
    BY <1>2, AccountsAreNotPacks DEF Nfts, Sealed
<1>4. \A m \in Moments \ Nfts(p) :
          /\ Sealed(m)' <=> Sealed(m)
          /\ at'[m] = at[m]
          /\ Sealed(m) => packs'[at[m]] = packs[at[m]]
    BY <1>1, <1>2 DEF Nfts, Sealed
<1>5. holderBar' = Gift!With(holderBar, Nfts(p), a)
    BY <1>2, <1>3, <1>4, Bars DEF holderBar, Gift!With
<1>6. giverBar' = Gift!With(giverBar, Nfts(p), None)
    BY <1>3, <1>4, Bars DEF giverBar, Gift!With
<1>7. winnerBar' = Gift!With(winnerBar, Nfts(p), None)
    BY <1>3, <1>4, Bars DEF winnerBar, Gift!With
<1>8. ripeBar' = ripeBar \ Nfts(p)
    BY <1>3, <1>4 DEF ripeBar, Assigned
<1>9. familyBar' = familyBar
    BY DEF familyBar, Drain
<1>10. CASE Nfts(p) = {}
    <2>1. holderBar' = holderBar /\ giverBar' = giverBar /\ winnerBar' = winnerBar
        BY <1>4, <1>10 DEF holderBar, giverBar, winnerBar
    <2> QED BY <1>8, <1>9, <1>10, <2>1 DEF Gift!vars
<1>11. CASE Nfts(p) # {}
    <2>1. Gift!Given(Nfts(p))
        BY <1>3, <1>11, GivenIsSealed DEF Nfts
    <2> QED BY <1>5, <1>6, <1>7, <1>8, <1>9, <1>11, <2>1 DEF Gift!Settle
<1> QED BY <1>10, <1>11

LEMMA OpenDelivers ==
    ASSUME IInv, NEW p \in PackIds, NEW opener \in Accounts, NEW dest \in Accounts,
           OpenAs(p, opener, dest)
    PROVE  \/ UNCHANGED Gift!vars
           \/ \E w \in Accounts : Gift!Deliver(Nfts(p), w, opener, dest)
<1>1. PICK w \in Accounts : w = packs[p].recipient
    BY DEF OpenAs, Assigned, IInv, TypeOK, PackType
<1>2. \A m \in Nfts(p) : winnerBar[m] = w
    BY <1>1, Bars DEF Nfts, Sealed
<1>3. Gift!MayAsk(opener, w)
    BY <1>1 DEF OpenAs, IsRedeemedParent, familyBar, Gift!MayAsk
<1>4. dest \in Gift!OwnAccounts(opener, w)
    BY <1>1 DEF OpenAs, IsRedeemedParent, familyBar, Gift!OwnAccounts
<1> QED BY <1>2, <1>3, <1>4, DrainSettles DEF OpenAs, Gift!Deliver

LEMMA ReclaimTakesBack ==
    ASSUME IInv, NEW s \in Sponsors, NEW p \in PackIds, NEW dest \in Accounts,
           Reclaim(s, p, dest)
    PROVE  UNCHANGED Gift!vars \/ Gift!TakeBack(Nfts(p), s, dest)
<1>1. \A m \in Nfts(p) : /\ giverBar[m] = s
                         /\ winnerBar[m] = None \/ m \in ripeBar
    BY Bars DEF Reclaim, Reclaimable, Assigned, Nfts, Sealed, ripeBar
<1> QED BY <1>1, DrainSettles DEF Reclaim, Gift!TakeBack

(* Time makes ripe what an assigned pack holds, and does nothing else.     *)
LEMMA TickRipens ==
    ASSUME IInv, Tick
    PROVE  UNCHANGED Gift!vars \/ \E ms \in SUBSET Moments : Gift!Ripen(ms)
<1>1. \A m \in Moments : Sealed(m)' <=> Sealed(m)
    BY DEF Tick, Sealed
<1>2. \A m \in Moments : Sealed(m) =>
          /\ packs'[at[m]].sponsor = packs[at[m]].sponsor
          /\ packs'[at[m]].recipient = packs[at[m]].recipient
          /\ packs[at[m]].waited >= Delay => packs'[at[m]].waited >= Delay
    BY TickOnlyWaits DEF Sealed
<1>3. holderBar' = holderBar /\ familyBar' = familyBar
    BY <1>1 DEF holderBar, familyBar, Tick
<1>4. giverBar' = giverBar /\ winnerBar' = winnerBar
    BY <1>1, <1>2 DEF giverBar, winnerBar, Tick
<1>5. ripeBar \subseteq ripeBar'
    BY <1>1, <1>2 DEF ripeBar, Assigned, Tick
<1>6. PICK ms \in SUBSET Moments : ms = ripeBar' \ ripeBar
    BY <1>1 DEF ripeBar
<1>7. \A m \in ms : Sealed(m) /\ winnerBar[m] # None
    BY <1>1, <1>2, <1>6, Bars DEF ripeBar, Assigned, Tick
<1>8. CASE ms = {}
    BY <1>3, <1>4, <1>5, <1>6, <1>8 DEF Gift!vars
<1>9. CASE ms # {}
    <2>1. Gift!Given(ms)
        BY <1>7, <1>9, GivenIsSealed
    <2>2. ripeBar' = ripeBar \union ms
        BY <1>5, <1>6
    <2> QED BY <1>3, <1>4, <1>7, <2>1, <2>2 DEF Gift!Ripen
<1> QED BY <1>8, <1>9

LEMMA TransferMoves ==
    ASSUME IInv, NEW m \in Moments, NEW a \in Accounts, Transfer(m, a)
    PROVE  Gift!Move(m, a)
<1>1. \A n \in Moments : at'[n] = IF n = m THEN a ELSE at[n]
    BY DEF Transfer, IInv, TypeOK
<1>2. ~Sealed(m) /\ ~Sealed(m)'
    BY <1>1, AccountsAreNotPacks DEF Transfer, Sealed
<1>3. \A n \in Moments : (Sealed(n)' <=> Sealed(n)) /\ (n # m => at'[n] = at[n])
    BY <1>1, <1>2 DEF Sealed
<1>4. holderBar' = [holderBar EXCEPT ![m] = a]
    BY <1>1, <1>2, <1>3 DEF holderBar
<1>5. giverBar' = giverBar /\ winnerBar' = winnerBar
    BY <1>2, <1>3 DEF giverBar, winnerBar, Transfer
<1>6. ripeBar' = ripeBar
    BY <1>2, <1>3 DEF ripeBar, Assigned, Transfer
<1>7. familyBar' = familyBar
    BY DEF familyBar, Transfer
<1>8. holderBar[m] # None
    BY <1>2, Bars, AccountsAreNotPacks DEF Transfer
<1> QED BY <1>4, <1>5, <1>6, <1>7, <1>8 DEF Gift!Move

(* What leaves packs and moments alone at most changes the families.       *)
LEMMA AroundRelinks ==
    ASSUME UNCHANGED <<at, packs>>
    PROVE  UNCHANGED Gift!vars \/ Gift!Relink
<1>1. UNCHANGED <<holderBar, giverBar, winnerBar, ripeBar>>
    BY DEF holderBar, giverBar, winnerBar, ripeBar, Sealed, Assigned
<1>2. familyBar' \in SUBSET (Accounts \X Accounts)
    BY DEF familyBar, Pairs
<1> QED BY <1>1, <1>2 DEF Gift!Relink, Gift!vars

LEMMA StepIsAbstract ==
    ASSUME IInv, [Next]_vars
    PROVE  [Gift!Next]_(Gift!vars)
<1> DEFINE Done == Gift!Next \/ UNCHANGED Gift!vars
<1>1. ASSUME UNCHANGED <<at, packs>> PROVE Done
    BY <1>1, AroundRelinks DEF Gift!Next
<1>2. ASSUME NEW s \in Sponsors, NEW ms \in SUBSET Moments, Seal(s, ms) PROVE Done
    BY <1>2, SealGives DEF Gift!Next
<1>3. ASSUME NEW s \in Sponsors, NEW p \in PackIds, NEW a \in Accounts,
             Assign(s, p, a) \/ Reclaim(s, p, a)
      PROVE  Done
    <2>1. PICK ms \in SUBSET Moments : ms = Nfts(p)
        BY DEF Nfts
    <2> QED BY <1>3, <2>1, AssignNames, ReclaimTakesBack DEF Gift!Next
<1>4. ASSUME NEW p \in PackIds, NEW o \in Accounts, NEW a \in Accounts, OpenAs(p, o, a)
      PROVE  Done
    <2>1. PICK ms \in SUBSET Moments : ms = Nfts(p)
        BY DEF Nfts
    <2> QED BY <1>4, <2>1, OpenDelivers DEF Gift!Next
<1>5. ASSUME NEW m \in Moments, NEW a \in Accounts, Transfer(m, a) PROVE Done
    BY <1>5, TransferMoves DEF Gift!Next
<1>6. CASE Tick
    BY <1>6, TickRipens DEF Gift!Next
<1>7. ASSUME NEW pair \in Pairs, Relink(pair) PROVE Done
    BY <1>1, <1>7 DEF Relink, SetLink
<1>8. ASSUME NEW a \in Accounts, NEW t \in Types, SetReceives(a, t) PROVE Done
    BY <1>1, <1>8 DEF SetReceives
<1>9. CASE UNCHANGED vars
    BY <1>1, <1>9 DEF vars
<1> QED BY <1>2, <1>3, <1>4, <1>5, <1>6, <1>7, <1>8, <1>9 DEF Next

(* The contract implements the sealed gift: whatever sponsors, winners,    *)
(* parents, links and time do, a sealed moment goes to an account of its   *)
(* winner's, or back under the rules of reclaim().                         *)
THEOREM Implements == Spec => ImplementsSealedGift
<1>1. IInv /\ [Next]_vars => [Gift!Next]_(Gift!vars)
    BY StepIsAbstract
<1> QED BY <1>1, InitIsAbstract, Invariance, PTL DEF Spec, ImplementsSealedGift, Gift!Spec
=============================================================================
