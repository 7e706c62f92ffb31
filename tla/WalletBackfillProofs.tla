------------------------ MODULE WalletBackfillProofs ------------------------
(***************************************************************************)
(* What TLAPS proves of the wallet backfill, for every set of moments, any *)
(* number of walks and every duration, chunk size, cap and bound:          *)
(*   TypeCorrect       Spec => []TypeOK                                    *)
(*   WalksExclude      Spec => []OneWalk                                   *)
(*   CleanWalksProve   Spec => []CleanMeansGone                            *)
(*   RetiresTheGone    Spec => RetiredWasGone                              *)
(*   WalksFollowMirror, WalksImplementMirror                               *)
(*                     every step keeps the promises of Mirror             *)
(* The inductive invariant adds what a walk may rely on: what it has read  *)
(* covers the moments that stayed (Sound), its claim is younger than it is *)
(* (Owner), and, while it is alone, each of those moments has a row or is  *)
(* still to be written (Backed).  The refinement also needs that a walk    *)
(* writes only what it saw, and saw nothing if it proves so (Seeing).      *)
(***************************************************************************)
EXTENDS WalletBackfillRefinement, TLAPS

(* Past a reading that may retire rows.                                    *)
Later == {"list", "write", "load", "confirm", "remove", "stamp"}

Sound(q) ==
    /\ q.since \subseteq held
    /\ q.pc \in Later => q.since \subseteq q.observed
    /\ q.pc \in {"confirm", "remove"} => q.todo \intersect q.since = {}

Owner(q) == q.pc \notin {"idle", "claim"} => lock.taken /\ lock.age <= q.age

Backed(q) ==
    /\ q.pc \in Later => stamp.sure \subseteq q.since
    /\ q.pc = "write" /\ ~q.lost => q.since \subseteq cache \union q.todo
    /\ q.pc \in {"load", "confirm", "remove", "stamp"} /\ ~q.lost => q.since \subseteq cache

Exclusive == \A v, w \in Walks : Walking(v) /\ Walking(w) => v = w

IInv ==
    /\ TypeOK
    /\ stamp.sure \subseteq held
    /\ \A w \in Walks : Sound(walk[w])
    /\ ~opened => /\ Exclusive
                  /\ \A w \in Walks : Owner(walk[w]) /\ Backed(walk[w])
                  /\ stamp.whole => stamp.sure \subseteq cache
-----------------------------------------------------------------------------
(* What every step of one walk has to show: either it is the only walk     *)
(* past its claim, or it changes nothing that others rely on.              *)
LEMMA OneWalkMoves ==
    ASSUME IInv,
           NEW w \in Walks, NEW q \in WalkType,
           walk' = [walk EXCEPT ![w] = q],
           UNCHANGED chain,
           cache' \in SUBSET Moments, stamp' \in StampType, lock' \in LockType,
           opened' \in BOOLEAN, opened => opened', faults' \in 0..MaxFaults,
           stamp'.sure \subseteq held,
           Sound(q),
           ~opened' =>
              \/ \A v \in Walks : Walking(v) => v = w
              \/ q.pc \in {"idle", "claim"} /\ UNCHANGED <<cache, stamp, lock>>,
           ~opened' => Owner(q)' /\ Backed(q)' /\ (stamp'.whole => stamp'.sure \subseteq cache')
    PROVE  IInv'
<1>1. walk'[w] = q /\ \A v \in Walks \ {w} : walk'[v] = walk[v]
    BY DEF IInv, TypeOK
<1>2. TypeOK'
    BY DEF IInv, TypeOK, chain
<1>3. \A v \in Walks : Sound(walk[v])'
    <2>1. Sound(q)'
        BY DEF Sound, chain
    <2>2. ASSUME NEW v \in Walks \ {w}
          PROVE  Sound(walk[v])'
        BY <1>1, <2>2 DEF IInv, Sound, chain
    <2> QED BY <1>1, <2>1, <2>2 DEF Sound
<1>4. ASSUME ~opened'
      PROVE  /\ Exclusive'
             /\ \A v \in Walks : Owner(walk[v])' /\ Backed(walk[v])'
    <2>1. ~opened
        BY <1>4 DEF IInv, TypeOK
    <2>2. CASE \A v \in Walks : Walking(v) => v = w
        <3>1. \A v \in Walks \ {w} : walk'[v].pc \in {"idle", "claim"}
            BY <1>1, <2>2 DEF Walking
        <3>2. Exclusive'
            BY <3>1 DEF Exclusive, Walking
        <3>3. \A v \in Walks \ {w} : Owner(walk[v])' /\ Backed(walk[v])'
            BY <3>1 DEF Owner, Backed, Later
        <3> QED BY <1>1, <1>4, <3>2, <3>3 DEF Owner, Backed
    <2>3. CASE q.pc \in {"idle", "claim"} /\ UNCHANGED <<cache, stamp, lock>>
        <3>1. Exclusive'
            BY <1>1, <2>1, <2>3 DEF IInv, Exclusive, Walking
        <3>2. \A v \in Walks \ {w} : Owner(walk[v])' /\ Backed(walk[v])'
            BY <1>1, <2>1, <2>3 DEF IInv, Owner, Backed
        <3> QED BY <1>1, <1>4, <3>1, <3>2 DEF Owner, Backed
    <2> QED BY <1>4, <2>2, <2>3
<1> QED BY <1>2, <1>3, <1>4 DEF IInv, chain

(* A walk that starts, or one that ends without touching anything else.    *)
LEMMA QuietWalk ==
    ASSUME IInv, NEW w \in Walks, NEW q \in WalkType,
           q.pc \in {"idle", "claim"}, q.since = {},
           walk' = [walk EXCEPT ![w] = q],
           UNCHANGED <<chain, cache, stamp, lock, opened>>,
           faults' \in 0..MaxFaults
    PROVE  IInv'
<1>1. Sound(q) /\ Owner(q)' /\ Backed(q)'
    BY DEF Sound, Owner, Backed, Later
<1>2. ~opened => (stamp.whole => stamp.sure \subseteq cache)
    BY DEF IInv
<1> QED BY <1>1, <1>2, OneWalkMoves DEF IInv, TypeOK

LEMMA NothingIsTyped == Idle \in WalkType /\ Free \in LockType /\ Taken \in LockType
BY NumberAssumption DEF Idle, Free, Taken, WalkType, LockType, Pcs

LEMMA FaultIsCounted == ASSUME IInv, Fault PROVE faults' \in 0..MaxFaults
BY NumberAssumption DEF IInv, TypeOK, Fault

LEMMA StartKeeps ==
    ASSUME IInv, NEW w \in Walks, NEW skip \in BOOLEAN, Start(w, skip)
    PROVE  IInv'
<1> DEFINE q == [Idle EXCEPT !.pc = "claim", !.skip = skip]
<1>1. q \in WalkType /\ q.pc = "claim" /\ q.since = {}
    BY NothingIsTyped DEF Idle, WalkType, Pcs
<1>2. PICK r \in WalkType : r = q
    BY <1>1
<1> QED BY <1>1, <1>2, QuietWalk DEF Start, IInv, TypeOK

LEMMA KillKeeps ==
    ASSUME IInv, NEW w \in Walks, Kill(w)
    PROVE  IInv'
<1>1. Idle.pc = "idle" /\ Idle.since = {}
    BY DEF Idle
<1>2. PICK r \in WalkType : r = Idle
    BY NothingIsTyped
<1> QED BY <1>1, <1>2, QuietWalk, FaultIsCounted DEF Kill, End, IInv, TypeOK

(* A claim that succeeds meets no other walk: the lock is free, or its     *)
(* claim is older than any living walk.                                    *)
LEMMA ClaimableIsUnused ==
    ASSUME IInv, ~opened, Claimable
    PROVE  \A v \in Walks : ~Walking(v)
<1> SUFFICES ASSUME NEW v \in Walks, Walking(v) PROVE FALSE
    OBVIOUS
<1>1. lock.taken /\ lock.age <= walk[v].age
    BY DEF IInv, Owner, Walking
<1>2. walk[v].age \in 0..MaxDuration /\ lock.age \in Nat
    BY DEF IInv, TypeOK, WalkType, LockType
<1> QED BY <1>1, <1>2, KilledBeforeStale, NumberAssumption DEF Claimable

LEMMA ClaimKeeps ==
    ASSUME IInv, NEW w \in Walks, Claim(w)
    PROVE  IInv'
<1>1. CASE ~Claimable
    <2>1. Idle.pc = "idle" /\ Idle.since = {}
        BY DEF Idle
    <2>2. PICK r \in WalkType : r = Idle
        BY NothingIsTyped
    <2> QED BY <1>1, <2>1, <2>2, QuietWalk DEF Claim, End, IInv, TypeOK
<1>2. CASE Claimable
    <2>1. PICK q \in WalkType : q = [walk[w] EXCEPT !.pc = "read"]
        BY DEF IInv, TypeOK, WalkType, Pcs
    <2>2. q.pc = "read" /\ q.since = walk[w].since /\ q.age = walk[w].age
        BY <2>1 DEF IInv, TypeOK, WalkType
    <2>3. walk' = [walk EXCEPT ![w] = q] /\ lock' = Taken
        BY <1>2, <2>1 DEF Claim, Goto
    <2>4. Sound(q)
        BY <2>2 DEF IInv, Sound, Later
    <2>5. Owner(q)' /\ Backed(q)'
        <3>1. q.age \in Nat
            BY NumberAssumption DEF WalkType
        <3> QED BY <2>2, <2>3, <3>1 DEF Owner, Backed, Later, Taken
    <2>6. ~opened' => /\ \A v \in Walks : Walking(v) => v = w
                      /\ stamp.whole => stamp.sure \subseteq cache
        BY <1>2, ClaimableIsUnused DEF Claim, IInv
    <2> QED BY <2>3, <2>4, <2>5, <2>6, OneWalkMoves, NothingIsTyped
            DEF Claim, IInv, TypeOK
<1> QED BY <1>1, <1>2

LEMMA ClaimFailsKeeps ==
    ASSUME IInv, NEW w \in Walks, ClaimFails(w)
    PROVE  IInv'
<1>0. faults' \in 0..MaxFaults
    BY FaultIsCounted DEF ClaimFails
<1>1. CASE End(w) /\ opened' = opened /\ lock' = lock
    <2>1. Idle.pc = "idle" /\ Idle.since = {}
        BY DEF Idle
    <2>2. PICK r \in WalkType : r = Idle
        BY NothingIsTyped
    <2> QED BY <1>0, <1>1, <2>1, <2>2, QuietWalk DEF ClaimFails, End, IInv, TypeOK
<1>2. CASE Goto(w, "read") /\ opened' = TRUE /\ lock' \in {lock, Taken}
    <2>1. PICK q \in WalkType : q = [walk[w] EXCEPT !.pc = "read"]
        BY DEF IInv, TypeOK, WalkType, Pcs
    <2>2. q.pc = "read" /\ q.since = walk[w].since
        BY <2>1 DEF IInv, TypeOK, WalkType
    <2>3. Sound(q)
        BY <2>2 DEF IInv, Sound, Later
    <2> QED BY <1>0, <1>2, <2>1, <2>3, OneWalkMoves, NothingIsTyped
            DEF ClaimFails, Goto, IInv, TypeOK
<1> QED BY <1>1, <1>2 DEF ClaimFails

LEMMA ReleaseKeeps ==
    ASSUME IInv, NEW w \in Walks, Release(w)
    PROVE  IInv'
<1>1. PICK q \in WalkType : q = Idle
    BY NothingIsTyped
<1>2. q.pc = "idle" /\ q.since = {}
    BY <1>1 DEF Idle
<1>3. Sound(q) /\ Owner(q)' /\ Backed(q)'
    BY <1>2 DEF Sound, Owner, Backed, Later
<1>4. ~opened' => /\ \A v \in Walks : Walking(v) => v = w
                  /\ stamp.whole => stamp.sure \subseteq cache
    BY DEF IInv, Exclusive, Walking, Release
<1>5. lock' \in LockType /\ faults' \in 0..MaxFaults
    BY NothingIsTyped, FaultIsCounted DEF Release, IInv, TypeOK
<1> QED BY <1>1, <1>3, <1>4, <1>5, OneWalkMoves DEF Release, End, IInv, TypeOK
-----------------------------------------------------------------------------
(* Steps of a walk past its claim that leave the lock alone.               *)
LEMMA WalkingMoves ==
    ASSUME IInv, NEW w \in Walks, NEW q \in WalkType,
           Walking(w), q.pc \notin {"idle", "claim"}, q.age = walk[w].age,
           walk' = [walk EXCEPT ![w] = q],
           UNCHANGED <<chain, lock, opened>>,
           cache' \in SUBSET Moments, stamp' \in StampType, faults' \in 0..MaxFaults,
           stamp'.sure \subseteq held,
           Sound(q),
           ~opened => Backed(q)' /\ (stamp'.whole => stamp'.sure \subseteq cache')
    PROVE  IInv'
<1>1. ~opened => Owner(q)' /\ \A v \in Walks : Walking(v) => v = w
    BY DEF IInv, Owner, Exclusive, Walking
<1> QED BY <1>1, OneWalkMoves DEF IInv, TypeOK

LEMMA FinishKeeps ==
    ASSUME IInv, NEW w \in Walks, Walking(w), Finish(w),
           UNCHANGED <<chain, lock, opened>>,
           cache' \in SUBSET Moments, stamp' \in StampType, faults' \in 0..MaxFaults,
           stamp'.sure \subseteq held,
           ~opened => (stamp'.whole => stamp'.sure \subseteq cache')
    PROVE  IInv'
<1>1. PICK q \in WalkType : q = [Idle EXCEPT !.pc = "release", !.age = walk[w].age]
    BY NothingIsTyped DEF IInv, TypeOK, WalkType, Pcs, Idle
<1>2. q.pc = "release" /\ q.age = walk[w].age /\ q.since = {}
    BY <1>1 DEF Idle
<1>3. Sound(q) /\ Backed(q)'
    BY <1>2 DEF Sound, Backed, Later
<1> QED BY <1>1, <1>2, <1>3, WalkingMoves DEF Finish

LEMMA ReadKeeps ==
    ASSUME IInv, NEW w \in Walks, Read(w)
    PROVE  IInv'
<1> DEFINE pc == CASE Observed = {} -> "prove"
                   [] walk[w].skip /\ Observed # {} -> "list"
                   [] OTHER -> "write"
<1>1. PICK q \in WalkType :
          q = [walk[w] EXCEPT !.observed = Observed, !.since = held,
                              !.todo = Observed, !.pc = pc]
    BY DEF IInv, TypeOK, WalkType, Pcs, Observed
<1>2. /\ q.observed = Observed /\ q.since = held /\ q.todo = Observed
      /\ q.pc = pc /\ q.age = walk[w].age
    BY <1>1 DEF IInv, TypeOK, WalkType
<1>3. q.pc = "prove" \/ (Observed # {} /\ q.pc \in {"list", "write"})
    BY <1>2 DEF IInv, TypeOK, WalkType
<1>4. Observed # {} => Observed = held
    BY DEF Observed
<1>5. Sound(q)
    BY <1>2, <1>3, <1>4 DEF Sound, Later
<1>6. Backed(q)'
    BY <1>2, <1>3, <1>4 DEF Backed, Later, Read, IInv
<1>7. Walking(w) /\ walk' = [walk EXCEPT ![w] = q]
    BY <1>1 DEF Walking, Read
<1> QED BY <1>2, <1>3, <1>5, <1>6, <1>7, WalkingMoves DEF Read, IInv, TypeOK

LEMMA ProveKeeps ==
    ASSUME IInv, NEW w \in Walks, Prove(w)
    PROVE  IInv'
<1>1. Walking(w)
    BY DEF Walking, Prove
<1>2. CASE Finish(w)
    BY <1>1, <1>2, FinishKeeps DEF Prove, IInv, TypeOK
<1>3. CASE ProvenEmpty /\ walk' = [walk EXCEPT ![w].pc = "load", ![w].since = held]
    <2>1. PICK q \in WalkType : q = [walk[w] EXCEPT !.pc = "load", !.since = held]
        BY DEF IInv, TypeOK, WalkType, Pcs
    <2>2. q.pc = "load" /\ q.since = {} /\ q.age = walk[w].age /\ held = {}
        BY <1>3, <2>1 DEF IInv, TypeOK, WalkType, ProvenEmpty
    <2>3. Sound(q) /\ Backed(q)'
        BY <2>2 DEF Sound, Backed, Later, Prove, IInv
    <2> QED BY <1>1, <1>3, <2>1, <2>2, <2>3, WalkingMoves DEF Prove, IInv, TypeOK
<1> QED BY <1>2, <1>3 DEF Prove

LEMMA ReadFailsKeeps ==
    ASSUME IInv, NEW w \in Walks, ReadFails(w)
    PROVE  IInv'
<1>1. Walking(w)
    BY DEF Walking, ReadFails
<1> QED BY <1>1, FinishKeeps, FaultIsCounted DEF ReadFails, IInv, TypeOK

LEMMA ListingIsCached ==
    ASSUME IInv, NEW ids, Listing(ids)
    PROVE  ids \subseteq cache /\ faults' \in 0..MaxFaults
BY FaultIsCounted DEF Listing, IInv, TypeOK

LEMMA ListKeeps ==
    ASSUME IInv, NEW w \in Walks, List(w)
    PROVE  IInv'
<1>1. PICK ids \in SUBSET Moments :
          /\ Listing(ids)
          /\ walk' = [walk EXCEPT ![w].listed = ids,
                                  ![w].todo = walk[w].observed \ ids,
                                  ![w].pc = "write"]
    BY DEF List
<1>2. PICK q \in WalkType :
          q = [walk[w] EXCEPT !.listed = ids, !.todo = walk[w].observed \ ids, !.pc = "write"]
    BY DEF IInv, TypeOK, WalkType, Pcs
<1>3. /\ q.todo = walk[w].observed \ ids /\ q.pc = "write" /\ q.age = walk[w].age
      /\ q.since = walk[w].since /\ q.observed = walk[w].observed
    BY <1>2 DEF IInv, TypeOK, WalkType
<1>4. walk[w].pc = "list" /\ Sound(walk[w]) /\ (~opened => Backed(walk[w]))
    BY DEF List, IInv
<1>5. Sound(q)
    BY <1>3, <1>4 DEF Sound, Later
<1>6. ~opened => Backed(q)'
    <2>1. q.since \subseteq cache \union q.todo
        BY <1>1, <1>3, <1>4, ListingIsCached DEF Sound, Later
    <2> QED BY <1>3, <1>4, <2>1 DEF Backed, Later, List
<1>7. Walking(w) /\ walk' = [walk EXCEPT ![w] = q]
    BY <1>1, <1>2 DEF Walking, List
<1> QED BY <1>1, <1>3, <1>5, <1>6, <1>7, WalkingMoves, ListingIsCached DEF List, IInv, TypeOK
-----------------------------------------------------------------------------
LEMMA WriteKeeps ==
    ASSUME IInv, NEW w \in Walks, Write(w)
    PROVE  IInv'
<1>1. PICK c \in Chunks(walk[w].todo) :
          \/ /\ cache' = cache \union c
             /\ walk' = [walk EXCEPT ![w].todo = @ \ c]
             /\ faults' = faults
          \/ /\ cache' \in {cache, cache \union c}
             /\ walk' = [walk EXCEPT ![w].todo = @ \ c, ![w].lost = TRUE]
             /\ Fault
    BY DEF Write
<1>2. c \subseteq walk[w].todo /\ walk[w].todo \subseteq Moments
    BY DEF Chunks, IInv, TypeOK, WalkType
<1>3. Walking(w) /\ Sound(walk[w]) /\ (~opened => Backed(walk[w])) /\ walk[w].pc = "write"
    BY DEF Walking, Write, IInv
<1>4. cache' \in SUBSET Moments /\ cache \subseteq cache'
    BY <1>1, <1>2 DEF IInv, TypeOK
<1>5. faults' \in 0..MaxFaults
    BY <1>1, FaultIsCounted DEF IInv, TypeOK
<1>6. CASE cache' = cache \union c /\ walk' = [walk EXCEPT ![w].todo = @ \ c]
    <2>1. PICK q \in WalkType : q = [walk[w] EXCEPT !.todo = @ \ c]
        BY DEF IInv, TypeOK, WalkType
    <2>2. /\ q.todo = walk[w].todo \ c /\ q.pc = "write" /\ q.age = walk[w].age
          /\ q.since = walk[w].since /\ q.observed = walk[w].observed
        BY <1>3, <2>1 DEF IInv, TypeOK, WalkType
    <2>3. q.lost = walk[w].lost
        BY <2>1 DEF IInv, TypeOK, WalkType
    <2>4. Sound(q) /\ (~opened => Backed(q)')
        BY <1>3, <1>6, <2>2, <2>3 DEF Sound, Backed, Later, Write
    <2> QED BY <1>3, <1>4, <1>5, <1>6, <2>1, <2>2, <2>4, WalkingMoves DEF Write, IInv, TypeOK
<1>7. CASE walk' = [walk EXCEPT ![w].todo = @ \ c, ![w].lost = TRUE]
    <2>1. PICK q \in WalkType : q = [walk[w] EXCEPT !.todo = @ \ c, !.lost = TRUE]
        BY DEF IInv, TypeOK, WalkType
    <2>2. /\ q.pc = "write" /\ q.age = walk[w].age
          /\ q.since = walk[w].since /\ q.observed = walk[w].observed
        BY <1>3, <2>1 DEF IInv, TypeOK, WalkType
    <2>3. q.lost
        BY <2>1 DEF IInv, TypeOK, WalkType
    <2>4. Sound(q) /\ (~opened => Backed(q)')
        BY <1>3, <2>2, <2>3 DEF Sound, Backed, Later, Write
    <2> QED BY <1>3, <1>4, <1>5, <1>7, <2>1, <2>2, <2>4, WalkingMoves DEF Write, IInv, TypeOK
<1> QED BY <1>1, <1>6, <1>7

(* From here on the walk's moments are to have their rows already.         *)
LEMMA UnseenKeeps ==
    ASSUME IInv, NEW w \in Walks, NEW ids \in SUBSET Moments, Unseen(w, ids),
           walk[w].pc \in {"write", "load"},
           ~opened /\ ~walk[w].lost => walk[w].since \subseteq cache,
           UNCHANGED <<chain, cache, stamp, lock, opened>>, faults' \in 0..MaxFaults
    PROVE  IInv'
<1> DEFINE gone == ids \ walk[w].observed
           pc == CASE gone = {} -> "stamp"
                   [] gone # {} /\ walk[w].observed # {} /\ Suspicious(ids, gone) -> "confirm"
                   [] OTHER -> "remove"
<1>1. pc \in {"stamp", "confirm", "remove"}
    OBVIOUS
<1>2. PICK q \in WalkType :
          q = [walk[w] EXCEPT !.listed = {}, !.skip = FALSE, !.todo = gone, !.pc = pc]
    BY <1>1 DEF IInv, TypeOK, WalkType, Pcs
<1>3. /\ q.todo = gone /\ q.pc = pc /\ q.age = walk[w].age
      /\ q.since = walk[w].since /\ q.observed = walk[w].observed
    BY <1>2 DEF IInv, TypeOK, WalkType
<1>4. q.lost = walk[w].lost
    BY <1>2 DEF IInv, TypeOK, WalkType
<1>5. Walking(w) /\ Sound(walk[w]) /\ (~opened => Backed(walk[w]))
    BY DEF Walking, IInv
<1>6. Sound(q)
    BY <1>1, <1>3, <1>5 DEF Sound, Later
<1>7. ~opened => Backed(q)'
    BY <1>1, <1>3, <1>4, <1>5 DEF Backed, Later
<1>8. walk' = [walk EXCEPT ![w] = q]
    BY <1>2 DEF Unseen
<1> QED BY <1>1, <1>3, <1>5, <1>6, <1>7, <1>8, WalkingMoves DEF IInv, TypeOK

(* A step of the walk that only moves its pc between the writes' end and   *)
(* the stamp.                                                              *)
LEMMA AdvanceKeeps ==
    ASSUME IInv, NEW w \in Walks, NEW pc \in {"load", "remove", "stamp"}, Goto(w, pc),
           \/ walk[w].pc = "write" /\ walk[w].todo = {}
           \/ walk[w].pc \in {"confirm", "remove"},
           pc = "remove" => walk[w].pc = "confirm",
           UNCHANGED <<chain, cache, stamp, lock, opened, faults>>
    PROVE  IInv'
<1>1. PICK q \in WalkType : q = [walk[w] EXCEPT !.pc = pc]
    BY DEF IInv, TypeOK, WalkType, Pcs
<1>2. /\ q.pc = pc /\ q.todo = walk[w].todo /\ q.age = walk[w].age
      /\ q.since = walk[w].since /\ q.observed = walk[w].observed
    BY <1>1 DEF IInv, TypeOK, WalkType
<1>3. q.lost = walk[w].lost
    BY <1>1 DEF IInv, TypeOK, WalkType
<1>4. Walking(w) /\ Sound(walk[w]) /\ (~opened => Backed(walk[w]))
    BY DEF Walking, IInv
<1>5. Sound(q)
    BY <1>2, <1>4 DEF Sound, Later
<1>6. ~opened => Backed(q)'
    BY <1>2, <1>3, <1>4 DEF Backed, Later
<1> QED BY <1>1, <1>2, <1>4, <1>5, <1>6, WalkingMoves DEF Goto, IInv, TypeOK

LEMMA EndWriteKeeps ==
    ASSUME IInv, NEW w \in Walks, EndWrite(w)
    PROVE  IInv'
<1>1. ~opened /\ ~walk[w].lost => walk[w].since \subseteq cache
    BY DEF EndWrite, IInv, Backed
<1>2. CASE Unseen(w, walk[w].listed)
    <2>1. walk[w].listed \in SUBSET Moments
        BY DEF IInv, TypeOK, WalkType
    <2> QED BY <1>1, <1>2, <2>1, UnseenKeeps DEF EndWrite, IInv, TypeOK
<1>3. CASE Goto(w, "load")
    BY <1>3, AdvanceKeeps DEF EndWrite
<1> QED BY <1>2, <1>3 DEF EndWrite

LEMMA LoadKeeps ==
    ASSUME IInv, NEW w \in Walks, Load(w)
    PROVE  IInv'
<1>1. PICK ids \in SUBSET Moments : Listing(ids) /\ Unseen(w, ids)
    BY DEF Load
<1>2. ~opened /\ ~walk[w].lost => walk[w].since \subseteq cache
    BY DEF Load, IInv, Backed
<1> QED BY <1>1, <1>2, UnseenKeeps, ListingIsCached DEF Load

LEMMA ConfirmKeeps ==
    ASSUME IInv, NEW w \in Walks, Confirm(w)
    PROVE  IInv'
<1>1. CASE Goto(w, "remove")
    BY <1>1, AdvanceKeeps DEF Confirm
<1>2. CASE Finish(w)
    BY <1>2, FinishKeeps DEF Confirm, Walking, IInv, TypeOK
<1> QED BY <1>1, <1>2 DEF Confirm

LEMMA EndRemoveKeeps ==
    ASSUME IInv, NEW w \in Walks, EndRemove(w)
    PROVE  IInv'
BY AdvanceKeeps DEF EndRemove

(* A delete spares every moment that has stayed since the reading.         *)
LEMMA RemovesTheGone ==
    ASSUME IInv, NEW w \in Walks, Remove(w)
    PROVE  (cache \ cache') \intersect walk[w].since = {}
<1>1. walk[w].todo \intersect walk[w].since = {}
    BY DEF Remove, IInv, Sound
<1> QED BY <1>1 DEF Remove, Chunks

LEMMA RemoveKeeps ==
    ASSUME IInv, NEW w \in Walks, Remove(w)
    PROVE  IInv'
<1>1. PICK c \in Chunks(walk[w].todo) :
          \/ /\ cache' = cache \ c
             /\ walk' = [walk EXCEPT ![w].todo = @ \ c]
             /\ faults' = faults
          \/ /\ cache' \in {cache, cache \ c}
             /\ Finish(w)
             /\ Fault
    BY DEF Remove
<1>2. Walking(w) /\ Sound(walk[w]) /\ (~opened => Backed(walk[w])) /\ walk[w].pc = "remove"
    BY DEF Walking, Remove, IInv
<1>3. cache' \in SUBSET Moments /\ cache' \subseteq cache
    BY <1>1 DEF IInv, TypeOK
<1>4. ~opened => (stamp.whole => stamp.sure \subseteq cache')
    BY <1>2, <1>3, RemovesTheGone DEF IInv, Backed, Later
<1>5. faults' \in 0..MaxFaults
    BY <1>1, FaultIsCounted DEF IInv, TypeOK
<1>6. CASE Finish(w)
    BY <1>2, <1>3, <1>4, <1>5, <1>6, FinishKeeps DEF Remove, IInv, TypeOK
<1>7. CASE cache' = cache \ c /\ walk' = [walk EXCEPT ![w].todo = @ \ c]
    <2>1. PICK q \in WalkType : q = [walk[w] EXCEPT !.todo = @ \ c]
        BY DEF IInv, TypeOK, WalkType
    <2>2. /\ q.todo = walk[w].todo \ c /\ q.pc = "remove" /\ q.age = walk[w].age
          /\ q.since = walk[w].since /\ q.observed = walk[w].observed
        BY <1>2, <2>1 DEF IInv, TypeOK, WalkType
    <2>3. q.lost = walk[w].lost
        BY <2>1 DEF IInv, TypeOK, WalkType
    <2>4. Sound(q)
        BY <1>2, <2>2 DEF Sound, Later
    <2>5. ~opened => Backed(q)'
        BY <1>2, <2>2, <2>3, RemovesTheGone DEF Backed, Later, Remove
    <2> QED BY <1>2, <1>3, <1>4, <1>5, <1>7, <2>1, <2>2, <2>4, <2>5, WalkingMoves
            DEF Remove, IInv, TypeOK
<1> QED BY <1>1, <1>6, <1>7

LEMMA StampKeeps ==
    ASSUME IInv, NEW w \in Walks, Stamp(w)
    PROVE  IInv'
<1>1. PICK r \in StampType : r = Clean(w)
    BY DEF Clean, StampType, IInv, TypeOK, WalkType
<1>2. r.sure = walk[w].since /\ (r.whole => ~walk[w].lost)
    BY <1>1 DEF Clean
<1>3. stamp' \in {stamp, r} /\ Finish(w) /\ walk[w].pc = "stamp"
    BY <1>1 DEF Stamp
<1>4. faults' \in 0..MaxFaults
    BY FaultIsCounted DEF Stamp, IInv, TypeOK
<1>5. stamp' \in StampType /\ stamp'.sure \subseteq held
    BY <1>2, <1>3 DEF IInv, TypeOK, Sound
<1>6. ~opened => (stamp'.whole => stamp'.sure \subseteq cache)
    BY <1>2, <1>3 DEF IInv, Backed
<1> QED BY <1>3, <1>4, <1>5, <1>6, FinishKeeps DEF Stamp, Walking, IInv, TypeOK
-----------------------------------------------------------------------------
LEMMA MoveIsCounted == ASSUME IInv, Move PROVE moves' \in 0..MaxMoves
BY NumberAssumption DEF IInv, TypeOK, Move

LEMMA AcquireKeeps ==
    ASSUME IInv, NEW m \in Moments, Acquire(m)
    PROVE  IInv'
<1>1. TypeOK'
    BY MoveIsCounted DEF Acquire, IInv, TypeOK
<1> QED BY <1>1 DEF Acquire, IInv, Sound, Owner, Backed, Exclusive, Walking

LEMMA RepublishKeeps == ASSUME IInv, Republish PROVE IInv'
<1>1. TypeOK'
    BY MoveIsCounted DEF Republish, IInv, TypeOK
<1> QED BY <1>1 DEF Republish, IInv, Sound, Owner, Backed, Exclusive, Walking

(* The moment leaves the histories with the wallet.                        *)
LEMMA LeaveKeeps ==
    ASSUME IInv, NEW m \in Moments, Leave(m)
    PROVE  IInv'
<1>1. \A w \in Walks :
          /\ walk'[w].pc = walk[w].pc /\ walk'[w].age = walk[w].age
          /\ walk'[w].since = walk[w].since \ {m}
          /\ walk'[w].observed = walk[w].observed
          /\ walk'[w].todo = walk[w].todo
    BY DEF Leave, IInv, TypeOK, WalkType
<1>2. \A w \in Walks : walk'[w].lost = walk[w].lost
    BY DEF Leave, IInv, TypeOK, WalkType
<1>3. stamp'.sure = stamp.sure \ {m} /\ stamp'.whole = stamp.whole
    BY DEF Leave, IInv, TypeOK, StampType
<1>4. TypeOK'
    <2>1. walk' \in [Walks -> WalkType]
        BY DEF Leave, IInv, TypeOK, WalkType
    <2>2. stamp' \in StampType
        BY DEF Leave, IInv, TypeOK, StampType
    <2> QED BY <2>1, <2>2, MoveIsCounted DEF Leave, IInv, TypeOK
<1>5. stamp'.sure \subseteq held' /\ \A w \in Walks : Sound(walk[w])'
    BY <1>1, <1>3 DEF Leave, IInv, Sound
<1>6. ASSUME ~opened'
      PROVE  /\ Exclusive'
             /\ \A w \in Walks : Owner(walk[w])' /\ Backed(walk[w])'
             /\ stamp'.whole => stamp'.sure \subseteq cache'
    <2>1. ~opened
        BY <1>6 DEF Leave
    <2>2. Exclusive' /\ \A w \in Walks : Owner(walk[w])'
        BY <1>1, <2>1 DEF Leave, IInv, Exclusive, Walking, Owner
    <2>3. ASSUME NEW w \in Walks
          PROVE  Backed(walk[w])'
        <3>1. Backed(walk[w]) /\ cache' = cache
            BY <2>1 DEF Leave, IInv
        <3>2. walk'[w].pc \in Later => stamp'.sure \subseteq walk'[w].since
            BY <3>1, <1>1, <1>3 DEF Backed
        <3>3. walk'[w].pc = "write" /\ ~walk'[w].lost
                  => walk'[w].since \subseteq cache' \cup walk'[w].todo
            BY <3>1, <1>1, <1>2 DEF Backed
        <3>4. walk'[w].pc \in {"load", "confirm", "remove", "stamp"} /\ ~walk'[w].lost
                  => walk'[w].since \subseteq cache'
            BY <3>1, <1>1, <1>2 DEF Backed
        <3> QED BY <3>2, <3>3, <3>4 DEF Backed
    <2> QED BY <1>3, <2>1, <2>2, <2>3 DEF Leave, IInv
<1> QED BY <1>4, <1>5, <1>6 DEF IInv

(* The lock and the walks grow older together.                             *)
LEMMA TickKeeps == ASSUME IInv, Tick PROVE IInv'
<1>1. \A w \in Walks :
          /\ walk'[w].pc = walk[w].pc
          /\ walk'[w].age = IF walk[w].pc = "idle" THEN walk[w].age ELSE walk[w].age + 1
          /\ walk'[w].since = walk[w].since
          /\ walk'[w].observed = walk[w].observed
          /\ walk'[w].todo = walk[w].todo
    BY DEF Tick, IInv, TypeOK, WalkType
<1>2. \A w \in Walks : walk'[w].lost = walk[w].lost
    BY DEF Tick, IInv, TypeOK, WalkType
<1>3. /\ lock'.age = IF lock.taken /\ lock.age <= StaleAfter THEN lock.age + 1 ELSE lock.age
      /\ lock.age \in 0..(StaleAfter + 1)
    BY DEF Tick, IInv, TypeOK, LockType
<1>4. lock'.taken = lock.taken
    BY DEF Tick, IInv, TypeOK, LockType
<1>5. TypeOK'
    <2>1. lock' \in LockType
        <3>1. lock'.age \in 0..(StaleAfter + 1)
            BY <1>3, NumberAssumption
        <3>2. lock' = [lock EXCEPT !.age = lock'.age]
            BY <1>3 DEF Tick
        <3> QED BY <3>1, <3>2 DEF IInv, TypeOK, LockType
    <2>2. ASSUME NEW w \in Walks
          PROVE  walk'[w] \in WalkType
        <3>1. walk'[w].age \in 0..MaxDuration
            BY <1>1, NumberAssumption DEF Tick, IInv, TypeOK, WalkType
        <3>2. walk'[w] = [walk[w] EXCEPT !.age = walk'[w].age]
            BY <1>1 DEF Tick
        <3> QED BY <3>1, <3>2 DEF IInv, TypeOK, WalkType
    <2>3. walk' \in [Walks -> WalkType]
        BY <2>2 DEF Tick
    <2> QED BY <2>1, <2>3 DEF Tick, IInv, TypeOK, chain
<1>6. stamp'.sure \subseteq held' /\ \A w \in Walks : Sound(walk[w])'
    BY <1>1 DEF Tick, chain, IInv, Sound
<1>7. ASSUME ~opened
      PROVE  \A w \in Walks : Owner(walk[w])'
    <2> SUFFICES ASSUME NEW w \in Walks, walk[w].pc \notin {"idle", "claim"}
                 PROVE  lock'.taken /\ lock'.age <= walk'[w].age
        BY <1>1 DEF Owner
    <2>1. lock.taken /\ lock.age <= walk[w].age
        BY <1>7 DEF IInv, Owner
    <2>2. lock.age \in Nat /\ walk[w].age \in Nat
        BY NumberAssumption DEF IInv, TypeOK, LockType, WalkType
    <2>3. lock'.age <= walk'[w].age
        BY <1>1, <1>3, <2>1, <2>2
    <2> QED BY <1>4, <2>1, <2>3
<1>8. ASSUME ~opened
      PROVE  /\ Exclusive' /\ \A w \in Walks : Backed(walk[w])'
             /\ stamp'.whole => stamp'.sure \subseteq cache'
    <2>1. Exclusive'
        BY <1>1, <1>8 DEF IInv, Exclusive, Walking
    <2>2. \A w \in Walks : Backed(walk[w])'
        BY <1>1, <1>2, <1>8 DEF Tick, IInv, Backed
    <2> QED BY <1>8, <2>1, <2>2 DEF Tick, IInv
<1> QED BY <1>5, <1>6, <1>7, <1>8 DEF Tick, IInv
-----------------------------------------------------------------------------
LEMMA InitHolds == Init => IInv
<1> SUFFICES ASSUME Init PROVE IInv
    OBVIOUS
<1>1. TypeOK
    <2>1. NoStamp \in StampType
        BY DEF NoStamp, StampType
    <2>2. moves \in 0..MaxMoves /\ faults \in 0..MaxFaults
        BY NumberAssumption DEF Init
    <2>3. readable \in BOOLEAN /\ opened \in BOOLEAN
        BY Zenon DEF Init
    <2>4. walk \in [Walks -> WalkType] /\ lock \in LockType
        BY NothingIsTyped DEF Init
    <2>5. held \subseteq Moments /\ cache \subseteq Moments /\ stamp \in StampType
        BY <2>1 DEF Init
    <2> QED BY <2>2, <2>3, <2>4, <2>5 DEF TypeOK
<1>2. stamp.sure = {} /\ stamp.whole = FALSE
    BY DEF Init, NoStamp
<1>3. \A w \in Walks : walk[w].pc = "idle" /\ walk[w].since = {}
    BY DEF Init, Idle
<1> QED BY <1>1, <1>2, <1>3
        DEF IInv, Sound, Owner, Backed, Exclusive, Walking, Later

LEMMA StutterKeeps == ASSUME IInv, UNCHANGED vars PROVE IInv'
BY DEF IInv, vars, TypeOK, Sound, Owner, Backed, Exclusive, Walking

LEMMA NextKeeps == ASSUME IInv, [Next]_vars PROVE IInv'
<1>1. ASSUME NEW w \in Walks, WalkStep(w)
      PROVE  IInv'
    BY <1>1, ClaimKeeps, ClaimFailsKeeps, ReleaseKeeps, KillKeeps, ReadKeeps, ProveKeeps,
       ReadFailsKeeps, ListKeeps, WriteKeeps, EndWriteKeeps, LoadKeeps, ConfirmKeeps,
       RemoveKeeps, EndRemoveKeeps, StampKeeps
    DEF WalkStep
<1> QED BY <1>1, AcquireKeeps, LeaveKeeps, RepublishKeeps, TickKeeps, StartKeeps, StutterKeeps
        DEF Next

LEMMA Invariance == Spec => []IInv
BY InitHolds, NextKeeps, PTL DEF Spec

(* Every reachable state is well typed: no walk is older than its          *)
(* function's maxDuration, whatever is read, lost, refused or killed.      *)
THEOREM TypeCorrect == Spec => []TypeOK
<1>1. IInv => TypeOK
    BY DEF IInv
<1> QED BY <1>1, Invariance, PTL

(* The run lock excludes: until a claim fails open, no two walks of one    *)
(* wallet are past claim_pipeline_lock together, stale takeovers and       *)
(* releases by key included.                                               *)
THEOREM WalksExclude == Spec => []OneWalk
<1>1. IInv => OneWalk
    BY DEF IInv, OneWalk, Exclusive
<1> QED BY <1>1, Invariance, PTL

(* While no claim failed open, the stamp of a walk that lost no chunk      *)
(* means what get_trophy_slab_data takes it for: a moment held since that  *)
(* walk's reading has its row.                                             *)
THEOREM CleanWalksProve == Spec => []CleanMeansGone
<1>1. IInv => CleanMeansGone
    BY DEF IInv, CleanMeansGone
<1> QED BY <1>1, Invariance, PTL

(* deleteUnseenWmcRows never deletes the row of a moment that stayed in    *)
(* the wallet since the walk's reading, overlapping walks included.        *)
THEOREM RetiresTheGone == Spec => RetiredWasGone
<1> DEFINE P == \A m \in cache \ cache' :
                    \E w \in Walks : walk[w].pc = "remove" /\ walk'[w] # walk[w]
                                     /\ m \notin walk[w].since
<1>1. ASSUME IInv, [Next]_vars
      PROVE  [P]_vars
    <2>1. ASSUME NEW w \in Walks, Remove(w), NEW m \in cache \ cache'
          PROVE  walk[w].pc = "remove" /\ walk'[w] # walk[w] /\ m \notin walk[w].since
        <3>1. m \notin walk[w].since
            BY <1>1, <2>1, RemovesTheGone
        <3>2. walk'[w].pc = "release" \/ \E c \in Chunks(walk[w].todo) :
                                            walk'[w].todo = walk[w].todo \ c
            BY <1>1, <2>1 DEF Remove, Finish, Idle, IInv, TypeOK, WalkType
        <3>3. \A c \in Chunks(walk[w].todo) : c # {} /\ c \subseteq walk[w].todo
            BY DEF Chunks
        <3>4. walk[w].pc = "remove"
            BY <2>1 DEF Remove
        <3> QED BY <3>1, <3>2, <3>3, <3>4
    <2>2. ASSUME NEW w \in Walks, WalkStep(w), ~Remove(w)
          PROVE  cache \subseteq cache'
        BY <2>2 DEF WalkStep, Claim, ClaimFails, Release, Kill, Read, Prove, ReadFails, List,
                    Write, EndWrite, Load, Confirm, EndRemove, Stamp
    <2>3. CASE \E w \in Walks : WalkStep(w)
        BY <2>1, <2>2, <2>3
    <2>4. CASE ~\E w \in Walks : WalkStep(w)
        BY <1>1, <2>4 DEF Next, Acquire, Leave, Republish, Tick, Start, vars
    <2> QED BY <2>3, <2>4
<1> QED BY <1>1, Invariance, PTL DEF Spec, RetiredWasGone
-----------------------------------------------------------------------------
(* The refinement of Mirror.  A walk in hand is a look.                    *)
Seeing(q) ==
    /\ q.pc = "write" => q.todo \subseteq q.observed
    /\ q.pc = "prove" => q.observed = {}

RefInv == IInv /\ \A w \in Walks : Seeing(walk[w])

(* A step of one walk brings at most the look of that walk.                *)
LEMMA MovesOneLook ==
    ASSUME IInv, NEW w \in Walks, NEW q \in WalkType, walk' = [walk EXCEPT ![w] = q]
    PROVE  \A l \in Looks' : l \in Looks \/ (q.pc \in Looking /\ l = LookOf(q))
<1> SUFFICES ASSUME NEW v \in Walks, walk'[v].pc \in Looking
             PROVE  LookOf(walk'[v]) \in Looks \/ (q.pc \in Looking /\ LookOf(walk'[v]) = LookOf(q))
    BY DEF Looks
<1>1. CASE v = w
    BY <1>1 DEF IInv, TypeOK
<1>2. CASE v # w
    BY <1>2 DEF IInv, TypeOK, Looks
<1> QED BY <1>1, <1>2

(* A walk that goes on with what it has read brings none.                  *)
LEMMA SameLook ==
    ASSUME IInv, NEW w \in Walks, NEW q \in WalkType, walk' = [walk EXCEPT ![w] = q],
           q.pc \in Looking => /\ walk[w].pc \in Looking
                               /\ q.observed = walk[w].observed
                               /\ q.since = walk[w].since
    PROVE  Looks' \subseteq Looks
<1>1. q.pc \in Looking => LookOf(q) \in Looks
    <2> SUFFICES ASSUME q.pc \in Looking PROVE LookOf(q) \in Looks
        OBVIOUS
    <2>1. LookOf(q) = LookOf(walk[w])
        BY DEF LookOf
    <2> QED BY <2>1 DEF Looks
<1> QED BY <1>1, MovesOneLook

LEMMA EndedLook ==
    ASSUME IInv, NEW w \in Walks, End(w) \/ Finish(w)
    PROVE  Looks' \subseteq Looks
<1>1. CASE End(w)
    <2>1. PICK q \in WalkType : q = Idle
        BY NothingIsTyped
    <2>2. q.pc \notin Looking
        BY <2>1 DEF Idle, Looking
    <2> QED BY <1>1, <2>1, <2>2, SameLook DEF End
<1>2. CASE Finish(w)
    <2>1. PICK q \in WalkType : q = [Idle EXCEPT !.pc = "release", !.age = walk[w].age]
        BY NothingIsTyped DEF IInv, TypeOK, WalkType, Pcs, Idle
    <2>2. q.pc \notin Looking
        BY <2>1 DEF Idle, Looking
    <2> QED BY <1>2, <2>1, <2>2, SameLook DEF Finish
<1> QED BY <1>1, <1>2

LEMMA GoneOnLook ==
    ASSUME IInv, NEW w \in Walks, NEW pc \in Pcs, Goto(w, pc),
           pc \in Looking => walk[w].pc \in Looking
    PROVE  Looks' \subseteq Looks
<1>1. PICK q \in WalkType : q = [walk[w] EXCEPT !.pc = pc]
    BY DEF IInv, TypeOK, WalkType
<1>2. q.pc = pc /\ q.observed = walk[w].observed /\ q.since = walk[w].since
    BY <1>1 DEF IInv, TypeOK, WalkType
<1> QED BY <1>1, <1>2, SameLook DEF Goto

(* A step that touches no row and no stamp, and brings no look.            *)
LEMMA HiddenStep ==
    ASSUME Looks' \subseteq Looks, UNCHANGED <<held, cache, stamp, opened>>
    PROVE  Abstract!Look
BY DEF Abstract!Look, Vouched

LEMMA UnseenLook ==
    ASSUME IInv, NEW w \in Walks, NEW ids \in SUBSET Moments, Unseen(w, ids),
           walk[w].pc \in {"write", "load"}
    PROVE  Looks' \subseteq Looks
<1> DEFINE gone == ids \ walk[w].observed
           pc == CASE gone = {} -> "stamp"
                   [] gone # {} /\ walk[w].observed # {} /\ Suspicious(ids, gone) -> "confirm"
                   [] OTHER -> "remove"
<1>1. pc \in Pcs
    BY DEF Pcs
<1>2. PICK q \in WalkType :
          q = [walk[w] EXCEPT !.listed = {}, !.skip = FALSE, !.todo = gone, !.pc = pc]
    <2> HIDE DEF pc
    <2> QED BY <1>1 DEF IInv, TypeOK, WalkType
<1>3. q.observed = walk[w].observed /\ q.since = walk[w].since
    BY <1>2 DEF IInv, TypeOK, WalkType
<1>4. walk' = [walk EXCEPT ![w] = q]
    BY <1>2 DEF Unseen
<1> QED BY <1>3, <1>4, SameLook DEF Looking

(* Two ways to read: what is read is held, and nothing held has left yet.  *)
LEMMA ReadLooks ==
    ASSUME IInv, NEW w \in Walks, Read(w)
    PROVE  Abstract!Look
<1> DEFINE pc == CASE Observed = {} -> "prove"
                   [] walk[w].skip /\ Observed # {} -> "list"
                   [] OTHER -> "write"
<1>1. PICK q \in WalkType :
          q = [walk[w] EXCEPT !.observed = Observed, !.since = held,
                              !.todo = Observed, !.pc = pc]
    BY DEF IInv, TypeOK, WalkType, Pcs, Observed
<1>2. q.observed \subseteq held /\ q.since = held
    BY <1>1 DEF IInv, TypeOK, WalkType, Observed
<1>3. walk' = [walk EXCEPT ![w] = q]
    BY <1>1 DEF Read
<1>4. LookOf(q).saw \subseteq held /\ LookOf(q).kept = held
    BY <1>2 DEF LookOf
<1> QED BY <1>3, <1>4, MovesOneLook DEF Read, chain, Abstract!Look, Vouched

LEMMA ProveLooks ==
    ASSUME RefInv, NEW w \in Walks, Prove(w)
    PROVE  Abstract!Look
<1>0. IInv /\ walk[w].observed = {}
    BY DEF RefInv, Seeing, Prove
<1>1. CASE Finish(w)
    BY <1>0, <1>1, EndedLook, HiddenStep DEF Prove, chain
<1>2. CASE ProvenEmpty /\ walk' = [walk EXCEPT ![w].pc = "load", ![w].since = held]
    <2>1. PICK q \in WalkType : q = [walk[w] EXCEPT !.pc = "load", !.since = held]
        BY <1>0 DEF IInv, TypeOK, WalkType, Pcs
    <2>2. q.observed = {} /\ q.since = held
        BY <1>0, <2>1 DEF IInv, TypeOK, WalkType
    <2>3. LookOf(q).saw \subseteq held /\ LookOf(q).kept = held
        BY <2>2 DEF LookOf
    <2>4. walk' = [walk EXCEPT ![w] = q]
        BY <1>2, <2>1
    <2> QED BY <1>0, <2>3, <2>4, MovesOneLook DEF Prove, chain, Abstract!Look, Vouched
<1> QED BY <1>1, <1>2 DEF Prove

LEMMA ListLooks ==
    ASSUME IInv, NEW w \in Walks, List(w)
    PROVE  Abstract!Look
<1>1. PICK ids \in SUBSET Moments :
          walk' = [walk EXCEPT ![w].listed = ids,
                               ![w].todo = walk[w].observed \ ids,
                               ![w].pc = "write"]
    BY DEF List
<1>2. PICK q \in WalkType :
          q = [walk[w] EXCEPT !.listed = ids, !.todo = walk[w].observed \ ids, !.pc = "write"]
    BY DEF IInv, TypeOK, WalkType, Pcs
<1>3. q.observed = walk[w].observed /\ q.since = walk[w].since
    BY <1>2 DEF IInv, TypeOK, WalkType
<1>4. walk[w].pc \in Looking /\ walk' = [walk EXCEPT ![w] = q]
    BY <1>1, <1>2 DEF List, Looking
<1>5. Looks' \subseteq Looks
    BY <1>3, <1>4, SameLook
<1> QED BY <1>5, HiddenStep DEF List, chain

(* The rows written are of moments the walk saw.                           *)
LEMMA WriteShows ==
    ASSUME RefInv, NEW w \in Walks, Write(w)
    PROVE  LookOf(walk[w]) \in Looks /\ Abstract!Show(LookOf(walk[w]))
<1>0. IInv /\ walk[w].pc = "write" /\ walk[w].todo \subseteq walk[w].observed
    BY DEF RefInv, Seeing, Write
<1>1. PICK c \in Chunks(walk[w].todo) :
          /\ cache' \in {cache, cache \union c}
          /\ \/ walk' = [walk EXCEPT ![w].todo = @ \ c]
             \/ walk' = [walk EXCEPT ![w].todo = @ \ c, ![w].lost = TRUE]
    BY DEF Write
<1>2. c \subseteq walk[w].observed
    BY <1>0 DEF Chunks
<1>3. walk[w].pc \in Looking /\ LookOf(walk[w]) \in Looks
    BY <1>0 DEF Looks, Looking
<1>4. PICK q \in WalkType :
          /\ q = [walk[w] EXCEPT !.todo = @ \ c] \/ q = [walk[w] EXCEPT !.todo = @ \ c, !.lost = TRUE]
          /\ walk' = [walk EXCEPT ![w] = q]
    BY <1>0, <1>1 DEF IInv, TypeOK, WalkType
<1>5. q.observed = walk[w].observed /\ q.since = walk[w].since
    BY <1>0, <1>4 DEF IInv, TypeOK, WalkType
<1>6. Looks' \subseteq Looks
    BY <1>0, <1>3, <1>4, <1>5, SameLook
<1>7. LookOf(walk[w]).saw = walk[w].observed
    BY DEF LookOf
<1> QED BY <1>1, <1>2, <1>3, <1>6, <1>7 DEF Write, chain, Abstract!Show, Vouched

(* The rows deleted are of moments that left since the walk looked; alone, *)
(* it has looked since the word that stands.                               *)
LEMMA RemoveHides ==
    ASSUME IInv, NEW w \in Walks, Remove(w)
    PROVE  LookOf(walk[w]) \in Looks /\ Abstract!Hide(LookOf(walk[w]))
<1>0. walk[w].pc = "remove" /\ walk[w].pc \in Looking /\ LookOf(walk[w]) \in Looks
    BY DEF Remove, Looking, Looks
<1>1. PICK c \in Chunks(walk[w].todo) :
          /\ cache' \in {cache, cache \ c}
          /\ walk' = [walk EXCEPT ![w].todo = @ \ c] \/ Finish(w)
    BY DEF Remove
<1>2. Looks' \subseteq Looks
    <2>1. CASE Finish(w)
        BY <2>1, EndedLook
    <2>2. CASE walk' = [walk EXCEPT ![w].todo = @ \ c]
        <3>1. PICK q \in WalkType : q = [walk[w] EXCEPT !.todo = @ \ c]
            BY DEF IInv, TypeOK, WalkType
        <3>2. q.observed = walk[w].observed /\ q.since = walk[w].since
            BY <3>1 DEF IInv, TypeOK, WalkType
        <3> QED BY <1>0, <2>2, <3>1, <3>2, SameLook
    <2> QED BY <1>1, <2>1, <2>2
<1>3. LookOf(walk[w]).kept = walk[w].since
    BY DEF LookOf
<1>4. Vouched \subseteq walk[w].since
    BY <1>0 DEF Vouched, IInv, Backed, Later
<1>5. (cache \ cache') \intersect (walk[w].since \union Vouched) = {}
    BY <1>4, RemovesTheGone
<1>6. cache' \subseteq cache
    BY <1>1
<1>7. UNCHANGED <<held, Vouched>>
    BY DEF Remove, chain, Vouched
<1> QED BY <1>0, <1>2, <1>3, <1>5, <1>6, <1>7 DEF Abstract!Hide

(* A clean walk that wrote every chunk vouches; one that lost a chunk      *)
(* takes the word back.                                                    *)
LEMMA StampVouches ==
    ASSUME IInv, NEW w \in Walks, Stamp(w)
    PROVE  [Abstract!Next]_(Abstract!vars)
<1>0. walk[w].pc = "stamp" /\ walk[w].pc \in Looking /\ LookOf(walk[w]) \in Looks
    BY DEF Stamp, Looking, Looks
<1>1. Looks' \subseteq Looks /\ UNCHANGED <<held, cache, opened>> /\ stamp' \in {stamp, Clean(w)}
    BY EndedLook DEF Stamp, chain
<1>2. CASE stamp' = stamp
    BY <1>1, <1>2, HiddenStep DEF Abstract!Next
<1>3. CASE stamp' = Clean(w)
    <2>1. stamp'.whole = ~walk[w].lost /\ stamp'.sure = walk[w].since
        BY <1>3 DEF Clean
    <2>2. CASE ~walk[w].lost /\ ~opened
        <3>1. walk[w].since \subseteq cache
            BY <1>0, <2>2 DEF IInv, Backed
        <3>2. Vouched' = walk[w].since
            BY <1>1, <2>1, <2>2 DEF Vouched
        <3>3. LookOf(walk[w]).kept = walk[w].since
            BY DEF LookOf
        <3>4. Abstract!Vouch(LookOf(walk[w]))
            BY <1>1, <3>1, <3>2, <3>3 DEF Abstract!Vouch
        <3> QED BY <1>0, <3>4 DEF Abstract!Next
    <2>3. CASE walk[w].lost \/ opened
        <3>1. Vouched' = {}
            BY <1>1, <2>1, <2>3 DEF Vouched
        <3>2. Abstract!Lapse
            BY <1>1, <3>1 DEF Abstract!Lapse
        <3> QED BY <3>2 DEF Abstract!Next
    <2> QED BY <2>2, <2>3
<1> QED BY <1>1, <1>2, <1>3

LEMMA LeaveLeaves ==
    ASSUME IInv, NEW m \in Moments, Leave(m)
    PROVE  Abstract!Leave(m)
<1> DEFINE Left(l) == [l EXCEPT !.kept = l.kept \ {m}]
<1>1. ASSUME NEW w \in Walks
      PROVE  walk'[w].pc = walk[w].pc /\ LookOf(walk'[w]) = Left(LookOf(walk[w]))
    <2>1. /\ walk'[w].pc = walk[w].pc
          /\ walk'[w].observed = walk[w].observed
          /\ walk'[w].since = walk[w].since \ {m}
        BY DEF Leave, IInv, TypeOK, WalkType
    <2> QED BY <2>1 DEF LookOf
<1>2. Looks' = {Left(l) : l \in Looks}
    <2> HIDE DEF Left
    <2>1. \A l \in Looks' : l \in {Left(k) : k \in Looks}
        BY <1>1 DEF Looks
    <2>2. \A k \in Looks : Left(k) \in Looks'
        BY <1>1 DEF Looks
    <2> QED BY <2>1, <2>2
<1>3. stamp'.sure = stamp.sure \ {m} /\ stamp'.whole = stamp.whole
    BY DEF Leave, IInv, TypeOK, StampType
<1>4. Vouched' = Vouched \ {m}
    BY <1>3 DEF Leave, Vouched
<1> QED BY <1>2, <1>4 DEF Leave, Abstract!Leave

(* A step that keeps where every walk is and what it has read.             *)
LEMMA UnmovedLook ==
    ASSUME \A w \in Walks : /\ walk'[w].pc = walk[w].pc
                            /\ walk'[w].observed = walk[w].observed
                            /\ walk'[w].since = walk[w].since
    PROVE  Looks' = Looks
<1>1. \A w \in Walks : LookOf(walk'[w]) = LookOf(walk[w])
    BY DEF LookOf
<1> QED BY <1>1 DEF Looks

LEMMA WalkMirrors ==
    ASSUME RefInv, NEW w \in Walks, WalkStep(w)
    PROVE  [Abstract!Next]_(Abstract!vars)
<1>0. IInv
    BY DEF RefInv
<1>1. CASE Claim(w)
    <2>1. Looks' \subseteq Looks
        BY <1>0, <1>1, EndedLook, GoneOnLook DEF Claim, Looking, Pcs
    <2> QED BY <1>1, <2>1, HiddenStep DEF Claim, chain, Abstract!Next
<1>2. CASE ClaimFails(w)
    <2>1. Looks' \subseteq Looks
        BY <1>0, <1>2, EndedLook, GoneOnLook DEF ClaimFails, Looking, Pcs
    <2>2. CASE opened' = opened
        BY <1>2, <2>1, <2>2, HiddenStep DEF ClaimFails, chain, Abstract!Next
    <2>3. CASE opened' = TRUE
        BY <1>2, <2>1, <2>3 DEF ClaimFails, chain, Vouched, Abstract!Lapse, Abstract!Next
    <2> QED BY <1>2, <2>2, <2>3 DEF ClaimFails
<1>3. CASE Release(w) \/ Kill(w)
    <2>1. Looks' \subseteq Looks
        BY <1>0, <1>3, EndedLook DEF Release, Kill
    <2> QED BY <1>3, <2>1, HiddenStep DEF Release, Kill, chain, Abstract!Next
<1>4. CASE Read(w) \/ Prove(w) \/ List(w)
    BY <1>0, <1>4, ReadLooks, ProveLooks, ListLooks DEF Abstract!Next
<1>5. CASE ReadFails(w)
    <2>1. Looks' \subseteq Looks
        BY <1>0, <1>5, EndedLook DEF ReadFails
    <2> QED BY <1>5, <2>1, HiddenStep DEF ReadFails, chain, Abstract!Next
<1>6. CASE Write(w)
    BY <1>6, WriteShows DEF Abstract!Next
<1>7. CASE EndWrite(w)
    <2>1. walk[w].listed \in SUBSET Moments
        BY <1>0 DEF IInv, TypeOK, WalkType
    <2>2. Looks' \subseteq Looks
        BY <1>0, <1>7, <2>1, UnseenLook, GoneOnLook DEF EndWrite, Looking, Pcs
    <2> QED BY <1>7, <2>2, HiddenStep DEF EndWrite, chain, Abstract!Next
<1>8. CASE Load(w)
    <2>1. Looks' \subseteq Looks
        BY <1>0, <1>8, UnseenLook DEF Load
    <2> QED BY <1>8, <2>1, HiddenStep DEF Load, chain, Abstract!Next
<1>9. CASE Confirm(w)
    <2>1. Looks' \subseteq Looks
        BY <1>0, <1>9, EndedLook, GoneOnLook DEF Confirm, Looking, Pcs
    <2> QED BY <1>9, <2>1, HiddenStep DEF Confirm, chain, Abstract!Next
<1>10. CASE Remove(w)
    BY <1>0, <1>10, RemoveHides DEF Abstract!Next
<1>11. CASE EndRemove(w)
    <2>1. Looks' \subseteq Looks
        BY <1>0, <1>11, GoneOnLook DEF EndRemove, Looking, Pcs
    <2> QED BY <1>11, <2>1, HiddenStep DEF EndRemove, chain, Abstract!Next
<1>12. CASE Stamp(w)
    BY <1>0, <1>12, StampVouches
<1> QED BY <1>1, <1>2, <1>3, <1>4, <1>5, <1>6, <1>7, <1>8, <1>9, <1>10, <1>11, <1>12
        DEF WalkStep

LEMMA StepMirrors ==
    ASSUME RefInv, [Next]_vars
    PROVE  [Abstract!Next]_(Abstract!vars)
<1>0. IInv
    BY DEF RefInv
<1>1. ASSUME NEW m \in Moments, Acquire(m)
      PROVE  Abstract!Enter(m)
    BY <1>1 DEF Acquire, Abstract!Enter, Looks, Vouched
<1>2. CASE Republish \/ UNCHANGED vars
    <2>1. Looks' = Looks
        BY <1>2 DEF Republish, vars, Looks
    <2> QED BY <1>2, <2>1, HiddenStep DEF Republish, vars, Abstract!Next
<1>3. CASE Tick
    <2>1. \A w \in Walks : /\ walk'[w].pc = walk[w].pc
                           /\ walk'[w].observed = walk[w].observed
                           /\ walk'[w].since = walk[w].since
        BY <1>0, <1>3 DEF Tick, IInv, TypeOK, WalkType
    <2>2. Looks' = Looks
        BY <2>1, UnmovedLook
    <2> QED BY <1>3, <2>2, HiddenStep DEF Tick, chain, Abstract!Next
<1>4. ASSUME NEW w \in Walks, NEW skip \in BOOLEAN, Start(w, skip)
      PROVE  Abstract!Look
    <2>1. PICK q \in WalkType : q = [Idle EXCEPT !.pc = "claim", !.skip = skip]
        BY NothingIsTyped DEF Idle, WalkType, Pcs
    <2>2. q.pc \notin Looking /\ walk' = [walk EXCEPT ![w] = q]
        BY <1>4, <2>1 DEF Start, Idle, Looking
    <2>3. Looks' \subseteq Looks
        BY <1>0, <2>2, SameLook
    <2> QED BY <1>4, <2>3, HiddenStep DEF Start, chain
<1> QED BY <1>0, <1>1, <1>2, <1>3, <1>4, LeaveLeaves, WalkMirrors DEF Next, Abstract!Next

(* Only the first reading, the list and the writes bear on Seeing.         *)
LEMMA SeeingKept ==
    ASSUME RefInv, [Next]_vars
    PROVE  \A v \in Walks : Seeing(walk[v])'
<1>0. IInv
    BY DEF RefInv
<1>1. ASSUME NEW w \in Walks, WalkStep(w)
      PROVE  \A v \in Walks : Seeing(walk[v])'
    <2> DEFINE Elsewhere == /\ walk'[w].pc \notin {"write", "prove"}
                            /\ \A v \in Walks \ {w} : walk'[v] = walk[v]
    <2>1. End(w) \/ Finish(w) => Elsewhere
        <3>1. End(w) => Elsewhere
            BY <1>0 DEF End, Idle, IInv, TypeOK
        <3>2. ASSUME Finish(w) PROVE Elsewhere
            <4>1. PICK q : q = [Idle EXCEPT !.pc = "release", !.age = walk[w].age]
                OBVIOUS
            <4>2. q.pc = "release"
                BY <4>1 DEF Idle
            <4> QED BY <1>0, <3>2, <4>1, <4>2 DEF Finish, IInv, TypeOK
        <3> QED BY <3>1, <3>2
    <2>2. \A pc \in {"read", "load", "remove", "stamp"} : Goto(w, pc) => Elsewhere
        BY <1>0 DEF Goto, IInv, TypeOK, WalkType
    <2>3. \A ids : Unseen(w, ids) => Elsewhere
        BY <1>0 DEF Unseen, IInv, TypeOK, WalkType
    <2>4. Elsewhere => \A v \in Walks : Seeing(walk[v])'
        BY DEF RefInv, Seeing
    <2>5. CASE Claim(w) \/ ClaimFails(w) \/ Release(w) \/ Kill(w)
        BY <2>1, <2>2, <2>4, <2>5 DEF Claim, ClaimFails, Release, Kill
    <2>6. CASE ReadFails(w) \/ EndWrite(w) \/ Load(w) \/ Confirm(w) \/ EndRemove(w) \/ Stamp(w)
        BY <2>1, <2>2, <2>3, <2>4, <2>6
        DEF ReadFails, EndWrite, Load, Confirm, EndRemove, Stamp
    <2>7. CASE Read(w)
        <3>1. /\ walk'[w].todo = Observed /\ walk'[w].observed = Observed
              /\ walk'[w].pc = "prove" => Observed = {}
            BY <1>0, <2>7 DEF Read, IInv, TypeOK, WalkType
        <3>2. \A v \in Walks \ {w} : walk'[v] = walk[v]
            BY <1>0, <2>7 DEF Read, IInv, TypeOK
        <3> QED BY <3>1, <3>2 DEF RefInv, Seeing
    <2>8. CASE Prove(w)
        <3>1. Finish(w) \/ walk' = [walk EXCEPT ![w].pc = "load", ![w].since = held]
            BY <2>8 DEF Prove
        <3>2. walk' = [walk EXCEPT ![w].pc = "load", ![w].since = held] => Elsewhere
            BY <1>0 DEF IInv, TypeOK, WalkType
        <3> QED BY <2>1, <2>4, <3>1, <3>2
    <2>9. CASE List(w)
        <3>1. walk'[w].todo \subseteq walk'[w].observed /\ walk'[w].pc = "write"
            BY <1>0, <2>9 DEF List, IInv, TypeOK, WalkType
        <3>2. \A v \in Walks \ {w} : walk'[v] = walk[v]
            BY <1>0, <2>9 DEF List, IInv, TypeOK
        <3> QED BY <3>1, <3>2 DEF RefInv, Seeing
    <2>10. CASE Write(w)
        <3>1. /\ walk[w].todo \subseteq walk[w].observed /\ walk[w].pc = "write"
              /\ walk'[w].todo \subseteq walk[w].todo
              /\ walk'[w].observed = walk[w].observed /\ walk'[w].pc = "write"
            BY <1>0, <2>10 DEF Write, IInv, TypeOK, WalkType, RefInv, Seeing
        <3>2. \A v \in Walks \ {w} : walk'[v] = walk[v]
            BY <1>0, <2>10 DEF Write, IInv, TypeOK
        <3> QED BY <3>1, <3>2 DEF RefInv, Seeing
    <2>11. CASE Remove(w)
        <3>1. Finish(w) \/ \E c : walk' = [walk EXCEPT ![w].todo = @ \ c]
            BY <2>11 DEF Remove
        <3>2. (\E c : walk' = [walk EXCEPT ![w].todo = @ \ c]) => Elsewhere
            BY <1>0, <2>11 DEF Remove, IInv, TypeOK, WalkType
        <3> QED BY <2>1, <2>4, <3>1, <3>2
    <2> QED BY <1>1, <2>5, <2>6, <2>7, <2>8, <2>9, <2>10, <2>11 DEF WalkStep
<1>2. ASSUME NEW w \in Walks, NEW skip \in BOOLEAN, Start(w, skip)
      PROVE  \A v \in Walks : Seeing(walk[v])'
    <2>1. walk'[w].pc = "claim" /\ \A v \in Walks \ {w} : walk'[v] = walk[v]
        BY <1>0, <1>2 DEF Start, Idle, IInv, TypeOK
    <2> QED BY <2>1 DEF RefInv, Seeing
<1>3. CASE Tick \/ \E m \in Moments : Leave(m)
    <2>1. \A w \in Walks : /\ walk'[w].pc = walk[w].pc
                           /\ walk'[w].observed = walk[w].observed
                           /\ walk'[w].todo = walk[w].todo
        BY <1>0, <1>3 DEF Tick, Leave, IInv, TypeOK, WalkType
    <2> QED BY <2>1 DEF RefInv, Seeing
<1>4. CASE Republish \/ UNCHANGED vars \/ \E m \in Moments : Acquire(m)
    BY <1>4 DEF Republish, vars, Acquire, RefInv, Seeing
<1> QED BY <1>1, <1>2, <1>3, <1>4 DEF Next

LEMMA RefInvariance == Spec => []RefInv
<1>1. Init => RefInv
    <2> SUFFICES ASSUME Init PROVE RefInv
        OBVIOUS
    <2>1. \A w \in Walks : walk[w].pc = "idle"
        BY DEF Init, Idle
    <2> QED BY <2>1, InitHolds DEF RefInv, Seeing
<1>2. RefInv /\ [Next]_vars => RefInv'
    BY NextKeeps, SeeingKept DEF RefInv
<1> QED BY <1>1, <1>2, PTL DEF Spec

(* runIdOnlyBackfill, several walks of it at once, killed, refused and     *)
(* overtaken, is a mirror: upsertWmcChunks shows what the chain showed,    *)
(* deleteUnseenWmcRows hides what left since, and a wmc_clean_walks stamp  *)
(* is the word for every moment held since its walk's reading.             *)
THEOREM WalksFollowMirror == Spec => FollowsMirror
<1>1. RefInv /\ [Next]_vars => [Abstract!Next]_(Abstract!vars)
    BY StepMirrors
<1> QED BY <1>1, RefInvariance, PTL DEF Spec, FollowsMirror

(* From the first state on: any cache of any wallet, and no walk.          *)
THEOREM WalksImplementMirror == Spec => ImplementsMirror
<1>1. Init => Abstract!Init
    <2> SUFFICES ASSUME Init PROVE Abstract!Init
        OBVIOUS
    <2>1. \A w \in Walks : walk[w].pc \notin Looking
        BY DEF Init, Idle, Looking
    <2>2. Looks = {}
        BY <2>1 DEF Looks
    <2>3. Vouched = {}
        BY DEF Init, NoStamp, Vouched
    <2> QED BY <2>2, <2>3 DEF Init, Abstract!Init
<1> QED BY <1>1, WalksFollowMirror, PTL DEF Spec, ImplementsMirror
=============================================================================
