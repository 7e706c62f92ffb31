------------------------- MODULE SalesIndexerProofs -------------------------
(***************************************************************************)
(* The cursor of SalesIndexer never leaves a sale behind: proofs, for any  *)
(* number of sales, overlapping ticks, blocks and faults.                  *)
(***************************************************************************)
EXTENDS SalesIndexerRefinement, TLAPS, FiniteSetTheorems

Honest == Sales \ Poison

RecordedSales == {s \in Sales : Recorded(s)}

(* The sales a tick has in hand.                                           *)
InHand(me) == me.seen \union me.todo \union me.batch \union me.park

(* Where the first failed chunk can start.                                 *)
Ranges(me) ==
    me.pc \notin {"idle", "height"} =>
        /\ me.from < me.start
        /\ me.from <= me.target
        /\ me.failed # None => /\ me.from < me.failed
                               /\ me.failed <= me.target
                               /\ me.failed <= me.start

(* What each stage has already emptied.                                    *)
Emptied(me) ==
    /\ me.pc \in {"idle", "height", "scan", "resolve"} =>
            me.todo = {} /\ me.park = {}
    /\ me.pc \notin {"scan", "resolve"} => me.seen = {}
    /\ me.pc \notin {"rows", "parkRows"} => me.batch = {}
    /\ me.pc \in {"dedup", "park", "parkRows", "save"} => me.todo = {}
    /\ me.pc = "save" => me.park = {}
    /\ me.pc = "height" => me.failed = None

(* With the sales of rec recorded: a tick starts from a block below which  *)
(* nothing is missing, has seen all sales of the chunks behind it and      *)
(* before the first failed one, and afterwards has them in hand, recorded, *)
(* or is going to throw.                                                   *)
Accounted(me, rec) ==
    /\ me.pc = "height" => \A s \in Honest : BlockOf[s] <= me.from => s \in rec
    /\ me.pc = "scan" =>
          \A s \in Honest :
             /\ BlockOf[s] < me.start
             /\ BlockOf[s] <= me.target
             /\ me.failed = None \/ BlockOf[s] < me.failed
             => s \in rec \union me.seen
    /\ me.pc \notin {"idle", "height", "scan"} =>
          \/ me.hold
          \/ \A s \in Honest : BlockOf[s] <= CursorTarget(me) => s \in rec \union InHand(me)

Sound(me, rec) == Ranges(me) /\ Emptied(me) /\ Accounted(me, rec)

(* A resolved row stands for a sale that is there.                         *)
DoneIsSold == \A s \in Sales : done[s] > 0 => s \in sold

(* The rows a drain took and the blocked ones are different open rows, and *)
(* what it took can be resolved and is not refused.                        *)
TakenStands ==
    \A s \in Sales :
        /\ blocked[s] + drain.rows[s] <= open[s]
        /\ drain.rows[s] > 0 => s \in known \ Poison

AllSound == \A t \in Ticks : Sound(tick[t], RecordedSales)

IInv == TypeOK /\ DoneIsSold /\ TakenStands /\ NothingLost /\ AllSound
-----------------------------------------------------------------------------
(* Facts about the locals of a tick, whatever the state is.                *)

LEMMA IdleSound ==
    ASSUME NEW rec
    PROVE  Idle \in Locals /\ Sound(Idle, rec)
  BY BlockAssumption
     DEF Idle, Locals, Stages, Block, Sound, Ranges, Emptied, Accounted

(* What is accounted for stays so when more sales are recorded.            *)
LEMMA SoundStays ==
    ASSUME NEW me \in Locals, NEW rec, NEW more, rec \subseteq more, Sound(me, rec)
    PROVE  Sound(me, more)
<1>1. Accounted(me, more)
  BY DEF Sound, Accounted
<1> QED
  BY <1>1 DEF Sound

(* The cursor a tick would write lies between its start and its target.    *)
LEMMA TargetInRange ==
    ASSUME NEW me \in Locals, Ranges(me), me.pc \notin {"idle", "height"}
    PROVE  CursorTarget(me) \in Block /\ CursorTarget(me) <= me.target
  BY BlockAssumption, NoneAssumption DEF Locals, Ranges, CursorTarget, Block

(* Where the recorded sales only grow, a tick step keeps the invariant if  *)
(* the locals it leaves are sound and so is the cursor.                    *)
LEMMA TickStepKeeps ==
    ASSUME IInv, NEW t \in Ticks, NEW new \in Locals, Becomes(t, new),
           Sound(new, RecordedSales'), RecordedSales \subseteq RecordedSales',
           UNCHANGED <<height, known, promotion>>, faults' \in 0..MaxFaults,
           sold \subseteq sold', sold' \subseteq Sales, open' \in [Sales -> Nat],
           \A s \in Sales : open[s] <= open'[s],
           cursor' \in Block,
           \A s \in Honest : BlockOf[s] <= cursor' => s \in RecordedSales'
    PROVE  IInv'
<1> USE DEF IInv
<1>1. TypeOK'
  BY DEF TypeOK, Becomes, promotion
<1>2. DoneIsSold' /\ TakenStands'
  <2>1. UNCHANGED <<done, blocked, drain, known>>
    BY DEF promotion
  <2>2. \A s \in Sales : /\ open[s] \in Nat /\ open'[s] \in Nat
                         /\ blocked[s] \in Nat /\ drain.rows[s] \in Nat
    BY DEF TypeOK
  <2>3. DoneIsSold'
    BY <2>1 DEF DoneIsSold
  <2>4. TakenStands'
    BY <2>1, <2>2 DEF TakenStands
  <2> QED
    BY <2>3, <2>4
<1>3. NothingLost'
  BY DEF NothingLost, Honest, RecordedSales
<1>4. AllSound'
  <2> SUFFICES ASSUME NEW u \in Ticks
               PROVE  Sound(tick'[u], RecordedSales')
    BY DEF AllSound
  <2>1. tick[u] \in Locals /\ Sound(tick[u], RecordedSales)
    BY DEF TypeOK, AllSound
  <2>2. Sound(tick[u], RecordedSales')
    BY <2>1, SoundStays
  <2>3. tick'[u] = IF u = t THEN new ELSE tick[u]
    BY DEF Becomes, TypeOK
  <2> QED
    BY <2>2, <2>3
<1> QED
  BY <1>1, <1>2, <1>3, <1>4

(* The case of a step that leaves all tables and the cursor alone.         *)
LEMMA LocalStepKeeps ==
    ASSUME IInv, NEW t \in Ticks, NEW new \in Locals, Becomes(t, new),
           Sound(new, RecordedSales),
           UNCHANGED <<height, cursor, known, sold, open, promotion>>,
           faults' \in 0..MaxFaults
    PROVE  IInv'
<1>1. RecordedSales' = RecordedSales
  BY DEF RecordedSales, Recorded
<1>2. \A s \in Honest : BlockOf[s] <= cursor => s \in RecordedSales
  BY DEF IInv, NothingLost, Honest, RecordedSales
<1>3. /\ sold \subseteq Sales /\ open \in [Sales -> Nat] /\ cursor \in Block
      /\ \A s \in Sales : open[s] <= open'[s]
  BY DEF IInv, TypeOK
<1> QED
  BY <1>1, <1>2, <1>3, TickStepKeeps

(* Counting a fault stays within the bound.                                *)
LEMMA FaultsInRange ==
    ASSUME TypeOK, NEW n \in Nat, Faults(n)
    PROVE  faults' \in 0..MaxFaults
  BY SizeAssumption DEF TypeOK, Faults
-----------------------------------------------------------------------------
(* Each step of a tick, in the order of the code.                          *)

LEMMA ReadCursorKeeps ==
    ASSUME IInv, NEW t \in Ticks, ReadCursor(t)
    PROVE  IInv'
<1> DEFINE new == [Idle EXCEPT !.pc = "height", !.from = cursor]
<1>1. new \in Locals
  <2>1. "height" \in Stages /\ cursor \in Block /\ Idle \in Locals
    BY IdleSound DEF IInv, TypeOK, Stages
  <2> QED
    BY <2>1 DEF Locals
<1>2. Ranges(new) /\ Emptied(new)
  BY DEF Ranges, Emptied, Idle
<1>3. Accounted(new, RecordedSales)
  BY DEF Accounted, Idle, IInv, NothingLost, Honest, RecordedSales
<1>4. Sound(new, RecordedSales)
  BY <1>2, <1>3 DEF Sound
<1>5. Becomes(t, new) /\ UNCHANGED <<height, cursor, known, sold, open, promotion, faults>>
  BY DEF ReadCursor
<1> HIDE DEF new
<1> QED
  BY <1>1, <1>4, <1>5, LocalStepKeeps DEF IInv, TypeOK

LEMMA ReadHeightKeeps ==
    ASSUME IInv, NEW t \in Ticks, ReadHeight(t)
    PROVE  IInv'
<1> DEFINE me == tick[t]
           scanning == [me EXCEPT !.pc = "scan", !.start = me.from + 1,
                                  !.target = TargetHeight(me)]
           new == IF me.from >= height THEN Idle ELSE scanning
<1>1. me \in Locals /\ Sound(me, RecordedSales) /\ me.pc = "height"
  BY DEF IInv, TypeOK, AllSound, ReadHeight, At
<1>2. height \in Block /\ faults \in 0..MaxFaults
  BY DEF IInv, TypeOK
<1>3. Becomes(t, new) /\ UNCHANGED <<height, cursor, known, sold, open, promotion, faults>>
  BY DEF ReadHeight
<1>4. Idle \in Locals /\ Sound(Idle, RecordedSales)
  BY IdleSound
<1> HIDE DEF me
<1>5. ASSUME ~(me.from >= height)
      PROVE  scanning \in Locals /\ Sound(scanning, RecordedSales)
  <2>1. TargetHeight(me) \in Block /\ me.from <= TargetHeight(me)
    BY <1>1, <1>2, <1>5, BlockAssumption, SizeAssumption DEF TargetHeight, Least, Locals, Block
  <2>2. scanning \in Locals
    <3>1. "scan" \in Stages /\ me.from + 1 \in Nat
      BY <1>1, BlockAssumption DEF Locals, Stages, Block
    <3> HIDE DEF me
    <3> QED
      BY <1>1, <2>1, <3>1 DEF Locals
  <2>3. Ranges(scanning) /\ Emptied(scanning)
    BY <1>1, <2>1, BlockAssumption DEF Ranges, Emptied, Sound, Locals, Block
  <2>4. \A s \in Honest : BlockOf[s] < me.from + 1 => s \in RecordedSales
    BY <1>1, BlockAssumption DEF Sound, Accounted, Locals, Block, Honest
  <2>5. Accounted(scanning, RecordedSales)
    BY <1>1, <2>4 DEF Accounted, Locals
  <2> QED
    BY <2>2, <2>3, <2>5 DEF Sound
<1>6. new \in Locals /\ Sound(new, RecordedSales)
  BY <1>4, <1>5
<1> HIDE DEF new
<1> QED
  BY <1>2, <1>3, <1>6, LocalStepKeeps

LEMMA FetchChunkKeeps ==
    ASSUME IInv, NEW t \in Ticks, FetchChunk(t)
    PROVE  IInv'
<1> DEFINE me == tick[t]
<1>1. PICK lost \in SUBSET Sources :
        /\ Faults(Cardinality(lost))
        /\ Becomes(t, [me EXCEPT
              !.start = me.start + ChunkSize,
              !.failed = IF lost # {} /\ me.failed = None THEN me.start ELSE me.failed,
              !.seen = me.seen \union {s \in Sales : /\ BlockOf[s] \in me.start..ChunkEnd(me)
                                                     /\ SourceOf[s] \notin lost}])
  BY DEF FetchChunk
<1> DEFINE fetched == {s \in Sales : /\ BlockOf[s] \in me.start..ChunkEnd(me)
                                     /\ SourceOf[s] \notin lost}
           failed == IF lost # {} /\ me.failed = None THEN me.start ELSE me.failed
           new == [me EXCEPT !.start = me.start + ChunkSize, !.failed = failed,
                             !.seen = me.seen \union fetched]
<1>2. me \in Locals /\ Sound(me, RecordedSales) /\ me.pc = "scan" /\ me.start <= me.target
  BY DEF IInv, TypeOK, AllSound, FetchChunk, At
<1>3. Becomes(t, new) /\ UNCHANGED <<height, cursor, known, sold, open, promotion>>
  BY <1>1 DEF FetchChunk
<1>4. faults' \in 0..MaxFaults
  <2>1. Cardinality(lost) \in Nat
    BY SourceAssumption, FS_Subset, FS_CardinalityType
  <2> QED
    BY <1>1, <2>1, FaultsInRange DEF IInv
<1> HIDE DEF me
<1>5. /\ me.start \in Nat /\ me.target \in Block /\ me.from \in Block
      /\ me.failed \in Nat \union {None} /\ me.seen \subseteq Sales
  BY <1>2 DEF Locals
<1>6. failed \in Nat \union {None} /\ fetched \subseteq Sales
  BY <1>5
<1>7. /\ failed # None => /\ me.from < failed /\ failed <= me.target /\ failed <= me.start
      /\ failed = None \/ failed <= me.start
      /\ failed = None => lost = {} /\ me.failed = None
      /\ \A b \in Nat : failed # None /\ b < failed =>
                           b < me.start /\ (me.failed = None \/ b < me.failed)
  BY <1>2, <1>5, NoneAssumption, BlockAssumption DEF Sound, Ranges, Block
<1> HIDE DEF failed
<1>8. new \in Locals
  <2>1. me.start + ChunkSize \in Nat /\ me.seen \union fetched \in SUBSET Sales
    BY <1>5, <1>6, SizeAssumption
  <2> HIDE DEF fetched
  <2> QED
    BY <1>2, <1>6, <2>1 DEF Locals
<1>9. Ranges(new) /\ Emptied(new)
  BY <1>2, <1>5, <1>6, <1>7, SizeAssumption, BlockAssumption, NoneAssumption
     DEF Ranges, Emptied, Sound, Locals, Block
<1>10. ASSUME NEW s \in Honest, BlockOf[s] < me.start + ChunkSize,
              BlockOf[s] <= me.target, failed = None \/ BlockOf[s] < failed
       PROVE  s \in RecordedSales \union me.seen \union fetched
  <2>1. BlockOf[s] \in Nat /\ s \in Sales /\ SourceOf[s] \in Sources
    BY BlockAssumption, SourceAssumption DEF Honest, Block
  <2>2. CASE BlockOf[s] < me.start
    <3>1. me.failed = None \/ BlockOf[s] < me.failed
      BY <1>7, <1>10, <2>1
    <3> QED
      BY <1>2, <1>10, <2>2, <3>1 DEF Sound, Accounted
  <2>3. CASE ~(BlockOf[s] < me.start)
    <3>1. failed = None /\ lost = {}
      BY <1>5, <1>6, <1>7, <1>10, <2>1, <2>3, NoneAssumption
    <3>2. BlockOf[s] \in me.start..ChunkEnd(me)
      BY <1>5, <1>10, <2>1, <2>3, SizeAssumption, BlockAssumption DEF ChunkEnd, Least, Block
    <3> QED
      BY <2>1, <3>1, <3>2
  <2> QED
    BY <2>2, <2>3
<1> HIDE DEF fetched
<1>11. Accounted(new, RecordedSales)
  BY <1>2, <1>10 DEF Accounted, Locals
<1>12. Sound(new, RecordedSales)
  BY <1>9, <1>11 DEF Sound
<1> HIDE DEF new
<1> QED
  BY <1>3, <1>4, <1>8, <1>12, LocalStepKeeps

LEMMA EndScanKeeps ==
    ASSUME IInv, NEW t \in Ticks, EndScan(t)
    PROVE  IInv'
<1> DEFINE me == tick[t]
           new == [me EXCEPT !.pc = IF me.seen = {} THEN "save" ELSE "resolve"]
<1>1. me \in Locals /\ Sound(me, RecordedSales) /\ me.pc = "scan" /\ me.start > me.target
  BY DEF IInv, TypeOK, AllSound, EndScan, At
<1>2. Becomes(t, new) /\ UNCHANGED <<height, cursor, known, sold, open, promotion, faults>>
  BY DEF EndScan
<1> HIDE DEF me
<1>3. new \in Locals
  BY <1>1 DEF Locals, Stages
<1>4. Ranges(new) /\ Emptied(new)
  BY <1>1 DEF Ranges, Emptied, Sound, Locals
<1>5. CursorTarget(new) = CursorTarget(me) /\ InHand(me) = InHand(new)
  BY <1>1 DEF CursorTarget, InHand, Locals
<1>6. ASSUME NEW s \in Honest, BlockOf[s] <= CursorTarget(me)
      PROVE  s \in RecordedSales \union InHand(me)
  <2>1. /\ BlockOf[s] \in Nat /\ me.start \in Nat /\ me.target \in Nat
        /\ me.failed \in Nat \union {None}
        /\ me.failed # None => me.failed <= me.target
    BY <1>1, BlockAssumption DEF Honest, Locals, Block, Sound, Ranges
  <2>2. /\ BlockOf[s] < me.start /\ BlockOf[s] <= me.target
        /\ me.failed = None \/ BlockOf[s] < me.failed
    BY <1>1, <1>6, <2>1 DEF CursorTarget
  <2> QED
    BY <1>1, <2>2 DEF Sound, Accounted, InHand
<1>7. Accounted(new, RecordedSales)
  <2>1. new.pc \in {"save", "resolve"}
    BY <1>1 DEF Locals
  <2> QED
    BY <1>5, <1>6, <2>1 DEF Accounted
<1>8. Sound(new, RecordedSales)
  BY <1>4, <1>7 DEF Sound
<1> HIDE DEF new
<1> QED
  BY <1>2, <1>3, <1>8, LocalStepKeeps DEF IInv, TypeOK

LEMMA ResolveKeeps ==
    ASSUME IInv, NEW t \in Ticks, Resolve(t)
    PROVE  IInv'
<1> DEFINE me == tick[t]
<1>1. PICK found \in SUBSET me.seen :
        Becomes(t, [me EXCEPT !.pc = "insert", !.seen = {},
                              !.todo = found, !.park = me.seen \ found])
  BY DEF Resolve
<1> DEFINE new == [me EXCEPT !.pc = "insert", !.seen = {},
                             !.todo = found, !.park = me.seen \ found]
<1>2. me \in Locals /\ Sound(me, RecordedSales) /\ me.pc = "resolve"
  BY DEF IInv, TypeOK, AllSound, Resolve, At
<1>3. Becomes(t, new) /\ UNCHANGED <<height, cursor, known, sold, open, promotion, faults>>
  BY <1>1 DEF Resolve
<1> HIDE DEF me
<1>4. new \in Locals
  <2>1. /\ "insert" \in Stages /\ {} \in SUBSET Sales
        /\ found \in SUBSET Sales /\ me.seen \ found \in SUBSET Sales
    BY <1>2 DEF Stages, Locals
  <2> QED
    BY <1>2, <2>1 DEF Locals
<1>5. Ranges(new) /\ Emptied(new)
  BY <1>2 DEF Ranges, Emptied, Sound, Locals
<1>6. InHand(me) \subseteq InHand(new) /\ CursorTarget(new) = CursorTarget(me)
  BY <1>2 DEF InHand, CursorTarget, Locals, Sound, Emptied
<1>7. new.pc = "insert" /\ new.hold = me.hold
  BY <1>2 DEF Locals
<1>8. Accounted(new, RecordedSales)
  BY <1>2, <1>6, <1>7 DEF Accounted, Sound
<1>9. Sound(new, RecordedSales)
  BY <1>5, <1>8 DEF Sound
<1> HIDE DEF new
<1> QED
  BY <1>3, <1>4, <1>9, LocalStepKeeps DEF IInv, TypeOK

LEMMA EndRowsKeeps ==
    ASSUME IInv, NEW t \in Ticks, EndRows(t)
    PROVE  IInv'
<1> DEFINE me == tick[t]
           new == [me EXCEPT !.pc = "insert"]
<1>1. me \in Locals /\ Sound(me, RecordedSales) /\ me.pc = "rows" /\ me.batch = {}
  BY DEF IInv, TypeOK, AllSound, EndRows, At
<1>2. Becomes(t, new) /\ UNCHANGED <<height, cursor, known, sold, open, promotion, faults>>
  BY DEF EndRows
<1> HIDE DEF me
<1>3. new \in Locals /\ new.pc \in {"insert"}
  BY <1>1 DEF Locals, Stages
<1>4. Ranges(new) /\ Emptied(new)
  BY <1>1 DEF Ranges, Emptied, Sound, Locals
<1>5. /\ CursorTarget(new) = CursorTarget(me) /\ InHand(me) = InHand(new)
      /\ new.hold = me.hold
  BY <1>1 DEF CursorTarget, InHand, Locals
<1>6. Accounted(new, RecordedSales)
  BY <1>1, <1>3, <1>5 DEF Accounted, Sound
<1>7. Sound(new, RecordedSales)
  BY <1>4, <1>6 DEF Sound
<1> HIDE DEF new
<1> QED
  BY <1>2, <1>3, <1>7, LocalStepKeeps DEF IInv, TypeOK

LEMMA EndInsertKeeps ==
    ASSUME IInv, NEW t \in Ticks, EndInsert(t)
    PROVE  IInv'
<1> DEFINE me == tick[t]
           new == [me EXCEPT !.pc = IF me.park = {} THEN "save" ELSE "dedup"]
<1>1. me \in Locals /\ Sound(me, RecordedSales) /\ me.pc = "insert" /\ me.todo = {}
  BY DEF IInv, TypeOK, AllSound, EndInsert, At
<1>2. Becomes(t, new) /\ UNCHANGED <<height, cursor, known, sold, open, promotion, faults>>
  BY DEF EndInsert
<1> HIDE DEF me
<1>3. new \in Locals /\ new.pc \in {"save", "dedup"}
  BY <1>1 DEF Locals, Stages
<1>4. Ranges(new) /\ Emptied(new)
  BY <1>1 DEF Ranges, Emptied, Sound, Locals
<1>5. /\ CursorTarget(new) = CursorTarget(me) /\ InHand(me) = InHand(new)
      /\ new.hold = me.hold
  BY <1>1 DEF CursorTarget, InHand, Locals
<1>6. Accounted(new, RecordedSales)
  BY <1>1, <1>3, <1>5 DEF Accounted, Sound
<1>7. Sound(new, RecordedSales)
  BY <1>4, <1>6 DEF Sound
<1> HIDE DEF new
<1> QED
  BY <1>2, <1>3, <1>7, LocalStepKeeps DEF IInv, TypeOK

LEMMA EndParkRowsKeeps ==
    ASSUME IInv, NEW t \in Ticks, EndParkRows(t)
    PROVE  IInv'
<1> DEFINE me == tick[t]
           new == [me EXCEPT !.pc = "park"]
<1>1. me \in Locals /\ Sound(me, RecordedSales) /\ me.pc = "parkRows" /\ me.batch = {}
  BY DEF IInv, TypeOK, AllSound, EndParkRows, At
<1>2. Becomes(t, new) /\ UNCHANGED <<height, cursor, known, sold, open, promotion, faults>>
  BY DEF EndParkRows
<1> HIDE DEF me
<1>3. new \in Locals /\ new.pc \in {"park"}
  BY <1>1 DEF Locals, Stages
<1>4. Ranges(new) /\ Emptied(new)
  BY <1>1 DEF Ranges, Emptied, Sound, Locals
<1>5. /\ CursorTarget(new) = CursorTarget(me) /\ InHand(me) = InHand(new)
      /\ new.hold = me.hold
  BY <1>1 DEF CursorTarget, InHand, Locals
<1>6. Accounted(new, RecordedSales)
  BY <1>1, <1>3, <1>5 DEF Accounted, Sound
<1>7. Sound(new, RecordedSales)
  BY <1>4, <1>6 DEF Sound
<1> HIDE DEF new
<1> QED
  BY <1>2, <1>3, <1>7, LocalStepKeeps DEF IInv, TypeOK

LEMMA EndParkKeeps ==
    ASSUME IInv, NEW t \in Ticks, EndPark(t)
    PROVE  IInv'
<1> DEFINE me == tick[t]
           new == [me EXCEPT !.pc = "save"]
<1>1. me \in Locals /\ Sound(me, RecordedSales) /\ me.pc = "park" /\ me.park = {}
  BY DEF IInv, TypeOK, AllSound, EndPark, At
<1>2. Becomes(t, new) /\ UNCHANGED <<height, cursor, known, sold, open, promotion, faults>>
  BY DEF EndPark
<1> HIDE DEF me
<1>3. new \in Locals /\ new.pc \in {"save"}
  BY <1>1 DEF Locals, Stages
<1>4. Ranges(new) /\ Emptied(new)
  BY <1>1 DEF Ranges, Emptied, Sound, Locals
<1>5. /\ CursorTarget(new) = CursorTarget(me) /\ InHand(me) = InHand(new)
      /\ new.hold = me.hold
  BY <1>1 DEF CursorTarget, InHand, Locals
<1>6. Accounted(new, RecordedSales)
  BY <1>1, <1>3, <1>5 DEF Accounted, Sound
<1>7. Sound(new, RecordedSales)
  BY <1>4, <1>6 DEF Sound
<1> HIDE DEF new
<1> QED
  BY <1>2, <1>3, <1>7, LocalStepKeeps DEF IInv, TypeOK

LEMMA ReadParkedKeeps ==
    ASSUME IInv, NEW t \in Ticks, ReadParked(t)
    PROVE  IInv'
<1> DEFINE me == tick[t]
           left == {s \in me.park : ~Parked(s)}
           new == [me EXCEPT !.pc = "park", !.park = left]
<1>1. me \in Locals /\ Sound(me, RecordedSales) /\ me.pc = "dedup"
  BY DEF IInv, TypeOK, AllSound, ReadParked, At
<1>2. Becomes(t, new) /\ UNCHANGED <<height, cursor, known, sold, open, promotion, faults>>
  BY DEF ReadParked
<1>3. me.park \ left \subseteq RecordedSales
  <2> SUFFICES ASSUME NEW s \in me.park, Parked(s)
               PROVE  s \in RecordedSales
    OBVIOUS
  <2>1. s \in Sales /\ open[s] \in Nat /\ done[s] \in Nat
    BY <1>1 DEF IInv, TypeOK, Locals
  <2>2. open[s] > 0 \/ done[s] > 0
    BY <2>1 DEF Parked
  <2> QED
    BY <2>1, <2>2 DEF RecordedSales, Recorded, IInv, DoneIsSold
<1> HIDE DEF me
<1>4. left \in SUBSET me.park
  OBVIOUS
<1> HIDE DEF left
<1>5. new \in Locals
  <2>1. "park" \in Stages /\ left \in SUBSET Sales
    BY <1>1, <1>4 DEF Stages, Locals
  <2> QED
    BY <1>1, <2>1 DEF Locals
<1>6. Ranges(new) /\ Emptied(new)
  BY <1>1 DEF Ranges, Emptied, Sound, Locals
<1>7. /\ InHand(me) \subseteq InHand(new) \union RecordedSales
      /\ CursorTarget(new) = CursorTarget(me)
  BY <1>1, <1>3 DEF InHand, CursorTarget, Locals
<1>8. new.pc = "park" /\ new.hold = me.hold
  BY <1>1 DEF Locals
<1>9. Accounted(new, RecordedSales)
  BY <1>1, <1>7, <1>8 DEF Accounted, Sound
<1>10. Sound(new, RecordedSales)
  BY <1>6, <1>9 DEF Sound
<1> HIDE DEF new
<1> QED
  BY <1>2, <1>5, <1>10, LocalStepKeeps DEF IInv, TypeOK

-----------------------------------------------------------------------------
(* The steps of a tick that write a table.                                 *)

(* A working tick may let go of a sale that is recorded or refused, or of  *)
(* any sale once it is going to throw.                                     *)
LEMMA HandOver ==
    ASSUME NEW me \in Locals, NEW new \in Locals, NEW rec, NEW more,
           Sound(me, rec), rec \subseteq more,
           me.pc \notin {"idle", "height", "scan"},
           new.pc \notin {"idle", "height", "scan"},
           Ranges(new), Emptied(new), CursorTarget(new) = CursorTarget(me),
           \/ new.hold
           \/ /\ new.hold = me.hold
              /\ InHand(me) \ Poison \subseteq InHand(new) \union more
    PROVE  Sound(new, more)
<1>1. Accounted(new, more)
  <2>1. CASE new.hold
    BY <2>1 DEF Accounted
  <2>2. CASE /\ new.hold = me.hold
             /\ InHand(me) \ Poison \subseteq InHand(new) \union more
    BY <2>2 DEF Accounted, Sound, Honest
  <2> QED
    BY <2>1, <2>2
<1> QED
  BY <1>1 DEF Sound

(* What inserting into sales, or parking, does to the recorded sales.      *)
LEMMA SoldGrows ==
    ASSUME TypeOK, sold \subseteq sold', sold' \subseteq Sales, UNCHANGED open
    PROVE  RecordedSales \subseteq RecordedSales' /\ sold' \subseteq RecordedSales'
  BY DEF RecordedSales, Recorded

LEMMA ParkedGrows ==
    ASSUME TypeOK, NEW b \in SUBSET Sales, open' \in {open, WithRows(b)}, UNCHANGED sold
    PROVE  /\ RecordedSales \subseteq RecordedSales'
           /\ open' = WithRows(b) => b \subseteq RecordedSales'
           /\ open' \in [Sales -> Nat] /\ \A s \in Sales : open[s] <= open'[s]
<1>1. open \in [Sales -> Nat]
  BY DEF TypeOK
<1>2. /\ WithRows(b) \in [Sales -> Nat]
      /\ \A s \in Sales : WithRows(b)[s] >= open[s] /\ (s \in b => WithRows(b)[s] > 0)
  BY <1>1 DEF WithRows
<1>3. open' \in [Sales -> Nat] /\ \A s \in Sales : open'[s] >= open[s]
  BY <1>1, <1>2
<1> QED
  BY <1>1, <1>2, <1>3 DEF RecordedSales, Recorded

LEMMA CursorStays ==
    ASSUME IInv, RecordedSales \subseteq RecordedSales', UNCHANGED cursor
    PROVE  /\ cursor' \in Block
           /\ \A s \in Honest : BlockOf[s] <= cursor' => s \in RecordedSales'
<1>1. \A s \in Honest : BlockOf[s] <= cursor => s \in RecordedSales
  BY DEF IInv, NothingLost, Honest, RecordedSales
<1> QED
  BY <1>1 DEF IInv, TypeOK

LEMMA InsertBatchKeeps ==
    ASSUME IInv, NEW t \in Ticks, InsertBatch(t)
    PROVE  IInv'
<1> DEFINE me == tick[t]
<1>1. /\ me \in Locals /\ Sound(me, RecordedSales) /\ me.pc = "insert"
      /\ UNCHANGED <<height, cursor, known, open, promotion>>
      /\ sold \subseteq Sales /\ open \in [Sales -> Nat] /\ faults \in 0..MaxFaults /\ TypeOK
  BY DEF IInv, TypeOK, AllSound, InsertBatch, At
<1>2. PICK b \in SUBSET me.todo :
        \/ /\ sold' = sold \union b
           /\ Becomes(t, [me EXCEPT !.todo = me.todo \ b])
           /\ UNCHANGED faults
        \/ /\ sold' \in {sold, sold \union b}
           /\ faults' = faults \/ Faults(1)
           /\ Becomes(t, [me EXCEPT !.pc = "rows", !.todo = me.todo \ b, !.batch = b])
  BY DEF InsertBatch, Batches, kSubset
<1>3. faults' \in 0..MaxFaults
  BY <1>1, <1>2, FaultsInRange
<1>4. b \subseteq Sales /\ sold \subseteq sold' /\ sold' \subseteq Sales
  BY <1>1, <1>2 DEF Locals
<1>5. RecordedSales \subseteq RecordedSales' /\ sold' \subseteq RecordedSales'
  BY <1>1, <1>4, SoldGrows
<1> HIDE DEF me
<1>6. CASE /\ sold' = sold \union b
           /\ Becomes(t, [me EXCEPT !.todo = me.todo \ b])
  <2> DEFINE new == [me EXCEPT !.todo = me.todo \ b]
  <2>1. new \in Locals /\ new.pc = "insert" /\ new.hold = me.hold
    BY <1>1 DEF Locals
  <2>2. Ranges(new) /\ Emptied(new) /\ CursorTarget(new) = CursorTarget(me)
    BY <1>1 DEF Ranges, Emptied, Sound, Locals, CursorTarget
  <2>3. InHand(me) \ Poison \subseteq InHand(new) \union RecordedSales'
    BY <1>1, <1>5, <1>6 DEF InHand, Locals
  <2>4. Becomes(t, new)
    BY <1>6
  <2> HIDE DEF new
  <2>5. Sound(new, RecordedSales')
    BY <1>1, <1>5, <2>1, <2>2, <2>3, HandOver
  <2> QED
    BY <1>1, <1>3, <1>4, <1>5, <2>1, <2>4, <2>5, TickStepKeeps, CursorStays
<1>7. CASE Becomes(t, [me EXCEPT !.pc = "rows", !.todo = me.todo \ b, !.batch = b])
  <2> DEFINE new == [me EXCEPT !.pc = "rows", !.todo = me.todo \ b, !.batch = b]
  <2>1. new \in Locals /\ new.pc = "rows" /\ new.hold = me.hold
    <3>1. "rows" \in Stages /\ me.todo \ b \in SUBSET Sales /\ b \in SUBSET Sales
      BY <1>1, <1>4 DEF Locals, Stages
    <3> QED
      BY <1>1, <3>1 DEF Locals
  <2>2. Ranges(new) /\ Emptied(new) /\ CursorTarget(new) = CursorTarget(me)
    BY <1>1 DEF Ranges, Emptied, Sound, Locals, CursorTarget
  <2>3. InHand(me) \ Poison \subseteq InHand(new) \union RecordedSales'
    <3>1. me.batch = {}
      BY <1>1 DEF Sound, Emptied
    <3> QED
      BY <1>1, <3>1 DEF InHand, Locals
  <2>4. Becomes(t, new)
    BY <1>7
  <2> HIDE DEF new
  <2>5. Sound(new, RecordedSales')
    BY <1>1, <1>5, <2>1, <2>2, <2>3, HandOver
  <2> QED
    BY <1>1, <1>3, <1>4, <1>5, <2>1, <2>4, <2>5, TickStepKeeps, CursorStays
<1> QED
  BY <1>2, <1>6, <1>7

LEMMA InsertRowKeeps ==
    ASSUME IInv, NEW t \in Ticks, InsertRow(t)
    PROVE  IInv'
<1> DEFINE me == tick[t]
<1>1. /\ me \in Locals /\ Sound(me, RecordedSales) /\ me.pc = "rows"
      /\ UNCHANGED <<height, cursor, known, open, promotion>>
      /\ sold \subseteq Sales /\ open \in [Sales -> Nat] /\ faults \in 0..MaxFaults /\ TypeOK
  BY DEF IInv, TypeOK, AllSound, InsertRow, At
<1>2. PICK s \in me.batch :
        \/ /\ sold' = IF s \in Poison THEN sold ELSE sold \union {s}
           /\ Becomes(t, [me EXCEPT !.batch = me.batch \ {s}])
           /\ UNCHANGED faults
        \/ /\ Faults(1)
           /\ sold' \in {sold, IF s \in Poison THEN sold ELSE sold \union {s}}
           /\ Becomes(t, [me EXCEPT !.batch = me.batch \ {s}, !.hold = TRUE])
  BY DEF InsertRow, FailedRow
<1>3. faults' \in 0..MaxFaults
  BY <1>1, <1>2, FaultsInRange
<1>4. s \in Sales /\ sold \subseteq sold' /\ sold' \subseteq Sales
  BY <1>1, <1>2 DEF Locals
<1>5. RecordedSales \subseteq RecordedSales' /\ sold' \subseteq RecordedSales'
  BY <1>1, <1>4, SoldGrows
<1> HIDE DEF me
<1>6. CASE /\ sold' = IF s \in Poison THEN sold ELSE sold \union {s}
           /\ Becomes(t, [me EXCEPT !.batch = me.batch \ {s}])
  <2> DEFINE new == [me EXCEPT !.batch = me.batch \ {s}]
  <2>1. new \in Locals /\ new.pc = "rows" /\ new.hold = me.hold
    BY <1>1 DEF Locals
  <2>2. Ranges(new) /\ Emptied(new) /\ CursorTarget(new) = CursorTarget(me)
    BY <1>1 DEF Ranges, Emptied, Sound, Locals, CursorTarget
  <2>3. InHand(me) \ Poison \subseteq InHand(new) \union RecordedSales'
    BY <1>1, <1>5, <1>6 DEF InHand, Locals
  <2>4. Becomes(t, new)
    BY <1>6
  <2> HIDE DEF new
  <2>5. Sound(new, RecordedSales')
    BY <1>1, <1>5, <2>1, <2>2, <2>3, HandOver
  <2> QED
    BY <1>1, <1>3, <1>4, <1>5, <2>1, <2>4, <2>5, TickStepKeeps, CursorStays
<1>7. CASE Becomes(t, [me EXCEPT !.batch = me.batch \ {s}, !.hold = TRUE])
  <2> DEFINE new == [me EXCEPT !.batch = me.batch \ {s}, !.hold = TRUE]
  <2>1. new \in Locals /\ new.pc = "rows" /\ new.hold
    BY <1>1 DEF Locals
  <2>2. Ranges(new) /\ Emptied(new) /\ CursorTarget(new) = CursorTarget(me)
    BY <1>1 DEF Ranges, Emptied, Sound, Locals, CursorTarget
  <2>4. Becomes(t, new)
    BY <1>7
  <2> HIDE DEF new
  <2>5. Sound(new, RecordedSales')
    BY <1>1, <1>5, <2>1, <2>2, HandOver
  <2> QED
    BY <1>1, <1>3, <1>4, <1>5, <2>1, <2>4, <2>5, TickStepKeeps, CursorStays
<1> QED
  BY <1>2, <1>6, <1>7

LEMMA ParkBatchKeeps ==
    ASSUME IInv, NEW t \in Ticks, ParkBatch(t)
    PROVE  IInv'
<1> DEFINE me == tick[t]
<1>1. /\ me \in Locals /\ Sound(me, RecordedSales) /\ me.pc = "park"
      /\ UNCHANGED <<height, cursor, known, sold, promotion>>
      /\ sold \subseteq Sales /\ open \in [Sales -> Nat] /\ faults \in 0..MaxFaults /\ TypeOK
  BY DEF IInv, TypeOK, AllSound, ParkBatch, At
<1>2. PICK b \in SUBSET me.park :
        \/ /\ open' = WithRows(b)
           /\ Becomes(t, [me EXCEPT !.park = me.park \ b])
           /\ UNCHANGED faults
        \/ /\ open' \in {open, WithRows(b)}
           /\ Faults(1)
           /\ Becomes(t, [me EXCEPT !.pc = "parkRows", !.park = me.park \ b, !.batch = b])
  BY DEF ParkBatch, Batches, kSubset
<1>3. faults' \in 0..MaxFaults
  BY <1>1, <1>2, FaultsInRange
<1>4. b \in SUBSET Sales /\ open' \in {open, WithRows(b)}
  BY <1>1, <1>2 DEF Locals
<1>5. /\ RecordedSales \subseteq RecordedSales'
      /\ open' = WithRows(b) => b \subseteq RecordedSales'
      /\ open' \in [Sales -> Nat] /\ \A q \in Sales : open[q] <= open'[q]
  BY <1>1, <1>4, ParkedGrows
<1> HIDE DEF me
<1>6. CASE /\ open' = WithRows(b)
           /\ Becomes(t, [me EXCEPT !.park = me.park \ b])
  <2> DEFINE new == [me EXCEPT !.park = me.park \ b]
  <2>1. new \in Locals /\ new.pc = "park" /\ new.hold = me.hold
    BY <1>1 DEF Locals
  <2>2. Ranges(new) /\ Emptied(new) /\ CursorTarget(new) = CursorTarget(me)
    BY <1>1 DEF Ranges, Emptied, Sound, Locals, CursorTarget
  <2>3. InHand(me) \ Poison \subseteq InHand(new) \union RecordedSales'
    BY <1>1, <1>5, <1>6 DEF InHand, Locals
  <2>4. Becomes(t, new)
    BY <1>6
  <2> HIDE DEF new
  <2>5. Sound(new, RecordedSales')
    BY <1>1, <1>5, <2>1, <2>2, <2>3, HandOver
  <2> QED
    BY <1>1, <1>3, <1>4, <1>5, <2>1, <2>4, <2>5, TickStepKeeps, CursorStays
<1>7. CASE Becomes(t, [me EXCEPT !.pc = "parkRows", !.park = me.park \ b, !.batch = b])
  <2> DEFINE new == [me EXCEPT !.pc = "parkRows", !.park = me.park \ b, !.batch = b]
  <2>1. new \in Locals /\ new.pc = "parkRows" /\ new.hold = me.hold
    <3>1. "parkRows" \in Stages /\ me.park \ b \in SUBSET Sales /\ b \in SUBSET Sales
      BY <1>1, <1>4 DEF Locals, Stages
    <3> QED
      BY <1>1, <3>1 DEF Locals
  <2>2. Ranges(new) /\ Emptied(new) /\ CursorTarget(new) = CursorTarget(me)
    BY <1>1 DEF Ranges, Emptied, Sound, Locals, CursorTarget
  <2>3. InHand(me) \ Poison \subseteq InHand(new) \union RecordedSales'
    <3>1. me.batch = {}
      BY <1>1 DEF Sound, Emptied
    <3> QED
      BY <1>1, <3>1 DEF InHand, Locals
  <2>4. Becomes(t, new)
    BY <1>7
  <2> HIDE DEF new
  <2>5. Sound(new, RecordedSales')
    BY <1>1, <1>5, <2>1, <2>2, <2>3, HandOver
  <2> QED
    BY <1>1, <1>3, <1>4, <1>5, <2>1, <2>4, <2>5, TickStepKeeps, CursorStays
<1> QED
  BY <1>2, <1>6, <1>7

LEMMA ParkRowKeeps ==
    ASSUME IInv, NEW t \in Ticks, ParkRow(t)
    PROVE  IInv'
<1> DEFINE me == tick[t]
<1>1. /\ me \in Locals /\ Sound(me, RecordedSales) /\ me.pc = "parkRows"
      /\ UNCHANGED <<height, cursor, known, sold, promotion>>
      /\ sold \subseteq Sales /\ open \in [Sales -> Nat] /\ faults \in 0..MaxFaults /\ TypeOK
  BY DEF IInv, TypeOK, AllSound, ParkRow, At
<1>2. PICK s \in me.batch :
        \/ /\ open' = WithRows({s})
           /\ Becomes(t, [me EXCEPT !.batch = me.batch \ {s}])
           /\ UNCHANGED faults
        \/ /\ Faults(1)
           /\ open' \in {open, WithRows({s})}
           /\ Becomes(t, [me EXCEPT !.batch = me.batch \ {s}, !.hold = TRUE])
  BY DEF ParkRow, FailedRow
<1>3. faults' \in 0..MaxFaults
  BY <1>1, <1>2, FaultsInRange
<1>4. {s} \in SUBSET Sales /\ open' \in {open, WithRows({s})}
  BY <1>1, <1>2 DEF Locals
<1>5. /\ RecordedSales \subseteq RecordedSales'
      /\ open' = WithRows({s}) => {s} \subseteq RecordedSales'
      /\ open' \in [Sales -> Nat] /\ \A q \in Sales : open[q] <= open'[q]
  BY <1>1, <1>4, ParkedGrows
<1> HIDE DEF me
<1>6. CASE /\ open' = WithRows({s})
           /\ Becomes(t, [me EXCEPT !.batch = me.batch \ {s}])
  <2> DEFINE new == [me EXCEPT !.batch = me.batch \ {s}]
  <2>1. new \in Locals /\ new.pc = "parkRows" /\ new.hold = me.hold
    BY <1>1 DEF Locals
  <2>2. Ranges(new) /\ Emptied(new) /\ CursorTarget(new) = CursorTarget(me)
    BY <1>1 DEF Ranges, Emptied, Sound, Locals, CursorTarget
  <2>3. InHand(me) \ Poison \subseteq InHand(new) \union RecordedSales'
    BY <1>1, <1>5, <1>6 DEF InHand, Locals
  <2>4. Becomes(t, new)
    BY <1>6
  <2> HIDE DEF new
  <2>5. Sound(new, RecordedSales')
    BY <1>1, <1>5, <2>1, <2>2, <2>3, HandOver
  <2> QED
    BY <1>1, <1>3, <1>4, <1>5, <2>1, <2>4, <2>5, TickStepKeeps, CursorStays
<1>7. CASE Becomes(t, [me EXCEPT !.batch = me.batch \ {s}, !.hold = TRUE])
  <2> DEFINE new == [me EXCEPT !.batch = me.batch \ {s}, !.hold = TRUE]
  <2>1. new \in Locals /\ new.pc = "parkRows" /\ new.hold
    BY <1>1 DEF Locals
  <2>2. Ranges(new) /\ Emptied(new) /\ CursorTarget(new) = CursorTarget(me)
    BY <1>1 DEF Ranges, Emptied, Sound, Locals, CursorTarget
  <2>4. Becomes(t, new)
    BY <1>7
  <2> HIDE DEF new
  <2>5. Sound(new, RecordedSales')
    BY <1>1, <1>5, <2>1, <2>2, HandOver
  <2> QED
    BY <1>1, <1>3, <1>4, <1>5, <2>1, <2>4, <2>5, TickStepKeeps, CursorStays
<1> QED
  BY <1>2, <1>6, <1>7

(* The cursor a tick writes is sound because nothing is in hand any more.  *)
LEMMA SaveCursorKeeps ==
    ASSUME IInv, NEW t \in Ticks, SaveCursor(t)
    PROVE  IInv'
<1> DEFINE me == tick[t]
<1>1. /\ me \in Locals /\ Sound(me, RecordedSales) /\ me.pc = "save" /\ ~me.hold
      /\ cursor' = CursorTarget(me) /\ Becomes(t, Idle)
      /\ UNCHANGED <<height, known, sold, open, promotion, faults>>
      /\ sold \subseteq Sales /\ open \in [Sales -> Nat] /\ faults \in 0..MaxFaults
  BY DEF IInv, TypeOK, AllSound, SaveCursor, At
<1>2. RecordedSales' = RecordedSales
  BY <1>1 DEF RecordedSales, Recorded
<1> HIDE DEF me
<1>3. InHand(me) = {}
  BY <1>1 DEF Sound, Emptied, InHand
<1>4. \A s \in Honest : BlockOf[s] <= CursorTarget(me) => s \in RecordedSales
  BY <1>1, <1>3 DEF Sound, Accounted
<1>5. CursorTarget(me) \in Block
  BY <1>1, TargetInRange DEF Sound
<1>6. Idle \in Locals /\ Sound(Idle, RecordedSales')
  BY IdleSound
<1> QED
  BY <1>1, <1>2, <1>4, <1>5, <1>6, TickStepKeeps

LEMMA EndingKeeps ==
    ASSUME IInv, NEW t \in Ticks, Throw(t) \/ Stop(t)
    PROVE  IInv'
<1>1. /\ Becomes(t, Idle) /\ UNCHANGED <<height, cursor, known, sold, open, promotion>>
      /\ faults' = faults \/ Faults(1)
  BY DEF Throw, Stop
<1>2. faults' \in 0..MaxFaults
  BY <1>1, FaultsInRange DEF IInv, TypeOK
<1> QED
  BY <1>1, <1>2, IdleSound, LocalStepKeeps

LEMMA TickKeeps ==
    ASSUME IInv, NEW t \in Ticks, TickStep(t) \/ Stop(t)
    PROVE  IInv'
  BY ReadCursorKeeps, ReadHeightKeeps, FetchChunkKeeps, EndScanKeeps, ResolveKeeps,
     InsertBatchKeeps, InsertRowKeeps, EndRowsKeeps, EndInsertKeeps, ReadParkedKeeps,
     ParkBatchKeeps, ParkRowKeeps, EndParkRowsKeeps, EndParkKeeps, SaveCursorKeeps,
     EndingKeeps
     DEF TickStep
-----------------------------------------------------------------------------
(* The steps of the chain, the catalogue and the drain.                    *)

(* A step that leaves the ticks and the cursor alone and forgets nothing.  *)
LEMMA OutsideStepKeeps ==
    ASSUME IInv, TypeOK', DoneIsSold', TakenStands', UNCHANGED <<cursor, tick>>,
           RecordedSales \subseteq RecordedSales'
    PROVE  IInv'
<1>1. NothingLost'
  BY CursorStays DEF NothingLost, Honest, RecordedSales
<1>2. AllSound'
  <2> SUFFICES ASSUME NEW t \in Ticks
               PROVE  Sound(tick[t], RecordedSales')
    BY DEF AllSound
  <2> QED
    BY SoundStays DEF IInv, TypeOK, AllSound
<1> QED
  BY <1>1, <1>2 DEF IInv

(* Deleting old resolved rows makes none.                                  *)
LEMMA KeptRows ==
    ASSUME TypeOK, NEW kept \in Kept
    PROVE  kept \in [Sales -> Nat] /\ \A s \in Sales : kept[s] > 0 => done[s] > 0
<1>1. PICK old : kept = [s \in Sales |-> IF s \in old THEN 0 ELSE done[s]]
  BY DEF Kept
<1> QED
  BY <1>1 DEF TypeOK

(* The drain's commit: what it took is in sales, its rows leave the open   *)
(* ones or are blocked, never both.                                        *)
LEMMA PromoteEffect ==
    ASSUME TypeOK, DoneIsSold, TakenStands, Promote
    PROVE  /\ TypeOK' /\ DoneIsSold' /\ TakenStands'
           /\ RecordedSales \subseteq RecordedSales'
<1>1. PICK kept \in Kept :
        done' = [s \in Sales |-> kept[s] + RowsOf(Taken \ Vanished)[s]]
  BY DEF Promote, Drain
<1>2. /\ sold' = sold \union Taken /\ drain' = NoDrain
      /\ open' = [s \in Sales |-> open[s] - RowsOf(Taken \ Vanished)[s]]
      /\ blocked' = [s \in Sales |-> blocked[s] + RowsOf(Vanished)[s]]
      /\ UNCHANGED <<height, cursor, known, tick, faults>>
  BY DEF Promote, Drain
<1>3. /\ open \in [Sales -> Nat] /\ done \in [Sales -> Nat] /\ blocked \in [Sales -> Nat]
      /\ drain.rows \in [Sales -> Nat] /\ kept \in [Sales -> Nat]
      /\ Taken \subseteq Sales /\ Vanished \subseteq Taken
  BY KeptRows DEF TypeOK, Taken, Vanished
<1>4. ASSUME NEW s \in Sales
      PROVE  /\ RowsOf(Taken \ Vanished)[s] \in Nat /\ RowsOf(Vanished)[s] \in Nat
             /\ RowsOf(Taken \ Vanished)[s] + RowsOf(Vanished)[s] <= drain.rows[s]
             /\ RowsOf(Taken \ Vanished)[s] > 0 => s \in Taken
  BY <1>3 DEF RowsOf
<1>5. \A s \in Sales : /\ open[s] \in Nat /\ blocked[s] \in Nat /\ drain.rows[s] \in Nat
                       /\ kept[s] \in Nat
                       /\ blocked[s] + drain.rows[s] <= open[s]
  BY <1>3 DEF TakenStands
<1>6. ASSUME NEW s \in Sales
      PROVE  /\ open'[s] \in Nat /\ done'[s] \in Nat /\ blocked'[s] \in Nat
             /\ blocked'[s] <= open'[s]
             /\ s \in Taken \/ open'[s] = open[s]
             /\ done'[s] > 0 => kept[s] > 0 \/ s \in Taken
  <2>1. PICK r, v : r = RowsOf(Taken \ Vanished)[s] /\ v = RowsOf(Vanished)[s]
    OBVIOUS
  <2>2. open'[s] = open[s] - r /\ blocked'[s] = blocked[s] + v /\ done'[s] = kept[s] + r
    BY <1>1, <1>2, <2>1
  <2>3. /\ r \in Nat /\ v \in Nat /\ r + v <= drain.rows[s]
        /\ r > 0 => s \in Taken
    BY <1>4, <2>1
  <2>4. /\ open[s] \in Nat /\ blocked[s] \in Nat /\ drain.rows[s] \in Nat /\ kept[s] \in Nat
        /\ blocked[s] + drain.rows[s] <= open[s]
    BY <1>5
  <2>5. /\ open'[s] \in Nat /\ done'[s] \in Nat /\ blocked'[s] \in Nat
        /\ blocked'[s] <= open'[s]
    BY <2>2, <2>3, <2>4
  <2>6. CASE r = 0
    BY <2>2, <2>4, <2>5, <2>6
  <2>7. CASE r > 0
    BY <2>3, <2>5, <2>7
  <2> QED
    BY <2>3, <2>6, <2>7
<1>7. drain' \in [rows : [Sales -> Nat], sold : SUBSET Sales]
  BY <1>2 DEF NoDrain, NoRows
<1>8. TypeOK'
  <2>1. /\ open' \in [Sales -> Nat] /\ done' \in [Sales -> Nat]
        /\ blocked' \in [Sales -> Nat]
    <3> HIDE DEF Taken, Vanished, RowsOf
    <3> QED
      BY <1>1, <1>2, <1>6
  <2> QED
    BY <1>2, <1>3, <1>7, <2>1 DEF TypeOK
<1>9. DoneIsSold'
  BY <1>2, <1>6, KeptRows DEF DoneIsSold
<1>10. TakenStands'
  <2>1. \A s \in Sales : drain'.rows[s] = 0
    BY <1>2 DEF NoDrain, NoRows
  <2> QED
    BY <1>6, <2>1 DEF TakenStands
<1>11. RecordedSales \subseteq RecordedSales'
  BY <1>2, <1>6 DEF RecordedSales, Recorded
<1> QED
  BY <1>8, <1>9, <1>10, <1>11

(* The other steps of the drain leave sales and the open rows alone.       *)
LEMMA BookkeepingEffect ==
    ASSUME TypeOK, DoneIsSold, TakenStands,
           StartDrain \/ Archive \/ \E s \in Sales : RecheckDue(s)
    PROVE  /\ TypeOK' /\ DoneIsSold' /\ TakenStands'
           /\ UNCHANGED <<height, cursor, known, sold, open, tick>>
<1>1. \A s \in Sales : /\ open[s] \in Nat /\ blocked[s] \in Nat /\ drain.rows[s] \in Nat
                       /\ blocked[s] + drain.rows[s] <= open[s]
  BY DEF TypeOK, TakenStands
<1>2. CASE StartDrain
  <2>1. PICK rows : rows = [s \in Sales |-> IF s \in Candidates THEN open[s] - blocked[s]
                                            ELSE 0]
    OBVIOUS
  <2>2. /\ drain' = [sold |-> sold, rows |-> rows]
        /\ UNCHANGED <<height, cursor, known, sold, open, done, blocked, tick, faults>>
    BY <1>2, <2>1 DEF StartDrain
  <2>3. ASSUME NEW s \in Sales
        PROVE  /\ rows[s] \in Nat /\ blocked[s] + rows[s] <= open[s]
               /\ rows[s] > 0 => s \in known \ Poison
    BY <1>1, <1>2, <2>1 DEF StartDrain, Candidates
  <2>4. rows \in [Sales -> Nat]
    <3> HIDE DEF Candidates
    <3> QED
      BY <2>1, <2>3
  <2>5. TypeOK'
    BY <2>2, <2>4 DEF TypeOK
  <2>6. DoneIsSold' /\ TakenStands'
    BY <2>2, <2>3 DEF DoneIsSold, TakenStands
  <2> QED
    BY <2>2, <2>5, <2>6
<1>3. CASE Archive
  <2>1. /\ done' \in Kept
        /\ UNCHANGED <<height, cursor, known, sold, open, blocked, drain, tick, faults>>
    BY <1>3 DEF Archive
  <2>2. done' \in [Sales -> Nat] /\ \A s \in Sales : done'[s] > 0 => done[s] > 0
    BY <2>1, KeptRows
  <2>3. TypeOK'
    BY <2>1, <2>2 DEF TypeOK
  <2>4. DoneIsSold' /\ TakenStands'
    BY <2>1, <2>2 DEF DoneIsSold, TakenStands
  <2> QED
    BY <2>1, <2>3, <2>4
<1>4. CASE \E s \in Sales : RecheckDue(s)
  <2>1. PICK s \in Sales : RecheckDue(s)
    BY <1>4
  <2>2. PICK n \in 0..(blocked[s] - 1) : blocked' = [blocked EXCEPT ![s] = n]
    BY <2>1 DEF RecheckDue
  <2>3. UNCHANGED <<height, cursor, known, sold, open, done, drain, tick, faults>>
    BY <1>4 DEF RecheckDue
  <2>4. n \in Nat /\ n <= blocked[s]
    BY <1>1, <2>2
  <2>5. blocked' \in [Sales -> Nat] /\ \A q \in Sales : blocked'[q] <= blocked[q]
    BY <1>1, <2>4, <2>2 DEF TypeOK
  <2>6. TypeOK'
    BY <2>3, <2>5 DEF TypeOK
  <2>7. TakenStands'
    <3>1. \A q \in Sales : blocked'[q] \in Nat
      BY <2>5
    <3>2. ASSUME NEW q \in Sales
          PROVE  blocked'[q] + drain.rows[q] <= open[q]
      BY <1>1, <2>5, <3>1
    <3> QED
      BY <2>3, <3>2 DEF TakenStands
  <2> QED
    BY <2>3, <2>6, <2>7 DEF DoneIsSold
<1> QED
  BY <1>2, <1>3, <1>4

LEMMA OutsideKeeps ==
    ASSUME IInv,
           \/ SealBlock \/ (\E s \in Sales : Hydrate(s) \/ RecheckDue(s))
           \/ StartDrain \/ Promote \/ Archive
    PROVE  IInv'
<1>1. CASE SealBlock
  <2>1. TypeOK'
    BY <1>1, BlockAssumption DEF IInv, TypeOK, SealBlock, Block, promotion
  <2>2. DoneIsSold' /\ TakenStands' /\ RecordedSales' = RecordedSales
    BY <1>1 DEF SealBlock, IInv, DoneIsSold, TakenStands, RecordedSales, Recorded, promotion
  <2> QED
    BY <1>1, <2>1, <2>2, OutsideStepKeeps DEF SealBlock
<1>2. CASE \E s \in Sales : Hydrate(s)
  <2>1. TypeOK'
    BY <1>2 DEF IInv, TypeOK, Hydrate, promotion
  <2>2. DoneIsSold' /\ TakenStands' /\ RecordedSales' = RecordedSales
    BY <1>2 DEF Hydrate, IInv, DoneIsSold, TakenStands, RecordedSales, Recorded, promotion
  <2> QED
    BY <1>2, <2>1, <2>2, OutsideStepKeeps DEF Hydrate
<1>3. CASE Promote
  BY <1>3, PromoteEffect, OutsideStepKeeps DEF IInv, Promote, Drain
<1>4. CASE StartDrain \/ Archive \/ \E s \in Sales : RecheckDue(s)
  <2>1. /\ TypeOK' /\ DoneIsSold' /\ TakenStands'
        /\ UNCHANGED <<height, cursor, known, sold, open, tick>>
    BY <1>4, BookkeepingEffect DEF IInv
  <2>2. RecordedSales' = RecordedSales
    BY <2>1 DEF RecordedSales, Recorded
  <2> QED
    BY <2>1, <2>2, OutsideStepKeeps
<1> QED
  BY <1>1, <1>2, <1>3, <1>4
-----------------------------------------------------------------------------
(* The theorems.                                                           *)

LEMMA InitIInv == Init => IInv
<1> SUFFICES ASSUME Init
             PROVE  IInv
  OBVIOUS
<1>1. Origin \in Block
  BY BlockAssumption DEF Block
<1>2. NoRows \in [Sales -> Nat] /\ NoDrain \in [rows : [Sales -> Nat], sold : SUBSET Sales]
  BY DEF NoRows, NoDrain
<1>3. TypeOK
  BY <1>1, <1>2, IdleSound, SizeAssumption DEF Init, TypeOK
<1>4. AllSound
  BY IdleSound DEF Init, AllSound
<1>5. NothingLost
  BY BlockAssumption DEF Init, NothingLost
<1>6. DoneIsSold /\ TakenStands
  BY DEF Init, DoneIsSold, TakenStands, NoRows, NoDrain
<1> QED
  BY <1>3, <1>4, <1>5, <1>6 DEF IInv

LEMMA NextIInv == IInv /\ [Next]_vars => IInv'
<1> SUFFICES ASSUME IInv, [Next]_vars
             PROVE  IInv'
  OBVIOUS
<1>1. CASE Next
  BY <1>1, TickKeeps, OutsideKeeps DEF Next
<1>2. CASE UNCHANGED vars
  <2>1. TypeOK' /\ DoneIsSold' /\ TakenStands' /\ RecordedSales' = RecordedSales
    BY <1>2 DEF vars, IInv, TypeOK, DoneIsSold, TakenStands, RecordedSales, Recorded
  <2> QED
    BY <1>2, <2>1, OutsideStepKeeps DEF vars
<1> QED
  BY <1>1, <1>2

(* The inductive invariant holds in every reachable state.                 *)
THEOREM Invariant == Spec => []IInv
  BY InitIInv, NextIInv, PTL DEF Spec

(* Cursor, tables and the locals of every tick keep their types; the       *)
(* cursor never leaves the blocks between its start and the chain's end.   *)
THEOREM TypeCorrect == Spec => []TypeOK
<1>1. IInv => TypeOK
  BY DEF IInv
<1> QED
  BY <1>1, Invariant, PTL

(* The cursor passes no sale that is neither in sales nor parked, for any  *)
(* number of overlapping ticks, failed chunks, lost answers and kills.     *)
THEOREM NothingIsLost == Spec => []NothingLost
<1>1. IInv => NothingLost
  BY DEF IInv
<1> QED
  BY <1>1, Invariant, PTL

(* No step, of a tick or of the drain, forgets a recorded sale.            *)
LEMMA RecordedStays ==
    ASSUME IInv, [Next]_vars
    PROVE  \A s \in Sales : Recorded(s) => Recorded(s)'
<1>1. ASSUME NEW t \in Ticks, TickStep(t) \/ Stop(t)
      PROVE  RecordedSales \subseteq RecordedSales'
  <2>1. TypeOK /\ tick[t] \in Locals
    BY DEF IInv, TypeOK
  <2>2. CASE UNCHANGED <<sold, open>>
    BY <2>2 DEF RecordedSales, Recorded
  <2>3. CASE InsertBatch(t) \/ InsertRow(t)
    <3>1. sold \subseteq sold' /\ UNCHANGED open
      BY <2>3 DEF InsertBatch, InsertRow
    <3> QED
      BY <3>1 DEF RecordedSales, Recorded
  <2>4. CASE ParkBatch(t) \/ ParkRow(t)
    <3>1. UNCHANGED sold /\ \E b : open' \in {open, WithRows(b)}
      BY <2>4 DEF ParkBatch, ParkRow
    <3>2. \A s \in Sales : open[s] > 0 => open'[s] > 0
      BY <2>1, <3>1 DEF TypeOK, WithRows
    <3> QED
      BY <3>1, <3>2 DEF RecordedSales, Recorded
  <2>5. \/ UNCHANGED <<sold, open>> \/ InsertBatch(t) \/ InsertRow(t)
        \/ ParkBatch(t) \/ ParkRow(t)
    BY <1>1 DEF TickStep, ReadCursor, ReadHeight, FetchChunk, EndScan, Resolve, EndRows,
                EndInsert, ReadParked, EndParkRows, EndPark, SaveCursor, Throw, Stop
  <2> QED
    BY <2>2, <2>3, <2>4, <2>5
<1>2. CASE Promote
  BY <1>2, PromoteEffect DEF IInv, RecordedSales
<1>3. CASE UNCHANGED <<sold, open>>
  BY <1>3 DEF RecordedSales, Recorded
<1>4. \/ \E t \in Ticks : TickStep(t) \/ Stop(t)
      \/ Promote \/ UNCHANGED <<sold, open>>
  BY DEF Next, SealBlock, Hydrate, RecheckDue, StartDrain, Archive, vars
<1>5. RecordedSales \subseteq RecordedSales'
  BY <1>1, <1>2, <1>3, <1>4 DEF RecordedSales
<1> QED
  BY <1>5 DEF RecordedSales

(* Whatever overlapping ticks and the drain do, a sale that is in sales or *)
(* waits in unmapped_sales goes on being in one of them.                   *)
THEOREM NothingIsForgotten == Spec => NeverForgotten
<1>1. IInv /\ [Next]_vars => [\A s \in Sales : Recorded(s) => Recorded(s)']_vars
  BY RecordedStays
<1> QED
  BY <1>1, Invariant, PTL DEF Spec, NeverForgotten
-----------------------------------------------------------------------------
(* The replica.  What a tick has in hand it has seen, and it scans no      *)
(* further than the height it read: both stay sealed.                      *)

SealedSales == {s \in Sales : BlockOf[s] <= height}

Seen(me) == InHand(me) \subseteq SealedSales /\ me.target <= height

RefInv == IInv /\ \A t \in Ticks : Seen(tick[t])

LEMMA SealedStay ==
    ASSUME TypeOK, TypeOK', height <= height'
    PROVE  SealedSales \subseteq SealedSales'
  BY BlockAssumption DEF TypeOK, SealedSales, Block

LEMMA InitRefInv == Init => RefInv
<1> SUFFICES ASSUME Init PROVE RefInv
  OBVIOUS
<1>1. Seen(Idle)
  BY BlockAssumption DEF Init, Seen, Idle, InHand
<1> QED
  BY <1>1, InitIInv DEF RefInv, Init

LEMMA OthersSeen ==
    ASSUME RefInv, TypeOK', height <= height', NEW t \in Ticks, tick'[t] = tick[t]
    PROVE  Seen(tick[t])'
<1>1. SealedSales \subseteq SealedSales'
  BY SealedStay DEF RefInv, IInv
<1>2. Seen(tick[t]) /\ tick[t].target \in Nat /\ height \in Nat /\ height' \in Nat
  BY BlockAssumption DEF RefInv, IInv, TypeOK, Locals, Block
<1> QED
  BY <1>1, <1>2 DEF Seen, InHand

(* A tick that goes on with no more in hand than before, to the target it  *)
(* had.                                                                    *)
LEMMA HandShrinks ==
    ASSUME RefInv, NEW t \in Ticks, NEW new, Becomes(t, new), UNCHANGED height,
           InHand(new) \subseteq InHand(tick[t]), new.target = tick[t].target
    PROVE  Seen(tick[t])'
<1>1. Seen(tick[t]) /\ tick'[t] = new /\ SealedSales' = SealedSales
  BY DEF RefInv, IInv, TypeOK, Becomes, SealedSales
<1> QED
  BY <1>1 DEF Seen, InHand

LEMMA IdleSeen ==
    ASSUME RefInv, NEW t \in Ticks, UNCHANGED height,
           Becomes(t, Idle) \/ Becomes(t, [Idle EXCEPT !.pc = "height", !.from = cursor])
    PROVE  Seen(tick[t])'
<1>1. height \in Nat /\ Origin \in Nat /\ Origin <= height
  BY BlockAssumption DEF RefInv, IInv, TypeOK, Block
<1>2. PICK q : /\ q \in {Idle, [Idle EXCEPT !.pc = "height", !.from = cursor]}
               /\ Becomes(t, q)
  OBVIOUS
<1>3. InHand(q) = {} /\ q.target = Origin
  <2>1. CASE q = Idle
    BY <2>1 DEF Idle, InHand
  <2>2. CASE q = [Idle EXCEPT !.pc = "height", !.from = cursor]
    BY <2>2 DEF Idle, InHand
  <2> QED
    BY <1>2, <2>1, <2>2
<1>4. tick'[t] = q
  BY <1>2 DEF Becomes, RefInv, IInv, TypeOK
<1> QED
  BY <1>1, <1>3, <1>4 DEF Seen, InHand

LEMMA ScanSeen ==
    ASSUME RefInv, NEW t \in Ticks, ReadHeight(t) \/ FetchChunk(t)
    PROVE  Seen(tick[t])'
<1>1. PICK me : me = tick[t]
  OBVIOUS
<1>2. me \in Locals /\ Seen(me) /\ height \in Block
  BY <1>1 DEF RefInv, IInv, TypeOK
<1>3. CASE ReadHeight(t)
  <2>1. CASE Becomes(t, Idle)
    BY <1>3, <2>1, IdleSeen DEF ReadHeight
  <2>2. CASE Becomes(t, [me EXCEPT !.pc = "scan", !.start = me.from + 1,
                                   !.target = TargetHeight(me)])
    <3>1. TargetHeight(me) <= height
      BY <1>2, BlockAssumption, SizeAssumption DEF TargetHeight, Least, Locals, Block
    <3>2. PICK q : q = [me EXCEPT !.pc = "scan", !.start = me.from + 1,
                                  !.target = TargetHeight(me)]
      OBVIOUS
    <3>3. InHand(q) = InHand(me) /\ q.target = TargetHeight(me)
      BY <1>2, <3>2 DEF InHand, Locals
    <3>4. tick'[t] = q
      BY <2>2, <3>2 DEF Becomes, RefInv, IInv, TypeOK
    <3> QED
      BY <1>2, <1>3, <3>1, <3>3, <3>4 DEF Seen, InHand, ReadHeight, SealedSales
  <2> QED
    BY <1>1, <1>3, <2>1, <2>2 DEF ReadHeight
<1>4. CASE FetchChunk(t)
  <2>1. PICK failed, fetched, q :
            /\ fetched \subseteq {s \in Sales : BlockOf[s] \in me.start..ChunkEnd(me)}
            /\ q = [me EXCEPT !.start = me.start + ChunkSize, !.failed = failed,
                              !.seen = me.seen \union fetched]
            /\ Becomes(t, q)
    <3>1. PICK lost \in SUBSET Sources :
            Becomes(t, [me EXCEPT
              !.start = me.start + ChunkSize,
              !.failed = IF lost # {} /\ me.failed = None THEN me.start ELSE me.failed,
              !.seen = me.seen \union {s \in Sales : /\ BlockOf[s] \in me.start..ChunkEnd(me)
                                                     /\ SourceOf[s] \notin lost}])
      BY <1>1, <1>4 DEF FetchChunk
    <3>2. PICK fetched : fetched = {s \in Sales : /\ BlockOf[s] \in me.start..ChunkEnd(me)
                                                 /\ SourceOf[s] \notin lost}
      OBVIOUS
    <3>3. PICK failed : failed = IF lost # {} /\ me.failed = None THEN me.start ELSE me.failed
      OBVIOUS
    <3>4. PICK q : q = [me EXCEPT !.start = me.start + ChunkSize, !.failed = failed,
                                  !.seen = me.seen \union fetched]
      OBVIOUS
    <3>5. fetched \subseteq {s \in Sales : BlockOf[s] \in me.start..ChunkEnd(me)}
      BY <3>2
    <3>6. Becomes(t, q)
      BY <3>1, <3>2, <3>3, <3>4
    <3> QED
      BY <3>4, <3>5, <3>6, Zenon
  <2>2. InHand(q) = InHand(me) \union fetched /\ q.target = me.target
    BY <1>2, <2>1 DEF InHand, Locals
  <2>3. \A s \in fetched : s \in Sales /\ BlockOf[s] <= height
    BY <1>2, <2>1, BlockAssumption, SizeAssumption DEF Seen, ChunkEnd, Least, Locals, Block
  <2>4. tick'[t] = q
    BY <2>1 DEF Becomes, RefInv, IInv, TypeOK
  <2> QED
    BY <1>2, <1>4, <2>2, <2>3, <2>4 DEF Seen, InHand, FetchChunk, SealedSales
<1> QED
  BY <1>3, <1>4

(* The rest of a tick drops what it has in hand, or passes it on.          *)
LEMMA RestSeen ==
    ASSUME RefInv, NEW t \in Ticks,
           \/ EndScan(t) \/ Resolve(t) \/ InsertBatch(t) \/ InsertRow(t) \/ EndRows(t)
           \/ EndInsert(t) \/ ReadParked(t) \/ ParkBatch(t) \/ ParkRow(t)
           \/ EndParkRows(t) \/ EndPark(t)
    PROVE  Seen(tick[t])'
<1>1. PICK me : me = tick[t]
  OBVIOUS
<1>2. me \in Locals
  BY <1>1 DEF RefInv, IInv, TypeOK
<1>3. PICK new : /\ Becomes(t, new)
                 /\ \/ \E pc : new = [me EXCEPT !.pc = pc]
                    \/ \E found \in SUBSET me.seen :
                          new = [me EXCEPT !.pc = "insert", !.seen = {},
                                           !.todo = found, !.park = me.seen \ found]
                    \/ \E b \in SUBSET me.todo :
                          \/ new = [me EXCEPT !.todo = me.todo \ b]
                          \/ new = [me EXCEPT !.pc = "rows", !.todo = me.todo \ b, !.batch = b]
                    \/ \E s : \/ new = [me EXCEPT !.batch = me.batch \ {s}]
                              \/ new = [me EXCEPT !.batch = me.batch \ {s}, !.hold = TRUE]
                    \/ new = [me EXCEPT !.pc = "park", !.park = {s \in me.park : ~Parked(s)}]
                    \/ \E b \in SUBSET me.park :
                          \/ new = [me EXCEPT !.park = me.park \ b]
                          \/ new = [me EXCEPT !.pc = "parkRows", !.park = me.park \ b, !.batch = b]
  <2>1. \A n, S : kSubset(n, S) \subseteq SUBSET S
    BY DEF kSubset
  <2>2. CASE EndScan(t)
    BY <1>1, <2>2 DEF EndScan
  <2>3. CASE Resolve(t)
    BY <1>1, <2>3 DEF Resolve
  <2>4. CASE InsertBatch(t)
    <3>1. PICK b \in Batches(me.todo) :
             \/ Becomes(t, [me EXCEPT !.todo = me.todo \ b])
             \/ Becomes(t, [me EXCEPT !.pc = "rows", !.todo = me.todo \ b, !.batch = b])
      BY <1>1, <2>4, Zenon DEF InsertBatch
    <3>2. b \in SUBSET me.todo
      BY <2>1 DEF Batches
    <3> QED
      BY <3>1, <3>2, Zenon
  <2>5. CASE InsertRow(t)
    BY <1>1, <2>5 DEF InsertRow, FailedRow
  <2>6. CASE EndRows(t) \/ EndInsert(t) \/ EndParkRows(t) \/ EndPark(t)
    BY <1>1, <2>6 DEF EndRows, EndInsert, EndParkRows, EndPark
  <2>7. CASE ReadParked(t)
    BY <1>1, <2>7 DEF ReadParked
  <2>8. CASE ParkBatch(t)
    <3>1. PICK b \in Batches(me.park) :
             \/ Becomes(t, [me EXCEPT !.park = me.park \ b])
             \/ Becomes(t, [me EXCEPT !.pc = "parkRows", !.park = me.park \ b, !.batch = b])
      BY <1>1, <2>8, Zenon DEF ParkBatch
    <3>2. b \in SUBSET me.park
      BY <2>1 DEF Batches
    <3> QED
      BY <3>1, <3>2, Zenon
  <2>9. CASE ParkRow(t)
    BY <1>1, <2>9 DEF ParkRow, FailedRow
  <2> QED
    BY <2>2, <2>3, <2>4, <2>5, <2>6, <2>7, <2>8, <2>9
<1>4. InHand(new) \subseteq InHand(me) /\ new.target = me.target
  <2>1. CASE \E pc : new = [me EXCEPT !.pc = pc]
    BY <1>2, <2>1 DEF InHand, Locals
  <2>2. CASE \E found \in SUBSET me.seen :
                new = [me EXCEPT !.pc = "insert", !.seen = {},
                                 !.todo = found, !.park = me.seen \ found]
    BY <1>2, <2>2 DEF InHand, Locals
  <2>3. CASE \E b \in SUBSET me.todo :
                \/ new = [me EXCEPT !.todo = me.todo \ b]
                \/ new = [me EXCEPT !.pc = "rows", !.todo = me.todo \ b, !.batch = b]
    <3>1. PICK b \in SUBSET me.todo :
             \/ new = [me EXCEPT !.todo = me.todo \ b]
             \/ new = [me EXCEPT !.pc = "rows", !.todo = me.todo \ b, !.batch = b]
      BY <2>3
    <3>2. CASE new = [me EXCEPT !.todo = me.todo \ b]
      BY <1>2, <3>2 DEF InHand, Locals
    <3>3. CASE new = [me EXCEPT !.pc = "rows", !.todo = me.todo \ b, !.batch = b]
      BY <1>2, <3>3 DEF InHand, Locals
    <3> QED
      BY <3>1, <3>2, <3>3
  <2>4. CASE \E s : \/ new = [me EXCEPT !.batch = me.batch \ {s}]
                    \/ new = [me EXCEPT !.batch = me.batch \ {s}, !.hold = TRUE]
    BY <1>2, <2>4 DEF InHand, Locals
  <2>5. CASE new = [me EXCEPT !.pc = "park", !.park = {s \in me.park : ~Parked(s)}]
    BY <1>2, <2>5 DEF InHand, Locals
  <2>6. CASE \E b \in SUBSET me.park :
                \/ new = [me EXCEPT !.park = me.park \ b]
                \/ new = [me EXCEPT !.pc = "parkRows", !.park = me.park \ b, !.batch = b]
    <3>1. PICK b \in SUBSET me.park :
             \/ new = [me EXCEPT !.park = me.park \ b]
             \/ new = [me EXCEPT !.pc = "parkRows", !.park = me.park \ b, !.batch = b]
      BY <2>6
    <3>2. CASE new = [me EXCEPT !.park = me.park \ b]
      BY <1>2, <3>2 DEF InHand, Locals
    <3>3. CASE new = [me EXCEPT !.pc = "parkRows", !.park = me.park \ b, !.batch = b]
      BY <1>2, <3>3 DEF InHand, Locals
    <3> QED
      BY <3>1, <3>2, <3>3
  <2> QED
    BY <1>3, <2>1, <2>2, <2>3, <2>4, <2>5, <2>6
<1>5. UNCHANGED height
  BY DEF EndScan, Resolve, InsertBatch, InsertRow, EndRows, EndInsert, ReadParked,
         ParkBatch, ParkRow, EndParkRows, EndPark
<1> QED
  BY <1>1, <1>3, <1>4, <1>5, HandShrinks

LEMMA NextRefInv == RefInv /\ [Next]_vars => RefInv'
<1> SUFFICES ASSUME RefInv, [Next]_vars PROVE RefInv'
  OBVIOUS
<1>1. IInv'
  BY NextIInv DEF RefInv
<1>2. ASSUME NEW t \in Ticks, TickStep(t) \/ Stop(t)
      PROVE  UNCHANGED height /\ (\A u \in Ticks \ {t} : tick'[u] = tick[u])
  <2>1. \E new : Becomes(t, new)
    BY <1>2 DEF TickStep, Stop, ReadCursor, ReadHeight, FetchChunk, EndScan, Resolve,
                InsertBatch, InsertRow, EndRows, EndInsert, ReadParked, ParkBatch, ParkRow,
                EndParkRows, EndPark, SaveCursor, Throw
  <2>2. UNCHANGED height
    BY <1>2 DEF TickStep, Stop, ReadCursor, ReadHeight, FetchChunk, EndScan, Resolve,
                InsertBatch, InsertRow, EndRows, EndInsert, ReadParked, ParkBatch, ParkRow,
                EndParkRows, EndPark, SaveCursor, Throw
  <2> QED
    BY <2>1, <2>2 DEF Becomes, RefInv, IInv, TypeOK
<1>3. ASSUME NEW t \in Ticks, TickStep(t) \/ Stop(t)
      PROVE  Seen(tick[t])'
  <2>1. CASE ReadCursor(t) \/ SaveCursor(t) \/ Throw(t) \/ Stop(t)
    BY <2>1, IdleSeen DEF ReadCursor, SaveCursor, Throw, Stop
  <2> QED
    BY <1>3, <2>1, ScanSeen, RestSeen DEF TickStep
<1>4. height \in Nat /\ height' \in Nat
  BY <1>1, BlockAssumption DEF RefInv, IInv, TypeOK, Block
<1>5. CASE \E t \in Ticks : TickStep(t) \/ Stop(t)
  <2>1. PICK t \in Ticks : TickStep(t) \/ Stop(t)
    BY <1>5
  <2>2. ASSUME NEW u \in Ticks PROVE Seen(tick[u])'
    BY <1>1, <1>2, <1>3, <1>4, <2>1, OthersSeen DEF IInv
  <2> QED
    BY <1>1, <2>2 DEF RefInv
<1>6. CASE ~\E t \in Ticks : TickStep(t) \/ Stop(t)
  <2>1. tick' = tick /\ height <= height'
    BY <1>4, <1>6 DEF Next, SealBlock, Hydrate, RecheckDue, StartDrain, Archive, Promote,
                      Drain, vars
  <2> QED
    BY <1>1, <2>1, OthersSeen DEF RefInv, IInv
<1> QED
  BY <1>5, <1>6
-----------------------------------------------------------------------------
(* The mapping, step by step.                                              *)

LEMMA RefInvariant == Spec => []RefInv
  BY InitRefInv, NextRefInv, PTL DEF Spec

LEMMA InitMaps == Init => Abstract!Init
  BY BlockAssumption DEF Init, Abstract!Init, Waiting, NoRows

LEMMA SealedMaps == Abstract!Sealed = SealedSales
  BY DEF Abstract!Sealed, SealedSales

(* What does not touch the tables, the catalogue and the chain is hidden.  *)
LEMMA HiddenMaps ==
    ASSUME UNCHANGED <<height, cursor, known, sold, open>>
    PROVE  UNCHANGED Abstract!vars
  BY DEF Abstract!vars, Waiting

LEMMA CopyMaps ==
    ASSUME UNCHANGED <<height, cursor, known, open>>,
           NEW b, b \subseteq SealedSales \ Poison, sold' \in {sold, sold \union b}
    PROVE  Abstract!Copy
<1>1. UNCHANGED Waiting
  BY DEF Waiting
<1> QED
  BY <1>1, SealedMaps DEF Abstract!Copy

LEMMA ParkMaps ==
    ASSUME TypeOK, UNCHANGED <<height, cursor, known, sold>>,
           NEW b, b \subseteq SealedSales, open' \in {open, WithRows(b)}
    PROVE  Abstract!Park
<1>1. Waiting \subseteq Waiting' /\ Waiting' \ Waiting \subseteq SealedSales
  BY DEF Waiting, WithRows, TypeOK
<1> QED
  BY <1>1, SealedMaps DEF Abstract!Park

LEMMA InsertMaps ==
    ASSUME RefInv, NEW t \in Ticks, InsertBatch(t) \/ InsertRow(t)
    PROVE  Abstract!Copy
<1>1. UNCHANGED <<height, cursor, known, open>>
  BY DEF InsertBatch, InsertRow
<1>2. tick[t].todo \subseteq SealedSales /\ tick[t].batch \subseteq SealedSales
  BY DEF RefInv, Seen, InHand
<1>3. CASE InsertBatch(t)
  <2>1. PICK b \in Batches(tick[t].todo) :
           sold' = sold \/ (Accepts(b) /\ sold' = sold \union b)
    BY <1>3, Zenon DEF InsertBatch
  <2>2. b \subseteq SealedSales
    BY <1>2 DEF Batches, kSubset
  <2>3. CASE sold' = sold
    BY <1>1, <2>3, CopyMaps
  <2>4. CASE Accepts(b) /\ sold' = sold \union b
    BY <1>1, <2>2, <2>4, CopyMaps DEF Accepts
  <2> QED
    BY <2>1, <2>3, <2>4
<1>4. CASE InsertRow(t)
  <2>1. PICK s \in tick[t].batch :
           sold' = sold \/ (s \notin Poison /\ sold' = sold \union {s})
    BY <1>4 DEF InsertRow
  <2>2. CASE sold' = sold
    BY <1>1, <2>2, CopyMaps
  <2>3. CASE s \notin Poison /\ sold' = sold \union {s}
    BY <1>1, <1>2, <2>3, CopyMaps
  <2> QED
    BY <2>1, <2>2, <2>3
<1> QED
  BY <1>3, <1>4

LEMMA ParkingMaps ==
    ASSUME RefInv, NEW t \in Ticks, ParkBatch(t) \/ ParkRow(t)
    PROVE  Abstract!Park
<1>1. UNCHANGED <<height, cursor, known, sold>>
  BY DEF ParkBatch, ParkRow
<1>2. tick[t].park \subseteq SealedSales /\ tick[t].batch \subseteq SealedSales
  BY DEF RefInv, Seen, InHand
<1>3. PICK b : b \subseteq SealedSales /\ open' \in {open, WithRows(b)}
  <2>1. CASE ParkBatch(t)
    <3>1. PICK b \in Batches(tick[t].park) : open' \in {open, WithRows(b)}
      BY <2>1, Zenon DEF ParkBatch
    <3>2. b \subseteq SealedSales
      BY <1>2 DEF Batches, kSubset
    <3> QED
      BY <3>1, <3>2
  <2>2. CASE ParkRow(t)
    BY <1>2, <2>2 DEF ParkRow
  <2> QED
    BY <2>1, <2>2
<1> QED
  BY <1>1, <1>3, ParkMaps DEF RefInv, IInv

LEMMA SaveMaps ==
    ASSUME RefInv, RefInv', NEW t \in Ticks, SaveCursor(t)
    PROVE  Abstract!SetMark
<1>1. cursor' = CursorTarget(tick[t]) /\ UNCHANGED <<height, known, sold, open>>
  BY DEF SaveCursor
<1>2. cursor' \in Origin..height
  <2>1. /\ tick[t] \in Locals /\ tick[t].target <= height
        /\ Ranges(tick[t]) /\ tick[t].pc = "save"
    BY DEF RefInv, Seen, IInv, TypeOK, AllSound, Sound, SaveCursor, At
  <2>2. CursorTarget(tick[t]) \in Block /\ CursorTarget(tick[t]) <= tick[t].target
    BY <2>1, TargetInRange
  <2>3. tick[t].target \in Block /\ height \in Block
    BY <2>1 DEF RefInv, IInv, TypeOK, Locals
  <2> QED
    BY <1>1, <2>1, <2>2, <2>3, BlockAssumption DEF Block
<1>3. \A s \in Sales \ Poison : BlockOf[s] <= cursor' => s \in sold \union Waiting
  BY <1>1 DEF RefInv, IInv, NothingLost, Recorded, Waiting
<1>4. UNCHANGED Waiting
  BY <1>1 DEF Waiting
<1> QED
  BY <1>1, <1>2, <1>3, <1>4 DEF Abstract!SetMark

LEMMA DrainMaps ==
    ASSUME IInv, Promote
    PROVE  Abstract!Admit
<1>1. /\ sold' = sold \union Taken
      /\ open' = [s \in Sales |-> open[s] - RowsOf(Taken \ Vanished)[s]]
      /\ UNCHANGED <<height, cursor, known>>
  BY DEF Promote, Drain
<1>2. \A s \in Sales : /\ open[s] \in Nat /\ blocked[s] \in Nat /\ drain.rows[s] \in Nat
                       /\ blocked[s] + drain.rows[s] <= open[s]
                       /\ drain.rows[s] > 0 => s \in known \ Poison
  BY DEF IInv, TypeOK, TakenStands
<1>3. Taken \subseteq (Waiting \intersect known) \ Poison
  BY <1>2 DEF Taken, Waiting
<1>4. \A s \in Sales : /\ open'[s] <= open[s]
                       /\ s \notin Taken => open'[s] = open[s]
  BY <1>1, <1>2 DEF RowsOf
<1>5. Waiting' \subseteq Waiting /\ Waiting \ Waiting' \subseteq Taken
  <2>1. \A s \in Sales : open'[s] > 0 => open[s] > 0
    <3>1. \A s \in Sales : open'[s] \in Int
      BY <1>1, <1>2 DEF RowsOf
    <3> QED
      BY <1>2, <1>4, <3>1
  <2> QED
    BY <1>4, <2>1 DEF Waiting
<1> QED
  BY <1>1, <1>3, <1>5 DEF Abstract!Admit

LEMMA StepMaps ==
    ASSUME RefInv, RefInv', [Next]_vars
    PROVE  [Abstract!Next]_(Abstract!vars)
<1>1. ASSUME NEW t \in Ticks, TickStep(t) \/ Stop(t)
      PROVE  [Abstract!Next]_(Abstract!vars)
  <2>1. CASE InsertBatch(t) \/ InsertRow(t)
    BY <2>1, InsertMaps DEF Abstract!Next
  <2>2. CASE ParkBatch(t) \/ ParkRow(t)
    BY <2>2, ParkingMaps DEF Abstract!Next
  <2>3. CASE SaveCursor(t)
    BY <2>3, SaveMaps DEF Abstract!Next
  <2>4. \/ InsertBatch(t) \/ InsertRow(t) \/ ParkBatch(t) \/ ParkRow(t) \/ SaveCursor(t)
        \/ UNCHANGED <<height, cursor, known, sold, open>>
    BY <1>1 DEF TickStep, ReadCursor, ReadHeight, FetchChunk, EndScan, Resolve, EndRows,
                EndInsert, ReadParked, EndParkRows, EndPark, Throw, Stop
  <2> QED
    BY <2>1, <2>2, <2>3, <2>4, HiddenMaps
<1>2. CASE SealBlock
  <2>1. UNCHANGED Waiting
    BY <1>2 DEF SealBlock, Waiting
  <2> QED
    BY <1>2, <2>1 DEF SealBlock, Abstract!Seal, Abstract!Next
<1>3. CASE \E s \in Sales : Hydrate(s)
  <2>1. UNCHANGED Waiting /\ known' \subseteq Sales
    BY <1>3 DEF Hydrate, Waiting, RefInv, IInv, TypeOK
  <2> QED
    BY <1>3, <2>1 DEF Hydrate, Abstract!Complete, Abstract!Next
<1>4. CASE Promote
  BY <1>4, DrainMaps DEF RefInv, Abstract!Next
<1>5. CASE UNCHANGED vars \/ StartDrain \/ Archive \/ \E s \in Sales : RecheckDue(s)
  BY <1>5, HiddenMaps DEF vars, StartDrain, Archive, RecheckDue
<1> QED
  BY <1>1, <1>2, <1>3, <1>4, <1>5 DEF Next

(* However ticks overlap, fail or are killed, every write they make is one *)
(* the replica makes, and so is the drain's; the tables never show a sale  *)
(* the chain does not have, and the cursor is put only where a replica may *)
(* put its mark.                                                           *)
THEOREM IndexerFollowsReplica == Spec => FollowsReplica
<1>1. RefInv /\ RefInv' /\ [Next]_vars => [Abstract!Next]_(Abstract!vars)
  BY StepMaps
<1> QED
  BY <1>1, RefInvariant, PTL DEF Spec, FollowsReplica

(* Behaviours of the indexer are behaviours of the replica.                *)
THEOREM IndexerImplementsReplica == Spec => ImplementsReplica
  BY InitMaps, IndexerFollowsReplica, PTL DEF Spec, ImplementsReplica
=============================================================================
