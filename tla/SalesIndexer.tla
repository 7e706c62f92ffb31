---------------------------- MODULE SalesIndexer ----------------------------
(***************************************************************************)
(* The Top Shot sales indexer (app/api/sales-indexer/route.ts) and the     *)
(* hourly drain of the sales it parks (promote_unmapped_sales).            *)
(*                                                                         *)
(* A tick reads the block cursor and the sealed height, scans the blocks   *)
(* between them chunk by chunk and source by source, inserts the sales it  *)
(* can resolve to an edition, parks the others in unmapped_sales, and only *)
(* then moves the cursor.  Nothing ever revisits a block below the cursor. *)
(* Two schedulers fire the route, so ticks overlap; the platform may kill  *)
(* a tick between any two calls; a call may fail, or commit and lose its   *)
(* answer.  At most MaxFaults of these happen in a behaviour.              *)
(*                                                                         *)
(* The drain is one statement: it works on a snapshot while ticks go on    *)
(* inserting and parking, and commits at once.                             *)
(*                                                                         *)
(* Left out: serials, buyers and editions (a sale is resolved or it is     *)
(* not), prices but for their being 0, the run log, and the first run of   *)
(* all (a cursor of 0 starts 1000 blocks back): the model starts from an   *)
(* established cursor.                                                     *)
(***************************************************************************)
EXTENDS Integers, FiniteSets, FiniteSetsExt

CONSTANTS
    Sales,          \* the sale events of the chain
    BlockOf,        \* sale -> the block that holds its event
    Sources,        \* event sources: StorefrontV2, TopShotMarketV3
    SourceOf,       \* sale -> its event source
    Poison,         \* sales that public.sales refuses for good (CHECK, type, FK)
    Free,           \* sales whose event has no price: price_usd is 0
    Ticks,          \* invocations of the route that may overlap
    Origin,         \* the cursor and sealed height to begin with
    MaxHeight,      \* bound: last block of the instance
    ChunkSize,      \* CHUNK_SIZE: blocks per event query
    MaxBlocks,      \* MAX_BLOCKS_PER_RUN
    BatchSize,      \* rows per batch insert
    MaxFaults,      \* bound: failed calls, lost answers and kills
    None            \* "no chunk failed"

ASSUME BlockAssumption ==
    /\ Origin \in Nat \ {0}
    /\ MaxHeight \in Nat
    /\ Origin <= MaxHeight
    /\ BlockOf \in [Sales -> (Origin + 1)..MaxHeight]
ASSUME SourceAssumption ==
    /\ SourceOf \in [Sales -> Sources]
    /\ IsFiniteSet(Sources)
    /\ Poison \subseteq Sales
    /\ Free \subseteq Sales
ASSUME SizeAssumption ==
    /\ ChunkSize \in Nat \ {0}
    /\ MaxBlocks \in Nat \ {0}
    /\ BatchSize \in Nat \ {0}
    /\ MaxFaults \in Nat
ASSUME NoneAssumption == None \notin Nat

VARIABLES
    height,     \* latest sealed block
    cursor,     \* event_cursor.last_processed_block
    known,      \* sales whose edition the catalogue can resolve by now
    sold,       \* public.sales, by its unique key
    open,       \* sale -> its rows of unmapped_sales with resolved_at NULL
    done,       \* sale -> its rows of unmapped_sales with resolved_at set
    blocked,    \* sale -> the open ones marked not to be tried for 30 days
    drain,      \* the drain's snapshot, while its statement runs
    tick,       \* tick -> the locals of one invocation
    faults      \* how many faults have happened

vars == <<height, cursor, known, sold, open, done, blocked, drain, tick, faults>>
promotion == <<done, blocked, drain>>

Idle == [pc |-> "idle", from |-> Origin, target |-> Origin, start |-> Origin,
         failed |-> None, seen |-> {}, todo |-> {}, batch |-> {}, park |-> {},
         hold |-> FALSE]

NoRows == [s \in Sales |-> 0]
NoDrain == [rows |-> NoRows, sold |-> {}]

Block == Origin..MaxHeight
Stages == {"idle", "height", "scan", "resolve", "insert", "rows",
           "dedup", "park", "parkRows", "save"}
Locals == [pc : Stages, from : Block, target : Block,
           start : Nat, failed : Nat \union {None},
           seen : SUBSET Sales, todo : SUBSET Sales, batch : SUBSET Sales,
           park : SUBSET Sales, hold : BOOLEAN]

Least(a, b) == IF a <= b THEN a ELSE b

Parked(s) == open[s] + done[s] > 0

(* A fault costs one of the MaxFaults. *)
Faults(n) == faults + n <= MaxFaults /\ faults' = faults + n

At(t, stage) == tick[t].pc = stage
Becomes(t, locals) == tick' = [tick EXCEPT ![t] = locals]

Init ==
    /\ height = Origin
    /\ cursor = Origin
    /\ known = {}
    /\ sold = {}
    /\ open = NoRows
    /\ done = NoRows
    /\ blocked = NoRows
    /\ drain = NoDrain
    /\ tick = [t \in Ticks |-> Idle]
    /\ faults = 0
-----------------------------------------------------------------------------
(* One tick: reading the cursor, scanning and resolving.                   *)

ReadCursor(t) ==
    /\ At(t, "idle")
    /\ Becomes(t, [Idle EXCEPT !.pc = "height", !.from = cursor])
    /\ UNCHANGED <<height, cursor, known, sold, open, promotion, faults>>

Uncapped(me) == me.from + MaxBlocks

TargetHeight(me) == Least(me.from + MaxBlocks, height)

(* An up-to-date tick returns; another scans at most MaxBlocks.            *)
ReadHeight(t) ==
    LET me == tick[t] IN
    /\ At(t, "height")
    /\ Becomes(t, IF me.from >= height THEN Idle
                  ELSE [me EXCEPT !.pc = "scan", !.start = me.from + 1,
                                  !.target = TargetHeight(me)])
    /\ UNCHANGED <<height, cursor, known, sold, open, promotion, faults>>

ChunkEnd(me) == Least(me.start + ChunkSize - 1, me.target)

(* One chunk, a query per source.  A query that fails is caught: the scan  *)
(* goes on and remembers the first chunk that lacks a source.              *)
FetchChunk(t) ==
    LET me == tick[t] IN
    /\ At(t, "scan")
    /\ me.start <= me.target
    /\ \E lost \in SUBSET Sources :
          /\ Faults(Cardinality(lost))
          /\ Becomes(t, [me EXCEPT
                !.start = me.start + ChunkSize,
                !.failed = IF lost # {} /\ me.failed = None THEN me.start
                           ELSE me.failed,
                !.seen = me.seen \union
                            {s \in Sales : /\ BlockOf[s] \in me.start..ChunkEnd(me)
                                           /\ SourceOf[s] \notin lost}])
    /\ UNCHANGED <<height, cursor, known, sold, open, promotion>>

(* A tick that found nothing has only its cursor left to write.            *)
EndScan(t) ==
    LET me == tick[t] IN
    /\ At(t, "scan")
    /\ me.start > me.target
    /\ Becomes(t, [me EXCEPT !.pc = IF me.seen = {} THEN "save" ELSE "resolve"])
    /\ UNCHANGED <<height, cursor, known, sold, open, promotion, faults>>

(* The cache, the moments table and the GraphQL proxy resolve some of the  *)
(* sales; which ones is not the promoter's catalogue, and is left open.    *)
Resolve(t) ==
    LET me == tick[t] IN
    /\ At(t, "resolve")
    /\ \E found \in SUBSET me.seen :
          Becomes(t, [me EXCEPT !.pc = "insert", !.seen = {},
                                !.todo = found, !.park = me.seen \ found])
    /\ UNCHANGED <<height, cursor, known, sold, open, promotion, faults>>
-----------------------------------------------------------------------------
(* One tick: inserting the resolved sales.                                 *)

Batches(set) == kSubset(Least(BatchSize, Cardinality(set)), set)

Accepts(b) == b \intersect (sold \union Poison) = {}

(* A batch insert is all or nothing: it lands whole, or one row's error or *)
(* a fault sends the batch to be retried row by row.  A fault may be an    *)
(* answer lost after the commit.                                           *)
InsertBatch(t) ==
    LET me == tick[t] IN
    /\ At(t, "insert")
    /\ me.todo # {}
    /\ \E b \in Batches(me.todo) :
          \/ /\ Accepts(b)
             /\ sold' = sold \union b
             /\ Becomes(t, [me EXCEPT !.todo = me.todo \ b])
             /\ UNCHANGED faults
          \/ /\ \/ ~Accepts(b) /\ sold' = sold /\ UNCHANGED faults
                \/ Faults(1) /\ sold' = sold
                \/ Faults(1) /\ Accepts(b) /\ sold' = sold \union b
             /\ Becomes(t, [me EXCEPT !.pc = "rows", !.todo = me.todo \ b,
                                      !.batch = b])
    /\ UNCHANGED <<height, cursor, known, open, promotion>>

CountedDuplicate(me, s) == [me EXCEPT !.batch = me.batch \ {s}]

(* A failure that a retry can fix makes the tick throw before Step 7.      *)
FailedRow(me, s) == [me EXCEPT !.batch = me.batch \ {s}, !.hold = TRUE]

(* A row lands, is a duplicate (23505), is refused for good, or fails in a *)
(* way a retry can fix: only the last one makes the tick hold its cursor.  *)
InsertRow(t) ==
    LET me == tick[t] IN
    /\ At(t, "rows")
    /\ \E s \in me.batch :
          \/ /\ sold' = IF s \in Poison THEN sold ELSE sold \union {s}
             /\ Becomes(t, [me EXCEPT !.batch = me.batch \ {s}])
             /\ UNCHANGED faults
          \/ /\ Faults(1)
             /\ sold' \in {sold, IF s \in Poison THEN sold ELSE sold \union {s}}
             /\ Becomes(t, FailedRow(me, s))
    /\ UNCHANGED <<height, cursor, known, open, promotion>>

EndRows(t) ==
    LET me == tick[t] IN
    /\ At(t, "rows")
    /\ me.batch = {}
    /\ Becomes(t, [me EXCEPT !.pc = "insert"])
    /\ UNCHANGED <<height, cursor, known, sold, open, promotion, faults>>

EndInsert(t) ==
    LET me == tick[t] IN
    /\ At(t, "insert")
    /\ me.todo = {}
    /\ Becomes(t, [me EXCEPT !.pc = IF me.park = {} THEN "save" ELSE "dedup"])
    /\ UNCHANGED <<height, cursor, known, sold, open, promotion, faults>>
-----------------------------------------------------------------------------
(* One tick: parking the others, then the cursor.                          *)

(* Rows already parked, resolved or not, are not parked again.             *)
ReadParked(t) ==
    LET me == tick[t] IN
    /\ At(t, "dedup")
    /\ Becomes(t, [me EXCEPT !.pc = "park", !.park = {s \in me.park : ~Parked(s)}])
    /\ UNCHANGED <<height, cursor, known, sold, open, promotion, faults>>

WithRows(b) == [s \in Sales |-> open[s] + IF s \in b THEN 1 ELSE 0]

(* unmapped_sales has no unique key, so no row is ever refused.            *)
ParkBatch(t) ==
    LET me == tick[t] IN
    /\ At(t, "park")
    /\ me.park # {}
    /\ \E b \in Batches(me.park) :
          \/ /\ open' = WithRows(b)
             /\ Becomes(t, [me EXCEPT !.park = me.park \ b])
             /\ UNCHANGED faults
          \/ /\ Faults(1)
             /\ open' \in {open, WithRows(b)}
             /\ Becomes(t, [me EXCEPT !.pc = "parkRows", !.park = me.park \ b,
                                      !.batch = b])
    /\ UNCHANGED <<height, cursor, known, sold, promotion>>

(* A row whose insert reports an error is not counted as parked: the tick  *)
(* comes up short and throws.                                              *)
ParkRow(t) ==
    LET me == tick[t] IN
    /\ At(t, "parkRows")
    /\ \E s \in me.batch :
          \/ /\ open' = WithRows({s})
             /\ Becomes(t, [me EXCEPT !.batch = me.batch \ {s}])
             /\ UNCHANGED faults
          \/ /\ Faults(1)
             /\ open' \in {open, WithRows({s})}
             /\ Becomes(t, FailedRow(me, s))
    /\ UNCHANGED <<height, cursor, known, sold, promotion>>

EndParkRows(t) ==
    LET me == tick[t] IN
    /\ At(t, "parkRows")
    /\ me.batch = {}
    /\ Becomes(t, [me EXCEPT !.pc = "park"])
    /\ UNCHANGED <<height, cursor, known, sold, open, promotion, faults>>

EndPark(t) ==
    LET me == tick[t] IN
    /\ At(t, "park")
    /\ me.park = {}
    /\ Becomes(t, [me EXCEPT !.pc = "save"])
    /\ UNCHANGED <<height, cursor, known, sold, open, promotion, faults>>

JumpToTarget(me) == me.target

CursorTarget(me) == IF me.failed = None THEN me.target ELSE me.failed - 1

(* The write is unconditional: a slow tick may move the cursor back.       *)
SaveCursor(t) ==
    LET me == tick[t] IN
    /\ At(t, "save")
    /\ ~me.hold
    /\ cursor' = CursorTarget(me)
    /\ Becomes(t, Idle)
    /\ UNCHANGED <<height, known, sold, open, promotion, faults>>

(* Something failed that a retry repairs: throw and leave the cursor.      *)
Throw(t) ==
    /\ At(t, "save")
    /\ tick[t].hold
    /\ Becomes(t, Idle)
    /\ UNCHANGED <<height, cursor, known, sold, open, promotion, faults>>

(* A read that reports an error throws; a kill at maxDuration and a cursor *)
(* write that fails end the tick in the same way.                          *)
Stop(t) ==
    /\ ~At(t, "idle")
    /\ Faults(1)
    /\ Becomes(t, Idle)
    /\ UNCHANGED <<height, cursor, known, sold, open, promotion>>

TickStep(t) ==
    \/ ReadCursor(t)
    \/ ReadHeight(t)
    \/ FetchChunk(t)
    \/ EndScan(t)
    \/ Resolve(t)
    \/ InsertBatch(t)
    \/ InsertRow(t)
    \/ EndRows(t)
    \/ EndInsert(t)
    \/ ReadParked(t)
    \/ ParkBatch(t)
    \/ ParkRow(t)
    \/ EndParkRows(t)
    \/ EndPark(t)
    \/ SaveCursor(t)
    \/ Throw(t)
-----------------------------------------------------------------------------
(* The chain, the catalogue and the hourly drain.                          *)

SealBlock ==
    /\ height < MaxHeight
    /\ height' = height + 1
    /\ UNCHANGED <<cursor, known, sold, open, promotion, tick, faults>>

(* Hydration makes one more sale resolvable.                               *)
Hydrate(s) ==
    /\ s \notin known
    /\ known' = known \union {s}
    /\ UNCHANGED <<height, cursor, sold, open, promotion, tick, faults>>

(* The 30 days of some of a sale's blocked rows are over.                  *)
RecheckDue(s) ==
    /\ \E n \in 0..(blocked[s] - 1) : blocked' = [blocked EXCEPT ![s] = n]
    /\ UNCHANGED <<height, cursor, known, sold, open, done, drain, tick, faults>>

(* Open rows with a price and no recheck to wait for, that can be resolved.*)
Candidates == {s \in Sales \ Free : open[s] > blocked[s] /\ s \in known}

(* promote_unmapped_sales takes its snapshot.  One row that sales refuses  *)
(* aborts all of it: a drain that has a refused candidate leaves nothing.  *)
StartDrain ==
    /\ drain = NoDrain
    /\ Candidates # {} /\ Candidates \intersect Poison = {}
    /\ drain' = [sold |-> sold,
                 rows |-> [s \in Sales |->
                              IF s \in Candidates THEN open[s] - blocked[s] ELSE 0]]
    /\ UNCHANGED <<height, cursor, known, sold, open, done, blocked, tick, faults>>

Taken == {s \in Sales : drain.rows[s] > 0}

(* insert_vanished: ON CONFLICT DO NOTHING met a sale a tick inserted      *)
(* after the snapshot, which is neither among the inserted rows nor in the *)
(* snapshot of sales.                                                      *)
Vanished == Taken \intersect (sold \ drain.sold)

RowsOf(set) == [s \in Sales |-> IF s \in set THEN drain.rows[s] ELSE 0]

(* Rows that were resolved more than seven days ago (any of them, here)    *)
(* are deleted.                                                            *)
Kept == {[s \in Sales |-> IF s \in old THEN 0 ELSE done[s]] :
            old \in SUBSET {s \in Sales : done[s] > 0}}

(* A drain that finds nothing to take only deletes.                        *)
Archive ==
    /\ drain = NoDrain /\ Candidates = {}
    /\ done' \in Kept \ {done}
    /\ UNCHANGED <<height, cursor, known, sold, open, blocked, drain, tick, faults>>

(* The rest of the transaction: what was taken goes to sales, its rows are *)
(* marked resolved, the vanished ones blocked, and old ones deleted.       *)
Drain(inserted) ==
    /\ Taken # {}
    /\ sold' = sold \union inserted
    /\ open' = [s \in Sales |-> open[s] - RowsOf(Taken \ Vanished)[s]]
    /\ blocked' = [s \in Sales |-> blocked[s] + RowsOf(Vanished)[s]]
    /\ \E kept \in Kept :
          done' = [s \in Sales |-> kept[s] + RowsOf(Taken \ Vanished)[s]]
    /\ drain' = NoDrain
    /\ UNCHANGED <<height, cursor, known, tick, faults>>

PromoteMarksOnly == Drain({})

Promote == Drain(Taken)

Next ==
    \/ \E t \in Ticks : TickStep(t) \/ Stop(t)
    \/ SealBlock
    \/ \E s \in Sales : Hydrate(s) \/ RecheckDue(s)
    \/ StartDrain \/ Promote \/ Archive

Spec == Init /\ [][Next]_vars

(* The schedulers fire the route again and again and a tick that is not    *)
(* stopped runs on; hydration reaches every moment in the end; the drain   *)
(* runs hourly.  Nothing makes blocks appear or faults happen.             *)
Fairness ==
    /\ \A t \in Ticks : WF_vars(TickStep(t))
    /\ \A s \in Sales : WF_vars(Hydrate(s))
    /\ WF_vars(StartDrain) /\ WF_vars(Promote)

FairSpec == Spec /\ Fairness
-----------------------------------------------------------------------------
(* Type invariant.                                                         *)
TypeOK ==
    /\ height \in Block
    /\ cursor \in Block
    /\ known \subseteq Sales
    /\ sold \subseteq Sales
    /\ open \in [Sales -> Nat]
    /\ done \in [Sales -> Nat]
    /\ blocked \in [Sales -> Nat]
    /\ drain \in [rows : [Sales -> Nat], sold : SUBSET Sales]
    /\ tick \in [Ticks -> Locals]
    /\ faults \in 0..MaxFaults

Recorded(s) == s \in sold \/ open[s] > 0

(* Nothing below the cursor is lost: since no later tick looks there, each *)
(* of those sales is in public.sales or waits, unresolved, in              *)
(* unmapped_sales; the ones sales refuses for good excepted (route.ts      *)
(* 1141-1146 reports them instead).                                        *)
NothingLost ==
    \A s \in Sales \ Poison : BlockOf[s] <= cursor => Recorded(s)

(* The drain never loses what it takes: a parked sale leaves the open rows *)
(* only by being in public.sales, and what is there stays, whatever ticks  *)
(* park it again or rescan it meanwhile.                                   *)
NeverForgotten ==
    [][\A s \in Sales : Recorded(s) => Recorded(s)']_vars

(* Once faults stop, every sale of a sealed block is recorded, though      *)
(* overlapping ticks may move the cursor back.  Blocks stay sealed and     *)
(* sales recorded, so this says that the one leads to the other; the next  *)
(* property says so of what is parked and what is in sales.                *)
EventuallyRecorded ==
    \A s \in Sales \ Poison : []<>(BlockOf[s] <= height => Recorded(s))

(* A parked sale with a price reaches public.sales in the end, unless a    *)
(* parked row that sales refuses keeps aborting the drain.                 *)
EventuallyPromoted ==
    \A s \in Sales \ Free :
        []<>(Parked(s) => s \in sold \/ Candidates \intersect Poison # {})
=============================================================================
