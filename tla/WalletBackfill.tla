--------------------------- MODULE WalletBackfill ---------------------------
(***************************************************************************)
(* The ID-only wallet backfill (runIdOnlyBackfill of                       *)
(* lib/chains/flow/wallet-backfill-helpers.ts, as the UFC route runs it)   *)
(* for one wallet and one collection: walks claim the run lock, read the   *)
(* wallet's moments on chain, write the rows wallet_moments_cache lacks,   *)
(* delete those the wallet no longer holds and stamp wmc_clean_walks.      *)
(*                                                                         *)
(* A walk is a background task that its platform kills at maxDuration; the *)
(* next one finds the lock taken until it is stale.  Time passes in ticks  *)
(* that age the lock and the walks.  Moments come and go, and the wallet's *)
(* collection capability may be unpublished, between any two steps: the    *)
(* owner acts at most MaxMoves times, and at most MaxFaults calls fail or  *)
(* walks are killed.                                                       *)
(*                                                                         *)
(* since and sure are history: the moments held ever since a walk's last   *)
(* reading of the chain, and ever since that of the walk that stamped.     *)
(*                                                                         *)
(* Left out: the other columns of a row and their enrichment, the 24 hour  *)
(* refresh of last_seen_at, retries inside a call, the scan record, logs.  *)
(***************************************************************************)
EXTENDS Naturals, FiniteSets

CONSTANTS
    Moments,
    Walks,          \* invocations in progress at one time
    ChunkSize,      \* UPSERT_CHUNK and the delete's CHUNK
    CapSize,        \* rows above which the 90 % cap applies (100)
    MaxDuration,    \* ticks a walk may live (maxDuration, 300 s)
    StaleAfter,     \* ticks a claim is fresh (p_stale_seconds, 660 s)
    MaxMoves,       \* bound: acts of the wallet's owner
    MaxFaults       \* bound: failed calls and kills

ASSUME NumberAssumption ==
    /\ ChunkSize \in Nat \ {0}
    /\ CapSize \in Nat
    /\ MaxDuration \in Nat
    /\ StaleAfter \in Nat
    /\ MaxMoves \in Nat
    /\ MaxFaults \in Nat
ASSUME KilledBeforeStale == MaxDuration <= StaleAfter
ASSUME FiniteMoments == IsFiniteSet(Moments)

VARIABLES
    held,       \* chain: the wallet's moments in the collection
    readable,   \* chain: the collection's public capability is there
    cache,      \* wallet_moments_cache: the wallet's moment ids
    stamp,      \* wmc_clean_walks: the last clean walk
    lock,       \* pipeline_run_locks: the row of this wallet and collection
    walk,       \* walk -> its locals
    opened,     \* history: a claim has failed open
    moves,
    faults

vars == <<held, readable, cache, stamp, lock, walk, opened, moves, faults>>
chain == <<held, readable, moves>>

Idle == [pc |-> "idle", age |-> 0, skip |-> FALSE, observed |-> {},
         listed |-> {}, todo |-> {}, lost |-> FALSE, since |-> {}]
Free == [taken |-> FALSE, age |-> 0]
Taken == [taken |-> TRUE, age |-> 0]
NoStamp == [clean |-> FALSE, whole |-> FALSE, sure |-> {}]

(* Past the claim: between a claim that let it proceed and the end of the  *)
(* finally block.                                                          *)
Walking(w) == walk[w].pc \notin {"idle", "claim"}

Fault == faults < MaxFaults /\ faults' = faults + 1
Goto(w, pc) == walk' = [walk EXCEPT ![w].pc = pc]
End(w) == walk' = [walk EXCEPT ![w] = Idle]
(* Into the finally block: the locals are gone.                            *)
Finish(w) == walk' = [walk EXCEPT ![w] = [Idle EXCEPT !.pc = "release", !.age = walk[w].age]]

Init ==
    /\ held \in SUBSET Moments
    /\ cache \in SUBSET Moments
    /\ readable = TRUE
    /\ stamp = NoStamp
    /\ lock = Free
    /\ walk = [w \in Walks |-> Idle]
    /\ opened = FALSE
    /\ moves = 0
    /\ faults = 0
-----------------------------------------------------------------------------
(* The wallet and the clock.                                               *)

Move == moves < MaxMoves /\ moves' = moves + 1

Acquire(m) ==
    /\ Move
    /\ m \notin held
    /\ held' = held \union {m}
    /\ UNCHANGED <<readable, cache, stamp, lock, walk, opened, faults>>

Leave(m) ==
    /\ Move
    /\ m \in held
    /\ held' = held \ {m}
    /\ walk' = [w \in Walks |-> [walk[w] EXCEPT !.since = @ \ {m}]]
    /\ stamp' = [stamp EXCEPT !.sure = @ \ {m}]
    /\ UNCHANGED <<readable, cache, lock, opened, faults>>

(* A nil capability: getIDs() then answers [] like an empty collection.    *)
Republish ==
    /\ Move
    /\ readable' = ~readable
    /\ UNCHANGED <<held, cache, stamp, lock, walk, opened, faults>>

(* Mutant: nothing ends a walk that runs for too long.                     *)
TickOverdue ==
    /\ lock' = [lock EXCEPT !.age =
                   IF lock.taken /\ lock.age <= StaleAfter THEN lock.age + 1 ELSE lock.age]
    /\ walk' = [w \in Walks |-> [walk[w] EXCEPT !.age =
                   IF walk[w].pc = "idle" THEN walk[w].age ELSE walk[w].age + 1]]
    /\ UNCHANGED <<chain, cache, stamp, opened, faults>>

(* No walk outlives MaxDuration: it has ended or was killed by then.       *)
Tick ==
    /\ \A w \in Walks : walk[w].pc # "idle" => walk[w].age < MaxDuration
    /\ lock' = [lock EXCEPT !.age =
                   IF lock.taken /\ lock.age <= StaleAfter THEN lock.age + 1 ELSE lock.age]
    /\ walk' = [w \in Walks |-> [walk[w] EXCEPT !.age =
                   IF walk[w].pc = "idle" THEN walk[w].age ELSE walk[w].age + 1]]
    /\ UNCHANGED <<chain, cache, stamp, opened, faults>>
-----------------------------------------------------------------------------
(* The lock.                                                               *)

(* force is skip = FALSE: every observed id is written again.              *)
Start(w, skip) ==
    /\ walk[w].pc = "idle"
    /\ walk' = [walk EXCEPT ![w] = [Idle EXCEPT !.pc = "claim", !.skip = skip]]
    /\ UNCHANGED <<chain, cache, stamp, lock, opened, faults>>

(* Mutants: a claim is stale one tick too early, or never.                 *)
ClaimableAtBound == ~lock.taken \/ lock.age >= StaleAfter
ClaimableWhenDone == ~lock.taken

(* claim_pipeline_lock: new, done, or claimed longer ago than StaleAfter.  *)
Claimable == ~lock.taken \/ lock.age > StaleAfter

Claim(w) ==
    /\ walk[w].pc = "claim"
    /\ IF Claimable
       THEN lock' = Taken /\ Goto(w, "read")
       ELSE lock' = lock /\ End(w)
    /\ UNCHANGED <<chain, cache, stamp, opened, faults>>

(* An error of a saturated database skips the walk; any other lets it      *)
(* proceed, whether or not the claim was made.                             *)
ClaimFails(w) ==
    /\ walk[w].pc = "claim"
    /\ Fault
    /\ \/ lock' = lock /\ End(w) /\ opened' = opened
       \/ /\ lock' = lock \/ (Claimable /\ lock' = Taken)
          /\ Goto(w, "read")
          /\ opened' = TRUE
    /\ UNCHANGED <<chain, cache, stamp>>

(* release_pipeline_lock, by key: whoever holds the lock by now.           *)
Release(w) ==
    /\ walk[w].pc = "release"
    /\ \/ lock' = Free /\ faults' = faults
       \/ lock' \in {lock, Free} /\ Fault
    /\ End(w)
    /\ UNCHANGED <<chain, cache, stamp, opened>>

Kill(w) ==
    /\ walk[w].pc # "idle"
    /\ Fault
    /\ End(w)
    /\ UNCHANGED <<chain, cache, stamp, lock, opened>>
-----------------------------------------------------------------------------
(* Reading the chain and the cache.                                        *)

Observed == IF readable THEN held ELSE {}

(* fetchOnChainIds.                                                        *)
Read(w) ==
    /\ walk[w].pc = "read"
    /\ walk' = [walk EXCEPT ![w].observed = Observed,
                            ![w].since = held,
                            ![w].todo = Observed,
                            ![w].pc = CASE Observed = {} -> "prove"
                                        [] walk[w].skip /\ Observed # {} -> "list"
                                        [] OTHER -> "write"]
    /\ UNCHANGED <<chain, cache, stamp, lock, opened, faults>>

(* Mutant: an empty reading proves an empty collection.                    *)
ProvenByReading == Observed = {}

(* proveCollectionEmpty: only a present collection of no ids retires rows. *)
ProvenEmpty == readable /\ held = {}

Prove(w) ==
    /\ walk[w].pc = "prove"
    /\ IF ProvenEmpty
       THEN walk' = [walk EXCEPT ![w].pc = "load", ![w].since = held]
       ELSE Finish(w)
    /\ UNCHANGED <<chain, cache, stamp, lock, opened, faults>>

(* A failed reading of the chain: the catch block, an unproven emptiness   *)
(* or an unconfirmed count.                                                *)
ReadFails(w) ==
    /\ walk[w].pc \in {"read", "prove", "confirm"}
    /\ Fault
    /\ Finish(w)
    /\ UNCHANGED <<chain, cache, stamp, lock, opened>>

(* loadCachedMomentIds: a failed page ends the reading with what it has.   *)
Listing(ids) ==
    \/ ids = cache /\ faults' = faults
    \/ ids \in SUBSET cache /\ ids # cache /\ Fault

List(w) ==
    /\ walk[w].pc = "list"
    /\ \E ids \in SUBSET Moments :
          /\ Listing(ids)
          /\ walk' = [walk EXCEPT ![w].listed = ids,
                                  ![w].todo = walk[w].observed \ ids,
                                  ![w].pc = "write"]
    /\ UNCHANGED <<chain, cache, stamp, lock, opened>>
-----------------------------------------------------------------------------
(* Writing, deleting and stamping.                                         *)

Chunks(ids) ==
    {c \in SUBSET ids : c # {} /\ Cardinality(c) <= ChunkSize
                        /\ (c = ids \/ Cardinality(c) = ChunkSize)}

(* upsertWmcChunks: a chunk that fails is tallied and the next one tried.  *)
Write(w) ==
    /\ walk[w].pc = "write"
    /\ \E c \in Chunks(walk[w].todo) :
          \/ /\ cache' = cache \union c
             /\ walk' = [walk EXCEPT ![w].todo = @ \ c]
             /\ faults' = faults
          \/ /\ cache' \in {cache, cache \union c}
             /\ walk' = [walk EXCEPT ![w].todo = @ \ c, ![w].lost = TRUE]
             /\ Fault
    /\ UNCHANGED <<chain, stamp, lock, opened>>

(* The >90 % cap.                                                          *)
Suspicious(listed, gone) ==
    Cardinality(listed) > CapSize /\ 10 * Cardinality(gone) > 9 * Cardinality(listed)

(* Mutant: the observed ids are those left by the skip filter.             *)
UnseenAfterFilter(w, ids) ==
    LET gone == ids \ (walk[w].observed \ walk[w].listed) IN
    walk' = [walk EXCEPT
        ![w].listed = {},
        ![w].skip = FALSE,
        ![w].todo = gone,
        ![w].pc = IF gone = {} THEN "stamp" ELSE "remove"]

(* deleteUnseenWmcRows up to its first delete: the cached ids that the     *)
(* walk has not seen.  The list and the choice to skip are spent.          *)
Unseen(w, ids) ==
    LET gone == ids \ walk[w].observed IN
    walk' = [walk EXCEPT
        ![w].listed = {},
        ![w].skip = FALSE,
        ![w].todo = gone,
        ![w].pc = CASE gone = {} -> "stamp"
                    [] gone # {} /\ walk[w].observed # {} /\ Suspicious(ids, gone) -> "confirm"
                    [] OTHER -> "remove"]

(* The caller's list is used again; a forced walk lists the cache now.     *)
EndWrite(w) ==
    /\ walk[w].pc = "write"
    /\ walk[w].todo = {}
    /\ IF walk[w].skip THEN Unseen(w, walk[w].listed) ELSE Goto(w, "load")
    /\ UNCHANGED <<chain, cache, stamp, lock, opened, faults>>

Load(w) ==
    /\ walk[w].pc = "load"
    /\ \E ids \in SUBSET Moments : Listing(ids) /\ Unseen(w, ids)
    /\ UNCHANGED <<chain, cache, stamp, lock, opened>>

(* readCollectionCount against the size of the walk.                       *)
Confirm(w) ==
    /\ walk[w].pc = "confirm"
    /\ IF readable /\ Cardinality(held) = Cardinality(walk[w].observed)
       THEN Goto(w, "remove")
       ELSE Finish(w)
    /\ UNCHANGED <<chain, cache, stamp, lock, opened, faults>>

(* A delete that fails ends the pass without a stamp.                      *)
Remove(w) ==
    /\ walk[w].pc = "remove"
    /\ \E c \in Chunks(walk[w].todo) :
          \/ /\ cache' = cache \ c
             /\ walk' = [walk EXCEPT ![w].todo = @ \ c]
             /\ faults' = faults
          \/ /\ cache' \in {cache, cache \ c}
             /\ Finish(w)
             /\ Fault
    /\ UNCHANGED <<chain, stamp, lock, opened>>

EndRemove(w) ==
    /\ walk[w].pc = "remove"
    /\ walk[w].todo = {}
    /\ Goto(w, "stamp")
    /\ UNCHANGED <<chain, cache, stamp, lock, opened, faults>>

(* stampCleanWalk: reported, never thrown.                                 *)
Clean(w) == [clean |-> TRUE, whole |-> ~walk[w].lost, sure |-> walk[w].since]

Stamp(w) ==
    /\ walk[w].pc = "stamp"
    /\ \/ stamp' = Clean(w) /\ faults' = faults
       \/ stamp' \in {stamp, Clean(w)} /\ Fault
    /\ Finish(w)
    /\ UNCHANGED <<chain, cache, lock, opened>>
-----------------------------------------------------------------------------
WalkStep(w) ==
    \/ Claim(w) \/ ClaimFails(w) \/ Release(w) \/ Kill(w)
    \/ Read(w) \/ Prove(w) \/ ReadFails(w) \/ List(w)
    \/ Write(w) \/ EndWrite(w) \/ Load(w) \/ Confirm(w)
    \/ Remove(w) \/ EndRemove(w) \/ Stamp(w)

Next ==
    \/ \E m \in Moments : Acquire(m) \/ Leave(m)
    \/ Republish
    \/ Tick
    \/ \E w \in Walks : \/ \E skip \in BOOLEAN : Start(w, skip)
                        \/ WalkStep(w)

Spec == Init /\ [][Next]_vars

(* Scheduled seeding asks for a walk again and again, walks run to their   *)
(* end, and time passes.                                                   *)
Fairness ==
    /\ \A w \in Walks : WF_vars(\E skip \in BOOLEAN : Start(w, skip)) /\ WF_vars(WalkStep(w))
    /\ WF_vars(Tick)

FairSpec == Spec /\ Fairness
-----------------------------------------------------------------------------
Pcs == {"idle", "claim", "read", "prove", "list", "write", "load", "confirm",
        "remove", "stamp", "release"}

LockType == [taken : BOOLEAN, age : 0..(StaleAfter + 1)]
StampType == [clean : BOOLEAN, whole : BOOLEAN, sure : SUBSET Moments]
WalkType ==
    [pc : Pcs, age : 0..MaxDuration, skip : BOOLEAN, observed : SUBSET Moments,
     listed : SUBSET Moments, todo : SUBSET Moments, lost : BOOLEAN, since : SUBSET Moments]

(* Every variable has its type, and no walk outlives its function.         *)
TypeOK ==
    /\ held \subseteq Moments
    /\ readable \in BOOLEAN
    /\ cache \subseteq Moments
    /\ stamp \in StampType
    /\ lock \in LockType
    /\ walk \in [Walks -> WalkType]
    /\ opened \in BOOLEAN
    /\ moves \in 0..MaxMoves
    /\ faults \in 0..MaxFaults

(* Until a claim has failed open, two walks of a wallet are never past     *)
(* their claims together: a claim that is taken over is that of a walk     *)
(* its platform has killed, and no walk releases another one's claim.      *)
OneWalk == ~opened => \A v, w \in Walks : Walking(v) /\ Walking(w) => v = w

(* A row is deleted only if its moment was out of the wallet at some time  *)
(* since the deleting walk last read the chain: an unreadable collection,  *)
(* a row that another walk wrote or a partial list never cost a holding.   *)
RetiredWasGone ==
    [][\A m \in cache \ cache' :
          \E w \in Walks : walk[w].pc = "remove" /\ walk'[w] # walk[w]
                           /\ m \notin walk[w].since]_vars

(* As long as no claim failed open: after a walk that wrote every chunk    *)
(* has stamped the collection clean, each moment held ever since its       *)
(* reading has a row, whatever later walks did.                            *)
CleanMeansGone == ~opened /\ stamp.whole => stamp.sure \subseteq cache

(* When the wallet comes to rest the cache comes to show it exactly,       *)
(* unless the collection cannot be read.                                   *)
EventuallyExact == <>[](readable => cache = held)
=============================================================================
