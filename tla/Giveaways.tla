------------------------------ MODULE Giveaways ------------------------------
(***************************************************************************)
(* Community pack giveaways: the drop's life in the database               *)
(* (lib/giveaways/store.ts and the functions of its migrations), the       *)
(* one-signature delivery (lib/giveaways/deliver.ts and the console in     *)
(* AdminGiveawaysClient.tsx) and the chain they look at.                   *)
(*                                                                         *)
(* Sealing, planning a delivery and verifying are requests of several      *)
(* steps: each loads the drop's rows, then reads the chain account by      *)
(* account, and acts on those readings while other requests, submitted     *)
(* transactions and the accounts' owners go on.  Drafting, opening,        *)
(* closing, deleting and claiming are single statements of the database.   *)
(* A transaction whose seal could not be read stays submitted after the    *)
(* console gave it up.  At most MaxFaults calls fail, prompts are declined *)
(* or transactions expire; owners act at most MaxMoves times.              *)
(*                                                                         *)
(* Left out: prices and the value cap, the slot order in a pack, the       *)
(* salt and the hash (they are of the assignment the packs record), the    *)
(* wallet proof of a claim, texts.                                         *)
(***************************************************************************)
EXTENDS Naturals, FiniteSets

CONSTANTS
    Drops,          \* ids, used once
    Moments,
    Sources,        \* accounts a pool is drawn from
    AdminWallet,    \* the drops' admin_wallet
    Parent,         \* the Flow Wallet the sponsor connects to deliver
    Controllers,    \* capability controllers of the accounts linked to it
    Stocks,         \* where the moments may be to begin with
    Links,          \* what `reach` may be to begin with
    Users,
    Recipients,     \* accounts packs are claimed for
    RecipientsOf,   \* user -> the accounts they can prove
    PackCount,
    PerPack,        \* moments_per_pack
    MaxBatch,       \* MAX_DELIVERY_BATCH
    Slots,          \* admin requests in progress at one time
    Flights,        \* bound: submitted transactions at one time
    MaxMoves,       \* bound: acts of the accounts' owners
    MaxFaults,      \* bound: failures
    None

Accounts == Sources \union Recipients
Packs == 1..PackCount
Linked == Sources \ {Parent}

ASSUME NumberAssumption ==
    /\ PackCount \in Nat \ {0}
    /\ PerPack \in Nat \ {0}
    /\ MaxBatch \in Nat \ {0}
    /\ MaxMoves \in Nat
    /\ MaxFaults \in Nat
ASSUME AccountAssumption ==
    /\ AdminWallet \in Sources
    /\ RecipientsOf \in [Users -> SUBSET Recipients]
    /\ Stocks \subseteq [Moments -> Sources]
    /\ Links \subseteq [Linked -> SUBSET Controllers]
    /\ None \notin Accounts \union Users

VARIABLES
    at,         \* chain: moment -> the account that holds it
    held,       \* <<moment, account>> pairs that have been so
    locked,     \* moments locked in place
    deaf,       \* recipients without a collection to receive in
    reach,      \* linked account -> controllers through which Parent may withdraw from it
    status,     \* giveaway_drops.status, and "none" before, "deleted" after
    pool,       \* giveaway_pack_moments: drop -> moment -> row
    claims,     \* giveaway_claims: drop -> pack -> claim
    req,        \* slot -> the request in it
    flight,     \* submitted transactions, alone or awaited by a slot
    moves,
    faults

vars == <<at, held, locked, deaf, reach, status, pool, claims, req, flight, moves, faults>>
chain == <<at, held, locked, deaf, reach>>
db == <<status, pool, claims>>

NoRow == [source |-> None, pack |-> 0, delivered |-> FALSE]
NoClaim == [user |-> None, to |-> None]
Nobody == [m \in Moments |-> None]
Idle == [kind |-> "none", at |-> "idle", drop |-> None, source |-> Nobody,
         to |-> Nobody, todo |-> {}, left |-> {}, found |-> {},
         controller |-> [a \in Linked |-> None], flight |-> None]
NoFlight == [drop |-> None, source |-> None, to |-> Nobody, controller |-> None]

Fault == faults < MaxFaults /\ faults' = faults + 1

InPool(d) == {m \in Moments : pool[d][m].source # None}
Sealed(d) == status[d] \in {"sealed", "open", "closed"}
(* Who a row's pack was claimed for: None when it is not claimed.          *)
Winner(d, m) == IF pool[d][m].pack = 0 THEN None ELSE claims[d][pool[d][m].pack].to

Init ==
    /\ at \in Stocks
    /\ held = {<<m, at[m]>> : m \in Moments}
    /\ locked = {}
    /\ deaf = {}
    /\ reach \in Links
    /\ status = [d \in Drops |-> "none"]
    /\ pool = [d \in Drops |-> [m \in Moments |-> NoRow]]
    /\ claims = [d \in Drops |-> [p \in Packs |-> NoClaim]]
    /\ req = [r \in Slots |-> Idle]
    /\ flight = [f \in Flights |-> NoFlight]
    /\ moves = 0
    /\ faults = 0
-----------------------------------------------------------------------------
(* The database's own statements.                                          *)

(* create_giveaway_draft_multi: the cache may still show a moment in an    *)
(* account that has since lost it, and unlocked.                           *)
Draft(d) ==
    /\ status[d] = "none"
    /\ \E source \in [Moments -> Sources \union {None}] :
          /\ Cardinality({m \in Moments : source[m] # None}) = PackCount * PerPack
          /\ \A m \in Moments : source[m] # None => <<m, source[m]>> \in held
          /\ pool' = [pool EXCEPT ![d] =
                [m \in Moments |-> [NoRow EXCEPT !.source = source[m]]]]
    /\ status' = [status EXCEPT ![d] = "draft"]
    /\ UNCHANGED <<chain, claims, req, flight, moves, faults>>

(* The rows go with the drop (ON DELETE CASCADE).                          *)
DeleteDraft(d) ==
    /\ status[d] = "draft"
    /\ status' = [status EXCEPT ![d] = "deleted"]
    /\ pool' = [pool EXCEPT ![d] = [m \in Moments |-> NoRow]]
    /\ UNCHANGED <<chain, claims, req, flight, moves, faults>>

(* setStatus: the update is conditional on the status the click was for.   *)
SetStatus(d, from, to) ==
    /\ status[d] = from
    /\ status' = [status EXCEPT ![d] = to]
    /\ UNCHANGED <<chain, pool, claims, req, flight, moves, faults>>

OpenDrop(d) == SetStatus(d, "sealed", "open")
CloseDrop(d) == SetStatus(d, "open", "closed")

OwnAccount(d, account) ==
    account = AdminWallet \/ \E m \in InPool(d) : pool[d][m].source = account

(* A draw that forgets the claims made.                                    *)
AnyPack(d) == Packs
(* A pack of this drop nobody has; any will do, the draw is random.        *)
Unclaimed(d) == {p \in Packs : claims[d][p] = NoClaim}

(* claim_giveaway_pack, which locks the drop's row.                        *)
ClaimPack(d, user, to) ==
    /\ \A p \in Packs : claims[d][p].user # user
    /\ status[d] = "open"
    /\ ~OwnAccount(d, to)
    /\ \A p \in Packs : claims[d][p].to # to
    /\ \E p \in Unclaimed(d) :
          claims' = [claims EXCEPT ![d][p] = [user |-> user, to |-> to]]
    /\ UNCHANGED <<chain, status, pool, req, flight, moves, faults>>
-----------------------------------------------------------------------------
(* Requests.                                                               *)

Running(r, kind, step) == req[r].kind = kind /\ req[r].at = step

End(r) == req' = [req EXCEPT ![r] = Idle]

(* The request loads the drop and its rows; `left` is what it is about.    *)
Begin(r, kind, d, about, accounts) ==
    /\ req[r] = Idle
    /\ about # {}
    /\ req' = [req EXCEPT ![r] =
          [Idle EXCEPT !.kind = kind, !.at = "read", !.drop = d,
                       !.source = [m \in Moments |-> pool[d][m].source],
                       !.to = [m \in Moments |-> Winner(d, m)],
                       !.todo = accounts, !.left = about]]
    /\ UNCHANGED <<chain, db, flight, moves, faults>>

SourcesOf(d, about) == {pool[d][m].source : m \in about}

StartSeal(r, d) ==
    /\ status[d] = "draft"
    /\ Begin(r, "seal", d, InPool(d), SourcesOf(d, InPool(d)))

(* planDelivery's pending rows.                                            *)
Pending(d) ==
    {m \in InPool(d) : Winner(d, m) # None /\ ~pool[d][m].delivered}

(* Closing a drop would end its deliveries.                                *)
DeliverableOpen(d) == status[d] = "open"
Deliverable(d) == status[d] \in {"open", "closed"}

StartPlan(r, d) ==
    /\ Deliverable(d)
    /\ Begin(r, "plan", d, Pending(d), SourcesOf(d, Pending(d)))

Claimed(d) == {m \in InPool(d) : Winner(d, m) # None}

(* verifyDeliveries groups the claimed rows by recipient.                  *)
StartVerify(r, d) ==
    Begin(r, "verify", d, Claimed(d), {Winner(d, m) : m \in Claimed(d)})

(* readTopShotHoldings of one account a request has still to look at.      *)
ReadSource(r, a) ==
    LET q == req[r]
        mine == {m \in q.left : q.source[m] = a}
    IN  /\ q.kind \in {"seal", "plan"} /\ q.at = "read" /\ a \in q.todo
        /\ req' = [req EXCEPT ![r].todo = @ \ {a},
              ![r].found = @ \union {m \in mine : at[m] = a /\ m \notin locked}]
        /\ UNCHANGED <<chain, db, flight, moves, faults>>

ReadRecipient(r, a) ==
    LET q == req[r]
        mine == {m \in q.left : q.to[m] = a}
    IN  /\ Running(r, "verify", "read") /\ a \in q.todo
        /\ req' = [req EXCEPT ![r].todo = @ \ {a},
              ![r].found = @ \union {m \in mine : at[m] = a}]
        /\ UNCHANGED <<chain, db, flight, moves, faults>>

(* A recipient that cannot be read: its rows are left as they are.         *)
SkipRecipient(r, a) ==
    LET q == req[r]
    IN  /\ Running(r, "verify", "read") /\ a \in q.todo
        /\ Fault
        /\ req' = [req EXCEPT ![r].todo = @ \ {a},
              ![r].left = {m \in @ : q.to[m] # a}]
        /\ UNCHANGED <<chain, db, flight, moves>>
-----------------------------------------------------------------------------
(* Sealing.                                                                *)

(* The check sealDrop made when the request began, and no other.           *)
CanSealOnce(d) == status[d] # "deleted"
(* seal_giveaway_drop looks at the status again, under the row's lock.     *)
CanSeal(d) == status[d] = "draft"

(* Packs numbered one too high.                                            *)
DealsOneOff(about) ==
    {deal \in [about -> 2..(PackCount + 1)] :
        \A p \in 2..(PackCount + 1) : Cardinality({m \in about : deal[m] = p}) = PerPack}

(* dealIntoPacks of the shuffled pool: every pack gets its number.         *)
Deals(about) ==
    {deal \in [about -> Packs] :
        \A p \in Packs : Cardinality({m \in about : deal[m] = p}) = PerPack}

Seal(r) ==
    LET q == req[r] d == q.drop
    IN  /\ Running(r, "seal", "read") /\ q.todo = {}
        /\ q.found = q.left
        /\ CanSeal(d)
        /\ \E deal \in Deals(q.left) :
              pool' = [pool EXCEPT ![d] = [m \in Moments |->
                  IF m \in q.left THEN [@[m] EXCEPT !.pack = deal[m]] ELSE @[m]]]
        /\ status' = [status EXCEPT ![d] = "sealed"]
        /\ End(r)
        /\ UNCHANGED <<chain, claims, flight, moves, faults>>

(* Moments gone or locked, or a status that moved on.                      *)
RefuseSeal(r) ==
    /\ Running(r, "seal", "read") /\ req[r].todo = {}
    /\ req[r].found # req[r].left \/ ~CanSeal(req[r].drop)
    /\ End(r)
    /\ UNCHANGED <<chain, db, flight, moves, faults>>
-----------------------------------------------------------------------------
(* Delivering.                                                             *)

Transferable(m, from, to) == at[m] = from /\ m \notin locked /\ to \notin deaf

(* BORROW_PROVIDER: the parent's own collection, or a linked account's     *)
(* through the controller the plan named.                                  *)
Borrowable(a, controller) == a \in Linked => controller \in reach[a]

Through(q, a) == IF a = Parent THEN None ELSE q.controller[a]

(* The plan once the accounts `linked` are left to be asked for a provider.*)
Batching(q, linked) ==
    IF linked = {}
    THEN [q EXCEPT !.at = "simulate", !.todo = {q.source[m] : m \in q.left}]
    ELSE [q EXCEPT !.at = "providers", !.todo = linked]

(* What is held and unlocked is ready; the rest is skipped.                *)
PlanBatches(r) ==
    LET q == [req[r] EXCEPT !.left = req[r].found]
    IN  /\ Running(r, "plan", "read") /\ q.todo = {} /\ q.found # {}
        /\ req' = [req EXCEPT ![r] = Batching(q, {q.source[m] : m \in q.left} \ {Parent})]
        /\ UNCHANGED <<chain, db, flight, moves, faults>>

(* PROVIDER_CONTROLLERS of one linked account; the batches name the first. *)
FindProvider(r, a) ==
    LET q == req[r]
    IN  /\ Running(r, "plan", "providers") /\ a \in q.todo
        /\ \E c \in reach[a] :
              req' = [req EXCEPT ![r] =
                         Batching([q EXCEPT !.controller[a] = c], q.todo \ {a})]
        /\ UNCHANGED <<chain, db, flight, moves, faults>>

(* not_parent: one account out of reach refuses the whole plan.            *)
RefuseNotParent(r, a) ==
    /\ Running(r, "plan", "providers") /\ a \in req[r].todo
    /\ reach[a] = {}
    /\ End(r)
    /\ UNCHANGED <<chain, db, flight, moves, faults>>

NothingReady(r) ==
    /\ Running(r, "plan", "read") /\ req[r].todo = {} /\ req[r].found = {}
    /\ End(r)
    /\ UNCHANGED <<chain, db, flight, moves, faults>>

(* One source's batches are run against the chain as it is now; one that   *)
(* does not land every moment ends the plan.                               *)
Simulate(r, a) ==
    LET q == req[r]
        mine == {m \in q.left : q.source[m] = a}
    IN  /\ Running(r, "plan", "simulate") /\ a \in q.todo
        /\ IF /\ Borrowable(a, Through(q, a))
              /\ \A m \in mine : Transferable(m, a, q.to[m])
           THEN req' = [req EXCEPT ![r].todo = @ \ {a},
                    ![r].at = IF q.todo = {a} THEN "send" ELSE "simulate"]
           ELSE End(r)
        /\ UNCHANGED <<chain, db, flight, moves, faults>>

(* The recipients of a batch: its moments' winners.                        *)
Addressed(r, batch) == [m \in Moments |-> IF m \in batch THEN req[r].to[m] ELSE None]

(* The wallet signs the next batch of the plan.                            *)
Send(r, f, batch) ==
    LET q == req[r]
    IN  /\ Running(r, "plan", "send") /\ flight[f] = NoFlight
        /\ \E a \in Sources :
              LET mine == {m \in q.left : q.source[m] = a}
              IN  /\ batch \subseteq mine /\ batch # {}
                  /\ \/ batch = mine /\ Cardinality(mine) <= MaxBatch
                     \/ batch # mine /\ Cardinality(batch) = MaxBatch
                  /\ flight' = [flight EXCEPT ![f] =
                        [drop |-> q.drop, source |-> a, to |-> Addressed(r, batch),
                         controller |-> Through(q, a)]]
        /\ req' = [req EXCEPT ![r].at = "wait", ![r].left = @ \ batch,
                              ![r].flight = f]
        /\ UNCHANGED <<chain, db, moves, faults>>

Aboard(f) == {m \in Moments : flight[f].to[m] # None}

CanLand(f) ==
    /\ Borrowable(flight[f].source, flight[f].controller)
    /\ \A m \in Aboard(f) : Transferable(m, flight[f].source, flight[f].to[m])

(* Whoever waits for the transaction reads its seal.                       *)
Answered(f, executed) ==
    req' = [r \in Slots |->
              IF req[r].flight # f THEN req[r]
              ELSE IF executed /\ req[r].left # {}
                   THEN [req[r] EXCEPT !.at = "send", !.flight = None]
                   ELSE Idle]

(* The whole batch executes, or nothing of it.                             *)
Land(f) ==
    /\ flight[f] # NoFlight /\ CanLand(f)
    /\ at' = [m \in Moments |-> IF m \in Aboard(f) THEN flight[f].to[m] ELSE at[m]]
    /\ held' = held \union {<<m, flight[f].to[m]>> : m \in Aboard(f)}
    /\ flight' = [flight EXCEPT ![f] = NoFlight]
    /\ Answered(f, TRUE)
    /\ UNCHANGED <<locked, deaf, reach, db, moves, faults>>

Revert(f) ==
    /\ flight[f] # NoFlight /\ ~CanLand(f)
    /\ flight' = [flight EXCEPT ![f] = NoFlight]
    /\ Answered(f, FALSE)
    /\ UNCHANGED <<chain, db, moves, faults>>

ExpireFlight(f) ==
    /\ flight[f] # NoFlight
    /\ Fault
    /\ flight' = [flight EXCEPT ![f] = NoFlight]
    /\ Answered(f, FALSE)
    /\ UNCHANGED <<chain, db, moves>>

(* A failed read, a declined prompt, a closed console: the request is      *)
(* over; a transaction it waited for is not (SealUnconfirmedError).        *)
Stop(r) ==
    /\ req[r] # Idle
    /\ Fault
    /\ End(r)
    /\ UNCHANGED <<chain, db, flight, moves>>
-----------------------------------------------------------------------------
(* Verifying.                                                              *)

(* The recipients are read; what none of them held is looked up at its     *)
(* source.                                                                 *)
LookAtSources(r) ==
    LET q == req[r]
    IN  /\ Running(r, "verify", "read") /\ q.todo = {}
        /\ req' = [req EXCEPT ![r].at = "sources",
              ![r].todo = {q.source[m] : m \in q.left \ q.found}]
        /\ UNCHANGED <<chain, db, flight, moves, faults>>

(* What it finds is recorded for a person and read by no code.             *)
ReadKept(r, a) ==
    /\ Running(r, "verify", "sources") /\ a \in req[r].todo
    /\ req' = [req EXCEPT ![r].todo = @ \ {a}]
    /\ UNCHANGED <<chain, db, flight, moves, faults>>

SkipSource(r, a) ==
    LET q == req[r]
    IN  /\ Running(r, "verify", "sources") /\ a \in q.todo
        /\ Fault
        /\ req' = [req EXCEPT ![r].todo = @ \ {a},
              ![r].left = {m \in @ : m \in q.found \/ q.source[m] # a}]
        /\ UNCHANGED <<chain, db, flight, moves>>

(* For every moment looked at.                                             *)
StampsChecked(r, m) == TRUE
(* delivered_at is stamped for a recipient seen with the moment.           *)
Stamps(r, m) == m \in req[r].found

Written(r, m) ==
    IF req[r].left = {m} THEN End(r)
    ELSE req' = [req EXCEPT ![r].at = "write", ![r].left = @ \ {m}]

(* One row of those that were read.                                        *)
WriteRow(r, m) ==
    LET q == req[r] d == q.drop
    IN  /\ q.kind = "verify" /\ q.at \in {"sources", "write"} /\ q.todo = {}
        /\ m \in q.left
        /\ pool' = [pool EXCEPT ![d][m].delivered = @ \/ Stamps(r, m)]
        /\ Written(r, m)
        /\ UNCHANGED <<chain, status, claims, flight, moves, faults>>

SkipRow(r, m) ==
    /\ req[r].kind = "verify" /\ req[r].at \in {"sources", "write"}
    /\ req[r].todo = {}
    /\ m \in req[r].left
    /\ Fault
    /\ Written(r, m)
    /\ UNCHANGED <<chain, db, flight, moves>>

(* Every row was unreadable.                                               *)
NothingRead(r) ==
    /\ Running(r, "verify", "sources") /\ req[r].todo = {} /\ req[r].left = {}
    /\ End(r)
    /\ UNCHANGED <<chain, db, flight, moves, faults>>
-----------------------------------------------------------------------------
(* The accounts' owners.                                                   *)

Owners ==
    /\ moves < MaxMoves /\ moves' = moves + 1
    /\ \/ \E m \in Moments \ locked, a \in Accounts \ deaf :
             /\ a # at[m]
             /\ at' = [at EXCEPT ![m] = a]
             /\ held' = held \union {<<m, a>>}
             /\ UNCHANGED <<locked, deaf, reach>>
       \/ \E m \in Moments :
             /\ locked' = IF m \in locked THEN locked \ {m} ELSE locked \union {m}
             /\ UNCHANGED <<at, held, deaf, reach>>
       \/ \E a \in Recipients :
             /\ deaf' = IF a \in deaf THEN deaf \ {a} ELSE deaf \union {a}
             /\ UNCHANGED <<at, held, locked, reach>>
       \/ \E a \in Linked, cs \in SUBSET Controllers :
             /\ cs # reach[a]
             /\ reach' = [reach EXCEPT ![a] = cs]
             /\ UNCHANGED <<at, held, locked, deaf>>
    /\ UNCHANGED <<db, req, flight, faults>>
-----------------------------------------------------------------------------
Read(r) == \E a \in Accounts :
    ReadSource(r, a) \/ ReadRecipient(r, a) \/ ReadKept(r, a)

Proceed(r) ==
    \/ Read(r)
    \/ Seal(r) \/ RefuseSeal(r)
    \/ PlanBatches(r) \/ NothingReady(r)
    \/ \E a \in Accounts : FindProvider(r, a) \/ RefuseNotParent(r, a) \/ Simulate(r, a)
    \/ \E f \in Flights, batch \in SUBSET Moments : Send(r, f, batch)
    \/ LookAtSources(r) \/ NothingRead(r)
    \/ \E m \in Moments : WriteRow(r, m)

Fail(r) ==
    \/ Stop(r)
    \/ \E a \in Accounts : SkipRecipient(r, a) \/ SkipSource(r, a)
    \/ \E m \in Moments : SkipRow(r, m)

Next ==
    \/ \E d \in Drops :
          \/ Draft(d) \/ DeleteDraft(d) \/ OpenDrop(d) \/ CloseDrop(d)
          \/ \E user \in Users : \E to \in RecipientsOf[user] : ClaimPack(d, user, to)
          \/ \E r \in Slots : StartSeal(r, d) \/ StartPlan(r, d) \/ StartVerify(r, d)
    \/ \E r \in Slots : Proceed(r) \/ Fail(r)
    \/ \E f \in Flights : Land(f) \/ Revert(f) \/ ExpireFlight(f)
    \/ Owners

Spec == Init /\ [][Next]_vars

(* Requests run on, submitted transactions are decided, and the sponsor    *)
(* keeps pressing Deliver all and Verify deliveries.                       *)
Fairness ==
    /\ \A r \in Slots : WF_vars(Proceed(r))
    /\ \A f \in Flights : WF_vars(Land(f) \/ Revert(f))
    /\ \A d \in Drops :
          /\ SF_vars(\E r \in Slots : StartPlan(r, d))
          /\ SF_vars(\E r \in Slots : StartVerify(r, d))

FairSpec == Spec /\ Fairness
-----------------------------------------------------------------------------
RowType == [source : Sources \union {None}, pack : {0} \union Packs,
            delivered : BOOLEAN]
ClaimType == [user : Users \union {None}, to : Recipients \union {None}]
Sending == [Moments -> Recipients \union {None}]
ReqType == [kind : {"none", "seal", "plan", "verify"},
            at : {"idle", "read", "providers", "simulate", "send", "wait", "sources", "write"},
            drop : Drops \union {None},
            source : [Moments -> Sources \union {None}], to : Sending,
            todo : SUBSET Accounts, left : SUBSET Moments,
            found : SUBSET Moments,
            controller : [Linked -> Controllers \union {None}],
            flight : Flights \union {None}]
FlightType == [drop : Drops \union {None}, source : Sources \union {None},
               to : Sending, controller : Controllers \union {None}]

(* The type of every variable.                                             *)
TypeOK ==
    /\ at \in [Moments -> Accounts]
    /\ held \subseteq Moments \X Accounts
    /\ locked \subseteq Moments
    /\ deaf \subseteq Recipients
    /\ reach \in [Linked -> SUBSET Controllers]
    /\ status \in [Drops -> {"none", "draft", "sealed", "open", "closed", "deleted"}]
    /\ pool \in [Drops -> [Moments -> RowType]]
    /\ claims \in [Drops -> [Packs -> ClaimType]]
    /\ req \in [Slots -> ReqType]
    /\ flight \in [Flights -> FlightType]
    /\ moves \in 0..MaxMoves
    /\ faults \in 0..MaxFaults

(* A transaction the sponsor signed, even one the console gave up and that *)
(* executes much later, sends a moment to nobody but the one who claimed   *)
(* its pack: neither sealing, claiming nor planning at another time can    *)
(* come between (deliver.ts:94, claim_giveaway_pack, seal_giveaway_drop).  *)
OnlyToItsWinner ==
    \A f \in Flights, m \in Moments :
        flight[f].to[m] # None =>
            /\ flight[f].to[m] = Winner(flight[f].drop, m)
            /\ flight[f].source = pool[flight[f].drop][m].source

(* delivered_at is evidence: its moment has been in the winner's account,  *)
(* whatever transactions, moves and failed reads verifyDeliveries met.     *)
DeliveredReachedWinner ==
    \A d \in Drops, m \in Moments :
        pool[d][m].delivered => <<m, Winner(d, m)>> \in held

(* The packs whose hash a sealed drop has published are dealt for good,    *)
(* and a pack once claimed is its claimer's: no request that read the drop *)
(* earlier deals or assigns it anew (seal_giveaway_drop, store.ts:339).    *)
PacksStand ==
    [][\A d \in Drops :
          /\ Sealed(d) => \A m \in Moments : pool'[d][m].pack = pool[d][m].pack
          /\ \A p \in Packs : claims[d][p] # NoClaim => claims'[d][p] = claims[d][p]
      ]_vars

(* A moment a plan would batch, at an account its wallet cannot draw from. *)
OutOfReach(d, m) ==
    LET row == pool[d][m]
    IN  /\ m \in Pending(d) /\ at[m] = row.source /\ m \notin locked
        /\ row.source \in Linked /\ reach[row.source] = {}

(* Delivery can go on for row m: it is where the sponsor can send it from, *)
(* or where its winner will be seen with it; no winner of the drop is      *)
(* without a collection, and no moment of it to be sent is in an account   *)
(* whose link is gone (one of either is enough to end every plan).         *)
WithinReach(d, m) ==
    /\ \/ at[m] = Winner(d, m)
       \/ at[m] = pool[d][m].source /\ m \notin locked
    /\ \A p \in Packs : claims[d][p].to \notin deaf
    /\ \A n \in Moments : ~OutOfReach(d, n)

(* Again and again every claimed moment within reach is recorded           *)
(* delivered, from the wallet and its linked accounts, through plans that  *)
(* overlap, links that come and go, reads that fail and transactions that  *)
(* expire or are given up (deliver.ts:87, 119; store.ts:425).              *)
EventuallyDelivered ==
    \A d \in Drops :
        []<>(\A m \in Claimed(d) : pool[d][m].delivered \/ ~WithinReach(d, m))
=============================================================================
