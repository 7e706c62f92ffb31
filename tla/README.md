# A verification project for Rip Packs City

TLA+ models, TLC runs and TLAPS proofs for the parts of this repository that
move or promise somebody's NFTs.

The repository is a collector-intelligence platform for Flow NFTs: a Next.js
application over a Supabase (Postgres) database, with Cadence contracts on
Flow, Cloudflare workers and a few hundred scheduled routes. Most of it reads,
aggregates and displays. What can go *wrong in a way nobody sees in a test* sits
in a few stateful parts, and these are what the project is about.

## 1. Inventory

| Component | State | Operations | Hard behaviours | What makes it correct |
|---|---|---|---|---|
| **Trade escrow contract** `cadence/contracts/RPCTradeEscrow.cdc` | pause flag, id counter, registry of live trades; each trade: parties, types, expected ids, expiry, four receivers, two escrows | `proposeTrade`, `depositToTrade`, `executeSwap`, `cancelTrade`, `reclaimExpired`, `Admin.setPaused` | trades competing for one NFT; receivers revoked between deposit and swap; expiry racing execution; one transaction serving two parties | no NFT lost or duplicated; a side's escrow is its commitment; all or nothing; deposits come back |
| **Trade rooms** `lib/trade-room`, `app/api/trade-room`, `lib/swap-test/relay.ts` | `trade_rooms`, `trade_room_sides`, `trade_room_items`, `trade_room_relay`; the chain | `join`, `wallet`, `items`, `accept`, `unaccept`, `cancel`, `relay_post`, `relay_sign`, `signing_ended`, `sealed`, `verify` | concurrent serverless handlers, each a load followed by single-statement writes with no transaction around them; a handler may die between any two; the chain moves on its own | executable only as agreed; one winner per version; finished rooms stay finished; a seal only over goods that changed hands |
| **Trade block** `lib/trade-block`, `app/api/trade-block` | `trade_block_listings`, `trade_block_proposals` and their lines; opens trade rooms | `create`, `close`, `propose`, `decide`, `withdraw` | reads long before the write they justify; proposing races closing; a decision opens a room before it knows it won | an answer stands; an accepted proposal's room is its own and ready; one pending proposal per collector and listing |
| **Giveaway packs contract** `cadence/contracts/RPCGiveawayPacks.cdc` | sealed packs with sponsor, winner and time of assignment, id counter; Hybrid Custody links beside it | `seal`, `assign`, `openAs`, `reclaim` | ids read before they are used; reclaim delay racing opening; links coming and going; collections that cannot receive | what is sealed reaches only an account of its winner's, or goes back under the rules of `reclaim` |
| **Giveaways** `lib/giveaways`, `AdminGiveawaysClient.tsx` and SQL functions | drops, pools, claims, `delivered_at`; submitted transactions | draft, delete, seal, open, close, claim, plan and sign a delivery, verify | requests that read the chain account by account and act on it later; transactions whose seal cannot be read; row-by-row writes | a moment goes to its pack's claimer only; packs once published stand; `delivered_at` is evidence; delivery finishes |
| **Block-cursor sales indexers** `app/api/sales-indexer`, `promote_unmapped_sales` | block cursor, `sales`, `unmapped_sales` | tick (scan, insert, park, save cursor), drain | overlapping schedulers; kills between calls; failed chunks; lost answers; rows refused for good | no sale below the cursor is lost; a parked sale is promoted |
| **Alerts** `app/api/cron/alerts-dispatch`, `alerts-send`, `lib/packs/chase-alerts.ts`, `lib/alerts` | watches and FMV alerts, `alert_deliveries` outbox | FMV leg, pack-chase leg, claim, send, mark | two crons over one outbox; enqueue and disarm apart; sends that time out; runs killed | resent only after a recorded failure; silent only with a row; what stands is told |
| **Wallet backfills** `lib/chains/flow` | `wallet_moments_cache`, run locks, `wmc_clean_walks`; the wallet on chain | claim, read, write, delete, stamp, release | killed walks and stale locks; unreadable collections; partial lists; the wallet changing under the walk | one walk at a time; no row deleted for a moment that never left; the cache comes to show the wallet |
| **Circuit breaker** `lib/pipeline/upstream-breaker.ts` | none of its own: the last rows of `pipeline_runs` | verdict | its own skip markers fill the window it reads | left out (section 7) |
| FMV, ingest, sniper, market, insights, packs EV, concierge, sentinel, proxies, accounts, rewards, challenges, UI, SEO | tables and caches | bulk reads and upserts | volume rather than protocol | numeric, not temporal: left out (section 7) |

How they interact: an accepted **trade-block** proposal creates a **trade room**
(`decide` calls `createRoom`); a **trade room** ends in a swap transaction that
two wallets sign through the **relay** and that the chain executes atomically;
the **escrow contract** is the other way to swap, where the two parties need not
be online together; **giveaways** record drops and claims in the database and
deliver by transactions from the sponsor's wallet, where the **packs contract**
is the on-chain form of the same promise. **Sales indexers** and **wallet
backfills** copy the chain into tables, from which **alerts** are told.

## 2. Modules

| Module | Models | Kind |
|---|---|---|
| `AtomicSwap` | what any swap escrow promises | abstract specification |
| `TradeEscrow` | `RPCTradeEscrow.cdc` | component |
| `TradeEscrowRefinement` | the mapping from `TradeEscrow` to `AtomicSwap` | refinement |
| `TradeEscrowProofs` | theorems, and that `TradeEscrow` implements `AtomicSwap` | proofs |
| `MCTradeEscrow` | TLC's values | model checking |
| `Agreement` | what a trade room promises the two parties | abstract specification |
| `TradeRoom` | one trade room, its route and its relay | component |
| `TradeRoomHistory` | the same with a memory of acceptances, edits and where moments have been | history variables |
| `TradeRoomRefinement` | the mapping from `TradeRoomHistory` to `Agreement` | refinement |
| `TradeRoomProofs` | theorems, and that the room implements `Agreement` | proofs |
| `MCTradeRoom` | TLC's values and later starting points | model checking |
| `Offers` | what the block promises of the offers on its posts | abstract specification |
| `TradeBlock` | listings, proposals and the rooms decisions open | component |
| `TradeBlockRefinement` | the mapping from `TradeBlock` to `Offers` | refinement |
| `TradeBlockProofs` | theorems, and that the block implements `Offers` | proofs |
| `MCTradeBlock` | TLC's values and a later starting point | model checking |
| `Replica` | what copying a chain into a table promises | abstract specification |
| `SalesIndexer`, `SalesIndexerRefinement`, `SalesIndexerProofs`, `MCSalesIndexer` | the Top Shot sales tick and the drain of parked sales; their mapping to `Replica` | component, refinement, proofs, model checking |
| `Outbox` | what an outbox of alerts promises | abstract specification |
| `Alerts`, `AlertsRefinement`, `AlertsProofs`, `MCAlerts` | FMV and pack-chase dispatch, the outbox and its senders; their mapping to `Outbox` | component, refinement, proofs, model checking |
| `Raffle` | what a giveaway promises its community | abstract specification |
| `Giveaways`, `GiveawaysRefinement`, `GiveawaysProofs`, `MCGiveaways` | a drop's life and its deliveries; their mapping to `Raffle` | component, refinement, proofs, model checking |
| `Mirror` | what a mirror of a wallet promises | abstract specification |
| `WalletBackfill`, `WalletBackfillRefinement`, `WalletBackfillProofs`, `MCWalletBackfill` | the ID-only wallet walk, its lock and its stamp; their mapping to `Mirror` | component, refinement, proofs, model checking |
| `SealedGift` | what sealing a gift promises | abstract specification |
| `GiveawayPacks`, `GiveawayPacksProofs`, `MCGiveawayPacks` | `RPCGiveawayPacks.cdc` and its mapping to `SealedGift` | component, refinement, proofs, model checking |

Every component thus has two specifications: one of what the code does,
statement by statement, and one, of a page or less, of what it promises, where
no request, program counter, stale reading, timeout or fault occurs. The abstract
module is what a reader should argue about first: whether these are the promises
one wants. That the code keeps them, whatever interleaves, is the refinement
(`Follows...`: every step is a step of the abstract module or changes nothing of
it; `Implements...`: and the first state is one of its first), checked by TLC on
the instances below and proved by TLAPS for all values.

### TradeEscrow

A Cadence transaction is atomic: a failed precondition, assertion or panic
anywhere undoes all of it. So every public entry point is one action, its checks
and those of the functions it calls are its guard, and a failing transaction is
no step.

| Model | Code |
|---|---|
| `now` | `getCurrentBlock().timestamp`, advanced by `Tick` |
| `paused`, `nextTradeId` | the contract fields |
| `trades` | the `Registry`'s dictionary; a trade leaves it with `RemoveTrade` |
| `trades[i].escrow[s]` | `partyA_escrow`, `partyB_escrow` |
| `trades[i].refund`, `.incoming` | the four receiver capabilities, `NoReceiver` for nil |
| `held` | the NFTs in every account's own collections |
| `live` | the capabilities whose `borrow()` succeeds at present |
| `ProposeTrade`, `DepositToTrade`, `ExecuteSwap`, `CancelTrade`, `ReclaimExpired`, `SetPaused` | the functions of the same names |
| `RevokeReceiver`, `RestoreReceiver`, `TransferOutside`, `Tick` | the environment: what owners and blocks do between transactions |

The two sides are symmetric in the code (`partyA_...`, `partyB_...` twins); the
model writes each rule once over `Side`. Ids are unique within an NFT type only,
so an NFT is a `[type, id]` pair and `Admitted` has to check both. The
`expectedIds` arrays are sequences, since a proposal may repeat an id, and what
the code does then (the second `remove` panics) is `IsInjective` in `ExecuteSwap`.
`HolderOf` and `Accepts` say which account a receiver feeds and which types its
`deposit` takes; the model takes the transaction templates' word that a
depositor passes its own address, as `TradeEscrow.DepositToTrade` says.

### AtomicSwap and the refinement

`AtomicSwap` has an owner lock a bundle, then either both bundles change hands
or each goes home; it knows no clock, pause, capability, id or type. `holder` is
a function, so conservation is built into it. The mapping sends an NFT to the
account that holds it or to `Vault`, and a trade to the deal with its escrows as
bundles and the accounts of its receivers as destinations.

### TradeRoom

No database transaction spans two statements here. A request loads the room
(the row, then the sides and the items in parallel: `Start`, `ReadSides`,
`ReadItems`), decides on what it loaded, and writes one statement at a time.
Each action is one statement with the checks between it and the one before.

| Model | Code |
|---|---|
| `room` | `trade_rooms`: `status`, `version`, `tx_id` |
| `expired` | `expires_at` has passed |
| `sides`, `items` | `trade_room_sides`, `trade_room_items` |
| `relays` | `trade_room_relay`, one row per signing attempt; `fresh` until its TTL |
| `at` | the chain: which account a moment sits in |
| `reqs[r]` | a running handler: its action, caller, arguments, program counter and what it has loaded |
| `JoinRoom`, `JoinedStatus` | `joinRoom` |
| `SetWallet`, `ClearItems`, then `Touch`, `ResetAcceptances` | `setWallet`, `touch` |
| `CheckPicks`, `SaveItems`, `PruneItems`, then `Touch`, `ResetAcceptances` | the `items` action, `setItems`, `touch` |
| `Accept`, `LockRoom`; `Unaccept`, `UnlockRoom`; `CancelRoom` | `accept`, `unaccept`, `cancelRoom` |
| `MarkSigning`, `PostSignable`; `CheckRelay`, `PostSignature`; `MarkSigningEnded` | `relay_post`, `relay_sign`, `signing_ended` |
| `VerifyLanded`, `VerifyOther`, `VerifyAgain`, `MarkSealed` | `sealed` (`verifyRoom` reads one leg of the swap and then the other), `verify`, `markSealed` |
| `Fail` | every refusal, failed statement, failed chain read and killed function |
| `Expire`, `RelayExpires`, `ExecuteSwap` | the clock, the relay's TTL, the chain |
| `MoveOutside` | a moment moved by its owner in any other way, at any time |

Conditional updates (`.eq("version", ...)`, `.in("status", ...)`) are the guards
or the conditional right-hand sides of the write they belong to; unique keys are
`InsertAdmitted` and the second check of `SaveItems`. `Voucher` stands for the
whole of `assertSignableMatchesRoom`: two vouchers are equal exactly when sources,
signers and picks agree.

`TradeRoomHistory` only watches: `everAccepted` (every acceptance written),
`accepts` (the proposal a side's last acceptance was checked on), `edits` (the
version each successful `touch` started from), `went` (which accounts a moment has
been in, and in which of them before which) and `receipt` (what the last report
that sealed the room had loaded: what each side gives, and where to).

A report of a seal names any string of the form of a transaction id (`TxIds`); the
route ties it to no relay, and what it looks at is holdings. So no property here
says that a seal has a swap of the *room* before it: the code does not see to
that, and section 6 says so. What it sees to is `SealedIsHandedOver`: every moment
a report names had been in an account its giver proves, and was in the taker's
account afterwards.

`Agreement` has versions, consents to a version, a phase and a trade. A consent
may arrive after the edit it did not know of, but it is of the version it was
given; the proposal is agreed only at a version both have consented to; the trade
is carried out only after some version was agreed; what is agreed is recorded as
done only against a receipt of goods that have gone from one party to the other,
and only an edit brings back what is done or called off. The owners move the goods
as they like, with the trade or without. The mapping (`TradeRoomRefinement`) takes
the consents from `everAccepted`, the phase from the room's status, the accounts of
a party from what its collector can prove, and the goods and the trade from the
chain; items, relays, loaded copies, expiry and the recorded id are hidden.

### TradeBlock

The same reading of the code as for the rooms: a request is a sequence of
statements, each one action, with `Fail` for every way to stop. The tables are
functions from row ids; a row is `None` before its insert and `Deleted` after
its delete, so that a stale id is never somebody else's row.

| Model | Code |
|---|---|
| `listings`, `proposals` | `trade_block_listings`, `trade_block_proposals`, each with its lines |
| `rooms` | status and sides of the rooms `decide` opens |
| `reqs[r]` | a running handler: caller, arguments, program counter, what it has read or inserted |
| `StartCreate` (the count), `ReadMine`, `CheckDuplicates`, `InsertListing`, `InsertOffers` or `UndoListing` | `createListing` |
| `StartClose`, `CloseListing`, `DeclinePending` | `closeListing` |
| `StartPropose`, `CheckTerms`, `CountPending`, `InsertProposal`, `InsertLines` or `UndoProposal` | `propose` |
| `StartDecide`, `JudgeLines`, `CreateRoom`, `AddSideA`, `AddSideB`, `StartBuilding`, `Answer` | `decide`, with `createRoom` |
| `StartWithdraw`, `Withdraw` | `withdraw` |
| `IndexAdmits` | the partial unique index on pending proposals |
| `UndoListing`'s effect on proposals | `ON DELETE CASCADE` |
| `Expire` | `expires_at` passes |

Moments matter only by whose proven account the index finds them in
(`HolderOf`) and whether a room can sign their collection (`Signable`).

It meets `TradeRoom` at the hand-over: what `AcceptedRoomIsReady` says of an
accepted proposal's room - status `building`, the lister on side a, the proposer
on side b, nothing else written - is one of the initial states of `TradeRoom`
(`Opened(guest)`), so all that module says of a room holds of these rooms too.

`Offers` knows posts, offers with one answer each, and meetings. Since an answer
must be somebody's, it has words: who asked for what and has not been served
yet. A word is mapped to a request of that caller past its checks, so that
`Decline` or `AcceptInto` without a request of the lister, or a withdrawal
without one of the proposer, is a step `Offers` does not have. Lines, counts,
the open or closed status of a post and what requests have loaded are hidden.

### SalesIndexer

Two schedulers fire the route, so ticks overlap; the platform may kill one
between any two calls. Each call to the database or the chain is one action.

| Model | Code |
|---|---|
| `height`, `cursor` | the sealed height, `event_cursor.last_processed_block` |
| `sold`, `open`, `done` | `public.sales` by its unique key; `unmapped_sales` rows, unresolved and resolved, counted since nothing keeps them unique |
| `blocked` | of the open rows, those marked `promote_recheck_after`; `RecheckDue` is the end of the 30 days |
| `known` | sales whose edition the catalogue resolves by now; `Hydrate` adds to it |
| `Free` | sales parked with a price of 0, which the drain does not look at |
| `tick[t]` | an invocation: stage, cursor as read, target, failed chunk, sales seen, to insert and to park, and whether something failed that a retry repairs |
| `ReadCursor`, `ReadHeight`, `FetchChunk`, `EndScan`, `Resolve` | steps 1 to 5 of the route |
| `InsertBatch`, `InsertRow`, `EndRows`, `EndInsert` | the batch insert and its row-by-row retry |
| `ReadParked`, `ParkBatch`, `ParkRow`, `EndParkRows`, `EndPark` | the dedup read and the parking |
| `SaveCursor`, `Throw` | the cursor write, and the exception that leaves it |
| `StartDrain`, `drain` | the snapshot `promote_unmapped_sales` works on, taken when its statement begins; one statement, so that one refused row aborts it |
| `Promote` (`Drain`) | its commit: insert, `mark_done`, `mark_blocked` for the rows whose insert vanished, and the deletion of old resolved rows |
| `Archive` | a drain that finds nothing to take, and only deletes |
| `Stop`, the `Faults` branches | a kill; a failed call; a commit whose answer was lost |

`Replica` has a table, events that wait for what they lack, and a mark from
which the copying goes on. The ticks are hidden, and the number of rows a sale
waits in; what is left is that a sale stops waiting in `unmapped_sales` only by
being in `public.sales`, that nothing is recorded that was not
sold, and that the cursor, moved by whichever tick and forth or back, never
leaves a good sale behind that is in neither table.

`Poison` are the sales `public.sales` refuses for good. A tick drops such a row
and reports it; parked and resolvable, it aborts every drain. A sale that a tick
inserts between the drain's snapshot and its commit is `Vanished`: `ON CONFLICT DO
NOTHING` skips it, and the snapshot of `sales` does not show it, so its row is
blocked, not resolved.

### Alerts

| Model | Code |
|---|---|
| `watch`, `alert` | `pack_chase_watches` and `fmv_alerts`; `rests` is the six hours' rest |
| `updated` | the period of a watch's `updated_at`, which saving, arming and disarming write |
| `odds`, `price`, `linked` | what a reading of a pack and a price would show; verified channels, the `notification_email` fallback included |
| `row[subject, channel, period]` | `alert_deliveries` by its dedup key |
| `inbox` | how often a provider accepted the message: history |
| `FmvLeg`, `Windows` | `dispatch_triggered_fmv_alerts`, one transaction, over any `ScanLimit` of the alerts that do not rest (`LIMIT p_max` without `ORDER BY`) |
| `Listed` | the first `ListLimit` active watches by id (`.order("id").limit(1000)`) |
| `ListWatches`, `ReadOdds`, `Consider` (`Hold`, `Rearm`, `Enqueue`), `Disarm`, `EndPass` | `runPackChaseDispatch`, watch by watch, on the readings the leg began with |
| `Claim`, `Send`, `Mark` (`MarkSent`, `MarkFailed`), `EndRun` | `claim_pending_deliveries`, one message per owner, the marks row by row |
| `StopPass`, `StopRun`, `Fault` | kills, failed calls, lost answers |

`Outbox` is about letters: written once for an address that takes them, posted
again only after a noted failure, filed once and for good, and a subject silent
only with a letter about it. A letter is a dedup key; `pending` and `sending` are
one to it, so that claims, runs and their deaths are hidden.

A period is a Pacific day to the chase leg's bucket and, to the FMV leg, an hour
with its rest; the two legs share no state, so one counter serves both.

### Giveaways

| Model | Code |
|---|---|
| `at`, `locked`, `deaf` | the chain: where moments are, which cannot leave, who has no collection; `held` is history, and what a stale cache may show |
| `Parent`, `reach` | the Flow Wallet the sponsor connects, and for each account linked to it the capability controllers through which it may withdraw (none: the Hybrid Custody link is gone) |
| `status`, `pool`, `claims` | `giveaway_drops`, `giveaway_pack_moments`, `giveaway_claims` |
| `req[r]` | an admin request: seal, plan or verify, with the rows it loaded and what it has read |
| `flight` | transactions submitted, awaited by a console or given up by it |
| `Draft`, `DeleteDraft`, `OpenDrop`, `CloseDrop`, `ClaimPack` | the SQL functions and conditional updates of the same names |
| `StartSeal`, `ReadSource`, `Seal`, `RefuseSeal` | `sealDrop`, `seal_giveaway_drop` |
| `StartPlan`, `ReadSource`, `PlanBatches`, `NothingReady`, `FindProvider`, `RefuseNotParent`, `Simulate`, `Send` | `planDelivery`: pending rows, holdings, a provider for each linked source or the refusal `not_parent`, the simulations; and the console's loop of signatures |
| `Owners` | transfers, locks, collections and links, by the accounts' owners |
| `Land`, `Revert`, `ExpireFlight` | what becomes of a submitted transaction, and what its waiter does |
| `StartVerify`, `ReadRecipient`, `LookAtSources`, `ReadKept`, `WriteRow`, `NothingRead` | `verifyDeliveries` |
| `SkipRecipient`, `SkipSource`, `SkipRow`, `Stop` | unreadable accounts, failed row writes, refusals and closed consoles |

`Raffle` has no request: prizes are pledged, dealt once into full packs, won once
each, sent from where they were pledged to who won their pack, arrive together
or not at all, and are recorded only once their winner has had them. A parcel is
a submitted transaction, given up or not.

### WalletBackfill

| Model | Code |
|---|---|
| `held`, `readable` | the wallet on chain, and whether the collection's public capability is there |
| `cache`, `stamp`, `lock` | `wallet_moments_cache`, `wmc_clean_walks`, `pipeline_run_locks` |
| `walk[w]` | an invocation of `runIdOnlyBackfill`: stage, age, ids observed, listed and still to do |
| `Start`, `Claim`, `ClaimFails`, `Release`, `Kill` | the background task and `claim_pipeline_lock`, which fails open on an error |
| `Read`, `Prove`, `ReadFails`, `List` | `fetchOnChainIds`, `proveCollectionEmpty`, `loadCachedMomentIds` (a failed page leaves a partial list) |
| `Write`, `EndWrite` | `upsertWmcChunks` |
| `Load`, `Unseen`, `Confirm`, `Remove`, `EndRemove` | `deleteUnseenWmcRows` with its 90 % cap |
| `Stamp` | `stampCleanWalk`, at the end of the walk |

`since` and `sure` are history: what has been held ever since a walk's reading,
and ever since the reading of the walk that stamped.

`Mirror` calls what a walk has read a look: what it saw, and what has stayed in
the wallet ever since. A row is shown only for something a look in use saw,
hidden only if it has left since that look, and while a clean stamp stands
(`Vouched`: a whole one, and no claim failed open) nothing it vouched for is
hidden by anyone. Lock, lists, chunks, ages and faults are hidden.

### GiveawayPacks and SealedGift

A transaction is atomic here as in the escrow. `Seal`, `Assign`, `Reclaim` and
`OpenAs` are the functions of those names; `Relink`, `SetReceives`, `Transfer`
and `Tick` are Hybrid Custody, collections, owners and blocks. `SealedGift`
knows no pack, id, clock or type: a moment is given, gets a winner once, and
goes to an account of the winner's or, before that or when its time is over,
back. The mapping sends a moment in a pack to a gift of the pack's sponsor,
named for the pack's recipient, ripe when the delay has passed.

## 3. Runs

| Run | Instance | Shows | Distinct states |
|---|---|---|---|
| `escrow_commitments` | one trade, two types with clashing ids, lists `<<>>`, `<<1>>`, `<<1,1>>`, three receivers of which one takes one type only | `TypeOK`, `EscrowIsCommitment`, `AllOrNothing`, `SwapsGiveWhatTheyList` | 315,264 |
| `escrow_release` | two trades over two NFTs of one type, fair clock and janitor | `Conservation`, `ExpiryReleases`, `ImplementsAtomicSwap` | 96,960 |
| `escrow_locked` | one trade, the same fairness | violates `NoSideLockedForever` | - |
| `room_stages` | a fresh room three collectors race to join, one opened for an accepted proposal, a built room or one being signed; two handlers at once, three requests or moves outside | `TypeOK`, `OneEditPerVersion`, `VouchersAreProven`, `SealedIsHandedOver`, `FollowsAgreement` | 746,990 |
| `room_held` | a built room, three requests | violates `HeldToWhatWasAccepted` | - |
| `block_races` | two collectors, three moments of which one cannot be signed, two rows of each table, two handlers at once, three requests | `TypeOK`, `AcceptedRoomIsReady`, `FollowsOffers` | 361,078 |
| `sales_lag` | two overlapping ticks over two blocks after the cursor, chunks of one block, a good sale and a refused one, one fault | `TypeOK`, `NothingLost`, `FollowsReplica`, `EventuallyRecorded`, `EventuallyPromoted` | 595,456 |
| `alerts_outbox` | one owner: a watch, or an ask alert with two sender runs, with two attempts, two periods and two faults; and two watches, or two alerts, of which a pass reads one, without faults | `TypeOK`, `ResentOnlyAfterFailure`, `SilentHasRow`, `FollowsOutbox`, `RichIsTold`, `AsksAreTold` | 241,928 |
| `giveaway_packs` | one drop of two packs of one moment, its pool in the sponsor's own wallet, two fans, two admin requests, two transactions in flight, one act of an owner, one fault | `TypeOK`, `OnlyToItsWinner`, `DeliveredReachedWinner`, `FollowsRaffle` | 681,802 |
| `giveaway_delivery` | one drop of one pack of two moments in a linked account, sent one per batch, two controllers, one transaction in flight, one act of an owner, one fault, fair requests | `EventuallyDelivered` | 388,585 |
| `backfill_walks` | two moments, two walks, chunks of one, the cap at its smallest, one act of the owner, two faults | `TypeOK`, `OneWalk`, `CleanMeansGone`, `FollowsMirror`, `EventuallyExact` | 1,060,826 |
| `packs_contract` | two moments of one type, three accounts, two Sponsor resources of one account, two packs, a delay of one tick, three acts around the contract | `TypeOK`, `IdNamesOnePack`, `EventuallyOut`, `ImplementsSealedGift` | 172,653 |

Bounds, and why they are enough to be interesting:

- `MaxTime`, `MaxTrades`, `MinExpiry`, `MaxExpiry`: the contract compares `now`
  with a deadline and nothing else, so two or three instants give before, at and
  after. Two trades are what it takes to compete for one NFT; a third would
  compete in the same way. The theorems hold without these bounds.
- `MaxRequests` is the number of handlers started and of moments moved outside the
  swap, together. Every hazard of the rooms
  found so far takes two or three requests of which two overlap; running three
  from each stage of a room's life (fresh, built, signing) reaches every action,
  where running ten from the fresh room would not finish. The starting points of
  `MCTradeRoom` are states the requests named in their comments lead to. No
  request is started that its first read turns away, nor one of somebody who is
  not in the room, but for a join of a free side (`NothingInVain`): it would write
  nothing, except for a caller who joins while another request of his is being
  served, or one whose status changes between its first read and its last, which
  are beyond this run. The room expires only between the check of a request's
  picks and their upsert (`LateExpiry`), the one place where a handler looks at
  the clock a second time: at any other time an expired room only refuses more of
  what this run explores, and no property but `TypeOK` reads the clock. The
  theorems know no such bounds.
- `block_races` starts from empty tables and from a listing posted, with or
  without a proposal on it (`PostedInit`: what a create and a propose leave
  behind), so that three requests are enough for two decisions and a withdrawal
  to meet. Two rows of each table let two proposals or two rooms be confused.
  `MaxOpenListings` and `MaxPendingProposals` are 2 instead of 20 and 30.
- `MaxRelays`: two signing attempts, so that an old one can be confused with a
  new one.
- `MaxFaults` (sales, alerts, giveaways, backfill) counts failed calls, answers
  lost after a commit, and kills. One or two are what a hazard of these
  components takes: each is "this call fails while that one goes on". No theorem
  depends on it. Under the liveness properties it also says that faults stop.
- `MaxHeight` 3 from an origin of 1, with chunks of one block and two blocks per
  run, is the least that has a chunk before and a chunk after the one that fails.
  `BatchSize` 2 lets a good row share a batch with a refused one.
- `MaxAttempts` 2 (5 in the code) has a first, a last and a retry between them;
  `MaxPeriod` 1 has a period in which a key is used and one in which it is new.
  Faults happen in the first period only, so that retries have room.
- `ListLimit` and `ScanLimit` 1 (1000, and 200 by default) with two subjects have one
  that is read and one that is not. `Beginnings` says which subjects and senders a
  behaviour has: a subject alone meets every fault, and the two that compete for
  room meet none, the watches in the last period only, since their competition is
  about what a pass reads and not about calls that fail.
- `Flights` 2 in `giveaway_packs`: a transaction given up and the one of the next
  plan. `MaxBatch` is 1 in `giveaway_delivery`, so that a plan takes two
  signatures and may stop between them. `MaxMoves` 1 is one transfer, lock, lost
  collection or change of a link. The pool is in the wallet in one run and in a
  linked account in the other; one spread over both is within the theorems, and an
  instance of it also passed, too slow to keep as a run.
- `MaxDuration` and `StaleAfter` are equal and least: `KilledBeforeStale` (300 s
  and 660 s in the code) is assumed of any values. `CapSize` 0 instead of 100
  puts the 90 % cap within reach of two moments.
- `Delay` 1 has the two sides of the boundary. It is assumed to be positive:
  naming a winner and being ripe are two steps of `SealedGift`, which a zero
  delay would make one.

Deadlock checking is off where the instance really stops: the rooms, the block
and the giveaways, once their requests, acts and faults are spent. Elsewhere
something always remains possible.

## 4. Fairness

- `escrow_release`, `escrow_locked`: blocks keep coming (`WF(Tick)`), and somebody
  keeps trying `reclaimExpired` on expired trades (`WF(ReclaimExpired(i))`), the
  cron of the deployment guide (`docs/trade-escrow/DEPLOYMENT.md:270`, `:332`). No
  party is obliged to deposit, execute, cancel or keep a receiver valid.
- `sales_lag`: the schedulers fire again and a tick that is not stopped runs on
  (`WF(TickStep(t))`); hydration reaches every moment; the drain runs hourly
  and ends (`WF` of `StartDrain` and `Promote`). A blocked row need not come due.
  Nothing makes blocks appear or faults happen.
- `alerts_outbox`: both crons fire again, runs go on, time passes. Owners and the
  market owe nothing.
- `giveaway_delivery`: requests run on (`WF(Proceed(r))`), the chain decides what
  was submitted (`WF(Land(f) \/ Revert(f))`), and the sponsor keeps pressing
  "Deliver all" and "Verify deliveries" (`SF` of each start, strong because the
  two compete for the console's slots). No delivery happens without a sponsor:
  the code has no cron for it. Owners owe nothing, no collection and no link.
- `backfill_walks`: the seeding crons ask again (`WF` of a start), walks run to
  their end, time passes.
- `packs_contract`: time passes, and a sponsor who can have a pack back asks for
  it. Opening is nobody's duty.

## 5. What is proved

All theorems hold for every value of the constants that meets the module's named
assumptions, and for every number of concurrent handlers, ticks, walks or
requests; each is of `Spec` (for the rooms `HSpec`, which only adds the memory),
without fairness.

`TradeEscrowProofs`: `TypeCorrect`, `SupplyConserved`
(`Spec => []Conservation`), `EscrowAlwaysCommitment`, `OneSidedTradesNeverReady`,
`SwapsAreAllOrNothing`, `SwapsHandOverTheirLists`
(`SwapsGiveWhatTheyList`: a bundle handed over has as many
NFTs as its list has entries, hence no list with a repeated id is ever executed).
They rest on one inductive invariant, the conjunction of
`TypeOK`, `Conservation` and `EscrowIsCommitment`. None of the last two is
inductive by itself: that settling hands over *everything* in the escrow needs
the escrow to hold only committed ids (otherwise the rest is destroyed with the
trade), and that a deposit cannot duplicate an NFT needs the depositor to hold
it and no escrow to.

The same module has `Implements`, `Spec => ImplementsAtomicSwap` - the initial
states map to initial states and every action maps to `OpenDeal`,
`Lock`, `Swap`, `Return`, `Move` or a stutter - from that invariant and
`VaultAssumption`. Conservation is what makes the mapping total: it is why "the
account that holds it" names one account.

`TradeRoomProofs`: `RoomTyped` (`TypeOK`), `RoomExecutesWhatWasAgreed`
(`ExecutableIsAgreed`), `RoomEditsSerialize` (`OneEditPerVersion`),
`RoomStaysFinished` (`FinishedVersionStaysFinished`), `RoomSealsWhatWasHandedOver`
(`SealedIsHandedOver`), `RoomAsksOnlyTheProven` (`VouchersAreProven`),
`RoomSwapsBetweenTheTwo`, `RoomFollowsAgreement` and `RoomImplementsAgreement`.

- Every write of a room rests on what its request read some steps before, so the
  invariant says of each request in progress what its readings are still worth
  (`RequestOK`): versions only grow and acceptances once written are history, an
  edit in progress was loaded from an editable room (so that the stale status
  `touch` writes is never an executable one), a lock about to be set names a
  version both sides have accepted.
- `SealedIsHandedOver` takes a second layer (`SealInv`). A side's items - the rows
  and whatever copy a request has loaded - have been in an account its user proves,
  and where they are now has been noted since (`ItemsWith`): they were read there
  before they were saved, and `went` forgets nothing. So a report that finds a leg
  of its swap with the taker adds the second half (`GaveOver`), which no later move
  undoes; the room may be edited, re-proven or moved away from between the two
  reads. A `verify` re-seals only what was loaded sealed, hence under a receipt that
  is as good. Nothing is assumed of who proves which account, of the transaction
  named, or of how the moments moved.
- The refinement joins the two: a status is written only where `Agreement` has
  that turn of phase (`RequestOK`), a report seals only what was handed over
  (`SealInv`), and the chain trades only on a relay row, which exists only if some
  version was agreed (`RelaysAgreed`). That a step which moves no moment adds
  nothing to the goods' history needs that where a moment is, it has been
  (`WhereItIs`).
- `VouchersAreProven` is about the relay rows and needs neither layer: `ProvenInv` says
  that what a request has loaded of a side is an account its collector proves
  (`Grounded`), that sides once taken keep their collector, and so that a voucher
  posted from an old load still names accounts of the two. `RoomSwapsBetweenTheTwo`
  is what it means for the chain: however old the signed request, the step that
  executes it takes from and gives to accounts of the room's two collectors only.

`TradeBlockProofs`: `BlockTypeCorrect`, `AnsweredOnce` (`DecidedOnce`),
`RoomsAreReady` (`AcceptedRoomIsReady`), `OnePendingProposal` (`OnePendingEach`),
`BlockFollowsOffers`, `BlockImplementsOffers`. `IInv` adds to the
types what a program counter says of the rows a handler refers to
(`ReferencesOK`); that a proposal's listing exists (`OnRealListing`, which the
cascade preserves); that a decision's caller and peer are the lister and the
proposer (`JudgedOK`); and, for the rooms, how far a room in hand is furnished
(`FurnishedOK`), that it is in one hand (`OneHand`) and named nowhere yet
(`NotNamedYet`). `AcceptedRoomIsReady` alone is not inductive: the answer that
names the room only writes its code, so everything about the room has to have
been true of the hand before. The refinement needs one more fact per request (`SaysOK`):
that its word is its caller's to say, however long ago that was checked - the
lister of a proposal's listing and a proposal's author never change, and a
request that goes on says nothing new. Then an answer, which is conditional on
the proposal being pending, is `Decline` or `AcceptInto` with that word.

`SalesIndexerProofs`: `TypeCorrect`, `NothingIsLost`, `NothingIsForgotten`
(`NeverForgotten`), `IndexerFollowsReplica`, `IndexerImplementsReplica`.
`NothingLost` is about the cursor and `sold`, and between them lies a whole tick:
the invariant says, stage by stage, where every good sale between the cursor a
tick read and the chunk it has reached is (seen, to insert, in the batch, to
park, recorded, or behind a chunk that failed, or the tick holds its cursor).
That `Recorded` never becomes false again makes the claims of one tick immune to
the others. Of the drain, whose snapshot grows old while ticks write, it says
(`TakenStands`) that the rows it took and the blocked ones are different open rows,
so that its commit cannot mark a row twice, and that what it took is resolvable and
not refused; that a resolved row stands for a sale that is there (`DoneIsSold`)
is why the dedup read may trust it. For the refinement, `Seen` adds that all a tick has in hand was sold
in a sealed block and that it aims at none but a sealed one: `SetMark` asks for it
although nothing reads it again.

`AlertsProofs`: `TypeCorrect`, `ResendsAreJustified`
(`ResentOnlyAfterFailure`), `SilenceHasRow` (`SilentHasRow`),
`AlertsFollowOutbox`, `AlertsImplementOutbox`. The invariant says
of a row in `sending` that at most one run holds it, and of a held row by stage
how its sends and attempts compare; and of a watch about to be disarmed that its
row is there, which no action takes away. The refinement adds only that a pass is
of no later period than the present one; a send is `Post` because a held row was
sent no oftener than it failed, and marks are final because only the run that
holds a row writes it.

`GiveawaysProofs`: `TypeCorrect`, `SentToWinners` (`OnlyToItsWinner`),
`DeliveriesReached` (`DeliveredReachedWinner`), `PacksStandForGood`
(`PacksStand`), `GiveawayFollowsRaffle`, `GiveawayImplementsRaffle`. The invariant relates what a request loaded to the rows as they
are: a plan's recipients stay the winners because a drop that can be delivered
is sealed, and a sealed drop's packs and claims stand. The refinement adds that
an unsealed drop has no packs (`PacksOK`) and that a seal request of a drop still
in draft has loaded its whole pool (`SealsOK`): so that `Deal`, computed from rows
read before every account was looked at, is a deal of the pool as it is.

`WalletBackfillProofs`: `TypeCorrect`, `WalksExclude` (`OneWalk`),
`CleanWalksProve` (`CleanMeansGone`), `RetiresTheGone` (`RetiredWasGone`),
`WalksFollowMirror`, `WalksImplementMirror`. The
invariant ties the age of a live walk to that of its claim (`KilledBeforeStale`
turns this into exclusion), and says of each stage what the ids to be deleted
have to do with what the walk observed. The refinement adds that a walk writes
only what it saw (`Seeing`); that a delete spares what a clean stamp vouches for
is the invariant's clause that a walk alone has looked since the stamp (`Backed`).

`GiveawayPacksProofs`: `TypeCorrect`, `IdsArePermanent` (`IdNamesOnePack`) and
`Implements` (`Spec => ImplementsSealedGift`).

Some action properties are theorems and no run checks them by themselves, since
a refinement that one checks says more: `ExecutableIsAgreed` and
`FinishedVersionStaysFinished` (`FollowsAgreement`), `DecidedOnce` and
`OnePendingEach` (`FollowsOffers`), `NeverForgotten` (`FollowsReplica`), `PacksStand`
(`FollowsRaffle`), `RetiredWasGone` (`FollowsMirror`).

Only model-checked: every liveness property (temporal proofs under fairness need
`ENABLED`, which the proof system does not handle), and with them the fairness of
the abstract modules, which have none: a refinement here is of safety. Every
safety property a passing run checks is also the subject of a theorem, and no
theorem has a hypothesis that is not a named assumption of its module.

## 6. Where the code and its own words part

Two runs show a disagreement and expect the violation:

- **A counterparty can hold your deposit** (`escrow_locked`). `refund()` returns
  both escrows in one transaction and panics if either refund receiver is
  unusable, so one party's dead receiver blocks cancel and reclaim for both; the
  contract header says no NFT can be locked indefinitely. `ExpiryReleases` is
  the promise that does hold: if *both* receivers stay valid, the trade closes.
- **Edits bump the version last** (`room_held`). Both sides can accept the old
  version number of a half-written proposal, and lock it. The last word is the
  wallet's: a signature is asked for the voucher of the room as it is, and the
  chain executes it whole or not at all.

Others were met while modelling. They are behaviours of the models, and their
negations were checked and found violated, but no run is kept for them; the
property in brackets is what holds instead.

- `touch()` writes the status it loaded (`lib/trade-room/store.ts:207`), so an
  edit in flight revives a cancelled room, where the test says "sealed and
  cancelled are terminal" (`__tests__/trade-room-store.test.ts:201`). By the same
  line it puts a room both have joined back to `open`, from where `accept` never
  locks it. [`FollowsAgreement`: only an `Edit`, hence as
  another version, does that.]
- The lock of `accept` looks at the version and not at the acceptances
  (`store.ts:350`): a side that withdraws between the other's load and its lock
  leaves a room accepted by one, where the migration says "accepted: both
  accepted the current version" (`20261031174000`, 28-29).
  [`FollowsAgreement`: both have consented to that version *at some time*.]
- A seal needs no swap of the room. `sealed` checks that the moments sit on their
  new sides and that the id it is given has 64 hex digits
  (`app/api/trade-room/[code]/route.ts:389-405`, `lib/trade-room/store.ts:408`); no
  relay need exist and none is asked, so a room whose collectors gave each other
  the moments by other means, before or after accepting, is sealed with whatever id
  a client sends. The route's comment "the seal is a CHAIN fact, not a claim"
  (`route.ts:395`) is right of the holdings and not of the transaction. A report
  that loaded an earlier version may likewise seal a later one, whose items it has
  not looked at. [`SealedIsHandedOver`: the goods the report names did change hands;
  `FollowsAgreement`: and the room was agreed.]
- Two reports that both loaded the room unsealed both write it, and the later id
  stays, against "a second `sealed` never overwrites the first" (`route.ts:392`).
- A proposal can land on a dead post: `propose` looks at the listing's status
  several reads before it inserts (`lib/trade-block/store.ts:738`, `:776`), and a
  close in between declines what is pending (`:522`) and misses the newcomer.
- A moment can be listed twice: the duplicate check (`store.ts:440`) is a read,
  and lines are inserted later (`:464`). [Of proposals, where an index guards it,
  `FollowsOffers` has the counterpart: no two of one author wait on one post.]
- A proposal is pending before it has lines: `propose` inserts the row
  (`store.ts:776`) and its lines afterwards (`:804`), so that the lister can see
  and accept it in between, with nothing for `decide` to judge, and a handler
  killed there leaves it so; the comment says "a proposal without its lines must
  not reach the lister" (`:806`). [`FollowsOffers`, `AcceptedRoomIsReady`: the room
  is still of the two, and nothing is in it that they do not put there.]
- Two ticks can park one sale twice (`sales-indexer/route.ts:1018`), against
  "idempotent" (`:156-158`): `unmapped_sales` has no key. [`FollowsReplica`; the
  drain's `ON CONFLICT` absorbs the double.]
- A watch is disarmed although the upsert ignored its row because the day's first
  firing has it already (`chase-alerts.ts:212`, against `:15-16`). [`SilentHasRow`.]
- A watch its owner saves again while the pass is between its upsert and its disarm
  is disarmed by id (`chase-alerts.ts:210-213`), whatever threshold the owner asked
  for, and the disarm's `updated_at` is older than the save it overwrites. Thresholds
  are not modelled, so this is the plain interleaving `Enqueue`, `SaveWatch`,
  `Disarm`. [`RichIsTold`: a watch *last written* by its owner is answered for that
  period or a later one.]
- The chase leg reads the first 1000 active watches by id, at every pass
  (`chase-alerts.ts:127-128`); the FMV leg reads any 200 of the alerts that do not
  rest (`20261027013447`, 57), in no order, and an alert whose condition is not met
  never leaves that choice. Beyond either number a subject may never be looked at.
  [`RichIsTold` asks that the watch be `Listed`, `AsksAreTold` that the leg can read
  every alert there is to read (`AllScanned`); without these both are violated in the
  instance of `alerts_outbox`.]
- One source whose Hybrid Custody link is gone refuses the whole plan (`not_parent`,
  `lib/giveaways/deliver.ts:119-121`), the moments of every other source included,
  and so does one recipient without a collection (`:147`); nothing else delivers
  them. [`EventuallyDelivered` excuses every moment of a drop while either is so
  (`WithinReach`); it holds of the plans made after the link is back.]
- A sale that a tick inserts while the drain runs is marked
  `sales_insert_vanished_unexplained` and left alone for 30 days
  (`20261004030511`, 484-507), although it *is* in `public.sales`; the drain after that
  resolves it. [`FollowsReplica`, `EventuallyPromoted`: nothing is lost by it.]
- "Absent means not held" of a stamped walk (`wmc-unseen-delete.ts:65`,
  migration `20260929061743`, 45) fails when a chunk of the upsert was lost, or
  when a claim failed open and two walks overlapped. [`CleanMeansGone`, which
  says so.]

Known windows no property is about: rows claimed by a run that is killed stay in
`sending`, with nothing to put them back (the liveness properties call them
stranded); an FMV threshold alert whose delivery was given up stays silent until
its condition is seen false; verification reads recipients before sources, so a
delivery in between is counted as missing until the next one; nothing keeps one
moment out of two drops' pools; a forced walk writes NULL over edition keys that
enrichment had filled; a Sponsor resource that is lost strands its unassigned
packs; a trade-room signature is stored on a status read earlier; limits on open
listings and pending proposals are counted before the insert; a cursor written
by a slow tick may move back, which costs a rescan and nothing else
(`EventuallyRecorded`).

## 7. What is not modelled, and why

- Inside the rooms: `createRoom`'s two inserts (`TradeRoom` starts when it has
  returned; `TradeBlock` has them, with the second side, as steps of `decide`),
  the update of `trade_rooms.collection` at the end of `setItems`
  (display only), the per-collection loop of the prune, the receivability and
  listing checks (they can only refuse, which `Fail` does), the execution kill
  switch, notifications and the prune cron.
- Inside the trade block: proving wallets (who holds what is a constant), wants,
  notes, matches, notices, the prune cron and the public views. The rooms it opens
  end where `TradeRoom` begins, in its initial state `Opened(guest)`.
- Inside the escrow: events and getters; amounts of computation.
- Inside the sales indexer: the branch of a first run, the Atlas lane, the drain's
  `LIMIT` (1000; a row promoted or blocked leaves it, but one that its map row
  resolves to an edition the catalogue lacks is a candidate and never promoted, and
  may keep its place), advisory lock and minimum gap; recovery of a price for a row
  parked with 0 (`Free` rows wait for good here, and no instance has one: they only
  take a sale out of the drain's sight, for which the theorems stand); the sibling
  indexers of other collections, which follow the same scheme with other tables.
- Inside the alerts: the deal leg, thresholds (a reading is met or not), the weekly digest, message texts.
- Inside the giveaways: prices and the value cap, the salt and hash, the order in
  a pack, the proof of a wallet at a claim, the public views; a sponsor who connects now one
  wallet and now another (`Parent` is constant: a plan of a wallet that cannot draw
  from the sources is refused and changes nothing).
- Inside the backfills: the All Day, Pinnacle and Top Shot runners, enrichment,
  the refresh of `last_seen_at`, the scan record, retries inside one call, the
  weekly prune.
- Inside the packs contract: `dropID`, `packNo` and `receiverPath`, which it only
  records; events and views.
- `lib/pipeline/upstream-breaker.ts`: one read of the last ten `pipeline_runs`
  rows and a decision, with no state of its own; a model would be its own
  definition over again.
- The components of the last row of the inventory: bulk ingestion, statistics,
  presentation and third-party calls. Their correctness is numeric or visual.

The map is a small share of the repository by lines. Most of the rest are pages,
read-only endpoints, statistics and one-off jobs - thousands of lines per file
without a state that survives the request or a step another actor can come
between - where a TLA+ module would restate the code without saying anything of
it.

## 8. Plan

1. Done: the escrow, the trade room, the trade block, the sales indexer, the
   alerts, the giveaways, the wallet backfill and the packs contract, each with its
   invariants proved.
2. Done: an abstract specification of each (`AtomicSwap`, `Agreement`, `Offers`,
   `Replica`, `Outbox`, `Raffle`, `Mirror`, `SealedGift`), each refinement checked and
   proved.
3. The sibling indexers as instances of one cursor module, and the Atlas lane: the
   same `Replica` with other tables.
4. The deal leg of the alerts: another way to `Write`.
