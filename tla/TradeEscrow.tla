---------------------------- MODULE TradeEscrow ----------------------------
(***************************************************************************)
(* The on-chain NFT-for-NFT swap escrow, cadence/contracts/                *)
(* RPCTradeEscrow.cdc.  Two parties each deposit the NFTs a trade commits  *)
(* them to; anyone may then execute the swap; a party may cancel; after    *)
(* expiry anyone may send everything back.                                 *)
(*                                                                         *)
(* A Cadence transaction is atomic: a failed pre-condition, assert or      *)
(* panic anywhere in it undoes the whole of it.  So each public entry      *)
(* point is ONE action, every check it makes (the ones of the functions it *)
(* calls included) is a conjunct, and a transaction that fails is no step. *)
(*                                                                         *)
(* Receivers are capabilities: `live' is the set of those whose borrow()   *)
(* succeeds now.  Their owners revoke and re-establish them at will, which *)
(* is what makes the swap's promises interesting.                          *)
(***************************************************************************)
EXTENDS Naturals, Sequences, FiniteSets, Functions

CONSTANTS
    Accounts,    \* Flow accounts
    Types,       \* NFT contracts (the Cadence run-time types of NFTs)
    Ids,         \* NFT ids; an id is unique within its type only
    Receivers,   \* receiver capabilities
    HolderOf,    \* the account a receiver deposits into
    Accepts,     \* the NFT types a receiver's deposit() takes
    NoReceiver,  \* nil
    IdLists,     \* the expectedIds arrays proposals may carry (dups allowed)
    MinExpiry,   \* MIN_EXPIRY_SECONDS
    MaxExpiry,   \* MAX_EXPIRY_SECONDS
    MaxTime,     \* bound: no block is later, no trade expires later
    MaxTrades    \* bound: trades proposed

ASSUME ReceiverAssumption ==
    /\ HolderOf \in [Receivers -> Accounts]
    /\ Accepts \in [Receivers -> SUBSET Types]
    /\ NoReceiver \notin Receivers

ASSUME IdListAssumption == IdLists \subseteq Seq(Ids)

ASSUME TimeAssumption ==
    /\ MinExpiry \in Nat \ {0}
    /\ MaxExpiry \in Nat
    /\ MaxTime \in Nat
    /\ MaxTrades \in Nat

Side == {"A", "B"}
Other(s) == IF s = "A" THEN "B" ELSE "A"

NFTs == [type : Types, id : Ids]
TradeIds == 1..MaxTrades

Trade == [party     : [Side -> Accounts],
          type      : [Side -> Types],
          expected  : [Side -> Seq(Ids)],
          expiresAt : Nat,
          refund    : [Side -> Receivers \cup {NoReceiver}],
          incoming  : [Side -> Receivers \cup {NoReceiver}],
          escrow    : [Side -> SUBSET NFTs]]

VARIABLES
    now,          \* getCurrentBlock().timestamp
    paused,
    nextTradeId,
    trades,       \* the Registry: live trade id -> Trade
    held,         \* account -> the NFTs in its own collections
    live          \* the receiver capabilities that borrow() finds valid

vars == <<now, paused, nextTradeId, trades, held, live>>

Open(i) == i \in DOMAIN trades

-----------------------------------------------------------------------------
(* Views of a trade. *)

Committed(t, s) == Range(t.expected[s])

IsExpired(t) == now >= t.expiresAt

IsPartyComplete(t, s) ==
    /\ t.incoming[s] # NoReceiver
    /\ t.refund[s] # NoReceiver
    /\ \A id \in Committed(t, s) : \E n \in t.escrow[s] : n.id = id

ReadyAnyTime(t) == \A s \in Side : IsPartyComplete(t, s)

IsReadyToExecute(t) ==
    /\ \A s \in Side : IsPartyComplete(t, s)
    /\ ~IsExpired(t)

(* A receiver's borrow() succeeds and its collection takes the type. *)
CanTake(r, type) == r \in live /\ type \in Accepts[r]

(* What each account holds once the NFTs out[s] have gone to to[s]. *)
Delivered(out, to) ==
    [a \in Accounts |->
        held[a] \cup {n \in NFTs : \E s \in Side :
                        n \in out[s] /\ HolderOf[to[s]] = a}]

-----------------------------------------------------------------------------
(* The entry points. *)

KeepId == UNCHANGED nextTradeId

TakeId == nextTradeId' = nextTradeId + 1

ProposeTrade(parties, types, lists, expiresAt) ==
    /\ ~paused
    /\ parties["A"] # parties["B"]
    /\ \E s \in Side : lists[s] # << >>
    /\ expiresAt >= now + MinExpiry
    /\ expiresAt <= now + MaxExpiry
    /\ nextTradeId <= MaxTrades
    /\ ~Open(nextTradeId)
    /\ TakeId
    /\ trades' =
        [i \in DOMAIN trades \cup {nextTradeId} |->
            IF i = nextTradeId
            THEN [party     |-> parties,
                  type      |-> types,
                  expected  |-> lists,
                  expiresAt |-> expiresAt,
                  refund    |-> [s \in Side |-> NoReceiver],
                  incoming  |-> [s \in Side |-> NoReceiver],
                  escrow    |-> [s \in Side |-> {}]]
            ELSE trades[i]]
    /\ UNCHANGED <<now, paused, held, live>>

(* depositSide() asserts this of each NFT it takes in.                     *)
AdmittedAnyType(t, s, n) ==
    /\ n.id \in Committed(t, s)
    /\ \A e \in t.escrow[s] : e.id # n.id

Admitted(t, s, n) ==
    /\ n.id \in Committed(t, s)
    /\ n.type = t.type[s]
    /\ \A e \in t.escrow[s] : e.id # n.id

(* The depositor's transaction withdraws the NFTs from its own collection  *)
(* and passes its own address.                                             *)
DepositToTrade(i, s, nfts, refund, incoming) ==
    /\ ~paused
    /\ Open(i)
    /\ LET t == trades[i] IN
        /\ ~IsExpired(t)
        /\ {refund, incoming} \subseteq live
        /\ nfts # {}
        /\ t.refund[s] = NoReceiver
        /\ nfts \subseteq held[t.party[s]]
        /\ \A n \in nfts : Admitted(t, s, n)
        /\ \A id \in Committed(t, s) :
            \E n \in t.escrow[s] \cup nfts : n.id = id
        /\ trades' = [trades EXCEPT ![i] =
                        [t EXCEPT !.escrow[s] = @ \cup nfts,
                                  !.refund[s] = refund,
                                  !.incoming[s] = incoming]]
        /\ held' = [held EXCEPT ![t.party[s]] = @ \ nfts]
    /\ UNCHANGED <<now, paused, nextTradeId, live>>

(* registry.remove(id), then destroy: what is still inside goes with it.   *)
RemoveTrade(i) == trades' = Restrict(trades, DOMAIN trades \ {i})

SettledOneSide(t) ==
    [s \in Side |-> IF s = "A" THEN t.escrow[s] ELSE {}]

(* settle() takes every expected id out of the escrow once.                *)
SettledNfts(t) ==
    [s \in Side |-> {n \in t.escrow[s] : n.id \in Committed(t, s)}]

(* An id listed twice is gone the second time, and the forced unwrap of    *)
(* settle()'s remove() panics.                                             *)
RemoveMayMiss(t, s) == TRUE

EveryRemoveFindsOne(t, s) == IsInjective(t.expected[s])

ExecuteSwap(i) ==
    /\ Open(i)
    /\ LET t == trades[i] IN
        /\ IsReadyToExecute(t)
        /\ \A s \in Side :
            /\ t.incoming[s] \in live
            /\ EveryRemoveFindsOne(t, s)
            /\ \A n \in SettledNfts(t)[s] :
                 CanTake(t.incoming[Other(s)], n.type)
        /\ held' = Delivered(SettledNfts(t),
                             [s \in Side |-> t.incoming[Other(s)]])
    /\ RemoveTrade(i)
    /\ UNCHANGED <<now, paused, nextTradeId, live>>

(* refund() gives each side's escrow to that side's refund receiver, or    *)
(* panics for both sides.                                                  *)
Refund(i) ==
    LET t == trades[i] IN
    /\ \A s \in Side : \A n \in t.escrow[s] : CanTake(t.refund[s], n.type)
    /\ held' = Delivered(t.escrow, t.refund)
    /\ RemoveTrade(i)
    /\ UNCHANGED <<now, paused, nextTradeId, live>>

CancelTrade(i, by) ==
    /\ Open(i)
    /\ \E s \in Side : by = trades[i].party[s]
    /\ Refund(i)

ReclaimUnlessPaused(i) ==
    /\ Open(i)
    /\ ~paused
    /\ IsExpired(trades[i])
    /\ Refund(i)

ReclaimExpired(i) ==
    /\ Open(i)
    /\ IsExpired(trades[i])
    /\ Refund(i)

SetPaused(b) ==
    /\ paused # b
    /\ paused' = b
    /\ UNCHANGED <<now, nextTradeId, trades, held, live>>

-----------------------------------------------------------------------------
(* The environment: blocks, capability owners, transfers outside escrow.   *)

Tick ==
    /\ now < MaxTime
    /\ now' = now + 1
    /\ UNCHANGED <<paused, nextTradeId, trades, held, live>>

RevokeReceiver(r) ==
    /\ r \in live
    /\ live' = live \ {r}
    /\ UNCHANGED <<now, paused, nextTradeId, trades, held>>

RestoreReceiver(r) ==
    /\ r \notin live
    /\ live' = live \cup {r}
    /\ UNCHANGED <<now, paused, nextTradeId, trades, held>>

TransferOutside(n, from, to) ==
    /\ from # to
    /\ n \in held[from]
    /\ held' = [held EXCEPT ![from] = @ \ {n}, ![to] = @ \cup {n}]
    /\ UNCHANGED <<now, paused, nextTradeId, trades, live>>

-----------------------------------------------------------------------------

Init ==
    /\ now = 0
    /\ paused = FALSE
    /\ nextTradeId = 1
    /\ trades = << >>
    /\ live = Receivers
    /\ \E home \in [NFTs -> Accounts] :
        held = [a \in Accounts |-> {n \in NFTs : home[n] = a}]

Next ==
    \/ \E parties \in [Side -> Accounts], types \in [Side -> Types],
          lists \in [Side -> IdLists], expiresAt \in 1..MaxTime :
            ProposeTrade(parties, types, lists, expiresAt)
    \/ \E i \in TradeIds, s \in Side, nfts \in SUBSET NFTs,
          refund \in Receivers, incoming \in Receivers :
            DepositToTrade(i, s, nfts, refund, incoming)
    \/ \E i \in TradeIds : ExecuteSwap(i)
    \/ \E i \in TradeIds, by \in Accounts : CancelTrade(i, by)
    \/ \E i \in TradeIds : ReclaimExpired(i)
    \/ \E b \in BOOLEAN : SetPaused(b)
    \/ Tick
    \/ \E r \in Receivers : RevokeReceiver(r) \/ RestoreReceiver(r)
    \/ \E n \in NFTs, from, to \in Accounts : TransferOutside(n, from, to)

Spec == Init /\ [][Next]_vars

(* Blocks keep coming, and the janitor keeps trying the expired trades:    *)
(* nobody is obliged to execute, cancel or re-establish a receiver.        *)
Fairness ==
    /\ WF_vars(Tick)
    /\ \A i \in TradeIds : WF_vars(ReclaimExpired(i))

FairSpec == Spec /\ Fairness

-----------------------------------------------------------------------------
(* Properties. *)

(* Every variable has its type; only ids already given out are live.       *)
TypeOK ==
    /\ now \in Nat
    /\ paused \in BOOLEAN
    /\ nextTradeId \in Nat \ {0}
    /\ DOMAIN trades \subseteq TradeIds
    /\ \A i \in DOMAIN trades : i < nextTradeId
    /\ \A i \in DOMAIN trades : trades[i] \in Trade
    /\ held \in [Accounts -> SUBSET NFTs]
    /\ live \subseteq Receivers

InEscrow(n, i, s) == Open(i) /\ n \in trades[i].escrow[s]

(* Every NFT is in one place only: one account's collection, or one side   *)
(* of one live trade ("Contract never owns NFTs outside an active Trade"). *)
OnePlace ==
    \A n \in NFTs :
        /\ \A a, b \in Accounts :
            n \in held[a] /\ n \in held[b] => a = b
        /\ \A i, j \in TradeIds, s, r \in Side :
            InEscrow(n, i, s) /\ InEscrow(n, j, r) => i = j /\ s = r
        /\ \A a \in Accounts, i \in TradeIds, s \in Side :
            n \in held[a] => ~InEscrow(n, i, s)

(* No NFT is ever destroyed with a trade resource or dropped on the way.   *)
NothingLost ==
    \A n \in NFTs :
        \/ \E a \in Accounts : n \in held[a]
        \/ \E i \in TradeIds, s \in Side : InEscrow(n, i, s)

(* Where an NFT is: conservation of the whole supply, over all trades.     *)
Conservation == OnePlace /\ NothingLost

NothingDeposited(t, s) ==
    /\ t.escrow[s] = {}
    /\ t.refund[s] = NoReceiver
    /\ t.incoming[s] = NoReceiver

AllDeposited(t, s) ==
    /\ t.escrow[s] = [type : {t.type[s]}, id : Committed(t, s)]
    /\ t.escrow[s] # {}
    /\ {t.refund[s], t.incoming[s]} \subseteq Receivers

(* A side's escrow is either empty with no receivers, or exactly the NFTs  *)
(* the trade committed that side to, of the committed type, with both      *)
(* receivers fixed: no bait-and-switch and no partial deposit.             *)
EscrowIsCommitment ==
    \A i \in DOMAIN trades, s \in Side :
        NothingDeposited(trades[i], s) \/ AllDeposited(trades[i], s)

(* A trade one side of which commits no NFT passes proposeTrade, but that  *)
(* side can never deposit its receivers, so the trade is never ready.      *)
OneSidedNeverReady ==
    \A i \in DOMAIN trades :
        (\E s \in Side : trades[i].expected[s] = << >>)
            => ~IsReadyToExecute(trades[i])

GoesTo(n, r) == n \in held'[HolderOf[r]]

HandedOver(t, s) ==
    {n \in t.escrow[s] : GoesTo(n, t.incoming[Other(s)])}

GivesItsLists(i) ==
    \A s \in Side :
        /\ Cardinality(HandedOver(trades[i], s)) = Len(trades[i].expected[s])
        /\ trades[i].expected[s] # << >>

SwapsGiveLists == \A i \in DOMAIN trades : ExecuteSwap(i) => GivesItsLists(i)

(* An executed swap hands over, from each side, as many NFTs as its list   *)
(* has entries and at least one: a list that is empty or names an id twice *)
(* passes proposeTrade and every check of depositToTrade, and must not buy *)
(* the counterparty's NFTs for fewer than it reads.                        *)
SwapsGiveWhatTheyList == [][SwapsGiveLists]_vars

(* What closing a trade may do: hand both whole bundles across, or both    *)
(* back, and touch no other NFT.                                           *)
ClosesWell(i) ==
    LET t == trades[i]
        all == t.escrow["A"] \cup t.escrow["B"] IN
    /\ \/ /\ ~IsExpired(t)
          /\ \A s \in Side : t.escrow[s] # {}
          /\ \A s \in Side : \A n \in t.escrow[s] :
                GoesTo(n, t.incoming[Other(s)])
       \/ \A s \in Side : \A n \in t.escrow[s] : GoesTo(n, t.refund[s])
    /\ \A a \in Accounts : held'[a] \ all = held[a]

(* While it stays, nothing deposited in a trade moves and no receiver its  *)
(* depositor committed to changes.                                         *)
KeepsDeposits(i) ==
    \A s \in Side : trades[i].escrow[s] # {} =>
        /\ trades'[i].escrow[s] = trades[i].escrow[s]
        /\ trades'[i].refund[s] = trades[i].refund[s]
        /\ trades'[i].incoming[s] = trades[i].incoming[s]

ClosesOrKeeps ==
    \A i \in DOMAIN trades :
        IF i \in DOMAIN trades' THEN KeepsDeposits(i) ELSE ClosesWell(i)

(* A trade leaves the registry only by swapping both whole sides, before   *)
(* its expiry, or by returning each side to its own refund receiver; until *)
(* then what was deposited stays put.                                      *)
AllOrNothing == [][ClosesOrKeeps]_vars

Refundable(i) ==
    Open(i) => \A s \in Side : \A n \in trades[i].escrow[s] :
                    CanTake(trades[i].refund[s], n.type)

(* Recovery needs no co-operation and no unpaused contract: a trade whose  *)
(* refund receivers all stay valid from some point on does not stay open.  *)
ExpiryReleases ==
    \A i \in TradeIds : <>[]Refundable(i) => (Open(i) ~> ~Open(i))

SideRefundable(i, s) ==
    Open(i) => \A n \in trades[i].escrow[s] : CanTake(trades[i].refund[s], n.type)

Deposited(i, s) == Open(i) /\ trades[i].escrow[s] # {}

(* The contract header: "Stuck trades reclaimable by anyone after          *)
(* expiresAt. No NFT can be locked indefinitely."  For a side whose own    *)
(* refund receiver stays valid that means: what it deposited comes out.    *)
NoSideLockedForever ==
    \A i \in TradeIds, s \in Side :
        <>[]SideRefundable(i, s) => (Deposited(i, s) ~> ~Deposited(i, s))
=============================================================================
