------------------------- MODULE TradeEscrowProofs -------------------------
(***************************************************************************)
(* Proofs that the safety invariants of TradeEscrow hold for any accounts, *)
(* NFTs, receivers and commitments, and any number of trades.              *)
(*                                                                         *)
(* The inductive invariant is the conjunction of the type invariant, the   *)
(* conservation of the supply and EscrowIsCommitment.  Conservation alone  *)
(* is not inductive: settle() hands over the NFTs whose ids are expected   *)
(* and destroys the rest of the escrow, so nothing is lost only because an *)
(* escrow holds exactly what its side committed.                           *)
(***************************************************************************)
EXTENDS TradeEscrowRefinement, FiniteSetTheorems, TLAPS

IInv == TypeOK /\ Conservation /\ EscrowIsCommitment

-----------------------------------------------------------------------------
(* Facts about the helpers. *)

(* The two sides, and that Other swaps them. *)
LEMMA SideFacts ==
    /\ "A" \in Side /\ "B" \in Side
    /\ \A s \in Side : Other(s) \in Side /\ Other(s) # s /\ Other(Other(s)) = s
    /\ \A s, r \in Side : s # r => r = Other(s)
  BY DEF Side, Other

(* Removing a trade keeps every other one as it is. *)
LEMMA RemoveTradeFacts ==
    ASSUME NEW i, RemoveTrade(i)
    PROVE  /\ DOMAIN trades' = DOMAIN trades \ {i}
           /\ \A j \in DOMAIN trades' : trades'[j] = trades[j]
  BY DEF RemoveTrade, Restrict

(* An account has, after a delivery, what it had and what went to it. *)
LEMMA DeliveredFacts ==
    ASSUME TypeOK, NEW out \in [Side -> SUBSET NFTs], NEW to
    PROVE  /\ Delivered(out, to) \in [Accounts -> SUBSET NFTs]
           /\ \A a \in Accounts, n \in NFTs :
                n \in Delivered(out, to)[a] <=>
                    \/ n \in held[a]
                    \/ \E s \in Side : n \in out[s] /\ HolderOf[to[s]] = a
  BY DEF TypeOK, Delivered

(* The fields of a live trade. *)
LEMMA TradeFields ==
    ASSUME TypeOK, NEW i \in DOMAIN trades
    PROVE  /\ trades[i] \in Trade
           /\ trades[i].escrow \in [Side -> SUBSET NFTs]
           /\ trades[i].refund \in [Side -> Receivers \cup {NoReceiver}]
           /\ trades[i].incoming \in [Side -> Receivers \cup {NoReceiver}]
           /\ trades[i].party \in [Side -> Accounts]
           /\ trades[i].type \in [Side -> Types]
           /\ trades[i].expected \in [Side -> Seq(Ids)]
  BY DEF TypeOK, Trade

(* A fully deposited side settles with everything it has in escrow. *)
LEMMA SettledIsEscrow ==
    ASSUME IInv, NEW i \in DOMAIN trades
    PROVE  SettledNfts(trades[i]) \in [Side -> SUBSET NFTs]
           /\ \A s \in Side : SettledNfts(trades[i])[s] = trades[i].escrow[s]
  <1>1. \A s \in Side : trades[i].escrow[s] \subseteq NFTs
    BY TradeFields DEF IInv
  <1>2. ASSUME NEW s \in Side, NEW n \in trades[i].escrow[s]
        PROVE  n.id \in Committed(trades[i], s)
    <2>1. \/ trades[i].escrow[s] = {}
          \/ trades[i].escrow[s] =
                [type : {trades[i].type[s]}, id : Committed(trades[i], s)]
      BY DEF IInv, EscrowIsCommitment, NothingDeposited, AllDeposited
    <2>2. n \in [type : {trades[i].type[s]}, id : Committed(trades[i], s)]
      BY <1>2, <2>1
    <2>. QED
      BY <2>2
  <1>. QED
    BY <1>1, <1>2 DEF SettledNfts

-----------------------------------------------------------------------------
(* The invariant and the steps that move NFTs. *)

(* A new trade holds nothing. *)
LEMMA ProposeKeepsInv ==
    ASSUME IInv,
           NEW parties \in [Side -> Accounts], NEW types \in [Side -> Types],
           NEW lists \in [Side -> IdLists], NEW expiresAt \in 1..MaxTime,
           ProposeTrade(parties, types, lists, expiresAt)
    PROVE  IInv'
  <1> DEFINE new == trades'[nextTradeId]
  <1>1. /\ DOMAIN trades' = DOMAIN trades \cup {nextTradeId}
        /\ nextTradeId \notin DOMAIN trades
        /\ \A i \in DOMAIN trades : trades'[i] = trades[i]
        /\ UNCHANGED <<now, paused, held, live>>
        /\ nextTradeId' = nextTradeId + 1
    BY DEF ProposeTrade, TakeId, Open
  <1>2. new = [party     |-> parties,
               type      |-> types,
               expected  |-> lists,
               expiresAt |-> expiresAt,
               refund    |-> [s \in Side |-> NoReceiver],
               incoming  |-> [s \in Side |-> NoReceiver],
               escrow    |-> [s \in Side |-> {}]]
    BY DEF ProposeTrade
  <1>3. new \in Trade
    <2>1. lists \in [Side -> Seq(Ids)] /\ expiresAt \in Nat
      BY IdListAssumption, TimeAssumption
    <2>. QED
      BY <1>2, <2>1 DEF Trade
  <1>4. \A s \in Side : /\ new.escrow[s] = {}
                        /\ new.refund[s] = NoReceiver
                        /\ new.incoming[s] = NoReceiver
    BY <1>2
  <1>5. TypeOK'
    BY <1>1, <1>3 DEF IInv, TypeOK, ProposeTrade, TradeIds
  <1>6. Conservation'
    <2>1. \A n \in NFTs, i \in TradeIds, s \in Side :
            InEscrow(n, i, s)' <=> InEscrow(n, i, s)
      BY <1>1, <1>4 DEF InEscrow, Open
    <2>2. OnePlace'
      BY <1>1, <2>1 DEF IInv, Conservation, OnePlace
    <2>3. NothingLost'
      BY <1>1, <2>1 DEF IInv, Conservation, NothingLost
    <2>. QED
      BY <2>2, <2>3 DEF Conservation
  <1>7. EscrowIsCommitment'
    <2>1. ASSUME NEW i \in DOMAIN trades', NEW s \in Side
          PROVE  NothingDeposited(trades'[i], s) \/ AllDeposited(trades'[i], s)
      <3>1. CASE i = nextTradeId
        BY <1>4, <3>1 DEF NothingDeposited
      <3>2. CASE i \in DOMAIN trades
        BY <1>1, <3>2 DEF IInv, EscrowIsCommitment
      <3>. QED
        BY <1>1, <3>1, <3>2
    <2>. QED
      BY <2>1 DEF EscrowIsCommitment
  <1>. QED
    BY <1>5, <1>6, <1>7 DEF IInv

(* Side s of trade i goes from nothing to its whole commitment. *)
FillsSide(i, s, nfts, refund, incoming) ==
    /\ i \in DOMAIN trades
    /\ DOMAIN trades' = DOMAIN trades
    /\ \A j \in DOMAIN trades \ {i} : trades'[j] = trades[j]
    /\ trades'[i] \in Trade
    /\ trades'[i].expected = trades[i].expected
    /\ trades'[i].type = trades[i].type
    /\ \A r \in Side \ {s} :
         /\ trades'[i].escrow[r] = trades[i].escrow[r]
         /\ trades'[i].refund[r] = trades[i].refund[r]
         /\ trades'[i].incoming[r] = trades[i].incoming[r]
    /\ trades[i].escrow[s] = {} /\ trades'[i].escrow[s] = nfts
    /\ trades'[i].refund[s] = refund
    /\ trades'[i].incoming[s] = incoming
    /\ nfts # {}
    /\ nfts = [type : {trades[i].type[s]}, id : Committed(trades[i], s)]
    /\ UNCHANGED <<now, paused, nextTradeId, live>>

(* nfts leave account p's collections and nothing else moves. *)
TakesFrom(p, nfts) ==
    /\ nfts \subseteq held[p]
    /\ held' \in [Accounts -> SUBSET NFTs]
    /\ \A a \in Accounts, n \in NFTs :
         n \in held'[a] <=> n \in held[a] /\ ~(a = p /\ n \in nfts)

(* What a deposit takes in leaves the depositor's collections.             *)
LEMMA DepositTakes ==
    ASSUME IInv, NEW i, NEW s \in Side, NEW nfts \in SUBSET NFTs,
           NEW refund \in Receivers, NEW incoming \in Receivers,
           DepositToTrade(i, s, nfts, refund, incoming)
    PROVE  \E p \in Accounts : TakesFrom(p, nfts)
  <1> DEFINE p == trades[i].party[s]
  <1>1. /\ i \in DOMAIN trades
        /\ nfts \subseteq held[p]
        /\ held' = [held EXCEPT ![p] = @ \ nfts]
    BY DEF DepositToTrade, Open
  <1>2. p \in Accounts
    BY <1>1, TradeFields DEF IInv
  <1>3. held \in [Accounts -> SUBSET NFTs]
    BY DEF IInv, TypeOK
  <1> HIDE DEF p
  <1>4. /\ held' \in [Accounts -> SUBSET NFTs]
        /\ \A a \in Accounts, n \in NFTs : n \in held'[a] <=>
                n \in held[a] /\ ~(a = p /\ n \in nfts)
    BY <1>1, <1>2, <1>3
  <1>. QED
    BY <1>1, <1>2, <1>4 DEF TakesFrom

(* A deposit changes one side of one trade, from nothing to its commitment. *)
LEMMA DepositFacts ==
    ASSUME IInv, NEW i, NEW s \in Side, NEW nfts \in SUBSET NFTs,
           NEW refund \in Receivers, NEW incoming \in Receivers,
           DepositToTrade(i, s, nfts, refund, incoming)
    PROVE  FillsSide(i, s, nfts, refund, incoming)
  <1> DEFINE t == trades[i]
  <1>1. /\ i \in DOMAIN trades
        /\ t.refund[s] = NoReceiver
        /\ nfts # {}
        /\ nfts \subseteq held[t.party[s]]
        /\ held' = [held EXCEPT ![t.party[s]] = @ \ nfts]
        /\ trades' = [trades EXCEPT ![i] =
                        [t EXCEPT !.escrow[s] = @ \cup nfts,
                                  !.refund[s] = refund,
                                  !.incoming[s] = incoming]]
        /\ UNCHANGED <<now, paused, nextTradeId, live>>
    BY DEF DepositToTrade, Open
  <1>2. /\ \A n \in nfts : Admitted(t, s, n)
        /\ \A id \in Committed(t, s) : \E n \in t.escrow[s] \cup nfts : n.id = id
    BY DEF DepositToTrade
  <1>3. /\ t \in Trade
        /\ t.party[s] \in Accounts
        /\ t.type \in [Side -> Types]
        /\ t.escrow \in [Side -> SUBSET NFTs]
        /\ t.refund \in [Side -> Receivers \cup {NoReceiver}]
        /\ t.incoming \in [Side -> Receivers \cup {NoReceiver}]
    BY <1>1, TradeFields DEF IInv
  <1>4. t.escrow[s] = {}
    BY <1>1, ReceiverAssumption
       DEF IInv, EscrowIsCommitment, NothingDeposited, AllDeposited
  <1>5. nfts = [type : {t.type[s]}, id : Committed(t, s)]
    <2>1. ASSUME NEW n \in nfts
          PROVE  n \in [type : {t.type[s]}, id : Committed(t, s)]
      <3>1. n \in [type : Types, id : Ids]
        BY DEF NFTs
      <3>2. n.id \in Committed(t, s) /\ n.type = t.type[s]
        BY <1>2 DEF Admitted
      <3>3. n = [type |-> n.type, id |-> n.id]
        BY <3>1
      <3>. QED
        BY <3>2, <3>3
    <2>2. ASSUME NEW n \in [type : {t.type[s]}, id : Committed(t, s)]
          PROVE  n \in nfts
      <3>1. PICK m \in nfts : m.id = n.id
        BY <1>2, <1>4
      <3>2. m.type = n.type
        BY <1>2 DEF Admitted
      <3>3. m = [type |-> m.type, id |-> m.id] /\ n = [type |-> n.type, id |-> n.id]
        BY DEF NFTs
      <3>. QED
        BY <3>1, <3>2, <3>3
    <2>. QED
      BY <2>1, <2>2
  <1> DEFINE escrow == [t.escrow EXCEPT ![s] = nfts]
             refunds == [t.refund EXCEPT ![s] = refund]
             incomings == [t.incoming EXCEPT ![s] = incoming]
             u == [t EXCEPT !.escrow[s] = @ \cup nfts,
                            !.refund[s] = refund,
                            !.incoming[s] = incoming]
  <1>6. /\ DOMAIN trades' = DOMAIN trades
        /\ \A j \in DOMAIN trades \ {i} : trades'[j] = trades[j]
        /\ trades'[i] = u
    <2>1. trades' = [trades EXCEPT ![i] = u]
      BY <1>1
    <2> HIDE DEF u
    <2>. QED
      BY <1>1, <2>1
  <1>7. u = [t EXCEPT !.escrow = escrow, !.refund = refunds, !.incoming = incomings]
    <2>1. t.escrow[s] \cup nfts = nfts
      BY <1>4
    <2>. QED
      BY <2>1
  <1>8. /\ trades'[i].escrow = escrow
        /\ trades'[i].refund = refunds
        /\ trades'[i].incoming = incomings
        /\ trades'[i].expected = t.expected
        /\ trades'[i].type = t.type
        /\ trades'[i] \in Trade
    <2>1. /\ escrow \in [Side -> SUBSET NFTs]
          /\ refunds \in [Side -> Receivers \cup {NoReceiver}]
          /\ incomings \in [Side -> Receivers \cup {NoReceiver}]
      BY <1>3
    <2> HIDE DEF u, escrow, refunds, incomings, t
    <2>2. t = [party |-> t.party, type |-> t.type, expected |-> t.expected,
               expiresAt |-> t.expiresAt, refund |-> t.refund,
               incoming |-> t.incoming, escrow |-> t.escrow]
      BY <1>3 DEF Trade
    <2>3. u = [party |-> t.party, type |-> t.type, expected |-> t.expected,
               expiresAt |-> t.expiresAt, refund |-> refunds,
               incoming |-> incomings, escrow |-> escrow]
      BY <1>7, <2>2
    <2>4. u \in Trade
      BY <1>3, <2>1, <2>3 DEF Trade
    <2>. QED
      BY <1>6, <2>3, <2>4
  <1>9. /\ escrow[s] = nfts /\ refunds[s] = refund /\ incomings[s] = incoming
        /\ \A r \in Side \ {s} : /\ escrow[r] = t.escrow[r]
                                 /\ refunds[r] = t.refund[r]
                                 /\ incomings[r] = t.incoming[r]
    BY <1>3
  <1> HIDE DEF u, escrow, refunds, incomings
  <1>. QED
    BY <1>1, <1>3, <1>4, <1>5, <1>6, <1>8, <1>9 DEF FillsSide

(* A deposit moves NFTs from one account to one empty side of one trade. *)
LEMMA DepositKeepsInv ==
    ASSUME IInv, NEW i, NEW s \in Side, NEW nfts \in SUBSET NFTs,
           NEW refund \in Receivers, NEW incoming \in Receivers,
           DepositToTrade(i, s, nfts, refund, incoming)
    PROVE  IInv'
  <1> DEFINE t == trades[i]
  <1>0. FillsSide(i, s, nfts, refund, incoming)
    BY DepositFacts
  <1>1. /\ i \in DOMAIN trades
        /\ DOMAIN trades' = DOMAIN trades
        /\ \A j \in DOMAIN trades \ {i} : trades'[j] = trades[j]
        /\ trades'[i] \in Trade
        /\ now' = now /\ paused' = paused
        /\ nextTradeId' = nextTradeId /\ live' = live
    BY <1>0 DEF FillsSide
  <1>2. PICK p \in Accounts : TakesFrom(p, nfts)
    BY DepositTakes
  <1>3. /\ trades'[i].expected = t.expected
        /\ trades'[i].type = t.type
        /\ \A r \in Side \ {s} :
             /\ trades'[i].escrow[r] = t.escrow[r]
             /\ trades'[i].refund[r] = t.refund[r]
             /\ trades'[i].incoming[r] = t.incoming[r]
        /\ t.escrow[s] = {} /\ trades'[i].escrow[s] = nfts
    BY <1>0 DEF FillsSide
  <1>4. /\ trades'[i].refund[s] = refund
        /\ trades'[i].incoming[s] = incoming
        /\ nfts # {}
        /\ nfts = [type : {t.type[s]}, id : Committed(t, s)]
    BY <1>0 DEF FillsSide
  <1>5. TypeOK'
    <2>1. \A j \in DOMAIN trades' : trades'[j] \in Trade
      BY <1>1 DEF IInv, TypeOK
    <2>. QED
      BY <1>1, <1>2, <2>1 DEF IInv, TypeOK, TakesFrom
  <1>6. Conservation'
    <2>2. ASSUME NEW n \in NFTs, NEW j \in TradeIds, NEW r \in Side
          PROVE  InEscrow(n, j, r)' <=>
                    \/ InEscrow(n, j, r)
                    \/ j = i /\ r = s /\ n \in nfts
      BY <1>1, <1>3 DEF InEscrow, Open
    <2>3. i \in TradeIds
      BY <1>1 DEF IInv, TypeOK
    <2>4. ASSUME NEW n \in NFTs
          PROVE  /\ \A a, b \in Accounts : n \in held[a] /\ n \in held[b] => a = b
                 /\ \A j, k \in TradeIds, r, q \in Side :
                     InEscrow(n, j, r) /\ InEscrow(n, k, q) => j = k /\ r = q
                 /\ \A a \in Accounts, j \in TradeIds, r \in Side :
                     n \in held[a] => ~InEscrow(n, j, r)
      BY DEF IInv, Conservation, OnePlace
    <2>5. ASSUME NEW n \in NFTs
          PROVE  /\ \A a, b \in Accounts :
                     n \in held'[a] /\ n \in held'[b] => a = b
                 /\ \A j, k \in TradeIds, r, q \in Side :
                     InEscrow(n, j, r)' /\ InEscrow(n, k, q)' => j = k /\ r = q
                 /\ \A a \in Accounts, j \in TradeIds, r \in Side :
                     n \in held'[a] => ~InEscrow(n, j, r)'
      <3>1. CASE n \in nfts
        BY <1>2, <2>2, <2>4, <3>1 DEF TakesFrom
      <3>2. CASE n \notin nfts
        BY <1>2, <2>2, <2>4, <3>2 DEF TakesFrom
      <3>. QED
        BY <3>1, <3>2
    <2>6. OnePlace'
      BY <2>5 DEF OnePlace
    <2>7. NothingLost'
      BY <1>2, <2>2, <2>3 DEF IInv, Conservation, NothingLost, TakesFrom
    <2>. QED
      BY <2>6, <2>7 DEF Conservation
  <1>7. EscrowIsCommitment'
    <2>1. ASSUME NEW j \in DOMAIN trades', NEW r \in Side
          PROVE  NothingDeposited(trades'[j], r) \/ AllDeposited(trades'[j], r)
      <3>1. CASE j # i
        BY <1>1, <3>1 DEF IInv, EscrowIsCommitment
      <3>2. CASE j = i /\ r # s
        <4>1. NothingDeposited(t, r) \/ AllDeposited(t, r)
          BY <1>1 DEF IInv, EscrowIsCommitment
        <4>. QED
          BY <1>3, <3>2, <4>1 DEF NothingDeposited, AllDeposited, Committed
      <3>3. CASE j = i /\ r = s
        BY <1>3, <1>4, <3>3 DEF AllDeposited, Committed
      <3>. QED
        BY <3>1, <3>2, <3>3
    <2>. QED
      BY <2>1 DEF EscrowIsCommitment
  <1>. QED
    BY <1>5, <1>6, <1>7 DEF IInv

(* Trade i leaves the registry, and all of each side's escrow goes to the  *)
(* receiver `to' names for that side.                                      *)
ClosesWith(i, out, to) ==
    /\ i \in DOMAIN trades
    /\ out \in [Side -> SUBSET NFTs]
    /\ \A s \in Side : out[s] = trades[i].escrow[s]
    /\ \A s \in Side : out[s] # {} => to[s] \in Receivers
    /\ held' = Delivered(out, to)
    /\ RemoveTrade(i)
    /\ UNCHANGED <<now, paused, nextTradeId, live>>

(* Closing a trade keeps the invariant. *)
LEMMA CloseKeepsInv ==
    ASSUME IInv, NEW i, NEW out, NEW to, ClosesWith(i, out, to)
    PROVE  IInv'
  <1>1. /\ DOMAIN trades' = DOMAIN trades \ {i}
        /\ \A j \in DOMAIN trades' : trades'[j] = trades[j]
    BY RemoveTradeFacts DEF ClosesWith
  <1>2. /\ held' \in [Accounts -> SUBSET NFTs]
        /\ \A a \in Accounts, n \in NFTs :
             n \in held'[a] <=>
                \/ n \in held[a]
                \/ \E s \in Side : n \in out[s] /\ HolderOf[to[s]] = a
    BY DeliveredFacts DEF IInv, ClosesWith
  <1>3. TypeOK'
    BY <1>1, <1>2 DEF IInv, TypeOK, ClosesWith
  <1>4. EscrowIsCommitment'
    BY <1>1 DEF IInv, EscrowIsCommitment
  <1>5. Conservation'
    <2>1. ASSUME NEW n \in NFTs, NEW j \in TradeIds, NEW r \in Side
          PROVE  InEscrow(n, j, r)' <=> InEscrow(n, j, r) /\ j # i
      BY <1>1 DEF InEscrow, Open
    <2>2. i \in TradeIds
      BY DEF IInv, TypeOK, ClosesWith
    <2>3. \A n \in NFTs, s \in Side : n \in out[s] <=> InEscrow(n, i, s)
      BY DEF InEscrow, Open, ClosesWith
    <2>4. \A n \in NFTs, s \in Side : n \in out[s] => HolderOf[to[s]] \in Accounts
      BY ReceiverAssumption DEF ClosesWith
    <2>5. ASSUME NEW n \in NFTs
          PROVE  /\ \A a, b \in Accounts : n \in held[a] /\ n \in held[b] => a = b
                 /\ \A j, k \in TradeIds, r, q \in Side :
                     InEscrow(n, j, r) /\ InEscrow(n, k, q) => j = k /\ r = q
                 /\ \A a \in Accounts, j \in TradeIds, r \in Side :
                     n \in held[a] => ~InEscrow(n, j, r)
      BY DEF IInv, Conservation, OnePlace
    <2>6. ASSUME NEW n \in NFTs
          PROVE  /\ \A a, b \in Accounts :
                     n \in held'[a] /\ n \in held'[b] => a = b
                 /\ \A j, k \in TradeIds, r, q \in Side :
                     InEscrow(n, j, r)' /\ InEscrow(n, k, q)' => j = k /\ r = q
                 /\ \A a \in Accounts, j \in TradeIds, r \in Side :
                     n \in held'[a] => ~InEscrow(n, j, r)'
      BY <1>2, <2>1, <2>2, <2>3, <2>5
    <2>7. OnePlace'
      BY <2>6 DEF OnePlace
    <2>8. NothingLost'
      <3>1. ASSUME NEW n \in NFTs
            PROVE  \/ \E a \in Accounts : n \in held'[a]
                   \/ \E j \in TradeIds, r \in Side : InEscrow(n, j, r)'
        <4>1. CASE \E s \in Side : InEscrow(n, i, s)
          BY <1>2, <2>3, <2>4, <4>1
        <4>2. CASE ~\E s \in Side : InEscrow(n, i, s)
          BY <1>2, <2>1, <4>2 DEF IInv, Conservation, NothingLost
        <4>. QED
          BY <4>1, <4>2
      <3>. QED
        BY <3>1 DEF NothingLost
    <2>. QED
      BY <2>7, <2>8 DEF Conservation
  <1>. QED
    BY <1>3, <1>4, <1>5 DEF IInv

(* A swap needs both commitments and the clock, and sends each whole       *)
(* escrow to the counterparty's receiver.                                  *)
Swapped(t) == [s \in Side |-> t.incoming[Other(s)]]

LEMMA ExecuteFacts ==
    ASSUME IInv, NEW i \in TradeIds, ExecuteSwap(i)
    PROVE  /\ ClosesWith(i, SettledNfts(trades[i]), Swapped(trades[i]))
           /\ ~IsExpired(trades[i])
           /\ \A s \in Side : AllDeposited(trades[i], s)
  <1>1. i \in DOMAIN trades /\ IsReadyToExecute(trades[i])
    BY DEF ExecuteSwap, Open
  <1>2. \A s \in Side : AllDeposited(trades[i], s)
    BY <1>1 DEF IsReadyToExecute, IsPartyComplete, IInv, EscrowIsCommitment,
                NothingDeposited
  <1>3. \A s \in Side : Swapped(trades[i])[s] \in Receivers
    BY <1>2, SideFacts DEF AllDeposited, Swapped
  <1>4. /\ SettledNfts(trades[i]) \in [Side -> SUBSET NFTs]
        /\ \A s \in Side : SettledNfts(trades[i])[s] = trades[i].escrow[s]
    BY <1>1, SettledIsEscrow
  <1>5. /\ held' = Delivered(SettledNfts(trades[i]), Swapped(trades[i]))
        /\ RemoveTrade(i)
        /\ UNCHANGED <<now, paused, nextTradeId, live>>
    BY DEF ExecuteSwap, Swapped
  <1>. QED
    BY <1>1, <1>2, <1>3, <1>4, <1>5 DEF ClosesWith, IsReadyToExecute

(* A refund sends each escrow to its own side's refund receiver. *)
LEMMA RefundFacts ==
    ASSUME IInv, NEW i \in DOMAIN trades, Refund(i)
    PROVE  ClosesWith(i, trades[i].escrow, trades[i].refund)
  <1>1. \A s \in Side : trades[i].escrow[s] # {} => trades[i].refund[s] \in live
    BY DEF Refund, CanTake
  <1>. QED
    BY <1>1, TradeFields DEF Refund, IInv, TypeOK, ClosesWith

(* A transfer outside the escrow moves one NFT between two accounts. *)
LEMMA TransferKeepsInv ==
    ASSUME IInv, NEW n \in NFTs, NEW from \in Accounts, NEW to \in Accounts,
           TransferOutside(n, from, to)
    PROVE  IInv'
  <1>1. /\ held' \in [Accounts -> SUBSET NFTs]
        /\ \A a \in Accounts, m \in NFTs :
             m \in held'[a] <=> IF m = n THEN a = to \/ (a # from /\ m \in held[a])
                                        ELSE m \in held[a]
        /\ n \in held[from]
        /\ now' = now /\ paused' = paused /\ nextTradeId' = nextTradeId
        /\ trades' = trades /\ live' = live
    BY DEF TransferOutside, IInv, TypeOK
  <1>2. TypeOK'
    BY <1>1 DEF IInv, TypeOK
  <1>3. EscrowIsCommitment'
    BY <1>1 DEF IInv, EscrowIsCommitment
  <1>4. \A m \in NFTs, j \in TradeIds, r \in Side :
            InEscrow(m, j, r)' <=> InEscrow(m, j, r)
    BY <1>1 DEF InEscrow, Open
  <1>5. OnePlace'
    BY <1>1, <1>4 DEF IInv, Conservation, OnePlace
  <1>6. NothingLost'
    BY <1>1, <1>4 DEF IInv, Conservation, NothingLost
  <1>. QED
    BY <1>2, <1>3, <1>5, <1>6 DEF IInv, Conservation

(* The clock, the pause switch and the capabilities move no NFT. *)
LEMMA QuietKeepsInv ==
    ASSUME IInv, UNCHANGED <<nextTradeId, trades, held>>,
           now' \in Nat, paused' \in BOOLEAN, live' \subseteq Receivers
    PROVE  IInv'
  <1>1. TypeOK'
    BY DEF IInv, TypeOK
  <1>2. EscrowIsCommitment'
    BY DEF IInv, EscrowIsCommitment
  <1>3. \A m \in NFTs, j \in TradeIds, r \in Side :
            InEscrow(m, j, r)' <=> InEscrow(m, j, r)
    BY DEF InEscrow, Open
  <1>4. OnePlace'
    BY <1>3 DEF IInv, Conservation, OnePlace
  <1>5. NothingLost'
    BY <1>3 DEF IInv, Conservation, NothingLost
  <1>. QED
    BY <1>1, <1>2, <1>4, <1>5 DEF IInv, Conservation

-----------------------------------------------------------------------------

LEMMA InitEstablishesInv == Init => IInv
  <1> SUFFICES ASSUME Init PROVE IInv
    OBVIOUS
  <1>1. PICK home \in [NFTs -> Accounts] :
            held = [a \in Accounts |-> {n \in NFTs : home[n] = a}]
    BY DEF Init
  <1>2. DOMAIN trades = {}
    BY DEF Init
  <1>3. TypeOK
    <2>1. held \in [Accounts -> SUBSET NFTs]
      BY <1>1
    <2>2. now = 0 /\ paused = FALSE /\ nextTradeId = 1 /\ live = Receivers
      BY DEF Init
    <2>3. now \in Nat /\ paused \in BOOLEAN
      BY <2>2
    <2>4. nextTradeId \in Nat \ {0}
      BY <2>2
    <2>5. live \subseteq Receivers
      BY <2>2
    <2>6. \A i \in DOMAIN trades : trades[i] \in Trade /\ i < nextTradeId
      BY <1>2
    <2>. QED
      BY <1>2, <2>1, <2>3, <2>4, <2>5, <2>6 DEF TypeOK
  <1>4. Conservation
    BY <1>1, <1>2 DEF Conservation, OnePlace, NothingLost, InEscrow, Open
  <1>5. EscrowIsCommitment
    BY <1>2 DEF EscrowIsCommitment
  <1>. QED
    BY <1>3, <1>4, <1>5 DEF IInv

LEMMA NextKeepsInv == IInv /\ [Next]_vars => IInv'
  <1> SUFFICES ASSUME IInv, [Next]_vars PROVE IInv'
    OBVIOUS
  <1>1. ASSUME NEW parties \in [Side -> Accounts], NEW types \in [Side -> Types],
               NEW lists \in [Side -> IdLists], NEW expiresAt \in 1..MaxTime,
               ProposeTrade(parties, types, lists, expiresAt)
        PROVE  IInv'
    BY <1>1, ProposeKeepsInv
  <1>2. ASSUME NEW i \in TradeIds, NEW s \in Side, NEW nfts \in SUBSET NFTs,
               NEW refund \in Receivers, NEW incoming \in Receivers,
               DepositToTrade(i, s, nfts, refund, incoming)
        PROVE  IInv'
    BY <1>2, DepositKeepsInv
  <1>3. ASSUME NEW i \in TradeIds, ExecuteSwap(i)
        PROVE  IInv'
    BY <1>3, ExecuteFacts, CloseKeepsInv
  <1>4. ASSUME NEW i \in TradeIds, NEW by \in Accounts, CancelTrade(i, by)
        PROVE  IInv'
    BY <1>4, RefundFacts, CloseKeepsInv DEF CancelTrade, Open
  <1>5. ASSUME NEW i \in TradeIds, ReclaimExpired(i)
        PROVE  IInv'
    BY <1>5, RefundFacts, CloseKeepsInv DEF ReclaimExpired, Open
  <1>6. ASSUME NEW b \in BOOLEAN, SetPaused(b)
        PROVE  IInv'
    BY <1>6, QuietKeepsInv DEF SetPaused, IInv, TypeOK
  <1>7. ASSUME Tick
        PROVE  IInv'
    BY <1>7, QuietKeepsInv DEF Tick, IInv, TypeOK
  <1>8. ASSUME NEW r \in Receivers, RevokeReceiver(r) \/ RestoreReceiver(r)
        PROVE  IInv'
    BY <1>8, QuietKeepsInv DEF RevokeReceiver, RestoreReceiver, IInv, TypeOK
  <1>9. ASSUME NEW n \in NFTs, NEW from \in Accounts, NEW to \in Accounts,
               TransferOutside(n, from, to)
        PROVE  IInv'
    BY <1>9, TransferKeepsInv
  <1>10. CASE UNCHANGED vars
    BY <1>10, QuietKeepsInv DEF vars, IInv, TypeOK
  <1>. QED
    BY <1>1, <1>2, <1>3, <1>4, <1>5, <1>6, <1>7, <1>8, <1>9, <1>10 DEF Next

-----------------------------------------------------------------------------
(* The theorems. *)

(* The inductive invariant holds in every reachable state. *)
THEOREM Inductive == Spec => []IInv
  BY InitEstablishesInv, NextKeepsInv, PTL DEF Spec

(* Type correctness of the escrow contract's state. *)
THEOREM TypeCorrect == Spec => []TypeOK
<1>1. IInv => TypeOK
  BY DEF IInv
<1>. QED
  BY <1>1, Inductive, PTL

(* No NFT is lost or duplicated by any interleaving of trades: each is in  *)
(* exactly one collection or exactly one side's escrow.                    *)
THEOREM SupplyConserved == Spec => []Conservation
<1>1. IInv => Conservation
  BY DEF IInv
<1>. QED
  BY <1>1, Inductive, PTL

(* Escrows never hold part of a commitment, or anything else. *)
THEOREM EscrowAlwaysCommitment == Spec => []EscrowIsCommitment
<1>1. IInv => EscrowIsCommitment
  BY DEF IInv
<1>. QED
  BY <1>1, Inductive, PTL

(* A trade with a side that commits nothing is accepted but can never be   *)
(* executed.                                                               *)
THEOREM OneSidedTradesNeverReady == Spec => []OneSidedNeverReady
<1>1. IInv => OneSidedNeverReady
  <2> SUFFICES ASSUME IInv, NEW i \in DOMAIN trades, NEW s \in Side,
                      trades[i].expected[s] = << >>
               PROVE  ~IsReadyToExecute(trades[i])
    BY DEF OneSidedNeverReady
  <2>1. Committed(trades[i], s) = {}
    BY DEF Committed, Range
  <2>2. ~AllDeposited(trades[i], s)
    <3>1. [type : {trades[i].type[s]}, id : {}] = {}
      OBVIOUS
    <3>. QED
      BY <2>1, <3>1 DEF AllDeposited
  <2>3. trades[i].refund[s] = NoReceiver
    BY <2>2 DEF IInv, EscrowIsCommitment, NothingDeposited
  <2>. QED
    BY <2>3 DEF IsReadyToExecute, IsPartyComplete
<1>. QED
  BY <1>1, Inductive, PTL

(* The NFTs of one type whose ids are a list without repetitions are as    *)
(* many as the list has entries.                                           *)
LEMMA BundleSize ==
    ASSUME NEW ty, NEW list \in Seq(Ids), IsInjective(list)
    PROVE  Cardinality([type : {ty}, id : Range(list)]) = Len(list)
  <1> DEFINE bundle == [type : {ty}, id : Range(list)]
             nth == [k \in 1..Len(list) |-> [type |-> ty, id |-> list[k]]]
  <1>1. DOMAIN list = 1..Len(list) /\ Len(list) \in Nat
    OBVIOUS
  <1>2. nth \in [1..Len(list) -> bundle]
    BY <1>1 DEF Range
  <1>3. \A k, l \in 1..Len(list) : nth[k] = nth[l] => k = l
    <2>1. \A k \in 1..Len(list) : nth[k].id = list[k]
      OBVIOUS
    <2>. QED
      BY <1>1, <2>1 DEF IsInjective
  <1>4. ASSUME NEW n \in bundle
        PROVE  \E k \in 1..Len(list) : nth[k] = n
    <2>1. n.type = ty /\ n.id \in Range(list) /\ n = [type |-> n.type, id |-> n.id]
      OBVIOUS
    <2>2. PICK k \in 1..Len(list) : list[k] = n.id
      BY <1>1, <2>1 DEF Range
    <2>. QED
      BY <2>1, <2>2
  <1> HIDE DEF nth, bundle
  <1>5. nth \in Bijection(1..Len(list), bundle)
    <2>1. DOMAIN nth = 1..Len(list)
      BY <1>2
    <2>. QED
      BY <1>2, <1>3, <1>4, <2>1 DEF Bijection, Injection, Surjection, IsInjective
  <1>6. IsFiniteSet(1..Len(list)) /\ Cardinality(1..Len(list)) = Len(list)
    BY <1>1, FS_Interval
  <1>7. ExistsBijection(1..Len(list), bundle)
    BY <1>5 DEF ExistsBijection
  <1>8. Cardinality(bundle) = Cardinality(1..Len(list))
    BY <1>6, <1>7, FS_Bijection
  <1>. QED
    BY <1>6, <1>8 DEF bundle

(* What an executed swap hands over from a side is that side's escrow. *)
LEMMA SwapHandsOverAll ==
    ASSUME IInv, NEW i \in TradeIds, ExecuteSwap(i), NEW s \in Side
    PROVE  HandedOver(trades[i], s) = trades[i].escrow[s]
  <1> DEFINE t == trades[i]
  <1>1. /\ ClosesWith(i, SettledNfts(t), Swapped(t))
        /\ AllDeposited(t, Other(s))
    BY ExecuteFacts, SideFacts
  <1>2. /\ SettledNfts(t) \in [Side -> SUBSET NFTs]
        /\ SettledNfts(t)[s] = t.escrow[s]
        /\ held' = Delivered(SettledNfts(t), Swapped(t))
    BY <1>1 DEF ClosesWith
  <1>3. /\ Swapped(t)[s] = t.incoming[Other(s)]
        /\ HolderOf[t.incoming[Other(s)]] \in Accounts
    BY <1>1, ReceiverAssumption DEF Swapped, AllDeposited
  <1>4. \A n \in t.escrow[s] : n \in held'[HolderOf[t.incoming[Other(s)]]]
    BY <1>2, <1>3, DeliveredFacts DEF IInv
  <1>. QED
    BY <1>4 DEF HandedOver, GoesTo

(* No list with a repeated id and no empty list is ever executed: a swap   *)
(* gives, on each side, what its list reads.                               *)
THEOREM SwapsHandOverTheirLists == Spec => SwapsGiveWhatTheyList
<1>1. ASSUME IInv, [Next]_vars, NEW i \in DOMAIN trades, ExecuteSwap(i),
             NEW s \in Side
      PROVE  /\ Cardinality(HandedOver(trades[i], s)) = Len(trades[i].expected[s])
             /\ trades[i].expected[s] # << >>
  <2> DEFINE list == trades[i].expected[s]
             ty == trades[i].type[s]
  <2>1. i \in TradeIds /\ list \in Seq(Ids)
    BY <1>1, TradeFields DEF IInv, TypeOK
  <2>2. IsInjective(list)
    BY <1>1 DEF ExecuteSwap, EveryRemoveFindsOne
  <2>3. AllDeposited(trades[i], s)
    BY <1>1, <2>1, ExecuteFacts
  <2>4. HandedOver(trades[i], s) = [type : {ty}, id : Range(list)]
    BY <1>1, <2>1, <2>3, SwapHandsOverAll DEF AllDeposited, Committed
  <2>5. list # << >>
    <3>1. [type : {ty}, id : Range(list)] # {}
      BY <2>3 DEF AllDeposited, Committed
    <3>2. Range(list) # {}
      BY <3>1
    <3>. QED
      BY <3>2 DEF Range
  <2> HIDE DEF list, ty
  <2>6. Cardinality([type : {ty}, id : Range(list)]) = Len(list)
    BY <2>1, <2>2, BundleSize
  <2>. QED
    BY <2>4, <2>5, <2>6 DEF list
<1>2. IInv /\ [Next]_vars => [SwapsGiveLists]_vars
  BY <1>1 DEF SwapsGiveLists, GivesItsLists
<1>. QED
  BY <1>2, Inductive, PTL DEF Spec, SwapsGiveWhatTheyList

(* Closing with both escrows exchanged, or both returned, is closing well. *)
LEMMA CloseIsWell ==
    ASSUME IInv, NEW i, NEW out, NEW to, ClosesWith(i, out, to),
           \/ /\ to = Swapped(trades[i])
              /\ ~IsExpired(trades[i])
              /\ \A s \in Side : AllDeposited(trades[i], s)
           \/ to = trades[i].refund
    PROVE  ClosesOrKeeps
  <1> DEFINE t == trades[i]
             all == t.escrow["A"] \cup t.escrow["B"]
  <1>1. /\ DOMAIN trades' = DOMAIN trades \ {i}
        /\ \A j \in DOMAIN trades' : trades'[j] = trades[j]
    BY RemoveTradeFacts DEF ClosesWith
  <1>2. /\ i \in DOMAIN trades
        /\ \A s \in Side : t.escrow[s] \subseteq NFTs /\ out[s] = t.escrow[s]
    BY DEF ClosesWith
  <1>3. /\ held' \in [Accounts -> SUBSET NFTs]
        /\ \A a \in Accounts, n \in NFTs :
             n \in held'[a] <=>
                \/ n \in held[a]
                \/ \E s \in Side : n \in out[s] /\ HolderOf[to[s]] = a
    BY DeliveredFacts DEF IInv, ClosesWith
  <1>4. \A s \in Side : \A n \in t.escrow[s] : GoesTo(n, to[s])
    BY <1>2, <1>3, ReceiverAssumption DEF ClosesWith, GoesTo
  <1>5. \A a \in Accounts : held'[a] \ all = held[a]
    <2>1. held \in [Accounts -> SUBSET NFTs]
      BY DEF IInv, TypeOK
    <2>2. ASSUME NEW a \in Accounts, NEW n \in held[a]
          PROVE  n \notin all
      <3>1. i \in TradeIds /\ "A" \in Side /\ "B" \in Side
        BY <1>2, SideFacts DEF IInv, TypeOK
      <3>2. ~InEscrow(n, i, "A") /\ ~InEscrow(n, i, "B")
        BY <2>1, <3>1 DEF IInv, Conservation, OnePlace
      <3>. QED
        BY <1>2, <3>2 DEF InEscrow, Open
    <2>3. \A n \in NFTs : (\E s \in Side : n \in out[s]) => n \in all
      BY <1>2 DEF Side
    <2>. QED
      BY <1>3, <2>1, <2>2, <2>3
  <1>6. ClosesWell(i)
    <2>1. CASE to = t.refund
      BY <1>4, <1>5, <2>1 DEF ClosesWell
    <2>2. CASE /\ to = Swapped(t)
               /\ ~IsExpired(t)
               /\ \A s \in Side : AllDeposited(t, s)
      <3>1. \A s \in Side : t.escrow[s] # {}
        BY <2>2 DEF AllDeposited
      <3>2. \A s \in Side : to[s] = t.incoming[Other(s)]
        BY <2>2 DEF Swapped
      <3>3. \A s \in Side : \A n \in t.escrow[s] : GoesTo(n, t.incoming[Other(s)])
        BY <1>4, <3>2
      <3>. QED
        BY <1>5, <2>2, <3>1, <3>3 DEF ClosesWell
    <2>. QED
      BY <2>1, <2>2
  <1>. QED
    BY <1>1, <1>6 DEF ClosesOrKeeps, KeepsDeposits

(* The other steps close no trade and disturb no deposit. *)
LEMMA KeepIsWell ==
    ASSUME IInv, DOMAIN trades \subseteq DOMAIN trades',
           \A i \in DOMAIN trades : trades'[i] = trades[i]
    PROVE  ClosesOrKeeps
  BY DEF ClosesOrKeeps, KeepsDeposits

(* Whatever the parties, anyone else, the pause switch and the capability  *)
(* owners do, a deposit stays in its trade until the trade closes by a     *)
(* complete swap or a complete refund.                                     *)
THEOREM SwapsAreAllOrNothing == Spec => AllOrNothing
<1>1. IInv /\ [Next]_vars => [ClosesOrKeeps]_vars
  <2> SUFFICES ASSUME IInv, Next PROVE ClosesOrKeeps
    OBVIOUS
  <2>1. ASSUME NEW parties \in [Side -> Accounts], NEW types \in [Side -> Types],
               NEW lists \in [Side -> IdLists], NEW expiresAt \in 1..MaxTime,
               ProposeTrade(parties, types, lists, expiresAt)
        PROVE  ClosesOrKeeps
    BY <2>1, KeepIsWell DEF ProposeTrade, Open
  <2>2. ASSUME NEW i \in TradeIds, NEW s \in Side, NEW nfts \in SUBSET NFTs,
               NEW refund \in Receivers, NEW incoming \in Receivers,
               DepositToTrade(i, s, nfts, refund, incoming)
        PROVE  ClosesOrKeeps
    <3>1. FillsSide(i, s, nfts, refund, incoming)
      BY <2>2, DepositFacts
    <3>. QED
      BY <3>1 DEF FillsSide, ClosesOrKeeps, KeepsDeposits
  <2>3. ASSUME NEW i \in TradeIds, ExecuteSwap(i)
        PROVE  ClosesOrKeeps
    BY <2>3, ExecuteFacts, CloseIsWell
  <2>4. ASSUME NEW i \in DOMAIN trades, Refund(i)
        PROVE  ClosesOrKeeps
    BY <2>4, RefundFacts, CloseIsWell
  <2>5. ASSUME NEW i \in TradeIds, NEW by \in Accounts, CancelTrade(i, by)
        PROVE  ClosesOrKeeps
    BY <2>4, <2>5 DEF CancelTrade, Open
  <2>6. ASSUME NEW i \in TradeIds, ReclaimExpired(i)
        PROVE  ClosesOrKeeps
    BY <2>4, <2>6 DEF ReclaimExpired, Open
  <2>7. ASSUME UNCHANGED trades
        PROVE  ClosesOrKeeps
    BY <2>7, KeepIsWell
  <2>. QED
    BY <2>1, <2>2, <2>3, <2>5, <2>6, <2>7
       DEF Next, SetPaused, Tick, RevokeReceiver, RestoreReceiver, TransferOutside
<1>. QED
  BY <1>1, Inductive, PTL DEF Spec, AllOrNothing

-----------------------------------------------------------------------------
(* The escrow contract implements AtomicSwap.  The invariant above is what *)
(* makes the mapping work: an NFT has one holder because the supply is     *)
(* conserved, and a swap exchanges two non-empty bundles because an escrow *)
(* is empty or a whole commitment.                                         *)

-----------------------------------------------------------------------------
(* The mapping. *)

(* The holder of an NFT is the one account that has it, or the vault. *)
HolderMaps ==
    \A n \in NFTs :
        /\ \A a \in Accounts : n \in held[a] => holderBar[n] = a
        /\ (\A a \in Accounts : n \notin held[a]) => holderBar[n] = Vault
        /\ \A i \in TradeIds, s \in Side : InEscrow(n, i, s) => holderBar[n] = Vault

LEMMA HolderFacts == IInv => HolderMaps
  <1> SUFFICES ASSUME IInv, NEW n \in NFTs
               PROVE  /\ \A a \in Accounts : n \in held[a] => holderBar[n] = a
                      /\ (\A a \in Accounts : n \notin held[a]) => holderBar[n] = Vault
                      /\ \A i \in TradeIds, s \in Side :
                            InEscrow(n, i, s) => holderBar[n] = Vault
    BY DEF HolderMaps
  <1>1. ASSUME NEW a \in Accounts, n \in held[a]
        PROVE  holderBar[n] = a
    <2>1. \A b \in Accounts : n \in held[b] => b = a
      BY <1>1 DEF IInv, Conservation, OnePlace
    <2>2. (CHOOSE b \in Accounts : n \in held[b]) = a
      BY <1>1, <2>1
    <2>. QED
      BY <1>1, <2>2 DEF holderBar, HolderOfNft
  <1>2. ASSUME \A a \in Accounts : n \notin held[a]
        PROVE  holderBar[n] = Vault
    BY <1>2 DEF holderBar, HolderOfNft
  <1>3. ASSUME NEW i \in TradeIds, NEW s \in Side, InEscrow(n, i, s)
        PROVE  \A a \in Accounts : n \notin held[a]
    BY <1>3 DEF IInv, Conservation, OnePlace
  <1>. QED
    BY <1>1, <1>2, <1>3

LEMMA HolderFactsNext == IInv' => HolderMaps'
  BY HolderFacts, PTL

(* The holders change only where the collections do. *)
LEMMA SameHolders == UNCHANGED held => UNCHANGED holderBar
  BY DEF holderBar, HolderOfNft

(* The deals change only where the trades do. *)
LEMMA SameDeals == UNCHANGED trades => UNCHANGED dealsBar
  BY DEF dealsBar, DealOf, AccountOf

(* A deal reads off its trade. *)
LEMMA DealFacts ==
    ASSUME NEW t
    PROVE  /\ DealOf(t).bundle = t.escrow
           /\ DealOf(t).home = [s \in Side |-> AccountOf(t.refund[s])]
           /\ DealOf(t).goal = [s \in Side |-> AccountOf(t.incoming[s])]
  BY DEF DealOf

-----------------------------------------------------------------------------
(* Each step of the contract is a step of the atomic swap, or none. *)

LEMMA InitIsAbstract == Init => Abstract!Init
  <1> SUFFICES ASSUME Init PROVE Abstract!Init
    OBVIOUS
  <1>1. IInv
    BY InitEstablishesInv
  <1>2. DOMAIN trades = {} /\ trades = << >>
    BY DEF Init
  <1>3. ASSUME NEW n \in NFTs
        PROVE  holderBar[n] \in Accounts
    <2>1. PICK a \in Accounts : n \in held[a]
      BY <1>1, <1>2 DEF IInv, Conservation, NothingLost, InEscrow, Open
    <2>. QED
      BY <1>1, <2>1, HolderFacts DEF HolderMaps
  <1>4. holderBar \in [NFTs -> Accounts]
    BY <1>3 DEF holderBar
  <1>5. dealsBar = << >>
    BY <1>2 DEF dealsBar
  <1>. QED
    BY <1>4, <1>5 DEF Abstract!Init

(* With no receiver set, a deal names the vault. *)
LEMMA FreshDeal ==
    ASSUME NEW t, t.escrow = [s \in Side |-> {}],
           t.refund = [s \in Side |-> NoReceiver],
           t.incoming = [s \in Side |-> NoReceiver]
    PROVE  DealOf(t) = Abstract!EmptyDeal
  <1>1. AccountOf(NoReceiver) = Vault
    BY ReceiverAssumption DEF AccountOf
  <1>2. [s \in Side |-> AccountOf(t.refund[s])] = [s \in Side |-> Vault]
    BY <1>1
  <1>3. [s \in Side |-> AccountOf(t.incoming[s])] = [s \in Side |-> Vault]
    BY <1>1
  <1>. QED
    BY <1>2, <1>3 DEF DealOf, Abstract!EmptyDeal, Side, Abstract!Side

LEMMA ProposeOpens ==
    ASSUME IInv,
           NEW parties \in [Side -> Accounts], NEW types \in [Side -> Types],
           NEW lists \in [Side -> IdLists], NEW expiresAt \in 1..MaxTime,
           ProposeTrade(parties, types, lists, expiresAt)
    PROVE  Abstract!OpenDeal(nextTradeId) /\ nextTradeId \in TradeIds
  <1> DEFINE d == nextTradeId
  <1>1. /\ DOMAIN trades' = DOMAIN trades \cup {d}
        /\ d \notin DOMAIN trades
        /\ d \in TradeIds
        /\ \A i \in DOMAIN trades : trades'[i] = trades[i]
        /\ UNCHANGED held
    BY DEF ProposeTrade, Open, IInv, TypeOK, TradeIds
  <1>2. /\ trades'[d].escrow = [s \in Side |-> {}]
        /\ trades'[d].refund = [s \in Side |-> NoReceiver]
        /\ trades'[d].incoming = [s \in Side |-> NoReceiver]
    BY DEF ProposeTrade
  <1>3. DealOf(trades'[d]) = Abstract!EmptyDeal
    BY <1>2, FreshDeal
  <1> HIDE DEF d
  <1>4. DOMAIN dealsBar = DOMAIN trades
    BY DEF dealsBar
  <1>5. dealsBar' = [e \in DOMAIN trades \cup {d} |-> DealOf(trades'[e])]
    BY <1>1 DEF dealsBar
  <1>6. \A e \in DOMAIN trades \cup {d} :
            DealOf(trades'[e]) =
                IF e = d THEN Abstract!EmptyDeal ELSE dealsBar[e]
    BY <1>1, <1>3 DEF dealsBar
  <1>7. dealsBar' = [e \in DOMAIN dealsBar \cup {d} |->
                        IF e = d THEN Abstract!EmptyDeal ELSE dealsBar[e]]
    BY <1>4, <1>5, <1>6
  <1>. QED
    BY <1>1, <1>4, <1>7, SameHolders DEF Abstract!OpenDeal, Abstract!Live, d

(* An NFT that no account gains or loses keeps its holder. *)
LEMMA HolderStays ==
    ASSUME IInv, IInv', NEW n \in NFTs,
           \A a \in Accounts : n \in held'[a] <=> n \in held[a]
    PROVE  holderBar'[n] = holderBar[n]
  <1>1. CASE \E a \in Accounts : n \in held[a]
    BY <1>1, HolderFacts, HolderFactsNext DEF HolderMaps
  <1>2. CASE ~\E a \in Accounts : n \in held[a]
    BY <1>2, HolderFacts, HolderFactsNext DEF HolderMaps
  <1>. QED
    BY <1>1, <1>2

LEMMA DepositLocks ==
    ASSUME IInv, IInv', NEW i \in TradeIds, NEW s \in Side,
           NEW nfts \in SUBSET NFTs,
           NEW refund \in Receivers, NEW incoming \in Receivers,
           DepositToTrade(i, s, nfts, refund, incoming)
    PROVE  Abstract!Lock(i, s, nfts, HolderOf[refund], HolderOf[incoming])
  <1>1. FillsSide(i, s, nfts, refund, incoming)
    BY DepositFacts
  <1>2. PICK p \in Accounts : TakesFrom(p, nfts)
    BY DepositTakes
  <1>3. holderBar' = [n \in NFTs |-> IF n \in nfts THEN Vault ELSE holderBar[n]]
    <2>1. ASSUME NEW n \in NFTs, n \in nfts
          PROVE  holderBar'[n] = Vault
      <3>1. \A a \in Accounts : n \notin held'[a]
        BY <1>2, <2>1 DEF TakesFrom, IInv, Conservation, OnePlace
      <3>. QED
        BY <3>1, HolderFactsNext DEF HolderMaps
    <2>2. ASSUME NEW n \in NFTs, n \notin nfts
          PROVE  holderBar'[n] = holderBar[n]
      BY <1>2, <2>2, HolderStays DEF TakesFrom
    <2>3. holderBar' = [n \in NFTs |-> HolderOfNft(n)']
      BY DEF holderBar
    <2>. QED
      BY <2>1, <2>2, <2>3
  <1>4. \A n \in nfts : holderBar[n] = p
    BY <1>2, HolderFacts DEF TakesFrom, HolderMaps
  <1>5. dealsBar' = [dealsBar EXCEPT
                ![i] = [@ EXCEPT !.bundle[s] = nfts,
                                 !.home[s] = HolderOf[refund],
                                 !.goal[s] = HolderOf[incoming]]]
    <2> DEFINE t == trades[i]
               u == trades'[i]
    <2>1. DealOf(u).bundle = [t.escrow EXCEPT ![s] = nfts]
      BY <1>1, TradeFields DEF FillsSide, Trade, DealOf, IInv
    <2>2. DealOf(u).home = [[r \in Side |-> AccountOf(t.refund[r])]
                                EXCEPT ![s] = HolderOf[refund]]
      BY <1>1 DEF FillsSide, DealOf, AccountOf
    <2>3. DealOf(u).goal = [[r \in Side |-> AccountOf(t.incoming[r])]
                                EXCEPT ![s] = HolderOf[incoming]]
      BY <1>1 DEF FillsSide, DealOf, AccountOf
    <2> HIDE DEF t, u
    <2>4. DealOf(u) = [bundle |-> DealOf(u).bundle, home |-> DealOf(u).home,
                       goal |-> DealOf(u).goal]
      BY DEF DealOf
    <2>5. DealOf(u) = [DealOf(t) EXCEPT !.bundle[s] = nfts,
                                        !.home[s] = HolderOf[refund],
                                        !.goal[s] = HolderOf[incoming]]
      BY <2>1, <2>2, <2>3, <2>4 DEF DealOf
    <2>6. /\ i \in DOMAIN trades
          /\ DOMAIN trades' = DOMAIN trades
          /\ \A j \in DOMAIN trades \ {i} : trades'[j] = trades[j]
      BY <1>1 DEF FillsSide
    <2>7. dealsBar' = [j \in DOMAIN trades |-> DealOf(trades'[j])]
      BY <2>6 DEF dealsBar
    <2>8. dealsBar' = [dealsBar EXCEPT ![i] = DealOf(u)]
      BY <2>6, <2>7 DEF dealsBar, u
    <2>9. dealsBar[i] = DealOf(t)
      BY <2>6 DEF dealsBar, t
    <2>. QED
      BY <2>5, <2>8, <2>9
  <1>6. i \in DOMAIN dealsBar /\ dealsBar[i].bundle[s] = {}
    BY <1>1 DEF FillsSide, dealsBar, DealOf
  <1>7. nfts # {}
    BY <1>1 DEF FillsSide
  <1>. QED
    BY <1>2, <1>3, <1>4, <1>5, <1>6, <1>7 DEF Abstract!Lock, Abstract!Live

(* Closing a trade releases its deal to the accounts of the receivers. *)
LEMMA ClosingReleases ==
    ASSUME IInv, IInv', NEW i, NEW out, NEW to, ClosesWith(i, out, to),
           NEW goal,
           \A s \in Side : out[s] # {} => goal[s] = HolderOf[to[s]]
    PROVE  Abstract!Release(i, goal)
  <1>1. /\ i \in DOMAIN trades
        /\ out \in [Side -> SUBSET NFTs]
        /\ \A s \in Side : out[s] = trades[i].escrow[s]
        /\ \A s \in Side : out[s] # {} => to[s] \in Receivers
        /\ held' = Delivered(out, to)
    BY DEF ClosesWith
  <1>2. /\ DOMAIN trades' = DOMAIN trades \ {i}
        /\ \A j \in DOMAIN trades' : trades'[j] = trades[j]
    BY RemoveTradeFacts DEF ClosesWith
  <1>3. \A a \in Accounts, n \in NFTs :
            n \in held'[a] <=>
                \/ n \in held[a]
                \/ \E s \in Side : n \in out[s] /\ HolderOf[to[s]] = a
    BY <1>1, DeliveredFacts DEF IInv
  <1>4. ASSUME NEW s \in Side, NEW n \in out[s]
        PROVE  n \in NFTs /\ holderBar'[n] = goal[s]
    <2>1. n \in NFTs /\ HolderOf[to[s]] \in Accounts /\ goal[s] = HolderOf[to[s]]
      BY <1>1, <1>4, ReceiverAssumption
    <2>2. n \in held'[HolderOf[to[s]]]
      BY <1>3, <1>4, <2>1
    <2>. QED
      BY <2>1, <2>2, HolderFactsNext DEF HolderMaps
  <1>5. ASSUME NEW n \in NFTs, \A s \in Side : n \notin out[s]
        PROVE  holderBar'[n] = holderBar[n]
    BY <1>3, <1>5, HolderStays
  <1>6. dealsBar[i].bundle = trades[i].escrow
    BY <1>1 DEF dealsBar, DealOf
  <1>7. \A n \in NFTs : holderBar'[n] =
            IF n \in dealsBar[i].bundle["A"] THEN goal["A"]
            ELSE IF n \in dealsBar[i].bundle["B"] THEN goal["B"]
            ELSE holderBar[n]
    BY <1>1, <1>4, <1>5, <1>6, SideFacts DEF Side
  <1>8. holderBar' = [n \in NFTs |-> HolderOfNft(n)']
    BY DEF holderBar
  <1>9. holderBar' = [n \in NFTs |->
            IF n \in dealsBar[i].bundle["A"] THEN goal["A"]
            ELSE IF n \in dealsBar[i].bundle["B"] THEN goal["B"]
            ELSE holderBar[n]]
    BY <1>7, <1>8
  <1>10. dealsBar' = [e \in DOMAIN dealsBar \ {i} |-> dealsBar[e]]
    BY <1>2 DEF dealsBar
  <1>. QED
    BY <1>9, <1>10 DEF Abstract!Release

LEMMA ExecuteSwaps ==
    ASSUME IInv, IInv', NEW i \in TradeIds, ExecuteSwap(i)
    PROVE  Abstract!Swap(i)
  <1> DEFINE goal == [s \in Side |-> dealsBar[i].goal[Other(s)]]
  <1>1. /\ ClosesWith(i, SettledNfts(trades[i]), Swapped(trades[i]))
        /\ \A s \in Side : AllDeposited(trades[i], s)
    BY ExecuteFacts
  <1>2. i \in DOMAIN trades
    BY <1>1 DEF ClosesWith
  <1>3. \A s \in Side : goal[s] = HolderOf[Swapped(trades[i])[s]]
    BY <1>1, <1>2, SideFacts
       DEF AllDeposited, dealsBar, DealOf, AccountOf, Swapped
  <1>4. goal = [s \in Abstract!Side |-> dealsBar[i].goal[Abstract!Other(s)]]
    BY DEF Side, Abstract!Side, Other, Abstract!Other
  <1>5. \A s \in Abstract!Side : dealsBar[i].bundle[s] # {}
    BY <1>1, <1>2 DEF AllDeposited, dealsBar, DealOf, Side, Abstract!Side
  <1>6. i \in DOMAIN dealsBar
    BY <1>2 DEF dealsBar
  <1> HIDE DEF goal
  <1>7. Abstract!Release(i, goal)
    BY <1>1, <1>3, ClosingReleases
  <1>. QED
    BY <1>4, <1>5, <1>6, <1>7 DEF Abstract!Swap, Abstract!Live

LEMMA RefundReturns ==
    ASSUME IInv, IInv', NEW i \in DOMAIN trades, Refund(i)
    PROVE  Abstract!Return(i)
  <1>1. ClosesWith(i, trades[i].escrow, trades[i].refund)
    BY RefundFacts
  <1>2. \A s \in Side : trades[i].escrow[s] # {} =>
            dealsBar[i].home[s] = HolderOf[trades[i].refund[s]]
    BY <1>1 DEF ClosesWith, dealsBar, DealOf, AccountOf
  <1>3. Abstract!Release(i, dealsBar[i].home)
    BY <1>1, <1>2, ClosingReleases
  <1>. QED
    BY <1>3 DEF Abstract!Return, Abstract!Live, dealsBar

LEMMA TransferMoves ==
    ASSUME IInv, IInv', NEW n \in NFTs, NEW from \in Accounts, NEW to \in Accounts,
           TransferOutside(n, from, to)
    PROVE  Abstract!Move(n, to)
  <1>1. /\ \A a \in Accounts, m \in NFTs :
             m \in held'[a] <=> IF m = n THEN a = to \/ (a # from /\ m \in held[a])
                                        ELSE m \in held[a]
        /\ n \in held[from]
        /\ UNCHANGED trades
    BY DEF TransferOutside, IInv, TypeOK
  <1>2. holderBar[n] \in Accounts
    BY <1>1, HolderFacts DEF HolderMaps
  <1>3. holderBar'[n] = to
    BY <1>1, HolderFactsNext DEF HolderMaps
  <1>4. \A m \in NFTs \ {n} : holderBar'[m] = holderBar[m]
    BY <1>1, HolderStays
  <1>5. holderBar' = [m \in NFTs |-> HolderOfNft(m)']
    BY DEF holderBar
  <1>6. holderBar' = [holderBar EXCEPT ![n] = to]
    BY <1>3, <1>4, <1>5 DEF holderBar
  <1>. QED
    BY <1>1, <1>2, <1>6, SameDeals DEF Abstract!Move

LEMMA StepIsAbstract ==
    ASSUME IInv, IInv', [Next]_vars
    PROVE  [Abstract!Next]_(Abstract!vars)
  <1>1. ASSUME NEW parties \in [Side -> Accounts], NEW types \in [Side -> Types],
               NEW lists \in [Side -> IdLists], NEW expiresAt \in 1..MaxTime,
               ProposeTrade(parties, types, lists, expiresAt)
        PROVE  Abstract!Next
    BY <1>1, ProposeOpens DEF Abstract!Next
  <1>2. ASSUME NEW i \in TradeIds, NEW s \in Side, NEW nfts \in SUBSET NFTs,
               NEW refund \in Receivers, NEW incoming \in Receivers,
               DepositToTrade(i, s, nfts, refund, incoming)
        PROVE  Abstract!Next
    <2>1. Abstract!Lock(i, s, nfts, HolderOf[refund], HolderOf[incoming])
      BY <1>2, DepositLocks
    <2>2. HolderOf[refund] \in Accounts /\ HolderOf[incoming] \in Accounts
      BY ReceiverAssumption
    <2>. QED
      BY <2>1, <2>2 DEF Abstract!Next, Side, Abstract!Side
  <1>3. ASSUME NEW i \in TradeIds, ExecuteSwap(i)
        PROVE  Abstract!Next
    BY <1>3, ExecuteSwaps DEF Abstract!Next
  <1>4. ASSUME NEW i \in TradeIds, NEW by \in Accounts, CancelTrade(i, by)
        PROVE  Abstract!Next
    BY <1>4, RefundReturns DEF CancelTrade, Open, Abstract!Next
  <1>5. ASSUME NEW i \in TradeIds, ReclaimExpired(i)
        PROVE  Abstract!Next
    BY <1>5, RefundReturns DEF ReclaimExpired, Open, Abstract!Next
  <1>6. ASSUME NEW n \in NFTs, NEW from \in Accounts, NEW to \in Accounts,
               TransferOutside(n, from, to)
        PROVE  Abstract!Next
    BY <1>6, TransferMoves DEF Abstract!Next
  <1>7. ASSUME UNCHANGED <<trades, held>>
        PROVE  UNCHANGED Abstract!vars
    BY <1>7, SameHolders, SameDeals DEF Abstract!vars
  <1>8. CASE UNCHANGED vars
    BY <1>7, <1>8 DEF vars
  <1>9. CASE \/ \E b \in BOOLEAN : SetPaused(b)
             \/ Tick
             \/ \E r \in Receivers : RevokeReceiver(r) \/ RestoreReceiver(r)
    <2>1. UNCHANGED <<trades, held>>
      BY <1>9 DEF SetPaused, Tick, RevokeReceiver, RestoreReceiver
    <2>. QED
      BY <1>7, <2>1
  <1>. QED
    BY <1>1, <1>2, <1>3, <1>4, <1>5, <1>6, <1>8, <1>9 DEF Next

(* Every behaviour of the contract is one of the atomic swap: NFTs have    *)
(* one holder, and a trade closes by swapping both bundles or sending each *)
(* home, for any parties, NFTs, receivers and number of trades.            *)
THEOREM Implements == Spec => ImplementsAtomicSwap
  <1>1. Init => Abstract!Init
    BY InitIsAbstract
  <1>2. IInv /\ IInv' /\ [Next]_vars => [Abstract!Next]_(Abstract!vars)
    BY StepIsAbstract
  <1>. QED
    BY <1>1, <1>2, Inductive, PTL DEF Spec, ImplementsAtomicSwap, Abstract!Spec
=============================================================================
