--------------------------- MODULE GiveawaysProofs ---------------------------
(***************************************************************************)
(* What TLAPS proves of the giveaways, for every set of drops, moments,    *)
(* accounts, users, requests and transactions and every bound:             *)
(*   TypeCorrect          Spec => []TypeOK                                 *)
(*   SentToWinners        Spec => []OnlyToItsWinner                        *)
(*   DeliveriesReached    Spec => []DeliveredReachedWinner                 *)
(*   PacksStandForGood    Spec => PacksStand                               *)
(*   GiveawayFollowsRaffle      Spec => FollowsRaffle                      *)
(*   GiveawayImplementsRaffle   Spec => ImplementsRaffle                   *)
(* The inductive invariant says that what a plan, a verification or a      *)
(* transaction recorded about a moment is settled (Settled): the drop is   *)
(* past sealing and the pack past claiming, and neither is ever undone.    *)
(* That a pool is dealt whole needs more (RefInv): a seal still holds the  *)
(* pool it read, whatever was deleted or sealed since.                     *)
(***************************************************************************)
EXTENDS GiveawaysRefinement, TLAPS

(* Moment m's pack in drop d is claimed, for good, for account to.         *)
Settled(d, m, to) ==
    /\ d \in Drops /\ to \in Recipients
    /\ Sealed(d)
    /\ pool[d][m].pack # 0 /\ pool[d][m].source # None
    /\ claims[d][pool[d][m].pack].to = to

ChainOK ==
    /\ at \in [Moments -> Accounts]
    /\ held \subseteq Moments \X Accounts
    /\ \A m \in Moments : <<m, at[m]>> \in held
    /\ locked \subseteq Moments
    /\ deaf \subseteq Recipients
    /\ reach \in [Linked -> SUBSET Controllers]

TablesOK ==
    /\ status \in [Drops -> {"none", "draft", "sealed", "open", "closed", "deleted"}]
    /\ pool \in [Drops -> [Moments -> RowType]]
    /\ claims \in [Drops -> [Packs -> ClaimType]]
    /\ \A d \in Drops, m \in Moments :
          pool[d][m].pack # 0 => pool[d][m].source # None

(* Only a sealed drop has claims, and a claim names its recipient.         *)
ClaimsOK ==
    \A d \in Drops, p \in Packs :
        claims[d][p] # NoClaim => Sealed(d) /\ claims[d][p].to \in Recipients

StampsOK ==
    \A d \in Drops, m \in Moments :
        pool[d][m].delivered =>
            \E to \in Recipients : Settled(d, m, to) /\ <<m, to>> \in held

Honest(q) ==
    /\ q \in ReqType
    /\ q.kind # "none" => q.drop \in Drops
    /\ q.kind \in {"plan", "verify"} =>
          \A m \in q.left \union q.found :
              /\ Settled(q.drop, m, q.to[m])
              /\ q.source[m] = pool[q.drop][m].source
    /\ q.kind = "verify" => \A m \in q.found : <<m, q.to[m]>> \in held
    /\ q.kind = "seal" =>
          /\ status[q.drop] # "none"
          /\ status[q.drop] = "draft" =>
                \A m \in q.left : pool[q.drop][m].source # None

ReqsOK ==
    /\ req = [r \in Slots |-> req[r]]
    /\ \A r \in Slots : Honest(req[r])

Loaded(b) ==
    /\ b \in FlightType
    /\ \A m \in Moments :
          b.to[m] # None =>
              /\ Settled(b.drop, m, b.to[m])
              /\ b.source = pool[b.drop][m].source

FlightsOK ==
    /\ flight = [f \in Flights |-> flight[f]]
    /\ \A f \in Flights : Loaded(flight[f])

CountsOK == moves \in 0..MaxMoves /\ faults \in 0..MaxFaults

IInv ==
    /\ ChainOK /\ TablesOK /\ ClaimsOK /\ StampsOK
    /\ ReqsOK /\ FlightsOK /\ CountsOK

(* What every step respects: what is settled stays, and history grows.     *)
Steady ==
    /\ \A d \in Drops, m \in Moments, to \in Recipients :
          Settled(d, m, to) =>
              Settled(d, m, to)' /\ pool'[d][m].source = pool[d][m].source
    /\ \A d \in Drops :
          status[d] # "none" =>
              /\ status'[d] # "none"
              /\ status'[d] = "draft" =>
                    /\ status[d] = "draft"
                    /\ \A m \in Moments : pool'[d][m].source = pool[d][m].source
    /\ held \subseteq held'
-----------------------------------------------------------------------------
LEMMA NothingIsTyped ==
    /\ Idle \in ReqType
    /\ NoFlight \in FlightType
    /\ NoRow \in RowType
    /\ NoClaim \in ClaimType
BY DEF Idle, NoFlight, NoRow, NoClaim, ReqType, FlightType, RowType, ClaimType,
       Nobody, Sending

(* The named winner of a row is the one its pack is settled on.            *)
LEMMA WinnerIsSettled ==
    ASSUME IInv, NEW d \in Drops, NEW m \in Moments, Winner(d, m) # None
    PROVE  Settled(d, m, Winner(d, m))
<1>1. /\ pool[d][m].pack \in Packs
      /\ claims[d][pool[d][m].pack] # NoClaim
    BY DEF IInv, TablesOK, RowType, Winner, NoClaim
<1>2. pool[d][m].pack # 0 /\ pool[d][m].source # None
    BY <1>1, NumberAssumption DEF IInv, TablesOK, Packs
<1>3. Sealed(d) /\ claims[d][pool[d][m].pack].to \in Recipients
    BY <1>1 DEF IInv, ClaimsOK
<1>4. QED
    BY <1>2, <1>3 DEF Settled, Winner

LEMMA SettledIsWinner ==
    ASSUME NEW d, NEW m, NEW to, Settled(d, m, to)
    PROVE  Winner(d, m) = to
BY DEF Settled, Winner

(* Nothing settled is touched by a step that leaves the tables alone.      *)
LEMMA TablesAlone ==
    ASSUME UNCHANGED db, held \subseteq held'
    PROVE  Steady
BY DEF db, Steady, Settled, Sealed

LEMMA KeepHonest ==
    ASSUME TablesOK, Steady, NEW q, Honest(q), TablesOK'
    PROVE  /\ q.kind \in {"plan", "verify"} =>
                \A m \in q.left \union q.found :
                    /\ Settled(q.drop, m, q.to[m])'
                    /\ q.source[m] = pool'[q.drop][m].source
           /\ q.kind = "verify" => \A m \in q.found : <<m, q.to[m]>> \in held'
           /\ q.kind = "seal" =>
                /\ status'[q.drop] # "none"
                /\ status'[q.drop] = "draft" =>
                      \A m \in q.left : pool'[q.drop][m].source # None
<1>1. ASSUME q.kind \in {"plan", "verify"}, NEW m \in q.left \union q.found
      PROVE  /\ Settled(q.drop, m, q.to[m])'
             /\ q.source[m] = pool'[q.drop][m].source
    <2>1. /\ m \in Moments /\ q.drop \in Drops /\ q.to[m] \in Recipients
          /\ Settled(q.drop, m, q.to[m])
          /\ q.source[m] = pool[q.drop][m].source
        BY <1>1 DEF Honest, ReqType, Settled
    <2>2. QED
        BY <2>1 DEF Steady, Settled, Sealed
<1>2. ASSUME q.kind = "seal"
      PROVE  /\ status'[q.drop] # "none"
             /\ status'[q.drop] = "draft" =>
                   \A m \in q.left : pool'[q.drop][m].source # None
    BY <1>2 DEF Honest, Steady, ReqType
<1>3. QED
    BY <1>1, <1>2 DEF Honest, Steady

LEMMA KeepReq ==
    ASSUME TablesOK, Steady, TablesOK', NEW r \in Slots, Honest(req[r]), req'[r] = req[r]
    PROVE  Honest(req[r])'
BY KeepHonest DEF Honest

LEMMA KeepReqs ==
    ASSUME TablesOK, Steady, TablesOK', ReqsOK, UNCHANGED req
    PROVE  ReqsOK'
BY KeepReq DEF ReqsOK

(* A request moves on and the others stay.                                 *)
LEMMA MoveReq ==
    ASSUME TablesOK, Steady, TablesOK', ReqsOK, NEW r \in Slots, NEW q,
           req' = [req EXCEPT ![r] = q], Honest(req[r])'
    PROVE  ReqsOK'
<1>1. \A s \in Slots \ {r} : req'[s] = req[s]
    BY DEF ReqsOK
<1>2. \A s \in Slots : Honest(req[s])'
    BY <1>1, KeepReq DEF ReqsOK
<1>3. QED
    BY <1>2 DEF ReqsOK

LEMMA KeepFlight ==
    ASSUME TablesOK, Steady, TablesOK', NEW f \in Flights, Loaded(flight[f]),
           flight'[f] = flight[f]
    PROVE  Loaded(flight[f])'
<1>1. PICK b : b = flight[f]
    OBVIOUS
<1>2. ASSUME NEW m \in Moments, b.to[m] # None
      PROVE  /\ Settled(b.drop, m, b.to[m])'
             /\ b.source = pool'[b.drop][m].source
    <2>1. /\ b.drop \in Drops /\ b.to[m] \in Recipients
          /\ Settled(b.drop, m, b.to[m])
          /\ b.source = pool[b.drop][m].source
        BY <1>1, <1>2 DEF Loaded, Settled
    <2>2. QED
        BY <2>1 DEF Steady
<1>3. Loaded(b)'
    BY <1>1, <1>2 DEF Loaded
<1>4. QED
    BY <1>1, <1>3

LEMMA KeepFlights ==
    ASSUME TablesOK, Steady, TablesOK', FlightsOK, UNCHANGED flight
    PROVE  FlightsOK'
BY KeepFlight DEF FlightsOK

(* A transaction leaves, or takes a place.                                 *)
LEMMA MoveFlight ==
    ASSUME TablesOK, Steady, TablesOK', FlightsOK, NEW f \in Flights, NEW b,
           flight' = [flight EXCEPT ![f] = b], Loaded(flight[f])'
    PROVE  FlightsOK'
<1>1. \A g \in Flights \ {f} : flight'[g] = flight[g]
    BY DEF FlightsOK
<1>2. \A g \in Flights : Loaded(flight[g])'
    BY <1>1, KeepFlight DEF FlightsOK
<1>3. QED
    BY <1>2 DEF FlightsOK

LEMMA KeepStamps ==
    ASSUME IInv, Steady, TablesOK',
           \A d \in Drops, m \in Moments :
               pool'[d][m].delivered => pool[d][m].delivered
    PROVE  StampsOK'
<1>1. ASSUME NEW d \in Drops, NEW m \in Moments, pool'[d][m].delivered
      PROVE  \E to \in Recipients : Settled(d, m, to)' /\ <<m, to>> \in held'
    <2>1. PICK to \in Recipients : Settled(d, m, to) /\ <<m, to>> \in held
        BY <1>1 DEF IInv, StampsOK
    <2>2. QED
        BY <2>1 DEF Steady
<1>2. QED
    BY <1>1 DEF StampsOK

(* A step that leaves the tables and the chain alone.                      *)
LEMMA Outside ==
    ASSUME IInv, UNCHANGED chain, UNCHANGED db
    PROVE  Steady /\ ChainOK' /\ TablesOK' /\ ClaimsOK' /\ StampsOK'
<1>1. Steady
    BY TablesAlone DEF chain
<1>2. ChainOK' /\ TablesOK' /\ ClaimsOK'
    BY DEF IInv, chain, db, ChainOK, TablesOK, ClaimsOK, Sealed
<1>3. StampsOK'
    BY <1>1, <1>2, KeepStamps DEF db
<1>4. QED
    BY <1>1, <1>2, <1>3
-----------------------------------------------------------------------------
(* Requests that only read and decide.                                     *)

LEMMA RequestMoves ==
    ASSUME IInv, UNCHANGED <<chain, db, flight, moves>>,
           faults' = faults \/ Fault,
           NEW r \in Slots, NEW q, req' = [req EXCEPT ![r] = q], Honest(req[r])'
    PROVE  IInv'
<1>1. Steady /\ ChainOK' /\ TablesOK' /\ ClaimsOK' /\ StampsOK'
    BY Outside
<1>2. ReqsOK'
    BY <1>1, MoveReq DEF IInv
<1>3. FlightsOK'
    BY <1>1, KeepFlights DEF IInv
<1>4. CountsOK'
    BY NumberAssumption DEF IInv, CountsOK, Fault
<1>5. QED
    BY <1>1, <1>2, <1>3, <1>4 DEF IInv

LEMMA EndIsHonest ==
    ASSUME IInv, NEW r \in Slots, End(r)
    PROVE  Honest(req[r])'
<1>1. req'[r] = Idle
    BY DEF End, IInv, ReqsOK
<1>2. QED
    BY <1>1, NothingIsTyped DEF Honest, Idle

LEMMA RequestEnds ==
    ASSUME IInv, UNCHANGED <<chain, db, flight, moves>>,
           faults' = faults \/ Fault,
           NEW r \in Slots, End(r)
    PROVE  IInv'
BY EndIsHonest, RequestMoves DEF End

LEMMA SourceTyped ==
    ASSUME IInv, NEW d \in Drops, NEW about \in SUBSET InPool(d)
    PROVE  SourcesOf(d, about) \subseteq Sources
BY DEF IInv, TablesOK, RowType, SourcesOf, InPool

LEMMA BeginStep ==
    ASSUME IInv, NEW r \in Slots, NEW d \in Drops, NEW kind \in {"seal", "plan", "verify"},
           NEW about \in SUBSET Moments, NEW accounts \in SUBSET Accounts,
           Begin(r, kind, d, about, accounts),
           kind # "seal" => \A m \in about : Winner(d, m) # None,
           kind = "seal" => status[d] # "none" /\ about \subseteq InPool(d)
    PROVE  IInv'
<1>1. /\ [m \in Moments |-> pool[d][m].source] \in [Moments -> Sources \union {None}]
      /\ [m \in Moments |-> Winner(d, m)] \in Sending
    <2>1. \A m \in Moments : pool[d][m].source \in Sources \union {None}
        BY DEF IInv, TablesOK, RowType
    <2>2. \A m \in Moments : Winner(d, m) \in Recipients \union {None}
        BY WinnerIsSettled DEF Settled
    <2>3. QED
        BY <2>1, <2>2 DEF Sending
<1>2. PICK q : q = [Idle EXCEPT !.kind = kind, !.at = "read", !.drop = d,
                       !.source = [m \in Moments |-> pool[d][m].source],
                       !.to = [m \in Moments |-> Winner(d, m)],
                       !.todo = accounts, !.left = about]
    OBVIOUS
<1>3. q \in ReqType
    BY <1>1, <1>2, NothingIsTyped DEF ReqType
<1>4. /\ q.kind = kind /\ q.drop = d /\ q.left = about /\ q.found = {}
      /\ q.source = [m \in Moments |-> pool[d][m].source]
      /\ q.to = [m \in Moments |-> Winner(d, m)]
    BY <1>2 DEF Idle
<1>5. req' = [req EXCEPT ![r] = q] /\ req'[r] = q
    BY <1>2 DEF Begin, IInv, ReqsOK
<1>6. ASSUME kind # "seal", NEW m \in about
      PROVE  Settled(d, m, q.to[m])' /\ q.source[m] = pool'[d][m].source
    <2>1. Settled(d, m, q.to[m])
        BY <1>4, <1>6, WinnerIsSettled
    <2>2. QED
        BY <1>4, <2>1 DEF Begin, db, Settled, Sealed
<1>7. Honest(req[r])'
    BY <1>3, <1>4, <1>5, <1>6 DEF Honest, Begin, db, InPool
<1>8. QED
    BY <1>5, <1>7, RequestMoves DEF Begin

LEMMA StartSealStep ==
    ASSUME IInv, NEW r \in Slots, NEW d \in Drops, StartSeal(r, d)
    PROVE  IInv'
BY SourceTyped, BeginStep DEF StartSeal, InPool, Accounts

LEMMA StartPlanStep ==
    ASSUME IInv, NEW r \in Slots, NEW d \in Drops, StartPlan(r, d)
    PROVE  IInv'
<1>1. Pending(d) \in SUBSET InPool(d) /\ InPool(d) \subseteq Moments
    BY DEF Pending, InPool
<1>2. QED
    BY <1>1, SourceTyped, BeginStep DEF StartPlan, Pending, Accounts

LEMMA StartVerifyStep ==
    ASSUME IInv, NEW r \in Slots, NEW d \in Drops, StartVerify(r, d)
    PROVE  IInv'
<1>1. Claimed(d) \subseteq Moments
    BY DEF Claimed, InPool
<1>2. \A m \in Claimed(d) : Winner(d, m) \in Recipients
    BY WinnerIsSettled, <1>1 DEF Claimed, Settled
<1>3. {Winner(d, m) : m \in Claimed(d)} \in SUBSET Accounts
    BY <1>2 DEF Accounts
<1>4. \A m \in Claimed(d) : Winner(d, m) # None
    BY DEF Claimed
<1>5. QED
    BY <1>1, <1>3, <1>4, BeginStep DEF StartVerify

(* A request goes on with a part of what it was about.                     *)
LEMMA ReadStep ==
    ASSUME IInv, NEW r \in Slots, NEW q \in ReqType,
           UNCHANGED <<chain, db, flight, moves>>, faults' = faults \/ Fault,
           req' = [req EXCEPT ![r] = q],
           /\ q.kind = req[r].kind /\ q.drop = req[r].drop
           /\ q.source = req[r].source /\ q.to = req[r].to
           /\ q.left \subseteq req[r].left \union req[r].found
           /\ q.found \subseteq req[r].left \union req[r].found,
           q.kind = "verify" => \A m \in q.found : <<m, q.to[m]>> \in held,
           q.kind = "seal" => q.left \subseteq req[r].left
    PROVE  IInv'
<1>1. Honest(req[r]) /\ TablesOK
    BY DEF IInv, ReqsOK
<1>2. Steady /\ TablesOK'
    BY Outside
<1>3. /\ req[r].kind \in {"plan", "verify"} =>
            \A m \in req[r].left \union req[r].found :
                    /\ Settled(req[r].drop, m, req[r].to[m])
                    /\ req[r].source[m] = pool[req[r].drop][m].source
    BY <1>1 DEF Honest
<1>4. req'[r] = q
    BY DEF IInv, ReqsOK
<1>5. Honest(q)
    BY <1>1, <1>3 DEF Honest
<1>6. Honest(req[r])'
    BY <1>1, <1>2, <1>4, <1>5, KeepHonest DEF Honest
<1>7. QED
    BY <1>6, RequestMoves

LEMMA ReadSourceStep ==
    ASSUME IInv, NEW r \in Slots, NEW a \in Accounts, ReadSource(r, a)
    PROVE  IInv'
<1>1. req[r] \in ReqType
    BY DEF IInv, ReqsOK, Honest
<1>2. PICK q : q = [req[r] EXCEPT !.todo = @ \ {a},
              !.found = @ \union {m \in req[r].left :
                            req[r].source[m] = a /\ at[m] = a /\ m \notin locked}]
    OBVIOUS
<1>3. /\ q \in ReqType /\ q.kind = req[r].kind /\ q.drop = req[r].drop
      /\ q.source = req[r].source /\ q.to = req[r].to
      /\ q.left = req[r].left
      /\ q.found \subseteq req[r].left \union req[r].found
    BY <1>1, <1>2 DEF ReqType
<1>4. req' = [req EXCEPT ![r] = q]
    BY <1>2 DEF ReadSource
<1>5. QED
    BY <1>3, <1>4, ReadStep DEF ReadSource

LEMMA ReadRecipientStep ==
    ASSUME IInv, NEW r \in Slots, NEW a \in Accounts, ReadRecipient(r, a)
    PROVE  IInv'
<1>1. req[r] \in ReqType /\ Honest(req[r])
    BY DEF IInv, ReqsOK, Honest
<1>2. PICK q : q = [req[r] EXCEPT !.todo = @ \ {a},
              !.found = @ \union {m \in req[r].left : req[r].to[m] = a /\ at[m] = a}]
    OBVIOUS
<1>3. /\ q \in ReqType /\ q.kind = req[r].kind /\ q.drop = req[r].drop
      /\ q.source = req[r].source /\ q.to = req[r].to
      /\ q.left = req[r].left
      /\ q.found = req[r].found \union {m \in req[r].left : req[r].to[m] = a /\ at[m] = a}
    BY <1>1, <1>2 DEF ReqType
<1>4. \A m \in q.found : <<m, q.to[m]>> \in held
    BY <1>1, <1>3 DEF ReadRecipient, Running, Honest, ReqType, IInv, ChainOK
<1>5. req' = [req EXCEPT ![r] = q]
    BY <1>2 DEF ReadRecipient
<1>6. QED
    BY <1>3, <1>4, <1>5, ReadStep DEF ReadRecipient

(* The rest of the steps that only drop something.                         *)
LEMMA SkipStep ==
    ASSUME IInv, NEW r \in Slots, NEW a \in Accounts,
           SkipRecipient(r, a) \/ SkipSource(r, a) \/ ReadKept(r, a)
    PROVE  IInv'
<1>1. req[r] \in ReqType /\ Honest(req[r])
    BY DEF IInv, ReqsOK, Honest
<1>2. PICK left \in SUBSET req[r].left :
          req' = [req EXCEPT ![r] = [req[r] EXCEPT !.todo = @ \ {a}, !.left = left]]
    <2>1. CASE SkipRecipient(r, a)
        <3>1. {m \in req[r].left : req[r].to[m] # a} \in SUBSET req[r].left
            OBVIOUS
        <3>2. QED
            BY <2>1, <3>1 DEF SkipRecipient
    <2>2. CASE SkipSource(r, a)
        <3>1. {m \in req[r].left : m \in req[r].found \/ req[r].source[m] # a}
                  \in SUBSET req[r].left
            OBVIOUS
        <3>2. QED
            BY <2>2, <3>1 DEF SkipSource
    <2>3. CASE ReadKept(r, a)
        <3>1. [req[r] EXCEPT !.todo = @ \ {a}, !.left = req[r].left]
                  = [req[r] EXCEPT !.todo = @ \ {a}]
            BY <1>1 DEF ReqType
        <3>2. QED
            BY <2>3, <3>1 DEF ReadKept
    <2>4. QED
        BY <2>1, <2>2, <2>3
<1>3. PICK q : q = [req[r] EXCEPT !.todo = @ \ {a}, !.left = left]
    OBVIOUS
<1>4. /\ q \in ReqType /\ q.kind = req[r].kind /\ q.drop = req[r].drop
      /\ q.source = req[r].source /\ q.to = req[r].to
      /\ q.left = left /\ q.found = req[r].found
    BY <1>1, <1>3 DEF ReqType
<1>5. q.kind = "verify" => \A m \in q.found : <<m, q.to[m]>> \in held
    BY <1>1, <1>4 DEF Honest
<1>6. /\ UNCHANGED <<chain, db, flight, moves>>
      /\ faults' = faults \/ Fault
    BY DEF SkipRecipient, SkipSource, ReadKept
<1>7. QED
    BY <1>2, <1>3, <1>4, <1>5, <1>6, ReadStep

(* A plan waiting for providers, or with all it needs.                     *)
LEMMA BatchingPlans ==
    ASSUME NEW q \in ReqType, Honest(q), q.kind = "plan", NEW linked \in SUBSET Accounts
    PROVE  /\ Batching(q, linked) \in ReqType
           /\ Batching(q, linked).kind = "plan"
           /\ Batching(q, linked).drop = q.drop
           /\ Batching(q, linked).source = q.source
           /\ Batching(q, linked).to = q.to
           /\ Batching(q, linked).left = q.left
           /\ Batching(q, linked).found = q.found
<1>1. ASSUME NEW m \in q.left
      PROVE  q.source[m] \in Accounts
    <2>1. /\ Settled(q.drop, m, q.to[m])
          /\ q.source[m] = pool[q.drop][m].source
          /\ m \in Moments
        BY DEF Honest, ReqType
    <2>2. q.source[m] # None
        BY <2>1 DEF Settled
    <2>3. QED
        BY <2>1, <2>2 DEF ReqType, Accounts
<1>2. CASE linked = {}
    <2>1. PICK b : b = [q EXCEPT !.at = "simulate", !.todo = {q.source[m] : m \in q.left}]
        OBVIOUS
    <2>2. {q.source[m] : m \in q.left} \in SUBSET Accounts
        BY <1>1
    <2>3. /\ b \in ReqType /\ b.kind = "plan" /\ b.drop = q.drop /\ b.source = q.source
          /\ b.to = q.to /\ b.left = q.left /\ b.found = q.found
        BY <2>1, <2>2 DEF ReqType
    <2>4. QED
        BY <1>2, <2>1, <2>3 DEF Batching
<1>3. CASE linked # {}
    <2>1. PICK b : b = [q EXCEPT !.at = "providers", !.todo = linked]
        OBVIOUS
    <2>2. /\ b \in ReqType /\ b.kind = "plan" /\ b.drop = q.drop /\ b.source = q.source
          /\ b.to = q.to /\ b.left = q.left /\ b.found = q.found
        BY <2>1 DEF ReqType
    <2>3. QED
        BY <1>3, <2>1, <2>2 DEF Batching
<1>4. QED
    BY <1>2, <1>3

(* What PlanBatches and FindProvider make of the request.                  *)
LEMMA PlanGoesOn ==
    ASSUME IInv, NEW r \in Slots,
           PlanBatches(r) \/ \E a \in Accounts : FindProvider(r, a)
    PROVE  /\ req[r].kind = "plan"
           /\ \E q \in ReqType :
                 /\ req' = [req EXCEPT ![r] = q]
                 /\ q.kind = "plan" /\ q.drop = req[r].drop
                 /\ q.source = req[r].source /\ q.to = req[r].to
                 /\ q.left \subseteq req[r].left \union req[r].found
                 /\ q.found = req[r].found
<1>1. req[r] \in ReqType /\ Honest(req[r])
    BY DEF IInv, ReqsOK, Honest
<1>2. CASE PlanBatches(r)
    <2>1. req[r].kind = "plan"
        BY <1>2 DEF PlanBatches, Running
    <2>2. PICK p : p = [req[r] EXCEPT !.left = req[r].found]
        OBVIOUS
    <2>3. /\ p \in ReqType /\ p.kind = "plan" /\ p.drop = req[r].drop
          /\ p.source = req[r].source /\ p.to = req[r].to
          /\ p.left = req[r].found /\ p.found = req[r].found
        BY <1>1, <2>1, <2>2 DEF ReqType
    <2>4. Honest(p)
        BY <1>1, <2>1, <2>3 DEF Honest
    <2>5. PICK linked : linked = {p.source[m] : m \in p.left} \ {Parent}
        OBVIOUS
    <2>6. linked \in SUBSET Accounts
        <3>1. ASSUME NEW m \in p.left
              PROVE  p.source[m] \in Accounts
            <4>1. /\ Settled(p.drop, m, p.to[m])
                  /\ p.source[m] = pool[p.drop][m].source
                  /\ m \in Moments
                BY <2>3, <2>4 DEF Honest, ReqType
            <4>2. p.source[m] # None
                BY <4>1 DEF Settled
            <4>3. QED
                BY <2>3, <4>1, <4>2 DEF ReqType, Accounts
        <3>2. QED
            BY <2>5, <3>1
    <2>7. req' = [req EXCEPT ![r] = Batching(p, linked)]
        BY <1>2, <2>2, <2>5 DEF PlanBatches
    <2>8. PICK q : q = Batching(p, linked)
        OBVIOUS
    <2>9. /\ q \in ReqType /\ q.kind = "plan" /\ q.drop = p.drop
          /\ q.source = p.source /\ q.to = p.to /\ q.left = p.left /\ q.found = p.found
        BY <2>3, <2>4, <2>6, <2>8, BatchingPlans
    <2>10. QED
        BY <2>1, <2>3, <2>7, <2>8, <2>9
<1>3. CASE \E a \in Accounts : FindProvider(r, a)
    <2>1. PICK a \in Accounts : FindProvider(r, a)
        BY <1>3
    <2>2. req[r].kind = "plan" /\ a \in req[r].todo
        BY <2>1 DEF FindProvider, Running
    <2>3. PICK c \in reach[a] : req' = [req EXCEPT ![r] =
                Batching([req[r] EXCEPT !.controller[a] = c], req[r].todo \ {a})]
        BY <2>1 DEF FindProvider
    <2>4. c \in Controllers \union {None} \/ a \notin Linked
        BY DEF IInv, ChainOK
    <2>5. PICK p : p = [req[r] EXCEPT !.controller[a] = c]
        OBVIOUS
    <2>6. /\ p \in ReqType /\ p.kind = "plan" /\ p.drop = req[r].drop
          /\ p.source = req[r].source /\ p.to = req[r].to
          /\ p.left = req[r].left /\ p.found = req[r].found
        BY <1>1, <2>2, <2>4, <2>5 DEF ReqType
    <2>7. Honest(p)
        BY <1>1, <2>2, <2>6 DEF Honest
    <2>8. req[r].todo \ {a} \in SUBSET Accounts
        BY <1>1 DEF ReqType
    <2>9. PICK q : q = Batching(p, req[r].todo \ {a})
        OBVIOUS
    <2>10. /\ q \in ReqType /\ q.kind = "plan" /\ q.drop = p.drop
           /\ q.source = p.source /\ q.to = p.to /\ q.left = p.left /\ q.found = p.found
        BY <2>6, <2>7, <2>8, <2>9, BatchingPlans
    <2>11. QED
        BY <2>2, <2>3, <2>5, <2>6, <2>9, <2>10
<1>4. QED
    BY <1>2, <1>3

LEMMA PlanBatchesStep ==
    ASSUME IInv, NEW r \in Slots,
           PlanBatches(r) \/ \E a \in Accounts : FindProvider(r, a)
    PROVE  IInv'
<1>1. PICK q \in ReqType :
          /\ req' = [req EXCEPT ![r] = q]
          /\ q.kind = "plan" /\ q.drop = req[r].drop
          /\ q.source = req[r].source /\ q.to = req[r].to
          /\ q.left \subseteq req[r].left \union req[r].found
          /\ q.found = req[r].found
    BY PlanGoesOn
<1>2. req[r].kind = "plan"
    BY PlanGoesOn
<1>3. UNCHANGED <<chain, db, flight, moves, faults>>
    BY DEF PlanBatches, FindProvider
<1>4. QED
    BY <1>1, <1>2, <1>3, ReadStep

LEMMA LookAtSourcesStep ==
    ASSUME IInv, NEW r \in Slots, LookAtSources(r)
    PROVE  IInv'
<1>1. req[r] \in ReqType /\ Honest(req[r])
    BY DEF IInv, ReqsOK, Honest
<1>2. \A m \in req[r].left : req[r].source[m] \in Sources
    BY <1>1 DEF LookAtSources, Running, Honest, ReqType, Settled
<1>3. PICK q : q = [req[r] EXCEPT !.at = "sources",
              !.todo = {req[r].source[m] : m \in req[r].left \ req[r].found}]
    OBVIOUS
<1>4. /\ q \in ReqType /\ q.kind = req[r].kind /\ q.drop = req[r].drop
      /\ q.source = req[r].source /\ q.to = req[r].to
      /\ q.left = req[r].left /\ q.found = req[r].found
    <2>1. {req[r].source[m] : m \in req[r].left \ req[r].found} \in SUBSET Accounts
        BY <1>2 DEF Accounts
    <2>2. QED
        BY <1>1, <1>3, <2>1 DEF ReqType
<1>5. req' = [req EXCEPT ![r] = q] /\ q.kind = "verify"
    BY <1>3, <1>4 DEF LookAtSources, Running
<1>6. \A m \in q.found : <<m, q.to[m]>> \in held
    BY <1>1, <1>4, <1>5 DEF Honest
<1>7. QED
    BY <1>4, <1>5, <1>6, ReadStep DEF LookAtSources

LEMMA SimulateStep ==
    ASSUME IInv, NEW r \in Slots, NEW a \in Accounts, Simulate(r, a)
    PROVE  IInv'
<1>1. req[r] \in ReqType
    BY DEF IInv, ReqsOK, Honest
<1>2. CASE End(r)
    BY <1>2, RequestEnds DEF Simulate
<1>3. CASE ~End(r)
    <2>1. PICK q : q = [req[r] EXCEPT !.todo = @ \ {a},
                  !.at = IF req[r].todo = {a} THEN "send" ELSE "simulate"]
        OBVIOUS
    <2>2. /\ q \in ReqType /\ q.kind = req[r].kind /\ q.drop = req[r].drop
          /\ q.source = req[r].source /\ q.to = req[r].to
          /\ q.left = req[r].left /\ q.found = req[r].found
        BY <1>1, <2>1 DEF ReqType
    <2>3. req' = [req EXCEPT ![r] = q] /\ q.kind = "plan"
        BY <1>3, <2>1, <2>2 DEF Simulate, Running
    <2>4. QED
        BY <2>2, <2>3, ReadStep DEF Simulate
<1>4. QED
    BY <1>2, <1>3

(* Steps that end a request.                                               *)
LEMMA EndStep ==
    ASSUME IInv, NEW r \in Slots,
           \/ RefuseSeal(r) \/ NothingReady(r) \/ NothingRead(r) \/ Stop(r)
           \/ \E a \in Accounts : RefuseNotParent(r, a)
    PROVE  IInv'
BY RequestEnds DEF RefuseSeal, NothingReady, NothingRead, Stop, RefuseNotParent

(* A part of a request's record, whatever happens around it.               *)
LEMMA RestIsHonest ==
    ASSUME TablesOK, Steady, TablesOK', ReqsOK, NEW r \in Slots, NEW q \in ReqType,
           req' = [req EXCEPT ![r] = q],
           /\ q.kind = req[r].kind /\ q.drop = req[r].drop
           /\ q.source = req[r].source /\ q.to = req[r].to
           /\ q.left \subseteq req[r].left /\ q.found = req[r].found
    PROVE  ReqsOK'
<1>1. Honest(q)
    BY DEF ReqsOK, Honest
<1>2. req'[r] = q
    BY DEF ReqsOK
<1>3. Honest(req[r])'
    BY <1>1, <1>2, KeepHonest DEF Honest
<1>4. QED
    BY <1>3, MoveReq

LEMMA IdleIsHonest ==
    ASSUME TablesOK, Steady, TablesOK', ReqsOK, NEW r \in Slots,
           req' = [req EXCEPT ![r] = Idle]
    PROVE  ReqsOK'
<1>1. req'[r] = Idle
    BY DEF ReqsOK
<1>2. Honest(req[r])'
    BY <1>1, NothingIsTyped DEF Honest, Idle
<1>3. QED
    BY <1>2, MoveReq

LEMMA WrittenStep ==
    ASSUME TablesOK, Steady, TablesOK', ReqsOK, NEW r \in Slots, NEW m \in Moments,
           Written(r, m)
    PROVE  ReqsOK'
<1>1. req[r] \in ReqType
    BY DEF ReqsOK, Honest
<1>2. CASE req[r].left = {m}
    BY <1>2, IdleIsHonest DEF Written, End
<1>3. CASE req[r].left # {m}
    <2>1. PICK q : q = [req[r] EXCEPT !.at = "write", !.left = @ \ {m}]
        OBVIOUS
    <2>2. /\ q \in ReqType /\ q.kind = req[r].kind /\ q.drop = req[r].drop
          /\ q.source = req[r].source /\ q.to = req[r].to
          /\ q.left \subseteq req[r].left /\ q.found = req[r].found
        BY <1>1, <2>1 DEF ReqType
    <2>3. req' = [req EXCEPT ![r] = q]
        BY <1>3, <2>1 DEF Written
    <2>4. QED
        BY <2>2, <2>3, RestIsHonest
<1>4. QED
    BY <1>2, <1>3

LEMMA SkipRowStep ==
    ASSUME IInv, NEW r \in Slots, NEW m \in Moments, SkipRow(r, m)
    PROVE  IInv'
<1>1. Steady /\ ChainOK' /\ TablesOK' /\ ClaimsOK' /\ StampsOK'
    BY Outside DEF SkipRow
<1>2. ReqsOK' /\ FlightsOK'
    BY <1>1, WrittenStep, KeepFlights DEF SkipRow, IInv
<1>3. CountsOK'
    BY NumberAssumption DEF IInv, CountsOK, Fault, SkipRow
<1>4. QED
    BY <1>1, <1>2, <1>3 DEF IInv

LEMMA WriteRowStep ==
    ASSUME IInv, NEW r \in Slots, NEW m \in Moments, WriteRow(r, m)
    PROVE  IInv' /\ Steady
<1>1. PICK d \in Drops : d = req[r].drop
    BY DEF WriteRow, IInv, ReqsOK, Honest
<1>2. PICK to \in Recipients : to = req[r].to[m] /\ Settled(d, m, to)
    BY <1>1 DEF WriteRow, IInv, ReqsOK, Honest, Settled
<1>3. m \in req[r].found => <<m, to>> \in held
    BY <1>2 DEF WriteRow, IInv, ReqsOK, Honest
<1>4. /\ pool' = [pool EXCEPT ![d][m].delivered = @ \/ Stamps(r, m)]
      /\ UNCHANGED <<status, claims>> /\ UNCHANGED <<held>>
    BY <1>1 DEF WriteRow, chain
<1>5. PICK row : row = [pool[d][m] EXCEPT !.delivered = @ \/ Stamps(r, m)]
    OBVIOUS
<1>6. /\ row \in RowType
      /\ row.source = pool[d][m].source /\ row.pack = pool[d][m].pack
      /\ row.delivered => pool[d][m].delivered \/ Stamps(r, m)
    <2>1. pool[d][m] \in RowType
        BY DEF IInv, TablesOK
    <2>2. Stamps(r, m) \in BOOLEAN
        BY DEF Stamps
    <2>3. PICK stamped \in BOOLEAN : stamped = (pool[d][m].delivered \/ Stamps(r, m))
        <3>1. pool[d][m].delivered \in BOOLEAN
            BY <2>1 DEF RowType
        <3>2. (pool[d][m].delivered \/ Stamps(r, m)) \in BOOLEAN
            BY <2>2, <3>1
        <3>3. QED
            BY <3>2, Zenon
    <2>4. row = [pool[d][m] EXCEPT !.delivered = stamped]
        BY <1>5, <2>3, Zenon
    <2>5. row \in RowType /\ row.source = pool[d][m].source /\ row.pack = pool[d][m].pack
          /\ row.delivered = stamped
        BY <2>1, <2>4 DEF RowType
    <2>6. QED
        BY <2>3, <2>5, Zenon
<1>7. /\ pool' \in [Drops -> [Moments -> RowType]]
      /\ \A e \in Drops, n \in Moments :
            pool'[e][n] = IF e = d /\ n = m THEN row ELSE pool[e][n]
    BY <1>4, <1>5, <1>6 DEF IInv, TablesOK
<1>8. \A e \in Drops, n \in Moments :
          pool'[e][n].source = pool[e][n].source /\ pool'[e][n].pack = pool[e][n].pack
    BY <1>6, <1>7
<1>9. TablesOK'
    BY <1>4, <1>7, <1>8 DEF IInv, TablesOK
<1>10. \A e \in Drops, n \in Moments, a \in Recipients :
           Settled(e, n, a) => Settled(e, n, a)'
    BY <1>4, <1>8 DEF Settled, Sealed
<1>11. Steady
    BY <1>4, <1>8, <1>10 DEF Steady
<1>12. ClaimsOK'
    BY <1>4 DEF IInv, ClaimsOK, Sealed
<1>13. StampsOK'
    <2>1. ASSUME NEW e \in Drops, NEW n \in Moments, pool'[e][n].delivered
          PROVE  \E a \in Recipients : Settled(e, n, a)' /\ <<n, a>> \in held'
        <3>1. CASE pool[e][n].delivered
            BY <3>1, <1>4, <1>10 DEF IInv, StampsOK
        <3>2. CASE ~pool[e][n].delivered
            <4>1. e = d /\ n = m /\ Stamps(r, m)
                BY <2>1, <3>2, <1>6, <1>7
            <4>2. QED
                BY <4>1, <1>2, <1>3, <1>4, <1>10 DEF Stamps
        <3>3. QED
            BY <3>1, <3>2
    <2>2. QED
        BY <2>1 DEF StampsOK
<1>14. ReqsOK' /\ FlightsOK'
    BY <1>9, <1>11, WrittenStep, KeepFlights DEF WriteRow, IInv
<1>15. QED
    BY <1>11, <1>9, <1>12, <1>13, <1>14
    DEF WriteRow, IInv, chain, ChainOK, CountsOK
-----------------------------------------------------------------------------
(* Transactions.                                                           *)

LEMMA EmptyIsLoaded ==
    ASSUME FlightsOK, NEW f \in Flights, flight' = [flight EXCEPT ![f] = NoFlight]
    PROVE  Loaded(flight[f])'
<1>1. flight'[f] = NoFlight
    BY DEF FlightsOK
<1>2. QED
    BY <1>1, NothingIsTyped DEF Loaded, NoFlight, Nobody

LEMMA AnsweredStep ==
    ASSUME TablesOK, Steady, TablesOK', ReqsOK, NEW f, NEW executed, Answered(f, executed)
    PROVE  ReqsOK'
<1>1. ASSUME NEW r \in Slots
      PROVE  Honest(req[r])'
    <2>1. Honest(req[r]) /\ req[r] \in ReqType
        BY DEF ReqsOK, Honest
    <2>2. CASE req'[r] = req[r]
        BY <2>1, <2>2, KeepReq
    <2>3. CASE req'[r] = Idle
        BY <2>3, NothingIsTyped DEF Honest, Idle
    <2>4. CASE req'[r] = [req[r] EXCEPT !.at = "send", !.flight = None]
        <3>1. PICK q : q = [req[r] EXCEPT !.at = "send", !.flight = None]
            OBVIOUS
        <3>2. /\ q \in ReqType /\ q.kind = req[r].kind /\ q.drop = req[r].drop
              /\ q.source = req[r].source /\ q.to = req[r].to
              /\ q.left = req[r].left /\ q.found = req[r].found
            BY <2>1, <3>1 DEF ReqType
        <3>3. Honest(q)
            BY <2>1, <3>2 DEF Honest
        <3>4. req'[r] = q
            BY <2>4, <3>1
        <3>5. QED
            BY <3>2, <3>3, <3>4, KeepHonest DEF Honest
    <2>5. QED
        BY <2>2, <2>3, <2>4 DEF Answered
<1>2. req' = [r \in Slots |-> req'[r]]
    BY DEF Answered
<1>3. QED
    BY <1>1, <1>2 DEF ReqsOK

LEMMA GoneStep ==
    ASSUME IInv, NEW f \in Flights, Revert(f) \/ ExpireFlight(f)
    PROVE  IInv'
<1>1. /\ UNCHANGED chain /\ UNCHANGED db /\ Answered(f, FALSE)
      /\ UNCHANGED moves /\ (faults' = faults \/ Fault)
      /\ flight' = [flight EXCEPT ![f] = NoFlight]
    BY DEF Revert, ExpireFlight
<1>2. Steady /\ ChainOK' /\ TablesOK' /\ ClaimsOK' /\ StampsOK'
    BY <1>1, Outside
<1>3. ReqsOK'
    BY <1>1, <1>2, AnsweredStep DEF IInv
<1>4. FlightsOK'
    BY <1>1, <1>2, EmptyIsLoaded, MoveFlight DEF IInv
<1>5. CountsOK'
    BY <1>1, NumberAssumption DEF IInv, CountsOK, Fault
<1>6. QED
    BY <1>2, <1>3, <1>4, <1>5 DEF IInv

LEMMA LandStep ==
    ASSUME IInv, NEW f \in Flights, Land(f)
    PROVE  IInv'
<1>1. flight[f].to \in [Moments -> Recipients \union {None}]
    BY DEF IInv, FlightsOK, Loaded, FlightType, Sending
<1>2. ChainOK'
    <2>1. \A m \in Aboard(f) : m \in Moments /\ flight[f].to[m] \in Accounts
        BY <1>1 DEF Aboard, Accounts
    <2>2. held' \subseteq Moments \X Accounts
        BY <2>1 DEF Land, IInv, ChainOK
    <2>3. at' \in [Moments -> Accounts]
        BY <2>1 DEF Land, IInv, ChainOK
    <2>4. \A m \in Moments : <<m, at'[m]>> \in held'
        BY DEF Land, IInv, ChainOK
    <2>5. QED
        BY <2>2, <2>3, <2>4 DEF Land, IInv, ChainOK
<1>3. TablesOK' /\ ClaimsOK'
    BY DEF Land, db, IInv, TablesOK, ClaimsOK, Sealed
<1>4. Steady
    BY TablesAlone DEF Land
<1>5. StampsOK'
    BY <1>3, <1>4, KeepStamps DEF Land, db
<1>6. ReqsOK'
    BY <1>3, <1>4, AnsweredStep DEF Land, IInv
<1>7. FlightsOK'
    BY <1>3, <1>4, EmptyIsLoaded, MoveFlight DEF Land, IInv
<1>8. QED
    BY <1>2, <1>3, <1>5, <1>6, <1>7 DEF IInv, CountsOK, Land

LEMMA SendStep ==
    ASSUME IInv, NEW r \in Slots, NEW f \in Flights, NEW batch \in SUBSET Moments,
           Send(r, f, batch)
    PROVE  IInv'
<1>1. req[r] \in ReqType /\ Honest(req[r]) /\ req[r].kind = "plan"
    BY DEF IInv, ReqsOK, Honest, Send, Running
<1>2. Steady /\ ChainOK' /\ TablesOK' /\ ClaimsOK' /\ StampsOK'
    BY Outside DEF Send
<1>3. PICK a \in Sources :
          /\ batch \subseteq {m \in req[r].left : req[r].source[m] = a}
          /\ flight' = [flight EXCEPT ![f] =
                [drop |-> req[r].drop, source |-> a, to |-> Addressed(r, batch),
                 controller |-> Through(req[r], a)]]
    BY DEF Send
<1>4. PICK b : b = [drop |-> req[r].drop, source |-> a, to |-> Addressed(r, batch),
                    controller |-> Through(req[r], a)]
    OBVIOUS
<1>5. Addressed(r, batch) \in Sending
    BY <1>1 DEF Addressed, ReqType, Sending
<1>6. b \in FlightType
    <2>1. Through(req[r], a) \in Controllers \union {None}
        BY <1>1 DEF Through, ReqType, Linked
    <2>2. QED
        BY <1>1, <1>4, <1>5, <2>1 DEF FlightType, ReqType
<1>7. Loaded(b)
    <2>1. ASSUME NEW m \in Moments, b.to[m] # None
          PROVE  Settled(b.drop, m, b.to[m]) /\ b.source = pool[b.drop][m].source
        <3>1. m \in batch /\ b.to[m] = req[r].to[m]
            BY <1>4, <2>1 DEF Addressed
        <3>2. m \in req[r].left /\ req[r].source[m] = a
            BY <1>3, <3>1
        <3>3. QED
            BY <1>1, <1>4, <3>1, <3>2 DEF Honest
    <2>2. QED
        BY <1>6, <2>1 DEF Loaded
<1>8. flight'[f] = b
    BY <1>3, <1>4 DEF IInv, FlightsOK
<1>9. Loaded(flight[f])'
    BY <1>7, <1>8 DEF Send, db, Loaded, Settled, Sealed
<1>10. FlightsOK'
    BY <1>2, <1>3, <1>4, <1>9, MoveFlight DEF IInv
<1>11. PICK q : q = [req[r] EXCEPT !.at = "wait", !.left = @ \ batch, !.flight = f]
    OBVIOUS
<1>12. /\ q \in ReqType /\ q.kind = req[r].kind /\ q.drop = req[r].drop
       /\ q.source = req[r].source /\ q.to = req[r].to
       /\ q.left \subseteq req[r].left /\ q.found = req[r].found
    BY <1>1, <1>11 DEF ReqType
<1>13. req' = [req EXCEPT ![r] = q]
    BY <1>11 DEF Send
<1>14. ReqsOK'
    BY <1>2, <1>12, <1>13, RestIsHonest DEF IInv
<1>15. QED
    BY <1>2, <1>10, <1>14 DEF Send, IInv, CountsOK
-----------------------------------------------------------------------------
(* The accounts' owners, and the database's statements.                    *)

LEMMA OwnersStep ==
    ASSUME IInv, Owners
    PROVE  IInv'
<1>1. TablesOK' /\ ClaimsOK'
    BY DEF Owners, db, IInv, TablesOK, ClaimsOK, Sealed
<1>2. held \subseteq held'
    BY DEF Owners
<1>3. Steady
    BY <1>2, TablesAlone DEF Owners
<1>4. StampsOK'
    BY <1>1, <1>3, KeepStamps DEF Owners, db
<1>5. ReqsOK' /\ FlightsOK'
    BY <1>1, <1>3, KeepReqs, KeepFlights DEF Owners, IInv
<1>6. CountsOK'
    BY NumberAssumption DEF Owners, IInv, CountsOK
<1>7. ChainOK'
    <2>1. ASSUME NEW m \in Moments, NEW a \in Accounts,
                 at' = [at EXCEPT ![m] = a], held' = held \union {<<m, a>>},
                 UNCHANGED <<locked, deaf, reach>>
          PROVE  ChainOK'
        BY <2>1 DEF IInv, ChainOK
    <2>2. CASE UNCHANGED <<at, held, deaf, reach>> /\ locked' \subseteq Moments
        BY <2>2 DEF IInv, ChainOK
    <2>3. CASE UNCHANGED <<at, held, locked, reach>> /\ deaf' \subseteq Recipients
        BY <2>3 DEF IInv, ChainOK
    <2>4. ASSUME NEW a \in Linked, NEW cs \in SUBSET Controllers,
                 reach' = [reach EXCEPT ![a] = cs], UNCHANGED <<at, held, locked, deaf>>
          PROVE  ChainOK'
        BY <2>4 DEF IInv, ChainOK
    <2>5. QED
        BY <2>1, <2>2, <2>3, <2>4 DEF Owners, IInv, ChainOK
<1>8. QED
    BY <1>1, <1>4, <1>5, <1>6, <1>7 DEF IInv

(* A step of the database alone.                                           *)
LEMMA StatementStep ==
    ASSUME IInv, UNCHANGED <<chain, req, flight, moves, faults>>,
           TablesOK', Steady, ClaimsOK',
           \A d \in Drops, m \in Moments :
               pool'[d][m].delivered => pool[d][m].delivered
    PROVE  IInv'
<1>1. StampsOK'
    BY KeepStamps
<1>2. ReqsOK' /\ FlightsOK'
    BY KeepReqs, KeepFlights DEF IInv
<1>3. ChainOK' /\ CountsOK'
    BY DEF IInv, chain, ChainOK, CountsOK
<1>4. QED
    BY <1>1, <1>2, <1>3 DEF IInv

LEMMA DraftStep ==
    ASSUME IInv, NEW d \in Drops, Draft(d)
    PROVE  IInv' /\ Steady
<1>1. PICK source \in [Moments -> Sources \union {None}] :
          pool' = [pool EXCEPT ![d] =
                [m \in Moments |-> [NoRow EXCEPT !.source = source[m]]]]
    BY DEF Draft
<1>2. \A m \in Moments :
          /\ pool'[d][m] \in RowType
          /\ pool'[d][m].pack = 0 /\ ~pool'[d][m].delivered
    BY <1>1 DEF IInv, TablesOK, NoRow, RowType
<1>3. \A e \in Drops \ {d} : pool'[e] = pool[e] /\ status'[e] = status[e]
    BY <1>1 DEF Draft, IInv, TablesOK
<1>4. pool' = [e \in Drops |-> pool'[e]] /\ pool'[d] = [m \in Moments |-> pool'[d][m]]
    BY <1>1 DEF IInv, TablesOK
<1>5. pool' \in [Drops -> [Moments -> RowType]]
    <2>1. pool'[d] \in [Moments -> RowType]
        BY <1>2, <1>4
    <2>2. \A e \in Drops : pool'[e] \in [Moments -> RowType]
        BY <2>1, <1>3 DEF IInv, TablesOK
    <2>3. QED
        BY <1>4, <2>2
<1>6. TablesOK'
    BY <1>2, <1>3, <1>5 DEF Draft, IInv, TablesOK
<1>7. Steady
    BY <1>3 DEF Draft, Steady, Settled, Sealed, chain
<1>8. ClaimsOK'
    BY <1>3 DEF Draft, IInv, ClaimsOK, Sealed
<1>9. QED
    BY <1>2, <1>3, <1>6, <1>7, <1>8, StatementStep DEF Draft

LEMMA DeleteDraftStep ==
    ASSUME IInv, NEW d \in Drops, DeleteDraft(d)
    PROVE  IInv' /\ Steady
<1>1. \A m \in Moments : pool'[d][m] = NoRow
    BY DEF DeleteDraft, IInv, TablesOK
<1>2. \A e \in Drops \ {d} : pool'[e] = pool[e] /\ status'[e] = status[e]
    BY DEF DeleteDraft, IInv, TablesOK
<1>3. TablesOK'
    <2>1. pool' \in [Drops -> [Moments -> RowType]]
        BY NothingIsTyped DEF DeleteDraft, IInv, TablesOK
    <2>2. QED
        BY <1>1, <1>2, <2>1 DEF DeleteDraft, IInv, TablesOK, NoRow
<1>4. Steady
    BY <1>2 DEF DeleteDraft, IInv, TablesOK, Steady, Settled, Sealed, chain
<1>5. ClaimsOK'
    BY <1>2 DEF DeleteDraft, IInv, ClaimsOK, Sealed
<1>6. \A e \in Drops, m \in Moments : pool'[e][m].delivered => pool[e][m].delivered
    BY <1>1, <1>2 DEF NoRow
<1>7. QED
    BY <1>3, <1>4, <1>5, <1>6, StatementStep DEF DeleteDraft

LEMMA SetStatusStep ==
    ASSUME IInv, NEW d \in Drops, OpenDrop(d) \/ CloseDrop(d)
    PROVE  IInv' /\ Steady
<1>1. /\ status' \in [Drops -> {"none", "draft", "sealed", "open", "closed", "deleted"}]
      /\ Sealed(d) /\ Sealed(d)'
      /\ \A e \in Drops \ {d} : status'[e] = status[e]
    BY DEF OpenDrop, CloseDrop, SetStatus, IInv, TablesOK, Sealed
<1>2. UNCHANGED <<pool, claims>> /\ UNCHANGED <<chain, req, flight, moves, faults>>
    BY DEF OpenDrop, CloseDrop, SetStatus
<1>3. TablesOK' /\ ClaimsOK'
    BY <1>1, <1>2 DEF IInv, TablesOK, ClaimsOK, Sealed
<1>4. Steady
    BY <1>1, <1>2 DEF Steady, Settled, Sealed, chain
<1>5. QED
    BY <1>2, <1>3, <1>4, StatementStep

LEMMA ClaimPackStep ==
    ASSUME IInv, NEW d \in Drops, NEW user \in Users, NEW to \in RecipientsOf[user],
           ClaimPack(d, user, to)
    PROVE  IInv' /\ Steady
<1>1. to \in Recipients /\ to # None
    BY AccountAssumption DEF Accounts
<1>2. PICK p \in Packs :
          /\ claims[d][p] = NoClaim
          /\ claims' = [claims EXCEPT ![d][p] = [user |-> user, to |-> to]]
    BY DEF ClaimPack, Unclaimed
<1>3. \A e \in Drops, n \in Packs :
          claims'[e][n] = IF e = d /\ n = p THEN [user |-> user, to |-> to]
                          ELSE claims[e][n]
    BY <1>2 DEF IInv, TablesOK
<1>4. UNCHANGED <<pool, status>> /\ UNCHANGED <<chain, req, flight, moves, faults>>
    BY DEF ClaimPack
<1>5. TablesOK'
    <2>1. [user |-> user, to |-> to] \in ClaimType
        BY <1>1 DEF ClaimType
    <2>2. claims' \in [Drops -> [Packs -> ClaimType]]
        BY <1>2, <2>1 DEF IInv, TablesOK
    <2>3. QED
        BY <1>4, <2>2 DEF IInv, TablesOK
<1>6. ClaimsOK'
    BY <1>1, <1>3, <1>4 DEF ClaimPack, IInv, ClaimsOK, Sealed
<1>7. ASSUME NEW e \in Drops, NEW m \in Moments, NEW a \in Recipients, Settled(e, m, a)
      PROVE  Settled(e, m, a)'
    <2>1. pool[e][m].pack \in Packs /\ a # None
        BY <1>7, AccountAssumption DEF IInv, TablesOK, RowType, Settled, Accounts
    <2>2. ~(e = d /\ pool[e][m].pack = p)
        BY <1>2, <1>7, <2>1 DEF Settled, NoClaim
    <2>3. QED
        BY <1>3, <1>4, <1>7, <2>1, <2>2 DEF Settled, Sealed
<1>8. Steady
    BY <1>4, <1>7 DEF Steady, chain
<1>9. QED
    BY <1>4, <1>5, <1>6, <1>8, StatementStep

LEMMA SealStep ==
    ASSUME IInv, NEW r \in Slots, Seal(r)
    PROVE  IInv' /\ Steady
<1>1. req[r] \in ReqType /\ Honest(req[r]) /\ req[r].kind = "seal"
    BY DEF IInv, ReqsOK, Honest, Seal, Running
<1>2. PICK d \in Drops : d = req[r].drop
    BY <1>1 DEF Honest
<1>3. /\ status[d] = "draft"
      /\ \A m \in req[r].left : m \in Moments /\ pool[d][m].source # None
    BY <1>1, <1>2 DEF Seal, CanSeal, Honest, ReqType
<1>4. PICK deal \in [req[r].left -> Packs] :
          pool' = [pool EXCEPT ![d] = [m \in Moments |->
              IF m \in req[r].left THEN [@[m] EXCEPT !.pack = deal[m]] ELSE @[m]]]
    BY <1>2 DEF Seal, Deals
<1>5. \A m \in Moments :
          pool'[d][m] = IF m \in req[r].left THEN [pool[d][m] EXCEPT !.pack = deal[m]]
                        ELSE pool[d][m]
    BY <1>4 DEF IInv, TablesOK
<1>6. \A m \in Moments :
          /\ pool'[d][m] \in RowType
          /\ pool'[d][m].source = pool[d][m].source
          /\ pool'[d][m].delivered = pool[d][m].delivered
          /\ pool'[d][m].pack # 0 => pool'[d][m].source # None
    <2>1. ASSUME NEW m \in req[r].left
          PROVE  /\ pool'[d][m] \in RowType
                 /\ pool'[d][m].source = pool[d][m].source
                 /\ pool'[d][m].delivered = pool[d][m].delivered
        <3>1. /\ pool[d][m] \in RowType /\ deal[m] \in Packs
              /\ pool'[d][m] = [pool[d][m] EXCEPT !.pack = deal[m]]
            BY <1>3, <1>5 DEF IInv, TablesOK
        <3>2. QED
            BY <3>1 DEF RowType
    <2>2. ASSUME NEW m \in Moments \ req[r].left
          PROVE  /\ pool'[d][m] = pool[d][m] /\ pool[d][m] \in RowType
                 /\ pool[d][m].pack # 0 => pool[d][m].source # None
        BY <1>5 DEF IInv, TablesOK
    <2>3. QED
        BY <1>3, <2>1, <2>2
<1>7. \A e \in Drops \ {d} : pool'[e] = pool[e] /\ status'[e] = status[e]
    BY <1>2, <1>4 DEF Seal, IInv, TablesOK
<1>8. TablesOK'
    <2>1. pool'[d] \in [Moments -> RowType]
        <3>1. pool'[d] = [m \in Moments |-> pool'[d][m]]
            BY <1>4 DEF IInv, TablesOK
        <3>2. QED
            BY <3>1, <1>6
    <2>2. pool' \in [Drops -> [Moments -> RowType]]
        <3>1. pool' = [e \in Drops |-> pool'[e]]
            BY <1>4 DEF IInv, TablesOK
        <3>2. \A e \in Drops : pool'[e] \in [Moments -> RowType]
            BY <1>7, <2>1 DEF IInv, TablesOK
        <3>3. QED
            BY <3>1, <3>2
    <2>3. /\ status' \in [Drops -> {"none", "draft", "sealed", "open", "closed",
                                   "deleted"}]
          /\ claims' \in [Drops -> [Packs -> ClaimType]]
        BY <1>2 DEF Seal, IInv, TablesOK
    <2>4. \A e \in Drops, m \in Moments :
              pool'[e][m].pack # 0 => pool'[e][m].source # None
        BY <1>6, <1>7 DEF IInv, TablesOK
    <2>5. QED
        BY <2>2, <2>3, <2>4 DEF TablesOK
<1>9. Steady
    <2>1. \A e \in Drops, m \in Moments, a \in Recipients :
              Settled(e, m, a) => e # d
        BY <1>3 DEF Settled, Sealed
    <2>2. status'[d] = "sealed"
        BY <1>2 DEF Seal, IInv, TablesOK
    <2>3. UNCHANGED <<claims, held>>
        BY DEF Seal, chain
    <2>4. \A e \in Drops, m \in Moments, a \in Recipients :
              Settled(e, m, a) => Settled(e, m, a)'
        BY <1>7, <2>1, <2>3 DEF Settled, Sealed
    <2>5. QED
        BY <1>7, <2>1, <2>2, <2>3, <2>4 DEF Steady
<1>10. ClaimsOK'
    BY <1>2, <1>3, <1>7 DEF Seal, IInv, ClaimsOK, Sealed
<1>11. StampsOK'
    BY <1>6, <1>7, <1>8, <1>9, KeepStamps
<1>12. ReqsOK' /\ FlightsOK'
    BY <1>8, <1>9, IdleIsHonest, KeepFlights DEF Seal, End, IInv
<1>13. QED
    BY <1>9, <1>8, <1>10, <1>11, <1>12 DEF Seal, IInv, chain, ChainOK, CountsOK
-----------------------------------------------------------------------------
LEMMA InitStep == Init => IInv
<1>1. Init => ChainOK
    <2> SUFFICES ASSUME Init PROVE ChainOK
        OBVIOUS
    <2>1. at \in [Moments -> Sources] /\ reach \in [Linked -> SUBSET Controllers]
        BY AccountAssumption DEF Init
    <2>2. QED
        BY <2>1 DEF Init, ChainOK, Accounts
<1>2. Init => TablesOK /\ ClaimsOK /\ StampsOK
    <2> SUFFICES ASSUME Init PROVE TablesOK /\ ClaimsOK /\ StampsOK
        OBVIOUS
    <2>1. /\ pool = [d \in Drops |-> [m \in Moments |-> NoRow]]
          /\ claims = [d \in Drops |-> [p \in Packs |-> NoClaim]]
          /\ status = [d \in Drops |-> "none"]
        BY DEF Init
    <2>2. TablesOK
        BY <2>1, NothingIsTyped DEF TablesOK, NoRow
    <2>3. ClaimsOK /\ StampsOK
        BY <2>1 DEF ClaimsOK, StampsOK, NoRow
    <2>4. QED
        BY <2>2, <2>3
<1>3. Init => ReqsOK
    <2>1. Honest(Idle)
        BY NothingIsTyped DEF Honest, Idle
    <2>2. QED
        BY <2>1 DEF Init, ReqsOK
<1>4. Init => FlightsOK
    <2>1. Loaded(NoFlight)
        BY NothingIsTyped DEF Loaded, NoFlight, Nobody
    <2>2. QED
        BY <2>1 DEF Init, FlightsOK
<1>5. Init => CountsOK
    BY NumberAssumption DEF Init, CountsOK
<1>6. QED
    BY <1>1, <1>2, <1>3, <1>4, <1>5 DEF IInv

LEMMA NextStep == IInv /\ [Next]_vars => IInv'
<1> SUFFICES ASSUME IInv, [Next]_vars PROVE IInv'
    OBVIOUS
<1>1. ASSUME NEW d \in Drops,
             \/ Draft(d) \/ DeleteDraft(d) \/ OpenDrop(d) \/ CloseDrop(d)
             \/ \E user \in Users : \E to \in RecipientsOf[user] : ClaimPack(d, user, to)
      PROVE  IInv'
    <2>1. ASSUME NEW user \in Users, NEW to \in RecipientsOf[user], ClaimPack(d, user, to)
          PROVE  IInv'
        BY <2>1, AccountAssumption, ClaimPackStep
    <2>2. QED
        BY <1>1, <2>1, DraftStep, DeleteDraftStep, SetStatusStep DEF OpenDrop, CloseDrop
<1>2. ASSUME NEW d \in Drops, NEW r \in Slots,
             StartSeal(r, d) \/ StartPlan(r, d) \/ StartVerify(r, d)
      PROVE  IInv'
    BY <1>2, StartSealStep, StartPlanStep, StartVerifyStep
<1>3. ASSUME NEW r \in Slots, Proceed(r)
      PROVE  IInv'
    <2>1. ASSUME NEW a \in Accounts,
                 \/ ReadSource(r, a) \/ ReadRecipient(r, a) \/ ReadKept(r, a)
                 \/ FindProvider(r, a) \/ RefuseNotParent(r, a) \/ Simulate(r, a)
          PROVE  IInv'
        BY <2>1, ReadSourceStep, ReadRecipientStep, SkipStep, SimulateStep, PlanBatchesStep,
           EndStep
    <2>2. ASSUME \/ RefuseSeal(r) \/ NothingReady(r) \/ NothingRead(r)
                 \/ Seal(r) \/ PlanBatches(r) \/ LookAtSources(r)
          PROVE  IInv'
        BY <2>2, EndStep, SealStep, PlanBatchesStep, LookAtSourcesStep
    <2>3. ASSUME NEW f \in Flights, NEW batch \in SUBSET Moments, Send(r, f, batch)
          PROVE  IInv'
        BY <2>3, SendStep
    <2>4. ASSUME NEW m \in Moments, WriteRow(r, m)
          PROVE  IInv'
        BY <2>4, WriteRowStep
    <2>5. QED
        BY <1>3, <2>1, <2>2, <2>3, <2>4 DEF Proceed, Read
<1>4. ASSUME NEW r \in Slots, Fail(r)
      PROVE  IInv'
    <2>1. ASSUME NEW a \in Accounts, SkipRecipient(r, a) \/ SkipSource(r, a)
          PROVE  IInv'
        BY <2>1, SkipStep
    <2>2. ASSUME NEW m \in Moments, SkipRow(r, m)
          PROVE  IInv'
        BY <2>2, SkipRowStep
    <2>3. QED
        BY <1>4, <2>1, <2>2, EndStep DEF Fail
<1>5. ASSUME NEW f \in Flights, Land(f) \/ Revert(f) \/ ExpireFlight(f)
      PROVE  IInv'
    BY <1>5, LandStep, GoneStep
<1>6. CASE UNCHANGED vars
    <2>1. Steady /\ ChainOK' /\ TablesOK' /\ ClaimsOK' /\ StampsOK'
        BY <1>6, Outside DEF vars, chain, db
    <2>2. ReqsOK' /\ FlightsOK' /\ CountsOK'
        BY <1>6, <2>1, KeepReqs, KeepFlights DEF vars, IInv, CountsOK
    <2>3. QED
        BY <2>1, <2>2 DEF IInv
<1>7. QED
    BY <1>1, <1>2, <1>3, <1>4, <1>5, <1>6, OwnersStep DEF Next

LEMMA Invariant == Spec => []IInv
BY InitStep, NextStep, PTL DEF Spec
-----------------------------------------------------------------------------
(* Every variable keeps its type.                                          *)
THEOREM TypeCorrect == Spec => []TypeOK
<1>1. IInv => TypeOK
    BY DEF IInv, ChainOK, TablesOK, ReqsOK, FlightsOK, CountsOK, Honest, Loaded, TypeOK
<1>2. QED
    BY <1>1, Invariant, PTL

(* A signed transaction, however late it executes, sends a moment only     *)
(* from the account it was pooled in to the one that claimed its pack      *)
(* (deliver.ts, adminSendToSeal's unconfirmed seal).                       *)
THEOREM SentToWinners == Spec => []OnlyToItsWinner
<1>1. IInv => OnlyToItsWinner
    <2>1. ASSUME IInv, NEW f \in Flights, NEW m \in Moments, flight[f].to[m] # None
          PROVE  /\ flight[f].to[m] = Winner(flight[f].drop, m)
                 /\ flight[f].source = pool[flight[f].drop][m].source
        BY <2>1, SettledIsWinner DEF IInv, FlightsOK, Loaded
    <2>2. QED
        BY <2>1 DEF OnlyToItsWinner
<1>2. QED
    BY <1>1, Invariant, PTL

(* delivered_at is stamped only for a moment that has been in its winner's *)
(* account (verifyDeliveries).                                             *)
THEOREM DeliveriesReached == Spec => []DeliveredReachedWinner
<1>1. IInv => DeliveredReachedWinner
    <2>1. ASSUME IInv, NEW d \in Drops, NEW m \in Moments, pool[d][m].delivered
          PROVE  <<m, Winner(d, m)>> \in held
        BY <2>1, SettledIsWinner DEF IInv, StampsOK
    <2>2. QED
        BY <2>1 DEF DeliveredReachedWinner
<1>2. QED
    BY <1>1, Invariant, PTL
-----------------------------------------------------------------------------
(* What PacksStand asks of a step.                                         *)
Stands ==
    \A d \in Drops :
        /\ Sealed(d) => \A m \in Moments : pool'[d][m].pack = pool[d][m].pack
        /\ \A p \in Packs : claims[d][p] # NoClaim => claims'[d][p] = claims[d][p]

LEMMA ProceedStands ==
    ASSUME IInv, NEW r \in Slots, Proceed(r)
    PROVE  Stands
<1>1. ASSUME Seal(r)
      PROVE  Stands
    <2>1. req[r] \in ReqType /\ Honest(req[r]) /\ req[r].kind = "seal"
        BY <1>1 DEF IInv, ReqsOK, Honest, Seal, Running
    <2>2. PICK d \in Drops : d = req[r].drop
        BY <2>1 DEF Honest
    <2>3. /\ status[d] = "draft"
          /\ \A e \in Drops \ {d} : pool'[e] = pool[e]
        BY <1>1, <2>2 DEF Seal, CanSeal, IInv, TablesOK
    <2>4. QED
        BY <1>1, <2>3 DEF Seal, Stands, Sealed
<1>2. ASSUME NEW m \in Moments, WriteRow(r, m)
      PROVE  Stands
    <2>1. req[r] \in ReqType /\ Honest(req[r]) /\ req[r].kind = "verify"
        BY <1>2 DEF IInv, ReqsOK, Honest, WriteRow
    <2>2. PICK d \in Drops : d = req[r].drop
        BY <2>1 DEF Honest
    <2>3. PICK b : pool' = [pool EXCEPT ![d][m].delivered = b]
        BY <1>2, <2>2 DEF WriteRow
    <2>4. pool \in [Drops -> [Moments -> RowType]]
        BY DEF IInv, TablesOK
    <2>5. \A e \in Drops, n \in Moments : pool'[e][n].pack = pool[e][n].pack
        BY <2>3, <2>4 DEF RowType
    <2>6. QED
        BY <1>2, <2>5 DEF WriteRow, Stands
<1>3. ASSUME NEW f \in Flights, NEW batch \in SUBSET Moments, Send(r, f, batch)
      PROVE  UNCHANGED db
    BY <1>3 DEF Send
<1>4. UNCHANGED db => Stands
    BY DEF db, Stands
<1>5. QED
    BY <1>1, <1>2, <1>3, <1>4
       DEF Proceed, Read, ReadSource, ReadRecipient, ReadKept, RefuseSeal, PlanBatches,
           NothingReady, FindProvider, RefuseNotParent, Simulate, LookAtSources, NothingRead

LEMMA StatementStands ==
    ASSUME IInv, NEW d \in Drops,
           \/ Draft(d) \/ DeleteDraft(d) \/ OpenDrop(d) \/ CloseDrop(d)
           \/ \E user \in Users : \E to \in RecipientsOf[user] : ClaimPack(d, user, to)
    PROVE  Stands
<1>1. ASSUME NEW user \in Users, NEW to \in RecipientsOf[user], ClaimPack(d, user, to)
      PROVE  Stands
    <2>1. PICK p \in Unclaimed(d) :
              claims' = [claims EXCEPT ![d][p] = [user |-> user, to |-> to]]
        BY <1>1 DEF ClaimPack
    <2>2. \A e \in Drops, q \in Packs :
              claims[e][q] # NoClaim => claims'[e][q] = claims[e][q]
        BY <2>1 DEF Unclaimed, IInv, TablesOK
    <2>3. QED
        BY <1>1, <2>2 DEF ClaimPack, Stands
<1>2. ASSUME Draft(d) \/ DeleteDraft(d)
      PROVE  Stands
    <2>1. /\ status[d] \in {"none", "draft"}
          /\ UNCHANGED claims
          /\ \A e \in Drops \ {d} : pool'[e] = pool[e]
        BY <1>2 DEF Draft, DeleteDraft, IInv, TablesOK
    <2>2. QED
        BY <2>1 DEF Stands, Sealed
<1>3. ASSUME OpenDrop(d) \/ CloseDrop(d)
      PROVE  Stands
    BY <1>3 DEF OpenDrop, CloseDrop, SetStatus, Stands
<1>4. QED
    BY <1>1, <1>2, <1>3

(* No step deals a sealed drop's pack anew or takes a claimed pack from    *)
(* its claimer, whatever the request that takes it had read before         *)
(* (seal_giveaway_drop, claim_giveaway_pack).                              *)
THEOREM PacksStandForGood == Spec => PacksStand
<1>1. IInv /\ [Next]_vars => Stands
    <2> SUFFICES ASSUME IInv, [Next]_vars PROVE Stands
        OBVIOUS
    <2>1. UNCHANGED db => Stands
        BY DEF db, Stands
    <2>2. ASSUME NEW r \in Slots, NEW d \in Drops,
                 StartSeal(r, d) \/ StartPlan(r, d) \/ StartVerify(r, d)
          PROVE  UNCHANGED db
        BY <2>2 DEF StartSeal, StartPlan, StartVerify, Begin
    <2>3. ASSUME NEW r \in Slots, Fail(r)
          PROVE  UNCHANGED db
        BY <2>3 DEF Fail, Stop, SkipRecipient, SkipSource, SkipRow
    <2>4. ASSUME NEW f \in Flights, Land(f) \/ Revert(f) \/ ExpireFlight(f)
          PROVE  UNCHANGED db
        BY <2>4 DEF Land, Revert, ExpireFlight, db
    <2>5. Owners => UNCHANGED db
        BY DEF Owners
    <2>6. UNCHANGED vars => UNCHANGED db
        BY DEF vars, db
    <2>7. QED
        BY <2>1, <2>2, <2>3, <2>4, <2>5, <2>6, ProceedStands, StatementStands DEF Next
<1>2. QED
    BY <1>1, Invariant, PTL DEF Spec, PacksStand, Stands
-----------------------------------------------------------------------------
(* The raffle.  A drop not yet sealed has no packs, and a request that is  *)
(* to seal one has loaded the whole of its pool: so the deal it makes is   *)
(* the first, and leaves nothing out.                                      *)

PacksOK ==
    \A d \in Drops : ~Sealed(d) => \A m \in Moments : pool[d][m].pack = 0

WholePool(q) == q.kind = "seal" /\ status[q.drop] = "draft" => q.left = InPool(q.drop)

SealsOK == \A r \in Slots : WholePool(req[r])

RefInv == IInv /\ PacksOK /\ SealsOK

LEMMA KeepWholePool ==
    ASSUME IInv, Steady, NEW r \in Slots, WholePool(req[r]),
           req'[r].kind = "seal" =>
              /\ req[r].kind = "seal"
              /\ req'[r].drop = req[r].drop /\ req'[r].left = req[r].left
    PROVE  WholePool(req[r])'
<1> SUFFICES ASSUME req'[r].kind = "seal", status'[req'[r].drop] = "draft"
             PROVE  (req[r].left = InPool(req[r].drop))'
    BY Zenon DEF WholePool
<1>1. PICK d \in Drops : d = req[r].drop
    BY DEF IInv, ReqsOK, Honest
<1>2. status[d] # "none"
    BY <1>1 DEF IInv, ReqsOK, Honest
<1>3. status[d] = "draft" /\ \A m \in Moments : pool'[d][m].source = pool[d][m].source
    BY <1>1, <1>2 DEF Steady
<1>4. InPool(d)' = InPool(d)
    BY <1>3 DEF InPool
<1>5. req[r].left = InPool(d)
    BY <1>1, <1>3 DEF WholePool
<1>6. req'[r].left = req[r].left /\ req'[r].drop = d
    BY <1>1
<1>7. QED
    BY <1>4, <1>5, <1>6

(* A request that goes on keeps its kind and drop; only a plan or a        *)
(* verification gives up some of what it is about.                         *)
SealsOn ==
    \A s \in Slots : req'[s].kind = "seal" =>
        req[s].kind = "seal" /\ req'[s].drop = req[s].drop /\ req'[s].left = req[s].left

LEMMA KeepSeals ==
    ASSUME RefInv, Steady, SealsOn
    PROVE  SealsOK'
BY KeepWholePool DEF RefInv, SealsOK, SealsOn

LEMMA BeginSeals ==
    ASSUME RefInv, NEW r \in Slots, NEW d \in Drops,
           StartSeal(r, d) \/ StartPlan(r, d) \/ StartVerify(r, d)
    PROVE  SealsOK'
<1>1. Steady
    BY TablesAlone DEF StartSeal, StartPlan, StartVerify, Begin, chain
<1>2. PICK kind, about, accounts :
          /\ kind \in {"seal", "plan", "verify"} /\ about \in SUBSET Moments
          /\ Begin(r, kind, d, about, accounts) /\ (kind = "seal" => about = InPool(d))
    BY DEF StartSeal, StartPlan, StartVerify, InPool, Pending, Claimed
<1>3. PICK q : q = [Idle EXCEPT !.kind = kind, !.at = "read", !.drop = d,
                       !.source = [m \in Moments |-> pool[d][m].source],
                       !.to = [m \in Moments |-> Winner(d, m)],
                       !.todo = accounts, !.left = about]
    OBVIOUS
<1>4. q.kind = kind /\ q.drop = d /\ q.left = about
    BY <1>3 DEF Idle
<1>5. req' = [req EXCEPT ![r] = q]
    BY <1>2, <1>3 DEF Begin
<1>6. \A s \in Slots : req'[s] = IF s = r THEN q ELSE req[s]
    BY <1>5 DEF RefInv, IInv, ReqsOK
<1>7. WholePool(req[r])'
    <2>1. req'[r] = q
        BY <1>6
    <2>2. InPool(d)' = InPool(d)
        BY <1>2 DEF Begin, db, InPool
    <2>3. kind = "seal" => q.left = InPool(d)'
        BY <1>2, <1>4, <2>2
    <2>4. QED
        BY <1>4, <2>1, <2>3 DEF WholePool
<1>8. ASSUME NEW s \in Slots \ {r}
      PROVE  WholePool(req[s])'
    BY <1>1, <1>6, KeepWholePool DEF RefInv, SealsOK
<1>9. QED
    BY <1>7, <1>8 DEF SealsOK

LEMMA SealsOnKept ==
    ASSUME IInv, NEW r \in Slots, NEW q,
           req' = [req EXCEPT ![r] = q],
           q.kind = "seal" =>
              req[r].kind = "seal" /\ q.drop = req[r].drop /\ q.left = req[r].left
    PROVE  SealsOn
<1>1. \A s \in Slots : req'[s] = IF s = r THEN q ELSE req[s]
    BY DEF IInv, ReqsOK
<1>2. QED
    BY <1>1 DEF SealsOn

LEMMA EndSealsOn ==
    ASSUME IInv, NEW r \in Slots, End(r)
    PROVE  SealsOn
<1>1. Idle.kind = "none"
    BY DEF Idle
<1>2. QED
    BY <1>1, SealsOnKept DEF End

LEMMA ReadsSealOn ==
    ASSUME IInv, NEW r \in Slots, NEW a \in Accounts,
           \/ ReadSource(r, a) \/ ReadRecipient(r, a) \/ ReadKept(r, a)
           \/ SkipRecipient(r, a) \/ SkipSource(r, a) \/ Simulate(r, a)
    PROVE  SealsOn
<1>1. req[r] \in ReqType
    BY DEF IInv, ReqsOK, Honest
<1>2. CASE ReadSource(r, a)
    <2>1. PICK found : req' = [req EXCEPT ![r] = [req[r] EXCEPT !.todo = @ \ {a}, !.found = found]]
        BY <1>2 DEF ReadSource
    <2>2. PICK q : q = [req[r] EXCEPT !.todo = @ \ {a}, !.found = found]
        OBVIOUS
    <2>3. q.kind = req[r].kind /\ q.drop = req[r].drop /\ q.left = req[r].left
        BY <1>1, <2>2 DEF ReqType
    <2>4. QED
        BY <2>1, <2>2, <2>3, SealsOnKept
<1>3. CASE ReadRecipient(r, a) \/ ReadKept(r, a) \/ SkipRecipient(r, a) \/ SkipSource(r, a)
    <2>1. PICK found, left :
              req' = [req EXCEPT ![r] = [req[r] EXCEPT !.todo = @ \ {a}, !.left = left,
                                                       !.found = found]]
        <3>1. req[r] = [req[r] EXCEPT !.left = req[r].left, !.found = req[r].found]
            BY <1>1 DEF ReqType
        <3>2. CASE ReadRecipient(r, a)
            <4>1. PICK found : req' = [req EXCEPT ![r] =
                      [req[r] EXCEPT !.todo = @ \ {a}, !.found = found]]
                BY <3>2 DEF ReadRecipient
            <4>2. [req[r] EXCEPT !.todo = @ \ {a}, !.found = found]
                      = [req[r] EXCEPT !.todo = @ \ {a}, !.left = req[r].left, !.found = found]
                BY <1>1 DEF ReqType
            <4>3. QED
                BY <4>1, <4>2
        <3>3. CASE SkipRecipient(r, a) \/ SkipSource(r, a)
            <4>1. PICK left : req' = [req EXCEPT ![r] =
                      [req[r] EXCEPT !.todo = @ \ {a}, !.left = left]]
                BY <3>3 DEF SkipRecipient, SkipSource
            <4>2. [req[r] EXCEPT !.todo = @ \ {a}, !.left = left]
                      = [req[r] EXCEPT !.todo = @ \ {a}, !.left = left, !.found = req[r].found]
                BY <1>1 DEF ReqType
            <4>3. QED
                BY <4>1, <4>2
        <3>4. CASE ReadKept(r, a)
            <4>1. [req[r] EXCEPT !.todo = @ \ {a}]
                      = [req[r] EXCEPT !.todo = @ \ {a}, !.left = req[r].left,
                                       !.found = req[r].found]
                BY <1>1 DEF ReqType
            <4>2. QED
                BY <3>4, <4>1 DEF ReadKept
        <3>5. QED
            BY <1>3, <3>2, <3>3, <3>4
    <2>2. PICK q : q = [req[r] EXCEPT !.todo = @ \ {a}, !.left = left, !.found = found]
        OBVIOUS
    <2>3. q.kind = req[r].kind
        BY <1>1, <2>2 DEF ReqType
    <2>4. req[r].kind = "verify"
        BY <1>3 DEF ReadRecipient, ReadKept, SkipRecipient, SkipSource, Running
    <2>5. QED
        BY <2>1, <2>2, <2>3, <2>4, SealsOnKept
<1>4. CASE Simulate(r, a)
    <2>1. CASE End(r)
        BY <2>1, EndSealsOn
    <2>2. CASE ~End(r)
        <3>1. PICK q : q = [req[r] EXCEPT !.todo = @ \ {a},
                      !.at = IF req[r].todo = {a} THEN "send" ELSE "simulate"]
            OBVIOUS
        <3>2. req' = [req EXCEPT ![r] = q] /\ req[r].kind = "plan"
            BY <1>4, <2>2, <3>1 DEF Simulate, Running
        <3>3. q.kind = "plan"
            BY <1>1, <3>1, <3>2 DEF ReqType
        <3>4. QED
            BY <3>2, <3>3, SealsOnKept
    <2>3. QED
        BY <2>1, <2>2
<1>5. QED
    BY <1>2, <1>3, <1>4

LEMMA PlansSealOn ==
    ASSUME IInv, NEW r \in Slots,
           \/ PlanBatches(r) \/ LookAtSources(r)
           \/ \E a \in Accounts : FindProvider(r, a)
    PROVE  SealsOn
<1>1. req[r] \in ReqType
    BY DEF IInv, ReqsOK, Honest
<1>2. CASE PlanBatches(r) \/ \E a \in Accounts : FindProvider(r, a)
    <2>1. PICK q \in ReqType : req' = [req EXCEPT ![r] = q] /\ q.kind = "plan"
        BY <1>2, PlanGoesOn
    <2>2. QED
        BY <2>1, SealsOnKept
<1>3. CASE LookAtSources(r)
    <2>0. req[r].kind = "verify"
        BY <1>3 DEF LookAtSources, Running
    <2>1. PICK q : q = [req[r] EXCEPT !.at = "sources",
                  !.todo = {req[r].source[m] : m \in req[r].left \ req[r].found}]
        OBVIOUS
    <2>2. q.kind # "seal"
        BY <1>1, <2>0, <2>1 DEF ReqType
    <2>3. req' = [req EXCEPT ![r] = q]
        BY <1>3, <2>1 DEF LookAtSources
    <2>4. QED
        BY <2>2, <2>3, SealsOnKept
<1>4. QED
    BY <1>2, <1>3

LEMMA RowsSealOn ==
    ASSUME IInv, NEW r \in Slots, NEW m \in Moments, WriteRow(r, m) \/ SkipRow(r, m)
    PROVE  SealsOn
<1>1. req[r] \in ReqType /\ req[r].kind = "verify" /\ Written(r, m)
    BY DEF IInv, ReqsOK, Honest, WriteRow, SkipRow
<1>2. CASE End(r)
    BY <1>2, EndSealsOn
<1>3. CASE ~End(r)
    <2>1. PICK q : q = [req[r] EXCEPT !.at = "write", !.left = @ \ {m}]
        OBVIOUS
    <2>2. q.kind = "verify"
        BY <1>1, <2>1 DEF ReqType
    <2>3. req' = [req EXCEPT ![r] = q]
        BY <1>1, <1>3, <2>1 DEF Written
    <2>4. QED
        BY <2>2, <2>3, SealsOnKept
<1>4. QED
    BY <1>2, <1>3

LEMMA SendSealsOn ==
    ASSUME IInv, NEW r \in Slots, NEW f \in Flights, NEW batch \in SUBSET Moments,
           Send(r, f, batch)
    PROVE  SealsOn
<1>1. req[r] \in ReqType /\ req[r].kind = "plan"
    BY DEF IInv, ReqsOK, Honest, Send, Running
<1>2. PICK q : q = [req[r] EXCEPT !.at = "wait", !.left = @ \ batch, !.flight = f]
    OBVIOUS
<1>3. q.kind = "plan"
    BY <1>1, <1>2 DEF ReqType
<1>4. req' = [req EXCEPT ![r] = q]
    BY <1>2 DEF Send
<1>5. QED
    BY <1>3, <1>4, SealsOnKept

LEMMA AnswersSealOn ==
    ASSUME IInv, NEW f \in Flights, NEW executed, Answered(f, executed)
    PROVE  SealsOn
<1>1. ASSUME NEW s \in Slots, req'[s].kind = "seal"
      PROVE  req[s].kind = "seal" /\ req'[s].drop = req[s].drop /\ req'[s].left = req[s].left
    <2>1. req[s] \in ReqType
        BY DEF IInv, ReqsOK, Honest
    <2>2. CASE req'[s] = req[s]
        BY <1>1, <2>2
    <2>3. CASE req'[s] = Idle
        BY <1>1, <2>3 DEF Idle
    <2>4. CASE req'[s] = [req[s] EXCEPT !.at = "send", !.flight = None]
        <3>1. PICK q : q = [req[s] EXCEPT !.at = "send", !.flight = None]
            OBVIOUS
        <3>2. q.kind = req[s].kind /\ q.drop = req[s].drop /\ q.left = req[s].left
            BY <2>1, <3>1 DEF ReqType
        <3>3. QED
            BY <1>1, <2>4, <3>1, <3>2
    <2>5. QED
        BY <2>2, <2>3, <2>4 DEF Answered
<1>2. QED
    BY <1>1 DEF SealsOn

-----------------------------------------------------------------------------
(* Every step keeps this invariant.                                        *)

LEMMA OutsideKeepsRef ==
    ASSUME RefInv, IInv', UNCHANGED db, held \subseteq held', SealsOn
    PROVE  RefInv'
<1>1. Steady
    BY TablesAlone
<1>2. PacksOK'
    BY DEF RefInv, PacksOK, db, Sealed
<1>3. QED
    BY <1>1, <1>2, KeepSeals DEF RefInv

LEMMA SameSealsOn ==
    ASSUME UNCHANGED req
    PROVE  SealsOn
BY DEF SealsOn

LEMMA StatementKeepsRef ==
    ASSUME RefInv, NEW d \in Drops,
           \/ Draft(d) \/ DeleteDraft(d) \/ OpenDrop(d) \/ CloseDrop(d)
           \/ \E user \in Users : \E to \in RecipientsOf[user] : ClaimPack(d, user, to)
    PROVE  RefInv'
<1>1. IInv' /\ Steady
    <2>1. ASSUME NEW user \in Users, NEW to \in RecipientsOf[user], ClaimPack(d, user, to)
          PROVE  IInv' /\ Steady
        BY <2>1, ClaimPackStep DEF RefInv
    <2>2. QED
        BY <2>1, DraftStep, DeleteDraftStep, SetStatusStep DEF RefInv
<1>2. UNCHANGED req
    BY DEF Draft, DeleteDraft, OpenDrop, CloseDrop, SetStatus, ClaimPack
<1>3. PacksOK'
    <2>1. CASE Draft(d) \/ DeleteDraft(d)
        <3>1. \A m \in Moments : pool'[d][m].pack = 0
            <4>1. CASE Draft(d)
                <5>1. PICK source : pool' = [pool EXCEPT ![d] =
                          [m \in Moments |-> [NoRow EXCEPT !.source = source[m]]]]
                    BY <4>1 DEF Draft
                <5>2. QED
                    BY <5>1 DEF RefInv, IInv, TablesOK, NoRow
            <4>2. CASE DeleteDraft(d)
                BY <4>2 DEF DeleteDraft, RefInv, IInv, TablesOK, NoRow
            <4>3. QED
                BY <2>1, <4>1, <4>2
        <3>2. \A e \in Drops \ {d} : pool'[e] = pool[e] /\ status'[e] = status[e]
            BY <2>1 DEF Draft, DeleteDraft, RefInv, IInv, TablesOK
        <3>3. QED
            BY <3>1, <3>2 DEF RefInv, PacksOK, Sealed
    <2>2. CASE OpenDrop(d) \/ CloseDrop(d)
        <3>1. \A e \in Drops : Sealed(e) => Sealed(e)'
            BY <2>2 DEF OpenDrop, CloseDrop, SetStatus, RefInv, IInv, TablesOK, Sealed
        <3>2. UNCHANGED pool
            BY <2>2 DEF OpenDrop, CloseDrop, SetStatus
        <3>3. QED
            BY <3>1, <3>2 DEF RefInv, PacksOK
    <2>3. ASSUME NEW user \in Users, NEW to \in RecipientsOf[user], ClaimPack(d, user, to)
          PROVE  PacksOK'
        BY <2>3 DEF ClaimPack, RefInv, PacksOK, Sealed
    <2>4. QED
        BY <2>1, <2>2, <2>3
<1>4. QED
    BY <1>1, <1>2, <1>3, SameSealsOn, KeepSeals DEF RefInv

LEMMA SealKeepsRef ==
    ASSUME RefInv, NEW r \in Slots, Seal(r)
    PROVE  RefInv'
<1>1. IInv' /\ Steady
    BY SealStep DEF RefInv
<1>2. SealsOn
    BY EndSealsOn DEF RefInv, Seal
<1>3. PICK d \in Drops : d = req[r].drop
    BY DEF RefInv, IInv, ReqsOK, Honest, Seal, Running
<1>4. /\ status' = [status EXCEPT ![d] = "sealed"]
      /\ \A e \in Drops \ {d} : pool'[e] = pool[e]
    BY <1>3 DEF Seal, RefInv, IInv, TablesOK
<1>5. PacksOK'
    BY <1>4 DEF RefInv, PacksOK, Sealed, IInv, TablesOK
<1>6. QED
    BY <1>1, <1>2, <1>5, KeepSeals DEF RefInv

LEMMA WriteRowKeepsRef ==
    ASSUME RefInv, NEW r \in Slots, NEW m \in Moments, WriteRow(r, m)
    PROVE  RefInv'
<1>1. IInv' /\ Steady
    BY WriteRowStep DEF RefInv
<1>2. SealsOn
    BY RowsSealOn DEF RefInv
<1>3. PICK d \in Drops : d = req[r].drop
    BY DEF RefInv, IInv, ReqsOK, Honest, WriteRow
<1>4. PICK b : pool' = [pool EXCEPT ![d][m].delivered = b]
    BY <1>3 DEF WriteRow
<1>5. pool \in [Drops -> [Moments -> RowType]]
    BY DEF RefInv, IInv, TablesOK
<1>6. \A e \in Drops, n \in Moments : pool'[e][n].pack = pool[e][n].pack
    BY <1>4, <1>5 DEF RowType
<1>7. PacksOK'
    BY <1>6 DEF WriteRow, RefInv, PacksOK, Sealed
<1>8. QED
    BY <1>1, <1>2, <1>7, KeepSeals DEF RefInv

LEMMA ReadsKeepRef ==
    ASSUME RefInv, IInv', NEW r \in Slots, NEW a \in Accounts,
           \/ ReadSource(r, a) \/ ReadRecipient(r, a) \/ ReadKept(r, a)
           \/ SkipRecipient(r, a) \/ SkipSource(r, a) \/ Simulate(r, a)
    PROVE  RefInv'
<1>1. UNCHANGED <<chain, db>>
    BY DEF ReadSource, ReadRecipient, ReadKept, SkipRecipient, SkipSource, Simulate
<1>2. SealsOn
    BY ReadsSealOn DEF RefInv
<1>3. QED
    BY <1>1, <1>2, OutsideKeepsRef DEF chain

LEMMA RequestsKeepRef ==
    ASSUME RefInv, IInv', NEW r \in Slots,
           \/ RefuseSeal(r) \/ NothingReady(r) \/ NothingRead(r) \/ Stop(r)
           \/ PlanBatches(r) \/ LookAtSources(r)
           \/ \E a \in Accounts : FindProvider(r, a) \/ RefuseNotParent(r, a)
           \/ \E m \in Moments : SkipRow(r, m)
           \/ \E f \in Flights, batch \in SUBSET Moments : Send(r, f, batch)
    PROVE  RefInv'
<1>1. UNCHANGED <<chain, db>>
    BY DEF RefuseSeal, NothingReady, NothingRead, Stop, PlanBatches, FindProvider,
           RefuseNotParent, LookAtSources, SkipRow, Send
<1>2. SealsOn
    BY EndSealsOn, PlansSealOn, RowsSealOn, SendSealsOn
       DEF RefInv, RefuseSeal, NothingReady, NothingRead, Stop, RefuseNotParent
<1>3. QED
    BY <1>1, <1>2, OutsideKeepsRef DEF chain

LEMMA TransactionsKeepRef ==
    ASSUME RefInv, IInv', NEW f \in Flights, Land(f) \/ Revert(f) \/ ExpireFlight(f)
    PROVE  RefInv'
<1>1. UNCHANGED db /\ held \subseteq held'
    BY DEF Land, Revert, ExpireFlight, chain
<1>2. SealsOn
    BY AnswersSealOn DEF RefInv, Land, Revert, ExpireFlight
<1>3. QED
    BY <1>1, <1>2, OutsideKeepsRef

LEMMA BeginKeepsRef ==
    ASSUME RefInv, IInv', NEW r \in Slots, NEW d \in Drops,
           StartSeal(r, d) \/ StartPlan(r, d) \/ StartVerify(r, d)
    PROVE  RefInv'
<1>1. UNCHANGED db
    BY DEF StartSeal, StartPlan, StartVerify, Begin
<1>2. PacksOK'
    BY <1>1 DEF RefInv, PacksOK, db, Sealed
<1>3. QED
    BY <1>2, BeginSeals DEF RefInv

LEMMA NextKeepsRef == RefInv /\ [Next]_vars => RefInv'
<1> SUFFICES ASSUME RefInv, [Next]_vars PROVE RefInv'
    OBVIOUS
<1>1. IInv'
    BY NextStep DEF RefInv
<1>2. ASSUME NEW d \in Drops,
             \/ Draft(d) \/ DeleteDraft(d) \/ OpenDrop(d) \/ CloseDrop(d)
             \/ \E user \in Users : \E to \in RecipientsOf[user] : ClaimPack(d, user, to)
      PROVE  RefInv'
    BY <1>2, StatementKeepsRef
<1>3. ASSUME NEW d \in Drops, NEW r \in Slots,
             StartSeal(r, d) \/ StartPlan(r, d) \/ StartVerify(r, d)
      PROVE  RefInv'
    BY <1>1, <1>3, BeginKeepsRef
<1>4. ASSUME NEW r \in Slots, Proceed(r) \/ Fail(r)
      PROVE  RefInv'
    <2>1. ASSUME NEW a \in Accounts,
                 \/ ReadSource(r, a) \/ ReadRecipient(r, a) \/ ReadKept(r, a)
                 \/ SkipRecipient(r, a) \/ SkipSource(r, a) \/ Simulate(r, a)
          PROVE  RefInv'
        BY <1>1, <2>1, ReadsKeepRef
    <2>2. ASSUME NEW m \in Moments, WriteRow(r, m)
          PROVE  RefInv'
        BY <2>2, WriteRowKeepsRef
    <2>3. QED
        BY <1>1, <1>4, <2>1, <2>2, RequestsKeepRef, SealKeepsRef DEF Proceed, Read, Fail
<1>5. ASSUME NEW f \in Flights, Land(f) \/ Revert(f) \/ ExpireFlight(f)
      PROVE  RefInv'
    BY <1>1, <1>5, TransactionsKeepRef
<1>6. ASSUME Owners
      PROVE  RefInv'
    BY <1>1, <1>6, SameSealsOn, OutsideKeepsRef DEF Owners
<1>7. ASSUME UNCHANGED vars
      PROVE  RefInv'
    BY <1>1, <1>7, SameSealsOn, OutsideKeepsRef DEF vars, db
<1>8. QED
    BY <1>2, <1>3, <1>4, <1>5, <1>6, <1>7 DEF Next

LEMMA RefInvariant == Spec => []RefInv
<1>1. Init => RefInv
    <2>1. Init => PacksOK
        BY DEF Init, PacksOK, NoRow
    <2>2. Init => SealsOK
        BY DEF Init, SealsOK, WholePool, Idle
    <2>3. QED
        BY <2>1, <2>2, InitStep DEF RefInv
<1>2. QED
    BY <1>1, NextKeepsRef, PTL DEF Spec

-----------------------------------------------------------------------------
(* What the raffle sees of the tables.                                     *)

LEMMA Seen ==
    ASSUME NEW d \in Drops, NEW m \in Moments
    PROVE  /\ PledgeOf[d][m] = pool[d][m].source
           /\ PackOf[d][m] = pool[d][m].pack
           /\ PledgeOf'[d][m] = pool'[d][m].source
           /\ PackOf'[d][m] = pool'[d][m].pack
BY DEF PledgeOf, PackOf

LEMMA SeenTables ==
    /\ PledgeOf = [d \in Drops |-> PledgeOf[d]]
    /\ PackOf = [d \in Drops |-> PackOf[d]]
    /\ PledgeOf' = [d \in Drops |-> PledgeOf'[d]]
    /\ PackOf' = [d \in Drops |-> PackOf'[d]]
    /\ \A d \in Drops : PledgeOf[d] = [m \in Moments |-> pool[d][m].source]
    /\ \A d \in Drops : PledgeOf'[d] = [m \in Moments |-> pool'[d][m].source]
BY DEF PledgeOf, PackOf

LEMMA OnePool ==
    ASSUME NEW d \in Drops, \A e \in Drops \ {d} : pool'[e] = pool[e]
    PROVE  /\ PledgeOf' = [PledgeOf EXCEPT ![d] = PledgeOf'[d]]
           /\ PackOf' = [PackOf EXCEPT ![d] = PackOf'[d]]
<1>1. \A e \in Drops \ {d} : PledgeOf'[e] = PledgeOf[e] /\ PackOf'[e] = PackOf[e]
    BY DEF PledgeOf, PackOf
<1>2. QED
    BY <1>1, SeenTables

LEMMA SamePledges ==
    ASSUME \A d \in Drops, m \in Moments : pool'[d][m].source = pool[d][m].source
    PROVE  UNCHANGED PledgeOf
BY DEF PledgeOf

LEMMA SamePacks ==
    ASSUME \A d \in Drops, m \in Moments : pool'[d][m].pack = pool[d][m].pack
    PROVE  UNCHANGED PackOf
BY DEF PackOf

LEMMA SameRecords ==
    ASSUME \A d \in Drops, m \in Moments : pool'[d][m].delivered = pool[d][m].delivered
    PROVE  UNCHANGED Recorded
BY DEF Recorded

LEMMA SamePool ==
    ASSUME UNCHANGED pool
    PROVE  UNCHANGED <<PledgeOf, PackOf, Recorded>>
BY DEF PledgeOf, PackOf, Recorded

LEMMA SameParcels ==
    ASSUME UNCHANGED flight
    PROVE  UNCHANGED Parcels
BY DEF Parcels

LEMMA SeesNothing ==
    ASSUME UNCHANGED <<at, held>>, UNCHANGED db, UNCHANGED flight
    PROVE  UNCHANGED Abstract!vars
BY SamePool, SameParcels DEF Abstract!vars, db

(* A drop not yet sealed has nothing recorded.                             *)
LEMMA NothingRecorded ==
    ASSUME IInv, NEW d \in Drops, ~Sealed(d), NEW m \in Moments
    PROVE  pool[d][m].delivered = FALSE
<1>1. pool[d][m].delivered \in BOOLEAN
    BY DEF IInv, TablesOK, RowType
<1>2. ~pool[d][m].delivered
    BY DEF IInv, StampsOK, Settled
<1>3. QED
    BY <1>1, <1>2, Zenon

LEMMA OwnersTrade ==
    ASSUME RefInv, Owners
    PROVE  Abstract!Trade \/ UNCHANGED Abstract!vars
<1>1. UNCHANGED <<PledgeOf, PackOf, Recorded, Parcels>> /\ UNCHANGED db
    BY SamePool, SameParcels DEF Owners, db
<1>2. CASE UNCHANGED <<at, held>>
    BY <1>1, <1>2 DEF Abstract!vars, db
<1>3. CASE \E m \in Moments \ locked, a \in Accounts \ deaf :
             /\ at' = [at EXCEPT ![m] = a]
             /\ held' = held \union {<<m, a>>}
    BY <1>1, <1>3 DEF Abstract!Trade, Abstract!terms, db
<1>4. QED
    BY <1>2, <1>3 DEF Owners

LEMMA DraftDrafts ==
    ASSUME RefInv, NEW d \in Drops, Draft(d)
    PROVE  Abstract!Draft(d)
<1>1. PICK source \in [Moments -> Sources \union {None}] :
          /\ \A m \in Moments : source[m] # None => <<m, source[m]>> \in held
          /\ pool' = [pool EXCEPT ![d] =
                [m \in Moments |-> [NoRow EXCEPT !.source = source[m]]]]
    BY DEF Draft
<1>2. \A m \in Moments : /\ pool'[d][m].source = source[m]
                         /\ pool'[d][m].pack = 0
                         /\ pool'[d][m].delivered = FALSE
    BY <1>1 DEF RefInv, IInv, TablesOK, NoRow
<1>3. \A e \in Drops \ {d} : pool'[e] = pool[e]
    BY <1>1 DEF RefInv, IInv, TablesOK
<1>4. PledgeOf'[d] = source
    BY <1>2, SeenTables
<1>5. ~Sealed(d)
    BY DEF Draft, Sealed
<1>6. UNCHANGED PackOf
    BY <1>2, <1>3, <1>5, SamePacks DEF RefInv, PacksOK
<1>7. UNCHANGED Recorded
    BY <1>2, <1>3, <1>5, NothingRecorded, SameRecords DEF RefInv
<1>8. PledgeOf' = [PledgeOf EXCEPT ![d] = PledgeOf'[d]]
    BY <1>3, OnePool
<1>9. UNCHANGED Parcels
    BY SameParcels DEF Draft
<1>10. QED
    BY <1>1, <1>4, <1>6, <1>7, <1>8, <1>9 DEF Draft, Abstract!Draft, Abstract!Turn, Abstract!world, chain

LEMMA DeleteCallsOff ==
    ASSUME RefInv, NEW d \in Drops, DeleteDraft(d)
    PROVE  Abstract!CallOff(d)
<1>1. \A m \in Moments : /\ pool'[d][m].source = None
                         /\ pool'[d][m].pack = 0
                         /\ pool'[d][m].delivered = FALSE
    BY DEF DeleteDraft, RefInv, IInv, TablesOK, NoRow
<1>2. \A e \in Drops \ {d} : pool'[e] = pool[e]
    BY DEF DeleteDraft, RefInv, IInv, TablesOK
<1>3. PledgeOf'[d] = [m \in Moments |-> None]
    BY <1>1, SeenTables
<1>4. ~Sealed(d)
    BY DEF DeleteDraft, Sealed
<1>5. UNCHANGED PackOf
    BY <1>1, <1>2, <1>4, SamePacks DEF RefInv, PacksOK
<1>6. UNCHANGED Recorded
    BY <1>1, <1>2, <1>4, NothingRecorded, SameRecords DEF RefInv
<1>7. PledgeOf' = [PledgeOf EXCEPT ![d] = PledgeOf'[d]]
    BY <1>2, OnePool
<1>8. UNCHANGED Parcels
    BY SameParcels DEF DeleteDraft
<1>9. QED
    BY <1>3, <1>5, <1>6, <1>7, <1>8
       DEF DeleteDraft, Abstract!CallOff, Abstract!Turn, Abstract!world, chain

LEMMA StatusTurns ==
    ASSUME NEW d \in Drops, OpenDrop(d) \/ CloseDrop(d)
    PROVE  Abstract!Open(d) \/ Abstract!Close(d)
<1>1. UNCHANGED <<PledgeOf, PackOf, Recorded, Parcels>>
    BY SamePool, SameParcels DEF OpenDrop, CloseDrop, SetStatus
<1>2. QED
    BY <1>1 DEF OpenDrop, CloseDrop, SetStatus, Abstract!Open, Abstract!Close, Abstract!Turn,
                Abstract!world, Abstract!terms, chain

LEMMA ClaimWins ==
    ASSUME RefInv, NEW d \in Drops, NEW user \in Users, NEW to \in RecipientsOf[user],
           ClaimPack(d, user, to)
    PROVE  \E p \in Packs : Abstract!Win(d, p, user, to)
<1>1. to \in Recipients /\ to # None
    BY AccountAssumption DEF Accounts
<1>2. PICK p \in Packs :
          /\ claims[d][p] = NoClaim
          /\ claims' = [claims EXCEPT ![d][p] = [user |-> user, to |-> to]]
    BY DEF ClaimPack, Unclaimed
<1>3. \A m \in Moments : PledgeOf[d][m] # to
    BY <1>1, Seen DEF ClaimPack, OwnAccount, InPool
<1>4. UNCHANGED <<PledgeOf, PackOf, Recorded, Parcels>>
    BY SamePool, SameParcels DEF ClaimPack
<1>5. Abstract!NotWon = NoClaim
    BY DEF Abstract!NotWon, NoClaim
<1>6. Abstract!Win(d, p, user, to)
    BY <1>2, <1>3, <1>4, <1>5
       DEF ClaimPack, OwnAccount, Abstract!Win, Abstract!world, Abstract!terms, chain
<1>7. QED
    BY <1>6

LEMMA SameSize ==
    ASSUME NEW S
    PROVE  Abstract!Cardinality(S) = Cardinality(S)
BY DEF Abstract!Cardinality, Cardinality

LEMMA SealDeals ==
    ASSUME RefInv, NEW r \in Slots, Seal(r)
    PROVE  \E d \in Drops : Abstract!Deal(d)
<1>1. PICK d \in Drops : d = req[r].drop
    BY DEF RefInv, IInv, ReqsOK, Honest, Seal, Running
<1>2. status[d] = "draft" /\ status' = [status EXCEPT ![d] = "sealed"]
    BY <1>1 DEF Seal, CanSeal
<1>3. req[r].left = InPool(d)
    BY <1>1, <1>2 DEF RefInv, SealsOK, WholePool, Seal, Running
<1>4. PICK deal \in Deals(req[r].left) :
          pool' = [pool EXCEPT ![d] = [m \in Moments |->
              IF m \in req[r].left THEN [@[m] EXCEPT !.pack = deal[m]] ELSE @[m]]]
    BY <1>1 DEF Seal
<1>5. /\ deal \in [InPool(d) -> Packs]
      /\ \A p \in Packs : Cardinality({m \in InPool(d) : deal[m] = p}) = PerPack
    BY <1>3 DEF Deals
<1>6. \A e \in Drops \ {d} : pool'[e] = pool[e]
    BY <1>4 DEF RefInv, IInv, TablesOK
<1>7. \A m \in Moments :
          pool'[d][m] = IF m \in InPool(d) THEN [pool[d][m] EXCEPT !.pack = deal[m]]
                        ELSE pool[d][m]
    BY <1>3, <1>4 DEF RefInv, IInv, TablesOK
<1>8. \A m \in Moments : pool[d][m] \in RowType
    BY DEF RefInv, IInv, TablesOK
<1>9. ASSUME NEW m \in InPool(d)
      PROVE  /\ pool'[d][m].pack = deal[m]
             /\ pool'[d][m].source = pool[d][m].source
             /\ pool'[d][m].delivered = pool[d][m].delivered
    <2>1. m \in Moments
        BY DEF InPool
    <2>2. QED
        BY <1>7, <1>8, <2>1 DEF RowType
<1>10. ASSUME NEW m \in Moments \ InPool(d)
       PROVE  pool'[d][m] = pool[d][m] /\ pool[d][m].pack = 0
    BY <1>2, <1>7 DEF RefInv, PacksOK, Sealed
<1>11. UNCHANGED PledgeOf
    BY <1>6, <1>9, <1>10, SamePledges
<1>12. UNCHANGED Recorded
    BY <1>6, <1>9, <1>10, SameRecords
<1>13. PackOf' = [PackOf EXCEPT ![d] = PackOf'[d]]
    BY <1>6, OnePool
<1>14. Abstract!Pledged(d) = InPool(d)
    BY Seen DEF Abstract!Pledged, InPool
<1>15. \A m \in Moments : IF m \in InPool(d) THEN PackOf'[d][m] \in Packs
                                              ELSE PackOf'[d][m] = 0
    BY <1>5, <1>9, <1>10, Seen
<1>16. ASSUME NEW p \in Packs
       PROVE  Cardinality({m \in InPool(d) : PackOf'[d][m] = p}) = PerPack
    <2>1. \A m \in InPool(d) : PackOf'[d][m] = deal[m]
        BY <1>9, Seen DEF InPool
    <2>2. {m \in InPool(d) : PackOf'[d][m] = p} = {m \in InPool(d) : deal[m] = p}
        BY <2>1
    <2>3. QED
        BY <1>5, <2>2
<1>17. UNCHANGED Parcels
    BY SameParcels DEF Seal
<1>18. Abstract!Turn(d, "draft", "sealed")
    BY <1>2 DEF Abstract!Turn
<1>19. UNCHANGED <<Abstract!world, PledgeOf, claims, Parcels, Recorded>>
    BY <1>11, <1>12, <1>17 DEF Seal, Abstract!world, chain
<1>20. \A p \in Packs :
           Abstract!Cardinality({m \in Abstract!Pledged(d) : PackOf'[d][m] = p}) = PerPack
    BY <1>14, <1>16, SameSize
<1>21. Abstract!Deal(d)
    BY <1>13, <1>14, <1>15, <1>18, <1>19, <1>20 DEF Abstract!Deal
<1>22. QED
    BY <1>21

LEMMA SendSends ==
    ASSUME RefInv, NEW r \in Slots, NEW f \in Flights, NEW batch \in SUBSET Moments,
           Send(r, f, batch)
    PROVE  Abstract!Send
<1>1. req[r] \in ReqType /\ Honest(req[r]) /\ req[r].kind = "plan"
    BY DEF RefInv, IInv, ReqsOK, Honest, Send, Running
<1>2. PICK a \in Sources :
          /\ batch \subseteq {m \in req[r].left : req[r].source[m] = a}
          /\ batch # {}
          /\ flight' = [flight EXCEPT ![f] =
                [drop |-> req[r].drop, source |-> a, to |-> Addressed(r, batch),
                 controller |-> Through(req[r], a)]]
    BY DEF Send
<1>3. PICK x : x = [drop |-> req[r].drop, source |-> a, to |-> Addressed(r, batch),
                    controller |-> Through(req[r], a)]
    OBVIOUS
<1>4. \A m \in Moments : x.to[m] = IF m \in batch THEN req[r].to[m] ELSE None
    BY <1>3 DEF Addressed
<1>5. PICK d \in Drops : d = req[r].drop
    BY <1>1 DEF Honest
<1>6. ASSUME NEW m \in batch
      PROVE  /\ req[r].to[m] # None
             /\ PledgeOf[d][m] = a
             /\ PackOf[d][m] \in Packs
             /\ req[r].to[m] = Abstract!WonBy(d, m)
    <2>1. /\ Settled(d, m, req[r].to[m])
          /\ a = pool[d][m].source
        BY <1>1, <1>2, <1>5 DEF Honest
    <2>2. pool[d][m] \in RowType
        BY DEF RefInv, IInv, TablesOK
    <2>3. pool[d][m].pack \in Packs
        BY <2>1, <2>2 DEF Settled, RowType
    <2>4. req[r].to[m] # None
        BY <2>1, AccountAssumption DEF Settled, Accounts
    <2>5. QED
        BY <2>1, <2>3, <2>4, Seen DEF Settled, Abstract!WonBy
<1>7. \A g \in Flights : flight'[g] = IF g = f THEN x ELSE flight[g]
    BY <1>2, <1>3 DEF RefInv, IInv, FlightsOK
<1>8. x # NoFlight /\ flight[f] = NoFlight
    <2>1. \E m \in Moments : x.to[m] # None
        BY <1>2, <1>4, <1>6
    <2>2. QED
        BY <2>1 DEF NoFlight, Nobody, Send
<1>9. Parcels' = Parcels \union {x}
    BY <1>7, <1>8 DEF Parcels
<1>10. \A m \in Moments : x.to[m] # None =>
          /\ PledgeOf[x.drop][m] = x.source
          /\ PackOf[x.drop][m] \in Packs
          /\ x.to[m] = Abstract!WonBy(x.drop, m)
    BY <1>3, <1>4, <1>5, <1>6
<1>11. \E m \in Moments : x.to[m] # None
    BY <1>2, <1>4, <1>6
<1>12. UNCHANGED <<PledgeOf, PackOf, Recorded>>
    BY SamePool DEF Send, db
<1>13. QED
    BY <1>9, <1>10, <1>11, <1>12
       DEF Send, db, chain, Abstract!Send, Abstract!world, Abstract!terms

(* A transaction leaves its place.                                         *)
LEMMA FlightGone ==
    ASSUME IInv, NEW f \in Flights, flight[f] # NoFlight,
           flight' = [flight EXCEPT ![f] = NoFlight]
    PROVE  flight[f] \in Parcels /\ Abstract!Gone(flight[f])
<1>1. \A g \in Flights : flight'[g] = IF g = f THEN NoFlight ELSE flight[g]
    BY DEF IInv, FlightsOK
<1>2. Parcels' \subseteq Parcels
    BY <1>1 DEF Parcels
<1>3. Parcels \ {flight[f]} \subseteq Parcels'
    BY <1>1 DEF Parcels
<1>4. QED
    BY <1>2, <1>3 DEF Parcels, Abstract!Gone

LEMMA LandArrives ==
    ASSUME RefInv, NEW f \in Flights, Land(f)
    PROVE  \E x \in Parcels : Abstract!Arrive(x)
<1>1. PICK x : x = flight[f]
    OBVIOUS
<1>2. x \in Parcels /\ Abstract!Gone(x)
    BY <1>1, FlightGone DEF Land, RefInv
<1>3. Aboard(f) = {m \in Moments : x.to[m] # None}
    BY <1>1 DEF Aboard
<1>4. \A m \in Moments : x.to[m] # None => at[m] = x.source
    BY <1>1, <1>3 DEF Land, CanLand, Transferable
<1>5. at' = [m \in Moments |-> IF x.to[m] # None THEN x.to[m] ELSE at[m]]
    BY <1>1, <1>3 DEF Land
<1>6. held' = held \union {<<m, x.to[m]>> : m \in {n \in Moments : x.to[n] # None}}
    BY <1>1, <1>3 DEF Land
<1>7. UNCHANGED <<PledgeOf, PackOf, Recorded>> /\ UNCHANGED <<status, claims>>
    BY SamePool DEF Land, db
<1>8. Abstract!Arrive(x)
    BY <1>2, <1>4, <1>5, <1>6, <1>7 DEF Abstract!Arrive, Abstract!terms
<1>9. QED
    BY <1>2, <1>8

LEMMA LostReturns ==
    ASSUME RefInv, NEW f \in Flights, Revert(f) \/ ExpireFlight(f)
    PROVE  \E x \in Parcels : Abstract!Return(x)
<1>1. flight[f] \in Parcels /\ Abstract!Gone(flight[f])
    BY FlightGone DEF Revert, ExpireFlight, RefInv
<1>2. UNCHANGED <<PledgeOf, PackOf, Recorded>> /\ UNCHANGED <<at, held, status, claims>>
    BY SamePool DEF Revert, ExpireFlight, db, chain
<1>3. Abstract!Return(flight[f])
    BY <1>1, <1>2 DEF Abstract!Return, Abstract!world, Abstract!terms
<1>4. QED
    BY <1>1, <1>3

LEMMA WriteRowRecords ==
    ASSUME RefInv, NEW r \in Slots, NEW m \in Moments, WriteRow(r, m)
    PROVE  (\E d \in Drops : Abstract!Record(d, m)) \/ UNCHANGED Abstract!vars
<1>1. PICK d \in Drops : d = req[r].drop
    BY DEF WriteRow, RefInv, IInv, ReqsOK, Honest
<1>2. PICK to \in Recipients : to = req[r].to[m] /\ Settled(d, m, to)
    BY <1>1 DEF WriteRow, RefInv, IInv, ReqsOK, Honest, Settled
<1>3. m \in req[r].found => <<m, to>> \in held
    BY <1>2 DEF WriteRow, RefInv, IInv, ReqsOK, Honest
<1>4. PICK row : row = [pool[d][m] EXCEPT !.delivered = @ \/ Stamps(r, m)]
    OBVIOUS
<1>5. pool[d][m] \in RowType
    BY DEF RefInv, IInv, TablesOK
<1>6. PICK stamped \in BOOLEAN : stamped = (pool[d][m].delivered \/ Stamps(r, m))
    <2>1. pool[d][m].delivered \in BOOLEAN
        BY <1>5 DEF RowType
    <2>2. (pool[d][m].delivered \/ Stamps(r, m)) \in BOOLEAN
        BY <2>1 DEF Stamps
    <2>3. QED
        BY <2>2, Zenon
<1>7. row = [pool[d][m] EXCEPT !.delivered = stamped]
    BY <1>4, <1>6, Zenon
<1>8. row.source = pool[d][m].source /\ row.pack = pool[d][m].pack /\ row.delivered = stamped
    BY <1>5, <1>7 DEF RowType
<1>9. \A e \in Drops, n \in Moments :
          pool'[e][n] = IF e = d /\ n = m THEN row ELSE pool[e][n]
    BY <1>1, <1>4 DEF WriteRow, RefInv, IInv, TablesOK
<1>10. UNCHANGED <<PledgeOf, PackOf>>
    <2>1. \A e \in Drops, n \in Moments :
              pool'[e][n].source = pool[e][n].source /\ pool'[e][n].pack = pool[e][n].pack
        BY <1>8, <1>9
    <2>2. QED
        BY <2>1, SamePledges, SamePacks
<1>11. UNCHANGED Parcels /\ UNCHANGED <<at, held, status, claims>>
    BY SameParcels DEF WriteRow, chain
<1>12. CASE stamped = pool[d][m].delivered
    <2>1. \A e \in Drops, n \in Moments : pool'[e][n].delivered = pool[e][n].delivered
        BY <1>8, <1>9, <1>12, Zenon
    <2>2. QED
        BY <1>10, <1>11, <2>1, SameRecords DEF Abstract!vars
<1>13. CASE stamped # pool[d][m].delivered
    <2>1. Stamps(r, m)
        <3>1. pool[d][m].delivered \in BOOLEAN
            BY <1>5 DEF RowType
        <3>2. QED
            BY <1>6, <1>13, <3>1, Zenon
    <2>2. stamped
        BY <1>6, <2>1, Zenon
    <2>3. \A n \in Moments : pool'[d][n].delivered <=> n = m \/ pool[d][n].delivered
        <3>1. pool'[d][m].delivered
            BY <1>8, <1>9, <2>2, Zenon
        <3>2. \A n \in Moments \ {m} : pool'[d][n] = pool[d][n]
            BY <1>9
        <3>3. QED
            BY <3>1, <3>2, Zenon
    <2>4. Recorded'[d] = Recorded[d] \union {m}
        BY <2>3 DEF Recorded
    <2>5. Recorded' = [Recorded EXCEPT ![d] = @ \union {m}]
        <3>1. \A e \in Drops \ {d} : Recorded'[e] = Recorded[e]
            BY <1>9 DEF Recorded
        <3>2. Recorded = [e \in Drops |-> Recorded[e]] /\ Recorded' = [e \in Drops |-> Recorded'[e]]
            BY DEF Recorded
        <3>3. QED
            BY <2>4, <3>1, <3>2
    <2>6. PackOf[d][m] \in Packs
        <3>1. pool[d][m].pack \in Packs
            BY <1>2, <1>5 DEF Settled, RowType
        <3>2. QED
            BY <3>1, Seen
    <2>7. <<m, Abstract!WonBy(d, m)>> \in held
        BY <1>2, <1>3, <2>1, Seen DEF Stamps, Settled, Abstract!WonBy
    <2>8. Abstract!Record(d, m)
        BY <1>10, <1>11, <2>5, <2>6, <2>7 DEF Abstract!Record, Abstract!world, Abstract!terms
    <2>9. QED
        BY <2>8
<1>14. QED
    BY <1>12, <1>13

LEMMA RequestsSeeNothing ==
    ASSUME NEW r \in Slots,
           \/ Read(r) \/ RefuseSeal(r) \/ NothingReady(r) \/ NothingRead(r)
           \/ PlanBatches(r) \/ LookAtSources(r) \/ Fail(r)
           \/ \E a \in Accounts :
                 FindProvider(r, a) \/ RefuseNotParent(r, a) \/ Simulate(r, a)
           \/ \E d \in Drops : StartSeal(r, d) \/ StartPlan(r, d) \/ StartVerify(r, d)
    PROVE  UNCHANGED Abstract!vars
<1>1. UNCHANGED <<chain, db, flight>>
    BY DEF Read, ReadSource, ReadRecipient, ReadKept, RefuseSeal, NothingReady, NothingRead,
           PlanBatches, FindProvider, RefuseNotParent, LookAtSources, Fail, Stop, SkipRecipient, SkipSource, SkipRow, Simulate,
           StartSeal, StartPlan, StartVerify, Begin
<1>2. QED
    BY <1>1, SeesNothing DEF chain

LEMMA NextFollows == RefInv /\ [Next]_vars => [Abstract!Next]_(Abstract!vars)
<1> SUFFICES ASSUME RefInv, [Next]_vars PROVE Abstract!Next \/ UNCHANGED Abstract!vars
    OBVIOUS
<1>1. ASSUME NEW d \in Drops,
             \/ Draft(d) \/ DeleteDraft(d) \/ OpenDrop(d) \/ CloseDrop(d)
             \/ \E user \in Users : \E to \in RecipientsOf[user] : ClaimPack(d, user, to)
      PROVE  Abstract!Next
    <2>1. ASSUME NEW user \in Users, NEW to \in RecipientsOf[user], ClaimPack(d, user, to)
          PROVE  Abstract!Next
        BY <2>1, ClaimWins DEF Abstract!Next
    <2>2. CASE Draft(d) \/ DeleteDraft(d)
        BY <2>2, DraftDrafts, DeleteCallsOff DEF Abstract!Next
    <2>3. CASE OpenDrop(d) \/ CloseDrop(d)
        BY <2>3, StatusTurns DEF Abstract!Next
    <2>4. QED
        BY <1>1, <2>1, <2>2, <2>3
<1>2. ASSUME NEW r \in Slots, Seal(r)
      PROVE  Abstract!Next
    BY <1>2, SealDeals DEF Abstract!Next
<1>3. ASSUME NEW r \in Slots, NEW f \in Flights, NEW batch \in SUBSET Moments, Send(r, f, batch)
      PROVE  Abstract!Next
    BY <1>3, SendSends DEF Abstract!Next
<1>4. ASSUME NEW r \in Slots, NEW m \in Moments, WriteRow(r, m)
      PROVE  Abstract!Next \/ UNCHANGED Abstract!vars
    BY <1>4, WriteRowRecords DEF Abstract!Next
<1>5. ASSUME NEW f \in Flights, Land(f) \/ Revert(f) \/ ExpireFlight(f)
      PROVE  Abstract!Next
    BY <1>5, LandArrives, LostReturns DEF Abstract!Next
<1>6. ASSUME Owners
      PROVE  Abstract!Next \/ UNCHANGED Abstract!vars
    BY <1>6, OwnersTrade DEF Abstract!Next
<1>7. ASSUME UNCHANGED vars
      PROVE  UNCHANGED Abstract!vars
    BY <1>7, SeesNothing DEF vars, db
<1>8. QED
    BY <1>1, <1>2, <1>3, <1>4, <1>5, <1>6, <1>7, RequestsSeeNothing DEF Next, Proceed

(* A pool is dealt once and whole, a pack won once, a signed transaction   *)
(* sends only what its addressees have won, and delivered_at is written    *)
(* only of a winner who has had the moment: every statement, signature and *)
(* transaction of any number of requests, however stale their readings,    *)
(* is a step of the raffle (store.ts, deliver.ts, seal_giveaway_drop,      *)
(* claim_giveaway_pack).                                                   *)
THEOREM GiveawayFollowsRaffle == Spec => FollowsRaffle
BY NextFollows, RefInvariant, PTL DEF Spec, FollowsRaffle

(* From an empty database on, as whole behaviours.                         *)
THEOREM GiveawayImplementsRaffle == Spec => ImplementsRaffle
<1>1. Init => Abstract!Init
    <2> SUFFICES ASSUME Init PROVE Abstract!Init
        OBVIOUS
    <2>1. PledgeOf = [d \in Drops |-> [m \in Moments |-> None]]
        BY DEF Init, PledgeOf, NoRow
    <2>2. PackOf = [d \in Drops |-> [m \in Moments |-> 0]]
        BY DEF Init, PackOf, NoRow
    <2>3. Recorded = [d \in Drops |-> {}]
        BY DEF Init, Recorded, NoRow
    <2>4. Parcels = {}
        BY DEF Init, Parcels
    <2>5. at \in [Moments -> Sources]
        BY AccountAssumption DEF Init
    <2>6. QED
        BY <2>1, <2>2, <2>3, <2>4, <2>5 DEF Init, NoClaim, Abstract!Init, Abstract!NotWon
<1>2. QED
    BY <1>1, GiveawayFollowsRaffle, PTL DEF Spec, ImplementsRaffle
=============================================================================
