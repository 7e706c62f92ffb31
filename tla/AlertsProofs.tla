---------------------------- MODULE AlertsProofs ----------------------------
(***************************************************************************)
(* The alerts are well typed, a delivery is sent again only after a        *)
(* failure of it was recorded, and silence always has a row behind it: for *)
(* every number of subjects, owners, channels, sender runs, periods and    *)
(* faults.                                                                 *)
(*                                                                         *)
(* TypeOK and the two properties are not inductive.  What a sender run has *)
(* in its hands is what carries a delivery's history between two database  *)
(* calls, so IInv adds: no row is in two hands, a row in hand is in        *)
(* "sending", one that was not sent yet has as many failures as messages,  *)
(* and a pass that is about to disarm a watch has written a row of it.     *)
(***************************************************************************)
EXTENDS AlertsRefinement, TLAPS

HasRow(x) == \E k \in Keys : Subject(k) = x /\ row[k].status # "none"

Types ==
    /\ watch \in [Watches -> {"absent", "armed", "disarmed", "deleted"}]
    /\ updated \in [Watches -> Periods]
    /\ odds \in [Watches -> {"met", "unmet", "unknown"}]
    /\ alert \in [Alerts -> [active : BOOLEAN, armed : BOOLEAN, rests : BOOLEAN]]
    /\ price \in [Alerts -> Prices \union {Unmet}]
    /\ linked \subseteq Owners \X Channels
    /\ pass \in PassType
    /\ period \in Periods
    /\ faults \in 0..MaxFaults

OutboxTypes ==
    /\ row \in [Keys -> RowType]
    /\ inbox \in [Keys -> Nat]
    /\ sender \in [Senders -> SenderType]

(* One delivery.                                                           *)
RowInv ==
    \A k \in Keys :
        /\ row[k].status = "none" => row[k] = NoRow
        /\ row[k].attempts <= MaxAttempts
        /\ row[k].status \in {"pending", "sending"} => row[k].attempts < MaxAttempts
        /\ inbox[k] <= row[k].attempts + 1
        /\ row[k].status \in {"none", "pending", "failed"} =>
              inbox[k] <= row[k].attempts
        /\ row[k].status = "sent" => inbox[k] > 0

(* What a run has in its hands.                                            *)
HandInv ==
    /\ \A s \in Senders :
          /\ sender[s].group \subseteq sender[s].hand
          /\ sender[s].pc \in {"idle", "absent"} => sender[s].hand = {}
          /\ sender[s].pc = "send" => sender[s].group = {}
          /\ \A k \in sender[s].hand : row[k].status = "sending"
          /\ \A k \in sender[s].hand \ sender[s].group : inbox[k] <= row[k].attempts
          /\ sender[s].pc = "sent" => \A k \in sender[s].group : inbox[k] > 0
    /\ \A s, t \in Senders : s # t => sender[s].hand \intersect sender[t].hand = {}

SilenceInv ==
    /\ \A w \in Watches : watch[w] = "disarmed" => HasRow(w)
    /\ \A a \in Alerts : ~alert[a].armed => HasRow(a)
    /\ pass.pc = "disarm" => \A w \in pass.fired : HasRow(w)

OutboxInv == OutboxTypes /\ RowInv /\ HandInv
IInv == Types /\ OutboxInv /\ SilenceInv

USE SubjectAssumption, NumberAssumption
-----------------------------------------------------------------------------
(* The dispatcher's part of the outbox: it only ever adds rows.            *)

RowsAdded ==
    \A k \in Keys :
        \/ row'[k] = row[k]
        \/ /\ row[k] = NoRow
           /\ \E v \in Prices \union {Unmet} : row'[k] = Pending(v)

LEMMA KeyParts ==
    ASSUME NEW k \in Keys
    PROVE  /\ k = <<Subject(k), Channel(k), Period(k)>>
           /\ Subject(k) \in Subjects
           /\ Channel(k) \in Channels
           /\ Period(k) \in Periods
  BY DEF Keys, Subject, Channel, Period

(* Adding rows keeps all that is known of the outbox, and every row.       *)
LEMMA AddingKeeps ==
    ASSUME OutboxInv, row' \in [Keys -> RowType], RowsAdded,
           UNCHANGED <<inbox, sender>>
    PROVE  OutboxInv' /\ \A x : HasRow(x) => HasRow(x)'
<1>1. OutboxTypes'
  BY DEF OutboxInv, OutboxTypes
<1>2. RowInv'
  <2> SUFFICES ASSUME NEW k \in Keys
               PROVE  /\ row'[k].status = "none" => row'[k] = NoRow
                      /\ row'[k].attempts <= MaxAttempts
                      /\ row'[k].status \in {"pending", "sending"} =>
                            row'[k].attempts < MaxAttempts
                      /\ inbox[k] <= row'[k].attempts + 1
                      /\ row'[k].status \in {"none", "pending", "failed"} =>
                            inbox[k] <= row'[k].attempts
                      /\ row'[k].status = "sent" => inbox[k] > 0
    BY DEF RowInv
  <2>1. CASE row'[k] = row[k]
    BY <2>1 DEF OutboxInv, RowInv
  <2>2. CASE row[k] = NoRow /\ \E v \in Prices \union {Unmet} : row'[k] = Pending(v)
    <3>1. inbox[k] = 0
      BY <2>2 DEF OutboxInv, RowInv, NoRow, OutboxTypes
    <3>2. row'[k].status = "pending" /\ row'[k].attempts = 0
      BY <2>2 DEF Pending
    <3> QED
      BY <3>1, <3>2
  <2> QED
    BY <2>1, <2>2 DEF RowsAdded
<1>3. \A k \in Keys : row[k].status = "sending" => row'[k] = row[k]
  BY DEF RowsAdded, NoRow
<1>4. HandInv'
  BY <1>3 DEF OutboxInv, HandInv, OutboxTypes, SenderType
<1>5. ASSUME NEW x, HasRow(x) PROVE HasRow(x)'
  <2>1. PICK k \in Keys : Subject(k) = x /\ row[k].status # "none"
    BY <1>5 DEF HasRow
  <2>2. row'[k] = row[k]
    BY <2>1 DEF RowsAdded, NoRow
  <2> QED
    BY <2>1, <2>2 DEF HasRow
<1> QED
  BY <1>1, <1>2, <1>4, <1>5 DEF OutboxInv

LEMMA NewRowType ==
    ASSUME NEW v \in Prices \union {Unmet} PROVE Pending(v) \in RowType
  BY DEF Pending, RowType, Statuses

LEMMA FmvAdds ==
    ASSUME Types, OutboxTypes, NEW window \in Windows
    PROVE  /\ FmvRows(window) \in [Keys -> RowType]
           /\ row' = FmvRows(window) => RowsAdded
<1>1. ASSUME NEW k \in Keys
      PROVE  \/ FmvRows(window)[k] = row[k]
             \/ /\ row[k] = NoRow
                /\ \E v \in Prices \union {Unmet} : FmvRows(window)[k] = Pending(v)
  <2> DEFINE new == /\ Subject(k) \in window
                    /\ Triggered(Subject(k))
                    /\ Period(k) = period
                    /\ Channel(k) \in News(Subject(k))
  <2>1. CASE new
    <3>1. row[k] = NoRow
      BY <2>1, KeyParts DEF News
    <3>2. Subject(k) \in Alerts
      BY <2>1 DEF Windows, Eligible
    <3>3. price[Subject(k)] \in Prices \union {Unmet}
      BY <3>2 DEF Types
    <3>4. FmvRows(window)[k] = Pending(price[Subject(k)])
      BY <2>1 DEF FmvRows
    <3> QED
      BY <3>1, <3>3, <3>4
  <2>2. CASE ~new
    BY <2>2 DEF FmvRows
  <2> QED
    BY <2>1, <2>2
<1>2. \A k \in Keys : FmvRows(window)[k] \in RowType
  BY <1>1, NewRowType DEF OutboxTypes
<1> QED
  BY <1>1, <1>2 DEF FmvRows, RowsAdded

LEMMA UpsertAdds ==
    ASSUME OutboxTypes, NEW w
    PROVE  /\ Upserted(w) \in [Keys -> RowType]
           /\ row' = Upserted(w) => RowsAdded
<1>1. ASSUME NEW k \in Keys
      PROVE  \/ Upserted(w)[k] = row[k]
             \/ row[k] = NoRow /\ Upserted(w)[k] = Pending(Unmet)
  BY DEF Upserted
<1>2. \A k \in Keys : Upserted(w)[k] \in RowType
  BY <1>1, NewRowType DEF OutboxTypes
<1> QED
  BY <1>1, <1>2 DEF Upserted, RowsAdded

LEMMA StandingAdds ==
    ASSUME OutboxTypes, row' = row PROVE row' \in [Keys -> RowType] /\ RowsAdded
  BY DEF OutboxTypes, RowsAdded

(* An alert that an FMV leg disarms has a row.                             *)
LEMMA FmvSilence ==
    ASSUME Types, OutboxInv, NEW a \in Alerts, NEW window, row' = FmvRows(window),
           alert' = [b \in Alerts |-> AfterFmv(b, window)],
           alert[a].armed, ~alert'[a].armed
    PROVE  HasRow(a)'
<1>1. AfterFmv(a, window) = alert'[a]
  OBVIOUS
<1>2. a \in window /\ Triggered(a) /\ News(a) # {}
  <2>1. alert[a] \in [active : BOOLEAN, armed : BOOLEAN, rests : BOOLEAN]
    BY DEF Types
  <2> QED
    BY <1>1, <2>1 DEF AfterFmv
<1>3. PICK c \in News(a) : TRUE
  BY <1>2
<1>4. c \in Channels
  BY <1>3 DEF News, Targets
<1> DEFINE k == <<a, c, period>>
<1>5. /\ k \in Keys
      /\ Subject(k) = a /\ Channel(k) = c /\ Period(k) = period
  BY <1>4 DEF Keys, Subjects, Subject, Channel, Period, Types
<1> HIDE DEF k
<1>6. row'[k] = Pending(price[a])
  BY <1>2, <1>3, <1>5 DEF FmvRows
<1>7. row'[k].status # "none"
  BY <1>6 DEF Pending
<1> QED
  BY <1>5, <1>7 DEF HasRow

(* A watch that fires to some channel has a row afterwards.                *)
LEMMA FiredHasRow ==
    ASSUME Types, OutboxInv, NEW w \in Watches, ChaseTargets(w) # {},
           row' = Upserted(w)
    PROVE  HasRow(w)'
<1>1. PICK c \in ChaseTargets(w) : TRUE
  OBVIOUS
<1>2. c \in Channels
  BY <1>1 DEF ChaseTargets
<1> DEFINE k == <<w, c, pass.period>>
<1>3. /\ k \in Keys
      /\ Subject(k) = w /\ Channel(k) = c /\ Period(k) = pass.period
  BY <1>2 DEF Keys, Subjects, Subject, Channel, Period, Types, PassType
<1> HIDE DEF k
<1>4. CASE row[k] = NoRow
  <2>1. row'[k] = Pending(Unmet)
    BY <1>1, <1>3, <1>4 DEF Upserted
  <2> QED
    BY <1>3, <2>1 DEF HasRow, Pending
<1>5. CASE row[k] # NoRow
  <2>1. row'[k] = row[k]
    BY <1>3, <1>5 DEF Upserted
  <2>2. row[k].status # "none"
    BY <1>3, <1>5 DEF OutboxInv, RowInv
  <2> QED
    BY <1>3, <2>1, <2>2 DEF HasRow
<1> QED
  BY <1>4, <1>5
-----------------------------------------------------------------------------
(* The senders' part of the outbox.                                        *)

(* A sender step leaves every row that exists in existence.                *)
LEMMA RowsStay ==
    ASSUME \A k \in Keys : row[k].status # "none" => row'[k].status # "none"
    PROVE  \A x : HasRow(x) => HasRow(x)'
  BY DEF HasRow

LEMMA SameOutbox ==
    ASSUME OutboxInv, UNCHANGED <<row, inbox, sender>>
    PROVE  OutboxInv' /\ \A x : HasRow(x) => HasRow(x)'
<1>1. row' \in [Keys -> RowType] /\ RowsAdded
  BY StandingAdds DEF OutboxInv
<1> QED
  BY <1>1, AddingKeeps

LEMMA ClaimKeeps ==
    ASSUME OutboxInv, NEW s \in Senders, NEW c \in Channels, Claim(s, c)
    PROVE  OutboxInv' /\ \A x : HasRow(x) => HasRow(x)'
<1> DEFINE taken == Claimable(c)
<1>1. taken \subseteq Keys /\ \A k \in taken : row[k].status = "pending"
  BY DEF Claimable, Has
<1>2. row' = [k \in Keys |-> IF k \in taken THEN [row[k] EXCEPT !.status = "sending"]
                            ELSE row[k]]
  BY DEF Claim, WithStatus
<1>3. inbox' = inbox
  BY DEF Claim
<1>4. \/ sender' = [sender EXCEPT ![s] =
                       [pc |-> "send", hand |-> taken, group |-> {}]]
      \/ sender' = sender
  BY DEF Claim, Becomes, Waiting
<1>5. sender[s].pc = "idle"
  BY DEF Claim, At
<1> HIDE DEF taken
<1>6. ASSUME NEW k \in Keys
      PROVE  /\ row'[k] \in RowType
             /\ row'[k].attempts = row[k].attempts
             /\ row'[k].status = IF k \in taken THEN "sending" ELSE row[k].status
             /\ k \notin taken => row'[k] = row[k]
  BY <1>2 DEF OutboxInv, OutboxTypes, RowType, Statuses
<1>7. OutboxTypes'
  <2>1. row' \in [Keys -> RowType]
    BY <1>2, <1>6
  <2>2. [pc |-> "send", hand |-> taken, group |-> {}] \in SenderType
    BY <1>1 DEF SenderType
  <2>3. sender' \in [Senders -> SenderType]
    BY <1>4, <2>2 DEF OutboxInv, OutboxTypes
  <2> QED
    BY <1>3, <2>1, <2>3 DEF OutboxInv, OutboxTypes
<1>8. RowInv'
  BY <1>1, <1>3, <1>6 DEF OutboxInv, RowInv, OutboxTypes, RowType
<1>9. HandInv'
  <2>1. \A t \in Senders : sender[t].hand \intersect taken = {}
    BY <1>1 DEF OutboxInv, HandInv
  <2>2. ASSUME NEW t \in Senders
        PROVE  \/ sender'[t] = sender[t]
               \/ t = s /\ sender'[t] = [pc |-> "send", hand |-> taken, group |-> {}]
    BY <1>4 DEF OutboxInv, OutboxTypes
  <2>3. ASSUME NEW t \in Senders
        PROVE  /\ sender'[t].group \subseteq sender'[t].hand
               /\ sender'[t].pc \in {"idle", "absent"} => sender'[t].hand = {}
               /\ sender'[t].pc = "send" => sender'[t].group = {}
               /\ \A k \in sender'[t].hand : row'[k].status = "sending"
               /\ \A k \in sender'[t].hand \ sender'[t].group :
                     inbox'[k] <= row'[k].attempts
               /\ sender'[t].pc = "sent" => \A k \in sender'[t].group : inbox'[k] > 0
    <3>1. CASE sender'[t] = sender[t]
      BY <1>3, <1>6, <2>1, <3>1 DEF OutboxInv, OutboxTypes, HandInv, SenderType
    <3>2. CASE t = s /\ sender'[t] = [pc |-> "send", hand |-> taken, group |-> {}]
      BY <1>1, <1>3, <1>6, <3>2 DEF OutboxInv, RowInv
    <3> QED
      BY <2>2, <3>1, <3>2
  <2>4. ASSUME NEW t \in Senders, NEW u \in Senders, t # u
        PROVE  sender'[t].hand \intersect sender'[u].hand = {}
    <3>1. \A v \in Senders : sender'[v].hand = sender[v].hand
                             \/ (v = s /\ sender'[v].hand = taken)
      BY <2>2
    <3>2. sender[t].hand \intersect sender[u].hand = {}
      BY <2>4 DEF OutboxInv, HandInv
    <3> QED
      BY <2>1, <2>4, <3>1, <3>2
  <2> QED
    BY <2>3, <2>4 DEF HandInv
<1>10. \A x : HasRow(x) => HasRow(x)'
  BY <1>6, RowsStay
<1> QED
  BY <1>7, <1>8, <1>9, <1>10 DEF OutboxInv

LEMMA SendKeeps ==
    ASSUME OutboxInv, NEW s \in Senders,
           NEW target \in {Target(k) : k \in sender[s].hand}, Send(s, target)
    PROVE  OutboxInv' /\ \A x : HasRow(x) => HasRow(x)'
<1> DEFINE group == Group(sender[s].hand, target)
           accepted == [k \in Keys |-> IF k \in group THEN inbox[k] + 1 ELSE inbox[k]]
<1>1. group \subseteq sender[s].hand /\ sender[s].hand \subseteq Keys
  BY DEF Group, OutboxInv, OutboxTypes, SenderType
<1>2. /\ row' = row
      /\ sender[s].pc = "send"
      /\ \/ /\ sender' = [sender EXCEPT ![s] = [sender[s] EXCEPT !.pc = "sent", !.group = group]]
            /\ inbox' = accepted
         \/ /\ sender' = [sender EXCEPT ![s] = [sender[s] EXCEPT !.pc = "failed", !.group = group]]
            /\ inbox' \in {inbox, accepted}
  BY DEF Send, At, Becomes
<1> HIDE DEF group
<1>3. \A k \in group : row[k].status = "sending" /\ inbox[k] <= row[k].attempts
  BY <1>1, <1>2 DEF OutboxInv, HandInv
<1>4. inbox' \in [Keys -> Nat]
  BY <1>2 DEF OutboxInv, OutboxTypes
<1>5. ASSUME NEW k \in Keys
      PROVE  /\ inbox'[k] \in {inbox[k], inbox[k] + 1}
             /\ k \notin group => inbox'[k] = inbox[k]
  BY <1>2 DEF OutboxInv, OutboxTypes
<1> DEFINE After(stage) == [sender[s] EXCEPT !.pc = stage, !.group = group]
<1>2a. sender \in [Senders -> SenderType] /\ sender[s] \in SenderType
  BY DEF OutboxInv, OutboxTypes
<1>2b. ASSUME NEW stage \in {"sent", "failed"}
      PROVE  /\ After(stage) \in SenderType
             /\ After(stage).pc = stage
             /\ After(stage).hand = sender[s].hand
             /\ After(stage).group = group
  BY <1>1, <1>2a DEF SenderType
<1>2c. PICK me \in SenderType :
         /\ me.pc \in {"sent", "failed"}
         /\ me.hand = sender[s].hand
         /\ me.group = group
         /\ sender' = [sender EXCEPT ![s] = me]
  BY <1>2, <1>2b
<1> HIDE DEF After
<1>2d. /\ sender'[s] = me
       /\ \A t \in Senders : t # s => sender'[t] = sender[t]
       /\ sender' \in [Senders -> SenderType]
  BY <1>2a, <1>2c
<1>2e. row' = row
  BY <1>2
<1>6. OutboxTypes'
  <2>1. row' \in [Keys -> RowType]
    BY <1>2e DEF OutboxInv, OutboxTypes
  <2>2. sender' \in [Senders -> SenderType]
    BY <1>2d
  <2> QED
    BY <1>4, <2>1, <2>2 DEF OutboxTypes
<1>7. RowInv'
  BY <1>2, <1>3, <1>5 DEF OutboxInv, OutboxTypes, RowInv, RowType
<1>8. HandInv'
  <2>1. ASSUME NEW t \in Senders
        PROVE  /\ sender'[t].hand = sender[t].hand
               /\ t # s => sender'[t] = sender[t] /\ sender[t].hand \intersect group = {}
               /\ t = s => sender'[t].group = group /\ sender'[t].pc \in {"sent", "failed"}
    <3>1. t # s => sender[t].hand \intersect group = {}
      BY <1>1 DEF OutboxInv, HandInv
    <3> QED
      BY <1>2c, <1>2d, <3>1
  <2>2. sender'[s].pc = "sent" => \A k \in group : inbox'[k] > 0
    <3>1. CASE inbox' = accepted
      BY <1>1, <3>1 DEF OutboxInv, OutboxTypes
    <3>2. CASE sender' = [sender EXCEPT ![s] = [sender[s] EXCEPT !.pc = "failed", !.group = group]]
      BY <3>2 DEF OutboxInv, OutboxTypes, SenderType
    <3> QED
      BY <1>2, <3>1, <3>2
  <2>3. ASSUME NEW t \in Senders
        PROVE  /\ sender'[t].group \subseteq sender'[t].hand
               /\ sender'[t].pc \in {"idle", "absent"} => sender'[t].hand = {}
               /\ sender'[t].pc = "send" => sender'[t].group = {}
               /\ \A k \in sender'[t].hand : row'[k].status = "sending"
               /\ \A k \in sender'[t].hand \ sender'[t].group :
                     inbox'[k] <= row'[k].attempts
               /\ sender'[t].pc = "sent" => \A k \in sender'[t].group : inbox'[k] > 0
    <3>1. CASE t = s
      BY <1>1, <1>2, <1>5, <2>1, <2>2, <3>1 DEF OutboxInv, OutboxTypes, SenderType, HandInv
    <3>2. CASE t # s
      <4>1. \A k \in sender[t].hand : inbox'[k] = inbox[k]
        BY <1>5, <2>1, <3>2 DEF OutboxInv, OutboxTypes, SenderType
      <4> QED
        BY <1>2, <2>1, <3>2, <4>1 DEF OutboxInv, HandInv
    <3> QED
      BY <3>1, <3>2
  <2> QED
    BY <2>1, <2>3 DEF OutboxInv, HandInv
<1>9. \A x : HasRow(x) => HasRow(x)'
  BY <1>2, RowsStay
<1> QED
  BY <1>6, <1>7, <1>8, <1>9 DEF OutboxInv

(* The row that a mark writes.                                             *)
Outcome(s, k) == IF sender[s].pc = "sent" THEN MarkSent(k) ELSE MarkFailed(k)

LEMMA OutcomeRow ==
    ASSUME OutboxInv, NEW s \in Senders, NEW k \in sender[s].group
    PROVE  /\ k \in Keys
           /\ row[k].status = "sending"
           /\ Outcome(s, k) \in [Keys -> RowType]
           /\ \A j \in Keys : j # k => Outcome(s, k)[j] = row[j]
           /\ sender[s].pc = "sent" =>
                 /\ Outcome(s, k)[k].status = "sent"
                 /\ Outcome(s, k)[k].attempts = row[k].attempts
           /\ sender[s].pc # "sent" =>
                 /\ Outcome(s, k)[k].attempts = row[k].attempts + 1
                 /\ Outcome(s, k)[k].status =
                       IF row[k].attempts + 1 < MaxAttempts THEN "pending" ELSE "failed"
<1>1. k \in Keys /\ row[k].status = "sending"
  BY DEF OutboxInv, OutboxTypes, SenderType, HandInv
<1>2. row \in [Keys -> RowType] /\ row[k] \in RowType
  BY <1>1 DEF OutboxInv, OutboxTypes
<1>3. CASE sender[s].pc = "sent"
  <2> DEFINE new == [row[k] EXCEPT !.status = "sent"]
  <2>1. /\ new \in RowType
        /\ new.status = "sent"
        /\ new.attempts = row[k].attempts
    BY <1>2 DEF RowType, Statuses
  <2>2. Outcome(s, k) = [j \in Keys |-> IF j = k THEN new ELSE row[j]]
    BY <1>2, <1>3 DEF Outcome, MarkSent, WithStatus
  <2> HIDE DEF new
  <2> QED
    BY <1>1, <1>2, <1>3, <2>1, <2>2
<1>4. CASE sender[s].pc # "sent"
  <2> DEFINE tried == row[k].attempts + 1
             state == IF tried < MaxAttempts THEN "pending" ELSE "failed"
             new == [row[k] EXCEPT !.attempts = tried, !.status = state]
  <2>1. Outcome(s, k) = [row EXCEPT ![k] = new]
    BY <1>4 DEF Outcome, MarkFailed
  <2>2. tried \in Nat /\ state \in Statuses
    BY <1>2 DEF RowType, Statuses
  <2>3. /\ tried = row[k].attempts + 1
        /\ state = IF row[k].attempts + 1 < MaxAttempts THEN "pending" ELSE "failed"
    OBVIOUS
  <2> HIDE DEF tried, state
  <2>4. new \in RowType /\ new.status = state /\ new.attempts = tried
    BY <1>2, <2>2 DEF RowType
  <2> HIDE DEF new
  <2> QED
    BY <1>1, <1>2, <1>4, <2>1, <2>3, <2>4
<1> QED
  BY <1>3, <1>4

LEMMA MarkKeeps ==
    ASSUME OutboxInv, NEW s \in Senders, NEW k \in sender[s].group, Mark(s, k)
    PROVE  OutboxInv' /\ \A x : HasRow(x) => HasRow(x)'
<1>1. /\ row' \in {row, Outcome(s, k)}
      /\ inbox' = inbox
      /\ sender' = [sender EXCEPT ![s] = Marked(s, k)]
  BY DEF Mark, Outcome, At, Becomes
<1>2. /\ k \in Keys
      /\ k \in sender[s].hand
      /\ row[k].status = "sending"
      /\ row[k].attempts < MaxAttempts
      /\ inbox[k] <= row[k].attempts + 1
      /\ sender[s].pc \in {"sent", "failed"}
      /\ sender[s].pc = "sent" => inbox[k] > 0
  BY OutcomeRow DEF OutboxInv, OutboxTypes, SenderType, HandInv, RowInv
<1>3. row' \in [Keys -> RowType] /\ \A j \in Keys : j # k => row'[j] = row[j]
  BY <1>1, OutcomeRow DEF OutboxInv, OutboxTypes
<1>4. sender[s] \in SenderType /\ sender \in [Senders -> SenderType]
  BY DEF OutboxInv, OutboxTypes
<1>5. PICK me \in SenderType :
         /\ me.pc = IF sender[s].group \ {k} = {} THEN "send" ELSE sender[s].pc
         /\ me.hand = sender[s].hand \ {k}
         /\ me.group = sender[s].group \ {k}
         /\ sender' = [sender EXCEPT ![s] = me]
  <2>1. /\ Marked(s, k) \in SenderType
        /\ Marked(s, k).pc = IF sender[s].group \ {k} = {} THEN "send" ELSE sender[s].pc
        /\ Marked(s, k).hand = sender[s].hand \ {k}
        /\ Marked(s, k).group = sender[s].group \ {k}
    BY <1>4 DEF Marked, SenderType
  <2> QED
    BY <1>1, <2>1
<1>6. /\ sender'[s] = me
      /\ \A t \in Senders : t # s => sender'[t] = sender[t]
      /\ sender' \in [Senders -> SenderType]
  BY <1>4, <1>5
<1>7. OutboxTypes'
  <2>1. inbox' \in [Keys -> Nat]
    BY <1>1 DEF OutboxInv, OutboxTypes
  <2> QED
    BY <1>3, <1>6, <2>1 DEF OutboxTypes
<1>8. \/ row' = row
      \/ /\ row' = Outcome(s, k)
         /\ sender[s].pc = "sent"
         /\ row'[k].status = "sent"
         /\ row'[k].attempts = row[k].attempts
      \/ /\ row' = Outcome(s, k)
         /\ row'[k].attempts = row[k].attempts + 1
         /\ row'[k].status =
               IF row[k].attempts + 1 < MaxAttempts THEN "pending" ELSE "failed"
  BY <1>1, OutcomeRow
<1>9. RowInv'
  <2> SUFFICES ASSUME NEW j \in Keys
               PROVE  /\ row'[j].status = "none" => row'[j] = NoRow
                      /\ row'[j].attempts <= MaxAttempts
                      /\ row'[j].status \in {"pending", "sending"} =>
                            row'[j].attempts < MaxAttempts
                      /\ inbox[j] <= row'[j].attempts + 1
                      /\ row'[j].status \in {"none", "pending", "failed"} =>
                            inbox[j] <= row'[j].attempts
                      /\ row'[j].status = "sent" => inbox[j] > 0
    BY <1>1 DEF RowInv
  <2>1. CASE row'[j] = row[j]
    BY <2>1 DEF OutboxInv, RowInv
  <2>2. CASE row'[j] # row[j]
    <3>1. j = k /\ row' # row
      BY <1>3, <2>2
    <3>2. row[k].attempts \in Nat /\ inbox[k] \in Nat
      BY <1>2 DEF OutboxInv, OutboxTypes, RowType
    <3> QED
      BY <1>2, <1>8, <3>1, <3>2
  <2> QED
    BY <2>1, <2>2
<1>10. HandInv'
  <2>1. ASSUME NEW t \in Senders, NEW j \in sender'[t].hand
        PROVE  j \in sender[t].hand /\ j # k /\ j \in Keys /\ row'[j] = row[j]
    <3>1. CASE t = s
      BY <1>3, <1>4, <1>5, <1>6, <3>1 DEF SenderType
    <3>2. CASE t # s
      BY <1>2, <1>3, <1>6, <3>2 DEF OutboxInv, OutboxTypes, SenderType, HandInv
    <3> QED
      BY <3>1, <3>2
  <2>2. ASSUME NEW t \in Senders
        PROVE  /\ sender'[t].group \subseteq sender'[t].hand
               /\ sender'[t].pc \in {"idle", "absent"} => sender'[t].hand = {}
               /\ sender'[t].pc = "send" => sender'[t].group = {}
               /\ \A j \in sender'[t].hand : row'[j].status = "sending"
               /\ \A j \in sender'[t].hand \ sender'[t].group :
                     inbox'[j] <= row'[j].attempts
               /\ sender'[t].pc = "sent" => \A j \in sender'[t].group : inbox'[j] > 0
    <3>1. /\ \A j \in sender'[t].hand : row'[j].status = "sending"
          /\ \A j \in sender'[t].hand : j \notin sender[t].group =>
                inbox'[j] <= row'[j].attempts
      BY <1>1, <2>1 DEF OutboxInv, HandInv
    <3>2. CASE t = s
      <4>1. sender'[t].group \subseteq sender'[t].hand
        BY <1>5, <1>6, <3>2 DEF OutboxInv, HandInv
      <4>2. sender'[t].pc \in {"idle", "absent"} => sender'[t].hand = {}
        BY <1>2, <1>5, <1>6, <3>2
      <4>3. sender'[t].pc = "send" => sender'[t].group = {}
        BY <1>2, <1>5, <1>6, <3>2
      <4>4. \A j \in sender'[t].hand \ sender'[t].group : j \notin sender[t].group
        BY <1>5, <1>6, <3>2
      <4>5. sender'[t].pc = "sent" => \A j \in sender'[t].group : inbox'[j] > 0
        BY <1>1, <1>5, <1>6, <3>2 DEF OutboxInv, HandInv
      <4> QED
        BY <3>1, <4>1, <4>2, <4>3, <4>4, <4>5
    <3>3. CASE t # s
      BY <1>1, <1>6, <3>1, <3>3 DEF OutboxInv, HandInv
    <3> QED
      BY <3>2, <3>3
  <2>3. ASSUME NEW t \in Senders, NEW u \in Senders, t # u
        PROVE  sender'[t].hand \intersect sender'[u].hand = {}
    BY <2>1, <2>3 DEF OutboxInv, HandInv
  <2> QED
    BY <2>2, <2>3 DEF HandInv
<1>11. \A x : HasRow(x) => HasRow(x)'
  <2>1. \A j \in Keys : row[j].status # "none" => row'[j].status # "none"
    BY <1>3, <1>8
  <2> QED
    BY <2>1, RowsStay
<1> QED
  BY <1>7, <1>9, <1>10, <1>11 DEF OutboxInv

(* A run that ends, or is killed, forgets what it held.                    *)
LEMMA LettingGoKeeps ==
    ASSUME OutboxInv, NEW s \in Senders, UNCHANGED <<row, inbox>>,
           sender' = [sender EXCEPT ![s] = Waiting]
    PROVE  OutboxInv' /\ \A x : HasRow(x) => HasRow(x)'
<1>1. Waiting \in SenderType /\ Waiting.hand = {} /\ Waiting.group = {}
      /\ Waiting.pc = "idle"
  BY DEF Waiting, SenderType
<1>2. /\ sender'[s] = Waiting
      /\ \A t \in Senders : t # s => sender'[t] = sender[t]
      /\ sender' \in [Senders -> SenderType]
  BY <1>1 DEF OutboxInv, OutboxTypes
<1>3. OutboxTypes'
  BY <1>2 DEF OutboxInv, OutboxTypes
<1>4. RowInv'
  BY DEF OutboxInv, RowInv
<1>5. HandInv'
  BY <1>1, <1>2 DEF OutboxInv, HandInv
<1>6. \A x : HasRow(x) => HasRow(x)'
  BY RowsStay
<1> QED
  BY <1>3, <1>4, <1>5, <1>6 DEF OutboxInv

LEMMA SendersKeep ==
    ASSUME OutboxInv, NEW s \in Senders, RunStep(s) \/ StopRun(s)
    PROVE  OutboxInv' /\ \A x : HasRow(x) => HasRow(x)'
<1>1. CASE EndRun(s) \/ StopRun(s)
  BY <1>1, LettingGoKeeps DEF EndRun, StopRun, Becomes
<1> QED
  BY <1>1, ClaimKeeps, SendKeeps, MarkKeeps DEF RunStep
-----------------------------------------------------------------------------
(* The inductive invariant.                                                *)

LEMMA InitInv == Init => IInv
<1> SUFFICES ASSUME Init PROVE IInv
  OBVIOUS
<1>0. PICK b \in Beginnings :
        /\ watch = [w \in Watches |-> IF w \in b.subjects THEN "absent" ELSE "deleted"]
        /\ alert = [a \in Alerts |-> [active |-> a \in b.subjects,
                                     armed |-> TRUE, rests |-> FALSE]]
        /\ sender = [s \in Senders |-> IF s \in b.senders THEN Waiting ELSE Absent]
        /\ faults = b.faults
        /\ period = b.period
  BY DEF Init
<1>1. Types
  <2>1. /\ faults \in 0..MaxFaults /\ period \in Periods /\ 0 \in Periods
    BY <1>0 DEF Periods
  <2>2. watch \in [Watches -> {"absent", "armed", "disarmed", "deleted"}]
    BY <1>0
  <2>3. alert \in [Alerts -> [active : BOOLEAN, armed : BOOLEAN, rests : BOOLEAN]]
    BY <1>0
  <2>4. /\ odds \in [Watches -> {"met", "unmet", "unknown"}]
        /\ updated \in [Watches -> Periods]
        /\ price \in [Alerts -> Prices \union {Unmet}]
        /\ linked \subseteq Owners \X Channels
    BY <2>1 DEF Init
  <2>5. pass \in PassType
    BY <2>1 DEF Init, Resting, PassType
  <2> QED
    BY <2>1, <2>2, <2>3, <2>4, <2>5 DEF Types
<1>2. NoRow \in RowType
  BY DEF NoRow, RowType, Statuses
<1>3. \A s \in Senders : /\ sender[s] \in SenderType
                         /\ sender[s].hand = {} /\ sender[s].group = {}
  BY <1>0 DEF Waiting, Absent, SenderType
<1>4. OutboxTypes
  <2>1. sender \in [Senders -> SenderType]
    BY <1>0, <1>3
  <2> QED
    BY <1>2, <2>1 DEF Init, OutboxTypes
<1>5. RowInv
  BY DEF Init, RowInv, NoRow
<1>6. HandInv
  BY <1>3 DEF HandInv
<1>7. SilenceInv
  <2>1. (\A w \in Watches : watch[w] # "disarmed") /\ (\A a \in Alerts : alert[a].armed)
    BY <1>0
  <2>2. pass.pc = "idle"
    BY DEF Init, Resting
  <2> QED
    BY <2>1, <2>2 DEF SilenceInv
<1> QED
  BY <1>1, <1>4, <1>5, <1>6, <1>7 DEF IInv, OutboxInv

(* A step that silences nobody and plans no disarming keeps SilenceInv.    *)
LEMMA SilenceStays ==
    ASSUME SilenceInv, \A x : HasRow(x) => HasRow(x)',
           \A w \in Watches : watch'[w] = "disarmed" => watch[w] = "disarmed",
           \A a \in Alerts : ~alert'[a].armed => ~alert[a].armed,
           pass' = pass \/ pass'.pc # "disarm"
    PROVE  SilenceInv'
  BY DEF SilenceInv

LEMMA OwnerKeeps ==
    ASSUME IInv, NEW w \in Watches, SaveWatch(w) \/ DeleteWatch(w)
    PROVE  IInv'
<1>1. OutboxInv' /\ \A x : HasRow(x) => HasRow(x)'
  BY SameOutbox DEF IInv, SaveWatch, DeleteWatch
<1>2. Types'
  BY DEF IInv, Types, SaveWatch, DeleteWatch, world
<1>3. SilenceInv'
  <2>1. \A v \in Watches : watch'[v] = "disarmed" => watch[v] = "disarmed"
    BY DEF IInv, Types, SaveWatch, DeleteWatch
  <2>2. alert' = alert /\ pass' = pass
    BY DEF SaveWatch, DeleteWatch
  <2> QED
    BY <1>1, <2>1, <2>2, SilenceStays DEF IInv
<1> QED
  BY <1>1, <1>2, <1>3 DEF IInv

LEMMA MarketKeeps == ASSUME IInv, Market PROVE IInv'
<1>1. OutboxInv' /\ \A x : HasRow(x) => HasRow(x)'
  BY SameOutbox DEF IInv, Market
<1>2. odds' \in [Watches -> {"met", "unmet", "unknown"}]
  BY DEF IInv, Types, Market
<1>3. price' \in [Alerts -> Prices \union {Unmet}]
  BY DEF IInv, Types, Market
<1>4. linked' \subseteq Owners \X Channels
  BY DEF IInv, Types, Market
<1>5. UNCHANGED <<watch, updated, alert, pass, period, faults>>
  BY DEF Market
<1>6. Types'
  BY <1>2, <1>3, <1>4, <1>5 DEF IInv, Types
<1>7. SilenceInv'
  BY <1>1, <1>5, SilenceStays DEF IInv
<1> QED
  BY <1>1, <1>6, <1>7 DEF IInv

LEMMA NextPeriodKeeps == ASSUME IInv, NextPeriod PROVE IInv'
<1>1. OutboxInv' /\ \A x : HasRow(x) => HasRow(x)'
  BY SameOutbox DEF IInv, NextPeriod
<1>2. /\ alert' \in [Alerts -> [active : BOOLEAN, armed : BOOLEAN, rests : BOOLEAN]]
      /\ \A a \in Alerts : alert'[a].armed = alert[a].armed
  <2>1. ASSUME NEW a \in Alerts
        PROVE  /\ [alert[a] EXCEPT !.rests = FALSE] \in
                     [active : BOOLEAN, armed : BOOLEAN, rests : BOOLEAN]
               /\ [alert[a] EXCEPT !.rests = FALSE].armed = alert[a].armed
    <3>1. alert[a] \in [active : BOOLEAN, armed : BOOLEAN, rests : BOOLEAN]
      BY DEF IInv, Types
    <3>2. [alert[a] EXCEPT !.rests = FALSE].armed = alert[a].armed
      BY <3>1
    <3>3. [alert[a] EXCEPT !.rests = FALSE] \in
             [active : BOOLEAN, armed : BOOLEAN, rests : BOOLEAN]
      BY <3>1
    <3> QED
      BY <3>2, <3>3
  <2> QED
    BY <2>1 DEF NextPeriod
<1>3. period' \in Periods
  BY DEF IInv, Types, NextPeriod, Periods
<1>4. Types'
  BY <1>2, <1>3 DEF IInv, Types, NextPeriod
<1>5. SilenceInv'
  BY <1>1, <1>2, SilenceStays DEF IInv, NextPeriod
<1> QED
  BY <1>1, <1>4, <1>5 DEF IInv

LEMMA FmvLegKeeps == ASSUME IInv, FmvLeg PROVE IInv'
<1>1. /\ UNCHANGED <<watch, updated, odds, price, linked, period, inbox, sender>>
      /\ DispatchFmv \/ UNCHANGED <<row, alert>>
      /\ faults' \in 0..MaxFaults
      /\ pass' = [Resting EXCEPT !.pc = "list"]
  BY DEF FmvLeg, world, Fault, IInv, Types
<1>2. pass' \in PassType /\ pass'.pc = "list"
  BY <1>1 DEF Resting, PassType, Periods
<1>3. row' \in [Keys -> RowType] /\ RowsAdded
  BY <1>1, FmvAdds, StandingAdds DEF DispatchFmv, IInv, OutboxInv
<1>4. OutboxInv' /\ \A x : HasRow(x) => HasRow(x)'
  BY <1>1, <1>3, AddingKeeps DEF IInv
<1>5. alert' \in [Alerts -> [active : BOOLEAN, armed : BOOLEAN, rests : BOOLEAN]]
  <2>1. ASSUME NEW a \in Alerts
        PROVE  \A window : AfterFmv(a, window) \in [active : BOOLEAN, armed : BOOLEAN, rests : BOOLEAN]
    <3>1. alert[a] \in [active : BOOLEAN, armed : BOOLEAN, rests : BOOLEAN]
      BY DEF IInv, Types
    <3>2. [alert[a] EXCEPT !.armed = TRUE] \in
             [active : BOOLEAN, armed : BOOLEAN, rests : BOOLEAN]
      BY <3>1
    <3>3. [alert[a] EXCEPT !.rests = TRUE] \in
             [active : BOOLEAN, armed : BOOLEAN, rests : BOOLEAN]
      BY <3>1
    <3>4. [alert[a] EXCEPT !.armed = FALSE, !.rests = TRUE] \in
             [active : BOOLEAN, armed : BOOLEAN, rests : BOOLEAN]
      BY <3>1
    <3> QED
      BY <3>1, <3>2, <3>3, <3>4 DEF AfterFmv
  <2> QED
    BY <1>1, <2>1 DEF DispatchFmv, IInv, Types
<1>6. Types'
  BY <1>1, <1>2, <1>5 DEF IInv, Types
<1>7. SilenceInv'
  <2>1. ASSUME NEW a \in Alerts, ~alert'[a].armed
        PROVE  HasRow(a)'
    <3>1. CASE ~alert[a].armed
      BY <1>4, <3>1 DEF IInv, SilenceInv
    <3>2. CASE alert[a].armed
      <4>1. alert' # alert
        BY <2>1, <3>2
      <4> QED
        BY <1>1, <2>1, <3>2, <4>1, FmvSilence DEF DispatchFmv, IInv
    <3> QED
      BY <3>1, <3>2
  <2> QED
    BY <1>1, <1>2, <1>4, <2>1 DEF IInv, SilenceInv
<1> QED
  BY <1>4, <1>6, <1>7 DEF IInv

(* The chase leg's steps that read, skip or stop: only the pass changes,   *)
(* to one that disarms nothing.                                            *)
LEMMA ReadingKeeps ==
    ASSUME IInv, ListWatches \/ ReadOdds \/ EndPass \/ StopPass
    PROVE  IInv'
<1>1. /\ UNCHANGED <<watch, updated, odds, price, linked, period, alert, row, inbox, sender>>
      /\ faults' \in 0..MaxFaults
  BY DEF ListWatches, ReadOdds, EndPass, StopPass, Fault, world, IInv, Types
<1>2. pass' \in PassType /\ pass'.pc # "disarm"
  <2>1. CASE ListWatches
    BY <2>1 DEF ListWatches, Listed, Active, IInv, Types, PassType
  <2>2. CASE ReadOdds
    BY <2>2 DEF ReadOdds, IInv, Types, PassType
  <2>3. CASE EndPass \/ StopPass
    BY <2>3 DEF EndPass, StopPass, Resting, PassType, Periods
  <2> QED
    BY <2>1, <2>2, <2>3
<1>3. OutboxInv' /\ \A x : HasRow(x) => HasRow(x)'
  BY <1>1, SameOutbox DEF IInv
<1>4. Types'
  BY <1>1, <1>2 DEF IInv, Types
<1>5. SilenceInv'
  BY <1>1, <1>2, <1>3, SilenceStays DEF IInv
<1> QED
  BY <1>3, <1>4, <1>5 DEF IInv

(* A write by id touches that watch alone, and not one that was deleted.   *)
LEMMA WriteType ==
    ASSUME Types, NEW w \in Watches, NEW state \in {"armed", "disarmed"},
           MayWrite(w, state)
    PROVE  /\ watch' \in [Watches -> {"absent", "armed", "disarmed", "deleted"}]
           /\ updated' \in [Watches -> Periods]
           /\ \A v \in Watches : watch'[v] = watch[v] \/ (v = w /\ watch'[v] = state)
           /\ faults' \in 0..MaxFaults
<1>1. /\ Write(w, state) \/ UNCHANGED <<watch, updated>>
      /\ faults' \in 0..MaxFaults
  BY DEF MayWrite, Fault, Types
<1>2. pass.period \in Periods
  BY DEF Types, PassType
<1> QED
  BY <1>1, <1>2 DEF Types, Write

LEMMA DoneType ==
    ASSUME Types, NEW w \in Watches
    PROVE  /\ Done(w) \in PassType
           /\ Done(w).pc = "watch"
           /\ [Done(w) EXCEPT !.pc = "disarm", !.fired = {w}] \in PassType
           /\ [Done(w) EXCEPT !.pc = "disarm", !.fired = {w}].fired = {w}
  BY DEF Types, PassType, Done

LEMMA ConsiderKeeps ==
    ASSUME IInv, NEW w \in Watches, Consider(w) PROVE IInv'
<1>1. /\ UNCHANGED <<odds, price, linked, period, alert, inbox, sender>>
      /\ Hold(w) \/ Rearm(w) \/ Enqueue(w)
  BY DEF Consider, world
<1>2. faults' \in 0..MaxFaults
  BY <1>1, WriteType DEF Hold, Rearm, Enqueue, Fault, IInv, Types
<1>3. CASE Hold(w) \/ Rearm(w)
  <2>1. row' = row /\ pass' = Done(w)
    BY <1>3 DEF Hold, Rearm
  <2>2. /\ watch' \in [Watches -> {"absent", "armed", "disarmed", "deleted"}]
        /\ updated' \in [Watches -> Periods]
        /\ \A v \in Watches : watch'[v] = "disarmed" => watch[v] = "disarmed"
    <3>1. UNCHANGED <<watch, updated>> \/ MayWrite(w, "armed")
      BY <1>3 DEF Hold, Rearm
    <3> QED
      BY <3>1, WriteType DEF IInv, Types
  <2>3. OutboxInv' /\ \A x : HasRow(x) => HasRow(x)'
    BY <1>1, <2>1, SameOutbox DEF IInv
  <2>4. pass' \in PassType /\ pass'.pc # "disarm"
    BY <2>1, DoneType DEF IInv
  <2>5. Types'
    BY <1>1, <1>2, <2>2, <2>4 DEF IInv, Types
  <2>6. SilenceInv'
    BY <1>1, <2>2, <2>3, <2>4, SilenceStays DEF IInv
  <2> QED
    BY <2>3, <2>5, <2>6 DEF IInv
<1>4. CASE Enqueue(w)
  <2>1. /\ watch' = watch /\ updated' = updated
        /\ row' = row \/ row' = Upserted(w)
        /\ \/ pass' = Done(w)
           \/ /\ ChaseTargets(w) # {}
              /\ row' = Upserted(w)
              /\ pass' = [Done(w) EXCEPT !.pc = "disarm", !.fired = {w}]
    BY <1>4 DEF Enqueue
  <2>2. row' \in [Keys -> RowType] /\ RowsAdded
    BY <2>1, UpsertAdds, StandingAdds DEF IInv, OutboxInv
  <2>3. OutboxInv' /\ \A x : HasRow(x) => HasRow(x)'
    BY <1>1, <2>2, AddingKeeps DEF IInv
  <2>4. pass' \in PassType /\ (pass'.pc = "watch" \/ (pass'.fired = {w} /\ HasRow(w)'))
    <3>1. CASE pass' = Done(w)
      BY <3>1, DoneType DEF IInv
    <3>2. CASE /\ ChaseTargets(w) # {}
               /\ row' = Upserted(w)
               /\ pass' = [Done(w) EXCEPT !.pc = "disarm", !.fired = {w}]
      <4>1. pass' \in PassType /\ pass'.fired = {w}
        BY <3>2, DoneType DEF IInv
      <4>2. HasRow(w)'
        BY <3>2, FiredHasRow DEF IInv
      <4> QED
        BY <4>1, <4>2
    <3> QED
      BY <2>1, <3>1, <3>2
  <2>5. Types'
    BY <1>1, <1>2, <2>1, <2>4 DEF IInv, Types
  <2>6. SilenceInv'
    BY <1>1, <2>1, <2>3, <2>4 DEF IInv, SilenceInv
  <2> QED
    BY <2>3, <2>5, <2>6 DEF IInv
<1> QED
  BY <1>1, <1>3, <1>4

LEMMA DisarmKeeps ==
    ASSUME IInv, NEW w \in Watches, Disarm(w) PROVE IInv'
<1>1. /\ UNCHANGED <<odds, price, linked, period, alert, row, inbox, sender>>
      /\ MayWrite(w, "disarmed")
      /\ pass' = [pass EXCEPT !.pc = "watch", !.fired = {}]
      /\ pass.pc = "disarm" /\ w \in pass.fired
  BY DEF Disarm, world
<1>2. faults' \in 0..MaxFaults
  BY <1>1, WriteType DEF IInv
<1>3. OutboxInv' /\ \A x : HasRow(x) => HasRow(x)'
  BY <1>1, SameOutbox DEF IInv
<1>4. pass' \in PassType /\ pass'.pc = "watch"
  BY <1>1 DEF IInv, Types, PassType
<1>5. /\ watch' \in [Watches -> {"absent", "armed", "disarmed", "deleted"}]
      /\ updated' \in [Watches -> Periods]
      /\ \A v \in Watches : watch'[v] = "disarmed" => watch[v] = "disarmed" \/ v = w
  BY <1>1, WriteType DEF IInv, Types
<1>6. HasRow(w)'
  BY <1>1, <1>3 DEF IInv, SilenceInv
<1>7. Types'
  BY <1>1, <1>2, <1>4, <1>5 DEF IInv, Types
<1>8. SilenceInv'
  BY <1>1, <1>3, <1>4, <1>5, <1>6 DEF IInv, SilenceInv
<1> QED
  BY <1>3, <1>7, <1>8 DEF IInv

LEMMA RunsKeep ==
    ASSUME IInv, NEW s \in Senders, RunStep(s) \/ StopRun(s) PROVE IInv'
<1>1. OutboxInv' /\ \A x : HasRow(x) => HasRow(x)'
  BY SendersKeep DEF IInv
<1>2. /\ UNCHANGED <<watch, updated, odds, price, linked, period, alert, pass>>
      /\ faults' \in 0..MaxFaults
  <2>1. faults \in 0..MaxFaults
    BY DEF IInv, Types
  <2>2. ASSUME NEW c \in Channels, Claim(s, c)
        PROVE  UNCHANGED <<watch, updated, world, alert, pass>> /\ faults' \in 0..MaxFaults
    BY <2>1, <2>2 DEF Claim, Fault
  <2>3. ASSUME NEW target \in {Target(k) : k \in sender[s].hand}, Send(s, target)
        PROVE  UNCHANGED <<watch, updated, world, alert, pass>> /\ faults' \in 0..MaxFaults
    BY <2>1, <2>3 DEF Send, Fault
  <2>4. ASSUME NEW k \in sender[s].group, Mark(s, k)
        PROVE  UNCHANGED <<watch, updated, world, alert, pass>> /\ faults' \in 0..MaxFaults
    BY <2>1, <2>4 DEF Mark, Fault
  <2>5. CASE EndRun(s) \/ StopRun(s)
    BY <2>1, <2>5 DEF EndRun, StopRun, Fault, world
  <2> QED
    BY <2>2, <2>3, <2>4, <2>5 DEF RunStep, world
<1>3. Types'
  BY <1>2 DEF IInv, Types
<1>4. SilenceInv'
  BY <1>1, <1>2, SilenceStays DEF IInv
<1> QED
  BY <1>1, <1>3, <1>4 DEF IInv

LEMMA NextInv == IInv /\ [Next]_vars => IInv'
<1> SUFFICES ASSUME IInv, [Next]_vars PROVE IInv'
  OBVIOUS
<1>1. ASSUME NEW w \in Watches, SaveWatch(w) \/ DeleteWatch(w) PROVE IInv'
  BY <1>1, OwnerKeeps
<1>2. CASE Market
  BY <1>2, MarketKeeps
<1>3. CASE NextPeriod
  BY <1>3, NextPeriodKeeps
<1>4. CASE PassStep \/ StopPass
  <2>1. ASSUME NEW w \in Watches, Consider(w) \/ Disarm(w) PROVE IInv'
    BY <2>1, ConsiderKeeps, DisarmKeeps
  <2> QED
    BY <1>4, <2>1, FmvLegKeeps, ReadingKeeps DEF PassStep
<1>5. ASSUME NEW s \in Senders, RunStep(s) \/ StopRun(s) PROVE IInv'
  BY <1>5, RunsKeep
<1>6. CASE UNCHANGED vars
  <2>1. UNCHANGED <<watch, updated, odds, alert, price, linked, row, inbox, pass, sender,
                    period, faults>>
    BY <1>6 DEF vars
  <2>2. OutboxInv' /\ \A x : HasRow(x) => HasRow(x)'
    BY <2>1, SameOutbox DEF IInv
  <2>3. Types'
    BY <2>1 DEF IInv, Types
  <2>4. SilenceInv'
    BY <2>1, <2>2, SilenceStays DEF IInv
  <2> QED
    BY <2>2, <2>3, <2>4 DEF IInv
<1> QED
  BY <1>1, <1>2, <1>3, <1>4, <1>5, <1>6 DEF Next

(* IInv holds in every state the two crons, the owner and the market reach. *)
THEOREM Invariant == Spec => []IInv
<1>1. Init => IInv
  BY InitInv
<1>2. IInv /\ [Next]_vars => IInv'
  BY NextInv
<1> QED
  BY <1>1, <1>2, PTL DEF Spec

(* The alerts are well typed, and no delivery is tried more often than     *)
(* MaxAttempts.                                                            *)
THEOREM TypeCorrect == Spec => []TypeOK
<1>1. IInv => TypeOK
  BY DEF IInv, Types, OutboxInv, OutboxTypes, RowInv, TypeOK
<1> QED
  BY <1>1, Invariant, PTL

(* A message is repeated only for a failure that mark_delivery_failed      *)
(* counted, for any number of overlapping or killed alerts-send runs.      *)
THEOREM ResendsAreJustified == Spec => []ResentOnlyAfterFailure
<1>1. IInv => ResentOnlyAfterFailure
  BY DEF IInv, OutboxInv, RowInv, ResentOnlyAfterFailure
<1> QED
  BY <1>1, Invariant, PTL

(* Neither leg of alerts-dispatch silences a watch or an alert that has no *)
(* delivery row, whichever of its calls fail and whatever the owner does   *)
(* between them.                                                           *)
THEOREM SilenceHasRow == Spec => []SilentHasRow
<1>1. IInv => SilentHasRow
  BY DEF IInv, SilenceInv, SilentHasRow, HasRow
<1> QED
  BY <1>1, Invariant, PTL
-----------------------------------------------------------------------------
(* The outbox.  The day a pass writes letters for is not yet to come.      *)

RefInv == IInv /\ pass.period <= period

LEMMA InitRefInv == Init => RefInv
<1> SUFFICES ASSUME Init PROVE RefInv
  OBVIOUS
<1>1. pass.period = 0 /\ period \in 0..MaxPeriod
  BY DEF Init, Resting
<1> QED
  BY <1>1, InitInv DEF RefInv

LEMMA NextRefInv == RefInv /\ [Next]_vars => RefInv'
<1> SUFFICES ASSUME RefInv, [Next]_vars PROVE RefInv'
  OBVIOUS
<1>1. IInv'
  BY NextInv DEF RefInv
<1>2. /\ pass \in PassType /\ pass.period \in Nat /\ pass.period <= period
      /\ period \in Nat /\ period' \in Nat
  BY <1>1 DEF RefInv, IInv, Types, PassType, Periods
<1>3. CASE UNCHANGED <<pass, period>>
  BY <1>1, <1>2, <1>3 DEF RefInv
<1>4. CASE NextPeriod
  <2>1. pass' = pass /\ period' = period + 1
    BY <1>4 DEF NextPeriod
  <2> QED
    BY <1>1, <1>2, <2>1 DEF RefInv
<1>5. CASE PassStep \/ StopPass
  <2>1. period' = period
    <3>1. ASSUME NEW w \in Watches, Consider(w) \/ Disarm(w) PROVE period' = period
      BY <3>1 DEF Consider, Disarm, world
    <3> QED
      BY <1>5, <3>1 DEF PassStep, FmvLeg, ListWatches, ReadOdds, EndPass, StopPass, world
  <2>2. pass'.period \in {0, pass.period, period}
    <3>1. ASSUME NEW w \in Watches, Consider(w) PROVE pass'.period = pass.period
      <4>1. PICK q \in {Done(w), [Done(w) EXCEPT !.pc = "disarm", !.fired = {w}]} : pass' = q
        BY <3>1 DEF Consider, Hold, Rearm, Enqueue
      <4>2. Done(w) \in PassType /\ Done(w).period = pass.period
        BY <1>2 DEF Done, PassType
      <4> QED
        BY <4>1, <4>2 DEF PassType
    <3>2. ASSUME NEW w \in Watches, Disarm(w) PROVE pass'.period = pass.period
      BY <1>2, <3>2 DEF Disarm, PassType
    <3>3. CASE FmvLeg
      BY <3>3 DEF FmvLeg, Resting
    <3>4. CASE ListWatches
      BY <1>2, <3>4 DEF ListWatches, PassType
    <3>5. CASE ReadOdds
      BY <1>2, <3>5 DEF ReadOdds, PassType
    <3>6. CASE EndPass \/ StopPass
      BY <3>6 DEF EndPass, StopPass, Resting
    <3> QED
      BY <1>5, <3>1, <3>2, <3>3, <3>4, <3>5, <3>6 DEF PassStep
  <2> QED
    BY <1>1, <1>2, <2>1, <2>2 DEF RefInv
<1>6. \/ UNCHANGED <<pass, period>> \/ NextPeriod \/ PassStep \/ StopPass
  <2>1. ASSUME NEW w \in Watches, SaveWatch(w) \/ DeleteWatch(w)
        PROVE  UNCHANGED <<pass, period>>
    BY <2>1 DEF SaveWatch, DeleteWatch, world
  <2>2. ASSUME NEW s \in Senders, RunStep(s) \/ StopRun(s)
        PROVE  UNCHANGED <<pass, period>>
    BY <2>2 DEF RunStep, Claim, Send, Mark, EndRun, StopRun, world
  <2> QED
    BY <2>1, <2>2 DEF Next, Market, vars
<1> QED
  BY <1>3, <1>4, <1>5, <1>6

LEMMA RefInvariant == Spec => []RefInv
  BY InitRefInv, NextRefInv, PTL DEF Spec
-----------------------------------------------------------------------------
(* The mapping, step by step.                                              *)

LEMMA Files ==
    /\ FileOf("none") = "none" /\ FileOf("sent") = "delivered" /\ FileOf("failed") = "given up"
    /\ FileOf("pending") = "waiting" /\ FileOf("sending") = "waiting"
  BY DEF FileOf

LEMMA Added ==
    ASSUME NEW old, old = NoRow, NEW new, \E v \in Prices \union {Unmet} : new = Pending(v)
    PROVE  /\ old.status = "none" /\ old.attempts = 0
           /\ new.status = "pending" /\ new.attempts = 0
  BY DEF NoRow, Pending

LEMMA InitMaps == Init => Abstract!Init
<1> SUFFICES ASSUME Init PROVE Abstract!Init
  OBVIOUS
<1>1. \A k \in Keys : row[k].status = "none" /\ row[k].attempts = 0
  BY DEF Init, NoRow
<1>2. File = [k \in Keys |-> "none"]
  BY <1>1, Files DEF File
<1>3. Failures = [k \in Keys |-> 0]
  BY <1>1 DEF Failures
<1>4. Disarmed = {}
  BY DEF Init, Disarmed
<1> QED
  BY <1>2, <1>3, <1>4 DEF Init, Abstract!Init

(* What changes none of these is hidden.                                   *)
LEMMA HiddenMaps ==
    ASSUME UNCHANGED <<period, linked, inbox, File, Failures, Disarmed>>
    PROVE  UNCHANGED Abstract!vars
  BY DEF Abstract!vars

LEMMA SameRowsMap ==
    ASSUME UNCHANGED row
    PROVE  UNCHANGED <<File, Failures>>
  BY DEF File, Failures

LEMMA SameArmingMaps ==
    ASSUME UNCHANGED <<watch, alert>>
    PROVE  UNCHANGED Disarmed
  BY DEF Disarmed

(* A step of the dispatch or of an owner: rows are added for channels that *)
(* are linked, and watches and alerts armed and disarmed.                  *)
LEMMA WriteMaps ==
    ASSUME RefInv, IInv', UNCHANGED <<period, linked, inbox>>,
           \A k \in Keys :
              \/ row'[k] = row[k]
              \/ /\ row[k] = NoRow
                 /\ \E v \in Prices \union {Unmet} : row'[k] = Pending(v)
                 /\ Target(k) \in linked /\ Period(k) <= period
    PROVE  Abstract!Write
<1>1. ASSUME NEW k \in Keys
      PROVE  \/ File'[k] = File[k]
             \/ /\ File[k] = "none" /\ File'[k] = "waiting"
                /\ Target(k) \in linked /\ Period(k) <= period
  <2>1. CASE row'[k] = row[k]
    BY <2>1 DEF File
  <2>2. CASE row'[k] # row[k]
    <3>1. /\ row[k] = NoRow /\ Target(k) \in linked /\ Period(k) <= period
          /\ \E v \in Prices \union {Unmet} : row'[k] = Pending(v)
      BY <2>2
    <3>2. row[k].status = "none" /\ row'[k].status = "pending"
      BY <3>1, Added
    <3> QED
      BY <3>1, <3>2, Files DEF File
  <2> QED
    BY <2>1, <2>2
<1>2. ASSUME NEW k \in Keys PROVE row'[k].attempts = row[k].attempts
  <2>1. \/ row'[k] = row[k]
        \/ row[k] = NoRow /\ \E v \in Prices \union {Unmet} : row'[k] = Pending(v)
    OBVIOUS
  <2> QED
    BY <2>1, Added
<1>3. UNCHANGED Failures
  BY <1>2 DEF Failures
<1>4. \A x \in Disarmed' : Abstract!Written(x)'
  <2>1. \A x \in Disarmed' : HasRow(x)'
    BY DEF IInv, SilenceInv, Disarmed
  <2>2. OutboxTypes'
    BY DEF IInv, OutboxInv
  <2>3. ASSUME NEW x, HasRow(x)' PROVE Abstract!Written(x)'
    <3>1. PICK k \in Keys : Subject(k) = x /\ row'[k].status # "none"
      BY <2>3 DEF HasRow
    <3>2. row'[k].status \in Statuses
      BY <2>2 DEF OutboxTypes, RowType
    <3>3. File'[k] # "none"
      BY <3>1, <3>2, Files DEF File, Statuses
    <3> QED
      BY <3>1, <3>3 DEF Abstract!Written
  <2> QED
    BY <2>1, <2>3
<1>5. File' = [k \in Keys |-> File'[k]]
  BY DEF File
<1> QED
  BY <1>1, <1>3, <1>4, <1>5 DEF Abstract!Write

LEMMA FmvMaps ==
    ASSUME RefInv, IInv', FmvLeg
    PROVE  Abstract!Write
<1>1. /\ UNCHANGED <<period, linked, inbox>>
      /\ row' = row \/ \E window \in Windows : row' = FmvRows(window)
  BY DEF FmvLeg, DispatchFmv, world
<1>2. ASSUME NEW window \in Windows, NEW k \in Keys, FmvRows(window)[k] # row[k]
      PROVE  /\ row[k] = NoRow
             /\ \E v \in Prices \union {Unmet} : FmvRows(window)[k] = Pending(v)
             /\ Target(k) \in linked /\ Period(k) <= period
  <2>1. /\ Subject(k) \in window /\ Period(k) = period
        /\ Channel(k) \in News(Subject(k)) /\ FmvRows(window)[k] = Pending(price[Subject(k)])
    BY <1>2 DEF FmvRows
  <2>2. Channel(k) \in Targets(Subject(k)) /\ row[<<Subject(k), Channel(k), period>>] = NoRow
    BY <2>1 DEF News
  <2>3. Target(k) \in linked
    BY <2>2 DEF Targets, Target
  <2>4. row[k] = NoRow
    BY <2>1, <2>2, KeyParts
  <2>5. price[Subject(k)] \in Prices \union {Unmet}
    BY <2>1 DEF Windows, Eligible, RefInv, IInv, Types
  <2>6. Period(k) <= period
    BY <2>1 DEF RefInv, IInv, Types, Periods
  <2> QED
    BY <2>1, <2>3, <2>4, <2>5, <2>6
<1> QED
  BY <1>1, <1>2, WriteMaps

LEMMA ConsiderMaps ==
    ASSUME RefInv, IInv', NEW w \in Watches, Consider(w)
    PROVE  Abstract!Write
<1>1. UNCHANGED <<period, linked, inbox>> /\ row' \in {row, Upserted(w)}
  BY DEF Consider, Hold, Rearm, Enqueue, world
<1>2. ASSUME NEW k \in Keys, Upserted(w)[k] # row[k]
      PROVE  /\ row[k] = NoRow /\ Upserted(w)[k] = Pending(Unmet)
             /\ Target(k) \in linked /\ Period(k) <= period
  <2>1. /\ Subject(k) = w /\ Channel(k) \in ChaseTargets(w) /\ Period(k) = pass.period
        /\ row[k] = NoRow /\ Upserted(w)[k] = Pending(Unmet)
    BY <1>2 DEF Upserted
  <2>2. Target(k) \in linked
    BY <2>1 DEF ChaseTargets, Target
  <2> QED
    BY <2>1, <2>2 DEF RefInv
<1> QED
  BY <1>1, <1>2, WriteMaps

LEMMA ArmingMaps ==
    ASSUME RefInv, IInv', NEW w \in Watches, SaveWatch(w) \/ DeleteWatch(w) \/ Disarm(w)
    PROVE  Abstract!Write
<1>1. UNCHANGED <<period, linked, inbox, row>>
  BY DEF SaveWatch, DeleteWatch, Disarm, world
<1> QED
  BY <1>1, WriteMaps

LEMMA ReadingMaps ==
    ASSUME ListWatches \/ ReadOdds \/ EndPass \/ StopPass
    PROVE  UNCHANGED Abstract!vars
<1>1. UNCHANGED <<period, linked, inbox, row, watch, alert>>
  BY DEF ListWatches, ReadOdds, EndPass, StopPass, world
<1> QED
  BY <1>1, HiddenMaps, SameRowsMap, SameArmingMaps

LEMMA WorldMaps ==
    ASSUME RefInv, Market \/ NextPeriod
    PROVE  [Abstract!Next]_(Abstract!vars)
<1>1. CASE Market
  <2>1. UNCHANGED <<period, inbox, row, watch, alert>>
    BY <1>1 DEF Market
  <2>2. UNCHANGED <<File, Failures, Disarmed>>
    BY <2>1, SameRowsMap, SameArmingMaps
  <2>3. CASE linked' = linked
    BY <2>1, <2>2, <2>3, HiddenMaps
  <2>4. CASE linked' # linked
    BY <2>1, <2>2, <2>4 DEF Abstract!Move, Abstract!Next
  <2> QED
    BY <2>3, <2>4
<1>2. CASE NextPeriod
  <2>1. UNCHANGED <<linked, inbox, row, watch>> /\ period' = period + 1
    BY <1>2 DEF NextPeriod
  <2>2. \A a \in Alerts : alert'[a].armed = alert[a].armed
    BY <1>2 DEF NextPeriod, RefInv, IInv, Types
  <2>3. UNCHANGED Disarmed
    BY <2>1, <2>2 DEF Disarmed
  <2> QED
    BY <2>1, <2>3, SameRowsMap DEF Abstract!NextDay, Abstract!Next
<1> QED
  BY <1>1, <1>2

(* Only the file of a row, not its claim, is seen.                         *)
LEMMA ClaimMaps ==
    ASSUME RefInv, NEW s \in Senders, NEW c \in Channels, Claim(s, c)
    PROVE  UNCHANGED Abstract!vars
<1>1. UNCHANGED <<period, linked, inbox, watch, alert>>
  BY DEF Claim, world
<1>2. row' = WithStatus(Claimable(c), "sending")
  BY DEF Claim
<1>3. ASSUME NEW k \in Keys
      PROVE  FileOf(row'[k].status) = FileOf(row[k].status) /\ row'[k].attempts = row[k].attempts
  <2>1. row[k] \in RowType
    BY DEF RefInv, IInv, OutboxInv, OutboxTypes
  <2>2. CASE k \in Claimable(c)
    <3>1. row[k].status = "pending"
      BY <2>2 DEF Claimable, Has
    <3>2. row'[k] = [row[k] EXCEPT !.status = "sending"]
      BY <1>2, <2>2 DEF WithStatus
    <3>3. row'[k].status = "sending" /\ row'[k].attempts = row[k].attempts
      BY <2>1, <3>2 DEF RowType
    <3> QED
      BY <3>1, <3>3, Files
  <2>3. CASE k \notin Claimable(c)
    BY <1>2, <2>3 DEF WithStatus
  <2> QED
    BY <2>2, <2>3
<1>4. UNCHANGED <<File, Failures>>
  BY <1>3 DEF File, Failures
<1> QED
  BY <1>1, <1>4, HiddenMaps, SameArmingMaps

LEMMA SendMaps ==
    ASSUME RefInv, NEW s \in Senders, NEW target \in {Target(k) : k \in sender[s].hand},
           Send(s, target)
    PROVE  [Abstract!Next]_(Abstract!vars)
<1>1. UNCHANGED <<period, linked, row, watch, alert>>
  BY DEF Send, world
<1>2. PICK group : group = Group(sender[s].hand, target)
  OBVIOUS
<1>3. \/ inbox' = inbox
      \/ inbox' = [k \in Keys |-> IF k \in group THEN inbox[k] + 1 ELSE inbox[k]]
  BY <1>2 DEF Send
<1>4. group \subseteq Keys /\ \A k \in group : Target(k) = target
  BY <1>2 DEF Group, RefInv, IInv, OutboxInv, OutboxTypes, SenderType
<1>5. \A k \in group : row[k].status = "sending" /\ inbox[k] <= row[k].attempts
  <2>1. sender[s].group = {}
    BY DEF Send, At, RefInv, IInv, OutboxInv, HandInv
  <2> QED
    BY <1>2, <2>1 DEF Group, RefInv, IInv, OutboxInv, HandInv
<1>6. UNCHANGED <<File, Failures, Disarmed>>
  BY <1>1, SameRowsMap, SameArmingMaps
<1>7. CASE inbox' = inbox
  BY <1>1, <1>6, <1>7, HiddenMaps
<1>8. CASE inbox' = [k \in Keys |-> IF k \in group THEN inbox[k] + 1 ELSE inbox[k]]
  <2>1. \A k \in group : File[k] = "waiting" /\ inbox[k] <= Failures[k]
    BY <1>4, <1>5, Files DEF File, Failures
  <2>2. Abstract!Post(group) /\ group \subseteq {k \in Keys : File[k] = "waiting"}
    BY <1>1, <1>4, <1>6, <1>8, <2>1 DEF Abstract!Post
  <2> QED
    BY <1>4, <2>2 DEF Abstract!Next
<1> QED
  BY <1>3, <1>7, <1>8

LEMMA MarkMaps ==
    ASSUME RefInv, NEW s \in Senders, NEW k \in sender[s].group, Mark(s, k)
    PROVE  [Abstract!Next]_(Abstract!vars)
<1>1. UNCHANGED <<period, linked, inbox, watch, alert>>
  BY DEF Mark, world
<1>2. /\ k \in Keys /\ row \in [Keys -> RowType] /\ row[k] \in RowType
      /\ row[k].status = "sending"
      /\ At(s, "sent") => inbox[k] > 0
  BY DEF RefInv, IInv, OutboxInv, OutboxTypes, HandInv, SenderType, At
<1>3. UNCHANGED Disarmed
  BY <1>1, SameArmingMaps
<1>4. CASE row' = row
  BY <1>1, <1>3, <1>4, HiddenMaps, SameRowsMap
<1>5. CASE At(s, "sent") /\ row' = MarkSent(k)
  <2>1. \A j \in Keys : /\ row'[j].status = IF j = k THEN "sent" ELSE row[j].status
                        /\ row'[j].attempts = row[j].attempts
    BY <1>2, <1>5 DEF MarkSent, WithStatus, RowType
  <2>2. File' = [File EXCEPT ![k] = "delivered"] /\ File[k] = "waiting"
    BY <1>2, <2>1, Files DEF File
  <2>3. UNCHANGED Failures
    BY <2>1 DEF Failures
  <2>4. Abstract!FileDelivered(k)
    BY <1>1, <1>2, <1>3, <1>5, <2>2, <2>3 DEF Abstract!FileDelivered
  <2> QED
    BY <1>2, <2>4 DEF Abstract!Next
<1>6. CASE row' = MarkFailed(k)
  <2>1. PICK next : next = IF row[k].attempts + 1 < MaxAttempts THEN "pending" ELSE "failed"
    OBVIOUS
  <2>2. \A j \in Keys : /\ row'[j].status = IF j = k THEN next ELSE row[j].status
                        /\ row'[j].attempts = IF j = k THEN row[k].attempts + 1
                                                      ELSE row[j].attempts
    <3>1. PICK q : q = [row[k] EXCEPT !.attempts = row[k].attempts + 1, !.status = next]
      OBVIOUS
    <3>2. q.status = next /\ q.attempts = row[k].attempts + 1
      BY <1>2, <3>1 DEF RowType
    <3>3. row' = [row EXCEPT ![k] = q]
      BY <1>6, <2>1, <3>1 DEF MarkFailed
    <3> QED
      BY <1>2, <3>2, <3>3
  <2>3. Failures' = [Failures EXCEPT ![k] = @ + 1]
    BY <1>2, <2>2 DEF Failures
  <2>4. Failures'[k] = row[k].attempts + 1
    BY <1>2, <2>2 DEF Failures
  <2>5. File' = [File EXCEPT ![k] = FileOf(next)] /\ File[k] = "waiting"
    BY <1>2, <2>2, Files DEF File
  <2>6. FileOf(next) = IF Failures'[k] < MaxAttempts THEN "waiting" ELSE "given up"
    BY <2>1, <2>4, Files
  <2>7. Abstract!NoteFailure(k)
    BY <1>1, <1>3, <2>3, <2>5, <2>6 DEF Abstract!NoteFailure
  <2> QED
    BY <1>2, <2>7 DEF Abstract!Next
<1> QED
  BY <1>4, <1>5, <1>6 DEF Mark

LEMMA StepMaps ==
    ASSUME RefInv, RefInv', [Next]_vars
    PROVE  [Abstract!Next]_(Abstract!vars)
<1>1. IInv'
  BY DEF RefInv
<1>2. ASSUME NEW w \in Watches, SaveWatch(w) \/ DeleteWatch(w) \/ Consider(w) \/ Disarm(w)
      PROVE  [Abstract!Next]_(Abstract!vars)
  BY <1>1, <1>2, ArmingMaps, ConsiderMaps DEF Abstract!Next
<1>3. CASE Market \/ NextPeriod
  BY <1>3, WorldMaps
<1>4. CASE PassStep \/ StopPass
  <2>1. CASE FmvLeg
    BY <1>1, <2>1, FmvMaps DEF Abstract!Next
  <2> QED
    BY <1>2, <1>4, <2>1, ReadingMaps DEF PassStep
<1>5. ASSUME NEW s \in Senders, RunStep(s) \/ StopRun(s)
      PROVE  [Abstract!Next]_(Abstract!vars)
  <2>1. CASE EndRun(s) \/ StopRun(s)
    <3>1. UNCHANGED <<period, linked, inbox, row, watch, alert>>
      BY <2>1 DEF EndRun, StopRun, world
    <3> QED
      BY <3>1, HiddenMaps, SameRowsMap, SameArmingMaps
  <2> QED
    BY <1>5, <2>1, ClaimMaps, SendMaps, MarkMaps DEF RunStep
<1>6. CASE UNCHANGED vars
  <2>1. UNCHANGED <<period, linked, inbox, row, watch, alert>>
    BY <1>6 DEF vars
  <2> QED
    BY <2>1, HiddenMaps, SameRowsMap, SameArmingMaps
<1> QED
  BY <1>2, <1>3, <1>4, <1>5, <1>6 DEF Next

(* However dispatch passes and sender runs overlap, fail or are killed,    *)
(* every call they make is one the outbox allows.                          *)
THEOREM AlertsFollowOutbox == Spec => FollowsOutbox
<1>1. RefInv /\ RefInv' /\ [Next]_vars => [Abstract!Next]_(Abstract!vars)
  BY StepMaps
<1> QED
  BY <1>1, RefInvariant, PTL DEF Spec, FollowsOutbox

(* Behaviours of the alerts are behaviours of the outbox.                  *)
THEOREM AlertsImplementOutbox == Spec => ImplementsOutbox
  BY InitMaps, AlertsFollowOutbox, PTL DEF Spec, ImplementsOutbox
=============================================================================
