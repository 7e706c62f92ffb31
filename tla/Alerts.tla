------------------------------- MODULE Alerts -------------------------------
(***************************************************************************)
(* Alerts: two dispatch legs that fill the alert_deliveries outbox         *)
(* (app/api/cron/alerts-dispatch) and the senders that drain it            *)
(* (app/api/cron/alerts-send).                                             *)
(*                                                                         *)
(* One dispatch pass runs at a time.  Its FMV leg is one transaction       *)
(* (dispatch_triggered_fmv_alerts); its pack-chase leg                     *)
(* (lib/packs/chase-alerts.ts) writes the delivery rows of a watch and     *)
(* then disarms it, on readings taken when the leg began, while the owner  *)
(* may save or delete the watch.  Sender runs overlap: each claims pending *)
(* rows of a channel, sends one message per owner and marks row by row.    *)
(* At most MaxFaults calls fail, lose their answer or are cut short by a   *)
(* kill, none of them in the last period, so that retries have room.       *)
(*                                                                         *)
(* A period stands for a Pacific day to the chase leg's dedup bucket, and  *)
(* for an hour, and the six hours' rest, to the FMV leg, which shares no   *)
(* state with it.  Left out: the deal leg, message texts, run logs.        *)
(***************************************************************************)
EXTENDS Naturals, FiniteSets

CONSTANTS
    Watches,        \* ids of pack_chase_watches
    Alerts,         \* ids of fmv_alerts
    AskAlerts,      \* those on an ask (price_below, discount_above)
    Owners,
    OwnerOf,        \* subject -> its owner
    IdOf,           \* watch -> the place of its id in the order of ids
    ListLimit,      \* .limit(1000): watches the chase leg reads, by id
    ScanLimit,      \* LIMIT p_max: alerts the FMV leg reads, in no order
    Channels,
    ChannelsOf,     \* FMV alert -> fmv_alerts.channel as a set
    Prices,         \* prices at which an FMV alert's condition holds
    Unmet,          \* a price at which it does not, or none is known
    Beginnings,     \* bound: the subjects and senders a behaviour has, the
                    \* faults it has behind it and its first period
    Senders,        \* invocations of alerts-send that may overlap
    MaxAttempts,    \* failures after which a row is given up
    MaxPeriod,      \* bound: periods of the instance
    MaxFaults       \* bound: failed calls, lost answers and kills

Subjects == Watches \union Alerts

ASSUME SubjectAssumption ==
    /\ Watches \intersect Alerts = {}
    /\ AskAlerts \subseteq Alerts
    /\ OwnerOf \in [Subjects -> Owners]
    /\ ChannelsOf \in [Alerts -> SUBSET Channels]
    /\ IdOf \in [Watches -> Nat]
    /\ Beginnings \subseteq [subjects : SUBSET Subjects, senders : SUBSET Senders,
                             faults : 0..MaxFaults, period : 0..MaxPeriod]
    /\ Unmet \notin Prices
ASSUME NumberAssumption ==
    /\ MaxAttempts \in Nat \ {0}
    /\ ListLimit \in Nat
    /\ ScanLimit \in Nat
    /\ MaxPeriod \in Nat
    /\ MaxFaults \in Nat

VARIABLES
    watch,      \* watch -> "absent", "armed", "disarmed" or "deleted"
    updated,    \* watch -> the period of its updated_at
    odds,       \* watch -> what a reading of its pack shows now
    alert,      \* FMV alert -> active, armed, and stamped in this period (rests)
    price,      \* FMV alert -> the price it looks at
    linked,     \* <<owner, channel>> pairs with a verified channel
    row,        \* alert_deliveries by its unique key
    inbox,      \* key -> times a provider accepted its message
    pass,       \* the dispatch pass
    sender,     \* sender run -> its locals
    period,
    faults

vars == <<watch, updated, odds, alert, price, linked, row, inbox, pass, sender, period,
          faults>>
world == <<odds, price, linked, period>>

Periods == 0..MaxPeriod
Keys == Subjects \X Channels \X Periods
Subject(k) == k[1]
Channel(k) == k[2]
Period(k) == k[3]
Target(k) == <<OwnerOf[Subject(k)], Channel(k)>>

NoRow == [status |-> "none", attempts |-> 0, value |-> Unmet]
Queued(value) == [status |-> "queued", attempts |-> 0, value |-> value]
Pending(value) == [status |-> "pending", attempts |-> 0, value |-> value]
Statuses == {"none", "pending", "sending", "sent", "failed"}
Has(status) == {k \in Keys : row[k].status = status}

Resting == [pc |-> "idle", todo |-> {}, fired |-> {}, armed |-> {}, met |-> {},
            unmet |-> {}, period |-> 0]
Waiting == [pc |-> "idle", hand |-> {}, group |-> {}]
Absent == [pc |-> "absent", hand |-> {}, group |-> {}]

Fault == faults < MaxFaults /\ period < MaxPeriod /\ faults' = faults + 1

Init ==
    /\ \E b \in Beginnings :
          /\ watch = [w \in Watches |->
                        IF w \in b.subjects THEN "absent" ELSE "deleted"]
          /\ alert = [a \in Alerts |-> [active |-> a \in b.subjects,
                                       armed |-> TRUE, rests |-> FALSE]]
          /\ sender = [s \in Senders |-> IF s \in b.senders THEN Waiting ELSE Absent]
          /\ faults = b.faults
          /\ period = b.period
    /\ updated = [w \in Watches |-> 0]
    /\ odds = [w \in Watches |-> "unmet"]
    /\ price = [a \in Alerts |-> Unmet]
    /\ linked = {}
    /\ row = [k \in Keys |-> NoRow]
    /\ inbox = [k \in Keys |-> 0]
    /\ pass = Resting
-----------------------------------------------------------------------------
(* The owner and the market.                                               *)

(* POST /api/alerts/pack-chase upserts the watch, armed.                   *)
SaveWatch(w) ==
    /\ watch[w] # "deleted"
    /\ watch' = [watch EXCEPT ![w] = "armed"]
    /\ updated' = [updated EXCEPT ![w] = period]
    /\ UNCHANGED <<world, alert, row, inbox, pass, sender, faults>>

(* A watch saved again after this has another id.                          *)
DeleteWatch(w) ==
    /\ watch[w] \in {"armed", "disarmed"}
    /\ watch' = [watch EXCEPT ![w] = "deleted"]
    /\ UNCHANGED <<updated, world, alert, row, inbox, pass, sender, faults>>

(* Nobody looks at a deleted watch or an inactive alert again.             *)
Market ==
    /\ \/ \E w \in Watches, seen \in {"met", "unmet", "unknown"} :
             /\ watch[w] # "deleted" /\ odds[w] # seen
             /\ odds' = [odds EXCEPT ![w] = seen]
             /\ UNCHANGED <<price, linked>>
       \/ \E a \in Alerts, p \in Prices \union {Unmet} :
             /\ alert[a].active /\ price[a] # p
             /\ price' = [price EXCEPT ![a] = p]
             /\ UNCHANGED <<odds, linked>>
       \/ \E target \in Owners \X Channels :
             /\ linked' = IF target \in linked THEN linked \ {target}
                          ELSE linked \union {target}
             /\ UNCHANGED <<odds, price>>
    /\ UNCHANGED <<watch, updated, alert, row, inbox, pass, sender, period, faults>>

NextPeriod ==
    /\ period < MaxPeriod
    /\ period' = period + 1
    /\ alert' = [a \in Alerts |-> [alert[a] EXCEPT !.rests = FALSE]]
    /\ UNCHANGED <<watch, updated, odds, price, linked, row, inbox, pass, sender, faults>>
-----------------------------------------------------------------------------
(* The FMV leg, one transaction over the alerts that do not rest, as many  *)
(* as its limit lets it read.                                              *)

Eligible == {a \in Alerts : alert[a].active /\ ~alert[a].rests}

(* LIMIT without ORDER BY: any ScanLimit of them, the same ones for ever   *)
(* if the database likes.                                                  *)
Windows ==
    {window \in SUBSET Eligible :
        \/ Cardinality(window) = ScanLimit
        \/ Cardinality(window) < ScanLimit /\ window = Eligible}

Triggered(a) == price[a] # Unmet
Targets(a) == {c \in ChannelsOf[a] : <<OwnerOf[a], c>> \in linked}

ToldEvenIfFailed(a, c) ==
    \E t \in Periods :
        /\ row[<<a, c, t>>].value = price[a]
        /\ \A later \in (t + 1)..MaxPeriod : row[<<a, c, later>>].status = "none"

(* The last delivery that has not failed told this same ask.               *)
ToldAlready(a, c) ==
    \E t \in Periods :
        /\ row[<<a, c, t>>].status \notin {"none", "failed"}
        /\ row[<<a, c, t>>].value = price[a]
        /\ \A later \in (t + 1)..MaxPeriod :
              row[<<a, c, later>>].status \in {"none", "failed"}

(* A disarmed FMV threshold has nothing new to say; a disarmed ask alert   *)
(* speaks again when the ask changed.                                      *)
News(a) ==
    {c \in Targets(a) :
        /\ row[<<a, c, period>>] = NoRow
        /\ alert[a].armed \/ (a \in AskAlerts /\ ~ToldAlready(a, c))}

FmvRows(window) ==
    [k \in Keys |->
        IF /\ Subject(k) \in window
           /\ Triggered(Subject(k))
           /\ Period(k) = period
           /\ Channel(k) \in News(Subject(k))
        THEN Pending(price[Subject(k)]) ELSE row[k]]

AfterFmv(a, window) ==
    IF a \notin window THEN alert[a]
    ELSE IF ~Triggered(a) THEN [alert[a] EXCEPT !.armed = TRUE]
    ELSE IF News(a) # {} THEN [alert[a] EXCEPT !.armed = FALSE, !.rests = TRUE]
    ELSE IF Targets(a) = {} /\ (alert[a].armed \/ a \in AskAlerts)
         THEN [alert[a] EXCEPT !.rests = TRUE]
    ELSE alert[a]

DispatchFmv ==
    \E window \in Windows :
        /\ row' = FmvRows(window)
        /\ alert' = [a \in Alerts |-> AfterFmv(a, window)]

(* An error of this leg is noted and the chase leg runs all the same.      *)
FmvLeg ==
    /\ pass.pc = "idle"
    /\ \/ DispatchFmv /\ UNCHANGED faults
       \/ Fault /\ (DispatchFmv \/ UNCHANGED <<row, alert>>)
    /\ pass' = [Resting EXCEPT !.pc = "list"]
    /\ UNCHANGED <<watch, updated, world, inbox, sender>>
-----------------------------------------------------------------------------
(* The pack-chase leg.                                                     *)

Active == {w \in Watches : watch[w] \in {"armed", "disarmed"}}

(* The first ListLimit of them by id, at every pass.                       *)
Listed ==
    {w \in Active : Cardinality({v \in Active : IdOf[v] < IdOf[w]}) < ListLimit}

ListWatches ==
    /\ pass.pc = "list"
    /\ pass' = [pass EXCEPT !.pc = "read", !.period = period, !.todo = Listed,
                  !.armed = {w \in Listed : watch[w] = "armed"}]
    /\ UNCHANGED <<watch, updated, world, alert, row, inbox, sender, faults>>

ReadOdds ==
    /\ pass.pc = "read"
    /\ pass' = [pass EXCEPT !.pc = "watch",
                  !.met = {w \in pass.todo : odds[w] = "met"},
                  !.unmet = {w \in pass.todo : odds[w] = "unmet"}]
    /\ UNCHANGED <<watch, updated, world, alert, row, inbox, sender, faults>>

Done(w) == [pass EXCEPT !.pc = "watch", !.todo = pass.todo \ {w}]

(* An update by id, stamped with the time the leg began.                   *)
Write(w, state) ==
    IF w \in Active
    THEN /\ watch' = [watch EXCEPT ![w] = state]
         /\ updated' = [updated EXCEPT ![w] = pass.period]
    ELSE UNCHANGED <<watch, updated>>

MayWrite(w, state) ==
    \/ Write(w, state) /\ UNCHANGED faults
    \/ (Write(w, state) \/ UNCHANGED <<watch, updated>>) /\ Fault

(* decideChaseWatch on what was read: fire, rearm or hold.                 *)
Fires(w) == w \in pass.met /\ w \in pass.armed
Rearms(w) == w \in pass.unmet /\ w \notin pass.armed

Hold(w) ==
    /\ ~Fires(w) /\ ~Rearms(w)
    /\ pass' = Done(w)
    /\ UNCHANGED <<watch, updated, row, faults>>

Rearm(w) ==
    /\ Rearms(w)
    /\ MayWrite(w, "armed")
    /\ pass' = Done(w)
    /\ UNCHANGED row

ChaseTargets(w) == {c \in Channels : <<OwnerOf[w], c>> \in linked}

(* Mutant: ON CONFLICT DO UPDATE.                                          *)
UpsertedAgain(w) ==
    [k \in Keys |->
        IF /\ Subject(k) = w
           /\ Channel(k) \in ChaseTargets(w)
           /\ Period(k) = pass.period
        THEN Pending(Unmet) ELSE row[k]]

(* ON CONFLICT DO NOTHING: rows of this watch and day stay as they are.    *)
Upserted(w) ==
    [k \in Keys |->
        IF /\ Subject(k) = w
           /\ Channel(k) \in ChaseTargets(w)
           /\ Period(k) = pass.period
           /\ row[k] = NoRow
        THEN Pending(Unmet) ELSE row[k]]

EnqueueWithoutTargets(w) ==
    /\ Fires(w)
    /\ \/ /\ row' = Upserted(w)
          /\ pass' = [Done(w) EXCEPT !.pc = "disarm", !.fired = {w}]
          /\ UNCHANGED faults
       \/ /\ row' \in {row, Upserted(w)}
          /\ pass' = Done(w)
          /\ Fault
    /\ UNCHANGED <<watch, updated>>

(* No channel, or an insert that reports an error, leaves the watch armed. *)
Enqueue(w) ==
    /\ Fires(w)
    /\ \/ /\ ChaseTargets(w) = {}
          /\ pass' = Done(w)
          /\ UNCHANGED <<row, faults>>
       \/ /\ ChaseTargets(w) # {}
          /\ \/ /\ row' = Upserted(w)
                /\ pass' = [Done(w) EXCEPT !.pc = "disarm", !.fired = {w}]
                /\ UNCHANGED faults
             \/ /\ row' \in {row, Upserted(w)}
                /\ pass' = Done(w)
                /\ Fault
    /\ UNCHANGED <<watch, updated>>

Consider(w) ==
    /\ pass.pc = "watch"
    /\ w \in pass.todo
    /\ Hold(w) \/ Rearm(w) \/ Enqueue(w)
    /\ UNCHANGED <<world, alert, inbox, sender>>

(* By id, whatever the owner did to the watch meanwhile.                   *)
Disarm(w) ==
    /\ pass.pc = "disarm"
    /\ w \in pass.fired
    /\ MayWrite(w, "disarmed")
    /\ pass' = [pass EXCEPT !.pc = "watch", !.fired = {}]
    /\ UNCHANGED <<world, alert, row, inbox, sender>>

EndPass ==
    /\ pass.pc = "watch"
    /\ pass.todo = {}
    /\ pass' = Resting
    /\ UNCHANGED <<watch, updated, world, alert, row, inbox, sender, faults>>

(* A kill, or a read that failed: nothing is fired or rearmed on it.       *)
StopPass ==
    /\ pass.pc # "idle"
    /\ Fault
    /\ pass' = Resting
    /\ UNCHANGED <<watch, updated, world, alert, row, inbox, sender>>

PassStep ==
    \/ FmvLeg
    \/ ListWatches
    \/ ReadOdds
    \/ \E w \in Watches : Consider(w) \/ Disarm(w)
    \/ EndPass
-----------------------------------------------------------------------------
(* The senders.                                                            *)

At(s, stage) == sender[s].pc = stage
Becomes(s, locals) == sender' = [sender EXCEPT ![s] = locals]

WithStatus(keys, status) ==
    [k \in Keys |-> IF k \in keys THEN [row[k] EXCEPT !.status = status] ELSE row[k]]

ClaimKeepsPending(c) == {k \in Has("pending") \union Has("sending") : Channel(k) = c}

(* FOR UPDATE SKIP LOCKED: only rows that are pending.                     *)
Claimable(c) == {k \in Has("pending") : Channel(k) = c}

(* A claim whose answer is lost leaves its rows in "sending".              *)
Claim(s, c) ==
    /\ At(s, "idle")
    /\ Claimable(c) # {}
    /\ row' = WithStatus(Claimable(c), "sending")
    /\ \/ /\ Becomes(s, [Waiting EXCEPT !.pc = "send", !.hand = Claimable(c)])
          /\ UNCHANGED faults
       \/ UNCHANGED sender /\ Fault
    /\ UNCHANGED <<watch, updated, world, alert, inbox, pass>>

Group(hand, target) == {k \in hand : Target(k) = target}

(* One message per owner.  A request that fails may have been accepted: it *)
(* timed out after ten seconds, or its answer was lost.                    *)
Send(s, target) ==
    LET group == Group(sender[s].hand, target)
        Marking(stage) == [sender[s] EXCEPT !.pc = stage, !.group = group]
        accepted == [k \in Keys |-> IF k \in group THEN inbox[k] + 1 ELSE inbox[k]]
    IN
    /\ At(s, "send")
    /\ \/ /\ Becomes(s, Marking("sent"))
          /\ inbox' = accepted
          /\ UNCHANGED faults
       \/ /\ Becomes(s, Marking("failed"))
          /\ inbox' \in {inbox, accepted}
          /\ Fault
    /\ UNCHANGED <<watch, updated, world, alert, row, pass>>

Marked(s, k) ==
    LET rest == sender[s].group \ {k} IN
    [sender[s] EXCEPT !.pc = IF rest = {} THEN "send" ELSE sender[s].pc,
                      !.hand = sender[s].hand \ {k}, !.group = rest]

MarkSent(k) == WithStatus({k}, "sent")

(* mark_delivery_failed counts the attempt and queues the row again until  *)
(* it has had MaxAttempts.                                                 *)
MarkFailed(k) ==
    LET tried == row[k].attempts + 1 IN
    [row EXCEPT ![k] =
        [row[k] EXCEPT !.attempts = tried,
                       !.status = IF tried < MaxAttempts THEN "pending" ELSE "failed"]]

(* Row by row; a mark that reports an error is only logged.                *)
Mark(s, k) ==
    /\ \E marked \in {IF At(s, "sent") THEN MarkSent(k) ELSE MarkFailed(k)} :
          \/ row' = marked /\ UNCHANGED faults
          \/ row' \in {row, marked} /\ Fault
    /\ Becomes(s, Marked(s, k))
    /\ UNCHANGED <<watch, updated, world, alert, inbox, pass>>

EndRun(s) ==
    /\ At(s, "send")
    /\ sender[s].hand = {}
    /\ Becomes(s, Waiting)
    /\ UNCHANGED <<watch, updated, world, alert, row, inbox, pass, faults>>

(* A kill at maxDuration: what the run held stays in "sending".            *)
StopRun(s) ==
    /\ sender[s].pc \notin {"idle", "absent"}
    /\ Fault
    /\ Becomes(s, Waiting)
    /\ UNCHANGED <<watch, updated, world, alert, row, inbox, pass>>

RunStep(s) ==
    \/ \E c \in Channels : Claim(s, c)
    \/ \E target \in {Target(k) : k \in sender[s].hand} : Send(s, target)
    \/ \E k \in sender[s].group : Mark(s, k)
    \/ EndRun(s)

Next ==
    \/ \E w \in Watches : SaveWatch(w) \/ DeleteWatch(w)
    \/ Market
    \/ NextPeriod
    \/ PassStep
    \/ StopPass
    \/ \E s \in Senders : RunStep(s) \/ StopRun(s)

Spec == Init /\ [][Next]_vars

(* Both crons fire again and again and a run that is not cut short goes    *)
(* on; time passes.  The owner and the market owe nothing.                 *)
Fairness ==
    /\ WF_vars(PassStep)
    /\ \A s \in Senders : WF_vars(RunStep(s))
    /\ WF_vars(NextPeriod)

FairSpec == Spec /\ Fairness
-----------------------------------------------------------------------------
(* Type invariant.                                                         *)
RowType == [status : Statuses, attempts : Nat, value : Prices \union {Unmet}]
PassType == [pc : {"idle", "list", "read", "watch", "disarm"},
             todo : SUBSET Watches, fired : SUBSET Watches, armed : SUBSET Watches,
             met : SUBSET Watches, unmet : SUBSET Watches, period : Periods]
SenderType == [pc : {"idle", "absent", "send", "sent", "failed"},
               hand : SUBSET Keys, group : SUBSET Keys]

TypeOK ==
    /\ watch \in [Watches -> {"absent", "armed", "disarmed", "deleted"}]
    /\ updated \in [Watches -> Periods]
    /\ odds \in [Watches -> {"met", "unmet", "unknown"}]
    /\ alert \in [Alerts -> [active : BOOLEAN, armed : BOOLEAN, rests : BOOLEAN]]
    /\ price \in [Alerts -> Prices \union {Unmet}]
    /\ linked \subseteq Owners \X Channels
    /\ row \in [Keys -> RowType]
    /\ \A k \in Keys : row[k].attempts <= MaxAttempts
    /\ inbox \in [Keys -> Nat]
    /\ pass \in PassType
    /\ sender \in [Senders -> SenderType]
    /\ period \in Periods
    /\ faults \in 0..MaxFaults

(* A delivery is sent again only after a send of it was recorded as        *)
(* failed, though runs overlap, are killed, or fail to mark what they      *)
(* sent; so nobody gets one alert more than MaxAttempts times, and none is *)
(* marked sent that no provider accepted.                                  *)
ResentOnlyAfterFailure ==
    \A k \in Keys :
        /\ inbox[k] <= row[k].attempts + 1
        /\ row[k].status \in {"none", "pending", "failed"} =>
              inbox[k] <= row[k].attempts
        /\ row[k].status = "sent" => inbox[k] > 0

(* A watch, or an FMV alert, is silent only because its owner has a row.   *)
SilentHasRow ==
    /\ \A w \in Watches : watch[w] = "disarmed" =>
          \E k \in Keys : Subject(k) = w /\ row[k].status # "none"
    /\ \A a \in Alerts : ~alert[a].armed =>
          \E k \in Keys : Subject(k) = a /\ row[k].status # "none"

Held == UNION {sender[s].hand : s \in Senders}

(* Sent, or in the hands of a run whose claim, mark or end was cut short.  *)
SentOrStranded(k) ==
    row[k].status = "sent" \/ (row[k].status = "sending" /\ k \notin Held)

(* Its owner has an answer of the period it was last written in, or later. *)
Answered(w) ==
    \E k \in Keys : /\ Subject(k) = w
                    /\ Period(k) >= updated[w]
                    /\ SentOrStranded(k) \/ row[k].status = "failed"

Rich(w) == w \in Listed /\ odds[w] = "met" /\ ChaseTargets(w) # {}

(* A pack that stays rich is told to an owner who watches it and keeps a   *)
(* channel, anew whenever the watch has been saved or armed again in a     *)
(* later period, whatever was unlinked, refused or cut short before: the   *)
(* delivery is sent, or given up, or stranded.  The watch must stay among  *)
(* those the leg reads.                                                    *)
RichIsTold == \A w \in Watches : <>[]Rich(w) => []<>Answered(w)

(* The alerts that do not rest all find room in what the leg reads.        *)
AllScanned == Cardinality(Eligible) <= ScanLimit

AskStands(a, c, p) ==
    alert[a].active /\ price[a] = p /\ Targets(a) = {c} /\ AllScanned

(* An ask that stands, on a channel that stays linked, while the leg can   *)
(* read every alert there is to read, is told to the owner: a delivery     *)
(* given up after MaxAttempts is replaced in a later period.               *)
AsksAreTold ==
    \A a \in AskAlerts, c \in Channels, p \in Prices :
        period < MaxPeriod /\ AskStands(a, c, p) ~>
            \/ ~AskStands(a, c, p)
            \/ \E t \in Periods : /\ row[<<a, c, t>>].value = p
                                 /\ SentOrStranded(<<a, c, t>>)
=============================================================================
