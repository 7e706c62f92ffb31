-------------------------- MODULE AlertsRefinement --------------------------
(***************************************************************************)
(* The alerts as an implementation of Outbox: a letter is a delivery by    *)
(* its unique key, waiting while its row is pending or claimed, its        *)
(* address the owner on a channel, and a subject is silent while it is     *)
(* disarmed.  The readings, the dispatch pass, the sender runs and what    *)
(* they hold, the rest of an FMV alert and the faults are hidden.          *)
(***************************************************************************)
EXTENDS Alerts

FileOf(status) ==
    CASE status = "none"                    -> "none"
      [] status \in {"pending", "sending"}  -> "waiting"
      [] status = "sent"                    -> "delivered"
      [] OTHER                              -> "given up"

File == [k \in Keys |-> FileOf(row[k].status)]
Failures == [k \in Keys |-> row[k].attempts]
Disarmed == {w \in Watches : watch[w] = "disarmed"} \union {a \in Alerts : ~alert[a].armed}

Abstract == INSTANCE Outbox WITH
    Letters <- Keys, MaxTries <- MaxAttempts,
    About <- [k \in Keys |-> Subject(k)], AddressOf <- [k \in Keys |-> Target(k)],
    DayOf <- [k \in Keys |-> Period(k)],
    today <- period, takes <- linked, file <- File, failures <- Failures,
    arrived <- inbox, silent <- Disarmed

-----------------------------------------------------------------------------

(* Every call of every dispatch pass and sender run, on whatever it read   *)
(* or claimed and however it fails, is a step of the outbox or none: a row *)
(* is inserted once and for a verified channel, a message repeated only    *)
(* for a counted failure, no row changes once sent or given up, and what   *)
(* is disarmed has a row.                                                  *)
FollowsOutbox == [][Abstract!Next]_(Abstract!vars)

(* The same of whole behaviours, from an empty outbox.                     *)
ImplementsOutbox == Abstract!Init /\ FollowsOutbox
=============================================================================
