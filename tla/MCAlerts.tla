------------------------------ MODULE MCAlerts ------------------------------
(* Instances of the alerts for TLC.                                        *)
EXTENDS AlertsRefinement

CONSTANTS w1, w2, a1, a2, s1, s2, owner, email

MCOwner == [x \in Subjects |-> owner]
MCChannels == [a \in Alerts |-> Channels]

(* w2 comes before w1 in the list, and only one of them is read.           *)
MCIds == [w \in Watches |-> IF w = w1 THEN 2 ELSE 1]

(* A subject alone with all the faults to come, the alert also with two    *)
(* senders; and two subjects that compete for what their leg reads, with   *)
(* no faults, the watches in the last period only.                         *)
Begin(subjects, senders, past, first) ==
    [subjects |-> subjects, senders |-> senders, faults |-> past, period |-> first]

MCBeginnings ==
    {Begin({w1}, {s1}, 0, 0),
     Begin({a1}, {s1, s2}, 0, 0),
     Begin({w1, w2}, {s1}, MaxFaults, MaxPeriod),
     Begin({a1, a2}, {s1}, MaxFaults, 0)}
=============================================================================
