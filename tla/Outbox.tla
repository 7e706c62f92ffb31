------------------------------- MODULE Outbox -------------------------------
(***************************************************************************)
(* What an outbox of alerts promises those it writes to, with no run,      *)
(* claim, reading, call or failure.  A letter is written at most once, for *)
(* its day or a day that is over, to an address that takes letters when it *)
(* is written, and stays; it is posted again only after a failure of it    *)
(* was noted; it is filed as delivered only after it has arrived, and as   *)
(* given up only after MaxTries failures, and either is final.  A subject  *)
(* falls silent only with a letter about it.                               *)
(***************************************************************************)
EXTENDS Naturals

CONSTANTS
    Letters, MaxTries,
    About,     \* letter -> its subject
    AddressOf, \* letter -> where it goes
    DayOf      \* letter -> the day it is for

VARIABLES
    today,
    takes,     \* the addresses that take letters
    file,      \* letter -> "none", "waiting", "delivered" or "given up"
    failures,  \* letter -> failures noted
    arrived,   \* letter -> how often it has arrived
    silent     \* the subjects with nothing more to say

vars == <<today, takes, file, failures, arrived, silent>>

Written(x) == \E k \in Letters : About[k] = x /\ file[k] # "none"

Init ==
    /\ today \in Nat
    /\ takes = {}
    /\ file = [k \in Letters |-> "none"]
    /\ failures = [k \in Letters |-> 0]
    /\ arrived = [k \in Letters |-> 0]
    /\ silent = {}

NextDay ==
    /\ today' = today + 1
    /\ UNCHANGED <<takes, file, failures, arrived, silent>>

Move ==
    /\ takes' # takes
    /\ UNCHANGED <<today, file, failures, arrived, silent>>

(* Any number of letters is written, and who has one written may fall      *)
(* silent; a subject may speak up again at any time.                       *)
Write ==
    /\ file' = [k \in Letters |-> file'[k]]
    /\ \A k \in Letters :
          \/ file'[k] = file[k]
          \/ /\ file[k] = "none" /\ file'[k] = "waiting"
             /\ AddressOf[k] \in takes
             /\ DayOf[k] <= today
    /\ \A x \in silent' \ silent : Written(x)'
    /\ UNCHANGED <<today, takes, failures, arrived>>

(* One message carries the letters to one address.                         *)
Post(group) ==
    /\ \A k \in group : arrived[k] <= failures[k]
    /\ \A j, k \in group : AddressOf[j] = AddressOf[k]
    /\ arrived' = [k \in Letters |-> IF k \in group THEN arrived[k] + 1 ELSE arrived[k]]
    /\ UNCHANGED <<today, takes, file, failures, silent>>

FileDelivered(k) ==
    /\ file[k] = "waiting" /\ arrived[k] > 0
    /\ file' = [file EXCEPT ![k] = "delivered"]
    /\ UNCHANGED <<today, takes, failures, arrived, silent>>

NoteFailure(k) ==
    /\ file[k] = "waiting"
    /\ failures' = [failures EXCEPT ![k] = @ + 1]
    /\ file' = [file EXCEPT ![k] = IF failures'[k] < MaxTries THEN "waiting" ELSE "given up"]
    /\ UNCHANGED <<today, takes, arrived, silent>>

Next ==
    \/ NextDay \/ Move \/ Write
    \/ \E group \in SUBSET {k \in Letters : file[k] = "waiting"} : Post(group)
    \/ \E k \in Letters : FileDelivered(k) \/ NoteFailure(k)

Spec == Init /\ [][Next]_vars
=============================================================================
