------------------------------- MODULE Replica -------------------------------
(***************************************************************************)
(* What copying a chain into a table promises, with no tick, chunk, batch, *)
(* failure or clock.  An event of a sealed block enters the table, or      *)
(* waits for what it lacks and enters the table when it stops waiting; in  *)
(* neither is anything forgotten or made up; and the mark from which the   *)
(* copying goes on stands at a sealed block and leaves nothing behind but  *)
(* what the table refuses.                                                 *)
(***************************************************************************)
EXTENDS Naturals

CONSTANTS Events, HeightOf, Refused, Genesis

VARIABLES
    height,    \* the last sealed block
    mark,      \* what is behind it is not looked at again
    table,     \* the events copied
    waiting,   \* those that lack something
    complete   \* those that lack nothing any more

vars == <<height, mark, table, waiting, complete>>

Sealed == {e \in Events : HeightOf[e] <= height}

Init ==
    /\ height = Genesis
    /\ mark = Genesis
    /\ table = {}
    /\ waiting = {}
    /\ complete = {}

Seal ==
    /\ height' = height + 1
    /\ UNCHANGED <<mark, table, waiting, complete>>

Complete ==
    /\ complete \subseteq complete' /\ complete' \subseteq Events
    /\ UNCHANGED <<height, mark, table, waiting>>

Copy ==
    /\ table \subseteq table'
    /\ table' \ table \subseteq Sealed \ Refused
    /\ UNCHANGED <<height, mark, waiting, complete>>

Park ==
    /\ waiting \subseteq waiting'
    /\ waiting' \ waiting \subseteq Sealed
    /\ UNCHANGED <<height, mark, table, complete>>

(* What stops waiting is in the table by the same step, and nothing else   *)
(* enters it but what waits and lacks nothing.                             *)
Admit ==
    /\ waiting' \subseteq waiting
    /\ waiting \ waiting' \subseteq table'
    /\ table \subseteq table'
    /\ table' \ table \subseteq (waiting \intersect complete) \ Refused
    /\ UNCHANGED <<height, mark, complete>>

(* A late copier may set it back.                                          *)
SetMark ==
    /\ mark' \in Genesis..height
    /\ \A e \in Events \ Refused : HeightOf[e] <= mark' => e \in table \union waiting
    /\ UNCHANGED <<height, table, waiting, complete>>

Next == Seal \/ Complete \/ Copy \/ Park \/ Admit \/ SetMark

Spec == Init /\ [][Next]_vars
=============================================================================
