------------------------------- MODULE Mirror -------------------------------
(***************************************************************************)
(* What a mirror of a wallet promises, with no lock, page, chunk, kill or  *)
(* clock.  Those who keep it look at the wallet: what a look saw may be    *)
(* shown from then on, and only what has left the wallet since some look   *)
(* may be hidden.  The mirror may be vouched for: everything held ever     *)
(* since a look is shown, and as long as the word stands none of it that   *)
(* stays in the wallet is hidden.                                          *)
(***************************************************************************)

CONSTANT Moments

VARIABLES
    holds,     \* what the wallet holds
    shows,     \* what the mirror shows
    looks,     \* of each look in use: what it saw, and what stayed ever since
    vouched    \* what stayed ever since the look that was vouched for

vars == <<holds, shows, looks, vouched>>

Init ==
    /\ holds \in SUBSET Moments
    /\ shows \in SUBSET Moments
    /\ looks = {}
    /\ vouched = {}

Enter(m) ==
    /\ holds' = holds \union {m}
    /\ UNCHANGED <<shows, looks, vouched>>

Leave(m) ==
    /\ holds' = holds \ {m}
    /\ looks' = {[l EXCEPT !.kept = l.kept \ {m}] : l \in looks}
    /\ vouched' = vouched \ {m}
    /\ UNCHANGED shows

(* An unreadable wallet shows less than it holds.                          *)
Look ==
    /\ \A l \in looks' \ looks : l.saw \subseteq holds /\ l.kept = holds
    /\ UNCHANGED <<holds, shows, vouched>>

Show(l) ==
    /\ shows \subseteq shows'
    /\ shows' \ shows \subseteq l.saw
    /\ looks' \subseteq looks
    /\ UNCHANGED <<holds, vouched>>

Hide(l) ==
    /\ shows' \subseteq shows
    /\ (shows \ shows') \intersect (l.kept \union vouched) = {}
    /\ looks' \subseteq looks
    /\ UNCHANGED <<holds, vouched>>

Vouch(l) ==
    /\ l.kept \subseteq shows
    /\ vouched' = l.kept
    /\ looks' \subseteq looks
    /\ UNCHANGED <<holds, shows>>

(* The word is taken back.                                                 *)
Lapse ==
    /\ vouched' = {}
    /\ looks' \subseteq looks
    /\ UNCHANGED <<holds, shows>>

Next ==
    \/ \E m \in Moments : Enter(m) \/ Leave(m)
    \/ Look \/ Lapse
    \/ \E l \in looks : Show(l) \/ Hide(l) \/ Vouch(l)

Spec == Init /\ [][Next]_vars
=============================================================================
