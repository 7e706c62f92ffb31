----------------------------- MODULE SealedGift -----------------------------
(***************************************************************************)
(* What sealing a gift promises, moment by moment, with no pack, id,       *)
(* clock, receiver or type: what an account gives away is nobody's to move *)
(* until its giver names a winner, once; then it goes to an account of the *)
(* winner's, or back to whom the giver says, but back only before a winner *)
(* is named or when the winner has let the time pass.                      *)
(***************************************************************************)
CONSTANTS
    Accounts, Moments, Givers,
    AccountOf,      \* giver -> its account
    Nobody

VARIABLES
    holder,         \* moment -> its account, or Nobody while it is given
    giver,          \* moment -> who gave it, while it is given
    winner,         \* moment -> who is to have it, once named
    ripe,           \* the given moments whose winner's time is over
    family          \* <<child, parent>> pairs of linked accounts

vars == <<holder, giver, winner, ripe, family>>

Given(ms) == ms # {} /\ ms \subseteq {m \in Moments : holder[m] = Nobody}
With(f, ms, v) == [m \in Moments |-> IF m \in ms THEN v ELSE f[m]]

(* The accounts one of which the winner's moments may go to, if `by' asks. *)
MayAsk(by, w) == by = w \/ <<w, by>> \in family
OwnAccounts(by, w) == {w, by} \union {a \in Accounts : <<a, by>> \in family}

Settle(ms, a) ==
    /\ holder' = With(holder, ms, a)
    /\ giver' = With(giver, ms, Nobody)
    /\ winner' = With(winner, ms, Nobody)
    /\ ripe' = ripe \ ms
    /\ UNCHANGED family

Give(ms, g) ==
    /\ ms # {}
    /\ \A m \in ms : holder[m] = AccountOf[g]
    /\ holder' = With(holder, ms, Nobody)
    /\ giver' = With(giver, ms, g)
    /\ UNCHANGED <<winner, ripe, family>>

Name(ms, w) ==
    /\ Given(ms)
    /\ \A m \in ms : winner[m] = Nobody
    /\ winner' = With(winner, ms, w)
    /\ UNCHANGED <<holder, giver, ripe, family>>

Ripen(ms) ==
    /\ Given(ms)
    /\ \A m \in ms : winner[m] # Nobody
    /\ ripe' = ripe \union ms
    /\ UNCHANGED <<holder, giver, winner, family>>

Deliver(ms, w, by, a) ==
    /\ Given(ms)
    /\ \A m \in ms : winner[m] = w
    /\ MayAsk(by, w)
    /\ a \in OwnAccounts(by, w)
    /\ Settle(ms, a)

TakeBack(ms, g, a) ==
    /\ Given(ms)
    /\ \A m \in ms : giver[m] = g /\ (winner[m] = Nobody \/ m \in ripe)
    /\ Settle(ms, a)

Move(m, a) ==
    /\ holder[m] # Nobody
    /\ holder' = [holder EXCEPT ![m] = a]
    /\ UNCHANGED <<giver, winner, ripe, family>>

Relink ==
    /\ family' \in SUBSET (Accounts \X Accounts)
    /\ UNCHANGED <<holder, giver, winner, ripe>>

Init ==
    /\ holder \in [Moments -> Accounts]
    /\ giver = [m \in Moments |-> Nobody]
    /\ winner = [m \in Moments |-> Nobody]
    /\ ripe = {}
    /\ family \in SUBSET (Accounts \X Accounts)

Next ==
    \/ \E ms \in SUBSET Moments :
          \/ Ripen(ms)
          \/ \E g \in Givers : Give(ms, g)
          \/ \E w \in Accounts : Name(ms, w)
          \/ \E w, by, a \in Accounts : Deliver(ms, w, by, a)
          \/ \E g \in Givers, a \in Accounts : TakeBack(ms, g, a)
    \/ \E m \in Moments, a \in Accounts : Move(m, a)
    \/ Relink

Spec == Init /\ [][Next]_vars
=============================================================================
