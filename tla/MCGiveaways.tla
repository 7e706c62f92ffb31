---------------------------- MODULE MCGiveaways ----------------------------
(* Instances of the giveaways for TLC.                                     *)
EXTENDS GiveawaysRefinement, TLC

CONSTANTS fan, friend, wallet, dapper, fanHome, friendHome

(* Every account has some of the moments, and the accounts linked to the   *)
(* wallet have a controller published for it.                              *)
Shared == {stock \in [Moments -> Sources] :
              \A a \in Sources : \E m \in Moments : stock[m] = a}
Published == {[a \in Linked |-> {c}] : c \in {CHOOSE c \in Controllers : TRUE}}

(* Two fans who can both prove one account, or each one of their own.      *)
Household == [u \in Users |-> Recipients]
Separate == [u \in Users |-> IF u = fan THEN {fanHome} ELSE {friendHome}]

(* With an account each, the fans are interchangeable; safety runs only.   *)
Swap == fan :> friend @@ friend :> fan @@ fanHome :> friendHome @@ friendHome :> fanHome
Interchangeable ==
    Permutations(Moments) \union Permutations(Slots) \union Permutations(Flights)
        \union {Swap}
=============================================================================
