------------------------------- MODULE Raffle -------------------------------
(***************************************************************************)
(* What a giveaway promises its community, with no request, reading, lock, *)
(* failure or clock.  A sponsor's prizes are dealt into packs once and for *)
(* good; a pack is won once, by somebody who has none, for an account that *)
(* has none and is not the sponsor's; prizes are sent from where they were *)
(* pledged to who won their pack and to nobody else, and arrive together   *)
(* or not at all; and a prize is recorded as handed over only if its       *)
(* winner has had it.  A raffle is called off only before the deal.        *)
(***************************************************************************)
EXTENDS Naturals, FiniteSets

CONSTANTS Raffles, Prizes, People, Accounts,
          Pledging,      \* the accounts prizes may be pledged from
          SponsorsOwn,   \* the sponsor's, whatever is pledged
          AccountsOf,    \* person -> the accounts to win for
          PackNumbers, PackSize, Nobody

VARIABLES
    holder,    \* prize -> the account that has it
    had,       \* the <<prize, account>> pairs that have been so
    stage,     \* of a raffle: "none", "draft", "sealed", "open", "closed", "deleted"
    pledge,    \* raffle -> prize -> the account it is pledged from, or Nobody
    pack,      \* raffle -> prize -> its pack, 0 before the deal
    won,       \* raffle -> pack -> who won it, and for which account
    parcels,   \* what has been sent and not arrived
    recorded   \* raffle -> the prizes recorded as handed over

vars == <<holder, had, stage, pledge, pack, won, parcels, recorded>>
world == <<holder, had>>
terms == <<pledge, pack>>

NotWon == [user |-> Nobody, to |-> Nobody]
Pledged(d) == {m \in Prizes : pledge[d][m] # Nobody}
WonBy(d, m) == won[d][pack[d][m]].to

Turn(d, from, to) == stage[d] = from /\ stage' = [stage EXCEPT ![d] = to]

(* Prizes change hands outside raffles.                                    *)
Trade ==
    /\ \E m \in Prizes, a \in Accounts :
          /\ holder' = [holder EXCEPT ![m] = a]
          /\ had' = had \union {<<m, a>>}
    /\ UNCHANGED <<stage, terms, won, parcels, recorded>>

Draft(d) ==
    /\ Turn(d, "none", "draft")
    /\ pledge' = [pledge EXCEPT ![d] = pledge'[d]]
    /\ pledge'[d] \in [Prizes -> Pledging \union {Nobody}]
    /\ \A m \in Prizes : pledge'[d][m] # Nobody => <<m, pledge'[d][m]>> \in had
    /\ UNCHANGED <<world, pack, won, parcels, recorded>>

CallOff(d) ==
    /\ Turn(d, "draft", "deleted")
    /\ pledge' = [pledge EXCEPT ![d] = [m \in Prizes |-> Nobody]]
    /\ UNCHANGED <<world, pack, won, parcels, recorded>>

(* Every pledged prize goes into a pack, and packs are of one size.        *)
Deal(d) ==
    /\ Turn(d, "draft", "sealed")
    /\ pack' = [pack EXCEPT ![d] = pack'[d]]
    /\ \A m \in Prizes : IF m \in Pledged(d) THEN pack'[d][m] \in PackNumbers
                                             ELSE pack'[d][m] = 0
    /\ \A p \in PackNumbers : Cardinality({m \in Pledged(d) : pack'[d][m] = p}) = PackSize
    /\ UNCHANGED <<world, pledge, won, parcels, recorded>>

Open(d) == Turn(d, "sealed", "open") /\ UNCHANGED <<world, terms, won, parcels, recorded>>
Close(d) == Turn(d, "open", "closed") /\ UNCHANGED <<world, terms, won, parcels, recorded>>

Win(d, p, user, to) ==
    /\ stage[d] = "open"
    /\ won[d][p] = NotWon
    /\ \A q \in PackNumbers : won[d][q].user # user /\ won[d][q].to # to
    /\ to # SponsorsOwn /\ \A m \in Prizes : pledge[d][m] # to
    /\ won' = [won EXCEPT ![d][p] = [user |-> user, to |-> to]]
    /\ UNCHANGED <<world, stage, terms, parcels, recorded>>

Send ==
    /\ \E x \in parcels' :
          /\ parcels' = parcels \union {x}
          /\ \E m \in Prizes : x.to[m] # Nobody
          /\ \A m \in Prizes : x.to[m] # Nobody =>
                /\ pledge[x.drop][m] = x.source
                /\ pack[x.drop][m] \in PackNumbers
                /\ x.to[m] = WonBy(x.drop, m)
    /\ UNCHANGED <<world, stage, terms, won, recorded>>

(* Another parcel like it may be on its way.                               *)
Gone(x) == parcels \ {x} \subseteq parcels' /\ parcels' \subseteq parcels

(* A prize arrives only from where it was pledged, and all of a parcel do. *)
Arrive(x) ==
    /\ \A m \in Prizes : x.to[m] # Nobody => holder[m] = x.source
    /\ holder' = [m \in Prizes |-> IF x.to[m] # Nobody THEN x.to[m] ELSE holder[m]]
    /\ had' = had \union {<<m, x.to[m]>> : m \in {n \in Prizes : x.to[n] # Nobody}}
    /\ Gone(x)
    /\ UNCHANGED <<stage, terms, won, recorded>>

Return(x) ==
    /\ Gone(x)
    /\ UNCHANGED <<world, stage, terms, won, recorded>>

Record(d, m) ==
    /\ pack[d][m] \in PackNumbers /\ <<m, WonBy(d, m)>> \in had
    /\ recorded' = [recorded EXCEPT ![d] = @ \union {m}]
    /\ UNCHANGED <<world, stage, terms, won, parcels>>

Init ==
    /\ holder \in [Prizes -> Pledging]
    /\ had = {<<m, holder[m]>> : m \in Prizes}
    /\ stage = [d \in Raffles |-> "none"]
    /\ pledge = [d \in Raffles |-> [m \in Prizes |-> Nobody]]
    /\ pack = [d \in Raffles |-> [m \in Prizes |-> 0]]
    /\ won = [d \in Raffles |-> [p \in PackNumbers |-> NotWon]]
    /\ parcels = {}
    /\ recorded = [d \in Raffles |-> {}]

Next ==
    \/ Trade \/ Send
    \/ \E x \in parcels : Arrive(x) \/ Return(x)
    \/ \E d \in Raffles :
          \/ Draft(d) \/ CallOff(d) \/ Deal(d) \/ Open(d) \/ Close(d)
          \/ \E p \in PackNumbers, user \in People : \E to \in AccountsOf[user] :
                Win(d, p, user, to)
          \/ \E m \in Prizes : Record(d, m)

Spec == Init /\ [][Next]_vars
=============================================================================
