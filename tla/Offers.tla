------------------------------- MODULE Offers -------------------------------
(***************************************************************************)
(* What the Trade Block promises of the offers made on its posts, with no  *)
(* reading, line, count or request: an offer stands on a post somebody     *)
(* else stands behind, and no other offer of its author waits there; it is *)
(* answered once, on the word of whom the answer is up to; and a meeting   *)
(* that an accepted offer comes with seats the two of them and belongs to  *)
(* no other offer.                                                         *)
(***************************************************************************)
CONSTANTS Posts, Ids, Meetings, People, Absent, Gone

VARIABLES
    author,    \* post -> who stands behind it, Absent before and Gone after
    offers,    \* id -> the offer, with its state
    meetings,  \* the meetings prepared or being prepared, Absent before
    asked      \* what people have asked for and is on its way

vars == <<author, offers, meetings, asked>>

Nothing(state) == [on |-> Absent, by |-> Absent, state |-> state, meeting |-> Absent]

Standing(p) == offers[p].state \notin {"absent", "gone"}
Waiting(p) == offers[p].state = "pending"

Word(who, verb, on) == [who |-> who, verb |-> verb, on |-> on]

(* Words that are on their way may be lost at any time.                    *)
NoNewWord == asked' \subseteq asked

Ask(word) ==
    /\ asked' = asked \cup {word}
    /\ UNCHANGED <<author, offers, meetings>>

(* An answer is up to whom the post is of, a withdrawal to the offer's own *)
(* author.                                                                 *)
AskClose(l) == author[l] \in People /\ Ask(Word(author[l], "close", l))
AskAnswer(p, verb) == Waiting(p) /\ Ask(Word(author[offers[p].on], verb, p))
AskWithdraw(p) == Waiting(p) /\ Ask(Word(offers[p].by, "withdraw", p))

Forget ==
    /\ NoNewWord
    /\ UNCHANGED <<author, offers, meetings>>

Post(l, u) ==
    /\ author[l] = Absent
    /\ author' = [author EXCEPT ![l] = u]
    /\ NoNewWord
    /\ UNCHANGED <<offers, meetings>>

(* A post takes the offers on it with it.                                  *)
Remove(l) ==
    /\ author[l] # Absent
    /\ author' = [author EXCEPT ![l] = Gone]
    /\ offers' = [p \in Ids |-> IF Standing(p) /\ offers[p].on = l
                                THEN Nothing("gone") ELSE offers[p]]
    /\ NoNewWord
    /\ UNCHANGED meetings

Make(p, l, u) ==
    /\ offers[p].state = "absent"
    /\ author[l] \in People \ {u}
    /\ \A q \in Ids : Waiting(q) => ~(offers[q].on = l /\ offers[q].by = u)
    /\ offers' = [offers EXCEPT ![p] = [on |-> l, by |-> u, state |-> "pending",
                                        meeting |-> Absent]]
    /\ NoNewWord
    /\ UNCHANGED <<author, meetings>>

TakeBack(p) ==
    /\ Standing(p)
    /\ offers' = [offers EXCEPT ![p] = Nothing("gone")]
    /\ NoNewWord
    /\ UNCHANGED <<author, meetings>>

Settle(p, state, meeting) ==
    /\ offers' = [offers EXCEPT ![p] = [@ EXCEPT !.state = state, !.meeting = meeting]]
    /\ NoNewWord
    /\ UNCHANGED <<author, meetings>>

Said(verb, p) == Waiting(p) /\ Word(author[offers[p].on], verb, p) \in asked
Recanted(p) == Waiting(p) /\ Word(offers[p].by, "withdraw", p) \in asked

Decline(p) == Said("decline", p) /\ Settle(p, "declined", Absent)
Accept(p) == Said("accept", p) /\ Settle(p, "accepted", Absent)
Withdraw(p) == Recanted(p) /\ Settle(p, "withdrawn", Absent)

Free(k) == \A q \in Ids : Standing(q) => offers[q].meeting # k

AcceptInto(p, k) ==
    /\ Said("accept", p)
    /\ meetings[k] = [a |-> author[offers[p].on], b |-> offers[p].by, status |-> "building"]
    /\ Free(k)
    /\ Settle(p, "accepted", k)

Close(l) ==
    /\ Word(author[l], "close", l) \in asked
    /\ offers' = [p \in Ids |-> IF Waiting(p) /\ offers[p].on = l
                                THEN [offers[p] EXCEPT !.state = "declined"] ELSE offers[p]]
    /\ NoNewWord
    /\ UNCHANGED <<author, meetings>>

(* Only a meeting that no offer comes with is still being prepared.        *)
Prepare(k) ==
    /\ Free(k)
    /\ meetings' = [meetings EXCEPT ![k] = meetings'[k]]
    /\ NoNewWord
    /\ UNCHANGED <<author, offers>>

Init ==
    /\ author = [l \in Posts |-> Absent]
    /\ offers = [p \in Ids |-> Nothing("absent")]
    /\ meetings = [k \in Meetings |-> Absent]
    /\ asked = {}

Next ==
    \/ Forget
    \/ \E l \in Posts : AskClose(l) \/ Remove(l) \/ Close(l) \/ \E u \in People : Post(l, u)
    \/ \E p \in Ids :
          \/ AskWithdraw(p) \/ \E verb \in {"accept", "decline"} : AskAnswer(p, verb)
          \/ TakeBack(p) \/ Decline(p) \/ Accept(p) \/ Withdraw(p)
          \/ \E k \in Meetings : AcceptInto(p, k)
          \/ \E l \in Posts, u \in People : Make(p, l, u)
    \/ \E k \in Meetings : Prepare(k)

Spec == Init /\ [][Next]_vars
=============================================================================
