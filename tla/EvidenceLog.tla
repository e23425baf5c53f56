---------------------------- MODULE EvidenceLog -----------------------------
(***************************************************************************)
(* What the evidence of a chain promises its auditors, without epochs,      *)
(* keys, requests and retention: an object is accepted once, in one step    *)
(* with the acceptance that is published and the receipt that names both;   *)
(* nothing that was logged, published or receipted changes or is taken      *)
(* back.  RelayChain implements it.                                         *)
(***************************************************************************)
EXTENDS Integers, Sequences

VARIABLES
    log,        \* the ordered objects
    published,  \* acceptances, and notes on anything else
    receipts    \* what the submitters hold

evars == <<log, published, receipts>>

\* Position 0 is that of an object kept outside the log.
Acceptance(o, position) == [op |-> "accept", object |-> o, seq |-> position]
Receipt(o, position, i) == [object |-> o, seq |-> position, index |-> i]
IsNote(e) == e.op # "accept"

New(o) == \A r \in receipts : r.object # o
Distinct(os) == \A i, j \in 1..Len(os) : os[i] = os[j] => i = j

Init ==
    /\ Distinct(log)
    /\ published = [i \in 1..Len(log) |-> Acceptance(log[i], i)]
    /\ receipts = {Receipt(log[i], i, i) : i \in 1..Len(log)}

\* The objects os are appended together (none, when only notes are published):
\* their acceptances come first, notes may follow.
Commit(os) ==
    /\ Distinct(os) /\ \A i \in 1..Len(os) : New(os[i])
    /\ log' = log \o os
    /\ Len(published') >= Len(published) + Len(os)
    /\ \A k \in 1..Len(published) : published'[k] = published[k]
    /\ \A i \in 1..Len(os) :
         published'[Len(published) + i] = Acceptance(os[i], Len(log) + i)
    /\ \A k \in (Len(published) + Len(os) + 1)..Len(published') : IsNote(published'[k])
    /\ receipts' = receipts \cup
         {Receipt(os[i], Len(log) + i, Len(published) + i) : i \in 1..Len(os)}

\* An object is accepted without a position in the log.
Keep(o) ==
    /\ New(o)
    /\ log' = log
    /\ published' = Append(published, Acceptance(o, 0))
    /\ receipts' = receipts \cup {Receipt(o, 0, Len(published) + 1)}

\* What a step adds to the log.
Appended == [i \in 1..(Len(log') - Len(log)) |-> log'[Len(log) + i]]

Next ==
    \/ Commit(Appended)
    \/ \E r \in receipts' : Keep(r.object)

Spec == Init /\ [][Next]_evars
=============================================================================
