----------------------------- MODULE FifoChannel -----------------------------
(***************************************************************************)
(* What a data channel promises its application: buffers, numbered as they *)
(* are accepted, are delivered in that order and at most once; some may be *)
(* dropped, and a confirmation covers every accepted buffer, as one that   *)
(* was delivered or dropped.                                               *)
(***************************************************************************)
EXTENDS Naturals, Sequences

VARIABLES accepted, delivered, dropped, confirmed

vars == <<accepted, delivered, dropped, confirmed>>

DeliveredSet == {delivered[i] : i \in DOMAIN delivered}

Init ==
    /\ accepted = 0
    /\ delivered = <<>>
    /\ dropped = {}
    /\ confirmed = 0

Accept ==
    /\ accepted' = accepted + 1
    /\ UNCHANGED <<delivered, dropped, confirmed>>

Deliver(n) ==
    /\ \A m \in DeliveredSet : m < n
    /\ delivered' = Append(delivered, n)
    /\ UNCHANGED <<accepted, dropped, confirmed>>

\* What was delivered may still be counted as dropped: its sender does not know.
Drop(S) ==
    /\ dropped' = dropped \cup S
    /\ UNCHANGED <<accepted, delivered, confirmed>>

Confirm ==
    /\ 1 .. accepted \subseteq DeliveredSet \cup dropped
    /\ confirmed' = accepted
    /\ UNCHANGED <<accepted, delivered, dropped>>

Next ==
    \/ Accept
    \/ \E n \in 1 .. accepted : Deliver(n)
    \/ \E S \in SUBSET (1 .. accepted) : Drop(S)
    \/ Confirm

Spec == Init /\ [][Next]_vars
=============================================================================
