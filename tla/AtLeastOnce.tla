----------------------------- MODULE AtLeastOnce -----------------------------
(***************************************************************************)
(* What the UDP channel promises for a sequence number: it is released     *)
(* from the send window only after the receiver has recorded it, and the   *)
(* receiver records only what the sender accepted.  Accepting a number     *)
(* again opens it again.                                                   *)
(***************************************************************************)
CONSTANT Numbers

VARIABLES accepted, received, released

vars == <<accepted, received, released>>

Init ==
    /\ accepted = {}
    /\ received = {}
    /\ released = {}

Accept(s) ==
    /\ accepted' = accepted \cup {s}
    /\ released' = released \ {s}
    /\ UNCHANGED received

Receive(s) ==
    /\ s \in accepted
    /\ received' = received \cup {s}
    /\ UNCHANGED <<accepted, released>>

Release(s) ==
    /\ s \in accepted \cap received
    /\ released' = released \cup {s}
    /\ UNCHANGED <<accepted, received>>

Next == \E s \in Numbers : Accept(s) \/ Receive(s) \/ Release(s)

Spec == Init /\ [][Next]_vars

\* What is accepted and not accepted anew is received and then released.
FairSpec == Spec /\ \A s \in Numbers : WF_vars(Receive(s)) /\ WF_vars(Release(s))
=============================================================================
