----------------------------- MODULE GapNetwork -----------------------------
(***************************************************************************)
(* The UDP path between the stdin senders (src/bin/sender.rs) and the      *)
(* gap-detecting receiver (src/bin/receiver.rs) of BDSPro_UDP_Channel: the *)
(* sets of datagrams in transit.  ACKs are left out: the stdin sender      *)
(* reads and drops them.                                                   *)
(***************************************************************************)
EXTENDS Naturals, Sequences, FiniteSets

CONSTANTS
    Senders,    \* processes running sender.rs
    MaxSeq      \* bound: lines typed into a sender

ASSUME MaxSeqAssumption == MaxSeq \in Nat

Seqs == 1 .. MaxSeq

VARIABLES
    toReceiver, \* DATA datagrams in transit
    toSenders   \* RQST datagrams in transit

networkVars == <<toReceiver, toSenders>>

DataMessage == [from : Senders, seq : Seqs]
RequestMessage == [to : Senders, seq : Seqs]

NetworkTypeOK ==
    /\ toReceiver \in SUBSET DataMessage
    /\ toSenders \in SUBSET RequestMessage

NetworkInit ==
    /\ toReceiver = {}
    /\ toSenders = {}

\* What a direction holds once m was read from it: a duplicate of m, or no m.
ReadDatagram(net, m) == {net, net \ {m}}

LoseDatagram ==
    \/ /\ \E m \in toReceiver : toReceiver' = toReceiver \ {m}
       /\ UNCHANGED toSenders
    \/ /\ \E m \in toSenders : toSenders' = toSenders \ {m}
       /\ UNCHANGED toReceiver
=============================================================================
