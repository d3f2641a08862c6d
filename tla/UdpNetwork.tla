----------------------------- MODULE UdpNetwork -----------------------------
(***************************************************************************)
(* The UDP path between one UdpSender and one UdpReceiver, seen from       *)
(* external/BDSPro_UDP_Channel/src/lib.rs: each direction is the set of    *)
(* datagrams in transit.  A set loses the order of datagrams; Lose drops   *)
(* one, and a reader may leave the datagram it takes in the set, which is  *)
(* how the network duplicates it.                                          *)
(***************************************************************************)
EXTENDS Naturals, Sequences, FiniteSets, Functions

CONSTANTS
    Callers,    \* tasks that call UdpSender::send_message; a caller is also the payload it sends
    MaxSeq      \* bound: sequence numbers are 1 .. MaxSeq

ASSUME CallersAssumption == IsFiniteSet(Callers)
ASSUME MaxSeqAssumption == MaxSeq \in Nat

VARIABLES
    toReceiver, \* DATA datagrams on their way to the receiver
    toSender    \* ACK, RQST and FLOW_CONTROL datagrams on their way to the sender

networkVars == <<toReceiver, toSender>>

Seqs == 1 .. MaxSeq

\* message.rs: typ, seq and data; the datagrams of each direction carry only
\* the fields that direction reads.
DataMessage == [seq : Seqs, data : Callers]
Reply == [typ : {"ACK", "RQST"}, seq : Seqs] \cup {[typ |-> "FLOW_CONTROL", seq |-> 0]}

FlowControl == [typ |-> "FLOW_CONTROL", seq |-> 0]

\* f with x mapped to v, HashMap::insert.
Put(f, x, v) == [y \in DOMAIN f \cup {x} |-> IF y = x THEN v ELSE f[y]]

\* f without x, HashMap::remove.
Without(f, x) == Restrict(f, DOMAIN f \ {x})

\* What a direction holds once m was read from it: a duplicate of m, or no m.
ReadDatagram(net, m) == {net, net \ {m}}

LoseData(m) ==
    /\ m \in toReceiver
    /\ toReceiver' = toReceiver \ {m}
    /\ UNCHANGED toSender

LoseReply(m) ==
    /\ m \in toSender
    /\ toSender' = toSender \ {m}
    /\ UNCHANGED toReceiver

NetworkTypeOK ==
    /\ toReceiver \in SUBSET DataMessage
    /\ toSender \in SUBSET Reply

NetworkInit ==
    /\ toReceiver = {}
    /\ toSender = {}
=============================================================================
