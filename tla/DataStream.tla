----------------------------- MODULE DataStream -----------------------------
(***************************************************************************)
(* The TCP connection of one data channel between the sender service       *)
(* (network/src/sender.rs) and the receiver service (receiver.rs): a       *)
(* stream of frames in each direction.  A connection that is lost delivers *)
(* a part of what it carries, and then both ends see the end of the stream *)
(* or an error.                                                            *)
(***************************************************************************)
EXTENDS Naturals, Sequences, FiniteSets, SequencesExt

CONSTANTS
    MaxTuple,       \* bound: the application sends tuple buffers 1 .. MaxTuple
    StreamCapacity  \* frames a stream towards the receiver takes before a write waits

ASSUME DataStreamAssumption ==
    /\ MaxTuple \in Nat
    /\ StreamCapacity \in Nat \ {0}

VARIABLES
    link,       \* whether the connection carries data
    toReceiver, \* DataChannelRequest frames written and not yet read
    toSender    \* DataChannelResponse frames written and not yet read

streamVars == <<link, toReceiver, toSender>>

\* TupleBuffer::sequence: buffers are told apart by their number.
Tuples == 1 .. MaxTuple

Request == [typ : {"Data"}, seq : Tuples] \cup {[typ |-> "Close", seq |-> 0]}
Response == [typ : {"Ack"}, seq : Tuples] \cup {[typ |-> "Close", seq |-> 0]}

Data(n) == [typ |-> "Data", seq |-> n]
Ack(n) == [typ |-> "Ack", seq |-> n]
Close == [typ |-> "Close", seq |-> 0]

StreamTypeOK ==
    /\ link \in {"up", "lost"}
    /\ toReceiver \in Seq(Request)
    /\ toSender \in Seq(Response)

StreamInit ==
    /\ link = "lost"
    /\ toReceiver = <<>>
    /\ toSender = <<>>

\* A lost connection takes what is written to it and delivers nothing.
Written(stream, frame) == IF link = "up" THEN Append(stream, frame) ELSE stream

LoseConnection ==
    /\ link = "up"
    /\ link' = "lost"
    /\ UNCHANGED <<toReceiver, toSender>>
=============================================================================
