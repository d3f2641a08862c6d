----------------------------- MODULE NodeConfig -----------------------------
(***************************************************************************)
(* The configuration of a set of test nodes: which node runs which         *)
(* queries, and which channels they read and write.  A query without an    *)
(* input is a Source, one without an output a Sink, any other a Bridge.    *)
(***************************************************************************)
EXTENDS Naturals, Sequences

CONSTANTS
    Nodes, Queries, Channels,
    None,
    NodeOf,         \* the node of a query
    Input,          \* its input_channel
    Output,         \* its downstream_channel
    MaxBuffers      \* buffers a GeneratorSource emits

ASSUME NodeConfigAssumption ==
    /\ NodeOf \in [Queries -> Nodes]
    /\ Input \in [Queries -> Channels \cup {None}]
    /\ Output \in [Queries -> Channels \cup {None}]
    /\ None \notin Channels \cup Queries
    /\ MaxBuffers \in Nat \ {0}

\* A registered channel is handed to one connection, so one sink writes it.
ASSUME OneSinkPerChannel ==
    \A q, r \in Queries : Output[q] = Output[r] /\ Output[q] # None => q = r

\* Each registration has a data queue of its own, so one source reads it.
ASSUME OneSourcePerChannel ==
    \A q, r \in Queries : Input[q] = Input[r] /\ Input[q] # None => q = r

Numbers == 1 .. MaxBuffers

Generates(q) == Input[q] = None
Prints(q) == Output[q] = None

\* A buffer on its way through the engine, and none.
Task == [query : Queries, num : Numbers]
TaskOf(n) == {t \in Task : NodeOf[t.query] = n}
NoTask == [query |-> None, num |-> 0]
=============================================================================
