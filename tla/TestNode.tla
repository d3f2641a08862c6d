------------------------------ MODULE TestNode ------------------------------
(***************************************************************************)
(* Test nodes that run queries and exchange buffers over data channels:    *)
(* per node a main thread, a worker, and a thread for each source.         *)
(***************************************************************************)
EXTENDS NodeSources, NetworkSink, PrintSink

vars == <<engineVars, channelVars, sourceVars, sinkVars, printVars>>

Init ==
    /\ EngineInit
    /\ ChannelInit
    /\ SourcesInit
    /\ SinkInit
    /\ PrintInit

MainStep(q) == BeginStop(q) \/ DropQuery(q) \/ MainResumes(q)

SourceThread(q) == SourceStep(q) /\ UNCHANGED <<sinkVars, printVars>>

WorkerStep(n) ==
    \/ (PopTask(n) \/ WorkerResumes(n)) /\ UNCHANGED <<channelVars, sourceVars, sinkVars, printVars>>
    \/ SinkExecutes(n) /\ UNCHANGED <<sourceVars, printVars>>
    \/ (Track(n) \/ TrackPanics(n)) /\ UNCHANGED <<channelVars, sourceVars, sinkVars>>

PipelineStops(q) ==
    \/ SinkStops(q) /\ UNCHANGED <<sourceVars, printVars>>
    \/ StopPrint(q) /\ UNCHANGED <<channelVars, sourceVars, sinkVars>>

\* The nodes at both ends of a channel run.
Served(c) == \A q \in Queries : c \in {Input[q], Output[q]} => up[NodeOf[q]]

Next ==
    \/ \E q \in Queries :
          /\ up[NodeOf[q]]
          /\ \/ StartQuery(q) /\ UNCHANGED <<sinkVars, printVars>>
             \/ MainStep(q) /\ UNCHANGED <<channelVars, sourceVars, sinkVars, printVars>>
             \/ SourceThread(q)
             \/ PipelineStops(q)
    \/ \E n \in Nodes :
          /\ up[n]
          /\ \/ Exit(n) /\ UNCHANGED <<channelVars, sourceVars, sinkVars, printVars>>
             \/ WorkerStep(n)
    \/ \E c \in Channels :
          /\ (Served(c) /\ Serve(c)) \/ Fail(c)
          /\ UNCHANGED <<engineVars, sourceVars, sinkVars, printVars>>

Spec == Init /\ [][Next]_vars

----------------------------------------------------------------------------
(* Safety. *)

TypeOK ==
    /\ EngineTypeOK
    /\ ChannelTypeOK
    /\ SourcesTypeOK
    /\ SinkTypeOK
    /\ PrintTypeOK

\* The numbers of a queue's buffers, with 0 for whatever is no buffer of q.
QueuedNumbers(q) ==
    LET tasks == taskQueue[NodeOf[q]]
    IN  [i \in DOMAIN tasks |-> IF tasks[i].query = q THEN tasks[i].num ELSE 0]

ControlNumbers(c) == [i \in DOMAIN control[c] |-> control[c][i].num]

DataNumbers(q) == IF Prints(q) THEN <<>> ELSE data[Output[q]]
SentNumbers(q) == IF Prints(q) THEN <<>> ELSE ControlNumbers(Output[q])
TaskNumbers(q) == IF Executing(q) THEN <<task[NodeOf[q]].num>> ELSE <<>>

\* The buffers of q, those that are furthest first.
Ahead(q) ==
    DataNumbers(q) \o SentNumbers(q) \o backlog[q] \o TaskNumbers(q) \o QueuedNumbers(q)

\* Buffers keep their order through the task queue, the backlog and the channel,
\* whenever the queue is full and has room again (main.rs:282-325).
BuffersInOrder ==
    \A q \in Queries : \A i, j \in DOMAIN Ahead(q) :
        i < j /\ Ahead(q)[j] # 0 => Ahead(q)[i] <= Ahead(q)[j]

Holds(q, num) ==
    \/ \E i \in DOMAIN backlog[q] : backlog[q][i] = num
    \/ Executing(q) /\ task[NodeOf[q]].num = num
    \/ \E i \in DOMAIN taskQueue[NodeOf[q]] :
          taskQueue[NodeOf[q]][i] = [query |-> q, num |-> num]

\* While the sink is open and its channel too, a buffer its source has emitted is
\* held for it or sent, or found the task queue full (engine.rs:47-49): full
\* channels lose nothing (main.rs:282-325).
NothingIsLost ==
    \A q \in Queries :
        ~Prints(q) /\ pipeline[q] = "open" /\ ~IsClosed(Output[q]) =>
            \A num \in emitted[q] : num \in sent[q] \cup dropped[q] \/ Holds(q, num)

\* What is lost on the way into the channel is behind all that was sent: no buffer
\* overtakes the ones a full queue has left in the backlog, and once a buffer is
\* lost, to a stop (main.rs:351), a closed channel (main.rs:321) or a panic
\* (main.rs:301), none that was emitted later goes out.
SentWithoutGaps ==
    \A q \in Queries : \A num \in emitted[q], m \in sent[q] :
        num < m => num \in sent[q] \cup dropped[q]

\* What the tracker answers is the lowest number that was not added to it, unless
\* a number that it had forgotten was added again (main.rs:108-143).
QueryIsLowestMissing ==
    \A q \in Queries : again[q] \/
        /\ Query(tracker[q]) \notin added[q]
        /\ \A num \in 1 .. (Query(tracker[q]) - 1) : num \in added[q]

\* main.rs:111-115 asserts that no number arrives that the tracker holds.
NumbersAreNew ==
    \A n \in Nodes : Printing(n) => task[n].num \notin tracker[task[n].query].seen

\* From one node to the next, through queues that are full, connections that are
\* lost, and stops, numbers arrive in the order they were generated, and none
\* that was not (main.rs:78-89, 282-325, 395-428).
Stream == INSTANCE OrderedStream WITH printed <- added

ImplementsOrderedStream == Stream!Spec

----------------------------------------------------------------------------
(* Liveness. *)

\* The next step of stopping q, on the main thread or on the worker: there is
\* never more than one.
StopNext(q) ==
    \/ DropQuery(q) /\ UNCHANGED <<channelVars, sourceVars, sinkVars, printVars>>
    \/ PipelineStops(q)
    \/ MainResumes(q) /\ UNCHANGED <<channelVars, sourceVars, sinkVars, printVars>>

\* A thread waits for q to stop: main joins the source or runs the node's stop,
\* or the worker does.
Stopping(q) ==
    /\ up[NodeOf[q]]
    /\ queryState[q] \in {"stopping", "dropping"} \/ pipeline[q] \in {"flush", "wait", "terminate"}

\* The threads that stop a query or run its source are scheduled, and the services
\* serve a channel, unless it is stranded, and a flush, unless a buffer is abandoned.
\* Nothing is asked of a worker that executes tasks.
Fairness ==
    /\ \A q \in Queries :
          /\ WF_engineVars(Stopping(q) /\ StopNext(q))
          /\ WF_source(up[NodeOf[q]] /\ SourceThread(q))
    /\ \A c \in Channels :
          WF_channelVars(Served(c) /\ Serve(c)
                            /\ UNCHANGED <<engineVars, sourceVars, sinkVars, printVars>>)

FairSpec == Spec /\ Fairness

\* recv_blocking has no timeout: the source waits for a buffer or the end of its channel.
Starved(q) ==
    /\ ~Generates(q)
    /\ source[q] = "emit"
    /\ data[Input[q]] = <<>>
    /\ offer[Input[q]] = "open"

\* Nor has send_blocking, while the channel is not served and its queue full, or
\* the wait for the flush: the flush stays in the queue, or waits for a buffer
\* that was abandoned.
Unanswered(q) ==
    LET c == Output[q]
    IN  /\ ~Prints(q)
        /\ \/ /\ pipeline[q] \in {"flush", "wait", "terminate"}
              /\ ~Served(c) \/ offer[c] \in {"none", "gone"} \/ link[c] = "stranded"
           \/ /\ pipeline[q] = "wait"
              /\ IsClosed(c) \/ link[c] = "abandoned"

\* A stop that never returns waits for ever for its peer: for a buffer
\* (main.rs:408), or for a flush nobody will answer (main.rs:353, 360).
StopsReturn ==
    <>[](\A q \in Queries : Stopping(q) => Starved(q) \/ Unanswered(q))
=============================================================================
