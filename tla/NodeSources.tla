----------------------------- MODULE NodeSources -----------------------------
(***************************************************************************)
(* GeneratorSource and NetworkSource: a thread each, which reads its stop  *)
(* flag, obtains a buffer and pushes it as a task for the worker.          *)
(***************************************************************************)
EXTENDS QueryEngine, NodeChannel

VARIABLES
    emitted,    \* history: numbers the source has passed to emit
    dropped     \* history: those of them that found the task queue full

sourceVars == <<emitted, dropped>>

SourcesTypeOK ==
    /\ emitted \in [Queries -> SUBSET Numbers]
    /\ dropped \in [Queries -> SUBSET Numbers]

SourcesInit ==
    /\ emitted = [q \in Queries |-> {}]
    /\ dropped = [q \in Queries |-> {}]

\* start_query starts the source before it inserts the query; a NetworkSource
\* first registers its channel.
StartQuery(q) ==
    /\ queryState[q] = "new"
    /\ MainIdle(NodeOf[q])
    /\ queryState' = [queryState EXCEPT ![q] = "running"]
    /\ source' = [source EXCEPT ![q] = "check"]
    /\ IF Generates(q)
       THEN UNCHANGED offer
       ELSE offer' = [offer EXCEPT ![Input[q]] = "open"]
    /\ UNCHANGED <<handler, control, reply, data, link, taskQueue, worker, task, pipeline, up, sourceVars>>

\* The bound: a generator that has emitted MaxBuffers buffers only sleeps.
Continue(q) ==
    /\ source[q] = "check"
    /\ ~StopRequested(q)
    /\ Generates(q) => emitted[q] # Numbers
    /\ source' = [source EXCEPT ![q] = "emit"]
    /\ UNCHANGED <<queryState, taskQueue, worker, task, pipeline, up, channelVars, sourceVars>>

\* The closure of SourceNode::start ignores the result of the push.
Emit(q, num) ==
    LET n == NodeOf[q]
    IN  /\ emitted' = [emitted EXCEPT ![q] = @ \cup {num}]
        /\ IF Len(taskQueue[n]) < TaskQueueSize
           THEN /\ taskQueue' = [taskQueue EXCEPT ![n] = Append(@, [query |-> q, num |-> num])]
                /\ UNCHANGED dropped
           ELSE /\ dropped' = [dropped EXCEPT ![q] = @ \cup {num}]
                /\ UNCHANGED taskQueue

Generate(q) ==
    /\ Generates(q)
    /\ source[q] = "emit"
    /\ \E num \in Numbers : emitted[q] = 1 .. (num - 1) /\ Emit(q, num)
    /\ source' = [source EXCEPT ![q] = "check"]
    /\ UNCHANGED <<queryState, worker, task, pipeline, up, channelVars>>

GeneratorStops(q) ==
    /\ Generates(q)
    /\ source[q] = "check"
    /\ StopRequested(q)
    /\ source' = [source EXCEPT ![q] = "ended"]
    /\ UNCHANGED <<queryState, taskQueue, worker, task, pipeline, up, channelVars, sourceVars>>

\* recv_blocking: a closed queue is emptied before it reports an error.
Receive(q) ==
    LET c == Input[q]
    IN  /\ ~Generates(q)
        /\ source[q] = "emit"
        /\ data[c] # <<>>
        /\ Emit(q, Head(data[c]))
        /\ data' = [data EXCEPT ![c] = Tail(@)]
        /\ source' = [source EXCEPT ![q] = "check"]
        /\ UNCHANGED <<queryState, worker, task, pipeline, up, handler, control, reply, offer, link>>

ExternalStop(q) ==
    /\ ~Generates(q)
    /\ source[q] = "emit"
    /\ data[Input[q]] = <<>>
    /\ offer[Input[q]] \in {"closed", "gone"}
    /\ source' = [source EXCEPT ![q] = "ended"]
    /\ UNCHANGED <<queryState, taskQueue, worker, task, pipeline, up, channelVars, sourceVars>>

InternalStop(q) ==
    LET c == Input[q]
    IN  /\ ~Generates(q)
        /\ source[q] = "check"
        /\ StopRequested(q)
        /\ source' = [source EXCEPT ![q] = "ended"]
        /\ offer' = [offer EXCEPT ![c] = IF @ = "open" THEN "closed" ELSE @]
        /\ UNCHANGED <<queryState, taskQueue, worker, task, pipeline, up, sourceVars,
                       handler, control, reply, data, link>>

SourceStep(q) ==
    \/ Continue(q)
    \/ Generate(q)
    \/ GeneratorStops(q)
    \/ Receive(q)
    \/ ExternalStop(q)
    \/ InternalStop(q)
=============================================================================
