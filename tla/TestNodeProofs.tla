---------------------------- MODULE TestNodeProofs ----------------------------
(***************************************************************************)
(* Theorems about TestNode, for every set of nodes, queries and channels,  *)
(* and every size of the queues: no buffer lost on an open channel, and    *)
(* exact answers of the tracker.                                           *)
(***************************************************************************)
EXTENDS NodeTypeProofs

(***************************************************************************)
(* Nothing happens to a query after its node was stopped.                  *)
(***************************************************************************)

\* The node of a query is stopped by whoever lets go of it last (engine.rs:20-24):
\* the thread of its source is joined, and none of its tasks is left.
StopInv ==
    \A q \in Queries :
        /\ queryState[q] \in {"dropping", "stopped"} => source[q] = "ended"
        /\ pipeline[q] # "open" =>
              queryState[q] \in {"dropping", "stopped"} /\ ~Queued(q) /\ ~Executing(q)

\* Steps that neither queue nor execute a task.
LEMMA SameTasks ==
    ASSUME UNCHANGED <<taskQueue, worker, task>>, NEW q \in Queries
    PROVE  Queued(q)' = Queued(q) /\ Executing(q)' = Executing(q)
BY DEF Queued, Executing

\* A worker goes on within execute, or dies.
LEMMA WorkerMoves ==
    ASSUME WorkersTypeOK, NEW n \in Nodes, worker[n] \in {"execute", "drain", "send"},
           NEW state, worker' = [worker EXCEPT ![n] = state],
           UNCHANGED <<taskQueue, task>>, NEW q \in Queries
    PROVE  Queued(q)' = Queued(q) /\ (Executing(q)' => Executing(q))
BY DEF Queued, Executing, WorkersTypeOK

\* A task ends: its node is stopped only if nobody else holds it.
LEMMA FinishStops ==
    ASSUME WorkersTypeOK, QueriesTypeOK, StopInv, NEW n \in Nodes, worker[n] \in {"execute",
    "drain", "send"},
           FinishTask(n), UNCHANGED <<queryState, source, taskQueue>>
    PROVE  StopInv'
<1> DEFINE q == task[n].query
<1>1. q \in Queries /\ NodeOf[q] = n
  BY TaskTypes
<1>2. \A r \in Queries : Queued(r)' = Queued(r)
  BY DEF Queued
<1>3. \A r \in Queries : Executing(r)' => Executing(r) /\ NodeOf[r] # n
  BY NodeConfigAssumption DEF FinishTask, GoIdle, Executing, WorkersTypeOK
<1>4. \A r \in Queries : pipeline'[r] # "open" => pipeline[r] # "open" \/ (r = q /\ LastReference(q))
  BY DEF FinishTask, QueriesTypeOK
<1> QED
  BY <1>1, <1>2, <1>3, <1>4 DEF StopInv, LastReference

\* A source queues tasks of its own query only.
LEMMA EmitQueues ==
    ASSUME WorkersTypeOK, NEW q \in Queries, NEW num, Emit(q, num),
           UNCHANGED <<worker, task>>, NEW r \in Queries, r # q
    PROVE  (Queued(r)' => Queued(r)) /\ Executing(r)' = Executing(r)
<1> DEFINE n == NodeOf[q]
           new == [query |-> q, num |-> num]
<1>1. Executing(r)' = Executing(r)
  BY DEF Executing
<1>2. CASE NodeOf[r] = n /\ Len(taskQueue[n]) < TaskQueueSize
  <2>1. taskQueue'[n] = Append(taskQueue[n], new)
    BY <1>2, NodeConfigAssumption DEF Emit, WorkersTypeOK
  <2>2. new.query # r
    OBVIOUS
  <2> QED
    BY <1>1, <1>2, <2>1, <2>2, NodeConfigAssumption DEF Queued, WorkersTypeOK
<1>3. CASE ~(NodeOf[r] = n /\ Len(taskQueue[n]) < TaskQueueSize)
  BY <1>1, <1>3, NodeConfigAssumption DEF Emit, Queued, WorkersTypeOK
<1> QED
  BY <1>2, <1>3

\* Every step keeps StopInv.
LEMMA StopStep ==
    ASSUME TypeOK, StopInv, Next
    PROVE  StopInv'
<1> USE NodeConfigAssumption
<1> USE DEF TypeOK, EngineTypeOK
<1>1. ASSUME NEW q \in Queries, StartQuery(q), UNCHANGED <<sinkVars, printVars>> PROVE StopInv'
  BY <1>1, SameTasks DEF StartQuery, StopInv, QueriesTypeOK, engineVars
<1>2. ASSUME NEW q \in Queries, BeginStop(q), UNCHANGED <<channelVars, sourceVars, sinkVars,
     printVars>> PROVE StopInv'
  BY <1>2, SameTasks DEF BeginStop, StopInv, QueriesTypeOK, engineVars
<1>3. ASSUME NEW q \in Queries, DropQuery(q), UNCHANGED <<channelVars, sourceVars, sinkVars,
     printVars>> PROVE StopInv'
  BY <1>3, SameTasks DEF DropQuery, StopInv, QueriesTypeOK, engineVars
<1>4. ASSUME NEW q \in Queries, MainResumes(q), UNCHANGED <<channelVars, sourceVars, sinkVars,
     printVars>> PROVE StopInv'
  BY <1>4, SameTasks DEF MainResumes, StopInv, QueriesTypeOK, engineVars
<1>5. ASSUME NEW q \in Queries, Continue(q), UNCHANGED <<sinkVars, printVars>> PROVE StopInv'
  BY <1>5, SameTasks DEF Continue, StopInv, QueriesTypeOK, engineVars
<1>6. ASSUME NEW q \in Queries, Generate(q), UNCHANGED <<sinkVars, printVars>> PROVE StopInv'
  BY <1>6, EmitQueues DEF Generate, StopInv, QueriesTypeOK
<1>7. ASSUME NEW q \in Queries, GeneratorStops(q), UNCHANGED <<sinkVars, printVars>> PROVE StopInv'
  BY <1>7, SameTasks DEF GeneratorStops, StopInv, QueriesTypeOK, engineVars
<1>8. ASSUME NEW q \in Queries, Receive(q), UNCHANGED <<sinkVars, printVars>> PROVE StopInv'
  BY <1>8, EmitQueues DEF Receive, StopInv, QueriesTypeOK
<1>9. ASSUME NEW q \in Queries, ExternalStop(q), UNCHANGED <<sinkVars, printVars>> PROVE StopInv'
  BY <1>9, SameTasks DEF ExternalStop, StopInv, QueriesTypeOK, engineVars
<1>10. ASSUME NEW q \in Queries, InternalStop(q), UNCHANGED <<sinkVars, printVars>> PROVE StopInv'
  BY <1>10, SameTasks DEF InternalStop, StopInv, QueriesTypeOK, engineVars
<1>11. ASSUME NEW q \in Queries, StopEarly(q), UNCHANGED <<sourceVars, printVars>> PROVE StopInv'
  BY <1>11, SameTasks DEF StopEarly, StopInv, QueriesTypeOK, engineVars, StopAt
<1>12. ASSUME NEW q \in Queries, StopPanics(q), UNCHANGED <<sourceVars, printVars>> PROVE StopInv'
  BY <1>12, SameTasks DEF StopPanics, StopInv, QueriesTypeOK, engineVars
<1>13. ASSUME NEW q \in Queries, SendFlush(q), UNCHANGED <<sourceVars, printVars>> PROVE StopInv'
  BY <1>13, SameTasks DEF SendFlush, StopInv, QueriesTypeOK, engineVars, StopAt
<1>14. ASSUME NEW q \in Queries, FlushConfirmed(q), UNCHANGED <<sourceVars,
     printVars>> PROVE StopInv'
  BY <1>14, SameTasks DEF FlushConfirmed, StopInv, QueriesTypeOK, engineVars, StopAt
<1>15. ASSUME NEW q \in Queries, SendTerminate(q), UNCHANGED <<sourceVars,
     printVars>> PROVE StopInv'
  BY <1>15, SameTasks DEF SendTerminate, StopInv, QueriesTypeOK, engineVars, StopAt
<1>16. ASSUME NEW q \in Queries, StopPrint(q), UNCHANGED <<channelVars, sourceVars,
     sinkVars>> PROVE StopInv'
  BY <1>16, SameTasks DEF StopPrint, StopInv, QueriesTypeOK, engineVars
<1>17. ASSUME NEW n \in Nodes, Exit(n), UNCHANGED <<channelVars, sourceVars, sinkVars,
     printVars>> PROVE StopInv'
  BY <1>17, SameTasks DEF Exit, StopInv, QueriesTypeOK, engineVars
<1>18. ASSUME NEW n \in Nodes, PopTask(n), UNCHANGED <<channelVars, sourceVars, sinkVars,
     printVars>> PROVE StopInv'
  BY <1>18 DEF PopTask, StopInv, Queued, Executing, WorkersTypeOK, GoIdle
<1>19. ASSUME NEW n \in Nodes, WorkerResumes(n), UNCHANGED <<channelVars, sourceVars, sinkVars,
     printVars>> PROVE StopInv'
  BY <1>19 DEF WorkerResumes, StopInv, Queued, Executing, WorkersTypeOK, GoIdle
<1>20. ASSUME NEW n \in Nodes, ExecuteClosed(n), UNCHANGED <<sourceVars, printVars>> PROVE StopInv'
  BY <1>20, FinishStops DEF ExecuteClosed, Sending, Printing
<1>21. ASSUME NEW n \in Nodes, Execute(n), UNCHANGED <<sourceVars, printVars>> PROVE StopInv'
  <2>1. /\ worker[n] = "execute"
        /\ worker' = [worker EXCEPT ![n] = IF backlog[task[n].query] = <<>> THEN "send" ELSE "drain"]
    BY <1>21 DEF Execute, Sending
  <2> QED
    BY <1>21, <2>1, WorkerMoves DEF Execute, StopInv
<1>22. ASSUME NEW n \in Nodes, Drain(n), UNCHANGED <<sourceVars, printVars>> PROVE StopInv'
  BY <1>22, WorkerMoves, TaskTypes DEF Drain, StopInv, QueriesTypeOK, Sending, Printing,
     LastReference
<1>23. ASSUME NEW n \in Nodes, DrainFull(n), UNCHANGED <<sourceVars, printVars>> PROVE StopInv'
  BY <1>23, FinishStops DEF DrainFull, Sending, Printing
<1>24. ASSUME NEW n \in Nodes, DrainPanics(n), UNCHANGED <<sourceVars, printVars>> PROVE StopInv'
  <2>1. task[n].query \in Queries /\ NodeOf[task[n].query] = n
    BY <1>24, TaskTypes DEF DrainPanics, Sending
  <2>2. \A r \in Queries : Queued(r)' = Queued(r) /\ (Executing(r)' => Executing(r))
    BY <1>24, WorkerMoves DEF DrainPanics, Sending
  <2>3. ~Executing(task[n].query)'
    BY <1>24, <2>1 DEF DrainPanics, Executing, WorkersTypeOK
  <2> QED
    BY <1>24, <2>1, <2>2, <2>3 DEF DrainPanics, StopInv, QueriesTypeOK, LastReference
<1>25. ASSUME NEW n \in Nodes, SendBuffer(n), UNCHANGED <<sourceVars, printVars>> PROVE StopInv'
  BY <1>25, FinishStops DEF SendBuffer, Sending, Printing
<1>26. ASSUME NEW n \in Nodes, SendFull(n), UNCHANGED <<sourceVars, printVars>> PROVE StopInv'
  BY <1>26, FinishStops DEF SendFull, Sending, Printing
<1>27. ASSUME NEW n \in Nodes, SendClosed(n), UNCHANGED <<sourceVars, printVars>> PROVE StopInv'
  BY <1>27, FinishStops DEF SendClosed, Sending, Printing
<1>28. ASSUME NEW n \in Nodes, Track(n), UNCHANGED <<channelVars, sourceVars,
     sinkVars>> PROVE StopInv'
  BY <1>28, FinishStops DEF Track, Sending, Printing
<1>29. ASSUME NEW n \in Nodes, TrackPanics(n), UNCHANGED <<channelVars, sourceVars,
     sinkVars>> PROVE StopInv'
  BY <1>29, WorkerMoves, TaskTypes DEF TrackPanics, StopInv, QueriesTypeOK, Sending, Printing,
     LastReference
<1>30. ASSUME NEW c \in Channels, Deliver(c), UNCHANGED <<engineVars, sourceVars, sinkVars,
     printVars>> PROVE StopInv'
  BY <1>30, SameTasks DEF Deliver, StopInv, QueriesTypeOK, engineVars
<1>31. ASSUME NEW c \in Channels, LoseData(c), UNCHANGED <<engineVars, sourceVars, sinkVars,
     printVars>> PROVE StopInv'
  BY <1>31, SameTasks DEF LoseData, StopInv, QueriesTypeOK, engineVars
<1>32. ASSUME NEW c \in Channels, Refuse(c), UNCHANGED <<engineVars, sourceVars, sinkVars,
     printVars>> PROVE StopInv'
  BY <1>32, SameTasks DEF Refuse, StopInv, QueriesTypeOK, engineVars
<1>33. ASSUME NEW c \in Channels, AnswerFlush(c), UNCHANGED <<engineVars, sourceVars, sinkVars,
     printVars>> PROVE StopInv'
  BY <1>33, SameTasks DEF AnswerFlush, StopInv, QueriesTypeOK, engineVars
<1>34. ASSUME NEW c \in Channels, HandleTerminate(c), UNCHANGED <<engineVars, sourceVars,
     sinkVars, printVars>> PROVE StopInv'
  BY <1>34, SameTasks DEF HandleTerminate, StopInv, QueriesTypeOK, engineVars
<1>35. ASSUME NEW c \in Channels, ReadEof(c), UNCHANGED <<engineVars, sourceVars, sinkVars,
     printVars>> PROVE StopInv'
  BY <1>35, SameTasks DEF ReadEof, StopInv, QueriesTypeOK, engineVars
<1>36. ASSUME NEW c \in Channels, CancelSource(c), UNCHANGED <<engineVars, sourceVars, sinkVars,
     printVars>> PROVE StopInv'
  BY <1>36, SameTasks DEF CancelSource, StopInv, QueriesTypeOK, engineVars
<1>37. ASSUME NEW c \in Channels, DropFlush(c), UNCHANGED <<engineVars, sourceVars, sinkVars,
     printVars>> PROVE StopInv'
  BY <1>37, SameTasks DEF DropFlush, StopInv, QueriesTypeOK, engineVars
<1>38. ASSUME NEW c \in Channels, Reconnect(c), UNCHANGED <<engineVars, sourceVars, sinkVars,
     printVars>> PROVE StopInv'
  BY <1>38, SameTasks DEF Reconnect, StopInv, QueriesTypeOK, engineVars
<1>39. ASSUME NEW c \in Channels, Strand(c), UNCHANGED <<engineVars, sourceVars, sinkVars,
     printVars>> PROVE StopInv'
  BY <1>39, SameTasks DEF Strand, StopInv, QueriesTypeOK, engineVars
<1> QED
  BY <1>1, <1>2, <1>3, <1>4, <1>5, <1>6, <1>7, <1>8, <1>9, <1>10, <1>11, <1>12, <1>13, <1>14,
     <1>15, <1>16, <1>17, <1>18, <1>19, <1>20, <1>21, <1>22, <1>23, <1>24, <1>25, <1>26, <1>27,
     <1>28, <1>29, <1>30, <1>31, <1>32, <1>33, <1>34, <1>35, <1>36, <1>37, <1>38, <1>39 DEF Next, MainStep,
     SourceThread, SourceStep, PipelineStops, SinkStops, WorkerStep, SinkExecutes, Serve, Fail

\* It holds in every reachable state.
LEMMA StopInvariant == Spec => []StopInv
<1>1. Init => StopInv
  BY DEF Init, EngineInit, StopInv
<1>2. TypeOK /\ StopInv /\ [Next]_vars => StopInv'
  <2>1. ASSUME StopInv, UNCHANGED vars PROVE StopInv'
    BY <2>1, SameTasks DEF StopInv, vars, engineVars
  <2> QED
    BY <2>1, StopStep
<1> QED
  BY TypeCorrect, <1>1, <1>2, PTL DEF Spec

(***************************************************************************)
(* An open channel loses nothing.                                          *)
(***************************************************************************)

\* What NothingIsLost needs to be inductive.
LossInv ==
    /\ NothingIsLost
    /\ \A q \in Queries : closed[q] => IsClosed(Output[q])
    /\ \A n \in Nodes :
          Sending(n, "drain") =>
             LET own == backlog[task[n].query]
             IN  own # <<>> /\ own[Len(own)] = task[n].num

\* Steps that neither hand on a buffer nor open a sink or a channel again.
LEMMA NothingMoves ==
    ASSUME LossInv, UNCHANGED <<taskQueue, worker, task, sinkVars, sourceVars>>,
           \A q \in Queries : pipeline'[q] = "open" => pipeline[q] = "open",
           \A q \in Queries : IsClosed(Output[q]) => IsClosed(Output[q])'
    PROVE  LossInv'
<1>1. \A q \in Queries : \A num : Holds(q, num)' = Holds(q, num)
  BY DEF Holds, Executing, sinkVars
<1>2. NothingIsLost'
  BY <1>1 DEF LossInv, NothingIsLost, sinkVars, sourceVars
<1> QED
  BY <1>2 DEF LossInv, sinkVars, Sending

\* What a source emits is queued or dropped.
LEMMA EmitKeeps ==
    ASSUME WorkersTypeOK, SourcesTypeOK, LossInv, NEW q \in Queries, NEW num, Emit(q, num),
           UNCHANGED <<worker, task, pipeline, handler, sinkVars>>
    PROVE  LossInv'
<1> DEFINE n == NodeOf[q]
           new == [query |-> q, num |-> num]
<1> USE NodeConfigAssumption
<1>1. ASSUME NEW r \in Queries, NEW k, Holds(r, k) PROVE Holds(r, k)'
  <2>1. CASE \E i \in DOMAIN taskQueue[NodeOf[r]] : taskQueue[NodeOf[r]][i] = [query |-> r,
  num |-> k]
    <3>1. PICK i \in DOMAIN taskQueue[NodeOf[r]] : taskQueue[NodeOf[r]][i] = [query |-> r,
    num |-> k]
      BY <2>1
    <3>2. \/ taskQueue'[NodeOf[r]] = taskQueue[NodeOf[r]]
          \/ taskQueue'[NodeOf[r]] = Append(taskQueue[NodeOf[r]], new)
      BY DEF Emit, WorkersTypeOK
    <3>3. taskQueue[NodeOf[r]] \in Seq(Task)
      BY DEF WorkersTypeOK
    <3>4. i \in DOMAIN taskQueue'[NodeOf[r]] /\ taskQueue'[NodeOf[r]][i] = taskQueue[NodeOf[r]][i]
      <4>1. CASE taskQueue'[NodeOf[r]] = taskQueue[NodeOf[r]]
        BY <4>1
      <4>2. CASE taskQueue'[NodeOf[r]] = Append(taskQueue[NodeOf[r]], new)
        <5> HIDE DEF new
        <5>1. i \in 1 .. Len(taskQueue[NodeOf[r]])
          BY <3>3
        <5> QED
          BY <3>3, <4>2, <5>1
      <4> QED
        BY <3>2, <4>1, <4>2
    <3> QED
      BY <3>1, <3>4 DEF Holds
  <2>2. CASE ~(\E i \in DOMAIN taskQueue[NodeOf[r]] : taskQueue[NodeOf[r]][i] = [query |-> r,
  num |-> k])
    BY <1>1, <2>2 DEF Holds, Executing, sinkVars
  <2> QED
    BY <2>1, <2>2
<1>2. num \in dropped'[q] \/ Holds(q, num)'
  <2>1. CASE Len(taskQueue[n]) < TaskQueueSize
    <3>1. taskQueue'[n] = Append(taskQueue[n], new)
      BY <2>1 DEF Emit, WorkersTypeOK
    <3>2. /\ Len(taskQueue[n]) + 1 \in DOMAIN taskQueue'[n]
          /\ taskQueue'[n][Len(taskQueue[n]) + 1] = new
      BY <3>1 DEF WorkersTypeOK
    <3> QED
      BY <3>2 DEF Holds
  <2>2. CASE ~(Len(taskQueue[n]) < TaskQueueSize)
    BY <2>2 DEF Emit, SourcesTypeOK
  <2> QED
    BY <2>1, <2>2
<1>3. \A r \in Queries : emitted'[r] = IF r = q THEN emitted[r] \cup {num} ELSE emitted[r]
  BY DEF Emit, SourcesTypeOK
<1>4. \A r \in Queries : dropped[r] \subseteq dropped'[r]
  BY DEF Emit, SourcesTypeOK
<1>5. NothingIsLost'
  <2> SUFFICES ASSUME NEW r \in Queries, ~Prints(r), pipeline[r] = "open", ~IsClosed(Output[r]),
                      NEW k \in emitted'[r]
               PROVE  k \in sent[r] \cup dropped'[r] \/ Holds(r, k)'
    BY DEF NothingIsLost, sinkVars, IsClosed, Prints
  <2>1. CASE k \in emitted[r]
    BY <1>1, <1>4, <2>1 DEF LossInv, NothingIsLost
  <2>2. CASE k \notin emitted[r]
    BY <1>2, <1>3, <2>2
  <2> QED
    BY <2>1, <2>2
<1> QED
  BY <1>5 DEF LossInv, sinkVars, Sending, IsClosed

\* At the end of a task its buffer was sent or is in the backlog, or will not be
\* missed: its query prints, or its channel is closed.
LEMMA FinishKeeps ==
    ASSUME WorkersTypeOK, QueriesTypeOK, LossInv, NEW n \in Nodes, worker[n] \in {"execute",
    "drain", "send"},
           NEW q, q = task[n].query, NEW k, k = task[n].num, FinishTask(n),
           UNCHANGED <<taskQueue, handler, sourceVars>>,
           \A r \in Queries : closed'[r] => closed[r] \/ IsClosed(Output[r]),
           \A r \in Queries : sent[r] \subseteq sent'[r],
           \A r \in Queries : \A i \in DOMAIN backlog[r] : i \in DOMAIN backlog'[r] /\ backlog'[r][i] = backlog[r][i],
           \A r \in Queries : r # q => backlog'[r] = backlog[r],
           \/ Prints(q)
           \/ IsClosed(Output[q])
           \/ k \in sent'[q]
           \/ \E i \in DOMAIN backlog'[q] : backlog'[q][i] = k
    PROVE  LossInv'
<1>1. q \in Queries /\ NodeOf[q] = n
  BY TaskTypes
<1>2. \A m \in Nodes : m # n => worker'[m] = worker[m] /\ task'[m] = task[m]
  BY DEF FinishTask, GoIdle, WorkersTypeOK
<1>3. worker'[n] \in {"idle", "stop"}
  BY DEF FinishTask, GoIdle, WorkersTypeOK
<1>4. ASSUME NEW r \in Queries, NEW num, Holds(r, num)
      PROVE  Holds(r, num)' \/ (r = q /\ num = k)
  <2>1. CASE \E i \in DOMAIN backlog[r] : backlog[r][i] = num
    BY <2>1 DEF Holds
  <2>2. CASE Executing(r) /\ task[NodeOf[r]].num = num
    <3>1. CASE NodeOf[r] = n
      BY <2>2, <3>1 DEF Executing
    <3>2. CASE NodeOf[r] # n
      BY <2>2, <3>2, <1>2, NodeConfigAssumption DEF Executing, Holds
    <3> QED
      BY <3>1, <3>2
  <2>3. CASE \E i \in DOMAIN taskQueue[NodeOf[r]] : taskQueue[NodeOf[r]][i] = [query |-> r,
  num |-> num]
    BY <2>3 DEF Holds
  <2> QED
    BY <1>4, <2>1, <2>2, <2>3 DEF Holds
<1>5. \A r \in Queries : pipeline'[r] = "open" => pipeline[r] = "open"
  BY DEF FinishTask, QueriesTypeOK
<1>6. Prints(q) \/ IsClosed(Output[q]) \/ k \in sent'[q] \/ Holds(q, k)'
  BY DEF Holds
<1>7. NothingIsLost'
  <2> SUFFICES ASSUME NEW r \in Queries, ~Prints(r), pipeline'[r] = "open", ~IsClosed(Output[r]),
                      NEW num \in emitted[r]
               PROVE  num \in sent'[r] \cup dropped[r] \/ Holds(r, num)'
    BY DEF NothingIsLost, sourceVars, IsClosed, Prints
  <2>1. num \in sent[r] \cup dropped[r] \/ Holds(r, num)
    BY <1>5 DEF LossInv, NothingIsLost
  <2> QED
    BY <1>4, <1>6, <2>1
<1>8. ASSUME NEW m \in Nodes, Sending(m, "drain")'
      PROVE  LET own == backlog'[task'[m].query]
             IN  own # <<>> /\ own[Len(own)] = task'[m].num
  <2>1. m # n
    BY <1>3, <1>8 DEF Sending
  <2>2. Sending(m, "drain") /\ task'[m] = task[m]
    BY <1>2, <1>8, <2>1 DEF Sending
  <2>3. task[m].query \in Queries /\ task[m].query # q
    BY <1>1, <2>1, <2>2, TaskTypes DEF Sending
  <2> QED
    BY <2>2, <2>3 DEF LossInv
<1> QED
  BY <1>7, <1>8 DEF LossInv, IsClosed

\* The worker of n moves on within execute: it keeps its buffer, and what leaves
\* the backlog was sent.
MovesOn(n, state) ==
    LET q == task[n].query
    IN  /\ worker[n] \in {"execute", "drain", "send"}
        /\ worker' = [worker EXCEPT ![n] = state]
        /\ UNCHANGED <<taskQueue, task, pipeline, closed, sourceVars>>
        /\ \A r \in Queries : handler[Output[r]] = "closed" => handler'[Output[r]] = "closed"
        /\ \A r \in Queries : sent[r] \subseteq sent'[r]
        /\ \A r \in Queries : \A i \in DOMAIN backlog[r] :
              backlog[r][i] \in sent'[r] \/ \E j \in DOMAIN backlog'[r] : backlog'[r][j] = backlog[r][i]
        /\ \A r \in Queries : r # q => backlog'[r] = backlog[r]
        /\ state = "drain" => backlog'[q] # <<>> /\ backlog'[q][Len(backlog'[q])] = task[n].num

\* Such a step keeps LossInv.
LEMMA MoveKeeps ==
    ASSUME WorkersTypeOK, LossInv, NEW n \in Nodes, NEW state \in {"drain", "send"}, MovesOn(n, state)
    PROVE  LossInv'
<1> DEFINE q == task[n].query
<1> USE DEF MovesOn
<1>1. q \in Queries /\ NodeOf[q] = n
  BY TaskTypes
<1>2. ASSUME NEW r \in Queries, NEW num, Holds(r, num)
      PROVE  Holds(r, num)' \/ num \in sent'[r]
  <2>1. CASE \E i \in DOMAIN backlog[r] : backlog[r][i] = num
    BY <2>1 DEF Holds
  <2>2. CASE Executing(r) /\ task[NodeOf[r]].num = num
    BY <2>2, NodeConfigAssumption DEF Executing, Holds, WorkersTypeOK
  <2>3. CASE \E i \in DOMAIN taskQueue[NodeOf[r]] : taskQueue[NodeOf[r]][i] = [query |-> r,
  num |-> num]
    BY <2>3 DEF Holds
  <2> QED
    BY <1>2, <2>1, <2>2, <2>3 DEF Holds
<1>3. NothingIsLost'
  <2> SUFFICES ASSUME NEW r \in Queries, ~Prints(r), pipeline[r] = "open", ~IsClosed(Output[r]),
                      NEW num \in emitted[r]
               PROVE  num \in sent'[r] \cup dropped[r] \/ Holds(r, num)'
    BY DEF NothingIsLost, IsClosed, sourceVars, Prints
  <2>1. num \in sent[r] \cup dropped[r] \/ Holds(r, num)
    BY DEF LossInv, NothingIsLost
  <2> QED
    BY <1>2, <2>1
<1>4. ASSUME NEW m \in Nodes, Sending(m, "drain")'
      PROVE  LET own == backlog'[task'[m].query]
             IN  own # <<>> /\ own[Len(own)] = task'[m].num
  <2>1. CASE m = n
    BY <1>4, <2>1 DEF Sending, WorkersTypeOK
  <2>2. CASE m # n
    <3>1. Sending(m, "drain")
      BY <1>4, <2>2 DEF Sending, WorkersTypeOK
    <3>2. task[m].query \in Queries /\ task[m].query # q
      BY <1>1, <2>2, <3>1, TaskTypes DEF Sending
    <3> QED
      BY <3>1, <3>2 DEF LossInv
  <2> QED
    BY <2>1, <2>2
<1> QED
  BY <1>3, <1>4 DEF LossInv, IsClosed

\* Every step keeps LossInv.
LEMMA LossStep ==
    ASSUME TypeOK, LossInv, Next
    PROVE  LossInv'
<1> USE NodeConfigAssumption
<1>a. WorkersTypeOK
  BY DEF TypeOK, EngineTypeOK
<1> USE DEF TypeOK, EngineTypeOK
<1>1. ASSUME NEW q \in Queries, StartQuery(q), UNCHANGED <<sinkVars, printVars>> PROVE LossInv'
  BY <1>1, NothingMoves DEF StartQuery, QueriesTypeOK, ChannelTypeOK, IsClosed, engineVars,
     channelVars, sourceVars, Enqueue, Take, StopAt
<1>2. ASSUME NEW q \in Queries, BeginStop(q), UNCHANGED <<channelVars, sourceVars, sinkVars,
     printVars>> PROVE LossInv'
  BY <1>2, NothingMoves DEF BeginStop, QueriesTypeOK, ChannelTypeOK, IsClosed, engineVars,
     channelVars, sourceVars, Enqueue, Take, StopAt
<1>3. ASSUME NEW q \in Queries, DropQuery(q), UNCHANGED <<channelVars, sourceVars, sinkVars,
     printVars>> PROVE LossInv'
  BY <1>3, NothingMoves DEF DropQuery, QueriesTypeOK, ChannelTypeOK, IsClosed, engineVars,
     channelVars, sourceVars, Enqueue, Take, StopAt
<1>4. ASSUME NEW q \in Queries, MainResumes(q), UNCHANGED <<channelVars, sourceVars, sinkVars,
     printVars>> PROVE LossInv'
  BY <1>4, NothingMoves DEF MainResumes, QueriesTypeOK, ChannelTypeOK, IsClosed, engineVars,
     channelVars, sourceVars, Enqueue, Take, StopAt
<1>5. ASSUME NEW q \in Queries, Continue(q), UNCHANGED <<sinkVars, printVars>> PROVE LossInv'
  BY <1>5, NothingMoves DEF Continue, QueriesTypeOK, ChannelTypeOK, IsClosed, engineVars,
     channelVars, sourceVars, Enqueue, Take, StopAt
<1>6. ASSUME NEW q \in Queries, Generate(q), UNCHANGED <<sinkVars, printVars>> PROVE LossInv'
  BY <1>6, EmitKeeps DEF Generate, channelVars
<1>7. ASSUME NEW q \in Queries, GeneratorStops(q), UNCHANGED <<sinkVars, printVars>> PROVE LossInv'
  BY <1>7, NothingMoves DEF GeneratorStops, QueriesTypeOK, ChannelTypeOK, IsClosed, engineVars,
     channelVars, sourceVars, Enqueue, Take, StopAt
<1>8. ASSUME NEW q \in Queries, Receive(q), UNCHANGED <<sinkVars, printVars>> PROVE LossInv'
  BY <1>8, EmitKeeps DEF Receive, channelVars
<1>9. ASSUME NEW q \in Queries, ExternalStop(q), UNCHANGED <<sinkVars, printVars>> PROVE LossInv'
  BY <1>9, NothingMoves DEF ExternalStop, QueriesTypeOK, ChannelTypeOK, IsClosed, engineVars,
     channelVars, sourceVars, Enqueue, Take, StopAt
<1>10. ASSUME NEW q \in Queries, InternalStop(q), UNCHANGED <<sinkVars, printVars>> PROVE LossInv'
  BY <1>10, NothingMoves DEF InternalStop, QueriesTypeOK, ChannelTypeOK, IsClosed, engineVars,
     channelVars, sourceVars, Enqueue, Take, StopAt
<1>11. ASSUME NEW q \in Queries, StopEarly(q), UNCHANGED <<sourceVars, printVars>> PROVE LossInv'
  BY <1>11, NothingMoves DEF StopEarly, QueriesTypeOK, ChannelTypeOK, IsClosed, engineVars,
     channelVars, sourceVars, Enqueue, Take, StopAt
<1>12. ASSUME NEW q \in Queries, StopPanics(q), UNCHANGED <<sourceVars, printVars>> PROVE LossInv'
  BY <1>12, NothingMoves DEF StopPanics, QueriesTypeOK, ChannelTypeOK, IsClosed, engineVars,
     channelVars, sourceVars, Enqueue, Take, StopAt
<1>13. ASSUME NEW q \in Queries, SendFlush(q), UNCHANGED <<sourceVars, printVars>> PROVE LossInv'
  BY <1>13, NothingMoves DEF SendFlush, QueriesTypeOK, ChannelTypeOK, IsClosed, engineVars,
     channelVars, sourceVars, Enqueue, Take, StopAt
<1>14. ASSUME NEW q \in Queries, FlushConfirmed(q), UNCHANGED <<sourceVars,
     printVars>> PROVE LossInv'
  BY <1>14, NothingMoves DEF FlushConfirmed, QueriesTypeOK, ChannelTypeOK, IsClosed, engineVars,
     channelVars, sourceVars, Enqueue, Take, StopAt
<1>15. ASSUME NEW q \in Queries, SendTerminate(q), UNCHANGED <<sourceVars,
     printVars>> PROVE LossInv'
  BY <1>15, NothingMoves DEF SendTerminate, QueriesTypeOK, ChannelTypeOK, IsClosed, engineVars,
     channelVars, sourceVars, Enqueue, Take, StopAt
<1>16. ASSUME NEW q \in Queries, StopPrint(q), UNCHANGED <<channelVars, sourceVars,
     sinkVars>> PROVE LossInv'
  BY <1>16, NothingMoves DEF StopPrint, QueriesTypeOK, ChannelTypeOK, IsClosed, engineVars,
     channelVars, sourceVars, Enqueue, Take, StopAt
<1>17. ASSUME NEW n \in Nodes, Exit(n), UNCHANGED <<channelVars, sourceVars, sinkVars,
     printVars>> PROVE LossInv'
  BY <1>17, NothingMoves DEF Exit, QueriesTypeOK, ChannelTypeOK, IsClosed, engineVars,
     channelVars, sourceVars, Enqueue, Take, StopAt
<1>18. ASSUME NEW n \in Nodes, PopTask(n), UNCHANGED <<channelVars, sourceVars, sinkVars,
     printVars>> PROVE LossInv'
  <2>1. ASSUME NEW r \in Queries, NEW num, Holds(r, num) PROVE Holds(r, num)'
    <3>1. CASE \E i \in DOMAIN backlog[r] : backlog[r][i] = num
      BY <1>18, <3>1 DEF Holds, sinkVars
    <3>2. CASE Executing(r) /\ task[NodeOf[r]].num = num
      BY <1>18, <3>2 DEF PopTask, Holds, Executing, WorkersTypeOK
    <3>3. CASE \E i \in DOMAIN taskQueue[NodeOf[r]] : taskQueue[NodeOf[r]][i] = [query |-> r,
    num |-> num]
      <4>1. PICK i \in DOMAIN taskQueue[NodeOf[r]] : taskQueue[NodeOf[r]][i] = [query |-> r,
      num |-> num]
        BY <3>3
      <4>2. CASE NodeOf[r] # n
        BY <1>18, <4>1, <4>2 DEF PopTask, Holds, WorkersTypeOK
      <4>3. CASE NodeOf[r] = n /\ i = 1
        <5>1. task'[n] = [query |-> r, num |-> num] /\ worker'[n] = "execute"
          BY <1>18, <4>1, <4>3 DEF PopTask, WorkersTypeOK
        <5> QED
          BY <4>3, <5>1 DEF Holds, Executing
      <4>4. CASE NodeOf[r] = n /\ i # 1
        <5>1. i - 1 \in DOMAIN taskQueue'[n] /\ taskQueue'[n][i - 1] = taskQueue[n][i]
          BY <1>18, <4>1, <4>4 DEF PopTask, WorkersTypeOK
        <5> QED
          BY <4>1, <4>4, <5>1 DEF Holds
      <4> QED
        BY <4>2, <4>3, <4>4
    <3> QED
      BY <2>1, <3>1, <3>2, <3>3 DEF Holds
  <2>2. NothingIsLost'
    BY <1>18, <2>1 DEF PopTask, LossInv, NothingIsLost, IsClosed, channelVars, sinkVars, sourceVars
  <2>3. \A m \in Nodes : Sending(m, "drain")' => Sending(m, "drain") /\ task'[m] = task[m]
    BY <1>18 DEF PopTask, Sending, WorkersTypeOK
  <2> QED
    BY <1>18, <2>2, <2>3 DEF PopTask, LossInv, IsClosed, channelVars, sinkVars
<1>19. ASSUME NEW n \in Nodes, WorkerResumes(n), UNCHANGED <<channelVars, sourceVars, sinkVars,
     printVars>> PROVE LossInv'
  <2>1. \A r \in Queries : Executing(r)' = Executing(r) /\ (Executing(r) => task'[NodeOf[r]] = task[NodeOf[r]])
    BY <1>19 DEF WorkerResumes, GoIdle, Executing, WorkersTypeOK
  <2>2. \A r \in Queries : \A num : Holds(r, num) => Holds(r, num)'
    BY <1>19, <2>1 DEF WorkerResumes, Holds, sinkVars
  <2>3. NothingIsLost'
    BY <1>19, <2>2 DEF WorkerResumes, LossInv, NothingIsLost, IsClosed, channelVars, sinkVars,
       sourceVars
  <2>4. \A m \in Nodes : Sending(m, "drain")' => Sending(m, "drain") /\ task'[m] = task[m]
    BY <1>19 DEF WorkerResumes, GoIdle, Sending, WorkersTypeOK
  <2> QED
    BY <1>19, <2>3, <2>4 DEF WorkerResumes, LossInv, IsClosed, channelVars, sinkVars
<1>20. ASSUME NEW n \in Nodes, ExecuteClosed(n), UNCHANGED <<sourceVars, printVars>> PROVE LossInv'
  BY <1>20, FinishKeeps, TaskTypes DEF ExecuteClosed, LossInv, Sending, Printing, SinkTypeOK,
     Enqueue, channelVars, sinkVars
<1>21. ASSUME NEW n \in Nodes, Execute(n), UNCHANGED <<sourceVars, printVars>> PROVE LossInv'
  <2> DEFINE q == task[n].query
             state == IF backlog[q] = <<>> THEN "send" ELSE "drain"
  <2>1. worker[n] = "execute" /\ worker' = [worker EXCEPT ![n] = state] /\ state \in {"drain",
  "send"}
    BY <1>21 DEF Execute, Sending
  <2>2. q \in Queries /\ backlog[q] \in Seq(Numbers) /\ task[n].num \in Numbers
    BY <2>1, TaskTypes DEF SinkTypeOK
  <2>3. backlog'[q] = IF backlog[q] = <<>> THEN <<>> ELSE Append(backlog[q], task[n].num)
    BY <1>21, <2>2 DEF Execute, SinkTypeOK
  <2>4. state = "drain" => backlog'[q] # <<>> /\ backlog'[q][Len(backlog'[q])] = task[n].num
    BY <2>2, <2>3
  <2>5. \A i \in DOMAIN backlog[q] : i \in DOMAIN backlog'[q] /\ backlog'[q][i] = backlog[q][i]
    BY <2>2, <2>3
  <2>6. \A r \in Queries : r # q => backlog'[r] = backlog[r]
    BY <1>21 DEF Execute, SinkTypeOK
  <2>7. \A r \in Queries : handler[Output[r]] = "closed" => handler'[Output[r]] = "closed"
    BY <1>21 DEF Execute, IsClosed, ChannelTypeOK
  <2>8. \A r \in Queries : \A i \in DOMAIN backlog[r] :
          backlog[r][i] \in sent'[r] \/ \E j \in DOMAIN backlog'[r] : backlog'[r][j] = backlog[r][i]
    BY <2>5, <2>6
  <2>9. UNCHANGED <<taskQueue, task, pipeline, closed, sourceVars, sent>>
    BY <1>21 DEF Execute
  <2> HIDE DEF state
  <2>10. MovesOn(n, state)
    BY <2>1, <2>4, <2>6, <2>7, <2>8, <2>9 DEF MovesOn
  <2> QED
    BY <1>a, <2>1, <2>10, MoveKeeps
<1>22. ASSUME NEW n \in Nodes, Drain(n), UNCHANGED <<sourceVars, printVars>> PROVE LossInv'
  <2> DEFINE q == task[n].query
             state == IF Tail(backlog[q]) = <<>> THEN "send" ELSE "drain"
  <2>1. worker[n] = "drain" /\ worker' = [worker EXCEPT ![n] = state] /\ state \in {"drain", "send"}
    BY <1>22 DEF Drain, Sending
  <2>2. q \in Queries /\ backlog[q] \in Seq(Numbers) /\ backlog[q] # <<>>
    BY <1>22, <2>1, TaskTypes DEF Drain, SinkTypeOK
  <2>3. backlog'[q] = Tail(backlog[q]) /\ sent'[q] = sent[q] \cup {backlog[q][1]}
    BY <1>22, <2>2 DEF Drain, SinkTypeOK
  <2>4. state = "drain" => backlog'[q] # <<>> /\ backlog'[q][Len(backlog'[q])] = task[n].num
    <3>1. backlog[q][Len(backlog[q])] = task[n].num
      BY <1>22 DEF Drain, LossInv
    <3> QED
      BY <2>2, <2>3, <3>1
  <2>5. ASSUME NEW i \in DOMAIN backlog[q]
        PROVE  backlog[q][i] \in sent'[q] \/ \E j \in DOMAIN backlog'[q] : backlog'[q][j] = backlog[q][i]
    <3>1. i # 1 => i - 1 \in DOMAIN backlog'[q] /\ backlog'[q][i - 1] = backlog[q][i]
      BY <2>2, <2>3
    <3> QED
      BY <2>3, <3>1
  <2>6. \A r \in Queries : r # q => backlog'[r] = backlog[r]
    BY <1>22 DEF Drain, SinkTypeOK
  <2>7. \A r \in Queries : sent[r] \subseteq sent'[r]
    BY <1>22 DEF Drain, SinkTypeOK
  <2>8. \A r \in Queries : \A i \in DOMAIN backlog[r] :
          backlog[r][i] \in sent'[r] \/ \E j \in DOMAIN backlog'[r] : backlog'[r][j] = backlog[r][i]
    BY <2>5, <2>6
  <2>9. /\ UNCHANGED <<taskQueue, task, pipeline, closed, sourceVars>>
        /\ \A r \in Queries : handler[Output[r]] = "closed" => handler'[Output[r]] = "closed"
    BY <1>22 DEF Drain, Enqueue, IsClosed
  <2> HIDE DEF state
  <2>10. MovesOn(n, state)
    BY <2>1, <2>4, <2>6, <2>7, <2>8, <2>9 DEF MovesOn
  <2> QED
    BY <1>a, <2>1, <2>10, MoveKeeps
<1>23. ASSUME NEW n \in Nodes, DrainFull(n), UNCHANGED <<sourceVars, printVars>> PROVE LossInv'
  <2>1. task[n].query \in Queries /\ worker[n] = "drain"
    BY <1>23, TaskTypes DEF DrainFull, Sending
  <2>2. \E i \in DOMAIN backlog[task[n].query] : backlog[task[n].query][i] = task[n].num
    <3> DEFINE own == backlog[task[n].query]
    <3>1. own # <<>> /\ own[Len(own)] = task[n].num
      BY <1>23 DEF DrainFull, LossInv
    <3>2. own \in Seq(Numbers)
      BY <2>1 DEF SinkTypeOK
    <3> QED
      BY <3>1, <3>2
  <2> QED
    BY <1>23, <2>1, <2>2, FinishKeeps DEF DrainFull, channelVars, sinkVars
<1>24. ASSUME NEW n \in Nodes, DrainPanics(n), UNCHANGED <<sourceVars, printVars>> PROVE LossInv'
  <2> DEFINE q == task[n].query
  <2>1. q \in Queries /\ NodeOf[q] = n
    BY <1>24, TaskTypes DEF DrainPanics, Sending
  <2>2. ASSUME NEW r \in Queries, r # q, NEW num, Holds(r, num) PROVE Holds(r, num)'
    BY <1>24, <2>1, <2>2 DEF DrainPanics, Holds, Executing, WorkersTypeOK, SinkTypeOK
  <2>3. NothingIsLost'
    BY <1>24, <2>2 DEF DrainPanics, LossInv, NothingIsLost, IsClosed, Prints, QueriesTypeOK,
       channelVars, sourceVars
  <2>4. ASSUME NEW m \in Nodes, Sending(m, "drain")' PROVE Sending(m, "drain") /\ task[m].query # q
    <3>1. m # n /\ Sending(m, "drain")
      BY <1>24, <2>4 DEF DrainPanics, Sending, WorkersTypeOK
    <3> QED
      BY <2>1, <3>1, TaskTypes DEF Sending
  <2>5. \A r \in Queries : r # q => backlog'[r] = backlog[r]
    BY <1>24 DEF DrainPanics, SinkTypeOK
  <2>6. \A m \in Nodes : Sending(m, "drain") => task[m].query \in Queries
    BY TaskTypes DEF Sending
  <2> QED
    BY <1>24, <2>3, <2>4, <2>5, <2>6 DEF DrainPanics, LossInv, IsClosed, channelVars
<1>25. ASSUME NEW n \in Nodes, SendBuffer(n), UNCHANGED <<sourceVars, printVars>> PROVE LossInv'
  BY <1>25, FinishKeeps, TaskTypes DEF SendBuffer, LossInv, Sending, Printing, SinkTypeOK,
     Enqueue, channelVars, sinkVars
<1>26. ASSUME NEW n \in Nodes, SendFull(n), UNCHANGED <<sourceVars, printVars>> PROVE LossInv'
  <2> DEFINE q == task[n].query
  <2>1. q \in Queries /\ worker[n] = "send" /\ task[n].num \in Numbers
    BY <1>26, TaskTypes DEF SendFull, Sending
  <2>2. backlog[q] \in Seq(Numbers) /\ backlog'[q] = Append(backlog[q], task[n].num)
    BY <1>26, <2>1 DEF SendFull, SinkTypeOK
  <2>3. \E i \in DOMAIN backlog'[q] : backlog'[q][i] = task[n].num
    <3>1. /\ Len(backlog[q]) + 1 \in DOMAIN backlog'[q]
          /\ backlog'[q][Len(backlog[q]) + 1] = task[n].num
      BY <2>2
    <3> QED
      BY <3>1
  <2>4. \A r \in Queries : r # q => backlog'[r] = backlog[r]
    BY <1>26 DEF SendFull, SinkTypeOK
  <2>5. \A i \in DOMAIN backlog[q] : i \in DOMAIN backlog'[q] /\ backlog'[q][i] = backlog[q][i]
    BY <2>2
  <2> QED
    BY <1>26, <2>1, <2>3, <2>4, <2>5, FinishKeeps DEF SendFull, channelVars
<1>27. ASSUME NEW n \in Nodes, SendClosed(n), UNCHANGED <<sourceVars, printVars>> PROVE LossInv'
  BY <1>27, FinishKeeps, TaskTypes DEF SendClosed, LossInv, Sending, Printing, SinkTypeOK,
     Enqueue, channelVars, sinkVars
<1>28. ASSUME NEW n \in Nodes, Track(n), UNCHANGED <<channelVars, sourceVars,
     sinkVars>> PROVE LossInv'
  BY <1>28, FinishKeeps, TaskTypes DEF Track, LossInv, Sending, Printing, SinkTypeOK, Enqueue,
     channelVars, sinkVars
<1>29. ASSUME NEW n \in Nodes, TrackPanics(n), UNCHANGED <<channelVars, sourceVars,
     sinkVars>> PROVE LossInv'
  <2>1. task[n].query \in Queries /\ NodeOf[task[n].query] = n
    BY <1>29, TaskTypes DEF TrackPanics, Printing
  <2>2. ASSUME NEW r \in Queries, ~Prints(r), NEW num, Holds(r, num) PROVE Holds(r, num)'
    BY <1>29, <2>1, <2>2 DEF TrackPanics, Printing, Holds, Executing, WorkersTypeOK, sinkVars
  <2>3. NothingIsLost'
    BY <1>29, <2>2 DEF TrackPanics, LossInv, NothingIsLost, IsClosed, Prints, channelVars,
       sinkVars, sourceVars
  <2>4. \A m \in Nodes : Sending(m, "drain")' => Sending(m, "drain")
    BY <1>29 DEF TrackPanics, Sending, WorkersTypeOK
  <2> QED
    BY <1>29, <2>3, <2>4 DEF TrackPanics, LossInv, IsClosed, channelVars, sinkVars
<1>30. ASSUME NEW c \in Channels, Deliver(c), UNCHANGED <<engineVars, sourceVars, sinkVars,
     printVars>> PROVE LossInv'
  BY <1>30, NothingMoves DEF Deliver, QueriesTypeOK, ChannelTypeOK, IsClosed, engineVars,
     channelVars, sourceVars, Enqueue, Take, StopAt
<1>31. ASSUME NEW c \in Channels, LoseData(c), UNCHANGED <<engineVars, sourceVars, sinkVars,
     printVars>> PROVE LossInv'
  BY <1>31, NothingMoves DEF LoseData, QueriesTypeOK, ChannelTypeOK, IsClosed, engineVars,
     channelVars, sourceVars, Enqueue, Take, StopAt
<1>32. ASSUME NEW c \in Channels, Refuse(c), UNCHANGED <<engineVars, sourceVars, sinkVars,
     printVars>> PROVE LossInv'
  BY <1>32, NothingMoves DEF Refuse, CloseHandler, QueriesTypeOK, ChannelTypeOK, IsClosed, engineVars,
     channelVars, sourceVars, Enqueue, Take, StopAt
<1>33. ASSUME NEW c \in Channels, AnswerFlush(c), UNCHANGED <<engineVars, sourceVars, sinkVars,
     printVars>> PROVE LossInv'
  BY <1>33, NothingMoves DEF AnswerFlush, QueriesTypeOK, ChannelTypeOK, IsClosed, engineVars,
     channelVars, sourceVars, Enqueue, Take, StopAt
<1>34. ASSUME NEW c \in Channels, HandleTerminate(c), UNCHANGED <<engineVars, sourceVars,
     sinkVars, printVars>> PROVE LossInv'
  BY <1>34, NothingMoves DEF HandleTerminate, CloseHandler, QueriesTypeOK, ChannelTypeOK, IsClosed, engineVars,
     channelVars, sourceVars, Enqueue, Take, StopAt
<1>35. ASSUME NEW c \in Channels, ReadEof(c), UNCHANGED <<engineVars, sourceVars, sinkVars,
     printVars>> PROVE LossInv'
  BY <1>35, NothingMoves DEF ReadEof, CloseHandler, QueriesTypeOK, ChannelTypeOK, IsClosed, engineVars,
     channelVars, sourceVars, Enqueue, Take, StopAt
<1>36. ASSUME NEW c \in Channels, CancelSource(c), UNCHANGED <<engineVars, sourceVars, sinkVars,
     printVars>> PROVE LossInv'
  BY <1>36, NothingMoves DEF CancelSource, QueriesTypeOK, ChannelTypeOK, IsClosed, engineVars,
     channelVars, sourceVars, Enqueue, Take, StopAt
<1>37. ASSUME NEW c \in Channels, DropFlush(c), UNCHANGED <<engineVars, sourceVars, sinkVars,
     printVars>> PROVE LossInv'
  BY <1>37, NothingMoves DEF DropFlush, QueriesTypeOK, ChannelTypeOK, IsClosed, engineVars,
     channelVars, sourceVars, Take
<1>38. ASSUME NEW c \in Channels, Reconnect(c), UNCHANGED <<engineVars, sourceVars, sinkVars,
     printVars>> PROVE LossInv'
  BY <1>38, NothingMoves DEF Reconnect, QueriesTypeOK, ChannelTypeOK, IsClosed, engineVars,
     channelVars, sourceVars, Take
<1>39. ASSUME NEW c \in Channels, Strand(c), UNCHANGED <<engineVars, sourceVars, sinkVars,
     printVars>> PROVE LossInv'
  BY <1>39, NothingMoves DEF Strand, QueriesTypeOK, ChannelTypeOK, IsClosed, engineVars,
     channelVars, sourceVars, Take
<1> QED
  BY <1>1, <1>2, <1>3, <1>4, <1>5, <1>6, <1>7, <1>8, <1>9, <1>10, <1>11, <1>12, <1>13, <1>14,
     <1>15, <1>16, <1>17, <1>18, <1>19, <1>20, <1>21, <1>22, <1>23, <1>24, <1>25, <1>26, <1>27,
     <1>28, <1>29, <1>30, <1>31, <1>32, <1>33, <1>34, <1>35, <1>36, <1>37, <1>38, <1>39 DEF Next, MainStep,
     SourceThread, SourceStep, PipelineStops, SinkStops, WorkerStep, SinkExecutes, Serve, Fail

\* It holds in every reachable state.
LEMMA LossInvariant == Spec => []LossInv
<1>1. Init => LossInv
  BY DEF Init, EngineInit, SourcesInit, SinkInit, LossInv, NothingIsLost, Sending
<1>2. TypeOK /\ LossInv /\ [Next]_vars => LossInv'
  <2>1. ASSUME LossInv, UNCHANGED vars PROVE LossInv'
    BY <2>1, NothingMoves DEF vars, engineVars, channelVars, IsClosed
  <2> QED
    BY <2>1, LossStep
<1> QED
  BY TypeCorrect, <1>1, <1>2, PTL DEF Spec

\* A sink that is executed, over a channel that is open, sends or keeps whatever
\* its source has emitted, except what found the task queue full
\* (main.rs:282-325, engine.rs:47-49).
THEOREM SinkLosesNothing == Spec => []NothingIsLost
<1>1. LossInv => NothingIsLost
  BY DEF LossInv
<1> QED
  BY LossInvariant, <1>1, PTL

(***************************************************************************)
(* The tracker answers exactly.                                            *)
(***************************************************************************)

TrackInv == \A q \in Queries : again[q] \/ Tracks(tracker[q], added[q])

\* Every step keeps TrackInv.
LEMMA TrackStep ==
    ASSUME TypeOK, TrackInv, Next
    PROVE  TrackInv'
<1>1. CASE UNCHANGED printVars
  BY <1>1 DEF TrackInv, printVars
<1>2. ASSUME NEW n \in Nodes, Track(n) PROVE TrackInv'
  <2> DEFINE q == task[n].query
             num == task[n].num
  <2>1. q \in Queries /\ num \in Nat \ {0}
    BY <1>2, TaskTypes DEF Track, Printing, TypeOK, EngineTypeOK, Numbers
  <2>2. /\ tracker' = [tracker EXCEPT ![q] = Add(@, num)]
        /\ again' = [again EXCEPT ![q] = @ \/ num \in added[q]]
        /\ added' = [added EXCEPT ![q] = @ \cup {num}]
    BY <1>2 DEF Track
  <2>3. /\ tracker \in [Queries -> Tracker]
        /\ again \in [Queries -> BOOLEAN]
        /\ added \in [Queries -> SUBSET Numbers]
    BY DEF TypeOK, PrintTypeOK
  <2>4. again'[q] \/ Tracks(tracker'[q], added'[q])
    <3>1. CASE again[q] \/ num \in added[q]
      BY <2>1, <2>2, <2>3, <3>1
    <3>2. CASE ~again[q] /\ num \notin added[q]
      BY <2>1, <2>2, <2>3, <3>2, AddTracks DEF TrackInv
    <3> QED
      BY <3>1, <3>2
  <2>5. \A r \in Queries : r # q => again'[r] \/ Tracks(tracker'[r], added'[r])
    BY <2>2, <2>3 DEF TrackInv
  <2> QED
    BY <2>4, <2>5 DEF TrackInv
<1>3. UNCHANGED printVars \/ \E n \in Nodes : Track(n)
  BY DEF Next, PipelineStops, WorkerStep, StopPrint, TrackPanics, SourceThread, MainStep
<1> QED
  BY <1>1, <1>2, <1>3

\* The tracker answers with the lowest number that was not added to it, as long
\* as no number it had forgotten was added again (main.rs:108-143).
THEOREM QueryCorrect == Spec => []QueryIsLowestMissing
<1>1. Init => TrackInv
  BY EmptyTracks DEF Init, PrintInit, TrackInv
<1>2. TypeOK /\ TrackInv /\ [Next]_vars => TrackInv'
  <2>1. ASSUME TrackInv, UNCHANGED vars PROVE TrackInv'
    BY <2>1 DEF TrackInv, vars, printVars
  <2> QED
    BY <2>1, TrackStep
<1>3. TrackInv => QueryIsLowestMissing
  BY QueryIsLowest DEF TrackInv, QueryIsLowestMissing, LowestMissing
<1> QED
  BY TypeCorrect, <1>1, <1>2, <1>3, PTL DEF Spec
=============================================================================
