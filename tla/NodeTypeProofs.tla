---------------------------- MODULE NodeTypeProofs ----------------------------
(***************************************************************************)
(* Type correctness of TestNode, for every set of nodes, queries and       *)
(* channels, and every size of the queues.                                 *)
(***************************************************************************)
EXTENDS TestNode, TrackerProofs

\* What a step leaves alone keeps its type.
LEMMA FrameTypes ==
    ASSUME TypeOK
    PROVE  /\ UNCHANGED <<queryState, source, pipeline, up>> => QueriesTypeOK'
           /\ UNCHANGED <<taskQueue, worker, task>> => WorkersTypeOK'
           /\ UNCHANGED channelVars => ChannelTypeOK'
           /\ UNCHANGED sourceVars => SourcesTypeOK'
           /\ UNCHANGED sinkVars => SinkTypeOK'
           /\ UNCHANGED printVars => PrintTypeOK'
<1> USE DEF TypeOK
<1>1. UNCHANGED <<queryState, source, pipeline, up>> => QueriesTypeOK'
  BY DEF EngineTypeOK, QueriesTypeOK
<1>2. UNCHANGED <<taskQueue, worker, task>> => WorkersTypeOK'
  BY DEF EngineTypeOK, WorkersTypeOK
<1>3. UNCHANGED channelVars => ChannelTypeOK'
  BY DEF channelVars, ChannelTypeOK
<1>4. UNCHANGED sourceVars => SourcesTypeOK'
  BY DEF sourceVars, SourcesTypeOK
<1>5. UNCHANGED sinkVars => SinkTypeOK'
  BY DEF sinkVars, SinkTypeOK
<1>6. UNCHANGED printVars => PrintTypeOK'
  BY DEF printVars, PrintTypeOK
<1> QED
  BY <1>1, <1>2, <1>3, <1>4, <1>5, <1>6

\* A busy worker moves on with its task.
LEMMA WorkerTypes ==
    ASSUME WorkersTypeOK, NEW n \in Nodes, worker[n] # "idle",
           NEW state \in WorkerStates, worker' = [worker EXCEPT ![n] = state],
           UNCHANGED <<taskQueue, task>>
    PROVE  WorkersTypeOK'
BY DEF WorkersTypeOK

\* A busy worker has a task, of a query of its node.
LEMMA TaskTypes ==
    ASSUME WorkersTypeOK, NEW n \in Nodes, worker[n] # "idle"
    PROVE  /\ task[n] \in Task
           /\ task[n].query \in Queries
           /\ NodeOf[task[n].query] = n
           /\ task[n].num \in Numbers
BY DEF WorkersTypeOK, TaskOf, Task

\* A worker is done with its task.
LEMMA IdleTypes ==
    ASSUME WorkersTypeOK, NEW n \in Nodes, GoIdle(n), UNCHANGED taskQueue
    PROVE  WorkersTypeOK'
BY DEF WorkersTypeOK, GoIdle, WorkerStates

\* The end of a task, with or without the stop of its node.
LEMMA FinishTypes ==
    ASSUME EngineTypeOK, NEW n \in Nodes, worker[n] # "idle",
           FinishTask(n), UNCHANGED <<queryState, source, up, taskQueue>>
    PROVE  EngineTypeOK'
<1>1. QueriesTypeOK'
  BY DEF EngineTypeOK, QueriesTypeOK, FinishTask, PipelineStates
<1>2. WorkersTypeOK'
  <2>1. CASE LastReference(task[n].query)
    BY <2>1, WorkerTypes DEF EngineTypeOK, FinishTask, WorkerStates
  <2>2. CASE ~LastReference(task[n].query)
    BY <2>2, IdleTypes DEF EngineTypeOK, FinishTask
  <2> QED
    BY <2>1, <2>2
<1> QED
  BY <1>1, <1>2 DEF EngineTypeOK

\* A buffer goes into the task queue, or is dropped.
LEMMA EmitTypes ==
    ASSUME WorkersTypeOK, SourcesTypeOK, NEW q \in Queries, NEW num \in Numbers,
           Emit(q, num), UNCHANGED <<worker, task>>
    PROVE  WorkersTypeOK' /\ SourcesTypeOK'
<1> DEFINE n == NodeOf[q]
           new == [query |-> q, num |-> num]
<1>1. n \in Nodes /\ new \in TaskOf(n) /\ new \in Task
  BY NodeConfigAssumption DEF TaskOf, Task
<1>2. SourcesTypeOK'
  BY DEF Emit, SourcesTypeOK
<1>3. CASE Len(taskQueue[n]) < TaskQueueSize
  <2>1. taskQueue' = [taskQueue EXCEPT ![n] = Append(@, new)]
    BY <1>3 DEF Emit
  <2>2. /\ Append(taskQueue[n], new) \in Seq(TaskOf(n))
        /\ Append(taskQueue[n], new) \in Seq(Task)
        /\ Len(Append(taskQueue[n], new)) <= TaskQueueSize
    BY <1>1, <1>3, QueryEngineAssumption DEF WorkersTypeOK
  <2> QED
    BY <1>1, <1>2, <2>1, <2>2 DEF WorkersTypeOK
<1>4. CASE ~(Len(taskQueue[n]) < TaskQueueSize)
  BY <1>2, <1>4 DEF Emit, WorkersTypeOK
<1> QED
  BY <1>3, <1>4

\* The sink puts a message into a queue with room.
LEMMA EnqueueTypes ==
    ASSUME ChannelTypeOK, NEW c, NEW m \in Message, HasRoom(c), Enqueue(c, m)
    PROVE  ChannelTypeOK'
<1>1. c \in Channels => /\ Append(control[c], m) \in Seq(Message)
                        /\ Len(Append(control[c], m)) <= ControlQueueSize
  BY NodeChannelAssumption DEF HasRoom, ChannelTypeOK
<1>2. control' \in [Channels -> Seq(Message)]
  BY <1>1 DEF Enqueue, ChannelTypeOK
<1>3. \A d \in Channels : Len(control'[d]) <= ControlQueueSize
  BY <1>1 DEF Enqueue, ChannelTypeOK
<1> QED
  BY <1>2, <1>3 DEF Enqueue, ChannelTypeOK

\* The handler takes a message.
LEMMA TakeTypes ==
    ASSUME ChannelTypeOK, NEW c \in Channels, NEW typ, Take(c, typ)
    PROVE  /\ control' \in [Channels -> Seq(Message)]
           /\ \A d \in Channels : Len(control'[d]) <= ControlQueueSize
           /\ Head(control[c]) \in Message
           /\ Head(control[c]).typ = typ
<1>1. /\ Tail(control[c]) \in Seq(Message)
      /\ Len(Tail(control[c])) <= ControlQueueSize
      /\ Head(control[c]) \in Message
  BY NodeChannelAssumption DEF Take, ChannelTypeOK
<1> QED
  BY <1>1 DEF Take, ChannelTypeOK

\* The source takes a buffer out of the data queue.
LEMMA DataTypes ==
    ASSUME ChannelTypeOK, NEW c \in Channels, data[c] # <<>>,
           data' = [data EXCEPT ![c] = Tail(@)],
           UNCHANGED <<handler, control, reply, offer, link>>
    PROVE  ChannelTypeOK' /\ Head(data[c]) \in Numbers
<1>1. /\ Tail(data[c]) \in Seq(Numbers)
      /\ Len(Tail(data[c])) <= DataQueueSize
      /\ Head(data[c]) \in Numbers
  BY NodeChannelAssumption DEF ChannelTypeOK
<1> QED
  BY <1>1 DEF ChannelTypeOK

\* Every step keeps all types.
LEMMA TypeStep ==
    ASSUME TypeOK, Next
    PROVE  TypeOK'
<1> USE NodeConfigAssumption, NodeChannelAssumption, QueryEngineAssumption
<1> USE DEF TypeOK, EngineTypeOK
<1>1. ASSUME NEW q \in Queries, StartQuery(q), UNCHANGED <<sinkVars, printVars>> PROVE TypeOK'
  <2>1. QueriesTypeOK'
    BY <1>1 DEF StartQuery, QueriesTypeOK, QueryStates, SourceStates, PipelineStates
  <2>2. ChannelTypeOK'
    BY <1>1, TaskTypes DEF StartQuery, ChannelTypeOK, Sending
  <2> QED
    BY <1>1, <2>1, <2>2, FrameTypes DEF StartQuery, TypeOK, EngineTypeOK, sinkVars, printVars,
       sourceVars, channelVars, engineVars
<1>2. ASSUME NEW q \in Queries, BeginStop(q), UNCHANGED <<channelVars, sourceVars, sinkVars,
     printVars>> PROVE TypeOK'
  <2>1. QueriesTypeOK'
    BY <1>2 DEF BeginStop, QueriesTypeOK, QueryStates, SourceStates, PipelineStates
  <2> QED
    BY <1>2, <2>1, FrameTypes DEF BeginStop, TypeOK, EngineTypeOK, sinkVars, printVars,
       sourceVars, channelVars, engineVars
<1>3. ASSUME NEW q \in Queries, DropQuery(q), UNCHANGED <<channelVars, sourceVars, sinkVars,
     printVars>> PROVE TypeOK'
  <2>1. QueriesTypeOK'
    BY <1>3 DEF DropQuery, QueriesTypeOK, QueryStates, SourceStates, PipelineStates
  <2> QED
    BY <1>3, <2>1, FrameTypes DEF DropQuery, TypeOK, EngineTypeOK, sinkVars, printVars,
       sourceVars, channelVars, engineVars
<1>4. ASSUME NEW q \in Queries, MainResumes(q), UNCHANGED <<channelVars, sourceVars, sinkVars,
     printVars>> PROVE TypeOK'
  <2>1. QueriesTypeOK'
    BY <1>4 DEF MainResumes, QueriesTypeOK, QueryStates, SourceStates, PipelineStates
  <2> QED
    BY <1>4, <2>1, FrameTypes DEF MainResumes, TypeOK, EngineTypeOK, sinkVars, printVars,
       sourceVars, channelVars, engineVars
<1>5. ASSUME NEW q \in Queries, Continue(q), UNCHANGED <<sinkVars, printVars>> PROVE TypeOK'
  <2>1. QueriesTypeOK'
    BY <1>5 DEF Continue, QueriesTypeOK, QueryStates, SourceStates, PipelineStates
  <2> QED
    BY <1>5, <2>1, FrameTypes DEF Continue, TypeOK, EngineTypeOK, sinkVars, printVars,
       sourceVars, channelVars, engineVars
<1>6. ASSUME NEW q \in Queries, Generate(q), UNCHANGED <<sinkVars, printVars>> PROVE TypeOK'
  <2>1. QueriesTypeOK'
    BY <1>6 DEF Generate, QueriesTypeOK, QueryStates, SourceStates, PipelineStates
  <2>2. WorkersTypeOK' /\ SourcesTypeOK'
    BY <1>6, EmitTypes DEF Generate
  <2> QED
    BY <1>6, <2>1, <2>2, FrameTypes DEF Generate, TypeOK, EngineTypeOK, sinkVars, printVars,
       sourceVars, channelVars, engineVars
<1>7. ASSUME NEW q \in Queries, GeneratorStops(q), UNCHANGED <<sinkVars, printVars>> PROVE TypeOK'
  <2>1. QueriesTypeOK'
    BY <1>7 DEF GeneratorStops, QueriesTypeOK, QueryStates, SourceStates, PipelineStates
  <2> QED
    BY <1>7, <2>1, FrameTypes DEF GeneratorStops, TypeOK, EngineTypeOK, sinkVars, printVars,
       sourceVars, channelVars, engineVars
<1>8. ASSUME NEW q \in Queries, Receive(q), UNCHANGED <<sinkVars, printVars>> PROVE TypeOK'
  <2>1. QueriesTypeOK'
    BY <1>8 DEF Receive, QueriesTypeOK, QueryStates, SourceStates, PipelineStates
  <2>2. WorkersTypeOK' /\ SourcesTypeOK' /\ ChannelTypeOK'
    <3>1. Input[q] \in Channels
      BY <1>8 DEF Receive, Generates
    <3>2. Head(data[Input[q]]) \in Numbers /\ ChannelTypeOK'
      BY <1>8, <3>1, DataTypes DEF Receive
    <3> QED
      BY <1>8, <3>2, EmitTypes DEF Receive
  <2> QED
    BY <1>8, <2>1, <2>2, FrameTypes DEF Receive, TypeOK, EngineTypeOK, sinkVars, printVars,
       sourceVars, channelVars, engineVars
<1>9. ASSUME NEW q \in Queries, ExternalStop(q), UNCHANGED <<sinkVars, printVars>> PROVE TypeOK'
  <2>1. QueriesTypeOK'
    BY <1>9 DEF ExternalStop, QueriesTypeOK, QueryStates, SourceStates, PipelineStates
  <2> QED
    BY <1>9, <2>1, FrameTypes DEF ExternalStop, TypeOK, EngineTypeOK, sinkVars, printVars,
       sourceVars, channelVars, engineVars
<1>10. ASSUME NEW q \in Queries, InternalStop(q), UNCHANGED <<sinkVars, printVars>> PROVE TypeOK'
  <2>1. QueriesTypeOK'
    BY <1>10 DEF InternalStop, QueriesTypeOK, QueryStates, SourceStates, PipelineStates
  <2>2. ChannelTypeOK'
    BY <1>10, TaskTypes DEF InternalStop, ChannelTypeOK, Sending
  <2> QED
    BY <1>10, <2>1, <2>2, FrameTypes DEF InternalStop, TypeOK, EngineTypeOK, sinkVars, printVars,
       sourceVars, channelVars, engineVars
<1>11. ASSUME NEW q \in Queries, StopEarly(q), UNCHANGED <<sourceVars, printVars>> PROVE TypeOK'
  <2>1. QueriesTypeOK'
    BY <1>11 DEF StopEarly, QueriesTypeOK, QueryStates, SourceStates, PipelineStates
  <2> QED
    BY <1>11, <2>1, FrameTypes DEF StopEarly, TypeOK, EngineTypeOK, sinkVars, printVars,
       sourceVars, channelVars, engineVars
<1>12. ASSUME NEW q \in Queries, StopPanics(q), UNCHANGED <<sourceVars, printVars>> PROVE TypeOK'
  <2>1. QueriesTypeOK'
    BY <1>12 DEF StopPanics, QueriesTypeOK, QueryStates, SourceStates, PipelineStates
  <2> QED
    BY <1>12, <2>1, FrameTypes DEF StopPanics, TypeOK, EngineTypeOK, sinkVars, printVars,
       sourceVars, channelVars, engineVars
<1>13. ASSUME NEW q \in Queries, SendFlush(q), UNCHANGED <<sourceVars, printVars>> PROVE TypeOK'
  <2>1. QueriesTypeOK'
    BY <1>13 DEF SendFlush, QueriesTypeOK, QueryStates, SourceStates, PipelineStates
  <2>2. ChannelTypeOK'
    BY <1>13, EnqueueTypes DEF SendFlush, Flush, Message
  <2> QED
    BY <1>13, <2>1, <2>2, FrameTypes DEF SendFlush, TypeOK, EngineTypeOK, sinkVars, printVars,
       sourceVars, channelVars, engineVars
<1>14. ASSUME NEW q \in Queries, FlushConfirmed(q), UNCHANGED <<sourceVars,
     printVars>> PROVE TypeOK'
  <2>1. QueriesTypeOK'
    BY <1>14 DEF FlushConfirmed, QueriesTypeOK, QueryStates, SourceStates, PipelineStates
  <2> QED
    BY <1>14, <2>1, FrameTypes DEF FlushConfirmed, TypeOK, EngineTypeOK, sinkVars, printVars,
       sourceVars, channelVars, engineVars
<1>15. ASSUME NEW q \in Queries, SendTerminate(q), UNCHANGED <<sourceVars, printVars>> PROVE TypeOK'
  <2>1. QueriesTypeOK'
    BY <1>15 DEF SendTerminate, QueriesTypeOK, QueryStates, SourceStates, PipelineStates
  <2>2. ChannelTypeOK'
    BY <1>15, EnqueueTypes DEF SendTerminate, Terminate, Message
  <2> QED
    BY <1>15, <2>1, <2>2, FrameTypes DEF SendTerminate, TypeOK, EngineTypeOK, sinkVars,
       printVars, sourceVars, channelVars, engineVars
<1>16. ASSUME NEW q \in Queries, StopPrint(q), UNCHANGED <<channelVars, sourceVars,
     sinkVars>> PROVE TypeOK'
  <2>1. QueriesTypeOK'
    BY <1>16 DEF StopPrint, QueriesTypeOK, QueryStates, SourceStates, PipelineStates
  <2> QED
    BY <1>16, <2>1, FrameTypes DEF StopPrint, TypeOK, EngineTypeOK, sinkVars, printVars,
       sourceVars, channelVars, engineVars
<1>17. ASSUME NEW n \in Nodes, Exit(n), UNCHANGED <<channelVars, sourceVars, sinkVars,
     printVars>> PROVE TypeOK'
  <2>1. QueriesTypeOK'
    BY <1>17 DEF Exit, QueriesTypeOK, QueryStates, SourceStates, PipelineStates
  <2> QED
    BY <1>17, <2>1, FrameTypes DEF Exit, TypeOK, EngineTypeOK, sinkVars, printVars, sourceVars,
       channelVars, engineVars
<1>18. ASSUME NEW n \in Nodes, PopTask(n), UNCHANGED <<channelVars, sourceVars, sinkVars,
     printVars>> PROVE TypeOK'
  <2>1. WorkersTypeOK'
    <3>1. /\ Head(taskQueue[n]) \in TaskOf(n) /\ Head(taskQueue[n]) \in Task
          /\ Tail(taskQueue[n]) \in Seq(TaskOf(n)) /\ Tail(taskQueue[n]) \in Seq(Task)
          /\ Len(Tail(taskQueue[n])) <= TaskQueueSize
      BY <1>18 DEF PopTask, WorkersTypeOK
    <3> QED
      BY <1>18, <3>1 DEF PopTask, WorkersTypeOK, WorkerStates
  <2> QED
    BY <1>18, <2>1, FrameTypes DEF PopTask, TypeOK, EngineTypeOK, sinkVars, printVars,
       sourceVars, channelVars, engineVars
<1>19. ASSUME NEW n \in Nodes, WorkerResumes(n), UNCHANGED <<channelVars, sourceVars, sinkVars,
     printVars>> PROVE TypeOK'
  <2>1. WorkersTypeOK'
    BY <1>19, IdleTypes DEF WorkerResumes
  <2> QED
    BY <1>19, <2>1, FrameTypes DEF WorkerResumes, TypeOK, EngineTypeOK, sinkVars, printVars,
       sourceVars, channelVars, engineVars
<1>20. ASSUME NEW n \in Nodes, ExecuteClosed(n), UNCHANGED <<sourceVars, printVars>> PROVE TypeOK'
  <2>1. WorkersTypeOK' /\ QueriesTypeOK'
    BY <1>20, FinishTypes DEF ExecuteClosed, Sending, Printing
  <2> QED
    BY <1>20, <2>1, FrameTypes DEF ExecuteClosed, TypeOK, EngineTypeOK, sinkVars, printVars,
       sourceVars, channelVars, engineVars
<1>21. ASSUME NEW n \in Nodes, Execute(n), UNCHANGED <<sourceVars, printVars>> PROVE TypeOK'
  <2>1. WorkersTypeOK'
    BY <1>21, WorkerTypes DEF Execute, GoIdle, WorkerStates, Sending, Printing
  <2>2. ChannelTypeOK'
    BY <1>21, TaskTypes DEF Execute, ChannelTypeOK, Sending
  <2>3. SinkTypeOK'
    <3>1. task[n].query \in Queries /\ task[n].num \in Numbers
      BY <1>21, TaskTypes DEF Execute, Sending
    <3>2. Append(backlog[task[n].query], task[n].num) \in Seq(Numbers)
      BY <3>1 DEF SinkTypeOK
    <3>3. backlog' \in [Queries -> Seq(Numbers)]
      BY <1>21, <3>1, <3>2 DEF Execute, SinkTypeOK
    <3> QED
      BY <1>21, <3>3 DEF Execute, SinkTypeOK
  <2> QED
    BY <1>21, <2>1, <2>2, <2>3, FrameTypes DEF Execute, TypeOK, EngineTypeOK, sinkVars,
       printVars, sourceVars, channelVars, engineVars
<1>22. ASSUME NEW n \in Nodes, Drain(n), UNCHANGED <<sourceVars, printVars>> PROVE TypeOK'
  <2>1. WorkersTypeOK'
    BY <1>22, WorkerTypes DEF Drain, GoIdle, WorkerStates, Sending, Printing
  <2>2. ChannelTypeOK'
    <3>1. task[n].query \in Queries
      BY <1>22, TaskTypes DEF Drain, Sending
    <3>2. Head(backlog[task[n].query]) \in Numbers
      BY <1>22, <3>1 DEF Drain, SinkTypeOK
    <3> QED
      BY <1>22, <3>2, EnqueueTypes DEF Drain, Data, Message
  <2>3. SinkTypeOK'
    BY <1>22, TaskTypes DEF Drain, SinkTypeOK, Sending
  <2> QED
    BY <1>22, <2>1, <2>2, <2>3, FrameTypes DEF Drain, TypeOK, EngineTypeOK, sinkVars, printVars,
       sourceVars, channelVars, engineVars
<1>23. ASSUME NEW n \in Nodes, DrainFull(n), UNCHANGED <<sourceVars, printVars>> PROVE TypeOK'
  <2>1. WorkersTypeOK' /\ QueriesTypeOK'
    BY <1>23, FinishTypes DEF DrainFull, Sending, Printing
  <2> QED
    BY <1>23, <2>1, FrameTypes DEF DrainFull, TypeOK, EngineTypeOK, sinkVars, printVars,
       sourceVars, channelVars, engineVars
<1>24. ASSUME NEW n \in Nodes, DrainPanics(n), UNCHANGED <<sourceVars, printVars>> PROVE TypeOK'
  <2>1. QueriesTypeOK'
    BY <1>24 DEF DrainPanics, QueriesTypeOK, QueryStates, SourceStates, PipelineStates
  <2>2. WorkersTypeOK'
    BY <1>24, WorkerTypes DEF DrainPanics, GoIdle, WorkerStates, Sending, Printing
  <2>3. SinkTypeOK'
    BY <1>24, TaskTypes DEF DrainPanics, SinkTypeOK, Sending
  <2> QED
    BY <1>24, <2>1, <2>2, <2>3, FrameTypes DEF DrainPanics, TypeOK, EngineTypeOK, sinkVars,
       printVars, sourceVars, channelVars, engineVars
<1>25. ASSUME NEW n \in Nodes, SendBuffer(n), UNCHANGED <<sourceVars, printVars>> PROVE TypeOK'
  <2>1. WorkersTypeOK' /\ QueriesTypeOK'
    BY <1>25, FinishTypes DEF SendBuffer, Sending, Printing
  <2>2. ChannelTypeOK'
    BY <1>25, EnqueueTypes, TaskTypes DEF SendBuffer, Sending, Data, Message
  <2>3. SinkTypeOK'
    BY <1>25, TaskTypes DEF SendBuffer, SinkTypeOK, Sending
  <2> QED
    BY <1>25, <2>1, <2>2, <2>3, FrameTypes DEF SendBuffer, TypeOK, EngineTypeOK, sinkVars,
       printVars, sourceVars, channelVars, engineVars
<1>26. ASSUME NEW n \in Nodes, SendFull(n), UNCHANGED <<sourceVars, printVars>> PROVE TypeOK'
  <2>1. WorkersTypeOK' /\ QueriesTypeOK'
    BY <1>26, FinishTypes DEF SendFull, Sending, Printing
  <2>2. SinkTypeOK'
    BY <1>26, TaskTypes DEF SendFull, SinkTypeOK, Sending
  <2> QED
    BY <1>26, <2>1, <2>2, FrameTypes DEF SendFull, TypeOK, EngineTypeOK, sinkVars, printVars,
       sourceVars, channelVars, engineVars
<1>27. ASSUME NEW n \in Nodes, SendClosed(n), UNCHANGED <<sourceVars, printVars>> PROVE TypeOK'
  <2>1. WorkersTypeOK' /\ QueriesTypeOK'
    BY <1>27, FinishTypes DEF SendClosed, Sending, Printing
  <2>2. SinkTypeOK'
    BY <1>27, TaskTypes DEF SendClosed, SinkTypeOK, Sending
  <2> QED
    BY <1>27, <2>1, <2>2, FrameTypes DEF SendClosed, TypeOK, EngineTypeOK, sinkVars, printVars,
       sourceVars, channelVars, engineVars
<1>28. ASSUME NEW n \in Nodes, Track(n), UNCHANGED <<channelVars, sourceVars,
     sinkVars>> PROVE TypeOK'
  <2>1. WorkersTypeOK' /\ QueriesTypeOK'
    BY <1>28, FinishTypes DEF Track, Sending, Printing
  <2>2. PrintTypeOK'
    <3>1. task[n].query \in Queries /\ task[n].num \in Numbers
      BY <1>28, TaskTypes DEF Track, Printing
    <3>2. Add(tracker[task[n].query], task[n].num) \in Tracker
      BY <3>1, AddTypes DEF Numbers, PrintTypeOK
    <3> QED
      BY <1>28, <3>1, <3>2 DEF Track, PrintTypeOK
  <2> QED
    BY <1>28, <2>1, <2>2, FrameTypes DEF Track, TypeOK, EngineTypeOK, sinkVars, printVars,
       sourceVars, channelVars, engineVars
<1>29. ASSUME NEW n \in Nodes, TrackPanics(n), UNCHANGED <<channelVars, sourceVars,
     sinkVars>> PROVE TypeOK'
  <2>1. QueriesTypeOK'
    BY <1>29 DEF TrackPanics, QueriesTypeOK, QueryStates, SourceStates, PipelineStates
  <2>2. WorkersTypeOK'
    BY <1>29, WorkerTypes DEF TrackPanics, GoIdle, WorkerStates, Sending, Printing
  <2> QED
    BY <1>29, <2>1, <2>2, FrameTypes DEF TrackPanics, TypeOK, EngineTypeOK, sinkVars, printVars,
       sourceVars, channelVars, engineVars
<1>30. ASSUME NEW c \in Channels, Deliver(c), UNCHANGED <<engineVars, sourceVars, sinkVars,
     printVars>> PROVE TypeOK'
  <2>1. ChannelTypeOK'
    <3>1. Head(control[c]).num \in Numbers
      BY <1>30, TakeTypes DEF Deliver, Message
    <3>2. /\ Append(data[c], Head(control[c]).num) \in Seq(Numbers)
          /\ Len(Append(data[c], Head(control[c]).num)) <= DataQueueSize
      BY <1>30, <3>1 DEF Deliver, ChannelTypeOK
    <3> QED
      BY <1>30, <3>2, TakeTypes DEF Deliver, ChannelTypeOK
  <2> QED
    BY <1>30, <2>1, FrameTypes DEF Deliver, TypeOK, EngineTypeOK, sinkVars, printVars,
       sourceVars, channelVars, engineVars
<1>31. ASSUME NEW c \in Channels, LoseData(c), UNCHANGED <<engineVars, sourceVars, sinkVars,
     printVars>> PROVE TypeOK'
  <2>1. ChannelTypeOK'
    BY <1>31, TakeTypes DEF LoseData, ChannelTypeOK
  <2> QED
    BY <1>31, <2>1, FrameTypes DEF LoseData, TypeOK, EngineTypeOK, sinkVars, printVars,
       sourceVars, channelVars, engineVars
<1>32. ASSUME NEW c \in Channels, Refuse(c), UNCHANGED <<engineVars, sourceVars, sinkVars,
     printVars>> PROVE TypeOK'
  <2>1. ChannelTypeOK'
    BY <1>32, TakeTypes DEF Refuse, CloseHandler, ChannelTypeOK
  <2> QED
    BY <1>32, <2>1, FrameTypes DEF Refuse, TypeOK, EngineTypeOK, sinkVars, printVars, sourceVars,
       channelVars, engineVars
<1>33. ASSUME NEW c \in Channels, AnswerFlush(c), UNCHANGED <<engineVars, sourceVars, sinkVars,
     printVars>> PROVE TypeOK'
  <2>1. ChannelTypeOK'
    BY <1>33, TakeTypes DEF AnswerFlush, ChannelTypeOK
  <2> QED
    BY <1>33, <2>1, FrameTypes DEF AnswerFlush, TypeOK, EngineTypeOK, sinkVars, printVars,
       sourceVars, channelVars, engineVars
<1>34. ASSUME NEW c \in Channels, HandleTerminate(c), UNCHANGED <<engineVars, sourceVars,
     sinkVars, printVars>> PROVE TypeOK'
  <2>1. ChannelTypeOK'
    BY <1>34, TakeTypes DEF HandleTerminate, CloseHandler, ChannelTypeOK
  <2> QED
    BY <1>34, <2>1, FrameTypes DEF HandleTerminate, TypeOK, EngineTypeOK, sinkVars, printVars,
       sourceVars, channelVars, engineVars
<1>35. ASSUME NEW c \in Channels, ReadEof(c), UNCHANGED <<engineVars, sourceVars, sinkVars,
     printVars>> PROVE TypeOK'
  <2>1. ChannelTypeOK'
    BY <1>35, TaskTypes DEF ReadEof, CloseHandler, ChannelTypeOK, Sending
  <2> QED
    BY <1>35, <2>1, FrameTypes DEF ReadEof, TypeOK, EngineTypeOK, sinkVars, printVars,
       sourceVars, channelVars, engineVars
<1>36. ASSUME NEW c \in Channels, CancelSource(c), UNCHANGED <<engineVars, sourceVars, sinkVars,
     printVars>> PROVE TypeOK'
  <2>1. ChannelTypeOK'
    BY <1>36, TaskTypes DEF CancelSource, ChannelTypeOK, Sending
  <2> QED
    BY <1>36, <2>1, FrameTypes DEF CancelSource, TypeOK, EngineTypeOK, sinkVars, printVars,
       sourceVars, channelVars, engineVars
<1>37. ASSUME NEW c \in Channels, DropFlush(c), UNCHANGED <<engineVars, sourceVars, sinkVars,
     printVars>> PROVE TypeOK'
  <2>1. ChannelTypeOK'
    BY <1>37, TakeTypes DEF DropFlush, ChannelTypeOK
  <2> QED
    BY <1>37, <2>1, FrameTypes DEF DropFlush, TypeOK, EngineTypeOK, sinkVars, printVars,
       sourceVars, channelVars, engineVars
<1>38. ASSUME NEW c \in Channels, Reconnect(c), UNCHANGED <<engineVars, sourceVars, sinkVars,
     printVars>> PROVE TypeOK'
  <2>1. ChannelTypeOK'
    BY <1>38 DEF Reconnect, ChannelTypeOK
  <2> QED
    BY <1>38, <2>1, FrameTypes DEF Reconnect, TypeOK, EngineTypeOK, sinkVars, printVars,
       sourceVars, channelVars, engineVars
<1>39. ASSUME NEW c \in Channels, Strand(c), UNCHANGED <<engineVars, sourceVars, sinkVars,
     printVars>> PROVE TypeOK'
  <2>1. ChannelTypeOK'
    BY <1>39 DEF Strand, ChannelTypeOK
  <2> QED
    BY <1>39, <2>1, FrameTypes DEF Strand, TypeOK, EngineTypeOK, sinkVars, printVars,
       sourceVars, channelVars, engineVars
<1> QED
  BY <1>1, <1>2, <1>3, <1>4, <1>5, <1>6, <1>7, <1>8, <1>9, <1>10, <1>11, <1>12, <1>13, <1>14,
     <1>15, <1>16, <1>17, <1>18, <1>19, <1>20, <1>21, <1>22, <1>23, <1>24, <1>25, <1>26, <1>27,
     <1>28, <1>29, <1>30, <1>31, <1>32, <1>33, <1>34, <1>35, <1>36, <1>37, <1>38, <1>39 DEF Next, MainStep,
     SourceThread, SourceStep, PipelineStops, SinkStops, WorkerStep, SinkExecutes, Serve, Fail

\* All types hold in the initial state.
LEMMA TypeInit ==
    ASSUME Init
    PROVE  TypeOK
<1> USE DEF Init
<1>1. EngineTypeOK
  BY QueryEngineAssumption DEF EngineInit, EngineTypeOK, QueriesTypeOK, WorkersTypeOK,
     QueryStates, SourceStates, PipelineStates, WorkerStates
<1>2. ChannelTypeOK
  BY NodeChannelAssumption DEF ChannelInit, ChannelTypeOK
<1>3. SourcesTypeOK
  BY DEF SourcesInit, SourcesTypeOK
<1>4. SinkTypeOK
  BY DEF SinkInit, SinkTypeOK
<1>5. PrintTypeOK
  BY EmptyTracks DEF PrintInit, PrintTypeOK, Tracks
<1> QED
  BY <1>1, <1>2, <1>3, <1>4, <1>5 DEF TypeOK

\* A step that changes nothing keeps them.
LEMMA TypeStutters ==
    ASSUME TypeOK, UNCHANGED vars
    PROVE  TypeOK'
BY FrameTypes DEF vars, engineVars, TypeOK, EngineTypeOK

\* The variables keep their types: no queue grows past its capacity, and a worker
\* only ever executes tasks of queries of its own node (engine.rs:47-66).
THEOREM TypeCorrect == Spec => []TypeOK
<1>1. TypeOK /\ [Next]_vars => TypeOK'
  BY TypeStep, TypeStutters
<1> QED
  BY TypeInit, <1>1, PTL DEF Spec
=============================================================================
