----------------------------- MODULE QueryEngine -----------------------------
(***************************************************************************)
(* The query engine of the test node: the task queue, the one worker that  *)
(* empties it, and the main thread that stops queries.  A query's node is  *)
(* an Arc held by the query, by the thread of its source and by each task; *)
(* whoever drops the last of them runs the node's stop.                    *)
(***************************************************************************)
EXTENDS NodeConfig

CONSTANT TaskQueueSize      \* capacity of the ArrayQueue

ASSUME QueryEngineAssumption == TaskQueueSize \in Nat \ {0}

VARIABLES
    queryState,     \* what the main thread has done with the query
    source,         \* the thread of the query's source
    taskQueue,      \* the queue of a node
    worker,         \* the worker of a node
    task,           \* the task it executes
    pipeline,       \* how far the stop of the query's node has come
    up              \* whether the process of a node runs

engineVars == <<queryState, source, taskQueue, worker, task, pipeline, up>>

\* "stopping": joins the source's thread; "dropping": runs the node's stop.
QueryStates == {"new", "running", "stopping", "dropping", "stopped"}

\* "check": about to read the stop flag; "emit": past it.
SourceStates == {"none", "check", "emit", "ended"}

\* "drain", "send": in NetworkSink::execute; "stop": in a node's stop; "dead": panicked.
WorkerStates == {"idle", "execute", "drain", "send", "stop", "dead"}

PipelineStates == {"open", "flush", "wait", "terminate", "done"}

QueriesTypeOK ==
    /\ queryState \in [Queries -> QueryStates]
    /\ source \in [Queries -> SourceStates]
    /\ pipeline \in [Queries -> PipelineStates]
    /\ up \in [Nodes -> BOOLEAN]

WorkersTypeOK ==
    /\ taskQueue \in [Nodes -> Seq(Task)]
    /\ worker \in [Nodes -> WorkerStates]
    /\ task \in [Nodes -> Task \cup {NoTask}]
    /\ \A n \in Nodes :
          /\ taskQueue[n] \in Seq(TaskOf(n))
          /\ Len(taskQueue[n]) <= TaskQueueSize
          /\ worker[n] # "idle" => task[n] \in TaskOf(n)

EngineTypeOK == QueriesTypeOK /\ WorkersTypeOK

EngineInit ==
    /\ queryState = [q \in Queries |-> "new"]
    /\ source = [q \in Queries |-> "none"]
    /\ taskQueue = [n \in Nodes |-> <<>>]
    /\ worker = [n \in Nodes |-> "idle"]
    /\ task = [n \in Nodes |-> NoTask]
    /\ pipeline = [q \in Queries |-> "open"]
    /\ up = [n \in Nodes |-> TRUE]

MainIdle(n) == \A q \in Queries : NodeOf[q] = n => queryState[q] \notin {"stopping", "dropping"}

\* The stop flag of the source's thread.
StopRequested(q) == queryState[q] # "running"

Queued(q) == \E i \in DOMAIN taskQueue[NodeOf[q]] : taskQueue[NodeOf[q]][i].query = q

Executing(q) ==
    /\ worker[NodeOf[q]] \in {"execute", "drain", "send"}
    /\ task[NodeOf[q]].query = q

----------------------------------------------------------------------------
(* The main thread. *)

BeginStop(q) ==
    /\ queryState[q] = "running"
    /\ MainIdle(NodeOf[q])
    /\ queryState' = [queryState EXCEPT ![q] = "stopping"]
    /\ UNCHANGED <<source, taskQueue, worker, task, pipeline, up>>

\* The thread is joined and the query dropped; a task may still hold its node.
DropQuery(q) ==
    /\ queryState[q] = "stopping"
    /\ source[q] = "ended"
    /\ IF Queued(q) \/ Executing(q)
       THEN /\ queryState' = [queryState EXCEPT ![q] = "stopped"]
            /\ UNCHANGED pipeline
       ELSE /\ queryState' = [queryState EXCEPT ![q] = "dropping"]
            /\ pipeline' = [pipeline EXCEPT ![q] = "flush"]
    /\ UNCHANGED <<source, taskQueue, worker, task, up>>

MainResumes(q) ==
    /\ queryState[q] = "dropping"
    /\ pipeline[q] = "done"
    /\ queryState' = [queryState EXCEPT ![q] = "stopped"]
    /\ UNCHANGED <<source, taskQueue, worker, task, pipeline, up>>

\* The commands are done: main returns, and with it the process.
Exit(n) ==
    /\ MainIdle(n)
    /\ up' = [up EXCEPT ![n] = FALSE]
    /\ UNCHANGED <<queryState, source, taskQueue, worker, task, pipeline>>

----------------------------------------------------------------------------
(* The worker. *)

PopTask(n) ==
    /\ worker[n] = "idle"
    /\ taskQueue[n] # <<>>
    /\ worker' = [worker EXCEPT ![n] = "execute"]
    /\ task' = [task EXCEPT ![n] = Head(taskQueue[n])]
    /\ taskQueue' = [taskQueue EXCEPT ![n] = Tail(@)]
    /\ UNCHANGED <<queryState, source, pipeline, up>>

\* The task the worker executes is all that holds the node of q.
LastReference(q) == queryState[q] = "stopped" /\ ~Queued(q)

GoIdle(n) ==
    /\ worker' = [worker EXCEPT ![n] = "idle"]
    /\ task' = [task EXCEPT ![n] = NoTask]

\* The end of a task, whose drop may be the one that stops the node.
FinishTask(n) ==
    IF LastReference(task[n].query)
    THEN /\ worker' = [worker EXCEPT ![n] = "stop"]
         /\ pipeline' = [pipeline EXCEPT ![task[n].query] = "flush"]
         /\ UNCHANGED task
    ELSE GoIdle(n) /\ UNCHANGED pipeline

WorkerResumes(n) ==
    /\ worker[n] = "stop"
    /\ pipeline[task[n].query] = "done"
    /\ GoIdle(n)
    /\ UNCHANGED <<queryState, source, taskQueue, pipeline, up>>
=============================================================================
