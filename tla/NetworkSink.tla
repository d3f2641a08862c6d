----------------------------- MODULE NetworkSink -----------------------------
(***************************************************************************)
(* NetworkSink: execute puts a buffer into the channel's queue, or into a  *)
(* backlog while the queue is full; stop flushes and terminates the channel.*)
(* Each try_send is a step, and the worker's state says which is next.     *)
(***************************************************************************)
EXTENDS QueryEngine, NodeChannel

VARIABLES
    backlog,    \* NetworkSink::buffer
    closed,     \* NetworkSink::closed
    sent        \* history: the numbers it has put into the channel's queue

sinkVars == <<backlog, closed, sent>>

SinkTypeOK ==
    /\ backlog \in [Queries -> Seq(Numbers)]
    /\ closed \in [Queries -> BOOLEAN]
    /\ sent \in [Queries -> SUBSET Numbers]

SinkInit ==
    /\ backlog = [q \in Queries |-> <<>>]
    /\ closed = [q \in Queries |-> FALSE]
    /\ sent = [q \in Queries |-> {}]

\* The worker of n is at this point of execute, for a query with a NetworkSink.
Sending(n, state) ==
    /\ worker[n] = state
    /\ ~Prints(task[n].query)

ExecuteClosed(n) ==
    /\ Sending(n, "execute")
    /\ closed[task[n].query]
    /\ FinishTask(n)
    /\ UNCHANGED <<queryState, source, taskQueue, up, channelVars, sinkVars>>

\* Mutant of Execute: the backlog is left alone.
ExecuteSkipsBacklog(n) ==
    LET q == task[n].query
        c == Output[q]
    IN  /\ Sending(n, "execute")
        /\ ~closed[q]
        /\ handler' = [handler EXCEPT ![c] = IF @ = "none" THEN "open" ELSE @]
        /\ worker' = [worker EXCEPT ![n] = "send"]
        /\ UNCHANGED <<queryState, source, taskQueue, task, pipeline, up, sinkVars,
                       control, reply, offer, data, link>>

\* The channel is registered with the first buffer; a new buffer goes behind the backlog.
Execute(n) ==
    LET q == task[n].query
        c == Output[q]
    IN  /\ Sending(n, "execute")
        /\ ~closed[q]
        /\ handler' = [handler EXCEPT ![c] = IF @ = "none" THEN "open" ELSE @]
        /\ IF backlog[q] = <<>>
           THEN /\ worker' = [worker EXCEPT ![n] = "send"]
                /\ UNCHANGED backlog
           ELSE /\ worker' = [worker EXCEPT ![n] = "drain"]
                /\ backlog' = [backlog EXCEPT ![q] = Append(@, task[n].num)]
        /\ UNCHANGED <<queryState, source, taskQueue, task, pipeline, up, closed, sent,
                       control, reply, offer, data, link>>

\* Mutant of Drain: the backlog is emptied from its end.
DrainNewest(n) ==
    LET q == task[n].query
        num == backlog[q][Len(backlog[q])]
    IN  /\ Sending(n, "drain")
        /\ backlog[q] # <<>>
        /\ HasRoom(Output[q])
        /\ Enqueue(Output[q], Data(num))
        /\ backlog' = [backlog EXCEPT ![q] = SubSeq(@, 1, Len(@) - 1)]
        /\ sent' = [sent EXCEPT ![q] = @ \cup {num}]
        /\ worker' = [worker EXCEPT ![n] = IF Len(backlog[q]) = 1 THEN "send" ELSE "drain"]
        /\ UNCHANGED <<queryState, source, taskQueue, task, pipeline, up, closed>>

\* One try_send of the loop over the backlog.  Once it is empty, execute goes on
\* to send the buffer itself, which was at its end, a second time.
Drain(n) ==
    LET q == task[n].query
    IN  /\ Sending(n, "drain")
        /\ backlog[q] # <<>>
        /\ HasRoom(Output[q])
        /\ Enqueue(Output[q], Data(Head(backlog[q])))
        /\ backlog' = [backlog EXCEPT ![q] = Tail(@)]
        /\ sent' = [sent EXCEPT ![q] = @ \cup {Head(backlog[q])}]
        /\ worker' = [worker EXCEPT ![n] = IF Tail(backlog[q]) = <<>> THEN "send" ELSE "drain"]
        /\ UNCHANGED <<queryState, source, taskQueue, task, pipeline, up, closed>>

\* Mutant of DrainFull: the buffer that found no room is not put back.
DrainFullDrops(n) ==
    LET q == task[n].query
    IN  /\ Sending(n, "drain")
        /\ IsFull(Output[q])
        /\ backlog' = [backlog EXCEPT ![q] = Tail(@)]
        /\ FinishTask(n)
        /\ UNCHANGED <<queryState, source, taskQueue, up, channelVars, closed, sent>>

\* The buffer is put back at the front.
DrainFull(n) ==
    /\ Sending(n, "drain")
    /\ IsFull(Output[task[n].query])
    /\ FinishTask(n)
    /\ UNCHANGED <<queryState, source, taskQueue, up, channelVars, sinkVars>>

\* "Channel should not be closed": the panic ends the only worker of the node.
\* Unwinding may drop the node, whose stop finds the channel closed and returns.
DrainPanics(n) ==
    LET q == task[n].query
    IN  /\ Sending(n, "drain")
        /\ backlog[q] # <<>>
        /\ IsClosed(Output[q])
        /\ backlog' = [backlog EXCEPT ![q] = Tail(@)]
        /\ worker' = [worker EXCEPT ![n] = "dead"]
        /\ pipeline' = [pipeline EXCEPT ![q] = IF LastReference(q) THEN "done" ELSE @]
        /\ UNCHANGED <<queryState, source, taskQueue, task, up, channelVars, closed, sent>>

SendBuffer(n) ==
    LET q == task[n].query
    IN  /\ Sending(n, "send")
        /\ HasRoom(Output[q])
        /\ Enqueue(Output[q], Data(task[n].num))
        /\ sent' = [sent EXCEPT ![q] = @ \cup {task[n].num}]
        /\ FinishTask(n)
        /\ UNCHANGED <<queryState, source, taskQueue, up, backlog, closed>>

\* Mutant of SendFull: the buffer that finds no room is dropped.
SendFullDrops(n) ==
    /\ Sending(n, "send")
    /\ IsFull(Output[task[n].query])
    /\ FinishTask(n)
    /\ UNCHANGED <<queryState, source, taskQueue, up, channelVars, sinkVars>>

SendFull(n) ==
    LET q == task[n].query
    IN  /\ Sending(n, "send")
        /\ IsFull(Output[q])
        /\ backlog' = [backlog EXCEPT ![q] = Append(@, task[n].num)]
        /\ FinishTask(n)
        /\ UNCHANGED <<queryState, source, taskQueue, up, channelVars, closed, sent>>

SendClosed(n) ==
    LET q == task[n].query
    IN  /\ Sending(n, "send")
        /\ IsClosed(Output[q])
        /\ closed' = [closed EXCEPT ![q] = TRUE]
        /\ FinishTask(n)
        /\ UNCHANGED <<queryState, source, taskQueue, up, channelVars, backlog, sent>>

----------------------------------------------------------------------------
(* stop, on the main thread or on the worker.  What is in the backlog is lost. *)

StopAt(q, stage) == ~Prints(q) /\ pipeline[q] = stage

\* Mutant of StopEarly: a flush whose oneshot was dropped is waited for.
StopEarlyUnlessDropped(q) ==
    /\ \/ StopAt(q, "flush") /\ (closed[q] \/ IsClosed(Output[q]))
       \/ StopAt(q, "terminate") /\ IsClosed(Output[q])
    /\ pipeline' = [pipeline EXCEPT ![q] = "done"]
    /\ UNCHANGED <<queryState, source, taskQueue, worker, task, up, channelVars, sinkVars>>

\* Nothing to close, or send_blocking or the flush returned an error.
StopEarly(q) ==
    /\ \/ StopAt(q, "flush") /\ (closed[q] \/ IsClosed(Output[q]))
       \/ StopAt(q, "wait") /\ reply[Output[q]] = "dropped"
       \/ StopAt(q, "terminate") /\ IsClosed(Output[q])
    /\ pipeline' = [pipeline EXCEPT ![q] = "done"]
    /\ UNCHANGED <<queryState, source, taskQueue, worker, task, up, channelVars, sinkVars>>

\* A sink that was never executed has no queue: the unwrap on the main thread
\* panics, and the process ends.
StopPanics(q) ==
    /\ StopAt(q, "flush")
    /\ handler[Output[q]] = "none"
    /\ up' = [up EXCEPT ![NodeOf[q]] = FALSE]
    /\ UNCHANGED <<queryState, source, taskQueue, worker, task, pipeline, channelVars, sinkVars>>

\* Mutant of SendFlush: the flush is put into the queue without waiting for room.
SendFlushAtOnce(q) ==
    /\ StopAt(q, "flush")
    /\ ~closed[q]
    /\ handler[Output[q]] = "open"
    /\ Enqueue(Output[q], Flush)
    /\ pipeline' = [pipeline EXCEPT ![q] = "wait"]
    /\ UNCHANGED <<queryState, source, taskQueue, worker, task, up, sinkVars>>

SendFlush(q) ==
    /\ StopAt(q, "flush")
    /\ ~closed[q]
    /\ HasRoom(Output[q])
    /\ Enqueue(Output[q], Flush)
    /\ pipeline' = [pipeline EXCEPT ![q] = "wait"]
    /\ UNCHANGED <<queryState, source, taskQueue, worker, task, up, sinkVars>>

FlushConfirmed(q) ==
    /\ StopAt(q, "wait")
    /\ reply[Output[q]] = "done"
    /\ pipeline' = [pipeline EXCEPT ![q] = "terminate"]
    /\ UNCHANGED <<queryState, source, taskQueue, worker, task, up, channelVars, sinkVars>>

SendTerminate(q) ==
    /\ StopAt(q, "terminate")
    /\ HasRoom(Output[q])
    /\ Enqueue(Output[q], Terminate)
    /\ pipeline' = [pipeline EXCEPT ![q] = "done"]
    /\ UNCHANGED <<queryState, source, taskQueue, worker, task, up, sinkVars>>

SinkExecutes(n) ==
    \/ ExecuteClosed(n)
    \/ Execute(n)
    \/ Drain(n)
    \/ DrainFull(n)
    \/ DrainPanics(n)
    \/ SendBuffer(n)
    \/ SendFull(n)
    \/ SendClosed(n)

SinkStops(q) ==
    \/ StopEarly(q)
    \/ StopPanics(q)
    \/ SendFlush(q)
    \/ FlushConfirmed(q)
    \/ SendTerminate(q)
=============================================================================
