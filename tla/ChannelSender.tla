---------------------------- MODULE ChannelSender ----------------------------
(***************************************************************************)
(* The sending end of a data channel: the application that fills the       *)
(* channel's queue, and the ChannelHandler of network/src/sender.rs that   *)
(* empties it.  run() and flush() wait in a select! whose branches are the *)
(* actions below; the branch that completes first cancels the others.      *)
(***************************************************************************)
EXTENDS DataStream

CONSTANTS
    QueueSize,      \* capacity of the channel's queue
    MaxPendingAcks, \* MAX_PENDING_ACKS
    BufferedFrames, \* frames the FramedWrite holds before feed() has to write them out
    Resends         \* whether the application sends a buffer twice

ASSUME ChannelSenderAssumption ==
    /\ QueueSize \in Nat \ {0}
    /\ MaxPendingAcks \in Nat \ {0}
    /\ BufferedFrames \in Nat \ {0}
    /\ Resends \in BOOLEAN

VARIABLES
    app,            \* the application: what it does next
    accepted,       \* how many buffers it has put into the queue
    queue,          \* the queue of ChannelControlMessage
    handler,        \* the handler: where it waits, or why there is none
    pendingWrites,  \* ChannelHandler::pending_writes
    waitForAck,     \* keys of ChannelHandler::wait_for_ack
    writeBuffer,    \* frames in the FramedWrite, not yet written to the socket
    feeding,        \* the buffer whose feed() waits for the socket, 0 for none
    taken,          \* history: the last buffer the handlers took from the queue
    lost,           \* history: buffers dropped with a handler
    confirmed       \* history: accepted when a flush was last confirmed

channelVars == <<app, accepted, queue, handler, pendingWrites, waitForAck, writeBuffer,
                 feeding, taken, lost, confirmed>>

\* "retry": no handler, one is to be created on a new connection.
\* "run": in the select! of run.  "flush", "select": at the top of the loop of
\* flush, and in its select!.  "terminate": sending Close.  "closed": no handler any more.
HandlerStates == {"retry", "run", "flush", "select", "terminate", "closed"}
Running == {"run", "flush", "select", "terminate"}

\* "flushing": waits for the flush it asked for; "done": has dropped the queue.
AppStates == {"sending", "flushing", "done"}

\* "FlushOnly": a Flush whose oneshot nobody waits for.
Message ==
    [typ : {"Data"}, seq : Tuples] \cup [typ : {"Flush", "FlushOnly", "Terminate"}, seq : {0}]

ChannelSenderTypeOK ==
    /\ app \in AppStates
    /\ accepted \in 0 .. MaxTuple
    /\ queue \in Seq(Message)
    /\ handler \in HandlerStates
    /\ pendingWrites \in Seq(Tuples)
    /\ waitForAck \in SUBSET Tuples
    /\ writeBuffer \in Seq(Request)
    /\ feeding \in waitForAck \cup {0}
    /\ taken \in 0 .. MaxTuple
    /\ lost \in SUBSET Tuples
    /\ confirmed \in 0 .. MaxTuple

ChannelSenderInit ==
    /\ app = "sending"
    /\ accepted = 0
    /\ queue = <<>>
    /\ handler = "retry"
    /\ pendingWrites = <<>>
    /\ waitForAck = {}
    /\ writeBuffer = <<>>
    /\ feeding = 0
    /\ taken = 0
    /\ lost = {}
    /\ confirmed = 0

----------------------------------------------------------------------------
(* The application: NetworkSink, or the C++ side of the bridge. *)

\* async_channel: a send succeeds while a listener exists and there is room.
Enqueue(m) ==
    /\ handler # "closed"
    /\ Len(queue) < QueueSize
    /\ queue' = Append(queue, m)

SendData ==
    /\ app = "sending"
    /\ accepted < MaxTuple
    /\ Enqueue(Data(accepted + 1))
    /\ accepted' = accepted + 1
    /\ UNCHANGED <<streamVars, app, handler, pendingWrites, waitForAck, writeBuffer,
                   feeding, taken, lost, confirmed>>

\* NetworkSink::execute, having emptied its backlog with the new buffer at its
\* end, sends that buffer once more (test-node/src/main.rs:285-315).
SendTwice ==
    /\ Resends
    /\ app = "sending"
    /\ accepted < MaxTuple
    /\ handler # "closed"
    /\ Len(queue) + 2 <= QueueSize
    /\ queue' = queue \o <<Data(accepted + 1), Data(accepted + 1)>>
    /\ accepted' = accepted + 1
    /\ UNCHANGED <<streamVars, app, handler, pendingWrites, waitForAck, writeBuffer,
                   feeding, taken, lost, confirmed>>

SendFlush ==
    /\ app = "sending"
    /\ Enqueue([typ |-> "Flush", seq |-> 0])
    /\ app' = "flushing"
    /\ UNCHANGED <<streamVars, accepted, handler, pendingWrites, waitForAck, writeBuffer,
                   feeding, taken, lost, confirmed>>

\* flush_channel of the bridge: the receiving half of its oneshot is dropped at once.
FlushChannel ==
    /\ app = "sending"
    /\ Enqueue([typ |-> "FlushOnly", seq |-> 0])
    /\ UNCHANGED <<streamVars, app, accepted, handler, pendingWrites, waitForAck, writeBuffer,
                   feeding, taken, lost, confirmed>>

\* After a flush the application terminates the channel and drops the queue.
SendTerminate ==
    /\ app = "sending"
    /\ Enqueue([typ |-> "Terminate", seq |-> 0])
    /\ app' = "done"
    /\ UNCHANGED <<streamVars, accepted, handler, pendingWrites, waitForAck, writeBuffer,
                   feeding, taken, lost, confirmed>>

\* The queue is dropped without Terminate: a sink that is stopped after its
\* flush failed, or that found the queue closed.
DropQueue ==
    /\ app = "sending"
    /\ app' = "done"
    /\ UNCHANGED <<streamVars, accepted, queue, handler, pendingWrites, waitForAck,
                   writeBuffer, feeding, taken, lost, confirmed>>

----------------------------------------------------------------------------
(* The handler. *)

\* The flush the handler is busy with is the one the application waits for.
Awaited ==
    /\ handler \in {"flush", "select"}
    /\ app = "flushing"
    /\ \A i \in DOMAIN queue : queue[i].typ # "Flush"

\* Mutant of EndHandler: the next handler inherits the feed() of this one.
EndHandlerKeepsFeed(next) ==
    /\ handler' = next
    /\ lost' = lost \cup Range(pendingWrites) \cup waitForAck
    /\ pendingWrites' = <<>>
    /\ waitForAck' = {}
    /\ writeBuffer' = <<>>
    /\ app' = IF Awaited THEN "sending" ELSE app
    /\ UNCHANGED <<accepted, queue, feeding, taken, confirmed>>

\* Mutant of EndHandler: the next handler inherits the frames not written out.
EndHandlerKeepsFrames(next) ==
    /\ handler' = next
    /\ lost' = lost \cup Range(pendingWrites) \cup waitForAck
    /\ pendingWrites' = <<>>
    /\ waitForAck' = {}
    /\ feeding' = 0
    /\ app' = IF Awaited THEN "sending" ELSE app
    /\ UNCHANGED <<accepted, queue, writeBuffer, taken, confirmed>>

\* Mutant of EndHandler: what is not acknowledged is sent again.
EndHandlerRequeues(next) ==
    /\ handler' = next
    /\ pendingWrites' = SetToSortSeq(waitForAck, LAMBDA m, n : m < n) \o pendingWrites
    /\ waitForAck' = {}
    /\ writeBuffer' = <<>>
    /\ feeding' = 0
    /\ app' = IF Awaited THEN "sending" ELSE app
    /\ UNCHANGED <<accepted, queue, taken, lost, confirmed>>

\* The handler ends and what it holds goes with it; a flush it was busy with
\* is told so.  The queue keeps its messages, also when no handler will come:
\* a flush among them is then never answered.
EndHandler(next) ==
    /\ handler' = next
    /\ lost' = lost \cup Range(pendingWrites) \cup waitForAck
    /\ pendingWrites' = <<>>
    /\ waitForAck' = {}
    /\ writeBuffer' = <<>>
    /\ feeding' = 0
    /\ app' = IF Awaited THEN "sending" ELSE app
    /\ UNCHANGED <<accepted, queue, taken, confirmed>>

\* A branch of the select! completes: a feed() in progress is dropped, its
\* buffer remaining in wait_for_ack; flush goes back to the top of its loop.
BranchDone ==
    /\ feeding' = 0
    /\ handler' = IF handler = "select" THEN "flush" ELSE handler

HandleData ==
    /\ handler = "run"
    /\ queue # <<>>
    /\ Head(queue).typ = "Data"
    /\ pendingWrites' = Append(pendingWrites, Head(queue).seq)
    /\ taken' = Head(queue).seq
    /\ queue' = Tail(queue)
    /\ BranchDone
    /\ UNCHANGED <<streamVars, app, accepted, waitForAck, writeBuffer, lost, confirmed>>

HandleFlush ==
    /\ handler = "run"
    /\ queue # <<>>
    /\ Head(queue).typ \in {"Flush", "FlushOnly"}
    /\ handler' = "flush"
    /\ feeding' = 0
    /\ queue' = Tail(queue)
    /\ UNCHANGED <<streamVars, app, accepted, pendingWrites, waitForAck, writeBuffer,
                   taken, lost, confirmed>>

HandleTerminate ==
    /\ handler = "run"
    /\ queue # <<>>
    /\ Head(queue).typ = "Terminate"
    /\ handler' = "terminate"
    /\ feeding' = 0
    /\ queue' = Tail(queue)
    /\ UNCHANGED <<streamVars, app, accepted, pendingWrites, waitForAck, writeBuffer,
                   taken, lost, confirmed>>

\* queue.recv() fails once the queue is dropped and drained: Cancelled.
QueueDropped ==
    /\ handler = "run"
    /\ queue = <<>>
    /\ app = "done"
    /\ EndHandler("closed")
    /\ UNCHANGED streamVars

\* send_pending up to feed(): the buffer is put into wait_for_ack first.  With
\* room in the FramedWrite, feed() completes at once.
SendPending ==
    /\ handler \in {"run", "select"}
    /\ feeding = 0
    /\ pendingWrites # <<>>
    /\ Cardinality(waitForAck) < MaxPendingAcks
    /\ waitForAck' = waitForAck \cup {Head(pendingWrites)}
    /\ pendingWrites' = Tail(pendingWrites)
    /\ IF Len(writeBuffer) < BufferedFrames
       THEN /\ writeBuffer' = Append(writeBuffer, Data(Head(pendingWrites)))
            /\ BranchDone
       ELSE /\ feeding' = Head(pendingWrites)
            /\ UNCHANGED <<writeBuffer, handler>>
    /\ UNCHANGED <<streamVars, app, accepted, queue, taken, lost, confirmed>>

\* The rest of a feed() that had to wait until the FramedWrite was written out.
FinishFeed ==
    /\ feeding # 0
    /\ writeBuffer = <<>>
    /\ writeBuffer' = <<Data(feeding)>>
    /\ BranchDone
    /\ UNCHANGED <<streamVars, app, accepted, queue, pendingWrites, waitForAck, taken,
                   lost, confirmed>>

\* A feed() that had to wait fails: its buffer is the first to be written again,
\* and the handler goes on until it sees the error itself.
FeedFails ==
    /\ feeding # 0
    /\ pendingWrites' = <<feeding>> \o pendingWrites
    /\ waitForAck' = waitForAck \ {feeding}
    /\ BranchDone
    /\ UNCHANGED <<streamVars, app, accepted, queue, writeBuffer, taken, lost, confirmed>>

\* The socket takes a frame: for a feed() that waits, for flush, or for Close.
WriteOut ==
    /\ handler \in {"flush", "terminate"} \/ feeding # 0
    /\ writeBuffer # <<>>
    /\ Len(toReceiver) < StreamCapacity
    /\ toReceiver' = Written(toReceiver, Head(writeBuffer))
    /\ writeBuffer' = Tail(writeBuffer)
    /\ UNCHANGED <<link, toSender, app, accepted, queue, handler, pendingWrites,
                   waitForAck, feeding, taken, lost, confirmed>>

\* Mutant of AwaitResponse: flush does not write out what feed() left.
AwaitUnwritten ==
    /\ handler = "flush"
    /\ pendingWrites # <<>> \/ waitForAck # {}
    /\ handler' = "select"
    /\ UNCHANGED <<streamVars, app, accepted, queue, pendingWrites, waitForAck,
                   writeBuffer, feeding, taken, lost, confirmed>>

\* flush: everything is written out, and not everything is acknowledged.
AwaitResponse ==
    /\ handler = "flush"
    /\ pendingWrites # <<>> \/ waitForAck # {}
    /\ writeBuffer = <<>>
    /\ handler' = "select"
    /\ UNCHANGED <<streamVars, app, accepted, queue, pendingWrites, waitForAck,
                   writeBuffer, feeding, taken, lost, confirmed>>

\* flush returns, and the application is told, where it waits.
FlushDone ==
    /\ handler = "flush"
    /\ pendingWrites = <<>>
    /\ waitForAck = {}
    /\ handler' = "run"
    /\ IF Awaited
       THEN app' = "sending" /\ confirmed' = accepted
       ELSE UNCHANGED <<app, confirmed>>
    /\ UNCHANGED <<streamVars, accepted, queue, pendingWrites, waitForAck, writeBuffer,
                   feeding, taken, lost>>

HandleAck ==
    /\ handler \in {"run", "select"}
    /\ toSender # <<>>
    /\ Head(toSender).typ = "Ack"
    /\ Head(toSender).seq \in waitForAck
    /\ waitForAck' = waitForAck \ {Head(toSender).seq}
    /\ toSender' = Tail(toSender)
    /\ BranchDone
    /\ UNCHANGED <<link, toReceiver, app, accepted, queue, pendingWrites, writeBuffer,
                   taken, lost, confirmed>>

\* Mutant of HandleUnknownAck: the buffer is sent once more.
SendUnknownAgain ==
    /\ handler \in {"run", "select"}
    /\ toSender # <<>>
    /\ Head(toSender).typ = "Ack"
    /\ Head(toSender).seq \notin waitForAck
    /\ pendingWrites' = Append(pendingWrites, Head(toSender).seq)
    /\ toSender' = Tail(toSender)
    /\ BranchDone
    /\ UNCHANGED <<link, toReceiver, app, accepted, queue, waitForAck, writeBuffer,
                   taken, lost, confirmed>>

\* A protocol error counts as a lost connection.
HandleUnknownAck ==
    /\ handler \in {"run", "select"}
    /\ toSender # <<>>
    /\ Head(toSender).typ = "Ack"
    /\ Head(toSender).seq \notin waitForAck
    /\ toSender' = Tail(toSender)
    /\ EndHandler("retry")
    /\ UNCHANGED <<link, toReceiver>>

\* Close from the receiver: the channel is not opened again.
HandleClose ==
    /\ handler \in {"run", "select"}
    /\ toSender # <<>>
    /\ Head(toSender).typ = "Close"
    /\ toSender' = Tail(toSender)
    /\ EndHandler("closed")
    /\ UNCHANGED <<link, toReceiver>>

\* Close is sent, and the handler ends.
FinishTerminate ==
    /\ handler = "terminate"
    /\ writeBuffer = <<>>
    /\ Len(toReceiver) < StreamCapacity
    /\ toReceiver' = Written(toReceiver, Close)
    /\ EndHandler("closed")
    /\ UNCHANGED <<link, toSender>>

\* The peer is gone and its responses are read: the end of the stream is taken
\* for a Close.
ReadEof ==
    /\ handler \in {"run", "select"}
    /\ toSender = <<>>
    /\ EndHandler("closed")
    /\ UNCHANGED streamVars

\* Reading or writing fails: the handler ends, and the channel is to be opened
\* again.  A failing Close is ignored.
ConnectionError ==
    /\ handler \in Running
    /\ EndHandler(IF handler = "terminate" THEN "closed" ELSE "retry")
    /\ UNCHANGED streamVars

AppNext ==
    \/ SendData
    \/ SendTwice
    \/ SendFlush
    \/ FlushChannel
    \/ SendTerminate
    \/ DropQueue

HandlerNext ==
    \/ HandleData
    \/ HandleFlush
    \/ HandleTerminate
    \/ QueueDropped
    \/ SendPending
    \/ FinishFeed
    \/ WriteOut
    \/ AwaitResponse
    \/ FlushDone
    \/ HandleAck
    \/ HandleUnknownAck
    \/ HandleClose
    \/ FinishTerminate
=============================================================================
