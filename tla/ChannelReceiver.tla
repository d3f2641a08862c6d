--------------------------- MODULE ChannelReceiver ---------------------------
(***************************************************************************)
(* The receiving end of a data channel: channel_handler of                 *)
(* network/src/receiver.rs, what create_channel_handler makes of its end,  *)
(* and the consumer of the data queue.                                     *)
(***************************************************************************)
EXTENDS DataStream

CONSTANT DataQueueSize  \* capacity of the channel's data queue

ASSUME ChannelReceiverAssumption == DataQueueSize \in Nat \ {0}

VARIABLES
    receiver,       \* the handler: where it waits, or why there is none
    pendingBuffer,  \* pending_buffer, or the buffer whose Ack is due; 0 for none
    dataQueue,      \* the queue towards the consumer
    queueClosed,    \* whether that queue was closed, by either end
    delivered       \* history: the buffers put into the queue, in order

receiverVars == <<receiver, pendingBuffer, dataQueue, queueClosed, delivered>>

\* "registered": no handler, the channel can be opened.  "stranded": its request was
\* granted, and its task waits for a connection that does not come.  "read", "push",
\* "ack": waits for a frame, for room in the queue, for the Ack to be written.
\* "refuse": is to send Close.  "ended": the channel can not be opened again.
ReceiverStates == {"registered", "stranded", "read", "push", "ack", "refuse", "ended"}
Receiving == {"read", "push", "ack", "refuse"}

ChannelReceiverTypeOK ==
    /\ receiver \in ReceiverStates
    /\ pendingBuffer \in Tuples \cup {0}
    /\ receiver \in {"push", "ack"} => pendingBuffer # 0
    /\ dataQueue \in Seq(Tuples)
    /\ queueClosed \in BOOLEAN
    /\ delivered \in Seq(Tuples)

ChannelReceiverInit ==
    /\ receiver = "registered"
    /\ pendingBuffer = 0
    /\ dataQueue = <<>>
    /\ queueClosed = FALSE
    /\ delivered = <<>>

ReadData ==
    /\ receiver = "read"
    /\ toReceiver # <<>>
    /\ Head(toReceiver).typ = "Data"
    /\ pendingBuffer' = Head(toReceiver).seq
    /\ receiver' = "push"
    /\ toReceiver' = Tail(toReceiver)
    /\ UNCHANGED <<link, toSender, dataQueue, queueClosed, delivered>>

\* The buffer is handed over before it is acknowledged.
PushData ==
    /\ receiver = "push"
    /\ ~queueClosed
    /\ Len(dataQueue) < DataQueueSize
    /\ dataQueue' = Append(dataQueue, pendingBuffer)
    /\ delivered' = Append(delivered, pendingBuffer)
    /\ receiver' = "ack"
    /\ UNCHANGED <<streamVars, pendingBuffer, queueClosed>>

SendAck ==
    /\ receiver = "ack"
    /\ toSender' = Written(toSender, Ack(pendingBuffer))
    /\ receiver' = "read"
    /\ pendingBuffer' = 0
    /\ UNCHANGED <<link, toReceiver, dataQueue, queueClosed, delivered>>

\* Mutant of PushRefused: the buffer that is dropped is acknowledged.
PushIgnored ==
    /\ receiver = "push"
    /\ queueClosed
    /\ receiver' = "ack"
    /\ UNCHANGED <<streamVars, pendingBuffer, dataQueue, queueClosed, delivered>>

\* The consumer has closed the queue: the buffer is dropped.
PushRefused ==
    /\ receiver = "push"
    /\ queueClosed
    /\ receiver' = "refuse"
    /\ pendingBuffer' = 0
    /\ UNCHANGED <<streamVars, dataQueue, queueClosed, delivered>>

\* Close goes out and the handler returns Ok: the channel is not registered again.
SendClose ==
    /\ receiver = "refuse"
    /\ toSender' = Written(toSender, Close)
    /\ receiver' = "ended"
    /\ UNCHANGED <<link, toReceiver, pendingBuffer, dataQueue, queueClosed, delivered>>

\* Close from the sender: the queue is closed, and yet the channel registered again.
ReadClose ==
    /\ receiver = "read"
    /\ toReceiver # <<>>
    /\ Head(toReceiver).typ = "Close"
    /\ toReceiver' = Tail(toReceiver)
    /\ queueClosed' = TRUE
    /\ receiver' = "registered"
    /\ UNCHANGED <<link, toSender, pendingBuffer, dataQueue, delivered>>

\* The end of the stream, or an error of reading or writing: the channel is
\* registered again.
ReceiverNetworkError ==
    /\ receiver \in {"read", "ack", "refuse"}
    /\ receiver' = "registered"
    /\ pendingBuffer' = 0
    /\ UNCHANGED <<streamVars, dataQueue, queueClosed, delivered>>

\* The control connection is lost and the channel's token cancelled: the
\* handler ends for good and drops the queue.
CancelChannel ==
    /\ receiver \in Receiving
    /\ receiver' = "ended"
    /\ pendingBuffer' = 0
    /\ queueClosed' = TRUE
    /\ UNCHANGED <<streamVars, dataQueue, delivered>>

\* The consumer takes a buffer; a closed queue is emptied all the same.
Consume ==
    /\ dataQueue # <<>>
    /\ dataQueue' = Tail(dataQueue)
    /\ UNCHANGED <<streamVars, receiver, pendingBuffer, queueClosed, delivered>>

\* interrupt_receiver, close_receiver_channel, or the end of a NetworkSource.
CloseQueue ==
    /\ ~queueClosed
    /\ queueClosed' = TRUE
    /\ UNCHANGED <<streamVars, receiver, pendingBuffer, dataQueue, delivered>>

ChannelReceiverNext ==
    \/ ReadData
    \/ PushData
    \/ SendAck
    \/ PushRefused
    \/ SendClose
    \/ ReadClose
    \/ CancelChannel
    \/ Consume
    \/ CloseQueue
=============================================================================
