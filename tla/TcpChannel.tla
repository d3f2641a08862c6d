----------------------------- MODULE TcpChannel -----------------------------
(***************************************************************************)
(* A data channel of the network crate: the sender's ChannelHandler and    *)
(* the receiver's channel_handler over one TCP connection after another.   *)
(* How the two services agree on a new connection is one step here.        *)
(***************************************************************************)
EXTENDS ChannelSender, ChannelReceiver

vars == <<streamVars, channelVars, receiverVars>>

Init ==
    /\ StreamInit
    /\ ChannelSenderInit
    /\ ChannelReceiverInit

\* The other end has dropped its half of the connection, or never gets to see it.
ReceiverGone == link = "lost" \/ receiver \notin Receiving
SenderGone == link = "lost" \/ handler \notin Running

\* RetryChannel on both sides, the ChannelRequest and the new connection: both
\* handlers start from nothing, with the queues of the old ones.
OpenConnection ==
    /\ handler = "retry"
    /\ receiver = "registered"
    /\ handler' = "run"
    /\ receiver' = "read"
    /\ link' = "up"
    /\ toReceiver' = <<>>
    /\ toSender' = <<>>
    /\ UNCHANGED <<app, accepted, queue, pendingWrites, waitForAck, writeBuffer, feeding,
                   taken, lost, confirmed, pendingBuffer, dataQueue, queueClosed, delivered>>

\* The request is granted, and the connection fails, or comes before the receiver's
\* task has inserted its oneshot and is dropped.  The task waits for another one
\* (receiver.rs:158), which no request will bring: they are all denied, as the
\* channel is not registered.
StrandChannel ==
    /\ handler = "retry"
    /\ receiver = "registered"
    /\ receiver' = "stranded"
    /\ \/ UNCHANGED <<streamVars, handler>>
       \/ /\ handler' = "run"
          /\ link' = "up"
          /\ toReceiver' = <<>>
          /\ toSender' = <<>>
    /\ UNCHANGED <<app, accepted, queue, pendingWrites, waitForAck, writeBuffer, feeding,
                   taken, lost, confirmed, pendingBuffer, dataQueue, queueClosed, delivered>>

SenderStep ==
    \/ AppNext
    \/ HandlerNext
    \/ ReceiverGone /\ (ReadEof \/ ConnectionError \/ FeedFails)

ReceiverStep ==
    \/ ChannelReceiverNext
    \/ SenderGone /\ ReceiverNetworkError

Next ==
    \/ SenderStep /\ UNCHANGED receiverVars
    \/ ReceiverStep /\ UNCHANGED channelVars
    \/ OpenConnection
    \/ StrandChannel
    \/ LoseConnection /\ UNCHANGED <<channelVars, receiverVars>>

Spec == Init /\ [][Next]_vars

----------------------------------------------------------------------------
(* Safety. *)

TypeOK ==
    /\ StreamTypeOK
    /\ ChannelSenderTypeOK
    /\ ChannelReceiverTypeOK

\* The frames on their way from the FramedWrite to the data queue and back as
\* an Ack, the one closest to its end first.
UnderWay ==
    toSender \o (IF pendingBuffer = 0 THEN <<>> ELSE <<Data(pendingBuffer)>>)
        \o toReceiver \o writeBuffer

\* While both handlers share a connection, what is under way is awaited by the
\* sender, once and in order: no run of a sender that sends every buffer once
\* ends in "Unknown Seq" (sender.rs:209-214), whatever feed() was cancelled
\* and whichever handlers came before.
AcksAreExpected ==
    handler \in Running /\ receiver \in Receiving =>
        \A i \in DOMAIN UnderWay : UnderWay[i] # Close =>
            /\ UnderWay[i].seq \in waitForAck
            /\ \A j \in 1 .. (i - 1) :
                  UnderWay[j] # Close => UnderWay[j].seq < UnderWay[i].seq

\* A buffer that left the queue is held by the handler, was delivered, or went
\* down with a handler: none is acknowledged or skipped before it is delivered
\* (sender.rs:193-258, receiver.rs:104-125).
NothingVanishes ==
    1 .. taken \subseteq Range(delivered) \cup Range(pendingWrites) \cup waitForAck \cup lost

\* The channel implements FifoChannel: in order, at most once, and a flush that
\* is confirmed covers all that was accepted before it (sender.rs:260-285).
Fifo == INSTANCE FifoChannel WITH dropped <- lost

ImplementsFifoChannel == Fifo!Spec

\* When the application repeats a buffer, the order is kept all the same: a
\* repeated buffer costs the connection, and never overtakes another one.
DeliveredInOrder == \A i, j \in DOMAIN delivered : i < j => delivered[i] <= delivered[j]

----------------------------------------------------------------------------
(* What network/README.md says of the channel. *)

\* Line 130: "Channel errors are propagated to the application".  An application
\* that waits for a flush learns that the channel was closed.
ClosingIsPropagated == (handler = "closed" /\ app = "flushing") ~> app # "flushing"

----------------------------------------------------------------------------
(* Liveness. *)

\* The connection is lost only finitely often.
EventuallyConnected == <>[][~LoseConnection]_vars

\* Both handlers are polled, errors surface, time passes, and the two services
\* grant the channel when both ask for it, which need not open it; the consumer
\* keeps taking buffers.
Fairness ==
    /\ WF_vars(HandlerNext /\ UNCHANGED receiverVars)
    /\ WF_vars(ReceiverGone /\ (ReadEof \/ ConnectionError) /\ UNCHANGED receiverVars)
    /\ WF_vars((ReadData \/ PushData \/ SendAck \/ PushRefused \/ SendClose \/ ReadClose)
                  /\ UNCHANGED channelVars)
    /\ WF_vars(SenderGone /\ ReceiverNetworkError /\ UNCHANGED channelVars)
    /\ WF_vars(Consume /\ UNCHANGED channelVars)
    /\ WF_vars(OpenConnection \/ StrandChannel)

FairSpec == Spec /\ Fairness /\ EventuallyConnected

\* Awaited on a connection that works, and yet under way nowhere: another branch
\* of the select! was taken while feed() waited for the socket, which leaves the
\* buffer in wait_for_ack, never to be written (sender.rs:235-256, 300-305).
Abandoned ==
    IF link = "up" /\ handler \in Running /\ receiver \in Receiving
    THEN waitForAck \ ({frame.seq : frame \in Range(UnderWay)} \cup {feeding})
    ELSE {}

\* A flush returns, confirmed or not, over any rounds of writing, acknowledging and
\* opening anew, unless a buffer is abandoned, the channel closed, or the receiver
\* stranded or through with it (NetworkSink::stop and close_sender_channel wait for
\* it without a timeout).
FlushReturns ==
    app = "flushing" ~> \/ app # "flushing"
                        \/ Abandoned # {}
                        \/ handler = "closed"
                        \/ receiver \in {"stranded", "ended"}
=============================================================================
