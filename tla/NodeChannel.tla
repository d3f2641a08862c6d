---------------------------- MODULE NodeChannel ----------------------------
(***************************************************************************)
(* The data channels between test nodes as their sinks and sources see     *)
(* them: TcpChannel and ControlPlane, with everything between the queue of *)
(* the sink and the queue of the source in one step.                       *)
(***************************************************************************)
EXTENDS NodeConfig

CONSTANTS
    ControlQueueSize,   \* capacity of a channel's queue of ChannelControlMessage
    DataQueueSize       \* capacity of a channel's queue of buffers

ASSUME NodeChannelAssumption ==
    /\ ControlQueueSize \in Nat \ {0}
    /\ DataQueueSize \in Nat \ {0}

VARIABLES
    handler,    \* the sender's ChannelHandler, "none" until the sink registers
    control,    \* the queue of the handler
    reply,      \* what has become of the flush the handler took
    offer,      \* the data queue: "none" until the source registers, "gone" once
                \* the registration is cancelled
    data,       \* what is in the data queue
    link        \* what is between handler and data queue: "good" unless a connection
                \* leads nowhere ("stranded") or waits for a lost buffer ("abandoned")

channelVars == <<handler, control, reply, offer, data, link>>

Message == [typ : {"Data"}, num : Numbers] \cup [typ : {"Flush", "Terminate"}, num : {0}]

Data(n) == [typ |-> "Data", num |-> n]
Flush == [typ |-> "Flush", num |-> 0]
Terminate == [typ |-> "Terminate", num |-> 0]

ChannelTypeOK ==
    /\ handler \in [Channels -> {"none", "open", "closed"}]
    /\ control \in [Channels -> Seq(Message)]
    /\ reply \in [Channels -> {"none", "done", "dropped"}]
    /\ offer \in [Channels -> {"none", "open", "closed", "gone"}]
    /\ data \in [Channels -> Seq(Numbers)]
    /\ link \in [Channels -> {"good", "abandoned", "stranded"}]
    /\ \A c \in Channels :
          Len(control[c]) <= ControlQueueSize /\ Len(data[c]) <= DataQueueSize

ChannelInit ==
    /\ handler = [c \in Channels |-> "none"]
    /\ control = [c \in Channels |-> <<>>]
    /\ reply = [c \in Channels |-> "none"]
    /\ offer = [c \in Channels |-> "none"]
    /\ data = [c \in Channels |-> <<>>]
    /\ link = [c \in Channels |-> "good"]

HasRoom(c) == handler[c] = "open" /\ Len(control[c]) < ControlQueueSize
IsFull(c) == handler[c] = "open" /\ Len(control[c]) >= ControlQueueSize
IsClosed(c) == handler[c] = "closed"

Enqueue(c, m) ==
    /\ control' = [control EXCEPT ![c] = Append(@, m)]
    /\ UNCHANGED <<handler, reply, offer, data, link>>

\* The handler ends, and its connection.
CloseHandler(c) ==
    /\ handler' = [handler EXCEPT ![c] = "closed"]
    /\ link' = [link EXCEPT ![c] = "good"]

\* There is, or can be, a connection.
Connects(c) ==
    /\ handler[c] = "open"
    /\ offer[c] \in {"open", "closed"}
    /\ link[c] # "stranded"

\* The handler takes a message of this type.
Take(c, typ) ==
    /\ Connects(c)
    /\ control[c] # <<>>
    /\ Head(control[c]).typ = typ
    /\ control' = [control EXCEPT ![c] = Tail(@)]

Deliver(c) ==
    /\ Take(c, "Data")
    /\ offer[c] = "open"
    /\ Len(data[c]) < DataQueueSize
    /\ data' = [data EXCEPT ![c] = Append(@, Head(control[c]).num)]
    /\ UNCHANGED <<handler, reply, offer, link>>

\* The buffer was on a connection that is lost, or its feed was cancelled: then it
\* is in wait_for_ack, and was not sent.
LoseData(c) ==
    /\ Take(c, "Data")
    /\ \E l \in {"good", "abandoned"} : link' = [link EXCEPT ![c] = l]
    /\ UNCHANGED <<handler, reply, offer, data>>

\* The data queue is closed: Close comes back.
Refuse(c) ==
    /\ Take(c, "Data")
    /\ offer[c] = "closed"
    /\ CloseHandler(c)
    /\ UNCHANGED <<reply, offer, data>>

\* Everything is acknowledged.  With a buffer abandoned, the flush is never done.
AnswerFlush(c) ==
    /\ Take(c, "Flush")
    /\ link[c] = "good"
    /\ reply' = [reply EXCEPT ![c] = "done"]
    /\ UNCHANGED <<handler, offer, data, link>>

\* The connection is lost, and with it the handler that was busy with the flush.
DropFlush(c) ==
    /\ Take(c, "Flush")
    /\ reply' = [reply EXCEPT ![c] = "dropped"]
    /\ link' = [link EXCEPT ![c] = "good"]
    /\ UNCHANGED <<handler, offer, data>>

\* Close goes out, and closes the data queue unless the connection is lost.
HandleTerminate(c) ==
    /\ Take(c, "Terminate")
    /\ CloseHandler(c)
    /\ \/ offer' = [offer EXCEPT ![c] = "closed"]
       \/ UNCHANGED offer
    /\ UNCHANGED <<reply, data>>

\* The next connection has a handler that waits for nothing.
Reconnect(c) ==
    /\ Connects(c)
    /\ link[c] = "abandoned"
    /\ link' = [link EXCEPT ![c] = "good"]
    /\ UNCHANGED <<handler, control, reply, offer, data>>

\* The channel was granted, and the connection for it fails: the task waits for it
\* for ever, with the only registration, and requests for the channel are denied.
Strand(c) ==
    /\ Connects(c)
    /\ link' = [link EXCEPT ![c] = "stranded"]
    /\ UNCHANGED <<handler, control, reply, offer, data>>

\* The connection ends with an end of stream, taken for a Close; as it does where
\* it came before the task that waits for it.  Whatever is in the queue stays there,
\* a flush included.
ReadEof(c) ==
    /\ handler[c] = "open"
    /\ offer[c] # "none"
    /\ link[c] # "stranded"
    /\ CloseHandler(c)
    /\ UNCHANGED <<control, reply, offer, data>>

\* The control connection is lost, and the receiver's handler cancelled, whatever
\* the sender's does, and with it the connection.  A task that waits for one does not notice.
CancelSource(c) ==
    /\ handler[c] # "none"
    /\ offer[c] \in {"open", "closed"}
    /\ link[c] # "stranded"
    /\ offer' = [offer EXCEPT ![c] = "gone"]
    /\ link' = [link EXCEPT ![c] = "good"]
    /\ UNCHANGED <<handler, control, reply, data>>

Serve(c) == Deliver(c) \/ Refuse(c) \/ AnswerFlush(c) \/ HandleTerminate(c)

Fail(c) ==
    \/ LoseData(c)
    \/ DropFlush(c)
    \/ Reconnect(c)
    \/ Strand(c)
    \/ ReadEof(c)
    \/ CancelSource(c)
=============================================================================
