---------------------------- MODULE ControlPlane ----------------------------
(***************************************************************************)
(* A sender service and a receiver service of network/src negotiate their  *)
(* channels: requests over one control connection after another, a data    *)
(* connection per channel that was granted, and what becomes of both when  *)
(* connections are lost, channels end, or the receiver is shut down.       *)
(***************************************************************************)
EXTENDS ControlSender, ControlReceiver

vars == <<networkVars, senderVars, receiverVars>>

Init ==
    /\ NetworkInit
    /\ SenderInit
    /\ ReceiverInit

\* The acceptor spawns a control_socket_handler for the new connection.
OpenControl ==
    /\ Connect
    /\ serving' = serving \cup {conn'}
    /\ UNCHANGED <<channelOf, stage, queueClosed, cancelled, active, controlOpen, unwatched>>

\* The acceptor identifies a data connection, answers Ok, and only then looks
\* for the task that waits for it.  With none ("Channel was not registered") it
\* drops the connection.
AcceptChannel(c) ==
    /\ channel[c] = "connecting"
    /\ Goto(c, "open")
    /\ IF At("wait", c) = {}
       THEN UNCHANGED <<link, stage>>
       ELSE \E r \in At("wait", c) :
               /\ link' = [link EXCEPT ![c] = r]
               /\ Place(r, "serve", {})
    /\ UNCHANGED <<connections, up, requests, responses, closeSent, conn, channelOf,
                   queueClosed, cancelled, active, serving, controlOpen, unwatched>>

\* The sender's control connection is lost, or its other end has dropped it.
ControlGone == conn \notin up \/ conn \notin serving

SenderStep ==
    \E c \in Channels :
        \/ RegisterSender(c)
        \/ SendRequest(c)
        \/ \E m \in responses : ReceiveResponse(c, m)
        \/ ControlGone /\ BadConnection(c)
        \/ ConnectFails(c)
        \/ EndChannel(c)
        \/ LoseChannel(c)

Lose == (LoseControl \/ LoseData) /\ UNCHANGED <<senderVars, receiverVars>>

Next ==
    \/ OpenControl
    \/ \E c \in Channels : AcceptChannel(c)
    \/ SenderStep /\ UNCHANGED receiverVars
    \/ ReceiverNext /\ UNCHANGED senderVars
    \/ Lose

Spec == Init /\ [][Next]_vars

----------------------------------------------------------------------------
(* Safety. *)

TypeOK ==
    /\ NetworkTypeOK
    /\ SenderTypeOK
    /\ ReceiverTypeOK

\* A channel the sender was told to connect to has a task that waits for the
\* connection or is about to (receiver.rs:227-245), whatever was registered,
\* replaced, retried or cancelled since it was granted.
OkIsHonoured ==
    \A c \in Channels :
        \/ channel[c] = "connecting"
        \/ /\ channel[c] = "requested"
           /\ [conn |-> conn, typ |-> "OkChannelResponse"] \in responses
        => At("insert", c) \cup At("wait", c) # {}

\* A registration is given up only for a reason: its control connection was
\* lost, its queue closed, another registration of its channel took its place,
\* or the service was shut down (receiver.rs:158-198, 345-364).
DroppedForReason ==
    \A r \in DOMAIN channelOf :
        stage[r] = "dropped" =>
            \/ r \in cancelled \cup queueClosed
            \/ \E q \in DOMAIN channelOf \ {r} : channelOf[q] = channelOf[r]
            \/ ~controlOpen

\* A channel in use is cancelled with its control connection: the handler that
\* granted it watches it, unless it ended on a response it could not write
\* (receiver.rs:213-246).
HandlersAreWatched ==
    \A r \in Registrations :
        stage[r] \in {"insert", "wait", "serve"} =>
            r \in cancelled \cup unwatched \cup UNION {active[k] : k \in serving}

\* What the applications see of a registration with the sender, and of one with
\* the receiver.
AskerOf == [unregistered |-> "none", asking |-> "asking", requested |-> "asking",
            connecting |-> "asking", open |-> "open", closed |-> "closed"]

OfferOf == [none |-> "none", registered |-> "offered", insert |-> "granted", wait |-> "granted",
            serve |-> "served", reopen |-> "served", dropped |-> "gone"]

\* Over control connections that are lost, replaced and read late, a channel is
\* connected to a registration granted for it and to no other, and a registration
\* is offered again only without its connection (sender.rs:531-614,
\* receiver.rs:134-198, 206-248, 294-304).
Pairing == INSTANCE Rendezvous WITH
    asker <- [c \in Channels |-> AskerOf[channel[c]]],
    offer <- [r \in Registrations |-> OfferOf[stage[r]]],
    partner <- link

ImplementsRendezvous == Pairing!Spec

----------------------------------------------------------------------------
(* Liveness. *)

\* Connections are lost, and fail to be made, only finitely often.
EventuallyStable ==
    <>[][~Lose /\ \A c \in Channels : ~ConnectFails(c)]_vars

\* All tasks of both services are polled, errors surface and time passes.  The
\* negotiating task takes its channels in the order they queue, so each one has
\* its turn.
Fairness ==
    /\ WF_vars(OpenControl)
    /\ \A c \in Channels :
          /\ SF_vars(SendRequest(c) /\ UNCHANGED receiverVars)
          /\ WF_vars((\E m \in responses : ReceiveResponse(c, m)) /\ UNCHANGED receiverVars)
          /\ WF_vars(ControlGone /\ BadConnection(c) /\ UNCHANGED receiverVars)
          /\ WF_vars(AcceptChannel(c))
          /\ WF_vars(LoseChannel(c) /\ UNCHANGED receiverVars)
    /\ \A k \in Connections :
          /\ WF_vars((\E m \in requests : m.conn = k /\ (Deny(m) \/ \E r \in Registrations : Grant(m, r)))
                        /\ UNCHANGED senderVars)
          /\ WF_vars(ControlLost(k) /\ UNCHANGED senderVars)
    /\ \A r \in Registrations :
          /\ WF_vars((Reopen(r) \/ ReopenPanics(r) \/ InsertOpened(r)) /\ UNCHANGED senderVars)
          /\ WF_vars((CancelHandler(r) \/ ReadClose(r) \/ NetworkError(r)) /\ UNCHANGED senderVars)

FairSpec == Spec /\ Fairness /\ EventuallyStable

\* The sender is about to connect to c.
Coming(c) ==
    \/ channel[c] = "connecting"
    \/ channel[c] = "requested" /\ [conn |-> conn, typ |-> "OkChannelResponse"] \in responses

\* The receiver offers c, or will again.  A task that waits for a connection
\* nobody is about to make is left with its registration (receiver.rs:158).
Offered(c) ==
    \E r \in DOMAIN channelOf :
        /\ channelOf[r] = c
        /\ \/ stage[r] \in {"registered", "insert", "serve", "reopen"}
           \/ stage[r] = "wait" /\ Coming(c)

\* A channel that asks to be opened and is offered is opened, or ends because
\* the data connection did (sender.rs:531-570, 587-614, receiver.rs:213-246).
EventuallyOpened ==
    \A c \in Channels :
        channel[c] = "asking" ~> link[c] # 0 \/ channel[c] = "closed" \/ ~Offered(c)
=============================================================================
