---------------------------- MODULE ControlSender ----------------------------
(***************************************************************************)
(* The control side of the sender service (network/src/sender.rs): the     *)
(* connection_handler of one receiver, with the task that makes its        *)
(* control connections, the task that negotiates one channel at a time     *)
(* over the current one, and per channel attempt_channel_registration and  *)
(* the end of channel_handler.                                             *)
(***************************************************************************)
EXTENDS ControlNetwork

VARIABLES
    conn,       \* the control connection in use, 0 while the next one is being made
    channel     \* per channel: how far its registration has come

senderVars == <<conn, channel>>

\* "asking": in line for the negotiating task.  "requested": waits for the
\* response.  "connecting": create_channel.  "open": the ChannelHandler runs.
\* "closed": it ended, and the channel is not to be opened again.
ChannelStates == {"unregistered", "asking", "requested", "connecting", "open", "closed"}

\* The channels that are being negotiated are one at most.
SenderTypeOK ==
    /\ conn \in 0 .. connections
    /\ channel \in [Channels -> ChannelStates]
    /\ \A c, d \in Channels : channel[c] = "requested" /\ channel[d] = "requested" => c = d

SenderInit ==
    /\ conn = 0
    /\ channel = [c \in Channels |-> "unregistered"]

Goto(c, state) == channel' = [channel EXCEPT ![c] = state]

\* register_channel, for a channel whose queue is new or was done with.  The code
\* also accepts a second queue for a channel in use, which is left out.
RegisterSender(c) ==
    /\ channel[c] \in {"unregistered", "closed"}
    /\ Goto(c, "asking")
    /\ UNCHANGED <<networkVars, conn>>

\* create_connection succeeds; its failures only take time.
Connect ==
    /\ conn = 0
    /\ \E c \in Channels : channel[c] # "unregistered"
    /\ connections < MaxConnections
    /\ connections' = connections + 1
    /\ up' = up \cup {connections'}
    /\ conn' = connections'
    /\ UNCHANGED <<requests, responses, link, closeSent, channel>>

\* Mutant of SendRequest: a request does not wait for the response to another one.
SendRequestAtOnce(c) ==
    /\ conn # 0
    /\ channel[c] = "asking"
    /\ Goto(c, "requested")
    /\ requests' = requests \cup {[conn |-> conn, channel |-> c]}
    /\ UNCHANGED <<connections, up, responses, link, closeSent, conn>>

\* establish_channel up to the response.  What is written to a lost connection
\* may be lost.
SendRequest(c) ==
    /\ conn # 0
    /\ channel[c] = "asking"
    /\ \A d \in Channels : channel[d] # "requested"
    /\ Goto(c, "requested")
    /\ requests' = IF conn \in up
                   THEN requests \cup {[conn |-> conn, channel |-> c]}
                   ELSE requests
    /\ UNCHANGED <<connections, up, responses, link, closeSent, conn>>

\* A channel that is granted is connected to, one that is denied asks again.
ReceiveResponse(c, m) ==
    /\ channel[c] = "requested"
    /\ m \in responses
    /\ m.conn = conn
    /\ Goto(c, IF m.typ = "OkChannelResponse" THEN "connecting" ELSE "asking")
    /\ responses' = responses \ {m}
    /\ UNCHANGED <<connections, up, requests, link, closeSent, conn>>

\* Mutant of BadConnection: the connection is not replaced.
BadConnectionKept(c) ==
    /\ conn # 0
    /\ channel[c] \in {"asking", "requested"}
    /\ Goto(c, "asking")
    /\ UNCHANGED <<networkVars, conn>>

\* Sending the request or reading the response fails: the channel asks again,
\* and only now the connection is dropped and another one made.
BadConnection(c) ==
    /\ conn # 0
    /\ \/ channel[c] = "requested"
       \/ channel[c] = "asking" /\ \A d \in Channels : channel[d] # "requested"
    /\ Goto(c, "asking")
    /\ conn' = 0
    /\ responses' = {m \in responses : m.conn # conn}
    /\ UNCHANGED <<connections, up, requests, link, closeSent>>

\* create_channel fails: ConnectionLost, and RetryChannel makes it ask again.
ConnectFails(c) ==
    /\ channel[c] = "connecting"
    /\ Goto(c, "asking")
    /\ UNCHANGED <<networkVars, conn>>

\* The handler ends because the application is through with the channel; its
\* Close may not get out.
EndChannel(c) ==
    /\ channel[c] = "open"
    /\ Goto(c, "closed")
    /\ link' = [link EXCEPT ![c] = 0]
    /\ closeSent' \in {closeSent, closeSent \cup ({link[c]} \ {0})}
    /\ UNCHANGED <<connections, up, requests, responses, conn>>

\* The data connection is gone.  An error makes the channel ask again; the end
\* of the stream, and a Close of the receiver, end it.
LoseChannel(c) ==
    /\ channel[c] = "open"
    /\ link[c] = 0
    /\ Goto(c, "asking") \/ Goto(c, "closed")
    /\ UNCHANGED <<networkVars, conn>>
=============================================================================
