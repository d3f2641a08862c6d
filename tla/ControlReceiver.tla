--------------------------- MODULE ControlReceiver ---------------------------
(***************************************************************************)
(* The control side of the receiver service (network/src/receiver.rs): the *)
(* control_socket loop, a control_socket_handler per control connection,   *)
(* and a task of create_channel_handler per channel that was granted.  A   *)
(* registration is a data queue with its cancellation token; it moves      *)
(* between the map of registered channels, the map of opened ones and the  *)
(* task that serves it.                                                    *)
(***************************************************************************)
EXTENDS ControlNetwork

VARIABLES
    channelOf,      \* the channel of each registration made so far
    stage,          \* per registration: where it is
    queueClosed,    \* registrations whose data queue is closed
    cancelled,      \* registrations whose token is cancelled
    active,         \* per control connection: active_connection_channels
    serving,        \* control connections with a control_socket_handler
    controlOpen,    \* whether the control_socket loop runs
    unwatched       \* history: registrations granted by a handler that ended without
                    \* cancelling them

receiverVars == <<channelOf, stage, queueClosed, cancelled, active, serving, controlOpen,
                  unwatched>>

\* "registered": in registered_channels.  "insert": its task is spawned.  "wait": in
\* opened_channels, its task waits for the data connection.  "serve": in
\* channel_handler.  "reopen": RetryChannel is queued.  "dropped": gone.
Stages == {"none", "registered", "insert", "wait", "serve", "reopen", "dropped"}

ReceiverTypeOK ==
    /\ channelOf \in Seq(Channels)
    /\ Len(channelOf) <= MaxRegistrations
    /\ stage \in [Registrations -> Stages]
    /\ queueClosed \in SUBSET Registrations
    /\ cancelled \in SUBSET Registrations
    /\ active \in [Connections -> SUBSET Registrations]
    /\ serving \in SUBSET Connections
    /\ controlOpen \in BOOLEAN
    /\ unwatched \in SUBSET Registrations

ReceiverInit ==
    /\ channelOf = <<>>
    /\ stage = [r \in Registrations |-> "none"]
    /\ queueClosed = {}
    /\ cancelled = {}
    /\ active = [k \in Connections |-> {}]
    /\ serving = {}
    /\ controlOpen = TRUE
    /\ unwatched = {}

\* The registrations of channel c at a stage: both maps hold one at most.
At(s, c) == {r \in DOMAIN channelOf : stage[r] = s /\ channelOf[r] = c}

\* r reaches stage s, and those in gone are dropped.
Place(r, s, gone) ==
    stage' = [q \in Registrations |->
                IF q = r THEN s ELSE IF q \in gone THEN "dropped" ELSE stage[q]]

\* Either end of the data connection of r closes it.
Disconnect(r) ==
    /\ link' = [c \in Channels |-> IF link[c] = r THEN 0 ELSE link[c]]
    /\ closeSent' = closeSent \ {r}
    /\ UNCHANGED <<connections, up, requests, responses>>

----------------------------------------------------------------------------
(* The control_socket loop. *)

\* RegisterChannel: cancelled registrations are removed, and one of the same
\* channel is replaced.  If the caller of register_channel is gone, nobody has
\* the other end of the queue, and the token is cancelled.
RegisterReceiver(c) ==
    LET r == Len(channelOf) + 1
        cleared == {q \in cancelled : stage[q] = "registered"}
    IN  /\ controlOpen
        /\ r \in Registrations
        /\ channelOf' = Append(channelOf, c)
        /\ Place(r, "registered", cleared \cup At("registered", c))
        /\ cancelled' \in {cancelled, cancelled \cup {r}}
        /\ UNCHANGED <<networkVars, queueClosed, active, serving, controlOpen, unwatched>>

\* RetryChannel: put back whatever is registered, and whether or not the token
\* is cancelled or the queue closed.
Reopen(r) ==
    /\ controlOpen
    /\ stage[r] = "reopen"
    /\ Place(r, "registered", At("registered", channelOf[r]))
    /\ UNCHANGED <<networkVars, channelOf, queueClosed, cancelled, active, serving,
                   controlOpen, unwatched>>

\* The loop has ended: sending RetryChannel fails, and expect panics.
ReopenPanics(r) ==
    /\ ~controlOpen
    /\ stage[r] = "reopen"
    /\ Place(r, "dropped", {})
    /\ UNCHANGED <<networkVars, channelOf, queueClosed, cancelled, active, serving,
                   controlOpen, unwatched>>

\* shutdown closes the control queue: the loop cancels what is registered, and
\* ends.  Other tasks run on until the runtime is gone.
Shutdown ==
    /\ controlOpen
    /\ controlOpen' = FALSE
    /\ cancelled' = cancelled \cup {r \in Registrations : stage[r] = "registered"}
    /\ UNCHANGED <<networkVars, channelOf, stage, queueClosed, active, serving, unwatched>>

----------------------------------------------------------------------------
(* A control_socket_handler. *)

\* The response is written; on a lost connection that may go unnoticed.
Respond(k, typ) ==
    responses' = IF k \in up THEN responses \cup {[conn |-> k, typ |-> typ]} ELSE responses

\* The handler returns: its connection is dropped, and nobody reads what is left on it.
HandlerEnds(k) ==
    /\ serving' = serving \ {k}
    /\ active' = [active EXCEPT ![k] = {}]
    /\ requests' = {m \in requests : m.conn # k}

\* Mutant of Deny: a channel that is not registered is granted.
DenyGrants(m) ==
    /\ m \in requests
    /\ m.conn \in serving
    /\ At("registered", m.channel) = {}
    /\ Respond(m.conn, "OkChannelResponse")
    /\ requests' = requests \ {m}
    /\ UNCHANGED <<connections, up, link, closeSent, receiverVars>>

\* The channel is not registered, or is in use.
Deny(m) ==
    /\ m \in requests
    /\ m.conn \in serving
    /\ At("registered", m.channel) = {}
    /\ Respond(m.conn, "DenyChannelResponse")
    /\ requests' = requests \ {m}
    /\ active' = [active EXCEPT ![m.conn] = @ \ cancelled]
    /\ UNCHANGED <<connections, up, link, closeSent, channelOf, stage, queueClosed,
                   cancelled, serving, controlOpen, unwatched>>

\* The channel is taken out of the map, its task spawned, and its token noted
\* once the response is written.
Grant(m, r) ==
    /\ m \in requests
    /\ m.conn \in serving
    /\ r \in At("registered", m.channel)
    /\ Place(r, "insert", {})
    /\ Respond(m.conn, "OkChannelResponse")
    /\ requests' = requests \ {m}
    /\ active' = [active EXCEPT ![m.conn] = (@ \ cancelled) \cup {r}]
    /\ unwatched' = unwatched \ {r}
    /\ UNCHANGED <<connections, up, link, closeSent, channelOf, queueClosed, cancelled,
                   serving, controlOpen>>

\* Writing the response fails: `?` ends the handler, which cancels nothing, and
\* a channel it has just taken out of the map is spawned all the same.
RespondFails(m) ==
    /\ m \in requests
    /\ m.conn \in serving \ up
    /\ LET taken == At("registered", m.channel)
       IN  /\ stage' = [r \in Registrations |-> IF r \in taken THEN "insert" ELSE stage[r]]
           /\ unwatched' = unwatched \cup active[m.conn] \cup taken
    /\ HandlerEnds(m.conn)
    /\ UNCHANGED <<connections, up, responses, link, closeSent, channelOf, queueClosed,
                   cancelled, controlOpen>>

\* Mutant of ControlLost: the channels of the connection are not cancelled.
ControlLostQuietly(k) ==
    /\ k \in serving \ up
    /\ HandlerEnds(k)
    /\ UNCHANGED <<connections, up, responses, link, closeSent, channelOf, stage, queueClosed,
                   cancelled, controlOpen, unwatched>>

\* The end of the stream: every channel the handler granted is cancelled,
\* wherever its registration is by now.
ControlLost(k) ==
    /\ k \in serving \ up
    /\ cancelled' = cancelled \cup active[k]
    /\ HandlerEnds(k)
    /\ UNCHANGED <<connections, up, responses, link, closeSent, channelOf, stage, queueClosed,
                   controlOpen, unwatched>>

----------------------------------------------------------------------------
(* The task of a channel. *)

\* The oneshot is put into the map of opened channels; the task of one that is
\* replaced there ends.
InsertOpened(r) ==
    /\ stage[r] = "insert"
    /\ Place(r, "wait", At("wait", channelOf[r]))
    /\ UNCHANGED <<networkVars, channelOf, queueClosed, cancelled, active, serving,
                   controlOpen, unwatched>>

\* The token is cancelled.  It is looked at only while the channel is served.
CancelHandler(r) ==
    /\ stage[r] = "serve"
    /\ r \in cancelled
    /\ Place(r, "dropped", {})
    /\ queueClosed' = queueClosed \cup {r}
    /\ Disconnect(r)
    /\ UNCHANGED <<channelOf, cancelled, active, serving, controlOpen, unwatched>>

\* A buffer arrives for a queue its consumer has closed, or is still in the socket
\* of a connection whose other end is gone: Close is sent, and the registration dropped.
RefuseBuffer(r) ==
    /\ stage[r] = "serve"
    /\ r \in queueClosed
    /\ Place(r, "dropped", {})
    /\ Disconnect(r)
    /\ UNCHANGED <<channelOf, queueClosed, cancelled, active, serving, controlOpen,
                   unwatched>>

\* Mutant of ReadClose: the channel is opened again before its connection is dropped.
ReadCloseConnected(r) ==
    /\ stage[r] = "serve"
    /\ r \in closeSent
    /\ Place(r, "reopen", {})
    /\ queueClosed' = queueClosed \cup {r}
    /\ UNCHANGED <<networkVars, channelOf, cancelled, active, serving, controlOpen, unwatched>>

\* Close of the sender: the queue is closed, and the channel opened again.
ReadClose(r) ==
    /\ stage[r] = "serve"
    /\ r \in closeSent
    /\ Place(r, "reopen", {})
    /\ queueClosed' = queueClosed \cup {r}
    /\ Disconnect(r)
    /\ UNCHANGED <<channelOf, cancelled, active, serving, controlOpen, unwatched>>

\* Mutant of NetworkError: the channel is not registered again.
NetworkErrorDrops(r) ==
    /\ stage[r] = "serve"
    /\ \A c \in Channels : link[c] # r
    /\ Place(r, "dropped", {})
    /\ Disconnect(r)
    /\ UNCHANGED <<channelOf, queueClosed, cancelled, active, serving, controlOpen,
                   unwatched>>

\* The data connection is gone.
NetworkError(r) ==
    /\ stage[r] = "serve"
    /\ \A c \in Channels : link[c] # r
    /\ Place(r, "reopen", {})
    /\ Disconnect(r)
    /\ UNCHANGED <<channelOf, queueClosed, cancelled, active, serving, controlOpen,
                   unwatched>>

\* The consumer closes its queue.
CloseQueue(r) ==
    /\ r \in DOMAIN channelOf
    /\ r \notin queueClosed
    /\ stage[r] # "dropped"
    /\ queueClosed' = queueClosed \cup {r}
    /\ UNCHANGED <<networkVars, channelOf, stage, cancelled, active, serving, controlOpen,
                   unwatched>>

ReceiverNext ==
    \/ \E c \in Channels : RegisterReceiver(c)
    \/ Shutdown
    \/ \E m \in requests :
          \/ Deny(m)
          \/ \E r \in Registrations : Grant(m, r)
          \/ RespondFails(m)
    \/ \E k \in Connections : ControlLost(k)
    \/ \E r \in Registrations :
          \/ Reopen(r)
          \/ ReopenPanics(r)
          \/ InsertOpened(r)
          \/ CancelHandler(r)
          \/ RefuseBuffer(r)
          \/ ReadClose(r)
          \/ NetworkError(r)
          \/ CloseQueue(r)
=============================================================================
