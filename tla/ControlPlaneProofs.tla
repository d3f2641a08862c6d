------------------------- MODULE ControlPlaneProofs -------------------------
(***************************************************************************)
(* Proofs about ControlPlane, for every set of channels and every number   *)
(* of control connections and registrations.                               *)
(***************************************************************************)
EXTENDS ControlPlane, SequenceTheorems, TLAPS

\* The steps of the sender and of the receiver, one by one.
SenderAction(c) ==
    \/ RegisterSender(c)
    \/ SendRequest(c)
    \/ \E m \in responses : ReceiveResponse(c, m)
    \/ BadConnection(c)
    \/ ConnectFails(c)
    \/ EndChannel(c)
    \/ LoseChannel(c)

\* A step of the task of registration r that reads or closes the data connection.
ServingStep(r) == CancelHandler(r) \/ RefuseBuffer(r) \/ ReadClose(r) \/ NetworkError(r)

----------------------------------------------------------------------------
(* Type correctness. *)

\* Placing a registration keeps the type of stage.
LEMMA TypePlace ==
    ASSUME NEW r \in Registrations, NEW s \in Stages, NEW gone, Place(r, s, gone),
           stage \in [Registrations -> Stages]
    PROVE  stage' \in [Registrations -> Stages]
  BY DEF Place, Stages

\* Closing a data connection keeps the types of the network.
LEMMA TypeDisconnect ==
    ASSUME NEW r \in Registrations, Disconnect(r), NetworkTypeOK
    PROVE  NetworkTypeOK'
  BY DEF Disconnect, NetworkTypeOK

\* A response keeps the type of the frames in transit.
LEMMA TypeRespond ==
    ASSUME NEW k \in Connections, NEW typ \in {"OkChannelResponse", "DenyChannelResponse"},
           Respond(k, typ), responses \in SUBSET ChannelResponse
    PROVE  responses' \in SUBSET ChannelResponse
  BY DEF Respond, ChannelResponse

\* A step of the sender keeps its types and those of the network.
LEMMA TypeSender ==
    ASSUME TypeOK, NEW c \in Channels, SenderAction(c)
    PROVE  NetworkTypeOK' /\ SenderTypeOK'
<1> USE ControlNetworkAssumption DEF TypeOK, Connections, Registrations
<1>1. CASE RegisterSender(c)
  BY <1>1 DEF RegisterSender, Goto, networkVars, NetworkTypeOK, SenderTypeOK, ChannelStates
<1>2. CASE SendRequest(c)
  <2>1. conn \in 1 .. MaxConnections
    BY <1>2 DEF SendRequest, SenderTypeOK, NetworkTypeOK
  <2>2. requests' \in SUBSET ChannelRequest
    BY <1>2, <2>1 DEF SendRequest, NetworkTypeOK, ChannelRequest
  <2> QED BY <1>2, <2>2 DEF SendRequest, Goto, NetworkTypeOK, SenderTypeOK, ChannelStates
<1>3. ASSUME NEW m \in responses, ReceiveResponse(c, m) PROVE NetworkTypeOK' /\ SenderTypeOK'
  BY <1>3 DEF ReceiveResponse, Goto, NetworkTypeOK, SenderTypeOK, ChannelStates
<1>4. CASE BadConnection(c)
  <2>1. NetworkTypeOK'
    BY <1>4 DEF BadConnection, NetworkTypeOK
  <2>2. conn' \in 0 .. connections'
    BY <1>4 DEF BadConnection, NetworkTypeOK
  <2> QED BY <1>4, <2>1, <2>2 DEF BadConnection, Goto, SenderTypeOK, ChannelStates
<1>5. CASE ConnectFails(c)
  BY <1>5 DEF ConnectFails, Goto, networkVars, NetworkTypeOK, SenderTypeOK, ChannelStates
<1>6. CASE EndChannel(c)
  <2>1. link' \in [Channels -> Registrations \cup {0}] /\ closeSent' \in SUBSET Registrations
    BY <1>6 DEF EndChannel, NetworkTypeOK
  <2> QED BY <1>6, <2>1 DEF EndChannel, Goto, NetworkTypeOK, SenderTypeOK, ChannelStates
<1>7. CASE LoseChannel(c)
  BY <1>7 DEF LoseChannel, Goto, networkVars, NetworkTypeOK, SenderTypeOK, ChannelStates
<1> QED BY <1>1, <1>2, <1>3, <1>4, <1>5, <1>6, <1>7 DEF SenderAction

\* A step of the receiver keeps its types and those of the network.
LEMMA TypeReceiver ==
    ASSUME TypeOK, ReceiverNext
    PROVE  NetworkTypeOK' /\ ReceiverTypeOK'
<1> USE DEF TypeOK
<1>a. \A s \in {"registered", "insert", "wait", "serve", "reopen", "dropped"} : s \in Stages
  BY DEF Stages
<1>1. ASSUME NEW c \in Channels, RegisterReceiver(c) PROVE NetworkTypeOK' /\ ReceiverTypeOK'
  <2> DEFINE r == Len(channelOf) + 1
  <2>1. r \in Registrations /\ stage' \in [Registrations -> Stages]
    BY <1>1, <1>a, TypePlace DEF RegisterReceiver, ReceiverTypeOK
  <2>2. channelOf' \in Seq(Channels) /\ Len(channelOf') = r
    BY <1>1, AppendProperties DEF RegisterReceiver, ReceiverTypeOK
  <2>3. Len(channelOf') <= MaxRegistrations
    BY <2>1, <2>2, ControlNetworkAssumption DEF Registrations
  <2>4. cancelled' \in SUBSET Registrations
    BY <1>1, <2>1 DEF RegisterReceiver, ReceiverTypeOK
  <2> QED BY <1>1, <2>1, <2>2, <2>3, <2>4
            DEF RegisterReceiver, networkVars, NetworkTypeOK, ReceiverTypeOK
<1>2. CASE Shutdown
  BY <1>2 DEF Shutdown, networkVars, NetworkTypeOK, ReceiverTypeOK
<1>3. ASSUME NEW m \in requests, Deny(m) PROVE NetworkTypeOK' /\ ReceiverTypeOK'
  <2>1. m.conn \in Connections
    BY DEF NetworkTypeOK, ChannelRequest
  <2>2. responses' \in SUBSET ChannelResponse
    BY <1>3, <2>1, TypeRespond DEF Deny, NetworkTypeOK
  <2>3. active' \in [Connections -> SUBSET Registrations]
    BY <1>3 DEF Deny, ReceiverTypeOK
  <2> QED BY <1>3, <2>2, <2>3 DEF Deny, NetworkTypeOK, ReceiverTypeOK
<1>4. ASSUME NEW m \in requests, NEW r \in Registrations, Grant(m, r)
      PROVE  NetworkTypeOK' /\ ReceiverTypeOK'
  <2>1. m.conn \in Connections
    BY DEF NetworkTypeOK, ChannelRequest
  <2>2. responses' \in SUBSET ChannelResponse
    BY <1>4, <2>1, TypeRespond DEF Grant, NetworkTypeOK
  <2>3. active' \in [Connections -> SUBSET Registrations]
    BY <1>4 DEF Grant, ReceiverTypeOK
  <2>4. stage' \in [Registrations -> Stages]
    BY <1>4, <1>a, TypePlace DEF Grant, ReceiverTypeOK
  <2> QED BY <1>4, <2>2, <2>3, <2>4 DEF Grant, NetworkTypeOK, ReceiverTypeOK
<1>5. ASSUME NEW m \in requests, RespondFails(m) PROVE NetworkTypeOK' /\ ReceiverTypeOK'
  <2>1. m.conn \in Connections
    BY DEF NetworkTypeOK, ChannelRequest
  <2>2. requests' \in SUBSET ChannelRequest
    BY <1>5 DEF RespondFails, HandlerEnds, NetworkTypeOK
  <2>3. stage' \in [Registrations -> Stages]
    BY <1>5, <1>a DEF RespondFails, ReceiverTypeOK
  <2>4. /\ active' \in [Connections -> SUBSET Registrations]
        /\ serving' \in SUBSET Connections
    BY <1>5 DEF RespondFails, HandlerEnds, ReceiverTypeOK
  <2>5. At("registered", m.channel) \in SUBSET Registrations
    BY ControlNetworkAssumption DEF At, ReceiverTypeOK, Registrations
  <2>6. unwatched' \in SUBSET Registrations
    BY <1>5, <2>1, <2>5 DEF RespondFails, ReceiverTypeOK
  <2> QED BY <1>5, <2>2, <2>3, <2>4, <2>6 DEF RespondFails, NetworkTypeOK, ReceiverTypeOK
<1>6. ASSUME NEW k \in Connections, ControlLost(k) PROVE NetworkTypeOK' /\ ReceiverTypeOK'
  <2>1. requests' \in SUBSET ChannelRequest
    BY <1>6 DEF ControlLost, HandlerEnds, NetworkTypeOK
  <2>2. /\ active' \in [Connections -> SUBSET Registrations]
        /\ serving' \in SUBSET Connections
        /\ cancelled' \in SUBSET Registrations
    BY <1>6 DEF ControlLost, HandlerEnds, ReceiverTypeOK
  <2> QED BY <1>6, <2>1, <2>2 DEF ControlLost, NetworkTypeOK, ReceiverTypeOK
<1>7. ASSUME NEW r \in Registrations, Reopen(r) \/ ReopenPanics(r) \/ InsertOpened(r)
      PROVE  NetworkTypeOK' /\ ReceiverTypeOK'
  <2>1. stage' \in [Registrations -> Stages]
    BY <1>7, <1>a, TypePlace DEF Reopen, ReopenPanics, InsertOpened, ReceiverTypeOK
  <2> QED BY <1>7, <2>1 DEF Reopen, ReopenPanics, InsertOpened, networkVars, NetworkTypeOK, ReceiverTypeOK
<1>8. ASSUME NEW r \in Registrations, ServingStep(r) PROVE NetworkTypeOK' /\ ReceiverTypeOK'
  <2>1. stage' \in [Registrations -> Stages]
    BY <1>8, <1>a, TypePlace
       DEF ServingStep, CancelHandler, RefuseBuffer, ReadClose, NetworkError, ReceiverTypeOK
  <2>2. NetworkTypeOK'
    BY <1>8, TypeDisconnect DEF ServingStep, CancelHandler, RefuseBuffer, ReadClose, NetworkError
  <2> QED BY <1>8, <2>1, <2>2
            DEF ServingStep, CancelHandler, RefuseBuffer, ReadClose, NetworkError, ReceiverTypeOK
<1>9. ASSUME NEW r \in Registrations, CloseQueue(r) PROVE NetworkTypeOK' /\ ReceiverTypeOK'
  BY <1>9 DEF CloseQueue, networkVars, NetworkTypeOK, ReceiverTypeOK
<1> QED BY <1>1, <1>2, <1>3, <1>4, <1>5, <1>6, <1>7, <1>8, <1>9 DEF ReceiverNext, ServingStep

\* The steps of both, and of the network, keep all types.
LEMMA TypeStep ==
    ASSUME TypeOK, [Next]_vars
    PROVE  TypeOK'
<1>1. CASE OpenControl
  <2>1. /\ conn' = connections + 1
        /\ conn' \in Connections
    BY <1>1, ControlNetworkAssumption
       DEF OpenControl, Connect, Connections, TypeOK, NetworkTypeOK
  <2>2. NetworkTypeOK'
    BY <1>1, <2>1, ControlNetworkAssumption
       DEF OpenControl, Connect, Connections, TypeOK, NetworkTypeOK
  <2>3. SenderTypeOK'
    BY <1>1, <2>1 DEF OpenControl, Connect, TypeOK, NetworkTypeOK, SenderTypeOK
  <2>4. ReceiverTypeOK'
    BY <1>1, <2>1 DEF OpenControl, TypeOK, ReceiverTypeOK
  <2> QED BY <2>2, <2>3, <2>4 DEF TypeOK
<1>2. ASSUME NEW c \in Channels, AcceptChannel(c) PROVE TypeOK'
  <2>1. At("wait", c) \subseteq Registrations
    BY ControlNetworkAssumption DEF At, TypeOK, ReceiverTypeOK, Registrations
  <2>2. link' \in [Channels -> Registrations \cup {0}]
    BY <1>2, <2>1 DEF AcceptChannel, TypeOK, NetworkTypeOK
  <2>3. stage' \in [Registrations -> Stages]
    BY <1>2, <2>1, TypePlace DEF AcceptChannel, TypeOK, ReceiverTypeOK, Stages
  <2>4. NetworkTypeOK'
    BY <1>2, <2>2 DEF AcceptChannel, TypeOK, NetworkTypeOK
  <2>5. SenderTypeOK'
    BY <1>2 DEF AcceptChannel, Goto, TypeOK, SenderTypeOK, ChannelStates
  <2>6. ReceiverTypeOK'
    BY <1>2, <2>3 DEF AcceptChannel, TypeOK, ReceiverTypeOK
  <2> QED BY <2>4, <2>5, <2>6 DEF TypeOK
<1>3. CASE SenderStep /\ UNCHANGED receiverVars
  <2>1. NetworkTypeOK' /\ SenderTypeOK'
    BY <1>3, TypeSender DEF SenderStep, SenderAction
  <2> QED BY <1>3, <2>1 DEF TypeOK, ReceiverTypeOK, receiverVars
<1>4. CASE ReceiverNext /\ UNCHANGED senderVars
  <2>1. NetworkTypeOK' /\ ReceiverTypeOK' /\ connections' = connections
    BY <1>4, TypeReceiver
       DEF ReceiverNext, RegisterReceiver, Shutdown, Deny, Grant, RespondFails, ControlLost,
           Reopen, ReopenPanics, InsertOpened, CancelHandler, RefuseBuffer, ReadClose,
           NetworkError, CloseQueue, Disconnect, networkVars
  <2> QED BY <1>4, <2>1 DEF TypeOK, SenderTypeOK, senderVars
<1>5. CASE Lose
  <2>1. NetworkTypeOK' /\ connections' = connections
    BY <1>5, ControlNetworkAssumption DEF Lose, LoseControl, LoseData, TypeOK, NetworkTypeOK
  <2> QED BY <1>5, <2>1 DEF Lose, TypeOK, SenderTypeOK, ReceiverTypeOK, senderVars, receiverVars
<1>6. CASE UNCHANGED vars
  BY <1>6 DEF vars, networkVars, senderVars, receiverVars,
              TypeOK, NetworkTypeOK, SenderTypeOK, ReceiverTypeOK
<1> QED BY <1>1, <1>2, <1>3, <1>4, <1>5, <1>6 DEF Next

\* All types hold in the initial state.
LEMMA TypeInit == Init => TypeOK
<1> SUFFICES ASSUME Init PROVE TypeOK
  OBVIOUS
<1>1. NetworkTypeOK
  BY ControlNetworkAssumption DEF Init, NetworkInit, NetworkTypeOK
<1>2. SenderTypeOK
  BY DEF Init, NetworkInit, SenderInit, SenderTypeOK, ChannelStates
<1>3. ReceiverTypeOK
  BY ControlNetworkAssumption DEF Init, ReceiverInit, ReceiverTypeOK, Stages
<1> QED BY <1>1, <1>2, <1>3 DEF TypeOK

\* Every variable of the control plane keeps its type, the negotiating task works
\* on one channel at most (sender.rs:531-570), and no map grows past its bound.
THEOREM TypeCorrect == Spec => []TypeOK
<1> QED BY TypeInit, TypeStep, PTL DEF Spec

----------------------------------------------------------------------------
(* Where registrations are. *)

\* A registration that is anywhere was made: the maps, the tasks and RetryChannel
\* hold nothing else.
Registered == \A r \in Registrations : stage[r] # "none" => r \in DOMAIN channelOf

\* The invariant of the registrations.
RegistrationInv == TypeOK /\ Registered /\ DroppedForReason /\ HandlersAreWatched

\* The domain of channelOf is a set of registrations.
LEMMA RegistrationDomain ==
    ASSUME TypeOK
    PROVE  /\ DOMAIN channelOf = 1 .. Len(channelOf)
           /\ DOMAIN channelOf \subseteq Registrations
           /\ \A r \in DOMAIN channelOf : channelOf[r] \in Channels
  BY ControlNetworkAssumption DEF TypeOK, ReceiverTypeOK, Registrations

\* A step that drops registrations for a reason, and takes no reason away, keeps
\* DroppedForReason.
LEMMA ReasonsLast ==
    ASSUME RegistrationInv,
           UNCHANGED channelOf,
           cancelled \subseteq cancelled',
           queueClosed \subseteq queueClosed',
           ~controlOpen => ~controlOpen',
           \A r \in Registrations :
              stage'[r] # stage[r] =>
                 /\ stage[r] # "none"
                 /\ stage'[r] = "dropped" =>
                       \/ r \in cancelled' \cup queueClosed'
                       \/ \E q \in DOMAIN channelOf \ {r} : channelOf[q] = channelOf[r]
                       \/ ~controlOpen'
    PROVE  Registered' /\ DroppedForReason'
<1>1. Registered'
  BY DEF RegistrationInv, Registered
<1>2. ASSUME NEW r \in DOMAIN channelOf, stage'[r] = "dropped"
      PROVE  \/ r \in cancelled' \cup queueClosed'
             \/ \E q \in DOMAIN channelOf' \ {r} : channelOf'[q] = channelOf'[r]
             \/ ~controlOpen'
  <2>1. r \in Registrations
    BY RegistrationDomain DEF RegistrationInv
  <2>2. CASE stage'[r] = stage[r]
    BY <1>2, <2>2 DEF RegistrationInv, DroppedForReason
  <2>3. CASE stage'[r] # stage[r]
    BY <1>2, <2>1, <2>3
  <2> QED BY <2>2, <2>3
<1> QED BY <1>1, <1>2 DEF DroppedForReason

\* A step that brings no registration into use, and leaves it watched, keeps
\* HandlersAreWatched.
LEMMA WatchLasts ==
    ASSUME RegistrationInv,
           \A r \in Registrations :
              stage'[r] \in {"insert", "wait", "serve"} =>
                 stage[r] \in {"insert", "wait", "serve"},
           cancelled \subseteq cancelled',
           unwatched \subseteq unwatched',
           UNION {active[k] : k \in serving} \subseteq
              cancelled' \cup unwatched' \cup UNION {active'[k] : k \in serving'}
    PROVE  HandlersAreWatched'
  BY DEF RegistrationInv, HandlersAreWatched

\* A step of the sender touches no registration.
LEMMA RegistrationsUnchanged ==
    ASSUME RegistrationInv, UNCHANGED <<channelOf, stage, queueClosed, cancelled, active,
                                       controlOpen, unwatched>>,
           serving \subseteq serving'
    PROVE  Registered' /\ DroppedForReason' /\ HandlersAreWatched'
<1>1. Registered' /\ DroppedForReason'
  BY ReasonsLast
<1>2. HandlersAreWatched'
  BY WatchLasts
<1> QED BY <1>1, <1>2

\* A new registration replaces one of its channel, and clears what is cancelled.
LEMMA RegisterKeepsRegistrations ==
    ASSUME RegistrationInv, NEW c \in Channels, RegisterReceiver(c)
    PROVE  Registered' /\ DroppedForReason' /\ HandlersAreWatched'
<1> DEFINE r == Len(channelOf) + 1
           cleared == {q \in cancelled : stage[q] = "registered"}
<1>1. /\ DOMAIN channelOf' = DOMAIN channelOf \cup {r}
      /\ r \notin DOMAIN channelOf
      /\ r \in Registrations
      /\ channelOf'[r] = c
      /\ \A q \in DOMAIN channelOf : channelOf'[q] = channelOf[q]
  BY RegistrationDomain, AppendProperties
     DEF RegisterReceiver, RegistrationInv, TypeOK, ReceiverTypeOK
<1>2. /\ stage'[r] = "registered"
      /\ \A q \in Registrations \ {r} :
            stage'[q] = IF q \in cleared \cup At("registered", c) THEN "dropped" ELSE stage[q]
  BY <1>1 DEF RegisterReceiver, Place
<1>3. cancelled \subseteq cancelled' /\ UNCHANGED <<queueClosed, active, serving, controlOpen, unwatched>>
  BY DEF RegisterReceiver
<1>4. Registered'
  BY <1>1, <1>2 DEF RegistrationInv, Registered, At
<1>5. ASSUME NEW q \in DOMAIN channelOf', stage'[q] = "dropped"
      PROVE  \/ q \in cancelled' \cup queueClosed'
             \/ \E p \in DOMAIN channelOf' \ {q} : channelOf'[p] = channelOf'[q]
             \/ ~controlOpen'
  <2>1. q \in DOMAIN channelOf /\ q # r /\ q \in Registrations
    BY <1>1, <1>2, <1>5, RegistrationDomain DEF RegistrationInv
  <2>2. CASE q \in cleared
    BY <1>3, <2>2
  <2>3. CASE q \in At("registered", c)
    BY <1>1, <2>1, <2>3 DEF At
  <2>4. CASE stage[q] = "dropped"
    BY <1>1, <1>3, <2>1, <2>4 DEF RegistrationInv, DroppedForReason
  <2> QED BY <1>2, <1>5, <2>1, <2>2, <2>3, <2>4
<1>6. HandlersAreWatched'
  <2>1. \A q \in Registrations :
           stage'[q] \in {"insert", "wait", "serve"} => stage[q] \in {"insert", "wait", "serve"}
    BY <1>1, <1>2
  <2> QED BY <1>3, <2>1, WatchLasts
<1> QED BY <1>4, <1>5, <1>6 DEF DroppedForReason

\* The control socket handlers grant, deny and end.
LEMMA HandlerKeepsRegistrations ==
    ASSUME RegistrationInv,
           \/ \E m \in requests : Deny(m) \/ RespondFails(m) \/ \E r \in Registrations : Grant(m, r)
           \/ \E k \in Connections : ControlLost(k)
    PROVE  Registered' /\ DroppedForReason' /\ HandlersAreWatched'
<1>a. \A m \in requests : m.conn \in Connections
  BY DEF RegistrationInv, TypeOK, NetworkTypeOK, ChannelRequest
<1>b. \A k \in Connections : active[k] \subseteq Registrations
  BY DEF RegistrationInv, TypeOK, ReceiverTypeOK
<1>1. ASSUME NEW m \in requests, Deny(m) PROVE Registered' /\ DroppedForReason' /\ HandlersAreWatched'
  <2>1. Registered' /\ DroppedForReason'
    BY <1>1, ReasonsLast DEF Deny
  <2>2. \A k \in serving : active[k] \subseteq cancelled \cup active'[k]
    BY <1>1, <1>a DEF Deny, RegistrationInv, TypeOK, ReceiverTypeOK
  <2>3. HandlersAreWatched'
    BY <1>1, <2>2, WatchLasts DEF Deny
  <2> QED BY <2>1, <2>3
<1>2. ASSUME NEW m \in requests, NEW r \in Registrations, Grant(m, r)
      PROVE  Registered' /\ DroppedForReason' /\ HandlersAreWatched'
  <2>1. \A q \in Registrations : stage'[q] = IF q = r THEN "insert" ELSE stage[q]
    BY <1>2 DEF Grant, Place
  <2>2. stage[r] = "registered"
    BY <1>2 DEF Grant, At
  <2>3. Registered' /\ DroppedForReason'
    BY <1>2, <2>1, <2>2, ReasonsLast DEF Grant
  <2>4. /\ \A k \in serving : active[k] \subseteq cancelled \cup active'[k]
        /\ r \in active'[m.conn]
    BY <1>2, <1>a DEF Grant, RegistrationInv, TypeOK, ReceiverTypeOK
  <2>5. ASSUME NEW q \in Registrations, stage'[q] \in {"insert", "wait", "serve"}
        PROVE  q \in cancelled' \cup unwatched' \cup UNION {active'[k] : k \in serving'}
    <3>1. CASE q = r
      BY <1>2, <2>4, <3>1 DEF Grant
    <3>2. CASE q # r
      <4>1. q \in cancelled \cup unwatched \cup UNION {active[k] : k \in serving}
        BY <2>1, <2>5, <3>2 DEF RegistrationInv, HandlersAreWatched
      <4> QED BY <1>2, <2>4, <3>2, <4>1 DEF Grant
    <3> QED BY <3>1, <3>2
  <2> QED BY <2>3, <2>5 DEF HandlersAreWatched
<1>3. ASSUME NEW m \in requests, RespondFails(m)
      PROVE  Registered' /\ DroppedForReason' /\ HandlersAreWatched'
  <2> DEFINE gone == At("registered", m.channel)
  <2>1. \A q \in Registrations : stage'[q] = IF q \in gone THEN "insert" ELSE stage[q]
    BY <1>3 DEF RespondFails
  <2>2. \A q \in gone : stage[q] = "registered"
    BY DEF At
  <2>3. Registered' /\ DroppedForReason'
    BY <1>3, <2>1, <2>2, ReasonsLast DEF RespondFails
  <2>4. /\ \A k \in serving : active[k] \subseteq unwatched' \/ (k \in serving' /\ active'[k] = active[k])
        /\ gone \subseteq unwatched'
        /\ unwatched \subseteq unwatched'
        /\ UNCHANGED cancelled
    BY <1>3, <1>a DEF RespondFails, HandlerEnds, RegistrationInv, TypeOK, ReceiverTypeOK
  <2>5. ASSUME NEW q \in Registrations, stage'[q] \in {"insert", "wait", "serve"}
        PROVE  q \in cancelled' \cup unwatched' \cup UNION {active'[k] : k \in serving'}
    <3>1. CASE q \in gone
      BY <2>4, <3>1
    <3>2. CASE q \notin gone
      <4>1. q \in cancelled \cup unwatched \cup UNION {active[k] : k \in serving}
        BY <2>1, <2>5, <3>2 DEF RegistrationInv, HandlersAreWatched
      <4> QED BY <2>4, <4>1
    <3> QED BY <3>1, <3>2
  <2> QED BY <2>3, <2>5 DEF HandlersAreWatched
<1>4. ASSUME NEW k \in Connections, ControlLost(k)
      PROVE  Registered' /\ DroppedForReason' /\ HandlersAreWatched'
  <2>1. Registered' /\ DroppedForReason'
    BY <1>4, ReasonsLast DEF ControlLost
  <2>2. \A j \in serving : active[j] \subseteq cancelled' \/ (j \in serving' /\ active'[j] = active[j])
    BY <1>4 DEF ControlLost, HandlerEnds, RegistrationInv, TypeOK, ReceiverTypeOK
  <2>3. UNION {active[j] : j \in serving} \subseteq cancelled' \cup UNION {active'[j] : j \in serving'}
    BY <2>2
  <2>4. HandlersAreWatched'
    BY <1>4, <2>3, WatchLasts DEF ControlLost
  <2> QED BY <2>1, <2>4
<1> QED BY <1>1, <1>2, <1>3, <1>4

\* The tasks of channels, RetryChannel and the shutdown of the loop.
LEMMA TaskKeepsRegistrations ==
    ASSUME RegistrationInv,
           \/ Shutdown
           \/ \E r \in Registrations :
                 Reopen(r) \/ ReopenPanics(r) \/ InsertOpened(r) \/ ServingStep(r) \/ CloseQueue(r)
    PROVE  Registered' /\ DroppedForReason' /\ HandlersAreWatched'
<1>1. CASE Shutdown
  <2>1. Registered' /\ DroppedForReason'
    BY <1>1, ReasonsLast DEF Shutdown
  <2>2. HandlersAreWatched'
    BY <1>1, WatchLasts DEF Shutdown
  <2> QED BY <2>1, <2>2
<1>2. ASSUME NEW r \in Registrations, Reopen(r) \/ InsertOpened(r)
      PROVE  Registered' /\ DroppedForReason' /\ HandlersAreWatched'
  <2>1. PICK s \in {"registered", "wait"} :
           /\ \A q \in Registrations :
                 stage'[q] = IF q = r THEN s ELSE IF q \in At(s, channelOf[r]) THEN "dropped" ELSE stage[q]
           /\ stage[r] = IF s = "registered" THEN "reopen" ELSE "insert"
    BY <1>2 DEF Reopen, InsertOpened, Place
  <2>2. UNCHANGED <<channelOf, queueClosed, cancelled, active, serving, controlOpen, unwatched>>
    BY <1>2 DEF Reopen, InsertOpened
  <2>3. r \in DOMAIN channelOf
    BY <2>1 DEF RegistrationInv, Registered
  <2>4. \A q \in At(s, channelOf[r]) : q # r => channelOf[r] = channelOf[q] /\ stage[q] = s
    BY DEF At
  <2>5. Registered' /\ DroppedForReason'
    BY <2>1, <2>2, <2>3, <2>4, ReasonsLast
  <2>6. HandlersAreWatched'
    BY <2>1, <2>2, <2>4, WatchLasts
  <2> QED BY <2>5, <2>6
<1>3. ASSUME NEW r \in Registrations, ReopenPanics(r)
      PROVE  Registered' /\ DroppedForReason' /\ HandlersAreWatched'
  <2>1. \A q \in Registrations : stage'[q] = IF q = r THEN "dropped" ELSE stage[q]
    BY <1>3 DEF ReopenPanics, Place
  <2>2. Registered' /\ DroppedForReason'
    BY <1>3, <2>1, ReasonsLast DEF ReopenPanics
  <2>3. HandlersAreWatched'
    BY <1>3, <2>1, WatchLasts DEF ReopenPanics
  <2> QED BY <2>2, <2>3
<1>4. ASSUME NEW r \in Registrations, ServingStep(r)
      PROVE  Registered' /\ DroppedForReason' /\ HandlersAreWatched'
  <2>1. /\ stage[r] = "serve"
        /\ UNCHANGED <<channelOf, cancelled, active, serving, controlOpen, unwatched>>
        /\ queueClosed \subseteq queueClosed'
    BY <1>4 DEF ServingStep, CancelHandler, RefuseBuffer, ReadClose, NetworkError
  <2>2. PICK s \in {"reopen", "dropped"} :
           /\ \A q \in Registrations : stage'[q] = IF q = r THEN s ELSE stage[q]
           /\ s = "dropped" => r \in cancelled' \cup queueClosed'
    BY <1>4 DEF ServingStep, CancelHandler, RefuseBuffer, ReadClose, NetworkError, Place
  <2>3. Registered' /\ DroppedForReason'
    BY <2>1, <2>2, ReasonsLast
  <2>4. HandlersAreWatched'
    BY <2>1, <2>2, WatchLasts
  <2> QED BY <2>3, <2>4
<1>5. ASSUME NEW r \in Registrations, CloseQueue(r)
      PROVE  Registered' /\ DroppedForReason' /\ HandlersAreWatched'
  <2>1. Registered' /\ DroppedForReason'
    BY <1>5, ReasonsLast DEF CloseQueue
  <2>2. HandlersAreWatched'
    BY <1>5, WatchLasts DEF CloseQueue
  <2> QED BY <2>1, <2>2
<1> QED BY <1>1, <1>2, <1>3, <1>4, <1>5

\* The acceptor moves one registration from waiting to serving.
LEMMA AcceptKeepsRegistrations ==
    ASSUME RegistrationInv, NEW c \in Channels, AcceptChannel(c)
    PROVE  Registered' /\ DroppedForReason' /\ HandlersAreWatched'
<1>1. UNCHANGED <<channelOf, queueClosed, cancelled, active, serving, controlOpen, unwatched>>
  BY DEF AcceptChannel
<1>2. \A q \in Registrations :
         stage'[q] # stage[q] => stage[q] = "wait" /\ stage'[q] = "serve"
  <2>1. CASE At("wait", c) = {}
    BY <2>1 DEF AcceptChannel
  <2>2. ASSUME NEW r \in At("wait", c), Place(r, "serve", {})
        PROVE  \A q \in Registrations :
                  stage'[q] # stage[q] => stage[q] = "wait" /\ stage'[q] = "serve"
    BY <2>2 DEF Place, At
  <2> QED BY <2>1, <2>2 DEF AcceptChannel
<1>3. Registered' /\ DroppedForReason'
  BY <1>1, <1>2, ReasonsLast
<1>4. HandlersAreWatched'
  BY <1>1, <1>2, WatchLasts
<1> QED BY <1>3, <1>4

\* Every step keeps the invariant of the registrations.
LEMMA RegistrationStep ==
    ASSUME RegistrationInv, [Next]_vars
    PROVE  RegistrationInv'
<1>1. TypeOK'
  BY TypeStep DEF RegistrationInv
<1>2. Registered' /\ DroppedForReason' /\ HandlersAreWatched'
  <2>1. CASE OpenControl
    BY <2>1, RegistrationsUnchanged DEF OpenControl
  <2>2. ASSUME NEW c \in Channels, AcceptChannel(c)
        PROVE  Registered' /\ DroppedForReason' /\ HandlersAreWatched'
    BY <2>2, AcceptKeepsRegistrations
  <2>3. CASE SenderStep /\ UNCHANGED receiverVars
    BY <2>3, RegistrationsUnchanged DEF receiverVars
  <2>4. CASE ReceiverNext
    <3>1. ASSUME NEW c \in Channels, RegisterReceiver(c)
          PROVE  Registered' /\ DroppedForReason' /\ HandlersAreWatched'
      BY <3>1, RegisterKeepsRegistrations
    <3> QED BY <2>4, <3>1, HandlerKeepsRegistrations, TaskKeepsRegistrations
              DEF ReceiverNext, ServingStep
  <2>5. CASE Lose
    BY <2>5, RegistrationsUnchanged DEF Lose, receiverVars
  <2>6. CASE UNCHANGED vars
    BY <2>6, RegistrationsUnchanged DEF vars, receiverVars
  <2> QED BY <2>1, <2>2, <2>3, <2>4, <2>5, <2>6 DEF Next
<1> QED BY <1>1, <1>2 DEF RegistrationInv

\* The initial state satisfies it.
LEMMA RegistrationInit == Init => RegistrationInv
<1> SUFFICES ASSUME Init PROVE RegistrationInv
  OBVIOUS
<1>1. \A r \in Registrations : stage[r] = "none"
  BY DEF Init, ReceiverInit
<1>2. Registered /\ HandlersAreWatched
  BY <1>1 DEF Registered, HandlersAreWatched
<1>3. DroppedForReason
  BY <1>1, TypeInit, RegistrationDomain DEF DroppedForReason
<1> QED BY <1>2, <1>3, TypeInit DEF RegistrationInv

\* The invariant of the registrations always holds.
LEMMA RegistrationsCorrect == Spec => []RegistrationInv
<1> QED BY RegistrationInit, RegistrationStep, PTL DEF Spec

\* No registration is lost without a reason, through all replacements, retries and
\* cancellations (receiver.rs:158-198, 345-364).
THEOREM LossHasReason == Spec => []DroppedForReason
<1>1. RegistrationInv => DroppedForReason
  BY DEF RegistrationInv
<1> QED BY <1>1, RegistrationsCorrect, PTL

\* A channel in use goes down with the control connection it was granted on
\* (receiver.rs:213-246).
THEOREM UseIsWatched == Spec => []HandlersAreWatched
<1>1. RegistrationInv => HandlersAreWatched
  BY DEF RegistrationInv
<1> QED BY <1>1, RegistrationsCorrect, PTL

----------------------------------------------------------------------------
(* Grants. *)

\* On the current control connection there is one request or one response at most,
\* and only while a channel waits for it.
OneAtATime ==
    /\ \A m \in requests : m.conn = conn =>
          /\ channel[m.channel] = "requested"
          /\ \A p \in responses : p.conn # conn
    /\ \A m, p \in responses : m.conn = conn /\ p.conn = conn => m = p
    /\ \A m \in responses : m.conn = conn => \E c \in Channels : channel[c] = "requested"
    /\ \A m \in requests \cup responses : m.conn <= connections

\* The sender was told to connect to c.
Told(c) ==
    \/ channel[c] = "connecting"
    \/ /\ channel[c] = "requested"
       /\ [conn |-> conn, typ |-> "OkChannelResponse"] \in responses

\* A task for c waits for the connection, or is about to.
Awaiting(c) == At("insert", c) \cup At("wait", c) # {}

\* The invariant of the grants.
GrantInv == TypeOK /\ Registered /\ OneAtATime /\ OkIsHonoured

\* What the sender was told holds, channel by channel.
LEMMA Honoured == OkIsHonoured <=> \A c \in Channels : Told(c) => Awaiting(c)
  BY DEF OkIsHonoured, Told, Awaiting

\* A task goes on waiting through a step that moves no registration of c from
\* "insert" or "wait" to elsewhere.
LEMMA AwaitingLasts ==
    ASSUME TypeOK, NEW c \in Channels, Awaiting(c),
           DOMAIN channelOf \subseteq DOMAIN channelOf',
           \A r \in DOMAIN channelOf : channelOf'[r] = channelOf[r],
           \A r \in At("insert", c) \cup At("wait", c) : stage'[r] \in {"insert", "wait"}
    PROVE  Awaiting(c)'
  BY DEF Awaiting, At

\* No step of the receiver takes a task away that waits for a connection.
LEMMA ReceiverKeepsWaiting ==
    ASSUME TypeOK, Registered, ReceiverNext, NEW c \in Channels, Awaiting(c)
    PROVE  Awaiting(c)'
<1>d. /\ DOMAIN channelOf \subseteq Registrations
      /\ DOMAIN channelOf = 1 .. Len(channelOf)
  BY RegistrationDomain
<1>1. ASSUME NEW d \in Channels, RegisterReceiver(d) PROVE Awaiting(c)'
  <2>1. /\ DOMAIN channelOf \subseteq DOMAIN channelOf'
        /\ \A r \in DOMAIN channelOf : channelOf'[r] = channelOf[r] /\ r # Len(channelOf) + 1
    BY <1>1, <1>d, AppendProperties DEF RegisterReceiver, TypeOK, ReceiverTypeOK
  <2>2. \A r \in At("insert", c) \cup At("wait", c) : stage'[r] = stage[r]
    BY <1>1, <1>d, <2>1 DEF RegisterReceiver, Place, At
  <2> QED BY <2>1, <2>2, AwaitingLasts DEF At
<1>2. ASSUME UNCHANGED channelOf,
             \A r \in Registrations :
                stage[r] \in {"insert", "wait"} => stage'[r] \in {"insert", "wait"}
      PROVE  Awaiting(c)'
  BY <1>2, <1>d, AwaitingLasts DEF At
<1>3. ASSUME NEW m \in requests, Deny(m) PROVE Awaiting(c)'
  BY <1>2, <1>3 DEF Deny
<1>4. ASSUME NEW m \in requests, NEW r \in Registrations, Grant(m, r) PROVE Awaiting(c)'
  BY <1>2, <1>4 DEF Grant, Place
<1>5. ASSUME NEW m \in requests, RespondFails(m) PROVE Awaiting(c)'
  BY <1>2, <1>5 DEF RespondFails
<1>6. ASSUME NEW k \in Connections, ControlLost(k) PROVE Awaiting(c)'
  BY <1>2, <1>6 DEF ControlLost
<1>7. CASE Shutdown
  BY <1>2, <1>7 DEF Shutdown
<1>8. ASSUME NEW r \in Registrations, Reopen(r) \/ ReopenPanics(r) PROVE Awaiting(c)'
  BY <1>2, <1>8 DEF Reopen, ReopenPanics, Place, At
<1>9. ASSUME NEW r \in Registrations, InsertOpened(r) PROVE Awaiting(c)'
  <2>1. /\ UNCHANGED channelOf
        /\ stage[r] = "insert"
        /\ \A q \in Registrations :
              stage'[q] = IF q = r THEN "wait"
                          ELSE IF q \in At("wait", channelOf[r]) THEN "dropped" ELSE stage[q]
    BY <1>9 DEF InsertOpened, Place
  <2>2. CASE r \in DOMAIN channelOf /\ channelOf[r] = c
    BY <1>d, <2>1, <2>2 DEF Awaiting, At
  <2>3. CASE r \in DOMAIN channelOf /\ channelOf[r] # c
    <3>1. \A q \in At("insert", c) \cup At("wait", c) : stage'[q] = stage[q]
      BY <1>d, <2>1, <2>3 DEF At
    <3> QED BY <2>1, <3>1, AwaitingLasts DEF At
  <2>4. CASE r \notin DOMAIN channelOf
    BY <2>1, <2>4 DEF Registered
  <2> QED BY <2>2, <2>3, <2>4
<1>10. ASSUME NEW r \in Registrations, ServingStep(r) PROVE Awaiting(c)'
  BY <1>2, <1>10 DEF ServingStep, CancelHandler, RefuseBuffer, ReadClose, NetworkError, Place
<1>11. ASSUME NEW r \in Registrations, CloseQueue(r) PROVE Awaiting(c)'
  BY <1>2, <1>11 DEF CloseQueue
<1> QED BY <1>1, <1>3, <1>4, <1>5, <1>6, <1>7, <1>8, <1>9, <1>10, <1>11
         DEF ReceiverNext, ServingStep

\* A step of the sender keeps the order of requests and responses, and is told of
\* no channel it was not told of before.
LEMMA SenderKeepsGrants ==
    ASSUME GrantInv, NEW c \in Channels, SenderAction(c)
    PROVE  OneAtATime' /\ \A d \in Channels : Told(d)' => Told(d)
<1> USE DEF GrantInv
<1>a. /\ conn \in Nat
      /\ channel \in [Channels -> ChannelStates]
      /\ \A e, d \in Channels : channel[e] = "requested" /\ channel[d] = "requested" => e = d
      /\ \A m \in requests : m.conn \in Nat \ {0} /\ m.channel \in Channels
      /\ \A m \in responses : m.conn \in Nat \ {0}
      /\ \A m \in responses : m = [conn |-> m.conn, typ |-> m.typ]
  BY ControlNetworkAssumption
     DEF TypeOK, NetworkTypeOK, SenderTypeOK, ChannelRequest, ChannelResponse, Connections
<1>1. CASE RegisterSender(c) \/ ConnectFails(c) \/ LoseChannel(c)
  <2>1. /\ UNCHANGED <<requests, responses, conn, connections>>
        /\ \A d \in Channels : channel'[d] = channel[d] \/ channel'[d] \in {"asking", "closed"}
        /\ \A d \in Channels : channel[d] = "requested" => channel'[d] = "requested"
    BY <1>1, <1>a DEF RegisterSender, ConnectFails, LoseChannel, Goto, networkVars
  <2> QED BY <1>a, <2>1 DEF OneAtATime, Told
<1>2. CASE SendRequest(c)
  <2>1. /\ UNCHANGED <<responses, conn, connections>>
        /\ requests' \subseteq requests \cup {[conn |-> conn, channel |-> c]}
        /\ \A d \in Channels : channel'[d] = IF d = c THEN "requested" ELSE channel[d]
        /\ \A d \in Channels : channel[d] # "requested"
    BY <1>2, <1>a DEF SendRequest, Goto
  <2>2. /\ \A m \in responses : m.conn # conn
        /\ \A m \in requests : m.conn # conn
        /\ conn <= connections
    BY <1>a, <2>1 DEF OneAtATime, TypeOK, SenderTypeOK, NetworkTypeOK
  <2> QED BY <1>a, <2>1, <2>2 DEF OneAtATime, Told
<1>3. ASSUME NEW m \in responses, ReceiveResponse(c, m)
      PROVE  OneAtATime' /\ \A d \in Channels : Told(d)' => Told(d)
  <2>1. /\ UNCHANGED <<requests, conn, connections>>
        /\ responses' = responses \ {m}
        /\ m.conn = conn
        /\ channel[c] = "requested"
        /\ \A d \in Channels : d # c => channel'[d] = channel[d]
        /\ channel'[c] = IF m.typ = "OkChannelResponse" THEN "connecting" ELSE "asking"
    BY <1>3, <1>a DEF ReceiveResponse, Goto
  <2>2. /\ \A p \in responses' : p.conn # conn
        /\ \A p \in requests : p.conn # conn
    BY <2>1 DEF OneAtATime
  <2>3. OneAtATime'
    BY <2>1, <2>2 DEF OneAtATime
  <2>4. ASSUME NEW d \in Channels, Told(d)' PROVE Told(d)
    <3>1. CASE d = c
      <4>1. m.typ = "OkChannelResponse"
        BY <2>1, <2>4, <3>1 DEF Told
      <4> QED BY <1>a, <2>1, <3>1, <4>1 DEF Told
    <3>2. CASE d # c
      BY <1>a, <2>1, <2>4, <3>2 DEF Told
    <3> QED BY <3>1, <3>2
  <2> QED BY <2>3, <2>4
<1>4. CASE BadConnection(c)
  <2>1. /\ UNCHANGED <<requests, connections>>
        /\ conn' = 0
        /\ responses' \subseteq responses
        /\ \A d \in Channels : channel'[d] = IF d = c THEN "asking" ELSE channel[d]
    BY <1>4, <1>a DEF BadConnection, Goto
  <2>2. \A m \in requests' \cup responses' : m.conn # conn'
    BY <1>a, <2>1
  <2>3. OneAtATime'
    BY <2>1, <2>2 DEF OneAtATime
  <2>4. ASSUME NEW d \in Channels, Told(d)' PROVE Told(d)
    <3>1. ~ [conn |-> conn', typ |-> "OkChannelResponse"] \in responses'
      BY <2>2
    <3> QED BY <2>1, <2>4, <3>1 DEF Told
  <2> QED BY <2>3, <2>4
<1>5. CASE EndChannel(c)
  <2>1. /\ UNCHANGED <<requests, responses, conn, connections>>
        /\ channel[c] = "open"
        /\ \A d \in Channels : channel'[d] = IF d = c THEN "closed" ELSE channel[d]
    BY <1>5, <1>a DEF EndChannel, Goto
  <2> QED BY <1>a, <2>1 DEF OneAtATime, Told
<1> QED BY <1>1, <1>2, <1>3, <1>4, <1>5 DEF SenderAction

\* A request that is answered leaves the answer in its place.
LEMMA AnswerKeepsOrder ==
    ASSUME GrantInv, NEW m \in requests, NEW typ,
           requests' = requests \ {m}, Respond(m.conn, typ),
           UNCHANGED <<conn, channel, connections>>
    PROVE  /\ OneAtATime'
           /\ \A p \in responses' \ responses : p = [conn |-> m.conn, typ |-> typ]
           /\ m.conn = conn => channel[m.channel] = "requested"
<1> USE DEF GrantInv
<1>a. /\ \A p \in requests : p.channel \in Channels /\ p = [conn |-> p.conn, channel |-> p.channel]
      /\ \A e, d \in Channels : channel[e] = "requested" /\ channel[d] = "requested" => e = d
  BY DEF TypeOK, NetworkTypeOK, SenderTypeOK, ChannelRequest
<1>1. /\ responses \subseteq responses'
      /\ responses' \subseteq responses \cup {[conn |-> m.conn, typ |-> typ]}
  BY DEF Respond
<1>2. CASE m.conn = conn
  <2>1. /\ channel[m.channel] = "requested"
        /\ \A p \in responses : p.conn # conn
        /\ \A p \in requests' : p.conn # conn
    BY <1>a, <1>2 DEF OneAtATime
  <2> QED BY <1>a, <1>1, <1>2, <2>1 DEF OneAtATime
<1>3. CASE m.conn # conn
  BY <1>1, <1>3 DEF OneAtATime
<1> QED BY <1>1, <1>2, <1>3 DEF OneAtATime

\* A step of the receiver leaves what the sender was told honoured.
LEMMA ReceiverKeepsGrants ==
    ASSUME GrantInv, ReceiverNext, UNCHANGED senderVars
    PROVE  OneAtATime' /\ \A c \in Channels : Told(c)' => Awaiting(c)'
<1> USE DEF GrantInv
<1>k. \A c \in Channels : Told(c) => Awaiting(c)'
  BY Honoured, ReceiverKeepsWaiting
<1>t. UNCHANGED <<responses, conn, channel>> => \A c \in Channels : Told(c)' => Awaiting(c)'
  BY <1>k DEF Told
<1>1. CASE UNCHANGED <<connections, responses>> /\ requests' \subseteq requests
  <2>1. OneAtATime'
    BY <1>1 DEF OneAtATime, senderVars
  <2> QED BY <1>1, <1>t, <2>1 DEF senderVars
<1>2. ASSUME NEW m \in requests, Deny(m)
      PROVE  OneAtATime' /\ \A c \in Channels : Told(c)' => Awaiting(c)'
  <2>1. /\ OneAtATime'
        /\ \A p \in responses' \ responses : p = [conn |-> m.conn, typ |-> "DenyChannelResponse"]
    BY <1>2, AnswerKeepsOrder DEF Deny, senderVars
  <2>2. \A c \in Channels : Told(c)' => Told(c)
    BY <2>1 DEF Told, senderVars
  <2> QED BY <1>k, <2>1, <2>2
<1>3. ASSUME NEW m \in requests, NEW r \in Registrations, Grant(m, r)
      PROVE  OneAtATime' /\ \A c \in Channels : Told(c)' => Awaiting(c)'
  <2>1. /\ OneAtATime'
        /\ \A p \in responses' \ responses : p = [conn |-> m.conn, typ |-> "OkChannelResponse"]
        /\ m.conn = conn => channel[m.channel] = "requested"
    BY <1>3, AnswerKeepsOrder DEF Grant, senderVars
  <2>2. Awaiting(m.channel)'
    BY <1>3, RegistrationDomain DEF Grant, Place, At, Awaiting
  <2>3. ASSUME NEW c \in Channels, Told(c)' PROVE Awaiting(c)'
    <3>1. CASE Told(c)
      BY <1>k, <3>1
    <3>2. CASE ~Told(c)
      <4>1. channel[c] = "requested" /\ m.conn = conn
        BY <2>1, <2>3, <3>2 DEF Told, senderVars
      <4>2. c = m.channel
        BY <2>1, <4>1 DEF TypeOK, SenderTypeOK, NetworkTypeOK, ChannelRequest
      <4> QED BY <2>2, <4>2
    <3> QED BY <3>1, <3>2
  <2> QED BY <2>1, <2>3
<1>4. ASSUME \/ \E m \in requests : RespondFails(m)
             \/ \E k \in Connections : ControlLost(k)
             \/ \E c \in Channels : RegisterReceiver(c)
             \/ Shutdown
             \/ \E r \in Registrations :
                   \/ Reopen(r) \/ ReopenPanics(r) \/ InsertOpened(r)
                   \/ ServingStep(r) \/ CloseQueue(r)
      PROVE  UNCHANGED <<connections, responses>> /\ requests' \subseteq requests
  BY <1>4 DEF RespondFails, ControlLost, HandlerEnds, RegisterReceiver, Shutdown, Reopen,
       ReopenPanics, InsertOpened, ServingStep, CancelHandler, RefuseBuffer, ReadClose,
       NetworkError, CloseQueue, Disconnect, networkVars
<1> QED BY <1>1, <1>2, <1>3, <1>4 DEF ReceiverNext, ServingStep

\* Every step keeps the invariant of the grants.
LEMMA GrantStep ==
    ASSUME GrantInv, RegistrationInv', [Next]_vars
    PROVE  GrantInv'
<1> USE DEF GrantInv
<1>1. CASE OpenControl
  <2>1. /\ UNCHANGED <<requests, responses, channel, channelOf, stage>>
        /\ connections' = connections + 1
        /\ conn' = connections'
    BY <1>1 DEF OpenControl, Connect
  <2>2. \A m \in requests' \cup responses' : m.conn # conn' /\ m.conn <= connections'
    BY <2>1, ControlNetworkAssumption
       DEF OneAtATime, TypeOK, NetworkTypeOK, ChannelRequest, ChannelResponse, Connections
  <2>3. OneAtATime'
    BY <2>1, <2>2 DEF OneAtATime
  <2>4. ASSUME NEW c \in Channels, Told(c)' PROVE Awaiting(c)'
    <3>1. ~ [conn |-> conn', typ |-> "OkChannelResponse"] \in responses'
      BY <2>2
    <3>2. Told(c)
      BY <2>1, <2>4, <3>1 DEF Told
    <3> QED BY <2>1, <3>2, Honoured DEF Awaiting, At
  <2> QED BY <2>3, <2>4, Honoured DEF RegistrationInv, OkIsHonoured, Told, Awaiting
<1>2. ASSUME NEW c \in Channels, AcceptChannel(c) PROVE GrantInv'
  <2>1. /\ UNCHANGED <<requests, responses, conn, connections, channelOf>>
        /\ channel[c] = "connecting"
        /\ \A d \in Channels : channel'[d] = IF d = c THEN "open" ELSE channel[d]
    BY <1>2 DEF AcceptChannel, Goto, TypeOK, SenderTypeOK
  <2>2. OneAtATime'
    BY <2>1 DEF OneAtATime, TypeOK, NetworkTypeOK, ChannelRequest
  <2>3. ASSUME NEW d \in Channels, Told(d)' PROVE Awaiting(d)'
    <3>1. d # c /\ Told(d)
      BY <2>1, <2>3 DEF Told
    <3>2. \A r \in At("insert", d) \cup At("wait", d) : stage'[r] = stage[r]
      BY <1>2, <3>1, RegistrationDomain DEF AcceptChannel, Place, At
    <3> QED BY <2>1, <3>1, <3>2, AwaitingLasts, Honoured DEF At
  <2> QED BY <2>2, <2>3 DEF RegistrationInv, OkIsHonoured, Told, Awaiting
<1>3. CASE SenderStep /\ UNCHANGED receiverVars
  <2>1. OneAtATime' /\ \A d \in Channels : Told(d)' => Told(d)
    BY <1>3, SenderKeepsGrants DEF SenderStep, SenderAction
  <2>2. \A d \in Channels : Told(d)' => Awaiting(d)'
    BY <1>3, <2>1, Honoured DEF receiverVars, Awaiting, At
  <2> QED BY <2>1, <2>2 DEF RegistrationInv, OkIsHonoured, Told, Awaiting
<1>4. CASE ReceiverNext /\ UNCHANGED senderVars
  BY <1>4, ReceiverKeepsGrants DEF RegistrationInv, OkIsHonoured, Told, Awaiting
<1>5. CASE Lose \/ UNCHANGED vars
  <2>1. UNCHANGED <<requests, responses, connections, conn, channel, channelOf, stage>>
    BY <1>5 DEF Lose, LoseControl, LoseData, vars, networkVars, senderVars, receiverVars
  <2>2. OneAtATime' /\ OkIsHonoured'
    BY <2>1 DEF OneAtATime, OkIsHonoured, At
  <2> QED BY <2>2 DEF RegistrationInv
<1> QED BY <1>1, <1>2, <1>3, <1>4, <1>5 DEF Next

\* The initial state satisfies it.
LEMMA GrantInit == Init => GrantInv
<1> SUFFICES ASSUME Init PROVE GrantInv
  OBVIOUS
<1>1. OneAtATime /\ OkIsHonoured
  BY DEF Init, NetworkInit, SenderInit, OneAtATime, OkIsHonoured
<1> QED BY <1>1, RegistrationInit DEF RegistrationInv, GrantInv

\* A sender that was granted a channel finds a task that waits for it, over whichever
\* control connection the grant came (receiver.rs:227-245, sender.rs:531-570).
THEOREM GrantIsHonoured == Spec => []OkIsHonoured
<1>1. GrantInv => OkIsHonoured
  BY DEF GrantInv
<1> QED BY <1>1, GrantInit, GrantStep, RegistrationsCorrect, PTL DEF Spec

----------------------------------------------------------------------------
(* The abstract rendezvous. *)

\* A channel with a data connection is open, and connected to a registration of
\* its own that serves it.
Paired ==
    \A c \in Channels : link[c] # 0 =>
        /\ channel[c] = "open"
        /\ link[c] \in DOMAIN channelOf
        /\ channelOf[link[c]] = c
        /\ stage[link[c]] = "serve"

\* Nothing is requested that was not registered with the sender.
Asked == \A m \in requests : channel[m.channel] # "unregistered"

\* The map of registered channels holds one registration of a channel.
OneRegistered ==
    \A q, r \in DOMAIN channelOf :
        stage[q] = "registered" /\ stage[r] = "registered" /\ channelOf[q] = channelOf[r] => q = r

\* The invariant of the rendezvous.
PairInv == TypeOK /\ Registered /\ Paired /\ Asked /\ OneRegistered

\* Connections are made between open channels and registrations that serve them,
\* and those that are left have neither end taken away.
LEMMA PairsLast ==
    ASSUME PairInv,
           \A c \in Channels : link'[c] # 0 => link'[c] = link[c] /\ channel'[c] = channel[c],
           DOMAIN channelOf \subseteq DOMAIN channelOf',
           \A r \in DOMAIN channelOf : channelOf'[r] = channelOf[r],
           \A c \in Channels : link'[c] # 0 /\ stage[link[c]] = "serve" => stage'[link[c]] = "serve"
    PROVE  Paired'
  BY DEF PairInv, Paired

\* A step that registers nothing keeps the map.
LEMMA OneRegisteredLasts ==
    ASSUME PairInv, UNCHANGED channelOf,
           \A r \in Registrations : stage'[r] = "registered" => stage[r] = "registered"
    PROVE  OneRegistered'
  BY RegistrationDomain DEF PairInv, OneRegistered

\* The last registration of a channel is the only one in the map.
LEMMA OneIsRegistered ==
    ASSUME PairInv, NEW r \in DOMAIN channelOf', NEW c, channelOf'[r] = c,
           \A q \in DOMAIN channelOf' \ {r} :
              q \in DOMAIN channelOf /\ channelOf'[q] = channelOf[q],
           NEW gone, Place(r, "registered", gone), At("registered", c) \subseteq gone
    PROVE  OneRegistered'
<1>1. ASSUME NEW q \in DOMAIN channelOf', q # r, stage'[q] = "registered" PROVE channelOf'[q] # c
  <2>1. q \in Registrations /\ q \in DOMAIN channelOf /\ channelOf'[q] = channelOf[q]
    BY <1>1, RegistrationDomain DEF PairInv
  <2>2. q \notin gone /\ stage[q] = "registered"
    BY <1>1, <2>1 DEF Place
  <2> QED BY <2>1, <2>2 DEF At
<1>2. ASSUME NEW p \in DOMAIN channelOf', NEW q \in DOMAIN channelOf',
             stage'[p] = "registered", stage'[q] = "registered", channelOf'[p] = channelOf'[q]
      PROVE  p = q
  <2>1. CASE p = r \/ q = r
    BY <1>1, <1>2, <2>1
  <2>2. CASE p # r /\ q # r
    <3>1. /\ p \in DOMAIN channelOf /\ q \in DOMAIN channelOf
          /\ p \in Registrations /\ q \in Registrations
          /\ channelOf[p] = channelOf[q]
      BY <1>2, <2>2, RegistrationDomain DEF PairInv
    <3>2. stage[p] = "registered" /\ stage[q] = "registered"
      BY <1>2, <2>2, <3>1 DEF Place
    <3> QED BY <3>1, <3>2 DEF PairInv, OneRegistered
  <2> QED BY <2>1, <2>2
<1> QED BY <1>2 DEF OneRegistered

\* A step of the sender lets go of connections, and makes none.
LEMMA SenderKeepsPairs ==
    ASSUME PairInv, NEW c \in Channels, SenderAction(c), UNCHANGED <<channelOf, stage>>
    PROVE  Paired' /\ Asked' /\ OneRegistered'
<1> USE DEF PairInv
<1>a. /\ channel \in [Channels -> ChannelStates]
      /\ link \in [Channels -> Registrations \cup {0}]
      /\ \A m \in requests : m.channel \in Channels
  BY DEF TypeOK, NetworkTypeOK, SenderTypeOK, ChannelRequest
<1>1. /\ \A d \in Channels : d # c => channel'[d] = channel[d]
      /\ channel'[c] # "unregistered"
      /\ \A d \in Channels : link'[d] # 0 => link'[d] = link[d]
      /\ link[c] # 0 => link'[c] = 0 \/ channel'[c] = channel[c]
      /\ \A m \in requests' : m \in requests \/ m.channel = c
  <2>1. CASE EndChannel(c)
    BY <1>a, <2>1 DEF EndChannel, Goto
  <2>2. CASE RegisterSender(c) \/ ConnectFails(c) \/ LoseChannel(c)
    BY <1>a, <2>2 DEF RegisterSender, ConnectFails, LoseChannel, Goto, networkVars, Paired
  <2>3. CASE SendRequest(c) \/ BadConnection(c)
    BY <1>a, <2>3 DEF SendRequest, BadConnection, Goto, Paired
  <2>4. ASSUME NEW m \in responses, ReceiveResponse(c, m)
        PROVE  /\ UNCHANGED <<link, requests>>
               /\ channel[c] = "requested"
               /\ channel' = [channel EXCEPT ![c] =
                                IF m.typ = "OkChannelResponse" THEN "connecting" ELSE "asking"]
    BY <2>4 DEF ReceiveResponse, Goto
  <2> QED BY <1>a, <2>1, <2>2, <2>3, <2>4 DEF SenderAction, Paired
<1>2. Paired'
  BY <1>1, PairsLast
<1>3. Asked'
  BY <1>a, <1>1 DEF Asked
<1>4. OneRegistered'
  BY OneRegisteredLasts
<1> QED BY <1>2, <1>3, <1>4

\* Whoever reads or closes the data connection of r disconnects r and nobody else.
LEMMA DisconnectParts ==
    ASSUME PairInv, NEW r \in Registrations, Disconnect(r)
    PROVE  /\ link' = [c \in Channels |-> IF link[c] = r THEN 0 ELSE link[c]]
           /\ \A c, d \in Channels : link[c] = r /\ link[d] = r => c = d
           /\ UNCHANGED requests
<1>1. 0 \notin Registrations
  BY DEF Registrations
<1> QED BY <1>1 DEF PairInv, Paired, Disconnect

\* A step of the receiver connects nobody, and moves no registration that has a
\* connection but with its connection.
LEMMA ReceiverKeepsPairs ==
    ASSUME PairInv, ReceiverNext, UNCHANGED senderVars
    PROVE  Paired' /\ Asked' /\ OneRegistered'
<1> USE DEF PairInv
<1>d. /\ DOMAIN channelOf \subseteq Registrations
      /\ DOMAIN channelOf = 1 .. Len(channelOf)
  BY RegistrationDomain
<1>r. \A r \in DOMAIN channelOf : r \in Registrations /\ r # 0
  BY <1>d
<1>c. UNCHANGED channel
  BY DEF senderVars
<1>0. ASSUME UNCHANGED <<link, channelOf>>, requests' \subseteq requests,
             \A r \in Registrations : stage[r] = "serve" => stage'[r] = "serve",
             \A r \in Registrations : stage'[r] = "registered" => stage[r] = "registered"
      PROVE  Paired' /\ Asked' /\ OneRegistered'
  <2>1. Paired'
    BY <1>0, <1>c, <1>r, PairsLast DEF Paired
  <2> QED BY <1>0, <1>c, <2>1, OneRegisteredLasts DEF Asked
<1>1. ASSUME NEW c \in Channels, RegisterReceiver(c) PROVE Paired' /\ Asked' /\ OneRegistered'
  <2> DEFINE r == Len(channelOf) + 1
             gone == {q \in cancelled : stage[q] = "registered"} \cup At("registered", c)
  <2>1. /\ DOMAIN channelOf' = DOMAIN channelOf \cup {r}
        /\ r \notin DOMAIN channelOf
        /\ r \in Registrations
        /\ channelOf'[r] = c
        /\ \A q \in DOMAIN channelOf : channelOf'[q] = channelOf[q]
    BY <1>1, <1>d, AppendProperties DEF RegisterReceiver, TypeOK, ReceiverTypeOK
  <2>2. Place(r, "registered", gone) /\ UNCHANGED <<link, requests>>
    BY <1>1 DEF RegisterReceiver, networkVars
  <2>3. \A q \in DOMAIN channelOf : stage[q] = "serve" => stage'[q] = "serve"
    BY <1>r, <2>1, <2>2 DEF Place, At
  <2>4. Paired'
    BY <1>c, <2>1, <2>2, <2>3, PairsLast DEF Paired
  <2>5. OneRegistered'
    <3> HIDE DEF r, gone, PairInv
    <3>1. At("registered", c) \subseteq gone
      BY DEF gone
    <3> QED BY <2>1, <2>2, <3>1, OneIsRegistered
  <2> QED BY <1>c, <2>2, <2>4, <2>5 DEF Asked
<1>2. ASSUME NEW r \in Registrations, Reopen(r) PROVE Paired' /\ Asked' /\ OneRegistered'
  <2>1. /\ UNCHANGED <<link, requests, channelOf>>
        /\ Place(r, "registered", At("registered", channelOf[r]))
        /\ stage[r] = "reopen"
        /\ r \in DOMAIN channelOf
    BY <1>2 DEF Reopen, networkVars, Registered
  <2>2. \A q \in DOMAIN channelOf : stage[q] = "serve" => stage'[q] = "serve"
    BY <1>r, <2>1 DEF Place, At
  <2>3. Paired'
    BY <1>c, <2>1, <2>2, PairsLast DEF Paired
  <2>4. OneRegistered'
    <3> HIDE DEF PairInv
    <3> QED BY <2>1, OneIsRegistered
  <2> QED BY <1>c, <2>1, <2>3, <2>4 DEF Asked
<1>3. ASSUME NEW r \in Registrations, ServingStep(r) PROVE Paired' /\ Asked' /\ OneRegistered'
  <2>1. /\ UNCHANGED channelOf
        /\ \E s \in {"dropped", "reopen"} : Place(r, s, {})
        /\ Disconnect(r)
    BY <1>3 DEF ServingStep, CancelHandler, RefuseBuffer, ReadClose, NetworkError
  <2>2. /\ \A q \in Registrations \ {r} : stage'[q] = stage[q]
        /\ stage'[r] # "registered"
    BY <2>1 DEF Place
  <2>3. /\ \A c \in Channels : link'[c] # 0 => link'[c] = link[c] /\ link[c] # r
        /\ UNCHANGED requests
    BY <2>1, DisconnectParts
  <2>4. Paired'
    <3>1. \A c \in Channels : link'[c] # 0 => link[c] \in Registrations \ {r}
      BY <1>r, <2>3 DEF Paired
    <3> QED BY <1>c, <2>1, <2>2, <2>3, <3>1, PairsLast
  <2>5. OneRegistered'
    BY <2>1, <2>2, OneRegisteredLasts
  <2> QED BY <1>c, <2>3, <2>4, <2>5 DEF Asked
<1>4. ASSUME \/ \E m \in requests : Deny(m) \/ RespondFails(m) \/ \E r \in Registrations : Grant(m, r)
             \/ \E k \in Connections : ControlLost(k)
             \/ Shutdown
             \/ \E r \in Registrations : ReopenPanics(r) \/ InsertOpened(r) \/ CloseQueue(r)
      PROVE  /\ UNCHANGED <<link, channelOf>>
             /\ requests' \subseteq requests
             /\ \A r \in Registrations : stage[r] = "serve" => stage'[r] = "serve"
             /\ \A r \in Registrations : stage'[r] = "registered" => stage[r] = "registered"
  <2>1. CASE \E m \in requests : Deny(m) \/ \E r \in Registrations : Grant(m, r)
    BY <2>1 DEF Deny, Grant, Place, At
  <2>2. CASE \E m \in requests : RespondFails(m)
    BY <2>2 DEF RespondFails, HandlerEnds, At
  <2>3. CASE Shutdown \/ \E k \in Connections : ControlLost(k)
    BY <2>3 DEF Shutdown, ControlLost, HandlerEnds, networkVars
  <2>4. CASE \E r \in Registrations : ReopenPanics(r) \/ InsertOpened(r) \/ CloseQueue(r)
    BY <2>4 DEF ReopenPanics, InsertOpened, CloseQueue, Place, At, networkVars
  <2> QED BY <1>4, <2>1, <2>2, <2>3, <2>4
<1> QED BY <1>0, <1>1, <1>2, <1>3, <1>4 DEF ReceiverNext, ServingStep

\* The acceptor connects a channel that had no connection.
LEMMA AcceptKeepsPairs ==
    ASSUME PairInv, NEW c \in Channels, AcceptChannel(c)
    PROVE  Paired' /\ Asked' /\ OneRegistered'
<1> USE DEF PairInv
<1>1. /\ UNCHANGED <<requests, channelOf>>
      /\ channel[c] = "connecting"
      /\ \A d \in Channels : channel'[d] = IF d = c THEN "open" ELSE channel[d]
      /\ link[c] = 0
  BY DEF AcceptChannel, Goto, Paired, TypeOK, SenderTypeOK
<1>2. Asked'
  BY <1>1 DEF Asked, TypeOK, NetworkTypeOK, ChannelRequest
<1>3. CASE UNCHANGED <<link, stage>>
  <2>1. Paired'
    BY <1>1, <1>3 DEF Paired
  <2> QED BY <1>1, <1>2, <1>3, <2>1, OneRegisteredLasts
<1>4. ASSUME NEW r \in At("wait", c), link' = [link EXCEPT ![c] = r], Place(r, "serve", {})
      PROVE  Paired' /\ OneRegistered'
  <2>1. r \in DOMAIN channelOf /\ r \in Registrations /\ channelOf[r] = c /\ stage[r] = "wait"
    BY <1>4, RegistrationDomain DEF At
  <2>2. /\ \A q \in Registrations : stage'[q] = IF q = r THEN "serve" ELSE stage[q]
        /\ \A d \in Channels : link'[d] = IF d = c THEN r ELSE link[d]
    BY <1>4 DEF Place, TypeOK, NetworkTypeOK
  <2>3. ASSUME NEW d \in Channels, link'[d] # 0
        PROVE  /\ channel'[d] = "open"
               /\ link'[d] \in DOMAIN channelOf'
               /\ channelOf'[link'[d]] = d
               /\ stage'[link'[d]] = "serve"
    <3>1. CASE d = c
      BY <1>1, <2>1, <2>2, <3>1
    <3>2. CASE d # c
      BY <1>1, <2>1, <2>2, <2>3, <3>2, RegistrationDomain DEF Paired
    <3> QED BY <3>1, <3>2
  <2>4. Paired'
    BY <2>3 DEF Paired
  <2>5. OneRegistered'
    BY <1>1, <2>2, OneRegisteredLasts
  <2> QED BY <2>4, <2>5
<1> QED BY <1>2, <1>3, <1>4 DEF AcceptChannel

\* Every step keeps the invariant of the rendezvous.
LEMMA PairStep ==
    ASSUME PairInv, RegistrationInv', [Next]_vars
    PROVE  PairInv'
<1> SUFFICES Paired' /\ Asked' /\ OneRegistered'
  BY DEF PairInv, RegistrationInv
<1>1. CASE OpenControl
  <2>1. UNCHANGED <<link, channel, requests, channelOf, stage>>
    BY <1>1 DEF OpenControl, Connect
  <2> QED BY <2>1 DEF PairInv, Paired, Asked, OneRegistered
<1>2. CASE \E c \in Channels : AcceptChannel(c)
  BY <1>2, AcceptKeepsPairs
<1>3. CASE SenderStep /\ UNCHANGED receiverVars
  BY <1>3, SenderKeepsPairs DEF SenderStep, SenderAction, receiverVars
<1>4. CASE ReceiverNext /\ UNCHANGED senderVars
  BY <1>4, ReceiverKeepsPairs
<1>5. CASE Lose \/ UNCHANGED vars
  <2>1. /\ UNCHANGED <<channel, requests, channelOf, stage>>
        /\ \A c \in Channels : link'[c] # 0 => link'[c] = link[c]
    BY <1>5 DEF Lose, LoseControl, LoseData, vars, networkVars, senderVars, receiverVars,
                PairInv, TypeOK, NetworkTypeOK
  <2>2. Paired'
    BY <2>1, PairsLast
  <2> QED BY <2>1, <2>2 DEF PairInv, Asked, OneRegistered
<1> QED BY <1>1, <1>2, <1>3, <1>4, <1>5 DEF Next

\* The initial state satisfies it.
LEMMA PairInit == Init => PairInv
<1> SUFFICES ASSUME Init PROVE PairInv
  OBVIOUS
<1>1. Paired /\ Asked /\ OneRegistered
  BY DEF Init, NetworkInit, ReceiverInit, Paired, Asked, OneRegistered
<1> QED BY <1>1, RegistrationInit DEF RegistrationInv, PairInv

\* What the applications see of the places where registrations are.
LEMMA Views ==
    /\ \A s \in ChannelStates :
          /\ AskerOf[s] = "none" <=> s = "unregistered"
          /\ AskerOf[s] = "asking" <=> s \in {"asking", "requested", "connecting"}
          /\ AskerOf[s] = "open" <=> s = "open"
          /\ AskerOf[s] = "closed" <=> s = "closed"
    /\ \A s \in Stages :
          /\ OfferOf[s] = "offered" <=> s = "registered"
          /\ OfferOf[s] = "granted" <=> s \in {"insert", "wait"}
          /\ OfferOf[s] = "served" <=> s \in {"serve", "reopen"}
          /\ OfferOf[s] = "gone" <=> s = "dropped"
  BY DEF AskerOf, OfferOf, ChannelStates, Stages

Askers == [c \in Channels |-> AskerOf[channel[c]]]
Offers == [r \in Registrations |-> OfferOf[stage[r]]]

\* A step that changes nothing the applications see.
LEMMA Unseen ==
    ASSUME TypeOK, UNCHANGED <<channelOf, link>>,
           \A c \in Channels : AskerOf[channel'[c]] = AskerOf[channel[c]],
           \A r \in Registrations : OfferOf[stage'[r]] = OfferOf[stage[r]]
    PROVE  UNCHANGED Pairing!vars
  BY DEF Pairing!vars

\* The sender's part of a channel changes.
LEMMA SaysMapped ==
    ASSUME TypeOK, NEW c \in Channels, NEW s \in ChannelStates, Goto(c, s)
    PROVE  Askers' = [Askers EXCEPT ![c] = AskerOf[s]]
  BY DEF TypeOK, SenderTypeOK, Goto, Askers

\* A registration is placed, and others are dropped.
LEMMA PlaceMapped ==
    ASSUME TypeOK, NEW r \in Registrations, NEW s, NEW gone, Place(r, s, gone)
    PROVE  Pairing!Becomes(r, OfferOf[s], gone)
  BY DEF Place, Pairing!Becomes, OfferOf, Pairing!Registrations, Registrations

\* The offers that each place stands for.
LEMMA PlaceNames ==
    /\ OfferOf["registered"] = "offered"
    /\ OfferOf["insert"] = "granted" /\ OfferOf["wait"] = "granted"
    /\ OfferOf["serve"] = "served" /\ OfferOf["reopen"] = "served"
    /\ OfferOf["dropped"] = "gone"
  BY DEF OfferOf

\* The registrations of c that are offered, and that are granted.
LEMMA ThoseMapped ==
    ASSUME TypeOK, NEW c
    PROVE  /\ Pairing!Those("offered", c) = At("registered", c)
           /\ Pairing!Those("granted", c) = At("insert", c) \cup At("wait", c)
<1>1. \A r \in DOMAIN channelOf : r \in Registrations /\ stage[r] \in Stages
  BY RegistrationDomain DEF TypeOK, ReceiverTypeOK
<1> QED BY <1>1, Views DEF Pairing!Those, At

\* A step of the sender is one of the asker, or is not seen.
LEMMA SenderMapped ==
    ASSUME PairInv, NEW c \in Channels, SenderAction(c), UNCHANGED receiverVars
    PROVE  [Pairing!Next]_(Pairing!vars)
<1> USE DEF PairInv
<1>a. /\ channel \in [Channels -> ChannelStates]
      /\ link \in [Channels -> Registrations \cup {0}]
  BY DEF TypeOK, NetworkTypeOK, SenderTypeOK
<1>b. {"asking", "closed", "requested", "connecting"} \subseteq ChannelStates
  BY DEF ChannelStates
<1>v. UNCHANGED <<channelOf, stage, Offers>>
  BY DEF receiverVars, Offers
<1>1. CASE RegisterSender(c)
  <2>1. Askers' = [Askers EXCEPT ![c] = "asking"]
    BY <1>1, <1>b, SaysMapped DEF RegisterSender, AskerOf
  <2>2. AskerOf[channel[c]] \in {"none", "closed"}
    BY <1>1 DEF RegisterSender, AskerOf
  <2>3. UNCHANGED link
    BY <1>1 DEF RegisterSender, networkVars
  <2>4. Pairing!Ask(c)
    BY <1>v, <2>1, <2>2, <2>3 DEF Pairing!Ask, Pairing!Says, Askers, Offers
  <2> QED BY <2>4 DEF Pairing!Next
<1>2. CASE EndChannel(c)
  <2>1. Askers' = [Askers EXCEPT ![c] = "closed"]
    BY <1>2, <1>b, SaysMapped DEF EndChannel, AskerOf
  <2>2. Pairing!Close(c)
    BY <1>2, <1>v, <2>1 DEF EndChannel, AskerOf, Pairing!Close, Pairing!Says, Askers, Offers
  <2> QED BY <2>2 DEF Pairing!Next
<1>3. CASE LoseChannel(c)
  <2>1. \/ Askers' = [Askers EXCEPT ![c] = "asking"]
        \/ Askers' = [Askers EXCEPT ![c] = "closed"]
    BY <1>3, <1>b, SaysMapped DEF LoseChannel, AskerOf
  <2>2. Pairing!Resume(c)
    BY <1>3, <1>v, <2>1
       DEF LoseChannel, networkVars, AskerOf, Pairing!Resume, Pairing!Says, Askers, Offers
  <2> QED BY <2>2 DEF Pairing!Next
<1>4. CASE \/ SendRequest(c) \/ BadConnection(c) \/ ConnectFails(c)
           \/ \E m \in responses : ReceiveResponse(c, m)
  <2>1. /\ UNCHANGED link
        /\ channel[c] \in {"asking", "requested", "connecting"}
        /\ channel'[c] \in {"asking", "requested", "connecting"}
        /\ \A d \in Channels \ {c} : channel'[d] = channel[d]
    BY <1>4, <1>a DEF SendRequest, BadConnection, ConnectFails, ReceiveResponse, Goto, networkVars
  <2>2. \A d \in Channels : AskerOf[channel'[d]] = AskerOf[channel[d]]
    BY <2>1 DEF AskerOf
  <2> QED BY <1>v, <2>1, <2>2, Unseen
<1> QED BY <1>1, <1>2, <1>3, <1>4 DEF SenderAction

\* A step of the control socket and its handlers offers or grants a registration,
\* or is not seen.
LEMMA ControlMapped ==
    ASSUME PairInv, NEW m \in requests, UNCHANGED senderVars,
           Deny(m) \/ RespondFails(m) \/ \E r \in Registrations : Grant(m, r)
    PROVE  [Pairing!Next]_(Pairing!vars)
<1> USE DEF PairInv
<1>a. UNCHANGED <<channelOf, link, channel, Askers>>
  BY DEF Deny, RespondFails, Grant, senderVars, Askers
<1>b. m.channel \in Channels /\ channel \in [Channels -> ChannelStates]
  BY DEF TypeOK, NetworkTypeOK, SenderTypeOK, ChannelRequest
<1>1. ASSUME NEW r \in At("registered", m.channel), Place(r, "insert", {})
      PROVE  Pairing!Next
  <2>1. r \in DOMAIN channelOf /\ r \in Registrations /\ channelOf[r] = m.channel
    BY RegistrationDomain DEF At
  <2>2. Offers[r] = "offered"
    BY <2>1 DEF At, Offers, OfferOf
  <2>3. Askers[m.channel] # "none"
    BY <1>b, Views DEF Asked, Askers
  <2>4. Pairing!Becomes(r, "granted", {})
    BY <1>1, <2>1, PlaceMapped DEF OfferOf
  <2>5. Pairing!Grant(r)
    BY <1>a, <2>1, <2>2, <2>3, <2>4 DEF Pairing!Grant, Askers, Offers
  <2> QED BY <2>1, <2>5 DEF Pairing!Next, Pairing!Registrations, Registrations
<1>2. CASE Deny(m)
  <2>1. UNCHANGED stage
    BY <1>2 DEF Deny
  <2> QED BY <1>a, <2>1, Unseen
<1>3. ASSUME NEW r \in Registrations, Grant(m, r) PROVE Pairing!Next
  BY <1>1, <1>3 DEF Grant
<1>4. CASE RespondFails(m)
  <2> DEFINE taken == At("registered", m.channel)
  <2>1. stage' = [r \in Registrations |-> IF r \in taken THEN "insert" ELSE stage[r]]
    BY <1>4 DEF RespondFails
  <2>2. CASE taken = {}
    <3>1. \A r \in Registrations : stage'[r] = stage[r]
      BY <2>1, <2>2
    <3> QED BY <1>a, <3>1, Unseen
  <2>3. ASSUME NEW r \in taken PROVE Pairing!Next
    <3>1. taken = {r}
      BY <2>3 DEF OneRegistered, At
    <3>2. Place(r, "insert", {})
      BY <2>1, <3>1 DEF Place
    <3> QED BY <1>1, <3>2
  <2> QED BY <2>2, <2>3
<1> QED BY <1>2, <1>3, <1>4

\* A step of the task of a registration lets go of its connection, gives it up, or
\* has it offered again.
LEMMA TaskMapped ==
    ASSUME PairInv, NEW r \in Registrations, UNCHANGED senderVars,
           \/ Reopen(r) \/ ReopenPanics(r) \/ InsertOpened(r)
           \/ ServingStep(r)
    PROVE  [Pairing!Next]_(Pairing!vars)
<1> USE DEF PairInv
<1>a. UNCHANGED <<channelOf, channel, Askers>>
  BY DEF Reopen, ReopenPanics, InsertOpened, ServingStep, CancelHandler, RefuseBuffer, ReadClose,
         NetworkError, senderVars, Askers
<1>r. r \in Pairing!Registrations /\ r # 0 /\ r \in DOMAIN channelOf
  BY DEF Pairing!Registrations, Registrations, Reopen, ReopenPanics, InsertOpened, ServingStep,
         CancelHandler, RefuseBuffer, ReadClose, NetworkError, Registered
<1>l. link \in [Channels -> Registrations \cup {0}]
  BY DEF TypeOK, NetworkTypeOK
<1>c. stage[r] = "reopen" => \A c \in Channels : link[c] # r
  BY <1>r DEF Paired
<1>1. CASE Reopen(r)
  <2>1. /\ UNCHANGED link
        /\ Place(r, "registered", At("registered", channelOf[r]))
        /\ stage[r] = "reopen"
    BY <1>1 DEF Reopen, networkVars
  <2>2. Pairing!Becomes(r, "offered", Pairing!Those("offered", channelOf[r]))
    BY <2>1, PlaceNames, ThoseMapped DEF Place, Pairing!Becomes, Pairing!Registrations, Registrations
  <2>3. Pairing!Return(r)
    BY <1>a, <1>c, <2>1, <2>2 DEF Pairing!Return, Pairing!Connected, OfferOf, Askers
  <2> QED BY <1>r, <2>3 DEF Pairing!Next
<1>2. CASE ReopenPanics(r) \/ CancelHandler(r) \/ RefuseBuffer(r)
  <2>1. Place(r, "dropped", {}) /\ stage[r] \in {"serve", "reopen"}
    BY <1>2 DEF ReopenPanics, CancelHandler, RefuseBuffer
  <2>2. link' = [c \in Channels |-> IF link[c] = r THEN 0 ELSE link[c]]
    <3>1. CASE ReopenPanics(r)
      <4>1. link' = link /\ \A c \in Channels : link[c] # r
        BY <1>c, <3>1 DEF ReopenPanics, networkVars
      <4> QED BY <1>l, <4>1
    <3> QED BY <1>2, <3>1 DEF CancelHandler, RefuseBuffer, Disconnect
  <2>3. Pairing!Becomes(r, "gone", {})
    BY <2>1, PlaceMapped DEF OfferOf
  <2>4. Pairing!Discard(r)
    BY <1>a, <2>1, <2>2, <2>3 DEF Pairing!Discard, Pairing!Leave, OfferOf, Askers
  <2> QED BY <1>r, <2>4 DEF Pairing!Next
<1>3. CASE InsertOpened(r)
  <2>1. /\ UNCHANGED link
        /\ stage[r] = "insert"
        /\ Place(r, "wait", At("wait", channelOf[r]))
    BY <1>3 DEF InsertOpened, networkVars
  <2>2. At("wait", channelOf[r]) \subseteq Pairing!Those("granted", channelOf[r]) \ {r}
    BY <2>1, ThoseMapped DEF At
  <2>3. Pairing!Becomes(r, "granted", At("wait", channelOf[r]))
    BY <2>1, PlaceNames DEF Place, Pairing!Becomes, Pairing!Registrations, Registrations
  <2>4. \E gone \in SUBSET (Pairing!Those("granted", channelOf[r]) \ {r}) :
           Pairing!Becomes(r, "granted", gone)
    BY <2>2, <2>3 DEF Pairing!Becomes
  <2>5. Offers[r] = "granted"
    BY <2>1, PlaceNames DEF Offers
  <2>6. Pairing!Supersede(r)
    BY <1>a, <2>1, <2>4, <2>5 DEF Pairing!Supersede, Askers, Offers
  <2> QED BY <1>r, <2>6 DEF Pairing!Next
<1>4. CASE ReadClose(r) \/ NetworkError(r)
  <2>1. /\ stage[r] = "serve"
        /\ Place(r, "reopen", {})
        /\ Disconnect(r)
    BY <1>4 DEF ReadClose, NetworkError
  <2>2. \A q \in Registrations : OfferOf[stage'[q]] = OfferOf[stage[q]]
    BY <2>1 DEF Place, OfferOf
  <2>3. /\ link' = [c \in Channels |-> IF link[c] = r THEN 0 ELSE link[c]]
        /\ \A c, d \in Channels : link[c] = r /\ link[d] = r => c = d
    BY <2>1, DisconnectParts
  <2>4. CASE \A c \in Channels : link[c] # r
    <3>1. UNCHANGED link
      BY <1>l, <2>3, <2>4
    <3> QED BY <1>a, <2>2, <3>1, Unseen
  <2>5. ASSUME NEW c \in Channels, link[c] = r PROVE Pairing!Next
    <3>1. link' = [link EXCEPT ![c] = 0]
      BY <1>l, <2>3, <2>5
    <3>2. Pairing!Part(c)
      BY <1>a, <1>r, <2>2, <2>5, <3>1 DEF Pairing!Part, Askers
    <3> QED BY <3>2 DEF Pairing!Next
  <2> QED BY <2>4, <2>5
<1> QED BY <1>1, <1>2, <1>3, <1>4 DEF ServingStep

\* The acceptor opens a channel, and connects it to whoever waits for it.
LEMMA AcceptMapped ==
    ASSUME PairInv, OkIsHonoured, NEW c \in Channels, AcceptChannel(c)
    PROVE  Pairing!Next
<1> USE DEF PairInv
<1>1. /\ UNCHANGED channelOf
      /\ Askers' = [Askers EXCEPT ![c] = "open"]
      /\ AskerOf[channel[c]] = "asking"
      /\ link[c] = 0
  BY SaysMapped DEF AcceptChannel, AskerOf, ChannelStates, Paired
<1>2. Pairing!Those("granted", c) = At("insert", c) \cup At("wait", c)
  BY ThoseMapped
<1>3. Pairing!Those("granted", c) # {}
  BY <1>2 DEF AcceptChannel, OkIsHonoured
<1>4. CASE UNCHANGED <<link, stage>>
  <2>1. Pairing!Open(c)
    BY <1>1, <1>3, <1>4 DEF Pairing!Open, Pairing!Says, Askers
  <2> QED BY <2>1 DEF Pairing!Next
<1>5. ASSUME NEW r \in At("wait", c), link' = [link EXCEPT ![c] = r], Place(r, "serve", {})
      PROVE  Pairing!Next
  <2>1. r \in Registrations
    BY RegistrationDomain DEF At
  <2>2. Pairing!Becomes(r, "served", {})
    BY <1>5, <2>1, PlaceMapped DEF OfferOf
  <2>3. Pairing!Open(c)
    BY <1>1, <1>2, <1>3, <1>5, <2>2 DEF Pairing!Open, Pairing!Says, Askers
  <2> QED BY <2>3 DEF Pairing!Next
<1> QED BY <1>4, <1>5 DEF AcceptChannel

\* Every step of the control plane is one of the rendezvous, or is not seen.
LEMMA PairingStep ==
    ASSUME PairInv, OkIsHonoured, [Next]_vars
    PROVE  [Pairing!Next]_(Pairing!vars)
<1> USE DEF PairInv
<1>1. CASE OpenControl \/ UNCHANGED vars
  <2>1. UNCHANGED <<channel, stage, channelOf, link>>
    BY <1>1 DEF OpenControl, Connect, vars, networkVars, senderVars, receiverVars
  <2> QED BY <2>1, Unseen
<1>2. CASE \E c \in Channels : AcceptChannel(c)
  BY <1>2, AcceptMapped
<1>3. CASE SenderStep /\ UNCHANGED receiverVars
  BY <1>3, SenderMapped DEF SenderStep, SenderAction
<1>4. CASE Lose
  <2>1. UNCHANGED <<channel, stage, channelOf>>
    BY <1>4 DEF Lose, senderVars, receiverVars
  <2>2. CASE LoseControl
    BY <2>1, <2>2, Unseen DEF LoseControl
  <2>3. CASE LoseData
    <3>1. PICK c \in Channels : link[c] # 0 /\ link' = [link EXCEPT ![c] = 0]
      BY <2>3 DEF LoseData
    <3>2. Pairing!Part(c)
      BY <2>1, <3>1 DEF Pairing!Part
    <3> QED BY <3>2 DEF Pairing!Next
  <2> QED BY <1>4, <2>2, <2>3 DEF Lose
<1>5. ASSUME NEW c \in Channels, RegisterReceiver(c), UNCHANGED senderVars PROVE Pairing!Next
  <2> DEFINE r == Len(channelOf) + 1
             cleared == {q \in cancelled : stage[q] = "registered"}
  <2>1. /\ r \in Registrations
        /\ channelOf' = Append(channelOf, c)
        /\ Place(r, "registered", cleared \cup At("registered", c))
        /\ UNCHANGED <<link, channel>>
    BY <1>5 DEF RegisterReceiver, networkVars, senderVars
  <2>2. Pairing!Becomes(r, "offered", cleared \cup Pairing!Those("offered", c))
    <3> HIDE DEF r, cleared
    <3> QED BY <2>1, PlaceNames, ThoseMapped
            DEF Place, Pairing!Becomes, Pairing!Registrations, Registrations
  <2>3. cleared \in SUBSET {q \in Registrations : Offers[q] = "offered"}
    BY DEF Offers, OfferOf, TypeOK, ReceiverTypeOK
  <2>4. Pairing!Offer(c)
    <3> HIDE DEF cleared
    <3>1. \E lapsed \in SUBSET {q \in Registrations : Offers[q] = "offered"} :
             Pairing!Becomes(r, "offered", lapsed \cup Pairing!Those("offered", c))
      BY <2>2, <2>3 DEF Pairing!Becomes
    <3>2. UNCHANGED Askers
      BY <2>1 DEF Askers
    <3> QED BY <2>1, <3>1, <3>2
            DEF Pairing!Offer, Pairing!Registrations, Registrations, Offers, Askers
  <2> QED BY <2>4 DEF Pairing!Next
<1>6. CASE Shutdown /\ UNCHANGED senderVars
  BY <1>6, Unseen DEF Shutdown, networkVars, senderVars
<1>7. ASSUME NEW k \in Connections, ControlLost(k), UNCHANGED senderVars
      PROVE  UNCHANGED Pairing!vars
  BY <1>7, Unseen DEF ControlLost, senderVars
<1>8. ASSUME NEW r \in Registrations, CloseQueue(r), UNCHANGED senderVars
      PROVE  UNCHANGED Pairing!vars
  BY <1>8, Unseen DEF CloseQueue, networkVars, senderVars
<1>9. CASE ReceiverNext /\ UNCHANGED senderVars
  <2> HIDE DEF PairInv
  <2> QED BY <1>5, <1>6, <1>7, <1>8, <1>9, ControlMapped, TaskMapped DEF ReceiverNext, ServingStep
<1> QED BY <1>1, <1>2, <1>3, <1>4, <1>9 DEF Next

\* Through lost connections, retries and cancellations, an open channel is connected
\* to a registration of its own that was granted, which is offered again only without
\* its connection (sender.rs:531-614, receiver.rs:134-198, 206-248, 294-304).
THEOREM RendezvousImplemented == Spec => ImplementsRendezvous
<1>1. Init => Pairing!Init
  BY DEF Init, NetworkInit, SenderInit, ReceiverInit, Pairing!Init, Pairing!Registrations,
         Registrations, AskerOf, OfferOf
<1>2. PairInv /\ OkIsHonoured /\ [Next]_vars => [Pairing!Next]_(Pairing!vars)
  BY PairingStep
<1>3. GrantInv => OkIsHonoured
  BY DEF GrantInv
<1> QED
  BY <1>1, <1>2, <1>3, PairInit, PairStep, GrantInit, GrantStep, RegistrationsCorrect, PTL
     DEF Spec, ImplementsRendezvous, Pairing!Spec
=============================================================================
