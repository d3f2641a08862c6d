--------------------------- MODULE ControlNetwork ---------------------------
(***************************************************************************)
(* What a sender service and a receiver service of network/src share: the  *)
(* control connections they negotiate channels on, one after another, and  *)
(* the data connections of the channels.                                   *)
(***************************************************************************)
EXTENDS Naturals, Sequences, FiniteSets

CONSTANTS
    Channels,           \* channel identifiers
    MaxConnections,     \* bound: control connections the sender makes; the last is not lost
    MaxRegistrations    \* bound: how often the receiver's applications register a channel

ASSUME ControlNetworkAssumption ==
    /\ IsFiniteSet(Channels)
    /\ MaxConnections \in Nat \ {0}
    /\ MaxRegistrations \in Nat

VARIABLES
    connections,    \* control connections made so far, numbered 1, 2, ...
    up,             \* those that carry data
    requests,       \* ChannelRequest frames in transit
    responses,      \* ControlChannelResponse frames in transit
    link,           \* per channel: the registration its data connection was handed
                    \* to, 0 while it has none
    closeSent       \* registrations whose data connection ends in a Close

networkVars == <<connections, up, requests, responses, link, closeSent>>

Connections == 1 .. MaxConnections
Registrations == 1 .. MaxRegistrations

ChannelRequest == [conn : Connections, channel : Channels]
ChannelResponse == [conn : Connections, typ : {"OkChannelResponse", "DenyChannelResponse"}]

NetworkTypeOK ==
    /\ connections \in 0 .. MaxConnections
    /\ up \in SUBSET (1 .. connections)
    /\ requests \in SUBSET ChannelRequest
    /\ responses \in SUBSET ChannelResponse
    /\ link \in [Channels -> Registrations \cup {0}]
    /\ closeSent \in SUBSET Registrations

NetworkInit ==
    /\ connections = 0
    /\ up = {}
    /\ requests = {}
    /\ responses = {}
    /\ link = [c \in Channels |-> 0]
    /\ closeSent = {}

\* A control connection that is lost may still deliver what it carries.
LoseControl ==
    /\ \E k \in up \ {MaxConnections} : up' = up \ {k}
    /\ UNCHANGED <<connections, requests, responses, link, closeSent>>

LoseData ==
    /\ \E c \in Channels : link[c] # 0 /\ link' = [link EXCEPT ![c] = 0]
    /\ UNCHANGED <<connections, up, requests, responses, closeSent>>
=============================================================================
