----------------------------- MODULE Rendezvous -----------------------------
(***************************************************************************)
(* What a sender service and a receiver service promise the applications   *)
(* that register channels with them: an asker is connected to a            *)
(* registration of its channel that was granted, and to nothing else, a    *)
(* registration serves one connection at a time and is offered again only  *)
(* once that one is gone.                                                  *)
(***************************************************************************)
EXTENDS Naturals, Sequences

CONSTANTS Channels, MaxRegistrations

VARIABLES
    asker,      \* per channel: what has become of its registration with the sender
    channelOf,  \* the channels of the registrations with the receiver
    offer,      \* what has become of each of them
    partner     \* per channel: the registration it is connected to, or 0

vars == <<asker, channelOf, offer, partner>>

Registrations == 1 .. MaxRegistrations

Init ==
    /\ asker = [c \in Channels |-> "none"]
    /\ channelOf = <<>>
    /\ offer = [r \in Registrations |-> "none"]
    /\ partner = [c \in Channels |-> 0]

\* The registrations of channel c that are offered, or granted.
Those(state, c) == {r \in DOMAIN channelOf : offer[r] = state /\ channelOf[r] = c}

\* r changes its state, and those in gone are given up.
Becomes(r, state, gone) ==
    offer' = [q \in Registrations |->
                IF q = r THEN state ELSE IF q \in gone THEN "gone" ELSE offer[q]]

Says(c, state) == asker' = [asker EXCEPT ![c] = state]

Connected(r) == \E c \in Channels : partner[c] = r

\* Whoever is connected to r is so no longer.
Leave(r) == partner' = [c \in Channels |-> IF partner[c] = r THEN 0 ELSE partner[c]]

Ask(c) ==
    /\ asker[c] \in {"none", "closed"}
    /\ Says(c, "asking")
    /\ UNCHANGED <<channelOf, offer, partner>>

\* A new registration takes the place of one that is offered, and others may lapse.
Offer(c) ==
    LET r == Len(channelOf) + 1
    IN  /\ r \in Registrations
        /\ channelOf' = Append(channelOf, c)
        /\ \E lapsed \in SUBSET {q \in Registrations : offer[q] = "offered"} :
              Becomes(r, "offered", lapsed \cup Those("offered", c))
        /\ UNCHANGED <<asker, partner>>

\* Only what was asked for is granted.
Grant(r) ==
    /\ offer[r] = "offered"
    /\ asker[channelOf[r]] # "none"
    /\ Becomes(r, "granted", {})
    /\ UNCHANGED <<asker, channelOf, partner>>

\* Of a channel that is granted again, the earlier grant may be given up.
Supersede(r) ==
    /\ offer[r] = "granted"
    /\ \E gone \in SUBSET (Those("granted", channelOf[r]) \ {r}) : Becomes(r, "granted", gone)
    /\ UNCHANGED <<asker, channelOf, partner>>

\* An asker opens its channel when a registration is granted, and is connected to
\* one, or comes too early for it and is connected to none.
Open(c) ==
    /\ asker[c] = "asking"
    /\ partner[c] = 0
    /\ Those("granted", c) # {}
    /\ Says(c, "open")
    /\ \/ UNCHANGED <<offer, partner>>
       \/ \E r \in Those("granted", c) :
             /\ partner' = [partner EXCEPT ![c] = r]
             /\ Becomes(r, "served", {})
    /\ UNCHANGED channelOf

\* The connection is lost, or the receiver ends it.
Part(c) ==
    /\ partner[c] # 0
    /\ partner' = [partner EXCEPT ![c] = 0]
    /\ UNCHANGED <<asker, channelOf, offer>>

\* The sender's application is through with its channel.
Close(c) ==
    /\ asker[c] = "open"
    /\ Says(c, "closed")
    /\ partner' = [partner EXCEPT ![c] = 0]
    /\ UNCHANGED <<channelOf, offer>>

\* An asker without a connection asks again, or is told that the channel is closed.
Resume(c) ==
    /\ asker[c] = "open"
    /\ partner[c] = 0
    /\ Says(c, "asking") \/ Says(c, "closed")
    /\ UNCHANGED <<channelOf, offer, partner>>

\* A registration without a connection is offered again, in place of any other.
Return(r) ==
    /\ offer[r] = "served"
    /\ ~Connected(r)
    /\ Becomes(r, "offered", Those("offered", channelOf[r]))
    /\ UNCHANGED <<asker, channelOf, partner>>

\* A registration is given up, with its connection.
Discard(r) ==
    /\ offer[r] = "served"
    /\ Becomes(r, "gone", {})
    /\ Leave(r)
    /\ UNCHANGED <<asker, channelOf>>

Next ==
    \/ \E c \in Channels : Ask(c) \/ Offer(c) \/ Open(c) \/ Part(c) \/ Close(c) \/ Resume(c)
    \/ \E r \in Registrations : Grant(r) \/ Supersede(r) \/ Return(r) \/ Discard(r)

Spec == Init /\ [][Next]_vars
=============================================================================
