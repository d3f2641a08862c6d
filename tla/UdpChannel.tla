----------------------------- MODULE UdpChannel -----------------------------
(***************************************************************************)
(* A UdpSender connected to a UdpReceiver by an unreliable network.  Both  *)
(* ends see each other only through the datagrams in transit.              *)
(***************************************************************************)
EXTENDS UdpSender, UdpReceiver

vars == <<networkVars, senderVars, receiverVars>>

Init ==
    /\ NetworkInit
    /\ SenderInit
    /\ ReceiverInit

Lose ==
    /\ \/ \E m \in toReceiver : LoseData(m)
       \/ \E m \in toSender : LoseReply(m)
    /\ UNCHANGED <<senderVars, receiverVars>>

\* A step of one end leaves the variables of the other end alone.
Sender(step) == step /\ UNCHANGED receiverVars

Receiver(step) == step /\ UNCHANGED senderVars

Next ==
    \/ Sender(SenderNext)
    \/ Receiver(ReceiverNext)
    \/ Lose

Spec == Init /\ [][Next]_vars

----------------------------------------------------------------------------
(* Safety. *)

TypeOK ==
    /\ NetworkTypeOK
    /\ SenderTypeOK
    /\ ReceiverTypeOK

CallersAt(states) == {c \in Callers : call[c].at \in states}

ReadersAt(states) == {r \in Readers : reader[r].at \in states}

\* The send window is conserved: a slot is an available permit, an entry in
\* flight, or a call between acquire and in_flight.insert (lib.rs:208-236).
\* Whatever the callers, the replies (duplicated, late, reordered), the
\* retransmissions and the timeouts do, the only way to gain a slot is a
\* failed socket.send, which leaves its entry in flight, and the only way to
\* lose one is a number inserted while it is still in flight.
WindowConserved ==
    Cardinality(DOMAIN inFlight) + permits + Cardinality(CallersAt({"record", "track"}))
        + overwritten = Window + sendErrors

\* The receive buffer is conserved in the same way: a slot is a permit, a
\* buffered message, or a reader between try_acquire and push_back
\* (lib.rs:321-342); only an ACK whose send fails gains one.
BufferConserved ==
    Len(buffer) + bufferPermits + Cardinality(ReadersAt({"record", "push"}))
        = BufferSize + ackErrors

\* The numbers the sender still answers for: in flight, or about to be.
Open == DOMAIN inFlight \cup {call[c].seq : c \in CallersAt({"track"})}

\* A number leaves the window only once the receiver has recorded it, no
\* matter which acknowledgements are lost, duplicated or late (lib.rs:147-153).
ReleasedWasReceived == DOMAIN sentMessages \ Open \subseteq receivedSeqs

\* Why it holds, first part: an acknowledgement exists only for a recorded
\* number, from the reader about to send it to the sender's reply queue.
AckedWasReceived ==
    /\ \A r \in Readers : reader[r].at \in {"push", "ack"} => reader[r].msg.seq \in receivedSeqs
    /\ \A m \in toSender : m.typ = "ACK" => m.seq \in receivedSeqs
    /\ \A i \in 1 .. Len(replies) : replies[i].typ = "ACK" => replies[i].seq \in receivedSeqs

\* Second part: whatever travels or waits to travel bears a recorded number.
SentWasAccepted ==
    /\ \A c \in Callers : call[c].at \in {"track", "transmit"}
                            => call[c].seq \in DOMAIN sentMessages
    /\ DOMAIN inFlight \subseteq DOMAIN sentMessages
    /\ \A m \in toRetransmit \cup toReceiver : m.seq \in DOMAIN sentMessages
    /\ \A r \in Readers : reader[r].at # "idle" => reader[r].msg.seq \in DOMAIN sentMessages

\* Every copy of a message - in transit, awaiting its ACK, picked for
\* retransmission, or delivered - is the one recorded for its number, as long
\* as the numbers come from send_message_auto_seq (lib.rs:252-255): numbers
\* taken by concurrent calls never collide.
OneMessagePerSeq ==
    LET copies == toReceiver \cup toRetransmit
                    \cup {buffer[i] : i \in DOMAIN buffer}
                    \cup {[seq |-> s, data |-> inFlight[s]] : s \in DOMAIN inFlight}
    IN  \A m \in copies : m.seq \in DOMAIN sentMessages /\ m.data = sentMessages[m.seq]

----------------------------------------------------------------------------
(* Liveness. *)

\* A read that leaves a duplicate behind.
Duplicate ==
    \/ \E m \in toSender : QueueReply(m, toSender)
    \/ \E r \in Readers, m \in toReceiver : ReceiveData(r, m, toReceiver)

\* The network may do what it likes for as long as it likes, but not for ever:
\* against one that always does no retransmission scheme makes progress.
EventuallyReliable == <>[][~Lose /\ ~Duplicate]_vars

\* Every task of the code is a tokio task that keeps being polled, and every
\* await of it (lock, queue, socket, timer) is one that completes.  A datagram
\* that stays in transit is read in the end.  The receiver's application keeps
\* calling receive_message and receive_from_buffer.
Fairness ==
    /\ \A c \in Callers :
          /\ WF_vars(Sender(AcquirePermit(c) \/ SendWindowFull(c)))
          /\ WF_vars(Sender(RecordSent(c) \/ TrackInFlight(c) \/ Transmit(c)))
    /\ \A s \in Seqs :
          /\ LET ack == [typ |-> "ACK", seq |-> s]
             IN  SF_vars(Sender(QueueReply(ack, toSender \ {ack})))
          /\ WF_vars(Sender(Expire(s)))
    /\ WF_vars(Sender(HandleAck \/ HandleRequest))
    /\ WF_vars(Sender(ScanExpired))
    /\ \A m \in DataMessage :
          /\ WF_vars(Sender(Retransmit(m)))
          /\ SF_vars(Receiver(\E r \in Readers : ReceiveData(r, m, toReceiver \ {m})))
    /\ \A r \in Readers :
          WF_vars(Receiver(RecordReceived(r) \/ PushBuffer(r) \/ SendAck(r)))
    /\ WF_vars(Receiver(ReceiveFromBuffer))

FairSpec == Spec /\ Fairness /\ EventuallyReliable

\* The channel implements AtLeastOnce: a recorded number is accepted, a number
\* that is no longer open is released.
Abstract == INSTANCE AtLeastOnce WITH
    Numbers <- Seqs,
    accepted <- DOMAIN sentMessages,
    received <- receivedSeqs,
    released <- DOMAIN sentMessages \ Open

\* Safety part: no release before receipt, no receipt of what was never sent.
ImplementsAtLeastOnce == Abstract!Spec

\* The accepted messages that fit a datagram.
Fitting == {s \in DOMAIN sentMessages : sentMessages[s] \notin Oversized}

Deliverable == INSTANCE AtLeastOnce WITH
    Numbers <- Seqs,
    accepted <- Fitting,
    received <- receivedSeqs,
    released <- Fitting \ Open

\* Liveness part: every message that fits a datagram is received, acknowledged
\* and leaves the window (lib.rs:163-192), even one whose first send failed,
\* and whatever is retransmitted in vain next to it.
ImplementsFairAtLeastOnce == Deliverable!FairSpec
=============================================================================
