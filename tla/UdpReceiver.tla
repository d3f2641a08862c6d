----------------------------- MODULE UdpReceiver -----------------------------
(***************************************************************************)
(* UdpReceiver of external/BDSPro_UDP_Channel/src/lib.rs: tasks that call  *)
(* receive_message, a consumer that calls receive_from_buffer, and         *)
(* request_retransmit.                                                     *)
(***************************************************************************)
EXTENDS UdpNetwork

CONSTANTS
    Readers,        \* tasks that call receive_message
    BufferSize,     \* FlowControlConfig::receive_buffer_size
    Oversized,      \* payloads whose DATA datagram exceeds the 1024-byte read buffer
    RequestedSeqs,  \* sequence numbers passed to request_retransmit
    MaxAckErrors    \* bound: how many send_to calls of an ACK fail

ASSUME ReadersAssumption == IsFiniteSet(Readers)
ASSUME BufferAssumption == BufferSize \in Nat
ASSUME ReceiverBounds ==
    /\ Oversized \subseteq Callers
    /\ RequestedSeqs \subseteq Seqs
    /\ MaxAckErrors \in Nat

VARIABLES
    receivedSeqs,   \* UdpReceiver::received_seqs
    buffer,         \* UdpReceiver::receive_buffer
    bufferPermits,  \* available permits of UdpReceiver::buffer_semaphore
    reader,         \* per reader: where its receive_message stands, and its message
    ackErrors       \* history: ACKs whose send_to failed

receiverVars == <<receivedSeqs, buffer, bufferPermits, reader, ackErrors>>

ReaderStates == {"idle", "record", "push", "ack"}

NoMessage == [seq |-> 0]

ReceiverTypeOK ==
    /\ receivedSeqs \in SUBSET Seqs
    /\ buffer \in Seq(DataMessage)
    /\ bufferPermits \in Nat
    /\ reader \in [Readers -> [at : ReaderStates, msg : DataMessage \cup {NoMessage}]]
    /\ \A r \in Readers : reader[r].at # "idle" => reader[r].msg \in DataMessage
    /\ ackErrors \in Nat

ReceiverInit ==
    /\ receivedSeqs = {}
    /\ buffer = <<>>
    /\ bufferPermits = BufferSize
    /\ reader = [r \in Readers |-> [at |-> "idle", msg |-> NoMessage]]
    /\ ackErrors = 0

Advance(r, next) == reader' = [reader EXCEPT ![r] = [at |-> next, msg |-> @.msg]]

Finish(r) == reader' = [reader EXCEPT ![r] = [at |-> "idle", msg |-> NoMessage]]

\* recv_from, parse and try_acquire: no await lies between them.
ReceiveData(r, m, rest) ==
    /\ reader[r].at = "idle"
    /\ m \in toReceiver
    /\ m.data \notin Oversized
    /\ bufferPermits > 0
    /\ bufferPermits' = bufferPermits - 1
    /\ reader' = [reader EXCEPT ![r] = [at |-> "record", msg |-> m]]
    /\ toReceiver' = rest
    /\ UNCHANGED <<toSender, receivedSeqs, buffer, ackErrors>>

\* Mutant of ReceiveBufferFull: a message for which there is no room is acknowledged.
AckWhenFull(r, m) ==
    /\ reader[r].at = "idle"
    /\ m \in toReceiver
    /\ m.data \notin Oversized
    /\ bufferPermits = 0
    /\ toReceiver' = toReceiver \ {m}
    /\ toSender' = toSender \cup {[typ |-> "ACK", seq |-> m.seq]}
    /\ UNCHANGED receiverVars

\* No room: the message is gone, a FLOW_CONTROL datagram goes back, and the
\* caller gets Err(ReceiveBufferFull).
ReceiveBufferFull(r, m) ==
    /\ reader[r].at = "idle"
    /\ m \in toReceiver
    /\ m.data \notin Oversized
    /\ bufferPermits = 0
    /\ toReceiver' = toReceiver \ {m}
    /\ toSender' = toSender \cup {FlowControl}
    /\ UNCHANGED receiverVars

\* A datagram cut off at 1024 bytes does not parse: Err(Serialization), no ACK.
ReceiveTruncated(r, m) ==
    /\ reader[r].at = "idle"
    /\ m \in toReceiver
    /\ m.data \in Oversized
    /\ toReceiver' = toReceiver \ {m}
    /\ UNCHANGED <<toSender, receiverVars>>

\* Mutant of RecordReceived: a number received before is dropped without an ACK.
DropDuplicate(r) ==
    /\ reader[r].at = "record"
    /\ IF reader[r].msg.seq \in receivedSeqs
       THEN /\ bufferPermits' = bufferPermits + 1
            /\ Finish(r)
            /\ UNCHANGED receivedSeqs
       ELSE /\ receivedSeqs' = receivedSeqs \cup {reader[r].msg.seq}
            /\ Advance(r, "push")
            /\ UNCHANGED bufferPermits
    /\ UNCHANGED <<networkVars, buffer, ackErrors>>

RecordReceived(r) ==
    /\ reader[r].at = "record"
    /\ receivedSeqs' = receivedSeqs \cup {reader[r].msg.seq}
    /\ Advance(r, "push")
    /\ UNCHANGED <<networkVars, buffer, bufferPermits, ackErrors>>

\* A number received before is pushed again: received_seqs is not consulted.
PushBuffer(r) ==
    /\ reader[r].at = "push"
    /\ buffer' = Append(buffer, reader[r].msg)
    /\ Advance(r, "ack")
    /\ UNCHANGED <<networkVars, receivedSeqs, bufferPermits, ackErrors>>

\* Mutant of SendAck: the permit is dropped instead of forgotten.
SendAckDropsPermit(r) ==
    /\ reader[r].at = "ack"
    /\ toSender' = toSender \cup {[typ |-> "ACK", seq |-> reader[r].msg.seq]}
    /\ bufferPermits' = bufferPermits + 1
    /\ Finish(r)
    /\ UNCHANGED <<toReceiver, receivedSeqs, buffer, ackErrors>>

\* The ACK is sent and the permit forgotten.
SendAck(r) ==
    /\ reader[r].at = "ack"
    /\ toSender' = toSender \cup {[typ |-> "ACK", seq |-> reader[r].msg.seq]}
    /\ Finish(r)
    /\ UNCHANGED <<toReceiver, receivedSeqs, buffer, bufferPermits, ackErrors>>

\* send_to fails: `?` returns and drops the permit, while the message stays
\* in the buffer.
AckError(r) ==
    /\ reader[r].at = "ack"
    /\ ackErrors < MaxAckErrors
    /\ ackErrors' = ackErrors + 1
    /\ bufferPermits' = bufferPermits + 1
    /\ Finish(r)
    /\ UNCHANGED <<networkVars, receivedSeqs, buffer>>

\* receive_from_buffer: pop and release are one step under the buffer's lock.
ReceiveFromBuffer ==
    /\ buffer # <<>>
    /\ buffer' = Tail(buffer)
    /\ bufferPermits' = bufferPermits + 1
    /\ UNCHANGED <<networkVars, receivedSeqs, reader, ackErrors>>

RequestRetransmit(s) ==
    /\ toSender' = toSender \cup {[typ |-> "RQST", seq |-> s]}
    /\ UNCHANGED <<toReceiver, receiverVars>>

ReceiverNext ==
    \/ \E r \in Readers :
          \/ \E m \in toReceiver :
                \/ \E rest \in ReadDatagram(toReceiver, m) : ReceiveData(r, m, rest)
                \/ ReceiveBufferFull(r, m)
                \/ ReceiveTruncated(r, m)
          \/ RecordReceived(r)
          \/ PushBuffer(r)
          \/ SendAck(r)
          \/ AckError(r)
    \/ ReceiveFromBuffer
    \/ \E s \in RequestedSeqs : RequestRetransmit(s)
=============================================================================
