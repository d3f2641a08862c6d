------------------------------ MODULE UdpSender ------------------------------
(***************************************************************************)
(* UdpSender of external/BDSPro_UDP_Channel/src/lib.rs: the callers of     *)
(* send_message, the receive task and the reply handler it feeds through   *)
(* an mpsc queue, and the task that retransmits what is not acknowledged.  *)
(* Each .await of the code is a step boundary; what happens under one lock *)
(* is one step.                                                            *)
(***************************************************************************)
EXTENDS UdpNetwork

CONSTANTS
    Window,         \* FlowControlConfig::send_window_size
    ReplyQueueSize, \* capacity of the mpsc queue between receive task and handler
    ExplicitSeqs,   \* sequence numbers callers pass to send_message themselves
    MaxExplicit,    \* bound: how many calls do so
    MaxSendErrors   \* bound: how many socket.send calls of send_message fail

ASSUME WindowAssumption == Window \in Nat
ASSUME SenderBounds ==
    /\ ReplyQueueSize \in Nat
    /\ ExplicitSeqs \subseteq Seqs
    /\ MaxExplicit \in Nat
    /\ MaxSendErrors \in Nat

VARIABLES
    nextSeq,        \* UdpSender::next_seq
    permits,        \* available permits of UdpSender::send_window
    sentMessages,   \* UdpSender::sent_messages: sequence number -> payload
    inFlight,       \* UdpSender::in_flight: sequence number -> payload
    expired,        \* in-flight entries whose sent_time is older than ack_timeout
    call,           \* per caller: where its send_message stands, and its seq
    replies,        \* the mpsc queue of (msg_type, seq)
    toRetransmit,   \* to_retransmit of the timeout task
    sendErrors,     \* history: failed sends of send_message
    overwritten,    \* history: in_flight entries replaced by a reuse of their seq
    explicitCalls   \* history: calls with a sequence number of the caller's choice

senderVars == <<nextSeq, permits, sentMessages, inFlight, expired, call, replies,
                toRetransmit, sendErrors, overwritten, explicitCalls>>

PartialMaps == UNION {[S -> Callers] : S \in SUBSET Seqs}

CallStates == {"idle", "acquire", "record", "track", "transmit"}

NoCall == [at |-> "idle", seq |-> 0]

SenderTypeOK ==
    /\ nextSeq \in 1 .. (MaxSeq + 1)
    /\ permits \in Nat
    /\ sentMessages \in PartialMaps
    /\ inFlight \in PartialMaps
    /\ expired \in SUBSET DOMAIN inFlight
    /\ call \in [Callers -> [at : CallStates, seq : Seqs \cup {0}]]
    /\ \A c \in Callers : call[c].at # "idle" => call[c].seq \in Seqs
    /\ replies \in Seq([typ : {"ACK", "RQST"}, seq : Seqs])
    /\ toRetransmit \in SUBSET DataMessage
    /\ sendErrors \in Nat
    /\ overwritten \in Nat
    /\ explicitCalls \in Nat

SenderInit ==
    /\ nextSeq = 1
    /\ permits = Window
    /\ sentMessages = <<>>
    /\ inFlight = <<>>
    /\ expired = {}
    /\ call = [c \in Callers |-> NoCall]
    /\ replies = <<>>
    /\ toRetransmit = {}
    /\ sendErrors = 0
    /\ overwritten = 0
    /\ explicitCalls = 0

Goto(c, next) == call' = [call EXCEPT ![c] = [at |-> next, seq |-> @.seq]]

Return(c) == call' = [call EXCEPT ![c] = NoCall]

----------------------------------------------------------------------------
(* The callers. *)

\* Mutant of CallAuto: without the lock, a concurrent call undoes the increment.
CallAutoUnlocked(c) ==
    /\ call[c].at = "idle"
    /\ nextSeq <= MaxSeq
    /\ nextSeq' \in {nextSeq, nextSeq + 1}
    /\ call' = [call EXCEPT ![c] = [at |-> "acquire", seq |-> nextSeq]]
    /\ UNCHANGED <<networkVars, permits, sentMessages, inFlight, expired, replies,
                   toRetransmit, sendErrors, overwritten, explicitCalls>>

\* send_message_auto_seq: the number is taken under the lock, before anything
\* can fail, and never given back.
CallAuto(c) ==
    /\ call[c].at = "idle"
    /\ nextSeq <= MaxSeq
    /\ nextSeq' = nextSeq + 1
    /\ call' = [call EXCEPT ![c] = [at |-> "acquire", seq |-> nextSeq]]
    /\ UNCHANGED <<networkVars, permits, sentMessages, inFlight, expired, replies,
                   toRetransmit, sendErrors, overwritten, explicitCalls>>

\* send_message with a number of the caller's choice, a used one included.
CallExplicit(c, s) ==
    /\ call[c].at = "idle"
    /\ explicitCalls < MaxExplicit
    /\ explicitCalls' = explicitCalls + 1
    /\ call' = [call EXCEPT ![c] = [at |-> "acquire", seq |-> s]]
    /\ UNCHANGED <<networkVars, nextSeq, permits, sentMessages, inFlight, expired,
                   replies, toRetransmit, sendErrors, overwritten>>

\* Mutant of AcquirePermit: the window is not consulted.
AcquireUnchecked(c) ==
    /\ call[c].at = "acquire"
    /\ permits' = permits - 1
    /\ Goto(c, "record")
    /\ UNCHANGED <<networkVars, nextSeq, sentMessages, inFlight, expired, replies,
                   toRetransmit, sendErrors, overwritten, explicitCalls>>

AcquirePermit(c) ==
    /\ call[c].at = "acquire"
    /\ permits > 0
    /\ permits' = permits - 1
    /\ Goto(c, "record")
    /\ UNCHANGED <<networkVars, nextSeq, sentMessages, inFlight, expired, replies,
                   toRetransmit, sendErrors, overwritten, explicitCalls>>

\* send_timeout passes with no permit to be had: Err(SendWindowFull).
SendWindowFull(c) ==
    /\ call[c].at = "acquire"
    /\ permits = 0
    /\ Return(c)
    /\ UNCHANGED <<networkVars, nextSeq, permits, sentMessages, inFlight, expired,
                   replies, toRetransmit, sendErrors, overwritten, explicitCalls>>

RecordSent(c) ==
    /\ call[c].at = "record"
    /\ sentMessages' = Put(sentMessages, call[c].seq, c)
    /\ Goto(c, "track")
    /\ UNCHANGED <<networkVars, nextSeq, permits, inFlight, expired, replies,
                   toRetransmit, sendErrors, overwritten, explicitCalls>>

\* in_flight.insert replaces the entry of a reused number, with a new sent_time.
TrackInFlight(c) ==
    LET s == call[c].seq
    IN  /\ call[c].at = "track"
        /\ inFlight' = Put(inFlight, s, c)
        /\ expired' = expired \ {s}
        /\ overwritten' = overwritten + (IF s \in DOMAIN inFlight THEN 1 ELSE 0)
        /\ Goto(c, "transmit")
        /\ UNCHANGED <<networkVars, nextSeq, permits, sentMessages, replies,
                       toRetransmit, sendErrors, explicitCalls>>

\* socket.send succeeds and the permit is forgotten: it returns with the ACK.
Transmit(c) ==
    /\ call[c].at = "transmit"
    /\ toReceiver' = toReceiver \cup {[seq |-> call[c].seq, data |-> c]}
    /\ Return(c)
    /\ UNCHANGED <<toSender, nextSeq, permits, sentMessages, inFlight, expired, replies,
                   toRetransmit, sendErrors, overwritten, explicitCalls>>

\* socket.send fails: `?` returns the error and drops the permit, which goes
\* back to the semaphore; the in_flight entry stays.
TransmitError(c) ==
    /\ call[c].at = "transmit"
    /\ sendErrors < MaxSendErrors
    /\ sendErrors' = sendErrors + 1
    /\ permits' = permits + 1
    /\ Return(c)
    /\ UNCHANGED <<networkVars, nextSeq, sentMessages, inFlight, expired, replies,
                   toRetransmit, overwritten, explicitCalls>>

----------------------------------------------------------------------------
(* The receive task and the handler task. *)

\* The receive task reads a reply and queues it; it waits while the queue is full.
QueueReply(m, rest) ==
    /\ m \in toSender
    /\ m.typ \in {"ACK", "RQST"}
    /\ Len(replies) < ReplyQueueSize
    /\ replies' = Append(replies, m)
    /\ toSender' = rest
    /\ UNCHANGED <<toReceiver, nextSeq, permits, sentMessages, inFlight, expired, call,
                   toRetransmit, sendErrors, overwritten, explicitCalls>>

\* Any other type is read and dropped: FLOW_CONTROL does not slow the sender down.
IgnoreReply(m) ==
    /\ m \in toSender
    /\ m.typ \notin {"ACK", "RQST"}
    /\ toSender' = toSender \ {m}
    /\ UNCHANGED <<toReceiver, senderVars>>

HandleRequest ==
    /\ replies # <<>>
    /\ Head(replies).typ = "RQST"
    /\ LET s == Head(replies).seq
       IN  toReceiver' = IF s \in DOMAIN sentMessages
                         THEN toReceiver \cup {[seq |-> s, data |-> sentMessages[s]]}
                         ELSE toReceiver
    /\ replies' = Tail(replies)
    /\ UNCHANGED <<toSender, nextSeq, permits, sentMessages, inFlight, expired, call,
                   toRetransmit, sendErrors, overwritten, explicitCalls>>

\* Mutant of HandleAck: a repeated ACK gives a permit back as well.
HandleAckUnguarded ==
    /\ replies # <<>>
    /\ Head(replies).typ = "ACK"
    /\ LET s == Head(replies).seq
       IN  /\ inFlight' = Without(inFlight, s)
           /\ expired' = expired \ {s}
    /\ permits' = permits + 1
    /\ replies' = Tail(replies)
    /\ UNCHANGED <<networkVars, nextSeq, sentMessages, call, toRetransmit, sendErrors,
                   overwritten, explicitCalls>>

\* Mutant of HandleAck: an ACK is taken to cover all smaller numbers.
HandleAckCumulative ==
    /\ replies # <<>>
    /\ Head(replies).typ = "ACK"
    /\ LET covered == 1 .. Head(replies).seq
       IN  /\ inFlight' = Restrict(inFlight, DOMAIN inFlight \ covered)
           /\ expired' = expired \ covered
           /\ permits' = permits + Cardinality(DOMAIN inFlight \cap covered)
    /\ replies' = Tail(replies)
    /\ UNCHANGED <<networkVars, nextSeq, sentMessages, call, toRetransmit, sendErrors,
                   overwritten, explicitCalls>>

\* Only an entry that was in flight gives a permit back.
HandleAck ==
    /\ replies # <<>>
    /\ Head(replies).typ = "ACK"
    /\ LET s == Head(replies).seq
       IN  /\ inFlight' = Without(inFlight, s)
           /\ expired' = expired \ {s}
           /\ permits' = permits + (IF s \in DOMAIN inFlight THEN 1 ELSE 0)
    /\ replies' = Tail(replies)
    /\ UNCHANGED <<networkVars, nextSeq, sentMessages, call, toRetransmit, sendErrors,
                   overwritten, explicitCalls>>

----------------------------------------------------------------------------
(* The timeout task. *)

\* ack_timeout passes since the sent_time of s.
Expire(s) ==
    /\ s \in DOMAIN inFlight \ expired
    /\ expired' = expired \cup {s}
    /\ UNCHANGED <<networkVars, nextSeq, permits, sentMessages, inFlight, call, replies,
                   toRetransmit, sendErrors, overwritten, explicitCalls>>

\* One tick: under the lock, every expired entry gets a new sent_time and is
\* copied.  A tick that finds nothing changes nothing and is left out.
ScanExpired ==
    /\ toRetransmit = {}
    /\ expired # {}
    /\ toRetransmit' = {[seq |-> s, data |-> inFlight[s]] : s \in expired}
    /\ expired' = {}
    /\ UNCHANGED <<networkVars, nextSeq, permits, sentMessages, inFlight, call, replies,
                   sendErrors, overwritten, explicitCalls>>

\* The copies are sent after the lock is released, acknowledged meanwhile or not.
Retransmit(m) ==
    /\ m \in toRetransmit
    /\ toRetransmit' = toRetransmit \ {m}
    /\ toReceiver' = toReceiver \cup {m}
    /\ UNCHANGED <<toSender, nextSeq, permits, sentMessages, inFlight, expired, call,
                   replies, sendErrors, overwritten, explicitCalls>>

SenderNext ==
    \/ \E c \in Callers :
          \/ CallAuto(c)
          \/ \E s \in ExplicitSeqs : CallExplicit(c, s)
          \/ AcquirePermit(c)
          \/ SendWindowFull(c)
          \/ RecordSent(c)
          \/ TrackInFlight(c)
          \/ Transmit(c)
          \/ TransmitError(c)
    \/ \E m \in toSender :
          \/ \E rest \in ReadDatagram(toSender, m) : QueueReply(m, rest)
          \/ IgnoreReply(m)
    \/ HandleRequest
    \/ HandleAck
    \/ \E s \in Seqs : Expire(s)
    \/ ScanExpired
    \/ \E m \in toRetransmit : Retransmit(m)
=============================================================================
