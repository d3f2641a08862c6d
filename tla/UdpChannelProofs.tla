-------------------------- MODULE UdpChannelProofs --------------------------
(***************************************************************************)
(* Proofs about UdpChannel, for every set of callers and readers, every    *)
(* window and buffer size, and every bound.                                *)
(***************************************************************************)
EXTENDS UdpChannel, FiniteSetTheorems, SequenceTheorems, TLAPS

----------------------------------------------------------------------------
(* The maps of the sender. *)

\* HashMap::insert adds its key to the domain and keeps the type of the map.
LEMMA PutPartial ==
    ASSUME NEW f \in PartialMaps, NEW s \in Seqs, NEW v \in Callers
    PROVE  /\ Put(f, s, v) \in PartialMaps
           /\ DOMAIN Put(f, s, v) = DOMAIN f \cup {s}
<1>1. PICK S \in SUBSET Seqs : f \in [S -> Callers]
  BY DEF PartialMaps
<1>2. Put(f, s, v) \in [S \cup {s} -> Callers]
  BY <1>1 DEF Put
<1> QED BY <1>1, <1>2 DEF PartialMaps, Put

\* HashMap::remove takes its key out of the domain and keeps the type of the map.
LEMMA WithoutPartial ==
    ASSUME NEW f \in PartialMaps, NEW s
    PROVE  /\ Without(f, s) \in PartialMaps
           /\ DOMAIN Without(f, s) = DOMAIN f \ {s}
<1>1. PICK S \in SUBSET Seqs : f \in [S -> Callers]
  BY DEF PartialMaps
<1>2. Without(f, s) \in [S \ {s} -> Callers]
  BY <1>1 DEF Without, Restrict
<1> QED BY <1>1, <1>2 DEF PartialMaps, Without, Restrict

\* The maps and the sets of sequence numbers are finite.
LEMMA PartialFinite ==
    ASSUME NEW f \in PartialMaps
    PROVE  /\ DOMAIN f \subseteq Seqs
           /\ IsFiniteSet(DOMAIN f)
<1>1. IsFiniteSet(Seqs)
  BY MaxSeqAssumption, FS_Interval DEF Seqs
<1>2. DOMAIN f \subseteq Seqs
  BY DEF PartialMaps
<1> QED BY <1>1, <1>2, FS_Subset

\* The empty map is a map.
LEMMA EmptyPartial == <<>> \in PartialMaps /\ DOMAIN <<>> = {}
<1>1. <<>> \in [{} -> Callers] /\ {} \in SUBSET Seqs
  OBVIOUS
<1>2. DOMAIN <<>> = {}
  OBVIOUS
<1> QED BY <1>1, <1>2 DEF PartialMaps

\* Updating the record of one caller or reader keeps the type of the whole.
LEMMA CallUpdate ==
    ASSUME SenderTypeOK, NEW c \in Callers,
           NEW at \in CallStates, NEW s \in Seqs \cup {0}, at # "idle" => s \in Seqs,
           call' = [call EXCEPT ![c] = [at |-> at, seq |-> s]]
    PROVE  /\ call' \in [Callers -> [at : CallStates, seq : Seqs \cup {0}]]
           /\ \A d \in Callers : call'[d].at # "idle" => call'[d].seq \in Seqs
BY DEF SenderTypeOK

\* A step of Goto leaves the number of the call alone.
LEMMA GotoUpdate ==
    ASSUME SenderTypeOK, NEW c \in Callers, call[c].at # "idle",
           NEW at \in CallStates, Goto(c, at)
    PROVE  /\ call' = [call EXCEPT ![c] = [at |-> at, seq |-> call[c].seq]]
           /\ call' \in [Callers -> [at : CallStates, seq : Seqs \cup {0}]]
           /\ \A d \in Callers : call'[d].at # "idle" => call'[d].seq \in Seqs
<1>1. call' = [call EXCEPT ![c] = [at |-> at, seq |-> call[c].seq]]
  BY DEF SenderTypeOK, Goto
<1>2. call[c].seq \in Seqs \cup {0} /\ (at # "idle" => call[c].seq \in Seqs)
  BY DEF SenderTypeOK
<1> QED BY <1>1, <1>2, CallUpdate

\* So does a Return.
LEMMA ReturnUpdate ==
    ASSUME SenderTypeOK, NEW c \in Callers, Return(c)
    PROVE  /\ call' = [call EXCEPT ![c] = [at |-> "idle", seq |-> 0]]
           /\ call' \in [Callers -> [at : CallStates, seq : Seqs \cup {0}]]
           /\ \A d \in Callers : call'[d].at # "idle" => call'[d].seq \in Seqs
<1>1. call' = [call EXCEPT ![c] = [at |-> "idle", seq |-> 0]]
  BY DEF Return, NoCall
<1>2. "idle" \in CallStates
  BY DEF CallStates
<1> QED BY <1>1, <1>2, CallUpdate

----------------------------------------------------------------------------
(* Type correctness. *)

\* The initial state has the right types.
LEMMA TypeInit == Init => TypeOK
<1> SUFFICES ASSUME Init PROVE TypeOK
  OBVIOUS
<1> USE DEF Init
<1>1. NetworkTypeOK
  BY DEF NetworkInit, NetworkTypeOK
<1>2. SenderTypeOK
  <2>1. nextSeq \in 1 .. (MaxSeq + 1)
    BY MaxSeqAssumption DEF SenderInit
  <2>2. sentMessages \in PartialMaps /\ inFlight \in PartialMaps
    BY EmptyPartial DEF SenderInit
  <2>3. call \in [Callers -> [at : CallStates, seq : Seqs \cup {0}]]
    BY DEF SenderInit, NoCall, CallStates
  <2>4. replies \in Seq([typ : {"ACK", "RQST"}, seq : Seqs])
    BY DEF SenderInit
  <2> QED BY <2>1, <2>2, <2>3, <2>4, WindowAssumption
          DEF SenderInit, SenderTypeOK, NoCall
<1>3. ReceiverTypeOK
  <2>1. reader \in [Readers -> [at : ReaderStates, msg : DataMessage \cup {NoMessage}]]
    BY DEF ReceiverInit, ReaderStates
  <2>2. buffer \in Seq(DataMessage)
    BY DEF ReceiverInit
  <2> QED BY <2>1, <2>2, BufferAssumption DEF ReceiverInit, ReceiverTypeOK
<1> QED BY <1>1, <1>2, <1>3 DEF TypeOK

\* Every step of the sender keeps its types and those of the network.
LEMMA TypeSender ==
    ASSUME TypeOK, SenderNext
    PROVE  NetworkTypeOK' /\ SenderTypeOK'
<1> USE DEF TypeOK
<1>1. ASSUME NEW c \in Callers, CallAuto(c) PROVE NetworkTypeOK' /\ SenderTypeOK'
  <2>1. nextSeq \in Seqs /\ nextSeq' \in 1 .. (MaxSeq + 1) /\ "acquire" \in CallStates
    BY <1>1, MaxSeqAssumption DEF CallAuto, SenderTypeOK, Seqs, CallStates
  <2>2. /\ call' \in [Callers -> [at : CallStates, seq : Seqs \cup {0}]]
        /\ \A d \in Callers : call'[d].at # "idle" => call'[d].seq \in Seqs
    BY <1>1, <2>1, CallUpdate DEF CallAuto
  <2> QED BY <1>1, <2>1, <2>2 DEF CallAuto, SenderTypeOK, NetworkTypeOK, networkVars
<1>2. ASSUME NEW c \in Callers, NEW s \in ExplicitSeqs, CallExplicit(c, s)
      PROVE  NetworkTypeOK' /\ SenderTypeOK'
  <2>1. s \in Seqs /\ "acquire" \in CallStates
    BY SenderBounds DEF CallStates
  <2>2. /\ call' \in [Callers -> [at : CallStates, seq : Seqs \cup {0}]]
        /\ \A d \in Callers : call'[d].at # "idle" => call'[d].seq \in Seqs
    BY <1>2, <2>1, CallUpdate DEF CallExplicit
  <2> QED BY <1>2, <2>2 DEF CallExplicit, SenderTypeOK, NetworkTypeOK, networkVars
<1>3. ASSUME NEW c \in Callers, AcquirePermit(c) PROVE NetworkTypeOK' /\ SenderTypeOK'
  <2>1. /\ call' \in [Callers -> [at : CallStates, seq : Seqs \cup {0}]]
        /\ \A d \in Callers : call'[d].at # "idle" => call'[d].seq \in Seqs
    BY <1>3, GotoUpdate DEF AcquirePermit, CallStates
  <2> QED BY <1>3, <2>1 DEF AcquirePermit, SenderTypeOK, NetworkTypeOK, networkVars
<1>4. ASSUME NEW c \in Callers, SendWindowFull(c) PROVE NetworkTypeOK' /\ SenderTypeOK'
  <2>1. /\ call' \in [Callers -> [at : CallStates, seq : Seqs \cup {0}]]
        /\ \A d \in Callers : call'[d].at # "idle" => call'[d].seq \in Seqs
    BY <1>4, ReturnUpdate DEF SendWindowFull
  <2> QED BY <1>4, <2>1 DEF SendWindowFull, SenderTypeOK, NetworkTypeOK, networkVars
<1>5. ASSUME NEW c \in Callers, RecordSent(c) PROVE NetworkTypeOK' /\ SenderTypeOK'
  <2>1. /\ call' \in [Callers -> [at : CallStates, seq : Seqs \cup {0}]]
        /\ \A d \in Callers : call'[d].at # "idle" => call'[d].seq \in Seqs
    BY <1>5, GotoUpdate DEF RecordSent, CallStates
  <2>2. sentMessages' \in PartialMaps
    BY <1>5, PutPartial DEF RecordSent, SenderTypeOK
  <2> QED BY <1>5, <2>1, <2>2 DEF RecordSent, SenderTypeOK, NetworkTypeOK, networkVars
<1>6. ASSUME NEW c \in Callers, TrackInFlight(c) PROVE NetworkTypeOK' /\ SenderTypeOK'
  <2>1. /\ call' \in [Callers -> [at : CallStates, seq : Seqs \cup {0}]]
        /\ \A d \in Callers : call'[d].at # "idle" => call'[d].seq \in Seqs
    BY <1>6, GotoUpdate DEF TrackInFlight, CallStates
  <2>2. /\ inFlight' \in PartialMaps
        /\ DOMAIN inFlight' = DOMAIN inFlight \cup {call[c].seq}
    BY <1>6, PutPartial DEF TrackInFlight, SenderTypeOK
  <2>3. overwritten' \in Nat
    BY <1>6 DEF TrackInFlight, SenderTypeOK
  <2>4. expired' \in SUBSET DOMAIN inFlight'
    BY <1>6, <2>2 DEF TrackInFlight, SenderTypeOK
  <2> QED BY <1>6, <2>1, <2>2, <2>3, <2>4
          DEF TrackInFlight, SenderTypeOK, NetworkTypeOK, networkVars
<1>7. ASSUME NEW c \in Callers, Transmit(c) PROVE NetworkTypeOK' /\ SenderTypeOK'
  <2>1. /\ call' \in [Callers -> [at : CallStates, seq : Seqs \cup {0}]]
        /\ \A d \in Callers : call'[d].at # "idle" => call'[d].seq \in Seqs
    BY <1>7, ReturnUpdate DEF Transmit
  <2>2. toReceiver' \in SUBSET DataMessage
    BY <1>7 DEF Transmit, SenderTypeOK, NetworkTypeOK, DataMessage
  <2> QED BY <1>7, <2>1, <2>2 DEF Transmit, SenderTypeOK, NetworkTypeOK
<1>8. ASSUME NEW c \in Callers, TransmitError(c) PROVE NetworkTypeOK' /\ SenderTypeOK'
  <2>1. /\ call' \in [Callers -> [at : CallStates, seq : Seqs \cup {0}]]
        /\ \A d \in Callers : call'[d].at # "idle" => call'[d].seq \in Seqs
    BY <1>8, ReturnUpdate DEF TransmitError
  <2> QED BY <1>8, <2>1 DEF TransmitError, SenderTypeOK, NetworkTypeOK, networkVars
<1>9. ASSUME NEW m \in toSender, NEW rest \in ReadDatagram(toSender, m), QueueReply(m, rest)
      PROVE  NetworkTypeOK' /\ SenderTypeOK'
  <2>1. m \in [typ : {"ACK", "RQST"}, seq : Seqs]
    BY <1>9 DEF QueueReply, NetworkTypeOK, Reply
  <2>2. replies' \in Seq([typ : {"ACK", "RQST"}, seq : Seqs])
    BY <1>9, <2>1 DEF QueueReply, SenderTypeOK
  <2>3. toSender' \in SUBSET Reply
    BY <1>9 DEF QueueReply, NetworkTypeOK, ReadDatagram
  <2> QED BY <1>9, <2>2, <2>3 DEF QueueReply, SenderTypeOK, NetworkTypeOK
<1>10. ASSUME NEW m \in toSender, IgnoreReply(m) PROVE NetworkTypeOK' /\ SenderTypeOK'
  BY <1>10 DEF IgnoreReply, senderVars, SenderTypeOK, NetworkTypeOK
<1>11. ASSUME HandleRequest PROVE NetworkTypeOK' /\ SenderTypeOK'
  <2>1. /\ replies' \in Seq([typ : {"ACK", "RQST"}, seq : Seqs])
        /\ Head(replies).seq \in Seqs
    <3>1. /\ Tail(replies) \in Seq([typ : {"ACK", "RQST"}, seq : Seqs])
          /\ Head(replies) \in [typ : {"ACK", "RQST"}, seq : Seqs]
      BY <1>11, HeadTailProperties DEF HandleRequest, SenderTypeOK
    <3> QED BY <1>11, <3>1 DEF HandleRequest
  <2>2. \A s \in DOMAIN sentMessages : sentMessages[s] \in Callers
    BY DEF SenderTypeOK, PartialMaps
  <2>3. toReceiver' \in SUBSET DataMessage
    BY <1>11, <2>1, <2>2 DEF HandleRequest, NetworkTypeOK, DataMessage
  <2> QED BY <1>11, <2>1, <2>3 DEF HandleRequest, SenderTypeOK, NetworkTypeOK
<1>12. ASSUME HandleAck PROVE NetworkTypeOK' /\ SenderTypeOK'
  <2>1. replies' \in Seq([typ : {"ACK", "RQST"}, seq : Seqs])
    BY <1>12 DEF HandleAck, SenderTypeOK
  <2>2. /\ inFlight' \in PartialMaps
        /\ DOMAIN inFlight' = DOMAIN inFlight \ {Head(replies).seq}
    BY <1>12, WithoutPartial DEF HandleAck, SenderTypeOK
  <2>3. expired' \in SUBSET DOMAIN inFlight' /\ permits' \in Nat
    BY <1>12, <2>2 DEF HandleAck, SenderTypeOK
  <2> QED BY <1>12, <2>1, <2>2, <2>3 DEF HandleAck, SenderTypeOK, NetworkTypeOK, networkVars
<1>13. ASSUME NEW s \in Seqs, Expire(s) PROVE NetworkTypeOK' /\ SenderTypeOK'
  BY <1>13 DEF Expire, SenderTypeOK, NetworkTypeOK, networkVars
<1>14. ASSUME ScanExpired PROVE NetworkTypeOK' /\ SenderTypeOK'
  <2>1. \A s \in DOMAIN inFlight : s \in Seqs /\ inFlight[s] \in Callers
    BY DEF SenderTypeOK, PartialMaps
  <2>2. toRetransmit' \in SUBSET DataMessage
    BY <1>14, <2>1 DEF ScanExpired, SenderTypeOK, DataMessage
  <2> QED BY <1>14, <2>2 DEF ScanExpired, SenderTypeOK, NetworkTypeOK, networkVars
<1>15. ASSUME NEW m \in toRetransmit, Retransmit(m) PROVE NetworkTypeOK' /\ SenderTypeOK'
  BY <1>15 DEF Retransmit, SenderTypeOK, NetworkTypeOK
<1> QED BY <1>1, <1>2, <1>3, <1>4, <1>5, <1>6, <1>7, <1>8, <1>9, <1>10, <1>11, <1>12,
           <1>13, <1>14, <1>15 DEF SenderNext

\* Every step of the receiver keeps its types and those of the network.
LEMMA TypeReceiver ==
    ASSUME TypeOK, ReceiverNext
    PROVE  NetworkTypeOK' /\ ReceiverTypeOK'
<1> USE DEF TypeOK
<1> DEFINE Progress == [at : ReaderStates, msg : DataMessage \cup {NoMessage}]
<1>1. ASSUME NEW r \in Readers, NEW m \in toReceiver, NEW rest \in ReadDatagram(toReceiver, m),
             ReceiveData(r, m, rest)
      PROVE  NetworkTypeOK' /\ ReceiverTypeOK'
  <2>1. m \in DataMessage /\ toReceiver' \in SUBSET DataMessage
    BY <1>1 DEF ReceiveData, NetworkTypeOK, ReadDatagram
  <2>2. /\ reader' \in [Readers -> Progress]
        /\ \A q \in Readers : reader'[q].at # "idle" => reader'[q].msg \in DataMessage
    BY <1>1, <2>1 DEF ReceiveData, ReceiverTypeOK, ReaderStates
  <2> QED BY <1>1, <2>1, <2>2 DEF ReceiveData, ReceiverTypeOK, NetworkTypeOK
<1>2. ASSUME NEW r \in Readers, NEW m \in toReceiver, ReceiveBufferFull(r, m)
      PROVE  NetworkTypeOK' /\ ReceiverTypeOK'
  BY <1>2 DEF ReceiveBufferFull, NetworkTypeOK, ReceiverTypeOK, receiverVars, Reply, FlowControl
<1>3. ASSUME NEW r \in Readers, NEW m \in toReceiver, ReceiveTruncated(r, m)
      PROVE  NetworkTypeOK' /\ ReceiverTypeOK'
  BY <1>3 DEF ReceiveTruncated, NetworkTypeOK, ReceiverTypeOK, receiverVars
<1>4. ASSUME NEW r \in Readers, RecordReceived(r) PROVE NetworkTypeOK' /\ ReceiverTypeOK'
  <2>1. reader[r].msg \in DataMessage /\ receivedSeqs' \in SUBSET Seqs
    BY <1>4 DEF RecordReceived, ReceiverTypeOK, DataMessage
  <2>2. /\ reader' \in [Readers -> Progress]
        /\ \A q \in Readers : reader'[q].at # "idle" => reader'[q].msg \in DataMessage
    BY <1>4, <2>1 DEF RecordReceived, Advance, ReceiverTypeOK, ReaderStates
  <2> QED BY <1>4, <2>1, <2>2 DEF RecordReceived, ReceiverTypeOK, NetworkTypeOK, networkVars
<1>5. ASSUME NEW r \in Readers, PushBuffer(r) PROVE NetworkTypeOK' /\ ReceiverTypeOK'
  <2>1. reader[r].msg \in DataMessage /\ buffer' \in Seq(DataMessage)
    BY <1>5 DEF PushBuffer, ReceiverTypeOK
  <2>2. /\ reader' \in [Readers -> Progress]
        /\ \A q \in Readers : reader'[q].at # "idle" => reader'[q].msg \in DataMessage
    BY <1>5, <2>1 DEF PushBuffer, Advance, ReceiverTypeOK, ReaderStates
  <2> QED BY <1>5, <2>1, <2>2 DEF PushBuffer, ReceiverTypeOK, NetworkTypeOK, networkVars
<1>6. ASSUME NEW r \in Readers, Finish(r)
      PROVE  /\ reader' \in [Readers -> Progress]
             /\ \A q \in Readers : reader'[q].at # "idle" => reader'[q].msg \in DataMessage
  BY <1>6 DEF Finish, ReceiverTypeOK, ReaderStates
<1>7. ASSUME NEW r \in Readers, SendAck(r) PROVE NetworkTypeOK' /\ ReceiverTypeOK'
  <2>1. reader[r].msg.seq \in Seqs
    BY <1>7 DEF SendAck, ReceiverTypeOK, DataMessage
  <2>2. toSender' \in SUBSET Reply
    BY <1>7, <2>1 DEF SendAck, NetworkTypeOK, Reply
  <2> QED BY <1>6, <1>7, <2>2 DEF SendAck, ReceiverTypeOK, NetworkTypeOK
<1>8. ASSUME NEW r \in Readers, AckError(r) PROVE NetworkTypeOK' /\ ReceiverTypeOK'
  BY <1>6, <1>8 DEF AckError, ReceiverTypeOK, NetworkTypeOK, networkVars
<1>9. ASSUME ReceiveFromBuffer PROVE NetworkTypeOK' /\ ReceiverTypeOK'
  <2>1. buffer' \in Seq(DataMessage)
    BY <1>9, HeadTailProperties DEF ReceiveFromBuffer, ReceiverTypeOK
  <2> QED BY <1>9, <2>1 DEF ReceiveFromBuffer, ReceiverTypeOK, NetworkTypeOK, networkVars
<1>10. ASSUME NEW s \in RequestedSeqs, RequestRetransmit(s) PROVE NetworkTypeOK' /\ ReceiverTypeOK'
  <2>1. toSender' \in SUBSET Reply
    BY <1>10, ReceiverBounds DEF RequestRetransmit, NetworkTypeOK, Reply
  <2> QED BY <1>10, <2>1 DEF RequestRetransmit, ReceiverTypeOK, NetworkTypeOK, receiverVars
<1> QED BY <1>1, <1>2, <1>3, <1>4, <1>5, <1>7, <1>8, <1>9, <1>10 DEF ReceiverNext

\* Type correctness of the whole system, in every reachable state.
THEOREM TypeCorrect == Spec => []TypeOK
<1>1. TypeOK /\ [Next]_vars => TypeOK'
  <2> SUFFICES ASSUME TypeOK, [Next]_vars PROVE TypeOK'
    OBVIOUS
  <2>1. CASE Sender(SenderNext)
    <3>1. NetworkTypeOK' /\ SenderTypeOK'
      BY <2>1, TypeSender DEF Sender
    <3>2. ReceiverTypeOK'
      BY <2>1 DEF Sender, TypeOK, ReceiverTypeOK, receiverVars
    <3> QED BY <3>1, <3>2 DEF TypeOK
  <2>2. CASE Receiver(ReceiverNext)
    <3>1. NetworkTypeOK' /\ ReceiverTypeOK'
      BY <2>2, TypeReceiver DEF Receiver
    <3>2. SenderTypeOK'
      BY <2>2 DEF Receiver, TypeOK, SenderTypeOK, senderVars
    <3> QED BY <3>1, <3>2 DEF TypeOK
  <2>3. CASE Lose
    <3>1. NetworkTypeOK'
      BY <2>3 DEF Lose, LoseData, LoseReply, TypeOK, NetworkTypeOK
    <3>2. SenderTypeOK' /\ ReceiverTypeOK'
      BY <2>3 DEF Lose, TypeOK, SenderTypeOK, ReceiverTypeOK, senderVars, receiverVars
    <3> QED BY <3>1, <3>2 DEF TypeOK
  <2>4. CASE UNCHANGED vars
    BY <2>4 DEF vars, networkVars, senderVars, receiverVars, TypeOK, NetworkTypeOK,
                SenderTypeOK, ReceiverTypeOK
  <2> QED BY <2>1, <2>2, <2>3, <2>4 DEF Next
<1> QED BY TypeInit, <1>1, PTL DEF Spec

----------------------------------------------------------------------------
(* Conservation of the send window. *)

\* The calls that hold a permit not yet accounted for by an in-flight entry.
Holding == CallersAt({"record", "track"})

\* Holding is finite, and changes by at most the caller that moves.
LEMMA HoldingMoves ==
    ASSUME SenderTypeOK, NEW c \in Callers, NEW at \in CallStates, NEW s \in Seqs \cup {0},
           call' = [call EXCEPT ![c] = [at |-> at, seq |-> s]]
    PROVE  /\ IsFiniteSet(Holding)
           /\ c \in Holding <=> call[c].at = "record" \/ call[c].at = "track"
           /\ at = "record" \/ at = "track" => Holding' = Holding \cup {c}
           /\ at # "record" /\ at # "track" => Holding' = Holding \ {c}
<1>1. IsFiniteSet(Holding)
  BY CallersAssumption, FS_Subset DEF Holding, CallersAt
<1>2. \A d \in Callers : call'[d] = IF d = c THEN [at |-> at, seq |-> s] ELSE call[d]
  BY DEF SenderTypeOK
<1> QED BY <1>1, <1>2 DEF Holding, CallersAt

\* A call between two steps that hold no such permit, or two that do.
LEMMA HoldingStays ==
    ASSUME SenderTypeOK, NEW c \in Callers, NEW at \in CallStates, NEW s \in Seqs \cup {0},
           call' = [call EXCEPT ![c] = [at |-> at, seq |-> s]],
           (at = "record" \/ at = "track") <=> (call[c].at = "record" \/ call[c].at = "track")
    PROVE  Holding' = Holding
<1>1. CASE at = "record" \/ at = "track"
  BY <1>1, HoldingMoves
<1>2. CASE at # "record" /\ at # "track"
  BY <1>2, HoldingMoves
<1> QED BY <1>1, <1>2

\* The terms of the law are natural numbers.
LEMMA WindowTerms ==
    ASSUME TypeOK
    PROVE  /\ IsFiniteSet(DOMAIN inFlight) /\ IsFiniteSet(Holding)
           /\ Cardinality(DOMAIN inFlight) \in Nat /\ Cardinality(Holding) \in Nat
           /\ permits \in Nat /\ sendErrors \in Nat /\ overwritten \in Nat /\ Window \in Nat
<1>1. IsFiniteSet(DOMAIN inFlight)
  BY PartialFinite DEF TypeOK, SenderTypeOK
<1>2. IsFiniteSet(Holding)
  BY CallersAssumption, FS_Subset DEF Holding, CallersAt
<1> QED BY <1>1, <1>2, FS_CardinalityType, WindowAssumption DEF TypeOK, SenderTypeOK

\* The law holds of the initial state: every slot is a permit.
LEMMA WindowInit == Init => WindowConserved
<1> SUFFICES ASSUME Init PROVE WindowConserved
  OBVIOUS
<1>1. DOMAIN inFlight = {}
  BY DEF Init, SenderInit
<1>2. CallersAt({"record", "track"}) = {}
  BY DEF Init, SenderInit, NoCall, CallersAt
<1> QED BY <1>1, <1>2, FS_EmptySet, WindowAssumption DEF Init, SenderInit, WindowConserved

\* Every step of the sender keeps the law.
LEMMA WindowSender ==
    ASSUME TypeOK, WindowConserved, SenderNext
    PROVE  WindowConserved'
<1> USE DEF TypeOK
<1>a. /\ IsFiniteSet(DOMAIN inFlight) /\ IsFiniteSet(Holding)
      /\ Cardinality(DOMAIN inFlight) \in Nat /\ Cardinality(Holding) \in Nat
      /\ permits \in Nat /\ sendErrors \in Nat /\ overwritten \in Nat /\ Window \in Nat
  BY WindowTerms
<1>b. Cardinality(DOMAIN inFlight) + permits + Cardinality(Holding) + overwritten
        = Window + sendErrors
  BY DEF WindowConserved, Holding
<1>c. ASSUME Cardinality(DOMAIN inFlight)' + permits' + Cardinality(Holding)' + overwritten'
               = Window + sendErrors'
      PROVE  WindowConserved'
  BY <1>c DEF WindowConserved, Holding
<1>d. ASSUME UNCHANGED <<inFlight, permits, Holding, overwritten, sendErrors>>
      PROVE  WindowConserved'
  BY <1>b, <1>c, <1>d
<1>e. ASSUME call' = call PROVE Holding' = Holding
  BY <1>e DEF Holding, CallersAt
<1>1. ASSUME NEW c \in Callers, CallAuto(c) PROVE WindowConserved'
  <2>1. /\ call' = [call EXCEPT ![c] = [at |-> "acquire", seq |-> nextSeq]]
        /\ call[c].at = "idle"
    BY <1>1 DEF CallAuto
  <2>2. nextSeq \in Seqs /\ "acquire" \in CallStates
    BY <1>1, SenderBounds DEF CallAuto, SenderTypeOK, Seqs, CallStates
  <2>3. Holding' = Holding
    BY <2>1, <2>2, HoldingStays
  <2> QED BY <1>1, <2>3, <1>d DEF CallAuto
<1>2. ASSUME NEW c \in Callers, NEW s \in ExplicitSeqs, CallExplicit(c, s)
      PROVE  WindowConserved'
  <2>1. /\ call' = [call EXCEPT ![c] = [at |-> "acquire", seq |-> s]]
        /\ call[c].at = "idle"
    BY <1>2 DEF CallExplicit
  <2>2. s \in Seqs /\ "acquire" \in CallStates
    BY <1>2, SenderBounds DEF CallExplicit, SenderTypeOK, Seqs, CallStates
  <2>3. Holding' = Holding
    BY <2>1, <2>2, HoldingStays
  <2> QED BY <1>2, <2>3, <1>d DEF CallExplicit
<1>3. ASSUME NEW c \in Callers, AcquirePermit(c) PROVE WindowConserved'
  <2>1. call' = [call EXCEPT ![c] = [at |-> "record", seq |-> call[c].seq]]
    BY <1>3 DEF AcquirePermit, Goto, SenderTypeOK
  <2>2. Holding' = Holding \cup {c} /\ c \notin Holding
    BY <1>3, <2>1, HoldingMoves DEF AcquirePermit, CallStates, SenderTypeOK
  <2>3. Cardinality(Holding') = Cardinality(Holding) + 1
    BY <1>a, <2>2, FS_AddElement
  <2> QED BY <1>3, <2>3, <1>a, <1>b, <1>c DEF AcquirePermit
<1>4. ASSUME NEW c \in Callers, SendWindowFull(c) PROVE WindowConserved'
  <2>1. Holding' = Holding
    BY <1>4, HoldingStays, ReturnUpdate DEF SendWindowFull, CallStates
  <2> QED BY <1>4, <2>1, <1>d DEF SendWindowFull
<1>5. ASSUME NEW c \in Callers, RecordSent(c) PROVE WindowConserved'
  <2>1. call' = [call EXCEPT ![c] = [at |-> "track", seq |-> call[c].seq]]
    BY <1>5 DEF RecordSent, Goto, SenderTypeOK
  <2>2. Holding' = Holding
    BY <1>5, <2>1, HoldingStays DEF RecordSent, CallStates, SenderTypeOK
  <2> QED BY <1>5, <2>2, <1>d DEF RecordSent
<1>6. ASSUME NEW c \in Callers, TrackInFlight(c) PROVE WindowConserved'
  <2> DEFINE s == call[c].seq
  <2>1. call' = [call EXCEPT ![c] = [at |-> "transmit", seq |-> s]]
    BY <1>6 DEF TrackInFlight, Goto, SenderTypeOK
  <2>2. Holding' = Holding \ {c} /\ c \in Holding
    <3>1. call[c].at = "track" /\ s \in Seqs \cup {0} /\ "transmit" \in CallStates
      BY <1>6 DEF TrackInFlight, SenderTypeOK, CallStates
    <3>2. SenderTypeOK
      OBVIOUS
    <3> HIDE DEF s, TypeOK
    <3>3. c \in Holding
      BY <3>1 DEF Holding, CallersAt
    <3> QED BY <3>1, <3>2, <3>3, <2>1, HoldingMoves
  <2>3. Cardinality(Holding') = Cardinality(Holding) - 1
    BY <1>a, <2>2, FS_RemoveElement
  <2>4. DOMAIN inFlight' = DOMAIN inFlight \cup {s}
    BY <1>6, PutPartial DEF TrackInFlight, SenderTypeOK
  <2>5. Cardinality(DOMAIN inFlight') + overwritten'
          = Cardinality(DOMAIN inFlight) + overwritten + 1
    <3>1. CASE s \in DOMAIN inFlight
      <4>1. Cardinality(DOMAIN inFlight') = Cardinality(DOMAIN inFlight)
        BY <3>1, <2>4, <1>a, FS_AddElement
      <4>2. overwritten' = overwritten + 1
        BY <1>6, <3>1 DEF TrackInFlight
      <4> QED BY <4>1, <4>2, <1>a
    <3>2. CASE s \notin DOMAIN inFlight
      <4>1. Cardinality(DOMAIN inFlight') = Cardinality(DOMAIN inFlight) + 1
        BY <3>2, <2>4, <1>a, FS_AddElement
      <4>2. overwritten' = overwritten
        BY <1>6, <3>2, <1>a DEF TrackInFlight
      <4> QED BY <4>1, <4>2, <1>a
    <3> QED BY <3>1, <3>2
  <2>6. /\ overwritten' \in Nat /\ Cardinality(DOMAIN inFlight') \in Nat
        /\ permits' = permits /\ sendErrors' = sendErrors
    BY <1>6, <2>4, <1>a, FS_AddElement, FS_CardinalityType DEF TrackInFlight
  <2> QED BY <2>3, <2>5, <2>6, <1>a, <1>b, <1>c
<1>7. ASSUME NEW c \in Callers, Transmit(c) PROVE WindowConserved'
  <2>1. Holding' = Holding
    BY <1>7, HoldingStays, ReturnUpdate DEF Transmit, CallStates
  <2> QED BY <1>7, <2>1, <1>d DEF Transmit
<1>8. ASSUME NEW c \in Callers, TransmitError(c) PROVE WindowConserved'
  <2>1. Holding' = Holding
    BY <1>8, HoldingStays, ReturnUpdate DEF TransmitError, CallStates
  <2> QED BY <1>8, <2>1, <1>a, <1>b, <1>c DEF TransmitError
<1>9. ASSUME NEW m \in toSender, NEW rest \in ReadDatagram(toSender, m), QueueReply(m, rest)
      PROVE  WindowConserved'
  BY <1>9, <1>d, <1>e DEF QueueReply
<1>10. ASSUME NEW m \in toSender, IgnoreReply(m) PROVE WindowConserved'
  BY <1>10, <1>d, <1>e DEF IgnoreReply, senderVars
<1>11. ASSUME HandleRequest PROVE WindowConserved'
  BY <1>11, <1>d, <1>e DEF HandleRequest
<1>12. ASSUME HandleAck PROVE WindowConserved'
  <2> DEFINE s == Head(replies).seq
  <2>1. DOMAIN inFlight' = DOMAIN inFlight \ {s}
    BY <1>12, WithoutPartial DEF HandleAck, SenderTypeOK
  <2>2. Cardinality(DOMAIN inFlight') + permits' = Cardinality(DOMAIN inFlight) + permits
    <3>1. CASE s \in DOMAIN inFlight
      <4>1. Cardinality(DOMAIN inFlight') = Cardinality(DOMAIN inFlight) - 1
        BY <3>1, <2>1, <1>a, FS_RemoveElement
      <4>2. permits' = permits + 1
        BY <1>12, <3>1 DEF HandleAck
      <4> QED BY <4>1, <4>2, <1>a
    <3>2. CASE s \notin DOMAIN inFlight
      <4>1. Cardinality(DOMAIN inFlight') = Cardinality(DOMAIN inFlight)
        BY <3>2, <2>1, <1>a, FS_RemoveElement
      <4>2. permits' = permits
        BY <1>12, <3>2, <1>a DEF HandleAck
      <4> QED BY <4>1, <4>2, <1>a
    <3> QED BY <3>1, <3>2
  <2>3. Holding' = Holding /\ overwritten' = overwritten /\ sendErrors' = sendErrors
    BY <1>12, <1>e DEF HandleAck
  <2> QED BY <2>2, <2>3, <1>a, <1>b, <1>c
<1>13. ASSUME NEW s \in Seqs, Expire(s) PROVE WindowConserved'
  BY <1>13, <1>d, <1>e DEF Expire
<1>14. ASSUME ScanExpired PROVE WindowConserved'
  BY <1>14, <1>d, <1>e DEF ScanExpired
<1>15. ASSUME NEW m \in toRetransmit, Retransmit(m) PROVE WindowConserved'
  BY <1>15, <1>d, <1>e DEF Retransmit
<1> QED BY <1>1, <1>2, <1>3, <1>4, <1>5, <1>6, <1>7, <1>8, <1>9, <1>10, <1>11, <1>12,
           <1>13, <1>14, <1>15 DEF SenderNext

\* The send window is conserved in every reachable state.
THEOREM WindowConservation == Spec => []WindowConserved
<1>1. TypeOK /\ WindowConserved /\ [Next]_vars => WindowConserved'
  <2> SUFFICES ASSUME TypeOK, WindowConserved, [Next]_vars PROVE WindowConserved'
    OBVIOUS
  <2>1. CASE Sender(SenderNext)
    BY <2>1, WindowSender DEF Sender
  <2>2. CASE UNCHANGED senderVars
    BY <2>2 DEF senderVars, WindowConserved, CallersAt
  <2>3. CASE Receiver(ReceiverNext) \/ Lose \/ UNCHANGED vars
    BY <2>2, <2>3 DEF Receiver, Lose, vars
  <2> QED BY <2>1, <2>3 DEF Next
<1> QED BY WindowInit, TypeCorrect, <1>1, PTL DEF Spec

----------------------------------------------------------------------------
(* Release only after receipt. *)

\* The inductive invariant: acknowledgements are of recorded numbers, what
\* travels was accepted, and what left the window was received.
ReceiptInv == AckedWasReceived /\ SentWasAccepted /\ ReleasedWasReceived

\* Nothing travels initially.
LEMMA ReceiptInit == Init => ReceiptInv
<1> SUFFICES ASSUME Init PROVE ReceiptInv
  OBVIOUS
<1>1. DOMAIN inFlight = {} /\ DOMAIN sentMessages = {} /\ Len(replies) = 0
  BY DEF Init, SenderInit
<1>2. AckedWasReceived
  BY <1>1 DEF Init, NetworkInit, ReceiverInit, AckedWasReceived
<1>3. SentWasAccepted
  BY <1>1 DEF Init, NetworkInit, SenderInit, ReceiverInit, NoCall, SentWasAccepted
<1>4. ReleasedWasReceived
  BY <1>1 DEF ReleasedWasReceived
<1> QED BY <1>2, <1>3, <1>4 DEF ReceiptInv

\* A call that moves without touching a map: it was and is not at "track",
\* and reaches "transmit" only by TrackInFlight.
LEMMA ReceiptCallMoves ==
    ASSUME TypeOK, ReceiptInv, NEW c \in Callers, NEW at \in CallStates, NEW s \in Seqs \cup {0},
           call' = [call EXCEPT ![c] = [at |-> at, seq |-> s]],
           call[c].at # "track", at # "track", at # "transmit",
           UNCHANGED <<sentMessages, inFlight, receivedSeqs, reader, toSender, replies, toRetransmit>>,
           \A m \in toReceiver' : m.seq \in DOMAIN sentMessages
    PROVE  ReceiptInv'
<1>1. \A d \in Callers : call'[d] = IF d = c THEN [at |-> at, seq |-> s] ELSE call[d]
  BY DEF TypeOK, SenderTypeOK
<1>2. Open' = Open
  BY <1>1 DEF Open, CallersAt
<1>3. AckedWasReceived' /\ ReleasedWasReceived'
  BY <1>2 DEF ReceiptInv, AckedWasReceived, ReleasedWasReceived
<1>4. SentWasAccepted'
  BY <1>1 DEF ReceiptInv, SentWasAccepted
<1> QED BY <1>3, <1>4 DEF ReceiptInv

\* Every step of the sender keeps the invariant.
LEMMA ReceiptSender ==
    ASSUME TypeOK, ReceiptInv, SenderNext, UNCHANGED receiverVars
    PROVE  ReceiptInv'
<1> USE DEF TypeOK, receiverVars
<1>a. \A m \in toReceiver \cup toRetransmit : m.seq \in DOMAIN sentMessages
  BY DEF ReceiptInv, SentWasAccepted
<1>1. ASSUME NEW c \in Callers, CallAuto(c) PROVE ReceiptInv'
  <2>1. nextSeq \in Seqs /\ "acquire" \in CallStates
    BY <1>1 DEF CallAuto, SenderTypeOK, Seqs, CallStates
  <2> QED BY <1>1, <1>a, <2>1, ReceiptCallMoves DEF CallAuto, networkVars
<1>2. ASSUME NEW c \in Callers, NEW s \in ExplicitSeqs, CallExplicit(c, s)
      PROVE  ReceiptInv'
  <2>1. s \in Seqs /\ "acquire" \in CallStates
    BY SenderBounds DEF CallStates
  <2> QED BY <1>2, <1>a, <2>1, ReceiptCallMoves DEF CallExplicit, networkVars
<1>3. ASSUME NEW c \in Callers, AcquirePermit(c) PROVE ReceiptInv'
  <2>1. "record" \in CallStates /\ call[c].seq \in Seqs \cup {0}
    BY DEF CallStates, SenderTypeOK
  <2> QED BY <1>3, <1>a, <2>1, ReceiptCallMoves DEF AcquirePermit, Goto, networkVars, SenderTypeOK
<1>4. ASSUME NEW c \in Callers, SendWindowFull(c) PROVE ReceiptInv'
  BY <1>4, <1>a, ReceiptCallMoves, ReturnUpdate DEF SendWindowFull, CallStates, networkVars
<1>5. ASSUME NEW c \in Callers, RecordSent(c) PROVE ReceiptInv'
  <2> DEFINE s == call[c].seq
  <2>1. /\ \A d \in Callers : call'[d] = IF d = c THEN [at |-> "track", seq |-> s] ELSE call[d]
        /\ call[c].at = "record" /\ s \in Seqs
    BY <1>5 DEF RecordSent, Goto, SenderTypeOK
  <2>2. DOMAIN sentMessages' = DOMAIN sentMessages \cup {s}
    BY <1>5 DEF RecordSent, Put
  <2>3. Open' = Open \cup {s}
    BY <1>5, <2>1 DEF RecordSent, Open, CallersAt
  <2>4. ReleasedWasReceived'
    BY <1>5, <2>2, <2>3 DEF ReceiptInv, ReleasedWasReceived
  <2>5. AckedWasReceived'
    BY <1>5 DEF RecordSent, networkVars, ReceiptInv, AckedWasReceived
  <2>6. SentWasAccepted'
    BY <1>5, <2>1, <2>2 DEF RecordSent, networkVars, ReceiptInv, SentWasAccepted
  <2> QED BY <2>4, <2>5, <2>6 DEF ReceiptInv
<1>6. ASSUME NEW c \in Callers, TrackInFlight(c) PROVE ReceiptInv'
  <2> DEFINE s == call[c].seq
  <2>1. /\ \A d \in Callers : call'[d] = IF d = c THEN [at |-> "transmit", seq |-> s] ELSE call[d]
        /\ call[c].at = "track" /\ s \in Seqs
    BY <1>6 DEF TrackInFlight, Goto, SenderTypeOK
  <2>2. DOMAIN inFlight' = DOMAIN inFlight \cup {s}
    BY <1>6 DEF TrackInFlight, Put
  <2>3. Open \subseteq Open'
    BY <2>1, <2>2 DEF Open, CallersAt
  <2>4. ReleasedWasReceived'
    BY <1>6, <2>3 DEF TrackInFlight, ReceiptInv, ReleasedWasReceived
  <2>5. AckedWasReceived'
    BY <1>6 DEF TrackInFlight, networkVars, ReceiptInv, AckedWasReceived
  <2>6. SentWasAccepted'
    BY <1>6, <2>1, <2>2 DEF TrackInFlight, networkVars, ReceiptInv, SentWasAccepted
  <2> QED BY <2>4, <2>5, <2>6 DEF ReceiptInv
<1>7. ASSUME NEW c \in Callers, Transmit(c) PROVE ReceiptInv'
  <2>1. call[c].seq \in DOMAIN sentMessages
    BY <1>7 DEF Transmit, ReceiptInv, SentWasAccepted
  <2>2. \A m \in toReceiver' : m.seq \in DOMAIN sentMessages
    BY <1>7, <1>a, <2>1 DEF Transmit
  <2> QED BY <1>7, <2>2, ReceiptCallMoves, ReturnUpdate DEF Transmit, CallStates
<1>8. ASSUME NEW c \in Callers, TransmitError(c) PROVE ReceiptInv'
  BY <1>8, <1>a, ReceiptCallMoves, ReturnUpdate DEF TransmitError, CallStates, networkVars
<1>b. ASSUME UNCHANGED <<call, sentMessages, inFlight>> PROVE ReleasedWasReceived'
  BY <1>b DEF ReceiptInv, ReleasedWasReceived, Open, CallersAt
<1>c. ASSUME UNCHANGED <<call, sentMessages, inFlight>>,
             \A m \in toRetransmit' \cup toReceiver' : m.seq \in DOMAIN sentMessages
      PROVE  SentWasAccepted'
  BY <1>c DEF ReceiptInv, SentWasAccepted
<1>d. ASSUME UNCHANGED <<toSender, replies>> PROVE AckedWasReceived'
  BY <1>d DEF ReceiptInv, AckedWasReceived
<1>9. ASSUME NEW m \in toSender, NEW rest \in ReadDatagram(toSender, m), QueueReply(m, rest)
      PROVE  ReceiptInv'
  <2>1. m \in [typ : {"ACK", "RQST"}, seq : Seqs]
    BY <1>9 DEF QueueReply, NetworkTypeOK, Reply
  <2>2. /\ Len(replies') = Len(replies) + 1
        /\ \A i \in 1 .. Len(replies) : replies'[i] = replies[i]
        /\ replies'[Len(replies) + 1] = m
        /\ Len(replies) \in Nat
    BY <1>9, <2>1, AppendProperties, LenProperties DEF QueueReply, SenderTypeOK
  <2>3. \A i \in 1 .. Len(replies') : replies'[i].typ = "ACK" => replies'[i].seq \in receivedSeqs
    BY <2>2 DEF ReceiptInv, AckedWasReceived
  <2>4. toSender' \subseteq toSender
    BY <1>9 DEF QueueReply, ReadDatagram
  <2>5. AckedWasReceived'
    BY <2>3, <2>4 DEF ReceiptInv, AckedWasReceived
  <2> QED BY <1>9, <1>a, <1>b, <1>c, <2>5 DEF QueueReply, ReceiptInv
<1>10. ASSUME NEW m \in toSender, IgnoreReply(m) PROVE ReceiptInv'
  <2>1. AckedWasReceived'
    BY <1>10 DEF IgnoreReply, senderVars, ReceiptInv, AckedWasReceived
  <2> QED BY <1>10, <1>a, <1>b, <1>c, <2>1 DEF IgnoreReply, senderVars, ReceiptInv
<1>e. ASSUME replies # <<>>, replies' = Tail(replies), toSender' = toSender
      PROVE  AckedWasReceived'
  <2>1. /\ Len(replies') = Len(replies) - 1 /\ Len(replies) \in Nat
        /\ \A i \in 1 .. Len(replies') : replies'[i] = replies[i + 1]
    BY <1>e, HeadTailProperties, LenProperties DEF SenderTypeOK
  <2> QED BY <1>e, <2>1 DEF ReceiptInv, AckedWasReceived
<1>11. ASSUME HandleRequest PROVE ReceiptInv'
  <2>1. \A m \in toReceiver' : m.seq \in DOMAIN sentMessages
    BY <1>11, <1>a DEF HandleRequest
  <2> QED BY <1>11, <1>a, <1>b, <1>c, <1>e, <2>1 DEF HandleRequest, ReceiptInv
<1>12. ASSUME HandleAck PROVE ReceiptInv'
  <2> DEFINE s == Head(replies).seq
  <2>1. DOMAIN inFlight' = DOMAIN inFlight \ {s}
    BY <1>12 DEF HandleAck, Without, Restrict
  <2>2. s \in receivedSeqs
    <3>1. Head(replies) = replies[1] /\ 1 \in 1 .. Len(replies)
      BY <1>12, LenProperties, EmptySeq DEF HandleAck, SenderTypeOK
    <3> QED BY <1>12, <3>1 DEF HandleAck, ReceiptInv, AckedWasReceived
  <2>3. Open \subseteq Open' \cup {s}
    BY <1>12, <2>1 DEF HandleAck, Open, CallersAt
  <2>4. ReleasedWasReceived'
    BY <1>12, <2>2, <2>3 DEF HandleAck, ReceiptInv, ReleasedWasReceived
  <2>5. AckedWasReceived'
    BY <1>12, <1>e DEF HandleAck, networkVars
  <2>6. SentWasAccepted'
    BY <1>12, <2>1 DEF HandleAck, networkVars, ReceiptInv, SentWasAccepted
  <2> QED BY <2>4, <2>5, <2>6 DEF ReceiptInv
<1>13. ASSUME NEW s \in Seqs, Expire(s) PROVE ReceiptInv'
  BY <1>13, <1>a, <1>b, <1>c, <1>d DEF Expire, networkVars, ReceiptInv
<1>14. ASSUME ScanExpired PROVE ReceiptInv'
  <2>1. \A m \in toRetransmit' : m.seq \in DOMAIN inFlight
    BY <1>14 DEF ScanExpired, SenderTypeOK
  <2>2. \A m \in toRetransmit' \cup toReceiver' : m.seq \in DOMAIN sentMessages
    BY <1>14, <1>a, <2>1 DEF ScanExpired, networkVars, ReceiptInv, SentWasAccepted
  <2> QED BY <1>14, <1>b, <1>c, <1>d, <2>2 DEF ScanExpired, networkVars, ReceiptInv
<1>15. ASSUME NEW m \in toRetransmit, Retransmit(m) PROVE ReceiptInv'
  BY <1>15, <1>a, <1>b, <1>c, <1>d DEF Retransmit, ReceiptInv
<1> QED BY <1>1, <1>2, <1>3, <1>4, <1>5, <1>6, <1>7, <1>8, <1>9, <1>10, <1>11, <1>12,
           <1>13, <1>14, <1>15 DEF SenderNext

\* Every step of the receiver keeps the invariant.
LEMMA ReceiptReceiver ==
    ASSUME TypeOK, ReceiptInv, ReceiverNext, UNCHANGED senderVars
    PROVE  ReceiptInv'
<1> USE DEF TypeOK, senderVars
<1>a. ASSUME receivedSeqs \subseteq receivedSeqs' PROVE ReleasedWasReceived'
  BY <1>a DEF ReceiptInv, ReleasedWasReceived, Open, CallersAt
<1>b. ASSUME toReceiver' \subseteq toReceiver,
             \A r \in Readers : reader'[r].at # "idle" =>
                \/ reader[r].at # "idle" /\ reader'[r].msg = reader[r].msg
                \/ reader'[r].msg \in toReceiver
      PROVE  SentWasAccepted'
  BY <1>b DEF ReceiptInv, SentWasAccepted
<1>c. ASSUME receivedSeqs \subseteq receivedSeqs',
             \A m \in toSender' \ toSender : m.typ = "ACK" => m.seq \in receivedSeqs',
             \A r \in Readers : reader'[r].at \in {"push", "ack"} =>
                \/ reader[r].at \in {"push", "ack"} /\ reader'[r].msg = reader[r].msg
                \/ reader'[r].msg.seq \in receivedSeqs'
      PROVE  AckedWasReceived'
  BY <1>c DEF ReceiptInv, AckedWasReceived
<1>1. ASSUME NEW r \in Readers, NEW m \in toReceiver, NEW rest \in ReadDatagram(toReceiver, m),
             ReceiveData(r, m, rest)
      PROVE  ReceiptInv'
  <2>1. \A q \in Readers : reader'[q] = IF q = r THEN [at |-> "record", msg |-> m] ELSE reader[q]
    BY <1>1 DEF ReceiveData, ReceiverTypeOK
  <2> QED BY <1>1, <1>a, <1>b, <1>c, <2>1 DEF ReceiveData, ReadDatagram, ReceiptInv
<1>2. ASSUME NEW r \in Readers, NEW m \in toReceiver, ReceiveBufferFull(r, m) PROVE ReceiptInv'
  BY <1>2, <1>a, <1>b, <1>c DEF ReceiveBufferFull, receiverVars, FlowControl, ReceiptInv
<1>3. ASSUME NEW r \in Readers, NEW m \in toReceiver, ReceiveTruncated(r, m) PROVE ReceiptInv'
  BY <1>3, <1>a, <1>b, <1>c DEF ReceiveTruncated, receiverVars, ReceiptInv
<1>4. ASSUME NEW r \in Readers, RecordReceived(r) PROVE ReceiptInv'
  <2>1. \A q \in Readers :
          reader'[q] = IF q = r THEN [at |-> "push", msg |-> reader[r].msg] ELSE reader[q]
    BY <1>4 DEF RecordReceived, Advance, ReceiverTypeOK
  <2> QED BY <1>4, <1>a, <1>b, <1>c, <2>1 DEF RecordReceived, networkVars, ReceiptInv
<1>5. ASSUME NEW r \in Readers, PushBuffer(r) PROVE ReceiptInv'
  <2>1. \A q \in Readers :
          reader'[q] = IF q = r THEN [at |-> "ack", msg |-> reader[r].msg] ELSE reader[q]
    BY <1>5 DEF PushBuffer, Advance, ReceiverTypeOK
  <2> QED BY <1>5, <1>a, <1>b, <1>c, <2>1 DEF PushBuffer, networkVars, ReceiptInv
<1>6. ASSUME NEW r \in Readers, Finish(r)
      PROVE  \A q \in Readers : reader'[q] = IF q = r THEN [at |-> "idle", msg |-> NoMessage]
                                                      ELSE reader[q]
  BY <1>6 DEF Finish, ReceiverTypeOK
<1>7. ASSUME NEW r \in Readers, SendAck(r) PROVE ReceiptInv'
  <2>1. reader[r].msg.seq \in receivedSeqs
    BY <1>7 DEF SendAck, ReceiptInv, AckedWasReceived
  <2> QED BY <1>6, <1>7, <1>a, <1>b, <1>c, <2>1 DEF SendAck, ReceiptInv
<1>8. ASSUME NEW r \in Readers, AckError(r) PROVE ReceiptInv'
  BY <1>6, <1>8, <1>a, <1>b, <1>c DEF AckError, networkVars, ReceiptInv
<1>9. ASSUME ReceiveFromBuffer PROVE ReceiptInv'
  BY <1>9, <1>a, <1>b, <1>c DEF ReceiveFromBuffer, networkVars, ReceiptInv
<1>10. ASSUME NEW s \in RequestedSeqs, RequestRetransmit(s) PROVE ReceiptInv'
  BY <1>10, <1>a, <1>b, <1>c DEF RequestRetransmit, receiverVars, ReceiptInv
<1> QED BY <1>1, <1>2, <1>3, <1>4, <1>5, <1>7, <1>8, <1>9, <1>10 DEF ReceiverNext

\* The inductive invariant holds in every reachable state.
LEMMA ReceiptInvariant == Spec => []ReceiptInv
<1>1. TypeOK /\ ReceiptInv /\ [Next]_vars => ReceiptInv'
  <2> SUFFICES ASSUME TypeOK, ReceiptInv, [Next]_vars PROVE ReceiptInv'
    OBVIOUS
  <2>1. CASE Sender(SenderNext)
    BY <2>1, ReceiptSender DEF Sender
  <2>2. CASE Receiver(ReceiverNext)
    BY <2>2, ReceiptReceiver DEF Receiver
  <2>3. CASE Lose \/ UNCHANGED vars
    <3>1. /\ toReceiver' \subseteq toReceiver /\ toSender' \subseteq toSender
          /\ UNCHANGED <<senderVars, receiverVars>>
      BY <2>3 DEF Lose, LoseData, LoseReply, vars, networkVars
    <3>2. AckedWasReceived'
      BY <3>1 DEF senderVars, receiverVars, ReceiptInv, AckedWasReceived
    <3>3. SentWasAccepted'
      BY <3>1 DEF senderVars, receiverVars, ReceiptInv, SentWasAccepted
    <3>4. ReleasedWasReceived'
      BY <3>1 DEF senderVars, receiverVars, ReceiptInv, ReleasedWasReceived, Open, CallersAt
    <3> QED BY <3>2, <3>3, <3>4 DEF ReceiptInv
  <2> QED BY <2>1, <2>2, <2>3 DEF Next
<1> QED BY ReceiptInit, TypeCorrect, <1>1, PTL DEF Spec

\* A number leaves the send window only after the receiver has recorded it.
THEOREM ReleaseAfterReceipt == Spec => []ReleasedWasReceived
<1>1. ReceiptInv => ReleasedWasReceived
  BY DEF ReceiptInv
<1> QED BY ReceiptInvariant, <1>1, PTL

----------------------------------------------------------------------------
(* Conservation of the receive buffer. *)

\* The readers that hold a permit not yet accounted for by a buffered message.
Reserving == ReadersAt({"record", "push"})

\* Reserving is finite, and changes by at most the reader that moves.
LEMMA ReservingMoves ==
    ASSUME ReceiverTypeOK, NEW r \in Readers, NEW at \in ReaderStates,
           NEW m \in DataMessage \cup {NoMessage},
           reader' = [reader EXCEPT ![r] = [at |-> at, msg |-> m]]
    PROVE  /\ r \in Reserving <=> reader[r].at = "record" \/ reader[r].at = "push"
           /\ at = "record" \/ at = "push" => Reserving' = Reserving \cup {r}
           /\ at # "record" /\ at # "push" => Reserving' = Reserving \ {r}
<1>1. \A q \in Readers : reader'[q] = IF q = r THEN [at |-> at, msg |-> m] ELSE reader[q]
  BY DEF ReceiverTypeOK
<1> QED BY <1>1 DEF Reserving, ReadersAt

\* The law holds of the initial state: every slot is a permit.
LEMMA BufferInit == Init => BufferConserved
<1> SUFFICES ASSUME Init PROVE BufferConserved
  OBVIOUS
<1>1. ReadersAt({"record", "push"}) = {} /\ Len(buffer) = 0
  BY DEF Init, ReceiverInit, ReadersAt
<1> QED BY <1>1, FS_EmptySet, BufferAssumption DEF Init, ReceiverInit, BufferConserved

\* Every step of the receiver keeps the law.
LEMMA BufferReceiver ==
    ASSUME TypeOK, BufferConserved, ReceiverNext
    PROVE  BufferConserved'
<1> USE DEF TypeOK
<1>a. /\ IsFiniteSet(Reserving) /\ Cardinality(Reserving) \in Nat
      /\ Len(buffer) \in Nat /\ bufferPermits \in Nat /\ ackErrors \in Nat /\ BufferSize \in Nat
  <2>1. IsFiniteSet(Reserving)
    BY ReadersAssumption, FS_Subset DEF Reserving, ReadersAt
  <2> QED BY <2>1, FS_CardinalityType, LenProperties, BufferAssumption DEF ReceiverTypeOK
<1>b. Len(buffer) + bufferPermits + Cardinality(Reserving) = BufferSize + ackErrors
  BY DEF BufferConserved, Reserving
<1>c. ASSUME Len(buffer)' + bufferPermits' + Cardinality(Reserving)' = BufferSize + ackErrors'
      PROVE  BufferConserved'
  BY <1>c DEF BufferConserved, Reserving
<1>d. ASSUME UNCHANGED <<buffer, bufferPermits, Reserving, ackErrors>>
      PROVE  BufferConserved'
  BY <1>b, <1>c, <1>d
<1>e. ASSUME UNCHANGED receiverVars PROVE BufferConserved'
  BY <1>e DEF receiverVars, BufferConserved, ReadersAt
<1>1. ASSUME NEW r \in Readers, NEW m \in toReceiver, NEW rest \in ReadDatagram(toReceiver, m),
             ReceiveData(r, m, rest)
      PROVE  BufferConserved'
  <2>1. /\ reader' = [reader EXCEPT ![r] = [at |-> "record", msg |-> m]]
        /\ reader[r].at = "idle" /\ "record" \in ReaderStates /\ m \in DataMessage
    BY <1>1 DEF ReceiveData, NetworkTypeOK, ReaderStates
  <2>2. Reserving' = Reserving \cup {r} /\ r \notin Reserving
    BY <2>1, ReservingMoves
  <2>3. Cardinality(Reserving') = Cardinality(Reserving) + 1
    BY <1>a, <2>2, FS_AddElement
  <2> QED BY <1>1, <2>3, <1>a, <1>b, <1>c DEF ReceiveData
<1>2. ASSUME NEW r \in Readers, NEW m \in toReceiver, ReceiveBufferFull(r, m)
      PROVE  BufferConserved'
  BY <1>2, <1>e DEF ReceiveBufferFull
<1>3. ASSUME NEW r \in Readers, NEW m \in toReceiver, ReceiveTruncated(r, m)
      PROVE  BufferConserved'
  BY <1>3, <1>e DEF ReceiveTruncated
<1>4. ASSUME NEW r \in Readers, RecordReceived(r) PROVE BufferConserved'
  <2>1. /\ reader' = [reader EXCEPT ![r] = [at |-> "push", msg |-> reader[r].msg]]
        /\ reader[r].at = "record" /\ "push" \in ReaderStates
        /\ reader[r].msg \in DataMessage \cup {NoMessage}
    BY <1>4 DEF RecordReceived, Advance, ReaderStates, ReceiverTypeOK
  <2>2. Reserving' = Reserving \cup {r} /\ r \in Reserving
    BY <2>1, ReservingMoves
  <2>3. Reserving' = Reserving
    BY <2>2
  <2> QED BY <1>4, <2>3, <1>d DEF RecordReceived
<1>5. ASSUME NEW r \in Readers, PushBuffer(r) PROVE BufferConserved'
  <2> DEFINE m == reader[r].msg
  <2>1. /\ reader' = [reader EXCEPT ![r] = [at |-> "ack", msg |-> m]]
        /\ reader[r].at = "push" /\ "ack" \in ReaderStates /\ m \in DataMessage
    BY <1>5 DEF PushBuffer, Advance, ReaderStates, ReceiverTypeOK
  <2>2. Reserving' = Reserving \ {r} /\ r \in Reserving
    <3>1. m \in DataMessage \cup {NoMessage} /\ r \in Reserving
      BY <2>1 DEF Reserving, ReadersAt
    <3>2. ReceiverTypeOK
      OBVIOUS
    <3> HIDE DEF m, TypeOK
    <3> QED BY <2>1, <3>1, <3>2, ReservingMoves
  <2>3. Cardinality(Reserving') = Cardinality(Reserving) - 1
    BY <1>a, <2>2, FS_RemoveElement
  <2>4. Len(buffer') = Len(buffer) + 1
    BY <1>5, <2>1, AppendProperties DEF PushBuffer, ReceiverTypeOK
  <2> QED BY <1>5, <2>3, <2>4, <1>a, <1>b, <1>c DEF PushBuffer
<1>6. ASSUME NEW r \in Readers, reader[r].at = "ack", Finish(r)
      PROVE  Reserving' = Reserving
  <2>1. /\ reader' = [reader EXCEPT ![r] = [at |-> "idle", msg |-> NoMessage]]
        /\ "idle" \in ReaderStates
    BY <1>6 DEF Finish, ReaderStates
  <2>2. Reserving' = Reserving \ {r} /\ r \notin Reserving
    BY <1>6, <2>1, ReservingMoves
  <2> QED BY <2>2
<1>7. ASSUME NEW r \in Readers, SendAck(r) PROVE BufferConserved'
  BY <1>6, <1>7, <1>d DEF SendAck
<1>8. ASSUME NEW r \in Readers, AckError(r) PROVE BufferConserved'
  <2>1. Reserving' = Reserving
    BY <1>6, <1>8 DEF AckError
  <2> QED BY <1>8, <2>1, <1>a, <1>b, <1>c DEF AckError
<1>9. ASSUME ReceiveFromBuffer PROVE BufferConserved'
  <2>1. Len(buffer') = Len(buffer) - 1
    BY <1>9, HeadTailProperties DEF ReceiveFromBuffer, ReceiverTypeOK
  <2>2. Reserving' = Reserving
    BY <1>9 DEF ReceiveFromBuffer, Reserving, ReadersAt
  <2> QED BY <1>9, <2>1, <2>2, <1>a, <1>b, <1>c DEF ReceiveFromBuffer
<1>10. ASSUME NEW s \in RequestedSeqs, RequestRetransmit(s) PROVE BufferConserved'
  BY <1>10, <1>e DEF RequestRetransmit
<1> QED BY <1>1, <1>2, <1>3, <1>4, <1>5, <1>7, <1>8, <1>9, <1>10 DEF ReceiverNext

\* The receive buffer is conserved in every reachable state.
THEOREM BufferConservation == Spec => []BufferConserved
<1>1. TypeOK /\ BufferConserved /\ [Next]_vars => BufferConserved'
  <2> SUFFICES ASSUME TypeOK, BufferConserved, [Next]_vars PROVE BufferConserved'
    OBVIOUS
  <2>1. CASE Receiver(ReceiverNext)
    BY <2>1, BufferReceiver DEF Receiver
  <2>2. CASE UNCHANGED receiverVars
    BY <2>2 DEF receiverVars, BufferConserved, ReadersAt
  <2>3. CASE Sender(SenderNext) \/ Lose \/ UNCHANGED vars
    BY <2>2, <2>3 DEF Sender, Lose, vars
  <2> QED BY <2>1, <2>3 DEF Next
<1> QED BY BufferInit, TypeCorrect, <1>1, PTL DEF Spec

----------------------------------------------------------------------------
(* The channel implements AtLeastOnce. *)

\* The abstract state, as the refinement mapping gives it.
Released == DOMAIN sentMessages \ Open

\* Every step of the sender is an Accept, a Release, or a stutter.
LEMMA RefineSender ==
    ASSUME TypeOK, ReceiptInv, SenderNext, UNCHANGED receiverVars
    PROVE  \/ \E s \in Seqs : Abstract!Accept(s) \/ Abstract!Release(s)
           \/ UNCHANGED <<DOMAIN sentMessages, receivedSeqs, Released>>
<1> DEFINE Stutters == UNCHANGED <<DOMAIN sentMessages, receivedSeqs, Released>>
<1> DEFINE Steps == \E s \in Seqs : Abstract!Accept(s) \/ Abstract!Release(s)
<1> USE DEF TypeOK, receiverVars
<1>1. ASSUME UNCHANGED <<sentMessages, Open>> PROVE Stutters
  BY <1>1 DEF Released
<1>2. ASSUME NEW c \in Callers, NEW at \in CallStates, NEW s \in Seqs \cup {0},
             call' = [call EXCEPT ![c] = [at |-> at, seq |-> s]],
             call[c].at # "track", at # "track", inFlight' = inFlight
      PROVE  Open' = Open
  <2>1. \A d \in Callers : call'[d] = IF d = c THEN [at |-> at, seq |-> s] ELSE call[d]
    BY <1>2 DEF SenderTypeOK
  <2> QED BY <1>2, <2>1 DEF Open, CallersAt
<1>3. ASSUME UNCHANGED <<call, inFlight>> PROVE Open' = Open
  BY <1>3 DEF Open, CallersAt
<1>4. ASSUME NEW c \in Callers, CallAuto(c) PROVE Stutters
  <2>1. nextSeq \in Seqs /\ "acquire" \in CallStates
    BY <1>4 DEF CallAuto, SenderTypeOK, Seqs, CallStates
  <2> QED BY <1>1, <1>2, <1>4, <2>1 DEF CallAuto
<1>5. ASSUME NEW c \in Callers, NEW s \in ExplicitSeqs, CallExplicit(c, s) PROVE Stutters
  <2>1. s \in Seqs /\ "acquire" \in CallStates
    BY SenderBounds DEF CallStates
  <2> QED BY <1>1, <1>2, <1>5, <2>1 DEF CallExplicit
<1>6. ASSUME NEW c \in Callers, AcquirePermit(c) PROVE Stutters
  <2>1. "record" \in CallStates /\ call[c].seq \in Seqs \cup {0}
    BY DEF CallStates, SenderTypeOK
  <2> QED BY <1>1, <1>2, <1>6, <2>1 DEF AcquirePermit, Goto, SenderTypeOK
<1>7. ASSUME NEW c \in Callers, SendWindowFull(c) \/ Transmit(c) \/ TransmitError(c)
      PROVE  Stutters
  <2>1. Return(c) /\ call[c].at # "track" /\ UNCHANGED <<sentMessages, inFlight>>
    BY <1>7 DEF SendWindowFull, Transmit, TransmitError
  <2> QED BY <1>1, <1>2, <2>1, ReturnUpdate DEF CallStates
<1>8. ASSUME NEW c \in Callers, RecordSent(c) PROVE Steps
  <2> DEFINE s == call[c].seq
  <2>1. /\ \A d \in Callers : call'[d] = IF d = c THEN [at |-> "track", seq |-> s] ELSE call[d]
        /\ call[c].at = "record" /\ s \in Seqs
    BY <1>8 DEF RecordSent, Goto, SenderTypeOK
  <2>2. DOMAIN sentMessages' = DOMAIN sentMessages \cup {s}
    BY <1>8 DEF RecordSent, Put
  <2>3. Open' = Open \cup {s}
    BY <1>8, <2>1 DEF RecordSent, Open, CallersAt
  <2>4. Abstract!Accept(s)
    BY <2>2, <2>3 DEF Abstract!Accept
  <2> QED BY <2>1, <2>4
<1>9. ASSUME NEW c \in Callers, TrackInFlight(c) PROVE Stutters
  <2> DEFINE s == call[c].seq
  <2>1. /\ \A d \in Callers : call'[d] = IF d = c THEN [at |-> "transmit", seq |-> s] ELSE call[d]
        /\ call[c].at = "track" /\ s \in Seqs
    BY <1>9 DEF TrackInFlight, Goto, SenderTypeOK
  <2>2. DOMAIN inFlight' = DOMAIN inFlight \cup {s}
    BY <1>9 DEF TrackInFlight, Put
  <2>3. Open' = Open
    BY <2>1, <2>2 DEF Open, CallersAt
  <2> QED BY <1>1, <1>9, <2>3 DEF TrackInFlight
<1>10. ASSUME HandleAck PROVE Steps \/ Stutters
  <2> DEFINE s == Head(replies).seq
  <2>1. DOMAIN inFlight' = DOMAIN inFlight \ {s}
    BY <1>10 DEF HandleAck, Without, Restrict
  <2>2. s \in receivedSeqs
    <3>1. Head(replies) = replies[1] /\ 1 \in 1 .. Len(replies)
      BY <1>10, LenProperties, EmptySeq DEF HandleAck, SenderTypeOK
    <3> QED BY <1>10, <3>1 DEF HandleAck, ReceiptInv, AckedWasReceived
  <2>3. Open' = Open \/ (s \in DOMAIN inFlight /\ Open' = Open \ {s})
    BY <1>10, <2>1 DEF HandleAck, Open, CallersAt
  <2>4. CASE Open' = Open
    BY <1>1, <1>10, <2>4 DEF HandleAck
  <2>5. CASE s \in DOMAIN inFlight /\ Open' = Open \ {s}
    <3>1. s \in Seqs /\ s \in DOMAIN sentMessages
      BY <2>5, PartialFinite DEF ReceiptInv, SentWasAccepted, SenderTypeOK
    <3>2. Abstract!Release(s)
      BY <1>10, <2>2, <2>5, <3>1 DEF HandleAck, Abstract!Release
    <3> QED BY <3>1, <3>2
  <2> QED BY <2>3, <2>4, <2>5
<1>11. ASSUME \/ \E m \in toSender : \/ \E rest \in ReadDatagram(toSender, m) : QueueReply(m, rest)
                                     \/ IgnoreReply(m)
              \/ HandleRequest
              \/ \E s \in Seqs : Expire(s)
              \/ ScanExpired
              \/ \E m \in toRetransmit : Retransmit(m)
       PROVE  Stutters
  <2>1. UNCHANGED <<sentMessages, inFlight, call>>
    BY <1>11 DEF QueueReply, IgnoreReply, HandleRequest, Expire, ScanExpired, Retransmit, senderVars
  <2> QED BY <1>1, <1>3, <2>1
<1> QED BY <1>4, <1>5, <1>6, <1>7, <1>8, <1>9, <1>10, <1>11 DEF SenderNext

\* The channel implements the safety part of AtLeastOnce.
THEOREM Implementation == Spec => ImplementsAtLeastOnce
<1>1. Init => Abstract!Init
  <2> SUFFICES ASSUME Init PROVE Abstract!Init
    OBVIOUS
  <2>1. DOMAIN sentMessages = {}
    BY DEF Init, SenderInit
  <2> QED BY <2>1 DEF Init, ReceiverInit, Abstract!Init
<1>2. TypeOK /\ ReceiptInv /\ [Next]_vars => [Abstract!Next]_(Abstract!vars)
  <2> SUFFICES ASSUME TypeOK, ReceiptInv, [Next]_vars
               PROVE  Abstract!Next \/ UNCHANGED Abstract!vars
    OBVIOUS
  <2>1. CASE Sender(SenderNext)
    BY <2>1, RefineSender DEF Sender, Abstract!Next, Abstract!vars, Released
  <2>2. CASE UNCHANGED <<senderVars, receivedSeqs>>
    BY <2>2 DEF senderVars, Open, CallersAt, Abstract!vars
  <2>3. CASE Receiver(ReceiverNext)
    <3>1. ASSUME NEW r \in Readers, RecordReceived(r), UNCHANGED senderVars PROVE Abstract!Next
      <4> DEFINE s == reader[r].msg.seq
      <4>1. s \in DOMAIN sentMessages /\ s \in Seqs
        BY <3>1 DEF RecordReceived, ReceiptInv, SentWasAccepted, TypeOK, ReceiverTypeOK, DataMessage
      <4>2. Abstract!Receive(s)
        BY <3>1, <4>1 DEF RecordReceived, senderVars, Open, CallersAt, Abstract!Receive
      <4> QED BY <4>1, <4>2 DEF Abstract!Next
    <3>2. CASE receivedSeqs' = receivedSeqs
      BY <2>2, <2>3, <3>2 DEF Receiver
    <3>3. receivedSeqs' = receivedSeqs \/ \E r \in Readers : RecordReceived(r)
      BY <2>3 DEF Receiver, ReceiverNext, ReceiveData, ReceiveBufferFull, ReceiveTruncated,
                  PushBuffer, SendAck, AckError, ReceiveFromBuffer, RequestRetransmit, receiverVars
    <3> QED BY <2>3, <3>1, <3>2, <3>3 DEF Receiver
  <2>4. CASE Lose \/ UNCHANGED vars
    BY <2>2, <2>4 DEF Lose, vars, receiverVars
  <2> QED BY <2>1, <2>3, <2>4 DEF Next
<1> QED BY <1>1, <1>2, TypeCorrect, ReceiptInvariant, PTL
        DEF Spec, ImplementsAtLeastOnce, Abstract!Spec

----------------------------------------------------------------------------
(* One message per number, as long as every number comes from              *)
(* send_message_auto_seq.                                                  *)

\* m is the message recorded under its number.
Recorded(m) == m.seq \in DOMAIN sentMessages /\ m.data = sentMessages[m.seq]

\* A number that was taken belongs to one call, which records it once.
NumberInv ==
    /\ \A s \in DOMAIN sentMessages : s < nextSeq
    /\ \A c \in Callers : call[c].at # "idle" => call[c].seq < nextSeq
    /\ \A c, d \in Callers : c # d /\ call[c].at # "idle" /\ call[d].at # "idle"
                                => call[c].seq # call[d].seq
    /\ \A c \in CallersAt({"acquire", "record"}) : call[c].seq \notin DOMAIN sentMessages
    /\ \A c \in CallersAt({"track", "transmit"}) : Recorded([seq |-> call[c].seq, data |-> c])

\* Every copy, one a reader holds included, is of the recorded message.
CopyInv ==
    /\ \A m \in toReceiver \cup toRetransmit : Recorded(m)
    /\ \A i \in 1 .. Len(buffer) : Recorded(buffer[i])
    /\ \A s \in DOMAIN inFlight : Recorded([seq |-> s, data |-> inFlight[s]])
    /\ \A r \in Readers : reader[r].at # "idle" => Recorded(reader[r].msg)

\* Nothing is recorded initially.
LEMMA CopyInit == Init => NumberInv /\ CopyInv
<1> SUFFICES ASSUME Init PROVE NumberInv /\ CopyInv
  OBVIOUS
<1>1. DOMAIN inFlight = {} /\ DOMAIN sentMessages = {} /\ Len(buffer) = 0
  BY DEF Init, SenderInit, ReceiverInit
<1>2. NumberInv
  BY <1>1 DEF Init, SenderInit, NoCall, NumberInv, CallersAt
<1>3. CopyInv
  BY <1>1 DEF Init, NetworkInit, SenderInit, ReceiverInit, CopyInv
<1> QED BY <1>2, <1>3

\* A call takes a fresh number, and only it records a message under it.
LEMMA NumberSender ==
    ASSUME TypeOK, NumberInv, SenderNext, ExplicitSeqs = {}
    PROVE  NumberInv' /\ \A m : Recorded(m) => Recorded(m)'
<1>a. /\ nextSeq \in Nat
      /\ \A c \in Callers : call[c].seq \in Nat
      /\ \A s \in DOMAIN sentMessages : s \in Nat
      /\ call = [c \in Callers |-> call[c]]
  <2>1. DOMAIN sentMessages \subseteq Seqs
    BY PartialFinite DEF TypeOK, SenderTypeOK
  <2> QED BY <2>1, MaxSeqAssumption DEF TypeOK, SenderTypeOK, Seqs
<1>b. ASSUME sentMessages' = sentMessages PROVE \A m : Recorded(m) => Recorded(m)'
  BY <1>b DEF Recorded
<1>c. ASSUME UNCHANGED <<nextSeq, sentMessages, call>> PROVE NumberInv'
  BY <1>c DEF NumberInv, CallersAt, Recorded
<1>d. ASSUME NEW c \in Callers, NEW at \in CallStates, call[c].at # "idle",
             call' = [call EXCEPT ![c] = [at |-> at, seq |-> call[c].seq]],
             UNCHANGED <<nextSeq, sentMessages>>,
             at \in {"acquire", "record"} => call[c].at \in {"acquire", "record"},
             at \in {"track", "transmit"} => call[c].at \in {"track", "transmit"}
      PROVE  NumberInv'
  <2>1. \A d \in Callers : call'[d] = IF d = c THEN [at |-> at, seq |-> call[c].seq] ELSE call[d]
    BY <1>a, <1>d
  <2> QED BY <1>d, <2>1 DEF NumberInv, CallersAt, Recorded
<1>e. ASSUME NEW c \in Callers, Return(c), UNCHANGED <<nextSeq, sentMessages>> PROVE NumberInv'
  <2>1. \A d \in Callers : call'[d] = IF d = c THEN [at |-> "idle", seq |-> 0] ELSE call[d]
    BY <1>a, <1>e DEF Return, NoCall
  <2> QED BY <1>e, <2>1 DEF NumberInv, CallersAt, Recorded
<1>1. ASSUME NEW c \in Callers, CallAuto(c) PROVE NumberInv'
  <2>1. /\ \A d \in Callers : call'[d] = IF d = c THEN [at |-> "acquire", seq |-> nextSeq] ELSE call[d]
        /\ nextSeq' = nextSeq + 1 /\ sentMessages' = sentMessages
    BY <1>a, <1>1 DEF CallAuto
  <2>2. \A n \in Nat : n < nextSeq => n < nextSeq' /\ n # nextSeq
    BY <1>a, <2>1
  <2>3. nextSeq < nextSeq' /\ nextSeq \notin DOMAIN sentMessages
    BY <1>a, <2>1 DEF NumberInv
  <2>4. \A d \in Callers \ {c} : call[d].at # "idle" => call[d].seq < nextSeq' /\ call[d].seq # nextSeq
    BY <1>a, <2>2 DEF NumberInv
  <2>5. \A s \in DOMAIN sentMessages : s < nextSeq'
    BY <1>a, <2>2 DEF NumberInv
  <2>6. \A d \in CallersAt({"acquire", "record"})' : call'[d].seq \notin DOMAIN sentMessages
    BY <2>1, <2>3 DEF NumberInv, CallersAt
  <2>7. \A d \in CallersAt({"track", "transmit"})' : Recorded([seq |-> call'[d].seq, data |-> d])
    BY <2>1 DEF NumberInv, CallersAt
  <2> QED BY <2>1, <2>3, <2>4, <2>5, <2>6, <2>7 DEF NumberInv, Recorded
<1>2. ASSUME NEW c \in Callers, RecordSent(c)
      PROVE  NumberInv' /\ \A m : Recorded(m) => Recorded(m)'
  <2> DEFINE s == call[c].seq
  <2>1. /\ \A d \in Callers : call'[d] = IF d = c THEN [at |-> "track", seq |-> s] ELSE call[d]
        /\ call[c].at = "record" /\ nextSeq' = nextSeq
    BY <1>a, <1>2 DEF RecordSent, Goto
  <2>2. s \notin DOMAIN sentMessages /\ s < nextSeq
    BY <2>1 DEF NumberInv, CallersAt
  <2>3. /\ DOMAIN sentMessages' = DOMAIN sentMessages \cup {s}
        /\ sentMessages'[s] = c
        /\ \A t \in DOMAIN sentMessages : sentMessages'[t] = sentMessages[t]
    BY <1>2, <2>2 DEF RecordSent, Put
  <2>4. \A m : Recorded(m) => Recorded(m)'
    BY <2>3 DEF Recorded
  <2>5. \A d \in CallersAt({"acquire", "record"})' :
           /\ d # c /\ d \in CallersAt({"acquire", "record"})
           /\ call'[d] = call[d] /\ call[d].at # "idle"
    BY <2>1 DEF CallersAt
  <2>6. \A d \in CallersAt({"acquire", "record"})' : call'[d].seq \notin DOMAIN sentMessages'
    <3> TAKE d \in CallersAt({"acquire", "record"})'
    <3>1. d \in Callers /\ call[d].seq # s
      BY <2>1, <2>5 DEF NumberInv, CallersAt
    <3> QED BY <2>3, <2>5, <3>1 DEF NumberInv
  <2>7. \A d \in CallersAt({"track", "transmit"})' :
           call'[d].seq \in DOMAIN sentMessages' /\ sentMessages'[call'[d].seq] = d
    <3> TAKE d \in CallersAt({"track", "transmit"})'
    <3>1. CASE d = c
      BY <2>1, <2>3, <3>1
    <3>2. CASE d # c
      <4>1. d \in CallersAt({"track", "transmit"}) /\ call'[d] = call[d]
        BY <2>1, <3>2 DEF CallersAt
      <4>2. call[d].seq \in DOMAIN sentMessages /\ sentMessages[call[d].seq] = d
        BY <4>1 DEF NumberInv, Recorded
      <4> QED BY <2>3, <4>1, <4>2
    <3> QED BY <3>1, <3>2
  <2>8. \A t \in DOMAIN sentMessages' : t < nextSeq'
    BY <2>1, <2>2, <2>3 DEF NumberInv
  <2>9. \A d \in Callers : call'[d].seq = call[d].seq /\ (call'[d].at # "idle" <=> call[d].at # "idle")
    BY <2>1
  <2>10. NumberInv'
    BY <2>1, <2>6, <2>7, <2>8, <2>9 DEF NumberInv, Recorded
  <2> QED BY <2>4, <2>10
<1>3. ASSUME NEW c \in Callers, AcquirePermit(c) PROVE NumberInv'
  BY <1>3, <1>d DEF AcquirePermit, Goto, CallStates, TypeOK, SenderTypeOK
<1>4. ASSUME NEW c \in Callers, TrackInFlight(c) PROVE NumberInv'
  BY <1>4, <1>d DEF TrackInFlight, Goto, CallStates, TypeOK, SenderTypeOK
<1>5. ASSUME NEW c \in Callers, SendWindowFull(c) \/ Transmit(c) \/ TransmitError(c)
      PROVE  NumberInv' /\ sentMessages' = sentMessages
  BY <1>5, <1>e DEF SendWindowFull, Transmit, TransmitError
<1>6. ASSUME \/ \E m \in toSender : \/ \E rest \in ReadDatagram(toSender, m) : QueueReply(m, rest)
                                    \/ IgnoreReply(m)
             \/ HandleRequest \/ HandleAck \/ \E s \in Seqs : Expire(s)
             \/ ScanExpired \/ \E m \in toRetransmit : Retransmit(m)
      PROVE  UNCHANGED <<nextSeq, sentMessages, call>>
  BY <1>6 DEF QueueReply, IgnoreReply, HandleRequest, HandleAck, Expire, ScanExpired, Retransmit,
              senderVars
<1>7. \A c \in Callers : CallAuto(c) \/ AcquirePermit(c) \/ TrackInFlight(c)
                            => sentMessages' = sentMessages
  BY DEF CallAuto, AcquirePermit, TrackInFlight
<1> QED BY <1>b, <1>c, <1>1, <1>2, <1>3, <1>4, <1>5, <1>6, <1>7 DEF SenderNext

\* A step of the sender makes copies of recorded messages only.
LEMMA CopySender ==
    ASSUME TypeOK, NumberInv, CopyInv, SenderNext, UNCHANGED receiverVars,
           \A m : Recorded(m) => Recorded(m)'
    PROVE  CopyInv'
<1> USE DEF receiverVars
<1>a. ASSUME \A m \in toReceiver' \cup toRetransmit' : m \in toReceiver \cup toRetransmit \/ Recorded(m),
             \A s \in DOMAIN inFlight' : Recorded([seq |-> s, data |-> inFlight'[s]])
      PROVE  CopyInv'
  <2>1. \A m \in toReceiver' \cup toRetransmit' : Recorded(m)'
    BY <1>a DEF CopyInv
  <2>2. \A i \in 1 .. Len(buffer) : Recorded(buffer[i])'
    <3> TAKE i \in 1 .. Len(buffer)
    <3> DEFINE m == buffer[i]
    <3>1. Recorded(m)
      BY DEF CopyInv
    <3> QED BY <3>1 DEF Recorded
  <2>3. \A s \in DOMAIN inFlight' : Recorded([seq |-> s, data |-> inFlight[s]])'
    BY <1>a DEF Recorded
  <2>4. \A r \in Readers : reader[r].at # "idle" => Recorded(reader[r].msg)'
    BY DEF CopyInv, Recorded
  <2> QED BY <2>1, <2>2, <2>3, <2>4 DEF CopyInv, Recorded
<1>b. \A s \in DOMAIN inFlight : Recorded([seq |-> s, data |-> inFlight[s]])
  BY DEF CopyInv
<1>1. ASSUME NEW c \in Callers, TrackInFlight(c) PROVE CopyInv'
  <2> DEFINE s == call[c].seq
  <2>1. Recorded([seq |-> s, data |-> c])
    BY <1>1 DEF TrackInFlight, NumberInv, CallersAt
  <2>2. /\ DOMAIN inFlight' = DOMAIN inFlight \cup {s}
        /\ \A t \in DOMAIN inFlight' : inFlight'[t] = IF t = s THEN c ELSE inFlight[t]
    BY <1>1 DEF TrackInFlight, Put
  <2>3. \A t \in DOMAIN inFlight' : Recorded([seq |-> t, data |-> inFlight'[t]])
    BY <1>b, <2>1, <2>2
  <2> QED BY <1>1, <1>a, <2>3 DEF TrackInFlight, networkVars
<1>2. ASSUME NEW c \in Callers, Transmit(c) PROVE CopyInv'
  <2>1. Recorded([seq |-> call[c].seq, data |-> c])
    BY <1>2 DEF Transmit, NumberInv, CallersAt
  <2> QED BY <1>2, <1>a, <1>b, <2>1 DEF Transmit
<1>3. ASSUME HandleRequest PROVE CopyInv'
  <2> DEFINE s == Head(replies).seq
  <2>1. toReceiver' = IF s \in DOMAIN sentMessages
                      THEN toReceiver \cup {[seq |-> s, data |-> sentMessages[s]]} ELSE toReceiver
    BY <1>3 DEF HandleRequest
  <2>2. s \in DOMAIN sentMessages => Recorded([seq |-> s, data |-> sentMessages[s]])
    BY DEF Recorded
  <2>3. \A m \in toReceiver' : m \in toReceiver \/ Recorded(m)
    BY <2>1, <2>2
  <2> QED BY <1>3, <1>a, <1>b, <2>3 DEF HandleRequest
<1>4. ASSUME HandleAck PROVE CopyInv'
  <2>1. \A t \in DOMAIN inFlight' : t \in DOMAIN inFlight /\ inFlight'[t] = inFlight[t]
    BY <1>4 DEF HandleAck, Without, Restrict
  <2> QED BY <1>4, <1>a, <1>b, <2>1 DEF HandleAck, networkVars
<1>5. ASSUME ScanExpired PROVE CopyInv'
  <2>1. \A m \in toRetransmit' : Recorded(m)
    BY <1>5, <1>b DEF ScanExpired, TypeOK, SenderTypeOK
  <2> QED BY <1>5, <1>a, <1>b, <2>1 DEF ScanExpired, networkVars
<1>6. ASSUME NEW m \in toRetransmit, Retransmit(m) PROVE CopyInv'
  BY <1>6, <1>a, <1>b DEF Retransmit
<1>7. ASSUME UNCHANGED <<toReceiver, toRetransmit, inFlight>> PROVE CopyInv'
  BY <1>7, <1>a, <1>b
<1>8. ASSUME NEW c \in Callers,
             \/ CallAuto(c) \/ \E s \in ExplicitSeqs : CallExplicit(c, s)
             \/ AcquirePermit(c) \/ SendWindowFull(c) \/ RecordSent(c) \/ TransmitError(c)
      PROVE  CopyInv'
  BY <1>7, <1>8 DEF CallAuto, CallExplicit, AcquirePermit, SendWindowFull, RecordSent,
                    TransmitError, networkVars
<1>9. ASSUME \/ \E m \in toSender : \/ \E rest \in ReadDatagram(toSender, m) : QueueReply(m, rest)
                                    \/ IgnoreReply(m)
             \/ \E s \in Seqs : Expire(s)
      PROVE  CopyInv'
  BY <1>7, <1>9 DEF QueueReply, IgnoreReply, Expire, networkVars, senderVars
<1> QED BY <1>1, <1>2, <1>3, <1>4, <1>5, <1>6, <1>8, <1>9 DEF SenderNext

\* A step of the receiver, or of the network, moves copies.
LEMMA CopyReceiver ==
    ASSUME TypeOK, CopyInv, ReceiverNext, UNCHANGED senderVars
    PROVE  CopyInv'
<1> USE DEF senderVars
<1>a. \A m : Recorded(m) <=> Recorded(m)'
  BY DEF Recorded
<1>b. /\ \A m \in toReceiver \cup toRetransmit : Recorded(m)
      /\ \A s \in DOMAIN inFlight : Recorded([seq |-> s, data |-> inFlight[s]])
  BY DEF CopyInv
<1>c. ASSUME toReceiver' \subseteq toReceiver,
             \A i \in 1 .. Len(buffer') : Recorded(buffer'[i]),
             \A r \in Readers : reader'[r].at # "idle" =>
                \/ reader[r].at # "idle" /\ reader'[r].msg = reader[r].msg
                \/ reader'[r].msg \in toReceiver
      PROVE  CopyInv'
  <2>1. \A r \in Readers : reader'[r].at # "idle" => Recorded(reader'[r].msg)
    BY <1>c DEF CopyInv
  <2> QED BY <1>b, <1>c, <2>1 DEF CopyInv, Recorded
<1>d. ASSUME buffer' = buffer PROVE \A i \in 1 .. Len(buffer') : Recorded(buffer'[i])
  BY <1>d DEF CopyInv
<1>e. reader \in [Readers -> [at : ReaderStates, msg : DataMessage \cup {NoMessage}]]
      /\ buffer \in Seq(DataMessage)
  BY DEF TypeOK, ReceiverTypeOK
<1>1. ASSUME NEW r \in Readers, NEW m \in toReceiver, NEW rest \in ReadDatagram(toReceiver, m),
             ReceiveData(r, m, rest)
      PROVE  CopyInv'
  <2>1. \A q \in Readers : reader'[q] = IF q = r THEN [at |-> "record", msg |-> m] ELSE reader[q]
    BY <1>1, <1>e DEF ReceiveData
  <2> QED BY <1>1, <1>c, <1>d, <2>1 DEF ReceiveData, ReadDatagram
<1>2. ASSUME NEW r \in Readers, NEW m \in toReceiver,
             ReceiveBufferFull(r, m) \/ ReceiveTruncated(r, m)
      PROVE  CopyInv'
  BY <1>2, <1>c, <1>d DEF ReceiveBufferFull, ReceiveTruncated, receiverVars
<1>3. ASSUME NEW r \in Readers, RecordReceived(r) PROVE CopyInv'
  <2>1. \A q \in Readers :
          reader'[q] = IF q = r THEN [at |-> "push", msg |-> reader[r].msg] ELSE reader[q]
    BY <1>3, <1>e DEF RecordReceived, Advance
  <2> QED BY <1>3, <1>c, <1>d, <2>1 DEF RecordReceived, networkVars
<1>4. ASSUME NEW r \in Readers, PushBuffer(r) PROVE CopyInv'
  <2>1. \A q \in Readers :
          reader'[q] = IF q = r THEN [at |-> "ack", msg |-> reader[r].msg] ELSE reader[q]
    BY <1>4, <1>e DEF PushBuffer, Advance
  <2>2. reader[r].at = "push" /\ reader[r].msg \in DataMessage /\ Recorded(reader[r].msg)
    BY <1>4 DEF PushBuffer, TypeOK, ReceiverTypeOK, CopyInv
  <2>3. /\ Len(buffer') = Len(buffer) + 1
        /\ \A i \in 1 .. Len(buffer) : buffer'[i] = buffer[i]
        /\ buffer'[Len(buffer) + 1] = reader[r].msg
        /\ Len(buffer) \in Nat
    BY <1>4, <1>e, <2>2, AppendProperties, LenProperties DEF PushBuffer
  <2>4. \A i \in 1 .. Len(buffer') : Recorded(buffer'[i])
    BY <2>2, <2>3 DEF CopyInv
  <2> QED BY <1>4, <1>c, <2>1, <2>4 DEF PushBuffer, networkVars
<1>5. ASSUME NEW r \in Readers, SendAck(r) \/ AckError(r) PROVE CopyInv'
  <2>1. \A q \in Readers : reader'[q] = IF q = r THEN [at |-> "idle", msg |-> NoMessage] ELSE reader[q]
    BY <1>5, <1>e DEF SendAck, AckError, Finish
  <2> QED BY <1>5, <1>c, <1>d, <2>1 DEF SendAck, AckError, networkVars
<1>6. ASSUME ReceiveFromBuffer PROVE CopyInv'
  <2>1. /\ Len(buffer') = Len(buffer) - 1 /\ Len(buffer) \in Nat
        /\ \A i \in 1 .. Len(buffer') : buffer'[i] = buffer[i + 1]
    BY <1>6, <1>e, HeadTailProperties, LenProperties DEF ReceiveFromBuffer
  <2>2. \A i \in 1 .. Len(buffer') : Recorded(buffer'[i])
    BY <2>1 DEF CopyInv
  <2> QED BY <1>6, <1>c, <2>2 DEF ReceiveFromBuffer, networkVars
<1>7. ASSUME NEW s \in RequestedSeqs, RequestRetransmit(s) PROVE CopyInv'
  BY <1>7, <1>c, <1>d DEF RequestRetransmit, receiverVars
<1> QED BY <1>1, <1>2, <1>3, <1>4, <1>5, <1>6, <1>7 DEF ReceiverNext

\* When no caller passes a number of its own, every copy of a message is the
\* one recorded for its number (lib.rs:252-255), however calls interleave.
THEOREM NumbersIdentifyMessages ==
    ASSUME ExplicitSeqs = {}
    PROVE  Spec => []OneMessagePerSeq
<1>1. TypeOK /\ NumberInv /\ CopyInv /\ [Next]_vars => (NumberInv /\ CopyInv)'
  <2> SUFFICES ASSUME TypeOK, NumberInv, CopyInv, [Next]_vars PROVE (NumberInv /\ CopyInv)'
    OBVIOUS
  <2>1. CASE Sender(SenderNext)
    BY <2>1, NumberSender, CopySender DEF Sender
  <2>2. ASSUME UNCHANGED senderVars PROVE NumberInv'
    BY <2>2 DEF senderVars, NumberInv, CallersAt, Recorded
  <2>3. CASE Receiver(ReceiverNext)
    BY <2>2, <2>3, CopyReceiver DEF Receiver
  <2>4. CASE Lose \/ UNCHANGED vars
    <3>1. toReceiver' \subseteq toReceiver /\ UNCHANGED <<senderVars, receiverVars>>
      BY <2>4 DEF Lose, LoseData, LoseReply, vars, networkVars
    <3> QED BY <2>2, <3>1 DEF senderVars, receiverVars, CopyInv, Recorded
  <2> QED BY <2>1, <2>3, <2>4 DEF Next
<1>2. TypeOK /\ CopyInv => OneMessagePerSeq
  <2> SUFFICES ASSUME TypeOK, CopyInv PROVE OneMessagePerSeq
    OBVIOUS
  <2>1. DOMAIN buffer = 1 .. Len(buffer)
    BY LenProperties DEF TypeOK, ReceiverTypeOK
  <2> QED BY <2>1 DEF CopyInv, OneMessagePerSeq, Recorded
<1> QED BY CopyInit, TypeCorrect, <1>1, <1>2, PTL DEF Spec
=============================================================================
