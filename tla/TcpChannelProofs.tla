-------------------------- MODULE TcpChannelProofs --------------------------
(***************************************************************************)
(* Proofs about TcpChannel, for every number of buffers, every queue, frame *)
(* buffer and window size.                                                 *)
(***************************************************************************)
EXTENDS TcpChannel, SequenceTheorems, TLAPS

----------------------------------------------------------------------------
(* Sequences of frames and of buffers. *)

\* What both streams of a connection consist of.
Frame == [typ : {"Data", "Ack"}, seq : Tuples] \cup {Close}

\* The order of two buffers: one that is sent twice follows itself.
Below(m, n) == IF Resends THEN m <= n ELSE m < n

AllBelow(S, T) == \A m \in S : \A n \in T : Below(m, n)

Rising(buffers) == \A i, j \in DOMAIN buffers : i < j => Below(buffers[i], buffers[j])

\* The buffers that frames carry or acknowledge.
Carried(frames) == {frames[i].seq : i \in {j \in DOMAIN frames : frames[j] # Close}}

InOrder(frames) ==
    \A i \in DOMAIN frames : frames[i] # Close =>
        \A j \in 1 .. (i - 1) : frames[j] # Close => Below(frames[j].seq, frames[i].seq)

\* Requests and responses are frames; those that are not Close carry a buffer.
LEMMA FrameKinds ==
    /\ \A s \in Seq(Request) : s \in Seq(Frame)
    /\ \A s \in Seq(Response) : s \in Seq(Frame)
    /\ \A n \in Tuples : Data(n) \in Frame /\ Data(n) # Close
                           /\ Ack(n) \in Frame /\ Ack(n) # Close
    /\ \A f \in Frame : f # Close => f.seq \in Tuples
    /\ \A f \in Request : (f.typ = "Data") <=> (f # Close)
    /\ \A f \in Response : (f.typ = "Ack") <=> (f # Close)
<1>1. Request \subseteq Frame /\ Response \subseteq Frame
  BY DEF Request, Response, Frame, Close
<1>2. /\ \A s \in Seq(Request) : s \in Seq(Frame)
      /\ \A s \in Seq(Response) : s \in Seq(Frame)
  BY <1>1
<1>3. \A n \in Tuples : Data(n) \in Frame /\ Data(n) # Close
                           /\ Ack(n) \in Frame /\ Ack(n) # Close
  BY DEF Frame, Data, Ack, Close
<1>4. \A f \in Frame : f # Close => f.seq \in Tuples
  BY DEF Frame
<1>5. /\ \A f \in Request : (f.typ = "Data") <=> (f # Close)
      /\ \A f \in Response : (f.typ = "Ack") <=> (f # Close)
  BY DEF Request, Response, Close
<1> QED
  BY <1>2, <1>3, <1>4, <1>5

\* A frame at the end of a sequence.
LEMMA AppendFrame ==
    ASSUME NEW s \in Seq(Frame), NEW f \in Frame
    PROVE  /\ Carried(Append(s, f)) = Carried(s) \cup (IF f = Close THEN {} ELSE {f.seq})
           /\ InOrder(s) /\ (f = Close \/ AllBelow(Carried(s), {f.seq})) => InOrder(Append(s, f))
<1> DEFINE t == Append(s, f)
<1>1. /\ Len(t) = Len(s) + 1
      /\ DOMAIN s = 1 .. Len(s)
      /\ DOMAIN t = 1 .. (Len(s) + 1)
      /\ t[Len(s) + 1] = f
      /\ \A i \in DOMAIN s : t[i] = s[i]
      /\ Len(s) \in Nat
  OBVIOUS
<1> HIDE DEF t
<1>2. Carried(t) = Carried(s) \cup (IF f = Close THEN {} ELSE {f.seq})
  <2>1. ASSUME NEW n \in Carried(t) PROVE n \in Carried(s) \/ (f # Close /\ n = f.seq)
    BY <1>1 DEF Carried
  <2>2. ASSUME NEW n \in Carried(s) PROVE n \in Carried(t)
    BY <1>1 DEF Carried
  <2>3. f # Close => f.seq \in Carried(t)
    BY <1>1 DEF Carried
  <2> QED
    BY <2>1, <2>2, <2>3
<1>3. ASSUME InOrder(s), f = Close \/ AllBelow(Carried(s), {f.seq}) PROVE InOrder(t)
  BY <1>1, <1>3 DEF InOrder, AllBelow, Carried
<1> QED
  BY <1>2, <1>3 DEF t

\* A frame taken from the front of a sequence.
LEMMA TailFrames ==
    ASSUME NEW s \in Seq(Frame), s # <<>>
    PROVE  /\ Tail(s) \in Seq(Frame)
           /\ Head(s) \in Frame
           /\ Carried(s) = Carried(Tail(s)) \cup (IF Head(s) = Close THEN {} ELSE {Head(s).seq})
           /\ InOrder(s) =>
                /\ InOrder(Tail(s))
                /\ Head(s) = Close \/ AllBelow({Head(s).seq}, Carried(Tail(s)))
<1> DEFINE t == Tail(s)
<1>1. /\ Len(s) \in Nat \ {0}
      /\ DOMAIN s = 1 .. Len(s)
      /\ DOMAIN t = 1 .. (Len(s) - 1)
      /\ Head(s) = s[1]
      /\ \A i \in DOMAIN t : t[i] = s[i + 1]
      /\ Tail(s) \in Seq(Frame)
      /\ Head(s) \in Frame
  OBVIOUS
<1> HIDE DEF t
<1>2. Carried(s) = Carried(t) \cup (IF Head(s) = Close THEN {} ELSE {Head(s).seq})
  <2>1. ASSUME NEW n \in Carried(s) PROVE n \in Carried(t) \/ (Head(s) # Close /\ n = Head(s).seq)
    <3>1. PICK i \in DOMAIN s : s[i] # Close /\ n = s[i].seq
      BY DEF Carried
    <3>2. CASE i = 1
      BY <1>1, <3>1, <3>2
    <3>3. CASE i # 1
      <4>1. i - 1 \in DOMAIN t /\ t[i - 1] = s[i]
        BY <1>1, <3>3
      <4> QED
        BY <3>1, <4>1 DEF Carried
    <3> QED
      BY <3>2, <3>3
  <2>2. ASSUME NEW n \in Carried(t) PROVE n \in Carried(s)
    <3>1. PICK i \in DOMAIN t : t[i] # Close /\ n = t[i].seq
      BY DEF Carried
    <3>2. i + 1 \in DOMAIN s /\ s[i + 1] = t[i]
      BY <1>1
    <3> QED
      BY <3>1, <3>2 DEF Carried
  <2>3. Head(s) # Close => Head(s).seq \in Carried(s)
    BY <1>1 DEF Carried
  <2> QED
    BY <2>1, <2>2, <2>3
<1>3. ASSUME InOrder(s) PROVE InOrder(t)
  <2> SUFFICES ASSUME NEW i \in DOMAIN t, t[i] # Close, NEW j \in 1 .. (i - 1), t[j] # Close
               PROVE  Below(t[j].seq, t[i].seq)
    BY DEF InOrder
  <2>1. /\ i + 1 \in DOMAIN s /\ s[i + 1] = t[i]
        /\ j + 1 \in 1 .. ((i + 1) - 1) /\ s[j + 1] = t[j]
    BY <1>1
  <2> QED
    BY <1>3, <2>1 DEF InOrder
<1>4. ASSUME InOrder(s), Head(s) # Close PROVE AllBelow({Head(s).seq}, Carried(t))
  <2> SUFFICES ASSUME NEW i \in DOMAIN t, t[i] # Close PROVE Below(Head(s).seq, t[i].seq)
    BY DEF AllBelow, Carried
  <2>1. i + 1 \in DOMAIN s /\ 1 \in 1 .. ((i + 1) - 1) /\ s[i + 1] = t[i]
    BY <1>1
  <2> QED
    BY <1>1, <1>4, <2>1 DEF InOrder
<1> QED
  BY <1>1, <1>2, <1>3, <1>4 DEF t

\* One sequence of frames behind another.
LEMMA ConcatFrames ==
    ASSUME NEW s \in Seq(Frame), NEW t \in Seq(Frame)
    PROVE  /\ s \o t \in Seq(Frame)
           /\ Carried(s \o t) = Carried(s) \cup Carried(t)
           /\ InOrder(s) /\ InOrder(t) /\ AllBelow(Carried(s), Carried(t)) => InOrder(s \o t)
<1> DEFINE u == s \o t
<1>1. /\ u \in Seq(Frame)
      /\ Len(s) \in Nat /\ Len(t) \in Nat
      /\ DOMAIN s = 1 .. Len(s) /\ DOMAIN t = 1 .. Len(t)
      /\ DOMAIN u = 1 .. (Len(s) + Len(t))
      /\ \A i \in DOMAIN s : u[i] = s[i]
      /\ \A i \in DOMAIN u : i \notin DOMAIN s => i - Len(s) \in DOMAIN t /\ u[i] = t[i - Len(s)]
  OBVIOUS
<1> HIDE DEF u
<1>2. Carried(u) = Carried(s) \cup Carried(t)
  <2>1. ASSUME NEW n \in Carried(u) PROVE n \in Carried(s) \cup Carried(t)
    BY <1>1 DEF Carried
  <2>2. ASSUME NEW n \in Carried(s) PROVE n \in Carried(u)
    BY <1>1 DEF Carried
  <2>3. ASSUME NEW n \in Carried(t) PROVE n \in Carried(u)
    <3>1. PICK i \in DOMAIN t : t[i] # Close /\ n = t[i].seq
      BY DEF Carried
    <3>2. i + Len(s) \in DOMAIN u /\ u[i + Len(s)] = t[i]
      BY <1>1
    <3> QED
      BY <3>1, <3>2 DEF Carried
  <2> QED
    BY <2>1, <2>2, <2>3
<1>3. ASSUME InOrder(s), InOrder(t), AllBelow(Carried(s), Carried(t)) PROVE InOrder(u)
  <2> SUFFICES ASSUME NEW i \in DOMAIN u, u[i] # Close, NEW j \in 1 .. (i - 1), u[j] # Close
               PROVE  Below(u[j].seq, u[i].seq)
    BY DEF InOrder
  <2>1. CASE i \in DOMAIN s
    BY <1>1, <1>3, <2>1 DEF InOrder
  <2>2. CASE i \notin DOMAIN s /\ j \in DOMAIN s
    BY <1>1, <1>3, <2>2 DEF AllBelow, Carried
  <2>3. CASE i \notin DOMAIN s /\ j \notin DOMAIN s
    <3>1. i \in Nat /\ j \in Nat /\ j < i /\ j \in DOMAIN u
      BY <1>1
    <3>2. /\ i - Len(s) \in DOMAIN t /\ u[i] = t[i - Len(s)]
          /\ j - Len(s) \in DOMAIN t /\ u[j] = t[j - Len(s)]
      BY <1>1, <2>3, <3>1
    <3>3. j - Len(s) \in 1 .. ((i - Len(s)) - 1)
      BY <1>1, <3>1, <3>2
    <3> QED
      BY <1>3, <3>2, <3>3 DEF InOrder
  <2> QED
    BY <2>1, <2>2, <2>3
<1> QED
  BY <1>1, <1>2, <1>3 DEF u

\* A buffer put at the end of a sequence, and one taken from its front.
LEMMA AppendBuffer ==
    ASSUME NEW s \in Seq(Tuples), NEW n \in Tuples
    PROVE  /\ Range(Append(s, n)) = Range(s) \cup {n}
           /\ Rising(s) /\ AllBelow(Range(s), {n}) => Rising(Append(s, n))
<1> DEFINE t == Append(s, n)
<1>1. /\ Len(s) \in Nat
      /\ DOMAIN s = 1 .. Len(s)
      /\ DOMAIN t = 1 .. (Len(s) + 1)
      /\ t[Len(s) + 1] = n
      /\ \A i \in DOMAIN s : t[i] = s[i]
  OBVIOUS
<1> HIDE DEF t
<1>2. Range(t) = Range(s) \cup {n}
  BY <1>1 DEF Range
<1>3. ASSUME Rising(s), AllBelow(Range(s), {n}) PROVE Rising(t)
  BY <1>1, <1>3 DEF Rising, AllBelow, Range
<1> QED
  BY <1>2, <1>3 DEF t

\* A buffer taken from the front of a sequence.
LEMMA TailBuffers ==
    ASSUME NEW s \in Seq(Tuples), s # <<>>
    PROVE  /\ Head(s) \in Tuples
           /\ Tail(s) \in Seq(Tuples)
           /\ Range(s) = Range(Tail(s)) \cup {Head(s)}
           /\ Rising(s) => Rising(Tail(s)) /\ AllBelow({Head(s)}, Range(Tail(s)))
<1> DEFINE t == Tail(s)
<1>1. /\ Len(s) \in Nat \ {0}
      /\ DOMAIN s = 1 .. Len(s)
      /\ DOMAIN t = 1 .. (Len(s) - 1)
      /\ Head(s) = s[1]
      /\ \A i \in DOMAIN t : t[i] = s[i + 1]
      /\ Head(s) \in Tuples
      /\ Tail(s) \in Seq(Tuples)
  OBVIOUS
<1> HIDE DEF t
<1>2. Range(s) = Range(t) \cup {Head(s)}
  <2>1. ASSUME NEW n \in Range(s) PROVE n \in Range(t) \/ n = Head(s)
    <3>1. PICK i \in DOMAIN s : n = s[i]
      BY DEF Range
    <3>2. i # 1 => i - 1 \in DOMAIN t /\ t[i - 1] = s[i]
      BY <1>1
    <3> QED
      BY <1>1, <3>1, <3>2 DEF Range
  <2>2. ASSUME NEW n \in Range(t) PROVE n \in Range(s)
    BY <1>1 DEF Range
  <2> QED
    BY <1>1, <2>1, <2>2 DEF Range
<1>3. ASSUME Rising(s) PROVE Rising(t) /\ AllBelow({Head(s)}, Range(t))
  BY <1>1, <1>3 DEF Rising, AllBelow, Range
<1> QED
  BY <1>1, <1>2, <1>3 DEF t

\* A buffer put back at the front of a sequence.
LEMMA PrependBuffer ==
    ASSUME NEW s \in Seq(Tuples), NEW n \in Tuples
    PROVE  /\ <<n>> \o s \in Seq(Tuples)
           /\ Range(<<n>> \o s) = Range(s) \cup {n}
           /\ Rising(s) /\ AllBelow({n}, Range(s)) => Rising(<<n>> \o s)
<1> DEFINE t == <<n>> \o s
<1>1. /\ Len(s) \in Nat
      /\ t \in Seq(Tuples)
      /\ DOMAIN s = 1 .. Len(s)
      /\ DOMAIN t = 1 .. (Len(s) + 1)
      /\ t[1] = n
      /\ \A i \in DOMAIN s : t[i + 1] = s[i]
      /\ \A i \in DOMAIN t : i # 1 => i - 1 \in DOMAIN s /\ t[i] = s[i - 1]
  OBVIOUS
<1> HIDE DEF t
<1>2. Range(t) = Range(s) \cup {n}
  <2>1. \A m \in Range(t) : m \in Range(s) \/ m = n
    BY <1>1 DEF Range
  <2>2. \A i \in DOMAIN s : i + 1 \in DOMAIN t
    BY <1>1
  <2>3. Range(s) \subseteq Range(t) /\ n \in Range(t)
    BY <1>1, <2>2 DEF Range
  <2> QED
    BY <2>1, <2>3
<1>3. ASSUME Rising(s), AllBelow({n}, Range(s)) PROVE Rising(t)
  <2> SUFFICES ASSUME NEW i \in DOMAIN t, NEW j \in DOMAIN t, i < j PROVE Below(t[i], t[j])
    BY DEF Rising
  <2>1. j # 1 /\ j - 1 \in DOMAIN s /\ t[j] = s[j - 1]
    BY <1>1
  <2>2. CASE i = 1
    BY <1>1, <1>3, <2>1, <2>2 DEF AllBelow, Range
  <2>3. CASE i # 1
    <3>1. i - 1 \in DOMAIN s /\ t[i] = s[i - 1] /\ i - 1 < j - 1
      BY <1>1, <2>3
    <3> QED
      BY <1>3, <2>1, <3>1 DEF Rising
  <2> QED
    BY <2>2, <2>3
<1> QED
  BY <1>1, <1>2, <1>3 DEF t

----------------------------------------------------------------------------
(* Type correctness. *)

\* What a stream takes keeps its type.
LEMMA TypeWritten ==
    ASSUME NEW S, NEW s \in Seq(S), NEW f \in S
    PROVE  Written(s, f) \in Seq(S)
  BY DEF Written

\* The end of a handler leaves nothing behind that is not a buffer.
LEMMA TypeEndHandler ==
    ASSUME TypeOK, NEW next \in HandlerStates, EndHandler(next)
    PROVE  ChannelSenderTypeOK'
<1>1. Range(pendingWrites) \subseteq Tuples
  BY DEF TypeOK, ChannelSenderTypeOK, Range
<1>2. /\ pendingWrites' \in Seq(Tuples)
      /\ writeBuffer' \in Seq(Request)
      /\ lost' \in SUBSET Tuples
  BY <1>1 DEF EndHandler, TypeOK, ChannelSenderTypeOK
<1> QED
  BY <1>2 DEF EndHandler, TypeOK, ChannelSenderTypeOK, AppStates

\* The application keeps the types of the sender.
LEMMA TypeApp ==
    ASSUME TypeOK, AppNext
    PROVE  StreamTypeOK' /\ ChannelSenderTypeOK'
<1> USE DEF TypeOK, StreamTypeOK, ChannelSenderTypeOK, streamVars, AppStates
<1>1. /\ Data(accepted + 1) \in Message \/ accepted = MaxTuple
      /\ \A t \in {"Flush", "FlushOnly", "Terminate"} : [typ |-> t, seq |-> 0] \in Message
  BY DataStreamAssumption DEF Message, Data, Tuples
<1>2. accepted < MaxTuple => accepted + 1 \in 0 .. MaxTuple
  BY DataStreamAssumption
<1>3. CASE SendData
  BY <1>1, <1>2, <1>3 DEF SendData, Enqueue
<1>4. CASE SendTwice
  <2>1. <<Data(accepted + 1), Data(accepted + 1)>> \in Seq(Message)
    BY <1>1, <1>4 DEF SendTwice
  <2> QED
    BY <2>1, <1>2, <1>4 DEF SendTwice
<1>5. CASE SendFlush
  BY <1>1, <1>5 DEF SendFlush, Enqueue
<1>6. CASE FlushChannel
  BY <1>1, <1>6 DEF FlushChannel, Enqueue
<1>7. CASE SendTerminate
  BY <1>1, <1>7 DEF SendTerminate, Enqueue
<1>8. CASE DropQueue
  BY <1>8 DEF DropQueue
<1> QED
  BY <1>3, <1>4, <1>5, <1>6, <1>7, <1>8 DEF AppNext

\* The branches of the handler's select! keep the types of the sender.
LEMMA TypeBranch ==
    ASSUME TypeOK,
           \/ HandleData \/ HandleFlush \/ HandleTerminate \/ SendPending \/ FinishFeed
           \/ WriteOut \/ AwaitResponse \/ FlushDone \/ HandleAck \/ FeedFails
    PROVE  StreamTypeOK' /\ ChannelSenderTypeOK'
<1> USE DEF TypeOK, StreamTypeOK, ChannelSenderTypeOK, streamVars, AppStates, HandlerStates,
            BranchDone
<1>1. CASE HandleData
  <2>1. Head(queue).seq \in Tuples /\ Head(queue).seq \in 0 .. MaxTuple
    <3>1. Head(queue) \in Message
      BY <1>1 DEF HandleData
    <3> QED
      BY <1>1, <3>1, DataStreamAssumption DEF HandleData, Message, Tuples
  <2>2. queue' \in Seq(Message) /\ pendingWrites' \in Seq(Tuples)
    BY <1>1, <2>1 DEF HandleData
  <2> QED
    BY <1>1, <2>1, <2>2 DEF HandleData
<1>2. CASE HandleFlush
  BY <1>2 DEF HandleFlush
<1>3. CASE HandleTerminate
  BY <1>3 DEF HandleTerminate
<1>4. CASE SendPending
  <2>1. Head(pendingWrites) \in Tuples /\ Tail(pendingWrites) \in Seq(Tuples)
    BY <1>4 DEF SendPending
  <2>2. Data(Head(pendingWrites)) \in Request
    BY <2>1 DEF Data, Request
  <2>3. writeBuffer' \in Seq(Request)
    <3>1. writeBuffer' = writeBuffer \/ writeBuffer' = Append(writeBuffer, Data(Head(pendingWrites)))
      BY <1>4 DEF SendPending
    <3>2. Append(writeBuffer, Data(Head(pendingWrites))) \in Seq(Request)
      BY <2>2
    <3> QED
      BY <3>1, <3>2
  <2>4. /\ waitForAck' \in SUBSET Tuples
        /\ feeding' \in waitForAck' \cup {0}
    BY <1>4, <2>1 DEF SendPending
  <2>5. handler' \in HandlerStates
    BY <1>4 DEF SendPending
  <2> QED
    BY <1>4, <2>1, <2>3, <2>4, <2>5 DEF SendPending
<1>5. CASE FinishFeed
  <2>1. Data(feeding) \in Request
    BY <1>5 DEF FinishFeed, Data, Request
  <2> QED
    BY <1>5, <2>1 DEF FinishFeed
<1>6. CASE WriteOut
  <2>1. Head(writeBuffer) \in Request /\ Tail(writeBuffer) \in Seq(Request)
    BY <1>6 DEF WriteOut
  <2>2. Written(toReceiver, Head(writeBuffer)) \in Seq(Request)
    BY <2>1, TypeWritten
  <2> QED
    BY <1>6, <2>1, <2>2 DEF WriteOut
<1>7. CASE AwaitResponse
  BY <1>7 DEF AwaitResponse
<1>8. CASE FlushDone
  BY <1>8 DEF FlushDone
<1>9. CASE HandleAck
  BY <1>9 DEF HandleAck
<1>10. CASE FeedFails
  <2>1. pendingWrites' \in Seq(Tuples)
    BY <1>10, PrependBuffer DEF FeedFails
  <2> QED
    BY <1>10, <2>1 DEF FeedFails
<1> QED
  BY <1>1, <1>2, <1>3, <1>4, <1>5, <1>6, <1>7, <1>8, <1>9, <1>10

\* So do the steps with which the handler ends.
LEMMA TypeEnd ==
    ASSUME TypeOK,
           \/ QueueDropped \/ HandleUnknownAck \/ HandleClose \/ FinishTerminate
           \/ ReadEof \/ ConnectionError
    PROVE  StreamTypeOK' /\ ChannelSenderTypeOK'
<1> USE DEF TypeOK, StreamTypeOK, streamVars
<1>1. "closed" \in HandlerStates /\ "retry" \in HandlerStates
  BY DEF HandlerStates
<1>2. ASSUME NEW next \in HandlerStates, EndHandler(next) PROVE ChannelSenderTypeOK'
  BY <1>2, TypeEndHandler
<1>3. \E next \in HandlerStates : EndHandler(next)
  BY <1>1 DEF QueueDropped, HandleUnknownAck, HandleClose, FinishTerminate, ReadEof,
              ConnectionError
<1>4. Close \in Request
  BY DEF Close, Request
<1>5. Written(toReceiver, Close) \in Seq(Request)
  BY <1>4, TypeWritten
<1>6. toSender # <<>> => Tail(toSender) \in Seq(Response)
  OBVIOUS
<1>7. StreamTypeOK'
  BY <1>5, <1>6 DEF QueueDropped, HandleUnknownAck, HandleClose, FinishTerminate,
                    ReadEof, ConnectionError
<1> QED
  BY <1>2, <1>3, <1>7

\* The receiver keeps its types.
LEMMA TypeReceiver ==
    ASSUME TypeOK, ReceiverStep
    PROVE  StreamTypeOK' /\ ChannelReceiverTypeOK'
<1> USE DEF TypeOK, StreamTypeOK, ChannelReceiverTypeOK, streamVars, ReceiverStates
<1>1. CASE ReadData
  <2>1. Head(toReceiver).seq \in Tuples
    <3>1. Head(toReceiver) \in Request
      BY <1>1 DEF ReadData
    <3> QED
      BY <1>1, <3>1 DEF ReadData, Request, Close
  <2>2. 0 \notin Tuples
    BY DEF Tuples
  <2> QED
    BY <1>1, <2>1, <2>2 DEF ReadData
<1>2. CASE PushData
  <2>1. pendingBuffer \in Tuples
    BY <1>2 DEF PushData
  <2> QED
    BY <1>2, <2>1 DEF PushData
<1>3. CASE SendAck
  <2>1. Ack(pendingBuffer) \in Response
    BY <1>3 DEF SendAck, Ack, Response
  <2> QED
    BY <1>3, <2>1, TypeWritten DEF SendAck
<1>4. CASE SendClose
  <2>1. Close \in Response
    BY DEF Close, Response
  <2> QED
    BY <1>4, <2>1, TypeWritten DEF SendClose
<1>5. CASE PushRefused \/ CancelChannel \/ CloseQueue \/ ReceiverNetworkError
  BY <1>5 DEF PushRefused, CancelChannel, CloseQueue, ReceiverNetworkError
<1>6. CASE ReadClose
  BY <1>6 DEF ReadClose
<1>7. CASE Consume
  BY <1>7 DEF Consume
<1> QED
  BY <1>1, <1>2, <1>3, <1>4, <1>5, <1>6, <1>7 DEF ReceiverStep, ChannelReceiverNext

\* No channel is open, no buffer was accepted.
LEMMA TypeInit == Init => TypeOK
<1> SUFFICES ASSUME Init PROVE TypeOK
  OBVIOUS
<1>1. 0 \in 0 .. MaxTuple
  BY DataStreamAssumption
<1>2. StreamTypeOK
  BY DEF Init, StreamInit, StreamTypeOK
<1>3. ChannelSenderTypeOK
  BY <1>1 DEF Init, ChannelSenderInit, ChannelSenderTypeOK, AppStates, HandlerStates
<1>4. ChannelReceiverTypeOK
  <2>1. queueClosed \in BOOLEAN
    BY Zenon DEF Init, ChannelReceiverInit
  <2>2. receiver \in ReceiverStates /\ (receiver \in {"push", "ack"} => pendingBuffer # 0)
    BY DEF Init, ChannelReceiverInit, ReceiverStates
  <2>3. pendingBuffer = 0 /\ dataQueue \in Seq(Tuples) /\ delivered \in Seq(Tuples)
    BY DEF Init, ChannelReceiverInit
  <2> QED
    BY <2>1, <2>2, <2>3 DEF ChannelReceiverTypeOK
<1> QED
  BY <1>2, <1>3, <1>4 DEF TypeOK

\* Every step keeps the types.
LEMMA TypeNext == TypeOK /\ [Next]_vars => TypeOK'
<1> SUFFICES ASSUME TypeOK, [Next]_vars PROVE TypeOK'
  OBVIOUS
<1>1. CASE SenderStep /\ UNCHANGED receiverVars
  <2>1. StreamTypeOK' /\ ChannelSenderTypeOK'
    BY <1>1, TypeApp, TypeBranch, TypeEnd DEF SenderStep, HandlerNext
  <2> QED
    BY <1>1, <2>1 DEF TypeOK, ChannelReceiverTypeOK, receiverVars
<1>2. CASE ReceiverStep /\ UNCHANGED channelVars
  <2>1. StreamTypeOK' /\ ChannelReceiverTypeOK'
    BY <1>2, TypeReceiver
  <2> QED
    BY <1>2, <2>1 DEF TypeOK, ChannelSenderTypeOK, channelVars
<1>3. CASE OpenConnection
  BY <1>3 DEF OpenConnection, TypeOK, StreamTypeOK, ChannelSenderTypeOK, ChannelReceiverTypeOK,
              HandlerStates, ReceiverStates
<1>6. CASE StrandChannel
  <2>1. StreamTypeOK'
    <3>1. CASE UNCHANGED streamVars
      BY <3>1 DEF TypeOK, StreamTypeOK, streamVars
    <3>2. CASE link' = "up" /\ toReceiver' = <<>> /\ toSender' = <<>>
      BY <3>2 DEF StreamTypeOK
    <3> QED
      BY <1>6, <3>1, <3>2 DEF StrandChannel
  <2>2. handler' \in HandlerStates /\ receiver' = "stranded" /\ "stranded" \in ReceiverStates
    BY <1>6 DEF StrandChannel, TypeOK, ChannelSenderTypeOK, HandlerStates, ReceiverStates
  <2>3. ChannelSenderTypeOK' /\ ChannelReceiverTypeOK'
    BY <1>6, <2>2 DEF StrandChannel, TypeOK, ChannelSenderTypeOK, ChannelReceiverTypeOK
  <2> QED
    BY <2>1, <2>3 DEF TypeOK
<1>4. CASE LoseConnection /\ UNCHANGED <<channelVars, receiverVars>>
  BY <1>4 DEF LoseConnection, TypeOK, StreamTypeOK, ChannelSenderTypeOK, ChannelReceiverTypeOK,
              channelVars, receiverVars
<1>5. CASE UNCHANGED vars
  BY <1>5 DEF vars, TypeOK, StreamTypeOK, ChannelSenderTypeOK, ChannelReceiverTypeOK,
              streamVars, channelVars, receiverVars
<1> QED
  BY <1>1, <1>2, <1>3, <1>4, <1>5, <1>6 DEF Next

\* Type correctness of the channel: both handlers, their queues and the frames
\* in transit (sender.rs:47-360, receiver.rs:47-280).
THEOREM TypeCorrect == Spec => []TypeOK
  BY TypeInit, TypeNext, PTL DEF Spec

----------------------------------------------------------------------------
(* The queue of the channel. *)

\* The queue continues with the buffer after t, omits none up to a, and keeps
\* their order.
Continues(q, t, a) ==
    /\ t <= a
    /\ \A i \in DOMAIN q : q[i].typ = "Data" =>
          /\ Below(t, q[i].seq)
          /\ q[i].seq <= a
          /\ \/ q[i].seq <= t + 1
             \/ \E j \in 1 .. (i - 1) : q[j].typ = "Data" /\ q[j].seq = q[i].seq - 1
          /\ \A j \in 1 .. (i - 1) : q[j].typ = "Data" => Below(q[j].seq, q[i].seq)
    /\ t = a \/ \E i \in DOMAIN q : q[i].typ = "Data" /\ q[i].seq = a

QueueInv == Continues(queue, taken, accepted)

\* Behind every other message there is a Flush that the application waits for,
\* or it was taken from the queue already.
FlushInv ==
    app = "flushing" =>
        \A i \in DOMAIN queue : queue[i].typ # "Flush" =>
            \E j \in DOMAIN queue : i < j /\ queue[j].typ = "Flush"

\* The next buffer, and one that is repeated, may follow.
LEMMA ContinuesData ==
    ASSUME NEW q \in Seq(Message), NEW t \in Nat, NEW a \in Nat, Continues(q, t, a),
           NEW m \in Message, m.typ = "Data",
           NEW b \in Nat, m.seq = b, b = a + 1 \/ (b = a /\ t < a /\ Resends)
    PROVE  Continues(Append(q, m), t, b)
<1> DEFINE u == Append(q, m)
<1>1. /\ Len(q) \in Nat
      /\ DOMAIN q = 1 .. Len(q) /\ DOMAIN u = 1 .. (Len(q) + 1)
      /\ u[Len(q) + 1] = m
      /\ \A i \in DOMAIN q : u[i] = q[i]
      /\ \A i \in DOMAIN q : q[i] \in Message /\ (q[i].typ = "Data" => q[i].seq \in Nat)
  BY DEF Message, Tuples
<1> HIDE DEF u
<1>2. t <= a /\ a <= b
  BY DEF Continues
<1>3. ASSUME NEW i \in DOMAIN q, q[i].typ = "Data"
      PROVE  /\ Below(t, q[i].seq) /\ q[i].seq <= a
             /\ \/ q[i].seq <= t + 1
                \/ \E j \in 1 .. (i - 1) : q[j].typ = "Data" /\ q[j].seq = q[i].seq - 1
             /\ \A j \in 1 .. (i - 1) : q[j].typ = "Data" => Below(q[j].seq, q[i].seq)
  BY <1>3 DEF Continues
<1>4. ASSUME NEW i \in DOMAIN u, u[i].typ = "Data"
      PROVE  /\ Below(t, u[i].seq) /\ u[i].seq <= b
             /\ \/ u[i].seq <= t + 1
                \/ \E j \in 1 .. (i - 1) : u[j].typ = "Data" /\ u[j].seq = u[i].seq - 1
             /\ \A j \in 1 .. (i - 1) : u[j].typ = "Data" => Below(u[j].seq, u[i].seq)
  <2>1. CASE i \in DOMAIN q
    <3>1. u[i] = q[i] /\ \A j \in 1 .. (i - 1) : j \in DOMAIN q /\ u[j] = q[j]
      BY <1>1, <2>1
    <3>2. q[i].seq \in Nat
      BY <1>1, <1>4, <2>1, <3>1
    <3> QED
      BY <1>2, <1>3, <1>4, <2>1, <3>1, <3>2
  <2>2. CASE i = Len(q) + 1
    <3>1. u[i].seq = b /\ \A j \in 1 .. (i - 1) : j \in DOMAIN q /\ u[j] = q[j]
      BY <1>1, <2>2
    <3>2. Below(t, b)
      BY <1>2 DEF Below
    <3>3. \A j \in 1 .. (i - 1) : u[j].typ = "Data" => Below(u[j].seq, b)
      BY <1>1, <1>2, <1>3, <3>1 DEF Below
    <3>4. b <= t + 1 \/ \E j \in 1 .. (i - 1) : u[j].typ = "Data" /\ u[j].seq = b - 1
      <4>1. CASE t = a
        BY <4>1
      <4>2. CASE t # a
        <5>1. PICK j \in DOMAIN q : q[j].typ = "Data" /\ q[j].seq = a
          BY <4>2 DEF Continues
        <5>2. CASE b = a + 1
          BY <1>1, <2>2, <5>1, <5>2
        <5>3. CASE b = a
          <6>1. a <= t + 1 \/ \E k \in 1 .. (j - 1) : q[k].typ = "Data" /\ q[k].seq = a - 1
            BY <1>3, <5>1
          <6>2. \A k \in 1 .. (j - 1) : k \in 1 .. (i - 1) /\ u[k] = q[k]
            BY <1>1, <2>2, <5>1
          <6> QED
            BY <5>3, <6>1, <6>2
        <5> QED
          BY <5>2, <5>3
      <4> QED
        BY <4>1, <4>2
    <3> QED
      BY <3>1, <3>2, <3>3, <3>4
  <2> QED
    BY <1>1, <2>1, <2>2
<1>5. \E i \in DOMAIN u : u[i].typ = "Data" /\ u[i].seq = b
  BY <1>1
<1> QED
  BY <1>2, <1>4, <1>5 DEF Continues, u

\* Other messages make no difference, at either end.
LEMMA ContinuesOther ==
    ASSUME NEW q \in Seq(Message), NEW t \in Nat, NEW a \in Nat, Continues(q, t, a),
           NEW m \in Message, m.typ # "Data"
    PROVE  Continues(Append(q, m), t, a)
<1> DEFINE u == Append(q, m)
<1>1. /\ Len(q) \in Nat
      /\ DOMAIN q = 1 .. Len(q) /\ DOMAIN u = 1 .. (Len(q) + 1)
      /\ u[Len(q) + 1] = m
      /\ \A i \in DOMAIN q : u[i] = q[i]
  OBVIOUS
<1> HIDE DEF u
<1>2. \A i \in DOMAIN u : u[i].typ = "Data" => i \in DOMAIN q
  BY <1>1
<1>3. \A i \in DOMAIN q : u[i] = q[i] /\ \A j \in 1 .. (i - 1) : u[j] = q[j]
  BY <1>1
<1>4. DOMAIN q \subseteq DOMAIN u
  BY <1>1
<1> QED
  BY <1>2, <1>3, <1>4 DEF Continues, u

\* What is taken from the queue is the next buffer, or the last one once more.
LEMMA ContinuesTail ==
    ASSUME NEW q \in Seq(Message), NEW t \in Nat, NEW a \in Nat, Continues(q, t, a), q # <<>>
    PROVE  /\ Head(q).typ # "Data" => Continues(Tail(q), t, a)
           /\ Head(q).typ = "Data" =>
                /\ Head(q).seq \in Nat
                /\ Below(t, Head(q).seq)
                /\ Head(q).seq \in {t, t + 1}
                /\ Continues(Tail(q), Head(q).seq, a)
<1> DEFINE u == Tail(q)
<1>1. /\ Len(q) \in Nat \ {0}
      /\ DOMAIN q = 1 .. Len(q) /\ DOMAIN u = 1 .. (Len(q) - 1)
      /\ Head(q) = q[1]
      /\ \A i \in DOMAIN u : i + 1 \in DOMAIN q /\ u[i] = q[i + 1]
      /\ \A i \in DOMAIN q : i = 1 \/ (i - 1 \in DOMAIN u /\ u[i - 1] = q[i])
      /\ \A i \in DOMAIN q : q[i] \in Message /\ (q[i].typ = "Data" => q[i].seq \in Nat)
  BY DEF Message, Tuples
<1> HIDE DEF u
<1>2. ASSUME NEW i \in DOMAIN q, q[i].typ = "Data"
      PROVE  /\ Below(t, q[i].seq) /\ q[i].seq <= a
             /\ \/ q[i].seq <= t + 1
                \/ \E j \in 1 .. (i - 1) : q[j].typ = "Data" /\ q[j].seq = q[i].seq - 1
             /\ \A j \in 1 .. (i - 1) : q[j].typ = "Data" => Below(q[j].seq, q[i].seq)
  BY <1>2 DEF Continues
<1>3. ASSUME q[1].typ = "Data"
      PROVE  /\ q[1].seq \in Nat
             /\ Below(t, q[1].seq)
             /\ q[1].seq \in {t, t + 1}
             /\ q[1].seq <= a
  <2>1. 1 \in DOMAIN q /\ q[1].seq \in Nat
    BY <1>1, <1>3
  <2>2. Below(t, q[1].seq) /\ q[1].seq <= a /\ q[1].seq <= t + 1
    BY <1>2, <1>3, <2>1
  <2>3. t <= q[1].seq
    BY <2>1, <2>2 DEF Below
  <2> QED
    BY <2>1, <2>2, <2>3
<1>4. ASSUME NEW i \in DOMAIN u, u[i].typ = "Data",
             NEW s \in Nat, s = IF q[1].typ = "Data" THEN q[1].seq ELSE t
      PROVE  /\ Below(s, u[i].seq) /\ u[i].seq <= a
             /\ \/ u[i].seq <= s + 1
                \/ \E j \in 1 .. (i - 1) : u[j].typ = "Data" /\ u[j].seq = u[i].seq - 1
             /\ \A j \in 1 .. (i - 1) : u[j].typ = "Data" => Below(u[j].seq, u[i].seq)
  <2>1. /\ i + 1 \in DOMAIN q /\ q[i + 1] = u[i]
        /\ 1 \in 1 .. ((i + 1) - 1)
        /\ \A j \in 1 .. (i - 1) : j + 1 \in 1 .. ((i + 1) - 1) /\ u[j] = q[j + 1]
        /\ \A j \in 1 .. ((i + 1) - 1) : j = 1 \/ (j - 1 \in 1 .. (i - 1) /\ u[j - 1] = q[j])
        /\ q[i + 1].seq \in Nat
    <3>1. i \in 1 .. (Len(q) - 1) /\ Len(q) \in Nat
      BY <1>1
    <3>2. i + 1 \in DOMAIN q /\ q[i + 1] = u[i] /\ q[i + 1].seq \in Nat
      BY <1>1, <1>4
    <3>3. \A j \in 1 .. (i - 1) : j \in DOMAIN u /\ j + 1 \in 1 .. ((i + 1) - 1)
      BY <1>1, <3>1
    <3>4. \A j \in 1 .. ((i + 1) - 1) : j \in DOMAIN q /\ (j = 1 \/ j - 1 \in 1 .. (i - 1))
      BY <1>1, <3>1
    <3>5. \A j \in 1 .. (i - 1) : u[j] = q[j + 1]
      BY <1>1, <3>3
    <3>6. \A j \in 1 .. ((i + 1) - 1) : j = 1 \/ u[j - 1] = q[j]
      BY <1>1, <3>4
    <3>7. 1 \in 1 .. ((i + 1) - 1)
      BY <3>1
    <3> QED
      BY <3>2, <3>3, <3>4, <3>5, <3>6, <3>7
  <2>2. Below(s, u[i].seq) /\ u[i].seq <= a
    BY <1>2, <1>4, <2>1
  <2>3. \A j \in 1 .. (i - 1) : u[j].typ = "Data" => Below(u[j].seq, u[i].seq)
    <3>1. \A k \in 1 .. ((i + 1) - 1) : q[k].typ = "Data" => Below(q[k].seq, u[i].seq)
      BY <1>2, <1>4, <2>1
    <3> QED
      BY <2>1, <3>1
  <2>4. u[i].seq <= s + 1
           \/ \E j \in 1 .. (i - 1) : u[j].typ = "Data" /\ u[j].seq = u[i].seq - 1
    <3>1. CASE u[i].seq <= t + 1
      <4>1. t <= s
        BY <1>3, <1>4 DEF Below
      <4> QED
        BY <2>1, <3>1, <4>1
    <3>2. CASE \E j \in 1 .. ((i + 1) - 1) : q[j].typ = "Data" /\ q[j].seq = u[i].seq - 1
      <4>1. PICK j \in 1 .. ((i + 1) - 1) : q[j].typ = "Data" /\ q[j].seq = u[i].seq - 1
        BY <3>2
      <4>2. CASE j = 1
        BY <1>4, <2>1, <4>1, <4>2
      <4>3. CASE j # 1
        BY <2>1, <4>1, <4>3
      <4> QED
        BY <4>2, <4>3
    <3> QED
      BY <1>2, <1>4, <2>1, <3>1, <3>2
  <2> QED
    BY <2>2, <2>3, <2>4
<1>5. ASSUME NEW s \in Nat, s = IF q[1].typ = "Data" THEN q[1].seq ELSE t
      PROVE  s = a \/ \E i \in DOMAIN u : u[i].typ = "Data" /\ u[i].seq = a
  <2>1. CASE t = a
    <3>1. q[1].typ = "Data" => s = a
      BY <1>3, <1>5, <2>1 DEF Below
    <3> QED
      BY <1>5, <2>1, <3>1
  <2>2. CASE \E i \in DOMAIN q : q[i].typ = "Data" /\ q[i].seq = a
    BY <1>1, <1>5, <2>2
  <2> QED
    BY <2>1, <2>2 DEF Continues
<1>6. t <= a
  BY DEF Continues
<1> QED
  BY <1>1, <1>3, <1>4, <1>5, <1>6 DEF Continues, u

\* What the application puts into the queue continues it; the flush it then
\* waits for is the last message.
LEMMA QueueApp ==
    ASSUME TypeOK, QueueInv, FlushInv, AppNext
    PROVE  QueueInv' /\ FlushInv'
<1> USE DEF TypeOK, ChannelSenderTypeOK
<1>1. taken \in Nat /\ accepted \in Nat /\ queue \in Seq(Message)
  BY DataStreamAssumption
<1>2. \A t \in {"Flush", "FlushOnly", "Terminate"} :
        [typ |-> t, seq |-> 0] \in Message /\ [typ |-> t, seq |-> 0].typ # "Data"
  BY DEF Message
<1>3. CASE SendData \/ SendTwice
  <2> DEFINE m == Data(accepted + 1)
  <2>1. m \in Message /\ m.typ = "Data" /\ m.seq = accepted + 1
    BY <1>1, <1>3, DataStreamAssumption DEF SendData, SendTwice, Message, Data, Tuples
  <2>2. Continues(Append(queue, m), taken, accepted + 1)
    BY <1>1, <2>1, ContinuesData DEF QueueInv
  <2>3. SendData => QueueInv'
    BY <2>2 DEF SendData, Enqueue, QueueInv
  <2>4. SendTwice => QueueInv'
    <3> SUFFICES ASSUME SendTwice PROVE QueueInv'
      OBVIOUS
    <3>1. Append(queue, m) \in Seq(Message) /\ taken < accepted + 1 /\ accepted + 1 \in Nat
      BY <1>1, <2>1 DEF QueueInv, Continues
    <3>2. Continues(Append(Append(queue, m), m), taken, accepted + 1)
      BY <1>1, <2>1, <2>2, <3>1, ContinuesData DEF SendTwice
    <3>3. queue \o <<m, m>> = Append(Append(queue, m), m)
      BY <1>1, <2>1
    <3> QED
      BY <3>2, <3>3 DEF SendTwice, QueueInv
  <2> QED
    BY <1>3, <2>3, <2>4 DEF SendData, SendTwice, FlushInv
<1>4. CASE SendFlush \/ FlushChannel \/ SendTerminate
  <2>1. PICK t \in {"Flush", "FlushOnly", "Terminate"} :
          /\ queue' = Append(queue, [typ |-> t, seq |-> 0])
          /\ app' = "flushing" => t = "Flush"
    BY <1>4 DEF SendFlush, FlushChannel, SendTerminate, Enqueue
  <2>2. QueueInv'
    BY <1>1, <1>2, <1>4, <2>1, ContinuesOther
    DEF SendFlush, FlushChannel, SendTerminate, QueueInv
  <2>3. FlushInv'
    BY <1>1, <2>1 DEF FlushInv
  <2> QED
    BY <2>2, <2>3
<1>5. CASE DropQueue
  BY <1>5 DEF DropQueue, QueueInv, FlushInv
<1> QED
  BY <1>3, <1>4, <1>5 DEF AppNext

\* What the handler takes from the queue.
LEMMA QueueTaken ==
    ASSUME TypeOK, QueueInv, FlushInv, HandleData \/ HandleFlush \/ HandleTerminate
    PROVE  QueueInv' /\ FlushInv'
<1> USE DEF TypeOK, ChannelSenderTypeOK
<1>1. taken \in Nat /\ accepted \in Nat /\ queue \in Seq(Message)
  BY DataStreamAssumption
<1>2. queue # <<>> /\ queue' = Tail(queue) /\ app' = app /\ accepted' = accepted
  BY DEF HandleData, HandleFlush, HandleTerminate
<1>3. taken' = IF Head(queue).typ = "Data" THEN Head(queue).seq ELSE taken
  BY DEF HandleData, HandleFlush, HandleTerminate
<1>4. QueueInv'
  BY <1>1, <1>2, <1>3, ContinuesTail DEF QueueInv
<1>5. FlushInv'
  <2> SUFFICES ASSUME app = "flushing", NEW i \in DOMAIN Tail(queue), Tail(queue)[i].typ # "Flush"
               PROVE  \E j \in DOMAIN Tail(queue) : i < j /\ Tail(queue)[j].typ = "Flush"
    BY <1>2 DEF FlushInv
  <2>1. /\ i \in Nat /\ i + 1 \in DOMAIN queue /\ queue[i + 1] = Tail(queue)[i]
    BY <1>1, <1>2
  <2>2. PICK j \in DOMAIN queue : i + 1 < j /\ queue[j].typ = "Flush"
    BY <2>1 DEF FlushInv
  <2>3. j - 1 \in DOMAIN Tail(queue) /\ Tail(queue)[j - 1] = queue[j] /\ i < j - 1
    BY <1>1, <1>2, <2>1, <2>2
  <2> QED
    BY <2>2, <2>3
<1> QED
  BY <1>4, <1>5

\* Nothing else changes the queue; a handler that ends answers the flush at most.
LEMMA QueueNext ==
    ASSUME TypeOK, QueueInv, FlushInv, [Next]_vars
    PROVE  QueueInv' /\ FlushInv'
<1>1. CASE AppNext
  BY <1>1, QueueApp
<1>2. CASE HandleData \/ HandleFlush \/ HandleTerminate
  BY <1>2, QueueTaken
<1>3. CASE UNCHANGED <<queue, taken, accepted>> /\ (app' = "flushing" => app = "flushing")
  BY <1>3 DEF QueueInv, FlushInv
<1>4. CASE SenderStep /\ ~AppNext /\ ~(HandleData \/ HandleFlush \/ HandleTerminate)
  BY <1>3, <1>4 DEF SenderStep, HandlerNext, QueueDropped, SendPending, FinishFeed, WriteOut,
     AwaitResponse, FlushDone, HandleAck, HandleUnknownAck, HandleClose, FinishTerminate,
     ReadEof, ConnectionError, FeedFails, EndHandler
<1>5. CASE UNCHANGED channelVars
  BY <1>3, <1>5 DEF channelVars
<1>6. CASE OpenConnection \/ StrandChannel
  BY <1>3, <1>6 DEF OpenConnection, StrandChannel
<1> QED
  BY <1>1, <1>2, <1>4, <1>5, <1>6 DEF Next, vars

\* When the flush that the application waits for is taken, so is every buffer.
LEMMA FlushTakesAll ==
    ASSUME TypeOK, QueueInv, FlushInv, Awaited
    PROVE  taken = accepted
<1> USE DEF TypeOK, ChannelSenderTypeOK
<1>1. \A i \in DOMAIN queue : FALSE
  BY DEF FlushInv, Awaited
<1> QED
  BY <1>1 DEF QueueInv, Continues

----------------------------------------------------------------------------
(* The way of a buffer through the two handlers. *)

Delivered == Range(delivered)
Pushed == IF receiver = "push" THEN {pendingBuffer} ELSE {}
Fed == IF feeding = 0 THEN {} ELSE {feeding}
Pending == Range(pendingWrites)

\* Sets of buffers, each of which is below those of the sets behind it.
Chain(D, P, R, W, F, N) ==
    /\ AllBelow(D, P \cup R \cup W \cup F \cup N)
    /\ AllBelow(P, R \cup W \cup F \cup N)
    /\ AllBelow(R, W \cup F \cup N)
    /\ AllBelow(W, F \cup N)
    /\ AllBelow(F, N)

\* From pending_writes to the data queue, buffers do not overtake each other.
LineInv ==
    /\ Rising(delivered)
    /\ InOrder(toReceiver)
    /\ InOrder(writeBuffer)
    /\ Rising(pendingWrites)
    /\ Chain(Delivered, Pushed, Carried(toReceiver), Carried(writeBuffer), Fed, Pending)

\* The handlers know no buffer that was not taken from the queue.
KnownInv ==
    /\ Delivered \cup Pushed \cup Carried(toReceiver) \subseteq 1 .. taken
    /\ Carried(writeBuffer) \cup Fed \cup Pending \subseteq 1 .. taken
    /\ waitForAck \cup lost \subseteq 1 .. taken

\* Where there is no handler, it holds nothing; a buffer is held while it is
\* pushed or acknowledged.
HeldInv ==
    /\ handler \notin Running =>
          pendingWrites = <<>> /\ waitForAck = {} /\ writeBuffer = <<>> /\ feeding = 0
    /\ receiver \in {"push", "ack"} \/ pendingBuffer = 0

\* What is acknowledged was delivered.
AckedInv ==
    /\ Carried(toSender) \subseteq Delivered
    /\ receiver = "ack" => pendingBuffer \in Delivered

PathInv == LineInv /\ KnownInv /\ HeldInv /\ AckedInv /\ NothingVanishes

\* What is empty carries nothing and is in order.
LEMMA EmptyLine ==
    /\ Carried(<<>>) = {} /\ InOrder(<<>>)
    /\ Range(<<>>) = {} /\ Rising(<<>>)
  BY DEF Carried, InOrder, Range, Rising

\* Buffers that leave the line do not disturb the others.
LEMMA LineShrinks ==
    ASSUME LineInv, delivered' = delivered, Pushed' \subseteq Pushed,
           Carried(toReceiver') \subseteq Carried(toReceiver), InOrder(toReceiver'),
           writeBuffer' \in {writeBuffer, <<>>}, Fed' \subseteq Fed,
           pendingWrites' \in {pendingWrites, <<>>}
    PROVE  LineInv'
<1>1. /\ Delivered' = Delivered
      /\ Carried(writeBuffer') \subseteq Carried(writeBuffer) /\ InOrder(writeBuffer')
      /\ Pending' \subseteq Pending /\ Rising(pendingWrites')
  BY EmptyLine DEF Delivered, Pending, LineInv
<1>2. Chain(Delivered, Pushed, Carried(toReceiver), Carried(writeBuffer), Fed, Pending)'
  BY <1>1 DEF LineInv, Chain, AllBelow
<1> QED
  BY <1>1, <1>2 DEF LineInv

\* Types that the steps below refer to.
LEMMA PathTypes ==
    ASSUME TypeOK
    PROVE  /\ toReceiver \in Seq(Request) /\ toReceiver \in Seq(Frame)
           /\ writeBuffer \in Seq(Request) /\ writeBuffer \in Seq(Frame)
           /\ toSender \in Seq(Response) /\ toSender \in Seq(Frame)
           /\ pendingWrites \in Seq(Tuples) /\ delivered \in Seq(Tuples)
           /\ taken \in Nat /\ accepted \in Nat /\ queue \in Seq(Message)
           /\ pendingBuffer \in Tuples \cup {0}
           /\ feeding \in waitForAck \cup {0} /\ waitForAck \subseteq Tuples
           /\ Tuples \subseteq Nat \ {0}
           /\ Range(pendingWrites) \subseteq Tuples
  BY FrameKinds, DataStreamAssumption
  DEF TypeOK, StreamTypeOK, ChannelSenderTypeOK, ChannelReceiverTypeOK, Tuples, Range

\* A buffer joins pending_writes at the end of the line.
LEMMA PathData ==
    ASSUME TypeOK, QueueInv, PathInv, HandleData, UNCHANGED receiverVars
    PROVE  PathInv'
<1> USE PathTypes DEF receiverVars
<1> DEFINE n == Head(queue).seq
<1>1. /\ n \in Tuples /\ n \in {taken, taken + 1} /\ Below(taken, n) /\ taken' = n
      /\ pendingWrites' = Append(pendingWrites, n)
      /\ feeding' = 0 /\ handler' = handler /\ handler = "run"
      /\ UNCHANGED <<streamVars, waitForAck, writeBuffer, lost>>
  <2>1. n \in Tuples
    <3>1. Head(queue) \in Message /\ Head(queue).typ = "Data"
      BY DEF HandleData
    <3> QED
      BY <3>1 DEF Message
  <2>2. n \in {taken, taken + 1} /\ Below(taken, n)
    BY ContinuesTail DEF HandleData, QueueInv
  <2> QED
    BY <2>1, <2>2 DEF HandleData, BranchDone
<1> HIDE DEF n
<1>2. /\ Delivered' = Delivered /\ Pushed' = Pushed /\ Fed' = {}
      /\ Pending' = Pending \cup {n}
      /\ Rising(pendingWrites) /\ AllBelow(Pending, {n}) => Rising(pendingWrites')
  BY <1>1, AppendBuffer DEF Delivered, Pushed, Fed, Pending
<1>3. 1 .. taken \subseteq 1 .. taken' /\ n \in 1 .. taken' /\ \A k \in 1 .. taken : Below(k, n)
  BY <1>1 DEF Below
<1>4. KnownInv'
  BY <1>1, <1>2, <1>3 DEF PathInv, KnownInv, streamVars
<1>5. LineInv'
  <2>1. AllBelow(Delivered \cup Pushed \cup Carried(toReceiver) \cup Carried(writeBuffer)
                   \cup Pending, {n})
    BY <1>3 DEF PathInv, KnownInv, AllBelow
  <2>2. Chain(Delivered, Pushed, Carried(toReceiver), Carried(writeBuffer), Fed, Pending)'
    BY <1>1, <1>2, <2>1 DEF PathInv, LineInv, Chain, AllBelow, streamVars
  <2>3. Rising(pendingWrites')
    BY <1>2, <2>1 DEF PathInv, LineInv, AllBelow
  <2> QED
    BY <1>1, <2>2, <2>3 DEF PathInv, LineInv, streamVars
<1>6. HeldInv' /\ AckedInv'
  BY <1>1, <1>2 DEF PathInv, HeldInv, AckedInv, Running, streamVars
<1>7. NothingVanishes'
  <2>1. 1 .. taken' \subseteq 1 .. taken \cup {n}
    BY <1>1
  <2> QED
    BY <1>1, <1>2, <2>1 DEF PathInv, NothingVanishes, Delivered, Pending
<1> QED
  BY <1>4, <1>5, <1>6, <1>7 DEF PathInv

\* The first of pending_writes is awaited, and fed.
LEMMA PathPending ==
    ASSUME TypeOK, PathInv, SendPending, UNCHANGED receiverVars
    PROVE  PathInv'
<1> USE PathTypes DEF receiverVars
<1> DEFINE n == Head(pendingWrites)
<1>1. /\ pendingWrites # <<>> /\ pendingWrites' = Tail(pendingWrites)
      /\ feeding = 0 /\ waitForAck' = waitForAck \cup {n}
      /\ handler \in Running /\ handler' \in Running
      /\ UNCHANGED <<streamVars, taken, lost>>
      /\ \/ writeBuffer' = Append(writeBuffer, Data(n)) /\ feeding' = 0
         \/ writeBuffer' = writeBuffer /\ feeding' = n
  BY DEF SendPending, BranchDone, Running
<1>2. /\ n \in Tuples /\ Pending = Pending' \cup {n}
      /\ AllBelow({n}, Pending') /\ Rising(pendingWrites')
  BY <1>1, TailBuffers DEF Pending, PathInv, LineInv
<1> HIDE DEF n
<1>3. Delivered' = Delivered /\ Pushed' = Pushed /\ Fed = {}
  BY <1>1 DEF Delivered, Pushed, Fed
<1>4. /\ Data(n) \in Frame /\ Data(n) # Close /\ Data(n).seq = n
  BY <1>2, FrameKinds DEF Data
<1>5. /\ InOrder(writeBuffer')
      /\ \/ Carried(writeBuffer') = Carried(writeBuffer) \cup {n} /\ Fed' = {}
         \/ Carried(writeBuffer') = Carried(writeBuffer) /\ Fed' = {n}
  <2>1. CASE writeBuffer' = Append(writeBuffer, Data(n)) /\ feeding' = 0
    <3>1. AllBelow(Carried(writeBuffer), {n})
      BY <1>2 DEF PathInv, LineInv, Chain, AllBelow
    <3>2. /\ Carried(Append(writeBuffer, Data(n))) = Carried(writeBuffer) \cup {n}
          /\ InOrder(Append(writeBuffer, Data(n)))
      BY <1>4, <3>1, AppendFrame DEF PathInv, LineInv
    <3> QED
      BY <2>1, <3>2 DEF Fed
  <2>2. CASE writeBuffer' = writeBuffer /\ feeding' = n
    BY <1>2, <2>2 DEF Fed, PathInv, LineInv
  <2> QED
    BY <1>1, <2>1, <2>2
<1>6. LineInv'
  <2>1. Chain(Delivered, Pushed, Carried(toReceiver), Carried(writeBuffer), Fed, Pending)'
    BY <1>1, <1>2, <1>3, <1>5 DEF PathInv, LineInv, Chain, AllBelow, streamVars
  <2> QED
    BY <1>1, <1>2, <1>5, <2>1 DEF PathInv, LineInv, streamVars
<1>7. KnownInv'
  BY <1>1, <1>2, <1>3, <1>5 DEF PathInv, KnownInv, streamVars
<1>8. HeldInv' /\ AckedInv'
  BY <1>1, <1>3 DEF PathInv, HeldInv, AckedInv, streamVars
<1>9. NothingVanishes'
  BY <1>1, <1>2 DEF PathInv, NothingVanishes, Pending
<1> QED
  BY <1>6, <1>7, <1>8, <1>9 DEF PathInv

\* The buffer that was fed is in the FramedWrite.
LEMMA PathFeed ==
    ASSUME TypeOK, PathInv, FinishFeed, UNCHANGED receiverVars
    PROVE  PathInv'
<1> USE PathTypes DEF receiverVars
<1>1. /\ feeding # 0 /\ writeBuffer = <<>> /\ writeBuffer' = <<Data(feeding)>>
      /\ feeding' = 0 /\ handler' \in {handler, "flush"}
      /\ UNCHANGED <<streamVars, pendingWrites, waitForAck, taken, lost>>
  BY DEF FinishFeed, BranchDone
<1>2. feeding \in Tuples /\ Data(feeding) # Close /\ Data(feeding).seq = feeding
  BY <1>1, FrameKinds DEF Data
<1>3. Carried(writeBuffer') = {feeding} /\ InOrder(writeBuffer')
  BY <1>1, <1>2 DEF Carried, InOrder
<1>4. /\ Delivered' = Delivered /\ Pushed' = Pushed /\ Pending' = Pending
      /\ Fed = {feeding} /\ Fed' = {}
  BY <1>1 DEF Delivered, Pushed, Fed, Pending
<1>5. LineInv'
  <2>1. Chain(Delivered, Pushed, Carried(toReceiver), Carried(writeBuffer), Fed, Pending)'
    BY <1>1, <1>3, <1>4 DEF PathInv, LineInv, Chain, AllBelow, streamVars
  <2> QED
    BY <1>1, <1>3, <2>1 DEF PathInv, LineInv, streamVars
<1>6. KnownInv'
  BY <1>1, <1>3, <1>4 DEF PathInv, KnownInv, streamVars
<1>7. HeldInv' /\ AckedInv' /\ NothingVanishes'
  BY <1>1, <1>4 DEF PathInv, HeldInv, AckedInv, NothingVanishes, Running, streamVars
<1> QED
  BY <1>5, <1>6, <1>7 DEF PathInv

\* The buffer that could not be fed is the first of pending_writes again.
LEMMA PathFeedFails ==
    ASSUME TypeOK, PathInv, FeedFails, UNCHANGED receiverVars
    PROVE  PathInv'
<1> USE PathTypes DEF receiverVars
<1>1. /\ feeding # 0 /\ feeding \in Tuples /\ feeding' = 0 /\ handler' \in {handler, "flush"}
      /\ pendingWrites' = <<feeding>> \o pendingWrites /\ waitForAck' = waitForAck \ {feeding}
      /\ UNCHANGED <<streamVars, writeBuffer, taken, lost>>
  BY DEF FeedFails, BranchDone
<1>2. /\ Delivered' = Delivered /\ Pushed' = Pushed
      /\ Fed = {feeding} /\ Fed' = {}
  BY <1>1 DEF Delivered, Pushed, Fed
<1>3. Pending' = Pending \cup {feeding} /\ Rising(pendingWrites')
  <2>1. AllBelow({feeding}, Pending) /\ Rising(pendingWrites)
    BY <1>2 DEF PathInv, LineInv, Chain
  <2> QED
    BY <1>1, <2>1, PrependBuffer DEF Pending
<1>4. LineInv'
  <2>1. Chain(Delivered, Pushed, Carried(toReceiver), Carried(writeBuffer), Fed, Pending)'
    BY <1>1, <1>2, <1>3 DEF PathInv, LineInv, Chain, AllBelow, streamVars
  <2> QED
    BY <1>1, <1>3, <2>1 DEF PathInv, LineInv, streamVars
<1>5. KnownInv'
  BY <1>1, <1>2, <1>3 DEF PathInv, KnownInv, streamVars
<1>6. HeldInv' /\ AckedInv' /\ NothingVanishes'
  <2>1. handler \in Running /\ handler' \in Running
    BY <1>1 DEF PathInv, HeldInv, Running
  <2> QED
    BY <1>1, <1>2, <1>3, <2>1 DEF PathInv, HeldInv, AckedInv, NothingVanishes, Delivered, Pending,
                                  streamVars
<1> QED
  BY <1>4, <1>5, <1>6 DEF PathInv

\* A frame leaves the FramedWrite for the connection, or is lost with it.
LEMMA PathWriteOut ==
    ASSUME TypeOK, PathInv, WriteOut, UNCHANGED receiverVars
    PROVE  PathInv'
<1> USE PathTypes DEF receiverVars
<1> DEFINE f == Head(writeBuffer)
<1>1. /\ writeBuffer # <<>> /\ writeBuffer' = Tail(writeBuffer)
      /\ toReceiver' = toReceiver \/ toReceiver' = Append(toReceiver, f)
      /\ UNCHANGED <<link, toSender, handler, feeding, pendingWrites, waitForAck, taken, lost>>
  BY DEF WriteOut, Written
<1>2. /\ f \in Frame /\ InOrder(writeBuffer')
      /\ Carried(writeBuffer) = Carried(writeBuffer') \cup (IF f = Close THEN {} ELSE {f.seq})
      /\ f = Close \/ AllBelow({f.seq}, Carried(writeBuffer'))
  BY <1>1, TailFrames DEF PathInv, LineInv
<1> HIDE DEF f
<1>3. /\ InOrder(toReceiver')
      /\ Carried(toReceiver') \subseteq Carried(toReceiver) \cup (IF f = Close THEN {} ELSE {f.seq})
  <2>1. f = Close \/ AllBelow(Carried(toReceiver), {f.seq})
    BY <1>2 DEF PathInv, LineInv, Chain, AllBelow
  <2>2. /\ Carried(Append(toReceiver, f)) = Carried(toReceiver)
                                              \cup (IF f = Close THEN {} ELSE {f.seq})
        /\ InOrder(Append(toReceiver, f))
    BY <1>2, <2>1, AppendFrame DEF PathInv, LineInv
  <2>3. InOrder(toReceiver)
    BY DEF PathInv, LineInv
  <2> QED
    BY <1>1, <2>2, <2>3
<1>4. Delivered' = Delivered /\ Pushed' = Pushed /\ Fed' = Fed /\ Pending' = Pending
  BY <1>1 DEF Delivered, Pushed, Fed, Pending
<1>5. LineInv'
  <2>1. Chain(Delivered, Pushed, Carried(toReceiver), Carried(writeBuffer), Fed, Pending)'
    BY <1>2, <1>3, <1>4 DEF PathInv, LineInv, Chain, AllBelow
  <2> QED
    BY <1>1, <1>2, <1>3, <2>1 DEF PathInv, LineInv
<1>6. KnownInv'
  BY <1>1, <1>2, <1>3, <1>4 DEF PathInv, KnownInv
<1>7. HeldInv' /\ AckedInv' /\ NothingVanishes'
  BY <1>1, <1>4 DEF PathInv, HeldInv, AckedInv, NothingVanishes
<1> QED
  BY <1>5, <1>6, <1>7 DEF PathInv

\* Steps of the sender that move no buffer: a feed() may be dropped, and a
\* buffer that was delivered may be acknowledged.
LEMMA PathStays ==
    ASSUME TypeOK, PathInv, UNCHANGED receiverVars,
           \/ AppNext
           \/ HandleFlush \/ HandleTerminate \/ AwaitResponse \/ FlushDone \/ HandleAck
    PROVE  PathInv'
<1> USE PathTypes DEF receiverVars
<1>1. /\ UNCHANGED <<toReceiver, pendingWrites, writeBuffer, taken, lost>>
      /\ feeding' \in {feeding, 0}
      /\ waitForAck' \subseteq waitForAck
      /\ handler \in Running => handler' \in Running
      /\ handler \notin Running => handler' = handler /\ UNCHANGED <<feeding, waitForAck>>
  BY DEF AppNext, SendData, SendTwice, SendFlush, FlushChannel, SendTerminate, DropQueue, Enqueue,
         HandleFlush, HandleTerminate, AwaitResponse, FlushDone, HandleAck, BranchDone, Running,
         streamVars
<1>2. /\ Carried(toSender') \subseteq Carried(toSender)
      /\ waitForAck \subseteq waitForAck' \cup Delivered
  <2>1. CASE HandleAck
    <3>1. /\ toSender # <<>> /\ toSender' = Tail(toSender) /\ Head(toSender) \in Response
          /\ Head(toSender).typ = "Ack" /\ waitForAck' = waitForAck \ {Head(toSender).seq}
      BY <2>1 DEF HandleAck
    <3>2. /\ Head(toSender) # Close
          /\ Carried(toSender) = Carried(toSender') \cup {Head(toSender).seq}
      BY <3>1, FrameKinds, TailFrames
    <3> QED
      BY <3>1, <3>2 DEF PathInv, AckedInv
  <2>2. CASE UNCHANGED <<toSender, waitForAck>>
    BY <2>2
  <2>3. HandleAck \/ UNCHANGED <<toSender, waitForAck>>
    BY DEF AppNext, SendData, SendTwice, SendFlush, FlushChannel, SendTerminate, DropQueue,
           HandleFlush, HandleTerminate, AwaitResponse, FlushDone, streamVars
  <2> QED
    BY <2>1, <2>2, <2>3
<1>3. /\ Delivered' = Delivered /\ Pushed' = Pushed /\ Pending' = Pending
      /\ Fed' \subseteq Fed
  BY <1>1 DEF Delivered, Pushed, Fed, Pending
<1>4. LineInv'
  <2>1. InOrder(toReceiver)
    BY DEF PathInv, LineInv
  <2> QED
    BY <1>1, <1>3, <2>1, LineShrinks DEF PathInv
<1>5. KnownInv'
  BY <1>1, <1>3 DEF PathInv, KnownInv
<1>6. HeldInv' /\ AckedInv'
  BY <1>1, <1>2, <1>3 DEF PathInv, HeldInv, AckedInv
<1>7. NothingVanishes'
  BY <1>1, <1>2, <1>3 DEF PathInv, NothingVanishes, Delivered
<1> QED
  BY <1>4, <1>5, <1>6, <1>7 DEF PathInv

\* The handler ends, and what it held is lost.
LEMMA PathEnds ==
    ASSUME TypeOK, PathInv, UNCHANGED receiverVars,
           \/ QueueDropped \/ HandleUnknownAck \/ HandleClose \/ FinishTerminate
           \/ ReadEof \/ ConnectionError
    PROVE  PathInv'
<1> USE PathTypes DEF receiverVars
<1>1. /\ pendingWrites' = <<>> /\ waitForAck' = {} /\ writeBuffer' = <<>> /\ feeding' = 0
      /\ lost' = lost \cup Pending \cup waitForAck
      /\ taken' = taken
  BY DEF QueueDropped, HandleUnknownAck, HandleClose, FinishTerminate, ReadEof, ConnectionError,
         EndHandler, Pending
<1>2. /\ Carried(toReceiver') = Carried(toReceiver) /\ InOrder(toReceiver')
  <2>1. InOrder(toReceiver)
    BY DEF PathInv, LineInv
  <2>2. /\ Carried(Append(toReceiver, Close)) = Carried(toReceiver)
        /\ InOrder(Append(toReceiver, Close))
    BY <2>1, AppendFrame DEF Frame
  <2>3. toReceiver' = toReceiver \/ toReceiver' = Append(toReceiver, Close)
    BY DEF QueueDropped, HandleUnknownAck, HandleClose, FinishTerminate, ReadEof, ConnectionError,
           Written, streamVars
  <2> QED
    BY <2>1, <2>2, <2>3
<1>3. Carried(toSender') \subseteq Carried(toSender)
  <2>1. toSender' = toSender \/ (toSender # <<>> /\ toSender' = Tail(toSender))
    BY DEF QueueDropped, HandleUnknownAck, HandleClose, FinishTerminate, ReadEof, ConnectionError,
           streamVars
  <2>2. toSender # <<>> => Carried(Tail(toSender)) \subseteq Carried(toSender)
    BY TailFrames
  <2> QED
    BY <2>1, <2>2
<1>4. /\ Delivered' = Delivered /\ Pushed' = Pushed
      /\ Carried(writeBuffer') = {} /\ Fed' = {} /\ Pending' = {}
  BY <1>1, EmptyLine DEF Delivered, Pushed, Fed, Pending
<1>5. LineInv'
  BY <1>1, <1>2, <1>4, LineShrinks DEF PathInv
<1>6. KnownInv'
  BY <1>1, <1>2, <1>4 DEF PathInv, KnownInv
<1>7. HeldInv' /\ AckedInv'
  BY <1>1, <1>3, <1>4 DEF PathInv, HeldInv, AckedInv
<1>8. NothingVanishes'
  BY <1>1 DEF PathInv, NothingVanishes, Pending
<1> QED
  BY <1>5, <1>6, <1>7, <1>8 DEF PathInv

\* A buffer goes from the connection through pending_buffer into the data queue.
LEMMA PathRead ==
    ASSUME TypeOK, PathInv, ReadData, UNCHANGED channelVars
    PROVE  PathInv'
<1> USE PathTypes DEF channelVars
<1> DEFINE f == Head(toReceiver)
<1>1. /\ receiver = "read" /\ receiver' = "push"
      /\ toReceiver # <<>> /\ toReceiver' = Tail(toReceiver)
      /\ f \in Request /\ f # Close /\ pendingBuffer' = f.seq
      /\ UNCHANGED <<toSender, delivered>>
  BY FrameKinds DEF ReadData
<1>2. /\ Carried(toReceiver) = Carried(toReceiver') \cup {f.seq}
      /\ InOrder(toReceiver') /\ AllBelow({f.seq}, Carried(toReceiver'))
  BY <1>1, TailFrames DEF PathInv, LineInv
<1> HIDE DEF f
<1>3. /\ Delivered' = Delivered /\ Pushed' = {f.seq} /\ Fed' = Fed /\ Pending' = Pending
  BY <1>1 DEF Delivered, Pushed, Fed, Pending
<1>4. LineInv'
  <2>1. Chain(Delivered, Pushed, Carried(toReceiver), Carried(writeBuffer), Fed, Pending)'
    BY <1>2, <1>3 DEF PathInv, LineInv, Chain, AllBelow
  <2> QED
    BY <1>1, <1>2, <2>1 DEF PathInv, LineInv
<1>5. KnownInv'
  BY <1>2, <1>3 DEF PathInv, KnownInv
<1>6. HeldInv' /\ AckedInv' /\ NothingVanishes'
  BY <1>1, <1>3 DEF PathInv, HeldInv, AckedInv, NothingVanishes
<1> QED
  BY <1>4, <1>5, <1>6 DEF PathInv

\* The pending buffer becomes the last one delivered.
LEMMA PathPush ==
    ASSUME TypeOK, PathInv, PushData, UNCHANGED channelVars
    PROVE  PathInv'
<1> USE PathTypes DEF channelVars
<1>1. /\ receiver = "push" /\ receiver' = "ack" /\ pendingBuffer' = pendingBuffer
      /\ delivered' = Append(delivered, pendingBuffer)
      /\ pendingBuffer \in Tuples
      /\ UNCHANGED streamVars
  BY DEF PushData, TypeOK, ChannelReceiverTypeOK
<1>2. /\ Pushed = {pendingBuffer} /\ Pushed' = {} /\ Fed' = Fed /\ Pending' = Pending
      /\ Delivered' = Delivered \cup {pendingBuffer}
      /\ Rising(delivered) /\ AllBelow(Delivered, {pendingBuffer}) => Rising(delivered')
  BY <1>1, AppendBuffer DEF Delivered, Pushed, Fed, Pending
<1>3. LineInv'
  <2>1. Chain(Delivered, Pushed, Carried(toReceiver), Carried(writeBuffer), Fed, Pending)'
    BY <1>1, <1>2 DEF PathInv, LineInv, Chain, AllBelow, streamVars
  <2>2. Rising(delivered')
    BY <1>2 DEF PathInv, LineInv, Chain, AllBelow
  <2> QED
    BY <1>1, <2>1, <2>2 DEF PathInv, LineInv, streamVars
<1>4. KnownInv'
  BY <1>1, <1>2 DEF PathInv, KnownInv, streamVars
<1>5. HeldInv' /\ AckedInv'
  BY <1>1, <1>2 DEF PathInv, HeldInv, AckedInv, streamVars
<1>6. NothingVanishes'
  BY <1>2 DEF PathInv, NothingVanishes, Delivered
<1> QED
  BY <1>3, <1>4, <1>5, <1>6 DEF PathInv

\* The other steps of the receiver acknowledge what was delivered, or drop what was not.
LEMMA PathReceiver ==
    ASSUME TypeOK, PathInv, UNCHANGED channelVars,
           \/ SendAck \/ PushRefused \/ SendClose \/ ReadClose \/ CancelChannel \/ Consume
           \/ CloseQueue \/ ReceiverNetworkError
    PROVE  PathInv'
<1> USE PathTypes DEF channelVars
<1>1. /\ delivered' = delivered
      /\ toReceiver' = toReceiver \/ (toReceiver # <<>> /\ toReceiver' = Tail(toReceiver))
      /\ receiver' \in {"push", "ack"} => receiver' = receiver /\ pendingBuffer' = pendingBuffer
      /\ receiver' \in {"push", "ack"} \/ pendingBuffer' = 0
  BY DEF SendAck, PushRefused, SendClose, ReadClose, CancelChannel, Consume, CloseQueue,
         ReceiverNetworkError, streamVars, PathInv, HeldInv
<1>2. Carried(toSender') \subseteq Carried(toSender) \cup Delivered
  <2>1. CASE SendAck
    <3>1. /\ pendingBuffer \in Tuples /\ pendingBuffer \in Delivered
          /\ toSender' = toSender \/ toSender' = Append(toSender, Ack(pendingBuffer))
      BY <2>1 DEF SendAck, Written, TypeOK, ChannelReceiverTypeOK, PathInv, AckedInv
    <3>2. Ack(pendingBuffer) \in Frame /\ Ack(pendingBuffer).seq = pendingBuffer
      BY <3>1, FrameKinds DEF Ack
    <3>3. Carried(Append(toSender, Ack(pendingBuffer))) \subseteq Carried(toSender)
                                                                  \cup {pendingBuffer}
      BY <3>2, AppendFrame
    <3>4. toSender' = toSender => Carried(toSender') \subseteq Carried(toSender)
      OBVIOUS
    <3>5. toSender' = Append(toSender, Ack(pendingBuffer)) =>
            Carried(toSender') \subseteq Carried(toSender) \cup {pendingBuffer}
      BY <3>3
    <3> QED
      BY <3>1, <3>4, <3>5
  <2>2. CASE SendClose
    <3>1. toSender' = toSender \/ toSender' = Append(toSender, Close)
      BY <2>2 DEF SendClose, Written
    <3>2. Close \in Frame
      BY DEF Frame
    <3>3. Carried(Append(toSender, Close)) = Carried(toSender)
      BY <3>2, AppendFrame
    <3> QED
      BY <3>1, <3>3
  <2>3. CASE ~SendAck /\ ~SendClose
    BY <2>3 DEF PushRefused, ReadClose, CancelChannel, Consume, CloseQueue,
                ReceiverNetworkError, streamVars
  <2> QED
    BY <2>1, <2>2, <2>3
<1>3. Carried(toReceiver') \subseteq Carried(toReceiver) /\ InOrder(toReceiver')
  <2>1. InOrder(toReceiver)
    BY DEF PathInv, LineInv
  <2> QED
    BY <1>1, <2>1, TailFrames
<1>4. /\ Delivered' = Delivered /\ Pushed' \subseteq Pushed /\ Fed' = Fed /\ Pending' = Pending
  BY <1>1 DEF Delivered, Pushed, Fed, Pending
<1>5. LineInv'
  BY <1>1, <1>3, <1>4, LineShrinks DEF PathInv
<1>6. KnownInv'
  BY <1>3, <1>4 DEF PathInv, KnownInv
<1>7. HeldInv' /\ AckedInv' /\ NothingVanishes'
  BY <1>1, <1>2, <1>4 DEF PathInv, HeldInv, AckedInv, NothingVanishes
<1> QED
  BY <1>5, <1>6, <1>7 DEF PathInv

\* A new connection carries nothing, and its handlers hold nothing.
LEMMA PathOpen ==
    ASSUME TypeOK, PathInv, OpenConnection \/ (StrandChannel /\ handler' = "run")
    PROVE  PathInv'
<1>1. /\ handler = "retry" /\ receiver = "registered" /\ receiver' \in {"read", "stranded"}
      /\ toReceiver' = <<>> /\ toSender' = <<>> /\ handler' \in Running
      /\ UNCHANGED <<pendingWrites, waitForAck, writeBuffer, feeding, taken, lost,
                     pendingBuffer, delivered>>
  BY DEF OpenConnection, StrandChannel, Running
<1>2. /\ Delivered' = Delivered /\ Pushed' = {} /\ Fed' = Fed /\ Pending' = Pending
      /\ Carried(toReceiver') = {} /\ InOrder(toReceiver') /\ Carried(toSender') = {}
  BY <1>1, EmptyLine DEF Delivered, Pushed, Fed, Pending
<1>3. LineInv'
  BY <1>1, <1>2, LineShrinks DEF PathInv
<1>4. KnownInv'
  BY <1>1, <1>2 DEF PathInv, KnownInv
<1>5. HeldInv' /\ AckedInv' /\ NothingVanishes'
  BY <1>1, <1>2 DEF PathInv, HeldInv, AckedInv, NothingVanishes
<1> QED
  BY <1>3, <1>4, <1>5 DEF PathInv

\* At first no buffer is anywhere.
LEMMA PathInit == Init => PathInv
<1> SUFFICES ASSUME Init PROVE PathInv
  OBVIOUS
<1> USE DEF Init, StreamInit, ChannelSenderInit, ChannelReceiverInit
<1>1. /\ Delivered = {} /\ Pushed = {} /\ Fed = {} /\ Pending = {}
      /\ Carried(toReceiver) = {} /\ Carried(writeBuffer) = {} /\ Carried(toSender) = {}
  BY EmptyLine DEF Delivered, Pushed, Fed, Pending
<1>2. LineInv
  BY <1>1, EmptyLine DEF LineInv, Chain, AllBelow
<1>3. KnownInv /\ HeldInv /\ AckedInv
  BY <1>1 DEF KnownInv, HeldInv, AckedInv
<1>4. NothingVanishes
  BY DEF NothingVanishes
<1> QED
  BY <1>2, <1>3, <1>4 DEF PathInv

\* Every step keeps the way of the buffers in order.
LEMMA PathNext ==
    ASSUME TypeOK, QueueInv, PathInv, [Next]_vars
    PROVE  PathInv'
<1>1. CASE SenderStep /\ UNCHANGED receiverVars
  BY <1>1, PathData, PathPending, PathFeed, PathFeedFails, PathWriteOut, PathStays, PathEnds
  DEF SenderStep, HandlerNext
<1>2. CASE ReceiverStep /\ UNCHANGED channelVars
  BY <1>2, PathRead, PathPush, PathReceiver DEF ReceiverStep, ChannelReceiverNext
<1>3. CASE OpenConnection
  BY <1>3, PathOpen
<1>7. CASE StrandChannel
  <2>1. CASE handler' = "run"
    BY <1>7, <2>1, PathOpen
  <2>2. CASE UNCHANGED handler
    <3>1. /\ UNCHANGED <<streamVars, pendingWrites, waitForAck, writeBuffer, feeding, taken, lost,
                         pendingBuffer, delivered>>
          /\ receiver = "registered" /\ receiver' = "stranded"
      BY <1>7, <2>2 DEF StrandChannel
    <3>2. /\ Delivered' = Delivered /\ Fed' = Fed /\ Pending' = Pending /\ Pushed' = Pushed
          /\ toReceiver' = toReceiver /\ toSender' = toSender
      BY <3>1 DEF Delivered, Fed, Pending, Pushed, streamVars
    <3>3. LineInv' /\ KnownInv'
      BY <3>1, <3>2 DEF PathInv, LineInv, KnownInv
    <3>4. HeldInv' /\ AckedInv' /\ NothingVanishes'
      BY <2>2, <3>1, <3>2 DEF PathInv, HeldInv, AckedInv, NothingVanishes
    <3> QED
      BY <3>3, <3>4 DEF PathInv
  <2> QED
    BY <1>7, <2>1, <2>2 DEF StrandChannel
<1>4. CASE UNCHANGED <<toReceiver, toSender, channelVars, receiverVars>>
  <2>1. UNCHANGED <<Delivered, Pushed, Fed, Pending>>
    BY <1>4 DEF Delivered, Pushed, Fed, Pending, channelVars, receiverVars
  <2>2. LineInv'
    BY <1>4, <2>1 DEF PathInv, LineInv, channelVars, receiverVars
  <2>4. KnownInv'
    BY <1>4, <2>1 DEF PathInv, KnownInv, channelVars
  <2>3. HeldInv' /\ AckedInv' /\ NothingVanishes'
    BY <1>4, <2>1 DEF PathInv, HeldInv, AckedInv, NothingVanishes, channelVars, receiverVars
  <2> QED
    BY <2>2, <2>3, <2>4 DEF PathInv
<1>5. CASE LoseConnection /\ UNCHANGED <<channelVars, receiverVars>>
  BY <1>4, <1>5 DEF LoseConnection
<1>6. CASE UNCHANGED vars
  BY <1>4, <1>6 DEF vars, streamVars
<1> QED
  BY <1>1, <1>2, <1>3, <1>5, <1>6, <1>7 DEF Next

----------------------------------------------------------------------------
(* What holds of every channel. *)

ChannelInv == TypeOK /\ QueueInv /\ FlushInv /\ PathInv

\* The invariant holds at first, is kept by every step, and so holds always.
LEMMA ChannelInit == Init => ChannelInv
<1> SUFFICES ASSUME Init PROVE ChannelInv
  OBVIOUS
<1>1. QueueInv /\ FlushInv
  BY DEF Init, ChannelSenderInit, QueueInv, FlushInv, Continues
<1> QED
  BY <1>1, TypeInit, PathInit DEF ChannelInv

\* Every step keeps the invariant.
LEMMA ChannelNext == ChannelInv /\ [Next]_vars => ChannelInv'
  BY TypeNext, QueueNext, PathNext DEF ChannelInv

\* It holds in every reachable state.
LEMMA ChannelInvariant == Spec => []ChannelInv
  BY ChannelInit, ChannelNext, PTL DEF Spec

\* A buffer that left the queue is held by the handler, was delivered, or went
\* down with a handler (sender.rs:193-258, receiver.rs:104-125).
THEOREM BuffersAccountedFor == Spec => []NothingVanishes
<1>1. ChannelInv => NothingVanishes
  BY DEF ChannelInv, PathInv
<1> QED
  BY <1>1, ChannelInvariant, PTL

\* Buffers reach the data queue in the order of their numbers, also when the
\* application repeats them and whatever is lost (sender.rs:228-258,
\* receiver.rs:104-125).
THEOREM OrderIsKept == Spec => []DeliveredInOrder
<1>1. ChannelInv => DeliveredInOrder
  <2> SUFFICES ASSUME ChannelInv, NEW i \in DOMAIN delivered, NEW j \in DOMAIN delivered, i < j
               PROVE  delivered[i] <= delivered[j]
    BY DEF DeliveredInOrder
  <2>1. delivered[i] \in Nat /\ delivered[j] \in Nat
    <3>1. delivered \in Seq(Tuples)
      BY DEF ChannelInv, TypeOK, ChannelReceiverTypeOK
    <3>2. \A k \in DOMAIN delivered : delivered[k] \in Tuples
      BY <3>1
    <3> QED
      BY <3>2 DEF Tuples
  <2>2. Below(delivered[i], delivered[j])
    BY DEF ChannelInv, PathInv, LineInv, Rising
  <2> QED
    BY <2>1, <2>2 DEF Below
<1> QED
  BY <1>1, ChannelInvariant, PTL

----------------------------------------------------------------------------
(* Acknowledgements. *)

Held == IF pendingBuffer = 0 THEN {} ELSE {pendingBuffer}

\* Acknowledgements arrive in the order of the buffers.
AckOrderInv ==
    /\ InOrder(toSender)
    /\ receiver = "ack" => AllBelow(Carried(toSender), {pendingBuffer})

\* The sender awaits what is under way on a connection that both handlers share.
SharedInv ==
    handler \in Running /\ receiver \in Receiving =>
        Carried(toSender) \cup Held \cup Carried(toReceiver) \cup Carried(writeBuffer)
            \subseteq waitForAck

\* An Ack is written when its buffer was the last one pushed, and read in turn.
LEMMA AckOrderNext ==
    ASSUME ChannelInv, AckOrderInv, [Next]_vars
    PROVE  AckOrderInv'
<1> USE PathTypes DEF ChannelInv
<1>1. CASE /\ receiver' = "ack" => receiver = "ack" /\ pendingBuffer' = pendingBuffer
           /\ toSender' = toSender \/ (toSender # <<>> /\ toSender' = Tail(toSender))
  <2>1. InOrder(toSender') /\ Carried(toSender') \subseteq Carried(toSender)
    BY <1>1, TailFrames DEF AckOrderInv
  <2> QED
    BY <1>1, <2>1 DEF AckOrderInv, AllBelow
<1>2. CASE SenderStep /\ UNCHANGED receiverVars
  <2>1. toSender' = toSender \/ (toSender # <<>> /\ toSender' = Tail(toSender))
    BY <1>2 DEF SenderStep, AppNext, SendData, SendTwice, SendFlush, FlushChannel, SendTerminate,
       DropQueue, HandlerNext, HandleData, HandleFlush, HandleTerminate, QueueDropped, SendPending,
       FinishFeed, WriteOut, AwaitResponse, FlushDone, HandleAck, HandleUnknownAck, HandleClose,
       FinishTerminate, ReadEof, ConnectionError, FeedFails, streamVars
  <2> QED
    BY <1>1, <1>2, <2>1 DEF receiverVars
<1>3. CASE PushData
  <2>1. toSender' = toSender /\ pendingBuffer' = pendingBuffer /\ Pushed = {pendingBuffer}
    BY <1>3 DEF PushData, Pushed, streamVars
  <2>2. AllBelow(Carried(toSender), {pendingBuffer})
    BY <2>1 DEF PathInv, AckedInv, LineInv, Chain, AllBelow
  <2> QED
    BY <2>1, <2>2 DEF AckOrderInv
<1>4. CASE SendAck
  <2>1. /\ receiver = "ack" /\ receiver' = "read" /\ pendingBuffer \in Tuples
        /\ toSender' = toSender \/ toSender' = Append(toSender, Ack(pendingBuffer))
    BY <1>4 DEF SendAck, Written, TypeOK, ChannelReceiverTypeOK
  <2>2. Ack(pendingBuffer) \in Frame /\ Ack(pendingBuffer).seq = pendingBuffer
    BY <2>1, FrameKinds DEF Ack
  <2>3. InOrder(Append(toSender, Ack(pendingBuffer)))
    BY <2>1, <2>2, AppendFrame DEF AckOrderInv
  <2> QED
    BY <2>1, <2>3 DEF AckOrderInv
<1>5. CASE SendClose
  <2>1. /\ receiver' = "ended"
        /\ toSender' = toSender \/ toSender' = Append(toSender, Close)
    BY <1>5 DEF SendClose, Written
  <2>2. Close \in Frame
    BY DEF Frame
  <2>3. InOrder(Append(toSender, Close))
    BY <2>2, AppendFrame DEF AckOrderInv
  <2> QED
    BY <2>1, <2>3 DEF AckOrderInv
<1>6. CASE ReadData \/ PushRefused \/ ReadClose \/ CancelChannel \/ Consume \/ CloseQueue
           \/ ReceiverNetworkError
  BY <1>1, <1>6 DEF ReadData, PushRefused, ReadClose, CancelChannel, Consume, CloseQueue,
                    ReceiverNetworkError, streamVars
<1>7. CASE OpenConnection
  BY <1>7, EmptyLine DEF OpenConnection, AckOrderInv
<1>10. CASE StrandChannel
  <2>1. receiver' # "ack" /\ toSender' \in {toSender, <<>>}
    BY <1>10 DEF StrandChannel, streamVars
  <2> QED
    BY <2>1, EmptyLine DEF AckOrderInv
<1>8. CASE LoseConnection /\ UNCHANGED <<channelVars, receiverVars>>
  BY <1>1, <1>8 DEF LoseConnection, receiverVars
<1>9. CASE UNCHANGED vars
  BY <1>1, <1>9 DEF vars, streamVars, receiverVars
<1> QED
  BY <1>2, <1>3, <1>4, <1>5, <1>6, <1>7, <1>8, <1>9, <1>10
  DEF Next, ReceiverStep, ChannelReceiverNext

\* An acknowledgement takes no buffer from wait_for_ack that is still under way.
LEMMA SharedAck ==
    ASSUME ~Resends, ChannelInv, AckOrderInv, SharedInv, HandleAck, UNCHANGED receiverVars
    PROVE  SharedInv'
<1> USE PathTypes DEF ChannelInv
<1> DEFINE n == Head(toSender).seq
<1>1. /\ toSender # <<>> /\ toSender' = Tail(toSender) /\ Head(toSender) # Close
      /\ waitForAck' = waitForAck \ {n} /\ handler \in Running
      /\ UNCHANGED <<toReceiver, writeBuffer, receiver, pendingBuffer>>
  <2>1. Head(toSender) \in Response /\ Head(toSender).typ = "Ack"
    BY DEF HandleAck
  <2> QED
    BY <2>1, FrameKinds DEF HandleAck, Running, receiverVars
<1>2. /\ Carried(toSender) = Carried(toSender') \cup {n}
      /\ AllBelow({n}, Carried(toSender'))
  BY <1>1, TailFrames DEF AckOrderInv
<1>3. n \in Delivered
  BY <1>2 DEF PathInv, AckedInv
<1> HIDE DEF n
<1>4. AllBelow({n}, Held \cup Carried(toReceiver) \cup Carried(writeBuffer))
  <2>1. AllBelow({n}, Pushed \cup Carried(toReceiver) \cup Carried(writeBuffer))
    BY <1>3 DEF PathInv, LineInv, Chain, AllBelow
  <2>2. receiver = "ack" => AllBelow({n}, {pendingBuffer})
    BY <1>2 DEF AckOrderInv, AllBelow
  <2>3. Held \subseteq Pushed \/ (receiver = "ack" /\ Held \subseteq {pendingBuffer})
    BY DEF PathInv, HeldInv, Held, Pushed
  <2> QED
    BY <2>1, <2>2, <2>3 DEF AllBelow
<1>5. n \in Nat
  BY <1>3 DEF PathInv, KnownInv
<1>6. ~Below(n, n)
  BY <1>5 DEF Below
<1>7. Held' = Held
  BY <1>1 DEF Held
<1> QED
  BY <1>1, <1>2, <1>4, <1>6, <1>7 DEF SharedInv, AllBelow

\* The sender awaits a buffer before it feeds it, and up to its Ack.
LEMMA SharedSender ==
    ASSUME ~Resends, ChannelInv, AckOrderInv, SharedInv, SenderStep, UNCHANGED receiverVars
    PROVE  SharedInv'
<1> USE PathTypes DEF ChannelInv, receiverVars
<1>1. Held' = Held
  BY DEF Held
<1>2. CASE HandleAck
  BY <1>2, SharedAck
<1>3. CASE HandleUnknownAck \/ QueueDropped \/ HandleClose \/ FinishTerminate
           \/ ReadEof \/ ConnectionError
  BY <1>3 DEF HandleUnknownAck, QueueDropped, HandleClose, FinishTerminate, ReadEof,
              ConnectionError, EndHandler, SharedInv, Running
<1>4. CASE SendPending
  <2> DEFINE n == Head(pendingWrites)
  <2>1. /\ handler \in Running /\ waitForAck' = waitForAck \cup {n}
        /\ writeBuffer' = writeBuffer \/ writeBuffer' = Append(writeBuffer, Data(n))
        /\ pendingWrites # <<>> /\ UNCHANGED streamVars
    BY <1>4 DEF SendPending, Running
  <2>2. n \in Tuples
    BY <2>1
  <2> HIDE DEF n
  <2>3. Data(n) \in Frame /\ Data(n).seq = n
    BY <2>2, FrameKinds DEF Data
  <2>4. Carried(Append(writeBuffer, Data(n))) \subseteq Carried(writeBuffer) \cup {n}
    BY <2>3, AppendFrame
  <2>5. Carried(writeBuffer') \subseteq Carried(writeBuffer) \cup {n}
    BY <2>1, <2>4
  <2> QED
    BY <1>1, <2>1, <2>5 DEF SharedInv, streamVars
<1>5. CASE FinishFeed
  <2>1. /\ feeding # 0 /\ feeding \in waitForAck /\ waitForAck' = waitForAck
        /\ writeBuffer' = <<Data(feeding)>> /\ UNCHANGED streamVars
        /\ handler \in Running
    BY <1>5 DEF FinishFeed, PathInv, HeldInv
  <2>2. Carried(writeBuffer') \subseteq {feeding}
    BY <2>1 DEF Carried, Data
  <2> QED
    BY <1>1, <2>1, <2>2 DEF SharedInv, streamVars
<1>6. CASE WriteOut
  <2> DEFINE f == Head(writeBuffer)
  <2>1. /\ writeBuffer # <<>> /\ writeBuffer' = Tail(writeBuffer)
        /\ toReceiver' = toReceiver \/ toReceiver' = Append(toReceiver, f)
        /\ UNCHANGED <<toSender, handler, waitForAck>>
    BY <1>6 DEF WriteOut, Written
  <2>2. /\ f \in Frame
        /\ Carried(writeBuffer) = Carried(writeBuffer') \cup (IF f = Close THEN {} ELSE {f.seq})
    BY <2>1, TailFrames
  <2> HIDE DEF f
  <2>3. Carried(Append(toReceiver, f)) \subseteq Carried(toReceiver) \cup Carried(writeBuffer)
    <3>1. Carried(Append(toReceiver, f)) = Carried(toReceiver)
                                             \cup (IF f = Close THEN {} ELSE {f.seq})
      BY <2>2, AppendFrame
    <3> QED
      BY <2>2, <3>1
  <2>4. /\ Carried(toReceiver') \subseteq Carried(toReceiver) \cup Carried(writeBuffer)
        /\ Carried(writeBuffer') \subseteq Carried(writeBuffer)
    BY <2>1, <2>2, <2>3
  <2> QED
    BY <1>1, <2>1, <2>4 DEF SharedInv
<1>8. CASE FeedFails
  <2>1. /\ feeding # 0 /\ feeding \in Nat /\ waitForAck' = waitForAck \ {feeding} /\ Fed = {feeding}
        /\ UNCHANGED <<streamVars, writeBuffer>> /\ handler \in Running
    BY <1>8 DEF FeedFails, Fed, PathInv, HeldInv
  <2>2. AllBelow(Delivered \cup Pushed \cup Carried(toReceiver) \cup Carried(writeBuffer), {feeding})
    BY <2>1 DEF PathInv, LineInv, Chain, AllBelow
  <2>3. Carried(toSender) \cup Held \subseteq Delivered \cup Pushed
    BY DEF PathInv, HeldInv, AckedInv, Held, Pushed
  <2>4. ~Below(feeding, feeding)
    BY <2>1 DEF Below
  <2>5. feeding \notin Carried(toSender) \cup Held \cup Carried(toReceiver) \cup Carried(writeBuffer)
    BY <2>2, <2>3, <2>4 DEF AllBelow
  <2> QED
    BY <1>1, <2>1, <2>5 DEF SharedInv, streamVars
<1>7. CASE AppNext \/ HandleData \/ HandleFlush \/ HandleTerminate \/ AwaitResponse \/ FlushDone
  <2>1. UNCHANGED <<toReceiver, toSender, writeBuffer, waitForAck>>
    BY <1>7 DEF AppNext, SendData, SendTwice, SendFlush, FlushChannel, SendTerminate, DropQueue,
       HandleData, HandleFlush, HandleTerminate, AwaitResponse, FlushDone, streamVars
  <2>2. handler' \in Running => handler \in Running
    BY <1>7 DEF AppNext, SendData, SendTwice, SendFlush, FlushChannel, SendTerminate, DropQueue,
       HandleData, HandleFlush, HandleTerminate, AwaitResponse, FlushDone, BranchDone, Running
  <2> QED
    BY <1>1, <2>1, <2>2 DEF SharedInv
<1> QED
  BY <1>2, <1>3, <1>4, <1>5, <1>6, <1>7, <1>8 DEF SenderStep, HandlerNext

\* The receiver turns a frame into its Ack, or ends.
LEMMA SharedReceiver ==
    ASSUME ChannelInv, SharedInv, ReceiverStep, UNCHANGED channelVars
    PROVE  SharedInv'
<1> USE PathTypes DEF ChannelInv, channelVars
<1>1. CASE ReadData
  <2> DEFINE f == Head(toReceiver)
  <2>1. /\ receiver = "read" /\ toReceiver # <<>> /\ toReceiver' = Tail(toReceiver)
        /\ f \in Request /\ f # Close /\ pendingBuffer' = f.seq /\ toSender' = toSender
    BY <1>1, FrameKinds DEF ReadData
  <2>2. Carried(toReceiver) = Carried(toReceiver') \cup {f.seq}
    BY <2>1, TailFrames
  <2>3. Held' \subseteq {f.seq}
    BY <2>1 DEF Held
  <2> QED
    BY <2>1, <2>2, <2>3 DEF SharedInv, Receiving
<1>2. CASE SendAck
  <2>1. /\ receiver = "ack" /\ pendingBuffer \in Tuples /\ pendingBuffer' = 0
        /\ toReceiver' = toReceiver
        /\ toSender' = toSender \/ toSender' = Append(toSender, Ack(pendingBuffer))
    BY <1>2 DEF SendAck, Written, TypeOK, ChannelReceiverTypeOK
  <2>2. Ack(pendingBuffer) \in Frame /\ Ack(pendingBuffer).seq = pendingBuffer
    BY <2>1, FrameKinds DEF Ack
  <2>3. Carried(Append(toSender, Ack(pendingBuffer))) \subseteq Carried(toSender)
                                                                \cup {pendingBuffer}
    BY <2>2, AppendFrame
  <2>4. Held = {pendingBuffer} /\ Held' = {}
    BY <2>1 DEF Held
  <2>5. Carried(toSender') \subseteq Carried(toSender) \cup Held
    <3>1. CASE toSender' = toSender
      BY <3>1
    <3>2. CASE toSender' = Append(toSender, Ack(pendingBuffer))
      BY <2>3, <2>4, <3>2
    <3> QED
      BY <2>1, <3>1, <3>2
  <2> QED
    BY <2>1, <2>4, <2>5 DEF SharedInv, Receiving
<1>3. CASE ~(receiver' \in Receiving)
  BY <1>3 DEF SharedInv
<1>4. CASE SendClose \/ ReadClose \/ CancelChannel \/ ReceiverNetworkError
  BY <1>3, <1>4 DEF SendClose, ReadClose, CancelChannel, ReceiverNetworkError, Receiving
<1>5. CASE PushData \/ PushRefused \/ Consume \/ CloseQueue
  <2>1. /\ UNCHANGED streamVars
        /\ receiver' \in Receiving => receiver \in Receiving
        /\ pendingBuffer' \in {pendingBuffer, 0}
    BY <1>5 DEF PushData, PushRefused, Consume, CloseQueue, Receiving
  <2>2. Held' \subseteq Held
    BY <2>1 DEF Held
  <2> QED
    BY <2>1, <2>2 DEF SharedInv, streamVars
<1> QED
  BY <1>1, <1>2, <1>4, <1>5 DEF ReceiverStep, ChannelReceiverNext

\* Every step keeps what is under way awaited; a new connection carries nothing.
LEMMA SharedNext ==
    ASSUME ~Resends, ChannelInv, AckOrderInv, SharedInv, [Next]_vars
    PROVE  SharedInv'
<1>1. CASE SenderStep /\ UNCHANGED receiverVars
  BY <1>1, SharedSender
<1>2. CASE ReceiverStep /\ UNCHANGED channelVars
  BY <1>2, SharedReceiver
<1>3. CASE OpenConnection
  <2>1. writeBuffer' = <<>> /\ Held' = {} /\ toSender' = <<>> /\ toReceiver' = <<>>
    BY <1>3 DEF OpenConnection, ChannelInv, PathInv, HeldInv, Running, Held
  <2> QED
    BY <2>1, EmptyLine DEF SharedInv
<1>7. CASE StrandChannel
  BY <1>7 DEF StrandChannel, SharedInv, Receiving
<1>4. CASE UNCHANGED <<toReceiver, toSender, channelVars, receiverVars>>
  BY <1>4 DEF SharedInv, Held, channelVars, receiverVars
<1>5. CASE LoseConnection /\ UNCHANGED <<channelVars, receiverVars>>
  BY <1>4, <1>5 DEF LoseConnection
<1>6. CASE UNCHANGED vars
  BY <1>4, <1>6 DEF vars, streamVars
<1> QED
  BY <1>1, <1>2, <1>3, <1>5, <1>6, <1>7 DEF Next

\* The frames under way, one segment behind the other.
LEMMA ExpectedShared ==
    ASSUME ~Resends, ChannelInv, AckOrderInv, SharedInv
    PROVE  AcksAreExpected
<1> USE PathTypes DEF ChannelInv
<1> SUFFICES ASSUME handler \in Running, receiver \in Receiving
             PROVE  /\ UnderWay \in Seq(Frame)
                    /\ InOrder(UnderWay)
                    /\ Carried(UnderWay) \subseteq waitForAck
  <2>1. ASSUME UnderWay \in Seq(Frame), InOrder(UnderWay), Carried(UnderWay) \subseteq waitForAck,
               NEW i \in DOMAIN UnderWay, UnderWay[i] # Close
        PROVE  /\ UnderWay[i].seq \in waitForAck
               /\ \A j \in 1 .. (i - 1) :
                     UnderWay[j] # Close => UnderWay[j].seq < UnderWay[i].seq
    BY <2>1 DEF InOrder, Carried, Below
  <2> QED
    BY <2>1 DEF AcksAreExpected
<1> DEFINE P == IF pendingBuffer = 0 THEN <<>> ELSE <<Data(pendingBuffer)>>
<1>1. P \in Seq(Frame) /\ Carried(P) = Held /\ InOrder(P)
  <2>1. CASE pendingBuffer = 0
    BY <2>1, EmptyLine DEF Held
  <2>2. CASE pendingBuffer # 0
    <3>1. /\ Data(pendingBuffer) \in Frame /\ Data(pendingBuffer) # Close
          /\ Data(pendingBuffer).seq = pendingBuffer
      BY <2>2, FrameKinds DEF Data
    <3>2. Carried(<<Data(pendingBuffer)>>) = {pendingBuffer} /\ InOrder(<<Data(pendingBuffer)>>)
      BY <3>1 DEF Carried, InOrder
    <3> QED
      BY <2>2, <3>1, <3>2 DEF Held
  <2> QED
    BY <2>1, <2>2
<1> HIDE DEF P
<1>2. AllBelow(Carried(toSender), Held \cup Carried(toReceiver) \cup Carried(writeBuffer))
  <2>1. AllBelow(Carried(toSender), Pushed \cup Carried(toReceiver) \cup Carried(writeBuffer))
    BY DEF PathInv, LineInv, AckedInv, Chain, AllBelow
  <2>2. Held \subseteq Pushed \/ (receiver = "ack" /\ Held \subseteq {pendingBuffer})
    BY DEF PathInv, HeldInv, Held, Pushed
  <2> QED
    BY <2>1, <2>2 DEF AckOrderInv, AllBelow
<1>3. AllBelow(Held, Carried(toReceiver) \cup Carried(writeBuffer))
  <2>1. Held \subseteq Pushed \cup Delivered
    BY DEF PathInv, HeldInv, AckedInv, Held, Pushed
  <2> QED
    BY <2>1 DEF PathInv, LineInv, Chain, AllBelow
<1>4. AllBelow(Carried(toReceiver), Carried(writeBuffer))
  BY DEF PathInv, LineInv, Chain, AllBelow
<1>5. InOrder(toSender) /\ InOrder(toReceiver) /\ InOrder(writeBuffer)
  BY DEF AckOrderInv, PathInv, LineInv
<1>6. /\ toSender \o P \in Seq(Frame) /\ InOrder(toSender \o P)
      /\ Carried(toSender \o P) = Carried(toSender) \cup Held
  <2>1. AllBelow(Carried(toSender), Carried(P))
    BY <1>1, <1>2 DEF AllBelow
  <2> QED
    BY <1>1, <1>5, <2>1, ConcatFrames
<1>7. /\ toSender \o P \o toReceiver \in Seq(Frame) /\ InOrder(toSender \o P \o toReceiver)
      /\ Carried(toSender \o P \o toReceiver) = Carried(toSender) \cup Held \cup Carried(toReceiver)
  <2>1. AllBelow(Carried(toSender \o P), Carried(toReceiver))
    BY <1>2, <1>3, <1>6 DEF AllBelow
  <2> QED
    BY <1>5, <1>6, <2>1, ConcatFrames
<1>8. /\ toSender \o P \o toReceiver \o writeBuffer \in Seq(Frame)
      /\ InOrder(toSender \o P \o toReceiver \o writeBuffer)
      /\ Carried(toSender \o P \o toReceiver \o writeBuffer)
           = Carried(toSender) \cup Held \cup Carried(toReceiver) \cup Carried(writeBuffer)
  <2>1. AllBelow(Carried(toSender \o P \o toReceiver), Carried(writeBuffer))
    BY <1>2, <1>3, <1>4, <1>7 DEF AllBelow
  <2> QED
    BY <1>5, <1>7, <2>1, ConcatFrames
<1>9. UnderWay = toSender \o P \o toReceiver \o writeBuffer
  BY DEF UnderWay, P
<1> QED
  BY <1>8, <1>9 DEF SharedInv

\* A sender that sends every buffer once awaits every acknowledgement that can
\* arrive, whatever feed() was cancelled: "Unknown Seq" does not happen
\* (sender.rs:209-214).
THEOREM AcksExpected ==
    ASSUME ~Resends
    PROVE  Spec => []AcksAreExpected
<1> DEFINE I == ChannelInv /\ AckOrderInv /\ SharedInv
<1>1. Init => I
  <2>1. Init => AckOrderInv /\ SharedInv
    BY EmptyLine DEF Init, StreamInit, ChannelSenderInit, ChannelReceiverInit, AckOrderInv,
                     SharedInv, Running
  <2> QED
    BY <2>1, ChannelInit
<1>2. I /\ [Next]_vars => I'
  BY ChannelNext, AckOrderNext, SharedNext
<1>3. I => AcksAreExpected
  BY ExpectedShared
<1> QED
  BY <1>1, <1>2, <1>3, PTL DEF Spec

----------------------------------------------------------------------------
(* The channel implements FifoChannel. *)

\* Every step of the channel is a step of FifoChannel, or none.
LEMMA FifoStep ==
    ASSUME ~Resends, ChannelInv, [Next]_vars
    PROVE  [Fifo!Next]_(Fifo!vars)
<1> USE PathTypes DEF ChannelInv
<1>1. Fifo!DeliveredSet = Delivered
  BY DEF Fifo!DeliveredSet, Delivered, Range
<1>2. taken <= accepted /\ taken \in Nat /\ accepted \in Nat
  BY DEF QueueInv, Continues
<1>3. CASE UNCHANGED <<accepted, delivered, lost, confirmed>>
  BY <1>3 DEF Fifo!vars
<1>4. CASE SendData /\ UNCHANGED receiverVars
  BY <1>4 DEF SendData, receiverVars, Fifo!Next, Fifo!Accept
<1>5. CASE FlushDone /\ UNCHANGED receiverVars
  <2>1. CASE Awaited
    <3>1. taken = accepted
      BY <2>1, FlushTakesAll
    <3>2. Range(pendingWrites) = {} /\ waitForAck = {}
      BY <1>5, EmptyLine DEF FlushDone
    <3>3. 1 .. accepted \subseteq Delivered \cup lost
      BY <3>1, <3>2 DEF PathInv, NothingVanishes, Delivered
    <3>4. confirmed' = accepted /\ UNCHANGED <<accepted, delivered, lost>>
      BY <1>5, <2>1 DEF FlushDone, receiverVars
    <3> QED
      BY <1>1, <3>3, <3>4 DEF Fifo!Next, Fifo!Confirm
  <2>2. CASE ~Awaited
    BY <1>3, <1>5, <2>2 DEF FlushDone, receiverVars
  <2> QED
    BY <2>1, <2>2
<1>6. CASE /\ HandleUnknownAck \/ QueueDropped \/ HandleClose \/ FinishTerminate
              \/ ReadEof \/ ConnectionError
           /\ UNCHANGED receiverVars
  <2>1. /\ lost' = lost \cup (Pending \cup waitForAck)
        /\ UNCHANGED <<accepted, delivered, confirmed>>
    BY <1>6 DEF HandleUnknownAck, QueueDropped, HandleClose, FinishTerminate, ReadEof,
       ConnectionError, EndHandler, receiverVars, Pending
  <2>2. Pending \cup waitForAck \subseteq 1 .. accepted
    BY <1>2 DEF PathInv, KnownInv
  <2> QED
    BY <2>1, <2>2 DEF Fifo!Next, Fifo!Drop
<1>7. CASE PushData /\ UNCHANGED channelVars
  <2>1. /\ delivered' = Append(delivered, pendingBuffer) /\ Pushed = {pendingBuffer}
        /\ UNCHANGED <<accepted, lost, confirmed>>
    BY <1>7 DEF PushData, channelVars, Pushed
  <2>2. pendingBuffer \in 1 .. accepted
    BY <1>2, <2>1 DEF PathInv, KnownInv
  <2>3. \A m \in Delivered : m < pendingBuffer
    BY <2>1 DEF PathInv, LineInv, Chain, AllBelow, Below
  <2> QED
    BY <1>1, <2>1, <2>2, <2>3 DEF Fifo!Next, Fifo!Deliver
<1>8. CASE SenderStep /\ UNCHANGED receiverVars
  <2>1. ~SendTwice
    BY DEF SendTwice
  <2>2. CASE \/ SendFlush \/ FlushChannel \/ SendTerminate \/ DropQueue
             \/ HandleData \/ HandleFlush \/ HandleTerminate \/ SendPending \/ FinishFeed
             \/ WriteOut \/ AwaitResponse \/ HandleAck \/ FeedFails
    BY <1>3, <1>8, <2>2 DEF SendFlush, FlushChannel, SendTerminate, DropQueue, HandleData,
       HandleFlush, HandleTerminate, SendPending, FinishFeed, WriteOut, AwaitResponse, HandleAck,
       FeedFails, receiverVars
  <2> QED
    BY <1>4, <1>5, <1>6, <1>8, <2>1, <2>2 DEF SenderStep, AppNext, HandlerNext
<1>9. CASE ReceiverStep /\ UNCHANGED channelVars
  <2>1. CASE \/ ReadData \/ SendAck \/ PushRefused \/ SendClose \/ ReadClose \/ CancelChannel
             \/ Consume \/ CloseQueue \/ ReceiverNetworkError
    BY <1>3, <1>9, <2>1 DEF ReadData, SendAck, PushRefused, SendClose, ReadClose, CancelChannel,
       Consume, CloseQueue, ReceiverNetworkError, channelVars
  <2> QED
    BY <1>7, <1>9, <2>1 DEF ReceiverStep, ChannelReceiverNext
<1>10. CASE OpenConnection \/ StrandChannel
  BY <1>3, <1>10 DEF OpenConnection, StrandChannel
<1>11. CASE UNCHANGED <<channelVars, receiverVars>>
  BY <1>3, <1>11 DEF channelVars, receiverVars
<1> QED
  BY <1>8, <1>9, <1>10, <1>11 DEF Next, vars

\* To a sender that sends every buffer once, the channel is a FifoChannel: in
\* order, at most once, and a confirmed flush covers all that was accepted
\* before it (sender.rs:260-285, receiver.rs:104-125).
THEOREM FifoImplemented ==
    ASSUME ~Resends
    PROVE  Spec => ImplementsFifoChannel
<1>1. Init => Fifo!Init
  BY DEF Init, ChannelSenderInit, ChannelReceiverInit, Fifo!Init
<1>2. ChannelInv /\ [Next]_vars => [Fifo!Next]_(Fifo!vars)
  BY FifoStep
<1> QED
  BY <1>1, <1>2, ChannelInvariant, PTL DEF Spec, ImplementsFifoChannel, Fifo!Spec
=============================================================================
