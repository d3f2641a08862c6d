-------------------------- MODULE GapChannelProofs --------------------------
(***************************************************************************)
(* Proofs about GapChannel, for every set of senders, every number of      *)
(* lines and every max_retransmission_attempts.                            *)
(***************************************************************************)
EXTENDS GapChannel, SequenceTheorems, TLAPS

----------------------------------------------------------------------------
(* Type correctness. *)

\* A step of a sender keeps its types and those of the network.
LEMMA TypeStdin ==
    ASSUME TypeOK, StdinNext
    PROVE  NetworkTypeOK' /\ StdinTypeOK'
<1> USE DEF TypeOK
<1>1. ASSUME NEW p \in Senders, SendLine(p) PROVE NetworkTypeOK' /\ StdinTypeOK'
  <2>1. lineSeq[p] \in Seqs
    BY <1>1, MaxSeqAssumption DEF SendLine, StdinTypeOK, Seqs
  <2>2. toReceiver' \in SUBSET DataMessage
    BY <1>1, <2>1 DEF SendLine, NetworkTypeOK, DataMessage
  <2>3. lineSeq' \in [Senders -> 1 .. (MaxSeq + 1)]
    BY <1>1, MaxSeqAssumption DEF SendLine, StdinTypeOK
  <2> QED BY <1>1, <2>2, <2>3 DEF SendLine, StdinTypeOK, NetworkTypeOK
<1>2. ASSUME NEW p \in Senders, Exit(p) PROVE NetworkTypeOK' /\ StdinTypeOK'
  BY <1>2 DEF Exit, StdinTypeOK, NetworkTypeOK, networkVars
<1>3. ASSUME NEW p \in Senders, NEW m \in toSenders, NEW rest \in ReadDatagram(toSenders, m),
             QueueRequest(p, m, rest)
      PROVE  NetworkTypeOK' /\ StdinTypeOK'
  <2>1. m.seq \in Seqs
    BY <1>3 DEF QueueRequest, NetworkTypeOK, RequestMessage
  <2>2. requests' \in [Senders -> Seq(Seqs)]
    BY <1>3, <2>1, AppendProperties DEF QueueRequest, StdinTypeOK
  <2>3. toSenders' \in SUBSET RequestMessage
    BY <1>3 DEF QueueRequest, ReadDatagram, NetworkTypeOK
  <2> QED BY <1>3, <2>2, <2>3 DEF QueueRequest, StdinTypeOK, NetworkTypeOK
<1>4. ASSUME NEW p \in Senders, AnswerRequest(p) PROVE NetworkTypeOK' /\ StdinTypeOK'
  <2>1. /\ Head(requests[p]) \in Seqs
        /\ Tail(requests[p]) \in Seq(Seqs)
    BY <1>4, HeadTailProperties DEF AnswerRequest, StdinTypeOK
  <2>2. toReceiver' \in SUBSET DataMessage
    BY <1>4, <2>1 DEF AnswerRequest, NetworkTypeOK, DataMessage
  <2>3. requests' \in [Senders -> Seq(Seqs)]
    BY <1>4, <2>1 DEF AnswerRequest, StdinTypeOK
  <2> QED BY <1>4, <2>2, <2>3 DEF AnswerRequest, StdinTypeOK, NetworkTypeOK
<1>5. ASSUME NEW p \in Senders, AnswerPanics(p) PROVE NetworkTypeOK' /\ StdinTypeOK'
  BY <1>5 DEF AnswerPanics, StdinTypeOK, NetworkTypeOK, networkVars
<1> QED BY <1>1, <1>2, <1>3, <1>4, <1>5 DEF StdinNext

\* A step of the receiver keeps its types and those of the network.
LEMMA TypeGap ==
    ASSUME TypeOK, GapNext
    PROVE  NetworkTypeOK' /\ GapTypeOK'
<1> USE DEF TypeOK
<1>a. ASSUME NEW still \in SUBSET Seqs, NEW counted \in [Seqs -> 0 .. MaxAttempts],
             CheckTimeouts(still, counted)
      PROVE  pending' \in SUBSET Seqs /\ timedOut' = {} /\ attempts' \in [Seqs -> 0 .. MaxAttempts]
  <2>1. pending' \in SUBSET Seqs /\ timedOut' = {}
    BY <1>a DEF CheckTimeouts
  <2>2. \A s \in Seqs : attempts'[s] \in 0 .. MaxAttempts
    BY <1>a, MaxAttemptsAssumption DEF CheckTimeouts
  <2> QED BY <1>a, <2>1, <2>2 DEF CheckTimeouts
<1>b. ASSUME NEW m \in toReceiver, NEW sent \in SUBSET Missing(m), RecordData(m, sent)
      PROVE  /\ m.from \in Senders /\ m.seq \in Seqs /\ sent \in SUBSET Seqs
             /\ Plus(Kept(m), sent) \in [Seqs -> 0 .. MaxAttempts]
             /\ receivedSeqs' \in SUBSET Seqs /\ requested' \in [Seqs -> Nat]
             /\ toSenders' \in SUBSET RequestMessage
  <2>1. m.from \in Senders /\ m.seq \in Seqs
    BY DEF NetworkTypeOK, DataMessage
  <2>2. sent \in SUBSET Seqs /\ \A s \in sent : Kept(m)[s] < MaxAttempts
    BY DEF Missing, Gaps
  <2>3. Kept(m) \in [Seqs -> 0 .. MaxAttempts]
    BY <2>1, MaxAttemptsAssumption DEF GapTypeOK, Kept
  <2>4. \A s \in Seqs : Kept(m)[s] + (IF s \in sent THEN 1 ELSE 0) \in 0 .. MaxAttempts
    BY <2>2, <2>3, MaxAttemptsAssumption
  <2>5. Plus(Kept(m), sent) \in [Seqs -> 0 .. MaxAttempts]
    BY <2>4 DEF Plus
  <2>6. requested' \in [Seqs -> Nat]
    BY <1>b DEF RecordData, Plus, GapTypeOK
  <2>7. toSenders' \in SUBSET RequestMessage
    BY <1>b, <2>1, <2>2 DEF RecordData, NetworkTypeOK, RequestMessage
  <2> QED BY <1>b, <2>1, <2>2, <2>5, <2>6, <2>7 DEF RecordData, GapTypeOK
<1>1. ASSUME NEW m \in toReceiver, NEW rest \in ReadDatagram(toReceiver, m), ReceiveData(m, rest)
      PROVE  NetworkTypeOK' /\ GapTypeOK'
  <2>1. /\ RecordData(m, Missing(m)) /\ toReceiver' = rest /\ listening' = listening
        /\ CheckTimeouts((pending \ {m.seq}) \cup Missing(m), Plus(Kept(m), Missing(m)))
    BY <1>1 DEF ReceiveData
  <2>2. /\ Missing(m) \in SUBSET Seqs
        /\ Plus(Kept(m), Missing(m)) \in [Seqs -> 0 .. MaxAttempts]
        /\ receivedSeqs' \in SUBSET Seqs /\ requested' \in [Seqs -> Nat]
        /\ toSenders' \in SUBSET RequestMessage
    BY <2>1, <1>b
  <2>3. pending' \in SUBSET Seqs /\ timedOut' = {} /\ attempts' \in [Seqs -> 0 .. MaxAttempts]
    BY <2>1, <2>2, <1>a DEF GapTypeOK
  <2>4. toReceiver' \in SUBSET DataMessage
    BY <2>1 DEF NetworkTypeOK, ReadDatagram
  <2> QED BY <2>1, <2>2, <2>3, <2>4 DEF GapTypeOK, NetworkTypeOK
<1>2. ASSUME NEW m \in toReceiver, ReceiveUnreadable(m) PROVE NetworkTypeOK' /\ GapTypeOK'
  <2>1. pending' \in SUBSET Seqs /\ timedOut' = {} /\ attempts' \in [Seqs -> 0 .. MaxAttempts]
    BY <1>2, <1>a DEF ReceiveUnreadable, GapTypeOK
  <2> QED BY <1>2, <2>1 DEF ReceiveUnreadable, GapTypeOK, NetworkTypeOK
<1>3. ASSUME NEW m \in toReceiver, ReplyFails(m) PROVE NetworkTypeOK' /\ GapTypeOK'
  <2> PICK sent \in RequestedSoFar(m) :
              /\ RecordData(m, sent) /\ pending' = (pending \ {m.seq}) \cup sent
              /\ attempts' = Plus(Kept(m), sent)
    BY <1>3 DEF ReplyFails
  <2>1. sent \in SUBSET Missing(m)
    BY DEF RequestedSoFar
  <2>2. /\ sent \in SUBSET Seqs /\ attempts' \in [Seqs -> 0 .. MaxAttempts]
        /\ receivedSeqs' \in SUBSET Seqs /\ requested' \in [Seqs -> Nat]
        /\ toSenders' \in SUBSET RequestMessage
    BY <2>1, <1>b
  <2>3. /\ toReceiver' \in SUBSET DataMessage /\ listening' \in BOOLEAN
        /\ pending' \in SUBSET Seqs /\ timedOut' \in SUBSET pending'
    BY <1>3, <2>2 DEF ReplyFails, NetworkTypeOK, GapTypeOK
  <2> QED BY <2>2, <2>3 DEF GapTypeOK, NetworkTypeOK
<1>4. ASSUME NEW s \in Seqs, Expire(s) PROVE NetworkTypeOK' /\ GapTypeOK'
  BY <1>4 DEF Expire, GapTypeOK, NetworkTypeOK, networkVars
<1> QED BY <1>1, <1>2, <1>3, <1>4 DEF GapNext

\* Type correctness of senders and receiver, in every reachable state.
THEOREM TypeCorrect == Spec => []TypeOK
<1>1. Init => TypeOK
  <2> SUFFICES ASSUME Init PROVE TypeOK
    OBVIOUS
  <2>1. NetworkTypeOK /\ GapTypeOK
    BY MaxAttemptsAssumption DEF Init, NetworkInit, GapInit, NetworkTypeOK, GapTypeOK
  <2>2. 1 \in 1 .. (MaxSeq + 1)
    BY MaxSeqAssumption
  <2>3. StdinTypeOK
    BY <2>2 DEF Init, StdinInit, StdinTypeOK
  <2> QED BY <2>1, <2>3 DEF TypeOK
<1>2. TypeOK /\ [Next]_vars => TypeOK'
  <2> SUFFICES ASSUME TypeOK, [Next]_vars PROVE TypeOK'
    OBVIOUS
  <2>1. ASSUME StdinNext, UNCHANGED gapVars PROVE TypeOK'
    BY <2>1, TypeStdin DEF TypeOK, GapTypeOK, gapVars
  <2>2. ASSUME GapNext, UNCHANGED stdinVars PROVE TypeOK'
    BY <2>2, TypeGap DEF TypeOK, StdinTypeOK, stdinVars
  <2>3. CASE Lose
    BY <2>3 DEF Lose, LoseDatagram, TypeOK, NetworkTypeOK, StdinTypeOK, GapTypeOK,
                stdinVars, gapVars
  <2>4. CASE UNCHANGED vars
    BY <2>4 DEF vars, networkVars, stdinVars, gapVars, TypeOK, NetworkTypeOK, StdinTypeOK,
                GapTypeOK
  <2> QED BY <2>1, <2>2, <2>3, <2>4 DEF Next
<1> QED BY <1>1, <1>2, PTL DEF Spec

----------------------------------------------------------------------------
(* How often a number is requested. *)

\* The inductive invariant: what is pending was requested by an odd attempt.
BudgetInv == AttemptParity /\ RequestBudget /\ GapsAreRequested

\* An odd attempt sends a RQST, an even one does not.
LEMMA OddAttempt ==
    ASSUME NEW a \in Nat, NEW b \in Nat
    PROVE  /\ a % 2 = 0 => (a + 1) % 2 = 1 /\ (a + 2) \div 2 = (a + 1) \div 2 + 1
           /\ a % 2 = 1 => (a + 1) % 2 = 0 /\ (a + 2) \div 2 = (a + 1) \div 2
           /\ a > 0 => (a + 1) \div 2 > 0
           /\ a <= b => (a + 1) \div 2 <= (b + 1) \div 2
           /\ (a + 1) \div 2 \in Nat
OBVIOUS

\* Nothing was attempted initially.
LEMMA BudgetInit == Init => BudgetInv
<1> SUFFICES ASSUME Init PROVE BudgetInv
  OBVIOUS
<1>1. (MaxAttempts + 1) \div 2 >= 0 /\ (0 + 1) \div 2 = 0 /\ 0 % 2 = 0
  BY MaxAttemptsAssumption
<1>2. AttemptParity /\ RequestBudget
  BY <1>1, MaxAttemptsAssumption DEF Init, GapInit, AttemptParity, RequestBudget
<1>3. GapsAreRequested
  BY DEF Init, GapInit, GapsAreRequested, Gaps
<1> QED BY <1>2, <1>3 DEF BudgetInv

\* What CheckTimeouts leaves of an attempt count.
LEMMA TimeoutsKeepParity ==
    ASSUME NEW still, NEW counted \in [Seqs -> 0 .. MaxAttempts],
           CheckTimeouts(still, counted), NEW s \in Seqs,
           s \in still => counted[s] % 2 = 1,
           s \notin still => counted[s] % 2 = 0 \/ counted[s] = MaxAttempts
    PROVE  /\ s \in pending' => attempts'[s] % 2 = 1
           /\ s \notin pending' => attempts'[s] % 2 = 0 \/ attempts'[s] = MaxAttempts
           /\ (attempts'[s] + 1) \div 2 = (counted[s] + 1) \div 2
<1> DEFINE late == timedOut \cap still
<1>1. /\ pending' = still \ late
      /\ attempts'[s] = counted[s] + (IF s \in late /\ counted[s] < MaxAttempts THEN 1 ELSE 0)
  BY DEF CheckTimeouts
<1>2. counted[s] \in Nat /\ counted[s] <= MaxAttempts /\ MaxAttempts \in Nat
  BY MaxAttemptsAssumption
<1>3. CASE s \in late /\ counted[s] < MaxAttempts
  <2>1. attempts'[s] = counted[s] + 1 /\ counted[s] % 2 = 1 /\ s \notin pending'
    BY <1>1, <1>2, <1>3
  <2>2. attempts'[s] % 2 = 0 /\ (attempts'[s] + 1) \div 2 = (counted[s] + 1) \div 2
    BY <1>2, <2>1, OddAttempt
  <2> QED BY <1>2, <1>3, <2>1, <2>2
<1>4. CASE ~(s \in late /\ counted[s] < MaxAttempts)
  <2>1. attempts'[s] = counted[s]
    BY <1>1, <1>2, <1>4
  <2> QED BY <1>1, <1>2, <1>4, <2>1
<1> QED BY <1>3, <1>4

\* Recording a number and requesting some of the missing ones keeps the parity of the
\* attempts, and counts a request per attempt.
LEMMA RecordKeepsParity ==
    ASSUME TypeOK, BudgetInv, NEW m \in toReceiver, NEW sent \in SUBSET Missing(m),
           RecordData(m, sent)
    PROVE  /\ Plus(Kept(m), sent) \in [Seqs -> 0 .. MaxAttempts]
           /\ (pending \ {m.seq}) \cup sent \subseteq Gaps(receivedSeqs')
           /\ \A s \in Seqs \ receivedSeqs' :
                 /\ s \in (pending \ {m.seq}) \cup sent => Plus(Kept(m), sent)[s] % 2 = 1
                 /\ s \notin (pending \ {m.seq}) \cup sent =>
                       \/ Plus(Kept(m), sent)[s] % 2 = 0
                       \/ Plus(Kept(m), sent)[s] = MaxAttempts
                 /\ requested'[s] = (Plus(Kept(m), sent)[s] + 1) \div 2
           /\ \A s \in receivedSeqs' : requested'[s] = requested[s]
<1> DEFINE still == (pending \ {m.seq}) \cup sent
           counted == Plus(Kept(m), sent)
<1>1. /\ attempts \in [Seqs -> 0 .. MaxAttempts] /\ requested \in [Seqs -> Nat]
      /\ MaxAttempts \in Nat /\ m.seq \in Seqs /\ receivedSeqs \in SUBSET Seqs
  BY MaxAttemptsAssumption DEF TypeOK, GapTypeOK, NetworkTypeOK, DataMessage
<1>2. receivedSeqs' = receivedSeqs \cup {m.seq} /\ requested' = Plus(requested, sent)
  BY DEF RecordData
<1>3. Kept(m) \in [Seqs -> 0 .. MaxAttempts] /\ \A s \in Seqs : s # m.seq => Kept(m)[s] = attempts[s]
  BY <1>1 DEF Kept
<1>4. \A s \in sent : /\ s \in Gaps(receivedSeqs') /\ s \notin pending
                      /\ Kept(m)[s] < MaxAttempts
  BY <1>2 DEF Missing
<1>5. Gaps(receivedSeqs') \subseteq Seqs \ receivedSeqs'
  BY DEF Gaps
<1>6. counted \in [Seqs -> 0 .. MaxAttempts]
  <2>1. \A s \in Seqs : Kept(m)[s] + (IF s \in sent THEN 1 ELSE 0) \in 0 .. MaxAttempts
    BY <1>1, <1>3, <1>4
  <2> QED BY <2>1 DEF Plus
<1>7. still \subseteq Gaps(receivedSeqs')
  <2>1. pending \subseteq Gaps(receivedSeqs)
    BY DEF BudgetInv, GapsAreRequested
  <2> QED BY <1>2, <1>4, <2>1 DEF Gaps
<1>8. ASSUME NEW s \in Seqs \ receivedSeqs'
      PROVE  /\ s \in still => counted[s] % 2 = 1
             /\ s \notin still => counted[s] % 2 = 0 \/ counted[s] = MaxAttempts
             /\ requested'[s] = (counted[s] + 1) \div 2
  <2>1. /\ s \notin receivedSeqs /\ s # m.seq /\ attempts[s] \in Nat /\ requested[s] \in Nat
        /\ Kept(m)[s] = attempts[s] /\ attempts[s] <= MaxAttempts
    BY <1>1, <1>2, <1>3
  <2>2. /\ s \in pending => attempts[s] % 2 = 1
        /\ s \notin pending => attempts[s] % 2 = 0 \/ attempts[s] = MaxAttempts
        /\ requested[s] = (attempts[s] + 1) \div 2
    BY <2>1 DEF BudgetInv, AttemptParity, RequestBudget
  <2>3. CASE s \in sent
    <3>1. attempts[s] % 2 = 0 /\ s \in still
      BY <1>1, <1>4, <2>1, <2>2, <2>3
    <3>2. counted[s] = attempts[s] + 1 /\ requested'[s] = requested[s] + 1
      BY <1>2, <2>1, <2>3 DEF Plus
    <3>3. (attempts[s] + 1) % 2 = 1 /\ (attempts[s] + 2) \div 2 = (attempts[s] + 1) \div 2 + 1
      BY <2>1, <3>1, OddAttempt
    <3>4. counted[s] + 1 = attempts[s] + 2
      BY <2>1, <3>2
    <3> HIDE DEF counted, still
    <3> QED BY <2>2, <3>1, <3>2, <3>3, <3>4
  <2>4. CASE s \notin sent
    <3>1. counted[s] = attempts[s] /\ requested'[s] = requested[s] /\ (s \in still <=> s \in pending)
      BY <1>2, <2>1, <2>4 DEF Plus
    <3> QED BY <2>2, <3>1
  <2> QED BY <2>3, <2>4
<1>9. ASSUME NEW s \in receivedSeqs' PROVE requested'[s] = requested[s]
  <2>1. s \notin sent /\ s \in Seqs /\ requested[s] \in Nat
    BY <1>1, <1>2, <1>4, <1>5
  <2> QED BY <1>2, <2>1 DEF Plus
<1> QED BY <1>6, <1>7, <1>8, <1>9

\* Every step of the receiver keeps the invariant.
LEMMA BudgetGap ==
    ASSUME TypeOK, BudgetInv, GapNext
    PROVE  BudgetInv'
<1>a. attempts \in [Seqs -> 0 .. MaxAttempts] /\ requested \in [Seqs -> Nat]
      /\ MaxAttempts \in Nat /\ MaxAttempts > 0 /\ pending \in SUBSET Seqs
  BY MaxAttemptsAssumption DEF TypeOK, GapTypeOK
<1>b. attempts' \in [Seqs -> 0 .. MaxAttempts]
  BY TypeGap DEF GapTypeOK
<1>c. ASSUME \A s \in Seqs \ receivedSeqs' : requested'[s] = (attempts'[s] + 1) \div 2,
             \A s \in receivedSeqs' : requested'[s] = requested[s]
      PROVE  RequestBudget'
  <2> SUFFICES ASSUME NEW s \in Seqs
               PROVE  /\ requested'[s] <= (MaxAttempts + 1) \div 2
                      /\ s \notin receivedSeqs' => requested'[s] = (attempts'[s] + 1) \div 2
    BY DEF RequestBudget
  <2>1. CASE s \in receivedSeqs'
    BY <1>c, <2>1 DEF BudgetInv, RequestBudget
  <2>2. CASE s \notin receivedSeqs'
    <3>1. attempts'[s] \in Nat /\ attempts'[s] <= MaxAttempts
      BY <1>a, <1>b
    <3> QED BY <1>a, <1>c, <2>2, <3>1, OddAttempt
  <2> QED BY <2>1, <2>2
<1>1. ASSUME NEW m \in toReceiver, NEW rest \in ReadDatagram(toReceiver, m), ReceiveData(m, rest)
      PROVE  BudgetInv'
  <2> DEFINE still == (pending \ {m.seq}) \cup Missing(m)
             counted == Plus(Kept(m), Missing(m))
  <2>1. RecordData(m, Missing(m)) /\ CheckTimeouts(still, counted) /\ listening' = listening
    BY <1>1 DEF ReceiveData
  <2>2. /\ counted \in [Seqs -> 0 .. MaxAttempts]
        /\ still \subseteq Gaps(receivedSeqs')
        /\ \A s \in Seqs \ receivedSeqs' :
              /\ s \in still => counted[s] % 2 = 1
              /\ s \notin still => counted[s] % 2 = 0 \/ counted[s] = MaxAttempts
              /\ requested'[s] = (counted[s] + 1) \div 2
        /\ \A s \in receivedSeqs' : requested'[s] = requested[s]
    BY <2>1, RecordKeepsParity
  <2>3. ASSUME NEW s \in Gaps(receivedSeqs') PROVE counted[s] > 0
    <3>1. s \in Seqs \ receivedSeqs' /\ receivedSeqs' = receivedSeqs \cup {m.seq}
      BY <2>1 DEF Gaps, RecordData
    <3>2. Kept(m)[s] = attempts[s] /\ attempts[s] \in Nat
      BY <1>a, <3>1 DEF Kept
    <3>3. CASE s \in Missing(m)
      BY <1>a, <3>1, <3>2, <3>3 DEF Plus
    <3>4. CASE s \notin Missing(m)
      <4>1. counted[s] = attempts[s] /\ (s \in pending \/ attempts[s] >= MaxAttempts)
        BY <1>a, <2>3, <3>1, <3>2, <3>4 DEF Plus, Missing
      <4>2. s \in pending => attempts[s] % 2 = 1
        BY <3>1 DEF BudgetInv, AttemptParity
      <4>3. \A n \in Nat : n % 2 = 1 => n > 0
        OBVIOUS
      <4> QED BY <1>a, <3>2, <4>1, <4>2, <4>3
    <3> QED BY <3>3, <3>4
  <2> HIDE DEF counted, still
  <2>4. ASSUME NEW s \in Seqs \ receivedSeqs'
        PROVE  /\ s \in pending' => attempts'[s] % 2 = 1
               /\ s \notin pending' => attempts'[s] % 2 = 0 \/ attempts'[s] = MaxAttempts
               /\ (attempts'[s] + 1) \div 2 = (counted[s] + 1) \div 2
    BY <2>1, <2>2, TimeoutsKeepParity
  <2>5. AttemptParity' /\ RequestBudget'
    BY <1>c, <2>2, <2>4 DEF AttemptParity
  <2>6. GapsAreRequested'
    <3>1. pending' \subseteq Gaps(receivedSeqs')
      BY <2>1, <2>2 DEF CheckTimeouts
    <3>2. ASSUME NEW s \in Gaps(receivedSeqs') PROVE requested'[s] > 0
      <4>1. s \in Seqs \ receivedSeqs' /\ counted[s] \in Nat /\ counted[s] > 0
        BY <2>2, <2>3 DEF Gaps
      <4> QED BY <2>2, <4>1, OddAttempt
    <3> QED BY <3>1, <3>2 DEF GapsAreRequested
  <2> QED BY <2>5, <2>6 DEF BudgetInv
<1>2. ASSUME NEW m \in toReceiver, ReceiveUnreadable(m) PROVE BudgetInv'
  <2>1. CheckTimeouts(pending, attempts) /\ UNCHANGED <<listening, receivedSeqs, requested>>
    BY <1>2 DEF ReceiveUnreadable
  <2>2. ASSUME NEW s \in Seqs \ receivedSeqs
        PROVE  /\ s \in pending' => attempts'[s] % 2 = 1
               /\ s \notin pending' => attempts'[s] % 2 = 0 \/ attempts'[s] = MaxAttempts
               /\ (attempts'[s] + 1) \div 2 = (attempts[s] + 1) \div 2
    BY <1>a, <2>1, TimeoutsKeepParity DEF BudgetInv, AttemptParity
  <2>3. AttemptParity' /\ RequestBudget'
    BY <2>1, <2>2 DEF BudgetInv, AttemptParity, RequestBudget
  <2>4. GapsAreRequested'
    BY <2>1 DEF BudgetInv, GapsAreRequested, CheckTimeouts
  <2> QED BY <2>3, <2>4 DEF BudgetInv
<1>3. ASSUME NEW m \in toReceiver, ReplyFails(m) PROVE BudgetInv'
  <2> PICK sent \in RequestedSoFar(m) :
              /\ RecordData(m, sent) /\ pending' = (pending \ {m.seq}) \cup sent
              /\ attempts' = Plus(Kept(m), sent)
    BY <1>3 DEF ReplyFails
  <2>1. sent \in SUBSET Missing(m) /\ listening' = FALSE
    BY <1>3 DEF RequestedSoFar, ReplyFails
  <2>2. /\ pending' \subseteq Gaps(receivedSeqs')
        /\ \A s \in Seqs \ receivedSeqs' :
              /\ s \in pending' => attempts'[s] % 2 = 1
              /\ s \notin pending' => attempts'[s] % 2 = 0 \/ attempts'[s] = MaxAttempts
              /\ requested'[s] = (attempts'[s] + 1) \div 2
        /\ \A s \in receivedSeqs' : requested'[s] = requested[s]
    BY <2>1, RecordKeepsParity
  <2>3. AttemptParity' /\ RequestBudget'
    BY <1>c, <2>2 DEF AttemptParity
  <2> QED BY <2>1, <2>2, <2>3 DEF BudgetInv, GapsAreRequested
<1>4. ASSUME NEW s \in Seqs, Expire(s) PROVE BudgetInv'
  BY <1>4 DEF Expire, BudgetInv, AttemptParity, RequestBudget, GapsAreRequested
<1> QED BY <1>1, <1>2, <1>3, <1>4 DEF GapNext

\* The inductive invariant holds in every reachable state.
LEMMA BudgetInvariant == Spec => []BudgetInv
<1>1. TypeOK /\ BudgetInv /\ [Next]_vars => BudgetInv'
  <2> SUFFICES ASSUME TypeOK, BudgetInv, [Next]_vars PROVE BudgetInv'
    OBVIOUS
  <2>1. CASE UNCHANGED gapVars
    BY <2>1 DEF gapVars, BudgetInv, AttemptParity, RequestBudget, GapsAreRequested
  <2> QED BY <2>1, BudgetGap DEF Next, Lose, vars
<1> QED BY BudgetInit, TypeCorrect, <1>1, PTL DEF Spec

\* No number is requested more often than half of max_retransmission_attempts.
THEOREM RequestsAreBounded == Spec => []RequestBudget
<1>1. BudgetInv => RequestBudget
  BY DEF BudgetInv
<1> QED BY BudgetInvariant, <1>1, PTL

\* Every gap is requested by the datagram that reveals it.
THEOREM GapsRequested == Spec => []GapsAreRequested
<1>1. BudgetInv => GapsAreRequested
  BY DEF BudgetInv
<1> QED BY BudgetInvariant, <1>1, PTL

\* A number once given up stays given up until it is received: whatever is recorded
\* later leaves it a gap, its request is neither made again nor found to be late, and
\* nothing takes its attempts back.
THEOREM GivenUpForGood == Spec => GiveUpIsFinal
<1> DEFINE Final(s) == GivenUp(s) => /\ requested'[s] = requested[s]
                                     /\ GivenUp(s)' \/ s \in receivedSeqs'
<1>1. TypeOK /\ [Next]_vars => [\A s \in Seqs : Final(s)]_vars
  <2> SUFFICES ASSUME TypeOK, Next, NEW s \in Seqs, GivenUp(s)
               PROVE  requested'[s] = requested[s] /\ (GivenUp(s)' \/ s \in receivedSeqs')
    OBVIOUS
  <2>1. /\ attempts \in [Seqs -> 0 .. MaxAttempts] /\ requested \in [Seqs -> Nat]
        /\ attempts[s] >= MaxAttempts /\ s \notin pending /\ s \in Gaps(receivedSeqs)
        /\ MaxAttempts \in Nat
    BY MaxAttemptsAssumption DEF GivenUp, TypeOK, GapTypeOK
  <2>2. ASSUME receivedSeqs \subseteq receivedSeqs', s \notin pending', attempts'[s] >= MaxAttempts
        PROVE  GivenUp(s)' \/ s \in receivedSeqs'
    BY <2>1, <2>2 DEF GivenUp, Gaps
  <2>3. ASSUME NEW m \in toReceiver, NEW sent \in SUBSET Missing(m), RecordData(m, sent)
        PROVE  /\ s \notin sent /\ requested'[s] = requested[s]
               /\ Plus(Kept(m), sent)[s] = attempts[s] /\ receivedSeqs \subseteq receivedSeqs'
    <3>1. receivedSeqs \subseteq receivedSeqs'
      BY <2>3 DEF RecordData
    <3>2. Kept(m)[s] = attempts[s]
      BY <2>1 DEF Kept
    <3>3. s \notin sent
      BY <2>1, <2>3, <3>2 DEF Missing
    <3> QED BY <2>1, <2>3, <3>1, <3>2, <3>3 DEF RecordData, Plus
  <2>4. ASSUME NEW still, NEW counted, CheckTimeouts(still, counted), s \notin still,
               counted[s] = attempts[s]
        PROVE  s \notin pending' /\ attempts'[s] >= MaxAttempts
    BY <2>1, <2>4 DEF CheckTimeouts
  <2>5. ASSUME NEW m \in toReceiver, NEW rest \in ReadDatagram(toReceiver, m), ReceiveData(m, rest)
        PROVE  requested'[s] = requested[s] /\ (GivenUp(s)' \/ s \in receivedSeqs')
    <3>1. /\ RecordData(m, Missing(m))
          /\ CheckTimeouts((pending \ {m.seq}) \cup Missing(m), Plus(Kept(m), Missing(m)))
      BY <2>5 DEF ReceiveData
    <3>2. /\ s \notin Missing(m) /\ requested'[s] = requested[s]
          /\ Plus(Kept(m), Missing(m))[s] = attempts[s] /\ receivedSeqs \subseteq receivedSeqs'
      BY <2>3, <3>1
    <3>3. s \notin pending' /\ attempts'[s] >= MaxAttempts
      BY <2>1, <2>4, <3>1, <3>2
    <3> QED BY <2>2, <3>2, <3>3
  <2>6. ASSUME NEW m \in toReceiver, ReceiveUnreadable(m)
        PROVE  requested'[s] = requested[s] /\ (GivenUp(s)' \/ s \in receivedSeqs')
    <3>1. CheckTimeouts(pending, attempts) /\ UNCHANGED <<receivedSeqs, requested>>
      BY <2>6 DEF ReceiveUnreadable
    <3> QED BY <2>1, <2>2, <2>4, <3>1
  <2>7. ASSUME NEW m \in toReceiver, ReplyFails(m)
        PROVE  requested'[s] = requested[s] /\ (GivenUp(s)' \/ s \in receivedSeqs')
    <3> PICK sent \in RequestedSoFar(m) :
                /\ RecordData(m, sent) /\ pending' = (pending \ {m.seq}) \cup sent
                /\ attempts' = Plus(Kept(m), sent)
      BY <2>7 DEF ReplyFails
    <3>1. sent \in SUBSET Missing(m)
      BY DEF RequestedSoFar
    <3> QED BY <2>1, <2>2, <2>3, <3>1
  <2>8. ASSUME UNCHANGED <<receivedSeqs, pending, attempts, requested>>
        PROVE  requested'[s] = requested[s] /\ (GivenUp(s)' \/ s \in receivedSeqs')
    BY <2>1, <2>2, <2>8
  <2> QED BY <2>5, <2>6, <2>7, <2>8 DEF Next, GapNext, Expire, Lose, gapVars
<1> QED BY <1>1, TypeCorrect, PTL DEF Spec, GiveUpIsFinal
=============================================================================
