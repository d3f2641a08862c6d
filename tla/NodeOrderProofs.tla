---------------------------- MODULE NodeOrderProofs ----------------------------
(***************************************************************************)
(* The order of buffers in TestNode, for every set of nodes, queries and   *)
(* channels, and every size of the queues: each sink keeps it and sends    *)
(* nothing past a loss, and from node to node it is that of an             *)
(* OrderedStream.                                                          *)
(***************************************************************************)
EXTENDS TestNodeProofs, SequenceTheorems

(***************************************************************************)
(* Sequences of numbers in order, where a 0 stands for no number.          *)
(***************************************************************************)

\* The numbers in s.
Elements(s) == {s[i] : i \in DOMAIN s}

\* No number of s is above one behind it.
Sorted(s) == \A i, j \in DOMAIN s : i < j /\ s[j] # 0 => s[i] <= s[j]

\* No number of S is above one of T.
Under(S, T) == \A x \in S, y \in T : y # 0 => x <= y

\* Without its first number, which is under the others, a sequence stays sorted.
LEMMA SortedTail ==
    ASSUME NEW s \in Seq(Nat), Sorted(s), s # <<>>
    PROVE  /\ Tail(s) \in Seq(Nat) /\ Head(s) \in Nat
           /\ Sorted(Tail(s))
           /\ Under({Head(s)}, Elements(Tail(s)))
           /\ Elements(s) = {Head(s)} \cup Elements(Tail(s))
<1> DEFINE t == Tail(s)
<1>1. t \in Seq(Nat) /\ Len(t) = Len(s) - 1 /\ \A i \in 1 .. Len(t) : t[i] = s[i + 1]
  OBVIOUS
<1>2. Head(s) = s[1] /\ 1 \in DOMAIN s /\ Head(s) \in Nat
  OBVIOUS
<1>3. DOMAIN t = 1 .. Len(t) /\ DOMAIN s = 1 .. Len(s) /\ Len(s) \in Nat
  BY <1>1
<1> HIDE DEF t
<1>a. \A i \in DOMAIN t : i + 1 \in DOMAIN s /\ i + 1 > 1 /\ t[i] = s[i + 1]
  BY <1>1, <1>3
<1>b. \A i, j \in DOMAIN t : i < j => i + 1 < j + 1
  BY <1>3
<1>4. Sorted(t)
  BY <1>a, <1>b DEF Sorted
<1>5. Under({Head(s)}, Elements(t))
  BY <1>2, <1>a DEF Under, Elements, Sorted
<1>6. Elements(s) = {Head(s)} \cup Elements(t)
  <2>1. ASSUME NEW x \in Elements(s) PROVE x = Head(s) \/ x \in Elements(t)
    <3>1. PICK i \in DOMAIN s : x = s[i]
      BY DEF Elements
    <3>2. CASE i = 1
      BY <1>2, <3>1, <3>2
    <3>3. CASE i # 1
      <4>1. i - 1 \in 1 .. Len(t) /\ (i - 1) + 1 = i
        BY <1>1, <1>3, <3>3
      <4>2. i - 1 \in DOMAIN t /\ t[i - 1] = x
        BY <1>1, <1>3, <3>1, <4>1
      <4> QED
        BY <4>2 DEF Elements
    <3> QED
      BY <3>2, <3>3
  <2>2. ASSUME NEW x \in Elements(t) PROVE x \in Elements(s)
    BY <1>a DEF Elements
  <2> QED
    BY <1>2, <2>1, <2>2 DEF Elements
<1> QED
  BY <1>1, <1>2, <1>4, <1>5, <1>6 DEF t

\* A number that all others are under goes to the end of a sorted sequence.
LEMMA SortedAppend ==
    ASSUME NEW s \in Seq(Nat), Sorted(s), NEW x \in Nat, Under(Elements(s), {x})
    PROVE  /\ Append(s, x) \in Seq(Nat)
           /\ Sorted(Append(s, x))
           /\ Elements(Append(s, x)) = Elements(s) \cup {x}
<1> DEFINE t == Append(s, x)
<1>1. /\ t \in Seq(Nat)
      /\ DOMAIN s = 1 .. Len(s) /\ DOMAIN t = 1 .. (Len(s) + 1) /\ Len(s) \in Nat
      /\ t[Len(s) + 1] = x
      /\ \A i \in DOMAIN s : t[i] = s[i]
  OBVIOUS
<1> HIDE DEF t
<1>a. \A i \in DOMAIN t : i \in DOMAIN s \/ i = Len(s) + 1
  BY <1>1
<1>2. ASSUME NEW i \in DOMAIN t, NEW j \in DOMAIN t, i < j, t[j] # 0 PROVE t[i] <= t[j]
  <2>1. i \in DOMAIN s
    BY <1>1, <1>2
  <2>2. CASE j \in DOMAIN s
    BY <1>1, <1>2, <2>1, <2>2 DEF Sorted
  <2>3. CASE j = Len(s) + 1
    BY <1>1, <1>2, <2>1, <2>3 DEF Under, Elements
  <2> QED
    BY <1>a, <2>2, <2>3
<1>3. Elements(t) = Elements(s) \cup {x}
  BY <1>1 DEF Elements
<1> QED
  BY <1>1, <1>2, <1>3 DEF t, Sorted

\* Two sorted sequences, the first under the second, are one sorted sequence.
LEMMA SortedConcat ==
    ASSUME NEW s \in Seq(Nat), NEW t \in Seq(Nat), Sorted(s), Sorted(t),
           Under(Elements(s), Elements(t))
    PROVE  /\ s \o t \in Seq(Nat)
           /\ Sorted(s \o t)
           /\ Elements(s \o t) \subseteq Elements(s) \cup Elements(t)
<1> DEFINE u == s \o t
<1>1. /\ u \in Seq(Nat)
      /\ DOMAIN s = 1 .. Len(s) /\ DOMAIN t = 1 .. Len(t) /\ DOMAIN u = 1 .. (Len(s) + Len(t))
      /\ Len(s) \in Nat /\ Len(t) \in Nat
      /\ \A i \in DOMAIN u : u[i] = IF i <= Len(s) THEN s[i] ELSE t[i - Len(s)]
  OBVIOUS
<1> HIDE DEF u
<1>2. ASSUME NEW i \in DOMAIN u
      PROVE  \/ i \in DOMAIN s /\ u[i] = s[i]
             \/ i - Len(s) \in DOMAIN t /\ u[i] = t[i - Len(s)] /\ i > Len(s)
  BY <1>1
<1>3. Elements(u) \subseteq Elements(s) \cup Elements(t)
  BY <1>2 DEF Elements
<1>4. ASSUME NEW i \in DOMAIN u, NEW j \in DOMAIN u, i < j, u[j] # 0 PROVE u[i] <= u[j]
  <2>1. CASE j \in DOMAIN s /\ u[j] = s[j]
    <3>1. i \in DOMAIN s /\ u[i] = s[i]
      BY <1>1, <1>4, <2>1
    <3> QED
      BY <1>4, <2>1, <3>1 DEF Sorted
  <2>2. CASE j - Len(s) \in DOMAIN t /\ u[j] = t[j - Len(s)] /\ j > Len(s)
    <3>1. CASE i \in DOMAIN s /\ u[i] = s[i]
      BY <1>4, <2>2, <3>1 DEF Under, Elements
    <3>2. CASE i - Len(s) \in DOMAIN t /\ u[i] = t[i - Len(s)] /\ i > Len(s)
      <4>1. i - Len(s) < j - Len(s)
        BY <1>1, <1>4
      <4> QED
        BY <1>4, <2>2, <3>2, <4>1 DEF Sorted
    <3> QED
      BY <1>2, <3>1, <3>2
  <2> QED
    BY <1>2, <2>1, <2>2
<1> QED
  BY <1>1, <1>3, <1>4 DEF u, Sorted

(***************************************************************************)
(* Five of them one behind the other: the numbers of a query in the data   *)
(* queue, in the handler's queue, in the backlog, with the worker, and in  *)
(* the task queue.                                                         *)
(***************************************************************************)

\* Each part is sorted, and under those behind it.
InLine(a, b, c, d, e) ==
    /\ Sorted(a) /\ Sorted(b) /\ Sorted(c) /\ Sorted(d) /\ Sorted(e)
    /\ Under(Elements(a), Elements(b)) /\ Under(Elements(a), Elements(c))
    /\ Under(Elements(a), Elements(d)) /\ Under(Elements(a), Elements(e))
    /\ Under(Elements(b), Elements(c)) /\ Under(Elements(b), Elements(d))
    /\ Under(Elements(b), Elements(e)) /\ Under(Elements(c), Elements(d))
    /\ Under(Elements(c), Elements(e)) /\ Under(Elements(d), Elements(e))

\* The numbers of all parts.
All(a, b, c, d, e) ==
    Elements(a) \cup Elements(b) \cup Elements(c) \cup Elements(d) \cup Elements(e)

\* Five parts that are in line are one sorted sequence.
LEMMA LineSorted ==
    ASSUME NEW a \in Seq(Nat), NEW b \in Seq(Nat), NEW c \in Seq(Nat), NEW d \in Seq(Nat),
           NEW e \in Seq(Nat), InLine(a, b, c, d, e)
    PROVE  Sorted(a \o b \o c \o d \o e)
<1>1. /\ a \o b \in Seq(Nat) /\ Sorted(a \o b)
      /\ Elements(a \o b) \subseteq Elements(a) \cup Elements(b)
  BY SortedConcat DEF InLine
<1>2. Under(Elements(a \o b), Elements(c))
  BY <1>1 DEF InLine, Under
<1>3. /\ a \o b \o c \in Seq(Nat) /\ Sorted(a \o b \o c)
      /\ Elements(a \o b \o c) \subseteq Elements(a) \cup Elements(b) \cup Elements(c)
  <2>1. Sorted(c)
    BY DEF InLine
  <2> QED
    BY <1>1, <1>2, <2>1, SortedConcat
<1>4. Under(Elements(a \o b \o c), Elements(d))
  BY <1>3 DEF InLine, Under
<1>5. /\ a \o b \o c \o d \in Seq(Nat) /\ Sorted(a \o b \o c \o d)
      /\ Elements(a \o b \o c \o d) \subseteq Elements(a) \cup Elements(b) \cup Elements(c) \cup Elements(d)
  <2>1. Sorted(d)
    BY DEF InLine
  <2> QED
    BY <1>3, <1>4, <2>1, SortedConcat
<1>6. Under(Elements(a \o b \o c \o d), Elements(e))
  BY <1>5 DEF InLine, Under
<1> QED
  <2>1. Sorted(e)
    BY DEF InLine
  <2> QED
    BY <1>5, <1>6, <2>1, SortedConcat

\* Numbers that go out of the line, and zeros that come in, leave it in order.
LEMMA LineShrinks ==
    ASSUME NEW a, NEW b, NEW c, NEW d, NEW e, InLine(a, b, c, d, e),
           NEW a1, Sorted(a1), Elements(a1) \subseteq Elements(a) \cup {0},
           NEW b1, Sorted(b1), Elements(b1) \subseteq Elements(b) \cup {0},
           NEW c1, Sorted(c1), Elements(c1) \subseteq Elements(c) \cup {0},
           NEW d1, Sorted(d1), Elements(d1) \subseteq Elements(d) \cup {0},
           NEW e1, Sorted(e1), Elements(e1) \subseteq Elements(e) \cup {0},
           Elements(a) \cup Elements(b) \cup Elements(c) \cup Elements(d) \cup Elements(e) \subseteq Nat
    PROVE  /\ InLine(a1, b1, c1, d1, e1)
           /\ All(a1, b1, c1, d1, e1) \subseteq All(a, b, c, d, e) \cup {0}
<1>1. ASSUME NEW S \in SUBSET Nat, NEW T \in SUBSET Nat, Under(S, T), NEW S1, NEW T1,
             S1 \subseteq S \cup {0}, T1 \subseteq T \cup {0}
      PROVE  Under(S1, T1)
  BY <1>1 DEF Under
<1> DEFINE A == Elements(a)
           B == Elements(b)
           C == Elements(c)
           D == Elements(d)
           E == Elements(e)
           A1 == Elements(a1)
           B1 == Elements(b1)
           C1 == Elements(c1)
           D1 == Elements(d1)
           E1 == Elements(e1)
<1>2. /\ Under(A, B) /\ Under(A, C) /\ Under(A, D) /\ Under(A, E) /\ Under(B, C)
      /\ Under(B, D) /\ Under(B, E) /\ Under(C, D) /\ Under(C, E) /\ Under(D, E)
  BY DEF InLine
<1>3. Under(A1, B1) /\ Under(A1, C1) /\ Under(A1, D1) /\ Under(A1, E1)
  BY <1>1, <1>2
<1>4. Under(B1, C1) /\ Under(B1, D1) /\ Under(B1, E1)
  BY <1>1, <1>2
<1>5. Under(C1, D1) /\ Under(C1, E1) /\ Under(D1, E1)
  BY <1>1, <1>2
<1>6. InLine(a1, b1, c1, d1, e1)
  BY <1>3, <1>4, <1>5 DEF InLine
<1>7. All(a1, b1, c1, d1, e1) \subseteq All(a, b, c, d, e) \cup {0}
  BY DEF All
<1> QED
  BY <1>6, <1>7

\* The first of one sequence goes to the end of the one in front of it.
LEMMA FirstMovesUp ==
    ASSUME NEW a \in Seq(Nat), NEW b \in Seq(Nat), NEW c \in Seq(Nat), NEW d \in Seq(Nat),
           NEW e \in Seq(Nat), InLine(a, b, c, d, e)
    PROVE  /\ b # <<>> => /\ InLine(Append(a, Head(b)), Tail(b), c, d, e)
                          /\ All(Append(a, Head(b)), Tail(b), c, d, e) = All(a, b, c, d, e)
           /\ c # <<>> => /\ InLine(a, Append(b, Head(c)), Tail(c), d, e)
                          /\ All(a, Append(b, Head(c)), Tail(c), d, e) = All(a, b, c, d, e)
<1>1. ASSUME b # <<>>
      PROVE  /\ InLine(Append(a, Head(b)), Tail(b), c, d, e)
             /\ All(Append(a, Head(b)), Tail(b), c, d, e) = All(a, b, c, d, e)
  <2>1. Sorted(a) /\ Sorted(b)
    BY DEF InLine
  <2>2. /\ Head(b) \in Nat /\ Sorted(Tail(b)) /\ Under({Head(b)}, Elements(Tail(b)))
        /\ Elements(b) = {Head(b)} \cup Elements(Tail(b))
    BY <1>1, <2>1, SortedTail
  <2>3. Under(Elements(a), {Head(b)})
    BY <2>2 DEF InLine, Under
  <2>4. /\ Sorted(Append(a, Head(b)))
        /\ Elements(Append(a, Head(b))) = Elements(a) \cup {Head(b)}
    BY <2>1, <2>2, <2>3, SortedAppend
  <2> QED
    BY <2>2, <2>4 DEF InLine, Under, All
<1>2. ASSUME c # <<>>
      PROVE  /\ InLine(a, Append(b, Head(c)), Tail(c), d, e)
             /\ All(a, Append(b, Head(c)), Tail(c), d, e) = All(a, b, c, d, e)
  <2>1. Sorted(b) /\ Sorted(c)
    BY DEF InLine
  <2>2. /\ Head(c) \in Nat /\ Sorted(Tail(c)) /\ Under({Head(c)}, Elements(Tail(c)))
        /\ Elements(c) = {Head(c)} \cup Elements(Tail(c))
    BY <1>2, <2>1, SortedTail
  <2>3. Under(Elements(b), {Head(c)})
    BY <2>2 DEF InLine, Under
  <2>4. /\ Sorted(Append(b, Head(c)))
        /\ Elements(Append(b, Head(c))) = Elements(b) \cup {Head(c)}
    BY <2>1, <2>2, <2>3, SortedAppend
  <2> QED
    BY <2>2, <2>4 DEF InLine, Under, All
<1> QED
  BY <1>1, <1>2

\* The worker's number goes to the end of the backlog, and stays with the worker.
LEMMA WorkerKeepsNumber ==
    ASSUME NEW a \in Seq(Nat), NEW b \in Seq(Nat), NEW c \in Seq(Nat), NEW x \in Nat,
           NEW e \in Seq(Nat), InLine(a, b, c, <<x>>, e)
    PROVE  /\ InLine(a, b, Append(c, x), <<x>>, e)
           /\ All(a, b, Append(c, x), <<x>>, e) = All(a, b, c, <<x>>, e)
<1>1. Elements(<<x>>) = {x} /\ Under({x}, {x})
  BY DEF Elements, Under
<1>2. Sorted(c) /\ Under(Elements(c), {x})
  BY <1>1 DEF InLine
<1>3. Sorted(Append(c, x)) /\ Elements(Append(c, x)) = Elements(c) \cup {x}
  BY <1>2, SortedAppend
<1> QED
  BY <1>1, <1>3 DEF InLine, Under, All

\* The worker's number overtakes nothing on its way into the handler's queue
\* while the backlog is empty.
LEMMA WorkerSendsNumber ==
    ASSUME NEW a \in Seq(Nat), NEW b \in Seq(Nat), NEW x \in Nat, NEW e \in Seq(Nat),
           InLine(a, b, <<>>, <<x>>, e)
    PROVE  /\ InLine(a, Append(b, x), <<>>, <<>>, e)
           /\ All(a, Append(b, x), <<>>, <<>>, e) = All(a, b, <<>>, <<x>>, e)
<1>1. Elements(<<x>>) = {x} /\ Elements(<<>>) = {} /\ Sorted(<<>>)
  BY DEF Elements, Sorted
<1>2. Sorted(b) /\ Under(Elements(b), {x})
  BY <1>1 DEF InLine
<1>3. Sorted(Append(b, x)) /\ Elements(Append(b, x)) = Elements(b) \cup {x}
  BY <1>2, SortedAppend
<1> QED
  BY <1>1, <1>3 DEF InLine, Under, All

\* The worker takes the first number of the task queue.
LEMMA WorkerTakesNumber ==
    ASSUME NEW a \in Seq(Nat), NEW b \in Seq(Nat), NEW c \in Seq(Nat), NEW e \in Seq(Nat),
           InLine(a, b, c, <<>>, e), e # <<>>
    PROVE  /\ InLine(a, b, c, <<Head(e)>>, Tail(e))
           /\ All(a, b, c, <<Head(e)>>, Tail(e)) = All(a, b, c, <<>>, e)
<1>1. Elements(<<Head(e)>>) = {Head(e)} /\ Elements(<<>>) = {} /\ Sorted(<<Head(e)>>)
  BY DEF Elements, Sorted
<1>2. Sorted(e)
  BY DEF InLine
<1>3. /\ Sorted(Tail(e)) /\ Under({Head(e)}, Elements(Tail(e)))
      /\ Elements(e) = {Head(e)} \cup Elements(Tail(e))
  BY <1>2, SortedTail
<1> QED
  BY <1>1, <1>3 DEF InLine, Under, All

\* A number that no other is above goes to the end of the task queue.
LEMMA NumberArrives ==
    ASSUME NEW a, NEW b, NEW c, NEW d, NEW e \in Seq(Nat), InLine(a, b, c, d, e),
           NEW x \in Nat, Under(All(a, b, c, d, e), {x})
    PROVE  /\ InLine(a, b, c, d, Append(e, x))
           /\ All(a, b, c, d, Append(e, x)) = All(a, b, c, d, e) \cup {x}
<1>1. Sorted(e) /\ Under(Elements(e), {x})
  BY DEF InLine, All, Under
<1>2. Sorted(Append(e, x)) /\ Elements(Append(e, x)) = Elements(e) \cup {x}
  BY <1>1, SortedAppend
<1> QED
  BY <1>2 DEF InLine, Under, All

(***************************************************************************)
(* The inductive invariant.                                                *)
(***************************************************************************)

\* The buffers of q are in line, from the data queue back to the task queue.
LineOf(q) ==
    InLine(DataNumbers(q), SentNumbers(q), backlog[q], TaskNumbers(q), QueuedNumbers(q))

\* The numbers in that line.
NumbersOf(q) ==
    All(DataNumbers(q), SentNumbers(q), backlog[q], TaskNumbers(q), QueuedNumbers(q))

\* Query r reads what q writes.
Reads(r, q) == Output[q] # None /\ Input[r] = Output[q]

\* What BuffersInOrder and ImplementsOrderedStream need to be inductive: the
\* numbers of a query are in line and were emitted by its source; what has gone on
\* to its reader or its print sink was too, and is not above what is still in line.
\* A worker sends its number past an empty backlog only, and a query that prints
\* has none.
OrderInv ==
    /\ \A q \in Queries : LineOf(q) /\ NumbersOf(q) \subseteq emitted[q] \cup {0}
    /\ \A q \in Queries : added[q] \subseteq emitted[q] /\ Under(added[q], NumbersOf(q))
    /\ \A q, r \in Queries :
          Reads(r, q) => emitted[r] \subseteq emitted[q] /\ Under(emitted[r], NumbersOf(q))
    /\ \A c \in Channels :
          (\A q \in Queries : Output[q] # c) => data[c] = <<>> /\ control[c] = <<>>
    /\ \A n \in Nodes : Sending(n, "send") => backlog[task[n].query] = <<>>
    /\ \A q \in Queries : Prints(q) => backlog[q] = <<>>

\* The parts of a line are sequences of numbers.
LEMMA LineTypes ==
    ASSUME TypeOK, NEW q \in Queries
    PROVE  /\ DataNumbers(q) \in Seq(Nat)
           /\ SentNumbers(q) \in Seq(Nat)
           /\ backlog[q] \in Seq(Nat)
           /\ TaskNumbers(q) \in Seq(Nat)
           /\ QueuedNumbers(q) \in Seq(Nat)
<1> USE NodeConfigAssumption
<1>1. Numbers \subseteq Nat
  BY DEF Numbers
<1>2. ~Prints(q) => Output[q] \in Channels
  BY DEF Prints
<1>a. \A s \in Seq(Numbers) : s \in Seq(Nat)
  BY <1>1, SeqMonotonic
<1>3. ~Prints(q) => data[Output[q]] \in Seq(Nat)
  BY <1>2, <1>a DEF TypeOK, ChannelTypeOK
<1>4. ASSUME ~Prints(q) PROVE ControlNumbers(Output[q]) \in Seq(Nat)
  <2>1. control[Output[q]] \in Seq(Message)
    BY <1>2, <1>4 DEF TypeOK, ChannelTypeOK
  <2>2. ASSUME NEW m \in Message PROVE m.num \in Nat
    <3>1. m.num \in Numbers \/ m.num = 0
      BY DEF Message
    <3> QED
      BY <3>1 DEF Numbers
  <2> QED
    BY <2>1, <2>2 DEF ControlNumbers
<1>5. backlog[q] \in Seq(Nat)
  BY <1>a DEF TypeOK, SinkTypeOK
<1>6. Executing(q) => task[NodeOf[q]].num \in Nat
  BY <1>1, TaskTypes DEF Executing, TypeOK, EngineTypeOK
<1>7. QueuedNumbers(q) \in Seq(Nat)
  <2>1. taskQueue[NodeOf[q]] \in Seq(Task)
    BY DEF TypeOK, EngineTypeOK, WorkersTypeOK
  <2>2. \A t \in Task : t.num \in Nat
    BY <1>1 DEF Task
  <2> QED
    BY <2>1, <2>2 DEF QueuedNumbers
<1> QED
  BY <1>3, <1>4, <1>5, <1>6, <1>7 DEF DataNumbers, SentNumbers, TaskNumbers

\* All that a step has to keep of a query whose source and sink it leaves alone.
LineKept(q) == LineOf(q)' /\ NumbersOf(q)' \subseteq NumbersOf(q) \cup {0}

\* Steps that hand no number to a source, and to a print sink none that is above
\* what is in line for it.
LEMMA OrderKept ==
    ASSUME TypeOK, OrderInv, UNCHANGED emitted, \A q \in Queries : LineKept(q),
           \A q \in Queries :
              \/ added'[q] = added[q]
              \/ added'[q] \subseteq emitted[q] /\ Under(added'[q], NumbersOf(q)'),
           \A q \in Queries : Prints(q) => backlog'[q] = backlog[q],
           \A c \in Channels :
              (\A q \in Queries : Output[q] # c) => data'[c] = <<>> /\ control'[c] = <<>>,
           \A n \in Nodes : Sending(n, "send")' => backlog'[task'[n].query] = <<>>
    PROVE  OrderInv'
<1>1. \A q \in Queries : LineOf(q)' /\ NumbersOf(q)' \subseteq emitted[q] \cup {0}
  BY DEF OrderInv, LineKept
<1>2. \A q \in Queries : added'[q] \subseteq emitted[q] /\ Under(added'[q], NumbersOf(q)')
  BY DEF OrderInv, LineKept, Under
<1>3. \A q, r \in Queries :
         Reads(r, q) => emitted[r] \subseteq emitted[q] /\ Under(emitted[r], NumbersOf(q)')
  BY DEF OrderInv, LineKept, Under
<1> QED
  BY <1>1, <1>2, <1>3 DEF OrderInv, Reads, Prints

\* A query none of whose buffers move.
LEMMA SameLine ==
    ASSUME OrderInv, NEW q \in Queries,
           DataNumbers(q)' = DataNumbers(q), SentNumbers(q)' = SentNumbers(q),
           backlog'[q] = backlog[q], TaskNumbers(q)' = TaskNumbers(q),
           QueuedNumbers(q)' = QueuedNumbers(q)
    PROVE  LineKept(q)
BY DEF OrderInv, LineKept, LineOf, NumbersOf

\* Nothing moves.
LEMMA NoBufferMoves ==
    ASSUME TypeOK, OrderInv,
           UNCHANGED <<taskQueue, worker, task, data, control, backlog, emitted, added>>
    PROVE  OrderInv'
<1>1. ASSUME NEW q \in Queries PROVE LineKept(q)
  <2>1. Executing(q)' = Executing(q)
    BY DEF Executing
  <2> QED
    BY <2>1, SameLine DEF DataNumbers, SentNumbers, ControlNumbers, TaskNumbers, QueuedNumbers, Prints
<1>2. \A n \in Nodes : Sending(n, "send")' = Sending(n, "send")
  BY DEF Sending
<1> QED
  BY <1>1, <1>2, OrderKept DEF OrderInv

\* Numbers leave the line of q, and zeros come into it.
LEMMA ThinnerLine ==
    ASSUME TypeOK, OrderInv, NEW q \in Queries,
           NEW a, DataNumbers(q)' = a, Sorted(a), Elements(a) \subseteq Elements(DataNumbers(q)) \cup {0},
           NEW b, SentNumbers(q)' = b, Sorted(b), Elements(b) \subseteq Elements(SentNumbers(q)) \cup {0},
           NEW c, backlog'[q] = c, Sorted(c), Elements(c) \subseteq Elements(backlog[q]) \cup {0},
           NEW d, TaskNumbers(q)' = d, Sorted(d), Elements(d) \subseteq Elements(TaskNumbers(q)) \cup {0},
           NEW e, QueuedNumbers(q)' = e, Sorted(e), Elements(e) \subseteq Elements(QueuedNumbers(q)) \cup {0}
    PROVE  LineKept(q)
<1>1. \A s \in Seq(Nat) : Elements(s) \subseteq Nat
  BY DEF Elements
<1>2. /\ Elements(DataNumbers(q)) \subseteq Nat /\ Elements(SentNumbers(q)) \subseteq Nat
      /\ Elements(backlog[q]) \subseteq Nat /\ Elements(TaskNumbers(q)) \subseteq Nat
      /\ Elements(QueuedNumbers(q)) \subseteq Nat
  BY <1>1, LineTypes
<1>3. InLine(DataNumbers(q), SentNumbers(q), backlog[q], TaskNumbers(q), QueuedNumbers(q))
  BY DEF OrderInv, LineOf
<1>4. /\ InLine(a, b, c, d, e)
      /\ All(a, b, c, d, e) \subseteq
            All(DataNumbers(q), SentNumbers(q), backlog[q], TaskNumbers(q), QueuedNumbers(q)) \cup {0}
  BY <1>2, <1>3, LineShrinks
<1> QED
  BY <1>4 DEF LineKept, LineOf, NumbersOf

(***************************************************************************)
(* How the queues of a step look as sequences of numbers.                  *)
(***************************************************************************)

\* The empty sequence is sorted.
LEMMA EmptySorted == Sorted(<<>>) /\ Elements(<<>>) = {}
BY DEF Sorted, Elements

\* A sequence of one number is sorted.
LEMMA SingleSorted ==
    ASSUME NEW x
    PROVE  Sorted(<<x>>) /\ Elements(<<x>>) = {x}
BY DEF Sorted, Elements

\* A message goes to the end of the handler's queue.
LEMMA ControlAppended ==
    ASSUME TypeOK, NEW c \in Channels, NEW m \in Message, Enqueue(c, m)
    PROVE  /\ ControlNumbers(c)' = Append(ControlNumbers(c), m.num)
           /\ \A d \in Channels : d # c => ControlNumbers(d)' = ControlNumbers(d)
<1>1. control[c] \in Seq(Message) /\ control'[c] = Append(control[c], m)
  BY DEF Enqueue, TypeOK, ChannelTypeOK
<1>2. \A d \in Channels : d # c => control'[d] = control[d]
  BY DEF Enqueue, TypeOK, ChannelTypeOK
<1> QED
  BY <1>1, <1>2 DEF ControlNumbers

\* The handler takes the first message.
LEMMA ControlTaken ==
    ASSUME TypeOK, NEW c \in Channels, NEW typ, Take(c, typ)
    PROVE  /\ ControlNumbers(c) # <<>>
           /\ Head(ControlNumbers(c)) = Head(control[c]).num
           /\ ControlNumbers(c)' = Tail(ControlNumbers(c))
           /\ \A d \in Channels : d # c => ControlNumbers(d)' = ControlNumbers(d)
<1>1. control[c] \in Seq(Message) /\ control'[c] = Tail(control[c]) /\ control[c] # <<>>
  BY DEF Take, TypeOK, ChannelTypeOK
<1>2. \A d \in Channels : d # c => control'[d] = control[d]
  BY DEF Take, TypeOK, ChannelTypeOK
<1> QED
  BY <1>1, <1>2 DEF ControlNumbers

\* A task goes to the end of the task queue of its node, which the other queries
\* see as a number that is not theirs.
LEMMA TaskAppended ==
    ASSUME TypeOK, NEW q \in Queries, NEW num \in Numbers, Emit(q, num), NEW r \in Queries
    PROVE  \/ QueuedNumbers(r)' = QueuedNumbers(r)
           \/ QueuedNumbers(r)' = Append(QueuedNumbers(r), IF r = q THEN num ELSE 0)
<1> DEFINE tasks == taskQueue[NodeOf[r]]
           new == [query |-> q, num |-> num]
<1>1. tasks \in Seq(Task)
  BY NodeConfigAssumption DEF TypeOK, EngineTypeOK, WorkersTypeOK
<1>2. taskQueue'[NodeOf[r]] = tasks \/ taskQueue'[NodeOf[r]] = Append(tasks, new)
  BY NodeConfigAssumption DEF Emit, TypeOK, EngineTypeOK, WorkersTypeOK
<1>3. CASE taskQueue'[NodeOf[r]] = tasks
  BY <1>3 DEF QueuedNumbers
<1>4. CASE taskQueue'[NodeOf[r]] = Append(tasks, new)
  <2>1. new \in Task /\ new.query = q /\ new.num = num
    BY DEF Task
  <2> HIDE DEF new
  <2> DEFINE old == QueuedNumbers(r)
             x == IF r = q THEN num ELSE 0
             longer == [i \in 1 .. (Len(tasks) + 1) |-> IF i <= Len(tasks) THEN old[i] ELSE x]
  <2>2. QueuedNumbers(r)' = longer
    BY <1>1, <1>4, <2>1 DEF QueuedNumbers
  <2>3. old \in Seq(Nat) /\ x \in Nat /\ Len(tasks) \in Nat
    BY <1>1, LineTypes DEF Numbers
  <2>4. Len(old) = Len(tasks)
    <3>1. DOMAIN old = 1 .. Len(tasks)
      BY <1>1 DEF QueuedNumbers
    <3> HIDE DEF old
    <3> QED
      BY <2>3, <3>1
  <2>5. Append(old, x) = longer
    <3> HIDE DEF old, x, tasks
    <3>1. /\ DOMAIN Append(old, x) = 1 .. (Len(old) + 1)
          /\ Append(old, x) \in Seq(Nat) /\ Len(Append(old, x)) = Len(old) + 1
          /\ \A i \in 1 .. (Len(old) + 1) : Append(old, x)[i] = IF i <= Len(old) THEN old[i] ELSE x
      BY <2>3
    <3>2. Append(old, x) \in [1 .. (Len(old) + 1) -> Nat]
      BY <3>1, LenProperties
    <3> QED
      BY <2>3, <2>4, <3>1, <3>2
  <2> QED
    BY <2>2, <2>5
<1> QED
  BY <1>2, <1>3, <1>4

\* The worker takes the first task, of its query or of another one.
LEMMA TaskTaken ==
    ASSUME TypeOK, NEW n \in Nodes, PopTask(n), NEW r \in Queries, NodeOf[r] = n
    PROVE  /\ QueuedNumbers(r) # <<>>
           /\ QueuedNumbers(r)' = Tail(QueuedNumbers(r))
           /\ TaskNumbers(r) = <<>>
           /\ TaskNumbers(r)' = IF task'[n].query = r THEN <<Head(QueuedNumbers(r))>> ELSE <<>>
<1>1. taskQueue[n] \in Seq(Task) /\ taskQueue[n] # <<>> /\ taskQueue'[n] = Tail(taskQueue[n])
  BY DEF PopTask, TypeOK, EngineTypeOK, WorkersTypeOK
<1>2. worker[n] = "idle" /\ worker'[n] = "execute" /\ task'[n] = Head(taskQueue[n])
  BY DEF PopTask, TypeOK, EngineTypeOK, WorkersTypeOK
<1>3. QueuedNumbers(r) # <<>> /\ QueuedNumbers(r)' = Tail(QueuedNumbers(r))
  BY <1>1 DEF QueuedNumbers
<1>4. Head(QueuedNumbers(r)) = IF task'[n].query = r THEN task'[n].num ELSE 0
  BY <1>1, <1>2 DEF QueuedNumbers
<1> QED
  BY <1>2, <1>3, <1>4 DEF TaskNumbers, Executing

(***************************************************************************)
(* Steps of a worker.                                                      *)
(***************************************************************************)

\* A worker that executes a task moves buffers of its query only, and out of the
\* query's own channel.
LEMMA WorkerKeepsOrder ==
    ASSUME TypeOK, OrderInv, NEW n \in Nodes, worker[n] \in {"execute", "drain", "send"},
           NEW q, q = task[n].query,
           \A m \in Nodes : m # n => worker'[m] = worker[m] /\ task'[m] = task[m],
           worker'[n] \in {"execute", "drain", "send"} => task'[n] = task[n],
           UNCHANGED <<taskQueue, data, emitted>>,
           \A r \in Queries : r # q => backlog'[r] = backlog[r] /\ added'[r] = added[r],
           \/ added'[q] = added[q]
           \/ added'[q] \subseteq emitted[q] /\ Under(added'[q], NumbersOf(q)'),
           Prints(q) => backlog'[q] = backlog[q],
           \A c \in Channels : c # Output[q] => control'[c] = control[c],
           LineKept(q),
           Sending(n, "send")' => backlog'[q] = <<>>
    PROVE  OrderInv'
<1> USE NodeConfigAssumption
<1>1. q \in Queries /\ NodeOf[q] = n
  BY TaskTypes DEF TypeOK, EngineTypeOK
<1>2. ASSUME NEW r \in Queries, r # q PROVE LineKept(r)
  <2>1. TaskNumbers(r)' = TaskNumbers(r)
    <3>1. CASE NodeOf[r] = n
      BY <1>1, <1>2, <3>1 DEF TaskNumbers, Executing
    <3>2. CASE NodeOf[r] # n
      BY <3>2 DEF TaskNumbers, Executing
    <3> QED
      BY <3>1, <3>2
  <2>2. SentNumbers(r)' = SentNumbers(r)
    <3>1. CASE Prints(r)
      BY <3>1 DEF SentNumbers, Prints
    <3>2. CASE ~Prints(r)
      <4>1. Output[r] \in Channels /\ Output[r] # Output[q]
        BY <1>1, <1>2, <3>2, OneSinkPerChannel DEF Prints
      <4> QED
        BY <4>1 DEF SentNumbers, ControlNumbers, Prints
    <3> QED
      BY <3>1, <3>2
  <2>3. DataNumbers(r)' = DataNumbers(r) /\ QueuedNumbers(r)' = QueuedNumbers(r)
    BY DEF DataNumbers, QueuedNumbers, Prints
  <2> QED
    BY <1>2, <2>1, <2>2, <2>3, SameLine
<1>3. \A r \in Queries : LineKept(r)
  BY <1>2
<1>4. \A c \in Channels :
         (\A r \in Queries : Output[r] # c) => data'[c] = <<>> /\ control'[c] = <<>>
  BY <1>1 DEF OrderInv
<1>5. ASSUME NEW m \in Nodes, Sending(m, "send")' PROVE backlog'[task'[m].query] = <<>>
  <2>1. CASE m = n
    BY <1>5, <2>1 DEF Sending
  <2>2. CASE m # n
    <3>1. Sending(m, "send") /\ task'[m] = task[m]
      BY <1>5, <2>2 DEF Sending, Prints
    <3>2. task[m].query \in Queries /\ NodeOf[task[m].query] = m
      BY <3>1, TaskTypes DEF Sending, TypeOK, EngineTypeOK
    <3> QED
      BY <1>1, <2>2, <3>1, <3>2 DEF OrderInv
  <2> QED
    BY <2>1, <2>2
<1> QED
  BY <1>3, <1>4, <1>5, OrderKept

\* What the end of a task does to the worker.
LEMMA FinishMoves ==
    ASSUME TypeOK, NEW n \in Nodes, FinishTask(n)
    PROVE  /\ \A m \in Nodes : m # n => worker'[m] = worker[m] /\ task'[m] = task[m]
           /\ worker'[n] \in {"idle", "stop"}
           /\ \A q \in Queries : NodeOf[q] = n => TaskNumbers(q)' = <<>>
<1>1. /\ \A m \in Nodes : m # n => worker'[m] = worker[m] /\ task'[m] = task[m]
      /\ worker'[n] \in {"idle", "stop"}
  BY DEF FinishTask, GoIdle, TypeOK, EngineTypeOK, WorkersTypeOK
<1> QED
  BY <1>1 DEF TaskNumbers, Executing

\* The line of the query whose task is executed.
LEMMA WorkersLine ==
    ASSUME TypeOK, OrderInv, NEW n \in Nodes, NEW state, Sending(n, state),
           state \in {"execute", "drain", "send"}, NEW q, q = task[n].query
    PROVE  /\ q \in Queries /\ NodeOf[q] = n /\ Output[q] \in Channels
           /\ worker[n] \in {"execute", "drain", "send"}
           /\ task[n].num \in Nat /\ task[n].num # 0
           /\ TaskNumbers(q) = <<task[n].num>>
           /\ DataNumbers(q) = data[Output[q]]
           /\ SentNumbers(q) = ControlNumbers(Output[q])
           /\ InLine(DataNumbers(q), SentNumbers(q), backlog[q], <<task[n].num>>, QueuedNumbers(q))
<1>1. worker[n] \in {"execute", "drain", "send"} /\ ~Prints(q)
  BY DEF Sending
<1>2. q \in Queries /\ NodeOf[q] = n /\ task[n].num \in Numbers
  BY <1>1, TaskTypes DEF TypeOK, EngineTypeOK
<1>3. TaskNumbers(q) = <<task[n].num>>
  BY <1>1, <1>2 DEF TaskNumbers, Executing
<1>4. Output[q] \in Channels
  BY <1>1, <1>2, NodeConfigAssumption DEF Prints
<1>5. InLine(DataNumbers(q), SentNumbers(q), backlog[q], TaskNumbers(q), QueuedNumbers(q))
  BY <1>2 DEF OrderInv, LineOf
<1> QED
  BY <1>1, <1>2, <1>3, <1>4, <1>5 DEF Numbers, DataNumbers, SentNumbers

\* The task ends, and its buffer with it; its query may be one that prints.
LEMMA TaskLeavesLine ==
    ASSUME TypeOK, OrderInv, NEW n \in Nodes, worker[n] \in {"execute", "drain", "send"},
           NEW q, q = task[n].query,
           worker'[n] \notin {"execute", "drain", "send"},
           UNCHANGED <<taskQueue, data, control>>,
           \/ backlog'[q] = backlog[q]
           \/ backlog[q] # <<>> /\ backlog'[q] = Tail(backlog[q])
    PROVE  LineKept(q)
<1>1. q \in Queries /\ NodeOf[q] = n
  BY TaskTypes DEF TypeOK, EngineTypeOK
<1>2. TaskNumbers(q)' = <<>>
  BY <1>1 DEF TaskNumbers, Executing
<1>3. /\ DataNumbers(q)' = DataNumbers(q) /\ SentNumbers(q)' = SentNumbers(q)
      /\ QueuedNumbers(q)' = QueuedNumbers(q)
  BY DEF DataNumbers, SentNumbers, ControlNumbers, QueuedNumbers, Prints
<1>4. /\ Sorted(DataNumbers(q)) /\ Sorted(SentNumbers(q)) /\ Sorted(backlog[q])
      /\ Sorted(QueuedNumbers(q))
  BY <1>1 DEF OrderInv, LineOf, InLine
<1>5. Sorted(backlog'[q]) /\ Elements(backlog'[q]) \subseteq Elements(backlog[q])
  BY <1>1, <1>4, LineTypes, SortedTail
<1> QED
  BY <1>1, <1>2, <1>3, <1>4, <1>5, EmptySorted, ThinnerLine

\* NetworkSink::execute.
LEMMA SinkKeepsOrder ==
    ASSUME TypeOK, OrderInv, NEW n \in Nodes, SinkExecutes(n), UNCHANGED <<sourceVars, printVars>>
    PROVE  OrderInv'
<1>q. PICK q, x, c : q = task[n].query /\ x = task[n].num /\ c = Output[q]
  OBVIOUS
<1>a. UNCHANGED <<emitted, added>>
  BY DEF sourceVars, printVars
<1>b. ASSUME NEW s, backlog' = [backlog EXCEPT ![q] = s]
      PROVE  \A r \in Queries : r # q => backlog'[r] = backlog[r]
  BY <1>b DEF TypeOK, SinkTypeOK
<1>c. ASSUME NEW s, backlog' = [backlog EXCEPT ![q] = s], q \in Queries
      PROVE  backlog'[q] = s
  BY <1>c DEF TypeOK, SinkTypeOK
<1>d. ASSUME NEW s, worker' = [worker EXCEPT ![n] = s]
      PROVE  worker'[n] = s /\ \A m \in Nodes : m # n => worker'[m] = worker[m]
  BY <1>d DEF TypeOK, EngineTypeOK, WorkersTypeOK
<1>e. ~(worker'[n] = "send") => ~Sending(n, "send")'
  BY DEF Sending
<1>f. ~Prints(q)
  BY <1>q DEF SinkExecutes, ExecuteClosed, DrainFull, SendClosed, Execute, Drain, DrainPanics,
              SendBuffer, SendFull, Sending
<1>1. ASSUME ExecuteClosed(n) \/ DrainFull(n) \/ SendClosed(n) PROVE OrderInv'
  <2>1. /\ worker[n] \in {"execute", "drain", "send"} /\ FinishTask(n)
        /\ UNCHANGED <<taskQueue, data, control, backlog>>
    BY <1>1 DEF ExecuteClosed, DrainFull, SendClosed, Sending, channelVars, sinkVars
  <2>2. LineKept(q)
    BY <1>q, <2>1, FinishMoves, TaskLeavesLine
  <2> QED
    BY <1>q, <1>f, <1>a, <1>e, <2>1, <2>2, FinishMoves, WorkerKeepsOrder
<1>2. ASSUME Execute(n) PROVE OrderInv'
  <2>1. /\ q \in Queries /\ NodeOf[q] = n
        /\ worker[n] \in {"execute", "drain", "send"} /\ x \in Nat
        /\ TaskNumbers(q) = <<x>>
        /\ InLine(DataNumbers(q), SentNumbers(q), backlog[q], <<x>>, QueuedNumbers(q))
    BY <1>q, <1>2, WorkersLine DEF Execute
  <2>2. /\ UNCHANGED <<taskQueue, task, data, control>>
        /\ \/ worker' = [worker EXCEPT ![n] = "send"] /\ backlog[q] = <<>> /\ backlog' = backlog
           \/ worker' = [worker EXCEPT ![n] = "drain"] /\ backlog' = [backlog EXCEPT ![q] = Append(backlog[q], x)]
    BY <1>q, <1>2 DEF Execute
  <2>3. TaskNumbers(q)' = TaskNumbers(q)
    BY <1>q, <1>d, <2>1, <2>2 DEF TaskNumbers, Executing
  <2>4. /\ DataNumbers(q)' = DataNumbers(q) /\ SentNumbers(q)' = SentNumbers(q)
        /\ QueuedNumbers(q)' = QueuedNumbers(q)
    BY <2>2 DEF DataNumbers, SentNumbers, ControlNumbers, QueuedNumbers, Prints
  <2>5. LineKept(q)
    <3>1. CASE backlog' = backlog
      BY <2>1, <2>3, <2>4, <3>1, SameLine
    <3>2. CASE backlog' = [backlog EXCEPT ![q] = Append(backlog[q], x)]
      <4>1. backlog'[q] = Append(backlog[q], x)
        BY <1>c, <2>1, <3>2
      <4>2. /\ InLine(DataNumbers(q), SentNumbers(q), Append(backlog[q], x), <<x>>, QueuedNumbers(q))
            /\ All(DataNumbers(q), SentNumbers(q), Append(backlog[q], x), <<x>>, QueuedNumbers(q))
                  = All(DataNumbers(q), SentNumbers(q), backlog[q], <<x>>, QueuedNumbers(q))
        BY <2>1, LineTypes, WorkerKeepsNumber
      <4> QED
        BY <2>1, <2>3, <2>4, <4>1, <4>2 DEF LineKept, LineOf, NumbersOf
    <3> QED
      BY <2>2, <3>1, <3>2
  <2>6. /\ \A m \in Nodes : m # n => worker'[m] = worker[m] /\ task'[m] = task[m]
        /\ \A r \in Queries : r # q => backlog'[r] = backlog[r]
        /\ worker'[n] = "send" => backlog'[q] = <<>>
    BY <1>b, <1>d, <2>2
  <2> QED
    BY <1>q, <1>f, <1>a, <1>e, <2>1, <2>2, <2>5, <2>6, WorkerKeepsOrder
<1>3. ASSUME Drain(n) PROVE OrderInv'
  <2>1. /\ q \in Queries /\ NodeOf[q] = n /\ c \in Channels
        /\ worker[n] \in {"execute", "drain", "send"} /\ x \in Nat
        /\ TaskNumbers(q) = <<x>> /\ DataNumbers(q) = data[c] /\ SentNumbers(q) = ControlNumbers(c)
        /\ InLine(DataNumbers(q), SentNumbers(q), backlog[q], <<x>>, QueuedNumbers(q))
    BY <1>q, <1>3, WorkersLine DEF Drain
  <2>2. /\ UNCHANGED <<taskQueue, task, data>> /\ backlog[q] # <<>>
        /\ Enqueue(c, Data(Head(backlog[q])))
        /\ backlog' = [backlog EXCEPT ![q] = Tail(backlog[q])]
        /\ worker' = [worker EXCEPT ![n] = IF Tail(backlog[q]) = <<>> THEN "send" ELSE "drain"]
    BY <1>q, <1>3 DEF Drain, Enqueue
  <2>3. Data(Head(backlog[q])) \in Message /\ Data(Head(backlog[q])).num = Head(backlog[q])
    <3>1. backlog[q] \in Seq(Numbers)
      BY <2>1 DEF TypeOK, SinkTypeOK
    <3>2. Head(backlog[q]) \in Numbers
      BY <2>2, <3>1
    <3> QED
      BY <3>2 DEF Data, Message
  <2>4. ControlNumbers(c)' = Append(ControlNumbers(c), Head(backlog[q]))
    BY <2>1, <2>2, <2>3, ControlAppended
  <2>5. TaskNumbers(q)' = TaskNumbers(q)
    BY <1>q, <1>d, <2>1, <2>2 DEF TaskNumbers, Executing
  <2>6. /\ DataNumbers(q)' = DataNumbers(q) /\ QueuedNumbers(q)' = QueuedNumbers(q)
        /\ SentNumbers(q)' = Append(SentNumbers(q), Head(backlog[q]))
        /\ backlog'[q] = Tail(backlog[q])
    <3>1. ~Prints(q)
      BY <1>q, <1>3 DEF Drain, Sending
    <3> QED
      BY <1>q, <1>c, <2>1, <2>2, <2>4, <3>1 DEF DataNumbers, SentNumbers, QueuedNumbers, Prints
  <2>a. /\ InLine(DataNumbers(q), Append(SentNumbers(q), Head(backlog[q])), Tail(backlog[q]),
                  TaskNumbers(q), QueuedNumbers(q))
        /\ All(DataNumbers(q), Append(SentNumbers(q), Head(backlog[q])), Tail(backlog[q]),
               TaskNumbers(q), QueuedNumbers(q)) = NumbersOf(q)
    <3>1. InLine(DataNumbers(q), SentNumbers(q), backlog[q], TaskNumbers(q), QueuedNumbers(q))
      BY <2>1 DEF OrderInv, LineOf
    <3>2. q \in Queries /\ backlog[q] # <<>>
      BY <2>1, <2>2
    <3> QED
      BY <3>1, <3>2, LineTypes, FirstMovesUp DEF NumbersOf
  <2>7. LineKept(q)
    BY <2>5, <2>6, <2>a DEF LineKept, LineOf, NumbersOf
  <2>8. /\ \A m \in Nodes : m # n => worker'[m] = worker[m] /\ task'[m] = task[m]
        /\ \A r \in Queries : r # q => backlog'[r] = backlog[r]
        /\ worker'[n] = "send" => backlog'[q] = <<>>
        /\ \A d \in Channels : d # Output[q] => control'[d] = control[d]
    <3>1. \A d \in Channels : d # c => control'[d] = control[d]
      BY <2>2 DEF Enqueue, TypeOK, ChannelTypeOK
    <3>2. /\ \A m \in Nodes : m # n => worker'[m] = worker[m] /\ task'[m] = task[m]
          /\ worker'[n] = IF Tail(backlog[q]) = <<>> THEN "send" ELSE "drain"
      BY <1>d, <2>2
    <3>3. \A r \in Queries : r # q => backlog'[r] = backlog[r]
      BY <1>b, <2>2
    <3> QED
      BY <1>q, <2>6, <3>1, <3>2, <3>3
  <2> QED
    BY <1>q, <1>f, <1>a, <1>e, <2>1, <2>2, <2>7, <2>8, WorkerKeepsOrder
<1>4. ASSUME DrainPanics(n) PROVE OrderInv'
  <2>1. /\ worker[n] \in {"execute", "drain", "send"}
        /\ UNCHANGED <<taskQueue, task, data, control>> /\ backlog[q] # <<>>
        /\ backlog' = [backlog EXCEPT ![q] = Tail(backlog[q])]
        /\ worker' = [worker EXCEPT ![n] = "dead"]
    BY <1>q, <1>4 DEF DrainPanics, Sending, channelVars
  <2>2. q \in Queries
    BY <1>q, <2>1, TaskTypes DEF TypeOK, EngineTypeOK
  <2>3. /\ worker'[n] = "dead"
        /\ \A m \in Nodes : m # n => worker'[m] = worker[m] /\ task'[m] = task[m]
    BY <1>d, <2>1
  <2>4. /\ backlog'[q] = Tail(backlog[q])
        /\ \A r \in Queries : r # q => backlog'[r] = backlog[r]
    BY <1>b, <1>c, <2>1, <2>2
  <2>5. LineKept(q)
    BY <1>q, <2>1, <2>3, <2>4, TaskLeavesLine
  <2> QED
    BY <1>q, <1>f, <1>a, <1>e, <2>1, <2>3, <2>4, <2>5, WorkerKeepsOrder
<1>5. ASSUME SendBuffer(n) PROVE OrderInv'
  <2>1. /\ q \in Queries /\ NodeOf[q] = n /\ c \in Channels
        /\ worker[n] \in {"execute", "drain", "send"} /\ x \in Nat
        /\ TaskNumbers(q) = <<x>> /\ DataNumbers(q) = data[c] /\ SentNumbers(q) = ControlNumbers(c)
        /\ InLine(DataNumbers(q), SentNumbers(q), backlog[q], <<x>>, QueuedNumbers(q))
    BY <1>q, <1>5, WorkersLine DEF SendBuffer
  <2>2. /\ UNCHANGED <<taskQueue, data, backlog>> /\ FinishTask(n) /\ Enqueue(c, Data(x))
    BY <1>q, <1>5 DEF SendBuffer, Enqueue
  <2>3. backlog[q] = <<>> /\ ~Prints(q)
    BY <1>q, <1>5 DEF SendBuffer, OrderInv, Sending
  <2>4. Data(x) \in Message /\ Data(x).num = x
    BY <1>q, <2>1, TaskTypes DEF TypeOK, EngineTypeOK, Data, Message
  <2>5. ControlNumbers(c)' = Append(ControlNumbers(c), x)
    BY <2>1, <2>2, <2>4, ControlAppended
  <2>6. /\ DataNumbers(q)' = DataNumbers(q) /\ QueuedNumbers(q)' = QueuedNumbers(q)
        /\ SentNumbers(q)' = Append(SentNumbers(q), x)
        /\ backlog'[q] = <<>>
    BY <1>q, <2>1, <2>2, <2>3, <2>5 DEF DataNumbers, SentNumbers, QueuedNumbers, Prints
  <2>7. TaskNumbers(q)' = <<>>
    BY <2>1, <2>2, FinishMoves
  <2>8. LineKept(q)
    BY <2>1, <2>3, <2>6, <2>7, LineTypes, WorkerSendsNumber DEF LineKept, LineOf, NumbersOf
  <2>9. \A d \in Channels : d # Output[q] => control'[d] = control[d]
    BY <1>q, <2>2 DEF Enqueue, TypeOK, ChannelTypeOK
  <2> QED
    BY <1>q, <1>f, <1>a, <1>e, <2>1, <2>2, <2>8, <2>9, FinishMoves, WorkerKeepsOrder
<1>6. ASSUME SendFull(n) PROVE OrderInv'
  <2>1. /\ q \in Queries /\ NodeOf[q] = n
        /\ worker[n] \in {"execute", "drain", "send"} /\ x \in Nat
        /\ TaskNumbers(q) = <<x>>
        /\ InLine(DataNumbers(q), SentNumbers(q), backlog[q], <<x>>, QueuedNumbers(q))
    BY <1>q, <1>6, WorkersLine DEF SendFull
  <2>2. /\ UNCHANGED <<taskQueue, data, control>> /\ FinishTask(n)
        /\ backlog' = [backlog EXCEPT ![q] = Append(backlog[q], x)]
    BY <1>q, <1>6 DEF SendFull, channelVars
  <2>3. /\ DataNumbers(q)' = DataNumbers(q) /\ SentNumbers(q)' = SentNumbers(q)
        /\ QueuedNumbers(q)' = QueuedNumbers(q) /\ TaskNumbers(q)' = <<>>
        /\ backlog'[q] = Append(backlog[q], x)
    <3>1. TaskNumbers(q)' = <<>>
      BY <2>1, <2>2, FinishMoves
    <3> QED
      BY <1>c, <2>1, <2>2, <3>1 DEF DataNumbers, SentNumbers, ControlNumbers, QueuedNumbers, Prints
  <2>4. /\ InLine(DataNumbers(q), SentNumbers(q), Append(backlog[q], x), <<x>>, QueuedNumbers(q))
        /\ All(DataNumbers(q), SentNumbers(q), Append(backlog[q], x), <<x>>, QueuedNumbers(q))
              = All(DataNumbers(q), SentNumbers(q), backlog[q], <<x>>, QueuedNumbers(q))
    BY <2>1, LineTypes, WorkerKeepsNumber
  <2>5. InLine(DataNumbers(q), SentNumbers(q), Append(backlog[q], x), <<>>, QueuedNumbers(q))
    BY <2>4, EmptySorted DEF InLine, Under
  <2>6. All(DataNumbers(q), SentNumbers(q), Append(backlog[q], x), <<>>, QueuedNumbers(q))
           \subseteq All(DataNumbers(q), SentNumbers(q), backlog[q], <<x>>, QueuedNumbers(q))
    BY <2>4, EmptySorted DEF All
  <2>7. LineKept(q)
    BY <2>1, <2>3, <2>5, <2>6 DEF LineKept, LineOf, NumbersOf
  <2> QED
    BY <1>q, <1>f, <1>a, <1>b, <1>e, <2>1, <2>2, <2>7, FinishMoves, WorkerKeepsOrder
<1> QED
  BY <1>1, <1>2, <1>3, <1>4, <1>5, <1>6 DEF SinkExecutes

(***************************************************************************)
(* Steps of a channel, of a sink's stop, and of a source.                  *)
(***************************************************************************)

\* A query whose buffers move in its channel, which no other query writes.
LEMMA ChannelKeepsOrder ==
    ASSUME TypeOK, OrderInv, NEW c \in Channels,
           UNCHANGED <<taskQueue, worker, task, backlog, emitted, added>>,
           \A d \in Channels : d # c => control'[d] = control[d] /\ data'[d] = data[d],
           \A q \in Queries : Output[q] = c => LineKept(q),
           (\A q \in Queries : Output[q] # c) => data'[c] = <<>> /\ control'[c] = <<>>
    PROVE  OrderInv'
<1>1. ASSUME NEW q \in Queries, Output[q] # c PROVE LineKept(q)
  <2>1. Executing(q)' = Executing(q)
    BY DEF Executing
  <2>2. ~Prints(q) => Output[q] \in Channels
    BY NodeConfigAssumption DEF Prints
  <2> QED
    BY <1>1, <2>1, <2>2, SameLine
       DEF DataNumbers, SentNumbers, ControlNumbers, TaskNumbers, QueuedNumbers, Prints
<1>2. \A q \in Queries : LineKept(q)
  BY <1>1
<1>3. \A d \in Channels :
         (\A q \in Queries : Output[q] # d) => data'[d] = <<>> /\ control'[d] = <<>>
  BY DEF OrderInv
<1>4. \A n \in Nodes : Sending(n, "send")' => backlog'[task'[n].query] = <<>>
  BY DEF OrderInv, Sending
<1> QED
  BY <1>2, <1>3, <1>4, OrderKept

\* The parts of the line of a query that writes c.
LEMMA ChannelLine ==
    ASSUME NEW c \in Channels, NEW q \in Queries, Output[q] = c,
           UNCHANGED <<taskQueue, worker, task, backlog>>
    PROVE  /\ DataNumbers(q) = data[c] /\ SentNumbers(q) = ControlNumbers(c)
           /\ DataNumbers(q)' = data'[c] /\ SentNumbers(q)' = ControlNumbers(c)'
           /\ TaskNumbers(q)' = TaskNumbers(q) /\ QueuedNumbers(q)' = QueuedNumbers(q)
<1>1. ~Prints(q)
  BY NodeConfigAssumption DEF Prints
<1> QED
  BY <1>1 DEF DataNumbers, SentNumbers, TaskNumbers, Executing, QueuedNumbers, Prints

\* A sink's stop puts a message that is no buffer into the handler's queue.
LEMMA StopKeepsOrder ==
    ASSUME TypeOK, OrderInv, NEW c \in Channels, NEW m \in Message, m.num = 0, Enqueue(c, m),
           UNCHANGED <<taskQueue, worker, task, backlog, emitted, added>>,
           NEW w \in Queries, Output[w] = c
    PROVE  OrderInv'
<1>1. ASSUME NEW q \in Queries, Output[q] = c PROVE LineKept(q)
  <2>1. SentNumbers(q)' = Append(SentNumbers(q), 0)
    BY <1>1, ChannelLine, ControlAppended
  <2>2. /\ Sorted(DataNumbers(q)) /\ Sorted(SentNumbers(q)) /\ Sorted(backlog[q])
        /\ Sorted(TaskNumbers(q)) /\ Sorted(QueuedNumbers(q))
    BY DEF OrderInv, LineOf, InLine
  <2>3. Under(Elements(SentNumbers(q)), {0})
    BY DEF Under
  <2>4. /\ Sorted(Append(SentNumbers(q), 0))
        /\ Elements(Append(SentNumbers(q), 0)) = Elements(SentNumbers(q)) \cup {0}
    <3>1. SentNumbers(q) \in Seq(Nat) /\ Sorted(SentNumbers(q)) /\ 0 \in Nat
      BY <2>2, LineTypes
    <3> QED
      BY <2>3, <3>1, SortedAppend
  <2>5. /\ DataNumbers(q)' = DataNumbers(q) /\ TaskNumbers(q)' = TaskNumbers(q)
        /\ QueuedNumbers(q)' = QueuedNumbers(q)
    BY <1>1, ChannelLine DEF Enqueue
  <2> QED
    BY <2>1, <2>2, <2>4, <2>5, ThinnerLine
<1>2. \A d \in Channels : d # c => control'[d] = control[d] /\ data'[d] = data[d]
  BY DEF Enqueue, TypeOK, ChannelTypeOK
<1> QED
  BY <1>1, <1>2, ChannelKeepsOrder

\* The handler takes a message: its number goes into the data queue, or out of
\* the line.
LEMMA HandlerKeepsOrder ==
    ASSUME TypeOK, OrderInv, NEW c \in Channels, NEW typ, Take(c, typ),
           \/ UNCHANGED data
           \/ data' = [data EXCEPT ![c] = Append(@, Head(control[c]).num)],
           UNCHANGED <<taskQueue, worker, task, backlog, emitted, added>>
    PROVE  OrderInv'
<1>1. ASSUME NEW q \in Queries, Output[q] = c PROVE LineKept(q)
  <2>1. /\ DataNumbers(q) = data[c] /\ SentNumbers(q) # <<>>
        /\ Head(SentNumbers(q)) = Head(control[c]).num
        /\ SentNumbers(q)' = Tail(SentNumbers(q)) /\ DataNumbers(q)' = data'[c]
        /\ TaskNumbers(q)' = TaskNumbers(q) /\ QueuedNumbers(q)' = QueuedNumbers(q)
    BY <1>1, ChannelLine, ControlTaken
  <2>2. CASE UNCHANGED data
    <3>1. /\ Sorted(DataNumbers(q)) /\ Sorted(SentNumbers(q)) /\ Sorted(backlog[q])
          /\ Sorted(TaskNumbers(q)) /\ Sorted(QueuedNumbers(q))
      BY DEF OrderInv, LineOf, InLine
    <3>2. /\ Sorted(Tail(SentNumbers(q)))
          /\ Elements(Tail(SentNumbers(q))) \subseteq Elements(SentNumbers(q))
      BY <2>1, <3>1, LineTypes, SortedTail
    <3> QED
      BY <2>1, <2>2, <3>1, <3>2, ThinnerLine
  <2>3. CASE data' = [data EXCEPT ![c] = Append(@, Head(control[c]).num)]
    <3>1. DataNumbers(q)' = Append(DataNumbers(q), Head(SentNumbers(q)))
      BY <2>1, <2>3 DEF TypeOK, ChannelTypeOK
    <3>2. InLine(DataNumbers(q), SentNumbers(q), backlog[q], TaskNumbers(q), QueuedNumbers(q))
      BY DEF OrderInv, LineOf
    <3>3. /\ InLine(Append(DataNumbers(q), Head(SentNumbers(q))), Tail(SentNumbers(q)), backlog[q],
                    TaskNumbers(q), QueuedNumbers(q))
          /\ All(Append(DataNumbers(q), Head(SentNumbers(q))), Tail(SentNumbers(q)), backlog[q],
                 TaskNumbers(q), QueuedNumbers(q)) = NumbersOf(q)
      BY <2>1, <3>2, LineTypes, FirstMovesUp DEF NumbersOf
    <3> QED
      BY <2>1, <3>1, <3>3 DEF LineKept, LineOf, NumbersOf
  <2> QED
    BY <2>2, <2>3
<1>2. \A d \in Channels : d # c => control'[d] = control[d] /\ data'[d] = data[d]
  BY DEF Take, TypeOK, ChannelTypeOK
<1>3. ~\A q \in Queries : Output[q] # c
  BY DEF Take, OrderInv
<1> QED
  BY <1>1, <1>2, <1>3, ChannelKeepsOrder

\* The worker takes a task.
LEMMA PopKeepsOrder ==
    ASSUME TypeOK, OrderInv, NEW n \in Nodes, PopTask(n),
           UNCHANGED <<channelVars, sourceVars, sinkVars, printVars>>
    PROVE  OrderInv'
<1>1. UNCHANGED <<data, control, backlog, emitted, added>>
  BY DEF channelVars, sourceVars, sinkVars, printVars
<1>2. \A m \in Nodes : m # n => worker'[m] = worker[m] /\ task'[m] = task[m] /\ taskQueue'[m] = taskQueue[m]
  BY DEF PopTask, TypeOK, EngineTypeOK, WorkersTypeOK
<1>3. \A r \in Queries : /\ DataNumbers(r)' = DataNumbers(r) /\ SentNumbers(r)' = SentNumbers(r)
                         /\ backlog'[r] = backlog[r]
  BY <1>1 DEF DataNumbers, SentNumbers, ControlNumbers, Prints
<1>4. ASSUME NEW r \in Queries, NodeOf[r] # n PROVE LineKept(r)
  <2>1. TaskNumbers(r)' = TaskNumbers(r) /\ QueuedNumbers(r)' = QueuedNumbers(r)
    BY <1>2, <1>4, NodeConfigAssumption DEF TaskNumbers, Executing, QueuedNumbers
  <2> QED
    BY <1>3, <2>1, SameLine
<1>5. ASSUME NEW r \in Queries, NodeOf[r] = n PROVE LineKept(r)
  <2>1. InLine(DataNumbers(r), SentNumbers(r), backlog[r], TaskNumbers(r), QueuedNumbers(r))
    BY DEF OrderInv, LineOf
  <2>2. CASE task'[n].query = r
    <3>1. /\ InLine(DataNumbers(r), SentNumbers(r), backlog[r], <<Head(QueuedNumbers(r))>>, Tail(QueuedNumbers(r)))
          /\ All(DataNumbers(r), SentNumbers(r), backlog[r], <<Head(QueuedNumbers(r))>>, Tail(QueuedNumbers(r)))
                = NumbersOf(r)
      BY <1>5, <2>1, LineTypes, TaskTaken, WorkerTakesNumber DEF NumbersOf
    <3>2. TaskNumbers(r)' = <<Head(QueuedNumbers(r))>> /\ QueuedNumbers(r)' = Tail(QueuedNumbers(r))
      BY <1>5, <2>2, TaskTaken
    <3> QED
      BY <1>3, <3>1, <3>2 DEF LineKept, LineOf, NumbersOf
  <2>3. CASE task'[n].query # r
    <3>1. TaskNumbers(r)' = TaskNumbers(r) /\ QueuedNumbers(r)' = Tail(QueuedNumbers(r)) /\ QueuedNumbers(r) # <<>>
      BY <1>5, <2>3, TaskTaken
    <3>2. /\ Sorted(DataNumbers(r)) /\ Sorted(SentNumbers(r)) /\ Sorted(backlog[r])
          /\ Sorted(TaskNumbers(r)) /\ Sorted(QueuedNumbers(r))
      BY <2>1 DEF InLine
    <3>3. /\ Sorted(Tail(QueuedNumbers(r)))
          /\ Elements(Tail(QueuedNumbers(r))) \subseteq Elements(QueuedNumbers(r))
      BY <3>1, <3>2, LineTypes, SortedTail
    <3> QED
      BY <1>3, <3>1, <3>2, <3>3, ThinnerLine
  <2> QED
    BY <2>2, <2>3
<1>6. \A m \in Nodes : Sending(m, "send")' => backlog'[task'[m].query] = <<>>
  <2>1. ~Sending(n, "send")'
    BY DEF PopTask, Sending, TypeOK, EngineTypeOK, WorkersTypeOK
  <2> QED
    BY <1>1, <1>2, <2>1 DEF OrderInv, Sending, Prints
<1> QED
  BY <1>1, <1>4, <1>5, <1>6, OrderKept DEF OrderInv

(***************************************************************************)
(* Numbers that a source hands on, and numbers that are printed.           *)
(***************************************************************************)

\* The numbers of q as a source takes one out of its data queue.
ThinnedOf(q) ==
    All(DataNumbers(q)', SentNumbers(q), backlog[q], TaskNumbers(q), QueuedNumbers(q))

\* A source hands on a number that is above all it has handed on, and not above
\* what is still in line for it.
LEMMA EmitKeepsOrder ==
    ASSUME TypeOK, OrderInv, NEW q \in Queries, NEW num \in Numbers, Emit(q, num),
           UNCHANGED <<worker, task, control, backlog, added>>,
           Under(emitted[q], {num}),
           \A r \in Queries :
              \/ DataNumbers(r)' = DataNumbers(r)
              \/ DataNumbers(r) # <<>> /\ DataNumbers(r)' = Tail(DataNumbers(r)),
           \A w \in Queries : Reads(q, w) => num \in emitted[w] /\ Under({num}, ThinnedOf(w)),
           \A c \in Channels : (\A w \in Queries : Output[w] # c) => data'[c] = <<>>
    PROVE  OrderInv'
<1>1. num \in Nat /\ num # 0
  BY NodeConfigAssumption DEF Numbers
<1>2. /\ emitted'[q] = emitted[q] \cup {num}
      /\ \A r \in Queries : r # q => emitted'[r] = emitted[r]
      /\ \A r \in Queries : emitted[r] \subseteq Nat
  BY DEF Emit, TypeOK, SourcesTypeOK, Numbers
<1>3. \A r \in Queries :
         /\ SentNumbers(r)' = SentNumbers(r) /\ backlog'[r] = backlog[r]
         /\ TaskNumbers(r)' = TaskNumbers(r)
  BY DEF SentNumbers, ControlNumbers, TaskNumbers, Executing, Prints
<1>4. ASSUME NEW r \in Queries
      PROVE  /\ InLine(DataNumbers(r)', SentNumbers(r), backlog[r], TaskNumbers(r), QueuedNumbers(r))
             /\ ThinnedOf(r) \subseteq NumbersOf(r)
  <2>1. InLine(DataNumbers(r), SentNumbers(r), backlog[r], TaskNumbers(r), QueuedNumbers(r))
    BY DEF OrderInv, LineOf
  <2>2. Sorted(DataNumbers(r)')
        /\ Elements(DataNumbers(r)') \subseteq Elements(DataNumbers(r))
    BY <2>1, LineTypes, SortedTail DEF InLine
  <2> QED
    BY <2>1, <2>2 DEF InLine, Under, All, ThinnedOf, NumbersOf
<1>5. ASSUME NEW r \in Queries, NEW x \in Nat, Under(ThinnedOf(r), {x}),
             QueuedNumbers(r)' = Append(QueuedNumbers(r), x)
      PROVE  LineOf(r)' /\ NumbersOf(r)' = ThinnedOf(r) \cup {x}
  <2>1. InLine(DataNumbers(r)', SentNumbers(r), backlog[r], TaskNumbers(r), QueuedNumbers(r))
    BY <1>4
  <2>2. QueuedNumbers(r) \in Seq(Nat)
    BY LineTypes
  <2>3. /\ InLine(DataNumbers(r)', SentNumbers(r), backlog[r], TaskNumbers(r), Append(QueuedNumbers(r), x))
        /\ All(DataNumbers(r)', SentNumbers(r), backlog[r], TaskNumbers(r), Append(QueuedNumbers(r), x))
              = ThinnedOf(r) \cup {x}
    BY <1>5, <2>1, <2>2, NumberArrives DEF ThinnedOf
  <2> QED
    BY <1>3, <1>5, <2>3 DEF LineOf, NumbersOf
<1>6. ASSUME NEW r \in Queries
      PROVE  LineOf(r)' /\ NumbersOf(r)' \subseteq ThinnedOf(r) \cup {0} \cup (IF r = q THEN {num} ELSE {})
  <2>1. CASE QueuedNumbers(r)' = QueuedNumbers(r)
    BY <1>3, <1>4, <2>1 DEF LineOf, NumbersOf, ThinnedOf
  <2>2. CASE r = q /\ QueuedNumbers(r)' = Append(QueuedNumbers(r), num)
    <3>1. ThinnedOf(q) \subseteq emitted[q] \cup {0}
      BY <1>4 DEF OrderInv
    <3>2. Under(ThinnedOf(q), {num})
      BY <1>1, <3>1 DEF Under
    <3> QED
      BY <1>1, <1>5, <2>2, <3>2
  <2>3. CASE r # q /\ QueuedNumbers(r)' = Append(QueuedNumbers(r), 0)
    <3>1. Under(ThinnedOf(r), {0})
      BY DEF Under
    <3> QED
      BY <1>5, <2>3, <3>1
  <2> QED
    BY <2>1, <2>2, <2>3, TaskAppended
<1>7. \A r \in Queries : LineOf(r)' /\ NumbersOf(r)' \subseteq emitted'[r] \cup {0}
  BY <1>2, <1>4, <1>6 DEF OrderInv
<1>8. ASSUME NEW r \in Queries, NEW S, Under(S, NumbersOf(r)), r = q => S \subseteq emitted[q]
      PROVE  Under(S, NumbersOf(r)')
  <2>1. ASSUME NEW x \in S, NEW y \in NumbersOf(r)', y # 0 PROVE x <= y
    <3>1. CASE y \in NumbersOf(r)
      BY <1>8, <2>1, <3>1 DEF Under
    <3>2. CASE r = q /\ y = num
      BY <1>1, <1>8, <3>2 DEF Under
    <3> QED
      BY <1>4, <1>6, <2>1, <3>1, <3>2
  <2> QED
    BY <2>1 DEF Under
<1>9. \A r \in Queries : added'[r] \subseteq emitted'[r] /\ Under(added'[r], NumbersOf(r)')
  <2>1. \A r \in Queries : added[r] \subseteq emitted[r] /\ Under(added[r], NumbersOf(r))
    BY DEF OrderInv
  <2> QED
    BY <1>2, <1>8, <2>1
<1>10. ASSUME NEW w \in Queries, NEW r \in Queries, Reads(r, w)
       PROVE  emitted'[r] \subseteq emitted'[w] /\ Under(emitted'[r], NumbersOf(w)')
  <2>1. emitted[r] \subseteq emitted[w] /\ Under(emitted[r], NumbersOf(w))
    BY <1>10 DEF OrderInv
  <2>2. Under(emitted[r], NumbersOf(w)')
    BY <1>8, <2>1
  <2>3. CASE r # q
    BY <1>2, <2>1, <2>2, <2>3
  <2>4. CASE r = q
    <3>1. num \in emitted[w] /\ Under({num}, ThinnedOf(w))
      BY <1>10, <2>4
    <3>2. Under({num}, NumbersOf(w)')
      BY <1>1, <1>6, <3>1 DEF Under
    <3> QED
      BY <1>2, <2>1, <2>2, <2>4, <3>1, <3>2 DEF Under
  <2> QED
    BY <2>3, <2>4
<1>11. \A c \in Channels :
          (\A w \in Queries : Output[w] # c) => data'[c] = <<>> /\ control'[c] = <<>>
  BY DEF OrderInv
<1>12. \A n \in Nodes : Sending(n, "send")' => backlog'[task'[n].query] = <<>>
  BY DEF OrderInv, Sending
<1>13. \A r \in Queries : Prints(r) => backlog'[r] = <<>>
  BY DEF OrderInv
<1> QED
  BY <1>7, <1>9, <1>10, <1>11, <1>12, <1>13 DEF OrderInv, Reads, Prints

\* GeneratorSource.
LEMMA GenerateKeepsOrder ==
    ASSUME TypeOK, OrderInv, NEW q \in Queries, Generate(q), UNCHANGED <<sinkVars, printVars>>
    PROVE  OrderInv'
<1>1. PICK num \in Numbers : emitted[q] = 1 .. (num - 1) /\ Emit(q, num)
  BY DEF Generate
<1>2. UNCHANGED <<worker, task, control, data, backlog, added>>
  BY DEF Generate, channelVars, sinkVars, printVars
<1>3. Under(emitted[q], {num})
  BY <1>1 DEF Under, Numbers
<1>4. \A w \in Queries : ~Reads(q, w)
  BY DEF Generate, Generates, Reads
<1>5. \A r \in Queries : DataNumbers(r)' = DataNumbers(r)
  BY <1>2 DEF DataNumbers, Prints
<1>6. \A c \in Channels : (\A w \in Queries : Output[w] # c) => data'[c] = <<>>
  BY <1>2 DEF OrderInv
<1> QED
  BY <1>1, <1>2, <1>3, <1>4, <1>5, <1>6, EmitKeepsOrder

\* What a NetworkSource finds at the head of its data queue comes from the query
\* that writes the channel, and is not behind what the source has handed on.
LEMMA ReceivedNumber ==
    ASSUME TypeOK, OrderInv, NEW q \in Queries, ~Generates(q), data[Input[q]] # <<>>,
           NEW num, num = Head(data[Input[q]])
    PROVE  /\ Input[q] \in Channels /\ num \in Numbers
           /\ Under(emitted[q], {num})
           /\ \E w \in Queries : Reads(q, w) /\ num \in emitted[w]
<1>1. Input[q] \in Channels /\ data[Input[q]] \in Seq(Numbers)
  BY NodeConfigAssumption DEF Generates, TypeOK, ChannelTypeOK
<1>2. num \in Numbers
  BY <1>1
<1>3. PICK w \in Queries : Output[w] = Input[q]
  BY <1>1 DEF OrderInv
<1>4. Reads(q, w)
  BY <1>3 DEF Reads, Generates
<1>5. DataNumbers(w) = data[Input[q]]
  BY <1>3, <1>4 DEF DataNumbers, Prints, Reads
<1>6. num \in NumbersOf(w)
  <2>1. 1 \in DOMAIN DataNumbers(w) /\ DataNumbers(w)[1] = num
    BY <1>1, <1>5
  <2> QED
    BY <2>1 DEF NumbersOf, All, Elements
<1>7. num # 0
  BY <1>2 DEF Numbers
<1> QED
  BY <1>1, <1>2, <1>4, <1>6, <1>7 DEF OrderInv, Under

\* NetworkSource.
LEMMA ReceiveKeepsOrder ==
    ASSUME TypeOK, OrderInv, NEW q \in Queries, Receive(q), UNCHANGED <<sinkVars, printVars>>
    PROVE  OrderInv'
<1>1. PICK c, num : c = Input[q] /\ num = Head(data[c])
  OBVIOUS
<1>2. /\ ~Generates(q) /\ data[c] # <<>> /\ Emit(q, num)
      /\ data' = [data EXCEPT ![c] = Tail(@)]
      /\ UNCHANGED <<worker, task, control, backlog, added>>
  BY <1>1 DEF Receive, sinkVars, printVars
<1>3. c \in Channels /\ num \in Numbers /\ Under(emitted[q], {num})
  BY <1>1, <1>2, ReceivedNumber
<1>4. PICK v \in Queries : Reads(q, v) /\ num \in emitted[v]
  BY <1>1, <1>2, ReceivedNumber
<1>5. Output[v] = c /\ \A w \in Queries : Output[w] = c => w = v
  BY <1>1, <1>4, OneSinkPerChannel DEF Reads
<1>6. data'[c] = Tail(data[c]) /\ \A d \in Channels : d # c => data'[d] = data[d]
  BY <1>2, <1>3 DEF TypeOK, ChannelTypeOK
<1>7. /\ DataNumbers(v) = data[c] /\ DataNumbers(v) # <<>>
      /\ DataNumbers(v)' = Tail(DataNumbers(v))
  BY <1>2, <1>4, <1>5, <1>6 DEF DataNumbers, Prints, Reads
<1>8. ASSUME NEW r \in Queries, r # v PROVE DataNumbers(r)' = DataNumbers(r)
  <2>1. CASE Prints(r)
    BY <2>1 DEF DataNumbers, Prints
  <2>2. CASE ~Prints(r)
    <3>1. Output[r] \in Channels /\ Output[r] # c
      BY <1>5, <1>8, <2>2, NodeConfigAssumption DEF Prints
    <3> QED
      BY <1>6, <2>2, <3>1 DEF DataNumbers, Prints
  <2> QED
    BY <2>1, <2>2
<1>9. Under({num}, ThinnedOf(v))
  <2>1. InLine(DataNumbers(v), SentNumbers(v), backlog[v], TaskNumbers(v), QueuedNumbers(v))
    BY DEF OrderInv, LineOf
  <2>2. /\ Under({num}, Elements(Tail(DataNumbers(v))))
        /\ Elements(DataNumbers(v)) = {num} \cup Elements(Tail(DataNumbers(v)))
    <3>1. DataNumbers(v) \in Seq(Nat) /\ Sorted(DataNumbers(v)) /\ Head(DataNumbers(v)) = num
      BY <1>1, <1>7, <2>1, LineTypes DEF InLine
    <3> QED
      BY <1>7, <3>1, SortedTail
  <2> QED
    BY <1>7, <2>1, <2>2 DEF InLine, Under, All, ThinnedOf
<1>10. \A w \in Queries : Reads(q, w) => num \in emitted[w] /\ Under({num}, ThinnedOf(w))
  BY <1>1, <1>4, <1>5, <1>9 DEF Reads
<1>11. \A d \in Channels : (\A w \in Queries : Output[w] # d) => data'[d] = <<>>
  BY <1>5, <1>6 DEF OrderInv
<1>12. \A r \in Queries :
          \/ DataNumbers(r)' = DataNumbers(r)
          \/ DataNumbers(r) # <<>> /\ DataNumbers(r)' = Tail(DataNumbers(r))
  BY <1>7, <1>8
<1> QED
  BY <1>2, <1>3, <1>10, <1>11, <1>12, EmitKeepsOrder

\* What a PrintSink is given was emitted by its query's source, and is not behind
\* what it was given before.
LEMMA PrintedNumber ==
    ASSUME TypeOK, OrderInv, NEW n \in Nodes, Printing(n),
           NEW q, q = task[n].query, NEW num, num = task[n].num
    PROVE  /\ q \in Queries /\ NodeOf[q] = n /\ Prints(q) /\ num \in Numbers
           /\ num \in emitted[q] /\ Under(added[q], {num})
           /\ TaskNumbers(q) = <<num>>
<1>1. worker[n] = "execute" /\ Prints(q)
  BY DEF Printing
<1>2. q \in Queries /\ NodeOf[q] = n /\ num \in Numbers
  BY <1>1, TaskTypes DEF TypeOK, EngineTypeOK
<1>3. TaskNumbers(q) = <<num>>
  BY <1>1, <1>2 DEF TaskNumbers, Executing
<1>4. num \in NumbersOf(q) /\ num # 0
  <2>1. num \in Elements(TaskNumbers(q))
    BY <1>3, SingleSorted
  <2> QED
    BY <1>2, <2>1 DEF NumbersOf, All, Numbers
<1> QED
  BY <1>1, <1>2, <1>3, <1>4 DEF OrderInv, Under

\* PrintSink::execute.
LEMMA PrintKeepsOrder ==
    ASSUME TypeOK, OrderInv, NEW n \in Nodes, Track(n) \/ TrackPanics(n),
           UNCHANGED <<channelVars, sourceVars, sinkVars>>
    PROVE  OrderInv'
<1>1. PICK q, num : q = task[n].query /\ num = task[n].num
  OBVIOUS
<1>2. Printing(n) /\ UNCHANGED <<taskQueue, data, control, backlog, emitted>>
  BY DEF Track, TrackPanics, channelVars, sourceVars, sinkVars
<1>3. /\ q \in Queries /\ NodeOf[q] = n /\ Prints(q) /\ num \in Numbers
      /\ num \in emitted[q] /\ Under(added[q], {num})
      /\ TaskNumbers(q) = <<num>>
  BY <1>1, <1>2, PrintedNumber
<1>4. /\ worker[n] \in {"execute", "drain", "send"}
      /\ worker'[n] \notin {"execute", "drain", "send"}
      /\ \A m \in Nodes : m # n => worker'[m] = worker[m] /\ task'[m] = task[m]
  <2>1. CASE Track(n)
    <3>1. FinishTask(n)
      BY <2>1 DEF Track
    <3> QED
      BY <1>2, <3>1, FinishMoves DEF Printing
  <2>2. CASE TrackPanics(n)
    BY <1>2, <2>2 DEF TrackPanics, Printing, TypeOK, EngineTypeOK, WorkersTypeOK
  <2> QED
    BY <2>1, <2>2
<1>5. LineKept(q)
  BY <1>1, <1>2, <1>4, TaskLeavesLine
<1>6. /\ \A r \in Queries : r # q => added'[r] = added[r]
      /\ added'[q] = added[q] \/ added'[q] = added[q] \cup {num}
  BY <1>1, <1>3 DEF Track, TrackPanics, printVars, TypeOK, PrintTypeOK
<1>7. ASSUME added'[q] = added[q] \cup {num}
      PROVE  added'[q] \subseteq emitted[q] /\ Under(added'[q], NumbersOf(q)')
  <2>1. InLine(DataNumbers(q), SentNumbers(q), backlog[q], TaskNumbers(q), QueuedNumbers(q))
    BY <1>3 DEF OrderInv, LineOf
  <2>2. Under({num}, Elements(QueuedNumbers(q)))
    BY <1>3, <2>1, SingleSorted DEF InLine
  <2>3. /\ DataNumbers(q)' = <<>> /\ SentNumbers(q)' = <<>> /\ backlog'[q] = <<>>
        /\ TaskNumbers(q)' = <<>> /\ QueuedNumbers(q)' = QueuedNumbers(q)
    BY <1>2, <1>3, <1>4
       DEF DataNumbers, SentNumbers, TaskNumbers, Executing, QueuedNumbers, Prints, OrderInv
  <2>4. NumbersOf(q)' = Elements(QueuedNumbers(q))
    BY <2>3, EmptySorted DEF NumbersOf, All
  <2>5. added[q] \subseteq emitted[q] /\ Under(added[q], Elements(QueuedNumbers(q)))
    BY <1>3 DEF OrderInv, Under, NumbersOf, All
  <2> QED
    BY <1>3, <1>7, <2>2, <2>4, <2>5 DEF Under
<1>8. ~Sending(n, "send")'
  BY <1>4 DEF Sending
<1> QED
  BY <1>1, <1>2, <1>4, <1>5, <1>6, <1>7, <1>8, WorkerKeepsOrder

(***************************************************************************)
(* Every step.                                                             *)
(***************************************************************************)

\* The worker is done with a task that it no longer executes.
LEMMA WorkerResumesKeepsOrder ==
    ASSUME TypeOK, OrderInv, NEW n \in Nodes, WorkerResumes(n),
           UNCHANGED <<channelVars, sourceVars, sinkVars, printVars>>
    PROVE  OrderInv'
<1>1. UNCHANGED <<taskQueue, data, control, backlog, emitted, added>>
  BY DEF WorkerResumes, channelVars, sourceVars, sinkVars, printVars
<1>2. /\ worker[n] = "stop" /\ worker'[n] = "idle"
      /\ \A m \in Nodes : m # n => worker'[m] = worker[m] /\ task'[m] = task[m]
  BY DEF WorkerResumes, GoIdle, TypeOK, EngineTypeOK, WorkersTypeOK
<1>3. ASSUME NEW q \in Queries PROVE LineKept(q)
  <2>1. Executing(q)' = Executing(q) /\ (Executing(q) => task'[NodeOf[q]] = task[NodeOf[q]])
    BY <1>2, NodeConfigAssumption DEF Executing
  <2> QED
    BY <1>1, <2>1, SameLine
       DEF DataNumbers, SentNumbers, ControlNumbers, TaskNumbers, QueuedNumbers, Prints
<1>4. \A m \in Nodes : Sending(m, "send")' => Sending(m, "send") /\ task'[m] = task[m]
  BY <1>2 DEF Sending, Prints
<1> QED
  BY <1>1, <1>3, <1>4, OrderKept DEF OrderInv

\* Every step keeps the invariant.
LEMMA OrderStep ==
    ASSUME TypeOK, OrderInv, Next
    PROVE  OrderInv'
<1>1. ASSUME NEW q \in Queries, StartQuery(q),
            UNCHANGED <<sinkVars, printVars>>
      PROVE  OrderInv'
  BY <1>1, NoBufferMoves DEF StartQuery, engineVars, channelVars, sourceVars, sinkVars, printVars
<1>2. ASSUME NEW q \in Queries, BeginStop(q),
            UNCHANGED <<channelVars, sourceVars, sinkVars, printVars>>
      PROVE  OrderInv'
  BY <1>2, NoBufferMoves DEF BeginStop, engineVars, channelVars, sourceVars, sinkVars, printVars
<1>3. ASSUME NEW q \in Queries, DropQuery(q),
            UNCHANGED <<channelVars, sourceVars, sinkVars, printVars>>
      PROVE  OrderInv'
  BY <1>3, NoBufferMoves DEF DropQuery, engineVars, channelVars, sourceVars, sinkVars, printVars
<1>4. ASSUME NEW q \in Queries, MainResumes(q),
            UNCHANGED <<channelVars, sourceVars, sinkVars, printVars>>
      PROVE  OrderInv'
  BY <1>4, NoBufferMoves DEF MainResumes, engineVars, channelVars, sourceVars, sinkVars, printVars
<1>5. ASSUME NEW q \in Queries, Continue(q),
            UNCHANGED <<sinkVars, printVars>>
      PROVE  OrderInv'
  BY <1>5, NoBufferMoves DEF Continue, engineVars, channelVars, sourceVars, sinkVars, printVars
<1>6. ASSUME NEW q \in Queries, Generate(q),
            UNCHANGED <<sinkVars, printVars>>
      PROVE  OrderInv'
  BY <1>6, GenerateKeepsOrder
<1>7. ASSUME NEW q \in Queries, GeneratorStops(q),
            UNCHANGED <<sinkVars, printVars>>
      PROVE  OrderInv'
  BY <1>7, NoBufferMoves DEF GeneratorStops, engineVars, channelVars, sourceVars, sinkVars, printVars
<1>8. ASSUME NEW q \in Queries, Receive(q),
            UNCHANGED <<sinkVars, printVars>>
      PROVE  OrderInv'
  BY <1>8, ReceiveKeepsOrder
<1>9. ASSUME NEW q \in Queries, ExternalStop(q),
            UNCHANGED <<sinkVars, printVars>>
      PROVE  OrderInv'
  BY <1>9, NoBufferMoves DEF ExternalStop, engineVars, channelVars, sourceVars, sinkVars, printVars
<1>10. ASSUME NEW q \in Queries, InternalStop(q),
            UNCHANGED <<sinkVars, printVars>>
      PROVE  OrderInv'
  BY <1>10, NoBufferMoves DEF InternalStop, engineVars, channelVars, sourceVars, sinkVars, printVars
<1>11. ASSUME NEW q \in Queries, StopEarly(q),
            UNCHANGED <<sourceVars, printVars>>
      PROVE  OrderInv'
  BY <1>11, NoBufferMoves DEF StopEarly, engineVars, channelVars, sourceVars, sinkVars, printVars
<1>12. ASSUME NEW q \in Queries, StopPanics(q),
            UNCHANGED <<sourceVars, printVars>>
      PROVE  OrderInv'
  BY <1>12, NoBufferMoves DEF StopPanics, engineVars, channelVars, sourceVars, sinkVars, printVars
<1>13. ASSUME NEW q \in Queries, SendFlush(q),
            UNCHANGED <<sourceVars, printVars>>
      PROVE  OrderInv'
  <2>1. /\ Output[q] \in Channels /\ Enqueue(Output[q], Flush)
        /\ UNCHANGED <<taskQueue, worker, task, backlog, emitted, added>>
    BY <1>13, NodeConfigAssumption DEF SendFlush, StopAt, Prints, sourceVars, sinkVars, printVars
  <2>2. Flush \in Message /\ Flush.num = 0
    BY DEF Flush, Message
  <2> QED
    BY <2>1, <2>2, StopKeepsOrder
<1>14. ASSUME NEW q \in Queries, FlushConfirmed(q),
            UNCHANGED <<sourceVars, printVars>>
      PROVE  OrderInv'
  BY <1>14, NoBufferMoves DEF FlushConfirmed, engineVars, channelVars, sourceVars, sinkVars, printVars
<1>15. ASSUME NEW q \in Queries, SendTerminate(q),
            UNCHANGED <<sourceVars, printVars>>
      PROVE  OrderInv'
  <2>1. /\ Output[q] \in Channels /\ Enqueue(Output[q], Terminate)
        /\ UNCHANGED <<taskQueue, worker, task, backlog, emitted, added>>
    BY <1>15, NodeConfigAssumption DEF SendTerminate, StopAt, Prints, sourceVars, sinkVars, printVars
  <2>2. Terminate \in Message /\ Terminate.num = 0
    BY DEF Terminate, Message
  <2> QED
    BY <2>1, <2>2, StopKeepsOrder
<1>16. ASSUME NEW q \in Queries, StopPrint(q),
            UNCHANGED <<channelVars, sourceVars, sinkVars>>
      PROVE  OrderInv'
  BY <1>16, NoBufferMoves DEF StopPrint, engineVars, channelVars, sourceVars, sinkVars, printVars
<1>17. ASSUME NEW n \in Nodes, Exit(n),
            UNCHANGED <<channelVars, sourceVars, sinkVars, printVars>>
      PROVE  OrderInv'
  BY <1>17, NoBufferMoves DEF Exit, engineVars, channelVars, sourceVars, sinkVars, printVars
<1>18. ASSUME NEW n \in Nodes, PopTask(n),
            UNCHANGED <<channelVars, sourceVars, sinkVars, printVars>>
      PROVE  OrderInv'
  BY <1>18, PopKeepsOrder
<1>19. ASSUME NEW n \in Nodes, WorkerResumes(n),
            UNCHANGED <<channelVars, sourceVars, sinkVars, printVars>>
      PROVE  OrderInv'
  BY <1>19, WorkerResumesKeepsOrder
<1>20. ASSUME NEW n \in Nodes, SinkExecutes(n),
            UNCHANGED <<sourceVars, printVars>>
      PROVE  OrderInv'
  BY <1>20, SinkKeepsOrder
<1>21. ASSUME NEW n \in Nodes, Track(n),
            UNCHANGED <<channelVars, sourceVars, sinkVars>>
      PROVE  OrderInv'
  BY <1>21, PrintKeepsOrder
<1>22. ASSUME NEW n \in Nodes, TrackPanics(n),
            UNCHANGED <<channelVars, sourceVars, sinkVars>>
      PROVE  OrderInv'
  BY <1>22, PrintKeepsOrder
<1>23. ASSUME NEW c \in Channels, Deliver(c),
            UNCHANGED <<engineVars, sourceVars, sinkVars, printVars>>
      PROVE  OrderInv'
  <2>1. /\ Take(c, "Data") /\ data' = [data EXCEPT ![c] = Append(@, Head(control[c]).num)]
        /\ UNCHANGED <<taskQueue, worker, task, backlog, emitted, added>>
    BY <1>23 DEF Deliver, engineVars, sourceVars, sinkVars, printVars
  <2> QED
    BY <2>1, HandlerKeepsOrder
<1>24. ASSUME NEW c \in Channels, LoseData(c),
            UNCHANGED <<engineVars, sourceVars, sinkVars, printVars>>
      PROVE  OrderInv'
  <2>1. /\ Take(c, "Data") /\ UNCHANGED data
        /\ UNCHANGED <<taskQueue, worker, task, backlog, emitted, added>>
    BY <1>24 DEF LoseData, engineVars, sourceVars, sinkVars, printVars
  <2> QED
    BY <2>1, HandlerKeepsOrder
<1>25. ASSUME NEW c \in Channels, Refuse(c),
            UNCHANGED <<engineVars, sourceVars, sinkVars, printVars>>
      PROVE  OrderInv'
  <2>1. /\ Take(c, "Data") /\ UNCHANGED data
        /\ UNCHANGED <<taskQueue, worker, task, backlog, emitted, added>>
    BY <1>25 DEF Refuse, engineVars, sourceVars, sinkVars, printVars
  <2> QED
    BY <2>1, HandlerKeepsOrder
<1>26. ASSUME NEW c \in Channels, AnswerFlush(c),
            UNCHANGED <<engineVars, sourceVars, sinkVars, printVars>>
      PROVE  OrderInv'
  <2>1. /\ Take(c, "Flush") /\ UNCHANGED data
        /\ UNCHANGED <<taskQueue, worker, task, backlog, emitted, added>>
    BY <1>26 DEF AnswerFlush, engineVars, sourceVars, sinkVars, printVars
  <2> QED
    BY <2>1, HandlerKeepsOrder
<1>27. ASSUME NEW c \in Channels, HandleTerminate(c),
            UNCHANGED <<engineVars, sourceVars, sinkVars, printVars>>
      PROVE  OrderInv'
  <2>1. /\ Take(c, "Terminate") /\ UNCHANGED data
        /\ UNCHANGED <<taskQueue, worker, task, backlog, emitted, added>>
    BY <1>27 DEF HandleTerminate, engineVars, sourceVars, sinkVars, printVars
  <2> QED
    BY <2>1, HandlerKeepsOrder
<1>28. ASSUME NEW c \in Channels, ReadEof(c),
            UNCHANGED <<engineVars, sourceVars, sinkVars, printVars>>
      PROVE  OrderInv'
  BY <1>28, NoBufferMoves DEF ReadEof, engineVars, channelVars, sourceVars, sinkVars, printVars
<1>29. ASSUME NEW c \in Channels, CancelSource(c),
            UNCHANGED <<engineVars, sourceVars, sinkVars, printVars>>
      PROVE  OrderInv'
  BY <1>29, NoBufferMoves DEF CancelSource, engineVars, channelVars, sourceVars, sinkVars, printVars
<1>30. ASSUME NEW c \in Channels, DropFlush(c),
            UNCHANGED <<engineVars, sourceVars, sinkVars, printVars>>
      PROVE  OrderInv'
  <2>1. /\ Take(c, "Flush") /\ UNCHANGED data
        /\ UNCHANGED <<taskQueue, worker, task, backlog, emitted, added>>
    BY <1>30 DEF DropFlush, engineVars, sourceVars, sinkVars, printVars
  <2> QED
    BY <2>1, HandlerKeepsOrder
<1>31. ASSUME NEW c \in Channels, Reconnect(c),
            UNCHANGED <<engineVars, sourceVars, sinkVars, printVars>>
      PROVE  OrderInv'
  BY <1>31, NoBufferMoves DEF Reconnect, engineVars, channelVars, sourceVars, sinkVars, printVars
<1>32. ASSUME NEW c \in Channels, Strand(c),
            UNCHANGED <<engineVars, sourceVars, sinkVars, printVars>>
      PROVE  OrderInv'
  BY <1>32, NoBufferMoves DEF Strand, engineVars, channelVars, sourceVars, sinkVars, printVars
<1> QED
  BY <1>1, <1>2, <1>3, <1>4, <1>5, <1>6, <1>7, <1>8, <1>9, <1>10, <1>11, <1>12, <1>13,
     <1>14, <1>15, <1>16, <1>17, <1>18, <1>19, <1>20, <1>21, <1>22, <1>23, <1>24, <1>25,
     <1>26, <1>27, <1>28, <1>29, <1>30, <1>31, <1>32 DEF Next, MainStep, SourceThread, SourceStep, PipelineStops,
     SinkStops, WorkerStep, Serve, Fail

\* The initial state satisfies it.
LEMMA OrderInit ==
    ASSUME Init
    PROVE  OrderInv
<1> USE DEF Init, EngineInit, ChannelInit, SourcesInit, SinkInit, PrintInit
<1>1. \A q \in Queries : DataNumbers(q) = <<>> /\ SentNumbers(q) = <<>> /\ backlog[q] = <<>>
  BY NodeConfigAssumption DEF DataNumbers, SentNumbers, ControlNumbers, Prints
<1>2. \A q \in Queries : TaskNumbers(q) = <<>> /\ QueuedNumbers(q) = <<>>
  BY NodeConfigAssumption DEF TaskNumbers, Executing, QueuedNumbers
<1>3. InLine(<<>>, <<>>, <<>>, <<>>, <<>>) /\ All(<<>>, <<>>, <<>>, <<>>, <<>>) = {}
  BY EmptySorted DEF InLine, Under, All
<1>4. \A q \in Queries : LineOf(q) /\ NumbersOf(q) = {}
  BY <1>1, <1>2, <1>3 DEF LineOf, NumbersOf
<1>5. \A n \in Nodes : ~Sending(n, "send")
  BY DEF Sending
<1>6. \A q \in Queries : emitted[q] = {} /\ added[q] = {} /\ backlog[q] = <<>>
  OBVIOUS
<1>7. \A c \in Channels : data[c] = <<>> /\ control[c] = <<>>
  OBVIOUS
<1> QED
  BY <1>4, <1>5, <1>6, <1>7 DEF OrderInv, Under

\* It holds in every reachable state.
LEMMA OrderInvariant == Spec => []OrderInv
<1>1. TypeOK /\ OrderInv /\ [Next]_vars => OrderInv'
  <2>1. ASSUME TypeOK, OrderInv, UNCHANGED vars PROVE OrderInv'
    BY <2>1, NoBufferMoves DEF vars, engineVars, channelVars, sourceVars, sinkVars, printVars
  <2> QED
    BY <2>1, OrderStep
<1> QED
  BY TypeCorrect, OrderInit, <1>1, PTL DEF Spec

\* Buffers leave a node in the order they came: the task queue, the worker, the
\* backlog of the sink and the two queues of the channel never let one overtake
\* another (main.rs:282-325).
THEOREM BuffersKeepOrder == Spec => []BuffersInOrder
<1>1. TypeOK /\ OrderInv => BuffersInOrder
  <2> SUFFICES ASSUME TypeOK, OrderInv, NEW q \in Queries
               PROVE  Sorted(Ahead(q))
    BY DEF BuffersInOrder, Sorted
  <2>1. InLine(DataNumbers(q), SentNumbers(q), backlog[q], TaskNumbers(q), QueuedNumbers(q))
    BY DEF OrderInv, LineOf
  <2>2. /\ DataNumbers(q) \in Seq(Nat) /\ SentNumbers(q) \in Seq(Nat) /\ backlog[q] \in Seq(Nat)
        /\ TaskNumbers(q) \in Seq(Nat) /\ QueuedNumbers(q) \in Seq(Nat)
    BY LineTypes
  <2> QED
    BY <2>1, <2>2, LineSorted DEF Ahead
<1> QED
  BY TypeCorrect, OrderInvariant, <1>1, PTL

(***************************************************************************)
(* Nothing is sent past what is lost.                                      *)
(***************************************************************************)

\* What SentWithoutGaps needs to be inductive.
GapInv == SentWithoutGaps /\ \A q \in Queries : sent[q] \subseteq emitted[q]

\* A source hands on a number that is not behind those it has handed on.
LEMMA EmitKeepsGaps ==
    ASSUME TypeOK, GapInv, NEW q \in Queries, NEW num \in Numbers, Emit(q, num),
           Under(emitted[q], {num}), UNCHANGED sinkVars
    PROVE  GapInv'
<1>1. /\ emitted'[q] = emitted[q] \cup {num} /\ dropped[q] \subseteq dropped'[q]
      /\ \A r \in Queries : r # q => emitted'[r] = emitted[r] /\ dropped'[r] = dropped[r]
      /\ sent' = sent
  BY DEF Emit, TypeOK, SourcesTypeOK, sinkVars
<1>2. num # 0 /\ num \in Nat /\ \A m \in sent[q] : m \in Nat
  BY DEF Numbers, TypeOK, SinkTypeOK
<1>3. \A m \in sent[q] : m <= num
  BY <1>2 DEF GapInv, Under
<1>4. \A k \in emitted'[q], m \in sent[q] : k < m => k \in sent[q] \cup dropped'[q]
  <2> SUFFICES ASSUME NEW k \in emitted'[q], NEW m \in sent[q], k < m
               PROVE  k \in sent[q] \cup dropped'[q]
    OBVIOUS
  <2>1. k # num
    BY <1>2, <1>3
  <2> QED
    BY <1>1, <2>1 DEF GapInv, SentWithoutGaps
<1> QED
  BY <1>1, <1>4 DEF GapInv, SentWithoutGaps

\* The sink sends a number that is not above any it holds: the lower ones, which
\* are all sent, dropped or held, are then sent or dropped.
LEMMA SendKeepsGaps ==
    ASSUME TypeOK, StopInv, LossInv, GapInv, NEW q \in Queries, Executing(q), ~Prints(q),
           HasRoom(Output[q]), NEW m \in emitted[q],
           \A k \in Numbers : Holds(q, k) => m <= k,
           sent' = [sent EXCEPT ![q] = @ \cup {m}], UNCHANGED sourceVars
    PROVE  GapInv'
<1>1. pipeline[q] = "open" /\ ~IsClosed(Output[q])
  BY DEF StopInv, HasRoom, IsClosed
<1>2. \A k \in emitted[q] : k \in Nat /\ k \in Numbers
  BY DEF TypeOK, SourcesTypeOK, Numbers
<1>3. \A k \in emitted[q] : k < m => k \in sent[q] \cup dropped[q]
  BY <1>1, <1>2 DEF LossInv, NothingIsLost
<1>4. /\ sent'[q] = sent[q] \cup {m} /\ emitted' = emitted /\ dropped' = dropped
      /\ \A r \in Queries : r # q => sent'[r] = sent[r]
  BY DEF TypeOK, SinkTypeOK, sourceVars
<1> QED
  BY <1>3, <1>4 DEF GapInv, SentWithoutGaps

\* What a sink holds in the task queue is among the numbers of its line.
LEMMA HeldNumbers ==
    ASSUME TypeOK, NEW q \in Queries, NEW k, Holds(q, k)
    PROVE  \/ k \in Elements(backlog[q])
           \/ Executing(q) /\ task[NodeOf[q]].num = k
           \/ k \in Elements(QueuedNumbers(q))
<1>1. ASSUME NEW i \in DOMAIN taskQueue[NodeOf[q]],
             taskQueue[NodeOf[q]][i] = [query |-> q, num |-> k]
      PROVE  k \in Elements(QueuedNumbers(q))
  <2>1. i \in DOMAIN QueuedNumbers(q) /\ QueuedNumbers(q)[i] = k
    BY <1>1 DEF QueuedNumbers
  <2> QED
    BY <2>1 DEF Elements
<1> QED
  BY <1>1 DEF Holds, Elements

\* The loop over the backlog sends its first number.
LEMMA DrainKeepsGaps ==
    ASSUME TypeOK, StopInv, LossInv, OrderInv, GapInv, NEW n \in Nodes, Drain(n),
           UNCHANGED sourceVars
    PROVE  GapInv'
<1>1. PICK q, m : q = task[n].query /\ m = Head(backlog[q])
  OBVIOUS
<1>2. /\ Sending(n, "drain") /\ backlog[q] # <<>> /\ HasRoom(Output[q])
      /\ sent' = [sent EXCEPT ![q] = @ \cup {m}]
  BY <1>1 DEF Drain
<1>3. /\ q \in Queries /\ NodeOf[q] = n /\ worker[n] \in {"execute", "drain", "send"}
      /\ InLine(DataNumbers(q), SentNumbers(q), backlog[q], <<task[n].num>>, QueuedNumbers(q))
  BY <1>1, <1>2, WorkersLine
<1>4. Executing(q) /\ ~Prints(q)
  BY <1>1, <1>2, <1>3 DEF Executing, Sending
<1>5. backlog[q] \in Seq(Numbers)
  BY <1>3 DEF TypeOK, SinkTypeOK
<1>6. m \in Numbers /\ 1 \in DOMAIN backlog[q] /\ backlog[q][1] = m
  BY <1>1, <1>2, <1>5
<1>7. m \in Elements(backlog[q]) /\ m # 0 /\ m \in Nat
  BY <1>6 DEF Elements, Numbers
<1>8. m \in emitted[q]
  BY <1>3, <1>7 DEF OrderInv, NumbersOf, All
<1>9. ASSUME NEW k \in Numbers, Holds(q, k) PROVE m <= k
  <2>1. k # 0 /\ k \in Nat
    BY DEF Numbers
  <2>2. CASE k \in Elements(backlog[q])
    <3>1. PICK i \in DOMAIN backlog[q] : backlog[q][i] = k
      BY <2>2 DEF Elements
    <3>2. i = 1 \/ 1 < i
      BY <1>5
    <3> QED
      BY <1>3, <1>6, <1>7, <2>1, <3>1, <3>2 DEF InLine, Sorted
  <2>3. CASE task[n].num = k
    <3>1. k \in Elements(<<task[n].num>>)
      BY <2>3 DEF Elements
    <3> QED
      BY <1>3, <1>7, <2>1, <3>1 DEF InLine, Under
  <2>4. CASE k \in Elements(QueuedNumbers(q))
    BY <1>3, <1>7, <2>1, <2>4 DEF InLine, Under
  <2> QED
    BY <1>3, <1>9, <2>2, <2>3, <2>4, HeldNumbers
<1> QED
  BY <1>2, <1>3, <1>4, <1>8, <1>9, SendKeepsGaps

\* The number of the task is sent past an empty backlog.
LEMMA BufferKeepsGaps ==
    ASSUME TypeOK, StopInv, LossInv, OrderInv, GapInv, NEW n \in Nodes, SendBuffer(n),
           UNCHANGED sourceVars
    PROVE  GapInv'
<1>1. PICK q, m : q = task[n].query /\ m = task[n].num
  OBVIOUS
<1>2. /\ Sending(n, "send") /\ HasRoom(Output[q])
      /\ sent' = [sent EXCEPT ![q] = @ \cup {m}]
  BY <1>1 DEF SendBuffer
<1>3. /\ q \in Queries /\ NodeOf[q] = n /\ worker[n] \in {"execute", "drain", "send"}
      /\ m \in Nat /\ m # 0 /\ TaskNumbers(q) = <<m>>
      /\ InLine(DataNumbers(q), SentNumbers(q), backlog[q], <<m>>, QueuedNumbers(q))
  BY <1>1, <1>2, WorkersLine
<1>4. Executing(q) /\ ~Prints(q)
  BY <1>1, <1>2, <1>3 DEF Executing, Sending
<1>5. backlog[q] = <<>>
  BY <1>1, <1>2 DEF OrderInv
<1>6. m \in Elements(TaskNumbers(q)) /\ m \in Elements(<<m>>)
  BY <1>3 DEF Elements
<1>7. m \in emitted[q]
  BY <1>3, <1>6 DEF OrderInv, NumbersOf, All
<1>8. ASSUME NEW k \in Numbers, Holds(q, k) PROVE m <= k
  <2>1. k # 0 /\ k \in Nat
    BY DEF Numbers
  <2>2. k \notin Elements(backlog[q])
    BY <1>5, EmptySorted
  <2>3. k \in Elements(QueuedNumbers(q)) => m <= k
    BY <1>3, <1>6, <2>1 DEF InLine, Under
  <2> QED
    BY <1>1, <1>3, <1>8, <2>1, <2>2, <2>3, HeldNumbers
<1> QED
  BY <1>2, <1>3, <1>4, <1>7, <1>8, SendKeepsGaps

\* Every step keeps it.
LEMMA GapStep ==
    ASSUME TypeOK, StopInv, LossInv, OrderInv, GapInv, Next
    PROVE  GapInv'
<1>1. ASSUME UNCHANGED <<emitted, dropped, sent>> PROVE GapInv'
  BY <1>1 DEF GapInv, SentWithoutGaps
<1>2. ASSUME NEW q \in Queries, Generate(q), UNCHANGED <<sinkVars, printVars>> PROVE GapInv'
  <2>1. PICK num \in Numbers : emitted[q] = 1 .. (num - 1) /\ Emit(q, num)
    BY <1>2 DEF Generate
  <2>2. Under(emitted[q], {num})
    BY <2>1 DEF Under, Numbers
  <2> QED
    BY <1>2, <2>1, <2>2, EmitKeepsGaps
<1>3. ASSUME NEW q \in Queries, Receive(q), UNCHANGED <<sinkVars, printVars>> PROVE GapInv'
  <2>1. PICK num : num = Head(data[Input[q]])
    OBVIOUS
  <2>2. ~Generates(q) /\ data[Input[q]] # <<>> /\ Emit(q, num)
    BY <1>3, <2>1 DEF Receive
  <2>3. num \in Numbers /\ Under(emitted[q], {num})
    BY <2>1, <2>2, ReceivedNumber
  <2> QED
    BY <1>3, <2>2, <2>3, EmitKeepsGaps
<1>4. ASSUME NEW n \in Nodes, SinkExecutes(n), UNCHANGED <<sourceVars, printVars>> PROVE GapInv'
  <2>1. CASE Drain(n)
    BY <1>4, <2>1, DrainKeepsGaps
  <2>2. CASE SendBuffer(n)
    BY <1>4, <2>2, BufferKeepsGaps
  <2>3. CASE ~Drain(n) /\ ~SendBuffer(n)
    <3>1. UNCHANGED <<emitted, dropped, sent>>
      BY <1>4, <2>3 DEF SinkExecutes, ExecuteClosed, Execute, DrainFull, DrainPanics, SendFull,
         SendClosed, sourceVars, sinkVars
    <3> QED
      BY <1>1, <3>1
  <2> QED
    BY <2>1, <2>2, <2>3
<1>5. ASSUME NEW q \in Queries, SinkStops(q), UNCHANGED <<sourceVars, printVars>> PROVE GapInv'
  <2>1. UNCHANGED <<emitted, dropped, sent>>
    BY <1>5 DEF SinkStops, StopEarly, StopPanics, SendFlush, FlushConfirmed, SendTerminate,
       sourceVars, sinkVars
  <2> QED
    BY <1>1, <2>1
<1>6. ASSUME NEW q \in Queries, StartQuery(q) \/ Continue(q) \/ GeneratorStops(q) \/ ExternalStop(q)
                                \/ InternalStop(q),
             UNCHANGED <<sinkVars, printVars>>
      PROVE  GapInv'
  <2>1. UNCHANGED <<emitted, dropped, sent>>
    BY <1>6 DEF StartQuery, Continue, GeneratorStops, ExternalStop, InternalStop, sourceVars, sinkVars
  <2> QED
    BY <1>1, <2>1
<1>7. ASSUME UNCHANGED <<sourceVars, sinkVars>> PROVE GapInv'
  BY <1>1, <1>7 DEF sourceVars, sinkVars
<1> QED
  BY <1>2, <1>3, <1>4, <1>5, <1>6, <1>7 DEF Next, MainStep, SourceThread, SourceStep, PipelineStops,
     WorkerStep

\* A sink never sends a number past one that it has lost or still holds: a stop
\* with a backlog (main.rs:351), a closed channel (main.rs:321) and a panic
\* (main.rs:301) cut off the end of the stream, and only a full task queue
\* (engine.rs:47-49) makes a hole in it.
THEOREM LossIsASuffix == Spec => []SentWithoutGaps
<1>1. Init => GapInv
  BY DEF Init, SourcesInit, SinkInit, GapInv, SentWithoutGaps
<1>2. TypeOK /\ StopInv /\ LossInv /\ OrderInv /\ GapInv /\ [Next]_vars => GapInv'
  <2>1. ASSUME GapInv, UNCHANGED vars PROVE GapInv'
    BY <2>1 DEF GapInv, SentWithoutGaps, vars, sourceVars, sinkVars
  <2> QED
    BY <2>1, GapStep
<1>3. GapInv => SentWithoutGaps
  BY DEF GapInv
<1> QED
  BY TypeCorrect, StopInvariant, LossInvariant, OrderInvariant, <1>1, <1>2, <1>3, PTL DEF Spec

(***************************************************************************)
(* From node to node.                                                      *)
(***************************************************************************)

\* The initial state is one of the stream.
LEMMA StreamInit ==
    ASSUME Init
    PROVE  Stream!Init
BY DEF Init, SourcesInit, PrintInit, Stream!Init

\* A generator hands on the next number of the stream.
LEMMA StreamGenerate ==
    ASSUME NEW q \in Queries, Generate(q), UNCHANGED printVars
    PROVE  Stream!Next
<1>1. Stream!Generate(q)
  BY DEF Generate, Emit, printVars, Stream!Generate, Generates, Stream!Generates, Numbers, Stream!Numbers
<1> QED
  BY <1>1 DEF Stream!Next

\* A NetworkSource hands on what the query that writes its channel has handed
\* on.
LEMMA StreamReceive ==
    ASSUME TypeOK, OrderInv, NEW q \in Queries, Receive(q), UNCHANGED printVars
    PROVE  Stream!Next
<1>1. PICK num : num = Head(data[Input[q]])
  OBVIOUS
<1>2. ~Generates(q) /\ data[Input[q]] # <<>> /\ Emit(q, num) /\ UNCHANGED added
  BY <1>1 DEF Receive, printVars
<1>a. num \in Numbers /\ Under(emitted[q], {num})
  BY <1>1, <1>2, ReceivedNumber
<1>3. Under(emitted[q], {num}) /\ num # 0
  BY <1>a DEF Numbers
<1>4. PICK w \in Queries : Reads(q, w) /\ num \in emitted[w]
  BY <1>1, <1>2, ReceivedNumber
<1>5. Stream!Follows(num, emitted[q])
  BY <1>3 DEF Under, Stream!Follows
<1>6. Stream!PassOn(q)
  BY <1>2, <1>4, <1>5 DEF Emit, Reads, Stream!PassOn, Generates, Stream!Generates
<1> QED
  BY <1>6 DEF Stream!Next

\* A PrintSink prints what its query's source has handed on.
LEMMA StreamPrint ==
    ASSUME TypeOK, OrderInv, NEW n \in Nodes, Track(n), UNCHANGED sourceVars
    PROVE  Stream!Next
<1>1. PICK q, num : q = task[n].query /\ num = task[n].num
  OBVIOUS
<1>2. Printing(n) /\ added' = [added EXCEPT ![q] = @ \cup {num}] /\ UNCHANGED emitted
  BY <1>1 DEF Track, sourceVars
<1>3. /\ q \in Queries /\ Prints(q) /\ num \in Numbers /\ num # 0
      /\ num \in emitted[q] /\ Under(added[q], {num})
  BY <1>1, <1>2, PrintedNumber DEF Numbers
<1>4. Stream!Follows(num, added[q])
  BY <1>3 DEF Under, Stream!Follows
<1>5. Stream!PrintNumber(q)
  BY <1>2, <1>3, <1>4 DEF Prints, Stream!PrintNumber, Stream!Prints
<1> QED
  BY <1>3, <1>5 DEF Stream!Next

\* A step hands a number to a source, or to a print sink, or is none of the
\* stream's.
LEMMA StreamStep ==
    ASSUME TypeOK, OrderInv, Next
    PROVE  [Stream!Next]_(Stream!vars)
<1>1. CASE \E q \in Queries : Generate(q) /\ UNCHANGED <<sinkVars, printVars>>
  BY <1>1, StreamGenerate
<1>2. CASE \E q \in Queries : Receive(q) /\ UNCHANGED <<sinkVars, printVars>>
  BY <1>2, StreamReceive
<1>3. CASE \E n \in Nodes : Track(n) /\ UNCHANGED <<channelVars, sourceVars, sinkVars>>
  BY <1>3, StreamPrint
<1>4. CASE UNCHANGED <<emitted, added>>
  BY <1>4 DEF Stream!vars
<1> QED
  BY <1>1, <1>2, <1>3, <1>4
     DEF Next, StartQuery, MainStep, SourceThread, SourceStep, Continue, GeneratorStops, ExternalStop,
         InternalStop, PipelineStops, StopPrint, WorkerStep, TrackPanics, sourceVars, printVars

\* Whatever the queues, the stops and the lost connections do, what a query hands
\* on and prints is what its generator made, in that order, with gaps and
\* repetitions but nothing made up and nothing overtaken (main.rs:78-89, 395-428).
THEOREM OrderedStreamImplemented == Spec => ImplementsOrderedStream
<1>1. TypeOK /\ OrderInv /\ [Next]_vars => [Stream!Next]_(Stream!vars)
  <2>1. ASSUME UNCHANGED vars PROVE UNCHANGED Stream!vars
    BY <2>1 DEF vars, sourceVars, printVars, Stream!vars
  <2> QED
    BY <2>1, StreamStep
<1> QED
  BY TypeCorrect, OrderInvariant, StreamInit, <1>1, PTL DEF Spec, ImplementsOrderedStream, Stream!Spec
=============================================================================
