---- MODULE MCOrder ----
EXTENDS TestNode, TLC
CONSTANTS n1, n2, n3, generator, bridge, print, wire, wire2
MCNodeOf == (generator :> n1) @@ (print :> n2) @@ (bridge :> n2)
MCInput == (generator :> None) @@ (bridge :> wire) @@ (print :> wire2)
MCOutput == (generator :> wire) @@ (bridge :> wire2) @@ (print :> None)
Elements(s) == {s[i] : i \in DOMAIN s}

Sorted(s) == \A i, j \in DOMAIN s : i < j /\ s[j] # 0 => s[i] <= s[j]

Under(S, T) == \A x \in S, y \in T : y # 0 => x <= y

InLine(a, b, c, d, e) ==
    /\ Sorted(a) /\ Sorted(b) /\ Sorted(c) /\ Sorted(d) /\ Sorted(e)
    /\ Under(Elements(a), Elements(b)) /\ Under(Elements(a), Elements(c))
    /\ Under(Elements(a), Elements(d)) /\ Under(Elements(a), Elements(e))
    /\ Under(Elements(b), Elements(c)) /\ Under(Elements(b), Elements(d))
    /\ Under(Elements(b), Elements(e)) /\ Under(Elements(c), Elements(d))
    /\ Under(Elements(c), Elements(e)) /\ Under(Elements(d), Elements(e))

All(a, b, c, d, e) ==
    Elements(a) \cup Elements(b) \cup Elements(c) \cup Elements(d) \cup Elements(e)

LineOf(q) ==
    InLine(DataNumbers(q), SentNumbers(q), backlog[q], TaskNumbers(q), QueuedNumbers(q))

NumbersOf(q) ==
    All(DataNumbers(q), SentNumbers(q), backlog[q], TaskNumbers(q), QueuedNumbers(q))

Reads(r, q) == Output[q] # None /\ Input[r] = Output[q]

OrderInv ==
    /\ \A q \in Queries : LineOf(q) /\ NumbersOf(q) \subseteq emitted[q] \cup {0}
    /\ \A q \in Queries : added[q] \subseteq emitted[q] /\ Under(added[q], NumbersOf(q))
    /\ \A q, r \in Queries :
          Reads(r, q) => emitted[r] \subseteq emitted[q] /\ Under(emitted[r], NumbersOf(q))
    /\ \A c \in Channels :
          (\A q \in Queries : Output[q] # c) => data[c] = <<>> /\ control[c] = <<>>
    /\ \A n \in Nodes : Sending(n, "send") => backlog[task[n].query] = <<>>
====
