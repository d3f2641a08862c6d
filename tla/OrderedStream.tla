---------------------------- MODULE OrderedStream ----------------------------
(***************************************************************************)
(* What a set of test nodes promises: a query that prints has been handed  *)
(* only numbers that a generator at the head of its queries made, in the   *)
(* order they were made.  Numbers may be left out, and may come again      *)
(* before the next higher one.                                             *)
(***************************************************************************)
EXTENDS NodeConfig

VARIABLES
    emitted,    \* per query: the numbers its source has handed on
    printed     \* per query: the numbers that reached its print sink

vars == <<emitted, printed>>

Init ==
    /\ emitted = [q \in Queries |-> {}]
    /\ printed = [q \in Queries |-> {}]

\* num is not behind any number of S.
Follows(num, S) == \A m \in S : m <= num

Generate(q) ==
    /\ Generates(q)
    /\ \E num \in Numbers :
          /\ emitted[q] = 1 .. (num - 1)
          /\ emitted' = [emitted EXCEPT ![q] = @ \cup {num}]
    /\ UNCHANGED printed

\* A query that reads a channel hands on what the query that writes it has.
PassOn(q) ==
    /\ ~Generates(q)
    /\ \E w \in Queries : Output[w] = Input[q] /\ \E num \in emitted[w] :
          /\ Follows(num, emitted[q])
          /\ emitted' = [emitted EXCEPT ![q] = @ \cup {num}]
    /\ UNCHANGED printed

PrintNumber(q) ==
    /\ Prints(q)
    /\ \E num \in emitted[q] :
          /\ Follows(num, printed[q])
          /\ printed' = [printed EXCEPT ![q] = @ \cup {num}]
    /\ UNCHANGED emitted

Next == \E q \in Queries : Generate(q) \/ PassOn(q) \/ PrintNumber(q)

Spec == Init /\ [][Next]_vars
=============================================================================
