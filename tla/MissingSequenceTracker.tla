----------------------- MODULE MissingSequenceTracker -----------------------
(***************************************************************************)
(* MissingSequenceTracker of the test node: a set of the positive numbers  *)
(* seen, from which those below the lowest missing one are forgotten.      *)
(***************************************************************************)
EXTENDS Integers, FiniteSets

CONSTANT TrackerLimit   \* numbers held before some are forgotten

ASSUME TrackerAssumption == TrackerLimit \in Nat

Tracker ==
    {t \in [seen : SUBSET (Nat \ {0}), highestSeen : Nat, lowestRemoved : Nat] :
        /\ t.lowestRemoved <= t.highestSeen
        /\ \A n \in t.seen : n <= t.highestSeen}

EmptyTracker == [seen |-> {}, highestSeen |-> 0, lowestRemoved |-> 0]

\* The lowest number not seen.  The shortcut counts what was seen; without it the
\* numbers above the forgotten ones are tried one by one.
Query(t) ==
    IF Cardinality(t.seen) = t.highestSeen - t.lowestRemoved
    THEN t.highestSeen + 1
    ELSE CHOOSE n \in (t.lowestRemoved + 1) .. (t.lowestRemoved + t.highestSeen) :
            /\ n \notin t.seen
            /\ \A m \in (t.lowestRemoved + 1) .. (n - 1) : m \in t.seen

Insert(t, num) ==
    [t EXCEPT !.seen = @ \cup {num},
              !.highestSeen = IF num > @ THEN num ELSE @]

Forget(t) ==
    [t EXCEPT !.seen = {n \in @ : n > Query(t)},
              !.lowestRemoved = Query(t) - 1]

\* Mutant of Add: the lowest missing number is taken for the last forgotten one.
AddForgetsOneMore(t, num) ==
    LET inserted == Insert(t, num)
    IN  IF Cardinality(inserted.seen) > TrackerLimit
        THEN [Forget(inserted) EXCEPT !.lowestRemoved = @ + 1]
        ELSE inserted

Add(t, num) ==
    LET inserted == Insert(t, num)
    IN  IF Cardinality(inserted.seen) > TrackerLimit THEN Forget(inserted) ELSE inserted
=============================================================================
