---------------------------- MODULE TrackerProofs ----------------------------
(***************************************************************************)
(* MissingSequenceTracker answers with the lowest number not added to it,  *)
(* in whatever order the numbers come and however many it holds.           *)
(***************************************************************************)
EXTENDS MissingSequenceTracker, FiniteSetTheorems, WellFoundedInduction, TLAPS

\* A tracker t holds what is needed of the set S of all numbers added to it.
Tracks(t, S) ==
    /\ t \in Tracker
    /\ S = 1 .. t.lowestRemoved \cup t.seen
    /\ \A n \in t.seen : t.lowestRemoved < n

LowestMissing(k, S) ==
    /\ k \in Nat \ {0}
    /\ k \notin S
    /\ \A m \in 1 .. (k - 1) : m \in S

\* A new tracker has been told of no number.
LEMMA EmptyTracks == Tracks(EmptyTracker, {})
BY DEF Tracks, EmptyTracker, Tracker

\* A set of numbers that is not empty has a least member.
LEMMA LeastNumber ==
    ASSUME NEW S \in SUBSET Nat, S # {}
    PROVE  \E n \in S : \A m \in S : n <= m
<1>1. PICK n \in S : \A m \in S : ~(<<m, n>> \in OpToRel(<, Nat))
  BY NatLessThanWellFounded, WFMin
<1>2. \A m \in S : ~(m < n)
  BY <1>1 DEF OpToRel
<1> QED
  BY <1>2

\* The shortcut of query() is taken when nothing above the forgotten numbers is
\* missing, and only then: counting the numbers held is enough.
LEMMA ShortcutIsExact ==
    ASSUME NEW t \in Tracker, \A n \in t.seen : t.lowestRemoved < n
    PROVE  Cardinality(t.seen) = t.highestSeen - t.lowestRemoved
              <=> t.seen = (t.lowestRemoved + 1) .. t.highestSeen
<1> DEFINE low == t.lowestRemoved + 1
           high == t.highestSeen
<1>1. low \in Nat /\ high \in Nat /\ low <= high + 1
  BY DEF Tracker
<1>2. t.seen \subseteq low .. high
  BY DEF Tracker
<1>3. high - t.lowestRemoved = high - low + 1
  BY DEF Tracker
<1> HIDE DEF low, high
<1>4. IsFiniteSet(low .. high) /\ Cardinality(low .. high) = IF low > high THEN 0 ELSE high - low + 1
  BY <1>1, FS_Interval
<1>5. Cardinality(low .. high) = high - low + 1
  BY <1>1, <1>4
<1>6. Cardinality(t.seen) = high - low + 1 <=> t.seen = low .. high
  BY <1>2, <1>4, <1>5, FS_Subset
<1> QED
  BY <1>3, <1>6 DEF low, high

\* Without the shortcut the lowest number held by nobody is found, also where a
\* number that was forgotten came again.
LEMMA SearchFinds ==
    ASSUME NEW t \in Tracker, Cardinality(t.seen) # t.highestSeen - t.lowestRemoved
    PROVE  /\ Query(t) \in (t.lowestRemoved + 1) .. (t.highestSeen + 1)
           /\ Query(t) \notin t.seen
           /\ \A m \in (t.lowestRemoved + 1) .. (Query(t) - 1) : m \in t.seen
<1> DEFINE range == (t.lowestRemoved + 1) .. (t.lowestRemoved + t.highestSeen)
           missing == {n \in range : n \notin t.seen /\ n <= t.highestSeen + 1}
           IsAnswer(n) == /\ n \notin t.seen
                          /\ \A m \in (t.lowestRemoved + 1) .. (n - 1) : m \in t.seen
<1>1. t.lowestRemoved \in Nat /\ t.highestSeen \in Nat /\ t.lowestRemoved <= t.highestSeen
  BY DEF Tracker
<1>2. \A n \in t.seen : n \in Nat \ {0} /\ n <= t.highestSeen
  BY DEF Tracker
<1>3. missing # {}
  <2>1. CASE t.lowestRemoved = 0
    <3>1. t.seen # 1 .. t.highestSeen
      <4>1. \A n \in t.seen : t.lowestRemoved < n
        BY <1>2, <2>1
      <4> QED
        BY <2>1, <4>1, ShortcutIsExact
    <3>2. t.seen \subseteq 1 .. t.highestSeen
      BY <1>1, <1>2
    <3>3. PICK n \in 1 .. t.highestSeen : n \notin t.seen
      BY <3>1, <3>2
    <3>4. n \in missing
      BY <1>1, <2>1, <3>3
    <3> QED
      BY <3>4
  <2>2. CASE t.lowestRemoved # 0
    <3>1. t.highestSeen + 1 \in missing
      BY <1>1, <1>2, <2>2
    <3> QED
      BY <3>1
  <2> QED
    BY <2>1, <2>2
<1>4. missing \in SUBSET Nat
  BY <1>1
<1>5. PICK n \in missing : \A m \in missing : n <= m
  BY <1>3, <1>4, LeastNumber
<1>6. n \in range /\ IsAnswer(n)
  BY <1>1, <1>5
<1>7. Query(t) = CHOOSE k \in range : IsAnswer(k)
  BY DEF Query
<1>8. Query(t) \in range /\ IsAnswer(Query(t))
  BY <1>6, <1>7
<1>9. Query(t) <= n
  <2> SUFFICES ASSUME n < Query(t) PROVE FALSE
    BY <1>1, <1>5, <1>8
  <2>1. n \in (t.lowestRemoved + 1) .. (Query(t) - 1)
    BY <1>1, <1>5, <1>8
  <2> QED
    BY <1>5, <1>8, <2>1
<1> QED
  BY <1>1, <1>5, <1>8, <1>9

\* The number query returns exists, and lies within its range.
LEMMA QueryTypes ==
    ASSUME NEW t \in Tracker
    PROVE  Query(t) \in (t.lowestRemoved + 1) .. (t.highestSeen + 1)
<1>1. CASE Cardinality(t.seen) = t.highestSeen - t.lowestRemoved
  BY <1>1 DEF Query, Tracker
<1>2. CASE Cardinality(t.seen) # t.highestSeen - t.lowestRemoved
  BY <1>2, SearchFinds
<1> QED
  BY <1>1, <1>2

\* It is the lowest number that was not added.
LEMMA QueryIsLowest ==
    ASSUME NEW t, NEW S, Tracks(t, S)
    PROVE  LowestMissing(Query(t), S)
<1>1. t \in Tracker /\ \A n \in t.seen : t.lowestRemoved < n
  BY DEF Tracks
<1>2. CASE Cardinality(t.seen) = t.highestSeen - t.lowestRemoved
  <2>1. t.seen = (t.lowestRemoved + 1) .. t.highestSeen
    BY <1>1, <1>2, ShortcutIsExact
  <2>2. Query(t) = t.highestSeen + 1
    BY <1>2 DEF Query
  <2> QED
    BY <2>1, <2>2 DEF Tracks, Tracker, LowestMissing
<1>3. CASE Cardinality(t.seen) # t.highestSeen - t.lowestRemoved
  BY <1>1, <1>3, SearchFinds DEF Tracks, Tracker, LowestMissing
<1> QED
  BY <1>2, <1>3

\* What the first half of add does to the fields of the tracker.
LEMMA InsertTypes ==
    ASSUME NEW t \in Tracker, NEW num \in Nat \ {0}
    PROVE  /\ Insert(t, num) \in Tracker
           /\ Insert(t, num).seen = t.seen \cup {num}
           /\ Insert(t, num).lowestRemoved = t.lowestRemoved
<1> DEFINE inserted == Insert(t, num)
           Fields == [seen : SUBSET (Nat \ {0}), highestSeen : Nat, lowestRemoved : Nat]
<1>1. t \in Fields
  BY DEF Tracker
<1>2. /\ inserted.seen = t.seen \cup {num}
      /\ inserted.highestSeen = IF num > t.highestSeen THEN num ELSE t.highestSeen
      /\ inserted.lowestRemoved = t.lowestRemoved
      /\ inserted \in Fields
  BY <1>1 DEF Insert
<1> HIDE DEF inserted
<1>3. inserted.lowestRemoved <= inserted.highestSeen
  BY <1>2 DEF Tracker
<1>4. \A n \in inserted.seen : n <= inserted.highestSeen
  BY <1>2 DEF Tracker
<1>5. inserted \in Tracker
  BY <1>2, <1>3, <1>4 DEF Tracker
<1> QED
  BY <1>2, <1>5 DEF inserted

\* What the second half of add does to them: the numbers below the answer of
\* query go.
LEMMA ForgetTypes ==
    ASSUME NEW t \in Tracker
    PROVE  /\ Forget(t) \in Tracker
           /\ Forget(t).seen = {n \in t.seen : n > Query(t)}
           /\ Forget(t).lowestRemoved = Query(t) - 1
<1>1. Query(t) \in Nat \ {0} /\ Query(t) - 1 \in Nat /\ Query(t) - 1 <= t.highestSeen
  BY QueryTypes DEF Tracker
<1> QED
  BY <1>1 DEF Tracker, Forget

\* A tracker stays one whatever number is added, be it forgotten or not.
LEMMA AddTypes ==
    ASSUME NEW t \in Tracker, NEW num \in Nat \ {0}
    PROVE  Add(t, num) \in Tracker
BY InsertTypes, ForgetTypes DEF Add

\* The first half of add keeps track of a new number.
LEMMA InsertTracks ==
    ASSUME NEW t, NEW S, Tracks(t, S), NEW num \in Nat \ {0}, num \notin S
    PROVE  Tracks(Insert(t, num), S \cup {num})
<1>1. num > t.lowestRemoved
  BY DEF Tracks, Tracker
<1>2. /\ Insert(t, num) \in Tracker
      /\ Insert(t, num).seen = t.seen \cup {num}
      /\ Insert(t, num).lowestRemoved = t.lowestRemoved
  BY InsertTypes DEF Tracks
<1>3. S \cup {num} = 1 .. t.lowestRemoved \cup (t.seen \cup {num})
  BY DEF Tracks
<1>4. \A n \in t.seen \cup {num} : t.lowestRemoved < n
  BY <1>1 DEF Tracks
<1> QED
  BY <1>2, <1>3, <1>4 DEF Tracks

\* Forgetting the numbers below the lowest missing one loses nothing.
LEMMA ForgetTracks ==
    ASSUME NEW t, NEW S, Tracks(t, S)
    PROVE  Tracks(Forget(t), S)
<1>1. t \in Tracker
  BY DEF Tracks
<1>2. LowestMissing(Query(t), S) /\ Query(t) > t.lowestRemoved
  BY <1>1, QueryIsLowest, QueryTypes DEF Tracker
<1>3. S = 1 .. (Query(t) - 1) \cup {n \in t.seen : n > Query(t)}
  BY <1>1, <1>2 DEF Tracks, Tracker, LowestMissing
<1>4. \A n \in {m \in t.seen : m > Query(t)} : Query(t) - 1 < n
  BY <1>1, <1>2 DEF Tracker, LowestMissing
<1> QED
  BY <1>1, <1>3, <1>4, ForgetTypes DEF Tracks

\* add keeps track of a new number.
LEMMA AddTracks ==
    ASSUME NEW t, NEW S, Tracks(t, S), NEW num \in Nat \ {0}, num \notin S
    PROVE  Tracks(Add(t, num), S \cup {num})
BY InsertTracks, ForgetTracks DEF Add
=============================================================================
