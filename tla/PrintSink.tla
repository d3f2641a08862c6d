------------------------------ MODULE PrintSink ------------------------------
(***************************************************************************)
(* PrintSink: execute adds a buffer's number to the MissingSequenceTracker,*)
(* stop reports what the tracker says was received without a gap.          *)
(***************************************************************************)
EXTENDS QueryEngine, MissingSequenceTracker

VARIABLES
    tracker,    \* PrintSink::sequence_tracker
    added,      \* history: the numbers added to it
    again       \* history: whether one of them was accepted twice

printVars == <<tracker, added, again>>

PrintTypeOK ==
    /\ tracker \in [Queries -> Tracker]
    /\ added \in [Queries -> SUBSET Numbers]
    /\ again \in [Queries -> BOOLEAN]

PrintInit ==
    /\ tracker = [q \in Queries |-> EmptyTracker]
    /\ added = [q \in Queries |-> {}]
    /\ again = [q \in Queries |-> FALSE]

Printing(n) ==
    /\ worker[n] = "execute"
    /\ Prints(task[n].query)

\* The assertion sees the numbers held; one that was forgotten is accepted again.
Track(n) ==
    LET q == task[n].query
        num == task[n].num
    IN  /\ Printing(n)
        /\ num \notin tracker[q].seen
        /\ tracker' = [tracker EXCEPT ![q] = Add(@, num)]
        /\ again' = [again EXCEPT ![q] = @ \/ num \in added[q]]
        /\ added' = [added EXCEPT ![q] = @ \cup {num}]
        /\ FinishTask(n)
        /\ UNCHANGED <<queryState, source, taskQueue, up>>

\* "Number {} has already been seen": the worker is gone and the Mutex of the tracker
\* poisoned.  Where unwinding drops the node, its stop panics again: an abort.
TrackPanics(n) ==
    LET q == task[n].query
    IN  /\ Printing(n)
        /\ task[n].num \in tracker[q].seen
        /\ worker' = [worker EXCEPT ![n] = "dead"]
        /\ up' = [up EXCEPT ![n] = ~LastReference(q)]
        /\ UNCHANGED <<queryState, source, taskQueue, task, pipeline, printVars>>

Poisoned(q) == worker[NodeOf[q]] = "dead" /\ task[NodeOf[q]].query = q

\* A poisoned Mutex makes stop panic, on the main thread: the process ends.
StopPrint(q) ==
    /\ Prints(q)
    /\ pipeline[q] = "flush"
    /\ IF Poisoned(q)
       THEN /\ up' = [up EXCEPT ![NodeOf[q]] = FALSE]
            /\ UNCHANGED pipeline
       ELSE /\ pipeline' = [pipeline EXCEPT ![q] = "done"]
            /\ UNCHANGED up
    /\ UNCHANGED <<queryState, source, taskQueue, worker, task, printVars>>
=============================================================================
