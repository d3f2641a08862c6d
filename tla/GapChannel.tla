----------------------------- MODULE GapChannel -----------------------------
(***************************************************************************)
(* Stdin senders and the gap-detecting receiver over an unreliable         *)
(* network.                                                                *)
(***************************************************************************)
EXTENDS StdinSender, GapReceiver

vars == <<networkVars, stdinVars, gapVars>>

Init ==
    /\ NetworkInit
    /\ StdinInit
    /\ GapInit

Lose == LoseDatagram /\ UNCHANGED <<stdinVars, gapVars>>

Next ==
    \/ StdinNext /\ UNCHANGED gapVars
    \/ GapNext /\ UNCHANGED stdinVars
    \/ Lose

Spec == Init /\ [][Next]_vars

----------------------------------------------------------------------------
(* Safety. *)

TypeOK ==
    /\ NetworkTypeOK
    /\ StdinTypeOK
    /\ GapTypeOK

\* Only a gap is ever pending, and every gap has been requested: recording,
\* forgetting the request of a received number and looking for gaps happen in
\* the order that makes this true after each datagram (receiver.rs:55-105), unless
\* a request could not be sent and the receiver has ended.
GapsAreRequested ==
    /\ pending \subseteq Gaps(receivedSeqs)
    /\ listening => \A s \in Gaps(receivedSeqs) : requested[s] > 0

\* Every second attempt the receiver counts sends nothing (receiver.rs:198-216),
\* so a number is requested at most half of max_retransmission_attempts times,
\* rounded up, and a missing one exactly half of its attempts.
RequestBudget ==
    \A s \in Seqs :
        /\ requested[s] <= (MaxAttempts + 1) \div 2
        /\ s \notin receivedSeqs => requested[s] = (attempts[s] + 1) \div 2

\* Why it holds: a number is pending after an odd attempt, the one that sent
\* the RQST, and not pending after an even one or the last.
AttemptParity ==
    \A s \in Seqs \ receivedSeqs :
        /\ s \in pending => attempts[s] % 2 = 1
        /\ s \notin pending => attempts[s] % 2 = 0 \/ attempts[s] = MaxAttempts

\* The receiver has stopped asking for s (receiver.rs:142-146, 217-221).
GivenUp(s) == s \in Gaps(receivedSeqs) /\ s \notin pending /\ attempts[s] >= MaxAttempts

\* A number once given up stays given up: over whatever arrives later and however
\* often it is missed, its attempts and its absence from the pending requests are
\* kept together, so that it is not requested again, until it is received after all.
GiveUpIsFinal ==
    [][\A s \in Seqs :
          GivenUp(s) => /\ requested'[s] = requested[s]
                        /\ GivenUp(s)' \/ s \in receivedSeqs']_vars

----------------------------------------------------------------------------
(* Liveness. *)

\* The tasks of a running sender are polled, time passes, and a datagram that
\* is in transit again and again is read.  Nothing makes the user type another line.
Fairness ==
    /\ \A p \in Senders :
          /\ WF_vars(AnswerRequest(p) /\ UNCHANGED gapVars)
          /\ \A m \in RequestMessage :
                WF_vars(QueueRequest(p, m, toSenders \ {m}) /\ UNCHANGED gapVars)
    /\ \A s \in Seqs : WF_vars(Expire(s) /\ UNCHANGED stdinVars)
    /\ \A m \in DataMessage :
          SF_vars((ReceiveData(m, toReceiver \ {m}) \/ ReceiveUnreadable(m)) /\ UNCHANGED stdinVars)

FairSpec == Spec /\ Fairness

\* While DATA keeps arriving, every gap is filled or given up in the end:
\* no request stays pending for ever (receiver.rs:177-225).
DataKeepsArriving == []<>(\E m \in toReceiver : m.seq \notin Oversized)

GapsAreResolved ==
    DataKeepsArriving =>
        \A s \in Seqs : (s \in Gaps(receivedSeqs)) ~> (s \in receivedSeqs \/ GivenUp(s))
=============================================================================
