----------------------------- MODULE GapReceiver -----------------------------
(***************************************************************************)
(* src/bin/receiver.rs of BDSPro_UDP_Channel: one loop that waits for a    *)
(* datagram, records it, requests the numbers missing between the smallest *)
(* and the largest one seen, and then looks at the requests that timed     *)
(* out.  Nothing happens between two datagrams, so one iteration is one    *)
(* action.                                                                 *)
(***************************************************************************)
EXTENDS GapNetwork

CONSTANTS
    MaxAttempts,    \* max_retransmission_attempts
    Oversized,      \* lines whose DATA datagram exceeds the 1024-byte read buffer
    RepliesMayFail  \* whether socket.send_to can return an error

ASSUME MaxAttemptsAssumption == MaxAttempts \in Nat \ {0}
ASSUME GapReceiverAssumption ==
    /\ Oversized \subseteq Seqs
    /\ RepliesMayFail \in BOOLEAN

VARIABLES
    listening,      \* whether the receiver process runs
    receivedSeqs,   \* received_seqs
    pending,        \* keys of retransmission_requests
    timedOut,       \* those of them whose Instant is older than retransmission_timeout
    attempts,       \* retransmission_attempts, 0 for a number with no entry
    requested       \* history: RQSTs sent for each number

gapVars == <<listening, receivedSeqs, pending, timedOut, attempts, requested>>

GapTypeOK ==
    /\ listening \in BOOLEAN
    /\ receivedSeqs \in SUBSET Seqs
    /\ pending \in SUBSET Seqs
    /\ timedOut \in SUBSET pending
    /\ attempts \in [Seqs -> 0 .. MaxAttempts]
    /\ requested \in [Seqs -> Nat]

GapInit ==
    /\ listening = TRUE
    /\ receivedSeqs = {}
    /\ pending = {}
    /\ timedOut = {}
    /\ attempts = [s \in Seqs |-> 0]
    /\ requested = [s \in Seqs |-> 0]

\* min_seq ..= max_seq of a set of numbers seen, without the seen ones.
Gaps(seen) == {s \in Seqs \ seen : (\E lo \in seen : lo < s) /\ (\E hi \in seen : s < hi)}

\* Mutant of CheckTimeouts: the attempts of a number that is not pending are
\* forgotten with its request.
CheckTimeoutsForgets(stillPending, counted) ==
    LET late == timedOut \cap stillPending
    IN  /\ pending' = stillPending \ late
        /\ timedOut' = {}
        /\ attempts' = [s \in Seqs |->
                          IF s \notin stillPending THEN 0
                          ELSE counted[s] + (IF s \in late /\ counted[s] < MaxAttempts THEN 1 ELSE 0)]

\* Mutant of CheckTimeouts: the attempt is not counted.
CheckTimeoutsUncounted(stillPending, counted) ==
    /\ pending' = stillPending \ timedOut
    /\ timedOut' = {}
    /\ attempts' = counted

\* Mutant of CheckTimeouts: only a request below the limit is dropped.
CheckTimeoutsKeepsLast(stillPending, counted) ==
    LET late == {s \in timedOut \cap stillPending : counted[s] < MaxAttempts}
    IN  /\ pending' = stillPending \ late
        /\ timedOut' = {}
        /\ attempts' = [s \in Seqs |-> counted[s] + (IF s \in late THEN 1 ELSE 0)]

\* check_retransmission_timeouts, over the requests that are still pending
\* after the datagram was handled: below the limit an attempt is counted, but for
\* want of the sender's address nothing is sent.
CheckTimeouts(stillPending, counted) ==
    LET late == timedOut \cap stillPending
    IN  /\ pending' = stillPending \ late
        /\ timedOut' = {}
        /\ attempts' = [s \in Seqs |->
                          counted[s] + (IF s \in late /\ counted[s] < MaxAttempts THEN 1 ELSE 0)]

\* The attempts once the number of m is recorded: a pending request of it is
\* removed, and its attempts with it.
Kept(m) == [attempts EXCEPT ![m.seq] = IF m.seq \in pending THEN 0 ELSE @]

\* Mutant of Missing: gaps are looked for before the number is recorded.
MissingBeforeRecord(m) ==
    {s \in Gaps(receivedSeqs) : s \notin pending /\ Kept(m)[s] < MaxAttempts}

\* Mutant of Missing: the limit is off by one.
MissingOneMore(m) ==
    {s \in Gaps(receivedSeqs \cup {m.seq}) : s \notin pending /\ Kept(m)[s] <= MaxAttempts}

\* missing_sequences: the numbers to be requested when m is recorded.
Missing(m) ==
    {s \in Gaps(receivedSeqs \cup {m.seq}) : s \notin pending /\ Kept(m)[s] < MaxAttempts}

\* f, with one more for each number in sent.
Plus(f, sent) == [s \in Seqs |-> f[s] + (IF s \in sent THEN 1 ELSE 0)]

\* A DATA datagram is recorded, and the numbers in sent are requested from the
\* sender of this very datagram.
RecordData(m, sent) ==
    /\ listening
    /\ m \in toReceiver
    /\ m.seq \notin Oversized
    /\ receivedSeqs' = receivedSeqs \cup {m.seq}
    /\ requested' = Plus(requested, sent)
    /\ toSenders' = toSenders \cup {[to |-> m.from, seq |-> s] : s \in sent}

\* A DATA datagram: record it, drop its pending request, request what is
\* missing, then check the timeouts.
ReceiveData(m, rest) ==
    /\ RecordData(m, Missing(m))
    /\ toReceiver' = rest
    /\ CheckTimeouts((pending \ {m.seq}) \cup Missing(m), Plus(Kept(m), Missing(m)))
    /\ UNCHANGED listening

\* A datagram that does not parse is logged; the timeouts are checked all the same.
ReceiveUnreadable(m) ==
    /\ listening
    /\ m \in toReceiver
    /\ m.seq \in Oversized
    /\ toReceiver' = toReceiver \ {m}
    /\ CheckTimeouts(pending, attempts)
    /\ UNCHANGED <<listening, toSenders, receivedSeqs, requested>>

\* What was requested when a send fails: nothing if it was the ACK, or the numbers
\* below the one whose RQST failed.
RequestedSoFar(m) == {{}} \cup {{t \in Missing(m) : t < s} : s \in Missing(m)}

\* Sending the ACK panics (expect) or sending a RQST fails (`?`): the process ends.
ReplyFails(m) ==
    /\ RepliesMayFail
    /\ \E sent \in RequestedSoFar(m) :
          /\ RecordData(m, sent)
          /\ pending' = (pending \ {m.seq}) \cup sent
          /\ attempts' = Plus(Kept(m), sent)
    /\ toReceiver' = toReceiver \ {m}
    /\ timedOut' = timedOut \ {m.seq}
    /\ listening' = FALSE

\* retransmission_timeout passes since the request for s.
Expire(s) ==
    /\ listening
    /\ s \in pending \ timedOut
    /\ timedOut' = timedOut \cup {s}
    /\ UNCHANGED <<networkVars, listening, receivedSeqs, pending, attempts, requested>>

GapNext ==
    \/ \E m \in toReceiver :
          \/ \E rest \in ReadDatagram(toReceiver, m) : ReceiveData(m, rest)
          \/ ReceiveUnreadable(m)
          \/ ReplyFails(m)
    \/ \E s \in Seqs : Expire(s)
=============================================================================
