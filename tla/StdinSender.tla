---------------------------- MODULE StdinSender ----------------------------
(***************************************************************************)
(* src/bin/sender.rs of BDSPro_UDP_Channel: the main loop that numbers and *)
(* sends the lines of stdin, the task that receives RQSTs, and the task    *)
(* that answers them.                                                      *)
(***************************************************************************)
EXTENDS GapNetwork

CONSTANTS
    RequestQueueSize,   \* capacity of the mpsc queue of RQSTs
    SendsMayFail        \* whether socket.send can return an error

ASSUME StdinSenderAssumption ==
    /\ RequestQueueSize \in Nat
    /\ SendsMayFail \in BOOLEAN

VARIABLES
    lineSeq,    \* per sender: seq of the next line; sent_messages holds 1 .. lineSeq - 1
    running,    \* per sender: whether the process runs
    answering,  \* per sender: whether the task answering RQSTs has not panicked
    requests    \* per sender: the mpsc queue of missing_seq

stdinVars == <<lineSeq, running, answering, requests>>

SentMessages(p) == 1 .. (lineSeq[p] - 1)

StdinTypeOK ==
    /\ lineSeq \in [Senders -> 1 .. (MaxSeq + 1)]
    /\ running \in [Senders -> BOOLEAN]
    /\ answering \in [Senders -> BOOLEAN]
    /\ requests \in [Senders -> Seq(Seqs)]

StdinInit ==
    /\ lineSeq = [p \in Senders |-> 1]
    /\ running = [p \in Senders |-> TRUE]
    /\ answering = [p \in Senders |-> TRUE]
    /\ requests = [p \in Senders |-> <<>>]

\* A line is recorded and sent under the lock of the map.
SendLine(p) ==
    /\ running[p]
    /\ lineSeq[p] <= MaxSeq
    /\ toReceiver' = toReceiver \cup {[from |-> p, seq |-> lineSeq[p]]}
    /\ lineSeq' = [lineSeq EXCEPT ![p] = @ + 1]
    /\ UNCHANGED <<toSenders, running, answering, requests>>

\* End of input, or an error of send: main returns, and its tasks with it.
Exit(p) ==
    /\ running[p]
    /\ running' = [running EXCEPT ![p] = FALSE]
    /\ requests' = [requests EXCEPT ![p] = <<>>]
    /\ UNCHANGED <<networkVars, lineSeq, answering>>

\* The receive task queues the RQST; once the answering task is gone tx.send
\* fails, and the RQST is dropped.
QueueRequest(p, m, rest) ==
    /\ running[p]
    /\ m \in toSenders
    /\ m.to = p
    /\ Len(requests[p]) < RequestQueueSize
    /\ requests' = [requests EXCEPT ![p] = IF answering[p] THEN Append(@, m.seq) ELSE @]
    /\ toSenders' = rest
    /\ UNCHANGED <<toReceiver, lineSeq, running, answering>>

AnswerRequest(p) ==
    /\ running[p]
    /\ answering[p]
    /\ requests[p] # <<>>
    /\ LET s == Head(requests[p])
       IN  toReceiver' = IF s \in SentMessages(p)
                         THEN toReceiver \cup {[from |-> p, seq |-> s]}
                         ELSE toReceiver
    /\ requests' = [requests EXCEPT ![p] = Tail(@)]
    /\ UNCHANGED <<toSenders, lineSeq, running, answering>>

\* send().await.unwrap() panics: the task ends, the process goes on without it.
AnswerPanics(p) ==
    /\ SendsMayFail
    /\ running[p]
    /\ answering[p]
    /\ requests[p] # <<>>
    /\ Head(requests[p]) \in SentMessages(p)
    /\ answering' = [answering EXCEPT ![p] = FALSE]
    /\ requests' = [requests EXCEPT ![p] = <<>>]
    /\ UNCHANGED <<networkVars, lineSeq, running>>

StdinNext ==
    \E p \in Senders :
        \/ SendLine(p)
        \/ Exit(p)
        \/ \E m \in toSenders : \E rest \in ReadDatagram(toSenders, m) :
              QueueRequest(p, m, rest)
        \/ AnswerRequest(p)
        \/ AnswerPanics(p)
=============================================================================
