# Verification of BDSPro UDP v2

TLA+ models, TLC runs and TLAPS proofs of the protocols of this repository:
the acknowledged UDP channel and the gap-detecting UDP receiver of
`src/external/BDSPro_UDP_Channel`, the TCP data channels of `src/network` with
the control plane that opens them, and the test nodes of `src/test-node`, whose
queries send and receive over these channels.

`tlc -workers 2 -config X.cfg M` repeats a run and `tlapm M.tla` a proof; the
module of each configuration is in the table of runs below.

## 1. The system

### 1.1 Components

| Component | Source | State | Operations | Talks to |
|---|---|---|---|---|
| `UdpSender` | `external/BDSPro_UDP_Channel/src/lib.rs:56-285` | `next_seq`, `send_window` (semaphore), `sent_messages`, `in_flight`, an mpsc queue of replies | `send_message`, `send_message_auto_seq`; receive task, reply handler, timeout task | `UdpReceiver`, by datagrams |
| `UdpReceiver` | the same, `:288-420` | `received_seqs`, `receive_buffer`, `buffer_semaphore` | `receive_message`, `receive_from_buffer`, `request_retransmit` | `UdpSender`, by datagrams |
| stdin sender | `.../src/bin/sender.rs` | `seq`, `sent_messages`, an mpsc queue of requested numbers | line loop, RQST receiver, answering task | gap receiver, by datagrams |
| gap receiver | `.../src/bin/receiver.rs` | `received_seqs`, `retransmission_requests`, `retransmission_attempts` | one loop: record, acknowledge, detect gaps, check timeouts | every sender that sends to it |
| auto sender | `.../src/bin/auto_sender.rs` | counters | calls `send_message_auto_seq` at an interval | `UdpSender` |
| data channel, sending end | `network/src/sender.rs:134-351` | the channel's queue, `pending_writes`, `wait_for_ack`, the `FramedWrite` | `run`, `flush`, `send_pending`, `handle_request`, `handle_response` | application (queue, oneshot), receiving end (TCP) |
| data channel, receiving end | `network/src/receiver.rs:74-200` | `pending_buffer`, the data queue | `channel_handler`, `create_channel_handler` | consumer (queue), sending end (TCP) |
| sender service: control connections | `network/src/sender.rs:353-760` | channels per connection, cancellation tokens | `connection_handler`, `establish_channel`, `attempt_channel_registration`, `network_sender_dispatcher` | receiver service (TCP), channel handlers (`RetryChannel`) |
| receiver service: control socket | `network/src/receiver.rs:140-400` | registered channels, active channels, one oneshot per opened channel | `control_socket`, `control_socket_handler`, `create_channel_handler` | sender service (TCP), channel handlers (`RetryChannel`) |
| service start and shutdown | both of `network/src` | runtime, cancellation token | `start`, `shutdown` | all tasks of the service |
| sinks and sources | `test-node/src/main.rs` | `NetworkSink`: queue, backlog, `closed`; `NetworkSource`: thread; `MissingSequenceTracker` | `execute`, `stop`, `start` | data channels, engine |
| query engine | `test-node/src/engine.rs` | task queue, queries | `start_query`, `stop_query`, the worker | sinks and sources |
| configuration | `test-node/src/config.rs` | none | parsing of YAML | |
| C++ bridge | `bridge-of-bridges/network/lib.rs` | global services | `send_channel`, `flush_channel`, `close_sender_channel`, `receive_buffer`, ... | data channels |

Behaviours that are hard to test, component by component (PROJECT.json lists
each at its line under `hazards`):

- *UdpSender*: four kinds of tasks share maps and a semaphore, with a lock
  released at every await; the permit of a call is given back by another task,
  when an ACK comes that may be lost, duplicated or late. Correct means: permits
  are neither created nor lost, an entry leaves `in_flight` only if the message
  was received, a number names one message, and everything in flight is
  acknowledged in the end.
- *UdpReceiver*: recording, buffering and acknowledging are three steps that
  tasks interleave. Correct means: the ACK is last, and buffer slots are
  conserved.
- *Gap receiver*: nothing happens between two datagrams, numbers of several
  senders share one set, and a timeout counts an attempt. Correct means: every
  gap is requested when it opens, not more often than the limit allows, and
  a number given up stays so.
- *Data channel*: `select!` cancels futures that were in the middle of
  `feed()`, handlers die with their connection and leave the queues to their
  successors, and `flush` has to wait for rounds of writes and
  acknowledgements. Correct means: order, at most once, a confirmed flush
  covers everything accepted before it, no protocol error of its own making,
  and flush returns.
- *Control plane*: two services open, retry, close and cancel channels
  concurrently. Correct means: a channel that both ends want is opened in the
  end, and at most one handler serves it.
- *Sinks, engine*: a backlog beside a queue, a single worker that sinks can
  block or panic, a node that is stopped by whichever thread drops it last, a
  sliding window of missing numbers. Correct means: full queues neither reorder
  nor lose a buffer, what a stop or a closed channel does lose is behind all that
  was sent, a stop returns unless it waits for its peer, and the tracker answers
  the lowest missing number.

### 1.2 Modules

| Module | Models |
|---|---|
| `UdpNetwork` | both directions of the UDP path of the library, as sets of datagrams: order is lost, `LoseData`/`LoseReply` drop one, a read may leave a copy behind (duplication) |
| `UdpSender` | the sender library, one action per stretch between two awaits |
| `UdpReceiver` | the receiver library, any number of tasks in `receive_message` |
| `UdpChannel` | the two and the network; all properties of the UDP channel |
| `AtLeastOnce` | abstract: a number is released only after it was received, and is received only after it was accepted |
| `MCUdpChannel` | the symmetries of the small instances |
| `UdpChannelProofs` | theorems about `UdpChannel` |
| `GapNetwork`, `StdinSender`, `GapReceiver`, `GapChannel` | the stdin senders and the gap receiver |
| `GapChannelProofs` | theorems about `GapChannel` |
| `DataStream` | one TCP connection of a data channel: a FIFO per direction, of which a lost connection delivers a prefix |
| `ChannelSender` | `ChannelHandler` of the sender service and the application that fills its queue |
| `ChannelReceiver` | `channel_handler` of the receiver service, its re-registration, and the consumer |
| `TcpChannel` | the two over one connection after another; all properties of the data channel |
| `FifoChannel` | abstract: buffers are delivered in order and at most once, a confirmation covers all that was accepted |
| `ControlNetwork` | the control connections of one sender and one receiver service, the frames on them, and the data connection of each channel |
| `ControlSender` | the negotiation of channels by the sender service |
| `ControlReceiver` | the control socket of the receiver service, its handlers, and the life of a registration |
| `ControlPlane` | the two, and the acceptor where they meet; all properties of the control plane |
| `Rendezvous` | abstract: an asker is connected to a registration of its channel that was granted, which serves it alone and is offered again only without it |
| `MCControlPlane` | the symmetry of its small instances |
| `TcpChannelProofs`, `ControlPlaneProofs` | theorems about `TcpChannel` and `ControlPlane` |
| `NodeConfig` | the configuration of a set of test nodes: which node runs which queries, over which channels |
| `QueryEngine` | the engine of a node: task queue, worker, and the main thread that stops queries |
| `NodeChannel` | the data channels as sinks and sources see them |
| `NodeSources` | `GeneratorSource` and `NetworkSource`, their threads, `emit` |
| `NetworkSink` | `NetworkSink::execute` with its backlog, and `stop` |
| `PrintSink` | `PrintSink::execute` and `stop`, with the panic of the tracker |
| `MissingSequenceTracker` | the tracker, as functions on a record |
| `TestNode` | all of them: nodes that run queries over channels; the properties of the test nodes |
| `OrderedStream` | abstract: what a query prints was made by a generator at the head of its queries, and comes in the order it was made |
| `MCTestNode` | its small instance: a generating query and a printing one |
| `NodeTypeProofs`, `TrackerProofs`, `TestNodeProofs`, `NodeOrderProofs` | theorems about `TestNode`: types, the tracker, the safety properties, and the order of the buffers |

The `map` in PROJECT.json gives the lines behind each definition. Definitions
named in a comment as a mutant are variants of the one that follows them; no
specification uses them.

## 2. How the models correspond to the code

### UDP channel

A call of `send_message` walks through `idle -> acquire -> record -> track ->
transmit`, one step per await: `AcquirePermit` or `SendWindowFull` (the timeout
of `lib.rs:207`), `RecordSent` (`sent_messages`), `TrackInFlight`
(`in_flight`), `Transmit` (the permit is forgotten) or `TransmitError` (`?`
drops the permit, and the entry stays). `CallAuto` takes its number under the
lock of `next_seq`; `CallExplicit` uses one of the caller's choice. `QueueReply`
is the receive task, `HandleAck` and `HandleRequest` the handler task it feeds,
`Expire` the passing of `ack_timeout`, `ScanExpired` one tick of the timeout
task under the lock, and `Retransmit` each send after the lock is released.
A payload is the caller that sends it, so two messages with one number are told
apart. `sent_time` is abstracted to "older than `ack_timeout`" (`expired`).

`receive_message` walks through `record -> push -> ack`; reading, parsing and
`try_acquire` are one step, as no await lies between them.
`ReceiveTruncated` is a datagram longer than the buffer of 1024 bytes.
`receive_from_buffer` pops and releases under one lock. Statistics change no
state and are left out; `sendErrors`, `overwritten`, `explicitCalls` and
`ackErrors` are history variables.

### Gap channel

An iteration of the receiver's loop is one action, `ReceiveData`, because the
loop awaits nothing but its own sends: it records the number, removes its
request, resets its attempts, requests the missing numbers from the sender of
this datagram, and then checks the timeouts. The gaps are those between the
smallest and the largest number seen. ACKs of this receiver are dropped by the
stdin sender and left out. A failing reply ends the process (`ReplyFails`), with
the RQSTs sent that came before the failing one (`RequestedSoFar`); a failing send ends the stdin sender (`Exit`) or its answering task
(`AnswerPanics`). `requested` counts the RQSTs sent, a history variable.
`bin/sender.rs:13` connects to port 8080 while `bin/receiver.rs:11` binds 8001;
the model is of the two with matching addresses.

### Data channel

`handler` says where the `ChannelHandler` waits. The branches of its `select!`
are actions, and each ends in `BranchDone`, which drops a `feed()` in progress:
`send_pending` puts a buffer into `wait_for_ack` *before* it awaits `feed()`
(`sender.rs:235-256`), so a cancelled one leaves the buffer there without ever
writing it. `SendPending` is that function up to the await, `FinishFeed` the
rest of it when the feed succeeds, `FeedFails` when it does not and the buffer goes
back to the front of `pending_writes`. `feed()` only fills the `FramedWrite`; what it holds goes out when
it is full or when `flush` writes it (`WriteOut`, `AwaitResponse`).
`BufferedFrames` is the size of the `FramedWrite` in frames, and
`StreamCapacity` that of the socket. `EndHandler` is the end of
`channel_handler`: everything the handler holds is dropped, the queue is kept, a
flush in progress is answered with an error. Its result is `retry` (the
connection failed, or the protocol did) or `closed`.

The receiving end hands a buffer over before it acknowledges it; a handler that
ends on an error, on the end of the stream or on Close registers the channel
again, one that finds its data queue closed sends Close and does not.
A lost connection is visible to each end when its own reads or writes fail
(`ReadEof`, `ConnectionError`, `ReceiverNetworkError`), before or after what was
already in the stream was read. Two actions stand for the whole control plane of a
channel that both ends wait to open. `OpenConnection` gives it new handlers.
`StrandChannel` is a grant whose connection fails, or arrives before the
receiver's task has inserted its oneshot (`receiver.rs:156`): the task waits at
`receiver.rs:158` for ever (`stranded`) and no later request finds the channel
registered, while the sender has a connection that ends at once, or none. How a
grant comes about is the subject of `ControlPlane`.

The application is `NetworkSink` or the C++ bridge. `FlushChannel` puts a flush
into the queue and waits for its oneshot; `FlushOnly` is the flush of
`flush_channel` whose oneshot the bridge does not await, so that a confirmation
reaches nobody. `SendTwice` is `NetworkSink::execute` with a backlog: the new
buffer is appended to the backlog, sent with it, and sent again below
(`main.rs:285-315`).

### Control plane

At the sender, `channel` says how far the registration of each channel has
come. `asking` is in the queue of the negotiating task (`channel_rx`, a channel
of capacity 10 that only delays a sender of it), `requested` waits for the
response, `connecting` is `create_channel`, and `open` runs the `ChannelHandler` of the data
channel. The negotiating task works on one channel at a time (`SendRequest`). When
a send or read fails, the channel it was working on asks again and only then a
new control connection is made (`BadConnection`, then `OpenControl`): the two
tasks of `connection_handler` hand it over with a oneshot.

At the receiver, a *registration* (a data queue and its cancellation token) is
in one place at a time, its `stage`: in the map of registered channels, with a
task that has yet to insert its oneshot (`insert`), waiting for the data
connection (`wait`), serving it (`serve`), on its way back in a `RetryChannel`
(`reopen`), or dropped. `queueClosed` and `cancelled` say what became of its
two parts, wherever it is. A map that is inserted into drops what was there
(`RegisterReceiver`, `Reopen`, `InsertOpened`). Between the response and the
connection, the task of a channel and the acceptor race; `AcceptChannel` drops a
connection for which nobody waits, after it was answered Ok. `ControlLost` is
the end of a control socket handler that cancels what it granted, `RespondFails`
the one that does not (`?` at `receiver.rs:230`, `:245`).

A frame written to a lost connection may be lost or still arrive. A data
connection is only up or down here: what travels on it is `TcpChannel`, of
which `OpenConnection` is `AcceptChannel`, `StrandChannel` a grant that leaves its
task in `wait`, and `CancelChannel` is `CancelHandler`. A buffer may still be read
from the socket when the other end has dropped its half of the connection
(`RefuseBuffer`). The identification of a connection is part of the step that
makes it. `ReopenPanics` is the `expect` of `receiver.rs:197`: after a shutdown
the task ends there and its registration is lost. `unwatched` is a history
variable.

### Test nodes

A node is a process with a main thread, one worker, and a thread per source.
Queries, channels and their wiring are constants (`NodeConfig`): a query
without input has a `GeneratorSource`, one without output a `PrintSink`. The main
thread starts and stops queries in any order, one at a time (`MainIdle`), and
may return, which ends the process (`Exit`).

The pipeline node of a query is an `Arc` held by the query, by the thread of its
source and by every task. `stop_query` sets the stop flag and joins the thread
(`BeginStop`, `DropQuery`); if tasks are left, the worker drops the node last
(`FinishTask`), otherwise the main thread does, and whoever does runs the
node's `stop` (`pipeline`: `open -> flush -> wait -> terminate -> done`) and is
blocked meanwhile: the main thread is `dropping`, the worker in `stop`. A task
the queue has no room for is dropped (`Emit`, `engine.rs:47-49`).

`NetworkSink::execute` is one action per `try_send`: `Execute` registers the
channel with the first buffer and puts a new one behind the backlog, `Drain`
empties it, and `SendBuffer`, `SendFull`, `SendClosed` are the three outcomes of
the last `match`. `DrainPanics` is the panic on a closed channel at
`main.rs:301`, `StopPanics` the `unwrap` of a queue that was never made, and
`TrackPanics` the assertion of the tracker, after which its Mutex is poisoned.
A panicked worker stays `dead`: its node executes nothing any more.

`NodeChannel` is what `TcpChannel` and `ControlPlane` show of a channel to its
two applications. A buffer goes from queue to queue in one step (`Deliver`) or
is lost with a connection (`LoseData`); a flush is confirmed (`AnswerFlush`), or
dropped with the connection its handler was busy on (`DropFlush`); the handler ends
on Terminate, on a Close that comes back (`Refuse`) or on the end of the stream
(`ReadEof`), and leaves its queue as it is; the receiver's side is cancelled with the
control connection (`CancelSource`). `link` is what becomes of the channel in between:
`abandoned` after a cancelled `feed()`, when no flush is answered until the
connection ends and the next handler waits for nothing (`Reconnect`), or `stranded`
after a grant without a connection (`Strand`), when nothing happens any more.
`emitted`, `dropped`, `sent`, `added` and `again` are history variables.

`Query` of `MissingSequenceTracker` is the loop of `main.rs:128-143` as the number
it returns; `TrackerProofs` shows that this number exists, so that the loop
never reaches its `unreachable!()`.

## 3. What the runs check

States are distinct states, times are with two workers.

| Run | Configuration, module | Properties | States |
|---|---|---|---|
| `udp_auto` | `UdpAuto.cfg`, `MCUdpChannel` | `ReleasedWasReceived`, `OneMessagePerSeq`, `ImplementsAtLeastOnce` | 0.9 M, 1 min |
| `udp_capacity` | `UdpCapacity.cfg`, `MCUdpChannel` | `TypeOK`, `WindowConserved`, `BufferConserved` | 2.2 M, 1.5 min |
| `udp_live` | `UdpLive.cfg`, `MCUdpChannel` | `ImplementsFairAtLeastOnce` | 2 min |
| `gap_safety` | `GapSafety.cfg`, `GapChannel` | `TypeOK`, `GapsAreRequested`, `RequestBudget`, `GiveUpIsFinal` | 212 k |
| `gap_live` | `GapLive.cfg`, `GapChannel` | `GapsAreResolved` | 25 k, 1 min |
| `tcp_safety` | `TcpSafety.cfg`, `TcpChannel` | `TypeOK`, `AcksAreExpected`, `NothingVanishes`, `ImplementsFifoChannel` | 1.2 M, 1.5 min |
| `tcp_live` | `TcpLive.cfg`, `TcpChannel` | `DeliveredInOrder`, `FlushReturns` | 532 k, 1.5 min |
| `ctl_safety` | `CtlSafety.cfg`, `MCControlPlane` | `TypeOK`, `OkIsHonoured`, `DroppedForReason`, `HandlersAreWatched` | 2.7 M, 1.5 to 3 min |
| `ctl_live` | `CtlLive.cfg`, `MCControlPlane` | `EventuallyOpened`, `ImplementsRendezvous` | 285 k, 1.5 min |
| `node` | `Node.cfg`, `MCTestNode` | `TypeOK`, `BuffersInOrder`, `NothingIsLost`, `SentWithoutGaps`, `QueryIsLowestMissing`, `StopsReturn`, `ImplementsOrderedStream` | 837 k, 2.5 to 4 min |
| `tcp_propagation` | `TcpPropagation.cfg`, `TcpChannel` | `ClosingIsPropagated`, violated | |
| `node_twice` | `NodeTwice.cfg`, `MCTestNode` | `NumbersAreNew`, violated | |

What they show:

- **UDP, safety.** A message leaves the window only after the receiver recorded
  it, whatever happens to ACKs and retransmissions. The slots of the window are
  conserved up to two leaks: a failed send gives a permit back while its entry
  stays in flight, and a number inserted again while in flight loses one. The
  receive buffer has the first leak as well, with a failed ACK. The channel
  implements `AtLeastOnce`.
- **UDP, liveness.** Once the network stops losing and duplicating, every
  message that fits a datagram is received and released, one whose first send
  failed included.
- **Gaps.** After each datagram the pending requests are gaps and every gap has
  been requested. A number is requested at most `(MaxAttempts + 1) \div 2`
  times, because every second attempt sends nothing. A number given up stays given
  up, whatever arrives, is missed or times out afterwards, until it arrives itself.
  While data keeps arriving, no gap stays open and pending for ever, also when the
  sender's answering task has died (`SendsMayFail`).
- **Data channel.** Over any sequence of connections: order, at most once, no
  unknown acknowledgement from a sender that sends each buffer once, nothing
  skipped, and a confirmed flush covers all that was accepted. Sending a buffer
  twice costs the connection and never the order. A flush returns unless a
  cancelled `feed()` abandoned a buffer, the channel is closed, or the receiver
  is stranded or has ended for good.
- **Control plane, safety.** A sender that was granted a channel finds a task
  that waits for it, or is about to, whatever was replaced, retried or
  cancelled in between and over whichever control connection the grant came. A
  registration is never lost but for one of the reasons the code has for it. A channel
  in use is cancelled with the control connection it was granted on, unless the
  handler of that connection ended on a response it could not write.
- **Control plane, liveness.** Once connections stop failing, a channel that is
  asked for and offered is opened, or ends with its data connection. The offer
  that counts excludes a task that waits for a connection nobody is about to make
  (`Offered`): that is where the code can get stuck for ever, see below.
- **Control plane, refinement.** The two services implement `Rendezvous`: an open
  channel is connected to a registration of its own that was granted to it, or to
  none because it came too early; a registration serves one connection at a time, and
  one that is given back has lost its connection first. This is what `OpenConnection`
  of `TcpChannel` takes for granted: two new handlers, one at each end, and none
  left of the connection before.
- **Test nodes.** Buffers keep their order through
  task queue, backlog and channel, and while sink and channel are open each
  buffer is held, was sent, or found the task queue full. What the sink loses
  otherwise, to a stop, a closed channel or a panic, is a suffix of its stream:
  nothing is sent past a buffer that is not (`SentWithoutGaps`). From generator to printing sink the nodes
  implement `OrderedStream`. The tracker answers the lowest
  number not added. A stop that never returns waits for a buffer that does not come
  (`recv_blocking` has no timeout) or for a flush nobody answers: the peer is down,
  its registration gone, the channel closed or stranded, or a buffer abandoned.

### Bounds, and why they are enough

- *Numbers and buffers* (`MaxSeq` 2 to 4, `MaxTuple` 2 to 4): two messages are
  needed for a reordering, three numbers for a gap, four for two gaps that open at different
  times; four buffers fill the window of two, the `FramedWrite` and the queue
  at once. `udp_capacity` needs only one number, as it is about the reuse of
  one.
- *Actors*: two callers race for numbers and permits, two readers interleave
  recording, buffering and acknowledging, two stdin senders share the
  receiver's set. The code treats all callers alike, and no third is needed to
  break a property that relates a permit to one call.
- *Capacities* of 1 or 2 for windows, buffers and queues make full and empty
  frequent. `MaxPendingAcks` is 2 where the code has 64: one buffer
  acknowledged while another is written, and the window full.
- *Failures* (`MaxSendErrors`, `MaxAckErrors`: 1; `MaxExplicit`: 2) bound only
  calls that fail or misuse a number; loss, duplication, retransmission and
  lost connections are not bounded.
- *Control plane*: two channels compete for the negotiating task, or two
  registrations for one channel, one of which is replaced, retried or
  cancelled; a second control connection is there to outlive the first. The
  last one is not lost (`MaxConnections`), so that the liveness run is not cut
  short by a bound. `ctl_live` has one channel: with two, each waits
  for the other's turn only, and the two registrations that replace each other
  are of one channel; that no two channels get mixed up is what
  `RendezvousImplemented` proves.
- *Test nodes*: every queue has one place and the generator emits three
  buffers, which are the least that drain a backlog: the first fills the queue of the
  channel, the second goes to the backlog, the third empties it. `TrackerLimit`
  is 0 in `node`, so that every number makes the tracker forget, and 3 in
  `node_twice`, where it holds all of them; the code has 1000. A third query
  between the two, a Bridge, makes the instance too large for TLC; the theorems,
  the refinement of `OrderedStream` among them, hold for every set of queries and channels.
- Symmetry is used in safety runs only: for callers in `udp_auto`, for readers
  in `udp_capacity`, for channels in `ctl_safety`, where no constant tells them
  apart.
- `CHECK_DEADLOCK FALSE`: each system comes to rest when all bounded input is
  sent and answered, or a process has ended.

### Fairness

- *UDP*: a tokio task that can run is polled, so its next step is weakly fair;
  a datagram that is in transit again and again is read in the end, hence
  strong fairness for the two reads; timers fire. The receiver's application
  keeps calling `receive_message` and `receive_from_buffer`; nothing makes a
  caller send another message. `EventuallyReliable` states what a
  retransmission scheme needs from its network: losses and duplicates stop some
  time, without saying when.
- *Gaps*: the same for senders and reads; loss is not excluded. That DATA
  keeps arriving is the hypothesis of `GapsAreResolved`, as the receiver acts on
  arrivals only.
- *Data channel*: handlers are polled, an error of a dead connection surfaces,
  the two services grant a channel that both want (they retry for ever), which
  opens or strands it (nothing says that a grant is good), the
  consumer keeps taking buffers, and connections are lost only finitely often
  (`EventuallyConnected`). The application is free to stop at any time.
- *Control plane*: tasks are polled, errors surface, connections are made, and
  are lost only finitely often (`EventuallyStable`). Sending a request is
  strongly fair: the negotiating task takes the channels in the order they
  queue, so one that asks again and again has its turn. Applications register,
  end and close channels, and shut the receiver down, as they like.
- *Test nodes*: threads are scheduled, so the next step of a stop, on whichever
  thread, and of a source is weakly fair, and the services serve a channel as long as
  the nodes at both its ends run (`Served`) and it is not stranded; a flush only
  while no buffer is abandoned, and nothing makes the connection end that would
  clear it. The main thread need not stop a query.
  A worker need not take or finish a task: no stop waits for one.

### Disagreements with the documentation

The two violated runs show a statement of the repository that the code does
not meet; `findings` in PROJECT.json quotes both.

1. `tcp_propagation`: by `network/README.md:130`, errors reach the application. A
   flush still in the queue of a channel that was closed is never answered, and
   the application waits for ever.
2. `node_twice`: `main.rs:111-115` asserts that no number is added that the tracker
   holds. A sink that empties its backlog sends the last buffer twice, and the
   assertion ends the worker of the receiving node. In `TcpChannel` the second
   copy is delivered as well, before its acknowledgement ends the connection.

More things a reader of the documentation might not expect, without a run of
their own:

- `lib.rs:29` says that at most `send_window_size` messages are in flight. A failed
  `socket.send` returns its permit and leaves its entry (`lib.rs:238-242`), the
  term `sendErrors` of `WindowConserved`; a failed ACK does the same to the
  receive buffer (`ackErrors` of `BufferConserved`).
- `network/README.md:129` says that connection failures are retried. An end of the
  stream closes the channel instead (`sender.rs:296`, `:340`).
- `network/README.md:122` promises backpressure, but `run` empties the bounded
  queue into `pending_writes`, which has no bound, also while nothing is
  acknowledged.
- `ENHANCED_RECEIVER_DOCUMENTATION.md:63` names three attempts, of which
  `RequestBudget` shows two requests.
- A channel may get stuck after its grant: when the data connection fails, or
  arrives before the spawned task has inserted its oneshot (`receiver.rs:156`),
  or the grant goes to a control connection the sender has replaced, the task
  waits at `receiver.rs:158` for a connection that does not come, does not see its
  cancellation, and every further request is denied. `EventuallyOpened` is
  violated when `Offered` counts this task as an offer; `StrandChannel` and `Strand`
  make it a step of `TcpChannel` and `NodeChannel`, and `FlushReturns` and
  `StopsReturn` are violated without the disjuncts that except it.
- A buffer put into `wait_for_ack` by a `send_pending` that was cancelled is never
  written (`Abandoned`, which `FlushReturns` excepts, and the link `abandoned`, which
  `StopsReturn` does): flush waits for an acknowledgement nobody will send, on a
  connection that works.
- `Execute` sends a buffer twice after a backlog, a duplicate that the order
  properties allow, as it stands next to the first: `node_twice` is about it.
- A number that the tracker has forgotten and that arrives again is counted as new,
  and its answers are wrong from then on (`again`, which `QueryIsLowestMissing` excepts).
- A RQST goes to the sender of the datagram that showed the gap, which need not be the
  one that has the number. A late ACK of a number that is used again releases the
  later message. Neither the receiver nor the ACK knows whose the number is.

## 4. What is proved

All theorems hold for every value of the constants under the assumptions named
in the modules: callers, readers and numbers are finite sets, capacities and
bounds are natural numbers, `MaxAttempts`, queue capacities and the number of
connections are positive, and the configuration of the test nodes maps queries
to nodes and channels, with one sink and one source to a channel
(`OneSinkPerChannel`, `OneSourcePerChannel`): the receiver hands a registered channel
to one connection (`Rendezvous`), so that a second sink would wait for its turn, and
each registration has a data queue of its own, so that a second source would not
share the queue the model has. Two assumptions are of a theorem rather than of its
module: `ExplicitSeqs = {}` of `NumbersIdentifyMessages`, as a caller that picks
its own numbers may repeat one, and `~Resends` of `AcksExpected` and
`FifoImplemented`, as a sink that sends a buffer twice meets the error they
exclude.

| Theorem | States | Argument |
|---|---|---|
| `UdpChannelProofs!TypeCorrect` | `Spec => []TypeOK` | inductive as it stands |
| `UdpChannelProofs!WindowConservation` | `Spec => []WindowConserved` | inductive with `TypeOK`; each step moves one slot between permits, callers that hold one (`Holding`) and `in_flight`, or counts a leak |
| `UdpChannelProofs!BufferConservation` | `Spec => []BufferConserved` | the same with `Reserving`, the readers between `try_acquire` and `push_back` |
| `UdpChannelProofs!ReleaseAfterReceipt` | `Spec => []ReleasedWasReceived` | from `ReceiptInv` |
| `UdpChannelProofs!Implementation` | `Spec => ImplementsAtLeastOnce` | step by step, from `TypeOK` and `ReceiptInv` |
| `UdpChannelProofs!NumbersIdentifyMessages` | `Spec => []OneMessagePerSeq` | from `NumberInv` and `CopyInv` |
| `GapChannelProofs!TypeCorrect` | `Spec => []TypeOK` | inductive as it stands |
| `GapChannelProofs!RequestsAreBounded` | `Spec => []RequestBudget` | from `BudgetInv` |
| `GapChannelProofs!GapsRequested` | `Spec => []GapsAreRequested` | from `BudgetInv` |
| `GapChannelProofs!GivenUpForGood` | `Spec => GiveUpIsFinal` | step by step, from `TypeOK`: each way a step changes attempts, pending requests and gaps |
| `TcpChannelProofs!TypeCorrect` | `Spec => []TypeOK` | inductive as it stands |
| `TcpChannelProofs!BuffersAccountedFor` | `Spec => []NothingVanishes` | from `ChannelInv` |
| `TcpChannelProofs!OrderIsKept` | `Spec => []DeliveredInOrder` | from `ChannelInv` |
| `TcpChannelProofs!AcksExpected` | `Spec => []AcksAreExpected` | from `ChannelInv`, `AckOrderInv`, `SharedInv` |
| `TcpChannelProofs!FifoImplemented` | `Spec => ImplementsFifoChannel` | step by step, from `ChannelInv` |
| `ControlPlaneProofs!TypeCorrect` | `Spec => []TypeOK` | inductive as it stands |
| `ControlPlaneProofs!LossHasReason` | `Spec => []DroppedForReason` | from `RegistrationInv` |
| `ControlPlaneProofs!UseIsWatched` | `Spec => []HandlersAreWatched` | from `RegistrationInv` |
| `ControlPlaneProofs!GrantIsHonoured` | `Spec => []OkIsHonoured` | from `GrantInv` |
| `ControlPlaneProofs!RendezvousImplemented` | `Spec => ImplementsRendezvous` | step by step, from `PairInv` and `OkIsHonoured` |
| `NodeTypeProofs!TypeCorrect` | `Spec => []TypeOK` | inductive with the lemmas of `TrackerProofs` |
| `TestNodeProofs!SinkLosesNothing` | `Spec => []NothingIsLost` | from `LossInv` |
| `TestNodeProofs!QueryCorrect` | `Spec => []QueryIsLowestMissing` | from `TrackInv` |
| `NodeOrderProofs!BuffersKeepOrder` | `Spec => []BuffersInOrder` | from `OrderInv` |
| `NodeOrderProofs!LossIsASuffix` | `Spec => []SentWithoutGaps` | from `GapInv`, with `OrderInv`, `StopInv` and `LossInv` |
| `NodeOrderProofs!OrderedStreamImplemented` | `Spec => ImplementsOrderedStream` | step by step, from `OrderInv` |

`ReleasedWasReceived` is not inductive: an ACK in transit could be for a number
that was never received. `ReceiptInv` adds `AckedWasReceived` (an ACK exists,
in the reader about to send it, on the network or in the reply queue, only for
a recorded number) and `SentWasAccepted` (whatever travels or waits to travel
bears an accepted number). `Implementation` needs both: a release maps to
`Release` because its ACK is of a received number, a receipt to `Receive`
because what travels was accepted.

`OneMessagePerSeq` speaks of copies only. `NumberInv` adds the calls: their
numbers are below `next_seq` and differ, and a call that has not recorded its
message finds its number free, so that no entry of `sent_messages` is ever
replaced. `CopyInv` adds the copies the readers hold.

`RequestBudget` is not inductive either: whether an attempt sends a RQST depends
on how the one before ended. `AttemptParity` says that a number is pending
exactly after an odd attempt, except the last; with it and `GapsAreRequested`
each iteration adds one request per two attempts. `BudgetInv` is their conjunction.

`ChannelInv` of the data channel follows the buffers from the application to
the consumer. `QueueInv`: the queue continues where the handlers stopped, so
what is taken is the next buffer or, if the application repeats it, the last.
`FlushInv`: a flush that is waited for is the last message of the queue or was
taken, so a handler that answers it has taken everything. `PathInv`:
`pending_writes`, the buffer `feed()` waits for, the `FramedWrite`, the socket,
the receiver's hands and the consumer form a line in which no buffer overtakes
another (`LineInv`); the handlers hold only what was taken (`KnownInv`); one
that ended holds nothing (`HeldInv`); an Ack is of a delivered buffer
(`AckedInv`). For a sender that sends every buffer once, acknowledgements come
in the order of the buffers (`AckOrderInv`) and whatever is under way on a
shared connection is awaited (`SharedInv`), whichever branch of the `select!`
cancelled `feed()`.

In the control plane, `RegistrationInv` adds `Registered` (only a registration
that was made is in a stage) to the two properties of registrations. `GrantInv`
adds `OneAtATime`: the negotiating task has one request or one response on its
control connection, so an Ok it reads is about the channel it asked for; the
task the receiver spawned before it answered can only have moved on with that
connection.

`Rendezvous` sees of a channel whether its sender asks, is connected or is through
(`AskerOf`), of a registration whether it is offered, granted, served or gone
(`OfferOf`), and the connections. Messages, control connections, the two maps and
`RetryChannel` are hidden: most steps are stutters. That a registration is given
back without its connection, and no channel opened while it has one, needs `PairInv`:
a channel with a connection is open, and connected to a registration of its own
that is being served (`Paired`). `Asked` says that nothing is requested which was not
registered with the sender, and `OneRegistered` that a response which fails
takes one registration out of the map at most. `OkIsHonoured` gives the granted
registration that `Open` asks for.

`GivenUpForGood` needs no more than types, and is still about more than the guard
that skips a number with too many attempts: recording other numbers never takes a
number out of the gaps, a pending request of another number takes only its own
attempts along, and a number that is not pending cannot be late.

In the test node, `StopInv` ties the stage of a node's stop to the references
that are left: whoever runs it is past the join of the source's thread, and
neither queue nor worker holds a task of the query. `LossInv` adds that a sink
which found its channel closed remembers a channel that is closed, and that the buffer
`execute` still has to send is the last of the backlog it drains. `TrackInv`
relates the tracker to the numbers added: it holds those above
`lowest_removed`, and everything below was added. `SearchFinds` and `QueryTypes` show
that the number `query` looks for exists within its range, so that
`highest_seen - lowest_removed` does not underflow and `unreachable!()` is not
reached, and `ShortcutIsExact` that counting gives the same answer as searching.

`OrderInv` follows the buffers of a query from the source to the next node. Data
queue, handler's queue, backlog, the worker's hands and the task queue make one
line (`LineOf`): each part is sorted, and no number in it is above one in a part
behind. What `execute` sends twice stands next to itself, so "not above" is all that
holds. The line alone is not inductive: an emitted number must not be below those
in line, so all of them were emitted by the query's source (which counts upwards,
or reads a line itself), and whatever a reader has handed on or a print sink was
given is not above what is still in line for it. The step at `main.rs:315`, which sends
past the backlog, keeps the line because the worker is at `send` only while the
backlog is empty: `execute` found it so, or emptied it. With `OrderInv` each
hand-over is a step of `OrderedStream`, and `LossIsASuffix` follows the same line: a
buffer that is sent is the first of those the sink holds, so one below it that was
emitted was sent, or dropped at the task queue. This needs `LossInv` (while the channel
takes buffers, none is lost) and `StopInv` (nothing is executed, and so sent, once the
stop has given up the backlog). The properties speak of concatenations of
sequences; `SortedTail`, `SortedAppend` and `SortedConcat` are the facts about
them the proof needs.

Every safety invariant, and the safety part of every refinement, that a passing run
checks is a theorem. Only model-checked is liveness (`ImplementsFairAtLeastOnce`,
`GapsAreResolved`, `FlushReturns`, `EventuallyOpened`, `StopsReturn`), which is out of
the prover's reach: fairness needs ENABLED. The two properties the code violates
have their counterexamples only.

## 5. What is not modelled

- The shutdown of the sender service. The receiver sees of it channels that end
  and connections that are lost, which `EndChannel` and the lost connections of
  `ControlPlane` show.
- Several receivers of one sender (each has a `connection_handler` of its own)
  and several senders of one receiver (the opened channels are kept per sender,
  the registered ones are not).
- `NAckData` (`sender.rs:199`): no receiver sends it. A receiver that does
  would make the sender send the buffer again.
- Of the test nodes: the successor of a node in `PEC::emit`, which `main.rs` never
  sets; the contents of the buffers (`verify_tuple_buffer`) and the comparison of
  a counter with `expected_messages`, which only log; a query that is started
  again, and several sinks or several sources on one channel.
- A second registration of a channel at the sender while the first is asking or open
  (`sender.rs:622-641`): the code accepts it, and has two queues that compete for
  one name. `RegisterSender` is for a channel that is not in use.
- In `NodeChannel` any connection may be found abandoned or stranded, also one the
  detailed models would not leave so, and the end of a stream may be followed by the
  cancellation of the source or not: more behaviours than the code's, never fewer.
- Of the C++ bridge: the services that are initialised once, the conversion of
  buffers, and `sender_writes_pending`, which only reads.
- `lib_simple.rs`, which the crate does not compile, and the older crate
  `external/BDSPro_UDP_Channal`, a first version of the two programs.
- Parsing of the configuration, log forwarding, containers, CI and examples:
  no state of the system.
- Messages other than DATA at the receiver library, which are handed to the
  caller as they are, and the statistics getters.
- The encoding of frames and datagrams: a frame is a record with the fields its
  reader uses. The one property of the encoding that matters, that a datagram
  longer than 1024 bytes does not parse, is `Oversized`.

## 6. Plan

Done: the three data planes, the control plane and the test nodes, each with its
runs and its proofs, and the refinements of `AtLeastOnce`, `FifoChannel`,
`Rendezvous` and `OrderedStream`.

Left, in this order:

1. `NodeChannel` is to be implemented by `TcpChannel`, so that what is proved of
   the test nodes rests on what is proved of the channel.
2. The shutdown of the sender service, and two senders that ask for one channel.
3. A Bridge between two queries as a run of its own.
