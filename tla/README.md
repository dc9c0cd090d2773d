# A verification of muduo-cpp17

TLA+ models of the library in `src/` and `include/`: the reactor core of a
multi-threaded TCP server. TLC checks them on small instances, TLAPS proves
theorems about them for every value of their constants. `PROJECT.json` lists
the parts, runs, mutants, findings, hazards and theorems, and maps every
definition to the lines it models.

## The system

| Part | State | Operations | Modelled in |
|---|---|---|---|
| `EventLoop` | `quit_`, `pendingFunctors_` (under `mutex_`), `callingPendingFunctors_`, the eventfd, `activeChannels_` | `loop`, `runInLoop`, `queueInLoop`, `quit`, `wakeup` | `EventLoop` |
| `EventLoopThread`, `Thread` | `loop_` (under `mutex_`, with `cond_`), the thread and its semaphore | `startLoop`, `threadFunc`, destructor | `EventLoopThread` |
| `Buffer` | a vector, `readerIndex_`, `writerIndex_` | `append`, `retrieve...`, `readFd`, `writeFd`, `swap` | `Buffer` |
| `TcpConnection` | `state_`, `outputBuffer_`, `inputBuffer_`, its channel and socket | `send`, `sendFile`, `shutdown`, `connectEstablished`, `connectDestroyed`, four event handlers | `TcpConnection` |
| `Channel`, `EPollPoller` | `events_`, `revents_`, `index_`; the channel map and `events_` vector | enable/disable, `update`, `remove`, `handleEvent`, `poll` | `Poller`, used by `Reactor`; one channel with all its events in `TcpConnection` |
| `TcpServer`, `Acceptor`, `EventLoopThreadPool` | `connections_`, `nextConnId_`, `started_`, `loops_`, `next_` | `start`, `newConnection`, `removeConnection`, destructor; `listen`, accept; round robin | `TcpServer`; with no pool and all its channels, `Reactor`; what one connection sees, in `TcpConnection` |
| `Socket` | `sockfd_` | system calls | the calls that matter, where they are made: accept, listen, shutdown, close |
| `InetAddress`, `Timestamp`, `Logger`, `DefaultPoller` | none of interest | formatting | not modelled |

How they interact. Every `EventLoop` belongs to one thread. A `TcpServer` has
a base loop, in which its `Acceptor` accepts, and a pool of `EventLoopThread`s;
each connection is given to one of their loops and lives there. All that
crosses threads goes through `queueInLoop`: `connectEstablished` when a
connection is made, `sendInLoop`, `sendFileInLoop` and `shutdownInLoop` when a
worker thread uses it, `removeConnectionInLoop` (to the base loop) and
`connectDestroyed` (back to the connection's loop) when it ends. Inside a loop
the poller selects channels and a channel calls its connection's handlers.
The only other shared state is atomic: `quit_`, `TcpConnection::state_`,
`TcpServer::started_`.

What is hard: the wakeup protocol of the loop; start and stop of a loop in
another thread; the life of a connection, ended by the peer, the server and user
code at once, over three functor queues; partial writes; channels that go while
they are in the batch being handled, and descriptors that are used again; the
arithmetic of the buffer. The list of hazards in `PROJECT.json` gives the lines.
What makes each part correct:

* `EventLoop`: queued functors run once, in order, without waiting for the poll
  timeout; `quit` ends the loop.
* `EventLoopThread`: `startLoop` returns, `loop_` never dangles, the destructor
  returns, and after it nothing runs.
* `Buffer`: the indices stay in order, bytes come out as they went in, memory is
  bounded.
* `TcpConnection`: the byte stream is intact; the channel waits for
  writability exactly while there is output; shutdown comes after the output;
  up and down are reported once, the high-water mark once per crossing; the
  connection is destroyed in the end and the poller keeps no pointer to it.
* `Channel`, `EPollPoller`: channel, channel map and kernel agree on what is
  watched, whatever was closed and reused; a channel that is handled exists;
  every ready channel is handled in the end.
* `TcpServer`: connections go round the complete pool; each is destroyed once, in
  its own loop, after it was established; no loop calls a server that is gone;
  clients are served as long as there are descriptors.

## The modules

`TaskQueue`, `ByteQueue` and `Connection` are abstract specifications, which
`EventLoop`, `Buffer` and `TcpConnection` are shown to implement.
`EventLoopThread` extends `EventLoop`. `TcpConnection` stands on the abstract
queue: its loop's thread takes functors in the order they were pushed, which is
what `EventLoop` was shown to provide. `TcpServer` does too, with several loops.
`Reactor` extends `Poller` and puts the parts together in one thread. The
`...Proofs` modules hold the theorems, the `MC...` modules the instances for
TLC. A definition named `...Mutant` is a broken variant of the definition that
follows it; it is not part of the specification and serves to show that a
property can fail.

**EventLoop.** `pc` is where the loop's thread is: `created`, `while` (the test
of `quit_`), `poll`, `handle` (the channels of `activeChannels_`), `swap` and
`run` (the two halves of `doPendingFunctors`), `stopped`. A step is one access
that another thread can see. In particular a call from another thread is two
steps, the push (or the store to `quit_`) and then `wakeup()`; `wakeupDue` holds
the threads between the two. Inside a callback the loop's thread may make any
calls on its own loop. `EarlyCalls` says whether it may also do so before
`loop()`. The eventfd is readable or not. `looping_` is written and never read,
and is left out. A functor is handed over once: each is a closure of its own.

**EventLoopThread.** `ownerPc` and `threadPc` are where the owner is in
`startLoop` and the destructor, and the new thread in `threadFunc`. A critical
section is one step. Publishing `loop_` makes an owner blocked in `cond_.wait`
test its predicate again. The loop's own steps happen only inside
`loop.loop()`. Uses of the loop after it was destroyed are steps of the model
without effect that matters; that they can happen is a hazard
listed at `EventLoopThread.cc:26`.

**Buffer.** A record with the vector, its size and the indices. Methods are
operators on such records, so that `append` calls `ensureWritableBytes` and that
calls `makeSpace` as in the code; the actions apply them to one buffer. `peak`
is a history of the most bytes ever held.

**TcpConnection.** `todo` is what the loop's thread has still to do of the event
or functor at hand; `"user"` in it stands for a callback into user code, which
may call `send`, `sendFile` and `shutdown`. One event is the sequence of
callbacks that `handleEventWithGuard` selects, from `revents_` that may be stale
when they run, because callbacks of other channels come first. `pending` holds
the connection's functors in its loop. Workers test `state_`, store it and push
their functor in separate steps. Bytes are tokens (message, position).
`server` is the connection's place in `TcpServer::connections_`. The kernel's
send buffer holds `KernelBuf` bytes; a write takes any part of what fits. The
peer reads, sends, closes and resets. All callbacks of the user are taken to be
set. `ups`, `downs`, `accepted` and `epipe` are histories. After a write to a
socket that is shut for writing the model goes on as if `SIGPIPE` were ignored,
which is up to the program. A file has `FileLen` bytes, which may be less than
the `Size` that `sendFile` was told: `sendfile(2)` then returns 0 at its end.
The one channel has all its events here, `EPOLLHUP` and `EPOLLERR` included.
The server's base loop is another thread: `DestroyServer` queues
`connectDestroyed`, as `runInLoop` does then, so it never runs inside an event of
the connection. Where they share a loop it runs on the spot (`EventLoop.cc:195`);
that case is in `Reactor`.

**Connection.** What a connection promises to user code: its status goes from
connecting to up, down and gone and never back; what is accepted goes to the
kernel in order and without gaps; the end of the stream is announced once, after
everything accepted. `TcpConnection` maps its reports to the user to the status,
and all that was accepted but not left in `outputBuffer_` to what was sent.

**Poller.** An `EPollPoller` and its channels, and the kernel's epoll instance. A
channel is an address. What is watched is recorded three times: `index_` by
channel, `channels_` by descriptor, `epollPtr` and `epollEvents` in the kernel,
where `epoll_ctl` fails if the record is not as the caller thinks and `close`
takes the descriptor out. `poll` reports any set of ready descriptors of the size
that `events_` has room for.

**Reactor.** The whole server in one thread, as `example/testserver.cc` runs it.
`phase` is where `loop()` is, `handling` the channel in `handleEvent`, and `todo`
a stack of the calls still to be made inside it: a handler pushes the callbacks
and channel operations the code makes, in their order. User code, in
`messageCallback_`, `connectionCallback_` or a functor, may send to any
connection, shut down those in `MayShutdown` and, except in
`connectionCallback_`, destroy the server, which runs `connectDestroyed` of all
connections on the spot. A connection
goes when nothing holds it, in the code or, for as long as it likes, in user
code; its address and its descriptor are then used again. Clients act only
while the thread polls, since what they do earlier is seen no sooner. If the
server is destroyed in the midst of a batch (`cut`), later channels of the batch
may be gone and a kept connection may call a server that is gone; both are
undefined in C++, and the model follows the case in which the memory can still
be read. `Callbacks` has the read and write branches of `handleEventWithGuard`
only. Those of `Channel.cc:71-85` are left out: every channel that is polled is
watched for `EPOLLIN`, with which the kernel reports `EPOLLHUP` and the close
branch is not taken, and `errorCallback_` only logs. `TcpConnection` has them all,
and the byte stream and the closing of the sending side as well.

A connection that is shut down with output left is where `connectDestroyed` on
the spot goes wrong, and the model shows it. `events_` is {read, write},
`state_` is `kDisconnecting`, and one event reports both. `handleRead` calls
`messageCallback_`, which destroys the server; since the state is not
`kConnected`, `connectDestroyed` skips `disableAll` (`TcpConnection.cc:250`) and
only removes the channel, which leaves `events_` as they are
(`EPollPoller.cc:69-82`). `handleWrite` of the same event still finds `isWriting`
(`TcpConnection.cc:287`), sends the rest and calls `disableWriting`
(`TcpConnection.cc:296`); `updateChannel` finds `kNew` and puts the channel back
into `channels_` and the kernel (`EPollPoller.cc:41-52`). `~TcpConnection` frees
it, `close` takes the descriptor out of the kernel, and `channels_` keeps a
dangling pointer. `unsent` is the history of these connections: `connectDestroyed`
adds one that is writing and has a `handleWrite` still to come (`WriteToCome`).
`PollerAgrees` and `NothingLeft` exempt what is left of them, and nothing else:
the pointer is under a descriptor that nobody uses, so no descriptor is reported
with it, and it is there only if `~TcpServer` ran in a message callback. With
`AgreesBut({})` in place of `PollerAgrees`, TLC finds the trace above.

**TcpServer.** Loop 0 is the base loop, the others are those of the pool; each
is a queue of functors. `base` and `loopState` say whether a loop runs. A loop
that is told to quit may return between any two functors that other threads
queued: which ones its last batch held depends on when it swapped. What an event
of the base loop queued in the base loop itself is run by the batch of the same
iteration, so it is never dropped. A handler is one step, since its only effect
on other threads is the push at its end; `start()` takes several, because the
pool's loops run before it returns, and so does `~TcpServer`: one per
connection, then `quit` and `join` for each thread, then the acceptor. The
destructor runs in the base loop's thread after `loop()` has returned, as in
`example/testserver.cc`, with no `start()` in progress. A `quit` that finds its
loop not yet in `loop()` is lost, as `thread_lost_quit` shows. `accept` fails
when the descriptors run out and the client keeps waiting; if it fails otherwise
the client has given up. Only the server's loops quit, and only for the
destructor. `Held` says when the socket of a connection is still open.

## The runs

| Run | Shows | Bounds |
|---|---|---|
| `eventloop` | `TypeOK`; `NoLostWakeup`; `ImplementsTaskQueue`; `ImplementsFairTaskQueue`: all that is queued runs unless `loop()` returns first, without the poll timeout | 2 other threads, 3 functors, 1 I/O channel, quit from anywhere |
| `thread` | `LoopPointerValid`; `NothingRunsAfterJoin`; `StartLoopReturns`; `DestructorReturnsIfLooping` | owner and 1 other thread, 2 functors, early calls, quit from anywhere |
| `thread_lost_quit` | finding: `DestructorReturns` fails | the owner quits |
| `buffer` | `IndicesInOrder`; `CapacityBound`; `ImplementsByteQueue` | see `MCBuffer.cfg`; vectors of a few bytes, so that growth, compaction and extrabuf all happen |
| `connection_safety` | `ConnectionTypeOK`; `StreamIntegrity`; `EachInOrder`: files and messages may be mixed, but each arrives in its own order; `WritingIffBuffered`; `FinAfterOutput`; `UpThenDown`; `NoDanglingChannel`; `HighWaterOnce`; `ImplementsConnection` | 2 workers that send, 2 messages, 1 file, 1 inbound chunk, a send buffer of 1 byte, ~TcpServer |
| `connection_live` | `ClosedIsDestroyed`; `ShutdownCompletes`; `OutputDrains`; `FileArrives` | 1 worker that sends and shuts down, 1 message, 2 files, one of them empty though a count of 1 was given, nothing inbound |
| `connection_file_spin` | finding: `SendFileGivesUp` fails | 1 message, 1 file, no worker |
| `connection_epipe` | finding: `NoWriteAfterShutdown` fails | 1 worker that sends |
| `connection_dangling` | finding: `NoDanglingChannel` fails | 2 workers that send and shut down |
| `server` | `ServerTypeOK`; `RoundRobin`; `OneDestroy`; `EstablishedFirst`; `NoCallOnDeadServer`; `StartListens`; `ClosedIsTornDown`; `ClientsAreServed`; `ServerDestructorReturns` | 0 to 2 pool loops, `start` from the main and 1 other thread, 4 clients, 3 file descriptors |
| `reactor` | `ReactorTypeOK`; `PollerAgrees`; `EventListBounded`; `ChannelsAlive`; `ServerNotCalledLate`; `NothingLeft`; `ReadyIsHandled` | wakeup, acceptor and 2 connections on 4 descriptors, one of which may be shut down, an `events_` vector of 3 |
| `server_dropped` | finding: `AllDestroyed` fails | 1 pool loop, 1 client |

Why the bounds are enough. The races of the loop are between one pusher and the
loop, and a second pusher to hide the first one's wakeup; three functors let a
batch be run while the next is filled and one is pushed from the batch. A send
buffer of one byte with messages of two makes every write partial and lets the
output queue grow over the high-water mark of two bytes. Four clients and three
descriptors let the round robin wrap around two loops, a client wait for a
descriptor, and two connections of one loop end at the same time. In `reactor` two
connections are what it takes for one to disturb the other in a batch; with four
descriptors accept runs out of them, and each connection can have either
descriptor, before and after the other. `MayShutdown` has one of the two, which
are alike: a connection that is shut down beside one that is not. (With both
in it, the invariants hold in all 474,025 states.) An `events_` vector of three
is one too short for the four channels, so that the kernel can leave any one of
them out until it grows. Connections come and go without end: no counter bounds
them. The run has 249,297 states.

`NoDanglingChannel` is about a server whose base loop is another thread, where
`connectDestroyed` is queued; for a single loop `NothingLeft` and `PollerAgrees`
take its place, with the exemption above. It holds in `connection_safety`, where
workers send but `shutdown` is only called in the loop's thread, and fails in
`connection_dangling`, where workers call it too: the test and the store of
`shutdown()` are what breaks it. `UpThenDown` says precisely when a connection
is destroyed without being reported down: when `~TcpServer` finds it
`kDisconnecting`. `NoLostWakeup` needs `EarlyCalls = FALSE`: a functor that the
loop's thread queues before `loop()` has no wakeup of its own.

`thread` does not check for deadlock: a loop that calls `quit` on itself before
`startLoop` has looked at `loop_` leaves the owner waiting for ever, which is the
case `StartLoopReturns` leaves out. The runs of `TcpServer` and `Reactor` do not
either: once the server and its loop are gone nothing happens any more.

### Fairness

Weak fairness of the loop's thread stands for the operating system running it
and for callbacks that return. Weak fairness of a thread that is between a push
and its `wakeup()` stands for the same. Not assumed: that the poll times out,
that the owner ever destroys an `EventLoopThread`, that anyone calls `send` or
`shutdown`, that the peer sends or closes. `connection_live` assumes that the
peer reads what reaches it: without that no output need ever drain. It also
assumes that the base loop keeps running and that user code drops its
`shared_ptr` in the end. Its properties allow for what `connection_file_spin`
shows: a `sendFileInLoop` that queues itself for ever keeps a lost connection
alive. In `server` every loop's thread, every thread inside `start()` and the
destructor are scheduled; no one need call `start`, connect, close, quit the base
loop or destroy the server. In `reactor` only the one thread is scheduled; the
kernel may prefer any ready descriptor at every poll.

### Findings

1. `thread_lost_quit`: `loop()` clears `quit_` on entry; a destructor that comes
   just after `startLoop` can lose its `quit()` and hang in `join()`.
2. `connection_epipe`: `sendInLoop` refuses only in `kDisconnected`; a send queued
   before `shutdown()` is written after `SHUT_WR`.
3. `connection_dangling`: `shutdown()` from a worker can bring a closed connection
   back to `kDisconnecting`; a queued send then registers the removed channel
   again.
4. `connection_file_spin`: `sendFileInLoop` tests for `kDisconnecting` where its
   comment says disconnected; with output left it queues itself for ever.
5. `server_dropped`: `~TcpServer` queues `connectDestroyed` in a loop that it then
   tells to quit; the loop may return without running it, and the connection goes
   without being reported down.

One more defect is an exemption and not a run of its own, since no line of the
repository says anything about it: a server destroyed in the message callback of
a connection that is shut down with output left (see **Reactor** above).

## The theorems

All are proved by TLAPS, for arbitrary sets of threads, functors, channels and
bytes and arbitrary sizes.

**EventLoopProofs.** `TypeCorrect` is `Spec => []TypeOK`. `NoWakeupIsLost` is
`Spec => []NoLostWakeup`, assuming `~EarlyCalls`. `NoLostWakeup` speaks only of
the loop when it is polling, and is not inductive: the loop may reach `poll` from
`while`, and `while` from `run`, without looking at the queue again. `LoopInv`
therefore adds `DebtInv`, that from each of the points from which `poll` can be
reached without another swap, a non-empty queue has a wakeup on its way, and
`PhaseInv`, that the flag is set whenever the batch is run, which makes the own
thread's push pay its debt. `HandleRead` clears the eventfd, but only in phase
`handle`, after which the queue is swapped. `LoopImplementsTaskQueue` is the
refinement: the queue is `functors \o pendingFunctors_`, the swap leaves it alone
since `functors` is empty then (`PhaseInv`), every other step is a step of
`TaskQueue` or a stutter.

**EventLoopThreadProofs.** `ThreadRunsLoop` is `TSpec => Spec`: every step of the
composed system is a step of the loop or leaves it alone, so the loop's theorems
hold of it. `LoopPointerIsValid` and `JoinEndsEverything` follow from
`ThreadInv`, which says at which points of `threadFunc` `loop_` may be set, the
loop is destroyed and `loop()` has returned. `ThreadTypeCorrect` is the type
invariant.

**BufferProofs.** One lemma per method says what it does to the contents and that
it keeps the buffer in order; `BufferIndicesInOrder`, `BufferCapacityBound` and
`BufferImplementsByteQueue` combine them. `CapacityBound` needs its own
strengthening: `peak` is at least what is readable now.

**QueueFacts.** What `Append`, `Tail` and concatenation do to "some entry is",
"at most one entry is" and "every such entry comes before every other one" of a
queue of functors, and the number of occurrences of an entry. The proofs about
connections, servers and the reactor stand on these facts and do not look into
sequences.

**TcpConnectionProofs.** `ConnectionTypeCorrect` is the type invariant.
`StreamCorrect` is `Spec => []StreamIntegrity`. Its inductive invariant
`StreamInv` says what became of every accepted byte: `accepted` is what the peer
has followed by a rest, which is `sndbuf \o outputBuffer_` unless the peer has
reset. For the three operations that move bytes a lemma says what they do,
whatever part of a write the kernel takes (`SendInLoopEffect`,
`SendFileInLoopEffect`, `HandleWriteEffect`); no other step touches the stream
(`StreamSteps`). `EachInOrderCorrect` is `Spec => []EachInOrder`. That no byte of
a message or file is sent twice or skipped depends on there being only one who
may send it: `OrderInv` says of each message and file that was passed to `send`
or `sendFile` that a worker is about to queue it, or one functor is to send it, or
neither, and that what has been accepted of it ends exactly where that functor
will go on; what has been accepted is in order, and the peer has its beginning
(`StreamInv`). `HighWaterCorrect` is `Spec => HighWaterOnce`, from the types and
an account of the queued callbacks in every step (`NextReports`).

**ConnectionLifeProofs.** `WritingCorrect` is `Spec => []WritingIffBuffered`. It
needs to know that a channel whose events are handled is still watched, or
`disableAll` would put it back into the poller: `ChannelInv` says what may be in
`todo` together, and `SetUpInv` that nothing happens before `connectEstablished`
has run, and that it runs once. `FinCorrect`, `UpDownCorrect` and
`DanglingCorrect` are `~WorkerShutdown => (Spec => [] ...)` for `FinAfterOutput`,
`UpThenDown` and `NoDanglingChannel`: they assume that only the loop's thread
calls `shutdown`. The run `connection_dangling` shows that without it the last is
false, since a `shutdown()` of another thread can revive a state that was left.
`LifeInv` adds to the invariants above how `state_` goes with the channel, the
socket and what was reported (`StateInv`), and that from the moment the server
has let go of the connection `connectDestroyed` is queued, under way or done
(`DestroyInv`), which is why a connection that is destroyed is torn down.
`PromiseKept` is the refinement `~WorkerShutdown => (Spec =>
ImplementsConnection)`: every step is one of `Connection` or a stutter, with one
lemma per abstract action; it needs `LifeInv` and `StreamInv`.

**TcpServerProofs.** All are about any number of loops, connections and threads
that call `start()`. `ServerTypeCorrect` and `RoundRobinCorrect` need `PoolInv`
(one thread gets past `started_`, and listening is asked for only when the pool
is complete, so the first client finds all of it), `ArrivalInv` (no connection
without a client) and `RobinInv` (`next_` follows the number of connections,
with facts about `%` proved from its definition). `NoLateCall` is
`Spec => []NoCallOnDeadServer`: by `DtorInv` every loop of the pool has exited
when the server is gone. `DestroyedOnce` (`OneDestroy`) and `SetUpFirst`
(`EstablishedFirst`) need to know of every functor of every connection where it
is: `ConnInv` says that each is queued at most once and in its own loop
(`AtHome`), that `connectEstablished` is queued as long as the state is
`kConnecting` and ahead of `connectDestroyed` (`SetUp`), that the server keeps a
connection until its `removeConnectionInLoop` has run (`Removal`), and that
`connectDestroyed` is to be asked for, queued or done (`Once`). `BaseReturns`
may leave a `removeConnectionInLoop` behind, which is no harm: no loop runs it,
and `~TcpServer` finds the connection still in `connections_`.

**ReactorProofs.** All are about any finite number of channels and any number of
descriptors, with connections freed and their addresses and descriptors used
again. The first part is about the poller alone: if the records agree but for
the addresses in a set `left` (`AgreesBut(left)`) and channels that exist have
descriptors of their own (`FdInv`), then `updateChannel` and `removeChannel` on a
channel that exists, `~Channel` on one that was taken out or is in `left`, and
`accept` with a free descriptor, as long as nothing is in `unsent`, keep it so, and
`epoll_ctl` succeeds (`PollerUpdated`, `PollerRemoved`, `PollerFreed`,
`PollerAccepted`); `PollEffect` says that a poll reports channels watched for
something, each once, and bounds the vector by counting them. The second part
shows that the server calls these only so. `ReactorInvariant` is `Spec => []Inv`,
by one lemma per action; `Turns` says what a step does to the entries of `todo`.
Of `Inv`, `HeldInv` says that whatever holds a connection, or has a call to it
still to make, holds one that exists; `WatchInv` that a channel the poller knows
is of a connection still to be taken down, by the server, a queued functor or a
call in `todo`, or is in `unsent`; that only a connection that is up is watched;
and that one which was taken out is written by no `handleWrite` still to come
(`WriteDue`) unless it is in `unsent`; `OrderInv`
that `disableAll`, `remove` and the end of the acceptor's and the loop's channels
come in that order; `SetUpInv` that nothing comes between `accept` and
`connectEstablished`; `AcceptorInv` and `WakeupInv` how long the acceptor and the
wakeup channel exist; `ActiveInv` and `LateInv` what may be in a batch, and that
`unsent` is empty unless `~TcpServer` ran in a message callback. After that
nobody is accepted, which is why no descriptor of an old record is used again.
From them follow `ReactorTypeCorrect`, `RecordsAgree` (`PollerAgrees`),
`EventListCorrect` (`EventListBounded`), `HandledAlive` (`ChannelsAlive`),
`NotCalledLate` (`ServerNotCalledLate`) and `PollerLeftEmpty` (`NothingLeft`).

The assumptions are those of the modules: the loop's thread is not one of the
other threads, `wakeupChannel_` is no I/O channel, the owner is among the threads
that may quit; a file is not longer than its count; sizes are natural
numbers; there are finitely many channels, which memory sees to, and enough
addresses for as many connections as there are descriptors.

Only model-checked: all liveness, which needs `ENABLED` and the fairness of the
specifications and is beyond the provers.

## Not modelled

The process ends at `LOG_FATAL` (no eventfd, no epoll, `epoll_ctl` failing to
add); such behaviours simply stop and are left out. `DefaultPoller` returns no
poller at all if `MUDUO_USE_POLL` is set. Logging, names, addresses and times
have no influence on the properties. The contents of `inputBuffer_` are the
user's. In `Reactor` the server is not destroyed in `connectionCallback_`: its
callers go on to use what is gone, and the code makes no claim about it. The
callbacks and options are set once, before `start`, and do not change.

## Plan

1. Done: `EventLoop`, `EventLoopThread`, `Buffer`, `TcpConnection`, `TcpServer`
   with `Acceptor` and `EventLoopThreadPool`.
2. Done: `Poller` and `Reactor`; short files and the high-water mark in
   `TcpConnection`; the abstract `Connection`.
3. Done: the proofs about `TcpConnection` and `TcpServer`.
4. Done: the proofs about `Poller` and `Reactor`, and of `EachInOrder` and
   `HighWaterOnce`. Every invariant, every action property and every refinement
   without fairness that a passing run checks is a theorem.
5. Left: the steps of the liveness arguments that are no liveness themselves,
   such as that a functor once queued stays queued until it is run.
