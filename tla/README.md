# Tudou in TLA+

Tudou is a C++17 network library: a one-loop-per-thread reactor, timers, TCP
connections and servers on top of it, and HTTP and RPC servers on top of those.
This directory models its concurrent core, checks it with TLC on small
instances, and proves properties of it with TLAPS for every instance.

## The system

| component | state | operations | hard part |
|---|---|---|---|
| `reactor/EventLoop` | functor queue under a mutex, eventfd counter, `isQuit_`, `isCallingPendingFunctors_` | `loop`, `run_in_loop`, `queue_in_loop`, `quit`, `wakeup` | a push and its wakeup are separate steps of another thread |
| `reactor/EpollPoller` | channel table, event list | `poll`, `update_channel`, `remove_channel` | the list's growth; stale channel pointers in one report |
| `reactor/Channel` | interest, reported events, tie | enable/disable, `handle_events` | several events in one report, an owner that goes away |
| `reactor/EventLoopThread(Pool)` | loop pointer under a mutex, thread | constructor handshake, `get_loop`, destructor | the pointer's life against the thread's |
| `timer/TimerQueue`, `Timer` | `expireSet_`, `timersById_`, timerfd | `add_timer`, `erase_timer`, `on_timerfd_read` | cancels from callbacks and other threads, time passing anywhere |
| `tcp/TcpConnection` | write buffer, pending file, interest, `isClosed_` | `send`, `send_file`, `send_file_with_header`, `force_close`, `on_read`, `on_write`, `on_error`, `on_close` | callbacks that call back, partial writes, several events in one report |
| `tcp/TcpServer` | `state_`, tables of connections per loop, `activeConnectionCount_` | `start`, `stop`, `on_connect`, `create_connection`, `remove_connection`, `shutdown_connections` | draining against creation and closing on other threads |
| `tcp/Acceptor` | listening socket, idle descriptor | `on_read`, `accept_idle_connection` | a full descriptor table |
| `tcp/ConnectionHeartbeat` | last activity, timer id, `running_` | `start`, `stop`, `refresh`, `check_timeout` | the timeout against activity and close |
| `tcp/Buffer` | a vector and two indexes | read, write, `make_space` | index arithmetic |
| `http/HttpServer`, `HttpContext`, `HttpRouter` | a context per connection under a mutex, routes | parse, dispatch, respond | pipelining over asynchronous sends |
| `http/TlsConnection` | handshake and memory BIOs | `read_plaintext`, `write_plaintext`, kTLS offload | partial records, sessions lost in the fallback |
| `rpc/binary` | pending requests by sequence id, cached bytes per connection | `CallMethod`, receive loop, server dispatch | an answer, a failure and a destructor racing |
| `rpc/json` | cached line per connection | `on_message`, `call` | framing; a close under the buffer in use |
| `rpc/UnifiedRpcServer` | two servers, one thread | `start`, `stop`, the bridge of JSON calls to services | a service that blocks the loop; stopping what has not started |
| `rpc/Coroutine` | context, owner loop | `resume`, `yield` | resumption on the right loop |
| `examples/StaticFileHttpServer` | configuration | a path to a file response | directories, methods |
| `examples/StarMind` | tokens and chat histories, a mutex each | login, logout, clear, chat on several loops | tokens that expire under way, references that outlive the lock |

Everything another thread wants of a loop's objects goes through that loop's
functor queue; the models compose the same way: `EventLoop` implements
`TaskDispatch`, and `TimerQueue`, `TcpConnection` and `TcpServer` take a loop
to be what `TaskDispatch` says it is, a FIFO of functors run one at a time.
`TcpConnection` implements `OutputStream`, and `HttpServer` and `RpcServer` in turn
take a connection to be what that says and what `TcpConnection`'s own properties add
(output leaves in order, errors and closes drop the rest, a send on a pending file is
an error), and call the routers of
`HttpRouter` and `RpcRouters`. `BinaryRpcChannel` and `StarMind` need of their
loops only that each runs its handlers one at a time.
What makes each component correct is in its properties below; what could go
wrong in it that a test would hardly reach is listed, at its line, under
`hazards` in `PROJECT.json`.

## Modules

**`TaskDispatch`** is what `queue_in_loop` promises, without threads or
descriptors: `Submit`, `Execute` the oldest, `Close`.

**`EventLoop`** has one action per step at which another thread may get in
between. The loop thread goes through `check_quit`, `poll`, the handlers
(`on_read` for the eventfd, `handle_other` for any other channel),
`swap_functors` (the critical section of `do_pending_functors`), `run_functor`
and `end_functors`. Another thread's `queue_in_loop` is a push and then
`wake_after_push`; its `quit` is the flag and then `wake_after_quit`. Callbacks
may queue a functor, quit, or neither; one functor per callback loses nothing,
since a second one is queued by the next callback or another thread in the same
state of the loop. `posted`, `executed` and `early` are history.

**`TimerQueue`** keeps time relative to now, in ticks of a millisecond, so that
its states are finite: `tick` moves every expiration one closer and may come at
any moment, a callback included. Timers later than `Lag` are not told apart.
`on_timerfd_read` is `collect_expired`, then `run_timer` and `finish_timer` for
each, then `end_expired`, and inside a callback timers may be added and
cancelled. A call from another thread is queued and runs as `run_functor`.
`Later` stands for `to_timespec`'s rounding in that one tick is the least a
timerfd is armed for.

**`TcpConnection`** numbers units of output in the order they are accepted. The
kernel takes any number of those offered. User callbacks come last in the
functions that invoke them, except the error callback, so control in user code
is one flag and `close_connection` after an error is a step of its own
(`closeNext`). What `read()` returned is a choice between data, end of stream,
`EAGAIN` and an error. A message of no bytes, and a connection without some of
its optional callbacks, are not modelled. **`OutputStream`** is what those who send
rely on: units leave in the order in which they were accepted, each once, until the
connection closes, and then nothing is accepted and nothing leaves; only what a file
turned out not to hold is passed over (`missing`).

**`TcpServer`** runs `start()` on one thread, its IO loops and callers of
`stop()` on others. `create_connection` is split at each access to state shared
between threads: the two reads of `state_`, and the count. A table belongs to
its loop's thread, so an update of it and of the count is one step. The cleanup
functor is its locked part with the notification, and then the closing. A report of
a channel is data (`channel_reads`), a close (`peer_closes`), or an error with data:
`error_closes` takes the connection out of the table and tells the user, and
`read_after_error` still reads, because `Channel` goes on to `EPOLLIN`, `on_read` does
not ask `isClosed_` and `on_message` calls back whatever is recorded. What the user
last heard of a connection is `seen`; a message behind the close is `"late"`.

**`BinaryRpcChannel`** has both constructors (`mode`). With a receiving thread,
`CallMethod` is a step per critical section of `mapMutex_`, `sendMutex_` and per
`write()`, and `receive_loop` takes a context out of the map (`held`) before it
sets the promise. On an `EventLoop`, calls are coroutines of that loop:
`run_in_loop` resumes them in place, so a resumed coroutine has control
(`coroutine`) inside `on_read` or inside `cleanup_pending_requests`, and calls
again from there; in the second place it waits for the lock its own thread holds
(`stuck`). The end of the stream is seen by `on_read` together with the answers
before it, which are then dropped. `results` is a history of each promise. The
destructor runs while every call in progress waits, as in the tests; a call that
enters a channel under destruction, and a plain thread calling on a loop's
channel, are not modelled.

**`Buffer`** is the vector with its two indexes; a byte is the number of its
position in the stream, so a byte lost, repeated or moved to the wrong place is
visible, and a copy past the end of the vector shows as a larger domain.
**`ByteStream`** is what its users rely on: bytes come out as they went in. A
failing `readv` or `write` leaves the buffer alone and is no action.

**`HttpServer`** follows one connection at a time from `on_connect` to its close,
and later ones with the same address. The client's bytes are units: the head of
a request, its tail, a malformed one; on a TLS server each in a record of its
own, after the two flights of the handshake, with junk that does not decrypt.
`on_message` receives any prefix of what has arrived; `try_offload` is its call
of `enable_ktls_offload`; then its parsing loop takes a step per request
(`parse_incomplete`, `reject`, `reply_complete_request`). The response of
`HttpRouter`'s `dispatch` leaves in pieces, the head with the body, or the head
and then the file, as clear text, as records of the session or through the
kernel's TLS. **`HttpRouter`** has exact, method and prefix routes and the file
server of the examples as operators.

**`RpcServer`** has `BinaryRpcServer` and `JsonRpcServer`, which share the shape
of `on_message`: collect in `connectionBuffers_`, cut into frames, dispatch,
answer. A frame is sent in two units, which `sent` records; `asked`, `handled` and
`answered` are histories of whole frames. `connection_fails` includes a report with
`EPOLLERR` and `EPOLLIN`, after which `on_read` still runs (`late`). Services
answer at once or later from a thread of their own, the JSON server waiting for
them in the bridge of `UnifiedRpcServer` (`waiting`). A binary service that answers
later does it in two steps: `service_done` is `BinaryRpcClosure::Run` on the service's
thread, at any moment of the loop, whose `send` queues a functor, and `run_queued_send`
is the loop running it when no report is left, on a connection that may be closed by
then. **`RpcRouters`** has the two dispatchers with every error they tell apart.

**`StarMind`** has an action per critical section of `AuthService` and
`SessionStore`, and per access to a history through the reference that
`get_or_create` returned. A `Session` is an address, and a freed one may be
given to the next. The clock only goes forward, each access to a vector is
whole, and what is pushed to freed memory is lost; the C++ program may do worse
there. `dangled` is the set of the addresses it may do it to: those whose `Session` a
logout freed while a chat held the reference.

## Runs

All bounds are in the `.cfg` files: threads, functors, timers, connections and
units are finite sets or counts, and nothing else is bounded except `MaxInbox`
(functors queued on a connection at once) and `MaxIncoming` (answers a client
has not decoded yet). A run names the component's module
and checks its safety and liveness together. `Inv` is the type invariant with
the state invariant named after it.

| run | shows | instance |
|---|---|---|
| `eventloop` | `Inv` (`NoLostWakeup`), `FifoDelivery`, `DispatchSafety`; `QueuedIsRun`, `QuitStops` without the poll timeout | 2 threads, 3 functors |
| `timerqueue` | `Inv` (`IndexesAgree`, `ArmedForEarliest`), `NeverTooSoon`, `CancelIsFinal`; `TimersFire` | 2 timers, delays 0 to 2, intervals 0 and 2, lag 1 |
| `tcpconnection` | `Inv` (`WritingIffBacklog`), `OutputInOrder`, `ClosedForGood`, `CompleteMeansDrained`, `HighWaterIsEdge`, `ImplementsStream`; `OutputDrains` | sizes 1 and 2, mark 2, 4 units, 1 queued call |
| `tcpserver` | `Inv` (`CountAgrees`), `CallbackOrder`, `NothingRunsAfterReturn`; `StopCompletes` | 2 connections, 2 IO loops, 2 stoppers |
| `tcpserver_drain` | violation of `WaitDrains` with an IO loop | 1 connection, 1 IO loop |
| `rpcchannel` | `CompletedOnce`, `ResponseAlive`, `FramesWhole`, `AnswerMatches`, `WaiterIsRegistered`; `AnswerEndsCall`, `DestructionEndsCalls` | 2 calls, frames of 2 units, 2 answers on their way, both constructors |
| `rpcchannel_eof` | violation: a call registered after the receiving thread left | 1 call |
| `rpcchannel_flush` | violation: a request in a buffer nobody will flush | 2 calls |
| `httpserver` | `Inv` (`NeverInTheClear`), `AnswersInOrder`, `ClosingIsLast`; `RequestEnds` | 3 requests of 3 kinds or malformed, no TLS and both TLS modes |
| `rpcserver` | `Inv` (`FramesReassembled`), `AnswersMatch`; `AnswerComes` | 3 frames of 5 kinds, or 3 lines of 8 kinds |
| `starmind` | `Inv` (`OwnHistory`), `AcceptedWasValid` | 2 threads, 2 tokens, 4 requests, expiry after 1, clock to 1, history of 2 |
| `buffer` | `BufferInv`, and `Refines`: `Buffer` implements `ByteStream` | 12 bytes, prepend 2, vector 3, stack buffer 3 |

Two threads and three functors are enough for a push on either side of every
step of the loop with another in the batch. Two timers let one be cancelled,
by the other's callback or by its own, while it is scheduled, collected or
running; delays on both sides of the other's put either first. Four units allow
a backlog, a message crossing the mark and a file behind both. Two connections
and two loops put one on each, so that one loop may drain while the other is
still creating. Two calls and two answers in flight let the second answer come
first, be a duplicate, or be garbage behind an answer. Three requests put one
before and one behind a file or a closing response in the same payload. Three
frames leave a remainder behind a frame that was answered late. Four requests
of StarMind are a login, a second login or a clear, a logout and a chat, in any
order on either thread; a token has expired when the clock is at 1. Twelve bytes
fill, move, grow and spill a vector of 3 several times. `CHECK_DEADLOCK FALSE` is used throughout:
a loop that has quit, a server that has returned, or a client that has nothing more to send, stops.

`NoLostWakeup` excepts functors the loop's own thread queues before `loop()`
(`early`): `queue_in_loop` sees its own thread and an idle loop and wakes nobody,
so they wait for the poll timeout, 10 seconds by default.

The violations are findings in `PROJECT.json`, each with the sentence of the
documentation, header or test it contradicts.

Two more comments of the code say more than it does, and two properties state what is
left of them.

- The comment at `Channel.cpp` 138 says that errors and closes come before reads, so
  that a dead descriptor goes no further into business callbacks. But after `EPOLLERR`
  has closed a connection (144), `EPOLLIN` of the same report is handled (147), and the
  user gets a message behind the close callback. `CallbackOrder` allows that one
  message, in the report that closed the connection, and nothing else behind a close.
- The comments at `JsonRpcServer.cpp` 77 and `JsonRpcRouter.cpp` 70 and 135 say that a
  request without an id is a notification and gets no response. But only a notification
  that succeeds gets none: one of an unknown method, with wrong parameters or whose
  handler throws is answered with an error (`JsonRpcRouter.cpp` 98 to 133).
  `AnswersMatch` counts as due (`Due`) only what a client may count on, which a
  notification is not, and allows besides only answers to lines with a faulty
  notification (`HasFaulty`).

## What the models show besides

Behaviours that the models reach and no property forbids, because the code is
plainly written so; the hazards in `PROJECT.json` name their lines.

- A cancel on the loop thread overtakes the queued insertion of a timer that
  another thread added, and the timer fires (`TimerQueue.cpp` 62 and 72).
- The late read behind a close makes, in the RPC servers, the erased entry of
  `connectionBuffers_` again; nothing erases it any more.
- Write-complete may be reported twice for one drained backlog (`TcpConnection.cpp` 399).
- A `stop()` from another thread may find the main loop gone between the two
  statements of `quit()` (`EventLoop.cpp` 91 to 95).
- A TLS error, or a kernel offload that fails after the memory BIOs were replaced,
  leaves the connection open and never answered (`Silent` in `HttpServer`).
- A file that became shorter than its header says leaves a response incomplete
  and the connection open (`short`).
- A file response with another request behind it in the same payload ends in an
  error and a close, not in two responses: `TcpConnection` refuses a send on a
  pending file.
- A binary call of an unknown method is never answered.
- A chat that waits for the language model holds a `Session` that a logout may free. If
  the next login gets its memory, the chat's messages enter the history of another
  token, and the prompts made from it; `OwnHistory` says that this stays at that
  address (`dangled` in `StarMind`). A chat accepted before a logout makes a `Session` for the
  dead token; the sessions of expired tokens are never erased.

One statement of the documentation is weaker than the code and not a run: the
question-and-answer document says `queue_in_loop` may skip the wakeup while
functors are running; the code does not skip it, and `NoLostWakeup` needs it
(the mutant `queue_in_loop_self_silent` breaks it).

## Fairness

A thread that can run is scheduled, and user callbacks return: weak fairness of
each thread's steps. `epoll_wait` returns when the eventfd is readable; the poll
timeout, finite by default, is not needed.
`TimerQueue` adds that time passes, and strong fairness of `run_functor`,
because `loop()` drains the queue after each round of handlers. `OutputDrains`
assumes a peer that keeps reading: the socket becomes writable again and again
and a writable socket takes something. No peer is obliged to connect, send or
close, and nobody is obliged to call `stop()`. In `BinaryRpcChannel` the receiving
thread, a caller whose future is ready, the destructor once begun and the loop are
scheduled, and coroutines end; the server need not answer, nor a blocking write
return.
In `HttpServer`, epoll reports again what can be read or written, and a handler
once entered runs to its end; `on_write` needs a client that reads. In `RpcServer`
the same holds of reading and handling, a service that took a call answers it,
the one behind the bridge included: it has threads of its own (so `AnswerComes` says
nothing of a service that waits for the loop that waits for it), and the loop runs what
was queued. `StarMind` and
`Buffer` state safety only: a chat may wait for the language model as long as its
timeout allows, and a buffer promises nothing by itself.

## Proofs

`EventLoopProofs` proves, for any sets of threads and functors:

- `TypeCorrect`: `Spec => []TypeOK`;
- `Fifo`: `Spec => []FifoDelivery`. `FifoDelivery` is inductive with `TypeOK`; the
  work is in how `\o`, `Append`, `Head` and `Tail` compose (`ConcatPush`,
  `ConcatRun`), one lemma per way a step touches the three sequences;
- `WakeupNotLost`: `Spec => []Inv`. Its part `NoLostWakeup` speaks of the moment
  before the loop blocks, so it is not inductive: the invariant behind it says at
  every step of the iteration which of "the eventfd is readable", "the caller is on
  its way to write it" and "the loop will look at the queue before it blocks" holds;
- `LoopImplementsDispatch`: `Spec => DispatchSafety`: every step maps to a step or a
  stutter of `TaskDispatch` under
  `queue <- functors \o pendingFunctors, done <- executed, closed <- isQuit`.

`BinaryRpcChannelProofs` proves, for any set of calls, frames of any size and any
number of answers in flight:

- `TypeCorrect`: `Spec => []TypeOK`;
- `PromiseSetOnce`, `AnswerIsOwn`, `ResponseStaysAlive`, `NoLostWaiter`: `CompletedOnce`,
  `AnswerMatches`, `ResponseAlive` and `WaiterIsRegistered` always hold;
- `FramesStayWhole`: `Spec => []FramesWhole`.

None of the five is inductive. The invariant `IInv` behind them has a part per
question: `WireInv` (a call whose request has left wholly is past its writing, and an
answer on its way answers such a request), `HeldInv` (the context in the receiver's
hands is out of the map and its promise not set), `ResultInv` (a registered context
has no result except while `cleanup_pending_requests` runs, and a call not over and
without result is registered or held), `ModeInv` and `TotalInv`. `WireInv` is what
tells `decode_answer` that the call it completes is waiting and not still writing.
`FrameInv` is what keeps frames whole: the thread that writes holds `sendMutex_` and
goes on where the wire ends, and what a loop appends to `writeBuffer_` is a frame
behind whole frames.

`StreamProofs` is about what becomes of the bytes of a connection. Its first part
proves of `Buffer`, for any sizes of the vector, of its prepend area and of the stack
buffer, and any number of bytes:

- `BufferHolds`: `BufferSpec => []BufferInv`. `BufferInv` is inductive; the work is one
  lemma per operation, each for a buffer with any layout: what `resize`,
  `move_to_front`, `copy` and their composition in `write_to_buffer` and `read_from_fd`
  do to the bytes between the indexes;
- `BufferIsStream`: `BufferSpec => Refines`. `Take` needs `BufferInv`: that the bytes
  from `readIndex` on are the oldest that have not come out.

Its second part proves of `RpcServer`, for any binary frames, any JSON lines (batches of
any length) and any number of them on the connection:

- `FramesKeptWhole`: `Spec => []Inv`;
- `AnswersAsDue`: `Spec => []AnswersMatch`.

Both speak of an open connection between two messages, so neither is inductive. The
invariant `IInv` follows `on_message` through its loop: the units it works on (`Kept`:
the binary server's own `Buffer`, else `connectionBuffers_`) are those sent after what
was cut off and before what has not been received, and what was cut off stops at the end
of a frame (`Placed`). With the shape of the units sent (`Framed`: a unit that does not
end its frame is followed by the one that does, and numbers ascend) the first frame that
`FirstFrame` finds is the next one not yet dispatched, and whole: `CutFrame`.
`Dispatched` says that what was cut off and is not blank was dispatched, in order;
`Answered` that what was dispatched was answered if the code answers it (`Answerable`:
it is due, or has a faulty notification), but for the line the bridge waits for, the
calls with their services and the answers in the queue of the loop. `Contents` and `Framed` hold on a
closed connection too, the rest (`Sound`) need not: a failed `send` erases the entry of
`connectionBuffers_` under the loop that goes on with it, and a closed connection stays
closed. `LineIsAnswered` and `CallIsDue` compare the two dispatchers with `Due` and `HasFaulty`
over every request; `ServiceDoneGood` and `RunQueuedSendGood` show that an answer goes
from its call to the queue and from there to the client, once.

`StarMindProofs` proves, for any threads, tokens, lifetime of a token and clock:

- `TokensHold`: `Spec => []AcceptedWasValid`. The invariant `IInv` behind it says of a
  request that waits for the mutex (`Waiting`): if its token is in force by the clock
  it read, the token was in force when the request came. What makes that inductive is
  that the token of a waiting request was issued before, so no later login can put it
  in force again, and that logouts, clean-ups and the clock only take tokens away;
- `HistoriesApart`: `Spec => []Inv`. A `Session` that was not freed under a chat holds
  only messages of its own token, and only such a `Session` of its own token is what a
  prompt is built from, because no two tokens have one `Session` (`Stored`) and the
  reference a chat holds is either in `dangled` or the `Session` its token has now
  (`Keeps`). A logout that frees one under a chat adds its address to `dangled`
  (`OwnedErase`), and from then on nothing is claimed of that address, and everything
  of all the others.

`TcpConnectionProofs` proves, for any sizes of messages and files, any high-water
mark and any number of units and queued calls:

- `WatchesBacklog` and `OrderKept`: `Spec => []Inv`, `Spec => []OutputInOrder`;
- `StaysShut`, `ReportsDrained`, `ReportsCrossing`: `Spec => ClosedForGood`,
  `Spec => CompleteMeansDrained`, `Spec => HighWaterIsEdge`;
- `ConnectionIsStream`: `Spec => ImplementsStream`, every step is a step or a stutter of
  `OutputStream` under `missing <- Len(cut)`, `open <- ~isClosed`.

`OutputInOrder` and `WritingIffBacklog` are inductive together, with the types and
"a closed connection watches nothing": `direct_send` may write past
the buffer only because an empty buffer means that nothing waits. There is one lemma
per call of the class (`send`, `send_file`, `send_file_with_header`, `force_close`,
`on_write`, the errors) which says what it does to the output and which callback it
invokes; the three action properties follow from the same lemmas. `OutputInOrder` says
nothing once a file was passed over, so the refinement needs an invariant of its own,
`Follows`: the buffer and the file hold the units behind those that left or were passed
over, without a gap. Of each operation it is shown what it moves (`Moves`: the backlog
with what is accepted falls into what leaves, what is passed over and the new backlog),
once for all of them that this keeps `Follows` and is a step of the stream
(`MovesPass`), and that it is only done on an open connection (`Advances`).

`TimerQueueProofs` proves, for any timers, delays, intervals and lateness:

- `ArmedAndAgreed`: `Spec => []Inv`;
- `CancelsForGood`, `KeepsItsTime`: `Spec => CancelIsFinal`, `Spec => NeverTooSoon`.

`Inv` is inductive with "an idle loop has collected nothing"; `run_functor` and
`finish_timer` need that the earliest timer exists and that inserting or erasing one
moves it the right way (`MinProperties`). The action properties need the history:
each timer is inserted by one functor and before it can run or be erased
(`InsertedOnce`), a collected timer is due and not the running one (`Collected`), and
of a repeated timer the time since it ran and the time it still waits make up its
interval (`Spaced`).

`TcpServerProofs` proves, for any connections, callers of `stop()` and number of IO
loops:

- `CountsRecords`: `Spec => []Inv`;
- `LeavesNothing`: `Spec => []NothingRunsAfterReturn`;
- `CallbacksInOrder`: `Spec => CallbackOrder`.

All three rest on where a connection can be: in one queued functor, in the hands of
the one loop that creates it, recorded by one loop, or out of the tables and held by
one, which extracted it or reads from it once more after an error
(`Queues`, `Places`, `Held`), what its user has heard by then (`Heard`), and what a
loop past its last iteration can still hold (`Control`). With that a connection is
counted once and uncounted once although the two are not in one critical section,
and its close callback cannot come before its connection callback. `Heard` also says
that a connection whose close the user has heard is closed or held for that last read,
so that one message at most can follow, and only within that report.

`HttpServerProofs` proves, for any requests, routes and number of requests on a
connection, and any of the ways to configure TLS:

- `TypesAndSecrecy`: `Spec => []Inv`;
- `ResponsesInOrder`, `NothingBehindTheLast`: `Spec => []AnswersInOrder`,
  `Spec => []ClosingIsLast`.

`AnswersInOrder` speaks of what the client is sent (`Sent`: what the kernel took, the
write buffer and the pending file). It is inductive only together with what the client
sends: `Stream` says that the units not yet parsed go on where the parser stands, so
that the next response is for request `Len(handled) + 1`; `Spoilt` and `Scrambled` are
the two ways out of that, a record that will end the handshake, and records the kernel
hands over as they came, of which the first is refused and closes. `Session` ties the
fields of the `ConnectionState` to where `on_message` stands: it is why a response
finds a session that can encrypt, or cannot be sent at all. `Output` says that the last
response is whole before the next is given to send (`Settled`); it need not hold once
nobody listens or the session is lost (`Live`). There is one lemma per call of the
connection and one per action. The record that `enable_ktls_offload` writes past the
write buffer is harmless because nothing has been answered when it is called
(`RecordOfOffload`).

`EventLoopProofs` assumes nothing of the constants. `BinaryRpcChannelProofs` assumes
that a frame is not empty and that `None` and `Garbage` are no calls
(`ChannelAssumption`), `StreamProofs` that sizes are natural numbers
(`BufferAssumption`) and that frames and lines are of the kinds the two RPC servers tell
apart, of which the connection carries at least one (`RpcAssumption`), `StarMindProofs` that the empty cookie is no token and that
lifetime and limit are positive (`StarMindAssumption`), `TcpConnectionProofs` that
messages, files and the mark are not empty (`ConnectionAssumption`),
`TimerQueueProofs` that delays and intervals are finite sets of natural numbers
(`TimerAssumption`), `TcpServerProofs` that the number of IO loops is a natural
number and connections are finitely many (`ServerAssumption`), and `HttpServerProofs`
that a route is a method and a path, a response one piece or a header and a file
(`RouterAssumption`), the TLS modes are the three of `TlsMode.h` and a connection has at
least one request (`HttpAssumption`).

Every invariant and action property of the passing runs, and all three refinements of
abstract specifications, are proved. Only model-checked are liveness, which the prover
cannot do, and the runs that find a property violated. Where a proof would want induction over a sequence or a set, it takes a minimal element of a
well-founded order instead (`LeastNat`).

## Not modelled

`PROJECT.json` lists every component with its status and the reason.

- Texts: addresses, header fields, dates, JSON, protobuf, llhttp and OpenSSL. The
  models keep what these tell apart: a whole or half request, a valid or a wrong one,
  a record that decrypts.
- `Acceptor`, `ConnectionHeartbeat`, `Socket`, `TlsConfig`, `TlsProbe` and the
  configuration loaders: no state, or state of one thread that one timer or one
  descriptor call changes.
- The construction of `EventLoopThread`, a second `start()`, `UnifiedRpcServer::stop`
  before `Running`, `EpollPoller`'s table and `Channel`'s tie.
- Races on memory without a lock: the RPC servers' `connectionBuffers_` shared by
  several IO loops, and two chats of one token that push at the same time. `RpcServer`
  has one connection, and `StarMind` keeps each push whole; what a race leaves in a
  `std::unordered_map` or a `std::vector` is not a state a model could enumerate.
- Output of `HttpServer` below a piece: a piece of a response, or a flight of the
  handshake, leaves as one unit, so that the record `enable_ktls_offload` writes cannot
  fall inside a flight that the kernel took in part. Partial writes of one message are
  in `TcpConnection`.
- The JSON RPC client, which calls and waits, one call at a time.
