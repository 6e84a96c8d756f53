# A TLA+ model of cortono

cortono is a header-only C++17 network library: an epoll event loop with timers,
TCP, SSL and UDP connections on top of it, a sliding-window protocol over UDP, an
HTTP server with a proxy, coroutines and a small peer-to-peer node. This directory
models its core, checks it with TLC and proves its safety properties with TLAPS.

Paths below are relative to the repository (`src/` in `PROJECT.json`).

## 1. Inventory

| Component | State | Operations | What is hard | What makes it correct |
|---|---|---|---|---|
| EventLoop (`net/eventloop.hpp`, `net/watcher.hpp`) | `pending_functors_` under `mutex_`, `quit_`, the wakeup pipe | `loop`, `safe_call`, `quit`, `wake_up` | callers on other threads change state first and write the byte later; the pipe is read once per event under EPOLLET | no wakeup is lost; functors run once, in order; `quit` stops the loop |
| Timers (`net/timer.hpp`, `net/eventloop.hpp`) | `timers_` ordered by expiry only, `id_to_timers_` | `run_at/after/every`, `cancel_timer`, `handle_time_func`, the timeout of `epoll_wait` | two containers that must agree; two timers with one expiry; the clock moves between two reads | what is queued can be cancelled; cancelled stays cancelled; never too often, never overslept |
| EventPoller (`net/poller.hpp`) | registrations, event batch | `update`, `wait` | dispatch of combined events; callbacks destroyed inside a batch | every readiness reported is acted on |
| Connection (`net/connection.hpp`, `net/socket.hpp`, `ip/sockets.hpp`) | `conn_state_`, buffers, the file being sent, which handler is the write callback | `send`, `sendfile`, `close`, five handlers | short writes, EAGAIN, FIN and reset in any order with user calls inside callbacks | bytes in order and all of them; the user told once; unsent data has a handler |
| Service, acceptor, TcpClient (`net/service.hpp`, `net/adaptor.hpp`, `net/client.hpp`) | loops of the pool, connection registry, idle descriptor | `start`, `stop`, accept, connect | registry shared by threads, pool filled while it is read, EMFILE | every connection is registered while open and released once |
| Buffer (`net/buffer.hpp`) | bytes, read and write index | append, retrieve, `enable_bytes` | index arithmetic, moving data to the front | a FIFO of bytes |
| Sliding window (`protocol/*.hpp`, `net/udp_service.hpp`) | send and receive window modulo `BufferSize`, resend timers | the middlewares Lost, Recv, Send, Resend, Modify | loss, duplicates, wrap-around, data stored without an ack | the users see one byte stream; nothing is lost as long as something gets through |
| File transfer (`protocol/client.cc`, `server.cc`) | `send_buffer`, byte counts | send a file, echo, compare | end of file while the window is full | the copy equals the file and the client stops |
| Thread pool (`util/threadpool.hpp`) | task queue, `quit_` | `start`, `async`, `quit` | `quit_` set without the mutex | a task runs once; `quit` returns |
| Coroutines (`coroutine/coroutine.hpp`) | routines, free indices, channels | `create`, `resume`, `yield`, `Channel` | indices reused, takers that have moved on | a value goes to one live taker |
| HTTP (`http/*.hpp`) | parser state, router trie, sessions, response kept by a connection | parse, route, respond, keep alive, proxy | input split anywhere; leftovers of the last request; two connections that close each other | the parse does not depend on the split; responses in order |
| P2P node (`p2p/*`) | peer table, connection count, sessions, timers | `connect_peer`, heartbeat, broadcast | check now, connect later; every end counts once | the count equals the open sessions |
| SSL, UDP wrappers, utilities | - | - | external libraries, pure I/O | - |

How they interact: a Connection, an acceptor and the Watcher register callbacks with
their loop's EventPoller, and everything they do runs on that loop's thread. Other
threads reach a loop only through `safe_call` and `quit`. The resend timers of the
protocol are `run_every` timers of the loop. HTTP, proxy and P2P are users of
Connection; Service distributes Connections over the loops of the thread pool.

`PROJECT.json` lists all hazards with the line where each one bites, and which property
covers it or why none does yet.

## 2. Plan

Done:

1. `EventLoop`, refining `SerialExecutor`, with `EventLoopProofs`;
2. `TimerQueue` with `TimerQueueProofs`;
3. `Connection` with `ConnectionProofs`;
4. `SlideWindow` and `SelectiveRepeat`, refining `ByteStream`, with `SelectiveRepeatProofs`;
5. `HttpConnection` with `HttpConnectionProofs`;
6. `PeerService`: the connections of the P2P node, with `PeerServiceProofs`;
7. `ThreadPool` and, on top of it, `Service`: accept, the loops of the pool, the registry and
   `stop`, with `ServiceProofs`;
8. `FileTransfer`: `client.cc` and `server.cc`, over what `SelectiveRepeat` makes of each
   direction, with `FileTransferProofs`;
9. `Buffer`, proved about at the end of `ConnectionProofs`.

Next, in this order:

10. The proxy's pair of connections, over what `Connection` promises.
11. `Coroutine`: index reuse and `Channel`.
12. The router's trie against a definition of matching (an empty url, and the `<path>` branch,
    which pops `double_params` where it pushed to `string_params`).

Every invariant that a passing run checks is also proved, and so are the safety parts of the two
refinements.

## 3. Modules

### EventLoop, SerialExecutor

One thread goes through `loop` and `loop_once` (`pc`): `Check` is `while(!quit_)`,
`RunTimers` the timers that have expired when `loop_once` starts and the choice of the timeout,
`WaitEvent` and `WaitOther` are the two ways out of `epoll_wait`, `Clear` the Watcher's
read callback, `Swap` and `RunFunctor` are `handle_pending_func`, `FinishOnce` ends the
iteration. A producer's `safe_call` is `Push` followed by `Notify`, its `quit` is `Quit`
followed by `Notify`, and anything may happen in between. Critical sections are single
steps. A functor or a callback may call `quit` on its own loop, which writes no byte.

Where it does matters. What functors, event callbacks and timers after `epoll_wait` store is seen
by `while(!quit_)` before the next wait; a timer that `RunTimers` runs comes after that test, and
if it was the last timer, or the next one has just become overdue, `epoll_wait` gets no timeout and
the loop sleeps with `quit_` set. `asked` is true of every other `quit()`: `NoLostQuit` is about
these, and `QuitReturns`, about all of them, is violated (run `timer_quit`).

`pipe` counts bytes and `edge` says whether epoll has the pipe on its ready list. Whether
a write to a non-empty pipe counts as an edge is the constant `EveryWriteWakes` (Linux
does it for pipes), whether the mask has EPOLLET is `EdgeTriggered` (cleared by
`set_level_trigger`). `clear()` reads 1024 bytes of a pipe that holds 64 KiB, and the
module shows what that relies on: `EdgeAssumption` says that either later writes are
reported as well, or `clear()` always empties the pipe, or the descriptor is
level-triggered.

`SerialExecutor` is what callers may rely on: a queue worked off in order, nothing run after
the executor has stopped, and a stop request that is carried out if the executor hears of it
(`heard`, which is `asked` of the loop). A request it does not hear of may take effect later or
never.

### TimerQueue

`timers_` is a function from expiry times to timers, because the set's comparison looks
at the expiry only: `emplace` of a second timer with the same expiry changes nothing, and
`erase` removes whatever has that expiry. `id_to_timers_` is a function from ids to expiry
times. `Emplace` keeps an entry that is there, `Assign` (the map's `operator[]`) replaces it. The clock ticks between any two steps; a millisecond has `TicksPerMs` ticks so
that truncation matters. `loop_once` is `Top` (first read of the clock), `Arm` (second
read, the timeout), the wait, `PendingDone`, and `handle_time_func` as `TakeExpired`,
`FinishRun`, `NoneExpired`, once before and once after the wait. `SetTimer` and `Cancel`
are what user code does in functors and callbacks, including in the callback of the
timer concerned.

### Connection

One connection with its kernel socket and its peer. A handler is one step up to the
points where it calls user code that returns into it (`conn_cb_`, `write_cb_`) and up to
the socket calls it repeats on EAGAIN (`at`). `Reported` is `epoll_wait` taking the
descriptor off the ready list; `OnRead`, `OnWrite`, `OnWriteFile` and `OnClose` are the
branches of the dispatch in `EventPoller::wait`, which gives a readable descriptor to its
read callback only. `PeerSends`, `PeerCloses`, `PeerResets`, `PeerReads` and `Established`
are external. Bytes are numbered as the user submits them, so that `StreamIntact` sees
loss, duplication and reordering.

History variables mark what the code does not defend against: `dropped` (a direct send
met EAGAIN), `mixed` (data submitted while a file is under way, or a file before the
connection is up), `missed` (the read callback was given an event that had more to it).
The passing properties exclude these cases where the code has no answer to them, and the
violation runs show them. `Close` is translated as it is: with buffered data it closes at once, and
only with none does it wait for what is under way, the opposite of the comment above it
(`net/connection.hpp:89`); `StreamIntact` promises nothing of a closed connection.

### SlideWindow, SelectiveRepeat, ByteStream

`SlideWindow` translates the operations of the template as operators on a record, with
the bounds as constants. `SelectiveRepeat` is one direction of a protocol connection: at the
sender `SendData`, `Resend` and `RecvAck`, at the receiver `RecvData`, `RecvNoAck` (the
second LostPacketModule drops a packet that RecvModule has already stored) and
`ReadCallback`, and a network that loses datagrams. The text encoding of packets
(`parser_module.hpp`) is abstracted to records, packets of zero bytes are left out.
`ByteStream` is what the user of `handle_packet` and `recv_all` sees.

The network keeps the order of datagrams, as the loopback interface that both programs
use does. With reordering, an overtaken ack from before the window is ignored by
`move_if_valid` and nevertheless handed to `ResendModule::cancel_timer`, which then finds no
timer with that position and cancels all of them; the last part of `WindowsNested` is the
assumption the comment there states.

### FileTransfer

A client that reads a file in blocks on a timer (`TickFile`, `TickHeld` for a block the window
refused before, `TickAtEnd`), a server that sends back what it gets, and two streams between
them. A stream keeps the bytes accepted and how many of them are stored, read and
acknowledged; that is what is left of `SelectiveRepeat` for its users. `ServerData` and
`ServerAck` are the two kinds of datagram that make UdpService call the server's read
callback, `ClientData` and `ClientAck` the client's, and `ServerStores` and `ClientStores` are
packets stored without a callback. A block that exactly fills the window may be accepted or
refused, depending on whether the window wraps.

The client tests for the end of the file before it looks at `send_buffer`. If the window
refuses the last, short block, the block stays there, the counts of sent and received bytes meet
without it, and the client quits; its own comparison then fails. `CopyEqualsFile` is that
comparison, and the run `file_copy` violates it. What holds is `EchoIntact`: what has come back,
what the server holds or has not read and what the client holds are together what was read from
the file, and when the client quits all that it sent has come back.

### HttpConnection

WebConnection's `handle_read` with its parser and the `Response` it keeps. A request is a
sequence of tokens (the text of a line, its newline, body bytes) of which each read gets any
number; `HandleRead` is one whole `handle_read`. `Feed` is the loop of `feed()`: since every
`try_parse` function that consumes something moves on, the loop is the line, then
the headers, then the body. `RouteEffects` is what a route can do to the Response with what
`http_router.hpp` and `http_response.hpp` offer: have it replaced by a returned value, send a
file that exists or does not, read a file into the body, start a session, or (no rule for the
url) nothing. Contents and cookies are known by the request they were made for, so that an answer
with something of an earlier request in it shows. One thing may: `send_file` leaves the headers
alone, so a file answer repeats the Set-Cookie of a session started on the connection before.
`OwnAnswer` allows this only until a returned value or a 400 has replaced the Response.

What the code does not defend against is excepted and listed as hazards: clients that
pipeline, routes that rely on the Response being fresh, uploads that stay in
`upload_files_`, and `read_file_to_body` after `send_file`. A request that does not match
its regular expression is neither answered nor closed.

### PeerService

The connections that one node opens. The main thread tries the seed nodes, every loop handles
the events of its own connections, and each thread has a stack of what it is in the middle of,
because `connect_peer`, `handle_close` and `handle_error` lock each piece of state on its own:
`Check`, `Record` and `Count` are `connect_peer` up to its functor, `RunFunctor` the functor,
`RemoveSession`, `RemovePeer`, `Uncount` and `Maintain` the two handlers, of which
`handle_error` starts at `RemovePeer`. `Maintain` goes on with `connect_peer` for the peers of
that moment. `Closes` is also what the heartbeat timer does. Connections opened by other nodes
are never counted; of them only the AddrDatagrams are kept (`RecvAddr`).

Between `Check` and the session, a second thread can pass the same check. The second session is
not stored, its connection is destroyed without a handler (`dropped`), and the count is never
given back: `Counted` says that this is the only way to lose count, `KeptAlive` that only such
duplicates are lost. When `TcpClient::connect` fails at once, the functor follows a null
pointer (`crashed`). A duplicate whose handshake was asynchronous is destroyed inside its own
`handle_handshake`, as is a connection that could not send its first datagrams, and the handler goes on to
use it: that too may end the process or go unnoticed. And when `RemoveSession` takes away the
session of another open connection, that connection's loop may be inside
`Connection::handle_read` (`Removed`): before it has a reference it uses what is destroyed, with one
the connection lives on (`reading`), and `Service::handle_read` makes a new session for it
(`ReadGoesOn`) unless the name is taken again. `connectings_` is a set of connections: its keys
are local ports, which the sockets it keeps alive still own.

### ThreadPool, Service

A worker evaluates the predicate of the condition variable (`Pred`) and goes to sleep (`Sleep`)
in two steps that hold the mutex; `quit` takes no lock, so `SetQuit` and `NotifyAll` may fall
between them. `Service` makes the tasks event loops: loops are numbered in the order they
register, and a worker whose loop has returned may take a second task and register another.
The main thread accepts (`Accept`, or `AcceptNoFd` when there is no descriptor left), hands the
connection to a loop (`RunFunctor` stores it by name), and later runs `stop`: `Walk` over
`connections_` in whatever order the map has, `QuitLoop` and `WakeLoop` for each loop registered by then, `QuitPool`, `Notify`,
`Join`. Both walks are made without the lock, so following an entry that a loop has erased,
a vector that has been moved, or a loop that has been destroyed, has any outcome: nothing or the
end of the process (`crashed`).

The properties name the exceptions the code has. A connection of a peer that was reset and came
back from the same endpoint takes the place of the old one in `connections_`, and the end of
either destroys the other (`Held`). `handle_error`, an `on_close` replaced by the user, and a
connection made for a descriptor that was closed again leave their entries (`Released`). And
`stop` does not return if a worker went to sleep just after it had notified (`Overslept`), or if
a loop registered after the walk of `eventloops_` (`LateLoop`).

### Buffer

`BaseBuffer` as a vector and two indices. `Write` is any of the appends and the read handlers'
`enable_bytes` with the bytes `recv` delivers, and the rest are the ways of taking bytes out.
`Connection` treats its buffers as sequences, which is what the last part of
`ConnectionProofs` shows.

## 4. Runs

| Run | Instance | Checks |
|---|---|---|
| `eventloop` | 2 callers, 2 calls each, pipe of 2 bytes, `clear()` of 1 | `NoLostWakeup`, `NoLostQuit`, `InOrderOnce`, and `ImplementsFairExecutor`: every functor is run unless the loop is told to quit, and a quit that the loop hears of stops it |
| `timers` | 3 timers, expiries 1 and 3, one-shot and period 2, 2 ticks a millisecond, clock up to 5 | `Cancellable`, `CancelledStaysCancelled`, `NeverTooOften`, `WakesInTime`, `DueIsRun` |
| `connection` | client, 6 bytes in pieces of 1 and 3, socket buffer of 2, one arrival, FIN and reset | `ToldOnce`, `WriteArmed`, `StreamIntact`, `Drains`, `PeerCloseNoticed` |
| `protocol` | buffer 7, window 3, packets of 1 and 2 bytes, 12 bytes, 2 datagrams each way | `WindowsNested`, `Retransmittable`, `OutOfOrderKept`, `ImplementsByteStream`, `Settles` |
| `file_transfer` | files of 0, 1, 4 and 9 bytes, blocks of 2, window 3 | `EchoIntact`, `Finishes`: nothing is lost on the way there and back, and the client always ends |
| `http` | 3 requests of 11 kinds, any cut | `RequestsIntact`, `OwnAnswer`, `LengthRight`, `Answered` |
| `peer` | 2 loops, a seed, a peer, the node itself and an invalid address, limit of 2 connections | `Counted`, `KeptAlive`, `Refills`: a known peer does not wait while there is room |
| `service` | 2 workers, one endpoint used again after a reset, 3 accepts, 2 descriptors | `Held`, `Released`, `Served`, `StopReturns` |
| `send_lost` | server | violates `NothingLost`: a direct send that meets EAGAIN forgets its data |
| `write_stalls` | server, peer that sends once | violates `NeverStalls`: a writable event reported together with data is consumed by the read callback |
| `timer_quit` | 1 caller | violates `QuitReturns`: a timer run before `epoll_wait` quits its own loop, which goes to sleep |
| `file_copy` | a file of a whole and a short block, window of one block and a byte | violates `CopyEqualsFile`: the refused last block is never sent |

Every passing run also checks its module's `TypeOK`. The findings in `PROJECT.json` quote
the comment or document each violated property comes from.

### Bounds

- *eventloop*: two callers are enough for every pair of calls to meet at every point of
  the loop; two calls each let a functor follow one that is in a batch; a pipe larger than
  one `clear()` leaves bytes behind, and a third byte would block, so the full pipe occurs.
- *timers*: three timers let two meet at one expiry while a third is periodic and reaches
  that expiry itself; two ticks a millisecond give a timeout that truncates to 0 and an
  expiry that is overdue by less than a millisecond; the clock covers three periods.
- *connection*: pieces of 3 over a socket buffer of 2 give short writes in `send`,
  `handle_write` and `handle_sendfile`; 6 bytes allow a file that was cut short to be
  followed by a send that is cut short, so that a stale write callback would show.
- *protocol*: 7 is the smallest buffer that window 3 allows (`2 * 3 < 7`), 12 bytes take the
  window around it once and most of a second time, and two datagrams under way let a
  copy of an old packet arrive behind a new one. A packet of `WindowSize` bytes is
  refused for ever by a window that wraps (see `RangeMeansInside`), hence
  sizes up to `WindowSize - 1`.
- *http*: three requests let one leave something behind, a second not touch it and a third
  show it; the kinds cover every version, keep-alive choice, body length 0 and 2, missing
  host, upload, malformed line and header, and every route.

- *file_transfer*: the sizes are a file without a block, with a short one, with whole blocks
  only (whose end is met by an empty read) and with four whole blocks and a short one; a window
  of 3 refuses the second of two blocks of 2, on both sides, and the server's buffer grows
  beyond one packet.
- *peer*: two loops and the main thread let three threads meet in `connect_peer`; two
  AddrDatagrams give a duplicate and a node that is full; one end makes room for a peer that had
  to wait. The node's own address and an invalid one are among those it is told.
- *service*: two workers let one exit while the other registers late or sleeps; three accepts
  let a name be taken over and the end of the old connection meet the new one; with
  two descriptors a connection that `connections_` forgot to release leads to EMFILE. Two
  endpoints give no further violation of the invariants (3.2 million states).

The counters bounded in guards are `MaxCalls`, `MaxTime`, `MaxTimers`, `MaxBytes`,
`MaxArrivals`, `Total`, `Channel`, `MaxRequests`, `MaxAddrs`, `MaxEnds`, `MaxAccepts`, `MaxFds`
and `MaxEmfile`. `peer`, `service` and `file_transfer` do not check deadlock: a node without
events rests, a stopped service and a client that has quit are done.

### Fairness

- *EventLoop*: a thread that entered `wake_up` gets to its `write`, the loop thread is
  scheduled, functors and timers return, and an `epoll_wait` that was given a timeout returns
  (`timeout /\ WaitOther`). `WaitOther` alone has no fairness: the loop is never saved
  by another descriptor. Callers need never call.
- *TimerQueue*: the loop thread is scheduled and callbacks return. Descriptors need not
  become ready, the clock may stop.
- *Connection*: handlers run to their end, `connect()` completes one way or the other, the
  peer reads what it is sent. The peer need not send or close.
- *SelectiveRepeat*: the loop reads its socket; the periodic timer of the oldest packet
  fires again and again; strong fairness for the arrival of that packet and of the newest
  ack says that not every copy is lost, which LostPacketModule's independent drops justify.
- *FileTransfer*: the timer fires; while a packet is not acknowledged it is sent again, so it
  arrives with a read callback and its ack arrives, which is what `Settles` shows for
  `SelectiveRepeat`. Late copies need not come: the server is not saved by them.
- *PeerService*: threads are scheduled, functors run, and a handshake ends one way or the other
  (strong fairness, because the thread may be busy when it does); a loop inside `handle_read` goes
  on. Nothing else need happen: no
  connection need end and no datagram arrive.
- *Service*: threads are scheduled (strongly, for a worker that competes for the mutex),
  functors run, and a loop returns once it has been woken after `quit_` was set. Nobody need
  connect, close or call `stop`.
- *HttpConnection*: bytes that were sent arrive and are read. The client need not send, and
  the connection may close at any time.

## 5. Proofs

`EventLoopProofs`, for any set of callers, any bounds and pipe sizes, from
`BoundsAssumption` and `EdgeAssumption`:

- `TypeCorrect`: `Spec => []TypeOK`.
- `WakeupSafe` and `QuitSafe`: `Spec => []NoLostWakeup` and `[]NoLostQuit`. Neither is
  inductive: a loop that is not in `epoll_wait` yet says nothing about the byte it
  will rely on. The strengthening `WakeInv` adds that a non-empty pipe is on the ready list
  or about to be cleared where edges are needed (`ByteHasEdge`), and that a queued functor
  is announced by a readable pipe, by a caller that still owes its byte, or by a loop that
  is on its way to the swap (`Announced`); and the same for a `quit_` that was asked for, which
  a loop before its test still sees (`QuitAnnounced`). The step for
  `Clear` is where `EdgeAssumption` enters.
- `OrderCorrect`: `Spec => []InOrderOnce`, with the fact that `batch` is empty outside
  `handle_pending_func`'s loop.
- `RefinesExecutor`: `Spec => ImplementsExecutor`, the safety part of the refinement: each
  step of the loop and its callers is a step of the executor or a stutter.

`SelectiveRepeatProofs`, for every `BufferSize` and `WindowSize` with
`2 * WindowSize < BufferSize` (`WindowAssumption`), any packets shorter than the window, any
number of bytes and of datagrams under way (`ProtocolAssumption`). The window alone first:

- `RangeMeansInside`: `in_valid_range`'s eight comparisons decide exactly whether a packet
  lies in the window. A window that wraps has room for one byte less, because the
  second branch compares the end with `<` where the first uses `<=`.
- `OldRefused`: a copy of a packet from up to a window back is refused.
- `AckMovesWindow`: `move_if_valid` moves to an ack the window allowed and ignores an older one.

Then the protocol:

- `ProtocolInvariant`: `Spec => []ProtocolInv`. Both ends compute with positions modulo
  `BufferSize`; the invariant says of which byte number each position is the remainder (`Pos`,
  with the lemmas `PosAdd`, `PosAhead` and `PosDiffer` on remainders less than a lap apart).
  None of the checked invariants is inductive. What it takes beside them: timers lie end to
  end from the acknowledged bytes to the sent ones (`TimersOK`); acks under way fall between two
  packets and are in order (`AcksOK`, `Uncut`), so that `cancel_timer` finds the packet it stops at;
  what is ahead of the receive window is there in whole packets (`WholePackets`), so that the window
  only stops between two packets; and no datagram is overtaken by more than a window (`Fits` and the
  order in `DataOK`), without which `OldRefused` would not apply to a late copy. The last one holds
  because the network keeps the order of datagrams: with reordering it is false.
- `TypeCorrect`, `WindowsCorrect`, `ResendCorrect`, `ReorderCorrect`: `TypeOK`, `WindowsNested`,
  `Retransmittable` and `OutOfOrderKept` follow.
- `ProtocolIsByteStream`: `Spec => ImplementsByteStream`. `SendData` accepts, `RecvData` and
  `ReadCallback` deliver (`UnreadBytes`: both branches of `recv_all` return exactly the bytes
  that follow those read), every other step is a stutter.

`TimerQueueProofs`, for any expiry times, number of timers and ticks a millisecond, from
`TimerAssumption`. `TypeInv` adds the types of the timer that runs and of the history.

- `TypeCorrect`: `Spec => []TypeOK`.
- `QueueCorrect`: `Spec => []Cancellable`. Inductive with `RunningIsOut`: until its callback is
  done a timer is out of `timers_`, so queueing it again cannot leave two entries for one id.
- `CancelFinal`: `Spec => []CancelledStaysCancelled`, with `CancelledIsGone`: a cancelled timer has
  no entry in `id_to_timers_` and is not running.
- `RunsCorrect`: `Spec => []NeverTooOften`, with the fact that a queued timer's expiry is its first
  one plus an interval for every run (`QueuedInStep`, `RunningInStep`) and that the last run
  was due (`RunsWereDue`).
- `WakeCorrect`: `Spec => []WakesInTime`; here the argument is that the cast to milliseconds
  rounds down.

`ConnectionProofs`, for data and files of any size and any socket buffer, from
`ConnectionAssumption`:

- `ConnInvariant`: `Spec => []ConnInv`. `WriteArmed` speaks of the loop only, but handlers choose
  the callback and then run user code that may send again; `WriteInv` says that the right callback
  is set at every place except inside `handle_sendfile`, which is entered with an empty buffer,
  and that nothing has touched the callback before the handshake is done. `ToldOnce` and
  `StreamIntact` are inductive together with it and the types.
- `TypeCorrect`, `NoticeOnce`, `CallbackCorrect`, `StreamCorrect`: `TypeOK`, `ToldOnce`,
  `WriteArmed` and `StreamIntact` follow.

Its last part is about the buffers of the connection, `Buf == INSTANCE Buffer`, for every
initial size and every sequence of calls:

- `IndicesAreSafe`: `Buf!Spec => []Buf!IndicesOK`, the indices never cross and stay inside the
  vector.
- `ContentIsFifo`: `Buf!Spec => [][Buf!Fifo]_(Buf!vars)`, a step leaves the content in front of the
  new one or takes bytes from its front. The lemma `EnableBytesMakesRoom` says that all three
  branches of `enable_bytes` keep the content and leave room for n bytes; `WriteAppends` and
  `ReadTakes` follow from it in terms of slices of the vector. `Buffer` has no run of its own: its
  properties are few and proved.

`HttpConnectionProofs`, for requests with any headers, bodies of any length, any number of
requests and however TCP cuts them up, from `HttpAssumption`:

- `HttpInvariant`: `Spec => []HttpInv`, which has these parts.
  `AllIntact` speaks of requests that were handed over, but a request is parsed in as many reads as
  TCP likes, so `OneByOne` has to say where the parser is in the one request under way: nothing
  read of it (`AtLine`), the request line and some headers (`AtHeader`), all up to the blank line and
  a part of the body (`AtBody`), or a line was malformed; and that the buffer and then
  the wire hold exactly the tokens behind that place (`Unread`). Bytes that arrive leave the parser
  where it is (`Arrives`), and `feed()` takes it from any such place to another one or to the end of
  the request (`FeedPhase`, from one lemma for each `try_parse` function). A client that does
  not pipeline has at most one request under way; one that does is excepted, as in `RequestsIntact`.
  `Sized` is about the Response kept on the connection: it sends a file only if a route asked for
  that, and with that file's size unless `read_file_to_body` has overwritten it. `AllOwn` and
  `AllMeasured` need it, because an answer inherits `sendfile` and `filesize` from the answers before it.
  `AllCookies` is the part for the cookie: the one that the Response holds, and the one of every
  answer, belongs to a session that no replaced Response has come after.
- `TypeCorrect`, `RequestsCorrect`, `AnswersCorrect`, `LengthsCorrect`: `TypeOK`, `RequestsIntact`,
  `OwnAnswer` and `LengthRight` follow.

`FileTransferProofs`, for every file, block and window size with `MaxDataSize < WindowSize`
(`TransferAssumption`):

- `TypeCorrect`: `Spec => []TypeOK`.
- `EchoCorrect`: `Spec => []EchoIntact`. The way of the bytes is cut in two: what the client
  has sent and holds is what it read from the file (`ClientInStep`), what the server has sent back
  and holds is what it received (`ServerInStep`); and the client quits at the end of the file with
  as much received as sent (`QuitsAtEnd`), which leaves nothing on either half
  (`HalvesMakeCopy`).

`PeerServiceProofs`, for any number of loops, addresses and limits, from `PeerAssumption`:

- `PeerInvariant`: `Spec => []PeerInv`. `Counted` is about connections, but the code counts in one
  step of a thread and makes or ends the connection in others, so the invariant has to follow
  every thread's stack (`Stacks`): frames of `connect_peer`, under at most one frame of
  `handle_close` or `handle_error`, which refers to a connection of that loop that is ending and
  still counted. `SizeIsHeld` then says that the count is the connections that have not ended,
  `Links` that sessions and `connectings_` refer to connections to the right peer.
  That a connection lives on without a session for a while (`reading`) leaves all of it in place.
- `TypeCorrect`, `CountIsCorrect`, `ConnectionsKept`: `TypeOK`, `Counted` and `KeptAlive` follow.

`ServiceProofs`, for any number of workers (none included), names and limits, from
`ServiceAssumption`:

- `ServiceInvariant`: `Spec => []ServiceInv`. That no more loops register than there are workers
  is not inductive, because a worker whose loop has returned takes another task: `Budget` counts
  tasks that wait, tasks about to register and loops registered together. `ConnsOK` adds to
  `Held` and `Released` that a name is used again only after a reset of the connection that had
  it (`ReusedAfterReset`), which is why losing one's place takes a reset. `MainThread` says what
  `stop` has still to visit in each of its walks.
- `TypeCorrect`, `HeldCorrect`, `ReleasedCorrect`: `TypeOK`, `Held` and `Released` follow.

Only model-checked: all liveness (`ImplementsFairExecutor`'s fairness, `DueIsRun`, `Drains`,
`PeerCloseNoticed`, `Settles`, `Finishes`, `Answered`, `Refills`, `Served`, `StopReturns`),
because fairness and ENABLED are out of the prover's reach.

## 6. Not modelled

Beside the components of the plan (proxy, coroutines, router): SSL (the same handlers over
OpenSSL's record layer), the UDP wrappers (thin calls of `sendto` and `recvfrom`), HTTP sessions
(a map under a lock), address formatting and logging, the vendored UUID generator, the
encoding of the P2P datagrams, and the example sites under `http/example`, whose scripts are
third-party libraries and scripts of single pages. Of the modelled parts: object lifetime (a `PollerCB`
freed while a later event of the same batch points to it), I/O that a handler does after a
callback has closed the connection, the other connections of a loop while `handle_sendfile` or
`handle_write` of one calls itself on EAGAIN, `cancel_timer` called from another thread, and a FIN
reported in one edge with data, which `handle_read` does not come back for (`missed` in
`Connection`, excepted by `PeerCloseNoticed`).
