# rserver: formal model

TLA+ specifications of rserver, the TLC runs that model-check them and the
theorems TLAPS proves about them. Paths are relative to the repository; line
numbers of `WebsocketServer.cpp` without a path mean `src/src/WebsocketServer.cpp`.

Contents: [the system](#the-system), [modules](#modules-and-how-they-correspond-to-the-code),
[runs](#runs), [findings](#findings), [proofs](#proofs), [limits](#what-is-not-modelled),
[plan](#plan).

## The system

rserver streams the progress of a renderer to web browsers. The application
creates a `RenderServer`, which owns a thread that runs the static class
`WebsocketServer`. That class keeps the map of connected clients and sits on
websocketpp, which sits on asio. Messages from a browser come back through a
callback; a small JSON tokenizer (jsmn) with helpers takes them apart.

```
 application threads                      network thread (WebsocketServer::run)
   RenderServer / RenderServer::on_progress       |
        |                                         | on_validate, on_message,
        v   sendText, sendData, broadcastData,    v on_fail, on_close
   WebsocketServer   sendClose, stop        WebsocketServer handlers ---> message
        |            (mutex websocketsLock guards both maps)              callback
        v  connection::send, close                |                  (may call the API)
   websocketpp connection <-----------------------+
     (m_connection_state_lock, m_write_lock)
        |  io_service::post/dispatch
        v
   asio io_service: one handler at a time, on the network thread
```

| Component | State | Operations | Interacts with |
|---|---|---|---|
| `WebsocketServer` (`src/src/WebsocketServer.cpp`) | `g_id_to_socket`, `g_socket_to_id`, `websocketsLock`, the websocketpp endpoint, the message callback | `init`, `run`, `stop`, `sendText`, `sendData`, `sendClose`, `broadcastData`, `getWebsocket`; handlers `on_validate`, `on_message`, `on_fail`, `on_close` | called by application threads and by the network thread; calls `send` and `close` of connections |
| websocketpp `connection` (`src/include/websocketpp/impl/connection_impl.hpp`) | `m_state`, `m_internal_state`, `m_send_queue`, `m_current_msgs`, `m_write_flag`, `m_handshake_timer`, two locks | `start`, `send`, `pong`, `close`, `terminate`, `write_frame` and the read, write and timer handlers | called by `WebsocketServer` from any thread, by asio on the network thread; calls the handlers |
| websocketpp endpoint, server role, asio transport | transport state (LISTENING), acceptor, `io_service` stopped flag | `listen`, `start_accept`, `stop_listening`, `stop`, `run`, `get_con_from_hdl` | creates connections, runs their handlers |
| `RenderServer` (`src/include/rserver/RenderServer.h`) | `server_thread`, the result `init` returned (dropped) | constructor, `start`, `stop`, destructor, `on_progress`, callbacks | starts and joins the thread that runs `WebsocketServer::run` |
| jsmn (`src/src/jsmn/jsmn.cpp`) | `pos`, `toknext`, `toksuper`, the caller's token array | `jsmn_init`, `jsmn_parse`: resumable, three error codes | called by the application on message text |
| jsmn_util (`src/src/jsmn/jsmn_util.cpp`) | none | `jsmn_next_key`, `jsmn_to_map`, `jsmn_get_word`, `jsmn_split_string` | reads jsmn tokens |
| websocketpp request parser (`src/include/websocketpp/http/impl/request.hpp`, `parser.hpp`) | `m_buf`, `m_header_bytes`, the headers, the body | `consume` | called by `handle_read_handshake` for each read |
| websocketpp hybi13 processor (`src/include/websocketpp/processors/hybi13.hpp`) and UTF-8 validator | `m_state`, `m_bytes_needed`, the header, a data and a control message | `consume`, `get_message` | called by `handle_read_frame` for each read |
| asio `task_io_service`, `posix_event`, `epoll_reactor` (`src/include/asio/detail/impl`) | `op_queue_`, `outstanding_work_`, `stopped_`, the wakeup event, private queues of threads; descriptors, timers | `run`, `post`, `stop`, `work_started`, `start_op`, `cancel_ops`, `schedule_timer`, `cancel_timer` | runs every handler above; called from any thread |
| asio `strand_service` | `locked_`, `waiting_queue_`, `ready_queue_` | `dispatch`, `post`, completion | websocketpp wraps each handler of a connection in a strand |
| asio `timer_queue` | heap, list of timers | `enqueue_timer`, `get_ready_timers`, `cancel_timer` | called by the reactor under its mutex |
| `src/src/main.cpp` | none: everything in it is commented out | | |

What is hard about it, by component:

- **WebsocketServer.** Application threads, the message callback (on the network
  thread, and free to call the API) and the handlers interleave at every release
  of the mutex. `sendClose` looks up, closes and erases in three separate steps.
  `stop` walks the map without the mutex. `broadcastData` holds the mutex while
  it takes each connection's own locks, and `close` holds such a lock over two
  steps. `on_validate` gives every client the id `"test"` (line 128) while the
  maps are built for one id per client. *Correct* means: what an id leads to is
  a client that gave that id; the maps agree; closing removes exactly the
  connection that closed; a registered client can be reached until it or the
  server ends; nothing that ended is registered again; every call returns.
- **connection.** `send` tests the state under one lock and pushes under another;
  `close` tests and writes the state under a lock that `terminate` and
  `send_close_ack` do not take; both ends may start the closing handshake; two
  timers may be armed at once; `write_frame` tasks pile up while a write is under
  way. *Correct* means: frames leave in order and are not forgotten, the bytes of
  a write stay put, nothing follows a terminal frame, the close and fail
  handlers run once, and handshakes end even if the peer is silent.
- **RenderServer.** `start` after `stop`, `stop` from the callback (a thread
  joining itself), `on_progress` against `stop` and destruction, an `init` that
  failed unnoticed. *Correct* means: a started server serves, `stop` returns and
  leaves no thread behind.
- **jsmn, jsmn_util.** A parse that ran out of input or tokens is resumed and
  must give what one parse of the whole gives; walking tokens must skip nested
  values; splitting must count a trailing empty item.
- **Request and frames.** The bytes come in any pieces. *Correct* means that the
  pieces make no difference: a request is accepted, with its body, or refused
  for what is in it, the bytes behind it go to the frame reader, and the
  messages delivered are those RFC 6455 finds in the stream, fragments unmasked
  with their own keys although control frames come between them.
- **asio.** Threads wait on a condition variable or in `epoll_wait`, and are
  woken only when someone thinks it necessary; work is counted without the mutex;
  the strand's ready queue has no lock. *Correct* means: each handler runs once,
  those of a strand one at a time and in order, whatever can run does run, and
  `run` returns when it is told to stop or nothing is left.

The list of hazards, each at its line, with the properties aimed at it, is in
`PROJECT.json` under `hazards`.

## Modules, and how they correspond to the code

| Module | Models |
|---|---|
| `WebsocketServer.tla` | the static class: both maps, the mutex, each API call step by step, each handler, `stop` |
| `Registry.tla` | abstract: who can be reached, and who may join and leave when |
| `Session.tla` | abstract: the life of one connection as `WebsocketServer` sees it |
| `Connection.tla` | one websocketpp server connection |
| `RenderServer.tla` | the facade: constructor, `start`, `stop`, destructor, the server thread in `run`, the callbacks |
| `HttpRequest.tla` | the reader of the opening request |
| `Hybi13.tla`, `Utf8.tla` | the reader of frames, and the decoder its texts go through |
| `EventLoop.tla` | abstract: what an event loop with a strand promises |
| `IoService.tla`, `Strand.tla` | asio's `task_io_service` with event and reactor; the strand on top, and the next-state relation of both |
| `TimerQueue.tla` | the timers of the reactor |
| `Jsmn.tla`, `JsmnUtil.tla`, `JsonText.tla` | the tokenizer; walking its tokens, splitting; JSON values with their texts and tokens, for reference |
| `MC*.tla` | constants for TLC, texts, requests, streams and programs, reference definitions; `MCSequential` puts the sequential parts side by side |
| `WebsocketServerProofs.tla`, `ConnectionProofs.tla`, `RenderServerProofs.tla`, `ReaderProofs.tla` (of `HttpRequest` and `Hybi13`), `StrandProofs.tla`, `EventLoopProofs.tla`, `TimerQueueProofs.tla`, `JsmnProofs.tla` (with `JsmnUtil`) | theorems |

How they rest on each other: `WebsocketServer` uses of a connection what
`Session` says, and `Connection` implements `Session`. `Connection` takes from
`HttpRequest` and `Hybi13` that a read ends in a request that is ready or
refused, or in a message or an error, and from `EventLoop`, which `Strand`
implements, that its handlers run one at a time, in order, and eventually.
`IoService` takes from `TimerQueue` that the reactor gets the operations that are
due. `RenderServer` uses of the endpoint and of `run` that they accept, stop and
return.

`PROJECT.json` (`map`) names the source lines of each definition.

### WebsocketServer

A critical section that cannot block is one step, taken when `websocketsLock`
is free. A call is a sequence of such steps: `pc[t]` says where thread `t` is,
`id[t]` and `hdl[t]` are its locals. The network thread runs one handler at a
time (`netPc`, `netHdl`, `netId`); while it is in the message callback it may
itself be in an API call, so it is a member of `Threads`.

| Code | Actions |
|---|---|
| `sendText`, `sendData` (they differ in the opcode) | `SendBegin`, `SendGet`, `SendPush` |
| `broadcastData` | `BroadcastBegin`, `BroadcastLock`, `BroadcastSend` (one per entry), `BroadcastEnd` |
| `sendClose` | `SendCloseBegin`, `SendCloseGet`, `SendCloseCheck`, `SendCloseSet`, `SendCloseErase` |
| `stop` | `StopBegin`, `StopListening`, `StopLoopBegin`, `StopLoopHead`, `StopCheck`, `StopSet`, `StopLoopNext`, `StopClear`, `StopEnd` |
| undefined behaviour of `stop`'s unlocked loop | `StopDangling`, `StopRace` |
| `on_validate` | `ValidateRefuse` (no query), `ValidateBegin`, `ValidateInsert` |
| `on_close` | `Terminate` (which calls it), `CloseGetId`, `CloseErase` |
| `on_message` | `Message`, `MessageGetId`, `MessageDone` |
| `on_fail` | part of `Failed`: it changes nothing |
| accept loop of the endpoint | `Accept`, `AcceptAborted` |
| connection events the server observes | `Opened`, `Failed`, `PeerClose`, `Terminate` |

A map is a function with `None` (or 0) where there is no key: `insert` keeps an
existing entry, `erase` of a missing key does nothing, as in `std::map`. Ids are
positive numbers because `stop`'s iterator follows the key order. `IdOf` is what
`on_validate` derives from a handshake; the constant function is the code as it
stands, an injective one what its comments ask of the code that is to replace
the hardcoded id.

The loop of `stop` is undefined behaviour when another thread erases the node
its iterator points at (`StopDangling`), or writes the map at the same moment
(`StopRace`). The outcomes the model admits: the process dies (`crashed`), or the
freed node still leads to a later key or to the end. No property forbids the
crash; liveness properties say "or crashed".

### Session: the seam between the two models

`WebsocketServer` needs of a connection only its state and which thread is
between the test and the write of `close()`. `Session.tla` says how these two may
change. `Connection` implements it (`SessionSpec`), and every connection of
`WebsocketServer` moves as it allows (`SessionsSpec`). Both are proved.

| `Session` | `WebsocketServer` | `Connection` |
|---|---|---|
| `Accept` | `Accept` | `Start` |
| `Respond` | `ValidateInsert`, `ValidateRefuse` | `ReadRequest` |
| `Open` | `Opened` | `WroteResponse` |
| `Fail` | `Failed` | `Terminate` while connecting |
| `PeerClose` | `PeerClose` | `Ack` while open |
| `Terminate` | `Terminate` | `Terminate` while open or closing |
| `CloseCheck(t)` | `SendCloseCheck`, `StopCheck` | `CloseCheck`, `ProtocolError` |
| `CloseSet(t)` | `SendCloseSet`, `StopSet` | `CloseSet` |

The table is also the argument that the server model leaves out nothing a
connection can do: every row has an action there. The network thread's own
`close` on a protocol error (`ProtocolError`) is a test and a write with no other
event between them on that thread; the server model has it as `PeerClose`. A
session that a late `CloseSet` brought back from `closed` to `closing` may
`Terminate` again, in both models: this is how the close handler runs twice.

`PeerClose` in the server model does not look at the state lock, because
`send_close_ack` takes none; `Opened` and `CloseCheck` do.

### Connection

The io_service runs one handler at a time; what a handler does between two
points where another thread can interfere is one step. `m_write_lock` sections
are single steps; `m_connection_state_lock` is a variable because `close` holds
it over several.

| Code | Actions |
|---|---|
| `send` | `SendCheck` (state lock), `SendPush` (write lock) |
| `close`, `send_close_frame` | `CloseCheck`, `CloseSet` (state and timer), `ClosePush` |
| `send_close_ack` | `Ack`, `AckPush` (no state lock) |
| `terminate` and the completed shutdown, which runs the handler | `Terminate` |
| `start`, `read_handshake` | `Start` |
| `handle_read_handshake`, `process_handshake_request`, `write_http_response` | `ReadRequest`, `ReadFailed` |
| `handle_write_http_response` | `WroteResponse`, `ResponseFailed` |
| `handle_open_handshake_timeout`, `handle_close_handshake_timeout` | `TimerExpires`, `TimerFires`, then `Terminate` |
| `write_push` and the dispatch of `write_frame` | `Push`, in every action that queues a frame |
| `write_frame` | `WriteFrame` |
| `handle_write_frame` | `WroteFrames`, `WriteFailed` |
| `handle_read_frame`, one step per frame with an effect | `ReadFrames`, `Message`, `MessageDone`, `Ping`, `Pong`, `PeerCloses`, `PeerClosesBadly`, `ProtocolError`, `ReadOn` |
| undefined behaviour: `m_handshake_timer` assigned on two threads | `TimerRace` |

`m_handshake_timer` is a `shared_ptr` that a second `close` overwrites: the first
timer stays armed, and a timer that has expired cannot be cancelled. `timer` is
the one the pointer leads to, `strays` counts the others whose handler will still
run. `pushed`, `wire`, `closeCalls` and `failCalls` are history variables (the
last two also tell that the socket was shut down, which happens where the
handlers are called). Frames carry a number, a kind and whether they are
terminal; payloads and sizes are left out.

### RenderServer

| Code | Actions |
|---|---|
| constructor, with `WebsocketServer::init` | `Construct`: `listen` may fail, which nobody notices |
| `start` | `StartSpawn` (the thread may run before its pointer is stored), `StartAssign` |
| `stop` | `StopBegin`, `StopListening`, `StopService`, `StopJoin`, `StopJoined`, `StopDelete` |
| destructor | calls `stop`; what is left is `Destroy` |
| the server thread | `RunBegin`, `RunEnd`, `Accept`, `AcceptAborted`, `ClientGone`, `Message`, `MessageDone` |
| `on_progress` after the destructor | `LateProgress` |

The application calls from one thread; the message callback may call `stop`, and
so joins the thread it runs on. `crashed` is the end of the process: an exception
no one catches, or the destructor of a thread that was not joined.

### Requests and frames

`HttpRequest` has one action per turn of the loop in `request::consume`
(`ProcessLine`, `OutOfBytes`, `EndOfHeaders`, and `MoreBody` for a body under
way); `ReadHandshake` is the transport, which reads any number of bytes. A line is
what each of the two parsers makes of it: as a request line it is refused, has a method,
or is accepted with an empty one (it begins with a blank, request.hpp:174); as a header
it is refused or has a name and value. As long as `m_method` is empty the next line is parsed as
a request line (request.hpp:120), then as a header. `Hybi13`
has one per turn of the loop in the processor's `consume` (`HeaderBasic`,
`HeaderExtended`, `Application`, `ConsumeEnds`), `Dispatch` for what
`handle_read_frame` does with a message, and `ReadSome` for the transport. A
stream is a sequence of frames, not of bytes: a byte is a position, which says which
field of which frame it belongs to. A masking key is the frame it comes with and its
rotation; a byte unmasked with another one is another byte. Payloads are bytes,
which `Utf8` decodes with the table of the code; `IsUtf8` is RFC 3629.

The reference of `FramesRead` is `ReadWhole` in `Hybi13`, a reader that takes
whole frames and says what RFC 6455 makes of them; that of `RequestRead` is `Meaning`, what the lines are without any
reading.

### The event loop

| Code | Actions |
|---|---|
| `run`, `do_run_one` | `Run`, `RunOne`, `Woken`, `SpuriousWakeup` (the wait), `Poll`, `CheckTimers` and `TaskCleanup` (the reactor's turn), `PerformIo`, `WorkCleanup`, `PushPrivate` |
| `post_immediate_completion`, `post_deferred_completions` | `PostImmediate`, then `WorkStarted`, `PushOps`, `SignalOne` |
| `stop`, `work_finished` | `Stop`, `StopAllThreads` |
| `start_op`, `cancel_ops`, `schedule_timer`, `cancel_timer` | `StartOp`, `CancelOps`, `ScheduleTimer`, `CancelTimer` |
| `strand_service::dispatch`, `do_post`, `do_complete` and their exits | `Dispatch`, `StrandPost` and `PushReady`, `CompleteStrand` and `RunReady`, `LeaveStrand` |
| handlers | `CompleteHandler`, `HandlerEnds` |
| the kernel | `SocketReady`, `TimePasses` |

What runs under the mutex is one step. `call[t]` holds the steps of a call that
are left to a thread, `todo[t]` the commands left to it or to the handler it
runs. The signal of a condition variable comes after the mutex was released, as
in `unlock_and_signal_one`, and a waiter may wake without one. `start_op` tries
an operation at once only if none waits for its event; the kernel's next report
comes for all that wait.

`EventLoop` is the promise: a handler is new, pending, running or done; those the
strand has taken begin in the order it took them, one at a time; the loop is
over if someone stops it, or if there is nothing left to do. `Strand` implements
it with `Taken` (both queues of the strand, before them the handler that its
poster has still to push) and `Over` as the mapping.

In `TimerQueue` a call begins when the one before has ended, as the reactor makes
them under its mutex, and each turn of a loop is a step: `enqueue_timer` is
`EnqueueActive`, or `EnqueueTimer`, `UpHeap` and `InsertTimer`;
`get_ready_timers` is `GetReadyTimers`, `ReadyTimer` and `ReadyEnds`; `cancel_timer` is
`CancelSome` or `CancelTimer`; the two that take a timer out begin with the first half of
`remove_timer` (`RemoveTimer`), and go on with `UpHeap` or `DownHeap` and its second half
(`UnlinkTimer`). `stage`, `timer` and `index` say which loop runs, for which timer, and
where it has got to. The heap is a sequence of entries, each timer knows its index
in it, and the list of active timers is two maps. It starts from any heap into which timers were pushed
in an order that needs no swap: any heap can be one.

### jsmn and its helpers

`Jsmn` has one action per character class of the loop in `jsmn_parse`
(`ParseOpen`, `ParseClose`, `ParseColon`, `ParseComma`, `ParseBlank`,
`ParseQuote`, `ParseOther`, `ParseEnd`) and of its two inner loops (`Primitive`;
`StringEnd`, `StringEscape`, `StringChar`, `Unicode`). The caller counts first
or not (`CallCount`, `Counted`), and calls again with more text or more tokens
(`CallParse`). `JsmnUtil` runs `jsmn_to_map` (`ToMap`, `Entry`, `ToMapEnd`, with
`jsmn_next_key` as the function `NextKey`) and `jsmn_split_string` (`Split`,
`Word`, `LastWord`).

`Recognized` compares the tokens of a JSON text with those of its value. What is promised
of any text, JSON or not, is `TokensOfText`: when a call returns, each token says what
the text says at its place, each character parsed belongs to exactly one token or is
a separator, tokens are nested or apart (`Laminar`), and a number is returned only for a text that
was parsed to its end with every bracket matched. A parser that goes back too far after
`JSMN_ERROR_NOMEM`, or not far enough, has a character twice or not at all.

## Runs

| Run | Question | Instance |
|---|---|---|
| `hardcoded_id` | the code as it stands: `TypeOK`, the maps agree in the direction `on_close` needs (`ForwardHasBackward`), nothing that ended is registered again (`NeverReRegistered`), a broadcast that returns true reached everyone (`BroadcastReached`), every call returns (`CallsReturn`), a closed connection is forgotten (`ClosedUnregistered`) | 2 connections with one id, 1 application thread and the callback, 1 call each, fair |
| `distinct_ids` | an id per client: handles belong to their id (`OwnClient`), `Inverse`, `OpenReachable`, implements `Registry`, each connection a `Session`. The three in the middle say of clients that share an id what one may do to the other; with an id per client that is nothing | 2 connections with 2 ids, 2 application threads and the callback, 1 call each |
| `conn_threads` | `TypeOK`, `FramesInOrder`, `NothingAfterTerminal`, `WriterAwake`, `BuffersStable`, implements `Session`, handshakes end (`HandshakeEnds`, `ClosingEnds`), frames leave (`FramesLeave`); and while only the callback has made calls, handlers run once and no data follows a close frame (`PromisesAlone`) | 1 application thread and the callback, 2 calls each, fair |
| `server` | `stop` returns (`StopReturns`) and leaves no thread (`NoThreadLeft`), no message reaches a destroyed object (`NoDanglingMessage`), a listening server serves until stopped (`ServesWhileListening`); and whether the port was bound or not, one that listens has an accept outstanding and is not stopped, and no thread stays in `run` without work (`TypeOK`) | the application's thread, 3 server threads ever, 2 clients at a time, `listen` may fail, the callback may call `stop`, fair |
| `asio` | implements `EventLoop` (`LoopSpec`), the ready queue has one owner (`ReadyQueueOwned`), what can run runs (`RunnableRuns`), `run` returns (`RunReturns`) | 2 threads in `run`, 2 others, 4 handlers, 13 programs, fair |
| `sequential` | jsmn: `TypeOK` (never outside text or array), `TokensOfText`, `Recognized`, `CountSuffices`; jsmn_util: `KeysWalked`, `ItemPerDelimiter`; `RequestRead`; `FramesRead`; `QueueConsistent` | see below |
| `close_drops_other`, `stop_leaves_open`, `close_handler_twice`, `restart_does_not_serve`, `map_nested_object`, `fragmented_text` | what a comment or the documentation says and the code does not do: see the findings | the smallest that shows it |

**Bounds.** `MaxCalls` is the number of API calls (server) or of `send` and
`close` calls that pass their test (connection) a thread makes. One is enough in
the server for each pair of calls to overlap in each order, since a call's only
memory is the maps; the peers may open, close and fail at will in between.
Two connections and two ids are enough for one client to be mistaken for
another, which is what every property of the maps is about: none relates three
connections. `MaxFrames` (connection) bounds the frames pushed when the peer may
still send a ping or a bad close frame, as each is answered with a frame; without
it a peer could fill the queue for ever. Two calls of each thread, and one frame that answers
the peer, let a write be under way while a terminal frame and a later one are
queued. The theorems below have no bounds.

`server`: three threads let a start follow a stop twice; two clients let one come
or go while another keeps the loop alive.

`asio`: a program says how each handler is handed over (`post`, a strand's
`post`, a read or write of the socket, a timer), whether it is wrapped in the
strand, and what each thread and each handler does. Two threads in `run` are
enough for one to wait on the event or in `epoll_wait` while the other takes
handlers; the two others hand over, cancel and stop at the same time. With four
handlers the strand can have one running, one ready and one waiting.

`sequential` has these inputs: objects and arrays of up to two members with values of up to
depth two, as a text in two pieces, some with blanks and in any pieces, with
arrays of two and of thirty tokens and of the number counted before; every text
of up to four brackets, separators and primitives; every start of a string of up
to three characters behind the quote. Texts of up to five letters, blanks and
commas to split, by a comma and by the two characters `x,`. Requests of up to three lines, right and wrong, some
without a method and some that both parsers accept, complete or with the header not yet ended, and with
nothing or three bytes behind their last line (of a line begun, or of a body), and a Content-Length that is absent, 0, 2 or 3, in any pieces, and limits that some of
them exceed. Streams of up to two frames as they should be, of a text that goes on and two more, the second of them final, and of one odd frame
behind a fragment or a ping, with size limits made small (2 and 5 for 125 and
65535, 32 for 2^64, so that every length code, limit and wrap occurs within a few bytes), in
any pieces; and texts of one frame and up to four bytes, with the first and second bytes at
which the rules of UTF-8 change. Every heap of up to seven timers with
times from 0 to 2, and two further calls: three levels are what the removal of
an inner timer needs to have to move the last one up.

**Symmetry** is used in `distinct_ids` (application threads), which has no
liveness properties.

**Deadlock** is not checked: with bounded calls every run ends, and a server
that has stopped, a connection that has closed, a loop that has returned or a
reader at the end of its input really does nothing more. Being stuck in the
middle is what `CallsReturn`, `HandshakeEnds`, `ClosingEnds`, `StopReturns`,
`RunnableRuns` and `RunReturns` exclude; for the readers, `RequestRead` and
`FramesRead` say what has to have come out when all bytes have been read, and
`Recognized` when jsmn has returned.

**Fairness.** Weak fairness on each step of a call and of a handler: nothing in
them waits except for mutexes, which are held for a bounded time, and the
scheduler runs every thread. Weak fairness on the expiry of a timer. Strong
fairness on `TimerFires`, `WriteFrame` and `ReadOn`: the first two are tasks in
the io_service's queue, which it takes in order, so they run although other
handlers keep disabling them; the third ends the loop over the bytes of one
read, a finite buffer. Nothing is assumed of the peer or of the network: no
fairness on requests, frames, acknowledgements, completed writes or ends of
file. `FramesLeave` therefore has the premise that the transport's writes come
to an end. In the server model the fairness of `CallStep` includes the waiting
for a mutex: that it is weak shows that no thread is kept waiting by one
that never lets go. Endless contention for a mutex is outside that claim, as
calls are bounded. In `server` a client may stay for ever, but a thread sees
that its io_service was stopped, and `receiveMessage` returns. In `asio` each
thread has weak fairness on its next step; the socket need not become ready nor
time pass, and a thread need not wake spuriously. `RunnableRuns` is what the
strong fairness above rests on: what is queued runs.

**Mutants.** Each property of a passing run has a mutant in the modules: a
plausible bug written beside the definition it would replace, under a comment
`Mutant for <property>`. With it in place TLC finds the property violated. No
action uses a mutant.

## Findings

Six claims of comments or documentation that the code does not keep, each with a
run whose counterexample shows it; the quotations are in `PROJECT.json`.

1. `on_close` of a client takes *another* client out of `g_id_to_socket`, since
   all share the id `"test"` (`close_drops_other`, line 164).
2. `stop` closes the connections some id leads to, not all
   (`stop_leaves_open`, line 96).
3. websocketpp: the close handler may run twice when `close` is called from
   another thread than the io_service's (`close_handler_twice`).
4. `RenderServer::start` after a `stop` says "server running", but the new thread
   returns from `run` at once: nothing resets the io_service or listens again
   (`restart_does_not_serve`, `src/include/rserver/RenderServer.h:53`).
5. `jsmn_to_map` loses the keys behind a member whose value is an object with
   members, and takes tokens inside it for keys (`map_nested_object`,
   `src/src/jsmn/jsmn_util.cpp:43`).
6. websocketpp: a text of several fragments that ends within a UTF-8 character is
   delivered (`fragmented_text`, `src/include/websocketpp/processors/hybi13.hpp:515`).

Other things the models show, without a run of their own:

- `sendClose` erases the id it looked up before closing; by then the entry may
  be another connection's, under the same comment as the first finding (line 302).
- With two application threads a message may go out behind the close frame when `send` and
  `close` overlap, and messages queued before `close` may never be written, even
  on a single thread, when the peer's own close frame crosses ours.
- A connection that passed `on_validate` and then fails is never unregistered
  (`on_fail` does nothing), and `stop`'s loop is undefined behaviour while the
  network thread runs.
- The request parser adds three bytes (`sizeof("\r\n")`) for each line *and each
  read* to what it compares with the 16000 bytes of `max_header_size`: a request
  below the limit is refused if it comes in enough pieces. `RequestRead` states the bound that
  does hold.
- A first line of a request that begins with a blank is accepted, with an empty method, and the
  line behind it is read as the request line (request.hpp:120 and 174). `RequestRead` takes
  such lines for what they are to the code, no part of the request.
- A 64 bit frame length with its most significant bit set passes every check, and
  behind a fragment the sum with the size so far can wrap past `m_max_message_size`
  (hybi13.hpp:435). `FramesRead` excepts such lengths.
- jsmn without `JSMN_STRICT` takes the part of a primitive before the end of the
  text for all of it, so a text must not be cut within one (`MCJson.Stops`), and accepts texts such as
  `{x}`, on which `jsmn_to_map` reads past the tokens. A value that is an array
  makes `jsmn_next_key` return 0.
- With the default delimiter, a blank, that is also trimmed, words separated by
  two blanks give no empty item between them: "an item per delimiter, plus 1" holds
  for other delimiters.
- `io_service::run` may return although a handler has joined the strand, if the
  thread that scheduled the strand has not yet counted its work: nothing that
  the application could have relied on, as without work of its own it may
  return before any handler is handed over (`Offering` in `Strand.tla`).

## Proofs

All proofs are checked by TLAPS with Z3, Zenon and LS4. They assume what the
module assumes of its constants, which TLC evaluates in every run:

- thread names differ, ids are positive, bounds are naturals
  (`ConstantsAssumption` of `WebsocketServer`, `Connection` and `RenderServer`);
- texts are sequences of characters (`InputsAssumption` of `Jsmn`);
- the bounds of the timer queue are naturals (`BoundsAssumption` of `TimerQueue`);
- the sizes at which a frame's length changes its form are in their order, and twice the
  largest message can be counted in a `size_t` (`SizesAssumption`: 32000000 by
  default, and at least 32 bits), so that the size of a message under way and that of a frame
  without its most significant bit add up without a wrap; the peer sends
  frames, and of these only the last can lack bytes of its payload (`StreamsAssumption`); a size of seven
  bits is one that fits;
- the lines of a request are known, each has bytes except the blank one that
  ends the header, and its Content-Length and the limits are naturals
  (`RequestsAssumption`, `LimitsAssumption`);
- finitely many threads are in `run`, and no application thread is
  (`ThreadsAssumption`); handlers are finitely many, and none is named as an
  application thread, the strand, the reactor or the descriptor
  (`HandlersAssumption`); programs have the shape `IoService` gives them
  (`ProgramsAssumption`), and each call hands over an operation of its own, as each
  allocates one (`HandOverAssumption`).

Three more premises are stated in the theorems:

- the message callback does not call `start` (`"start" \notin CallbackCalls`, for
  `NoThreadLeftCorrect` and `NoDanglingMessageCorrect`);
- within brackets no call with an array stops inside a primitive that goes on in the
  text that was counted (`PrimitivesWhole`, for `CountSufficesCorrect`); without
  `JSMN_STRICT` the code takes the first part for a token of its own, and the
  count no longer suffices. TLC finds the premise true of every behaviour of
  `sequential`, whose texts do reach primitives in brackets in several pieces;
- the delimiter is one character and not the blank that trimming removes
  (`SingleDelimiter`, for `ItemPerDelimiterCorrect`). TLC also checks one of two
  characters.

**`WebsocketServerProofs`**: `TypeCorrect`, `ForwardCorrect`, `OwnClientCorrect`,
`NeverReRegisteredCorrect`, `BroadcastReachedCorrect`, `InverseCorrect`,
`OpenReachableCorrect`, `RegistryCorrect`, `SessionsCorrect`.

- `IInv` is the inductive invariant for any `IdOf`: `TypeOK`, `Own` (the id
  stored for a connection, or read by `on_close`, is the one it gave), `ForwardHasBackward`, `OwnClient`, `SessionInv`
  (what a call or a handler in the middle knows of a connection's state: for
  one, a connection being validated is still reading) and `BroadcastInv` (while a
  broadcast has not failed, every entry is in its batch or has been marked).
  `OwnClient` is not inductive alone: a lookup hands out what the map holds, so
  `Own` and `ForwardHasBackward` are needed; `NeverReRegistered` needs `SessionInv`, which says that the
  connection `ValidateInsert` is about to enter has not ended.
- `DInv` adds `Inverse` and `Filed`, for any `IdOf`, the hardcoded one included: while the
  server listens, `g_socket_to_id` has the id of each connection that is accepted or open,
  and it no longer listens once `stop` has reached its loop. What `sendClose` and
  `on_close` are about to erase was looked up for a connection that has begun to end, and
  the entry belongs to that connection or to another one of its id (`ErasesOwn`); so
  whoever loses an entry has a namesake that ended, which makes `Inverse` and
  `OpenReachable` inductive.
- `Registry` says more: such a namesake costs others their place only until it is
  forgotten. A connection is forgotten when the maps do not know it and nobody is about to
  erase its id (`Forgotten`). That it stays so (`ForgottenStays`) rests on
  `NeverReRegistered`, and on its end being final (`EndedStays`): a call begins to erase
  only for a connection whose state it changed. With it every erase is a `Leave`.
  If clients share an id, as they do with the hardcoded one, these theorems bound the damage of the first
  finding: a client is lost only to the end of another one with its id. With an id per
  client they say what one expects: the maps are each other's inverse, and an
  open connection is reachable until the server stops.
- `LInv` adds to `IInv` that a thread between the test and the write of `close`
  holds that connection's state lock, so the write is a `CloseSet` of its holder.

**`ConnectionProofs`**: `ConnectionTypeCorrect`, `WriterAwakeCorrect`,
`BuffersStableCorrect`, `SessionCorrect`, `NothingAfterTerminalCorrect`,
`FramesInOrderCorrect`, `PromisesAloneCorrect`.

- `CInv` = `TypeOK`, `Phases` and `WriterAwake`. `Phases` ties the handler the
  network thread is in and the outstanding read and write to `m_state`,
  `m_internal_state` and the response: frames are read and pushed only in
  `PROCESS_CONNECTION`, a response is written once. Without it nothing rules out
  a second transport write beside one of frames, and `WriterAwake` and
  `BuffersStable` are not inductive.
- `TInv` adds `OneTerminal` (the frames of a write are terminal at most in the
  last place, which is what `TakeLen` computes) and `NothingAfterTerminal`; a
  terminal write keeps the flag set, so no later write begins.
- `OInv` adds `Numbered`: no frame in flight has a number above `pushed`, and so
  a new one goes behind all others.
- `AInv` says what holds while no application thread has called: the network thread
  in the middle of `send` or `close` knows the state, as nobody else changes it
  (`AloneControl`), and as long as the state is open no close frame was
  pushed (`AloneFrames`). The run `close_handler_twice` shows that another
  thread is enough to break it.

**`RenderServerProofs`**: `RenderTypeCorrect`, `ServesCorrect`,
`NoThreadLeftCorrect`, `NoDanglingMessageCorrect`.

- `RenderTypeCorrect` is proved in two parts: `CallTypes` ties what a call waits for to where it is,
  which the types need, and `Serving` has the rest of `TypeOK`.
- `Serving` says why a listening server runs: the accept loop keeps its
  io_service from running out of work, so the thread in `run` can leave it only
  after a `stop` has taken the endpoint out of LISTENING, which nothing undoes.
- `Owned`: a server thread that was created and not joined is the one the
  pointer leads to, or the one that `start` is about to store there (`Stored`); what
  the application's thread knows of the pointer in the middle of a call
  (`AppOwns`); and a server thread that calls `stop` waits for itself, so that it
  never gets past the join (`StopsItself`). `NoThreadLeft` alone is
  not inductive: between the spawn and the store the pointer is null and a thread
  is alive. A callback that calls `start` breaks this, as two calls of `start` then
  store one pointer; hence the premise.

**`ReaderProofs`**: `RequestReadCorrect`, for every request, every way to cut it
into reads, and all limits, by the rules of the code: lines without a method are passed over,
and a refusal for size means only that the over-counted size exceeds the limit;
`FramesReadCorrect`, for every stream of frames whose sizes are legal and whose texts, as
dispatched, are complete (the sixth finding is one that is not), every way to cut it, and
all limits: what is dispatched and whether the reader closes, not with which error;
`DecodeDecides`.

- `HttpInv` = `HttpTypes`, `HeadersRead` (each line processed was accepted by the parser
  it was for, `m_method` is empty as long as none of them had a method, and `m_headers` has the
  lines behind the first one that had, `HeadersKept`),
  `InHead` (`begin` is behind the last line processed, `m_header_bytes` is what the lines take
  and one byte more for each, three more for each read that ran out of bytes), `InBody` (once the header has ended: what the length asks for, less what has
  come), and `RequestRead`. TLC checked it before it was proved.
- `FramesRead` relates the reader to whole frames only; it says nothing of one that is half
  read, so it is not inductive. `FrameInv` does: for some `k` the reader is in
  frame `k + 1` (`AtFrame`). `Aligned(k)` says where: which bytes of its header and payload have been
  consumed, how many are needed, that the masking key in use is this frame's, rotated by
  the payload read. `Matches(k)` says what that has made: what was dispatched is what the first `k` frames make, and the
  message under way is what is left of them joined with the part of the payload that
  was read, with a validator that has seen all of it. A ping between two fragments has
  a message of its own, so the data message is still the one before it. `DataFits` and `ControlFits` count the bytes still
  needed as well, which is why a limit tested once per frame holds for each chunk. A reader that
  closed has come to a frame that is wrong (`ClosedAt`), or to text that is not UTF-8. TLC
  checked `FrameInv` on the streams of the run before it was proved.
- For the latter `DecodeDecides` is needed: the validator's table takes a sequence of bytes to
  "accept" exactly if it is UTF-8 by RFC 3629, and to "reject" exactly if nothing that could follow
  would make it so. Only because it never rejects late does a reader that stops in the
  middle of a frame agree with one that looks at whole frames.
- Where lines and frames end, the state of the validator and `ReadUpTo` are recursive functions.
  That they have the values their definitions say, and what follows for all of them,
  is shown with a least counterexample (`SmallestNat`), which takes the place of an
  induction.

**`JsmnProofs`**: `JsmnTypeCorrect`, `LaminarCorrect`, `TokensOfTextCorrect`, for every
text (also one that is not JSON), every array and every sequence of calls;
`CountSufficesCorrect`.

- `JInv` adds to the types that no token begins or ends behind `Base`, the place
  where what is being read began: going back there after an error cannot leave
  a token behind, and this is why a resumed parse never overlaps what it found.
- Every step then adds a token behind all that have ended (`Adds`), closes
  the innermost open one (`Closed`), or leaves the tokens alone (`TokenSteps`),
  and both keep them nested or apart.
- `TokensOfText` speaks of calls that have returned. `TextInv` says of the moments in between that the
  tokens are those of the text up to `Base` (`Whole`), and that what lies behind is the
  beginning of one primitive or string (`PrimitiveText`: no character that ends one;
  `StringText`: each quote comes behind a backslash). A separator moves `Base` over one
  character (`WholeGrows`), a token that is found over all of its own (`WholeAdded`), a
  closing bracket gives its character to a token that had one (`WholeClosed`), and giving up
  leaves `Base` where it was.
- For the count, `Turn` is what the loops do as a function of the place alone: the position,
  what is being read, how many brackets are open. `Leads` says that
  these turns get from a place to the end of the text with a given number of tokens; it is
  stated as membership in every set that is closed backwards under `Turn`, so that no
  induction is needed. `Counting` keeps the first call on that path. `CountKept` and
  `Pieces` keep a call with an array on it too: when it has to go back it goes to a place of
  the path, and when it stops at the end of a piece the rest is what the next call
  begins with. So the number it still needs is never more than what is left of the array.

Of `JsmnUtil` the same module has `ItemPerDelimiterCorrect`. Trimming takes no delimiter
away (`TrimPlaces`), taking a word off the front takes exactly one (`WordPlaces`: a
shift of the places left is a bijection), and so the items found and the delimiters in what
remains are one more than those of the text at every turn (`Remaining` in
`SplitInv`).

**`StrandProofs`**: `ReadyQueueOwnedCorrect`, and `StrandExcludesCorrect`: two
handlers that the strand calls never run at once.

- `Scheduled` says where the operation of a locked strand is: about to be pushed by one
  thread, in the queue of the service, in the private queue of one thread, or
  being run by one, and never in two of these places. Every step moves it along
  (`Transfer`) or leaves it alone (`Quiet`, `Aside`); the only one that brings it into
  being is the thread that finds the strand unlocked and locks it. Whoever is
  about to access `ready_queue_` has it, so no two threads are.
- `Types` keeps the steps of a call among the few sequences that calls consist of
  (`CallForms`), from which `Pending` reads what a thread is about to push.

**`EventLoopProofs`**: `TypeOKCorrect` (with it: an operation is in one queue at most) and
`LoopSpecCorrect`: the io_service with the strand implements `EventLoop`, for
any number of threads, handlers and programs.

- `Placed`: some map gives every operation one place (a queue of the service, of a
  thread, of the reactor or the strand, the hands of a thread, or nowhere yet or any more),
  and every queue holds exactly those whose place it is. With `NoDoubles`
  no queue has one twice, so each step that moves operations only has to say
  which ones change their place.
- `Control` ties what a thread is about to do to where it is in `run`;
  `DescriptorOnce` says that the descriptor is queued before the reactor and not queued
  again before it has been run; `Commanded` that an operation still to be handed
  over has not been, and that nobody else is to.
- `WorkCounted`: `outstanding_work_` is the number of operations counted plus the number of
  threads that are running one they have not yet paid for. Zero therefore means that nothing is
  pending or runs, which is what `EventLoop` asks of a loop that is over by itself,
  except for a thread that offers the strand before it counts (`Offering`).
- `StrandHas`: a handler the strand has taken stays with it while it is pending,
  and a strand that is not locked has none, so that the front of `Taken` is always what runs
  next.
- `LoopInv` is all of these. Each kind of step then refines (`CallRefines`,
  `LoopRefines`, `CommandRefines`, `StrandRefines`, `EnvironmentRefines`).
- `LoopInv` was not run through TLC: the map of `Placed` is one of more than TLC can
  enumerate. What it implies, `TypeOK`, `ReadyQueueOwned` and `LoopSpec`, was.

**`TimerQueueProofs`**: `QueueConsistentCorrect`, for any number of timers, operations
and calls. `QueueInv`, which TLC checked as an invariant of the same instance before it
was proved, says what holds within a call as well:

- `Ordered`: no entry is before its parent, except the one that is going up, or the children
  of the one that is going down. The children of the place where that entry is are not before
  the parent of that place either, which is what makes a swap repair one place without
  breaking another (`UpHeapInv`, `DownHeapInv`). When the loop ends the exception
  is gone: this is where removing the last entry into the middle needs both directions.
- `KnownPlaces` and `Members`: a swap permutes heap and indices together; the timer of
  the call is in the heap and not yet in the list, or the other way round, and otherwise
  both hold the timers that operations wait for. That the list is one, without cycles, is
  said by sets that are closed under `next_` (`LinkFirst`, `Unlinked`), without
  induction.
- `Operations`: an operation is in one queue, and its timer in the heap for its time.
- `Handed`: what a call of `get_ready_timers` has handed over so far is no later than any
  entry left, since the first entry of a heap is the earliest (`FirstIsLeast`:
  the one of least index that is not would have a parent that is not).
- `Rising`: a new entry is strictly before the entries below it, so at the top it
  is before all others (`FirstIsBefore`), and `enqueue_timer` returns true exactly then.

Only model-checked: the liveness properties (`CallsReturn`, `ClosedUnregistered`,
`HandshakeEnds`, `ClosingEnds`, `FramesLeave`, `StopReturns`, `RunnableRuns`,
`RunReturns`), which are beyond the prover; and of what the sequential modules compute
`Recognized` and `KeysWalked`. The first compares the tokens with those of a JSON value, a tree
that `JsonText` builds with RECURSIVE operators; the second walks over the keys of such a
value with `NextKey`, whose calls follow the sizes of the tokens found and not a number
that becomes smaller, so that there is no least counterexample to take. Both need
induction over data and stay with TLC.

## What is not modelled

- **Payloads and log output.** `sendClose` prints the sizes of both maps without
  the mutex: a race whose outcome is only printed.
- **`setMessageCallback`**, which replaces the function `on_message` calls.
- **What the server writes**: responses and outgoing frames, as bytes. `Connection` has
  them as frames of a kind.
- **The handshake's negotiation** (keys, subprotocols, lists of header
  parameters), the older protocol versions 0, 7 and 8, and permessage-deflate,
  which the configuration does not enable.
- **Parts of websocketpp this program does not use**: the client side, pong
  timeouts, http handlers, pausing of reads, deferred responses.
- **asio beyond the event loop.** In `IoService`: `one_thread_` is false, a
  timerfd is available, one operation per kind of event, no speculative
  operations, no `poll`, `reset`, `shutdown_service` or fork. Buffers, resolvers,
  serial ports, SSL, composed operations and the other platforms are headers without state of their own or never
  instantiated. asio and websocketpp are vendored in full: nine tenths of the
  lines under `src/` are theirs, and most of those are such headers. The models cover
  the part that this program runs and that has behaviour to get wrong.
- **jsmn_util**: `jsmn_replace`, `jsmn_typename` and the conversions with streams;
  an empty delimiter, with which `jsmn_split_string` does not end.
- **`main.cpp`, and the JPEG functions of `RenderServer.cpp`**: commented out.
  `on_progress` gives `copyRGBData` a buffer of 512 x 512 pixels before it knows
  the size of the image; what a renderer writes there is not in the repository.

## Plan

Done, in this order: `WebsocketServer` and `Registry` with their invariants and
refinement, since the maps are the program's own core; `Session` and
`Connection`, since the promises of the first rest on what a connection can do;
the proofs of these; `RenderServer`; `Jsmn` and `JsmnUtil`; the event loop, strand and timers
below everything; the readers of requests and frames; the proofs of
`RenderServer`, `Jsmn` and of the strand; then those of the event loop's refinement, of the
reader of requests, of jsmn's count, of the splitting of strings, and of the timer queue;
last those of the reader of frames with its validator, and of what jsmn's tokens are.

To come:

1. **Composition**: several full `Connection`s under `WebsocketServer` in place of
   their `Session`s, if the state space allows, for the frames a broadcast puts on
   the wire.
2. **What the server writes**: `prepare_data_frame` and `prepare_control`, read back by
   the model of a client's reader.
