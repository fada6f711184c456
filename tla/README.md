# A verification project for asio_samples

TLA+ modules that model the asynchronous core of `mabrarov/asio_samples`, TLC
runs that check them on small instances, and TLAPS proofs about them for every
value of their constants. Paths below are relative to the repository (`src/`).

## 1. Inventory of the system

The repository is a set of active objects written with Boost.Asio, and the
small libraries they need. An active object has a strand; its member functions
run only in that strand, so one handler is atomic with respect to the object's
other handlers. Everything else is concurrent: threads of one or more
`io_service`s run the strands of different objects in parallel, a completion may
be queued long before it is handled, and a completion that is queued can no
longer be cancelled.

| Component | State it keeps | Operations | Talks to |
|---|---|---|---|
| `cyclic_buffer` | two offsets, two sizes | `data`, `prepared`, `consume`, `commit`, `reset` | called by the session |
| `session` | external, internal, read, write and timer state, count of pending operations, two parked handlers, first error | `async_start/wait/stop`, completions of read, write, timer, `reset` | socket and timer; answers handlers through the `io_service` |
| `session_manager` | external, internal, accept state, count of pending operations, lists of active and recycled sessions, iterator of the chunked stop, statistics | `async_start/wait/stop`, completions of accept, of each session's start, wait and stop, scheduled stop, `reset` | acceptor, sessions (post to their strand, are answered in its own), factory |
| session factories | one list of sessions, or one per `io_service` | `create`, `release` | called by the manager |
| echo server `main` | four-state context, stop timer, console signal | handlers of console close, server start/wait/stop, stop timeout, thread exception | manager, threads |
| Qt echo server | `Service`: four states, one server with its threads; `MainForm`: what it shows, events queued in the GUI thread | start, stop and terminate buttons; queued answers of start, wait, stop; worker exception | manager (from its threads), user |
| NMEA `cyclic_read_session` and its program | ring of frames, parked read and stop handler, kept error | `async_start/read_some/write_some/stop`, completions of the two port reads and of the write, `resest` | serial port, the program's print loop |
| performance client | sessions, a manager that starts them in batches on a timer, count of outstanding work, statistics | manager's start, stop, next batch; session's connect, read, write, stop; `main`'s timed wait and join | sockets, peers |
| `handler_storage` | one type-erased handler per storage, list of storages per service | `store`, `post`, `clear`, `target`, service shutdown | everything that parks a handler |
| intrusive lists | links in the elements | `push_front`, `erase`, `swap`, `insert_front` | manager, factories, services |
| `limited_int` | value, overflow flag | `+=`, `++` | statistics |
| console signal service (Windows) | per object a list of waiters; queued signals, shutdown flag; subscribers of a shared instance | `async_wait`, `cancel`, `destroy`, `deliver_signal`, `shutdown_service` | `sp_singleton`, threads of the operating system |
| `sp_singleton` | weak pointer, mutex, latch | `get_instance`, `get_nullable_instance`, destruction of the instance | console signal service |
| handler plumbing | none | allocation, invocation and binding wrappers | all |

What is hard here, and what the properties are for, is listed in
`PROJECT.json` under `hazards`, each at its line. In short:

* **session** - three independent activities (read, write, timer) that end in
  any order; a timer whose expired handler is already queued when the transfer
  that should have restarted it completes; a system call that fails in the
  middle of a transition; partial transfers around the end of the buffer; a
  stop handler that is called only if a counter reaches zero exactly once.
  *Correct* means: the counter is exact, every accepted handler is called once,
  with the first reason; what is echoed is what was received, all of it if the
  peer ended first; an inactivity timeout hits only inactive sessions and does
  unblock everything.
* **session manager** - four kinds of completion of each session arriving in
  any order, some after the manager or the session has moved on; the list of
  sessions changing under a stop that walks it in chunks; resources that fail
  to open or to be created in the middle of the accept loop. *Correct* means:
  no session is leaked, shared, reset while in use or forgotten by the stop;
  the manager never waits for nothing and never stops early; its stop ends.
* **echo server program** - the end of the server, its own stop, two presses of
  Ctrl+C, the stop timeout and the death of a worker thread reach one event loop
  in any order. *Correct* means: each handler sees when it is late, the server's
  calls are made once and in order, and the program ends whenever it should.
* **lists, factories, counters** - links, sizes and flags kept in several places
  over long sequences of calls, with special cases at the ends and limits.
  *Correct* means: they agree with the sequence, set or number they stand for.
* **NMEA client** - frames arrive whether or not anybody reads; the ring reuses
  the objects it overwrites; an error may come before its reader; a stop meets
  two port operations and a parked read. *Correct* means: frames come in order,
  once, unchanged, the error after them, and a stop ends everything.
* **performance client** - batches of sessions still being started when the
  test ends, sessions that stop by themselves while they are told to stop, a
  count that `main` waits for. *Correct* means: the count is exact, the program
  ends, and what it prints counts every connection and byte.
* **console signals** - the system calls in threads of its own while services
  come and go, and the last one to go may be such a thread. *Correct* means: one
  instance at a time, no handler lost or called twice, nobody waits for ever.
* **Qt server** - answers of a server cross the clicks of the user in the event
  queue. *Correct* means: every start and stop is answered once, and the window
  never stays in a state between two.

## 2. Modules

| Module | Models | Builds on |
|---|---|---|
| `CyclicBuffer` | `libs/ma_cyclic_buffer`: buffers as records, methods as operators | |
| `Session` | `session.cpp`, `session.hpp`: one connection with its socket, timer and peer | `CyclicBuffer`, `SessionApi` (implements) |
| `SessionApi` | abstract specification of what a session promises to its user | |
| `SessionManager` | `session_manager.cpp`, `session_manager.hpp` with its sessions | `SessionApi` (uses for its sessions, implements for its user) |
| `EchoServer` | `ma_echo_server/src/main.cpp`: the program's execution context | `SessionApi` (uses) |
| `SessionFactory` | `pooled_session_factory.cpp` | |
| `SpIntrusiveList` | `libs/ma_sp_intrusive_list`: lists of `shared_ptr` | |
| `IntrusiveForwardList` | `libs/ma_intrusive_list`: singly linked lists of plain pointers | |
| `IntrusiveList` | the same library's doubly linked lists | `IntrusiveForwardList` |
| `IntrusiveLists` | the two families of lists side by side, for one run | `SpIntrusiveList`, `IntrusiveList` |
| `HandlerStorage` | `libs/ma_handler_storage`: the storages and their service | |
| `LimitedInt` | `libs/ma_limited_int`: operators | |
| `PerfClient` | `ma_asio_performance_test_client/src/main.cpp` | `LimitedInt` |
| `CyclicReadSession` | `ma_nmea_client`: `cyclic_read_session` and the program | |
| `ConsoleSignal` | `libs/ma_windows_console_signal` with `libs/ma_sp_singleton` | |
| `QtEchoServer` | `ma_qt_echo_server`: `service.cpp`, `mainform.cpp` | `SessionApi` (uses) |
| `SessionProofs` | theorems about `Session`: its counter, its buffer, its parked handlers, its refinement of `SessionApi`, the inactivity timer, the echo | `Session`, TLAPS |
| `SessionManagerProofs` | theorems about `SessionManager`, its refinement of `SessionApi` among them, and about `SessionFactory` | `SessionManager`, `SessionFactory`, TLAPS |
| `EchoServerProofs` | theorems about `EchoServer` | `EchoServer`, TLAPS |
| `QtEchoServerProofs` | theorems about `QtEchoServer` | `QtEchoServer`, TLAPS |
| `PerfClientProofs` | theorems about `LimitedInt` and `PerfClient` | `PerfClient`, TLAPS |
| `CyclicReadSessionProofs` | theorems about `CyclicReadSession` | `CyclicReadSession`, TLAPS |
| `IntrusiveListsProofs` | theorems about the three list classes, and about the console signal services, which keep their handlers and subscribers in such lists | `IntrusiveLists`, `ConsoleSignal`, TLAPS |
| `HandlerStorageProofs` | theorems about `HandlerStorage` | `HandlerStorage`, TLAPS |

The modules are parameterised by CONSTANTS and the `.cfg` files give them
values directly; no separate MC modules are needed.

Conventions shared by the modules:

* a method of a class is an operator of the same name, from a state of the
  object (a record with the class's members) to a state; operators nest as the
  methods call each other, and an action is one handler run by the strand, with
  everything it calls. Where a path of a method is reused or needs a name it is
  an operator of its own (`ReadDone`, `StopReading`, `TurnTimer`, ...);
* the argument `f` of an operator is the set of system calls that fail during
  this handler; the action picks it with `\E f \in SUBSET Faults`;
* a definition commented as *Mutant of X* is a plausible mistake in X, kept
  beside it. It is used by nothing in the specification; substituted for X it
  makes a property fail, which shows that the property says something;
* error codes are strings; `"error"` stands for any system error that the code
  does not tell apart from others.

### CyclicBuffer

The record has the members of the class (`nonfilled_start`, `nonfilled_size`,
`filled_start`, `filled_size`). `data` and `prepared` return the one or two
blocks handed to the socket, bounded by `max_transfer_size`. `commit` and
`consume` throw `length_error` unless `CanCommit` and `CanConsume`; that the
session never gets there is `TransfersFit`.

### Session

`s` holds the class's members, the asio operations outstanding (`ops`, with the
buffers they were given, `reading` and `writing`), the results the user's
handlers were posted with (`posted`) and three fields of history that
properties speak of (`expiry_stale`, `wait_stale`, `stop_reason`). `mem`, `rcvd`
and `out` are the data: the memory cells of the buffer, the number of bytes
received (the k-th byte received is the number k) and the bytes sent. `calls`
counts the calls.

The actions are the strand's handlers: `AsyncStart`, `AsyncWait`, `AsyncStop`
(the posted `start_extern_*`), one action per completion and phase
(`HandleReadAtWork`, `HandleReadAtShutdown`, `HandleReadAtStop`, ...: the switch
in `handle_read` and so on), and `Reset`, which the manager's `recycle` calls between two uses.
External to the repository and modelled from its use: an outstanding read may
complete with any part of the buffers it was given, with end of file or with an
error; a write with any nonempty part or an error; either may be aborted once
the socket is closed, or may have completed before. A wait of the timer that
was cancelled may still complete as expired, when its handler had been queued.

Left out: addresses and logging; the individual socket options (one failure,
`"options"`, for all of them, that is, for `apply_socket_options`); the custom
memory of handlers.

### SessionApi

Three calls and one internal event (`End`: the session begins to end, or has
ended) on the external state, the parked handlers, the reason and the posted
results. It says which calls are accepted when, with what they are answered,
and when a parked handler may and must be called. `Session` implements it
(property `ImplementsApi`, refinement mapping `Api` at the end of `Session`,
under which the four internal states are seen as three, by `Run`), and
`SessionManager` uses its operators for the sessions it manages, so the
manager is checked against what the session is shown to do.

### SessionManager

`m` is the manager, `ses[w]` a `session_wrapper` with the session attached to
it: the wrapper's members, the queue of calls posted to the session's strand
(`queue`, in order) and the state of the session's interface (`api`). A call
goes through `queue` (`RunCall` takes it to the session, in the session's
strand) and its result is posted back (`api.posted`); the completions reach the
manager in any order (`HandleSessionStart/Wait/Stop`). A session may end at any
time (`EndSession`). A wrapper is attached to one session at a time and
`session::reset` makes a session as good as new, so a wrapper stands for its
session as well.

`active_sessions` and `recycled_sessions` are sequences, newest first, as
`sp_intrusive_list::push_front` leaves them; `stopping_sessions_end` is the saved
iterator of the chunked stop and `scheduled` says that
`handle_scheduled_active_session_stop` is posted. The failures are `"open"` (any
step of `open_acceptor`) and `"create"` (the factory or `make_shared`).
An accept may complete with a connection, with a recoverable error
(`"no_descriptors"`), with another one, or aborted.

Towards its own user the manager has the same interface as a session has, and
it is shown to implement `SessionApi` too (`Own` at the end of the module), which
is what `EchoServer` relies on.

The statistics are the numbers of accepted and of stopped sessions and the
greatest number of active ones, as naturals; the split by reason is left out and
the saturation of `limited_int` has its own module, `LimitedInt`.

### EchoServer

`ctx` is `execution_context` with the event loop of `main`: `events` are the handlers
ready to run, by kind, `timer` and `close_waits` the waits outstanding. `srv` is the
server: the calls posted to the manager's strand (`queue`), the state of its
interface (`api`) and whether a thread still runs its `io_service` (`alive`). The
`handle_*` functions are operators of the same names; the event loop runs one
ready handler at a time, in any order between kinds. A completed call first
needs a thread of the server to reach the event loop (`Forward`), so a dead
server answers nothing. `ThreadFails` is the exception that ends a worker thread,
which may have been the last. `class server` only forwards to the manager and
has no state of its own here.

### SessionFactory

`pool[i]` is a `pool_item`, and `create_pool` makes one per `io_service`; `back_link` is the session's link to its pool. Creation and
release are the two operations, `min_element(i)` says that pool `i` is the one
`std::min_element` returns. When memory is short `create` fails and changes
nothing, which is a stuttering step.

### SpIntrusiveList, IntrusiveList, IntrusiveForwardList

The hooks are the functions `next` and `prev` on values; several lists share them,
as the manager's two lists do. `IntrusiveList` adds `prev`, `erase` and `pop_back` to the
operations of `IntrusiveForwardList`, so one run checks both. `items` is history: the sequence each list stands
for, updated by what the operation means, while the links are updated by what
the code does. In `SpIntrusiveList` a value is destroyed when nothing refers to it
(`Release`), and `clear` is one action per round of its loop, because the point of
that loop is what each round destroys. The lists of plain pointers do not unlink
what `clear` or an assignment drops; such values (`dropped`) may not be pushed
again until they are destroyed, and the services that use the lists keep to
that.

### HandlerStorage

`handler[s]` is the handler kept in storage `s`, `owns[h]` the storages handler `h` refers to
through the object it is bound to. Destructors nest: the end of a handler may
leave storages without an owner, whose destructors end the handlers in them.
The calls in progress are on `stack`, innermost first. The user calls when it is
empty and from within the destructor of a handler (`Inside`), as the tests
`destruction_reenterable_call` and `destruction_cyclic_references` do: a handler that is
destroyed may store another one where it was itself, also during the shutdown. From
there the user reaches its own storages and those of the handler (`Usable`), never one
whose destructor has begun. A handler that is run calls with an empty stack.
`shutdown_service` takes all handlers out of the listed storages, then
destroys them in turn. Storages may be used by several threads as long as each
storage is used by one at a time and none while the `io_service` is destroyed (the
class's documentation); what threads share is the locked list, so operations are
atomic here.

### LimitedInt

A limited integer is a record of a value and an overflow flag, for any greatest
value. `increment`, `add_value` and `add` are the class's operators, and `Exact(x, n)`
says that `x` tells the truth about the count `n`. The module has no state of its
own: `PerfClient` extends it and keeps its statistics in such integers.

### PerfClient

`c.ses[i]` is a session: its members, the posted calls and the outstanding
operations; `c.outstanding` is the `work_state` that `main` waits for. `m` is the
manager with its batches, `main` how far the main thread is, `stats` what it sums
up. A session connects to each endpoint in turn, starts over while it has
attempts left (`Reconnect`), then reads and writes through a buffer that starts
half full. Actions are the handlers of the strands (`SessionStart`, `SessionStop`,
`HandleConnect`, `HandleRead`, `HandleWrite`, `ManagerStart`, `ManagerStop`,
`NextBatchPosted`, `NextBatchTimer`) and the steps of `main` (`MainStart`, `MainStop`,
`JoinManager`, `JoinSessions`). Which bytes are transferred is left out, as are the
options' text and the shutdown of the socket, whose result nobody reads. The
outcomes of `libs/ma_async_connect` appear in `HandleConnect`.

### CyclicReadSession

The session is driven either by the program, whose loop is `CallHandler` with
`Continue`, or by a caller that makes every call in every state, which also
covers `async_write_some` and `resest` (the source's spelling). `read_handler` and
`stop_handler` are the two storages, with the room the parked reader has. A frame
is an object with the number of the frame it holds, because `handle_read_tail` fills
the oldest object of a full ring again; `given` and `dropped` are history. Bytes,
frame heads and tails are left out: a port read for a head or a tail completes,
fails, or meets the end of the file.

### ConsoleSignal

A service stands for the thread that owns its `io_service` too. `pc` says how far
each thread is, and a step ends where a mutex is taken or released, so that the
constructor (`Construct`, `CreateInstance`), the destructor (`Shutdown`, `DestroyService`,
`Unreference`, `Unregister`) and the delivery of a signal (`Signal`, `LockSubscribers`,
`Deliver`, `UnlockSubscribers`) interleave. `inst` holds the instances of
`system_service` with who refers to them, `weak_value`, `value_mutex` and `latch` are
`static_data` of the singleton; there are two slots for instances, one more than may
exist at a time. Within a service `waiting`, `queued`, `binders` and
`posted` are the places a handler or a signal may be in. The answer returned to
the system and the one-time initialisation of the static data are left out.

### QtEchoServer

`g` is the `Service` and the `MainForm` with the queue of events of the GUI thread,
`srv` the server, if there is one, with the calls posted to it and its interface.
Actions are the clicks, the closing of the window, the slots run by queued events
(`ServantStartCompleted`, ..., `ForwardWorkCompleted`) and the server's threads
(`ServerCall`, `ServerEnd`, `Emit`, `WorkThreadException`). A click on start reads the form
(`buildServiceConfig`), which throws when a field cannot be read. An event posted by a server that has been destroyed stays posted, as in Qt
when its receiver lives on. Statistics, options and the log are left out.

## 3. Runs

| Run | Instance | Checks |
|---|---|---|
| `session` | buffer of 3, transfers of at most 2, 4 bytes, each call up to twice, every system call may fail, with fairness | `OutstandingMatches`, `StoppedIsQuiet`, `ParkedWillBeCalled`, `NoHandlerLost`, `EchoSound`, `TransfersFit`, `WatchdogArmed`, `NoSpuriousTimeout`, `CallsComplete`, `ImplementsApi` |
| `manager_two` | 2 sessions at a time, 3 wrappers, 1 recycled, 3 connections, open and create may fail, with fairness | `CountsExact`, `NoSessionLeaked`, `AcceptLoopSound`, `ResetOnlyWhenQuiet`, `ImplementsApi`, `StopCompletes` |
| `manager_chunks` | 3 sessions stopped one per step | `NoSessionForgotten` |
| `manager_assert` | 1 session | `StopNeverFails`, violated |
| `echo_server` | 2 presses of Ctrl+C, 1 worker exception, with fairness | `KeepsProtocol`, `StopsGracefully`, `Ends` |
| `factory` | 2 pools keeping 1 session each, 4 sessions | `FactorySound`, `LeastLoaded` |
| `lists` | 2 lists of each kind, 4 values | `AllLinksMatch`, `LifetimeExact`, `NoRecursiveDestruction` |
| `handler_storage` | 2 storages, 3 handlers referring to any of them, whose destructors use them again | `HandlerAccounted`, `CleanUp` |
| `perf_client` | 2 sessions in batches of 1, with and without a pause, attempts unlimited or 2, 2 endpoints, buffer of 2, 2 bytes from each peer, counters up to 2, with fairness | `OutstandingExact`, `NeverStalls`, `DestroyedQuiet`, `StatsComplete`, `Terminates` |
| `nmea` | ring of 2, readers with room for 0, 1 and 2, 4 frames, 4 calls, by the program or by anybody, with fairness | `HandlersServed`, `FramesSound`, `ErrorSeenOnce`, `StopEndsAll` |
| `console_signal` | 2 services that may be made twice in all, 2 handlers, 2 signals in 2 threads, 1 queued signal of a kind, with fairness | `ConsoleSound`, `EveryoneReturns` |
| `qt_server` | 2 servers in turn, 2 worker exceptions, with fairness | `ServiceSound`, `Settles` |

Every module with a state has a type invariant `TypeOK` (`FactoryTypeOK`,
`ConsoleTypeOK` where a module of theorems extends two), a conjunct of an
invariant that its run checks; that of `Session` is proved (`TypeCorrect`). Several properties are conjunctions of named parts, each
with its own comment in the module: `EchoSound` (the echo is exact, transfers in
flight keep apart, a peer that ends first gets everything back), `CallsComplete`
(stop and wait are answered), `CountsExact` (pending operations, statistics),
`AcceptLoopSound` (there is room when an accept is pending, and the manager never
waits for nothing), `Ends` (`EndsInTime`, `SecondCtrlCExits`), `FactorySound` (`OneOwner`,
`SizesExact`), `ConsoleSound` (`HandlersOnce`, `OneInstance`).

**Bounds and why they are enough.** A buffer of 3 cells with transfers of at
most 2 has every relation of the two offsets (apart, touching, wrapped in the
first or in the second sequence, full, empty) and transfers in one and in two
blocks; 4 bytes go round its end. The state machines of the session never compare
sizes other than with zero and with the whole; each call made twice covers every
call in every external state. In `SessionManager` two sessions at a time and a
third wrapper give a full manager, a cached wrapper that is reused while
another is active, and a wrapper that is freed; three sessions with a chunk of
one are the least for which the saved iterator can be first, in the middle and
last, and its session can leave from each place. Four
values in two lists give splices of lists of two, and erasing at both ends and in
the middle of lists that exchange values. Three handlers and two storages form
every cycle of one and of two storages and leave a handler over to store from a
destructor; three are the least for which the destructor of a handler that is replaced
replaces the one that took its place. In `PerfClient` two sessions in two batches put the end of the test before, between
and after the batches; two endpoints and two attempts exhaust a round of
endpoints and start over; the sums of the counters pass their limit of 2. In
`CyclicReadSession` four frames overwrite a ring of two twice, with readers that
take part of it. In `ConsoleSignal` two services let one be made while the other
dies, and two signals, each in a thread, let a second one find a signal already
queued or the instance kept alive by the first. In `QtEchoServer` two servers are
the least for an event of one to meet the other. The bounds on the environment
are CONSTANTS named `Max...` or, for the performance client, the numbers of
endpoints and of bytes.

Deadlock is checked except where the system may stop: the programs of
`echo_server`, `perf_client`, `nmea` (out of work) and `qt_server` (window closed) exit, and in
`console_signal` and, for any caller, in `nmea` the users may have used up their
bounded calls. A session, a manager, a storage, a list or a factory can always go
on, so there nothing may get stuck.

**Fairness.** In `Session`: the handler of a timer wait runs at some time, and
so do the handlers of reads and writes once the session is stopping, because it
has closed the socket by then and the `io_service`'s threads keep running. The
peer owes nothing: a read or a write of an open socket may stay outstanding for
ever. In `SessionManager`: handlers that were posted run; an accept completes
once the acceptor is closed; a session that was told to stop ends. The last is
what `CallsComplete` of `Session` establishes for sessions with an inactivity
timeout. In `EchoServer`: the event loop runs what is ready, and the threads of the
server, while one is left, run what is posted to them. That the server's stop
completes is not assumed, nor that a thread survives; `EndsInTime` holds through
the stop timer, whose fair expiry is its hypothesis, and `SecondCtrlCExits` without
even that. In `PerfClient`: the threads run what is posted, `main`'s timed wait and the
batch timer end, and an operation on a closed socket completes; a peer owes
nothing and may refuse every attempt. In `CyclicReadSession` likewise, with the
serial port for the peer. In `ConsoleSignal`: a thread inside a constructor, a
destructor or a delivery goes on when it can; nobody has to use a service. In
`QtEchoServer`: the event loop and the server's threads go on, and a server told to
stop ends, which is `StopCompletes` of `SessionManager`; the user owes nothing.

**The violated assertion.** `handle_session_stop_at_stop` asserts that the stop
of a session succeeds and explains why (`session_manager.cpp:1079-1082`). In the
trace TLC finds, the manager is told to stop while the session's start is still
queued in the session's strand. The session's strand runs the start, which
fails when the socket options are applied and leaves the session stopped; the
manager's `async_stop`, queued behind it, is answered `invalid_state`. Nobody
stopped the session twice, as the comment says, but the assertion fails. With
assertions compiled out the handler goes on as after a success, and the other
properties of the manager hold along that path too (they are checked with the
same behaviour enabled).

**Observations** made while modelling, about which the repository states nothing
that a run could refute:

* A case left outside of `CallsComplete` on purpose: `async_stop` called on a session
  that was never started begins the drain read of the shutdown but no timer
  (`session.cpp:217-220`, `need_timer_restart` is false), so with a connected, silent
  peer that stop does not complete. The manager never does this.
* `session_manager::reset` sets the statistics' number of recycled sessions to zero
  while the cached wrappers may stay in the list.
* The performance client's option for `no_delay` sets the `linger` option of its
  sessions (`main.cpp:492`). Socket options are only able to fail in the model.
* In the performance client `resolver.resolve` may throw while the threads are
  already running (`main.cpp:1223`); they are then destroyed unjoined. `PerfClient`
  begins after the resolution.
* In the Qt server an event of a server that was terminated may run when the next
  server works and is taken for its own: a late exception or end of the old one
  stops the new one. `ServiceSound` and `Settles` hold all the same, because the new
  one is stopped in order.
* In the Qt server a stop of a working server emits `workCompleted` with
  `operation_aborted`, a second time if the wait of the server completed first.
* `get_instance` holds the singleton's mutex while it waits for the latch of the
  dying instance, whose destructor calls `SetConsoleCtrlHandler`. `EveryoneReturns` shows
  that this code does not lock itself up; a lock that the system might hold
  while it calls the handlers is outside of the model.

## 4. Proofs

`SessionProofs` proves, for every buffer size, transfer limit, timeout setting,
set of failing system calls and bound of the environment allowed by
`ConfigAssumption`:

| Theorem | Statement |
|---|---|
| `Invariance` | `Spec => []IInv` |
| `TypeCorrect` | `Spec => []TypeOK` |
| `OutstandingCounted` | `Spec => []OutstandingMatches` |
| `StopIsQuiet` | `Spec => []StoppedIsQuiet` |
| `ParkedHandlers` | `Spec => []ParkedWillBeCalled` |
| `BufferNeverOverrun` | `Spec => []TransfersFit` |

`ConfigAssumption` asks for a positive buffer size and transfer limit, as the
constructor of `session_config` asserts, and for the types of the others. There
is no other assumption.

*The invariant.* None of the properties is inductive alone: that the count
never reaches zero early needs to know which activity is outstanding, which
needs the phases, which need the user's state. `IInv` is their conjunction:
`Core` (types, outstanding operations match the states and the count, transfers
in flight fit the buffer), `Phases` (what each internal state means for the three
activities and the socket), `WaitParked` and `UserMatches` (what the external
state means for the internal one and the parked handlers).

*The argument.* The methods call each other six deep, so expanding an action at
once is hopeless. The proof follows the code: first lemmas about the buffer's
operators; then one *frame lemma* per primitive update, which says what it sets
and what it leaves alone; then a pre- and postcondition per method. `Active(r)` is
the precondition of a method called by a handler at work or in shutdown,
`Stopping(r)` that of `continue_stop`, and `After(r, q)` is what each guarantees of
its result `q`. `Phases` holds between handlers and not inside them, which is why
`Active` does not include it. The lemma of a method cites only the lemmas of the
methods it calls. `NextInv` then has one step per action.

The second part of `SessionProofs` goes on from there, with the same assumption:

| Theorem | Statement |
|---|---|
| `ApiInvariance` | `Spec => []ApiInv` |
| `SessionImplementsApi` | `Spec => ImplementsApi`, that is, `Session` refines `SessionApi` |
| `HandlersAccounted` | `Spec => []NoHandlerLost` |
| `TimerInvariance` | `Spec => []TimerInv` |
| `WatchdogIsArmed` | `Spec => []WatchdogArmed` |
| `TimeoutNotSpurious` | `Spec => NoSpuriousTimeout` (an action property) |
| `EchoInvariance` | `Spec => []EchoInv` |
| `EchoIsSound` | `Spec => []EchoSound` |

*The refinement.* `View(s)` is the refinement mapping. Each method of the session is
shown to change the view as one operator of `SessionApi` says or not at all, again
following the calls from the inside out; `IInv` supplies the states the handlers
run in. To it `ApiInv` adds `Reasoned` (the reason of the end is there when the
session ends, and is not replaced) and `CallsKnown` (the calls made are those the
session knows of: answered, or parked), from which `NoHandlerLost` follows.
*The timer.* `TimerInv` adds that a session that runs has a sound timer (a wait
outstanding for the present expiry, or a cancelled one whose completion will
restart it) and a started one has it armed.
*The echo.* `EchoInv` adds the contents of the memory: `Place(start, i)` is the i-th
cell from `start` on around the end of the array, and `Flow` says that the filled
cells hold the bytes received and not yet sent, in order, that a read in flight was
given the first free cells and a write the first filled ones (`Reads`, `Writes`), so
that a completed read touches no filled cell, and that nothing is left to send when a
session at work sees the end of the stream. `CellsOf` says which cells the one or two
blocks of the buffer are.

`SessionManagerProofs` proves, for every finite set of wrappers, every limit on
sessions and on recycled ones, every size of the chunks of the stop, and every
number of connections and of calls (`ManagerAssumption`: of the configuration only
that the limit on sessions is positive, which its constructor asserts). A chunk
of zero is covered too: it breaks no safety property, only `StopCompletes`, since the
stop is then scheduled again for ever (nothing checks the number; the program
passes 100):

| Theorem | Statement |
|---|---|
| `ManagerInvariant` | `Spec => []Invariant` |
| `ManagerTypeCorrect` | `Spec => []TypeOK` |
| `ManagerCounts` | `Spec => []CountsExact` |
| `ManagerLeaksNothing` | `Spec => []NoSessionLeaked` |
| `ManagerAccepts` | `Spec => []AcceptLoopSound` |
| `ManagerForgetsNothing` | `Spec => []NoSessionForgotten` |
| `ManagerResetsQuiet` | `Spec => ResetOnlyWhenQuiet` (an action property) |
| `ManagerImplementsApi` | `Spec => ImplementsApi`, that is, `SessionManager` refines `SessionApi` |

*The invariant.* `Inv(g)` speaks of a pair g = [m, ses], so that it can be stated of
the pairs that exist only inside a handler. `WrapperSound` says of one wrapper
that each of its calls is at one place (`Places`: in the queue of the session's
strand, parked at the session, or answered), what the wrapper's state tells of the
calls made (`Asked`), what the session's state is then (`Interface`), and that its
counter is the number of those calls. `Links` ties the two lists and the wrapper
being accepted to the wrappers' states, `Counted` the manager's counter to theirs,
`Accepts` is the accept loop, `Walk` the chunked stop, `Stats` the statistics, `User`
what the user sees, and `Awake` that something will wake the manager up.
None is inductive alone: a counter may be counted down because the call was in
`Places`; a session may be detached because `Asked` and `Interface` say that it is
over; the iterator of the stop stays in the list because the list has no wrapper
twice.

*The argument.* Lemmas on the lists (`PositionAt`, `ErasedAt`: erasing keeps the
order) and on cardinalities (a session more or less in `Pending` and `Uncounted`) carry the
counting. Each method has a lemma saying what it does to a pair with `Core` (the
part of `Inv` without the user), from the inside out: `continue_stop`,
`start_active_session_stop`, `start_stop`, `stop_accept`, `continue_work`, then the completions.
`Moves` is what the completions have in common: `Core` holds again, no session was given
back in use (`Quiet`), and the user saw nothing or an end of the manager. The
mapping to `SessionApi` is `View`, and `Seen` the possible steps of it; `NextInv` proves
`Inv`, `Quiet` and `Seen` of every action at once.

At its end the module proves of the session factory `FactoryCorrect`,
`FactorySpec => []FactorySound` (`OneOwner` and
`SizesExact`), and `CreatesForLeastLoaded`, `FactorySpec => LeastLoaded` (an action property),
under `FactoryAssumption` (finitely many sessions, at least one pool). The two parts of
`FactorySound` are inductive only together: a size may be counted down because the
session returned is in use and its link names the pool it is counted by, which is
`OneOwner`; the lemmas `CountAdd` and `CountRemove` carry the cardinalities, and
`TailFacts` and `PushFacts` the lists. That the choice by `size_` is a choice by sessions in
use follows from `SizesExact`.

`EchoServerProofs` proves, for any number of signals and of exceptions in worker
threads:

| Theorem | Statement |
|---|---|
| `ProgramInvariance` | `Spec => []EInv` |
| `ProtocolKept` | `Spec => []KeepsProtocol` |
| `GracefulStop` | `Spec => []StopsGracefully` |

`EInv` says that each call of the program is in one place (`CallsOnce`: in the queue
of the strand, parked, answered, or forwarded to the event loop), how far the
calls have come in each state of the context (`Progress`), and what the state of
the server's interface is then (`Service`). That a late handler is recognised as
late rests on the three together.

`QtEchoServerProofs` proves, for any number of servers and of exceptions:

| Theorem | Statement |
|---|---|
| `ServiceInvariance` | `Spec => []QtInv` |
| `ServiceIsSound` | `Spec => []ServiceSound` |

`QtInv` adds to `ServiceSound` that a server whose thread is dead has posted its exception:
without this a stop given to a dead server would not be known to be answered. Each function
of the `Service` and the form has a lemma that lists the members it leaves
(`Has`); the actions are built from these. That a late event of an earlier server is harmless
is seen in `RestFine` and in the cases of the `Servant...Keeps` lemmas.

`PerfClientProofs` proves, for every number of sessions, batch size, buffer size,
limit of attempts, number of endpoints and of bytes:

| Theorem | Statement |
|---|---|
| `LimitedCorrect` | a new `limited_int` is exact for its value, and each operation on integers exact for their counts gives one exact for the sum |
| `ClientInvariance` | `Spec => []PInv` |
| `OutstandingIsExact` | `Spec => []OutstandingExact` |
| `SessionNeverStalls` | `Spec => []NeverStalls` |
| `DestructorsQuiet` | `Spec => []DestroyedQuiet` |
| `StatisticsComplete` | `Spec => []StatsComplete` |

`PInv` says of each session that its flags are those of its operations and that it
is connecting or connected until it is stopped; of all that the outstanding count is the
number of those not stopped; of the manager that no session beyond the present batch has
been touched and that the next batch waits in the manager's queue or for its timer, never
for both; of `main` that what it has joined is stopped. For the statistics
`StatsInv` adds that each session's counters are exact for what it transferred (`Tally`);
the loop of `main` adds them up in the order of the sessions, and its partial sums are exact
by the least one that would not be.

`CyclicReadSessionProofs` proves, for every ring size, set of sizes the readers
have room for, number of frames and of calls (`RingAssumption`: the ring is not
empty):

| Theorem | Statement |
|---|---|
| `SessionInvariance` | `Spec => []RInv` |
| `EveryHandlerServed` | `Spec => []HandlersServed` |
| `FramesInOrder` | `Spec => []FramesSound` |
| `ReadErrorSeenOnce` | `Spec => ErrorSeenOnce` (an action property) |

`RInv` has three parts. `Control` says when a handler may be parked and what is then in
progress. `Frames` says which number each object of the ring holds, that no number is
in two objects (so that an object filled again is nobody else's), and that a
handler posted with frames finds in them what it was given. The third is the
balance of the handlers: those owed are those queued, posted and parked (`Have`). The
lemma of a call says that the session gains one handler (`Gains`), that of a
completion that it keeps those it has (`Keeps`). `FreeObject` shows that there is always an
object for a new frame, by the pigeonhole principle of the library.

`IntrusiveListsProofs` proves, for any values and any lists (`ListAssumption`: null is no
value), of the list of `shared_ptr` and of the two lists of plain pointers:

| Theorem | Statement |
|---|---|
| `ListsInvariance` | `ListsSpec => []ListsInv` |
| `LinksAlwaysMatch` | `ListsSpec => []AllLinksMatch` |
| `LifetimeIsExact` | `ListsSpec => []LifetimeExact` |
| `DestructionIsNeverRecursive` | `ListsSpec => NoRecursiveDestruction` (an action property) |

`Strand` says that the links of a list are those of a sequence. To this the invariant
adds what makes it inductive: no value is in two places of the lists, so that an operation
that links or unlinks a value is seen to leave the strands of all other lists alone, and
an unlinked value links nothing. Each operation has a lemma on sequences (a value pushed,
taken out, two strands tied together) and one that finds the other lists untouched.
The end of a value is where the code is subtle: `Release` lets go what nothing refers to,
and `ListOwns` shows, by the first value of a list it could reach, that it is one value.

Its second part proves, for any services, implementations, handlers, number of signals
and length of the queue (`ConsoleAssumption`: the services are not the threads of the
system):

| Theorem | Statement |
|---|---|
| `ConsoleInvariance` | `ConsoleSpec => []ConsoleInv` |
| `ConsoleIsSound` | `ConsoleSpec => []ConsoleSound` |

`ConsoleInv` has two halves. `ServicesKept` speaks of one service at a time: `Float` says that
every accepted handler is in one place (it waits, is in a binder, or is posted), but for a
set of handlers that an operation holds in its hands, and each operation is seen to take
handlers up (`FloatTake`, `FloatUnbind`, `FloatUnpost`) and to put them down again (`FloatPost`,
`FloatBind`, `FloatWait`, `FloatDrop`). `ThreadsKept` speaks of the singleton: all references are to
the instance of `weak_value` (`Referred`), which is registered; the latch is up while an
instance is registered or has still to count it down, which is one at a time (`OneLatch`);
the thread that unregisters an instance is alone and had its last reference
(`Destroying`); the subscribers are the constructed services, each once (`Subscribed`); and
who delivers holds the mutex, so that those it has still to visit remain subscribed
(`Delivering`). `OneLatch` and `Destroying` need each other and `Referred`: a new instance may be
made when the latch is down because nobody refers to the old one any more and nobody is left
to unregister it.

`HandlerStorageProofs` proves, for every finite set of storages and every set of handlers:

| Theorem | Statement |
|---|---|
| `StorageInvariance` | `Spec => []StorageInv` |
| `HandlersAccounted` | `Spec => []HandlerAccounted` |
| `CleanUpComplete` | `Spec => []CleanUp` |

`StorageInv` speaks of the states in the middle of nested destructors: nothing is on the
stack twice; a handler is in one storage, in the queue, on the stack or gone (`OnePlace`);
only a handler that is somewhere refers to storages (`Owners`); a storage nobody refers to is
one whose destructor is on the stack (`References`); the service knows every storage until the
shutdown (`Known`). That a destructor is never put on the stack a second time follows from
`References`: who let go of the storage referred to it until now. A call from within a
handler's destructor starts in such a state; what it can reach is referred to, and so is not
being destroyed (`UsableFacts`, `ReferredFacts`). The loop of the shutdown is
`LoopTakes`, by the least number of rounds after which it would be wrong.

*Induction.* The library's induction theorems take an operator as a parameter, which
the provers cannot instantiate. Where a fact about every length is needed (the loop of the
shutdown, the release of a list) it is proved from the well-ordering of the natural
numbers (`LeastIndex`): the least number for which it fails is not 0 and not the successor of
a smaller one.

*Only model-checked.* Liveness (`CallsComplete`, `StopCompletes`, `Ends`, `Terminates`,
`StopEndsAll`, `EveryoneReturns`, `Settles`), which is out of the prover's reach. Every
safety property of a passing run is the statement of a theorem.

## 5. Not modelled

Given with reasons in `PROJECT.json` under `components`. In short:

* handler plumbing (binders, allocation and invocation wrappers, strand wrappers)
  and the compatibility layer: templates that forward, whose work is done by
  overload resolution; no state machine. Their effect, that handlers of one
  object never overlap, is in every model;
* option parsing, text, logs and the widgets of the user interface;
* the samples of asynchronous operation basics: tutorials with one parked handler
  and a timer, whose difficulty is in `HandlerStorage` and the sessions;
* the multicast samples: one socket and one loop of calls;
* `simple_session_factory`, which is one pool without its choice, and the in-place
  handler allocator.

## 6. Plan

Done: 1 to 12.

1. `CyclicBuffer`, `Session`: the data path and the state machines.
2. `SessionApi` and the refinement.
3. `SessionManager` over `SessionApi`, which it implements as well.
4. `SessionProofs`: the session's invariant.
5. `EchoServer`: the program's execution context over the manager's interface.
6. `SessionFactory`, `LimitedInt`.
7. The intrusive lists.
8. `HandlerStorage`: the storages, the service's list and its shutdown.
9. `ConsoleSignal`: the service with its singleton; the mutex and the latch
   against the threads of the operating system.
10. `CyclicReadSession` (NMEA): the frame ring, the parked read and the stop.
11. `PerfClient` and `QtEchoServer`.
12. Proofs, the most valuable first: the refinement `Session => SessionApi`,
    `NoHandlerLost` and the timer; the program's `KeepsProtocol`; `PerfClient`; the NMEA
    session; the manager's safety properties and refinement; `EchoSound`; the lists;
    the handler storage; `StatsComplete`; `ServiceSound`; `ConsoleSound`.
13. The in-place handler allocator and `simple_session_factory`.
