# Verification of CPP-Develop-Framework

TLA+ models of the framework's own code (`src/bas` first, then `src/utility`
and the rest), TLC runs on small instances, and theorems proved with TLAPS for
every instance. Paths below are relative to `src/`.

## The system

The repository is a Windows C++ toolbox in two layers: `bas` (a task pool,
timers, asynchronous networking over asio, a memory pool) and `utility` (log,
thread pool, parsers, codecs). Most of its bytes are third-party code.

| part | state | operations | hard behaviour | what makes it correct |
|---|---|---|---|---|
| Task pool, `bas/thread_pool.hpp` | a list, an auto-reset event and `alive_` per worker; `strand_proc_list_` | `post_call`, the worker's loop, `stop` | posts from any thread and from function objects, parking, `stop` without a wake-up | function objects of a strand run one at a time, in order, all of them; the limit on a list; nothing runs after `stop` |
| Timers, `bas/timer_impl.hpp`, `timer.hpp` | `sid_map_`, `time_wait_map_`, `cancel_list_`, three events, two threads | `wait`, `cancel`, `uninit`, expiry | unlocked looks at the maps, the sleep for a deadline that has meanwhile changed, cancel against expiry | called back once at most, never early, on time, always in the end; `cancel` and `uninit` take effect |
| Network port, `bas/netport.cpp` | `flag_`, `has_recved_`, `ci_`, `cur_send_`, `cmd_info_list_`, callbacks | `send_message`, `bind_socket`, `clear`, three completions | framing, completions that come after `clear`, ownership of raw pointers, refused posts | messages arrive whole, once, in order; one error callback; quiet after `clear`; everything is freed |
| Sockets, `bas/socket.hpp` | `is_open_`, three callbacks under `mutex_` | `async_recv`, `async_send`, `close`, handlers, acceptor, connector, udp | handlers on several io threads against `close` | one error callback; none after `close` |
| Helpers, `bas/connector_helper.hpp`, `listener_helper.hpp` | `netport_`, `stopped_`, callbacks | `start`/`init`, `stop`/`uninit`, `send_message` | connection made while `stop` runs; `netport_` read without the lock; `init` without any; accepts against `stop` and restart | no callback after `stop`; the netport is cleared; every start that is taken is answered, everyone who connects is handed over |
| Message header, `protocol/protocol.hpp` | header fields | `clone`, getters | unsigned length used as int | bad magic closes the port |
| Memory pool, `bas/mem_pool.hpp` | list of units and `free_count_` per block, map of buffers | alloc, realloc, free, merge | stale `prev` after a split or a realloc that leads a merge to a header no longer on the list, the size of a header counted or not | units tile the block and the free ones are counted; a unit has one user and room for what was asked; merging ends |
| Utility thread pool, `utility/thread_pool` | queue, `running_`, condition variable | `start`, `postCallback`, destructor | shutdown flag set outside the lock, drop-oldest | tasks run once; the destructor returns |
| Log, `utility/log` | two buffers, file, flusher thread | `write`, `flush`, roll-over, `uninit` | flusher against writers and roll-over | lines are neither lost nor doubled |
| Async HTTP, `asio/async_http` | request stage | WinHTTP callbacks | completion reported twice | one completion |
| Serializer, `utility/parser/serializer` | none | marshal, unmarshal | length prefixes at the end of the buffer | unmarshal inverts marshal |
| FlexParser | stage of the statement, id counters | rules of `parser.y`, `go` | reuse after an error | command ids are unique |
| Common helpers, base64, RC4/DES codecs, dump | little or none | pure functions | edges of inputs | round trips |

How they interact: everything in `bas/netport.cpp` runs as function objects
posted with `post_call` under the port's strand. The socket's completion
handlers run on asio's io threads and only copy a callback and post. The
helpers make one netport per connection and forward its callbacks under a lock
of their own. The timers are separate and have their own two threads.

`PROJECT.json` lists the parts with their status, the hazards of the code at
their lines, and which property covers which.

## Modules

| module | models |
|---|---|
| `SerialExecutor` | abstract: what `post_call` promises per strand |
| `StrandPool` | the task pool; implements `SerialExecutor` |
| `StrandPoolProofs` | its theorems |
| `RelativeTimer` | the timer manager with its two threads, the clock, and callers |
| `RelativeTimerProofs` | its theorems |
| `MessageChannel` | abstract: what two connected netports promise |
| `Netport` | two netports, their sockets, the byte streams between them; implements `MessageChannel` |
| `NetportProofs`, `NetportChannel` | its theorems; that it implements `MessageChannel` |
| `PortStrand` | netports as their helpers can tell them, and the strand they share |
| `PortStrandProofs` | the lemmas about it that both helpers need |
| `ConnectorHelper` | the connector and its helper, on `PortStrand` |
| `ConnectorHelperProofs` | its theorems |
| `ListenerHelper` | the acceptor and the helpers its callback makes, on `PortStrand` |
| `ListenerHelperProofs` | its theorems |
| `MemPool` | the blocks of the memory pool and their manager |
| `MemPoolProofs` | its theorems |
| `MCStrandPool`, `MCRelativeTimer`, `MCNetport`, `MCConnectorHelper`, `MCListenerHelper`, `MCMemPool` | instances for TLC |

`Netport` does not repeat the pool: its function objects run one at a time in
the order of posting, which is `SerialExecutor`, and `StrandPool` is shown to
implement that. This is how the two compose. `PortStrand` does the same for the
helpers, and keeps of a netport only its socket, its callbacks and its errors,
which `Netport` models in full. `ConnectorHelper` and `ListenerHelper` extend it
and say who posts what.

### StrandPool

One action per critical section or event operation. A worker goes through
`Loop` (`while (alive_)`), `Take` (the lock around `fo_list_`, with the local
`list_size` read there), `Finish` (the function object returns or throws,
and the loop decides to park by that old size) and `Wait`. A caller, which may
be a worker inside a function object, goes through `PostCall`, then
`CheckBusy` for a known strand or `ScanWorker` and `BindStrand` for a new one,
then `Push` and `Signal`. `stop()` is `StopCall`, `StopWorker`, `StopJoin`,
`StopClear`. A function object is `[strand, num]`, the num-th accepted under
its strand. `alive_` is a plain `bool` written without a lock; the model lets
the worker see the write at its next look, as the build does.
`i_get_appropriate_worker` reads past the end of `workers_` after `stop()`: the
call gets the outcome "undefined" and goes nowhere.

### RelativeTimer

The n-th `wait` is called n; the maps hold such numbers, and the keys of
`time_wait_map_` are their deadlines. `i_post_task` is cut between its call of
`i_cancel` and the insertion (`Post`, `Insert`), because the task thread looks
at `time_wait_map_.empty()` without the lock. The task thread is `TaskHead`,
`TaskWoken`/`TaskTimeout`, `TaskGrab`, `TaskCall`, `TaskReturn`, `TaskCheck`,
`TaskUnpark`; the cancel thread likewise; `uninit` is `Uninit`, `UninitClear`,
`UninitSet`, `UninitJoin`. `Tick` advances `GetTickCount64()`. Callbacks may
call `wait` and `cancel` (the caller is then the task thread); `timer_t` drops
`TIE_CANCELLED`, so the cancel thread makes no calls. The remaining time is
truncated as `int diff` truncates it (`ToInt`, for any `IntMax`). Order within
one `wait_list` is left open. `uninit` is called once and not from a callback
(it would join itself).

### Netport

A byte stands for what it is a part of, so a message that is delivered shows
where each of its bytes came from; RC4 flips a mark. Every function of the
strand is one action (`BindSocketStrand`, `SendMessageStrand`, `OnSendStrand`,
`OnRecvStrand`, `OnErrorStrand`, `ClearStrand`). A read or write in flight is a
record in `ops`; `IoRead` and `IoWrite` move one byte, so composed writes can
interleave and reads end anywhere in the stream; `IoFail` ends an operation
that was aborted or whose connection is gone. A completion handler is
`HandlerCopy` (the callback copied under `mutex_`, or `error_occur` emptying
`err_cb_`) and `HandlerCall` (the post), with anything in between. The histories
`delivered`, `finished` and `errors` record the calls of `recv_cb_`, `send_cb_` and
`err_cb_`. `Lose`
breaks the connection. A cmd_info is named by its call of `send_message`, and
`heap` holds those allocated.

### PortStrand

A netport is named by the connection it is made for. On the strand, `RunBind`,
`RunSend` and `RunClear` are the netport's function objects, and `RunUnbound` is
one that uses a `sock_` that is not there, after which nothing runs (`crashed`). A
completion or an error goes through `RunCallback`, `CallbackCopy` (the copy of the
user's callback under the helper's lock) and `CallbackCall`, which for an error
ends in `DoClear`; `RunSilent` is the same where there is nobody to call. A report of
the socket (`Event`) may come after it was closed, from a handler that copied its
callback before. A completed write is told to the user as a received message is, and
one kind of event stands for both: `i_on_send_strand` does not look at the socket as
`i_on_recv_strand` does, but a closed socket has lost its netport's callbacks in
the same `DoClear`. `Post` may refuse, `MaxRefused` times at most.

### ConnectorHelper

The k-th call of `start` is called k, and so are its connection and its netport.
`Resolved` and `Connected` are `connector_t`'s handlers; the helper's own handler
is `HandlerLock` (the copy of `conn_cb_`, `stopped_`, `netport_` and its
callbacks), `HandlerBind` (`bind_socket` and the end of the lock) and
`HandlerCall`. It is cut there because `send_message` reads `netport_` without the
lock. `Stop` is one action, as everything in it is under the lock. The user starts
again only when the last start came to nothing, and is told so unless `async_connect`
refused it: for port 0 it returns false and calls nobody, and `start` ignores that
(`ignored`). The callbacks are set before the first start, since the setters take no
lock. A `set_option` that throws ends the handler before it reaches the helper (`thrown`).

### ListenerHelper

The k-th that connects is called k, and so are its helper and its netport. The
i-th call of `async_accept` begins a chain i of accepts: `Accepted` or
`AcceptError` starts the handler, `HandOver` calls `acpt_cb_`, which makes the
helper and calls its `init` (`InitPort`, `InitBind`), and `CheckQuit` and
`AcceptAgain` start the next accept. `init` is cut between `netport_` and
`bind_socket` because it takes no lock: `Uninit` and `SendMessage` may come at any
time from when the helper exists. A chain that a stopped acceptor left behind
may still run when `async_accept` begins another, as nothing joins it. `Stop` and
`StopClose` are cut because a handler may call `acpt_cb_`, or look at `quit_`, before
`acceptor_->close()`. `quit_`, which the constructor does not initialize, starts
as either value. A handler holds an io thread (`IoFree`); one that throws (`Throw`)
takes it along, since `i_on_thread` leaves `run()` for good. `async_accept` is called
with a callback bound and nothing listening, `stop` only while it listens.

### MemPool

A unit is named by its offset in its block, and `unit[b]` maps the offsets that
have a header on the block's list to size, `bfree`, `prev` and `next`. Sizes are in
units of any grain, `HeaderSize` is `sizeof(alloc_unit)`. `Alloc` and `Realloc` are one
action each, as the mutex is held; the loops of `i_merge_unit` are cut into steps
(`WalkBack`, `WalkEnds`, `Absorb`, `AbsorbEnds`), because whether they end depends on
`prev` and `next`, which may be wrong. `asked` is what callers hold and how much they
asked for.

Nothing erases a header when its unit is absorbed, and a `prev` that a split or a
realloc left as it was may still lead to it. `dead[b]` keeps these headers as the
code would read them. `WalkBack` follows `prev` to one, and the merge goes on from
there: `AbsorbAgain` takes in what comes after it, writes the absorbed header's size
and `next`, and takes `free_count_` down, while the unit it took in stays on the list;
`lost` counts how often. An absorbed header is gone when something is written over
it: a new header (`Left`), the `memmove` of a realloc (`Moved`) or a caller who writes
into the buffer it lies in (`Overwrite`). A merge that would read one that is gone
ends the model (`Strays`, `ended` = "overwritten"), as what it then reads is whatever
was written. So does a caller who fills a buffer that is shorter than asked for
(`Overrun`), a realloc of the last unit through its null `next`, and `uninit`.

## Runs

| run | instance | shows |
|---|---|---|
| `pool` | 2 strands, 2 workers, 1 outside caller, `MAX_TASK_SIZE` 1, 3 posts per strand, `stop()` at any time or never | `NoLostWakeup`, `QueueBound`, `SerialExecution`, `ServesAll` (every accepted function object runs, unless `stop()` is called), `StopOutcome` |
| `timer` | 2 timers, 1 client, 3 waits of 0 or 1 | `Indexed`, `AtMostOnce`, `NeverEarly`, `CancelTakes` |
| `timer_fair` | 1 timer, 2 waits of 1, `uninit` at any time | `Answered`, `UninitReturns`, `SilentAfterUninit` |
| `timer_on_time` | 2 timers, 3 waits of 0..2, no cancel, no slow thread | `NoOversleep`, `Timely` without slack |
| `timer_late` | the same with cancel, slack 1 | `Timely` is **violated**: see Findings |
| `netport` | 3 messages of 0, 2, 3, 5 bytes, reads of 2 | `ReliableChannel` |
| `netport_close` | 2 messages of 3, good or bad magic, `clear`, refused posts | `Owned`, `OneWrite`, `QuietAfterClear`, `FifoChannel` |
| `netport_end` | 2 empty messages, `clear`, lost connections, fair | `KeepsReceiving`, `LossNoticed`, `Reclaimed` |
| `connector` | 2 starts, 1 `send_message`, 3 socket events, `stop()` at any time, refused posts | `ClearsBound`, `OneEnd`, `QuietAfterStop`, `StopCloses`, `StartAnswered` |
| `listener` | 2 who connect, 2 calls of `async_accept`, 1 of `uninit` or `send_message`, 1 event or error, 1 refused post, 2 io threads | `BindsFirst`, `QuietAfterUninit`, `UninitCloses`, `AcceptsAll` |
| `mem_pool` | 2 blocks of 7, headers of 1, requests of 1, 3 and 7, merges at absorbed headers, callers' writes | `UnitsSound`, `Lent`, `FreeReturns` |
| `mem_pool_count` | 1 block of 8, requests of 1 and 3, `alloc` and `free` only | `FreeCounted` is **violated**: see Findings |

Why the bounds are enough. Pool: two strands can share a worker or not, three
posts let one run, one wait and one be refused at a list of more than
`MAX_TASK_SIZE` = 1. Timer: three waits give a task that expires, one that is
cancelled and one that replaces another on the same timer; two timers share a
deadline or not. Netport: with reads of 2, bodies of 0, 2, 3 and 5 are empty,
exactly one read, one read and a rest, and two reads and a rest; three
messages let one be in flight, one wait in the list and one be posted, and two
long ones in a row show a counter that is not reset. Connector:
two starts give a netport that is replaced by the next; three events are a
completion and two errors of one connection, or an error of each. Listener: two
calls of `async_accept` give a chain that outlives its acceptor and meets the
next, two connections one that waits while the other is handled; one io thread can
end and one be left. `QuietAfterUninit` and `BindsFirst` are proved for every
number of calls and events. Memory pool: a block of 7 holds
three units (of 2, 2 and 3, the last with what was no unit of its own), so that one
between two others is freed before, between or after them; a request of 3 fits in
some free units and not in others, one of 7 in none; two blocks give one that is
full. Such a block already has merges that begin at an absorbed header
(`AbsorbAgain`) and at one that was written over; `MaxLost` = 1 lets calls go on after
one of the former has taken `free_count_` down, and no longer, since each call could
take it down once more. What follows an absorbed header is on the list or was itself
absorbed in this instance; that the header behind it is gone (the last disjunct of
`Strays`) takes a longer block. A block of 8 is the shortest in which
`alloc` and `free` of 1 and 3 alone make `free_count_` wrong.
Timer instances are
symmetric in the timers where only safety is checked. `CHECK_DEADLOCK FALSE` is
set where the system may come to rest: bounded calls used up, connection
closed or threads joined. The `pool` run checks deadlock: `Resting` describes the one
kind of state in which it may stop, where nobody is inside `post_call`, every worker
is parked or has ended and, unless `stop()` was called, every strand has had its
posts.

## Fairness

Weak fairness of a thread's steps: a thread that can run does. A function
object or callback returns; as it may call into the component any number of
times before, its return needs strong fairness (`Finish`, `TaskReturn`). Time
passes (`Tick`). In `Netport`, weak fairness of the strand is what `ServesAll`
shows of the pool, and weak fairness of reads and writes is that the io threads
run and the connection carries bytes. In `ConnectorHelper` it is fair that a
name is resolved or not, a connection made or refused, and the strand runs; in
`ListenerHelper`, that a handler on an io thread goes on (the user's accept callback
returns), an accept on a listening acceptor to which somebody has connected ends,
and a `stop()` that was entered closes the acceptor. In `MemPool` the thread inside
`free` goes on. Nobody is obliged to call anything: posts, waits, sends, `clear`,
`stop`, `uninit`, connections and lost connections have no fairness. Mutexes are held
for one action or by a caller that has fairness, so no fairness of lock acquisition beyond that is assumed.

## Findings

- `timer_late`: `i_post_task` decides whether to wake the task thread from the
  first key now in the map. If `cancel` has emptied the map while the task
  thread sleeps for the cancelled deadline, a new and earlier task does not wake
  it and is called back only when the cancelled deadline passes.
- `mem_pool_count`: `free_count_` is documented as the number of units not in use. A
  split leaves the `prev` of the unit behind the rest pointing at the unit that was
  split; when that one has been absorbed, `free` follows `prev` to its old header, goes
  on merging from there and takes `free_count_` down for units that stay on the list as
  free. The run finds it with `alloc` and `free` alone. A block whose `free_count_` is 0
  too early is never looked into again. The old header may by then lie in a buffer
  that is lent, and the merge writes to its size and `next`.

What the models record and no document of the repository speaks about:

- `thread_pool_t::stop` sets no event and hangs if a worker is parked
  (`StopOutcome`).
- `int diff` truncates a remaining time above `INT_MAX` ms: a `relative_time` of
  25 days expires at once. `NeverEarly` holds only for delays up to `IntMax`.
- `netport_impl_t::send_message` ignores that `post_call` may refuse: the
  cmd_info then belongs to nobody (the exception in `Owned`), and a refused
  completion stops the port from sending or receiving.
- `connector_helper_t::send_message` does not take the lock: between the
  assignment of `netport_` and the post of `bind_socket` it posts a write that
  the strand runs on a netport without `sock_` (the exception in `ClearsBound`).
  A refused `bind_socket` has the same effect for any later function object.
- The connect callback is called after the lock is left, so the loss of a
  connection may be reported before the connection is.
- `set_no_delay`, `set_buffer_size` and `set_keepalive` throw if the connection has
  been reset by then. In the connect handler the callback is then never called
  (the exception in `StartAnswered`); in the accept handler the chain ends, and
  nobody is accepted any more (the exception in `AcceptsAll`). Each time an io
  thread ends.
- `acceptor_t::stop` empties `acpt_cb_` while a handler may be inside it (`spot` =
  "crash") or about to call it, which throws and ends an io thread. Stopped before
  it ever listened, it dereferences an empty `acceptor_`.
- `listener_helper_t::init` does not look at `stopped_`: an `uninit` that comes
  before `netport_` is there leaves the connection open (the exception in
  `UninitCloses`). It takes no lock either, with the effect on `send_message` and
  `uninit` that `connector_helper_t` has on `send_message` (`BindsFirst`).
- `realloc` in `bas/mem_pool.hpp` compares the new size with that of the unit, header
  included, so it may hand back a buffer that is a header short (`Lent` grants it).
- A stale `prev` can also lead a merge to a header that has been written over since:
  what it does then depends on the bytes it finds (`ended` = "overwritten", the
  exception in `FreeReturns`).
- `realloc` of the last unit of a block, when it does not fit, reads through a null
  `next`. One that cannot be had frees the old buffer all the same and leaves its
  entry in `buf_block_map_`.
- Only the first block with a free unit is looked into, so `alloc` may add a block
  while a later one has room; a request that fits in no block adds one each time.
- `start` ignores that `async_connect` may return `false` (port 0): no callback
  comes, ever (`ignored`). `StartAnswered` is about the starts that it takes. `NP_TIMEOUT`
  is handed to `async_connect`, which does not use it: how long a connection may
  take is left to the system.

## Proofs

`StrandPoolProofs` proves, for any finite set of strands,
any callers, any positive number of workers and any bounds (assumptions
`CountAssumption`, `NoneAssumption`):

- `Safety`: the inductive invariant `Safe` = `TypeOK`, `MutexInv` (only the
  holder of `mtx_` is inside `post_call`), `CallInv` (what a call has read of
  `strand_proc_list_` stays true while it holds the mutex), `RunInv` (a running
  worker has a function object), `StopInv` (the workers `stop()` has passed have
  exited). `TypeOK` alone is not inductive: `Push` appends to the list of
  `call[c].worker`, which is a worker only because of the pc of the call.
- `TypeCorrect` and `StopEnds` follow from `Safe`.
- `WakeupKept`: `NoLostWakeup` is inductive relative to `Safe`. The case that
  matters is `Push` while the worker runs its last function object: the caller
  is then at "signal".
- `QueueBounded`: `QueueBound` with `Room` (a caller about to post has found
  room). A list passes `MAX_TASK_SIZE` only by a push that `CheckBusy` allowed at
  exactly `MAX_TASK_SIZE`, or by the first push of a strand, which `BindStrand`
  pays for by adding the strand to those bound to the worker.
- `Order`: `Ordered` = `Routed` (every function object of a strand is with the
  strand's worker), `RunsNext`, `Increasing`, `Between`, `Complete` (the numbers
  in the list are exactly those accepted and not begun), `Accepted`, `Unbound`.
  `Serial` is not inductive without it: that the front of a list is the next of
  its strand depends on the whole list.
- `RunsSerially` (`Serial`) and `Implements` (`SerialExecution`): each step of
  the pool maps to `Accept` (`Push`), `Begin` (`Take`), `End` (`Finish`) or a
  stutter.
- `SleepsWhenServed`: a worker asleep on an event that nobody is about to set has
  run all that was accepted for its strands. `NoLostWakeup` says that its list is
  empty, `Complete` that an empty list leaves nothing. What `ServesAll` adds to it,
  and TLC checks, is that a worker with work left gets on with it.

`RelativeTimerProofs` proves, for any timers, clients, delays and bounds
(assumptions `BoundAssumption`, `NameAssumption`):

- `TInv`, the invariant the rest stands on: `TypeOK`, `MutexInv` (the caller
  between the halves of `i_post_task` holds `mutex_`), `CallInv` (the task of a
  call of `wait` that has not inserted it is in no container, unanswered and
  nobody else's, and after `Post` its timer has no waiting task), `Indexed`,
  `Once`. `Indexed` alone is not inductive: that `Insert` leaves a timer one task
  is known only from what `Post` did before, with the lock kept. Nor is
  `AtMostOnce`: it does not say that an inserted task was never answered.
- `TimerTypes`, `MapsAgree`, `AnsweredOnce` and the action property
  `CancelLeavesNone` follow from `TInv`. The case that matters for the last is that
  `i_cancel` looks only where `sid_map_` leads, which `Indexed` makes enough.
- `UninitSilences` from `UninitInv`.
- `OkIsDue`: `NeverEarly` from `DueInv`, if `MaxTime <= IntMax`. The assumption is
  needed: beyond it `int diff` wraps and the task is called back at once.
- `SleepsRight`: `NoOversleep` from `StillInv`, if `~MayCancel`: a call of `wait` then
  takes nothing from the map, so the key slept for stays the first or the event
  is set. With cancel it is false, which is what `timer_late` shows.
- `OnTime`: `Timely`, with any slack and so with none, from `TimeInv`, if `~MayCancel`
  and `Urgent`. `Timely` alone is not inductive: that time does not pass a deadline
  is known from the task thread, which is then neither parked nor asleep for a later
  one. `WakesInTime` says that its sleep ends by the first key (`DiffWithin`: what an
  int cannot hold makes the sleep shorter, never longer), `WillBeTold` that a thread
  that found the map empty has `run_event_` set, or a call of `wait` that will set it,
  and `EndsForUninit` that it has not ended while tasks may wait.

`NetportProofs` proves, for any senders, sizes of messages and reads, capacity of the
connection and number of sends (assumption `ParameterAssumption`), from one invariant
`IInv` = `TypeOK` and for each end `EndInv`:

- `KnownBytes`: every byte on its way is part of a message that was sent, and so is
  the header that has come in, unless the socket is not bound yet. Without it the
  length a header announces need not be a number.
- `ReadsOnce`, `WritesOnce` (`Single`): of the operations that read (write) and the
  function objects that follow from one there is one at most. A handler that posts
  removes its operation, and a function object that starts one is off the queue.
- `Framed`: what `flag_`, `has_recved_` and `body_len` say fits the read in flight or
  the completion in the queue. `Current`: the write in flight is that of `cur_send_`.
- `OwnedInv`: `Owned`, for every number and not only those of calls made. It is not
  inductive alone: that `i_on_send_strand` frees a `cur_send_` nobody writes any more
  rests on `WritesOnce`. `Silent`: a netport whose socket is closed has no callbacks.

A step of an end leaves the other's own state alone and takes from the connection at
most (`OtherInv`), so each action is proved for its own end only. From `IInv` follow
`Types`, `ReadsFit` (no read goes past the body it was given), `OwnedOnce`,
`OneWriteAtATime` and the action property `QuietAfterTheClear`. `KeepsOnReceiving`
(`KeepsReceiving`) adds `Alive` and needs `~MayRefuse`: a refused completion
leaves the netport deaf.

`NetportChannel` proves, under the same assumption, that `Netport` implements
`MessageChannel` (`ImplementsChannel`: `FifoChannel`), from `IInv` and one more invariant,
`ChannelInv` (`StreamInvariance`), which says for each end where in the stream of the
accepted messages it is:

- A stream has an origin and a successor: `Comes(cl, b, c)` says that byte `c` follows
  byte `b`, in the same message or as the header of the next one that was accepted
  (refused posts leave gaps in the numbers). `Chain`: the bytes on the wire follow one
  another so, from the last that was read.
- `Writer`: what a write in flight does next continues the chain; what waits in
  `cmd_info_list_` and in the queue is in the order of the calls (`Sorted`) and none is
  left out (`Complete`). It is required while both ends are open and the connection
  holds (`Flowing`), as afterwards nothing is added to the wire.
- `Reader`: the last byte read, `ci_`, the body so far and `has_recved_` agree with the
  number of messages handed up: all of the k-th and nothing of the next (`Between`), its
  header (`HeaderAt`), or j bytes of its body (`BodyAt`).
- `Numbered` and `InOrder`: what was handed up as the k-th is the k-th that was accepted,
  whole and decrypted.

None of the parts is inductive by itself: that a byte read is the right one is known
from the chain, that the chain goes on from `Writer`, and that `i_on_send_strand` goes
on with the right message from the order of the list and the queue. What is said of
the calls stays true when there are more of them (`Grown` and the lemmas about it), so
the other end's sends are dealt with once. The refinement then maps `send_message` to
`Send` if it was accepted, `i_on_recv_strand` to `Deliver` if it hands something up, and
`i_do_clear` and a lost connection to `Break`; every other step is a stutter.

`DoneAtStandstill` (if `~MayRefuse`) is the part of `ReliableChannel`, `LossNoticed` and
`Reclaimed` that is not about fairness: in a state where no function object, handler or
byte can move (`Standstill`, each `Stuck` operation being one that no `IoStep` takes),
every accepted `cmd_info` is freed, and either every message has been handed up or both
ends are closed. It adds to the two invariants what each end may rely on (`Settled`):
`Alive`, `Lively` (a `cur_send_` is being written or its completion is posted, and while
the connection is whole nothing has failed), `Told` (an `err_cb_` that was taken is on
its way to the netport) and `Emptied` (after `i_do_clear` nothing waits).

`ConnectorHelperProofs` proves, for any numbers of starts, sends and events
(assumption `BoundAssumption`):

- `HelperTypes` from `HInv` = `TypeOK` with `LockInv` (the handler between
  `netport_` and `bind_socket` holds the lock, and `netport_` is its own).
- The action property `StopSilences` (`QuietAfterStop`), from `StopInv`: `stop()`
  takes the callbacks away for good, so what is copied afterwards is empty.
- `StopFindsSocket` (`ClearsBound`), from `BindInv`: a clear in the queue has its
  bind before it, and whenever the lock is free the netport's bind is in the
  queue, done or refused. `ClearsBound` alone is not inductive: it speaks only
  of the state after the fact, and that `stop()` cannot post a clear too early
  rests on the lock that `LockInv` gives the handler.

- `EndsOnce` (`OneEnd`), from `EndInv`: a netport that has told of its end has no
  callback left, a start that failed never has a socket, and whatever is called or
  posted for has one. `OneEnd` alone is not inductive: that no second error
  reaches the user rests on `i_do_clear` emptying the callbacks, which happens in
  the same function object that reports the first.

`PortStrandProofs` has the lemmas both helpers share: a post keeps the head of the
queue (`PostType`), a step of the strand keeps the types of the netports (`PortRun`).

`ListenerHelperProofs` proves, for any numbers of connections, listens, calls, events
and io threads (assumptions `ListenAssumption`, `PortAssumption`):

- `ListenerTypes` from `TInv` = `TypeOK` with `IoInv`: no more handlers run than io
  threads are left. Without it `io' = io - 1` could leave the naturals.
- The action property `UninitSilences` (`QuietAfterUninit`) from `LInv`, which adds
  `ConnInv`: a connection is accepted once and has one handler, so that no second
  `init` gives a helper its callbacks back after `uninit`.
- `BindPrecedes` (`BindsFirst`) from `QInv`: what is in the queue belongs to a
  netport that was made, and a netport whose `init` is done is bound, has its bind
  in the queue, or had it refused.

`MemPoolProofs` proves, for any sizes of block, header and request, any number of
blocks and any `MaxLost` (assumption `SizeAssumption`), from one invariant `PInv`:

- `PoolTypes` (`TypeOK`), `UnitsAreSound` (`UnitsSound`) and `BuffersAreLent` (`Lent`).
- `PInv` says of each block that its units tile it, that `free_count_` and `lost` together
  are the number of free ones (`Total`), and that the units in use are those lent,
  besides the one that `free` has in hand. The lemmas `SplitKeeps` and `JoinKeeps` show that
  cutting a unit and merging it with the next keep a tiling, `PutKeeps` that a header
  written anew does. `prev` has no part in it, and need not: merges go by `next`, and a
  `prev` only chooses where they begin.
- `Leftovers` says of the absorbed headers that each is as a header of the block once
  was (`Framed`: its unit lies in the block and ends at its `next` or at the block's
  end). It is what keeps `AbsorbAgain` in type, and shows that such a merge changes
  nothing on the list but a `prev` (`AbsorbAgainKeeps`): that is why the tiling survives
  it and only `free_count_` does not.

Only model-checked: everything under fairness (`ServesAll`, `StopOutcome`,
`Answered`, `UninitReturns`, `ReliableChannel`, `LossNoticed`, `Reclaimed`,
`StopCloses`, `StartAnswered`, `UninitCloses`, `AcceptsAll`, `FreeReturns`), which
the prover cannot do; of four of them `SleepsWhenServed` and `DoneAtStandstill` prove
what remains without fairness. Each other property of the runs is a theorem, where it needs one
with the assumption its entry names.

## Not modelled

Third-party and generated code; asio's own behaviour beyond what `socket_t`
uses of it; formatting and logging; thread affinity; a second `bind_socket` on
one netport (both helpers make a new netport per connection); that an aborted
overlapped operation may still touch a freed buffer; messages whose header
lies about the length; failed allocations; the udp sockets, which keep no state
and are used by nothing; the bytes in a buffer of the memory pool, so that of
what `memmove` and the callers write only the absorbed headers it destroys are kept. The
parts of the table above that have no module yet are in the plan.

## Plan

1. `TaskQueue` for `utility/thread_pool`: lost wake-up in the destructor.
2. `LogWriter` for `utility/log`: writers, flusher, roll-over.
3. `HttpRequest`: one completion per request.
4. Pure functions with reference definitions: `plain_marshal`, base64,
   `url_decode`; `run_once_t`; command ids of FlexParser.
