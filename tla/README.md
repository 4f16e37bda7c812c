# A TLA+ model of xk6-tcp

xk6-tcp gives k6 scripts a `Socket` over TCP. A socket is one Go struct that the
VU's event loop (script calls and event handlers) and several goroutines share:
one per `connect()`, one reader per established connection, one per `write()`,
and a loop that moves callbacks from an unbuffered channel to k6's task queue.
The repository also holds echo servers for its tests and a tool, `with-echo`,
that runs a command against them. This directory models that struct, those
goroutines and those servers, checks the models with TLC and proves their safety
properties with TLAPS for any number of calls, buffers, clients and signals.

## Inventory

| Part | State | Operations | What is hard | What makes it correct |
|---|---|---|---|---|
| lifecycle (`socket_base.go`, `socket_connect.go`, `socket_read.go`, `socket_state.go`) | `state`, `conn`, `connectOpts`, `mu`, `destroyOnce`, `cancel` | constructor, `connect`, `read`, `destroy` | the lock is held over lookup, dial and handshake; the reader works on copies; script and readers race into `destroy` | `conn` is never a closed connection; nothing leaks; destroyed is final; `destroy` ends |
| event dispatch (`socket_on.go`, `socket_loop.go`) | `handlers`, `callChan`, the loop goroutine, k6's task queue | `on`, `fire`, `handleError`, `loop` | senders block until the loop receives; the loop ends with `destroy`, senders give up only with the VU | connect first, close once and after the release; the event loop is never blocked for good |
| write path (`socket_write.go`) | `totalWritten`, one goroutine per call | `write`, `writePrepare`, `writeExecute` | concurrent writes; a connection that fails or is destroyed in the middle | resolved means sent; payloads do not mix; counters tell the truth; `destroy` ends the writes of its connection |
| idle timeout (`socket_timeout.go`, `socket_read.go`) | `timeout`, the connection's read deadline | `setTimeout`, the re-arming of `read` | the deadline is set from a copy | not early, not forgotten, off when it is switched off |
| metrics and tags (`metrics.go`, `socket_metrics.go`) | samples, `socketOpts`, `endpoints` | push helpers, `tags`, `currentTags`, `addToTagSet` | samples of one socket come from several goroutines; tag sets are computed before they are used | durations and sockets agree; a sample carries the tags of the call it is about |
| buffers (`socket_read.go`, `socket_on.go`) | `readBuf`, `bufferPool` | copy, `Get`, `Put` | buffers that are reused while a queued callback holds them | the handler sees the bytes that were read, in order; no buffer is lost |
| echo servers (`internal/echo`) | listeners, `done`, a `WaitGroup`, environment | `New`, `Start`, `Setenv`, `Stop`, accept, echo | connections accepted while `Stop` waits; clients that hang; set-up that fails half way | `Stop` misses nothing and returns |
| `with-echo` (`tools/with-echo`) | child process, signal channel | `Run`, `handleSignals`, `Shutdown` | signals before, during and after the command | the command is served, signalled and waited for |
| registration, test harness (`internal/testscript`) | none of their own | | | |

The parts interact as follows. A script call runs on the event loop; `connect`
and `write` start a goroutine and return a promise. Every goroutine reports to
the script by `fire`, that is by a send on `callChan` that the loop goroutine
receives and passes to the task queue, which runs the handler on the event loop.
`destroy` closes the connection, fires `close` and cancels the loop's context,
which is a child of the VU's. The reader calls `destroy` when it ends.

## Modules

* **`Socket`**: lifecycle and event dispatch. The threads are `Js` (the event
  loop), `Connector(c)` and `Reader(c)` for each `connect` call `c`; `pc` says
  where each is. A label that is the name of an event means that the thread is
  inside `fire` for it. One action is the code between two points where another
  goroutine can be noticed. `c` also names the connection that the call dials
  and the options it was given, so that `target` can tell whose options were
  used. `events` is everything the loop gave to the task queue, `handled` how
  much of it has run. `mu` is only recorded while a goroutine keeps it over I/O;
  every other critical section is one step with the guard `Unlocked`.
  `Invalid` are the calls of `connect` and `write` whose arguments are refused
  on the event loop itself.
* **`Lifecycle`**: the abstract specification, without goroutines: the state
  diagram of `docs/architecture.md`, all its edges, with the open connections and
  the close event. **`SocketContract`** instantiates it for `Socket`, with the close event
  read off `events`.
* **`SocketWrite`**: `write`. A byte on the wire is represented by the call it
  belongs to. `conn.Write` takes a payload byte by byte, one call at a time per
  connection (as Go's `net` does), and fails when the connection is broken or
  closed. `connect` may replace the connection of an open socket and open a
  destroyed one, as the code allows: `local` is the connection that a call copied,
  `closing` the one that `destroy` closes.
* **`SocketTimeout`**: `setTimeout` and the reader's deadline, in ticks. A
  `Duration` wraps around as the code's `int64` does; `asked` remembers what the
  script meant. The history variable `raced` records that a call came between the
  reader's copy of the timeout and its `SetReadDeadline`.
* **`SocketTags`**: extends `Socket` with what its samples are tagged with. The
  behaviour is that of `Socket`; `RecordTags` computes, at the moments the code
  does, `connectExecute`'s and `destroy`'s local `tags`, and collects each sample
  with its tags and the call it is about. A refused `write` has the VU's tags and
  its own (`refusedTags`), a refused `connect` those of the socket.
* **`SocketRead`**: a chunk's way from `readBuf` through a pooled buffer, the
  `select` of `fireAndCleanup`, the loop and the handler, and the buffer's way
  back. `content` is what a buffer holds now, the `chunk` of a callback what it
  was queued for. The reader may go on after the loop has stopped, as it does
  when the VU ends; that `destroy` also ends the reader is in `Socket`.
* **`EchoServer`**: the two servers and the process that owns them, `at` being
  where the owner is. net/http is external: `Serve` registers a listener or finds
  the server shut down, and may fail at any time, closing its listener
  (`ServeFails`); `Shutdown` waits until it is idle or its context ends.
* **`WithEcho`**: extends `EchoServer` with the tool: its arguments, the command,
  signals and the goroutine that forwards them.
* **`Socket_proofs`** (any script), **`SocketCareful_proofs`** (careful scripts, and
  the refinement of `Lifecycle`), **`SocketTags_proofs`**, **`SocketTimeout_proofs`**,
  **`SocketWrite_proofs`**, **`SocketRead_proofs`**, **`WithEcho_proofs`** (with
  `EchoServer`): the theorems, each module extending the one it is about.
* **`MCSocket`**, **`MCSocketTags`**, **`MCSocketWrite`**, **`MCSocketRead`**,
  **`MCSocketTimeout`**: instances for TLC.

Definitions named as mutants stand directly before the definition they are a
faulty version of. They are not used by the specifications: each shows that a
property of a run notices a plausible mistake in the code.

Scripts come in three kinds, selected by the constant `Script`. `"any"` calls
anything at any time. `"awaits"` leaves the socket alone while a `connect` is
pending, unless its connect or error handler has run. `"careful"` also calls
`connect` only on a disconnected socket.

## Runs

Runs that pass:

| Run | Instance | Shows |
|---|---|---|
| `two_connects` | any script, two connects (symmetric), close handler and an unknown event, one read with data, one timeout, TLS and deadline failures | `TypeOK`, `HoldsLiveConn`, `CloseOnce`, `CloseAfterRelease` in every race of two connectors, two readers and the script |
| `careful_script` | careful script, two connects, one read with data, connect, data, error and close handlers, tags that override each other | `ConnectBeforeReads`, `NoLeak`, `DialTarget`, `EndpointsMatch`, `OneReader`, `ConnectBeforeClose`, `FewAfterClose`, `SocketAccounting`, `ConnectionTags`, `ConnectSettles`; `FairContract`: Socket implements `Lifecycle` with its fairness |
| `progress` | any script, one connect, one refused call, close and error handlers, the VU may end | `DestroyCompletes`, `ScriptReturns`, `CloseHandled`, `VuReleasesSenders` |
| `timeout` | timeouts off, short and long, a negative one and two that overflow, three calls | `StoredAsAsked`, `NotEarly`, `IdleTimesOut` |
| `write` | two concurrent writes, each of two bytes or none, the second maybe refused; two connections, one after the other or after `destroy`, which may take fragments | `Contiguous`, `WritesCounted`, `ResolvedIsWhole`, `CountsOnlySent`, `SettledIsSilent`, `DestroyEndsWrites` |
| `read` | five chunks, three buffers (symmetric); handler, loop and VU come and go at any time | `DataIntact`, `OneOwner`, `StreamOrder` |
| `echo` | both owners, two clients, two signals; every step of the set-up may fail, and so may `Accept` and `Serve` | `StopWaits`, `CommandIsServed`, `NoOrphan`, `StopReturns`, `SignalsForwarded` |

Runs that end in a violation show where the code differs from its documents; the
quotations are in `PROJECT.json`:

| Run | What happens |
|---|---|
| `find_reopened` | `connect` after or during `destroy` reopens a destroyed socket |
| `find_stuck_reader` | a reader with data after `destroy` blocks on `callChan` until the VU ends, even for a careful script |
| `find_untagged` | `tcp_reads` is pushed without the tags given to the constructor |
| `find_timeout_stays` | `setTimeout(0)` between the reader's copy and its `SetReadDeadline`: timeout events for ever |
| `find_partial_write` | the byte count that `conn.Write` returns with an error is dropped, so `tcp_partial_writes` is never pushed and `bytes_written` misses what was sent |

The discipline of the script matters. With `Script = "any"` the properties of
`careful_script` fail one by one: `DialTarget`, because `connect` calls share
`connectOpts`; `ConnectBeforeClose`, because a `destroy` may come between the
unlock and `fire("connect")`; `ConnectSettles`, because the connector then sends
on a channel that nobody receives from; `NoLeak`, because a second `connect` on
an open socket, awaited or not, replaces `s.conn` and nobody closes the first
connection; `OneReader`, because the first connection's reader goes on with the
second connection, beside the second reader and with the same `readBuf`.

Deviations that were met on the way and are visible in the actions without a run
of their own:

* a refused `connect` or `write` fires its error event on the event loop's own
  thread; on a destroyed socket with an error handler this blocks the event loop
  until the VU ends, and the promise is not rejected before that
  (`BlockedByError`, the exception in `ScriptReturns` and `CloseHandled`);
* a reader that is inside `fire("data")` queues its event after `close`, which
  `index.d.ts` calls the final event; `FewAfterClose` says that it is one event
  per reader;
* a script never reads `"opening"` from `ready_state`: the state is `opening` only
  while `connectExecute` holds `s.mu`, over lookup, dial and handshake, and the
  getter waits for that lock and the event loop with it. `index.d.ts:57` and
  `:219` and `README.md:119` list `opening` among the values, and
  `tcp/socket_state_test.go:61` sets the field by hand to see it. So reading
  `ready_state`, `connected` or an address during a `connect` blocks the VU for as
  long as the dial takes;
* `setTimeout` with a longer timeout, between the reader's copy
  (`socket_read.go:20`) and its `SetReadDeadline` (`:37`), does not reach the
  pending `Read`: it times out after the old, shorter time, where
  `socket_timeout.go:10` and `index.d.ts:424` say "after `timeout` milliseconds of
  inactivity". The next round uses the new one. This is the race of
  `find_timeout_stays`, and the one exception of `NotEarly`;
* `destroy` closes the connection it finds. A write to a connection that an
  earlier `connect` on the open socket replaced, or that a `connect` opened after
  `destroy`, is not ended by it: if the peer does not read, its promise stays
  pending. `DestroyEndsWrites` leaves those out;
* when `Serve` fails, `HTTPServer.Start` logs the error (`server_http.go:61`) and
  nobody else learns of it: tests and commands go on without an HTTP server;
* `tcp_timeouts` is registered and never pushed; an error of `writeExecute` is
  rejected without a `tcp_errors` sample or an error event; a write without a
  connection is not counted in `tcp_writes`;
* `setTimeout` with more than 2^63 nanoseconds stores a wrapped value, which may
  be negative, that is no timeout, or a short one: `NotEarly` and `StoredAsAsked`
  are about values that fit;
* `connectExecute` computes its tags before the lookup: the samples of a first
  attempt have no `ip`, those of a second one the address of the first;
* after the handler has returned, its buffer is reused: an array that a script
  keeps, or passes to `write` without awaiting it, changes with the next chunk;
* `with-echo` leaves the servers running when `Setenv` fails, which the end of
  the process makes up for, and the accept loop of the TCP server tries again at
  once after an error.

### Bounds

Two connect calls are enough for every pair of goroutines to meet: two
connectors, two readers, a connector and the other's reader. The properties of
one call are proved for any number. `MaxReads` and `MaxTimeouts`
bound the reads that return data or a timeout; one of each is enough for an
event of a reader to meet every step of `destroy`. Three calls of `setTimeout`
allow one before, one during and one after a round of the reader; the requests
contain a timeout that ends before another one would, and with `Millisecond = 2`
and `Half = 8` one that wraps to a negative and one that wraps to a positive
Duration. Two writes of two bytes allow one to come between the bytes of the
other; a second connection allows them to differ, and one to be left behind or to
outlive `destroy`. Three buffers let one be filled while one is queued and one
is in the handler; five chunks let each be reused. Two clients let one be
accepted while the other's goroutine ends; two signals fill the channel.
`CHECK_DEADLOCK FALSE` is set because a finished socket stops.

### Fairness

`FairSpec` of `Socket` assumes that a goroutine that can run does (weak fairness
per thread), that lookup, dial and handshake end (they do by the operating
system's and the dialer's limits), and that the event loop runs what it is given:
strong fairness of `JsHandle`, since the script may make other calls in between
but each task is finite and the queue is served in order. Nothing makes the
script call anything, the peer send anything, or the VU end. `SocketWrite`
assumes that goroutines run and `destroy` ends, but not that the connection takes
another byte. `SocketTimeout` assumes that time passes and the reader runs, but
not that data comes. The echo servers' goroutines run and the deadlines that the
code sets (five seconds for a connection, five for `Shutdown`) pass; no client
has to hang up, no request to end, no command and no test to finish, and
`Accept` has to fail only once its listener is closed.

## Proofs

Every invariant of the passing runs is a theorem, and so are the two action
properties `NotEarly` and `SettledIsSilent` and the safety part of the refinement.
The runs check them on small instances; the theorems hold for all constants that
satisfy the named assumptions of the modules, which ask for types and finite sets
and for nothing the code does not give. Each inductive invariant is a conjunction
of named parts, with a lemma per part, or per group of actions, that has one step
for each action that can disturb it.

**`Socket_proofs`**: any number of connect calls and any kind of script.
`TypeOK`, `CloseOnce`, `CloseAfterRelease`, `HoldsLiveConn`, `ConnectBeforeReads`
and `FewAfterClose`. None is inductive. `IInv` adds:

* `ControlInv`: only a thread inside `fire` waits on `callChan`; a call has one
  goroutine; a reader exists only after its connector has fired `connect`.
  `TypeOK` needs this, because a queued event takes its name from the sender's
  label.
* `OnceInv`: one thread at a time is inside the function `destroyOnce` guards,
  and only while it runs; a close event means that this thread has sent it or
  that the function has returned. Hence no second close.
* `ConnInv`: what `s.conn` and `destroy` hold was stored by a connector that is
  past `dial`, and they differ. Hence closing the one never closes the other, and
  a dial never reopens what was closed.
* `OrderInv`: a reader that has queued an event has been started, and so its
  connector sends nothing any more.
* `OpeningIsLocked`: the state is `opening` only while a connector holds `mu`.

`FewAfterClose` needs one more, `QuietInv`: while the socket is destroyed, a
reader that has queued an event after close is on its way to a test of the state
or beyond, and will not fire again.

**`SocketCareful_proofs`**: any number of connect calls by a script that is careful
(`Script = "careful"`), on connections whose read deadline can be set
(`DeadlineMayFail = FALSE`). Both are hypotheses of the theorems, not assumptions
of the module, and neither can be dropped for all of them. What a less careful script meets is told
under Runs. When `SetReadDeadline` fails, `dial` has stored the connection
already and `connectExecute` calls the socket disconnected: the next `connect`
replaces a connection that is still open. Proved are `NoLeak`, `DialTarget`,
`EndpointsMatch`, `OneReader`, `ConnectBeforeClose`, `SocketAccounting`; that
destroyed is final (`DestroyedIsFinal`, which `find_reopened` refutes for other
scripts); and that `Spec` implements `Lifecycle` (`SocketImplementsContract`): a
lemma, `ContractStep`, maps every step to a step of `Lifecycle` or a stutter.
None of this follows from `IInv`, which knows nothing of the script. `CarefulInv`
adds what the discipline of the script amounts to inside the socket:

* `ToldInv`: while a call is on its way its promise is pending and none of its
  events is queued. The script goes by promises and events, so this is what turns
  its discipline into facts about goroutines.
* `AloneInv`: while one call is on its way, no other is, none has succeeded, there
  is no reader and nobody is in `destroy`; at most one call ever succeeds, and
  only that one has a reader.
* `StateInv`: `state`, `mu` and `once` follow from where the goroutines are; so a
  connector at the lock finds a disconnected socket, and a destroyed one stays so.
* `OpenInv`: the open connections are the one that is being made, the one the
  socket holds and the one `destroy` is about to close. Hence `NoLeak`.
* `TargetInv`: `connectOpts` and the addresses are those of the call on its way, or
  of the one that succeeded. Hence `DialTarget` and `EndpointsMatch`.
* `AccountInv`: the samples pushed follow from how far the call that succeeded and
  `destroy` have come, unless the VU ended.
* `PlacesInv`: where each kind of thread can be.

TLC checked these parts on the instance of `careful_script` before they were
proved.

**`SocketTags_proofs`**: `ConnectionTags` under the same two hypotheses, for any tags
of the VU, the constructor and the calls. The tags are computed before they are
used, so `TagsInv` says what the stored ones are: `connectExecute`'s describe its
call for as long as it pushes samples (`AttemptInv`), `destroy`'s the connection it
closes (`FinalInv`), and `connectOpts` is the one of the call that fails or has
succeeded (`OptionsInv`), because `AloneInv` lets no other call replace it.

**`SocketTimeout_proofs`**: `TypeOK`, `StoredAsAsked` and `NotEarly` for any timeouts,
any timing and any width of a Duration: what fits a Duration survives the
wrap-around (lemma `Fits`, from a remainder being below its divisor), and while a
read is pending, the idle time and what is left of the deadline add up to at
least the timeout (`DeadlineInv`), unless `setTimeout` raced with the arming of
the deadline. `NotEarly` needs that, and it is not seen in the state at the moment
the timeout is reported. The theorem is as strong as the code allows: without
`~raced` TLC refutes it.

**`SocketWrite_proofs`**: `TypeOK`, `ResolvedIsWhole`, `CountsOnlySent`, `Contiguous`,
`WritesCounted` and `SettledIsSilent` for any finite set of calls with any
arguments, and any number of connections. `WriteInv` keeps the account of each call: how many of its bytes are on
the wire at each of its steps, until an error loses count (`SentInv`); that what
`conn.Write` has taken and not returned is the call's own (`TakenInv`) and not in
`totalWritten` yet (`TotalInv`); that the call inside `conn.Write` is the only one
of its connection (`LocalInv`) and has its bytes at the end of what that
connection has taken (`PieceInv`), which is why nothing comes between them; that
the counter is the number of calls with a connection that are past their count
(`CountedInv`); and what a promise says about its goroutine (`PromiseInv`).

**`SocketRead_proofs`**: `TypeOK`, `DataIntact`, `OneOwner` and `StreamOrder` for any
finite set of buffers and any number of chunks. `ReadInv` says that no two
payloads on their way share a buffer (`Disjoint`), that the buffers outside the
pool are exactly those on their way (`PoolInv`), so that `Get` never returns one
that a callback holds, and that what was seen, what is queued and what is being
read are one stream in that order (`StreamInv`).

**`WithEcho_proofs`**: `TypeOK`, `StopWaits`, `CommandIsServed` and `NoOrphan` for any
finite set of clients and any number of variables and signals, of the tool and of
the tests as owner. The heart of `EchoInv` is `CountInv`: the `WaitGroup` counts
the accepting goroutine and the ones that echo, also while a connection is
accepted during `Stop`. So `Wait` returns only when there are none, and nobody is
left to add one. The HTTP listener is open while the owner runs unless `Serve` has
failed. `ListenersInv`, `GoroutinesInv` and `RunInv` say what each step of
the owner finds.

Attempting the proofs changed the models in three places: three `CASE` expressions
(`AfterSetenv`, `AfterRead`, `Snapshot` of `SocketWrite`) had guards that overlap,
so that which branch was meant was not defined; they now follow the order of the
code's `if` statements. TLC, which takes the first, found nothing.

Model-checked only, because fairness and `ENABLED` are beyond the proof system:
`ConnectSettles` (written as "again and again no promise is pending", which for
calls that are made once says that each settles), `DestroyCompletes`,
`ScriptReturns`, `CloseHandled`,
`VuReleasesSenders`, `IdleTimesOut`, `DestroyEndsWrites`, `StopReturns`,
`SignalsForwarded`, and the fairness that `FairContract` adds to the contract.

## Not modelled

Host names and addresses other than by the call they belong to, payload
contents, decoded bytes, ports, HTTP responses, exit codes and log output; the
tags of single writes. Module registration (`register.go`, `module.go`) is wiring
without state. The test harness (`internal/testscript`) is straight-line set-up
around the k6 test runtime, whose behaviour would have to be invented. The k6
runtime, its task queue, promises and dialer, Go's `net` and `crypto/tls` are
external and modelled by what the code relies on: tasks that were queued run in
order, even after the queue was closed; a lookup or dial ends with a result;
`Write` returns short only with an error (lifted in half of the
initial states of `write`).

## Plan

1. Done: `Socket`, `Lifecycle`, `SocketTags`, `SocketWrite`, `SocketRead`,
   `SocketTimeout`, `EchoServer`, `WithEcho` and their runs; proofs of all safety
   properties that the runs check, and of the refinement.
2. Next: which of the theorems about careful scripts need less than that.
   On instances with two calls TLC finds that `DialTarget` follows from awaiting
   alone, and that `OneReader` and `ConnectBeforeClose` do not need a deadline that
   can be set; the other properties fail without it. Then the safety facts that
   the liveness arguments rest on, such as that a thread blocked on `callChan`
   means a loop that can receive or one that was cancelled.
