------------------------------- MODULE Socket -------------------------------
(***************************************************************************)
(* The lifecycle of one k6/x/tcp Socket: the `socket` struct of            *)
(* tcp/socket_base.go and every goroutine that touches it.                 *)
(*                                                                         *)
(*   Js            the VU's event loop: script calls and event handlers    *)
(*   Connector(c)  the goroutine started by the c-th call of connect()     *)
(*   Reader(c)     the read() goroutine that connect call c starts         *)
(*   the loop      socket.loop(), which moves callbacks from the           *)
(*                 unbuffered callChan to the k6 task queue                *)
(*                                                                         *)
(* A step of the model is the code between two points where another        *)
(* goroutine can be noticed: a lock, a channel operation, blocking I/O, a  *)
(* sync.Map or sync.Once access.  Identifiers of connect calls double as   *)
(* the identities of the connections they dial and of the options they     *)
(* were given.  Payloads, addresses, log lines and metric tags are         *)
(* abstracted away; write() beyond its argument check and setTimeout() are *)
(* not part of this module.                                                *)
(***************************************************************************)
EXTENDS Naturals, Sequences, FiniteSets

CONSTANTS
    Connects,         \* the calls of connect() with well-formed arguments
    Invalid,          \* the calls of connect() or write() whose prepare step fails
    TLSCalls,         \* the connect calls whose options ask for TLS
    ScriptEvents,     \* the names the script calls on() with
    Script,           \* how disciplined the script is: see CallAllowed
    DeadlineMayFail,  \* whether SetReadDeadline on a fresh connection may fail
    VuMayStop,        \* whether k6 may end the VU during the run
    MaxReads,         \* bound: reads that return data
    MaxTimeouts,      \* bound: reads that return a timeout
    None              \* nil

Events == {"connect", "data", "close", "error", "timeout"}

ASSUME ConstantsAssumption ==
    /\ None \notin Connects
    /\ Connects \cap Invalid = {}
    /\ TLSCalls \subseteq Connects
    /\ ScriptEvents \subseteq Events \cup {"unknown"}
    /\ Script \in {"any", "awaits", "careful"}
    /\ DeadlineMayFail \in BOOLEAN
    /\ VuMayStop \in BOOLEAN
    /\ MaxReads \in Nat
    /\ MaxTimeouts \in Nat

VARIABLES
    state,        \* s.state
    conn,         \* s.conn
    connectOpts,  \* s.connectOpts: the call whose options are stored
    handlers,     \* s.handlers: the events that have a handler
    mu,           \* the connect call whose goroutine holds s.mu across I/O
    once,         \* s.destroyOnce
    cancelled,    \* s.cancel() was called
    vuDone,       \* s.vu.Context() is done
    loop,         \* socket.loop()
    sending,      \* threads blocked in fireAndCleanup's select
    events,       \* everything the loop handed to tq.Queue, in order
    handled,      \* how many of them the VU event loop has run
    totalRead,    \* s.totalRead, in reads
    timeouts,     \* reads that ended in a timeout
    samples,      \* metric samples pushed, per metric
    live,         \* connections dialled and not yet closed on this side
    closing,      \* destroy()'s local variable conn
    promise,      \* the promise each call returned
    target,       \* per connect call, whose host, port and TLS flag it used
    endpoints,    \* s.endpoints: the calls whose addresses are recorded
    readConn,     \* read()'s local variable conn
    readErr,      \* readLoopStep()'s local variable err
    pc            \* where each thread is

sockVars == <<state, conn, connectOpts, handlers, mu, once, cancelled>>
evtVars  == <<loop, sending, events, handled>>
ioVars   == <<totalRead, timeouts, live, closing, target, endpoints, readConn,
              readErr>>
vars     == <<sockVars, vuDone, evtVars, ioVars, samples, promise, pc>>

-----------------------------------------------------------------------------
(* Threads and values *)

Js           == <<"js", None>>
Connector(c) == <<"connect", c>>
Reader(c)    == <<"read", c>>
Connectors   == {Connector(c) : c \in Connects}
Readers      == {Reader(c) : c \in Connects}
Threads      == {Js} \cup Connectors \cup Readers

States  == {"disconnected", "opening", "open", "destroyed"}

Metrics == {"resolving", "connecting", "duration", "sockets", "reads",
            "errors", "timeouts"}

(* A thread whose label is the name of an event is inside fire() for it. *)
Labels  == Events \cup
           {"none", "idle", "lock", "resolving", "dialing", "tls", "startRead",
            "resolvePromise", "handleError", "reject", "loop", "snapshot",
            "read", "afterRead", "destroy", "teardown", "closeConn", "cancel", "done"}

(* The labels between the entry and the exit of the function that          *)
(* destroyOnce guards.                                                     *)
InsideOnce == {"teardown", "closeConn", "close", "cancel"}

(* Where a connection goes, by the call whose options were used for it *)
Targets == [Connects -> [ip   : Connects \cup {None},
                         port : Connects \cup {None},
                         tls  : Connects \cup {None}]]

TypeOK ==
    /\ state \in States
    /\ conn \in Connects \cup {None}
    /\ connectOpts \in Connects \cup {None}
    /\ handlers \subseteq Events
    /\ mu \in Connects \cup {None}
    /\ once \in {"new", "running", "done"}
    /\ cancelled \in BOOLEAN
    /\ vuDone \in BOOLEAN
    /\ loop \in {"running", "stopped"}
    /\ sending \subseteq Threads
    /\ events \in Seq([name : Events, by : Threads])
    /\ handled \in Nat
    /\ totalRead \in Nat
    /\ timeouts \in Nat
    /\ samples \in [Metrics -> Nat]
    /\ live \subseteq Connects
    /\ closing \in Connects \cup {None}
    /\ promise \in [Connects \cup Invalid ->
                      {"none", "pending", "resolved", "rejected"}]
    /\ target \in Targets
    /\ endpoints \in [remote : Connects \cup {None}, local : Connects \cup {None}]
    /\ readConn \in [Connects -> Connects \cup {None}]
    /\ readErr \in [Connects -> {"nil", "eof", "timeout", "other"}]
    /\ pc \in [Threads -> Labels]

Init ==
    /\ state = "disconnected"
    /\ conn = None
    /\ connectOpts = None
    /\ handlers = {}
    /\ mu = None
    /\ once = "new"
    /\ cancelled = FALSE
    /\ vuDone = FALSE
    /\ loop = "running"
    /\ sending = {}
    /\ events = <<>>
    /\ handled = 0
    /\ totalRead = 0
    /\ timeouts = 0
    /\ samples = [m \in Metrics |-> 0]
    /\ live = {}
    /\ closing = None
    /\ promise = [c \in Connects \cup Invalid |-> "none"]
    /\ target = [c \in Connects |-> [ip |-> None, port |-> None, tls |-> None]]
    /\ endpoints = [remote |-> None, local |-> None]
    /\ readConn = [c \in Connects |-> None]
    /\ readErr = [c \in Connects |-> "nil"]
    /\ pc = [t \in Threads |-> IF t = Js THEN "idle" ELSE "none"]

-----------------------------------------------------------------------------
(* Helpers *)

Goto(t, label) == pc' = [pc EXCEPT ![t] = label]

(* metrics.PushIfNotDone *)
Push(m) == samples' = IF vuDone THEN samples
                      ELSE [samples EXCEPT ![m] = @ + 1]

Settle(c, outcome) == promise' = [promise EXCEPT ![c] = outcome]

(* The read lock that isReadable() and the getters take *)
Unlocked == mu = None

(* Mutant: any state of a socket that was connected will do. *)
NotDisconnected == state # "disconnected"

isReadable == state = "open"

(* The address accessors, undefined without a connection *)
remoteIP == IF conn = None THEN None ELSE endpoints.remote
localIP  == IF conn = None THEN None ELSE endpoints.local

(* What the event handlers of connect call c already told the script. *)
Announced(c) == \E i \in 1..handled : events[i].by = Connector(c)

(* Scripts.  "any" calls whatever it likes whenever it likes.  "awaits"    *)
(* leaves the socket alone until a pending connect() has settled or its    *)
(* connect or error handler has run.  "careful" also connects only a       *)
(* socket whose ready_state is disconnected.                               *)
CallAllowed ==
    Script # "any" =>
        \A c \in Connects : promise[c] = "pending" => Announced(c)

ConnectAllowed ==
    /\ CallAllowed
    /\ Script = "careful" => state = "disconnected"

-----------------------------------------------------------------------------
(* The script, on the VU event loop *)

(* Mutant: on() does not check the name of the event. *)
AnyName(e) == TRUE

(* on() ignores an unknown name. *)
KnownName(e) == e \in Events

(* on(): a second handler replaces the first. *)
JsOn(e) ==
    /\ pc[Js] = "idle"
    /\ KnownName(e)
    /\ e \notin handlers
    /\ handlers' = handlers \cup {e}
    /\ UNCHANGED <<state, conn, connectOpts, mu, once, cancelled, vuDone,
                   evtVars, ioVars, samples, promise, pc>>

(* Mutant: the options of the first call are kept. *)
KeepOptions(c) == connectOpts' = IF connectOpts = None THEN c ELSE connectOpts

(* connectPrepare(), with arguments it accepts: no lock is taken. *)
StoreOptions(c) == connectOpts' = c

(* connect() stores the options and starts the goroutine. *)
JsConnect(c) ==
    /\ pc[Js] = "idle"
    /\ promise[c] = "none"
    /\ ConnectAllowed
    /\ StoreOptions(c)
    /\ Settle(c, "pending")
    /\ Goto(Connector(c), "lock")
    /\ UNCHANGED <<state, conn, handlers, mu, once, cancelled, vuDone,
                   evtVars, ioVars, samples>>

(* connect() or write() whose prepare step fails: the error is reported    *)
(* from the event loop's own thread.                                       *)
JsInvalid(r) ==
    /\ pc[Js] = "idle"
    /\ promise[r] = "none"
    /\ Settle(r, "pending")
    /\ Goto(Js, "handleError")
    /\ UNCHANGED <<sockVars, vuDone, evtVars, ioVars, samples>>

JsDestroy ==
    /\ pc[Js] = "idle"
    /\ CallAllowed
    /\ Goto(Js, "destroy")
    /\ UNCHANGED <<sockVars, vuDone, evtVars, ioVars, samples, promise>>

(* The event loop runs the next queued event handler. *)
JsHandle ==
    /\ pc[Js] = "idle"
    /\ handled < Len(events)
    /\ handled' = handled + 1
    /\ UNCHANGED <<sockVars, vuDone, loop, sending, events, ioVars, samples,
                   promise, pc>>

-----------------------------------------------------------------------------
(* connectExecute() *)

(* The goroutine takes s.mu, which it keeps until it has dialled or        *)
(* failed, and reads the address to resolve from the stored options.       *)
Lock(c) ==
    /\ pc[Connector(c)] = "lock"
    /\ Unlocked
    /\ mu' = c
    /\ state' = "opening"
    /\ target' = [target EXCEPT ![c].ip = connectOpts]
    /\ Goto(Connector(c), "resolving")
    /\ UNCHANGED <<conn, connectOpts, handlers, once, cancelled, vuDone,
                   evtVars, totalRead, timeouts, live, closing, endpoints,
                   readConn, readErr, samples, promise>>

(* Mutant: an error return keeps s.mu. *)
ConnectFailsLocked(c) ==
    /\ state' = "disconnected"
    /\ Goto(Connector(c), "handleError")
    /\ UNCHANGED mu

(* The error returns of connectExecute(): back to disconnected, unlock,    *)
(* and on to rejectWithTCPError().  What s.conn holds is left alone.       *)
ConnectFails(c) ==
    /\ state' = "disconnected"
    /\ mu' = None
    /\ Goto(Connector(c), "handleError")

(* Mutant: the address of the first lookup is kept. *)
KeepRemote(c) ==
    endpoints' = IF endpoints.remote # None THEN endpoints
                 ELSE [endpoints EXCEPT !.remote = target[c].ip]

(* The remote address the socket reports is that of the last lookup. *)
RecordRemote(c) == endpoints' = [endpoints EXCEPT !.remote = target[c].ip]

(* resolve(): the port is read from the stored options after the lookup. *)
Resolve(c) ==
    /\ pc[Connector(c)] = "resolving"
    /\ Push("resolving")
    /\ \/ /\ target' = [target EXCEPT ![c].port = connectOpts]
          /\ RecordRemote(c)
          /\ Goto(Connector(c), "dialing")
          /\ UNCHANGED <<state, mu>>
       \/ /\ ConnectFails(c)
          /\ UNCHANGED <<target, endpoints>>
    /\ UNCHANGED <<conn, connectOpts, handlers, once, cancelled, vuDone,
                   evtVars, totalRead, timeouts, live, closing, readConn,
                   readErr, promise>>

(* dial(), first half: DialContext(). *)
Dial(c) ==
    /\ pc[Connector(c)] = "dialing"
    /\ \/ /\ live' = live \cup {c}
          /\ Goto(Connector(c), "tls")
          /\ UNCHANGED <<state, mu, samples>>
       \/ /\ ConnectFails(c)
          /\ Push("connecting")
          /\ UNCHANGED live
    /\ UNCHANGED <<conn, connectOpts, handlers, once, cancelled, vuDone,
                   evtVars, totalRead, timeouts, closing, target, endpoints,
                   readConn, readErr, promise>>

(* Mutant: the read goroutine is started before connect is fired. *)
ReadsEarly(c) ==
    pc' = [pc EXCEPT ![Connector(c)] = "connect", ![Reader(c)] = "loop"]

(* connectExecute() fires connect once it has released s.mu. *)
FiresConnect(c) == Goto(Connector(c), "connect")

(* What dial() stores of a connection *)
StoreConn(c) ==
    /\ target' = [target EXCEPT ![c].tls = connectOpts]
    /\ endpoints' = [endpoints EXCEPT !.local = c]
    /\ conn' = c

(* dial(), second half, when TLS is off or the handshake succeeds. *)
Established(c) ==
    /\ pc[Connector(c)] = "tls"
    /\ StoreConn(c)
    /\ state' = "open"
    /\ mu' = None
    /\ Push("connecting")
    /\ FiresConnect(c)
    /\ UNCHANGED <<connectOpts, handlers, once, cancelled, vuDone, evtVars,
                   totalRead, timeouts, live, closing, readConn, readErr,
                   promise>>

(* Mutant: wrapTLS() leaves the connection open. *)
LeaveOpen(c) == UNCHANGED live

CloseFailed(c) == live' = live \ {c}

(* wrapTLS() fails, for want of a TLS configuration or in the handshake:   *)
(* it closes the connection.                                               *)
HandshakeFails(c) ==
    /\ pc[Connector(c)] = "tls"
    /\ connectOpts \in TLSCalls
    /\ CloseFailed(c)
    /\ ConnectFails(c)
    /\ Push("connecting")
    /\ UNCHANGED <<conn, connectOpts, handlers, once, cancelled, vuDone,
                   evtVars, totalRead, timeouts, closing, target, endpoints,
                   readConn, readErr, promise>>

(* dial() stored the connection and then could not set its deadline. *)
DeadlineFails(c) ==
    /\ pc[Connector(c)] = "tls"
    /\ DeadlineMayFail
    /\ StoreConn(c)
    /\ ConnectFails(c)
    /\ Push("connecting")
    /\ UNCHANGED <<connectOpts, handlers, once, cancelled, vuDone, evtVars,
                   totalRead, timeouts, live, closing, readConn, readErr,
                   promise>>

(* go s.read(), once fire("connect") has returned *)
StartRead(c) ==
    /\ pc[Connector(c)] = "startRead"
    /\ pc' = [pc EXCEPT ![Connector(c)] = "resolvePromise",
                        ![Reader(c)] = "loop"]
    /\ UNCHANGED <<sockVars, vuDone, evtVars, ioVars, samples, promise>>

ResolvePromise(c) ==
    /\ pc[Connector(c)] = "resolvePromise"
    /\ Push("sockets")
    /\ Settle(c, "resolved")
    /\ Goto(Connector(c), "done")
    /\ UNCHANGED <<sockVars, vuDone, evtVars, ioVars>>

(* Mutant: an error that the error handler was given is not rejected too. *)
RejectUnhandledOnly(c) ==
    IF \E i \in 1..Len(events) : events[i].by = Connector(c)
    THEN UNCHANGED promise
    ELSE Settle(c, "rejected")

(* rejectWithTCPError() rejects whatever became of the error event. *)
RejectPromise(c) == Settle(c, "rejected")

Reject(c) ==
    /\ pc[Connector(c)] = "reject"
    /\ RejectPromise(c)
    /\ Goto(Connector(c), "done")
    /\ UNCHANGED <<sockVars, vuDone, evtVars, ioVars, samples>>

JsReject(r) ==
    /\ pc[Js] = "reject"
    /\ promise[r] = "pending"
    /\ RejectPromise(r)
    /\ Goto(Js, "idle")
    /\ UNCHANGED <<sockVars, vuDone, evtVars, ioVars, samples>>

-----------------------------------------------------------------------------
(* handleError(), fireAndCleanup() and loop() *)

(* The error is counted before the error event is fired. *)
HandleError(t) ==
    /\ pc[t] = "handleError"
    /\ Push("errors")
    /\ Goto(t, "error")
    /\ UNCHANGED <<sockVars, vuDone, evtVars, ioVars, promise>>

(* Where fire() returns to. *)
AfterFire(t) ==
    CASE pc[t] = "connect" -> "startRead"
      [] pc[t] = "data"    -> "afterRead"
      [] pc[t] = "timeout" -> "loop"
      [] pc[t] = "close"   -> "cancel"
      [] OTHER             -> IF t \in Readers THEN "destroy" ELSE "reject"

(* The handler is looked up; without one fire() returns at once. *)
Fire(t) ==
    /\ pc[t] \in Events
    /\ t \notin sending
    /\ IF pc[t] \in handlers
       THEN sending' = sending \cup {t} /\ UNCHANGED pc
       ELSE Goto(t, AfterFire(t)) /\ UNCHANGED sending
    /\ UNCHANGED <<sockVars, vuDone, loop, events, handled, ioVars, samples,
                   promise>>

(* The rendezvous on callChan, and tq.Queue() *)
Receive(t) ==
    /\ loop = "running"
    /\ t \in sending
    /\ events' = Append(events, [name |-> pc[t], by |-> t])
    /\ sending' = sending \ {t}
    /\ Goto(t, AfterFire(t))
    /\ UNCHANGED <<sockVars, vuDone, loop, handled, ioVars, samples, promise>>

(* Mutant: the select waits for the socket's context, not for the VU's. *)
SocketDone == cancelled

VuContextDone == vuDone

(* The other branch of the select *)
GiveUp(t) ==
    /\ VuContextDone
    /\ t \in sending
    /\ sending' = sending \ {t}
    /\ Goto(t, AfterFire(t))
    /\ UNCHANGED <<sockVars, vuDone, loop, events, handled, ioVars, samples,
                   promise>>

(* Mutant: loop() looks at the state of the socket. *)
StateDestroyed == state = "destroyed" \/ vuDone

(* The socket's context is a child of the VU's. *)
ContextDone == cancelled \/ vuDone

LoopStops ==
    /\ loop = "running"
    /\ ContextDone
    /\ loop' = "stopped"
    /\ UNCHANGED <<sockVars, vuDone, sending, events, handled, ioVars,
                   samples, promise, pc>>

(* k6 ends the VU. *)
VuStops ==
    /\ VuMayStop
    /\ ~vuDone
    /\ vuDone' = TRUE
    /\ UNCHANGED <<sockVars, evtVars, ioVars, samples, promise, pc>>

-----------------------------------------------------------------------------
(* read() and readLoopStep() *)

LoopTest(c) ==
    /\ pc[Reader(c)] = "loop"
    /\ Unlocked
    /\ Goto(Reader(c), IF isReadable THEN "snapshot" ELSE "destroy")
    /\ UNCHANGED <<sockVars, vuDone, evtVars, ioVars, samples, promise>>

(* conn is copied under a second, separate read lock. *)
Snapshot(c) ==
    /\ pc[Reader(c)] = "snapshot"
    /\ Unlocked
    /\ readConn' = [readConn EXCEPT ![c] = conn]
    /\ Goto(Reader(c), IF conn = None THEN "destroy" ELSE "read")
    /\ UNCHANGED <<sockVars, vuDone, evtVars, totalRead, timeouts, live,
                   closing, target, endpoints, readErr, samples, promise>>

ReadReturns(c, err) ==
    /\ pc[Reader(c)] = "read"
    /\ readErr' = [readErr EXCEPT ![c] = err]
    /\ UNCHANGED <<sockVars, vuDone, evtVars, live, closing, target,
                   endpoints, readConn, promise>>

(* conn.Read() returns bytes, possibly with an error (crypto/tls does). *)
ReadData(c, err) ==
    /\ ReadReturns(c, err)
    /\ readConn[c] \in live
    /\ totalRead < MaxReads
    /\ totalRead' = totalRead + 1
    /\ Push("reads")
    /\ Goto(Reader(c), "data")
    /\ UNCHANGED timeouts

(* conn.Read() returns only an error from the peer or the network. *)
ReadFails(c, err) ==
    /\ ReadReturns(c, err)
    /\ readConn[c] \in live
    /\ Goto(Reader(c), "afterRead")
    /\ UNCHANGED <<totalRead, timeouts, samples>>

(* conn.Read() runs into the read deadline. *)
ReadTimesOut(c) ==
    /\ ReadReturns(c, "timeout")
    /\ readConn[c] \in live
    /\ timeouts < MaxTimeouts
    /\ timeouts' = timeouts + 1
    /\ Goto(Reader(c), "afterRead")
    /\ UNCHANGED <<totalRead, samples>>

(* conn.Read() on a connection that was closed on this side *)
ReadClosed(c) ==
    /\ ReadReturns(c, "other")
    /\ readConn[c] \notin live
    /\ Goto(Reader(c), "afterRead")
    /\ UNCHANGED <<totalRead, timeouts, samples>>

(* What readLoopStep() makes of the error, if the socket is still open.    *)
(* Its local variables and those of the round of read() are dead by then.  *)
AfterRead(c) ==
    /\ pc[Reader(c)] = "afterRead"
    /\ Unlocked
    /\ Goto(Reader(c), IF ~isReadable THEN "destroy"
                       ELSE CASE readErr[c] = "eof"     -> "destroy"
                              [] readErr[c] = "nil"     -> "loop"
                              [] readErr[c] = "timeout" -> "timeout"
                              [] OTHER                  -> "handleError")
    /\ readConn' = [readConn EXCEPT ![c] = None]
    /\ readErr' = [readErr EXCEPT ![c] = "nil"]
    /\ UNCHANGED <<sockVars, vuDone, evtVars, totalRead, timeouts, live,
                   closing, target, endpoints, samples, promise>>

-----------------------------------------------------------------------------
(* destroy(), called by the script and deferred by read() *)

AfterDestroy(t) == IF t = Js THEN "idle" ELSE "done"

(* Mutant: a flag that is set at the end stands for the sync.Once. *)
NotYetDone == once # "done"

FirstCall == once = "new"

(* destroyOnce.Do(): the first caller runs the function, a caller that     *)
(* comes while it runs waits, a later one returns.                         *)
EnterOnce(t) ==
    /\ pc[t] = "destroy"
    /\ \/ /\ FirstCall
          /\ once' = "running"
          /\ Goto(t, "teardown")
       \/ /\ once = "done"
          /\ Goto(t, AfterDestroy(t))
          /\ UNCHANGED once
    /\ UNCHANGED <<state, conn, connectOpts, handlers, mu, cancelled, vuDone,
                   evtVars, ioVars, samples, promise>>

(* Mutants: s.conn is not cleared; the socket goes back to disconnected. *)
KeepConn == closing' = conn /\ UNCHANGED conn

Disconnect == state' = "disconnected"

TakeConn == closing' = conn /\ conn' = None

SetDestroyed == state' = "destroyed"

(* The section under s.mu *)
Teardown(t) ==
    /\ pc[t] = "teardown"
    /\ Unlocked
    /\ SetDestroyed
    /\ TakeConn
    /\ Goto(t, "closeConn")
    /\ UNCHANGED <<connectOpts, handlers, mu, once, cancelled, vuDone,
                   evtVars, totalRead, timeouts, live, target, endpoints,
                   readConn, readErr, samples, promise>>

(* Mutants: the connection is not closed; its duration is not reported. *)
OnlyCount == UNCHANGED live /\ Push("duration")

OnlyClose == live' = live \ {closing} /\ UNCHANGED samples

(* conn.Close() and tcp_socket_duration, outside the lock *)
Release == live' = live \ {closing} /\ Push("duration")

CloseConn(t) ==
    /\ pc[t] = "closeConn"
    /\ IF closing = None THEN UNCHANGED <<live, samples>> ELSE Release
    /\ Goto(t, "close")
    /\ UNCHANGED <<sockVars, vuDone, evtVars, totalRead, timeouts, closing,
                   target, endpoints, readConn, readErr, promise>>

(* s.cancel(), and the return from destroyOnce.Do() *)
Cancel(t) ==
    /\ pc[t] = "cancel"
    /\ cancelled' = TRUE
    /\ once' = "done"
    /\ Goto(t, AfterDestroy(t))
    /\ UNCHANGED <<state, conn, connectOpts, handlers, mu, vuDone, evtVars,
                   ioVars, samples, promise>>

-----------------------------------------------------------------------------
ScriptStep ==
    \/ \E e \in ScriptEvents : JsOn(e)
    \/ \E c \in Connects : JsConnect(c)
    \/ \E r \in Invalid : JsInvalid(r)
    \/ JsDestroy

ConnectStep(c) ==
    \/ Lock(c) \/ Resolve(c) \/ Dial(c)
    \/ Established(c) \/ HandshakeFails(c) \/ DeadlineFails(c)
    \/ StartRead(c) \/ ResolvePromise(c) \/ Reject(c)

(* What the peer and the network do to a pending read *)
PeerStep(c) ==
    \/ \E err \in {"nil", "eof", "other"} : ReadData(c, err)
    \/ \E err \in {"eof", "other"} : ReadFails(c, err)
    \/ ReadTimesOut(c)

ReadStep(c) == LoopTest(c) \/ Snapshot(c) \/ ReadClosed(c) \/ AfterRead(c)

DestroyStep(t) == EnterOnce(t) \/ Teardown(t) \/ CloseConn(t) \/ Cancel(t)

FireStep(t) == HandleError(t) \/ Fire(t) \/ Receive(t) \/ GiveUp(t)

Next ==
    \/ ScriptStep
    \/ JsHandle
    \/ \E r \in Invalid : JsReject(r)
    \/ \E c \in Connects : ConnectStep(c) \/ PeerStep(c) \/ ReadStep(c)
    \/ \E t \in Threads : DestroyStep(t) \/ FireStep(t)
    \/ LoopStops
    \/ VuStops

Spec == Init /\ [][Next]_vars

(* Goroutines that can run do run, and name lookup and dialling end.  The  *)
(* VU's event loop runs its queue in order and a task of the script is     *)
(* finite, so that a queued handler gets its turn whatever other tasks     *)
(* call in between: strong fairness.  Nothing makes the script call, the   *)
(* peer send, or the VU stop.                                              *)
Fairness ==
    /\ SF_vars(JsHandle)
    /\ WF_vars(\E r \in Invalid : JsReject(r))
    /\ WF_vars(LoopStops)
    /\ \A c \in Connects : WF_vars(ConnectStep(c)) /\ WF_vars(ReadStep(c))
    /\ \A t \in Threads : WF_vars(DestroyStep(t)) /\ WF_vars(FireStep(t))

FairSpec == Spec /\ Fairness

-----------------------------------------------------------------------------
(* Safety: any script *)

(* s.conn, whenever it is set, is a connection that is not closed on this  *)
(* side, an open socket has one, and a destroyed socket has none: what     *)
(* read() and write() copy under the lock is never a connection destroy()  *)
(* has closed already.                                                     *)
HoldsLiveConn ==
    /\ conn # None => conn \in live
    /\ state = "open" => conn # None
    /\ state = "destroyed" => conn = None

Named(i, e) == events[i].name = e
Sent(i, t)  == events[i].by = t

CloseQueued == \E i \in 1..Len(events) : Named(i, "close")

(* However many threads race into destroy(), at most one close event is    *)
(* queued for the script.                                                  *)
CloseOnce ==
    \A i, j \in 1..Len(events) : Named(i, "close") /\ Named(j, "close") => i = j

(* By the time a close event is queued, destroy() has closed the           *)
(* connection it took from the socket.                                     *)
CloseAfterRelease ==
    (\E i \in 1..Len(events) : Named(i, "close")) => closing \notin live

(* connectExecute() fires connect before it starts the read goroutine: no  *)
(* event of that goroutine is queued before the connect event.             *)
ConnectBeforeReads ==
    \A c \in Connects : \A i, j \in 1..Len(events) :
        Sent(i, Connector(c)) /\ Sent(j, Reader(c)) => i < j

(* A reader that was about to fire when destroy() fired close may queue    *)
(* that one event after close.  Then it finds the socket destroyed, unless *)
(* a connect() has reopened it, and no second event follows.               *)
FewAfterClose ==
    state = "destroyed" =>
        \A c \in Connects : \A i, j, k \in 1..Len(events) :
            Named(i, "close") /\ Sent(j, Reader(c)) /\ Sent(k, Reader(c))
                => ~(i < j /\ j < k)

-----------------------------------------------------------------------------
(* Why they hold: the parts of the inductive invariant                     *)

(* Control.  Only a thread inside fire() waits on callChan, a connect call *)
(* has one goroutine, and that goroutine is past its connect event before  *)
(* its read goroutine exists.                                              *)
SendersFire == \A t \in sending : pc[t] \in Events

OneGoroutinePerCall ==
    \A c \in Connects : promise[c] = "none" => pc[Connector(c)] = "none"

ReaderAfterConnect ==
    \A c \in Connects :
        pc[Reader(c)] # "none" => pc[Connector(c)] \in {"resolvePromise", "done"}

ControlInv == TypeOK /\ SendersFire /\ OneGoroutinePerCall /\ ReaderAfterConnect

(* destroyOnce.  One thread at a time is inside, and only while it runs;   *)
(* the close event is queued at the end of it.                             *)
OnceIsHeld ==
    /\ \A t \in Threads : pc[t] \in InsideOnce => once = "running"
    /\ \A t, u \in Threads :
          pc[t] \in InsideOnce /\ pc[u] \in InsideOnce => t = u

CloseByOnce ==
    (\E i \in 1..Len(events) : Named(i, "close"))
        => once = "done" \/ \E t \in Threads : pc[t] = "cancel"

OnceInv == OnceIsHeld /\ CloseByOnce /\ CloseOnce

(* Connections.  What s.conn or destroy() holds was stored by a goroutine  *)
(* that is past dial(), so that it is neither the other one's nor one that *)
(* is about to be dialled.                                                 *)
Stored(c) == pc[Connector(c)] \notin {"none", "lock", "resolving", "dialing", "tls"}

ConnIsStored ==
    /\ conn # None => Stored(conn) /\ conn # closing
    /\ closing # None => Stored(closing)

DialledIsLive == \A c \in Connects : pc[Connector(c)] = "tls" => c \in live

ReleasedAtClose ==
    once = "done" \/ (\E t \in Threads : pc[t] \in {"close", "cancel"})
        => closing \notin live

ConnInv == ConnIsStored /\ DialledIsLive /\ ReleasedAtClose /\ HoldsLiveConn

(* Events.  A read goroutine that has queued something has been started. *)
QueuedWhenStarted ==
    \A c \in Connects : \A i \in 1..Len(events) :
        Sent(i, Reader(c)) => pc[Reader(c)] # "none"

OrderInv == QueuedWhenStarted /\ ConnectBeforeReads

(* connectExecute() keeps s.mu from the moment it sets "opening" until it  *)
(* has replaced it.                                                        *)
OpeningIsLocked == state = "opening" => mu # None

IInv == ControlInv /\ OnceInv /\ ConnInv /\ OrderInv /\ OpeningIsLocked

-----------------------------------------------------------------------------
(* Safety: scripts that are careful *)

(* destroy() leaves no connection of the socket open. *)
NoLeak == once = "done" => live = {}

(* A connection is dialled with the host, the port and the TLS flag of the *)
(* call of connect() it is for.                                            *)
DialTarget ==
    \A c \in Connects :
        target[c].tls # None => target[c] = [ip |-> c, port |-> c, tls |-> c]

(* The addresses a socket reports are those of the connection it holds,    *)
(* never what an earlier attempt left behind.                              *)
EndpointsMatch == Unlocked => remoteIP = conn /\ localIP = conn

(* A socket has one read goroutine at a time: s.readBuf, which they would  *)
(* share, is not locked.                                                   *)
OneReader ==
    \A c, d \in Connects :
        /\ pc[Reader(c)] \in {"snapshot", "read", "data"}
        /\ pc[Reader(d)] \in {"snapshot", "read", "data"}
        => c = d

(* A close event never overtakes the connect event. *)
ConnectBeforeClose ==
    \A i, j \in 1..Len(events) :
        Named(i, "connect") /\ Named(j, "close") => i < j

(* When a socket is destroyed and all its goroutines have ended, it has    *)
(* reported one duration for each connection it has counted.               *)
SocketAccounting ==
    /\ once = "done"
    /\ ~vuDone
    /\ \A t \in Threads : pc[t] \in {"none", "idle", "done"}
    => samples["duration"] = samples["sockets"]

(* destroyed is the last state. *)
DestroyedIsFinal == [][state = "destroyed" => state' = "destroyed"]_vars

-----------------------------------------------------------------------------
(* Liveness *)

(* The promises that connect() returns are resolved or rejected: at some   *)
(* later time none is pending.                                             *)
ConnectSettles == []<>(\A c \in Connects : promise[c] # "pending")

(* A destroy() that has begun ends, and with it every destroy() that waits *)
(* for it.                                                                 *)
DestroyCompletes == once = "running" ~> once = "done"

(* A refused call fires its error event from the event loop's own thread:  *)
(* once the loop has stopped, it waits there for the end of the VU.        *)
BlockedByError == pc[Js] = "error" /\ Js \in sending /\ loop = "stopped"

(* No other call of the script blocks the VU's event loop for ever. *)
ScriptReturns == pc[Js] # "idle" ~> pc[Js] = "idle" \/ BlockedByError

(* The close handler runs, unless the VU ends first or its event loop is   *)
(* blocked.                                                                *)
CloseHandled ==
    (\E t \in sending : pc[t] = "close")
        ~> \/ vuDone \/ BlockedByError
           \/ \E i \in 1..handled : Named(i, "close")

(* A thread blocked on callChan is released when the VU ends. *)
VuReleasesSenders ==
    \A t \in Threads : vuDone /\ t \in sending ~> t \notin sending

(* Once destroy() is done, the socket's goroutines end. *)
GoroutinesEnd ==
    once = "done" ~>
        \A t \in Connectors \cup Readers : pc[t] \in {"none", "done"}
=============================================================================
