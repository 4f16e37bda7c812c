----------------------------- MODULE EchoServer -----------------------------
(***************************************************************************)
(* The embedded echo servers: a TCP server that counts its goroutines in a *)
(* WaitGroup, an HTTP server that net/http manages, and the process that   *)
(* owns them, which creates, starts, exports and stops the two in turn.    *)
(* The owner is the main function of the tests, through Setup(), or the    *)
(* with-echo tool, whose own part is in module WithEcho.                   *)
(***************************************************************************)
EXTENDS Naturals, FiniteSets

CONSTANTS
    Conns,      \* connections that clients open to the TCP server
    Variables   \* how many environment variables Setenv() exports

ASSUME EchoAssumption == IsFiniteSet(Conns) /\ Variables \in Nat \ {0}

VARIABLES
    owner,      \* "tool" or "tests"
    at,         \* where the owner is
    env,        \* variables exported
    listener,   \* the TCP listener
    done,       \* s.done is closed
    wg,         \* s.wg
    acceptor,   \* acceptConnections()
    accepted,   \* its local variable conn, as a set of at most one
    handler,    \* per connection, from dialling to handleConnection()'s end
    web,        \* the HTTP listener
    serving,    \* the goroutine of HTTPServer.Start()
    busy,       \* the HTTP server has a request in progress
    down        \* server.Shutdown() was called

tcpVars == <<listener, done, wg, acceptor, accepted, handler>>
webVars == <<web, serving, busy, down>>
srvVars == <<owner, at, env, tcpVars, webVars>>

Listener == {"none", "open", "closed"}

(* What the owner does, in the order of the code: New, Start, Setenv, the  *)
(* tool's Run, and Stop.                                                   *)
Places == {"args", "listenTCP", "listenHTTP", "start", "setenv", "notify", "command",
           "wait", "unsubscribe", "run", "closeDone", "closeListener", "join",
           "shutdown", "drain", "exited", "killed"}

Gone == at \in {"exited", "killed"}

EchoTypeOK ==
    /\ owner \in {"tool", "tests"}
    /\ at \in Places
    /\ env \in 0..Variables
    /\ listener \in Listener
    /\ done \in BOOLEAN
    /\ wg \in Nat
    /\ acceptor \in {"none", "accept", "accepted", "failed", "ended"}
    /\ accepted \subseteq Conns /\ Cardinality(accepted) <= 1
    /\ handler \in [Conns -> {"none", "dialled", "reset", "echo", "close", "ended"}]
    /\ web \in Listener
    /\ serving \in {"none", "starting", "serving", "failed", "ended"}
    /\ busy \in BOOLEAN
    /\ down \in BOOLEAN

EchoInit ==
    /\ owner \in {"tool", "tests"}
    /\ at = IF owner = "tool" THEN "args" ELSE "listenTCP"
    /\ env = 0
    /\ listener = "none"
    /\ done = FALSE
    /\ wg = 0
    /\ acceptor = "none"
    /\ accepted = {}
    /\ handler = [k \in Conns |-> "none"]
    /\ web = "none"
    /\ serving = "none"
    /\ busy = FALSE
    /\ down = FALSE

-----------------------------------------------------------------------------
(* The owner: New(), Start(), Setenv() *)

(* New(), first half: NewTCPServer() *)
ListenTCP ==
    /\ at = "listenTCP"
    /\ \/ listener' = "open" /\ at' = "listenHTTP"
       \/ UNCHANGED listener /\ at' = "exited"
    /\ UNCHANGED <<owner, env, done, wg, acceptor, accepted, handler, webVars>>

(* New(), second half: NewHTTPServer(); if that fails, the TCP server is   *)
(* stopped.  The tool starts the servers and then exports their addresses, *)
(* Setup() the other way round.                                            *)
ListenHTTP ==
    /\ at = "listenHTTP"
    /\ \/ web' = "open" /\ at' = IF owner = "tool" THEN "start" ELSE "setenv"
       \/ UNCHANGED web /\ at' = "closeDone"
    /\ UNCHANGED <<owner, env, tcpVars, serving, busy, down>>

(* Start(): the goroutine that accepts is counted before it runs. *)
StartServers ==
    /\ at = "start"
    /\ wg' = wg + 1
    /\ acceptor' = "accept"
    /\ serving' = "starting"
    /\ at' = IF owner = "tool" THEN "setenv" ELSE "run"
    /\ UNCHANGED <<owner, env, listener, done, accepted, handler, web, busy, down>>

(* Mutant: an error of os.Setenv() is logged. *)
AfterSetenvAnyway == IF owner = "tool" THEN "notify" ELSE "start"

(* An error ends the process: NewCommandRunner() fails, Setup() panics. *)
AfterSetenv ==
    IF env' < Variables THEN "exited" ELSE IF owner = "tool" THEN "notify" ELSE "start"

Setenv ==
    /\ at = "setenv"
    /\ env' \in 0..Variables
    /\ at' = AfterSetenv
    /\ UNCHANGED <<owner, tcpVars, webVars>>

(* The tests run, between Setup() and Stop(). *)
TestsEnd ==
    /\ at = "run"
    /\ at' = "closeDone"
    /\ UNCHANGED <<owner, env, tcpVars, webVars>>

-----------------------------------------------------------------------------
(* The owner: Stop() *)

CloseDone ==
    /\ at = "closeDone"
    /\ done' = TRUE
    /\ at' = "closeListener"
    /\ UNCHANGED <<owner, env, listener, wg, acceptor, accepted, handler, webVars>>

(* A connection that nobody has accepted is reset. *)
CloseListener ==
    /\ at = "closeListener"
    /\ listener' = "closed"
    /\ handler' = [k \in Conns |-> IF handler[k] = "dialled" THEN "reset" ELSE handler[k]]
    /\ at' = "join"
    /\ UNCHANGED <<owner, env, done, wg, acceptor, accepted, webVars>>

(* s.wg.Wait(); after a failed New() there is no HTTP server to stop. *)
Join ==
    /\ at = "join"
    /\ wg = 0
    /\ at' = IF web = "none" THEN "exited" ELSE "shutdown"
    /\ UNCHANGED <<owner, env, tcpVars, webVars>>

(* Shutdown() closes the listener that Serve() has registered. *)
Shutdown ==
    /\ at = "shutdown"
    /\ down' = TRUE
    /\ web' = IF serving = "serving" THEN "closed" ELSE web
    /\ at' = "drain"
    /\ UNCHANGED <<owner, env, tcpVars, serving, busy>>

(* Mutant: Shutdown() is given no deadline. *)
Idle == ~busy

(* Shutdown() waits until the server is idle or five seconds have passed,  *)
(* which, time not being modelled, may be at any moment.                   *)
IdleOrExpired == TRUE

Drain ==
    /\ at = "drain"
    /\ IdleOrExpired
    /\ at' = "exited"
    /\ UNCHANGED <<owner, env, tcpVars, webVars>>

-----------------------------------------------------------------------------
(* acceptConnections() and handleConnection() *)

Dial(k) ==
    /\ ~Gone
    /\ listener = "open"
    /\ handler[k] = "none"
    /\ handler' = [handler EXCEPT ![k] = "dialled"]
    /\ UNCHANGED <<owner, at, env, listener, done, wg, acceptor, accepted, webVars>>

Accept(k) ==
    /\ ~Gone
    /\ acceptor = "accept"
    /\ handler[k] = "dialled"
    /\ accepted' = {k}
    /\ acceptor' = "accepted"
    /\ UNCHANGED <<owner, at, env, listener, done, wg, handler, webVars>>

(* The listener is closed, or the system is out of something. *)
AcceptFails ==
    /\ ~Gone
    /\ acceptor = "accept"
    /\ acceptor' = "failed"
    /\ UNCHANGED <<owner, at, env, listener, done, wg, accepted, handler, webVars>>

(* Mutant: the goroutine counts itself. *)
CountLater == UNCHANGED wg

CountHandler == wg' = wg + 1

(* s.wg.Add(1), and the goroutine is started.  Even a connection that came *)
(* just before the listener was closed is served.                          *)
Spawn(k) ==
    /\ ~Gone
    /\ acceptor = "accepted"
    /\ k \in accepted
    /\ CountHandler
    /\ handler' = [handler EXCEPT ![k] = "echo"]
    /\ accepted' = {}
    /\ acceptor' = "accept"
    /\ UNCHANGED <<owner, at, env, listener, done, webVars>>

(* The select after an error of Accept() *)
AcceptorGoesOn ==
    /\ ~Gone
    /\ acceptor = "failed"
    /\ IF done THEN acceptor' = "ended" /\ wg' = wg - 1
               ELSE acceptor' = "accept" /\ UNCHANGED wg
    /\ UNCHANGED <<owner, at, env, listener, done, accepted, handler, webVars>>

(* io.Copy() ends with the client, or at the deadline after five seconds;  *)
(* the goroutine is done before the connection is closed.                  *)
EchoEnds(k) ==
    /\ ~Gone
    /\ handler[k] = "echo"
    /\ handler' = [handler EXCEPT ![k] = "close"]
    /\ wg' = wg - 1
    /\ UNCHANGED <<owner, at, env, listener, done, acceptor, accepted, webVars>>

CloseConn(k) ==
    /\ ~Gone
    /\ handler[k] = "close"
    /\ handler' = [handler EXCEPT ![k] = "ended"]
    /\ UNCHANGED <<owner, at, env, listener, done, wg, acceptor, accepted, webVars>>

-----------------------------------------------------------------------------
(* Serve(), and a request *)

(* Serve() registers the listener, or finds the server shut down already   *)
(* and closes it.                                                          *)
Serve ==
    /\ ~Gone
    /\ serving = "starting"
    /\ serving' = IF down THEN "ended" ELSE "serving"
    /\ web' = IF down THEN "closed" ELSE web
    /\ UNCHANGED <<owner, at, env, tcpVars, busy, down>>

(* Accept() fails for good, and Serve() closes its listener.  Start() logs  *)
(* the error and nothing more.                                             *)
ServeFails ==
    /\ ~Gone
    /\ serving = "serving"
    /\ ~down
    /\ serving' = "failed"
    /\ web' = "closed"
    /\ UNCHANGED <<owner, at, env, tcpVars, busy, down>>

(* http.ErrServerClosed *)
ServeReturns ==
    /\ ~Gone
    /\ serving = "serving"
    /\ down
    /\ serving' = "ended"
    /\ UNCHANGED <<owner, at, env, tcpVars, web, busy, down>>

Request ==
    /\ ~Gone
    /\ busy \/ (serving = "serving" /\ web = "open")
    /\ busy' = ~busy
    /\ UNCHANGED <<owner, at, env, tcpVars, web, serving, down>>

-----------------------------------------------------------------------------
StopStep == CloseDone \/ CloseListener \/ Join \/ Shutdown \/ Drain

OwnerStep == ListenTCP \/ ListenHTTP \/ StartServers \/ Setenv \/ StopStep

AcceptStep ==
    \/ \E k \in Conns : Accept(k) \/ Spawn(k)
    \/ AcceptFails \/ AcceptorGoesOn

HandlerStep(k) == EchoEnds(k) \/ CloseConn(k)

ServeStep == Serve \/ ServeFails \/ ServeReturns

EchoNext ==
    \/ OwnerStep \/ TestsEnd
    \/ AcceptStep
    \/ \E k \in Conns : Dial(k) \/ HandlerStep(k)
    \/ ServeStep \/ Request

(* Goroutines run when they can, and the deadlines of five seconds pass.   *)
(* Nothing makes a client connect, or hang up.                             *)
EchoFairness ==
    /\ WF_srvVars(OwnerStep)
    /\ WF_srvVars(\/ listener = "closed" /\ AcceptFails
                  \/ AcceptorGoesOn
                  \/ \E k \in Conns : Spawn(k))
    /\ \A k \in Conns : WF_srvVars(HandlerStep(k))

-----------------------------------------------------------------------------
(* When Stop() returns from the TCP server, or New() has failed, nothing   *)
(* listens, nothing is accepted and nothing is echoed any more: no         *)
(* goroutine escapes the WaitGroup, however the last accepted connections  *)
(* race with it.                                                           *)
StopWaits ==
    at \in {"shutdown", "drain", "exited"} /\ (done \/ web = "none") =>
        /\ listener # "open"
        /\ acceptor \in {"none", "ended"}
        /\ \A k \in Conns : handler[k] # "echo"

(* Stop() returns, although clients may keep their connections open and    *)
(* requests may hang.                                                      *)
StopReturns == at = "closeDone" ~> Gone
=============================================================================
