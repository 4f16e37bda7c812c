------------------------------ MODULE WithEcho ------------------------------
(***************************************************************************)
(* tools/with-echo: a command is run with the echo servers up and their    *)
(* addresses in its environment, signals are forwarded to it, and the      *)
(* servers are stopped when it has ended.                                  *)
(***************************************************************************)
EXTENDS EchoServer

CONSTANT MaxSignals   \* bound: SIGINT and SIGTERM that the tool is sent

ASSUME SignalAssumption == MaxSignals \in Nat

VARIABLES
    child,      \* the command's process
    got,        \* signals the command was sent
    sent,       \* signals the tool was sent
    notify,     \* signal.Notify() is in effect: signals do not kill the tool
    sigChan,    \* signals in the channel, whose capacity is one
    forwarder,  \* handleSignals()
    finished    \* Run()'s channel done is closed

runVars == <<child, got, sent, notify, sigChan, forwarder, finished>>
vars    == <<srvVars, runVars>>

TypeOK ==
    /\ EchoTypeOK
    /\ child \in {"none", "running", "ended"}
    /\ got \in 0..MaxSignals
    /\ sent \in 0..MaxSignals
    /\ notify \in BOOLEAN
    /\ sigChan \in 0..1
    /\ forwarder \in {"none", "select", "ended"}
    /\ finished \in BOOLEAN

Init ==
    /\ EchoInit
    /\ child = "none"
    /\ got = 0
    /\ sent = 0
    /\ notify = FALSE
    /\ sigChan = 0
    /\ forwarder = "none"
    /\ finished = FALSE

MoveTo(place) == at' = place /\ UNCHANGED <<owner, env, tcpVars, webVars>>

-----------------------------------------------------------------------------
(* run() and Run() *)

(* Without a command there is nothing to do. *)
Args ==
    /\ at = "args"
    /\ MoveTo("listenTCP") \/ MoveTo("exited")
    /\ UNCHANGED runVars

(* Mutant: signals keep their default action. *)
NotifyNothing == UNCHANGED notify

SubscribeSignals == notify' = TRUE

Notify ==
    /\ at = "notify"
    /\ SubscribeSignals
    /\ MoveTo("command")
    /\ UNCHANGED <<child, got, sent, sigChan, forwarder, finished>>

(* cmd.Start(), and go cr.handleSignals(); if the command cannot be        *)
(* started, the deferred Shutdown() follows.                               *)
Command ==
    /\ at = "command"
    /\ \/ /\ child' = "running"
          /\ forwarder' = "select"
          /\ MoveTo("wait")
       \/ /\ MoveTo("closeDone")
          /\ UNCHANGED <<child, forwarder>>
    /\ UNCHANGED <<got, sent, notify, sigChan, finished>>

(* Mutant: the tool does not wait for a command it has signalled. *)
EndedOrSignalled == child = "ended" \/ got > 0

Ended == child = "ended"

(* waitForCommand() *)
WaitForCommand ==
    /\ at = "wait"
    /\ Ended
    /\ MoveTo("unsubscribe")
    /\ UNCHANGED runVars

(* signal.Stop() and close(done); the deferred Shutdown() follows. *)
Unsubscribe ==
    /\ at = "unsubscribe"
    /\ notify' = FALSE
    /\ finished' = TRUE
    /\ MoveTo("closeDone")
    /\ UNCHANGED <<child, got, sent, sigChan, forwarder>>

-----------------------------------------------------------------------------
(* Signals, and the command *)

(* Without Notify() a signal kills the tool; with it, it is dropped if the *)
(* channel is full.                                                        *)
Signal ==
    /\ owner = "tool"
    /\ ~Gone
    /\ sent < MaxSignals
    /\ sent' = sent + 1
    /\ IF notify
       THEN sigChan' = 1 /\ UNCHANGED srvVars
       ELSE MoveTo("killed") /\ UNCHANGED sigChan
    /\ UNCHANGED <<child, got, notify, forwarder, finished>>

(* Mutant: one signal is forwarded. *)
StopForwarding == forwarder' = "ended"

KeepForwarding == UNCHANGED forwarder

(* handleSignals(); a command that has ended cannot be signalled. *)
Forward ==
    /\ ~Gone
    /\ forwarder = "select"
    /\ sigChan = 1
    /\ sigChan' = 0
    /\ got' = IF child = "running" THEN got + 1 ELSE got
    /\ KeepForwarding
    /\ UNCHANGED <<srvVars, child, sent, notify, finished>>

ForwarderEnds ==
    /\ ~Gone
    /\ forwarder = "select"
    /\ finished
    /\ forwarder' = "ended"
    /\ UNCHANGED <<srvVars, child, got, sent, notify, sigChan, finished>>

ChildEnds ==
    /\ child = "running"
    /\ child' = "ended"
    /\ UNCHANGED <<srvVars, got, sent, notify, sigChan, forwarder, finished>>

-----------------------------------------------------------------------------
RunStep == Args \/ Notify \/ Command \/ WaitForCommand \/ Unsubscribe

ForwardStep == Forward \/ ForwarderEnds

Next ==
    \/ EchoNext /\ UNCHANGED runVars
    \/ RunStep \/ ForwardStep
    \/ Signal \/ ChildEnds

Spec == Init /\ [][Next]_vars

FairSpec ==
    /\ Spec
    /\ EchoFairness
    /\ WF_vars(RunStep)
    /\ WF_vars(ForwardStep)

-----------------------------------------------------------------------------
(* While the command runs, its environment is complete and nobody has      *)
(* stopped a server under it: the TCP server accepts, and so does the HTTP *)
(* server unless its own Serve() has failed.                               *)
CommandIsServed ==
    child = "running" =>
        /\ env = Variables
        /\ listener = "open" /\ acceptor \in {"accept", "accepted", "failed"}
        /\ serving # "failed" => web = "open" /\ serving \in {"starting", "serving"}

(* No signal ends the tool before its command: the command is never left   *)
(* behind.                                                                 *)
NoOrphan == Gone => child # "running"

(* A signal that comes while the command runs is forwarded to it, or the   *)
(* command ends before that; a second one may be dropped only if the first *)
(* is still to be forwarded.                                               *)
SignalsForwarded == sigChan = 1 /\ child = "running" ~> sigChan = 0 \/ child = "ended"
=============================================================================
