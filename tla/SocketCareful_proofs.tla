------------------------ MODULE SocketCareful_proofs ------------------------
(***************************************************************************)
(* Proofs about Socket for scripts that are careful, and for connections   *)
(* whose read deadline can be set: any number of calls, any behaviour of   *)
(* the peer, the network and the VU.                                       *)
(***************************************************************************)
EXTENDS Socket_proofs, SocketContract

(* A call of connect() that the script has not been told the outcome of *)
Pending == {"lock", "resolving", "dialing", "tls", "connect", "handleError", "error"}

Attempting(c) == pc[Connector(c)] \in Pending

Succeeded(c) ==
    \/ pc[Connector(c)] \in {"connect", "startRead", "resolvePromise"}
    \/ pc[Connector(c)] = "done" /\ promise[c] = "resolved"

Destroying == {"destroy"} \cup InsideOnce

(* Where each kind of thread can be *)
JsPlaces     == {"idle", "handleError", "error", "reject", "destroy"}
ReaderPlaces == {"loop", "snapshot", "read", "data", "afterRead", "timeout",
                 "handleError", "error", "destroy", "done"}

PlacesInv ==
    /\ pc[Js] \in JsPlaces \cup InsideOnce
    /\ \A c \in Connects :
          /\ pc[Connector(c)] \in Pending \cup
                {"none", "startRead", "resolvePromise", "reject", "done"}
          /\ pc[Reader(c)] \in {"none"} \cup ReaderPlaces \cup InsideOnce

(* What the script was told, which is what it goes by *)
ToldInv ==
    /\ handled <= Len(events)
    /\ \A c \in Connects :
          /\ Attempting(c) => promise[c] = "pending"
          /\ \A i \in 1..Len(events) :
                Sent(i, Connector(c)) => pc[Connector(c)] \notin Pending \cup {"none"}

(* A careful script has one attempt at a time, one that succeeds, and no   *)
(* other business with the socket until it knows.                          *)
AloneInv ==
    /\ \A c \in Connects : Attempting(c) =>
          /\ once = "new" /\ pc[Js] \notin Destroying
          /\ \A d \in Connects :
                /\ d # c => ~Attempting(d) /\ ~Succeeded(d)
                /\ pc[Reader(d)] = "none"
    /\ \A c, d \in Connects : Succeeded(c) /\ Succeeded(d) => c = d
    /\ \A c \in Connects : pc[Reader(c)] # "none" => Succeeded(c)

(* The state of the socket follows from where the goroutines are. *)
StateInv ==
    /\ \A c \in Connects :
          /\ pc[Connector(c)] = "lock" => state = "disconnected"
          /\ pc[Connector(c)] \in {"resolving", "dialing", "tls"} => state = "opening" /\ mu = c
          /\ Succeeded(c) => state \in {"open", "destroyed"}
    /\ mu # None => pc[Connector(mu)] \in {"resolving", "dialing", "tls"}
    /\ once = "running" => \E t \in Threads : pc[t] \in InsideOnce
    /\ \A t \in Threads :
          /\ pc[t] = "teardown" => state # "destroyed"
          /\ pc[t] \in {"closeConn", "close", "cancel"} => state = "destroyed"
    /\ once = "new" => state # "destroyed"
    /\ once = "done" => state = "destroyed"

(* What is open is what the state says. *)
OpenInv ==
    /\ conn # None => Succeeded(conn)
    /\ state \in {"disconnected", "opening"} => conn = None
    /\ state # "destroyed" => closing = None
    /\ state = "disconnected" => live = {}
    /\ \A c \in Connects : /\ pc[Connector(c)] \in {"resolving", "dialing"} => live = {}
                           /\ pc[Connector(c)] = "tls" => live = {c}
    /\ state = "open" => live = {conn}
    /\ state = "destroyed" => live \subseteq {closing}
    /\ \A t \in Threads : pc[t] = "closeConn" /\ closing # None => live = {closing}

(* Which options and addresses are used *)
TargetInv ==
    /\ \A c \in Connects :
          /\ pc[Connector(c)] \in {"lock", "resolving", "dialing", "tls"} => connectOpts = c
          /\ pc[Connector(c)] \in {"none", "lock", "resolving", "dialing", "tls"}
                => target[c].tls = None
          /\ pc[Connector(c)] \in {"resolving", "dialing", "tls"} => target[c].ip = c
          /\ pc[Connector(c)] \in {"dialing", "tls"}
                => target[c].port = c /\ endpoints.remote = c
    /\ DialTarget
    /\ conn # None => endpoints.remote = conn /\ endpoints.local = conn

(* The samples of a socket: one for the connection it was given, one for   *)
(* the connection it has closed.                                           *)
Resolved(c) == pc[Connector(c)] = "done" /\ promise[c] = "resolved"
Released    == once = "done" \/ \E t \in Threads : pc[t] \in {"close", "cancel"}

AccountInv ==
    /\ closing # None => Succeeded(closing)
    /\ state = "destroyed" /\ closing = None => \A c \in Connects : ~Succeeded(c)
    /\ ~vuDone => /\ samples["sockets"] = IF \E c \in Connects : Resolved(c) THEN 1 ELSE 0
                  /\ samples["duration"] = IF closing # None /\ Released THEN 1 ELSE 0

ShapeInv == PlacesInv /\ AloneInv /\ StateInv /\ OpenInv /\ TargetInv /\ AccountInv

CarefulInv == ToldInv /\ ShapeInv /\ ConnectBeforeClose

-----------------------------------------------------------------------------
(* Steps that only move a thread *)

(* Nothing changes that the shape of the socket depends on, except where   *)
(* the threads are.                                                        *)
Still ==
    /\ UNCHANGED <<state, conn, connectOpts, mu, vuDone, closing, live, target, endpoints>>
    /\ \A c \in Connects : promise'[c] = promise[c]
    /\ samples'["sockets"] = samples["sockets"]
    /\ samples'["duration"] = samples["duration"]

(* A thread other than a connector moves about outside destroyOnce. *)
Wanders(t, l) ==
    /\ t \in {Js} \cup Readers
    /\ pc[t] \notin InsideOnce \cup {"none"}
    /\ l \in IF t = Js THEN JsPlaces ELSE ReaderPlaces
    /\ t = Js /\ l = "destroy" => \A c \in Connects : ~Attempting(c)
    /\ pc' = [pc EXCEPT ![t] = l]

LEMMA StandStill ==
    ASSUME ControlInv, ShapeInv, Still, UNCHANGED <<once, pc>>
    PROVE  ShapeInv'
<1> USE DEF Still
<1>0. conn \in Connects \cup {None} /\ closing \in Connects \cup {None}
  BY DEF ControlInv, TypeOK
<1>1. PlacesInv' /\ AloneInv'
  BY DEF ShapeInv, PlacesInv, AloneInv, Attempting, Succeeded
<1>2. StateInv'
  BY DEF ShapeInv, StateInv, Succeeded
<1>3. OpenInv'
  BY <1>0 DEF ShapeInv, OpenInv, Succeeded
<1>4. TargetInv'
  BY DEF ShapeInv, TargetInv, DialTarget
<1>5. AccountInv'
  BY <1>0 DEF ShapeInv, AccountInv, Succeeded, Resolved, Released
<1> QED
  BY <1>1, <1>2, <1>3, <1>4, <1>5 DEF ShapeInv

LEMMA WanderStep ==
    ASSUME ControlInv, ShapeInv, Still, UNCHANGED once,
           NEW t, NEW l, Wanders(t, l)
    PROVE  ShapeInv'
<1> USE ThreadFacts DEF Still
<1>0. /\ conn \in Connects \cup {None} /\ closing \in Connects \cup {None}
      /\ mu \in Connects \cup {None}
  BY DEF ControlInv, TypeOK
<1>1. /\ \A c \in Connects : pc'[Connector(c)] = pc[Connector(c)]
      /\ \A c \in Connects : (pc[Reader(c)] = "none") <=> (pc'[Reader(c)] = "none")
      /\ \A u \in Threads : \/ pc'[u] = pc[u]
                            \/ pc[u] \notin InsideOnce /\ pc'[u] \notin InsideOnce
      /\ pc'[Js] \in Destroying /\ pc[Js] \notin Destroying
            => \A c \in Connects : ~Attempting(c)
      /\ PlacesInv'
  BY DEF ControlInv, TypeOK, ShapeInv, PlacesInv, Wanders, JsPlaces, ReaderPlaces,
         InsideOnce, Destroying, Pending, Readers
<1>2. AloneInv'
  BY <1>1 DEF ShapeInv, AloneInv, Attempting, Succeeded
<1>3. StateInv'
  BY <1>0, <1>1 DEF ShapeInv, StateInv, Succeeded, InsideOnce
<1>4. OpenInv'
  BY <1>0, <1>1 DEF ShapeInv, OpenInv, Succeeded, InsideOnce
<1>5. TargetInv'
  BY <1>1 DEF ShapeInv, TargetInv, DialTarget
<1>6. AccountInv'
  <2>1. Released' <=> Released
    BY <1>1 DEF Released, InsideOnce
  <2>2. \A c \in Connects : /\ Succeeded(c)' <=> Succeeded(c)
                            /\ Resolved(c)' <=> Resolved(c)
    BY <1>1 DEF Succeeded, Resolved
  <2> QED
    BY <1>0, <2>1, <2>2 DEF ShapeInv, AccountInv
<1> QED
  BY <1>1, <1>2, <1>3, <1>4, <1>5, <1>6 DEF ShapeInv

(* A connector goes on to the next thing it does about the outcome. *)
LEMMA ConnectorMoves ==
    ASSUME ControlInv, ShapeInv, Still, UNCHANGED once,
           NEW c \in Connects, NEW l, pc' = [pc EXCEPT ![Connector(c)] = l],
           \/ pc[Connector(c)] = "handleError" /\ l = "error"
           \/ pc[Connector(c)] = "error" /\ l = "reject"
           \/ pc[Connector(c)] = "connect" /\ l = "startRead"
    PROVE  ShapeInv'
<1> USE ThreadFacts DEF Still
<1>0. /\ conn \in Connects \cup {None} /\ closing \in Connects \cup {None}
      /\ mu \in Connects \cup {None}
  BY DEF ControlInv, TypeOK
<1>1. /\ \A d \in Connects : /\ d # c => pc'[Connector(d)] = pc[Connector(d)]
                             /\ pc'[Reader(d)] = pc[Reader(d)]
      /\ pc'[Connector(c)] = l /\ pc'[Js] = pc[Js]
      /\ \A u \in Threads : \/ pc'[u] = pc[u]
                            \/ pc[u] \notin InsideOnce /\ pc'[u] \notin InsideOnce
  BY DEF ControlInv, TypeOK, InsideOnce
<1>2. \A d \in Connects : /\ Attempting(d)' => Attempting(d)
                          /\ Succeeded(d)' <=> Succeeded(d)
                          /\ Resolved(d)' <=> Resolved(d)
  BY <1>1 DEF Attempting, Pending, Succeeded, Resolved
<1>3. PlacesInv'
  BY <1>1 DEF ShapeInv, PlacesInv, Pending
<1>4. AloneInv'
  BY <1>1, <1>2 DEF ShapeInv, AloneInv
<1>5. StateInv'
  BY <1>0, <1>1, <1>2 DEF ShapeInv, StateInv, InsideOnce
<1>6. OpenInv'
  BY <1>0, <1>1, <1>2 DEF ShapeInv, OpenInv, InsideOnce
<1>7. TargetInv'
  BY <1>1 DEF ShapeInv, TargetInv, DialTarget
<1>8. AccountInv'
  <2>1. Released' <=> Released
    BY <1>1 DEF Released, InsideOnce
  <2> QED
    BY <1>0, <1>2, <2>1 DEF ShapeInv, AccountInv
<1> QED
  BY <1>3, <1>4, <1>5, <1>6, <1>7, <1>8 DEF ShapeInv

(* fire("close") returns. *)
LEMMA CloseReturns ==
    ASSUME ControlInv, ShapeInv, Still, UNCHANGED once,
           NEW t \in Threads, pc[t] = "close", pc' = [pc EXCEPT ![t] = "cancel"]
    PROVE  ShapeInv'
<1> USE ThreadFacts DEF Still
<1>0. /\ conn \in Connects \cup {None} /\ closing \in Connects \cup {None}
      /\ mu \in Connects \cup {None}
  BY DEF ControlInv, TypeOK
<1>1. /\ \A u \in Threads : u # t => pc'[u] = pc[u]
      /\ pc'[t] = "cancel"
  BY DEF ControlInv, TypeOK
<1>2. \A d \in Connects : t # Connector(d)
  BY DEF ShapeInv, PlacesInv, Pending
<1>3. \A d \in Connects : /\ pc'[Connector(d)] = pc[Connector(d)]
                          /\ pc[Reader(d)] = "none" <=> pc'[Reader(d)] = "none"
  BY <1>1, <1>2
<1>4. \A d \in Connects : /\ Attempting(d)' <=> Attempting(d)
                          /\ Succeeded(d)' <=> Succeeded(d)
                          /\ Resolved(d)' <=> Resolved(d)
  BY <1>3 DEF Attempting, Succeeded, Resolved
<1>5. PlacesInv'
  BY <1>1, <1>2 DEF ShapeInv, PlacesInv, InsideOnce
<1>6. AloneInv'
  BY <1>1, <1>3, <1>4 DEF ShapeInv, AloneInv, Destroying, InsideOnce
<1>7. StateInv'
  BY <1>0, <1>1, <1>3, <1>4 DEF ShapeInv, StateInv, InsideOnce
<1>8. OpenInv'
  BY <1>0, <1>1, <1>3, <1>4 DEF ShapeInv, OpenInv
<1>9. TargetInv'
  BY <1>3 DEF ShapeInv, TargetInv, DialTarget
<1>10. AccountInv'
  <2>1. Released' <=> Released
    BY <1>1 DEF Released
  <2> QED
    BY <1>0, <1>4, <2>1 DEF ShapeInv, AccountInv
<1> QED
  BY <1>5, <1>6, <1>7, <1>8, <1>9, <1>10 DEF ShapeInv

(* Where fire() returns to *)
LEMMA AfterFireCases ==
    ASSUME NEW t \in Threads
    PROVE  /\ pc[t] = "connect" => AfterFire(t) = "startRead"
           /\ pc[t] = "data" => AfterFire(t) = "afterRead"
           /\ pc[t] = "timeout" => AfterFire(t) = "loop"
           /\ pc[t] = "close" => AfterFire(t) = "cancel"
           /\ pc[t] = "error" => AfterFire(t) = IF t \in Readers THEN "destroy" ELSE "reject"
  BY DEF AfterFire

(* fire() returns, however it does. *)
LEMMA FireReturns ==
    ASSUME ControlInv, ShapeInv, Still, UNCHANGED once,
           NEW t \in Threads, pc[t] \in Events, Goto(t, AfterFire(t))
    PROVE  ShapeInv'
<1> USE ThreadFacts, AfterFireCases DEF Goto
<1>1. CASE pc[t] = "close"
  BY <1>1, CloseReturns
<1>2. CASE pc[t] # "close" /\ \E c \in Connects : t = Connector(c)
  <2>1. PICK c \in Connects : t = Connector(c)
    BY <1>2
  <2>2. pc[t] \in {"connect", "error"}
    BY <1>2, <2>1 DEF Events, ShapeInv, PlacesInv, Pending
  <2>3. t \notin Readers
    BY <2>1 DEF Readers
  <2> QED
    BY <2>1, <2>2, <2>3, ConnectorMoves
<1>3. CASE pc[t] # "close" /\ ~\E c \in Connects : t = Connector(c)
  <2>1. t \in {Js} \cup Readers
    BY <1>3 DEF Threads, Connectors
  <2>2. /\ pc[t] \in {"data", "timeout", "error"}
        /\ t = Js => pc[t] = "error" /\ t \notin Readers
    BY <1>3, <2>1 DEF Events, Readers, ShapeInv, PlacesInv, JsPlaces, ReaderPlaces, InsideOnce
  <2>3. Wanders(t, AfterFire(t))
    BY <2>1, <2>2 DEF Wanders, InsideOnce, JsPlaces, ReaderPlaces
  <2> QED
    BY <2>3, WanderStep
<1> QED
  BY <1>1, <1>2, <1>3

-----------------------------------------------------------------------------
(* Connecting *)

Underway == {"resolving", "dialing", "tls"}

(* A call that a careful script makes finds no attempt to connect that it  *)
(* does not know the outcome of.                                           *)
LEMMA NoneAttempting ==
    ASSUME ControlInv, ToldInv, Script = "careful", CallAllowed
    PROVE  \A c \in Connects : ~Attempting(c)
<1> SUFFICES ASSUME NEW c \in Connects, Attempting(c) PROVE FALSE
  OBVIOUS
<1>1. promise[c] = "pending"
  BY DEF ToldInv
<1>2. PICK i \in 1..handled : Sent(i, Connector(c))
  BY <1>1 DEF CallAllowed, Announced, Sent
<1>3. i \in 1..Len(events)
  BY <1>2 DEF ToldInv, ControlInv, TypeOK
<1> QED
  BY <1>2, <1>3 DEF ToldInv, Attempting

(* While an attempt is under way nothing is being destroyed. *)
LEMMA Undisturbed ==
    ASSUME OnceInv, ShapeInv, NEW c \in Connects, Attempting(c)
    PROVE  /\ once = "new" /\ state # "destroyed" /\ closing = None
           /\ \A t \in Threads : pc[t] \notin InsideOnce
           /\ \A d \in Connects : d # c => ~Attempting(d) /\ ~Succeeded(d)
           /\ \A d \in Connects : pc[Reader(d)] = "none"
           /\ pc[Js] \notin Destroying
           /\ ~Released
<1>1. /\ once = "new" /\ pc[Js] \notin Destroying
      /\ \A d \in Connects : d # c => ~Attempting(d) /\ ~Succeeded(d)
      /\ \A d \in Connects : pc[Reader(d)] = "none"
  BY DEF ShapeInv, AloneInv
<1>2. \A t \in Threads : pc[t] \notin InsideOnce
  BY <1>1 DEF OnceInv, OnceIsHeld
<1>3. state # "destroyed" /\ closing = None
  BY <1>1 DEF ShapeInv, StateInv, OpenInv
<1>4. ~Released
  BY <1>1, <1>2 DEF Released, InsideOnce
<1> QED
  BY <1>1, <1>2, <1>3, <1>4

(* A careful script connects a socket that has never been connected. *)
LEMMA NeverConnected ==
    ASSUME ControlInv, OnceInv, ShapeInv, state = "disconnected", pc[Js] = "idle"
    PROVE  /\ once = "new"
           /\ \A c \in Connects : ~Succeeded(c) /\ pc[Reader(c)] = "none"
<1> USE ThreadFacts
<1>1. \A c \in Connects : ~Succeeded(c)
  BY DEF ShapeInv, StateInv
<1>2. \A c \in Connects : pc[Reader(c)] = "none"
  BY <1>1 DEF ShapeInv, AloneInv
<1>3. \A t \in Threads : pc[t] \notin InsideOnce
  BY <1>2 DEF Threads, Connectors, Readers, InsideOnce, ShapeInv, PlacesInv, Pending
<1>4. once # "running" /\ once # "done"
  BY <1>3 DEF ShapeInv, StateInv
<1> QED
  BY <1>1, <1>2, <1>4 DEF ControlInv, TypeOK

LEMMA ConnectShape ==
    ASSUME IInv, ToldInv, ShapeInv, Script = "careful",
           NEW c \in Connects, JsConnect(c)
    PROVE  ShapeInv'
<1> USE ConstantsAssumption, ThreadFacts
<1>0. /\ ControlInv /\ OnceInv
      /\ conn \in Connects \cup {None} /\ closing \in Connects \cup {None}
      /\ mu \in Connects \cup {None}
      /\ pc[Connector(c)] = "none"
  BY DEF IInv, ControlInv, TypeOK, OneGoroutinePerCall, JsConnect
<1>1. /\ pc[Js] = "idle" /\ state = "disconnected" /\ connectOpts' = c
      /\ \A d \in Connects : ~Attempting(d)
  BY <1>0, NoneAttempting DEF JsConnect, ConnectAllowed, StoreOptions
<1>2. /\ once = "new"
      /\ \A d \in Connects : ~Succeeded(d) /\ pc[Reader(d)] = "none"
  BY <1>0, <1>1, NeverConnected
<1>3. /\ UNCHANGED <<state, conn, mu, once, vuDone, live, closing, target, endpoints, samples>>
      /\ \A d \in Connects : d # c => promise'[d] = promise[d]
      /\ \A t \in Threads : t # Connector(c) => pc'[t] = pc[t]
      /\ pc'[Connector(c)] = "lock"
  BY <1>0 DEF JsConnect, Settle, Goto, ioVars, ControlInv, TypeOK
<1>4. /\ \A d \in Connects : /\ pc'[Reader(d)] = "none" /\ ~Succeeded(d)'
                             /\ d # c => ~Attempting(d)' /\ pc'[Connector(d)] = pc[Connector(d)]
                             /\ Resolved(d)' <=> Resolved(d)
      /\ pc'[Js] = "idle"
  BY <1>0, <1>1, <1>2, <1>3 DEF Succeeded, Attempting, Resolved
<1>5. \A t \in Threads : pc[t] \notin InsideOnce
  BY <1>0, <1>2 DEF OnceInv, OnceIsHeld
<1>6. \A t \in Threads : pc'[t] \notin InsideOnce
  BY <1>3, <1>5 DEF InsideOnce
<1>7. PlacesInv'
  BY <1>3, <1>4 DEF ShapeInv, PlacesInv, Pending, JsPlaces
<1>8. AloneInv'
  BY <1>2, <1>3, <1>4 DEF AloneInv, Destroying, InsideOnce
<1>9. StateInv'
  <2>1. mu' = None
    BY <1>0, <1>1, <1>3 DEF ShapeInv, StateInv, Attempting, Pending
  <2>2. \A d \in Connects : pc'[Connector(d)] \notin Underway
    BY <1>1, <1>3, <1>4 DEF Attempting, Pending, Underway
  <2> QED
    BY <1>1, <1>2, <1>3, <1>4, <1>6, <2>1, <2>2 DEF StateInv, Underway, InsideOnce
<1>10. OpenInv'
  <2>1. \A d \in Connects : pc'[Connector(d)] \notin Underway
    BY <1>1, <1>3, <1>4 DEF Attempting, Pending, Underway
  <2> QED
    BY <1>0, <1>1, <1>3, <1>4, <1>6, <2>1 DEF ShapeInv, OpenInv, Underway, InsideOnce
<1>11. TargetInv'
  <2>1. \A d \in Connects : d # c => pc'[Connector(d)] \notin Underway \cup {"lock"}
    BY <1>1, <1>3, <1>4 DEF Attempting, Pending, Underway
  <2> QED
    BY <1>0, <1>1, <1>3, <1>4, <2>1 DEF ShapeInv, TargetInv, DialTarget, Underway
<1>12. AccountInv'
  <2>1. Released' <=> Released
    BY <1>3, <1>5, <1>6 DEF Released, InsideOnce
  <2>2. closing = None
    BY <1>1 DEF ShapeInv, OpenInv
  <2> QED
    BY <1>1, <1>3, <1>4, <2>1, <2>2 DEF ShapeInv, AccountInv
<1> QED
  BY <1>7, <1>8, <1>9, <1>10, <1>11, <1>12 DEF ShapeInv

(* What every step of an attempt has in common *)
Advances(c, l) ==
    /\ pc[Connector(c)] \in Underway \cup {"lock"}
    /\ l \in Pending
    /\ pc' = [pc EXCEPT ![Connector(c)] = l]
    /\ UNCHANGED <<connectOpts, once, vuDone, closing, promise>>
    /\ state' # "destroyed"
    /\ samples'["sockets"] = samples["sockets"]
    /\ samples'["duration"] = samples["duration"]

LEMMA AttemptAdvances ==
    ASSUME IInv, ShapeInv, NEW c \in Connects, NEW l, Advances(c, l)
    PROVE  /\ PlacesInv' /\ AloneInv' /\ AccountInv'
           /\ once' = "new" /\ closing' = None /\ connectOpts' = c
           /\ pc'[Connector(c)] = l
           /\ \A t \in Threads : pc'[t] \notin InsideOnce
           /\ \A d \in Connects : d # c => /\ pc'[Connector(d)] = pc[Connector(d)]
                                           /\ pc[Connector(d)] \notin Pending
                                           /\ ~Succeeded(d)'
           /\ Succeeded(c)' <=> l = "connect"
<1> USE ConstantsAssumption, ThreadFacts
<1>0. ControlInv /\ OnceInv /\ Attempting(c)
  BY DEF IInv, Advances, Attempting, Underway, Pending
<1>1. /\ once = "new" /\ closing = None /\ ~Released
      /\ \A t \in Threads : pc[t] \notin InsideOnce
      /\ \A d \in Connects : d # c => ~Attempting(d) /\ ~Succeeded(d)
      /\ \A d \in Connects : pc[Reader(d)] = "none"
      /\ pc[Js] \notin Destroying
  BY <1>0, Undisturbed
<1>2. /\ UNCHANGED <<connectOpts, once, vuDone, closing, promise>>
      /\ samples'["sockets"] = samples["sockets"]
      /\ samples'["duration"] = samples["duration"]
      /\ pc'[Connector(c)] = l /\ l \in Pending
      /\ \A t \in Threads : t # Connector(c) => pc'[t] = pc[t]
  BY <1>0 DEF Advances, ControlInv, TypeOK
<1>3. connectOpts = c
  BY DEF Advances, Underway, ShapeInv, TargetInv
<1>4. \A t \in Threads : pc'[t] \notin InsideOnce
  BY <1>1, <1>2 DEF InsideOnce, Pending
<1>5. \A d \in Connects : d # c => /\ pc'[Connector(d)] = pc[Connector(d)]
                                   /\ pc[Connector(d)] \notin Pending
                                   /\ ~Attempting(d)' /\ ~Succeeded(d)'
  BY <1>1, <1>2 DEF Attempting, Succeeded
<1>6. Succeeded(c)' <=> l = "connect"
  BY <1>2 DEF Succeeded, Pending
<1>7. \A d \in Connects : ~Resolved(d) /\ ~Resolved(d)'
  <2>1. \A d \in Connects : d # c => ~Resolved(d) /\ ~Resolved(d)'
    BY <1>1, <1>5 DEF Resolved, Succeeded
  <2>2. ~Resolved(c) /\ ~Resolved(c)'
    BY <1>2 DEF Resolved, Advances, Underway, Pending
  <2> QED
    BY <2>1, <2>2
<1>8. PlacesInv'
  BY <1>2, <1>5 DEF ShapeInv, PlacesInv, Pending
<1>9. AloneInv'
  <2>1. \A d \in Connects : pc'[Reader(d)] = "none"
    BY <1>1, <1>2
  <2>2. pc'[Js] \notin Destroying /\ once' = "new"
    BY <1>1, <1>2
  <2> QED
    BY <1>5, <2>1, <2>2 DEF AloneInv
<1>10. AccountInv'
  <2>1. ~Released'
    BY <1>1, <1>2, <1>4 DEF Released, InsideOnce
  <2>2. ~vuDone => samples["sockets"] = 0 /\ samples["duration"] = 0
    BY <1>1, <1>7 DEF ShapeInv, AccountInv
  <2>3. closing' = None /\ state' # "destroyed"
    BY <1>1, <1>2 DEF Advances
  <2> QED
    BY <1>2, <1>7, <2>1, <2>2, <2>3 DEF AccountInv
<1> QED
  BY <1>1, <1>2, <1>3, <1>4, <1>5, <1>6, <1>8, <1>9, <1>10

(* Samples of the attempt itself *)
LEMMA AttemptSamples ==
    ASSUME ControlInv, NEW m \in {"resolving", "connecting", "reads", "errors"}, Push(m)
    PROVE  /\ samples'["sockets"] = samples["sockets"]
           /\ samples'["duration"] = samples["duration"]
  BY DEF Push, ControlInv, TypeOK, Metrics

LEMMA LockShape ==
    ASSUME IInv, ShapeInv, NEW c \in Connects, Lock(c)
    PROVE  ShapeInv'
<1> USE ConstantsAssumption, ThreadFacts
<1>0. /\ pc[Connector(c)] = "lock" /\ mu' = c /\ state' = "opening"
      /\ target' = [target EXCEPT ![c].ip = connectOpts]
      /\ UNCHANGED <<conn, live, endpoints>>
      /\ target \in Targets
  BY DEF Lock, IInv, ControlInv, TypeOK
<1>1. Advances(c, "resolving")
  BY DEF Lock, Advances, Pending, Goto
<1>2. /\ PlacesInv' /\ AloneInv' /\ AccountInv'
      /\ once' = "new" /\ closing' = None /\ connectOpts' = c
      /\ pc'[Connector(c)] = "resolving"
      /\ \A t \in Threads : pc'[t] \notin InsideOnce
      /\ \A d \in Connects : d # c => /\ pc'[Connector(d)] = pc[Connector(d)]
                                      /\ pc[Connector(d)] \notin Pending
                                      /\ ~Succeeded(d)'
      /\ ~Succeeded(c)'
  BY <1>1, AttemptAdvances
<1>3. state = "disconnected" /\ conn = None /\ live = {} /\ connectOpts = c
  BY <1>0 DEF ShapeInv, StateInv, OpenInv, TargetInv
<1>4. StateInv'
  BY <1>0, <1>2 DEF StateInv, InsideOnce, Pending
<1>5. OpenInv'
  BY <1>0, <1>2, <1>3 DEF OpenInv, InsideOnce, Pending
<1>6. TargetInv'
  <2>1. /\ target'[c].ip = c /\ target'[c].tls = target[c].tls
        /\ \A d \in Connects : d # c => target'[d] = target[d]
    BY <1>0, <1>3 DEF Targets
  <2>2. target[c].tls = None
    BY <1>0 DEF ShapeInv, TargetInv
  <2>3. DialTarget'
    BY <2>1, <2>2 DEF ShapeInv, TargetInv, DialTarget
  <2> QED
    BY <1>0, <1>2, <1>3, <2>1, <2>2, <2>3 DEF ShapeInv, TargetInv, Pending
<1> QED
  BY <1>2, <1>4, <1>5, <1>6 DEF ShapeInv

(* An error return of connectExecute() leaves a socket that has never been *)
(* connected.                                                              *)
LEMMA FailureShape ==
    ASSUME IInv, ShapeInv, NEW c \in Connects,
           pc[Connector(c)] \in Underway, ConnectFails(c), live' = {},
           UNCHANGED <<conn, connectOpts, once, vuDone, closing, target, endpoints, promise>>,
           samples'["sockets"] = samples["sockets"],
           samples'["duration"] = samples["duration"]
    PROVE  ShapeInv'
<1> USE ConstantsAssumption, ThreadFacts
<1>0. state' = "disconnected" /\ mu' = None
  BY DEF ConnectFails
<1>1. Advances(c, "handleError")
  BY DEF ConnectFails, Advances, Pending, Goto
<1>2. /\ PlacesInv' /\ AloneInv' /\ AccountInv'
      /\ once' = "new" /\ closing' = None /\ connectOpts' = c
      /\ pc'[Connector(c)] = "handleError"
      /\ \A t \in Threads : pc'[t] \notin InsideOnce
      /\ \A d \in Connects : d # c => /\ pc'[Connector(d)] = pc[Connector(d)]
                                      /\ pc[Connector(d)] \notin Pending
                                      /\ ~Succeeded(d)'
      /\ ~Succeeded(c)'
  BY <1>1, AttemptAdvances
<1>3. conn = None
  BY DEF ShapeInv, StateInv, OpenInv, Underway
<1>4. StateInv'
  BY <1>0, <1>2 DEF StateInv, InsideOnce, Pending
<1>5. OpenInv'
  BY <1>0, <1>2, <1>3 DEF OpenInv, InsideOnce, Pending
<1>6. TargetInv'
  BY <1>2, <1>3 DEF ShapeInv, TargetInv, DialTarget, Pending
<1> QED
  BY <1>2, <1>4, <1>5, <1>6 DEF ShapeInv

LEMMA ResolveShape ==
    ASSUME IInv, ShapeInv, NEW c \in Connects, Resolve(c)
    PROVE  ShapeInv'
<1> USE ConstantsAssumption, ThreadFacts
<1>0. /\ pc[Connector(c)] = "resolving" /\ live = {} /\ conn = None
      /\ connectOpts = c /\ target[c].ip = c /\ target[c].tls = None
      /\ state = "opening" /\ mu = c
      /\ target \in Targets
      /\ endpoints \in [remote : Connects \cup {None}, local : Connects \cup {None}]
  BY DEF Resolve, ShapeInv, StateInv, OpenInv, TargetInv, IInv, ControlInv, TypeOK
<1>1. /\ UNCHANGED <<conn, connectOpts, once, vuDone, closing, live, promise>>
      /\ samples'["sockets"] = samples["sockets"]
      /\ samples'["duration"] = samples["duration"]
  BY AttemptSamples DEF Resolve, IInv
<1>2. CASE ConnectFails(c) /\ UNCHANGED <<target, endpoints>>
  BY <1>0, <1>1, <1>2, FailureShape DEF Underway
<1>3. CASE /\ target' = [target EXCEPT ![c].port = connectOpts]
           /\ RecordRemote(c)
           /\ Goto(Connector(c), "dialing")
           /\ UNCHANGED <<state, mu>>
  <2>1. Advances(c, "dialing")
    BY <1>0, <1>1, <1>3 DEF Advances, Underway, Pending, Goto
  <2>2. /\ PlacesInv' /\ AloneInv' /\ AccountInv'
        /\ once' = "new" /\ closing' = None /\ connectOpts' = c
        /\ pc'[Connector(c)] = "dialing"
        /\ \A t \in Threads : pc'[t] \notin InsideOnce
        /\ \A d \in Connects : d # c => /\ pc'[Connector(d)] = pc[Connector(d)]
                                        /\ pc[Connector(d)] \notin Pending
                                        /\ ~Succeeded(d)'
        /\ ~Succeeded(c)'
    BY <2>1, AttemptAdvances
  <2>3. UNCHANGED <<state, mu>>
    BY <1>3
  <2>4. StateInv'
    BY <1>0, <2>2, <2>3 DEF StateInv, InsideOnce, Pending
  <2>5. OpenInv'
    BY <1>0, <1>1, <2>2, <2>3 DEF OpenInv, InsideOnce, Pending
  <2>6. /\ target'[c].ip = c /\ target'[c].tls = None /\ target'[c].port = c
        /\ \A d \in Connects : d # c => target'[d] = target[d]
    BY <1>0, <1>3 DEF Targets
  <2>7. endpoints'.remote = c
    BY <1>0, <1>3 DEF RecordRemote
  <2>8. DialTarget'
    BY <2>6 DEF ShapeInv, TargetInv, DialTarget
  <2>9. TargetInv'
    BY <1>0, <1>1, <2>2, <2>6, <2>7, <2>8 DEF ShapeInv, TargetInv, Pending
  <2> QED
    BY <2>2, <2>4, <2>5, <2>9 DEF ShapeInv
<1> QED
  BY <1>2, <1>3 DEF Resolve

LEMMA DialShape ==
    ASSUME IInv, ShapeInv, NEW c \in Connects, Dial(c)
    PROVE  ShapeInv'
<1> USE ConstantsAssumption, ThreadFacts
<1>0. /\ pc[Connector(c)] = "dialing" /\ live = {} /\ conn = None
      /\ connectOpts = c /\ target[c].ip = c /\ target[c].tls = None /\ target[c].port = c
      /\ state = "opening" /\ mu = c /\ endpoints.remote = c
  BY DEF Dial, ShapeInv, StateInv, OpenInv, TargetInv
<1>1. /\ UNCHANGED <<conn, connectOpts, once, vuDone, closing, target, endpoints, promise>>
      /\ samples'["sockets"] = samples["sockets"]
      /\ samples'["duration"] = samples["duration"]
  <2>1. samples' = samples \/ Push("connecting")
    BY DEF Dial
  <2>2. ControlInv
    BY DEF IInv
  <2> QED
    BY <2>1, <2>2, AttemptSamples DEF Dial
<1>2. CASE ConnectFails(c) /\ UNCHANGED live
  BY <1>0, <1>1, <1>2, FailureShape DEF Underway
<1>3. CASE live' = live \cup {c} /\ Goto(Connector(c), "tls") /\ UNCHANGED <<state, mu>>
  <2>1. Advances(c, "tls")
    BY <1>0, <1>1, <1>3 DEF Advances, Underway, Pending, Goto
  <2>2. /\ PlacesInv' /\ AloneInv' /\ AccountInv'
        /\ once' = "new" /\ closing' = None /\ connectOpts' = c
        /\ pc'[Connector(c)] = "tls"
        /\ \A t \in Threads : pc'[t] \notin InsideOnce
        /\ \A d \in Connects : d # c => /\ pc'[Connector(d)] = pc[Connector(d)]
                                        /\ pc[Connector(d)] \notin Pending
                                        /\ ~Succeeded(d)'
        /\ ~Succeeded(c)'
    BY <2>1, AttemptAdvances
  <2>3. UNCHANGED <<state, mu>> /\ live' = {c}
    BY <1>0, <1>3
  <2>4. StateInv'
    BY <1>0, <2>2, <2>3 DEF StateInv, InsideOnce, Pending
  <2>5. OpenInv'
    BY <1>0, <1>1, <2>2, <2>3 DEF OpenInv, InsideOnce, Pending
  <2>6. TargetInv'
    BY <1>0, <1>1, <2>2 DEF ShapeInv, TargetInv, DialTarget, Pending
  <2> QED
    BY <2>2, <2>4, <2>5, <2>6 DEF ShapeInv
<1> QED
  BY <1>2, <1>3 DEF Dial

LEMMA HandshakeFailsShape ==
    ASSUME IInv, ShapeInv, NEW c \in Connects, HandshakeFails(c)
    PROVE  ShapeInv'
<1>1. pc[Connector(c)] = "tls" /\ ConnectFails(c) /\ live' = {}
  BY DEF HandshakeFails, CloseFailed, ShapeInv, OpenInv
<1>2. /\ UNCHANGED <<conn, connectOpts, once, vuDone, closing, target, endpoints, promise>>
      /\ samples'["sockets"] = samples["sockets"]
      /\ samples'["duration"] = samples["duration"]
  BY AttemptSamples DEF HandshakeFails, IInv
<1> QED
  BY <1>1, <1>2, FailureShape DEF Underway

LEMMA EstablishedShape ==
    ASSUME IInv, ShapeInv, NEW c \in Connects, Established(c)
    PROVE  ShapeInv'
<1> USE ConstantsAssumption, ThreadFacts
<1>0. /\ pc[Connector(c)] = "tls" /\ live = {c}
      /\ connectOpts = c /\ target[c].ip = c /\ target[c].port = c
      /\ endpoints.remote = c
      /\ target \in Targets
      /\ endpoints \in [remote : Connects \cup {None}, local : Connects \cup {None}]
  BY DEF Established, ShapeInv, OpenInv, TargetInv, IInv, ControlInv, TypeOK
<1>1. /\ UNCHANGED <<connectOpts, once, vuDone, closing, live, promise>>
      /\ conn' = c /\ state' = "open" /\ mu' = None
      /\ samples'["sockets"] = samples["sockets"]
      /\ samples'["duration"] = samples["duration"]
  BY AttemptSamples DEF Established, StoreConn, IInv
<1>2. Advances(c, "connect")
  BY <1>0, <1>1 DEF Established, FiresConnect, Advances, Underway, Pending, Goto
<1>3. /\ PlacesInv' /\ AloneInv' /\ AccountInv'
      /\ once' = "new" /\ closing' = None /\ connectOpts' = c
      /\ pc'[Connector(c)] = "connect"
      /\ \A t \in Threads : pc'[t] \notin InsideOnce
      /\ \A d \in Connects : d # c => /\ pc'[Connector(d)] = pc[Connector(d)]
                                      /\ pc[Connector(d)] \notin Pending
                                      /\ ~Succeeded(d)'
      /\ Succeeded(c)'
  BY <1>2, AttemptAdvances
<1>4. StateInv'
  BY <1>1, <1>3 DEF StateInv, InsideOnce, Pending
<1>5. OpenInv'
  BY <1>0, <1>1, <1>3 DEF OpenInv, InsideOnce, Pending
<1>6. TargetInv'
  <2>1. /\ target'[c] = [ip |-> c, port |-> c, tls |-> c]
        /\ \A d \in Connects : d # c => target'[d] = target[d]
    BY <1>0 DEF Established, StoreConn, Targets
  <2>2. endpoints'.remote = c /\ endpoints'.local = c
    BY <1>0 DEF Established, StoreConn
  <2>3. DialTarget'
    BY <2>1 DEF ShapeInv, TargetInv, DialTarget
  <2> QED
    BY <1>1, <1>3, <2>1, <2>2, <2>3 DEF ShapeInv, TargetInv, Pending
<1> QED
  BY <1>3, <1>4, <1>5, <1>6 DEF ShapeInv

-----------------------------------------------------------------------------
(* The outcome of an attempt *)

LEMMA StartReadShape ==
    ASSUME IInv, ShapeInv, NEW c \in Connects, StartRead(c)
    PROVE  ShapeInv'
<1> USE ConstantsAssumption, ThreadFacts
<1>0. /\ conn \in Connects \cup {None} /\ closing \in Connects \cup {None}
      /\ mu \in Connects \cup {None}
      /\ pc[Connector(c)] = "startRead" /\ pc[Reader(c)] = "none"
  BY DEF IInv, ControlInv, TypeOK, ReaderAfterConnect, StartRead
<1>1. /\ UNCHANGED <<state, conn, connectOpts, mu, once, vuDone, closing, live, target, endpoints,
                     samples, promise>>
      /\ \A t \in Threads : t \notin {Connector(c), Reader(c)} => pc'[t] = pc[t]
      /\ pc'[Connector(c)] = "resolvePromise" /\ pc'[Reader(c)] = "loop"
  BY DEF StartRead, sockVars, ioVars, IInv, ControlInv, TypeOK
<1>2. \A t \in Threads : \/ pc'[t] = pc[t]
                         \/ pc[t] \notin InsideOnce /\ pc'[t] \notin InsideOnce
  BY <1>0, <1>1 DEF InsideOnce
<1>3. \A d \in Connects : /\ Attempting(d)' <=> Attempting(d)
                          /\ Succeeded(d)' <=> Succeeded(d)
                          /\ Resolved(d)' <=> Resolved(d)
                          /\ d # c => /\ pc'[Connector(d)] = pc[Connector(d)]
                                      /\ pc'[Reader(d)] = pc[Reader(d)]
  BY <1>0, <1>1 DEF Attempting, Pending, Succeeded, Resolved
<1>4. Succeeded(c)
  BY <1>0 DEF Succeeded
<1>5. PlacesInv'
  BY <1>1, <1>3 DEF ShapeInv, PlacesInv, ReaderPlaces
<1>6. AloneInv'
  <2>1. \A d \in Connects : ~Attempting(d)
    BY <1>0, <1>4 DEF ShapeInv, AloneInv, Attempting, Pending
  <2> QED
    BY <1>1, <1>3, <1>4, <2>1 DEF ShapeInv, AloneInv
<1>7. StateInv'
  BY <1>0, <1>1, <1>2, <1>3 DEF ShapeInv, StateInv, InsideOnce
<1>8. OpenInv'
  BY <1>0, <1>1, <1>2, <1>3 DEF ShapeInv, OpenInv, InsideOnce
<1>9. TargetInv'
  BY <1>1, <1>3 DEF ShapeInv, TargetInv, DialTarget
<1>10. AccountInv'
  <2>1. Released' <=> Released
    BY <1>1, <1>2 DEF Released, InsideOnce
  <2> QED
    BY <1>0, <1>1, <1>3, <2>1 DEF ShapeInv, AccountInv
<1> QED
  BY <1>5, <1>6, <1>7, <1>8, <1>9, <1>10 DEF ShapeInv

(* A call settles its promise and ends. *)
LEMMA SettleShape ==
    ASSUME IInv, ShapeInv, NEW c \in Connects, ResolvePromise(c) \/ Reject(c)
    PROVE  ShapeInv'
<1> USE ConstantsAssumption, ThreadFacts
<1>0. /\ conn \in Connects \cup {None} /\ closing \in Connects \cup {None}
      /\ mu \in Connects \cup {None}
      /\ samples \in [Metrics -> Nat]
      /\ pc \in [Threads -> Labels]
      /\ promise \in [Connects \cup Invalid -> {"none", "pending", "resolved", "rejected"}]
  BY DEF IInv, ControlInv, TypeOK
<1>1. /\ UNCHANGED <<state, conn, connectOpts, mu, once, vuDone, closing, live, target, endpoints>>
      /\ \A t \in Threads : t # Connector(c) => pc'[t] = pc[t]
      /\ \A d \in Connects : d # c => promise'[d] = promise[d]
      /\ pc'[Connector(c)] = "done"
      /\ \/ pc[Connector(c)] = "resolvePromise" /\ promise'[c] = "resolved"
         \/ pc[Connector(c)] = "reject" /\ promise'[c] = "rejected"
  BY <1>0 DEF ResolvePromise, Reject, RejectPromise, Settle, Goto, sockVars, ioVars
<1>2. \A t \in Threads : \/ pc'[t] = pc[t]
                         \/ pc[t] \notin InsideOnce /\ pc'[t] \notin InsideOnce
  BY <1>1 DEF InsideOnce
<1>3. \A d \in Connects : /\ Attempting(d)' <=> Attempting(d)
                          /\ Succeeded(d)' <=> Succeeded(d)
                          /\ d # c => (Resolved(d)' <=> Resolved(d))
                          /\ d # c => pc'[Connector(d)] = pc[Connector(d)]
                          /\ pc'[Reader(d)] = pc[Reader(d)]
  BY <1>1 DEF Attempting, Pending, Succeeded, Resolved
<1>4. PlacesInv'
  BY <1>1, <1>3 DEF ShapeInv, PlacesInv
<1>5. AloneInv'
  BY <1>1, <1>3 DEF ShapeInv, AloneInv
<1>6. StateInv'
  BY <1>0, <1>1, <1>2, <1>3 DEF ShapeInv, StateInv, InsideOnce
<1>7. OpenInv'
  BY <1>0, <1>1, <1>2, <1>3 DEF ShapeInv, OpenInv, InsideOnce
<1>8. TargetInv'
  BY <1>1, <1>3 DEF ShapeInv, TargetInv, DialTarget
<1>9. AccountInv'
  <2>1. Released' <=> Released
    BY <1>1, <1>2 DEF Released, InsideOnce
  <2>2. ASSUME ~vuDone
        PROVE  samples'["sockets"] = IF \E d \in Connects : Resolved(d)' THEN 1 ELSE 0
    <3>1. CASE Reject(c)
      <4>1. samples' = samples
        BY <3>1 DEF Reject
      <4>2. ~Resolved(c) /\ ~Resolved(c)'
        BY <3>1, <1>0 DEF Reject, RejectPromise, Settle, Resolved
      <4> QED
        BY <1>3, <2>2, <4>1, <4>2 DEF ShapeInv, AccountInv
    <3>2. CASE ResolvePromise(c)
      <4>1. Succeeded(c) /\ ~Resolved(c) /\ Resolved(c)'
        BY <3>2, <1>0 DEF ResolvePromise, Settle, Goto, Succeeded, Resolved
      <4>2. \A d \in Connects : ~Resolved(d)
        BY <4>1 DEF ShapeInv, AloneInv, Succeeded, Resolved
      <4>3. samples["sockets"] = 0
        BY <2>2, <4>2 DEF ShapeInv, AccountInv
      <4>4. samples'["sockets"] = 1
        BY <2>2, <3>2, <1>0, <4>3 DEF ResolvePromise, Push, Metrics
      <4> QED
        BY <4>1, <4>4
    <3> QED
      BY <3>1, <3>2
  <2>3. samples'["duration"] = samples["duration"]
    BY <1>0 DEF ResolvePromise, Reject, Push, Metrics
  <2> QED
    BY <1>0, <1>1, <1>3, <2>1, <2>2, <2>3 DEF ShapeInv, AccountInv
<1> QED
  BY <1>4, <1>5, <1>6, <1>7, <1>8, <1>9 DEF ShapeInv

-----------------------------------------------------------------------------
(* Destroying *)

(* Only the script and a read goroutine destroy, and never while there is  *)
(* an attempt to connect.                                                  *)
LEMMA Destroyers ==
    ASSUME ControlInv, ShapeInv, NEW t \in Threads, pc[t] \in Destroying
    PROVE  /\ t \in {Js} \cup Readers
           /\ \A c \in Connects : t # Connector(c) /\ ~Attempting(c)
<1> USE ThreadFacts
<1>1. \A c \in Connects : t # Connector(c)
  BY DEF ShapeInv, PlacesInv, Pending, Destroying, InsideOnce
<1>2. t \in {Js} \cup Readers
  BY <1>1 DEF Threads, Connectors
<1>3. \A c \in Connects : ~Attempting(c)
  <2>1. CASE t = Js
    BY <2>1 DEF ShapeInv, AloneInv
  <2>2. CASE t \in Readers
    <3>1. PICK d \in Connects : t = Reader(d)
      BY <2>2 DEF Readers
    <3>2. pc[Reader(d)] # "none"
      BY <3>1 DEF Destroying, InsideOnce
    <3> QED
      BY <3>2 DEF ShapeInv, AloneInv
  <2> QED
    BY <1>2, <2>1, <2>2
<1> QED
  BY <1>1, <1>2, <1>3

(* What every step of destroy() has in common *)
LEMMA DestroyAdvances ==
    ASSUME IInv, ShapeInv, NEW t \in Threads, pc[t] \in Destroying,
           NEW l \in InsideOnce \cup {AfterDestroy(t)},
           pc' = [pc EXCEPT ![t] = l],
           UNCHANGED <<connectOpts, mu, vuDone, target, endpoints, promise>>,
           conn' \in {conn, None}
    PROVE  /\ PlacesInv' /\ AloneInv' /\ TargetInv'
           /\ pc'[t] = l
           /\ \A u \in Threads : u # t => pc'[u] = pc[u]
           /\ \A c \in Connects : /\ pc'[Connector(c)] = pc[Connector(c)]
                                  /\ pc[Connector(c)] \notin Pending
                                  /\ Succeeded(c)' <=> Succeeded(c)
                                  /\ Resolved(c)' <=> Resolved(c)
           /\ mu' = None
<1> USE ConstantsAssumption, ThreadFacts
<1>0. ControlInv /\ mu \in Connects \cup {None}
  BY DEF IInv, ControlInv, TypeOK
<1>1. /\ t \in {Js} \cup Readers
      /\ \A c \in Connects : t # Connector(c) /\ ~Attempting(c)
  BY <1>0, Destroyers
<1>2. /\ pc'[t] = l
      /\ \A u \in Threads : u # t => pc'[u] = pc[u]
  BY <1>0 DEF ControlInv, TypeOK
<1>3. \A c \in Connects : /\ pc'[Connector(c)] = pc[Connector(c)]
                          /\ pc[Connector(c)] \notin Pending
                          /\ ~Attempting(c)'
                          /\ Succeeded(c)' <=> Succeeded(c)
                          /\ Resolved(c)' <=> Resolved(c)
  BY <1>1, <1>2 DEF Attempting, Succeeded, Resolved
<1>4. \A c \in Connects : pc'[Reader(c)] # "none" => pc[Reader(c)] # "none"
  BY <1>2 DEF Destroying, InsideOnce
<1>5. PlacesInv'
  BY <1>1, <1>2, <1>3 DEF ShapeInv, PlacesInv, AfterDestroy, JsPlaces, ReaderPlaces, Readers
<1>6. AloneInv'
  BY <1>3, <1>4 DEF ShapeInv, AloneInv
<1>7. TargetInv'
  BY <1>0, <1>3 DEF ShapeInv, TargetInv, DialTarget
<1>8. mu = None
  BY <1>0, <1>3 DEF ShapeInv, StateInv, Pending
<1> QED
  BY <1>2, <1>3, <1>5, <1>6, <1>7, <1>8

LEMMA EnterOnceShape ==
    ASSUME IInv, ShapeInv, NEW t \in Threads, EnterOnce(t), once = "new"
    PROVE  ShapeInv'
<1> USE ConstantsAssumption, ThreadFacts
<1>0. /\ conn \in Connects \cup {None} /\ closing \in Connects \cup {None}
      /\ pc[t] = "destroy" /\ once' = "running" /\ pc' = [pc EXCEPT ![t] = "teardown"]
      /\ UNCHANGED <<state, conn, connectOpts, mu, vuDone, closing, live, target, endpoints,
                     samples, promise>>
  BY DEF EnterOnce, Goto, ioVars, IInv, ControlInv, TypeOK
<1>1. /\ PlacesInv' /\ AloneInv' /\ TargetInv'
      /\ pc'[t] = "teardown"
      /\ \A u \in Threads : u # t => pc'[u] = pc[u]
      /\ \A c \in Connects : /\ pc'[Connector(c)] = pc[Connector(c)]
                             /\ pc[Connector(c)] \notin Pending
                             /\ Succeeded(c)' <=> Succeeded(c)
                             /\ Resolved(c)' <=> Resolved(c)
      /\ mu' = None
  BY <1>0, DestroyAdvances DEF Destroying, InsideOnce
<1>2. \A u \in Threads : pc[u] \notin InsideOnce
  BY DEF IInv, OnceInv, OnceIsHeld
<1>3. state # "destroyed" /\ closing = None
  BY DEF ShapeInv, StateInv, OpenInv
<1>4. StateInv'
  BY <1>0, <1>1, <1>2, <1>3 DEF ShapeInv, StateInv, InsideOnce, Pending
<1>5. OpenInv'
  BY <1>0, <1>1, <1>2, <1>3 DEF ShapeInv, OpenInv, InsideOnce, Pending
<1>6. AccountInv'
  BY <1>0, <1>1, <1>3 DEF ShapeInv, AccountInv
<1> QED
  BY <1>1, <1>4, <1>5, <1>6 DEF ShapeInv

(* A destroy() that comes late changes nothing. *)
LEMMA LateDestroyShape ==
    ASSUME IInv, ShapeInv, NEW t \in Threads, EnterOnce(t), once # "new"
    PROVE  ShapeInv'
<1>1. /\ pc[t] = "destroy" /\ UNCHANGED once /\ pc' = [pc EXCEPT ![t] = AfterDestroy(t)]
      /\ UNCHANGED <<state, conn, connectOpts, mu, vuDone, closing, live, target, endpoints,
                     samples, promise>>
  BY DEF EnterOnce, FirstCall, Goto, ioVars
<1>2. ControlInv /\ t \in {Js} \cup Readers
  BY <1>1, Destroyers DEF IInv, Destroying
<1>3. Wanders(t, AfterDestroy(t))
  BY <1>1, <1>2 DEF Wanders, AfterDestroy, InsideOnce, JsPlaces, ReaderPlaces
<1>4. Still
  BY <1>1 DEF Still
<1> QED
  BY <1>1, <1>2, <1>3, <1>4, WanderStep

LEMMA TeardownShape ==
    ASSUME IInv, ShapeInv, NEW t \in Threads, Teardown(t)
    PROVE  ShapeInv'
<1> USE ConstantsAssumption, ThreadFacts
<1>0. /\ conn \in Connects \cup {None} /\ closing \in Connects \cup {None}
      /\ state \in States /\ mu = None
      /\ pc[t] = "teardown" /\ pc' = [pc EXCEPT ![t] = "closeConn"]
      /\ state' = "destroyed" /\ closing' = conn /\ conn' = None
      /\ UNCHANGED <<connectOpts, mu, once, vuDone, live, target, endpoints, samples, promise>>
  BY DEF Teardown, Unlocked, SetDestroyed, TakeConn, Goto, IInv, ControlInv, TypeOK
<1>1. /\ PlacesInv' /\ AloneInv' /\ TargetInv'
      /\ pc'[t] = "closeConn"
      /\ \A u \in Threads : u # t => pc'[u] = pc[u]
      /\ \A c \in Connects : /\ pc'[Connector(c)] = pc[Connector(c)]
                             /\ pc[Connector(c)] \notin Pending
                             /\ Succeeded(c)' <=> Succeeded(c)
                             /\ Resolved(c)' <=> Resolved(c)
      /\ mu' = None
  BY <1>0, DestroyAdvances DEF Destroying, InsideOnce
<1>2. once = "running" /\ \A u \in Threads : u # t => pc[u] \notin InsideOnce
  BY <1>0 DEF IInv, OnceInv, OnceIsHeld, InsideOnce
<1>3. state \in {"disconnected", "open"}
  BY <1>0 DEF ShapeInv, StateInv, IInv, OpeningIsLocked, States
<1>4. /\ conn # None => state = "open" /\ Succeeded(conn) /\ live = {conn}
      /\ conn = None => live = {} /\ \A c \in Connects : ~Succeeded(c)
  BY <1>3 DEF ShapeInv, StateInv, OpenInv, IInv, ConnInv, HoldsLiveConn
<1>5. StateInv'
  BY <1>0, <1>1, <1>2 DEF ShapeInv, StateInv, InsideOnce, Pending
<1>6. OpenInv'
  BY <1>0, <1>1, <1>4 DEF OpenInv, Pending
<1>7. AccountInv'
  <2>1. ~Released /\ ~Released'
    BY <1>0, <1>1, <1>2 DEF Released, InsideOnce
  <2> QED
    BY <1>0, <1>1, <1>4, <2>1 DEF ShapeInv, AccountInv
<1> QED
  BY <1>1, <1>5, <1>6, <1>7 DEF ShapeInv

LEMMA CloseConnShape ==
    ASSUME IInv, ShapeInv, NEW t \in Threads, CloseConn(t)
    PROVE  ShapeInv'
<1> USE ConstantsAssumption, ThreadFacts
<1>0. /\ conn \in Connects \cup {None} /\ closing \in Connects \cup {None}
      /\ samples \in [Metrics -> Nat]
      /\ pc[t] = "closeConn" /\ pc' = [pc EXCEPT ![t] = "close"]
      /\ UNCHANGED <<state, conn, connectOpts, mu, once, vuDone, closing, target, endpoints,
                     promise>>
  BY DEF CloseConn, Goto, sockVars, IInv, ControlInv, TypeOK
<1>1. /\ PlacesInv' /\ AloneInv' /\ TargetInv'
      /\ pc'[t] = "close"
      /\ \A u \in Threads : u # t => pc'[u] = pc[u]
      /\ \A c \in Connects : /\ pc'[Connector(c)] = pc[Connector(c)]
                             /\ pc[Connector(c)] \notin Pending
                             /\ Succeeded(c)' <=> Succeeded(c)
                             /\ Resolved(c)' <=> Resolved(c)
      /\ mu' = None
  BY <1>0, DestroyAdvances DEF Destroying, InsideOnce
<1>2. once = "running" /\ \A u \in Threads : u # t => pc[u] \notin InsideOnce
  BY <1>0 DEF IInv, OnceInv, OnceIsHeld, InsideOnce
<1>3. state = "destroyed"
  BY <1>0 DEF ShapeInv, StateInv
<1>4. live' \subseteq live
  BY DEF CloseConn, Release
<1>5. StateInv'
  BY <1>0, <1>1, <1>2, <1>3 DEF ShapeInv, StateInv, InsideOnce, Pending
<1>6. OpenInv'
  <2>1. \A u \in Threads : pc'[u] # "closeConn"
    BY <1>1, <1>2 DEF InsideOnce
  <2> QED
    BY <1>0, <1>1, <1>3, <1>4, <2>1 DEF ShapeInv, OpenInv, Pending
<1>7. AccountInv'
  <2>1. ~Released /\ Released'
    BY <1>0, <1>1, <1>2 DEF Released, InsideOnce
  <2>2. samples'["sockets"] = samples["sockets"]
    BY <1>0 DEF CloseConn, Release, Push, Metrics
  <2>3. ASSUME ~vuDone
        PROVE  samples'["duration"] = IF closing # None THEN 1 ELSE 0
    <3>1. samples["duration"] = 0
      BY <2>1, <2>3 DEF ShapeInv, AccountInv
    <3> QED
      BY <1>0, <2>3, <3>1 DEF CloseConn, Release, Push, Metrics
  <2> QED
    BY <1>0, <1>1, <2>1, <2>2, <2>3 DEF ShapeInv, AccountInv
<1> QED
  BY <1>1, <1>5, <1>6, <1>7 DEF ShapeInv

LEMMA CancelShape ==
    ASSUME IInv, ShapeInv, NEW t \in Threads, Cancel(t)
    PROVE  ShapeInv'
<1> USE ConstantsAssumption, ThreadFacts
<1>0. /\ conn \in Connects \cup {None} /\ closing \in Connects \cup {None}
      /\ pc[t] = "cancel" /\ pc' = [pc EXCEPT ![t] = AfterDestroy(t)] /\ once' = "done"
      /\ UNCHANGED <<state, conn, connectOpts, mu, vuDone, closing, live, target, endpoints,
                     samples, promise>>
      /\ AfterDestroy(t) \notin InsideOnce
  BY DEF Cancel, Goto, ioVars, IInv, ControlInv, TypeOK, AfterDestroy, InsideOnce
<1>1. /\ PlacesInv' /\ AloneInv' /\ TargetInv'
      /\ pc'[t] = AfterDestroy(t)
      /\ \A u \in Threads : u # t => pc'[u] = pc[u]
      /\ \A c \in Connects : /\ pc'[Connector(c)] = pc[Connector(c)]
                             /\ pc[Connector(c)] \notin Pending
                             /\ Succeeded(c)' <=> Succeeded(c)
                             /\ Resolved(c)' <=> Resolved(c)
      /\ mu' = None
  BY <1>0, DestroyAdvances DEF Destroying, InsideOnce
<1>2. \A u \in Threads : u # t => pc[u] \notin InsideOnce
  BY <1>0 DEF IInv, OnceInv, OnceIsHeld, InsideOnce
<1>3. state = "destroyed"
  BY <1>0 DEF ShapeInv, StateInv
<1>4. StateInv'
  BY <1>0, <1>1, <1>2, <1>3 DEF ShapeInv, StateInv, InsideOnce, Pending
<1>5. OpenInv'
  <2>1. \A u \in Threads : pc'[u] # "closeConn"
    BY <1>0, <1>1, <1>2 DEF InsideOnce
  <2> QED
    BY <1>0, <1>1, <1>3, <2>1 DEF ShapeInv, OpenInv, Pending
<1>6. AccountInv'
  <2>1. Released /\ Released'
    BY <1>0 DEF Released
  <2> QED
    BY <1>0, <1>1, <2>1 DEF ShapeInv, AccountInv
<1> QED
  BY <1>1, <1>4, <1>5, <1>6 DEF ShapeInv

-----------------------------------------------------------------------------
(* Every step *)

LEMMA VuStopsShape ==
    ASSUME ControlInv, ShapeInv, VuStops
    PROVE  ShapeInv'
<1>0. /\ vuDone' = TRUE
      /\ UNCHANGED <<state, conn, connectOpts, mu, once, closing, live, target, endpoints,
                     promise, pc>>
      /\ conn \in Connects \cup {None} /\ closing \in Connects \cup {None}
  BY DEF VuStops, sockVars, ioVars, ControlInv, TypeOK
<1>1. PlacesInv' /\ AloneInv'
  BY <1>0 DEF ShapeInv, PlacesInv, AloneInv, Attempting, Succeeded
<1>2. StateInv'
  BY <1>0 DEF ShapeInv, StateInv, Succeeded
<1>3. OpenInv'
  BY <1>0 DEF ShapeInv, OpenInv, Succeeded
<1>4. TargetInv'
  BY <1>0 DEF ShapeInv, TargetInv, DialTarget
<1>5. AccountInv'
  BY <1>0 DEF ShapeInv, AccountInv, Succeeded
<1> QED
  BY <1>1, <1>2, <1>3, <1>4, <1>5 DEF ShapeInv

LEMMA HandleErrorShape ==
    ASSUME ControlInv, ShapeInv, NEW t \in Threads, HandleError(t)
    PROVE  ShapeInv'
<1>1. pc[t] = "handleError" /\ pc' = [pc EXCEPT ![t] = "error"] /\ UNCHANGED once
  BY DEF HandleError, Goto, sockVars
<1>2. Still
  BY AttemptSamples DEF HandleError, Still, sockVars, ioVars
<1>3. CASE t \in Connectors
  BY <1>1, <1>2, <1>3, ConnectorMoves DEF Connectors
<1>4. CASE t \notin Connectors
  <2>1. Wanders(t, "error")
    BY <1>1, <1>4 DEF Wanders, Threads, InsideOnce, JsPlaces, ReaderPlaces
  <2> QED
    BY <1>1, <1>2, <2>1, WanderStep
<1> QED
  BY <1>3, <1>4

(* A read goroutine moves on. *)
LEMMA ReadShape ==
    ASSUME ControlInv, ShapeInv, NEW c \in Connects, PeerStep(c) \/ ReadStep(c)
    PROVE  ShapeInv'
<1> USE DEF Still, sockVars, ioVars
<1> DEFINE MovesOn == /\ Still /\ UNCHANGED once
                      /\ pc[Reader(c)] \in {"loop", "snapshot", "read", "afterRead"}
                      /\ \E l \in ReaderPlaces : pc' = [pc EXCEPT ![Reader(c)] = l]
<1>1. MovesOn
  <2>1. ASSUME NEW err \in {"nil", "eof", "other"}, ReadData(c, err) PROVE MovesOn
    BY <2>1, AttemptSamples DEF ReadData, ReadReturns, Goto, ReaderPlaces
  <2>2. ASSUME NEW err \in {"eof", "other"}, ReadFails(c, err) PROVE MovesOn
    BY <2>2 DEF ReadFails, ReadReturns, Goto, ReaderPlaces
  <2>3. CASE ReadTimesOut(c)
    BY <2>3 DEF ReadTimesOut, ReadReturns, Goto, ReaderPlaces
  <2>4. CASE LoopTest(c)
    BY <2>4 DEF LoopTest, isReadable, Goto, ReaderPlaces
  <2>5. CASE Snapshot(c)
    BY <2>5 DEF Snapshot, Goto, ReaderPlaces
  <2>6. CASE ReadClosed(c)
    BY <2>6 DEF ReadClosed, ReadReturns, Goto, ReaderPlaces
  <2>7. CASE AfterRead(c)
    <3>1. readErr[c] \in {"nil", "eof", "timeout", "other"}
      BY DEF ControlInv, TypeOK
    <3>2. \E l \in ReaderPlaces : pc' = [pc EXCEPT ![Reader(c)] = l]
      BY <2>7, <3>1 DEF AfterRead, isReadable, Goto, ReaderPlaces
    <3> QED
      BY <2>7, <3>2 DEF AfterRead, isReadable
  <2> QED
    BY <2>1, <2>2, <2>3, <2>4, <2>5, <2>6, <2>7 DEF PeerStep, ReadStep
<1>2. PICK l \in ReaderPlaces : pc' = [pc EXCEPT ![Reader(c)] = l]
  BY <1>1
<1>3. Wanders(Reader(c), l)
  BY <1>1, <1>2, ThreadFacts DEF Wanders, Readers, InsideOnce
<1> HIDE DEF Still
<1> QED
  BY <1>1, <1>3, WanderStep

LEMMA ShapeStep ==
    ASSUME IInv, ToldInv, ShapeInv, [Next]_vars, Script = "careful", DeadlineMayFail = FALSE
    PROVE  ShapeInv'
<1>0. ControlInv
  BY DEF IInv
<1> USE <1>0, ConstantsAssumption, ThreadFacts
<1>1. ASSUME NEW e \in ScriptEvents, JsOn(e) PROVE ShapeInv'
  BY <1>1, StandStill DEF JsOn, Still, ioVars
<1>2. ASSUME NEW c \in Connects, JsConnect(c) PROVE ShapeInv'
  BY <1>2, ConnectShape
<1>3. ASSUME NEW r \in Invalid, JsInvalid(r) PROVE ShapeInv'
  <2>1. Still /\ UNCHANGED once
    BY <1>3 DEF JsInvalid, Settle, Still, sockVars, ioVars, ControlInv, TypeOK
  <2>2. Wanders(Js, "handleError")
    BY <1>3 DEF JsInvalid, Goto, Wanders, InsideOnce, JsPlaces
  <2> QED
    BY <2>1, <2>2, WanderStep
<1>4. ASSUME JsDestroy PROVE ShapeInv'
  <2>1. \A c \in Connects : ~Attempting(c)
    BY <1>4, NoneAttempting DEF JsDestroy
  <2>2. Still /\ UNCHANGED once
    BY <1>4 DEF JsDestroy, Still, sockVars, ioVars
  <2>3. Wanders(Js, "destroy")
    BY <1>4, <2>1 DEF JsDestroy, Goto, Wanders, InsideOnce, JsPlaces
  <2> QED
    BY <2>2, <2>3, WanderStep
<1>5. ASSUME JsHandle PROVE ShapeInv'
  BY <1>5, StandStill DEF JsHandle, Still, sockVars, ioVars
<1>6. ASSUME NEW r \in Invalid, JsReject(r) PROVE ShapeInv'
  <2>1. Still /\ UNCHANGED once
    BY <1>6 DEF JsReject, RejectPromise, Settle, Still, sockVars, ioVars, ControlInv, TypeOK
  <2>2. Wanders(Js, "idle")
    BY <1>6 DEF JsReject, Goto, Wanders, InsideOnce, JsPlaces
  <2> QED
    BY <2>1, <2>2, WanderStep
<1>7. ASSUME NEW c \in Connects, ConnectStep(c) PROVE ShapeInv'
  BY <1>7, LockShape, ResolveShape, DialShape, EstablishedShape, HandshakeFailsShape,
     StartReadShape, SettleShape DEF ConnectStep, DeadlineFails
<1>8. ASSUME NEW c \in Connects, PeerStep(c) \/ ReadStep(c) PROVE ShapeInv'
  BY <1>8, ReadShape
<1>9. ASSUME NEW t \in Threads, DestroyStep(t) PROVE ShapeInv'
  BY <1>9, EnterOnceShape, LateDestroyShape, TeardownShape, CloseConnShape, CancelShape
     DEF DestroyStep
<1>10. ASSUME NEW t \in Threads, HandleError(t) PROVE ShapeInv'
  BY <1>10, HandleErrorShape
<1>11. ASSUME NEW t \in Threads, Fire(t) PROVE ShapeInv'
  <2>1. Still /\ UNCHANGED once
    BY <1>11 DEF Fire, Still, sockVars, ioVars
  <2>2. pc[t] \in Events /\ (UNCHANGED pc \/ Goto(t, AfterFire(t)))
    BY <1>11 DEF Fire
  <2> QED
    BY <2>1, <2>2, StandStill, FireReturns
<1>12. ASSUME NEW t \in Threads, Receive(t) \/ GiveUp(t) PROVE ShapeInv'
  <2>1. Still /\ UNCHANGED once
    BY <1>12 DEF Receive, GiveUp, Still, sockVars, ioVars
  <2>2. pc[t] \in Events /\ Goto(t, AfterFire(t))
    BY <1>12 DEF Receive, GiveUp, ControlInv, SendersFire
  <2> QED
    BY <2>1, <2>2, FireReturns
<1>13. ASSUME LoopStops PROVE ShapeInv'
  BY <1>13, StandStill DEF LoopStops, Still, sockVars, ioVars
<1>14. ASSUME VuStops PROVE ShapeInv'
  BY <1>14, VuStopsShape
<1>15. ASSUME UNCHANGED vars PROVE ShapeInv'
  BY <1>15, StandStill DEF vars, Still, sockVars, ioVars
<1> QED
  BY <1>1, <1>2, <1>3, <1>4, <1>5, <1>6, <1>7, <1>8, <1>9, <1>10, <1>11, <1>12,
     <1>13, <1>14, <1>15 DEF Next, ScriptStep, FireStep

(* Only the loop hands events to the task queue. *)
LEMMA EventSteps ==
    ASSUME [Next]_vars
    PROVE  UNCHANGED <<events, handled>> \/ JsHandle \/ \E t \in Threads : Receive(t)
<1> USE DEF evtVars
<1>1. CASE ScriptStep \/ JsHandle \/ \E r \in Invalid : JsReject(r)
  BY <1>1 DEF ScriptStep, JsOn, JsConnect, JsInvalid, JsDestroy, JsReject
<1>2. ASSUME NEW c \in Connects, ConnectStep(c) PROVE UNCHANGED <<events, handled>>
  BY <1>2 DEF ConnectStep, Lock, Resolve, Dial, Established, HandshakeFails, DeadlineFails,
     StartRead, ResolvePromise, Reject
<1>3. ASSUME NEW c \in Connects, PeerStep(c) \/ ReadStep(c) PROVE UNCHANGED <<events, handled>>
  BY <1>3 DEF PeerStep, ReadStep, ReadData, ReadFails, ReadTimesOut, ReadClosed, ReadReturns,
     LoopTest, isReadable, Snapshot, AfterRead
<1>4. ASSUME NEW t \in Threads, DestroyStep(t) PROVE UNCHANGED <<events, handled>>
  BY <1>4 DEF DestroyStep, EnterOnce, Teardown, CloseConn, Cancel
<1>5. ASSUME NEW t \in Threads, FireStep(t), ~Receive(t) PROVE UNCHANGED <<events, handled>>
  BY <1>5 DEF FireStep, HandleError, Fire, GiveUp
<1>6. CASE LoopStops \/ VuStops \/ UNCHANGED vars
  BY <1>6 DEF LoopStops, VuStops, vars
<1> QED
  BY <1>1, <1>2, <1>3, <1>4, <1>5, <1>6 DEF Next

(* Where the connectors are, and what they promised, changes only by their *)
(* own steps and by connect().                                             *)
LEMMA TellSteps ==
    ASSUME IInv, PlacesInv, [Next]_vars, NEW c \in Connects,
           pc'[Connector(c)] \in Pending \cup {"none"}
    PROVE  \/ pc[Connector(c)] \in Pending /\ promise'[c] = promise[c]
           \/ pc[Connector(c)] = "none" /\ promise'[c] = "pending" /\ JsConnect(c)
           \/ pc[Connector(c)] = "none" /\ pc'[Connector(c)] = "none"
<1> DEFINE Goal == \/ pc[Connector(c)] \in Pending /\ promise'[c] = promise[c]
                   \/ pc[Connector(c)] = "none" /\ promise'[c] = "pending" /\ JsConnect(c)
                   \/ pc[Connector(c)] = "none" /\ pc'[Connector(c)] = "none"
<1> USE ConstantsAssumption, ThreadFacts DEF IInv, ControlInv, TypeOK, Pending, Goto
<1>1. ASSUME ScriptStep PROVE Goal
  <2>1. ASSUME NEW d \in Connects, JsConnect(d) PROVE Goal
    <3>1. CASE d = c
      BY <2>1, <3>1 DEF JsConnect, Settle, OneGoroutinePerCall
    <3>2. CASE d # c
      BY <2>1, <3>2 DEF JsConnect, Settle
    <3> QED
      BY <3>1, <3>2
  <2>2. CASE ~\E d \in Connects : JsConnect(d)
    BY <1>1, <2>2 DEF ScriptStep, JsOn, JsInvalid, JsDestroy, Settle
  <2> QED
    BY <2>1, <2>2
<1>2. ASSUME JsHandle \/ \E r \in Invalid : JsReject(r) PROVE Goal
  BY <1>2 DEF JsHandle, JsReject, RejectPromise, Settle
<1>3. ASSUME NEW d \in Connects, ConnectStep(d) PROVE Goal
  <2>1. CASE Lock(d) \/ Resolve(d) \/ Dial(d)
    <3>1. promise' = promise /\ pc[Connector(d)] \in Pending
      BY <2>1 DEF Lock, Resolve, Dial
    <3>2. \E l : pc' = [pc EXCEPT ![Connector(d)] = l]
      BY <2>1 DEF Lock, Resolve, Dial, ConnectFails
    <3> QED
      BY <3>1, <3>2
  <2>2. CASE Established(d) \/ HandshakeFails(d) \/ DeadlineFails(d)
    <3>1. promise' = promise /\ pc[Connector(d)] \in Pending
      BY <2>2 DEF Established, HandshakeFails, DeadlineFails
    <3>2. \E l : pc' = [pc EXCEPT ![Connector(d)] = l]
      BY <2>2 DEF Established, HandshakeFails, DeadlineFails, ConnectFails, FiresConnect
    <3> QED
      BY <3>1, <3>2
  <2>3. CASE StartRead(d)
    BY <2>3 DEF StartRead
  <2>4. CASE ResolvePromise(d) \/ Reject(d)
    BY <2>4 DEF ResolvePromise, Reject, RejectPromise, Settle
  <2> QED
    BY <1>3, <2>1, <2>2, <2>3, <2>4 DEF ConnectStep
<1>4. ASSUME NEW d \in Connects, PeerStep(d) \/ ReadStep(d) PROVE Goal
  BY <1>4 DEF PeerStep, ReadStep, ReadData, ReadFails, ReadTimesOut, ReadClosed, ReadReturns,
     LoopTest, isReadable, Snapshot, AfterRead
<1>5. ASSUME NEW t \in Threads, DestroyStep(t) PROVE Goal
  BY <1>5 DEF DestroyStep, EnterOnce, Teardown, CloseConn, Cancel, AfterDestroy
<1>6. ASSUME NEW t \in Threads, FireStep(t) PROVE Goal
  <2>1. /\ promise' = promise /\ pc[t] \in Events \cup {"handleError"}
        /\ pc' = pc \/ \E l : pc' = [pc EXCEPT ![t] = l]
    BY <1>6 DEF FireStep, HandleError, Fire, Receive, GiveUp, SendersFire
  <2>2. pc[Connector(c)] \in Pending \/ pc'[Connector(c)] = pc[Connector(c)]
    BY <2>1 DEF PlacesInv, Events
  <2> QED
    BY <2>1, <2>2
<1>7. ASSUME LoopStops \/ VuStops \/ UNCHANGED vars PROVE Goal
  BY <1>7 DEF LoopStops, VuStops, vars
<1> HIDE DEF Goal, IInv, ControlInv, TypeOK, Pending, Goto
<1>8. Goal
  BY <1>1, <1>2, <1>3, <1>4, <1>5, <1>6, <1>7 DEF Next
<1> QED
  BY <1>8 DEF Goal

(* Every step keeps what the script was told true. *)
LEMMA ToldStep ==
    ASSUME IInv, ToldInv, PlacesInv, [Next]_vars
    PROVE  ToldInv'
<1> USE ThreadFacts
<1>0. /\ events \in Seq([name : Events, by : Threads]) /\ handled \in Nat
      /\ ControlInv
  BY DEF IInv, ControlInv, TypeOK
<1>1. ASSUME NEW c \in Connects, Attempting(c)' PROVE promise'[c] = "pending"
  <2>1. pc'[Connector(c)] \in Pending /\ pc'[Connector(c)] # "none"
    BY <1>1 DEF Attempting, Pending
  <2> QED
    BY <2>1, TellSteps DEF ToldInv, Attempting
<1>2. ASSUME NEW c \in Connects, NEW i \in 1..Len(events), Sent(i, Connector(c))
      PROVE  pc'[Connector(c)] \notin Pending \cup {"none"}
  BY <1>2, TellSteps DEF ToldInv
<1>3. CASE UNCHANGED <<events, handled>> \/ JsHandle
  <2>1. UNCHANGED events /\ handled' <= Len(events')
    BY <1>0, <1>3 DEF JsHandle, ToldInv
  <2>2. \A c \in Connects, i \in 1..Len(events') :
           Sent(i, Connector(c))' => pc'[Connector(c)] \notin Pending \cup {"none"}
    BY <1>2, <2>1 DEF Sent
  <2> QED
    BY <1>1, <2>1, <2>2 DEF ToldInv
<1>4. ASSUME NEW t \in Threads, Receive(t) PROVE ToldInv'
  <2>1. /\ Len(events') = Len(events) + 1 /\ Len(events) \in Nat
        /\ \A i \in 1..Len(events) : events'[i] = events[i]
        /\ events'[Len(events) + 1] = [name |-> pc[t], by |-> t]
        /\ UNCHANGED handled
    BY <1>0, <1>4 DEF Receive
  <2>2. ASSUME NEW c \in Connects, t = Connector(c)
        PROVE  pc'[Connector(c)] \notin Pending \cup {"none"}
    <3>1. pc[t] \in {"connect", "error"} /\ t \notin Readers
      BY <1>0, <1>4, <2>2 DEF Receive, ControlInv, SendersFire, Events, PlacesInv, Pending, Readers
    <3>2. pc'[t] \in {"startRead", "reject"}
      BY <1>0, <1>4, <3>1, AfterFireCases DEF Receive, Goto, ControlInv, TypeOK
    <3> QED
      BY <2>2, <3>2 DEF Pending
  <2>3. ASSUME NEW c \in Connects, NEW i \in 1..Len(events'), Sent(i, Connector(c))'
        PROVE  pc'[Connector(c)] \notin Pending \cup {"none"}
    <3>1. CASE i = Len(events) + 1
      BY <2>1, <2>2, <2>3, <3>1 DEF Sent
    <3>2. CASE i \in 1..Len(events)
      BY <1>2, <2>1, <2>3, <3>2 DEF Sent
    <3> QED
      BY <2>1, <3>1, <3>2
  <2>4. handled' <= Len(events')
    BY <1>0, <2>1 DEF ToldInv
  <2> QED
    BY <1>1, <2>3, <2>4 DEF ToldInv
<1> QED
  BY <1>3, <1>4, EventSteps

(* A connect event comes from an attempt, and then nothing has been        *)
(* destroyed.                                                              *)
LEMMA CloseStep ==
    ASSUME IInv, ShapeInv, ConnectBeforeClose, [Next]_vars
    PROVE  ConnectBeforeClose'
<1> USE ThreadFacts
<1>0. /\ events \in Seq([name : Events, by : Threads])
      /\ ControlInv /\ OnceInv
  BY DEF IInv, ControlInv, TypeOK
<1>1. CASE UNCHANGED events
  BY <1>1 DEF ConnectBeforeClose, Named
<1>2. ASSUME NEW t \in Threads, Receive(t) PROVE ConnectBeforeClose'
  <2>1. /\ Len(events') = Len(events) + 1 /\ Len(events) \in Nat
        /\ \A i \in 1..Len(events) : events'[i] = events[i]
        /\ events'[Len(events) + 1].name = pc[t]
    BY <1>0, <1>2 DEF Receive
  <2>2. pc[t] = "connect" => \A j \in 1..Len(events) : ~Named(j, "close")
    <3> SUFFICES ASSUME pc[t] = "connect"
                 PROVE  \A j \in 1..Len(events) : ~Named(j, "close")
      OBVIOUS
    <3>1. PICK c \in Connects : t = Connector(c)
      BY DEF Threads, Connectors, Readers, ShapeInv, PlacesInv, JsPlaces, ReaderPlaces, InsideOnce
    <3>2. once = "new" /\ \A u \in Threads : pc[u] \notin InsideOnce
      BY <1>0, <3>1, Undisturbed DEF Attempting, Pending
    <3> QED
      BY <1>0, <3>2 DEF OnceInv, CloseByOnce, InsideOnce
  <2>3. ASSUME NEW i \in 1..Len(events'), NEW j \in 1..Len(events'),
               Named(i, "connect")', Named(j, "close")'
        PROVE  i < j
    <3>1. CASE i = Len(events) + 1
      <4>1. pc[t] = "connect"
        BY <2>1, <2>3, <3>1 DEF Named
      <4>2. j \in 1..Len(events)
        BY <2>1, <2>3, <4>1 DEF Named
      <4> QED
        BY <2>1, <2>2, <2>3, <4>1, <4>2 DEF Named
    <3>2. CASE i \in 1..Len(events) /\ j = Len(events) + 1
      BY <2>1, <3>2
    <3>3. CASE i \in 1..Len(events) /\ j \in 1..Len(events)
      BY <2>1, <2>3, <3>3 DEF Named, ConnectBeforeClose
    <3> QED
      BY <2>1, <3>1, <3>2, <3>3
  <2> QED
    BY <2>3 DEF ConnectBeforeClose
<1>3. JsHandle => UNCHANGED events
  BY DEF JsHandle
<1> QED
  BY <1>1, <1>2, <1>3, EventSteps

LEMMA InitCareful == Init => CarefulInv
<1> SUFFICES ASSUME Init PROVE CarefulInv
  OBVIOUS
<1> USE ConstantsAssumption, ThreadFacts DEF Init
<1>1. /\ pc[Js] = "idle"
      /\ \A c \in Connects : pc[Connector(c)] = "none" /\ pc[Reader(c)] = "none"
      /\ \A t \in Threads : pc[t] \notin InsideOnce
  BY DEF InsideOnce
<1>2. \A c \in Connects : ~Attempting(c) /\ ~Succeeded(c) /\ ~Resolved(c)
  BY <1>1 DEF Attempting, Pending, Succeeded, Resolved
<1>3. PlacesInv /\ AloneInv
  BY <1>1, <1>2 DEF PlacesInv, AloneInv, JsPlaces
<1>4. StateInv
  BY <1>1, <1>2 DEF StateInv, InsideOnce
<1>5. OpenInv
  BY <1>1, <1>2 DEF OpenInv
<1>6. TargetInv
  BY <1>1 DEF TargetInv, DialTarget
<1>7. AccountInv
  BY <1>2 DEF AccountInv, Metrics
<1>8. ToldInv /\ ConnectBeforeClose
  BY <1>2 DEF ToldInv, ConnectBeforeClose
<1> QED
  BY <1>3, <1>4, <1>5, <1>6, <1>7, <1>8 DEF CarefulInv, ShapeInv

-----------------------------------------------------------------------------
(* What a careful script can rely on.  The read deadline of a fresh        *)
(* connection can be set.                                                  *)

(* A careful script always finds the socket in the shape that CarefulInv   *)
(* describes: one attempt at a time, state, lock, connection and samples   *)
(* as the places of the goroutines say.                                    *)
THEOREM CarefulInvariant ==
    ASSUME Script = "careful", DeadlineMayFail = FALSE
    PROVE  Spec => [](IInv /\ CarefulInv)
<1>1. Init => IInv /\ CarefulInv
  BY InitIInv, InitCareful
<1>2. IInv /\ CarefulInv /\ [Next]_vars => IInv' /\ CarefulInv'
  <2> SUFFICES ASSUME IInv, CarefulInv, [Next]_vars PROVE IInv' /\ CarefulInv'
    OBVIOUS
  <2>1. ToldInv /\ ShapeInv /\ PlacesInv /\ ConnectBeforeClose
    BY DEF CarefulInv, ShapeInv
  <2>2. IInv'
    BY ControlStep, OnceStep, ConnStep, OrderStep, OpeningStep DEF IInv
  <2>3. ToldInv' /\ ShapeInv' /\ ConnectBeforeClose'
    BY <2>1, ToldStep, ShapeStep, CloseStep
  <2> QED
    BY <2>2, <2>3 DEF CarefulInv
<1> QED
  BY <1>1, <1>2, PTL DEF Spec

(* destroy() leaves no connection of the socket open: there is never a     *)
(* connection that neither the socket nor destroy() knows of.              *)
THEOREM DestroyLeaksNothing ==
    ASSUME Script = "careful", DeadlineMayFail = FALSE
    PROVE  Spec => []NoLeak
<1>1. IInv /\ CarefulInv => NoLeak
  BY DEF CarefulInv, ShapeInv, StateInv, OpenInv, IInv, ConnInv, ReleasedAtClose, NoLeak
<1> QED
  BY CarefulInvariant, <1>1, PTL

(* Every connection is dialled with the host, the port and the TLS flag of *)
(* its own call of connect(), although these are read at three different   *)
(* moments from options that are shared.                                   *)
THEOREM DialledAsAsked ==
    ASSUME Script = "careful", DeadlineMayFail = FALSE
    PROVE  Spec => []DialTarget
<1>1. CarefulInv => DialTarget
  BY DEF CarefulInv, ShapeInv, TargetInv
<1> QED
  BY CarefulInvariant, <1>1, PTL

(* The addresses a socket reports are those of the connection it holds. *)
THEOREM AddressesAreCurrent ==
    ASSUME Script = "careful", DeadlineMayFail = FALSE
    PROVE  Spec => []EndpointsMatch
<1>1. CarefulInv => EndpointsMatch
  BY DEF CarefulInv, ShapeInv, TargetInv, EndpointsMatch, remoteIP, localIP
<1> QED
  BY CarefulInvariant, <1>1, PTL

(* A socket never has two read goroutines, so that s.readBuf, which is not *)
(* locked, has one user.                                                   *)
THEOREM ReadersAreAlone ==
    ASSUME Script = "careful", DeadlineMayFail = FALSE
    PROVE  Spec => []OneReader
<1>1. CarefulInv => OneReader
  <2> SUFFICES ASSUME CarefulInv, NEW c \in Connects, NEW d \in Connects,
                      pc[Reader(c)] \in {"snapshot", "read", "data"},
                      pc[Reader(d)] \in {"snapshot", "read", "data"}
               PROVE  c = d
    BY DEF OneReader
  <2>1. Succeeded(c) /\ Succeeded(d)
    BY DEF CarefulInv, ShapeInv, AloneInv
  <2> QED
    BY <2>1 DEF CarefulInv, ShapeInv, AloneInv
<1> QED
  BY CarefulInvariant, <1>1, PTL

(* No close event overtakes the connect event. *)
THEOREM CloseComesLast ==
    ASSUME Script = "careful", DeadlineMayFail = FALSE
    PROVE  Spec => []ConnectBeforeClose
<1>1. CarefulInv => ConnectBeforeClose
  BY DEF CarefulInv
<1> QED
  BY CarefulInvariant, <1>1, PTL

(* A socket that has been destroyed has reported one duration for every    *)
(* connection it has counted.                                              *)
THEOREM SamplesBalance ==
    ASSUME Script = "careful", DeadlineMayFail = FALSE
    PROVE  Spec => []SocketAccounting
<1>1. IInv /\ CarefulInv => SocketAccounting
  <2> SUFFICES ASSUME IInv, CarefulInv, once = "done", ~vuDone,
                      \A t \in Threads : pc[t] \in {"none", "idle", "done"}
               PROVE  samples["duration"] = samples["sockets"]
    BY DEF SocketAccounting
  <2>1. /\ state = "destroyed" /\ Released
        /\ closing \in Connects \cup {None}
    BY DEF CarefulInv, ShapeInv, StateInv, Released, IInv, ControlInv, TypeOK
  <2>2. /\ samples["sockets"] = IF \E c \in Connects : Resolved(c) THEN 1 ELSE 0
        /\ samples["duration"] = IF closing # None /\ Released THEN 1 ELSE 0
    BY DEF CarefulInv, ShapeInv, AccountInv
  <2>3. CASE closing # None
    <3>1. Succeeded(closing)
      BY <2>3 DEF CarefulInv, ShapeInv, AccountInv
    <3>2. Resolved(closing)
      BY <2>1, <2>3, <3>1, ThreadFacts DEF Succeeded, Resolved
    <3> QED
      BY <2>1, <2>2, <2>3, <3>2
  <2>4. CASE closing = None
    <3>1. \A c \in Connects : ~Resolved(c)
      BY <2>1, <2>4 DEF CarefulInv, ShapeInv, AccountInv, Succeeded, Resolved
    <3> QED
      BY <2>2, <2>4, <3>1
  <2> QED
    BY <2>3, <2>4
<1> QED
  BY CarefulInvariant, <1>1, PTL

-----------------------------------------------------------------------------
(* The contract *)

(* Steps that the contract does not see. *)
LEMMA UnseenSteps ==
    ASSUME [Next]_vars
    PROVE  \/ UNCHANGED <<state, live, events>>
           \/ \E c \in Connects : \/ Lock(c) \/ Resolve(c) \/ Dial(c) \/ Established(c)
                                  \/ HandshakeFails(c) \/ DeadlineFails(c)
           \/ \E t \in Threads : Teardown(t) \/ CloseConn(t) \/ Receive(t)
<1> DEFINE Same == UNCHANGED <<state, live, events>>
<1> USE DEF sockVars, evtVars, ioVars
<1>1. ASSUME ScriptStep \/ JsHandle \/ \E r \in Invalid : JsReject(r) PROVE Same
  BY <1>1 DEF ScriptStep, JsOn, JsConnect, JsInvalid, JsDestroy, JsHandle, JsReject
<1>2. ASSUME NEW c \in Connects, StartRead(c) \/ ResolvePromise(c) \/ Reject(c) PROVE Same
  BY <1>2 DEF StartRead, ResolvePromise, Reject
<1>3. ASSUME NEW c \in Connects, PeerStep(c) \/ ReadStep(c) PROVE Same
  BY <1>3 DEF PeerStep, ReadStep, ReadData, ReadFails, ReadTimesOut, ReadClosed, ReadReturns,
     LoopTest, isReadable, Snapshot, AfterRead
<1>4. ASSUME NEW t \in Threads, EnterOnce(t) \/ Cancel(t) PROVE Same
  BY <1>4 DEF EnterOnce, Cancel
<1>5. ASSUME NEW t \in Threads, HandleError(t) \/ Fire(t) \/ GiveUp(t) PROVE Same
  BY <1>5 DEF HandleError, Fire, GiveUp
<1>6. ASSUME LoopStops \/ VuStops \/ UNCHANGED vars PROVE Same
  BY <1>6 DEF LoopStops, VuStops, vars
<1> HIDE DEF Same
<1>7. \/ Same
      \/ \E c \in Connects : \/ Lock(c) \/ Resolve(c) \/ Dial(c) \/ Established(c)
                             \/ HandshakeFails(c) \/ DeadlineFails(c)
      \/ \E t \in Threads : Teardown(t) \/ CloseConn(t) \/ Receive(t)
  BY <1>1, <1>2, <1>3, <1>4, <1>5, <1>6 DEF Next, ConnectStep, DestroyStep, FireStep
<1> QED
  BY <1>7 DEF Same

(* The close event is a Boolean that only a new event changes. *)
LEMMA CloseQueuedSame ==
    ASSUME UNCHANGED events
    PROVE  CloseQueued' = CloseQueued
  BY DEF CloseQueued, Named

(* An error return of connectExecute() is a failed attempt of the contract. *)
LEMMA FailureSeen ==
    ASSUME ShapeInv, NEW c \in Connects, pc[Connector(c)] \in Underway,
           ConnectFails(c), live' = {}, UNCHANGED events
    PROVE  Abstract!Next
<1>1. state = "opening" /\ state' = "disconnected"
  BY DEF ShapeInv, StateInv, Underway, ConnectFails
<1> QED
  BY <1>1, CloseQueuedSame DEF Abstract!Next, Abstract!ConnectFails

LEMMA ContractStep ==
    ASSUME IInv, CarefulInv, [Next]_vars, Script = "careful", DeadlineMayFail = FALSE
    PROVE  [Abstract!Next]_(Abstract!vars)
<1>0. /\ ShapeInv /\ OnceInv /\ ControlInv /\ ConnInv
      /\ events \in Seq([name : Events, by : Threads])
  BY DEF CarefulInv, IInv, ControlInv, TypeOK
<1> USE <1>0
<1>1. ASSUME UNCHANGED <<state, live, events>> PROVE UNCHANGED (Abstract!vars)
  BY <1>1, CloseQueuedSame DEF Abstract!vars
<1>2. ASSUME NEW c \in Connects, Lock(c) PROVE Abstract!Next
  <2>1. UNCHANGED <<live, events>> /\ state = "disconnected" /\ state' = "opening"
    BY <1>2 DEF Lock, evtVars, ShapeInv, StateInv
  <2> QED
    BY <2>1, CloseQueuedSame DEF Abstract!Next, Abstract!Connect
<1>3. ASSUME NEW c \in Connects, Resolve(c)
      PROVE  Abstract!Next \/ UNCHANGED (Abstract!vars)
  <2>1. UNCHANGED <<live, events>> /\ live = {} /\ pc[Connector(c)] \in Underway
    BY <1>3 DEF Resolve, evtVars, ShapeInv, OpenInv, Underway
  <2>2. UNCHANGED state \/ ConnectFails(c)
    BY <1>3 DEF Resolve
  <2> QED
    BY <1>1, <2>1, <2>2, FailureSeen
<1>4. ASSUME NEW c \in Connects, Dial(c) PROVE Abstract!Next
  <2>1. /\ UNCHANGED events /\ live = {} /\ state = "opening"
        /\ pc[Connector(c)] \in Underway
    BY <1>4 DEF Dial, evtVars, ShapeInv, StateInv, OpenInv, Underway
  <2>2. CASE ConnectFails(c) /\ UNCHANGED live
    BY <2>1, <2>2, FailureSeen
  <2>3. CASE live' = live \cup {c} /\ UNCHANGED state
    <3>1. live' = {c}
      BY <2>1, <2>3
    <3> QED
      BY <2>1, <2>3, <3>1, CloseQueuedSame DEF Abstract!Next, Abstract!Dial
  <2> QED
    BY <1>4, <2>2, <2>3 DEF Dial
<1>5. ASSUME NEW c \in Connects, Established(c) PROVE Abstract!Next
  <2>1. /\ UNCHANGED <<live, events>> /\ live # {} /\ state = "opening"
        /\ state' = "open"
    BY <1>5 DEF Established, evtVars, ShapeInv, StateInv, OpenInv
  <2> QED
    BY <2>1, CloseQueuedSame DEF Abstract!Next, Abstract!Established
<1>6. ASSUME NEW c \in Connects, HandshakeFails(c) PROVE Abstract!Next
  <2>1. /\ UNCHANGED events /\ live' = {} /\ pc[Connector(c)] \in Underway
        /\ ConnectFails(c)
    BY <1>6 DEF HandshakeFails, CloseFailed, evtVars, ShapeInv, OpenInv, Underway
  <2> QED
    BY <2>1, FailureSeen
<1>7. ASSUME NEW t \in Threads, Teardown(t) PROVE Abstract!Next
  <2>1. UNCHANGED <<live, events>> /\ state' = "destroyed"
    BY <1>7 DEF Teardown, SetDestroyed, evtVars
  <2>2. state \in {"disconnected", "open"}
    BY <1>7 DEF Teardown, Unlocked, ShapeInv, StateInv, IInv, OpeningIsLocked, ControlInv, TypeOK,
       States
  <2> QED
    BY <2>1, <2>2, CloseQueuedSame DEF Abstract!Next, Abstract!Destroy
<1>8. ASSUME NEW t \in Threads, CloseConn(t)
      PROVE  Abstract!Next \/ UNCHANGED (Abstract!vars)
  <2>1. /\ UNCHANGED <<state, events>> /\ state = "destroyed"
        /\ pc[t] = "closeConn"
    BY <1>8 DEF CloseConn, evtVars, sockVars, ShapeInv, StateInv
  <2>2. CASE closing = None
    BY <1>1, <1>8, <2>1, <2>2 DEF CloseConn
  <2>3. CASE closing # None
    <3>1. live = {closing} /\ live' = {}
      BY <1>8, <2>1, <2>3 DEF CloseConn, Release, ShapeInv, OpenInv
    <3> QED
      BY <2>1, <3>1, CloseQueuedSame DEF Abstract!Next, Abstract!Release
  <2> QED
    BY <2>2, <2>3
<1>9. ASSUME NEW t \in Threads, Receive(t)
      PROVE  Abstract!Next \/ UNCHANGED (Abstract!vars)
  <2>1. UNCHANGED <<state, live>>
    BY <1>9 DEF Receive, sockVars, ioVars
  <2>2. /\ Len(events') = Len(events) + 1 /\ Len(events) \in Nat
        /\ \A i \in 1..Len(events) : events'[i] = events[i]
        /\ events'[Len(events) + 1].name = pc[t]
    BY <1>9 DEF Receive
  <2>3. CASE pc[t] = "close"
    <3>1. state = "destroyed" /\ live = {}
      BY <2>3 DEF ShapeInv, StateInv, OpenInv, ConnInv, ReleasedAtClose
    <3>2. ~CloseQueued
      BY <2>3 DEF CloseQueued, OnceInv, OnceIsHeld, CloseByOnce, InsideOnce
    <3>3. CloseQueued'
      BY <2>2, <2>3 DEF CloseQueued, Named
    <3>4. CloseQueued' = TRUE
      BY <3>3 DEF CloseQueued
    <3> QED
      BY <2>1, <3>1, <3>2, <3>4 DEF Abstract!Next, Abstract!Close
  <2>4. CASE pc[t] # "close"
    <3>1. CloseQueued' = CloseQueued
      BY <2>2, <2>4 DEF CloseQueued, Named
    <3> QED
      BY <2>1, <3>1 DEF Abstract!vars
  <2> QED
    BY <2>3, <2>4
<1>10. ASSUME NEW c \in Connects, DeadlineFails(c) PROVE FALSE
  BY <1>10 DEF DeadlineFails
<1> QED
  BY <1>1, <1>2, <1>3, <1>4, <1>5, <1>6, <1>7, <1>8, <1>9, <1>10, UnseenSteps

(* Seen through its state, its open connections and its close event, a     *)
(* socket in the hands of a careful script follows the state diagram of    *)
(* the contract, step by step: goroutines, locks and callbacks do not show. *)
THEOREM SocketImplementsContract ==
    ASSUME Script = "careful", DeadlineMayFail = FALSE
    PROVE  Spec => Abstract!Spec
<1>1. Init => Abstract!Init
  <2> SUFFICES ASSUME Init PROVE Abstract!Init
    OBVIOUS
  <2>1. ~CloseQueued
    BY DEF Init, CloseQueued
  <2>2. CloseQueued = FALSE
    BY <2>1 DEF CloseQueued
  <2> QED
    BY <2>2 DEF Init, Abstract!Init
<1>2. IInv /\ CarefulInv /\ [Next]_vars => [Abstract!Next]_(Abstract!vars)
  BY ContractStep
<1> QED
  BY <1>1, <1>2, CarefulInvariant, PTL DEF Spec, Abstract!Spec

(* A careful script never sees a destroyed socket come back to life.  The  *)
(* run find_reopened shows how another script does.                        *)
THEOREM DestroyedStays ==
    ASSUME Script = "careful", DeadlineMayFail = FALSE
    PROVE  Spec => DestroyedIsFinal
<1>1. IInv /\ CarefulInv /\ [Next]_vars
         => [state = "destroyed" => state' = "destroyed"]_vars
  <2> SUFFICES ASSUME IInv, CarefulInv, [Next]_vars, state = "destroyed"
               PROVE  state' = "destroyed"
    OBVIOUS
  <2>1. [Abstract!Next]_(Abstract!vars)
    BY ContractStep
  <2> QED
    BY <2>1 DEF Abstract!Next, Abstract!vars, Abstract!Connect, Abstract!Dial,
       Abstract!Established, Abstract!ConnectFails, Abstract!Destroy, Abstract!Release,
       Abstract!Close
<1> QED
  BY <1>1, CarefulInvariant, PTL DEF Spec, DestroyedIsFinal
=============================================================================
