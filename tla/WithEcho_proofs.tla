--------------------------- MODULE WithEcho_proofs ---------------------------
(* Proofs about the echo servers and the tool that owns them, for any      *)
(* number of connections, variables and signals.                           *)
EXTENDS WithEcho, FiniteSetTheorems, TLAPS

Starting == {"args", "listenTCP", "listenHTTP", "start"}
Running  == {"notify", "command", "wait", "unsubscribe", "run"}
Stopping == {"closeDone", "closeListener", "join"}
Stopped  == {"shutdown", "drain"}

Accepting == {"accept", "accepted", "failed"}
Echoing   == {k \in Conns : handler[k] = "echo"}

(* What New(), Start() and Stop() have done to the two listeners when the  *)
(* owner is at a place.                                                    *)
ListenersInv ==
    /\ at \in {"args", "listenTCP"} => listener = "none"
    /\ at \in {"listenHTTP", "start", "setenv", "closeDone", "closeListener"} \cup Running
         => listener = "open"
    /\ at \in {"join"} \cup Stopped => listener = "closed"
    /\ at \in {"args", "listenTCP", "listenHTTP"} => web = "none"
    /\ at \in {"start", "setenv"} \cup Running /\ serving # "failed" => web = "open"
    /\ at \in {"closeListener", "join"} \cup Stopped => done
    /\ at \in Starting \cup Running \cup {"setenv", "closeDone"} => ~done
    /\ down => at \in {"drain", "exited", "killed"}

(* Which goroutines Start() has started.  That of the HTTP server may fail *)
(* at any time, but it ends as it should only after Shutdown().            *)
GoroutinesInv ==
    /\ at \in Starting \/ (at = "setenv" /\ owner = "tests") \/ web = "none"
         => acceptor = "none" /\ serving = "none"
    /\ at \in Running \/ (at = "setenv" /\ owner = "tool")
         => acceptor \in Accepting /\ serving \in {"starting", "serving", "failed"}
    /\ acceptor = "ended" => done
    /\ serving = "ended" => down
    /\ at = "run" => owner = "tests"

(* The WaitGroup counts the goroutine that accepts and the ones that echo. *)
CountInv ==
    /\ wg = Cardinality(Echoing) + IF acceptor \in Accepting THEN 1 ELSE 0
    /\ acceptor = "none" => wg = 0
    /\ acceptor # "accepted" => accepted = {}
    /\ \A k \in accepted : handler[k] # "echo"

(* What Run() has done, and the account of the signals. *)
RunInv ==
    /\ child = "running" => at = "wait"
    /\ at \in {"notify", "command", "wait", "unsubscribe"} => env = Variables /\ owner = "tool"
    /\ at \in {"command", "wait", "unsubscribe"} => notify
    /\ got + sigChan <= sent

EchoInv == TypeOK /\ ListenersInv /\ GoroutinesInv /\ CountInv /\ RunInv /\ StopWaits

-----------------------------------------------------------------------------
(* The goroutines that echo are finitely many; one more or one less is     *)
(* counted as such.                                                        *)
LEMMA Counting ==
    /\ IsFiniteSet(Echoing) /\ Cardinality(Echoing) \in Nat
    /\ Cardinality(Echoing) = 0 => Echoing = {}
    /\ \A k \in Conns :
          /\ k \notin Echoing => Cardinality(Echoing \cup {k}) = Cardinality(Echoing) + 1
          /\ k \in Echoing => /\ Cardinality(Echoing \ {k}) = Cardinality(Echoing) - 1
                              /\ Cardinality(Echoing) > 0
<1>1. IsFiniteSet(Echoing)
  BY EchoAssumption, FS_Subset DEF Echoing
<1>2. Cardinality(Echoing) \in Nat
  BY <1>1, FS_CardinalityType
<1>3. Cardinality(Echoing) = 0 <=> Echoing = {}
  BY <1>1, FS_EmptySet
<1>4. ASSUME NEW k \in Conns
      PROVE  /\ k \notin Echoing => Cardinality(Echoing \cup {k}) = Cardinality(Echoing) + 1
             /\ k \in Echoing => Cardinality(Echoing \ {k}) = Cardinality(Echoing) - 1
  BY <1>1, FS_AddElement, FS_RemoveElement
<1>5. ASSUME NEW k \in Echoing PROVE Cardinality(Echoing) > 0
  BY <1>2, <1>3
<1> QED
  BY <1>1, <1>2, <1>3, <1>4, <1>5

(* The Boolean of StopWaits and the account of the WaitGroup: once Wait()  *)
(* has returned nothing is left to wait for.                               *)
LEMMA NothingLeft ==
    ASSUME EchoInv, wg = 0
    PROVE  acceptor \in {"none", "ended"} /\ \A k \in Conns : handler[k] # "echo"
<1>1. acceptor \notin Accepting /\ Cardinality(Echoing) = 0
  BY Counting DEF EchoInv, CountInv
<1>2. Echoing = {}
  BY <1>1, Counting
<1> QED
  BY <1>1, <1>2 DEF EchoInv, TypeOK, EchoTypeOK, Accepting, Echoing

(* The owner's and the goroutines' steps keep the invariant. *)
LEMMA EchoStep ==
    ASSUME EchoInv, EchoNext, UNCHANGED runVars
    PROVE  EchoInv'
<1> USE EchoAssumption, SignalAssumption
    DEF EchoInv, TypeOK, EchoTypeOK, ListenersInv, GoroutinesInv, CountInv, RunInv, StopWaits,
        Places, Listener, Gone, Starting, Running, Stopping, Stopped, Accepting,
        tcpVars, webVars, runVars
<1>1. CASE ListenTCP
  <2>1. Echoing' = Echoing
    BY <1>1 DEF ListenTCP, Echoing
  <2>2. TypeOK'
    BY <1>1 DEF ListenTCP
  <2>3. ListenersInv' /\ GoroutinesInv'
    BY <1>1 DEF ListenTCP
  <2>4. CountInv' /\ RunInv' /\ StopWaits'
    BY <1>1, <2>1, Counting, NothingLeft DEF ListenTCP
  <2> QED
    BY <2>2, <2>3, <2>4
<1>2. CASE ListenHTTP
  <2>1. Echoing' = Echoing
    BY <1>2 DEF ListenHTTP, Echoing
  <2>2. TypeOK'
    BY <1>2 DEF ListenHTTP
  <2>3. ListenersInv' /\ GoroutinesInv'
    BY <1>2 DEF ListenHTTP
  <2>4. CountInv' /\ RunInv' /\ StopWaits'
    BY <1>2, <2>1, Counting DEF ListenHTTP
  <2> QED
    BY <2>2, <2>3, <2>4
<1>3. CASE StartServers
  <2>1. Echoing' = Echoing
    BY <1>3 DEF StartServers, Echoing
  <2>2. TypeOK'
    BY <1>3 DEF StartServers
  <2>3. ListenersInv' /\ GoroutinesInv'
    BY <1>3 DEF StartServers
  <2>4. CountInv' /\ RunInv' /\ StopWaits'
    BY <1>3, <2>1, Counting DEF StartServers
  <2> QED
    BY <2>2, <2>3, <2>4
<1>4. CASE Setenv
  <2>1. Echoing' = Echoing
    BY <1>4 DEF Setenv, Echoing
  <2>2. TypeOK'
    BY <1>4 DEF Setenv, AfterSetenv
  <2>3. ListenersInv' /\ GoroutinesInv'
    BY <1>4 DEF Setenv, AfterSetenv
  <2>4. CountInv' /\ RunInv' /\ StopWaits'
    BY <1>4, <2>1, Counting DEF Setenv, AfterSetenv
  <2> QED
    BY <2>2, <2>3, <2>4
<1>5. CASE TestsEnd
  <2>1. Echoing' = Echoing
    BY <1>5 DEF TestsEnd, Echoing
  <2>2. TypeOK'
    BY <1>5 DEF TestsEnd
  <2>3. ListenersInv' /\ GoroutinesInv'
    BY <1>5 DEF TestsEnd
  <2>4. CountInv' /\ RunInv' /\ StopWaits'
    BY <1>5, <2>1, Counting DEF TestsEnd
  <2> QED
    BY <2>2, <2>3, <2>4
<1>6. CASE CloseDone
  <2>1. Echoing' = Echoing
    BY <1>6 DEF CloseDone, Echoing
  <2>2. TypeOK'
    BY <1>6 DEF CloseDone
  <2>3. ListenersInv' /\ GoroutinesInv'
    BY <1>6 DEF CloseDone
  <2>4. CountInv' /\ RunInv' /\ StopWaits'
    BY <1>6, <2>1, Counting DEF CloseDone
  <2> QED
    BY <2>2, <2>3, <2>4
<1>7. CASE Join
  <2>1. Echoing' = Echoing
    BY <1>7 DEF Join, Echoing
  <2>2. TypeOK'
    BY <1>7 DEF Join
  <2>3. ListenersInv' /\ GoroutinesInv'
    BY <1>7 DEF Join
  <2>4. CountInv' /\ RunInv' /\ StopWaits'
    BY <1>7, <2>1, Counting, NothingLeft DEF Join
  <2> QED
    BY <2>2, <2>3, <2>4
<1>8. CASE Shutdown
  <2>1. Echoing' = Echoing
    BY <1>8 DEF Shutdown, Echoing
  <2>2. TypeOK'
    BY <1>8 DEF Shutdown
  <2>3. ListenersInv' /\ GoroutinesInv'
    BY <1>8 DEF Shutdown
  <2>4. CountInv' /\ RunInv' /\ StopWaits'
    BY <1>8, <2>1, Counting DEF Shutdown
  <2> QED
    BY <2>2, <2>3, <2>4
<1>9. CASE Drain
  <2>1. Echoing' = Echoing
    BY <1>9 DEF Drain, Echoing
  <2>2. TypeOK'
    BY <1>9 DEF Drain, IdleOrExpired
  <2>3. ListenersInv' /\ GoroutinesInv'
    BY <1>9 DEF Drain, IdleOrExpired
  <2>4. CountInv' /\ RunInv' /\ StopWaits'
    BY <1>9, <2>1, Counting DEF Drain, IdleOrExpired
  <2> QED
    BY <2>2, <2>3, <2>4
<1>10. CASE AcceptFails
  <2>1. Echoing' = Echoing
    BY <1>10 DEF AcceptFails, Echoing
  <2>2. TypeOK'
    BY <1>10 DEF AcceptFails
  <2>3. ListenersInv' /\ GoroutinesInv'
    BY <1>10 DEF AcceptFails
  <2>4. CountInv' /\ RunInv' /\ StopWaits'
    BY <1>10, <2>1, Counting DEF AcceptFails
  <2> QED
    BY <2>2, <2>3, <2>4
<1>11. CASE AcceptorGoesOn
  <2>1. Echoing' = Echoing
    BY <1>11 DEF AcceptorGoesOn, Echoing
  <2>2. TypeOK'
    BY <1>11, <2>1, Counting DEF AcceptorGoesOn
  <2>3. ListenersInv' /\ GoroutinesInv'
    BY <1>11 DEF AcceptorGoesOn
  <2>4. CountInv' /\ RunInv' /\ StopWaits'
    BY <1>11, <2>1, Counting DEF AcceptorGoesOn
  <2> QED
    BY <2>2, <2>3, <2>4
<1>12. CASE Serve
  <2>1. Echoing' = Echoing
    BY <1>12 DEF Serve, Echoing
  <2>2. TypeOK'
    BY <1>12 DEF Serve
  <2>3. ListenersInv' /\ GoroutinesInv'
    BY <1>12 DEF Serve
  <2>4. CountInv' /\ RunInv' /\ StopWaits'
    BY <1>12, <2>1, Counting DEF Serve
  <2> QED
    BY <2>2, <2>3, <2>4
<1>13. CASE ServeReturns
  <2>1. Echoing' = Echoing
    BY <1>13 DEF ServeReturns, Echoing
  <2>2. at = "drain" /\ web # "none"
    BY <1>13 DEF ServeReturns
  <2>3. /\ serving' = "ended" /\ down'
        /\ UNCHANGED <<owner, at, env, tcpVars, web, busy, down>>
    BY <1>13, Zenon DEF ServeReturns
  <2>4. TypeOK'
    BY <2>1, <2>2, <2>3
  <2>5. ListenersInv' /\ GoroutinesInv'
    BY <2>1, <2>2, <2>3
  <2>6. CountInv' /\ RunInv' /\ StopWaits'
    BY <2>1, <2>2, <2>3
  <2> QED
    BY <2>4, <2>5, <2>6
<1>14. CASE ServeFails
  <2>1. Echoing' = Echoing
    BY <1>14 DEF ServeFails, Echoing
  <2>2. TypeOK'
    BY <1>14 DEF ServeFails
  <2>3. ListenersInv' /\ GoroutinesInv'
    BY <1>14 DEF ServeFails
  <2>4. CountInv' /\ RunInv' /\ StopWaits'
    BY <1>14, <2>1, Counting DEF ServeFails
  <2> QED
    BY <2>2, <2>3, <2>4
<1>15. CASE Request
  <2>1. Echoing' = Echoing
    BY <1>15 DEF Request, Echoing
  <2>2. busy' \in BOOLEAN
    BY <1>15, Zenon DEF Request
  <2>3. TypeOK'
    BY <1>15, <2>1, <2>2, Counting DEF Request
  <2>4. ListenersInv' /\ GoroutinesInv'
    BY <1>15, <2>2 DEF Request
  <2>5. CountInv' /\ RunInv' /\ StopWaits'
    BY <1>15, <2>1, <2>2, Counting DEF Request
  <2> QED
    BY <2>3, <2>4, <2>5
<1>16. CASE CloseListener
  <2>1. Echoing' = Echoing
    BY <1>16 DEF CloseListener, Echoing
  <2>2. TypeOK'
    BY <1>16 DEF CloseListener
  <2>3. ListenersInv' /\ GoroutinesInv'
    BY <1>16 DEF CloseListener
  <2>4. CountInv' /\ RunInv' /\ StopWaits'
    BY <1>16, <2>1, Counting DEF CloseListener
  <2> QED
    BY <2>2, <2>3, <2>4
<1>17. ASSUME NEW k \in Conns, Dial(k) PROVE EchoInv'
  <2>1. Echoing' = Echoing
    BY <1>17 DEF Dial, Echoing
  <2>2. TypeOK'
    BY <1>17 DEF Dial
  <2>3. ListenersInv' /\ GoroutinesInv'
    BY <1>17 DEF Dial
  <2>4. CountInv' /\ RunInv' /\ StopWaits'
    BY <1>17, <2>1, Counting DEF Dial
  <2> QED
    BY <2>2, <2>3, <2>4
<1>18. ASSUME NEW k \in Conns, Accept(k) PROVE EchoInv'
  <2>1. Echoing' = Echoing
    BY <1>18 DEF Accept, Echoing
  <2>2. accepted' \subseteq Conns /\ Cardinality(accepted') <= 1
    <3>1. accepted' = {k}
      BY <1>18 DEF Accept
    <3>2. Cardinality({k}) = 1
      BY FS_Singleton, Zenon
    <3> QED
      BY <3>1, <3>2
  <2>3. TypeOK'
    BY <1>18, <2>1, <2>2 DEF Accept
  <2>4. ListenersInv' /\ GoroutinesInv'
    BY <1>18, <2>2 DEF Accept
  <2>5. CountInv' /\ RunInv' /\ StopWaits'
    BY <1>18, <2>1, <2>2 DEF Accept
  <2> QED
    BY <2>3, <2>4, <2>5
<1>19. ASSUME NEW k \in Conns, Spawn(k) PROVE EchoInv'
  <2>1. Echoing' = Echoing \cup {k}
    BY <1>19 DEF Spawn, Echoing
  <2>2. Cardinality(accepted') <= 1
    BY <1>19, FS_EmptySet DEF Spawn
  <2>3. wg' = Cardinality(Echoing') + 1
    BY <1>19, <2>1, Counting DEF Spawn, CountHandler, Echoing
  <2>4. TypeOK'
    BY <1>19, <2>2, <2>3 DEF Spawn, CountHandler
  <2>5. ListenersInv' /\ GoroutinesInv'
    BY <1>19, <2>2, <2>3 DEF Spawn, CountHandler
  <2>6. CountInv' /\ RunInv' /\ StopWaits'
    BY <1>19, <2>2, <2>3 DEF Spawn, CountHandler
  <2> QED
    BY <2>4, <2>5, <2>6
<1>20. ASSUME NEW k \in Conns, EchoEnds(k) PROVE EchoInv'
  <2>1. Echoing' = Echoing \ {k}
    BY <1>20 DEF EchoEnds, Echoing
  <2>2. k \in Echoing
    BY <1>20 DEF EchoEnds, Echoing
  <2>3. wg' = Cardinality(Echoing') + IF acceptor \in Accepting THEN 1 ELSE 0
    BY <1>20, <2>1, <2>2, Counting DEF EchoEnds
  <2>4. wg' \in Nat
    BY <1>20, <2>2, Counting DEF EchoEnds
  <2>5. TypeOK'
    BY <1>20, <2>3, <2>4 DEF EchoEnds
  <2>6. ListenersInv' /\ GoroutinesInv'
    BY <1>20, <2>3, <2>4 DEF EchoEnds
  <2>7. CountInv' /\ RunInv' /\ StopWaits'
    BY <1>20, <2>3, <2>4 DEF EchoEnds
  <2> QED
    BY <2>5, <2>6, <2>7
<1>21. ASSUME NEW k \in Conns, CloseConn(k) PROVE EchoInv'
  <2>1. Echoing' = Echoing
    BY <1>21 DEF CloseConn, Echoing
  <2>2. TypeOK'
    BY <1>21 DEF CloseConn
  <2>3. ListenersInv' /\ GoroutinesInv'
    BY <1>21 DEF CloseConn
  <2>4. CountInv' /\ RunInv' /\ StopWaits'
    BY <1>21, <2>1, Counting DEF CloseConn
  <2> QED
    BY <2>2, <2>3, <2>4
<1> HIDE DEF EchoInv
<1> QED
  BY <1>1, <1>2, <1>3, <1>4, <1>5, <1>6, <1>7, <1>8, <1>9, <1>10, <1>11, <1>12, <1>13,
     <1>14, <1>15, <1>16, <1>17, <1>18, <1>19, <1>20, <1>21
     DEF EchoNext, OwnerStep, StopStep, AcceptStep, HandlerStep, ServeStep

(* The steps of Run(), the signals and the command keep the invariant. *)
LEMMA ToolStep ==
    ASSUME EchoInv, RunStep \/ ForwardStep \/ Signal \/ ChildEnds
    PROVE  EchoInv'
<1> USE EchoAssumption, SignalAssumption
    DEF EchoInv, TypeOK, EchoTypeOK, ListenersInv, GoroutinesInv, CountInv, RunInv, StopWaits,
        Places, Listener, Gone, Starting, Running, Stopped, Accepting,
        tcpVars, webVars, srvVars, runVars
<1>1. CASE Args
  <2>1. Echoing' = Echoing
    BY <1>1 DEF Args, MoveTo, Echoing
  <2>2. TypeOK'
    BY <1>1 DEF Args, MoveTo
  <2>3. ListenersInv' /\ GoroutinesInv'
    BY <1>1 DEF Args, MoveTo
  <2>4. CountInv' /\ RunInv' /\ StopWaits'
    BY <1>1, <2>1, NothingLeft DEF Args, MoveTo
  <2> QED
    BY <2>2, <2>3, <2>4
<1>2. CASE Notify
  <2>1. Echoing' = Echoing
    BY <1>2 DEF Notify, MoveTo, Echoing
  <2>2. TypeOK'
    BY <1>2, <2>1 DEF Notify, MoveTo, SubscribeSignals
  <2>3. ListenersInv' /\ GoroutinesInv'
    BY <1>2 DEF Notify, MoveTo, SubscribeSignals
  <2>4. CountInv' /\ RunInv' /\ StopWaits'
    BY <1>2, <2>1 DEF Notify, MoveTo, SubscribeSignals
  <2> QED
    BY <2>2, <2>3, <2>4
<1>3. CASE Command
  <2>1. Echoing' = Echoing
    BY <1>3 DEF Command, MoveTo, Echoing
  <2>2. TypeOK'
    BY <1>3, <2>1 DEF Command, MoveTo
  <2>3. ListenersInv' /\ GoroutinesInv'
    BY <1>3 DEF Command, MoveTo
  <2>4. CountInv' /\ RunInv' /\ StopWaits'
    BY <1>3, <2>1 DEF Command, MoveTo
  <2> QED
    BY <2>2, <2>3, <2>4
<1>4. CASE WaitForCommand
  <2>1. Echoing' = Echoing
    BY <1>4 DEF WaitForCommand, MoveTo, Echoing
  <2>2. TypeOK'
    BY <1>4, <2>1 DEF WaitForCommand, MoveTo, Ended
  <2>3. ListenersInv' /\ GoroutinesInv'
    BY <1>4 DEF WaitForCommand, MoveTo, Ended
  <2>4. CountInv' /\ RunInv' /\ StopWaits'
    BY <1>4, <2>1 DEF WaitForCommand, MoveTo, Ended
  <2> QED
    BY <2>2, <2>3, <2>4
<1>5. CASE Unsubscribe
  <2>1. Echoing' = Echoing
    BY <1>5 DEF Unsubscribe, MoveTo, Echoing
  <2>2. TypeOK'
    BY <1>5, <2>1 DEF Unsubscribe, MoveTo
  <2>3. ListenersInv' /\ GoroutinesInv'
    BY <1>5 DEF Unsubscribe, MoveTo
  <2>4. CountInv' /\ RunInv' /\ StopWaits'
    BY <1>5, <2>1 DEF Unsubscribe, MoveTo
  <2> QED
    BY <2>2, <2>3, <2>4
<1>6. CASE Signal
  <2>1. Echoing' = Echoing
    BY <1>6 DEF Signal, MoveTo, Echoing
  <2>2. TypeOK'
    BY <1>6, <2>1 DEF Signal, MoveTo
  <2>3. ListenersInv' /\ GoroutinesInv'
    BY <1>6 DEF Signal, MoveTo
  <2>4. CountInv' /\ RunInv' /\ StopWaits'
    BY <1>6, <2>1 DEF Signal, MoveTo
  <2> QED
    BY <2>2, <2>3, <2>4
<1>7. CASE Forward
  <2>1. Echoing' = Echoing
    BY <1>7 DEF Forward, Echoing
  <2>2. TypeOK'
    BY <1>7, <2>1 DEF Forward, KeepForwarding
  <2>3. ListenersInv' /\ GoroutinesInv'
    BY <1>7 DEF Forward, KeepForwarding
  <2>4. CountInv' /\ RunInv' /\ StopWaits'
    BY <1>7, <2>1 DEF Forward, KeepForwarding
  <2> QED
    BY <2>2, <2>3, <2>4
<1>8. CASE ForwarderEnds
  <2>1. Echoing' = Echoing
    BY <1>8 DEF ForwarderEnds, Echoing
  <2>2. TypeOK'
    BY <1>8, <2>1 DEF ForwarderEnds
  <2>3. ListenersInv' /\ GoroutinesInv'
    BY <1>8 DEF ForwarderEnds
  <2>4. CountInv' /\ RunInv' /\ StopWaits'
    BY <1>8, <2>1 DEF ForwarderEnds
  <2> QED
    BY <2>2, <2>3, <2>4
<1>9. CASE ChildEnds
  <2>1. Echoing' = Echoing
    BY <1>9 DEF ChildEnds, Echoing
  <2>2. TypeOK'
    BY <1>9, <2>1 DEF ChildEnds
  <2>3. ListenersInv' /\ GoroutinesInv'
    BY <1>9 DEF ChildEnds
  <2>4. CountInv' /\ RunInv' /\ StopWaits'
    BY <1>9, <2>1 DEF ChildEnds
  <2> QED
    BY <2>2, <2>3, <2>4
<1> HIDE DEF EchoInv
<1> QED
  BY <1>1, <1>2, <1>3, <1>4, <1>5, <1>6, <1>7, <1>8, <1>9 DEF RunStep, ForwardStep

(* The inductive invariant: whatever the owner, the goroutines, clients,   *)
(* signals and the command do.                                             *)
THEOREM EchoInvariant == Spec => []EchoInv
<1>1. Init => EchoInv
  <2> SUFFICES ASSUME Init PROVE EchoInv
    OBVIOUS
  <2>1. Echoing = {}
    BY DEF Init, EchoInit, Echoing
  <2>2. Cardinality(Echoing) = 0 /\ Cardinality(accepted) = 0
    BY <2>1, FS_EmptySet DEF Init, EchoInit
  <2>3. TypeOK
    <3>1. done \in BOOLEAN /\ busy \in BOOLEAN /\ down \in BOOLEAN
          /\ notify \in BOOLEAN /\ finished \in BOOLEAN
      BY Zenon DEF Init, EchoInit
    <3>2. EchoTypeOK
      BY <2>2, <3>1, EchoAssumption DEF Init, EchoInit, EchoTypeOK, Places, Listener
    <3> QED
      BY <3>1, <3>2, SignalAssumption DEF Init, TypeOK
  <2>4. CountInv
    BY <2>2 DEF Init, EchoInit, CountInv, Accepting
  <2>5. ListenersInv /\ GoroutinesInv
    BY DEF Init, EchoInit, ListenersInv, GoroutinesInv, Starting, Running, Stopped
  <2>6. RunInv /\ StopWaits
    BY DEF Init, EchoInit, RunInv, StopWaits
  <2> QED
    BY <2>3, <2>4, <2>5, <2>6 DEF EchoInv
<1>2. EchoInv /\ [Next]_vars => EchoInv'
  <2> SUFFICES ASSUME EchoInv, [Next]_vars PROVE EchoInv'
    OBVIOUS
  <2>1. CASE EchoNext /\ UNCHANGED runVars
    BY <2>1, EchoStep
  <2>2. CASE RunStep \/ ForwardStep \/ Signal \/ ChildEnds
    BY <2>2, ToolStep
  <2>3. CASE UNCHANGED vars
    BY <2>3 DEF vars, srvVars, tcpVars, webVars, runVars, EchoInv, TypeOK, EchoTypeOK,
        ListenersInv, GoroutinesInv, CountInv, Echoing, RunInv, StopWaits
  <2> QED
    BY <2>1, <2>2, <2>3 DEF Next
<1> QED
  BY <1>1, <1>2, PTL DEF Spec

(* Every variable of the tool and the servers keeps its type; in           *)
(* particular the WaitGroup's counter never becomes negative, on which     *)
(* wg.Done() would panic, and no more signals reach the command than were  *)
(* sent.                                                                   *)
THEOREM EchoTypeCorrect == Spec => []TypeOK
<1>1. EchoInv => TypeOK
  BY DEF EchoInv
<1> QED
  BY <1>1, EchoInvariant, PTL

(* When the TCP server's Stop() returns, or New() has failed, no goroutine *)
(* of acceptConnections() or handleConnection() is left that echoes or     *)
(* could.                                                                  *)
THEOREM StopLeavesNothing == Spec => []StopWaits
<1>1. EchoInv => StopWaits
  BY DEF EchoInv
<1> QED
  BY <1>1, EchoInvariant, PTL

(* While the command of with-echo runs, all the addresses are exported and *)
(* neither server was stopped: the TCP server accepts, and the HTTP server *)
(* does unless its own Serve() has failed.                                 *)
THEOREM CommandAlwaysServed == Spec => []CommandIsServed
<1>1. EchoInv => CommandIsServed
  BY DEF EchoInv, RunInv, ListenersInv, GoroutinesInv, Running, Accepting, CommandIsServed
<1> QED
  BY <1>1, EchoInvariant, PTL

(* handleSignals() is in effect for as long as the command runs: no signal *)
(* ends the tool and leaves the command behind.                            *)
THEOREM CommandNeverOrphaned == Spec => []NoOrphan
<1>1. EchoInv => NoOrphan
  BY DEF EchoInv, RunInv, NoOrphan, Gone
<1> QED
  BY <1>1, EchoInvariant, PTL
=============================================================================
