---------------------------- MODULE Socket_proofs ----------------------------
(***************************************************************************)
(* Proofs about Socket for any number of connect calls, any script, any    *)
(* behaviour of the peer and of the network.                               *)
(***************************************************************************)
EXTENDS Socket, TLAPS

(* The goroutines of different calls, and of different kinds, differ. *)
LEMMA ThreadFacts ==
    /\ Js \in Threads
    /\ \A c \in Connects : Connector(c) \in Threads /\ Reader(c) \in Threads
    /\ \A c \in Connects : Connector(c) # Js /\ Reader(c) # Js
    /\ \A c, d \in Connects : Connector(c) # Reader(d)
    /\ \A c, d \in Connects : Connector(c) = Connector(d) => c = d
    /\ \A c, d \in Connects : Reader(c) = Reader(d) => c = d
  BY DEF Js, Connector, Reader, Threads, Connectors, Readers

(* Storing one field of a target. *)
LEMMA TargetUpdates ==
    ASSUME target \in Targets, NEW c \in Connects,
           NEW x \in Connects \cup {None}
    PROVE  /\ [target EXCEPT ![c].ip = x] \in Targets
           /\ [target EXCEPT ![c].port = x] \in Targets
           /\ [target EXCEPT ![c].tls = x] \in Targets
  BY DEF Targets

(* Every step preserves the control invariant. *)
LEMMA ControlStep ==
    ASSUME ControlInv, [Next]_vars
    PROVE  ControlInv'
<1> USE ConstantsAssumption, ThreadFacts
    DEF ControlInv, TypeOK, SendersFire, OneGoroutinePerCall,
        ReaderAfterConnect, Labels, Events, States, Metrics, vars, sockVars,
        evtVars, ioVars
<1>1. ASSUME NEW e \in ScriptEvents, JsOn(e) PROVE ControlInv'
  BY <1>1 DEF JsOn, KnownName
<1>2. ASSUME NEW c \in Connects, JsConnect(c) PROVE ControlInv'
  BY <1>2 DEF JsConnect, StoreOptions, Settle, Goto
<1>3. ASSUME NEW r \in Invalid, JsInvalid(r) PROVE ControlInv'
  BY <1>3 DEF JsInvalid, Settle, Goto
<1>4. ASSUME JsDestroy PROVE ControlInv'
  BY <1>4 DEF JsDestroy, Goto
<1>5. ASSUME JsHandle PROVE ControlInv'
  BY <1>5 DEF JsHandle
<1>6. ASSUME NEW r \in Invalid, JsReject(r) PROVE ControlInv'
  BY <1>6 DEF JsReject, RejectPromise, Settle, Goto
<1>7. ASSUME NEW c \in Connects, Lock(c) PROVE ControlInv'
  <2>1. target' \in Targets
    BY <1>7, TargetUpdates DEF Lock
  <2> QED
    BY <1>7, <2>1 DEF Lock, Goto, Unlocked
<1>8. ASSUME NEW c \in Connects, Resolve(c) PROVE ControlInv'
  <2>1. CASE /\ target' = [target EXCEPT ![c].port = connectOpts]
             /\ RecordRemote(c)
             /\ Goto(Connector(c), "dialing")
             /\ UNCHANGED <<state, mu>>
    <3>1. target' \in Targets
      BY <2>1, TargetUpdates
    <3>2. endpoints' \in [remote : Connects \cup {None}, local : Connects \cup {None}]
      BY <2>1 DEF RecordRemote, Targets
    <3>3. samples' \in [Metrics -> Nat]
      BY <1>8 DEF Resolve, Push
    <3>4. /\ pc' \in [Threads -> Labels]
          /\ \A t \in sending : pc'[t] \in Events
          /\ \A d \in Connects :
                /\ promise[d] = "none" => pc'[Connector(d)] = "none"
                /\ pc'[Reader(d)] # "none"
                      => pc'[Connector(d)] \in {"resolvePromise", "done"}
      BY <1>8, <2>1 DEF Resolve, Goto
    <3>5. UNCHANGED <<sockVars, vuDone, evtVars, totalRead, timeouts, live,
                      closing, readConn, readErr, promise>>
      BY <1>8, <2>1 DEF Resolve
    <3> QED
      BY <3>1, <3>2, <3>3, <3>4, <3>5
  <2>2. CASE ConnectFails(c) /\ UNCHANGED <<target, endpoints>>
    BY <1>8, <2>2, SMTT(30) DEF Resolve, RecordRemote, Push, ConnectFails, Goto
  <2> QED
    BY <1>8, <2>1, <2>2 DEF Resolve, RecordRemote
<1>9. ASSUME NEW c \in Connects, Dial(c) PROVE ControlInv'
  <2>1. live' \subseteq Connects /\ samples' \in [Metrics -> Nat]
    BY <1>9, SMTT(30) DEF Dial, Push
  <2>2. CASE ConnectFails(c)
    BY <1>9, <2>1, <2>2 DEF Dial, ConnectFails, Goto
  <2>3. CASE Goto(Connector(c), "tls") /\ UNCHANGED <<state, mu>>
    BY <1>9, <2>1, <2>3 DEF Dial, Goto
  <2> QED
    BY <1>9, <2>2, <2>3 DEF Dial
<1>10. ASSUME NEW c \in Connects, Established(c) PROVE ControlInv'
  <2>1. target' \in Targets
    BY <1>10, TargetUpdates DEF Established, StoreConn
  <2>2. endpoints' \in [remote : Connects \cup {None}, local : Connects \cup {None}]
    BY <1>10 DEF Established, StoreConn
  <2>3. samples' \in [Metrics -> Nat]
    BY <1>10 DEF Established, Push
  <2>4. /\ pc' \in [Threads -> Labels]
        /\ \A t \in sending : pc'[t] \in Events
        /\ \A d \in Connects :
              /\ promise[d] = "none" => pc'[Connector(d)] = "none"
              /\ pc'[Reader(d)] # "none"
                    => pc'[Connector(d)] \in {"resolvePromise", "done"}
    BY <1>10 DEF Established, FiresConnect, Goto
  <2>5. /\ state' \in States /\ conn' \in Connects /\ mu' = None
        /\ UNCHANGED <<connectOpts, handlers, once, cancelled, vuDone, evtVars,
                       totalRead, timeouts, live, closing, readConn, readErr,
                       promise>>
    BY <1>10 DEF Established, StoreConn
  <2> QED
    BY <2>1, <2>2, <2>3, <2>4, <2>5
<1>11. ASSUME NEW c \in Connects, HandshakeFails(c) PROVE ControlInv'
  BY <1>11 DEF HandshakeFails, CloseFailed, Push, ConnectFails, Goto
<1>12. ASSUME NEW c \in Connects, DeadlineFails(c) PROVE ControlInv'
  <2>1. target' \in Targets
    BY <1>12, TargetUpdates DEF DeadlineFails, StoreConn
  <2>2. endpoints' \in [remote : Connects \cup {None}, local : Connects \cup {None}]
    BY <1>12 DEF DeadlineFails, StoreConn
  <2>3. samples' \in [Metrics -> Nat]
    BY <1>12 DEF DeadlineFails, Push
  <2>4. /\ pc' \in [Threads -> Labels]
        /\ \A t \in sending : pc'[t] \in Events
        /\ \A d \in Connects :
              /\ promise[d] = "none" => pc'[Connector(d)] = "none"
              /\ pc'[Reader(d)] # "none"
                    => pc'[Connector(d)] \in {"resolvePromise", "done"}
    BY <1>12 DEF DeadlineFails, ConnectFails, Goto
  <2>5. /\ state' \in States /\ conn' \in Connects /\ mu' = None
        /\ UNCHANGED <<connectOpts, handlers, once, cancelled, vuDone, evtVars,
                       totalRead, timeouts, live, closing, readConn, readErr,
                       promise>>
    BY <1>12 DEF DeadlineFails, StoreConn, ConnectFails
  <2> QED
    BY <2>1, <2>2, <2>3, <2>4, <2>5
<1>13. ASSUME NEW c \in Connects, StartRead(c) PROVE ControlInv'
  <2>1. pc' \in [Threads -> Labels]
    BY <1>13 DEF StartRead
  <2>2. \A t \in sending : pc'[t] \in Events
    BY <1>13 DEF StartRead
  <2>3. \A d \in Connects :
           pc'[Reader(d)] # "none" => pc'[Connector(d)] \in {"resolvePromise", "done"}
    BY <1>13 DEF StartRead
  <2>4. \A d \in Connects : promise[d] = "none" => pc'[Connector(d)] = "none"
    BY <1>13 DEF StartRead
  <2>5. UNCHANGED <<sockVars, vuDone, evtVars, ioVars, samples, promise>>
    BY <1>13 DEF StartRead
  <2> QED
    BY <2>1, <2>2, <2>3, <2>4, <2>5
<1>14. ASSUME NEW c \in Connects, ResolvePromise(c) PROVE ControlInv'
  BY <1>14 DEF ResolvePromise, Push, Settle, Goto
<1>15. ASSUME NEW c \in Connects, Reject(c) PROVE ControlInv'
  BY <1>15 DEF Reject, RejectPromise, Settle, Goto
<1>16. ASSUME NEW c \in Connects,
             NEW err \in {"nil", "eof", "other"}, ReadData(c, err)
      PROVE  ControlInv'
  BY <1>16 DEF ReadData, ReadReturns, Push, Goto
<1>17. ASSUME NEW c \in Connects,
             NEW err \in {"eof", "other"}, ReadFails(c, err)
      PROVE  ControlInv'
  BY <1>17 DEF ReadFails, ReadReturns, Goto
<1>18. ASSUME NEW c \in Connects, ReadTimesOut(c) PROVE ControlInv'
  BY <1>18 DEF ReadTimesOut, ReadReturns, Goto
<1>19. ASSUME NEW c \in Connects, LoopTest(c) PROVE ControlInv'
  BY <1>19 DEF LoopTest, isReadable, Unlocked, Goto
<1>20. ASSUME NEW c \in Connects, Snapshot(c) PROVE ControlInv'
  BY <1>20 DEF Snapshot, Unlocked, Goto
<1>21. ASSUME NEW c \in Connects, ReadClosed(c) PROVE ControlInv'
  BY <1>21 DEF ReadClosed, ReadReturns, Goto
<1>22. ASSUME NEW c \in Connects, AfterRead(c) PROVE ControlInv'
  BY <1>22 DEF AfterRead, isReadable, Unlocked, Goto
<1>23. ASSUME NEW t \in Threads, EnterOnce(t) PROVE ControlInv'
  <2>1. CASE once' = "running" /\ Goto(t, "teardown")
    BY <1>23, <2>1 DEF EnterOnce, Goto
  <2>2. CASE Goto(t, AfterDestroy(t)) /\ UNCHANGED once
    BY <1>23, <2>2 DEF EnterOnce, Goto, AfterDestroy
  <2> QED
    BY <1>23, <2>1, <2>2 DEF EnterOnce
<1>24. ASSUME NEW t \in Threads, Teardown(t) PROVE ControlInv'
  BY <1>24 DEF Teardown, TakeConn, SetDestroyed, Unlocked, Goto
<1>25. ASSUME NEW t \in Threads, CloseConn(t) PROVE ControlInv'
  BY <1>25 DEF CloseConn, Release, Push, Goto
<1>26. ASSUME NEW t \in Threads, Cancel(t) PROVE ControlInv'
  BY <1>26 DEF Cancel, Goto, AfterDestroy
<1>27. ASSUME NEW t \in Threads, HandleError(t) PROVE ControlInv'
  BY <1>27 DEF HandleError, Push, Goto
<1>28. ASSUME NEW t \in Threads, Fire(t) PROVE ControlInv'
  BY <1>28, SMTT(30) DEF Fire, Goto, AfterFire
<1>29. ASSUME NEW t \in Threads, Receive(t) PROVE ControlInv'
  BY <1>29 DEF Receive, Goto, AfterFire
<1>30. ASSUME NEW t \in Threads, GiveUp(t) PROVE ControlInv'
  BY <1>30 DEF GiveUp, VuContextDone, Goto, AfterFire
<1>31. ASSUME LoopStops PROVE ControlInv'
  BY <1>31 DEF LoopStops, ContextDone
<1>32. ASSUME VuStops PROVE ControlInv'
  BY <1>32 DEF VuStops
<1>33. ASSUME UNCHANGED vars PROVE ControlInv'
  BY <1>33
<1> HIDE DEF ControlInv, TypeOK, SendersFire, OneGoroutinePerCall,
        ReaderAfterConnect, Labels, Events, States, Metrics, vars, sockVars,
        evtVars, ioVars
<1> QED
  BY <1>1, <1>2, <1>3, <1>4, <1>5, <1>6, <1>7, <1>8, <1>9, <1>10, <1>11,
     <1>12, <1>13, <1>14, <1>15, <1>16, <1>17, <1>18, <1>19, <1>20, <1>21,
     <1>22, <1>23, <1>24, <1>25, <1>26, <1>27, <1>28, <1>29, <1>30, <1>31,
     <1>32, <1>33  DEF Next, ScriptStep, ConnectStep, PeerStep, ReadStep,
     DestroyStep, FireStep

(* Every step preserves what is known of destroyOnce and the close event. *)
LEMMA OnceStep ==
    ASSUME ControlInv, OnceInv, [Next]_vars
    PROVE  OnceInv'
<1> USE ConstantsAssumption, ThreadFacts
    DEF ControlInv, TypeOK, SendersFire, OnceInv, OnceIsHeld, CloseByOnce,
        CloseOnce, Named, InsideOnce, Events, vars, sockVars, evtVars, ioVars
<1>1. ASSUME NEW e \in ScriptEvents, JsOn(e) PROVE OnceInv'
  BY <1>1 DEF JsOn, KnownName
<1>2. ASSUME NEW c \in Connects, JsConnect(c) PROVE OnceInv'
  <2>1. pc[Connector(c)] = "none"
    BY <1>2 DEF JsConnect, StoreOptions, OneGoroutinePerCall
  <2> QED
    BY <1>2, <2>1 DEF JsConnect, StoreOptions, Settle, Goto
<1>3. ASSUME NEW r \in Invalid, JsInvalid(r) PROVE OnceInv'
  BY <1>3 DEF JsInvalid, Settle, Goto
<1>4. ASSUME JsDestroy PROVE OnceInv'
  BY <1>4 DEF JsDestroy, Goto
<1>5. ASSUME JsHandle PROVE OnceInv'
  BY <1>5 DEF JsHandle
<1>6. ASSUME NEW r \in Invalid, JsReject(r) PROVE OnceInv'
  BY <1>6 DEF JsReject, RejectPromise, Settle, Goto
<1>7. ASSUME NEW c \in Connects, Lock(c) PROVE OnceInv'
  BY <1>7 DEF Lock, Goto, Unlocked
<1>8. ASSUME NEW c \in Connects, Resolve(c) PROVE OnceInv'
  BY <1>8 DEF Resolve, RecordRemote, Push, ConnectFails, Goto
<1>9. ASSUME NEW c \in Connects, Dial(c) PROVE OnceInv'
  BY <1>9 DEF Dial, Push, ConnectFails, Goto
<1>10. ASSUME NEW c \in Connects, Established(c) PROVE OnceInv'
  BY <1>10 DEF Established, StoreConn, FiresConnect, Push, Goto
<1>11. ASSUME NEW c \in Connects, HandshakeFails(c) PROVE OnceInv'
  BY <1>11 DEF HandshakeFails, CloseFailed, Push, ConnectFails, Goto
<1>12. ASSUME NEW c \in Connects, DeadlineFails(c) PROVE OnceInv'
  BY <1>12 DEF DeadlineFails, StoreConn, Push, ConnectFails, Goto
<1>13. ASSUME NEW c \in Connects, StartRead(c) PROVE OnceInv'
  <2>1. pc[Reader(c)] = "none"
    BY <1>13 DEF StartRead, ReaderAfterConnect
  <2>2. \A t \in Threads :
           \/ pc'[t] = pc[t]
           \/ pc'[t] \notin InsideOnce /\ pc[t] \notin InsideOnce
    BY <1>13, <2>1 DEF StartRead
  <2>3. \A t \in Threads : pc[t] = "cancel" => pc'[t] = "cancel"
    BY <2>2
  <2> QED
    BY <1>13, <2>2, <2>3 DEF StartRead
<1>14. ASSUME NEW c \in Connects, ResolvePromise(c) PROVE OnceInv'
  BY <1>14 DEF ResolvePromise, Push, Settle, Goto
<1>15. ASSUME NEW c \in Connects, Reject(c) PROVE OnceInv'
  BY <1>15 DEF Reject, RejectPromise, Settle, Goto
<1>16. ASSUME NEW c \in Connects,
             NEW err \in {"nil", "eof", "other"}, ReadData(c, err)
      PROVE  OnceInv'
  BY <1>16 DEF ReadData, ReadReturns, Push, Goto
<1>17. ASSUME NEW c \in Connects,
             NEW err \in {"eof", "other"}, ReadFails(c, err)
      PROVE  OnceInv'
  BY <1>17 DEF ReadFails, ReadReturns, Goto
<1>18. ASSUME NEW c \in Connects, ReadTimesOut(c) PROVE OnceInv'
  BY <1>18 DEF ReadTimesOut, ReadReturns, Goto
<1>19. ASSUME NEW c \in Connects, LoopTest(c) PROVE OnceInv'
  BY <1>19 DEF LoopTest, isReadable, Unlocked, Goto
<1>20. ASSUME NEW c \in Connects, Snapshot(c) PROVE OnceInv'
  BY <1>20 DEF Snapshot, Unlocked, Goto
<1>21. ASSUME NEW c \in Connects, ReadClosed(c) PROVE OnceInv'
  BY <1>21 DEF ReadClosed, ReadReturns, Goto
<1>22. ASSUME NEW c \in Connects, AfterRead(c) PROVE OnceInv'
  BY <1>22 DEF AfterRead, isReadable, Unlocked, Goto
<1>23. ASSUME NEW t \in Threads, EnterOnce(t) PROVE OnceInv'
  BY <1>23 DEF EnterOnce, FirstCall, Goto, AfterDestroy
<1>24. ASSUME NEW t \in Threads, Teardown(t) PROVE OnceInv'
  BY <1>24 DEF Teardown, TakeConn, SetDestroyed, Unlocked, Goto
<1>25. ASSUME NEW t \in Threads, CloseConn(t) PROVE OnceInv'
  BY <1>25 DEF CloseConn, Release, Push, Goto
<1>26. ASSUME NEW t \in Threads, Cancel(t) PROVE OnceInv'
  BY <1>26 DEF Cancel, Goto, AfterDestroy
<1>27. ASSUME NEW t \in Threads, HandleError(t) PROVE OnceInv'
  BY <1>27 DEF HandleError, Push, Goto
<1>28. ASSUME NEW t \in Threads, Fire(t) PROVE OnceInv'
  BY <1>28 DEF Fire, Goto, AfterFire
<1>29. ASSUME NEW t \in Threads, Receive(t) PROVE OnceInv'
  BY <1>29 DEF Receive, Goto, AfterFire
<1>30. ASSUME NEW t \in Threads, GiveUp(t) PROVE OnceInv'
  BY <1>30 DEF GiveUp, VuContextDone, Goto, AfterFire
<1>31. ASSUME LoopStops PROVE OnceInv'
  BY <1>31 DEF LoopStops, ContextDone
<1>32. ASSUME VuStops PROVE OnceInv'
  BY <1>32 DEF VuStops
<1>33. ASSUME UNCHANGED vars PROVE OnceInv'
  BY <1>33
<1> HIDE DEF ControlInv, TypeOK, SendersFire, OnceInv, OnceIsHeld, CloseByOnce,
        CloseOnce, Named, InsideOnce, Events, vars, sockVars, evtVars, ioVars
<1> QED
  BY <1>1, <1>2, <1>3, <1>4, <1>5, <1>6, <1>7, <1>8, <1>9, <1>10, <1>11,
     <1>12, <1>13, <1>14, <1>15, <1>16, <1>17, <1>18, <1>19, <1>20, <1>21,
     <1>22, <1>23, <1>24, <1>25, <1>26, <1>27, <1>28, <1>29, <1>30, <1>31,
     <1>32, <1>33  DEF Next, ScriptStep, ConnectStep, PeerStep, ReadStep,
     DestroyStep, FireStep

(* Every step preserves what is known of the connections. *)
LEMMA ConnStep ==
    ASSUME ControlInv, OnceInv, ConnInv, [Next]_vars
    PROVE  ConnInv'
<1> USE ConstantsAssumption, ThreadFacts
    DEF ControlInv, TypeOK, SendersFire, OneGoroutinePerCall, OnceInv, OnceIsHeld,
        InsideOnce, ConnInv, ConnIsStored, Stored, DialledIsLive,
        ReleasedAtClose, HoldsLiveConn, Events, vars, sockVars, evtVars, ioVars
<1>1. ASSUME NEW e \in ScriptEvents, JsOn(e) PROVE ConnInv'
  BY <1>1 DEF JsOn, KnownName
<1>2. ASSUME NEW c \in Connects, JsConnect(c) PROVE ConnInv'
  BY <1>2 DEF JsConnect, StoreOptions, Settle, Goto
<1>3. ASSUME NEW r \in Invalid, JsInvalid(r) PROVE ConnInv'
  BY <1>3 DEF JsInvalid, Settle, Goto
<1>4. ASSUME JsDestroy PROVE ConnInv'
  BY <1>4 DEF JsDestroy, Goto
<1>5. ASSUME JsHandle PROVE ConnInv'
  BY <1>5 DEF JsHandle
<1>6. ASSUME NEW r \in Invalid, JsReject(r) PROVE ConnInv'
  BY <1>6 DEF JsReject, RejectPromise, Settle, Goto
<1>7. ASSUME NEW c \in Connects, Lock(c) PROVE ConnInv'
  BY <1>7 DEF Lock, Goto, Unlocked
<1>8. ASSUME NEW c \in Connects, Resolve(c) PROVE ConnInv'
  BY <1>8 DEF Resolve, RecordRemote, Push, ConnectFails, Goto
<1>9. ASSUME NEW c \in Connects, Dial(c) PROVE ConnInv'
  BY <1>9 DEF Dial, Push, ConnectFails, Goto
<1>10. ASSUME NEW c \in Connects, Established(c) PROVE ConnInv'
  BY <1>10 DEF Established, StoreConn, FiresConnect, Push, Goto
<1>11. ASSUME NEW c \in Connects, HandshakeFails(c) PROVE ConnInv'
  BY <1>11 DEF HandshakeFails, CloseFailed, Push, ConnectFails, Goto
<1>12. ASSUME NEW c \in Connects, DeadlineFails(c) PROVE ConnInv'
  BY <1>12 DEF DeadlineFails, StoreConn, Push, ConnectFails, Goto
<1>13. ASSUME NEW c \in Connects, StartRead(c) PROVE ConnInv'
  BY <1>13 DEF StartRead
<1>14. ASSUME NEW c \in Connects, ResolvePromise(c) PROVE ConnInv'
  BY <1>14 DEF ResolvePromise, Push, Settle, Goto
<1>15. ASSUME NEW c \in Connects, Reject(c) PROVE ConnInv'
  BY <1>15 DEF Reject, RejectPromise, Settle, Goto
<1>16. ASSUME NEW c \in Connects,
             NEW err \in {"nil", "eof", "other"}, ReadData(c, err)
      PROVE  ConnInv'
  BY <1>16 DEF ReadData, ReadReturns, Push, Goto
<1>17. ASSUME NEW c \in Connects,
             NEW err \in {"eof", "other"}, ReadFails(c, err)
      PROVE  ConnInv'
  BY <1>17 DEF ReadFails, ReadReturns, Goto
<1>18. ASSUME NEW c \in Connects, ReadTimesOut(c) PROVE ConnInv'
  BY <1>18 DEF ReadTimesOut, ReadReturns, Goto
<1>19. ASSUME NEW c \in Connects, LoopTest(c) PROVE ConnInv'
  BY <1>19 DEF LoopTest, isReadable, Unlocked, Goto
<1>20. ASSUME NEW c \in Connects, Snapshot(c) PROVE ConnInv'
  BY <1>20 DEF Snapshot, Unlocked, Goto
<1>21. ASSUME NEW c \in Connects, ReadClosed(c) PROVE ConnInv'
  BY <1>21 DEF ReadClosed, ReadReturns, Goto
<1>22. ASSUME NEW c \in Connects, AfterRead(c) PROVE ConnInv'
  BY <1>22 DEF AfterRead, isReadable, Unlocked, Goto
<1>23. ASSUME NEW t \in Threads, EnterOnce(t) PROVE ConnInv'
  BY <1>23 DEF EnterOnce, FirstCall, Goto, AfterDestroy
<1>24. ASSUME NEW t \in Threads, Teardown(t) PROVE ConnInv'
  BY <1>24 DEF Teardown, TakeConn, SetDestroyed, Unlocked, Goto
<1>25. ASSUME NEW t \in Threads, CloseConn(t) PROVE ConnInv'
  BY <1>25 DEF CloseConn, Release, Push, Goto
<1>26. ASSUME NEW t \in Threads, Cancel(t) PROVE ConnInv'
  BY <1>26 DEF Cancel, Goto, AfterDestroy
<1>27. ASSUME NEW t \in Threads, HandleError(t) PROVE ConnInv'
  BY <1>27 DEF HandleError, Push, Goto
<1>28. ASSUME NEW t \in Threads, Fire(t) PROVE ConnInv'
  BY <1>28 DEF Fire, Goto, AfterFire
<1>29. ASSUME NEW t \in Threads, Receive(t) PROVE ConnInv'
  BY <1>29 DEF Receive, Goto, AfterFire
<1>30. ASSUME NEW t \in Threads, GiveUp(t) PROVE ConnInv'
  BY <1>30 DEF GiveUp, VuContextDone, Goto, AfterFire
<1>31. ASSUME LoopStops PROVE ConnInv'
  BY <1>31 DEF LoopStops, ContextDone
<1>32. ASSUME VuStops PROVE ConnInv'
  BY <1>32 DEF VuStops
<1>33. ASSUME UNCHANGED vars PROVE ConnInv'
  BY <1>33
<1> HIDE DEF ControlInv, TypeOK, SendersFire, OneGoroutinePerCall, OnceInv, OnceIsHeld,
        InsideOnce, ConnInv, ConnIsStored, Stored, DialledIsLive,
        ReleasedAtClose, HoldsLiveConn, Events, vars, sockVars, evtVars, ioVars
<1> QED
  BY <1>1, <1>2, <1>3, <1>4, <1>5, <1>6, <1>7, <1>8, <1>9, <1>10, <1>11,
     <1>12, <1>13, <1>14, <1>15, <1>16, <1>17, <1>18, <1>19, <1>20, <1>21,
     <1>22, <1>23, <1>24, <1>25, <1>26, <1>27, <1>28, <1>29, <1>30, <1>31,
     <1>32, <1>33  DEF Next, ScriptStep, ConnectStep, PeerStep, ReadStep,
     DestroyStep, FireStep

(* Every step preserves what is known of the order of events. *)
LEMMA OrderStep ==
    ASSUME ControlInv, OrderInv, [Next]_vars
    PROVE  OrderInv'
<1> USE ConstantsAssumption, ThreadFacts
    DEF ControlInv, TypeOK, SendersFire, ReaderAfterConnect, OneGoroutinePerCall, OrderInv,
        QueuedWhenStarted, ConnectBeforeReads, Sent, Events, vars, sockVars,
        evtVars, ioVars
<1>1. ASSUME NEW e \in ScriptEvents, JsOn(e) PROVE OrderInv'
  BY <1>1 DEF JsOn, KnownName
<1>2. ASSUME NEW c \in Connects, JsConnect(c) PROVE OrderInv'
  BY <1>2 DEF JsConnect, StoreOptions, Settle, Goto
<1>3. ASSUME NEW r \in Invalid, JsInvalid(r) PROVE OrderInv'
  BY <1>3 DEF JsInvalid, Settle, Goto
<1>4. ASSUME JsDestroy PROVE OrderInv'
  BY <1>4 DEF JsDestroy, Goto
<1>5. ASSUME JsHandle PROVE OrderInv'
  BY <1>5 DEF JsHandle
<1>6. ASSUME NEW r \in Invalid, JsReject(r) PROVE OrderInv'
  BY <1>6 DEF JsReject, RejectPromise, Settle, Goto
<1>7. ASSUME NEW c \in Connects, Lock(c) PROVE OrderInv'
  BY <1>7, SMTT(30) DEF Lock, Goto, Unlocked
<1>8. ASSUME NEW c \in Connects, Resolve(c) PROVE OrderInv'
  BY <1>8 DEF Resolve, RecordRemote, Push, ConnectFails, Goto
<1>9. ASSUME NEW c \in Connects, Dial(c) PROVE OrderInv'
  BY <1>9 DEF Dial, Push, ConnectFails, Goto
<1>10. ASSUME NEW c \in Connects, Established(c) PROVE OrderInv'
  BY <1>10 DEF Established, StoreConn, FiresConnect, Push, Goto
<1>11. ASSUME NEW c \in Connects, HandshakeFails(c) PROVE OrderInv'
  BY <1>11 DEF HandshakeFails, CloseFailed, Push, ConnectFails, Goto
<1>12. ASSUME NEW c \in Connects, DeadlineFails(c) PROVE OrderInv'
  BY <1>12, SMTT(30) DEF DeadlineFails, StoreConn, Push, ConnectFails, Goto
<1>13. ASSUME NEW c \in Connects, StartRead(c) PROVE OrderInv'
  BY <1>13 DEF StartRead
<1>14. ASSUME NEW c \in Connects, ResolvePromise(c) PROVE OrderInv'
  BY <1>14 DEF ResolvePromise, Push, Settle, Goto
<1>15. ASSUME NEW c \in Connects, Reject(c) PROVE OrderInv'
  BY <1>15 DEF Reject, RejectPromise, Settle, Goto
<1>16. ASSUME NEW c \in Connects,
             NEW err \in {"nil", "eof", "other"}, ReadData(c, err)
      PROVE  OrderInv'
  BY <1>16 DEF ReadData, ReadReturns, Push, Goto
<1>17. ASSUME NEW c \in Connects,
             NEW err \in {"eof", "other"}, ReadFails(c, err)
      PROVE  OrderInv'
  BY <1>17 DEF ReadFails, ReadReturns, Goto
<1>18. ASSUME NEW c \in Connects, ReadTimesOut(c) PROVE OrderInv'
  BY <1>18 DEF ReadTimesOut, ReadReturns, Goto
<1>19. ASSUME NEW c \in Connects, LoopTest(c) PROVE OrderInv'
  BY <1>19 DEF LoopTest, isReadable, Unlocked, Goto
<1>20. ASSUME NEW c \in Connects, Snapshot(c) PROVE OrderInv'
  BY <1>20 DEF Snapshot, Unlocked, Goto
<1>21. ASSUME NEW c \in Connects, ReadClosed(c) PROVE OrderInv'
  BY <1>21 DEF ReadClosed, ReadReturns, Goto
<1>22. ASSUME NEW c \in Connects, AfterRead(c) PROVE OrderInv'
  BY <1>22, SMTT(30) DEF AfterRead, isReadable, Unlocked, Goto
<1>23. ASSUME NEW t \in Threads, EnterOnce(t) PROVE OrderInv'
  BY <1>23 DEF EnterOnce, FirstCall, Goto, AfterDestroy
<1>24. ASSUME NEW t \in Threads, Teardown(t) PROVE OrderInv'
  BY <1>24 DEF Teardown, TakeConn, SetDestroyed, Unlocked, Goto
<1>25. ASSUME NEW t \in Threads, CloseConn(t) PROVE OrderInv'
  BY <1>25 DEF CloseConn, Release, Push, Goto
<1>26. ASSUME NEW t \in Threads, Cancel(t) PROVE OrderInv'
  BY <1>26 DEF Cancel, Goto, AfterDestroy
<1>27. ASSUME NEW t \in Threads, HandleError(t) PROVE OrderInv'
  BY <1>27 DEF HandleError, Push, Goto
<1>28. ASSUME NEW t \in Threads, Fire(t) PROVE OrderInv'
  BY <1>28 DEF Fire, Goto, AfterFire
<1>29. ASSUME NEW t \in Threads, Receive(t) PROVE OrderInv'
  <2>1. /\ Len(events') = Len(events) + 1
        /\ \A i \in 1..Len(events) : events'[i] = events[i]
        /\ events'[Len(events) + 1].by = t
        /\ Len(events) \in Nat
    BY <1>29 DEF Receive
  <2>2. pc[t] \in Events /\ pc'[t] # "none"
    BY <1>29 DEF Receive, Goto, AfterFire
  <2>3. \A u \in Threads : pc[u] # "none" => pc'[u] # "none"
    BY <1>29, <2>2 DEF Receive, Goto
  <2>4. ASSUME NEW c \in Connects, NEW i \in 1..Len(events'),
               events'[i].by = Reader(c)
        PROVE  pc'[Reader(c)] # "none"
    <3>1. CASE i = Len(events) + 1
      BY <2>1, <2>2, <2>4, <3>1
    <3>2. CASE i \in 1..Len(events)
      BY <2>1, <2>3, <2>4, <3>2
    <3> QED
      BY <2>1, <3>1, <3>2
  <2>5. ASSUME NEW c \in Connects,
               NEW i \in 1..Len(events'), NEW j \in 1..Len(events'),
               Sent(i, Connector(c))', Sent(j, Reader(c))'
        PROVE  i < j
    <3>1. CASE j = Len(events) + 1
      <4>1. t = Reader(c)
        BY <2>1, <2>5, <3>1
      <4>2. i # j
        BY <2>1, <2>5, <3>1, <4>1
      <4> QED
        BY <2>1, <3>1, <4>2
    <3>2. CASE j # Len(events) + 1
      <4>0. j \in 1..Len(events) /\ Sent(j, Reader(c))
        BY <2>1, <2>5, <3>2
      <4>1. pc[Connector(c)] \in {"resolvePromise", "done"}
        BY <4>0
      <4>2. t # Connector(c)
        BY <2>2, <4>1
      <4>3. i # Len(events) + 1
        BY <2>1, <2>5, <4>2
      <4>4. i \in 1..Len(events) /\ j \in 1..Len(events)
        BY <2>1, <3>2, <4>3
      <4>5. Sent(i, Connector(c))
        BY <2>1, <2>5, <4>4
      <4> QED
        BY <4>0, <4>4, <4>5
    <3> QED
      BY <3>1, <3>2
  <2> QED
    BY <2>4, <2>5
<1>30. ASSUME NEW t \in Threads, GiveUp(t) PROVE OrderInv'
  BY <1>30 DEF GiveUp, VuContextDone, Goto, AfterFire
<1>31. ASSUME LoopStops PROVE OrderInv'
  BY <1>31 DEF LoopStops, ContextDone
<1>32. ASSUME VuStops PROVE OrderInv'
  BY <1>32 DEF VuStops
<1>33. ASSUME UNCHANGED vars PROVE OrderInv'
  BY <1>33
<1> HIDE DEF ControlInv, TypeOK, SendersFire, ReaderAfterConnect, OneGoroutinePerCall, OrderInv,
        QueuedWhenStarted, ConnectBeforeReads, Sent, Events, vars, sockVars,
        evtVars, ioVars
<1> QED
  BY <1>1, <1>2, <1>3, <1>4, <1>5, <1>6, <1>7, <1>8, <1>9, <1>10, <1>11,
     <1>12, <1>13, <1>14, <1>15, <1>16, <1>17, <1>18, <1>19, <1>20, <1>21,
     <1>22, <1>23, <1>24, <1>25, <1>26, <1>27, <1>28, <1>29, <1>30, <1>31,
     <1>32, <1>33  DEF Next, ScriptStep, ConnectStep, PeerStep, ReadStep,
     DestroyStep, FireStep

(* Every step preserves OpeningIsLocked. *)
LEMMA OpeningStep ==
    ASSUME ControlInv, OpeningIsLocked, [Next]_vars
    PROVE  OpeningIsLocked'
<1> USE ConstantsAssumption, ThreadFacts
    DEF ControlInv, TypeOK, OpeningIsLocked, vars, sockVars, evtVars, ioVars
<1>1. ASSUME NEW e \in ScriptEvents, JsOn(e) PROVE OpeningIsLocked'
  BY <1>1 DEF JsOn, KnownName
<1>2. ASSUME NEW c \in Connects, JsConnect(c) PROVE OpeningIsLocked'
  BY <1>2 DEF JsConnect, StoreOptions, Settle, Goto
<1>3. ASSUME NEW r \in Invalid, JsInvalid(r) PROVE OpeningIsLocked'
  BY <1>3 DEF JsInvalid, Settle, Goto
<1>4. ASSUME JsDestroy PROVE OpeningIsLocked'
  BY <1>4 DEF JsDestroy, Goto
<1>5. ASSUME JsHandle PROVE OpeningIsLocked'
  BY <1>5 DEF JsHandle
<1>6. ASSUME NEW r \in Invalid, JsReject(r) PROVE OpeningIsLocked'
  BY <1>6 DEF JsReject, RejectPromise, Settle, Goto
<1>7. ASSUME NEW c \in Connects, Lock(c) PROVE OpeningIsLocked'
  BY <1>7 DEF Lock, Goto, Unlocked
<1>8. ASSUME NEW c \in Connects, Resolve(c) PROVE OpeningIsLocked'
  BY <1>8 DEF Resolve, RecordRemote, Push, ConnectFails, Goto
<1>9. ASSUME NEW c \in Connects, Dial(c) PROVE OpeningIsLocked'
  BY <1>9 DEF Dial, Push, ConnectFails, Goto
<1>10. ASSUME NEW c \in Connects, Established(c) PROVE OpeningIsLocked'
  BY <1>10 DEF Established, StoreConn, FiresConnect, Push, Goto
<1>11. ASSUME NEW c \in Connects, HandshakeFails(c) PROVE OpeningIsLocked'
  BY <1>11 DEF HandshakeFails, CloseFailed, Push, ConnectFails, Goto
<1>12. ASSUME NEW c \in Connects, DeadlineFails(c) PROVE OpeningIsLocked'
  BY <1>12 DEF DeadlineFails, StoreConn, Push, ConnectFails, Goto
<1>13. ASSUME NEW c \in Connects, StartRead(c) PROVE OpeningIsLocked'
  BY <1>13 DEF StartRead
<1>14. ASSUME NEW c \in Connects, ResolvePromise(c) PROVE OpeningIsLocked'
  BY <1>14 DEF ResolvePromise, Push, Settle, Goto
<1>15. ASSUME NEW c \in Connects, Reject(c) PROVE OpeningIsLocked'
  BY <1>15 DEF Reject, RejectPromise, Settle, Goto
<1>16. ASSUME NEW c \in Connects,
             NEW err \in {"nil", "eof", "other"}, ReadData(c, err)
      PROVE  OpeningIsLocked'
  BY <1>16 DEF ReadData, ReadReturns, Push, Goto
<1>17. ASSUME NEW c \in Connects,
             NEW err \in {"eof", "other"}, ReadFails(c, err)
      PROVE  OpeningIsLocked'
  BY <1>17 DEF ReadFails, ReadReturns, Goto
<1>18. ASSUME NEW c \in Connects, ReadTimesOut(c) PROVE OpeningIsLocked'
  BY <1>18 DEF ReadTimesOut, ReadReturns, Goto
<1>19. ASSUME NEW c \in Connects, LoopTest(c) PROVE OpeningIsLocked'
  BY <1>19 DEF LoopTest, isReadable, Unlocked, Goto
<1>20. ASSUME NEW c \in Connects, Snapshot(c) PROVE OpeningIsLocked'
  BY <1>20 DEF Snapshot, Unlocked, Goto
<1>21. ASSUME NEW c \in Connects, ReadClosed(c) PROVE OpeningIsLocked'
  BY <1>21 DEF ReadClosed, ReadReturns, Goto
<1>22. ASSUME NEW c \in Connects, AfterRead(c) PROVE OpeningIsLocked'
  BY <1>22 DEF AfterRead, isReadable, Unlocked, Goto
<1>23. ASSUME NEW t \in Threads, EnterOnce(t) PROVE OpeningIsLocked'
  BY <1>23 DEF EnterOnce, FirstCall, Goto, AfterDestroy
<1>24. ASSUME NEW t \in Threads, Teardown(t) PROVE OpeningIsLocked'
  BY <1>24 DEF Teardown, TakeConn, SetDestroyed, Unlocked, Goto
<1>25. ASSUME NEW t \in Threads, CloseConn(t) PROVE OpeningIsLocked'
  BY <1>25 DEF CloseConn, Release, Push, Goto
<1>26. ASSUME NEW t \in Threads, Cancel(t) PROVE OpeningIsLocked'
  BY <1>26 DEF Cancel, Goto, AfterDestroy
<1>27. ASSUME NEW t \in Threads, HandleError(t) PROVE OpeningIsLocked'
  BY <1>27 DEF HandleError, Push, Goto
<1>28. ASSUME NEW t \in Threads, Fire(t) PROVE OpeningIsLocked'
  BY <1>28 DEF Fire, Goto, AfterFire
<1>29. ASSUME NEW t \in Threads, Receive(t) PROVE OpeningIsLocked'
  BY <1>29 DEF Receive, Goto, AfterFire
<1>30. ASSUME NEW t \in Threads, GiveUp(t) PROVE OpeningIsLocked'
  BY <1>30 DEF GiveUp, VuContextDone, Goto, AfterFire
<1>31. ASSUME LoopStops PROVE OpeningIsLocked'
  BY <1>31 DEF LoopStops, ContextDone
<1>32. ASSUME VuStops PROVE OpeningIsLocked'
  BY <1>32 DEF VuStops
<1>33. ASSUME UNCHANGED vars PROVE OpeningIsLocked'
  BY <1>33
<1> HIDE DEF ControlInv, TypeOK, OpeningIsLocked, vars, sockVars, evtVars, ioVars
<1> QED
  BY <1>1, <1>2, <1>3, <1>4, <1>5, <1>6, <1>7, <1>8, <1>9, <1>10, <1>11,
     <1>12, <1>13, <1>14, <1>15, <1>16, <1>17, <1>18, <1>19, <1>20, <1>21,
     <1>22, <1>23, <1>24, <1>25, <1>26, <1>27, <1>28, <1>29, <1>30, <1>31,
     <1>32, <1>33  DEF Next, ScriptStep, ConnectStep, PeerStep, ReadStep,
     DestroyStep, FireStep

(* The initial state, a socket that newSocket() has just made, satisfies   *)
(* the inductive invariant.                                                *)
LEMMA InitIInv == Init => IInv
<1> SUFFICES ASSUME Init PROVE IInv
  OBVIOUS
<1> USE ConstantsAssumption, ThreadFacts DEF Init
<1>1. ControlInv
  <2>1. target \in Targets
    BY DEF Targets
  <2>2. events \in Seq([name : Events, by : Threads])
    OBVIOUS
  <2>3. samples \in [Metrics -> Nat]
    OBVIOUS
  <2>4. pc \in [Threads -> Labels]
    BY DEF Labels
  <2> QED
    BY <2>1, <2>2, <2>3, <2>4
       DEF ControlInv, TypeOK, SendersFire, OneGoroutinePerCall,
           ReaderAfterConnect, States
<1>2. OnceInv
  BY DEF OnceInv, OnceIsHeld, CloseByOnce, CloseOnce, InsideOnce
<1>3. ConnInv
  BY DEF ConnInv, ConnIsStored, DialledIsLive, ReleasedAtClose, HoldsLiveConn
<1>4. OrderInv
  BY DEF OrderInv, QueuedWhenStarted, ConnectBeforeReads
<1>5. OpeningIsLocked
  BY DEF OpeningIsLocked
<1> QED
  BY <1>1, <1>2, <1>3, <1>4, <1>5 DEF IInv

(* The inductive invariant holds in every state of every behaviour of the  *)
(* socket.                                                                 *)
THEOREM InductiveInvariant == Spec => []IInv
<1>1. IInv /\ [Next]_vars => IInv'
  BY ControlStep, OnceStep, ConnStep, OrderStep, OpeningStep DEF IInv
<1> QED
  BY InitIInv, <1>1, PTL DEF Spec

(* Every variable of the socket keeps its type; on() never stores a        *)
(* handler for an event the socket does not have.                          *)
THEOREM TypeCorrect == Spec => []TypeOK
<1>1. IInv => TypeOK
  BY DEF IInv, ControlInv
<1> QED
  BY InductiveInvariant, <1>1, PTL

(* However many goroutines race into destroy(), and whatever the script    *)
(* does, the close event is queued at most once.                           *)
THEOREM CloseAtMostOnce == Spec => []CloseOnce
<1>1. IInv => CloseOnce
  BY DEF IInv, OnceInv
<1> QED
  BY InductiveInvariant, <1>1, PTL

(* The connection that destroy() took from the socket is closed before the *)
(* close event is queued.                                                  *)
THEOREM ReleaseBeforeClose == Spec => []CloseAfterRelease
<1>1. IInv => CloseAfterRelease
  BY DEF IInv, OnceInv, CloseByOnce, ConnInv, ReleasedAtClose, CloseAfterRelease
<1> QED
  BY InductiveInvariant, <1>1, PTL

(* s.conn is never a connection that this side has closed, whatever        *)
(* connect(), destroy() and the read goroutines do to each other.          *)
THEOREM ConnIsLive == Spec => []HoldsLiveConn
<1>1. IInv => HoldsLiveConn
  BY DEF IInv, ConnInv
<1> QED
  BY InductiveInvariant, <1>1, PTL

(* No event of a read goroutine overtakes the connect event of the call    *)
(* that started it.                                                        *)
THEOREM ConnectComesFirst == Spec => []ConnectBeforeReads
<1>1. IInv => ConnectBeforeReads
  BY DEF IInv, OrderInv
<1> QED
  BY InductiveInvariant, <1>1, PTL

-----------------------------------------------------------------------------
(* After the close event *)

(* Where a read goroutine can be, and where it can be once it has queued   *)
(* an event after close *)
ReaderLabels == {"none", "loop", "snapshot", "read", "data", "afterRead", "timeout",
                 "handleError", "error", "destroy", "done"} \cup InsideOnce

LastLabels == {"afterRead", "loop", "destroy", "done"}

ReadersRead == \A c \in Connects : pc[Reader(c)] \in ReaderLabels

LastWords ==
    state = "destroyed" =>
        \A c \in Connects : \A i, j \in 1..Len(events) :
            Named(i, "close") /\ i < j /\ Sent(j, Reader(c)) => pc[Reader(c)] \in LastLabels

QuietInv == ReadersRead /\ LastWords /\ FewAfterClose

(* A step that queues no event and does not destroy the socket: a reader   *)
(* that has had its last word on a destroyed socket stays silent.          *)
Hushed ==
    /\ ReadersRead'
    /\ UNCHANGED events
    /\ state' = "destroyed" => state = "destroyed"
    /\ state = "destroyed" /\ CloseQueued =>
          \A c \in Connects : pc[Reader(c)] \in LastLabels => pc'[Reader(c)] \in LastLabels

LEMMA HushedKeeps ==
    ASSUME QuietInv, Hushed
    PROVE  QuietInv'
<1>1. LastWords'
  BY DEF QuietInv, Hushed, LastWords, CloseQueued, Named, Sent
<1>2. FewAfterClose'
  BY DEF QuietInv, Hushed, FewAfterClose, Named, Sent
<1> QED
  BY <1>1, <1>2 DEF QuietInv, Hushed

(* Close has not been queued while destroyOnce has not been entered, or is *)
(* before its last step.                                                   *)
LEMMA CloseIsLate ==
    ASSUME OnceInv
    PROVE  /\ once = "new" => ~CloseQueued
           /\ \A t \in Threads : pc[t] \in InsideOnce \ {"cancel"} => ~CloseQueued
  BY DEF OnceInv, OnceIsHeld, CloseByOnce, CloseQueued, InsideOnce

LEMMA QuietStep ==
    ASSUME IInv, QuietInv, [Next]_vars
    PROVE  QuietInv'
<1>0. ControlInv /\ OnceInv /\ pc \in [Threads -> Labels]
  BY DEF IInv, ControlInv, TypeOK
<1> USE <1>0, ConstantsAssumption, ThreadFacts
    DEF Hushed, QuietInv, ReadersRead, ReaderLabels, LastLabels, Goto, vars, sockVars,
        evtVars, ioVars
<1>1. ASSUME ScriptStep \/ JsHandle \/ \E r \in Invalid : JsReject(r) PROVE Hushed
  BY <1>1 DEF ScriptStep, JsOn, JsConnect, JsInvalid, JsDestroy, JsHandle, JsReject
<1>2. ASSUME NEW c \in Connects, ConnectStep(c) PROVE Hushed
  <2>1. CASE StartRead(c)
    BY <2>1 DEF StartRead
  <2>2. CASE ~StartRead(c)
    <3>1. \E l : pc' = [pc EXCEPT ![Connector(c)] = l]
      BY <1>2, <2>2 DEF ConnectStep, Lock, Resolve, Dial, Established, HandshakeFails,
         DeadlineFails, ConnectFails, FiresConnect, ResolvePromise, Reject
    <3>2. UNCHANGED events /\ (state' = "destroyed" => state = "destroyed")
      BY <1>2, <2>2 DEF ConnectStep, Lock, Resolve, Dial, Established, HandshakeFails,
         DeadlineFails, ConnectFails, FiresConnect, ResolvePromise, Reject
    <3> QED
      BY <3>1, <3>2
  <2> QED
    BY <2>1, <2>2
<1>3. ASSUME NEW c \in Connects, PeerStep(c) PROVE Hushed
  BY <1>3 DEF PeerStep, ReadData, ReadFails, ReadTimesOut, ReadReturns
<1>4. ASSUME NEW c \in Connects, ReadStep(c) PROVE Hushed
  <2>1. UNCHANGED <<events, state>>
    BY <1>4 DEF ReadStep, LoopTest, Snapshot, ReadClosed, ReadReturns, AfterRead
  <2>2. PICK l : pc' = [pc EXCEPT ![Reader(c)] = l]
    BY <1>4 DEF ReadStep, LoopTest, Snapshot, ReadClosed, AfterRead
  <2>3. /\ l \in {"destroy", "snapshot", "read", "afterRead", "loop", "timeout", "handleError"}
        /\ state = "destroyed" /\ pc[Reader(c)] \in LastLabels => l = "destroy"
    <3>1. pc'[Reader(c)] = l
      BY <2>2
    <3>2. CASE LoopTest(c)
      BY <3>1, <3>2 DEF LoopTest, isReadable
    <3>3. CASE Snapshot(c) \/ ReadClosed(c)
      BY <3>1, <3>3 DEF Snapshot, ReadClosed, ReadReturns
    <3>4. CASE AfterRead(c)
      BY <3>1, <3>4 DEF AfterRead, isReadable, ControlInv, TypeOK
    <3> QED
      BY <1>4, <3>2, <3>3, <3>4 DEF ReadStep
  <2> QED
    BY <2>1, <2>2, <2>3
<1>5. ASSUME NEW t \in Threads, DestroyStep(t), ~Teardown(t) PROVE Hushed
  <2>1. UNCHANGED <<events, state>>
    BY <1>5 DEF DestroyStep, EnterOnce, CloseConn, Cancel
  <2>2. CASE EnterOnce(t)
    BY <2>1, <2>2, CloseIsLate DEF EnterOnce, FirstCall, AfterDestroy, InsideOnce
  <2>3. CASE CloseConn(t) \/ Cancel(t)
    BY <2>1, <2>3 DEF CloseConn, Cancel, AfterDestroy, InsideOnce
  <2> QED
    BY <1>5, <2>2, <2>3 DEF DestroyStep
<1>6. ASSUME NEW t \in Threads, HandleError(t) \/ Fire(t) \/ GiveUp(t) PROVE Hushed
  <2>1. UNCHANGED <<events, state>>
    BY <1>6 DEF HandleError, Fire, GiveUp
  <2>2. pc[t] \in Events \cup {"handleError"}
    BY <1>6 DEF HandleError, Fire, GiveUp, ControlInv, SendersFire
  <2>3. \/ UNCHANGED pc
        \/ pc[t] = "handleError" /\ pc' = [pc EXCEPT ![t] = "error"]
        \/ pc[t] \in Events /\ pc' = [pc EXCEPT ![t] = AfterFire(t)]
    BY <1>6, <2>2 DEF HandleError, Fire, GiveUp, ControlInv, SendersFire
  <2>4. ASSUME NEW c \in Connects, t = Reader(c), pc[t] \in Events
        PROVE  AfterFire(t) \in ReaderLabels
    BY <2>4 DEF AfterFire, Events, InsideOnce, Readers
  <2> QED
    BY <2>1, <2>2, <2>3, <2>4 DEF Events
<1>7. ASSUME LoopStops \/ VuStops \/ UNCHANGED vars PROVE Hushed
  BY <1>7 DEF LoopStops, VuStops
<1>8. ASSUME NEW t \in Threads, Teardown(t) PROVE QuietInv'
  <2>1. ~CloseQueued /\ UNCHANGED events
    BY <1>8, CloseIsLate DEF Teardown, InsideOnce
  <2>2. ReadersRead'
    BY <1>8 DEF Teardown, InsideOnce
  <2> QED
    BY <2>1, <2>2 DEF CloseQueued, LastWords, FewAfterClose, Named
<1>9. ASSUME NEW t \in Threads, Receive(t) PROVE QuietInv'
  <2>1. /\ Len(events) \in Nat /\ Len(events') = Len(events) + 1
        /\ \A i \in 1..Len(events) : events'[i] = events[i]
        /\ events'[Len(events) + 1] = [name |-> pc[t], by |-> t]
        /\ UNCHANGED state /\ pc' = [pc EXCEPT ![t] = AfterFire(t)]
    BY <1>9 DEF Receive, ControlInv, TypeOK
  <2>2. pc[t] \in Events
    BY <1>9 DEF Receive, ControlInv, SendersFire
  <2>3. ASSUME NEW c \in Connects, t = Reader(c)
        PROVE  /\ AfterFire(t) \in ReaderLabels
               /\ pc[t] = "close" \/ AfterFire(t) \in LastLabels
               /\ pc[t] \notin LastLabels
    BY <2>2, <2>3 DEF AfterFire, Events, InsideOnce, Readers
  <2>4. ReadersRead'
    BY <2>1, <2>3
  <2>5. LastWords'
    <3> SUFFICES ASSUME state = "destroyed", NEW c \in Connects,
                        NEW i \in 1..Len(events'), NEW j \in 1..Len(events'),
                        Named(i, "close")', i < j, Sent(j, Reader(c))'
                 PROVE  pc'[Reader(c)] \in LastLabels
      BY <2>1 DEF LastWords
    <3>1. i \in 1..Len(events) /\ Named(i, "close") /\ CloseQueued
      BY <2>1 DEF Named, CloseQueued
    <3>2. CASE j = Len(events) + 1
      <4>1. t = Reader(c) /\ pc[t] # "close"
        BY <2>1, <3>1, <3>2, CloseIsLate DEF Sent, InsideOnce
      <4> QED
        BY <2>1, <2>3, <4>1
    <3>3. CASE j \in 1..Len(events)
      <4>1. pc[Reader(c)] \in LastLabels
        BY <2>1, <3>1, <3>3 DEF LastWords, Sent
      <4> QED
        BY <2>1, <2>3, <4>1
    <3> QED
      BY <2>1, <3>2, <3>3
  <2>6. FewAfterClose'
    <3> SUFFICES ASSUME state = "destroyed", NEW c \in Connects,
                        NEW i \in 1..Len(events'), NEW j \in 1..Len(events'),
                        NEW k \in 1..Len(events'), Named(i, "close")',
                        Sent(j, Reader(c))', Sent(k, Reader(c))', i < j, j < k
                 PROVE  FALSE
      BY <2>1 DEF FewAfterClose
    <3>1. /\ i \in 1..Len(events) /\ Named(i, "close")
          /\ j \in 1..Len(events) /\ Sent(j, Reader(c))
      BY <2>1 DEF Named, Sent
    <3>2. pc[Reader(c)] \in LastLabels
      BY <3>1 DEF LastWords
    <3>3. t # Reader(c)
      BY <2>3, <3>2
    <3>4. k \in 1..Len(events) /\ Sent(k, Reader(c))
      BY <2>1, <3>3 DEF Sent
    <3> QED
      BY <3>1, <3>4 DEF FewAfterClose
  <2> QED
    BY <2>4, <2>5, <2>6
<1> HIDE DEF Hushed, QuietInv
<1> QED
  BY <1>1, <1>2, <1>3, <1>4, <1>5, <1>6, <1>7, <1>8, <1>9, HushedKeeps
     DEF Next, DestroyStep, FireStep

(* Whatever the script does and however the goroutines interleave, a read  *)
(* goroutine of a destroyed socket queues at most one event after the      *)
(* close event.                                                            *)
THEOREM OneEventAfterClose == Spec => []FewAfterClose
<1>1. Init => QuietInv
  BY ConstantsAssumption, ThreadFacts
     DEF Init, QuietInv, ReadersRead, ReaderLabels, LastWords, FewAfterClose
<1>2. IInv /\ QuietInv /\ [Next]_vars => QuietInv'
  BY QuietStep
<1>3. QuietInv => FewAfterClose
  BY DEF QuietInv
<1> QED
  BY <1>1, <1>2, <1>3, InductiveInvariant, PTL DEF Spec
=============================================================================
