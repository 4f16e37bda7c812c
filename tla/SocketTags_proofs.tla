-------------------------- MODULE SocketTags_proofs --------------------------
(***************************************************************************)
(* Proofs about SocketTags for scripts that are careful, for any tags of   *)
(* the VU, of the socket and of the calls.                                 *)
(***************************************************************************)
EXTENDS SocketTags, SocketCareful_proofs

(* The stored options are those of the call whose outcome is open, and     *)
(* later of the one that succeeded.                                        *)
OptionsInv == \A c \in Connects : Attempting(c) \/ Succeeded(c) => connectOpts = c

(* A tag set tells of call c. *)
Describes(ts, c) ==
    /\ ts["host"] = c
    /\ ts["port"] = c
    /\ \A k \in DOMAIN CallTags[c] \ {"host", "port", "ip"} : ts[k] = CallTags[c][k]

(* What is computed early is right when it is used. *)
AttemptInv ==
    \A c \in Connects :
        pc[Connector(c)] \notin {"none", "lock"} => Describes(attempt[c], c)

FinalInv == closing # None => Describes(final, closing) /\ final["ip"] = closing

TagsInv == OptionsInv /\ AttemptInv /\ FinalInv /\ ConnectionTags

-----------------------------------------------------------------------------
(* tags() puts the call's host, port and tags over those of the socket. *)
LEMMA TagsDescribe ==
    ASSUME NEW c \in Connects, connectOpts = c
    PROVE  /\ Describes(tags, c)
           /\ endpoints.remote = c => tags["ip"] = c
<1> DEFINE base == addToTagSet(addToTagSet(currentTags, [proto |-> "TCP"]), OwnTags)
           own  == addToTagSet(base, CallTags[c])
           call == addToTagSet(own, [host |-> c, port |-> c])
           all  == IF endpoints.remote = None THEN call
                   ELSE addToTagSet(call, [ip |-> endpoints.remote])
<1>1. tags = all
  BY ConstantsAssumption DEF tags
<1> HIDE DEF base
<1>2. /\ call["host"] = c /\ call["port"] = c
      /\ {"host", "port"} \subseteq DOMAIN call
  <2>1. {"host", "port"} = DOMAIN [host |-> c, port |-> c]
    OBVIOUS
  <2> QED
    BY <2>1 DEF addToTagSet
<1>3. ASSUME NEW k \in DOMAIN CallTags[c] \ {"host", "port", "ip"}
      PROVE  call[k] = CallTags[c][k] /\ k \in DOMAIN call
  <2>1. k \in DOMAIN own /\ own[k] = CallTags[c][k]
    BY <1>3 DEF addToTagSet
  <2>2. k \notin DOMAIN [host |-> c, port |-> c]
    BY <1>3
  <2> HIDE DEF own
  <2> QED
    BY <2>1, <2>2 DEF addToTagSet
<1> HIDE DEF call
<1>4. \A k \in DOMAIN call \ {"ip"} : all[k] = call[k]
  <2>1. DOMAIN [ip |-> endpoints.remote] = {"ip"}
    OBVIOUS
  <2> QED
    BY <2>1 DEF addToTagSet
<1>5. endpoints.remote = c => all["ip"] = c
  <2>1. "ip" \in DOMAIN [ip |-> endpoints.remote]
    OBVIOUS
  <2> QED
    BY <2>1, ConstantsAssumption DEF addToTagSet
<1> HIDE DEF all
<1> QED
  BY <1>1, <1>2, <1>3, <1>4, <1>5 DEF Describes

(* A goroutine that is past the lock has taken it just now, or was past it *)
(* before.                                                                 *)
LEMMA PastTheLock ==
    ASSUME IInv, PlacesInv, [Next]_vars, NEW c \in Connects,
           pc[Connector(c)] \in {"none", "lock"}
    PROVE  \/ pc'[Connector(c)] \in {"none", "lock"}
           \/ Moves(Connector(c), "lock", "resolving")
<1> DEFINE Goal == \/ pc'[Connector(c)] \in {"none", "lock"}
                   \/ Moves(Connector(c), "lock", "resolving")
<1> USE ConstantsAssumption, ThreadFacts
    DEF IInv, ControlInv, TypeOK, Goto, Moves
<1>1. ASSUME ScriptStep PROVE Goal
  BY <1>1 DEF ScriptStep, JsOn, JsConnect, JsInvalid, JsDestroy
<1>2. ASSUME JsHandle \/ \E r \in Invalid : JsReject(r) PROVE Goal
  BY <1>2 DEF JsHandle, JsReject
<1>3. ASSUME NEW d \in Connects, ConnectStep(d) PROVE Goal
  <2>1. CASE Lock(d)
    BY <2>1 DEF Lock
  <2>2. CASE StartRead(d)
    BY <2>2 DEF StartRead
  <2>3. CASE ~Lock(d) /\ ~StartRead(d)
    <3>1. /\ pc[Connector(d)] \notin {"none", "lock"}
          /\ \E l : pc' = [pc EXCEPT ![Connector(d)] = l]
      BY <1>3, <2>3 DEF ConnectStep, Resolve, Dial, Established, HandshakeFails,
         DeadlineFails, ConnectFails, FiresConnect, ResolvePromise, Reject
    <3> QED
      BY <3>1
  <2> QED
    BY <2>1, <2>2, <2>3
<1>4. ASSUME NEW d \in Connects, PeerStep(d) \/ ReadStep(d) PROVE Goal
  BY <1>4 DEF PeerStep, ReadStep, ReadData, ReadFails, ReadTimesOut, ReadClosed, ReadReturns,
     LoopTest, isReadable, Snapshot, AfterRead
<1>5. ASSUME NEW t \in Threads, DestroyStep(t) \/ FireStep(t) PROVE Goal
  <2>1. /\ pc[t] \in Events \cup Destroying \cup {"handleError"}
        /\ pc' = pc \/ \E l : pc' = [pc EXCEPT ![t] = l]
    BY <1>5 DEF DestroyStep, EnterOnce, Teardown, CloseConn, Cancel,
       FireStep, HandleError, Fire, Receive, GiveUp, SendersFire, Destroying, InsideOnce
  <2>2. t # Connector(c)
    BY <2>1 DEF Events, Destroying, InsideOnce
  <2> QED
    BY <2>1, <2>2
<1>6. ASSUME LoopStops \/ VuStops \/ UNCHANGED vars PROVE Goal
  BY <1>6 DEF LoopStops, VuStops, vars
<1> HIDE DEF Goal, IInv, ControlInv, TypeOK, Goto, Moves
<1>7. Goal
  BY <1>1, <1>2, <1>3, <1>4, <1>5, <1>6 DEF Next
<1> QED
  BY <1>7 DEF Goal

(* The connection that destroy() is going to close changes only when it    *)
(* takes it from the socket.                                               *)
LEMMA TeardownOnly ==
    ASSUME IInv, PlacesInv, [Next]_vars
    PROVE  \/ /\ UNCHANGED closing
              /\ \A t \in Threads : ~Moves(t, "teardown", "closeConn")
           \/ \E t \in Threads : Teardown(t) /\ Moves(t, "teardown", "closeConn")
<1> DEFINE Quiet == /\ UNCHANGED closing
                    /\ \A t \in Threads : ~Moves(t, "teardown", "closeConn")
<1> USE ConstantsAssumption, ThreadFacts
    DEF IInv, ControlInv, TypeOK, Goto, Moves, ioVars
<1>1. ASSUME ScriptStep PROVE Quiet
  BY <1>1 DEF ScriptStep, JsOn, JsConnect, JsInvalid, JsDestroy
<1>2. ASSUME JsHandle \/ \E r \in Invalid : JsReject(r) PROVE Quiet
  BY <1>2 DEF JsHandle, JsReject
<1>3. ASSUME NEW c \in Connects, ConnectStep(c) PROVE Quiet
  <2>1. UNCHANGED closing
    BY <1>3 DEF ConnectStep, Lock, Resolve, Dial, Established, HandshakeFails, DeadlineFails,
       StartRead, ResolvePromise, Reject
  <2>2. \A t \in Threads : t # Connector(c) => pc'[t] = pc[t] \/ pc'[t] = "loop"
    <3>1. CASE StartRead(c)
      BY <3>1 DEF StartRead
    <3>2. CASE ~StartRead(c)
      <4>1. \E l : pc' = [pc EXCEPT ![Connector(c)] = l]
        BY <1>3, <3>2 DEF ConnectStep, Lock, Resolve, Dial, Established, HandshakeFails,
           DeadlineFails, ConnectFails, FiresConnect, ResolvePromise, Reject
      <4> QED
        BY <4>1
    <3> QED
      BY <3>1, <3>2
  <2>3. pc[Connector(c)] # "teardown"
    BY DEF PlacesInv, Pending
  <2> QED
    BY <2>1, <2>2, <2>3
<1>4. ASSUME NEW c \in Connects, PeerStep(c) \/ ReadStep(c) PROVE Quiet
  <2>1. CASE PeerStep(c)
    <3>1. \E l \in {"data", "afterRead"} : Goto(Reader(c), l) /\ UNCHANGED closing
      BY <2>1 DEF PeerStep, ReadData, ReadFails, ReadTimesOut, ReadReturns
    <3>2. pc[Reader(c)] # "teardown"
      BY <2>1 DEF PeerStep, ReadData, ReadFails, ReadTimesOut, ReadReturns
    <3> QED
      BY <3>1, <3>2
  <2>2. CASE ReadStep(c)
    BY <2>2 DEF ReadStep, ReadClosed, ReadReturns, LoopTest, isReadable, Snapshot, AfterRead
  <2> QED
    BY <1>4, <2>1, <2>2
<1>5. ASSUME NEW t \in Threads, DestroyStep(t), ~Teardown(t) PROVE Quiet
  BY <1>5 DEF DestroyStep, EnterOnce, CloseConn, Cancel
<1>6. ASSUME NEW t \in Threads, FireStep(t) PROVE Quiet
  <2>1. /\ pc[t] # "teardown" /\ UNCHANGED closing
        /\ pc' = pc \/ \E l : pc' = [pc EXCEPT ![t] = l]
    BY <1>6 DEF FireStep, HandleError, Fire, Receive, GiveUp, SendersFire, Events
  <2> QED
    BY <2>1
<1>7. ASSUME LoopStops \/ VuStops \/ UNCHANGED vars PROVE Quiet
  BY <1>7 DEF LoopStops, VuStops, vars
<1>8. ASSUME NEW t \in Threads, Teardown(t) PROVE Moves(t, "teardown", "closeConn")
  BY <1>8 DEF Teardown
<1> HIDE DEF Quiet, IInv, ControlInv, TypeOK, Goto, Moves, ioVars
<1>9. Quiet \/ \E t \in Threads : Teardown(t) /\ Moves(t, "teardown", "closeConn")
  BY <1>1, <1>2, <1>3, <1>4, <1>5, <1>6, <1>7, <1>8 DEF Next, DestroyStep
<1> QED
  BY <1>9 DEF Quiet

(* Which thread pushes which sample, and where it is when it does *)
Pushes(t, m) ==
    \/ /\ m \in {"resolving", "connecting", "sockets"}
       /\ \E c \in Connects : t = Connector(c)
       /\ pc[t] \in Underway \cup {"resolvePromise"}
    \/ m = "errors" /\ pc[t] = "handleError"
    \/ m = "duration" /\ pc[t] = "closeConn" /\ closing # None
    \/ m = "reads" /\ t \in Readers

LEMMA PushSteps ==
    ASSUME IInv, [Next]_vars, NEW m \in Metrics, NEW t \in Threads,
           samples'[m] > samples[m], pc'[t] # pc[t]
    PROVE  Pushes(t, m)
<1>0. /\ samples \in [Metrics -> Nat] /\ pc \in [Threads -> Labels]
      /\ samples' # samples
  <2>1. samples \in [Metrics -> Nat] /\ pc \in [Threads -> Labels]
    BY DEF IInv, ControlInv, TypeOK
  <2> QED
    BY <2>1
<1> USE <1>0, ThreadFacts
<1>1. ASSUME NEW n \in Metrics, Push(n) PROVE m = n
  BY <1>1 DEF Push
<1>2. ASSUME NEW u \in Threads, NEW l, pc' = [pc EXCEPT ![u] = l] PROVE t = u
  BY <1>2
<1>3. ASSUME NEW c \in Connects, ConnectStep(c) PROVE Pushes(t, m)
  <2>1. ~Lock(c) /\ ~StartRead(c) /\ ~Reject(c)
    BY DEF Lock, StartRead, Reject
  <2>2. \E l : pc' = [pc EXCEPT ![Connector(c)] = l]
    BY <1>3, <2>1 DEF ConnectStep, Resolve, Dial, Established, HandshakeFails,
       DeadlineFails, ConnectFails, FiresConnect, ResolvePromise, Goto
  <2>3. t = Connector(c)
    BY <1>2, <2>2
  <2>4. \E n \in {"resolving", "connecting", "sockets"} : Push(n)
    BY <1>3, <2>1 DEF ConnectStep, Resolve, Dial, Established, HandshakeFails,
       DeadlineFails, ResolvePromise
  <2>5. m \in {"resolving", "connecting", "sockets"}
    BY <1>1, <2>4 DEF Metrics
  <2>6. pc[Connector(c)] \in Underway \cup {"resolvePromise"}
    BY <1>3, <2>1 DEF ConnectStep, Resolve, Dial, Established, HandshakeFails,
       DeadlineFails, ResolvePromise, Underway
  <2> QED
    BY <2>3, <2>5, <2>6 DEF Pushes
<1>4. ASSUME NEW c \in Connects, PeerStep(c) \/ ReadStep(c) PROVE Pushes(t, m)
  <2>1. PICK err \in {"nil", "eof", "other"} : ReadData(c, err)
    BY <1>4 DEF PeerStep, ReadStep, ReadFails, ReadTimesOut, ReadClosed,
       LoopTest, isReadable, Snapshot, AfterRead
  <2>2. t = Reader(c)
    BY <1>2, <2>1 DEF ReadData, Goto
  <2>3. m = "reads"
    BY <1>1, <2>1 DEF ReadData, Metrics
  <2> QED
    BY <2>2, <2>3 DEF Pushes, Readers
<1>5. ASSUME NEW u \in Threads, DestroyStep(u) PROVE Pushes(t, m)
  <2>1. CloseConn(u) /\ closing # None
    BY <1>5 DEF DestroyStep, EnterOnce, Teardown, CloseConn, Cancel
  <2>2. t = u
    BY <1>2, <2>1 DEF CloseConn, Goto
  <2>3. m = "duration"
    BY <1>1, <2>1 DEF CloseConn, Release, Metrics
  <2> QED
    BY <2>1, <2>2, <2>3 DEF Pushes, CloseConn
<1>6. ASSUME NEW u \in Threads, FireStep(u) PROVE Pushes(t, m)
  <2>1. HandleError(u)
    BY <1>6 DEF FireStep, Fire, Receive, GiveUp
  <2>2. t = u
    BY <1>2, <2>1 DEF HandleError, Goto
  <2>3. m = "errors"
    BY <1>1, <2>1 DEF HandleError, Metrics
  <2> QED
    BY <2>1, <2>2, <2>3 DEF Pushes, HandleError
<1>7. ~(LoopStops \/ VuStops \/ UNCHANGED vars \/ JsHandle)
  BY DEF LoopStops, VuStops, vars, JsHandle
<1>8. ~(ScriptStep \/ \E r \in Invalid : JsReject(r))
  BY DEF ScriptStep, JsOn, JsConnect, JsInvalid, JsDestroy, JsReject
<1> QED
  BY <1>3, <1>4, <1>5, <1>6, <1>7, <1>8 DEF Next

(* A call has succeeded before the step, or its attempt was under way. *)
LEMMA SucceedSteps ==
    ASSUME IInv, PlacesInv, [Next]_vars, NEW c \in Connects, Succeeded(c)'
    PROVE  Attempting(c) \/ Succeeded(c)
<1> DEFINE Goal == Attempting(c) \/ Succeeded(c)
<1> USE ConstantsAssumption, ThreadFacts
    DEF IInv, ControlInv, TypeOK, Goto, Succeeded, Attempting, Pending
<1>1. ASSUME ScriptStep PROVE Goal
  BY <1>1 DEF ScriptStep, JsOn, JsConnect, JsInvalid, JsDestroy, Settle, OneGoroutinePerCall
<1>2. ASSUME JsHandle \/ \E r \in Invalid : JsReject(r) PROVE Goal
  BY <1>2 DEF JsHandle, JsReject, RejectPromise, Settle
<1>3. ASSUME NEW d \in Connects, ConnectStep(d) PROVE Goal
  <2>1. CASE Lock(d) \/ Resolve(d) \/ Dial(d) \/ Established(d) \/ HandshakeFails(d)
             \/ DeadlineFails(d)
    <3>1. promise' = promise /\ pc[Connector(d)] \in Pending
      BY <2>1 DEF Lock, Resolve, Dial, Established, HandshakeFails, DeadlineFails
    <3>2. \E l : pc' = [pc EXCEPT ![Connector(d)] = l]
      BY <2>1 DEF Lock, Resolve, Dial, Established, HandshakeFails, DeadlineFails,
         ConnectFails, FiresConnect
    <3> QED
      BY <3>1, <3>2
  <2>2. CASE StartRead(d)
    BY <2>2 DEF StartRead
  <2>3. CASE ResolvePromise(d) \/ Reject(d)
    BY <2>3 DEF ResolvePromise, Reject, RejectPromise, Settle
  <2> QED
    BY <1>3, <2>1, <2>2, <2>3 DEF ConnectStep
<1>4. ASSUME NEW d \in Connects, PeerStep(d) \/ ReadStep(d) PROVE Goal
  BY <1>4 DEF PeerStep, ReadStep, ReadData, ReadFails, ReadTimesOut, ReadClosed, ReadReturns,
     LoopTest, isReadable, Snapshot, AfterRead
<1>5. ASSUME NEW t \in Threads, DestroyStep(t) \/ FireStep(t) PROVE Goal
  <2>1. /\ pc[t] \in Events \cup Destroying \cup {"handleError"} /\ promise' = promise
        /\ pc' = pc \/ \E l : pc' = [pc EXCEPT ![t] = l]
    BY <1>5 DEF DestroyStep, EnterOnce, Teardown, CloseConn, Cancel,
       FireStep, HandleError, Fire, Receive, GiveUp, SendersFire, Destroying, InsideOnce
  <2>2. CASE t = Connector(c)
    BY <2>1, <2>2 DEF PlacesInv, Events, Destroying, InsideOnce
  <2>3. CASE t # Connector(c)
    BY <2>1, <2>3
  <2> QED
    BY <2>2, <2>3
<1>6. ASSUME LoopStops \/ VuStops \/ UNCHANGED vars PROVE Goal
  BY <1>6 DEF LoopStops, VuStops, vars
<1> HIDE DEF Goal, IInv, ControlInv, TypeOK, Goto, Succeeded, Attempting, Pending
<1>7. Goal
  BY <1>1, <1>2, <1>3, <1>4, <1>5, <1>6 DEF Next
<1> QED
  BY <1>7 DEF Goal

(* Only connect() stores options. *)
LEMMA OptionSteps ==
    ASSUME [Next]_vars
    PROVE  UNCHANGED connectOpts \/ \E c \in Connects : JsConnect(c)
<1> USE DEF sockVars
<1>1. ASSUME NEW c \in Connects, ConnectStep(c) PROVE UNCHANGED connectOpts
  BY <1>1 DEF ConnectStep, Lock, Resolve, Dial, Established, HandshakeFails, DeadlineFails,
     StartRead, ResolvePromise, Reject
<1>2. ASSUME NEW c \in Connects, PeerStep(c) \/ ReadStep(c) PROVE UNCHANGED connectOpts
  BY <1>2 DEF PeerStep, ReadStep, ReadData, ReadFails, ReadTimesOut, ReadClosed, ReadReturns,
     LoopTest, isReadable, Snapshot, AfterRead
<1>3. ASSUME NEW t \in Threads, DestroyStep(t) \/ FireStep(t) PROVE UNCHANGED connectOpts
  BY <1>3 DEF DestroyStep, EnterOnce, Teardown, CloseConn, Cancel, FireStep, HandleError, Fire,
     Receive, GiveUp
<1>4. CASE LoopStops \/ VuStops \/ UNCHANGED vars \/ JsHandle \/ \E r \in Invalid : JsReject(r)
  BY <1>4 DEF LoopStops, VuStops, vars, JsHandle, JsReject
<1>5. CASE ScriptStep
  BY <1>5 DEF ScriptStep, JsOn, JsInvalid, JsDestroy
<1> QED
  BY <1>1, <1>2, <1>3, <1>4, <1>5 DEF Next

LEMMA OptionsStep ==
    ASSUME IInv, CarefulInv, OptionsInv, [Next]_vars, Script = "careful"
    PROVE  OptionsInv'
<1>0. ControlInv /\ OnceInv /\ ToldInv /\ ShapeInv /\ PlacesInv
  BY DEF IInv, CarefulInv, ShapeInv
<1>1. CASE ~\E d \in Connects : JsConnect(d)
  <2>1. UNCHANGED connectOpts
    BY <1>1, OptionSteps
  <2> SUFFICES ASSUME NEW c \in Connects, Attempting(c)' \/ Succeeded(c)'
               PROVE  Attempting(c) \/ Succeeded(c)
    BY <2>1 DEF OptionsInv
  <2>2. CASE Succeeded(c)'
    BY <1>0, <2>2, SucceedSteps
  <2>3. CASE Attempting(c)'
    <3>1. pc'[Connector(c)] \in Pending /\ pc'[Connector(c)] # "none"
      BY <2>3 DEF Attempting, Pending
    <3> QED
      BY <1>0, <1>1, <3>1, TellSteps DEF Attempting
  <2> QED
    BY <2>2, <2>3
<1>2. ASSUME NEW d \in Connects, JsConnect(d) PROVE OptionsInv'
  <2>1. /\ pc[Js] = "idle" /\ state = "disconnected" /\ connectOpts' = d
        /\ \A c \in Connects : ~Attempting(c)
    BY <1>0, <1>2, NoneAttempting DEF JsConnect, ConnectAllowed, StoreOptions
  <2>2. \A c \in Connects : ~Succeeded(c)
    BY <1>0, <2>1, NeverConnected
  <2>3. \A c \in Connects : c # d => pc'[Connector(c)] = pc[Connector(c)]
    BY <1>0, <1>2, ThreadFacts DEF JsConnect, Goto, ControlInv, TypeOK
  <2> QED
    BY <1>0, <2>1, <2>2, <2>3, SucceedSteps DEF OptionsInv, Attempting
<1> QED
  BY <1>1, <1>2

(* The tags of an attempt are those of its call from the moment they are   *)
(* computed.                                                               *)
LEMMA AttemptTagsStep ==
    ASSUME IInv, PlacesInv, OptionsInv, AttemptInv, [Next]_vars,
           RecordTags \/ UNCHANGED <<vars, tagVars>>
    PROVE  AttemptInv'
<1> SUFFICES ASSUME NEW c \in Connects, pc'[Connector(c)] \notin {"none", "lock"}
             PROVE  Describes(attempt'[c], c)
  BY DEF AttemptInv, Describes
<1>1. CASE UNCHANGED <<vars, tagVars>>
  BY <1>1 DEF AttemptInv, vars, tagVars
<1>2. CASE RecordTags /\ Moves(Connector(c), "lock", "resolving")
  <2>1. attempt'[c] = tags
    BY <1>2 DEF RecordTags
  <2>2. connectOpts = c
    BY <1>2 DEF Moves, OptionsInv, Attempting, Pending
  <2> QED
    BY <2>1, <2>2, TagsDescribe
<1>3. CASE RecordTags /\ ~Moves(Connector(c), "lock", "resolving")
  <2>1. attempt'[c] = attempt[c]
    BY <1>3 DEF RecordTags
  <2>2. pc[Connector(c)] \notin {"none", "lock"}
    BY <1>3, PastTheLock
  <2> QED
    BY <2>1, <2>2 DEF AttemptInv
<1> QED
  BY <1>1, <1>2, <1>3

(* The tags of a duration are those of the connection that is closed. *)
LEMMA FinalTagsStep ==
    ASSUME IInv, ShapeInv, OptionsInv, FinalInv, [Next]_vars,
           RecordTags \/ UNCHANGED <<vars, tagVars>>
    PROVE  FinalInv'
<1>0. PlacesInv
  BY DEF ShapeInv
<1>1. CASE UNCHANGED <<vars, tagVars>>
  <2>1. UNCHANGED <<closing, final>>
    BY <1>1 DEF vars, ioVars, tagVars
  <2> QED
    BY <2>1 DEF FinalInv, Describes
<1>2. CASE RecordTags /\ UNCHANGED closing
           /\ \A t \in Threads : ~Moves(t, "teardown", "closeConn")
  <2>1. UNCHANGED <<closing, final>>
    BY <1>2 DEF RecordTags
  <2> QED
    BY <2>1 DEF FinalInv, Describes
<1>3. ASSUME RecordTags, NEW t \in Threads, Teardown(t), Moves(t, "teardown", "closeConn")
      PROVE  FinalInv'
  <2>1. closing' = conn /\ final' = tags /\ conn \in Connects \cup {None}
    BY <1>3 DEF RecordTags, Teardown, TakeConn, IInv, ControlInv, TypeOK
  <2>2. ASSUME conn # None PROVE Describes(tags, conn) /\ tags["ip"] = conn
    <3>1. Succeeded(conn) /\ endpoints.remote = conn
      BY <2>2 DEF ShapeInv, OpenInv, TargetInv
    <3>2. connectOpts = conn
      BY <2>1, <2>2, <3>1 DEF OptionsInv
    <3> QED
      BY <2>1, <2>2, <3>1, <3>2, TagsDescribe
  <2> QED
    BY <2>1, <2>2 DEF FinalInv, Describes
<1> QED
  BY <1>0, <1>1, <1>2, <1>3, TeardownOnly

(* A sample that is about a connection says so. *)
Right(s) ==
    s.by \in Connectors \/ s.metric = "duration" =>
        /\ Describes(s.tags, s.call)
        /\ s.metric = "duration" => s.tags["ip"] = s.call

LEMMA NewSampleIsRight ==
    ASSUME IInv, ShapeInv, TagsInv, NEW t \in Threads, NEW m \in Metrics, Pushes(t, m)
    PROVE  Right(Sample(t, m))
<1> USE ThreadFacts
<1>0. /\ Sample(t, m).metric = m /\ Sample(t, m).by = t
      /\ Sample(t, m).tags = TagsOf(t, m)
      /\ Sample(t, m).call = IF m = "duration" THEN closing ELSE t[2]
  BY DEF Sample
<1>1. CASE m = "duration"
  <2>1. closing # None /\ TagsOf(t, m) = final
    BY <1>1 DEF Pushes, TagsOf
  <2> QED
    BY <1>0, <1>1, <2>1 DEF Right, TagsInv, FinalInv
<1>2. ASSUME m # "duration", NEW c \in Connects, t = Connector(c)
      PROVE  Describes(TagsOf(t, m), c)
  <2>1. t[2] = c /\ t \in Connectors /\ t \notin Readers /\ t # Js
    BY <1>2 DEF Connector, Connectors, Readers
  <2>2. CASE m = "errors"
    <3>1. TagsOf(t, m) = tags
      BY <2>1, <2>2 DEF TagsOf
    <3>2. connectOpts = c
      BY <1>2, <2>2 DEF Pushes, TagsInv, OptionsInv, Attempting, Pending
    <3> QED
      BY <3>1, <3>2, TagsDescribe
  <2>3. CASE m # "errors"
    <3>1. m \in {"resolving", "connecting", "sockets"} /\ pc[t] \notin {"none", "lock"}
      BY <1>2, <2>1, <2>3 DEF Pushes, Underway
    <3>2. TagsOf(t, m) = attempt[c]
      BY <2>1, <3>1 DEF TagsOf
    <3> QED
      BY <1>2, <3>1, <3>2 DEF TagsInv, AttemptInv
  <2> QED
    BY <2>2, <2>3
<1>3. CASE m # "duration" /\ t \in Connectors
  <2>1. PICK c \in Connects : t = Connector(c)
    BY <1>3 DEF Connectors
  <2>2. Sample(t, m).call = c
    BY <1>0, <1>3, <2>1 DEF Connector
  <2> QED
    BY <1>0, <1>2, <1>3, <2>1, <2>2 DEF Right
<1>4. CASE m # "duration" /\ t \notin Connectors
  BY <1>0, <1>4 DEF Right
<1> QED
  BY <1>1, <1>3, <1>4

LEMMA ConnectionTagsStep ==
    ASSUME IInv, ShapeInv, TagsInv, [Next]_vars,
           RecordTags \/ UNCHANGED <<vars, tagVars>>
    PROVE  ConnectionTags'
<1>1. ConnectionTags <=> \A s \in tagged : Right(s)
  BY DEF ConnectionTags, Right, Describes
<1>2. (\A s \in tagged' : Right(s)) => ConnectionTags'
  BY DEF ConnectionTags, Right, Describes
<1>3. CASE UNCHANGED <<vars, tagVars>>
  BY <1>1, <1>2, <1>3 DEF TagsInv, tagVars
<1>4. CASE RecordTags
  <2> SUFFICES ASSUME NEW s \in tagged', s \notin tagged PROVE Right(s)
    BY <1>1, <1>2 DEF TagsInv
  <2>1. PICK t \in Threads, m \in Metrics :
           s = Sample(t, m) /\ pc'[t] # pc[t] /\ samples'[m] > samples[m]
    BY <1>4 DEF RecordTags
  <2> QED
    BY <2>1, PushSteps, NewSampleIsRight
<1> QED
  BY <1>3, <1>4

(* What a connect call is about is reported with that call's host, port    *)
(* and tags, and a duration with the address of the connection that lasted *)
(* that long, whatever tags the VU, the socket and the calls have, and     *)
(* although both tag sets are computed long before they are used.          *)
THEOREM TagsTellTheCall ==
    ASSUME Script = "careful", DeadlineMayFail = FALSE
    PROVE  TagSpec => []ConnectionTags
<1>1. TagInit => TagsInv
  <2> SUFFICES ASSUME TagInit PROVE TagsInv
    OBVIOUS
  <2>1. Init /\ tagged = {}
    BY DEF TagInit
  <2>2. \A c \in Connects : pc[Connector(c)] = "none"
    BY <2>1, ThreadFacts DEF Init
  <2>3. closing = None
    BY <2>1 DEF Init
  <2> QED
    BY <2>1, <2>2, <2>3 DEF TagsInv, OptionsInv, AttemptInv, FinalInv, ConnectionTags,
       Attempting, Succeeded, Pending
<1>2. IInv /\ CarefulInv /\ TagsInv /\ [TagNext]_<<vars, tagVars>> => TagsInv'
  <2> SUFFICES ASSUME IInv, CarefulInv, TagsInv, [TagNext]_<<vars, tagVars>>
               PROVE  TagsInv'
    OBVIOUS
  <2>1. [Next]_vars /\ (RecordTags \/ UNCHANGED <<vars, tagVars>>)
    BY DEF TagNext
  <2>2. ShapeInv /\ PlacesInv /\ OptionsInv /\ AttemptInv /\ FinalInv
    BY DEF CarefulInv, ShapeInv, TagsInv
  <2>3. OptionsInv' /\ AttemptInv' /\ FinalInv' /\ ConnectionTags'
    BY <2>1, <2>2, OptionsStep, AttemptTagsStep, FinalTagsStep, ConnectionTagsStep
  <2> QED
    BY <2>3 DEF TagsInv
<1>3. TagSpec => Spec
  <2>1. TagInit => Init
    BY DEF TagInit
  <2>2. [TagNext]_<<vars, tagVars>> => [Next]_vars
    BY DEF TagNext
  <2> QED
    BY <2>1, <2>2, PTL DEF TagSpec, Spec
<1>4. TagsInv => ConnectionTags
  BY DEF TagsInv
<1> QED
  BY <1>1, <1>2, <1>3, <1>4, CarefulInvariant, PTL DEF TagSpec
=============================================================================
