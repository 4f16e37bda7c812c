-------------------------- MODULE SocketRead_proofs --------------------------
(* Proofs about the way of received data to the handler, for any number of *)
(* buffers and chunks.                                                     *)
EXTENDS SocketRead, FiniteSetTheorems, SequenceTheorems, TLAPS

(* The read goroutine waits in its select for the one payload it offers,   *)
(* and the event loop runs one handler at a time.                          *)
OneAtATime ==
    /\ \A p, q \in sending : p = q
    /\ sending # {} <=> pc = "select"
    /\ \A p, q \in running : p = q

(* No two payloads on their way share a buffer. *)
Disjoint ==
    /\ \A i, j \in 1..Len(queue) : queue[i].buf = queue[j].buf => i = j
    /\ \A p \in sending : \A i \in 1..Len(queue) : queue[i].buf # p.buf
    /\ \A r \in running : \A i \in 1..Len(queue) : queue[i].buf # r.buf
    /\ \A p \in sending, r \in running : p.buf # r.buf

Carries(b) == \/ \E p \in sending \cup running : p.buf = b
              \/ \E i \in 1..Len(queue) : queue[i].buf = b

(* The buffers that are not in the pool are the ones on their way. *)
PoolInv == \A b \in Buffers : pool[b] = 0 <=> Carries(b)

(* A payload on its way has the chunk it was filled with. *)
Intact ==
    /\ \A p \in sending \cup running : content[p.buf] = p.chunk
    /\ \A i \in 1..Len(queue) : content[queue[i].buf] = queue[i].chunk

(* One chunk comes after another; until the VU ends, right after it. *)
Follows(a, b) == a < b /\ (~vuDone => b = a + 1)

Delivered == queue # <<>> \/ seen # <<>>
Latest    == IF queue # <<>> THEN queue[Len(queue)].chunk ELSE seen[Len(seen)]

(* Handlers have seen, and callbacks carry, the stream in this order. *)
SeenInv == \A i \in 1..(Len(seen) - 1) : Follows(seen[i], seen[i + 1])

QueueInv ==
    /\ \A i \in 1..(Len(queue) - 1) : Follows(queue[i].chunk, queue[i + 1].chunk)
    /\ seen # <<>> /\ queue # <<>> => Follows(seen[Len(seen)], queue[1].chunk)

(* The goroutine goes on where they end. *)
LatestInv ==
    /\ Delivered /\ pc # "read" => Follows(Latest, readBuf)
    /\ Delivered /\ pc = "read" => Latest <= readBuf /\ (~vuDone => Latest = readBuf)
    /\ \A p \in sending : p.chunk = readBuf
    /\ Delivered \/ sending # {} => handler
    /\ readBuf = received

StreamInv == SeenInv /\ QueueInv /\ LatestInv

ReadInv == TypeOK /\ OneAtATime /\ Disjoint /\ PoolInv /\ Intact /\ StreamInv

-----------------------------------------------------------------------------
(* What tq.Queue() adds to a queue, and what the event loop takes from it. *)
LEMMA Appended ==
    ASSUME NEW S, NEW s \in Seq(S), NEW e \in S
    PROVE  /\ Append(s, e) \in Seq(S)
           /\ Append(s, e) # <<>>
           /\ Len(Append(s, e)) = Len(s) + 1
           /\ \A i \in 1..Len(s) : Append(s, e)[i] = s[i]
           /\ Append(s, e)[Len(s) + 1] = e
  OBVIOUS

LEMMA Taken ==
    ASSUME NEW S, NEW s \in Seq(S), s # <<>>
    PROVE  /\ Head(s) = s[1] /\ s[1] \in S /\ Len(s) \in Nat \ {0}
           /\ Tail(s) \in Seq(S)
           /\ Len(Tail(s)) = Len(s) - 1
           /\ Tail(s) = <<>> <=> Len(s) = 1
           /\ \A i \in 1..(Len(s) - 1) : Tail(s)[i] = s[i + 1]
<1>1. Len(s) \in Nat \ {0} /\ Head(s) = s[1] /\ s[1] \in S
  OBVIOUS
<1>2. /\ Tail(s) \in Seq(S) /\ Len(Tail(s)) = Len(s) - 1
      /\ \A i \in 1..Len(Tail(s)) : Tail(s)[i] = s[i + 1]
  BY HeadTailProperties
<1>3. Tail(s) = <<>> <=> Len(Tail(s)) = 0
  BY <1>2, SMTT(30)
<1>4. Len(Tail(s)) = Len(s) - 1 /\ 1..Len(Tail(s)) = 1..(Len(s) - 1)
  BY <1>2
<1>5. Tail(s) = <<>> <=> Len(s) = 1
  BY <1>1, <1>3, <1>4
<1> QED
  BY <1>1, <1>2, <1>4, <1>5

LEMMA NotEmpty ==
    ASSUME NEW S, NEW s \in Seq(S)
    PROVE  Len(s) \in Nat /\ (s = <<>> <=> Len(s) = 0) /\ \A i \in 1..Len(s) : s[i] \in S
  OBVIOUS

LEMMA ReadStep ==
    ASSUME ReadInv, [Next]_vars
    PROVE  ReadInv'
<1> USE ReadAssumption DEF ReadInv
<1>0. /\ Len(queue) \in Nat /\ (queue = <<>> <=> Len(queue) = 0)
      /\ \A i \in 1..Len(queue) : queue[i] \in Payloads
      /\ Len(seen) \in Nat /\ (seen = <<>> <=> Len(seen) = 0)
      /\ \A i \in 1..Len(seen) : seen[i] \in Chunks
  BY NotEmpty DEF TypeOK
<1>L. Delivered => Latest \in Nat
  BY <1>0 DEF Delivered, Latest, Payloads, Chunks
<1>1. CASE ReadChunk
  <2>1. TypeOK'
    BY <1>1 DEF ReadChunk, TypeOK, Chunks
  <2>2. OneAtATime' /\ Disjoint' /\ PoolInv' /\ Intact'
    BY <1>1 DEF ReadChunk, OneAtATime, Disjoint, PoolInv, Carries, Intact
  <2>3. StreamInv'
    <3>1. SeenInv' /\ QueueInv'
      BY <1>1 DEF ReadChunk, StreamInv, SeenInv, QueueInv, Follows
    <3>2. Delivered' = Delivered /\ Latest' = Latest /\ sending' = {} /\ readBuf \in Nat
      BY <1>1 DEF ReadChunk, Delivered, Latest, OneAtATime, TypeOK, Chunks
    <3>3. LatestInv'
      BY <1>1, <1>L, <3>2 DEF ReadChunk, StreamInv, LatestInv, Follows
    <3> QED
      BY <3>1, <3>3 DEF StreamInv
  <2> QED
    BY <2>1, <2>2, <2>3
<1>2. ASSUME NEW b \in Buffers, Dispatch(b) PROVE ReadInv'
  <2> DEFINE p == [buf |-> b, chunk |-> readBuf]
  <2>1. p \in Payloads /\ p.buf = b /\ p.chunk = readBuf
    BY DEF TypeOK, Payloads
  <2>2. /\ ~Carries(b) /\ sending = {} /\ pool[b] = 1
        /\ content' = [content EXCEPT ![b] = readBuf]
        /\ UNCHANGED <<received, readBuf, queue, running, seen, handler, loop, vuDone>>
    BY <1>2 DEF Dispatch, Fill, TypeOK, PoolInv, OneAtATime
  <2>3. \/ handler /\ pool' = [pool EXCEPT ![b] = 0] /\ sending' = {p} /\ pc' = "select"
        \/ ~handler /\ pc' = "read" /\ UNCHANGED <<pool, sending>>
    BY <1>2, <2>2 DEF Dispatch, Wait, TypeOK
  <2> HIDE DEF p
  <2>4. TypeOK'
    BY <2>1, <2>2, <2>3 DEF TypeOK
  <2>5. OneAtATime'
    BY <2>2, <2>3 DEF OneAtATime
  <2>6. Disjoint'
    BY <2>1, <2>2, <2>3 DEF Disjoint, Carries
  <2>7. PoolInv'
    BY <2>1, <2>2, <2>3 DEF PoolInv, Carries, TypeOK
  <2>8. Intact'
    BY <1>0, <2>1, <2>2, <2>3 DEF Intact, Carries, TypeOK, Payloads
  <2>9. StreamInv'
    <3>1. SeenInv' /\ QueueInv'
      BY <2>2 DEF StreamInv, SeenInv, QueueInv, Follows
    <3>2. Delivered' = Delivered /\ Latest' = Latest /\ pc = "dispatch"
      BY <1>2, <2>2 DEF Dispatch, Delivered, Latest
    <3>3. LatestInv'
      BY <1>L, <2>1, <2>2, <2>3, <3>2 DEF StreamInv, LatestInv, Follows
    <3> QED
      BY <3>1, <3>3 DEF StreamInv
  <2> QED
    BY <2>4, <2>5, <2>6, <2>7, <2>8, <2>9
<1>3. ASSUME NEW p \in sending, Receive(p) PROVE ReadInv'
  <2>1. /\ p \in Payloads /\ sending = {p} /\ sending' = {} /\ pc = "select" /\ pc' = "read"
        /\ queue' = Append(queue, p)
        /\ UNCHANGED <<received, readBuf, content, pool, running, seen, handler, loop, vuDone>>
    BY <1>3 DEF Receive, KeepQueued, TypeOK, OneAtATime
  <2>2. /\ queue' \in Seq(Payloads) /\ queue' # <<>>
        /\ Len(queue') = Len(queue) + 1
        /\ \A i \in 1..Len(queue) : queue'[i] = queue[i]
        /\ queue'[Len(queue) + 1] = p
    BY <2>1, Appended DEF TypeOK
  <2>3. TypeOK'
    BY <2>1, <2>2 DEF TypeOK
  <2>4. OneAtATime'
    BY <2>1 DEF OneAtATime
  <2>5. Disjoint'
    BY <1>0, <2>1, <2>2 DEF Disjoint
  <2>6. PoolInv' /\ Intact'
    BY <1>0, <2>1, <2>2 DEF PoolInv, Carries, Intact
  <2>7. StreamInv'
    <3>1. p.chunk = readBuf /\ readBuf \in Nat
      BY <2>1 DEF StreamInv, LatestInv, TypeOK, Chunks
    <3>2. Delivered' /\ Latest' = readBuf
      BY <1>0, <2>1, <2>2, <3>1 DEF Delivered, Latest
    <3>3. SeenInv'
      BY <2>1 DEF StreamInv, SeenInv, Follows
    <3>4. ASSUME NEW i \in 1..Len(queue)
          PROVE  Follows(queue'[i].chunk, queue'[i + 1].chunk)
      <4>1. CASE i < Len(queue)
        BY <1>0, <2>2, <4>1 DEF StreamInv, QueueInv
      <4>2. CASE i = Len(queue)
        BY <1>0, <2>1, <2>2, <3>1, <4>2 DEF StreamInv, LatestInv, Delivered, Latest
      <4> QED
        BY <1>0, <4>1, <4>2
    <3>5. seen # <<>> => Follows(seen[Len(seen)], queue'[1].chunk)
      <4>1. CASE queue = <<>>
        BY <1>0, <2>1, <2>2, <3>1, <4>1 DEF StreamInv, LatestInv, Delivered, Latest
      <4>2. CASE queue # <<>>
        BY <1>0, <2>2, <4>2 DEF StreamInv, QueueInv
      <4> QED
        BY <4>1, <4>2
    <3>6. QueueInv'
      <4>1. Len(queue') - 1 = Len(queue) /\ vuDone' = vuDone /\ seen' = seen
        BY <1>0, <2>1, <2>2
      <4> QED
        BY <3>4, <3>5, <4>1 DEF QueueInv, Follows
    <3>7. LatestInv'
      BY <2>1, <3>1, <3>2 DEF StreamInv, LatestInv, OneAtATime
    <3> QED
      BY <3>3, <3>6, <3>7 DEF StreamInv
  <2> QED
    BY <2>3, <2>4, <2>5, <2>6, <2>7
<1>4. ASSUME NEW p \in sending, GiveUp(p) PROVE ReadInv'
  <2>1. /\ p \in Payloads /\ sending = {p} /\ sending' = {} /\ pc = "select" /\ pc' = "read" /\ vuDone
        /\ pool[p.buf] = 0 /\ p.buf \in Buffers /\ pool' = [pool EXCEPT ![p.buf] = 1]
        /\ UNCHANGED <<received, readBuf, content, queue, running, seen, handler, loop, vuDone>>
    <3>1. p \in Payloads /\ p.buf \in Buffers
      BY DEF TypeOK, Payloads
    <3>2. pool[p.buf] = 0
      BY <3>1 DEF PoolInv, Carries
    <3> QED
      BY <1>4, <3>1, <3>2 DEF GiveUp, Put, OneAtATime
  <2>2. TypeOK'
    BY <2>1 DEF TypeOK
  <2>3. OneAtATime' /\ Disjoint' /\ Intact'
    BY <2>1 DEF OneAtATime, Disjoint, Intact
  <2>4. PoolInv'
    BY <1>0, <2>1 DEF PoolInv, Carries, Disjoint, TypeOK
  <2>5. StreamInv'
    <3>1. SeenInv' /\ QueueInv'
      BY <2>1 DEF StreamInv, SeenInv, QueueInv, Follows
    <3>2. Delivered' = Delivered /\ Latest' = Latest /\ readBuf \in Nat
      BY <2>1 DEF Delivered, Latest, TypeOK, Chunks
    <3>3. LatestInv'
      BY <1>L, <2>1, <3>2 DEF StreamInv, LatestInv, Follows
    <3> QED
      BY <3>1, <3>3 DEF StreamInv
  <2> QED
    BY <2>2, <2>3, <2>4, <2>5
<1>5. CASE On
  BY <1>5 DEF On, TypeOK, OneAtATime, Disjoint, PoolInv, Carries, Intact,
      StreamInv, SeenInv, QueueInv, LatestInv, Follows, Delivered, Latest
<1>6. CASE CallHandler
  <2> DEFINE h == queue[1]
  <2>1. /\ running = {} /\ queue # <<>> /\ h \in Payloads /\ content[h.buf] = h.chunk
        /\ running' = {h} /\ queue' = Tail(queue) /\ seen' = Append(seen, h.chunk)
        /\ UNCHANGED <<received, readBuf, content, pool, sending, handler, loop, vuDone, pc>>
    BY <1>0, <1>6, Taken DEF CallHandler, TypeOK, Intact
  <2>2. /\ queue' \in Seq(Payloads) /\ Len(queue') = Len(queue) - 1
        /\ queue' = <<>> <=> Len(queue) = 1
        /\ \A i \in 1..(Len(queue) - 1) : queue'[i] = queue[i + 1]
    BY <2>1, Taken DEF TypeOK
  <2>3. /\ seen' \in Seq(Chunks) /\ Len(seen') = Len(seen) + 1 /\ seen' # <<>>
        /\ \A i \in 1..Len(seen) : seen'[i] = seen[i]
        /\ seen'[Len(seen) + 1] = h.chunk
    BY <2>1, Appended DEF TypeOK, Payloads
  <2> HIDE DEF h
  <2>4. TypeOK'
    BY <2>1, <2>2, <2>3 DEF TypeOK
  <2>5. OneAtATime'
    BY <2>1 DEF OneAtATime
  <2>6. Disjoint'
    BY <1>0, <2>1, <2>2 DEF Disjoint, h
  <2>7. PoolInv' /\ Intact'
    <3>1. \A b \in Buffers : Carries(b)' <=> Carries(b)
      <4> SUFFICES ASSUME NEW b \in Buffers PROVE Carries(b)' <=> Carries(b)
        OBVIOUS
      <4>1. (\E i \in 1..Len(queue) : queue[i].buf = b)
              <=> h.buf = b \/ \E i \in 1..Len(queue') : queue'[i].buf = b
        <5>1. ASSUME NEW i \in 1..Len(queue), queue[i].buf = b, h.buf # b
              PROVE  \E j \in 1..Len(queue') : queue'[j].buf = b
          <6>1. i - 1 \in 1..Len(queue') /\ queue'[i - 1] = queue[i]
            BY <1>0, <2>1, <2>2, <5>1 DEF h
          <6> QED
            BY <5>1, <6>1
        <5>2. ASSUME NEW i \in 1..Len(queue'), queue'[i].buf = b
              PROVE  \E j \in 1..Len(queue) : queue[j].buf = b
          BY <1>0, <2>1, <2>2, <5>2
        <5>3. h.buf = b => \E j \in 1..Len(queue) : queue[j].buf = b
          BY <1>0, <2>1 DEF h
        <5> QED
          BY <5>1, <5>2, <5>3
      <4> QED
        BY <2>1, <4>1 DEF Carries
    <3>2. PoolInv'
      BY <2>1, <3>1 DEF PoolInv
    <3>3. Intact'
      BY <1>0, <2>1, <2>2 DEF Intact
    <3> QED
      BY <3>2, <3>3
  <2>8. StreamInv'
    <3>1. ASSUME NEW i \in 1..Len(seen) PROVE Follows(seen'[i], seen'[i + 1])
      <4>1. CASE i < Len(seen)
        BY <1>0, <2>3, <4>1 DEF StreamInv, SeenInv
      <4>2. CASE i = Len(seen)
        BY <1>0, <2>1, <2>3, <4>2 DEF StreamInv, QueueInv, h
      <4> QED
        BY <1>0, <4>1, <4>2
    <3>2. SeenInv'
      BY <1>0, <2>1, <2>3, <3>1 DEF SeenInv, Follows
    <3>3. QueueInv'
      BY <1>0, <2>1, <2>2, <2>3 DEF StreamInv, QueueInv, Follows, h
    <3>4. Delivered /\ Delivered' /\ Latest' = Latest
      BY <1>0, <2>1, <2>2, <2>3 DEF Delivered, Latest, h
    <3>5. LatestInv'
      BY <2>1, <3>4 DEF StreamInv, LatestInv, Follows
    <3> QED
      BY <3>2, <3>3, <3>5 DEF StreamInv
  <2> QED
    BY <2>4, <2>5, <2>6, <2>7, <2>8
<1>7. ASSUME NEW p \in running, HandlerReturns(p) PROVE ReadInv'
  <2>1. /\ p \in Payloads /\ running = {p} /\ running' = {}
        /\ pool[p.buf] = 0 /\ p.buf \in Buffers /\ pool' = [pool EXCEPT ![p.buf] = 1]
        /\ UNCHANGED <<received, readBuf, content, sending, queue, seen, handler, loop, vuDone, pc>>
    <3>1. p \in Payloads /\ p.buf \in Buffers
      BY DEF TypeOK, Payloads
    <3>2. pool[p.buf] = 0
      BY <3>1 DEF PoolInv, Carries
    <3> QED
      BY <1>7, <3>1, <3>2 DEF HandlerReturns, Put, OneAtATime
  <2>2. TypeOK'
    BY <2>1 DEF TypeOK
  <2>3. OneAtATime' /\ Disjoint' /\ Intact'
    BY <2>1 DEF OneAtATime, Disjoint, Intact
  <2>4. PoolInv'
    BY <1>0, <2>1 DEF PoolInv, Carries, Disjoint, TypeOK
  <2>5. StreamInv'
    BY <2>1 DEF StreamInv, SeenInv, QueueInv, LatestInv, Follows, Delivered, Latest
  <2> QED
    BY <2>2, <2>3, <2>4, <2>5
<1>8. CASE LoopStops
  <2>1. UNCHANGED <<received, readBuf, pool, content, sending, queue, running, seen,
                    handler, vuDone, pc>>
        /\ loop' \in BOOLEAN
    BY <1>8 DEF LoopStops
  <2>2. TypeOK' /\ OneAtATime' /\ Disjoint' /\ Intact'
    BY <2>1 DEF TypeOK, OneAtATime, Disjoint, Intact
  <2>3. PoolInv'
    BY <2>1 DEF PoolInv, Carries
  <2>4. StreamInv'
    BY <2>1 DEF StreamInv, SeenInv, QueueInv, LatestInv, Follows, Delivered, Latest
  <2> QED
    BY <2>2, <2>3, <2>4
<1>9. CASE VuStops
  <2>1. TypeOK' /\ OneAtATime' /\ Disjoint' /\ PoolInv' /\ Intact'
    BY <1>9 DEF VuStops, TypeOK, OneAtATime, Disjoint, PoolInv, Carries, Intact
  <2>2. StreamInv'
    BY <1>0, <1>9, <1>L DEF VuStops, StreamInv, SeenInv, QueueInv, LatestInv, Follows, Delivered, Latest
  <2> QED
    BY <2>1, <2>2
<1>10. CASE UNCHANGED vars
  BY <1>10 DEF vars, TypeOK, OneAtATime, Disjoint, PoolInv, Carries, Intact,
      StreamInv, SeenInv, QueueInv, LatestInv, Follows, Delivered, Latest
<1> HIDE DEF ReadInv
<1> QED
  BY <1>1, <1>2, <1>3, <1>4, <1>5, <1>6, <1>7, <1>8, <1>9, <1>10 DEF Next

(* The inductive invariant: in every interleaving of the read goroutine,   *)
(* the socket's loop, the event loop and the end of the VU.                *)
THEOREM ReadInvariant == Spec => []ReadInv
<1>1. Init => ReadInv
  <2> SUFFICES ASSUME Init PROVE ReadInv
    OBVIOUS
  <2>1. TypeOK
    <3>1. handler \in BOOLEAN /\ loop \in BOOLEAN /\ vuDone \in BOOLEAN
      BY Zenon DEF Init
    <3> QED
      BY <3>1, ReadAssumption DEF Init, TypeOK, Chunks
  <2>2. OneAtATime /\ Disjoint /\ PoolInv /\ Intact
    BY DEF Init, OneAtATime, Disjoint, PoolInv, Carries, Intact
  <2>3. StreamInv
    BY DEF Init, StreamInv, SeenInv, QueueInv, LatestInv, Delivered
  <2> QED
    BY <2>1, <2>2, <2>3 DEF ReadInv
<1> QED
  BY <1>1, ReadStep, PTL DEF Spec

(* Every variable keeps its type: no buffer is twice in the pool. *)
THEOREM ReadTypeCorrect == Spec => []TypeOK
<1>1. ReadInv => TypeOK
  BY DEF ReadInv
<1> QED
  BY <1>1, ReadInvariant, PTL

(* From fireAndCleanup() until the handler has returned, nothing writes to *)
(* a payload's buffer.                                                     *)
THEOREM PayloadsStayIntact == Spec => []DataIntact
<1>1. ReadInv => DataIntact
  BY DEF ReadInv, Intact, DataIntact, InFlight, Queued
<1> QED
  BY <1>1, ReadInvariant, PTL

(* A set whose elements are all the same has at most one. *)
LEMMA AtMostOne ==
    ASSUME NEW S, \A x, y \in S : x = y
    PROVE  Cardinality(S) = IF S = {} THEN 0 ELSE 1
<1>1. CASE S = {}
  BY <1>1, FS_EmptySet
<1>2. CASE S # {}
  <2>1. PICK x \in S : TRUE
    BY <1>2
  <2>2. S = {x}
    BY <2>1
  <2> QED
    BY <1>2, <2>2, FS_Singleton, Zenon
<1> QED
  BY <1>1, <1>2

(* Every buffer is in the pool or has exactly one payload on its way: the  *)
(* cleanup callback runs exactly once on every path of fireAndCleanup().   *)
THEOREM BuffersHaveOneOwner == Spec => []OneOwner
<1>1. ASSUME ReadInv PROVE OneOwner
  <2> SUFFICES ASSUME NEW b \in Buffers
               PROVE  pool[b] + Cardinality({p \in sending : p.buf = b})
                        + Cardinality({i \in 1..Len(queue) : queue[i].buf = b})
                        + Cardinality({p \in running : p.buf = b}) = 1
    BY DEF OneOwner
  <2> DEFINE s == {p \in sending : p.buf = b}
             q == {i \in 1..Len(queue) : queue[i].buf = b}
             r == {p \in running : p.buf = b}
  <2>1. /\ \A x, y \in s : x = y
        /\ \A x, y \in q : x = y
        /\ \A x, y \in r : x = y
    BY <1>1 DEF ReadInv, OneAtATime, Disjoint
  <2>2. /\ Cardinality(s) = IF s = {} THEN 0 ELSE 1
        /\ Cardinality(q) = IF q = {} THEN 0 ELSE 1
        /\ Cardinality(r) = IF r = {} THEN 0 ELSE 1
    BY <2>1, AtMostOne, Zenon
  <2>3. s = {} \/ (q = {} /\ r = {})
    BY <1>1 DEF ReadInv, Disjoint
  <2>4. q = {} \/ r = {}
    BY <1>1 DEF ReadInv, Disjoint
  <2>5. pool[b] \in 0..1 /\ (pool[b] = 0 <=> s # {} \/ q # {} \/ r # {})
    <3>1. pool[b] \in 0..1 /\ (pool[b] = 0 <=> Carries(b))
      BY <1>1 DEF ReadInv, TypeOK, PoolInv
    <3>2. Carries(b) <=> s # {} \/ q # {} \/ r # {}
      BY DEF Carries
    <3> QED
      BY <3>1, <3>2
  <2> HIDE DEF s, q, r
  <2>6. pool[b] + Cardinality(s) + Cardinality(q) + Cardinality(r) = 1
    BY <2>2, <2>3, <2>4, <2>5
  <2> QED
    BY <2>6 DEF s, q, r
<1> QED
  BY <1>1, ReadInvariant, PTL

(* The data handlers are called in the order of the stream and, until the  *)
(* VU ends, without a gap from the first chunk they see.                   *)
THEOREM HandlersSeeTheStream == Spec => []StreamOrder
<1>1. ReadInv => StreamOrder
  BY DEF ReadInv, StreamInv, SeenInv, Follows, StreamOrder
<1> QED
  BY <1>1, ReadInvariant, PTL
=============================================================================
