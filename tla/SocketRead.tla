----------------------------- MODULE SocketRead -----------------------------
(***************************************************************************)
(* The way of received data to the data handler: the read goroutine copies *)
(* each chunk from s.readBuf to a buffer of s.bufferPool and hands it to   *)
(* the loop; the buffer goes back to the pool when the handler has run, or *)
(* when it turns out that none will.  A chunk is its number in the stream. *)
(*                                                                         *)
(* There is one read goroutine (Socket!OneReader); when it ends, and what  *)
(* it does about errors, is the business of module Socket.                 *)
(***************************************************************************)
EXTENDS Naturals, Sequences, FiniteSets

CONSTANTS
    Buffers,     \* bound: buffers in use at a time
    MaxChunks    \* bound: chunks the peer sends

ASSUME ReadAssumption == IsFiniteSet(Buffers) /\ MaxChunks \in Nat

VARIABLES
    received,  \* chunks that conn.Read() has returned
    readBuf,   \* s.readBuf: the chunk it holds
    content,   \* per buffer, the chunk it holds
    pool,      \* how often each buffer is in the pool, new ones included
    sending,   \* payloads offered to the select of fireAndCleanup()
    queue,     \* payloads of the callbacks the loop gave to tq.Queue()
    running,   \* the payload whose handler is running, if any
    seen,      \* chunks whose handler was started, in order
    handler,   \* a data handler is registered
    loop,      \* socket.loop() is running
    vuDone,    \* s.vu.Context() is done
    pc         \* the read goroutine

vars == <<received, readBuf, content, pool, sending, queue, running, seen,
          handler, loop, vuDone, pc>>

Chunks == 0..MaxChunks

(* buf.Bytes(), and the chunk it was filled with *)
Payloads == [buf : Buffers, chunk : Chunks]

TypeOK ==
    /\ received \in Chunks
    /\ readBuf \in Chunks
    /\ content \in [Buffers -> Chunks]
    /\ pool \in [Buffers -> 0..1]
    /\ sending \subseteq Payloads
    /\ queue \in Seq(Payloads)
    /\ running \subseteq Payloads
    /\ seen \in Seq(Chunks)
    /\ handler \in BOOLEAN
    /\ loop \in BOOLEAN
    /\ vuDone \in BOOLEAN
    /\ pc \in {"read", "dispatch", "select"}

Init ==
    /\ received = 0
    /\ readBuf = 0
    /\ content = [b \in Buffers |-> 0]
    /\ pool = [b \in Buffers |-> 1]
    /\ sending = {}
    /\ queue = <<>>
    /\ running = {}
    /\ seen = <<>>
    /\ handler = FALSE
    /\ loop = TRUE
    /\ vuDone = FALSE
    /\ pc = "read"

-----------------------------------------------------------------------------
(* bufferPool.Get(), Reset() and Write() *)
Fill(b) ==
    /\ pool[b] > 0
    /\ content' = [content EXCEPT ![b] = readBuf]

(* Mutants: the cleanup is forgotten, or also called explicitly. *)
NoPut(b)    == UNCHANGED pool
PutTwice(b) == pool' = [pool EXCEPT ![b] = @ + 2]

(* The cleanup callback: bufferPool.Put() *)
Put(b) == pool' = [pool EXCEPT ![b] = @ + 1]

(* Mutant: a goroutine per event waits for the loop. *)
Detach == pc' = "read"

(* fireAndCleanup() waits in its select until the loop has the callback. *)
Wait == pc' = "select"

(* Mutant: the buffer is returned as soon as the callback is queued. *)
PutQueued(p) == pool' = [pool EXCEPT ![p.buf] = @ + 1]

(* The queued callback keeps the buffer. *)
KeepQueued(p) == UNCHANGED pool

-----------------------------------------------------------------------------
(* readLoopStep() *)

ReadChunk ==
    /\ pc = "read"
    /\ received < MaxChunks
    /\ received' = received + 1
    /\ readBuf' = received + 1
    /\ pc' = "dispatch"
    /\ UNCHANGED <<content, pool, sending, queue, running, seen, handler, loop,
                   vuDone>>

(* With a handler the callback is offered to the loop, without one the     *)
(* buffer is returned at once.                                             *)
Dispatch(b) ==
    /\ pc = "dispatch"
    /\ Fill(b)
    /\ IF handler
       THEN /\ pool' = [pool EXCEPT ![b] = @ - 1]
            /\ sending' = sending \cup {[buf |-> b, chunk |-> readBuf]}
            /\ Wait
       ELSE /\ pc' = "read"
            /\ UNCHANGED <<pool, sending>>
    /\ UNCHANGED <<received, readBuf, queue, running, seen, handler, loop, vuDone>>

(* The loop receives the callback and queues it. *)
Receive(p) ==
    /\ p \in sending
    /\ loop
    /\ sending' = sending \ {p}
    /\ queue' = Append(queue, p)
    /\ KeepQueued(p)
    /\ pc' = IF pc = "select" THEN "read" ELSE pc
    /\ UNCHANGED <<received, readBuf, content, running, seen, handler, loop, vuDone>>

(* The VU's context is done first: there will be no callback. *)
GiveUp(p) ==
    /\ p \in sending
    /\ vuDone
    /\ sending' = sending \ {p}
    /\ Put(p.buf)
    /\ pc' = IF pc = "select" THEN "read" ELSE pc
    /\ UNCHANGED <<received, readBuf, content, queue, running, seen, handler,
                   loop, vuDone>>

-----------------------------------------------------------------------------
(* The VU's event loop *)

On ==
    /\ ~handler
    /\ handler' = TRUE
    /\ UNCHANGED <<received, readBuf, content, pool, sending, queue, running,
                   seen, loop, vuDone, pc>>

(* The next queued callback calls the handler with the buffer. *)
CallHandler ==
    /\ running = {}
    /\ queue # <<>>
    /\ running' = {Head(queue)}
    /\ queue' = Tail(queue)
    /\ seen' = Append(seen, content[Head(queue).buf])
    /\ UNCHANGED <<received, readBuf, content, pool, sending, handler, loop,
                   vuDone, pc>>

(* The handler returns or throws: the cleanup is deferred. *)
HandlerReturns(p) ==
    /\ p \in running
    /\ running' = {}
    /\ Put(p.buf)
    /\ UNCHANGED <<received, readBuf, content, sending, queue, seen, handler,
                   loop, vuDone, pc>>

(* The socket's context is cancelled by destroy(), or done with the VU's. *)
LoopStops ==
    /\ loop
    /\ loop' = FALSE
    /\ UNCHANGED <<received, readBuf, content, pool, sending, queue, running,
                   seen, handler, vuDone, pc>>

VuStops ==
    /\ ~vuDone
    /\ vuDone' = TRUE
    /\ UNCHANGED <<received, readBuf, content, pool, sending, queue, running,
                   seen, handler, loop, pc>>

Next ==
    \/ ReadChunk
    \/ \E b \in Buffers : Dispatch(b)
    \/ \E p \in sending : Receive(p) \/ GiveUp(p)
    \/ On
    \/ CallHandler
    \/ \E p \in running : HandlerReturns(p)
    \/ LoopStops
    \/ VuStops

Spec == Init /\ [][Next]_vars

-----------------------------------------------------------------------------
Queued   == {queue[i] : i \in 1..Len(queue)}
InFlight == sending \cup Queued \cup running

(* From the moment it is offered until its handler has returned, a payload *)
(* is what the peer sent: no later read writes to its buffer.              *)
DataIntact == \A p \in InFlight : content[p.buf] = p.chunk

(* A buffer is in the pool, or has one payload on its way, never both and  *)
(* never neither: it is returned exactly once on every path.               *)
OneOwner ==
    \A b \in Buffers :
        pool[b] + Cardinality({p \in sending : p.buf = b})
                + Cardinality({i \in 1..Len(queue) : queue[i].buf = b})
                + Cardinality({p \in running : p.buf = b}) = 1

(* The handlers see the stream in order, and, until the VU ends, without a *)
(* gap from the first chunk they see.                                      *)
StreamOrder ==
    \A i \in 1..(Len(seen) - 1) :
        /\ seen[i] < seen[i + 1]
        /\ ~vuDone => seen[i + 1] = seen[i] + 1
=============================================================================
