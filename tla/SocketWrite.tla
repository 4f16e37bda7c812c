---------------------------- MODULE SocketWrite ----------------------------
(***************************************************************************)
(* The write path of a Socket: write(), whose goroutines write to the      *)
(* connection at the same time, while destroy(), the peer or the network   *)
(* may end it.  A byte is represented by the call it belongs to.  connect()*)
(* may be called again, on an open socket and on a destroyed one; how it   *)
(* goes about it is the business of module Socket.                         *)
(***************************************************************************)
EXTENDS Naturals, Sequences, FiniteSets

CONSTANTS
    MaxConns,     \* how many connections connect() makes at most
    Writes,       \* the calls of write()
    Arguments,    \* what each call may be given: see Inputs
    VuMayStop,    \* whether k6 may end the VU
    None          \* nil

(* The connections, numbered as they are made *)
Conns == 1..MaxConns

Encodings == {"", "utf8", "utf-8", "ascii", "base64", "base64url", "hex", "other"}

(* A value of some JavaScript type, with the encoding option, the decoders *)
(* that accept the string, and the number of bytes that it stands for.     *)
Inputs == [type     : {"string", "bytes", "ArrayBuffer", "other"},
           encoding : Encodings,
           accepted : SUBSET {"base64", "rawurl", "url", "hex"},
           size     : Nat]

ASSUME WriteAssumption ==
    /\ MaxConns \in Nat
    /\ None \notin Conns
    /\ IsFiniteSet(Writes)
    /\ Arguments \in [Writes -> SUBSET Inputs]
    /\ VuMayStop \in BOOLEAN

VARIABLES
    conn,          \* s.conn
    link,          \* per connection: "none", "up", "broken" or "closed"
    fragments,     \* conn.Write() may return early without an error, which
                   \* net.Conn rules out and the loop of the code allows for
    destroyed,     \* destroy() has passed its section under s.mu
    closing,       \* destroy()'s local variable conn
    vuDone,        \* s.vu.Context() is done
    wire,          \* the bytes the connections have taken, in order
    size,          \* per call, len(data)
    local,         \* per call, writeExecute()'s local variable conn
    taken,         \* per call, the places on the wire of the bytes that the
                   \* pending conn.Write() has taken
    written,       \* per call, writeExecute()'s local variable totalWritten
    result,        \* per call, writeExecute()'s local variable result # nil
    totalWritten,  \* s.totalWritten, which is bytes_written
    samples,       \* metric samples pushed, per metric
    promise,       \* the promise each call returned
    pc             \* the goroutine of each call

linkVars == <<conn, link, fragments, destroyed, closing, vuDone>>
callVars == <<size, local, taken, written, result>>
vars     == <<linkVars, wire, callVars, totalWritten, samples, promise, pc>>

Metrics == {"writes", "partialWrites", "errors"}
Labels  == {"none", "snapshot", "write", "inWrite", "count", "settle", "done"}

TypeOK ==
    /\ conn \in Conns \cup {None}
    /\ link \in [Conns -> {"none", "up", "broken", "closed"}]
    /\ fragments \in BOOLEAN
    /\ destroyed \in BOOLEAN
    /\ closing \in Conns \cup {None}
    /\ vuDone \in BOOLEAN
    /\ wire \in Seq(Writes)
    /\ size \in [Writes -> Nat]
    /\ local \in [Writes -> Conns \cup {None}]
    /\ taken \in [Writes -> SUBSET Nat]
    /\ written \in [Writes -> Nat]
    /\ result \in [Writes -> BOOLEAN]
    /\ totalWritten \in Nat
    /\ samples \in [Metrics -> Nat]
    /\ promise \in [Writes -> {"none", "pending", "resolved", "rejected"}]
    /\ pc \in [Writes -> Labels]

Init ==
    /\ conn = None
    /\ link = [c \in Conns |-> "none"]
    /\ fragments \in BOOLEAN
    /\ destroyed = FALSE
    /\ closing = None
    /\ vuDone = FALSE
    /\ wire = <<>>
    /\ size = [w \in Writes |-> 0]
    /\ local = [w \in Writes |-> None]
    /\ taken = [w \in Writes |-> {}]
    /\ written = [w \in Writes |-> 0]
    /\ result = [w \in Writes |-> FALSE]
    /\ totalWritten = 0
    /\ samples = [m \in Metrics |-> 0]
    /\ promise = [w \in Writes |-> "none"]
    /\ pc = [w \in Writes |-> "none"]

-----------------------------------------------------------------------------
(* writePrepare(), stringOrArrayBuffer() and decodeString() *)

(* The decoders the encoding names; one of them must accept the string. *)
Decoders(encoding) ==
    CASE encoding = "base64"    -> {"base64"}
      [] encoding = "base64url" -> {"rawurl", "url"}
      [] encoding = "hex"       -> {"hex"}
      [] OTHER                  -> {}

DecodesString(in) ==
    \/ in.encoding \in {"", "utf8", "utf-8", "ascii"}
    \/ Decoders(in.encoding) \cap in.accepted # {}

Prepares(in) ==
    \/ in.type \in {"bytes", "ArrayBuffer"}
    \/ in.type = "string" /\ DecodesString(in)

Left(w) == size[w] - written[w]

Goto(w, label) == pc' = [pc EXCEPT ![w] = label]

(* metrics.PushIfNotDone, for several samples at once *)
Push(ms) == samples' = IF vuDone THEN samples
                       ELSE [m \in Metrics |-> samples[m] + IF m \in ms THEN 1 ELSE 0]

-----------------------------------------------------------------------------
(* The rest of the socket, and its surroundings *)

(* connect() looks neither at the state of the socket nor at s.conn. *)
Connect(c) ==
    /\ link[c] = "none"
    /\ \A d \in 1..(c - 1) : link[d] # "none"
    /\ link' = [link EXCEPT ![c] = "up"]
    /\ conn' = c
    /\ UNCHANGED <<fragments, destroyed, closing, vuDone, wire, callVars, totalWritten,
                   samples, promise, pc>>

LinkBreaks(c) ==
    /\ link[c] = "up"
    /\ link' = [link EXCEPT ![c] = "broken"]
    /\ UNCHANGED <<conn, fragments, destroyed, closing, vuDone, wire, callVars,
                   totalWritten, samples, promise, pc>>

(* destroy(), under s.mu *)
Teardown ==
    /\ ~destroyed
    /\ destroyed' = TRUE
    /\ closing' = conn
    /\ conn' = None
    /\ UNCHANGED <<link, fragments, vuDone, wire, callVars, totalWritten, samples,
                   promise, pc>>

(* destroy(), after it has released s.mu *)
CloseConn ==
    /\ closing # None
    /\ link[closing] # "closed"
    /\ link' = [link EXCEPT ![closing] = "closed"]
    /\ UNCHANGED <<conn, fragments, destroyed, closing, vuDone, wire, callVars,
                   totalWritten, samples, promise, pc>>

VuStops ==
    /\ VuMayStop
    /\ ~vuDone
    /\ vuDone' = TRUE
    /\ UNCHANGED <<conn, link, fragments, destroyed, closing, wire, callVars,
                   totalWritten, samples, promise, pc>>

-----------------------------------------------------------------------------
(* write() *)

(* Mutant: the promise does not wait for the goroutine. *)
StartSettled(w) == promise' = [promise EXCEPT ![w] = "resolved"] /\ Goto(w, "snapshot")

StartWrite(w) == promise' = [promise EXCEPT ![w] = "pending"] /\ Goto(w, "snapshot")

(* An argument that cannot be prepared is an error of the socket: it is    *)
(* counted, and the promise is rejected.  (That the error event may block  *)
(* is the business of module Socket.)  Otherwise a goroutine is started.   *)
JsWrite(w) ==
    /\ promise[w] = "none"
    /\ \E in \in Arguments[w] :
          IF Prepares(in)
          THEN /\ StartWrite(w)
               /\ size' = [size EXCEPT ![w] = in.size]
               /\ UNCHANGED samples
          ELSE /\ promise' = [promise EXCEPT ![w] = "rejected"]
               /\ Push({"errors"})
               /\ UNCHANGED <<size, pc>>
    /\ UNCHANGED <<linkVars, wire, local, taken, written, result, totalWritten>>

(* writeExecute(): the connection is copied under the read lock; without   *)
(* one the call ends here, and an empty payload skips the loop.            *)
Snapshot(w) ==
    /\ pc[w] = "snapshot"
    /\ local' = [local EXCEPT ![w] = conn]
    /\ result' = [result EXCEPT ![w] = (conn = None)]
    /\ Goto(w, IF conn = None THEN "settle" ELSE IF size[w] = 0 THEN "count" ELSE "write")
    /\ UNCHANGED <<linkVars, wire, size, taken, written, totalWritten, samples, promise>>

(* conn.Write() is called with the rest of the payload, and waits for the  *)
(* calls before it: a connection admits one at a time.                     *)
CallWrite(w) ==
    /\ pc[w] = "write"
    /\ \A v \in Writes : local[v] = local[w] => pc[v] # "inWrite"
    /\ Goto(w, "inWrite")
    /\ UNCHANGED <<linkVars, wire, callVars, totalWritten, samples, promise>>

(* Mutant: the payload is written byte by byte. *)
OneByte(w) == 1

(* How much of the payload conn.Write() is given: data[totalWritten:] *)
Rest(w) == Left(w)

(* What it has taken, which it returns as n. *)
Taken(w) == Cardinality(taken[w])

(* The connection takes the next byte. *)
Take(w) ==
    /\ pc[w] = "inWrite"
    /\ link[local[w]] = "up"
    /\ Taken(w) < Rest(w)
    /\ wire' = Append(wire, w)
    /\ taken' = [taken EXCEPT ![w] = @ \cup {Len(wire) + 1}]
    /\ UNCHANGED <<linkVars, size, local, written, result, totalWritten, samples,
                   promise, pc>>

(* conn.Write() returns, and admits the next call. *)
Returned(w) == taken' = [taken EXCEPT ![w] = {}]

(* Mutants: bytes are counted that may not have been taken; or down. *)
AdvanceByPayload(w) ==
    written' = [written EXCEPT ![w] = size[w]] /\ totalWritten' = totalWritten + size[w]

AdvanceDown(w) ==
    written' = [written EXCEPT ![w] = @ + Taken(w)] /\ totalWritten' = totalWritten - Taken(w)

(* totalWritten += n, for the local and for the shared counter *)
Advance(w) ==
    /\ written' = [written EXCEPT ![w] = @ + Taken(w)]
    /\ totalWritten' = totalWritten + Taken(w)

(* conn.Write() has taken everything, and the test of the loop follows. *)
WriteReturns(w) ==
    /\ pc[w] = "inWrite"
    /\ Taken(w) = Rest(w)
    /\ Advance(w)
    /\ Returned(w)
    /\ Goto(w, IF Taken(w) = Left(w) THEN "count" ELSE "write")
    /\ UNCHANGED <<linkVars, wire, size, local, result, samples, promise>>

(* Mutant: the loop tries again after an error. *)
TryAgain(w) == UNCHANGED result /\ Goto(w, "write")

(* Either error breaks out of the loop. *)
Break(w) == result' = [result EXCEPT ![w] = TRUE] /\ Goto(w, "count")

(* conn.Write() returns early without an error: with nothing taken that is *)
(* one, otherwise the loop goes round.                                     *)
WriteReturnsShort(w) ==
    /\ fragments
    /\ pc[w] = "inWrite"
    /\ Taken(w) < Rest(w)
    /\ Returned(w)
    /\ IF Taken(w) = 0
       THEN Break(w) /\ UNCHANGED <<written, totalWritten>>
       ELSE Advance(w) /\ Goto(w, "write") /\ UNCHANGED result
    /\ UNCHANGED <<linkVars, wire, size, local, samples, promise>>

(* conn.Write() returns an error; the number it returns with it is not     *)
(* looked at.                                                              *)
WriteFails(w) ==
    /\ pc[w] = "inWrite"
    /\ link[local[w]] \in {"broken", "closed"}
    /\ Taken(w) < Rest(w)
    /\ Returned(w)
    /\ Break(w)
    /\ UNCHANGED <<linkVars, wire, size, local, written, totalWritten, samples, promise>>

(* Mutant: only writes that succeed are counted. *)
OnlySuccess(w) == IF result[w] THEN {} ELSE {"writes"}

(* A write counts, and counts as partial too if it failed in the middle. *)
Counts(w) ==
    {"writes"} \cup
    IF result[w] /\ written[w] \in 1..(size[w] - 1) THEN {"partialWrites"} ELSE {}

Count(w) ==
    /\ pc[w] = "count"
    /\ Push(Counts(w))
    /\ Goto(w, "settle")
    /\ UNCHANGED <<linkVars, wire, callVars, totalWritten, promise>>

SettleWrite(w) ==
    /\ pc[w] = "settle"
    /\ promise' = [promise EXCEPT ![w] = IF result[w] THEN "rejected" ELSE "resolved"]
    /\ Goto(w, "done")
    /\ UNCHANGED <<linkVars, wire, callVars, totalWritten, samples>>

-----------------------------------------------------------------------------
(* What a goroutine does without the help of the peer *)
WriteStep(w) ==
    \/ Snapshot(w) \/ CallWrite(w)
    \/ WriteReturns(w) \/ WriteReturnsShort(w) \/ WriteFails(w)
    \/ Count(w) \/ SettleWrite(w)

Next ==
    \/ \E c \in Conns : Connect(c) \/ LinkBreaks(c)
    \/ Teardown \/ CloseConn \/ VuStops
    \/ \E w \in Writes : JsWrite(w) \/ Take(w) \/ WriteStep(w)

Spec == Init /\ [][Next]_vars

(* Goroutines run when they can, and destroy() finishes.  Nothing makes    *)
(* the peer read: the connection need not take another byte.               *)
FairSpec ==
    /\ Spec
    /\ WF_vars(CloseConn)
    /\ \A w \in Writes : WF_vars(WriteStep(w))

-----------------------------------------------------------------------------
BytesOf(w) == {i \in 1..Len(wire) : wire[i] = w}

(* A promise that write() resolves stands for all the bytes of the         *)
(* payload, each of them once.                                             *)
ResolvedIsWhole ==
    \A w \in Writes : promise[w] = "resolved" => Cardinality(BytesOf(w)) = size[w]

(* Concurrent writes do not mix: on connections that take a payload in one *)
(* call, the bytes of one write() are not interrupted by those of another  *)
(* to the same connection.                                                 *)
Contiguous ==
    ~fragments => \A w \in Writes : \A i, j, k \in 1..Len(wire) :
        i < j /\ j < k /\ wire[i] = w /\ wire[k] = w /\ local[wire[j]] = local[w]
            => wire[j] = w

(* Once its promise has settled, a write() sends nothing more: a payload   *)
(* may be reused then, and what is awaited before the next call is on the  *)
(* wire before it.                                                         *)
SettledIsSilent ==
    [][\A w \in Writes :
          promise[w] \in {"resolved", "rejected"} => BytesOf(w)' = BytesOf(w)]_vars

(* bytes_written never counts a byte that the connection has not taken. *)
CountsOnlySent == totalWritten <= Len(wire)

(* tcp_writes counts the calls that had a connection, each of them once    *)
(* and before its promise is settled, whether it succeeded or not.         *)
WritesCounted ==
    vuDone \/ samples["writes"] =
        Cardinality({w \in Writes : pc[w] \in {"settle", "done"} /\ local[w] # None})

(* destroy() ends every pending write, even if the peer does not read.     *)
(* Left out are writes to a connection that destroy() does not close: one  *)
(* that connect() replaced before, or one that it opened afterwards.       *)
DestroyEndsWrites ==
    \A w \in Writes :
        destroyed /\ promise[w] = "pending"
            ~> promise[w] # "pending" \/ local[w] \notin {None, closing}

(* A write that fails after part of the payload was sent counts as a       *)
(* partial write.                                                          *)
PartialCounted ==
    \A w \in Writes :
        promise[w] = "rejected" /\ BytesOf(w) # {}
            => vuDone \/ samples["partialWrites"] > 0
=============================================================================
