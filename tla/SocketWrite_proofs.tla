-------------------------- MODULE SocketWrite_proofs --------------------------
(* Proofs about the write path, for any number of calls, any arguments and *)
(* any number of connections.                                              *)
EXTENDS SocketWrite, FiniteSetTheorems, TLAPS

Sent(w) == Cardinality(BytesOf(w))

(* One call at a time is inside conn.Write() of a connection, and a call   *)
(* has its connection from the snapshot on.                                *)
LocalInv ==
    /\ \A v, w \in Writes :
          pc[v] = "inWrite" /\ pc[w] = "inWrite" /\ local[v] = local[w] => v = w
    /\ \A w \in Writes :
          /\ pc[w] \in {"none", "snapshot"} => local[w] = None
          /\ pc[w] \in {"write", "inWrite", "count"} => local[w] # None

(* A promise is pending for as long as its goroutine runs, and tells its   *)
(* result afterwards.                                                      *)
PromiseInv ==
    \A w \in Writes :
        /\ pc[w] = "none" => promise[w] \in {"none", "rejected"}
        /\ pc[w] \notin {"none", "done"} => promise[w] = "pending"
        /\ pc[w] = "done" => promise[w] = IF result[w] THEN "rejected" ELSE "resolved"

(* How many bytes of a call the connection has taken, until an error loses *)
(* the account.                                                            *)
SentInv ==
    \A w \in Writes :
        /\ written[w] <= size[w]
        /\ pc[w] \in {"none", "snapshot"} => BytesOf(w) = {} /\ written[w] = 0
        /\ pc[w] = "write" => Sent(w) = written[w]
        /\ pc[w] = "inWrite" => Sent(w) = written[w] + Taken(w) /\ Taken(w) <= Left(w)
        /\ pc[w] \in {"count", "settle", "done"} /\ ~result[w] => Sent(w) = size[w]

(* What conn.Write() has taken and not returned yet is the call's own. *)
TakenInv ==
    \A w \in Writes :
        /\ taken[w] \subseteq BytesOf(w)
        /\ pc[w] # "inWrite" => taken[w] = {}

(* The bytes that no pending conn.Write() has taken: the counted ones are  *)
(* among them.                                                             *)
Given == (1..Len(wire)) \ UNION {taken[w] : w \in Writes}

TotalInv == totalWritten <= Cardinality(Given)

(* No byte of another call follows those of w on its connection. *)
AtEnd(w) ==
    \A i \in BytesOf(w), j \in 1..Len(wire) :
        i < j /\ local[wire[j]] = local[w] => wire[j] = w

(* If conn.Write() takes everything or fails, each call has its bytes at   *)
(* the end of the wire until it leaves conn.Write(), and in one piece from *)
(* then on.                                                                *)
PieceInv ==
    /\ Contiguous
    /\ ~fragments => \A w \in Writes :
           /\ pc[w] \in {"none", "snapshot", "write"} => BytesOf(w) = {}
           /\ pc[w] \in {"write", "inWrite"} => written[w] = 0
           /\ pc[w] = "inWrite" => AtEnd(w)

(* The calls that have been counted, unless the VU has ended. *)
Counted == {w \in Writes : pc[w] \in {"settle", "done"} /\ local[w] # None}

CountedInv == vuDone \/ samples["writes"] = Cardinality(Counted)

WriteInv ==
    /\ TypeOK /\ LocalInv /\ PromiseInv /\ SentInv /\ TakenInv /\ TotalInv /\ PieceInv
    /\ CountedInv

-----------------------------------------------------------------------------
(* The positions of a call's bytes are finitely many. *)
LEMMA BytesFinite ==
    ASSUME wire \in Seq(Writes), NEW w \in Writes
    PROVE  /\ IsFiniteSet(BytesOf(w))
           /\ Sent(w) \in Nat
           /\ Sent(w) = 0 <=> BytesOf(w) = {}
<1>1. IsFiniteSet(1..Len(wire)) /\ BytesOf(w) \subseteq 1..Len(wire)
  BY FS_Interval DEF BytesOf
<1>2. IsFiniteSet(BytesOf(w))
  BY <1>1, FS_Subset
<1> QED
  BY <1>2, FS_CardinalityType, FS_EmptySet DEF Sent

(* One byte more on the wire is one byte more of its call. *)
LEMMA ByteTaken ==
    ASSUME wire \in Seq(Writes), NEW w \in Writes, wire' = Append(wire, w)
    PROVE  /\ wire' \in Seq(Writes)
           /\ Len(wire') = Len(wire) + 1
           /\ wire'[Len(wire) + 1] = w
           /\ \A i \in 1..Len(wire) : wire'[i] = wire[i]
           /\ Sent(w)' = Sent(w) + 1
           /\ \A v \in Writes \ {w} : BytesOf(v)' = BytesOf(v) /\ Sent(v)' = Sent(v)
<1>1. /\ wire' \in Seq(Writes) /\ Len(wire) \in Nat /\ Len(wire') = Len(wire) + 1
      /\ wire'[Len(wire) + 1] = w
      /\ \A i \in 1..Len(wire) : wire'[i] = wire[i]
  OBVIOUS
<1>2. BytesOf(w)' = BytesOf(w) \cup {Len(wire) + 1} /\ Len(wire) + 1 \notin BytesOf(w)
  BY <1>1 DEF BytesOf
<1>3. Sent(w)' = Sent(w) + 1
  BY <1>2, BytesFinite, FS_AddElement DEF Sent
<1>4. \A v \in Writes \ {w} : BytesOf(v)' = BytesOf(v)
  BY <1>1 DEF BytesOf
<1> QED
  BY <1>1, <1>3, <1>4 DEF Sent

(* The account of the bytes stands still while the wire does. *)
LEMMA WireUnchanged ==
    ASSUME UNCHANGED wire
    PROVE  \A w \in Writes : BytesOf(w)' = BytesOf(w) /\ Sent(w)' = Sent(w)
  BY DEF BytesOf, Sent

(* The pieces stay what they are while only calls without a byte change    *)
(* their connection.                                                       *)
LEMMA PiecesUnchanged ==
    ASSUME UNCHANGED <<wire, fragments>>, wire \in Seq(Writes),
           \A w \in Writes : BytesOf(w) # {} => local'[w] = local[w]
    PROVE  /\ Contiguous => Contiguous'
           /\ \A w \in Writes : AtEnd(w) => AtEnd(w)'
<1>1. \A i \in 1..Len(wire) : wire[i] \in Writes /\ local'[wire[i]] = local[wire[i]]
  BY DEF BytesOf
<1>2. ASSUME Contiguous PROVE Contiguous'
  BY <1>1, <1>2 DEF Contiguous
<1>3. ASSUME NEW w \in Writes, AtEnd(w) PROVE AtEnd(w)'
  BY <1>1, <1>3 DEF AtEnd, BytesOf
<1> QED
  BY <1>2, <1>3

(* Subsets of the calls, and the counted bytes, are finitely many. *)
LEMMA CountedFinite ==
    ASSUME NEW S \in SUBSET Writes
    PROVE  IsFiniteSet(S) /\ Cardinality(S) \in Nat
  BY WriteAssumption, FS_Subset, FS_CardinalityType

LEMMA GivenFinite ==
    ASSUME wire \in Seq(Writes)
    PROVE  IsFiniteSet(Given) /\ Cardinality(Given) \in Nat
<1>1. IsFiniteSet(1..Len(wire)) /\ Given \in SUBSET (1..Len(wire))
  BY FS_Interval DEF Given
<1> QED
  BY <1>1, FS_Subset, FS_CardinalityType

(* What a pending conn.Write() has taken is finite too. *)
LEMMA TakenFinite ==
    ASSUME wire \in Seq(Writes), NEW w \in Writes, taken[w] \subseteq BytesOf(w)
    PROVE  IsFiniteSet(taken[w]) /\ Taken(w) \in Nat
  BY BytesFinite, FS_Subset, FS_CardinalityType DEF Taken

(* When conn.Write() returns, what it has taken may be counted. *)
LEMMA GivenGrows ==
    ASSUME wire \in Seq(Writes), taken \in [Writes -> SUBSET Nat], TakenInv,
           NEW w \in Writes, taken' = [taken EXCEPT ![w] = {}], UNCHANGED wire
    PROVE  Cardinality(Given') = Cardinality(Given) + Taken(w)
<1>1. \A v \in Writes \ {w} : taken[v] \cap taken[w] = {}
  BY DEF TakenInv, BytesOf
<1>2. taken[w] \subseteq 1..Len(wire)
  BY DEF TakenInv, BytesOf
<1>3. ASSUME NEW i \in 1..Len(wire)
      PROVE  i \in Given' <=> i \in Given \/ i \in taken[w]
  <2>1. i \in Given' <=> \A v \in Writes : i \notin taken'[v]
    BY DEF Given
  <2>2. i \in Given <=> \A v \in Writes : i \notin taken[v]
    BY DEF Given
  <2> QED
    BY <1>1, <2>1, <2>2
<1>4. Given' = Given \cup taken[w]
  BY <1>2, <1>3 DEF Given
<1>5. Given \cap taken[w] = {}
  BY DEF Given
<1>6. IsFiniteSet(Given) /\ IsFiniteSet(taken[w])
  BY GivenFinite, TakenFinite DEF TakenInv
<1>7. Cardinality(Given') = Cardinality(Given) + Taken(w) - Cardinality({})
  BY <1>4, <1>5, <1>6, FS_Union DEF Taken
<1>8. Cardinality({}) = 0 /\ Cardinality(Given) \in Nat /\ Taken(w) \in Nat
  BY FS_EmptySet, GivenFinite, TakenFinite DEF TakenInv
<1> QED
  BY <1>7, <1>8

(* Steps that change neither the wire nor a call: connect(), destroy(),    *)
(* the peer, and the end of the VU.                                        *)
LEMMA SurroundingsKeep ==
    ASSUME WriteInv, conn' \in Conns \cup {None}, closing' \in Conns \cup {None},
           link' \in [Conns -> {"none", "up", "broken", "closed"}],
           destroyed' \in BOOLEAN, vuDone' \in BOOLEAN, vuDone => vuDone',
           UNCHANGED <<fragments, wire, callVars, totalWritten, samples, promise, pc>>
    PROVE  WriteInv'
<1>1. \A w \in Writes : BytesOf(w)' = BytesOf(w) /\ Sent(w)' = Sent(w) /\ Taken(w)' = Taken(w)
  BY WireUnchanged DEF Taken, callVars
<1>2. TypeOK'
  BY DEF WriteInv, TypeOK, callVars
<1>3. LocalInv' /\ PromiseInv'
  BY DEF WriteInv, LocalInv, PromiseInv, callVars
<1>4. SentInv'
  BY <1>1 DEF WriteInv, SentInv, Left, callVars
<1>5. TakenInv' /\ TotalInv'
  BY <1>1 DEF WriteInv, TakenInv, TotalInv, Given, callVars
<1>6. PieceInv'
  <2>1. wire \in Seq(Writes) /\ UNCHANGED <<local, fragments, wire>>
    BY DEF WriteInv, TypeOK, callVars
  <2> QED
    BY <1>1, <2>1, PiecesUnchanged DEF WriteInv, PieceInv, callVars
<1>7. CountedInv'
  BY DEF WriteInv, CountedInv, Counted, callVars
<1> QED
  BY <1>2, <1>3, <1>4, <1>5, <1>6, <1>7 DEF WriteInv

(* What a push adds to the samples. *)
LEMMA Pushed ==
    ASSUME samples \in [Metrics -> Nat], NEW ms, Push(ms)
    PROVE  /\ samples' \in [Metrics -> Nat]
           /\ ~vuDone => samples'["writes"] =
                 IF "writes" \in ms THEN samples["writes"] + 1 ELSE samples["writes"]
  BY DEF Push, Metrics

(* Steps of one call that leave the wire alone. *)
LEMMA CallStep ==
    ASSUME WriteInv, NEW w \in Writes, JsWrite(w) \/ WriteStep(w)
    PROVE  WriteInv'
<1> USE WriteAssumption DEF WriteInv
<1>W. /\ UNCHANGED <<linkVars, wire>> /\ wire \in Seq(Writes) /\ wire' \in Seq(Writes)
      /\ \A v \in Writes : BytesOf(v)' = BytesOf(v) /\ Sent(v)' = Sent(v)
  <2>1. UNCHANGED <<linkVars, wire>>
    BY DEF JsWrite, WriteStep, Snapshot, CallWrite, WriteReturns, WriteReturnsShort, WriteFails,
           Count, SettleWrite
  <2> QED
    BY <2>1, WireUnchanged DEF TypeOK
<1>N. /\ \A v \in Writes : Sent(v) \in Nat /\ (Sent(v) = 0 <=> BytesOf(v) = {}) /\ Taken(v) \in Nat
      /\ Cardinality(Given) \in Nat
  BY <1>W, BytesFinite, TakenFinite, GivenFinite DEF TakenInv
<1>P. /\ samples \in [Metrics -> Nat] /\ samples["writes"] \in Nat
      /\ Counted \in SUBSET Writes /\ IsFiniteSet(Counted) /\ Cardinality(Counted) \in Nat
  <2>1. samples \in [Metrics -> Nat] /\ samples["writes"] \in Nat
    BY DEF TypeOK, Metrics
  <2>2. Counted \in SUBSET Writes
    BY DEF Counted
  <2> QED
    BY <2>1, <2>2, CountedFinite
<1>C. ASSUME \A v \in Writes : BytesOf(v) # {} => local'[v] = local[v]
      PROVE  (Contiguous => Contiguous') /\ \A v \in Writes : AtEnd(v) => AtEnd(v)'
  BY <1>W, <1>C, PiecesUnchanged DEF linkVars
<1>K. ASSUME UNCHANGED taken
      PROVE  (\A v \in Writes : Taken(v)' = Taken(v)) /\ Given' = Given
  BY <1>W, <1>K DEF Taken, Given
<1>R. ASSUME taken' = [taken EXCEPT ![w] = {}]
      PROVE  /\ Taken(w)' = 0 /\ \A v \in Writes \ {w} : Taken(v)' = Taken(v)
             /\ Cardinality(Given') = Cardinality(Given) + Taken(w)
  <2>1. taken'[w] = {} /\ \A v \in Writes \ {w} : taken'[v] = taken[v]
    BY <1>R DEF TypeOK
  <2>2. taken \in [Writes -> SUBSET Nat]
    BY DEF TypeOK
  <2>3. Cardinality(Given') = Cardinality(Given) + Taken(w)
    BY <1>W, <1>R, <2>2, GivenGrows
  <2> QED
    BY <2>1, <2>3, FS_EmptySet DEF Taken
<1>E. ASSUME Counted' = Counted, vuDone \/ samples'["writes"] = samples["writes"]
      PROVE  CountedInv'
  BY <1>W, <1>E DEF CountedInv, linkVars
<1> USE DEF Goto, Left, callVars, linkVars
<1>1. CASE JsWrite(w)
  <2>0. /\ pc[w] = "none" /\ size' \in [Writes -> Nat]
        /\ \A v \in Writes \ {w} : size'[v] = size[v] /\ pc'[v] = pc[v] /\ promise'[v] = promise[v]
        /\ \/ pc' = pc /\ promise' = [promise EXCEPT ![w] = "rejected"] /\ Push({"errors"}) /\ size' = size
           \/ /\ pc' = [pc EXCEPT ![w] = "snapshot"] /\ promise' = [promise EXCEPT ![w] = "pending"]
              /\ UNCHANGED samples
        /\ UNCHANGED <<linkVars, wire, local, taken, written, result, totalWritten>>
    <3>0. pc[w] = "none" /\ UNCHANGED <<linkVars, wire, local, taken, written, result, totalWritten>>
      BY <1>1 DEF JsWrite, TypeOK, PromiseInv
    <3>1. PICK in \in Arguments[w] :
             IF Prepares(in)
             THEN StartWrite(w) /\ size' = [size EXCEPT ![w] = in.size] /\ UNCHANGED samples
             ELSE /\ promise' = [promise EXCEPT ![w] = "rejected"] /\ Push({"errors"})
                  /\ UNCHANGED <<size, pc>>
      BY <1>1 DEF JsWrite
    <3>2. in.size \in Nat
      BY DEF Inputs
    <3>3. CASE Prepares(in)
      BY <3>0, <3>1, <3>2, <3>3 DEF StartWrite, TypeOK
    <3>4. CASE ~Prepares(in)
      BY <3>0, <3>1, <3>4 DEF TypeOK
    <3> QED
      BY <3>3, <3>4
  <2>K. (\A v \in Writes : Taken(v)' = Taken(v)) /\ Given' = Given
    BY <2>0, <1>K
  <2>1. TypeOK'
    BY <1>W, <2>0, <1>P, Pushed DEF TypeOK, Labels
  <2>2. LocalInv'
    <3>1. /\ UNCHANGED local /\ pc[w] = "none" /\ pc'[w] \in {"none", "snapshot"}
          /\ \A v \in Writes \ {w} : pc'[v] = pc[v]
      BY <2>0 DEF TypeOK
    <3>2. \A v \in Writes : pc'[v] = "inWrite" => pc[v] = "inWrite"
      BY <3>1
    <3> QED
      BY <3>1, <3>2 DEF LocalInv
  <2>3. PromiseInv'
    BY <2>0 DEF TypeOK, PromiseInv
  <2>4. SentInv'
    BY <1>W, <1>N, <2>0, <2>K, SMTT(30) DEF TypeOK, SentInv
  <2>5. TakenInv'
    BY <1>W, <2>0 DEF TypeOK, TakenInv
  <2>6. TotalInv'
    BY <1>N, <2>0, <2>K DEF TypeOK, TotalInv
  <2>7. PieceInv'
    <3>1. \A v \in Writes : BytesOf(v) # {} => local'[v] = local[v]
      BY <2>0 DEF TypeOK, SentInv
    <3>2. (Contiguous => Contiguous') /\ \A v \in Writes : AtEnd(v) => AtEnd(v)'
      BY <3>1, <1>C
    <3> QED
      BY <1>W, <1>N, <2>0, <3>2 DEF TypeOK, SentInv, PieceInv
  <2>8. CountedInv'
    <3>1. Counted' = Counted
      BY <2>0 DEF TypeOK, Counted
    <3>2. vuDone \/ samples'["writes"] = samples["writes"]
      BY <2>0, <1>P, Pushed
    <3> QED
      BY <3>1, <3>2, <1>E
  <2> QED
    BY <2>1, <2>2, <2>3, <2>4, <2>5, <2>6, <2>7, <2>8
<1>2. CASE Snapshot(w)
  <2>0. /\ pc[w] = "snapshot" /\ local' = [local EXCEPT ![w] = conn] /\ conn \in Conns \cup {None}
        /\ result' = [result EXCEPT ![w] = (conn = None)]
        /\ \/ conn = None /\ pc' = [pc EXCEPT ![w] = "settle"]
           \/ conn # None /\ size[w] = 0 /\ pc' = [pc EXCEPT ![w] = "count"]
           \/ conn # None /\ size[w] # 0 /\ pc' = [pc EXCEPT ![w] = "write"]
        /\ UNCHANGED <<linkVars, wire, size, taken, written, totalWritten, samples, promise>>
    BY <1>2 DEF Snapshot, TypeOK
  <2>K. (\A v \in Writes : Taken(v)' = Taken(v)) /\ Given' = Given
    BY <2>0, <1>K
  <2>1. TypeOK'
    BY <1>W, <2>0 DEF TypeOK, Labels
  <2>2. LocalInv'
    BY <2>0, SMTT(30) DEF TypeOK, LocalInv
  <2>3. PromiseInv'
    BY <2>0 DEF TypeOK, PromiseInv
  <2>4. SentInv'
    <3>1. /\ pc'[w] \in {"settle", "count", "write"} /\ (pc'[w] = "settle" => result'[w])
          /\ pc'[w] = "count" => size[w] = 0
          /\ \A v \in Writes \ {w} : pc'[v] = pc[v] /\ result'[v] = result[v]
          /\ UNCHANGED <<written, size>>
      BY <2>0 DEF TypeOK
    <3>2. BytesOf(w) = {} /\ written[w] = 0 /\ Sent(w) = 0 /\ written[w] <= size[w]
      BY <1>N, <2>0 DEF TypeOK, SentInv
    <3>3. ASSUME NEW v \in Writes
          PROVE  /\ written'[v] <= size'[v]
                 /\ pc'[v] \in {"none", "snapshot"} => BytesOf(v)' = {} /\ written'[v] = 0
                 /\ pc'[v] = "write" => Sent(v)' = written'[v]
                 /\ pc'[v] = "inWrite" => Sent(v)' = written'[v] + Taken(v)' /\ Taken(v)' <= Left(v)'
                 /\ pc'[v] \in {"count", "settle", "done"} /\ ~result'[v] => Sent(v)' = size'[v]
      <4>1. CASE v = w
        BY <1>W, <3>1, <3>2, <4>1, ZenonT(30)
      <4>2. CASE v # w
        BY <1>W, <2>K, <3>1, <4>2 DEF SentInv
      <4> QED
        BY <4>1, <4>2
    <3> QED
      BY <3>3 DEF SentInv
  <2>5. TakenInv'
    <3>1. UNCHANGED taken /\ pc[w] # "inWrite" /\ \A v \in Writes \ {w} : pc'[v] = pc[v]
      BY <2>0 DEF TypeOK
    <3> QED
      BY <1>W, <3>1 DEF TakenInv
  <2>6. TotalInv'
    BY <1>N, <2>0, <2>K DEF TypeOK, TotalInv
  <2>7. PieceInv'
    <3>1. \A v \in Writes : BytesOf(v) # {} => local'[v] = local[v]
      BY <2>0 DEF TypeOK, SentInv
    <3>2. (Contiguous => Contiguous') /\ \A v \in Writes : AtEnd(v) => AtEnd(v)'
      BY <3>1, <1>C
    <3> QED
      BY <1>W, <1>N, <2>0, <3>2 DEF TypeOK, SentInv, PieceInv
  <2>8. CountedInv'
    <3>1. Counted' = Counted
      BY <2>0 DEF TypeOK, Counted, LocalInv
    <3>2. vuDone \/ samples'["writes"] = samples["writes"]
      BY <2>0
    <3> QED
      BY <3>1, <3>2, <1>E
  <2> QED
    BY <2>1, <2>2, <2>3, <2>4, <2>5, <2>6, <2>7, <2>8
<1>3. CASE CallWrite(w)
  <2>0. /\ pc[w] = "write" /\ pc' = [pc EXCEPT ![w] = "inWrite"]
        /\ \A v \in Writes : local[v] = local[w] => pc[v] # "inWrite"
        /\ UNCHANGED <<linkVars, wire, callVars, totalWritten, samples, promise>>
    BY <1>3 DEF CallWrite, TypeOK
  <2>K. (\A v \in Writes : Taken(v)' = Taken(v)) /\ Given' = Given
    BY <2>0, <1>K
  <2>1. TypeOK'
    BY <1>W, <2>0 DEF TypeOK, Labels
  <2>2. LocalInv'
    BY <2>0, SMTT(30) DEF TypeOK, LocalInv
  <2>3. PromiseInv'
    BY <2>0 DEF TypeOK, PromiseInv
  <2>4. SentInv'
    <3>1. taken[w] = {} /\ Taken(w) = 0
      BY <2>0, FS_EmptySet DEF TakenInv, Taken
    <3> QED
      BY <1>W, <1>N, <2>0, <2>K, <3>1 DEF TypeOK, SentInv
  <2>5. TakenInv'
    BY <1>W, <2>0 DEF TypeOK, TakenInv
  <2>6. TotalInv'
    BY <1>N, <2>0, <2>K DEF TypeOK, TotalInv
  <2>7. PieceInv'
    <3>1. \A v \in Writes : BytesOf(v) # {} => local'[v] = local[v]
      BY <2>0 DEF TypeOK, SentInv
    <3>2. (Contiguous => Contiguous') /\ \A v \in Writes : AtEnd(v) => AtEnd(v)'
      BY <3>1, <1>C
    <3> QED
      BY <1>W, <1>N, <2>0, <3>2 DEF TypeOK, SentInv, PieceInv, AtEnd
  <2>8. CountedInv'
    <3>1. Counted' = Counted
      BY <2>0 DEF TypeOK, Counted
    <3>2. vuDone \/ samples'["writes"] = samples["writes"]
      BY <2>0
    <3> QED
      BY <3>1, <3>2, <1>E
  <2> QED
    BY <2>1, <2>2, <2>3, <2>4, <2>5, <2>6, <2>7, <2>8
<1>4. CASE WriteReturns(w)
  <2>0. /\ pc[w] = "inWrite" /\ Taken(w) = size[w] - written[w]
        /\ written' = [written EXCEPT ![w] = @ + Taken(w)] /\ totalWritten' = totalWritten + Taken(w)
        /\ taken' = [taken EXCEPT ![w] = {}] /\ pc' = [pc EXCEPT ![w] = "count"]
        /\ UNCHANGED <<linkVars, wire, size, local, result, samples, promise>>
    BY <1>4 DEF WriteReturns, Advance, Returned, Rest, TypeOK
  <2>K. /\ Taken(w)' = 0 /\ \A v \in Writes \ {w} : Taken(v)' = Taken(v)
        /\ Cardinality(Given') = Cardinality(Given) + Taken(w)
    BY <2>0, <1>R
  <2>1. TypeOK'
    BY <1>W, <1>N, <2>0, SMTT(30) DEF TypeOK, Labels
  <2>2. LocalInv'
    BY <2>0, SMTT(30) DEF TypeOK, LocalInv
  <2>3. PromiseInv'
    BY <2>0 DEF TypeOK, PromiseInv
  <2>4. SentInv'
    BY <1>W, <1>N, <2>0, <2>K, SMTT(30) DEF TypeOK, SentInv
  <2>5. TakenInv'
    BY <1>W, <2>0 DEF TypeOK, TakenInv
  <2>6. TotalInv'
    BY <1>N, <2>0, <2>K DEF TypeOK, TotalInv
  <2>7. PieceInv'
    <3>1. \A v \in Writes : BytesOf(v) # {} => local'[v] = local[v]
      BY <2>0 DEF TypeOK, SentInv
    <3>2. (Contiguous => Contiguous') /\ \A v \in Writes : AtEnd(v) => AtEnd(v)'
      BY <3>1, <1>C
    <3> QED
      BY <1>W, <1>N, <2>0, <3>2 DEF TypeOK, SentInv, PieceInv
  <2>8. CountedInv'
    <3>1. Counted' = Counted
      BY <2>0 DEF TypeOK, Counted
    <3>2. vuDone \/ samples'["writes"] = samples["writes"]
      BY <2>0
    <3> QED
      BY <3>1, <3>2, <1>E
  <2> QED
    BY <2>1, <2>2, <2>3, <2>4, <2>5, <2>6, <2>7, <2>8
<1>5. CASE WriteReturnsShort(w)
  <2>0. /\ pc[w] = "inWrite" /\ Taken(w) < size[w] - written[w] /\ fragments
        /\ \/ /\ result' = [result EXCEPT ![w] = TRUE] /\ pc' = [pc EXCEPT ![w] = "count"]
              /\ UNCHANGED <<written, totalWritten>>
           \/ /\ written' = [written EXCEPT ![w] = @ + Taken(w)] /\ pc' = [pc EXCEPT ![w] = "write"]
              /\ totalWritten' = totalWritten + Taken(w) /\ UNCHANGED result
        /\ taken' = [taken EXCEPT ![w] = {}]
        /\ UNCHANGED <<linkVars, wire, size, local, samples, promise>>
    BY <1>5 DEF WriteReturnsShort, Advance, Returned, Break, Rest, TypeOK
  <2>K. /\ Taken(w)' = 0 /\ \A v \in Writes \ {w} : Taken(v)' = Taken(v)
        /\ Cardinality(Given') = Cardinality(Given) + Taken(w)
    BY <2>0, <1>R
  <2>1. TypeOK'
    <3>1. /\ written' \in [Writes -> Nat] /\ totalWritten' \in Nat
          /\ result' \in [Writes -> BOOLEAN] /\ pc' \in [Writes -> Labels]
      <4>1. CASE /\ result' = [result EXCEPT ![w] = TRUE] /\ pc' = [pc EXCEPT ![w] = "count"]
                 /\ UNCHANGED <<written, totalWritten>>
        BY <4>1 DEF TypeOK, Labels
      <4>2. CASE /\ written' = [written EXCEPT ![w] = @ + Taken(w)]
                 /\ pc' = [pc EXCEPT ![w] = "write"]
                 /\ totalWritten' = totalWritten + Taken(w) /\ UNCHANGED result
        BY <1>N, <4>2 DEF TypeOK, Labels
      <4> QED
        BY <2>0, <4>1, <4>2
    <3>2. taken' \in [Writes -> SUBSET Nat]
      BY <2>0 DEF TypeOK
    <3> QED
      BY <1>W, <2>0, <3>1, <3>2 DEF TypeOK
  <2>2. LocalInv'
    <3>1. /\ UNCHANGED local /\ pc[w] = "inWrite" /\ pc'[w] \in {"count", "write"}
          /\ \A v \in Writes \ {w} : pc'[v] = pc[v]
      BY <2>0 DEF TypeOK
    <3>2. \A v \in Writes : pc'[v] = "inWrite" => pc[v] = "inWrite"
      BY <3>1
    <3> QED
      BY <3>1, <3>2 DEF LocalInv
  <2>3. PromiseInv'
    BY <2>0 DEF TypeOK, PromiseInv
  <2>4. SentInv'
    <3>1. CASE pc' = [pc EXCEPT ![w] = "count"] /\ UNCHANGED written
      BY <1>W, <1>N, <2>0, <2>K, <3>1, SMTT(30) DEF TypeOK, SentInv
    <3>2. CASE written' = [written EXCEPT ![w] = @ + Taken(w)] /\ pc' = [pc EXCEPT ![w] = "write"]
      <4>1. /\ written'[w] = written[w] + Taken(w) /\ pc'[w] = "write"
            /\ \A v \in Writes \ {w} : written'[v] = written[v] /\ pc'[v] = pc[v]
        BY <3>2 DEF TypeOK
      <4>2. /\ written[w] \in Nat /\ size[w] \in Nat /\ Sent(w) = written[w] + Taken(w)
            /\ UNCHANGED <<size, result>>
        BY <2>0, <3>2 DEF TypeOK, SentInv
      <4> QED
        BY <1>W, <1>N, <2>0, <2>K, <4>1, <4>2, SMTT(30) DEF SentInv
    <3> QED
      BY <2>0, <3>1, <3>2
  <2>5. TakenInv'
    BY <1>W, <2>0 DEF TypeOK, TakenInv
  <2>6. TotalInv'
    BY <1>N, <2>0, <2>K DEF TypeOK, TotalInv
  <2>7. PieceInv'
    <3>1. \A v \in Writes : BytesOf(v) # {} => local'[v] = local[v]
      BY <2>0 DEF TypeOK, SentInv
    <3>2. (Contiguous => Contiguous') /\ \A v \in Writes : AtEnd(v) => AtEnd(v)'
      BY <3>1, <1>C
    <3> QED
      BY <1>W, <1>N, <2>0, <3>2 DEF TypeOK, SentInv, PieceInv
  <2>8. CountedInv'
    <3>1. Counted' = Counted
      BY <2>0 DEF TypeOK, Counted
    <3>2. vuDone \/ samples'["writes"] = samples["writes"]
      BY <2>0
    <3> QED
      BY <3>1, <3>2, <1>E
  <2> QED
    BY <2>1, <2>2, <2>3, <2>4, <2>5, <2>6, <2>7, <2>8
<1>6. CASE WriteFails(w)
  <2>0. /\ pc[w] = "inWrite"
        /\ result' = [result EXCEPT ![w] = TRUE] /\ pc' = [pc EXCEPT ![w] = "count"]
        /\ taken' = [taken EXCEPT ![w] = {}]
        /\ UNCHANGED <<linkVars, wire, size, local, written, totalWritten, samples, promise>>
    BY <1>6 DEF WriteFails, Returned, Break
  <2>K. /\ Taken(w)' = 0 /\ \A v \in Writes \ {w} : Taken(v)' = Taken(v)
        /\ Cardinality(Given') = Cardinality(Given) + Taken(w)
    BY <2>0, <1>R
  <2>1. TypeOK'
    BY <1>W, <2>0 DEF TypeOK, Labels
  <2>2. LocalInv'
    BY <2>0, SMTT(30) DEF TypeOK, LocalInv
  <2>3. PromiseInv'
    BY <2>0 DEF TypeOK, PromiseInv
  <2>4. SentInv'
    BY <1>W, <1>N, <2>0, <2>K, SMTT(30) DEF TypeOK, SentInv
  <2>5. TakenInv'
    BY <1>W, <2>0 DEF TypeOK, TakenInv
  <2>6. TotalInv'
    BY <1>N, <2>0, <2>K DEF TypeOK, TotalInv
  <2>7. PieceInv'
    <3>1. \A v \in Writes : BytesOf(v) # {} => local'[v] = local[v]
      BY <2>0 DEF TypeOK, SentInv
    <3>2. (Contiguous => Contiguous') /\ \A v \in Writes : AtEnd(v) => AtEnd(v)'
      BY <3>1, <1>C
    <3> QED
      BY <1>W, <1>N, <2>0, <3>2 DEF TypeOK, SentInv, PieceInv
  <2>8. CountedInv'
    <3>1. Counted' = Counted
      BY <2>0 DEF TypeOK, Counted
    <3>2. vuDone \/ samples'["writes"] = samples["writes"]
      BY <2>0
    <3> QED
      BY <3>1, <3>2, <1>E
  <2> QED
    BY <2>1, <2>2, <2>3, <2>4, <2>5, <2>6, <2>7, <2>8
<1>7. CASE Count(w)
  <2>0. /\ pc[w] = "count" /\ pc' = [pc EXCEPT ![w] = "settle"]
        /\ Push(Counts(w)) /\ "writes" \in Counts(w)
        /\ UNCHANGED <<linkVars, wire, callVars, totalWritten, promise>>
    BY <1>7 DEF Count, Counts
  <2>K. (\A v \in Writes : Taken(v)' = Taken(v)) /\ Given' = Given
    BY <2>0, <1>K
  <2>1. TypeOK'
    BY <1>W, <2>0, <1>P, Pushed DEF TypeOK, Labels
  <2>2. LocalInv'
    BY <2>0, SMTT(30) DEF TypeOK, LocalInv
  <2>3. PromiseInv'
    BY <2>0 DEF TypeOK, PromiseInv
  <2>4. SentInv'
    BY <1>W, <1>N, <2>0, <2>K, SMTT(30) DEF TypeOK, SentInv
  <2>5. TakenInv'
    BY <1>W, <2>0 DEF TypeOK, TakenInv
  <2>6. TotalInv'
    BY <1>N, <2>0, <2>K DEF TypeOK, TotalInv
  <2>7. PieceInv'
    <3>1. \A v \in Writes : BytesOf(v) # {} => local'[v] = local[v]
      BY <2>0 DEF TypeOK, SentInv
    <3>2. (Contiguous => Contiguous') /\ \A v \in Writes : AtEnd(v) => AtEnd(v)'
      BY <3>1, <1>C
    <3> QED
      BY <1>W, <1>N, <2>0, <3>2 DEF TypeOK, SentInv, PieceInv
  <2>8. CountedInv'
    <3>1. Counted' = Counted \cup {w} /\ w \notin Counted
      BY <2>0 DEF TypeOK, LocalInv, Counted
    <3>2. Cardinality(Counted') = Cardinality(Counted) + 1
      BY <1>P, <3>1, FS_AddElement
    <3>3. vuDone \/ samples'["writes"] = samples["writes"] + 1
      BY <1>P, <2>0, Pushed
    <3> QED
      BY <1>W, <1>P, <3>2, <3>3 DEF CountedInv
  <2> QED
    BY <2>1, <2>2, <2>3, <2>4, <2>5, <2>6, <2>7, <2>8
<1>8. CASE SettleWrite(w)
  <2>0. /\ pc[w] = "settle" /\ pc' = [pc EXCEPT ![w] = "done"]
        /\ promise' = [promise EXCEPT ![w] = IF result[w] THEN "rejected" ELSE "resolved"]
        /\ UNCHANGED <<linkVars, wire, callVars, totalWritten, samples>>
    BY <1>8 DEF SettleWrite
  <2>K. (\A v \in Writes : Taken(v)' = Taken(v)) /\ Given' = Given
    BY <2>0, <1>K
  <2>1. TypeOK'
    BY <1>W, <2>0 DEF TypeOK, Labels
  <2>2. LocalInv'
    BY <2>0, SMTT(30) DEF TypeOK, LocalInv
  <2>3. PromiseInv'
    BY <2>0 DEF TypeOK, PromiseInv
  <2>4. SentInv'
    BY <1>W, <1>N, <2>0, <2>K, SMTT(30) DEF TypeOK, SentInv
  <2>5. TakenInv'
    BY <1>W, <2>0 DEF TypeOK, TakenInv
  <2>6. TotalInv'
    BY <1>N, <2>0, <2>K DEF TypeOK, TotalInv
  <2>7. PieceInv'
    <3>1. \A v \in Writes : BytesOf(v) # {} => local'[v] = local[v]
      BY <2>0 DEF TypeOK, SentInv
    <3>2. (Contiguous => Contiguous') /\ \A v \in Writes : AtEnd(v) => AtEnd(v)'
      BY <3>1, <1>C
    <3> QED
      BY <1>W, <1>N, <2>0, <3>2 DEF TypeOK, SentInv, PieceInv
  <2>8. CountedInv'
    <3>1. Counted' = Counted
      BY <2>0 DEF TypeOK, Counted
    <3>2. vuDone \/ samples'["writes"] = samples["writes"]
      BY <2>0
    <3> QED
      BY <3>1, <3>2, <1>E
  <2> QED
    BY <2>1, <2>2, <2>3, <2>4, <2>5, <2>6, <2>7, <2>8
<1> HIDE DEF WriteInv
<1> QED
  BY <1>1, <1>2, <1>3, <1>4, <1>5, <1>6, <1>7, <1>8 DEF WriteStep

(* The connection takes a byte. *)
LEMMA TakeStep ==
    ASSUME WriteInv, NEW w \in Writes, Take(w)
    PROVE  WriteInv'
<1> USE WriteAssumption DEF WriteInv
<1>1. /\ pc[w] = "inWrite" /\ Taken(w) < Left(w)
      /\ wire \in Seq(Writes) /\ Len(wire) \in Nat /\ wire' = Append(wire, w)
      /\ taken' = [taken EXCEPT ![w] = taken[w] \cup {Len(wire) + 1}]
      /\ UNCHANGED <<linkVars, size, local, written, result, totalWritten, samples, promise, pc>>
  BY DEF Take, Rest, TypeOK
<1>2. /\ wire' \in Seq(Writes) /\ Len(wire') = Len(wire) + 1 /\ wire'[Len(wire) + 1] = w
      /\ \A i \in 1..Len(wire) : wire'[i] = wire[i]
      /\ Sent(w)' = Sent(w) + 1
      /\ \A v \in Writes \ {w} : BytesOf(v)' = BytesOf(v) /\ Sent(v)' = Sent(v)
  BY <1>1, ByteTaken
<1>3. /\ taken'[w] = taken[w] \cup {Len(wire) + 1}
      /\ \A v \in Writes \ {w} : taken'[v] = taken[v]
      /\ \A v \in Writes : taken[v] \subseteq 1..Len(wire)
  BY <1>1 DEF TypeOK, TakenInv, BytesOf
<1>4. /\ Taken(w) \in Nat /\ Taken(w)' = Taken(w) + 1
      /\ \A v \in Writes \ {w} : Taken(v)' = Taken(v)
  <2>1. IsFiniteSet(taken[w]) /\ Taken(w) \in Nat /\ Len(wire) + 1 \notin taken[w]
    BY <1>1, <1>3, TakenFinite DEF TakenInv
  <2>2. Cardinality(taken[w] \cup {Len(wire) + 1}) = Cardinality(taken[w]) + 1
    BY <2>1, FS_AddElement
  <2>3. Taken(w)' = Taken(w) + 1
    BY <1>3, <2>2 DEF Taken
  <2> QED
    BY <1>3, <2>1, <2>3 DEF Taken
<1>5. TypeOK'
  <2>1. taken' \in [Writes -> SUBSET Nat]
    BY <1>1 DEF TypeOK
  <2> QED
    BY <1>1, <1>2, <2>1 DEF TypeOK, linkVars
<1>6. LocalInv' /\ PromiseInv'
  BY <1>1 DEF LocalInv, PromiseInv
<1>7. SentInv'
  <2>1. size[w] \in Nat /\ written[w] \in Nat
    BY DEF TypeOK
  <2> QED
    BY <1>1, <1>2, <1>4, <2>1 DEF TypeOK, SentInv, Left
<1>8. TakenInv'
  <2>1. taken'[w] \subseteq BytesOf(w)'
    BY <1>1, <1>2, <1>3 DEF TakenInv, BytesOf
  <2> QED
    BY <1>1, <1>2, <1>3, <2>1 DEF TakenInv
<1>9. TotalInv'
  <2>1. ASSUME NEW i PROVE i \in Given' <=> i \in Given
    <3>0. \A v \in Writes : i \in taken'[v] <=> i \in taken[v] \/ (v = w /\ i = Len(wire) + 1)
      BY <1>3
    <3>1. i \in Given' <=> i \in 1..(Len(wire) + 1) /\ \A v \in Writes : i \notin taken'[v]
      BY <1>2 DEF Given
    <3>2. i \in Given <=> i \in 1..Len(wire) /\ \A v \in Writes : i \notin taken[v]
      BY DEF Given
    <3>3. i \in 1..(Len(wire) + 1) <=> i \in 1..Len(wire) \/ i = Len(wire) + 1
      BY <1>1
    <3>4. Len(wire) + 1 \notin 1..Len(wire)
      BY <1>1
    <3> QED
      BY <3>0, <3>1, <3>2, <3>3, <3>4, Zenon
  <2>2. Given' = Given
    BY <2>1, Zenon
  <2> QED
    BY <1>1, <2>2 DEF TotalInv
<1>10. PieceInv'
  <2> SUFFICES ASSUME ~fragments
               PROVE  /\ Contiguous'
                      /\ \A v \in Writes :
                            /\ pc'[v] \in {"none", "snapshot", "write"} => BytesOf(v)' = {}
                            /\ pc'[v] \in {"write", "inWrite"} => written'[v] = 0
                            /\ pc'[v] = "inWrite" => AtEnd(v)'
    BY <1>1 DEF PieceInv, Contiguous, linkVars
  <2>0. /\ \A i \in 1..Len(wire') : i \in 1..Len(wire) \/ i = Len(wire) + 1
        /\ \A i \in 1..Len(wire), j \in 1..Len(wire') : j < i => j \in 1..Len(wire)
        /\ \A i \in 1..Len(wire') : i < Len(wire) + 1 => i \in 1..Len(wire)
        /\ \A i \in 1..Len(wire') : ~(Len(wire) + 1 < i)
        /\ \A i \in 1..Len(wire) : wire[i] \in Writes
        /\ local' = local
    BY <1>1, <1>2
  <2>1. \A i \in 1..Len(wire), j \in 1..Len(wire) :
           wire[i] = w /\ i < j /\ local[wire[j]] = local[w] => wire[j] = w
    BY <1>1 DEF PieceInv, AtEnd, BytesOf
  <2>2. Contiguous'
    <3> SUFFICES ASSUME NEW v \in Writes, NEW i \in 1..Len(wire'), NEW j \in 1..Len(wire'),
                        NEW k \in 1..Len(wire'), i < j, j < k, wire'[i] = v, wire'[k] = v,
                        local[wire'[j]] = local[v]
                 PROVE  wire'[j] = v
      BY <2>0 DEF Contiguous
    <3>1. /\ i \in 1..Len(wire) /\ j \in 1..Len(wire)
          /\ wire[i] = v /\ wire'[j] = wire[j] /\ local[wire[j]] = local[v]
      BY <1>1, <1>2
    <3>2. CASE k \in 1..Len(wire)
      <4>1. wire[k] = v
        BY <1>2, <3>2
      <4> QED
        BY <3>1, <3>2, <4>1 DEF PieceInv, Contiguous
    <3>3. CASE k = Len(wire) + 1
      BY <1>2, <2>1, <3>1, <3>3
    <3> QED
      BY <2>0, <3>2, <3>3
  <2>3. AtEnd(w)'
    <3> SUFFICES ASSUME NEW i \in 1..Len(wire'), NEW j \in 1..Len(wire'), wire'[i] = w, i < j,
                        local[wire'[j]] = local[w]
                 PROVE  wire'[j] = w
      BY <2>0 DEF AtEnd, BytesOf
    <3>1. i \in 1..Len(wire) /\ wire[i] = w
      BY <1>2, <2>0
    <3>2. CASE j = Len(wire) + 1
      BY <1>2, <3>2
    <3>3. CASE j \in 1..Len(wire)
      BY <1>2, <2>1, <3>1, <3>3
    <3> QED
      BY <2>0, <3>2, <3>3
  <2>4. ASSUME NEW v \in Writes \ {w}, pc[v] = "inWrite"
        PROVE  AtEnd(v)'
    <3>1. local[v] # local[w]
      BY <1>1, <2>4 DEF LocalInv
    <3> SUFFICES ASSUME NEW i \in 1..Len(wire'), NEW j \in 1..Len(wire'), wire'[i] = v, i < j,
                        local[wire'[j]] = local[v]
                 PROVE  wire'[j] = v
      BY <2>0 DEF AtEnd, BytesOf
    <3>2. i \in 1..Len(wire) /\ wire[i] = v
      BY <1>2, <2>0
    <3>3. CASE j = Len(wire) + 1
      BY <1>2, <3>1, <3>3
    <3>4. CASE j \in 1..Len(wire)
      BY <1>2, <2>4, <3>2, <3>4 DEF PieceInv, AtEnd, BytesOf
    <3> QED
      BY <2>0, <3>3, <3>4
  <2>5. ASSUME NEW v \in Writes
        PROVE  /\ pc'[v] \in {"none", "snapshot", "write"} => BytesOf(v)' = {}
               /\ pc'[v] \in {"write", "inWrite"} => written'[v] = 0
    BY <1>1, <1>2 DEF PieceInv
  <2>6. pc' = pc
    BY <1>1
  <2> QED
    BY <2>2, <2>3, <2>4, <2>5, <2>6
<1>11. CountedInv'
  BY <1>1 DEF CountedInv, Counted, linkVars
<1> QED
  BY <1>5, <1>6, <1>7, <1>8, <1>9, <1>10, <1>11

(* The inductive invariant, in every interleaving of the calls, destroy(), *)
(* the network and the end of the VU.                                      *)
THEOREM WriteInvariant == Spec => []WriteInv
<1>1. Init => WriteInv
  <2> SUFFICES ASSUME Init PROVE WriteInv
    OBVIOUS
  <2> USE WriteAssumption
  <2>1. TypeOK
    <3>1. fragments \in BOOLEAN /\ destroyed \in BOOLEAN /\ vuDone \in BOOLEAN
      BY Zenon DEF Init
    <3> QED
      BY <3>1 DEF Init, TypeOK, Labels
  <2>2. \A w \in Writes : BytesOf(w) = {}
    BY DEF Init, BytesOf
  <2>3. LocalInv /\ PromiseInv /\ TakenInv
    BY DEF Init, LocalInv, PromiseInv, TakenInv
  <2>4. SentInv
    BY <2>2 DEF Init, SentInv
  <2>5. TotalInv
    <3>1. wire \in Seq(Writes)
      BY DEF Init
    <3> QED
      BY <3>1, GivenFinite DEF Init, TotalInv
  <2>6. PieceInv
    BY <2>2 DEF Init, PieceInv, Contiguous
  <2>7. CountedInv
    <3>1. Counted = {} /\ samples["writes"] = 0
      BY DEF Init, Counted, Metrics
    <3> QED
      BY <3>1, FS_EmptySet DEF CountedInv
  <2> QED
    BY <2>1, <2>3, <2>4, <2>5, <2>6, <2>7 DEF WriteInv
<1>2. WriteInv /\ [Next]_vars => WriteInv'
  <2> SUFFICES ASSUME WriteInv, [Next]_vars PROVE WriteInv'
    OBVIOUS
  <2>1. ASSUME \/ \E c \in Conns : Connect(c) \/ LinkBreaks(c)
               \/ Teardown \/ CloseConn \/ VuStops \/ UNCHANGED vars
        PROVE  WriteInv'
    <3>0. /\ destroyed \in BOOLEAN /\ vuDone \in BOOLEAN
          /\ conn \in Conns \cup {None} /\ closing \in Conns \cup {None}
          /\ link \in [Conns -> {"none", "up", "broken", "closed"}]
      BY DEF WriteInv, TypeOK
    <3>1. destroyed' \in BOOLEAN /\ vuDone' \in BOOLEAN /\ (vuDone => vuDone')
      BY <2>1, <3>0, Zenon DEF Connect, LinkBreaks, Teardown, CloseConn, VuStops, vars, linkVars
    <3>2. /\ conn' \in Conns \cup {None} /\ closing' \in Conns \cup {None}
          /\ link' \in [Conns -> {"none", "up", "broken", "closed"}]
      BY <2>1, <3>0 DEF Connect, LinkBreaks, Teardown, CloseConn, VuStops, vars, linkVars
    <3>3. UNCHANGED <<fragments, wire, callVars, totalWritten, samples, promise, pc>>
      BY <2>1 DEF Connect, LinkBreaks, Teardown, CloseConn, VuStops, vars, linkVars
    <3> QED
      BY <3>1, <3>2, <3>3, SurroundingsKeep
  <2>2. ASSUME NEW w \in Writes, JsWrite(w) \/ WriteStep(w) PROVE WriteInv'
    BY <2>2, CallStep
  <2>3. ASSUME NEW w \in Writes, Take(w) PROVE WriteInv'
    BY <2>3, TakeStep
  <2> QED
    BY <2>1, <2>2, <2>3 DEF Next
<1> QED
  BY <1>1, <1>2, PTL DEF Spec

(* Every variable of the write path keeps its type. *)
THEOREM WriteTypeCorrect == Spec => []TypeOK
<1>1. WriteInv => TypeOK
  BY DEF WriteInv
<1> QED
  BY <1>1, WriteInvariant, PTL

(* When writeExecute() reports no error, the connection has taken the      *)
(* payload, every byte once, however often the loop went round.            *)
THEOREM ResolvedWritesAreWhole == Spec => []ResolvedIsWhole
<1>1. ASSUME WriteInv PROVE ResolvedIsWhole
  <2> SUFFICES ASSUME NEW w \in Writes, promise[w] = "resolved" PROVE Sent(w) = size[w]
    BY DEF ResolvedIsWhole, Sent
  <2>1. pc[w] = "done" /\ ~result[w]
    BY <1>1 DEF WriteInv, TypeOK, Labels, PromiseInv
  <2> QED
    BY <1>1, <2>1 DEF WriteInv, SentInv
<1> QED
  BY <1>1, WriteInvariant, PTL

(* bytes_written never counts a byte that the connection has not taken,    *)
(* whichever calls fail in the middle.                                     *)
THEOREM OnlySentIsCounted == Spec => []CountsOnlySent
<1>1. ASSUME WriteInv PROVE CountsOnlySent
  <2>1. wire \in Seq(Writes) /\ Len(wire) \in Nat /\ totalWritten \in Nat
    BY <1>1 DEF WriteInv, TypeOK
  <2>2. Given \in SUBSET (1..Len(wire)) /\ Cardinality(Given) \in Nat
    BY <2>1, GivenFinite DEF Given
  <2>3. IsFiniteSet(1..Len(wire)) /\ Cardinality(1..Len(wire)) = Len(wire)
    BY <2>1, FS_Interval, SMTT(30)
  <2>4. Cardinality(Given) <= Len(wire)
    BY <2>2, <2>3, FS_Subset
  <2>5. totalWritten <= Cardinality(Given)
    BY <1>1 DEF WriteInv, TotalInv
  <2> QED
    BY <2>1, <2>2, <2>4, <2>5 DEF CountsOnlySent
<1> QED
  BY <1>1, WriteInvariant, PTL

(* On a net.Conn that keeps its contract, writeExecute()'s goroutines do   *)
(* not mix their payloads, also when connect() replaces the connection.    *)
THEOREM PayloadsDoNotMix == Spec => []Contiguous
<1>1. WriteInv => Contiguous
  BY DEF WriteInv, PieceInv
<1> QED
  BY <1>1, WriteInvariant, PTL

(* tcp_writes counts each call of write() that had a connection once, and  *)
(* no other, until the VU ends.                                            *)
THEOREM EveryWriteIsCounted == Spec => []WritesCounted
<1>1. WriteInv => WritesCounted
  BY DEF WriteInv, CountedInv, Counted, WritesCounted
<1> QED
  BY <1>1, WriteInvariant, PTL

(* No goroutine of write() sends a byte after it has settled its promise.  *)
THEOREM SettledWritesAreSilent == Spec => SettledIsSilent
<1> DEFINE Silent == \A w \in Writes :
                        promise[w] \in {"resolved", "rejected"} => BytesOf(w)' = BytesOf(w)
<1>1. ASSUME WriteInv, [Next]_vars PROVE Silent
  <2>1. CASE UNCHANGED wire
    BY <2>1, WireUnchanged
  <2>2. ASSUME NEW w \in Writes, Take(w) PROVE Silent
    <3>1. promise[w] = "pending" /\ wire \in Seq(Writes) /\ wire' = Append(wire, w)
      BY <1>1, <2>2 DEF Take, WriteInv, TypeOK, PromiseInv
    <3> QED
      BY <3>1, ByteTaken
  <2> QED
    BY <1>1, <2>1, <2>2 DEF Next, vars, Connect, LinkBreaks, Teardown, CloseConn, VuStops, JsWrite,
       WriteStep, Snapshot, CallWrite, WriteReturns, WriteReturnsShort, WriteFails, Count, SettleWrite
<1>2. WriteInv /\ [Next]_vars => [Silent]_vars
  BY <1>1
<1> QED
  BY <1>2, WriteInvariant, PTL DEF Spec, SettledIsSilent
=============================================================================
