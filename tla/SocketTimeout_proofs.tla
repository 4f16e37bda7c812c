------------------------ MODULE SocketTimeout_proofs ------------------------
(* Proofs about SocketTimeout, for any timeouts, any timing and any width  *)
(* of a Duration.                                                          *)
EXTENDS SocketTimeout, TLAPS

(* A remainder is below its divisor, and what is below it is its own. *)
LEMMA Remainder ==
    ASSUME NEW a \in Int, NEW n \in Nat \ {0}
    PROVE  /\ a % n \in 0..(n - 1)
           /\ a \in 0..(n - 1) => a % n = a
  OBVIOUS

(* A product of milliseconds is a number of ticks, and positive if they are. *)
LEMMA Ticks ==
    ASSUME NEW ms \in Int
    PROVE  /\ ms * Millisecond \in Int
           /\ ms > 0 => ms * Millisecond > 0
  BY TimeoutAssumption

(* A request becomes a Duration, and stays what it is when it fits one. *)
LEMMA Fits ==
    ASSUME NEW ms \in Int
    PROVE  /\ Duration(ms) \in Durations
           /\ ms * Millisecond \in Durations => Duration(ms) = ms * Millisecond
<1> DEFINE d == ms * Millisecond
           n == 2 * Half
<1>1. d \in Int /\ n \in Nat \ {0} /\ Half \in Nat \ {0}
  BY Ticks, TimeoutAssumption
<1>2. Duration(ms) = ((d + Half) % n) - Half
  BY DEF Duration
<1> HIDE DEF d, n
<1>3. n = 2 * Half
  BY DEF n
<1>4. /\ (d + Half) % n \in 0..(n - 1)
      /\ d + Half \in 0..(n - 1) => (d + Half) % n = d + Half
  <2>1. d + Half \in Int
    BY <1>1
  <2> QED
    BY <1>1, <2>1, Remainder, Zenon
<1>5. Duration(ms) \in Durations /\ (d \in Durations => Duration(ms) = d)
  BY <1>1, <1>2, <1>3, <1>4 DEF Durations
<1> QED
  BY <1>5 DEF d

(* Every step keeps the types, the requests and the account of the pending *)
(* read.                                                                   *)
TimeoutInv == TypeOK /\ StoredAsAsked /\ DeadlineInv

LEMMA TimeoutStep ==
    ASSUME TimeoutInv, [Next]_vars
    PROVE  TimeoutInv'
<1> USE TimeoutAssumption
    DEF TimeoutInv, TypeOK, StoredAsAsked, DeadlineInv, Covers, Labels, Unset, Durations
<1>1. ASSUME NEW ms \in Requests, SetTimeout(ms) PROVE TimeoutInv'
  <2> DEFINE d == ms * Millisecond
             stored == Duration(ms)
  <2>1. /\ d \in Int /\ stored \in Durations
        /\ ms > 0 => d > 0
        /\ d \in Durations => stored = d
    BY Ticks, Fits
  <2>2. /\ timeout' = IF ms <= 0 THEN 0 ELSE stored
        /\ asked' = IF ms <= 0 THEN 0 ELSE d
    BY <1>1 DEF SetTimeout
  <2> HIDE DEF d, stored
  <2>3. ms \in Int
    OBVIOUS
  <2>4. /\ timeout' \in Durations /\ asked' \in Nat
        /\ asked' < Half => timeout' = asked'
    BY <2>1, <2>2, <2>3
  <2>5. /\ requests' = requests + 1 /\ requests < MaxRequests
        /\ UpdateDeadline /\ UNCHANGED <<conn, snapshot, pc>>
        /\ raced' <=> pc = "arm" /\ snapshot > 0
    BY <1>1 DEF SetTimeout
  <2>6. raced' \in BOOLEAN
    BY <1>1, Zenon DEF SetTimeout
  <2> QED
    BY <2>4, <2>5, <2>6 DEF UpdateDeadline, DeadlineFor
<1>2. ASSUME Connect PROVE TimeoutInv'
  BY <1>2 DEF Connect, DeadlineFor
<1>3. ASSUME Destroy PROVE TimeoutInv'
  BY <1>3 DEF Destroy
<1>4. ASSUME Tick PROVE TimeoutInv'
  BY <1>4 DEF Tick
<1>5. ASSUME Snapshot PROVE TimeoutInv'
  <2>1. raced' \in BOOLEAN
    BY <1>5, Zenon DEF Snapshot
  <2> QED
    BY <1>5, <2>1 DEF Snapshot
<1>6. ASSUME Arm PROVE TimeoutInv'
  BY <1>6 DEF Arm, TimeoutSet
<1>7. ASSUME ReadData \/ ReadTimesOut \/ ReadEnds \/ Fired
      PROVE  TimeoutInv'
  BY <1>7 DEF ReadData, ReadTimesOut, ReadEnds, Fired
<1>8. ASSUME UNCHANGED vars PROVE TimeoutInv'
  BY <1>8 DEF vars
<1> QED
  BY <1>1, <1>2, <1>3, <1>4, <1>5, <1>6, <1>7, <1>8 DEF Next

(* The types, the stored timeout and the account of the pending read hold  *)
(* throughout: TypeOK and StoredAsAsked among them.                        *)
THEOREM TimeoutInvariant == Spec => [](TypeOK /\ StoredAsAsked /\ DeadlineInv)
<1>1. Init => TimeoutInv
  <2>1. Init => raced \in BOOLEAN
    BY Zenon DEF Init
  <2> QED
    BY <2>1, TimeoutAssumption
    DEF Init, TimeoutInv, TypeOK, StoredAsAsked, DeadlineInv, Labels, Unset, Durations
<1>2. TimeoutInv /\ [Next]_vars => TimeoutInv'
  BY TimeoutStep
<1>3. TimeoutInv => TypeOK /\ StoredAsAsked /\ DeadlineInv
  BY DEF TimeoutInv
<1> QED
  BY <1>1, <1>2, <1>3, PTL DEF Spec

(* Every variable keeps its type: what setTimeout() stores is a Duration,  *)
(* whatever number the script asks for.                                    *)
THEOREM TimeoutTypeCorrect == Spec => []TypeOK
  BY TimeoutInvariant, PTL

(* Whatever the script sets, a timeout that fits a Duration is reported    *)
(* only to a socket that was idle for it, unless the setTimeout() that     *)
(* asked for it came between the copy in read() and the SetReadDeadline()  *)
(* of readLoopStep().                                                      *)
THEOREM NeverEarly == Spec => NotEarly
<1>1. TypeOK /\ StoredAsAsked /\ DeadlineInv /\ [Next]_vars
        => [ReadTimesOut /\ asked \in 1..(Half - 1) /\ ~raced => idle >= asked]_vars
  BY TimeoutAssumption
  DEF TypeOK, StoredAsAsked, DeadlineInv, Covers, ReadTimesOut, Unset, Durations
<1> QED
  BY TimeoutInvariant, <1>1, PTL DEF Spec, NotEarly
=============================================================================
