--------------------------- MODULE SocketTimeout ---------------------------
(***************************************************************************)
(* The idle timeout of a Socket: setTimeout() on the VU's event loop       *)
(* against the deadline that the read goroutine re-arms for every read.    *)
(* Time is counted in ticks, a deadline by the ticks that are left.  A     *)
(* Duration is a signed number of ticks that wraps around, as the int64 of *)
(* nanoseconds does.  One connection, whose lifecycle is the business of   *)
(* module Socket.                                                          *)
(***************************************************************************)
EXTENDS Integers

CONSTANTS
    Requests,     \* what the script calls setTimeout() with, in milliseconds
    Millisecond,  \* time.Millisecond, in ticks
    Half,         \* a Duration is in -Half..(Half - 1): 2^63 in the code
    MaxRequests   \* bound: calls of setTimeout()

ASSUME TimeoutAssumption ==
    /\ Requests \subseteq Int
    /\ Millisecond \in Nat \ {0}
    /\ Half \in Nat \ {0}
    /\ MaxRequests \in Nat

VARIABLES
    timeout,    \* s.timeout
    asked,      \* the ticks the last setTimeout() asked for, 0 for none
    requests,   \* calls of setTimeout() so far
    conn,       \* "nil" before connect(), "open", "closed" by destroy()
    deadline,   \* ticks until the read deadline, or Unset
    idle,       \* ticks since data came or a deadline was set by the script
    snapshot,   \* read()'s local variable timeout
    raced,      \* history: setTimeout() came between the copy of a timeout in
                \* read() and SetReadDeadline(), which undoes what it did
    pc          \* the read goroutine

vars == <<timeout, asked, requests, conn, deadline, idle, snapshot, raced, pc>>

Unset == -1

(* At "data" and "timeout" the goroutine is inside fire() for that event. *)
Labels == {"none", "loop", "arm", "read", "data", "timeout", "done"}

Durations == -Half..(Half - 1)

TypeOK ==
    /\ timeout \in Durations
    /\ asked \in Nat
    /\ requests \in 0..MaxRequests
    /\ conn \in {"nil", "open", "closed"}
    /\ deadline \in Unset..Half
    /\ idle \in 0..Half
    /\ snapshot \in Durations
    /\ raced \in BOOLEAN
    /\ pc \in Labels

Init ==
    /\ timeout = 0
    /\ asked = 0
    /\ requests = 0
    /\ conn = "nil"
    /\ deadline = Unset
    /\ idle = 0
    /\ snapshot = 0
    /\ raced = FALSE
    /\ pc = "none"

-----------------------------------------------------------------------------
(* Mutant: the milliseconds are taken for nanoseconds. *)
Unscaled(ms) == ((ms + Half) % (2 * Half)) - Half

(* time.Duration(timeoutMs) * time.Millisecond *)
Duration(ms) == ((ms * Millisecond + Half) % (2 * Half)) - Half

(* Mutant: the deadline of a timeout that is not positive is in the past. *)
DeadlineOf(t) == t

(* The deadline of a timeout, from now on *)
DeadlineFor(t) == IF t > 0 THEN t ELSE Unset

(* Mutant: a pending read keeps the deadline it has. *)
StoreOnly == UNCHANGED <<deadline, idle>>

(* An active connection gets its new deadline at once. *)
UpdateDeadline ==
    IF conn = "open" THEN deadline' = DeadlineFor(timeout') /\ idle' = 0
    ELSE UNCHANGED <<deadline, idle>>

(* setTimeout(), which holds s.mu throughout *)
SetTimeout(ms) ==
    /\ requests < MaxRequests
    /\ requests' = requests + 1
    /\ timeout' = IF ms <= 0 THEN 0 ELSE Duration(ms)
    /\ asked' = IF ms <= 0 THEN 0 ELSE ms * Millisecond
    /\ UpdateDeadline
    /\ raced' = (pc = "arm" /\ snapshot > 0)
    /\ UNCHANGED <<conn, snapshot, pc>>

(* dial() sets the deadline of a timeout that was asked for before, and    *)
(* connectExecute() starts the read goroutine.                             *)
Connect ==
    /\ conn = "nil"
    /\ conn' = "open"
    /\ deadline' = DeadlineFor(timeout)
    /\ idle' = 0
    /\ pc' = "loop"
    /\ UNCHANGED <<timeout, asked, requests, snapshot, raced>>

(* destroy() closes the connection. *)
Destroy ==
    /\ conn = "open"
    /\ conn' = "closed"
    /\ UNCHANGED <<timeout, asked, requests, deadline, idle, snapshot, raced, pc>>

(* Time passes, as far as it matters. *)
Tick ==
    /\ conn = "open"
    /\ deadline > 0 \/ idle < Half
    /\ deadline' = IF deadline > 0 THEN deadline - 1 ELSE deadline
    /\ idle' = IF idle < Half THEN idle + 1 ELSE idle
    /\ UNCHANGED <<timeout, asked, requests, conn, snapshot, raced, pc>>

-----------------------------------------------------------------------------
(* read(): the test of its loop, and the copies under the lock *)
Snapshot ==
    /\ pc = "loop"
    /\ snapshot' = timeout
    /\ raced' = FALSE
    /\ pc' = IF conn = "open" THEN "arm" ELSE "done"
    /\ UNCHANGED <<timeout, asked, requests, conn, deadline, idle>>

(* Mutant: a deadline that is set already is not set again. *)
ArmUnset == snapshot > 0 /\ deadline = Unset

TimeoutSet == snapshot > 0

(* readLoopStep() sets the deadline; on a closed connection that fails,    *)
(* and the error is only logged.                                           *)
Arm ==
    /\ pc = "arm"
    /\ deadline' = IF TimeoutSet /\ conn = "open" THEN snapshot ELSE deadline
    /\ pc' = "read"
    /\ UNCHANGED <<timeout, asked, requests, conn, idle, snapshot, raced>>

(* conn.Read() returns data, which it does only before the deadline. *)
ReadData ==
    /\ pc = "read"
    /\ conn = "open"
    /\ deadline # 0
    /\ idle' = 0
    /\ pc' = "data"
    /\ UNCHANGED <<timeout, asked, requests, conn, deadline, snapshot, raced>>

ReadTimesOut ==
    /\ pc = "read"
    /\ conn = "open"
    /\ deadline = 0
    /\ pc' = "timeout"
    /\ UNCHANGED <<timeout, asked, requests, conn, deadline, idle, snapshot, raced>>

(* conn.Read() fails, because of destroy() or of the peer. *)
ReadEnds ==
    /\ pc = "read"
    /\ pc' = "done"
    /\ UNCHANGED <<timeout, asked, requests, conn, deadline, idle, snapshot, raced>>

(* fire() has returned, and read() goes round; the test of its loop stands *)
(* for the one after the data event too.                                   *)
Fired ==
    /\ pc \in {"data", "timeout"}
    /\ pc' = "loop"
    /\ UNCHANGED <<timeout, asked, requests, conn, deadline, idle, snapshot, raced>>

-----------------------------------------------------------------------------
Reading == Snapshot \/ Arm \/ ReadTimesOut \/ Fired \/ (conn = "closed" /\ ReadEnds)

Next ==
    \/ \E ms \in Requests : SetTimeout(ms)
    \/ Connect \/ Destroy \/ Tick
    \/ Snapshot \/ Arm \/ ReadData \/ ReadTimesOut \/ ReadEnds \/ Fired

Spec == Init /\ [][Next]_vars

(* Time passes, and the read goroutine runs when it can. *)
FairSpec == Spec /\ WF_vars(Tick) /\ WF_vars(Reading)

-----------------------------------------------------------------------------
(* Before a read that is going to set a deadline, its copy is the timeout; *)
(* before one that is not, and while a read is pending, what the clock and *)
(* the deadline have used up and left together is no less than it.         *)
Covers == idle + deadline >= timeout

DeadlineInv ==
    conn = "open" /\ timeout > 0 /\ ~raced =>
        /\ pc = "arm" /\ snapshot > 0 => snapshot = timeout
        /\ pc = "read" \/ (pc = "arm" /\ snapshot <= 0) => deadline = Unset \/ Covers

(* What fits a Duration is stored as it was asked for. *)
StoredAsAsked == asked < Half => timeout = asked

(* A timeout that fits a Duration is reported only after the socket was    *)
(* idle for as long as the last setTimeout() asked, wherever in the read   *)
(* loop that call came, except between the copy of a timeout and the       *)
(* SetReadDeadline() that uses it: then the old timeout is armed.          *)
NotEarly ==
    [][ReadTimesOut /\ asked \in 1..(Half - 1) /\ ~raced => idle >= asked]_vars

(* An idle connection with a timeout reports one, wherever the read        *)
(* goroutine was when the timeout was asked for.                           *)
IdleTimesOut ==
    timeout > 0 /\ conn = "open"
        ~> timeout <= 0 \/ conn = "closed" \/ pc \in {"timeout", "data", "done"}

(* Once the timeout is disabled for good, timeout events come to an end. *)
DisabledGoesQuiet == <>[](timeout = 0) => <>[](pc # "timeout")
=============================================================================
