----------------------------- MODULE Lifecycle -----------------------------
(***************************************************************************)
(* What a Socket promises its user: the state diagram of                   *)
(* docs/architecture.md with the two things a user observes next to the    *)
(* state, the connections the socket keeps open and its close event.       *)
(* There are no goroutines, locks or callbacks here.  Socket implements    *)
(* this specification for scripts that are careful.                        *)
(***************************************************************************)
EXTENDS Naturals

CONSTANT Connects   \* the attempts to connect, each with its connection

VARIABLES
    state,      \* ready_state
    live,       \* the connections that are open on this side
    announced   \* the close event was emitted

vars == <<state, live, announced>>

Init ==
    /\ state = "disconnected"
    /\ live = {}
    /\ announced = FALSE

Connect ==
    /\ state = "disconnected"
    /\ state' = "opening"
    /\ UNCHANGED <<live, announced>>

Dial(c) ==
    /\ state = "opening"
    /\ live = {}
    /\ live' = {c}
    /\ UNCHANGED <<state, announced>>

Established ==
    /\ state = "opening"
    /\ live # {}
    /\ state' = "open"
    /\ UNCHANGED <<live, announced>>

(* A failed attempt closes what it has dialled, and may be followed by     *)
(* another one.                                                            *)
ConnectFails ==
    /\ state = "opening"
    /\ state' = "disconnected"
    /\ live' = {}
    /\ UNCHANGED announced

(* destroy(), or the end of the read loop *)
Destroy ==
    /\ state \in {"disconnected", "opening", "open"}
    /\ state' = "destroyed"
    /\ UNCHANGED <<live, announced>>

Release ==
    /\ state = "destroyed"
    /\ live # {}
    /\ live' = {}
    /\ UNCHANGED <<state, announced>>

(* The close event comes once, and only when the connection is closed. *)
Close ==
    /\ state = "destroyed"
    /\ live = {}
    /\ ~announced
    /\ announced' = TRUE
    /\ UNCHANGED <<state, live>>

Next ==
    \/ Connect
    \/ \E c \in Connects : Dial(c)
    \/ Established
    \/ ConnectFails
    \/ Destroy
    \/ Release
    \/ Close

(* An attempt to connect ends, and a destroyed socket lets go of its       *)
(* connection.  Whether there is a close event is up to the handlers.      *)
Fairness == WF_vars(Established \/ ConnectFails) /\ WF_vars(Release)

Spec     == Init /\ [][Next]_vars
FairSpec == Spec /\ Fairness
=============================================================================
