--------------------------- MODULE SocketContract ---------------------------
(* What a script can see of a Socket, next to the contract it implements   *)
(* for careful scripts: its state, the connections it keeps open, and      *)
(* whether its close event was emitted.                                    *)
EXTENDS Socket

Abstract == INSTANCE Lifecycle WITH announced <- CloseQueued
=============================================================================
