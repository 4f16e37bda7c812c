------------------------------ MODULE MCSocket ------------------------------
(* Small instances of Socket for TLC. *)
EXTENDS SocketContract, TLC

(* Which connect call is which does not matter: all of them ask for TLS.   *)
ConnectSymmetry == Permutations(Connects)

(* Seen through its state, its open connections and its close event, the   *)
(* socket follows the state diagram: connect() opens a connection of a     *)
(* disconnected socket, a failed attempt leaves nothing open, destroyed is *)
(* final, close is emitted once, after the connection was closed; and      *)
(* every attempt to connect ends, and a destroyed socket closes its        *)
(* connection in the end.                                                  *)
FairContract == Abstract!FairSpec
=============================================================================
