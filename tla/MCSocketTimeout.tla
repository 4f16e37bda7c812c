-------------------------- MODULE MCSocketTimeout --------------------------
(* A small instance of SocketTimeout, with Durations in -8..7: no timeout, *)
(* a negative request, a short and a long one, and two that overflow, to a *)
(* negative and to a positive Duration.                                    *)
EXTENDS SocketTimeout

MCRequests == {-1, 0, 1, 3, 5, 9}
=============================================================================
