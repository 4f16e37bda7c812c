---------------------------- MODULE MCSocketRead ----------------------------
(* A small instance of SocketRead: which buffer the pool gives out does    *)
(* not matter.                                                             *)
EXTENDS SocketRead, TLC

BufferSymmetry == Permutations(Buffers)
=============================================================================
