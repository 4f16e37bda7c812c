---------------------------- MODULE MCSocketTags ----------------------------
(* The instances of Socket, with tags. *)
EXTENDS SocketTags, MCSocket

(* The socket has a tag that the calls override, and one of its own; a     *)
(* call also has one with a name that connect() gives a meaning.           *)
MCVuTags    == [scenario |-> "vu"]
MCOwnTags   == [env |-> "socket", team |-> "socket"]
MCCallTags  == [c \in Connects |-> [env |-> c, host |-> "call"]]
MCWriteTags == [r \in Invalid |-> [env |-> "write"]]
=============================================================================
