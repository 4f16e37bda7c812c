--------------------------- MODULE MCSocketWrite ---------------------------
(* Small instances of SocketWrite: payloads of two bytes and of none, and  *)
(* an argument that cannot be prepared.                                    *)
EXTENDS SocketWrite, TLC

CONSTANTS w1, w2

Text(n)  == [type |-> "string", encoding |-> "", accepted |-> {}, size |-> n]
Bytes(n) == [type |-> "ArrayBuffer", encoding |-> "hex", accepted |-> {}, size |-> n]
Url(n)   == [type |-> "string", encoding |-> "base64url", accepted |-> {"url"}, size |-> n]
NotHex   == [type |-> "string", encoding |-> "hex", accepted |-> {"rawurl"}, size |-> 1]

MCArguments == (w1 :> {Text(2), Bytes(0)}) @@ (w2 :> {Url(2), Bytes(0), NotHex})
=============================================================================
