----------------------------- MODULE MCRpcPipe -----------------------------
(* Model-checking instances of RpcPipe: two or three files opened on the   *)
(* pipe and two upcall messages, one of one byte and one of two bytes, so  *)
(* that a message can be read in two parts.                                *)
EXTENDS RpcPipe

CONSTANTS f1, f2, f3, m1, m2

MCFiles2 == {f1, f2}
MCFiles3 == {f1, f2, f3}
MCMsgs == {m1, m2}
MCMsgLen == [m \in MCMsgs |-> IF m = m1 THEN 1 ELSE 2]
=============================================================================
