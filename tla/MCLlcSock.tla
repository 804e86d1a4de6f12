----------------------------- MODULE MCLlcSock -----------------------------
(* Model-checking instances of LlcSock: two sockets, one sock for an     *)
(* incoming connection and two remote peers.                              *)
EXTENDS LlcSock

CONSTANTS s1, s2, c1, r1, r2

MCSocks == {s1, s2}
MCConns == {c1}
MCPeers == {r1, r2}
=============================================================================
