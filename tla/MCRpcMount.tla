----------------------------- MODULE MCRpcMount -----------------------------
(* Model-checking instances of RpcMount: two threads creating and removing *)
(* their client directories.                                               *)
EXTENDS RpcMount, TLC

CONSTANTS t1, t2

MCThreads == {t1, t2}
Perms == Permutations(MCThreads)
=============================================================================
