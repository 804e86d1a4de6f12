------------------------------ MODULE MCNoMmu ------------------------------
(* Model-checking instances of NoMmu: two processes and one regular file.  *)
EXTENDS NoMmu
CONSTANTS p1, p2, f1
MCProcs == {p1, p2}
MCFiles == {f1}
=============================================================================
