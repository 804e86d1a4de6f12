--------------------------- MODULE MCBufferCache ---------------------------
(* Model-checking instances of BufferCache: two threads (two CPUs) and a  *)
(* blockdev page of two buffers, with the threads' roles chosen per run.  *)
EXTENDS BufferCache

CONSTANTS t1, t2

MCThreads == {t1, t2}
=============================================================================
