------------------------------ MODULE FileData ------------------------------
(***************************************************************************)
(* What a regular file promises to read(2): a length and a byte at every   *)
(* position below it.  A write stores its bytes and extends the length if  *)
(* it ends beyond it; setting the length (truncate, or the expanding       *)
(* truncate of setattr) drops the bytes beyond the new length, and every   *)
(* byte beyond the length reads as zero, so a later extension, by a write  *)
(* past the end or by truncate, shows zeros in the gap.  FilePage, the     *)
(* page cache and block mapping of fs/buffer.c, implements this            *)
(* specification under the refinement mapping defined there.              *)
(***************************************************************************)
EXTENDS Naturals

CONSTANTS MaxSize,   \* the largest length considered
          Vals,      \* the byte values a user writes
          Size0,     \* the length of the file at the start
          Data0      \* its bytes at the start, zero from Size0 on

VARIABLES data, size

Pos == 0 .. MaxSize - 1

Init == size = Size0 /\ data = Data0

\* write(2) of the bytes [from, to), all of value v.
Write(from, to, v) ==
    /\ data' = [i \in Pos |-> IF from <= i /\ i < to THEN v ELSE data[i]]
    /\ size' = IF to > size THEN to ELSE size

\* truncate(2) or an expanding setattr to length n.
SetSize(n) ==
    /\ size' = n
    /\ data' = [i \in Pos |-> IF i < n THEN data[i] ELSE 0]

Next ==
    \/ \E from, to \in 0 .. MaxSize, v \in Vals : from < to /\ Write(from, to, v)
    \/ \E n \in 0 .. MaxSize : SetSize(n)

Spec == Init /\ [][Next]_<<data, size>>

=============================================================================
