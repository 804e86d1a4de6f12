----------------------------- MODULE MCFilePage -----------------------------
(***************************************************************************)
(* A file of one 4-byte page of two 2-byte blocks.  At the start it is 3   *)
(* bytes long: block 0 is a hole and block 1 holds 1 and the zero past the *)
(* end; the disk under the hole holds stale bytes.                         *)
(***************************************************************************)
EXTENDS FilePage

MCInitMap == [b \in Blocks |-> b = 1]
MCInitDisk == [i \in Bytes |-> CASE BlockOf(i) = 0 -> Junk
                                 [] i = 2 -> 1
                                 [] OTHER -> 0]
=============================================================================
