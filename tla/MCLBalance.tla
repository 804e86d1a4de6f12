----------------------------- MODULE MCLBalance -----------------------------
(***************************************************************************)
(* A directory and a file in three leaves of a tree with 32-byte blocks.   *)
(* The directory holds ".", ".." and one name in one item; the file has    *)
(* stat data, an indirect item mapping two blocks and a three-byte direct  *)
(* tail.  The sizes keep the ratios of the real format small enough that   *)
(* every item fits with another in a block and most moves must split.     *)
(***************************************************************************)
EXTENDS LBalance

CONSTANTS d, f

\* A directory item's entries [h, rec] with the deh_locations the format
\* gives them.
MCDirBody(es) ==
    [k \in DOMAIN es |-> [h |-> es[k].h, rec |-> es[k].rec,
        loc |-> DEH * Len(es) + MapThenSumSet(LAMBDA j : es[j].rec, k + 1 .. Len(es))]]

MCItem(o, off, type, len, body) ==
    [key |-> [obj |-> o, off |-> off, type |-> type], len |-> len, loc |-> 0, body |-> body]

MCInitItems ==
    LET es == <<[h |-> 1, rec |-> 1], [h |-> 2, rec |-> 2], [h |-> 5, rec |-> 1]>> IN
    << MCItem(d, 0, "sd", SDLen, <<>>),
       MCItem(d, DOT, "dir", DEH * 3 + 4, MCDirBody(es)),
       MCItem(f, 0, "sd", SDLen, <<>>),
       MCItem(f, 1, "indirect", 2 * UNFM, <<0, 1>>),
       MCItem(f, 2 * BSize + 1, "direct", 3, [k \in 1 .. 3 |-> 2 * BSize + k]) >>

MCNewNames == {[h |-> 3, rec |-> 1], [h |-> 4, rec |-> 2], [h |-> 7, rec |-> 1]}
=============================================================================
