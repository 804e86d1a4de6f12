------------------------------ MODULE LBalance ------------------------------
(***************************************************************************)
(* Leaf balancing of the reiserfs tree, after fs/reiserfs/lbalance.c.  A   *)
(* leaf is a block of BSize bytes: the block head, then the item heads in  *)
(* key order, then free space, then the item bodies packed from the end of *)
(* the block backwards, so item i's body lies just below item i-1's.  An   *)
(* item head holds the key, ih_item_len and ih_item_location.  A directory *)
(* item's body is an array of entry heads (deh_offset, the name's hash,    *)
(* and deh_location) followed by the names, stored in reverse order.       *)
(*                                                                         *)
(* do_balance (not in this repository) calls these functions on the leaf   *)
(* S[0] of the path, its neighbours L[0] and R[0], and a new node Snew;    *)
(* it runs under the kernel lock, so each call is one step.  A body's      *)
(* bytes are abstracted to what they stand for: a direct item's bytes to   *)
(* their file offsets, an indirect item's pointers to the index of the     *)
(* file block they map, an entry's name to its length.  A memmove inside a *)
(* block moves a body with its head; the model keeps the numbers the code  *)
(* computes: lengths, locations, free space, the parent's dc_size, entry   *)
(* locations and key offsets.  ih_free_space of indirect items and the     *)
(* delimiting keys that replace_key updates in the parents are not kept.   *)
(***************************************************************************)
EXTENDS Integers, Sequences, SequencesExt, FiniteSets, FiniteSetsExt

CONSTANTS BSize,      \* b_size: block size, also the size of an unformatted node
          BLKH,       \* BLKH_SIZE: size of the block head
          IH,         \* IH_SIZE: size of an item head
          DEH,        \* DEH_SIZE: size of a directory entry head
          UNFM,       \* UNFM_P_SIZE: size of an unformatted node pointer
          SDLen,      \* length of a stat-data item
          MaxOff,     \* U32_MAX, the key offset of a directory item with no entry
          Dir,        \* a directory; its keys sort before File's
          File,       \* a regular file
          InitItems,  \* the items of the tree, in key order, before balancing
          NewNames,   \* names a user may add to Dir: [h |-> hash, rec |-> length]
          MaxFileEnd  \* the file grows by appending up to this offset

DOT == 1        \* DOT_OFFSET: the hash of "."; a directory's first item has it
Leaves == {"L", "S", "N", "R"}
TreeOrder == <<"L", "S", "N", "R">>   \* Snew goes between S[0] and R[0]
HasParent(x) == x # "N"               \* Snew's buffer_info has no parent

VARIABLES leaf,     \* each leaf: items, blk_free_space, and its dc_size in the parent
          content   \* what each object holds: the units of the tree that user
                    \* operations have written, in file or hash order

vars == <<leaf, content>>

-----------------------------------------------------------------------------
(* Item heads and bodies.                                                  *)

\* The number of units in an item's body: bytes, pointers or entries.
Units(it) == Len(it.body)

\* The sum of ih_item_len over positions a..b of a sequence of item heads.
SumLen(its, a, b) == MapThenSumSet(LAMBDA i : its[i].len, a .. b)

\* Item positions a..b (1-based) with ih_item_location moved by d.
MoveLocs(its, a, b, d) ==
    [i \in DOMAIN its |-> IF i \in a .. b THEN [its[i] EXCEPT !.loc = @ + d]
                                         ELSE its[i]]

\* The "change locations" loops that lay items out again from location
\* start: item a ends at start and each next one ends where the last began.
Relocate(its, a, start) ==
    [i \in DOMAIN its |-> IF i >= a THEN [its[i] EXCEPT !.loc = start - SumLen(its, a, i)]
                                    ELSE its[i]]

\* Item k of its replaced by it.  (Written as a function constructor: TLC
\* slices an EXCEPT of a constructed sequence wrongly.)
SetItem(its, k, it) == [i \in DOMAIN its |-> IF i = k THEN it ELSE its[i]]

\* The leaf's entry in its parent grows by d (B_N_CHILD(...)->dc_size += d).
Dc(x, lf, d) == IF HasParent(x) THEN lf.dc + d ELSE lf.dc

\* op_is_left_mergeable: the item continues one that may precede it.  A
\* direct item that starts a block, an indirect item that starts the file,
\* a directory's first item (the one holding ".") and stat data do not.
LeftMergeable(key) ==
    CASE key.type = "direct"   -> key.off % BSize # 1
      [] key.type = "indirect" -> key.off # 1
      [] key.type = "dir"      -> key.off # DOT
      [] OTHER                 -> FALSE

\* make_empty_node: no items, all space free, dc_size 0.
MakeEmpty(x, lf) ==
    [lf EXCEPT !.items = <<>>, !.free = BSize - BLKH,
               !.dc = IF HasParent(x) THEN 0 ELSE @]

-----------------------------------------------------------------------------
(* The operations on one buffer.  Positions passed in are the code's       *)
(* 0-based ones; item k of the code is its[k+1].                           *)

\* leaf_insert_into_buf: insert item head ih (with its body) before item
\* "before", and lay out the items from there again.
InsertIntoBuf(x, lf, before, ih) ==
    LET unmoved == IF before = 0 THEN BSize ELSE lf.items[before].loc
        its     == InsertAt(lf.items, before + 1, ih)
    IN  [lf EXCEPT !.items = Relocate(its, before + 1, unmoved),
                   !.free  = @ - (IH + ih.len),
                   !.dc    = Dc(x, lf, IH + ih.len)]

\* leaf_paste_in_buffer: paste size bytes into item a, at its head when
\* pos = 0 and at its end otherwise; for a directory item only the space
\* is made (the entries come with leaf_paste_entries).
PasteInBuffer(x, lf, a, pos, size, pasted) ==
    LET it  == lf.items[a + 1]
        nb  == CASE it.key.type = "dir" -> it.body
                 [] pos = 0             -> pasted \o it.body
                 [] OTHER               -> it.body \o pasted
        its == MoveLocs(lf.items, a + 1, Len(lf.items), -size)
    IN  [lf EXCEPT !.items = SetItem(its, a + 1, [its[a + 1] EXCEPT !.body = nb, !.len = @ + size]),
                   !.free  = @ - size,
                   !.dc    = Dc(x, lf, size)]

\* leaf_cut_entries: remove del entries from entry "from" of a directory
\* item; returns the item and the bytes it lost.  ih_item_len is left to
\* the caller.
CutEntries(it, from, del) ==
    IF del = 0 THEN <<it, 0>>
    ELSE LET e      == it.body
             prev   == IF from = 0 THEN it.len ELSE e[from].loc
             cutRec == prev - e[from + del].loc
             adj(i) == CASE i > from + del -> e[i].loc - DEH * del
                       [] i <= from        -> e[i].loc - (DEH * del + cutRec)
                       [] OTHER            -> e[i].loc
             kept   == [i \in DOMAIN e |-> [e[i] EXCEPT !.loc = adj(i)]]
         IN  <<[it EXCEPT !.body = SubSeq(kept, 1, from) \o SubSeq(kept, from + del + 1, Len(e))],
               DEH * del + cutRec>>

\* leaf_cut_from_buffer: cut entries [pos, pos+size) of a directory item,
\* or size bytes from the head (pos = 0) or the end of another item; a cut
\* from the head moves the key on.
CutFromBuffer(x, lf, c, pos, size) ==
    LET it  == lf.items[c + 1]
        ce  == CutEntries(it, pos, size)
        u   == IF it.key.type = "indirect" THEN size \div UNFM ELSE size
        cut == IF it.key.type = "dir" THEN ce[2] ELSE size
        nit == CASE it.key.type = "dir" /\ pos = 0 /\ ce[1].body # <<>> ->
                        [ce[1] EXCEPT !.key.off = ce[1].body[1].h]
                 [] it.key.type = "dir" -> ce[1]
                 [] pos = 0 ->
                        [it EXCEPT !.body = SubSeq(@, u + 1, Len(@)),
                                   !.key.off = IF it.key.type = "direct" THEN @ + size
                                               ELSE @ + u * BSize]
                 [] OTHER -> [it EXCEPT !.body = SubSeq(@, 1, Len(@) - u)]
        its == MoveLocs(lf.items, c + 1, Len(lf.items), cut)
    IN  [lf EXCEPT !.items = SetItem(its, c + 1, [nit EXCEPT !.len = @ - cut,
                                                             !.loc = its[c + 1].loc]),
                   !.free  = @ + cut,
                   !.dc    = Dc(x, lf, -cut)]

\* Mutant: the freed space does not count the deleted item heads.
DeleteItemsEntirelyHeads(x, lf, first, del) ==
    LET nr == Len(lf.items) IN
    CASE del = 0                    -> lf
      [] first = 0 /\ del = nr      -> MakeEmpty(x, lf)
      [] OTHER ->
           LET j   == IF first = 0 THEN BSize ELSE lf.items[first].loc
               d   == j - lf.items[first + del].loc
               its == SubSeq(lf.items, 1, first) \o SubSeq(lf.items, first + del + 1, nr)
           IN  [lf EXCEPT !.items = MoveLocs(its, first + 1, nr - del, d),
                          !.free  = @ + d,
                          !.dc    = Dc(x, lf, -d)]

\* leaf_delete_items_entirely: delete del items from item first on.
DeleteItemsEntirely(x, lf, first, del) ==
    LET nr == Len(lf.items) IN
    CASE del = 0                    -> lf
      [] first = 0 /\ del = nr      -> MakeEmpty(x, lf)
      [] OTHER ->
           LET j   == IF first = 0 THEN BSize ELSE lf.items[first].loc
               d   == j - lf.items[first + del].loc
               its == SubSeq(lf.items, 1, first) \o SubSeq(lf.items, first + del + 1, nr)
           IN  [lf EXCEPT !.items = MoveLocs(its, first + 1, nr - del, d),
                          !.free  = @ + d + IH * del,
                          !.dc    = Dc(x, lf, -(d + IH * del))]

\* Mutant: the new entries' locations are not moved to the insert point.
PasteEntriesNoIns(lf, a, before, ne, pasteSize) ==
    IF ne = <<>> THEN lf
    ELSE LET it  == lf.items[a + 1]
             e   == it.body
             cnt == Len(ne)
             old == [i \in DOMAIN e |-> [e[i] EXCEPT !.loc = IF i > before THEN @ + DEH * cnt
                                                                     ELSE @ + pasteSize]]
             nw  == [i \in 1 .. cnt |-> [ne[i] EXCEPT !.loc = @ - ne[cnt].loc + DEH * cnt]]
             nb  == SubSeq(old, 1, before) \o nw \o SubSeq(old, before + 1, Len(old))
         IN  [lf EXCEPT !.items = SetItem(@, a + 1,
                  [it EXCEPT !.body = nb,
                             !.key.off = IF before = 0 THEN ne[1].h ELSE @])]

\* leaf_paste_entries: put the entry heads ne (with the deh_location they
\* had in their source item) before entry "before" of directory item a,
\* whose ih_item_len already counts paste_size more bytes.
PasteEntries(lf, a, before, ne, pasteSize) ==
    IF ne = <<>> THEN lf
    ELSE LET it  == lf.items[a + 1]
             e   == it.body
             cnt == Len(ne)
             ins == IF before = 0 THEN it.len - pasteSize ELSE e[before].loc
             old == [i \in DOMAIN e |-> [e[i] EXCEPT !.loc = IF i > before THEN @ + DEH * cnt
                                                                     ELSE @ + pasteSize]]
             nw  == [i \in 1 .. cnt |-> [ne[i] EXCEPT !.loc = @ - ne[cnt].loc + ins + DEH * cnt]]
             nb  == SubSeq(old, 1, before) \o nw \o SubSeq(old, before + 1, Len(old))
         IN  [lf EXCEPT !.items = SetItem(@, a + 1,
                  [it EXCEPT !.body = nb,
                             !.key.off = IF before = 0 THEN ne[1].h ELSE @])]

-----------------------------------------------------------------------------
(* Copying between buffers.  dest is the buffer written, x its name; src   *)
(* is the source buffer, which these functions only read.                  *)

\* leaf_copy_dir_entries: copy cnt entries from entry "from" of directory
\* item it of the source to the last (FIRST_TO_LAST) or first item of
\* dest, creating that item when dest has none or it is not a part of the
\* same directory.
CopyDirEntries(x, dest, it, ftl, from, cnt) ==
    LET e      == it.body
        recLen == IF cnt = 0 THEN 0
                  ELSE (IF from = 0 THEN it.len ELSE e[from].loc) - e[from + cnt].loc
        size   == DEH * cnt + recLen
        nr     == Len(dest.items)
        create == \/ nr = 0
                  \/ ftl /\ it.key.off = DOT
                  \/ ~ftl /\ it.key.obj # dest.items[1].key.obj
        newKey == IF ftl THEN it.key
                  ELSE [it.key EXCEPT !.off = IF from < Len(e) THEN e[from + 1].h ELSE MaxOff]
        newIh  == [key |-> newKey, len |-> size, loc |-> 0, body |-> <<>>]
        made   == IF create THEN InsertIntoBuf(x, dest, IF ftl THEN nr ELSE 0, newIh)
                  ELSE PasteInBuffer(x, dest, IF ftl THEN nr - 1 ELSE 0, 1, size, <<>>)
        at     == IF ftl THEN Len(made.items) - 1 ELSE 0
    IN  PasteEntries(made, at, IF ftl THEN Len(made.items[at + 1].body) ELSE 0,
                     SubSeq(e, from + 1, from + cnt), size)

\* The first u units of an item's body, or its last u units.
FirstUnits(it, u) == SubSeq(it.body, 1, u)
LastUnits(it, u) == SubSeq(it.body, Units(it) - u + 1, Units(it))
UnitsOf(it, bytes) == IF it.key.type = "indirect" THEN bytes \div UNFM ELSE bytes

\* Mutant: moving right, the source's item is tested for mergeability.
CopyBoundaryItemSrc(x, dest, src, ftl, bytes) ==
    LET nr == Len(dest.items)
        ih == IF ftl THEN src.items[1] ELSE src.items[Len(src.items)]
        cnt == IF bytes = -1 THEN Units(ih) ELSE bytes
        b  == IF bytes = -1 THEN ih.len ELSE bytes
        u  == UnitsOf(ih, b)
    IN
    CASE nr = 0 -> <<dest, 0>>
      [] ftl /\ ~LeftMergeable(ih.key) -> <<dest, 0>>
      [] ~ftl /\ ~LeftMergeable(ih.key) -> <<dest, 0>>
      [] ih.key.type = "dir" ->
           <<CopyDirEntries(x, dest, ih, ftl, IF ftl THEN 0 ELSE Units(ih) - cnt, cnt), 1>>
      [] ftl ->
           <<PasteInBuffer(x, dest, nr - 1, dest.items[nr].len, b, FirstUnits(ih, u)), 1>>
      [] OTHER ->
           LET dih  == dest.items[1]
               nkey == IF bytes = -1 THEN [dih.key EXCEPT !.off = ih.key.off, !.type = ih.key.type]
                       ELSE [dih.key EXCEPT !.off = IF dih.key.type = "direct" THEN @ - b
                                                    ELSE @ - (b \div UNFM) * BSize]
               d2   == [dest EXCEPT !.items = SetItem(@, 1, [dih EXCEPT !.key = nkey])]
           IN  <<PasteInBuffer(x, d2, 0, 0, b, LastUnits(ih, u)), 1>>

\* leaf_copy_boundary_item: merge the first item of src (FIRST_TO_LAST)
\* into the last item of dest, or the last item of src into the first of
\* dest, when the later of the two is left mergeable.  Returns the new dest
\* and 1, or dest and 0 when nothing was merged.
CopyBoundaryItem(x, dest, src, ftl, bytes) ==
    LET nr == Len(dest.items)
        ih == IF ftl THEN src.items[1] ELSE src.items[Len(src.items)]
        cnt == IF bytes = -1 THEN Units(ih) ELSE bytes
        b  == IF bytes = -1 THEN ih.len ELSE bytes
        u  == UnitsOf(ih, b)
    IN
    CASE nr = 0 -> <<dest, 0>>
      [] ftl /\ ~LeftMergeable(ih.key) -> <<dest, 0>>
      [] ~ftl /\ ~LeftMergeable(dest.items[1].key) -> <<dest, 0>>
      [] ih.key.type = "dir" ->
           <<CopyDirEntries(x, dest, ih, ftl, IF ftl THEN 0 ELSE Units(ih) - cnt, cnt), 1>>
      [] ftl ->
           <<PasteInBuffer(x, dest, nr - 1, dest.items[nr].len, b, FirstUnits(ih, u)), 1>>
      [] OTHER ->
           LET dih  == dest.items[1]
               nkey == IF bytes = -1 THEN [dih.key EXCEPT !.off = ih.key.off, !.type = ih.key.type]
                       ELSE [dih.key EXCEPT !.off = IF dih.key.type = "direct" THEN @ - b
                                                    ELSE @ - (b \div UNFM) * BSize]
               d2   == [dest EXCEPT !.items = SetItem(@, 1, [dih EXCEPT !.key = nkey])]
           IN  <<PasteInBuffer(x, d2, 0, 0, b, LastUnits(ih, u)), 1>>

\* Mutant: the copy loop stops one item short.
CopyItemsEntirelyShort(x, dest, src, ftl, first, cnt) ==
    IF cnt = 0 THEN dest
    ELSE LET nr     == Len(dest.items)
             before == IF ftl THEN nr ELSE 0
             j      == IF before = 0 THEN BSize ELSE dest.items[before].loc
             its    == SubSeq(dest.items, 1, before) \o SubSeq(src.items, first + 1, first + cnt - 1)
                          \o SubSeq(dest.items, before + 1, nr)
             moved  == SumLen(src.items, first + 1, first + cnt - 1)
         IN  [dest EXCEPT !.items = Relocate(its, before + 1, j),
                          !.free  = @ - IH * (cnt - 1) - moved,
                          !.dc    = Dc(x, dest, moved + IH * (cnt - 1))]

\* leaf_copy_items_entirely: copy cnt whole items from item "first" of
\* src to the end (FIRST_TO_LAST) or the head of dest.
CopyItemsEntirely(x, dest, src, ftl, first, cnt) ==
    IF cnt = 0 THEN dest
    ELSE LET nr     == Len(dest.items)
             before == IF ftl THEN nr ELSE 0
             j      == IF before = 0 THEN BSize ELSE dest.items[before].loc
             its    == SubSeq(dest.items, 1, before) \o SubSeq(src.items, first + 1, first + cnt)
                          \o SubSeq(dest.items, before + 1, nr)
             moved  == SumLen(src.items, first + 1, first + cnt)
         IN  [dest EXCEPT !.items = Relocate(its, before + 1, j),
                          !.free  = @ - IH * cnt - moved,
                          !.dc    = Dc(x, dest, moved + IH * cnt)]

\* leaf_item_bottle: copy the first cpy units of item k of src to a new
\* item at the end of dest, or its last cpy units to the head of dest; a
\* directory item goes through leaf_copy_dir_entries.
ItemBottle(x, dest, src, ftl, k, cpy) ==
    LET ih == src.items[k + 1]
        u  == UnitsOf(ih, cpy)
        off == IF ih.key.type = "direct" THEN ih.key.off + ih.len - cpy
               ELSE ih.key.off + ((ih.len - cpy) \div UNFM) * BSize
    IN
    CASE ih.key.type = "dir" ->
           CopyDirEntries(x, dest, ih, ftl, IF ftl THEN 0 ELSE Units(ih) - cpy, cpy)
      [] ftl ->
           InsertIntoBuf(x, dest, Len(dest.items), [ih EXCEPT !.len = cpy, !.body = FirstUnits(ih, u)])
      [] OTHER ->
           InsertIntoBuf(x, dest, 0, [ih EXCEPT !.len = cpy, !.body = LastUnits(ih, u),
                                              !.key.off = off])

\* leaf_copy_items: copy n items of src, the last (FIRST_TO_LAST) or first
\* of them only in part when bytes # -1, merging the boundary item first.
CopyItems(x, dest, src, ftl, n, bytes) ==
    LET cb  == CopyBoundaryItem(x, dest, src, ftl, IF n = 1 THEN bytes ELSE -1)
        i   == cb[2]
        m   == n - i
        pos == IF ftl THEN i ELSE Len(src.items) - m - i
    IN
    CASE m = 0 -> cb[1]
      [] bytes = -1 -> CopyItemsEntirely(x, cb[1], src, ftl, pos, m)
      [] ftl -> ItemBottle(x, CopyItemsEntirely(x, cb[1], src, ftl, pos, m - 1),
                           src, ftl, m + pos - 1, bytes)
      [] OTHER -> ItemBottle(x, CopyItemsEntirely(x, cb[1], src, ftl, pos + 1, m - 1),
                             src, ftl, pos, bytes)

\* leaf_delete_items: delete n items from "first", the boundary one only
\* in part (bytes units of it) when bytes # -1.
DeleteItems(x, lf, ftl, first, n, bytes) ==
    LET nr == Len(lf.items) IN
    CASE n = 0 -> lf
      [] first = 0 /\ n = nr /\ bytes = -1 -> MakeEmpty(x, lf)
      [] bytes = -1 -> DeleteItemsEntirely(x, lf, first, n)
      [] ftl -> CutFromBuffer(x, DeleteItemsEntirely(x, lf, first, n - 1), 0, 0, bytes)
      [] OTHER ->
           LET d    == DeleteItemsEntirely(x, lf, first + 1, n - 1)
               last == d.items[Len(d.items)]
               len  == IF last.key.type = "dir" THEN Units(last) ELSE last.len
           IN  CutFromBuffer(x, d, Len(d.items) - 1, len - bytes, bytes)

\* leaf_define_dest_src_infos: source, destination and direction of each
\* shift mode.
Modes == {"S_TO_L", "S_TO_R", "R_TO_L", "L_TO_R", "S_TO_SNEW"}
SrcOf(mode)  == CASE mode \in {"S_TO_L", "S_TO_R", "S_TO_SNEW"} -> "S"
                  [] mode = "R_TO_L" -> "R"
                  [] mode = "L_TO_R" -> "L"
DestOf(mode) == CASE mode \in {"S_TO_L", "R_TO_L"} -> "L"
                  [] mode \in {"S_TO_R", "L_TO_R"} -> "R"
                  [] mode = "S_TO_SNEW" -> "N"
FirstToLast(mode) == mode \in {"S_TO_L", "R_TO_L"}

-----------------------------------------------------------------------------
(* The tree's leaves and the operations of do_balance on them.             *)

\* A leaf holding items its, laid out from the end of the block.
Pack(its) ==
    LET used == MapThenSumSet(LAMBDA i : IH + its[i].len, DOMAIN its) IN
    [items |-> Relocate(its, 1, BSize), free |-> BSize - BLKH - used, dc |-> used]

\* The items of the tree in key order, and the units one object holds.
TreeItems == FlattenSeq([i \in 1 .. 4 |-> leaf[TreeOrder[i]].items])
UnitsView(it) ==
    CASE it.key.type = "sd"  -> <<[t |-> "sd", v |-> 0, r |-> 0]>>
      [] it.key.type = "dir" -> [k \in 1 .. Units(it) |-> [t |-> "ent", v |-> it.body[k].h,
                                                          r |-> it.body[k].rec]]
      [] OTHER               -> [k \in 1 .. Units(it) |-> [t |-> it.key.type, v |-> it.body[k],
                                                          r |-> 0]]
ObjUnits(its, o) ==
    LET sel == SelectSeq(its, LAMBDA it : it.key.obj = o) IN
    FlattenSeq([i \in 1 .. Len(sel) |-> UnitsView(sel[i])])

Init ==
    /\ \E a, b \in 1 .. Len(InitItems) - 1 :
          /\ a < b
          /\ leaf = [x \in Leaves |->
                       CASE x = "L" -> Pack(SubSeq(InitItems, 1, a))
                         [] x = "S" -> Pack(SubSeq(InitItems, a + 1, b))
                         [] x = "R" -> Pack(SubSeq(InitItems, b + 1, Len(InitItems)))
                         [] x = "N" -> Pack(<<>>)]
          /\ \A x \in Leaves : leaf[x].free >= 0
    /\ content = [o \in {Dir, File} |-> ObjUnits(InitItems, o)]

\* fix_nodes has checked that every buffer balancing writes has room.
Fits(new) == \A x \in Leaves : new[x].free >= 0

\* Mutant: a direct item may be "split" after its last byte.
SplitOKFull(it, bytes) ==
    CASE it.key.type = "dir"      -> bytes \in 1 .. Units(it) - 1
      [] it.key.type = "direct"   -> bytes \in 1 .. it.len
      [] it.key.type = "indirect" -> bytes \in 1 .. it.len - 1 /\ bytes % UNFM = 0
      [] OTHER                    -> FALSE

\* A split of item it after bytes bytes (or entries) that
\* leaf_copy_boundary_item and leaf_item_bottle accept.
SplitOK(it, bytes) ==
    CASE it.key.type = "dir"      -> bytes \in 1 .. Units(it) - 1
      [] it.key.type = "direct"   -> bytes \in 1 .. it.len - 1
      [] it.key.type = "indirect" -> bytes \in 1 .. it.len - 1 /\ bytes % UNFM = 0
      [] OTHER                    -> FALSE

\* leaf_move_items: copy n items (bytes of the boundary one) from the
\* source to the destination of the mode, then delete them from the
\* source.  Snew takes items only while it is empty, S[0]'s right
\* neighbour only while Snew is empty, and L[0] and R[0] trade items only
\* once S[0] has been emptied; a neighbour that was emptied is gone.
MoveItems(mode, n, bytes) ==
    LET src == SrcOf(mode)
        dst == DestOf(mode)
        ftl == FirstToLast(mode)
        ls  == leaf[src]
        nr  == Len(ls.items)
        new == [leaf EXCEPT ![dst] = CopyItems(dst, leaf[dst], ls, ftl, n, bytes),
                            ![src] = DeleteItems(src, ls, ftl, IF ftl THEN 0 ELSE nr - n,
                                                 n, bytes)]
    IN  /\ n \in 1 .. nr
        /\ bytes = -1 \/ SplitOK(ls.items[IF ftl THEN n ELSE nr - n + 1], bytes)
        /\ dst = "N" <=> leaf[dst].items = <<>>
        /\ mode \in {"S_TO_R", "S_TO_SNEW"} => leaf.N.items = <<>>
        /\ mode \in {"R_TO_L", "L_TO_R"} => leaf.S.items = <<>> /\ leaf.N.items = <<>>
        /\ Fits(new)
        /\ leaf' = new
        /\ UNCHANGED content

\* leaf_shift_left and leaf_shift_right: leaf_move_items from S[0] to a
\* neighbour; the delimiting key replace_key then writes is not kept.
LeafShiftLeft(n, bytes)  == MoveItems("S_TO_L", n, bytes)
LeafShiftRight(n, bytes) == MoveItems("S_TO_R", n, bytes)

-----------------------------------------------------------------------------
(* The edits balance_leaf makes when the leaf has room; they come from     *)
(* writes, truncates and directory operations above do_balance.            *)

\* The non-empty leaf that holds the last item of the tree (File's tail).
LastLeaf == CHOOSE x \in Leaves : leaf[x].items # <<>> /\
               \A i \in 1 .. 4 : TreeOrder[i] = x => \A j \in i + 1 .. 4 :
                                   leaf[TreeOrder[j]].items = <<>>
FileEnd(it) == IF it.key.type = "direct" THEN it.key.off + it.len - 1
               ELSE it.key.off - 1 + Units(it) * BSize

\* A write appends a byte to the file: leaf_paste_in_buffer into the
\* direct tail, or leaf_insert_into_buf of a new tail after a last
\* indirect item.
AppendByte ==
    LET x   == LastLeaf
        lf  == leaf[x]
        nr  == Len(lf.items)
        it  == lf.items[nr]
        e   == FileEnd(it)
        new == IF it.key.type = "direct"
               THEN PasteInBuffer(x, lf, nr - 1, it.len, 1, <<e + 1>>)
               ELSE InsertIntoBuf(x, lf, nr,
                        [key |-> [obj |-> File, off |-> e + 1, type |-> "direct"],
                         len |-> 1, loc |-> 0, body |-> <<e + 1>>])
    IN  /\ it.key.type \in {"direct", "indirect"}
        /\ e < MaxFileEnd
        /\ Fits([leaf EXCEPT ![x] = new])
        /\ leaf' = [leaf EXCEPT ![x] = new]
        /\ content' = [content EXCEPT ![File] = Append(@, [t |-> "direct", v |-> e + 1, r |-> 0])]

\* A truncate cuts the last byte of the direct tail (leaf_cut_from_buffer),
\* or deletes a one-byte tail item (leaf_delete_items).
TruncateByte ==
    LET x  == LastLeaf
        lf == leaf[x]
        nr == Len(lf.items)
        it == lf.items[nr]
    IN  /\ it.key.type = "direct"
        /\ leaf' = [leaf EXCEPT ![x] = IF it.len > 1 THEN CutFromBuffer(x, lf, nr - 1, it.len - 1, 1)
                                       ELSE DeleteItems(x, lf, TRUE, nr - 1, 1, -1)]
        /\ content' = [content EXCEPT ![File] = Front(@)]

\* reiserfs_add_entry: paste an entry into the item of Dir whose key is
\* the last one below the name's hash, at its place among the entries.
AddEntry(x, a, nm) ==
    LET lf  == leaf[x]
        it  == lf.items[a]
        pos == Cardinality({k \in 1 .. Units(it) : it.body[k].h < nm.h})
        sz  == DEH + nm.rec
        p1  == PasteInBuffer(x, lf, a - 1, pos, sz, <<>>)
        new == PasteEntries(p1, a - 1, pos, <<[h |-> nm.h, loc |-> 0, rec |-> nm.rec]>>, sz)
        ent == [t |-> "ent", v |-> nm.h, r |-> nm.rec]
        old == content[Dir]
        at  == Cardinality({k \in 1 .. Len(old) : old[k].v < nm.h})
    IN  /\ it.key.obj = Dir /\ it.key.type = "dir"
        /\ it.key.off < nm.h
        /\ \A i \in DOMAIN TreeItems :
              LET y == TreeItems[i] IN
              y.key.obj = Dir /\ y.key.type = "dir" /\ y.key.off < nm.h => y.key.off <= it.key.off
        /\ \A k \in 1 .. Len(old) : old[k].v # nm.h
        /\ Fits([leaf EXCEPT ![x] = new])
        /\ leaf' = [leaf EXCEPT ![x] = new]
        /\ content' = [content EXCEPT ![Dir] = InsertAt(old, at + 1, ent)]

\* reiserfs_cut_from_item on an entry other than "." and "..": the entry
\* is cut (leaf_cut_from_buffer), or its item deleted when it is the last.
RemoveEntry(x, a, k) ==
    LET lf == leaf[x]
        it == lf.items[a]
        h  == it.body[k].h
    IN  /\ it.key.obj = Dir /\ it.key.type = "dir"
        /\ h > DOT + 1
        /\ leaf' = [leaf EXCEPT ![x] = IF Units(it) = 1 THEN DeleteItems(x, lf, TRUE, a - 1, 1, -1)
                                       ELSE CutFromBuffer(x, lf, a - 1, k - 1, 1)]
        /\ content' = [content EXCEPT ![Dir] = SelectSeq(@, LAMBDA en : en.v # h)]

Next ==
    \/ \E n \in 1 .. Len(TreeItems), bytes \in {-1} \cup 1 .. BSize :
          \/ LeafShiftLeft(n, bytes)
          \/ LeafShiftRight(n, bytes)
          \/ \E mode \in {"R_TO_L", "L_TO_R", "S_TO_SNEW"} : MoveItems(mode, n, bytes)
    \/ AppendByte
    \/ TruncateByte
    \/ \E x \in Leaves, a \in 1 .. Len(TreeItems) :
          /\ a <= Len(leaf[x].items)
          /\ \/ \E nm \in NewNames : AddEntry(x, a, nm)
             \/ \E k \in 1 .. Units(leaf[x].items[a]) : RemoveEntry(x, a, k)

Spec == Init /\ [][Next]_vars

-----------------------------------------------------------------------------
(* Properties.                                                             *)

Keys == [obj : {Dir, File}, off : 0 .. MaxOff, type : {"sd", "dir", "direct", "indirect"}]
Entry == [h : Nat, loc : Nat, rec : Nat]

TypeOK ==
    /\ \A x \in Leaves :
          /\ leaf[x].free \in 0 .. BSize - BLKH
          /\ leaf[x].dc \in Int
          /\ \A i \in DOMAIN leaf[x].items :
                LET it == leaf[x].items[i] IN
                /\ it.key \in Keys
                /\ it.len \in 1 .. BSize /\ it.loc \in 0 .. BSize
                /\ it.key.type = "dir" => it.body \in Seq(Entry)
                /\ it.key.type # "dir" => it.body \in Seq(Nat)
    /\ DOMAIN content = {Dir, File}

\* The block layout the balancing code keeps: blk_free_space is what the
\* block head and the item heads and bodies leave; the bodies are packed
\* from the end of the block, each below the one before; and a leaf with
\* a parent has its used bytes as dc_size there.  Each move, insert, paste,
\* cut and delete recomputes these with its own arithmetic.
LeafLayoutSound ==
    \A x \in Leaves :
        LET its  == leaf[x].items
            used == MapThenSumSet(LAMBDA i : IH + its[i].len, DOMAIN its)
        IN  /\ leaf[x].free = BSize - BLKH - used
            /\ \A i \in DOMAIN its : its[i].loc = BSize - SumLen(its, 1, i)
            /\ HasParent(x) => leaf[x].dc = used

\* An entry's record lies between its head array and the record of the
\* entry before it: deh_location of entry k is the heads' size plus the
\* records of the entries after it.
DirBodySound(it) ==
    LET e == it.body IN
    /\ it.len = DEH * Len(e) + MapThenSumSet(LAMBDA k : e[k].rec, DOMAIN e)
    /\ \A k \in DOMAIN e : e[k].loc = DEH * Len(e) + MapThenSumSet(LAMBDA j : e[j].rec, k + 1 .. Len(e))

\* Every item agrees with its key: ih_item_len with the units of its body,
\* a direct item's bytes are the file's bytes from its key offset on, an
\* indirect item starts a block and maps the blocks from there, and a
\* directory item is keyed by its first entry's hash, holds entries in
\* hash order and has sound deh_locations.  Splitting an item at either
\* end (leaf_item_bottle, leaf_copy_boundary_item, leaf_cut_from_buffer)
\* must move the key by exactly what the other part took.
ItemsMatchKeys ==
    \A i \in DOMAIN TreeItems :
        LET it == TreeItems[i] IN
        CASE it.key.type = "sd" -> it.len = SDLen
          [] it.key.type = "direct" ->
               /\ it.len = Units(it) /\ it.len > 0
               /\ \A k \in 1 .. Units(it) : it.body[k] = it.key.off + k - 1
          [] it.key.type = "indirect" ->
               /\ it.len = UNFM * Units(it) /\ it.len > 0
               /\ it.key.off % BSize = 1
               /\ \A k \in 1 .. Units(it) : it.body[k] = (it.key.off - 1) \div BSize + k - 1
          [] it.key.type = "dir" ->
               /\ Units(it) > 0
               /\ it.body[1].h = it.key.off
               /\ \A k \in 1 .. Units(it) - 1 : it.body[k].h < it.body[k + 1].h
               /\ DirBodySound(it)

\* Key order: obj first (Dir before File), then offset.
KeyLess(k1, k2) ==
    \/ k1.obj = Dir /\ k2.obj = File
    \/ k1.obj = k2.obj /\ k1.off < k2.off

\* The tree stays sorted, and an item that is left mergeable is always
\* the first of its leaf and continues the item before it in the tree,
\* of the same object and type.  leaf_copy_boundary_item and
\* leaf_copy_dir_entries merge on the strength of this without checking
\* that the two items belong together, and leaf_item_bottle and
\* leaf_shift_left panic when a mergeable item is found inside a leaf.
TreeKeysSound ==
    LET T == TreeItems IN
    /\ \A i \in 1 .. Len(T) - 1 : KeyLess(T[i].key, T[i + 1].key)
    /\ \A x \in Leaves : \A i \in 2 .. Len(leaf[x].items) :
          ~LeftMergeable(leaf[x].items[i].key)
    /\ \A i \in 2 .. Len(T) :
          LeftMergeable(T[i].key) =>
             /\ T[i - 1].key.obj = T[i].key.obj
             /\ T[i - 1].key.type = T[i].key.type
             /\ T[i].key.type # "dir" => FileEnd(T[i - 1]) + 1 = T[i].key.off

\* Balancing moves data between leaves but never changes it: every object
\* holds, in order, exactly the units the edits above balancing wrote.
ContentPreserved ==
    \A o \in {Dir, File} : ObjUnits(TreeItems, o) = content[o]

=============================================================================
