------------------------------ MODULE FilePage ------------------------------
(***************************************************************************)
(* The page cache of one regular file over its blocks, after the           *)
(* partial-page write, read, write-back and truncate helpers of            *)
(* fs/buffer.c: __block_prepare_write, __block_commit_write,               *)
(* block_prepare_write, generic_commit_write, block_read_full_page,        *)
(* block_write_full_page, block_invalidatepage, block_truncate_page and    *)
(* generic_cont_expand.  A page holds BPP blocks; each block of a cached   *)
(* page has a buffer_head with BH_Mapped, BH_Uptodate and BH_Dirty.        *)
(*                                                                         *)
(* The callers are outside this repository and appear as the environment: *)
(* generic_file_write (grab the page, prepare_write, copy the user's       *)
(* bytes, commit_write, and vmtruncate back to i_size when prepare_write   *)
(* failed past the end), do_generic_mapping_read (readpage of a page that  *)
(* is not uptodate), the VM (writepage of a dirty page, and freeing a      *)
(* clean one), vmtruncate (i_size, truncate_inode_pages, then the          *)
(* filesystem's truncate: block_truncate_page and freeing the blocks past  *)
(* the end) and setattr (generic_cont_expand).  The filesystem's get_block *)
(* maps a block it has, or allocates one whose disk bytes are whatever was *)
(* there before (Junk).  Each call runs under the page lock, so it is one  *)
(* step; I/O is waited for, or completes before anyone can look.  A byte   *)
(* is Junk, zero or a user's value.                                        *)
(***************************************************************************)
EXTENDS Integers, FiniteSets

CONSTANTS NPages,    \* pages of the file
          PageSize,  \* PAGE_CACHE_SIZE, in bytes
          BlkSize,   \* 1 << i_blkbits
          Vals,      \* the byte values a user writes
          InitSize,  \* i_size at the start
          InitMap,   \* the blocks the file has at the start
          InitDisk,  \* the disk under every block position at the start
          Faults     \* the failures the environment may produce

BPP == PageSize \div BlkSize
MaxSize == NPages * PageSize
Bytes == 0 .. MaxSize - 1
Pages == 0 .. NPages - 1
Blocks == 0 .. NPages * BPP - 1
Junk == -1       \* stale bytes: a block's former contents, a fresh page
NoStop == -1     \* no get_block of the loop failed

PageOf(i) == i \div PageSize
BlockOf(i) == i \div BlkSize
BlocksOf(p) == p * BPP .. p * BPP + BPP - 1
BlockStart(b) == (b % BPP) * BlkSize   \* block_start, within the page
CeilDiv(a, d) == (a + d - 1) \div d
InRange(b, from, to) == ~(BlockStart(b) + BlkSize <= from \/ BlockStart(b) >= to)

VARIABLES isize,   \* inode->i_size
          fsmap,   \* the blocks the filesystem has allocated to the file
          disk,    \* the bytes on disk under each position of a block
          cached,  \* the page is in the page cache
          pgUp,    \* PageUptodate
          bufs,    \* page_has_buffers
          bh,      \* each block's buffer_head bits
          page     \* the bytes of the cached pages

vars == <<isize, fsmap, disk, cached, pgUp, bufs, bh, page>>

(***************************************************************************)
(* Each operation of buffer.c is an operator from a state record to a      *)
(* state record, so that a caller's sequence of calls is their             *)
(* composition.                                                            *)
(***************************************************************************)
St == [isize |-> isize, fsmap |-> fsmap, disk |-> disk, cached |-> cached,
       pgUp |-> pgUp, bufs |-> bufs, bh |-> bh, page |-> page]

\* The bytes of a page whose buffer is not uptodate are garbage that no
\* operation reads before it writes them; they are kept as Junk.
Valid(s, i) == s.cached[PageOf(i)] /\
               (s.pgUp[PageOf(i)] \/ (s.bufs[PageOf(i)] /\ s.bh[BlockOf(i)].uptodate))

Set(s) == /\ isize' = s.isize /\ fsmap' = s.fsmap /\ disk' = s.disk
          /\ cached' = s.cached /\ pgUp' = s.pgUp /\ bufs' = s.bufs
          /\ bh' = s.bh
          /\ page' = [i \in Bytes |-> IF Valid(s, i) THEN s.page[i] ELSE Junk]

NoBh == [mapped |-> FALSE, uptodate |-> FALSE, dirty |-> FALSE]

\* memset of the page bytes S to v.
Fill(s, S, v) == [s EXCEPT !.page = [i \in Bytes |-> IF i \in S THEN v ELSE s.page[i]]]

PageBytes(p, lo, hi) == {p * PageSize + k : k \in lo .. hi - 1}
BlockBytes(b) == {i \in Bytes : BlockOf(i) = b}

\* A successful read of block b: the page gets the disk bytes, BH_Uptodate.
ReadIn(s, b) ==
    [s EXCEPT !.page = [i \in Bytes |-> IF BlockOf(i) = b THEN s.disk[i] ELSE s.page[i]],
              !.bh[b].uptodate = TRUE]

\* grab_cache_page: a page not cached is allocated, locked, not uptodate.
GrabCachePage(s, p) ==
    IF s.cached[p] THEN s
    ELSE [s EXCEPT !.cached[p] = TRUE, !.pgUp[p] = FALSE, !.bufs[p] = FALSE]

\* create_empty_buffers(page, blocksize, 0): unmapped buffers, uptodate
\* when the page is.
CreateEmptyBuffers(s, p) ==
    IF s.bufs[p] THEN s
    ELSE [s EXCEPT !.bufs[p] = TRUE,
                   !.bh = [b \in Blocks |-> IF b \in BlocksOf(p)
                                            THEN [NoBh EXCEPT !.uptodate = s.pgUp[p]]
                                            ELSE s.bh[b]]]

\* get_block(inode, block, bh, 1): map the block, allocating it if the
\* file has none there; a new block holds stale bytes on disk.
GetBlock(s, b) ==
    IF s.fsmap[b] THEN [s EXCEPT !.bh[b].mapped = TRUE]
    ELSE [s EXCEPT !.fsmap[b] = TRUE, !.bh[b].mapped = TRUE,
                   !.disk = [i \in Bytes |-> IF BlockOf(i) = b THEN Junk ELSE s.disk[i]]]

\* get_block(inode, block, bh, 0): map the block if the file has it.
MapBlock(s, b) == [s EXCEPT !.bh[b].mapped = s.fsmap[b]]

(***************************************************************************)
(* __block_prepare_write, one iteration of its loop over the buffers, for  *)
(* the page bytes [from, to) of page p whose PageUptodate was pu.  A block *)
(* in rdFail is one whose ll_rw_block(READ) fails.                         *)
(***************************************************************************)
\* Mutant: a freshly allocated block is not zeroed outside [from, to).
PrepBlockNoZero(s, p, b, from, to, pu, rdFail) ==
    LET partial == BlockStart(b) < from \/ BlockStart(b) + BlkSize > to
        s1      == IF s.bh[b].mapped THEN s ELSE GetBlock(s, b)
    IN  IF ~InRange(b, from, to)
        THEN IF pu THEN [s EXCEPT !.bh[b].uptodate = TRUE] ELSE s
        ELSE IF pu THEN [s1 EXCEPT !.bh[b].uptodate = TRUE]
        ELSE IF ~s1.bh[b].uptodate /\ partial /\ b \notin rdFail /\ s.fsmap[b]
        THEN ReadIn(s1, b)
        ELSE s1

PrepBlock(s, p, b, from, to, pu, rdFail) ==
    LET partial == BlockStart(b) < from \/ BlockStart(b) + BlkSize > to
        isNew   == ~s.bh[b].mapped /\ ~s.fsmap[b]
        s1      == IF s.bh[b].mapped THEN s ELSE GetBlock(s, b)
        up      == [s1 EXCEPT !.bh[b].uptodate = TRUE]
    IN  IF ~InRange(b, from, to)
        THEN IF pu THEN [s EXCEPT !.bh[b].uptodate = TRUE] ELSE s
        ELSE IF isNew
        THEN IF pu THEN up
             ELSE Fill(s1, {i \in BlockBytes(b) : i - p * PageSize < from
                                                 \/ i - p * PageSize >= to}, 0)
        ELSE IF pu THEN up
        ELSE IF ~s1.bh[b].uptodate /\ partial /\ b \notin rdFail THEN ReadIn(s1, b)
        ELSE s1

\* The loop, from buffer b on, until the end of the page or the buffer
\* whose get_block fails (stop), where it goes to out.
RECURSIVE PrepLoop(_, _, _, _, _, _, _, _)
PrepLoop(s, p, b, from, to, pu, stop, rdFail) ==
    IF b > p * BPP + BPP - 1 \/ b = stop THEN s
    ELSE PrepLoop(PrepBlock(s, p, b, from, to, pu, rdFail),
                  p, b + 1, from, to, pu, stop, rdFail)

\* The blocks the loop reads and waits on, before stop.
Reads(s, p, from, to, stop) ==
    {b \in BlocksOf(p) :
        /\ stop = NoStop \/ b < stop
        /\ InRange(b, from, to) /\ ~s.pgUp[p]
        /\ s.bh[b].mapped \/ s.fsmap[b]
        /\ ~s.bh[b].uptodate
        /\ BlockStart(b) < from \/ BlockStart(b) + BlkSize > to}

\* The blocks whose get_block may fail with ENOSPC: those it must allocate.
Allocs(s, p, from, to) ==
    {b \in BlocksOf(p) : InRange(b, from, to) /\ ~s.bh[b].mapped /\ ~s.fsmap[b]}

(***************************************************************************)
(* block_prepare_write: __block_prepare_write, then ClearPageUptodate on   *)
(* an error.  The out: path zeroes the buffers still BH_New; the loop      *)
(* clears BH_New as soon as get_block sets it, and a get_block that fails  *)
(* allocates nothing, so out: finds none.  A failed read returns -EIO      *)
(* after the loop.  Returns the state and whether it failed.               *)
(***************************************************************************)
BlockPrepareWrite(s, p, from, to, stop, rdFail) ==
    LET s0 == CreateEmptyBuffers(s, p)
        s1 == PrepLoop(s0, p, p * BPP, from, to, s0.pgUp[p], stop, rdFail)
        err == stop # NoStop \/ rdFail # {}
    IN  [st |-> IF err THEN [s1 EXCEPT !.pgUp[p] = FALSE] ELSE s1, err |-> err]

\* __block_commit_write: the written buffers become uptodate and dirty; the
\* page becomes uptodate when no other buffer is left not uptodate.
CommitWrite(s, p, from, to) ==
    LET s1 == [s EXCEPT !.bh = [b \in Blocks |->
                   IF b \in BlocksOf(p) /\ InRange(b, from, to)
                   THEN [s.bh[b] EXCEPT !.uptodate = TRUE, !.dirty = TRUE]
                   ELSE s.bh[b]]]
        partial == \E b \in BlocksOf(p) : ~InRange(b, from, to) /\ ~s.bh[b].uptodate
    IN  IF partial THEN s1 ELSE [s1 EXCEPT !.pgUp[p] = TRUE]

\* generic_commit_write: commit, and extend i_size to the end of the write.
\* Mutant: generic_commit_write sets i_size one past the write's end.
GenericCommitWritePlusOne(s, p, from, to) ==
    LET s1 == CommitWrite(s, p, from, to)
        pos == p * PageSize + to + 1
    IN  IF pos > s1.isize THEN [s1 EXCEPT !.isize = pos] ELSE s1

GenericCommitWrite(s, p, from, to) ==
    LET s1 == CommitWrite(s, p, from, to)
        pos == p * PageSize + to
    IN  IF pos > s1.isize THEN [s1 EXCEPT !.isize = pos] ELSE s1

(***************************************************************************)
(* Truncation.                                                             *)
(***************************************************************************)
\* discard_buffer: not dirty, not mapped any more.
DiscardBuffer(s, b) == [s EXCEPT !.bh[b].dirty = FALSE, !.bh[b].mapped = FALSE]

\* Dropping a page from the cache: try_to_free_buffers, then the page is
\* freed; its bytes are no longer anyone's.
DropPage(s, p) ==
    [s EXCEPT !.cached[p] = FALSE, !.pgUp[p] = FALSE, !.bufs[p] = FALSE,
              !.bh = [b \in Blocks |-> IF b \in BlocksOf(p) THEN NoBh ELSE s.bh[b]],
              !.page = [i \in Bytes |-> IF PageOf(i) = p THEN Junk ELSE s.page[i]]]

\* block_invalidatepage(page, offset): discard the buffers at or past
\* offset; when the whole page goes, release its buffers.
BlockInvalidatePage(s, p, offset) ==
    IF ~s.bufs[p] THEN s
    ELSE LET s1 == [s EXCEPT !.bh = [b \in Blocks |->
                       IF b \in BlocksOf(p) /\ offset <= BlockStart(b)
                       THEN [s.bh[b] EXCEPT !.dirty = FALSE, !.mapped = FALSE]
                       ELSE s.bh[b]]]
         IN  IF offset = 0
             THEN [s1 EXCEPT !.bufs[p] = FALSE,
                      !.bh = [b \in Blocks |-> IF b \in BlocksOf(p) THEN NoBh ELSE s1.bh[b]]]
             ELSE s1

\* truncate_inode_pages(mapping, n): every cached page wholly past n is
\* invalidated and dropped; the page n falls in is zeroed from n on and
\* its buffers past n are discarded.
TruncateInodePages(s, n) ==
    LET whole == {p \in Pages : p >= CeilDiv(n, PageSize) /\ s.cached[p]}
        s1 == [s EXCEPT !.cached = [p \in Pages |-> s.cached[p] /\ p \notin whole],
                        !.pgUp   = [p \in Pages |-> s.pgUp[p] /\ p \notin whole],
                        !.bufs   = [p \in Pages |-> s.bufs[p] /\ p \notin whole],
                        !.bh     = [b \in Blocks |-> IF b \div BPP \in whole THEN NoBh
                                                     ELSE s.bh[b]],
                        !.page   = [i \in Bytes |-> IF PageOf(i) \in whole THEN Junk
                                                    ELSE s.page[i]]]
        p0 == n \div PageSize
    IN  IF n % PageSize # 0 /\ s1.cached[p0]
        THEN BlockInvalidatePage(Fill(s1, PageBytes(p0, n % PageSize, PageSize), 0),
                                 p0, n % PageSize)
        ELSE s1

\* block_truncate_page(mapping, from): zero the rest of the block from
\* falls in, reading it first, and dirty it.  With fail, the read fails
\* and it returns -EIO.
BlockTruncatePage(s, from, fail) ==
    LET offset == from % PageSize
        p == from \div PageSize
        b == BlockOf(from)
        s0 == CreateEmptyBuffers(GrabCachePage(s, p), p)
        s1 == IF s0.bh[b].mapped THEN s0 ELSE MapBlock(s0, b)
        s2 == IF s1.pgUp[p] THEN [s1 EXCEPT !.bh[b].uptodate = TRUE] ELSE s1
        s3 == IF s2.bh[b].uptodate THEN s2 ELSE ReadIn(s2, b)
    IN  IF offset % BlkSize = 0 THEN s
        ELSE IF ~s1.bh[b].mapped THEN s1
        ELSE IF ~s2.bh[b].uptodate /\ fail THEN s2
        ELSE [Fill(s3, {i \in BlockBytes(b) : i >= from}, 0) EXCEPT !.bh[b].dirty = TRUE]

\* The filesystem's truncate frees the blocks past the new end; what they
\* hold is stale from then on.
FreeBlocks(s, n) ==
    [s EXCEPT !.fsmap = [b \in Blocks |-> s.fsmap[b] /\ b < CeilDiv(n, BlkSize)],
              !.disk = [i \in Bytes |-> IF BlockOf(i) < CeilDiv(n, BlkSize)
                                        THEN s.disk[i] ELSE Junk]]

\* vmtruncate(inode, n): shrinking sets i_size and truncates the pages;
\* either way the filesystem's truncate runs block_truncate_page and frees
\* the blocks past n.
\* Mutant: vmtruncate's shrinking path returns without calling the
\* filesystem's truncate (goto out rather than out_truncate).
VmTruncateNoFsTruncate(s, n, fail) ==
    IF n <= s.isize THEN TruncateInodePages([s EXCEPT !.isize = n], n)
    ELSE FreeBlocks(BlockTruncatePage([s EXCEPT !.isize = n], n, fail), n)

VmTruncate(s, n, fail) ==
    LET s1 == [s EXCEPT !.isize = n]
        s2 == IF n <= s.isize THEN TruncateInodePages(s1, n) ELSE s1
    IN  FreeBlocks(BlockTruncatePage(s2, n, fail), n)

(***************************************************************************)
(* block_read_full_page.  A buffer not uptodate and not mapped is mapped   *)
(* by get_block(.., 0) if it lies below i_size (a block in mapFail makes   *)
(* that get_block fail: SetPageError); one still unmapped is zeroed and    *)
(* set uptodate.  The others are read (a block in rdFail fails: its buffer *)
(* stays not uptodate, SetPageError).  end_buffer_async_read, or the       *)
(* !nr exit, sets PageUptodate when every buffer is uptodate and there    *)
(* was no error.                                                           *)
(***************************************************************************)
\* The buffers that stay unmapped, and so are zeroed, and those read.
Holes(s, p, mapFail) ==
    {b \in BlocksOf(p) : /\ ~s.bh[b].uptodate /\ ~s.bh[b].mapped
                         /\ ~(b < CeilDiv(s.isize, BlkSize) /\ b \notin mapFail /\ s.fsmap[b])}
Sent(s, p, mapFail) ==
    {b \in BlocksOf(p) : ~s.bh[b].uptodate} \ Holes(s, p, mapFail)

BlockReadFullPage(s, p, mapFail, rdFail) ==
    LET holes == Holes(s, p, mapFail)
        sent  == Sent(s, p, mapFail)
        bh1 == [b \in Blocks |->
                  IF b \in holes THEN [s.bh[b] EXCEPT !.uptodate = TRUE]
                  ELSE IF b \in sent THEN [s.bh[b] EXCEPT !.mapped = TRUE,
                                                          !.uptodate = b \notin rdFail]
                  ELSE s.bh[b]]
        pg1 == [i \in Bytes |->
                  IF BlockOf(i) \in holes THEN 0
                  ELSE IF BlockOf(i) \in sent \ rdFail THEN s.disk[i]
                  ELSE s.page[i]]
        error == (mapFail \cap BlocksOf(p)) # {} \/ rdFail # {}
    IN  [s EXCEPT !.bh = bh1, !.page = pg1,
                  !.pgUp[p] = ~error /\ \A b \in BlocksOf(p) : bh1[b].uptodate]

(***************************************************************************)
(* block_write_full_page: a page wholly past i_size is left alone (-EIO);  *)
(* a page that straddles it is zeroed past i_size.  Then                   *)
(* __block_write_full_page: buffers past the last block are cleaned and    *)
(* set uptodate, a dirty unmapped one is mapped by get_block, and every    *)
(* mapped dirty buffer is cleaned and written.  When nothing was written   *)
(* and every buffer is uptodate, the page is set uptodate.                 *)
(***************************************************************************)
\* Mutant: the dirty buffers are cleaned but their submit_bh is lost.
WriteFullPageNoSubmit(s, p) ==
    LET last == (s.isize - 1) \div BlkSize
        s1 == [s EXCEPT !.bh = [b \in Blocks |->
                   IF b \in BlocksOf(p) /\ b > last
                   THEN [s.bh[b] EXCEPT !.dirty = FALSE, !.uptodate = TRUE]
                   ELSE s.bh[b]]]
        wr == {b \in BlocksOf(p) : s1.bh[b].mapped /\ s1.bh[b].dirty}
    IN  [s1 EXCEPT !.bh = [b \in Blocks |-> IF b \in wr
                             THEN [s1.bh[b] EXCEPT !.dirty = FALSE] ELSE s1.bh[b]]]

WriteFullPage(s, p) ==
    LET last == (s.isize - 1) \div BlkSize
        s1 == [s EXCEPT !.bh = [b \in Blocks |->
                   IF b \in BlocksOf(p) /\ b > last
                   THEN [s.bh[b] EXCEPT !.dirty = FALSE, !.uptodate = TRUE]
                   ELSE s.bh[b]]]
        unmapped == {b \in BlocksOf(p) : b <= last /\ ~s1.bh[b].mapped /\ s1.bh[b].dirty}
        s2 == [s1 EXCEPT !.fsmap = [b \in Blocks |-> s1.fsmap[b] \/ b \in unmapped],
                         !.bh = [b \in Blocks |-> IF b \in unmapped
                                   THEN [s1.bh[b] EXCEPT !.mapped = TRUE] ELSE s1.bh[b]]]
        wr == {b \in BlocksOf(p) : s2.bh[b].mapped /\ s2.bh[b].dirty}
        s3 == [s2 EXCEPT !.disk = [i \in Bytes |-> IF BlockOf(i) \in wr THEN s2.page[i]
                                                   ELSE s2.disk[i]],
                         !.bh = [b \in Blocks |-> IF b \in wr
                                   THEN [s2.bh[b] EXCEPT !.dirty = FALSE] ELSE s2.bh[b]]]
    IN  IF wr = {} /\ \A b \in BlocksOf(p) : s3.bh[b].uptodate
        THEN [s3 EXCEPT !.pgUp[p] = TRUE]
        ELSE s3

BlockWriteFullPage(s, p) ==
    LET endIndex == s.isize \div PageSize
        offset == s.isize % PageSize
    IN  IF p < endIndex THEN WriteFullPage(s, p)
        ELSE IF p >= endIndex + 1 \/ offset = 0 THEN s
        ELSE WriteFullPage(Fill(s, PageBytes(p, offset, PageSize), 0), p)

(***************************************************************************)
(* The fault model: which failures the environment may produce.            *)
(***************************************************************************)
StopChoices(s, p, from, to) ==
    {NoStop} \cup (IF "enospc" \in Faults THEN Allocs(s, p, from, to) ELSE {})
PrepReadFails(S) == IF "prep_eio" \in Faults THEN SUBSET S ELSE {{}}
MapFails(S) == IF "map_eio" \in Faults THEN SUBSET S ELSE {{}}
ReadFails(S) == IF "read_eio" \in Faults THEN SUBSET S ELSE {{}}
TruncFails == IF "trunc_eio" \in Faults THEN BOOLEAN ELSE {FALSE}

(***************************************************************************)
(* Actions.                                                                *)
(***************************************************************************)
\* generic_file_write on page p: grab_cache_page, block_prepare_write,
\* copy v into [from, to), generic_commit_write; when prepare_write fails
\* and the write reached past i_size, vmtruncate back to i_size.
FileWrite(p, from, to, v) ==
    LET s0 == CreateEmptyBuffers(GrabCachePage(St, p), p)
    IN  \E stop \in StopChoices(s0, p, from, to),
           rdFail \in PrepReadFails(Reads(s0, p, from, to, NoStop)),
           tf \in TruncFails :
          /\ stop = NoStop \/ \A b \in rdFail : b < stop
          /\ LET r == BlockPrepareWrite(s0, p, from, to, stop, rdFail)
                 w == Fill(r.st, PageBytes(p, from, to), v)
             IN  Set(IF ~r.err THEN GenericCommitWrite(w, p, from, to)
                     ELSE IF p * PageSize + to > isize THEN VmTruncate(r.st, isize, tf)
                     ELSE r.st)

\* do_generic_mapping_read of page p, below i_size and not uptodate:
\* ClearPageError, then ->readpage.
ReadPage(p) ==
    /\ p * PageSize < isize
    /\ ~(cached[p] /\ pgUp[p])
    /\ LET s0 == CreateEmptyBuffers(GrabCachePage(St, p), p)
       IN  \E mapFail \in MapFails({b \in BlocksOf(p) : ~s0.bh[b].uptodate
                                                        /\ ~s0.bh[b].mapped}) :
           \E rdFail \in ReadFails(Sent(s0, p, mapFail)) :
              Set(BlockReadFullPage(s0, p, mapFail, rdFail))

\* Write-back of a dirty page: ->writepage.
WritePage(p) ==
    /\ cached[p]
    /\ \E b \in BlocksOf(p) : bh[b].dirty
    /\ Set(BlockWriteFullPage(St, p))

\* The VM frees a clean page: try_to_free_buffers, then the page.
FreePage(p) ==
    /\ cached[p]
    /\ \A b \in BlocksOf(p) : ~bh[b].dirty
    /\ Set(DropPage(St, p))

\* truncate(2) to length n.
Truncate(n) == \E tf \in TruncFails : Set(VmTruncate(St, n, tf))

\* generic_cont_expand(inode, n) from setattr: prepare_write and
\* commit_write of an empty range at n, moved off a block boundary.
ContExpand(n) ==
    LET offset == IF (n % PageSize) % BlkSize = 0 THEN (n % PageSize) + 1 ELSE n % PageSize
        p == n \div PageSize
        s0 == CreateEmptyBuffers(GrabCachePage(St, p), p)
    IN  /\ n > isize
        /\ \E stop \in StopChoices(s0, p, offset, offset),
              rdFail \in PrepReadFails(Reads(s0, p, offset, offset, NoStop)) :
             /\ stop = NoStop \/ rdFail = {}
             /\ LET r == BlockPrepareWrite(s0, p, offset, offset, stop, rdFail)
                IN  Set(IF r.err THEN r.st ELSE GenericCommitWrite(r.st, p, offset, offset))

Init ==
    /\ isize = InitSize
    /\ fsmap = InitMap
    /\ disk = InitDisk
    /\ cached = [p \in Pages |-> FALSE]
    /\ pgUp = [p \in Pages |-> FALSE]
    /\ bufs = [p \in Pages |-> FALSE]
    /\ bh = [b \in Blocks |-> NoBh]
    /\ page = [i \in Bytes |-> Junk]

Next ==
    \/ \E p \in Pages, from, to \in 0 .. PageSize, v \in Vals :
          from < to /\ FileWrite(p, from, to, v)
    \/ \E p \in Pages : ReadPage(p) \/ WritePage(p) \/ FreePage(p)
    \/ \E n \in 0 .. MaxSize : Truncate(n)
    \/ \E n \in 0 .. MaxSize - 1 : ContExpand(n)

Spec == Init /\ [][Next]_vars

(***************************************************************************)
(* Properties.                                                             *)
(***************************************************************************)
Byte == {Junk, 0} \cup Vals

TypeOK ==
    /\ isize \in 0 .. MaxSize
    /\ fsmap \in [Blocks -> BOOLEAN]
    /\ disk \in [Bytes -> Byte]
    /\ cached \in [Pages -> BOOLEAN] /\ pgUp \in [Pages -> BOOLEAN]
    /\ bufs \in [Pages -> BOOLEAN]
    /\ bh \in [Blocks -> [mapped : BOOLEAN, uptodate : BOOLEAN, dirty : BOOLEAN]]
    /\ page \in [Bytes -> Byte]

\* What read(2) returns at position i: nothing past i_size; the page's byte
\* when the page, or the buffer, is uptodate; otherwise what readpage
\* would bring in: the disk's byte if the file has the block, else zero.
ViewByte(i) ==
    LET p == PageOf(i)
        b == BlockOf(i)
    IN  IF i >= isize THEN 0
        ELSE IF Valid(St, i) THEN page[i]
        ELSE IF fsmap[b] THEN disk[i]
        ELSE 0

InitView == [i \in Bytes |-> IF i < InitSize /\ InitMap[BlockOf(i)] THEN InitDisk[i] ELSE 0]

FD == INSTANCE FileData WITH data <- [i \in Bytes |-> ViewByte(i)], size <- isize,
                             Size0 <- InitSize, Data0 <- InitView

\* Refinement: every step of the page cache, readpage, writepage,
\* prepare/commit_write, truncate and cont_expand is, as read(2) sees the
\* file, a write of the user's bytes, a change of length with zeros past
\* it, or no change at all: no step exposes stale disk or page bytes,
\* loses a write, or shows old bytes in a gap.
FileSpecRefined == FD!Spec

\* A clean, uptodate, mapped buffer of a cached page holds what is on disk
\* below i_size: writepage writes what it cleans, readpage and
\* prepare_write read what they mark uptodate, and nothing marks a buffer
\* uptodate over a block it has not written or read.
CleanBuffersOnDisk ==
    \A i \in Bytes :
        LET p == PageOf(i) b == BlockOf(i)
        IN  i < isize /\ cached[p] /\ bufs[p] /\ bh[b].mapped /\ bh[b].uptodate
            /\ ~bh[b].dirty => page[i] = disk[i]

\* The file owns no block wholly past i_size: truncate frees them, and a
\* failed write past the end is truncated back.
BlocksWithinSize == \A b \in Blocks : fsmap[b] => b < CeilDiv(isize, BlkSize)

=============================================================================
