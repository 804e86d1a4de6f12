---------------------------- MODULE BufferCache ----------------------------
(***************************************************************************)
(* The block-device buffer cache of fs/buffer.c, for one page of the       *)
(* block device's mapping.  The page holds K buffer_heads (one per block)  *)
(* while it "has buffers"; threads, each pinned to its own CPU, look       *)
(* buffers up through the per-CPU LRU (bh_lrus) or the page (slow path),   *)
(* grow the page's buffers, read and write them through ll_rw_block and    *)
(* __bread, read and write back the whole page (block_read_full_page,      *)
(* __block_write_full_page), while the device completes bios in any order  *)
(* and the VM strips the buffers (try_to_free_buffers).                    *)
(*                                                                         *)
(* Block contents are abstracted to version numbers: disk[b] is what the   *)
(* device holds for block b, mem[b] what the page holds.                   *)
(***************************************************************************)
EXTENDS Naturals, Sequences, SequencesExt, FiniteSets, FiniteSetsExt, Bags, BagsExt

CONSTANTS
    Threads,    \* kernel threads, each on its own CPU (so one LRU each)
    FsThreads,  \* threads acting as a filesystem on blockdev buffers
    Readers,    \* threads reading the blockdev page through ->readpage
    Writers,    \* threads writing the blockdev page back (->writepage)
    FsyncThreads, \* threads calling fsync on the inode (sync_mapping_buffers)
    InodeWrites, \* how the filesystem dirties a bh: TRUE for
                 \* mark_buffer_dirty_inode, FALSE for mark_buffer_dirty
    K,          \* buffers per page (PAGE_SIZE / size)
    LruSize,    \* BH_LRU_SIZE
    MaxVer,     \* bound on the versions a filesystem writes into a block
    IoResults,  \* outcomes the device may report: a subset of BOOLEAN
    AllocFails  \* whether alloc_buffer_head may fail (GFP_NOFS)

ASSUME K \in Nat \ {0} /\ LruSize \in Nat \ {0} /\ MaxVer \in Nat
ASSUME IoResults \subseteq BOOLEAN /\ TRUE \in IoResults /\ AllocFails \in BOOLEAN
ASSUME FsThreads \cup Readers \cup Writers \cup FsyncThreads \subseteq Threads
ASSUME InodeWrites \subseteq BOOLEAN /\ InodeWrites # {}

Bufs == 1..K
NoBuf == 0
Garbage == MaxVer + 1          \* page memory never filled from disk
EndIo == {"none", "sync", "async_read", "async_write"}   \* b_end_io

VARIABLES
    buf,        \* buf[b]: the b_state bits, b_count and b_end_io of bh b
    page,       \* the page flags: PagePrivate, PG_locked, PG_writeback, ...
    mem,        \* mem[b]: the page's bytes for block b
    disk,       \* disk[b]: the device's copy of block b
    bios,       \* bag of bios in flight: [buf, rw, data]
    lru,        \* lru[t]: bh_lrus[cpu of t].bhs, newest first, NULLs dropped
    pc,         \* pc[t]: where thread t is in its current call
    held,       \* held[t]: the bh whose reference t holds as a caller
    blk,        \* blk[t]: the block t asked __getblk / __bread for
    cont,       \* cont[t]: where t resumes once __getblk returns
    arr,        \* arr[t]: block_read_full_page's arr[] of bhs to read
    idx,        \* idx[t]: loop position in arr[] or in the page's ring
    forSync,    \* forSync[t]: called_for_sync() in __block_write_full_page
    underway,   \* underway[t]: nr_underway of __block_write_full_page
    errors,     \* buffer_error()/BUG() sites reached
    forgotten,  \* blocks whose dirty data __bforget discarded
    alist,      \* the inode's mapping->private_list of bhs, head first
    tmp,        \* tmp[t]: fsync_buffers_list's local tmp list, head first
    fbh,        \* fbh[t]: the bh fsync_buffers_list holds with get_bh
    ferr,       \* ferr[t]: fsync_buffers_list has seen -EIO
    want,       \* want[t][b]: bytes of b fsync must make durable (history)
    cleared     \* invalidate_inode_buffers has run: the inode is going away

fvars == <<alist, tmp, fbh, ferr, want, cleared>>
vars == <<buf, page, mem, disk, bios, lru, pc, held, blk, cont, arr, idx,
          forSync, underway, errors, forgotten, fvars>>

Fresh == [locked |-> FALSE, dirty |-> FALSE, uptodate |-> FALSE,
          mapped |-> FALSE, asyncRead |-> FALSE,
          asyncWrite |-> FALSE, count |-> 0, endio |-> "none"]

BufState == [locked: BOOLEAN, dirty: BOOLEAN, uptodate: BOOLEAN,
             mapped: BOOLEAN, asyncRead: BOOLEAN,
             asyncWrite: BOOLEAN, count: Nat, endio: EndIo]

Bio == [buf: Bufs, rw: {"READ", "WRITE"}, data: 0..Garbage]

Pcs == {"idle", "gb_lookup", "gb_grow", "br_check", "brs_check",
        "brs_lock", "brs_wait", "sw_wait", "rp_lock", "rp_lockbuf",
        "rp_submit", "wp_lock", "wp_loop2", "wp_loop3", "fs_p1", "fs_write",
        "fs_p2", "fs_wait", "fs_osync", "fs_owait"}

-----------------------------------------------------------------------------
(* Helpers *)

\* Occurrences of bh b in an LRU array.
Occ(s, b) == Len(SelectSeq(s, LAMBDA x : x = b))

\* Bios in flight against bh b.
IoCount(b) == MapThenSumSet(LAMBDA r : bios[r], {r \in DOMAIN bios : r.buf = b})

\* Mutant: bh_lru_install without its get_bh(bh) for the new front slot.
LruRefsNoGet(bs, old, new) ==
    [b \in Bufs |-> [bs[b] EXCEPT !.count = @ + Occ(new, b) - Occ(old, b)
                         - (IF Occ(new, b) > Occ(old, b) THEN 1 ELSE 0)]]

\* Apply the b_count changes of an LRU rewrite: get_bh for every new slot,
\* __brelse for every slot dropped.
LruRefs(bs, old, new) ==
    [b \in Bufs |-> [bs[b] EXCEPT !.count = @ + Occ(new, b) - Occ(old, b)]]

\* bh_lru_install(bh): bh moves to the front; a copy further down is
\* released; the entry pushed off the end is the evictee.
LruInstall(s, b) ==
    IF s # <<>> /\ s[1] = b THEN s
    ELSE LET rest == SelectSeq(s, LAMBDA x : x # b)
         IN  IF Len(rest) < LruSize THEN <<b>> \o rest
             ELSE <<b>> \o SubSeq(rest, 1, LruSize - 1)

\* lookup_bh hit at position i: shift the entries above it down by one.
LruPromote(s, b) == <<b>> \o SelectSeq(s, LAMBDA x : x # b)

\* unlock_buffer's complaint: zero count, page neither locked nor under
\* writeback.
UnlockError(bs, b) ==
    IF bs[b].count = 0 /\ ~page.locked /\ ~page.writeback
    THEN {"unlock_free"} ELSE {}

\* submit_bh's consistency checks.
SubmitErrors(b, rw) ==
    (IF rw = "READ" /\ buf[b].uptodate THEN {"read_uptodate"} ELSE {})
    \cup (IF rw = "WRITE" /\ ~buf[b].uptodate THEN {"write_not_uptodate"} ELSE {})
    \cup (IF rw = "READ" /\ buf[b].dirty THEN {"read_dirty"} ELSE {})

\* submit_bh(rw, bh) on an already locked bh queues a bio carrying the
\* bh's bytes (BH_Req, which it also sets, is read by nothing modelled).
SubmitBh(b, rw) == BagAdd(bios, [buf |-> b, rw |-> rw, data |-> mem[b]])

\* __find_get_block_slow: with the page's buffers found under private_lock,
\* the bh of the block is returned with get_bh.
FindGetBlockSlow(b) == [buf EXCEPT ![b].count = @ + 1]

\* Mutant: init_page_buffers sets BH_Uptodate whatever PageUptodate says.
InitPageBuffersAlwaysUptodate ==
    [b \in Bufs |-> [Fresh EXCEPT !.mapped = TRUE, !.uptodate = TRUE]]

\* create_buffers + init_page_buffers: fresh bhs (b_state 0, b_count 0),
\* each set Mapped, and Uptodate when the page is.
InitPageBuffers ==
    [b \in Bufs |-> [Fresh EXCEPT !.mapped = TRUE, !.uptodate = page.uptodate]]

\* create_empty_buffers(page, size, b_state): fresh bhs with b_state, and
\* Dirty / Uptodate copied from the page under private_lock.
CreateEmptyBuffers(state) ==
    [b \in Bufs |-> [Fresh EXCEPT !.dirty = state.dirty \/ page.dirty,
                                  !.uptodate = state.uptodate \/ page.uptodate]]

\* !list_empty(&bh->b_assoc_buffers): bh b is on the inode's list or on
\* the tmp list of an fsync in progress.
OnList(b) == b \in ToSet(alist) \/ \E t \in Threads : b \in ToSet(tmp[t])

\* buffer_insert_list(lock, bh, list) on the inode's list: list_del, then
\* list_add at the head.
BufferInsertList(b) == <<b>> \o SelectSeq(alist, LAMBDA x : x # b)

\* The list half of mark_buffer_dirty_inode (called with inode TRUE): a bh
\* on no list yet is put on the inode's (all inodes of the model share the
\* one blockdev mapping, so assoc_mapping never differs).  A cleared inode
\* is dirtied no more.
MarkBufferDirtyInode(b, inode) ==
    alist' = IF inode /\ ~cleared /\ ~OnList(b) THEN BufferInsertList(b)
             ELSE alist

\* __remove_assoc_queue (list_del_init of b_assoc_buffers) for every bh in
\* the set bs, from whichever list holds it.
DetachAll(bs) ==
    /\ alist' = SelectSeq(alist, LAMBDA x : x \notin bs)
    /\ tmp' = [t \in Threads |-> SelectSeq(tmp[t], LAMBDA x : x \notin bs)]

-----------------------------------------------------------------------------
Init ==
    /\ buf = [b \in Bufs |-> Fresh]
    /\ page = [hasBuffers |-> FALSE, locked |-> FALSE, writeback |-> FALSE,
               uptodate |-> FALSE, error |-> FALSE, dirty |-> FALSE]
    /\ mem = [b \in Bufs |-> Garbage]
    /\ disk = [b \in Bufs |-> 0]
    /\ bios = EmptyBag
    /\ lru = [t \in Threads |-> <<>>]
    /\ pc = [t \in Threads |-> "idle"]
    /\ held = [t \in Threads |-> NoBuf]
    /\ blk = [t \in Threads |-> NoBuf]
    /\ cont = [t \in Threads |-> "idle"]
    /\ arr = [t \in Threads |-> <<>>]
    /\ idx = [t \in Threads |-> 1]
    /\ forSync = [t \in Threads |-> FALSE]
    /\ underway = [t \in Threads |-> 0]
    /\ errors = {}
    /\ forgotten = {}
    /\ alist = <<>>
    /\ tmp = [t \in Threads |-> <<>>]
    /\ fbh = [t \in Threads |-> NoBuf]
    /\ ferr = [t \in Threads |-> FALSE]
    /\ want = [t \in Threads |-> [b \in Bufs |-> 0]]
    /\ cleared = FALSE

-----------------------------------------------------------------------------
(* __getblk / __bread entry points *)

\* __getblk returns: its arguments are dead.
Return(t) ==
    /\ blk' = [blk EXCEPT ![t] = NoBuf]
    /\ cont' = [cont EXCEPT ![t] = "idle"]

StartGetblk(t, b) ==
    /\ pc[t] = "idle" /\ held[t] = NoBuf
    /\ pc' = [pc EXCEPT ![t] = "gb_lookup"]
    /\ blk' = [blk EXCEPT ![t] = b]
    /\ cont' = [cont EXCEPT ![t] = "idle"]
    /\ UNCHANGED <<fvars, buf, page, mem, disk, bios, lru, held, arr, idx, forSync,
                   underway, errors, forgotten>>

StartBread(t, b) ==
    /\ pc[t] = "idle" /\ held[t] = NoBuf
    /\ pc' = [pc EXCEPT ![t] = "gb_lookup"]
    /\ blk' = [blk EXCEPT ![t] = b]
    /\ cont' = [cont EXCEPT ![t] = "br_check"]
    /\ UNCHANGED <<fvars, buf, page, mem, disk, bios, lru, held, arr, idx, forSync,
                   underway, errors, forgotten>>

\* __find_get_block: lookup_bh in this CPU's LRU (hit: promote and get_bh);
\* on a miss __find_get_block_slow scans the page under private_lock and
\* takes a reference, and bh_lru_install puts it in the LRU.  With no
\* buffers on the page, __getblk_slow goes on to grow_buffers.
GetblkLookup(t) ==
    LET b == blk[t] IN
    /\ pc[t] = "gb_lookup"
    /\ \/ /\ Occ(lru[t], b) > 0
          /\ lru' = [lru EXCEPT ![t] = LruPromote(@, b)]
          /\ buf' = [buf EXCEPT ![b].count = @ + 1]
          /\ held' = [held EXCEPT ![t] = b]
          /\ pc' = [pc EXCEPT ![t] = cont[t]]
          /\ Return(t)
       \/ /\ Occ(lru[t], b) = 0
          /\ page.hasBuffers
          /\ LET new == LruInstall(lru[t], b)
                 got == FindGetBlockSlow(b)
             IN /\ lru' = [lru EXCEPT ![t] = new]
                /\ buf' = LruRefs(got, lru[t], new)
          /\ held' = [held EXCEPT ![t] = b]
          /\ pc' = [pc EXCEPT ![t] = cont[t]]
          /\ Return(t)
       \/ /\ Occ(lru[t], b) = 0
          /\ ~page.hasBuffers
          /\ pc' = [pc EXCEPT ![t] = "gb_grow"]
          /\ UNCHANGED <<buf, lru, held, blk, cont>>
    /\ UNCHANGED <<fvars, page, mem, disk, bios, arr, idx, forSync,
                   underway, errors, forgotten>>

\* grow_buffers -> grow_dev_page: find_or_create_page locks the page; if
\* buffers are already attached it is done, else create_buffers and, under
\* private_lock, link_dev_buffers + init_page_buffers (Mapped, and Uptodate
\* when the page is); unlock_page.  __getblk_slow then retries the lookup.
GetblkGrow(t) ==
    /\ pc[t] = "gb_grow"
    /\ ~page.locked
    /\ IF page.hasBuffers
       THEN UNCHANGED <<buf, page>>
       ELSE /\ buf' = InitPageBuffers
            /\ page' = [page EXCEPT !.hasBuffers = TRUE]
    /\ pc' = [pc EXCEPT ![t] = "gb_lookup"]
    /\ UNCHANGED <<fvars, mem, disk, bios, lru, held, blk, cont, arr, idx, forSync,
                   underway, errors, forgotten>>

\* create_buffers(page, size, 0) fails: grow_dev_page reports buffer_error,
\* unlocks the page, and __getblk_slow calls free_more_memory and loops.
GetblkGrowFail(t) ==
    /\ pc[t] = "gb_grow"
    /\ AllocFails
    /\ ~page.locked
    /\ ~page.hasBuffers
    /\ errors' = errors \cup {"grow_failed"}
    /\ pc' = [pc EXCEPT ![t] = "gb_lookup"]
    /\ UNCHANGED <<fvars, buf, page, mem, disk, bios, lru, held, blk, cont, arr, idx,
                   forSync, underway, forgotten>>

\* __bread: an uptodate bh is returned; otherwise it is __brelse'd and
\* __bread_slow starts again with __getblk.
BreadCheck(t) ==
    LET b == held[t] IN
    /\ pc[t] = "br_check"
    /\ IF buf[b].uptodate
       THEN /\ pc' = [pc EXCEPT ![t] = "idle"]
            /\ UNCHANGED <<buf, held, blk, cont>>
       ELSE /\ buf' = [buf EXCEPT ![b].count = @ - 1]
            /\ held' = [held EXCEPT ![t] = NoBuf]
            /\ pc' = [pc EXCEPT ![t] = "gb_lookup"]
            /\ blk' = [blk EXCEPT ![t] = b]
            /\ cont' = [cont EXCEPT ![t] = "brs_check"]
    /\ UNCHANGED <<fvars, page, mem, disk, bios, lru, arr, idx, forSync,
                   underway, errors, forgotten>>

\* __bread_slow after __getblk: return the bh if uptodate.
BreadSlowCheck(t) ==
    /\ pc[t] = "brs_check"
    /\ pc' = [pc EXCEPT ![t] = IF buf[held[t]].uptodate THEN "idle"
                                                         ELSE "brs_lock"]
    /\ UNCHANGED <<fvars, buf, page, mem, disk, bios, lru, held, blk, cont, arr, idx,
                   forSync, underway, errors, forgotten>>

\* lock_buffer; re-check Uptodate under the lock; else get_bh, b_end_io =
\* end_buffer_io_sync, submit_bh(READ).
BreadSlowLock(t) ==
    LET b == held[t] IN
    /\ pc[t] = "brs_lock"
    /\ ~buf[b].locked
    /\ IF buf[b].uptodate
       THEN /\ errors' = errors \cup UnlockError(buf, b)
            /\ pc' = [pc EXCEPT ![t] = "idle"]
            /\ UNCHANGED <<buf, bios>>
       ELSE /\ errors' = errors \cup SubmitErrors(b, "READ")
                          \cup (IF buf[b].dirty THEN {"bread_dirty"} ELSE {})
            /\ buf' = [buf EXCEPT ![b].locked = TRUE, ![b].count = @ + 1,
                                  ![b].endio = "sync"]
            /\ bios' = SubmitBh(b, "READ")
            /\ pc' = [pc EXCEPT ![t] = "brs_wait"]
    /\ UNCHANGED <<fvars, page, mem, disk, lru, held, blk, cont, arr, idx, forSync,
                   underway, forgotten>>

\* wait_on_buffer; the bh is returned if the read made it uptodate, else
\* it is brelse'd and __bread returns NULL.
BreadSlowWait(t) ==
    LET b == held[t] IN
    /\ pc[t] = "brs_wait"
    /\ ~buf[b].locked
    /\ IF buf[b].uptodate
       THEN UNCHANGED <<buf, held>>
       ELSE /\ buf' = [buf EXCEPT ![b].count = @ - 1]
            /\ held' = [held EXCEPT ![t] = NoBuf]
    /\ pc' = [pc EXCEPT ![t] = "idle"]
    /\ UNCHANGED <<fvars, page, mem, disk, bios, lru, blk, cont, arr, idx, forSync,
                   underway, errors, forgotten>>

-----------------------------------------------------------------------------
(* What a filesystem does with a bh it holds *)

\* The filesystem changes the block's bytes (to the next version, at most
\* MaxVer) and calls mark_buffer_dirty: BH_Dirty is set and, on the
\* clean-to-dirty edge, the page is dirtied.  Through
\* mark_buffer_dirty_inode the bh is then put at the head of the inode's
\* list (buffer_insert_list) unless it is on a list already.
FsWrite(t) ==
    LET b == held[t] IN
    /\ pc[t] = "idle" /\ b # NoBuf
    /\ buf[b].uptodate
    /\ mem[b] < MaxVer
    /\ mem' = [mem EXCEPT ![b] = @ + 1]
    /\ buf' = [buf EXCEPT ![b].dirty = TRUE]
    /\ page' = IF buf[b].dirty THEN page ELSE [page EXCEPT !.dirty = TRUE]
    /\ forgotten' = forgotten \ {b}
    /\ \E inode \in InodeWrites : MarkBufferDirtyInode(b, inode)
    /\ UNCHANGED <<disk, bios, lru, pc, held, blk, cont, arr, idx, forSync,
                   underway, errors, tmp, fbh, ferr, want, cleared>>

\* A filesystem's ll_rw_block(WRITE, 1, &bh) followed by wait_on_buffer.
\* ll_rw_block(WRITE, 1, &bh) on bh b, with the bh states bs the caller
\* leaves behind: a bh locked by someone else is skipped
\* (test_set_buffer_locked); a dirty one is cleaned, pinned and submitted;
\* a clean one is completed at once through end_buffer_io_sync.
LlRwBlockWrite(bs, b) ==
    IF bs[b].locked
    THEN /\ buf' = bs
         /\ UNCHANGED <<bios, errors>>
    ELSE IF bs[b].dirty
    THEN /\ errors' = errors \cup SubmitErrors(b, "WRITE")
         /\ buf' = [bs EXCEPT ![b].locked = TRUE, ![b].count = @ + 1,
                              ![b].endio = "sync", ![b].dirty = FALSE]
         /\ bios' = SubmitBh(b, "WRITE")
    ELSE /\ buf' = [bs EXCEPT ![b].endio = "sync"]
         /\ UNCHANGED <<bios, errors>>

SyncWrite(t) ==
    LET b == held[t] IN
    /\ pc[t] = "idle" /\ b # NoBuf
    /\ LlRwBlockWrite(buf, b)
    /\ pc' = [pc EXCEPT ![t] = "sw_wait"]
    /\ UNCHANGED <<fvars, page, mem, disk, lru, held, blk, cont, arr, idx, forSync,
                   underway, forgotten>>

SyncWriteWait(t) ==
    /\ pc[t] = "sw_wait"
    /\ ~buf[held[t]].locked
    /\ pc' = [pc EXCEPT ![t] = "idle"]
    /\ UNCHANGED <<fvars, buf, page, mem, disk, bios, lru, held, blk, cont, arr, idx,
                   forSync, underway, errors, forgotten>>

\* __brelse: drop the caller's reference; complain on a free bh.
Brelse(t) ==
    LET b == held[t] IN
    /\ pc[t] = "idle" /\ b # NoBuf
    /\ IF buf[b].count > 0
       THEN /\ buf' = [buf EXCEPT ![b].count = @ - 1]
            /\ UNCHANGED errors
       ELSE /\ errors' = errors \cup {"brelse_free"}
            /\ UNCHANGED buf
    /\ held' = [held EXCEPT ![t] = NoBuf]
    /\ UNCHANGED <<fvars, page, mem, disk, bios, lru, pc, blk, cont, arr, idx,
                   forSync, underway, forgotten>>

\* __bforget: clear BH_Dirty (discarding the data), take the bh off its
\* associated list under private_lock, and __brelse.
Bforget(t) ==
    LET b == held[t] IN
    /\ pc[t] = "idle" /\ b # NoBuf
    /\ buf[b].count > 0
    /\ buf' = [buf EXCEPT ![b].dirty = FALSE, ![b].count = @ - 1]
    /\ forgotten' = IF buf[b].dirty THEN forgotten \cup {b} ELSE forgotten
    /\ held' = [held EXCEPT ![t] = NoBuf]
    /\ DetachAll({b})
    /\ want' = [u \in Threads |-> [want[u] EXCEPT ![b] = 0]]
    /\ UNCHANGED <<page, mem, disk, bios, lru, pc, blk, cont, arr, idx,
                   forSync, underway, errors, fbh, ferr, cleared>>

-----------------------------------------------------------------------------
(* Whole-page I/O on the blockdev mapping *)

\* The page cache's reader locks the page; an uptodate page needs no I/O.
\* Otherwise (after the caller's ClearPageError) block_read_full_page runs
\* its first stage: create_empty_buffers if the page has none (Dirty and
\* Uptodate copied from the page), blkdev_get_block maps every bh that is
\* not uptodate, and arr[] collects those.  With nothing to read the page
\* is set uptodate and unlocked.
ReadPageLock(t) ==
    /\ pc[t] = "rp_lock"
    /\ ~page.locked
    /\ IF page.uptodate
       THEN /\ pc' = [pc EXCEPT ![t] = "idle"]
            /\ UNCHANGED <<buf, page, arr>>
       ELSE LET bs0 == IF page.hasBuffers THEN buf
                       ELSE CreateEmptyBuffers([dirty |-> FALSE, uptodate |-> FALSE])
                bs1 == [b \in Bufs |-> IF bs0[b].uptodate THEN bs0[b]
                                        ELSE [bs0[b] EXCEPT !.mapped = TRUE]]
                todo == SelectSeq([i \in 1..K |-> i], LAMBDA b : ~bs1[b].uptodate)
            IN /\ buf' = bs1
               /\ arr' = [arr EXCEPT ![t] = todo]
               /\ IF todo = <<>>
                  THEN /\ page' = [page EXCEPT !.hasBuffers = TRUE, !.error = FALSE,
                                               !.uptodate = TRUE]
                       /\ pc' = [pc EXCEPT ![t] = "idle"]
                  ELSE /\ page' = [page EXCEPT !.hasBuffers = TRUE, !.error = FALSE,
                                               !.locked = TRUE]
                       /\ pc' = [pc EXCEPT ![t] = "rp_lockbuf"]
    /\ UNCHANGED <<fvars, mem, disk, bios, lru, held, blk, cont, idx, forSync,
                   underway, errors, forgotten>>

\* Stage two: lock_buffer and mark_buffer_async_read each bh of arr[].
ReadPageLockBuf(t) ==
    LET b == arr[t][idx[t]] IN
    /\ pc[t] = "rp_lockbuf"
    /\ ~buf[b].locked
    /\ buf' = [buf EXCEPT ![b].locked = TRUE, ![b].asyncRead = TRUE,
                          ![b].endio = "async_read"]
    /\ IF idx[t] = Len(arr[t])
       THEN /\ idx' = [idx EXCEPT ![t] = 1]
            /\ pc' = [pc EXCEPT ![t] = "rp_submit"]
       ELSE /\ idx' = [idx EXCEPT ![t] = @ + 1]
            /\ UNCHANGED pc
    /\ UNCHANGED <<fvars, page, mem, disk, bios, lru, held, blk, cont, arr, forSync,
                   underway, errors, forgotten>>

\* Mutant: end_buffer_async_read unlocks the page without scanning the ring
\* for other bhs still under async read.
EndBufferAsyncReadNoScan(b, ok) ==
    LET b1 == [buf EXCEPT ![b].uptodate = ok, ![b].asyncRead = FALSE,
                          ![b].locked = FALSE]
    IN /\ buf' = b1
       /\ errors' = errors \cup UnlockError(buf, b)
       /\ page' = [page EXCEPT !.error = @ \/ ~ok, !.locked = FALSE,
                     !.uptodate = IF ~(@ \/ ~ok) /\ \A x \in Bufs : b1[x].uptodate
                                  THEN TRUE ELSE @]

\* end_buffer_async_read(bh, uptodate): set or clear Uptodate (SetPageError
\* on failure); then, under page_uptodate_lock, clear BH_Async_Read,
\* unlock_buffer and scan the ring: if another bh is still under async read
\* the page stays locked, else it is set uptodate (all bhs uptodate and no
\* PageError) and unlock_page'd.
EndBufferAsyncRead(b, ok) ==
    LET b1 == [buf EXCEPT ![b].uptodate = ok, ![b].asyncRead = FALSE,
                          ![b].locked = FALSE]
        busy == \E x \in Bufs \ {b} : b1[x].asyncRead
        err == page.error \/ ~ok
    IN /\ buf' = b1
       /\ errors' = errors \cup UnlockError(buf, b)
                   \cup (IF buf[b].asyncRead THEN {} ELSE {"bug_async_read"})
                   \cup (IF busy \/ page.locked THEN {} ELSE {"unlock_page_bug"})
       /\ page' = [page EXCEPT !.error = err,
                     !.uptodate = IF ~busy /\ ~err /\ \A x \in Bufs : b1[x].uptodate
                                  THEN TRUE ELSE @,
                     !.locked = IF busy THEN @ ELSE FALSE]

\* Stage three: under each bh's lock re-check Uptodate (another reader of
\* the blockdev may have brought it uptodate) and complete it at once, or
\* submit_bh(READ).
ReadPageSubmit(t) ==
    LET b == arr[t][idx[t]] IN
    /\ pc[t] = "rp_submit"
    /\ IF buf[b].uptodate
       THEN /\ EndBufferAsyncRead(b, TRUE)
            /\ UNCHANGED bios
       ELSE /\ errors' = errors \cup SubmitErrors(b, "READ")
            /\ bios' = SubmitBh(b, "READ")
            /\ UNCHANGED <<buf, page>>
    /\ IF idx[t] = Len(arr[t])
       THEN /\ idx' = [idx EXCEPT ![t] = 1]
            /\ arr' = [arr EXCEPT ![t] = <<>>]
            /\ pc' = [pc EXCEPT ![t] = "idle"]
       ELSE /\ idx' = [idx EXCEPT ![t] = @ + 1]
            /\ UNCHANGED <<pc, arr>>
    /\ UNCHANGED <<fvars, mem, disk, lru, held, blk, cont, forSync, underway,
                   forgotten>>

\* Writeback of the blockdev page (mpage_writepages -> ->writepage ->
\* block_write_full_page): lock_page; a page under writeback or clean is
\* left alone; otherwise its dirty bit is cleared and
\* __block_write_full_page starts.  A blockdev page without buffers is
\* complained about and given dirty, uptodate buffers (create_empty_buffers;
\* blkdev_get_block maps them).  Every block of the blockdev is inside
\* i_size and every bh of a blockdev page is mapped, so the first loop
\* (get_block for dirty unmapped bhs) does nothing.
WritePageLock(t) ==
    /\ pc[t] = "wp_lock"
    /\ ~page.locked
    /\ IF page.writeback \/ ~page.dirty
       THEN /\ pc' = [pc EXCEPT ![t] = "idle"]
            /\ forSync' = [forSync EXCEPT ![t] = FALSE]
            /\ UNCHANGED <<buf, page, errors>>
       ELSE /\ IF page.hasBuffers
                  THEN UNCHANGED <<buf, errors>>
                  ELSE /\ errors' = errors \cup {"writepage_no_buffers"}
                            \cup (IF page.uptodate THEN {} ELSE {"write_not_uptodate"})
                       /\ buf' = [b \in Bufs |->
                                  [CreateEmptyBuffers([dirty |-> TRUE, uptodate |-> TRUE])[b]
                                      EXCEPT !.mapped = TRUE]]
            /\ page' = [page EXCEPT !.locked = TRUE, !.dirty = FALSE,
                                    !.hasBuffers = TRUE]
            /\ pc' = [pc EXCEPT ![t] = "wp_loop2"]
            /\ UNCHANGED forSync
    /\ UNCHANGED <<fvars, mem, disk, bios, lru, held, blk, cont, arr, idx,
                   underway, forgotten>>

\* Second loop, one bh per step: get_bh; a mapped dirty bh is locked
\* (lock_buffer when called for sync, else test_set_buffer_locked, leaving
\* a locked one with -EAGAIN) and, if test_clear_buffer_dirty, marked
\* async-write.  After the last bh: SetPageWriteback and unlock_page.
WritePageLoop2(t) ==
    LET b == idx[t]
        mappedDirty == buf[b].mapped /\ buf[b].dirty
        take == mappedDirty /\ ~buf[b].locked
    IN
    /\ pc[t] = "wp_loop2"
    /\ ~(forSync[t] /\ mappedDirty /\ buf[b].locked)
    /\ buf' = [buf EXCEPT ![b].count = @ + 1,
                          ![b].locked = IF take THEN TRUE ELSE @,
                          ![b].dirty = IF take THEN FALSE ELSE @,
                          ![b].asyncWrite = IF take THEN TRUE ELSE @,
                          ![b].endio = IF take THEN "async_write" ELSE @]
    /\ IF idx[t] = K
       THEN /\ page' = [page EXCEPT !.writeback = TRUE, !.locked = FALSE]
            /\ errors' = errors
                 \cup (IF take /\ ~buf[b].uptodate THEN {"write_not_uptodate"} ELSE {})
                 \cup (IF page.writeback THEN {"writeback_bug"} ELSE {})
            /\ idx' = [idx EXCEPT ![t] = 1]
            /\ pc' = [pc EXCEPT ![t] = "wp_loop3"]
       ELSE /\ errors' = errors
                 \cup (IF take /\ ~buf[b].uptodate THEN {"write_not_uptodate"} ELSE {})
            /\ idx' = [idx EXCEPT ![t] = @ + 1]
            /\ UNCHANGED <<page, pc>>
    /\ UNCHANGED <<fvars, mem, disk, bios, lru, held, blk, cont, arr, forSync,
                   underway, forgotten>>

\* Mutant: end_buffer_async_write forgets clear_buffer_async_write.
EndBufferAsyncWriteNoClear(b, ok) ==
    LET b1 == [buf EXCEPT ![b].uptodate = ok, ![b].locked = FALSE]
        busy == \E x \in Bufs \ {b} : b1[x].asyncWrite
    IN /\ buf' = b1
       /\ errors' = errors \cup UnlockError(buf, b)
       /\ page' = [page EXCEPT !.error = @ \/ ~ok,
                               !.writeback = IF busy THEN @ ELSE FALSE]

\* Mutant: end_buffer_async_write without its unlock_buffer.
EndBufferAsyncWriteNoUnlock(b, ok) ==
    LET b1 == [buf EXCEPT ![b].uptodate = ok, ![b].asyncWrite = FALSE]
        busy == \E x \in Bufs \ {b} : b1[x].asyncWrite
    IN /\ buf' = b1
       /\ UNCHANGED errors
       /\ page' = [page EXCEPT !.error = @ \/ ~ok,
                               !.writeback = IF busy THEN @ ELSE FALSE]

\* end_buffer_async_write(bh, uptodate): set or clear Uptodate (SetPageError
\* on failure); under page_uptodate_lock clear BH_Async_Write, unlock_buffer
\* and scan the other bhs: when none is still under async write,
\* end_page_writeback.
EndBufferAsyncWrite(b, ok) ==
    LET b1 == [buf EXCEPT ![b].uptodate = ok, ![b].asyncWrite = FALSE,
                          ![b].locked = FALSE]
        busy == \E x \in Bufs \ {b} : b1[x].asyncWrite
    IN /\ buf' = b1
       /\ errors' = errors \cup UnlockError(buf, b)
                   \cup (IF buf[b].asyncWrite THEN {} ELSE {"bug_async_write"})
                   \cup (IF busy \/ page.writeback THEN {} ELSE {"writeback_bug"})
       /\ page' = [page EXCEPT !.error = @ \/ ~ok,
                               !.writeback = IF busy THEN @ ELSE FALSE]

\* Third loop, one bh per step: submit_bh(WRITE) every bh found
\* async-write and count it in nr_underway; put_bh.  After the last bh,
\* with nothing underway, the page is set uptodate if all its bhs are and
\* end_page_writeback is called.
WritePageLoop3(t) ==
    LET b == idx[t]
        submit == buf[b].asyncWrite
        nr == underway[t] + (IF submit THEN 1 ELSE 0)
        b1 == [buf EXCEPT ![b].count = @ - 1]
    IN
    /\ pc[t] = "wp_loop3"
    /\ bios' = IF submit THEN SubmitBh(b, "WRITE") ELSE bios
    /\ buf' = b1
    /\ IF idx[t] = K
       THEN /\ pc' = [pc EXCEPT ![t] = "idle"]
            /\ idx' = [idx EXCEPT ![t] = 1]
            /\ underway' = [underway EXCEPT ![t] = 0]
            /\ forSync' = [forSync EXCEPT ![t] = FALSE]
            /\ IF nr = 0
               THEN /\ page' = [page EXCEPT !.writeback = FALSE,
                          !.uptodate = IF \A x \in Bufs : b1[x].uptodate THEN TRUE ELSE @]
                    /\ errors' = errors
                         \cup (IF submit THEN SubmitErrors(b, "WRITE") ELSE {})
                         \cup (IF page.writeback THEN {} ELSE {"writeback_bug"})
               ELSE /\ errors' = errors
                         \cup (IF submit THEN SubmitErrors(b, "WRITE") ELSE {})
                    /\ UNCHANGED page
       ELSE /\ idx' = [idx EXCEPT ![t] = @ + 1]
            /\ underway' = [underway EXCEPT ![t] = nr]
            /\ errors' = errors \cup (IF submit THEN SubmitErrors(b, "WRITE") ELSE {})
            /\ UNCHANGED <<pc, page, forSync>>
    /\ UNCHANGED <<fvars, mem, disk, lru, held, blk, cont, arr, forgotten>>

StartReadPage(t) ==
    /\ pc[t] = "idle" /\ held[t] = NoBuf
    /\ pc' = [pc EXCEPT ![t] = "rp_lock"]
    /\ UNCHANGED <<fvars, buf, page, mem, disk, bios, lru, held, blk, cont, arr, idx,
                   forSync, underway, errors, forgotten>>

StartWritePage(t, sync) ==
    /\ pc[t] = "idle" /\ held[t] = NoBuf
    /\ pc' = [pc EXCEPT ![t] = "wp_lock"]
    /\ forSync' = [forSync EXCEPT ![t] = sync]
    /\ UNCHANGED <<fvars, buf, page, mem, disk, bios, lru, held, blk, cont, arr, idx,
                   underway, errors, forgotten>>

-----------------------------------------------------------------------------
(* fsync of an inode whose metadata bhs were dirtied with                  *)
(* mark_buffer_dirty_inode: sync_mapping_buffers -> fsync_buffers_list     *)
(* -> osync_buffers_list.  Each step below is one stretch between two      *)
(* drops of private_lock.                                                  *)

\* sync_mapping_buffers: nothing to do on an empty list; else
\* fsync_buffers_list starts with an empty tmp list.
StartFsync(t) ==
    /\ pc[t] = "idle" /\ ~cleared
    /\ alist # <<>>
    /\ pc' = [pc EXCEPT ![t] = "fs_p1"]
    /\ want' = [want EXCEPT ![t] = [b \in Bufs |->
                   IF b \in ToSet(alist) /\ buf[b].dirty THEN mem[b] ELSE 0]]
    /\ UNCHANGED <<buf, page, mem, disk, bios, lru, held, blk, cont, arr, idx,
                   forSync, underway, errors, forgotten, alist, tmp, fbh, ferr,
                   cleared>>

\* Mutant: the first loop of fsync_buffers_list without its get_bh.
FsyncScanNoGet(t) ==
    /\ pc[t] = "fs_p1"
    /\ IF alist = <<>>
       THEN /\ pc' = [pc EXCEPT ![t] = "fs_p2"]
            /\ UNCHANGED <<buf, alist, tmp, fbh>>
       ELSE LET b == Head(alist) IN
            /\ alist' = Tail(alist)
            /\ tmp' = IF buf[b].dirty \/ buf[b].locked
                      THEN [tmp EXCEPT ![t] = <<b>> \o @] ELSE tmp
            /\ IF buf[b].dirty
               THEN /\ UNCHANGED buf
                    /\ fbh' = [fbh EXCEPT ![t] = b]
                    /\ pc' = [pc EXCEPT ![t] = "fs_write"]
               ELSE UNCHANGED <<buf, fbh, pc>>
    /\ UNCHANGED <<page, mem, disk, bios, lru, held, blk, cont, arr, idx,
                   forSync, underway, errors, forgotten, ferr, want, cleared>>

\* First loop, under private_lock: take the bh at list->next off the list;
\* a dirty or locked one goes to the head of tmp, and a dirty one is
\* pinned (get_bh) for ll_rw_block.  An empty list ends the loop.
FsyncScan(t) ==
    /\ pc[t] = "fs_p1"
    /\ IF alist = <<>>
       THEN /\ pc' = [pc EXCEPT ![t] = "fs_p2"]
            /\ UNCHANGED <<buf, alist, tmp, fbh>>
       ELSE LET b == Head(alist) IN
            /\ alist' = Tail(alist)
            /\ tmp' = IF buf[b].dirty \/ buf[b].locked
                      THEN [tmp EXCEPT ![t] = <<b>> \o @] ELSE tmp
            /\ IF buf[b].dirty
               THEN /\ buf' = [buf EXCEPT ![b].count = @ + 1]
                    /\ fbh' = [fbh EXCEPT ![t] = b]
                    /\ pc' = [pc EXCEPT ![t] = "fs_write"]
               ELSE UNCHANGED <<buf, fbh, pc>>
    /\ UNCHANGED <<page, mem, disk, bios, lru, held, blk, cont, arr, idx,
                   forSync, underway, errors, forgotten, ferr, want, cleared>>

\* With private_lock dropped: ll_rw_block(WRITE, 1, &bh), then brelse.
FsyncWrite(t) ==
    LET b == fbh[t] IN
    /\ pc[t] = "fs_write"
    /\ LlRwBlockWrite([buf EXCEPT ![b].count = @ - 1], b)
    /\ fbh' = [fbh EXCEPT ![t] = NoBuf]
    /\ pc' = [pc EXCEPT ![t] = "fs_p1"]
    /\ UNCHANGED <<page, mem, disk, lru, held, blk, cont, arr, idx, forSync,
                   underway, forgotten, alist, tmp, ferr, want, cleared>>

\* Second loop, under private_lock: take the bh at tmp.prev off tmp
\* (__remove_assoc_queue) and pin it; an empty tmp ends the loop and
\* fsync_buffers_list goes on to osync_buffers_list.
FsyncWaitNext(t) ==
    /\ pc[t] = "fs_p2"
    /\ IF tmp[t] = <<>>
       THEN /\ pc' = [pc EXCEPT ![t] = "fs_osync"]
            /\ UNCHANGED <<buf, tmp, fbh>>
       ELSE LET b == Last(tmp[t]) IN
            /\ tmp' = [tmp EXCEPT ![t] = Front(@)]
            /\ buf' = [buf EXCEPT ![b].count = @ + 1]
            /\ fbh' = [fbh EXCEPT ![t] = b]
            /\ pc' = [pc EXCEPT ![t] = "fs_wait"]
    /\ UNCHANGED <<page, mem, disk, bios, lru, held, blk, cont, arr, idx,
                   forSync, underway, errors, forgotten, alist, ferr, want,
                   cleared>>

\* With private_lock dropped: wait_on_buffer, -EIO if the bh is not
\* uptodate, brelse.
FsyncWaitDone(t) ==
    LET b == fbh[t] IN
    /\ pc[t] = "fs_wait"
    /\ ~buf[b].locked
    /\ ferr' = [ferr EXCEPT ![t] = @ \/ ~buf[b].uptodate]
    /\ buf' = [buf EXCEPT ![b].count = @ - 1]
    /\ fbh' = [fbh EXCEPT ![t] = NoBuf]
    /\ pc' = [pc EXCEPT ![t] = "fs_p2"]
    /\ UNCHANGED <<page, mem, disk, bios, lru, held, blk, cont, arr, idx,
                   forSync, underway, errors, forgotten, alist, tmp, want,
                   cleared>>



\* Mutant: osync_buffers_list looks for dirty rather than locked bhs.
OsyncWaitsDirty(t) ==
    LET found == {i \in 1..Len(alist) : buf[alist[i]].dirty} IN
    /\ pc[t] = "fs_osync"
    /\ IF found = {}
       THEN /\ pc' = [pc EXCEPT ![t] = "idle"]
            /\ ferr' = [ferr EXCEPT ![t] = FALSE]
            /\ want' = [want EXCEPT ![t] = [b \in Bufs |-> 0]]
            /\ UNCHANGED <<buf, fbh>>
       ELSE LET b == alist[Max(found)] IN
            /\ buf' = [buf EXCEPT ![b].count = @ + 1]
            /\ fbh' = [fbh EXCEPT ![t] = b]
            /\ pc' = [pc EXCEPT ![t] = "fs_owait"]
            /\ UNCHANGED <<ferr, want>>
    /\ UNCHANGED <<page, mem, disk, bios, lru, held, blk, cont, arr, idx,
                   forSync, underway, errors, forgotten, alist, tmp, cleared>>

\* osync_buffers_list, under private_lock: walk the list from its tail
\* (list_for_each_prev) for a locked bh and pin it; when none is left,
\* fsync returns (-EIO if either loop saw a bh not uptodate).  The ghost
\* state of this fsync is reset for the next call.
Osync(t) ==
    LET found == {i \in 1..Len(alist) : buf[alist[i]].locked} IN
    /\ pc[t] = "fs_osync"
    /\ IF found = {}
       THEN /\ pc' = [pc EXCEPT ![t] = "idle"]
            /\ ferr' = [ferr EXCEPT ![t] = FALSE]
            /\ want' = [want EXCEPT ![t] = [b \in Bufs |-> 0]]
            /\ UNCHANGED <<buf, fbh>>
       ELSE LET b == alist[Max(found)] IN
            /\ buf' = [buf EXCEPT ![b].count = @ + 1]
            /\ fbh' = [fbh EXCEPT ![t] = b]
            /\ pc' = [pc EXCEPT ![t] = "fs_owait"]
            /\ UNCHANGED <<ferr, want>>
    /\ UNCHANGED <<page, mem, disk, bios, lru, held, blk, cont, arr, idx,
                   forSync, underway, errors, forgotten, alist, tmp, cleared>>

\* With private_lock dropped: wait_on_buffer, -EIO if not uptodate,
\* brelse, and "goto repeat" (rescan from the tail).
OsyncWait(t) ==
    LET b == fbh[t] IN
    /\ pc[t] = "fs_owait"
    /\ ~buf[b].locked
    /\ ferr' = [ferr EXCEPT ![t] = @ \/ ~buf[b].uptodate]
    /\ buf' = [buf EXCEPT ![b].count = @ - 1]
    /\ fbh' = [fbh EXCEPT ![t] = NoBuf]
    /\ pc' = [pc EXCEPT ![t] = "fs_osync"]
    /\ UNCHANGED <<page, mem, disk, bios, lru, held, blk, cont, arr, idx,
                   forSync, underway, errors, forgotten, alist, tmp, want,
                   cleared>>

\* invalidate_inode_buffers, when the inode is cleared (no fsync of it can
\* be running): if inode_has_buffers, every bh is taken off the inode's
\* list under private_lock; their dirty state is left alone.
InvalidateInodeBuffers ==
    /\ ~cleared /\ alist # <<>>
    /\ \A t \in FsyncThreads : pc[t] = "idle"
    /\ alist' = <<>>
    /\ cleared' = TRUE
    /\ UNCHANGED <<buf, page, mem, disk, bios, lru, pc, held, blk, cont, arr,
                   idx, forSync, underway, errors, forgotten, tmp, fbh, ferr,
                   want>>

-----------------------------------------------------------------------------
(* Environment: VM reclaim and unmount *)

\* Mutant: buffer_busy ignores b_count.
BusyNoCount(b) == buf[b].dirty \/ buf[b].locked

\* buffer_busy: referenced, dirty or locked.
Busy(b) == buf[b].count > 0 \/ buf[b].dirty \/ buf[b].locked

\* check_ttfb_buffer: a mapped blockdev bh that is not uptodate on an
\* uptodate page.
CheckTtfb(b) == ~buf[b].uptodate /\ page.uptodate /\ buf[b].mapped

\* Mutant: drop_buffers frees the bhs without __remove_assoc_queue.
TryToFreeBuffersKeepsLists ==
    LET busy == {b \in Bufs : Busy(b)}
        walked == IF busy = {} THEN Bufs ELSE 1..Min(busy)
        ttfb == \E b \in walked : CheckTtfb(b)
        wasUptodate == \A b \in Bufs : buf[b].uptodate
    IN
    /\ ~page.locked /\ page.hasBuffers /\ ~page.writeback
    /\ errors' = errors \cup (IF ttfb THEN {"ttfb"} ELSE {})
                \cup (IF busy = {} /\ ~wasUptodate /\ page.uptodate
                      THEN {"drop_not_uptodate"} ELSE {})
    /\ IF busy # {}
       THEN UNCHANGED <<buf, page>>
       ELSE /\ buf' = [b \in Bufs |-> Fresh]
            /\ page' = [page EXCEPT !.hasBuffers = FALSE, !.dirty = FALSE]
    /\ UNCHANGED <<mem, disk, bios, lru, pc, held, blk, cont, arr, idx,
                   forSync, underway, forgotten, fvars>>

\* The VM trylocks the page and, when it is not under writeback, calls
\* try_to_release_page -> try_to_free_buffers.  Under private_lock,
\* drop_buffers walks the ring with check_ttfb_buffer (complaining about a
\* mapped bh that is not uptodate on an uptodate page) and stops at the
\* first busy bh (b_count, BH_Dirty, BH_Lock); if none is busy it complains
\* when a bh is not uptodate on an uptodate page, detaches them all, and the
\* page is cleaned.
TryToFreeBuffers ==
    LET busy == {b \in Bufs : Busy(b)}
        walked == IF busy = {} THEN Bufs ELSE 1..Min(busy)
        ttfb == \E b \in walked : CheckTtfb(b)
        wasUptodate == \A b \in Bufs : buf[b].uptodate
    IN
    /\ ~page.locked /\ page.hasBuffers /\ ~page.writeback
    /\ errors' = errors \cup (IF ttfb THEN {"ttfb"} ELSE {})
                \cup (IF busy = {} /\ ~wasUptodate /\ page.uptodate
                      THEN {"drop_not_uptodate"} ELSE {})
    /\ IF busy # {}
       THEN UNCHANGED <<buf, page>>
       ELSE /\ buf' = [b \in Bufs |-> Fresh]
            /\ page' = [page EXCEPT !.hasBuffers = FALSE, !.dirty = FALSE]
    /\ DetachAll(IF busy # {} THEN {} ELSE Bufs)
    /\ UNCHANGED <<mem, disk, bios, lru, pc, held, blk, cont, arr, idx,
                   forSync, underway, forgotten, fbh, ferr, want, cleared>>

\* invalidate_bh_lru on CPU c: brelse every slot and clear the array.
InvalidateBhLru(c) ==
    /\ lru[c] # <<>>
    /\ lru' = [lru EXCEPT ![c] = <<>>]
    /\ buf' = LruRefs(buf, lru[c], <<>>)
    /\ UNCHANGED <<fvars, page, mem, disk, bios, pc, held, blk, cont, arr, idx,
                   forSync, underway, errors, forgotten>>

-----------------------------------------------------------------------------
(* The device completes a bio: bio end_io -> end_bio_bh_io_sync -> b_end_io *)

\* Mutant: end_buffer_io_sync without its put_bh.
EndBufferIoSyncNoPut(b, ok) ==
    /\ buf' = [buf EXCEPT ![b].uptodate = ok, ![b].locked = FALSE]
    /\ errors' = errors \cup UnlockError(buf, b)
    /\ UNCHANGED page

\* end_buffer_io_sync: Uptodate from the result, unlock_buffer, put_bh.
EndBufferIoSync(b, ok) ==
    /\ buf' = [buf EXCEPT ![b].uptodate = ok, ![b].locked = FALSE,
                          ![b].count = @ - 1]
    /\ errors' = errors \cup UnlockError(buf, b)
    /\ UNCHANGED page

DeviceComplete ==
    \E r \in DOMAIN bios, ok \in IoResults :
        LET b == r.buf IN
        /\ bios' = BagRemove(bios, r)
        /\ disk' = IF ok /\ r.rw = "WRITE" THEN [disk EXCEPT ![b] = r.data] ELSE disk
        /\ mem' = IF ok /\ r.rw = "READ" THEN [mem EXCEPT ![b] = disk[b]] ELSE mem
        /\ forgotten' = IF ok /\ r.rw = "READ" THEN forgotten \ {b} ELSE forgotten
        /\ \/ buf[b].endio = "sync" /\ EndBufferIoSync(b, ok)
           \/ buf[b].endio = "async_read" /\ EndBufferAsyncRead(b, ok)
           \/ buf[b].endio = "async_write" /\ EndBufferAsyncWrite(b, ok)
        /\ UNCHANGED <<fvars, lru, pc, held, blk, cont, arr, idx, forSync, underway>>

-----------------------------------------------------------------------------
Next ==
    \/ \E t \in FsThreads, b \in Bufs : StartGetblk(t, b) \/ StartBread(t, b)
    \/ \E t \in Readers : StartReadPage(t)
    \/ \E t \in Writers, sync \in BOOLEAN : StartWritePage(t, sync)
    \/ \E t \in Threads :
        \/ GetblkLookup(t) \/ GetblkGrow(t) \/ GetblkGrowFail(t)
        \/ BreadCheck(t) \/ BreadSlowCheck(t) \/ BreadSlowLock(t)
        \/ BreadSlowWait(t)
        \/ FsWrite(t) \/ SyncWrite(t) \/ SyncWriteWait(t)
        \/ Brelse(t) \/ Bforget(t)
        \/ ReadPageLock(t) \/ ReadPageLockBuf(t) \/ ReadPageSubmit(t)
        \/ WritePageLock(t) \/ WritePageLoop2(t) \/ WritePageLoop3(t)
        \/ InvalidateBhLru(t)
    \/ \E t \in FsyncThreads :
        \/ StartFsync(t) \/ FsyncScan(t) \/ FsyncWrite(t)
        \/ FsyncWaitNext(t) \/ FsyncWaitDone(t) \/ Osync(t) \/ OsyncWait(t)
    \/ InvalidateInodeBuffers
    \/ TryToFreeBuffers
    \/ DeviceComplete

Spec == Init /\ [][Next]_vars

\* The steps of thread t inside an operation it has begun (every action
\* but those that start from "idle").
InOperation(t) ==
    /\ pc[t] # "idle"
    /\ \/ GetblkLookup(t) \/ GetblkGrow(t) \/ GetblkGrowFail(t)
       \/ BreadCheck(t) \/ BreadSlowCheck(t) \/ BreadSlowLock(t)
       \/ BreadSlowWait(t) \/ SyncWriteWait(t)
       \/ ReadPageLock(t) \/ ReadPageLockBuf(t) \/ ReadPageSubmit(t)
       \/ WritePageLock(t) \/ WritePageLoop2(t) \/ WritePageLoop3(t)
       \/ FsyncScan(t) \/ FsyncWrite(t) \/ FsyncWaitNext(t)
       \/ FsyncWaitDone(t) \/ Osync(t) \/ OsyncWait(t)

\* The scheduler runs every thread that is in the middle of an operation
\* and not sleeping (each step's guard is its wake-up condition), and the
\* device completes every bio it was given.
Fairness == WF_vars(DeviceComplete) /\ \A t \in Threads : WF_vars(InOperation(t))

FairSpec == Spec /\ Fairness

-----------------------------------------------------------------------------
(* Properties *)

TypeOK ==
    /\ buf \in [Bufs -> BufState]
    /\ page \in [hasBuffers: BOOLEAN, locked: BOOLEAN, writeback: BOOLEAN,
                 uptodate: BOOLEAN, error: BOOLEAN, dirty: BOOLEAN]
    /\ mem \in [Bufs -> 0..Garbage]
    /\ disk \in [Bufs -> 0..MaxVer]
    /\ DOMAIN bios \subseteq Bio
    /\ lru \in [Threads -> Seq(Bufs)]
    /\ pc \in [Threads -> Pcs]
    /\ held \in [Threads -> Bufs \cup {NoBuf}]
    /\ errors \subseteq STRING
    /\ forgotten \subseteq Bufs
    /\ alist \in Seq(Bufs)
    /\ tmp \in [Threads -> Seq(Bufs)]
    /\ fbh \in [Threads -> Bufs \cup {NoBuf}]
    /\ ferr \in [Threads -> BOOLEAN]
    /\ want \in [Threads -> [Bufs -> 0..MaxVer]]
    /\ cleared \in BOOLEAN

\* No buffer_error()/BUG() site of buffer.c is ever reached: the callers
\* and the completion handlers keep every consistency check of the code.
NoBufferError == errors = {}

\* References to bh b that the code has taken and not yet dropped: a
\* caller's, one per LRU slot (bh_lru_install), one per synchronous bio
\* (ll_rw_block's atomic_inc, __bread_slow's get_bh).
Holders(b) ==
    Cardinality({t \in Threads : held[t] = b})
    + MapThenSumSet(LAMBDA c : Occ(lru[c], b), Threads)
    + (IF buf[b].endio = "sync" THEN IoCount(b) ELSE 0)
    + Cardinality({t \in Threads : fbh[t] = b})
    + Cardinality({t \in Threads : \/ pc[t] = "wp_loop2" /\ b < idx[t]
                                   \/ pc[t] = "wp_loop3" /\ b >= idx[t]})

\* Reference counting (get_bh/put_bh/__brelse across __getblk, the LRU,
\* ll_rw_block and end_buffer_io_sync): while the page has buffers, b_count
\* is exactly the number of holders; once try_to_free_buffers has stripped
\* them, nobody (no caller, no LRU slot, no bio) still points at one.
RefCountAccounting ==
    \A b \in Bufs :
        IF page.hasBuffers THEN buf[b].count = Holders(b)
        ELSE Holders(b) = 0 /\ IoCount(b) = 0

\* A bh whose bytes the page holds as valid and clean: uptodate, not dirty,
\* no write queued or in flight, and not discarded by __bforget.
Clean(b) ==
    /\ page.hasBuffers /\ buf[b].uptodate /\ ~buf[b].dirty
    /\ ~buf[b].asyncWrite /\ IoCount(b) = 0

\* Uptodate means valid (spec P1) across reads, writes, write-back, buffer
\* stripping and regrowth: a clean uptodate bh holds exactly the device's
\* block, unless a filesystem __bforget'd its dirty data.
CleanMatchesDisk ==
    \A b \in Bufs : Clean(b) /\ b \notin forgotten => mem[b] = disk[b]

\* Spec section 8 scenario 4: after forget() a later read_buffer re-reads
\* the block from the device rather than returning the discarded bytes;
\* so no clean uptodate bh may hold bytes the device does not have.
ForgetRereads ==
    \A b \in Bufs : Clean(b) => mem[b] = disk[b]

\* Spec P2: a dirty bh is always uptodate (mark_buffer_dirty, end_buffer_io_sync).
DirtyImpliesUptodate ==
    \A b \in Bufs : page.hasBuffers /\ buf[b].dirty => buf[b].uptodate

\* One I/O at a time per bh (BH_Lock): a bh never has two bios in flight,
\* and a bio in flight always finds its bh locked.
SingleActiveIO ==
    \A b \in Bufs : IoCount(b) <= 1 /\ (IoCount(b) = 1 => buf[b].locked)

\* Async completion demultiplexing (end_buffer_async_read/_write): while a
\* bh of the page is under async read the page stays locked, and while one
\* is under async write the page stays under writeback (or is still locked
\* by __block_write_full_page before it sets PG_writeback).
AsyncIoPinsPage ==
    \A b \in Bufs :
        /\ buf[b].asyncRead => buf[b].locked /\ page.locked
        /\ buf[b].asyncWrite => buf[b].locked /\ (page.writeback \/ page.locked)

\* The associated-buffer lists (b_assoc_buffers, buffer_insert_list,
\* fsync_buffers_list's tmp, __remove_assoc_queue in __bforget and
\* drop_buffers): a bh is on at most one list at a time, at most once, and
\* no list still links a bh that try_to_free_buffers has freed.
AssocListsSound ==
    /\ \A b \in Bufs :
        Occ(alist, b) + MapThenSumSet(LAMBDA t : Occ(tmp[t], b), Threads) <= 1
    /\ ~page.hasBuffers => alist = <<>> /\ \A t \in Threads : tmp[t] = <<>>

\* fsync (sync_mapping_buffers) returning 0 means every bh that was dirty
\* on the inode's list when it was called has reached the disk with at
\* least the bytes it had then (unless __bforget discarded them).
FsyncDurable ==
    [][\A t \in FsyncThreads :
         pc[t] = "fs_osync" /\ pc'[t] = "idle" /\ ~ferr[t] =>
            \A b \in Bufs : disk[b] >= want[t][b]]_vars

\* The comment over fsync_buffers_list: a bh dirtied again while fsync
\* holds it is refiled on the inode's list, so every bh dirtied through
\* mark_buffer_dirty_inode stays on the inode's list (or an fsync's tmp)
\* until it is written (precondition: every filesystem write goes through
\* mark_buffer_dirty_inode, and the inode has not been cleared).
DirtyTracked ==
    ~cleared => \A b \in Bufs : page.hasBuffers /\ buf[b].dirty => OnList(b)

\* The comment over fsync_buffers_list: bhs dirtied after fsync started
\* must not make it last forever while somebody is actively writing, so
\* every fsync that has started returns.
FsyncTerminates == \A t \in FsyncThreads : pc[t] = "fs_p1" ~> pc[t] = "idle"

\* Once the first loop has emptied the inode's list, fsync returns: each
\* wait_on_buffer of the second loop and of osync_buffers_list ends (the
\* device completes the bio, the thread holding BH_Lock goes on), and
\* osync's "goto repeat" rescans only while writes already submitted are
\* in flight, of which a filesystem with finitely many writes has finitely
\* many.
FsyncCompletes == \A t \in FsyncThreads : pc[t] = "fs_p2" ~> pc[t] = "idle"

\* A thread begins an operation (leaves "idle").
Starts == \E t \in Threads : pc[t] = "idle" /\ pc'[t] # "idle"

LockWaits == {"brs_check", "brs_lock", "brs_wait", "sw_wait", "rp_lock",
              "rp_lockbuf", "rp_submit", "wp_lock", "wp_loop2", "wp_loop3"}

\* No deadlock on BH_Lock and the page lock: once threads stop beginning
\* new operations, every thread past __getblk (in __bread_slow, a
\* synchronous write, block_read_full_page, or __block_write_full_page,
\* which lock_buffer()s while it holds the page lock) returns.  Neither
\* lock is fair, so a waiter may starve while others keep retaking it, and
\* __getblk_slow may retry for as long as reclaim keeps freeing the page's
\* buffers; both need new operations without end and are excluded.
LockWaitsEnd ==
    []<><<Starts>>_vars \/ \A t \in Threads : pc[t] \in LockWaits ~> pc[t] = "idle"


=============================================================================
