# TLA+ models of the buffer cache, the file page cache, rpc_pipefs, no-MMU mappings, LLC sockets and reiserfs leaf balancing

This directory models six parts of the repository:

- **The block buffer cache of `src/fs/buffer.c`.** `spec.md` describes it. This is where concurrency, reference counting, I/O completion ordering and fsync meet.
- **The partial-page write, read, write-back and truncate helpers of `src/fs/buffer.c`** on the pages of a regular file, with `vmtruncate` of `src/mm/nommu.c`. They are shown to implement `FileData`, what `read(2)` may see of a file.
- **The rpc_pipefs upcall pipes and mount pinning of `src/net/sunrpc/rpc_pipe.c`.**
- **The memory mappings of `src/mm/nommu.c`** (Linux without an MMU): `mmap`, `munmap`, `mremap`, `brk` and exit, with read-only file mappings shared between processes.
- **The PF_LLC socket layer of `src/net/llc/llc_sock.c`**: the user calls on an LLC socket, and the indications and confirms the LLC core delivers to it from bottom-half context.
- **The leaf balancing of `src/fs/reiserfs/lbalance.c`**: the functions `do_balance` calls to shift, split, merge, insert, paste, cut and delete items and directory entries in the leaves of a reiserfs tree.

The other source files are unrelated drivers and subsystems. `PROJECT.json` lists them as components that are not modelled, each with its reason.

## 1. Inventory

### Parts of the system and how they interact

| Part | Code | State it owns |
|---|---|---|
| Lookup and creation | `__getblk`, `__find_get_block(_slow)`, `__getblk_slow`, `grow_buffers`, `grow_dev_page`, `create_buffers`, `init_page_buffers` | The page's ring of buffer_heads (`PagePrivate`). Each bh has `b_state` and `b_count`. |
| Per-CPU LRU | `bh_lru_install`, `lookup_bh`, `invalidate_bh_lru(s)` | `bh_lrus[cpu].bhs[BH_LRU_SIZE]`. Each slot holds one reference. |
| Buffer state and sync I/O | `__bread(_slow)`, `ll_rw_block`, `submit_bh`, `end_bio_bh_io_sync`, `end_buffer_io_sync`, `unlock_buffer`, `__wait_on_buffer`, `mark_buffer_dirty`, `__brelse`, `__bforget` | The BH_Lock, Dirty, Uptodate and Req bits, `b_count`, and `b_end_io`. |
| Whole-page I/O | `block_read_full_page`, `__block_write_full_page`, `end_buffer_async_read/_write`, `create_empty_buffers` | The PG_locked, PG_writeback, PageUptodate, PageError and PageDirty flags, plus BH_Async_Read and BH_Async_Write. |
| Reclaim | `try_to_free_buffers`, `drop_buffers`, `check_ttfb_buffer`, `buffer_busy` | Whether the page has buffers at all. |
| Associated lists and fsync | `buffer_insert_list`, `mark_buffer_dirty_inode`, `__remove_assoc_queue`, `sync_mapping_buffers`, `fsync_buffers_list`, `osync_buffers_list`, `invalidate_inode_buffers` | `mapping->private_list`, each bh's `b_assoc_buffers`, and fsync's local `tmp` list. |
| Partial-page writes | `__block_prepare_write`, `__block_commit_write`, `cont_prepare_write`, `block_truncate_page` | Per-buffer New, Mapped, Uptodate and Dirty within a file page; which blocks the file has; `i_size`. Modelled by `FilePage`, except `cont_prepare_write`. |
| rpc_pipefs upcall pipe (`rpc_pipe.c`) | `rpc_queue_upcall`, `rpc_pipe_open/read/write/release`, `rpc_inode_setowner`, `__rpc_purge_upcall`, `__rpc_purge_current_upcall`, `rpc_mkpipe`, `rpc_unlink`, `rpc_destroy_inode`, `init_once` | `rpci->pipe`, `pipelen`, `nreaders`, `private`, and each file's `private_data`. |
| rpc_pipefs mount pinning (`rpc_pipe.c`) | `rpc_get_mount`, `rpc_put_mount`, `rpc_lookup_path`, `rpc_release_path`, `rpc_mkdir`, `__rpc_mkdir`, `rpc_rmdir`, `__rpc_rmdir` | `rpc_mount`, `rpc_mount_count`, and the vfsmounts' `mnt_count`. |
| no-MMU mappings (`nommu.c`) | `do_mmap_pgoff`, `do_munmap`, `put_vma`, `exit_mmap`, `do_mremap`, `sys_brk`, `kobjsize` | `nommu_vma_list`, each VMA's `vm_usage`, each mm's tblock list and `total_vm`, and the file references of VMAs. |
| LLC sockets (`llc_sock.c`) | `llc_ui_create/bind/autobind/connect/listen/accept/recvmsg/sendmsg/shutdown/release`, `llc_ui_find_sk_by_addr`, `llc_ui_insert_socket`, `llc_ui_remove_socket`, `llc_ui_indicate`, `llc_ui_ind_*`, `llc_ui_confirm`, `llc_ui_conf_*` | `llc_ui_sockets`, each sock's `state`, `zapped`, addresses, `shutdown` and `receive_queue`, each struct socket's `state` and `sk`. |
| reiserfs leaf balancing (`lbalance.c`) | `leaf_move_items`, `leaf_shift_left/right`, `leaf_define_dest_src_infos`, `leaf_copy_items`, `leaf_copy_boundary_item`, `leaf_copy_items_entirely`, `leaf_item_bottle`, `leaf_copy_dir_entries`, `leaf_delete_items`, `leaf_delete_items_entirely`, `leaf_insert_into_buf`, `leaf_paste_in_buffer`, `leaf_cut_from_buffer`, `leaf_cut_entries`, `leaf_paste_entries` | Each leaf's block head (`blk_nr_item`, `blk_free_space`), item heads (key, `ih_item_len`, `ih_item_location`), directory entry heads (`deh_offset`, `deh_location`), and the parent's `dc_size`. |

The buffer cache parts interact in five ways:

- **A filesystem thread** calls `__getblk` or `__bread`. It gets a referenced bh through its CPU's LRU or through the page. If the page has no buffers, `grow_dev_page` attaches them under the page lock. The thread then modifies the bytes and calls `mark_buffer_dirty`, or `mark_buffer_dirty_inode`, which also files the bh on an inode's list. It then writes with `ll_rw_block` + `wait_on_buffer`, or drops the bh with `__brelse` or `__bforget`.
- **fsync** (`sync_mapping_buffers`) empties the inode's list onto a private `tmp` list and starts writes through `ll_rw_block`. It waits on every bh of `tmp`, and then `osync_buffers_list` waits on whatever is locked on the list.
- **The page cache** reads the blockdev page with `->readpage`, which is `block_read_full_page`. It writes the page back with `->writepage`, which is `__block_write_full_page`. Both run on a locked page.
- **The device** completes bios in any order and with any result, through `b_end_io`. The two async handlers demultiplex per page: the last completion unlocks the page (read) or ends its writeback (write).
- **The VM** strips idle buffers from an unlocked page with `try_to_free_buffers`, which also takes them off every associated list. A later `__getblk` grows new buffers and takes Uptodate from the page.

On a regular file, the same buffer_heads describe the blocks of a page cache page. `generic_file_write` (outside this repository) copies the user's bytes between `block_prepare_write` and `generic_commit_write`. `prepare_write` maps, or allocates through the filesystem's `get_block`, every block the write touches, zeroes the new ones outside the write and reads the partly written ones. The read path calls `block_read_full_page`, which zeroes holes. The VM writes dirty pages back with `block_write_full_page` and frees clean ones. `vmtruncate` sets `i_size`, drops the pages past it, and calls the filesystem's truncate, which zeroes the tail of the last block with `block_truncate_page` and frees the blocks past the end. `setattr` grows a file with `generic_cont_expand`.

In rpc_pipefs, a kernel RPC client queues upcall messages on a pipe inode. A user daemon opens the pipe file and reads them, and writes downcalls. `rpc_unlink` takes the owner away and fails the queued upcalls. Each directory operation pins the rpc_pipefs mount with `rpc_get_mount` and unpins it with `rpc_put_mount`.

In `nommu.c`, every mapping is a kmalloc'd block described by a VMA on the global `nommu_vma_list`. A process reaches its VMAs through its tblock list. `do_mmap_pgoff` either shares an existing read-only VMA of the same file range (taking a `vm_usage` reference) or makes a new one. `do_munmap` and `exit_mmap` drop references through `put_vma`, which frees the block and the file reference with the last one.

In `llc_sock.c`, a user thread calls into its socket under `lock_sock`. The LLC core calls `llc_ui_indicate` and `llc_ui_confirm` from bottom-half context without that lock: a TEST, XID or UI frame is queued on the socket `llc_ui_find_sk_by_addr` finds; an incoming connection is queued, as an skb carrying the new sock, on a listening parent for `accept`; a remote DISC closes an established socket; and the answers to CONN and DISC requests end `connect`'s and `release`'s waits.

In `lbalance.c`, `do_balance` (not in this repository) works on the leaf S[0] of a path, its left and right neighbours L[0] and R[0], and a new node Snew. `leaf_move_items` copies the first or last items of a source leaf to a destination (`leaf_copy_items`), merging the boundary item into the destination's edge item when the key says it continues it, or splitting it by bytes or entries (`leaf_item_bottle`), and then deletes what it copied from the source (`leaf_delete_items`). Every copy and delete ends in the buffer primitives, which keep item locations, free space and the parent's `dc_size` consistent. All of it runs under the kernel lock.

### Hard behaviours in this code

- **Interleavings.**
  - Two CPUs look up, grow and release the same buffers.
  - A filesystem re-dirties a buffer while its write is in flight, or while fsync holds it on `tmp`.
  - `__bforget` and reclaim take a bh off the lists while fsync is using it.
  - Two write-backs of one page overlap once the first has unlocked the page.
  - Two threads race through `rpc_get_mount`'s unlocked `kern_mount`.
- **Completion order.** Per-buffer completions arrive in any order and race each other and the submit loop.
- **Partial failure.** One bh of a page fails while the others succeed. A `copy_to_user` of an upcall faults halfway. `kern_mount`, `path_walk` or inode allocation fails.
- **Resource bounds.** The LRU is full and evicts. The allocation in `grow_dev_page` fails and `__getblk_slow` retries.
- **Liveness.** fsync must return against a concurrent writer. Lock waits must end. Every queued upcall must be finished. An LLC connect or disconnect must be answered.
- **Callbacks without the lock.** The LLC core's callbacks change a socket's state while a user call on it is between two steps, and may find a socket that is no longer listening, or not yet.
- **Long call sequences on packed layouts.** A shift, split or merge followed by edits must leave every item location, entry location, free-space count and key offset exactly right, and the next merge trusts the keys it finds.
- **Stale blocks.** A block the filesystem allocates holds whatever was on disk. Every path that maps one into the file must zero it or overwrite it before `read(2)` can reach it, including the paths where a later step of the same call fails.
- **Error paths.** `do_mmap_pgoff` fails after it made a VMA; an LLC request is refused after the state was already changed.

## 2. Modules and how they correspond to the code

### `BufferCache.tla`

This module models one page of a block device's mapping with `K` buffers, and one inode whose associated list holds those buffers. Threads are pinned to CPUs, so each thread has its own LRU. The constants `FsThreads`, `Readers`, `Writers` and `FsyncThreads` give the threads their roles. `InodeWrites` says whether a filesystem write uses `mark_buffer_dirty_inode` (TRUE), plain `mark_buffer_dirty` (FALSE), or either.

**State.**

- `buf[b]`: the bits of bh `b` (locked, dirty, uptodate, mapped, asyncRead, asyncWrite), plus `b_count` and `b_end_io`.
- `page`: the page flags, plus whether it has buffers.
- `mem[b]` and `disk[b]`: the page's and the device's copy of block `b`, as version numbers.
- `bios`: a bag of bios in flight, each carrying the bytes it writes.
- `lru[t]`: the non-NULL slots of `bh_lrus[t]`, newest first.
- `alist`: the inode's `private_list`, head first. `tmp[t]` is fsync's local list.
- `cleared`: `invalidate_inode_buffers` has run.
- Per thread:
  - `pc`: where the thread is in its call.
  - `held`: the bh it holds as a caller.
  - `fbh`: the bh fsync holds with `get_bh`.
  - `ferr`: fsync's `err`.
  - `blk`, `cont`, `arr`, `idx`, `forSync`, `underway`: the locals of the call.
- Records kept for the properties only:
  - `errors`: the `buffer_error()`/BUG() sites reached.
  - `forgotten`: blocks whose dirty bytes `__bforget` dropped.
  - `want[t][b]`: the version fsync must make durable, taken from the bhs on the list when it is called.

**Actions.** Every action is a step of the code between two points where another thread, the device or the VM can act.

| Action | Code it models |
|---|---|
| `StartGetblk`, `StartBread`, `GetblkLookup`, `GetblkGrow`, `GetblkGrowFail` | `__getblk`, `__bread`, `__find_get_block` (LRU hit, or the slow scan plus `bh_lru_install`), `__getblk_slow`'s loop around `grow_dev_page`, and a failing `create_buffers` |
| `BreadCheck`, `BreadSlowCheck`, `BreadSlowLock`, `BreadSlowWait` | `__bread`'s Uptodate test, then `__bread_slow` |
| `FsWrite` | The filesystem changes the bytes and calls `mark_buffer_dirty` or `mark_buffer_dirty_inode` (`MarkBufferDirtyInode`, `BufferInsertList`) |
| `SyncWrite`, `SyncWriteWait` | `ll_rw_block(WRITE)` on one bh (`LlRwBlockWrite`: skip it if locked, complete at once if clean), then `wait_on_buffer` |
| `Brelse`, `Bforget` | `__brelse`, and `__bforget` with `__remove_assoc_queue` (`DetachAll`) |
| `StartReadPage`, `ReadPageLock`, `ReadPageLockBuf`, `ReadPageSubmit` | The three stages of `block_read_full_page` on a locked page |
| `StartWritePage`, `WritePageLock`, `WritePageLoop2`, `WritePageLoop3` | `->writepage` on a locked dirty page, its second loop, `SetPageWriteback` + `unlock_page`, and its third loop |
| `StartFsync`, `FsyncScan`, `FsyncWrite` | `sync_mapping_buffers`, then `fsync_buffers_list`'s first loop: pop the list head, move a dirty or locked bh to `tmp`, and for a dirty bh `get_bh` + `ll_rw_block` + `brelse` |
| `FsyncWaitNext`, `FsyncWaitDone` | The second loop: take the tail of `tmp`, `get_bh`, `wait_on_buffer`, `-EIO` if not uptodate, `brelse` |
| `Osync`, `OsyncWait` | `osync_buffers_list`: find the last locked bh on the list, wait on it, and repeat |
| `InvalidateInodeBuffers` | `invalidate_inode_buffers` at inode teardown |
| `DeviceComplete` | A bio completes with success or failure. `end_bio_bh_io_sync` calls the bh's handler: `EndBufferIoSync`, `EndBufferAsyncRead` or `EndBufferAsyncWrite` |
| `TryToFreeBuffers` | The VM's `try_to_free_buffers` with `drop_buffers` (which detaches the bhs from every list) and `check_ttfb_buffer` |
| `InvalidateBhLru` | `invalidate_bh_lru` on one CPU |

`PROJECT.json` → `map` gives the lines of the source behind every definition.

**Abstractions.**

- Block bytes are version numbers. `FsWrite` writes the next version, up to `MaxVer`.
- `wait_on_buffer`'s own `get_bh`/`put_bh` is left out. The waiter already holds a reference.
- `set_buffer_req` is left out, because nothing reads BH_Req.
- The callers of `->writepage` and `->readpage` in `mm/` are each one rule.
- `FsWrite` is one step: the modification, `mark_buffer_dirty`, and the list test and insert of `mark_buffer_dirty_inode`. The code takes `mapping->private_lock` for the insert only.
- The inode's spinlock is implicit: every list operation is inside one action.

### `RpcPipe.tla`

This module models one pipe inode over its whole life, from slab construction to `rpc_destroy_inode`. It has `Files` opened on the pipe and `Msgs` upcall messages of lengths `MsgLen`. Every operation runs under `i_sem`, so each is one action: `MkPipe`, `QueueUpcall`, `Open`, `Read` (which can copy part of a message, or fault when `CopyFaults` is set), `Downcall` (`rpc_pipe_write` with `__rpc_purge_current_upcall`), `Release`, `Unlink` (`rpc_inode_setowner(NULL)` with `__rpc_purge_upcall`) and `DestroyInode`. The record variables `destroyed` and `handed` count what happened to each message.

### `RpcMount.tla`

This module models the rpc_pipefs mount pin: `rpc_mount`, `rpc_mount_count`, and the `mnt_count` of each vfsmount that `kern_mount` creates (1..`MaxMounts`). `rpc_get_mount` drops `rpc_mount_lock` around `kern_mount`, so it is three steps: `GetMount1`, `GetMount2` and `GetMount3`. The callers are modelled too:

- `rpc_mkdir`: the lookup (`Start`, `Walk`), `MkdirInode`, the nested pin of `__rpc_mkdir` (`MkdirGot`), and `Out`.
- `rpc_rmdir`: `Rmdir` and `RemoveDir`.

`MountFails`, `PathFails` and `AllocFails` enable the error paths. Each thread runs at most `MaxOps` operations.

### `NoMmu.tla`

This module models the no-MMU mapping layer for `Procs` processes and `Files` regular files. Each call runs under `mmap_sem` and `nommu_vma_sem`, so each is one action, and processes interleave whole calls.

**State.**

- `vma[a]`: the VMA of kmalloc block `a` (its `vm_start`), with `vm_file`, `VM_SHARED`, `vm_pgoff`, the length, `kobjsize` of the block and `vm_usage`. A history field, `ptraced`, records whether a traced process created or shared the VMA; no code reads it, and `TracedNotShared` uses it to state the `PT_PTRACED` rule of `nommu.c:358`.
- `vmalist`: `nommu_vma_list` in list order.
- `tblock[p]`: process `p`'s tblock list, head first.
- `totalVm[p]`: `mm->total_vm`, kept `Width` bits wide, so it wraps like the unsigned long.
- `fcount[f]`: the file references VMAs hold. `brk[p]`: `mm->brk`.
- `errors`: oopses reached.

**Actions.**

| Action | Code it models |
|---|---|
| `DoMmapPgoff` | `do_mmap_pgoff`: the checks, `CalcShared` (VM_SHARED for a read-only file mapping, never for a traced process), the sharing search over `nommu_vma_list` (`ShareSearch`, `Candidate`, `Exact`, `Share`), and otherwise a new block (`NewMapping`, `InsertSorted`), including the failures after the VMA exists (`FailAfterVma`) |
| `DoMunmap` | `do_munmap`: find the tblock by start, `put_vma` (`PutVmas`), and subtract `len` from `total_vm` |
| `ExitMmap` | `exit_mmap`: `put_vma` on every tblock, `total_vm = 0` |
| `DoMremap` | `do_mremap`: in place only, within `kobjsize` |
| `SysBrk` | `sys_brk` within `end_brk` |

### `LlcSock.tla`

This module models the PF_LLC socket layer with `Socks` struct sockets (the sock `llc_ui_create` makes for socket `n` is named `n`) and `Conns` socks the core allocates for incoming connections. There is one SAP on one device, so an address is its destination, a peer of `Peers` or `NoPeer`. The LLC core is not in this repository. It is reduced to the link state of each sock (`none`, `conn`, `up`, `disc`): the core takes a CONN for a sock without a link and a DISC for an open one, may refuse either (`ReqFails`), and later confirms. `llc_sk_free` stops the link, so a freed sock gets no callback.

**State.** `sk[k]` holds each sock's type, `sk->state`, `zapped`, whether `llc->dev` is set, its destination and `daddr`, `RCV_SHUTDOWN` and `sk->socket`, and its `receive_queue` as a sequence of skbs (a connection skb names the new sock; a UI frame names its owner). `sockSk` and `sockSt` are each struct socket's `sk` and `state`. `list` is `llc_ui_sockets`. `pc` marks a release waiting for its DISC confirm, and an accept between its two state assignments (`"accept"` for the listener, `"new"` for the struct socket it fills); `acc` names that socket and the kind of skb the accept took.

**Actions.**

| Action | Code it models |
|---|---|
| `Create`, `Bind`, `Connect`, `Listen`, `RecvMsg`, `SendMsg`, `Shutdown` | the `llc_ui_*` user calls under `lock_sock`, with `llc_ui_autobind` (`CanBind`, `Bound`) and `llc_ui_send_disc` (`DiscSent`) |
| `AcceptStart`, `AcceptEnd` | `llc_ui_accept`, which holds only the listener's lock: up to the new sock's TCP_ESTABLISHED (lines 890-919), then from its SS_CONNECTED to the end (920-939), so a callback on the new sock can run in between |
| `ReleaseStart`, `ReleaseEnd` (`FreeSock`) | `llc_ui_release`: DISC and `llc_ui_wait_for_disc`, then `llc_ui_remove_socket` and `llc_sk_free` |
| `IndUi`, `IndConn`, `IndDisc` (`LlcIndicate`) | `llc_ui_ind_test/xid/dataunit`, `llc_ui_ind_conn`, `llc_ui_ind_disc`, each finding its sock with `llc_ui_find_sk_by_addr` (`FindSk`) |
| `ConfConn`, `ConfDisc` (`LlcConfirm`) | `llc_ui_conf_conn`, `llc_ui_conf_disc` |

A sleep in `llc_ui_wait_for_*` changes nothing. It is the gap between the step that starts the wait and the callback that ends it. When an oops is recorded the model stops (`Oopsed`), because the properties speak only of the states before one.

### `LBalance.tla`

This module models `lbalance.c` on four leaves `L`, `S`, `N` (Snew) and `R`, in tree order L, S, N, R. Bodies are abstracted to what they stand for: a direct item's bytes to their file offsets, an indirect item's pointers to the file block each maps, a directory entry's name to its length. The numbers the code computes are kept as numbers: `ih_item_len`, `ih_item_location`, `blk_free_space`, the parent's `dc_size`, each entry's `deh_location`, and the key offsets (`BSize` bytes per unformatted node).

**State.** `leaf[x]` is a leaf: its items (key, `len`, `loc`, body), `free` and `dc`. `content[o]` is what each object holds, read off the tree in key order; the balancing operations must leave it unchanged.

**Operators and actions.**

| Definition | Code it models |
|---|---|
| `InsertIntoBuf`, `PasteInBuffer`, `CutFromBuffer` (`CutEntries`), `DeleteItemsEntirely` (`MakeEmpty`), `PasteEntries` | the buffer primitives, with their location arithmetic (`SumLen`, `MoveLocs`, `Relocate`, `Dc`) |
| `CopyDirEntries`, `CopyBoundaryItem` (`LeftMergeable`, `SplitOK`), `CopyItemsEntirely`, `ItemBottle`, `CopyItems`, `DeleteItems` | the copy and delete layer |
| `MoveItems(mode, n, bytes)`, `LeafShiftLeft`, `LeafShiftRight` | `leaf_move_items` in the five modes of `leaf_define_dest_src_infos` (`SrcOf`, `DestOf`, `FirstToLast`), and the two shifts |
| `AppendByte`, `TruncateByte`, `AddEntry`, `RemoveEntry` | the edits `balance_leaf` makes on a leaf with room, through the same primitives: they grow and shrink the file and the directory so that later shifts meet new shapes |

`MoveItems` is enabled only where `do_balance` would call it: a count and byte split the code's checks accept, Snew empty exactly when it is the destination, and a result that fits every block. `Init` spreads the items of `InitItems` over L, S and R at every split point.

### `FilePage.tla` and `FileData.tla`

`FileData` is what a regular file promises to `read(2)`: a length, and a byte at every position. A write stores its bytes and extends the length. Setting the length drops the bytes past it, so every byte past the length, and every byte of a later extension that nothing wrote, reads as zero.

`FilePage` models the helpers of `buffer.c` that work on one file's pages. The filesystem's `get_block` and truncate, and the callers, are the environment.

**State.** `isize` is `i_size`. `fsmap[b]` says whether the file has block `b`, and `disk[i]` is the byte on disk under position `i`. `cached`, `pgUp` and `bufs` are a page's presence, `PageUptodate` and `page_has_buffers`. `bh[b]` holds BH_Mapped, BH_Uptodate and BH_Dirty, and `page[i]` the page cache bytes. A byte is a user's value, zero, or `Junk`: what a newly allocated block held before, or a page byte nobody has written yet. `Set` stores page bytes that are not valid as `Junk`, because no operation reads them before it writes them. States that differ only in garbage are then one state.

**Operators and actions.** Each `buffer.c` function is an operator from a state record to a state record, so a caller's sequence of calls is their composition.

| Definition | Code it models |
|---|---|
| `PrepBlock`, `PrepLoop`, `Reads`, `Allocs`, `BlockPrepareWrite` | `__block_prepare_write`'s loop and its read-and-wait, the `goto out` of a failed `get_block`, and `block_prepare_write`'s `ClearPageUptodate` on an error |
| `CommitWrite`, `GenericCommitWrite` | `__block_commit_write`, and `generic_commit_write`'s `i_size` update |
| `DiscardBuffer`, `BlockInvalidatePage`, `DropPage` | `discard_buffer`, `block_invalidatepage` and `try_to_free_buffers` |
| `BlockTruncatePage`, `VmTruncate` | `block_truncate_page` and `vmtruncate`; `TruncateInodePages` and `FreeBlocks` stand for `truncate_inode_pages` and the filesystem's truncate |
| `Holes`, `Sent`, `BlockReadFullPage` | `block_read_full_page` with its holes, failed `get_block`s and failed reads |
| `WriteFullPage`, `BlockWriteFullPage` | `__block_write_full_page` and `block_write_full_page`'s handling of the page that straddles `i_size` |
| `FileWrite`, `ReadPage`, `WritePage`, `FreePage`, `Truncate`, `ContExpand` | the callers: `generic_file_write` (with its `vmtruncate` back to `i_size` on a failed prepare), the read path, writeback, page reclaim, `truncate(2)`, and `generic_cont_expand` |

Each call runs under the page lock, so it is one step. I/O is waited for, or ends before anyone looks at the page. `Faults` chooses the failures the environment may produce: `enospc` (a `get_block` that must allocate fails), `prep_eio` (a read in `prepare_write` fails), `map_eio` (a `get_block(create=0)` in readpage fails), `read_eio` (a readpage read fails) and `trunc_eio` (the read in `block_truncate_page` fails).

**Refinement.** `ViewByte(i)` is what `read(2)` returns at `i`: zero past `i_size`; the page byte when the page or the buffer is uptodate; otherwise what readpage would bring in, the disk byte if the file has the block and zero if not. `FD == INSTANCE FileData WITH data <- [i \in Bytes |-> ViewByte(i)], size <- isize` maps the page cache onto the file, and `FileSpecRefined == FD!Spec` is checked as a property. Every step of the page cache must then look, through `read(2)`, like a write, a change of length, or nothing.

### MC modules

The MC modules declare the model values (threads `t1`, `t2`; files `f1..f3`; messages `m1`, `m2`) and the sets the configurations use:

- `MCBufferCache` has threads with different roles, so it has no symmetry.
- `MCRpcMount` uses thread symmetry, which is sound because the threads are interchangeable.
- `MCRpcPipe` gives `m1` one byte and `m2` two bytes, so that a message can be read in two parts.
- `MCNoMmu` has processes `p1`, `p2` and file `f1`.
- `MCLlcSock` has sockets `s1`, `s2`, the incoming-connection sock `c1` and peers `r1`, `r2`. There is no symmetry: the sockets' order on `llc_ui_sockets` decides which one a lookup finds.
- `MCFilePage` has a file whose first block is a hole and whose second block holds 1 and, past `i_size`, a 0.
- `MCLBalance` has a directory `d` and a file `f`. `d` has its stat data and a directory item with ".", ".." and one name; `f` has its stat data, an indirect item of two pointers and a direct tail of three bytes. `NewNames` are three names, one hashing between existing ones and one after them.

## 3. Runs

| Run | Config | Expect | What it shows |
|---|---|---|---|
| `reliable` | `MCBufferCacheReliable.cfg` | pass | Two filesystem threads, with t1 also reading the page and t2 writing it back, on a device that never fails. `TypeOK`, `RefCountAccounting` (`b_count` equals its holders), `NoBufferError`, `SingleActiveIO`, `AsyncIoPinsPage` and `CleanMatchesDisk` (spec P1) hold. About 1.6M states. |
| `io_errors` | `MCBufferCacheIoErrors.cfg` | pass | With failing I/O and failing bh allocation, the reference counting, and the completion demultiplexing stay correct. The run has one writer, so it does not reach the two-write-back race of `MCBufferCacheDoubleSubmit.cfg`. About 2.4M states. |
| `fsync` | `MCBufferCacheFsync.cfg` | pass | t1 dirties (with and without `mark_buffer_dirty_inode`), writes, forgets and reads bhs, while t2 fsyncs the inode and the VM frees buffers. MaxVer=2 and FairSpec. The following hold: `AssocListsSound` (no bh is linked twice across the list and `tmp`, and there is no list entry once the buffers are freed), `RefCountAccounting` with fsync's `get_bh`, and `FsyncCompletes` (an fsync that reached its second loop returns). About 720K states. |
| `fsync_skip` | `MCBufferCacheFsyncSkip.cfg` | violation | `FsyncDurable`: fsync returns 0 while a bh that was dirty on the list when fsync was called is not on disk with those bytes. |
| `lock_waits` | `MCBufferCacheReturn.cfg` | pass | `LockWaitsEnd`: a page reader, and a thread doing getblk/bread/sync writes and write-back (sync or not) of the same page. Once no new operation starts, every thread waiting on BH_Lock or the page lock returns, so the `lock_buffer` of a sync write-back under the page lock cannot deadlock. About 87K states. |
| `pipe_safety` | `MCRpcPipeSafety.cfg` | pass | Three files of any mode, two messages and copy faults over the pipe's whole life, under FairSpec. `UpcallOwnedOnce` (an accepted upcall is in exactly one place: queued, being read, destroyed once, or taken by the downcall), `PipeLenAccounting`, `FreedConstructed` (the slab gets its object back in the constructed state) and `UpcallFinished` hold. About 42K states. |
| `mount_pins` | `MCRpcMountPins.cfg` | pass | Two threads making and removing directories, with every failure enabled. `CountMatchesPins` (`rpc_mount_count` equals the pins held, and `rpc_mount` is set exactly while pinned) and `NoPrematurePut` (no vfsmount loses a reference a holder owns) hold. About 64K states. |
| `nommu` | `MCNoMmu.cfg` | pass | Two processes mapping one file and anonymous memory, with failing allocations and reads and a process that may be traced. `UsageMatchesMappers` (`vm_usage` equals the tblocks pointing at the VMA, and none points at a freed one), `VmaListSound` (`nommu_vma_list` holds each live VMA once, sorted), `FileRefsBalanced` (get_file/fput) and `TracedNotShared` (a VMA a traced process mapped has no other user, whichever process mapped the range first) hold. About 346K states. |
| `llc` | `MCLlcSock.cfg` | pass | Two sockets, one incoming-connection sock and two peers, with refused requests, a busy SAP and a one-skb receive queue, under FairSpec. Until the first oops: `ListSound` (`llc_ui_sockets` lists each bound live sock once), `ConnHandedOnce` (an incoming connection is queued once or accepted once) and `ConnectSettles` (an accepted CONN leaves SYN_SENT) hold. About 378K states. |
| `llc_accept_race` | `MCLlcSockAcceptRace.cfg` | violation | `StatesAgree` (`sk->state` and `sock->state` agree, and `sk->socket` points back). An incoming CONN is queued, `llc_ui_accept` sets the new sock TCP_ESTABLISHED, `llc_ui_ind_disc` closes it and sets SS_UNCONNECTED, and accept then sets SS_CONNECTED over TCP_CLOSE. |
| `lbalance` | `MCLBalance.cfg` | pass | The directory and file spread over L[0], S[0] and R[0] at every split point, then shifted, split and merged in every mode, count and byte split, between appends, truncates and entry insertions and removals. `LeafLayoutSound` (free space, packed locations and `dc_size` agree with the items), `ItemsMatchKeys` (item lengths, entry locations and key offsets agree with the bodies), `TreeKeysSound` (keys strictly sorted; a mergeable item only first in a leaf and only after the item it continues) and `ContentPreserved` (every object's bytes, pointers and names are unchanged by balancing) hold. About 21K states. |
| `filepage` | `MCFilePage.cfg` | pass | Writes of every range and value, readpage with failing reads, writepage, page reclaim, truncate to every length and `cont_expand`, on a file with a hole. The following hold: `CleanBuffersOnDisk` (a clean, mapped, uptodate buffer below `i_size` holds what is on disk), `BlocksWithinSize` (the file owns no block past `i_size`) and `FileSpecRefined` (`read(2)` sees only bytes written, or zeros: no stale block, lost write or old bytes in a gap). About 13K states. |

`TypeOK` and `NoBufferError` of `BufferCache` are checked in `reliable`; `io_errors` and `fsync` check the properties that their failures and fsync put at risk.

**Further configurations.** More configurations are kept beside the runs. Each shows a divergence TLC finds, and each checks one property:

- `MCBufferCacheDoubleSubmit.cfg` violates `SingleActiveIO`. `__block_write_full_page` unlocks the page before its third loop submits the async-write buffers. Once the first write ends writeback, a second `->writepage` of the re-dirtied page marks another buffer async-write, and the first call's loop also submits it, so two WRITE bios are in flight for one locked buffer (`buffer.c:1689`). The comment of `ll_rw_block` says only one thread can actually submit the I/O.
- `MCLlcSockOops.cfg` violates `NoOops`. A UI frame queued on a SOCK_STREAM socket before `listen()` is taken by `accept()` as a connection. The listener attaches itself to the new socket and is listed twice, and `kfree_skb` runs `sock_rfree` on an skb whose owner `accept` cleared (`llc_sock.c:935`).
- `MCFilePageStale.cfg` violates `FileSpecRefined` with failing reads in `prepare_write`. A write into the hole allocates its block (BH_New is cleared at once, `buffer.c:1808`, and the block is zeroed only in the page), the read of the other, partly written block fails, and `-EIO` at `buffer.c:1850` leaves the new block mapped and never zeroed on disk: `read(2)` returns its former bytes inside `i_size`. Later kernels zero the new buffers on this path.
- `MCFilePageEnospc.cfg` violates `FileSpecRefined`. After a truncate to 1, a write of [1, 3) allocates block 0 (BH_New is cleared at once, `buffer.c:1808`), and `get_block` of block 1 fails with ENOSPC. The `out:` path finds no BH_New buffer to zero. `generic_file_write`'s `vmtruncate` back to `i_size` calls `block_truncate_page`, which reads the never-written block and dirties it, so its stale byte 0 is in the file.
- `MCFilePageMapError.cfg` violates `FileSpecRefined`. `block_read_full_page` zeroes a buffer whose `get_block` failed and sets it uptodate (`buffer.c:1965`). Only PageError records the failure, and `read(2)` then sees byte 2 as 0 instead of 1; a later write would put the zero on disk. Later kernels set the buffer uptodate only when `get_block` succeeded.
- `MCFilePageTruncEio.cfg` violates `FileSpecRefined`. The read in `block_truncate_page` fails (`buffer.c:2232`), so the old byte past the new end stays on disk. A later write past it extends the file and exposes the old byte in the gap. Whether the filesystem's truncate ignores the error is outside this repository; the configuration assumes it does.

- `MCNoMmuOops.cfg` violates `NoOops`. When `do_mmap_pgoff` fails after making the VMA of an anonymous mapping, its shared error exit calls `fput` on the NULL `vm_file` (`nommu.c:565`).
- `MCBufferCacheResurrect.cfg` violates `CleanMatchesDisk` (spec P1). After a failed write, `try_to_free_buffers` and regrowth bring the failed bytes back as a clean uptodate buffer (`buffer.c:961`).
- `MCBufferCacheFsyncLivelock.cfg` violates `FsyncTerminates` under FairSpec. A writer that keeps re-dirtying a bh through `mark_buffer_dirty_inode` keeps fsync in its first loop forever (`buffer.c:801`, against spec §4.7).
- `MCRpcMountLeak.cfg` violates `MountRefsBalanced`. `rpc_get_mount` takes a vfsmount reference for every pin but the first, and `rpc_put_mount` drops one only for the last (`rpc_pipe.c:396`).
- `MCRpcPipeOrphan.cfg` violates `NoUpcallWithoutOwner`. `rpc_queue_upcall` checks only `nreaders`, so an upcall queued after `rpc_unlink` sits on a pipe that refuses every read (`rpc_pipe.c:86`).
- `MCNoMmuTotalVm.cfg` violates `TotalVmAccounting`. The sharing path of `do_mmap_pgoff` returns without adding to `total_vm`, and `do_munmap` subtracts the length anyway, so the unsigned count wraps (`nommu.c:404`).
- `MCLlcSockStale.cfg` violates `LinkTracked`. The remote disconnects while the connection's skb waits on the accept queue. `llc_ui_ind_disc` ignores the not-yet-established sock, and `accept` then marks it TCP_ESTABLISHED on a dead link (`llc_sock.c:1435`).
- `MCLlcSockClosing.cfg` violates `ClosingSettles` under FairSpec. `llc_ui_send_disc` sets TCP_CLOSING before the DISC request. When the core refuses it, no confirm comes and nothing resets the state, unlike `connect`, which resets SYN_SENT when CONN is refused (`llc_sock.c:178`).
- `MCBufferCacheDirtyUptodate.cfg` violates `DirtyImpliesUptodate` (spec P2). `FsWrite` re-dirties a bh whose `ll_rw_block` write is in flight, the write fails, and `end_buffer_io_sync` clears Uptodate. MaxVer=2 is needed so a block can be written twice.
- `MCBufferCacheForget.cfg` violates `ForgetRereads` (spec §8, scenario 4). `__bforget` leaves a dirty bh Uptodate, so `__bread` returns the discarded bytes.
- `MCBufferCacheFsyncUntracked.cfg` violates `DirtyTracked`. A bh re-dirtied while it is on fsync's `tmp` is not refiled on the inode's list, although the comment over `fsync_buffers_list` says it may be. `__remove_assoc_queue` then drops it from every list, and no later fsync writes it.

**Mutants.** Each property of a passing run has a mutant in `PROJECT.json`. The mutant is a plausible bug in the mapped code, and TLC catches it under that run's configuration. Examples:

- `bh_lru_install` without `get_bh`.
- `end_buffer_io_sync` without `put_bh`.
- `fsync_buffers_list` without its `get_bh`.
- `try_to_free_buffers` that does not detach the bhs from the lists.
- `osync_buffers_list` waiting on dirty bhs instead of locked ones.
- `end_buffer_async_write` that does not unlock the bh.
- `rpc_pipe_read` that keeps `private_data`.
- `rpc_get_mount` that does not count the pin.
- `put_vma` without `fput`, and a sorted insert that appends.
- `llc_ui_accept` that does not dequeue the skb, and `llc_ui_release` that leaves the sock on `llc_ui_sockets`.
- `llc_ui_conf_conn` that ignores a failed CONN.
- `__block_prepare_write` that does not zero a new block outside the write, `__block_write_full_page` that cleans buffers it does not submit, `generic_commit_write` setting `i_size` one too far, and `vmtruncate` whose shrinking path skips the filesystem's truncate.
- `leaf_delete_items_entirely` that forgets the freed item heads in `blk_free_space`, `leaf_paste_entries` that does not shift the old entries' locations, `leaf_copy_boundary_item` that tests the wrong item's key, and `leaf_copy_items_entirely` that copies one item too few.

### Bounds

- **K = 2** is the smallest page with a second buffer. The per-page demultiplexing, the "other buffer still busy" branches, partial failure, and a list with two entries all need it.
- **Two threads** are the fewest for a race. In the fsync runs one of them is the fsync caller.
- **An LRU of 1** makes every install of a different bh evict.
- **MaxVer = 1** lets each block be written once. The fsync and P2 configurations use MaxVer = 2, because their cases need a block written while an older write of it is in flight.
- **Pipe bounds.** Three files let one be reading while another is open and a third is opened after unlink. A two-byte message can be read in two parts.
- **Mount bounds.** MaxMounts=3 and MaxOps=3 let both threads lose a `kern_mount` race and re-mount after the last unpin.

- **No-MMU bounds.** Two blocks, two tblocks per process, lengths 1 and 3 pages (3 rounds up to a 4-page block, so `do_mremap` can grow in place), offsets 0 and 1 (an exact and an inexact sharing candidate), and a one-bit `total_vm` (Width 1) in the pass run. `MCNoMmuTotalVm.cfg` uses Width 3, so a wrap is a real wrap.
- **LLC bounds.** Two sockets are the fewest for a listener and an accepting socket, or for two sockets competing for the SAP. One connection sock is enough for a queued-then-accepted connection, and two peers make exact and SAP-wide lookups differ. A receive queue of one skb makes the full-queue drop reachable. Three sockets take over ten minutes.
- **Leaf bounds.** A 32-byte block with a 2-byte block head and 2-byte item heads fills up after a few items, so some moves do not fit and the `Fits` guard matters. An indirect item of two pointers and a three-byte tail let every split point of each kind of item occur. A file end of 70 lets the tail grow by three bytes; truncating the tail away and appending again makes a new direct item after the indirect one. Three entries plus the new names let a directory item be split at every entry and merged back.
- **File page bounds.** One 4-byte page of two 2-byte blocks, values 1 and 2, `i_size` 3. Two blocks per page are the fewest for a write that is partial in one block and whole in another, for a hole beside a mapped block, and for a truncate inside a block. A size of 3 puts the end inside a block, so `block_truncate_page`, the straddling write-back and the zero past the end all occur. Two pages take the state space past a million states without adding a new branch: each call works on one page.

Each passing run finishes within about a minute and a half.

### Fairness

`BufferCache`'s `FairSpec` assumes two kinds of weak fairness:

- **`DeviceComplete`.** The block layer completes every bio it was given.
- **`InOperation(t)`.** This covers each step of a thread that is inside an operation (getblk, bread, a sync wait, readpage, writepage, fsync). The scheduler runs a runnable thread, and the code never gives up half-way.

Starting a new operation, reclaim and `invalidate_inode_buffers` are not fair: the code owes no-one these.

Lock acquisition is not fair either. BH_Lock and the page lock are wait queues without FIFO hand-off, and a thread can lose every race. `LockWaitsEnd` is therefore stated as "either new operations keep starting, or every lock wait ends". `lock_waits` also uses a reliable device.

`LlcSock`'s `FairSpec` makes `ConfConn(k)` and `ConfDisc(k)` weakly fair. The LLC core confirms every CONN and DISC request it accepted, with success or with failure when its acknowledgement timer runs out of retries. The core is outside this repository, so this is an assumption about it. No user call and no indication is fair: a peer owes nothing, and a user may never call again.

`RpcPipe`'s `FairSpec` assumes the daemon reads whenever data is there (`Read`), and closes its file on POLLHUP (`Release` while the owner is gone). Nothing is assumed of it while the owner is there.

`FilePage` has no fairness: `filepage` checks safety and refinement, and read(2)'s view promises nothing about progress.

The other runs check safety. Deadlock is checked in every `BufferCache` run. Only the rpc runs set `CHECK_DEADLOCK FALSE`, because those systems really stop: a thread of `RpcMount` stays idle after `MaxOps` operations, and a pipe whose inode is freed takes no further step. `NoMmu` and `LlcSock` always have a next step (a process can call `brk`; a socket can be created or released), and `LlcSock` stutters after an oops. `lbalance` sets `CHECK_DEADLOCK FALSE`: balancing runs only when an edit calls for it, so a tree none of whose moves fits and whose file is at its bound has no next step, and that is not a fault.

## 4. Findings

`PROJECT.json` → `findings` records the two divergences the violation runs show:

- **Accepted socket connected over a closed link.** A code bug at `llc_sock.c:920`: `llc_ui_accept` locks only the listener, so `llc_ui_ind_disc` can close the new sock between line 919 (TCP_ESTABLISHED) and line 920 (SS_CONNECTED). The socket then reports SS_CONNECTED while its sock is TCP_CLOSE; every other place sets the two together.
- **fsync returns before the bytes are on disk.** `buffer.c:2468`: `ll_rw_block` skips a bh another write has locked. A first fsync submits version 1. `__bforget` takes the bh off `tmp` while the write is in flight. The filesystem writes version 2. The second fsync skips the locked bh, waits for the old write, and returns 0 with version 1 on disk.

The further configurations of section 3 show seventeen more: the stale block after a failed `prepare_write`, the double submit of `__block_write_full_page`, the UI frame accepted as a connection, the stale block after ENOSPC, the zeroed buffer after a failed `get_block` in readpage, old bytes exposed after a failed `block_truncate_page`, the `fput(NULL)` in `do_mmap_pgoff`, spec P1 and P2, spec §4.7 and §8.4, the fsync refiling comment, the rpc_pipefs mount leak and orphaned upcall, `total_vm` accounting of shared mappings, the stale accept and the stuck TCP_CLOSING. The same LLC state space also reaches `accept` dereferencing a NULL skb (`llc_sock.c:911`): `llc_ui_ind_disc` sets `RCV_SHUTDOWN`, the socket listens, and `llc_ui_wait_for_data` returns at once with an empty queue.

## 5. What is not modelled, and why

- **`cont_prepare_write`** serves filesystems without holes (FAT). Its behaviour depends on their `get_block` and `mmu_private`, which are not in this repository.
- **Parts of the file page helpers.** The recover path of `__block_write_full_page` (a dirty unmapped buffer whose `get_block` fails) cannot be reached from the modelled callers. Write I/O errors on file pages, `unmap_underlying_metadata` and `block_sync_page` are not modelled. `FilePage` treats the file's pages and the blockdev buffers of `BufferCache` as separate; aliasing between them is not modelled.
- **bdev invalidation** (`invalidate_bdev`) is not modelled. The reclaim component is therefore `partly`.
- **`__getblk_slow`'s retry against reclaim.** Neither the allocator nor reclaim owes that loop progress, so no liveness property covers it. `LockWaitsEnd` is about lock waits only.
- **The test and insert of `mark_buffer_dirty_inode` as two steps.** The model makes them one step; the race between them is noted as a hazard.
- **The sync system calls and the whole-device flush** only call into code outside this repository.
- **buffer_head slab accounting** is bookkeeping. Its one effect, that allocation may fail, is kept.
- **The legacy wrappers** (`brw_kiovec`, `generic_block_bmap`) add nothing beyond the modelled operations.
- **rpc_pipefs's directory population and dentry handling** (`rpc_populate`, `rpc_depopulate`'s walk, `rpc_get_inode`'s fields) are modelled only by their effect on the pipe and the mount pin.
- **no-MMU mappings, not modelled parts.** Character-device and ROM mappings (`f_op->mmap` other than `generic_file_mmap`), `get_unmapped_area`, `get_user_pages`, the vmalloc wrappers, the `realalloc`/`askedalloc` statistics and the debug dumps. They either call drivers outside the repository or are counters that no property reads.
- **LLC sockets, not modelled parts.** `getname`, `ioctl`, `setsockopt`/`getsockopt` and `/proc` `get_info` only read state or set options that the modelled calls never test. `autoport` numbering, link numbers and the data path's sizes are data. `ack_backlog` is never read: `accept` decrements it and nothing increments it, so it only goes negative. Wait timeouts and signals are not modelled: a wait is the gap until its callback. The LLC core itself is outside the repository.
- **reiserfs leaf balancing, not modelled parts.** `ih_free_space` of indirect items, the delimiting keys `replace_key` writes in the parents, dirty marking and the `REISERFS_FSCK` variant of the merge tests. `do_balance` and the tree search that choose the moves are not in this repository; the model lets every move the code accepts happen.
- **The other files** (ext3, drivers, signal delivery, headers) are outside the scope of `spec.md`. `PROJECT.json` lists each of them with its reason.
