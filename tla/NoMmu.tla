------------------------------- MODULE NoMmu -------------------------------
(***************************************************************************)
(* Memory mappings without an MMU, after mm/nommu.c.  Every mapping is a   *)
(* kmalloc'd block; a vm_area_struct describes it and sits on the global   *)
(* nommu_vma_list, sorted by vm_start; each process (mm) keeps a list of   *)
(* mm_tblock_structs that point at the VMAs it maps.  A read-only file     *)
(* mapping is shared: a later mmap of the same file range takes another    *)
(* vm_usage reference on the same VMA instead of copying the file.         *)
(*                                                                         *)
(* do_mmap_pgoff runs under the caller's mmap_sem and nommu_vma_sem, and   *)
(* do_munmap, exit_mmap and do_mremap under mmap_sem with put_vma taking   *)
(* nommu_vma_sem, so each call is one action; processes interleave whole   *)
(* calls.  A VMA is named by its vm_start, the address kmalloc gave its    *)
(* block, so two live VMAs have different names.  Lengths and offsets are  *)
(* in pages.  Error returns that change nothing are left out; their        *)
(* conditions are the guards of the other outcomes.                        *)
(***************************************************************************)
EXTENDS Naturals, Sequences, SequencesExt, FiniteSets

CONSTANTS Procs,        \* processes, one mm each
          Files,        \* regular files (f_op->mmap is generic_file_mmap)
          NoFile,       \* an anonymous mapping's NULL file
          MaxAddr,      \* the blocks kmalloc can hand out for mappings
          MaxMaps,      \* the tblocks kmalloc can hand out to one process
          MapLens,      \* mmap lengths, in pages
          PgOffs,       \* mmap file offsets, in pages
          MaxBrk,       \* mm->context.end_brk; start_brk is 0
          Width,        \* bits of total_vm (unsigned long)
          TraceStates,  \* whether current->ptrace & PT_PTRACED may hold
          AllocFails,   \* kmalloc of a mapping's block may fail
          ReadFails     \* f_op->read of the file may fail

ASSUME NoFile \notin Files

Addrs == 1 .. MaxAddr

\* A free slot of the VMA table.
NoVma == [live |-> FALSE, file |-> NoFile, shared |-> FALSE, pgoff |-> 0,
          len |-> 0, size |-> 0, usage |-> 0, ptraced |-> FALSE]

VARIABLES vma,        \* vm_area_struct of each block: vm_file, VM_SHARED
                      \* (with VM_MAYSHARE), vm_pgoff, vm_end - vm_start,
                      \* kobjsize of the block, vm_usage; and, as history
                      \* only, whether a traced process has mapped it
          vmalist,    \* nommu_vma_list, in list order
          tblock,     \* mm->context.tblock of each process, head first
          totalVm,    \* mm->total_vm
          fcount,     \* file references held by VMAs (get_file / fput)
          brk,        \* mm->brk
          errors      \* oopses reached

vars == <<vma, vmalist, tblock, totalVm, fcount, brk, errors>>

Live == {a \in Addrs : vma[a].live}

\* unsigned long arithmetic on total_vm.
Wrap(n) == n % (2 ^ Width)

\* kobjsize: kmalloc hands out power-of-two sized blocks, so the block of
\* an n-page mapping is the smallest power of two of pages >= n.
RECURSIVE PowerAtLeast(_, _)
PowerAtLeast(n, k) == IF k >= n THEN k ELSE PowerAtLeast(n, 2 * k)
KObjSize(n) == PowerAtLeast(n, 1)

\* The number of times a appears in a tblock list.
Occ(s, a) == Len(SelectSeq(s, LAMBDA x : x = a))

-----------------------------------------------------------------------------
Init ==
    /\ vma = [a \in Addrs |-> NoVma]
    /\ vmalist = <<>>
    /\ tblock = [p \in Procs |-> <<>>]
    /\ totalVm = [p \in Procs |-> 0]
    /\ fcount = [f \in Files |-> 0]
    /\ brk = [p \in Procs |-> 0]
    /\ errors = {}

\* sys_brk: a new break inside [start_brk, end_brk] is taken, growing or
\* shrinking; anything else leaves mm->brk as it is.
SysBrk(p, b) ==
    /\ brk' = [brk EXCEPT ![p] = b]
    /\ UNCHANGED <<vma, vmalist, tblock, totalVm, fcount, errors>>

\* The sharing decision of do_mmap_pgoff for a regular or anonymous
\* mapping: a file mapped without PROT_WRITE, privately or shared, gets
\* VM_SHARED | VM_MAYSHARE, unless the process is being traced.
\* Mutant: the PT_PTRACED test is lost.
CalcSharedTraced(f, write, traced) == f # NoFile /\ ~write

CalcShared(f, write, traced) == f # NoFile /\ ~write /\ ~traced

\* An exact match of the page range.
Exact(a, pgoff, len) == vma[a].len = len /\ vma[a].pgoff = pgoff

\* Mutant: the walk does not skip VMAs without VM_SHARED.
CandidateAnyVma(a, f, pgoff, len, mapShared) ==
    /\ vma[a].file = f
    /\ ~(vma[a].pgoff >= pgoff + len)
    /\ ~(pgoff >= vma[a].pgoff + vma[a].len)
    /\ Exact(a, pgoff, len) \/ mapShared

\* The tests of the nommu_vma_list walk: a VM_SHARED VMA of the same inode
\* whose page range meets [pgoff, pgoff + len) stops the walk if it is an
\* exact match (share it) or if the new mapping is MAP_SHARED (sharing
\* violation); an inexact private overlap is passed over.
Candidate(a, f, pgoff, len, mapShared) ==
    /\ vma[a].shared
    /\ vma[a].file = f
    /\ ~(vma[a].pgoff >= pgoff + len)
    /\ ~(pgoff >= vma[a].pgoff + vma[a].len)
    /\ Exact(a, pgoff, len) \/ mapShared

\* The VMA the walk stops at, if any: the first candidate in list order.
ShareSearch(f, pgoff, len, mapShared) ==
    SelectSeq(vmalist, LAMBDA a : Candidate(a, f, pgoff, len, mapShared))

\* Mutant: sharing without atomic_inc(&vma->vm_usage).
ShareNoGet(p, a, traced) ==
    /\ vma' = [vma EXCEPT ![a].ptraced = @ \/ traced]
    /\ tblock' = [tblock EXCEPT ![p] = <<a>> \o @]
    /\ UNCHANGED <<vmalist, totalVm, fcount, brk, errors>>

\* Found a VMA to share: atomic_inc(&vma->vm_usage) and link a tblock to
\* it.  The code jumps to "shared", past the total_vm update.
Share(p, a, traced) ==
    /\ vma' = [vma EXCEPT ![a].usage = @ + 1, ![a].ptraced = @ \/ traced]
    /\ tblock' = [tblock EXCEPT ![p] = <<a>> \o @]
    /\ UNCHANGED <<vmalist, totalVm, fcount, brk, errors>>

\* Mutant: list_add_tail at the end of nommu_vma_list.
InsertAtEnd(s, a) == Append(s, a)

\* list_add_tail before the first VMA with a larger vm_start.
InsertSorted(s, a) ==
    LET i == SelectInSeq(s, LAMBDA x : x > a)
    IN  InsertAt(s, IF i = 0 THEN Len(s) + 1 ELSE i, a)

\* A new VMA: kmalloc the block at a, copy the file in (generic_file_mmap
\* answers -ENOSYS, so the code falls through to the copy), account the
\* pages in total_vm, insert the VMA in nommu_vma_list and link a tblock.
NewMapping(p, a, f, pgoff, len, shared, traced) ==
    /\ vma' = [vma EXCEPT ![a] = [live |-> TRUE, file |-> f, shared |-> shared,
                                  pgoff |-> pgoff, len |-> len,
                                  size |-> KObjSize(len), usage |-> 1,
                                  ptraced |-> traced]]
    /\ fcount' = IF f = NoFile THEN fcount ELSE [fcount EXCEPT ![f] = @ + 1]
    /\ totalVm' = [totalVm EXCEPT ![p] = Wrap(@ + len)]
    /\ vmalist' = InsertSorted(vmalist, a)
    /\ tblock' = [tblock EXCEPT ![p] = <<a>> \o @]
    /\ UNCHANGED <<brk, errors>>

\* The "error" exit once the VMA exists (the block's kmalloc or the file
\* read failed): fput(vma->vm_file) drops the get_file, and for an
\* anonymous mapping vm_file is NULL, which fput dereferences.
FailAfterVma(f) ==
    /\ errors' = IF f = NoFile THEN errors \cup {"fput_null"} ELSE errors
    /\ UNCHANGED <<vma, vmalist, tblock, totalVm, fcount, brk>>

\* do_mmap_pgoff(file, 0, len, prot, flags, pgoff) of one process.
DoMmapPgoff(p, f, len, pgoff, mapShared, write, traced) ==
    LET shared == CalcShared(f, write, traced)
        found  == IF shared THEN ShareSearch(f, pgoff, len, mapShared) ELSE <<>>
        free   == Addrs \ Live
    IN  /\ ~(mapShared /\ write /\ f # NoFile)
        /\ Len(tblock[p]) < MaxMaps
        /\ \/ /\ found # <<>>
              /\ Exact(Head(found), pgoff, len)
              /\ Share(p, Head(found), traced)
           \/ /\ found = <<>>
              /\ \/ (free = {} \/ AllocFails) /\ FailAfterVma(f)
                 \/ f # NoFile /\ ReadFails /\ free # {} /\ FailAfterVma(f)
                 \/ \E a \in free : NewMapping(p, a, f, pgoff, len, shared, traced)

\* Mutant: put_vma frees the last user's VMA without fput.
PutVmasNoFput(s) ==
    LET freed == {a \in Live : vma[a].usage = Occ(s, a)}
    IN  /\ vma' = [a \in Addrs |-> IF a \in freed THEN NoVma
                                   ELSE [vma[a] EXCEPT !.usage = @ - Occ(s, a)]]
        /\ vmalist' = SelectSeq(vmalist, LAMBDA a : a \notin freed)
        /\ UNCHANGED fcount

\* put_vma: drop one vm_usage reference for each entry of s; a VMA whose
\* count reaches zero leaves nommu_vma_list, its file is fput and its
\* block and structure are freed.
PutVmas(s) ==
    LET freed == {a \in Live : vma[a].usage = Occ(s, a)}
    IN  /\ vma' = [a \in Addrs |-> IF a \in freed THEN NoVma
                                   ELSE [vma[a] EXCEPT !.usage = @ - Occ(s, a)]]
        /\ vmalist' = SelectSeq(vmalist, LAMBDA a : a \notin freed)
        /\ fcount' = [f \in Files |->
                        fcount[f] - Cardinality({a \in freed : vma[a].file = f})]

\* Mutant: total_vm -= len in signed arithmetic.
DoMunmapSigned(p, addr, len) ==
    LET i == SelectInSeq(tblock[p], LAMBDA a : a = addr)
    IN  /\ i # 0
        /\ PutVmas(<<addr>>)
        /\ tblock' = [tblock EXCEPT ![p] = RemoveAt(@, i)]
        /\ totalVm' = [totalVm EXCEPT ![p] = @ - len]
        /\ UNCHANGED <<brk, errors>>

\* do_munmap(mm, addr, len): unlink the first tblock whose VMA starts at
\* addr, put its VMA, and take len pages off total_vm.
DoMunmap(p, addr, len) ==
    LET i == SelectInSeq(tblock[p], LAMBDA a : a = addr)
    IN  /\ i # 0
        /\ PutVmas(<<addr>>)
        /\ tblock' = [tblock EXCEPT ![p] = RemoveAt(@, i)]
        /\ totalVm' = [totalVm EXCEPT ![p] = Wrap(@ + 2 ^ Width - len)]
        /\ UNCHANGED <<brk, errors>>

\* exit_mmap: zero total_vm, then unlink every tblock and put its VMA.
ExitMmap(p) ==
    /\ PutVmas(tblock[p])
    /\ tblock' = [tblock EXCEPT ![p] = <<>>]
    /\ totalVm' = [totalVm EXCEPT ![p] = 0]
    /\ UNCHANGED <<brk, errors>>

\* do_mremap(addr, old_len, new_len, 0, 0): resize a private mapping in
\* place, within the kmalloc'd block.
DoMremap(p, addr, oldLen, newLen) ==
    /\ \E i \in 1 .. Len(tblock[p]) : tblock[p][i] = addr
    /\ vma[addr].len = oldLen
    /\ ~vma[addr].shared
    /\ newLen <= vma[addr].size
    /\ vma' = [vma EXCEPT ![addr].len = newLen]
    /\ UNCHANGED <<vmalist, tblock, totalVm, fcount, brk, errors>>

Next ==
    \E p \in Procs :
        \/ \E f \in Files \cup {NoFile}, len \in MapLens, pgoff \in PgOffs,
              mapShared, write \in BOOLEAN, traced \in TraceStates :
               DoMmapPgoff(p, f, len, pgoff, mapShared, write, traced)
        \/ \E a \in Addrs, len \in MapLens : DoMunmap(p, a, len)
        \/ \E a \in Addrs, o, n \in MapLens \cup {KObjSize(Max(MapLens))} :
               DoMremap(p, a, o, n)
        \/ ExitMmap(p)
        \/ \E b \in 0 .. MaxBrk : SysBrk(p, b)

Spec == Init /\ [][Next]_vars

-----------------------------------------------------------------------------
(* Properties *)

TypeOK ==
    /\ vma \in [Addrs -> [live : BOOLEAN, file : Files \cup {NoFile},
                          shared : BOOLEAN, pgoff : Nat, len : Nat,
                          size : Nat, usage : Nat, ptraced : BOOLEAN]]
    /\ vmalist \in Seq(Addrs)
    /\ tblock \in [Procs -> Seq(Addrs)]
    /\ totalVm \in [Procs -> 0 .. 2 ^ Width - 1]
    /\ fcount \in [Files -> Nat]
    /\ brk \in [Procs -> 0 .. MaxBrk]
    /\ errors \subseteq {"fput_null"}

\* vm_usage counts the tblocks of all processes that point at the VMA, and
\* no tblock points at a freed VMA: sharing in do_mmap_pgoff, put_vma in
\* do_munmap and in exit_mmap (which may put one VMA several times) never
\* free a block another mapping still uses.
UsageMatchesMappers ==
    /\ \A a \in Live :
          vma[a].usage = MapThenSumSet(LAMBDA p : Occ(tblock[p], a), Procs)
    /\ \A p \in Procs : ToSet(tblock[p]) \subseteq Live

\* nommu_vma_list holds every live VMA once, in ascending vm_start, and no
\* freed one: the insertion at "done" and the list_del_init of put_vma
\* keep the list that the sharing search walks exact.
VmaListSound ==
    /\ ToSet(vmalist) = Live
    /\ \A i \in 1 .. Len(vmalist) - 1 : vmalist[i] < vmalist[i + 1]

\* Each live VMA of a file holds one reference to it and a freed one none:
\* get_file when the VMA is made, fput when the last user puts it or
\* when do_mmap_pgoff fails after making it.
FileRefsBalanced ==
    \A f \in Files : fcount[f] = Cardinality({a \in Live : vma[a].file = f})

\* No memory a traced process maps is mapped by anyone else, whichever
\* process mapped the file range first: the debugger's breakpoints in it
\* cannot reach an untraced process (the PT_PTRACED test of
\* do_mmap_pgoff, which keeps the traced process out of the sharing walk
\* and its VMAs out of everyone else's).
TracedNotShared ==
    \A a \in Live : vma[a].ptraced => vma[a].usage = 1

\* mm->total_vm, which /proc reports as VmSize, is the number of pages the
\* process maps: do_mmap_pgoff adds the pages of each mapping, do_munmap
\* subtracts them and exit_mmap zeroes the count.
TotalVmAccounting ==
    \A p \in Procs :
        totalVm[p] = Wrap(MapThenSumSet(LAMBDA a : Occ(tblock[p], a) * vma[a].len,
                                        Addrs))

\* do_mmap_pgoff never oopses: every error exit it takes is safe.
NoOops == errors = {}

=============================================================================
