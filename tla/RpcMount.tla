------------------------------ MODULE RpcMount ------------------------------
(***************************************************************************)
(* The pinning of the rpc_pipefs mount in net/sunrpc/rpc_pipe.c:          *)
(* rpc_get_mount and rpc_put_mount, with the callers that pin it: the path *)
(* lookups of rpc_mkdir and rpc_rmdir (rpc_lookup_path, rpc_release_path)  *)
(* and each client directory, which holds a pin from __rpc_mkdir to        *)
(* __rpc_rmdir.  rpc_mkpipe and rpc_unlink pin the mount exactly as the    *)
(* lookup of rpc_mkdir does and are not repeated.                          *)
(*                                                                         *)
(* rpc_get_mount drops rpc_mount_lock around kern_mount, so it is three    *)
(* steps; every other critical section is one step.  A vfsmount is a       *)
(* number 1..MaxMounts with its reference count refs; kern_mount returns a *)
(* new vfsmount holding one reference.  Each thread runs one directory     *)
(* operation at a time on a directory of its own.                          *)
(***************************************************************************)
EXTENDS Integers, FiniteSets

CONSTANTS Threads,
          MaxMounts,    \* bound on kern_mount calls
          MaxOps,       \* bound on the directory operations of a thread
          MountFails,   \* kern_mount may fail (-ENODEV)
          PathFails,    \* path_walk may fail (-ENOENT)
          AllocFails    \* rpc_get_inode / rpc_populate may fail (-ENOMEM)

NoMnt == 0
Mounts == 1 .. MaxMounts

VARIABLES rpcMount,   \* rpc_mount
          count,      \* rpc_mount_count
          refs,       \* mnt_count of each vfsmount
          made,       \* vfsmounts kern_mount has created
          pc,         \* each thread's place in its operation
          op,         \* "mkdir" or "rmdir"
          ret,        \* where rpc_get_mount returns to: "walk" or "mkdir_got"
          local,      \* rpc_get_mount's mnt: the vfsmount of its kern_mount
          nd,         \* nd->mnt of the thread's lookup
          dir,        \* the thread's client directory exists
          ops         \* directory operations the thread has started

vars == <<rpcMount, count, refs, made, pc, op, ret, local, nd, dir, ops>>

Pcs == {"idle", "get1", "get2", "get3", "walk", "mkdir_inode", "mkdir_got",
        "rmdir", "out"}

Init ==
    /\ rpcMount = NoMnt
    /\ count = 0
    /\ refs = [i \in Mounts |-> 0]
    /\ made = 0
    /\ pc = [t \in Threads |-> "idle"]
    /\ op = [t \in Threads |-> "mkdir"]
    /\ ret = [t \in Threads |-> "walk"]
    /\ local = [t \in Threads |-> NoMnt]
    /\ nd = [t \in Threads |-> NoMnt]
    /\ dir = [t \in Threads |-> FALSE]
    /\ ops = [t \in Threads |-> 0]

-----------------------------------------------------------------------------
\* rpc_put_mount, after the caller has changed the references to r: the
\* count drops and only the last put clears rpc_mount and mntputs it.
PutMount(r) ==
    /\ count' = count - 1
    /\ rpcMount' = IF count = 1 THEN NoMnt ELSE rpcMount
    /\ refs' = IF count = 1 THEN [r EXCEPT ![rpcMount] = @ - 1] ELSE r

\* rpc_release_path: path_release(nd) drops nd->mnt, then rpc_put_mount.
ReleasePath(t) ==
    /\ nd' = [nd EXCEPT ![t] = NoMnt]
    /\ PutMount([refs EXCEPT ![nd[t]] = @ - 1])

\* A directory operation starts with rpc_lookup_path, whose first call is
\* rpc_get_mount: rpc_mkdir when the thread's directory does not exist,
\* rpc_rmdir when it does.
Start(t) ==
    /\ pc[t] = "idle"
    /\ ops[t] < MaxOps
    /\ ops' = [ops EXCEPT ![t] = @ + 1]
    /\ pc' = [pc EXCEPT ![t] = "get1"]
    /\ op' = [op EXCEPT ![t] = IF dir[t] THEN "rmdir" ELSE "mkdir"]
    /\ ret' = [ret EXCEPT ![t] = "walk"]
    /\ UNCHANGED <<rpcMount, count, refs, made, local, nd, dir>>

\* rpc_get_mount, first critical section: with rpc_mount set, mntget it
\* and count the pin (out_get); otherwise drop the lock to kern_mount.
GetMount1(t) ==
    /\ pc[t] = "get1"
    /\ IF rpcMount # NoMnt
         THEN /\ refs' = [refs EXCEPT ![rpcMount] = @ + 1]
              /\ count' = count + 1
              /\ pc' = [pc EXCEPT ![t] = ret[t]]
         ELSE /\ pc' = [pc EXCEPT ![t] = "get2"]
              /\ UNCHANGED <<refs, count>>
    /\ UNCHANGED <<rpcMount, made, op, ret, local, nd, dir, ops>>

\* rpc_get_mount, kern_mount outside the lock.  Its failure returns
\* -ENODEV: rpc_lookup_path gives up, while __rpc_mkdir ignores the result.
GetMount2(t) ==
    /\ pc[t] = "get2"
    /\ \/ /\ made < MaxMounts
          /\ made' = made + 1
          /\ refs' = [refs EXCEPT ![made + 1] = 1]
          /\ local' = [local EXCEPT ![t] = made + 1]
          /\ pc' = [pc EXCEPT ![t] = "get3"]
       \/ /\ MountFails
          /\ pc' = [pc EXCEPT ![t] = IF ret[t] = "walk" THEN "idle" ELSE ret[t]]
          /\ UNCHANGED <<made, refs, local>>
    /\ UNCHANGED <<rpcMount, count, op, ret, nd, dir, ops>>

\* rpc_get_mount, second critical section: the first thread to get here
\* installs its vfsmount (out_dontget, the kern_mount reference becomes
\* the pin); a later one mntgets rpc_mount and mntputs its own vfsmount.
GetMount3NoClear(t) ==
    /\ pc[t] = "get3"
    /\ IF rpcMount = NoMnt
         THEN /\ rpcMount' = local[t]
              /\ refs' = [refs EXCEPT ![local[t]] = @ - 1]
         ELSE /\ refs' = [refs EXCEPT ![rpcMount] = @ + 1, ![local[t]] = @ - 1]
              /\ UNCHANGED rpcMount
    /\ count' = count + 1
    /\ local' = [local EXCEPT ![t] = NoMnt]
    /\ pc' = [pc EXCEPT ![t] = ret[t]]
    /\ UNCHANGED <<made, op, ret, nd, dir, ops>>
GetMount3NoCount(t) ==
    /\ pc[t] = "get3"
    /\ IF rpcMount = NoMnt
         THEN /\ rpcMount' = local[t]
              /\ UNCHANGED <<refs, count>>
         ELSE /\ refs' = [refs EXCEPT ![rpcMount] = @ + 1, ![local[t]] = @ - 1]
              /\ count' = count + 1
              /\ UNCHANGED rpcMount
    /\ local' = [local EXCEPT ![t] = NoMnt]
    /\ pc' = [pc EXCEPT ![t] = ret[t]]
    /\ UNCHANGED <<made, op, ret, nd, dir, ops>>
GetMount3(t) ==
    /\ pc[t] = "get3"
    /\ IF rpcMount = NoMnt
         THEN /\ rpcMount' = local[t]
              /\ UNCHANGED refs
         ELSE /\ refs' = [refs EXCEPT ![rpcMount] = @ + 1, ![local[t]] = @ - 1]
              /\ UNCHANGED rpcMount
    /\ count' = count + 1
    /\ local' = [local EXCEPT ![t] = NoMnt]
    /\ pc' = [pc EXCEPT ![t] = ret[t]]
    /\ UNCHANGED <<made, op, ret, nd, dir, ops>>

WalkFailPutsNd(t) ==
    /\ pc[t] = "walk"
    /\ \/ /\ nd' = [nd EXCEPT ![t] = rpcMount]
          /\ refs' = [refs EXCEPT ![rpcMount] = @ + 1]
          /\ pc' = [pc EXCEPT ![t] = IF op[t] = "mkdir" THEN "mkdir_inode" ELSE "rmdir"]
          /\ UNCHANGED <<rpcMount, count>>
       \/ /\ PathFails
          /\ PutMount([refs EXCEPT ![rpcMount] = @ - 1])
          /\ pc' = [pc EXCEPT ![t] = "idle"]
          /\ UNCHANGED nd
    /\ UNCHANGED <<made, op, ret, local, dir, ops>>
\* The rest of rpc_lookup_path: nd->mnt = mntget(rpc_mount), then
\* path_walk.  A failed path_walk has released nd itself, and
\* rpc_lookup_path drops its pin with rpc_put_mount (-ENOENT).
Walk(t) ==
    /\ pc[t] = "walk"
    /\ \/ /\ nd' = [nd EXCEPT ![t] = rpcMount]
          /\ refs' = [refs EXCEPT ![rpcMount] = @ + 1]
          /\ pc' = [pc EXCEPT ![t] = IF op[t] = "mkdir" THEN "mkdir_inode" ELSE "rmdir"]
          /\ UNCHANGED <<rpcMount, count>>
       \/ /\ PathFails
          /\ PutMount(refs)
          /\ pc' = [pc EXCEPT ![t] = "idle"]
          /\ UNCHANGED nd
    /\ UNCHANGED <<made, op, ret, local, dir, ops>>

\* __rpc_rmdir: the emptied directory is removed and its pin dropped.
RemoveDir(t) ==
    /\ dir' = [dir EXCEPT ![t] = FALSE]
    /\ PutMount(refs)

\* rpc_mkdir after rpc_lookup_negative: __rpc_mkdir allocates the inode
\* and pins the mount again with rpc_get_mount; without an inode it
\* fails (-ENOMEM, err_dput) and rpc_release_path ends the lookup.
MkdirInode(t) ==
    /\ pc[t] = "mkdir_inode"
    /\ \/ /\ pc' = [pc EXCEPT ![t] = "get1"]
          /\ ret' = [ret EXCEPT ![t] = "mkdir_got"]
          /\ UNCHANGED <<rpcMount, count, refs, nd>>
       \/ /\ AllocFails
          /\ ReleasePath(t)
          /\ pc' = [pc EXCEPT ![t] = "idle"]
          /\ UNCHANGED ret
    /\ UNCHANGED <<made, op, local, dir, ops>>

\* rpc_mkdir after __rpc_mkdir: rpc_populate creates the info file; if it
\* fails, rpc_depopulate and __rpc_rmdir remove the directory again and
\* drop its pin.  rpc_release_path follows (step Out).
MkdirGot(t) ==
    /\ pc[t] = "mkdir_got"
    /\ \/ /\ dir' = [dir EXCEPT ![t] = TRUE]
          /\ UNCHANGED <<rpcMount, count, refs>>
       \/ /\ AllocFails
          /\ RemoveDir(t)
    /\ pc' = [pc EXCEPT ![t] = "out"]
    /\ UNCHANGED <<made, op, ret, local, nd, ops>>

\* rpc_rmdir after its lookup: lookup_hash, rpc_depopulate, __rpc_rmdir.
Rmdir(t) ==
    /\ pc[t] = "rmdir"
    /\ RemoveDir(t)
    /\ pc' = [pc EXCEPT ![t] = "out"]
    /\ UNCHANGED <<made, op, ret, local, nd, ops>>

\* The out/out_release label of rpc_mkdir and rpc_rmdir: rpc_release_path.
Out(t) ==
    /\ pc[t] = "out"
    /\ ReleasePath(t)
    /\ pc' = [pc EXCEPT ![t] = "idle"]
    /\ UNCHANGED <<made, op, ret, local, dir, ops>>

Next ==
    \E t \in Threads :
        \/ Start(t) \/ GetMount1(t) \/ GetMount2(t) \/ GetMount3(t)
        \/ Walk(t) \/ MkdirInode(t) \/ MkdirGot(t) \/ Rmdir(t) \/ Out(t)

Spec == Init /\ [][Next]_vars

-----------------------------------------------------------------------------
TypeOK ==
    /\ rpcMount \in {NoMnt} \cup Mounts
    /\ count \in Nat
    /\ refs \in [Mounts -> Nat]
    /\ made \in 0 .. MaxMounts
    /\ pc \in [Threads -> Pcs]
    /\ op \in [Threads -> {"mkdir", "rmdir"}]
    /\ ret \in [Threads -> {"walk", "mkdir_got"}]
    /\ local \in [Threads -> {NoMnt} \cup Mounts]
    /\ nd \in [Threads -> {NoMnt} \cup Mounts]
    /\ dir \in [Threads -> BOOLEAN]
    /\ ops \in [Threads -> 0 .. MaxOps]

\* A thread holds a lookup pin from the end of rpc_get_mount in
\* rpc_lookup_path to the rpc_put_mount of rpc_release_path, and a
\* directory pin from the rpc_get_mount of __rpc_mkdir to that of
\* __rpc_rmdir.
LookupPin(t) ==
    \/ pc[t] \in {"walk", "mkdir_inode", "mkdir_got", "rmdir", "out"}
    \/ pc[t] \in {"get1", "get2", "get3"} /\ ret[t] = "mkdir_got"
DirPin(t) == dir[t] \/ pc[t] = "mkdir_got"

\* rpc_mount_count counts exactly the pins the threads hold, and rpc_mount
\* is set exactly while some pin is held: two threads racing through
\* kern_mount, and the result of rpc_get_mount that __rpc_mkdir ignores,
\* must not lose or add a pin.
CountMatchesPins ==
    /\ count = Cardinality({t \in Threads : LookupPin(t)})
                + Cardinality({t \in Threads : DirPin(t)})
    /\ count > 0 <=> rpcMount # NoMnt

\* The references a vfsmount must still have: one per pin while it is
\* rpc_mount, one per lookup's nd->mnt, one for a kern_mount result not yet
\* installed or dropped.
Holders(i) ==
    (IF i = rpcMount THEN count ELSE 0)
      + Cardinality({t \in Threads : nd[t] = i})
      + Cardinality({t \in Threads : local[t] = i})

\* No vfsmount loses a reference its holders still own: rpc_put_mount's
\* mntput of the last pin, rpc_get_mount's mntput of the losing
\* kern_mount and path_release never free a mount in use.
NoPrematurePut == \A i \in 1 .. made : refs[i] >= Holders(i)

\* rpc_get_mount and rpc_put_mount are used as a pair: once every pin and
\* lookup has been dropped a vfsmount keeps no reference, so every
\* reference a vfsmount has belongs to one of its holders.
MountRefsBalanced == \A i \in 1 .. made : refs[i] = Holders(i)

=============================================================================
