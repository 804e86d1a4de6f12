------------------------------- MODULE RpcPipe -------------------------------
(***************************************************************************)
(* One rpc_pipefs pipe inode of net/sunrpc/rpc_pipe.c: the upcall queue    *)
(* rpci->pipe that a kernel RPC client fills with rpc_queue_upcall and a   *)
(* user daemon drains through open/read/write/release of the pipe file.    *)
(* Every operation runs under inode->i_sem and is one action, except the   *)
(* first half of rpc_pipe_release, which touches only the file's own       *)
(* private_data and is folded into the release action.                     *)
(*                                                                         *)
(* The inode's life: init_once constructs it (Init), rpc_mkpipe gives it   *)
(* an owner, rpc_unlink (or rpc_depopulate of its directory) takes the     *)
(* owner away, and rpc_destroy_inode returns it to the slab once the last  *)
(* open file is gone.  Messages are model values, each queued at most once *)
(* by the client; a message's length is MsgLen[m] bytes.                   *)
(***************************************************************************)
EXTENDS Integers, Sequences, SequencesExt, FiniteSets

CONSTANTS Files,        \* struct file objects opened on the pipe
          Msgs,         \* struct rpc_pipe_msg objects of the RPC client
          MsgLen,       \* msg->len of each message
          CopyFaults,   \* whether the upcall's copy_to_user may fault
          NoMsg         \* a NULL private_data

ASSUME NoMsg \notin Msgs

\* f_mode of an open file: FMODE_READ, FMODE_WRITE or both
Modes == {{"read"}, {"write"}, {"read", "write"}}

VARIABLES inode,      \* "unborn", "linked", "unlinked", "freed"
          private,    \* rpci->private # NULL
          nreaders,   \* rpci->nreaders
          pipe,       \* rpci->pipe, in list order
          pipelen,    \* rpci->pipelen
          fstate,     \* per file: "closed", "open", "enxio", "released"
          fmode,      \* per file: f_mode
          fpriv,      \* per file: filp->private_data, the message being read
          copied,     \* msg->copied
          mstate,     \* per message: "new", "queued", "rejected" (-EPIPE)
          errno,      \* msg->errno: "none", "ok" (0) or "EPIPE"
          destroyed,  \* number of ops->destroy_msg calls on the message
          handed      \* message taken by the downcall (__rpc_purge_current_upcall)

vars == <<inode, private, nreaders, pipe, pipelen, fstate, fmode, fpriv,
          copied, mstate, errno, destroyed, handed>>

-----------------------------------------------------------------------------
\* The bytes queued on the pipe, as the sum of the queued messages' lengths.
QueuedBytes == FoldSeq(LAMBDA m, acc : MsgLen[m] + acc, 0, pipe)

\* init_once: the slab constructor's state of a struct rpc_inode.
Init ==
    /\ inode = "unborn"
    /\ private = FALSE
    /\ nreaders = 0
    /\ pipe = <<>>
    /\ pipelen = 0
    /\ fstate = [f \in Files |-> "closed"]
    /\ fmode = [f \in Files |-> {}]
    /\ fpriv = [f \in Files |-> NoMsg]
    /\ copied = [m \in Msgs |-> 0]
    /\ mstate = [m \in Msgs |-> "new"]
    /\ errno = [m \in Msgs |-> "none"]
    /\ destroyed = [m \in Msgs |-> 0]
    /\ handed = [m \in Msgs |-> FALSE]

\* __rpc_purge_upcall(inode, err): every queued message gets msg->errno =
\* err and is destroyed, and pipelen becomes 0.  e and d are errno and
\* destroyed as the caller has already changed them.
PurgedErrno(e, err) == [m \in Msgs |-> IF m \in ToSet(pipe) THEN err ELSE e[m]]
PurgedDestroyed(d) == [m \in Msgs |-> IF m \in ToSet(pipe) THEN d[m] + 1 ELSE d[m]]
Purge(e, d, err) ==
    /\ errno' = PurgedErrno(e, err)
    /\ destroyed' = PurgedDestroyed(d)
    /\ pipe' = <<>>
    /\ pipelen' = 0

\* rpc_mkpipe: the dentry is instantiated and rpci->private, rpci->ops set.
MkPipe ==
    /\ inode = "unborn"
    /\ inode' = "linked"
    /\ private' = TRUE
    /\ UNCHANGED <<nreaders, pipe, pipelen, fstate, fmode, fpriv, copied,
                   mstate, errno, destroyed, handed>>

\* rpc_queue_upcall: the message is queued only while a reader is open.
QueueUpcall(m) ==
    /\ inode \in {"linked", "unlinked"}
    /\ mstate[m] = "new"
    /\ IF nreaders # 0
         THEN /\ pipe' = Append(pipe, m)
              /\ pipelen' = pipelen + MsgLen[m]
              /\ mstate' = [mstate EXCEPT ![m] = "queued"]
         ELSE /\ mstate' = [mstate EXCEPT ![m] = "rejected"]
              /\ UNCHANGED <<pipe, pipelen>>
    /\ UNCHANGED <<inode, private, nreaders, fstate, fmode, fpriv, copied,
                   errno, destroyed, handed>>

\* rpc_pipe_open: -ENXIO once the owner is gone; a reader bumps nreaders.
Open(f) ==
    /\ inode \in {"linked", "unlinked"}
    /\ fstate[f] = "closed"
    /\ \E mode \in Modes :
         IF private
           THEN /\ fstate' = [fstate EXCEPT ![f] = "open"]
                /\ fmode' = [fmode EXCEPT ![f] = mode]
                /\ nreaders' = IF "read" \in mode THEN nreaders + 1 ELSE nreaders
           ELSE /\ fstate' = [fstate EXCEPT ![f] = "enxio"]
                /\ UNCHANGED <<fmode, nreaders>>
    /\ UNCHANGED <<inode, private, pipe, pipelen, fpriv, copied, mstate,
                   errno, destroyed, handed>>

\* rpc_pipe_release: a partly read message is failed with -EPIPE and
\* destroyed; a reader drops nreaders; when no reader is left the queue
\* is purged with -EPIPE.  The struct file, and its private_data, are gone.
ReleaseNoPurge(f) ==
    /\ fstate[f] = "open"
    /\ LET cur == fpriv[f]
       IN /\ errno' = IF cur # NoMsg THEN [errno EXCEPT ![cur] = "EPIPE"] ELSE errno
          /\ destroyed' = IF cur # NoMsg THEN [destroyed EXCEPT ![cur] = @ + 1]
                                         ELSE destroyed
    /\ nreaders' = IF "read" \in fmode[f] THEN nreaders - 1 ELSE nreaders
    /\ fstate' = [fstate EXCEPT ![f] = "released"]
    /\ fpriv' = [fpriv EXCEPT ![f] = NoMsg]
    /\ UNCHANGED <<inode, private, pipe, pipelen, fmode, copied, mstate, handed>>
ReleaseLeaksCurrent(f) ==
    /\ fstate[f] = "open"
    /\ LET n == IF "read" \in fmode[f] THEN nreaders - 1 ELSE nreaders
       IN /\ nreaders' = n
          /\ IF n = 0 THEN Purge(errno, destroyed, "EPIPE")
                      ELSE UNCHANGED <<errno, destroyed, pipe, pipelen>>
    /\ fstate' = [fstate EXCEPT ![f] = "released"]
    /\ fpriv' = [fpriv EXCEPT ![f] = NoMsg]
    /\ UNCHANGED <<inode, private, fmode, copied, mstate, handed>>
ReleaseAnyMode(f) ==
    /\ fstate[f] = "open"
    /\ LET cur == fpriv[f]
           e == IF cur # NoMsg THEN [errno EXCEPT ![cur] = "EPIPE"] ELSE errno
           d == IF cur # NoMsg THEN [destroyed EXCEPT ![cur] = @ + 1] ELSE destroyed
           n == nreaders - 1
       IN /\ nreaders' = n
          /\ IF n = 0 THEN Purge(e, d, "EPIPE")
                      ELSE /\ errno' = e
                           /\ destroyed' = d
                           /\ UNCHANGED <<pipe, pipelen>>
    /\ fstate' = [fstate EXCEPT ![f] = "released"]
    /\ fpriv' = [fpriv EXCEPT ![f] = NoMsg]
    /\ UNCHANGED <<inode, private, fmode, copied, mstate, handed>>
Release(f) ==
    /\ fstate[f] = "open"
    /\ LET cur == fpriv[f]
           e == IF cur # NoMsg THEN [errno EXCEPT ![cur] = "EPIPE"] ELSE errno
           d == IF cur # NoMsg THEN [destroyed EXCEPT ![cur] = @ + 1] ELSE destroyed
           n == IF "read" \in fmode[f] THEN nreaders - 1 ELSE nreaders
       IN /\ nreaders' = n
          /\ IF n = 0 THEN Purge(e, d, "EPIPE")
                      ELSE /\ errno' = e
                           /\ destroyed' = d
                           /\ UNCHANGED <<pipe, pipelen>>
    /\ fstate' = [fstate EXCEPT ![f] = "released"]
    /\ fpriv' = [fpriv EXCEPT ![f] = NoMsg]
    /\ UNCHANGED <<inode, private, fmode, copied, mstate, handed>>

\* The results ops->upcall may return for message m: a positive count of
\* bytes copied, at most what is left, or -EFAULT when the copy faults.
UpcallResults(m) ==
    (1 .. (MsgLen[m] - copied[m])) \cup (IF CopyFaults THEN {-1} ELSE {})

\* rpc_pipe_read: -EPIPE without an owner (no step); otherwise the file's
\* current message, or else the head of the queue, is handed to
\* ops->upcall; on an error or once it is fully copied the message is
\* destroyed with errno 0.  An empty pipe returns 0 (no step).
ReadKeepsPriv(f) ==
    /\ fstate[f] = "open" /\ "read" \in fmode[f] /\ private
    /\ fpriv[f] # NoMsg \/ pipe # <<>>
    /\ LET m == IF fpriv[f] # NoMsg THEN fpriv[f] ELSE Head(pipe)
       IN /\ IF fpriv[f] = NoMsg
               THEN /\ pipe' = Tail(pipe)
                    /\ pipelen' = pipelen - MsgLen[m]
               ELSE UNCHANGED <<pipe, pipelen>>
          /\ \E res \in UpcallResults(m) :
               /\ copied' = IF res > 0 THEN [copied EXCEPT ![m] = @ + res] ELSE copied
               /\ fpriv' = [fpriv EXCEPT ![f] = m]
               /\ IF res < 0 \/ copied'[m] = MsgLen[m]
                    THEN /\ errno' = [errno EXCEPT ![m] = "ok"]
                         /\ destroyed' = [destroyed EXCEPT ![m] = @ + 1]
                    ELSE UNCHANGED <<errno, destroyed>>
    /\ UNCHANGED <<inode, private, nreaders, fstate, fmode, mstate, handed>>
ReadNoPipelen(f) ==
    /\ fstate[f] = "open" /\ "read" \in fmode[f] /\ private
    /\ fpriv[f] # NoMsg \/ pipe # <<>>
    /\ LET m == IF fpriv[f] # NoMsg THEN fpriv[f] ELSE Head(pipe)
       IN /\ IF fpriv[f] = NoMsg
               THEN /\ pipe' = Tail(pipe)
                    /\ UNCHANGED pipelen
               ELSE UNCHANGED <<pipe, pipelen>>
          /\ \E res \in UpcallResults(m) :
               /\ copied' = IF res > 0 THEN [copied EXCEPT ![m] = @ + res] ELSE copied
               /\ IF res < 0 \/ copied'[m] = MsgLen[m]
                    THEN /\ fpriv' = [fpriv EXCEPT ![f] = NoMsg]
                         /\ errno' = [errno EXCEPT ![m] = "ok"]
                         /\ destroyed' = [destroyed EXCEPT ![m] = @ + 1]
                    ELSE /\ fpriv' = [fpriv EXCEPT ![f] = m]
                         /\ UNCHANGED <<errno, destroyed>>
    /\ UNCHANGED <<inode, private, nreaders, fstate, fmode, mstate, handed>>
Read(f) ==
    /\ fstate[f] = "open" /\ "read" \in fmode[f] /\ private
    /\ fpriv[f] # NoMsg \/ pipe # <<>>
    /\ LET m == IF fpriv[f] # NoMsg THEN fpriv[f] ELSE Head(pipe)
       IN /\ IF fpriv[f] = NoMsg
               THEN /\ pipe' = Tail(pipe)
                    /\ pipelen' = pipelen - MsgLen[m]
               ELSE UNCHANGED <<pipe, pipelen>>
          /\ \E res \in UpcallResults(m) :
               /\ copied' = IF res > 0 THEN [copied EXCEPT ![m] = @ + res] ELSE copied
               /\ IF res < 0 \/ copied'[m] = MsgLen[m]
                    THEN /\ fpriv' = [fpriv EXCEPT ![f] = NoMsg]
                         /\ errno' = [errno EXCEPT ![m] = "ok"]
                         /\ destroyed' = [destroyed EXCEPT ![m] = @ + 1]
                    ELSE /\ fpriv' = [fpriv EXCEPT ![f] = m]
                         /\ UNCHANGED <<errno, destroyed>>
    /\ UNCHANGED <<inode, private, nreaders, fstate, fmode, mstate, handed>>

\* __rpc_purge_current_upcall(filp): private_data is cleared and the
\* message's errno set to 0; the message belongs to the downcall from then
\* on.
PurgeCurrentUpcall(f) ==
    /\ errno' = [errno EXCEPT ![fpriv[f]] = "ok"]
    /\ handed' = [handed EXCEPT ![fpriv[f]] = TRUE]
    /\ fpriv' = [fpriv EXCEPT ![f] = NoMsg]

\* rpc_pipe_write with an owner calls ops->downcall, which may take the
\* file's current message with __rpc_purge_current_upcall.  A downcall
\* that leaves the pipe's state alone is no step here.
Downcall(f) ==
    /\ fstate[f] = "open" /\ "write" \in fmode[f] /\ private
    /\ fpriv[f] # NoMsg
    /\ PurgeCurrentUpcall(f)
    /\ UNCHANGED <<inode, private, nreaders, pipe, pipelen, fstate, fmode,
                   copied, mstate, destroyed>>

\* rpc_inode_setowner(inode, NULL): the owner is cleared and the queue
\* purged with -EPIPE.
SetOwnerNull ==
    /\ private' = FALSE
    /\ Purge(errno, destroyed, "EPIPE")

\* rpc_unlink (and likewise rpc_depopulate of the pipe's directory): the
\* dentry is dropped and the owner taken away.
Unlink ==
    /\ inode = "linked"
    /\ inode' = "unlinked"
    /\ SetOwnerNull
    /\ UNCHANGED <<nreaders, fstate, fmode, fpriv, copied, mstate, handed>>

\* rpc_destroy_inode: the unlinked inode goes back to the slab once no file
\* holds it.
DestroyInode ==
    /\ inode = "unlinked"
    /\ \A f \in Files : fstate[f] # "open"
    /\ inode' = "freed"
    /\ UNCHANGED <<private, nreaders, pipe, pipelen, fstate, fmode, fpriv,
                   copied, mstate, errno, destroyed, handed>>

\* rpc_pipe_poll: POLLHUP once the owner is gone.
PollHup == ~private

Next ==
    \/ MkPipe \/ Unlink \/ DestroyInode
    \/ \E m \in Msgs : QueueUpcall(m)
    \/ \E f \in Files : Open(f) \/ Read(f) \/ Downcall(f) \/ Release(f)

\* The daemon reads whenever it can (POLLIN) and closes the file on
\* POLLHUP; nothing forces it to close while the owner is there.
Fairness ==
    \A f \in Files : WF_vars(Read(f)) /\ WF_vars(PollHup /\ Release(f))

Spec == Init /\ [][Next]_vars
FairSpec == Spec /\ Fairness


-----------------------------------------------------------------------------
TypeOK ==
    /\ inode \in {"unborn", "linked", "unlinked", "freed"}
    /\ private \in BOOLEAN
    /\ nreaders \in Nat
    /\ pipe \in Seq(Msgs)
    /\ pipelen \in Int
    /\ fstate \in [Files -> {"closed", "open", "enxio", "released"}]
    /\ fmode \in [Files -> Modes \cup {{}}]
    /\ fpriv \in [Files -> Msgs \cup {NoMsg}]
    /\ \A m \in Msgs : copied[m] \in 0 .. MsgLen[m]
    /\ mstate \in [Msgs -> {"new", "queued", "rejected"}]
    /\ errno \in [Msgs -> {"none", "ok", "EPIPE"}]
    /\ destroyed \in [Msgs -> Nat]
    /\ handed \in [Msgs -> BOOLEAN]

\* The number of places an accepted message is in: on the queue, as the
\* private_data of an open file, destroyed (once per destroy_msg call), or
\* taken by the downcall.
Places(m) ==
    Len(SelectSeq(pipe, LAMBDA x : x = m))
      + Cardinality({f \in Files : fpriv[f] = m})
      + destroyed[m]
      + (IF handed[m] THEN 1 ELSE 0)

\* Every message rpc_queue_upcall accepted is in exactly one place: on the
\* queue once, or being read through exactly one file, or destroyed
\* exactly once, or taken by the downcall; a refused one is never touched.
\* Read, release, purge and downcall all hand messages on, and a missed
\* private_data reset would make rpc_pipe_release destroy a message twice.
UpcallOwnedOnce ==
    \A m \in Msgs : Places(m) = IF mstate[m] = "queued" THEN 1 ELSE 0

\* rpci->pipelen, which FIONREAD reports and rpc_pipe_read decrements on
\* dequeue, is the number of bytes of the messages on the queue.
PipeLenAccounting == pipelen = QueuedBytes

\* rpc_destroy_inode hands the rpc_inode back to a slab whose constructor
\* (init_once) runs only once per object, so a freed inode must already
\* be in the constructed state: no owner, no reader, an empty queue.
FreedConstructed ==
    inode = "freed" =>
        /\ ~private /\ nreaders = 0 /\ pipe = <<>> /\ pipelen = 0

\* Every upcall rpc_queue_upcall accepted is eventually finished: read to
\* its end or failed and destroyed, or taken by the downcall, provided the
\* daemon reads while it can and closes the file on POLLHUP.
UpcallFinished ==
    \A m \in Msgs :
        mstate[m] = "queued" ~> (destroyed[m] > 0 \/ handed[m])

\* rpc_inode_setowner(inode, NULL) fails every pending upcall with -EPIPE,
\* and rpc_pipe_read refuses to read once the owner is gone: a pipe
\* without an owner holds no upcall.
NoUpcallWithoutOwner ==
    inode \in {"unlinked", "freed"} => pipe = <<>>

=============================================================================
