------------------------------ MODULE LlcSock ------------------------------
(***************************************************************************)
(* The PF_LLC socket layer of net/llc/llc_sock.c.  User calls (create,     *)
(* bind, connect, listen, accept, recvmsg, sendmsg, shutdown, release) run *)
(* under lock_sock; the LLC core answers through llc_ui_indicate and       *)
(* llc_ui_confirm in bottom-half context, without lock_sock, so a callback *)
(* may run between any two user calls and while a call sleeps in one of    *)
(* the llc_ui_wait_for_* loops.                                            *)
(*                                                                         *)
(* One SAP on one network device, so a bound socket's address reduces to   *)
(* its destination: a remote peer, or none (bound to the whole SAP).  The  *)
(* LLC core, which is not in this repository, is reduced to the state of   *)
(* each socket's LLC2 link: a CONN or DISC request is accepted only for a  *)
(* link that can take it, and may be refused for other reasons (rc != 0); *)
(* it later confirms it; a remote peer may disconnect an open link, open a *)
(* new one (the core allocates the connection's sock and indicates it) or  *)
(* send UI, TEST and XID frames.  llc_sk_free stops the link's timers and  *)
(* the sock leaves the SAP, so a freed sock gets no more callbacks.        *)
(* Each struct socket is used by one thread; an oops is recorded in        *)
(* errors, and the properties speak about the states before one.          *)
(***************************************************************************)
EXTENDS Naturals, Sequences, SequencesExt, FiniteSets

CONSTANTS Socks,      \* struct socket slots; the sock llc_ui_create
                      \* allocates for socket n is named n
          Conns,      \* socks the LLC core allocates for incoming connections
          Peers,      \* remote (MAC, SAP) addresses
          NoPeer,     \* the null address
          NoSk,       \* NULL sock
          NoSock,     \* NULL struct socket
          ReqFails,   \* whether sap->req may refuse a request for its own reasons
          SapBusy,    \* whether llc_sap_open may fail (SAP used by another layer)
          NullMacs,   \* whether bind is called with a null source MAC
          MaxQueue    \* receive-queue length at which sock_queue_rcv_skb fails

ASSUME Socks \cap Conns = {}

Sks == Socks \cup Conns

States == {"close", "listen", "syn_sent", "established", "closing"}
SockStates == {"unconnected", "connecting", "connected"}
Links == {"none", "conn", "up", "disc"}

\* An skb on a receive queue: a connection indication carries the new
\* sock in skb->sk; a UI frame is charged to its receiver by
\* sock_queue_rcv_skb, which also sets skb->sk.
Skbs == [kind : {"conn", "data"}, sk : Sks]

FreeSk == [live |-> FALSE, stream |-> TRUE, st |-> "close", zapped |-> TRUE,
           dev |-> FALSE, peer |-> NoPeer, daddr |-> NoPeer,
           shutdown |-> FALSE, socket |-> NoSock, rq |-> <<>>]

VARIABLES sk,       \* each sock: type, sk->state, zapped, llc->dev set,
                    \* llc->addr's destination, llc->daddr, RCV_SHUTDOWN,
                    \* sk->socket, receive_queue
          sockSk,   \* sock->sk of each struct socket
          sockSt,   \* sock->state of each struct socket
          list,     \* llc_ui_sockets, head first
          link,     \* the LLC core's link of each sock
          pc,       \* "release" while llc_ui_release waits for DISC confirm;
                    \* "accept" while llc_ui_accept is between its two state
                    \* assignments, and "new" for the struct socket it fills
          acc,      \* the new struct socket and the skb kind of that accept
          errors    \* oopses reached

vars == <<sk, sockSk, sockSt, list, link, pc, acc, errors>>

NoAcc == [to |-> NoSock, kind |-> "conn"]

ReqOutcomes == IF ReqFails THEN BOOLEAN ELSE {TRUE}
SapOutcomes == IF SapBusy THEN BOOLEAN ELSE {TRUE}

-----------------------------------------------------------------------------
Init ==
    /\ sk = [k \in Sks |-> FreeSk]
    /\ sockSk = [n \in Socks |-> NoSk]
    /\ sockSt = [n \in Socks |-> "unconnected"]
    /\ list = <<>>
    /\ link = [k \in Sks |-> "none"]
    /\ pc = [n \in Socks |-> "idle"]
    /\ acc = [n \in Socks |-> NoAcc]
    /\ errors = {}

\* llc_ui_find_sap: the SAP is open while a socket on llc_ui_sockets uses it.
SapOpen == list # <<>>

\* __llc_ui_find_sk_by_addr for a frame from r: a listed socket whose
\* destination is exactly r (__llc_ui_find_sk_by_exact), else the first
\* listed socket bound to the whole SAP, else NULL.
FindSk(r) ==
    LET exact == SelectSeq(list, LAMBDA j : sk[j].peer = r)
        open  == SelectSeq(list, LAMBDA j : sk[j].peer = NoPeer)
    IN  IF exact # <<>> THEN Head(exact)
        ELSE IF open # <<>> THEN Head(open) ELSE NoSk

\* Whether llc_ui_autobind with a source MAC that names the device gets
\* the SAP: a new SAP opens (unless llc_sap_open fails); an open one is
\* refused with -EADDRINUSE to a second socket bound to the whole SAP.
CanBind(sapOk) == IF SapOpen THEN FindSk(NoPeer) = NoSk ELSE sapOk

\* The sock after a successful llc_ui_autobind to destination peer.
Bound(k, peer) ==
    [sk[k] EXCEPT !.zapped = FALSE, !.dev = TRUE, !.peer = peer, !.daddr = peer]

\* llc_ui_create: allocate a SOCK_STREAM or SOCK_DGRAM sock, unbound.
Create(n, stream) ==
    /\ sockSk[n] = NoSk
    /\ pc[n] = "idle"
    /\ ~sk[n].live
    /\ sk' = [sk EXCEPT ![n] = [FreeSk EXCEPT !.live = TRUE, !.stream = stream,
                                                !.socket = n]]
    /\ sockSk' = [sockSk EXCEPT ![n] = n]
    /\ sockSt' = [sockSt EXCEPT ![n] = "unconnected"]
    /\ UNCHANGED <<list, link, pc, acc, errors>>

\* llc_ui_bind, which is llc_ui_autobind.  With a source MAC the device is
\* found and llc->dev set before the SAP checks, so a refused bind leaves
\* it set.  With a null MAC llc->dev stays as it was: an open SAP refuses
\* (-EUSERS), and a new SAP reaches memcpy from llc->dev->dev_addr.
Bind(n, peer, nullMac, sapOk) ==
    LET k == sockSk[n] IN
    /\ k # NoSk
    /\ pc[n] = "idle"
    /\ sk[k].zapped
    /\ \/ /\ ~nullMac /\ CanBind(sapOk)
          /\ sk' = [sk EXCEPT ![k] = Bound(k, peer)]
          /\ list' = <<k>> \o list
          /\ UNCHANGED errors
       \/ /\ ~nullMac /\ ~CanBind(sapOk)
          /\ sk' = [sk EXCEPT ![k].dev = TRUE]
          /\ UNCHANGED <<list, errors>>
       \/ /\ nullMac /\ ~SapOpen /\ sapOk /\ ~sk[k].dev
          /\ errors' = errors \cup {"bind_null_dev"}
          /\ UNCHANGED <<sk, list>>
    /\ UNCHANGED <<sockSk, sockSt, link, pc, acc>>

\* llc_ui_connect: autobind an unbound socket; a SOCK_STREAM socket not
\* already connecting goes to SS_CONNECTING / TCP_SYN_SENT and asks the
\* core for a link (llc_ui_send_conn); if the core refuses, both states
\* are reset.  A refused autobind returns with llc->dev set.  Then
\* llc_ui_wait_for_conn sleeps, which changes nothing.
Connect(n, peer, sapOk, reqOk) ==
    LET k    == sockSk[n]
        rec  == IF sk[k].zapped THEN Bound(k, peer) ELSE sk[k]
        lst  == IF sk[k].zapped THEN <<k>> \o list ELSE list
        sent == reqOk /\ link[k] = "none"
    IN  /\ k # NoSk
        /\ pc[n] = "idle"
        /\ \/ /\ sk[k].zapped /\ ~CanBind(sapOk)
              /\ sk' = [sk EXCEPT ![k].dev = TRUE]
              /\ UNCHANGED <<sockSt, list, link>>
           \/ /\ sk[k].zapped => CanBind(sapOk)
              /\ list' = lst
              /\ \/ /\ rec.stream /\ sockSt[n] # "connecting"
                    /\ sk' = [sk EXCEPT ![k] = [rec EXCEPT !.st =
                                         IF sent THEN "syn_sent" ELSE "close"]]
                    /\ sockSt' = [sockSt EXCEPT ![n] =
                                    IF sent THEN "connecting" ELSE "unconnected"]
                    /\ link' = IF sent THEN [link EXCEPT ![k] = "conn"] ELSE link
                 \/ /\ ~rec.stream \/ sockSt[n] = "connecting"
                    /\ sk' = [sk EXCEPT ![k] = rec]
                    /\ UNCHANGED <<sockSt, link>>
        /\ UNCHANGED <<sockSk, pc, acc, errors>>

\* llc_ui_listen: a bound, unconnected SOCK_STREAM socket enters
\* TCP_LISTEN.  (The backlog is recorded but never enforced.)
Listen(n) ==
    LET k == sockSk[n] IN
    /\ k # NoSk
    /\ pc[n] = "idle"
    /\ sockSt[n] = "unconnected"
    /\ sk[k].stream
    /\ ~sk[k].zapped
    /\ sk' = [sk EXCEPT ![k].st = "listen"]
    /\ UNCHANGED <<sockSk, sockSt, list, link, pc, acc, errors>>

\* Mutant: accept attaches the queued sock without dequeuing its skb.
AcceptPeek(n, m) ==
    LET k == sockSk[n] IN
    /\ k # NoSk
    /\ pc[n] = "idle"
    /\ sk[k].stream
    /\ sockSt[n] = "unconnected"
    /\ sk[k].st = "listen"
    /\ m # n
    /\ sockSk[m] = NoSk
    /\ pc[m] = "idle"
    /\ \/ /\ sk[k].shutdown /\ sk[k].rq = <<>>
          /\ errors' = errors \cup {"accept_null_skb"}
          /\ UNCHANGED <<sk, sockSk, pc, acc>>
       \/ /\ sk[k].rq # <<>>
          /\ LET c == Head(sk[k].rq).sk
             IN  /\ sk' = [sk EXCEPT ![c].socket = m, ![c].zapped = FALSE,
                                     ![c].st = "established"]
                 /\ sockSk' = [sockSk EXCEPT ![m] = c]
                 /\ pc' = [pc EXCEPT ![n] = "accept", ![m] = "new"]
                 /\ acc' = [acc EXCEPT ![n] = [to |-> m, kind |-> Head(sk[k].rq).kind]]
                 /\ UNCHANGED errors
    /\ UNCHANGED <<sockSt, list, link>>

\* llc_ui_accept into the fresh struct socket m, up to line 919.
\* llc_ui_wait_for_data returns 0 at once when RCV_SHUTDOWN is set, and
\* sleeps while the queue is empty; an empty queue gives a NULL skb,
\* which the code dereferences.  The dequeued skb's sk is attached to m
\* by llc_ui_sk_init and set TCP_ESTABLISHED.  Only the listener is
\* locked, so a callback on the new sock may run before the next step.
AcceptStart(n, m) ==
    LET k == sockSk[n] IN
    /\ k # NoSk
    /\ pc[n] = "idle"
    /\ sk[k].stream
    /\ sockSt[n] = "unconnected"
    /\ sk[k].st = "listen"
    /\ m # n
    /\ sockSk[m] = NoSk
    /\ pc[m] = "idle"
    /\ \/ /\ sk[k].shutdown /\ sk[k].rq = <<>>
          /\ errors' = errors \cup {"accept_null_skb"}
          /\ UNCHANGED <<sk, sockSk, pc, acc>>
       \/ /\ sk[k].rq # <<>>
          /\ LET c == Head(sk[k].rq).sk
             IN  /\ sk' = [sk EXCEPT ![k].rq = Tail(@),
                                     ![c].socket = m, ![c].zapped = FALSE,
                                     ![c].st = "established"]
                 /\ sockSk' = [sockSk EXCEPT ![m] = c]
                 /\ pc' = [pc EXCEPT ![n] = "accept", ![m] = "new"]
                 /\ acc' = [acc EXCEPT ![n] = [to |-> m, kind |-> Head(sk[k].rq).kind]]
                 /\ UNCHANGED errors
    /\ UNCHANGED <<sockSt, list, link>>

\* The rest of llc_ui_accept: newsock->state = SS_CONNECTED, the new
\* sock's address, the listener put back in TCP_LISTEN, the new sock
\* listed; skb->sk is cleared and kfree_skb runs the skb's destructor,
\* which for a UI frame is sock_rfree and reads skb->sk.
AcceptEnd(n) ==
    LET k == sockSk[n]
        m == acc[n].to
        c == sockSk[m]
    IN  /\ pc[n] = "accept"
        /\ sockSt' = [sockSt EXCEPT ![m] = "connected"]
        /\ sk' = [sk EXCEPT ![c].peer = sk[c].daddr, ![k].st = "listen"]
        /\ list' = <<c>> \o list
        /\ pc' = [pc EXCEPT ![n] = "idle", ![m] = "idle"]
        /\ acc' = [acc EXCEPT ![n] = NoAcc]
        /\ errors' = IF acc[n].kind = "data"
                      THEN errors \cup {"accept_rfree_null"}
                      ELSE errors
        /\ UNCHANGED <<sockSk, link>>

\* llc_ui_recvmsg: llc_ui_wait_for_data, then dequeue and free one skb,
\* whatever it carries; with RCV_SHUTDOWN and nothing queued it returns 0.
RecvMsg(n) ==
    LET k == sockSk[n] IN
    /\ k # NoSk
    /\ pc[n] = "idle"
    /\ sk[k].rq # <<>>
    /\ sk' = [sk EXCEPT ![k].rq = Tail(@)]
    /\ UNCHANGED <<sockSk, sockSt, list, link, pc, acc, errors>>

\* llc_ui_sendmsg to an explicit address: autobind an unbound socket, as
\* connect does; what it sends changes only the core's state.
SendMsg(n, peer, sapOk) ==
    LET k == sockSk[n] IN
    /\ k # NoSk
    /\ pc[n] = "idle"
    /\ sk[k].zapped
    /\ CanBind(sapOk)
    /\ sk' = [sk EXCEPT ![k] = Bound(k, peer)]
    /\ list' = <<k>> \o list
    /\ UNCHANGED <<sockSk, sockSt, link, pc, acc, errors>>

\* llc_ui_send_disc on an established SOCK_STREAM socket: TCP_CLOSING,
\* then the DISC request, which the core takes for an open link.
DiscSent(k, reqOk) == reqOk /\ link[k] = "up"

\* llc_ui_shutdown(SHUT_RDWR): send DISC and wait for its confirm.
Shutdown(n, reqOk) ==
    LET k == sockSk[n] IN
    /\ k # NoSk
    /\ pc[n] = "idle"
    /\ sk[k].st = "established"
    /\ sk' = [sk EXCEPT ![k].st = "closing"]
    /\ link' = IF DiscSent(k, reqOk) THEN [link EXCEPT ![k] = "disc"] ELSE link
    /\ UNCHANGED <<sockSk, sockSt, list, pc, acc, errors>>

\* Mutant: release frees the sock without llc_ui_remove_socket.
FreeSockListed(n) ==
    LET k == sockSk[n] IN
    /\ sk' = [sk EXCEPT ![k] = FreeSk]
    /\ link' = [link EXCEPT ![k] = "none"]
    /\ sockSk' = [sockSk EXCEPT ![n] = NoSk]
    /\ sockSt' = [sockSt EXCEPT ![n] = "unconnected"]
    /\ pc' = [pc EXCEPT ![n] = "idle"]
    /\ UNCHANGED <<list, acc, errors>>

\* The end of llc_ui_release: llc_ui_remove_socket unlinks the sock from
\* llc_ui_sockets, and llc_sk_free frees it with its receive queue, which
\* drops any connection skbs still on it; the core forgets the link.
FreeSock(n) ==
    LET k == sockSk[n] IN
    /\ sk' = [sk EXCEPT ![k] = FreeSk]
    /\ list' = IF k \in ToSet(list)
               THEN RemoveAt(list, SelectInSeq(list, LAMBDA j : j = k))
               ELSE list
    /\ link' = [link EXCEPT ![k] = "none"]
    /\ sockSk' = [sockSk EXCEPT ![n] = NoSk]
    /\ sockSt' = [sockSt EXCEPT ![n] = "unconnected"]
    /\ pc' = [pc EXCEPT ![n] = "idle"]
    /\ UNCHANGED <<acc, errors>>

\* llc_ui_release: an established socket sends DISC; if the core takes it
\* the call sleeps in llc_ui_wait_for_disc, otherwise the sock is freed
\* at once.
ReleaseStart(n, reqOk) ==
    LET k == sockSk[n] IN
    /\ k # NoSk
    /\ pc[n] = "idle"
    /\ \/ /\ sk[k].st = "established" /\ DiscSent(k, reqOk)
          /\ sk' = [sk EXCEPT ![k].st = "closing"]
          /\ link' = [link EXCEPT ![k] = "disc"]
          /\ pc' = [pc EXCEPT ![n] = "release"]
          /\ UNCHANGED <<sockSk, sockSt, list, acc, errors>>
       \/ /\ ~(sk[k].st = "established" /\ DiscSent(k, reqOk))
          /\ FreeSock(n)

\* llc_ui_wait_for_disc returns, on TCP_CLOSE, a signal or the timeout,
\* and llc_ui_release frees the sock whatever it returned.
ReleaseEnd(n) ==
    /\ pc[n] = "release"
    /\ FreeSock(n)

\* Mutant: the frame is put on the queue with skb_queue_tail instead of
\* sock_queue_rcv_skb, so skb->sk stays NULL.
IndUiUnowned(r) ==
    LET s == FindSk(r) IN
    /\ s # NoSk
    /\ sk[s].st # "listen"
    /\ Len(sk[s].rq) < MaxQueue
    /\ sk' = [sk EXCEPT ![s].rq = Append(@, [kind |-> "data", sk |-> NoSk])]
    /\ UNCHANGED <<sockSk, sockSt, list, link, pc, acc, errors>>

\* llc_ui_ind_test, llc_ui_ind_xid, llc_ui_ind_dataunit: a UI frame from
\* r is queued on the socket llc_ui_find_sk_by_addr finds, unless that
\* socket is listening; a full queue drops it.
IndUi(r) ==
    LET s == FindSk(r) IN
    /\ s # NoSk
    /\ sk[s].st # "listen"
    /\ Len(sk[s].rq) < MaxQueue
    /\ sk' = [sk EXCEPT ![s].rq = Append(@, [kind |-> "data", sk |-> s])]
    /\ UNCHANGED <<sockSk, sockSt, list, link, pc, acc, errors>>

\* llc_ui_ind_conn: the core has allocated sock c for a link from r, in
\* TCP_CLOSE and with no struct socket.  If llc_ui_find_sk_by_addr finds a
\* listening SOCK_STREAM parent, the status is good and alloc_skb works,
\* an skb carrying c is queued on the parent; otherwise c is left to the
\* core.  llc_ui_indicate returns 0 either way.
IndConn(r, c, ok) ==
    LET parent == FindSk(r)
        queued == parent # NoSk /\ sk[parent].stream
                  /\ sk[parent].st = "listen" /\ ok
        newsk  == [FreeSk EXCEPT !.live = TRUE, !.daddr = r]
    IN  /\ ~sk[c].live
        /\ link' = [link EXCEPT ![c] = "up"]
        /\ sk' = IF queued
                 THEN [sk EXCEPT ![c] = newsk,
                                 ![parent].rq = Append(@, [kind |-> "conn", sk |-> c])]
                 ELSE [sk EXCEPT ![c] = newsk]
        /\ UNCHANGED <<sockSk, sockSt, list, pc, acc, errors>>

\* llc_ui_ind_disc: the remote closed the link; an established SOCK_STREAM
\* socket gets SHUTDOWN_MASK, SS_UNCONNECTED and TCP_CLOSE.
IndDisc(k) ==
    /\ link[k] = "up"
    /\ link' = [link EXCEPT ![k] = "none"]
    /\ IF sk[k].stream /\ sk[k].st = "established"
       THEN /\ sk' = [sk EXCEPT ![k].shutdown = TRUE, ![k].st = "close"]
            /\ sockSt' = [sockSt EXCEPT ![sk[k].socket] = "unconnected"]
       ELSE UNCHANGED <<sk, sockSt>>
    /\ UNCHANGED <<sockSk, list, pc, acc, errors>>

\* llc_ui_indicate: dispatch of an indication from the core.
LlcIndicate ==
    \/ \E r \in Peers : IndUi(r)
    \/ \E r \in Peers, c \in Conns, ok \in BOOLEAN : IndConn(r, c, ok)
    \/ \E k \in Sks : IndDisc(k)

\* Mutant: a failed CONN confirm is ignored, leaving the socket in SYN_SENT.
ConfConnKeepSt(k, ok) ==
    /\ link[k] = "conn"
    /\ link' = [link EXCEPT ![k] = IF ok THEN "up" ELSE "none"]
    /\ IF sk[k].stream /\ sk[k].st = "syn_sent" /\ ok
       THEN /\ sk' = [sk EXCEPT ![k].st = "established"]
            /\ sockSt' = [sockSt EXCEPT ![sk[k].socket] = "connected"]
       ELSE UNCHANGED <<sk, sockSt>>
    /\ UNCHANGED <<sockSk, list, pc, acc, errors>>

\* llc_ui_conf_conn: the answer to CONN; a SOCK_STREAM socket still in
\* TCP_SYN_SENT becomes connected, or closed if the link failed.
ConfConn(k, ok) ==
    /\ link[k] = "conn"
    /\ link' = [link EXCEPT ![k] = IF ok THEN "up" ELSE "none"]
    /\ IF sk[k].stream /\ sk[k].st = "syn_sent"
       THEN /\ sk' = [sk EXCEPT ![k].st = IF ok THEN "established" ELSE "close"]
            /\ sockSt' = [sockSt EXCEPT ![sk[k].socket] =
                            IF ok THEN "connected" ELSE "unconnected"]
       ELSE UNCHANGED <<sk, sockSt>>
    /\ UNCHANGED <<sockSk, list, pc, acc, errors>>

\* Mutant: the DISC confirm closes sk->state but leaves sock->state.
ConfDiscSkOnly(k) ==
    /\ link[k] = "disc"
    /\ link' = [link EXCEPT ![k] = "none"]
    /\ IF sk[k].stream /\ sk[k].st = "closing"
       THEN sk' = [sk EXCEPT ![k].st = "close"]
       ELSE UNCHANGED sk
    /\ UNCHANGED <<sockSk, sockSt, list, pc, acc, errors>>

\* llc_ui_conf_disc: the answer to DISC; a SOCK_STREAM socket in
\* TCP_CLOSING becomes SS_UNCONNECTED / TCP_CLOSE.
ConfDisc(k) ==
    /\ link[k] = "disc"
    /\ link' = [link EXCEPT ![k] = "none"]
    /\ IF sk[k].stream /\ sk[k].st = "closing"
       THEN /\ sk' = [sk EXCEPT ![k].st = "close"]
            /\ sockSt' = [sockSt EXCEPT ![sk[k].socket] = "unconnected"]
       ELSE UNCHANGED <<sk, sockSt>>
    /\ UNCHANGED <<sockSk, list, pc, acc, errors>>

\* llc_ui_confirm: dispatch of a confirm from the core.
LlcConfirm ==
    \E k \in Sks : \/ \E ok \in BOOLEAN : ConfConn(k, ok)
                   \/ ConfDisc(k)

UserCall(n) ==
    \/ \E stream \in BOOLEAN : Create(n, stream)
    \/ \E peer \in Peers \cup {NoPeer}, nullMac \in NullMacs,
          sapOk \in SapOutcomes : Bind(n, peer, nullMac, sapOk)
    \/ \E peer \in Peers, sapOk \in SapOutcomes, reqOk \in ReqOutcomes :
           Connect(n, peer, sapOk, reqOk)
    \/ Listen(n)
    \/ \E m \in Socks : AcceptStart(n, m)
    \/ AcceptEnd(n)
    \/ RecvMsg(n)
    \/ \E peer \in Peers, sapOk \in SapOutcomes : SendMsg(n, peer, sapOk)
    \/ \E reqOk \in ReqOutcomes : Shutdown(n, reqOk)
    \/ \E reqOk \in ReqOutcomes : ReleaseStart(n, reqOk)
    \/ ReleaseEnd(n)

\* After an oops the system's state is no longer the code's: the model
\* stops there.
Oopsed == errors # {} /\ UNCHANGED vars

Next ==
    \/ /\ errors = {}
       /\ \/ \E n \in Socks : UserCall(n)
          \/ LlcIndicate
          \/ LlcConfirm
    \/ Oopsed

Spec == Init /\ [][Next]_vars

-----------------------------------------------------------------------------
\* No oops has happened yet, and none is under way: an accept that took
\* a UI frame's skb ends in the oops of kfree_skb.  The other properties
\* speak only of such states.
Healthy == errors = {} /\ \A n \in Socks : ~(pc[n] = "accept" /\ acc[n].kind = "data")

\* Type invariant: every sock, socket, the socket list and the core's
\* link table hold values of their types.
TypeOK ==
    /\ sk \in [Sks -> [live : BOOLEAN, stream : BOOLEAN, st : States,
                       zapped : BOOLEAN, dev : BOOLEAN,
                       peer : Peers \cup {NoPeer}, daddr : Peers \cup {NoPeer},
                       shutdown : BOOLEAN, socket : Socks \cup {NoSock},
                       rq : Seq(Skbs)]]
    /\ sockSk \in [Socks -> Sks \cup {NoSk}]
    /\ sockSt \in [Socks -> SockStates]
    /\ list \in Seq(Sks)
    /\ link \in [Sks -> Links]
    /\ pc \in [Socks -> {"idle", "release", "accept", "new"}]
    /\ acc \in [Socks -> [to : Socks \cup {NoSock}, kind : {"conn", "data"}]]
    /\ errors \subseteq {"bind_null_dev", "accept_null_skb", "accept_rfree_null"}

Attached == {n \in Socks : sockSk[n] # NoSk}

SockStateOf(st) ==
    CASE st \in {"close", "listen"}          -> "unconnected"
      [] st = "syn_sent"                     -> "connecting"
      [] st \in {"established", "closing"}   -> "connected"

\* The two state machines agree: for every open socket that a user call
\* has returned (not the struct socket an accept is still filling),
\* sk->sk_socket points back at it, and sock->state (SS_*) is the one
\* sk->sk_state (TCP_*) implies, after any interleaving of user calls,
\* including the two steps of llc_ui_accept, with the callbacks
\* llc_ui_ind_disc, llc_ui_conf_conn and llc_ui_conf_disc, which change
\* both without lock_sock.  llc_ui_accept locks only the listener, so
\* llc_ui_ind_disc can close the new sock between its two assignments.
StatesAgree ==
    Healthy => \A n \in Attached :
                  pc[n] # "new" =>
                     /\ sk[sockSk[n]].socket = n
                     /\ sockSt[n] = SockStateOf(sk[sockSk[n]].st)

\* The socks an llc_ui_accept has attached but not yet listed.
Accepting == {sockSk[m] : m \in {x \in Socks : pc[x] = "new"}}

\* llc_ui_sockets lists every bound, live sock exactly once: bind and
\* autobind insert it, llc_ui_release removes it, accept inserts the new
\* sock at its end, and no sock is listed after llc_sk_free.
ListSound ==
    Healthy => /\ IsInjective(list)
               /\ ToSet(list) = {k \in Sks : sk[k].live /\ ~sk[k].zapped} \ Accepting

\* A socket that llc_ui_accept or llc_ui_conf_conn marked TCP_ESTABLISHED
\* has a link the core holds up: llc_ui_ind_disc has not torn it down
\* behind the socket's back.
LinkTracked ==
    Healthy => \A n \in Attached :
                  sk[sockSk[n]].st = "established" => link[sockSk[n]] = "up"

\* No user call or callback dereferences NULL: bind with a null device
\* address, accept dequeuing no skb, or kfree_skb of an skb without owner.
NoOops == errors = {}

\* A sock the core allocated for an incoming connection is handed to
\* user space at most once: its conn skb sits on one receive queue, once,
\* or it is attached to one accepted socket, never both.
ConnHandedOnce ==
    Healthy => \A c \in Conns :
        LET ConnSkb(b) == b.kind = "conn" /\ b.sk = c
            queued   == {k \in Sks : \E i \in 1 .. Len(sk[k].rq) : ConnSkb(sk[k].rq[i])}
            attached == {n \in Socks : sockSk[n] = c}
        IN  /\ Cardinality(queued) + Cardinality(attached) <= 1
            /\ \A k \in queued : Len(SelectSeq(sk[k].rq, ConnSkb)) = 1

\* The core answers every CONN and DISC request it accepted: its ack and
\* retry timers end in a confirm, so ConfConn and ConfDisc are weakly fair.
FairSpec ==
    /\ Spec
    /\ \A k \in Sks : /\ WF_vars(\E ok \in BOOLEAN : ConfConn(k, ok))
                     /\ WF_vars(ConfDisc(k))

\* A connect the core accepted ends: llc_ui_conf_conn takes a socket out
\* of TCP_SYN_SENT, to TCP_ESTABLISHED or TCP_CLOSE.
ConnectSettles ==
    \A k \in Sks : Healthy /\ sk[k].st = "syn_sent" ~> ~Healthy \/ sk[k].st # "syn_sent"

\* A disconnect ends: a socket in TCP_CLOSING, set by llc_ui_send_disc,
\* is eventually closed by llc_ui_conf_disc.
ClosingSettles ==
    \A k \in Sks : Healthy /\ sk[k].st = "closing" ~> ~Healthy \/ sk[k].st # "closing"

=============================================================================
