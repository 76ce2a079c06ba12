----------------------------- MODULE DatagramIO -----------------------------
(***************************************************************************)
(* Unconnected datagram addresses: *-SENDTO, *-DATAGRAM, *-RECV,           *)
(* *-RECVFROM (one shot and fork) and UDP-LISTEN without fork, over UDP,   *)
(* UNIX, generic and raw IP sockets (internal/xio/netopen/dgram_shared.go, *)
(* udp_dgram.go, unix_dgram.go, socket_dgram.go, rawip.go).                *)
(*                                                                         *)
(* A form says how an address waits for its opener, into which buffer it   *)
(* receives, whom it accepts and whom it answers.  Session 0 is the stream *)
(* of an address without fork; the others are children of a fork listener, *)
(* which write through the listener's socket.  RecvOneCtx leaves a receive *)
(* behind when the context ends first.                                     *)
(***************************************************************************)
EXTENDS Naturals, Sequences, SequencesExt

CONSTANTS
  Peer,               \* senders
  Dest,               \* the configured remote address
  Allowed,            \* senders that range, tcpwrap and the like let pass
  Unnamed,            \* senders without an address (UNIX sockets)
  MaxSent, MaxChild   \* bounds: datagrams that arrive, children made

Size == {"empty", "header", "data"}   \* "header": a raw IPv4 packet without payload
Sock == 0 .. MaxChild
None == "none"

\* wait: is there an opener; via: where a Read receives; check: who is accepted;
\* write: whom a Write goes to; raw: IPv4 headers are stripped.  The kernel
\* checks the peer of IPSendto, whose socket is connected.
Form(wait, via, check, write, raw) ==
  [wait |-> wait, via |-> via, check |-> check, write |-> write, raw |-> raw]
UDPSendto          == Form("no", "caller", "exact", "dest", FALSE)
UDPDatagram        == Form("no", "caller", "range", "dest", FALSE)
UDPRecv            == Form("no", "caller", "range", "none", FALSE)
UDPRecvfrom        == Form("one", "caller", "range", "sender", FALSE)
UDPListenOne       == Form("peer", "caller", "range", "sender", FALSE)
UnixSendto         == Form("no", "scratch", "unix", "dest", FALSE)
UnixRecv           == Form("no", "caller", "all", "none", FALSE)
UnixRecvfrom       == Form("one", "caller", "all", "sender", FALSE)
UnixRecvfromFork   == Form("fork", "caller", "all", "sender", FALSE)
SocketSendto       == Form("no", "scratch", "named", "dest", FALSE)
SocketDatagram     == Form("no", "scratch", "range", "dest", FALSE)
SocketRecv         == Form("no", "scratch", "range", "none", FALSE)
SocketRecvfrom     == Form("one", "scratch", "range", "sender", FALSE)
SocketRecvfromFork == Form("fork", "scratch", "range", "sender", FALSE)
IPSendto           == Form("no", "caller", "exact", "dest", TRUE)
IPDatagram         == Form("no", "caller", "range", "dest", TRUE)
IPRecv             == Form("no", "caller", "range", "none", TRUE)
IPRecvfrom         == Form("one", "caller", "range", "sender", TRUE)
IPRecvfromFork     == Form("fork", "caller", "range", "sender", TRUE)
Forms ==
  { UDPSendto, UDPDatagram, UDPRecv, UDPRecvfrom, UDPListenOne,
    UnixSendto, UnixRecv, UnixRecvfrom, UnixRecvfromFork,
    SocketSendto, SocketDatagram, SocketRecv, SocketRecvfrom, SocketRecvfromFork,
    IPSendto, IPDatagram, IPRecv, IPRecvfrom, IPRecvfromFork }

VARIABLES
  form, nullEOF,
  kq, sent,       \* the socket's receive queue; how many datagrams came
  sock,           \* "open" or "closed"
  ctx,            \* "live" or "done"
  pc,             \* idle, open, ready, read: the opener or accept loop, then the stream
  recv,           \* the receive in flight: NoRecv or [buf, waited, got]
  left,           \* buffers that receives left behind by RecvOneCtx still point at
  sess, made,     \* sessions
  wlock, sockDL   \* the child that holds the listener's writeMu (0: none) and the write deadline of its socket

vars == <<form, nullEOF, kq, sent, sock, ctx, pc, recv, left, sess, made, wlock, sockDL>>

NoRecv == [buf |-> None, got |-> <<>>]
NoSession == [live |-> FALSE, peer |-> None, first |-> <<>>, got |-> <<>>, to |-> {},
              dl |-> "zero", wdl |-> "zero", wpc |-> "idle"]

Init ==
  /\ form \in Forms
  /\ nullEOF \in BOOLEAN
  /\ kq = <<>> /\ sent = 0 /\ sock = "open" /\ ctx = "live"
  /\ pc = IF form.wait = "no" THEN "ready" ELSE "idle"
  /\ recv = NoRecv /\ left = {} /\ made = 0 /\ wlock = 0 /\ sockDL = "zero"
  /\ sess = [k \in Sock |-> IF k = 0 /\ form.wait = "no"
                             THEN [NoSession EXCEPT !.live = TRUE] ELSE NoSession]

\* Whom checkPeer, unixgramAcceptSender, sendtoPeerMatches and AllowAddr accept.
Accepts(from) ==
  CASE form.check = "exact" -> from = Dest
    [] form.check \in {"named", "unix"} -> from = Dest \/ from \in Unnamed
    [] form.check = "range" -> from \in Allowed
    [] form.check = "all"   -> TRUE

\* The wait for an opener drops an empty datagram unless null-eof keeps it;
\* UDP-LISTEN keeps it always.
IgnoreEmptyDatagram(d) == d.size = "empty" /\ ~nullEOF /\ form.wait # "peer"

Payload(d) == IF form.raw /\ d.size = "header" THEN "empty" ELSE d.size

\* RecvOneCtx runs a receive in a goroutine of its own.  A Read of a "caller"
\* form runs on the Read's goroutine.
Waited == pc = "open" \/ form.via = "scratch"
ReadBufferShared == "caller"
ReadBuffer == form.via

StartOpener ==
  /\ pc = "idle" /\ recv = NoRecv /\ made < MaxChild
  /\ pc' = "open" /\ recv' = [NoRecv EXCEPT !.buf = "opener"]
  /\ UNCHANGED <<form, nullEOF, kq, sent, sock, ctx, left, sess, made, wlock, sockDL>>

\* A receive takes the head of the queue, also one that nobody waits for any more.
KernelDelivers ==
  /\ kq # <<>> /\ sock = "open"
  /\ kq' = Tail(kq)
  /\ \/ recv # NoRecv /\ recv.got = <<>> /\ recv' = [recv EXCEPT !.got = <<Head(kq)>>] /\ UNCHANGED left
     \/ \E b \in left : left' = left \ {b} /\ UNCHANGED recv
  /\ UNCHANGED <<form, nullEOF, sent, sock, ctx, pc, sess, made, wlock, sockDL>>

\* ctx ends before the receive does: the caller goes on without it.
RecvCancelled ==
  /\ recv # NoRecv /\ Waited /\ ctx = "done"
  /\ recv' = NoRecv
  /\ left' = IF recv.got = <<>> THEN left \cup {recv.buf} ELSE left
  /\ IF pc = "open" THEN sock' = "closed" /\ pc' = "closed"
                    ELSE pc' = "ready" /\ UNCHANGED sock
  /\ UNCHANGED <<form, nullEOF, kq, sent, ctx, sess, made, wlock, sockDL>>

\* The fork accept loop retries after its receive timeout; accept-timeout ends
\* the wait of UDP-LISTEN.
OpenerTimesOut ==
  /\ pc = "open" /\ recv.got = <<>> /\ form.wait \in {"fork", "peer"}
  /\ recv' = NoRecv
  /\ IF form.wait = "fork" THEN pc' = "idle" /\ UNCHANGED sock
                           ELSE pc' = "closed" /\ sock' = "closed"
  /\ UNCHANGED <<form, nullEOF, kq, sent, ctx, left, sess, made, wlock, sockDL>>

\* waitOneshotPacket and acceptLoop: the filter, the empty datagram, the session.
HandleOpener ==
  /\ pc = "open" /\ recv.got # <<>>
  /\ recv' = NoRecv
  /\ LET d == recv.got[1] IN
     IF ~Accepts(d.from) /\ ctx = "done"
       THEN pc' = "closed" /\ sock' = "closed" /\ UNCHANGED <<sess, made>>
     ELSE IF ~Accepts(d.from) \/ IgnoreEmptyDatagram(d)
       THEN pc' = "idle" /\ UNCHANGED <<sock, sess, made>>
     ELSE LET k == IF form.wait = "fork" THEN made + 1 ELSE 0 IN
          /\ sess' = [sess EXCEPT ![k] = [NoSession EXCEPT !.live = TRUE, !.peer = d.from, !.first = <<d>>]]
          /\ made' = IF form.wait = "fork" THEN k ELSE made
          /\ pc' = IF form.wait = "fork" THEN "idle" ELSE "ready"
          /\ UNCHANGED sock
  /\ UNCHANGED <<form, nullEOF, kq, sent, ctx, left, wlock, sockDL>>

Got(k, x) == sess' = [sess EXCEPT ![k].got = Append(@, x), ![k].first = <<>>]
Delivered(d) == IF Payload(d) = "empty" THEN [from |-> d.from, size |-> "eof", n |-> d.n]
                ELSE [from |-> d.from, size |-> "data", n |-> d.n]

\* Read of a session that has its opener buffered, or is over after it.
ReadFirst(k) ==
  /\ sess[k].live /\ sess[k].first # <<>>
  /\ Got(k, Delivered(sess[k].first[1]))
  /\ UNCHANGED <<form, nullEOF, kq, sent, sock, ctx, pc, recv, left, made, wlock, sockDL>>

Continues == form.wait \in {"no", "peer"}

StartRead ==
  /\ pc = "ready" /\ sock = "open" /\ Continues /\ sess[0].first = <<>> /\ recv = NoRecv
  /\ pc' = "read" /\ recv' = [NoRecv EXCEPT !.buf = ReadBuffer]
  /\ UNCHANGED <<form, nullEOF, kq, sent, sock, ctx, left, sess, made, wlock, sockDL>>

\* filteredPacketReader.Read, and udpRecvFromConn.Read after the opener.
KeepsPacket(d) == IF form.wait = "peer" THEN d.from = sess[0].peer ELSE Accepts(d.from)
HandleRead ==
  /\ pc = "read" /\ recv.got # <<>>
  /\ LET d == recv.got[1] IN
     \/ /\ KeepsPacket(d)
        /\ pc' = "ready" /\ recv' = NoRecv /\ Got(0, Delivered(d))
     \/ /\ ~KeepsPacket(d) /\ (ctx = "live" \/ form.wait = "peer" \/ form = UnixSendto)
        /\ recv' = [recv EXCEPT !.got = <<>>] /\ UNCHANGED <<pc, sess>>
     \/ /\ ~KeepsPacket(d) /\ ctx = "done" /\ form.wait = "no" /\ form # UnixSendto
        /\ pc' = "ready" /\ recv' = NoRecv /\ UNCHANGED sess
  /\ UNCHANGED <<form, nullEOF, kq, sent, sock, ctx, left, made, wlock, sockDL>>

Target(k) ==
  CASE form.write = "dest" -> {Dest} [] form.write = "sender" -> {sess[k].peer} \ {None} [] OTHER -> {}

\* Write of a stream of its own.
WriteStream ==
  /\ sess[0].live /\ sock = "open" /\ pc \in {"ready", "read"}
  /\ sess' = [sess EXCEPT ![0].to = @ \cup Target(0)]
  /\ UNCHANGED <<form, nullEOF, kq, sent, sock, ctx, pc, recv, left, made, wlock, sockDL>>

SetWriteDeadline(k) ==
  /\ k # 0 /\ sess[k].live /\ sess[k].dl = "zero"
  /\ sess' = [sess EXCEPT ![k].dl = "late"]
  /\ UNCHANGED <<form, nullEOF, kq, sent, sock, ctx, pc, recv, left, made, wlock, sockDL>>

\* oneshotForkConn.Write reads its deadline, then writeSharedPacket takes the
\* lock, installs the deadline, writes and clears it.
WriteBegin(k) ==
  /\ k # 0 /\ sess[k].live /\ sess[k].wpc = "idle"
  /\ sess' = [sess EXCEPT ![k].wpc = "lock", ![k].wdl = sess[k].dl]
  /\ UNCHANGED <<form, nullEOF, kq, sent, sock, ctx, pc, recv, left, made, wlock, sockDL>>
WriteLock(k) ==
  /\ sess[k].wpc = "lock" /\ wlock = 0
  /\ wlock' = k /\ sockDL' = sess[k].wdl
  /\ sess' = [sess EXCEPT ![k].wpc = "send"]
  /\ UNCHANGED <<form, nullEOF, kq, sent, sock, ctx, pc, recv, left, made>>
WriteSend(k) ==
  /\ sess[k].wpc = "send"
  /\ sess' = [sess EXCEPT ![k].wpc = "clear",
                          ![k].to = IF sock = "open" /\ sockDL = "zero" THEN @ \cup Target(k) ELSE @]
  /\ UNCHANGED <<form, nullEOF, kq, sent, sock, ctx, pc, recv, left, made, wlock, sockDL>>
WriteClear(k) ==
  /\ sess[k].wpc = "clear"
  /\ wlock' = 0 /\ sockDL' = "zero"
  /\ sess' = [sess EXCEPT ![k].wpc = "idle"]
  /\ UNCHANGED <<form, nullEOF, kq, sent, sock, ctx, pc, recv, left, made>>

\* Close of the stream or the listener ends every receive on the socket.  A
\* child's Close does nothing to it.
CloseSocket ==
  /\ sock = "open" /\ (form.wait = "fork" \/ pc \in {"ready", "read"})
  /\ sock' = "closed" /\ pc' = "closed" /\ recv' = NoRecv /\ left' = {}
  /\ UNCHANGED <<form, nullEOF, kq, sent, ctx, sess, made, wlock, sockDL>>

\* The environment: a datagram comes in; the session's context ends.
Arrive ==
  /\ sent < MaxSent /\ sock = "open"
  /\ sent' = sent + 1
  /\ \E p \in Peer, z \in Size :
       /\ z = "header" => form.raw
       /\ form = IPSendto => p = Dest
       /\ p \in Unnamed => form.check \in {"named", "unix", "all"}
       /\ kq' = Append(kq, [from |-> p, size |-> z, n |-> sent + 1])
  /\ UNCHANGED <<form, nullEOF, sock, ctx, pc, recv, left, sess, made, wlock, sockDL>>
Cancel ==
  /\ ctx = "live" /\ ctx' = "done"
  /\ UNCHANGED <<form, nullEOF, kq, sent, sock, pc, recv, left, sess, made, wlock, sockDL>>

Next ==
  \/ StartOpener \/ KernelDelivers \/ RecvCancelled \/ OpenerTimesOut \/ HandleOpener
  \/ StartRead \/ HandleRead \/ WriteStream \/ CloseSocket \/ Arrive \/ Cancel
  \/ \E k \in Sock : \/ ReadFirst(k) \/ SetWriteDeadline(k) \/ WriteBegin(k)
                     \/ WriteLock(k) \/ WriteSend(k) \/ WriteClear(k)

Spec == Init /\ [][Next]_vars
-----------------------------------------------------------------------------
(* A receive that RecvOneCtx left behind on cancellation never points at   *)
(* the buffer of a Read that has returned: the relay has reused that       *)
(* buffer, and a late datagram would land in it (unixgramConn.Read).       *)
AbandonedReadHarmless == "caller" \notin left

(* A session answers only the sender of the datagram it was opened with,   *)
(* or the configured address; it delivers only senders its filter accepts; *)
(* a one-shot session delivers its opener and nothing else, the opener has *)
(* a payload unless null-eof is set, and no datagram opens two sessions.   *)
OneExchange ==
  /\ \A k \in Sock : sess[k].live =>
       /\ sess[k].to \subseteq (IF form.write = "sender" THEN {sess[k].peer} ELSE {Dest})
       /\ \A x \in ToSet(sess[k].got) : IF form.wait = "no" THEN Accepts(x.from) ELSE x.from = sess[k].peer
       /\ form.wait \in {"one", "fork"} => Len(sess[k].got) + Len(sess[k].first) <= 1
       /\ form.wait \in {"one", "fork"} /\ ~nullEOF /\ ~form.raw
            => \A x \in ToSet(sess[k].got) : x.size = "data"
  /\ \A j, k \in Sock : j # k =>
       {x.n : x \in ToSet(sess[j].got)} \cap {x.n : x \in ToSet(sess[k].got)} = {}

(* Children of a fork listener share its socket, and a child writes under  *)
(* its own deadline: between installing the deadline and writing no other  *)
(* child's deadline takes its place (writeSharedPacket).                   *)
DeadlineIsOwn == \A k \in Sock : sess[k].wpc = "send" => sockDL = sess[k].wdl
=============================================================================
