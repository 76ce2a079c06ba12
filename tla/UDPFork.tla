------------------------------- MODULE UDPFork -------------------------------
(***************************************************************************)
(* UDP-LISTEN,fork and UDP-RECVFROM,fork on one listening socket:          *)
(* udpForkListener, its Accept loop and its session connections            *)
(* (internal/xio/netopen/udp_listen.go, udp_listen_accept.go).             *)
(*                                                                         *)
(* "reuse": the opener is peeked, a child socket is bound to the same port *)
(* and connected to the sender, and what had queued up for it before is    *)
(* handed over.  "exclusive" (reuseaddr=0): the session takes the          *)
(* listening socket, which is bound again when the session is over.        *)
(* "oneshot" (UDP-RECVFROM): one datagram per child on the shared socket.  *)
(* A datagram is <<sender, number>>, numbered as they come.                *)
(***************************************************************************)
EXTENDS Naturals, Sequences, FiniteSets, SequencesExt

CONSTANTS
  Peer, Refused,      \* remote addresses; those the peer filter turns away
  MaxSent,            \* bound: datagrams
  MaxSession,         \* bound: sessions made
  SessionQueue, PendingQueue, DrainLimit,  \* the three packet limits
  DialMaxAttempts     \* udpForkDialMaxAttempts

Session == 1 .. MaxSession
NoPacket == <<>>

VARIABLES
  mode,          \* "reuse", "exclusive" or "oneshot"
  sent,          \* the datagrams sent so far
  q,             \* the receive queue of l.pc
  lsock,         \* l.pc: "open" or "closed"
  fresh,         \* rebindExclusive holds a socket that is not yet l.pc
  handedOff, listenClosed, exclusiveDone,  \* fields under l.mu; 0 is a nil channel
  signalled,     \* the exclusiveDone channels that are closed
  pending,       \* l.pending
  apc,           \* Accept: idle, wait, rebind, recv, filter, dial, connect, consume, pend, drain, handoff, over
  on,            \* the channel waitIfHandedOff waits for
  packet, consumed,   \* the opener; whether it has left the socket
  failedPeer, failedAttempts, drained,
  made,          \* sessions so far
  s,             \* the sessions
  lost           \* datagrams dropped on purpose: a refused peer, a full queue, a dead socket

listenVars == <<lsock, fresh, handedOff, listenClosed, exclusiveDone, signalled>>
loopVars == <<packet, consumed, failedPeer, failedAttempts, drained>>
vars == <<mode, sent, q, listenVars, pending, apc, on, loopVars, made, s, lost>>

NoSession == [st |-> "none", peer |-> NoPacket, role |-> "none", first |-> <<>>,
              queued |-> <<>>, sockq |-> <<>>, got |-> <<>>]

Init ==
  /\ mode \in {"reuse", "exclusive", "oneshot"}
  /\ sent = {} /\ q = <<>> /\ lsock = "open" /\ fresh = FALSE
  /\ handedOff = FALSE /\ listenClosed = FALSE /\ exclusiveDone = 0 /\ signalled = {}
  /\ pending = <<>> /\ apc = "idle" /\ on = 0
  /\ packet = NoPacket /\ consumed = FALSE /\ failedPeer = NoPacket /\ failedAttempts = 0
  /\ drained = 0 /\ made = 0 /\ s = [k \in Session |-> NoSession] /\ lost = {}

Peek == mode = "reuse"
From(p, x) == x[1] = p
SetQueue(k, f, v) == s' = [s EXCEPT ![k] = [@ EXCEPT ![f] = v]]

-----------------------------------------------------------------------------
(* The network: a datagram goes to a socket connected to its sender, else  *)
(* to one that is bound and not connected yet, else to the listening       *)
(* socket unless that is connected to somebody else.                       *)
Arrive(p) ==
  LET x == <<p, Cardinality(sent) + 1>>
      connected == {k \in Session : s[k].st = "live" /\ s[k].role = "connected" /\ s[k].peer = p}
      bound == {k \in Session : s[k].st = "bound"}
      dest == IF connected # {} THEN connected ELSE bound
      holder == {k \in Session : s[k].st = "live" /\ s[k].role = "handoff"}
  IN /\ Cardinality(sent) < MaxSent /\ sent' = sent \cup {x}
     /\ IF dest # {} THEN /\ \E k \in dest : SetQueue(k, "sockq", Append(s[k].sockq, x))
                          /\ UNCHANGED <<q, lost>>
        ELSE IF lsock = "open" /\ \A k \in holder : s[k].peer = p
          THEN q' = Append(q, x) /\ UNCHANGED <<s, lost>>
          ELSE lost' = lost \cup {x} /\ UNCHANGED <<q, s>>
     /\ UNCHANGED <<mode, listenVars, pending, apc, on, loopVars, made>>

-----------------------------------------------------------------------------
(* Accept *)

(* waitIfHandedOff *)
StartAccept ==
  /\ apc = "idle" /\ made < MaxSession
  /\ apc' = IF ~handedOff THEN "recv" ELSE IF listenClosed THEN "over"
            ELSE IF exclusiveDone = 0 THEN "rebind" ELSE "wait"
  /\ on' = exclusiveDone
  /\ packet' = NoPacket /\ consumed' = FALSE /\ failedPeer' = NoPacket /\ failedAttempts' = 0
  /\ UNCHANGED <<mode, sent, q, listenVars, pending, drained, made, s, lost>>

ExclusiveOver ==
  /\ apc = "wait" /\ on \in signalled /\ apc' = "rebind" /\ on' = 0
  /\ UNCHANGED <<mode, sent, q, listenVars, pending, loopVars, made, s, lost>>

(* l.ctx is done while waitIfHandedOff or a receive waits; fork ends. *)
Cancelled ==
  /\ apc \in {"wait", "recv"} /\ apc' = "over"
  /\ UNCHANGED <<mode, sent, q, listenVars, pending, on, loopVars, made, s, lost>>

(* rebindExclusive up to the second lock: the port is bound again, or not. *)
Rebind ==
  /\ apc = "rebind" /\ ~fresh
  /\ IF listenClosed THEN apc' = "over" /\ UNCHANGED fresh
     ELSE \/ fresh' = TRUE /\ UNCHANGED apc
          \/ apc' = "over" /\ UNCHANGED fresh
  /\ UNCHANGED <<mode, sent, q, lsock, handedOff, listenClosed, exclusiveDone, signalled, pending,
                 on, loopVars, made, s, lost>>

(* A plausible slip: Close is not looked at again after the bind. *)
RebindInstallBlind ==
  /\ apc = "rebind" /\ fresh /\ fresh' = FALSE
  /\ lsock' = "open" /\ handedOff' = FALSE /\ exclusiveDone' = 0 /\ pending' = <<>>
  /\ apc' = "recv" /\ q' = <<>> /\ lost' = lost \cup ToSet(q) \cup ToSet(pending)
  /\ UNCHANGED <<mode, sent, listenClosed, signalled, on, loopVars, made, s>>

(* rebindExclusive under the second lock; the old queue went with its socket. *)
RebindInstall ==
  /\ apc = "rebind" /\ fresh /\ fresh' = FALSE
  /\ IF listenClosed
       THEN apc' = "over" /\ UNCHANGED <<lsock, handedOff, exclusiveDone, pending, q, lost>>
       ELSE /\ lsock' = "open" /\ handedOff' = FALSE /\ exclusiveDone' = 0 /\ pending' = <<>>
            /\ apc' = "recv" /\ q' = <<>> /\ lost' = lost \cup ToSet(q) \cup ToSet(pending)
  /\ UNCHANGED <<mode, sent, listenClosed, signalled, on, loopVars, made, s>>

(* receiveOpener: a pending packet first, else the head of the socket      *)
(* queue, which a peek leaves there.                                       *)
ReceiveOpener ==
  /\ apc = "recv" /\ apc' = "filter"
  /\ IF Peek /\ pending # <<>>
       THEN packet' = Head(pending) /\ pending' = Tail(pending) /\ consumed' = TRUE /\ UNCHANGED q
       ELSE /\ lsock = "open" /\ q # <<>> /\ packet' = Head(q) /\ consumed' = ~Peek
            /\ q' = (IF Peek THEN q ELSE Tail(q)) /\ UNCHANGED pending
  /\ UNCHANGED <<mode, sent, listenVars, on, failedPeer, failedAttempts, drained, made, s, lost>>

(* The receive fails: a closed socket, accept-timeout or a socket error.   *)
(* An idle rcvtimeo only waits again.                                      *)
ReceiveFails ==
  /\ apc = "recv" /\ pending = <<>> /\ (lsock = "closed" \/ q = <<>>) /\ apc' = "over"
  /\ UNCHANGED <<mode, sent, q, listenVars, pending, on, loopVars, made, s, lost>>

(* filterPeer: a refused opener is taken off the socket if it was peeked. *)
FilterPeer ==
  /\ apc = "filter"
  /\ IF packet[1] \in Refused
       THEN /\ apc' = "recv" /\ lost' = lost \cup {IF consumed \/ q = <<>> THEN packet ELSE Head(q)}
            /\ q' = IF consumed \/ q = <<>> THEN q ELSE Tail(q)
       ELSE /\ apc' = CASE mode = "reuse" -> "dial" [] mode = "exclusive" -> "handoff" [] OTHER -> "child"
            /\ UNCHANGED <<lost, q>>
  /\ UNCHANGED <<mode, sent, listenVars, pending, on, loopVars, made, s>>

(* dialUDPSession binds the child's socket ... *)
DialBind ==
  /\ apc = "dial" /\ apc' = "connect" /\ made' = made + 1
  /\ s' = [s EXCEPT ![made + 1] = [@ EXCEPT !.st = "bound", !.peer = packet[1], !.role = "connected"]]
  /\ UNCHANGED <<mode, sent, q, listenVars, pending, on, loopVars, lost>>

(* ... and connects it; what other senders reached it before stays in it. *)
DialConnect ==
  /\ apc = "connect" /\ apc' = "consume"
  /\ SetQueue(made, "st", "live") /\ failedPeer' = NoPacket /\ failedAttempts' = 0
  /\ UNCHANGED <<mode, sent, q, listenVars, pending, on, packet, consumed, drained, made, lost>>

(* noteDialFailure: the bind, the connect or an option failed.  The opener *)
(* is tried once more and then taken off the socket; a packet that is not  *)
(* the opener is kept.                                                     *)
DialFails ==
  LET attempts == IF failedPeer = packet[1] THEN failedAttempts + 1 ELSE 1
      dead == IF apc = "connect" THEN ToSet(s[made].sockq) ELSE {}
      drop == IF consumed THEN {packet} ELSE IF q # <<>> /\ From(packet[1], Head(q)) THEN {Head(q)} ELSE {}
      keep == ~consumed /\ q # <<>> /\ ~From(packet[1], Head(q))
  IN /\ apc \in {"dial", "connect"} /\ apc' = "recv"
     /\ s' = IF apc = "connect" THEN [s EXCEPT ![made] = NoSession] ELSE s
     /\ made' = IF apc = "connect" THEN made - 1 ELSE made
     /\ IF attempts < DialMaxAttempts
          THEN /\ failedPeer' = packet[1] /\ failedAttempts' = attempts
               /\ IF consumed
                    THEN LET all == <<packet>> \o pending IN
                         /\ pending' = SubSeq(all, 1, IF Len(all) < PendingQueue THEN Len(all) ELSE PendingQueue)
                         /\ lost' = lost \cup dead \cup (ToSet(all) \ ToSet(pending'))
                    ELSE UNCHANGED pending /\ lost' = lost \cup dead
               /\ UNCHANGED q
          ELSE /\ failedPeer' = NoPacket /\ failedAttempts' = 0
               /\ q' = IF consumed \/ q = <<>> THEN q ELSE Tail(q)
               /\ pending' = IF keep /\ Len(pending) < PendingQueue THEN Append(pending, Head(q)) ELSE pending
               /\ lost' = lost \cup dead \cup drop \cup
                          (IF keep /\ Len(pending) >= PendingQueue THEN {Head(q)} ELSE {})
     /\ UNCHANGED <<mode, sent, listenVars, on, packet, consumed, drained>>

(* Another process that holds the same socket takes the peeked opener. *)
OpenerTaken ==
  /\ apc \in {"dial", "consume"} /\ ~consumed /\ q # <<>> /\ Head(q) = packet
  /\ q' = Tail(q) /\ lost' = lost \cup {packet}
  /\ UNCHANGED <<mode, sent, listenVars, pending, apc, on, loopVars, made, s>>

(* A plausible slip: the peeked opener stays on the socket as well. *)
ConsumePeekedOpenerTwice ==
  /\ apc = "consume" /\ apc' = "pend" /\ SetQueue(made, "first", <<packet>>)
  /\ UNCHANGED <<mode, sent, q, pending, listenVars, on, loopVars, made, lost>>

(* consumePeekedOpener: the opener leaves the socket and becomes the       *)
(* session's first packet; a queue without it, as after an error on the    *)
(* socket, costs the session.                                              *)
ConsumePeekedOpener ==
  /\ apc = "consume"
  /\ IF consumed \/ (q # <<>> /\ From(packet[1], Head(q)))
       THEN /\ SetQueue(made, "first", <<IF consumed THEN packet ELSE Head(q)>>)
            /\ q' = (IF consumed THEN q ELSE Tail(q)) /\ apc' = "pend" /\ UNCHANGED <<pending, made, lost>>
       ELSE /\ s' = [s EXCEPT ![made] = NoSession] /\ made' = made - 1 /\ apc' = "recv"
            /\ q' = (IF q = <<>> THEN q ELSE Tail(q))
            /\ pending' = (IF q # <<>> /\ Len(pending) < PendingQueue THEN Append(pending, Head(q)) ELSE pending)
            /\ lost' = lost \cup ToSet(s[made].sockq) \cup
                       (IF q # <<>> /\ Len(pending) >= PendingQueue THEN {Head(q)} ELSE {})
  /\ UNCHANGED <<mode, sent, listenVars, on, loopVars>>

(* appendUDPForkSessionPacket *)
Room(k) == Len(s[k].queued) < SessionQueue

(* drainForChild, first part: its packets among the pending ones. *)
DrainPending ==
  LET mine == SelectSeq(pending, LAMBDA x : From(s[made].peer, x))
      fits == SubSeq(mine, 1, IF Len(mine) < SessionQueue THEN Len(mine) ELSE SessionQueue)
  IN /\ apc = "pend" /\ apc' = "drain" /\ drained' = 0
     /\ pending' = SelectSeq(pending, LAMBDA x : ~From(s[made].peer, x))
     /\ SetQueue(made, "queued", fits) /\ lost' = lost \cup (ToSet(mine) \ ToSet(fits))
     /\ UNCHANGED <<mode, sent, q, listenVars, on, packet, consumed, failedPeer, failedAttempts, made>>

(* drainForChild, second part: one packet of the socket.  The end of the   *)
(* queue, a read error or the limit hands the session to the child.        *)
DrainSocket ==
  /\ apc = "drain" /\ drained < DrainLimit /\ q # <<>> /\ lsock = "open"
  /\ drained' = drained + 1 /\ q' = Tail(q)
  /\ IF From(s[made].peer, Head(q))
       THEN /\ UNCHANGED pending
            /\ IF Room(made) THEN SetQueue(made, "queued", Append(s[made].queued, Head(q))) /\ UNCHANGED lost
               ELSE lost' = lost \cup {Head(q)} /\ UNCHANGED s
       ELSE /\ UNCHANGED s
            /\ IF Len(pending) < PendingQueue THEN pending' = Append(pending, Head(q)) /\ UNCHANGED lost
               ELSE lost' = lost \cup {Head(q)} /\ UNCHANGED pending
  /\ UNCHANGED <<mode, sent, listenVars, apc, on, packet, consumed, failedPeer, failedAttempts, made>>

DrainOver ==
  /\ apc = "drain" /\ (q = <<>> \/ lsock = "closed" \/ drained = DrainLimit) /\ apc' = "idle"
  /\ UNCHANGED <<mode, sent, q, listenVars, pending, on, loopVars, made, s, lost>>

(* handoffListenSocket; the kernel keeps what other senders had queued. *)
HandoffListenSocket ==
  /\ apc = "handoff"
  /\ IF listenClosed \/ lsock = "closed"
       THEN apc' = "over" /\ lost' = lost \cup {packet} /\ UNCHANGED <<handedOff, exclusiveDone, made, s>>
       ELSE /\ made' = made + 1 /\ handedOff' = TRUE /\ exclusiveDone' = made + 1 /\ apc' = "idle"
            /\ s' = [s EXCEPT ![made + 1] = [@ EXCEPT !.st = "live", !.peer = packet[1],
                                                      !.role = "handoff", !.first = <<packet>>]]
            /\ UNCHANGED lost
  /\ UNCHANGED <<mode, sent, q, lsock, fresh, listenClosed, signalled, pending, on, loopVars>>

(* newUDPOneshotChild *)
OneshotChild ==
  /\ apc = "child" /\ apc' = "idle" /\ made' = made + 1
  /\ s' = [s EXCEPT ![made + 1] = [@ EXCEPT !.st = "live", !.peer = packet[1],
                                            !.role = "oneshot", !.first = <<packet>>]]
  /\ UNCHANGED <<mode, sent, q, listenVars, pending, on, loopVars, lost>>

-----------------------------------------------------------------------------
(* signalExclusiveDone, under l.mu *)
SignalExclusiveDone ==
  /\ signalled' = signalled \cup (IF exclusiveDone = 0 THEN {} ELSE {exclusiveDone})
  /\ exclusiveDone' = 0

(* udpForkListener.Close *)
CloseListener ==
  /\ ~listenClosed /\ listenClosed' = TRUE /\ SignalExclusiveDone
  /\ lsock' = IF handedOff THEN lsock ELSE "closed"
  /\ UNCHANGED <<mode, sent, q, fresh, handedOff, pending, apc, on, loopVars, made, s, lost>>

(* Accept has returned the session. *)
Live(k) == s[k].st = "live" /\ ~(k = made /\ apc \in {"consume", "pend", "drain"})

(* The child reads: its opener, what was queued for it, then its socket.   *)
(* The handed-off socket skips datagrams of other senders.                 *)
Read(k) ==
  LET r == s[k] IN
  /\ Live(k)
  /\ \/ /\ r.first # <<>>
        /\ s' = [s EXCEPT ![k] = [r EXCEPT !.first = <<>>, !.got = Append(@, r.first[1])]]
        /\ UNCHANGED <<q, lost>>
     \/ /\ r.first = <<>> /\ r.queued # <<>>
        /\ s' = [s EXCEPT ![k] = [r EXCEPT !.queued = Tail(@), !.got = Append(@, Head(r.queued))]]
        /\ UNCHANGED <<q, lost>>
     \/ /\ r.first = <<>> /\ r.queued = <<>> /\ r.sockq # <<>>
        /\ s' = [s EXCEPT ![k] = [r EXCEPT !.sockq = Tail(@), !.got = Append(@, Head(r.sockq))]]
        /\ UNCHANGED <<q, lost>>
     \/ /\ r.first = <<>> /\ r.role = "handoff" /\ q # <<>> /\ q' = Tail(q)
        /\ IF From(r.peer, Head(q))
             THEN s' = [s EXCEPT ![k] = [r EXCEPT !.got = Append(@, Head(q))]] /\ UNCHANGED lost
             ELSE lost' = lost \cup {Head(q)} /\ UNCHANGED s
  /\ UNCHANGED <<mode, sent, listenVars, pending, apc, on, loopVars, made>>

(* udpSessionConn.Close and oneshotForkConn.Close; releaseListen. *)
CloseSession(k) ==
  LET r == s[k] IN
  /\ Live(k)
  /\ s' = [s EXCEPT ![k] = [r EXCEPT !.st = "closed", !.first = <<>>, !.queued = <<>>, !.sockq = <<>>]]
  /\ IF r.role = "handoff"
       THEN /\ lsock' = "closed" /\ q' = <<>> /\ lost' = lost \cup ToSet(r.first) \cup ToSet(q)
            /\ IF exclusiveDone = k THEN SignalExclusiveDone ELSE UNCHANGED <<signalled, exclusiveDone>>
       ELSE /\ lost' = lost \cup ToSet(r.first \o r.queued \o r.sockq)
            /\ UNCHANGED <<lsock, q, signalled, exclusiveDone>>
  /\ UNCHANGED <<mode, sent, fresh, handedOff, listenClosed, pending, apc, on, loopVars, made>>

Next ==
  \/ \E p \in Peer : Arrive(p)
  \/ StartAccept \/ ExclusiveOver \/ Cancelled \/ Rebind \/ RebindInstall
  \/ ReceiveOpener \/ ReceiveFails \/ FilterPeer \/ DialBind \/ DialConnect \/ DialFails
  \/ OpenerTaken \/ ConsumePeekedOpener \/ DrainPending \/ DrainSocket \/ DrainOver
  \/ HandoffListenSocket \/ OneshotChild \/ CloseListener
  \/ \E k \in Session : Read(k) \/ CloseSession(k)

Spec == Init /\ [][Next]_vars

-----------------------------------------------------------------------------
(* Every datagram sent is in one place only: on the listening socket, in   *)
(* Accept's hands, pending, with one session (waiting or read), or dropped *)
(* by a limit, a refusal or a closed socket.  And what a session read of   *)
(* its own peer came in the order it was sent (udp_listen_accept.go:       *)
(* peek, dial, consume, drain; udpSessionConn.Read).                       *)
Places(x) ==
  Cardinality({i \in DOMAIN q : q[i] = x}) + Cardinality({i \in DOMAIN pending : pending[i] = x})
  + (IF packet = x /\ consumed /\ apc \in {"filter", "dial", "connect", "consume", "handoff", "child"} THEN 1 ELSE 0)
  + (IF x \in lost THEN 1 ELSE 0)
  + Cardinality({<<k, i>> \in Session \X (1 .. MaxSent) :
                   LET all == s[k].got \o s[k].first \o s[k].queued \o s[k].sockq
                   IN i \in DOMAIN all /\ all[i] = x})

RoutedOnce ==
  /\ \A x \in sent : Places(x) = 1
  /\ \A k \in Session : LET own == SelectSeq(s[k].got, LAMBDA x : From(s[k].peer, x))
                        IN \A i, j \in DOMAIN own : i < j => own[i][2] < own[j][2]

(* Once the listener is closed and Accept has returned, an open listening  *)
(* socket belongs to a session that is still live: rebindExclusive never   *)
(* leaves a socket behind that nobody will close.                          *)
SocketOwned ==
  /\ listenClosed /\ ~handedOff => lsock = "closed"
  /\ handedOff /\ lsock = "open" => \E k \in Session : s[k].role = "handoff" /\ s[k].st = "live"
  /\ apc = "over" => ~fresh
=============================================================================
