----------------------------- MODULE UDPDispatch -----------------------------
(***************************************************************************)
(* UDP-LISTEN,fork where one socket receives for all peers:                *)
(* udpDispatchListener and udpDispatchConn of                              *)
(* internal/xio/netopen/udp_listen_packet_dispatch.go.                     *)
(*                                                                         *)
(* readLoop hands each datagram to the session of its peer, or opens a     *)
(* session for it and offers that to Accept.  Sessions are read and closed *)
(* by fork children, the listener is shut down by its context, by its      *)
(* owner or by readLoop itself.  A critical section of l.mu is one step, a *)
(* channel operation is one step.  Datagrams carry nothing but their peer. *)
(***************************************************************************)
EXTENDS Naturals, Sequences, FiniteSets

CONSTANTS
  Peer,          \* remote addresses
  MaxChild,      \* bound: sessions opened
  MaxPacket,     \* bound: datagrams received
  AcceptQueue,   \* udpDispatchAcceptQueueSize
  PacketQueue,   \* udpDispatchPacketQueueSize
  Readers,       \* the sessions whose reads are modelled
  NoPeer

Child == 1 .. MaxChild
None == 0

ASSUME DispatchAssumption ==
  /\ NoPeer \notin Peer /\ Readers \subseteq Child
  /\ {MaxChild, MaxPacket, AcceptQueue, PacketQueue} \subseteq Nat

VARIABLES
  ldone,      \* l.done is closed
  down,       \* the shutdown function: "no", "clear", "children", "drain", "over"
  doomed,     \* the children it has yet to close
  sessions,   \* l.sessions
  accepts,    \* l.accepts
  rpc,        \* readLoop: "read", "lookup", "enqueue", "register", "offer", "refuse", "over"
  peer,       \* the datagram in its hands
  child,      \* the session it looked up or made
  received, made,     \* how many datagrams, how many sessions so far
  apc,        \* Accept: "idle", "select", "took"
  taken,      \* the session it took from l.accepts
  owner,      \* each session: "none", "loop" (readLoop), "queue", "accept", "user", "lost"
  of,         \* its peer
  cdone,      \* its done channel is closed
  removing,   \* its Close is about to call remove
  queued, pending,    \* packets in its channel; havePending
  rd,         \* its reader: "out", "load", "wait"
  deadline, token     \* readDeadline: "none" or "past"; deadlineChanged holds a token

loopVars == <<rpc, peer, child, received, made>>
listenerVars == <<ldone, down, doomed, accepts, apc, taken>>
childVars == <<owner, of, cdone, removing, queued, pending, rd, deadline, token>>
vars == <<loopVars, listenerVars, sessions, childVars>>

Init ==
  /\ ldone = FALSE /\ down = "no" /\ doomed = {}
  /\ sessions = [p \in Peer |-> None] /\ accepts = <<>>
  /\ rpc = "read" /\ peer = NoPeer /\ child = None /\ received = 0 /\ made = 0
  /\ apc = "idle" /\ taken = None
  /\ owner = [k \in Child |-> "none"] /\ of = [k \in Child |-> NoPeer]
  /\ cdone = [k \in Child |-> FALSE] /\ removing = [k \in Child |-> FALSE]
  /\ queued = [k \in Child |-> 0] /\ pending = [k \in Child |-> FALSE]
  /\ rd = [k \in Child |-> "out"]
  /\ deadline = [k \in Child |-> "none"] /\ token = [k \in Child |-> FALSE]

-----------------------------------------------------------------------------
(* udpDispatchConn.Close: close(done) and, unless another close came       *)
(* first, remove and a token for the reader, in a step of its own.         *)
StartClose(k) ==
  /\ cdone' = [cdone EXCEPT ![k] = TRUE]
  /\ removing' = [removing EXCEPT ![k] = @ \/ ~cdone[k]]

-----------------------------------------------------------------------------
(* readLoop *)

(* ReadUDPMsg: a datagram of an allowed peer; one of another peer only     *)
(* moves the accept deadline, which AcceptFails leaves open.  shutdown     *)
(* closes the socket after l.done and before it clears the map.            *)
Receive(p) ==
  /\ rpc = "read" /\ down \in {"no", "clear"} /\ received < MaxPacket
  /\ received' = received + 1 /\ peer' = p /\ rpc' = "lookup"
  /\ UNCHANGED <<child, made, listenerVars, sessions, childVars>>

(* The read fails, or the peer filter stops the listener: the loop ends,   *)
(* shutting the listener down unless that is why the read failed.          *)
ReceiveFails ==
  /\ rpc = "read" /\ rpc' = "over"
  /\ IF ldone THEN UNCHANGED <<ldone, down>> ELSE ldone' = TRUE /\ down' = "clear"
  /\ UNCHANGED <<peer, child, received, made, doomed, accepts, apc, taken, sessions, childVars>>

Lookup ==
  /\ rpc = "lookup"
  /\ child' = sessions[peer]
  /\ rpc' = (IF sessions[peer] = None THEN "register" ELSE "enqueue")
  /\ UNCHANGED <<peer, received, made, listenerVars, sessions, childVars>>

(* enqueue: a closed session refuses the packet, a full one drops it. *)
Enqueue ==
  /\ rpc = "enqueue"
  /\ \/ /\ cdone[child] /\ rpc' = "register" /\ child' = None
        /\ UNCHANGED <<peer, queued>>
     \/ /\ queued' = [queued EXCEPT ![child] = IF @ < PacketQueue THEN @ + 1 ELSE @]
        /\ ~cdone[child] \/ queued[child] < PacketQueue
        /\ rpc' = "read" /\ child' = None /\ peer' = NoPeer
  /\ UNCHANGED <<received, made, listenerVars, sessions, owner, of, cdone, removing, pending, rd,
                 deadline, token>>

(* A plausible slip: the listener's end is not looked at under l.mu. *)
RegisterAnyway ==
  /\ rpc = "register" /\ made < MaxChild
  /\ made' = made + 1 /\ child' = made + 1
  /\ of' = [of EXCEPT ![made + 1] = peer]
  /\ pending' = [pending EXCEPT ![made + 1] = TRUE]
  /\ owner' = [owner EXCEPT ![made + 1] = "loop"] /\ rpc' = "offer"
  /\ sessions' = [sessions EXCEPT ![peer] = made + 1]
  /\ UNCHANGED <<cdone, peer, received, listenerVars, removing, queued, rd, deadline, token>>

(* A new session, its first packet in pending, enters the map, or is       *)
(* closed when the listener is done.                                       *)
Register ==
  /\ rpc = "register" /\ made < MaxChild
  /\ made' = made + 1 /\ child' = made + 1
  /\ of' = [of EXCEPT ![made + 1] = peer]
  /\ pending' = [pending EXCEPT ![made + 1] = TRUE]
  /\ IF ldone
       THEN /\ owner' = [owner EXCEPT ![made + 1] = "lost"] /\ rpc' = "over"
            /\ StartClose(made + 1) /\ UNCHANGED sessions
       ELSE /\ owner' = [owner EXCEPT ![made + 1] = "loop"] /\ rpc' = "offer"
            /\ sessions' = [sessions EXCEPT ![peer] = made + 1] /\ UNCHANGED <<cdone, removing>>
  /\ UNCHANGED <<peer, received, listenerVars, queued, rd, deadline, token>>

(* The select on l.accepts, l.done and default. *)
Offer ==
  /\ rpc = "offer"
  /\ \/ /\ Len(accepts) < AcceptQueue
        /\ accepts' = Append(accepts, child) /\ owner' = [owner EXCEPT ![child] = "queue"]
        /\ rpc' = "read" /\ child' = None /\ peer' = NoPeer
     \/ /\ ldone \/ Len(accepts) = AcceptQueue
        /\ owner' = [owner EXCEPT ![child] = "lost"]
        /\ rpc' = "refuse" /\ UNCHANGED <<accepts, child, peer>>
  /\ UNCHANGED <<received, made, ldone, down, doomed, apc, taken, sessions, of, cdone, removing,
                 queued, pending, rd, deadline, token>>

-----------------------------------------------------------------------------
(* remove *)

(* remove: only its own entry. *)
Remove(k) ==
  /\ removing[k] /\ removing' = [removing EXCEPT ![k] = FALSE]
  /\ sessions' = [sessions EXCEPT ![of[k]] = IF @ = k THEN None ELSE @]
  /\ token' = [token EXCEPT ![k] = TRUE]
  /\ UNCHANGED <<loopVars, listenerVars, owner, of, cdone, queued, pending, rd, deadline>>

(* readLoop closes the session nobody can accept, and waits for the Close. *)
Refuse ==
  /\ rpc = "refuse"
  /\ \/ ~cdone[child] /\ StartClose(child) /\ UNCHANGED <<rpc, child, peer>>
     \/ /\ cdone[child] /\ ~removing[child]
        /\ rpc' = (IF ldone THEN "over" ELSE "read") /\ child' = None /\ peer' = NoPeer
        /\ UNCHANGED <<cdone, removing>>
  /\ UNCHANGED <<received, made, listenerVars, sessions, owner, of, queued, pending, rd, deadline,
                 token>>

(* A user's Close, from the transfer, from AfterFunc or at the child's end. *)
UserClose(k) ==
  /\ owner[k] = "user" /\ ~cdone[k]
  /\ StartClose(k)
  /\ UNCHANGED <<loopVars, listenerVars, sessions, owner, of, queued, pending, rd, deadline, token>>

-----------------------------------------------------------------------------
(* Accept *)

AcceptEnter ==
  /\ apc = "idle" /\ ~ldone /\ apc' = "select"
  /\ UNCHANGED <<loopVars, ldone, down, doomed, accepts, taken, sessions, childVars>>

AcceptTake ==
  /\ apc = "select" /\ accepts # <<>>
  /\ taken' = Head(accepts) /\ accepts' = Tail(accepts) /\ apc' = "took"
  /\ owner' = [owner EXCEPT ![Head(accepts)] = "accept"]
  /\ UNCHANGED <<loopVars, ldone, down, doomed, sessions, of, cdone, removing, queued, pending, rd,
                 deadline, token>>

(* The connection is the caller's, unless the listener has been closed.    *)
AcceptReturn ==
  /\ apc = "took" /\ apc' = "idle" /\ taken' = None
  /\ IF ldone THEN owner' = [owner EXCEPT ![taken] = "lost"] /\ StartClose(taken)
              ELSE owner' = [owner EXCEPT ![taken] = "user"] /\ UNCHANGED <<cdone, removing>>
  /\ UNCHANGED <<loopVars, ldone, down, doomed, accepts, sessions, of, queued, pending, rd, deadline,
                 token>>

(* The timer fired, and the queue is looked at once more: what is there is *)
(* returned, whatever l.done says.                                         *)
AcceptTakeLate ==
  /\ apc = "select" /\ accepts # <<>>
  /\ accepts' = Tail(accepts) /\ apc' = "idle"
  /\ owner' = [owner EXCEPT ![Head(accepts)] = "user"]
  /\ UNCHANGED <<loopVars, ldone, down, doomed, taken, sessions, of, cdone, removing, queued,
                 pending, rd, deadline, token>>

(* accept-timeout with nothing in the queue, or l.done. *)
AcceptFails ==
  /\ apc = "select" /\ (ldone \/ accepts = <<>>)
  /\ apc' = "idle"
  /\ UNCHANGED <<loopVars, ldone, down, doomed, accepts, taken, sessions, childVars>>

-----------------------------------------------------------------------------
(* shutdown *)

Shutdown ==
  /\ ~ldone /\ ldone' = TRUE /\ down' = "clear"
  /\ UNCHANGED <<loopVars, doomed, accepts, apc, taken, sessions, childVars>>

ShutdownClear ==
  /\ down = "clear" /\ down' = "children"
  /\ doomed' = {sessions[p] : p \in Peer} \ {None}
  /\ sessions' = [p \in Peer |-> None]
  /\ UNCHANGED <<loopVars, ldone, accepts, apc, taken, childVars>>

(* closeFromListener *)
ShutdownChild(k) ==
  /\ down = "children" /\ k \in doomed
  /\ doomed' = doomed \ {k}
  /\ cdone' = [cdone EXCEPT ![k] = TRUE] /\ token' = [token EXCEPT ![k] = @ \/ ~cdone[k]]
  /\ UNCHANGED <<loopVars, ldone, down, accepts, apc, taken, sessions, owner, of, removing, queued,
                 pending, rd, deadline>>

ShutdownDrain ==
  /\ (down = "children" /\ doomed = {}) \/ down = "drain"
  /\ IF accepts = <<>> THEN down' = "over" /\ UNCHANGED <<accepts, owner, cdone, removing>>
     ELSE /\ down' = "drain" /\ accepts' = Tail(accepts)
          /\ owner' = [owner EXCEPT ![Head(accepts)] = "lost"] /\ StartClose(Head(accepts))
  /\ UNCHANGED <<loopVars, ldone, doomed, apc, taken, sessions, of, queued, pending, rd, deadline,
                 token>>

-----------------------------------------------------------------------------
(* A session's reader, and SetReadDeadline. *)

ReadEnter(k) ==
  /\ k \in Readers /\ owner[k] = "user" /\ rd[k] = "out" /\ ~cdone[k]
  /\ IF pending[k] THEN pending' = [pending EXCEPT ![k] = FALSE] /\ UNCHANGED rd
                   ELSE rd' = [rd EXCEPT ![k] = "load"] /\ UNCHANGED pending
  /\ UNCHANGED <<loopVars, listenerVars, sessions, owner, of, cdone, removing, queued, deadline, token>>

(* waitPacket: an expired deadline ends the read, another one waits. *)
ReadLoad(k) ==
  /\ rd[k] = "load"
  /\ rd' = [rd EXCEPT ![k] = IF deadline[k] = "past" THEN "out" ELSE "wait"]
  /\ UNCHANGED <<loopVars, listenerVars, sessions, owner, of, cdone, removing, queued, pending,
                 deadline, token>>

ReadPacket(k) ==
  /\ rd[k] = "wait" /\ queued[k] > 0
  /\ queued' = [queued EXCEPT ![k] = @ - 1] /\ rd' = [rd EXCEPT ![k] = "out"]
  /\ UNCHANGED <<loopVars, listenerVars, sessions, owner, of, cdone, removing, pending, deadline, token>>

ReadToken(k) ==
  /\ rd[k] = "wait" /\ token[k]
  /\ token' = [token EXCEPT ![k] = FALSE] /\ rd' = [rd EXCEPT ![k] = "load"]
  /\ UNCHANGED <<loopVars, listenerVars, sessions, owner, of, cdone, removing, queued, pending, deadline>>

ReadClosed(k) ==
  /\ rd[k] = "wait" /\ cdone[k]
  /\ rd' = [rd EXCEPT ![k] = "out"]
  /\ UNCHANGED <<loopVars, listenerVars, sessions, owner, of, cdone, removing, queued, pending,
                 deadline, token>>

(* A plausible slip: no token for a reader that waits without a deadline. *)
SetReadDeadlineSilent(k, d) ==
  /\ k \in Readers /\ owner[k] = "user" /\ ~cdone[k] /\ deadline[k] # d
  /\ deadline' = [deadline EXCEPT ![k] = d]
  /\ UNCHANGED token
  /\ UNCHANGED <<loopVars, listenerVars, sessions, owner, of, cdone, removing, queued, pending, rd>>

(* The store and the token; a reader between the two sees the new value.   *)
SetReadDeadline(k, d) ==
  /\ k \in Readers /\ owner[k] = "user" /\ ~cdone[k] /\ deadline[k] # d
  /\ deadline' = [deadline EXCEPT ![k] = d]
  /\ token' = [token EXCEPT ![k] = TRUE]
  /\ UNCHANGED <<loopVars, listenerVars, sessions, owner, of, cdone, removing, queued, pending, rd>>

-----------------------------------------------------------------------------
Loop == ReceiveFails \/ Lookup \/ Enqueue \/ Register \/ Offer \/ Refuse
LoopRuns == Lookup \/ Enqueue \/ Register \/ Offer \/ Refuse \/ (ldone /\ ReceiveFails)
Accepting == AcceptEnter \/ AcceptTake \/ AcceptTakeLate \/ AcceptReturn \/ AcceptFails
ShuttingDown == ShutdownClear \/ ShutdownDrain \/ \E k \in Child : ShutdownChild(k)
Reading(k) == ReadEnter(k) \/ ReadLoad(k) \/ ReadPacket(k) \/ ReadToken(k) \/ ReadClosed(k)

Next ==
  \/ Loop \/ \E p \in Peer : Receive(p)
  \/ Accepting \/ Shutdown \/ ShuttingDown
  \/ \E k \in Child : \/ UserClose(k) \/ Remove(k) \/ Reading(k)
                      \/ \E d \in {"none", "past"} : SetReadDeadline(k, d)

Spec == Init /\ [][Next]_vars

(***************************************************************************)
(* Fairness: the goroutines of the listener and of a session's reader run, *)
(* and a read of the closed socket fails.  Nothing is assumed of the peers *)
(* or of the users of a session.                                           *)
(***************************************************************************)
FairSpec ==
  /\ Spec /\ WF_vars(LoopRuns) /\ WF_vars(ShuttingDown) /\ WF_vars(AcceptReturn)
  /\ \A k \in Child : WF_vars(Remove(k)) /\ WF_vars(ReadLoad(k) \/ ReadPacket(k) \/ ReadToken(k) \/ ReadClosed(k))

-----------------------------------------------------------------------------
Live(k) == owner[k] # "none" /\ ~cdone[k]

(* Types; the queues stay within their capacity. *)
TypeOK ==
  /\ {ldone} \subseteq BOOLEAN /\ down \in {"no", "clear", "children", "drain", "over"}
  /\ doomed \subseteq Child /\ sessions \in [Peer -> Child \cup {None}]
  /\ accepts \in Seq(Child) /\ Len(accepts) <= AcceptQueue
  /\ rpc \in {"read", "lookup", "enqueue", "register", "offer", "refuse", "over"}
  /\ peer \in Peer \cup {NoPeer} /\ child \in Child \cup {None}
  /\ received \in 0 .. MaxPacket /\ made \in 0 .. MaxChild
  /\ apc \in {"idle", "select", "took"} /\ taken \in Child \cup {None}
  /\ owner \in [Child -> {"none", "loop", "queue", "accept", "user", "lost"}]
  /\ of \in [Child -> Peer \cup {NoPeer}]
  /\ cdone \in [Child -> BOOLEAN] /\ removing \in [Child -> BOOLEAN]
  /\ queued \in [Child -> 0 .. PacketQueue] /\ pending \in [Child -> BOOLEAN]
  /\ rd \in [Child -> {"out", "load", "wait"}]
  /\ deadline \in [Child -> {"none", "past"}] /\ token \in [Child -> BOOLEAN]

(* Until the listener is shut down every session that is not closed is the *)
(* one its peer's datagrams go to: closing an earlier session of the same  *)
(* peer never cuts a new one off, and no peer has two live sessions.  The  *)
(* map holds no closed session except for the moment in which its Close is *)
(* about to remove it: a peer is never stuck with a dead one.              *)
MapExact ==
  /\ TypeOK
  /\ down \in {"no", "clear"} => \A k \in Child : Live(k) => sessions[of[k]] = k
  /\ \A p \in Peer : sessions[p] # None =>
       of[sessions[p]] = p /\ (cdone[sessions[p]] => removing[sessions[p]])

(* Once shutdown and readLoop are over every session is closed, whichever  *)
(* of them saw it last and wherever it was: in the map, in the loop's      *)
(* hands, in the accept queue or accepted.                                 *)
ShutdownClosesAll ==
  down = "over" /\ rpc = "over" => \A k \in Child : owner[k] # "none" => cdone[k]

(* Every session is either the one its peer reaches or closed.             *)
SessionsExact == MapExact /\ ShutdownClosesAll

(* A deadline set into the past ends a read that is already waiting. *)
DeadlineWakes ==
  \A k \in Child : (rd[k] # "out" /\ deadline[k] = "past") ~> (rd[k] = "out" \/ deadline[k] = "none")

(* Closing a session ends its read. *)
CloseWakes == \A k \in Child : (rd[k] # "out" /\ cdone[k]) ~> rd[k] = "out"

(* readLoop always comes back to its read: no peer that is slow to be      *)
(* accepted or to be read holds up the others.  (The bound on sessions is  *)
(* the one place the model stops.)                                         *)
LoopNeverBlocks == rpc # "read" ~> rpc \in {"read", "over"} \/ (rpc = "register" /\ made = MaxChild)

(* No wait outlasts what ends it: neither a reader's nor the loop's. *)
ReadersWake == DeadlineWakes /\ CloseWakes /\ LoopNeverBlocks
==============================================================================
