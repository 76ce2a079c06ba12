----------------------------- MODULE DTLSPost ------------------------------
(***************************************************************************)
(* A completed DTLS 1.3 association of internal/dtls13: key updates         *)
(* (post_handshake.go), connection IDs (connection_id.go) and validation of *)
(* a new client address (path.go), over a network that loses, delays and    *)
(* reorders records and a NAT that gives the client another address.        *)
(*                                                                          *)
(* Every message here fits one fragment, so that an acknowledgement of any  *)
(* of its records acknowledges the message: it is named by the message's    *)
(* sequence number.  A side's state is one record; an operator takes it to  *)
(* the state after a call, and "wire" collects the records the call sends.  *)
(***************************************************************************)
EXTENDS Integers, Sequences, FiniteSets, SequencesExt

CONSTANTS
    MaxConnectionIDs,   \* maxConnectionIDs
    RequestCount,       \* the IDs a request asks for
    MaxFlightRetries,   \* maxFlightRetries
    MaxEvents           \* bound: commands, address changes, losses, overtakings, early timers

VARIABLES
    cids,      \* connection IDs and return routability were negotiated
    moves,     \* how often the client's address has changed
    st,        \* the two sessions
    net,       \* the records under way to each side
    events     \* how many commands, address changes and faults there were

vars == <<cids, moves, st, net, events>>

Sides == {"C", "S"}
Peer(x) == IF x = "C" THEN "S" ELSE "C"

KeyUpdate == "KeyUpdate"
NewCID == "NewConnectionID"
RequestCID == "RequestConnectionID"
PostTypes == {NewCID, RequestCID, KeyUpdate}

\* What a record says: a flag, a set of IDs or of acknowledged messages, a number.
Body(flag, set, num) == [flag |-> flag, set |-> set, num |-> num]
Empty == Body(FALSE, {}, 0)

NoFlight == [seq |-> 0, epoch |-> 0, body |-> Empty, retries |-> 0, complete |-> TRUE]
NoProbe == [phase |-> "none", candidate |-> 0, cookie |-> 0, cid |-> 0]
NoRequest == -1

\* The address 0 is the server's, which never changes; the client's are 1 and 2.
Session(peer) ==
    [w |-> 3, read |-> {3}, app |-> 3,
     updating |-> FALSE, localPending |-> FALSE, requestPeer |-> FALSE, awaitingPeer |-> FALSE,
     post |-> [t \in PostTypes |-> NoFlight], open |-> {},
     hseq |-> 1, next |-> 1, pending |-> <<>>, acks |-> {},
     local |-> {0}, immediate |-> {}, fresh |-> 1, response |-> NoRequest,
     requested |-> FALSE, want |-> TRUE, peerCID |-> 0, spare |-> <<>>,
     peer |-> peer, probe |-> NoProbe, cookies |-> 0, failed |-> "", wire |-> <<>>]

-----------------------------------------------------------------------------
(* Sending *)

Record(kind, epoch, cid, to) ==
    [kind |-> kind, epoch |-> epoch, cid |-> cid, addr |-> to, seq |-> 0,
     typ |-> "", body |-> Empty, late |-> FALSE]

Send(s, r) == [s EXCEPT !.wire = Append(@, r)]

sendRecord(s, kind, epoch, seq, typ, body) ==
    Send(s, [Record(kind, epoch, s.peerCID, s.peer)
               EXCEPT !.seq = seq, !.typ = typ, !.body = body])

sendACK(s) ==
    IF s.acks = {} THEN s
    ELSE [sendRecord(s, "ack", s.w, 0, "", Body(FALSE, s.acks, 0)) EXCEPT !.acks = {}]

\* A flight of one message, and after it the acknowledgements that wait.
transmit(s, t) ==
    sendACK(sendRecord(s, "hs", s.post[t].epoch, s.post[t].seq, t, s.post[t].body))

Incomplete(s) == {t \in PostTypes : ~s.post[t].complete}

startPost(s, t, body) ==
    transmit([s EXCEPT !.post[t] = [NoFlight EXCEPT !.seq = s.hseq, !.epoch = s.w,
                                                    !.body = body, !.complete = FALSE],
                       !.open = @ \cup {t}, !.hseq = @ + 1], t)

-----------------------------------------------------------------------------
(* Connection IDs *)

cidBusy(s) ==
    s.updating \/ NewCID \in s.open \/ s.immediate # {} \/ s.probe # NoProbe

Provide(s, ids, immediate) ==
    startPost([s EXCEPT !.local = @ \cup ids, !.fresh = @ + Cardinality(ids),
                        !.immediate = IF immediate THEN ids ELSE @],
              NewCID, Body(immediate, ids, 0))

Room(s, count) ==
    IF count < MaxConnectionIDs - Cardinality(s.local) THEN count
    ELSE MaxConnectionIDs - Cardinality(s.local)

provideCIDs(s, count, immediate) ==
    Provide(s, s.fresh .. (s.fresh + (IF immediate THEN 1 ELSE Room(s, count)) - 1), immediate)

\* A full pool rotates one ID first; the request then waits for room.
respondCIDRequest(s) ==
    IF s.response = NoRequest \/ cidBusy(s) THEN s
    ELSE IF Cardinality(s.local) >= MaxConnectionIDs /\ s.response > 0
    THEN provideCIDs(s, 1, TRUE)
    ELSE provideCIDs([s EXCEPT !.response = NoRequest], s.response, FALSE)

requestCIDs(s) == [startPost(s, RequestCID, Body(FALSE, {}, RequestCount)) EXCEPT !.requested = TRUE]

Wanted(s) ==
    IF s.updating \/ ~s.want \/ s.requested \/ RequestCID \in s.open \/ s.probe # NoProbe THEN s
    ELSE IF cids THEN requestCIDs([s EXCEPT !.want = FALSE]) ELSE [s EXCEPT !.want = FALSE]

Spares(s, ids) == SetToSortSeq(ids \ ({s.peerCID} \cup Range(s.spare)), <)

receiveCIDs(s, immediate, ids) ==
    IF immediate
    THEN [s EXCEPT !.peerCID = CHOOSE id \in ids : TRUE, !.spare = <<>>,
                   !.probe.cid = IF s.probe.phase = "candidate" THEN CHOOSE id \in ids : TRUE ELSE @]
    ELSE [s EXCEPT !.spare = @ \o Spares(s, ids), !.requested = FALSE]

\* The first record with a rotated ID retires the others.
usedLocalCID(s, cid) ==
    IF cid \in s.immediate THEN [s EXCEPT !.local = s.immediate, !.immediate = {}] ELSE s

-----------------------------------------------------------------------------
(* Key updates *)

Forget(s) == [s EXCEPT !.open = @ \cap Incomplete(s)]

StartUpdate(s, request) ==
    [startPost(s, KeyUpdate, Body(request, {}, 0))
       EXCEPT !.updating = TRUE, !.localPending = FALSE, !.requestPeer = FALSE,
              !.awaitingPeer = @ \/ request]

LocalUpdate(s) ==
    IF s.localPending THEN StartUpdate(s, s.requestPeer /\ ~s.awaitingPeer) ELSE s

Continue(s) == Wanted(respondCIDRequest(LocalUpdate(Forget(s))))

\* Slip: new keys as soon as the KeyUpdate itself is acknowledged.
advancePostEarly(s) ==
    IF s.updating /\ KeyUpdate \in Incomplete(s) THEN s
    ELSE Continue(IF s.updating THEN [s EXCEPT !.w = @ + 1, !.updating = FALSE] ELSE s)

\* The keys change once every message of the old epoch is acknowledged.
advancePost(s) ==
    IF s.updating /\ Incomplete(s) # {} THEN s
    ELSE Continue(IF s.updating THEN [s EXCEPT !.w = @ + 1, !.updating = FALSE] ELSE s)

requestKeyUpdate(s, requestPeer) ==
    advancePost([s EXCEPT !.localPending = TRUE,
                          !.requestPeer = @ \/ (requestPeer /\ ~s.awaitingPeer)])

Fail(s, why) == [s EXCEPT !.failed = why]

receivePost(s, m) ==
    CASE m.epoch # s.app -> Fail(s, "unexpected_message")
      [] m.typ = KeyUpdate ->
           sendACK([s EXCEPT !.app = m.epoch + 1,
                             !.read = (@ \cup {m.epoch + 1}) \ {2},
                             !.awaitingPeer = FALSE, !.requestPeer = FALSE,
                             !.localPending = @ \/ m.body.flag])
      [] m.typ = NewCID -> sendACK(receiveCIDs(s, m.body.flag, m.body.set))
      [] m.typ = RequestCID ->
           IF s.response # NoRequest THEN Fail(s, "too_many_cids_requested")
           ELSE sendACK([s EXCEPT !.response = m.body.num])

acknowledgePost(s, seqs) ==
    advancePost([s EXCEPT !.post = [t \in PostTypes |->
        IF s.post[t].seq \in seqs THEN [s.post[t] EXCEPT !.complete = TRUE] ELSE s.post[t]]])

-----------------------------------------------------------------------------
(* The path to the peer *)

sendMessage(s, typ, cookie, to) ==
    Send(s, [Record("rrc", s.w,
                    IF to = s.probe.candidate /\ s.probe.phase = "candidate"
                    THEN s.probe.cid ELSE s.peerCID, to)
               EXCEPT !.typ = typ, !.body = Body(FALSE, {}, cookie)])

challenge(s) ==
    LET t == [s EXCEPT !.cookies = @ + 1, !.probe.cookie = s.cookies + 1]
    IN  sendMessage(t, "challenge", s.cookies + 1,
                    IF s.probe.phase = "candidate" THEN s.probe.candidate ELSE s.peer)

startBasic(s) ==
    challenge(IF s.spare # <<>>
              THEN [s EXCEPT !.probe.phase = "candidate", !.probe.cid = Head(s.spare),
                             !.spare = Tail(@), !.want = Len(s.spare) < 3]
              ELSE [s EXCEPT !.probe.phase = "candidate", !.probe.cid = s.peerCID])

\* A record that left before one already seen does not start a validation.
observe(s, r) ==
    IF r.addr = s.peer \/ r.kind = "rrc" \/ s.probe # NoProbe \/ r.late THEN s
    ELSE challenge([s EXCEPT !.probe.phase = "old", !.probe.candidate = r.addr])

receivePath(s, r) ==
    IF r.typ = "challenge" THEN sendMessage(s, "response", r.body.num, r.addr)
    ELSE IF s.probe = NoProbe \/ r.body.num # s.probe.cookie
            \/ r.addr # (IF s.probe.phase = "old" THEN s.peer ELSE s.probe.candidate) THEN s
    ELSE IF s.probe.phase = "old" THEN [s EXCEPT !.probe = NoProbe]
    ELSE [s EXCEPT !.peer = s.probe.candidate, !.peerCID = s.probe.cid, !.probe = NoProbe]

-----------------------------------------------------------------------------
(* Receiving *)

Accepted(s, r) ==
    /\ r.epoch \in s.read
    /\ cids => r.cid \in s.local
    /\ r.addr # s.peer => cids

\* openRecord: a record under newer keys retires the older ones.
Opened(s, r) ==
    usedLocalCID([s EXCEPT !.read = IF r.epoch >= 4 THEN {e \in @ : e < 3 \/ e >= r.epoch} ELSE @],
                 r.cid)

Buffered(s, r) ==
    [s EXCEPT !.acks = @ \cup {r.seq},
              !.pending = IF r.seq < s.next THEN @
                          ELSE [n \in DOMAIN @ \cup {r.seq} |-> IF n = r.seq THEN r ELSE @[n]]]

handleNext(s) ==
    IF s.failed # "" \/ s.next \notin DOMAIN s.pending THEN s
    ELSE receivePost([s EXCEPT !.next = @ + 1,
                               !.pending = [n \in DOMAIN @ \ {s.next} |-> @[n]]],
                     s.pending[s.next])

processHandshakes(s) ==
    FoldLeft(LAMBDA t, n : handleNext(t), s, [n \in 1..Cardinality(DOMAIN s.pending) |-> n])

receiveRecord(s, r) ==
    CASE r.kind = "hs" -> processHandshakes(Buffered(s, r))
      [] r.kind = "ack" -> acknowledgePost(s, r.body.set)
      [] r.kind = "rrc" -> receivePath(s, r)
      [] r.kind = "data" -> s

Received(x, s) ==
    IF s.failed # "" THEN s
    ELSE IF x = "S" THEN sendACK(advancePost(s)) ELSE advancePost(s)

receiveFrom(x, s, r) ==
    IF Accepted(s, r) THEN Received(x, receiveRecord(observe(Opened(s, r), r), r)) ELSE s

-----------------------------------------------------------------------------

Alive(x) == st[x].failed = ""

\* The client's address: the NAT has two for it.
Address == 1 + (moves % 2)

\* What the client sends carries its present address.
Stamped(x, wire) ==
    IF x = "S" THEN wire ELSE [i \in DOMAIN wire |-> [wire[i] EXCEPT !.addr = Address]]

Become(x, s, left) ==
    /\ st' = [st EXCEPT ![x] = [s EXCEPT !.wire = <<>>]]
    /\ net' = [left EXCEPT ![Peer(x)] = @ \o Stamped(x, s.wire)]

Event == events < MaxEvents /\ events' = events + 1

UpdateKeys(x) ==
    \E requestPeer \in BOOLEAN :
        /\ Alive(x) /\ Event
        /\ Become(x, requestKeyUpdate(st[x], requestPeer), net)
        /\ UNCHANGED <<cids, moves>>

RotateConnectionID(x) ==
    /\ Alive(x) /\ cids /\ ~cidBusy(st[x]) /\ Event
    /\ Become(x, provideCIDs(st[x], 1, TRUE), net)
    /\ UNCHANGED <<cids, moves>>

\* The first record from an address the server does not know is not counted.
Unannounced(x) == x = "C" /\ st.S.peer # Address /\ st.S.probe = NoProbe /\ net.S = <<>>

\* Application data waits for the validation of a path and for new keys.
Write(x) ==
    /\ Alive(x) /\ st[x].probe = NoProbe
    /\ ~st[x].localPending /\ ~st[x].updating
    /\ IF Unannounced(x) THEN UNCHANGED events ELSE Event
    /\ Become(x, sendRecord(st[x], "data", st[x].w, 0, "", Empty), net)
    /\ UNCHANGED <<cids, moves>>

\* The NAT forgets the client: what goes to the old address is lost.
Rebind ==
    /\ cids /\ Event /\ \A x \in Sides : Alive(x)
    /\ moves' = moves + 1
    /\ UNCHANGED <<cids, st, net>>

Late(q, i) == [j \in DOMAIN q |-> [q[j] EXCEPT !.late = @ \/ j < i]]

Overtakes(x, i) == IF Accepted(st[x], net[x][i]) THEN Late(net[x], i) ELSE net[x]

Deliver(x) ==
    \E i \in DOMAIN net[x] :
        LET r == IF x = "C" THEN [net[x][i] EXCEPT !.addr = 0] ELSE net[x][i]
            left == [net EXCEPT ![x] = RemoveAt(Overtakes(x, i), i)]
        IN
        /\ Alive(x)
        /\ IF i = 1 THEN UNCHANGED events ELSE Event
        /\ IF x = "C" /\ net[x][i].addr # Address
           THEN net' = left /\ UNCHANGED st
           ELSE Become(x, receiveFrom(x, st[x], r), left)
        /\ UNCHANGED <<cids, moves>>

Lose(x) ==
    \E i \in DOMAIN net[x] :
        /\ Event
        /\ net' = [net EXCEPT ![x] = RemoveAt(@, i)]
        /\ UNCHANGED <<cids, moves, st>>

Quiet == \A x \in Sides : Alive(x) => net[x] = <<>> /\ st[x].acks = {}

\* A timer outlasts the round trip it waits for, but for the early ones.
Timely ==
    \/ Quiet /\ UNCHANGED events
    \/ ~Quiet /\ Event

FlightTimer(x) ==
    \E t \in Incomplete(st[x]) :
        /\ Alive(x) /\ Timely
        /\ Become(x, IF st[x].post[t].retries = MaxFlightRetries THEN Fail(st[x], "timeout")
                     ELSE advancePost(transmit([st[x] EXCEPT !.post[t].retries = @ + 1], t)), net)
        /\ UNCHANGED <<cids, moves>>

\* The client's acknowledgement of a message that came out of order.
AckTimer(x) ==
    /\ Alive(x) /\ st[x].acks # {}
    /\ Become(x, advancePost(sendACK(st[x])), net)
    /\ UNCHANGED <<cids, moves, events>>

PathTimer(x) ==
    /\ Alive(x) /\ st[x].probe # NoProbe /\ Timely
    /\ Become(x, advancePost(IF st[x].probe.phase = "old" THEN startBasic(st[x])
                             ELSE [st[x] EXCEPT !.probe = NoProbe]), net)
    /\ UNCHANGED <<cids, moves>>

\* The server keeps the handshake's read keys for four minutes.
ExpireHandshakeRead(x) ==
    /\ Alive(x) /\ 2 \in st[x].read
    /\ st' = [st EXCEPT ![x].read = @ \ {2}]
    /\ UNCHANGED <<cids, moves, net, events>>

\* After the first exchange of connection IDs.
Settled(s) ==
    [s EXCEPT !.want = FALSE, !.hseq = 3, !.next = 3, !.local = {0, 1, 2}, !.fresh = 3,
              !.spare = <<1, 2>>]

\* Three beginnings: without connection IDs, at the first exchange of them (with
\* fewer events), and after it.
Init ==
    \E settled \in BOOLEAN :
      LET ready(s) == IF settled THEN Settled(s) ELSE s
          c == advancePost(ready(Session(0)))
          s == advancePost(ready([Session(1) EXCEPT !.read = {2, 3}]))
      IN
      /\ cids \in BOOLEAN
      /\ settled => cids
      /\ moves = 0
      /\ events = IF cids /\ ~settled THEN MaxEvents - 1 ELSE 0
      /\ st = [x \in Sides |-> IF x = "C" THEN [c EXCEPT !.wire = <<>>]
                               ELSE [s EXCEPT !.wire = <<>>]]
      /\ net = [x \in Sides |-> IF x = "C" THEN s.wire ELSE Stamped("C", c.wire)]

Next ==
    \/ Rebind
    \/ \E x \in Sides :
          \/ UpdateKeys(x) \/ RotateConnectionID(x) \/ Write(x)
          \/ Deliver(x) \/ Lose(x)
          \/ FlightTimer(x) \/ AckTimer(x) \/ PathTimer(x) \/ ExpireHandshakeRead(x)

ReceiveWaits(x) == net[x] # <<>> /\ Alive(x)
Receives(x) == net'[x] # net[x]
FlightWaits(x) == Quiet /\ Alive(x) /\ Incomplete(st[x]) # {}
FlightGoes(x) == st'[x].post # st[x].post \/ st'[x].failed # ""
AckWaits(x) == Alive(x) /\ st[x].acks # {}
AckGoes(x) == st'[x].acks # st[x].acks
PathWaits(x) == Quiet /\ Alive(x) /\ st[x].probe # NoProbe
PathGoes(x) == st'[x].probe # st[x].probe

Fairness ==
    \A x \in Sides :
        /\ []<>~ReceiveWaits(x) \/ []<><<Receives(x)>>_vars
        /\ []<>~FlightWaits(x) \/ []<><<FlightGoes(x)>>_vars
        /\ []<>~AckWaits(x) \/ []<><<AckGoes(x)>>_vars
        /\ []<>~PathWaits(x) \/ []<><<PathGoes(x)>>_vars

Spec == Init /\ [][Next]_vars /\ Fairness

-----------------------------------------------------------------------------

\* What one side writes the other understands: the keys of its present epoch are
\* held there, no second read epoch shares the two bits a record carries, and no
\* message ends the association with an alert, whatever was lost or overtaken.
PeerUnderstands ==
    \A x \in Sides :
        /\ st[x].w \in st[Peer(x)].read
        /\ \A e \in st[Peer(x)].read : e % 4 = st[x].w % 4 => e = st[x].w
        /\ st[x].failed \in {"", "timeout"}

\* Every connection ID a side may still send with is one its peer accepts: the
\* present one, the spares and the one reserved for a path under validation.
CidsAccepted ==
    \A x \in Sides :
        ({st[x].peerCID} \cup Range(st[x].spare)
            \cup (IF st[x].probe.phase = "candidate" THEN {st[x].probe.cid} ELSE {}))
          \subseteq st[Peer(x)].local

\* Key updates, requests for connection IDs and validations all end: nothing keeps
\* application data waiting for ever.  The association times out instead only
\* where the client's address has changed.
Quiescent ==
    \/ moves > 0 /\ \E x \in Sides : ~Alive(x)
    \/ \A x \in Sides : /\ ~st[x].updating /\ ~st[x].localPending
                         /\ st[x].response = NoRequest /\ ~st[x].requested
                         /\ st[x].probe = NoProbe
=============================================================================
