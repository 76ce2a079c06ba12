--------------------------- MODULE DTLSHandshake ---------------------------
(***************************************************************************)
(* The DTLS 1.3 handshake of internal/dtls13 between one client and one     *)
(* server over a network that loses, delays, reorders and repeats           *)
(* datagrams: flights and their retransmission (flight.go), reassembly      *)
(* (fragment.go), acknowledgements and key installation (session.go), and   *)
(* the order of the messages (handshake_client.go, handshake_server.go).    *)
(*                                                                          *)
(* A message body is its number of parts; a record carries one fragment, a  *)
(* set of consecutive parts.  Cryptography is the rule that a protected     *)
(* record opens exactly when its epoch's keys are held.  A side's state is  *)
(* one record; an operator takes it to the state after a call, and "wire"   *)
(* collects the records the call sends.                                     *)
(***************************************************************************)
EXTENDS Integers, Sequences, FiniteSets, SequencesExt

CONSTANTS
    FlightBurst,        \* flightBurst
    MaxFlightRetries,   \* maxFlightRetries
    MaxQueuedAcks,      \* maxQueuedAcknowledgements
    MaxFaults           \* bound: losses, overtakings, repeats, early timers, refusals, narrow path

VARIABLES
    auth,      \* client authentication: "none", "cert", "nocert"
    path,      \* "wide", or a path that carries one part: "error", "drop"
    st,        \* the two sessions
    plain,     \* Listener.nextPlainSequence
    net,       \* the records under way to each side
    fired,     \* whose retransmission timer fired last, "" since a flight began
    faults     \* how many of the faults have happened

vars == <<auth, path, st, plain, net, fired, faults>>

Sides == {"C", "S"}
Peer(x) == IF x = "C" THEN "S" ELSE "C"

Message(typ, seq, epoch, size) == [typ |-> typ, seq |-> seq, epoch |-> epoch, size |-> size]

-----------------------------------------------------------------------------
(* Flights *)

NoFlight == [msgs |-> <<>>, sent |-> {}, ever |-> {}, acked |-> {},
             retries |-> 0, complete |-> TRUE, sentOnce |-> TRUE, answered |-> FALSE]

newFlight(msgs) == [NoFlight EXCEPT !.msgs = msgs, !.complete = FALSE, !.sentOnce = FALSE]

PartsOf(f) == UNION {{<<i, p>> : p \in 1..f.msgs[i].size} : i \in DOMAIN f.msgs}

pendingSend(f) == PartsOf(f) \ f.ever # {}

finish(f) == [NoFlight EXCEPT !.sentOnce = f.sentOnce]

\* The fragments of message i that cover the wanted parts, at most cap parts each.
Fragments(i, wanted, cap) ==
    LET parts == {p \in {1, 2} : <<i, p>> \in wanted} IN
    IF cap = 2 \/ Cardinality(parts) < 2
    THEN IF parts = {} THEN <<>> ELSE <<[msg |-> i, parts |-> parts]>>
    ELSE <<[msg |-> i, parts |-> {1}], [msg |-> i, parts |-> {2}]>>

Burst(all) == SubSeq(all, 1, IF Len(all) < FlightBurst THEN Len(all) ELSE FlightBurst)

Unsent(f) == PartsOf(f) \ (f.ever \cup f.acked)

\* sendRanges: the next burst, new parts before unacknowledged ones.
sendRanges(f, cap) ==
    LET wanted == IF Unsent(f) # {} THEN Unsent(f) ELSE PartsOf(f) \ f.acked
    IN  Burst(FlattenSeq([i \in DOMAIN f.msgs |-> Fragments(i, wanted, cap)]))

-----------------------------------------------------------------------------
(* A session *)

Session(phase, seq, next) ==
    [phase |-> phase, retried |-> FALSE, complete |-> FALSE, ready |-> FALSE,
     dead |-> FALSE, hseq |-> seq, next |-> next, pending |-> <<>>,
     out |-> NoFlight, acks |-> {}, secrets |-> {}, keys |-> {}, read |-> {},
     seq |-> [e \in {0, 2, 3} |-> 0], cap |-> 2, wire |-> <<>>]

None == [Session("none", 0, 0) EXCEPT !.dead = FALSE]

currentWriteEpoch(s) == CHOOSE e \in {0} \cup s.keys : \A d \in s.keys : e >= d

installKeys(s) ==
    [s EXCEPT !.keys = @ \cup s.secrets, !.read = @ \cup (s.secrets \ s.keys)]

handshakeFlightSent(s) == s.out.complete \/ s.out.sentOnce

\* The numbers an epoch's records get; a number is spent even if the send fails.
sendRecord(s, epoch, body) ==
    [s EXCEPT !.seq[epoch] = @ + 1,
              !.wire = IF body.kind = "hs" /\ path = "drop" /\ Cardinality(body.parts) = 2
                       THEN @ ELSE Append(@, [body EXCEPT !.num = <<epoch, s.seq[epoch]>>])]

disrupted(s) ==
    \/ DOMAIN s.pending \notin {{}, {s.next}}
    \/ DOMAIN s.pending = {s.next} /\ s.pending[s.next].got = {2}

handshakeACKReady(s) == IF s.complete THEN handshakeFlightSent(s) ELSE disrupted(s)

writeAcknowledgements(s, ready) ==
    IF s.acks = {} \/ ~ready THEN s
    ELSE [sendRecord(s, currentWriteEpoch(s),
                     [kind |-> "ack", num |-> <<0, 0>>, acks |-> s.acks]) EXCEPT !.acks = {}]

sendACK(s) == writeAcknowledgements(s, handshakeACKReady(s))

SendFragment(s, c) ==
    LET m == s.out.msgs[c.msg] IN
    [sendRecord(s, m.epoch, [kind |-> "hs", num |-> <<0, 0>>, msg |-> m, parts |-> c.parts])
       EXCEPT !.out.sent = @ \cup {[num |-> <<m.epoch, s.seq[m.epoch]>>,
                                    parts |-> {<<c.msg, p>> : p \in c.parts}]},
              !.out.ever = @ \cup {<<c.msg, p>> : p \in c.parts}]

SendBurst(s, burst) == FoldLeft(SendFragment, s, burst)

FirstLong(burst) ==
    SelectInSeq(burst, LAMBDA c : path = "error" /\ Cardinality(c.parts) = 2)

\* A fragment the socket calls too long: its number is spent, the size halved.
Halved(s, c) == [s EXCEPT !.cap = 1, !.seq[s.out.msgs[c.msg].epoch] = @ + 1]

SendRest(s) == SendBurst(s, sendRanges(s.out, s.cap))

SendUpTo(s, burst, long) ==
    IF long = 0 THEN SendBurst(s, burst)
    ELSE SendRest(Halved(SendBurst(s, SubSeq(burst, 1, long - 1)), burst[long]))

SendAll(s, burst) == SendUpTo(s, burst, FirstLong(burst))

Sent(s) ==
    IF s.complete THEN sendACK([s EXCEPT !.out.sentOnce = @ \/ ~pendingSend(s.out)])
    ELSE [s EXCEPT !.out.sentOnce = @ \/ ~pendingSend(s.out)]

\* session.transmit: after a fragment that is too long the burst starts again.
transmit(s) ==
    IF s.out.complete THEN s ELSE Sent(SendAll(s, sendRanges(s.out, s.cap)))

startFlight(s, msgs) == transmit([installKeys(s) EXCEPT !.out = newFlight(msgs)])

Acknowledged(f, hit, new) ==
    IF f.acked \cup new = PartsOf(f) THEN finish(f)
    ELSE [f EXCEPT !.sent = @ \ hit, !.acked = @ \cup new,
                   !.retries = IF new \subseteq f.acked THEN @ ELSE 0,
                   !.answered = @ \/ ~(new \subseteq f.acked)]

acknowledge(f, nums, authenticated) ==
    LET hit == {x \in f.sent : x.num \in nums /\ (authenticated \/ x.num[1] = 0)}
    IN  IF f.complete THEN f ELSE Acknowledged(f, hit, UNION {x.parts : x \in hit})

\* Partial progress sends what is left.
acknowledgeFlight(s, f) ==
    IF f.complete \/ f.acked = s.out.acked THEN [s EXCEPT !.out = f]
    ELSE transmit([s EXCEPT !.out = f])

\* session.expireOutbound, with flight.expire.
expireOutbound(s) ==
    IF pendingSend(s.out) THEN transmit([s EXCEPT !.out.answered = FALSE])
    ELSE IF s.out.retries = MaxFlightRetries THEN [s EXCEPT !.dead = TRUE]
    ELSE transmit([s EXCEPT !.out.retries = @ + 1, !.out.answered = FALSE,
                            !.cap = IF ~s.out.answered /\ s.out.retries >= 1 THEN 1 ELSE @])

-----------------------------------------------------------------------------
(* The order of the messages *)

Numbered(s, list) ==
    [i \in DOMAIN list |-> Message(list[i][1], s.hseq + i - 1, list[i][2], list[i][3])]

certificateFlight(withKey) ==
    <<<<"Certificate", 2, IF withKey THEN 2 ELSE 1>>>>
      \o (IF withKey THEN <<<<"CertificateVerify", 2, 1>>>> ELSE <<>>)

serverFlight ==
    <<<<"ServerHello", 0, 1>>, <<"EncryptedExtensions", 2, 1>>>>
      \o (IF auth # "none" THEN <<<<"CertificateRequest", 2, 1>>>> ELSE <<>>)
      \o certificateFlight(TRUE) \o <<<<"Finished", 2, 1>>>>

finalFlight ==
    (IF auth # "none" THEN certificateFlight(auth = "cert") ELSE <<>>)
      \o <<<<"Finished", 2, 1>>>>

Unexpected(s) == [s |-> [s EXCEPT !.dead = TRUE], response |-> <<>>]
Go(s, phase) == [s |-> [s EXCEPT !.phase = phase], response |-> <<>>]
Respond(s, list) ==
    [s |-> [s EXCEPT !.hseq = @ + Len(list)], response |-> Numbered(s, list)]

retryRequest(s) ==
    IF s.retried THEN Unexpected(s)
    ELSE Respond([s EXCEPT !.retried = TRUE], <<<<"ClientHello", 0, 1>>>>)

serverHello(s, m) ==
    IF m.typ = "HelloRetryRequest" THEN retryRequest(s)
    ELSE Go([s EXCEPT !.secrets = {2}], "EncryptedExtensions")

clientHandle(s, m) ==
    IF s.complete THEN Unexpected(s)
    ELSE IF s.phase = "ServerHello"
    THEN IF m.typ \in {"ServerHello", "HelloRetryRequest"} /\ m.epoch = 0
         THEN serverHello(s, m) ELSE Unexpected(s)
    ELSE CASE m.epoch # 2 -> Unexpected(s)
           [] s.phase = "EncryptedExtensions" /\ m.typ = "EncryptedExtensions"
                -> Go(s, "CertificateRequest")
           [] s.phase = "CertificateRequest" /\ m.typ = "CertificateRequest"
                -> Go(s, "Certificate")
           [] s.phase \in {"CertificateRequest", "Certificate"} /\ m.typ = "Certificate"
                -> Go(s, "CertificateVerify")
           [] s.phase = "CertificateVerify" /\ m.typ = "CertificateVerify"
                -> Go(s, "Finished")
           [] s.phase = "Finished" /\ m.typ = "Finished"
                -> Respond([s EXCEPT !.secrets = {2, 3}, !.complete = TRUE], finalFlight)
           [] OTHER -> Unexpected(s)

serverHandle(s, m) ==
    CASE s.complete -> Unexpected(s)
      [] s.phase = "ClientHello" /\ m.typ = "ClientHello" /\ m.epoch = 0 /\ m.seq = 1
           -> Respond([s EXCEPT !.secrets = {2, 3},
                                !.phase = IF auth = "none" THEN "Finished" ELSE "Certificate"],
                      serverFlight)
      [] s.phase = "Certificate" /\ m.typ = "Certificate" /\ m.epoch = 2
           -> Go(s, IF m.size = 1 THEN "Finished" ELSE "CertificateVerify")
      [] s.phase = "CertificateVerify" /\ m.typ = "CertificateVerify" /\ m.epoch = 2
           -> Go(s, "Finished")
      [] s.phase = "Finished" /\ m.typ = "Finished" /\ m.epoch = 2
           -> [s |-> [s EXCEPT !.complete = TRUE], response |-> <<>>]
      [] OTHER -> Unexpected(s)

pop(s) == [s EXCEPT !.next = @ + 1, !.pending = [n \in DOMAIN @ \ {s.next} |-> @[n]]]

Handle(x, s, m) == IF x = "C" THEN clientHandle(s, m) ELSE serverHandle(s, m)

ForgetAcks(s) == IF currentWriteEpoch(s) < 2 THEN [s EXCEPT !.acks = {}] ELSE s

Answer(s, response) ==
    IF response = <<>> THEN s ELSE startFlight(ForgetAcks(s), response)

\* An answer finishes the old flight.
Handled(h) ==
    IF h.s.dead THEN h.s
    ELSE sendACK(Answer(installKeys([h.s EXCEPT !.out = finish(@)]), h.response))

Whole(s) ==
    /\ ~s.dead /\ s.next \in DOMAIN s.pending
    /\ Cardinality(s.pending[s.next].got) = s.pending[s.next].msg.size

handleNext(x, s) ==
    IF Whole(s) THEN Handled(Handle(x, pop(s), s.pending[s.next].msg)) ELSE s

processHandshakes(x, s) ==
    FoldLeft(LAMBDA t, n : handleNext(x, t), s, [n \in 1..Cardinality(DOMAIN s.pending) |-> n])

-----------------------------------------------------------------------------
(* Receiving *)

openRecord(s, r) == IF r.num[1] = 0 THEN s.keys = {} ELSE r.num[1] \in s.read

insert(s, r) ==
    IF r.msg.seq < s.next THEN s
    ELSE LET old == IF r.msg.seq \in DOMAIN s.pending THEN s.pending[r.msg.seq].got ELSE {}
         IN  [s EXCEPT !.pending = [n \in DOMAIN @ \cup {r.msg.seq} |->
                 IF n = r.msg.seq THEN [msg |-> r.msg, got |-> old \cup r.parts] ELSE @[n]]]

\* Whether the fragment is new to the buffer, so that the budget may refuse it.
NeedsRoom(s, r) == r.msg.seq >= s.next /\ r.msg.seq \notin DOMAIN s.pending

Queue(s, num) ==
    IF Cardinality(s.acks) >= MaxQueuedAcks THEN s
    ELSE IF Cardinality(s.acks) + 1 >= MaxQueuedAcks
    THEN sendACK([s EXCEPT !.acks = @ \cup {num}])
    ELSE [s EXCEPT !.acks = @ \cup {num}]

queueAcknowledgement(s, num) ==
    Queue(IF Cardinality(s.acks) >= MaxQueuedAcks THEN sendACK(s) ELSE s, num)

\* Slips: to acknowledge what the budget refused, not to acknowledge repeats.
receiveHandshakeBlind(x, s, r, refuse) ==
    processHandshakes(x, queueAcknowledgement(IF refuse THEN s ELSE insert(s, r), r.num))

\* Only a fragment that was buffered, or already processed, is acknowledged.
receiveHandshake(x, s, r, refuse) ==
    processHandshakes(x, IF refuse THEN s ELSE queueAcknowledgement(insert(s, r), r.num))

\* advancePost: once the final flight is acknowledged the client drops its
\* handshake read keys; the server keeps them to answer repeats.
advancePost(x, s) ==
    IF s.complete /\ s.out.complete /\ x = "C" THEN [s EXCEPT !.read = @ \ {2}] ELSE s

receiveRecord(x, s, r, refuse) ==
    IF r.kind = "hs" THEN receiveHandshake(x, s, r, refuse)
    ELSE acknowledgeFlight(s, acknowledge(s.out, r.acks, r.num[1] # 0))

Received(x, s) ==
    IF s.dead THEN s
    ELSE IF s.complete /\ x = "S" /\ s.acks # {} THEN sendACK(s) ELSE advancePost(x, s)

receiveFrom(x, s, r, refuse) ==
    IF openRecord(s, r) THEN Received(x, receiveRecord(x, s, r, refuse)) ELSE s

-----------------------------------------------------------------------------

\* The session's next state, its records handed to the network.
Become(x, s, left) ==
    /\ st' = [st EXCEPT ![x] = [s EXCEPT !.wire = <<>>]]
    /\ net' = [left EXCEPT ![Peer(x)] = @ \o s.wire]

\* A flight that begins, or ends, sets the timers against each other anew.
Restarted(x) == IF st'[x].out.msgs = st[x].out.msgs THEN fired ELSE ""

Alive(x) == st[x].phase # "none" /\ ~st[x].dead

\* A datagram leaves the network: in order or past earlier ones, and a plaintext
\* one may stay to arrive again (a protected one is a replay the window drops).
Arrive(x, i, again, refuse) ==
    LET n == Cardinality({f \in {<<1, i > 1>>, <<2, again>>, <<3, refuse>>} : f[2]}) IN
    /\ again => net[x][i].num[1] = 0
    /\ faults' = faults + n
    /\ faults + n <= MaxFaults

Left(x, i, again) == IF again THEN net ELSE [net EXCEPT ![x] = RemoveAt(@, i)]

Deliver(x) ==
    \E i \in DOMAIN net[x], again, refuse \in BOOLEAN :
        LET r == net[x][i] IN
        /\ Alive(x)
        /\ Arrive(x, i, again, refuse)
        /\ refuse => /\ x = "S" /\ r.kind = "hs"
                     /\ openRecord(st.S, r) /\ NeedsRoom(st.S, r)
        /\ Become(x, receiveFrom(x, st[x], r, refuse), Left(x, i, again))
        /\ fired' = Restarted(x)
        /\ UNCHANGED <<auth, path, plain>>

\* The listener before there is a session: a first ClientHello is answered
\* with a cookie, a second one is admitted and handled at once.
ReceiveHello ==
    \E i \in DOMAIN net.S, again \in BOOLEAN :
        LET r == net.S[i]
            left == Left("S", i, again)
        IN
        /\ st.S.phase = "none"
        /\ Arrive("S", i, again, FALSE)
        /\ \/ /\ r.msg.seq = 0
              /\ plain' = plain + 1
              /\ net' = [left EXCEPT !.C = Append(@, [kind |-> "hs", num |-> <<0, plain>>,
                            msg |-> Message("HelloRetryRequest", 0, 0, 1), parts |-> {1}])]
              /\ UNCHANGED st
           \/ /\ r.msg.seq = 1
              /\ Become("S", processHandshakes("S",
                    insert([Session("ClientHello", 1, 1) EXCEPT !.seq[0] = plain], r)), left)
              /\ UNCHANGED plain
        /\ fired' = Restarted("S")
        /\ UNCHANGED <<auth, path>>

Receive == ReceiveHello \/ \E x \in Sides : Deliver(x)

Lose ==
    \E x \in Sides : \E i \in DOMAIN net[x] :
        /\ net' = [net EXCEPT ![x] = RemoveAt(@, i)]
        /\ faults < MaxFaults /\ faults' = faults + 1
        /\ UNCHANGED <<auth, path, st, plain, fired>>

CanAck(x) ==
    /\ Alive(x) /\ st[x].acks # {}
    /\ handshakeACKReady(st[x]) \/ (~st[x].complete /\ st[x].out.complete)

Running(x) == Alive(x) /\ ~st[x].out.complete

\* The intervals double, so that of two running timers the one with as many
\* retries or more does not fire twice before the other.
Due(x) ==
    Running(x) /\ ~(fired = x /\ Running(Peer(x)) /\ st[Peer(x)].out.retries <= st[x].out.retries)

Quiet == \A x \in Sides : net[x] = <<>> /\ ~CanAck(x)

\* A retransmission timer outlasts a round trip and the peer's delayed ACK, but
\* for the early ones.
FlightTimer(x) ==
    /\ Due(x)
    /\ \/ Quiet /\ UNCHANGED faults
       \/ ~Quiet /\ faults < MaxFaults /\ faults' = faults + 1
    /\ Become(x, expireOutbound(st[x]), net)
    /\ fired' = x
    /\ UNCHANGED <<auth, path, plain>>

\* sendScheduledACK at the end of the quiet time, a quarter of the other timer.
AckTimer(x) ==
    /\ CanAck(x)
    /\ \/ net[x] = <<>> /\ UNCHANGED faults
       \/ net[x] # <<>> /\ faults < MaxFaults /\ faults' = faults + 1
    /\ Become(x, writeAcknowledgements(st[x], TRUE), net)
    /\ UNCHANGED <<auth, path, plain, fired>>

CanBeReady(x) == Alive(x) /\ st[x].complete /\ ~st[x].ready /\ handshakeFlightSent(st[x])

\* connDriver.run: the association is ready once the last flight is sent.
BecomeReady(x) ==
    /\ CanBeReady(x)
    /\ Become(x, [sendACK(st[x]) EXCEPT !.ready = TRUE], net)
    /\ UNCHANGED <<auth, path, plain, fired, faults>>

\* expireHandshakeRead: four minutes, longer than the client goes on repeating.
ExpireHandshakeRead ==
    /\ st.S.complete /\ 2 \in st.S.read /\ (st.C.complete /\ st.C.out.complete)
    /\ st' = [st EXCEPT !.S.read = @ \ {2}]
    /\ UNCHANGED <<auth, path, plain, net, fired, faults>>

Init ==
    /\ auth \in {"none", "cert", "nocert"}
    /\ path \in {"wide", "error", "drop"}
    /\ plain = 0 /\ fired = ""
    /\ faults = (IF path = "wide" THEN 0 ELSE 1) + (IF auth = "none" THEN 0 ELSE 1)
    /\ LET c == startFlight(Session("ServerHello", 1, 0), <<Message("ClientHello", 0, 0, 1)>>)
       IN  /\ st = [x \in Sides |-> IF x = "C" THEN [c EXCEPT !.wire = <<>>] ELSE None]
           /\ net = [x \in Sides |-> IF x = "S" THEN c.wire ELSE <<>>]

Next ==
    \/ Receive \/ Lose \/ ExpireHandshakeRead
    \/ \E x \in Sides : FlightTimer(x) \/ AckTimer(x) \/ BecomeReady(x)

\* Weak fairness of the receivers and the timers, each spelled out with its
\* guard and the one variable only its step can change while the guard holds.
ReceiveWaits(x) == net[x] # <<>> /\ ~st[x].dead
Receives(x) == net'[x] # net[x]
FlightWaits(x) == Quiet /\ Due(x)
FlightGoes(x) == st'[x].out # st[x].out
AckWaits(x) == net[x] = <<>> /\ CanAck(x)
AckGoes(x) == st'[x].acks # st[x].acks
ReadyGoes(x) == st'[x].ready # st[x].ready

Spec ==
    /\ Init /\ [][Next]_vars
    /\ \A x \in Sides :
        /\ []<>~ReceiveWaits(x) \/ []<><<Receives(x)>>_vars
        /\ []<>~FlightWaits(x) \/ []<><<FlightGoes(x)>>_vars
        /\ []<>~AckWaits(x) \/ []<><<AckGoes(x)>>_vars
        /\ []<>~CanBeReady(x) \/ []<><<ReadyGoes(x)>>_vars

-----------------------------------------------------------------------------

Holds(y, n, parts) ==
    \/ st[y].phase = "none" \/ n < st[y].next
    \/ n \in DOMAIN st[y].pending /\ parts \subseteq st[y].pending[n].got

\* What is acknowledged has arrived: a part counts as acknowledged, and a flight
\* as complete, only if the peer holds the fragments or has processed their
\* messages.  They are never sent again, so a fragment the budget refused must
\* not be acknowledged.
AckHonest ==
    \A x \in Sides :
        /\ \A a \in st[x].out.acked : Holds(Peer(x), st[x].out.msgs[a[1]].seq, {a[2]})
        /\ st[x].out.complete => \A n \in 0..(st[x].hseq - 1) : Holds(Peer(x), n, {1})

\* Whatever the network does within its bounds, both sides complete and the
\* client's last flight is acknowledged, so that key updates and connection IDs,
\* which wait for it, can go on.
Completed == st.C.complete /\ st.S.complete /\ st.C.ready /\ st.S.ready /\ st.C.out.complete
=============================================================================
