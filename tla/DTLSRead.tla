------------------------------ MODULE DTLSRead -----------------------------
(***************************************************************************)
(* The receiving side of an association of internal/dtls13 (conn.go): the   *)
(* transport queues datagrams, the driver goroutine takes them through the  *)
(* handshake and publishes what they carry, and callers read, move their    *)
(* deadline and close.  A reader that finds nothing waits for the channel   *)
(* in shared.notify, which whoever changes something closes and replaces.   *)
(***************************************************************************)
EXTENDS Integers, Sequences

CONSTANTS
    Readers,           \* the goroutines in Read
    MaxIncoming,       \* the capacity of Conn.config.incoming
    MaxQueuedRecords,  \* the capacity of readQueue
    MaxTime,           \* bound on the clock of the readers' deadlines
    MaxArrivals        \* bound: datagrams other than junk

VARIABLES
    incoming,    \* Conn.config.incoming
    arrivals,    \* how many datagrams that are not junk have come
    hs,          \* the handshake: "open", "complete"
    ready,       \* connDriver.ready
    late,        \* HandshakeReadTimeout has passed since the last record of an open handshake
    queued,      \* connDriver.queuedBeforeTimeout
    err,         \* connShared.err is set
    torn,        \* the driver has returned
    readQueue,   \* connShared.readQueue, how many
    peerEOF,     \* connShared.peerEOF
    notify,      \* the readers whose channel, the connShared.notify they saw, is closed
    deadline,    \* connShared.readDeadline, 0 if there is none
    now,         \* the readers' clock
    reader       \* Conn.Read of each reader

driver == <<incoming, arrivals, hs, ready, late, queued, torn>>
vars == <<driver, err, readQueue, peerEOF, notify, deadline, now, reader>>

-----------------------------------------------------------------------------
(* What is published *)

signalLocked == notify' = Readers

\* It ends every wait.  Only the first counts: what calls it here has seen none.
fail == err' = TRUE /\ signalLocked

publish(data, eof) ==
    LET fits == data /\ readQueue < MaxQueuedRecords /\ ~peerEOF IN
    /\ readQueue' = IF fits THEN readQueue + 1 ELSE readQueue
    /\ peerEOF' = eof
    /\ IF (fits /\ readQueue = 0) \/ eof # peerEOF THEN signalLocked ELSE UNCHANGED notify

-----------------------------------------------------------------------------
(* The transport and the driver *)

\* Junk is no sequence of records; "more" and "last" carry the handshake on.
deliver(d) ==
    /\ ~err /\ Len(incoming) < MaxIncoming
    /\ d # "junk" => arrivals < MaxArrivals
    /\ incoming' = Append(incoming, d)
    /\ arrivals' = IF d = "junk" THEN arrivals ELSE arrivals + 1
    /\ UNCHANGED <<hs, ready, late, queued, torn, err, readQueue, peerEOF, notify, deadline, now, reader>>

Record(d) == hs = "open" /\ d # "junk"

\* session.handshakeReceived: what parses as a record counts, opened or not.
stillLate(d) == late /\ ~Record(d)

\* What a datagram does to the handshake, and its error if it has one.
receiveFrom(d) ==
    /\ hs' = IF Record(d) /\ d = "last" THEN "complete" ELSE hs
    /\ late' = stillLate(d)
    /\ IF d = "bad" THEN fail ELSE UNCHANGED err

receivePacket(d) ==
    /\ receiveFrom(d)
    /\ IF d = "bad" THEN UNCHANGED <<readQueue, peerEOF>>
       ELSE publish(d = "data" /\ hs = "complete", peerEOF \/ (d = "eof" /\ hs = "complete"))

Waiting == hs = "open" /\ late

\* What was queued when the time was over gets one chance; there is nothing yet
\* to publish.
LastChance ==
    LET n == IF queued < 0 THEN Len(incoming) ELSE queued IN
    /\ ~torn /\ ~err /\ Waiting
    /\ IF n = 0
       THEN /\ fail
            /\ queued' = 0
            /\ UNCHANGED <<incoming, hs, late>>
       ELSE /\ receiveFrom(Head(incoming))
            /\ Head(incoming) # "bad" => UNCHANGED notify
            /\ incoming' = Tail(incoming)
            /\ queued' = IF Record(Head(incoming)) THEN -1 ELSE n - 1
    /\ UNCHANGED <<arrivals, ready, torn, readQueue, peerEOF, deadline, now, reader>>

\* One round of the loop: readiness, then a datagram.
Round ==
    /\ ~torn /\ ~err /\ ~Waiting
    /\ ready' = (hs = "complete")
    /\ queued' = -1
    /\ \/ /\ ready # ready'
          /\ UNCHANGED <<incoming, hs, late, err, readQueue, peerEOF, notify>>
       \/ /\ ready' = ready /\ incoming # <<>>
          /\ receivePacket(Head(incoming))
          /\ incoming' = Tail(incoming)
    /\ UNCHANGED <<arrivals, torn, deadline, now, reader>>

\* The loop has seen the stop: the queue is emptied.
teardown ==
    /\ err /\ ~torn
    /\ torn' = TRUE /\ incoming' = <<>>
    /\ UNCHANGED <<arrivals, hs, ready, late, queued, err, readQueue, peerEOF, notify, deadline, now, reader>>

\* Time passes without a record while the handshake is open.
Quiet ==
    /\ hs = "open" /\ ~late
    /\ late' = TRUE
    /\ UNCHANGED <<incoming, arrivals, hs, ready, queued, torn, err, readQueue, peerEOF, notify, deadline, now, reader>>

-----------------------------------------------------------------------------
(* Callers *)

Resting == [pc |-> "idle", deadline |-> 0]

\* Read under the lock: an answer, or what to wait for.
Read(r) ==
    /\ ready /\ reader[r].pc \in {"idle", "again"}
    /\ IF err \/ readQueue > 0 \/ peerEOF \/ (deadline # 0 /\ now >= deadline)
       THEN reader' = [reader EXCEPT ![r] = Resting]
       ELSE reader' = [reader EXCEPT ![r] = [pc |-> "wait", deadline |-> deadline]]
    /\ notify' = notify \ {r}
    /\ readQueue' = IF ~err /\ readQueue > 0 THEN readQueue - 1 ELSE readQueue
    /\ UNCHANGED <<driver, err, peerEOF, deadline, now>>

Notified(r) ==
    /\ reader[r].pc = "wait" /\ r \in notify
    /\ reader' = [reader EXCEPT ![r].pc = "again"]
    /\ UNCHANGED <<driver, err, readQueue, peerEOF, notify, deadline, now>>

\* The timer of the deadline the reader saw.
TimedOut(r) ==
    /\ reader[r].pc = "wait" /\ reader[r].deadline # 0 /\ now >= reader[r].deadline
    /\ reader' = [reader EXCEPT ![r] = Resting]
    /\ UNCHANGED <<driver, err, readQueue, peerEOF, notify, deadline, now>>

setDeadlines(t) ==
    /\ ~err /\ t # deadline
    /\ deadline' = t
    /\ signalLocked
    /\ UNCHANGED <<driver, err, readQueue, peerEOF, now, reader>>

Close ==
    /\ ~err /\ ready
    /\ fail
    /\ UNCHANGED <<driver, readQueue, peerEOF, deadline, now, reader>>

Tick ==
    /\ now < MaxTime
    /\ now' = now + 1
    /\ UNCHANGED <<driver, err, readQueue, peerEOF, notify, deadline, reader>>

-----------------------------------------------------------------------------

Init ==
    /\ incoming = <<>> /\ arrivals = 0 /\ hs = "open" /\ ready = FALSE /\ late = FALSE /\ queued = -1
    /\ err = FALSE /\ torn = FALSE
    /\ readQueue = 0 /\ peerEOF = FALSE /\ notify = {} /\ deadline = 0 /\ now = 1
    /\ reader = [r \in Readers |-> Resting]

Next ==
    \/ \E d \in {"junk", "more", "last", "data", "eof", "bad"} : deliver(d)
    \/ LastChance \/ Round \/ teardown \/ Quiet
    \/ \E r \in Readers : Read(r) \/ Notified(r) \/ TimedOut(r)
    \/ \E t \in 0..MaxTime : setDeadlines(t)
    \/ Close \/ Tick

\* The driver and the readers run, and time passes: a wait that can end does.
Driver == LastChance \/ Round \/ teardown
Reading(r) == (reader[r].pc = "again" /\ Read(r)) \/ Notified(r) \/ TimedOut(r)

Fairness ==
    /\ WF_vars(Quiet) /\ WF_vars(Driver)
    /\ \A r \in Readers : WF_vars(Reading(r))

Spec == Init /\ [][Next]_vars /\ Fairness

-----------------------------------------------------------------------------

\* No wake-up is lost: a reader that waits while there is data, or the stream
\* has ended or failed, or its deadline is over, however that came about after
\* it looked, gets to read or to look again.
ReadDue(r) ==
    /\ reader[r].pc = "wait"
    /\ readQueue > 0 \/ peerEOF \/ err \/ (deadline # 0 /\ now >= deadline)

\* A handshake that gets no further ends, even though datagrams that are no
\* records keep coming.
HandshakeDue == ~err /\ hs = "open"
=============================================================================
