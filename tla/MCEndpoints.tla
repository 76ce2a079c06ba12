----------------------------- MODULE MCEndpoints -----------------------------
(*****************************************************************************)
(* The lock file of an endpoint, and the endpoints between a connection of   *)
(* some kind and the relay. Each behaviour is of one of them.                *)
(*****************************************************************************)
EXTENDS LockFile, Sequences

CONSTANTS p1, p2, MaxPeers, MaxMessages, Room, MaxWrites, MaxMoves, Cap, MaxBuffer,
    MaxDelay

VARIABLES
    pick,           \* the component that runs
    v1, v2, v3, v4, v5, v6, v7, v8, v9, v10, v11, v12, v13, v14, v15, v16, v17, v18, v19,
    v20, v21   \* its variables, unless it is LockFile

shared == <<pick, v1, v2, v3, v4, v5, v6, v7, v8, v9, v10, v11, v12, v13, v14, v15, v16,
    v17, v18, v19, v20, v21>>
all == <<vars, shared>>

A == INSTANCE PollAccept WITH
        kind <- v1, known <- v2, closed <- v3, fd <- v4, ln <- v5, raw <- v6,
        deadline <- v7, lnDeadline <- v8, wake <- v9, now <- v10, pc <- v11, seen <- v12,
        ready <- v13, backlog <- v14, peers <- v15, calls <- v16, dropped <- v17,
        MaxTime <- 2, MaxCalls <- 2
M == INSTANCE MQStream WITH
        kind <- v1, closed <- v2, notify <- v3, event <- v4, inflight <- v5, dl <- v6,
        now <- v7, pc <- v8, ready <- v9, queue <- v10, sent <- v11, taken <- v12,
        left <- v13, got <- v14, lost <- v15, away <- v16, calls <- v17, MaxTime <- 1,
        MaxCalls <- 1
P == INSTANCE PumpConn WITH
        kind <- v1, source <- v2, sent <- v3, ending <- v4, buf <- v5, err <- v6,
        stop <- v7, cut <- v8, dl <- v9, now <- v10, pump <- v11, reader <- v12,
        timer <- v13, out <- v14, saw <- v15, calls <- v16, Max <- 2, MaxBytes <- 3,
        MaxTime <- 1, MaxCalls <- 2
C == INSTANCE ConnectTunnel WITH
        phase <- v1, fire <- v2, completed <- v3, cancelled <- v4, buf <- v5,
        wactive <- v6, wclosed <- v7, rclosed <- v8, wdl <- v9, now <- v10, wpc <- v11,
        call <- v12, n <- v13, timer <- v14, result <- v15, rpc <- v16, out <- v17,
        moves <- v18, Writers <- {"v", "w"}, Max <- 1, Size <- 2, MaxTime <- 1
Q == INSTANCE QuicAccept WITH
        conn <- v1, queue <- v2, parked <- v3, closed <- v4, ctx <- v5, loop <- v6,
        pop <- v7, popctx <- v8, closing <- v9, Conns <- {1, 2, 3}
L == INSTANCE StreamLayers WITH
        dir <- v1, cfg <- v2, src <- v3, more <- v4, raw <- v5, k <- v6, left <- v7,
        sawCR <- v8, escaped <- v9, out <- v10, last <- v11, delay <- v12, closed <- v13,
        pc <- v14, win <- v15, acked <- v16, wr <- v17, upto <- v18, pendingLF <- v19,
        sink <- v20, wpc <- v21, MaxBytes <- 2, Octets <- {"r", "n", "e"}

\* What a component with fewer variables leaves alone.
Beyond21 == <<pick, vars>>
Beyond18 == <<Beyond21, v19, v20, v21>>
Beyond17 == <<Beyond18, v18>>
Beyond16 == <<Beyond17, v17>>
Beyond9 == <<Beyond16, v10, v11, v12, v13, v14, v15, v16>>

\* The initial state LockFile keeps while another component runs.
AtRest == Init /\ name = NoFile

EveryInit ==
    \/ pick = "lock" /\ Init /\ v1 = 0 /\ v2 = 0 /\ v3 = 0 /\ v4 = 0 /\ v5 = 0 /\ v6 = 0 /\
       v7 = 0 /\ v8 = 0 /\ v9 = 0 /\ v10 = 0 /\ v11 = 0 /\ v12 = 0 /\ v13 = 0 /\ v14 = 0 /\
       v15 = 0 /\ v16 = 0 /\ v17 = 0 /\ v18 = 0 /\ v19 = 0 /\ v20 = 0 /\ v21 = 0
    \/ pick = "accept" /\ A!Init /\ AtRest /\ v18 = 0 /\ v19 = 0 /\ v20 = 0 /\ v21 = 0
    \/ pick = "mq" /\ M!Init /\ AtRest /\ v18 = 0 /\ v19 = 0 /\ v20 = 0 /\ v21 = 0
    \/ pick = "pump" /\ P!Init /\ AtRest /\ v17 = 0 /\ v18 = 0 /\ v19 = 0 /\ v20 = 0 /\
       v21 = 0
    \/ pick = "tunnel" /\ C!Init /\ AtRest /\ v19 = 0 /\ v20 = 0 /\ v21 = 0
    \/ pick = "quic" /\ Q!Init /\ AtRest /\ v10 = 0 /\ v11 = 0 /\ v12 = 0 /\ v13 = 0 /\
       v14 = 0 /\ v15 = 0 /\ v16 = 0 /\ v17 = 0 /\ v18 = 0 /\ v19 = 0 /\ v20 = 0 /\ v21 = 0
    \/ pick = "layers" /\ L!Init /\ AtRest

EveryNext ==
    \/ pick = "lock" /\ Next /\ UNCHANGED shared
    \/ pick = "accept" /\ A!Next /\ UNCHANGED Beyond17
    \/ pick = "mq" /\ M!Next /\ UNCHANGED Beyond17
    \/ pick = "pump" /\ P!Next /\ UNCHANGED Beyond16
    \/ pick = "tunnel" /\ C!Next /\ UNCHANGED Beyond18
    \/ pick = "quic" /\ Q!Next /\ UNCHANGED Beyond9
    \/ pick = "layers" /\ L!Next /\ UNCHANGED Beyond21

\* The fairness of each component's module, one goroutine or timer of the component that
\* runs per line.
Thread1 ==
    \/ pick = "lock" /\ Main(p1) /\ UNCHANGED shared
    \/ pick = "accept" /\ A!Accepting /\ UNCHANGED Beyond17
    \/ pick = "mq" /\ M!Waiting("read") /\ UNCHANGED Beyond17
    \/ pick = "pump" /\ P!Pumping /\ UNCHANGED Beyond16
    \/ pick = "tunnel" /\ C!Writing("v") /\ UNCHANGED Beyond18
    \/ pick = "quic" /\ Q!Serving(1) /\ UNCHANGED Beyond9
    \/ pick = "layers" /\ L!ReadGoesOn /\ UNCHANGED Beyond21
Thread2 ==
    \/ pick = "lock" /\ Main(p2) /\ UNCHANGED shared
    \/ pick = "mq" /\ M!Waiting("write") /\ UNCHANGED Beyond17
    \/ pick = "pump" /\ P!Reading /\ UNCHANGED Beyond16
    \/ pick = "tunnel" /\ C!Writing("w") /\ UNCHANGED Beyond18
    \/ pick = "quic" /\ Q!Serving(2) /\ UNCHANGED Beyond9
Thread3 ==
    \/ pick = "lock" /\ Handling(p1) /\ UNCHANGED shared
    \/ pick = "mq" /\ M!Receiving /\ UNCHANGED Beyond17
    \/ pick = "pump" /\ P!TimerFires /\ UNCHANGED Beyond16
    \/ pick = "tunnel" /\ C!TimerFires("v") /\ UNCHANGED Beyond18
    \/ pick = "quic" /\ Q!Serving(3) /\ UNCHANGED Beyond9
Thread4 ==
    \/ pick = "mq" /\ M!Send /\ UNCHANGED Beyond17
    \/ pick = "pump" /\ P!CloseUnder /\ UNCHANGED Beyond16
    \/ pick = "tunnel" /\ C!TimerFires("w") /\ UNCHANGED Beyond18
    \/ pick = "quic" /\ Q!Looping /\ UNCHANGED Beyond9
Thread5 ==
    \/ pick = "tunnel" /\ C!Reading /\ UNCHANGED Beyond18
    \/ pick = "quic" /\ Q!Popping /\ UNCHANGED Beyond9
Thread6 ==
    \/ pick = "tunnel" /\ C!Answering /\ UNCHANGED Beyond18
    \/ pick = "quic" /\ Q!AfterFunc /\ UNCHANGED Beyond9
Thread7 ==
    \/ pick = "quic" /\ Q!CloseFails /\ UNCHANGED Beyond9
Thread8 ==
    \/ pick = "lock" /\ Create(p1) /\ UNCHANGED shared
Thread9 ==
    \/ pick = "lock" /\ Create(p2) /\ UNCHANGED shared

\* The last two are strongly fair: a waiter for the lock is not unlucky at every poll.
EverySpec ==
    /\ EveryInit /\ [][EveryNext]_all
    /\ WF_all(Thread1) /\ WF_all(Thread2) /\ WF_all(Thread3) /\ WF_all(Thread4)
    /\ WF_all(Thread5) /\ WF_all(Thread6) /\ WF_all(Thread7) /\ SF_all(Thread8)
    /\ SF_all(Thread9)

-----------------------------------------------------------------------------

\* What an endpoint holds is accounted for: a listening socket and the eventfd of a
\* message queue have one owner who closes them, and the parked QUIC connections are
\* counted exactly.
ResourcesOwned ==
    /\ pick = "accept" => A!OneSocketOwner
    /\ pick = "mq" => M!NotifyOwned
    /\ pick = "quic" => Q!ParkedExact

\* Bytes and messages keep their order and number through the pumps, pipes, queues and
\* conversions between a connection and the relay, whatever cuts them.
BytesExact ==
    /\ pick = "mq" => M!InOrderOnce
    /\ pick = "pump" => P!PumpKeepsBytes
    /\ pick = "tunnel" => C!TunnelExact
    /\ pick = "layers" => L!LayersExact

\* Calls that the event has come to end (a close, a deadline that is left alone, data,
\* room, a lock that is free), and goroutines and connections whose endpoint is closed.
Due1 ==
    \/ pick = "lock" /\ WaiterDue(p1)
    \/ pick = "accept" /\ A!AcceptDue
    \/ pick = "mq" /\ M!CallDue("read")
    \/ pick = "pump" /\ P!ReadDue
    \/ pick = "tunnel" /\ C!WriteDue("v")
    \/ pick = "quic" /\ Q!CloseDue(1)
    \/ pick = "layers" /\ L!ReadDue
Due2 ==
    \/ pick = "lock" /\ WaiterDue(p2)
    \/ pick = "mq" /\ M!CallDue("write")
    \/ pick = "pump" /\ P!PumpDue
    \/ pick = "tunnel" /\ C!WriteDue("w")
    \/ pick = "quic" /\ Q!CloseDue(2)
Due3 ==
    \/ pick = "tunnel" /\ C!ReadDue
    \/ pick = "quic" /\ Q!CloseDue(3)
Due4 == pick = "quic" /\ Q!PopDue

\* None of them lasts: no call stays blocked after what must end it, and no goroutine
\* or connection outlives the Close of its endpoint.
CallsEnd == []<>~Due1 /\ []<>~Due2 /\ []<>~Due3 /\ []<>~Due4
==============================================================================
