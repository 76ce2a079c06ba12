----------------------------- MODULE MCSessions ------------------------------
(*****************************************************************************)
(* Sessions: consecutive ones on one shared stream, and the parts of the     *)
(* DTLS 1.3 implementation that an association uses. Each behaviour is of    *)
(* one of them.                                                              *)
(*****************************************************************************)
EXTENDS SharedSession, FiniteSets

CONSTANTS FlightBurst, MaxQueuedAcks, MaxFaults, MaxConnectionIDs, RequestCount, Ceilings,
    Capacities, Reductions, MinPathMTU, MaxMTUReductions, MaxMTUDiff, MaxSearchProbes,
    MaxConfirmFails, MaxWrites, MaxIncoming, MaxQueuedRecords, MaxArrivals

VARIABLES
    pick,           \* the component that runs
    v1, v2, v3, v4, v5, v6, v7, v8, v9, v10, v11, v12, v13, v14   \* its variables, unless it is SharedSession

shared == <<pick, v1, v2, v3, v4, v5, v6, v7, v8, v9, v10, v11, v12, v13, v14>>
all == <<vars, shared>>

H == INSTANCE DTLSHandshake WITH
        auth <- v1, path <- v2, st <- v3, plain <- v4, net <- v5, fired <- v6,
        faults <- v7, MaxFlightRetries <- 4
P == INSTANCE DTLSPost WITH
        cids <- v1, moves <- v2, st <- v3, net <- v4, events <- v5, MaxFlightRetries <- 2,
        MaxEvents <- 3
M == INSTANCE DTLSMtu WITH
        ceiling <- v1, hard <- v2, capacity <- v3, carried <- v4, mtu <- v5, answers <- v6,
        busy <- v7, events <- v8, MaxEvents <- 2
C == INSTANCE DTLSConn WITH
        direct <- v1, crowd <- v2, caller <- v3, calls <- v4, cached <- v5, cmd <- v6,
        late <- v7, drv <- v8, writes <- v9, queue <- v10, active <- v11, past <- v12,
        signals <- v13, sent <- v14, Callers <- {1, 2, 3}, Conns <- {1, 2},
        ConnOf <- <<1, 1, 2>>, Crowds <- {{1, 2}, {1, 3}}, Restless <- {1}
D == INSTANCE DTLSRead WITH
        incoming <- v1, arrivals <- v2, hs <- v3, ready <- v4, late <- v5, queued <- v6,
        err <- v7, torn <- v8, readQueue <- v9, peerEOF <- v10, notify <- v11,
        deadline <- v12, now <- v13, reader <- v14, Readers <- {1, 2}, MaxTime <- 2

\* What a component with fewer variables leaves alone.
Beyond14 == <<pick, vars>>
Beyond8 == <<Beyond14, v9, v10, v11, v12, v13, v14>>
Beyond7 == <<Beyond8, v8>>
Beyond5 == <<Beyond7, v6, v7>>

\* The initial state SharedSession keeps while another component runs.
AtRest == Init /\ kind = CHOOSE k \in Kinds : TRUE

EveryInit ==
    \/ pick = "shared" /\ Init /\ v1 = 0 /\ v2 = 0 /\ v3 = 0 /\ v4 = 0 /\ v5 = 0 /\
       v6 = 0 /\ v7 = 0 /\ v8 = 0 /\ v9 = 0 /\ v10 = 0 /\ v11 = 0 /\ v12 = 0 /\ v13 = 0 /\
       v14 = 0
    \/ pick = "handshake" /\ H!Init /\ AtRest /\ v8 = 0 /\ v9 = 0 /\ v10 = 0 /\ v11 = 0 /\
       v12 = 0 /\ v13 = 0 /\ v14 = 0
    \/ pick = "post" /\ P!Init /\ AtRest /\ v6 = 0 /\ v7 = 0 /\ v8 = 0 /\ v9 = 0 /\
       v10 = 0 /\ v11 = 0 /\ v12 = 0 /\ v13 = 0 /\ v14 = 0
    \/ pick = "mtu" /\ M!Init /\ AtRest /\ v9 = 0 /\ v10 = 0 /\ v11 = 0 /\ v12 = 0 /\
       v13 = 0 /\ v14 = 0
    \/ pick = "conn" /\ C!Init /\ AtRest
    \/ pick = "read" /\ D!Init /\ AtRest

EveryNext ==
    \/ pick = "shared" /\ Next /\ UNCHANGED shared
    \/ pick = "handshake" /\ H!Next /\ UNCHANGED Beyond7
    \/ pick = "post" /\ P!Next /\ UNCHANGED Beyond5
    \/ pick = "mtu" /\ M!Next /\ UNCHANGED Beyond8
    \/ pick = "conn" /\ C!Next /\ UNCHANGED Beyond14
    \/ pick = "read" /\ D!Next /\ UNCHANGED Beyond14

\* The fairness of each component's module: Waits is the guard of a goroutine or timer of
\* the component that runs, Goes its step.
Waits1 ==
    \/ pick = "handshake" /\ H!ReceiveWaits("C")
    \/ pick = "post" /\ P!ReceiveWaits("C")
    \/ pick = "mtu" /\ M!MustTick
    \/ pick = "conn" /\ ENABLED C!Driver(1)
    \/ pick = "read" /\ ENABLED D!Driver
    \/ pick = "shared" /\ ENABLED Worker
Goes1 ==
    \/ pick = "handshake" /\ H!Receives("C")
    \/ pick = "post" /\ P!Receives("C")
    \/ pick = "mtu" /\ M!DiscoveryGoes
    \/ pick = "conn" /\ C!Driver(1)
    \/ pick = "read" /\ D!Driver
    \/ pick = "shared" /\ Worker /\ UNCHANGED shared
Waits2 ==
    \/ pick = "handshake" /\ H!FlightWaits("C")
    \/ pick = "post" /\ P!FlightWaits("C")
    \/ pick = "mtu" /\ M!TimeoutWaits
    \/ pick = "conn" /\ ENABLED C!Driver(2)
    \/ pick = "read" /\ ENABLED D!Quiet
    \/ pick = "shared" /\ ENABLED BackgroundRead
Goes2 ==
    \/ pick = "handshake" /\ H!FlightGoes("C")
    \/ pick = "post" /\ P!FlightGoes("C")
    \/ pick = "mtu" /\ M!DiscoveryGoes
    \/ pick = "conn" /\ C!Driver(2)
    \/ pick = "read" /\ D!Quiet
    \/ pick = "shared" /\ BackgroundRead /\ UNCHANGED shared
Waits3 ==
    \/ pick = "handshake" /\ H!AckWaits("C")
    \/ pick = "post" /\ P!AckWaits("C")
    \/ pick = "mtu" /\ M!AnswerWaits
    \/ pick = "conn" /\ ENABLED C!Writer
    \/ pick = "read" /\ ENABLED D!Reading(1)
    \/ pick = "shared" /\ ENABLED NextSession
Goes3 ==
    \/ pick = "handshake" /\ H!AckGoes("C")
    \/ pick = "post" /\ P!AckGoes("C")
    \/ pick = "mtu" /\ M!AnswerGoes
    \/ pick = "conn" /\ C!Writer
    \/ pick = "read" /\ D!Reading(1)
    \/ pick = "shared" /\ NextSession /\ UNCHANGED shared
Waits4 ==
    \/ pick = "handshake" /\ H!CanBeReady("C")
    \/ pick = "post" /\ P!PathWaits("C")
    \/ pick = "mtu" /\ v7
    \/ pick = "conn" /\ ENABLED C!GiveUp(1)
    \/ pick = "read" /\ ENABLED D!Reading(2)
Goes4 ==
    \/ pick = "handshake" /\ H!ReadyGoes("C")
    \/ pick = "post" /\ P!PathGoes("C")
    \/ pick = "conn" /\ C!GiveUp(1)
    \/ pick = "read" /\ D!Reading(2)
Waits5 ==
    \/ pick = "handshake" /\ H!ReceiveWaits("S")
    \/ pick = "post" /\ P!ReceiveWaits("S")
    \/ pick = "conn" /\ ENABLED C!GiveUp(2)
Goes5 ==
    \/ pick = "handshake" /\ H!Receives("S")
    \/ pick = "post" /\ P!Receives("S")
    \/ pick = "conn" /\ C!GiveUp(2)
Waits6 ==
    \/ pick = "handshake" /\ H!FlightWaits("S")
    \/ pick = "post" /\ P!FlightWaits("S")
Goes6 ==
    \/ pick = "handshake" /\ H!FlightGoes("S")
    \/ pick = "post" /\ P!FlightGoes("S")
Waits7 ==
    \/ pick = "handshake" /\ H!AckWaits("S")
    \/ pick = "post" /\ P!AckWaits("S")
Goes7 ==
    \/ pick = "handshake" /\ H!AckGoes("S")
    \/ pick = "post" /\ P!AckGoes("S")
Waits8 ==
    \/ pick = "handshake" /\ H!CanBeReady("S")
    \/ pick = "post" /\ P!PathWaits("S")
Goes8 ==
    \/ pick = "handshake" /\ H!ReadyGoes("S")
    \/ pick = "post" /\ P!PathGoes("S")

EverySpec ==
    /\ EveryInit /\ [][EveryNext]_all
    /\ []<>~Waits1 \/ []<><<Goes1>>_all
    /\ []<>~Waits2 \/ []<><<Goes2>>_all
    /\ []<>~Waits3 \/ []<><<Goes3>>_all
    /\ []<>~Waits4 \/ []<><<Goes4>>_all
    /\ []<>~Waits5 \/ []<><<Goes5>>_all
    /\ []<>~Waits6 \/ []<><<Goes6>>_all
    /\ []<>~Waits7 \/ []<><<Goes7>>_all
    /\ []<>~Waits8 \/ []<><<Goes8>>_all
    /\ SF_all(pick = "shared" /\ DataArrives /\ UNCHANGED shared)
-----------------------------------------------------------------------------

\* A part counts as acknowledged, and a flight as complete, only if the peer holds the
\* fragments: they are never sent again.
AckHonest == pick = "handshake" => H!AckHonest

\* Whatever key update, connection ID or path validation is under way, and whatever was lost
\* or overtaken, what one side writes the other has the keys for, with no two read epochs
\* that a record could mean, and the IDs a side may send with are ones its peer accepts.
PeerUnderstands == pick = "post" => P!PeerUnderstands /\ P!CidsAccepted

\* The working size grows only to what the present path has carried.
RaisedByProof ==
    [][pick = "mtu" /\ M!effectiveMTU(v5)' > M!effectiveMTU(v5) => v5'.path <= v4]_all

\* A datagram is sent at most once, a Write that reports success has sent its own, and a
\* write is interrupted only for its own sake.
WriteOutcome == pick = "conn" => C!WriteOutcome /\ C!InterruptOwn

\* What comes to rest for good: a handshake, what follows it, and MTU discovery.
Restless ==
    \/ pick = "handshake" /\ ~H!Completed
    \/ pick = "post" /\ ~P!Quiescent
    \/ pick = "mtu" /\ ~M!AtRest

\* What ends: a closed session's read and the wait for input that is there, the Close of an
\* association and the reads of two callers.
Due1 ==
    \/ pick = "shared" /\ CloseDue
    \/ pick = "conn" /\ C!CloseDue(1)
    \/ pick = "read" /\ D!ReadDue(1)
Due2 ==
    \/ pick = "shared" /\ InputDue
    \/ pick = "read" /\ D!ReadDue(2)
Due3 == pick = "read" /\ D!HandshakeDue

\* The handshake completes on both sides whatever the network does within its bounds; key
\* updates, connection IDs, validations and MTU discovery come to rest; a closed
\* association ends its driver and its writers even at a blocked socket; no reader's
\* wake-up is lost; a handshake that gets no further is given up.
Settles == <>[]~Restless /\ []<>~Due1 /\ []<>~Due2 /\ []<>~Due3
==============================================================================
