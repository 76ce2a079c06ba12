-------------------------------- MODULE MCNet --------------------------------
(*****************************************************************************)
(* What becomes of datagrams: DTLS records, and the parts that share one     *)
(* socket between peers, which are the DTLS listener, the forking UDP        *)
(* listener and the datagram endpoints. Each behaviour is of one of them.    *)
(*****************************************************************************)
EXTENDS DTLSRecord

CONSTANTS Peers, CIDs, MaxConnections, MaxHandshakes, MaxHelloEntries, Limit, EntryCost,
    MessageCost, ReplyCost, CookieLifetime, MaxTime, MaxAdmissions, MaxEvents, MaxSent,
    MaxGrams, MaxSession, SessionQueue, PendingQueue, DrainLimit, DialMaxAttempts, MaxChild

VARIABLES
    pick,           \* the component that runs
    v1, v2, v3, v4, v5, v6, v7, v8, v9, v10, v11, v12, v13, v14, v15, v16, v17, v18, v19,
    v20   \* its variables, unless it is DTLSRecord

shared == <<pick, v1, v2, v3, v4, v5, v6, v7, v8, v9, v10, v11, v12, v13, v14, v15, v16,
    v17, v18, v19, v20>>
all == <<vars, shared>>

L == INSTANCE DTLSListener WITH
        now <- v1, events <- v2, stopped <- v3, closed <- v4, asking <- v5, cache <- v6,
        secrets <- v7, cookie <- v8, echo <- v9, connections <- v10, handshakes <- v11,
        established <- v12, owner <- v13, accepted <- v14, failing <- v15, failed <- v16,
        inbox <- v17, packets <- v18
U == INSTANCE UDPFork WITH
        mode <- v1, sent <- v2, q <- v3, lsock <- v4, fresh <- v5, handedOff <- v6,
        listenClosed <- v7, exclusiveDone <- v8, signalled <- v9, pending <- v10,
        apc <- v11, on <- v12, packet <- v13, consumed <- v14, failedPeer <- v15,
        failedAttempts <- v16, drained <- v17, made <- v18, s <- v19, lost <- v20,
        Peer <- {"p1", "p2", "p3"}, Refused <- {"p3"}
G == INSTANCE DatagramIO WITH
        form <- v1, nullEOF <- v2, kq <- v3, sent <- v4, sock <- v5, ctx <- v6, pc <- v7,
        recv <- v8, left <- v9, sess <- v10, made <- v11, wlock <- v12, sockDL <- v13,
        Peer <- {"p0", "p1", "p2"}, Dest <- "p0", Allowed <- {"p1"}, Unnamed <- {"p2"},
        MaxSent <- MaxGrams

\* What a component with fewer variables leaves alone.
Beyond20 == <<pick, vars>>
Beyond18 == <<Beyond20, v19, v20>>
Beyond13 == <<Beyond18, v14, v15, v16, v17, v18>>

\* The initial state DTLSRecord keeps while another component runs.
AtRest == Init

EveryInit ==
    \/ pick = "record" /\ Init /\ v1 = 0 /\ v2 = 0 /\ v3 = 0 /\ v4 = 0 /\ v5 = 0 /\
       v6 = 0 /\ v7 = 0 /\ v8 = 0 /\ v9 = 0 /\ v10 = 0 /\ v11 = 0 /\ v12 = 0 /\ v13 = 0 /\
       v14 = 0 /\ v15 = 0 /\ v16 = 0 /\ v17 = 0 /\ v18 = 0 /\ v19 = 0 /\ v20 = 0
    \/ pick = "listener" /\ L!Init /\ AtRest /\ v19 = 0 /\ v20 = 0
    \/ pick = "fork" /\ U!Init /\ AtRest
    \/ pick = "datagram" /\ G!Init /\ AtRest /\ v14 = 0 /\ v15 = 0 /\ v16 = 0 /\ v17 = 0 /\
       v18 = 0 /\ v19 = 0 /\ v20 = 0

EveryNext ==
    \/ pick = "record" /\ Next /\ UNCHANGED shared
    \/ pick = "listener" /\ L!Next /\ UNCHANGED Beyond18
    \/ pick = "fork" /\ U!Next /\ UNCHANGED Beyond20
    \/ pick = "datagram" /\ G!Next /\ UNCHANGED Beyond13

EverySpec == EveryInit /\ [][EveryNext]_all

-----------------------------------------------------------------------------

\* The DTLS listener's accounts are exact after every packet, expiry and close: the
\* memory budget is what the cached hellos cost, the handshake budget counts the
\* handshakes in progress, and address, connection ID and owner name the same live
\* associations.
AccountsExact ==
    pick = "listener" => L!BudgetsExact /\ L!IndexExact

\* A cookie is good for the peer it was made for, from when it is made until its
\* lifetime after that, whichever secret signed it and however often they rotated.
CookiesHold == pick = "listener" => L!CookieWindow

\* Each datagram to a forking UDP listener is delivered to one session of its sender or
\* dropped for a reason the code names; none is handed to two, and none reaches the
\* session of another peer.
RoutedOnce == pick = "fork" => U!RoutedOnce

\* The listening UDP socket and every socket made from it have one owner at a time,
\* through hand-off, rebind and close in any order.
SocketOwned == pick = "fork" => U!SocketOwned

\* A datagram exchange is its own: what an abandoned read receives later harms nobody,
\* a RECVFROM child answers the one datagram it was made for, and a deadline on the
\* shared socket is the one its present user set.
ExchangeIsOwn ==
    pick = "datagram" => G!AbandonedReadHarmless /\ G!OneExchange /\ G!DeadlineIsOwn
==============================================================================
