----------------------------- MODULE DnsStream -----------------------------
(***************************************************************************)
(* The connection a resolver gets when it asks for DNS over TCP under      *)
(* res-usevc=0 (xio/dns_usevc.go): each query goes out over UDP first and  *)
(* again over TCP if the answer is truncated; towards the resolver it is   *)
(* one stream of length-prefixed messages.  Network failures and deadlines *)
(* end an exchange.                                                        *)
(***************************************************************************)
EXTENDS Naturals, Sequences, FiniteSets, SequencesExt

CONSTANTS
    Queries,    \* length of each query the resolver sends
    MaxPiece,   \* most bytes of one Write or Read
    MaxDials    \* sockets opened in all

VARIABLES
    written,    \* bytes the resolver has written
    writeBuf,   \* bytes not yet made into queries
    taken,      \* queries taken from writeBuf
    readBuf,    \* answers' bytes not yet read, each marked with its query and transport
    delivered,  \* bytes the resolver has read
    inner,      \* the socket in use, 0 if none
    dialed,     \* sockets dialed, each "udp" or "tcp"
    alive,      \* those of them that are open
    sent,       \* what was sent: query and socket
    caller,     \* what the resolver is in: "idle", "write" or "read"
    pc,         \* where the exchange is
    closed,
    failed      \* queries whose exchange ended in an error

vars == <<written, writeBuf, taken, readBuf, delivered, inner, dialed, alive, sent, caller, pc, closed, failed>>

\* The framed queries, one byte after the other, as <<query, place in its frame>>.
Frame(k) == [i \in 1 .. Queries[k] + 2 |-> <<k, i>>]
Input == FlattenSeq([k \in DOMAIN Queries |-> Frame(k)])

Init ==
    /\ written = 0 /\ writeBuf = <<>> /\ taken = 0 /\ readBuf = <<>> /\ delivered = <<>>
    /\ inner = 0 /\ dialed = <<>> /\ alive = {} /\ sent = <<>>
    /\ caller = "idle" /\ pc = "flush" /\ closed = FALSE /\ failed = {}

----------------------------------------------------------------------------
(* Calls of the resolver *)

Write(n) ==
    /\ caller = "idle" /\ ~closed
    /\ written + n <= Len(Input)
    /\ written' = written + n
    /\ writeBuf' = writeBuf \o SubSeq(Input, written + 1, written + n)
    /\ caller' = "write"
    /\ UNCHANGED <<taken, readBuf, delivered, inner, dialed, alive, sent, pc, closed, failed>>

Read ==
    /\ caller = "idle" /\ ~closed
    /\ caller' = "read"
    /\ UNCHANGED <<written, writeBuf, taken, readBuf, delivered, inner, dialed, alive, sent, pc, closed, failed>>

\* Close waits for the lock, so for the end of a call under way.
Close ==
    /\ caller = "idle" /\ ~closed
    /\ closed' = TRUE
    /\ alive' = alive \ {inner}
    /\ inner' = 0
    /\ UNCHANGED <<written, writeBuf, taken, readBuf, delivered, dialed, sent, caller, pc, failed>>

----------------------------------------------------------------------------
(* flushLocked and the exchange, under the lock *)

Complete == Len(writeBuf) >= 2 /\ Len(writeBuf) >= 2 + Queries[writeBuf[1][1]]

\* The call returns: a Write its length, a Read what fits of the answers, or the end.
Return(n) ==
    /\ caller # "idle" /\ pc = "flush" /\ ~Complete
    /\ caller = "write" => n = 0
    /\ caller = "read" => n <= Len(readBuf) /\ (n = 0 => readBuf = <<>>)
    /\ delivered' = delivered \o SubSeq(readBuf, 1, n)
    /\ readBuf' = SubSeq(readBuf, n + 1, Len(readBuf))
    /\ caller' = "idle"
    /\ UNCHANGED <<written, writeBuf, taken, inner, dialed, alive, sent, pc, closed, failed>>

flushLocked ==
    /\ caller # "idle" /\ pc = "flush" /\ Complete
    /\ taken' = writeBuf[1][1]
    /\ writeBuf' = SubSeq(writeBuf, 3 + Queries[taken'], Len(writeBuf))
    /\ pc' = "udp"
    /\ UNCHANGED <<written, readBuf, delivered, inner, dialed, alive, sent, caller, closed, failed>>

replaceInnerLocked(next) == inner' = next /\ alive' = (alive \ {inner}) \cup {next}

Await(network) == IF network = "udp" THEN "udp-answer" ELSE "tcp-answer"

Dial(network) ==
    /\ pc = network /\ Len(dialed) < MaxDials
    /\ dialed' = Append(dialed, network)
    /\ replaceInnerLocked(Len(dialed) + 1)
    /\ sent' = Append(sent, <<taken, network>>)
    /\ pc' = Await(network)
    /\ UNCHANGED <<written, writeBuf, taken, readBuf, delivered, caller, closed, failed>>

Answer(network) == [i \in 1 .. 3 |-> <<taken, network, i>>]

ExchangeDone(network) ==
    /\ pc = Await(network)
    /\ readBuf' = readBuf \o Answer(network)
    /\ pc' = "flush"
    /\ UNCHANGED <<written, writeBuf, taken, delivered, inner, dialed, alive, sent, caller, closed, failed>>

Truncated ==
    /\ pc = "udp-answer"
    /\ alive' = alive \ {inner}
    /\ inner' = 0
    /\ pc' = "tcp"
    /\ UNCHANGED <<written, writeBuf, taken, readBuf, delivered, dialed, sent, caller, closed, failed>>

\* The dial, a deadline, the write or the read fails; the call reports it.
ExchangeFails ==
    /\ pc # "flush"
    /\ failed' = failed \cup {taken}
    /\ pc' = "flush"
    /\ caller' = "idle"
    /\ UNCHANGED <<written, writeBuf, taken, readBuf, delivered, inner, dialed, alive, sent, closed>>

Next ==
    \/ \E n \in 1 .. MaxPiece : Write(n)
    \/ \E n \in 0 .. MaxPiece : Return(n)
    \/ Read \/ Close \/ flushLocked \/ Truncated \/ ExchangeFails
    \/ \E network \in {"udp", "tcp"} : Dial(network) \/ ExchangeDone(network)

Spec == Init /\ [][Next]_vars

----------------------------------------------------------------------------

\* What query k was answered over, if its answer was taken.
Over(k) == IF <<k, "tcp">> \in ToSet(sent) THEN "tcp" ELSE "udp"

\* However the queries and answers are cut into pieces, the resolver reads one whole
\* answer per query whose exchange succeeded, in order, the TCP one where the UDP one
\* was truncated; each query is sent once over UDP and at most once more, over TCP; and
\* no socket but the one in use is open, none after Close.
DnsExact ==
    /\ delivered \o readBuf =
         FlattenSeq([k \in 1 .. (IF pc = "flush" THEN taken ELSE taken - 1) |->
             IF k \in failed THEN <<>> ELSE [i \in 1 .. 3 |-> <<k, Over(k), i>>]])
    /\ \A i, j \in DOMAIN sent : i < j /\ sent[i][1] = sent[j][1] => sent[i][2] = "udp" /\ sent[j][2] = "tcp"
    /\ alive = {inner} \ {0}
    /\ closed => alive = {}
=============================================================================
