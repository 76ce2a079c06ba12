----------------------------- MODULE MCAddresses -----------------------------
(*****************************************************************************)
(* The parts that turn an address into open descriptors and a first exchange *)
(* on them. Each behaviour is of one component.                              *)
(*****************************************************************************)
EXTENDS Naturals, Sequences

CONSTANTS MaxTries, MaxPhys, Symbols, MaxSymbols, MaxFD, MaxName, LowportMin, LowportMax,
    MaxActions, MaxPiece, MaxDials

VARIABLES
    pick,           \* the component that runs
    v1, v2, v3, v4, v5, v6, v7, v8, v9, v10, v11, v12, v13, v14   \* its variables

vars == <<pick, v1, v2, v3, v4, v5, v6, v7, v8, v9, v10, v11, v12, v13, v14>>

Line(daemon, client, opts) ==
    [end |-> "lf", kind |-> "rule", daemon |-> daemon, client |-> client, options |-> opts]
Other(end, kind) ==
    [end |-> end, kind |-> kind, daemon |-> <<>>, client |-> <<>>, options |-> <<>>]

\* Lines of hosts.allow and hosts.deny.
Phys ==
    {Line(<<"ALL", "EXCEPT", "net-">>, <<"ALL", "EXCEPT", "LOCAL", "host", "EXCEPT", "PARANOID">>, <<>>),
     Line(<<"net-", "ALL">>, <<"KNOWN", "UNKNOWN">>, <<"plain", "deny">>),
     Line(<<"KNOWN", "EXCEPT", "net-", "EXCEPT", "ALL">>, <<"ALL", "EXCEPT", "PARANOID">>, <<"plain", "allow">>),
     Line(<<"ALL">>, <<"net+", "EXCEPT", "host">>, <<"plain">>),
     Line(<<"ALL">>, <<"PARANOID", "user@ALL">>, <<"allow", "plain">>),
     Other("lf", "comment"), Other("lf", "broken"), Other("slash", "comment"), Other("nul", "comment")}

Queries == <<1, 2, 1>>

O == INSTANCE OpenPlan WITH
        phase <- v1, dual <- v2, side <- v3, plan <- v4, pc <- v5, tries <- v6, held <- v7,
        own <- v8, twice <- v9
T == INSTANCE TcpWrap WITH
        options <- v1, peer <- v2, file <- v3, table <- v4, pc <- v5, t <- v6, line <- v7,
        side <- v8, pos <- v9, depth <- v10, looked <- v11, status <- v12, failed <- v13,
        verdict <- v14
A == INSTANCE AddressSyntax WITH
        address <- v1, style <- v2, cut <- v3, result <- v4, pc <- v5
N == INSTANCE NoFork WITH
        opt <- v1, pc <- v2, todo <- v3, held <- v4, slots <- v5, stdio <- v6, twice <- v7,
        table <- v8, child <- v9
S == INSTANCE SocksClient WITH
        call <- v1, server <- v2, sent <- v3, answered <- v4, wire <- v5, arrived <- v6,
        gone <- v7, late <- v8, pos <- v9, need <- v10, replies <- v11, pc <- v12,
        open <- v13
C == INSTANCE DialOrder WITH
        net <- v1, opt <- v2, dns <- v3, have <- v4, bind <- v5, lowport <- v6, busy <- v7,
        addrs <- v8, port <- v9, left <- v10, tried <- v11, pc <- v12
F == INSTANCE FDOptions WITH
        actions <- v1, mode <- v2, skip <- v3, targets <- v4, regular <- v5, fds <- v6,
        seen <- v7, queue <- v8, pc <- v9
D == INSTANCE DnsStream WITH
        written <- v1, writeBuf <- v2, taken <- v3, readBuf <- v4, delivered <- v5,
        inner <- v6, dialed <- v7, alive <- v8, sent <- v9, caller <- v10, pc <- v11,
        closed <- v12, failed <- v13

\* What a component with fewer variables leaves alone.
Beyond14 == <<pick>>
Beyond13 == <<Beyond14, v14>>
Beyond12 == <<Beyond13, v13>>
Beyond9 == <<Beyond12, v10, v11, v12>>
Beyond5 == <<Beyond9, v6, v7, v8, v9>>

Init ==
    \/ pick = "open" /\ O!Init /\ v10 = 0 /\ v11 = 0 /\ v12 = 0 /\ v13 = 0 /\ v14 = 0
    \/ pick = "wrap" /\ T!Init
    \/ pick = "syntax" /\ A!Init /\ v6 = 0 /\ v7 = 0 /\ v8 = 0 /\ v9 = 0 /\ v10 = 0 /\
       v11 = 0 /\ v12 = 0 /\ v13 = 0 /\ v14 = 0
    \/ pick = "nofork" /\ N!Init /\ v10 = 0 /\ v11 = 0 /\ v12 = 0 /\ v13 = 0 /\ v14 = 0
    \/ pick = "socks" /\ S!Init /\ v14 = 0
    \/ pick = "dial" /\ C!Init /\ v13 = 0 /\ v14 = 0
    \/ pick = "fdopts" /\ F!Init /\ v10 = 0 /\ v11 = 0 /\ v12 = 0 /\ v13 = 0 /\ v14 = 0
    \/ pick = "dns" /\ D!Init /\ v14 = 0

Next ==
    \/ pick = "open" /\ O!Next /\ UNCHANGED Beyond9
    \/ pick = "wrap" /\ T!Next /\ UNCHANGED Beyond14
    \/ pick = "syntax" /\ A!Next /\ UNCHANGED Beyond5
    \/ pick = "nofork" /\ N!Next /\ UNCHANGED Beyond9
    \/ pick = "socks" /\ S!Next /\ UNCHANGED Beyond13
    \/ pick = "dial" /\ C!Next /\ UNCHANGED Beyond12
    \/ pick = "fdopts" /\ F!Next /\ UNCHANGED Beyond9
    \/ pick = "dns" /\ D!Next /\ UNCHANGED Beyond13

Spec == Init /\ [][Next]_vars

-----------------------------------------------------------------------------

\* Opening and starting leave nothing behind: whatever step of an open fails, every
\* descriptor, goroutine, bound name and terminal setting the process still holds is
\* owned by the endpoint it returns, and is released once when that is closed; the
\* copies made for a nofork command are gone from the parent, and the command finds
\* each at the descriptor its options name and nothing else beside them.
OwnedOrReleased ==
    /\ pick = "open" => O!NothingLeaks
    /\ pick = "nofork" => N!DescriptorsExact

\* The tcpwrap tables give the verdict their documented grammar does: first match in
\* the allow table, then in the deny table, with EXCEPT nested to the right and every
\* error refusing the client.
WrapVerdict == pick = "wrap" => T!WrapVerdict

\* An address written with any of the quoting styles reads back as it was meant, and
\* one cut off inside a quotation is an error.
ReadBack == pick = "syntax" => A!ReadBack

\* Cutting a stream into pieces changes nothing: a SOCKS handshake stops right before
\* the peer's data, and only after every request was granted; DNS over TCP delivers one
\* whole answer per query, in order, and holds one socket at most.
CutAnywhere ==
    /\ pick = "socks" => S!HandshakeExact
    /\ pick = "dns" => D!DnsExact

\* Options do what they say in the order documented: a client tries the addresses its
\* options allow, preferred family first, each once, from a matching local address; and
\* a stream's descriptors end up as the last option for each attribute says.
OptionsFollowed ==
    /\ pick = "dial" => C!DialsInOrder
    /\ pick = "fdopts" => F!OptionsTakeEffect
==============================================================================
