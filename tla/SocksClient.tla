---------------------------- MODULE SocksClient ----------------------------
(***************************************************************************)
(* The SOCKS4, SOCKS4A and SOCKS5 handshakes (proxyopen/socks.go) on a     *)
(* stream that carries the peer's data right behind the server's last      *)
(* reply.  A reply's length depends on its own bytes; it arrives in pieces *)
(* of any size, may break off, or may come too late.                       *)
(***************************************************************************)
EXTENDS Naturals, Sequences

CONSTANT MaxName        \* longest domain name in a reply

VARIABLES
    call,       \* what the address asks for: protocol, command, credentials
    server,     \* how this server will answer
    sent,       \* the client's requests, by kind
    answered,   \* how many of them the server has answered
    wire,       \* the bytes the server has sent
    arrived,    \* how many of them have arrived
    gone,       \* has the server closed the connection?
    late,       \* has the handshake deadline passed?
    pos,        \* how many bytes the client has read
    need,       \* the read under way: how many bytes
    replies,    \* how many replies to the request are still to be read
    pc,         \* what that read is of
    open        \* does the client hold its connection open?

vars == <<call, server, sent, answered, wire, arrived, gone, late, pos, need, replies, pc, open>>

Data == <<200>>     \* what the peer behind the server sends

\* Only sensible combinations are listed: what the call never reaches is fixed.
Init ==
    /\ call \in [socks : {4}, cmd : {"connect"}, creds : {FALSE}]
            \cup [socks : {5}, cmd : {"connect", "bind"}, creds : BOOLEAN]
    /\ server \in [version : {4, 5}, method : {0, 1, 2, 255}, status : {0, 1},
                   rep : {0, 1, 90, 91}, atyp : {1, 3, 4, 9}, name : 0 .. MaxName, second : {0, 1}]
    /\ server.atyp # 3 => server.name = 0
    /\ call.socks = 4 => server.rep >= 90 /\ server.method = 0 /\ server.status = 0 /\ server.atyp = 1
                         /\ server.version = 5 /\ server.second = 0
    /\ call.socks = 5 => server.rep < 90
    /\ server.method # 2 => server.status = 0
    /\ call.cmd = "connect" => server.second = 0
    /\ sent = <<>>
    /\ answered = 0 /\ wire = <<>> /\ arrived = 0 /\ gone = FALSE /\ late = FALSE
    /\ pos = 0 /\ need = 0 /\ replies = (IF call.cmd = "bind" THEN 2 ELSE 1)
    /\ pc = "begin" /\ open = TRUE

----------------------------------------------------------------------------
(* The server *)

Zeros(n) == [i \in 1 .. n |-> 0]

\* A SOCKS5 reply: header, bound address of its type, port.
Reply(rep) ==
    <<server.version, rep, 0, server.atyp>>
    \o (CASE server.atyp = 1 -> Zeros(4)
          [] server.atyp = 4 -> Zeros(16)
          [] server.atyp = 3 -> <<server.name>> \o Zeros(server.name)
          [] OTHER -> Zeros(4))
    \o Zeros(2)

Answer(request) ==
    CASE request = "socks4" -> <<0, server.rep>> \o Zeros(6) \o (IF server.rep = 90 THEN Data ELSE <<>>)
      [] request = "methods" -> <<server.version, server.method>>
      [] request = "userpass" -> <<1, server.status>>
      [] request = "connect" -> Reply(server.rep) \o (IF server.rep = 0 THEN Data ELSE <<>>)
      [] request = "bind" -> Reply(server.rep)
                             \o (IF server.rep # 0 THEN <<>>
                                 ELSE Reply(server.second) \o (IF server.second = 0 THEN Data ELSE <<>>))

ServerAnswers ==
    /\ ~gone /\ answered < Len(sent)
    /\ answered' = answered + 1
    /\ wire' = wire \o Answer(sent[answered + 1])
    /\ UNCHANGED <<call, server, sent, arrived, gone, late, pos, need, replies, pc, open>>

Deliver ==
    /\ arrived' \in arrived + 1 .. Len(wire)
    /\ UNCHANGED <<call, server, sent, answered, wire, gone, late, pos, need, replies, pc, open>>

\* It may cut off what it has sent but the network not yet delivered.
ServerCloses ==
    /\ ~gone
    /\ gone' = TRUE
    /\ wire' = SubSeq(wire, 1, arrived)
    /\ UNCHANGED <<call, server, sent, answered, arrived, late, pos, need, replies, pc, open>>

DeadlinePasses ==
    /\ ~late /\ pc \notin {"done", "failed"}
    /\ late' = TRUE
    /\ UNCHANGED <<call, server, sent, answered, wire, arrived, gone, pos, need, replies, pc, open>>

----------------------------------------------------------------------------
(* The client *)

Got(i) == wire[pos + i]
Full == arrived >= pos + need

\* io.ReadFull has its bytes; the next one is of n bytes and called next.
Take(next, n) ==
    /\ pos' = pos + need
    /\ need' = n
    /\ pc' = next
    /\ UNCHANGED open

\* Every error closes the connection: the deferred CloseQuiet, openSOCKS4's.
Refuse == pc' = "failed" /\ open' = FALSE /\ UNCHANGED <<pos, need, sent, replies>>

\* Write the request, which may fail once the server is gone, then read n bytes.
Ask(request, next, n) ==
    \/ Take(next, n) /\ sent' = Append(sent, request) /\ UNCHANGED replies
    \/ gone /\ Refuse

Read(next, n) == Take(next, n) /\ UNCHANGED <<sent, replies>>

Step(at) == pc = at /\ Full /\ UNCHANGED <<call, server, answered, wire, arrived, gone, late>>

socks4Handshake ==
    /\ Step("begin") /\ call.socks = 4
    /\ Ask("socks4", "reply4", 8)

socks4ReadReply ==
    /\ Step("reply4")
    /\ IF Got(2) = 90 THEN Read("done", 0) ELSE Refuse

socks5AuthMethods ==
    /\ Step("begin") /\ call.socks = 5
    /\ Ask("methods", "hello", 2)

socks5Request == Ask(call.cmd, "header", 4)

socks5Hello ==
    /\ Step("hello")
    /\ CASE Got(1) = 5 /\ Got(2) = 0 -> socks5Request
         [] Got(1) = 5 /\ Got(2) = 2 /\ call.creds -> Ask("userpass", "auth", 2)
         [] OTHER -> Refuse

socks5Auth ==
    /\ Step("auth")
    /\ IF Got(2) = 0 THEN socks5Request ELSE Refuse

\* How much of the reply follows its header, as skipped for IPv4 only (mutant).
SkippedShort(atyp) == CASE atyp = 1 -> 6 [] atyp = 4 -> 6 [] atyp = 3 -> 1

Skipped(atyp) == CASE atyp = 1 -> 6 [] atyp = 4 -> 18 [] atyp = 3 -> 1

socks5ReadReply ==
    /\ Step("header")
    /\ IF Got(1) = 5 /\ Got(2) = 0 /\ Got(4) \in {1, 3, 4}
       THEN Read(IF Got(4) = 3 THEN "length" ELSE "rest", Skipped(Got(4)))
       ELSE Refuse

socks5NameLength ==
    /\ Step("length")
    /\ Read("rest", Got(1) + 2)

\* A BIND is answered twice: when the server listens and when the peer has come.
socks5ReplyRead ==
    /\ Step("rest")
    /\ replies' = replies - 1
    /\ IF replies = 2 THEN Take("header", 4) ELSE Take("done", 0)
    /\ UNCHANGED sent

ReadFails ==
    /\ pc \notin {"done", "failed"}
    /\ ~Full
    /\ late \/ (gone /\ arrived = Len(wire))
    /\ Refuse
    /\ UNCHANGED <<call, server, answered, wire, arrived, gone, late>>

Next ==
    \/ ServerAnswers \/ Deliver \/ ServerCloses \/ DeadlinePasses
    \/ socks4Handshake \/ socks4ReadReply \/ socks5AuthMethods \/ socks5Hello \/ socks5Auth \/ socks5ReadReply \/ socks5NameLength
    \/ socks5ReplyRead \/ ReadFails

Spec == Init /\ [][Next]_vars

----------------------------------------------------------------------------

\* Did the server grant what was asked, with the credentials it asked for?
Granted ==
    IF call.socks = 4 THEN server.rep = 90
    ELSE /\ server.version = 5 /\ server.rep = 0 /\ server.second = 0 /\ server.status = 0
         /\ server.method \in (IF call.creds THEN {0, 2} ELSE {0})
         /\ server.atyp \in {1, 3, 4}

\* The handshake succeeds only if every question was granted, and then the client has
\* read the replies to their last byte and nothing of the data behind them; after any
\* failure its connection is closed.
HandshakeExact ==
    /\ pc = "done" => /\ Granted /\ open
                      /\ SubSeq(wire, pos + 1, Len(wire)) \in ({Data} \cup IF gone THEN {<<>>} ELSE {})
    /\ pc = "failed" => ~open
=============================================================================
