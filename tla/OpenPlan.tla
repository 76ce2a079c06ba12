------------------------------ MODULE OpenPlan ------------------------------
(***************************************************************************)
(* What opening an address acquires and what every early return gives      *)
(* back.  An opener of internal/xio is a straight line of steps, each of   *)
(* which may fail; a failed step undoes what the opener's own code undoes  *)
(* at that point and the error returns through the callers.  A plan is     *)
(* that line of steps, together with what the Opened it ends in owns.      *)
(* OpenPreparedSpec wraps every opener (address lock, network namespace),  *)
(* and openPreparedDual opens two of them, one after the other.            *)
(*                                                                         *)
(* Resources are names: those of Bare are plain descriptors, which must    *)
(* not be closed twice; the others are Go objects with an idempotent       *)
(* Close.  "name" is a file-system entry that the opener has undertaken to *)
(* remove, "path" one that it leaves behind (a name bound before the       *)
(* opener tracks it, or kept by unlink-close=0).  Consecutive steps that   *)
(* undo the same things are one step.  end-close, which keeps the payload  *)
(* open on request, is not modelled.                                       *)
(***************************************************************************)
EXTENDS Naturals, Sequences

CONSTANT MaxTries       \* bound on how often one open starts a retried region again

VARIABLES
    phase,      \* "choose", "opening", "between", "split", "open", "failed", "unrestored", "closed"
    dual,       \* is this the dual form left!!right?
    side,       \* the side being opened
    plan,       \* the steps of the opener that runs
    pc,         \* its next step
    tries,      \* retries so far
    held,       \* per side, what the process holds
    own,        \* per side, what the Opened owns
    twice       \* was a bare descriptor closed twice, or overwritten while open?

vars == <<phase, dual, side, plan, pc, tries, held, own, twice>>

Sides == {"left", "right"}
Bare == {"fd", "dup", "saved", "nsfd", "mq"}

----------------------------------------------------------------------------
(* Steps and the ways openers compose them.                                *)

Step(gain, drop, undo) ==
    [gain |-> gain, drop |-> drop, undo |-> undo, out |-> {}, back |-> 0, fails |-> "open"]

Get(r, undo) == Step({r}, {}, undo)
Try(undo) == Step({}, {}, undo)
Swap(r, s, undo) == Step({s}, {r}, undo)
Sure(step) == [step EXCEPT !.fails = "never"]
Drop(rs) == Sure(Step({}, rs, {}))
Become(r, s) == Sure(Swap(r, s, {}))

\* WithRetry: a failure starts the region again, or leaves it for good.  The
\* walks over addresses, low ports and socket types are the same.
WithRetry(steps) == [i \in DOMAIN steps |-> [steps[i] EXCEPT !.back = i]]

\* What a caller releases when the error passes through it.
Releasing(steps, rs) == [i \in DOMAIN steps |-> [steps[i] EXCEPT !.out = @ \cup rs]]

Plan(steps, owned) == [steps |-> steps, owned |-> owned]
Before(steps, plans) == {Plan(steps \o p.steps, p.owned) : p \in plans}

----------------------------------------------------------------------------
(* The shared openers of internal/xio.                                     *)

\* DialTCPAll: resolve, then walk the addresses; options failing closes c.
DialTCPAll == WithRetry(<<Try({}), Get("conn", {}), Try({"conn"})>>)

\* A dial that fails without running Cleanup (mutant).
OpenDialedUnclean(dial, cleanup) ==
    {Plan(<<Try(cleanup)>>, cleanup),
     Plan(<<Try(cleanup)>> \o dial \o <<Try({"conn"} \cup cleanup)>>, {"conn"} \cup cleanup)}

\* OpenDialed: fork limits, then the repeated dial of fork, or one dial whose
\* TLS bookkeeping, wrapping and NewReady close the connection on failure.
OpenDialed(dial, cleanup) ==
    {Plan(<<Try(cleanup)>>, cleanup),
     Plan(<<Try(cleanup)>> \o Releasing(dial, cleanup) \o <<Try({"conn"} \cup cleanup)>>,
          {"conn"} \cup cleanup)}

ListenTCP == <<Try({}), Get("ln", {})>>

\* acceptOnce: a refused peer is closed and the accept repeated; the listener
\* goes after the accept unless the session keeps it.
acceptOnce(ln, keep) ==
    <<Get("conn", ln), [Try({"conn"}) EXCEPT !.out = ln, !.back = 2]>>
        \o (IF keep THEN <<>> ELSE <<Drop(ln)>>)
        \o <<Try({"conn"} \cup ln)>>

\* OpenListenSession: limits and peer filter, then the accepting parent of
\* fork, or the one accepted connection.
OpenListenSession(ln, keep) ==
    {Plan(<<Try(ln)>>, ln),
     Plan(<<Try(ln)>> \o acceptOnce(ln, keep), {"conn"} \cup (IF keep THEN ln ELSE {}))}

\* ListenPacketWithOptions; ListenClientPacket walks the low ports over it.
ListenPacketWithOptions == <<Try({}), Get("pc", {}), Try({"pc"})>>
ListenClientPacket == WithRetry(ListenPacketWithOptions)

----------------------------------------------------------------------------
(* internal/xio/netopen: stream sockets.                                   *)

openTCPConnectNetwork == Before(<<Try({})>>, OpenDialed(DialTCPAll, {}))
openTCPListenNetwork == Before(ListenTCP, OpenListenSession({"ln"}, FALSE))

\* dialUnixSocklen: n is the name bind= creates.  FileConn dups: both the
\* original and the duplicate are closed whatever it returns.
dialUnixSocklen(n) ==
    WithRetry(<<Try({}), Get("fd", {}), Try({"fd"}), Step(n, {}, {"fd"}), Try({"fd"} \cup n),
                Get("dup", {"fd"} \cup n),
                Step({"conn"}, {"fd", "dup"}, {"fd", "dup"} \cup n)>>)

\* trackUnixBind: from here on the name is removed with the endpoint, or,
\* with unlink-close=0, kept.
trackUnixBind(bound, unlink) ==
    Sure(Step(IF unlink THEN {"name"} ELSE {"path"}, {bound}, {}))

\* openUnixConnect and openUnixDgramClient: the socket types are tried in
\* turn; after tracking every failure drops connection and name.
openUnixConnect ==
    {Plan(<<Try({})>> \o dialUnixSocklen({}) \o <<Try({"conn"})>>, {"conn"})}
    \cup {Plan(<<Try({})>> \o dialUnixSocklen({"name"}) \o <<trackUnixBind("name", u)>>
                   \o <<Try({"conn", "name"})>>, {"conn", "name"}) : u \in BOOLEAN}

\* listenUnixNetwork: the bound path is not tracked here.
listenUnixNetwork(path) ==
    <<Get("fd", {}), Try({"fd"}), Step(path, {}, {"fd"}), Try({"fd"}), Get("dup", {"fd"}),
      Step({"ln"}, {"fd", "dup"}, {"fd", "dup"})>>

\* openUnixListen: attributes failing removes the path; from then on closing
\* the listener removes it, unless unlink-close=0.
openUnixListen ==
    UNION {Before(<<Try({})>> \o listenUnixNetwork({"path"}) \o <<Try({"ln", "path"})>>
                      \o (IF u THEN <<Become("path", "name")>> ELSE <<>>),
                  OpenListenSession(IF u THEN {"ln", "name"} ELSE {"ln"}, FALSE)) : u \in BOOLEAN}

openAbstractListen ==
    Before(<<Try({})>> \o listenUnixNetwork({}) \o <<Try({"ln"})>>, OpenListenSession({"ln"}, FALSE))

\* dialRawSocket ends in connFromFD, which owns fd from its first line.
dialRawSocket == <<Get("fd", {}), Try({"fd"}), Swap("fd", "conn", {"fd"})>>
openSocketConnect == Before(<<Try({})>>, OpenDialed(WithRetry(dialRawSocket), {}))

\* A rawListener is the bare descriptor itself.
openSocketListen ==
    Before(<<Try({}), Get("fd", {}), Try({"fd"}), Become("fd", "ln")>>,
           OpenListenSession({"ln"}, FALSE))

\* connectSCTP ends in fileConn, which closes the original either way.
connectSCTP == <<Get("fd", {}), Try({"fd"}), Swap("fd", "conn", {"fd"})>>
openSCTPConnectNetwork == Before(<<Try({})>>, OpenDialed(WithRetry(<<Try({})>> \o connectSCTP), {}))
listenSCTP == <<Try({}), Get("fd", {}), Try({"fd"}), Become("fd", "ln")>>
openSCTPListenNetwork == Before(<<Try({})>> \o listenSCTP, OpenListenSession({"ln"}, FALSE))

dialVSOCK == <<Try({}), Get("fd", {}), Try({"fd"}), Swap("fd", "conn", {"fd"})>>
openVSOCKConnect == Before(<<Try({})>>, OpenDialed(WithRetry(dialVSOCK), {}))
listenVSOCK == <<Try({}), Get("fd", {}), Try({"fd"}), Swap("fd", "ln", {"fd"})>>
openVSOCKListen == Before(listenVSOCK, OpenListenSession({"ln"}, FALSE))

----------------------------------------------------------------------------
(* internal/xio/netopen: datagram sockets.                                 *)

\* fileFromFD owns fd from its first line.
fileFromFD == Swap("fd", "file", {"fd"})

openSocketDgram ==
    {Plan(<<Try({}), Get("fd", {}), Try({"fd"}), fileFromFD, Try({"file"})>>, {"file"})}

openSocketRecvfromFork == <<Try({"file"})>>
openSocketRecvfromOneShot == <<Try({"file"}), Try({"file"})>>

\* openSocketRecvCommon: the fork listener, the one-shot peer and the merged
\* stream all close the file on every later failure.
openSocketRecvCommon ==
    {Plan(<<Try({}), Get("fd", {}), Try({"fd"}), fileFromFD>> \o tail, {"file"}) :
        tail \in {openSocketRecvfromFork, openSocketRecvfromOneShot, <<Try({"file"})>>}}

\* unixConnFromFD: NewFile owns fd, FilePacketConn dups it, the original goes.
unixConnFromFD == Swap("fd", "conn", {"fd"})
listenUnixgramUnbound == <<Get("fd", {}), Try({"fd"}), unixConnFromFD>>
listenUnixgramBound(path) == <<Get("fd", {}), Try({"fd"}), Step(path, {}, {"fd"}), unixConnFromFD>>

\* finishUnixgramSend, with and without bind=.
finishUnixgramSend ==
    {Plan(listenUnixgramUnbound \o <<Try({"conn"})>>, {"conn"})}
    \cup {Plan(<<Try({})>> \o listenUnixgramBound({"path"})
                   \o <<trackUnixBind("path", u), Try({"conn", "name"})>>,
               {"conn", "name"}) : u \in BOOLEAN}

openUnixgramSend == Before(<<Try({})>>, finishUnixgramSend)

\* openUnixRecvCommon: fork, first packet, or merged stream, all on the bound
\* socket; an abstract name has no directory entry.
openUnixRecvCommon ==
    {Plan(<<Try({})>> \o listenUnixgramBound({"path"})
              \o <<trackUnixBind("path", u), Try({"conn", "name"}), Try({"conn", "name"})>>,
          {"conn", "name"}) : u \in BOOLEAN}
    \cup {Plan(<<Try({})>> \o listenUnixgramBound({}) \o <<Try({"conn"}), Try({"conn"})>>, {"conn"})}

dialUDPForSpec == <<Try({}), Get("pc", {}), Try({"pc"})>>
dialUDPLowport == WithRetry(dialUDPForSpec)
openUDPConnectNetwork ==
    {Plan(<<Try({})>> \o dial \o <<Try({"pc"})>>, {"pc"}) : dial \in {dialUDPForSpec, dialUDPLowport}}

bindUDPLowport == WithRetry(<<Try({}), Get("pc", {}), Try({"pc"})>>)
wrapUDPDatagram == <<Try({"pc"})>>
openUDPDatagramNetwork ==
    {Plan(<<Try({})>> \o bind \o wrapUDPDatagram, {"pc"}) :
        bind \in {bindUDPLowport, <<Try({}), Get("pc", {}), Try({"pc"})>>}}

listenUDP == <<Get("pc", {}), Try({"pc"})>>
bindUDPPort == <<Try({})>> \o listenUDP

openUDPRecvfromFork == <<Try({"pc"})>>
openUDPRecvfromOne == <<Try({"pc"}), Try({"pc"}), Try({"pc"})>>
openUDPRecvAll == <<Try({"pc"}), Try({"pc"})>>
openUDPRecvNetwork ==
    {Plan(bindUDPPort \o tail, {"pc"}) :
        tail \in {openUDPRecvfromFork, openUDPRecvfromOne, openUDPRecvAll}}

openUDPListenFork == <<Try({"pc"})>>
openUDPListenOnePeer == <<Try({"pc"}), Try({"pc"}), Try({"pc"})>>
openUDPListenNetwork ==
    {Plan(bindUDPPort \o tail, {"pc"}) : tail \in {openUDPListenFork, openUDPListenOnePeer}}

dialRawIP == <<Get("pc", {}), Try({"pc"})>>
listenRawIP == <<Get("pc", {}), Try({"pc"})>>
openIPSendtoNetwork == {Plan(<<Try({})>> \o dialRawIP \o <<Try({"pc"}), Try({"pc"})>>, {"pc"})}
openIPDatagramNetwork == {Plan(<<Try({})>> \o listenRawIP \o <<Try({"pc"}), Try({"pc"})>>, {"pc"})}
openIPRecvfromFork == <<Try({"pc"})>>
openIPRecvfromOneShot == <<Try({"pc"}), Try({"pc"}), Try({"pc"})>>
openIPRecvNetwork ==
    {Plan(<<Try({})>> \o listenRawIP \o <<Try({"pc"})>> \o tail, {"pc"}) :
        tail \in {openIPRecvfromFork, openIPRecvfromOneShot, <<Try({"pc"})>>}}

----------------------------------------------------------------------------
(* TLS, DTLS, WebSocket, QUIC and the proxies.                             *)

\* A handshake on the dialled connection; its failure closes the connection.
Shaken == WithRetry(DialTCPAll \o <<Try({"conn"})>>)

openTLSConnectNetwork == Before(<<Try({})>>, OpenDialed(Shaken, {}))
openTLSListenNetwork == Before(<<Try({})>> \o ListenTCP, OpenListenSession({"ln"}, FALSE))

openDTLSClient ==
    Before(<<Try({})>>,
           OpenDialed(WithRetry(<<Try({})>> \o ListenClientPacket \o <<Swap("pc", "conn", {"pc"})>>), {}))
openDTLSServer ==
    Before(<<Try({})>> \o ListenPacketWithOptions \o <<Swap("pc", "ln", {"pc"})>>,
           OpenListenSession({"ln"}, TRUE))

\* dialWS closes the raw connection unless the WebSocket took it over.
dialWS == DialTCPAll \o <<Try({"conn"})>>
openWSConnectScheme == Before(<<Try({})>>, OpenDialed(WithRetry(dialWS), {}))
openWSListenTLS ==
    Before(<<Try({})>> \o ListenTCP \o <<Try({"ln"})>>, OpenListenSession({"ln"}, FALSE))

\* openQUICConnect: one packet socket for all attempts, closed by Cleanup.
openQUICConnect ==
    Before(<<Try({})>> \o ListenClientPacket,
           OpenDialed(WithRetry(<<Try({}), Get("conn", {}), Try({"conn"})>>), {"pc"}))
openQUICListen ==
    Before(<<Try({})>> \o ListenPacketWithOptions \o <<Swap("pc", "ln", {"pc"})>>,
           OpenListenSession({"ln"}, TRUE))

\* openCONNECTTunnel: request pipe and response body; rs is what the dialer's
\* deferred function closes as well.
openCONNECTTunnel(rs) ==
    <<Get("pipe", rs), Try({"pipe"} \cup rs), Get("body", {"pipe"} \cup rs),
      Try({"pipe", "body"} \cup rs)>>

dialH2CONNECT ==
    <<Try({})>> \o WithRetry(DialTCPAll \o <<Try({"conn"})>> \o openCONNECTTunnel({"conn"})
                                \o <<Drop({"pipe", "body"})>>)

listenH3Packet == <<Try({})>> \o ListenClientPacket
dialH3CONNECT ==
    <<Try({})>> \o WithRetry(listenH3Packet \o openCONNECTTunnel({"pc"})
                                \o <<Sure(Step({"conn"}, {"pc", "pipe", "body"}, {}))>>)

openProxyDial(dial) == OpenDialed(dial, {})
openProxyConnect ==
    UNION {Before(<<Try({})>>, openProxyDial(d)) : d \in {dialH2CONNECT, dialH3CONNECT, Shaken}}

\* socks5Handshake closes the connection itself, socks4Handshake its caller.
openSOCKS4 == Before(<<Try({})>>, OpenDialed(WithRetry(DialTCPAll \o <<Try({"conn"})>>), {}))
openSOCKS5 == Before(<<Try({})>>, OpenDialed(WithRetry(DialTCPAll \o <<Try({"conn"})>>), {}))

----------------------------------------------------------------------------
(* internal/xio/fileopen.  "tty" is terminal state that must be put back.  *)

\* AttachConfiguredTermios saves, applies and registers the restore.
AttachConfiguredTermios(undo) == Get("tty", undo)

\* FileOpened; the entry of unlink-close is removed with the endpoint.
FileOpened(u) ==
    (IF u THEN <<Sure(Step({"name"}, {}, {}))>> ELSE <<>>)
        \o <<Try({"file", "name"}), AttachConfiguredTermios({"file", "name"})>>

openOPEN == {Plan(<<Try({}), Get("file", {})>> \o FileOpened(u), {"file", "name", "tty"}) : u \in BOOLEAN}
openCREATE == {Plan(<<Try({}), Get("file", {})>> \o FileOpened(u), {"file", "name", "tty"}) : u \in BOOLEAN}

\* openGOPEN: a socket is connected, anything else opened.
openGOPEN ==
    openOPEN \cup {Plan(<<Try({})>> \o p.steps \o <<Try(p.owned)>>, p.owned) : p \in openUnixConnect}

\* prepareNamedPIPE leaves the created FIFO (n), or one that existed.
prepareNamedPIPE(n) == IF n = {} THEN <<Try({})>> ELSE <<Try({}), Get("name", {}), Try(n)>>

\* removeCreated takes the created FIFO away, unlink-close=0 or not.
openRead(n) == <<Get("file", n), Try({"file"} \cup n), Try({"file"} \cup n)>>
openWrite(n) ==
    <<Get("reader", n), Get("file", {"reader"} \cup n), Drop({"reader"}),
      Try({"file"} \cup n), Try({"file"} \cup n)>>
openBidir(n) ==
    <<Get("reader", n), Get("file", {"reader"} \cup n),
      Try({"reader", "file"} \cup n), Try({"reader", "file"} \cup n)>>

\* addPathCleanup: with unlink-close=0 the FIFO stays.
addPathCleanup(n, unlink) ==
    IF n = {} \/ unlink THEN <<>> ELSE <<Become("name", "path")>>

openNamedPIPE(n) ==
    {Plan(prepareNamedPIPE(n) \o open \o addPathCleanup(n, u), {"reader", "file", "name"}) :
        u \in BOOLEAN, open \in {openRead(n), openWrite(n), openBidir(n)}}

openPIPE ==
    {Plan(<<Try({}), Get("pipe", {}), Try({"pipe"})>>, {"pipe"})}
    \cup openNamedPIPE({}) \cup openNamedPIPE({"name"})

\* openSocketpair: message types are re-opened as net.Conns, one by one.
openSocketpair ==
    {Plan(<<Get("pair", {}), Try({"pair"}), Try({"pair"})>>, {"pair"}),
     Plan(<<Get("pair", {}), Get("near", {"pair"}), Get("far", {"near", "pair"}), Drop({"pair"}),
            Try({"near", "far"})>>, {"near", "far"})}

openSTDIO ==
    {Plan(<<Try({}), AttachConfiguredTermios({}), Get("tty2", {"tty"})>>, {"tty", "tty2"})}
openSTDIN == {Plan(<<Try({}), AttachConfiguredTermios({})>>, {"tty"})}
openSTDOUT == {Plan(<<Try({}), AttachConfiguredTermios({})>>, {"tty"})}
openSTDERR == {Plan(<<Try({}), AttachConfiguredTermios({})>>, {"tty"})}
openFD ==
    {Plan(<<Try({}), Get("file", {}), Try({"file"}), AttachConfiguredTermios({"file"})>>, {"file", "tty"})}

openAcceptFDNum == Before(<<Try({}), Get("ln", {})>>, OpenListenSession({"ln"}, FALSE))

openTEXT == {Plan(<<Try({})>>, {})}
openSTALL == {Plan(<<Get("stallr", {}), Get("stallw", {"stallr"})>>, {"stallr", "stallw"})}

\* CreateConfiguredPtySlaveLink: unlink-close=0 leaves the link.
CreateConfiguredPtySlaveLink(u) ==
    <<Get("name", {"master", "slave"})>> \o (IF u THEN <<>> ELSE <<Become("name", "path")>>)

\* openPTY; with pty-wait-slave the slave is closed before the wait.
openPTY ==
    {Plan(<<Step({"master", "slave"}, {}, {}), Try({"master", "slave"})>>
              \o CreateConfiguredPtySlaveLink(u) \o <<Try({"name", "master", "slave"})>>
              \o (IF wait THEN <<Drop({"slave"}), Try({"name", "master"})>> ELSE <<>>),
          {"master", "slave", "name"}) : u \in BOOLEAN, wait \in BOOLEAN}

----------------------------------------------------------------------------
(* internal/xio/execopen.  "child" is a process that was started and not   *)
(* yet waited for; start kills and reaps it when its own tail fails.       *)

start(undo) == Get("child", undo)

\* startAndDropChildFDs: the child's ends are closed whether it started.
startAndDropChildFDs(mine, childs) ==
    <<start(mine \cup childs), Drop(childs)>>

\* finishStream: killWait, then the cleanup of the parent's ends.
finishStream(mine) == <<Try({"child"} \cup mine)>>

Forked(ends, mine, childs) ==
    Plan(ends \o startAndDropChildFDs(mine, childs) \o finishStream(mine), {"child"} \cup mine)

startCmdPipes ==
    {Forked(<<Step({"pin", "cin"}, {}, {}), Try({"pin", "cin"})>>, {"pin"}, {"cin"}),
     Forked(<<Step({"pout", "cout"}, {}, {}), Try({"pout", "cout"})>>, {"pout"}, {"cout"}),
     Forked(<<Step({"pin", "cin"}, {}, {}), Try({"pin", "cin"}),
              Step({"pout", "cout"}, {}, {"pin", "cin"}), Try({"pin", "cin", "pout", "cout"})>>,
            {"pin", "pout"}, {"cin", "cout"})}

startCmdSocketpair ==
    {Forked(<<Step({"near", "far"}, {}, {}), Try({"near", "far"})>>, {"near"}, {"far"})}

openExecPTYPair(u) ==
    <<Step({"master", "slave"}, {}, {}), Try({"master", "slave"})>> \o CreateConfiguredPtySlaveLink(u)

\* startOnPTY: the writing side only drops the slave; a reading side hands it
\* to execPTYMasterReader, which closes it whatever happens.
startOnPTY(u, reads) ==
    openExecPTYPair(u)
        \o <<start({"name", "master", "slave"})>>
        \o (IF reads
            THEN <<Try({"child", "name", "master", "slave"}),
                   Step({}, {"slave"}, {"child", "name", "master", "slave"})>>
            ELSE <<Drop({"slave"}), Try({"child", "name", "master"})>>)
        \o finishStream({"name", "master"})

startPty == {Plan(startOnPTY(u, r), {"child", "master", "name"}) : u \in BOOLEAN, r \in BOOLEAN}
startPtyFDRedirect ==
    {Plan(startOnPTY(u, r), {"child", "master", "name"}) : u \in BOOLEAN, r \in BOOLEAN}

\* runNoFork: the peer's files are duplicated for the command, closed once it
\* runs, and the command is waited for; nothing is left to own.
runNoFork ==
    {Plan(<<Try({}), Get("single", {}), Get("extra", {"single"}), Drop({"single"}), Try({"extra"}),
            start({"extra"}), Drop({"extra"}), Drop({"child"})>>, {}),
     Plan(<<Try({}), Get("single", {}), Get("near", {"single"}), Get("far", {"near", "single"}),
            Drop({"single"}), start({"near", "far"}), Drop({"near", "far"}), Drop({"child"})>>, {})}

\* prepareForked, then the transport the options select.
startForked == Before(<<Try({})>>, startCmdPipes \cup startCmdSocketpair \cup startPty)

----------------------------------------------------------------------------
(* internal/xio/tunopen and posixmqopen.                                   *)

\* openTUN: the control socket goes with a deferred close.
openTUN ==
    {Plan(<<Try({}), Get("fd", {}), Try({"fd"}), Get("sock", {"fd"}), Try({"fd", "sock"}),
            Become("fd", "file"), Try({"file", "sock"}), Drop({"sock"})>>, {"file"})}
openINTERFACE ==
    {Plan(<<Try({}), Get("fd", {}), Try({"fd"}), Become("fd", "file"), Try({"file"})>>, {"file"})}

\* posixMQOpenQueue; unlink-close tracks the queue's name from here on.
posixMQOpenQueue(u) ==
    <<Try({})>> \o WithRetry(<<Get("fd", {})>>) \o <<Try({"fd"})>>
        \o (IF u THEN <<Sure(Step({"name"}, {}, {}))>> ELSE <<>>) \o <<Become("fd", "mq")>>
posixMQWrapSendFork == <<Try({"mq", "name"})>>
posixMQWrapRecvFork == <<Get("notify", {"mq", "name"})>>
posixMQWrapStream ==
    <<Get("notify", {"mq", "name"}), Try({"notify", "mq", "name"}), Try({"notify", "mq", "name"})>>

openPOSIXMQ ==
    {Plan(posixMQOpenQueue(u) \o wrap, {"mq", "name", "notify"}) :
        u \in BOOLEAN, wrap \in {posixMQWrapSendFork, posixMQWrapRecvFork, posixMQWrapStream}}

----------------------------------------------------------------------------
(* Opening a prepared address, alone or as half of a dual one.             *)

Openers ==
    openTCPConnectNetwork \cup openTCPListenNetwork \cup openUnixConnect \cup openUnixListen
    \cup openAbstractListen \cup openSocketConnect \cup openSocketListen
    \cup openSCTPConnectNetwork \cup openSCTPListenNetwork \cup openVSOCKConnect \cup openVSOCKListen
    \cup openSocketDgram \cup openSocketRecvCommon \cup openUnixgramSend \cup openUnixRecvCommon
    \cup openUDPConnectNetwork \cup openUDPDatagramNetwork \cup openUDPRecvNetwork
    \cup openUDPListenNetwork \cup openIPSendtoNetwork \cup openIPDatagramNetwork \cup openIPRecvNetwork
    \cup openTLSConnectNetwork \cup openTLSListenNetwork \cup openDTLSClient \cup openDTLSServer
    \cup openWSConnectScheme \cup openWSListenTLS \cup openQUICConnect \cup openQUICListen
    \cup openProxyConnect \cup openSOCKS4 \cup openSOCKS5
    \cup openOPEN \cup openCREATE \cup openGOPEN \cup openPIPE \cup openSocketpair
    \cup openSTDIO \cup openSTDIN \cup openSTDOUT \cup openSTDERR \cup openFD \cup openAcceptFDNum
    \cup openTEXT \cup openSTALL \cup openPTY \cup startForked \cup startPtyFDRedirect \cup runNoFork
    \cup openTUN \cup openINTERFACE \cup openPOSIXMQ

\* WithNetNS: the saved namespace is re-entered after the opener whatever it
\* returned, and its descriptor closed.
WithNetNS(steps) ==
    <<Get("saved", {}), Get("nsfd", {"saved"}), Try({"nsfd", "saved"}), Drop({"nsfd"})>>
        \o Releasing(steps, {"saved"})
        \o <<[Step({}, {"saved"}, {"saved"}) EXCEPT !.fails = "restore"]>>

\* OpenPreparedSpec: paths, then lockfile=/waitlock=, then the opener.
OpenPreparedSpec(p, locked) ==
    IF locked
    THEN Plan(<<Try({}), Get("lock", {})>> \o Releasing(WithNetNS(p.steps), {"lock"}),
              p.owned \cup {"lock"})
    ELSE Plan(<<Try({})>> \o p.steps, p.owned)

Init ==
    /\ phase = "choose"
    /\ dual \in BOOLEAN
    /\ side = "left"
    /\ plan = <<>>
    /\ pc = 1
    /\ tries = 0
    /\ held = [s \in Sides |-> {}]
    /\ own = [s \in Sides |-> {}]
    /\ twice = FALSE

\* An address is given: its opener, and whether it has a lock and a namespace.
Choose ==
    /\ phase = "choose"
    /\ \E p \in Openers, locked \in BOOLEAN :
          LET prepared == OpenPreparedSpec(p, locked) IN
          /\ plan' = prepared.steps
          /\ own' = [own EXCEPT ![side] = prepared.owned]
    /\ phase' = "opening"
    /\ pc' = 1
    /\ tries' = 0
    /\ UNCHANGED <<dual, side, held, twice>>

Succeed ==
    /\ phase = "opening"
    /\ pc <= Len(plan)
    /\ held' = [held EXCEPT ![side] = (@ \ plan[pc].drop) \cup plan[pc].gain]
    /\ twice' = (twice \/ plan[pc].gain \cap (held[side] \ plan[pc].drop) # {}
                       \/ ~(plan[pc].drop \cap Bare \subseteq held[side]))
    /\ pc' = pc + 1
    /\ UNCHANGED <<phase, dual, side, plan, tries, own>>

\* A retried region starts again with what the failed attempt left open.
Retry ==
    /\ phase = "opening"
    /\ pc <= Len(plan)
    /\ plan[pc].fails = "open"
    /\ plan[pc].back # 0
    /\ tries < MaxTries
    /\ held' = [held EXCEPT ![side] = @ \ plan[pc].undo]
    /\ twice' = (twice \/ ~(plan[pc].undo \cap Bare \subseteq held[side]))
    /\ pc' = pc - plan[pc].back + 1
    /\ tries' = tries + 1
    /\ UNCHANGED <<phase, dual, side, plan, own>>

\* The error leaves the opener; openPreparedDual closes the left half.
Fail ==
    /\ phase = "opening"
    /\ pc <= Len(plan)
    /\ plan[pc].fails # "never"
    /\ held' = [s \in Sides |->
                   IF s = side THEN held[s] \ (plan[pc].undo \cup plan[pc].out)
                               ELSE held[s] \ own[s]]
    /\ twice' = (twice \/ ~((plan[pc].undo \cup plan[pc].out) \cap Bare \subseteq held[side]))
    /\ phase' = IF plan[pc].fails = "restore" THEN "unrestored" ELSE "failed"
    /\ UNCHANGED <<dual, side, plan, pc, tries, own>>

\* openPreparedDual goes on to the write side.
openPreparedDual ==
    /\ phase = "opening"
    /\ pc > Len(plan)
    /\ dual
    /\ side = "left"
    /\ phase' = "choose"
    /\ side' = "right"
    /\ plan' = <<>>
    /\ pc' = 1
    /\ UNCHANGED <<dual, tries, held, own, twice>>

Opened ==
    /\ phase = "opening"
    /\ pc > Len(plan)
    /\ dual => side = "right"
    /\ phase' = "open"
    /\ plan' = <<>>
    /\ pc' = 1
    /\ UNCHANGED <<dual, side, tries, held, own, twice>>

\* NewReadySplit refuses a half without a stream: both halves are closed.
NotSplit ==
    /\ phase = "opening"
    /\ pc > Len(plan)
    /\ dual
    /\ side = "right"
    /\ held' = [s \in Sides |-> held[s] \ own[s]]
    /\ phase' = "failed"
    /\ UNCHANGED <<dual, side, plan, pc, tries, own, twice>>

\* Opened.Close runs every cleanup once; a dual's are the closes of its halves.
Close ==
    /\ phase = "open"
    /\ held' = [s \in Sides |-> held[s] \ own[s]]
    /\ phase' = "closed"
    /\ UNCHANGED <<dual, side, plan, pc, tries, own, twice>>

Next == \/ Choose \/ Succeed \/ Retry \/ Fail \/ openPreparedDual \/ Opened \/ NotSplit \/ Close

Spec == Init /\ [][Next]_vars

----------------------------------------------------------------------------

\* However many steps an open got through before one failed, alone, in a retry
\* or as the second half of a dual address, nothing it acquired stays behind
\* except a path that it never undertook to remove; what a successful open holds
\* belongs to the endpoint and goes with its Close; and no descriptor number is
\* closed twice.  A namespace that could not be re-entered is the one exception:
\* WithNetNS then reports an error although the opener succeeded, and what that
\* opener returned is dropped unclosed; lock and saved descriptor still go.
NothingLeaks ==
    /\ phase \in {"failed", "closed"} => \A s \in Sides : held[s] \subseteq {"path"}
    /\ phase = "open" => \A s \in Sides : held[s] \subseteq own[s] \cup {"path"}
    /\ phase = "unrestored" =>
          /\ held[side] \cap {"lock", "saved"} = {}
          /\ side = "right" => held["left"] \subseteq {"path"}
    /\ ~twice
=============================================================================
