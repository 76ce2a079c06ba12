----------------------------- MODULE DialOrder -----------------------------
(***************************************************************************)
(* Which addresses a TCP client tries, in which order, from which local    *)
(* address and port (xio/dial.go, xio/resolver.go).  The name server, the  *)
(* host's interfaces, the ports in use and every connect's outcome are     *)
(* chosen freely.                                                          *)
(***************************************************************************)
EXTENDS Naturals, Sequences, SequencesExt

CONSTANTS LowportMin, LowportMax    \* 640 and 1023 in the code

VARIABLES
    net,        \* "tcp", "tcp4" or "tcp6"
    opt,        \* the address's getaddrinfo options and the -4/-6 preference (0: unset)
    dns,        \* what the name has: A and AAAA records, and how they are served
    have,       \* the families of the host's own non-loopback addresses
    bind,       \* bind=: nothing, a port only, a literal, or a name
    lowport,    \* is lowport set?
    busy,       \* low ports that are in use
    addrs,      \* the addresses still to try
    port,       \* the low port to try next
    left,       \* low ports of this walk still untried
    tried,      \* connects attempted so far: remote and local address, local port
    pc

vars == <<net, opt, dns, have, bind, lowport, busy, addrs, port, left, tried, pc>>

V6 == {"v6a", "v6b"}
Mapped(ip) == IF ip = "v4a" THEN "m4a" ELSE "m4b"

\* net.IP.To4: an IPv4-mapped address has an IPv4 form too.
To4(ip) == ip \notin V6 \cup {"::", "::1", "bind6"}

Binds == {[kind |-> k, has |-> {}] : k \in {"none", "port", "lit4", "lit6"}}
         \cup {[kind |-> "name", has |-> h] : h \in SUBSET {4, 6}}

\* An option that the network makes meaningless has one value.
Init ==
    /\ net \in {"tcp", "tcp4", "tcp6"}
    /\ opt \in [v4mapped : BOOLEAN, all : BOOLEAN, addrconfig : {"unset", "on", "off"},
                passive : {"unset", "on", "off"}, version : {0, 4, 6}, process : {0, 6}]
    /\ opt.v4mapped \/ opt.all => net = "tcp6" /\ opt.v4mapped
    /\ net # "tcp" => opt.version = 0 /\ opt.process = 0
    /\ dns \in [a : {<<>>, <<"v4b">>, <<"v4a", "v4b">>}, aaaa : {<<>>, <<"v6b", "v6a">>},
                first : {4, 6}, leaky : BOOLEAN]
    /\ net # "tcp" => dns.first = 4
    /\ dns.leaky => net = "tcp6"
    /\ have \in SUBSET {4, 6}
    /\ bind \in Binds
    /\ lowport \in BOOLEAN
    /\ busy \in IF lowport THEN SUBSET (LowportMin .. LowportMax) ELSE {{}}
    /\ lowport => have = {4, 6} /\ opt.addrconfig = "unset"
    /\ addrs = <<>> /\ port = LowportMax /\ left = 0 /\ tried = <<>> /\ pc = "resolve"

----------------------------------------------------------------------------
(* Name lookup *)

\* The system resolver; a leaky one answers an IPv6 query with mapped addresses too.
Serve(d, hint) ==
    CASE hint = "ip4" -> d.a
      [] hint = "ip6" -> d.aaaa \o (IF d.leaky THEN [i \in DOMAIN d.a |-> Mapped(d.a[i])] ELSE <<>>)
      [] hint = "ip" -> IF d.first = 4 THEN d.a \o d.aaaa ELSE d.aaaa \o d.a

ipv6Only(ips) == SelectSeq(ips, LAMBDA ip : ~To4(ip))

filterAIAddrConfig(ips) == SelectSeq(ips, LAMBDA ip : (IF To4(ip) THEN 4 ELSE 6) \in have)

addrconfigEnabled(hint) ==
    IF opt.addrconfig = "unset" THEN hint = "ip" ELSE opt.addrconfig = "on"

applyAIAddrConfig(hint, ips) == IF addrconfigEnabled(hint) THEN filterAIAddrConfig(ips) ELSE ips

ipv4MappedAddrs(ips) == [i \in DOMAIN ips |-> Mapped(ips[i])]

lookupIPv6Mapped(d) ==
    LET v6 == ipv6Only(Serve(d, "ip6"))
        v4 == Serve(d, "ip4")
    IN  CASE ~opt.all /\ v6 # <<>> -> v6
          [] v4 = <<>> -> v6
          [] opt.all -> v6 \o ipv4MappedAddrs(v4)
          [] OTHER -> ipv4MappedAddrs(v4)

\* A stable sort that puts one family first.
FirstFamily(ips, four) ==
    SelectSeq(ips, LAMBDA ip : To4(ip) = four) \o SelectSeq(ips, LAMBDA ip : To4(ip) # four)

\* <<>> stands for every error: no such name, no addresses left.
LookupIP(d, hint) ==
    LET ips == IF hint = "ip6" /\ opt.v4mapped THEN lookupIPv6Mapped(d)
               ELSE IF hint = "ip6" THEN ipv6Only(Serve(d, hint))
               ELSE Serve(d, hint)
        kept == applyAIAddrConfig(hint, ips)
    IN  IF hint = "ip" /\ opt.passive = "on" THEN FirstFamily(kept, FALSE) ELSE kept

ipHint == CASE net = "tcp4" -> "ip4" [] net = "tcp6" -> "ip6" [] net = "tcp" -> "ip"

resolveConnectIPs ==
    LET ips == LookupIP(dns, ipHint)
    IN  CASE net # "tcp" -> ips
          [] opt.passive = "on" -> FirstFamily(ips, FALSE)
          [] OTHER -> FirstFamily(ips, (IF opt.version = 0 THEN opt.process ELSE opt.version) # 6)

----------------------------------------------------------------------------
(* The local address *)

BindDns == [a |-> IF 4 \in bind.has THEN <<"v4b">> ELSE <<>>,
            aaaa |-> IF 6 \in bind.has THEN <<"v6b">> ELSE <<>>, first |-> 4, leaky |-> FALSE]

WantIPv4(ip) == To4(ip) \/ net = "tcp4"

defaultLocalIP(want4) ==
    IF opt.passive # "off" THEN (IF want4 THEN "0.0.0.0" ELSE "::")
    ELSE (IF want4 THEN "127.0.0.1" ELSE "::1")

\* The local address for a remote one; "any" when none is set, "skip" to try the next
\* remote, "error" when the name cannot be resolved at all.
BindTCPAddrForRemote(remote) ==
    LET want4 == WantIPv4(remote)
        ips == LookupIP(BindDns, IF want4 THEN "ip4" ELSE "ip6")
        both == LookupIP(BindDns, "ip")
        match == SelectSeq(both, LAMBDA ip : WantIPv4(ip) = want4)
    IN  CASE bind.kind = "none" -> "any"
          [] bind.kind = "port" -> defaultLocalIP(want4)
          [] bind.kind = "lit4" -> IF want4 THEN "bind4" ELSE "skip"
          [] bind.kind = "lit6" -> IF want4 THEN "skip" ELSE "bind6"
          [] ips # <<>> -> ips[1]
          [] both = <<>> -> "error"
          [] match # <<>> -> match[1]
          [] OTHER -> "skip"

----------------------------------------------------------------------------
(* DialTCPAll *)

Resolve ==
    /\ pc = "resolve"
    /\ addrs' = resolveConnectIPs
    /\ pc' = IF addrs' = <<>> THEN "failed" ELSE "next"
    /\ UNCHANGED <<net, opt, dns, have, bind, lowport, busy, port, left, tried>>

GiveUp ==
    /\ pc = "next" /\ addrs = <<>>
    /\ pc' = "failed"
    /\ UNCHANGED <<net, opt, dns, have, bind, lowport, busy, addrs, port, left, tried>>

Local == BindTCPAddrForRemote(Head(addrs))

Skip ==
    /\ pc = "next" /\ addrs # <<>>
    /\ Local \in {"skip", "error"}
    /\ addrs' = Tail(addrs)
    /\ UNCHANGED <<net, opt, dns, have, bind, lowport, busy, port, left, tried, pc>>

Attempt(local, p) == tried' = Append(tried, [remote |-> Head(addrs), local |-> local, port |-> p])

SameFamily(t) == t.local = "any" \/ To4(t.local) = To4(t.remote)

\* A connect succeeds or fails, the latter always when the families differ (package
\* net); after a failure comes the next address.
Connect ==
    \/ SameFamily(Last(tried')) /\ pc' = "connected" /\ UNCHANGED addrs
    \/ pc' = "next" /\ addrs' = Tail(addrs)

Dial ==
    /\ pc = "next" /\ addrs # <<>> /\ ~lowport
    /\ Local \notin {"skip", "error"}
    /\ Attempt(Local, 0)
    /\ Connect
    /\ UNCHANGED <<net, opt, dns, have, bind, lowport, busy, port, left>>

\* FirstAvailableLowport starts at any low port and walks down, once around.
StartWalk ==
    /\ pc = "next" /\ addrs # <<>> /\ lowport
    /\ Local \notin {"skip", "error"}
    /\ port' \in LowportMin .. LowportMax
    /\ left' = LowportMax - LowportMin + 1
    /\ pc' = "walk"
    /\ UNCHANGED <<net, opt, dns, have, bind, lowport, busy, addrs, tried>>

LowportLocal ==
    IF Local # "any" THEN Local ELSE IF WantIPv4(Head(addrs)) THEN "0.0.0.0" ELSE "::"

dialTCPLowport ==
    /\ pc = "walk"
    /\ IF left = 0
       THEN pc' = "next" /\ addrs' = Tail(addrs) /\ UNCHANGED <<port, left, tried>>
       ELSE /\ left' = left - 1
            /\ port' = IF port = LowportMin THEN LowportMax ELSE port - 1
            /\ IF port \in busy
               THEN UNCHANGED <<addrs, tried, pc>>
               ELSE /\ Attempt(LowportLocal, port)
                    /\ Connect
    /\ UNCHANGED <<net, opt, dns, have, bind, lowport, busy>>

Next == Resolve \/ GiveUp \/ Skip \/ Dial \/ StartWalk \/ dialTCPLowport

Spec == Init /\ [][Next]_vars

----------------------------------------------------------------------------

\* The addresses the options describe, as getaddrinfo documents them.
Eligible ==
    LET four == {dns.a[i] : i \in DOMAIN dns.a}
        six == {dns.aaaa[i] : i \in DOMAIN dns.aaaa}
        named == CASE net = "tcp4" -> four
                   [] net = "tcp" -> four \cup six
                   [] net = "tcp6" /\ ~opt.v4mapped -> six
                   [] OTHER -> IF opt.all \/ six = {} THEN six \cup {Mapped(ip) : ip \in four} ELSE six
        families == IF opt.addrconfig = "on" \/ (opt.addrconfig = "unset" /\ net = "tcp") THEN have ELSE {4, 6}
    IN  {ip \in named : (IF To4(ip) THEN 4 ELSE 6) \in families}

PreferSix == opt.passive = "on" \/ opt.version = 6 \/ (opt.version = 0 /\ opt.process = 6)

\* A bind address of the remote's family exists; a name is looked up with the same options.
Bindable(ip) ==
    CASE bind.kind = "lit4" -> To4(ip)
      [] bind.kind = "lit6" -> ~To4(ip)
      [] bind.kind = "name" -> (IF To4(ip) THEN 4 ELSE 6) \in bind.has
                               /\ (opt.addrconfig = "on" => (IF To4(ip) THEN 4 ELSE 6) \in have)
      [] OTHER -> TRUE

Remotes == {tried[i].remote : i \in DOMAIN tried}

\* A client tries only addresses its options allow, none twice, the preferred family
\* first, each from a local address of the same family if bind= has one and, with
\* lowport, a free low port; and it gives up only after it has tried every address it
\* can bind for.
DialsInOrder ==
    /\ \A i, j \in DOMAIN tried : i < j =>
        /\ tried[i].remote # tried[j].remote
        /\ net = "tcp" => ~(To4(tried[i].remote) = PreferSix /\ To4(tried[j].remote) # PreferSix)
    /\ Remotes \subseteq Eligible
    /\ \A i \in DOMAIN tried :
        /\ Bindable(tried[i].remote) => SameFamily(tried[i])
        /\ lowport => tried[i].port \in (LowportMin .. LowportMax) \ busy
    /\ pc = "failed" => \/ lowport /\ busy = LowportMin .. LowportMax
                        \/ {ip \in Eligible : Bindable(ip)} \subseteq Remotes
=============================================================================
