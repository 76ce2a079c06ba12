---------------------------- MODULE DTLSListener ---------------------------
(***************************************************************************)
(* The listener of internal/dtls13 (listener.go, admission.go, cookie.go):  *)
(* one reader routes the datagrams of a socket to the associations or to    *)
(* the evictable entries of unproven peers, whose retry cookies need no     *)
(* state; associations come and go on goroutines of their own, a timer      *)
(* rotates the secrets and drops old entries, and callers accept, stop      *)
(* accepting and close.                                                     *)
(*                                                                          *)
(* A ClientHello takes two fragments, its repetition with the cookie one.   *)
(***************************************************************************)
EXTENDS Integers, Sequences, FiniteSets, FiniteSetsExt

CONSTANTS
    Peers,            \* the addresses datagrams come from
    CIDs,             \* the connection IDs that can be drawn
    MaxConnections,   \* Config.MaxConnections
    MaxHandshakes,    \* the handshakes admitted together
    MaxHelloEntries, Limit, EntryCost, MessageCost, ReplyCost,  \* one entry always fits
    CookieLifetime,
    MaxTime,          \* bound on the clock
    MaxAdmissions,    \* bound: associations made
    MaxEvents         \* bound: datagrams, timeouts, rotations and moves

VARIABLES
    now,          \* the clock
    events,       \* what has happened so far, against MaxEvents
    stopped,      \* Listener.acceptErr is set
    closed,       \* Listener.err is set
    asking,       \* the datagram for which receive waits on AcceptPeer
    cache,        \* Listener.hellos and what helloBudget has given out
    secrets,      \* Listener.cookies: the keys by number, the last rotation
    cookie,       \* the last cookie each peer has received
    echo,         \* the last cookie verified: was it right, and was it let in
    connections,  \* Listener.connections: "none", "handshaking", "established"
    handshakes,   \* Listener.handshakes
    established,  \* Listener.established
    owner,        \* Listener.cids
    accepted,     \* the channel of associations for Accept
    failing,      \* the associations a caller has set out to fail
    failed,       \* the associations that are stopped
    inbox,        \* Conn.config.incoming, how many datagrams
    packets       \* what the budget of queued datagrams has given out

tables == <<connections, handshakes, established, owner, accepted>>
vars == <<now, events, stopped, closed, asking, cache, secrets, cookie, echo, tables, failing,
          failed, inbox, packets>>

-----------------------------------------------------------------------------
(* Datagrams *)

Conns == 1..MaxAdmissions
Nobody == 0
NoCookie == [key |-> 0, at |-> 0, peer |-> "none"]

Datagram(kind, n, what) == [kind |-> kind, n |-> n, cookie |-> what]

\* A fragment of the first ClientHello, the second with a cookie, a ClientHello
\* that cannot be accepted, an acknowledgement, and records with and without
\* a connection ID.
Datagrams ==
    {Datagram("hello", n, NoCookie) : n \in {1, 2}} \cup
    {Datagram("echo", 0, cookie[q]) : q \in {p \in Peers : cookie[p] # NoCookie}} \cup
    {Datagram(k, 0, NoCookie) : k \in {"bad", "ack", "record"}} \cup
    {Datagram("cid", i, NoCookie) : i \in CIDs}

isInitial(d) == d.kind \in {"hello", "echo", "bad"}

-----------------------------------------------------------------------------
(* The entries of peers that have proved nothing yet *)

NoHello == [started |-> -1, next |-> 0, parts |-> {}, second |-> NoCookie, retry |-> FALSE,
            complete |-> FALSE]

Known(c) == {p \in Peers : c.hellos[p] # NoHello}

\* What an entry holds: itself, the messages being put together, and its reply.
Cost(h) ==
    EntryCost
    + (IF h.parts # {} THEN MessageCost ELSE 0)
    + (IF h.second # NoCookie THEN MessageCost ELSE 0)
    + (IF h.retry THEN ReplyCost ELSE 0)

\* Slip: the reply stays charged.
removeHelloReply(c, p) ==
    [hellos |-> [c.hellos EXCEPT ![p] = NoHello],
     used |-> c.used - Cost([c.hellos[p] EXCEPT !.retry = FALSE])]

removeHello(c, p) ==
    [hellos |-> [c.hellos EXCEPT ![p] = NoHello], used |-> c.used - Cost(c.hellos[p])]

removeHellos(c, S) == FoldSet(LAMBDA p, d : removeHello(d, p), c, S)

Fits(c, cost, keep) ==
    /\ c.used <= Limit - cost
    /\ keep = {} => Cardinality(Known(c)) < MaxHelloEntries

\* The oldest other entries go until there is room.
helloRoom(c, cost, keep) ==
    LET others == Known(c) \ keep
        oldest(S) == \A p \in S, q \in others \ S : c.hellos[p].started <= c.hellos[q].started
        last(S) == {p \in S : \A q \in S : c.hellos[q].started <= c.hellos[p].started}
    IN {removeHellos(c, S) : S \in {S \in SUBSET others :
            /\ oldest(S) /\ Fits(removeHellos(c, S), cost, keep)
            /\ S # {} => \E p \in last(S) : ~Fits(removeHellos(c, S \ {p}), cost, keep)}}

reserve(c, cost) == [c EXCEPT !.used = @ + cost]

\* An entry lasts as long as a cookie.
expired(h) == now - h.started >= CookieLifetime

\* A peer whose second hello comes first needs no entry for its first.
newHello(c, p, sequence) ==
    {[reserve(d, EntryCost) EXCEPT !.hellos[p] = [NoHello EXCEPT !.started = now, !.next = sequence]]
        : d \in helloRoom(c, EntryCost, {})}

\* Slip: only the current key is tried.
validMACNow(key) == key = secrets.current

validMAC(key) == key \in {secrets.current, secrets.previous}

verify(p, k) == validMAC(k.key) /\ k.peer = p /\ now - k.at < CookieLifetime

\* The fragment is kept, and charged when it is the first of its message.
insert(c, p, d) ==
    IF d.kind = "hello" /\ c.hellos[p].next = 0
    THEN {IF c.hellos[p].parts = {}
          THEN [reserve(e, MessageCost) EXCEPT !.hellos[p].parts = {d.n}]
          ELSE [e EXCEPT !.hellos[p].parts = @ \cup {d.n}]
          : e \in IF c.hellos[p].parts = {} THEN helloRoom(c, MessageCost, {p}) ELSE {c}}
    ELSE IF d.kind = "echo" /\ c.hellos[p].next <= 1 /\ c.hellos[p].second = NoCookie
    THEN {[reserve(e, MessageCost) EXCEPT !.hellos[p].second = d.cookie]
          : e \in helloRoom(c, MessageCost, {p})}
    ELSE {c}

\* The first hello is complete: the retry takes its place in the budget.
answer(c, p) ==
    IF c.hellos[p].next = 0 /\ c.hellos[p].parts = {1, 2}
    THEN {[reserve(e, ReplyCost) EXCEPT !.hellos[p].retry = TRUE]
          : e \in helloRoom([c EXCEPT !.used = @ - MessageCost, !.hellos[p].parts = {}, !.hellos[p].next = 1],
                            ReplyCost, {p})}
    ELSE {c}

\* The second is verified once the first has been read.
Echoed(c, p) == c.hellos[p].next = 1 /\ c.hellos[p].second # NoCookie

-----------------------------------------------------------------------------
(* Associations *)

Live == {c \in Conns : connections[c] # "none"}

\* newConn and the listener's indexes; refused when the listener is full or the
\* connection ID drawn is taken.  0 stands for no connection ID.
admitHello(p) ==
    LET c == CHOOSE k \in Conns : connections[k] = "none" /\ k \notin failed
        full == \/ Cardinality(Live) >= MaxConnections
                \/ Cardinality({q \in Peers : handshakes[q] # Nobody}) >= MaxHandshakes
    IN
    \E i \in CIDs \cup {0} :
        IF full \/ (i # 0 /\ owner[i] # Nobody) THEN UNCHANGED tables
        ELSE /\ Live \cup failed # Conns
             /\ connections' = [connections EXCEPT ![c] = "handshaking"]
             /\ handshakes' = [handshakes EXCEPT ![p] = c]
             /\ owner' = IF i = 0 THEN owner ELSE [owner EXCEPT ![i] = c]
             /\ UNCHANGED <<established, accepted>>

\* Conn.deliver: refused once the association has failed.
deliver(targets) ==
    LET open == {c \in targets : c # Nobody /\ c \notin failed /\ inbox[c] = 0} IN
    /\ inbox' = [c \in Conns |-> IF c \in open THEN inbox[c] + 1 ELSE inbox[c]]
    /\ packets' = packets + Cardinality(open)

Fresh(p) ==
    IF cache.hellos[p] # NoHello /\ expired(cache.hellos[p]) THEN removeHello(cache, p) ELSE cache

\* What else comes from a peer with an entry: only an acknowledgement counts.
receiveOther(d, p) ==
    /\ cache' = IF d.kind = "ack" /\ Fresh(p).hellos[p].retry
                THEN [Fresh(p) EXCEPT !.hellos[p].complete = TRUE] ELSE Fresh(p)
    /\ UNCHANGED <<cookie, echo, tables>>

Begun(d, p) ==
    IF Fresh(p).hellos[p] # NoHello THEN {Fresh(p)}
    ELSE newHello(Fresh(p), p, IF d.kind = "echo" THEN 1 ELSE 0)

\* Called with the lock held, the peer allowed.  Whatever fails, the entry goes.
receiveHello(d, p) ==
    \/ /\ d.kind = "bad"
       /\ \E b \in Begun(d, p) : cache' = removeHello(b, p)
       /\ UNCHANGED <<cookie, echo, tables>>
    \/ /\ d.kind \in {"hello", "echo"}
       /\ \E b \in Begun(d, p) : \E i \in insert(b, p, d) : \E a \in answer(i, p) :
             IF Echoed(a, p)
             THEN /\ echo' = [right |-> a.hellos[p].second.peer = p
                                        /\ now - a.hellos[p].second.at < CookieLifetime,
                              let |-> verify(p, a.hellos[p].second)]
                  /\ IF verify(p, a.hellos[p].second) THEN admitHello(p) ELSE UNCHANGED tables
                  /\ cache' = removeHello(a, p)
                  /\ UNCHANGED cookie
             ELSE /\ cache' = IF d.kind = "hello" THEN [a EXCEPT !.hellos[p].complete = FALSE] ELSE a
                  /\ \/ UNCHANGED cookie
                     \/ /\ a.hellos[p].retry /\ d.kind = "hello"
                        /\ cookie' = [cookie EXCEPT ![p] = [key |-> secrets.current, at |-> now, peer |-> p]]
                  /\ UNCHANGED <<echo, tables>>

-----------------------------------------------------------------------------
(* The reader *)

NoQuestion == [d |-> Datagram("none", 0, NoCookie), p |-> "none"]

\* A datagram for which AcceptPeer need not be asked.
receive(d, p) ==
    LET byCid == IF d.kind = "cid" THEN owner[d.n] ELSE Nobody
        routed == CASE byCid # Nobody -> {byCid}
                    [] isInitial(d) -> {handshakes[p]}
                    [] OTHER -> {handshakes[p], established[p]}
        hello == /\ byCid = Nobody /\ ~isInitial(d)
                 /\ handshakes[p] = Nobody /\ cache.hellos[p] # NoHello
    IN
    /\ asking = NoQuestion /\ ~closed
    /\ isInitial(d) => ~stopped /\ handshakes[p] # Nobody
    /\ IF hello /\ ~stopped THEN receiveOther(d, p) ELSE UNCHANGED <<cache, cookie, echo, tables>>
    /\ deliver(routed)
    /\ hello \/ inbox' # inbox
    /\ UNCHANGED <<now, stopped, closed, asking, secrets, failing, failed>>

\* The lock is let go for the question.
Ask(d, p) ==
    /\ asking = NoQuestion /\ ~closed /\ ~stopped
    /\ isInitial(d) /\ handshakes[p] = Nobody
    /\ asking' = [d |-> d, p |-> p]
    /\ UNCHANGED <<now, stopped, closed, cache, secrets, cookie, echo, tables, failing, failed, inbox, packets>>

Answered(allowed) ==
    /\ asking # NoQuestion
    /\ IF ~allowed \/ closed \/ stopped THEN UNCHANGED <<cache, cookie, echo, tables>>
       ELSE receiveHello(asking.d, asking.p)
    /\ asking' = NoQuestion
    /\ UNCHANGED <<now, events, stopped, closed, secrets, failing, failed, inbox, packets>>

-----------------------------------------------------------------------------
(* The associations' goroutines *)

Room == Len(accepted) < MaxConnections

\* The end of a handshake.  The association it replaces fails afterwards.
establish(c) ==
    \E p \in Peers :
        /\ connections[c] = "handshaking" /\ handshakes[p] = c
        /\ inbox[c] > 0
        /\ inbox' = [inbox EXCEPT ![c] = @ - 1] /\ packets' = packets - 1
        /\ IF closed \/ stopped \/ ~Room
           THEN /\ failed' = failed \cup {c}
                /\ UNCHANGED <<tables, failing>>
           ELSE /\ established' = [established EXCEPT ![p] = c]
                /\ handshakes' = [handshakes EXCEPT ![p] = Nobody]
                /\ connections' = [connections EXCEPT ![c] = "established"]
                /\ accepted' = Append(accepted, c)
                /\ failing' = failing \cup ({established[p]} \ {Nobody})
                /\ UNCHANGED <<owner, failed>>
        /\ UNCHANGED <<now, events, stopped, closed, asking, cache, secrets, cookie, echo>>

\* A datagram that leads to nothing, or to an error.
Take(c) ==
    /\ inbox[c] > 0 /\ c \notin failed
    /\ inbox' = [inbox EXCEPT ![c] = @ - 1] /\ packets' = packets - 1
    /\ failed' \in {failed, failed \cup {c}}
    /\ UNCHANGED <<now, events, stopped, closed, asking, cache, secrets, cookie, echo, tables, failing>>

\* New connection IDs, refused as a whole when one is another's.
setCIDs(c, ids) ==
    /\ connections[c] = "established" /\ c \notin failed
    /\ IF closed \/ \E i \in ids : owner[i] \notin {Nobody, c}
       THEN /\ failed' = failed \cup {c}
            /\ UNCHANGED owner
       ELSE /\ owner' = [i \in CIDs |-> IF i \in ids THEN c ELSE IF owner[i] = c THEN Nobody ELSE owner[i]]
            /\ UNCHANGED failed
    /\ UNCHANGED <<now, stopped, closed, asking, cache, secrets, cookie, echo, connections, handshakes,
                   established, accepted, failing, inbox, packets>>

\* The peer of an association has proved a new address.
peerChanged(c, q) ==
    /\ connections[c] = "established" /\ c \notin failed /\ established[q] # c
    /\ \E i \in CIDs : owner[i] = c
    /\ established' = [p \in Peers |-> IF p = q THEN c ELSE IF established[p] = c THEN Nobody ELSE established[p]]
    /\ UNCHANGED <<now, stopped, closed, asking, cache, secrets, cookie, echo, connections, handshakes, owner,
                   accepted, failing, failed, inbox, packets>>

remove(c) ==
    /\ connections' = [connections EXCEPT ![c] = "none"]
    /\ handshakes' = [p \in Peers |-> IF handshakes[p] = c THEN Nobody ELSE handshakes[p]]
    /\ established' = [p \in Peers |-> IF established[p] = c THEN Nobody ELSE established[p]]
    /\ owner' = [i \in CIDs |-> IF owner[i] = c THEN Nobody ELSE owner[i]]
    /\ UNCHANGED accepted

\* The driver's teardown: the datagrams still queued go back to the budget.
teardown(c) ==
    /\ c \in failed /\ connections[c] # "none"
    /\ inbox' = [inbox EXCEPT ![c] = 0]
    /\ packets' = packets - inbox[c]
    /\ remove(c)
    /\ UNCHANGED <<now, events, stopped, closed, asking, cache, secrets, cookie, echo, failing, failed>>

\* A handshake or read timeout, or a caller's Close.
Expire(c) ==
    /\ connections[c] # "none" /\ c \notin failed
    /\ failed' = failed \cup {c}
    /\ UNCHANGED <<now, stopped, closed, asking, cache, secrets, cookie, echo, tables, failing, inbox, packets>>

-----------------------------------------------------------------------------
(* Callers and the timer *)

AcceptContext ==
    /\ accepted # <<>>
    /\ accepted' = Tail(accepted)
    /\ failed' = IF stopped THEN failed \cup {Head(accepted)} ELSE failed
    /\ UNCHANGED <<now, events, stopped, closed, asking, cache, secrets, cookie, echo, connections, handshakes,
                   established, owner, failing, inbox, packets>>

StopAccept ==
    /\ ~stopped
    /\ stopped' = TRUE
    /\ cache' = removeHellos(cache, Known(cache))
    /\ failing' = failing \cup {c \in Conns : connections[c] = "handshaking"}
    /\ UNCHANGED <<now, events, closed, asking, secrets, cookie, echo, tables, failed, inbox, packets>>

shutdown ==
    /\ ~closed
    /\ closed' = TRUE
    /\ cache' = removeHellos(cache, Known(cache))
    /\ secrets' = [current |-> 0, previous |-> 0, last |-> 0]
    /\ failing' = failing \cup Live
    /\ UNCHANGED <<now, events, stopped, asking, cookie, echo, tables, failed, inbox, packets>>

\* With the lock let go, the associations are failed one at a time.
fail(c) ==
    /\ c \in failing
    /\ failing' = failing \ {c} /\ failed' = failed \cup {c}
    /\ UNCHANGED <<now, events, stopped, closed, asking, cache, secrets, cookie, echo, tables, inbox, packets>>

Tick ==
    /\ now < MaxTime
    /\ now' = now + 1
    /\ UNCHANGED <<events, stopped, closed, asking, cache, secrets, cookie, echo, tables, failing, failed,
                   inbox, packets>>

maybeRotate ==
    IF now - secrets.last < CookieLifetime THEN secrets
    ELSE [current |-> secrets.current + 1, previous |-> secrets.current, last |-> now]

\* Old entries go, and those whose retry has been sent too often.
runHelloTimers ==
    LET old == {p \in Known(cache) : expired(cache.hellos[p])}
        unheard == {p \in Known(cache) : cache.hellos[p].retry /\ ~cache.hellos[p].complete}
    IN
    /\ ~closed
    /\ secrets' = maybeRotate
    /\ \E S \in {{}, unheard} : cache' = removeHellos(cache, old \cup S)
    /\ <<secrets', cache'>> # <<secrets, cache>>
    /\ UNCHANGED <<now, stopped, closed, asking, cookie, echo, tables, failing, failed, inbox, packets>>

-----------------------------------------------------------------------------

\* A listener that has just begun, or one that has given every peer a cookie and
\* has, or had, an association waiting for Accept.
Init ==
    \E begun, up \in BOOLEAN, p \in Peers :
    /\ up => begun
    /\ now = 0 /\ events = 0 /\ stopped = FALSE /\ closed = FALSE /\ asking = NoQuestion
    /\ cache = [hellos |-> [q \in Peers |-> NoHello], used |-> 0]
    /\ secrets = [current |-> 1, previous |-> 1, last |-> 0]
    /\ cookie = [q \in Peers |-> IF begun THEN [key |-> 1, at |-> 0, peer |-> q] ELSE NoCookie]
    /\ echo = [right |-> TRUE, let |-> TRUE]
    /\ connections = [c \in Conns |-> IF up /\ c = 1 THEN "established" ELSE "none"]
    /\ handshakes = [q \in Peers |-> Nobody]
    /\ established = [q \in Peers |-> IF up /\ q = p THEN 1 ELSE Nobody]
    /\ owner \in {[i \in CIDs |-> Nobody], [i \in CIDs |-> IF up THEN 1 ELSE Nobody]}
    /\ accepted = IF begun THEN <<1>> ELSE <<>>
    /\ failing = {} /\ failed = IF begun /\ ~up THEN {1} ELSE {}
    /\ inbox = [c \in Conns |-> 0] /\ packets = 0

Event ==
    /\ events < MaxEvents
    /\ events' = events + 1
    /\ \/ \E p \in Peers, d \in Datagrams : receive(d, p) \/ Ask(d, p)
       \/ \E c \in Conns : \/ Expire(c)
                           \/ \E p \in Peers : peerChanged(c, p)
                           \/ \E ids \in SUBSET CIDs : setCIDs(c, ids)
       \/ runHelloTimers

Next ==
    \/ Event
    \/ \E allowed \in BOOLEAN : Answered(allowed)
    \/ \E c \in Conns : establish(c) \/ Take(c) \/ teardown(c) \/ fail(c)
    \/ AcceptContext \/ StopAccept \/ shutdown \/ Tick

Spec == Init /\ [][Next]_vars

-----------------------------------------------------------------------------

\* The budgets give back exactly what they gave out: what they hold is what the
\* entries and the queues of live associations hold, and it is within the limit.
BudgetsExact ==
    /\ cache.used = MapThenSumSet(LAMBDA p : Cost(cache.hellos[p]), Known(cache))
    /\ cache.used <= Limit
    /\ packets = MapThenSumSet(LAMBDA c : inbox[c], Live)

\* Every index leads to a live association in the right state, a handshake is
\* found under one address, the channel for Accept never blocks the listener,
\* and a listener that has stopped admits nobody any more.
IndexExact ==
    /\ \A p \in Peers : /\ handshakes[p] # Nobody => connections[handshakes[p]] = "handshaking"
                        /\ established[p] # Nobody => connections[established[p]] = "established"
    /\ \A i \in CIDs : owner[i] # Nobody => owner[i] \in Live
    /\ \A c \in Conns : connections[c] = "handshaking" => \E p \in Peers : {p} = {q \in Peers : handshakes[q] = c}
    /\ Len(accepted) <= MaxConnections
    /\ stopped \/ closed => Known(cache) = {}

\* A cookie is good for its lifetime, over a rotation of the secrets too, from
\* the address it was given to, and never longer.
CookieWindow == echo.let = echo.right
=============================================================================
