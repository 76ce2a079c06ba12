------------------------------ MODULE DTLSMtu ------------------------------
(***************************************************************************)
(* Path MTU discovery of internal/dtls13 (pmtu.go, pmtu_discover.go,        *)
(* pmtu_probe.go, pmtu_search.go): the working size is confirmed, searched  *)
(* upwards and watched by padded probes, which a path carries up to its     *)
(* capacity; the rest is refused by the socket or disappears.  Probes and   *)
(* answers get lost, answers come late, the capacity shrinks and the        *)
(* address changes.                                                         *)
(***************************************************************************)
EXTENDS Integers, Sequences, FiniteSets, SequencesExt

CONSTANTS
    Ceilings,         \* the configured sizes (Config.MTU)
    Capacities,       \* what a path may carry
    Reductions,       \* how often the handshake may have halved the size
    MinPathMTU,       \* minPathMTU
    MaxMTUReductions, \* maxMTUReductions
    MaxMTUDiff,       \* maxMTUDiff
    MaxSearchProbes,  \* maxSearchProbes
    MaxConfirmFails,  \* maxConfirmFails
    MaxEvents         \* bound: losses, late answers, changes of the path, activity

VARIABLES
    ceiling,   \* mtuCeiling
    hard,      \* the socket refuses what is too long
    capacity,  \* of the present path
    carried,   \* the largest capacity since the path became the present one
    mtu,       \* session.working and session.mtu
    answers,   \* the sizes whose answers are under way, and whether they are stale
    busy,      \* a key update or a validation of the path is going on
    events

vars == <<ceiling, hard, capacity, carried, mtu, answers, busy, events>>

Event == events < MaxEvents /\ events' = events + 1

Least(a, b) == IF a < b THEN a ELSE b
Greatest(a, b) == IF a > b THEN a ELSE b

-----------------------------------------------------------------------------
(* The search (mtuFinder); a place without a lost probe holds -1 *)

Unused == -1

NoFinder == [floor |-> 0, lost |-> <<0, 0, 0>>, lastLost |-> FALSE, probes |-> 0]

initFinder(start, top) ==
    [floor |-> start, lost |-> <<Greatest(start, top), Unused, Unused>>,
     lastLost |-> FALSE, probes |-> 0]

\* The highest of the lost sizes that are remembered.
Top(f) ==
    LET used == {i \in 1..3 : \A j \in 1..i : f.lost[j] # Unused}
    IN  IF used = {} THEN f.floor ELSE f.lost[CHOOSE i \in used : \A j \in used : j <= i]

done(f) == Top(f) - f.floor <= MaxMTUDiff + 1 \/ f.probes >= MaxSearchProbes

Middle(f) == (f.floor + (IF f.lastLost THEN f.lost[1] ELSE Top(f))) \div 2

Above(f) == IF Middle(f) <= f.floor THEN f.floor + 1 ELSE Middle(f)

Below(f) == IF Above(f) >= Top(f) /\ Top(f) > f.floor THEN Top(f) - 1 ELSE Above(f)

nextSize(f) ==
    IF done(f) \/ Below(f) <= f.floor \/ Below(f) > Top(f) THEN 0 ELSE Below(f)

FirstAbove(f, size) ==
    LET above == {i \in 1..3 : size < f.lost[i]}
    IN  IF above = {} THEN 0 ELSE CHOOSE i \in above : \A j \in above : i <= j

\* A size that was carried drops the smaller lost ones.
onAcked(f, size) ==
    LET j == FirstAbove(f, size) IN
    [f EXCEPT !.floor = Greatest(@, size), !.lastLost = FALSE,
              !.lost = IF j <= 1 THEN @
                       ELSE [i \in 1..3 |-> IF i + j - 1 <= 3 THEN @[i + j - 1] ELSE Unused]]

onLost(f, size) ==
    LET i == FirstAbove(f, size) IN
    [f EXCEPT !.lastLost = TRUE,
              !.lost = IF i = 0 THEN @
                       ELSE [n \in 1..3 |-> CASE n < i -> @[n] [] n = i -> size [] n > i -> @[n - 1]]]

rejectHard(f, size) == onLost(onLost(onLost(f, size), size), size)

-----------------------------------------------------------------------------
(* The working size *)

effectiveMTU(m) == IF m.path > 0 THEN Least(m.path, ceiling) ELSE ceiling

Half(m, tooBig) ==
    Greatest(MinPathMTU,
             IF tooBig > MinPathMTU THEN Least(tooBig - 1, effectiveMTU(m) \div 2)
             ELSE effectiveMTU(m) \div 2)

CanReduce(m) == effectiveMTU(m) > MinPathMTU /\ m.reductions < MaxMTUReductions

reduceHandshakeMTU(m, tooBig) ==
    IF CanReduce(m) /\ Half(m, tooBig) < effectiveMTU(m)
    THEN [m EXCEPT !.path = Half(m, tooBig), !.reductions = @ + 1] ELSE m

setWorkingMTU(m, n) ==
    LET size == Greatest(MinPathMTU, Least(n, ceiling)) IN
    IF n <= 0 \/ size <= effectiveMTU(m) THEN m
    ELSE [m EXCEPT !.path = size, !.reductions = 0]

-----------------------------------------------------------------------------
(* Discovery *)

NoProbe == [size |-> 0, kind |-> "none"]

restartMTUConfirm(m) ==
    [m EXCEPT !.outstanding = NoProbe, !.fails = 0, !.finder = NoFinder,
              !.phase = "confirm", !.searchNext = TRUE]

scheduleMTUWatch(m) == [m EXCEPT !.phase = "watch"]

Begin(m) == IF done(m.finder) THEN scheduleMTUWatch(m) ELSE [m EXCEPT !.phase = "search"]

beginMTUSearch(m) == Begin([m EXCEPT !.finder = initFinder(effectiveMTU(m), ceiling)])

Searched(m) == IF done(m.finder) THEN scheduleMTUWatch(m) ELSE m

Raised(m, size) == IF size > effectiveMTU(m) THEN setWorkingMTU(m, size) ELSE m

onMTUProbeAcked(m, probe) ==
    IF probe.kind = "search"
    THEN Searched(Raised([m EXCEPT !.finder = onAcked(@, probe.size)], probe.size))
    ELSE IF m.searchNext THEN beginMTUSearch(Raised([m EXCEPT !.fails = 0], probe.size))
    ELSE scheduleMTUWatch(Raised([m EXCEPT !.fails = 0], probe.size))

Confirmless(m, reduced) ==
    IF reduced.path = m.path THEN scheduleMTUWatch([m EXCEPT !.fails = 0])
    ELSE [reduced EXCEPT !.fails = 0, !.searchNext = TRUE, !.phase = "confirm"]

onMTUProbeLost(m, probe, refused) ==
    IF probe.kind = "search" THEN Searched([m EXCEPT !.finder = onLost(@, probe.size)])
    ELSE IF ~refused /\ m.fails + 1 < MaxConfirmFails THEN [m EXCEPT !.fails = @ + 1]
    ELSE Confirmless(m, reduceHandshakeMTU(m, probe.size))

\* sendDiscoveryProbe with sendMTUProbe, which may not send now.
sendDiscoveryProbe(m, size, kind) ==
    IF size > ceiling \/ (kind = "search" /\ size <= m.finder.floor) THEN scheduleMTUWatch(m)
    ELSE IF busy THEN m
    ELSE IF hard /\ size > capacity
    THEN IF kind = "search" THEN Searched([m EXCEPT !.finder = rejectHard(@, size)])
         ELSE onMTUProbeLost(m, [size |-> size, kind |-> kind], TRUE)
    ELSE [m EXCEPT !.outstanding = [size |-> size, kind |-> kind], !.app = FALSE,
                   !.finder.probes = IF kind = "search" THEN @ + 1 ELSE @]

SearchOn(m) ==
    IF nextSize(m.finder) = 0 THEN scheduleMTUWatch(m)
    ELSE sendDiscoveryProbe(m, nextSize(m.finder), "search")

RaiseAgain(m) == IF m.phase = "search" THEN SearchOn(m) ELSE m

\* due: which of the two timers of the watch has run out.
tickMTUDiscovery(m, due) ==
    CASE m.phase = "confirm" -> sendDiscoveryProbe(m, effectiveMTU(m), "confirm")
      [] m.phase = "search" -> SearchOn(m)
      [] m.phase = "watch" /\ due = "raise" -> RaiseAgain(beginMTUSearch([m EXCEPT !.app = FALSE]))
      [] m.phase = "watch" /\ due = "confirm" ->
           sendDiscoveryProbe([m EXCEPT !.app = FALSE, !.phase = "confirm",
                                        !.searchNext = FALSE, !.fails = 0],
                              effectiveMTU(m), "confirm")

-----------------------------------------------------------------------------

Stale(set) == {[a EXCEPT !.stale = TRUE] : a \in set}

\* A probe that was just sent is answered when the path carries it.
Sends(m) ==
    /\ mtu' = m
    /\ answers' = IF m.outstanding = NoProbe THEN Stale(answers)
                  ELSE Stale(answers) \cup (IF m.outstanding.size <= capacity
                                            THEN {[size |-> m.outstanding.size, stale |-> FALSE]}
                                            ELSE {})

Fresh == \E a \in answers : ~a.stale

Tick ==
    /\ mtu.outstanding = NoProbe
    /\ mtu.phase \in {"confirm", "search"}
    /\ ~busy
    /\ Sends(tickMTUDiscovery(mtu, "none"))
    /\ UNCHANGED <<ceiling, hard, capacity, carried, busy, events>>

\* Only an association in use is watched.
WatchTick ==
    /\ mtu.outstanding = NoProbe /\ mtu.phase = "watch" /\ mtu.app /\ ~busy
    /\ \E due \in {"raise", "confirm"} : Sends(tickMTUDiscovery(mtu, due))
    /\ UNCHANGED <<ceiling, hard, capacity, carried, busy, events>>

\* tickMTUProbe at the deadline: without an answer, or before it.
ProbeTimeout ==
    /\ mtu.outstanding # NoProbe
    /\ IF Fresh THEN Event ELSE UNCHANGED events
    /\ mtu' = onMTUProbeLost([mtu EXCEPT !.outstanding = NoProbe], mtu.outstanding, FALSE)
    /\ answers' = Stale(answers)
    /\ UNCHANGED <<ceiling, hard, capacity, carried, busy>>

\* Slip: the cookie is not compared.
receiveMTUProbeAny(m, a) ==
    IF m.outstanding = NoProbe \/ busy THEN m
    ELSE onMTUProbeAcked([m EXCEPT !.outstanding = NoProbe], m.outstanding)

\* The cookie, the generation and the path tell a late answer from a fresh one.
receiveMTUProbe(m, a) ==
    IF m.outstanding = NoProbe \/ busy \/ a.stale THEN m
    ELSE onMTUProbeAcked([m EXCEPT !.outstanding = NoProbe], m.outstanding)

Answer ==
    \E a \in answers :
        /\ mtu' = receiveMTUProbe(mtu, a)
        /\ answers' = IF mtu'.outstanding = NoProbe THEN Stale(answers \ {a}) ELSE answers \ {a}
        /\ UNCHANGED <<ceiling, hard, capacity, carried, busy, events>>

Lose ==
    \E a \in answers :
        /\ Event
        /\ answers' = answers \ {a}
        /\ UNCHANGED <<ceiling, hard, capacity, carried, mtu, busy>>

noteMTUActivity ==
    /\ ~mtu.app /\ mtu.phase = "watch" /\ Event
    /\ mtu' = [mtu EXCEPT !.app = TRUE]
    /\ UNCHANGED <<ceiling, hard, capacity, carried, answers, busy>>

\* The socket refuses a record of the working size.
onApplicationTooBig ==
    /\ hard /\ effectiveMTU(mtu) > capacity /\ Event
    /\ mtu' = restartMTUConfirm(reduceHandshakeMTU(mtu, effectiveMTU(mtu)))
    /\ answers' = Stale(answers)
    /\ UNCHANGED <<ceiling, hard, capacity, carried, busy>>

\* The route narrows unnoticed.
Shrink ==
    \E c \in Capacities :
        /\ c < capacity /\ Event
        /\ capacity' = c
        /\ UNCHANGED <<ceiling, hard, carried, mtu, answers, busy>>

\* A validated change of address.
Migrate ==
    \E c \in Capacities :
        /\ Event
        /\ capacity' = c /\ carried' = c
        /\ mtu' = restartMTUConfirm(mtu)
        /\ answers' = Stale(answers)
        /\ UNCHANGED <<ceiling, hard, busy>>

Busy ==
    /\ busy' = ~busy
    /\ IF busy THEN UNCHANGED events ELSE Event
    /\ UNCHANGED <<ceiling, hard, capacity, carried, mtu, answers>>

Start == [path |-> 0, reductions |-> 0, outstanding |-> NoProbe, phase |-> "confirm",
          finder |-> NoFinder, fails |-> 0, app |-> FALSE, searchNext |-> TRUE]

\* The first tick after the handshake, which may have reduced the size.
Init ==
    /\ ceiling \in Ceilings /\ hard \in BOOLEAN
    /\ capacity \in Capacities /\ carried = capacity
    /\ \E n \in Reductions :
          mtu = FoldLeft(LAMBDA m, i : reduceHandshakeMTU(m, 0), Start, [i \in 1..n |-> i])
    /\ answers = {} /\ busy = FALSE /\ events = 0

Next ==
    \/ Tick \/ WatchTick \/ ProbeTimeout \/ Answer \/ Lose
    \/ noteMTUActivity \/ onApplicationTooBig \/ Shrink \/ Migrate \/ Busy

\* Weak fairness of the driver's ticks and of the arrival of answers, spelled out.
MustTick == mtu.outstanding = NoProbe /\ ~busy /\ (mtu.phase # "watch" \/ mtu.app)
TimeoutWaits == mtu.outstanding # NoProbe /\ ~Fresh
DiscoveryGoes == mtu' # mtu
AnswerWaits == answers # {}
AnswerGoes == answers' # answers

Fairness ==
    /\ []<>~MustTick \/ []<><<DiscoveryGoes>>_vars
    /\ []<>~TimeoutWaits \/ []<><<DiscoveryGoes>>_vars
    /\ []<>~AnswerWaits \/ []<><<AnswerGoes>>_vars
    /\ []<>~busy

Spec == Init /\ [][Next]_vars /\ Fairness

-----------------------------------------------------------------------------

\* The working size grows only to what the present path has carried: an answer
\* from before a change of path, or to an earlier probe, raises nothing.
RaisedByProof == [][effectiveMTU(mtu)' > effectiveMTU(mtu) => mtu'.path <= carried]_vars

\* Confirming and searching end, whatever gets lost: discovery comes to rest in
\* the watch, which costs nothing while the association is idle.
AtRest == mtu.phase = "watch" /\ mtu.outstanding = NoProbe
=============================================================================
