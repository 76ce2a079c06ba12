------------------------------ MODULE PumpConn ------------------------------
(***************************************************************************)
(* The two connections whose reads go through a pump goroutine, so that a  *)
(* read deadline does not cost the connection: wsNetConn                   *)
(* (internal/xio/wsopen/stream_conn.go) and pipeConn, the tunnel of an     *)
(* HTTP CONNECT (internal/xio/proxyopen/tunnel.go).  Pump, reader and      *)
(* closer meet at one sync.Cond; a sleeper goes on only after a Broadcast, *)
(* and a timer that Read arms is one of those who broadcast.               *)
(***************************************************************************)
EXTENDS Naturals

CONSTANTS
    Max,            \* the buffer size at which the pump pauses
    MaxBytes,       \* bytes the peer sends
    MaxTime,        \* the clock stops here; 0 as a deadline means none
    MaxCalls        \* how often the read deadline is set

VARIABLES
    kind,           \* "ws" or "tunnel"
    source,         \* bytes sent by the peer, not yet read by the pump
    sent,           \* bytes sent by the peer
    ending,         \* "", "eof" or "fail": how the peer ended its side
    buf,            \* bytes in the buffer
    err,            \* the pump's error, "" while there is none
    stop,           \* was Close called?
    cut,            \* has Close closed the connection underneath?
    dl, now,
    pump,           \* "off", "check", "asleep", "read", "done"
    reader,         \* "idle", "loop", "asleep"
    timer,          \* the deadline at which the reader's timer fires, 0 if none
    out,            \* bytes returned by Read
    saw,            \* the last error returned by Read
    calls

vars == <<kind, source, sent, ending, buf, err, stop, cut, dl, now, pump, reader, timer, out, saw, calls>>

Init ==
    /\ kind \in {"ws", "tunnel"}
    /\ source = 0 /\ sent = 0 /\ ending = ""
    /\ buf = 0 /\ err = ""
    /\ stop = FALSE /\ cut = FALSE
    /\ dl = 0 /\ now = 0
    /\ pump = IF kind = "ws" THEN "check" ELSE "off"
    /\ reader = "idle" /\ timer = 0
    /\ out = 0 /\ saw = "" /\ calls = 0

Past(d) == d # 0 /\ now >= d
Woken(who, state) == IF who = "asleep" THEN state ELSE who

----------------------------------------------------------------------------
(* readFrames and readLoop.                                                *)

\* readBlocked, and the head of readLoop: pause on a full buffer.
PumpCheck ==
    /\ pump = "check"
    /\ pump' = IF stop THEN "done" ELSE IF buf >= Max THEN "asleep" ELSE "read"
    /\ UNCHANGED <<kind, source, sent, ending, buf, err, stop, cut, dl, now, reader, timer, out, saw, calls>>

PumpData ==
    /\ pump = "read"
    /\ ~cut
    /\ \E n \in 1 .. Max :
          /\ n <= source
          /\ source' = source - n
          /\ buf' = buf + n
    /\ pump' = "check"
    /\ reader' = Woken(reader, "loop")
    /\ UNCHANGED <<kind, sent, ending, err, stop, cut, dl, now, timer, out, saw, calls>>

\* noteReadErr keeps the first error, readLoop the last.
PumpEnds ==
    /\ pump = "read"
    /\ cut \/ (source = 0 /\ ending # "")
    /\ err' = IF kind = "ws" /\ err # "" THEN err ELSE IF cut THEN "closed" ELSE ending
    /\ pump' = "done"
    /\ reader' = Woken(reader, "loop")
    /\ UNCHANGED <<kind, source, sent, ending, buf, stop, cut, dl, now, timer, out, saw, calls>>

----------------------------------------------------------------------------
(* Read.                                                                   *)

ReadCall ==
    /\ reader = "idle"
    /\ reader' = "loop"
    /\ pump' = IF pump = "off" THEN "check" ELSE pump
    /\ saw' = ""
    /\ UNCHANGED <<kind, source, sent, ending, buf, err, stop, cut, dl, now, timer, out, calls>>

ReadData ==
    /\ reader = "loop"
    /\ \E n \in 1 .. buf : out' = out + n /\ buf' = buf - n
    /\ reader' = "idle"
    /\ pump' = Woken(pump, "check")
    /\ UNCHANGED <<kind, source, sent, ending, err, stop, cut, dl, now, timer, saw, calls>>

\* An error that overtakes buffered data (mutant).
ReadErrorFirst ==
    /\ reader = "loop"
    /\ err # "" \/ (kind = "tunnel" /\ stop) \/ Past(dl)
    /\ saw' = IF err # "" THEN err ELSE IF stop THEN "closed" ELSE "timeout"
    /\ reader' = "idle"
    /\ UNCHANGED <<kind, source, sent, ending, buf, err, stop, cut, dl, now, pump, timer, out, calls>>

\* The pump's error, then Close, then the deadline, once the buffer is empty.
ReadError ==
    /\ reader = "loop"
    /\ buf = 0
    /\ err # "" \/ (kind = "tunnel" /\ stop) \/ Past(dl)
    /\ saw' = IF err # "" THEN err ELSE IF stop THEN "closed" ELSE "timeout"
    /\ reader' = "idle"
    /\ UNCHANGED <<kind, source, sent, ending, buf, err, stop, cut, dl, now, pump, timer, out, calls>>

ReadMustWait ==
    /\ reader = "loop"
    /\ buf = 0 /\ err = "" /\ ~Past(dl)
    /\ kind = "tunnel" => ~stop

\* waitRead and waitDeadline: a timer for the deadline in force now.
ReadSleeps ==
    /\ ReadMustWait
    /\ reader' = "asleep"
    /\ timer' = dl
    /\ UNCHANGED <<kind, source, sent, ending, buf, err, stop, cut, dl, now, pump, out, saw, calls>>

TimerFires ==
    /\ Past(timer)
    /\ timer' = 0
    /\ reader' = Woken(reader, "loop")
    /\ pump' = Woken(pump, "check")
    /\ UNCHANGED <<kind, source, sent, ending, buf, err, stop, cut, dl, now, out, saw, calls>>

----------------------------------------------------------------------------

SetReadDeadline ==
    /\ calls < MaxCalls
    /\ calls' = calls + 1
    /\ dl' \in 0 .. MaxTime
    /\ reader' = Woken(reader, "loop")
    /\ pump' = Woken(pump, "check")
    /\ UNCHANGED <<kind, source, sent, ending, buf, err, stop, cut, now, timer, out, saw>>

\* Close: state and Broadcast under the lock, the connection after it.
Close ==
    /\ ~stop
    /\ stop' = TRUE
    /\ err' = IF kind = "ws" /\ err = "" THEN "closed" ELSE err
    /\ reader' = Woken(reader, "loop")
    /\ pump' = Woken(pump, "check")
    /\ UNCHANGED <<kind, source, sent, ending, buf, cut, dl, now, timer, out, saw, calls>>

CloseUnder ==
    /\ stop
    /\ ~cut
    /\ cut' = TRUE
    /\ UNCHANGED <<kind, source, sent, ending, buf, err, stop, dl, now, pump, reader, timer, out, saw, calls>>

PeerSends ==
    /\ ending = ""
    /\ sent < MaxBytes
    /\ sent' = sent + 1
    /\ source' = source + 1
    /\ UNCHANGED <<kind, ending, buf, err, stop, cut, dl, now, pump, reader, timer, out, saw, calls>>

PeerEnds ==
    /\ ending = ""
    /\ ending' \in {"eof", "fail"}
    /\ UNCHANGED <<kind, source, sent, buf, err, stop, cut, dl, now, pump, reader, timer, out, saw, calls>>

Tick ==
    /\ now < MaxTime
    /\ now' = now + 1
    /\ UNCHANGED <<kind, source, sent, ending, buf, err, stop, cut, dl, pump, reader, timer, out, saw, calls>>

Next ==
    \/ PumpCheck \/ PumpData \/ PumpEnds
    \/ ReadCall \/ ReadData \/ ReadError \/ ReadSleeps \/ TimerFires
    \/ SetReadDeadline \/ Close \/ CloseUnder \/ PeerSends \/ PeerEnds \/ Tick

\* Goroutines run, timers fire, Close goes through; nobody has to call Read
\* or Close, and the peer does as it likes.
Pumping == PumpCheck \/ PumpData \/ PumpEnds
Reading == ReadData \/ ReadError \/ ReadSleeps
Fairness ==
    WF_vars(Pumping) /\ WF_vars(Reading) /\ WF_vars(TimerFires) /\ WF_vars(CloseUnder)

Spec == Init /\ [][Next]_vars /\ Fairness

----------------------------------------------------------------------------

\* A Read that waits returns once there is data at the peer's side of the pump,
\* an error, a Close, or a deadline that has passed and was not moved; and after
\* Close the pump goroutine ends, from its pause on a full buffer as well.
ReadDue == reader # "idle" /\ (buf > 0 \/ source > 0 \/ err # "" \/ stop \/ Past(dl))
PumpDue == stop /\ pump \notin {"off", "done"}

\* No byte is lost or invented between peer and Read, the buffer stays below
\* twice its pause mark, and end of file is reported after the last byte only.
PumpKeepsBytes ==
    /\ out + buf + source = sent
    /\ buf < 2 * Max
    /\ saw = "eof" => out = sent
=============================================================================
