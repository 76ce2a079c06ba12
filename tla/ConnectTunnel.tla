--------------------------- MODULE ConnectTunnel ---------------------------
(***************************************************************************)
(* An HTTP/2 or HTTP/3 CONNECT (internal/xio/proxyopen): the handshake     *)
(* timer that must not cancel a tunnel which is up (proxyHandshakeContext, *)
(* finishCONNECTHandshake), and the request body reqPipe, through which    *)
(* several writers, their deadline, the transport's reader and two closers *)
(* meet at one sync.Cond.                                                  *)
(* A step of a writer is one hold of the mutex: from getting it to the     *)
(* next cond.Wait or to the return.                                        *)
(***************************************************************************)
EXTENDS Integers, Sequences, FiniteSets

CONSTANTS
    Writers,
    Max,            \* room of the pipe
    Size,           \* bytes of one Write
    MaxWrites,      \* Write calls
    MaxTime,        \* the clock stops here; 0 as a deadline means none
    MaxMoves        \* how often the write deadline is set

VARIABLES
    phase,          \* "asking", "answered", "stopped", "up", "down"
    fire,           \* the timer: "armed", "firing", "ended"
    completed,      \* set by stopTimer
    cancelled,      \* is the request's context cancelled?
    buf,            \* the pipe: each byte is the number of its Write call
    wactive,        \* the writer that owns the pipe, "none"
    wclosed, rclosed,
    wdl, now,
    wpc,            \* "idle", "run" (wants or has the mutex), "asleep"
    call,           \* number of the writer's current Write
    n,              \* bytes copied by it
    timer,          \* when the timer of its waitWrite fires, 0 if none
    result,         \* what each finished Write returned
    rpc,            \* the transport's Read: "idle", "run", "asleep"
    out,            \* bytes the transport got
    moves

hand == <<phase, fire, completed, cancelled>>
wvars == <<wactive, wpc, call, n, timer, result>>
vars == <<phase, fire, completed, cancelled, buf, wactive, wclosed, rclosed, wdl, now,
          wpc, call, n, timer, result, rpc, out, moves>>

Init ==
    /\ phase = "asking" /\ fire = "armed" /\ completed = FALSE /\ cancelled = FALSE
    /\ buf = <<>> /\ wactive = "none" /\ wclosed = FALSE /\ rclosed = FALSE
    /\ wdl = 0 /\ now = 0
    /\ wpc = [w \in Writers |-> "idle"]
    /\ call = [w \in Writers |-> 0]
    /\ n = [w \in Writers |-> 0]
    /\ timer = [w \in Writers |-> 0]
    /\ result = <<>>
    /\ rpc = "idle" /\ out = <<>> /\ moves = 0

Past(d) == d # 0 /\ now >= d
WokenWriters == [w \in Writers |-> IF wpc[w] = "asleep" THEN "run" ELSE wpc[w]]
WokenReader == IF rpc = "asleep" THEN "run" ELSE rpc

----------------------------------------------------------------------------
(* The handshake.                                                          *)

\* The timer's goroutine starts: from here timer.Stop is too late.
Expire ==
    /\ fire = "armed"
    /\ fire' = "firing"
    /\ UNCHANGED <<phase, completed, cancelled, buf, wclosed, rclosed, wdl, now, rpc, out, moves, wvars>>

Fire ==
    /\ fire = "firing"
    /\ fire' = "ended"
    /\ cancelled' = (cancelled \/ ~completed)
    /\ UNCHANGED <<phase, completed, buf, wclosed, rclosed, wdl, now, rpc, out, moves, wvars>>

\* RoundTrip returns: a 2xx answer, or anything else and pw is closed.
RoundTrip ==
    /\ phase = "asking"
    /\ \/ phase' = "answered" /\ UNCHANGED <<wclosed, rpc>>
       \/ phase' = "down" /\ wclosed' = TRUE /\ rpc' = WokenReader
    /\ UNCHANGED <<fire, completed, cancelled, buf, rclosed, wdl, now, out, moves, wvars>>

StopTimer ==
    /\ phase = "answered"
    /\ phase' = "stopped"
    /\ completed' = TRUE
    /\ fire' = IF fire = "armed" THEN "ended" ELSE fire
    /\ UNCHANGED <<cancelled, buf, wclosed, rclosed, wdl, now, rpc, out, moves, wvars>>

\* finishCONNECTHandshake after stopTimer.
FinishCONNECTHandshake ==
    /\ phase = "stopped"
    /\ phase' = IF cancelled THEN "down" ELSE "up"
    /\ wclosed' = cancelled
    /\ rpc' = IF cancelled THEN WokenReader ELSE rpc
    /\ UNCHANGED <<fire, completed, cancelled, buf, rclosed, wdl, now, out, moves, wvars>>

----------------------------------------------------------------------------
(* reqPipe.write                                                           *)

writeErr == wclosed \/ rclosed \/ Past(wdl)

Write(w) ==
    /\ phase = "up"
    /\ wpc[w] = "idle"
    /\ Len(result) < MaxWrites
    /\ wpc' = [wpc EXCEPT ![w] = "run"]
    /\ result' = Append(result, -1)
    /\ call' = [call EXCEPT ![w] = Len(result) + 1]
    /\ n' = [n EXCEPT ![w] = 0]
    /\ UNCHANGED <<buf, wactive, wclosed, rclosed, wdl, now, timer, rpc, out, moves, hand>>

\* waitWrite
Sleep(w) ==
    /\ wpc' = [wpc EXCEPT ![w] = "asleep"]
    /\ timer' = [timer EXCEPT ![w] = wdl]

\* While another Write has the pipe: an error ends this one with nothing copied.
WriteQueued(w) ==
    /\ wpc[w] = "run"
    /\ wactive \notin {"none", w}
    /\ \/ /\ writeErr
          /\ wpc' = [wpc EXCEPT ![w] = "idle"]
          /\ result' = [result EXCEPT ![call[w]] = 0]
          /\ UNCHANGED timer
       \/ ~writeErr /\ Sleep(w) /\ UNCHANGED result
    /\ UNCHANGED <<buf, wactive, wclosed, rclosed, wdl, now, call, n, rpc, out, moves, hand>>

WriteFails(w) ==
    /\ wpc[w] = "run"
    /\ wactive \in {"none", w}
    /\ writeErr
    /\ result' = [result EXCEPT ![call[w]] = n[w]]
    /\ wactive' = "none"
    /\ wpc' = [WokenWriters EXCEPT ![w] = "idle"]
    /\ rpc' = WokenReader
    /\ UNCHANGED <<buf, wclosed, rclosed, wdl, now, call, n, timer, out, moves, hand>>

Least(a, b) == IF a < b THEN a ELSE b
take(w) == Least(Size - n[w], Max - Len(buf))
Copied(w) == buf \o [i \in 1 .. take(w) |-> call[w]]

\* The rest of the bytes fits.
WriteEnds(w) ==
    /\ wpc[w] = "run"
    /\ wactive \in {"none", w}
    /\ ~writeErr
    /\ take(w) = Size - n[w]
    /\ buf' = Copied(w)
    /\ n' = [n EXCEPT ![w] = Size]
    /\ result' = [result EXCEPT ![call[w]] = Size]
    /\ wactive' = "none"
    /\ wpc' = [WokenWriters EXCEPT ![w] = "idle"]
    /\ rpc' = WokenReader
    /\ UNCHANGED <<wclosed, rclosed, wdl, now, call, timer, out, moves, hand>>

\* The pipe fills up: sleep, and keep the pipe.
WritePauses(w) ==
    /\ wpc[w] = "run"
    /\ wactive \in {"none", w}
    /\ ~writeErr
    /\ take(w) < Size - n[w]
    /\ buf' = Copied(w)
    /\ n' = [n EXCEPT ![w] = @ + take(w)]
    /\ wactive' = w
    /\ wpc' = [wpc EXCEPT ![w] = "asleep"]
    /\ timer' = [timer EXCEPT ![w] = wdl]
    /\ rpc' = WokenReader
    /\ UNCHANGED <<wclosed, rclosed, wdl, now, call, result, out, moves, hand>>

TimerFires(w) ==
    /\ wpc[w] = "asleep"
    /\ Past(timer[w])
    /\ wpc' = WokenWriters
    /\ rpc' = WokenReader
    /\ UNCHANGED <<buf, wactive, wclosed, rclosed, wdl, now, call, n, timer, result, out, moves, hand>>

SetWriteDeadline ==
    /\ phase = "up"
    /\ moves < MaxMoves
    /\ moves' = moves + 1
    /\ wdl' \in 0 .. MaxTime
    /\ wpc' = WokenWriters
    /\ rpc' = WokenReader
    /\ UNCHANGED <<buf, wactive, wclosed, rclosed, now, call, n, timer, result, out, hand>>

----------------------------------------------------------------------------
(* The transport's side, and the closers.                                  *)

Read ==
    /\ rpc = "idle"
    /\ rpc' = "run"
    /\ UNCHANGED <<buf, wclosed, rclosed, wdl, now, out, moves, wvars, hand>>

\* take that tells no writer about the room it made (mutant).
ReadTakesSilently ==
    /\ rpc = "run"
    /\ \E k \in 1 .. Len(buf) :
          /\ out' = out \o SubSeq(buf, 1, k)
          /\ buf' = SubSeq(buf, k + 1, Len(buf))
    /\ rpc' = "idle"
    /\ UNCHANGED <<wclosed, rclosed, wdl, now, moves, wvars, hand>>

ReadTakes ==
    /\ rpc = "run"
    /\ \E k \in 1 .. Len(buf) :
          /\ out' = out \o SubSeq(buf, 1, k)
          /\ buf' = SubSeq(buf, k + 1, Len(buf))
    /\ rpc' = "idle"
    /\ wpc' = WokenWriters
    /\ UNCHANGED <<wactive, wclosed, rclosed, wdl, now, call, n, timer, result, moves, hand>>

ReadEnds ==
    /\ rpc = "run"
    /\ buf = <<>>
    /\ wclosed \/ rclosed
    /\ rpc' = "done"
    /\ UNCHANGED <<buf, wclosed, rclosed, wdl, now, out, moves, wvars, hand>>

ReadWaits ==
    /\ rpc = "run"
    /\ buf = <<>>
    /\ ~wclosed /\ ~rclosed
    /\ rpc' = "asleep"
    /\ UNCHANGED <<buf, wclosed, rclosed, wdl, now, out, moves, wvars, hand>>

closeWrite ==
    /\ phase = "up"
    /\ ~wclosed
    /\ wclosed' = TRUE
    /\ wpc' = WokenWriters
    /\ rpc' = WokenReader
    /\ UNCHANGED <<buf, wactive, rclosed, wdl, now, call, n, timer, result, out, moves, hand>>

closeRead ==
    /\ ~rclosed
    /\ rclosed' = TRUE
    /\ wpc' = WokenWriters
    /\ rpc' = WokenReader
    /\ UNCHANGED <<buf, wactive, wclosed, wdl, now, call, n, timer, result, out, moves, hand>>

Tick ==
    /\ now < MaxTime
    /\ now' = now + 1
    /\ UNCHANGED <<buf, wclosed, rclosed, wdl, rpc, out, moves, wvars, hand>>

Next ==
    \/ Expire \/ Fire \/ RoundTrip \/ StopTimer \/ FinishCONNECTHandshake
    \/ \E w \in Writers :
          \/ Write(w) \/ WriteQueued(w) \/ WriteFails(w) \/ WriteEnds(w) \/ WritePauses(w)
          \/ TimerFires(w)
    \/ SetWriteDeadline \/ Read \/ ReadTakes \/ ReadEnds \/ ReadWaits
    \/ closeWrite \/ closeRead \/ Tick

\* The mutex is granted and timers fire; the transport, once in Read, goes on,
\* but need not call Read again.
Writing(w) == WriteQueued(w) \/ WriteFails(w) \/ WriteEnds(w) \/ WritePauses(w)
Reading == ReadTakes \/ ReadEnds \/ ReadWaits
Answering == StopTimer \/ FinishCONNECTHandshake
Fairness ==
    /\ \A w \in Writers : WF_vars(Writing(w)) /\ WF_vars(TimerFires(w))
    /\ WF_vars(Reading) /\ WF_vars(Answering)

Spec == Init /\ [][Next]_vars /\ Fairness

----------------------------------------------------------------------------

\* The CONNECT body carries every Write as one contiguous run of as many bytes as
\* that call reported, whatever deadline or close cut it short; and a tunnel that
\* was handed out never has its request cancelled by the handshake timer.
TunnelExact ==
    LET stream == out \o buf
        bytes(k) == {i \in DOMAIN stream : stream[i] = k}
    IN  /\ \A k \in DOMAIN result :
              /\ result[k] # -1 => Cardinality(bytes(k)) = result[k]
              /\ \A i, j \in bytes(k) : i .. j \subseteq bytes(k)
        /\ phase = "up" => ~cancelled

\* A Write ends after a close on either side, once its deadline has passed and is left
\* alone, and goes on when there is room in the pipe; Read ends when there are bytes or
\* a close.
WriteDue(w) == wpc[w] # "idle" /\ (writeErr \/ Len(buf) < Max)
ReadDue == rpc \in {"run", "asleep"} /\ (buf # <<>> \/ wclosed \/ rclosed)
=============================================================================
