------------------------------ MODULE MQStream ------------------------------
(***************************************************************************)
(* A POSIX message queue endpoint (internal/xio/posixmqopen): mqStream,    *)
(* read and written by two goroutines and closed by a third, or mqListener *)
(* with its accepting goroutine.  Every blocking call works on a duplicate *)
(* of the queue descriptor and polls it together with one eventfd, which   *)
(* all calls share and which the last of them closes after Close.          *)
(***************************************************************************)
EXTENDS Naturals, Sequences, FiniteSets

CONSTANTS
    MaxMessages,    \* messages sent into the queue altogether
    Room,           \* capacity of the queue
    MaxTime,        \* the clock stops here; 0 as a deadline means none
    MaxCalls        \* how often a deadline is set

VARIABLES
    kind,           \* "stream" or "listener"
    closed,
    notify,         \* is the eventfd open?
    event,          \* is it readable?
    inflight,       \* calls between beginOp and endOp
    dl,             \* per call: its deadline
    now,
    pc,             \* per call: where it is
    ready,          \* per call: did the poll report the queue ready?
    queue,          \* the messages in the kernel's queue, by number
    sent,           \* messages sent so far
    taken,          \* the message the reader took and has not yet returned, or 0
    left,           \* the message whose rest Read still owes (leftover), or 0
    got,            \* the messages returned, in order
    lost,           \* messages taken and never returned
    away,           \* messages other processes took from the queue
    calls           \* deadlines set so far

vars == <<kind, closed, notify, event, inflight, dl, now, pc, ready, queue, sent, taken, left, got, lost,
          away, calls>>

Ops == {"read", "write"}

Init ==
    /\ kind \in {"stream", "listener"}
    /\ closed = FALSE
    /\ notify = TRUE
    /\ event = FALSE
    /\ inflight = 0
    /\ dl = [o \in Ops |-> 0]
    /\ now = 0
    /\ pc = [o \in Ops |-> "idle"]
    /\ ready = [o \in Ops |-> FALSE]
    /\ queue = <<>>
    /\ sent = 0
    /\ taken = 0
    /\ left = 0
    /\ got = <<>>
    /\ lost = {}
    /\ away = {}
    /\ calls = 0

Goto(o, from, to) == pc[o] = from /\ pc' = [pc EXCEPT ![o] = to]
Past(o) == dl[o] # 0 /\ now >= dl[o]

\* mqLiveErr: closed, or past the deadline.
LiveErr(o) == closed \/ Past(o)

\* Can the queue serve this call?
Ready(o) == IF o = "read" THEN queue # <<>> ELSE Len(queue) < Room

----------------------------------------------------------------------------
(* One blocking call.                                                      *)

\* Read without a leftover, Write, and Accept: beginOp.
Begin(o) ==
    /\ o = "write" => kind = "stream" /\ sent < MaxMessages
    /\ o = "read" => left = 0
    /\ ~closed
    /\ Goto(o, "idle", "live")
    /\ inflight' = inflight + 1
    /\ UNCHANGED <<kind, closed, notify, event, dl, now, ready, queue, sent, taken, left, got, lost, away, calls>>

\* Read with a leftover takes the rest of that message, without a call.
ReadLeftover ==
    /\ pc["read"] = "idle"
    /\ left # 0
    /\ left' = 0
    /\ UNCHANGED <<kind, closed, notify, event, inflight, dl, now, pc, ready, queue, sent, taken, got, lost, away, calls>>

\* The head of waitMQ's loop.
Live(o) ==
    /\ Goto(o, "live", IF LiveErr(o) THEN "end" ELSE "poll")
    /\ UNCHANGED <<kind, closed, notify, event, inflight, dl, now, ready, queue, sent, taken, left, got, lost, away, calls>>

\* poll ends with an event or after mqWaitInterval.
Poll(o) ==
    /\ Goto(o, "poll", "recheck")
    /\ ready' = [ready EXCEPT ![o] = Ready(o)]
    /\ UNCHANGED <<kind, closed, notify, event, inflight, dl, now, queue, sent, taken, left, got, lost, away, calls>>

Recheck(o) ==
    /\ Goto(o, "recheck", IF LiveErr(o) THEN "end" ELSE "drain")
    /\ UNCHANGED <<kind, closed, notify, event, inflight, dl, now, ready, queue, sent, taken, left, got, lost, away, calls>>

\* The eventfd is drained unless the endpoint was closed meanwhile.
Drain(o) ==
    /\ Goto(o, "drain", IF ready[o] THEN "act" ELSE "live")
    /\ event' = (event /\ closed)
    /\ UNCHANGED <<kind, closed, notify, inflight, dl, now, ready, queue, sent, taken, left, got, lost, away, calls>>

\* receiveMQ: look once more, then one receive that does not wait.
Receive ==
    /\ pc["read"] = "act"
    /\ IF LiveErr("read") THEN Goto("read", "act", "end") /\ UNCHANGED <<queue, taken>>
       ELSE IF queue = <<>> THEN Goto("read", "act", "live") /\ UNCHANGED <<queue, taken>>
       ELSE /\ Goto("read", "act", "after")
            /\ taken' = Head(queue)
            /\ queue' = Tail(queue)
    /\ UNCHANGED <<kind, closed, notify, event, inflight, dl, now, ready, sent, left, got, lost, away, calls>>

\* sendMQ: the same with one send; a close meanwhile is reported as an error.
Send ==
    /\ pc["write"] = "act"
    /\ IF LiveErr("write") THEN Goto("write", "act", "end") /\ UNCHANGED <<queue, sent>>
       ELSE IF Len(queue) = Room THEN Goto("write", "act", "live") /\ UNCHANGED <<queue, sent>>
       ELSE /\ Goto("write", "act", "end")
            /\ queue' = Append(queue, sent + 1)
            /\ sent' = sent + 1
    /\ UNCHANGED <<kind, closed, notify, event, inflight, dl, now, ready, taken, left, got, lost, away, calls>>

\* The message is returned unless the endpoint was closed; Read may have room
\* for its first part only.
Return ==
    /\ Goto("read", "after", "end")
    /\ taken' = 0
    /\ IF closed
       THEN lost' = lost \cup {taken} /\ UNCHANGED <<got, left>>
       ELSE got' = Append(got, taken) /\ left' \in (IF kind = "stream" THEN {0, taken} ELSE {0})
            /\ UNCHANGED lost
    /\ UNCHANGED <<kind, closed, notify, event, inflight, dl, now, ready, queue, sent, away, calls>>

\* The last call out closes the eventfd after a Close.
End(o) ==
    /\ Goto(o, "end", "idle")
    /\ inflight' = inflight - 1
    /\ notify' = (notify /\ ~(closed /\ inflight = 1))
    /\ UNCHANGED <<kind, closed, event, dl, now, ready, queue, sent, taken, left, got, lost, away, calls>>

----------------------------------------------------------------------------

\* Close: wake, and close the eventfd only if no call uses it.
Close ==
    /\ ~closed
    /\ closed' = TRUE
    /\ event' = TRUE
    /\ notify' = (inflight # 0)
    /\ UNCHANGED <<kind, inflight, dl, now, pc, ready, queue, sent, taken, left, got, lost, away, calls>>

SetDeadline ==
    /\ kind = "stream"
    /\ calls < MaxCalls
    /\ calls' = calls + 1
    /\ \E ops \in {{"read"}, {"write"}, Ops}, d \in 0 .. MaxTime :
          dl' = [o \in Ops |-> IF o \in ops THEN d ELSE dl[o]]
    /\ event' = (event \/ notify)
    /\ UNCHANGED <<kind, closed, notify, inflight, now, pc, ready, queue, sent, taken, left, got, lost, away>>

\* Other processes send and receive on the same queue.
PeerSends ==
    /\ sent < MaxMessages
    /\ Len(queue) < Room
    /\ queue' = Append(queue, sent + 1)
    /\ sent' = sent + 1
    /\ UNCHANGED <<kind, closed, notify, event, inflight, dl, now, pc, ready, taken, left, got, lost, away, calls>>

PeerReceives ==
    /\ queue # <<>>
    /\ away' = away \cup {Head(queue)}
    /\ queue' = Tail(queue)
    /\ UNCHANGED <<kind, closed, notify, event, inflight, dl, now, pc, ready, sent, taken, left, got, lost, calls>>

Tick ==
    /\ now < MaxTime
    /\ now' = now + 1
    /\ UNCHANGED <<kind, closed, notify, event, inflight, dl, pc, ready, queue, sent, taken, left, got, lost, away, calls>>

Next ==
    \/ \E o \in Ops : Begin(o) \/ Live(o) \/ Poll(o) \/ Recheck(o) \/ Drain(o) \/ End(o)
    \/ ReadLeftover \/ Receive \/ Send \/ Return
    \/ Close \/ SetDeadline \/ PeerSends \/ PeerReceives \/ Tick

\* The goroutines run and every poll returns.
Waiting(o) == Live(o) \/ Poll(o) \/ Recheck(o) \/ Drain(o) \/ End(o)
Receiving == Receive \/ Return
Fairness ==
    (\A o \in Ops : WF_vars(Waiting(o))) /\ WF_vars(Receiving) /\ WF_vars(Send)

Spec == Init /\ [][Next]_vars /\ Fairness

----------------------------------------------------------------------------

CallDue(o) == pc[o] # "idle" /\ (closed \/ Past(o))

\* Close, and a deadline that passes and is left alone, end every blocked call,
\* although one eventfd serves them all and whoever polls first drains it.
CallsEnd == \A o \in Ops : []<>~CallDue(o)

\* No call polls an eventfd that is already closed, and the last one, or Close
\* itself, closes it.
NotifyOwned ==
    /\ inflight = Cardinality({o \in Ops : pc[o] # "idle"})
    /\ inflight > 0 => notify
    /\ closed /\ inflight = 0 => ~notify

\* Messages come out once each and in order; one is lost only to a Close that
\* overtook its receipt, never to a deadline.
InOrderOnce ==
    /\ \A i, j \in DOMAIN got : i < j => got[i] < got[j]
    /\ \A m \in 1 .. sent :
          Cardinality({i \in DOMAIN got : got[i] = m}) + Cardinality({i \in DOMAIN queue : queue[i] = m})
              + (IF m = taken THEN 1 ELSE 0) + (IF m \in lost \cup away THEN 1 ELSE 0) = 1
    /\ lost # {} => closed
=============================================================================
