----------------------------- MODULE QuicAccept -----------------------------
(***************************************************************************)
(* The QUIC listener (internal/xio/quicopen/listen.go): an accept loop,    *)
(* one goroutine per connection that waits for its stream, the bounded     *)
(* acceptQueue between them and Accept, and Close.  The queue's methods    *)
(* are atomic (its mutex), what their callers do around them is not.       *)
(***************************************************************************)
EXTENDS Naturals, Sequences, FiniteSets

CONSTANTS
    Conns,
    Cap             \* quicAcceptQueueCap

VARIABLES
    conn,           \* "none", "refused", "waiting" (for its stream), "opened",
                    \* "failed", "rejected", "queued", "dropped", "accepted", "closed"
    queue,          \* q.conns
    parked,         \* q.parked
    closed,         \* q.closed
    ctx,            \* is the listener's context alive?
    loop,           \* the accept loop: "accept", "failing", "ended"
    pop,            \* an AcceptContext: "idle", "run", "asleep"
    popctx,         \* is the context of that call alive?
    closing         \* Close: "no", "cancelled", "done"

vars == <<conn, queue, parked, closed, ctx, loop, pop, popctx, closing>>

Init ==
    /\ conn = [c \in Conns |-> "none"]
    /\ queue = <<>> /\ parked = 0 /\ closed = FALSE
    /\ ctx = TRUE /\ loop = "accept"
    /\ pop = "idle" /\ popctx = TRUE
    /\ closing = "no"

Elements(s) == {s[i] : i \in DOMAIN s}
Woken == IF pop = "asleep" THEN "run" ELSE pop

----------------------------------------------------------------------------
(* acceptConnections                                                       *)

park(c) ==
    IF closed \/ parked >= Cap
    THEN conn' = [conn EXCEPT ![c] = "refused"] /\ UNCHANGED parked
    ELSE conn' = [conn EXCEPT ![c] = "waiting"] /\ parked' = parked + 1

Accepted(c) ==
    /\ loop = "accept"
    /\ ctx
    /\ conn[c] = "none"
    /\ park(c)
    /\ UNCHANGED <<queue, closed, ctx, loop, pop, popctx, closing>>

\* ln.Accept fails: on its own, or because the context has ended.
AcceptFails ==
    /\ loop = "accept"
    /\ loop' = "failing"
    /\ UNCHANGED <<conn, queue, parked, closed, ctx, pop, popctx, closing>>

\* The deferred queue.fail; a queue already closed is left alone.
fail ==
    IF closed
    THEN UNCHANGED <<conn, queue, parked, closed, pop>>
    ELSE /\ closed' = TRUE
         /\ queue' = <<>>
         /\ parked' = parked - Len(queue)
         /\ conn' = [c \in Conns |-> IF c \in Elements(queue) THEN "dropped" ELSE conn[c]]
         /\ pop' = Woken

LoopFails ==
    /\ loop = "failing"
    /\ loop' = "ended"
    /\ fail
    /\ UNCHANGED <<ctx, popctx, closing>>

----------------------------------------------------------------------------
(* acceptStream                                                            *)

StreamOpens(c) ==
    /\ conn[c] = "waiting"
    /\ conn' = [conn EXCEPT ![c] = "opened"]
    /\ UNCHANGED <<queue, parked, closed, ctx, loop, pop, popctx, closing>>

\* The peer leaves, or the listener's context ends.
StreamFails(c) ==
    /\ conn[c] = "waiting"
    /\ conn' = [conn EXCEPT ![c] = "failed"]
    /\ UNCHANGED <<queue, parked, closed, ctx, loop, pop, popctx, closing>>

push(c) ==
    /\ conn[c] = "opened"
    /\ \/ /\ ~closed
          /\ queue' = Append(queue, c)
          /\ conn' = [conn EXCEPT ![c] = "queued"]
          /\ pop' = Woken
       \/ /\ closed
          /\ conn' = [conn EXCEPT ![c] = "rejected"]
          /\ UNCHANGED <<queue, pop>>
    /\ UNCHANGED <<parked, closed, ctx, loop, popctx, closing>>

\* The slot of a refused stream is kept (mutant).
unparkNot(c) ==
    /\ conn[c] \in {"failed", "rejected"}
    /\ conn' = [conn EXCEPT ![c] = "dropped"]
    /\ UNCHANGED <<queue, parked, closed, ctx, loop, pop, popctx, closing>>

unpark(c) ==
    /\ conn[c] \in {"failed", "rejected"}
    /\ parked' = parked - 1
    /\ conn' = [conn EXCEPT ![c] = "dropped"]
    /\ UNCHANGED <<queue, closed, ctx, loop, pop, popctx, closing>>

\* The connections nobody accepted are closed at once: nothing was written.
CloseUnused(c) ==
    /\ conn[c] \in {"refused", "dropped"}
    /\ conn' = [conn EXCEPT ![c] = "closed"]
    /\ UNCHANGED <<queue, parked, closed, ctx, loop, pop, popctx, closing>>

----------------------------------------------------------------------------
(* AcceptContext and Close                                                 *)

Accept ==
    /\ pop = "idle"
    /\ pop' = "run"
    /\ popctx' = TRUE
    /\ UNCHANGED <<conn, queue, parked, closed, ctx, loop, closing>>

Alive == popctx /\ ctx

PopTakes ==
    /\ pop = "run"
    /\ queue # <<>> /\ ~closed /\ Alive
    /\ conn' = [conn EXCEPT ![Head(queue)] = "accepted"]
    /\ queue' = Tail(queue)
    /\ parked' = parked - 1
    /\ pop' = "idle"
    /\ UNCHANGED <<closed, ctx, loop, popctx, closing>>

PopFails ==
    /\ pop = "run"
    /\ closed \/ ~Alive
    /\ pop' = "idle"
    /\ UNCHANGED <<conn, queue, parked, closed, ctx, loop, popctx, closing>>

PopWaits ==
    /\ pop = "run"
    /\ queue = <<>> /\ ~closed /\ Alive
    /\ pop' = "asleep"
    /\ UNCHANGED <<conn, queue, parked, closed, ctx, loop, popctx, closing>>

PopCancelled ==
    /\ pop \in {"run", "asleep"}
    /\ popctx
    /\ popctx' = FALSE
    /\ UNCHANGED <<conn, queue, parked, closed, ctx, loop, pop, closing>>

AfterFunc ==
    /\ ~Alive
    /\ pop = "asleep"
    /\ pop' = "run"
    /\ UNCHANGED <<conn, queue, parked, closed, ctx, loop, popctx, closing>>

Close ==
    /\ closing = "no"
    /\ closing' = "cancelled"
    /\ ctx' = FALSE
    /\ UNCHANGED <<conn, queue, parked, closed, loop, pop, popctx>>

CloseFails ==
    /\ closing = "cancelled"
    /\ closing' = "done"
    /\ fail
    /\ UNCHANGED <<ctx, loop, popctx>>

----------------------------------------------------------------------------

Next ==
    \/ AcceptFails \/ LoopFails
    \/ \E c \in Conns :
          \/ Accepted(c) \/ StreamOpens(c) \/ StreamFails(c) \/ push(c) \/ unpark(c) \/ CloseUnused(c)
    \/ Accept \/ PopTakes \/ PopFails \/ PopWaits \/ PopCancelled \/ AfterFunc
    \/ Close \/ CloseFails

\* The goroutines run; the library lets AcceptStream and Accept end once the
\* context has.  Nobody need call Accept or Close, and no peer need open a stream.
Looping == LoopFails \/ (~ctx /\ AcceptFails)
Serving(c) == push(c) \/ unpark(c) \/ CloseUnused(c) \/ (~ctx /\ StreamFails(c))
Popping == PopTakes \/ PopFails \/ PopWaits
Fairness ==
    /\ \A c \in Conns : WF_vars(Serving(c))
    /\ WF_vars(Looping) /\ WF_vars(Popping) /\ WF_vars(AfterFunc) /\ WF_vars(CloseFails)

Spec == Init /\ [][Next]_vars /\ Fairness

----------------------------------------------------------------------------

\* parked counts exactly the connections that wait for a stream, hold an unpushed
\* stream or lie in the queue: a leaked slot would in the end refuse every peer,
\* one released twice would lift the cap.  A closed queue holds no connection.
ParkedExact ==
    /\ parked = Cardinality({c \in Conns : conn[c] \in {"waiting", "opened", "failed", "rejected", "queued"}})
    /\ parked <= Cap
    /\ Elements(queue) = {c \in Conns : conn[c] = "queued"}
    /\ closed => queue = <<>>

\* After Close every connection that Accept did not hand out is closed, and an
\* Accept returns when a connection is there, its context ends or the listener does.
CloseDue(c) == closing = "done" /\ conn[c] \notin {"none", "accepted", "closed"}
PopDue == pop # "idle" /\ (queue # <<>> \/ closed \/ ~Alive)
=============================================================================
