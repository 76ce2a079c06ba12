------------------------------ MODULE DTLSConn -----------------------------
(***************************************************************************)
(* Writes on the associations of internal/dtls13 (conn.go, transport.go):   *)
(* callers hand commands to the goroutine that drives their association,    *)
(* which sends through the socket itself (a client) or through the one      *)
(* writer its listener's associations share.  Deadlines pass, associations  *)
(* are closed, and a socket write may block until its deadline is moved.    *)
(*                                                                          *)
(* A datagram is named by its caller.  Signals are the channels    *)
(* that are closed: <<"stop", a>>, <<"command", k>> and <<"write", n>>.     *)
(***************************************************************************)
EXTENDS Integers, Sequences, FiniteSets

CONSTANTS
    Callers,     \* the goroutines that write
    Conns,       \* the associations
    ConnOf,      \* the association each caller writes to
    Crowds,      \* bound: the sets of callers that write together
    MaxWrites,   \* bound: attempts to write
    Restless     \* bound: the associations that get deadlines and are closed

VARIABLES
    direct,    \* packetTransport.direct
    crowd,     \* the callers that write, once each
    caller,    \* Conn.execute of each caller
    calls,     \* how many calls each caller has made
    cached,    \* connShared.cachedCommand
    cmd,       \* the commands: what they carry and their result channel
    late,      \* the write deadline of the association: "none", "ahead", "past",
               \* or "cleared" for good
    drv,       \* connDriver.run of each association
    writes,    \* the packetWrites made so far, in order
    queue,     \* packetTransport.writes
    active,    \* the write at the socket, 0 if there is none
    past,      \* the socket's write deadline has passed
    signals,   \* the channels closed so far
    sent       \* how often each datagram was sent

vars == <<direct, crowd, caller, calls, cached, cmd, late, drv, writes, queue, active, past,
          signals, sent>>

-----------------------------------------------------------------------------

\* The commands: one made with each association, and one for each call.
First(a) == <<a, 0>>
Commands == {First(a) : a \in Conns} \cup (Callers \X {1})
NoCommand == <<0, 0>>

Signals(w) == {<<"stop", writes[w].conn>>, <<"command", writes[w].command>>, <<"write", w>>}

Idle == [pc |-> "idle", command |-> NoCommand, outcome |-> "none"]

\* What is left of a write nobody waits for.
Over == [conn |-> 0, command |-> NoCommand, data |-> NoCommand, deadline |-> FALSE,
         expired |-> FALSE, result |-> "none"]

\* Conn.Write: the cached command, or a new one, takes the datagram.
Write(c) ==
    LET a == ConnOf[c]
        k == IF cached[a] # NoCommand THEN cached[a] ELSE <<c, calls[c] + 1>>
    IN
    /\ caller[c].pc = "idle" /\ c \in crowd /\ calls[c] = 0
    /\ calls' = [calls EXCEPT ![c] = @ + 1]
    /\ cached' = [cached EXCEPT ![a] = NoCommand]
    /\ cmd' = [cmd EXCEPT ![k].data = <<c, calls[c] + 1>>]
    /\ caller' = [caller EXCEPT ![c] = [pc |-> "offer", command |-> k, outcome |-> "none"]]
    /\ UNCHANGED <<direct, crowd, late, drv, writes, queue, active, past, signals, sent>>

\* With writeMu held, so that the deadline moved is that of the write the signal
\* belongs to.
cancelWrite(signal) ==
    /\ signals' = signals \cup {signal}
    /\ past' = (past \/ (active # 0 /\ signal \in Signals(active)))

\* Slip: the command of a call that timed out is kept for the next one.
AbandonKeep(c) ==
    /\ cached' = [cached EXCEPT ![ConnOf[c]] = caller[c].command]
    /\ UNCHANGED <<signals, past>>

\* The end of execute: only a command whose good reply was taken is used again.
Abandon(c) ==
    /\ cancelWrite(<<"command", caller[c].command>>)
    /\ UNCHANGED cached

Finish(c, outcome) ==
    caller' = [caller EXCEPT ![c] = [pc |-> "idle", command |-> NoCommand, outcome |-> outcome]]

\* The rendezvous on Conn.commands.
Offer(c) ==
    LET a == ConnOf[c] IN
    /\ caller[c].pc = "offer" /\ drv[a].pc = "run" /\ drv[a].pending = NoCommand
    /\ caller' = [caller EXCEPT ![c].pc = "wait"]
    /\ drv' = [drv EXCEPT ![a].pending = caller[c].command]
    /\ UNCHANGED <<direct, crowd, calls, cached, cmd, late, writes, queue, active, past, signals, sent>>

TakeReply(c) ==
    LET k == caller[c].command
        a == ConnOf[c]
    IN
    /\ caller[c].pc = "wait" /\ cmd[k].result # "none"
    /\ Finish(c, cmd[k].result)
    /\ IF cmd[k].result = "ok"
       THEN /\ cached' = [cached EXCEPT ![a] = IF @ = NoCommand THEN k ELSE @]
            /\ UNCHANGED <<signals, past>>
       ELSE Abandon(c)
    /\ cmd' = [cmd EXCEPT ![k] = [data |-> NoCommand, result |-> "none"]]
    /\ UNCHANGED <<direct, crowd, calls, late, drv, writes, queue, active, sent>>

\* Slip: only the deadline ends the wait.
GiveUpLate(c) ==
    LET a == ConnOf[c] IN
    /\ caller[c].pc \in {"offer", "wait"}
    /\ late[a] = "past"
    /\ Finish(c, "timeout") /\ Abandon(c)
    /\ UNCHANGED <<direct, crowd, calls, cmd, late, drv, writes, queue, active, sent>>

\* The association stops, or the deadline passes, before or after the hand-over.
GiveUp(c) ==
    LET a == ConnOf[c] IN
    /\ caller[c].pc \in {"offer", "wait"}
    /\ <<"stop", a>> \in signals \/ late[a] = "past"
    /\ Finish(c, IF <<"stop", a>> \in signals THEN "closed" ELSE "timeout") /\ Abandon(c)
    /\ UNCHANGED <<direct, crowd, calls, cmd, late, drv, writes, queue, active, sent>>

SetWriteDeadline(a) ==
    /\ late[a] = "none" /\ a \in Restless /\ <<"stop", a>> \notin signals
    /\ late' = [late EXCEPT ![a] = "ahead"]
    /\ UNCHANGED <<direct, crowd, caller, calls, cached, cmd, drv, writes, queue, active, past, signals, sent>>

\* Time passes: the association's deadline, and with it that of its write.
DeadlinePasses(a) ==
    /\ late[a] = "ahead"
    /\ late' = [late EXCEPT ![a] = "past"]
    /\ writes' = [w \in DOMAIN writes |-> IF writes[w].conn = a /\ writes[w].deadline
                                          THEN [writes[w] EXCEPT !.expired = TRUE] ELSE writes[w]]
    /\ past' = (past \/ (active # 0 /\ writes[active].conn = a /\ writes[active].deadline))
    /\ UNCHANGED <<direct, crowd, caller, calls, cached, cmd, drv, queue, active, signals, sent>>

ClearDeadline(a) ==
    /\ late[a] = "past"
    /\ late' = [late EXCEPT ![a] = "cleared"]
    /\ UNCHANGED <<direct, crowd, caller, calls, cached, cmd, drv, writes, queue, active, past, signals, sent>>

\* The second a write may take.
LimitPasses ==
    /\ active # 0 /\ ~past
    /\ past' = TRUE
    /\ writes' = [writes EXCEPT ![active].expired = TRUE]
    /\ UNCHANGED <<direct, crowd, caller, calls, cached, cmd, late, drv, queue, active, signals, sent>>

-----------------------------------------------------------------------------
(* The driver *)

Reply(a, what) ==
    /\ cmd' = [cmd EXCEPT ![drv[a].pending].result = what]
    /\ drv' = [drv EXCEPT ![a].pending = NoCommand, ![a].pc = "run", ![a].write = 0]

Running(a) == drv[a].pc = "run" /\ <<"stop", a>> \notin signals

\* A pending command: dropped if its caller has gone, refused if it is late.
Pending(a) ==
    LET k == drv[a].pending IN
    /\ Running(a) /\ k # NoCommand
    /\ \/ /\ <<"command", k>> \in signals
          /\ drv' = [drv EXCEPT ![a].pending = NoCommand]
          /\ UNCHANGED cmd
       \/ /\ <<"command", k>> \notin signals /\ late[a] = "past"
          /\ Reply(a, "timeout")
    /\ UNCHANGED <<direct, crowd, caller, calls, cached, late, writes, queue, active, past, signals, sent>>

\* writePacket: the datagram is queued for the writer, or written at once.
Send(a) ==
    LET k == drv[a].pending
        w == Len(writes) + 1
    IN
    /\ Running(a) /\ k # NoCommand /\ <<"command", k>> \notin signals /\ late[a] # "past"
    /\ w <= MaxWrites
    /\ writes' = Append(writes, [conn |-> a, command |-> k, data |-> cmd[k].data,
                                 deadline |-> late[a] = "ahead", expired |-> FALSE,
                                 result |-> "none"])
    /\ drv' = [drv EXCEPT ![a].pc = "write", ![a].write = w]
    /\ queue' = Append(queue, w)
    /\ UNCHANGED <<direct, crowd, caller, calls, cached, cmd, late, active, past, signals, sent>>

\* What the driver does with the result: a write of which nothing was sent is
\* tried again, anything else is the command's result.
Outcome(a, what) ==
    \/ /\ what = "again"
       /\ drv' = [drv EXCEPT ![a].pc = "run", ![a].write = 0]
       /\ UNCHANGED cmd
    \/ /\ what # "again"
       /\ Reply(a, what)

\* The write's own signal matters only while the writer has not finished it.
Leaves(w) ==
    IF direct \/ writes[w].result # "none" THEN UNCHANGED <<signals, past>>
    ELSE cancelWrite(<<"write", w>>)

\* waitWrite: the result, or the end of the association or of its caller.
WriteReturns(a) ==
    LET w == drv[a].write IN
    /\ drv[a].pc = "write" /\ writes[w].result # "none"
    /\ Outcome(a, writes[w].result)
    /\ Leaves(w)
    /\ writes' = [writes EXCEPT ![w] = Over]
    /\ UNCHANGED <<direct, crowd, caller, calls, cached, late, queue, active, sent>>

WaitAbandoned(a) ==
    LET w == drv[a].write IN
    /\ ~direct
    /\ drv[a].pc = "write"
    /\ signals \cap {<<"stop", a>>, <<"command", writes[w].command>>} # {}
    /\ Reply(a, "closed")
    /\ Leaves(w)
    /\ UNCHANGED <<direct, crowd, caller, calls, cached, late, writes, queue, active, sent>>

\* teardown, after the close notification, which is one more write.
Teardown(a) ==
    /\ drv[a].pc = "run" /\ <<"stop", a>> \in signals
    /\ drv' = [drv EXCEPT ![a] = [pc |-> "done", pending |-> NoCommand, write |-> 0]]
    /\ UNCHANGED <<direct, crowd, caller, calls, cached, cmd, late, writes, queue, active, past, signals, sent>>

Close(a) ==
    /\ <<"stop", a>> \notin signals /\ a \in Restless
    /\ cancelWrite(<<"stop", a>>)
    /\ UNCHANGED <<direct, crowd, caller, calls, cached, cmd, late, drv, writes, queue, active, sent>>

-----------------------------------------------------------------------------
(* The socket *)

\* startWrite: a write that was cancelled, or is late, does not reach the socket.
Refusal(w) ==
    IF Signals(w) \cap signals # {} THEN "closed" ELSE IF writes[w].expired THEN "again" ELSE "none"

StartWrite ==
    LET w == Head(queue) IN
    /\ queue # <<>> /\ active = 0
    /\ queue' = Tail(queue)
    /\ \/ /\ Refusal(w) # "none"
          /\ writes' = [writes EXCEPT ![w].result = Refusal(w)]
          /\ UNCHANGED <<active, past>>
       \/ /\ Refusal(w) = "none"
          /\ active' = w /\ past' = FALSE
          /\ UNCHANGED writes
    /\ UNCHANGED <<direct, crowd, caller, calls, cached, cmd, late, drv, signals, sent>>

\* writeTo and the end of writeNow: a write that is interrupted sends nothing.
EndWrite ==
    /\ active # 0
    /\ \/ /\ writes' = [writes EXCEPT ![active].result = "ok"]
          /\ sent' = [sent EXCEPT ![writes[active].data] = @ + 1]
       \/ /\ past
          /\ writes' = [writes EXCEPT ![active].result = "again"]
          /\ UNCHANGED sent
    /\ active' = 0 /\ past' = FALSE
    /\ UNCHANGED <<direct, crowd, caller, calls, cached, cmd, late, drv, queue, signals>>

Init ==
    /\ crowd \in Crowds
    /\ direct \in BOOLEAN
    /\ direct => Cardinality({ConnOf[c] : c \in crowd}) = 1
    /\ caller = [c \in Callers |-> Idle]
    /\ calls = [c \in Callers |-> 0]
    /\ cached = [a \in Conns |-> First(a)]
    /\ cmd = [k \in Commands |-> [data |-> NoCommand, result |-> "none"]]
    /\ late = [a \in Conns |-> "none"]
    /\ drv = [a \in Conns |-> [pc |-> "run", pending |-> NoCommand, write |-> 0]]
    /\ writes = <<>> /\ queue = <<>> /\ active = 0 /\ past = FALSE
    /\ signals = {}
    /\ sent = [d \in Callers \X {1} |-> 0]

Next ==
    \/ \E c \in Callers : Write(c) \/ Offer(c) \/ TakeReply(c) \/ GiveUp(c)
    \/ \E a \in Conns : \/ SetWriteDeadline(a) \/ DeadlinePasses(a) \/ ClearDeadline(a)
                        \/ Pending(a) \/ Send(a) \/ WriteReturns(a) \/ WaitAbandoned(a)
                        \/ Teardown(a) \/ Close(a)
    \/ LimitPasses \/ StartWrite \/ EndWrite

\* The goroutines run, and a write ends once its deadline has passed.
Driver(a) == WriteReturns(a) \/ WaitAbandoned(a) \/ Teardown(a)
Writer == StartWrite \/ LimitPasses \/ (past /\ EndWrite)

Spec ==
    /\ Init /\ [][Next]_vars
    /\ \A c \in Callers : WF_vars(GiveUp(c))
    /\ \A a \in Conns : WF_vars(Driver(a))
    /\ WF_vars(Writer)

-----------------------------------------------------------------------------

\* A datagram is sent at most once, however often its command is tried again,
\* and a Write that reports success has sent its own.
WriteOutcome ==
    /\ \A d \in DOMAIN sent : sent[d] <= 1
    /\ \A c \in Callers : caller[c].outcome = "ok" => sent[<<c, 1>>] = 1

\* A write is interrupted only for its own sake: its deadline or the second it
\* has is over, its caller gave up or its association was closed.  The end of
\* another association's write, noticed late, never cuts it off.
InterruptOwn ==
    active # 0 /\ past => writes[active].expired \/ Signals(active) \cap signals # {}

\* Close ends the driver and every Write on the association, even when the
\* socket blocks.
CloseDue(a) ==
    /\ <<"stop", a>> \in signals
    /\ drv[a].pc # "done" \/ \E c \in Callers : ConnOf[c] = a /\ caller[c].pc # "idle"
=============================================================================
