------------------------------- MODULE MCWaits -------------------------------
(*****************************************************************************)
(* What a transfer waits for: activity, two descriptors, a socket call with  *)
(* a timeout of its own, and the child of an EXEC address. Each behaviour is *)
(* of one of them.                                                           *)
(*****************************************************************************)
EXTENDS IdleClock

CONSTANTS t1, t2, w1, w2

VARIABLES
    pick,           \* the component that runs
    v1, v2, v3, v4, v5, v6, v7, v8, v9, v10, v11, v12, v13, v14, v15, v16   \* its variables, unless it is IdleClock

shared == <<pick, v1, v2, v3, v4, v5, v6, v7, v8, v9, v10, v11, v12, v13, v14, v15, v16>>
all == <<vars, shared>>

\* Two transfers that come and go, and one whose workers race its watcher.
Cases == {[starts |-> {t1, t2}, moves |-> {}], [starts |-> {t1}, moves |-> {t1}]}

X == INSTANCE ExecChild WITH
        endClose <- v1, pc <- v2, asked <- v3, pid <- v4, proc <- v5, reaper <- v6,
        table <- v7, released <- v8, spared <- v9, locked <- v10, called <- v11,
        cancelled <- v12, snapshot <- v13, Children <- {"a", "b"},
        Session <- [c \in {"a", "b"} |-> "s"], Signals <- [c \in {"a", "b"} |-> 1],
        Pids <- {1, 2}, MaxPids <- 1
W == INSTANCE PollWait WITH
        masked <- v1, src <- v2, dst <- v3, done <- v4, pc <- v5, srcReady <- v6,
        dstReady <- v7, omitSrc <- v8, omitDst <- v9
Z == INSTANCE TimeoutConn WITH
        op <- v1, enabled <- v2, external <- v3, setting <- v4, old <- v5, socket <- v6,
        now <- v7, pc <- v8, toSet <- v9, own <- v10, written <- v11, moved <- v12,
        counted <- v13, inForce <- v14, result <- v15, sets <- v16, MaxTime <- 3,
        MaxBytes <- 3, Size <- 2, Timeout <- 1, MaxSets <- 2

\* What a component with fewer variables leaves alone.
Beyond16 == <<pick, vars>>
Beyond13 == <<Beyond16, v14, v15, v16>>
Beyond9 == <<Beyond13, v10, v11, v12, v13>>

\* The initial state IdleClock keeps while another component runs.
AtRest == Init /\ cfg = CHOOSE c \in Configs : TRUE

EveryInit ==
    \/ pick = "idle" /\ Init /\ v1 = 0 /\ v2 = 0 /\ v3 = 0 /\ v4 = 0 /\ v5 = 0 /\ v6 = 0 /\
       v7 = 0 /\ v8 = 0 /\ v9 = 0 /\ v10 = 0 /\ v11 = 0 /\ v12 = 0 /\ v13 = 0 /\ v14 = 0 /\
       v15 = 0 /\ v16 = 0
    \/ pick = "exec" /\ X!Init /\ AtRest /\ v14 = 0 /\ v15 = 0 /\ v16 = 0
    \/ pick = "poll" /\ W!Init /\ AtRest /\ v10 = 0 /\ v11 = 0 /\ v12 = 0 /\ v13 = 0 /\
       v14 = 0 /\ v15 = 0 /\ v16 = 0
    \/ pick = "timeout" /\ Z!Init /\ AtRest

EveryNext ==
    \/ pick = "idle" /\ Next /\ UNCHANGED shared
    \/ pick = "exec" /\ X!Next /\ UNCHANGED Beyond13
    \/ pick = "poll" /\ W!Next /\ UNCHANGED Beyond9
    \/ pick = "timeout" /\ Z!Next /\ UNCHANGED Beyond16

\* The fairness of each component's module, one goroutine or clock of the component that
\* runs per line.
Thread1 ==
    \/ pick = "idle" /\ Watcher(t1) /\ UNCHANGED shared
    \/ pick = "poll" /\ W!Loop /\ UNCHANGED Beyond9
    \/ pick = "timeout" /\ Z!Calling /\ UNCHANGED Beyond16
    \/ pick = "exec" /\ X!Closer("a") /\ UNCHANGED Beyond13
Thread2 ==
    \/ pick = "idle" /\ Watcher(t2) /\ UNCHANGED shared
    \/ pick = "timeout" /\ Z!SetOnSocket /\ UNCHANGED Beyond16
    \/ pick = "exec" /\ X!Closer("b") /\ UNCHANGED Beyond13
Thread3 ==
    \/ pick = "idle" /\ Toucher(t1, w1) /\ UNCHANGED shared
    \/ pick = "timeout" /\ Z!Tick /\ UNCHANGED Beyond16
    \/ pick = "exec" /\ X!Reaper("a") /\ UNCHANGED Beyond13
Thread4 ==
    \/ pick = "idle" /\ Toucher(t1, w2) /\ UNCHANGED shared
    \/ pick = "exec" /\ X!Reaper("b") /\ UNCHANGED Beyond13
Thread5 ==
    \/ pick = "idle" /\ Pass /\ UNCHANGED shared
    \/ pick = "exec" /\ X!CancelCallback("a") /\ UNCHANGED Beyond13
Thread6 ==
    \/ pick = "idle" /\ Run /\ UNCHANGED shared
    \/ pick = "exec" /\ X!CancelCallback("b") /\ UNCHANGED Beyond13
Thread7 ==
    \/ pick = "poll" /\ W!Confirm /\ UNCHANGED Beyond9

\* The last is strongly fair: the second poll is not interrupted for ever.
EverySpec ==
    /\ EveryInit /\ [][EveryNext]_all
    /\ WF_all(Thread1) /\ WF_all(Thread2) /\ WF_all(Thread3) /\ WF_all(Thread4)
    /\ WF_all(Thread5) /\ WF_all(Thread6) /\ SF_all(Thread7)

-----------------------------------------------------------------------------

\* The record layer of TLS is told of its own deadlines only, never of rcvtimeo or
\* sndtimeo, and of every byte that passed the socket.
OwnTimeoutHidden == pick = "timeout" => Z!OwnTimeoutHidden

\* A pid is in a signal table only while somebody will take it out: a child that could not
\* be set up, or that is gone, is not signalled.
RegistrationEnds == pick = "exec" => X!RegistrationEnds

\* When poll's caller decides to wait again nothing makes that wait end at once.
NoSpin == [][pick = "poll" /\ W!Confirm /\ v5' = "wait" => ~W!Immediate']_all

\* A cancel that arrives before end-close has finished deciding kills the EXEC child, in the
\* window between releaseCancel's two looks at the context as well; Close ends.
Due4(c) == pick = "exec" /\ (X!KillDue(c) \/ X!CloseDue(c))

\* What ends: a quiet transfer and the clock itself, a wait whose descriptors are ready or
\* gone, and a call whose deadline is left alone.
Due1 ==
    \/ pick = "idle" /\ QuietDue(t1)
    \/ pick = "poll" /\ W!HangupDue
    \/ pick = "timeout" /\ Z!CallDue
Due2 ==
    \/ pick = "idle" /\ QuietDue(t2)
    \/ pick = "poll" /\ W!ReadyDue
Due3 == pick = "idle" /\ StopDue

\* No wait lasts once its end is due, and none is a busy loop or on an empty wait set.
WaitsEnd ==
    /\ []<>~Due1 /\ []<>~Due2 /\ []<>~Due3 /\ []<>~Due4("a") /\ []<>~Due4("b")
    /\ NoSpin /\ [](pick = "poll" => W!WaitSetNotEmpty)
==============================================================================
