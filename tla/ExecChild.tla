----------------------------- MODULE ExecChild -----------------------------
(***************************************************************************)
(* A forked EXEC or SYSTEM child from start to reaping                     *)
(* (internal/xio/execopen/exec.go, internal/xio/signal_pass_unix.go).      *)
(* Three parties touch it: the opener, which starts it, registers its pid  *)
(* for signal pass-through and later closes the endpoint; the goroutine of *)
(* watchWait, which reaps it and unregisters the pid; and the callback by  *)
(* which exec.CommandContext kills it when the context is cancelled.  The  *)
(* kernel may give the number of a reaped process to the next one.         *)
(***************************************************************************)
EXTENDS Naturals, Sequences, FiniteSets

CONSTANTS
    Children,       \* EXEC children of one run
    Pids,           \* process numbers the kernel hands out
    Session,        \* child -> the logical session whose table it uses
    Signals,        \* child -> how many sighup options it carries
    MaxPids         \* slots of one table (socatMaxPids)

VARIABLES
    endClose,       \* per child: is end-close set?
    pc,             \* per child: where its opener or closer is
    asked,          \* per child: sighup options registered so far
    pid,            \* per child: its process number, 0 before Start
    proc,           \* per child: "none", "running", "zombie", "reaped"
    reaper,         \* per child: watchWait's goroutine
    table,          \* per session: the registered pids
    released,       \* per child: execContextCancel.released
    spared,         \* per child, a history variable: did releaseCancel return under a live context?
    locked,         \* per child: is execContextCancel.mu held by the closer?
    called,         \* per child: has CommandContext's callback run?
    cancelled,      \* is the context done?
    snapshot        \* pids collected for a signal that is being forwarded

vars == <<endClose, pc, asked, pid, proc, reaper, table, released, spared, locked, called, cancelled, snapshot>>

Sessions == {Session[c] : c \in Children}
Registered == UNION {{table[s][i] : i \in DOMAIN table[s]} : s \in Sessions}

Init ==
    /\ endClose \in [Children -> BOOLEAN]
    /\ pc = [c \in Children |-> "start"]
    /\ asked = [c \in Children |-> 0]
    /\ pid = [c \in Children |-> 0]
    /\ proc = [c \in Children |-> "none"]
    /\ reaper = [c \in Children |-> "none"]
    /\ table = [s \in Sessions |-> <<>>]
    /\ released = [c \in Children |-> FALSE]
    /\ spared = [c \in Children |-> FALSE]
    /\ locked = [c \in Children |-> FALSE]
    /\ called = [c \in Children |-> FALSE]
    /\ cancelled = FALSE
    /\ snapshot = {}

Goto(c, from, to) == pc[c] = from /\ pc' = [pc EXCEPT ![c] = to]

----------------------------------------------------------------------------
(* The opener.                                                             *)

\* start: armCancel, then cmd.Start, which refuses a context that is done.
Start(c) ==
    /\ ~cancelled
    /\ Goto(c, "start", "register")
    /\ \E p \in Pids \ {pid[d] : d \in {d \in Children : proc[d] \in {"running", "zombie"}}} :
          pid' = [pid EXCEPT ![c] = p]
    /\ proc' = [proc EXCEPT ![c] = "running"]
    /\ UNCHANGED <<endClose, asked, reaper, table, released, spared, locked, called, cancelled, snapshot>>

StartFails(c) ==
    /\ Goto(c, "start", "failed")
    /\ UNCHANGED <<endClose, asked, pid, proc, reaper, table, released, spared, locked, called, cancelled, snapshot>>

\* RegisterExecParentSignals: one slot for every option, or killWait.
Register(c) ==
    /\ asked[c] < Signals[c]
    /\ IF Len(table[Session[c]]) >= MaxPids
       THEN Goto(c, "register", "kill") /\ UNCHANGED <<asked, table>>
       ELSE /\ pc[c] = "register"
            /\ table' = [table EXCEPT ![Session[c]] = Append(@, pid[c])]
            /\ asked' = [asked EXCEPT ![c] = @ + 1]
            /\ UNCHANGED pc
    /\ UNCHANGED <<endClose, pid, proc, reaper, released, spared, locked, called, cancelled, snapshot>>

\* finishStream: the wrapped stream is ready and watchWait starts, or killWait.
Finish(c) ==
    /\ asked[c] = Signals[c]
    /\ Goto(c, "register", "open")
    /\ reaper' = [reaper EXCEPT ![c] = "wait"]
    /\ UNCHANGED <<endClose, asked, pid, proc, table, released, spared, locked, called, cancelled, snapshot>>

FinishFails(c) ==
    /\ asked[c] = Signals[c]
    /\ Goto(c, "register", "kill")
    /\ UNCHANGED <<endClose, asked, pid, proc, reaper, table, released, spared, locked, called, cancelled, snapshot>>

\* killWait: kill and reap, then drop the registrations.
KillWait(c) ==
    /\ Goto(c, "kill", "unregister")
    /\ proc' = [proc EXCEPT ![c] = "reaped"]
    /\ UNCHANGED <<endClose, asked, pid, reaper, table, released, spared, locked, called, cancelled, snapshot>>

\* UnregisterChildSignals goes through the tables of every session.
UnregisterChildSignals(p) ==
    table' = [s \in Sessions |-> SelectSeq(table[s], LAMBDA q : q # p)]

\* Reaped by the failed open, but left in the table (mutant).
KillWaitUnregisterSkipped(c) ==
    /\ Goto(c, "unregister", "failed")
    /\ UNCHANGED <<endClose, asked, pid, proc, reaper, table, released, spared, locked, called, cancelled, snapshot>>

KillWaitUnregister(c) ==
    /\ Goto(c, "unregister", "failed")
    /\ UnregisterChildSignals(pid[c])
    /\ UNCHANGED <<endClose, asked, pid, proc, reaper, released, spared, locked, called, cancelled, snapshot>>

----------------------------------------------------------------------------
(* watchWait.                                                              *)

Reap(c) ==
    /\ reaper[c] = "wait"
    /\ proc[c] = "zombie"
    /\ proc' = [proc EXCEPT ![c] = "reaped"]
    /\ reaper' = [reaper EXCEPT ![c] = "unregister"]
    /\ UNCHANGED <<endClose, pc, asked, pid, table, released, spared, locked, called, cancelled, snapshot>>

ReaperUnregister(c) ==
    /\ reaper[c] = "unregister"
    /\ UnregisterChildSignals(pid[c])
    /\ reaper' = [reaper EXCEPT ![c] = "done"]
    /\ UNCHANGED <<endClose, pc, asked, pid, proc, released, spared, locked, called, cancelled, snapshot>>

----------------------------------------------------------------------------
(* closeAfterTransfer.  Process.Signal and Process.Kill are refused once   *)
(* the process was reaped, so they reach this child or nobody.             *)

CloseBegin(c) ==
    /\ Goto(c, "open", IF endClose[c] THEN "release" ELSE "await")
    /\ UNCHANGED <<endClose, asked, pid, proc, reaper, table, released, spared, locked, called, cancelled, snapshot>>

\* releaseCancel, the first look at the context, with the lock taken.
ReleaseCancel(c) ==
    /\ IF cancelled
       THEN Goto(c, "release", "poll") /\ UNCHANGED <<released, locked>>
       ELSE /\ Goto(c, "release", "recheck")
            /\ released' = [released EXCEPT ![c] = TRUE]
            /\ locked' = [locked EXCEPT ![c] = TRUE]
    /\ UNCHANGED <<endClose, asked, pid, proc, reaper, table, spared, called, cancelled, snapshot>>

\* The lock given back without a second look (mutant).
ReleaseRecheckSkipped(c) ==
    /\ Goto(c, "recheck", "poll")
    /\ spared' = [spared EXCEPT ![c] = ~cancelled]
    /\ locked' = [locked EXCEPT ![c] = FALSE]
    /\ UNCHANGED <<endClose, asked, pid, proc, reaper, table, released, called, cancelled, snapshot>>

\* releaseCancel, the second look: a cancel in between wins.
ReleaseRecheck(c) ==
    /\ Goto(c, "recheck", "poll")
    /\ released' = [released EXCEPT ![c] = ~cancelled]
    /\ spared' = [spared EXCEPT ![c] = ~cancelled]
    /\ locked' = [locked EXCEPT ![c] = FALSE]
    /\ UNCHANGED <<endClose, asked, pid, proc, reaper, table, called, cancelled, snapshot>>

\* end-close does not wait for the child.
Poll(c) ==
    /\ Goto(c, "poll", "closed")
    /\ UNCHANGED <<endClose, asked, pid, proc, reaper, table, released, spared, locked, called, cancelled, snapshot>>

\* The child ended while the closer waited.
Awaited(c) ==
    /\ pc[c] \in {"await", "term", "killed"}
    /\ reaper[c] = "done"
    /\ pc' = [pc EXCEPT ![c] = "closed"]
    /\ UNCHANGED <<endClose, asked, pid, proc, reaper, table, released, spared, locked, called, cancelled, snapshot>>

\* The wait ran out: SIGTERM, which the child may or may not obey.
Terminate(c) ==
    /\ Goto(c, "await", "term")
    /\ UNCHANGED <<endClose, asked, pid, proc, reaper, table, released, spared, locked, called, cancelled, snapshot>>

Died(c) == IF proc[c] = "running" THEN [proc EXCEPT ![c] = "zombie"] ELSE proc

\* The second wait ran out too: SIGKILL, then wait for watchWait.
Kill(c) ==
    /\ Goto(c, "term", "killed")
    /\ proc' = Died(c)
    /\ UNCHANGED <<endClose, asked, pid, reaper, table, released, spared, locked, called, cancelled, snapshot>>

----------------------------------------------------------------------------
(* The child, the context and signals.                                     *)

Exit(c) ==
    /\ proc[c] = "running"
    /\ proc' = [proc EXCEPT ![c] = "zombie"]
    /\ UNCHANGED <<endClose, pc, asked, pid, reaper, table, released, spared, locked, called, cancelled, snapshot>>

Cancel ==
    /\ ~cancelled
    /\ cancelled' = TRUE
    /\ UNCHANGED <<endClose, pc, asked, pid, proc, reaper, table, released, spared, locked, called, snapshot>>

\* cmd.Cancel as armCancel replaced it, run by CommandContext.
CancelCallback(c) ==
    /\ cancelled
    /\ proc[c] # "none"
    /\ ~called[c]
    /\ ~locked[c]
    /\ called' = [called EXCEPT ![c] = TRUE]
    /\ proc' = IF released[c] THEN proc ELSE Died(c)
    /\ UNCHANGED <<endClose, pc, asked, pid, reaper, table, released, spared, locked, cancelled, snapshot>>

\* forwardRegisteredChildSignal collects under the lock and kills after it;
\* without a registered pid the signal ends the program.
Collect ==
    /\ snapshot = {}
    /\ Registered # {}
    /\ snapshot' = Registered
    /\ UNCHANGED <<endClose, pc, asked, pid, proc, reaper, table, released, spared, locked, called, cancelled>>

\* kill(2) by number: whoever has it now may die of it, or survive.
Forward ==
    /\ snapshot # {}
    /\ \E dead \in SUBSET {c \in Children : pid[c] \in snapshot /\ proc[c] = "running"} :
          proc' = [c \in Children |-> IF c \in dead THEN "zombie" ELSE proc[c]]
    /\ snapshot' = {}
    /\ UNCHANGED <<endClose, pc, asked, pid, reaper, table, released, spared, locked, called, cancelled>>

Next ==
    \/ \E c \in Children :
          \/ Start(c) \/ StartFails(c) \/ Register(c) \/ Finish(c) \/ FinishFails(c)
          \/ KillWait(c) \/ KillWaitUnregister(c)
          \/ Reap(c) \/ ReaperUnregister(c)
          \/ CloseBegin(c) \/ ReleaseCancel(c) \/ ReleaseRecheck(c) \/ Poll(c)
          \/ Awaited(c) \/ Terminate(c) \/ Kill(c)
          \/ Exit(c) \/ CancelCallback(c)
    \/ Cancel \/ Collect \/ Forward

\* Goroutines run, timers fire; nothing obliges a child to exit, a session to
\* end, or anyone to cancel or to signal.
Reaper(c) == Reap(c) \/ ReaperUnregister(c)
Closer(c) ==
    \/ ReleaseCancel(c) \/ ReleaseRecheck(c) \/ Poll(c) \/ Awaited(c) \/ Terminate(c) \/ Kill(c)
Fairness ==
    \A c \in Children : WF_vars(Reaper(c)) /\ WF_vars(CancelCallback(c)) /\ WF_vars(Closer(c))

Spec == Init /\ [][Next]_vars /\ Fairness

----------------------------------------------------------------------------

\* A pid stays in a signal table only while somebody is still going to take it
\* out, and never beyond the slots of the table: a failed open (killWait) and a
\* close without end-close both leave a reaped child and no registration of it
\* that another child does not account for.
RegistrationEnds ==
    /\ \A s \in Sessions :
          /\ Len(table[s]) <= MaxPids
          /\ \A i \in DOMAIN table[s] :
                \E c \in Children :
                    /\ Session[c] = s
                    /\ pid[c] = table[s][i]
                    /\ pc[c] \in {"register", "kill", "unregister"} \/ reaper[c] \in {"wait", "unregister"}
    /\ \A c \in Children :
          pc[c] = "failed" \/ (pc[c] = "closed" /\ ~endClose[c]) => proc[c] \in {"none", "reaped"}

\* A cancel that arrives before end-close has finished deciding kills the child,
\* in the window between releaseCancel's two looks at the context as well.
KillDue(c) ==
    /\ cancelled /\ ~spared[c] /\ proc[c] = "running"
    /\ pc[c] \in {"open", "await", "term", "killed", "release", "recheck", "poll", "closed"}

\* Closing the endpoint comes to an end although the child ignores SIGTERM.
CloseDue(c) == pc[c] \in {"await", "term", "killed"}
=============================================================================
