----------------------------- MODULE PollAccept -----------------------------
(***************************************************************************)
(* The two listeners that poll a raw descriptor themselves: vsockListener  *)
(* (internal/xio/netopen/vsock_linux.go), whose poll has no limit of its   *)
(* own and is ended by an eventfd, and rawListener (.../socket.go), which  *)
(* polls in short rounds, or not at all once net.FileListener has taken    *)
(* the socket over.  One goroutine accepts, another closes the listener    *)
(* and moves its deadline.  Descriptor numbers are not reused here.        *)
(***************************************************************************)
EXTENDS Naturals

CONSTANTS
    MaxTime,        \* the clock stops here; 0 as a deadline means none
    MaxCalls,       \* how often SetDeadline is called
    MaxPeers        \* how many peers connect

VARIABLES
    kind,           \* "vsock" or "raw"
    known,          \* raw: does net.FileListener know the family?
    closed,         \* was Close called?
    fd,             \* is the listener's own descriptor open?
    ln,             \* raw: "none", "open", "closed", the net.Listener that took over
    raw,            \* raw: FileListener is known not to work
    deadline,       \* the listener's own deadline
    lnDeadline,     \* the deadline of ln
    wake,           \* vsock: is the eventfd readable?
    now,
    pc,             \* the acceptor
    seen,           \* the deadline it polls with
    ready,          \* did its poll report an event?
    backlog,        \* peers waiting in the kernel's queue
    peers, calls,   \* connected peers, SetDeadline calls so far
    dropped         \* was an accepted connection closed again?

vars == <<kind, known, closed, fd, ln, raw, deadline, lnDeadline, wake, now, pc, seen, ready,
          backlog, peers, calls, dropped>>

Init ==
    /\ kind \in {"vsock", "raw"}
    /\ known \in (IF kind = "raw" THEN BOOLEAN ELSE {FALSE})
    /\ closed = FALSE
    /\ fd = TRUE
    /\ ln = "none"
    /\ raw = FALSE
    /\ deadline = 0
    /\ lnDeadline = 0
    /\ wake = FALSE
    /\ now = 0
    /\ pc = "idle"
    /\ seen = 0
    /\ ready = FALSE
    /\ backlog = 0
    /\ peers = 0
    /\ calls = 0
    /\ dropped = FALSE

Past(d) == d # 0 /\ now >= d

\* fileLn: the first use tries to hand the socket to net.FileListener, which
\* works on a duplicate; the duplicate may fail, and then nothing changes.
fileLn ==
    \/ /\ ln # "none" \/ raw \/ ~fd
       /\ UNCHANGED <<fd, ln, raw>>
    \/ /\ ln = "none" /\ ~raw /\ fd /\ known
       /\ fd' = FALSE
       /\ ln' = "open"
       /\ UNCHANGED raw
    \/ /\ ln = "none" /\ ~raw /\ fd /\ ~known
       /\ raw' = TRUE
       /\ UNCHANGED <<fd, ln>>
    \/ /\ ln = "none" /\ ~raw /\ fd
       /\ UNCHANGED <<fd, ln, raw>>

\* Accept: through ln where there is one, else the poll loop.
Accept ==
    /\ pc = "idle"
    /\ IF kind = "raw" THEN fileLn ELSE UNCHANGED <<fd, ln, raw>>
    /\ pc' = IF ln' # "none" THEN "ln" ELSE "loop"
    /\ UNCHANGED <<kind, known, closed, deadline, lnDeadline, wake, now, seen, ready, backlog, peers, calls, dropped>>

\* net.Listener.Accept returns a peer, the deadline's error or ErrClosed.
LnAccept ==
    /\ pc = "ln"
    /\ \/ backlog > 0 /\ ln = "open" /\ backlog' = backlog - 1
       \/ (ln = "closed" \/ Past(lnDeadline)) /\ UNCHANGED backlog
    /\ pc' = "idle"
    /\ UNCHANGED <<kind, known, closed, fd, ln, raw, deadline, lnDeadline, wake, now, seen, ready, peers, calls, dropped>>

\* The head of the loop reads descriptor and deadline under the lock.
Loop ==
    /\ pc = "loop"
    /\ seen' = deadline
    /\ pc' = IF ~fd \/ Past(deadline) THEN "idle" ELSE "poll"
    /\ UNCHANGED <<kind, known, closed, fd, ln, raw, deadline, lnDeadline, wake, now, ready, backlog, peers, calls, dropped>>

\* A poll that returns with an event; a closed descriptor is one, and so is
\* the eventfd, which vsock drains.
PollEvent ==
    /\ pc = "poll"
    /\ backlog > 0 \/ ~fd \/ wake
    /\ ready' = TRUE
    /\ wake' = FALSE
    /\ pc' = "check"
    /\ UNCHANGED <<kind, known, closed, fd, ln, raw, deadline, lnDeadline, now, seen, backlog, peers, calls, dropped>>

\* A poll that runs out: at its deadline, or for raw after each short round.
PollTimeout ==
    /\ pc = "poll"
    /\ kind = "raw" \/ Past(seen)
    /\ ready' = FALSE
    /\ pc' = "check"
    /\ UNCHANGED <<kind, known, closed, fd, ln, raw, deadline, lnDeadline, wake, now, seen, backlog, peers, calls, dropped>>

\* After the poll both look again.
Check ==
    /\ pc = "check"
    /\ pc' = CASE ~fd \/ Past(deadline) -> "idle"
               [] ready -> "accept"
               [] OTHER -> IF kind = "vsock" THEN "idle" ELSE "loop"
    /\ UNCHANGED <<kind, known, closed, fd, ln, raw, deadline, lnDeadline, wake, now, seen, ready, backlog, peers, calls, dropped>>

\* accept4: a peer, EAGAIN, or EBADF after a close; raw looks once more.
AcceptFd ==
    /\ pc = "accept"
    /\ \/ /\ fd /\ backlog > 0
          /\ backlog' = backlog - 1
          /\ pc' = IF kind = "raw" THEN "late" ELSE "idle"
       \/ /\ fd /\ backlog = 0
          /\ pc' = "loop"
          /\ UNCHANGED backlog
       \/ /\ ~fd
          /\ pc' = "idle"
          /\ UNCHANGED backlog
    /\ UNCHANGED <<kind, known, closed, fd, ln, raw, deadline, lnDeadline, wake, now, seen, ready, peers, calls, dropped>>

\* acceptRaw closes what it accepted while the listener was being closed.
Late ==
    /\ pc = "late"
    /\ pc' = "idle"
    /\ dropped' = (dropped \/ ~fd)
    /\ UNCHANGED <<kind, known, closed, fd, ln, raw, deadline, lnDeadline, wake, now, seen, ready, backlog, peers, calls>>

\* Close: vsock signals the eventfd before closing it.
Close ==
    /\ ~closed
    /\ closed' = TRUE
    /\ fd' = FALSE
    /\ ln' = IF ln = "open" THEN "closed" ELSE ln
    /\ wake' = (kind = "vsock")
    /\ UNCHANGED <<kind, known, raw, deadline, lnDeadline, now, pc, seen, ready, backlog, peers, calls, dropped>>

SetVsockDeadline(d) ==
    /\ kind = "vsock"
    /\ ~closed
    /\ deadline' = d
    /\ wake' = TRUE
    /\ UNCHANGED <<fd, ln, raw, lnDeadline>>

SetRawDeadline(d) ==
    /\ kind = "raw"
    /\ fileLn
    /\ IF ln' # "none"
       THEN lnDeadline' = d /\ UNCHANGED deadline
       ELSE deadline' = (IF fd THEN d ELSE deadline) /\ UNCHANGED lnDeadline
    /\ UNCHANGED wake

SetDeadline ==
    /\ calls < MaxCalls
    /\ calls' = calls + 1
    /\ \E d \in 0 .. MaxTime : SetVsockDeadline(d) \/ SetRawDeadline(d)
    /\ UNCHANGED <<kind, known, closed, now, pc, seen, ready, backlog, peers, dropped>>

Connect ==
    /\ peers < MaxPeers
    /\ peers' = peers + 1
    /\ backlog' = backlog + 1
    /\ UNCHANGED <<kind, known, closed, fd, ln, raw, deadline, lnDeadline, wake, now, pc, seen, ready, calls, dropped>>

Tick ==
    /\ now < MaxTime
    /\ now' = now + 1
    /\ UNCHANGED <<kind, known, closed, fd, ln, raw, deadline, lnDeadline, wake, pc, seen, ready, backlog, peers, calls, dropped>>

Next ==
    \/ Accept \/ LnAccept \/ Loop \/ PollEvent \/ PollTimeout \/ Check \/ AcceptFd \/ Late
    \/ Close \/ SetDeadline \/ Connect \/ Tick

\* The accepting goroutine runs and polls return; nobody has to call Accept,
\* Close or SetDeadline, and no peer has to connect.
Accepting == LnAccept \/ Loop \/ PollEvent \/ PollTimeout \/ Check \/ AcceptFd \/ Late
Fairness == WF_vars(Accepting)

Spec == Init /\ [][Next]_vars /\ Fairness

----------------------------------------------------------------------------

Deadline == IF ln = "none" THEN deadline ELSE lnDeadline

AcceptDue == pc # "idle" /\ (closed \/ Past(Deadline))

\* An Accept that waits returns once the listener is closed, and once the
\* deadline of the listener in use has passed, unless it is moved; a deadline
\* moved while the poll sleeps counts from then on.
AcceptReturns == []<>~AcceptDue

\* The socket has one owner at a time and none after Close; a connection is
\* taken and closed again only by an Accept that lost to Close, or that polled
\* the socket which fileLn meanwhile handed over.
OneSocketOwner ==
    /\ ~(fd /\ ln = "open")
    /\ closed => ~fd /\ ln # "open"
    /\ dropped => closed \/ ln # "none"
=============================================================================
