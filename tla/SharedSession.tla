---------------------------- MODULE SharedSession ----------------------------
(***************************************************************************)
(* The stream that serialized fork sessions reuse: Shared and sessionWrap  *)
(* of internal/relay/stream.go.                                            *)
(*                                                                         *)
(* Sessions come one after the other (leftMu, module ForkServe).  In each  *)
(* a worker reads the shared stream through a sessionWrap while the        *)
(* transfer may be cancelled at any time, which closes the wrap and pokes  *)
(* the stream's deadline but leaves the stream open for the next session.  *)
(* What a session takes from the stream and cannot use any more must reach *)
(* the next one.  The input is the numbers 1, 2, ...: byte k is number k.  *)
(***************************************************************************)
EXTENDS Integers, Sequences

CONSTANTS Input,      \* how many bytes the stream produces before its end
          Buffer,     \* the size of a read
          Sessions,   \* how many sessions there are
          Kinds       \* how the stream's reads can be interrupted: "poll" (a
                      \* descriptor that ignores deadlines, like a PTY), "file"
                      \* (a descriptor with deadlines), "deadline", or
                      \* "background" (nothing interrupts them)

ASSUME SharedAssumption ==
  /\ Input \in Nat /\ Buffer \in Nat \ {0} /\ Sessions \in Nat \ {0}
  /\ Kinds \subseteq {"poll", "file", "deadline", "background"}

VARIABLES
  kind,       \* the stream's kind
  arrived,    \* bytes the peer has sent
  taken,      \* bytes read from the underlying stream
  deadline,   \* the stream's read deadline: "none", "slice" (50 ms) or "poke"
  pending,    \* Shared.pending
  pendErr,    \* Shared.err holds the end of the stream
  reading,    \* Shared.reading: a background read is in flight
  session,    \* the number of the current session
  closed,     \* its sessionWrap is closed
  pc,         \* its worker: "wait", "take", "poll", "read", "after", "background",
              \* "joined" or "ended"
  chunk,      \* what the worker's own Read returned: bytes
  readErr,    \* and its error: "none", "timeout", "EOF"
  got         \* everything the workers' sessionWrap.Read calls have returned

vars == <<kind, arrived, taken, deadline, pending, pendErr, reading, session, closed, pc, chunk,
          readErr, got>>

Bytes(from, n) == [k \in 1 .. n |-> from + k]
Least(a, b) == IF a <= b THEN a ELSE b
Available == arrived - taken
AtEnd == taken = Input
Polls == kind \in {"poll", "file"}

Init ==
  /\ kind \in Kinds /\ arrived = 0 /\ taken = 0 /\ deadline = "none"
  /\ pending = <<>> /\ pendErr = FALSE /\ reading = FALSE
  /\ session = 1 /\ closed = FALSE /\ pc = "wait"
  /\ chunk = <<>> /\ readErr = "none" /\ got = <<>>

-----------------------------------------------------------------------------
(* The peer sends; a cancelled transfer closes the wrap: close(done), then *)
(* the deadline that wakes a blocked call.                                 *)

Arrive ==
  /\ arrived < Input /\ arrived' = arrived + 1
  /\ UNCHANGED <<kind, taken, deadline, pending, pendErr, reading, session, closed, pc, chunk,
                 readErr, got>>

Close ==
  /\ ~closed
  /\ closed' = TRUE
  /\ deadline' = (IF kind \in {"file", "deadline"} THEN "poke" ELSE "none")
  /\ UNCHANGED <<kind, arrived, taken, pending, pendErr, reading, session, pc, chunk, readErr, got>>

(* Transfer has returned; the next session's newSessionWrap drops the      *)
(* deadline the last one left.                                             *)
NextSession ==
  /\ pc = "ended" /\ closed /\ session < Sessions
  /\ session' = session + 1 /\ closed' = FALSE /\ pc' = "wait"
  /\ deadline' = "none"
  /\ UNCHANGED <<kind, arrived, taken, pending, pendErr, reading, chunk, readErr, got>>

-----------------------------------------------------------------------------
(* The worker *)

Goto(l) == pc' = l /\ UNCHANGED <<kind, arrived, session, closed>>

(* copyBuffered polls the descriptor before it reads, unless sharedPending *)
(* says an earlier session left input: the poll would not see that.        *)
Wait ==
  /\ pc = "wait"
  /\ LET left == pending # <<>> \/ pendErr
     IN /\ Polls /\ ~left => closed \/ Available > 0 \/ AtEnd
        /\ Goto(IF Polls /\ ~left /\ closed THEN "ended" ELSE "take")
  /\ UNCHANGED <<taken, deadline, pending, pendErr, reading, chunk, readErr, got>>

(* The head of the sessionWrap.Read loop: closed, then Shared.take.        *)
TakeClosed ==
  /\ pc = "take" /\ closed
  /\ Goto("ended")
  /\ UNCHANGED <<taken, deadline, pending, pendErr, reading, chunk, readErr, got>>

TakePending ==
  /\ pc = "take" /\ ~closed /\ pending # <<>>
  /\ LET n == Least(Buffer, Len(pending))
     IN /\ got' = got \o SubSeq(pending, 1, n)
        /\ pending' = SubSeq(pending, n + 1, Len(pending))
  /\ Goto("wait")
  /\ UNCHANGED <<taken, deadline, pendErr, reading, chunk, readErr>>

TakeErr ==
  /\ pc = "take" /\ ~closed /\ pending = <<>> /\ pendErr
  /\ pendErr' = FALSE
  /\ Goto("ended")
  /\ UNCHANGED <<taken, deadline, pending, reading, chunk, readErr, got>>

TakeNothing ==
  /\ pc = "take" /\ ~closed /\ pending = <<>> /\ ~pendErr
  /\ Goto(IF kind = "background" THEN "background" ELSE IF Polls THEN "poll" ELSE "read")
  /\ deadline' = (IF kind = "deadline" THEN "slice" ELSE deadline)
  /\ UNCHANGED <<taken, pending, pendErr, reading, chunk, readErr, got>>

(* waitPollRead for 50 ms, then closed() once more.                        *)
PollRead ==
  /\ pc = "poll"
  /\ Goto(IF closed THEN "ended" ELSE IF Available > 0 \/ AtEnd THEN "read" ELSE "take")
  /\ UNCHANGED <<taken, deadline, pending, pendErr, reading, chunk, readErr, got>>

(* s.inner.Read(p): some of what has arrived, the end of the stream, or    *)
(* the deadline.                                                           *)
InnerData ==
  /\ pc = "read"
  /\ \/ \E n \in 1 .. Least(Buffer, Available) :
          /\ chunk' = Bytes(taken, n) /\ taken' = taken + n /\ readErr' = "none"
     \/ AtEnd /\ chunk' = <<>> /\ readErr' = "EOF" /\ UNCHANGED taken
  /\ Goto("after")
  /\ UNCHANGED <<deadline, pending, pendErr, reading, got>>

InnerTimeout ==
  /\ pc = "read" /\ deadline # "none"
  /\ chunk' = <<>> /\ readErr' = "timeout"
  /\ Goto("after")
  /\ UNCHANGED <<taken, deadline, pending, pendErr, reading, got>>

(* After the Read: a closed session keeps the bytes for the next.          *)
AfterReadDrops ==
  /\ pc = "after" /\ closed
  /\ chunk' = <<>>
  /\ Goto("ended")
  /\ UNCHANGED <<taken, deadline, pending, pendErr, reading, readErr, got>>

AfterReadClosed ==
  /\ pc = "after" /\ closed
  /\ pending' = pending \o chunk /\ chunk' = <<>>
  /\ Goto("ended")
  /\ UNCHANGED <<taken, deadline, pendErr, reading, readErr, got>>

AfterReadOpen ==
  /\ pc = "after" /\ ~closed
  /\ got' = got \o chunk /\ chunk' = <<>>
  /\ deadline' = (IF Polls THEN deadline ELSE "none")
  /\ Goto(CASE readErr = "EOF" -> "ended"
            [] readErr = "timeout" -> "take"
            [] readErr = "none" -> "wait")
  /\ UNCHANGED <<taken, pending, pendErr, reading, readErr>>

StartBackground ==
  /\ pc = "background"
  /\ IF pending # <<>> \/ pendErr
     THEN Goto("take") /\ UNCHANGED reading
     ELSE Goto("joined") /\ reading' = TRUE
  /\ UNCHANGED <<taken, deadline, pending, pendErr, chunk, readErr, got>>

JoinBackground ==
  /\ pc = "joined"
  /\ \/ ~reading /\ Goto("take")
     \/ closed /\ Goto("ended")
  /\ UNCHANGED <<taken, deadline, pending, pendErr, reading, chunk, readErr, got>>

(* The background goroutine's Read returns and it stores the outcome.      *)
BackgroundRead ==
  /\ reading /\ reading' = FALSE
  /\ \/ \E n \in 1 .. Least(Buffer, Available) :
          pending' = pending \o Bytes(taken, n) /\ taken' = taken + n /\ pendErr' = FALSE
     \/ AtEnd /\ pendErr' = TRUE /\ UNCHANGED <<taken, pending>>
  /\ UNCHANGED <<kind, arrived, deadline, session, closed, pc, chunk, readErr, got>>

-----------------------------------------------------------------------------
Worker ==
  \/ Wait \/ TakeClosed \/ TakePending \/ TakeErr \/ TakeNothing \/ PollRead \/ InnerData
  \/ InnerTimeout \/ AfterReadClosed \/ AfterReadOpen \/ StartBackground \/ JoinBackground

Terminated == pc = "ended" /\ session = Sessions /\ closed /\ UNCHANGED vars

Next == Arrive \/ Close \/ NextSession \/ Worker \/ BackgroundRead \/ Terminated

Spec == Init /\ [][Next]_vars

(***************************************************************************)
(* Fairness: the worker runs, a read with input and no expired deadline    *)
(* returns it rather than time out for ever, the background read ends when *)
(* there is input, and a session that is over is followed by the next.     *)
(***************************************************************************)
DataArrives == deadline # "poke" /\ InnerData

FairSpec ==
  /\ Spec /\ WF_vars(Worker) /\ SF_vars(DataArrives)
  /\ WF_vars(BackgroundRead) /\ WF_vars(NextSession)

-----------------------------------------------------------------------------
(* Types; what is left for a later session is never more than one read.    *)
TypeOK ==
  /\ kind \in Kinds /\ arrived \in 0 .. Input /\ taken \in 0 .. arrived
  /\ deadline \in {"none", "slice", "poke"} /\ readErr \in {"none", "timeout", "EOF"}
  /\ pending \in Seq(1 .. Input) /\ Len(pending) <= Buffer
  /\ {pendErr, reading, closed} \subseteq BOOLEAN /\ session \in 1 .. Sessions
  /\ pc \in {"wait", "take", "poll", "read", "after", "background", "joined", "ended"}
  /\ chunk \in Seq(1 .. Input) /\ got \in Seq(1 .. Input)

(* Nothing read from the shared stream is lost, repeated or reordered      *)
(* across sessions: what the sessions got, then what is kept for the next, *)
(* then what the worker has in hand is exactly what was taken.             *)
Conserved == TypeOK /\ got \o pending \o chunk = Bytes(0, taken)

(* Closing a session ends its worker, even one whose read nothing can      *)
(* interrupt.                                                              *)
CloseDue == closed /\ pc # "ended"

(* Input that has arrived reaches the session that is open, whether it is  *)
(* still in the stream or was left by an earlier session.                  *)
InputDue == Len(got) < arrived /\ ~closed /\ pc # "ended"
==============================================================================
