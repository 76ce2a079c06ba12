------------------------------- MODULE PollWait -------------------------------
(***************************************************************************)
(* waitReadableAndWritable of internal/relay/poll_unix.go: a worker waits  *)
(* until its source can be read and its destination written, without       *)
(* spinning on a descriptor that is ready or hung up already.              *)
(*                                                                         *)
(* Every round polls a wait set for at most 100 ms and then polls both     *)
(* descriptors with no timeout; the decision uses the second poll only.    *)
(* The peers change what the descriptors report at any time (a FIFO writer *)
(* hangs up and another one connects, a reader drains or goes away).       *)
(***************************************************************************)
EXTENDS Naturals

VARIABLES
  masked,    \* poll reports a hang-up on a descriptor it is asked nothing
             \* about: TRUE on Linux, FALSE on Darwin
  src, dst,  \* what the descriptors report: subsets of {"ready", "hup"}
  done,      \* ctx
  pc,        \* "wait" (first poll), "confirm" (second poll), or the result
  srcReady, dstReady, omitSrc, omitDst    \* as in the code

vars == <<masked, src, dst, done, pc, srcReady, dstReady, omitSrc, omitDst>>
flags == <<srcReady, dstReady, omitSrc, omitDst>>
Results == {"cancelled", "ready", "closedPipe", "sourceOver", "badFd", "failed"}

Init ==
  /\ masked \in BOOLEAN
  /\ src \in SUBSET {"ready", "hup"} /\ dst \in SUBSET {"ready", "hup"}
  /\ done = FALSE /\ pc = "wait"
  /\ srcReady = FALSE /\ dstReady = FALSE /\ omitSrc = FALSE /\ omitDst = FALSE

-----------------------------------------------------------------------------
(* The peers and the transfer. *)
Change ==
  /\ pc \in {"wait", "confirm"}
  /\ \/ src' \in SUBSET {"ready", "hup"} \ {src} /\ UNCHANGED dst
     \/ dst' \in SUBSET {"ready", "hup"} \ {dst} /\ UNCHANGED src
  /\ UNCHANGED <<masked, done, pc, flags>>

Cancel ==
  /\ ~done /\ done' = TRUE
  /\ UNCHANGED <<masked, src, dst, pc, flags>>

-----------------------------------------------------------------------------
(* What poll reports on a descriptor in the wait set: readiness if it is   *)
(* asked for, and a hang-up, which Darwin reports only with something      *)
(* asked for.                                                              *)
Reports(fd, ready) == (~ready /\ "ready" \in fd) \/ ("hup" \in fd /\ (masked \/ ~ready))

Immediate ==
  \/ ~omitSrc /\ Reports(src, srcReady)
  \/ ~omitDst /\ Reports(dst, dstReady)

CheckContext ==
  /\ pc = "wait" /\ done
  /\ pc' = "cancelled"
  /\ UNCHANGED <<masked, src, dst, done, flags>>

WaitPoll ==
  /\ pc = "wait" /\ ~done
  /\ pc' = (IF omitSrc /\ omitDst THEN "badFd" ELSE "confirm")
  /\ UNCHANGED <<masked, src, dst, done, flags>>

(* EINTR in either poll starts over; any other error of poll is returned.  *)
Interrupted ==
  /\ pc = "confirm" /\ ~done
  /\ pc' = "wait"
  /\ UNCHANGED <<masked, src, dst, done, flags>>

PollFails ==
  /\ pc \in {"wait", "confirm"} /\ ~done
  /\ pc' = "failed"
  /\ UNCHANGED <<masked, src, dst, done, flags>>

Decide ==
  IF "hup" \in dst /\ "ready" \notin dst THEN "closedPipe"
  ELSE IF "hup" \in src /\ "ready" \notin src THEN "sourceOver"
  ELSE IF "ready" \in src /\ "ready" \in dst THEN "ready"
  ELSE "wait"

Confirm ==
  /\ pc = "confirm"
  /\ pc' = (IF done THEN "cancelled" ELSE Decide)
  /\ srcReady' = ("ready" \in src) /\ dstReady' = ("ready" \in dst)
  /\ omitSrc' = ("hup" \in src) /\ omitDst' = ("hup" \in dst)
  /\ UNCHANGED <<masked, src, dst, done>>

Returned == pc \in Results /\ UNCHANGED vars

Loop == CheckContext \/ WaitPoll \/ Confirm
Next == Change \/ Cancel \/ Loop \/ Interrupted \/ PollFails \/ Returned

Spec == Init /\ [][Next]_vars

(* Fairness: the loop runs, its waits being bounded by 100 ms.  An         *)
(* interruption is not for ever, hence the strong fairness of Confirm.     *)
FairSpec == Spec /\ WF_vars(Loop) /\ SF_vars(Confirm)

-----------------------------------------------------------------------------
(* Types; the function leaves out a descriptor of the wait set only while  *)
(* it takes it to be ready.                                                *)
TypeOK ==
  /\ ((omitSrc => srcReady) /\ (omitDst => dstReady)) \/ pc \in Results
  /\ masked \in BOOLEAN /\ src \subseteq {"ready", "hup"} /\ dst \subseteq {"ready", "hup"}
  /\ done \in BOOLEAN /\ pc \in {"wait", "confirm"} \cup Results
  /\ {srcReady, dstReady, omitSrc, omitDst} \subseteq BOOLEAN

(* The wait set is never empty: both descriptors are left out only when    *)
(* both are ready, and then the function has returned.                     *)
WaitSetNotEmpty == TypeOK /\ pc # "badFd"

(* No busy loop: when the function decides to wait again, neither          *)
(* descriptor makes that wait end at once.                                 *)
NoSpin == [][Confirm /\ pc' = "wait" => ~Immediate']_vars

(* A destination that is gone and not writable ends the wait, also on a    *)
(* platform that does not report it while the destination is masked.       *)
HangupDue == dst = {"hup"} /\ pc \notin Results

(* A source and a destination that are ready and stay so end the wait: no  *)
(* readiness is missed after a hang-up that was taken back.                *)
ReadyDue == "ready" \in src /\ "ready" \in dst /\ pc \notin Results
==============================================================================
