------------------------------ MODULE ByteRelay ------------------------------
(***************************************************************************)
(* What relay.Transfer promises its caller, without workers, cancellation   *)
(* or streams: per direction the destination receives the bytes of the      *)
(* source in order from the first one, nothing is invented, the write half  *)
(* is shut down only when the source is at its end and every byte read from *)
(* it was delivered, and nothing happens after the transfer returned.       *)
(***************************************************************************)
EXTENDS Integers, Sequences

CONSTANTS Direction  \* the directions of the relay

VARIABLES taken,       \* [Direction -> number of bytes read from the source]
          delivered,   \* [Direction -> sequence of bytes at the destination]
          atEOF,       \* [Direction -> the source reported its end of file]
          halfClosed,  \* [Direction -> the destination's write half is shut]
          returned     \* the transfer has returned

vars == <<taken, delivered, atEOF, halfClosed, returned>>

Prefix(n) == [i \in 1 .. n |-> i]

Init ==
  /\ taken = [d \in Direction |-> 0]
  /\ delivered = [d \in Direction |-> <<>>]
  /\ atEOF = [d \in Direction |-> FALSE]
  /\ halfClosed = [d \in Direction |-> FALSE]
  /\ returned = FALSE

(* Bytes are read, delivered, or both; the source may report its end.        *)
Move(d) ==
  /\ ~returned /\ ~halfClosed[d]
  /\ taken'[d] \in Nat /\ taken'[d] >= taken[d]
  /\ taken' = [taken EXCEPT ![d] = taken'[d]]
  /\ atEOF[d] => taken'[d] = taken[d]
  /\ \E n \in Len(delivered[d]) .. taken'[d] :
       delivered' = [delivered EXCEPT ![d] = Prefix(n)]
  /\ atEOF' \in {atEOF, [atEOF EXCEPT ![d] = TRUE]}
  /\ UNCHANGED <<halfClosed, returned>>

HalfClose(d) ==
  /\ ~returned /\ ~halfClosed[d]
  /\ atEOF[d] /\ Len(delivered[d]) = taken[d]
  /\ halfClosed' = [halfClosed EXCEPT ![d] = TRUE]
  /\ UNCHANGED <<taken, delivered, atEOF, returned>>

Return ==
  /\ ~returned /\ returned' = TRUE
  /\ UNCHANGED <<taken, delivered, atEOF, halfClosed>>

Next == Return \/ \E d \in Direction : Move(d) \/ HalfClose(d)

Spec == Init /\ [][Next]_vars
=============================================================================
