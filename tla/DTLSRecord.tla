------------------------------ MODULE DTLSRecord ------------------------------
(***************************************************************************)
(* The protected records of one DTLS 1.3 epoch, from sendRecordLimited of  *)
(* the writer to openRecord of the reader (internal/dtls13/record.go and   *)
(* session.go), over a datagram network that loses, repeats and reorders.  *)
(*                                                                         *)
(* A record on the wire is its full sequence number, of which the header   *)
(* carries only the residue modulo Space; the number itself enters the     *)
(* AEAD's nonce, so a record opens exactly under the number it was sealed  *)
(* with.  replayWindow.bits is the set of the distances whose bit is set.  *)
(***************************************************************************)
EXTENDS Integers

CONSTANTS
  Window,        \* records a replayWindow remembers: 64, the bits of a uint64
  Space,         \* 1 << (8 * seqLen)
  RecordLimit,   \* trafficKeys.recordLimit
  FailureLimit,  \* 1 << 36
  MaxSeq         \* math.MaxUint64

ASSUME RecordAssumption ==
  /\ {Window, Space, RecordLimit, FailureLimit, MaxSeq} \subseteq Nat \ {0}
  /\ RecordLimit <= MaxSeq /\ 2 * Window < Space /\ Space % 2 = 0

Sequence == 0 .. RecordLimit - 1

VARIABLES
  sequence,    \* w.sequence of the writer
  highest, bits,       \* the reader's replayWindow
  failures,    \* its failures counter
  dead,        \* openRecord returned errKeyMaterial: the session is over
  delivered    \* how often each record has been handed up

vars == <<sequence, highest, bits, failures, dead, delivered>>

Init ==
  /\ sequence = 0 /\ highest = 0 /\ bits = {}
  /\ failures = 0 /\ dead = FALSE
  /\ delivered = [s \in Sequence |-> 0]

-----------------------------------------------------------------------------
(* replayWindow.next *)
NextExpected ==
  IF bits = {} THEN 0 ELSE IF highest = MaxSeq THEN MaxSeq ELSE highest + 1

(* A plausible slip: the residue completed from the window's own block. *)
reconstructSequenceSameBlock(truncated, expected) ==
  expected - (expected % Space) + truncated

(* reconstructSequence: the number with this residue nearest to expected. *)
reconstructSequence(truncated, expected) ==
  LET half == Space \div 2
      candidate == expected - (expected % Space) + truncated
  IN  IF candidate <= expected /\ expected - candidate >= half /\ candidate <= MaxSeq - Space
        THEN candidate + Space
      ELSE IF candidate > expected /\ candidate - expected > half /\ candidate >= Space
        THEN candidate - Space
      ELSE candidate

(* A plausible slip: the oldest distance is one the bits no longer hold. *)
AcceptableOneMore(s) ==
  \/ bits = {} \/ s > highest
  \/ highest - s <= Window /\ highest - s \notin bits

(* What replayWindow.accept answers. *)
Acceptable(s) ==
  \/ bits = {} \/ s > highest
  \/ highest - s < Window /\ highest - s \notin bits

(* How accept moves the window; a shift drops the bits it moves past the   *)
(* width of the word.                                                      *)
Remember(s) ==
  /\ highest' = (IF bits = {} \/ s > highest THEN s ELSE highest)
  /\ bits' = (IF bits = {} THEN {0}
              ELSE IF s > highest
                THEN {d \in 0 .. Window - 1 : d = 0 \/ d - (s - highest) \in bits}
              ELSE bits \cup {highest - s})

(* keys.open under the number the reader derives. *)
Opens(s) == reconstructSequence(s % Space, NextExpected) = s

-----------------------------------------------------------------------------
(* sendRecordLimited: the number is used up whether or not send succeeds. *)
Send ==
  /\ sequence < RecordLimit
  /\ sequence' = sequence + 1
  /\ UNCHANGED <<highest, bits, failures, dead, delivered>>

(* openRecord of a record that was sent, at any time and any number of     *)
(* times: it opens and is new, and is handed up.                           *)
Deliver(s) ==
  /\ s < sequence /\ ~dead
  /\ Opens(s) /\ Acceptable(s)
  /\ Remember(s)
  /\ delivered' = [delivered EXCEPT ![s] = @ + 1]
  /\ UNCHANGED <<sequence, failures, dead>>

(* errReplay: dropped, nothing changes. *)
DropReplay(s) ==
  /\ s < sequence /\ ~dead
  /\ Opens(s) /\ ~Acceptable(s)
  /\ UNCHANGED vars

CountFailure ==
  /\ failures' = failures + 1
  /\ dead' = (failures + 1 >= FailureLimit)
  /\ UNCHANGED <<sequence, highest, bits, delivered>>

(* errAuthentication: the number was derived wrongly, *)
OpenFails(s) ==
  /\ s < sequence /\ ~dead /\ ~Opens(s)
  /\ CountFailure

(* or the datagram was damaged. *)
Damaged ==
  /\ ~dead
  /\ CountFailure

Next ==
  \/ Send \/ Damaged
  \/ \E s \in Sequence : Deliver(s) \/ DropReplay(s) \/ OpenFails(s)

Spec == Init /\ [][Next]_vars

-----------------------------------------------------------------------------
(* Types; the writer never uses a number past its limit. *)
TypeOK ==
  /\ sequence \in 0 .. RecordLimit
  /\ highest \in Sequence /\ bits \in SUBSET (0 .. Window - 1)
  /\ failures \in 0 .. FailureLimit /\ dead \in BOOLEAN
  /\ delivered \in [Sequence -> Nat]

(* No record is handed up twice, however often the network repeats it and  *)
(* however far it has been overtaken.                                      *)
AtMostOnce == \A s \in Sequence : delivered[s] <= 1

(* The window knows exactly which of its records have been handed up, and  *)
(* nothing beyond it has been.                                             *)
WindowExact ==
  /\ bits = {} => \A s \in Sequence : delivered[s] = 0
  /\ bits # {} =>
       \A s \in Sequence :
         /\ s > highest => delivered[s] = 0
         /\ s <= highest /\ highest - s < Window => (delivered[s] > 0 <=> highest - s \in bits)

(* A record that has not been handed up is refused only when it lags by a  *)
(* whole window or leads by more than half of the truncated number space:  *)
(* reordering and loss inside these bounds cost nothing.                   *)
NothingFreshRefused ==
  \A s \in Sequence :
    /\ s < sequence /\ delivered[s] = 0
    /\ NextExpected - s <= Window \/ bits = {}
    /\ s - NextExpected <= Space \div 2
    => Opens(s) /\ Acceptable(s)
==============================================================================
