----------------------------- MODULE RecordProofs -----------------------------
(***************************************************************************)
(* Proofs about DTLSRecord, for every window width, number space and       *)
(* record limit.  The replay window decides by its bits alone; that it     *)
(* never lets a record through twice rests on the bits being exact, and    *)
(* on everything behind the window being refused whatever it was.          *)
(***************************************************************************)
EXTENDS DTLSRecord, TLAPS

(* A leaf that names no prover is for the SMT solver, with time to spare.  *)
USE SMTT(60)

(* The inductive invariant: the types, what the bits mean and the claim.   *)
IInv ==
  /\ TypeOK /\ WindowExact /\ AtMostOnce
  /\ ~dead => failures < FailureLimit

LEMMA Limits ==
  /\ Window \in Nat /\ Window > 0 /\ RecordLimit \in Nat /\ RecordLimit > 0
  /\ FailureLimit \in Nat /\ FailureLimit > 0
BY RecordAssumption

USE Limits DEF Sequence

LEMMA InitIInv == Init => IInv
<1>. SUFFICES ASSUME Init PROVE IInv
  OBVIOUS
<1>1. delivered \in [Sequence -> Nat] /\ \A s \in Sequence : delivered[s] = 0
  BY DEF Init
<1>2. TypeOK
  <2>1. sequence \in 0 .. RecordLimit /\ highest \in Sequence /\ failures \in 0 .. FailureLimit
    BY DEF Init
  <2>2. bits \in SUBSET (0 .. Window - 1) /\ dead \in BOOLEAN
    BY ZenonT(60) DEF Init
  <2>. QED  BY <1>1, <2>1, <2>2 DEF TypeOK
<1>3. WindowExact /\ AtMostOnce
  BY <1>1 DEF Init, WindowExact, AtMostOnce
<1>4. failures < FailureLimit
  BY DEF Init
<1>. QED  BY <1>2, <1>3, <1>4 DEF IInv

(* A record that accept lets through has not been handed up before.        *)
LEMMA AcceptableIsNew ==
  ASSUME IInv, NEW s \in Sequence, Acceptable(s)
  PROVE  delivered[s] = 0
<1>1. CASE bits = {}
  BY <1>1 DEF IInv, WindowExact
<1>2. CASE bits # {} /\ s > highest
  BY <1>2 DEF IInv, WindowExact
<1>3. CASE bits # {} /\ ~(s > highest)
  <2>0. s \in Int /\ highest \in Int
    BY DEF IInv, TypeOK
  <2>1. s <= highest /\ highest - s < Window /\ highest - s \notin bits
    BY <1>3, <2>0 DEF Acceptable
  <2>2. ~(delivered[s] > 0)
    BY <1>3, <2>1 DEF IInv, WindowExact
  <2>. QED  BY <2>2 DEF IInv, TypeOK
<1>. QED  BY <1>1, <1>2, <1>3

(* Handing up a record keeps the window exact, the three ways accept takes. *)
LEMMA DeliverStep ==
  ASSUME IInv, NEW s \in Sequence, Deliver(s)
  PROVE  IInv'
<1>0. delivered[s] = 0
  BY AcceptableIsNew DEF Deliver
<1>1. /\ delivered' \in [Sequence -> Nat]
      /\ delivered'[s] = 1
      /\ \A t \in Sequence : t # s => delivered'[t] = delivered[t]
  BY <1>0 DEF IInv, TypeOK, Deliver
<1>2. /\ sequence' \in 0 .. RecordLimit /\ failures' \in 0 .. FailureLimit /\ dead' \in BOOLEAN
      /\ highest' \in Sequence
      /\ ~dead' => failures' < FailureLimit
  BY DEF IInv, TypeOK, Deliver, Remember
<1>3. AtMostOnce'
  BY <1>1 DEF IInv, AtMostOnce
<1>4. CASE bits = {}
  <2>1. highest' = s /\ bits' = {0}
    BY <1>4 DEF Deliver, Remember
  <2>2. bits' \in SUBSET (0 .. Window - 1)
    BY <2>1
  <2>3. WindowExact'
    BY <1>1, <1>4, <2>1 DEF IInv, WindowExact, TypeOK
  <2>. QED  BY <1>1, <1>2, <1>3, <2>2, <2>3 DEF IInv, TypeOK
<1>5. CASE bits # {} /\ s > highest
  <2>1. highest' = s /\ bits' = {d \in 0 .. Window - 1 : d = 0 \/ d - (s - highest) \in bits}
    BY <1>5 DEF Deliver, Remember
  <2>2. bits' \in SUBSET (0 .. Window - 1) /\ 0 \in bits'
    BY <2>1
  <2>3. ASSUME NEW t \in Sequence, t <= s, s - t < Window
        PROVE  delivered'[t] > 0 <=> s - t \in bits'
    <3>1. CASE t = s
      BY <3>1, <1>1, <2>2
    <3>2. CASE t # s
      <4>1. s - t \in bits' <=> highest - t \in bits
        BY <3>2, <2>3, <2>1 DEF IInv, TypeOK
      <4>2. CASE t > highest
        BY <4>1, <4>2, <3>2, <1>1, <1>5 DEF IInv, TypeOK, WindowExact
      <4>3. CASE t <= highest
        BY <4>1, <4>3, <3>2, <2>3, <1>1, <1>5 DEF IInv, TypeOK, WindowExact
      <4>. QED  BY <4>2, <4>3 DEF IInv, TypeOK
    <3>. QED  BY <3>1, <3>2
  <2>4. ASSUME NEW t \in Sequence, t > s
        PROVE  delivered'[t] = 0
    <3>1. t > highest /\ t # s
      BY <2>4, <1>5 DEF IInv, TypeOK
    <3>2. delivered[t] = 0
      BY <3>1, <1>5 DEF IInv, WindowExact
    <3>. QED  BY <3>1, <3>2, <1>1
  <2>5. WindowExact'
    BY ZenonT(60), <2>1, <2>2, <2>3, <2>4 DEF WindowExact
  <2>. QED  BY <1>1, <1>2, <1>3, <2>2, <2>5 DEF IInv, TypeOK
<1>6. CASE bits # {} /\ ~(s > highest)
  <2>1. highest' = highest /\ bits' = bits \cup {highest - s} /\ highest - s < Window
    BY <1>6 DEF Deliver, Remember, Acceptable
  <2>2. bits' \in SUBSET (0 .. Window - 1) /\ bits' # {}
    BY <2>1, <1>6 DEF IInv, TypeOK
  <2>3. WindowExact'
    BY <1>1, <1>6, <2>1 DEF IInv, TypeOK, WindowExact
  <2>. QED  BY <1>1, <1>2, <1>3, <2>2, <2>3 DEF IInv, TypeOK
<1>. QED  BY <1>4, <1>5, <1>6

LEMMA NextIInv == IInv /\ [Next]_vars => IInv'
<1>. SUFFICES ASSUME IInv, [Next]_vars PROVE IInv'
  OBVIOUS
<1>1. CASE Send
  BY <1>1 DEF Send, IInv, TypeOK, WindowExact, AtMostOnce
<1>2. ASSUME ~dead, CountFailure PROVE IInv'
  <2>1. failures' \in 0 .. FailureLimit
    BY <1>2 DEF CountFailure, IInv, TypeOK
  <2>2. dead' \in BOOLEAN
    BY <1>2 DEF CountFailure
  <2>3. CASE failures + 1 >= FailureLimit
    <3>1. dead'
      BY ZenonT(60), <1>2, <2>3 DEF CountFailure
    <3>. QED
      BY <1>2, <2>1, <2>2, <3>1 DEF CountFailure, IInv, TypeOK, WindowExact, AtMostOnce
  <2>4. CASE ~(failures + 1 >= FailureLimit)
    <3>1. failures' < FailureLimit
      BY <1>2, <2>4 DEF CountFailure, IInv, TypeOK
    <3>. QED
      BY <1>2, <2>1, <2>2, <3>1 DEF CountFailure, IInv, TypeOK, WindowExact, AtMostOnce
  <2>. QED  BY <2>3, <2>4
<1>3. CASE Damaged
  BY <1>3, <1>2 DEF Damaged
<1>4. ASSUME NEW s \in Sequence, Deliver(s) PROVE IInv'
  BY <1>4, DeliverStep
<1>5. ASSUME NEW s \in Sequence, DropReplay(s) PROVE IInv'
  BY <1>5 DEF DropReplay, vars, IInv, TypeOK, WindowExact, AtMostOnce
<1>6. ASSUME NEW s \in Sequence, OpenFails(s) PROVE IInv'
  BY <1>6, <1>2 DEF OpenFails
<1>7. CASE UNCHANGED vars
  BY <1>7 DEF vars, IInv, TypeOK, WindowExact, AtMostOnce
<1>. QED  BY <1>1, <1>3, <1>4, <1>5, <1>6, <1>7 DEF Next

LEMMA Invariance == Spec => []IInv
BY InitIInv, NextIInv, PTL DEF Spec

(* No record of an epoch is handed up twice: replayWindow.accept, for any  *)
(* width of the window and any pattern of loss, repetition and reordering. *)
THEOREM NoReplay == Spec => []AtMostOnce
<1>1. IInv => AtMostOnce
  BY DEF IInv
<1>. QED  BY Invariance, <1>1, PTL

(* The bits of the replay window say exactly what has been handed up.      *)
THEOREM WindowIsExact == Spec => []WindowExact
<1>1. IInv => WindowExact
  BY DEF IInv
<1>. QED  BY Invariance, <1>1, PTL
-----------------------------------------------------------------------------
(* The number of a record from its residue.  A residue fits one number of  *)
(* every block of Space; the candidate is that of the expected number's    *)
(* block, and the record is in that block or in one beside it.             *)

LEMMA Division ==
  ASSUME NEW a \in Nat, NEW n \in Nat, n > 0
  PROVE  a % n \in 0 .. n - 1 /\ a \div n \in Int /\ a = (a \div n) * n + (a % n)
<1>1. a % n \in 0 .. n - 1
  OBVIOUS
<1>2. a \div n \in Int
  OBVIOUS
<1>3. a = (a \div n) * n + (a % n)
  OBVIOUS
<1>. QED  BY <1>1, <1>2, <1>3

LEMMA FewBlocks ==
  ASSUME NEW d \in Int, NEW n \in Nat, n > 0, d * n < 2 * n, -(2 * n) < d * n
  PROVE  d \in {-1, 0, 1}
<1>0. d * n \in Int
  OBVIOUS
<1>1. ASSUME d >= 2 PROVE FALSE
  <2>1. (d - 2) * n >= 0
    BY <1>1
  <2>2. (d - 2) * n = d * n - 2 * n
    OBVIOUS
  <2>. QED  BY <1>0, <2>1, <2>2
<1>2. ASSUME d <= -2 PROVE FALSE
  <2>1. (-2 - d) * n >= 0
    BY <1>2
  <2>2. (-2 - d) * n = -(2 * n) - d * n
    OBVIOUS
  <2>. QED  BY <1>0, <2>1, <2>2
<1>. QED  BY <1>1, <1>2

LEMMA NearestIsOwn ==
  ASSUME NEW s \in Nat, NEW e \in Nat, s <= MaxSeq,
         e - s < Space \div 2, s - e <= Space \div 2
  PROVE  reconstructSequence(s % Space, e) = s
<1>. DEFINE h == Space \div 2
            r == s % Space
            b == e % Space
            d == (s \div Space) - (e \div Space)
            c == e - b + r
<1>0. Space \in Nat /\ Space > 0 /\ MaxSeq \in Nat
  BY RecordAssumption
<1>1. h \in Nat /\ Space = 2 * h /\ h > 0
  BY RecordAssumption
<1>2. r \in 0 .. Space - 1 /\ s \div Space \in Int /\ s = (s \div Space) * Space + r
  BY <1>0, Division
<1>3. b \in 0 .. Space - 1 /\ e \div Space \in Int /\ e = (e \div Space) * Space + b
  BY <1>0, Division
<1>4. d \in Int /\ d * Space = (s \div Space) * Space - (e \div Space) * Space
  BY <1>0, <1>2, <1>3
<1>. HIDE DEF h, r, b, d
<1>5. s = c + d * Space /\ d * Space \in Int /\ c \in Int
  BY <1>0, <1>2, <1>3, <1>4
<1>6. d * Space < 2 * Space /\ -(2 * Space) < d * Space
  BY <1>0, <1>1, <1>2, <1>3, <1>5 DEF h
<1>7. d \in {-1, 0, 1}
  BY <1>0, <1>4, <1>6, FewBlocks
<1>. HIDE DEF c
<1>8. c = s \/ c = s + Space \/ c = s - Space
  <2>1. CASE d = 0
    BY <1>0, <1>5, <2>1
  <2>2. CASE d = 1
    BY <1>0, <1>5, <2>2
  <2>3. CASE d = -1
    <3>1. d * Space = -Space
      BY <1>0, <2>3
    <3>. QED  BY <1>0, <1>5, <3>1
  <2>. QED  BY <1>7, <2>1, <2>2, <2>3
<1>9. e - s < h /\ s - e <= h
  BY DEF h
<1>10. reconstructSequence(r, e) =
         IF c <= e /\ e - c >= h /\ c <= MaxSeq - Space THEN c + Space
         ELSE IF c > e /\ c - e > h /\ c >= Space THEN c - Space ELSE c
  BY DEF reconstructSequence, h, b, c
<1>11. CASE c = s
  BY <1>0, <1>1, <1>9, <1>10, <1>11 DEF r
<1>12. CASE c = s + Space
  BY <1>0, <1>1, <1>9, <1>10, <1>12 DEF r
<1>13. CASE c = s - Space
  BY <1>0, <1>1, <1>9, <1>10, <1>13 DEF r
<1>. QED  BY <1>8, <1>11, <1>12, <1>13

(* Reordering and loss within the window and half of the number space cost *)
(* nothing (NothingFreshRefused): reconstructSequence finds the number the *)
(* record was sealed with, and accept lets it through.                     *)
THEOREM FreshIsAccepted == Spec => []NothingFreshRefused
<1>1. IInv => NothingFreshRefused
  <2>. SUFFICES ASSUME IInv, NEW s \in Sequence, s < sequence, delivered[s] = 0,
                       NextExpected - s <= Window \/ bits = {}, s - NextExpected <= Space \div 2
                PROVE  Opens(s) /\ Acceptable(s)
    BY DEF NothingFreshRefused
  <2>1. /\ s \in Nat /\ highest \in Nat /\ highest < RecordLimit /\ s <= MaxSeq
        /\ Window < Space \div 2 /\ highest # MaxSeq
    BY RecordAssumption DEF IInv, TypeOK
  <2>2. NextExpected \in Nat /\ NextExpected - s < Space \div 2
    <3>1. CASE bits = {}
      BY <2>1, <3>1, RecordAssumption DEF NextExpected
    <3>2. CASE bits # {}
      BY <2>1, <3>2, RecordAssumption DEF NextExpected
    <3>. QED  BY <3>1, <3>2
  <2>3. Opens(s)
    BY <2>1, <2>2, NearestIsOwn DEF Opens
  <2>4. Acceptable(s)
    <3>1. CASE bits = {} \/ s > highest
      BY <3>1 DEF Acceptable
    <3>2. CASE bits # {} /\ s <= highest
      <4>1. NextExpected = highest + 1
        BY <2>1, <3>2 DEF NextExpected
      <4>2. highest - s < Window
        BY <2>1, <3>2, <4>1
      <4>3. highest - s \notin bits
        BY <3>2, <4>2 DEF IInv, WindowExact
      <4>. QED  BY <4>2, <4>3 DEF Acceptable
    <3>. QED  BY <2>1, <3>1, <3>2
  <2>. QED  BY <2>3, <2>4
<1>. QED  BY Invariance, <1>1, PTL
==============================================================================
