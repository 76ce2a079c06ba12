---------------------------- MODULE SharedProofs ----------------------------
(***************************************************************************)
(* Proof that nothing read from a shared stream is lost, repeated or       *)
(* reordered across sessions (SharedSession), for any amount of input, any *)
(* buffer and any number of sessions.                                      *)
(*                                                                         *)
(* Input may rest in three places: with the worker that read it, in        *)
(* Shared.pending for a later session, or with its reader.  They are       *)
(* concatenated in this order, so the proof needs that new input is never  *)
(* put behind what is still in front of it: a worker reads the stream only *)
(* while nothing is pending, the background goroutine only while there is  *)
(* neither pending input nor another reader.                               *)
(***************************************************************************)
EXTENDS SharedSession, SequenceTheorems, TLAPS

(* A leaf that names no prover is for the SMT solver, with time to spare.  *)
USE SMTT(60)

InHand == {"poll", "read", "after"}

(* Who may read, and what is empty then.                                   *)
OneReader ==
  /\ reading => kind = "background" /\ pending = <<>>
  /\ kind = "background" => pc \notin InHand
  /\ pc \in {"background", "joined"} => kind = "background"
  /\ pc \in InHand => pending = <<>>
  /\ pc # "after" => chunk = <<>>
  /\ Len(chunk) <= Buffer

InOrder == got \o pending \o chunk = Bytes(0, taken)

IInv == TypeOK /\ OneReader /\ InOrder

LEMMA Limits == Input \in Nat /\ Buffer \in Nat /\ Buffer > 0 /\ Sessions \in Nat
BY SharedAssumption

(* The sequences are sequences of positions.                               *)
LEMMA BytesType ==
  ASSUME NEW m \in Nat, NEW n \in Nat, m + n <= Input
  PROVE  /\ Bytes(m, n) \in Seq(1 .. Input) /\ Len(Bytes(m, n)) = n
         /\ \A k \in 1 .. n : Bytes(m, n)[k] = m + k
<1>1. Bytes(m, n) \in [1 .. n -> 1 .. Input]
  BY Limits DEF Bytes
<1>2. Bytes(m, n) \in Seq(1 .. Input)
  BY <1>1, SeqDef, Zenon
<1>3. DOMAIN Bytes(m, n) = 1 .. n /\ DOMAIN Bytes(m, n) = 1 .. Len(Bytes(m, n)) /\ Len(Bytes(m, n)) \in Nat
  BY <1>1, <1>2, LenProperties
<1>4. Len(Bytes(m, n)) = n
  BY <1>3
<1>5. QED BY <1>2, <1>4 DEF Bytes

(* What is read next continues what was read.                              *)
LEMMA BytesContinue ==
  ASSUME NEW m \in Nat, NEW n \in Nat, m + n <= Input
  PROVE  Bytes(0, m) \o Bytes(m, n) = Bytes(0, m + n)
<1> DEFINE a == Bytes(0, m)
           b == Bytes(m, n)
           c == Bytes(0, m + n)
<1>1. a \in Seq(1 .. Input) /\ Len(a) = m /\ \A k \in 1 .. m : a[k] = k
  <2>1. 0 \in Nat /\ 0 + m <= Input
    BY Limits
  <2>2. a \in Seq(1 .. Input) /\ Len(a) = m /\ \A k \in 1 .. m : a[k] = 0 + k
    BY <2>1, BytesType, Zenon
  <2>3. \A k \in 1 .. m : 0 + k = k
    OBVIOUS
  <2>4. QED BY <2>2, <2>3, Zenon
<1>2. b \in Seq(1 .. Input) /\ Len(b) = n /\ \A k \in 1 .. n : b[k] = m + k
  BY BytesType
<1>3. c \in Seq(1 .. Input) /\ Len(c) = m + n /\ \A k \in 1 .. m + n : c[k] = k
  <2>1. 0 \in Nat /\ m + n \in Nat /\ 0 + (m + n) <= Input
    BY Limits
  <2>2. c \in Seq(1 .. Input) /\ Len(c) = m + n /\ \A k \in 1 .. m + n : c[k] = 0 + k
    BY <2>1, BytesType, Zenon
  <2>3. \A k \in 1 .. m + n : 0 + k = k
    OBVIOUS
  <2>4. QED BY <2>2, <2>3, Zenon
<1> HIDE DEF a, b, c
<1>4. /\ a \o b \in Seq(1 .. Input) /\ Len(a \o b) = m + n
      /\ \A k \in 1 .. m + n : (a \o b)[k] = IF k <= m THEN a[k] ELSE b[k - m]
  BY <1>1, <1>2, ConcatProperties, Zenon
<1>5. ASSUME NEW k \in 1 .. m + n PROVE (a \o b)[k] = c[k]
  <2>1. CASE k <= m
    BY <1>1, <1>3, <1>4, <2>1
  <2>2. CASE k > m
    <3>1. k - m \in 1 .. n
      BY <2>2
    <3>2. (a \o b)[k] = b[k - m] /\ b[k - m] = m + (k - m) /\ c[k] = k
      <4>1. ~(k <= m)
        BY <2>2
      <4>2. QED BY <1>2, <1>3, <1>4, <3>1, <4>1, Zenon
    <3>3. m + (k - m) = k
      OBVIOUS
    <3>4. QED BY <3>2, <3>3, Zenon
  <2>3. k <= m \/ k > m
    OBVIOUS
  <2>4. QED BY <2>1, <2>2, <2>3, Zenon
<1>6. a \o b = c
  BY <1>3, <1>4, <1>5, SeqEqual
<1>7. QED BY <1>6 DEF a, b, c

LEMMA InitIInv == Init => IInv
<1> SUFFICES ASSUME Init PROVE IInv
  OBVIOUS
<1>1. <<>> \in Seq(1 .. Input) /\ Len(<<>>) = 0
  BY EmptySeq
<1>2. got = <<>> /\ pending = <<>> /\ chunk = <<>> /\ taken = 0
  BY DEF Init
<1>3. TypeOK
  <2>1. {pendErr, reading, closed} \subseteq BOOLEAN
    BY ZenonT(30) DEF Init
  <2>2. QED BY <1>1, <1>2, <2>1, SharedAssumption DEF Init, TypeOK
<1>4. OneReader
  BY <1>1, <1>2, SharedAssumption DEF Init, OneReader, InHand
<1>5. InOrder
  <2>1. Bytes(0, 0) \in Seq(1 .. Input) /\ Len(Bytes(0, 0)) = 0
    BY BytesType, Limits
  <2>2. Bytes(0, 0) = <<>>
    BY <2>1, EmptySeq
  <2>3. <<>> \o <<>> \o <<>> = <<>>
    BY <1>1, ConcatEmptySeq
  <2>4. QED BY <1>2, <2>2, <2>3 DEF InOrder
<1>6. QED BY <1>3, <1>4, <1>5 DEF IInv

-----------------------------------------------------------------------------
(* Three sequences in a row, of which some are empty.                      *)
LEMMA Places ==
  ASSUME IInv
  PROVE  /\ got \in Seq(1 .. Input) /\ pending \in Seq(1 .. Input) /\ chunk \in Seq(1 .. Input)
         /\ taken \in Nat /\ taken <= arrived /\ arrived \in Nat /\ arrived <= Input
         /\ chunk = <<>> => got \o pending = Bytes(0, taken)
         /\ pending = <<>> => got \o chunk = Bytes(0, taken)
         /\ pending = <<>> /\ chunk = <<>> => got = Bytes(0, taken)
<1>1. got \in Seq(1 .. Input) /\ pending \in Seq(1 .. Input) /\ chunk \in Seq(1 .. Input)
  BY Zenon DEF IInv, TypeOK
<1>2. taken \in Nat /\ taken <= arrived /\ arrived \in Nat /\ arrived <= Input
  BY Limits DEF IInv, TypeOK
<1>3. got \o <<>> = got /\ (got \o pending) \o <<>> = got \o pending
  <2>1. got \o pending \in Seq(1 .. Input)
    BY <1>1, ConcatProperties, Zenon
  <2>2. QED BY <1>1, <2>1, ConcatEmptySeq, Zenon
<1>4. QED BY <1>1, <1>2, <1>3, Zenon DEF IInv, InOrder

LEMMA TakePendingStep == IInv /\ TakePending => IInv'
<1> SUFFICES ASSUME IInv, TakePending PROVE IInv'
  OBVIOUS
<1> DEFINE n == Least(Buffer, Len(pending))
           one == SubSeq(pending, 1, n)
           two == SubSeq(pending, n + 1, Len(pending))
<1>1. got \in Seq(1 .. Input) /\ pending \in Seq(1 .. Input) /\ chunk = <<>>
  BY Places, Zenon DEF TakePending, IInv, OneReader
<1>2. Len(pending) \in Nat /\ \A i \in 1 .. Len(pending) : pending[i] \in 1 .. Input
  BY <1>1, LenProperties, ElementOfSeq, Zenon
<1>3. n \in 0 .. Len(pending) /\ n \in Nat
  BY <1>2, Limits DEF Least
<1> HIDE DEF n
<1>4. one \in Seq(1 .. Input)
  <2>1. 1 \in Int /\ n \in Int /\ \A i \in 1 .. n : pending[i] \in 1 .. Input
    BY <1>2, <1>3
  <2>2. QED BY <2>1, SubSeqProperties, Zenon
<1>5. two \in Seq(1 .. Input) /\ Len(two) <= Len(pending)
  <2>1. n + 1 \in Int /\ Len(pending) \in Int /\ \A i \in n + 1 .. Len(pending) : pending[i] \in 1 .. Input
    BY <1>2, <1>3
  <2>2. two \in Seq(1 .. Input)
        /\ Len(two) = IF n + 1 <= Len(pending) THEN Len(pending) - (n + 1) + 1 ELSE 0
    BY <2>1, SubSeqProperties, Zenon
  <2>3. QED BY <1>2, <1>3, <2>2
<1>6. one \o two = pending
  <2>1. 1 \in 1 .. Len(pending) + 1 /\ n \in 1 - 1 .. Len(pending) /\ Len(pending) \in n .. Len(pending)
    BY <1>2, <1>3
  <2>2. one \o two = SubSeq(pending, 1, Len(pending))
    BY <1>1, <2>1, ConcatAdjacentSubSeq, Zenon
  <2>3. QED BY <1>1, <2>2, SubSeqFull, Zenon
<1>7. /\ got' = got \o one /\ pending' = two /\ chunk' = chunk /\ taken' = taken
      /\ pc' = "wait" /\ kind' = kind /\ arrived' = arrived /\ session' = session /\ closed' = closed
      /\ deadline' = deadline /\ pendErr' = pendErr /\ reading' = reading /\ readErr' = readErr
      /\ pending # <<>>
  BY Zenon DEF TakePending, Goto, n, one, two
<1> HIDE DEF one, two
<1>8. got' \in Seq(1 .. Input)
  BY <1>1, <1>4, <1>7, ConcatProperties, Zenon
<1>9. got' \o pending' = got \o pending
  <2>1. (got \o one) \o two = got \o (one \o two)
    BY <1>1, <1>4, <1>5, ConcatAssociative
  <2>2. QED BY <1>6, <1>7, <2>1, Zenon
<1>10. InOrder'
  BY <1>7, <1>9, Zenon DEF IInv, InOrder
<1>11. Len(pending') <= Buffer
  BY <1>2, <1>5, <1>7, Limits DEF IInv, TypeOK
<1>12. TypeOK'
  BY <1>5, <1>7, <1>8, <1>11, Zenon DEF IInv, TypeOK
<1>13. OneReader'
  BY <1>1, <1>7, Zenon DEF IInv, OneReader, InHand
<1>14. QED BY <1>10, <1>12, <1>13 DEF IInv

LEMMA InnerDataStep == IInv /\ InnerData => IInv'
<1> SUFFICES ASSUME IInv, InnerData PROVE IInv'
  OBVIOUS
<1>1. /\ pc = "read" /\ pc' = "after" /\ got' = got /\ pending' = pending /\ kind' = kind
      /\ arrived' = arrived /\ session' = session /\ closed' = closed /\ deadline' = deadline
      /\ pendErr' = pendErr /\ reading' = reading
  BY Zenon DEF InnerData, Goto
<1>2. pending = <<>> /\ chunk = <<>> /\ kind # "background"
  BY <1>1, Zenon DEF IInv, OneReader, InHand
<1>3. got = Bytes(0, taken)
  BY <1>2, Places, Zenon
<1>4. OneReader' <=> Len(chunk') <= Buffer
  BY <1>1, <1>2, Zenon DEF IInv, OneReader, InHand
<1>5. CASE \E n \in 1 .. Least(Buffer, Available) :
              chunk' = Bytes(taken, n) /\ taken' = taken + n /\ readErr' = "none"
  <2>1. PICK n \in 1 .. Least(Buffer, Available) :
              chunk' = Bytes(taken, n) /\ taken' = taken + n /\ readErr' = "none"
    BY <1>5
  <2>2. taken \in Nat /\ n \in Nat /\ n <= Buffer /\ taken + n <= arrived /\ taken + n <= Input
    BY Limits, Places DEF Least, Available
  <2>3. chunk' \in Seq(1 .. Input) /\ Len(chunk') = n
    BY <2>1, <2>2, BytesType, Zenon
  <2>4. taken' \in 0 .. arrived
    BY <2>1, <2>2, Places
  <2>5. TypeOK'
    BY <1>1, <2>1, <2>3, <2>4, Zenon DEF IInv, TypeOK
  <2>6. OneReader'
    BY <1>4, <2>2, <2>3
  <2>7. got' \o pending' \o chunk' = Bytes(0, taken')
    <3>1. got \o <<>> = got
      BY Places, ConcatEmptySeq, Zenon
    <3>2. Bytes(0, taken) \o Bytes(taken, n) = Bytes(0, taken + n)
      BY <2>2, BytesContinue, Zenon
    <3>3. QED BY <1>1, <1>2, <1>3, <2>1, <3>1, <3>2, Zenon
  <2>8. QED BY <2>5, <2>6, <2>7 DEF IInv, InOrder
<1>6. CASE AtEnd /\ chunk' = <<>> /\ readErr' = "EOF" /\ UNCHANGED taken
  <2>1. chunk' = chunk /\ taken' = taken
    BY <1>2, <1>6
  <2>2. TypeOK'
    BY <1>1, <1>6, <2>1, Zenon DEF IInv, TypeOK
  <2>3. Len(chunk') <= Buffer
    BY <2>1 DEF IInv, OneReader
  <2>4. QED BY <1>1, <1>4, <2>1, <2>2, <2>3, Zenon DEF IInv, InOrder
<1>7. QED BY <1>5, <1>6 DEF InnerData

LEMMA AfterReadClosedStep == IInv /\ AfterReadClosed => IInv'
<1> SUFFICES ASSUME IInv, AfterReadClosed PROVE IInv'
  OBVIOUS
<1>1. /\ pc = "after" /\ pc' = "ended" /\ got' = got /\ pending' = pending \o chunk /\ kind' = kind
      /\ arrived' = arrived /\ session' = session /\ closed' = closed /\ deadline' = deadline
      /\ pendErr' = pendErr /\ reading' = reading /\ chunk' = <<>> /\ taken' = taken
      /\ readErr' = readErr
  BY Zenon DEF AfterReadClosed, Goto
<1>2. pending = <<>> /\ kind # "background"
  BY <1>1, Zenon DEF IInv, OneReader, InHand
<1>3. pending' = chunk
  BY <1>1, <1>2, Places, ConcatEmptySeq, Zenon
<1>4. <<>> \in Seq(1 .. Input) /\ Len(<<>>) = 0
  BY EmptySeq
<1>5. TypeOK'
  <2>1. pending' \in Seq(1 .. Input) /\ Len(pending') <= Buffer
    BY <1>3, Zenon DEF IInv, TypeOK, OneReader
  <2>2. QED BY <1>1, <1>4, <2>1, Zenon DEF IInv, TypeOK
<1>6. OneReader'
  <2>1. Len(chunk') <= Buffer
    BY <1>1, <1>4, Limits
  <2>2. QED BY <1>1, <1>2, <2>1, Zenon DEF IInv, OneReader, InHand
<1>7. got' \o pending' \o chunk' = Bytes(0, taken')
  <2>1. got \o chunk \in Seq(1 .. Input) /\ got \o chunk = Bytes(0, taken)
    BY <1>2, Places, ConcatProperties, Zenon
  <2>2. (got \o chunk) \o <<>> = got \o chunk
    BY <2>1, ConcatEmptySeq, Zenon
  <2>3. QED BY <1>1, <1>3, <2>1, <2>2, Zenon
<1>8. QED BY <1>5, <1>6, <1>7 DEF IInv, InOrder

LEMMA AfterReadOpenStep == IInv /\ AfterReadOpen => IInv'
<1> SUFFICES ASSUME IInv, AfterReadOpen PROVE IInv'
  OBVIOUS
<1>1. /\ pc = "after" /\ got' = got \o chunk /\ pending' = pending /\ kind' = kind
      /\ arrived' = arrived /\ session' = session /\ closed' = closed
      /\ pendErr' = pendErr /\ reading' = reading /\ chunk' = <<>> /\ taken' = taken
      /\ readErr' = readErr
  BY Zenon DEF AfterReadOpen, Goto
<1>2. pc' \in {"ended", "take", "wait"}
  BY DEF AfterReadOpen, Goto, IInv, TypeOK
<1>3. deadline' \in {"none", "slice", "poke"}
  BY DEF AfterReadOpen, IInv, TypeOK
<1>4. pending = <<>> /\ kind # "background"
  BY <1>1, Zenon DEF IInv, OneReader, InHand
<1>5. <<>> \in Seq(1 .. Input) /\ Len(<<>>) = 0
  BY EmptySeq
<1>6. got' \in Seq(1 .. Input) /\ got' = Bytes(0, taken)
  BY <1>1, <1>4, Places, ConcatProperties, Zenon
<1>7. pc' \notin InHand \cup {"background", "joined"}
      /\ pc' \in {"wait", "take", "poll", "read", "after", "background", "joined", "ended"}
  BY <1>2 DEF InHand
<1>8. TypeOK'
  BY <1>1, <1>3, <1>5, <1>6, <1>7, Zenon DEF IInv, TypeOK
<1>9. OneReader'
  <2>1. Len(chunk') <= Buffer
    BY <1>1, <1>5, Limits
  <2>2. QED BY <1>1, <1>4, <1>7, <2>1, Zenon DEF IInv, OneReader
<1>10. got' \o pending' \o chunk' = Bytes(0, taken')
  <2>1. got' \o <<>> = got'
    BY <1>6, ConcatEmptySeq, Zenon
  <2>2. QED BY <1>1, <1>4, <1>6, <2>1, Zenon
<1>11. QED BY <1>8, <1>9, <1>10 DEF IInv, InOrder

LEMMA BackgroundReadStep == IInv /\ BackgroundRead => IInv'
<1> SUFFICES ASSUME IInv, BackgroundRead PROVE IInv'
  OBVIOUS
<1>1. /\ reading /\ ~reading' /\ reading' \in BOOLEAN /\ got' = got /\ kind' = kind
      /\ arrived' = arrived /\ session' = session /\ closed' = closed /\ deadline' = deadline
      /\ chunk' = chunk /\ readErr' = readErr /\ pc' = pc
  BY Zenon DEF BackgroundRead
<1>2. pending = <<>> /\ kind = "background"
  BY <1>1, Zenon DEF IInv, OneReader
<1>3. pc \notin InHand /\ chunk = <<>>
  BY <1>2, Zenon DEF IInv, OneReader, InHand
<1>4. got = Bytes(0, taken)
  BY <1>2, <1>3, Places, Zenon
<1>5. OneReader'
  BY <1>1, <1>2, <1>3, Zenon DEF IInv, OneReader
<1>6. CASE \E n \in 1 .. Least(Buffer, Available) :
              pending' = pending \o Bytes(taken, n) /\ taken' = taken + n /\ pendErr' = FALSE
  <2>1. PICK n \in 1 .. Least(Buffer, Available) :
              pending' = pending \o Bytes(taken, n) /\ taken' = taken + n /\ pendErr' = FALSE
    BY <1>6, Zenon
  <2>2. taken \in Nat /\ n \in Nat /\ n <= Buffer /\ taken + n <= arrived /\ taken + n <= Input
    BY Limits, Places DEF Least, Available
  <2>3. Bytes(taken, n) \in Seq(1 .. Input) /\ Len(Bytes(taken, n)) = n
    BY <2>2, BytesType, Zenon
  <2>4. pending' = Bytes(taken, n)
    BY <1>2, <2>1, <2>3, ConcatEmptySeq, Zenon
  <2>5. taken' \in 0 .. arrived
    BY <2>1, <2>2, Places
  <2>6. Len(pending') <= Buffer
    BY <2>2, <2>3, <2>4
  <2>7. {pendErr', reading', closed'} \subseteq BOOLEAN
    BY <1>1, <2>1, Zenon DEF IInv, TypeOK
  <2>8. TypeOK'
    BY <1>1, <2>3, <2>4, <2>5, <2>6, <2>7, Zenon DEF IInv, TypeOK
  <2>9. got' \o pending' = Bytes(0, taken')
    <3>1. Bytes(0, taken) \o Bytes(taken, n) = Bytes(0, taken + n)
      BY <2>2, BytesContinue, Zenon
    <3>2. QED BY <1>1, <1>4, <2>1, <2>4, <3>1, Zenon
  <2>10. (got' \o pending') \o <<>> = got' \o pending'
    <3>1. got' \o pending' \in Seq(1 .. Input)
      BY <1>1, <2>3, <2>4, Places, ConcatProperties, Zenon
    <3>2. QED BY <3>1, ConcatEmptySeq, Zenon
  <2>11. InOrder'
    BY <1>1, <1>3, <2>9, <2>10, Zenon DEF InOrder
  <2>12. QED BY <1>5, <2>8, <2>11 DEF IInv
<1>7. CASE AtEnd /\ pendErr' = TRUE /\ UNCHANGED <<taken, pending>>
  <2>1. TypeOK'
    BY <1>1, <1>7, Zenon DEF IInv, TypeOK
  <2>2. QED BY <1>1, <1>5, <1>7, <2>1, Zenon DEF IInv, InOrder
<1>8. QED BY <1>6, <1>7, Zenon DEF BackgroundRead

(* The steps that move no input: who may read is what they could disturb.  *)
LEMMA QuietStep ==
  ASSUME IInv,
         \/ Arrive \/ Close \/ NextSession \/ Wait \/ TakeClosed \/ TakeErr \/ TakeNothing
         \/ PollRead \/ InnerTimeout \/ StartBackground \/ JoinBackground
  PROVE  IInv'
<1>1. TypeOK /\ OneReader /\ InOrder
  BY DEF IInv
<1> USE DEF Goto, TypeOK, OneReader, InOrder, InHand
<1>2. CASE Arrive
  <2>1. arrived' \in 0 .. Input /\ taken \in 0 .. arrived'
    BY <1>1, <1>2, Limits DEF Arrive
  <2>2. QED BY <1>1, <1>2, <2>1, Zenon DEF Arrive, IInv
<1>3. CASE Close
  <2>1. deadline' \in {"none", "slice", "poke"}
    BY <1>3 DEF Close
  <2>2. QED BY <1>1, <1>3, <2>1, Zenon DEF Close, IInv
<1>4. CASE NextSession
  <2>1. session' \in 1 .. Sessions
    BY <1>1, <1>4, Limits DEF NextSession
  <2>2. QED BY <1>1, <1>4, <2>1, Zenon DEF NextSession, IInv
<1>5. CASE Wait
  <2>1. pc' \in {"ended", "take"}
    BY <1>5, Zenon DEF Wait
  <2>2. QED BY <1>1, <1>5, <2>1, Zenon DEF Wait, IInv
<1>6. CASE TakeClosed
  BY <1>1, <1>6, Zenon DEF TakeClosed, IInv
<1>7. CASE TakeErr
  BY <1>1, <1>7, Zenon DEF TakeErr, IInv
<1>8. CASE TakeNothing
  <2>1. /\ deadline' \in {"none", "slice", "poke"}
        /\ kind = "background" => pc' = "background"
        /\ kind # "background" => pc' \in {"poll", "read"}
    BY <1>1, <1>8 DEF TakeNothing
  <2>2. QED BY <1>1, <1>8, <2>1, Zenon DEF TakeNothing, IInv
<1>9. CASE PollRead
  <2>1. pc' \in {"ended", "read", "take"}
    BY <1>9, Zenon DEF PollRead
  <2>2. QED BY <1>1, <1>9, <2>1, Zenon DEF PollRead, IInv
<1>10. CASE InnerTimeout
  BY <1>1, <1>10, Zenon DEF InnerTimeout, IInv
<1>11. CASE StartBackground
  <2>1. CASE pending # <<>> \/ pendErr
    BY <1>1, <1>11, <2>1, Zenon DEF StartBackground, IInv
  <2>2. CASE ~(pending # <<>> \/ pendErr)
    BY <1>1, <1>11, <2>2, Zenon DEF StartBackground, IInv
  <2>3. QED BY <2>1, <2>2, Zenon
<1>12. CASE JoinBackground
  BY <1>1, <1>12, Zenon DEF JoinBackground, IInv
<1>13. QED
  BY <1>2, <1>3, <1>4, <1>5, <1>6, <1>7, <1>8, <1>9, <1>10, <1>11, <1>12, Zenon

LEMMA NextIInv == IInv /\ [Next]_vars => IInv'
<1> SUFFICES ASSUME IInv, [Next]_vars PROVE IInv'
  OBVIOUS
<1>1. CASE UNCHANGED vars
  BY <1>1, Zenon DEF IInv, TypeOK, OneReader, InOrder, InHand, vars
<1>2. QED
  BY <1>1, TakePendingStep, InnerDataStep, AfterReadClosedStep, AfterReadOpenStep,
     BackgroundReadStep, QuietStep, Zenon DEF Next, Worker, Terminated

(* Whatever is read from the shared stream reaches the sessions, once and  *)
(* in order, or waits for the next: sessionWrap.Read, Shared.take, the     *)
(* bytes a closed session puts back and the background read.               *)
THEOREM NothingIsLost == Spec => []Conserved
<1>1. IInv => Conserved
  BY DEF IInv, InOrder, Conserved
<1>2. QED BY InitIInv, NextIInv, <1>1, PTL DEF Spec
==============================================================================
