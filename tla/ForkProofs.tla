------------------------------ MODULE ForkProofs ------------------------------
(***************************************************************************)
(* Proofs about the fork parents and their children (ForkServe), for any   *)
(* set of connections, any limit and every configuration.                  *)
(*                                                                         *)
(* The inductive invariant has three parts.  Hands says who holds what: a  *)
(* connection is in the Accept result channel, in the parent's hand or     *)
(* with a child, and in one of them only.  ChildOK says what a child owns  *)
(* at each point of its life.  Counted ties the WaitGroup and the slot     *)
(* channel to the children that still count for them; the set of children  *)
(* is finite because each was spawned by a step, whatever the connections. *)
(***************************************************************************)
EXTENDS ForkServe, FiniteSetTheorems, TLAPS

USE SMTT(30)

Hands ==
  /\ held # NoConn <=> ppc \in {"filter", "spawn"}
  /\ ppc # "accept" => acc = "none" /\ call = "idle"
  /\ acc # "none" <=> call \in {"select", "abort", "expire"}
  /\ result # NoConn <=> acc = "conn" \/ call = "ok"
  /\ held # NoConn => cpc[held] = "none" /\ conn[held] = "open"
  /\ result # NoConn => cpc[result] = "none" /\ conn[result] = "open"
  /\ ppc # "returned" => left = "open"
  /\ ppc \in {"close", "returned"} => \A c \in Conn : cpc[c] \notin Active
  /\ OpenIsOwned

(* Where a child holds leftMu, and where it has a right address of its own.*)
Holding == CASE cfg.role = "listenRight" -> {"prepare", "session", "unlock"}
             [] cfg.role = "dialRight" -> {"session", "unlock"}
             [] OTHER -> {}
OwnRight == {"bridge", "bridging", "bridgeWait", "waitChild", "closeRight"}

ChildOK(c) ==
  /\ leftMu = c <=> cpc[c] \in Holding
  /\ armed[c] => cpc[c] \in Working \cup {"stop"}
  /\ cpc[c] # "none" => conn[c] \in {"open", "closed"}
  /\ cpc[c] \in {"lock", "unlock"} => SharedLeft
  /\ cpc[c] \in OwnRight \cup {"open"} => ~SharedLeft
  /\ right[c] = "open" => ~SharedLeft /\ cpc[c] \in OwnRight \cup {"session"}
  /\ cpc[c] \in {"bridge", "waitChild"} => right[c] = "open"
  /\ cpc[c] = "session" /\ ~SharedLeft => right[c] = "open"
  /\ bpc[c] \in {"relay", "waitChild"} =>
       cpc[c] \in {"bridging", "bridgeWait"} /\ right[c] = "open"
  /\ "sp0" \in ends[c] => cpc[c] = "bridging"
  /\ "sp1" \in ends[c] => bpc[c] = "relay"

In(S) == {c \in Conn : cpc[c] \in S}
Hand == IF ppc \in {"accept", "dial", "filter", "spawn"} THEN 1 ELSE 0

Counted ==
  /\ IsFiniteSet(In(Active)) /\ IsFiniteSet(In(Slotted))
  /\ wg = Cardinality(In(Active))
  /\ cfg.max > 0 => slots = Cardinality(In(Slotted)) + Hand /\ slots <= cfg.max

IInv == TypeOK /\ Hands /\ (\A c \in Conn : ChildOK(c)) /\ Counted

-----------------------------------------------------------------------------

LEMMA CfgType ==
  ASSUME TypeOK
  PROVE  cfg.role \in Role /\ cfg.max \in Nat
  BY Zenon, ConfigAssumption DEF TypeOK

(* A child moves: the sets it enters or leaves, and how large they become. *)
LEMMA InSame ==
  ASSUME TypeOK, NEW S, NEW c \in Conn, NEW to, cpc' = [cpc EXCEPT ![c] = to],
         cpc[c] \in S <=> to \in S
  PROVE  In(S)' = In(S)
  BY Zenon DEF In, TypeOK

LEMMA InEnter ==
  ASSUME TypeOK, NEW S, NEW c \in Conn, NEW to, cpc' = [cpc EXCEPT ![c] = to],
         cpc[c] \notin S, to \in S, IsFiniteSet(In(S))
  PROVE  /\ IsFiniteSet(In(S)') /\ Cardinality(In(S)') = Cardinality(In(S)) + 1
         /\ Cardinality(In(S)) \in Nat
<1>1. In(S)' = In(S) \cup {c} /\ c \notin In(S)
  BY Zenon DEF In, TypeOK
<1>2. QED BY <1>1, FS_AddElement, FS_CardinalityType

LEMMA InLeave ==
  ASSUME TypeOK, NEW S, NEW c \in Conn, NEW to, cpc' = [cpc EXCEPT ![c] = to],
         cpc[c] \in S, to \notin S, IsFiniteSet(In(S))
  PROVE  /\ IsFiniteSet(In(S)') /\ Cardinality(In(S)') = Cardinality(In(S)) - 1
         /\ Cardinality(In(S)) \in Nat /\ Cardinality(In(S)) > 0
<1>1. In(S)' = In(S) \ {c} /\ c \in In(S)
  BY Zenon DEF In, TypeOK
<1>2. In(S)' = In(S) \ {c} => IsFiniteSet(In(S)') /\ Cardinality(In(S)') = Cardinality(In(S)) - 1
  BY Zenon, <1>1, FS_RemoveElement
<1>3. Cardinality(In(S)) # 0
  BY Zenon, <1>1, FS_EmptySet
<1>4. QED BY <1>1, <1>2, <1>3, FS_CardinalityType

-----------------------------------------------------------------------------
LEMMA InitIInv == Init => IInv
<1> SUFFICES ASSUME Init PROVE IInv
  OBVIOUS
<1>1. TypeOK
  <2>1. AcceptTypeOK
    BY Zenon DEF Init, AcceptInit, AcceptTypeOK
  <2>2. 0 \in Nat
    OBVIOUS
  <2>3. armed \in [Conn -> BOOLEAN]
    BY Zenon DEF Init
  <2>4. /\ cpc \in [Conn -> Slotted \cup {"none", "close", "ended"}]
        /\ right \in [Conn -> {"none", "open", "closed"}]
        /\ bpc \in [Conn -> {"none", "relay", "waitChild", "done"}]
        /\ ends \in [Conn -> SUBSET {"sp0", "sp1"}]
    BY Zenon DEF Init
  <2>5. QED BY <2>1, <2>2, <2>3, <2>4, Zenon DEF Init, TypeOK, Nobody
<1>2. Hands
  BY Zenon DEF Init, AcceptInit, Hands, OpenIsOwned
<1>3. ASSUME NEW c \in Conn PROVE ChildOK(c)
  <2>1. ~armed[c]
    BY Zenon DEF Init
  <2>2. cpc[c] = "none" /\ cpc[c] \notin Holding /\ leftMu # c
    BY Zenon, NoConnAssumption DEF Init, Holding, Nobody
  <2>3. QED BY Zenon, <2>1, <2>2 DEF Init, ChildOK, OwnRight
<1>4. Counted
  <2>1. In(Active) = {} /\ In(Slotted) = {}
    BY Zenon DEF Init, In, Active, Slotted, Working
  <2>2. cfg.max \in Nat
    BY Zenon, <1>1, CfgType
  <2>3. QED BY <2>1, <2>2, FS_EmptySet DEF Init, Counted, Hand
<1>5. QED BY Zenon, <1>1, <1>2, <1>3, <1>4 DEF IInv

-----------------------------------------------------------------------------
(* What the steps of a child leave alone.                                  *)
OnlyChild == UNCHANGED <<done, listener, acc, result, call, parentVars>>

(* The parent's side of a child's step: the child's connection is in       *)
(* nobody's hand any more.                                                 *)
LEMMA ChildHands ==
  ASSUME IInv, OnlyChild, NEW c \in Conn, NEW to,
         cpc' = [cpc EXCEPT ![c] = to], cpc[c] # "none", to # "none",
         to \in Active => cpc[c] \in Active,
         \/ conn' = conn /\ to # "ended"
         \/ conn' = [conn EXCEPT ![c] = "closed"]
  PROVE  Hands'
<1>1. Hands /\ TypeOK
  BY Zenon DEF IInv
<1>2. /\ held' = held /\ result' = result /\ acc' = acc /\ call' = call /\ ppc' = ppc
      /\ left' = left
  BY Zenon DEF OnlyChild, parentVars
<1>3. c # held /\ c # result
  BY Zenon, <1>1, NoConnAssumption DEF Hands
<1>4. \A d \in Conn : d # c => cpc'[d] = cpc[d] /\ conn'[d] = conn[d]
  BY Zenon, <1>1 DEF TypeOK, AcceptTypeOK
<1>5. cpc'[c] = to
  BY Zenon, <1>1 DEF TypeOK
<1>6. held \in Conn \cup {NoConn} /\ result \in Conn \cup {NoConn}
  BY Zenon, <1>1 DEF TypeOK, AcceptTypeOK
<1>7. OpenIsOwned'
  <2>1. conn'[c] = "open" => to # "ended"
    BY Zenon, <1>1 DEF TypeOK, AcceptTypeOK
  <2>2. QED BY Zenon, <1>1, <1>2, <1>4, <1>5, <2>1 DEF Hands, OpenIsOwned
<1>8. ppc \in {"close", "returned"} => \A d \in Conn : cpc'[d] \notin Active
  BY Zenon, <1>1, <1>4, <1>5 DEF Hands
<1>9. QED BY Zenon, <1>1, <1>2, <1>3, <1>4, <1>6, <1>7, <1>8 DEF Hands

(* The other children do not notice a child's step.                        *)
LEMMA Others ==
  ASSUME IInv, NEW c \in Conn, NEW d \in Conn, d # c, cfg' = cfg,
         leftMu' # leftMu => leftMu \in {c, Nobody} /\ leftMu' \in {c, Nobody},
         cpc'[d] = cpc[d], armed'[d] = armed[d], conn'[d] = conn[d], right'[d] = right[d],
         bpc'[d] = bpc[d], ends'[d] = ends[d]
  PROVE  ChildOK(d)'
<1>1. ChildOK(d)
  BY Zenon DEF IInv
<1>2. Holding' = Holding /\ (SharedLeft' <=> SharedLeft)
  BY Zenon DEF Holding, SharedLeft
<1>3. leftMu = d <=> leftMu' = d
  BY NoConnAssumption DEF Nobody
<1>4. QED BY <1>1, <1>2, <1>3, ZenonT(30) DEF ChildOK

(* A step of child c touches nothing of another child's.                   *)
Touches(c) ==
  /\ armed' \in [Conn -> BOOLEAN] /\ right' \in [Conn -> {"none", "open", "closed"}]
  /\ bpc' \in [Conn -> {"none", "relay", "waitChild", "done"}]
  /\ ends' \in [Conn -> SUBSET {"sp0", "sp1"}]
  /\ leftMu' # leftMu => leftMu \in {c, Nobody} /\ leftMu' \in {c, Nobody}
  /\ \A d \in Conn : d # c => /\ armed'[d] = armed[d] /\ right'[d] = right[d]
                             /\ bpc'[d] = bpc[d] /\ ends'[d] = ends[d]

LEMMA SameCount ==
  ASSUME IInv, In(Active)' = In(Active), In(Slotted)' = In(Slotted), wg' = wg, slots' = slots,
         cfg' = cfg, Hand' = Hand
  PROVE  Counted'
  BY Zenon DEF IInv, Counted

(* A child's step among the places where it counts, or past them all.      *)
LEMMA ChildMove ==
  ASSUME IInv, OnlyChild, UNCHANGED <<slots, wg>>, NEW c \in Conn, NEW to,
         cpc' = [cpc EXCEPT ![c] = to],
         \/ cpc[c] \in Active /\ to \in Active
         \/ cpc[c] = "close" /\ to = "ended",
         \/ conn' = conn /\ to # "ended"
         \/ conn' = [conn EXCEPT ![c] = "closed"],
         Touches(c), ChildOK(c)'
  PROVE  IInv'
<1>1. TypeOK
  BY Zenon DEF IInv
<1>2. cpc[c] # "none" /\ to # "none" /\ (to \in Active => cpc[c] \in Active)
      /\ (cpc[c] \in Active <=> to \in Active) /\ (cpc[c] \in Slotted <=> to \in Slotted)
      /\ to \in Slotted \cup {"none", "close", "ended"}
  BY ZenonT(60) DEF Active, Working, Slotted
<1>3. Hands'
  BY <1>2, ChildHands, Zenon
<1>4. In(Active)' = In(Active) /\ In(Slotted)' = In(Slotted)
  BY <1>1, <1>2, InSame, Zenon
<1>5. Counted'
  BY Zenon, <1>4, SameCount DEF OnlyChild, parentVars, Hand
<1>6. conn' \in [Conn -> {"none", "queued", "open", "closed", "gone"}]
      /\ \A d \in Conn : d # c => conn'[d] = conn[d] /\ cpc'[d] = cpc[d]
  BY ZenonT(60), <1>1 DEF TypeOK, AcceptTypeOK
<1>7. TypeOK'
  <2>1. cpc' \in [Conn -> Slotted \cup {"none", "close", "ended"}]
    BY Zenon, <1>1, <1>2 DEF TypeOK
  <2>2. AcceptTypeOK'
    BY <1>1, <1>6, Zenon DEF TypeOK, AcceptTypeOK, OnlyChild
  <2>3. leftMu' \in Conn \cup {Nobody}
    BY ZenonT(60), <1>1 DEF TypeOK, Touches
  <2>4. QED BY <1>1, <2>1, <2>2, <2>3, Zenon DEF TypeOK, OnlyChild, parentVars, Touches
<1>8. ASSUME NEW d \in Conn PROVE ChildOK(d)'
  <2>1. CASE d = c
    BY Zenon, <2>1
  <2>2. CASE d # c
    BY Zenon, <1>6, <2>2, Others DEF Touches, OnlyChild, parentVars
  <2>3. QED BY Zenon, <2>1, <2>2
<1>9. QED BY Zenon, <1>3, <1>5, <1>7, <1>8 DEF IInv

(* One more: a child's steps, each with what the child owns after it.      *)
LEMMA ChildSteps ==
  ASSUME IInv, NEW c \in Conn,
         \/ Start(c) \/ Lock(c) \/ CloseRight(c) \/ Unlock(c) \/ StartBridge(c) \/ BridgeJoin(c)
         \/ Stop(c) \/ Prepare(c) \/ OpenRight(c) \/ SessionEnds(c) \/ WaitForkChild(c)
         \/ BridgeEnds(c) \/ Close(c)
  PROVE  IInv'
<1>1. TypeOK /\ ChildOK(c) /\ cfg.role \in Role
  BY Zenon, CfgType DEF IInv
<1> USE DEF Child, CloseConn, acceptVars, Working
<1>2. CASE Start(c)
  <2> DEFINE to == IF cfg.role = "listenRight" THEN "lock" ELSE "prepare"
  <2>1. Touches(c)
    BY Zenon, <1>1, <1>2 DEF Start, TypeOK, Touches
  <2>2. ChildOK(c)'
    BY ZenonT(60), <1>1, <1>2 DEF Start, TypeOK, ChildOK, Holding, SharedLeft, OwnRight, parentVars
  <2>3. /\ OnlyChild /\ UNCHANGED <<slots, wg>> /\ cpc' = [cpc EXCEPT ![c] = to] /\ conn' = conn
        /\ cpc[c] \in Active /\ to \in Active /\ to # "ended"
    BY Zenon, <1>2 DEF Start, OnlyChild, Active, Working
  <2>4. QED BY <2>1, <2>2, <2>3, ChildMove, Zenon
<1>3. CASE Lock(c)
  <2> DEFINE to == IF cfg.role = "listenRight" THEN "prepare" ELSE "session"
  <2>1. Touches(c)
    BY Zenon, <1>1, <1>3 DEF Lock, TypeOK, Touches
  <2>2. ChildOK(c)'
    BY ZenonT(60), <1>1, <1>3 DEF Lock, TypeOK, ChildOK, Holding, SharedLeft, OwnRight,
       parentVars, AcceptTypeOK
  <2>3. /\ OnlyChild /\ UNCHANGED <<slots, wg>> /\ cpc' = [cpc EXCEPT ![c] = to]
        /\ conn' = conn
        /\ cpc[c] \in Active /\ to \in Active /\ to # "ended"
    BY Zenon, <1>3 DEF Lock, OnlyChild, Active, Working
  <2>4. QED BY <2>1, <2>2, <2>3, ChildMove, Zenon
<1>4. CASE CloseRight(c)
  <2> DEFINE to == "stop"
  <2>1. Touches(c)
    BY Zenon, <1>1, <1>4 DEF CloseRight, TypeOK, Touches
  <2>2. ChildOK(c)'
    BY Zenon, <1>1, <1>4 DEF CloseRight, TypeOK, ChildOK, Holding, SharedLeft, OwnRight,
       parentVars, AcceptTypeOK
  <2>3. /\ OnlyChild /\ UNCHANGED <<slots, wg>> /\ cpc' = [cpc EXCEPT ![c] = to]
        /\ conn' = conn
        /\ cpc[c] \in Active /\ to \in Active /\ to # "ended"
    BY Zenon, <1>4 DEF CloseRight, OnlyChild, Active, Working
  <2>4. QED BY <2>1, <2>2, <2>3, ChildMove, Zenon
<1>5. CASE Unlock(c)
  <2>1. leftMu = c /\ c # Nobody
    BY Zenon, <1>1, <1>5, NoConnAssumption DEF Unlock, ChildOK, Holding, SharedLeft, Role, Nobody
  <2>2. Touches(c)
    BY Zenon, <1>1, <1>5, <2>1 DEF Unlock, TypeOK, Touches
  <2>3. ChildOK(c)'
    BY Zenon, <1>1, <1>5, <2>1 DEF Unlock, TypeOK, ChildOK, Holding, SharedLeft, OwnRight,
       parentVars
  <2>4. /\ OnlyChild /\ UNCHANGED <<slots, wg>> /\ cpc' = [cpc EXCEPT ![c] = "stop"] /\ conn' = conn
        /\ cpc[c] \in Active /\ "stop" \in Active /\ "stop" # "ended"
    BY Zenon, <1>5 DEF Unlock, OnlyChild, Active, Working
  <2>5. QED BY <2>2, <2>3, <2>4, ChildMove, Zenon
<1>6. CASE StartBridge(c)
  <2>1. PICK to : /\ cpc[c] = "bridge" /\ cpc' = [cpc EXCEPT ![c] = to]
                  /\ \/ /\ to = "bridging" /\ bpc' = [bpc EXCEPT ![c] = "relay"]
                        /\ ends' = [ends EXCEPT ![c] = {"sp0", "sp1"}]
                     \/ to = "closeRight" /\ bpc' = bpc /\ ends' = ends
    BY ZenonT(60), <1>1, <1>6 DEF StartBridge, Role
  <2>2. Touches(c)
    BY <1>1, <1>6, <2>1 DEF StartBridge, TypeOK, Touches
  <2>3. ChildOK(c)'
    BY ZenonT(60), <1>1, <1>6, <2>1 DEF StartBridge, TypeOK, ChildOK, Holding, SharedLeft,
       OwnRight, parentVars, AcceptTypeOK
  <2>4. /\ OnlyChild /\ UNCHANGED <<slots, wg>> /\ cpc' = [cpc EXCEPT ![c] = to]
        /\ conn' = conn
        /\ cpc[c] \in Active /\ to \in Active /\ to # "ended"
    BY Zenon, <1>6, <2>1 DEF StartBridge, OnlyChild, Active, Working
  <2>5. QED BY <2>2, <2>3, <2>4, ChildMove, Zenon
<1>7. CASE BridgeJoin(c)
  <2> DEFINE to == "closeRight"
  <2>1. Touches(c)
    BY Zenon, <1>1, <1>7 DEF BridgeJoin, TypeOK, Touches
  <2>2. ChildOK(c)'
    BY Zenon, <1>1, <1>7 DEF BridgeJoin, TypeOK, ChildOK, Holding, SharedLeft, OwnRight,
       parentVars, AcceptTypeOK
  <2>3. /\ OnlyChild /\ UNCHANGED <<slots, wg>> /\ cpc' = [cpc EXCEPT ![c] = to]
        /\ conn' = conn
        /\ cpc[c] \in Active /\ to \in Active /\ to # "ended"
    BY Zenon, <1>7 DEF BridgeJoin, OnlyChild, Active, Working
  <2>4. QED BY <2>1, <2>2, <2>3, ChildMove, Zenon
<1>8. CASE Stop(c)
  <2> DEFINE to == "done"
  <2>1. Touches(c)
    BY Zenon, <1>1, <1>8 DEF Stop, TypeOK, Touches
  <2>2. ChildOK(c)'
    BY ZenonT(60), <1>1, <1>8 DEF Stop, TypeOK, ChildOK, Holding, SharedLeft, OwnRight,
       parentVars, AcceptTypeOK
  <2>3. /\ OnlyChild /\ UNCHANGED <<slots, wg>> /\ cpc' = [cpc EXCEPT ![c] = to]
        /\ conn' = conn
        /\ cpc[c] \in Active /\ to \in Active /\ to # "ended"
    BY Zenon, <1>8 DEF Stop, OnlyChild, Active, Working
  <2>4. QED BY <2>1, <2>2, <2>3, ChildMove, ZenonT(60)
<1>9. CASE Prepare(c)
  <2>1. PICK to : /\ cpc[c] = "prepare" /\ cpc' = [cpc EXCEPT ![c] = to]
                  /\ to \in {"open", "session", "lock", "unlock", "stop"}
                  /\ to = "open" => ~SharedLeft
                  /\ to \in {"session", "unlock"} <=> cfg.role = "listenRight"
                  /\ to = "lock" => cfg.role = "dialRight"
    BY Zenon, <1>1, <1>9 DEF Prepare, Role, SharedLeft
  <2>2. UNCHANGED <<done, listener, conn, acc, result, call, parentVars, slots, wg, leftMu, armed,
                    right, bpc, ends>>
    BY Zenon, <1>9 DEF Prepare
  <2>3. Touches(c)
    BY Zenon, <1>1, <2>1, <2>2 DEF TypeOK, Touches
  <2>4. ChildOK(c)'
    BY Zenon, <1>1, <2>1, <2>2 DEF TypeOK, ChildOK, Holding, SharedLeft, OwnRight, parentVars
  <2>5. /\ OnlyChild /\ UNCHANGED <<slots, wg>> /\ cpc' = [cpc EXCEPT ![c] = to] /\ conn' = conn
        /\ cpc[c] \in Active /\ to \in Active /\ to # "ended"
    BY ZenonT(60), <2>1, <2>2 DEF OnlyChild, Active, Working
  <2>6. QED BY <2>3, <2>4, <2>5, ChildMove, Zenon
<1>10. CASE OpenRight(c)
  <2>1. PICK to : /\ cpc[c] = "open" /\ cpc' = [cpc EXCEPT ![c] = to]
                  /\ \/ to \in {"bridge", "session"} /\ right' = [right EXCEPT ![c] = "open"]
                     \/ to = "stop" /\ right' = right
    BY Zenon, <1>1, <1>10 DEF OpenRight, Role
  <2>2. Touches(c)
    BY Zenon, <1>1, <1>10, <2>1 DEF OpenRight, TypeOK, Touches
  <2>3. ChildOK(c)'
    BY ZenonT(60), <1>1, <1>10, <2>1 DEF OpenRight, TypeOK, ChildOK, Holding, SharedLeft,
       OwnRight, parentVars, AcceptTypeOK
  <2>4. /\ OnlyChild /\ UNCHANGED <<slots, wg>> /\ cpc' = [cpc EXCEPT ![c] = to]
        /\ conn' = conn
        /\ cpc[c] \in Active /\ to \in Active /\ to # "ended"
    BY Zenon, <1>10, <2>1 DEF OpenRight, OnlyChild, Active, Working
  <2>5. QED BY <2>2, <2>3, <2>4, ChildMove, Zenon
<1>11. CASE SessionEnds(c)
  <2> DEFINE to == IF SharedLeft THEN "unlock" ELSE "waitChild"
  <2>1. Touches(c)
    BY Zenon, <1>1, <1>11 DEF SessionEnds, TypeOK, Touches
  <2>2. ChildOK(c)'
    BY ZenonT(60), <1>1, <1>11 DEF SessionEnds, TypeOK, ChildOK, Holding, SharedLeft, OwnRight,
       parentVars, AcceptTypeOK
  <2>3. /\ OnlyChild /\ UNCHANGED <<slots, wg>> /\ cpc' = [cpc EXCEPT ![c] = to]
        /\ conn' = conn \/ conn' = [conn EXCEPT ![c] = "closed"]
        /\ cpc[c] \in Active /\ to \in Active /\ to # "ended"
    BY Zenon, <1>11 DEF SessionEnds, OnlyChild, Active, Working
  <2>4. QED BY <2>1, <2>2, <2>3, ChildMove, Zenon
<1>12. CASE WaitForkChild(c)
  <2> DEFINE to == "closeRight"
  <2>1. Touches(c)
    BY Zenon, <1>1, <1>12 DEF WaitForkChild, TypeOK, Touches
  <2>2. ChildOK(c)'
    BY Zenon, <1>1, <1>12 DEF WaitForkChild, TypeOK, ChildOK, Holding, SharedLeft, OwnRight,
       parentVars, AcceptTypeOK
  <2>3. /\ OnlyChild /\ UNCHANGED <<slots, wg>> /\ cpc' = [cpc EXCEPT ![c] = to]
        /\ conn' = conn
        /\ cpc[c] \in Active /\ to \in Active /\ to # "ended"
    BY Zenon, <1>12 DEF WaitForkChild, OnlyChild, Active, Working
  <2>4. QED BY <2>1, <2>2, <2>3, ChildMove, Zenon
<1>13. CASE BridgeEnds(c)
  <2> DEFINE to == "bridgeWait"
  <2>1. Touches(c)
    BY Zenon, <1>1, <1>13 DEF BridgeEnds, TypeOK, Touches
  <2>2. ChildOK(c)'
    BY ZenonT(60), <1>1, <1>13 DEF BridgeEnds, TypeOK, ChildOK, Holding, SharedLeft, OwnRight,
       parentVars, AcceptTypeOK
  <2>3. /\ OnlyChild /\ UNCHANGED <<slots, wg>> /\ cpc' = [cpc EXCEPT ![c] = to]
        /\ conn' = conn \/ conn' = [conn EXCEPT ![c] = "closed"]
        /\ cpc[c] \in Active /\ to \in Active /\ to # "ended"
    BY Zenon, <1>13 DEF BridgeEnds, OnlyChild, Active, Working
  <2>4. QED BY <2>1, <2>2, <2>3, ChildMove, Zenon
<1>14. CASE Close(c)
  <2> DEFINE to == "ended"
  <2>1. Touches(c)
    BY Zenon, <1>1, <1>14 DEF Close, TypeOK, Touches
  <2>2. ChildOK(c)'
    BY ZenonT(60), <1>1, <1>14 DEF Close, TypeOK, ChildOK, Holding, SharedLeft, OwnRight,
       parentVars, AcceptTypeOK
  <2>3. /\ OnlyChild /\ UNCHANGED <<slots, wg>> /\ cpc' = [cpc EXCEPT ![c] = to]
        /\ conn' = [conn EXCEPT ![c] = "closed"]
        /\ cpc[c] = "close" /\ to = "ended"
    BY Zenon, <1>14 DEF Close, OnlyChild, Active, Working
  <2>4. QED BY <2>1, <2>2, <2>3, ChildMove, Zenon
<1>15. QED
  BY <1>2, <1>3, <1>4, <1>5, <1>6, <1>7, <1>8, <1>9, <1>10, <1>11, <1>12, <1>13, <1>14, ZenonT(60)

(* Steps beside the child: its AfterFunc and its bridge goroutine.         *)
LEMMA BesideSteps ==
  ASSUME IInv, NEW c \in Conn, CancelConn(c) \/ BridgeRelayEnds(c) \/ BridgeWaitChild(c)
  PROVE  IInv'
<1>1. TypeOK /\ ChildOK(c) /\ cfg.role \in Role
  BY Zenon, CfgType DEF IInv
<1>2. cpc' = [cpc EXCEPT ![c] = cpc[c]]
  <2>1. cpc' = cpc
    BY Zenon DEF CancelConn, BridgeRelayEnds, BridgeWaitChild
  <2>2. QED BY Zenon, <1>1, <2>1 DEF TypeOK
<1>3. cpc[c] \in Active /\ cpc[c] # "ended"
  BY Zenon, <1>1 DEF CancelConn, BridgeRelayEnds, BridgeWaitChild, ChildOK, Active, Working
<1>4. OnlyChild /\ UNCHANGED <<slots, wg>>
  BY Zenon DEF CancelConn, BridgeRelayEnds, BridgeWaitChild, acceptVars, OnlyChild
<1>5. conn' = conn \/ conn' = [conn EXCEPT ![c] = "closed"]
  BY Zenon DEF CancelConn, CloseConn, BridgeRelayEnds, BridgeWaitChild, acceptVars
<1>6. CASE CancelConn(c)
  <2>1. Touches(c)
    BY Zenon, <1>1, <1>6 DEF CancelConn, TypeOK, Touches
  <2>2. ChildOK(c)'
    BY ZenonT(60), <1>1, <1>6 DEF CancelConn, CloseConn, TypeOK, AcceptTypeOK, ChildOK, Holding,
       SharedLeft,
                      OwnRight, parentVars
  <2>3. QED BY <1>2, <1>3, <1>4, <1>5, <2>1, <2>2, ChildMove, Zenon
<1>7. CASE BridgeRelayEnds(c)
  <2>1. Touches(c)
    BY Zenon, <1>1, <1>7 DEF BridgeRelayEnds, TypeOK, Touches
  <2>2. ChildOK(c)'
    BY ZenonT(60), <1>1, <1>7 DEF BridgeRelayEnds, acceptVars, TypeOK, ChildOK, Holding,
       SharedLeft, OwnRight,
                      parentVars
  <2>3. QED BY <1>2, <1>3, <1>4, <1>5, <2>1, <2>2, ChildMove, Zenon
<1>8. CASE BridgeWaitChild(c)
  <2>1. Touches(c)
    BY Zenon, <1>1, <1>8 DEF BridgeWaitChild, TypeOK, Touches
  <2>2. ChildOK(c)'
    BY Zenon, <1>1, <1>8 DEF BridgeWaitChild, acceptVars, TypeOK, ChildOK, Holding, SharedLeft,
       OwnRight,
                      parentVars
  <2>3. QED BY <1>2, <1>3, <1>4, <1>5, <2>1, <2>2, ChildMove, Zenon
<1>9. QED BY <1>6, <1>7, <1>8, Zenon

(* The deferred calls that count: wg.Done and the release of the slot.     *)
LEMMA CountingSteps ==
  ASSUME IInv, NEW c \in Conn, Done(c) \/ ReleaseSlot(c)
  PROVE  IInv'
<1>1. TypeOK /\ ChildOK(c) /\ Counted /\ cfg.role \in Role /\ cfg.max \in Nat
  BY Zenon, CfgType DEF IInv
<1>2. OnlyChild /\ conn' = conn /\ UNCHANGED <<leftMu, armed, right, bpc, ends>>
  BY Zenon DEF Done, ReleaseSlot, OnlyChild, acceptVars
<1>3. PICK to \in {"release", "close"} :
        /\ cpc' = [cpc EXCEPT ![c] = to] /\ cpc[c] \in {"done", "release"}
        /\ cpc[c] = "done" <=> to = "release"
  BY Zenon DEF Done, ReleaseSlot, Child
<1>4. cpc[c] # "none" /\ to # "none" /\ to # "ended" /\ to \notin Active
      /\ to \in Slotted \cup {"none", "close", "ended"}
  BY Zenon, <1>3 DEF Active, Working, Slotted
<1>5. Hands'
  BY <1>2, <1>3, <1>4, ChildHands, Zenon
<1>6. ASSUME NEW d \in Conn PROVE ChildOK(d)'
  <2>1. ChildOK(c)'
    BY ZenonT(60), <1>1, <1>2, <1>3 DEF OnlyChild, parentVars, TypeOK, ChildOK, Holding,
       SharedLeft, OwnRight, Working
  <2>2. CASE d # c
    <3>1. cpc'[d] = cpc[d]
      BY ZenonT(60), <1>1, <1>3, <2>2 DEF TypeOK
    <3>2. QED BY ZenonT(60), <1>2, <2>2, <3>1, Others DEF OnlyChild, parentVars
  <2>3. QED BY Zenon, <2>1, <2>2
<1>7. slots' \in Nat /\ wg' \in Nat /\ Counted'
  <2>1. CASE Done(c)
    <3>1. cpc[c] \in Active /\ cpc[c] \in Slotted /\ to \in Slotted
      BY Zenon, <1>3, <2>1 DEF Done, Child, Active, Working, Slotted
    <3>2. In(Slotted)' = In(Slotted)
      BY <1>1, <1>3, <3>1, InSame, Zenon
    <3>3. /\ IsFiniteSet(In(Active)') /\ Cardinality(In(Active)') = Cardinality(In(Active)) - 1
          /\ Cardinality(In(Active)) \in Nat /\ Cardinality(In(Active)) > 0
      BY <1>1, <1>3, <1>4, <3>1, InLeave, Zenon DEF Counted
    <3>4. wg' = wg - 1 /\ slots' = slots /\ cfg' = cfg /\ Hand' = Hand
      BY Zenon, <1>2, <2>1 DEF Done, OnlyChild, parentVars, Hand
    <3>5. QED BY <1>1, <3>2, <3>3, <3>4 DEF Counted, TypeOK
  <2>2. CASE ReleaseSlot(c)
    <3>1. cpc[c] \notin Active /\ cpc[c] \in Slotted /\ to \notin Slotted
      BY Zenon, <1>3, <2>2 DEF ReleaseSlot, Child, Active, Working, Slotted
    <3>2. In(Active)' = In(Active)
      BY <1>1, <1>3, <1>4, <3>1, InSame, Zenon
    <3>3. /\ IsFiniteSet(In(Slotted)') /\ Cardinality(In(Slotted)') = Cardinality(In(Slotted)) - 1
          /\ Cardinality(In(Slotted)) \in Nat /\ Cardinality(In(Slotted)) > 0
      BY <1>1, <1>3, <3>1, InLeave, ZenonT(60) DEF Counted
    <3>4. wg' = wg /\ cfg' = cfg /\ Hand' = Hand /\ Hand \in Nat
          /\ (cfg.max = 0 => slots' = slots) /\ (cfg.max > 0 => slots' = slots - 1 /\ slots > 0)
      BY <1>1, <1>2, <2>2 DEF ReleaseSlot, Release, OnlyChild, parentVars, Hand
    <3>5. QED BY <1>1, <3>2, <3>3, <3>4 DEF Counted, TypeOK
  <2>3. QED BY Zenon, <2>1, <2>2
<1>8. TypeOK'
  <2>1. cpc' \in [Conn -> Slotted \cup {"none", "close", "ended"}]
    BY Zenon, <1>1, <1>3, <1>4 DEF TypeOK
  <2>2. AcceptTypeOK'
    BY <1>1, <1>2, Zenon DEF TypeOK, AcceptTypeOK, OnlyChild
  <2>3. QED BY <1>1, <1>2, <1>7, <2>1, <2>2, ZenonT(60) DEF TypeOK, OnlyChild, parentVars
<1>9. QED BY Zenon, <1>5, <1>6, <1>7, <1>8 DEF IInv

-----------------------------------------------------------------------------
(* The steps of the parent and of the accepts leave the children alone,    *)
(* except that Spawn makes one.                                            *)
LEMMA ChildrenKept ==
  ASSUME IInv, cfg' = cfg, UNCHANGED childVars,
         \A c \in Conn : cpc[c] # "none" => conn'[c] \in {"open", "closed"}
  PROVE  /\ \A c \in Conn : ChildOK(c)'
         /\ In(Active)' = In(Active) /\ In(Slotted)' = In(Slotted)
<1>1. ASSUME NEW c \in Conn PROVE ChildOK(c)'
  <2>1. ChildOK(c)
    BY Zenon DEF IInv
  <2>2. Holding' = Holding /\ (SharedLeft' <=> SharedLeft)
    BY Zenon DEF Holding, SharedLeft
  <2>3. QED BY <2>1, <2>2, ZenonT(30) DEF ChildOK, childVars
<1>2. QED BY Zenon, <1>1 DEF In, childVars

(* What a closed listener does to the connections: only the queued are     *)
(* lost, and those are in nobody's hands.                                  *)
LEMMA ListenerCloses ==
  ASSUME TypeOK, CloseListener
  PROVE  /\ conn' \in [Conn -> {"none", "queued", "open", "closed", "gone"}]
         /\ \A c \in Conn : conn[c] = "open" <=> conn'[c] = "open"
         /\ \A c \in Conn : conn[c] = "closed" => conn'[c] = "closed"
  BY Zenon DEF CloseListener, TypeOK, AcceptTypeOK

(* The accept side: Hands, the types, and the connections of children.     *)
AcceptKeeps ==
  /\ AcceptTypeOK' /\ Hands'
  /\ \A c \in Conn : cpc[c] # "none" => conn'[c] \in {"open", "closed"}

LEMMA AcceptSteps ==
  ASSUME IInv, UNCHANGED <<parentVars, childVars>>,
         \/ Listening \/ Cancel
         \/ ppc = "accept" /\ Accept(cfg.timeout)
  PROVE  AcceptKeeps
<1>1. TypeOK /\ Hands /\ \A c \in Conn : cpc[c] # "none" => conn[c] \in {"open", "closed"}
  BY Zenon DEF IInv, ChildOK
<1>2. /\ ppc' = ppc /\ held' = held /\ left' = left /\ cpc' = cpc
      /\ held \in Conn \cup {NoConn} /\ result \in Conn \cup {NoConn} /\ NoConn \notin Conn
  BY Zenon, <1>1, NoConnAssumption DEF parentVars, childVars, TypeOK, AcceptTypeOK
<1> USE DEF Hands, OpenIsOwned, AcceptTypeOK, AcceptKeeps
<1>3. CASE Cancel
  <2>1. AcceptTypeOK'
    BY <1>1, <1>3, ZenonT(60) DEF Cancel, TypeOK
  <2>2. QED BY <1>1, <1>2, <1>3, <2>1, Zenon DEF Cancel
<1>4. CASE CancelListener
  <2>1. AcceptTypeOK'
    BY <1>1, <1>4, ListenerCloses, Zenon DEF CancelListener, CloseListener, TypeOK
  <2>2. QED BY <1>1, <1>2, <1>4, <2>1, ListenerCloses DEF CancelListener, TypeOK
<1>5. CASE AcceptError
  <2>1. AcceptTypeOK'
    BY <1>1, <1>5, ZenonT(60) DEF AcceptError, TypeOK
  <2>2. QED BY ZenonT(60), <1>1, <1>2, <1>5, <2>1 DEF AcceptError, TypeOK
<1>6. ASSUME NEW c \in Conn, Arrive(c) PROVE AcceptKeeps
  <2>1. conn' \in [Conn -> {"none", "queued", "open", "closed", "gone"}]
    BY Zenon, <1>1, <1>6 DEF Arrive, TypeOK
  <2>2. AcceptTypeOK'
    BY <1>1, <1>6, <2>1, ZenonT(60) DEF Arrive, TypeOK
  <2>3. QED BY <1>1, <1>2, <1>6, <2>2 DEF Arrive, TypeOK
<1>7. ASSUME NEW c \in Conn, AcceptConn(c) PROVE AcceptKeeps
  <2>1. conn' \in [Conn -> {"none", "queued", "open", "closed", "gone"}] /\ cpc[c] = "none"
    BY Zenon, <1>1, <1>7 DEF AcceptConn, TypeOK
  <2>2. AcceptTypeOK'
    BY <1>1, <1>7, <2>1, Zenon DEF AcceptConn, TypeOK
  <2>3. QED BY <1>1, <1>2, <1>7, <2>1, <2>2 DEF AcceptConn, TypeOK
<1>8. CASE ppc = "accept" /\ StartAccept
  <2>1. AcceptTypeOK'
    BY <1>1, <1>8, Zenon DEF StartAccept, TypeOK
  <2>2. QED BY ZenonT(60), <1>1, <1>2, <1>8, <2>1 DEF StartAccept, TypeOK
<1>9. CASE ppc = "accept" /\ TakeResult
  <2>1. AcceptTypeOK'
    BY <1>1, <1>9, ZenonT(60) DEF TakeResult, TypeOK
  <2>2. QED BY ZenonT(60), <1>1, <1>2, <1>9, <2>1 DEF TakeResult, TypeOK
<1>10. CASE ppc = "accept" /\ (AbortOnDone \/ AbortOnTimer(cfg.timeout))
  <2>1. AcceptTypeOK'
    BY <1>1, <1>10, ListenerCloses, ZenonT(60) DEF AbortOnDone, AbortOnTimer, CloseListener, TypeOK
  <2>2. QED BY <1>1, <1>2, <1>10, <2>1, ListenerCloses DEF AbortOnDone, AbortOnTimer, TypeOK
<1>11. CASE ppc = "accept" /\ DrainAccept
  <2>1. conn' \in [Conn -> {"none", "queued", "open", "closed", "gone"}]
    BY <1>1, <1>11 DEF DrainAccept, CloseConn, TypeOK
  <2>2. AcceptTypeOK'
    BY <1>1, <1>11, <2>1, Zenon DEF DrainAccept, TypeOK
  <2>3. QED BY <1>1, <1>2, <1>11, <2>2 DEF DrainAccept, CloseConn, TypeOK
<1>12. QED
  BY <1>3, <1>4, <1>5, <1>6, <1>7, <1>8, <1>9, <1>10, <1>11, ZenonT(60) DEF Listening, Accept

(* A step that touches no child: the slots must follow the parent's hand.  *)
SlotsFollow ==
  /\ slots' \in Nat
  /\ cfg.max > 0 => slots' = slots + Hand' - Hand /\ slots' <= cfg.max

ParentTypes ==
  /\ ppc' \in {"acquire", "accept", "filter", "dial", "spawn", "interval", "children",
               "close", "returned"}
  /\ held' \in Conn \cup {NoConn} /\ ret' \in {"none", "nil", "timeout", "error"}
  /\ left' \in {"open", "closed"}

LEMMA ParentMove ==
  ASSUME IInv, cfg' = cfg, UNCHANGED <<wg, childVars>>, AcceptKeeps, SlotsFollow, ParentTypes
  PROVE  IInv'
<1>1. TypeOK /\ Counted /\ cfg.max \in Nat
  BY Zenon, CfgType DEF IInv
<1>2. /\ \A c \in Conn : ChildOK(c)'
      /\ In(Active)' = In(Active) /\ In(Slotted)' = In(Slotted)
  BY Zenon, ChildrenKept DEF AcceptKeeps
<1>3. TypeOK'
  BY <1>1, Zenon DEF TypeOK, AcceptKeeps, SlotsFollow, ParentTypes, childVars
<1>4. Counted'
  <2>1. Cardinality(In(Slotted)) \in Nat /\ Hand \in Nat /\ Hand' \in Nat
    BY Zenon, <1>1, FS_CardinalityType DEF Counted, Hand
  <2>2. slots \in Nat
    BY Zenon, <1>1 DEF TypeOK
  <2>3. cfg.max > 0 => slots' = Cardinality(In(Slotted)) + Hand' /\ slots' <= cfg.max
    <3> DEFINE n == Cardinality(In(Slotted))
    <3>1. /\ cfg.max > 0 => slots = n + Hand
          /\ cfg.max > 0 => slots' = slots + Hand' - Hand /\ slots' <= cfg.max
      BY Zenon, <1>1 DEF Counted, SlotsFollow
    <3>2. n \in Nat /\ Hand \in Nat /\ Hand' \in Nat
      BY Zenon, <2>1
    <3> HIDE DEF n
    <3>3. cfg.max > 0 => slots' = n + Hand' /\ slots' <= cfg.max
      BY <3>1, <3>2
    <3>4. QED BY Zenon, <3>3 DEF n
  <2>4. /\ IsFiniteSet(In(Active)') /\ IsFiniteSet(In(Slotted)')
        /\ wg' = Cardinality(In(Active)')
        /\ cfg'.max > 0 => slots' = Cardinality(In(Slotted)') + Hand' /\ slots' <= cfg'.max
    BY <1>1, <1>2, <2>3, Zenon DEF Counted
  <2>5. QED BY Zenon, <2>4 DEF Counted
<1>5. QED BY Zenon, <1>2, <1>3, <1>4 DEF IInv, AcceptKeeps

(* What an unchanged accept side keeps, and the slot arithmetic.           *)
LEMMA AcceptRests ==
  ASSUME IInv, UNCHANGED <<done, listener, conn, acc>>, call' \in {call, "idle"},
         result' \in {result, NoConn}
  PROVE  AcceptTypeOK' /\ \A c \in Conn : cpc[c] # "none" => conn'[c] \in {"open", "closed"}
<1>1. AcceptTypeOK /\ \A c \in Conn : cpc[c] # "none" => conn[c] \in {"open", "closed"}
  BY Zenon DEF IInv, TypeOK, ChildOK
<1>2. call' \in {"idle", "select", "abort", "expire", "ok", "cancelled", "timeout", "error"}
      /\ result' \in Conn \cup {NoConn}
  BY Zenon, <1>1 DEF AcceptTypeOK
<1>3. QED BY <1>1, <1>2, Zenon DEF AcceptTypeOK

LEMMA SlotMoves ==
  ASSUME IInv
  PROVE  /\ Acquire /\ Hand = 0 /\ Hand' = 1 => SlotsFollow
         /\ Release /\ Hand = 1 /\ Hand' = 0 => SlotsFollow
         /\ slots' = slots /\ Hand' = Hand => SlotsFollow
<1>1. cfg.max \in Nat /\ slots \in Nat /\ (cfg.max > 0 => slots <= cfg.max)
      /\ Hand \in Nat
  BY Zenon, CfgType DEF IInv, TypeOK, Counted, Hand
<1>2. QED BY <1>1 DEF Acquire, Release, SlotsFollow

LEMMA ParentSteps ==
  ASSUME IInv,
         \/ AcquireSlot \/ AcquireCancelled \/ AcceptStep \/ AcceptFailed \/ AcceptOk
         \/ FilterRefuses \/ FilterAllows \/ DialFails \/ (\E c \in Conn : DialOk(c))
         \/ IntervalElapses \/ IntervalCancelled \/ WaitChildren \/ CloseParent
  PROVE  IInv'
<1>1. TypeOK /\ Hands /\ Counted /\ \A c \in Conn : cpc[c] # "none" => conn[c] \in {"open", "closed"}
  BY Zenon DEF IInv, ChildOK
<1>2. /\ held \in Conn \cup {NoConn} /\ result \in Conn \cup {NoConn} /\ NoConn \notin Conn
      /\ ret \in {"none", "nil", "timeout", "error"} /\ left \in {"open", "closed"}
      /\ ppc \in {"acquire", "accept", "filter", "dial", "spawn", "interval", "children",
                  "close", "returned"}
  BY Zenon, <1>1, NoConnAssumption DEF TypeOK, AcceptTypeOK
<1> USE DEF Parent, Returns, acceptVars
<1>3. CASE AcquireSlot
  <2>1. cfg' = cfg /\ UNCHANGED <<wg, childVars>> /\ ParentTypes
    BY Zenon, <1>2, <1>3 DEF AcquireSlot, ParentTypes
  <2>2. AcceptKeeps
    BY Zenon, <1>1, <1>3, AcceptRests DEF AcquireSlot, AcceptKeeps, Hands, OpenIsOwned, childVars
  <2>3. SlotsFollow
    BY ZenonT(60), <1>3, SlotMoves DEF AcquireSlot, Hand
  <2>4. QED BY ZenonT(60), <2>1, <2>2, <2>3, ParentMove
<1>4. CASE AcquireCancelled
  <2>1. cfg' = cfg /\ UNCHANGED <<wg, childVars>> /\ ParentTypes
    BY Zenon, <1>2, <1>4 DEF AcquireCancelled, ParentTypes
  <2>2. AcceptKeeps
    BY Zenon, <1>1, <1>4, AcceptRests DEF AcquireCancelled, AcceptKeeps, Hands, OpenIsOwned,
       childVars
  <2>3. SlotsFollow
    BY ZenonT(60), <1>4, SlotMoves DEF AcquireCancelled, Hand
  <2>4. QED BY Zenon, <2>1, <2>2, <2>3, ParentMove
<1>5. CASE AcceptStep
  <2>1. cfg' = cfg /\ UNCHANGED <<wg, childVars>> /\ ParentTypes
    BY Zenon, <1>2, <1>5 DEF AcceptStep, ParentTypes, parentVars
  <2>2. AcceptKeeps
    BY Zenon, <1>5, AcceptSteps DEF AcceptStep
  <2>3. SlotsFollow
    BY ZenonT(60), <1>5, SlotMoves DEF AcceptStep, Hand, parentVars
  <2>4. QED BY <2>1, <2>2, <2>3, ParentMove
<1>6. CASE AcceptFailed
  <2>1. cfg' = cfg /\ UNCHANGED <<wg, childVars>> /\ ParentTypes
    BY Zenon, <1>2, <1>6 DEF AcceptFailed, ParentTypes
  <2>2. AcceptKeeps
    BY Zenon, <1>1, <1>6, AcceptRests DEF AcceptFailed, AcceptKeeps, Hands, OpenIsOwned, childVars
  <2>3. SlotsFollow
    BY ZenonT(60), <1>6, SlotMoves DEF AcceptFailed, Hand
  <2>4. QED BY <2>1, <2>2, <2>3, ParentMove
<1>7. CASE AcceptOk
  <2>1. cfg' = cfg /\ UNCHANGED <<wg, childVars>> /\ ParentTypes
    BY Zenon, <1>2, <1>7 DEF AcceptOk, ParentTypes
  <2>2. AcceptKeeps
    BY Zenon, <1>1, <1>2, <1>7, AcceptRests DEF AcceptOk, AcceptKeeps, Hands, OpenIsOwned, childVars
  <2>3. SlotsFollow
    BY Zenon, <1>7, SlotMoves DEF AcceptOk, Hand
  <2>4. QED BY Zenon, <2>1, <2>2, <2>3, ParentMove
<1>8. CASE FilterRefuses
  <2>1. cfg' = cfg /\ UNCHANGED <<wg, childVars>> /\ ParentTypes
    BY Zenon, <1>2, <1>8 DEF FilterRefuses, ParentTypes
  <2>2. AcceptTypeOK' /\ \A c \in Conn : cpc[c] # "none" => conn'[c] \in {"open", "closed"}
    <3>1. conn' = [conn EXCEPT ![held] = "closed"]
          /\ conn \in [Conn -> {"none", "queued", "open", "closed", "gone"}] /\ held \in Conn
      BY ZenonT(60), <1>1, <1>2, <1>8 DEF FilterRefuses, CloseConn, TypeOK, AcceptTypeOK, Hands
    <3>2. conn' \in [Conn -> {"none", "queued", "open", "closed", "gone"}]
      BY Zenon, <3>1
    <3>3. \A c \in Conn : cpc[c] # "none" => conn'[c] \in {"open", "closed"}
      BY Zenon, <1>1, <3>1
    <3>4. QED BY <1>1, <1>8, <3>2, <3>3, ZenonT(60) DEF FilterRefuses, TypeOK, AcceptTypeOK
  <2>3. Hands'
    BY Zenon, <1>1, <1>2, <1>8 DEF FilterRefuses, CloseConn, Hands, OpenIsOwned, childVars,
       TypeOK, AcceptTypeOK
  <2>4. SlotsFollow
    BY ZenonT(60), <1>8, SlotMoves DEF FilterRefuses, Hand
  <2>5. QED BY ZenonT(60), <2>1, <2>2, <2>3, <2>4, ParentMove DEF AcceptKeeps
<1>9. CASE FilterAllows
  <2>1. cfg' = cfg /\ UNCHANGED <<wg, childVars>> /\ ParentTypes
    BY Zenon, <1>2, <1>9 DEF FilterAllows, ParentTypes
  <2>2. AcceptKeeps
    BY Zenon, <1>1, <1>9, AcceptRests DEF FilterAllows, AcceptKeeps, Hands, OpenIsOwned, childVars
  <2>3. SlotsFollow
    BY ZenonT(60), <1>9, SlotMoves DEF FilterAllows, Hand
  <2>4. QED BY Zenon, <2>1, <2>2, <2>3, ParentMove
<1>10. CASE DialFails
  <2>1. cfg' = cfg /\ UNCHANGED <<wg, childVars>> /\ ParentTypes
    BY Zenon, <1>2, <1>10 DEF DialFails, ParentTypes
  <2>2. AcceptKeeps
    BY Zenon, <1>1, <1>10, AcceptRests DEF DialFails, AcceptKeeps, Hands, OpenIsOwned, childVars
  <2>3. SlotsFollow
    BY Zenon, <1>10, SlotMoves DEF DialFails, Hand
  <2>4. QED BY <2>1, <2>2, <2>3, ParentMove
<1>11. ASSUME NEW c \in Conn, DialOk(c) PROVE IInv'
  <2>1. cfg' = cfg /\ UNCHANGED <<wg, childVars>> /\ ParentTypes
    BY Zenon, <1>2, <1>11 DEF DialOk, ParentTypes
  <2>2. cpc[c] = "none" /\ conn' = [conn EXCEPT ![c] = "open"]
        /\ conn \in [Conn -> {"none", "queued", "open", "closed", "gone"}]
    BY Zenon, <1>1, <1>11 DEF DialOk, TypeOK, AcceptTypeOK
  <2>3. AcceptTypeOK'
    <3>1. conn' \in [Conn -> {"none", "queued", "open", "closed", "gone"}]
      BY Zenon, <2>2
    <3>2. QED BY <1>1, <1>11, <3>1, Zenon DEF DialOk, TypeOK, AcceptTypeOK
  <2>4. \A d \in Conn : cpc[d] # "none" => conn'[d] \in {"open", "closed"}
    BY Zenon, <1>1, <2>2
  <2>5. Hands'
    BY Zenon, <1>1, <1>2, <1>11, <2>2 DEF DialOk, Hands, OpenIsOwned, childVars
  <2>6. SlotsFollow
    BY ZenonT(60), <1>11, SlotMoves DEF DialOk, Hand
  <2>7. QED BY ZenonT(60), <2>1, <2>3, <2>4, <2>5, <2>6, ParentMove DEF AcceptKeeps
<1>12. CASE IntervalElapses
  <2>1. cfg' = cfg /\ UNCHANGED <<wg, childVars>> /\ ParentTypes
    BY Zenon, <1>2, <1>12 DEF IntervalElapses, ParentTypes
  <2>2. AcceptKeeps
    BY ZenonT(60), <1>1, <1>12, AcceptRests DEF IntervalElapses, AcceptKeeps, Hands, OpenIsOwned,
       childVars
  <2>3. SlotsFollow
    BY ZenonT(60), <1>12, SlotMoves DEF IntervalElapses, Hand
  <2>4. QED BY Zenon, <2>1, <2>2, <2>3, ParentMove
<1>13. CASE IntervalCancelled
  <2>1. cfg' = cfg /\ UNCHANGED <<wg, childVars>> /\ ParentTypes
    BY Zenon, <1>2, <1>13 DEF IntervalCancelled, ParentTypes
  <2>2. AcceptKeeps
    BY Zenon, <1>1, <1>13, AcceptRests DEF IntervalCancelled, AcceptKeeps, Hands, OpenIsOwned,
       childVars
  <2>3. SlotsFollow
    BY ZenonT(60), <1>13, SlotMoves DEF IntervalCancelled, Hand
  <2>4. QED BY <2>1, <2>2, <2>3, ParentMove
<1>14. CASE WaitChildren
  <2>1. cfg' = cfg /\ UNCHANGED <<wg, childVars>> /\ ParentTypes
    BY Zenon, <1>2, <1>14 DEF WaitChildren, ParentTypes
  <2>2. \A c \in Conn : cpc[c] \notin Active
    <3>1. IsFiniteSet(In(Active)) /\ Cardinality(In(Active)) = 0
      BY Zenon, <1>1, <1>14 DEF WaitChildren, Counted
    <3>2. In(Active) = {}
      BY <3>1, FS_EmptySet, Zenon
    <3>3. QED BY Zenon, <3>2 DEF In
  <2>3. AcceptKeeps
    BY ZenonT(60), <1>1, <1>14, <2>2, AcceptRests DEF WaitChildren, AcceptKeeps, Hands,
       OpenIsOwned, childVars
  <2>4. SlotsFollow
    BY ZenonT(60), <1>14, SlotMoves DEF WaitChildren, Hand
  <2>5. QED BY Zenon, <2>1, <2>3, <2>4, ParentMove
<1>15. CASE CloseParent
  <2>1. cfg' = cfg /\ UNCHANGED <<wg, childVars>> /\ ParentTypes
    BY Zenon, <1>2, <1>15 DEF CloseParent, ParentTypes
  <2>2. AcceptTypeOK'
    BY <1>1, <1>15, ListenerCloses, ZenonT(60) DEF CloseParent, CloseListener, TypeOK, AcceptTypeOK
  <2>3. AcceptKeeps
    BY Zenon, <1>1, <1>15, <2>2, ListenerCloses
    DEF CloseParent, AcceptKeeps, Hands, OpenIsOwned, childVars
  <2>4. SlotsFollow
    BY Zenon, <1>15, SlotMoves DEF CloseParent, Hand
  <2>5. QED BY <2>1, <2>3, <2>4, ParentMove
<1>16. QED
  BY <1>3, <1>4, <1>5, <1>6, <1>7, <1>8, <1>9, <1>10, <1>11, <1>12, <1>13, <1>14, <1>15, ZenonT(60)

(* Spawn: the connection in the parent's hand becomes a child's, and the   *)
(* slot taken for it the child's slot.                                     *)
LEMMA SpawnStep ==
  ASSUME IInv, Spawn
  PROVE  IInv'
<1>1. TypeOK /\ Hands /\ Counted /\ cfg.role \in Role /\ cfg.max \in Nat
  BY Zenon, CfgType DEF IInv
<1>2. ppc = "spawn" /\ held \in Conn /\ cpc[held] = "none" /\ conn[held] = "open" /\ ChildOK(held)
  <2>1. ppc = "spawn" /\ held \in Conn /\ cpc[held] = "none" /\ conn[held] = "open"
    BY Zenon, <1>1 DEF Spawn, Parent, Hands, TypeOK
  <2>2. QED BY Zenon, <2>1 DEF IInv
<1>3. /\ ppc' \in {"acquire", "interval"} /\ wg' = wg + 1 /\ held' = NoConn /\ slots' = slots
      /\ cpc' = [cpc EXCEPT ![held] = "spawned"] /\ cfg' = cfg /\ ret' = ret /\ left' = left
      /\ UNCHANGED <<done, listener, conn, acc, result, call, leftMu, armed, right, bpc, ends>>
  BY Zenon DEF Spawn, Parent, acceptVars
<1>4. "spawned" \in Active /\ "spawned" \in Slotted /\ "none" \notin Active /\ "none" \notin Slotted
  BY Zenon DEF Active, Working, Slotted
<1>5. TypeOK'
  <2>1. cpc' \in [Conn -> Slotted \cup {"none", "close", "ended"}] /\ wg' \in Nat
    BY <1>1, <1>2, <1>3, <1>4 DEF TypeOK
  <2>2. AcceptTypeOK'
    BY <1>1, <1>3, Zenon DEF TypeOK, AcceptTypeOK
  <2>3. ParentTypes
    BY Zenon, <1>1, <1>3 DEF TypeOK, ParentTypes
  <2>4. QED BY <1>1, <1>3, <2>1, <2>2, <2>3, ZenonT(60) DEF TypeOK, ParentTypes
<1>6. Hands'
  <2>1. cpc'[held] = "spawned" /\ \A d \in Conn : d # held => cpc'[d] = cpc[d]
    BY Zenon, <1>1, <1>2, <1>3 DEF TypeOK
  <2>2. acc = "none" /\ call = "idle" /\ result = NoConn
    BY Zenon, <1>1, <1>2 DEF Hands
  <2>3. QED BY Zenon, <1>1, <1>2, <1>3, <2>1, <2>2 DEF Hands, OpenIsOwned
<1>7. ASSUME NEW d \in Conn PROVE ChildOK(d)'
  <2>1. CASE d = held
    <3>1. cpc'[d] = "spawned" /\ "spawned" \in Working
      BY ZenonT(60), <1>1, <1>2, <1>3, <2>1 DEF TypeOK, Working
    <3>2. QED
      BY <1>1, <1>2, <1>3, <2>1, <3>1 DEF ChildOK, Holding, SharedLeft, OwnRight, Working
  <2>2. CASE d # held
    <3>1. cpc'[d] = cpc[d]
      BY ZenonT(60), <1>1, <1>3, <2>2 DEF TypeOK
    <3>2. QED BY ZenonT(60), <1>2, <1>3, <2>2, <3>1, Others
  <2>3. QED BY Zenon, <2>1, <2>2
<1>8. Counted'
  <2>1. /\ IsFiniteSet(In(Active)') /\ Cardinality(In(Active)') = Cardinality(In(Active)) + 1
        /\ IsFiniteSet(In(Slotted)') /\ Cardinality(In(Slotted)') = Cardinality(In(Slotted)) + 1
        /\ Cardinality(In(Slotted)) \in Nat
    BY <1>1, <1>2, <1>3, <1>4, InEnter, ZenonT(60) DEF Counted
  <2>2. Hand = 1 /\ Hand' = 0
    BY Zenon, <1>2, <1>3 DEF Hand
  <2>3. QED BY <1>1, <1>3, <2>1, <2>2 DEF Counted
<1>9. QED BY Zenon, <1>5, <1>6, <1>7, <1>8 DEF IInv

LEMMA EnvironmentStep ==
  ASSUME IInv, Environment
  PROVE  IInv'
<1>1. cfg' = cfg /\ UNCHANGED <<wg, childVars>> /\ UNCHANGED <<parentVars, childVars>>
      /\ slots' = slots /\ Hand' = Hand
  BY Zenon DEF Environment, parentVars, Hand
<1>2. ParentTypes
  BY Zenon DEF Environment, parentVars, ParentTypes, IInv, TypeOK
<1>3. AcceptKeeps
  BY <1>1, AcceptSteps, Zenon DEF Environment
<1>4. SlotsFollow
  BY Zenon, <1>1, SlotMoves
<1>5. QED BY ZenonT(60), <1>1, <1>2, <1>3, <1>4, ParentMove

LEMMA NextIInv == IInv /\ [Next]_vars => IInv'
<1> SUFFICES ASSUME IInv, [Next]_vars PROVE IInv'
  OBVIOUS
<1>1. CASE UNCHANGED vars
  <2>1. cfg' = cfg /\ UNCHANGED <<wg, childVars>> /\ slots' = slots /\ Hand' = Hand /\ cpc' = cpc
        /\ UNCHANGED <<done, listener, conn, acc>> /\ call' = call /\ result' = result
        /\ ppc' = ppc /\ held' = held /\ left' = left /\ ret' = ret
    BY Zenon, <1>1 DEF vars, acceptVars, parentVars, childVars, Hand
  <2>2. AcceptKeeps
    <3>1. Hands'
      BY <2>1, Zenon DEF IInv, Hands, OpenIsOwned
    <3>2. QED BY Zenon, <2>1, <3>1, AcceptRests DEF AcceptKeeps
  <2>3. SlotsFollow
    BY Zenon, <2>1, SlotMoves
  <2>4. ParentTypes
    BY <2>1, Zenon DEF IInv, TypeOK, ParentTypes
  <2>5. QED BY Zenon, <2>1, <2>2, <2>3, <2>4, ParentMove
<1>2. CASE Terminated
  BY Zenon, <1>1, <1>2 DEF Terminated
<1>3. CASE ParentStep
  BY <1>3, ParentSteps, SpawnStep, Zenon DEF ParentStep
<1>4. ASSUME NEW c \in Conn, ChildStep(c) \/ ChildWait(c) \/ CancelConn(c) \/ BridgeStep(c)
      PROVE  IInv'
  BY <1>4, ChildSteps, BesideSteps, CountingSteps, Zenon DEF ChildStep, ChildWait, BridgeStep
<1>5. QED BY <1>1, <1>2, <1>3, <1>4, EnvironmentStep, Zenon DEF Next

LEMMA Inductive == Spec => []IInv
  BY InitIInv, NextIInv, PTL DEF Spec

-----------------------------------------------------------------------------
(* One more connection than the slotted children is at most what the       *)
(* parent has in hand, for which it has taken a slot.                      *)
LEMMA HandCounts ==
  ASSUME IInv, cfg.max > 0
  PROVE  Cardinality({c \in Conn : cpc[c] \in Active \/ c \in {held, result}}) <= cfg.max
<1> DEFINE S == In(Slotted)
           T == {c \in Conn : cpc[c] \in Active \/ c \in {held, result}}
<1>1. /\ IsFiniteSet(S) /\ slots = Cardinality(S) + Hand /\ slots <= cfg.max
      /\ Hands /\ TypeOK /\ cfg.max \in Nat
  BY Zenon, CfgType DEF IInv, Counted
<1>2. Cardinality(S) \in Nat
  BY <1>1, FS_CardinalityType, ZenonT(60)
<1>3. ASSUME NEW h \in Conn, T \subseteq S \cup {h}, cpc[h] = "none", Hand = 1
      PROVE  Cardinality(T) <= cfg.max
  <2>1. h \notin S
    BY Zenon, <1>3 DEF In, Slotted, Active, Working
  <2>2. IsFiniteSet(S \cup {h}) /\ Cardinality(S \cup {h}) = Cardinality(S) + 1
    BY Zenon, <1>1, <2>1, FS_AddElement
  <2>3. IsFiniteSet(T) /\ Cardinality(T) <= Cardinality(S \cup {h})
    BY <1>3, <2>2, FS_Subset, Zenon
  <2>4. Cardinality(T) \in Nat
    BY <2>3, FS_CardinalityType, Zenon
  <2> HIDE DEF S, T
  <2>5. QED BY <1>1, <1>2, <1>3, <2>2, <2>3, <2>4
<1>4. \A c \in T : c \in S \/ c = held \/ c = result
  BY Zenon DEF In, Slotted
<1>5. CASE held # NoConn
  <2>1. result = NoConn /\ held \in Conn /\ cpc[held] = "none" /\ Hand = 1
    BY Zenon, <1>1, <1>5 DEF Hands, TypeOK, Hand
  <2>2. T \subseteq S \cup {held}
    BY Zenon, <1>4, <2>1, NoConnAssumption
  <2>3. QED BY Zenon, <1>3, <2>1, <2>2
<1>6. CASE result # NoConn
  <2>1. held = NoConn /\ result \in Conn /\ cpc[result] = "none" /\ Hand = 1
    BY Zenon, <1>1, <1>6 DEF Hands, TypeOK, AcceptTypeOK, Hand
  <2>2. T \subseteq S \cup {result}
    BY Zenon, <1>4, <2>1, NoConnAssumption
  <2>3. QED BY Zenon, <1>3, <2>1, <2>2
<1>7. CASE held = NoConn /\ result = NoConn
  <2>1. T \subseteq S
    BY Zenon, <1>4, <1>7, NoConnAssumption
  <2>2. IsFiniteSet(T) /\ Cardinality(T) <= Cardinality(S)
    BY <1>1, <2>1, FS_Subset, Zenon
  <2>3. Cardinality(T) \in Nat /\ Hand \in Nat
    BY Zenon, <2>2, FS_CardinalityType DEF Hand
  <2> HIDE DEF S, T
  <2>4. Cardinality(T) <= cfg.max
    BY <1>1, <1>2, <2>2, <2>3
  <2>5. QED BY Zenon, <2>4 DEF T
<1>8. QED BY Zenon, <1>5, <1>6, <1>7

(* max-children, for any limit and any connections: the slot channel holds *)
(* exactly one entry for each child that has not released its own and for  *)
(* the connection in the parent's hand, and never more sessions run than   *)
(* were allowed (childSlots and spawnForkChild of run.go).                 *)
THEOREM SlotsAreExact == Spec => []SlotsExact
<1>1. IInv => SlotsExact
  <2> SUFFICES ASSUME IInv PROVE SlotsBalanced /\ MaxChildrenRespected
    BY Zenon DEF SlotsExact
  <2>1. SlotsBalanced
    BY Zenon DEF IInv, Counted, SlotsBalanced, In, Hand
  <2>2. QED BY Zenon, <2>1, HandCounts DEF MaxChildrenRespected
<1>2. QED BY Inductive, <1>1, PTL

(* No accept that races the timeout, the cancellation or the filter leaves *)
(* an open connection that nobody will close (acceptUntil, drainAccept).   *)
THEOREM NoConnectionLeaks == Spec => []OpenIsOwned
<1>1. IInv => OpenIsOwned
  BY Zenon DEF IInv, Hands
<1>2. QED BY Inductive, <1>1, PTL

(* A session's streams stay open under it, a child leaves nothing behind   *)
(* and the loop returns only after its children (runForkSession,           *)
(* runForkBridge, the deferred calls of spawnForkChild, children.Wait).    *)
THEOREM NothingOutlives == Spec => []NothingLeft
<1>1. IInv => NothingLeft
  <2> SUFFICES ASSUME IInv PROVE NothingLeft
    OBVIOUS
  <2>1. TypeOK /\ Hands /\ (\A c \in Conn : ChildOK(c)) /\ cfg.role \in Role
    BY Zenon, CfgType DEF IInv
  <2>2. ASSUME NEW c \in Conn
        PROVE  /\ cpc[c] = "session" =>
                    IF SharedLeft THEN leftMu = c /\ left = "open" ELSE right[c] = "open"
               /\ bpc[c] = "relay" => right[c] = "open"
    <3>1. ChildOK(c)
      BY Zenon, <2>1
    <3>2. cpc[c] = "session" => cpc[c] \in Active
      BY Zenon DEF Active, Working
    <3>3. cpc[c] = "session" /\ SharedLeft => leftMu = c
      BY Zenon, <2>1, <3>1 DEF ChildOK, Holding, SharedLeft, Role
    <3>4. QED BY Zenon, <2>1, <3>1, <3>2, <3>3 DEF ChildOK, Hands
  <2>3. ReturnAfterChildren
    <3>1. SUFFICES ASSUME ppc \in {"close", "returned"} PROVE
            /\ acc = "none" /\ result = NoConn /\ held = NoConn
            /\ \A c \in Conn : cpc[c] \notin Active /\ bpc[c] \in {"none", "done"}
      BY Zenon DEF ReturnAfterChildren
    <3>2. \A c \in Conn : cpc[c] \notin Active
      BY Zenon, <2>1, <3>1 DEF Hands
    <3>3. ASSUME NEW c \in Conn PROVE bpc[c] \in {"none", "done"}
      BY Zenon, <2>1, <3>2 DEF ChildOK, TypeOK, Active, Working
    <3>4. QED BY Zenon, <2>1, <3>1, <3>2, <3>3 DEF Hands
  <2>4. ChildLeavesNothing
    <3>1. SUFFICES ASSUME NEW c \in Conn,
                          cpc[c] \in {"stop", "done", "release", "close", "ended"}
                   PROVE  /\ bpc[c] \in {"none", "done"} /\ ends[c] = {} /\ right[c] # "open"
                          /\ leftMu # c
      BY Zenon DEF ChildLeavesNothing
    <3>2. ChildOK(c)
      BY Zenon, <2>1
    <3>3. bpc[c] \in {"none", "done"}
      BY ZenonT(60), <2>1, <3>1, <3>2 DEF ChildOK, TypeOK
    <3>4. ends[c] = {}
      BY <2>1, <3>1, <3>2, <3>3 DEF ChildOK, TypeOK
    <3>5. QED BY Zenon, <3>1, <3>2, <3>3, <3>4 DEF ChildOK, OwnRight, Holding
  <2>5. QED BY ZenonT(60), <2>2, <2>3, <2>4 DEF NothingLeft, StreamsOutliveSessions
<1>2. QED BY Inductive, <1>1, PTL
=============================================================================
