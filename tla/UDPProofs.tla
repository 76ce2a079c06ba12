------------------------------ MODULE UDPProofs ------------------------------
(***************************************************************************)
(* Proofs about UDPDispatch, for every set of peers, every queue capacity  *)
(* and every bound on sessions and datagrams: the map is exact until the   *)
(* listener is shut down, and shutting it down closes every session.       *)
(***************************************************************************)
EXTENDS UDPDispatch, TLAPS

USE SMTT(60)

(* Only sessions that were made can be seen, and they have a peer.         *)
Known ==
  /\ \A k \in Child : owner[k] # "none" <=> k <= made
  /\ \A k \in Child : cdone[k] => k <= made
  /\ \A k \in Child : removing[k] => cdone[k]
  /\ \A k \in Child : k <= made => of[k] \in Peer
  /\ \A k \in doomed : k <= made
  /\ \A p \in Peer : sessions[p] <= made

(* What the goroutines hold at each of their points.                       *)
Held ==
  /\ \A i \in 1 .. Len(accepts) : accepts[i] <= made
  /\ child <= made /\ taken <= made
  /\ rpc \in {"enqueue", "offer", "refuse"} => child # None
  /\ rpc \in {"lookup", "enqueue", "register"} => peer \in Peer
  /\ apc = "took" => taken # None
  /\ ldone <=> down # "no"

(* A map entry is of its peer, and closed only while its Close removes it. *)
Entries ==
  \A p \in Peer : sessions[p] # None =>
    of[sessions[p]] = p /\ (cdone[sessions[p]] => removing[sessions[p]])

(* The live sessions: before shutdown clears the map they are the entries, *)
(* and readLoop knows the one of its datagram's peer; then shutdown has    *)
(* them; then there are none.                                              *)
Reached ==
  \A k \in Child : Live(k) =>
    /\ down \in {"no", "clear"} => /\ sessions[of[k]] = k
                                   /\ rpc = "enqueue" /\ of[k] = peer => k = child
                                   /\ rpc = "register" => of[k] # peer
    /\ down = "children" => k \in doomed
    /\ down \notin {"drain", "over"}

Cleared == down \in {"children", "drain", "over"} => \A p \in Peer : sessions[p] = None

IInv == TypeOK /\ Known /\ Held /\ Entries /\ Reached /\ Cleared

-----------------------------------------------------------------------------
LEMMA Numbers ==
  /\ MaxChild \in Nat /\ MaxPacket \in Nat /\ AcceptQueue \in Nat /\ PacketQueue \in Nat
  /\ None \notin Child /\ Child \subseteq Nat /\ None \in Nat /\ NoPeer \notin Peer
BY DispatchAssumption DEF Child, None

LEMMA InitIInv == Init => IInv
<1> SUFFICES ASSUME Init PROVE IInv
  OBVIOUS
<1>1. Len(accepts) = 0 /\ accepts \in Seq(Child)
  BY DEF Init
<1>2. TypeOK
  <2>1. {ldone} \subseteq BOOLEAN /\ cdone \in [Child -> BOOLEAN] /\ removing \in [Child -> BOOLEAN]
        /\ pending \in [Child -> BOOLEAN] /\ token \in [Child -> BOOLEAN]
    BY ZenonT(60) DEF Init
  <2>2. received \in 0 .. MaxPacket /\ made \in 0 .. MaxChild /\ queued \in [Child -> 0 .. PacketQueue]
        /\ Len(accepts) <= AcceptQueue
    BY <1>1, Numbers DEF Init
  <2>3. sessions \in [Peer -> Child \cup {None}] /\ of \in [Child -> Peer \cup {NoPeer}]
        /\ owner \in [Child -> {"none", "loop", "queue", "accept", "user", "lost"}]
        /\ rd \in [Child -> {"out", "load", "wait"}] /\ deadline \in [Child -> {"none", "past"}]
    BY DEF Init
  <2>. QED  BY <1>1, <2>1, <2>2, <2>3 DEF Init, TypeOK
<1>3. Known /\ Held
  <2>1. \A k \in Child : owner[k] = "none" /\ ~cdone[k] /\ ~removing[k]
    BY ZenonT(60) DEF Init
  <2>2. made = 0 /\ child = 0 /\ taken = 0 /\ doomed = {} /\ \A p \in Peer : sessions[p] = 0
    BY DEF Init, None
  <2>3. \A k \in Child : ~(k <= made)
    BY <2>2 DEF Child
  <2>4. ldone <=> down # "no"
    BY ZenonT(60) DEF Init
  <2>. QED  BY <1>1, <2>1, <2>2, <2>3, <2>4, Numbers DEF Init, Known, Held
<1>4. Entries /\ Reached /\ Cleared
  BY DEF Init, Entries, Reached, Live, Cleared
<1>. QED  BY <1>2, <1>3, <1>4 DEF IInv

(* Close marks one session, and leaves it for remove unless it was closed. *)
LEMMA Closes ==
  ASSUME TypeOK, NEW k \in Child, StartClose(k)
  PROVE  /\ cdone' \in [Child -> BOOLEAN] /\ removing' \in [Child -> BOOLEAN]
         /\ cdone'[k] /\ (removing'[k] <=> removing[k] \/ ~cdone[k])
         /\ \A j \in Child : j # k => cdone'[j] = cdone[j] /\ removing'[j] = removing[j]
<1>1. cdone \in [Child -> BOOLEAN] /\ removing \in [Child -> BOOLEAN]
  BY DEF TypeOK
<1>2. /\ cdone' = [cdone EXCEPT ![k] = TRUE]
      /\ removing' = [removing EXCEPT ![k] = removing[k] \/ ~cdone[k]]
  BY DEF StartClose
<1>. QED  BY ZenonT(60), <1>1, <1>2

(* A step of readLoop, of Accept or of a user that at most closes sessions *)
(* in the way Close does keeps the map exact.                              *)
Steady ==
  /\ UNCHANGED <<sessions, of, made, doomed, down>>
  /\ \A k \in Child : owner'[k] # "none" <=> owner[k] # "none"
  /\ \A k \in Child : cdone[k] => cdone'[k]
  /\ \A k \in Child : cdone'[k] /\ ~cdone[k] => removing'[k] /\ k <= made
  /\ \A k \in Child : cdone[k] => removing'[k] = removing[k]
  /\ \A k \in Child : ~cdone'[k] => removing'[k] = removing[k]
  /\ rpc' \in {"enqueue", "register"} => UNCHANGED <<rpc, peer, child>>

LEMMA SteadyStep ==
  ASSUME IInv, Steady
  PROVE  Known' /\ Entries' /\ Reached' /\ Cleared'
<1>1. sessions \in [Peer -> Child \cup {None}]
  BY DEF IInv, TypeOK
<1>2. Known'
  BY ZenonT(60) DEF IInv, Known, Steady
<1>3. ASSUME NEW p \in Peer, sessions'[p] # None
      PROVE  of'[sessions'[p]] = p /\ (cdone'[sessions'[p]] => removing'[sessions'[p]])
  <2>1. sessions[p] \in Child /\ sessions'[p] = sessions[p] /\ of' = of
    BY <1>1, <1>3 DEF Steady
  <2>2. of[sessions[p]] = p /\ (cdone[sessions[p]] => removing[sessions[p]])
    BY <2>1, Numbers DEF IInv, Entries
  <2>. QED  BY ZenonT(60), <2>1, <2>2 DEF Steady
<1>4. Entries'
  BY <1>3 DEF Entries
<1>5. ASSUME NEW k \in Child, Live(k)' PROVE Live(k)
  BY ZenonT(60), <1>5 DEF Live, Steady
<1>6. Reached'
  <2> SUFFICES ASSUME NEW k \in Child, Live(k)'
               PROVE  /\ down' \in {"no", "clear"} =>
                           /\ sessions'[of'[k]] = k
                           /\ rpc' = "enqueue" /\ of'[k] = peer' => k = child'
                           /\ rpc' = "register" => of'[k] # peer'
                      /\ down' = "children" => k \in doomed'
                      /\ down' \notin {"drain", "over"}
    BY ZenonT(60) DEF Reached
  <2>1. Live(k)
    BY <1>5
  <2>. QED  BY ZenonT(60), <2>1 DEF IInv, Reached, Steady
<1>7. Cleared'
  BY ZenonT(60) DEF IInv, Cleared, Steady
<1>. QED  BY <1>2, <1>4, <1>6, <1>7

LEMMA SteadySame ==
  ASSUME UNCHANGED <<sessions, of, made, doomed, down, owner, cdone, removing>>,
         rpc' \in {"enqueue", "register"} => UNCHANGED <<rpc, peer, child>>
  PROVE  Steady
BY ZenonT(60) DEF Steady

LEMMA SteadyClose ==
  ASSUME IInv, NEW k \in Child, k <= made, StartClose(k),
         UNCHANGED <<sessions, of, made, doomed, down>>,
         \A j \in Child : owner'[j] # "none" <=> owner[j] # "none",
         rpc' \in {"enqueue", "register"} => UNCHANGED <<rpc, peer, child>>
  PROVE  Steady
<1>1. /\ cdone'[k] /\ (removing'[k] <=> removing[k] \/ ~cdone[k])
      /\ \A j \in Child : j # k => cdone'[j] = cdone[j] /\ removing'[j] = removing[j]
  BY Closes DEF IInv
<1>2. cdone \in [Child -> BOOLEAN] /\ removing \in [Child -> BOOLEAN] /\ removing' \in [Child -> BOOLEAN]
  BY Closes DEF IInv, TypeOK
<1>3. ASSUME NEW j \in Child
      PROVE  /\ cdone[j] => cdone'[j]
             /\ cdone'[j] /\ ~cdone[j] => removing'[j] /\ j <= made
             /\ cdone[j] => removing'[j] = removing[j]
             /\ ~cdone'[j] => removing'[j] = removing[j]
  <2>1. CASE j = k
    <3>1. cdone[k] => removing'[k] = removing[k]
      <4>1. removing[k] \in BOOLEAN /\ removing'[k] \in BOOLEAN
        BY <1>2
      <4>. QED  BY ZenonT(60), <1>1, <4>1
    <3>. QED  BY ZenonT(60), <1>1, <2>1, <3>1
  <2>2. CASE j # k
    BY ZenonT(60), <1>1, <2>2
  <2>. QED  BY <2>1, <2>2
<1>. QED  BY ZenonT(60), <1>3 DEF Steady

(* The types, by whose state it is.                                        *)
ListenerTypes ==
  /\ {ldone} \subseteq BOOLEAN /\ down \in {"no", "clear", "children", "drain", "over"}
  /\ doomed \subseteq Child /\ sessions \in [Peer -> Child \cup {None}]
  /\ accepts \in Seq(Child) /\ Len(accepts) <= AcceptQueue
  /\ apc \in {"idle", "select", "took"} /\ taken \in Child \cup {None}
LoopTypes ==
  /\ rpc \in {"read", "lookup", "enqueue", "register", "offer", "refuse", "over"}
  /\ peer \in Peer \cup {NoPeer} /\ child \in Child \cup {None}
  /\ received \in 0 .. MaxPacket /\ made \in 0 .. MaxChild
CloseTypes ==
  /\ owner \in [Child -> {"none", "loop", "queue", "accept", "user", "lost"}]
  /\ of \in [Child -> Peer \cup {NoPeer}]
  /\ cdone \in [Child -> BOOLEAN] /\ removing \in [Child -> BOOLEAN]
ReadTypes ==
  /\ queued \in [Child -> 0 .. PacketQueue] /\ pending \in [Child -> BOOLEAN]
  /\ rd \in [Child -> {"out", "load", "wait"}]
  /\ deadline \in [Child -> {"none", "past"}] /\ token \in [Child -> BOOLEAN]

LEMMA TypeParts == TypeOK <=> ListenerTypes /\ LoopTypes /\ CloseTypes /\ ReadTypes
BY ZenonT(60) DEF TypeOK, ListenerTypes, LoopTypes, CloseTypes, ReadTypes

LEMMA TypePartsNext == TypeOK' <=> ListenerTypes' /\ LoopTypes' /\ CloseTypes' /\ ReadTypes'
BY ZenonT(60) DEF TypeOK, ListenerTypes, LoopTypes, CloseTypes, ReadTypes

LEMMA SameTypes ==
  /\ ListenerTypes /\ UNCHANGED <<listenerVars, sessions>> => ListenerTypes'
  /\ LoopTypes /\ UNCHANGED loopVars => LoopTypes'
  /\ CloseTypes /\ UNCHANGED <<owner, of, cdone, removing>> => CloseTypes'
  /\ ReadTypes /\ UNCHANGED <<queued, pending, rd, deadline, token>> => ReadTypes'
<1>1. ListenerTypes /\ UNCHANGED <<listenerVars, sessions>> => ListenerTypes'
  BY ZenonT(60) DEF ListenerTypes, listenerVars
<1>2. LoopTypes /\ UNCHANGED loopVars => LoopTypes'
  BY ZenonT(60) DEF LoopTypes, loopVars
<1>3. CloseTypes /\ UNCHANGED <<owner, of, cdone, removing>> => CloseTypes'
  BY ZenonT(60) DEF CloseTypes
<1>4. ReadTypes /\ UNCHANGED <<queued, pending, rd, deadline, token>> => ReadTypes'
  BY ZenonT(60) DEF ReadTypes
<1>. QED  BY <1>1, <1>2, <1>3, <1>4

(* A session's reader and SetReadDeadline touch nothing the map is about.  *)
LEMMA ReaderStep ==
  ASSUME IInv, NEW k \in Child,
         Reading(k) \/ \E d \in {"none", "past"} : SetReadDeadline(k, d)
  PROVE  IInv'
<1>1. UNCHANGED <<loopVars, listenerVars, sessions, owner, of, cdone, removing>>
  BY ZenonT(60) DEF Reading, ReadEnter, ReadLoad, ReadPacket, ReadToken, ReadClosed, SetReadDeadline
<1>2. ListenerTypes /\ LoopTypes /\ CloseTypes /\ ReadTypes
  BY TypeParts DEF IInv
<1>3. ReadTypes'
  <2>1. pending \in [Child -> BOOLEAN] /\ token \in [Child -> BOOLEAN] /\ deadline \in [Child -> {"none", "past"}]
        /\ queued \in [Child -> 0 .. PacketQueue] /\ rd \in [Child -> {"out", "load", "wait"}]
    BY <1>2 DEF ReadTypes
  <2>2. pending' \in [Child -> BOOLEAN] /\ token' \in [Child -> BOOLEAN] /\ deadline' \in [Child -> {"none", "past"}]
    BY <2>1, ZenonT(60) DEF Reading, ReadEnter, ReadLoad, ReadPacket, ReadToken, ReadClosed, SetReadDeadline
  <2>3. rd' \in [Child -> {"out", "load", "wait"}]
    <3>1. \/ rd' = rd \/ rd' = [rd EXCEPT ![k] = "load"] \/ rd' = [rd EXCEPT ![k] = "out"]
          \/ rd' = [rd EXCEPT ![k] = IF deadline[k] = "past" THEN "out" ELSE "wait"]
      BY ZenonT(60) DEF Reading, ReadEnter, ReadLoad, ReadPacket, ReadToken, ReadClosed, SetReadDeadline
    <3>. QED  BY <2>1, <3>1
  <2>4. queued' \in [Child -> 0 .. PacketQueue]
    <3>1. CASE ReadPacket(k)
      BY <2>1, <3>1, Numbers DEF ReadPacket
    <3>2. CASE ~ReadPacket(k)
      <4>1. queued' = queued
        BY ZenonT(60), <3>2 DEF Reading, ReadEnter, ReadLoad, ReadToken, ReadClosed, SetReadDeadline
      <4>. QED  BY <2>1, <4>1
    <3>. QED  BY <3>1, <3>2
  <2>. QED  BY <2>2, <2>3, <2>4 DEF ReadTypes
<1>4. TypeOK'
  BY <1>1, <1>2, <1>3, SameTypes, TypePartsNext
<1>5. Steady
  BY <1>1, SteadySame DEF loopVars, listenerVars
<1>6. Held'
  BY ZenonT(60), <1>1 DEF IInv, Held, loopVars, listenerVars
<1>. QED  BY <1>4, <1>5, <1>6, SteadyStep DEF IInv

-----------------------------------------------------------------------------
(* readLoop *)

LEMMA ReceiveStep ==
  ASSUME IInv, NEW p \in Peer, Receive(p)
  PROVE  IInv'
<1>1. /\ received < MaxPacket /\ received' = received + 1 /\ peer' = p /\ rpc' = "lookup"
      /\ UNCHANGED <<child, made, listenerVars, sessions, childVars>>
  BY DEF Receive
<1>2. UNCHANGED <<owner, of, cdone, removing>> /\ UNCHANGED <<queued, pending, rd, deadline, token>>
  BY ZenonT(60), <1>1 DEF childVars
<1>3. ListenerTypes /\ LoopTypes /\ CloseTypes /\ ReadTypes
  BY TypeParts DEF IInv
<1>4. LoopTypes'
  BY <1>1, <1>3, Numbers DEF LoopTypes
<1>5. TypeOK'
  BY ZenonT(60), <1>1, <1>2, <1>3, <1>4, SameTypes, TypePartsNext
<1>6. Steady
  BY <1>1, <1>2, SteadySame DEF listenerVars
<1>7. Held'
  BY ZenonT(60), <1>1 DEF IInv, Held, listenerVars
<1>. QED  BY <1>5, <1>6, <1>7, SteadyStep DEF IInv

(* The beginning of shutdown, by readLoop or from outside.                 *)
LEMMA Ends ==
  ASSUME IInv, ~ldone, ldone', down' = "clear",
         UNCHANGED <<sessions, of, made, doomed, owner, cdone, removing>>,
         rpc' \in {"enqueue", "register"} => UNCHANGED <<rpc, peer, child>>
  PROVE  Known' /\ Entries' /\ Reached' /\ Cleared'
<1>1. down = "no"
  BY ZenonT(60) DEF IInv, Held
<1>2. Known' /\ Entries'
  BY ZenonT(60) DEF IInv, Known, Entries
<1>3. Reached'
  BY ZenonT(60), <1>1 DEF IInv, Reached, Live
<1>4. Cleared'
  BY DEF Cleared
<1>. QED  BY <1>2, <1>3, <1>4

LEMMA ReceiveFailsStep ==
  ASSUME IInv, ReceiveFails
  PROVE  IInv'
<1>1. /\ rpc' = "over"
      /\ UNCHANGED <<peer, child, received, made, doomed, accepts, apc, taken, sessions, childVars>>
      /\ \/ UNCHANGED <<ldone, down>>
         \/ ~ldone /\ ldone' = TRUE /\ down' = "clear"
  BY ZenonT(60) DEF ReceiveFails
<1>2. UNCHANGED <<owner, of, cdone, removing>> /\ UNCHANGED <<queued, pending, rd, deadline, token>>
  BY ZenonT(60), <1>1 DEF childVars
<1>3. ListenerTypes /\ LoopTypes /\ CloseTypes /\ ReadTypes
  BY TypeParts DEF IInv
<1>4. LoopTypes'
  BY <1>1, <1>3 DEF LoopTypes
<1>5. ListenerTypes'
  BY ZenonT(60), <1>1, <1>3 DEF ListenerTypes
<1>6. TypeOK'
  BY ZenonT(60), <1>1, <1>2, <1>3, <1>4, <1>5, SameTypes, TypePartsNext
<1>7. Held'
  <2>1. ldone' <=> down' # "no"
    <3>1. ldone <=> down # "no"
      BY ZenonT(60) DEF IInv, Held
    <3>2. CASE ldone' = ldone /\ down' = down
      BY ZenonT(60), <3>1, <3>2
    <3>3. CASE ldone' = TRUE /\ down' = "clear"
      BY ZenonT(60), <3>3
    <3>. QED  BY ZenonT(60), <1>1, <3>2, <3>3
  <2>. QED  BY ZenonT(60), <1>1, <2>1 DEF IInv, Held
<1>8. CASE UNCHANGED <<ldone, down>>
  <2>1. Steady
    BY <1>1, <1>2, <1>8, SteadySame
  <2>. QED  BY <1>6, <1>7, <2>1, SteadyStep DEF IInv
<1>9. CASE ~ldone /\ ldone' = TRUE /\ down' = "clear"
  <2>1. Known' /\ Entries' /\ Reached' /\ Cleared'
    BY ZenonT(60), <1>1, <1>2, <1>9, Ends
  <2>. QED  BY <1>6, <1>7, <2>1 DEF IInv
<1>. QED  BY ZenonT(60), <1>1, <1>8, <1>9

LEMMA ShutdownStep ==
  ASSUME IInv, Shutdown
  PROVE  IInv'
<1>1. /\ ~ldone /\ ldone' = TRUE /\ down' = "clear"
      /\ UNCHANGED <<loopVars, doomed, accepts, apc, taken, sessions, childVars>>
  BY ZenonT(60) DEF Shutdown
<1>2. UNCHANGED <<owner, of, cdone, removing>> /\ UNCHANGED <<queued, pending, rd, deadline, token>>
      /\ UNCHANGED <<rpc, peer, child, made>>
  BY ZenonT(60), <1>1 DEF childVars, loopVars
<1>3. ListenerTypes /\ LoopTypes /\ CloseTypes /\ ReadTypes
  BY TypeParts DEF IInv
<1>4. ListenerTypes'
  BY ZenonT(60), <1>1, <1>3 DEF ListenerTypes
<1>5. TypeOK'
  BY ZenonT(60), <1>1, <1>2, <1>3, <1>4, SameTypes, TypePartsNext
<1>6. Held'
  BY ZenonT(60), <1>1, <1>2 DEF IInv, Held
<1>7. Known' /\ Entries' /\ Reached' /\ Cleared'
  BY ZenonT(60), <1>1, <1>2, Ends
<1>. QED  BY <1>5, <1>6, <1>7 DEF IInv

(* What readLoop looked up is the only live session its peer can have.     *)
LEMMA LookupStep ==
  ASSUME IInv, Lookup
  PROVE  IInv'
<1>1. /\ rpc = "lookup" /\ child' = sessions[peer]
      /\ rpc' = (IF sessions[peer] = None THEN "register" ELSE "enqueue")
      /\ UNCHANGED <<peer, received, made, listenerVars, sessions, childVars>>
  BY DEF Lookup
<1>2. UNCHANGED <<owner, of, cdone, removing>> /\ UNCHANGED <<queued, pending, rd, deadline, token>>
      /\ UNCHANGED <<ldone, down, doomed, accepts, apc, taken>>
  BY ZenonT(60), <1>1 DEF childVars, listenerVars
<1>3. ListenerTypes /\ LoopTypes /\ CloseTypes /\ ReadTypes
  BY TypeParts DEF IInv
<1>4. peer \in Peer /\ sessions[peer] \in Child \cup {None} /\ sessions[peer] <= made
  BY <1>1, <1>3 DEF IInv, Held, Known, ListenerTypes
<1>5. LoopTypes'
  BY <1>1, <1>3, <1>4 DEF LoopTypes
<1>6. TypeOK'
  BY ZenonT(60), <1>1, <1>2, <1>3, <1>5, SameTypes, TypePartsNext
<1>7. Held'
  BY ZenonT(60), <1>1, <1>2, <1>4 DEF IInv, Held
<1>8. Known' /\ Entries' /\ Cleared'
  BY ZenonT(60), <1>1, <1>2 DEF IInv, Known, Entries, Cleared
<1>9. Reached'
  <2> SUFFICES ASSUME NEW k \in Child, Live(k)'
               PROVE  /\ down' \in {"no", "clear"} =>
                           /\ sessions'[of'[k]] = k
                           /\ rpc' = "enqueue" /\ of'[k] = peer' => k = child'
                           /\ rpc' = "register" => of'[k] # peer'
                      /\ down' = "children" => k \in doomed'
                      /\ down' \notin {"drain", "over"}
    BY ZenonT(60) DEF Reached
  <2>1. Live(k)
    BY ZenonT(60), <1>2 DEF Live
  <2>2. k # None
    BY Numbers
  <2>. QED  BY ZenonT(60), <1>1, <1>2, <2>1, <2>2 DEF IInv, Reached
<1>. QED  BY <1>6, <1>7, <1>8, <1>9 DEF IInv

(* enqueue: a peer whose session is closed has no live one.                *)
LEMMA EnqueueStep ==
  ASSUME IInv, Enqueue
  PROVE  IInv'
<1>1. /\ rpc = "enqueue" /\ child' = None
      /\ \/ cdone[child] /\ rpc' = "register" /\ UNCHANGED <<peer, queued>>
         \/ /\ queued' = [queued EXCEPT ![child] = IF @ < PacketQueue THEN @ + 1 ELSE @]
            /\ rpc' = "read" /\ peer' = NoPeer
      /\ UNCHANGED <<received, made, listenerVars, sessions, owner, of, cdone, removing, pending, rd,
                     deadline, token>>
  BY ZenonT(60) DEF Enqueue
<1>2. UNCHANGED <<ldone, down, doomed, accepts, apc, taken>>
  BY <1>1 DEF listenerVars
<1>3. ListenerTypes /\ LoopTypes /\ CloseTypes /\ ReadTypes
  BY TypeParts DEF IInv
<1>4. child \in Child /\ peer \in Peer /\ None <= made
  BY <1>1, <1>3, Numbers DEF IInv, Held, LoopTypes, None
<1>5. LoopTypes'
  BY <1>1, <1>3 DEF LoopTypes
<1>6. ReadTypes'
  <2>1. queued \in [Child -> 0 .. PacketQueue]
    BY <1>3 DEF ReadTypes
  <2>2. queued' \in [Child -> 0 .. PacketQueue]
    <3>1. queued' = queued \/ queued' = [queued EXCEPT ![child] = IF @ < PacketQueue THEN @ + 1 ELSE @]
      BY ZenonT(60), <1>1
    <3>. QED  BY <1>4, <2>1, <3>1, Numbers
  <2>. QED  BY ZenonT(60), <1>1, <1>3, <2>2 DEF ReadTypes
<1>7. TypeOK'
  BY ZenonT(60), <1>1, <1>3, <1>5, <1>6, SameTypes, TypePartsNext
<1>8. Held'
  <2>1. rpc' = "register" => peer' \in Peer
    BY <1>1, <1>4
  <2>2. rpc' \in {"register", "read"}
    BY <1>1
  <2>. QED  BY ZenonT(60), <1>1, <1>2, <1>4, <2>1, <2>2 DEF IInv, Held
<1>9. Known' /\ Entries' /\ Cleared'
  BY ZenonT(60), <1>1, <1>2 DEF IInv, Known, Entries, Cleared
<1>10. Reached'
  <2> SUFFICES ASSUME NEW k \in Child, Live(k)'
               PROVE  /\ down' \in {"no", "clear"} =>
                           /\ sessions'[of'[k]] = k
                           /\ rpc' = "enqueue" /\ of'[k] = peer' => k = child'
                           /\ rpc' = "register" => of'[k] # peer'
                      /\ down' = "children" => k \in doomed'
                      /\ down' \notin {"drain", "over"}
    BY ZenonT(60) DEF Reached
  <2>1. Live(k) /\ ~cdone[k]
    BY ZenonT(60), <1>1 DEF Live
  <2>2. rpc' = "register" => cdone[child] /\ peer' = peer
    BY ZenonT(60), <1>1
  <2>3. rpc' # "enqueue"
    BY <1>1
  <2>. QED  BY ZenonT(60), <1>1, <1>2, <2>1, <2>2, <2>3 DEF IInv, Reached
<1>. QED  BY <1>7, <1>8, <1>9, <1>10 DEF IInv

(* register: the new session replaces no live one, or is closed at once.   *)
LEMMA RegisterStep ==
  ASSUME IInv, Register
  PROVE  IInv'
<1> DEFINE n == made + 1
<1>1. /\ rpc = "register" /\ made < MaxChild /\ made' = n /\ child' = n
      /\ of' = [of EXCEPT ![n] = peer] /\ pending' = [pending EXCEPT ![n] = TRUE]
      /\ UNCHANGED <<peer, received, listenerVars, queued, rd, deadline, token>>
  BY DEF Register
<1>2. UNCHANGED <<ldone, down, doomed, accepts, apc, taken>>
  BY <1>1 DEF listenerVars
<1>3. ListenerTypes /\ LoopTypes /\ CloseTypes /\ ReadTypes
  BY TypeParts DEF IInv
<1>4. /\ made \in Nat /\ n \in Child /\ n \in Nat /\ peer \in Peer /\ made' \in 0 .. MaxChild
      /\ \A k \in Nat : k <= made => k # n /\ k <= made'
      /\ n <= made'
  BY <1>1, <1>3, Numbers DEF IInv, Held, LoopTypes, Child
<1>5. \/ /\ ldone /\ owner' = [owner EXCEPT ![n] = "lost"] /\ rpc' = "over"
         /\ StartClose(n) /\ sessions' = sessions
      \/ /\ ~ldone /\ owner' = [owner EXCEPT ![n] = "loop"] /\ rpc' = "offer"
         /\ sessions' = [sessions EXCEPT ![peer] = n] /\ UNCHANGED <<cdone, removing>>
  BY ZenonT(60) DEF Register
<1>6. owner[n] = "none" /\ ~cdone[n] /\ ~removing[n]
  <2>1. ~(n <= made)
    BY <1>4
  <2>. QED  BY ZenonT(60), <1>4, <2>1 DEF IInv, Known
<1>7. /\ cdone' \in [Child -> BOOLEAN] /\ removing' \in [Child -> BOOLEAN]
      /\ \A j \in Child : j # n => cdone'[j] = cdone[j] /\ removing'[j] = removing[j]
      /\ ldone => cdone'[n] /\ removing'[n]
      /\ ~ldone => ~cdone'[n] /\ ~removing'[n]
  <2>1. CASE StartClose(n) /\ ldone
    BY ZenonT(60), <1>4, <1>6, <2>1, Closes DEF IInv
  <2>2. CASE cdone' = cdone /\ removing' = removing /\ ~ldone
    BY ZenonT(60), <1>3, <1>6, <2>2 DEF CloseTypes
  <2>. QED  BY ZenonT(60), <1>5, <2>1, <2>2
<1>8. /\ owner' \in [Child -> {"none", "loop", "queue", "accept", "user", "lost"}]
      /\ \A j \in Child : j # n => owner'[j] = owner[j]
      /\ owner'[n] # "none"
  <2>1. owner' = [owner EXCEPT ![n] = "lost"] \/ owner' = [owner EXCEPT ![n] = "loop"]
    BY ZenonT(60), <1>5
  <2>. QED  BY <1>3, <1>4, <2>1 DEF CloseTypes
<1>9. /\ of' \in [Child -> Peer \cup {NoPeer}] /\ of'[n] = peer
      /\ \A j \in Child : j # n => of'[j] = of[j]
  BY <1>1, <1>3, <1>4 DEF CloseTypes
<1>10. /\ sessions' \in [Peer -> Child \cup {None}]
       /\ \A p \in Peer : p # peer => sessions'[p] = sessions[p]
       /\ ldone => sessions'[peer] = sessions[peer]
       /\ ~ldone => sessions'[peer] = n
  <2>1. sessions \in [Peer -> Child \cup {None}]
    BY <1>3 DEF ListenerTypes
  <2>2. CASE ldone
    <3>1. sessions' = sessions
      BY ZenonT(60), <1>5, <2>2
    <3>. QED  BY <2>1, <2>2, <3>1
  <2>3. CASE ~ldone
    <3>1. sessions' = [sessions EXCEPT ![peer] = n]
      BY ZenonT(60), <1>5, <2>3
    <3>. QED  BY <1>4, <2>1, <2>3, <3>1
  <2>. QED  BY <2>2, <2>3
<1>11. TypeOK'
  <2>1. rpc' \in {"over", "offer"}
    BY ZenonT(60), <1>5
  <2>2. LoopTypes'
    BY <1>1, <1>3, <1>4, <2>1 DEF LoopTypes
  <2>3. ListenerTypes'
    BY ZenonT(60), <1>2, <1>3, <1>10 DEF ListenerTypes
  <2>4. CloseTypes'
    BY <1>7, <1>8, <1>9 DEF CloseTypes
  <2>5. ReadTypes'
    BY ZenonT(60), <1>1, <1>3 DEF ReadTypes
  <2>. QED  BY <2>2, <2>3, <2>4, <2>5, TypePartsNext
<1>12. Held'
  <2>1. rpc' \in {"over", "offer"}
    BY ZenonT(60), <1>5
  <2>2. n # None /\ \A k \in Child \cup {None} : k <= made => k <= made'
    BY <1>4, Numbers
  <2>3. taken' <= made'
    BY <1>2, <1>3, <2>2 DEF IInv, Held, ListenerTypes
  <2>4. ASSUME NEW i \in 1 .. Len(accepts') PROVE accepts'[i] <= made'
    BY <1>2, <1>3, <2>2 DEF IInv, Held, ListenerTypes
  <2>5. ldone' <=> down' # "no"
    BY ZenonT(60), <1>2 DEF IInv, Held
  <2>. QED  BY ZenonT(60), <1>1, <1>2, <1>4, <2>1, <2>2, <2>3, <2>4, <2>5 DEF IInv, Held
<1>13. Known'
  <2>0. \A k \in Child : k <= made => k <= made' /\ k # n
    BY <1>4, Numbers
  <2>1. ASSUME NEW k \in Child, k <= made' PROVE k <= made \/ k = n
    BY <1>1, <1>4, <2>1, Numbers
  <2>2. ASSUME NEW k \in Child
        PROVE  /\ owner'[k] # "none" <=> k <= made'
               /\ cdone'[k] => k <= made'
               /\ removing'[k] => cdone'[k]
               /\ k <= made' => of'[k] \in Peer
    <3>1. CASE k = n
      BY ZenonT(60), <1>4, <1>7, <1>8, <1>9, <3>1
    <3>2. CASE k # n
      BY ZenonT(60), <1>7, <1>8, <1>9, <2>0, <2>1, <3>2 DEF IInv, Known
    <3>. QED  BY <3>1, <3>2
  <2>3. ASSUME NEW k \in doomed' PROVE k <= made'
    BY <1>2, <1>3, <2>0 DEF IInv, Known, ListenerTypes
  <2>4. ASSUME NEW p \in Peer PROVE sessions'[p] <= made'
    <3>0. sessions[p] \in Child \cup {None}
      BY <1>3 DEF ListenerTypes
    <3>1. sessions[p] <= made /\ sessions[p] \in Nat
      BY ZenonT(60), <3>0, Numbers DEF IInv, Known
    <3>2. sessions[p] <= made'
      BY <1>4, <3>1
    <3>. QED  BY ZenonT(60), <1>4, <1>10, <3>2
  <2>. QED  BY <2>2, <2>3, <2>4 DEF Known
<1>14. Entries'
  <2> SUFFICES ASSUME NEW p \in Peer, sessions'[p] # None
               PROVE  of'[sessions'[p]] = p /\ (cdone'[sessions'[p]] => removing'[sessions'[p]])
    BY DEF Entries
  <2>1. CASE sessions'[p] = sessions[p]
    <3>1. sessions[p] \in Child /\ sessions[p] # n
      BY <1>3, <1>4, <2>1, Numbers DEF IInv, Known, ListenerTypes
    <3>2. of[sessions[p]] = p /\ (cdone[sessions[p]] => removing[sessions[p]])
      BY ZenonT(60), <2>1 DEF IInv, Entries
    <3>. QED  BY ZenonT(60), <1>7, <1>9, <2>1, <3>1, <3>2
  <2>2. CASE p = peer /\ ~ldone
    BY ZenonT(60), <1>7, <1>9, <1>10, <2>2
  <2>. QED  BY ZenonT(60), <1>10, <2>1, <2>2
<1>15. Reached'
  <2> SUFFICES ASSUME NEW k \in Child, Live(k)'
               PROVE  /\ down' \in {"no", "clear"} =>
                           /\ sessions'[of'[k]] = k
                           /\ rpc' = "enqueue" /\ of'[k] = peer' => k = child'
                           /\ rpc' = "register" => of'[k] # peer'
                      /\ down' = "children" => k \in doomed'
                      /\ down' \notin {"drain", "over"}
    BY ZenonT(60) DEF Reached
  <2>1. rpc' \in {"over", "offer"}
    BY ZenonT(60), <1>5
  <2>2. CASE k = n
    <3>1. ~ldone
      BY ZenonT(60), <1>7, <2>2 DEF Live
    <3>2. down = "no"
      BY ZenonT(60), <3>1 DEF IInv, Held
    <3>. QED  BY ZenonT(60), <1>2, <1>9, <1>10, <2>1, <2>2, <3>1, <3>2
  <2>3. CASE k # n
    <3>1. Live(k)
      BY ZenonT(60), <1>7, <1>8, <2>3 DEF Live
    <3>2. of[k] \in Peer /\ of'[k] = of[k]
      BY ZenonT(60), <1>9, <2>3, <3>1 DEF IInv, Known, Live
    <3>. QED  BY ZenonT(60), <1>1, <1>2, <1>10, <2>1, <3>1, <3>2 DEF IInv, Reached
  <2>. QED  BY <2>2, <2>3
<1>16. Cleared'
  <2>1. down' \in {"children", "drain", "over"} => ldone
    BY ZenonT(60), <1>2 DEF IInv, Held
  <2>. QED  BY ZenonT(60), <1>2, <1>10, <2>1 DEF IInv, Cleared
<1>. QED  BY <1>11, <1>12, <1>13, <1>14, <1>15, <1>16 DEF IInv

(* Handing a session that was made to somebody else.                       *)
LEMMA Handed ==
  ASSUME IInv, NEW k \in Child, k <= made, NEW o \in {"queue", "accept", "user", "lost"},
         owner' = [owner EXCEPT ![k] = o]
  PROVE  /\ owner' \in [Child -> {"none", "loop", "queue", "accept", "user", "lost"}]
         /\ \A j \in Child : owner'[j] # "none" <=> owner[j] # "none"
<1>1. owner \in [Child -> {"none", "loop", "queue", "accept", "user", "lost"}]
  BY DEF IInv, TypeOK
<1>2. owner[k] # "none"
  BY ZenonT(60) DEF IInv, Known
<1>. QED  BY <1>1, <1>2

(* l.accepts: the sessions in it were made.                                *)
LEMMA Queues ==
  ASSUME IInv
  PROVE  /\ \A k \in Child : k <= made /\ Len(accepts) < AcceptQueue =>
              /\ Append(accepts, k) \in Seq(Child) /\ Len(Append(accepts, k)) <= AcceptQueue
              /\ \A i \in 1 .. Len(Append(accepts, k)) : Append(accepts, k)[i] <= made
         /\ accepts # <<>> =>
              /\ Head(accepts) \in Child /\ Head(accepts) <= made
              /\ Tail(accepts) \in Seq(Child) /\ Len(Tail(accepts)) <= AcceptQueue
              /\ \A i \in 1 .. Len(Tail(accepts)) : Tail(accepts)[i] <= made
<1>1. /\ accepts \in Seq(Child) /\ Len(accepts) <= AcceptQueue /\ Len(accepts) \in Nat
      /\ \A i \in 1 .. Len(accepts) : accepts[i] <= made
  BY DEF IInv, TypeOK, Held
<1>2. ASSUME NEW k \in Child, k <= made, Len(accepts) < AcceptQueue
      PROVE  /\ Append(accepts, k) \in Seq(Child) /\ Len(Append(accepts, k)) <= AcceptQueue
             /\ \A i \in 1 .. Len(Append(accepts, k)) : Append(accepts, k)[i] <= made
  BY <1>1, <1>2, Numbers
<1>3. ASSUME accepts # <<>>
      PROVE  /\ Head(accepts) \in Child /\ Head(accepts) <= made
             /\ Tail(accepts) \in Seq(Child) /\ Len(Tail(accepts)) <= AcceptQueue
             /\ \A i \in 1 .. Len(Tail(accepts)) : Tail(accepts)[i] <= made
  BY <1>1, <1>3, Numbers
<1>. QED  BY <1>2, <1>3

LEMMA OfferStep ==
  ASSUME IInv, Offer
  PROVE  IInv'
<1>1. /\ rpc = "offer"
      /\ \/ /\ Len(accepts) < AcceptQueue
            /\ accepts' = Append(accepts, child) /\ owner' = [owner EXCEPT ![child] = "queue"]
            /\ rpc' = "read" /\ child' = None /\ peer' = NoPeer
         \/ /\ owner' = [owner EXCEPT ![child] = "lost"]
            /\ rpc' = "refuse" /\ UNCHANGED <<accepts, child, peer>>
      /\ UNCHANGED <<received, made, ldone, down, doomed, apc, taken, sessions, of, cdone, removing>>
      /\ UNCHANGED <<queued, pending, rd, deadline, token>>
  BY ZenonT(60) DEF Offer
<1>2. ListenerTypes /\ LoopTypes /\ CloseTypes /\ ReadTypes
  BY TypeParts DEF IInv
<1>3. child \in Child /\ child <= made /\ None <= made
  BY <1>1, <1>2, Numbers DEF IInv, Held, LoopTypes, None
<1>4. /\ owner' \in [Child -> {"none", "loop", "queue", "accept", "user", "lost"}]
      /\ \A j \in Child : owner'[j] # "none" <=> owner[j] # "none"
  BY ZenonT(60), <1>1, <1>3, Handed
<1>5. Steady
  BY ZenonT(60), <1>1, <1>4 DEF Steady
<1>6. LoopTypes'
  BY <1>1, <1>2 DEF LoopTypes
<1>7. /\ accepts' \in Seq(Child) /\ Len(accepts') <= AcceptQueue
      /\ \A i \in 1 .. Len(accepts') : accepts'[i] <= made
  <2>1. CASE Len(accepts) < AcceptQueue /\ accepts' = Append(accepts, child)
    BY ZenonT(60), <1>3, <2>1, Queues
  <2>2. CASE accepts' = accepts
    BY ZenonT(60), <2>2 DEF IInv, TypeOK, Held
  <2>. QED  BY ZenonT(60), <1>1, <2>1, <2>2
<1>8. ListenerTypes' /\ CloseTypes'
  BY ZenonT(60), <1>1, <1>2, <1>4, <1>7 DEF ListenerTypes, CloseTypes
<1>9. TypeOK'
  BY ZenonT(60), <1>1, <1>2, <1>6, <1>8, SameTypes, TypePartsNext
<1>10. Held'
  <2>1. /\ rpc' \in {"read", "refuse"} /\ child' <= made
        /\ rpc' = "refuse" => child' # None
    BY <1>1, <1>3, Numbers
  <2>. QED  BY ZenonT(60), <1>1, <1>7, <2>1 DEF IInv, Held
<1>. QED  BY <1>5, <1>9, <1>10, SteadyStep DEF IInv

LEMMA RefuseStep ==
  ASSUME IInv, Refuse
  PROVE  IInv'
<1>1. /\ rpc = "refuse"
      /\ \/ StartClose(child) /\ UNCHANGED <<rpc, child, peer>>
         \/ /\ rpc' \in {"over", "read"} /\ child' = None /\ peer' = NoPeer
            /\ UNCHANGED <<cdone, removing>>
      /\ UNCHANGED <<received, made, listenerVars, sessions, owner, of>>
      /\ UNCHANGED <<queued, pending, rd, deadline, token>>
  BY ZenonT(60) DEF Refuse
<1>2. ListenerTypes /\ LoopTypes /\ CloseTypes /\ ReadTypes
  BY TypeParts DEF IInv
<1>3. child \in Child /\ child <= made /\ None <= made
  BY <1>1, <1>2, Numbers DEF IInv, Held, LoopTypes, None
<1>4. UNCHANGED <<ldone, down, doomed, accepts, apc, taken>>
  BY <1>1 DEF listenerVars
<1>5. rpc' \notin {"enqueue", "register"}
  BY <1>1
<1>6. Steady /\ CloseTypes'
  <2>1. CASE StartClose(child)
    <3>1. Steady
      BY ZenonT(60), <1>1, <1>3, <1>4, <1>5, <2>1, SteadyClose
    <3>2. cdone' \in [Child -> BOOLEAN] /\ removing' \in [Child -> BOOLEAN]
      BY <1>3, <2>1, Closes DEF IInv
    <3>. QED  BY ZenonT(60), <1>1, <1>2, <3>1, <3>2 DEF CloseTypes
  <2>2. CASE UNCHANGED <<cdone, removing>>
    <3>1. Steady
      BY ZenonT(60), <1>1, <1>4, <1>5, <2>2, SteadySame
    <3>. QED  BY ZenonT(60), <1>1, <1>2, <2>2, <3>1 DEF CloseTypes
  <2>. QED  BY ZenonT(60), <1>1, <2>1, <2>2
<1>7. LoopTypes'
  <2>1. /\ rpc' \in {"refuse", "over", "read"} /\ (child' = child \/ child' = None)
        /\ (peer' = peer \/ peer' = NoPeer)
    BY ZenonT(60), <1>1
  <2>. QED  BY <1>1, <1>2, <2>1 DEF LoopTypes
<1>8. TypeOK'
  BY ZenonT(60), <1>1, <1>2, <1>6, <1>7, SameTypes, TypePartsNext
<1>9. Held'
  <2>1. /\ rpc' \in {"refuse", "over", "read"} /\ child' <= made
        /\ rpc' = "refuse" => child' # None
    <3>1. CASE UNCHANGED <<rpc, child, peer>>
      BY <1>1, <1>3, <3>1, Numbers
    <3>2. CASE rpc' \in {"over", "read"} /\ child' = None
      BY <1>3, <3>2
    <3>. QED  BY ZenonT(60), <1>1, <3>1, <3>2
  <2>. QED  BY ZenonT(60), <1>1, <1>4, <2>1 DEF IInv, Held
<1>. QED  BY <1>6, <1>8, <1>9, SteadyStep DEF IInv

LEMMA UserCloseStep ==
  ASSUME IInv, NEW k \in Child, UserClose(k)
  PROVE  IInv'
<1>1. /\ owner[k] = "user" /\ StartClose(k)
      /\ UNCHANGED <<loopVars, listenerVars, sessions, owner, of>>
      /\ UNCHANGED <<queued, pending, rd, deadline, token>>
  BY ZenonT(60) DEF UserClose
<1>2. ListenerTypes /\ LoopTypes /\ CloseTypes /\ ReadTypes
  BY TypeParts DEF IInv
<1>3. k <= made
  BY <1>1 DEF IInv, Known
<1>4. UNCHANGED <<rpc, peer, child, received, made>> /\ UNCHANGED <<ldone, down, doomed, accepts, apc, taken>>
  BY <1>1 DEF loopVars, listenerVars
<1>5. Steady
  BY ZenonT(60), <1>1, <1>3, <1>4, SteadyClose
<1>6. cdone' \in [Child -> BOOLEAN] /\ removing' \in [Child -> BOOLEAN]
  BY <1>1, Closes DEF IInv
<1>7. CloseTypes'
  BY ZenonT(60), <1>1, <1>2, <1>6 DEF CloseTypes
<1>8. TypeOK'
  BY ZenonT(60), <1>1, <1>2, <1>7, SameTypes, TypePartsNext
<1>9. Held'
  BY ZenonT(60), <1>4 DEF IInv, Held
<1>. QED  BY <1>5, <1>8, <1>9, SteadyStep DEF IInv

-----------------------------------------------------------------------------
(* Accept *)

LEMMA AcceptStep ==
  ASSUME IInv, Accepting
  PROVE  IInv'
<1>0. ListenerTypes /\ LoopTypes /\ CloseTypes /\ ReadTypes
  BY TypeParts DEF IInv
<1>1. /\ UNCHANGED loopVars /\ UNCHANGED <<ldone, down, doomed, sessions, of>>
      /\ UNCHANGED <<queued, pending, rd, deadline, token>>
  BY ZenonT(60) DEF Accepting, AcceptEnter, AcceptTake, AcceptTakeLate, AcceptReturn, AcceptFails, childVars
<1>2. UNCHANGED <<rpc, peer, child, received, made>>
  BY <1>1 DEF loopVars
<1>3. ASSUME /\ accepts' \in Seq(Child) /\ Len(accepts') <= AcceptQueue
             /\ \A i \in 1 .. Len(accepts') : accepts'[i] <= made
             /\ apc' \in {"idle", "select", "took"} /\ taken' \in Child \cup {None}
             /\ taken' <= made /\ (apc' = "took" => taken' # None),
             CloseTypes', Steady
      PROVE  IInv'
  <2>1. ListenerTypes'
    BY ZenonT(60), <1>0, <1>1, <1>3 DEF ListenerTypes
  <2>2. TypeOK'
    BY ZenonT(60), <1>0, <1>1, <1>3, <2>1, SameTypes, TypePartsNext
  <2>3. Held'
    BY ZenonT(60), <1>1, <1>2, <1>3 DEF IInv, Held
  <2>. QED  BY <1>3, <2>2, <2>3, SteadyStep DEF IInv
<1>4. None <= made /\ taken <= made /\ taken \in Child \cup {None} /\ (apc = "took" => taken # None)
  BY <1>0, Numbers DEF IInv, Held, ListenerTypes, LoopTypes, None
<1>5. /\ accepts \in Seq(Child) /\ Len(accepts) <= AcceptQueue
      /\ \A i \in 1 .. Len(accepts) : accepts[i] <= made
  BY ZenonT(60) DEF IInv, TypeOK, Held
<1>6. ASSUME UNCHANGED <<owner, cdone, removing>> PROVE CloseTypes' /\ Steady
  BY ZenonT(60), <1>0, <1>1, <1>2, <1>6, SteadySame DEF CloseTypes
<1>7. CASE AcceptEnter \/ AcceptFails
  <2>1. accepts' = accepts /\ taken' = taken /\ apc' \in {"idle", "select"} /\ UNCHANGED <<owner, cdone, removing>>
    BY ZenonT(60), <1>7 DEF AcceptEnter, AcceptFails, childVars
  <2>. QED  BY ZenonT(60), <1>3, <1>4, <1>5, <1>6, <2>1
<1>8. ASSUME NEW k \in Child, k <= made, NEW o \in {"queue", "accept", "user", "lost"},
             owner' = [owner EXCEPT ![k] = o], UNCHANGED <<cdone, removing>>
      PROVE  CloseTypes' /\ Steady
  <2>1. /\ owner' \in [Child -> {"none", "loop", "queue", "accept", "user", "lost"}]
        /\ \A j \in Child : owner'[j] # "none" <=> owner[j] # "none"
    BY ZenonT(60), <1>8, Handed
  <2>. QED  BY ZenonT(60), <1>0, <1>1, <1>2, <1>8, <2>1 DEF CloseTypes, Steady
<1>9. CASE AcceptTake
  <2>1. /\ accepts # <<>> /\ taken' = Head(accepts) /\ accepts' = Tail(accepts) /\ apc' = "took"
        /\ owner' = [owner EXCEPT ![Head(accepts)] = "accept"] /\ UNCHANGED <<cdone, removing>>
    BY <1>9 DEF AcceptTake
  <2>2. /\ Head(accepts) \in Child /\ Head(accepts) <= made /\ Head(accepts) # None
        /\ Tail(accepts) \in Seq(Child) /\ Len(Tail(accepts)) <= AcceptQueue
        /\ \A i \in 1 .. Len(Tail(accepts)) : Tail(accepts)[i] <= made
    BY ZenonT(60), <2>1, Queues, Numbers
  <2>3. CloseTypes' /\ Steady
    BY ZenonT(60), <1>8, <2>1, <2>2
  <2>. QED  BY ZenonT(60), <1>3, <2>1, <2>2, <2>3
<1>10. CASE AcceptTakeLate
  <2>1. /\ accepts # <<>> /\ taken' = taken /\ accepts' = Tail(accepts) /\ apc' = "idle"
        /\ owner' = [owner EXCEPT ![Head(accepts)] = "user"] /\ UNCHANGED <<cdone, removing>>
    BY <1>10 DEF AcceptTakeLate
  <2>2. /\ Head(accepts) \in Child /\ Head(accepts) <= made
        /\ Tail(accepts) \in Seq(Child) /\ Len(Tail(accepts)) <= AcceptQueue
        /\ \A i \in 1 .. Len(Tail(accepts)) : Tail(accepts)[i] <= made
    BY ZenonT(60), <2>1, Queues
  <2>3. CloseTypes' /\ Steady
    BY ZenonT(60), <1>8, <2>1, <2>2
  <2>. QED  BY ZenonT(60), <1>3, <1>4, <2>1, <2>2, <2>3
<1>11. CASE AcceptReturn
  <2>1. /\ apc = "took" /\ apc' = "idle" /\ taken' = None /\ accepts' = accepts
        /\ \/ owner' = [owner EXCEPT ![taken] = "lost"] /\ StartClose(taken)
           \/ owner' = [owner EXCEPT ![taken] = "user"] /\ UNCHANGED <<cdone, removing>>
    BY ZenonT(60), <1>11 DEF AcceptReturn
  <2>2. taken \in Child
    BY <1>4, <2>1
  <2>3. CASE owner' = [owner EXCEPT ![taken] = "lost"] /\ StartClose(taken)
    <3>1. /\ owner' \in [Child -> {"none", "loop", "queue", "accept", "user", "lost"}]
          /\ \A j \in Child : owner'[j] # "none" <=> owner[j] # "none"
      BY ZenonT(60), <1>4, <2>2, <2>3, Handed
    <3>2. cdone' \in [Child -> BOOLEAN] /\ removing' \in [Child -> BOOLEAN]
      BY <2>2, <2>3, Closes DEF IInv
    <3>3. Steady
      BY ZenonT(60), <1>1, <1>2, <1>4, <2>2, <2>3, <3>1, SteadyClose
    <3>4. CloseTypes'
      BY ZenonT(60), <1>0, <1>1, <3>1, <3>2 DEF CloseTypes
    <3>. QED  BY ZenonT(60), <1>3, <1>4, <1>5, <2>1, <3>3, <3>4
  <2>4. CASE owner' = [owner EXCEPT ![taken] = "user"] /\ UNCHANGED <<cdone, removing>>
    <3>1. CloseTypes' /\ Steady
      BY ZenonT(60), <1>4, <1>8, <2>2, <2>4
    <3>. QED  BY ZenonT(60), <1>3, <1>4, <1>5, <2>1, <3>1
  <2>. QED  BY ZenonT(60), <2>1, <2>3, <2>4
<1>. QED  BY ZenonT(60), <1>7, <1>9, <1>10, <1>11 DEF Accepting

-----------------------------------------------------------------------------
(* remove: the entry of a newer session of the same peer stays.            *)
LEMMA RemoveStep ==
  ASSUME IInv, NEW k \in Child, Remove(k)
  PROVE  IInv'
<1>0. ListenerTypes /\ LoopTypes /\ CloseTypes /\ ReadTypes
  BY TypeParts DEF IInv
<1>1. /\ removing[k] /\ removing' = [removing EXCEPT ![k] = FALSE]
      /\ sessions' = [sessions EXCEPT ![of[k]] = IF sessions[of[k]] = k THEN None ELSE sessions[of[k]]]
      /\ token' = [token EXCEPT ![k] = TRUE]
      /\ UNCHANGED <<loopVars, listenerVars, owner, of, cdone, queued, pending, rd, deadline>>
  BY ZenonT(60) DEF Remove
<1>2. UNCHANGED <<rpc, peer, child, received, made>> /\ UNCHANGED <<ldone, down, doomed, accepts, apc, taken>>
  BY <1>1 DEF loopVars, listenerVars
<1>3. cdone[k] /\ k <= made /\ of[k] \in Peer
  BY ZenonT(60), <1>1 DEF IInv, Known
<1>4. /\ sessions' \in [Peer -> Child \cup {None}]
      /\ \A p \in Peer : sessions'[p] = IF sessions[p] = k /\ p = of[k] THEN None ELSE sessions[p]
  BY <1>0, <1>1, <1>3 DEF ListenerTypes
<1>5. /\ removing' \in [Child -> BOOLEAN] /\ ~removing'[k]
      /\ \A j \in Child : j # k => removing'[j] = removing[j]
  BY ZenonT(60), <1>0, <1>1 DEF CloseTypes
<1>6. TypeOK'
  <2>1. token' \in [Child -> BOOLEAN]
    BY ZenonT(60), <1>0, <1>1 DEF ReadTypes
  <2>2. ReadTypes'
    BY ZenonT(60), <1>0, <1>1, <2>1 DEF ReadTypes
  <2>3. ListenerTypes'
    BY ZenonT(60), <1>0, <1>2, <1>4 DEF ListenerTypes
  <2>4. CloseTypes'
    BY ZenonT(60), <1>0, <1>1, <1>5 DEF CloseTypes
  <2>. QED  BY ZenonT(60), <1>0, <1>1, <2>2, <2>3, <2>4, SameTypes, TypePartsNext
<1>7. Held'
  BY ZenonT(60), <1>2 DEF IInv, Held
<1>8. Known'
  <2>1. ASSUME NEW p \in Peer PROVE sessions'[p] <= made
    <3>1. sessions[p] <= made /\ None <= made
      BY <1>0, Numbers DEF IInv, Known, LoopTypes, None
    <3>. QED  BY ZenonT(60), <1>4, <3>1
  <2>2. ASSUME NEW j \in Child, removing'[j] PROVE removing[j]
    BY ZenonT(60), <1>1, <1>5, <2>2
  <2>. QED  BY ZenonT(60), <1>1, <1>2, <2>1, <2>2 DEF IInv, Known
<1>9. Entries'
  <2> SUFFICES ASSUME NEW p \in Peer, sessions'[p] # None
               PROVE  of'[sessions'[p]] = p /\ (cdone'[sessions'[p]] => removing'[sessions'[p]])
    BY DEF Entries
  <2>1. sessions'[p] = sessions[p] /\ ~(sessions[p] = k /\ p = of[k])
    BY ZenonT(60), <1>4
  <2>2. sessions[p] \in Child
    BY <1>0, <2>1 DEF ListenerTypes
  <2>3. of[sessions[p]] = p /\ (cdone[sessions[p]] => removing[sessions[p]])
    BY ZenonT(60), <2>1 DEF IInv, Entries
  <2>4. sessions[p] # k
    BY ZenonT(60), <2>1, <2>3
  <2>. QED  BY ZenonT(60), <1>1, <1>5, <2>1, <2>2, <2>3, <2>4
<1>10. Reached'
  <2> SUFFICES ASSUME NEW j \in Child, Live(j)'
               PROVE  /\ down' \in {"no", "clear"} =>
                           /\ sessions'[of'[j]] = j
                           /\ rpc' = "enqueue" /\ of'[j] = peer' => j = child'
                           /\ rpc' = "register" => of'[j] # peer'
                      /\ down' = "children" => j \in doomed'
                      /\ down' \notin {"drain", "over"}
    BY ZenonT(60) DEF Reached
  <2>1. Live(j) /\ j # k
    BY ZenonT(60), <1>1, <1>3 DEF Live
  <2>2. of[j] \in Peer
    BY ZenonT(60), <2>1 DEF IInv, Known, Live
  <2>3. sessions[of[j]] = j => sessions'[of[j]] = j
    BY ZenonT(60), <1>4, <2>1, <2>2
  <2>. QED  BY ZenonT(60), <1>1, <1>2, <2>1, <2>3 DEF IInv, Reached
<1>11. Cleared'
  BY ZenonT(60), <1>2, <1>4 DEF IInv, Cleared
<1>. QED  BY <1>6, <1>7, <1>8, <1>9, <1>10, <1>11 DEF IInv

-----------------------------------------------------------------------------
(* shutdown *)

(* Clearing the map dooms every live session: before it they are entries.  *)
LEMMA ClearStep ==
  ASSUME IInv, ShutdownClear
  PROVE  IInv'
<1>0. ListenerTypes /\ LoopTypes /\ CloseTypes /\ ReadTypes
  BY TypeParts DEF IInv
<1>1. /\ down = "clear" /\ down' = "children"
      /\ doomed' = {sessions[p] : p \in Peer} \ {None}
      /\ sessions' = [p \in Peer |-> None]
      /\ UNCHANGED <<loopVars, ldone, accepts, apc, taken, childVars>>
  BY DEF ShutdownClear
<1>2. /\ UNCHANGED <<rpc, peer, child, received, made>>
      /\ UNCHANGED <<owner, of, cdone, removing>> /\ UNCHANGED <<queued, pending, rd, deadline, token>>
  BY ZenonT(60), <1>1 DEF loopVars, childVars
<1>3. /\ \A p \in Peer : sessions'[p] = None
      /\ sessions' \in [Peer -> Child \cup {None}]
  BY <1>1
<1>4. doomed' \subseteq Child /\ \A k \in doomed' : k <= made
  BY <1>0, <1>1 DEF ListenerTypes, IInv, Known
<1>5. TypeOK'
  <2>1. ListenerTypes'
    BY ZenonT(60), <1>0, <1>1, <1>3, <1>4 DEF ListenerTypes
  <2>. QED  BY ZenonT(60), <1>0, <1>1, <1>2, <2>1, SameTypes, TypePartsNext
<1>6. Held'
  <2>1. ldone' <=> down' # "no"
    BY ZenonT(60), <1>1 DEF IInv, Held
  <2>. QED  BY ZenonT(60), <1>1, <1>2, <2>1 DEF IInv, Held
<1>7. Known'
  <2>1. None <= made
    BY <1>0, Numbers DEF LoopTypes, None
  <2>. QED  BY ZenonT(60), <1>2, <1>3, <1>4, <2>1 DEF IInv, Known
<1>8. Entries' /\ Cleared'
  BY <1>3 DEF Entries, Cleared
<1>9. Reached'
  <2> SUFFICES ASSUME NEW k \in Child, Live(k)' PROVE k \in doomed'
    BY <1>1 DEF Reached
  <2>1. Live(k)
    BY ZenonT(60), <1>2 DEF Live
  <2>2. sessions[of[k]] = k /\ of[k] \in Peer
    BY ZenonT(60), <1>1, <2>1 DEF IInv, Reached, Known, Live
  <2>. QED  BY <1>1, <2>2, Numbers
<1>. QED  BY <1>5, <1>6, <1>7, <1>8, <1>9 DEF IInv

LEMMA ChildStep ==
  ASSUME IInv, NEW k \in Child, ShutdownChild(k)
  PROVE  IInv'
<1>0. ListenerTypes /\ LoopTypes /\ CloseTypes /\ ReadTypes
  BY TypeParts DEF IInv
<1>1. /\ down = "children" /\ k \in doomed /\ doomed' = doomed \ {k}
      /\ cdone' = [cdone EXCEPT ![k] = TRUE]
      /\ token' = [token EXCEPT ![k] = token[k] \/ ~cdone[k]]
      /\ UNCHANGED <<loopVars, ldone, down, accepts, apc, taken, sessions, owner, of, removing>>
      /\ UNCHANGED <<queued, pending, rd, deadline>>
  BY ZenonT(60) DEF ShutdownChild
<1>2. UNCHANGED <<rpc, peer, child, received, made>>
  BY <1>1 DEF loopVars
<1>3. /\ cdone' \in [Child -> BOOLEAN] /\ cdone'[k]
      /\ \A j \in Child : j # k => cdone'[j] = cdone[j]
  BY ZenonT(60), <1>0, <1>1 DEF CloseTypes
<1>4. TypeOK'
  <2>1. token' \in [Child -> BOOLEAN]
    BY ZenonT(60), <1>0, <1>1 DEF ReadTypes
  <2>2. ReadTypes'
    BY ZenonT(60), <1>0, <1>1, <2>1 DEF ReadTypes
  <2>3. doomed' \subseteq Child
    BY <1>0, <1>1 DEF ListenerTypes
  <2>4. ListenerTypes'
    BY ZenonT(60), <1>0, <1>1, <2>3 DEF ListenerTypes
  <2>5. CloseTypes'
    BY ZenonT(60), <1>0, <1>1, <1>3 DEF CloseTypes
  <2>. QED  BY ZenonT(60), <1>0, <1>1, <2>2, <2>4, <2>5, SameTypes, TypePartsNext
<1>5. Held'
  BY ZenonT(60), <1>1, <1>2 DEF IInv, Held
<1>6. Known'
  <2>1. k <= made
    BY ZenonT(60), <1>1 DEF IInv, Known
  <2>2. \A j \in Child : cdone'[j] => j <= made
    BY ZenonT(60), <1>3, <2>1 DEF IInv, Known
  <2>3. \A j \in Child : cdone[j] => cdone'[j]
    BY ZenonT(60), <1>3
  <2>4. \A j \in doomed' : j <= made
    BY <1>1 DEF IInv, Known
  <2>. QED  BY ZenonT(60), <1>1, <1>2, <2>2, <2>3, <2>4 DEF IInv, Known
<1>7. \A p \in Peer : sessions'[p] = None
  BY ZenonT(60), <1>1 DEF IInv, Cleared
<1>8. Entries' /\ Cleared'
  BY <1>7 DEF Entries, Cleared
<1>9. Reached'
  <2> SUFFICES ASSUME NEW j \in Child, Live(j)' PROVE j \in doomed'
    BY <1>1 DEF Reached
  <2>1. Live(j) /\ j # k
    BY ZenonT(60), <1>1, <1>3 DEF Live
  <2>2. j \in doomed
    BY ZenonT(60), <1>1, <2>1 DEF IInv, Reached
  <2>. QED  BY <1>1, <2>1, <2>2
<1>. QED  BY <1>4, <1>5, <1>6, <1>8, <1>9 DEF IInv

LEMMA DrainStep ==
  ASSUME IInv, ShutdownDrain
  PROVE  IInv'
<1>0. ListenerTypes /\ LoopTypes /\ CloseTypes /\ ReadTypes
  BY TypeParts DEF IInv
<1>1. /\ (down = "children" /\ doomed = {}) \/ down = "drain"
      /\ \/ down' = "over" /\ UNCHANGED <<accepts, owner, cdone, removing>>
         \/ /\ accepts # <<>> /\ down' = "drain" /\ accepts' = Tail(accepts)
            /\ owner' = [owner EXCEPT ![Head(accepts)] = "lost"] /\ StartClose(Head(accepts))
      /\ UNCHANGED <<loopVars, ldone, doomed, apc, taken, sessions, of>>
      /\ UNCHANGED <<queued, pending, rd, deadline, token>>
  BY ZenonT(60) DEF ShutdownDrain
<1>2. UNCHANGED <<rpc, peer, child, received, made>>
  BY <1>1 DEF loopVars
<1>3. \A k \in Child : ~Live(k)
  BY ZenonT(60), <1>1 DEF IInv, Reached
<1>4. /\ \A p \in Peer : sessions[p] = None
      /\ down' \in {"drain", "over"} /\ (ldone' <=> down' # "no")
  <2>1. down' \in {"drain", "over"}
    BY ZenonT(60), <1>1
  <2>2. down # "no" /\ ldone
    BY ZenonT(60), <1>1 DEF IInv, Held
  <2>3. ldone'
    BY ZenonT(60), <1>1, <2>2
  <2>4. \A p \in Peer : sessions[p] = None
    BY ZenonT(60), <1>1 DEF IInv, Cleared
  <2>. QED  BY <2>1, <2>3, <2>4
<1>5. /\ accepts' \in Seq(Child) /\ Len(accepts') <= AcceptQueue
      /\ \A i \in 1 .. Len(accepts') : accepts'[i] <= made
      /\ CloseTypes'
      /\ \A k \in Child : owner'[k] # "none" <=> owner[k] # "none"
      /\ \A k \in Child : cdone[k] => cdone'[k]
      /\ \A k \in Child : cdone'[k] => k <= made
      /\ \A k \in Child : removing'[k] => cdone'[k]
  <2>1. CASE UNCHANGED <<accepts, owner, cdone, removing>>
    <3>1. CloseTypes'
      BY ZenonT(60), <1>0, <1>1, <2>1 DEF CloseTypes
    <3>. QED  BY ZenonT(60), <2>1, <3>1 DEF IInv, TypeOK, Held, Known
  <2>2. CASE /\ accepts # <<>> /\ accepts' = Tail(accepts)
             /\ owner' = [owner EXCEPT ![Head(accepts)] = "lost"] /\ StartClose(Head(accepts))
    <3> DEFINE h == Head(accepts)
    <3>1. /\ h \in Child /\ h <= made
          /\ Tail(accepts) \in Seq(Child) /\ Len(Tail(accepts)) <= AcceptQueue
          /\ \A i \in 1 .. Len(Tail(accepts)) : Tail(accepts)[i] <= made
      BY ZenonT(60), <2>2, Queues
    <3>2. /\ owner' \in [Child -> {"none", "loop", "queue", "accept", "user", "lost"}]
          /\ \A j \in Child : owner'[j] # "none" <=> owner[j] # "none"
      BY ZenonT(60), <2>2, <3>1, Handed
    <3>3. /\ cdone' \in [Child -> BOOLEAN] /\ removing' \in [Child -> BOOLEAN] /\ cdone'[h]
          /\ \A j \in Child : j # h => cdone'[j] = cdone[j] /\ removing'[j] = removing[j]
      BY ZenonT(60), <2>2, <3>1, Closes DEF IInv
    <3>4. CloseTypes'
      BY ZenonT(60), <1>0, <1>1, <3>2, <3>3 DEF CloseTypes
    <3>5. ASSUME NEW k \in Child
          PROVE  /\ cdone[k] => cdone'[k]
                 /\ cdone'[k] => k <= made
                 /\ removing'[k] => cdone'[k]
      BY ZenonT(60), <3>1, <3>3 DEF IInv, Known
    <3>. QED  BY ZenonT(60), <2>2, <3>1, <3>2, <3>4, <3>5
  <2>. QED  BY ZenonT(60), <1>1, <2>1, <2>2
<1>6. TypeOK'
  <2>1. ListenerTypes'
    BY ZenonT(60), <1>0, <1>1, <1>4, <1>5 DEF ListenerTypes
  <2>. QED  BY ZenonT(60), <1>0, <1>1, <1>5, <2>1, SameTypes, TypePartsNext
<1>7. Held' /\ Known'
  BY ZenonT(60), <1>1, <1>2, <1>4, <1>5 DEF IInv, Held, Known
<1>8. Entries' /\ Cleared'
  BY ZenonT(60), <1>1, <1>4 DEF Entries, Cleared
<1>9. Reached'
  <2>1. \A k \in Child : ~Live(k)'
    BY ZenonT(60), <1>3, <1>5 DEF Live
  <2>. QED  BY ZenonT(60), <2>1 DEF Reached
<1>. QED  BY <1>6, <1>7, <1>8, <1>9 DEF IInv

-----------------------------------------------------------------------------
LEMMA NextIInv == IInv /\ [Next]_vars => IInv'
<1> SUFFICES ASSUME IInv, [Next]_vars PROVE IInv'
  OBVIOUS
<1>1. CASE UNCHANGED vars
  <2>1. UNCHANGED <<loopVars, listenerVars, sessions, childVars>>
    BY <1>1 DEF vars
  <2>2. UNCHANGED <<owner, of, cdone, removing>> /\ UNCHANGED <<queued, pending, rd, deadline, token>>
    BY ZenonT(60), <2>1 DEF childVars
  <2>3. TypeOK'
    BY ZenonT(60), <2>1, <2>2, TypeParts, SameTypes, TypePartsNext DEF IInv
  <2>4. Steady
    BY <2>1, <2>2, SteadySame DEF loopVars, listenerVars
  <2>5. Held'
    BY ZenonT(60), <2>1 DEF IInv, Held, loopVars, listenerVars
  <2>. QED  BY <2>3, <2>4, <2>5, SteadyStep DEF IInv
<1>2. CASE Loop
  BY ZenonT(60), <1>2, ReceiveFailsStep, LookupStep, EnqueueStep, RegisterStep, OfferStep, RefuseStep
  DEF Loop
<1>3. CASE ShuttingDown
  BY ZenonT(60), <1>3, ClearStep, ChildStep, DrainStep DEF ShuttingDown
<1>. QED
  BY ZenonT(60), <1>1, <1>2, <1>3, ReceiveStep, AcceptStep, ShutdownStep, UserCloseStep, RemoveStep,
     ReaderStep DEF Next

(* The sessions of a UDP-LISTEN,fork dispatcher are exact: until shutdown   *)
(* every live session is the one its peer's datagrams reach, an entry is    *)
(* never a closed session that nobody removes, and when shutdown and        *)
(* readLoop are over no session is left open.                               *)
THEOREM SessionsAreExact == Spec => []SessionsExact
<1>1. IInv => SessionsExact
  <2> SUFFICES ASSUME IInv PROVE MapExact /\ ShutdownClosesAll
    BY DEF SessionsExact
  <2>1. MapExact
    BY ZenonT(60) DEF IInv, MapExact, Entries, Reached
  <2>2. ShutdownClosesAll
    BY ZenonT(60) DEF IInv, ShutdownClosesAll, Reached, Live
  <2>. QED  BY <2>1, <2>2
<1>2. Spec => []IInv
  BY InitIInv, NextIInv, PTL DEF Spec
<1>. QED  BY <1>1, <1>2, PTL
=============================================================================
