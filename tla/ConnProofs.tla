----------------------------- MODULE ConnProofs -----------------------------
(***************************************************************************)
(* Proofs about the writes of DTLSConn, for any callers, associations and  *)
(* number of attempts: a datagram is sent at most once, a Write that       *)
(* reports success sent its own, and a write is interrupted only for its   *)
(* own sake.                                                               *)
(*                                                                         *)
(* Commands are used again, so the argument is about who has one.  A       *)
(* command is with the caller that took it, cached for the next, or given  *)
(* up for good, and then its signal is closed (Owned).  A driver works for *)
(* a waiting caller or for one that gave up (Driven).  A datagram is in at *)
(* most one write, which its driver waits for as long as the command is    *)
(* its own (Written), and was sent exactly if that write succeeded (Told). *)
(***************************************************************************)
EXTENDS DTLSConn, TLAPS

USE SMTT(30)

(* The associations are numbered from 1, as 0 stands for none of them.     *)
ConnConstants == 0 \notin Conns /\ ConnOf \in [Callers -> Conns]

Datagrams == Callers \X {1}
PacketWrite ==
  [conn : Conns \cup {0}, command : Commands \cup {NoCommand},
   data : Datagrams \cup {NoCommand}, deadline : BOOLEAN, expired : BOOLEAN,
   result : {"none", "ok", "again", "closed"}]

CallerTypes ==
  /\ caller \in [Callers -> [pc : {"idle", "offer", "wait"},
                             command : Commands \cup {NoCommand},
                             outcome : {"none", "ok", "timeout", "closed"}]]
  /\ calls \in [Callers -> {0, 1}]
  /\ cached \in [Conns -> Commands \cup {NoCommand}]
  /\ cmd \in [Commands -> [data : Datagrams \cup {NoCommand},
                           result : {"none", "ok", "timeout", "closed"}]]
  /\ late \in [Conns -> {"none", "ahead", "past", "cleared"}]
DriverTypes ==
  /\ drv \in [Conns -> [pc : {"run", "write", "done"}, pending : Commands \cup {NoCommand},
                        write : Nat]]
WriterTypes ==
  /\ writes \in Seq(PacketWrite) /\ queue \in Seq(Nat) /\ active \in Nat
  /\ sent \in [Datagrams -> {0, 1}]
Types == CallerTypes /\ DriverTypes /\ WriterTypes

(* The datagram of a caller, and the name of a command it makes.           *)
Own(c) == <<c, 1>>

(* Whose a command is.                                                     *)
Dead(k) == <<"command", k>> \in signals
Has(c, k) == caller[c].pc # "idle" /\ caller[c].command = k
Spare(k) == ~Dead(k) /\ cmd[k].result = "none" /\ \A c \in Callers : ~Has(c, k)

Calling ==
  \A c \in Callers :
    /\ caller[c].pc # "idle" => /\ caller[c].command \in Commands
                                /\ calls[c] = 1 /\ caller[c].outcome = "none"
    /\ \A k \in Commands : Has(c, k) =>
         /\ ~Dead(k) /\ cmd[k].data = Own(c)
         /\ caller[c].pc = "offer" => cmd[k].result = "none"
Alone == \A b, c \in Callers, k \in Commands : Has(b, k) /\ Has(c, k) => b = c
Cached ==
  \A a \in Conns, k \in Commands : cached[a] = k =>
    Spare(k) /\ \A b \in Conns : cached[b] = k => a = b
Unused ==
  \A c \in Callers : calls[c] = 0 =>
    Spare(Own(c)) /\ \A a \in Conns : cached[a] # Own(c)
Owned == Calling /\ Alone /\ Cached /\ Unused

(* For whom a driver works.                                                *)
Waits(c, k) == caller[c].pc = "wait" /\ caller[c].command = k
Serves(a, c) == caller[c].pc = "wait" /\ caller[c].command = drv[a].pending
Working ==
  \A a \in Conns, k \in Commands : drv[a].pending = k =>
    \/ Dead(k)
    \/ \E c \in Callers : Waits(c, k) /\ ConnOf[c] = a /\ cmd[k].result = "none"
Awaiting ==
  \A a \in Conns :
    /\ drv[a].pc = "done" => drv[a].pending = NoCommand
    /\ drv[a].pc = "write" =>
         /\ drv[a].pending # NoCommand
         /\ drv[a].write \in DOMAIN writes
         /\ writes[drv[a].write].conn = a /\ writes[drv[a].write].command = drv[a].pending
         /\ \A c \in Callers : Serves(a, c) =>
              writes[drv[a].write].data = Own(c)
Driven == Working /\ Awaiting

(* Where a datagram is.                                                    *)
Carries(w, c) == writes[w].command # NoCommand /\ writes[w].data = Own(c)
Carried ==
  /\ \A w \in DOMAIN writes : writes[w].command # NoCommand =>
       \E c \in Callers : writes[w].data = Own(c)
  /\ \A v, w \in DOMAIN writes, c \in Callers : Carries(v, c) /\ Carries(w, c) => v = w
Handled ==
  \A w \in DOMAIN writes, c \in Callers : Carries(w, c) =>
    /\ calls[c] = 1 /\ caller[c].pc # "offer"
    /\ Serves(ConnOf[c], c) =>
         drv[ConnOf[c]].pc = "write" /\ drv[ConnOf[c]].write = w
Written == Carried /\ Handled
Queued ==
  /\ \A i \in DOMAIN queue :
       /\ queue[i] \in DOMAIN writes /\ queue[i] # active
       /\ writes[queue[i]].command # NoCommand /\ writes[queue[i]].result = "none"
  /\ \A i, j \in DOMAIN queue : queue[i] = queue[j] => i = j
  /\ active # 0 => /\ active \in DOMAIN writes
                   /\ writes[active].command # NoCommand /\ writes[active].result = "none"

(* What was sent, and who knows.                                           *)
Sent ==
  \A w \in DOMAIN writes, c \in Callers : Carries(w, c) =>
    (writes[w].result = "ok" <=> sent[Own(c)] = 1)
Told ==
  \A c \in Callers :
    /\ calls[c] = 0 \/ caller[c].pc = "offer" => sent[Own(c)] = 0
    /\ Serves(ConnOf[c], c) /\ drv[ConnOf[c]].pc = "run" => sent[Own(c)] = 0
    /\ \A k \in Commands : Waits(c, k) /\ cmd[k].result = "ok" => sent[Own(c)] = 1
    /\ caller[c].outcome = "ok" => sent[Own(c)] = 1

IInv == Types /\ Owned /\ Driven /\ Written /\ Queued /\ Sent /\ Told /\ InterruptOwn

-----------------------------------------------------------------------------
LEMMA NotCommand ==
  ASSUME ConnConstants
  PROVE  NoCommand \notin Commands
BY DEF ConnConstants, NoCommand, Commands, First

LEMMA OwnIsOne ==
  /\ \A b, c \in Callers : Own(b) = Own(c) => b = c
  /\ \A c \in Callers : Own(c) \in Commands /\ Own(c) \in Datagrams
  /\ \A d \in Datagrams : \E c \in Callers : d = Own(c)
BY DEF Own, Commands, Datagrams

LEMMA InitIInv ==
  ASSUME ConnConstants, Init
  PROVE  IInv
<1>1. Types
  <2>1. CallerTypes
    BY Zenon DEF Init, CallerTypes, Idle, Commands, First
  <2>2. DriverTypes
    BY Zenon DEF Init, DriverTypes
  <2>3. WriterTypes
    BY DEF Init, WriterTypes, Datagrams
  <2>. QED BY Zenon, <2>1, <2>2, <2>3 DEF Types
<1>2. \A c \in Callers : caller[c].pc = "idle" /\ caller[c].outcome = "none"
  BY Zenon DEF Init, Idle
<1>3. Owned
  <2>1. \A k \in Commands : Spare(k)
    BY Zenon DEF Init, Spare, Idle, Has, Dead
  <2>2. \A a \in Conns : cached[a] = First(a)
    BY Zenon DEF Init
  <2>3. \A a, b \in Conns : First(a) = First(b) => a = b
    BY Zenon DEF First
  <2>4. \A a \in Conns, c \in Callers : First(a) # Own(c)
    BY DEF First, Own
  <2>5. Calling /\ Alone
    BY Zenon, <1>2 DEF Calling, Alone, Has
  <2>6. Cached
    BY <2>1, <2>2, <2>3, Zenon DEF Cached
  <2>7. Unused
    <3>1. \A c \in Callers : Spare(Own(c))
      BY Zenon, <2>1, OwnIsOne
    <3>. QED BY <3>1, <2>2, <2>4, Zenon DEF Unused
  <2>. QED BY Zenon, <2>5, <2>6, <2>7 DEF Owned
<1>4. Driven
  <2>1. Working
    BY Zenon, NotCommand DEF Init, Working
  <2>2. Awaiting
    BY Zenon DEF Init, Awaiting
  <2>. QED BY Zenon, <2>1, <2>2 DEF Driven
<1>5. Written /\ Queued /\ Sent
  BY DEF Init, Written, Carried, Handled, Queued, Sent
<1>6. Told
  <2>1. \A c \in Callers : sent[Own(c)] = 0
    BY Zenon, OwnIsOne DEF Init, Datagrams
  <2>. QED BY Zenon, <1>2, <2>1 DEF Told, Waits, Serves
<1>7. InterruptOwn
  BY Zenon DEF Init, InterruptOwn
<1>. QED BY Zenon, <1>1, <1>3, <1>4, <1>5, <1>6, <1>7 DEF IInv

-----------------------------------------------------------------------------
(* What the steps need to know of signals.                                 *)
LEMMA SameSignals ==
  ASSUME UNCHANGED signals
  PROVE  \A k \in Commands : Dead(k)' <=> Dead(k)
BY Zenon DEF Dead

LEMMA CommandSignal ==
  ASSUME NEW j \in Commands, cancelWrite(<<"command", j>>)
  PROVE  \A k \in Commands : Dead(k)' <=> Dead(k) \/ k = j
BY Zenon DEF Dead, cancelWrite

(* A write is cut off for its own sake as long as a step that moves the    *)
(* socket's deadline has a reason in the write it moves it for.            *)
LEMMA InterruptKept ==
  ASSUME IInv, active' = active, signals \subseteq signals',
         active # 0 => /\ writes'[active].conn = writes[active].conn
                       /\ writes'[active].command = writes[active].command
                       /\ writes[active].expired => writes'[active].expired,
         active # 0 /\ past' => \/ past \/ writes'[active].expired
                                \/ Signals(active) \cap signals' # {}
  PROVE  InterruptOwn'
<1>1. active # 0 => Signals(active)' = Signals(active)
  BY Zenon DEF Signals
<1>. QED BY Zenon, <1>1 DEF IInv, InterruptOwn

LEMMA CancelInterrupt ==
  ASSUME IInv, NEW s, cancelWrite(s), UNCHANGED <<active, writes>>
  PROVE  InterruptOwn'
BY InterruptKept, Zenon DEF cancelWrite

LEMMA SocketRests ==
  ASSUME IInv, UNCHANGED <<active, writes, past, signals>>
  PROVE  InterruptOwn'
BY Zenon DEF IInv, InterruptOwn, Signals

(* A driver that takes no new command keeps working for whom it did.       *)
LEMMA WorkingKept ==
  ASSUME Working,
         \A a \in Conns, k \in Commands : drv'[a].pending = k => drv[a].pending = k,
         \A k \in Commands : Dead(k) => Dead(k)',
         \A a \in Conns, k \in Commands, c \in Callers :
           drv'[a].pending = k /\ Waits(c, k) /\ ConnOf[c] = a /\ cmd[k].result = "none" =>
             Dead(k)' \/ (Waits(c, k)' /\ cmd'[k].result = "none")
  PROVE  Working'
<1>. SUFFICES ASSUME NEW a \in Conns, NEW k \in Commands, drv'[a].pending = k, ~Dead(k)'
     PROVE  \E c \in Callers : Waits(c, k)' /\ ConnOf[c] = a /\ cmd'[k].result = "none"
  BY DEF Working
<1>1. PICK c \in Callers : Waits(c, k) /\ ConnOf[c] = a /\ cmd[k].result = "none"
  BY ZenonT(60) DEF Working
<1>. QED BY <1>1, Zenon

-----------------------------------------------------------------------------
(* The caller.                                                             *)
LEMMA WriteStep ==
  ASSUME ConnConstants, IInv, NEW c \in Callers, Write(c)
  PROVE  IInv'
<1>. DEFINE a == ConnOf[c]
<1>0. Types /\ Calling /\ Alone /\ Cached /\ Unused /\ Working /\ Awaiting
  BY Zenon DEF IInv, Owned, Driven
<1>1. a \in Conns /\ calls[c] = 0 /\ c \in Callers
  BY Zenon DEF ConnConstants, Write
<1>2. PICK k \in Commands : k = IF cached[a] # NoCommand THEN cached[a] ELSE Own(c)
  BY Zenon, <1>0, <1>1, OwnIsOne DEF Types, CallerTypes
<1>3. k \in Commands /\ Spare(k)
  BY Zenon, <1>0, <1>1, <1>2 DEF Cached, Unused
<1>4. /\ calls' = [calls EXCEPT ![c] = 1]
      /\ cached' = [cached EXCEPT ![a] = NoCommand]
      /\ cmd' = [cmd EXCEPT ![k].data = Own(c)]
      /\ caller' = [caller EXCEPT ![c] = [pc |-> "offer", command |-> k, outcome |-> "none"]]
  BY <1>0, <1>1, <1>2 DEF Write, Types, CallerTypes, Own
<1>5. UNCHANGED <<late, drv, writes, queue, active, past, signals, sent>>
  BY Zenon DEF Write
<1>6. caller[c].pc = "idle"
  BY Zenon DEF Write
<1>7. \A j \in Commands : Dead(j)' <=> Dead(j)
  BY Zenon, <1>5, SameSignals
<1>8. Types'
  <2>1. CallerTypes'
    BY <1>0, <1>1, <1>3, <1>4, <1>5, OwnIsOne DEF Types, CallerTypes
  <2>. QED BY Zenon, <1>0, <1>5, <2>1 DEF Types, DriverTypes, WriterTypes
<1>. USE DEF Types, CallerTypes, DriverTypes, WriterTypes
<1>9. Calling'
  BY <1>0, <1>3, <1>4, <1>6, <1>7 DEF Calling, Has, Spare
<1>10. Alone'
  BY <1>0, <1>3, <1>4, <1>6 DEF Alone, Has, Spare
<1>11. Cached'
  BY <1>0, <1>1, <1>2, <1>3, <1>4, <1>6, <1>7, NotCommand, OwnIsOne DEF Cached, Unused, Has, Spare
<1>12. Unused'
  BY <1>0, <1>1, <1>2, <1>3, <1>4, <1>6, <1>7, NotCommand, OwnIsOne DEF Cached, Unused, Has, Spare
<1>13. Working'
  <2>1. \A j \in Commands : cmd'[j].result = cmd[j].result
    BY <1>0, <1>3, <1>4
  <2>2. \A b \in Callers, j \in Commands : Waits(b, j) => Waits(b, j)'
    BY Zenon, <1>0, <1>4, <1>6 DEF Waits
  <2>. QED BY <1>0, <1>5, <1>7, <2>1, <2>2, WorkingKept, Zenon
<1>14. \A b \in Conns, d \in Callers : Serves(b, d)' => Serves(b, d)
  BY Zenon, <1>0, <1>4, <1>5 DEF Serves
<1>15. Awaiting'
  BY Zenon, <1>0, <1>5, <1>14 DEF Awaiting
<1>16. Written'
  BY <1>0, <1>1, <1>4, <1>5, <1>14 DEF IInv, Written, Carried, Handled, Carries, ConnConstants
<1>17. Queued' /\ Sent'
  BY <1>5 DEF IInv, Queued, Sent, Carries
<1>18. Told'
  BY <1>0, <1>1, <1>4, <1>5, <1>6, <1>14 DEF IInv, Told, Waits, ConnConstants
<1>19. InterruptOwn'
  BY Zenon, <1>5, SocketRests
<1>. QED BY Zenon, <1>8, <1>9, <1>10, <1>11, <1>12, <1>13, <1>15, <1>16, <1>17, <1>18, <1>19
            DEF IInv, Owned, Driven

LEMMA OfferStep ==
  ASSUME ConnConstants, IInv, NEW c \in Callers, Offer(c)
  PROVE  IInv'
<1>. DEFINE a == ConnOf[c]
<1>0. Types /\ Calling /\ Alone /\ Cached /\ Unused /\ Working /\ Awaiting
  BY Zenon DEF IInv, Owned, Driven
<1>1. /\ a \in Conns /\ caller[c].pc = "offer" /\ drv[a].pc = "run"
      /\ drv[a].pending = NoCommand
  BY Zenon DEF ConnConstants, Offer
<1>2. PICK k \in Commands : /\ caller[c].command = k /\ Has(c, k) /\ ~Dead(k)
                           /\ cmd[k].result = "none"
  BY Zenon, <1>0, <1>1 DEF Calling, Has
<1>3. /\ caller' = [caller EXCEPT ![c].pc = "wait"]
      /\ drv' = [drv EXCEPT ![a].pending = k]
      /\ UNCHANGED <<calls, cached, cmd, late, writes, queue, active, past, signals, sent>>
  BY Zenon, <1>2 DEF Offer
<1>4. \A j \in Commands : Dead(j)' <=> Dead(j)
  BY Zenon, <1>3, SameSignals
<1>5. Types'
  <2>1. CallerTypes'
    BY <1>0, <1>3 DEF Types, CallerTypes
  <2>2. DriverTypes'
    BY <1>0, <1>1, <1>2, <1>3 DEF Types, DriverTypes
  <2>. QED BY Zenon, <1>0, <1>3, <2>1, <2>2 DEF Types, WriterTypes
<1>. USE DEF Types, CallerTypes, DriverTypes, WriterTypes
<1>6. \A b \in Callers, j \in Commands : Has(b, j)' <=> Has(b, j)
  BY <1>0, <1>1, <1>3 DEF Has
<1>7. Calling'
  BY <1>0, <1>1, <1>3, <1>4, <1>6 DEF Calling
<1>8. Alone' /\ Cached' /\ Unused'
  <2>1. \A j \in Commands : Spare(j)' <=> Spare(j)
    BY Zenon, <1>3, <1>4, <1>6 DEF Spare
  <2>. QED BY Zenon, <1>0, <1>3, <1>6, <2>1, OwnIsOne DEF Alone, Cached, Unused
<1>9. Working'
  <2>. SUFFICES ASSUME NEW b \in Conns, NEW j \in Commands, drv'[b].pending = j, ~Dead(j)
       PROVE  \E d \in Callers : Waits(d, j)' /\ ConnOf[d] = b /\ cmd[j].result = "none"
    BY Zenon, <1>3, <1>4 DEF Working
  <2>1. CASE b = a
    BY <2>1, <1>0, <1>1, <1>2, <1>3 DEF Has, Waits
  <2>2. CASE b # a
    <3>1. PICK d \in Callers : Waits(d, j) /\ ConnOf[d] = b /\ cmd[j].result = "none"
      BY <1>0, <1>1, <1>3, <2>2 DEF Working
    <3>. QED BY Zenon, <3>1, <1>0, <1>1, <1>3 DEF Waits
  <2>. QED BY Zenon, <2>1, <2>2
<1>10. \A b \in Conns, d \in Callers : Serves(b, d)' => Serves(b, d) \/ (b = a /\ d = c)
  <2>. SUFFICES ASSUME NEW b \in Conns, NEW d \in Callers, Serves(b, d)', ~Serves(b, d)
       PROVE  b = a /\ d = c
    OBVIOUS
  <2>1. CASE b = a
    <3>1. Has(d, k)
      BY <2>1, <1>0, <1>1, <1>2, <1>3 DEF Serves, Has
    <3>. QED BY Zenon, <2>1, <3>1, <1>0, <1>2 DEF Alone
  <2>2. CASE b # a
    <3>1. d = c /\ drv[b].pending = k
      BY <2>2, <1>0, <1>1, <1>2, <1>3 DEF Serves
    <3>2. PICK e \in Callers : Waits(e, k)
      BY <3>1, <1>0, <1>2, Zenon DEF Working
    <3>3. e = c
      BY ZenonT(60), <3>2, <1>0, <1>2 DEF Alone, Has, Waits
    <3>. QED BY Zenon, <3>2, <3>3, <1>1 DEF Waits
  <2>. QED BY Zenon, <2>1, <2>2
<1>11. Awaiting'
  BY <1>0, <1>1, <1>2, <1>3, <1>10 DEF Awaiting
<1>12. Written'
  <2>1. Carried'
    BY <1>3 DEF IInv, Written, Carried, Carries
  <2>2. \A w \in DOMAIN writes : ~Carries(w, c)
    BY Zenon, <1>1 DEF IInv, Written, Handled
  <2>3. Handled'
    BY <1>0, <1>1, <1>3, <1>10, <2>2 DEF IInv, Written, Handled, Carries, ConnConstants
  <2>. QED BY Zenon, <2>1, <2>3 DEF Written
<1>13. Queued' /\ Sent'
  BY <1>3 DEF IInv, Queued, Sent, Carries
<1>14. Told'
  <2>1. sent[Own(c)] = 0
    BY Zenon, <1>1 DEF IInv, Told
  <2>2. \A j \in Commands : Waits(c, j)' => cmd[j].result = "none"
    BY <1>0, <1>2, <1>3 DEF Waits, Has
  <2>. QED BY <1>0, <1>1, <1>3, <1>10, <2>1, <2>2 DEF IInv, Told, Waits, ConnConstants
<1>15. InterruptOwn'
  BY Zenon, <1>3, SocketRests
<1>. QED BY Zenon, <1>5, <1>7, <1>8, <1>9, <1>11, <1>12, <1>13, <1>14, <1>15 DEF IInv, Owned, Driven

(* A caller that returns leaves its command dead, or spare.                *)
LEMMA ReturnStep ==
  ASSUME ConnConstants, IInv, NEW c \in Callers, TakeReply(c) \/ GiveUp(c)
  PROVE  IInv'
<1>. DEFINE a == ConnOf[c]
<1>0. Types /\ Calling /\ Alone /\ Cached /\ Unused /\ Working /\ Awaiting
  BY Zenon DEF IInv, Owned, Driven
<1>1. a \in Conns /\ caller[c].pc # "idle"
  BY Zenon DEF ConnConstants, TakeReply, GiveUp
<1>2. PICK k \in Commands : caller[c].command = k /\ Has(c, k) /\ ~Dead(k)
  BY Zenon, <1>0, <1>1 DEF Calling, Has
<1>3. UNCHANGED <<calls, late, drv, writes, queue, active, sent>>
  BY Zenon DEF TakeReply, GiveUp
<1>4. PICK o \in {"none", "ok", "timeout", "closed"} :
        /\ caller' = [caller EXCEPT ![c] = [pc |-> "idle", command |-> NoCommand, outcome |-> o]]
        /\ o = "ok" => cmd[k].result = "ok" /\ Waits(c, k)
  BY Zenon, <1>0, <1>2 DEF TakeReply, GiveUp, Finish, Types, CallerTypes, Waits
<1>5. \/ /\ cmd' = [cmd EXCEPT ![k] = [data |-> NoCommand, result |-> "none"]]
         /\ Waits(c, k) /\ cmd[k].result # "none"
      \/ UNCHANGED cmd
  BY Zenon, <1>2 DEF TakeReply, GiveUp, Waits, Has
<1>6. \/ /\ cancelWrite(<<"command", k>>)
         /\ UNCHANGED cached
      \/ /\ UNCHANGED <<signals, past>>
         /\ cached' = [cached EXCEPT ![a] = IF @ = NoCommand THEN k ELSE @]
         /\ cmd' = [cmd EXCEPT ![k] = [data |-> NoCommand, result |-> "none"]]
         /\ cmd[k].result = "ok"
  BY Zenon, <1>2 DEF TakeReply, GiveUp, Abandon
<1>7. InterruptOwn'
  BY Zenon, <1>3, <1>6, SocketRests, CancelInterrupt
<1>8. \/ /\ \A j \in Commands : Dead(j)' <=> Dead(j) \/ j = k
         /\ UNCHANGED cached
      \/ /\ \A j \in Commands : Dead(j)' <=> Dead(j)
         /\ cached' = [cached EXCEPT ![a] = IF @ = NoCommand THEN k ELSE @]
         /\ cmd' = [cmd EXCEPT ![k] = [data |-> NoCommand, result |-> "none"]]
         /\ cmd[k].result = "ok"
  BY Zenon, <1>2, <1>6, SameSignals, CommandSignal
<1>9. Types'
  <2>. USE DEF Types, CallerTypes
  <2>1. caller' \in [Callers -> [pc : {"idle", "offer", "wait"},
                                 command : Commands \cup {NoCommand},
                                 outcome : {"none", "ok", "timeout", "closed"}]]
    BY Zenon, <1>0, <1>4
  <2>2. cmd' \in [Commands -> [data : Datagrams \cup {NoCommand},
                               result : {"none", "ok", "timeout", "closed"}]]
    BY <1>0, <1>2, <1>5
  <2>3. cached' \in [Conns -> Commands \cup {NoCommand}]
    BY <1>0, <1>1, <1>2, <1>8
  <2>4. CallerTypes'
    BY Zenon, <1>0, <1>3, <2>1, <2>2, <2>3
  <2>. QED BY Zenon, <1>0, <1>3, <2>4 DEF DriverTypes, WriterTypes
<1>. USE DEF Types, CallerTypes, DriverTypes, WriterTypes
<1>10. \A b \in Callers, j \in Commands : Has(b, j)' <=> Has(b, j) /\ b # c
  BY Zenon, <1>0, <1>1, <1>4 DEF Has
<1>11. \A b \in Callers, j \in Commands : Waits(b, j)' <=> Waits(b, j) /\ b # c
  BY Zenon, <1>0, <1>1, <1>4 DEF Waits
<1>12. \A j \in Commands : j # k => cmd'[j] = cmd[j]
  BY Zenon, <1>0, <1>2, <1>5
<1>13. \A b \in Callers, j \in Commands : b # c /\ Has(b, j) => j # k
  BY Zenon, <1>0, <1>2 DEF Alone
<1>14. Calling'
  BY <1>0, <1>3, <1>4, <1>8, <1>10, <1>12, <1>13 DEF Calling
<1>15. Alone'
  BY Zenon, <1>0, <1>10 DEF Alone
<1>16. \A j \in Commands : Spare(j) => Spare(j)'
  BY Zenon, <1>2, <1>8, <1>10, <1>12 DEF Spare
<1>17. Cached'
  <2>1. CASE UNCHANGED cached
    BY Zenon, <2>1, <1>0, <1>16 DEF Cached
  <2>2. CASE /\ \A j \in Commands : Dead(j)' <=> Dead(j)
             /\ cached' = [cached EXCEPT ![a] = IF @ = NoCommand THEN k ELSE @]
             /\ cmd' = [cmd EXCEPT ![k] = [data |-> NoCommand, result |-> "none"]]
    <3>1. Spare(k)'
      BY Zenon, <2>2, <1>0, <1>2, <1>10, <1>13 DEF Spare
    <3>2. \A b \in Conns : cached[b] # k
      BY Zenon, <1>0, <1>2 DEF Cached, Spare
    <3>. QED BY <2>2, <3>1, <3>2, <1>0, <1>1, <1>16 DEF Cached
  <2>. QED BY Zenon, <1>8, <2>1, <2>2
<1>18. Unused'
  BY <1>0, <1>1, <1>2, <1>3, <1>8, <1>16, OwnIsOne DEF Unused, Spare
<1>19. Working'
  <2>1. \A j \in Commands : Dead(j) => Dead(j)'
    BY Zenon, <1>8
  <2>2. \A b \in Callers, j \in Commands : Waits(b, j) /\ cmd[j].result = "none" =>
          Dead(j)' \/ (Waits(b, j)' /\ cmd'[j].result = "none")
    <3>. SUFFICES ASSUME NEW b \in Callers, NEW j \in Commands, Waits(b, j),
                         cmd[j].result = "none", ~Dead(j)'
         PROVE  Waits(b, j)' /\ cmd'[j].result = "none"
      OBVIOUS
    <3>1. Has(b, j)
      BY Zenon DEF Has, Waits
    <3>2. b # c
      BY Zenon, <1>2, <1>8 DEF Waits, Has
    <3>. QED BY Zenon, <3>1, <3>2, <1>11, <1>12, <1>13
  <2>. QED BY Zenon, <1>0, <1>3, <2>1, <2>2, WorkingKept
<1>20. \A b \in Conns, d \in Callers : Serves(b, d)' => Serves(b, d) /\ d # c
  BY Zenon, <1>0, <1>3, <1>4 DEF Serves
<1>21. Awaiting'
  BY Zenon, <1>0, <1>3, <1>20 DEF Awaiting
<1>22. Written' /\ Queued' /\ Sent'
  <2>1. Carried' /\ Queued' /\ Sent'
    BY <1>3 DEF IInv, Written, Carried, Queued, Sent, Carries
  <2>2. Handled'
    BY <1>0, <1>3, <1>4, <1>20 DEF IInv, Written, Handled, Carries, ConnConstants
  <2>. QED BY ZenonT(60), <2>1, <2>2 DEF Written
<1>23. Told'
  <2>. SUFFICES ASSUME NEW b \in Callers
       PROVE  /\ calls[b] = 0 \/ caller'[b].pc = "offer" => sent[Own(b)] = 0
              /\ Serves(ConnOf[b], b)' /\ drv[ConnOf[b]].pc = "run" =>
                   sent[Own(b)] = 0
              /\ \A j \in Commands : Waits(b, j)' /\ cmd'[j].result = "ok" => sent[Own(b)] = 1
              /\ caller'[b].outcome = "ok" => sent[Own(b)] = 1
    BY ZenonT(60), <1>3 DEF Told
  <2>1. CASE b = c
    BY <2>1, <1>0, <1>1, <1>2, <1>3, <1>4, <1>11, <1>20 DEF IInv, Told, Calling, ConnConstants
  <2>2. CASE b # c
    <3>1. caller'[b] = caller[b]
      BY Zenon, <2>2, <1>0, <1>4
    <3>2. \A j \in Commands : Waits(b, j)' => Waits(b, j) /\ cmd'[j] = cmd[j]
      BY Zenon, <2>2, <1>11, <1>12, <1>13 DEF Waits, Has
    <3>3. ConnOf[b] \in Conns
      BY Zenon DEF ConnConstants
    <3>. QED BY Zenon, <3>1, <3>2, <3>3, <1>20 DEF IInv, Told
  <2>. QED BY Zenon, <2>1, <2>2
<1>. QED BY Zenon, <1>7, <1>9, <1>14, <1>15, <1>17, <1>18, <1>19, <1>20, <1>21, <1>22, <1>23
            DEF IInv, Owned, Driven

-----------------------------------------------------------------------------
(* Steps that move a deadline, or close a channel no command waits for.    *)
LEMMA QuietStep ==
  ASSUME ConnConstants, IInv, Types', InterruptOwn',
         UNCHANGED <<caller, calls, cached, cmd, drv, queue, active, sent>>,
         \A k \in Commands : Dead(k)' <=> Dead(k),
         DOMAIN writes' = DOMAIN writes,
         \A w \in DOMAIN writes :
           /\ writes'[w].conn = writes[w].conn /\ writes'[w].command = writes[w].command
           /\ writes'[w].data = writes[w].data /\ writes'[w].result = writes[w].result
  PROVE  IInv'
<1>0. Types /\ Calling /\ Alone /\ Cached /\ Unused /\ Working /\ Awaiting
  BY Zenon DEF IInv, Owned, Driven
<1>1. Calling' /\ Alone'
  BY ZenonT(60), <1>0 DEF Calling, Alone, Has
<1>2. \A k \in Commands : Spare(k)' <=> Spare(k)
  BY Zenon DEF Spare, Has
<1>3. Cached' /\ Unused'
  BY <1>0, <1>2, OwnIsOne DEF Cached, Unused
<1>4. Working'
  <2>1. \A c \in Callers, k \in Commands : Waits(c, k) => Waits(c, k)'
    BY Zenon DEF Waits
  <2>. QED BY Zenon, <1>0, <2>1, WorkingKept
<1>5. \A a \in Conns, c \in Callers : Serves(a, c)' <=> Serves(a, c)
  BY Zenon DEF Serves
<1>6. Awaiting'
  BY <1>0, <1>5 DEF Awaiting
<1>7. \A w \in DOMAIN writes, c \in Callers : Carries(w, c)' <=> Carries(w, c)
  BY Zenon DEF Carries
<1>8. Carried'
  BY ZenonT(60), <1>7 DEF IInv, Written, Carried
<1>9. Handled'
  BY <1>5, <1>7 DEF IInv, Written, Handled, ConnConstants
<1>10. Queued'
  BY DEF IInv, Queued
<1>11. Sent'
  BY Zenon, <1>7 DEF IInv, Sent
<1>12. Told'
  BY Zenon, <1>5 DEF IInv, Told, Waits, ConnConstants
<1>. QED BY Zenon, <1>1, <1>3, <1>4, <1>6, <1>8, <1>9, <1>10, <1>11, <1>12 DEF IInv, Owned,
            Driven, Written

Expired(p) == [p EXCEPT !.expired = TRUE]
LEMMA ExpiredSame ==
  \A p \in PacketWrite :
    /\ Expired(p) \in PacketWrite /\ Expired(p).expired
    /\ Expired(p).conn = p.conn /\ Expired(p).command = p.command
    /\ Expired(p).data = p.data /\ Expired(p).result = p.result
<1>. TAKE p \in PacketWrite
<1>1. Expired(p) \in PacketWrite
  BY Zenon DEF PacketWrite, Expired
<1>2. Expired(p).expired
  BY Zenon DEF PacketWrite, Expired
<1>3. /\ Expired(p).conn = p.conn /\ Expired(p).command = p.command
      /\ Expired(p).data = p.data /\ Expired(p).result = p.result
  BY Zenon DEF PacketWrite, Expired
<1>. QED BY Zenon, <1>1, <1>2, <1>3

LEMMA DeadlineStep ==
  ASSUME ConnConstants, IInv, NEW a \in Conns,
         SetWriteDeadline(a) \/ ClearDeadline(a) \/ DeadlinePasses(a)
  PROVE  IInv'
<1>0. Types /\ (active # 0 => active \in DOMAIN writes)
  BY Zenon DEF IInv, Queued
<1>1. /\ UNCHANGED <<caller, calls, cached, cmd, drv, queue, active, signals, sent>>
      /\ late' \in [Conns -> {"none", "ahead", "past", "cleared"}]
  BY Zenon, <1>0 DEF SetWriteDeadline, ClearDeadline, DeadlinePasses, Types, CallerTypes
<1>2. /\ writes' \in Seq(PacketWrite) /\ DOMAIN writes' = DOMAIN writes
      /\ \A w \in DOMAIN writes :
           /\ writes'[w].conn = writes[w].conn /\ writes'[w].command = writes[w].command
           /\ writes'[w].data = writes[w].data /\ writes'[w].result = writes[w].result
           /\ writes[w].expired => writes'[w].expired
  <2>1. CASE UNCHANGED writes
    BY Zenon, <2>1, <1>0 DEF Types, WriterTypes
  <2>2. CASE DeadlinePasses(a)
    <3>1. writes' = [w \in DOMAIN writes |-> IF writes[w].conn = a /\ writes[w].deadline
                                             THEN Expired(writes[w]) ELSE writes[w]]
      BY Zenon, <2>2 DEF DeadlinePasses, Expired
    <3>2. \A w \in DOMAIN writes : writes[w] \in PacketWrite
      BY <1>0 DEF Types, WriterTypes
    <3>3. \A w \in DOMAIN writes : writes'[w] = Expired(writes[w]) \/ writes'[w] = writes[w]
      BY Zenon, <3>1
    <3>4. \A w \in DOMAIN writes : writes'[w] \in PacketWrite
      BY Zenon, <3>2, <3>3, ExpiredSame
    <3>5. DOMAIN writes' = DOMAIN writes /\ writes' \in Seq(PacketWrite)
      BY <1>0, <3>1, <3>4 DEF Types, WriterTypes
    <3>. QED BY <3>2, <3>3, <3>5, ExpiredSame, ZenonT(60)
  <2>. QED BY Zenon, <2>1, <2>2 DEF SetWriteDeadline, ClearDeadline
<1>3. active # 0 /\ past' => past \/ writes'[active].expired
  <2>1. CASE UNCHANGED past
    BY <2>1, Zenon
  <2>2. CASE DeadlinePasses(a)
    <3>. SUFFICES ASSUME active # 0, past', ~past
         PROVE  writes'[active].expired
      OBVIOUS
    <3>1. writes[active].conn = a /\ writes[active].deadline
      BY <2>2, Zenon DEF DeadlinePasses
    <3>2. writes'[active] = Expired(writes[active]) /\ writes[active] \in PacketWrite
      BY <2>2, <3>1, <1>0 DEF DeadlinePasses, Expired, Types, WriterTypes
    <3>. QED BY <3>2, ExpiredSame, Zenon
  <2>. QED BY <2>1, <2>2, Zenon DEF SetWriteDeadline, ClearDeadline
<1>4. Types'
  BY Zenon, <1>0, <1>1, <1>2 DEF Types, CallerTypes, DriverTypes, WriterTypes
<1>5. InterruptOwn'
  BY Zenon, <1>0, <1>1, <1>2, <1>3, InterruptKept
<1>. QED BY Zenon, <1>1, <1>2, <1>4, <1>5, SameSignals, QuietStep

LEMMA LimitStep ==
  ASSUME ConnConstants, IInv, LimitPasses
  PROVE  IInv'
<1>0. Types /\ active # 0 /\ active \in DOMAIN writes
  BY Zenon DEF IInv, Queued, LimitPasses
<1>1. /\ UNCHANGED <<caller, calls, cached, cmd, late, drv, queue, active, signals, sent>>
      /\ writes' = [writes EXCEPT ![active] = Expired(writes[active])]
  BY Zenon DEF LimitPasses, Expired
<1>2. /\ writes' \in Seq(PacketWrite) /\ DOMAIN writes' = DOMAIN writes
      /\ \A w \in DOMAIN writes :
           /\ writes'[w].conn = writes[w].conn /\ writes'[w].command = writes[w].command
           /\ writes'[w].data = writes[w].data /\ writes'[w].result = writes[w].result
      /\ writes'[active].expired
  <2>1. \A w \in DOMAIN writes : writes[w] \in PacketWrite
    BY <1>0 DEF Types, WriterTypes
  <2>2. /\ DOMAIN writes' = DOMAIN writes /\ writes'[active] = Expired(writes[active])
        /\ \A w \in DOMAIN writes : w # active => writes'[w] = writes[w]
    BY Zenon, <1>0, <1>1 DEF Types, WriterTypes
  <2>3. writes' \in Seq(PacketWrite)
    BY <1>0, <1>1, <2>1, ExpiredSame DEF Types, WriterTypes
  <2>4. \A w \in DOMAIN writes : writes'[w] = writes[w] \/ writes'[w] = Expired(writes[w])
    BY Zenon, <2>2
  <2>. QED BY <1>0, <2>1, <2>2, <2>3, <2>4, ExpiredSame, ZenonT(30)
<1>3. Types'
  BY Zenon, <1>0, <1>1, <1>2 DEF Types, CallerTypes, DriverTypes, WriterTypes
<1>4. InterruptOwn'
  BY <1>0, <1>1, <1>2, InterruptKept, Zenon
<1>. QED BY Zenon, <1>1, <1>2, <1>3, <1>4, SameSignals, QuietStep

LEMMA CloseStep ==
  ASSUME ConnConstants, IInv, NEW a \in Conns, Close(a)
  PROVE  IInv'
<1>1. /\ UNCHANGED <<caller, calls, cached, cmd, late, drv, writes, queue, active, sent>>
      /\ cancelWrite(<<"stop", a>>)
  BY Zenon DEF Close
<1>2. Types'
  BY Zenon, <1>1 DEF IInv, Types, CallerTypes, DriverTypes, WriterTypes
<1>3. InterruptOwn'
  BY Zenon, <1>1, CancelInterrupt
<1>4. \A k \in Commands : Dead(k)' <=> Dead(k)
  BY Zenon, <1>1 DEF Dead, cancelWrite
<1>. QED BY Zenon, <1>1, <1>2, <1>3, <1>4, QuietStep

-----------------------------------------------------------------------------
(* The driver.  A pending command is not spare, and only a waiting caller  *)
(* can have it.                                                            *)
LEMMA PendingHeld ==
  ASSUME IInv, NEW a \in Conns, NEW k \in Commands, drv[a].pending = k
  PROVE  /\ ~Spare(k)
         /\ \A c \in Callers : Has(c, k) => Waits(c, k) /\ ConnOf[c] = a
<1>1. CASE Dead(k)
  BY Zenon, <1>1 DEF IInv, Owned, Calling, Spare
<1>2. CASE ~Dead(k)
  <2>1. PICK c \in Callers : Waits(c, k) /\ ConnOf[c] = a
    BY <1>2, Zenon DEF IInv, Driven, Working
  <2>2. Has(c, k)
    BY Zenon, <2>1 DEF Waits, Has
  <2>. QED BY Zenon, <2>1, <2>2 DEF IInv, Owned, Alone, Spare
<1>. QED BY Zenon, <1>1, <1>2

(* The command's result changes, if anything, and only while it is pending.*)
LEMMA OwnedKept ==
  ASSUME IInv, UNCHANGED <<caller, calls, cached>>,
         \A k \in Commands : Dead(k)' <=> Dead(k),
         \A k \in Commands : cmd'[k].data = cmd[k].data,
         \A k \in Commands : cmd'[k].result = cmd[k].result
                             \/ \E a \in Conns : drv[a].pending = k
  PROVE  Owned'
<1>1. \A c \in Callers, k \in Commands : Has(c, k)' <=> Has(c, k)
  BY Zenon DEF Has
<1>2. \A k \in Commands : Spare(k) => Spare(k)'
  <2>. SUFFICES ASSUME NEW k \in Commands, Spare(k) PROVE cmd'[k].result = "none"
    BY Zenon, <1>1 DEF Spare
  <2>. QED BY Zenon, PendingHeld DEF Spare
<1>3. \A c \in Callers, k \in Commands : Has(c, k) /\ caller[c].pc = "offer" =>
        cmd'[k].result = cmd[k].result
  BY PendingHeld DEF Waits
<1>4. Calling'
  BY <1>1, <1>3 DEF IInv, Owned, Calling
<1>5. Alone'
  BY ZenonT(60), <1>1 DEF IInv, Owned, Alone
<1>6. Cached' /\ Unused'
  BY <1>2, OwnIsOne DEF IInv, Owned, Cached, Unused
<1>. QED BY Zenon, <1>4, <1>5, <1>6 DEF Owned

(* The driver lets its command go, with or without a reply.                *)
Released(a) ==
  /\ drv'[a].pending = NoCommand /\ drv'[a].pc # "write"
  /\ \A b \in Conns : b # a => drv'[b] = drv[b]
  /\ \A k \in Commands : k # drv[a].pending => cmd'[k] = cmd[k]
  /\ \A k \in Commands : cmd'[k].data = cmd[k].data
  /\ \A k \in Commands : cmd'[k].result # "ok" \/ cmd'[k].result = cmd[k].result
                         \/ \A c \in Callers : Waits(c, k) => sent'[Own(c)] = 1

LEMMA ReleasedServes ==
  ASSUME ConnConstants, IInv, NEW a \in Conns, Released(a), UNCHANGED caller
  PROVE  \A b \in Conns, c \in Callers : Serves(b, c)' => Serves(b, c) /\ b # a
<1>. SUFFICES ASSUME NEW b \in Conns, NEW c \in Callers, Serves(b, c)'
     PROVE  Serves(b, c) /\ b # a
  OBVIOUS
<1>1. caller[c].pc = "wait" /\ caller[c].command = drv'[b].pending
  BY Zenon DEF Serves
<1>2. drv'[b].pending # NoCommand
  BY Zenon, <1>1, NotCommand DEF IInv, Owned, Calling
<1>. QED BY Zenon, <1>1, <1>2 DEF Released, Serves

LEMMA ReleasedStep ==
  ASSUME ConnConstants, IInv, NEW a \in Conns, Released(a), UNCHANGED <<caller, calls, cached, sent>>,
         \A k \in Commands : Dead(k)' <=> Dead(k)
  PROVE  Owned' /\ Working' /\ Told'
<1>1. Owned'
  <2>1. \A k \in Commands : cmd'[k].result = cmd[k].result \/ \E b \in Conns : drv[b].pending = k
    BY Zenon DEF Released
  <2>2. \A k \in Commands : cmd'[k].data = cmd[k].data
    BY Zenon DEF Released
  <2>. QED BY Zenon, <2>1, <2>2, OwnedKept
<1>2. Working'
  <2>1. \A b \in Conns, k \in Commands : drv'[b].pending = k => drv[b].pending = k /\ b # a
    BY Zenon, NotCommand DEF Released
  <2>2. \A b \in Conns, k \in Commands, c \in Callers :
          drv'[b].pending = k /\ Waits(c, k) /\ ConnOf[c] = b => cmd'[k] = cmd[k]
    <3>. SUFFICES ASSUME NEW b \in Conns, NEW k \in Commands, NEW c \in Callers,
                         drv'[b].pending = k, Waits(c, k), ConnOf[c] = b
         PROVE  drv[a].pending # k
      BY Zenon DEF Released
    <3>1. Has(c, k)
      BY Zenon DEF Has, Waits
    <3>. QED BY <2>1, <3>1, PendingHeld
  <2>3. \A c \in Callers, k \in Commands : Waits(c, k) => Waits(c, k)'
    BY Zenon DEF Waits
  <2>4. Working
    BY Zenon DEF IInv, Driven
  <2>. QED BY Zenon, <2>1, <2>2, <2>3, <2>4, WorkingKept
<1>3. Told'
  <2>. SUFFICES ASSUME NEW c \in Callers
       PROVE  /\ calls[c] = 0 \/ caller[c].pc = "offer" => sent[Own(c)] = 0
              /\ Serves(ConnOf[c], c)' /\ drv'[ConnOf[c]].pc = "run" => sent[Own(c)] = 0
              /\ \A k \in Commands : Waits(c, k)' /\ cmd'[k].result = "ok" => sent[Own(c)] = 1
              /\ caller[c].outcome = "ok" => sent[Own(c)] = 1
    BY Zenon DEF Told
  <2>1. Serves(ConnOf[c], c)' /\ drv'[ConnOf[c]].pc = "run" => sent[Own(c)] = 0
    BY ZenonT(60), ReleasedServes DEF IInv, Told, Released, ConnConstants
  <2>2. \A k \in Commands : Waits(c, k)' /\ cmd'[k].result = "ok" => sent[Own(c)] = 1
    <3>1. \A k \in Commands : Waits(c, k)' <=> Waits(c, k)
      BY Zenon DEF Waits
    <3>. QED BY Zenon, <3>1 DEF IInv, Told, Released
  <2>. QED BY Zenon, <2>1, <2>2 DEF IInv, Told
<1>. QED BY Zenon, <1>1, <1>2, <1>3

LEMMA ReplyReleases ==
  ASSUME ConnConstants, IInv, NEW a \in Conns, drv[a].pending # NoCommand,
         NEW what \in {"ok", "timeout", "closed"}, Reply(a, what),
         UNCHANGED <<caller, calls, cached, late, sent>>,
         what = "ok" => \A c \in Callers : Serves(a, c) => sent[Own(c)] = 1
  PROVE  Released(a) /\ CallerTypes' /\ DriverTypes'
<1>0. CallerTypes /\ DriverTypes
  BY Zenon DEF IInv, Types
<1>1. PICK k \in Commands : k = drv[a].pending
  BY Zenon, <1>0 DEF DriverTypes
<1>2. /\ cmd' = [cmd EXCEPT ![k].result = what]
      /\ drv' = [drv EXCEPT ![a].pending = NoCommand, ![a].pc = "run", ![a].write = 0]
  BY Zenon, <1>1 DEF Reply
<1>3. CallerTypes'
  BY <1>0, <1>2 DEF CallerTypes
<1>4. DriverTypes'
  <2>. DEFINE P == Commands \cup {NoCommand}
              D == [pc : {"run", "write", "done"}, pending : P, write : Nat]
  <2>1. drv \in [Conns -> D] /\ NoCommand \in P
    BY Zenon, <1>0 DEF DriverTypes
  <2>. HIDE DEF P
  <2>2. drv' \in [Conns -> D]
    BY <1>2, <2>1, ZenonT(30)
  <2>. QED BY Zenon, <2>2 DEF P, DriverTypes
<1>5. /\ drv'[a].pending = NoCommand /\ drv'[a].pc # "write"
      /\ \A b \in Conns : b # a => drv'[b] = drv[b]
  BY Zenon, <1>0, <1>2 DEF DriverTypes
<1>6. /\ \A j \in Commands : j # k => cmd'[j] = cmd[j]
      /\ \A j \in Commands : cmd'[j].data = cmd[j].data
      /\ cmd'[k].result = what
  BY <1>0, <1>2 DEF CallerTypes
<1>7. \A c \in Callers : Waits(c, k) => Serves(a, c)
  BY Zenon, <1>1 DEF Waits, Serves
<1>8. Released(a)
  BY Zenon, <1>1, <1>5, <1>6, <1>7 DEF Released
<1>. QED BY Zenon, <1>3, <1>4, <1>8

(* Where the writes stay as they are.                                      *)
LEMMA ReleasedWrites ==
  ASSUME ConnConstants, IInv, NEW a \in Conns, Released(a),
         UNCHANGED <<caller, calls, writes, queue, active, sent>>
  PROVE  Awaiting' /\ Written' /\ Queued' /\ Sent'
<1>1. \A b \in Conns, c \in Callers : Serves(b, c)' => Serves(b, c) /\ b # a
  BY ZenonT(60), ReleasedServes
<1>2. Awaiting'
  BY <1>1 DEF IInv, Driven, Awaiting, Released
<1>3. Handled'
  BY <1>1 DEF IInv, Written, Handled, Carries, Released, ConnConstants
<1>. QED BY <1>2, <1>3 DEF IInv, Written, Carried, Queued, Sent, Carries

LEMMA LetGoStep ==
  ASSUME ConnConstants, IInv, NEW a \in Conns, Pending(a) \/ Teardown(a)
  PROVE  IInv'
<1>1. UNCHANGED <<caller, calls, cached, late, writes, queue, active, past, signals, sent>>
  BY Zenon DEF Pending, Teardown
<1>2. Released(a) /\ CallerTypes' /\ DriverTypes'
  <2>1. CASE Pending(a) /\ Reply(a, "timeout")
    BY Zenon, <1>1, <2>1, ReplyReleases DEF Pending
  <2>2. CASE Pending(a) /\ drv' = [drv EXCEPT ![a].pending = NoCommand] /\ UNCHANGED cmd
    BY <1>1, <2>2 DEF IInv, Types, CallerTypes, DriverTypes, Released, Pending, Running
  <2>3. CASE Teardown(a)
    BY ZenonT(60), <1>1, <2>3 DEF IInv, Types, CallerTypes, DriverTypes, Released, Teardown
  <2>. QED BY Zenon, <2>1, <2>2, <2>3 DEF Pending
<1>3. Types'
  BY Zenon, <1>1, <1>2 DEF IInv, Types, WriterTypes
<1>4. Owned' /\ Working' /\ Told'
  BY Zenon, <1>1, <1>2, SameSignals, ReleasedStep
<1>5. Awaiting' /\ Written' /\ Queued' /\ Sent'
  BY Zenon, <1>1, <1>2, ReleasedWrites
<1>6. InterruptOwn'
  BY Zenon, <1>1, SocketRests
<1>. QED BY Zenon, <1>3, <1>4, <1>5, <1>6 DEF IInv, Driven

(* What a driver in waitWrite waits for.                                   *)
LEMMA WaitedFor ==
  ASSUME IInv, NEW a \in Conns, drv[a].pc = "write"
  PROVE  /\ drv[a].pending # NoCommand /\ drv[a].write \in DOMAIN writes
         /\ writes[drv[a].write].conn = a /\ writes[drv[a].write].command = drv[a].pending
         /\ \A c \in Callers : Serves(a, c) => Carries(drv[a].write, c)
<1>1. /\ drv[a].pending # NoCommand /\ drv[a].write \in DOMAIN writes
      /\ writes[drv[a].write].conn = a /\ writes[drv[a].write].command = drv[a].pending
      /\ \A c \in Callers : Serves(a, c) => writes[drv[a].write].data = Own(c)
  BY Zenon DEF IInv, Driven, Awaiting
<1>. QED BY Zenon, <1>1 DEF Carries

LEMMA LeavesSignals ==
  ASSUME NEW w, Leaves(w)
  PROVE  \A k \in Commands : Dead(k)' <=> Dead(k)
BY DEF Leaves, cancelWrite, Dead

LEMMA AbandonedStep ==
  ASSUME ConnConstants, IInv, NEW a \in Conns, WaitAbandoned(a)
  PROVE  IInv'
<1>1. UNCHANGED <<caller, calls, cached, late, writes, queue, active, sent>>
  BY Zenon DEF WaitAbandoned
<1>2. drv[a].pc = "write" /\ Reply(a, "closed") /\ Leaves(drv[a].write)
  BY Zenon DEF WaitAbandoned
<1>3. Released(a) /\ CallerTypes' /\ DriverTypes'
  BY Zenon, <1>1, <1>2, WaitedFor, ReplyReleases
<1>4. Types'
  BY Zenon, <1>1, <1>3 DEF IInv, Types, WriterTypes
<1>5. Owned' /\ Working' /\ Told'
  BY Zenon, <1>1, <1>2, <1>3, LeavesSignals, ReleasedStep
<1>6. Awaiting' /\ Written' /\ Queued' /\ Sent'
  BY Zenon, <1>1, <1>3, ReleasedWrites
<1>7. InterruptOwn'
  BY Zenon, <1>1, <1>2, SocketRests, CancelInterrupt DEF Leaves
<1>. QED BY Zenon, <1>4, <1>5, <1>6, <1>7 DEF IInv, Driven

LEMMA OverIsWrite == Over \in PacketWrite /\ Over.command = NoCommand
<1>1. Over \in PacketWrite
  BY Zenon DEF Over, PacketWrite
<1>. QED BY Zenon, <1>1 DEF Over

LEMMA ReturnsStep ==
  ASSUME ConnConstants, IInv, NEW a \in Conns, WriteReturns(a)
  PROVE  IInv'
<1>0. Types
  BY Zenon DEF IInv
<1>1. PICK w \in DOMAIN writes :
        /\ w = drv[a].write /\ drv[a].pc = "write" /\ drv[a].pending # NoCommand
        /\ writes[w].conn = a /\ writes[w].result # "none"
        /\ \A c \in Callers : Serves(a, c) => Carries(w, c)
  BY Zenon, WaitedFor DEF WriteReturns
<1>2. UNCHANGED <<caller, calls, cached, late, queue, active, past, signals, sent>>
  BY Zenon, <1>1 DEF WriteReturns, Leaves
<1>3. /\ writes' \in Seq(PacketWrite) /\ DOMAIN writes' = DOMAIN writes
      /\ writes'[w].command = NoCommand
      /\ \A v \in DOMAIN writes : v # w => writes'[v] = writes[v]
  <2>1. writes' = [writes EXCEPT ![w] = Over]
    BY Zenon, <1>1 DEF WriteReturns
  <2>. QED BY <1>0, <1>1, <2>1, OverIsWrite DEF Types, WriterTypes
<1>4. \A k \in Commands : Dead(k)' <=> Dead(k)
  BY Zenon, <1>2, SameSignals
<1>5. \A v \in DOMAIN writes, c \in Callers : Carries(v, c)' <=> Carries(v, c) /\ v # w
  BY Zenon, <1>3 DEF Carries
<1>6. Carried' /\ Sent'
  BY <1>2, <1>3, <1>5 DEF IInv, Written, Carried, Sent
<1>7. Queued'
  BY <1>1, <1>2, <1>3 DEF IInv, Queued
<1>8. InterruptOwn'
  <2>1. active # 0 => active # w /\ active \in DOMAIN writes
    BY Zenon, <1>1 DEF IInv, Queued
  <2>. QED BY Zenon, <1>2, <1>3, <2>1, InterruptKept
<1>9. WriterTypes'
  BY Zenon, <1>0, <1>2, <1>3 DEF Types, WriterTypes
<1>10. \A b \in Conns : b # a /\ drv[b].pc = "write" => drv[b].write # w
  BY Zenon, <1>1, WaitedFor
<1>11. CASE writes[w].result # "again"
  <2>1. writes[w].result \in {"ok", "closed"} /\ Reply(a, writes[w].result)
    <3>1. writes[w] \in PacketWrite
      BY <1>0 DEF Types, WriterTypes
    <3>2. writes[w].result \in {"none", "ok", "again", "closed"}
      BY Zenon, <3>1 DEF PacketWrite
    <3>. QED BY Zenon, <1>1, <1>11, <3>2 DEF WriteReturns, Outcome
  <2>2. writes[w].result = "ok" => \A c \in Callers : Serves(a, c) => sent[Own(c)] = 1
    BY Zenon, <1>1 DEF IInv, Sent
  <2>3. Released(a) /\ CallerTypes' /\ DriverTypes'
    BY Zenon, <1>1, <1>2, <2>1, <2>2, ReplyReleases
  <2>4. \A b \in Conns, c \in Callers : Serves(b, c)' => Serves(b, c) /\ b # a
    BY Zenon, <1>2, <2>3, ReleasedServes
  <2>5. Owned' /\ Working' /\ Told'
    BY ZenonT(60), <1>2, <1>4, <2>3, ReleasedStep
  <2>6. Handled'
    BY <1>2, <1>3, <1>5, <2>3, <2>4 DEF IInv, Written, Handled, Released, ConnConstants
  <2>7. Awaiting'
    BY <1>3, <1>10, <2>3, <2>4 DEF IInv, Driven, Awaiting, Released
  <2>. QED BY Zenon, <1>6, <1>7, <1>8, <1>9, <2>3, <2>5, <2>6, <2>7 DEF IInv, Driven, Written, Types
<1>12. CASE writes[w].result = "again"
  <2>1. /\ drv' = [drv EXCEPT ![a].pc = "run", ![a].write = 0]
        /\ UNCHANGED cmd
    BY Zenon, <1>1, <1>12 DEF WriteReturns, Outcome
  <2>2. /\ drv'[a].pending = drv[a].pending /\ drv'[a].pc = "run"
        /\ \A b \in Conns : b # a => drv'[b] = drv[b]
    BY Zenon, <1>0, <2>1 DEF Types, DriverTypes
  <2>3. DriverTypes'
    <3>. DEFINE P == Commands \cup {NoCommand}
    <3>1. drv \in [Conns -> [pc : {"run", "write", "done"}, pending : P, write : Nat]]
      BY Zenon, <1>0 DEF Types, DriverTypes
    <3>. HIDE DEF P
    <3>2. drv' \in [Conns -> [pc : {"run", "write", "done"}, pending : P, write : Nat]]
      BY <2>1, <3>1, ZenonT(30)
    <3>. QED BY Zenon, <3>2 DEF P, DriverTypes
  <2>4. CallerTypes'
    BY Zenon, <1>0, <1>2, <2>1 DEF Types, CallerTypes
  <2>5. \A b \in Conns, c \in Callers : Serves(b, c)' <=> Serves(b, c)
    BY Zenon, <1>2, <2>2 DEF Serves
  <2>6. Owned'
    BY Zenon, <1>2, <1>4, <2>1, OwnedKept
  <2>7. Working'
    <3>1. \A c \in Callers, k \in Commands : Waits(c, k) => Waits(c, k)'
      BY Zenon, <1>2 DEF Waits
    <3>2. \A b \in Conns, k \in Commands : drv'[b].pending = k => drv[b].pending = k
      BY Zenon, <2>2
    <3>3. Working
      BY Zenon DEF IInv, Driven
    <3>4. \A k \in Commands : cmd'[k] = cmd[k]
      BY Zenon, <2>1
    <3>. QED BY Zenon, <1>4, <3>1, <3>2, <3>3, <3>4, WorkingKept
  <2>8. Told'
    <3>1. \A c \in Callers : Serves(a, c) => sent[Own(c)] = 0
      BY <1>0, <1>1, <1>12, OwnIsOne DEF IInv, Sent, Types, WriterTypes
    <3>2. \A c \in Callers, k \in Commands : Waits(c, k)' <=> Waits(c, k)
      BY Zenon, <1>2 DEF Waits
    <3>3. \A k \in Commands : cmd'[k] = cmd[k]
      BY Zenon, <2>1
    <3>4. \A c \in Callers : Serves(ConnOf[c], c)' /\ drv'[ConnOf[c]].pc = "run" =>
            sent[Own(c)] = 0
      BY ZenonT(60), <2>2, <2>5, <3>1 DEF IInv, Told, ConnConstants
    <3>. QED BY ZenonT(60), <1>2, <3>2, <3>3, <3>4 DEF IInv, Told
  <2>9. Handled'
    BY <1>1, <1>2, <1>3, <1>5, <2>2, <2>5 DEF IInv, Written, Handled, ConnConstants
  <2>10. Awaiting'
    BY <1>3, <1>10, <2>2, <2>5 DEF IInv, Driven, Awaiting
  <2>. QED BY Zenon, <1>6, <1>7, <1>8, <1>9, <2>3, <2>4, <2>6, <2>7, <2>8, <2>9, <2>10
           DEF IInv, Driven, Written, Types
<1>. QED BY Zenon, <1>11, <1>12

LEMMA SendStep ==
  ASSUME ConnConstants, IInv, NEW a \in Conns, Send(a)
  PROVE  IInv'
<1>0. Types /\ Calling /\ Alone /\ Working /\ Awaiting /\ Carried /\ Handled /\ Queued
  BY Zenon DEF IInv, Owned, Driven, Written
<1>n. PICK n : n = Len(writes) + 1
  OBVIOUS
<1>1. PICK k \in Commands : k = drv[a].pending /\ ~Dead(k) /\ drv[a].pc = "run"
  <2>1. drv[a].pending # NoCommand /\ drv[a].pc = "run" /\ <<"command", drv[a].pending>> \notin signals
    BY Zenon DEF Send, Running
  <2>2. drv[a].pending \in Commands
    BY Zenon, <1>0, <2>1 DEF Types, DriverTypes
  <2>. QED BY <2>1, <2>2, Zenon DEF Dead
<1>2. PICK c \in Callers : Waits(c, k) /\ ConnOf[c] = a
  BY <1>0, <1>1, Zenon DEF Working
<1>3. /\ Has(c, k) /\ Serves(a, c) /\ cmd[k].data = Own(c) /\ calls[c] = 1
      /\ \A d \in Callers : Serves(a, d) => d = c
  BY ZenonT(60), <1>0, <1>1, <1>2 DEF Calling, Alone, Has, Waits, Serves
<1>. DEFINE p == [conn |-> a, command |-> k, data |-> Own(c), deadline |-> late[a] = "ahead",
                  expired |-> FALSE, result |-> "none"]
<1>4. /\ writes' = Append(writes, p) /\ queue' = Append(queue, n)
      /\ drv' = [drv EXCEPT ![a].pc = "write", ![a].write = n]
      /\ UNCHANGED <<caller, calls, cached, cmd, late, active, past, signals, sent>>
  BY Zenon, <1>1, <1>3, <1>n DEF Send
<1>u. UNCHANGED <<caller, calls, cached, cmd, late, active, past, signals, sent>>
  BY Zenon, <1>4
<1>5. p \in PacketWrite
  <2>1. (late[a] = "ahead") \in BOOLEAN
    OBVIOUS
  <2>2. a \in Conns \cup {0} /\ k \in Commands \cup {NoCommand} /\ Own(c) \in Datagrams \cup {NoCommand}
    BY Zenon, OwnIsOne
  <2>. QED BY <2>1, <2>2, ZenonT(30) DEF PacketWrite
<1>6. /\ p.conn = a /\ p.command = k /\ p.data = Own(c) /\ p.result = "none" /\ k # NoCommand
  BY Zenon, NotCommand
<1>. HIDE DEF p
<1>7. /\ writes' \in Seq(PacketWrite) /\ n \in Nat /\ n # 0 /\ n \notin DOMAIN writes
      /\ DOMAIN writes' = DOMAIN writes \cup {n} /\ writes'[n] = p
      /\ \A v \in DOMAIN writes : writes'[v] = writes[v]
  BY <1>0, <1>4, <1>5, <1>n DEF Types, WriterTypes
<1>8. /\ queue' \in Seq(Nat) /\ DOMAIN queue' = DOMAIN queue \cup {Len(queue) + 1}
      /\ queue'[Len(queue) + 1] = n /\ Len(queue) + 1 \notin DOMAIN queue
      /\ \A i \in DOMAIN queue : queue'[i] = queue[i]
  BY <1>0, <1>4, <1>7 DEF Types, WriterTypes
<1>9. /\ drv'[a].pc = "write" /\ drv'[a].write = n /\ drv'[a].pending = k
      /\ \A b \in Conns : b # a => drv'[b] = drv[b]
  BY Zenon, <1>0, <1>1, <1>4 DEF Types, DriverTypes
<1>10. Types'
  <2>1. DriverTypes'
    <3>. DEFINE P == Commands \cup {NoCommand}
    <3>1. drv \in [Conns -> [pc : {"run", "write", "done"}, pending : P, write : Nat]]
      BY Zenon, <1>0 DEF Types, DriverTypes
    <3>. HIDE DEF P
    <3>2. drv' \in [Conns -> [pc : {"run", "write", "done"}, pending : P, write : Nat]]
      BY <1>4, <1>7, <3>1, ZenonT(30)
    <3>. QED BY Zenon, <3>2 DEF P, DriverTypes
  <2>. QED BY Zenon, <1>0, <1>4, <1>7, <1>8, <2>1 DEF Types, CallerTypes, WriterTypes
<1>11. \A j \in Commands : Dead(j)' <=> Dead(j)
  BY Zenon, <1>4, SameSignals
<1>12. Owned'
  BY Zenon, <1>4, <1>11, OwnedKept
<1>13. Working'
  <2>1. \A d \in Callers, j \in Commands : Waits(d, j) => Waits(d, j)'
    BY Zenon, <1>4 DEF Waits
  <2>2. \A b \in Conns, j \in Commands : drv'[b].pending = j => drv[b].pending = j
    BY Zenon, <1>1, <1>9
  <2>3. \A j \in Commands : cmd'[j] = cmd[j]
    BY Zenon, <1>4
  <2>. QED BY Zenon, <1>0, <1>11, <2>1, <2>2, <2>3, WorkingKept
<1>14. \A b \in Conns, d \in Callers : Serves(b, d)' <=> Serves(b, d)
  <2>1. \A b \in Conns : drv'[b].pending = drv[b].pending
    BY Zenon, <1>1, <1>9
  <2>. QED BY Zenon, <1>u, <2>1 DEF Serves
<1>15. Awaiting'
  <2>. SUFFICES ASSUME NEW b \in Conns
       PROVE  /\ drv'[b].pc = "done" => drv'[b].pending = NoCommand
              /\ drv'[b].pc = "write" =>
                   /\ drv'[b].pending # NoCommand /\ drv'[b].write \in DOMAIN writes'
                   /\ writes'[drv'[b].write].conn = b
                   /\ writes'[drv'[b].write].command = drv'[b].pending
                   /\ \A d \in Callers : Serves(b, d)' => writes'[drv'[b].write].data = Own(d)
    BY Zenon DEF Awaiting
  <2>1. CASE b = a
    BY ZenonT(60), <2>1, <1>3, <1>6, <1>7, <1>9, <1>14
  <2>2. CASE b # a
    BY <2>2, <1>0, <1>7, <1>9, <1>14 DEF Awaiting
  <2>. QED BY Zenon, <2>1, <2>2
<1>16. \A v \in DOMAIN writes, d \in Callers : Carries(v, d)' <=> Carries(v, d)
  BY Zenon, <1>7 DEF Carries
<1>17. \A d \in Callers : Carries(n, d)' <=> d = c
  BY Zenon, <1>6, <1>7, OwnIsOne DEF Carries
<1>18. \A v \in DOMAIN writes : ~Carries(v, c)
  BY ZenonT(60), <1>0, <1>1, <1>2, <1>3 DEF Handled
<1>19. Carried'
  BY <1>0, <1>6, <1>7, <1>16, <1>17, <1>18 DEF Carried
<1>20. Handled'
  <2>. SUFFICES ASSUME NEW v \in DOMAIN writes', NEW d \in Callers, Carries(v, d)'
       PROVE  /\ calls[d] = 1 /\ caller[d].pc # "offer"
              /\ Serves(ConnOf[d], d)' => drv'[ConnOf[d]].pc = "write" /\ drv'[ConnOf[d]].write = v
    BY ZenonT(60), <1>u DEF Handled
  <2>1. CASE v = n
    BY Zenon, <2>1, <1>2, <1>3, <1>9, <1>17 DEF Waits
  <2>2. CASE v # n
    <3>1. v \in DOMAIN writes /\ Carries(v, d) /\ d # c
      BY ZenonT(60), <2>2, <1>7, <1>16, <1>18
    <3>. QED BY <3>1, <1>0, <1>3, <1>9, <1>14 DEF Handled, ConnConstants
  <2>. QED BY Zenon, <2>1, <2>2
<1>21. Queued'
  <2>1. active' = active /\ active # n
    BY Zenon, <1>0, <1>4, <1>7 DEF Queued
  <2>. QED BY <2>1, <1>0, <1>6, <1>7, <1>8 DEF Queued
<1>22. sent[Own(c)] = 0
  BY Zenon, <1>1, <1>2, <1>3 DEF IInv, Told
<1>23. Sent'
  BY <1>4, <1>6, <1>7, <1>16, <1>17, <1>22 DEF IInv, Sent
<1>24. Told'
  <2>1. \A d \in Callers, j \in Commands : Waits(d, j)' <=> Waits(d, j)
    BY Zenon, <1>4 DEF Waits
  <2>2. \A d \in Callers : Serves(ConnOf[d], d)' /\ drv'[ConnOf[d]].pc = "run" => sent[Own(d)] = 0
    BY Zenon, <1>9, <1>14 DEF IInv, Told, ConnConstants
  <2>. QED BY Zenon, <1>u, <2>1, <2>2 DEF IInv, Told
<1>25. InterruptOwn'
  <2>1. active # 0 => active \in DOMAIN writes
    BY Zenon, <1>0 DEF Queued
  <2>. QED BY Zenon, <1>4, <1>7, <2>1, InterruptKept
<1>. QED BY Zenon, <1>10, <1>12, <1>13, <1>15, <1>19, <1>20, <1>21, <1>23, <1>24, <1>25 DEF IInv,
            Driven, Written

-----------------------------------------------------------------------------
(* The socket.                                                             *)
Finished(p, r) == [p EXCEPT !.result = r]
LEMMA FinishedSame ==
  \A p \in PacketWrite, r \in {"ok", "again", "closed"} :
    /\ Finished(p, r) \in PacketWrite /\ Finished(p, r).result = r
    /\ Finished(p, r).conn = p.conn /\ Finished(p, r).command = p.command
    /\ Finished(p, r).data = p.data
<1>. TAKE p \in PacketWrite, r \in {"ok", "again", "closed"}
<1>1. Finished(p, r) \in PacketWrite
  BY Zenon DEF PacketWrite, Finished
<1>2. /\ Finished(p, r).result = r
      /\ Finished(p, r).conn = p.conn /\ Finished(p, r).command = p.command
      /\ Finished(p, r).data = p.data
  BY Zenon DEF PacketWrite, Finished
<1>. QED BY Zenon, <1>1, <1>2

(* A write gets its result: it was sent if that is ok, and not otherwise.  *)
LEMMA ResultStep ==
  ASSUME ConnConstants, IInv, Queued', InterruptOwn',
         NEW w \in DOMAIN writes, writes[w].command # NoCommand, writes[w].result = "none",
         NEW r \in {"ok", "again", "closed"},
         writes' = [writes EXCEPT ![w] = Finished(writes[w], r)],
         UNCHANGED <<caller, calls, cached, cmd, late, drv, signals>>,
         queue' \in Seq(Nat), active' \in Nat,
         IF r = "ok" THEN sent' = [sent EXCEPT ![writes[w].data] = @ + 1] ELSE sent' = sent
  PROVE  IInv'
<1>0. Types /\ Carried /\ Handled /\ Awaiting /\ Working
  BY Zenon DEF IInv, Written, Driven
<1>1. \A v \in DOMAIN writes : writes[v] \in PacketWrite
  BY <1>0 DEF Types, WriterTypes
<1>2. /\ writes' \in Seq(PacketWrite) /\ DOMAIN writes' = DOMAIN writes
      /\ writes'[w] = Finished(writes[w], r)
      /\ \A v \in DOMAIN writes : v # w => writes'[v] = writes[v]
  BY <1>0, <1>1, FinishedSame DEF Types, WriterTypes
<1>3. /\ \A v \in DOMAIN writes : /\ writes'[v].conn = writes[v].conn
                                  /\ writes'[v].command = writes[v].command
                                  /\ writes'[v].data = writes[v].data
      /\ writes'[w].result = r
  BY <1>1, <1>2, FinishedSame
<1>4. PICK c \in Callers : writes[w].data = Own(c)
  BY Zenon, <1>0 DEF Carried
<1>5. Carries(w, c) /\ \A v \in DOMAIN writes : Carries(v, c) => v = w
  BY Zenon, <1>0, <1>4 DEF Carries, Carried
<1>6. sent[Own(c)] = 0 /\ Own(c) \in Datagrams
  BY Zenon, <1>0, <1>5, OwnIsOne DEF IInv, Sent, Types, WriterTypes
<1>7. /\ sent' \in [Datagrams -> {0, 1}]
      /\ sent'[Own(c)] = (IF r = "ok" THEN 1 ELSE 0)
      /\ \A d \in Callers : d # c => sent'[Own(d)] = sent[Own(d)]
  BY <1>0, <1>4, <1>6, OwnIsOne DEF Types, WriterTypes
<1>8. Types'
  BY Zenon, <1>0, <1>2, <1>7 DEF Types, CallerTypes, DriverTypes, WriterTypes
<1>9. \A v \in DOMAIN writes, d \in Callers : Carries(v, d)' <=> Carries(v, d)
  BY Zenon, <1>3 DEF Carries
<1>10. \A b \in Conns, d \in Callers : Serves(b, d)' <=> Serves(b, d)
  BY Zenon DEF Serves
<1>11. \A k \in Commands : Dead(k)' <=> Dead(k)
  BY Zenon, SameSignals
<1>12. Owned'
  BY Zenon, <1>11, OwnedKept
<1>13. Working'
  <2>1. \A d \in Callers, k \in Commands : Waits(d, k) => Waits(d, k)'
    BY ZenonT(60) DEF Waits
  <2>. QED BY Zenon, <1>0, <1>11, <2>1, WorkingKept
<1>14. Awaiting'
  BY <1>0, <1>2, <1>3, <1>10 DEF Awaiting
<1>15. Carried'
  BY <1>0, <1>2, <1>3, <1>9 DEF Carried
<1>16. Handled'
  BY <1>0, <1>2, <1>9, <1>10 DEF Handled, ConnConstants
<1>17. Sent'
  <2>. SUFFICES ASSUME NEW v \in DOMAIN writes, NEW d \in Callers, Carries(v, d)
       PROVE  writes'[v].result = "ok" <=> sent'[Own(d)] = 1
    BY Zenon, <1>2, <1>9 DEF Sent
  <2>1. CASE v = w
    <3>1. d = c
      BY Zenon, <2>1, <1>4, OwnIsOne DEF Carries
    <3>. QED BY <2>1, <3>1, <1>3, <1>7
  <2>2. CASE v # w
    <3>1. d # c
      BY Zenon, <2>2, <1>5
    <3>. QED BY <2>2, <3>1, <1>2, <1>7 DEF IInv, Sent
  <2>. QED BY Zenon, <2>1, <2>2
<1>18. Told'
  <2>. SUFFICES ASSUME NEW d \in Callers
       PROVE  /\ calls[d] = 0 \/ caller[d].pc = "offer" => sent'[Own(d)] = 0
              /\ Serves(ConnOf[d], d) /\ drv[ConnOf[d]].pc = "run" => sent'[Own(d)] = 0
              /\ \A k \in Commands : Waits(d, k) /\ cmd[k].result = "ok" => sent'[Own(d)] = 1
              /\ caller[d].outcome = "ok" => sent'[Own(d)] = 1
    BY ZenonT(60), <1>10 DEF Told, Waits, ConnConstants
  <2>1. CASE d = c
    BY <2>1, <1>0, <1>5, <1>6, <1>7 DEF IInv, Told, Handled
  <2>2. CASE d # c
    BY Zenon, <2>2, <1>7 DEF IInv, Told
  <2>. QED BY Zenon, <2>1, <2>2
<1>. QED BY Zenon, <1>8, <1>12, <1>13, <1>14, <1>15, <1>16, <1>17, <1>18 DEF IInv, Driven, Written

LEMMA StartStep ==
  ASSUME ConnConstants, IInv, StartWrite
  PROVE  IInv'
<1>0. Types /\ Queued
  BY Zenon DEF IInv
<1>1. PICK w : w = Head(queue)
  OBVIOUS
<1>2. /\ queue # <<>> /\ active = 0 /\ queue' = Tail(queue)
      /\ UNCHANGED <<caller, calls, cached, cmd, late, drv, signals, sent>>
  BY Zenon DEF StartWrite
<1>3. /\ 1 \in DOMAIN queue /\ w = queue[1] /\ queue' \in Seq(Nat)
      /\ \A i \in DOMAIN queue' : i + 1 \in DOMAIN queue /\ queue'[i] = queue[i + 1] /\ i + 1 # 1
      /\ DOMAIN queue' \subseteq Nat
  BY <1>0, <1>1, <1>2 DEF Types, WriterTypes
<1>4. /\ w \in DOMAIN writes /\ writes[w].command # NoCommand /\ writes[w].result = "none"
      /\ w \in Nat /\ w # 0
  BY <1>0, <1>3 DEF Queued, Types, WriterTypes
<1>5. /\ \A i \in DOMAIN queue' :
           /\ queue'[i] \in DOMAIN writes /\ queue'[i] # w /\ queue'[i] # 0
           /\ writes[queue'[i]].command # NoCommand /\ writes[queue'[i]].result = "none"
      /\ \A i, j \in DOMAIN queue' : queue'[i] = queue'[j] => i = j
  BY <1>0, <1>2, <1>3 DEF Queued
<1>6. CASE Refusal(w) # "none" /\ writes' = [writes EXCEPT ![w].result = Refusal(w)]
           /\ UNCHANGED <<active, past>>
  <2>1. Refusal(w) \in {"again", "closed"}
    BY Zenon, <1>6 DEF Refusal
  <2>2. writes' = [writes EXCEPT ![w] = Finished(writes[w], Refusal(w))]
    BY Zenon, <1>6 DEF Finished
  <2>3. DOMAIN writes' = DOMAIN writes /\ \A v \in DOMAIN writes : v # w => writes'[v] = writes[v]
    BY Zenon, <1>0, <2>2 DEF Types, WriterTypes
  <2>4. Queued'
    BY Zenon, <1>2, <1>5, <1>6, <2>3 DEF Queued
  <2>5. InterruptOwn'
    BY Zenon, <1>2, <1>6 DEF InterruptOwn
  <2>6. active' \in Nat
    BY Zenon, <1>0, <1>6 DEF Types, WriterTypes
  <2>7. PICK r \in {"again", "closed"} : r = Refusal(w)
    BY Zenon, <2>1
  <2>8. writes' = [writes EXCEPT ![w] = Finished(writes[w], r)]
    BY Zenon, <2>2, <2>7
  <2>9. (IF r = "ok" THEN sent' = [sent EXCEPT ![writes[w].data] = @ + 1] ELSE sent' = sent)
    BY Zenon, <1>2
  <2>. HIDE <2>2, <2>7
  <2>. QED BY <1>2, <1>3, <1>4, <2>4, <2>5, <2>6, <2>8, <2>9, ResultStep, ZenonT(60)
<1>7. CASE active' = w /\ past' = FALSE /\ UNCHANGED writes
  <2>1. Types'
    BY Zenon, <1>0, <1>2, <1>3, <1>4, <1>7 DEF Types, CallerTypes, DriverTypes, WriterTypes
  <2>2. Queued'
    BY Zenon, <1>4, <1>5, <1>7 DEF Queued
  <2>3. InterruptOwn'
    BY Zenon, <1>7 DEF InterruptOwn
  <2>4. Owned'
    BY Zenon, <1>2, SameSignals, OwnedKept
  <2>5. Working'
    <3>1. \A d \in Callers, k \in Commands : Waits(d, k) => Waits(d, k)'
      BY ZenonT(60), <1>2 DEF Waits
    <3>. QED BY Zenon, <1>2, <3>1, SameSignals, WorkingKept DEF IInv, Driven
  <2>6. Awaiting' /\ Written' /\ Sent' /\ Told'
    BY <1>2, <1>7 DEF IInv, Driven, Awaiting, Written, Carried, Handled, Sent, Told, Carries,
                      Serves, Waits
  <2>. QED BY Zenon, <2>1, <2>2, <2>3, <2>4, <2>5, <2>6 DEF IInv, Driven
<1>8. \/ Refusal(w) # "none" /\ writes' = [writes EXCEPT ![w].result = Refusal(w)]
         /\ UNCHANGED <<active, past>>
      \/ active' = w /\ past' = FALSE /\ UNCHANGED writes
  BY <1>1, Zenon DEF StartWrite
<1>. QED BY <1>6, <1>7, <1>8, Zenon

LEMMA EndStep ==
  ASSUME ConnConstants, IInv, EndWrite
  PROVE  IInv'
<1>0. Types /\ Queued
  BY Zenon DEF IInv
<1>1. PICK w \in DOMAIN writes :
        w = active /\ writes[w].command # NoCommand /\ writes[w].result = "none"
  BY Zenon, <1>0 DEF EndWrite, Queued
<1>2. /\ active' = 0
      /\ UNCHANGED <<caller, calls, cached, cmd, late, drv, queue, signals>>
  BY Zenon DEF EndWrite
<1>3. PICK r \in {"ok", "again"} :
        /\ writes' = [writes EXCEPT ![w] = Finished(writes[w], r)]
        /\ IF r = "ok" THEN sent' = [sent EXCEPT ![writes[w].data] = @ + 1] ELSE sent' = sent
  BY Zenon, <1>1 DEF EndWrite, Finished
<1>4. DOMAIN writes' = DOMAIN writes /\ \A v \in DOMAIN writes : v # w => writes'[v] = writes[v]
  BY Zenon, <1>0, <1>3 DEF Types, WriterTypes
<1>5. Queued'
  <2>1. \A i \in DOMAIN queue : queue[i] # w /\ queue[i] # 0
    BY <1>0, <1>1 DEF Queued, Types, WriterTypes
  <2>. QED BY ZenonT(60), <1>0, <1>2, <1>4, <2>1 DEF Queued
<1>6. InterruptOwn'
  BY Zenon, <1>2 DEF InterruptOwn
<1>7. queue' \in Seq(Nat) /\ active' \in Nat
  BY Zenon, <1>0, <1>2 DEF Types, WriterTypes
<1>. QED BY <1>1, <1>2, <1>3, <1>5, <1>6, <1>7, ResultStep, ZenonT(60)

LEMMA StutterStep ==
  ASSUME ConnConstants, IInv, UNCHANGED vars
  PROVE  IInv'
<1>1. /\ UNCHANGED <<caller, calls, cached, cmd, drv, queue, active, sent>>
      /\ UNCHANGED <<active, writes, past, signals>>
  BY Zenon DEF vars
<1>2. InterruptOwn'
  BY Zenon, <1>1, SocketRests
<1>3. Types'
  BY ZenonT(60) DEF IInv, vars, Types, CallerTypes, DriverTypes, WriterTypes
<1>4. \A k \in Commands : Dead(k)' <=> Dead(k)
  BY Zenon, <1>1 DEF Dead
<1>. QED BY Zenon, <1>1, <1>2, <1>3, <1>4, QuietStep

LEMMA NextIInv ==
  ASSUME ConnConstants, IInv, [Next]_vars
  PROVE  IInv'
<1>1. CASE Next
  <2>1. ASSUME NEW c \in Callers, Write(c) \/ Offer(c) \/ TakeReply(c) \/ GiveUp(c)
        PROVE  IInv'
    BY <2>1, WriteStep, OfferStep, ReturnStep, ZenonT(60)
  <2>2. ASSUME NEW a \in Conns,
               \/ SetWriteDeadline(a) \/ DeadlinePasses(a) \/ ClearDeadline(a)
               \/ Pending(a) \/ Send(a) \/ WriteReturns(a) \/ WaitAbandoned(a)
               \/ Teardown(a) \/ Close(a)
        PROVE  IInv'
    BY <2>2, DeadlineStep, LetGoStep, SendStep, ReturnsStep, AbandonedStep, CloseStep, ZenonT(60)
  <2>. QED BY <1>1, <2>1, <2>2, LimitStep, StartStep, EndStep, ZenonT(60) DEF Next
<1>. QED BY <1>1, StutterStep, Zenon

LEMMA IInvHolds ==
  ASSUME ConnConstants
  PROVE  Spec => []IInv
BY InitIInv, NextIInv, PTL DEF Spec

(* Conn.Write and connDriver.run: whatever the socket, the deadlines, the calls   *)
(* given up and Close do, a datagram is sent at most once however often its   *)
(* command is tried again, and a Write that reports success has sent its own. *)
THEOREM WritesAreTrue ==
  ASSUME ConnConstants
  PROVE  Spec => []WriteOutcome
<1>1. IInv => WriteOutcome
  BY DEF IInv, WriteOutcome, Told, Types, WriterTypes, Datagrams, Own
<1>. QED BY <1>1, IInvHolds, PTL

(* startWrite, cancelWrite and the end of writeNow: a write at the socket is   *)
(* cut off for its own deadline, its caller's or its association's end, never  *)
(* for what was meant for the write before it.                                 *)
THEOREM InterruptIsOwn ==
  ASSUME ConnConstants
  PROVE  Spec => []InterruptOwn
<1>1. IInv => InterruptOwn
  BY Zenon DEF IInv
<1>. QED BY <1>1, IInvHolds, PTL
=============================================================================
