--------------------------- MODULE TransferProofs ---------------------------
EXTENDS Transfer, TLAPS

(* A leaf that names no prover is for the SMT solver, with time to spare.  *)
USE SMTT(60)

(* Appending the next n bytes to a sequence of bytes.                         *)
LEMMA AppendRun ==
  ASSUME NEW s \in Seq(Nat), NEW k \in Nat, NEW n \in Nat
  PROVE  LET t == s \o [i \in 1 .. n |-> k + i] IN
         /\ t \in Seq(Nat)
         /\ Len(t) = Len(s) + n
         /\ \A i \in 1 .. Len(s) : t[i] = s[i]
         /\ \A i \in Len(s) + 1 .. Len(s) + n : t[i] = k + (i - Len(s))
<1> DEFINE r == [i \in 1 .. n |-> k + i]
<1>1. r \in Seq(Nat) /\ Len(r) = n
  <2>1. \A i \in 1 .. n : k + i \in Nat
    OBVIOUS
  <2>2. r \in [1 .. n -> Nat]
    BY Zenon, <2>1
  <2>. QED  BY <2>2
<1>. QED  BY <1>1

(* Appending the next n bytes to a prefix of a source gives a prefix again.   *)
LEMMA AppendPrefix ==
  ASSUME NEW s \in Seq(Nat), NEW k \in Nat, k = Len(s), NEW n \in Nat,
         \A i \in 1 .. Len(s) : s[i] = i
  PROVE  LET t == s \o [i \in 1 .. n |-> k + i] IN
         /\ Len(t) = k + n
         /\ \A i \in 1 .. k + n : t[i] = i
<1> DEFINE t == s \o [i \in 1 .. n |-> k + i]
<1>1. /\ Len(t) = k + n
      /\ \A i \in 1 .. k : t[i] = s[i]
      /\ \A i \in k + 1 .. k + n : t[i] = k + (i - k)
  BY AppendRun
<1> HIDE DEF t
<1>2. ASSUME NEW i \in 1 .. k + n PROVE t[i] = i
  <2>1. CASE i <= k
    BY <1>1, <2>1
  <2>2. CASE i > k
    BY <1>1, <2>2
  <2>. QED  BY <2>1, <2>2
<1>3. (Len(t) = k + n) /\ (\A i \in 1 .. k + n : t[i] = i)
  BY Zenon, <1>1, <1>2
<1>. QED  BY Zenon, <1>3 DEF t


LEMMA PrefixEqual ==
  ASSUME NEW s \in Seq(Nat), \A i \in 1 .. Len(s) : s[i] = i
  PROVE  s = [i \in 1 .. Len(s) |-> i]
<1>1. s = [i \in 1 .. Len(s) |-> s[i]]
  OBVIOUS
<1>. QED  BY Zenon, <1>1

(* TypeOK without the capacity of the results channel, which needs MainInv.   *)
Types == ContextTypes /\ PointTypes /\ BufferTypes /\ CountTypes /\ StreamTypes /\ MainTypes

(***************************************************************************)
(* The inductive invariant, in four parts.                                  *)
(***************************************************************************)
(* Program points at which the worker holds no unwritten byte.               *)
Empty == {"off", "check", "poll", "read", "after", "eof", "shutdown", "shutting",
          "zcheck", "zread", "zwait"}
Block == {"dump", "wcheck", "write", "wwait"}

(* What was written is the source's prefix, and the buffer continues it.     *)
Sent(d) ==
  /\ start[d] = Len(out[d]) /\ bytes[d] = Len(out[d])
  /\ \A i \in 1 .. Len(out[d]) : out[d][i] = i
Data(d) ==
  /\ Sent(d) /\ start[d] <= limit[d]
  /\ wpc[d] \in Empty => start[d] = limit[d]
  /\ wpc[d] = "zpwait" /\ cfg.kernelCopy = "sendfile" => start[d] = limit[d]
DataInv == \A d \in Dir : Data(d)

(* Only the splice loop pumps a pipe.                                         *)
PipeInv == \A d \in Dir : wpc[d] \in {"zpcheck", "zpump"} => cfg.kernelCopy # "sendfile"

(* A worker past the end of its source saw the end itself or was cancelled.  *)
End(d) ==
  /\ ended[d] => \/ wpc[d] \in {"eof", "shutdown", "shutting", "send", "done"}
                 \/ wpc[d] \in Block \cup {"after"} /\ er[d] = "benign"
  /\ er[d] = "benign" /\ wpc[d] \in Block \cup {"after"} => ended[d] \/ ctxErr # "nil"
  /\ wpc[d] = "eof" => ended[d] \/ ctxErr # "nil"
  /\ wpc[d] \in {"shutdown", "shutting"} => ended[d]
  /\ shut[Dst(d)] => ended[d] /\ start[d] = limit[d] /\ wpc[d] \in {"send", "done"}
EndInv ==
  /\ \A d \in Dir : End(d)
  /\ cpc # "poke" \/ cside = "right" => ctxErr # "nil"
  /\ \A s \in Side : closed[s] => ctxErr # "nil"

(* The stream mutexes, and what the close goroutine has done so far.         *)
MutexInv ==
  /\ \A d \in Dir : wpc[d] = "shutting" <=> mu[Dst(d)] = d
  /\ \A d \in Dir : mu[Src(d)] # d
  /\ \A s \in Side : mu[s] = "closer" <=> cpc = "closing" /\ cside = s
  /\ cpc = "done" => closed["left"] /\ closed["right"]
  /\ cpc \in {"close", "closing"} /\ cside = "right" => closed["left"]

(* The outcomes the caller still waits for.                                  *)
Done(d) == IF wpc[d] = "done" THEN 1 ELSE 0
MainInv ==
  /\ \A d \in Dir : wpc[d] = "off" <=> d \notin cfg.dirs
  /\ finished + Len(results) = Done("LR") + Done("RL")
  /\ main \in {"wait", "closing", "returned"} => finished = nDirs
  /\ main \in {"closing", "returned"} => \A d \in cfg.dirs : wpc[d] = "done"
  /\ main = "returned" => cpc = "done" /\ stats = bytes

IInv == Types /\ PipeInv /\ DataInv /\ EndInv /\ MutexInv /\ MainInv

(***************************************************************************)
(* Type correctness (the channel's capacity follows from MainInv, below).   *)
(***************************************************************************)
LEMMA InitTypes == Init => Types
<1> SUFFICES ASSUME Init PROVE Types
  OBVIOUS
<1>1. ContextTypes
  BY ZenonT(60) DEF Init, ContextTypes
<1>2. PointTypes
  BY Zenon DEF Init, PointTypes, WorkerPoint, Class
<1>3. BufferTypes
  BY Zenon DEF Init, BufferTypes, Errors
<1>4. CountTypes
  BY DEF Init, CountTypes
<1>5. StreamTypes
  BY Zenon DEF Init, StreamTypes, Side
<1>6. MainTypes
  BY DEF Init, MainTypes, Class
<1>. QED  BY Zenon, <1>1, <1>2, <1>3, <1>4, <1>5, <1>6 DEF Types

(* What a Read and a Write may return.                                        *)
LEMMA ReadCount ==
  ASSUME NEW d \in Dir, NEW r \in ReadResults(d)
  PROVE  r[1] \in Nat /\ r[2] \in Errors
<1> DEFINE most == Min2(BufferSize, Unread(d))
<1>1. \/ r \in {<<0, "benign">>, <<0, "fail">>, <<0, "retry">>, <<0, "timeout">>}
      \/ \E n \in 0 .. most : r = <<n, "nil">> \/ r = <<n, "benign">>
  BY DEF ReadResults
<1> HIDE DEF most
<1>2. CASE r \in {<<0, "benign">>, <<0, "fail">>, <<0, "retry">>, <<0, "timeout">>}
  BY <1>2 DEF Errors
<1>3. CASE \E n \in 0 .. most : r = <<n, "nil">> \/ r = <<n, "benign">>
  BY <1>3 DEF Errors
<1>. QED  BY Zenon, <1>1, <1>2, <1>3

LEMMA WriteCount ==
  ASSUME Types, NEW d \in Dir, NEW r \in WriteResults(d)
  PROVE  r[1] \in Nat /\ r[1] <= limit[d] - start[d]
<1>1. PICK n \in 0 .. limit[d] - start[d] : r[1] = n
  BY DEF WriteResults
<1>2. limit[d] - start[d] \in Int
  BY DEF Types, BufferTypes
<1>. QED  BY <1>1, <1>2

(* Every worker step leaves the other processes' state alone and moves the    *)
(* worker with Goto or Finish.                                                *)
LEMMA WorkerMoves ==
  ASSUME Types, NEW d \in Dir, Worker(d)
  PROVE  /\ WorkerFrame
         /\ \/ \E p \in WorkerPoint \ {"off"} : Goto(d, p)
            \/ \E c \in Class, reason \in {"none", "io", "deadline", "poke"} : Finish(d, c, reason)
<1> USE DEF FinishContext, ClassOf, WorkerPoint, Class
<1>1. CASE CheckContext(d)  BY Zenon, <1>1 DEF CheckContext
<1>2. CASE Poll(d)          BY Zenon, <1>2 DEF Poll
<1>3. CASE Read(d)          BY Zenon, <1>3 DEF Read
<1>4. CASE Dump(d)          BY Zenon, <1>4 DEF Dump
<1>5. CASE WriteCheck(d)    BY Zenon, <1>5 DEF WriteCheck
<1>6. CASE Write(d)         BY Zenon, <1>6 DEF Write, AfterWrite
<1>7. CASE WaitWritable(d)  BY Zenon, <1>7 DEF WaitWritable
<1>8. CASE AfterRead(d)     BY Zenon, <1>8 DEF AfterRead
<1>9. CASE SourceEOF(d)       BY Zenon, <1>9 DEF SourceEOF
<1>10. CASE ShutdownLock(d)   BY Zenon, <1>10 DEF ShutdownLock
<1>11. CASE ShutdownWrite(d)  BY Zenon, <1>11 DEF ShutdownWrite
<1>12. CASE SendResult(d)     BY Zenon, <1>12 DEF SendResult
<1>13. CASE ZeroCheck(d)      BY Zenon, <1>13 DEF ZeroCheck
<1>14. CASE ZeroRead(d)       BY Zenon, <1>14 DEF ZeroRead
<1>15. CASE ZeroWaitSource(d) BY Zenon, <1>15 DEF ZeroWaitSource
<1>16. CASE ZeroPumpCheck(d)  BY Zenon, <1>16 DEF ZeroPumpCheck
<1>17. CASE ZeroPump(d)       BY Zenon, <1>17 DEF ZeroPump
<1>18. CASE ZeroWaitDestination(d)  BY Zenon, <1>18 DEF ZeroWaitDestination
<1>. QED
  BY ZenonT(60), <1>1, <1>2, <1>3, <1>4, <1>5, <1>6, <1>7, <1>8, <1>9, <1>10, <1>11, <1>12,
     <1>13, <1>14, <1>15, <1>16, <1>17, <1>18 DEF Worker

LEMMA DivNat ==
  ASSUME NEW a \in Nat, NEW b \in Nat \ {0}
  PROVE  a \div b \in Nat
OBVIOUS

LEMMA BlockCountNat ==
  ASSUME NEW n \in Nat
  PROVE  BlockCount(n) \in Nat
<1>1. BufferSize \in Nat \ {0} /\ n + BufferSize - 1 \in Nat
  BY TransferAssumption
<1>. QED  BY Zenon, <1>1, DivNat DEF BlockCount

LEMMA WorkerTypes ==
  ASSUME Types, NEW d \in Dir, Worker(d)
  PROVE  Types'
<1> USE DEF Types
<1>1. WorkerFrame
  BY Zenon, WorkerMoves
<1>2. ContextTypes'
  BY Zenon, <1>1 DEF WorkerFrame, ContextTypes, ctxVars, idleVars
<1>3. PointTypes'
  BY WorkerMoves DEF Goto, Finish, PointTypes, WorkerPoint, Class
<1>4. BufferTypes' /\ CountTypes'
  <2> USE DEF BufferTypes, CountTypes, bufVars, outVars
  <2>1. ASSUME NEW n \in Nat, Deliver(d, n)
        PROVE  /\ out' \in [Dir -> Seq(Nat)] /\ bytes' \in [Dir -> Nat]
               /\ start' \in [Dir -> Nat]
    <3>1. out[d] \in Seq(Nat) /\ start[d] \in Nat
      OBVIOUS
    <3>2. out[d] \o [i \in 1 .. n |-> start[d] + i] \in Seq(Nat)
      BY Zenon, <3>1, AppendRun
    <3>. QED  BY <2>1, <3>2 DEF Deliver
  <2>2. ASSUME NEW b \in BOOLEAN, CountBlock(d, b)
        PROVE  blocks' \in [Dir -> Nat]
    BY <2>2 DEF CountBlock
  <2>3. CASE Read(d)
    <3>1. \A r \in ReadResults(d) : r[1] \in Nat /\ r[2] \in Errors
      BY Zenon, ReadCount
    <3>. QED  BY <2>3, <3>1 DEF Read
  <2>4. CASE WriteCheck(d)
    BY Zenon, <2>4, <2>2 DEF WriteCheck
  <2>5. CASE Write(d)
    <3>1. \A r \in WriteResults(d) : r[1] \in Nat
      BY Zenon, WriteCount
    <3>2. PICK r \in WriteResults(d) :
            /\ Deliver(d, r[1])
            /\ wrote' = [wrote EXCEPT ![d] = @ \/ r[1] > 0]
            /\ AfterWrite(d, r[1], r[2])
      BY ZenonT(60), <2>5 DEF Write
    <3>3. blocks' \in [Dir -> Nat]
      BY ZenonT(60), <3>1, <3>2, <2>2 DEF AfterWrite
    <3>4. wrote' \in [Dir -> BOOLEAN]
      BY Zenon, <3>1, <3>2
    <3>. QED  BY ZenonT(60), <2>5, <3>1, <3>2, <3>3, <3>4, <2>1 DEF Write
  <2>6. CASE WaitWritable(d)
    BY Zenon, <2>6, <2>2 DEF WaitWritable
  <2>7. CASE SourceEOF(d)
    BY <2>7 DEF SourceEOF
  <2>8. CASE SendResult(d)
    BY Zenon, <2>8 DEF SendResult, Errors
  <2>9. CASE ZeroRead(d)
    <3>1. CASE UNCHANGED <<start, limit, outVars>> /\ ended' \in [Dir -> BOOLEAN]
      BY Zenon, <2>9, <3>1 DEF ZeroRead
    <3>2. CASE \E n \in 1 .. Unread(d) :
                 /\ limit' = [limit EXCEPT ![d] = @ + n]
                 /\ blocks' = [blocks EXCEPT ![d] = @ + BlockCount(n)]
                 /\ Deliver(d, n) \/ UNCHANGED <<start, out, bytes>>
                 /\ UNCHANGED ended
      <4>1. PICK n \in 1 .. Unread(d) :
                 /\ limit' = [limit EXCEPT ![d] = @ + n]
                 /\ blocks' = [blocks EXCEPT ![d] = @ + BlockCount(n)]
                 /\ Deliver(d, n) \/ UNCHANGED <<start, out, bytes>>
                 /\ UNCHANGED ended
        BY ZenonT(60), <3>2
      <4>2. n \in Nat
        OBVIOUS
      <4>3. BlockCount(n) \in Nat
        BY Zenon, <4>2, BlockCountNat
      <4>4. blocks' \in [Dir -> Nat] /\ limit' \in [Dir -> Nat]
        BY <4>1, <4>2, <4>3
      <4>5. start' \in [Dir -> Nat] /\ out' \in [Dir -> Seq(Nat)] /\ bytes' \in [Dir -> Nat]
        BY ZenonT(60), <4>1, <4>2, <2>1
      <4>. QED  BY Zenon, <2>9, <4>1, <4>4, <4>5 DEF ZeroRead
    <3>. QED  BY ZenonT(60), <2>9, <3>1, <3>2 DEF ZeroRead
  <2>10. CASE ZeroWaitSource(d)
    BY Zenon, <2>10 DEF ZeroWaitSource
  <2>11. CASE ZeroPump(d)
    <3>1. CASE \E n \in 1 .. limit[d] - start[d] : Deliver(d, n)
      <4>1. PICK n \in Nat : Deliver(d, n)
        BY <3>1
      <4>. QED  BY Zenon, <2>11, <4>1, <2>1 DEF ZeroPump
    <3>2. CASE UNCHANGED <<start, out, bytes>>
      BY Zenon, <2>11, <3>2 DEF ZeroPump
    <3>. QED  BY ZenonT(60), <2>11, <3>1, <3>2 DEF ZeroPump
  <2>12. CASE UNCHANGED <<ended, bufVars, outVars, eofCalls>>
    BY Zenon, <2>12
  <2>. QED
    BY ZenonT(60), <2>3, <2>4, <2>5, <2>6, <2>7, <2>8, <2>9, <2>10, <2>11, <2>12
    DEF Worker, CheckContext, Poll, Dump, AfterRead, ShutdownLock, ShutdownWrite,
        ZeroCheck, ZeroPumpCheck, ZeroWaitDestination
<1>5. StreamTypes'
  <2> USE DEF StreamTypes, streamVars, closerVars, WorkerFrame
  <2>0. d \in {"LR", "RL"} /\ Dst(d) \in Side
    BY Zenon DEF Dir, Dst, Side
  <2>1. CASE ShutdownLock(d)
    BY Zenon, <1>1, <2>0, <2>1 DEF ShutdownLock
  <2>2. CASE ShutdownWrite(d)
    BY Zenon, <1>1, <2>0, <2>2 DEF ShutdownWrite
  <2>3. CASE UNCHANGED streamVars
    BY Zenon, <1>1, <2>3
  <2>. QED
    BY ZenonT(60), <2>1, <2>2, <2>3
    DEF Worker, CheckContext, Poll, Read, Dump, WriteCheck, Write, WaitWritable, AfterRead,
        SourceEOF, SendResult, ZeroCheck, ZeroRead, ZeroWaitSource, ZeroPumpCheck, ZeroPump,
        ZeroWaitDestination
<1>6. MainTypes'
  <2> USE DEF MainTypes, mainVars, WorkerFrame
  <2>1. CASE SendResult(d)
    BY <1>1, <2>1 DEF SendResult
  <2>2. CASE UNCHANGED results
    BY Zenon, <1>1, <2>2
  <2>. QED
    BY ZenonT(60), <2>1, <2>2
    DEF Worker, CheckContext, Poll, Read, Dump, WriteCheck, Write, WaitWritable, AfterRead,
        SourceEOF, ShutdownLock, ShutdownWrite, ZeroCheck, ZeroRead, ZeroWaitSource,
        ZeroPumpCheck, ZeroPump, ZeroWaitDestination
<1>. QED  BY Zenon, <1>2, <1>3, <1>4, <1>5, <1>6

(* The steps of the close goroutine and of the poke's timer.                  *)
LEMMA CloserTypes ==
  ASSUME Types, Closer \/ \E s \in Side : PokeClear(s)
  PROVE  Types' /\ CloserFrame
<1> USE DEF Types
<1>1. CloserFrame
  BY Zenon DEF Closer, CloserPoke, CloserLock, CloserClose, PokeClear
<1>2. StreamTypes'
  <2> USE DEF StreamTypes, NextSide, Side
  <2>1. CASE CloserPoke   BY Zenon, <2>1 DEF CloserPoke
  <2>2. CASE CloserLock   BY Zenon, <2>2 DEF CloserLock
  <2>3. CASE CloserClose  BY Zenon, <2>3 DEF CloserClose
  <2>4. ASSUME NEW s \in Side, PokeClear(s) PROVE StreamTypes'
    BY Zenon, <2>4 DEF PokeClear, closerVars
  <2>. QED  BY Zenon, <2>1, <2>2, <2>3, <2>4 DEF Closer
<1>3. ContextTypes'
  BY Zenon, <1>1 DEF ContextTypes, CloserFrame, ctxVars, idleVars
<1>4. PointTypes'
  BY Zenon, <1>1 DEF PointTypes, CloserFrame, endVars
<1>5. BufferTypes'
  BY Zenon, <1>1 DEF BufferTypes, CloserFrame, bufVars
<1>6. CountTypes'
  BY Zenon, <1>1 DEF CountTypes, CloserFrame, outVars, endVars
<1>7. MainTypes'
  BY Zenon, <1>1 DEF MainTypes, CloserFrame, mainVars
<1>. QED  BY Zenon, <1>1, <1>2, <1>3, <1>4, <1>5, <1>6, <1>7

(* The steps that only touch the context, the idle watcher or the caller's    *)
(* own state.                                                                 *)
Caller ==
  \/ \E kind \in {"Canceled", "DeadlineExceeded"} : ParentDone(kind)
  \/ IdleExpire \/ IdleCancel \/ IdleStop \/ LingerFire \/ Main

CallerFrame == UNCHANGED <<cfg, ended, wpc, bufVars, outVars, endVars, streamVars, closerVars>>

LEMMA CallerTypes ==
  ASSUME Types, Caller
  PROVE  Types' /\ CallerFrame
<1> USE DEF Types
<1>1. CallerFrame
  BY ZenonT(60) DEF Caller, CallerFrame, ParentDone, IdleExpire, IdleCancel, IdleStop,
     LingerFire, Main,
         SelectResult, SelectLinger, SelectDone, Drain, WaitWorkers, Return, IdleFrame, MainFrame
<1>2. ContextTypes'
  <2> USE DEF ContextTypes, Cancel, ctxVars, idleVars, IdleFrame, MainFrame
  <2>1. ASSUME NEW kind \in {"Canceled", "DeadlineExceeded"}, ParentDone(kind) PROVE ContextTypes'
    BY Zenon, <2>1 DEF ParentDone
  <2>2. CASE IdleExpire    BY Zenon, <2>2 DEF IdleExpire
  <2>3. CASE IdleCancel    BY Zenon, <2>3 DEF IdleCancel
  <2>4. CASE IdleStop      BY Zenon, <2>4 DEF IdleStop
  <2>5. CASE LingerFire    BY Zenon, <2>5 DEF LingerFire
  <2>6. CASE SelectResult  BY ZenonT(60), <2>6 DEF SelectResult
  <2>7. CASE SelectLinger  BY Zenon, <2>7 DEF SelectLinger
  <2>8. CASE SelectDone    BY Zenon, <2>8 DEF SelectDone
  <2>9. CASE Drain         BY Zenon, <2>9 DEF Drain
  <2>10. CASE WaitWorkers  BY Zenon, <2>10 DEF WaitWorkers
  <2>11. CASE Return       BY Zenon, <2>11 DEF Return
  <2>. QED
    BY Zenon, <2>1, <2>2, <2>3, <2>4, <2>5, <2>6, <2>7, <2>8, <2>9, <2>10, <2>11 DEF Caller, Main
<1>3. MainTypes'
  <2> USE DEF MainTypes, mainVars
  <2>1. ASSUME NEW live \in BOOLEAN, Accept(live)
        PROVE  /\ results' \in Seq(Dir) /\ finished' \in Nat /\ store' \in [Dir -> Class]
               /\ inspect' \in Seq(Dir)
    <3>1. Head(results) \in Dir /\ Tail(results) \in Seq(Dir)
      BY <2>1 DEF Accept
    <3>. QED  BY <2>1, <3>1 DEF Accept, PointTypes
  <2>2. CASE SelectResult  BY ZenonT(60), <2>1, <2>2 DEF SelectResult
  <2>3. CASE Drain         BY ZenonT(60), <2>1, <2>3 DEF Drain
  <2>4. CASE Return
    <3>1. \A i \in 1 .. Len(inspect) : inspect[i] \in {"LR", "RL"}
      BY DEF Dir
    <3>2. SelectedError \in {"none", "LR", "RL"}
      BY <3>1 DEF SelectedError, SelectTransferError
    <3>. QED  BY Zenon, <2>4, <3>2 DEF Return, CountTypes
  <2>5. CASE SelectLinger  BY Zenon, <2>5 DEF SelectLinger
  <2>6. CASE SelectDone    BY Zenon, <2>6 DEF SelectDone
  <2>7. CASE WaitWorkers   BY Zenon, <2>7 DEF WaitWorkers
  <2>8. CASE LingerFire    BY Zenon, <2>8 DEF LingerFire
  <2>9. CASE UNCHANGED <<mainVars, results>>  BY Zenon, <2>9
  <2>. QED
    BY Zenon, <2>2, <2>3, <2>4, <2>5, <2>6, <2>7, <2>8, <2>9
    DEF Caller, Main, ParentDone, IdleExpire, IdleCancel, IdleStop, IdleFrame
<1>4. PointTypes'   BY Zenon, <1>1 DEF PointTypes, CallerFrame, endVars
<1>5. BufferTypes'  BY Zenon, <1>1 DEF BufferTypes, CallerFrame, bufVars
<1>6. CountTypes'   BY Zenon, <1>1 DEF CountTypes, CallerFrame, outVars, endVars
<1>7. StreamTypes'  BY Zenon, <1>1 DEF StreamTypes, CallerFrame, streamVars, closerVars
<1>. QED  BY Zenon, <1>1, <1>2, <1>3, <1>4, <1>5, <1>6, <1>7

LEMMA NextTypes == Types /\ [Next]_vars => Types'
<1> SUFFICES ASSUME Types, [Next]_vars PROVE Types'
  OBVIOUS
<1>1. ASSUME NEW d \in cfg.dirs, Worker(d) PROVE Types'
  <2>1. d \in Dir
    BY Zenon, TransferAssumption DEF Types, ContextTypes, Config
  <2>. QED  BY Zenon, <1>1, <2>1, WorkerTypes
<1>2. CASE Closer \/ \E s \in Side : PokeClear(s)
  BY Zenon, <1>2, CloserTypes
<1>3. CASE Caller
  BY ZenonT(60), <1>3, CallerTypes
<1>4. CASE UNCHANGED vars
  BY <1>4 DEF vars, Types, ContextTypes, PointTypes, BufferTypes, CountTypes, StreamTypes,
              MainTypes, ctxVars, bufVars, outVars, endVars, streamVars, mainVars, closerVars,
              idleVars
<1>. QED  BY Zenon, <1>1, <1>2, <1>3, <1>4 DEF Next, Returned, Caller

(* A worker step changes its own direction only.                              *)
LEMMA WorkerLocal ==
  ASSUME Types, NEW d \in Dir, Worker(d), NEW e \in Dir, e # d
  PROVE  /\ wpc'[e] = wpc[e] /\ er'[e] = er[e] /\ ended'[e] = ended[e]
         /\ start'[e] = start[e] /\ limit'[e] = limit[e]
         /\ out'[e] = out[e] /\ bytes'[e] = bytes[e]
         /\ closed' = closed /\ shut'[Dst(e)] = shut[Dst(e)] /\ mu'[Dst(e)] = mu[Dst(e)]
<1>1. wpc'[e] = wpc[e]
  <2>1. \/ \E p \in WorkerPoint \ {"off"} : Goto(d, p)
        \/ \E c \in Class, r \in {"none", "io", "deadline", "poke"} : Finish(d, c, r)
    BY Zenon, WorkerMoves
  <2>. QED  BY Zenon, <2>1 DEF Goto, Finish, Types, PointTypes
<1> USE DEF Types, BufferTypes, CountTypes
<1>2. er'[e] = er[e] /\ ended'[e] = ended[e] /\ limit'[e] = limit[e]
  BY ZenonT(60) DEF Worker, CheckContext, Poll, Read, Dump, WriteCheck, Write, WaitWritable,
     AfterRead,
         SourceEOF, ShutdownLock, ShutdownWrite, SendResult, ZeroCheck, ZeroRead, ZeroWaitSource,
         ZeroPumpCheck, ZeroPump, ZeroWaitDestination, bufVars
<1>3. \/ \E n : Deliver(d, n)
      \/ start' = [start EXCEPT ![d] = limit[d]] /\ UNCHANGED <<out, bytes>>
      \/ UNCHANGED <<start, out, bytes>>
  BY ZenonT(60) DEF Worker, CheckContext, Poll, Read, Dump, WriteCheck, Write, WaitWritable,
     AfterRead,
         SourceEOF, ShutdownLock, ShutdownWrite, SendResult, ZeroCheck, ZeroRead, ZeroWaitSource,
         ZeroPumpCheck, ZeroPump, ZeroWaitDestination, bufVars, outVars
<1>4. start'[e] = start[e] /\ out'[e] = out[e] /\ bytes'[e] = bytes[e]
  BY ZenonT(60), <1>3 DEF Deliver
<1>5. \/ UNCHANGED streamVars
      \/ UNCHANGED <<closed, shut>> /\ mu' = [mu EXCEPT ![Dst(d)] = d]
      \/ \E b : /\ shut' = [shut EXCEPT ![Dst(d)] = b]
               /\ mu' = [mu EXCEPT ![Dst(d)] = "free"] /\ UNCHANGED closed
  BY ZenonT(60) DEF Worker, CheckContext, Poll, Read, Dump, WriteCheck, Write, WaitWritable,
     AfterRead,
         SourceEOF, ShutdownLock, ShutdownWrite, SendResult, ZeroCheck, ZeroRead, ZeroWaitSource,
         ZeroPumpCheck, ZeroPump, ZeroWaitDestination, streamVars
<1>6. Dst(d) \in Side /\ Dst(e) \in Side /\ Dst(e) # Dst(d)
  BY DEF Dst, Dir, Side
<1>7. closed' = closed /\ shut'[Dst(e)] = shut[Dst(e)] /\ mu'[Dst(e)] = mu[Dst(e)]
  BY Zenon, <1>5, <1>6 DEF StreamTypes, streamVars
<1>. QED  BY ZenonT(60), <1>1, <1>2, <1>4, <1>7

LEMMA WorkerPipe ==
  ASSUME Types, PipeInv, NEW d \in Dir, Worker(d)
  PROVE  PipeInv'
<1>1. cfg' = cfg
  BY Zenon, WorkerMoves DEF WorkerFrame
<1>2. ASSUME NEW e \in Dir, e # d, wpc'[e] \in {"zpcheck", "zpump"}
      PROVE  cfg'.kernelCopy # "sendfile"
  BY ZenonT(60), <1>1, <1>2, WorkerLocal DEF PipeInv
<1>3. ASSUME wpc'[d] \in {"zpcheck", "zpump"}, wpc[d] \notin {"zpcheck", "zpump"}
      PROVE  cfg.kernelCopy # "sendfile"
  <2>1. ZeroRead(d) \/ ZeroPump(d) \/ ZeroPumpCheck(d) \/ ZeroWaitDestination(d)
    BY ZenonT(60), <1>3 DEF Worker, CheckContext, Poll, Read, Dump, WriteCheck, Write,
       AfterWrite, WaitWritable,
         AfterRead, SourceEOF, ShutdownLock, ShutdownWrite, SendResult, ZeroCheck, ZeroWaitSource,
         Goto, Finish, FinishContext, Types, PointTypes
  <2>. QED
    BY ZenonT(60), <1>3, <2>1 DEF ZeroRead, ZeroPump, ZeroPumpCheck, ZeroWaitDestination, Goto,
       Finish,
         FinishContext, Types, PointTypes
<1>. QED  BY Zenon, <1>1, <1>2, <1>3 DEF PipeInv

LEMMA WorkerData ==
  ASSUME Types, PipeInv, DataInv, NEW d \in Dir, Worker(d)
  PROVE  DataInv'
<1>1. cfg' = cfg
  BY Zenon, WorkerMoves DEF WorkerFrame
<1>2. ASSUME NEW e \in Dir, e # d PROVE Data(e)'
  <2>1. Data(e)
    BY Zenon DEF DataInv
  <2>. QED  BY ZenonT(60), <1>1, <1>2, <2>1, WorkerLocal DEF Data, Sent
<1>3. Data(d)'
  <2>0. Data(d) /\ wpc[d] \in WorkerPoint /\ start[d] \in Nat /\ limit[d] \in Nat
        /\ out[d] \in Seq(Nat) /\ bytes[d] \in Nat
    BY Zenon DEF DataInv, Types, PointTypes, BufferTypes, CountTypes
  <2>1. ASSUME NEW n \in Nat, Deliver(d, n)
        PROVE  start'[d] = start[d] + n /\ Sent(d)'
    <3>1. out'[d] = out[d] \o [i \in 1 .. n |-> start[d] + i]
          /\ start'[d] = start[d] + n /\ bytes'[d] = bytes[d] + n
      BY Zenon, <2>1 DEF Deliver, Types, BufferTypes, CountTypes
    <3>3. start[d] = Len(out[d]) /\ bytes[d] = Len(out[d]) /\ \A i \in 1 .. Len(out[d]) : out[d][i] = i
      BY Zenon, <2>0 DEF Data, Sent
    <3>4. Len(out'[d]) = start[d] + n /\ \A i \in 1 .. start[d] + n : out'[d][i] = i
      <4> DEFINE t == out[d] \o [i \in 1 .. n |-> start[d] + i]
      <4>1. Len(t) = start[d] + n /\ \A i \in 1 .. start[d] + n : t[i] = i
        BY Zenon, <2>0, <3>3, AppendPrefix
      <4>2. out'[d] = t
        BY Zenon, <3>1
      <4> HIDE DEF t
      <4>. QED  BY ZenonT(60), <4>1, <4>2
    <3>5. bytes'[d] = start[d] + n /\ start'[d] = start[d] + n
      BY ZenonT(60), <3>1, <3>3
    <3>. QED  BY ZenonT(60), <3>4, <3>5 DEF Sent
  <2>2. ASSUME NEW p, Goto(d, p) PROVE wpc'[d] = p
    BY Zenon, <2>2 DEF Goto, Types, PointTypes
  <2>3. ASSUME NEW c, NEW r, Finish(d, c, r) PROVE wpc'[d] = "send"
    BY Zenon, <2>3 DEF Finish, Types, PointTypes
  <2>4. CASE Read(d)
    <3>1. PICK r \in ReadResults(d) :
            /\ limit' = [limit EXCEPT ![d] = @ + r[1]]
            /\ start' = [start EXCEPT ![d] = limit[d]]
            /\ Goto(d, IF r[1] = 0 THEN "after" ELSE IF cfg.dump THEN "dump" ELSE "wcheck")
      BY ZenonT(60), <2>4 DEF Read
    <3>2. r[1] \in Nat
      BY Zenon, ReadCount
    <3>3. limit'[d] = limit[d] + r[1] /\ start'[d] = limit[d] /\ out'[d] = out[d] /\ bytes'[d] = bytes[d]
      BY Zenon, <2>4, <3>1 DEF Read, outVars, Types, BufferTypes
    <3>4. wpc'[d] = IF r[1] = 0 THEN "after" ELSE IF cfg.dump THEN "dump" ELSE "wcheck"
      BY Zenon, <3>1, <2>2
    <3>5. start[d] = limit[d]
      BY ZenonT(60), <2>0, <2>4 DEF Read, Data, Empty
    <3>6. Sent(d)'
      BY ZenonT(60), <2>0, <3>3, <3>5 DEF Data, Sent
    <3>7. start'[d] <= limit'[d] /\ (r[1] = 0 => start'[d] = limit'[d])
      BY <2>0, <3>2, <3>3
    <3>. QED  BY Zenon, <3>4, <3>6, <3>7 DEF Data, Empty
  <2>5. CASE Write(d)
    <3>1. PICK r \in WriteResults(d) : Deliver(d, r[1]) /\ AfterWrite(d, r[1], r[2])
      BY Zenon, <2>5 DEF Write
    <3>2. r[1] \in Nat /\ r[1] <= limit[d] - start[d]
      BY Zenon, WriteCount
    <3>3. limit'[d] = limit[d]
      BY ZenonT(60), <2>5 DEF Write
    <3>4. wpc'[d] = "after" => start[d] + r[1] = limit[d]
      BY ZenonT(60), <3>1, <2>2, <2>3 DEF AfterWrite
    <3>5. wpc'[d] \in {"send", "after", "wcheck", "wwait"}
      BY ZenonT(60), <3>1, <2>2, <2>3 DEF AfterWrite
    <3>6. Sent(d)' /\ start'[d] = start[d] + r[1]
      BY Zenon, <2>1, <3>1, <3>2
    <3>7. start'[d] <= limit'[d]
      BY <2>0, <3>2, <3>3, <3>6
    <3>. QED  BY Zenon, <3>3, <3>4, <3>5, <3>6, <3>7 DEF Data, Empty
  <2>6. CASE ZeroRead(d)
    <3>0. start[d] = limit[d]
      BY ZenonT(60), <2>0, <2>6 DEF ZeroRead, Data, Empty
    <3>1. CASE UNCHANGED <<start, limit, outVars>>
      BY ZenonT(60), <2>0, <3>0, <3>1 DEF Data, Sent, outVars
    <3>2. CASE \E n \in 1 .. Unread(d) :
                 /\ limit' = [limit EXCEPT ![d] = @ + n]
                 /\ \/ Deliver(d, n) /\ Goto(d, "zcheck")
                    \/ /\ cfg.kernelCopy # "sendfile"
                       /\ UNCHANGED <<start, out, bytes>> /\ Goto(d, "zpcheck")
      <4>1. PICK n \in 1 .. Unread(d) :
                 /\ limit' = [limit EXCEPT ![d] = @ + n]
                 /\ \/ Deliver(d, n) /\ Goto(d, "zcheck")
                    \/ /\ cfg.kernelCopy # "sendfile"
                       /\ UNCHANGED <<start, out, bytes>> /\ Goto(d, "zpcheck")
        BY ZenonT(60), <3>2
      <4>2. n \in Nat /\ limit'[d] = limit[d] + n
        BY <4>1 DEF Types, BufferTypes
      <4>3. CASE Deliver(d, n) /\ Goto(d, "zcheck")
        <5>1. Sent(d)' /\ start'[d] = start[d] + n /\ wpc'[d] = "zcheck"
          BY Zenon, <2>1, <2>2, <4>2, <4>3
        <5>2. start'[d] = limit'[d] /\ start'[d] <= limit'[d]
          BY <2>0, <3>0, <4>2, <5>1
        <5>. QED  BY ZenonT(60), <5>1, <5>2 DEF Data
      <4>4. CASE /\ cfg.kernelCopy # "sendfile"
                 /\ UNCHANGED <<start, out, bytes>> /\ Goto(d, "zpcheck")
        <5>1. wpc'[d] = "zpcheck" /\ start'[d] = start[d] /\ out'[d] = out[d] /\ bytes'[d] = bytes[d]
          BY Zenon, <2>2, <4>4
        <5>2. wpc'[d] \notin Empty /\ wpc'[d] # "zpwait"
          BY Zenon, <5>1 DEF Empty
        <5>3. start'[d] <= limit'[d]
          BY <2>0, <3>0, <4>2, <5>1
        <5>4. Sent(d)'
          BY ZenonT(60), <2>0, <5>1 DEF Data, Sent
        <5>. QED  BY ZenonT(60), <5>2, <5>3, <5>4 DEF Data
      <4>. QED  BY Zenon, <4>1, <4>3, <4>4
    <3>. QED  BY ZenonT(60), <2>6, <3>1, <3>2 DEF ZeroRead
  <2>7. CASE ZeroPump(d)
    <3>1. limit'[d] = limit[d]
      BY ZenonT(60), <2>7 DEF ZeroPump
    <3>2. CASE \E n \in 1 .. limit[d] - start[d] :
                 /\ Deliver(d, n)
                 /\ Goto(d, IF start[d] + n = limit[d] THEN "zcheck" ELSE "zpcheck")
      <4>1. PICK n \in 1 .. limit[d] - start[d] :
                 /\ Deliver(d, n)
                 /\ Goto(d, IF start[d] + n = limit[d] THEN "zcheck" ELSE "zpcheck")
        BY ZenonT(60), <3>2
      <4>2. n \in Nat /\ start[d] + n <= limit[d]
        BY <2>0 DEF Data
      <4>3. wpc'[d] = IF start[d] + n = limit[d] THEN "zcheck" ELSE "zpcheck"
        BY Zenon, <4>1, <2>2
      <4>4. Sent(d)' /\ start'[d] = start[d] + n
        BY Zenon, <2>1, <4>1, <4>2
      <4>5. start'[d] <= limit'[d]
        BY Zenon, <3>1, <4>2, <4>4
      <4>. QED  BY Zenon, <3>1, <4>3, <4>4, <4>5 DEF Data, Empty
    <3>3. CASE /\ UNCHANGED <<start, out, bytes>>
               /\ \/ Goto(d, "zpwait")
                  \/ Finish(d, "closed", "none")
                  \/ Finish(d, "failed", "io")
      <4>1. wpc'[d] \in {"zpwait", "send"} /\ start'[d] = start[d] /\ out'[d] = out[d]
            /\ bytes'[d] = bytes[d]
        BY Zenon, <2>2, <2>3, <3>3
      <4>2. cfg.kernelCopy # "sendfile"
        BY Zenon, <2>7 DEF ZeroPump, PipeInv
      <4>3. Sent(d)'
        BY ZenonT(60), <2>0, <4>1 DEF Data, Sent
      <4>. QED  BY Zenon, <1>1, <2>0, <3>1, <4>1, <4>2, <4>3 DEF Data, Empty
    <3>. QED  BY ZenonT(60), <2>7, <3>2, <3>3 DEF ZeroPump
  <2>8. CASE UNCHANGED <<start, limit, out, bytes>> /\ wpc[d] \in Empty
    BY ZenonT(60), <2>0, <2>8 DEF Data, Sent
  <2>9. CASE UNCHANGED <<start, limit, out, bytes>> /\ wpc[d] \notin Empty
    <3>1. CASE Dump(d) \/ WriteCheck(d) \/ WaitWritable(d)
      BY ZenonT(60), <2>0, <2>2, <2>3, <2>9, <3>1 DEF Data, Sent, Empty, Dump, WriteCheck,
         WaitWritable, FinishContext
    <3>2. CASE SendResult(d) \/ ZeroPumpCheck(d)
      BY ZenonT(60), <2>0, <2>2, <2>3, <2>9, <3>2 DEF Data, Sent, Empty, SendResult,
         ZeroPumpCheck, FinishContext
    <3>3. CASE ZeroWaitDestination(d)
      BY ZenonT(60), <1>1, <2>0, <2>2, <2>3, <2>9, <3>3 DEF Data, Sent, Empty,
         ZeroWaitDestination, FinishContext
    <3>. QED
      BY ZenonT(60), <2>4, <2>5, <2>6, <2>7, <2>9, <3>1, <3>2, <3>3
      DEF Worker, CheckContext, Poll, AfterRead, SourceEOF, ShutdownLock, ShutdownWrite,
          ZeroCheck, ZeroWaitSource, Empty
  <2>10. \/ Read(d) \/ Write(d) \/ ZeroRead(d) \/ ZeroPump(d)
         \/ UNCHANGED <<start, limit, out, bytes>>
    BY ZenonT(60) DEF Worker, CheckContext, Poll, Dump, WriteCheck, WaitWritable, AfterRead,
       SourceEOF,
           ShutdownLock, ShutdownWrite, SendResult, ZeroCheck, ZeroWaitSource, ZeroPumpCheck,
           ZeroWaitDestination, bufVars, outVars
  <2>. QED  BY Zenon, <2>4, <2>5, <2>6, <2>7, <2>8, <2>9, <2>10
<1>. QED  BY Zenon, <1>2, <1>3 DEF DataInv

(***************************************************************************)
(* EndInv.                                                                  *)
(***************************************************************************)
LEMMA WorkerEnd ==
  ASSUME Types, DataInv, EndInv, NEW d \in Dir, Worker(d)
  PROVE  EndInv'
<1>1. ctxErr' = ctxErr /\ cpc' = cpc /\ cside' = cside
  BY Zenon, WorkerMoves DEF WorkerFrame, ctxVars, closerVars
<1>2. closed' = closed
  BY ZenonT(60) DEF Worker, CheckContext, Poll, Read, Dump, WriteCheck, Write, WaitWritable,
     AfterRead,
         SourceEOF, ShutdownLock, ShutdownWrite, SendResult, ZeroCheck, ZeroRead, ZeroWaitSource,
         ZeroPumpCheck, ZeroPump, ZeroWaitDestination, streamVars
<1>3. ASSUME NEW e \in Dir, e # d PROVE End(e)'
  <2>1. End(e)
    BY Zenon DEF EndInv
  <2>. QED  BY ZenonT(60), <1>1, <1>3, <2>1, WorkerLocal DEF End
<1>4. End(d)'
  <2>0. /\ End(d) /\ Data(d)
        /\ wpc[d] \in WorkerPoint /\ wpc \in [Dir -> WorkerPoint] /\ er \in [Dir -> Errors]
        /\ ended \in [Dir -> BOOLEAN] /\ Dst(d) \in Side /\ Src(d) \in Side
        /\ shut \in [Side -> BOOLEAN] /\ start \in [Dir -> Nat] /\ limit \in [Dir -> Nat]
        /\ \A s \in Side : closed[s] => ctxErr # "nil"
    BY Zenon DEF DataInv, EndInv, Types, PointTypes, BufferTypes, CountTypes, StreamTypes, Dst,
       Src, Dir, Side
  <2>1. ASSUME NEW p, Goto(d, p) PROVE wpc'[d] = p
    BY Zenon, <2>0, <2>1 DEF Goto
  <2>2. ASSUME NEW c, NEW r, Finish(d, c, r) PROVE wpc'[d] = "send"
    BY Zenon, <2>0, <2>2 DEF Finish
  (* A step that keeps the flags and the buffer, by where it goes.            *)
  <2>3. ASSUME shut[Dst(d)]' = shut[Dst(d)], ended'[d] = ended[d], er'[d] = er[d],
               ~shut[Dst(d)],
               \/ wpc'[d] = "send"
               \/ wpc'[d] \in Block /\ wpc[d] \in Block
               \/ wpc'[d] = "after" /\ wpc[d] \in Block
               \/ wpc'[d] = "eof" /\ wpc[d] = "after" /\ er[d] = "benign"
               \/ wpc'[d] \in {"shutdown", "shutting"} /\ ended[d]
               \/ wpc'[d] \notin Block \cup {"after", "eof", "shutdown", "shutting"} /\ ~ended[d]
        PROVE  End(d)'
    BY ZenonT(60), <1>1, <2>0, <2>3 DEF End, Block
  <2>4. CASE CheckContext(d)
    <3>1. wpc'[d] \in {"send", "poll", "read"}
      BY ZenonT(60), <2>1, <2>2, <2>4 DEF CheckContext, FinishContext
    <3>. QED  BY ZenonT(60), <2>0, <2>3, <2>4, <3>1 DEF CheckContext, End, bufVars, streamVars,
                 Block
  <2>5. CASE Poll(d)
    <3>1. wpc'[d] \in {"send", "read"}
      BY ZenonT(60), <2>1, <2>2, <2>5 DEF Poll, FinishContext
    <3>. QED  BY ZenonT(60), <2>0, <2>3, <2>5, <3>1 DEF Poll, End, bufVars, streamVars, Block
  <2>6. CASE Read(d)
    <3>1. PICK r \in ReadResults(d) :
            /\ er' = [er EXCEPT ![d] = r[2]]
            /\ ended' = [ended EXCEPT ![d] = r[2] = "benign" /\ ~closed[Src(d)]]
            /\ Goto(d, IF r[1] = 0 THEN "after" ELSE IF cfg.dump THEN "dump" ELSE "wcheck")
      BY ZenonT(60), <2>6 DEF Read
    <3>2. wpc'[d] \in {"after", "dump", "wcheck"}
      BY Zenon, <2>1, <3>1
    <3>3. er'[d] = r[2] /\ ended'[d] = (r[2] = "benign" /\ ~closed[Src(d)])
      BY ZenonT(60), <2>0, <3>1
    <3>4. ~shut[Dst(d)] /\ shut' = shut
      BY ZenonT(60), <2>0, <2>6 DEF Read, End, streamVars
    <3>. QED  BY ZenonT(60), <1>1, <2>0, <3>2, <3>3, <3>4 DEF End, Block
  <2>7. CASE Dump(d)
    <3>1. wpc'[d] \in {"send", "wcheck"}
      BY ZenonT(60), <2>1, <2>2, <2>7 DEF Dump
    <3>. QED  BY ZenonT(60), <2>0, <2>3, <2>7, <3>1 DEF Dump, End, bufVars, streamVars, Block
  <2>8. CASE WriteCheck(d)
    <3>1. wpc'[d] \in {"send", "write"}
      BY ZenonT(60), <2>1, <2>2, <2>8 DEF WriteCheck, FinishContext
    <3>. QED  BY ZenonT(60), <2>0, <2>3, <2>8, <3>1 DEF WriteCheck, End, bufVars, streamVars, Block
  <2>9. CASE Write(d)
    <3>1. wpc'[d] \in {"send", "after", "wcheck", "wwait"}
      BY ZenonT(60), <2>1, <2>2, <2>9 DEF Write, AfterWrite
    <3>2. ended' = ended /\ er' = er /\ shut' = shut
      BY Zenon, <2>9 DEF Write, streamVars
    <3>3. wpc[d] = "write" /\ ~shut[Dst(d)]
      BY Zenon, <2>0, <2>9 DEF Write, End
    <3>. QED  BY Zenon, <2>0, <2>3, <3>1, <3>2, <3>3 DEF Block
  <2>10. CASE WaitWritable(d)
    <3>1. wpc'[d] \in {"send", "wcheck"}
      BY ZenonT(60), <2>1, <2>2, <2>10 DEF WaitWritable, FinishContext
    <3>. QED  BY ZenonT(60), <2>0, <2>3, <2>10, <3>1 DEF WaitWritable, End, bufVars, streamVars,
                 Block
  <2>11. CASE AfterRead(d)
    <3>1. \/ wpc'[d] = "check" /\ er[d] # "benign"
          \/ wpc'[d] = "send"
          \/ wpc'[d] = "eof" /\ er[d] = "benign"
      BY ZenonT(60), <2>1, <2>2, <2>11 DEF AfterRead, FinishContext
    <3>. QED  BY ZenonT(60), <2>0, <2>3, <2>11, <3>1 DEF AfterRead, End, bufVars, streamVars, Block
  <2>12. CASE SourceEOF(d)
    <3>1. wpc'[d] = "send" \/ (wpc'[d] = "shutdown" /\ ctxErr = "nil")
      <4>1. CASE ctxErr = "nil"
        BY ZenonT(60), <2>1, <2>12, <4>1 DEF SourceEOF
      <4>2. CASE ctxErr # "nil"
        <5>1. Finish(d, "EOF", "none")
          BY Zenon, <2>12, <4>2 DEF SourceEOF
        <5>. QED  BY Zenon, <2>0, <5>1 DEF Finish
      <4>. QED  BY Zenon, <4>1, <4>2
    <3>. QED  BY ZenonT(60), <2>0, <2>3, <2>12, <3>1 DEF SourceEOF, End, bufVars, streamVars, Block
  <2>13. CASE ShutdownLock(d)
    <3>1. wpc'[d] = "shutting"
      BY Zenon, <2>1, <2>13 DEF ShutdownLock
    <3>. QED  BY ZenonT(60), <2>0, <2>3, <2>13, <3>1 DEF ShutdownLock, End, bufVars, Block
  <2>14. CASE ShutdownWrite(d)
    <3>1. wpc'[d] = "send"
      BY Zenon, <2>2, <2>14 DEF ShutdownWrite
    <3>2. ended' = ended /\ start' = start /\ limit' = limit /\ er' = er
      BY ZenonT(60), <2>14 DEF ShutdownWrite, bufVars
    <3>3. ended[d] /\ start[d] = limit[d]
      BY ZenonT(60), <2>0, <2>14 DEF ShutdownWrite, End, Data, Empty
    <3>. QED  BY Zenon, <3>1, <3>2, <3>3 DEF End, Block
  <2>15. CASE SendResult(d)
    <3>1. wpc'[d] = "done"
      BY ZenonT(60), <2>1, <2>15 DEF SendResult
    <3>. QED  BY Zenon, <2>0, <2>15, <3>1 DEF SendResult, End, streamVars, Block
  <2>16. CASE ZeroCheck(d)
    <3>1. wpc'[d] \in {"send", "zread"}
      BY ZenonT(60), <2>1, <2>2, <2>16 DEF ZeroCheck, FinishContext
    <3>. QED  BY ZenonT(60), <2>0, <2>3, <2>16, <3>1 DEF ZeroCheck, End, bufVars, streamVars, Block
  <2>17. CASE ZeroRead(d)
    <3>1. \/ wpc'[d] \in {"zcheck", "zpcheck", "zpwait", "zwait", "send", "check"} /\ ended' = ended
          \/ wpc'[d] = "eof" /\ ended' = [ended EXCEPT ![d] = TRUE]
      BY ZenonT(60), <2>1, <2>2, <2>17 DEF ZeroRead
    <3>2. wpc[d] = "zread" /\ er' = er /\ shut' = shut /\ ~shut[Dst(d)] /\ ~ended[d]
      BY Zenon, <2>0, <2>17 DEF ZeroRead, End, streamVars, Block
    <3>. QED  BY ZenonT(60), <2>0, <3>1, <3>2 DEF End, Block
  <2>18. CASE ZeroWaitSource(d)
    <3>1. wpc'[d] \in {"zcheck", "send", "eof"}
      BY ZenonT(60), <2>1, <2>2, <2>18 DEF ZeroWaitSource, FinishContext
    <3>2. wpc[d] = "zwait" /\ er' = er /\ shut' = shut /\ ~shut[Dst(d)] /\ ended'[d] = (wpc'[d] = "eof")
      BY Zenon, <2>0, <2>18 DEF ZeroWaitSource, End, streamVars, bufVars
    <3>. QED  BY ZenonT(60), <2>0, <3>1, <3>2 DEF End, Block
  <2>19. CASE ZeroPumpCheck(d)
    <3>1. wpc'[d] \in {"send", "zpump"}
      BY ZenonT(60), <2>1, <2>2, <2>19 DEF ZeroPumpCheck, FinishContext
    <3>. QED  BY ZenonT(60), <2>0, <2>3, <2>19, <3>1 DEF ZeroPumpCheck, End, bufVars, streamVars,
                 Block
  <2>20. CASE ZeroPump(d)
    <3>1. wpc'[d] \in {"send", "zcheck", "zpcheck", "zpwait"}
      BY ZenonT(60), <2>1, <2>2, <2>20 DEF ZeroPump
    <3>2. wpc[d] = "zpump" /\ er' = er /\ shut' = shut /\ ~shut[Dst(d)] /\ ended' = ended
      BY Zenon, <2>0, <2>20 DEF ZeroPump, End, streamVars
    <3>. QED  BY ZenonT(60), <2>0, <2>3, <3>1, <3>2 DEF End, Block
  <2>21. CASE ZeroWaitDestination(d)
    <3>1. wpc'[d] \in {"send", "zcheck", "zpcheck"}
      BY ZenonT(60), <2>1, <2>2, <2>21 DEF ZeroWaitDestination, FinishContext
    <3>. QED  BY ZenonT(60), <2>0, <2>3, <2>21, <3>1 DEF ZeroWaitDestination, End, bufVars,
                 streamVars, Block
  <2>. QED
    BY Zenon, <2>4, <2>5, <2>6, <2>7, <2>8, <2>9, <2>10, <2>11, <2>12, <2>13, <2>14, <2>15,
       <2>16, <2>17,
       <2>18, <2>19, <2>20, <2>21 DEF Worker
<1>. QED  BY Zenon, <1>1, <1>2, <1>3, <1>4 DEF EndInv

(***************************************************************************)
(* MutexInv.                                                                *)
(***************************************************************************)
LEMMA WorkerMutex ==
  ASSUME Types, MutexInv, NEW d \in Dir, Worker(d)
  PROVE  MutexInv'
<1>1. cpc' = cpc /\ cside' = cside
  BY Zenon, WorkerMoves DEF WorkerFrame, closerVars
<1>2. closed' = closed
  BY ZenonT(60) DEF Worker, CheckContext, Poll, Read, Dump, WriteCheck, Write, WaitWritable,
     AfterRead,
         SourceEOF, ShutdownLock, ShutdownWrite, SendResult, ZeroCheck, ZeroRead, ZeroWaitSource,
         ZeroPumpCheck, ZeroPump, ZeroWaitDestination, streamVars
<1>3. /\ \A e \in Dir : e # d => wpc'[e] = wpc[e]
      /\ \A e \in Dir : Dst(e) \in Side /\ Src(e) \in Side /\ Src(e) # Dst(e) /\ e # "free" /\ e # "closer"
      /\ \A e \in Dir : e # d => Dst(e) = Src(d) /\ Src(e) = Dst(d)
      /\ mu \in [Side -> {"free", "closer"} \cup Dir]
  BY Zenon, WorkerLocal DEF Types, StreamTypes, Dst, Src, Dir, Side
<1>4. CASE ShutdownLock(d)
  <2>1. wpc[d] = "shutdown" /\ wpc'[d] = "shutting" /\ mu[Dst(d)] = "free" /\ mu'[Dst(d)] = d
        /\ mu'[Src(d)] = mu[Src(d)]
    BY Zenon, <1>3, <1>4 DEF ShutdownLock, Goto, Types, PointTypes
  <2>2. \A s \in Side : s = Dst(d) \/ s = Src(d)
    BY Zenon DEF Side, Dst, Src
  <2>3. ASSUME NEW e \in Dir
        PROVE  (wpc'[e] = "shutting" <=> mu'[Dst(e)] = e) /\ mu'[Src(e)] # e
    <3>1. CASE e = d
      BY <1>3, <2>1, <3>1 DEF MutexInv
    <3>2. CASE e # d
      BY <1>3, <2>1, <3>2 DEF MutexInv
    <3>. QED  BY Zenon, <3>1, <3>2
  <2>4. ASSUME NEW s \in Side
        PROVE  mu'[s] = "closer" <=> mu[s] = "closer"
    BY <1>3, <2>1, <2>2 DEF MutexInv
  <2>. QED  BY Zenon, <1>1, <1>2, <2>3, <2>4 DEF MutexInv
<1>5. CASE ShutdownWrite(d)
  <2>1. wpc[d] = "shutting" /\ wpc'[d] = "send" /\ mu'[Dst(d)] = "free"
        /\ mu'[Src(d)] = mu[Src(d)]
    BY Zenon, <1>3, <1>5 DEF ShutdownWrite, Finish, Types, PointTypes
  <2>2. \A s \in Side : s = Dst(d) \/ s = Src(d)
    BY DEF Side, Dst, Src
  <2>3. ASSUME NEW e \in Dir
        PROVE  (wpc'[e] = "shutting" <=> mu'[Dst(e)] = e) /\ mu'[Src(e)] # e
    <3>1. CASE e = d
      BY <1>3, <2>1, <3>1 DEF MutexInv
    <3>2. CASE e # d
      BY <1>3, <2>1, <3>2 DEF MutexInv
    <3>. QED  BY Zenon, <3>1, <3>2
  <2>4. ASSUME NEW s \in Side
        PROVE  mu'[s] = "closer" <=> mu[s] = "closer"
    BY <1>3, <2>1, <2>2 DEF MutexInv
  <2>. QED  BY Zenon, <1>1, <1>2, <2>3, <2>4 DEF MutexInv
<1>6. CASE ~ShutdownLock(d) /\ ~ShutdownWrite(d)
  <2>1. mu' = mu
    BY ZenonT(60), <1>6 DEF Worker, CheckContext, Poll, Read, Dump, WriteCheck, Write,
       WaitWritable, AfterRead,
         SourceEOF, SendResult, ZeroCheck, ZeroRead, ZeroWaitSource,
         ZeroPumpCheck, ZeroPump, ZeroWaitDestination, streamVars
  <2>2. ASSUME NEW p, p # "shutting", Goto(d, p) PROVE wpc'[d] # "shutting"
    BY Zenon, <2>2 DEF Goto, Types, PointTypes
  <2>3. ASSUME NEW c, NEW r, Finish(d, c, r) PROVE wpc'[d] # "shutting"
    BY Zenon, <2>3 DEF Finish, Types, PointTypes
  <2>4. wpc[d] # "shutting"
    BY ZenonT(60), <1>6 DEF Worker, CheckContext, Poll, Read, Dump, WriteCheck, Write,
       WaitWritable, AfterRead,
         SourceEOF, SendResult, ZeroCheck, ZeroRead, ZeroWaitSource,
         ZeroPumpCheck, ZeroPump, ZeroWaitDestination
  <2>5. wpc'[d] # "shutting"
    BY ZenonT(60), <1>6, <2>2, <2>3
    DEF Worker, CheckContext, Poll, Read, Dump, WriteCheck, Write, AfterWrite, WaitWritable, AfterRead,
         SourceEOF, SendResult, ZeroCheck, ZeroRead, ZeroWaitSource,
         ZeroPumpCheck, ZeroPump, ZeroWaitDestination, FinishContext
  <2>. QED  BY <1>1, <1>2, <1>3, <2>1, <2>4, <2>5 DEF MutexInv
<1>. QED  BY Zenon, <1>4, <1>5, <1>6

(* The close goroutine and the poke's timer.                                  *)
LEMMA CloserInv ==
  ASSUME IInv, Closer \/ \E s \in Side : PokeClear(s)
  PROVE  PipeInv' /\ DataInv' /\ EndInv' /\ MutexInv' /\ MainInv'
<1> USE DEF IInv
<1>0. CloserFrame
  BY Zenon, CloserTypes
<1>1. /\ UNCHANGED <<cfg, ended, ctxErr, wpc, er, start, limit, out, bytes, main, finished, stats, results>>
      /\ shut' = shut
  BY ZenonT(60), <1>0 DEF CloserFrame, ctxVars, bufVars, outVars, mainVars, Closer, CloserPoke,
     CloserLock,
     CloserClose, PokeClear
<1>2. PipeInv' /\ DataInv'
  BY ZenonT(60), <1>1 DEF PipeInv, DataInv, Data, Sent
<1>3. /\ mu \in [Side -> {"free", "closer"} \cup Dir] /\ closed \in [Side -> BOOLEAN]
      /\ cpc \in {"poke", "close", "closing", "done"} /\ cside \in Side
      /\ \A e \in Dir : e # "free" /\ e # "closer" /\ Dst(e) \in Side /\ Src(e) \in Side
  BY Zenon DEF Types, StreamTypes, Dir, Dst, Src, Side
<1>4. EndInv'
  <2>0. ctxErr # "nil" \/ (cpc' = cpc /\ cside' = cside /\ closed' = closed)
    <3>1. CASE CloserPoke
      BY Zenon, <3>1 DEF CloserPoke
    <3>2. CASE CloserLock \/ CloserClose
      <4>1. cpc # "poke"
        BY Zenon, <3>2 DEF CloserLock, CloserClose
      <4>. QED  BY ZenonT(60), <4>1 DEF EndInv
    <3>3. ASSUME NEW s \in Side, PokeClear(s)
          PROVE  cpc' = cpc /\ cside' = cside /\ closed' = closed
      BY Zenon, <3>3 DEF PokeClear, closerVars
    <3>. QED  BY ZenonT(60), <3>1, <3>2, <3>3 DEF Closer
  <2>1. \A d \in Dir : End(d)'
    BY ZenonT(60), <1>1 DEF EndInv, End
  <2>2. (cpc' # "poke" \/ cside' = "right") => ctxErr' # "nil"
    BY ZenonT(60), <1>1, <2>0 DEF EndInv
  <2>3. \A s \in Side : closed'[s] => ctxErr' # "nil"
    BY ZenonT(60), <1>1, <2>0 DEF EndInv
  <2>. QED  BY ZenonT(60), <2>1, <2>2, <2>3 DEF EndInv
<1>5. MutexInv'
  <2>1. CASE CloserPoke
    <3>1. cpc = "poke" /\ mu' = mu /\ closed' = closed
      BY Zenon, <2>1 DEF CloserPoke
    <3>2. (cpc' = "poke" /\ cside' = "right") \/ (cpc' = "close" /\ cside' = "left")
      BY Zenon, <2>1 DEF CloserPoke, NextSide
    <3>3. \A s \in Side : mu'[s] = "closer" <=> cpc' = "closing" /\ cside' = s
      BY Zenon, <3>1, <3>2 DEF MutexInv
    <3>4. wpc' = wpc
      BY Zenon, <1>1
    <3>. QED  BY Zenon, <3>1, <3>2, <3>3, <3>4 DEF MutexInv
  <2>2. CASE CloserLock
    <3>1. mu[cside] = "free" /\ mu'[cside] = "closer" /\ \A s \in Side : s # cside => mu'[s] = mu[s]
      BY Zenon, <1>3, <2>2 DEF CloserLock
    <3>2. cpc = "close" /\ cpc' = "closing" /\ cside' = cside /\ closed' = closed
      BY Zenon, <2>2 DEF CloserLock
    <3>3. \A e \in Dir : (wpc'[e] = "shutting" <=> mu'[Dst(e)] = e) /\ mu'[Src(e)] # e
      BY <1>1, <1>3, <3>1 DEF MutexInv
    <3>4. \A s \in Side : mu'[s] = "closer" <=> cpc' = "closing" /\ cside' = s
      BY <1>3, <3>1, <3>2 DEF MutexInv
    <3>. QED  BY Zenon, <3>2, <3>3, <3>4 DEF MutexInv
  <2>3. CASE CloserClose
    <3>1. mu'[cside] = "free" /\ \A s \in Side : s # cside => mu'[s] = mu[s]
      BY Zenon, <1>3, <2>3 DEF CloserClose
    <3>2. closed'[cside] /\ \A s \in Side : closed[s] => closed'[s]
      BY Zenon, <1>3, <2>3 DEF CloserClose
    <3>3. \/ cside = "left" /\ cpc' = "close" /\ cside' = "right"
          \/ cside = "right" /\ cpc' = "done" /\ cside' = "left"
      BY Zenon, <1>3, <2>3 DEF CloserClose, NextSide, Side
    <3>4. cpc = "closing" /\ mu[cside] = "closer"
      BY Zenon, <1>3, <2>3 DEF CloserClose, MutexInv
    <3>5. \A e \in Dir : (wpc'[e] = "shutting" <=> mu'[Dst(e)] = e) /\ mu'[Src(e)] # e
      BY <1>1, <1>3, <3>1, <3>4 DEF MutexInv
    <3>6. \A s \in Side : mu'[s] = "closer" <=> cpc' = "closing" /\ cside' = s
      BY ZenonT(60), <1>3, <3>1, <3>3, <3>4 DEF MutexInv
    <3>7. /\ cpc' = "done" => closed'["left"] /\ closed'["right"]
          /\ cpc' \in {"close", "closing"} /\ cside' = "right" => closed'["left"]
      BY Zenon, <1>3, <3>2, <3>3, <3>4 DEF MutexInv, Side
    <3>. QED  BY Zenon, <3>5, <3>6, <3>7 DEF MutexInv
  <2>4. ASSUME NEW s \in Side, PokeClear(s) PROVE MutexInv'
    BY Zenon, <1>1, <2>4 DEF PokeClear, MutexInv, closerVars
  <2>. QED  BY Zenon, <2>1, <2>2, <2>3, <2>4 DEF Closer
<1>6. MainInv'
  <2>1. cpc = "done" => cpc' = "done"
    BY Zenon DEF Closer, CloserPoke, CloserLock, CloserClose, PokeClear, closerVars
  <2>. QED  BY Zenon, <1>1, <2>1 DEF MainInv, Done, nDirs, Count
<1>. QED  BY Zenon, <1>2, <1>4, <1>5, <1>6

(***************************************************************************)
(* MainInv.                                                                 *)
(***************************************************************************)
LEMMA WorkerMain ==
  ASSUME Types, MainInv, NEW d \in cfg.dirs, d \in Dir, Worker(d)
  PROVE  MainInv'
<1>1. UNCHANGED <<cfg, main, finished, stats, cpc>>
  BY ZenonT(60), WorkerMoves DEF WorkerFrame, mainVars, closerVars
<1>2. wpc[d] # "done" /\ wpc[d] # "off"
  BY ZenonT(60) DEF Worker, CheckContext, Poll, Read, Dump, WriteCheck, Write, WaitWritable,
     AfterRead,
         SourceEOF, ShutdownLock, ShutdownWrite, SendResult, ZeroCheck, ZeroRead, ZeroWaitSource,
         ZeroPumpCheck, ZeroPump, ZeroWaitDestination
<1>3. main \notin {"closing", "returned"}
  BY Zenon, <1>2 DEF MainInv
<1>4. \A e \in Dir : e # d => wpc'[e] = wpc[e]
  BY Zenon, WorkerLocal
<1>5. wpc'[d] # "off"
  <2>1. \/ \E p \in WorkerPoint \ {"off"} : Goto(d, p)
        \/ \E c \in Class, r \in {"none", "io", "deadline", "poke"} : Finish(d, c, r)
    BY Zenon, WorkerMoves
  <2>. QED  BY Zenon, <2>1 DEF Goto, Finish, Types, PointTypes
<1>6. \/ wpc'[d] = "done" /\ results' = Append(results, d)
      \/ wpc'[d] # "done" /\ results' = results
  <2>1. CASE SendResult(d)
    BY Zenon, <2>1 DEF SendResult, Goto, Types, PointTypes
  <2>2. CASE ~SendResult(d)
    <3>1. ASSUME NEW p, p # "done", Goto(d, p) PROVE wpc'[d] # "done"
      BY Zenon, <3>1 DEF Goto, Types, PointTypes
    <3>2. ASSUME NEW c, NEW r, Finish(d, c, r) PROVE wpc'[d] # "done"
      BY Zenon, <3>2 DEF Finish, Types, PointTypes
    <3>3. results' = results
      BY ZenonT(60), <2>2 DEF Worker, CheckContext, Poll, Read, Dump, WriteCheck, Write,
         WaitWritable, AfterRead,
         SourceEOF, ShutdownLock, ShutdownWrite, ZeroCheck, ZeroRead, ZeroWaitSource,
         ZeroPumpCheck, ZeroPump, ZeroWaitDestination
    <3>4. wpc'[d] # "done"
      BY ZenonT(60), <2>2, <3>1, <3>2
      DEF Worker, CheckContext, Poll, Read, Dump, WriteCheck, Write, AfterWrite, WaitWritable, AfterRead,
         SourceEOF, ShutdownLock, ShutdownWrite, ZeroCheck, ZeroRead, ZeroWaitSource,
         ZeroPumpCheck, ZeroPump, ZeroWaitDestination, FinishContext
    <3>. QED  BY Zenon, <3>3, <3>4
  <2>. QED  BY Zenon, <2>1, <2>2
<1>7. finished' + Len(results') = Done("LR")' + Done("RL")'
  <2>1. finished + Len(results) = Done("LR") + Done("RL") /\ results \in Seq(Dir)
        /\ finished \in Nat /\ Len(results) \in Nat
    BY DEF MainInv, Types, MainTypes
  <2>2. CASE wpc'[d] = "done" /\ results' = Append(results, d)
    <3>1. Len(results') = Len(results) + 1
      BY <2>1, <2>2
    <3>2. Done("LR")' + Done("RL")' = Done("LR") + Done("RL") + 1
      BY <1>2, <1>4, <2>2 DEF Done, Dir
    <3>. QED  BY <1>1, <2>1, <3>1, <3>2
  <2>3. CASE wpc'[d] # "done" /\ results' = results
    <3>2. Done("LR")' + Done("RL")' = Done("LR") + Done("RL")
      BY Zenon, <1>2, <1>4, <2>3 DEF Done, Dir
    <3>. QED  BY Zenon, <1>1, <2>1, <2>3, <3>2
  <2>. QED  BY Zenon, <1>6, <2>2, <2>3
<1>8. \A e \in Dir : wpc'[e] = "off" <=> e \notin cfg'.dirs
  BY Zenon, <1>1, <1>2, <1>4, <1>5 DEF MainInv
<1>. QED  BY Zenon, <1>1, <1>3, <1>7, <1>8 DEF MainInv, nDirs, Count

(* The caller, the context, the idle watcher and the linger timer.            *)
LEMMA CallerInv ==
  ASSUME IInv, Caller
  PROVE  PipeInv' /\ DataInv' /\ EndInv' /\ MutexInv' /\ MainInv'
<1> USE DEF IInv
<1>0. CallerFrame
  BY Zenon, CallerTypes
<1>1. UNCHANGED <<cfg, ended, wpc, er, start, limit, out, bytes, closed, mu, shut, cpc, cside>>
  BY Zenon, <1>0 DEF CallerFrame, bufVars, outVars, streamVars, closerVars
<1>2. ctxErr # "nil" => ctxErr' # "nil"
  BY ZenonT(60) DEF Caller, ParentDone, IdleExpire, IdleCancel, IdleStop, LingerFire, Main,
     SelectResult,
         SelectLinger, SelectDone, Drain, WaitWorkers, Return, Cancel, ctxVars
<1>3. PipeInv' /\ DataInv'
  BY ZenonT(60), <1>1 DEF PipeInv, DataInv, Data, Sent
<1>4. EndInv'
  BY ZenonT(60), <1>1, <1>2 DEF EndInv, End
<1>5. MutexInv'
  BY Zenon, <1>1 DEF MutexInv
<1>6. MainInv'
  <2>0. /\ finished + Len(results) = Done("LR") + Done("RL") /\ results \in Seq(Dir)
        /\ finished \in Nat /\ Len(results) \in Nat
    BY DEF MainInv, Types, MainTypes
  <2>1. ASSUME NEW live, Accept(live)
        PROVE  finished' = finished + 1 /\ finished' + Len(results') = finished + Len(results)
    <3>1. Len(Tail(results)) = Len(results) - 1
      BY <2>0, <2>1 DEF Accept
    <3>2. finished' = finished + 1 /\ results' = Tail(results)
      BY Zenon, <2>1 DEF Accept
    <3>3. Len(results') = Len(results) - 1
      BY Zenon, <3>1, <3>2
    <3>4. ASSUME NEW a \in Nat, NEW b \in Nat PROVE (a + 1) + (b - 1) = a + b
      OBVIOUS
    <3>5. (finished + 1) + (Len(results) - 1) = finished + Len(results)
      BY Zenon, <2>0, <3>4
    <3>. QED  BY Zenon, <3>2, <3>3, <3>5
  <2> USE DEF MainInv, Done, nDirs, Count
  <2>2. CASE SelectResult  BY ZenonT(60), <1>1, <2>0, <2>1, <2>2 DEF SelectResult
  <2>3. CASE Drain         BY ZenonT(60), <1>1, <2>0, <2>1, <2>3 DEF Drain
  <2>4. CASE SelectLinger  BY ZenonT(60), <1>1, <2>0, <2>4 DEF SelectLinger
  <2>5. CASE SelectDone    BY Zenon, <1>1, <2>0, <2>5 DEF SelectDone
  <2>6. CASE WaitWorkers   BY Zenon, <1>1, <2>0, <2>6 DEF WaitWorkers
  <2>7. CASE Return        BY Zenon, <1>1, <2>0, <2>7 DEF Return
  <2>8. CASE UNCHANGED <<main, finished, results, stats>>  BY Zenon, <1>1, <2>8
  <2>. QED
    BY ZenonT(60), <2>2, <2>3, <2>4, <2>5, <2>6, <2>7, <2>8
    DEF Caller, Main, ParentDone, IdleExpire, IdleCancel, IdleStop, IdleFrame, LingerFire, mainVars
<1>. QED  BY Zenon, <1>3, <1>4, <1>5, <1>6

LEMMA InitIInv == Init => IInv
<1> SUFFICES ASSUME Init PROVE IInv
  OBVIOUS
<1>1. Types
  BY Zenon, InitTypes
<1>2. PipeInv
  BY Zenon DEF Init, PipeInv
<1>3. DataInv
  BY DEF Init, DataInv, Data, Sent
<1>4. EndInv
  BY Zenon DEF Init, EndInv, End, Dst, Side, Dir, Block
<1>5. MutexInv
  BY Zenon DEF Init, MutexInv, Dst, Src, Side, Dir
<1>6. MainInv
  <2>1. Len(results) = 0 /\ finished = 0
    BY Zenon DEF Init
  <2>. QED  BY Zenon, <2>1 DEF Init, MainInv, Done, Dir
<1>. QED  BY Zenon, <1>1, <1>2, <1>3, <1>4, <1>5, <1>6 DEF IInv

LEMMA NextIInv == IInv /\ [Next]_vars => IInv'
<1> SUFFICES ASSUME IInv, [Next]_vars PROVE IInv'
  OBVIOUS
<1> USE DEF IInv
<1>1. Types'
  BY Zenon, NextTypes
<1>2. ASSUME NEW d \in cfg.dirs, Worker(d)
      PROVE  PipeInv' /\ DataInv' /\ EndInv' /\ MutexInv' /\ MainInv'
  <2>1. d \in Dir
    BY Zenon, TransferAssumption DEF Types, ContextTypes, Config
  <2>. QED  BY ZenonT(60), <1>2, <2>1, WorkerPipe, WorkerData, WorkerEnd, WorkerMutex, WorkerMain
<1>3. CASE UNCHANGED vars
  BY ZenonT(60), <1>1, <1>3 DEF vars, PipeInv, DataInv, Data, Sent, EndInv, End, MutexInv,
     MainInv, Done, nDirs, Count,
     ctxVars, bufVars, outVars, endVars, streamVars, mainVars, closerVars, idleVars
<1>. QED  BY ZenonT(60), <1>1, <1>2, <1>3, CloserInv, CallerInv DEF Next, Caller, Returned

LEMMA InvariantIInv == Spec => []IInv
BY InitIInv, NextIInv, PTL DEF Spec

-----------------------------------------------------------------------------
(* Every state of Transfer is well typed, and the results channel never holds *)
(* more than its two outcomes: a worker's send (relay.go:428-434) never waits.*)
THEOREM TypeCorrect == Spec => []TypeOK
<1>1. IInv => TypeOK
  <2> SUFFICES ASSUME IInv PROVE TypeOK
    OBVIOUS
  <2>1. Types
    BY Zenon DEF IInv
  <2>2. finished \in Nat /\ Len(results) \in Nat
    BY <2>1 DEF Types, MainTypes
  <2>3. finished + Len(results) <= 2
    BY <2>2 DEF IInv, MainInv, Done
  <2>4. Len(results) <= 2
    BY <2>2, <2>3
  <2>. QED  BY Zenon, <2>1, <2>4 DEF TypeOK, Types
<1>. QED  BY <1>1, InvariantIInv, PTL

(* The bytes written in a direction are the bytes of its source, in order,    *)
(* for any buffer size and any number of bytes.                               *)
THEOREM PrefixCorrect == Spec => []ExactPrefix
<1>1. IInv => ExactPrefix
  <2> SUFFICES ASSUME IInv, NEW d \in Dir, NEW i \in DOMAIN out[d] PROVE out[d][i] = i
    BY Zenon DEF ExactPrefix
  <2>1. out[d] \in Seq(Nat) /\ \A j \in 1 .. Len(out[d]) : out[d][j] = j
    BY Zenon DEF IInv, Types, CountTypes, DataInv, Data, Sent
  <2>. QED  BY <2>1
<1>. QED  BY <1>1, InvariantIInv, PTL

(* A destination is half-closed only at its source's own end of file, with    *)
(* every byte that was read from the source written.                          *)
THEOREM HalfCloseCorrect == Spec => []HalfCloseComplete
<1>1. IInv => HalfCloseComplete
  BY ZenonT(60) DEF IInv, HalfCloseComplete, EndInv, End, DataInv, Data, Sent
<1>. QED  BY <1>1, InvariantIInv, PTL

(* Close and ShutdownWrite of one stream exclude each other.                  *)
THEOREM CloseShutdownCorrect == Spec => []CloseShutdownExclusive
<1>1. IInv => CloseShutdownExclusive
  <2> SUFFICES ASSUME IInv, NEW d \in Dir, wpc[d] = "shutting", cpc = "closing", cside = Dst(d)
               PROVE  FALSE
    BY Zenon DEF CloseShutdownExclusive
  <2>1. Dst(d) \in Side /\ d # "closer"
    BY Zenon DEF Dst, Side, Dir
  <2>. QED  BY ZenonT(60), <2>1 DEF IInv, MutexInv
<1>. QED  BY <1>1, InvariantIInv, PTL

(* Transfer returns only after both workers, with an empty channel, closed    *)
(* streams and free mutexes.                                                  *)
THEOREM ReturnCorrect == Spec => []ReturnQuiescent
<1>1. IInv => ReturnQuiescent
  <2> SUFFICES ASSUME IInv, main = "returned"
               PROVE  /\ \A d \in cfg.dirs : wpc[d] = "done"
                      /\ results = <<>>
                      /\ \A s \in Side : closed[s] /\ mu[s] = "free"
    BY Zenon DEF ReturnQuiescent
  <2>1. (\A d \in cfg.dirs : wpc[d] = "done") /\ cpc = "done" /\ finished = nDirs
    BY Zenon DEF IInv, MainInv
  <2>2. \A s \in Side : closed[s]
    BY Zenon, <2>1 DEF IInv, MutexInv, Side
  <2>3. \A s \in Side : mu[s] = "free"
    <3>1. \A d \in Dir : wpc[d] \in {"off", "done"}
      BY Zenon, <2>1 DEF IInv, MainInv
    <3>2. \A d \in Dir : mu[Dst(d)] # d /\ mu[Src(d)] # d
      BY Zenon, <3>1 DEF IInv, MutexInv
    <3>3. \A s \in Side : mu[s] # "closer" /\ mu[s] \in {"free", "closer", "LR", "RL"}
      BY Zenon, <2>1 DEF IInv, MutexInv, Types, StreamTypes
    <3>. QED  BY Zenon, <3>2, <3>3 DEF Dst, Src, Dir, Side
  <2>4. results = <<>>
    <3>1. finished \in Nat /\ Len(results) \in Nat /\ results \in Seq(Dir)
          /\ finished + Len(results) = Done("LR") + Done("RL")
      BY DEF IInv, Types, MainTypes, MainInv
    <3>2. cfg.dirs \subseteq Dir /\ \A d \in Dir : wpc[d] = "off" <=> d \notin cfg.dirs
      BY Zenon, TransferAssumption DEF IInv, Types, ContextTypes, MainInv, Config
    <3>3. nDirs = Done("LR") + Done("RL")
      BY Zenon, <2>1, <3>2 DEF nDirs, Count, Done, Dir
    <3>4. Len(results) = 0
      BY <2>1, <3>1, <3>3
    <3>. QED  BY <3>1, <3>4
  <2>. QED  BY Zenon, <2>1, <2>2, <2>3, <2>4
<1>. QED  BY <1>1, InvariantIInv, PTL

(* The statistics handed to OnStats count exactly the delivered bytes.        *)
THEOREM StatsCorrect == Spec => []StatsFinal
<1>1. IInv => StatsFinal
  BY Zenon DEF IInv, StatsFinal, MainInv, DataInv, Data, Sent
<1>. QED  BY <1>1, InvariantIInv, PTL

(* No stream and no counter changes after Transfer has returned.              *)
THEOREM ReturnIsFinal == Spec => NothingAfterReturn
<1> DEFINE P == main = "returned" => UNCHANGED <<out, bytes, blocks, shut, closed, mu, eofCalls>>
<1>1. IInv /\ [Next]_vars => [P]_vars
  <2> SUFFICES ASSUME IInv, Next, main = "returned"
               PROVE  UNCHANGED <<out, bytes, blocks, shut, closed, mu, eofCalls>>
    OBVIOUS
  <2>1. ASSUME NEW d \in cfg.dirs, Worker(d) PROVE FALSE
    <3>1. wpc[d] = "done"
      BY Zenon, <2>1 DEF IInv, MainInv
    <3>. QED
      BY ZenonT(60), <2>1, <3>1 DEF Worker, CheckContext, Poll, Read, Dump, WriteCheck, Write,
         WaitWritable, AfterRead,
         SourceEOF, ShutdownLock, ShutdownWrite, SendResult, ZeroCheck, ZeroRead, ZeroWaitSource,
         ZeroPumpCheck, ZeroPump, ZeroWaitDestination
  <2>2. ASSUME Closer PROVE FALSE
    BY Zenon, <2>2 DEF Closer, CloserPoke, CloserLock, CloserClose, IInv, MainInv
  <2>3. ASSUME NEW s \in Side, PokeClear(s)
        PROVE  UNCHANGED <<out, bytes, blocks, shut, closed, mu, eofCalls>>
    BY Zenon, <2>3 DEF PokeClear, CloserFrame, outVars, endVars
  <2>4. ASSUME Caller PROVE UNCHANGED <<out, bytes, blocks, shut, closed, mu, eofCalls>>
    BY Zenon, <2>4, CallerTypes DEF IInv, CallerFrame, outVars, endVars, streamVars
  <2>5. ASSUME UNCHANGED vars PROVE UNCHANGED <<out, bytes, blocks, shut, closed, mu, eofCalls>>
    BY Zenon, <2>5 DEF vars, outVars, endVars, streamVars
  <2>. QED  BY Zenon, <2>1, <2>2, <2>3, <2>4, <2>5 DEF Next, Caller, Returned
<1>. QED  BY <1>1, InvariantIInv, PTL DEF Spec, NothingAfterReturn

-----------------------------------------------------------------------------
(* The effect of a worker step on what ByteRelay sees.                        *)
LEMMA WorkerEffect ==
  ASSUME IInv, IInv', NEW d \in Dir, Worker(d), ~ShutdownWrite(d)
  PROVE  /\ limit' = [limit EXCEPT ![d] = limit'[d]] /\ limit'[d] >= limit[d]
         /\ ended[d] => limit'[d] = limit[d]
         /\ out' = [out EXCEPT ![d] = out'[d]] /\ Len(out'[d]) >= Len(out[d])
         /\ ended' \in {ended, [ended EXCEPT ![d] = TRUE]}
         /\ shut' = shut
<1>0. /\ limit \in [Dir -> Nat] /\ start \in [Dir -> Nat] /\ out \in [Dir -> Seq(Nat)]
      /\ limit' \in [Dir -> Nat] /\ start' \in [Dir -> Nat] /\ out' \in [Dir -> Seq(Nat)]
      /\ ended \in [Dir -> BOOLEAN] /\ ended' \in [Dir -> BOOLEAN] /\ Types
      /\ End(d) /\ Data(d) /\ Data(d)'
  BY ZenonT(60) DEF IInv, Types, BufferTypes, CountTypes, EndInv, DataInv
<1>1. \A e \in Dir : e # d => limit'[e] = limit[e] /\ out'[e] = out[e] /\ ended'[e] = ended[e]
  BY ZenonT(60), <1>0, WorkerLocal
<1>2. limit' = [limit EXCEPT ![d] = limit'[d]] /\ out' = [out EXCEPT ![d] = out'[d]]
  BY Zenon, <1>0, <1>1
<1>3. shut' = shut
  BY ZenonT(60) DEF Worker, CheckContext, Poll, Read, Dump, WriteCheck, Write, WaitWritable,
     AfterRead,
         SourceEOF, ShutdownLock, SendResult, ZeroCheck, ZeroRead, ZeroWaitSource,
         ZeroPumpCheck, ZeroPump, ZeroWaitDestination, streamVars
<1>4. limit'[d] >= limit[d] /\ (ended[d] => limit'[d] = limit[d])
  <2>1. CASE Read(d)
    <3>1. PICK r \in ReadResults(d) : limit' = [limit EXCEPT ![d] = @ + r[1]]
      BY ZenonT(60), <2>1 DEF Read
    <3>2. r[1] \in Nat
      BY Zenon, ReadCount
    <3>3. ~ended[d]
      BY ZenonT(60), <1>0, <2>1 DEF Read, End, Block
    <3>. QED  BY <1>0, <3>1, <3>2, <3>3
  <2>2. CASE ZeroRead(d)
    <3>1. ~ended[d]
      BY ZenonT(60), <1>0, <2>2 DEF ZeroRead, End, Block
    <3>2. limit' = limit \/ \E n \in 1 .. Unread(d) : limit' = [limit EXCEPT ![d] = @ + n]
      BY ZenonT(60), <2>2 DEF ZeroRead
    <3>. QED  BY <1>0, <3>1, <3>2
  <2>3. CASE ~Read(d) /\ ~ZeroRead(d)
    <3>1. limit' = limit
      BY ZenonT(60), <2>3 DEF Worker, CheckContext, Poll, Dump, WriteCheck, Write, WaitWritable,
         AfterRead,
         SourceEOF, ShutdownLock, SendResult, ZeroCheck, ZeroWaitSource,
         ZeroPumpCheck, ZeroPump, ZeroWaitDestination, bufVars
    <3>. QED  BY <1>0, <3>1
  <2>. QED  BY ZenonT(60), <2>1, <2>2, <2>3
<1>5. Len(out'[d]) >= Len(out[d])
  <2>1. CASE \E n \in Nat : Deliver(d, n)
    <3>1. PICK n \in Nat : Deliver(d, n)
      BY Zenon, <2>1
    <3>2. start'[d] = start[d] + n
      BY Zenon, <1>0, <3>1 DEF Deliver
    <3>3. start'[d] = Len(out'[d]) /\ start[d] = Len(out[d])
      BY ZenonT(60), <1>0 DEF Data, Sent
    <3>. QED  BY <1>0, <3>2, <3>3
  <2>2. CASE out' = out
    <3>1. Len(out[d]) \in Nat
      BY <1>0
    <3>. QED  BY <2>2, <3>1
  <2>3. CASE Write(d)
    <3>1. PICK r \in WriteResults(d) : Deliver(d, r[1])
      BY Zenon, <2>3 DEF Write
    <3>2. r[1] \in Nat
      BY Zenon, <1>0, WriteCount
    <3>. QED  BY Zenon, <2>1, <3>1, <3>2
  <2>4. CASE ZeroRead(d)
    <3>1. out' = out \/ \E n \in 1 .. Unread(d) : Deliver(d, n)
      BY ZenonT(60), <2>4 DEF ZeroRead, outVars
    <3>. QED  BY <2>1, <2>2, <3>1
  <2>5. CASE ZeroPump(d)
    <3>1. out' = out \/ \E n \in 1 .. limit[d] - start[d] : Deliver(d, n)
      BY ZenonT(60), <2>5 DEF ZeroPump
    <3>. QED  BY <2>1, <2>2, <3>1
  <2>6. CASE ~Write(d) /\ ~ZeroRead(d) /\ ~ZeroPump(d)
    <3>1. out' = out
      BY ZenonT(60), <2>6 DEF Worker, CheckContext, Poll, Read, Dump, WriteCheck, WaitWritable,
         AfterRead,
         SourceEOF, ShutdownLock, SendResult, ZeroCheck, ZeroWaitSource,
         ZeroPumpCheck, ZeroWaitDestination, outVars
    <3>. QED  BY Zenon, <2>2, <3>1
  <2>. QED  BY Zenon, <2>3, <2>4, <2>5, <2>6
<1>6. ended' \in {ended, [ended EXCEPT ![d] = TRUE]}
  <2>1. ended[d] => ended'[d]
    <3>1. CASE Read(d) \/ ZeroRead(d) \/ ZeroWaitSource(d)
      BY ZenonT(60), <1>0, <3>1 DEF Read, ZeroRead, ZeroWaitSource, End, Block
    <3>2. CASE ~Read(d) /\ ~ZeroRead(d) /\ ~ZeroWaitSource(d)
      BY ZenonT(60), <3>2 DEF Worker, CheckContext, Poll, Dump, WriteCheck, Write, WaitWritable,
         AfterRead,
         SourceEOF, ShutdownLock, SendResult, ZeroCheck, ZeroPumpCheck, ZeroPump,
         ZeroWaitDestination
    <3>. QED  BY Zenon, <3>1, <3>2
  <2>2. CASE ended'[d] = ended[d]
    <3>1. ended' = ended
      BY <1>0, <1>1, <2>2
    <3>. QED  BY Zenon, <3>1
  <2>3. CASE ended'[d] # ended[d]
    <3>1. ended'[d] = TRUE
      BY Zenon, <1>0, <2>1, <2>3
    <3>2. ended' = [ended EXCEPT ![d] = TRUE]
      BY Zenon, <1>0, <1>1, <3>1
    <3>. QED  BY Zenon, <3>2
  <2>. QED  BY Zenon, <2>2, <2>3
<1>. QED  BY Zenon, <1>2, <1>3, <1>4, <1>5, <1>6

(* Transfer implements ByteRelay: whatever the workers, the close goroutine,  *)
(* the timers and the caller do, its streams see the contract's behaviour.    *)
THEOREM RelayRefinement == Spec => ImplementsByteRelay
<1>1. Init => Contract!Init
  BY DEF Init, Contract!Init, Dst, Side, Dir
<1>2. IInv /\ IInv' /\ [Next]_vars => [Contract!Next]_(Contract!vars)
  <2> SUFFICES ASSUME IInv, IInv', [Next]_vars
               PROVE  Contract!Next \/ UNCHANGED Contract!vars
    BY Zenon DEF Contract!vars
  <2>1. ASSUME NEW d \in cfg.dirs, Worker(d)
        PROVE  Contract!Next \/ UNCHANGED Contract!vars
    <3>0. d \in Dir /\ Types /\ Dst(d) \in Side
      BY Zenon, TransferAssumption DEF IInv, Types, ContextTypes, Config, Dst, Side
    <3>1. main' = main
      BY Zenon, <2>1, <3>0, WorkerMoves DEF WorkerFrame, mainVars
    <3>2. main # "returned"
      <4>1. wpc[d] # "done"
        BY ZenonT(60), <2>1 DEF Worker, CheckContext, Poll, Read, Dump, WriteCheck, Write,
           WaitWritable, AfterRead,
           SourceEOF, ShutdownLock, ShutdownWrite, SendResult, ZeroCheck, ZeroRead, ZeroWaitSource,
           ZeroPumpCheck, ZeroPump, ZeroWaitDestination
      <4>. QED  BY Zenon, <4>1 DEF IInv, MainInv
    <3>3. CASE ShutdownWrite(d)
      <4>1. UNCHANGED <<limit, out, ended>>
        BY Zenon, <3>3 DEF ShutdownWrite, bufVars, outVars
      <4>2. ended[d] /\ Len(out[d]) = limit[d] /\ ~shut[Dst(d)]
        BY ZenonT(60), <3>0, <3>3 DEF IInv, EndInv, End, DataInv, Data, Sent, Empty, ShutdownWrite
      <4>3. shut \in [Side -> BOOLEAN] /\ shut' \in [Side -> BOOLEAN]
            /\ \A s \in Side : s # Dst(d) => shut'[s] = shut[s]
        BY ZenonT(60), <3>0, <3>3 DEF IInv, Types, StreamTypes, ShutdownWrite
      <4>4. \A e \in Dir : Dst(e) \in Side /\ (e # d => Dst(e) # Dst(d))
        BY Zenon, <3>0 DEF Dst, Side, Dir
      <4>5. CASE shut'[Dst(d)]
        <5>1. [e \in Dir |-> shut'[Dst(e)]] = [[e \in Dir |-> shut[Dst(e)]] EXCEPT ![d] = TRUE]
          BY ZenonT(60), <3>0, <4>3, <4>4, <4>5
        <5>2. Contract!HalfClose(d)
          BY ZenonT(60), <3>0, <3>1, <3>2, <4>1, <4>2, <5>1 DEF Contract!HalfClose
        <5>. QED  BY Zenon, <3>0, <5>2 DEF Contract!Next
      <4>6. CASE ~shut'[Dst(d)]
        <5>1. shut' = shut
          BY <3>0, <4>2, <4>3, <4>6
        <5>. QED  BY ZenonT(60), <3>1, <4>1, <5>1 DEF Contract!vars
      <4>. QED  BY Zenon, <4>5, <4>6
    <3>4. CASE ~ShutdownWrite(d)
      <4>1. /\ limit' = [limit EXCEPT ![d] = limit'[d]] /\ limit'[d] >= limit[d]
            /\ ended[d] => limit'[d] = limit[d]
            /\ out' = [out EXCEPT ![d] = out'[d]] /\ Len(out'[d]) >= Len(out[d])
            /\ ended' \in {ended, [ended EXCEPT ![d] = TRUE]}
            /\ shut' = shut
        BY ZenonT(60), <2>1, <3>0, <3>4, WorkerEffect
      <4>2. CASE shut[Dst(d)]
        <5>1. wpc[d] = "send"
          BY ZenonT(60), <2>1, <3>0, <4>2 DEF IInv, EndInv, End, Worker, CheckContext, Poll,
             Read, Dump, WriteCheck,
             Write, WaitWritable, AfterRead, SourceEOF, ShutdownLock, ShutdownWrite, SendResult,
             ZeroCheck,
             ZeroRead, ZeroWaitSource, ZeroPumpCheck, ZeroPump, ZeroWaitDestination
        <5>2. SendResult(d)
          BY ZenonT(60), <2>1, <5>1 DEF Worker, CheckContext, Poll, Read, Dump, WriteCheck,
             Write, WaitWritable, AfterRead, SourceEOF, ShutdownLock, ShutdownWrite, ZeroCheck,
             ZeroRead, ZeroWaitSource, ZeroPumpCheck, ZeroPump, ZeroWaitDestination
        <5>. QED  BY ZenonT(60), <3>1, <4>1, <5>2 DEF SendResult, Contract!vars, outVars
      <4>3. CASE ~shut[Dst(d)]
        <5>1. out[d] \in Seq(Nat) /\ out'[d] \in Seq(Nat) /\ limit'[d] \in Nat
              /\ Len(out'[d]) <= limit'[d] /\ \A i \in 1 .. Len(out'[d]) : out'[d][i] = i
          BY ZenonT(60), <3>0 DEF IInv, Types, BufferTypes, CountTypes, DataInv, Data, Sent
        <5>2. out'[d] = Contract!Prefix(Len(out'[d]))
          BY ZenonT(60), <5>1, PrefixEqual DEF Contract!Prefix
        <5>3. Len(out'[d]) \in Len(out[d]) .. limit'[d]
          BY <4>1, <5>1
        <5>4. \E n \in Len(out[d]) .. limit'[d] : out' = [out EXCEPT ![d] = Contract!Prefix(n)]
          BY Zenon, <4>1, <5>2, <5>3
        <5>5. Contract!Move(d)
          BY ZenonT(60), <3>0, <3>1, <3>2, <4>1, <4>3, <5>1, <5>4 DEF Contract!Move
        <5>. QED  BY Zenon, <3>0, <5>5 DEF Contract!Next
      <4>. QED  BY Zenon, <4>2, <4>3
    <3>. QED  BY Zenon, <3>3, <3>4
  <2>2. ASSUME Closer \/ \E s \in Side : PokeClear(s) PROVE UNCHANGED Contract!vars
    BY ZenonT(60), <2>2 DEF Closer, CloserPoke, CloserLock, CloserClose, PokeClear, CloserFrame,
       bufVars, outVars,
       mainVars, Contract!vars
  <2>3. ASSUME Caller PROVE Contract!Next \/ UNCHANGED Contract!vars
    <3>1. UNCHANGED <<limit, out, ended, shut>>
      BY Zenon, <2>3, CallerTypes DEF IInv, CallerFrame, bufVars, outVars, streamVars
    <3>2. main = "returned" => main' = "returned"
      BY ZenonT(60), <2>3 DEF Caller, ParentDone, IdleExpire, IdleCancel, IdleStop, LingerFire,
         IdleFrame, mainVars, Main, SelectResult, SelectLinger, SelectDone, Drain, WaitWorkers,
         Return
    <3>. QED  BY Zenon, <3>1, <3>2 DEF Contract!Next, Contract!Return, Contract!vars
  <2>4. ASSUME UNCHANGED vars PROVE UNCHANGED Contract!vars
    BY Zenon, <2>4 DEF vars, Contract!vars, bufVars, outVars, streamVars, mainVars
  <2>. QED  BY Zenon, <2>1, <2>2, <2>3, <2>4 DEF Next, Caller, Returned
<1>. QED  BY <1>1, <1>2, InvariantIInv, PTL DEF Spec, ImplementsByteRelay, Contract!Spec

-----------------------------------------------------------------------------
(***************************************************************************)
(* The returned error.  A second invariant on top of IInv follows an        *)
(* outcome from the worker through the channel and the store to the         *)
(* selected error, and remembers that a timeout is only ever seen once the  *)
(* context has ended.                                                       *)
(***************************************************************************)
(* A deadline is poked, and a Read times out, only after a cancellation.     *)
PokeInv ==
  /\ \A s \in Side : poked[s] => ctxErr # "nil"
  /\ \A d \in Dir : er[d] = "timeout" => ctxErr # "nil"

(* What a worker decided, and where its outcome is.                          *)
Outcome(d) ==
  /\ class[d] = "failed" => why[d] \in {"io", "deadline"}
  /\ class[d] # "none" <=> wpc[d] \in {"send", "done"}
  /\ store[d] # "none" => store[d] = class[d]
  /\ wpc[d] = "done" => store[d] # "none" \/ \E i \in 1 .. Len(results) : results[i] = d
OutcomeInv ==
  /\ \A d \in Dir : Outcome(d)
  /\ \A i \in 1 .. Len(results) : wpc[results[i]] = "done"

(* Outcomes are inspected for as long as nothing has cancelled the transfer. *)
Undisturbed == cancelBy \in {"nobody", "end"}
InspectInv ==
  /\ ctxErr = "nil" <=> cancelBy = "nobody"
  /\ main \in {"closing", "returned"} => ctxErr # "nil"
  /\ cancelBy = "end" => main \in {"closing", "returned"}
  /\ Undisturbed => main # "drain"
  /\ Undisturbed => \A d \in Dir : store[d] # "none" =>
                        \E i \in 1 .. Len(inspect) : inspect[i] = d
  /\ Len(inspect) <= finished
  /\ err # "none" => main = "returned" /\ store[err] = "failed"
  /\ FailureReported

FInv == PokeInv /\ OutcomeInv /\ InspectInv

(* A worker that has not decided goes on, or decides: a failure is an I/O     *)
(* error or the caller's deadline, never the poke.                            *)
LEMMA WorkerDecides ==
  ASSUME IInv, FInv, NEW d \in Dir, Worker(d)
  PROVE  \/ SendResult(d)
         \/ /\ wpc[d] \notin {"send", "done"} /\ results' = results
            /\ \/ \E p \in WorkerPoint \ {"send", "done"} : Goto(d, p)
               \/ \E c \in Class \ {"none"}, r \in {"none", "io", "deadline"} :
                    Finish(d, c, r) /\ (c = "failed" => r # "none")
<1> USE DEF FinishContext, ClassOf, WorkerPoint, Class
<1>1. CASE CheckContext(d)  BY Zenon, <1>1 DEF CheckContext
<1>2. CASE Poll(d)          BY <1>2 DEF Poll
<1>3. CASE Read(d)          BY Zenon, <1>3 DEF Read
<1>4. CASE Dump(d)          BY Zenon, <1>4 DEF Dump
<1>5. CASE WriteCheck(d)    BY ZenonT(60), <1>5 DEF WriteCheck
<1>6. CASE Write(d)         BY <1>6 DEF Write, AfterWrite
<1>7. CASE WaitWritable(d)  BY <1>7 DEF WaitWritable
<1>8. CASE AfterRead(d)     BY Zenon, <1>8 DEF AfterRead, FInv, PokeInv
<1>9. CASE SourceEOF(d)       BY <1>9 DEF SourceEOF
<1>10. CASE ShutdownLock(d)   BY ZenonT(60), <1>10 DEF ShutdownLock
<1>11. CASE ShutdownWrite(d)  BY <1>11 DEF ShutdownWrite
<1>12. CASE ZeroCheck(d)      BY ZenonT(60), <1>12 DEF ZeroCheck
<1>13. CASE ZeroRead(d)       BY <1>13 DEF ZeroRead
<1>14. CASE ZeroWaitSource(d) BY Zenon, <1>14 DEF ZeroWaitSource
<1>15. CASE ZeroPumpCheck(d)  BY ZenonT(60), <1>15 DEF ZeroPumpCheck
<1>16. CASE ZeroPump(d)       BY <1>16 DEF ZeroPump
<1>17. CASE ZeroWaitDestination(d)  BY <1>17 DEF ZeroWaitDestination
<1>. QED
  BY ZenonT(60), <1>1, <1>2, <1>3, <1>4, <1>5, <1>6, <1>7, <1>8, <1>9, <1>10, <1>11, <1>12,
     <1>13, <1>14, <1>15, <1>16, <1>17, Zenon DEF Worker

(* The last error of a Read is a timeout only if the deadline was poked.      *)
LEMMA WorkerPoke ==
  ASSUME IInv, FInv, NEW d \in Dir, Worker(d)
  PROVE  PokeInv'
<1>1. ctxErr' = ctxErr /\ poked' = poked
  <2>1. ctxErr' = ctxErr
    BY ZenonT(60), WorkerMoves DEF IInv, WorkerFrame, ctxVars
  <2>2. poked' = poked
    BY ZenonT(60) DEF Worker, CheckContext, Poll, Read, Dump, WriteCheck, Write, WaitWritable,
       AfterRead,
         SourceEOF, ShutdownLock, ShutdownWrite, SendResult, ZeroCheck, ZeroRead, ZeroWaitSource,
         ZeroPumpCheck, ZeroPump, ZeroWaitDestination, streamVars
  <2>. QED  BY Zenon, <2>1, <2>2
<1>2. er \in [Dir -> Errors] /\ Src(d) \in Side
  BY Zenon DEF IInv, Types, BufferTypes, Src, Side
<1>3. \A e \in Dir : er'[e] = "timeout" => ctxErr # "nil"
  <2>1. CASE Read(d)
    <3>1. PICK r \in ReadResults(d) : er' = [er EXCEPT ![d] = r[2]]
      BY ZenonT(60), <2>1 DEF Read
    <3>2. r[2] = "timeout" => poked[Src(d)]
      BY <3>1 DEF ReadResults
    <3>. QED  BY Zenon, <1>2, <3>1, <3>2 DEF FInv, PokeInv
  <2>2. CASE SendResult(d)
    BY Zenon, <1>2, <2>2 DEF SendResult, FInv, PokeInv
  <2>3. CASE ~Read(d) /\ ~SendResult(d)
    <3>1. er' = er
      BY ZenonT(60), <2>3 DEF Worker, CheckContext, Poll, Dump, WriteCheck, Write, WaitWritable,
         AfterRead,
         SourceEOF, ShutdownLock, ShutdownWrite, ZeroCheck, ZeroRead, ZeroWaitSource,
         ZeroPumpCheck, ZeroPump, ZeroWaitDestination, bufVars
    <3>. QED  BY Zenon, <3>1 DEF FInv, PokeInv
  <2>. QED  BY Zenon, <2>1, <2>2, <2>3
<1>. QED  BY ZenonT(60), <1>1, <1>3 DEF FInv, PokeInv

LEMMA WorkerOutcome ==
  ASSUME IInv, FInv, NEW d \in Dir, Worker(d)
  PROVE  OutcomeInv' /\ InspectInv'
<1>1. /\ wpc \in [Dir -> WorkerPoint] /\ class \in [Dir -> Class] /\ results \in Seq(Dir)
      /\ why \in [Dir -> {"none", "io", "deadline", "poke"}]
  BY Zenon DEF IInv, Types, PointTypes, MainTypes
<1>2. UNCHANGED <<ctxErr, cancelBy, main, finished, store, inspect, err>>
  BY ZenonT(60), WorkerMoves DEF IInv, WorkerFrame, ctxVars, mainVars
<1>3. \A e \in Dir : Outcome(e)
  BY Zenon DEF FInv, OutcomeInv
<1>4. main # "returned"
  <2>1. wpc[d] \notin {"off", "done"}
    BY ZenonT(60) DEF Worker, CheckContext, Poll, Read, Dump, WriteCheck, Write, WaitWritable,
       AfterRead,
         SourceEOF, ShutdownLock, ShutdownWrite, SendResult, ZeroCheck, ZeroRead, ZeroWaitSource,
         ZeroPumpCheck, ZeroPump, ZeroWaitDestination
  <2>. QED  BY Zenon, <2>1 DEF IInv, MainInv
<1>5. InspectInv'
  BY ZenonT(60), <1>2, <1>4 DEF FInv, InspectInv, Undisturbed, FailureReported
<1>6. CASE SendResult(d)
  <2>1. /\ wpc[d] = "send" /\ wpc' = [wpc EXCEPT ![d] = "done"] /\ results' = Append(results, d)
        /\ class' = class /\ why' = why
    BY Zenon, <1>6 DEF SendResult, Goto
  <2>2. /\ Len(results') = Len(results) + 1 /\ Len(results) \in Nat
        /\ \A i \in 1 .. Len(results) : results'[i] = results[i]
        /\ results'[Len(results) + 1] = d
    BY <1>1, <2>1
  <2>3. \A i \in 1 .. Len(results') : wpc'[results'[i]] = "done"
    <3>1. ASSUME NEW i \in 1 .. Len(results) PROVE wpc'[results[i]] = "done"
      BY <1>1, <2>1 DEF FInv, OutcomeInv
    <3>2. wpc'[d] = "done"
      BY Zenon, <1>1, <2>1
    <3>3. \A i \in 1 .. Len(results) + 1 : i \in 1 .. Len(results) \/ i = Len(results) + 1
      BY <2>2
    <3>. QED  BY Zenon, <2>2, <3>1, <3>2, <3>3
  <2>4. ASSUME NEW e \in Dir PROVE Outcome(e)'
    <3>1. CASE e = d
      <4>1. wpc'[d] = "done"
        BY Zenon, <1>1, <2>1
      <4>2. \E i \in 1 .. Len(results') : results'[i] = d
        BY <2>2
      <4>. QED  BY Zenon, <1>2, <1>3, <2>1, <3>1, <4>1, <4>2 DEF Outcome
    <3>2. CASE e # d
      <4>1. wpc'[e] = wpc[e]
        BY Zenon, <1>1, <2>1, <3>2
      <4>2. (\E i \in 1 .. Len(results) : results[i] = e) => \E i \in 1 .. Len(results') : results'[i] = e
        BY <2>2
      <4>. QED  BY ZenonT(60), <1>2, <1>3, <2>1, <4>1, <4>2 DEF Outcome
    <3>. QED  BY Zenon, <3>1, <3>2
  <2>. QED  BY Zenon, <1>5, <2>3, <2>4 DEF OutcomeInv
<1>7. ASSUME wpc[d] \notin {"send", "done"}, results' = results,
             NEW p \in WorkerPoint \ {"send", "done"}, Goto(d, p)
      PROVE  OutcomeInv'
  <2>1. wpc' = [wpc EXCEPT ![d] = p] /\ class' = class /\ why' = why
    BY Zenon, <1>7 DEF Goto
  <2>2. wpc'[d] = p /\ \A e \in Dir : e # d => wpc'[e] = wpc[e]
    BY Zenon, <1>1, <2>1
  <2>3. ASSUME NEW e \in Dir PROVE Outcome(e)'
    BY ZenonT(60), <1>2, <1>3, <1>7, <2>1, <2>2 DEF Outcome
  <2>4. ASSUME NEW i \in 1 .. Len(results) PROVE wpc'[results[i]] = "done"
    <3>1. wpc[results[i]] = "done" /\ results[i] \in Dir
      BY <1>1 DEF FInv, OutcomeInv
    <3>. QED  BY Zenon, <1>7, <2>2, <3>1
  <2>. QED  BY Zenon, <1>7, <2>3, <2>4 DEF OutcomeInv
<1>8. ASSUME wpc[d] \notin {"send", "done"}, results' = results,
             NEW c \in Class \ {"none"}, NEW r \in {"none", "io", "deadline"},
             Finish(d, c, r), c = "failed" => r # "none"
      PROVE  OutcomeInv'
  <2>1. /\ wpc' = [wpc EXCEPT ![d] = "send"] /\ class' = [class EXCEPT ![d] = c]
        /\ why' = [why EXCEPT ![d] = IF c = "failed" THEN r ELSE @]
    BY Zenon, <1>8 DEF Finish
  <2>2. /\ wpc'[d] = "send" /\ class'[d] = c /\ (c = "failed" => why'[d] = r)
        /\ \A e \in Dir : e # d => wpc'[e] = wpc[e] /\ class'[e] = class[e] /\ why'[e] = why[e]
    BY Zenon, <1>1, <2>1
  <2>3. store[d] = "none"
    BY Zenon, <1>3, <1>8 DEF Outcome
  <2>4. ASSUME NEW e \in Dir PROVE Outcome(e)'
    <3>1. CASE e = d
      BY Zenon, <1>2, <1>8, <2>2, <2>3, <3>1 DEF Outcome
    <3>2. CASE e # d
      BY ZenonT(60), <1>2, <1>3, <1>8, <2>2, <3>2 DEF Outcome
    <3>. QED  BY Zenon, <3>1, <3>2
  <2>5. ASSUME NEW i \in 1 .. Len(results) PROVE wpc'[results[i]] = "done"
    <3>1. wpc[results[i]] = "done" /\ results[i] \in Dir
      BY <1>1 DEF FInv, OutcomeInv
    <3>. QED  BY Zenon, <1>8, <2>2, <3>1
  <2>. QED  BY Zenon, <1>8, <2>4, <2>5 DEF OutcomeInv
<1>. QED  BY Zenon, <1>5, <1>6, <1>7, <1>8, WorkerDecides

LEMMA CloserFailure ==
  ASSUME IInv, FInv, Closer \/ \E s \in Side : PokeClear(s)
  PROVE  FInv'
<1>1. CloserFrame
  BY ZenonT(60) DEF Closer, CloserPoke, CloserLock, CloserClose, PokeClear
<1>2. UNCHANGED <<ctxErr, cancelBy, wpc, er, class, why, main, finished, store, inspect, err, results>>
  BY Zenon, <1>1 DEF CloserFrame, ctxVars, bufVars, endVars, mainVars
<1>3. poked \in [Side -> BOOLEAN] /\ cside \in Side
  BY Zenon DEF IInv, Types, StreamTypes, Side
<1>4. ASSUME NEW s \in Side, poked'[s] PROVE ctxErr # "nil"
  <2>1. CASE CloserPoke   BY Zenon, <2>1 DEF CloserPoke
  <2>2. CASE CloserLock   BY Zenon, <1>4, <2>2 DEF CloserLock, FInv, PokeInv
  <2>3. CASE CloserClose  BY Zenon, <1>3, <1>4, <2>3 DEF CloserClose, FInv, PokeInv
  <2>4. ASSUME NEW t \in Side, PokeClear(t) PROVE ctxErr # "nil"
    BY Zenon, <1>3, <1>4, <2>4 DEF PokeClear, FInv, PokeInv
  <2>. QED  BY Zenon, <2>1, <2>2, <2>3, <2>4 DEF Closer
<1>5. PokeInv'
  BY ZenonT(60), <1>2, <1>4 DEF FInv, PokeInv
<1>. QED
  BY ZenonT(60), <1>2, <1>5 DEF FInv, OutcomeInv, Outcome, InspectInv, Undisturbed, FailureReported

(* Taking the head of the channel moves one finished direction to the store.  *)
LEMMA AcceptFailure ==
  ASSUME IInv, FInv, NEW live \in BOOLEAN, Accept(live), wpc' = wpc, class' = class, why' = why
  PROVE  /\ OutcomeInv' /\ Len(inspect') <= finished'
         /\ (live /\ Undisturbed => \A d \in Dir : store'[d] # "none" =>
                                      \E i \in 1 .. Len(inspect') : inspect'[i] = d)
<1> DEFINE h == Head(results)
<1>1. /\ results \in Seq(Dir) /\ inspect \in Seq(Dir) /\ store \in [Dir -> Class]
      /\ class \in [Dir -> Class] /\ finished \in Nat
  BY Zenon DEF IInv, Types, MainTypes, PointTypes
<1>2. /\ results # <<>> /\ results' = Tail(results) /\ finished' = finished + 1
      /\ store' = [store EXCEPT ![h] = class[h]]
      /\ inspect' = IF live THEN Append(inspect, h) ELSE inspect
  BY Zenon DEF Accept
<1>3. /\ h \in Dir /\ h = results[1] /\ Len(results) \in Nat /\ Len(results) >= 1
      /\ Len(results') = Len(results) - 1
      /\ \A i \in 1 .. Len(results') : results'[i] = results[i + 1]
  BY <1>1, <1>2
<1>4. \A d \in Dir : Outcome(d)
  BY Zenon DEF FInv, OutcomeInv
<1>5. wpc[h] = "done" /\ class[h] # "none"
  <2>1. wpc[h] = "done"
    BY <1>3 DEF FInv, OutcomeInv
  <2>. QED  BY Zenon, <1>3, <1>4, <2>1 DEF Outcome
<1>6. store'[h] = class[h] /\ \A d \in Dir : d # h => store'[d] = store[d]
  BY Zenon, <1>1, <1>2, <1>3
<1>7. ASSUME NEW d \in Dir PROVE Outcome(d)'
  <2>1. CASE d = h
    BY ZenonT(60), <1>4, <1>5, <1>6, <2>1 DEF Outcome
  <2>2. CASE d # h
    <3>1. ASSUME NEW i \in 1 .. Len(results), results[i] = d
          PROVE  \E j \in 1 .. Len(results') : results'[j] = d
      <4>1. i # 1
        BY Zenon, <1>3, <2>2, <3>1
      <4>2. i - 1 \in 1 .. Len(results') /\ results'[i - 1] = d
        BY <1>3, <3>1, <4>1
      <4>. QED  BY Zenon, <4>2
    <3>. QED  BY ZenonT(60), <1>4, <1>6, <2>2, <3>1 DEF Outcome
  <2>. QED  BY Zenon, <2>1, <2>2
<1>8. ASSUME NEW i \in 1 .. Len(results') PROVE wpc'[results'[i]] = "done"
  <2>1. i + 1 \in 1 .. Len(results)
    BY <1>3
  <2>2. wpc[results[i + 1]] = "done"
    BY Zenon, <2>1 DEF FInv, OutcomeInv
  <2>. QED  BY Zenon, <1>3, <2>2
<1>9. Len(inspect') <= finished'
  <2>1. Len(inspect) <= finished /\ Len(inspect) \in Nat
    BY <1>1 DEF FInv, InspectInv
  <2>2. Len(inspect') \in {Len(inspect), Len(inspect) + 1}
    BY <1>1, <1>2, <1>3
  <2>. QED  BY <1>1, <1>2, <2>1, <2>2
<1>10. ASSUME live, Undisturbed, NEW d \in Dir, store'[d] # "none"
       PROVE  \E i \in 1 .. Len(inspect') : inspect'[i] = d
  <2>1. /\ Len(inspect') = Len(inspect) + 1 /\ Len(inspect) \in Nat /\ inspect'[Len(inspect) + 1] = h
        /\ \A i \in 1 .. Len(inspect) : inspect'[i] = inspect[i]
    BY <1>1, <1>2, <1>3, <1>10
  <2>2. CASE d = h
    BY <2>1, <2>2
  <2>3. CASE d # h
    <3>1. store[d] # "none"
      BY Zenon, <1>6, <1>10, <2>3
    <3>2. PICK i \in 1 .. Len(inspect) : inspect[i] = d
      BY Zenon, <1>10, <3>1 DEF FInv, InspectInv
    <3>3. i \in 1 .. Len(inspect') /\ inspect'[i] = d
      BY <2>1, <3>2
    <3>. QED  BY Zenon, <3>3
  <2>. QED  BY Zenon, <2>2, <2>3
<1>. QED  BY Zenon, <1>7, <1>8, <1>9, <1>10 DEF OutcomeInv

(* The select at the end: the error reported is one that was stored, and with *)
(* every direction finished undisturbed a stored failure is found.            *)
LEMMA ReturnFailure ==
  ASSUME IInv, FInv, Return
  PROVE  InspectInv'
<1>1. UNCHANGED <<ctxErr, cancelBy, wpc, class, why, finished, store, inspect, results>>
  BY Zenon DEF Return, MainFrame, ctxVars, endVars
<1>2. main = "closing" /\ main' = "returned" /\ err' = SelectedError
  BY Zenon DEF Return
<1>3. /\ inspect \in Seq(Dir) /\ results \in Seq(Dir) /\ finished \in Nat
      /\ \A i \in 1 .. Len(inspect) : inspect[i] \in Dir /\ inspect[i] # "none"
      /\ Len(inspect) \in Nat
  BY DEF IInv, Types, MainTypes, Dir
<1>4. SelectedError # "none" => store[SelectedError] = "failed"
  BY Zenon DEF SelectedError, SelectTransferError
<1>5. ASSUME cancelBy = "end", NEW d \in Dir, class[d] = "failed"
      PROVE  SelectedError # "none"
  <2>1. Outcome(d) /\ (wpc[d] = "off" <=> d \notin cfg.dirs)
    BY Zenon DEF FInv, OutcomeInv, IInv, MainInv
  <2>2. wpc[d] = "done"
    <3>1. wpc[d] \in {"send", "done"} /\ d \in cfg.dirs
      BY Zenon, <1>5, <2>1 DEF Outcome
    <3>. QED  BY Zenon, <1>2, <3>1 DEF IInv, MainInv
  <2>3. results = <<>> /\ finished <= 2
    <3>1. finished = nDirs /\ finished + Len(results) = Done("LR") + Done("RL")
      BY Zenon, <1>2 DEF IInv, MainInv
    <3>2. cfg.dirs \subseteq Dir /\ \A e \in Dir : wpc[e] = "off" <=> e \notin cfg.dirs
      BY Zenon, TransferAssumption DEF IInv, Types, ContextTypes, MainInv, Config
    <3>3. \A e \in cfg.dirs : wpc[e] = "done"
      BY Zenon, <1>2 DEF IInv, MainInv
    <3>4. nDirs = Done("LR") + Done("RL") /\ nDirs \in 0 .. 2
      BY <3>2, <3>3 DEF nDirs, Count, Done, Dir
    <3>5. Len(results) = 0
      BY <1>3, <3>1, <3>4
    <3>. QED  BY <1>3, <3>1, <3>4, <3>5
  <2>4. store[d] = "failed"
    BY <1>5, <2>1, <2>2, <2>3 DEF Outcome
  <2>5. PICK i \in 1 .. Len(inspect) : inspect[i] = d
    BY Zenon, <1>5, <2>4 DEF FInv, InspectInv, Undisturbed
  <2>6. Len(inspect) <= 2
    BY <1>3, <2>3 DEF FInv, InspectInv
  <2>7. i = 1 \/ i = 2
    BY <1>3, <2>5, <2>6
  <2>. QED  BY <1>3, <2>4, <2>5, <2>7 DEF SelectedError, SelectTransferError
<1>. QED
  BY ZenonT(60), <1>1, <1>2, <1>4, <1>5 DEF FInv, InspectInv, Undisturbed, FailureReported

(* A cancellation only ever adds to what ended the context.                   *)
LEMMA CancelFailure ==
  ASSUME FInv, NEW by \in {"idle", "first", "linger", "end"}, Cancel(by)
  PROVE  /\ ctxErr' # "nil" /\ cancelBy' # "nobody"
         /\ ctxErr = "nil" => cancelBy' = by
         /\ ctxErr # "nil" => ctxErr' = ctxErr /\ cancelBy' = cancelBy
BY ZenonT(60) DEF FInv, InspectInv, Cancel, ctxVars

LEMMA CallerFailure ==
  ASSUME IInv, FInv, Caller
  PROVE  FInv'
<1>1. CallerFrame
  BY Zenon, CallerTypes DEF IInv
<1>2. UNCHANGED <<wpc, er, class, why, poked>>
  BY Zenon, <1>1 DEF CallerFrame, bufVars, endVars, streamVars
<1>3. ctxErr # "nil" => ctxErr' # "nil"
  BY ZenonT(60) DEF Caller, ParentDone, IdleExpire, IdleCancel, IdleStop, LingerFire, Main,
     SelectResult,
         SelectLinger, SelectDone, Drain, WaitWorkers, Return, Cancel, ctxVars
<1>4. PokeInv'
  BY ZenonT(60), <1>2, <1>3 DEF FInv, PokeInv
<1>5. ASSUME store' = store, results' = results PROVE OutcomeInv'
  <2>1. ASSUME NEW d \in Dir PROVE Outcome(d)'
    BY ZenonT(60), <1>2, <1>5 DEF FInv, OutcomeInv, Outcome
  <2>2. \A i \in 1 .. Len(results') : wpc'[results'[i]] = "done"
    BY ZenonT(60), <1>2, <1>5 DEF FInv, OutcomeInv
  <2>. QED  BY Zenon, <2>1, <2>2 DEF OutcomeInv
<1> USE DEF FInv, InspectInv, Undisturbed, FailureReported
<1>6. ASSUME NEW kind \in {"Canceled", "DeadlineExceeded"}, ParentDone(kind) PROVE FInv'
  BY ZenonT(60), <1>2, <1>4, <1>5, <1>6 DEF ParentDone, mainVars
<1>7. CASE IdleExpire \/ IdleStop
  BY ZenonT(60), <1>2, <1>4, <1>5, <1>7 DEF IdleExpire, IdleStop, IdleFrame, ctxVars, mainVars
<1>8. CASE IdleCancel
  BY ZenonT(60), <1>2, <1>4, <1>5, <1>8, CancelFailure DEF IdleCancel, IdleFrame, mainVars
<1>9. CASE LingerFire
  BY ZenonT(60), <1>2, <1>4, <1>5, <1>9 DEF LingerFire, ctxVars
<1>10. CASE SelectResult
  <2>1. Accept(TRUE) /\ main = "select" /\ main' \in {"wait", "select"} /\ err' = err
    BY ZenonT(60), <1>10 DEF SelectResult
  <2>2. \/ UNCHANGED <<ctxErr, cancelBy>>
        \/ Cancel("first")
    BY ZenonT(60), <1>10 DEF SelectResult, ctxVars
  <2>3. OutcomeInv' /\ Len(inspect') <= finished'
        /\ (Undisturbed => \A d \in Dir : store'[d] # "none" =>
                             \E i \in 1 .. Len(inspect') : inspect'[i] = d)
    BY ZenonT(60), <1>2, <2>1, AcceptFailure
  <2>4. cancelBy # "end" /\ err = "none"
    BY Zenon, <2>1
  <2>5. CASE UNCHANGED <<ctxErr, cancelBy>>
    BY ZenonT(60), <1>2, <1>4, <2>1, <2>3, <2>4, <2>5
  <2>6. CASE Cancel("first")
    <3>1. cancelBy' \notin {"nobody", "end"} /\ ctxErr' # "nil"
      BY Zenon, <2>4, <2>6, CancelFailure
    <3>. QED  BY ZenonT(60), <1>2, <1>4, <2>1, <2>3, <2>4, <3>1
  <2>. QED  BY Zenon, <2>2, <2>5, <2>6
<1>11. CASE Drain
  <2>1. Accept(FALSE) /\ main = "drain" /\ main' \in {"wait", "drain"} /\ err' = err
        /\ ctxErr' = ctxErr /\ cancelBy' = cancelBy
    BY ZenonT(60), <1>11 DEF Drain, ctxVars
  <2>2. OutcomeInv' /\ Len(inspect') <= finished'
    BY ZenonT(60), <1>2, <2>1, AcceptFailure
  <2>3. ~Undisturbed /\ err = "none"
    BY Zenon, <2>1
  <2>. QED  BY ZenonT(60), <1>2, <1>4, <2>1, <2>2, <2>3
<1>12. CASE SelectLinger
  <2>1. /\ main = "select" /\ Cancel("linger") /\ main' = "drain"
        /\ UNCHANGED <<finished, store, inspect, err, results>>
    BY Zenon, <1>12 DEF SelectLinger
  <2>2. cancelBy' \notin {"nobody", "end"} /\ ctxErr' # "nil"
    BY Zenon, <2>1, CancelFailure
  <2>3. err = "none"
    BY Zenon, <2>1
  <2>. QED  BY ZenonT(60), <1>2, <1>4, <1>5, <2>1, <2>2, <2>3
<1>13. CASE SelectDone
  <2>1. /\ main = "select" /\ ctxErr # "nil" /\ main' = "drain"
        /\ UNCHANGED <<finished, store, inspect, err, results, ctxErr, cancelBy>>
    BY Zenon, <1>13 DEF SelectDone, ctxVars
  <2>2. cancelBy \notin {"nobody", "end"} /\ err = "none"
    BY Zenon, <2>1
  <2>. QED  BY ZenonT(60), <1>2, <1>4, <1>5, <2>1, <2>2
<1>14. CASE WaitWorkers
  <2>1. /\ main = "wait" /\ Cancel("end") /\ main' = "closing"
        /\ UNCHANGED <<finished, store, inspect, err, results>>
    BY Zenon, <1>14 DEF WaitWorkers
  <2>2. err = "none" /\ cancelBy # "end"
    BY Zenon, <2>1
  <2>3. /\ ctxErr' # "nil" /\ cancelBy' # "nobody"
        /\ cancelBy' \in {"nobody", "end"} => Undisturbed
    BY Zenon, <2>1, CancelFailure
  <2>. QED  BY ZenonT(60), <1>2, <1>4, <1>5, <2>1, <2>2, <2>3
<1>15. CASE Return
  BY ZenonT(60), <1>4, <1>5, <1>15, ReturnFailure DEF Return
<1>. QED
  BY ZenonT(60), <1>6, <1>7, <1>8, <1>9, <1>10, <1>11, <1>12, <1>13, <1>14, <1>15 DEF Caller, Main

LEMMA InitFInv == Init => FInv
<1> SUFFICES ASSUME Init PROVE FInv
  OBVIOUS
<1>1. PokeInv
  BY Zenon DEF Init, PokeInv
<1>2. OutcomeInv
  <2>1. Len(results) = 0
    BY ZenonT(60) DEF Init
  <2>. QED  BY <2>1 DEF Init, OutcomeInv, Outcome
<1>3. InspectInv
  <2>1. Len(inspect) = 0
    BY Zenon DEF Init
  <2>. QED  BY <2>1 DEF Init, InspectInv, Undisturbed, FailureReported
<1>. QED  BY Zenon, <1>1, <1>2, <1>3 DEF FInv

LEMMA NextFInv == IInv /\ FInv /\ [Next]_vars => FInv'
<1> SUFFICES ASSUME IInv, FInv, [Next]_vars PROVE FInv'
  OBVIOUS
<1>1. ASSUME NEW d \in cfg.dirs, Worker(d) PROVE FInv'
  <2>1. d \in Dir
    BY Zenon, TransferAssumption DEF IInv, Types, ContextTypes, Config
  <2>. QED  BY ZenonT(60), <1>1, <2>1, WorkerPoke, WorkerOutcome DEF FInv
<1>2. CASE UNCHANGED vars
  BY ZenonT(60), <1>2 DEF vars, ctxVars, bufVars, endVars, streamVars, mainVars,
     FInv, PokeInv, OutcomeInv, Outcome, InspectInv, Undisturbed, FailureReported
<1>. QED  BY ZenonT(60), <1>1, <1>2, CloserFailure, CallerFailure DEF Next, Caller, Returned

(* selectedTransferError: Transfer reports an error exactly when a direction  *)
(* failed and nothing else ended the session, and never reports the timeout   *)
(* of the poke or a cancellation as a failure.                                *)
THEOREM FailureIsExact == Spec => []FailureExact
<1>1. IInv /\ FInv => FailureExact
  <2> SUFFICES ASSUME IInv, FInv PROVE ErrorIsReal
    BY Zenon DEF FInv, InspectInv, FailureExact
  <2>1. \A d \in Dir : store[d] = "failed" => class[d] = "failed" /\ why[d] \in {"io", "deadline"}
    BY Zenon DEF FInv, OutcomeInv, Outcome
  <2>2. err \in {"none", "LR", "RL"}
    BY Zenon DEF IInv, Types, MainTypes
  <2>. QED  BY Zenon, <2>1, <2>2 DEF FInv, InspectInv, ErrorIsReal, Dir
<1>2. Spec => []FInv
  BY InitFInv, NextFInv, InvariantIInv, PTL DEF Spec
<1>. QED  BY <1>1, <1>2, InvariantIInv, PTL

(* What the caller of Transfer finds when it returns: no worker, no pending   *)
(* outcome, both streams closed and unlocked, and the final byte counts.      *)
THEOREM ReturnIsComplete == Spec => []ReturnComplete
BY ReturnCorrect, StatsCorrect, PTL DEF ReturnComplete
=====
