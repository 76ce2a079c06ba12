------------------------------ MODULE Transfer ------------------------------
(***************************************************************************)
(* relay.Transfer (internal/relay/relay.go): the bidirectional copy between *)
(* the left and the right stream.                                           *)
(*                                                                          *)
(* Processes: one worker per direction (startDir/copyDir), the caller that  *)
(* collects their outcomes (Transfer's select loop), the goroutine that     *)
(* closes both streams on cancellation, the idle watcher, the linger timer, *)
(* the caller's context, and the two peers behind the streams.              *)
(*                                                                          *)
(* Bytes are numbered by their position in the source of their direction.   *)
(* A Read or Write returns a pair <<count, error>>, the error abstracted to  *)
(* the classes the code tells apart: "nil", "benign" (isBenignClose),       *)
(* "retry" (isRetryableIOError), "timeout" (IsTimeoutErr, only produced by   *)
(* the cancellation's deadline poke) and "fail" (anything else).            *)
(***************************************************************************)
EXTENDS Integers, Sequences

CONSTANTS BufferSize,  \* Config.BufferSize: the most one Read returns
          Configs      \* the configurations (and stream capabilities) to run

Dir  == {"LR", "RL"}
Side == {"left", "right"}
Src(d) == IF d = "LR" THEN "left" ELSE "right"
Dst(d) == IF d = "LR" THEN "right" ELSE "left"

(* dirs: the directions that run (-u/-U run one); linger: -t is positive;    *)
(* idle: -T is set; noClose: sides wrapped in a sessionWrap; deadline: sides *)
(* with a read deadline; poll: both descriptors are polled before a Read;    *)
(* dump: -v/-x/-r/-R output is on; kernelCopy: what the streams support;     *)
(* bytes: the bound on what a source produces in one direction.              *)
Config == [dirs : SUBSET Dir, linger : BOOLEAN, idle : BOOLEAN,
           noClose : SUBSET Side, deadline : SUBSET Side, poll : BOOLEAN,
           dump : BOOLEAN, kernelCopy : {"none", "splice", "sendfile"},
           bytes : Nat]

ASSUME TransferAssumption ==
  /\ BufferSize \in Nat \ {0}
  /\ Configs \subseteq Config
  /\ \A c \in Configs : c.dirs # {}

Min2(a, b) == IF a < b THEN a ELSE b

(* zeroCopyAllowed and prepareZeroCopy: no dump, no explicit poll, and both  *)
(* streams expose a kernel-copyable descriptor (a sessionWrap does not).     *)
ZeroCopyAllowed(c, d) ==
  c.kernelCopy # "none" /\ ~c.dump /\ ~c.poll /\ c.noClose = {}

VARIABLES
  cfg,         \* the Config of this transfer
  ended,       \* [Dir -> the open source has reported its end of file]
  ctxErr,      \* ctx.Err(): "nil", "Canceled" or "DeadlineExceeded"
  cancelBy,    \* who cancelled first (history)
  wpc,         \* [Dir -> program point of the worker]
  er,          \* [Dir -> error of the last Read]
  start,       \* [Dir -> position of the last byte taken out of the buffer]
  limit,       \* [Dir -> position of the last byte read from the source]
  wrote,       \* [Dir -> some byte of the current block was written]
  class,       \* [Dir -> dirClass of the worker's outcome, "none" before]
  why,         \* [Dir -> origin of a classFailed outcome (history)]
  out,         \* [Dir -> sequence of bytes the destination received]
  bytes,       \* [Dir -> Tracker byte counter]
  blocks,      \* [Dir -> Tracker block counter]
  eofCalls,    \* [Dir -> number of OnEOF calls]
  closed,      \* [Side -> Close has taken effect for this session]
  poked,       \* [Side -> the read deadline is in the past]
  mu,          \* [Side -> holder of closeSerialStream.mu: "free", "closer", Dir]
  shut,        \* [Side -> the write half of the stream was shut down]
  main,        \* program point of Transfer
  results,     \* the results channel (capacity 2)
  finished,    \* outcomes received
  store,       \* transferOutcomes.leftToRight / rightToLeft
  inspect,     \* transferOutcomes.inspect
  linger,      \* lingerC: "off", "running" or "fired"
  err,         \* direction of the selected error, "none" for nil
  stats,       \* [Dir -> byte counters in the OnStats snapshot], after return
  cpc, cside,  \* close goroutine: program point and the stream it works on
  watcher,     \* idle watcher: "off", "waiting", "expired" or "gone"
  idleStopped  \* stopIdle has closed the watcher's done channel

ctxVars    == <<ctxErr, cancelBy>>
bufVars    == <<er, start, limit, wrote>>
outVars    == <<out, bytes, blocks>>
endVars    == <<class, why, eofCalls>>
streamVars == <<closed, poked, mu, shut>>
mainVars   == <<main, finished, store, inspect, linger, err, stats>>
closerVars == <<cpc, cside>>
idleVars   == <<watcher, idleStopped>>
vars == <<cfg, ended, ctxVars, wpc, bufVars, outVars, endVars, streamVars,
          mainVars, results, closerVars, idleVars>>

WorkerPoint ==
  {"off", "check", "poll", "read", "dump", "wcheck", "write", "wwait", "after",
   "eof", "shutdown", "shutting", "send", "done",
   "zcheck", "zread", "zwait", "zpcheck", "zpump", "zpwait"}
Class  == {"none", "EOF", "closed", "canceled", "failed"}
Errors == {"nil", "benign", "retry", "timeout", "fail"}

-----------------------------------------------------------------------------
(* Setup of Transfer up to the start of the two workers.                     *)
Init ==
  /\ cfg \in Configs
  /\ ended = [d \in Dir |-> FALSE]
  /\ ctxErr = "nil" /\ cancelBy = "nobody"
  /\ wpc = [d \in Dir |-> IF d \notin cfg.dirs THEN "off"
                          ELSE IF ZeroCopyAllowed(cfg, d) THEN "zcheck"
                          ELSE "check"]
  /\ er = [d \in Dir |-> "nil"]
  /\ start = [d \in Dir |-> 0]
  /\ limit = [d \in Dir |-> 0]
  /\ wrote = [d \in Dir |-> FALSE]
  /\ class = [d \in Dir |-> "none"]
  /\ why = [d \in Dir |-> "none"]
  /\ out = [d \in Dir |-> <<>>]
  /\ bytes = [d \in Dir |-> 0]
  /\ blocks = [d \in Dir |-> 0]
  /\ eofCalls = [d \in Dir |-> 0]
  /\ closed = [s \in Side |-> FALSE]
  /\ poked = [s \in Side |-> FALSE]
  /\ mu = [s \in Side |-> "free"]
  /\ shut = [s \in Side |-> FALSE]
  /\ main = "select" /\ results = <<>> /\ finished = 0
  /\ store = [d \in Dir |-> "none"]
  /\ inspect = <<>> /\ linger = "off" /\ err = "none"
  /\ stats = [d \in Dir |-> 0]
  /\ cpc = "poke" /\ cside = "left"
  /\ watcher = (IF cfg.idle THEN "waiting" ELSE "off")
  /\ idleStopped = FALSE

-----------------------------------------------------------------------------
(* context.WithCancel: the first cancellation decides Err().                 *)
Cancel(by) ==
  IF ctxErr = "nil" THEN ctxErr' = "Canceled" /\ cancelBy' = by
                    ELSE UNCHANGED ctxVars

(* The caller's context ends: cancelled (a signal) or past its deadline.     *)
ParentDone(kind) ==
  /\ ctxErr = "nil" /\ main # "returned"
  /\ ctxErr' = kind /\ cancelBy' = "parent"
  /\ UNCHANGED <<cfg, ended, wpc, bufVars, outVars, endVars, streamVars,
                 mainVars, results, closerVars, idleVars>>

-----------------------------------------------------------------------------
(* A worker returns from copyDir with one classified outcome.                *)
ClassOf(e) == IF e = "Canceled" THEN "canceled" ELSE "failed"

Finish(d, c, reason) ==
  /\ wpc' = [wpc EXCEPT ![d] = "send"]
  /\ class' = [class EXCEPT ![d] = c]
  /\ why' = [why EXCEPT ![d] = IF c = "failed" THEN reason ELSE @]

FinishContext(d) == Finish(d, ClassOf(ctxErr), "deadline")

Goto(d, p) == wpc' = [wpc EXCEPT ![d] = p] /\ UNCHANGED <<class, why>>

(* What a worker step leaves alone.                                          *)
WorkerFrame == UNCHANGED <<cfg, ctxVars, mainVars, closerVars, idleVars>>

(* copyBuffered: the context check at the head of the loop.  Input an earlier *)
(* session left in a shared stream (sharedPending) is read without polling.   *)
CheckContext(d) ==
  /\ wpc[d] = "check"
  /\ IF ctxErr # "nil" THEN FinishContext(d)
     ELSE \/ Goto(d, IF cfg.poll THEN "poll" ELSE "read")
          \/ Src(d) \in cfg.noClose /\ Goto(d, "read")
  /\ WorkerFrame /\ UNCHANGED <<ended, bufVars, outVars, eofCalls, streamVars, results>>

(* waitReadableAndWritable: the context is checked around every bounded      *)
(* poll.  A hung-up destination ends the direction before the source is read *)
(* (ErrClosedPipe); waiting is the absence of a step.                        *)
Poll(d) ==
  /\ wpc[d] = "poll"
  /\ \/ ctxErr # "nil" /\ FinishContext(d)
     \/ Finish(d, "closed", "none")
     \/ Goto(d, "read")
     \/ Finish(d, "failed", "io")
  /\ WorkerFrame /\ UNCHANGED <<ended, bufVars, outVars, eofCalls, streamVars, results>>

(* Stream.Read (external): the results it may return in the current state.   *)
(* On a closed stream (or a closed sessionWrap) it returns a benign error; a *)
(* poked deadline makes it time out; bytes may come together with the end.   *)
Unread(d) == cfg.bytes - limit[d]
ReadResults(d) ==
  IF closed[Src(d)] THEN {<<0, "benign">>}
  ELSE LET most == Min2(BufferSize, Unread(d)) IN
       {<<n, "nil">> : n \in 1 .. most}
       \cup {<<n, "benign">> : n \in 0 .. most}
       \cup {<<0, "fail">>, <<0, "retry">>}
       \cup (IF poked[Src(d)] THEN {<<0, "timeout">>} ELSE {})

(* copyBuffered: the Read.  touch, the dump and the write follow for n > 0.  *)
(* A benign result of an open stream is its end of file.                     *)
Read(d) ==
  /\ wpc[d] = "read"
  /\ \E r \in ReadResults(d) :
       /\ er' = [er EXCEPT ![d] = r[2]]
       /\ limit' = [limit EXCEPT ![d] = @ + r[1]]
       /\ start' = [start EXCEPT ![d] = limit[d]]
       /\ wrote' = [wrote EXCEPT ![d] = FALSE]
       /\ ended' = [ended EXCEPT ![d] = r[2] = "benign" /\ ~closed[Src(d)]]
       /\ Goto(d, IF r[1] = 0 THEN "after" ELSE IF cfg.dump THEN "dump" ELSE "wcheck")
  /\ WorkerFrame /\ UNCHANGED <<outVars, eofCalls, streamVars, results>>

(* -v/-x/-r/-R output of the block; a failing dump ends the direction.       *)
Dump(d) ==
  /\ wpc[d] = "dump"
  /\ Goto(d, "wcheck") \/ Finish(d, "failed", "io")
  /\ WorkerFrame /\ UNCHANGED <<ended, bufVars, outVars, eofCalls, streamVars, results>>

(* writeBlock returns: the block counts once if any byte of it was written.  *)
CountBlock(d, w) == blocks' = [blocks EXCEPT ![d] = @ + (IF w THEN 1 ELSE 0)]

(* writeBlock: the context check before every Write of the block.            *)
WriteCheck(d) ==
  /\ wpc[d] = "wcheck"
  /\ IF ctxErr # "nil" THEN FinishContext(d) /\ CountBlock(d, wrote[d])
     ELSE Goto(d, "write") /\ UNCHANGED blocks
  /\ WorkerFrame /\ UNCHANGED <<ended, bufVars, out, bytes, eofCalls, streamVars, results>>

(* The next n bytes of the buffer reach the destination and are counted.     *)
Deliver(d, n) ==
  /\ out' = [out EXCEPT ![d] = @ \o [i \in 1 .. n |-> start[d] + i]]
  /\ bytes' = [bytes EXCEPT ![d] = @ + n]
  /\ start' = [start EXCEPT ![d] = @ + n]

(* Stream.Write (external): the results it may return in the current state.  *)
(* It may take any part of the buffer, with or without an error.             *)
WriteResults(d) ==
  {<<n, e>> : n \in 0 .. limit[d] - start[d],
              e \in IF closed[Dst(d)] THEN {"benign"}
                    ELSE {"nil", "retry", "benign", "fail"}}

(* writeBlock: one Write of the rest of the block, then its result.          *)
AfterWrite(d, n, e) ==
  LET full == start[d] + n = limit[d]
      some == wrote[d] \/ n > 0
  IN \/ e = "benign" /\ Finish(d, "closed", "none") /\ CountBlock(d, some)
     \/ e = "fail" /\ Finish(d, "failed", "io") /\ CountBlock(d, some)
     \/ e = "nil" /\ n = 0 /\ Finish(d, "failed", "io") /\ CountBlock(d, some)
     \/ e = "nil" /\ n > 0 /\ full /\ Goto(d, "after") /\ CountBlock(d, some)
     \/ e = "nil" /\ n > 0 /\ ~full /\ Goto(d, "wcheck") /\ UNCHANGED blocks
     \/ e = "retry" /\ full /\ Goto(d, "after") /\ CountBlock(d, some)
     \/ /\ e = "retry" /\ ~full
        /\ Goto(d, IF cfg.poll THEN "wwait" ELSE "wcheck") /\ UNCHANGED blocks

Write(d) ==
  /\ wpc[d] = "write"
  /\ \E r \in WriteResults(d) :
       /\ Deliver(d, r[1])
       /\ wrote' = [wrote EXCEPT ![d] = @ \/ r[1] > 0]
       /\ AfterWrite(d, r[1], r[2])
  /\ WorkerFrame /\ UNCHANGED <<ended, er, limit, eofCalls, streamVars, results>>

(* Mutant of WaitWritable: never reports the destination writable. *)
WaitWritableStuck(d) ==
  /\ wpc[d] = "wwait"
  /\ \/ ctxErr # "nil" /\ FinishContext(d) /\ CountBlock(d, wrote[d])
     \/ Finish(d, "closed", "none") /\ CountBlock(d, wrote[d])
     \/ Finish(d, "failed", "io") /\ CountBlock(d, wrote[d])
  /\ WorkerFrame /\ UNCHANGED <<ended, bufVars, out, bytes, eofCalls, streamVars, results>>

(* waitWritable after a would-block Write on a polled destination.           *)
WaitWritable(d) ==
  /\ wpc[d] = "wwait"
  /\ \/ ctxErr # "nil" /\ FinishContext(d) /\ CountBlock(d, wrote[d])
     \/ Finish(d, "closed", "none") /\ CountBlock(d, wrote[d])
     \/ Finish(d, "failed", "io") /\ CountBlock(d, wrote[d])
     \/ Goto(d, "wcheck") /\ UNCHANGED blocks
  /\ WorkerFrame /\ UNCHANGED <<ended, bufVars, out, bytes, eofCalls, streamVars, results>>

(* copyBuffered: the Read error, looked at after its bytes were written.     *)
AfterRead(d) ==
  /\ wpc[d] = "after"
  /\ \/ er[d] \in {"nil", "retry"} /\ Goto(d, "check")
     \/ er[d] = "timeout" /\ ctxErr # "nil" /\ FinishContext(d)
     \/ er[d] = "timeout" /\ ctxErr = "nil" /\ Finish(d, "failed", "poke")
     \/ er[d] = "benign" /\ Goto(d, "eof")
     \/ er[d] = "fail" /\ Finish(d, "failed", "io")
  /\ WorkerFrame /\ UNCHANGED <<ended, bufVars, outVars, eofCalls, streamVars, results>>

(* Mutant of SourceEOF: half-closes without looking at the context. *)
SourceEOFShuts(d) ==
  /\ wpc[d] = "eof"
  /\ eofCalls' = [eofCalls EXCEPT ![d] = @ + 1]
  /\ Goto(d, "shutdown")
  /\ WorkerFrame /\ UNCHANGED <<ended, bufVars, outVars, streamVars, results>>

(* finishSourceEOF: OnEOF, then half-close the destination unless cancelled. *)
SourceEOF(d) ==
  /\ wpc[d] = "eof"
  /\ eofCalls' = [eofCalls EXCEPT ![d] = @ + 1]
  /\ IF ctxErr = "nil" THEN Goto(d, "shutdown") ELSE Finish(d, "EOF", "none")
  /\ WorkerFrame /\ UNCHANGED <<ended, bufVars, outVars, streamVars, results>>

(* closeSerialStream.ShutdownWrite: lock, the inner ShutdownWrite, unlock.   *)
(* A sessionWrap ignores it; on a closed stream it fails without effect.     *)
ShutdownLock(d) ==
  /\ wpc[d] = "shutdown" /\ mu[Dst(d)] = "free"
  /\ mu' = [mu EXCEPT ![Dst(d)] = d]
  /\ Goto(d, "shutting")
  /\ WorkerFrame /\ UNCHANGED <<ended, bufVars, outVars, eofCalls, closed, poked, shut, results>>

ShutdownWrite(d) ==
  /\ wpc[d] = "shutting"
  /\ shut' = [shut EXCEPT ![Dst(d)] = @ \/ (Dst(d) \notin cfg.noClose /\ ~closed[Dst(d)])]
  /\ mu' = [mu EXCEPT ![Dst(d)] = "free"]
  /\ Finish(d, "EOF", "none")
  /\ WorkerFrame /\ UNCHANGED <<ended, bufVars, outVars, eofCalls, closed, poked, results>>

(* startDir: the goroutine sends its outcome; the channel never blocks it.    *)
(* copyDir's locals are gone.                                                 *)
SendResult(d) ==
  /\ wpc[d] = "send"
  /\ results' = Append(results, d)
  /\ Goto(d, "done")
  /\ er' = [er EXCEPT ![d] = "nil"]
  /\ wrote' = [wrote EXCEPT ![d] = FALSE]
  /\ WorkerFrame /\ UNCHANGED <<ended, start, limit, outVars, eofCalls, streamVars>>

-----------------------------------------------------------------------------
(* configuredBlockCount *)
BlockCount(n) == (n + BufferSize - 1) \div BufferSize

(* linuxZeroCopy: the copy on duplicated descriptors, so Close of a stream    *)
(* does not interrupt it.  start..limit are the bytes in the splice pipe.     *)
ZeroCheck(d) ==
  /\ wpc[d] = "zcheck"
  /\ IF ctxErr # "nil" THEN FinishContext(d) ELSE Goto(d, "zread")
  /\ WorkerFrame /\ UNCHANGED <<ended, bufVars, outVars, eofCalls, streamVars, results>>

(* splice(source, pipe) or sendfile(destination, source); onRead counts the   *)
(* blocks.  Sendfile also delivers.  Only an unsupported call before the      *)
(* first byte falls back to copyBuffered.                                     *)
ZeroRead(d) ==
  LET sendfile == cfg.kernelCopy = "sendfile" IN
  /\ wpc[d] = "zread"
  /\ \/ \E n \in 1 .. Unread(d) :
          /\ limit' = [limit EXCEPT ![d] = @ + n]
          /\ blocks' = [blocks EXCEPT ![d] = @ + BlockCount(n)]
          /\ IF sendfile
             THEN Deliver(d, n) /\ Goto(d, "zcheck")
             ELSE UNCHANGED <<start, out, bytes>> /\ Goto(d, "zpcheck")
          /\ UNCHANGED ended
     \/ /\ \/ ended' = [ended EXCEPT ![d] = TRUE] /\ Goto(d, "eof")
           \/ /\ \/ Goto(d, IF sendfile THEN "zpwait" ELSE "zwait")
                 \/ sendfile /\ Finish(d, "closed", "none")
                 \/ Finish(d, "failed", "io")
                 \/ IF bytes[d] = 0 THEN Goto(d, "check")
                    ELSE Finish(d, "failed", "io")
              /\ UNCHANGED ended
        /\ UNCHANGED <<start, limit, outVars>>
  /\ WorkerFrame /\ UNCHANGED <<er, wrote, eofCalls, streamVars, results>>

(* waitZeroCopyFD on the source: a hang-up without data is the end of file.   *)
ZeroWaitSource(d) ==
  /\ wpc[d] = "zwait"
  /\ \/ ctxErr # "nil" /\ FinishContext(d)
     \/ Goto(d, "zcheck")
     \/ Goto(d, "eof")
     \/ Finish(d, "failed", "io")
  /\ ended' = [ended EXCEPT ![d] = wpc'[d] = "eof"]
  /\ WorkerFrame /\ UNCHANGED <<bufVars, outVars, eofCalls, streamVars, results>>

(* The pump loop that empties the pipe into the destination.                  *)
ZeroPumpCheck(d) ==
  /\ wpc[d] = "zpcheck"
  /\ IF ctxErr # "nil" THEN FinishContext(d) ELSE Goto(d, "zpump")
  /\ WorkerFrame /\ UNCHANGED <<ended, bufVars, outVars, eofCalls, streamVars, results>>

ZeroPump(d) ==
  /\ wpc[d] = "zpump"
  /\ \/ \E n \in 1 .. limit[d] - start[d] :
          /\ Deliver(d, n)
          /\ Goto(d, IF start[d] + n = limit[d] THEN "zcheck" ELSE "zpcheck")
     \/ /\ \/ Goto(d, "zpwait")
           \/ Finish(d, "closed", "none")
           \/ Finish(d, "failed", "io")
        /\ UNCHANGED <<start, out, bytes>>
  /\ WorkerFrame /\ UNCHANGED <<ended, er, limit, wrote, blocks, eofCalls, streamVars, results>>

(* waitZeroCopyFD on the destination.                                         *)
ZeroWaitDestination(d) ==
  /\ wpc[d] = "zpwait"
  /\ \/ ctxErr # "nil" /\ FinishContext(d)
     \/ Goto(d, IF cfg.kernelCopy = "sendfile" THEN "zcheck" ELSE "zpcheck")
     \/ Finish(d, "closed", "none")
     \/ Finish(d, "failed", "io")
  /\ WorkerFrame /\ UNCHANGED <<ended, bufVars, outVars, eofCalls, streamVars, results>>

Worker(d) ==
  \/ CheckContext(d) \/ Poll(d) \/ Read(d) \/ Dump(d) \/ WriteCheck(d)
  \/ Write(d) \/ WaitWritable(d) \/ AfterRead(d) \/ SourceEOF(d)
  \/ ShutdownLock(d) \/ ShutdownWrite(d) \/ SendResult(d)
  \/ ZeroCheck(d) \/ ZeroRead(d) \/ ZeroWaitSource(d) \/ ZeroPumpCheck(d)
  \/ ZeroPump(d) \/ ZeroWaitDestination(d)

-----------------------------------------------------------------------------
(* The close goroutine: after cancellation, poke both read deadlines, then    *)
(* close both streams.                                                        *)
CloserFrame == UNCHANGED <<cfg, ended, ctxVars, wpc, bufVars, outVars, endVars,
                           mainVars, results, idleVars>>

(* Move on to the right stream, or from the right stream to the next stage.   *)
NextSide(stage, next) ==
  IF cside = "left" THEN cpc' = stage /\ cside' = "right"
                    ELSE cpc' = next /\ cside' = "left"

(* After <-ctx.Done(), pokeReadDeadline of each stream: skipped for a         *)
(* sessionWrap and without a deadline.                                        *)
CloserPoke ==
  /\ cpc = "poke" /\ ctxErr # "nil"
  /\ poked' = [poked EXCEPT ![cside] =
                 @ \/ (cside \notin cfg.noClose /\ cside \in cfg.deadline)]
  /\ NextSide("poke", "close")
  /\ CloserFrame /\ UNCHANGED <<closed, mu, shut>>

(* Mutant of CloserLock: Close without closeSerialStream's mutex. *)
CloserLockFree ==
  /\ cpc = "close"
  /\ mu' = [mu EXCEPT ![cside] = "closer"]
  /\ cpc' = "closing" /\ UNCHANGED cside
  /\ CloserFrame /\ UNCHANGED <<closed, poked, shut>>

(* closeSerialStream.Close.  A closed stream's deadline no longer matters.    *)
CloserLock ==
  /\ cpc = "close" /\ mu[cside] = "free"
  /\ mu' = [mu EXCEPT ![cside] = "closer"]
  /\ cpc' = "closing" /\ UNCHANGED cside
  /\ CloserFrame /\ UNCHANGED <<closed, poked, shut>>

(* Mutant of CloserClose: closes the left stream only. *)
CloserCloseLeft ==
  /\ cpc = "closing"
  /\ closed' = [closed EXCEPT ![cside] = cside = "left"]
  /\ poked' = [poked EXCEPT ![cside] = FALSE]
  /\ mu' = [mu EXCEPT ![cside] = "free"]
  /\ NextSide("close", "done")
  /\ CloserFrame /\ UNCHANGED shut

CloserClose ==
  /\ cpc = "closing"
  /\ closed' = [closed EXCEPT ![cside] = TRUE]
  /\ poked' = [poked EXCEPT ![cside] = FALSE]
  /\ mu' = [mu EXCEPT ![cside] = "free"]
  /\ NextSide("close", "done")
  /\ CloserFrame /\ UNCHANGED shut

Closer == CloserPoke \/ CloserLock \/ CloserClose

(* The goroutine of pokeReadDeadline clears the deadline after 10ms.          *)
PokeClear(s) ==
  /\ poked[s]
  /\ poked' = [poked EXCEPT ![s] = FALSE]
  /\ CloserFrame /\ UNCHANGED <<closed, mu, shut, closerVars>>

-----------------------------------------------------------------------------
(* startIdleWatch: the watcher leaves its select on a clock tick that finds   *)
(* the transfer idle, even when done or ctx.Done is ready too.                *)
IdleFrame == UNCHANGED <<cfg, ended, wpc, bufVars, outVars, endVars, streamVars,
                         mainVars, results, closerVars, idleStopped>>

IdleExpire == /\ watcher = "waiting" /\ watcher' = "expired"
              /\ IdleFrame /\ UNCHANGED ctxVars

IdleCancel == /\ watcher = "expired" /\ watcher' = "gone" /\ Cancel("idle")
              /\ IdleFrame

IdleStop == /\ watcher = "waiting" /\ (idleStopped \/ ctxErr # "nil")
            /\ watcher' = "gone"
            /\ IdleFrame /\ UNCHANGED ctxVars

LingerFire ==
  /\ linger = "running" /\ linger' = "fired"
  /\ UNCHANGED <<cfg, ended, ctxVars, wpc, bufVars, outVars, endVars, streamVars,
                 main, finished, store, inspect, err, stats, results, closerVars, idleVars>>

-----------------------------------------------------------------------------
(* Transfer's select loop.                                                    *)
(* The directions that run.                                                   *)
Count(d) == IF d \in cfg.dirs THEN 1 ELSE 0
nDirs == Count("LR") + Count("RL")

MainFrame == UNCHANGED <<cfg, ended, wpc, bufVars, outVars, endVars, streamVars,
                         closerVars, watcher>>

(* Mutant of Accept: inspects only the last outcome. *)
AcceptLast(live) ==
  LET d == Head(results) IN
  /\ results # <<>>
  /\ results' = Tail(results)
  /\ finished' = finished + 1
  /\ store' = [store EXCEPT ![d] = class[d]]
  /\ inspect' = IF live /\ finished > 0 THEN Append(inspect, d) ELSE inspect

(* transferOutcomes.accept of the outcome at the head of the channel.         *)
Accept(live) ==
  LET d == Head(results) IN
  /\ results # <<>>
  /\ results' = Tail(results)
  /\ finished' = finished + 1
  /\ store' = [store EXCEPT ![d] = class[d]]
  /\ inspect' = IF live THEN Append(inspect, d) ELSE inspect

(* case r := <-results: the first of two outcomes hands the session to -t.    *)
SelectResult ==
  /\ main = "select"
  /\ Accept(TRUE)
  /\ main' = IF finished + 1 = nDirs THEN "wait" ELSE "select"
  /\ IF finished = 0 /\ nDirs = 2
     THEN IF cfg.linger
          THEN linger' = "running" /\ idleStopped' = TRUE /\ UNCHANGED ctxVars
          ELSE Cancel("first") /\ UNCHANGED <<linger, idleStopped>>
     ELSE UNCHANGED <<linger, idleStopped, ctxVars>>
  /\ MainFrame /\ UNCHANGED <<err, stats>>

(* case <-lingerC and case <-ctx.Done(): drain the remaining outcomes.        *)
SelectLinger ==
  /\ main = "select" /\ linger = "fired"
  /\ Cancel("linger")
  /\ main' = "drain"
  /\ MainFrame
  /\ UNCHANGED <<finished, store, inspect, linger, err, stats, results, idleStopped>>

(* Mutant of SelectDone: leaves outcomes in the channel. *)
SelectDoneNoDrain ==
  /\ main = "select" /\ ctxErr # "nil"
  /\ main' = "wait"
  /\ MainFrame
  /\ UNCHANGED <<finished, store, inspect, linger, err, stats, results, idleStopped, ctxVars>>

SelectDone ==
  /\ main = "select" /\ ctxErr # "nil"
  /\ main' = "drain"
  /\ MainFrame
  /\ UNCHANGED <<finished, store, inspect, linger, err, stats, results, idleStopped, ctxVars>>

Drain ==
  /\ main = "drain"
  /\ Accept(FALSE)
  /\ main' = IF finished + 1 = nDirs THEN "wait" ELSE "drain"
  /\ MainFrame /\ UNCHANGED <<linger, err, stats, idleStopped, ctxVars>>

(* wg.Wait and the final cancel.                                              *)
WaitWorkers ==
  /\ main = "wait" /\ \A d \in cfg.dirs : wpc[d] = "done"
  /\ Cancel("end")
  /\ main' = "closing"
  /\ MainFrame
  /\ UNCHANGED <<finished, store, inspect, linger, err, stats, results, idleStopped>>

(* selectTransferError keeps an error already selected; selectedTransferError *)
(* applies it to the inspected outcomes, at most two, in order of arrival.    *)
SelectTransferError(first, d) ==
  IF first = "none" /\ store[d] = "failed" THEN d ELSE first

SelectedError ==
  LET first == IF Len(inspect) >= 1 THEN SelectTransferError("none", inspect[1]) ELSE "none"
  IN IF Len(inspect) >= 2 THEN SelectTransferError(first, inspect[2]) ELSE first

(* <-closeDone, the OnStats snapshot, the result and the deferred stopIdle.   *)
Return ==
  /\ main = "closing" /\ cpc = "done"
  /\ stats' = bytes
  /\ err' = SelectedError
  /\ main' = "returned" /\ idleStopped' = TRUE
  /\ MainFrame /\ UNCHANGED <<finished, store, inspect, linger, results, ctxVars>>

(* Transfer has returned; only detached goroutines may still step.            *)
Returned == main = "returned" /\ UNCHANGED vars

Main == SelectResult \/ SelectLinger \/ SelectDone \/ Drain \/ WaitWorkers \/ Return

Next ==
  \/ \E kind \in {"Canceled", "DeadlineExceeded"} : ParentDone(kind)
  \/ \E d \in cfg.dirs : Worker(d)
  \/ Closer \/ \E s \in Side : PokeClear(s)
  \/ IdleExpire \/ IdleCancel \/ IdleStop \/ LingerFire
  \/ Main \/ Returned

Spec == Init /\ [][Next]_vars

(* What the scheduler and the streams guarantee: a worker that is not blocked *)
(* in I/O goes on; Close wakes a blocked Read and Write; every poll is        *)
(* bounded and looks at the context again; timers fire.  Nothing is assumed   *)
(* of the peers.                                                              *)
Waiting == {"poll", "wwait", "zwait", "zpwait"}
Prompt(d) ==
  /\ d \in cfg.dirs
  /\ Worker(d)
  /\ wpc[d] = "read" => closed[Src(d)]
  /\ wpc[d] = "write" => closed[Dst(d)]
  /\ wpc[d] \in Waiting => ctxErr # "nil"

FairSpec ==
  /\ Spec
  /\ \A d \in Dir : WF_vars(Prompt(d))
  /\ WF_vars(Closer) /\ WF_vars(Main) /\ WF_vars(LingerFire)

(* A destination that is asked again and again takes some bytes.              *)
WriteProgress(d) == d \in cfg.dirs /\ (Write(d) \/ ZeroPump(d)) /\ out' # out
WriteReady(d) ==
  /\ d \in cfg.dirs
  /\ WaitWritable(d) \/ ZeroWaitDestination(d)
  /\ wpc'[d] \in {"wcheck", "zpcheck"}

TakesBytes(d) == SF_vars(WriteProgress(d)) /\ WF_vars(WriteReady(d))

-----------------------------------------------------------------------------
(* Types, by the process that owns the state.                                *)
ContextTypes ==
  /\ cfg \in Configs
  /\ ctxErr \in {"nil", "Canceled", "DeadlineExceeded"}
  /\ cancelBy \in {"nobody", "parent", "first", "linger", "idle", "end"}
  /\ watcher \in {"off", "waiting", "expired", "gone"} /\ idleStopped \in BOOLEAN
PointTypes ==
  /\ wpc \in [Dir -> WorkerPoint]
  /\ class \in [Dir -> Class]
  /\ why \in [Dir -> {"none", "io", "deadline", "poke"}]
BufferTypes ==
  /\ ended \in [Dir -> BOOLEAN] /\ er \in [Dir -> Errors] /\ wrote \in [Dir -> BOOLEAN]
  /\ start \in [Dir -> Nat] /\ limit \in [Dir -> Nat]
CountTypes ==
  /\ out \in [Dir -> Seq(Nat)] /\ bytes \in [Dir -> Nat]
  /\ blocks \in [Dir -> Nat] /\ eofCalls \in [Dir -> Nat]
StreamTypes ==
  /\ closed \in [Side -> BOOLEAN] /\ poked \in [Side -> BOOLEAN]
  /\ mu \in [Side -> {"free", "closer", "LR", "RL"}] /\ shut \in [Side -> BOOLEAN]
  /\ cpc \in {"poke", "close", "closing", "done"} /\ cside \in Side
MainTypes ==
  /\ main \in {"select", "drain", "wait", "closing", "returned"}
  /\ finished \in Nat
  /\ store \in [Dir -> Class]
  /\ inspect \in Seq(Dir)
  /\ linger \in {"off", "running", "fired"}
  /\ err \in {"none", "LR", "RL"}
  /\ stats \in [Dir -> Nat]
  /\ results \in Seq(Dir)

(* The type invariant of Transfer's state.  Its last conjunct has content:    *)
(* the results channel (capacity 2, relay.go:245) never makes a worker wait.  *)
TypeOK ==
  /\ ContextTypes /\ PointTypes /\ BufferTypes /\ CountTypes
  /\ StreamTypes /\ MainTypes
  /\ Len(results) <= 2

(* copyBuffered, writeBlock and linuxZeroCopy deliver each source byte once   *)
(* and in order, across partial writes, retries and the zero-copy fallback.   *)
ExactPrefix == \A d \in Dir : \A i \in DOMAIN out[d] : out[d][i] = i

(* finishSourceEOF half-closes a destination only when the source itself has  *)
(* reported its end and every byte read from it was written.  In particular   *)
(* the benign error of a stream that cancellation closed never does it.       *)
HalfCloseComplete ==
  \A d \in Dir : shut[Dst(d)] => ended[d] /\ Len(out[d]) = limit[d]

(* closeSerialStream: a Close and a ShutdownWrite of one stream never overlap.*)
CloseShutdownExclusive ==
  \A d \in Dir : wpc[d] = "shutting" => ~(cpc = "closing" /\ cside = Dst(d))

(* When Transfer returns no worker runs, no outcome is left in the channel,   *)
(* both streams are closed for this session and no stream mutex is held.      *)
ReturnQuiescent ==
  main = "returned" =>
    /\ \A d \in cfg.dirs : wpc[d] = "done"
    /\ results = <<>>
    /\ \A s \in Side : closed[s] /\ mu[s] = "free"

(* The OnStats snapshot is final: it counts exactly the bytes delivered.      *)
StatsFinal == main = "returned" => \A d \in Dir : stats[d] = Len(out[d])

(* What the caller of Transfer finds: everything at rest and the final counts.*)
ReturnComplete == ReturnQuiescent /\ StatsFinal

(* A cancellation is never reported as a failure: the returned error is a     *)
(* real I/O error or the caller's deadline, not the timeout of the poke.      *)
ErrorIsReal == err # "none" => class[err] = "failed" /\ why[err] \in {"io", "deadline"}

(* A failure is only ever dropped because of a cancellation: when nothing     *)
(* cancelled the transfer before its end, a failed direction is reported.     *)
FailureReported ==
  main = "returned" /\ cancelBy = "end" /\ (\E d \in Dir : class[d] = "failed")
    => err # "none"

(* The error Transfer returns says what happened: no cancellation is taken    *)
(* for a failure, and no failure is dropped but for a cancellation.           *)
FailureExact == ErrorIsReal /\ FailureReported

(* After Transfer returned, its goroutines touch neither stream nor counters. *)
NothingAfterReturn ==
  [][main = "returned" => UNCHANGED <<out, bytes, blocks, shut, closed, mu, eofCalls>>]_vars

(* Cancellation ends the transfer, whatever the peers do (signals, -T, -t).   *)
CancelReturns == (ctxErr # "nil") ~> (main = "returned")

(* Once a direction has ended, for whatever reason, Transfer returns: at once *)
(* with -t 0 or a single direction, else at the latest when -t expires.       *)
EndReturns == (\E d \in Dir : wpc[d] = "done") ~> (main = "returned")

(* Transfer returns whenever it is cancelled or a direction has ended.        *)
TransferReturns == CancelReturns /\ EndReturns

(* With a destination that accepts bytes now and then, what was read reaches  *)
(* it or the direction ends with an outcome; no retry loop spins forever.     *)
ReadIsDelivered ==
  \A d \in Dir :
    TakesBytes(d) => ((limit[d] > Len(out[d])) ~> (limit[d] = Len(out[d]) \/ class[d] # "none"))

(* Transfer implements the contract of ByteRelay.                             *)
Contract == INSTANCE ByteRelay WITH
  Direction <- Dir, taken <- limit, delivered <- out, atEOF <- ended,
  halfClosed <- [d \in Dir |-> shut[Dst(d)]], returned <- (main = "returned")
ImplementsByteRelay == Contract!Spec

(* relay.go:48 says OnEOF is called "when that side reaches EOF".             *)
OnEOFMeansEOF == \A d \in Dir : eofCalls[d] > 0 => ended[d]

(* relay.go:320 says that after one side's EOF "-t owns the rest of the       *)
(* session": the idle watcher would not be what ends it.                      *)
LingerOwnsSession ==
  [][linger = "running" /\ ctxErr = "nil" /\ ctxErr' # "nil" => cancelBy' # "idle"]_vars

-----------------------------------------------------------------------------
(* The configurations TLC is given for Configs.                              *)
oneWay == [dirs |-> {"LR"}, linger |-> TRUE, idle |-> FALSE, noClose |-> {},
           deadline |-> {"left"}, poll |-> FALSE, dump |-> FALSE,
           kernelCopy |-> "none", bytes |-> 3]
twoWay == [oneWay EXCEPT !.dirs = Dir, !.bytes = 1]

(* -u: every way to copy the bytes of one direction.                         *)
OneWayConfigs ==
  {[oneWay EXCEPT !.idle = TRUE, !.dump = TRUE],
   [oneWay EXCEPT !.poll = TRUE, !.noClose = {"left"}],
   [oneWay EXCEPT !.kernelCopy = "splice"],
   [oneWay EXCEPT !.kernelCopy = "sendfile"]}

(* Both directions: -t positive and zero, a shared stream, no read deadline. *)
TwoWayConfigs ==
  {twoWay,
   [twoWay EXCEPT !.linger = FALSE],
   [twoWay EXCEPT !.noClose = {"left"}, !.deadline = {}]}

SafetyConfigs == OneWayConfigs \cup TwoWayConfigs

(* The smallest mixture for the temporal properties.                         *)
LiveConfigs ==
  {[twoWay EXCEPT !.bytes = 0],
   [twoWay EXCEPT !.linger = FALSE, !.noClose = {"left"}, !.deadline = {}, !.bytes = 0],
   [oneWay EXCEPT !.idle = TRUE, !.poll = TRUE, !.bytes = 2],
   [oneWay EXCEPT !.deadline = {}, !.noClose = {"right"}, !.bytes = 1],
   [oneWay EXCEPT !.kernelCopy = "splice", !.bytes = 2]}

(* -t and -T together.                                                       *)
LingerConfigs == {[twoWay EXCEPT !.idle = TRUE, !.bytes = 0]}
=============================================================================
