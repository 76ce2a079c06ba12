------------------------------ MODULE IdleClock ------------------------------
(***************************************************************************)
(* Inactivity timeouts (-T): the process-wide clock of                     *)
(* internal/relay/idle_clock.go, shared by the watchers of all transfers,  *)
(* and startIdleWatch of internal/relay/relay.go with the touch function   *)
(* its workers call after every block.                                     *)
(*                                                                         *)
(* A critical section of the clock's mutex is one step.  The atomic loads  *)
(* and the compare-and-swap of lastActivity are steps of their own, and    *)
(* time passes between any two of them.                                    *)
(***************************************************************************)
EXTENDS Naturals, FiniteSets

CONSTANTS
  Watch,     \* transfers with an inactivity timeout
  Worker,    \* the workers of a transfer
  Configs,   \* what to run: records of the transfers that may start (starts)
             \* and of those whose workers move blocks (moves)
  Idle,      \* the timeout
  MaxTime    \* bound: the last instant; transfers start and blocks move
             \* only while a full timeout is left

ASSUME IdleAssumption ==
  /\ Idle \in Nat \ {0} /\ MaxTime \in Nat /\ Idle <= MaxTime
  /\ Configs \subseteq [starts : SUBSET Watch, moves : SUBSET Watch]

VARIABLES
  cfg,                   \* a member of Configs
  now,
  users, running,        \* idleClock
  sleepers,              \* goroutines in idleClock.run
  pc,                    \* of every watcher
  chan,                  \* the tick channel its select took: "none", "open"
                         \* (idleClock.tick as it is now), "closed"
  started, elapsed, last,       \* its locals
  activity,              \* lastActivity
  done,                  \* "no", or why the watcher must end: "stopped" (stop),
                         \* "cancelled" (ctx, from elsewhere), "expired" (its own cancel)
  tpc, at, old,          \* every worker: where it is in touch, and touch's locals
  touched                \* history: the latest instant of a touch that returned

clockVars == <<users, running, sleepers>>
watchVars == <<pc, chan, started, elapsed, last>>
touchVars == <<tpc, at, old, touched>>
vars == <<cfg, now, clockVars, watchVars, activity, done, touchVars>>

Init ==
  /\ cfg \in Configs /\ now = 0
  /\ users = 0 /\ running = FALSE /\ sleepers = 0
  /\ pc = [t \in Watch |-> "off"] /\ chan = [t \in Watch |-> "none"]
  /\ started = [t \in Watch |-> 0] /\ elapsed = [t \in Watch |-> 0] /\ last = [t \in Watch |-> 0]
  /\ activity = [t \in Watch |-> 0] /\ done = [t \in Watch |-> "no"]
  /\ tpc = [t \in Watch |-> [w \in Worker |-> "idle"]]
  /\ at = [t \in Watch |-> [w \in Worker |-> 0]]
  /\ old = [t \in Watch |-> [w \in Worker |-> 0]]
  /\ touched = [t \in Watch |-> 0]

TimeLeft == now + Idle <= MaxTime

Pass ==
  /\ now < MaxTime
  /\ now' = now + 1
  /\ UNCHANGED <<cfg, clockVars, watchVars, activity, done, touchVars>>

-----------------------------------------------------------------------------
(* The shared clock. *)

Subscribe ==
  /\ users' = users + 1
  /\ IF running THEN UNCHANGED <<running, sleepers>>
     ELSE running' = TRUE /\ sleepers' = sleepers + 1

(* close(c.tick) and a new channel. *)
CloseTick == chan' = [t \in Watch |-> IF chan[t] = "open" THEN "closed" ELSE chan[t]]

(* The goroutine that ends does not say so. *)
RunForgetsRunning ==
  /\ sleepers > 0
  /\ IF users = 0
       THEN sleepers' = sleepers - 1 /\ UNCHANGED <<chan, running>>
       ELSE CloseTick /\ UNCHANGED <<running, sleepers>>
  /\ UNCHANGED <<cfg, now, users, pc, started, elapsed, last, activity, done, touchVars>>

(* One pass of run after its sleep: it ends when nobody subscribes, and    *)
(* wakes the current channel's waiters otherwise.                          *)
Run ==
  /\ sleepers > 0
  /\ IF users = 0
       THEN running' = FALSE /\ sleepers' = sleepers - 1 /\ UNCHANGED chan
       ELSE CloseTick /\ UNCHANGED <<running, sleepers>>
  /\ UNCHANGED <<cfg, now, users, pc, started, elapsed, last, activity, done, touchVars>>

-----------------------------------------------------------------------------
(* The watcher of transfer t. *)
StartIdleWatch(t) ==
  /\ t \in cfg.starts /\ pc[t] = "off" /\ TimeLeft
  /\ Subscribe
  /\ started' = [started EXCEPT ![t] = now]
  /\ pc' = [pc EXCEPT ![t] = "next"]
  /\ UNCHANGED <<cfg, now, chan, elapsed, last, activity, done, touchVars>>

(* clock.next(), evaluated when the select is entered. *)
NextTick(t) ==
  /\ pc[t] = "next"
  /\ chan' = [chan EXCEPT ![t] = "open"]
  /\ pc' = [pc EXCEPT ![t] = "select"]
  /\ UNCHANGED <<cfg, now, clockVars, started, elapsed, last, activity, done, touchVars>>

(* The tick, and time.Since(started). *)
Ticked(t) ==
  /\ pc[t] = "select" /\ chan[t] = "closed"
  /\ elapsed' = [elapsed EXCEPT ![t] = now - started[t]]
  /\ pc' = [pc EXCEPT ![t] = "load"] /\ chan' = [chan EXCEPT ![t] = "none"]
  /\ UNCHANGED <<cfg, now, clockVars, started, last, activity, done, touchVars>>

LoadActivity(t) ==
  /\ pc[t] = "load"
  /\ last' = [last EXCEPT ![t] = activity[t]]
  /\ pc' = [pc EXCEPT ![t] =
       IF elapsed[t] >= activity[t] + Idle THEN "recheck" ELSE "next"]
  /\ UNCHANGED <<cfg, now, clockVars, chan, started, elapsed, activity, done, touchVars>>

(* The second load: progress since the first one starts over. *)
Recheck(t) ==
  /\ pc[t] = "recheck"
  /\ pc' = [pc EXCEPT ![t] = IF activity[t] # last[t] THEN "next" ELSE "cancel"]
  /\ UNCHANGED <<cfg, now, clockVars, chan, started, elapsed, last, activity, done, touchVars>>

Expire(t) ==
  /\ pc[t] = "cancel"
  /\ done' = [done EXCEPT ![t] = IF @ = "no" THEN "expired" ELSE @]
  /\ pc' = [pc EXCEPT ![t] = "close"]
  /\ UNCHANGED <<cfg, now, clockVars, chan, started, elapsed, last, activity, touchVars>>

(* ctx.Done() or done in the select. *)
EndWatch(t) ==
  /\ pc[t] = "select" /\ done[t] # "no"
  /\ pc' = [pc EXCEPT ![t] = "close"] /\ chan' = [chan EXCEPT ![t] = "none"]
  /\ UNCHANGED <<cfg, now, clockVars, started, elapsed, last, activity, done, touchVars>>

(* The deferred clock.close(). *)
Close(t) ==
  /\ pc[t] = "close"
  /\ users' = users - 1
  /\ pc' = [pc EXCEPT ![t] = "over"]
  /\ UNCHANGED <<cfg, now, running, sleepers, chan, started, elapsed, last, activity, done, touchVars>>

(* The transfer ends on its own (its context is cancelled) or calls stop   *)
(* when its linger timer takes over.                                       *)
Release(t) ==
  /\ pc[t] # "off" /\ done[t] = "no"
  /\ \E why \in {"stopped", "cancelled"} : done' = [done EXCEPT ![t] = why]
  /\ UNCHANGED <<cfg, now, clockVars, watchVars, activity, touchVars>>

-----------------------------------------------------------------------------
(* touch, called by a worker of t after it moved a block. *)
Touch(t, w) ==
  /\ t \in cfg.moves /\ pc[t] # "off" /\ tpc[t][w] = "idle" /\ done[t] = "no" /\ TimeLeft
  /\ at' = [at EXCEPT ![t][w] = now - started[t]]
  /\ tpc' = [tpc EXCEPT ![t][w] = "load"]
  /\ UNCHANGED <<cfg, now, clockVars, watchVars, activity, done, old, touched>>

(* touch returns; touched remembers the latest instant. *)
TouchReturns(t, w) ==
  /\ tpc' = [tpc EXCEPT ![t][w] = "idle"]
  /\ touched' = [touched EXCEPT ![t] = IF at[t][w] > @ THEN at[t][w] ELSE @]

TouchLoad(t, w) ==
  /\ tpc[t][w] = "load"
  /\ old' = [old EXCEPT ![t][w] = activity[t]]
  /\ IF at[t][w] <= activity[t] THEN TouchReturns(t, w)
     ELSE tpc' = [tpc EXCEPT ![t][w] = "swap"] /\ UNCHANGED touched
  /\ UNCHANGED <<cfg, now, clockVars, watchVars, activity, done, at>>

(* A lost race ends the call. *)
TouchSwapOnce(t, w) ==
  /\ tpc[t][w] = "swap"
  /\ activity' = [activity EXCEPT ![t] = IF @ = old[t][w] THEN at[t][w] ELSE @]
  /\ TouchReturns(t, w)
  /\ UNCHANGED <<cfg, now, clockVars, watchVars, done, at, old>>

(* CompareAndSwap; another worker's touch in between makes it try again. *)
TouchSwap(t, w) ==
  /\ tpc[t][w] = "swap"
  /\ IF activity[t] = old[t][w]
       THEN activity' = [activity EXCEPT ![t] = at[t][w]] /\ TouchReturns(t, w)
       ELSE tpc' = [tpc EXCEPT ![t][w] = "load"] /\ UNCHANGED <<activity, touched>>
  /\ UNCHANGED <<cfg, now, clockVars, watchVars, done, at, old>>

-----------------------------------------------------------------------------
Watcher(t) ==
  \/ NextTick(t) \/ Ticked(t) \/ LoadActivity(t) \/ Recheck(t)
  \/ Expire(t) \/ EndWatch(t) \/ Close(t)

Toucher(t, w) == TouchLoad(t, w) \/ TouchSwap(t, w)

Next ==
  \/ Pass \/ Run
  \/ \E t \in Watch : StartIdleWatch(t) \/ Watcher(t) \/ Release(t)
  \/ \E t \in Watch, w \in Worker : Touch(t, w) \/ Toucher(t, w)

Spec == Init /\ [][Next]_vars

(* Fairness: time passes, and the clock's and the watchers' goroutines and *)
(* a touch that began run on.  When Run may always be taken, a watcher     *)
(* still gets to its select: each has its own fairness.                    *)
FairSpec ==
  /\ Spec /\ WF_vars(Pass) /\ WF_vars(Run)
  /\ \A t \in Watch : WF_vars(Watcher(t))
  /\ \A t \in Watch, w \in Worker : WF_vars(Toucher(t, w))

-----------------------------------------------------------------------------
Subscribed(t) == pc[t] \notin {"off", "over"}

(* Types. *)
TypeOK ==
  /\ cfg \in Configs /\ now \in 0..MaxTime /\ users \in Nat
  /\ running \in BOOLEAN /\ sleepers \in 0..1
  /\ pc \in [Watch -> {"off", "next", "select", "load", "recheck", "cancel", "close", "over"}]
  /\ chan \in [Watch -> {"none", "open", "closed"}]
  /\ done \in [Watch -> {"no", "stopped", "cancelled", "expired"}]
  /\ \A t \in Watch : {started[t], elapsed[t], last[t], activity[t], touched[t]} \subseteq Nat
  /\ tpc \in [Watch -> [Worker -> {"idle", "load", "swap"}]]

(* The process has at most one clock goroutine, and one whenever a watcher *)
(* depends on it, whatever the order in which watchers come and go.        *)
OneClock ==
  /\ TypeOK
  /\ sleepers = (IF running THEN 1 ELSE 0)
  /\ users = Cardinality({t \in Watch : Subscribed(t)})
  /\ users > 0 => running

(* A transfer whose touch has returned is not found idle before a full     *)
(* timeout has passed since that touch, whichever worker touched last.     *)
NoEarlyExpiry ==
  [][\A t \in Watch : Recheck(t) /\ pc'[t] = "cancel" => now >= started[t] + touched[t] + Idle]_vars

(* lastActivity never goes back, though two workers race to set it. *)
ActivityGrows == [][\A t \in Watch : activity'[t] >= activity[t]]_vars

(* A transfer that makes no progress any more is cancelled. *)
QuietDue(t) == pc[t] # "off" /\ done[t] = "no"

(* When no watcher is left the clock goroutine ends. *)
StopDue == running /\ \A t \in cfg.starts : pc[t] = "over"
==============================================================================
