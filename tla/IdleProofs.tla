------------------------------ MODULE IdleProofs ------------------------------
(***************************************************************************)
(* Proofs about the inactivity timeout: lastActivity never goes back, and  *)
(* a transfer is found idle only a full timeout after the latest touch     *)
(* that returned, for any number of transfers and workers and any timeout. *)
(*                                                                         *)
(* The invariant follows the values through the race.  touch: what a       *)
(* worker is about to swap in is larger than what it loaded, and the       *)
(* latest instant of a finished touch is at most lastActivity.  Watcher:   *)
(* elapsed is at most the time since the start, and once the first load    *)
(* found the transfer idle, last lies a timeout before elapsed.            *)
(***************************************************************************)
EXTENDS IdleClock, FiniteSetTheorems, TLAPS

(* A leaf that names no prover is for the SMT solver, with time to spare.  *)
USE SMTT(60)

Values ==
  /\ now \in Nat
  /\ started \in [Watch -> Nat] /\ elapsed \in [Watch -> Nat] /\ last \in [Watch -> Nat]
  /\ activity \in [Watch -> Nat] /\ touched \in [Watch -> Nat]
  /\ at \in [Watch -> [Worker -> Nat]] /\ old \in [Watch -> [Worker -> Nat]]
  /\ pc \in [Watch -> {"off", "next", "select", "load", "recheck", "cancel", "close", "over"}]
  /\ tpc \in [Watch -> [Worker -> {"idle", "load", "swap"}]]

Swapping == \A t \in Watch, w \in Worker : tpc[t][w] = "swap" => at[t][w] > old[t][w]
Remembered == \A t \in Watch : touched[t] <= activity[t]
Measured ==
  \A t \in Watch :
    /\ started[t] <= now
    /\ pc[t] # "off" => started[t] + elapsed[t] <= now
    /\ pc[t] = "off" => elapsed[t] = 0
    /\ pc[t] = "recheck" => last[t] + Idle <= elapsed[t]

IInv == Values /\ Swapping /\ Remembered /\ Measured

LEMMA InitIInv == Init => IInv
  BY IdleAssumption DEF Init, IInv, Values, Swapping, Remembered, Measured

(* The steps that only move the clock or the watcher's select. *)
LEMMA ClockStep == IInv /\ (Pass \/ Run) => IInv'
<1>1. ASSUME IInv, Pass PROVE IInv'
  BY <1>1 DEF Pass, IInv, Values, Swapping, Remembered, Measured, clockVars, watchVars, touchVars
<1>2. ASSUME IInv, Run PROVE IInv'
  BY <1>2 DEF Run, IInv, Values, Swapping, Remembered, Measured, touchVars
<1>3. QED BY <1>1, <1>2

LEMMA WatcherStep ==
  ASSUME NEW t \in Watch, IInv, StartIdleWatch(t) \/ Watcher(t) \/ Release(t) PROVE IInv'
<1>0. UNCHANGED <<now, activity, touchVars>>
  BY DEF StartIdleWatch, Watcher, NextTick, Ticked, LoadActivity, Recheck, Expire, EndWatch, Close, Release
<1>1. Swapping' /\ Remembered'
  BY <1>0 DEF IInv, Swapping, Remembered, touchVars
<1>2. CASE StartIdleWatch(t)
  <2>1. Values' /\ Measured'
    BY <1>0, <1>2 DEF StartIdleWatch, IInv, Values, Measured, touchVars
  <2>2. QED BY <1>1, <2>1 DEF IInv
<1>3. CASE Ticked(t)
  <2>1. now - started[t] \in Nat
    BY DEF IInv, Values, Measured
  <2>2. Values' /\ Measured'
    BY <1>0, <1>3, <2>1 DEF Ticked, IInv, Values, Measured, touchVars
  <2>3. QED BY <1>1, <2>2 DEF IInv
<1>4. CASE LoadActivity(t)
  <2>1. Values'
    BY <1>0, <1>4 DEF LoadActivity, IInv, Values, touchVars
  <2>2. Measured'
    BY <1>0, <1>4, IdleAssumption DEF LoadActivity, IInv, Values, Measured
  <2>3. QED BY <1>1, <2>1, <2>2 DEF IInv
<1>5. CASE NextTick(t) \/ Recheck(t) \/ Expire(t) \/ EndWatch(t) \/ Close(t)
  <2>1. Values' /\ Measured'
    BY ZenonT(60), <1>0, <1>5 DEF NextTick, Recheck, Expire, EndWatch, Close, IInv, Values, Measured, touchVars
  <2>2. QED BY <1>1, <2>1 DEF IInv
<1>6. CASE Release(t)
  BY <1>1, <1>6 DEF Release, IInv, Values, Measured, watchVars, touchVars
<1>7. QED BY <1>2, <1>3, <1>4, <1>5, <1>6 DEF Watcher

LEMMA TouchStep ==
  ASSUME NEW t \in Watch, NEW w \in Worker, IInv, Touch(t, w) \/ Toucher(t, w) PROVE IInv'
<1>0. UNCHANGED <<now, watchVars>>
  BY DEF Touch, Toucher, TouchLoad, TouchSwap
<1>1. Measured'
  BY <1>0 DEF IInv, Measured, watchVars
<1>2. CASE Touch(t, w)
  <2>1. now - started[t] \in Nat
    BY DEF IInv, Values, Measured
  <2>2. Values' /\ Swapping' /\ Remembered'
    BY <1>0, <1>2, <2>1 DEF Touch, IInv, Values, Swapping, Remembered, watchVars
  <2>3. QED BY <1>1, <2>2 DEF IInv
<1>3. ASSUME NEW s \in {"load", "swap", "idle"}, NEW n \in Nat, NEW g \in Nat, NEW a \in Nat,
             tpc' = [tpc EXCEPT ![t][w] = s], old' = [old EXCEPT ![t][w] = n],
             touched' = [touched EXCEPT ![t] = g], activity' = [activity EXCEPT ![t] = a], at' = at,
             s = "swap" => at[t][w] > n, g <= a
      PROVE IInv'
  <2>1. Values'
    BY <1>0, <1>3 DEF IInv, Values, watchVars
  <2>2. Swapping'
    <3> SUFFICES ASSUME NEW u \in Watch, NEW v \in Worker, tpc'[u][v] = "swap"
                 PROVE at'[u][v] > old'[u][v]
      BY DEF Swapping
    <3>1. CASE u = t /\ v = w
      BY <1>3, <3>1 DEF IInv, Values
    <3>2. CASE ~(u = t /\ v = w)
      <4>1. tpc'[u][v] = tpc[u][v] /\ old'[u][v] = old[u][v]
        BY <1>3, <3>2 DEF IInv, Values
      <4>2. QED BY <1>3, <4>1 DEF IInv, Swapping
    <3>3. QED BY <3>1, <3>2
  <2>3. Remembered'
    BY <1>3 DEF IInv, Values, Remembered
  <2>4. QED BY <1>1, <2>1, <2>2, <2>3 DEF IInv
<1> DEFINE latest == IF at[t][w] > touched[t] THEN at[t][w] ELSE touched[t]
<1>4. /\ latest \in Nat /\ activity[t] \in Nat /\ touched[t] \in Nat /\ touched[t] <= activity[t]
      /\ at[t][w] \in Nat /\ old[t][w] \in Nat
      /\ at[t][w] <= activity[t] => latest <= activity[t]
      /\ touched = [touched EXCEPT ![t] = touched[t]]
      /\ activity = [activity EXCEPT ![t] = activity[t]]
      /\ old = [old EXCEPT ![t][w] = old[t][w]]
  BY DEF IInv, Values, Remembered
<1> HIDE DEF latest
<1>5. CASE TouchLoad(t, w)
  <2>1. CASE at[t][w] <= activity[t]
    <3>1. tpc' = [tpc EXCEPT ![t][w] = "idle"] /\ touched' = [touched EXCEPT ![t] = latest]
      BY <1>5, <2>1 DEF TouchLoad, TouchReturns, latest
    <3>2. old' = [old EXCEPT ![t][w] = activity[t]] /\ activity' = activity /\ at' = at
      BY <1>5 DEF TouchLoad
    <3>3. QED BY ZenonT(60), <1>3, <1>4, <2>1, <3>1, <3>2
  <2>2. CASE ~(at[t][w] <= activity[t])
    <3>1. tpc' = [tpc EXCEPT ![t][w] = "swap"] /\ touched' = touched
      BY <1>5, <2>2 DEF TouchLoad
    <3>2. old' = [old EXCEPT ![t][w] = activity[t]] /\ activity' = activity /\ at' = at
      BY <1>5 DEF TouchLoad
    <3>3. at[t][w] > activity[t]
      BY <1>4, <2>2
    <3>4. QED BY ZenonT(60), <1>3, <1>4, <3>1, <3>2, <3>3
  <2>3. QED BY <2>1, <2>2
<1>6. CASE TouchSwap(t, w)
  <2>1. CASE activity[t] = old[t][w]
    <3>1. tpc' = [tpc EXCEPT ![t][w] = "idle"] /\ touched' = [touched EXCEPT ![t] = latest]
      BY <1>6, <2>1 DEF TouchSwap, TouchReturns, latest
    <3>2. activity' = [activity EXCEPT ![t] = at[t][w]] /\ at' = at /\ old' = old
      BY <1>6, <2>1 DEF TouchSwap
    <3>3. at[t][w] > activity[t]
      BY <1>6, <2>1 DEF TouchSwap, IInv, Swapping
    <3>4. latest <= at[t][w]
      BY <1>4, <3>3 DEF latest
    <3>5. QED BY ZenonT(60), <1>3, <1>4, <3>1, <3>2, <3>4
  <2>2. CASE activity[t] # old[t][w]
    <3>1. tpc' = [tpc EXCEPT ![t][w] = "load"] /\ UNCHANGED <<activity, touched, at, old>>
      BY <1>6, <2>2 DEF TouchSwap
    <3>2. QED BY <1>3, <1>4, <3>1
  <2>3. QED BY <2>1, <2>2
<1>7. QED BY <1>2, <1>5, <1>6 DEF Toucher

(* The inductive invariant holds in every reachable state. *)
THEOREM Invariance == Spec => []IInv
<1>1. IInv /\ [Next]_vars => IInv'
  <2>1. ASSUME IInv, UNCHANGED vars PROVE IInv'
    BY <2>1 DEF vars, clockVars, watchVars, touchVars, IInv, Values, Swapping, Remembered, Measured
  <2>2. QED BY <2>1, ClockStep, WatcherStep, TouchStep DEF Next
<1>2. QED BY InitIInv, <1>1, PTL DEF Spec

(* lastActivity never goes back (ActivityGrows): the compare-and-swap of   *)
(* touch succeeds only against the value it found too small.               *)
THEOREM ActivityIsMonotonic == Spec => ActivityGrows
<1>1. IInv /\ [Next]_vars => [\A t \in Watch : activity'[t] >= activity[t]]_vars
  <2> SUFFICES ASSUME IInv, Next PROVE \A t \in Watch : activity'[t] >= activity[t]
    OBVIOUS
  <2>1. CASE activity' = activity
    BY <2>1 DEF IInv, Values
  <2>2. ASSUME NEW t \in Watch, NEW w \in Worker, TouchSwap(t, w)
        PROVE \A u \in Watch : activity'[u] >= activity[u]
    <3>1. CASE activity[t] = old[t][w]
      <4>1. activity' = [activity EXCEPT ![t] = at[t][w]] /\ at[t][w] > activity[t]
        BY <2>2, <3>1 DEF TouchSwap, IInv, Swapping
      <4>2. QED BY <4>1 DEF IInv, Values
    <3>2. CASE activity[t] # old[t][w]
      <4>1. activity' = activity
        BY <2>2, <3>2 DEF TouchSwap
      <4>2. QED BY <4>1 DEF IInv, Values
    <3>3. QED BY <3>1, <3>2
  <2>3. activity' = activity \/ \E t \in Watch, w \in Worker : TouchSwap(t, w)
    BY DEF Next, Pass, Run, StartIdleWatch, Watcher, NextTick, Ticked, LoadActivity, Recheck, Expire,
       EndWatch, Close, Release, Touch, Toucher, TouchLoad
  <2>4. QED BY <2>1, <2>2, <2>3
<1>2. QED BY Invariance, <1>1, PTL DEF Spec, ActivityGrows

(* The watcher of startIdleWatch gives a transfer up only a full timeout   *)
(* after the latest touch that returned (NoEarlyExpiry): its two loads of  *)
(* lastActivity agree, and the touches they stand for are that old.        *)
THEOREM NeverTooEarly == Spec => NoEarlyExpiry
<1>1. IInv /\ [Next]_vars =>
      [\A t \in Watch : Recheck(t) /\ pc'[t] = "cancel" => now >= started[t] + touched[t] + Idle]_vars
  <2> SUFFICES ASSUME IInv, NEW t \in Watch, Recheck(t), pc'[t] = "cancel"
               PROVE now >= started[t] + touched[t] + Idle
    OBVIOUS
  <2>1. pc[t] = "recheck" /\ activity[t] = last[t]
    BY DEF Recheck, IInv, Values
  <2>2. touched[t] <= last[t] /\ last[t] + Idle <= elapsed[t] /\ started[t] + elapsed[t] <= now
    BY <2>1 DEF IInv, Remembered, Measured
  <2>3. QED BY <2>2, IdleAssumption DEF IInv, Values
<1>2. QED BY Invariance, <1>1, PTL DEF Spec, NoEarlyExpiry
-----------------------------------------------------------------------------
(* The clock goroutine.  users counts the subscribed watchers, of which    *)
(* there are finitely many at any time, whatever the set Watch is.         *)
Subscribers == {t \in Watch : Subscribed(t)}

ClockInv ==
  /\ IsFiniteSet(Subscribers) /\ users = Cardinality(Subscribers)
  /\ running \in BOOLEAN /\ (running => sleepers = 1) /\ (~running => sleepers = 0)
  /\ users # 0 => running

(* The parts of TypeOK that the values of the race leave out.              *)
RestTypes ==
  /\ cfg \in Configs /\ now \in 0..MaxTime
  /\ chan \in [Watch -> {"none", "open", "closed"}]
  /\ done \in [Watch -> {"no", "stopped", "cancelled", "expired"}]

LEMMA InitClock == Init => ClockInv /\ RestTypes
<1> SUFFICES ASSUME Init PROVE ClockInv /\ RestTypes
  OBVIOUS
<1>1. Subscribers = {}
  BY DEF Init, Subscribers, Subscribed
<1>2. IsFiniteSet(Subscribers) /\ Cardinality(Subscribers) = 0
  BY <1>1, FS_EmptySet
<1>3. users = 0 /\ running = FALSE /\ sleepers = 0
  BY DEF Init
<1>4. ClockInv
  BY <1>2, <1>3, ZenonT(30) DEF ClockInv
<1>5. RestTypes
  BY IdleAssumption DEF Init, RestTypes
<1>6. QED BY <1>4, <1>5

(* Only the start of a watcher and its deferred close change the set.      *)
LEMMA SameSubscribers ==
  ASSUME ClockInv, Subscribers' = Subscribers, UNCHANGED clockVars
  PROVE  ClockInv'
  BY DEF ClockInv, clockVars

LEMMA NextClock == IInv /\ ClockInv /\ [Next]_vars => ClockInv'
<1> SUFFICES ASSUME IInv, ClockInv, [Next]_vars PROVE ClockInv'
  OBVIOUS
<1>1. ASSUME NEW t \in Watch, StartIdleWatch(t) PROVE ClockInv'
  <2>1. t \notin Subscribers /\ Subscribers' = Subscribers \cup {t}
    BY <1>1 DEF StartIdleWatch, Subscribers, Subscribed, IInv, Values
  <2>2. IsFiniteSet(Subscribers') /\ Cardinality(Subscribers') = Cardinality(Subscribers) + 1
    BY <2>1, FS_AddElement DEF ClockInv
  <2>3. users' = users + 1 /\ (running => UNCHANGED <<running, sleepers>>)
        /\ (~running => running' = TRUE /\ sleepers' = sleepers + 1)
    BY <1>1 DEF StartIdleWatch, Subscribe
  <2>4. running' = TRUE /\ sleepers' = 1
    <3>1. CASE running
      BY <2>3, <3>1, ZenonT(30) DEF ClockInv
    <3>2. CASE ~running
      <4>1. sleepers = 0 /\ sleepers' = sleepers + 1 /\ running' = TRUE
        BY <2>3, <3>2, ZenonT(30) DEF ClockInv
      <4>2. QED BY <4>1
    <3>3. QED BY <3>1, <3>2, Zenon
  <2>5. users' = Cardinality(Subscribers')
    BY <2>2, <2>3 DEF ClockInv
  <2>6. QED BY <2>2, <2>4, <2>5, ZenonT(30) DEF ClockInv
<1>2. ASSUME NEW t \in Watch, Close(t) PROVE ClockInv'
  <2>1. t \in Subscribers /\ Subscribers' = Subscribers \ {t}
    BY <1>2 DEF Close, Subscribers, Subscribed, IInv, Values
  <2>2. IsFiniteSet(Subscribers') /\ Cardinality(Subscribers') = Cardinality(Subscribers) - 1
    BY <2>1, FS_RemoveElement DEF ClockInv
  <2>3. Cardinality(Subscribers) \in Nat /\ Cardinality(Subscribers') \in Nat
    BY <2>2, FS_CardinalityType DEF ClockInv
  <2>4. users' = users - 1 /\ UNCHANGED <<running, sleepers>>
    BY <1>2 DEF Close
  <2>5. QED BY <2>2, <2>3, <2>4 DEF ClockInv
<1>3. CASE Run
  <2>1. Subscribers' = Subscribers /\ users' = users
    BY <1>3 DEF Run, Subscribers, Subscribed
  <2>2. CASE users = 0
    <3>1. running' = FALSE /\ sleepers > 0 /\ sleepers' = sleepers - 1
      BY <1>3, <2>2, ZenonT(30) DEF Run
    <3>2. sleepers' = 0
      <4>1. sleepers = 0 \/ sleepers = 1
        BY ZenonT(30) DEF ClockInv
      <4>2. QED BY <3>1, <4>1
    <3>3. QED BY <2>1, <2>2, <3>1, <3>2, ZenonT(30) DEF ClockInv
  <2>3. CASE users # 0
    BY <1>3, <2>1, <2>3 DEF Run, ClockInv
  <2>4. QED BY <2>2, <2>3
<1>4. ASSUME NEW t \in Watch,
             NextTick(t) \/ Ticked(t) \/ LoadActivity(t) \/ Recheck(t) \/ Expire(t) \/ EndWatch(t)
      PROVE  ClockInv'
  <2>1. Subscribers' = Subscribers
    BY <1>4 DEF NextTick, Ticked, LoadActivity, Recheck, Expire, EndWatch, Subscribers, Subscribed, IInv, Values
  <2>2. UNCHANGED clockVars
    BY <1>4 DEF NextTick, Ticked, LoadActivity, Recheck, Expire, EndWatch
  <2>3. QED BY <2>1, <2>2, SameSubscribers
<1>5. ASSUME UNCHANGED <<pc, clockVars>> PROVE ClockInv'
  BY <1>5, SameSubscribers DEF Subscribers, Subscribed
<1>6. CASE Pass \/ UNCHANGED vars
  BY <1>5, <1>6 DEF Pass, vars, watchVars
<1>7. ASSUME NEW t \in Watch, Release(t) PROVE ClockInv'
  BY <1>5, <1>7 DEF Release, watchVars
<1>8. ASSUME NEW t \in Watch, NEW w \in Worker, Touch(t, w) \/ Toucher(t, w) PROVE ClockInv'
  BY <1>5, <1>8 DEF Touch, Toucher, TouchLoad, TouchSwap, watchVars
<1>9. QED BY <1>1, <1>2, <1>3, <1>4, <1>6, <1>7, <1>8 DEF Next, Watcher

LEMMA NextRestTypes == IInv /\ RestTypes /\ [Next]_vars => RestTypes'
<1> SUFFICES ASSUME IInv, RestTypes, [Next]_vars PROVE RestTypes'
  OBVIOUS
<1>1. CASE Pass
  BY <1>1, IdleAssumption DEF Pass, RestTypes, watchVars
<1>2. CASE Run
  BY <1>2 DEF Run, CloseTick, RestTypes
<1>3. ASSUME NEW t \in Watch, StartIdleWatch(t) \/ Watcher(t) PROVE RestTypes'
  BY <1>3 DEF StartIdleWatch, Watcher, NextTick, Ticked, LoadActivity, Recheck, Expire, EndWatch, Close, RestTypes
<1>4. ASSUME NEW t \in Watch, Release(t) PROVE RestTypes'
  BY <1>4 DEF Release, RestTypes, watchVars
<1>5. ASSUME NEW t \in Watch, NEW w \in Worker, Touch(t, w) \/ Toucher(t, w) PROVE RestTypes'
  BY <1>5 DEF Touch, Toucher, TouchLoad, TouchSwap, watchVars, RestTypes
<1>6. CASE UNCHANGED vars
  BY <1>6 DEF vars, watchVars, RestTypes
<1>7. QED BY <1>1, <1>2, <1>3, <1>4, <1>5, <1>6 DEF Next

(* The process has one clock goroutine when somebody watches and at most   *)
(* one at all (OneClock): subscribe and the end of run are critical        *)
(* sections that agree on running, and every watcher closes what it        *)
(* subscribed, for any number of transfers that come and go.               *)
THEOREM ClockIsOne == Spec => []OneClock
<1>1. IInv /\ ClockInv /\ RestTypes => OneClock
  <2> SUFFICES ASSUME IInv, ClockInv, RestTypes PROVE OneClock
    OBVIOUS
  <2>1. users \in Nat /\ users = Cardinality({t \in Watch : Subscribed(t)})
    BY FS_CardinalityType DEF ClockInv, Subscribers
  <2>2. TypeOK
    BY <2>1 DEF TypeOK, IInv, Values, ClockInv, RestTypes
  <2>3. sleepers = (IF running THEN 1 ELSE 0) /\ (users > 0 => running)
    <3>1. users > 0 => users # 0
      BY <2>1
    <3>2. QED BY <3>1, ZenonT(30) DEF ClockInv
  <2>4. QED BY <2>1, <2>2, <2>3 DEF OneClock
<1>2. QED BY Invariance, InitClock, NextClock, NextRestTypes, <1>1, PTL DEF Spec
==============================================================================
