------------------------------ MODULE ForkServe ------------------------------
(***************************************************************************)
(* The fork parents of internal/xio/run.go and their children.             *)
(*                                                                         *)
(* A parent either accepts connections (forEachAccepted) or dials them     *)
(* (runConnectForkLoop); it is the left address ("listen", "dial": every   *)
(* child opens its own right address) or the right one ("listenRight",     *)
(* "dialRight": the children take turns on the one left stream, under      *)
(* leftMu).  Each connection is served by a goroutine (spawnForkChild)     *)
(* under max-children accounting; the parent returns when its children     *)
(* have.  All of them run in one process and share the context.            *)
(*                                                                         *)
(* A relay session is one step here, its end: module Transfer is its       *)
(* model, and EndReturns and CancelReturns there are what the fairness     *)
(* assumptions below take from it.                                         *)
(*                                                                         *)
(* An accept is acceptUntil of internal/xio/endpoint.go, cancellable and   *)
(* optionally timed.  The Accept call runs in a goroutine of its own that  *)
(* puts its result in a channel of capacity one; the caller selects        *)
(* between that result, the context and the timer.  On either of the last  *)
(* two it closes the listener, waits for the goroutine and closes a        *)
(* connection that was accepted too late.  The listener is external        *)
(* (net.Listener): clients queue on it, Accept hands out one of them or    *)
(* fails, Close fails a blocked Accept.                                    *)
(***************************************************************************)
EXTENDS Naturals, FiniteSets

CONSTANTS Conn,       \* the connections that may arrive or be dialled
          NoConn,     \* no connection
          Config      \* the parents considered: records role, max, timeout, bridge

Role == {"listen", "listenRight", "dial", "dialRight"}

(* max = 0 is max-children unset; bridge is ForkSocketpair (RECVFROM,fork) *)
ASSUME NoConnAssumption == NoConn \notin Conn
ASSUME ConfigAssumption ==
  Config \subseteq [role : Role, max : Nat, timeout : BOOLEAN, bridge : BOOLEAN]

Nobody == NoConn      \* leftMu is free

VARIABLES
  done,       \* ctx is cancelled
  listener,   \* "open" or "closed"
  conn,       \* each connection: "none", "queued", "open", "closed", "gone"
  acc,        \* the Accept goroutine: "none", "blocked", "error" or "conn"
  result,     \* the connection in its result channel
  call,       \* the caller: "idle", "select", "abort", "expire" (draining), or the
              \* call's result "ok", "cancelled", "timeout", "error"
  cfg,        \* the parent's configuration
  ppc,        \* where the parent is
  held,       \* the connection the parent has accepted or dialled, not yet spawned
  ret,        \* what the parent's loop returns
  left,       \* the left Opened: "open" or "closed"
  slots,      \* entries in the childSlots channel
  wg,         \* the children WaitGroup's counter
  leftMu,     \* the child that holds leftMu
  cpc,        \* where each connection's child is
  armed,      \* the child's AfterFunc(ctx, c.Close) is registered
  right,      \* the child's own right Opened: "none", "open", "closed"
  bpc,        \* the bridge goroutine of the child's socketpair
  ends        \* the ends of that socketpair that are open

acceptVars == <<done, listener, conn, acc, result, call>>
parentVars == <<cfg, ppc, held, ret, left>>
childVars == <<leftMu, cpc, armed, right, bpc, ends>>
vars == <<acceptVars, parentVars, slots, wg, childVars>>

Accepting == cfg.role \in {"listen", "listenRight"}
SharedLeft == cfg.role \in {"listenRight", "dialRight"}

(* Where a child still counts for the WaitGroup, and where it works. *)
Working == {"spawned", "lock", "prepare", "open", "session", "bridge", "bridging",
            "bridgeWait", "waitChild", "closeRight", "unlock"}
Active == Working \cup {"stop", "done"}
Slotted == Active \cup {"release"}

AcceptInit(ln) ==
  /\ done = FALSE /\ listener = ln /\ conn = [c \in Conn |-> "none"]
  /\ acc = "none" /\ result = NoConn /\ call = "idle"

Init ==
  /\ cfg \in Config
  /\ AcceptInit(IF Accepting THEN "open" ELSE "closed")
  /\ ppc = "acquire" /\ held = NoConn /\ ret = "none" /\ left = "open"
  /\ slots = 0 /\ wg = 0 /\ leftMu = Nobody
  /\ cpc = [c \in Conn |-> "none"] /\ armed = [c \in Conn |-> FALSE]
  /\ right = [c \in Conn |-> "none"] /\ bpc = [c \in Conn |-> "none"]
  /\ ends = [c \in Conn |-> {}]

-----------------------------------------------------------------------------
(* The environment of acceptUntil. *)

Cancel == ~done /\ done' = TRUE /\ UNCHANGED <<listener, conn, acc, result, call>>

(* A client connects; the kernel (or the wrapping listener) queues it. *)
Arrive(c) ==
  /\ listener = "open" /\ conn[c] = "none"
  /\ conn' = [conn EXCEPT ![c] = "queued"]
  /\ UNCHANGED <<done, listener, acc, result, call>>

(* Close of the listener resets the clients nobody accepted. *)
CloseListener ==
  /\ listener' = "closed"
  /\ conn' = [c \in Conn |-> IF conn[c] = "queued" THEN "gone" ELSE conn[c]]

CloseConn(c) == conn' = [conn EXCEPT ![c] = "closed"]

(* The AfterFunc of OpenListenSession and runForkListen. *)
CancelListener ==
  /\ done /\ listener = "open"
  /\ CloseListener /\ UNCHANGED <<done, acc, result, call>>

-----------------------------------------------------------------------------
(* The goroutine: conn, err := ln.Accept(); result <- acceptResult{conn, err} *)

AcceptConn(c) ==
  /\ acc = "blocked" /\ listener = "open" /\ conn[c] = "queued"
  /\ conn' = [conn EXCEPT ![c] = "open"]
  /\ acc' = "conn" /\ result' = c
  /\ UNCHANGED <<done, listener, call>>

AcceptError ==
  /\ acc = "blocked"
  /\ acc' = "error"
  /\ UNCHANGED <<done, listener, conn, result, call>>

-----------------------------------------------------------------------------
(* The caller. *)

StartAccept ==
  /\ call = "idle" /\ acc = "none"
  /\ call' = "select" /\ acc' = "blocked"
  /\ UNCHANGED <<done, listener, conn, result>>

(* The result channel is read: result keeps the connection for the caller. *)
TakeResult ==
  /\ call = "select" /\ acc \in {"conn", "error"}
  /\ call' = (IF acc = "conn" THEN "ok" ELSE "error")
  /\ acc' = "none"
  /\ UNCHANGED <<done, listener, conn, result>>

AbortOnDone ==
  /\ call = "select" /\ done
  /\ call' = "abort" /\ CloseListener
  /\ UNCHANGED <<done, acc, result>>

AbortOnTimer(timeout) ==
  /\ call = "select" /\ timeout
  /\ call' = "expire" /\ CloseListener
  /\ UNCHANGED <<done, acc, result>>

(* A plausible slip: the late connection is dropped, not closed. *)
DrainAcceptKeeps ==
  /\ call \in {"abort", "expire"} /\ acc \in {"conn", "error"}
  /\ call' = (IF call = "abort" THEN "cancelled" ELSE "timeout")
  /\ acc' = "none" /\ result' = NoConn
  /\ UNCHANGED <<done, listener, conn>>

(* drainAccept: wait for the goroutine, close what it accepted. *)
DrainAccept ==
  /\ call \in {"abort", "expire"} /\ acc \in {"conn", "error"}
  /\ IF acc = "conn" THEN CloseConn(result) ELSE UNCHANGED conn
  /\ call' = (IF call = "abort" THEN "cancelled" ELSE "timeout")
  /\ acc' = "none" /\ result' = NoConn
  /\ UNCHANGED <<done, listener>>

Accept(timeout) ==
  StartAccept \/ TakeResult \/ AbortOnDone \/ AbortOnTimer(timeout) \/ DrainAccept

Listening == Cancel \/ CancelListener \/ AcceptError \/ \E c \in Conn : Arrive(c) \/ AcceptConn(c)

-----------------------------------------------------------------------------
(* childSlots: a nil channel when max-children is unset. *)

Acquire == IF cfg.max = 0 THEN UNCHANGED slots
                          ELSE slots < cfg.max /\ slots' = slots + 1

Release == IF cfg.max = 0 THEN UNCHANGED slots
                          ELSE slots > 0 /\ slots' = slots - 1

-----------------------------------------------------------------------------
(* The parent. *)

Parent(from, to) == ppc = from /\ ppc' = to
Returns(value) == ppc' = "children" /\ ret' = value

(* slots.acquire(ctx): the select may take either ready case; without a    *)
(* limit there is no select.  The connect loop has looked at ctx.Err()     *)
(* just before.                                                            *)
AcquireSlot ==
  /\ Parent("acquire", IF Accepting THEN "accept" ELSE "dial")
  /\ Accepting \/ ~done
  /\ Acquire
  /\ UNCHANGED <<acceptVars, cfg, held, ret, left, wg, childVars>>

AcquireCancelled ==
  /\ ppc = "acquire" /\ done /\ (Accepting => cfg.max > 0)
  /\ Returns("nil")
  /\ UNCHANGED <<acceptVars, cfg, held, left, slots, wg, childVars>>

AcceptStep ==
  /\ ppc = "accept"
  /\ Accept(cfg.timeout)
  /\ UNCHANGED <<parentVars, slots, wg, childVars>>

(* acceptWithTimeout failed: release the slot, then decide what to return. *)
AcceptFailed ==
  /\ ppc = "accept" /\ call \in {"cancelled", "timeout", "error"}
  /\ Release
  /\ Returns(IF call = "timeout" THEN "timeout" ELSE IF done THEN "nil" ELSE "error")
  /\ call' = "idle"
  /\ UNCHANGED <<done, listener, conn, acc, result, cfg, held, left, wg, childVars>>

AcceptOk ==
  /\ Parent("accept", "filter") /\ call = "ok"
  /\ held' = result /\ call' = "idle" /\ result' = NoConn
  /\ UNCHANGED <<done, listener, conn, acc, cfg, ret, left, slots, wg, childVars>>

(* A plausible slip: a refused peer keeps its slot. *)
FilterRefusesKeepsSlot ==
  /\ ppc = "filter"
  /\ CloseConn(held) /\ held' = NoConn
  /\ IF done THEN Returns("nil") ELSE ppc' = "acquire" /\ UNCHANGED ret
  /\ UNCHANGED <<done, listener, acc, result, call, cfg, left, slots, wg, childVars>>

(* The peer filter refuses: close, release, and accept again.              *)
FilterRefuses ==
  /\ ppc = "filter"
  /\ CloseConn(held) /\ held' = NoConn
  /\ Release
  /\ IF done THEN Returns("nil") ELSE ppc' = "acquire" /\ UNCHANGED ret
  /\ UNCHANGED <<done, listener, acc, result, call, cfg, left, wg, childVars>>

FilterAllows ==
  /\ Parent("filter", "spawn")
  /\ UNCHANGED <<acceptVars, cfg, held, ret, left, slots, wg, childVars>>

(* dial(ctx) of the connect loop; when ctx ends it fails. *)
DialOk(c) ==
  /\ Parent("dial", "spawn")
  /\ conn[c] = "none" /\ conn' = [conn EXCEPT ![c] = "open"] /\ held' = c
  /\ UNCHANGED <<done, listener, acc, result, call, cfg, ret, left, slots, wg, childVars>>

DialFails ==
  /\ ppc = "dial"
  /\ Release
  /\ Returns(IF done THEN "nil" ELSE "error")
  /\ UNCHANGED <<acceptVars, cfg, held, left, wg, childVars>>

(* After the fork-wait sleep, spawnForkChild: Add(1) and the goroutine.    *)
Spawn ==
  /\ Parent("spawn", IF Accepting THEN "acquire" ELSE "interval")
  /\ wg' = wg + 1
  /\ cpc' = [cpc EXCEPT ![held] = "spawned"] /\ held' = NoConn
  /\ UNCHANGED <<acceptVars, cfg, ret, left, slots, leftMu, armed, right, bpc, ends>>

IntervalElapses ==
  /\ Parent("interval", "acquire")
  /\ UNCHANGED <<acceptVars, cfg, held, ret, left, slots, wg, childVars>>

IntervalCancelled ==
  /\ ppc = "interval" /\ done
  /\ Returns("nil")
  /\ UNCHANGED <<acceptVars, cfg, held, left, slots, wg, childVars>>

(* defer children.Wait() *)
WaitChildren ==
  /\ Parent("children", "close") /\ wg = 0
  /\ UNCHANGED <<acceptVars, cfg, held, ret, left, slots, wg, childVars>>

(* RunOpenedPrepared's deferred Close of right and left; the accept        *)
(* parent's Close closes its listener.                                     *)
CloseParent ==
  /\ Parent("close", "returned")
  /\ left' = "closed"
  /\ CloseListener
  /\ UNCHANGED <<done, acc, result, call, cfg, held, ret, slots, wg, childVars>>

-----------------------------------------------------------------------------
(* A child. *)

Child(c, from, to) == cpc[c] = from /\ cpc' = [cpc EXCEPT ![c] = to]

StartUnarmed(c) ==
  /\ Child(c, "spawned", IF cfg.role = "listenRight" THEN "lock" ELSE "prepare")
  /\ UNCHANGED <<acceptVars, parentVars, slots, wg, leftMu, armed, right, bpc, ends>>

(* Register the AfterFunc; the body starts with leftMu or with the peer.   *)
Start(c) ==
  /\ Child(c, "spawned", IF cfg.role = "listenRight" THEN "lock" ELSE "prepare")
  /\ armed' = [armed EXCEPT ![c] = TRUE]
  /\ UNCHANGED <<acceptVars, parentVars, slots, wg, leftMu, right, bpc, ends>>

(* context.AfterFunc(ctx, c.Close) runs. *)
CancelConn(c) ==
  /\ done /\ armed[c]
  /\ CloseConn(c) /\ armed' = [armed EXCEPT ![c] = FALSE]
  /\ UNCHANGED <<done, listener, acc, result, call, parentVars, slots, wg,
                 leftMu, cpc, right, bpc, ends>>

Lock(c) ==
  /\ Child(c, "lock", IF cfg.role = "listenRight" THEN "prepare" ELSE "session")
  /\ leftMu = Nobody /\ leftMu' = c
  /\ UNCHANGED <<acceptVars, parentVars, slots, wg, armed, right, bpc, ends>>

(* rememberAccepted or RememberTLSPeer, then streamFromDial; each may fail *)
(* and the body returns.                                                   *)
Prepare(c) ==
  /\ \/ Child(c, "prepare", CASE cfg.role \in {"listen", "dial"} -> "open"
                              [] cfg.role = "listenRight" -> "session"
                              [] cfg.role = "dialRight" -> "lock")
     \/ Child(c, "prepare", IF cfg.role = "listenRight" THEN "unlock" ELSE "stop")
  /\ UNCHANGED <<acceptVars, parentVars, slots, wg, leftMu, armed, right, bpc, ends>>

OpenRight(c) ==
  /\ \/ /\ Child(c, "open", IF cfg.bridge THEN "bridge" ELSE "session")
        /\ right' = [right EXCEPT ![c] = "open"]
     \/ Child(c, "open", "stop") /\ UNCHANGED right
  /\ UNCHANGED <<acceptVars, parentVars, slots, wg, leftMu, armed, bpc, ends>>

(* runForkSession returns (a nofork command has exited, or Transfer has    *)
(* returned and closed the connection unless its stream is end-close).     *)
SessionEnds(c) ==
  /\ Child(c, "session", IF SharedLeft THEN "unlock" ELSE "waitChild")
  /\ CloseConn(c) \/ UNCHANGED conn
  /\ UNCHANGED <<done, listener, acc, result, call, parentVars, slots, wg,
                 leftMu, armed, right, bpc, ends>>

(* waitForkChild: with max-children a slot is held until the program the   *)
(* right address runs has exited, or ctx ends.                             *)
WaitForkChild(c) ==
  /\ Child(c, "waitChild", "closeRight")
  /\ UNCHANGED <<acceptVars, parentVars, slots, wg, leftMu, armed, right, bpc, ends>>

CloseRight(c) ==
  /\ Child(c, "closeRight", "stop")
  /\ right' = [right EXCEPT ![c] = "closed"]
  /\ UNCHANGED <<acceptVars, parentVars, slots, wg, leftMu, armed, bpc, ends>>

Unlock(c) ==
  /\ Child(c, "unlock", "stop")
  /\ leftMu' = Nobody
  /\ UNCHANGED <<acceptVars, parentVars, slots, wg, armed, right, bpc, ends>>

(* runForkBridge: the connection is copied to one end of a socketpair      *)
(* while a second goroutine relays the other end and the right address.    *)
StartBridge(c) ==
  /\ \/ /\ Child(c, "bridge", "bridging")
        /\ bpc' = [bpc EXCEPT ![c] = "relay"]
        /\ ends' = [ends EXCEPT ![c] = {"sp0", "sp1"}]
     \/ Child(c, "bridge", "closeRight") /\ UNCHANGED <<bpc, ends>>
  /\ UNCHANGED <<acceptVars, parentVars, slots, wg, leftMu, armed, right>>

BridgeEnds(c) ==
  /\ Child(c, "bridging", "bridgeWait")
  /\ ends' = [ends EXCEPT ![c] = @ \ {"sp0"}]
  /\ CloseConn(c) \/ UNCHANGED conn
  /\ UNCHANGED <<done, listener, acc, result, call, parentVars, slots, wg,
                 leftMu, armed, right, bpc>>

(* The goroutine: its transfer, the program's exit, rightOpened.Close.     *)
BridgeRelayEnds(c) ==
  /\ bpc[c] = "relay" /\ bpc' = [bpc EXCEPT ![c] = "waitChild"]
  /\ ends' = [ends EXCEPT ![c] = @ \ {"sp1"}]
  /\ UNCHANGED <<acceptVars, parentVars, slots, wg, leftMu, cpc, armed, right>>

BridgeWaitChild(c) ==
  /\ bpc[c] = "waitChild" /\ bpc' = [bpc EXCEPT ![c] = "done"]
  /\ right' = [right EXCEPT ![c] = "closed"]
  /\ UNCHANGED <<acceptVars, parentVars, slots, wg, leftMu, cpc, armed, ends>>

BridgeJoinEarly(c) ==
  /\ Child(c, "bridgeWait", "closeRight")
  /\ UNCHANGED <<acceptVars, parentVars, slots, wg, leftMu, armed, right, bpc, ends>>

BridgeJoin(c) ==
  /\ Child(c, "bridgeWait", "closeRight") /\ bpc[c] = "done"
  /\ UNCHANGED <<acceptVars, parentVars, slots, wg, leftMu, armed, right, bpc, ends>>

(* The deferred calls of spawnForkChild, last registered first.            *)
Stop(c) ==
  /\ Child(c, "stop", "done")
  /\ armed' = [armed EXCEPT ![c] = FALSE]
  /\ UNCHANGED <<acceptVars, parentVars, slots, wg, leftMu, right, bpc, ends>>

Done(c) ==
  /\ Child(c, "done", "release")
  /\ wg' = wg - 1
  /\ UNCHANGED <<acceptVars, parentVars, slots, leftMu, armed, right, bpc, ends>>

ReleaseSlot(c) ==
  /\ Child(c, "release", "close")
  /\ Release
  /\ UNCHANGED <<acceptVars, parentVars, wg, leftMu, armed, right, bpc, ends>>

Close(c) ==
  /\ Child(c, "close", "ended")
  /\ CloseConn(c)
  /\ UNCHANGED <<done, listener, acc, result, call, parentVars, slots, wg,
                 leftMu, armed, right, bpc, ends>>

-----------------------------------------------------------------------------
ParentStep ==
  \/ AcquireSlot \/ AcquireCancelled
  \/ AcceptStep \/ AcceptFailed \/ AcceptOk \/ FilterRefuses \/ FilterAllows
  \/ DialFails \/ \E c \in Conn : DialOk(c)
  \/ Spawn \/ IntervalElapses \/ IntervalCancelled
  \/ WaitChildren \/ CloseParent

(* Steps a child takes by itself, and those that wait for someone else.    *)
ChildStep(c) ==
  \/ Start(c) \/ Lock(c) \/ CloseRight(c) \/ Unlock(c) \/ StartBridge(c)
  \/ BridgeJoin(c) \/ Stop(c) \/ Done(c) \/ ReleaseSlot(c) \/ Close(c)
ChildWait(c) ==
  Prepare(c) \/ OpenRight(c) \/ SessionEnds(c) \/ WaitForkChild(c) \/ BridgeEnds(c)
BridgeStep(c) == BridgeRelayEnds(c) \/ BridgeWaitChild(c)

(* Clients and accepts concern the accept parents only. *)
Environment ==
  /\ Cancel \/ (Accepting /\ Listening)
  /\ UNCHANGED <<parentVars, slots, wg, childVars>>

Terminated ==
  /\ ppc = "returned" /\ \A c \in Conn : cpc[c] \in {"none", "ended"}
  /\ UNCHANGED vars

Next ==
  \/ Environment \/ ParentStep \/ Terminated
  \/ \E c \in Conn : ChildStep(c) \/ ChildWait(c) \/ CancelConn(c) \/ BridgeStep(c)

Spec == Init /\ [][Next]_vars

-----------------------------------------------------------------------------
(***************************************************************************)
(* Fairness.  Goroutines that can run do run, timers fire, a blocked       *)
(* Accept returns once its listener is closed.  What waits for a peer or a *)
(* program is only fair once the context has ended: Transfer and the       *)
(* openers watch ctx, the handshakes end because AfterFunc closes the      *)
(* connection under them.  One end of the bridge follows the other.        *)
(***************************************************************************)
ParentMoves == (ppc = "dial" => done) /\ ParentStep
ListenerReacts ==
  /\ Accepting /\ (CancelListener \/ (listener = "closed" /\ AcceptError))
  /\ UNCHANGED <<parentVars, slots, wg, childVars>>
ChildEnds(c) ==
  \/ (conn[c] = "closed" /\ Prepare(c))
  \/ (done /\ (OpenRight(c) \/ SessionEnds(c)))
  \/ ((done \/ cfg.max = 0) /\ WaitForkChild(c))
  \/ ((done \/ "sp1" \notin ends[c]) /\ BridgeEnds(c))
BridgeMoves(c) ==
  \/ ((done \/ "sp0" \notin ends[c]) /\ BridgeRelayEnds(c))
  \/ ((done \/ cfg.max = 0) /\ BridgeWaitChild(c))

FairSpec ==
  /\ Spec /\ WF_vars(ParentMoves) /\ WF_vars(ListenerReacts)
  /\ \A c \in Conn : /\ WF_vars(ChildStep(c)) /\ WF_vars(ChildEnds(c))
                     /\ WF_vars(CancelConn(c)) /\ WF_vars(BridgeMoves(c))

(* The clients and programs finish, and Accept hands out who is queued. *)
AcceptReturns ==
  /\ Accepting /\ (AcceptError \/ \E c \in Conn : AcceptConn(c))
  /\ UNCHANGED <<parentVars, slots, wg, childVars>>
ClientsFinish ==
  /\ WF_vars(AcceptReturns) /\ WF_vars(ParentStep)
  /\ \A c \in Conn : WF_vars(ChildWait(c)) /\ WF_vars(BridgeStep(c))

-----------------------------------------------------------------------------
AcceptTypeOK ==
  /\ done \in BOOLEAN /\ listener \in {"open", "closed"}
  /\ conn \in [Conn -> {"none", "queued", "open", "closed", "gone"}]
  /\ acc \in {"none", "blocked", "error", "conn"} /\ result \in Conn \cup {NoConn}
  /\ call \in {"idle", "select", "abort", "expire", "ok", "cancelled", "timeout", "error"}

(* Every variable has its type: no counter underflows. *)
TypeOK ==
  /\ AcceptTypeOK /\ cfg \in Config
  /\ ppc \in {"acquire", "accept", "filter", "dial", "spawn", "interval", "children",
              "close", "returned"}
  /\ held \in Conn \cup {NoConn} /\ ret \in {"none", "nil", "timeout", "error"}
  /\ left \in {"open", "closed"} /\ slots \in Nat /\ wg \in Nat
  /\ leftMu \in Conn \cup {Nobody}
  /\ cpc \in [Conn -> Slotted \cup {"none", "close", "ended"}]
  /\ armed \in [Conn -> BOOLEAN] /\ right \in [Conn -> {"none", "open", "closed"}]
  /\ bpc \in [Conn -> {"none", "relay", "waitChild", "done"}]
  /\ ends \in [Conn -> SUBSET {"sp0", "sp1"}]

(* The channel holds one entry for the connection the parent is about to   *)
(* get or has got, and one for each child that has not released its own:   *)
(* no path loses a slot (the loop would starve) and none releases one it   *)
(* does not hold (a receive from the empty channel would block for ever).  *)
SlotsBalanced ==
  /\ TypeOK
  /\ cfg.max > 0 =>
       slots = Cardinality({c \in Conn : cpc[c] \in Slotted})
               + (IF ppc \in {"accept", "dial", "filter", "spawn"} THEN 1 ELSE 0)

(* max-children: never more sessions than allowed, the connection the      *)
(* parent has in hand included.                                            *)
MaxChildrenRespected ==
  cfg.max > 0 =>
    Cardinality({c \in Conn : cpc[c] \in Active \/ c \in {held, result}}) <= cfg.max

(* max-children is neither exceeded nor used up by connections long gone.  *)
SlotsExact == SlotsBalanced /\ MaxChildrenRespected

(* Sessions on the shared left stream run one at a time, and the stream    *)
(* stays open under them; the other children have their own right address, *)
(* open for as long as a session or its bridge uses it.                    *)
StreamsOutliveSessions ==
  \A c \in Conn :
    /\ cpc[c] = "session" =>
         IF SharedLeft THEN leftMu = c /\ left = "open" ELSE right[c] = "open"
    /\ bpc[c] = "relay" => right[c] = "open"

(* A connection that was accepted or dialled and is still open belongs to  *)
(* the parent, to the Accept result channel or to a child that will close  *)
(* it: an accept that races the timeout or the cancellation leaks nothing. *)
OpenIsOwned ==
  \A c \in Conn : conn[c] = "open" =>
     c = held \/ c = result \/ cpc[c] \notin {"none", "ended"}

(* When the loop has returned no session runs, no Accept is left blocked   *)
(* and none of its connections is waiting in the channel.                  *)
ReturnAfterChildren ==
  ppc \in {"close", "returned"} =>
    /\ acc = "none" /\ result = NoConn /\ held = NoConn
    /\ \A c \in Conn : cpc[c] \notin Active /\ bpc[c] \in {"none", "done"}

(* A child gives up its place only after its bridge goroutine has ended,   *)
(* both socketpair ends and its right address are closed and leftMu is     *)
(* free of it.                                                             *)
ChildLeavesNothing ==
  \A c \in Conn : cpc[c] \in {"stop", "done", "release", "close", "ended"} =>
    /\ bpc[c] \in {"none", "done"} /\ ends[c] = {} /\ right[c] # "open" /\ leftMu # c

(* Nobody's streams end under them, and nothing outlives its owner: a      *)
(* session its streams, a child's bridge the child, a child the loop.      *)
NothingLeft == StreamsOutliveSessions /\ ReturnAfterChildren /\ ChildLeavesNothing

(* Cancelling the run makes the parent return and closes every connection, *)
(* whatever peers do.                                                      *)
CancelReturns == done ~> (ppc = "returned" /\ \A c \in Conn : conn[c] # "open")

(* With clients that finish, a queued client is accepted, or reset because *)
(* the parent is over: the loop never starves for slots.                   *)
QueueServed ==
  ClientsFinish => \A c \in Conn : conn[c] = "queued" ~> conn[c] # "queued"

(* The loop ends when it is told to and serves until then. *)
ForkServes == CancelReturns /\ QueueServed

-----------------------------------------------------------------------------
(* The sample of parents that TLC is given for Config: every role, with    *)
(* and without a limit; accept-timeout on accept parents; the bridge where *)
(* RECVFROM,fork uses it.                                                  *)
SampleParent(role, max, timeout, bridge) ==
  [role |-> role, max |-> max, timeout |-> timeout, bridge |-> bridge]
SampleConfig ==
  {SampleParent("listen", 1, TRUE, FALSE), SampleParent("listen", 0, FALSE, FALSE),
   SampleParent("listenRight", 1, FALSE, FALSE), SampleParent("listenRight", 0, TRUE, FALSE),
   SampleParent("dial", 1, FALSE, FALSE), SampleParent("dialRight", 2, FALSE, FALSE),
   SampleParent("listen", 1, TRUE, TRUE)}
==============================================================================
