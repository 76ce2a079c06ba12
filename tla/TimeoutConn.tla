---------------------------- MODULE TimeoutConn ----------------------------
(***************************************************************************)
(* rcvtimeo and sndtimeo below a record layer: socketTimeoutConn           *)
(* (internal/xio/socket_timeout_conn.go).  Each Read or Write arms its own *)
(* deadline on the socket and retries when that one expires, so that the   *)
(* record layer sees only the deadlines it set itself.  Those are noted    *)
(* under a mutex and set on the socket outside it, as the own ones are:    *)
(* the two races with each other.                                          *)
(***************************************************************************)
EXTENDS Naturals

CONSTANTS
    Timeout,        \* rcvtimeo / sndtimeo
    Size,           \* bytes of a Write, and of a Read's buffer
    MaxTime,        \* the clock stops here; 0 as a deadline means none
    MaxBytes,       \* bytes the socket takes or delivers
    MaxSets         \* how often the record layer sets a deadline

VARIABLES
    op,             \* "read" or "write"
    enabled,        \* is the handshake over?
    external,       \* the record layer's deadline
    setting,        \* the record layer is between noting and setting it
    old,            \* the deadline it had before
    socket,         \* the deadline on the socket
    now,
    pc,             \* "idle", "arm", "set", "io", "check"
    toSet, own,     \* what Arm decided
    written,        \* of the current Write
    moved,          \* bytes that passed the socket
    counted,        \* bytes reported to the record layer
    inForce,        \* the record layer's deadlines during this call
    result, sets

vars == <<op, enabled, external, setting, old, socket, now, pc, toSet, own, written,
          moved, counted, inForce, result, sets>>

Init ==
    /\ op \in {"read", "write"}
    /\ enabled = FALSE /\ external = 0 /\ setting = FALSE /\ old = 0 /\ socket = 0 /\ now = 0
    /\ pc = "idle" /\ toSet = 0 /\ own = FALSE /\ written = 0
    /\ moved = 0 /\ counted = 0 /\ inForce = {} /\ result = "" /\ sets = 0

Past(d) == d # 0 /\ now >= d
Least(a, b) == IF a < b THEN a ELSE b

Call ==
    /\ pc = "idle"
    /\ pc' = "arm"
    /\ inForce' = {external} \cup (IF setting THEN {old} ELSE {})
    /\ written' = 0
    /\ result' = ""
    /\ UNCHANGED <<op, enabled, external, setting, old, socket, now, toSet, own, moved, counted, sets>>

\* armReadDeadline and armWriteDeadline, with earliestSocketDeadline.
Arm ==
    /\ pc = "arm"
    /\ IF ~enabled
       THEN own' = FALSE /\ pc' = "io" /\ UNCHANGED toSet
       ELSE /\ own' = (external = 0 \/ now + Timeout < external)
            /\ toSet' = IF own' THEN Least(now + Timeout, MaxTime) ELSE external
            /\ pc' = "set"
    /\ UNCHANGED <<op, enabled, external, setting, old, socket, now, written, moved, counted, inForce, result, sets>>

Set ==
    /\ pc = "set"
    /\ socket' = toSet
    /\ pc' = "io"
    /\ UNCHANGED <<op, enabled, external, setting, old, now, toSet, own, written, moved, counted, inForce, result, sets>>

Return(r, bytes) ==
    /\ pc' = "idle"
    /\ result' = r
    /\ counted' = counted + bytes

\* The socket moves bytes before the deadline.
IO ==
    /\ pc = "io"
    /\ ~Past(socket)
    /\ \E b \in 1 .. Size - written :
          /\ moved + b <= MaxBytes
          /\ moved' = moved + b
          /\ written' = written + b
          /\ IF op = "read" \/ written + b = Size
             THEN Return("", written + b)
             ELSE pc' = "arm" /\ UNCHANGED <<result, counted>>
    /\ UNCHANGED <<op, enabled, external, setting, old, socket, now, toSet, own, inForce, sets>>

\* It times out, a Write possibly after some of its bytes.
IOTimeout ==
    /\ pc = "io"
    /\ Past(socket)
    /\ \E b \in 0 .. Size - written - 1 :
          /\ b > 0 => op = "write" /\ moved + b <= MaxBytes
          /\ moved' = moved + b
          /\ written' = written + b
    /\ pc' = "check"
    /\ UNCHANGED <<op, enabled, external, setting, old, socket, now, toSet, own, counted, inForce, result, sets>>

\* Every timeout is passed up once the record layer has set a deadline (mutant).
retryOwnTimeoutBare == own /\ external = 0

retryOwnTimeout == own /\ (external = 0 \/ now < external)

Check ==
    /\ pc = "check"
    /\ IF retryOwnTimeout THEN pc' = "arm" /\ UNCHANGED <<result, counted>>
       ELSE Return("timeout", written)
    /\ UNCHANGED <<op, enabled, external, setting, old, socket, now, toSet, own, written, moved, inForce, sets>>

----------------------------------------------------------------------------

\* SetReadDeadline and SetWriteDeadline by the record layer: noted, then set.
SetDeadline ==
    /\ ~setting
    /\ sets < MaxSets
    /\ sets' = sets + 1
    /\ external' \in 0 .. MaxTime - 1
    /\ inForce' = inForce \cup {external'}
    /\ setting' = TRUE
    /\ old' = external
    /\ UNCHANGED <<op, enabled, socket, now, pc, toSet, own, written, moved, counted, result>>

SetOnSocket ==
    /\ setting
    /\ setting' = FALSE
    /\ socket' = external
    /\ UNCHANGED <<op, enabled, external, old, now, pc, toSet, own, written, moved, counted, inForce, result, sets>>

\* After the handshake.
EnableSocketTimeouts ==
    /\ ~enabled
    /\ enabled' = TRUE
    /\ UNCHANGED <<op, external, setting, old, socket, now, pc, toSet, own, written, moved, counted, inForce, result, sets>>

Tick ==
    /\ now < MaxTime
    /\ now' = now + 1
    /\ UNCHANGED <<op, enabled, external, setting, old, socket, pc, toSet, own, written, moved, counted, inForce, result, sets>>

Next ==
    \/ Call \/ Arm \/ Set \/ IO \/ IOTimeout \/ Check
    \/ SetDeadline \/ SetOnSocket \/ EnableSocketTimeouts \/ Tick

\* Time passes and a call goes on; the socket need not move a byte.
Calling == Arm \/ Set \/ IOTimeout \/ Check
Fairness == WF_vars(Calling) /\ WF_vars(SetOnSocket) /\ WF_vars(Tick)

Spec == Init /\ [][Next]_vars /\ Fairness

----------------------------------------------------------------------------

\* The record layer is told of a timeout only if a deadline it had set itself had
\* passed during that call, never of rcvtimeo or sndtimeo; and the bytes reported to
\* it are those that passed the socket, over all retries.
OwnTimeoutHidden ==
    /\ result = "timeout" => \E d \in inForce : Past(d)
    /\ pc = "idle" => counted = moved

\* Whatever the own deadline overwrites, a call ends once the deadline that the
\* record layer set has passed and is left alone.
CallDue == pc # "idle" /\ Past(external)
=============================================================================
