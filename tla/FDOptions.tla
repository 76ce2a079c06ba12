----------------------------- MODULE FDOptions -----------------------------
(***************************************************************************)
(* Descriptor options (append, perm, user, seek, ftruncate, flock, ...) as *)
(* they are applied to the descriptors of a stream                         *)
(* (xio/fdopts_lifecycle_unix.go): first the after-open actions, then the  *)
(* late ones, each in the order written, once per descriptor.              *)
(***************************************************************************)
EXTENDS Naturals, Sequences, FiniteSets, SequencesExt

CONSTANT
    MaxActions      \* descriptor options of one address

VARIABLES
    actions,    \* the address's actions, in the order written
    mode,       \* "all", "late" (ACCEPT-FD's stream) or "phase" (a listener's socket)
    skip,       \* kinds the opener has taken care of itself
    targets,    \* descriptors the stream shows, its reader, writer and closer
    regular,    \* are they regular files?
    fds,        \* each descriptor's attributes
    seen,       \* descriptors dealt with
    queue,      \* the actions still to be applied to the current one
    pc

vars == <<actions, mode, skip, targets, regular, fds, seen, queue, pc>>

(* kind of action |-> the attribute it changes; what it does; in which phase *)
Early == {"perm", "user", "group", "flock"}
Late == {"append", "async", "ftruncate", "seek", "seek-cur", "seek-end", "perm-late", "user-late", "cloexec"}
Attr(kind) ==
    CASE kind \in {"perm", "perm-late"} -> "mode"
      [] kind \in {"user", "user-late"} -> "owner"
      [] kind \in {"seek", "seek-cur", "seek-end"} -> "offset"
      [] kind = "ftruncate" -> "size"
      [] OTHER -> kind

Attrs == {Attr(k) : k \in Early \cup Late}

Size == 3
Fresh == [a \in Attrs |-> IF a = "size" THEN Size ELSE 0]

Action == [kind : Early \cup Late, value : {1}] \cup [kind : {"perm", "append", "flock"}, value : {0}]

Init ==
    /\ actions \in UNION {[1 .. n -> Action] : n \in 1 .. MaxActions}
    /\ mode \in {"all", "late", "phase"}
    /\ skip \in IF mode = "all" THEN {{}, {"perm", "append"}} ELSE {{}}
    /\ targets \in IF mode = "phase" THEN {<<"fd3">>} ELSE {<<>>, <<"fd3", "fd3", "fd3">>, <<"fd3", "fd4", "fd3">>}
    /\ regular \in IF \E i \in DOMAIN actions : actions[i].kind = "ftruncate" THEN BOOLEAN ELSE {TRUE}
    /\ fds = [f \in ToSet(targets) |-> Fresh]
    /\ seen = {} /\ queue = <<>> /\ pc = "begin"

----------------------------------------------------------------------------

Of(kinds, skipped) == SelectSeq(actions, LAMBDA a : a.kind \in kinds /\ a.kind \notin skipped)

applyConfiguredFDPhase == Of(Early, skip)
applyConfiguredLate == Of(Late, skip)

\* Late actions first (mutant).
applyConfiguredFDOnFDLateFirst == applyConfiguredLate \o applyConfiguredFDPhase

applyConfiguredFDOnFD == applyConfiguredFDPhase \o applyConfiguredLate

hasConfiguredFDActions == mode = "phase" \/ Of(Early \cup Late, skip) # <<>>

Begin ==
    /\ pc = "begin"
    /\ pc' = CASE ~hasConfiguredFDActions -> "ok"
               [] targets = <<>> -> "error"
               [] OTHER -> "next"
    /\ UNCHANGED <<actions, mode, skip, targets, regular, fds, seen, queue>>

Untouched == {i \in DOMAIN targets : targets[i] \notin seen}

\* The next descriptor the stream shows that was not dealt with yet.
applyFDLifecycleToStreamMode ==
    /\ pc = "next"
    /\ IF Untouched = {}
       THEN pc' = "ok" /\ UNCHANGED <<seen, queue>>
       ELSE LET i == CHOOSE i \in Untouched : \A j \in Untouched : i <= j
            IN  /\ seen' = seen \cup {targets[i]}
                /\ queue' = CASE mode = "all" -> applyConfiguredFDOnFD
                              [] mode = "late" -> applyConfiguredLate
                              [] mode = "phase" -> applyConfiguredFDPhase
                /\ pc' = targets[i]
    /\ UNCHANGED <<actions, mode, skip, targets, regular, fds>>

\* What the kernel makes of one action.
Changed(at, a) ==
    CASE a.kind = "seek-cur" -> [at EXCEPT !.offset = @ + a.value]
      [] a.kind = "seek-end" -> [at EXCEPT !.offset = at.size + a.value]
      [] a.kind = "flock" /\ a.value = 0 -> at
      [] OTHER -> [at EXCEPT ![Attr(a.kind)] = a.value]

Apply ==
    /\ pc \in ToSet(targets) /\ queue # <<>>
    /\ Head(queue).kind = "ftruncate" => regular
    /\ fds' = [fds EXCEPT ![pc] = Changed(@, Head(queue))]
    /\ queue' = Tail(queue)
    /\ UNCHANGED <<actions, mode, skip, targets, regular, seen, pc>>

\* The system refuses it, or it is ftruncate on something else than a regular file.
ApplyFails ==
    /\ pc \in ToSet(targets) /\ queue # <<>>
    /\ pc' = "error"
    /\ UNCHANGED <<actions, mode, skip, targets, regular, fds, seen, queue>>

Done ==
    /\ pc \in ToSet(targets) /\ queue = <<>>
    /\ pc' = "next"
    /\ UNCHANGED <<actions, mode, skip, targets, regular, fds, seen, queue>>

Next == Begin \/ applyFDLifecycleToStreamMode \/ Apply \/ ApplyFails \/ Done

Spec == Init /\ [][Next]_vars

----------------------------------------------------------------------------

\* The actions that are to take effect, with the place each has in the order.
Wanted ==
    {i \in DOMAIN actions :
        /\ actions[i].kind \notin skip
        /\ mode = "late" => actions[i].kind \in Late
        /\ mode = "phase" => actions[i].kind \in Early
        /\ ~(actions[i].kind = "flock" /\ actions[i].value = 0)}

Before(i, j) ==
    LET late(k) == actions[k].kind \in Late
    IN  (late(j) /\ ~late(i)) \/ (late(i) = late(j) /\ i < j)

\* The last action on attribute x decides; a relative seek counts from the one before it.
Final(x) ==
    LET on == {i \in Wanted : Attr(actions[i].kind) = x}
        fixed == {i \in on : actions[i].kind # "seek-cur"}
        last == CHOOSE i \in fixed : \A j \in fixed \ {i} : Before(j, i)
        cuts == {i \in Wanted : actions[i].kind = "ftruncate" /\ Before(i, last)}
        base == CASE fixed = {} -> Fresh[x]
                  [] actions[last].kind = "seek-end" -> (IF cuts = {} THEN Size ELSE 1) + 1
                  [] OTHER -> actions[last].value
    IN  base + Cardinality({i \in on \ fixed : fixed = {} \/ Before(last, i)})

\* When the options were applied without error, each of the stream's descriptors has
\* what the last option for each attribute says, late options after the others, and a
\* relative seek has moved it once even if reader, writer and closer are one descriptor.
OptionsTakeEffect ==
    pc = "ok" => \A f \in ToSet(targets) : \A x \in Attrs : fds[f][x] = Final(x)
=============================================================================
