------------------------------- MODULE NoFork -------------------------------
(***************************************************************************)
(* EXEC with nofork (execopen/exec_nofork.go): the command inherits the    *)
(* peer's descriptors instead of being relayed to.  The parent duplicates  *)
(* them, starts the child and drops its copies; with fdin or fdout a       *)
(* helper in the child (exec_fd_helper_unix.go) moves them into place      *)
(* before it becomes the command.  Every duplication, the preparation and  *)
(* the start may fail.                                                     *)
(***************************************************************************)
EXTENDS Integers, Sequences, SequencesExt, FiniteSets, FiniteSetsExt

CONSTANT MaxFD      \* the highest descriptor number in the child

VARIABLES
    opt,        \* the address's options, and what kind of peer it has
    pc,         \* where runNoFork stands
    todo,       \* the copies still to be made
    held,       \* the copies the parent holds open
    slots,      \* ExtraFiles: what the child gets at 3, 4
    stdio,      \* what the child gets at 0, 1, 2
    twice,      \* was a copy, or a standard stream, closed once too often?
    table,      \* the child's descriptors
    child       \* "", "helper", "command", "failed"

vars == <<opt, pc, todo, held, slots, stdio, twice, table, child>>

FDs == 0 .. MaxFD
Std == <<"stdin", "stdout", "stderr">>

Init ==
    /\ opt \in [mode : {"rdwr", "read", "write"},
                peer : {"conn", "files", "stdio", "none"},
                redirect : BOOLEAN, fdin : 0 .. 5, fdout : 0 .. 5, stderr : BOOLEAN]
    /\ ~opt.redirect => opt.fdin = 0 /\ opt.fdout = 1
    /\ pc = "begin" /\ todo = <<>> /\ held = {} /\ slots = <<>> /\ stdio = Std
    /\ twice = FALSE /\ table = [n \in FDs |-> ""] /\ child = ""

sameFD == opt.peer = "conn"
Reads == opt.mode # "read"       \* the command reads from the peer
Writes == opt.mode # "write"

\* What the peer's two directions are called in the child's table.
PeerIn == IF sameFD THEN "peer" ELSE "peerR"
PeerOut == IF sameFD THEN "peer" ELSE "peerW"

Begin ==
    /\ pc = "begin"
    /\ pc' = IF opt.redirect THEN "take" ELSE "attrs"
    /\ UNCHANGED <<opt, todo, held, slots, stdio, twice, table, child>>

Close(files) == held' = held \ files /\ twice' = (twice \/ ~(files \subseteq held))

\* runNoFork returns an error; its deferred closeExtra drops the ExtraFiles.
Fail(also) ==
    /\ pc' = "returned"
    /\ Close(also \cup ToSet(slots))
    /\ slots' = <<>>
    /\ UNCHANGED <<todo, stdio, table, child>>

applyExecProcessAttrs ==
    /\ pc = "attrs"
    /\ \/ pc' = (IF opt.redirect THEN "start" ELSE "take") /\ UNCHANGED <<todo, held, slots, stdio, twice, table, child>>
       \/ Fail({})
    /\ UNCHANGED opt

\* streamRWFiles: a connection is duplicated once more, files are used as they are.
streamRWFiles ==
    /\ pc = "take"
    /\ \/ /\ opt.peer # "none"
          /\ held' = IF opt.peer = "conn" THEN held \cup {"single"} ELSE held
          /\ todo' = IF opt.redirect /\ sameFD /\ opt.mode = "rdwr" THEN <<"in">>
                     ELSE (IF Reads THEN <<"in">> ELSE <<>>) \o (IF Writes THEN <<"out">> ELSE <<>>)
          /\ pc' = "dup"
          /\ UNCHANGED <<slots, stdio, twice, table, child>>
       \/ opt.peer \in {"conn", "none"} /\ Fail({})
    /\ UNCHANGED opt

Single == held \cap {"single"}
Copies == held \cap {"in", "out"}

\* Without fdin and fdout a standard stream is shared, not copied.
Shared == opt.peer = "stdio" /\ ~opt.redirect

\* dup in peerStdioFiles, add in noForkPeerExtraFiles.
DupOk ==
    /\ pc = "dup" /\ todo # <<>>
    /\ todo' = Tail(todo)
    /\ held' = IF Shared THEN held ELSE held \cup {Head(todo)}
    /\ slots' = IF opt.redirect THEN Append(slots, Head(todo)) ELSE slots
    /\ UNCHANGED <<opt, pc, stdio, twice, table, child>>

DupFails ==
    /\ pc = "dup" /\ todo # <<>> /\ ~Shared
    /\ Close(Single \cup Copies)
    /\ pc' = "returned"
    /\ slots' = <<>>
    /\ UNCHANGED <<opt, todo, stdio, table, child>>

\* The copies exist: the deferred close of single, then the command's streams.
attachNoForkStdio ==
    /\ pc = "dup" /\ todo = <<>>
    /\ Close(Single)
    /\ LET out == IF Writes THEN PeerOut ELSE "stdout" IN
       stdio' = IF opt.redirect THEN Std
                ELSE <<IF Reads THEN PeerIn ELSE "stdin", out, IF opt.stderr THEN out ELSE "stderr">>
    /\ pc' = IF opt.redirect THEN "wrap" ELSE "start"
    /\ UNCHANGED <<opt, todo, slots, table, child>>

\* applyConfiguredDashArgv0 and wrapNoForkFDCommand.
wrapNoForkFDCommand ==
    /\ pc = "wrap"
    /\ \/ pc' = "attrs" /\ UNCHANGED <<todo, held, slots, stdio, twice, table, child>>
       \/ Fail({})
    /\ UNCHANGED opt

\* The child's table when it starts.
Inherited ==
    [n \in FDs |->
        IF n < 3 THEN stdio[n + 1]
        ELSE IF n - 2 \in DOMAIN slots THEN (IF slots[n - 2] = "in" THEN PeerIn ELSE PeerOut)
        ELSE ""]

\* Start, then closeNoForkStdio, then the ExtraFiles.
StartOk ==
    /\ pc = "start"
    /\ table' = Inherited
    /\ child' = IF opt.redirect THEN "helper" ELSE "command"
    /\ Close(IF opt.redirect THEN ToSet(slots) ELSE Copies)
    /\ slots' = <<>>
    /\ pc' = "waiting"
    /\ UNCHANGED <<opt, todo, stdio>>

StartFails == pc = "start" /\ Fail(IF opt.redirect THEN {} ELSE Copies) /\ UNCHANGED opt

waitNoFork ==
    /\ pc = "waiting" /\ child \in {"command", "failed"}
    /\ pc' = "returned"
    /\ UNCHANGED <<opt, todo, held, slots, stdio, twice, table, child>>

----------------------------------------------------------------------------
(* The helper in the child *)

\* extraSources: -1 for a direction the command does not have.
inSrc == IF Reads THEN 3 ELSE -1
outSrc == CASE ~Writes -> -1 [] Writes /\ ~Reads -> 3 [] OTHER -> IF sameFD THEN 3 ELSE 4
inTarget == IF Reads THEN opt.fdin ELSE -1
outTarget == IF Writes THEN opt.fdout ELSE -1

Moves == (IF outSrc >= 0 THEN << <<outSrc, outTarget>> >> ELSE <<>>)
         \o (IF inSrc >= 0 THEN << <<inSrc, inTarget>> >> ELSE <<>>)
Sources == {Moves[k][1] : k \in DOMAIN Moves}
Targets == {Moves[k][2] : k \in DOMAIN Moves}

dup2(t, from, to) == [t EXCEPT ![to] = t[from]]

\* A copy of every source, outside all numbers that matter; numbers below it that
\* were in the way are free again.
dupExecFDOutside(t) ==
    LET free == SetToSortSeq({n \in FDs : t[n] = ""} \ ({0, 1, 2} \cup Sources \cup Targets), <)
    IN  [k \in DOMAIN Moves |-> IF k = 2 /\ Moves[2][1] # Moves[1][1] THEN free[2] ELSE free[1]]

\* The moves, output first, from the copies; the copies are closed at the end.
Moved(t) ==
    LET temps == dupExecFDOutside(t)
        copied == [n \in FDs |-> IF \E k \in DOMAIN temps : temps[k] = n
                                 THEN t[Moves[CHOOSE k \in DOMAIN temps : temps[k] = n][1]] ELSE t[n]]
        done == FoldLeft(LAMBDA u, k : dup2(u, temps[k], Moves[k][2]), copied, [k \in DOMAIN Moves |-> k])
    IN  [n \in FDs |-> IF \E k \in DOMAIN temps : temps[k] = n THEN "" ELSE done[n]]

remapExecFDs(t) ==
    LET moved == Moved(t)
        errs == IF opt.stderr THEN dup2(moved, IF outSrc >= 0 THEN outTarget ELSE 1, 2) ELSE moved
    IN  [n \in FDs |-> IF n \in Sources \ Targets THEN "" ELSE errs[n]]

runExecFDHelper ==
    /\ child = "helper"
    /\ \/ table' = remapExecFDs(table) /\ child' = "command"
       \/ child' = "failed" /\ UNCHANGED table       \* a dup or the exec fails
    /\ UNCHANGED <<opt, pc, todo, held, slots, stdio, twice>>

Next ==
    \/ Begin \/ applyExecProcessAttrs \/ streamRWFiles \/ DupOk \/ DupFails \/ attachNoForkStdio
    \/ wrapNoForkFDCommand \/ StartOk \/ StartFails \/ waitNoFork \/ runExecFDHelper

Spec == Init /\ [][Next]_vars

----------------------------------------------------------------------------

\* While the command runs, and after every failure, the parent holds no copy of the
\* peer (which would never see the end), and closed none twice nor a stream not its own.
ParentDropsCopies == (pc \in {"waiting", "returned"} => held = {}) /\ ~twice

\* The command finds the peer at fdin and fdout, fdin winning when they are the same,
\* its stderr where fdout leads if asked, the other standard streams untouched and no
\* further copy of the peer: not at 3 or 4, where the helper got it, nor where it kept
\* it meanwhile.
CommandTable ==
    child = "command" =>
        LET want == [n \in FDs |->
                CASE Reads /\ n = opt.fdin -> PeerIn
                  [] Writes /\ n = opt.fdout /\ ~(Reads /\ n = opt.fdin) -> PeerOut
                  [] OTHER -> IF n < 3 THEN Std[n + 1] ELSE ""]
        IN  table = IF opt.stderr THEN [want EXCEPT ![2] = want[IF Writes THEN opt.fdout ELSE 1]] ELSE want

DescriptorsExact == ParentDropsCopies /\ CommandTable
=============================================================================
