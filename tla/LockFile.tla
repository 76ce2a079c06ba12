------------------------------- MODULE LockFile -------------------------------
(***************************************************************************)
(* Lock files (-L, -W, lockfile=, waitlock=): internal/xio/lockfile.go and *)
(* the signal-exit unlink registry of internal/xio/owner.go.               *)
(*                                                                         *)
(* Processes compete for one path.  The file system is the object the path *)
(* names, an inode, with the number of a removed file free for reuse: a    *)
(* file's identity (os.SameFile) is its inode number.  Each system call is *)
(* a step.  In every process a signal may start the handler goroutine,     *)
(* which unlinks what is registered and exits the process, while the main  *)
(* goroutine goes on acquiring or releasing.                               *)
(***************************************************************************)
EXTENDS Naturals, FiniteSets

CONSTANTS Process,    \* the processes
          Inode,      \* inode numbers
          NoFile,     \* the path names nothing
          Waits,      \* the processes that wait for the lock (-W, waitlock=)
          Signals,    \* the processes a signal may hit
          Foreign     \* somebody else may remove or replace the file

ASSUME LockAssumption ==
  NoFile \notin Inode /\ Waits \subseteq Process /\ Signals \subseteq Process /\ Foreign \in BOOLEAN

VARIABLES
  name,        \* the inode the path names, or NoFile
  pc,          \* the main goroutine of each process
  ino,         \* the identity it got from f.Stat() of the file it created
  contended,   \* contentionObserved
  registered,  \* the entry of the path in unlinkPaths, or NoFile
  spc,         \* the signal handler goroutine
  snapshot,    \* the entry it took from the registry
  cancelled,   \* ctx
  touched      \* history: somebody else has put a file there or taken one away

vars == <<name, pc, ino, contended, registered, spc, snapshot, cancelled, touched>>

Init ==
  /\ name \in {NoFile} \cup (IF Foreign THEN Inode ELSE {}) /\ touched = (name # NoFile)
  /\ pc = [p \in Process |-> "check"] /\ ino = [p \in Process |-> NoFile]
  /\ contended = [p \in Process |-> FALSE]
  /\ registered = [p \in Process |-> NoFile] /\ snapshot = [p \in Process |-> NoFile]
  /\ spc = [p \in Process |-> "none"] /\ cancelled = [p \in Process |-> FALSE]

Alive(p) == spc[p] # "exited"
Step(p, from, to) == Alive(p) /\ pc[p] = from /\ pc' = [pc EXCEPT ![p] = to]
SameFile(p) == name = ino[p]
outsideVars == <<spc, snapshot, cancelled, touched>>

-----------------------------------------------------------------------------
(* acquireLockFile and createLockFile *)

CheckContext(p) ==
  /\ Step(p, "check", IF cancelled[p] THEN "failed" ELSE "create")
  /\ UNCHANGED <<name, ino, contended, registered, outsideVars>>

(* The same without O_EXCL: an existing file is taken over. *)
CreateShared(p) ==
  /\ Step(p, "create", "fill")
  /\ \E i \in Inode :
       /\ name # NoFile => i = name
       /\ name' = i /\ ino' = [ino EXCEPT ![p] = i]
  /\ UNCHANGED <<contended, registered, outsideVars>>

(* O_CREATE|O_EXCL makes a new file under a number no linked file has. *)
Create(p) ==
  /\ Step(p, "create", "fill") /\ name = NoFile
  /\ \E i \in Inode : name' = i /\ ino' = [ino EXCEPT ![p] = i]
  /\ UNCHANGED <<contended, registered, outsideVars>>

CreateExists(p) ==
  /\ Step(p, "create", IF p \in Waits THEN "poll" ELSE "failed") /\ name # NoFile
  /\ contended' = [contended EXCEPT ![p] = @ \/ p \in Waits]
  /\ UNCHANGED <<name, ino, registered, outsideVars>>

(* Another open error: final, or transient after contention was observed   *)
(* and for less than transientRetryLimit.                                  *)
CreateFails(p) ==
  /\ \/ Step(p, "create", "failed")
     \/ p \in Waits /\ contended[p] /\ Step(p, "create", "poll")
  /\ UNCHANGED <<name, ino, contended, registered, outsideVars>>

Poll(p) ==
  /\ Step(p, "poll", "check") \/ (cancelled[p] /\ Step(p, "poll", "failed"))
  /\ UNCHANGED <<name, ino, contended, registered, outsideVars>>

(* Write, fchmod, Stat and Close; a failure releases the file (when Stat   *)
(* gave its identity).                                                     *)
Fill(p) ==
  /\ Step(p, "fill", "verify1") \/ Step(p, "fill", "undo") \/ Step(p, "fill", "failed")
  /\ UNCHANGED <<name, ino, contended, registered, outsideVars>>

(* verifyLockIdentity: at the end of createLockFile, and twice in          *)
(* HoldLockFile, around the registration.                                  *)
Verify(p, from, to, replaced) ==
  /\ Step(p, from, IF SameFile(p) THEN to ELSE replaced)
  /\ UNCHANGED <<name, ino, contended, registered, outsideVars>>

VerifyCreated(p) == Verify(p, "verify1", "verify2", "failed")
VerifyBefore(p) == Verify(p, "verify2", "register", "failed")
VerifyAfter(p) == Verify(p, "verify3", "held", "unregister")

Register(p) ==
  /\ Step(p, "register", "verify3")
  /\ registered' = [registered EXCEPT ![p] = ino[p]]
  /\ UNCHANGED <<name, ino, contended, outsideVars>>

Unregister(p) ==
  /\ Step(p, "unregister", "failed")
  /\ registered' = [registered EXCEPT ![p] = NoFile]
  /\ UNCHANGED <<name, ino, contended, outsideVars>>

-----------------------------------------------------------------------------
(* The release function HoldLockFile returned: unregister, then            *)
(* UnlinkIfSameFile, which compares and unlinks in two calls.              *)

Release(p) ==
  /\ Step(p, "held", "lstat")
  /\ registered' = [registered EXCEPT ![p] = NoFile]
  /\ UNCHANGED <<name, ino, contended, outsideVars>>

Lstat(p) ==
  /\ \/ Step(p, "lstat", IF SameFile(p) THEN "unlink" ELSE "released")
     \/ Step(p, "undo", IF SameFile(p) THEN "unlinkFailed" ELSE "failed")
  /\ UNCHANGED <<name, ino, contended, registered, outsideVars>>

Unlink(p) ==
  /\ Step(p, "unlink", "released") \/ Step(p, "unlinkFailed", "failed")
  /\ name' = NoFile
  /\ UNCHANGED <<ino, contended, registered, outsideVars>>

-----------------------------------------------------------------------------
(* The signal handler of internal/cli: UnlinkRegisteredPaths, cancel, exit *)

(* The handler forgets the paths. *)
SignalSkipsPaths(p) ==
  /\ p \in Signals /\ spc[p] = "none"
  /\ spc' = [spc EXCEPT ![p] = "cancel"]
  /\ snapshot' = [snapshot EXCEPT ![p] = registered[p]]
  /\ UNCHANGED <<name, pc, ino, contended, registered, cancelled, touched>>

Signal(p) ==
  /\ p \in Signals /\ spc[p] = "none"
  /\ spc' = [spc EXCEPT ![p] = IF registered[p] = NoFile THEN "cancel" ELSE "lstat"]
  /\ snapshot' = [snapshot EXCEPT ![p] = registered[p]]
  /\ registered' = [registered EXCEPT ![p] = NoFile]
  /\ UNCHANGED <<name, pc, ino, contended, cancelled, touched>>

SignalLstat(p) ==
  /\ spc[p] = "lstat"
  /\ spc' = [spc EXCEPT ![p] = IF name = snapshot[p] THEN "unlink" ELSE "cancel"]
  /\ UNCHANGED <<name, pc, ino, contended, registered, snapshot, cancelled, touched>>

SignalUnlink(p) ==
  /\ spc[p] = "unlink"
  /\ spc' = [spc EXCEPT ![p] = "cancel"] /\ name' = NoFile
  /\ UNCHANGED <<pc, ino, contended, registered, snapshot, cancelled, touched>>

SignalCancel(p) ==
  /\ spc[p] = "cancel" /\ spc' = [spc EXCEPT ![p] = "exit"]
  /\ cancelled' = [cancelled EXCEPT ![p] = TRUE]
  /\ UNCHANGED <<name, pc, ino, contended, registered, snapshot, touched>>

SignalExit(p) ==
  /\ spc[p] = "exit" /\ spc' = [spc EXCEPT ![p] = "exited"]
  /\ UNCHANGED <<name, pc, ino, contended, registered, snapshot, cancelled, touched>>

(* Somebody else removes the file or puts another in its place. *)
ForeignChange ==
  /\ Foreign /\ name # NoFile
  /\ \E i \in (Inode \cup {NoFile}) \ {name} : name' = i
  /\ touched' = TRUE
  /\ UNCHANGED <<pc, ino, contended, registered, spc, snapshot, cancelled>>

-----------------------------------------------------------------------------
Acquiring(p) ==
  \/ CheckContext(p) \/ Create(p) \/ CreateExists(p) \/ CreateFails(p) \/ Poll(p) \/ Fill(p)
  \/ VerifyCreated(p) \/ VerifyBefore(p) \/ Register(p) \/ VerifyAfter(p) \/ Unregister(p)
Releasing(p) == Release(p) \/ Lstat(p) \/ Unlink(p)
Handling(p) == SignalLstat(p) \/ SignalUnlink(p) \/ SignalCancel(p) \/ SignalExit(p)

Terminated ==
  /\ \A p \in Process : pc[p] \in {"failed", "released"} \/ ~Alive(p)
  /\ UNCHANGED vars

Next ==
  \/ ForeignChange \/ Terminated
  \/ \E p \in Process : Acquiring(p) \/ Releasing(p) \/ Signal(p) \/ Handling(p)

Spec == Init /\ [][Next]_vars

(***************************************************************************)
(* Fairness: goroutines run, a holder ends and releases, and creation does *)
(* not fail for ever (transientRetryLimit).                                *)
(***************************************************************************)
Main(p) == Acquiring(p) \/ Releasing(p)

FairSpec ==
  /\ Spec
  /\ \A p \in Process : WF_vars(Main(p)) /\ SF_vars(Create(p)) /\ WF_vars(Handling(p))

-----------------------------------------------------------------------------
(* From its creation of the file to the unlink of it. *)
Owning == {"fill", "verify1", "verify2", "register", "verify3", "held", "lstat", "undo",
           "unlink", "unlinkFailed"}

(* Types; a process that has created the file knows its identity.          *)
TypeOK ==
  /\ name \in Inode \cup {NoFile}
  /\ pc \in [Process -> {"check", "create", "poll", "fill", "verify1", "verify2", "register",
                         "verify3", "unregister", "held", "lstat", "undo", "unlink",
                         "unlinkFailed", "released", "failed"}]
  /\ ino \in [Process -> Inode \cup {NoFile}] /\ contended \in [Process -> BOOLEAN]
  /\ registered \in [Process -> Inode \cup {NoFile}]
  /\ snapshot \in [Process -> Inode \cup {NoFile}]
  /\ spc \in [Process -> {"none", "lstat", "unlink", "cancel", "exit", "exited"}]
  /\ cancelled \in [Process -> BOOLEAN] /\ touched \in BOOLEAN
  /\ \A p \in Process : pc[p] \in Owning => ino[p] \in Inode

(* Nobody but socat has been at the path and no process is being killed.   *)
Undisturbed == ~touched /\ \A p \in Process : spc[p] = "none"

(* The lock is a lock: while undisturbed, at most one process is between   *)
(* its create and its unlink, the path names that process's file, and the  *)
(* identity check before the unlink never misses it.                       *)
MutualExclusion ==
  Undisturbed =>
    \A p \in Process : pc[p] \in Owning =>
      name = ino[p] /\ \A q \in Process : pc[q] \in Owning => q = p

(* A process that a signal ended while it had registered the file has      *)
(* removed it: what the path names now is another process's file.          *)
ExitUnlinks ==
  ~touched => \A p \in Process :
    ~Alive(p) /\ snapshot[p] # NoFile /\ name = snapshot[p] =>
      \E q \in Process \ {p} : ino[q] = name

(* What a signal will remove is the file the process created, never one    *)
(* that has taken its place before the registration.                       *)
RegisteredIsCreated ==
  \A p \in Process : {registered[p], snapshot[p]} \subseteq {NoFile, ino[p]}

(* A signal removes the lock file of this process and no other.            *)
LockCleanup == ExitUnlinks /\ RegisteredIsCreated

(* A lock file nobody will remove: its creator could not identify it, or   *)
(* was killed before it registered it.                                     *)
Orphan == \E p \in Process : name = ino[p] /\ (pc[p] = "failed" \/ ~Alive(p))

(* A process that waits for the lock gets it, or is cancelled, unless an   *)
(* orphan or somebody else's file is in the way.                           *)
WaiterDue(p) ==
  pc[p] \notin {"held", "failed", "released"} /\ Alive(p) /\ ~Orphan /\ ~touched

(* README: "Lock files and unlink-on-close paths are removed only if they  *)
(* still refer to the object created by this process."  At the unlink the  *)
(* path names the file whose identity was compared, or nothing.            *)
RemovesOnlyOwn ==
  [][\A p \in Process : /\ Unlink(p) => name \in {ino[p], NoFile}
                        /\ SignalUnlink(p) => name \in {snapshot[p], NoFile}]_vars
==============================================================================
