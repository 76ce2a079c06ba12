------------------------------ MODULE LockProofs ------------------------------
(***************************************************************************)
(* Proof that the lock file is a lock, for any number of processes and any *)
(* reuse of inode numbers.  MutualExclusion is inductive once it is said   *)
(* that a disturbance is never taken back; TypeOK is proved with it        *)
(* because the identity a process compares is a real inode number only     *)
(* from its create on.                                                     *)
(***************************************************************************)
EXTENDS LockFile, TLAPS

(* A leaf that names no prover is for the SMT solver, with time to spare.  *)
USE SMTT(60)

(* While undisturbed, an owner is alone and the path names its file.       *)
Exclusive ==
  Undisturbed =>
    \A p \in Process : pc[p] \in Owning =>
      name = ino[p] /\ \A q \in Process : pc[q] \in Owning => q = p

IInv == TypeOK /\ Exclusive

LEMMA InitIInv == Init => IInv
<1> SUFFICES ASSUME Init PROVE IInv
  OBVIOUS
<1>1. TypeOK
  BY LockAssumption DEF Init, TypeOK, Owning
<1>2. Exclusive
  BY DEF Init, Exclusive, Owning
<1>3. QED BY <1>1, <1>2 DEF IInv

(* Types.  One step per group of actions that change the same variables.   *)
LEMMA NextTypeOK == TypeOK /\ [Next]_vars => TypeOK'
<1> SUFFICES ASSUME TypeOK, [Next]_vars PROVE TypeOK'
  OBVIOUS
<1>1. CASE UNCHANGED vars
  BY <1>1 DEF TypeOK, vars, Owning
<1>2. CASE ForeignChange
  BY <1>2 DEF ForeignChange, TypeOK, outsideVars, Owning
<1>3. CASE Terminated
  BY <1>3 DEF Terminated, TypeOK, vars, Owning
<1>4. ASSUME NEW p \in Process, Acquiring(p) PROVE TypeOK'
  <2>1. CASE Create(p)
    <3> PICK i \in Inode : name' = i /\ ino' = [ino EXCEPT ![p] = i]
      BY ZenonT(60), <2>1 DEF Create
    <3> QED BY <2>1 DEF Create, Step, TypeOK, outsideVars, Owning
  <2>2. CASE CheckContext(p)
    BY <2>2 DEF CheckContext, Step, TypeOK, outsideVars, Owning
  <2>3. CASE CreateExists(p)
    BY <2>3 DEF CreateExists, Step, TypeOK, outsideVars, Owning
  <2>4. CASE CreateFails(p) \/ Poll(p)
    BY <2>4 DEF CreateFails, Poll, Step, TypeOK, outsideVars, Owning
  <2>5. CASE Fill(p)
    BY <2>5 DEF Fill, Step, TypeOK, outsideVars, Owning
  <2>6. CASE VerifyCreated(p) \/ VerifyBefore(p) \/ VerifyAfter(p)
    BY <2>6 DEF VerifyCreated, VerifyBefore, VerifyAfter, Verify, Step, TypeOK, outsideVars, Owning
  <2>7. CASE Register(p)
    BY <2>7 DEF Register, Step, TypeOK, outsideVars, Owning
  <2>8. CASE Unregister(p)
    BY <2>8 DEF Unregister, Step, TypeOK, outsideVars, Owning
  <2>9. QED
    BY <1>4, <2>1, <2>2, <2>3, <2>4, <2>5, <2>6, <2>7, <2>8 DEF Acquiring
<1>5. ASSUME NEW p \in Process, Releasing(p) PROVE TypeOK'
  BY <1>5 DEF Releasing, Release, Lstat, Unlink, Step, TypeOK, outsideVars, Owning
<1>6. ASSUME NEW p \in Process, Signal(p) PROVE TypeOK'
  BY <1>6 DEF Signal, TypeOK, Owning
<1>7. ASSUME NEW p \in Process, Handling(p) PROVE TypeOK'
  BY ZenonT(60), <1>7 DEF Handling, SignalLstat, SignalUnlink, SignalCancel, SignalExit, TypeOK, Owning
<1>8. QED
  BY <1>1, <1>2, <1>3, <1>4, <1>5, <1>6, <1>7 DEF Next

(* What has been disturbed stays so: a handler that was started never goes *)
(* back to not running.                                                    *)
LEMMA DisturbedForEver ==
  ASSUME TypeOK, [Next]_vars, Undisturbed'
  PROVE  Undisturbed
<1>1. ~touched
  BY DEF Undisturbed, TypeOK, Next, vars, outsideVars, ForeignChange, Terminated, Acquiring, CheckContext,
     Create, CreateExists, CreateFails, Poll, Fill, VerifyCreated, VerifyBefore, VerifyAfter, Verify,
     Register, Unregister, Releasing, Release, Lstat, Unlink, Signal, Handling, SignalLstat,
     SignalUnlink, SignalCancel, SignalExit
<1>2. ASSUME NEW p \in Process PROVE spc[p] = "none"
  BY <1>2 DEF Undisturbed, TypeOK, Next, vars, outsideVars, ForeignChange, Terminated, Acquiring,
     CheckContext, Create, CreateExists, CreateFails, Poll, Fill, VerifyCreated, VerifyBefore,
     VerifyAfter, Verify, Register, Unregister, Releasing, Release, Lstat, Unlink, Signal, Handling,
     SignalLstat, SignalUnlink, SignalCancel, SignalExit
<1>3. QED BY <1>1, <1>2 DEF Undisturbed

(* Exclusion.  Only Create makes an owner, and only where the path names   *)
(* nothing; only an owner's Unlink changes the name otherwise.             *)
LEMMA NextExclusive == IInv /\ [Next]_vars => Exclusive'
<1> SUFFICES ASSUME TypeOK, Exclusive, [Next]_vars, Undisturbed' PROVE Exclusive'
  BY DEF IInv, Exclusive
<1> Undisturbed
  BY DisturbedForEver
<1>0. \A p \in Process : pc[p] \in Owning =>
        name = ino[p] /\ \A q \in Process : pc[q] \in Owning => q = p
  BY DEF Exclusive
<1>1. CASE UNCHANGED vars
  BY <1>0, <1>1 DEF Exclusive, vars
<1>2. CASE ForeignChange
  BY <1>2 DEF ForeignChange, Undisturbed
<1>3. CASE Terminated
  BY <1>0, <1>3 DEF Terminated, Exclusive, vars
<1>4. ASSUME NEW p \in Process, Acquiring(p) PROVE Exclusive'
  <2>1. CASE Create(p)
    <3>1. name = NoFile /\ pc' = [pc EXCEPT ![p] = "fill"] /\ spc' = spc
      BY <2>1 DEF Create, Step, outsideVars
    <3>2. \A q \in Process : pc[q] \notin Owning
      BY <1>0, <3>1, LockAssumption DEF TypeOK
    <3>3. name' = ino'[p]
      BY <2>1 DEF Create, TypeOK
    <3>4. \A q \in Process : pc'[q] \in Owning => q = p
      BY <3>1, <3>2 DEF TypeOK
    <3>5. QED BY <1>0, <3>1, <3>3, <3>4 DEF Exclusive
  <2>2. CASE ~Create(p)
    <3>1. name' = name /\ ino' = ino /\ spc' = spc
      BY <1>4, <2>2 DEF Acquiring, CheckContext, CreateExists, CreateFails, Poll, Fill, VerifyCreated,
         VerifyBefore, VerifyAfter, Verify, Register, Unregister, outsideVars
    <3>2. \A q \in Process : pc'[q] \in Owning => pc[q] \in Owning
      BY <1>4, <2>2 DEF Acquiring, CheckContext, CreateExists, CreateFails, Poll, Fill, VerifyCreated,
         VerifyBefore, VerifyAfter, Verify, Register, Unregister, Step, TypeOK, Owning
    <3>3. QED BY <1>0, <3>1, <3>2 DEF Exclusive
  <2>3. QED BY <2>1, <2>2
<1>5. ASSUME NEW p \in Process, Releasing(p) PROVE Exclusive'
  <2>1. CASE Unlink(p)
    <3>1. pc[p] \in Owning /\ pc'[p] \notin Owning /\ spc' = spc
      BY <2>1 DEF Unlink, Step, outsideVars, TypeOK, Owning
    <3>2. \A q \in Process : pc'[q] \in Owning => pc[q] \in Owning /\ q # p
      BY <2>1, <3>1 DEF Unlink, Step, TypeOK
    <3>3. \A q \in Process : pc'[q] \notin Owning
      BY <1>0, <3>1, <3>2
    <3>4. QED BY <1>0, <3>1, <3>3 DEF Exclusive
  <2>2. CASE Release(p) \/ Lstat(p)
    <3>1. name' = name /\ ino' = ino /\ spc' = spc
      BY <2>2 DEF Release, Lstat, outsideVars
    <3>2. \A q \in Process : pc'[q] \in Owning => pc[q] \in Owning
      BY <2>2 DEF Release, Lstat, Step, TypeOK, Owning
    <3>3. QED BY <1>0, <3>1, <3>2 DEF Exclusive
  <2>3. QED BY <1>5, <2>1, <2>2 DEF Releasing
<1>6. ASSUME NEW p \in Process, Signal(p) PROVE Exclusive'
  BY <1>0, <1>6 DEF Signal, Exclusive
<1>7. ASSUME NEW p \in Process, Handling(p) PROVE Exclusive'
  BY <1>7 DEF Handling, SignalLstat, SignalUnlink, SignalCancel, SignalExit, Undisturbed
<1>8. QED
  BY <1>1, <1>2, <1>3, <1>4, <1>5, <1>6, <1>7 DEF Next

(* The inductive invariant holds in every reachable state. *)
THEOREM Invariance == Spec => []IInv
<1>1. IInv /\ [Next]_vars => IInv'
  BY NextTypeOK, NextExclusive DEF IInv
<1>2. QED
  BY InitIInv, <1>1, PTL DEF Spec

(* The lock is a lock (MutualExclusion): as long as no process is being    *)
(* killed and nobody else touches the path, at most one process is between *)
(* the O_EXCL create of createLockFile and the unlink of releaseLockFile,  *)
(* and the path names its file all the while.                              *)
THEOREM LockExcludes == Spec => []MutualExclusion
<1>1. IInv => MutualExclusion
  BY DEF IInv, Exclusive, MutualExclusion
<1>2. QED
  BY Invariance, <1>1, PTL
-----------------------------------------------------------------------------
(* What a signal removes.  A process that has not created its file has     *)
(* nothing registered, and a handler that is past its unlink finds at the  *)
(* path, if anything, a file some other process created.                   *)

(* Before its create a process knows no file and has registered none.      *)
Fresh ==
  \A p \in Process : pc[p] \in {"check", "create", "poll"} =>
    registered[p] = NoFile /\ snapshot[p] = NoFile

(* Whoever handled a signal to the end has left nothing of its own.        *)
Removed ==
  ~touched => \A p \in Process :
    spc[p] \in {"cancel", "exit", "exited"} /\ snapshot[p] # NoFile /\ name = snapshot[p] =>
      \E q \in Process \ {p} : ino[q] = name

CleanInv == Fresh /\ RegisteredIsCreated /\ Removed

LEMMA InitCleanInv == Init => CleanInv
BY DEF Init, CleanInv, Fresh, RegisteredIsCreated, Removed

(* The two facts about the registry.  Only Create gives an identity, and   *)
(* it comes before the registration.                                       *)
LEMMA NextRegistry ==
  ASSUME TypeOK, Fresh, RegisteredIsCreated, [Next]_vars
  PROVE  Fresh' /\ RegisteredIsCreated'
<1>1. CASE UNCHANGED vars
  BY <1>1 DEF Fresh, RegisteredIsCreated, vars
<1>2. CASE ForeignChange \/ Terminated
  BY <1>2 DEF ForeignChange, Terminated, Fresh, RegisteredIsCreated, vars
<1>3. ASSUME NEW p \in Process, Create(p) PROVE Fresh' /\ RegisteredIsCreated'
  <2>1. pc[p] = "create" /\ pc' = [pc EXCEPT ![p] = "fill"] /\ registered' = registered /\ snapshot' = snapshot
    BY <1>3 DEF Create, Step, outsideVars
  <2>2. \A q \in Process \ {p} : ino'[q] = ino[q]
    BY <1>3 DEF Create, TypeOK
  <2>3. registered[p] = NoFile /\ snapshot[p] = NoFile
    BY <2>1 DEF Fresh
  <2>4. Fresh'
    BY <2>1 DEF Fresh, TypeOK
  <2>5. RegisteredIsCreated'
    BY <2>1, <2>2, <2>3 DEF RegisteredIsCreated
  <2>6. QED BY <2>4, <2>5
<1>4. ASSUME NEW p \in Process, Register(p) PROVE Fresh' /\ RegisteredIsCreated'
  BY <1>4 DEF Register, Step, outsideVars, Fresh, RegisteredIsCreated, TypeOK
<1>5. ASSUME NEW p \in Process, Unregister(p) \/ Release(p) PROVE Fresh' /\ RegisteredIsCreated'
  BY <1>5 DEF Unregister, Release, Step, outsideVars, Fresh, RegisteredIsCreated, TypeOK
<1>6. ASSUME NEW p \in Process, CheckContext(p) \/ CreateExists(p) \/ CreateFails(p) \/ Poll(p)
      PROVE  Fresh' /\ RegisteredIsCreated'
  <2>1. pc[p] \in {"check", "create", "poll"} /\ UNCHANGED <<ino, registered, snapshot>>
    BY <1>6 DEF CheckContext, CreateExists, CreateFails, Poll, Step, outsideVars
  <2>2. \A q \in Process \ {p} : pc'[q] = pc[q]
    BY <1>6 DEF CheckContext, CreateExists, CreateFails, Poll, Step, TypeOK
  <2>3. QED BY <2>1, <2>2 DEF Fresh, RegisteredIsCreated
<1>7. ASSUME NEW p \in Process,
             Fill(p) \/ VerifyCreated(p) \/ VerifyBefore(p) \/ VerifyAfter(p) \/ Lstat(p) \/ Unlink(p)
      PROVE  Fresh' /\ RegisteredIsCreated'
  <2>1. UNCHANGED <<ino, registered, snapshot>>
    BY <1>7 DEF Fill, VerifyCreated, VerifyBefore, VerifyAfter, Verify, Lstat, Unlink, outsideVars
  <2>2. \A q \in Process : pc'[q] \in {"check", "create", "poll"} => pc[q] \in {"check", "create", "poll"}
    BY <1>7 DEF Fill, VerifyCreated, VerifyBefore, VerifyAfter, Verify, Lstat, Unlink, Step, TypeOK
  <2>3. QED BY <2>1, <2>2 DEF Fresh, RegisteredIsCreated
<1>8. ASSUME NEW p \in Process, Signal(p) PROVE Fresh' /\ RegisteredIsCreated'
  BY <1>8 DEF Signal, Fresh, RegisteredIsCreated, TypeOK
<1>9. ASSUME NEW p \in Process, Handling(p) PROVE Fresh' /\ RegisteredIsCreated'
  BY <1>9 DEF Handling, SignalLstat, SignalUnlink, SignalCancel, SignalExit, Fresh, RegisteredIsCreated
<1>10. QED
  BY <1>1, <1>2, <1>3, <1>4, <1>5, <1>6, <1>7, <1>8, <1>9 DEF Next, Acquiring, Releasing

(* The handler compares and unlinks before it cancels; afterwards only a   *)
(* create, of a process with nothing registered, names the path again.     *)
LEMMA NextRemoved ==
  ASSUME TypeOK, Fresh, Removed, [Next]_vars
  PROVE  Removed'
<1> SUFFICES ASSUME ~touched', NEW p \in Process, spc'[p] \in {"cancel", "exit", "exited"},
                    snapshot'[p] # NoFile, name' = snapshot'[p]
             PROVE  \E q \in Process \ {p} : ino'[q] = name'
  BY DEF Removed
<1>0. ASSUME ~touched, UNCHANGED <<name, ino, snapshot>>, spc[p] \in {"cancel", "exit", "exited"}
      PROVE  \E q \in Process \ {p} : ino'[q] = name'
  <2>1. snapshot[p] # NoFile /\ name = snapshot[p] /\ ino' = ino /\ name' = name
    BY <1>0, Zenon
  <2>2. \E q \in Process \ {p} : ino[q] = name
    BY <1>0, <2>1 DEF Removed
  <2>3. QED BY <2>1, <2>2
<1>1. CASE UNCHANGED vars
  BY <1>0, <1>1 DEF vars
<1>2. CASE ForeignChange
  BY <1>2 DEF ForeignChange
<1>3. CASE Terminated
  BY <1>0, <1>3 DEF Terminated, vars
<1>4. ASSUME NEW r \in Process, Create(r) PROVE \E q \in Process \ {p} : ino'[q] = name'
  <2>1. pc[r] = "create" /\ snapshot' = snapshot
    BY <1>4 DEF Create, Step, outsideVars
  <2>2. r # p
    BY <2>1 DEF Fresh
  <2>3. ino'[r] = name'
    BY <1>4 DEF Create, TypeOK
  <2>4. QED BY <2>2, <2>3
<1>5. ASSUME NEW r \in Process, Unlink(r) \/ SignalUnlink(r)
      PROVE  \E q \in Process \ {p} : ino'[q] = name'
  BY <1>5 DEF Unlink, SignalUnlink
<1>6. ASSUME NEW r \in Process,
             \/ CheckContext(r) \/ CreateExists(r) \/ CreateFails(r) \/ Poll(r) \/ Fill(r) \/ VerifyCreated(r)
             \/ VerifyBefore(r) \/ Register(r) \/ VerifyAfter(r) \/ Unregister(r) \/ Release(r) \/ Lstat(r)
      PROVE  \E q \in Process \ {p} : ino'[q] = name'
  <2>1. UNCHANGED <<name, ino, outsideVars>>
    BY <1>6 DEF CheckContext, CreateExists, CreateFails, Poll, Fill, VerifyCreated, VerifyBefore,
       VerifyAfter, Verify, Register, Unregister, Release, Lstat
  <2>2. QED BY <1>0, <2>1 DEF outsideVars
<1>7. ASSUME NEW r \in Process, Signal(r) PROVE \E q \in Process \ {p} : ino'[q] = name'
  <2>1. CASE r = p
    BY <1>7, <2>1 DEF Signal, TypeOK
  <2>2. CASE r # p
    <3>1. snapshot'[p] = snapshot[p] /\ spc'[p] = spc[p] /\ name' = name /\ ino' = ino /\ touched' = touched
      BY <1>7, <2>2 DEF Signal, TypeOK
    <3>2. QED BY <3>1 DEF Removed
  <2>3. QED BY <2>1, <2>2
<1>8. ASSUME NEW r \in Process, SignalLstat(r) PROVE \E q \in Process \ {p} : ino'[q] = name'
  <2>1. UNCHANGED <<name, ino, snapshot, touched>>
    BY <1>8 DEF SignalLstat
  <2>2. spc[p] \in {"cancel", "exit", "exited"}
    <3>1. CASE r = p
      <4>1. name = snapshot[p]
        BY <2>1, Zenon
      <4>2. spc'[p] = "unlink"
        BY <1>8, <3>1, <4>1 DEF SignalLstat, TypeOK
      <4>3. QED BY <4>2
    <3>2. CASE r # p
      BY <1>8, <3>2 DEF SignalLstat, TypeOK
    <3>3. QED BY <3>1, <3>2
  <2>3. QED BY <1>0, <2>1, <2>2
<1>9. ASSUME NEW r \in Process, SignalCancel(r) \/ SignalExit(r)
      PROVE  \E q \in Process \ {p} : ino'[q] = name'
  <2>1. UNCHANGED <<name, ino, snapshot, touched>>
    BY <1>9 DEF SignalCancel, SignalExit
  <2>2. spc[p] \in {"cancel", "exit", "exited"}
    BY <1>9 DEF SignalCancel, SignalExit, TypeOK
  <2>3. QED BY <1>0, <2>1, <2>2
<1>10. QED
  BY <1>1, <1>2, <1>3, <1>4, <1>5, <1>6, <1>7, <1>8, <1>9 DEF Next, Acquiring, Releasing, Handling

(* A signal removes the lock file of its process and no other              *)
(* (LockCleanup): what UnlinkRegisteredPaths will remove is the file that  *)
(* createLockFile made, and as long as nobody else touches the path, the   *)
(* process is gone only when the path no longer names its registered file. *)
THEOREM SignalCleansUp == Spec => []LockCleanup
<1>1. TypeOK /\ CleanInv /\ [Next]_vars => CleanInv'
  BY NextRegistry, NextRemoved DEF CleanInv
<1>2. IInv => TypeOK
  BY DEF IInv
<1>3. TypeOK /\ CleanInv => LockCleanup
  BY DEF TypeOK, CleanInv, Removed, LockCleanup, ExitUnlinks, Alive
<1>4. QED
  BY Invariance, InitCleanInv, <1>1, <1>2, <1>3, PTL DEF Spec
==============================================================================
