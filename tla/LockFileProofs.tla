---------------------------- MODULE LockFileProofs ---------------------------
(***************************************************************************)
(* Proofs about LockFile for any set of processes, whatever signals they    *)
(* get and however long they wait.                                          *)
(***************************************************************************)
EXTENDS LockFile, TLAPS

(* The inductive invariant: an owner is told from the others by its unique    *)
(* file, hence which steps go with one.                                      *)

(* Who has a unique file, and who does not. *)
UniqueFiles ==
  \A p \in Proc :
     /\ pc[p] \in {"register", "link", "exists", "clear", "compile", "unlock",
                  "cleanUp"} => p \in unique
     /\ p \in unique => pc[p] \notin {"create", "wait", "owner", "file",
                                  "giveUp"}

IInv == /\ TypeOK /\ UniqueFiles
        /\ NoOrphanLock /\ OwnersDoNotWait /\ NoLeftovers /\ ModuleIsThere

(* The invariant is preserved, system call by system call. *)
LEMMA Step == IInv /\ [Next]_vars => IInv'
<1> SUFFICES ASSUME IInv, [Next]_vars PROVE IInv'
  OBVIOUS
<1> USE ProcAssumption DEF IInv, TypeOK, UniqueFiles,
   NoOrphanLock, OwnersDoNotWait, NoLeftovers, ModuleIsThere, Owning, Over,
   Ended, Steps, Goto
<1>1. ASSUME NEW p \in Proc, ReadLockFile(p) PROVE IInv'
  BY <1>1 DEF ReadLockFile, LockFileExists
<1>2. ASSUME NEW p \in Proc, CheckOwner(p) PROVE IInv'
  BY <1>2 DEF CheckOwner, Executing
<1>3. ASSUME NEW p \in Proc, OwnerIsDead(p) PROVE IInv'
  BY <1>3 DEF OwnerIsDead, Executing
<1>4. ASSUME NEW p \in Proc, RemoveLockFile(p) PROVE IInv'
  BY <1>4 DEF RemoveLockFile, Retrying
<1>5. ASSUME NEW p \in Proc, CreateUniqueFile(p) PROVE IInv'
  BY <1>5 DEF CreateUniqueFile
<1>6. ASSUME NEW p \in Proc, RegisterUniqueFile(p) PROVE IInv'
  BY <1>6 DEF RegisterUniqueFile
<1>7. ASSUME NEW p \in Proc, CreateLink(p) PROVE IInv'
  BY <1>7 DEF CreateLink
<1>8. ASSUME NEW p \in Proc, ReleasedMeanwhile(p) PROVE IInv'
  BY <1>8 DEF ReleasedMeanwhile, LockFileExists
<1>9. ASSUME NEW p \in Proc, ClearUnowned(p) PROVE IInv'
  BY <1>9 DEF ClearUnowned
<1>10. ASSUME NEW p \in Proc, Publish(p) PROVE IInv'
  BY <1>10 DEF Publish
<1>11. ASSUME NEW p \in Proc, CompileFails(p) PROVE IInv'
  BY <1>11 DEF CompileFails
<1>12. ASSUME NEW p \in Proc, ReadAST(p) PROVE IInv'
  BY <1>12 DEF ReadAST, ReadOwn, ReadShared, Retrying
<1>13. ASSUME NEW p \in Proc, Unlock(p) PROVE IInv'
  BY <1>13 DEF Unlock
<1>14. ASSUME NEW p \in Proc, CleanUp(p) PROVE IInv'
  BY <1>14 DEF CleanUp
<1>15. ASSUME NEW p \in Proc, WaitOver(p) PROVE IInv'
  BY <1>15 DEF WaitOver
<1>16. ASSUME NEW p \in Proc, FileExists(p) PROVE IInv'
  BY <1>16 DEF FileExists
<1>17. ASSUME NEW p \in Proc, OwnerDied(p) PROVE IInv'
  BY <1>17 DEF OwnerDied
<1>18. ASSUME NEW p \in Proc, TimeOut(p) PROVE IInv'
  BY <1>18 DEF TimeOut
<1>19. ASSUME NEW p \in Proc, UnsafeRemoveLockFile(p) PROVE IInv'
  BY <1>19 DEF UnsafeRemoveLockFile
<1>20. ASSUME NEW p \in Proc, Exit(p) PROVE IInv'
  BY <1>20 DEF Exit
<1>21. ASSUME NEW p \in Proc, Interrupt(p) PROVE IInv'
  BY <1>21 DEF Interrupt
<1>22. ASSUME NEW p \in Proc, Kill(p) PROVE IInv'
  BY <1>22 DEF Kill
<1>23. ASSUME NEW p \in Proc, StillLocked(p) PROVE IInv'
  BY <1>23 DEF StillLocked
<1>24. ASSUME NEW p \in Proc, OwnerLives(p) PROVE IInv'
  BY <1>24 DEF OwnerLives
<1>25. ASSUME UNCHANGED vars PROVE IInv'
  BY <1>25 DEF vars
<1> QED
  BY <1>1, <1>2, <1>3, <1>4, <1>5, <1>6, <1>7, <1>8,
     <1>9, <1>10, <1>11, <1>12, <1>13, <1>14, <1>15, <1>16,
     <1>17, <1>18, <1>19, <1>20, <1>21, <1>22, <1>23, <1>24, <1>25
     DEF Next, Work, Construct, Build, WaitForUnlock

(* Every reachable state satisfies the invariant. *)
THEOREM Invariance == Spec => []IInv
<1>1. Init => IInv
  BY ProcAssumption
     DEF Init, IInv, TypeOK, UniqueFiles, NoOrphanLock,
         OwnersDoNotWait, NoLeftovers, ModuleIsThere, Over, Ended, Steps
<1> QED
  BY <1>1, Step, PTL DEF Spec

(* Type correctness; in particular the module file is never half written. *)
THEOREM TypeCorrect == Spec => []TypeOK
BY Invariance, PTL DEF IInv

(* No lock file is left by a process that goes on without it, and nobody      *)
(* waits for a process that waits.                                           *)
THEOREM LocksAreReleased == Spec => []NobodyWaitsInVain
<1>1. IInv => NobodyWaitsInVain
  BY DEF IInv, NobodyWaitsInVain
<1> QED
  BY <1>1, Invariance, PTL

(* No unique file is left but by a process that crashed or had no host ID. *)
THEOREM FilesAreRemoved == Spec => []NoLeftovers
BY Invariance, PTL DEF IInv

(* No import fails for want of the module. *)
THEOREM ImportsSucceed == Spec => []ModuleIsThere
BY Invariance, PTL DEF IInv

=============================================================================
