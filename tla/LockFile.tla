------------------------------ MODULE LockFile -------------------------------
(***************************************************************************)
(* llvm::LockFileManager (llvm/lib/Support/LockFileManager.cpp) and the     *)
(* import loop of clang that uses it, compileAndLoadModule() in             *)
(* clang/lib/Frontend/CompilerInstance.cpp.  Processes that need the same   *)
(* module file agree on one to build it through a ".lock" file, a symbolic  *)
(* link to a file of the owner's own that holds its process ID.             *)
(*                                                                          *)
(* Each system call is a step.  A process is killed by a signal it handles  *)
(* or by one it cannot; what it leaves behind stays in the file system.     *)
(***************************************************************************)
EXTENDS Naturals

CONSTANTS Proc,      (* the processes that import the module                 *)
          NoFile,    (* the target of the lock file when there is none       *)
          Killable,  (* whether a process may get a signal it cannot handle  *)
          Timeouts   (* whether a wait may last its eight minutes            *)

ASSUME ProcAssumption == NoFile \notin Proc
ASSUME BooleanAssumption == Killable \in BOOLEAN /\ Timeouts \in BOOLEAN

VARIABLES lockFile,  (* the process the ".lock" link leads to, or NoFile     *)
          unique,    (* the processes whose unique file exists               *)
          module,    (* the module file: "absent", "stale" or "fresh"        *)
          Owner,     (* the process each process last read in the lock file  *)
          built,     (* who has built the module and read it back            *)
          pc

vars == <<lockFile, unique, module, Owner, built, pc>>

(* A process that could not get its host ID has ended "nameless".           *)
Over  == {"success", "failed"}
Ended == {"exited", "crashed", "nameless"}
Steps == {"read", "check", "remove", "create", "register", "link", "exists",
          "clear", "compile", "import", "unlock", "cleanUp", "wait", "owner",
          "file", "giveUp"} \cup Over \cup Ended

(* All processes are on one host, whose ID is had whenever it is compared.   *)
Executing(p) == pc[p] \notin Ended

(* Opening or testing the lock file follows the link. *)
LockFileExists == lockFile \in unique

(* readLockFile() is called before and after the unique file is made. *)
Retrying(p) == p \in unique

Goto(p, from, to) == pc[p] = from /\ pc' = [pc EXCEPT ![p] = to]

Init == /\ lockFile = NoFile /\ unique = {}
        /\ module \in {"absent", "stale"}
        /\ Owner = [p \in Proc |-> NoFile]
        /\ built = [p \in Proc |-> FALSE]
        /\ pc = [p \in Proc |-> "read"]

-----------------------------------------------------------------------------
(* Seeded faults: each is a slip of the step it is named after, kept to see  *)
(* that the properties at the end notice it.                                 *)

CheckOwner_Trusting(p) == /\ Goto(p, "check", "wait")
                          /\ unique' = unique \ {p}
                          /\ UNCHANGED <<lockFile, module, Owner, built>>

Unlock_Kept(p) == /\ Goto(p, "unlock", "cleanUp")
                  /\ UNCHANGED <<lockFile, unique, module, Owner, built>>

CleanUp_Kept(p) ==
  /\ Goto(p, "cleanUp", IF built[p] THEN "success" ELSE "failed")
  /\ UNCHANGED <<lockFile, unique, module, Owner, built>>

FileExists_Unchecked(p) ==
  /\ Goto(p, "file", "import")
  /\ UNCHANGED <<lockFile, unique, module, Owner, built>>

-----------------------------------------------------------------------------
(* readLockFile(). *)

ReadLockFile(p) ==
  /\ \/ LockFileExists /\ Goto(p, "read", "check")
     \/ ~LockFileExists /\ Goto(p, "read", "remove")
  /\ Owner' = [Owner EXCEPT ![p] = IF LockFileExists THEN lockFile ELSE NoFile]
  /\ UNCHANGED <<lockFile, unique, module, built>>

(* The owner runs: this instance shares the lock, without its unique file.  *)
CheckOwner(p) == /\ Goto(p, "check", "wait") /\ Executing(Owner[p])
                 /\ unique' = unique \ {p}
                 /\ UNCHANGED <<lockFile, module, Owner, built>>

OwnerIsDead(p) == /\ Goto(p, "check", "remove") /\ ~Executing(Owner[p])
                  /\ UNCHANGED <<lockFile, unique, module, Owner, built>>

(* Unlinks whatever the name denotes by now. *)
RemoveLockFile(p) ==
  /\ Goto(p, "remove", IF Retrying(p) THEN "exists" ELSE "create")
  /\ lockFile' = NoFile
  /\ UNCHANGED <<unique, module, Owner, built>>

-----------------------------------------------------------------------------
(* The rest of the constructor. *)

CreateUniqueFile(p) ==
  /\ \/ Goto(p, "create", "register") /\ unique' = unique \cup {p}
     \/ Goto(p, "create", "failed") /\ UNCHANGED unique
  /\ UNCHANGED <<lockFile, module, Owner, built>>

(* The process ID is written and the signal handler set; or the disk is full *)
(* and the file removed; or there is no host ID, and the file is left.       *)
RegisterUniqueFile(p) ==
  /\ \/ Goto(p, "register", "link") /\ UNCHANGED unique
     \/ Goto(p, "register", "failed") /\ unique' = unique \ {p}
     \/ Goto(p, "register", "nameless") /\ UNCHANGED unique
  /\ UNCHANGED <<lockFile, module, Owner, built>>

(* create_link() fails if the name is taken, be it by a dangling link. *)
CreateLink(p) ==
  /\ \/ lockFile = NoFile /\ lockFile' = p /\ Goto(p, "link", "compile")
     \/ lockFile # NoFile /\ UNCHANGED lockFile /\ Goto(p, "link", "read")
  /\ UNCHANGED <<unique, module, Owner, built>>

ReleasedMeanwhile(p) ==
  /\ Goto(p, "exists", IF LockFileExists THEN "clear" ELSE "link")
  /\ UNCHANGED <<lockFile, unique, module, Owner, built>>

ClearUnowned(p) == /\ Goto(p, "clear", "link")
                   /\ lockFile' = NoFile
                   /\ UNCHANGED <<unique, module, Owner, built>>

-----------------------------------------------------------------------------
(* The owner builds the module, a temporary file that is renamed, and reads *)
(* it back; then its lock file and its unique file are removed.             *)

Publish(p) == /\ Goto(p, "compile", "import")
              /\ module' = "fresh"
              /\ UNCHANGED <<lockFile, unique, Owner, built>>

CompileFails(p) == /\ Goto(p, "compile", "unlock")
                   /\ UNCHANGED <<lockFile, unique, module, Owner, built>>

(* The owner reads what it has built.  A file that is there may be refused   *)
(* for many reasons, by the owner as by the others.                          *)
ReadOwn(p) ==
  /\ Goto(p, "import", "unlock") /\ Retrying(p)
  /\ \E ok \in BOOLEAN : /\ ok => module = "fresh"
                         /\ built' = [built EXCEPT ![p] = ok]
  /\ UNCHANGED <<lockFile, unique, module, Owner>>

(* Found out of date, the module is asked for once more.                     *)
ReadShared(p) ==
  /\ ~Retrying(p)
  /\ \/ module = "fresh" /\ Goto(p, "import", "success")
     \/ module # "absent" /\ Goto(p, "import", "read")
     \/ Goto(p, "import", "failed")
  /\ UNCHANGED <<lockFile, unique, module, Owner, built>>

ReadAST(p) == ReadOwn(p) \/ ReadShared(p)

Unlock(p) == /\ Goto(p, "unlock", "cleanUp")
             /\ lockFile' = NoFile
             /\ UNCHANGED <<unique, module, Owner, built>>

CleanUp(p) == /\ Goto(p, "cleanUp", IF built[p] THEN "success" ELSE "failed")
              /\ unique' = unique \ {p}
              /\ UNCHANGED <<lockFile, module, Owner, built>>

-----------------------------------------------------------------------------
(* waitForUnlock(), one iteration of its loop after another. *)

WaitOver(p) == /\ ~LockFileExists /\ Goto(p, "wait", "file")
               /\ UNCHANGED <<lockFile, unique, module, Owner, built>>

(* No module although the lock is gone: the owner died, start again. *)
FileExists(p) ==
  /\ Goto(p, "file", IF module = "absent" THEN "read" ELSE "import")
  /\ UNCHANGED <<lockFile, unique, module, Owner, built>>

StillLocked(p) == /\ LockFileExists /\ Goto(p, "wait", "owner")
                  /\ UNCHANGED <<lockFile, unique, module, Owner, built>>

OwnerDied(p) == /\ Goto(p, "owner", "read") /\ ~Executing(Owner[p])
                /\ UNCHANGED <<lockFile, unique, module, Owner, built>>

OwnerLives(p) == /\ Goto(p, "owner", "wait") /\ Executing(Owner[p])
                 /\ UNCHANGED <<lockFile, unique, module, Owner, built>>

TimeOut(p) == /\ Timeouts /\ Goto(p, "owner", "giveUp") /\ Executing(Owner[p])
              /\ UNCHANGED <<lockFile, unique, module, Owner, built>>

UnsafeRemoveLockFile(p) == /\ Goto(p, "giveUp", "failed")
                           /\ lockFile' = NoFile
                           /\ UNCHANGED <<unique, module, Owner, built>>

-----------------------------------------------------------------------------
(* The end of a process. *)

Exit(p) == /\ pc[p] \in Over /\ pc' = [pc EXCEPT ![p] = "exited"]
           /\ UNCHANGED <<lockFile, unique, module, Owner, built>>

(* The handler removes the unique file, once it has been told of it. *)
Interrupt(p) ==
  /\ pc[p] \notin Over \cup Ended /\ pc' = [pc EXCEPT ![p] = "crashed"]
  /\ unique' = IF pc[p] = "register" THEN unique ELSE unique \ {p}
  /\ UNCHANGED <<lockFile, module, Owner, built>>

Kill(p) == /\ Killable
           /\ pc[p] \notin Over \cup Ended /\ pc' = [pc EXCEPT ![p] = "crashed"]
           /\ UNCHANGED <<lockFile, unique, module, Owner, built>>

-----------------------------------------------------------------------------

Construct(p) == \/ ReadLockFile(p) \/ CheckOwner(p) \/ OwnerIsDead(p)
                \/ RemoveLockFile(p) \/ CreateUniqueFile(p)
                \/ RegisterUniqueFile(p) \/ CreateLink(p)
                \/ ReleasedMeanwhile(p) \/ ClearUnowned(p)

Build(p) == \/ Publish(p) \/ CompileFails(p) \/ ReadAST(p) \/ Unlock(p)
            \/ CleanUp(p)

WaitForUnlock(p) == \/ WaitOver(p) \/ FileExists(p) \/ StillLocked(p)
                    \/ OwnerDied(p) \/ OwnerLives(p) \/ TimeOut(p)
                    \/ UnsafeRemoveLockFile(p)

Work(p) == Construct(p) \/ Build(p) \/ WaitForUnlock(p)

Next == \E p \in Proc : Work(p) \/ Exit(p) \/ Interrupt(p) \/ Kill(p)

Spec == Init /\ [][Next]_vars

(* The operating system schedules every process; it need not end any.  The   *)
(* interval doubles until the loop gives up, so nobody goes on finding its   *)
(* owner alive for ever: the lock may be another's by now, who was killed.   *)
FairSpec == Spec /\ \A p \in Proc : WF_vars(Work(p)) /\ SF_vars(TimeOut(p))

-----------------------------------------------------------------------------
(* Properties. *)

TypeOK == /\ lockFile \in Proc \cup {NoFile}
          /\ unique \in SUBSET Proc
          /\ module \in {"absent", "stale", "fresh"}
          /\ Owner \in [Proc -> Proc \cup {NoFile}]
          /\ built \in [Proc -> BOOLEAN]
          /\ pc \in [Proc -> Steps]

(* The steps at which an instance is in state LFS_Owned. *)
Owning == {p \in Proc : \/ pc[p] \in {"compile", "unlock"}
                        \/ pc[p] = "import" /\ p \in unique}

(* LockFileManager.h:24: the file system's atomicity is to "ensure that only *)
(* a single process can create that .lock file".  Two processes own the lock *)
(* all the same: readLockFile() of one unlinks the live lock of another.     *)
OnlyOneOwner == \A p, q \in Owning : p = q

(* A lock file never outlives a process's interest in it: a process it leads *)
(* to is building the module and will remove it, or it crashed.  Were it not *)
(* so the others would wait for a process with nothing to release.           *)
NoOrphanLock ==
  lockFile # NoFile => lockFile \in Owning \/ pc[lockFile] = "crashed"

(* Nobody waits for one who waits: whom a process has read in the lock file   *)
(* was building the module then, and does nothing but come to its end.  An   *)
(* owner whose lock is broken does not start again.                          *)
OwnersDoNotWait ==
  \A p \in Proc :
     LET q == Owner[p] IN
     q # NoFile => q \in Owning \/ pc[q] \in {"cleanUp"} \cup Over \cup Ended

(* What a waiting process waits for comes to an end. *)
NobodyWaitsInVain == NoOrphanLock /\ OwnersDoNotWait

(* However the races go, nobody leaves a unique file behind but one that     *)
(* crashed or that could not get its host ID.                                *)
NoLeftovers == \A p \in unique : pc[p] \notin Over \cup {"exited", "wait"}

(* compileAndLoadModule() never fails for want of the module file: whoever   *)
(* comes to read it finds one there, and the owner the one it has built,     *)
(* although the file was last looked for a few steps before.                 *)
ModuleIsThere ==
  \A p \in Proc : pc[p] = "import" => /\ module # "absent"
                                      /\ p \in unique => module = "fresh"

(* Every import comes to an end, however locks are broken, owners die and    *)
(* waiters start again.                                                      *)
EveryImportEnds == \A p \in Proc : <>(pc[p] \in Over \cup Ended)

=============================================================================
