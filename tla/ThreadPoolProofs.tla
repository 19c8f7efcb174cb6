-------------------------- MODULE ThreadPoolProofs ---------------------------
(***************************************************************************)
(* Proofs about ThreadPool for any finite number of workers, and any sets   *)
(* of clients and tasks: the safety properties of the pool and that it      *)
(* implements TaskService.                                                  *)
(***************************************************************************)
EXTENDS ThreadPool, FiniteSetTheorems, TLAPS

-----------------------------------------------------------------------------
(* The inductive invariant.  The properties speak of the queue and of where   *)
(* each thread stands; what makes them inductive is who holds each mutex, who *)
(* may be blocked, what ActiveThreads counts and how far a shutdown got.      *)

(* A mutex is held exactly inside the critical sections it guards. *)
Mutexes ==
  /\ \A w \in Worker :
        QueueLock = w <=> workerPc[w] \in {"test", "announce", "pop"}
  /\ \A u \in User :
        CompletionLock = u <=> userPc[u] \in {"readActive", "readTasks"}

(* A blocked thread is one that is about to take the mutex back. *)
Blocked == /\ \A w \in QueueCondition : workerPc[w] = "lock"
           /\ \A u \in CompletionCondition : userPc[u] = "waitLock"

(* The workers ActiveThreads counts. *)
Busy == {w \in Worker : workerPc[w] \in {"announce", "pop", "run", "retire"}}
Counted == ActiveThreads = Cardinality(Busy)

(* A worker that announced itself finds a task, and has one while it runs.  *)
Holding ==
  /\ \A w \in Worker : workerPc[w] \in {"announce", "pop"} => Tasks # <<>>
  /\ \A w \in Worker : workerPc[w] = "run" => \E t \in Task : running[w] = {t}
  /\ \A w \in Worker : workerPc[w] # "run" => running[w] = {}

(* The destructor runs alone, and workers exit only under it. *)
Shutdown ==
  /\ EnableFlag <=> Destroying = {}
  /\ \A u \in Destroying, v \in User : v # u => userPc[v] = "idle"
  /\ \A w \in Worker : workerPc[w] = "exited" => ~EnableFlag /\ Tasks = <<>>
  /\ \A u \in User :
        userPc[u] = "destroyed" => \A w \in Worker : workerPc[w] = "exited"

IInv == /\ TypeOK /\ Mutexes /\ Blocked /\ Counted /\ Holding /\ Shutdown
        /\ TasksConserved /\ NoRaceOnTasks

-----------------------------------------------------------------------------
(* What pushing and popping do to the elements of a queue without repetition. *)

(* Appending a new element adds it and repeats nothing. *)
LEMMA PushElements ==
  ASSUME NEW S, NEW s \in Seq(S), NEW e \in S,
         e \notin {s[i] : i \in 1..Len(s)},
         \A i, j \in 1..Len(s) : s[i] = s[j] => i = j
  PROVE  LET r == Append(s, e) IN
         /\ {r[i] : i \in 1..Len(r)} = {s[i] : i \in 1..Len(s)} \cup {e}
         /\ \A i, j \in 1..Len(r) : r[i] = r[j] => i = j
<1> DEFINE r == Append(s, e)
<1>1. Len(r) = Len(s) + 1 /\ r[Len(s) + 1] = e /\ Len(s) \in Nat
  OBVIOUS
<1>2. \A i \in 1..Len(s) : r[i] = s[i]
  OBVIOUS
<1> HIDE DEF r
<1>3. 1..Len(r) = (1..Len(s)) \cup {Len(s) + 1}
  BY <1>1
<1>4. {r[i] : i \in 1..Len(r)} = {s[i] : i \in 1..Len(s)} \cup {e}
  BY <1>1, <1>2, <1>3
<1>5. \A i, j \in 1..Len(r) : r[i] = r[j] => i = j
  BY <1>1, <1>2, <1>3
<1> QED
  BY <1>4, <1>5 DEF r

(* Taking the head off removes that element only. *)
LEMMA PopElements ==
  ASSUME NEW S, NEW s \in Seq(S), s # <<>>,
         \A i, j \in 1..Len(s) : s[i] = s[j] => i = j
  PROVE  LET r == Tail(s) IN
         /\ Head(s) \in {s[i] : i \in 1..Len(s)}
         /\ {r[i] : i \in 1..Len(r)} = {s[i] : i \in 1..Len(s)} \ {Head(s)}
         /\ \A i, j \in 1..Len(r) : r[i] = r[j] => i = j
<1> DEFINE r == Tail(s)
<1>1. Len(s) \in Nat \ {0} /\ Len(r) = Len(s) - 1 /\ Head(s) = s[1]
  OBVIOUS
<1>2. \A i \in 1..Len(r) : r[i] = s[i + 1] /\ i + 1 \in 1..Len(s)
  OBVIOUS
<1> HIDE DEF r
<1>3. {r[i] : i \in 1..Len(r)} = {s[i] : i \in 1..Len(s)} \ {Head(s)}
  <2>1. ASSUME NEW i \in 1..Len(r)
        PROVE  r[i] \in {s[k] : k \in 1..Len(s)} \ {Head(s)}
    BY <1>1, <1>2
  <2>2. ASSUME NEW k \in 1..Len(s), s[k] # Head(s)
        PROVE  \E i \in 1..Len(r) : r[i] = s[k]
    <3>1. k - 1 \in 1..Len(r)
      BY <1>1, <2>2
    <3>2. r[k - 1] = s[(k - 1) + 1] /\ (k - 1) + 1 = k
      BY <1>2, <3>1
    <3> QED
      BY <3>1, <3>2
  <2> QED
    BY <2>1, <2>2
<1>4. \A i, j \in 1..Len(r) : r[i] = r[j] => i = j
  BY <1>1, <1>2
<1> QED
  BY <1>1, <1>3, <1>4 DEF r

-----------------------------------------------------------------------------
(* The parts of the invariant, one by one. *)

(* Busy is a finite set. *)
LEMMA BusyFinite == IsFiniteSet(Busy)
  BY WorkerAssumption, FS_Subset DEF Busy

(* Mutual exclusion. *)
LEMMA MutexesStep == IInv /\ [Next]_vars => Mutexes'
<1> SUFFICES ASSUME IInv, [Next]_vars PROVE Mutexes'
  OBVIOUS
<1> USE ThreadAssumption DEF IInv, TypeOK, Mutexes, Blocked, WaitPc,
   DestroyPc, WorkerPc,
           queue, completion, history
<1>1. ASSUME NEW w \in Worker, LockQueue(w) PROVE Mutexes'
  BY <1>1 DEF LockQueue, WorkerGoto
<1>2. ASSUME NEW w \in Worker, Sleep(w) PROVE Mutexes'
  BY <1>2 DEF Sleep, WorkerGoto
<1>3. ASSUME NEW w \in Worker, Exit(w) PROVE Mutexes'
  BY <1>3 DEF Exit, WorkerGoto
<1>4. ASSUME NEW w \in Worker, CountActive(w) PROVE Mutexes'
  BY <1>4 DEF CountActive, WorkerGoto
<1>5. ASSUME NEW w \in Worker, PassCompletionLock(w) PROVE Mutexes'
  BY <1>5 DEF PassCompletionLock, WorkerGoto
<1>6. ASSUME NEW w \in Worker, Pop(w) PROVE Mutexes'
  BY <1>6 DEF Pop, WorkerGoto
<1>7. ASSUME NEW w \in Worker, RunTask(w) PROVE Mutexes'
  BY <1>7 DEF RunTask, WorkerGoto
<1>8. ASSUME NEW w \in Worker, Retire(w) PROVE Mutexes'
  BY <1>8 DEF Retire, WorkerGoto
<1>9. ASSUME NEW w \in Worker, NotifyCompletion(w) PROVE Mutexes'
  BY <1>9 DEF NotifyCompletion, WorkerGoto
<1>10. ASSUME NEW u \in User, NEW t \in Task, Async(u, t) PROVE Mutexes'
  BY <1>10 DEF Async, UserGoto
<1>11. ASSUME NEW u \in User, WakeOne(u) PROVE Mutexes'
  BY <1>11 DEF WakeOne, UserGoto
<1>12. ASSUME NEW u \in User, Wait(u) PROVE Mutexes'
  BY <1>12 DEF Wait, UserGoto
<1>13. ASSUME NEW u \in User, LockCompletion(u) PROVE Mutexes'
  BY <1>13 DEF LockCompletion, UserGoto
<1>14. ASSUME NEW u \in User, ReadActive(u) PROVE Mutexes'
  BY <1>14 DEF ReadActive, UserGoto, BlockInWait
<1>15. ASSUME NEW u \in User, ReadTasks(u) PROVE Mutexes'
  BY <1>15 DEF ReadTasks, UserGoto, BlockInWait
<1>16. ASSUME NEW u \in User, Destroy(u) PROVE Mutexes'
  BY <1>16 DEF Destroy, UserGoto
<1>17. ASSUME NEW u \in User, WakeAll(u) PROVE Mutexes'
  BY <1>17 DEF WakeAll, UserGoto
<1>18. ASSUME NEW u \in User, Join(u) PROVE Mutexes'
  BY <1>18 DEF Join, UserGoto
<1>19. ASSUME SpuriousWakeup PROVE Mutexes'
  BY <1>19 DEF SpuriousWakeup
<1>20. ASSUME UNCHANGED vars PROVE Mutexes'
  BY <1>20 DEF vars
<1> QED
  BY <1>1, <1>2, <1>3, <1>4, <1>5, <1>6, <1>7, <1>8, <1>9, <1>10, <1>11,
     <1>12, <1>13, <1>14, <1>15, <1>16, <1>17, <1>18, <1>19, <1>20
     DEF Next, WorkerStep, CallStep, Call

(* Type correctness; ActiveThreads stays a natural because it counts workers. *)
LEMMA TypeStep == IInv /\ [Next]_vars => TypeOK'
<1> SUFFICES ASSUME IInv, [Next]_vars PROVE TypeOK'
  OBVIOUS
<1> USE DEF IInv, TypeOK, WaitPc, DestroyPc, WorkerPc,
           queue, completion, history
<1>1. ASSUME NEW w \in Worker, LockQueue(w) PROVE TypeOK'
  BY <1>1 DEF LockQueue, WorkerGoto
<1>2. ASSUME NEW w \in Worker, Sleep(w) PROVE TypeOK'
  BY <1>2 DEF Sleep, WorkerGoto
<1>3. ASSUME NEW w \in Worker, Exit(w) PROVE TypeOK'
  BY <1>3 DEF Exit, WorkerGoto
<1>4. ASSUME NEW w \in Worker, CountActive(w) PROVE TypeOK'
  BY <1>4 DEF CountActive, WorkerGoto
<1>5. ASSUME NEW w \in Worker, PassCompletionLock(w) PROVE TypeOK'
  BY <1>5 DEF PassCompletionLock, WorkerGoto
<1>6. ASSUME NEW w \in Worker, Pop(w) PROVE TypeOK'
  <2>1. Tasks # <<>>
    BY <1>6 DEF Pop, WorkerGoto, Holding
  <2>2. Head(Tasks) \in Task /\ Tail(Tasks) \in Seq(Task)
    BY <2>1
  <2> QED
    BY <1>6, <2>2 DEF Pop, WorkerGoto
<1>7. ASSUME NEW w \in Worker, RunTask(w) PROVE TypeOK'
  BY <1>7 DEF RunTask, WorkerGoto
<1>8. ASSUME NEW w \in Worker, Retire(w) PROVE TypeOK'
  <2>1. w \in Busy
    BY <1>8 DEF Busy, Retire, WorkerGoto
  <2>2. Cardinality(Busy) \in Nat \ {0}
    BY <2>1, BusyFinite, FS_EmptySet, FS_CardinalityType
  <2> QED
    BY <1>8, <2>2 DEF Retire, WorkerGoto, Counted
<1>9. ASSUME NEW w \in Worker, NotifyCompletion(w) PROVE TypeOK'
  BY <1>9 DEF NotifyCompletion, WorkerGoto
<1>10. ASSUME NEW u \in User, NEW t \in Task, Async(u, t) PROVE TypeOK'
  BY <1>10 DEF Async, UserGoto
<1>11. ASSUME NEW u \in User, WakeOne(u) PROVE TypeOK'
  BY <1>11 DEF WakeOne, UserGoto
<1>12. ASSUME NEW u \in User, Wait(u) PROVE TypeOK'
  BY <1>12 DEF Wait, UserGoto
<1>13. ASSUME NEW u \in User, LockCompletion(u) PROVE TypeOK'
  BY <1>13 DEF LockCompletion, UserGoto
<1>14. ASSUME NEW u \in User, ReadActive(u) PROVE TypeOK'
  BY <1>14 DEF ReadActive, UserGoto, BlockInWait
<1>15. ASSUME NEW u \in User, ReadTasks(u) PROVE TypeOK'
  BY <1>15 DEF ReadTasks, UserGoto, BlockInWait
<1>16. ASSUME NEW u \in User, Destroy(u) PROVE TypeOK'
  BY <1>16 DEF Destroy, UserGoto
<1>17. ASSUME NEW u \in User, WakeAll(u) PROVE TypeOK'
  BY <1>17 DEF WakeAll, UserGoto
<1>18. ASSUME NEW u \in User, Join(u) PROVE TypeOK'
  BY <1>18 DEF Join, UserGoto
<1>19. ASSUME SpuriousWakeup PROVE TypeOK'
  BY <1>19 DEF SpuriousWakeup
<1>20. ASSUME UNCHANGED vars PROVE TypeOK'
  BY <1>20 DEF vars
<1> QED
  BY <1>1, <1>2, <1>3, <1>4, <1>5, <1>6, <1>7, <1>8, <1>9, <1>10, <1>11,
     <1>12, <1>13, <1>14, <1>15, <1>16, <1>17, <1>18, <1>19, <1>20
     DEF Next, WorkerStep, CallStep, Call

(* Blocked threads. *)
LEMMA BlockedStep == IInv /\ [Next]_vars => Blocked'
<1> SUFFICES ASSUME IInv, [Next]_vars PROVE Blocked'
  OBVIOUS
<1> USE DEF IInv, TypeOK, Blocked, queue, completion, history
<1>1. ASSUME NEW w \in Worker, LockQueue(w) PROVE Blocked'
  BY <1>1 DEF LockQueue, WorkerGoto
<1>2. ASSUME NEW w \in Worker, Sleep(w) PROVE Blocked'
  BY <1>2 DEF Sleep, WorkerGoto
<1>3. ASSUME NEW w \in Worker, Exit(w) PROVE Blocked'
  BY <1>3 DEF Exit, WorkerGoto
<1>4. ASSUME NEW w \in Worker, CountActive(w) PROVE Blocked'
  BY <1>4 DEF CountActive, WorkerGoto
<1>5. ASSUME NEW w \in Worker, PassCompletionLock(w) PROVE Blocked'
  BY <1>5 DEF PassCompletionLock, WorkerGoto
<1>6. ASSUME NEW w \in Worker, Pop(w) PROVE Blocked'
  BY <1>6 DEF Pop, WorkerGoto
<1>7. ASSUME NEW w \in Worker, RunTask(w) PROVE Blocked'
  BY <1>7 DEF RunTask, WorkerGoto
<1>8. ASSUME NEW w \in Worker, Retire(w) PROVE Blocked'
  BY <1>8 DEF Retire, WorkerGoto
<1>9. ASSUME NEW w \in Worker, NotifyCompletion(w) PROVE Blocked'
  BY <1>9 DEF NotifyCompletion, WorkerGoto
<1>10. ASSUME NEW u \in User, NEW t \in Task, Async(u, t) PROVE Blocked'
  BY <1>10 DEF Async, UserGoto
<1>11. ASSUME NEW u \in User, WakeOne(u) PROVE Blocked'
  BY <1>11 DEF WakeOne, UserGoto
<1>12. ASSUME NEW u \in User, Wait(u) PROVE Blocked'
  BY <1>12 DEF Wait, UserGoto
<1>13. ASSUME NEW u \in User, LockCompletion(u) PROVE Blocked'
  BY <1>13 DEF LockCompletion, UserGoto
<1>14. ASSUME NEW u \in User, ReadActive(u) PROVE Blocked'
  BY <1>14 DEF ReadActive, UserGoto, BlockInWait
<1>15. ASSUME NEW u \in User, ReadTasks(u) PROVE Blocked'
  BY <1>15 DEF ReadTasks, UserGoto, BlockInWait
<1>16. ASSUME NEW u \in User, Destroy(u) PROVE Blocked'
  BY <1>16 DEF Destroy, UserGoto
<1>17. ASSUME NEW u \in User, WakeAll(u) PROVE Blocked'
  BY <1>17 DEF WakeAll, UserGoto
<1>18. ASSUME NEW u \in User, Join(u) PROVE Blocked'
  BY <1>18 DEF Join, UserGoto
<1>19. ASSUME SpuriousWakeup PROVE Blocked'
  BY <1>19 DEF SpuriousWakeup
<1>20. ASSUME UNCHANGED vars PROVE Blocked'
  BY <1>20 DEF vars
<1> QED
  BY <1>1, <1>2, <1>3, <1>4, <1>5, <1>6, <1>7, <1>8, <1>9, <1>10, <1>11,
     <1>12, <1>13, <1>14, <1>15, <1>16, <1>17, <1>18, <1>19, <1>20
     DEF Next, WorkerStep, CallStep, Call

(* What a worker finds and holds. *)
LEMMA HoldingStep == IInv /\ [Next]_vars => Holding'
<1> SUFFICES ASSUME IInv, [Next]_vars PROVE Holding'
  OBVIOUS
<1> USE DEF IInv, TypeOK, Mutexes, Holding, queue, completion, history
<1>1. ASSUME NEW w \in Worker, LockQueue(w) PROVE Holding'
  BY <1>1 DEF LockQueue, WorkerGoto
<1>2. ASSUME NEW w \in Worker, Sleep(w) PROVE Holding'
  BY <1>2 DEF Sleep, WorkerGoto
<1>3. ASSUME NEW w \in Worker, Exit(w) PROVE Holding'
  BY <1>3 DEF Exit, WorkerGoto
<1>4. ASSUME NEW w \in Worker, CountActive(w) PROVE Holding'
  BY <1>4 DEF CountActive, WorkerGoto
<1>5. ASSUME NEW w \in Worker, PassCompletionLock(w) PROVE Holding'
  BY <1>5 DEF PassCompletionLock, WorkerGoto
<1>6. ASSUME NEW w \in Worker, Pop(w) PROVE Holding'
  BY <1>6 DEF Pop, WorkerGoto
<1>7. ASSUME NEW w \in Worker, RunTask(w) PROVE Holding'
  BY <1>7 DEF RunTask, WorkerGoto
<1>8. ASSUME NEW w \in Worker, Retire(w) PROVE Holding'
  BY <1>8 DEF Retire, WorkerGoto
<1>9. ASSUME NEW w \in Worker, NotifyCompletion(w) PROVE Holding'
  BY <1>9 DEF NotifyCompletion, WorkerGoto
<1>10. ASSUME NEW u \in User, NEW t \in Task, Async(u, t) PROVE Holding'
  BY <1>10 DEF Async, UserGoto
<1>11. ASSUME UNCHANGED <<Tasks, workerPc, running>> PROVE Holding'
  BY <1>11 DEF IInv, Holding
<1>12. ASSUME NEW u \in User,
             WakeOne(u) \/ Wait(u) \/ LockCompletion(u) \/ ReadActive(u)
             \/ ReadTasks(u) \/ Destroy(u) \/ WakeAll(u) \/ Join(u)
      PROVE  UNCHANGED <<Tasks, workerPc, running>>
  BY <1>12 DEF WakeOne, Wait, LockCompletion, ReadActive, ReadTasks,
     Destroy, WakeAll, Join, UserGoto, BlockInWait, queue, completion,
     history
<1>13. ASSUME SpuriousWakeup \/ UNCHANGED vars
      PROVE  UNCHANGED <<Tasks, workerPc, running>>
  BY <1>13 DEF SpuriousWakeup, vars, queue, completion, history
<1> QED
  BY <1>1, <1>2, <1>3, <1>4, <1>5, <1>6, <1>7, <1>8, <1>9, <1>10, <1>11,
     <1>12, <1>13
     DEF Next, WorkerStep, CallStep, Call

(* Progress of a shutdown. *)
LEMMA ShutdownStep == IInv /\ [Next]_vars => Shutdown'
<1> SUFFICES ASSUME IInv, [Next]_vars PROVE Shutdown'
  OBVIOUS
<1> USE DEF IInv, TypeOK, Mutexes, Shutdown, Destroying, DestroyPc, WaitPc,
           queue, completion, history
<1>1. ASSUME NEW w \in Worker, LockQueue(w) PROVE Shutdown'
  BY <1>1 DEF LockQueue, WorkerGoto
<1>2. ASSUME NEW w \in Worker, Sleep(w) PROVE Shutdown'
  BY <1>2 DEF Sleep, WorkerGoto
<1>3. ASSUME NEW w \in Worker, Exit(w) PROVE Shutdown'
  BY <1>3 DEF Exit, WorkerGoto
<1>4. ASSUME NEW w \in Worker, CountActive(w) PROVE Shutdown'
  BY <1>4 DEF CountActive, WorkerGoto
<1>5. ASSUME NEW w \in Worker, PassCompletionLock(w) PROVE Shutdown'
  BY <1>5 DEF PassCompletionLock, WorkerGoto
<1>6. ASSUME NEW w \in Worker, Pop(w) PROVE Shutdown'
  BY <1>6 DEF Pop, WorkerGoto
<1>7. ASSUME NEW w \in Worker, RunTask(w) PROVE Shutdown'
  BY <1>7 DEF RunTask, WorkerGoto
<1>8. ASSUME NEW w \in Worker, Retire(w) PROVE Shutdown'
  BY <1>8 DEF Retire, WorkerGoto
<1>9. ASSUME NEW w \in Worker, NotifyCompletion(w) PROVE Shutdown'
  BY <1>9 DEF NotifyCompletion, WorkerGoto
<1>10. ASSUME NEW u \in User, NEW t \in Task, Async(u, t) PROVE Shutdown'
  BY <1>10 DEF Async, UserGoto
<1>11. ASSUME NEW u \in User, WakeOne(u) PROVE Shutdown'
  BY <1>11 DEF WakeOne, UserGoto
<1>12. ASSUME NEW u \in User, Wait(u) PROVE Shutdown'
  BY <1>12 DEF Wait, UserGoto
<1>13. ASSUME NEW u \in User, LockCompletion(u) PROVE Shutdown'
  BY <1>13 DEF LockCompletion, UserGoto
<1>14. ASSUME NEW u \in User, ReadActive(u) PROVE Shutdown'
  BY <1>14 DEF ReadActive, UserGoto, BlockInWait
<1>15. ASSUME NEW u \in User, ReadTasks(u) PROVE Shutdown'
  BY <1>15 DEF ReadTasks, UserGoto, BlockInWait
<1>16. ASSUME NEW u \in User, Destroy(u) PROVE Shutdown'
  BY <1>16 DEF Destroy, UserGoto
<1>17. ASSUME NEW u \in User, WakeAll(u) PROVE Shutdown'
  BY <1>17 DEF WakeAll, UserGoto
<1>18. ASSUME NEW u \in User, Join(u) PROVE Shutdown'
  BY <1>18 DEF Join, UserGoto
<1>19. ASSUME SpuriousWakeup PROVE Shutdown'
  BY <1>19 DEF SpuriousWakeup
<1>20. ASSUME UNCHANGED vars PROVE Shutdown'
  BY <1>20 DEF vars
<1> QED
  BY <1>1, <1>2, <1>3, <1>4, <1>5, <1>6, <1>7, <1>8, <1>9, <1>10, <1>11,
     <1>12, <1>13, <1>14, <1>15, <1>16, <1>17, <1>18, <1>19, <1>20
     DEF Next, WorkerStep, CallStep, Call

(* ActiveThreads counts the busy workers. *)
LEMMA CountedStep == IInv /\ [Next]_vars => Counted'
<1> SUFFICES ASSUME IInv, [Next]_vars PROVE Counted'
  OBVIOUS
<1>1. ASSUME NEW w \in Worker, CountActive(w) PROVE Counted'
  <2>1. w \notin Busy /\ Busy' = Busy \cup {w}
    BY <1>1 DEF CountActive, WorkerGoto, Busy, IInv, TypeOK
  <2>2. Cardinality(Busy') = Cardinality(Busy) + 1
    BY <2>1, BusyFinite, FS_AddElement
  <2> QED
    BY <1>1, <2>2 DEF CountActive, Counted, IInv
<1>2. ASSUME NEW w \in Worker, Retire(w) PROVE Counted'
  <2>1. w \in Busy /\ Busy' = Busy \ {w}
    BY <1>2 DEF Retire, WorkerGoto, Busy, IInv, TypeOK
  <2>2. Cardinality(Busy') = Cardinality(Busy) - 1
    BY <2>1, BusyFinite, FS_RemoveElement
  <2> QED
    BY <1>2, <2>2 DEF Retire, Counted, IInv
<1>3. ASSUME UNCHANGED <<ActiveThreads, Busy>> PROVE Counted'
  BY <1>3 DEF IInv, Counted
<1>4. ASSUME NEW w \in Worker,
             LockQueue(w) \/ Sleep(w) \/ Exit(w)
             \/ PassCompletionLock(w) \/ Pop(w) \/ RunTask(w)
             \/ NotifyCompletion(w)
      PROVE  UNCHANGED <<ActiveThreads, Busy>>
  BY <1>4 DEF LockQueue, Sleep, Exit, PassCompletionLock, Pop, RunTask,
     NotifyCompletion, WorkerGoto, queue, completion, history, Busy,
     IInv, TypeOK
<1>5. ASSUME NEW u \in User,
             (\E t \in Task : Async(u, t)) \/ WakeOne(u) \/ Wait(u)
             \/ LockCompletion(u) \/ ReadActive(u) \/ ReadTasks(u)
             \/ Destroy(u) \/ WakeAll(u) \/ Join(u)
      PROVE  UNCHANGED <<ActiveThreads, Busy>>
  BY <1>5 DEF Async, WakeOne, Wait, LockCompletion, ReadActive, ReadTasks,
     Destroy, WakeAll, Join, UserGoto, BlockInWait, queue, completion,
     history, Busy
<1>6. ASSUME SpuriousWakeup \/ UNCHANGED vars
      PROVE  UNCHANGED <<ActiveThreads, Busy>>
  BY <1>6 DEF SpuriousWakeup, vars, queue, completion, history, Busy,
     IInv, TypeOK
<1> QED
  BY <1>1, <1>2, <1>3, <1>4, <1>5, <1>6
     DEF Next, WorkerStep, CallStep, Call

(* Tasks are neither lost nor duplicated. *)
LEMMA ConservedStep == IInv /\ [Next]_vars => TasksConserved'
<1> SUFFICES ASSUME IInv, [Next]_vars PROVE TasksConserved'
  OBVIOUS
<1>1. ASSUME NEW w \in Worker, Pop(w) PROVE TasksConserved'
  <2>1. Tasks # <<>> /\ Tasks \in Seq(Task) /\ running[w] = {}
    BY <1>1 DEF Pop, WorkerGoto, IInv, Holding, TypeOK
  <2>2. /\ Head(Tasks) \in Queued
        /\ Queued' = Queued \ {Head(Tasks)}
        /\ \A i, j \in 1..Len(Tasks') : Tasks'[i] = Tasks'[j] => i = j
    BY <1>1, <2>1, PopElements DEF Pop, Queued, IInv, TasksConserved
  <2>3. running' = [running EXCEPT ![w] = {Head(Tasks)}]
    BY <1>1 DEF Pop
  <2>4. Taken' = Taken \cup {Head(Tasks)}
    BY <2>1, <2>3 DEF Taken, IInv, TypeOK
  <2>5. UNCHANGED <<submitted, finished>>
    BY <1>1 DEF Pop, history
  <2>6. \A v, x \in Worker : running'[v] \cap running'[x] # {} => v = x
    BY <2>1, <2>2, <2>3 DEF Taken, IInv, TypeOK, TasksConserved
  <2> QED
    BY <2>2, <2>4, <2>5, <2>6 DEF IInv, TasksConserved
<1>2. ASSUME NEW w \in Worker, RunTask(w) PROVE TasksConserved'
  <2>1. running' = [running EXCEPT ![w] = {}] /\ Queued' = Queued
    BY <1>2 DEF RunTask, queue, Queued
  <2>2. Taken' = Taken \ running[w]
    BY <2>1 DEF Taken, IInv, TypeOK, TasksConserved
  <2>3. running[w] \subseteq Taken
    BY DEF Taken
  <2>4. \A v, x \in Worker : running'[v] \cap running'[x] # {} => v = x
    BY <2>1 DEF IInv, TypeOK, TasksConserved
  <2> QED
    BY <1>2, <2>1, <2>2, <2>3, <2>4 DEF RunTask, queue, IInv, TasksConserved
<1>3. ASSUME NEW u \in User, NEW t \in Task, Async(u, t) PROVE TasksConserved'
  <2>1. t \notin Queued
    BY <1>3 DEF Async, IInv, TasksConserved
  <2>2. Tasks' = Append(Tasks, t) /\ Tasks \in Seq(Task)
    BY <1>3 DEF Async, IInv, TypeOK
  <2>3. \A i, j \in 1..Len(Tasks) : Tasks[i] = Tasks[j] => i = j
    BY DEF IInv, TasksConserved
  <2>4. /\ Queued' = Queued \cup {t}
        /\ \A i, j \in 1..Len(Tasks') : Tasks'[i] = Tasks'[j] => i = j
    BY <2>1, <2>2, <2>3, PushElements DEF Queued
  <2>5. Taken' = Taken /\ UNCHANGED <<running, finished>>
    BY <1>3 DEF Async, UserGoto, Taken
  <2> QED
    BY <1>3, <2>4, <2>5 DEF Async, IInv, TasksConserved
<1>4. ASSUME UNCHANGED <<Tasks, running, history>> PROVE TasksConserved'
  BY <1>4 DEF IInv, TasksConserved, Queued, Taken, history
<1>5. ASSUME NEW w \in Worker,
             LockQueue(w) \/ Sleep(w) \/ Exit(w) \/ CountActive(w)
             \/ PassCompletionLock(w) \/ Retire(w) \/ NotifyCompletion(w)
      PROVE  UNCHANGED <<Tasks, running, history>>
  BY <1>5 DEF LockQueue, Sleep, Exit, CountActive, PassCompletionLock,
     Retire, NotifyCompletion, WorkerGoto, queue, completion, history
<1>6. ASSUME NEW u \in User,
             WakeOne(u) \/ Wait(u) \/ LockCompletion(u) \/ ReadActive(u)
             \/ ReadTasks(u) \/ Destroy(u) \/ WakeAll(u) \/ Join(u)
      PROVE  UNCHANGED <<Tasks, running, history>>
  BY <1>6 DEF WakeOne, Wait, LockCompletion, ReadActive, ReadTasks, Destroy,
     WakeAll, Join, UserGoto, BlockInWait, queue, completion, history
<1>7. ASSUME SpuriousWakeup \/ UNCHANGED vars
      PROVE  UNCHANGED <<Tasks, running, history>>
  BY <1>7 DEF SpuriousWakeup, vars, queue, completion, history
<1> QED
  BY <1>1, <1>2, <1>3, <1>4, <1>5, <1>6, <1>7
     DEF Next, WorkerStep, CallStep, Call

(* The reads of wait(). *)
LEMMA NoRaceStep == IInv /\ [Next]_vars => NoRaceOnTasks'
<1> SUFFICES ASSUME IInv, [Next]_vars PROVE NoRaceOnTasks'
  OBVIOUS
<1> USE ThreadAssumption DEF IInv, TypeOK, Mutexes, NoRaceOnTasks, queue,
   completion, history
<1>1. ASSUME NEW w \in Worker, LockQueue(w) PROVE NoRaceOnTasks'
  BY <1>1 DEF LockQueue, WorkerGoto
<1>2. ASSUME NEW w \in Worker, Sleep(w) PROVE NoRaceOnTasks'
  BY <1>2 DEF Sleep, WorkerGoto
<1>3. ASSUME NEW w \in Worker, Exit(w) PROVE NoRaceOnTasks'
  BY <1>3 DEF Exit, WorkerGoto
<1>4. ASSUME NEW w \in Worker, CountActive(w) PROVE NoRaceOnTasks'
  BY <1>4 DEF CountActive, WorkerGoto
<1>5. ASSUME NEW w \in Worker, PassCompletionLock(w) PROVE NoRaceOnTasks'
  BY <1>5 DEF PassCompletionLock, WorkerGoto
<1>6. ASSUME NEW w \in Worker, Pop(w) PROVE NoRaceOnTasks'
  BY <1>6 DEF Pop, WorkerGoto
<1>7. ASSUME NEW w \in Worker, RunTask(w) PROVE NoRaceOnTasks'
  BY <1>7 DEF RunTask, WorkerGoto
<1>8. ASSUME NEW w \in Worker, Retire(w) PROVE NoRaceOnTasks'
  BY <1>8 DEF Retire, WorkerGoto
<1>9. ASSUME NEW w \in Worker, NotifyCompletion(w) PROVE NoRaceOnTasks'
  BY <1>9 DEF NotifyCompletion, WorkerGoto
<1>10. ASSUME NEW u \in User, NEW t \in Task, Async(u, t) PROVE NoRaceOnTasks'
  BY <1>10 DEF Async, UserGoto
<1>11. ASSUME NEW u \in User, WakeOne(u) PROVE NoRaceOnTasks'
  BY <1>11 DEF WakeOne, UserGoto
<1>12. ASSUME NEW u \in User, Wait(u) PROVE NoRaceOnTasks'
  BY <1>12 DEF Wait, UserGoto
<1>13. ASSUME NEW u \in User, LockCompletion(u) PROVE NoRaceOnTasks'
  BY <1>13 DEF LockCompletion, UserGoto
<1>14. ASSUME NEW u \in User, ReadActive(u) PROVE NoRaceOnTasks'
  <2>1. ASSUME ActiveThreads = 0, NEW w \in Worker
        PROVE  workerPc[w] \notin {"pop", "run", "retire"}
    <3>1. Busy = {}
      BY <2>1, BusyFinite, FS_EmptySet DEF Counted
    <3> QED
      BY <3>1 DEF Busy
  <2> QED
    BY <1>14, <2>1 DEF ReadActive, UserGoto, BlockInWait
<1>15. ASSUME NEW u \in User, ReadTasks(u) PROVE NoRaceOnTasks'
  BY <1>15 DEF ReadTasks, UserGoto, BlockInWait
<1>16. ASSUME NEW u \in User, Destroy(u) PROVE NoRaceOnTasks'
  BY <1>16 DEF Destroy, UserGoto
<1>17. ASSUME NEW u \in User, WakeAll(u) PROVE NoRaceOnTasks'
  BY <1>17 DEF WakeAll, UserGoto
<1>18. ASSUME NEW u \in User, Join(u) PROVE NoRaceOnTasks'
  BY <1>18 DEF Join, UserGoto
<1>19. ASSUME SpuriousWakeup PROVE NoRaceOnTasks'
  BY <1>19 DEF SpuriousWakeup
<1>20. ASSUME UNCHANGED vars PROVE NoRaceOnTasks'
  BY <1>20 DEF vars
<1> QED
  BY <1>1, <1>2, <1>3, <1>4, <1>5, <1>6, <1>7, <1>8, <1>9, <1>10, <1>11,
     <1>12, <1>13, <1>14, <1>15, <1>16, <1>17, <1>18, <1>19, <1>20
     DEF Next, WorkerStep, CallStep, Call

-----------------------------------------------------------------------------
(* No wake-up is lost.  Each part of NoWakeupLost is preserved by itself once  *)
(* IInv is known.  The set of clients about to notify is finite, although that *)
(* of all clients need not be.                                                 *)

TellingIsFinite == IsFiniteSet(Telling)

WInv == IInv /\ TellingIsFinite /\ NoWakeupLost

(* Awake is a finite set. *)
LEMMA AwakeFinite == IsFiniteSet(Awake)
  BY WorkerAssumption, FS_Subset DEF Awake

(* The steps that leave alone what QueueIsAttended speaks of. *)
LEMMA NotAboutTheQueue ==
  ASSUME IInv,
         \/ \E w \in Worker : \/ LockQueue(w) \/ CountActive(w)
                              \/ PassCompletionLock(w) \/ RunTask(w)
                              \/ Retire(w)
         \/ \E u \in User : \/ Wait(u) \/ LockCompletion(u) \/ ReadActive(u)
                            \/ ReadTasks(u) \/ Destroy(u) \/ Join(u)
         \/ UNCHANGED vars
  PROVE  UNCHANGED <<Tasks, QueueCondition, Awake, Telling>>
<1> USE DEF IInv, TypeOK, queue, completion, history, Awake, Telling
<1>1. ASSUME NEW w \in Worker, \/ LockQueue(w) \/ CountActive(w)
                               \/ PassCompletionLock(w)
      PROVE  UNCHANGED <<Tasks, QueueCondition, Awake, Telling>>
  BY <1>1 DEF LockQueue, CountActive, PassCompletionLock, WorkerGoto
<1>2. ASSUME NEW w \in Worker, RunTask(w) \/ Retire(w)
      PROVE  UNCHANGED <<Tasks, QueueCondition, Awake, Telling>>
  BY <1>2 DEF RunTask, Retire, WorkerGoto
<1>3. ASSUME NEW u \in User, Wait(u) \/ LockCompletion(u) \/ ReadActive(u)
      PROVE  UNCHANGED <<Tasks, QueueCondition, Awake, Telling>>
  BY <1>3 DEF Wait, LockCompletion, ReadActive, UserGoto, BlockInWait
<1>4. ASSUME NEW u \in User, ReadTasks(u) \/ Destroy(u) \/ Join(u)
      PROVE  UNCHANGED <<Tasks, QueueCondition, Awake, Telling>>
  BY <1>4 DEF ReadTasks, Destroy, Join, UserGoto, BlockInWait
<1>5. ASSUME UNCHANGED vars
      PROVE  UNCHANGED <<Tasks, QueueCondition, Awake, Telling>>
  BY <1>5 DEF vars
<1> QED
  BY <1>1, <1>2, <1>3, <1>4, <1>5

(* Only a finite number of clients has pushed and not yet notified. *)
LEMMA TellingStep ==
  IInv /\ TellingIsFinite /\ [Next]_vars => TellingIsFinite'
<1> SUFFICES ASSUME IInv, TellingIsFinite, [Next]_vars
             PROVE  IsFiniteSet(Telling')
  BY DEF TellingIsFinite
<1>1. \E u : Telling' \subseteq Telling \cup {u}
  <2>1. ASSUME NEW u \in User, CallStep(u) \/ Call(u)
        PROVE  Telling' \subseteq Telling \cup {u}
    BY <2>1 DEF CallStep, Call, Async, WakeOne, Wait, LockCompletion,
       ReadActive, ReadTasks, Destroy, WakeAll, Join, UserGoto, BlockInWait,
       Telling, IInv, TypeOK
  <2>2. ASSUME NEW w \in Worker, WorkerStep(w) PROVE Telling' = Telling
    BY <2>2 DEF WorkerStep, LockQueue, Sleep, Exit, CountActive,
       PassCompletionLock, Pop, RunTask, Retire, NotifyCompletion,
       WorkerGoto, Telling
  <2>3. ASSUME SpuriousWakeup \/ UNCHANGED vars PROVE Telling' = Telling
    BY <2>3 DEF SpuriousWakeup, vars, Telling
  <2> QED
    BY <2>1, <2>2, <2>3 DEF Next
<1> QED
  BY <1>1, FS_AddElement, FS_Subset DEF TellingIsFinite

(* Those that are awake or about to be told are enough for the queue. *)
LEMMA AttendedStep ==
  WInv /\ [Next]_vars => QueueIsAttended'
<1> SUFFICES ASSUME WInv, [Next]_vars PROVE QueueIsAttended'
  OBVIOUS
<1> USE DEF WInv, NoWakeupLost
<1>0. /\ IsFiniteSet(Awake) /\ IsFiniteSet(Telling)
      /\ Cardinality(Awake) \in Nat /\ Cardinality(Telling) \in Nat
      /\ Len(Tasks) \in Nat
  BY AwakeFinite, FS_CardinalityType DEF TellingIsFinite, IInv, TypeOK
<1>1. /\ IsFiniteSet(Awake') /\ IsFiniteSet(Telling')
      /\ Cardinality(Awake') \in Nat /\ Cardinality(Telling') \in Nat
  <2>1. IsFiniteSet(Awake') /\ IsFiniteSet(Telling')
    BY AwakeFinite, WorkerAssumption, FS_Subset, TellingStep
       DEF Awake, TellingIsFinite
  <2> QED
    BY <2>1, FS_CardinalityType
<1>2. ASSUME UNCHANGED <<Tasks, QueueCondition, Awake, Telling>>
      PROVE  QueueIsAttended'
  BY <1>2 DEF QueueIsAttended
<1>3. ASSUME NEW w \in Worker, Sleep(w) \/ Exit(w) PROVE QueueIsAttended'
  <2>1. Len(Tasks') = 0
    BY <1>3 DEF Sleep, Exit
  <2> QED
    BY <1>1, <2>1 DEF QueueIsAttended
<1>4. ASSUME NEW w \in Worker, Pop(w) PROVE QueueIsAttended'
  <2>1. Tasks # <<>> /\ w \in Awake /\ Awake' = Awake \ {w}
    BY <1>4 DEF Pop, WorkerGoto, IInv, TypeOK, Holding, Blocked, Awake
  <2>2. Cardinality(Awake') = Cardinality(Awake) - 1
    BY <1>0, <2>1, FS_RemoveElement
  <2>3. Len(Tasks') = Len(Tasks) - 1
    BY <1>4, <2>1 DEF Pop, IInv, TypeOK
  <2>4. Telling' = Telling /\ QueueCondition' = QueueCondition
    BY <1>4 DEF Pop, WorkerGoto, Telling
  <2> QED
    BY <1>0, <1>1, <2>2, <2>3, <2>4 DEF QueueIsAttended
<1>5. ASSUME NEW w \in Worker, NotifyCompletion(w) PROVE QueueIsAttended'
  <2>1. Awake \subseteq Awake'
    BY <1>5 DEF NotifyCompletion, WorkerGoto, IInv, TypeOK, Awake, queue
  <2>2. Cardinality(Awake) <= Cardinality(Awake')
    BY <1>1, <2>1, FS_Subset
  <2>3. UNCHANGED <<Tasks, QueueCondition, Telling>>
    BY <1>5 DEF NotifyCompletion, WorkerGoto, Telling, queue
  <2> QED
    BY <1>0, <1>1, <2>2, <2>3 DEF QueueIsAttended
<1>6. ASSUME NEW u \in User, NEW t \in Task, Async(u, t) PROVE QueueIsAttended'
  <2>1. u \notin Telling /\ Telling' = Telling \cup {u}
    BY <1>6 DEF Async, UserGoto, IInv, TypeOK, Telling
  <2>2. Cardinality(Telling') = Cardinality(Telling) + 1
    BY <1>0, <2>1, FS_AddElement
  <2>3. Len(Tasks') = Len(Tasks) + 1
    BY <1>6 DEF Async, IInv, TypeOK
  <2>4. Awake' = Awake /\ QueueCondition' = QueueCondition
    BY <1>6 DEF Async, UserGoto, Awake
  <2> QED
    BY <1>0, <1>1, <2>2, <2>3, <2>4 DEF QueueIsAttended
<1>7. ASSUME NEW u \in User, WakeOne(u), NEW w \in QueueCondition,
             QueueCondition' = QueueCondition \ {w}
      PROVE  QueueIsAttended'
  <2>1. /\ w \notin Awake /\ Awake' = Awake \cup {w}
        /\ u \in Telling /\ Telling' = Telling \ {u}
        /\ UNCHANGED Tasks
    BY <1>7 DEF WakeOne, UserGoto, IInv, TypeOK, Blocked, Awake, Telling
  <2>2. Cardinality(Awake') = Cardinality(Awake) + 1
    BY <1>0, <2>1, FS_AddElement
  <2>3. Cardinality(Telling') = Cardinality(Telling) - 1
    BY <1>0, <2>1, FS_RemoveElement
  <2> QED
    BY <1>0, <1>1, <1>7, <2>1, <2>2, <2>3 DEF QueueIsAttended
<1>8. ASSUME NEW u \in User, WakeOne(u), QueueCondition' = {}
      PROVE  QueueIsAttended'
  BY <1>8 DEF QueueIsAttended
<1>9. ASSUME NEW u \in User, WakeAll(u) PROVE QueueIsAttended'
  BY <1>9 DEF WakeAll, QueueIsAttended
<1>10. ASSUME SpuriousWakeup PROVE QueueIsAttended'
  <2>1. Awake \subseteq Awake' /\ UNCHANGED <<Tasks, Telling>>
    BY <1>10 DEF SpuriousWakeup, Awake, Telling
  <2>2. Cardinality(Awake) <= Cardinality(Awake')
    BY <1>1, <2>1, FS_Subset
  <2>3. QueueCondition' # {} => QueueCondition # {}
    BY <1>10 DEF SpuriousWakeup
  <2> QED
    BY <1>0, <1>1, <2>1, <2>2, <2>3 DEF QueueIsAttended
<1> QED
  BY <1>2, <1>3, <1>4, <1>5, <1>6, <1>7, <1>8, <1>9, <1>10, NotAboutTheQueue
     DEF Next, WorkerStep, CallStep, Call, WakeOne

(* A client blocks only while a worker or a task will lead to a notification, *)
(* and each step that uses up one such cause leaves the next.                 *)
LEMMA ToldStep == IInv /\ WaitersAreTold /\ [Next]_vars => WaitersAreTold'
<1> SUFFICES ASSUME IInv, WaitersAreTold, [Next]_vars,
                    CompletionCondition' # {}
             PROVE  \/ ActiveThreads' > 0 \/ Tasks' # <<>>
                    \/ \E w \in Worker : workerPc'[w] = "notify"
  BY DEF WaitersAreTold
<1> DEFINE Goal == \/ ActiveThreads' > 0 \/ Tasks' # <<>>
                   \/ \E w \in Worker : workerPc'[w] = "notify"
<1> USE DEF IInv, TypeOK, WaitersAreTold, queue, completion, history
<1>1. ASSUME NEW w \in Worker, LockQueue(w) \/ Sleep(w) \/ Exit(w) PROVE Goal
  BY <1>1 DEF LockQueue, Sleep, Exit, WorkerGoto
<1>2. ASSUME NEW w \in Worker, CountActive(w) PROVE Goal
  BY <1>2 DEF CountActive, WorkerGoto
<1>3. ASSUME NEW w \in Worker, PassCompletionLock(w) \/ RunTask(w) PROVE Goal
  BY <1>3 DEF PassCompletionLock, RunTask, WorkerGoto
<1>4. ASSUME NEW w \in Worker, Pop(w) PROVE Goal
  <2>1. w \in Busy
    BY <1>4 DEF Pop, WorkerGoto, Busy
  <2>2. ActiveThreads \in Nat \ {0}
    BY <2>1, BusyFinite, FS_EmptySet DEF Counted
  <2> QED
    BY <1>4, <2>2 DEF Pop
<1>5. ASSUME NEW w \in Worker, Retire(w) PROVE Goal
  BY <1>5 DEF Retire, WorkerGoto, WorkerPc
<1>6. ASSUME NEW w \in Worker, NotifyCompletion(w) PROVE Goal
  BY <1>6 DEF NotifyCompletion
<1>7. ASSUME NEW u \in User, NEW t \in Task, Async(u, t) PROVE Goal
  BY <1>7 DEF Async, UserGoto
<1>8. ASSUME NEW u \in User, ReadActive(u) \/ ReadTasks(u) PROVE Goal
  BY <1>8 DEF ReadActive, ReadTasks, UserGoto, BlockInWait
<1>9. ASSUME NEW u \in User, \/ WakeOne(u) \/ Wait(u) \/ LockCompletion(u)
                             \/ Destroy(u) \/ WakeAll(u) \/ Join(u)
      PROVE  Goal
  BY <1>9 DEF WakeOne, Wait, LockCompletion, Destroy, WakeAll, Join, UserGoto
<1>10. ASSUME SpuriousWakeup \/ UNCHANGED vars PROVE Goal
  BY <1>10 DEF SpuriousWakeup, vars
<1> QED
  BY <1>1, <1>2, <1>3, <1>4, <1>5, <1>6, <1>7, <1>8, <1>9, <1>10
     DEF Next, WorkerStep, CallStep, Call

(* Nobody goes to sleep after the flag was cleared, and the destructor wakes  *)
(* those that slept before.                                                   *)
LEMMA SleepersStep == IInv /\ SleepersAreTold /\ [Next]_vars => SleepersAreTold'
<1> SUFFICES ASSUME IInv, SleepersAreTold, [Next]_vars PROVE SleepersAreTold'
  OBVIOUS
<1> USE DEF IInv, TypeOK, SleepersAreTold, queue, completion, history
<1>1. ASSUME NEW w \in Worker, WorkerStep(w) PROVE SleepersAreTold'
  BY <1>1 DEF WorkerStep, LockQueue, Sleep, Exit, CountActive,
     PassCompletionLock, Pop, RunTask, Retire, NotifyCompletion, WorkerGoto
<1>2. ASSUME NEW u \in User, \/ LockCompletion(u) \/ ReadActive(u)
                             \/ ReadTasks(u) \/ Wait(u)
      PROVE  SleepersAreTold'
  BY <1>2 DEF LockCompletion, ReadActive, ReadTasks, Wait, UserGoto, BlockInWait
<1>3. ASSUME NEW u \in User, WakeOne(u) \/ WakeAll(u) \/ Join(u) \/ Destroy(u)
      PROVE  SleepersAreTold'
  BY <1>3 DEF WakeOne, WakeAll, Join, Destroy, UserGoto
<1>4. ASSUME NEW u \in User, NEW t \in Task, Async(u, t) PROVE SleepersAreTold'
  BY <1>4 DEF Async, UserGoto
<1>5. ASSUME SpuriousWakeup \/ UNCHANGED vars PROVE SleepersAreTold'
  BY <1>5 DEF SpuriousWakeup, vars
<1> QED
  BY <1>1, <1>2, <1>3, <1>4, <1>5 DEF Next, CallStep, Call

-----------------------------------------------------------------------------
(* The theorems. *)

(* Every reachable state is of the declared type and satisfies the invariant. *)
THEOREM Invariance == Spec => []IInv
<1>1. Init => IInv
  <2> SUFFICES ASSUME Init PROVE IInv
    OBVIOUS
  <2> USE DEF Init
  <2>1. TypeOK
    BY DEF TypeOK, WorkerPc
  <2>2. Mutexes /\ Blocked /\ Holding /\ Shutdown /\ NoRaceOnTasks
    BY ThreadAssumption DEF Mutexes, Blocked, Holding, Shutdown, Destroying,
                            DestroyPc, NoRaceOnTasks
  <2>3. Counted
    <3>1. Busy = {}
      BY DEF Busy
    <3> QED
      BY <3>1, FS_EmptySet DEF Counted
  <2>4. TasksConserved
    BY DEF TasksConserved, Queued, Taken
  <2> QED
    BY <2>1, <2>2, <2>3, <2>4 DEF IInv
<1>2. IInv /\ [Next]_vars => IInv'
  BY TypeStep, MutexesStep, BlockedStep, CountedStep, HoldingStep,
     ShutdownStep, ConservedStep, NoRaceStep DEF IInv
<1> QED
  BY <1>1, <1>2, PTL DEF Spec

(* Type correctness. *)
THEOREM TypeCorrect == Spec => []TypeOK
BY Invariance, PTL DEF IInv

(* No task is lost, duplicated or run twice. *)
THEOREM Conservation == Spec => []TasksConserved
BY Invariance, PTL DEF IInv

(* wait() reads the queue while no worker modifies it. *)
THEOREM ReadsAreSafe == Spec => []NoRaceOnTasks
BY Invariance, PTL DEF IInv

(* The destructor leaves no task undone and no thread blocked. *)
THEOREM Drained == Spec => []DrainedWhenDestroyed
<1>1. IInv => DrainedWhenDestroyed
  <2> SUFFICES ASSUME IInv, NEW u \in User, userPc[u] = "destroyed"
               PROVE  /\ finished = submitted
                      /\ QueueCondition = {} /\ CompletionCondition = {}
    BY DEF DrainedWhenDestroyed
  <2>1. /\ \A w \in Worker : workerPc[w] = "exited" /\ running[w] = {}
        /\ Tasks = <<>>
    BY WorkerAssumption DEF IInv, Shutdown, Holding
  <2>2. Queued = {} /\ Taken = {}
    BY <2>1 DEF Queued, Taken
  <2>3. QueueCondition = {}
    BY <2>1 DEF IInv, Blocked, TypeOK
  <2>4. CompletionCondition = {}
    BY DEF IInv, Blocked, TypeOK, Shutdown, Destroying, DestroyPc
  <2> QED
    BY <2>2, <2>3, <2>4 DEF IInv, TasksConserved
<1> QED
  BY <1>1, Invariance, PTL

(* No thread is blocked without somebody that will notify it. *)
THEOREM NoSleepForEver == Spec => []NoWakeupLost
<1>1. Init => TellingIsFinite /\ NoWakeupLost
  <2>1. ASSUME Init PROVE Telling = {}
    BY <2>1 DEF Init, Telling
  <2> QED
    BY <2>1, FS_EmptySet
       DEF Init, TellingIsFinite, NoWakeupLost, QueueIsAttended,
           WaitersAreTold, SleepersAreTold
<1>2. IInv /\ IInv' /\ (TellingIsFinite /\ NoWakeupLost) /\ [Next]_vars
         => (TellingIsFinite /\ NoWakeupLost)'
  BY TellingStep, AttendedStep, ToldStep, SleepersStep DEF WInv, NoWakeupLost
<1> QED
  BY <1>1, <1>2, Invariance, PTL DEF Spec

(* When wait() returns every submitted task is finished. *)
THEOREM Barrier == Spec => WaitIsABarrier
<1>1. ASSUME IInv, [Next]_vars, NEW u \in User,
             userPc[u] = "readTasks", userPc'[u] = "idle"
      PROVE  finished = submitted
  <2>1. Tasks = <<>>
    BY <1>1 DEF Next, WorkerStep, CallStep, Call, LockQueue, Sleep, Exit,
                CountActive, PassCompletionLock, Pop, RunTask, Retire,
                NotifyCompletion, WakeOne, LockCompletion, ReadActive,
                ReadTasks, WakeAll, Join, Async, Wait, Destroy, SpuriousWakeup,
                vars, WorkerGoto, UserGoto, BlockInWait, IInv, TypeOK
  <2>2. \A w \in Worker : running[w] = {}
    BY <1>1 DEF IInv, NoRaceOnTasks, Holding
  <2>3. Queued = {} /\ Taken = {}
    BY <2>1, <2>2 DEF Queued, Taken
  <2> QED
    BY <1>1, <2>3 DEF IInv, TasksConserved
<1>2. IInv /\ [Next]_vars =>
         [\A u \in User : userPc[u] = "readTasks" /\ userPc'[u] = "idle"
             => finished = submitted]_vars
  BY <1>1
<1> QED
  BY <1>2, Invariance, PTL DEF Spec, WaitIsABarrier

(* The pool implements the service. *)
THEOREM Refinement == Spec => ImplementsService
<1> USE DEF Service!Init, Service!Next, Service!vars
<1>1. Init => Service!Init
  BY DEF Init, Waiting, WaitPc
<1>2. ASSUME IInv, [Next]_vars PROVE [Service!Next]_Service!vars
  <2> DEFINE map == <<submitted, finished, Waiting,
                      \A u \in User : userPc[u] # "destroyed">>
  <2> USE <1>2 DEF queue, completion, history, Waiting, WaitPc, IInv, TypeOK
  <2>1. ASSUME NEW w \in Worker, RunTask(w) PROVE Service!Next
    <3>1. PICK t \in Task : running[w] = {t}
      BY <2>1 DEF RunTask, WorkerGoto, Holding
    <3>2. t \in submitted \ finished
      BY <3>1 DEF TasksConserved, Taken
    <3>3. \A u \in User : userPc[u] # "destroyed"
      BY <2>1 DEF RunTask, WorkerGoto, Shutdown
    <3>4. Service!Finish(t)
      BY <2>1, <3>1, <3>2, <3>3 DEF RunTask, WorkerGoto, Service!Finish
    <3> QED
      BY <3>4
  <2>2. ASSUME NEW w \in Worker, WorkerStep(w), ~RunTask(w) PROVE UNCHANGED map
    BY <2>2 DEF WorkerStep, LockQueue, Sleep, Exit, CountActive,
                PassCompletionLock, Pop, Retire, NotifyCompletion, WorkerGoto
  <2>3. ASSUME NEW u \in User, NEW t \in Task, Async(u, t) PROVE Service!Next
    <3>1. Service!Submit(t)
      BY <2>3 DEF Async, UserGoto, Destroying, DestroyPc, Service!Submit
    <3> QED
      BY <3>1
  <2>4. ASSUME NEW u \in User, Wait(u) PROVE Service!Next
    <3>1. Service!EnterBarrier(u)
      BY <2>4 DEF Wait, UserGoto, Destroying, DestroyPc, Service!EnterBarrier
    <3> QED
      BY <3>1
  <2>5. ASSUME NEW u \in User, ReadTasks(u), Tasks = <<>> PROVE Service!Next
    <3>1. \A w \in Worker : running[w] = {}
      BY <2>5 DEF ReadTasks, UserGoto, BlockInWait, NoRaceOnTasks, Holding
    <3>2. Queued = {} /\ Taken = {}
      BY <2>5, <3>1 DEF Queued, Taken
    <3>3. Service!LeaveBarrier(u)
      BY <2>5, <3>2 DEF ReadTasks, UserGoto, BlockInWait, TasksConserved,
                        Service!LeaveBarrier
    <3> QED
      BY <3>3
  <2>6. ASSUME NEW u \in User, Join(u) PROVE Service!Next
    <3>1. Tasks = <<>> /\ \A w \in Worker : running[w] = {}
      BY <2>6, WorkerAssumption DEF Join, UserGoto, Shutdown, Holding
    <3>2. Queued = {} /\ Taken = {}
      BY <3>1 DEF Queued, Taken
    <3>3. u \in Destroying /\ Waiting = {}
      BY <2>6 DEF Join, UserGoto, Destroying, DestroyPc, Shutdown
    <3>4. \A v \in User : userPc[v] # "destroyed"
      BY <2>6, <3>3 DEF Join, UserGoto, Destroying, DestroyPc, Shutdown
    <3>5. Service!Close
      BY <2>6, <3>2, <3>3, <3>4
         DEF Join, UserGoto, TasksConserved, Service!Close
    <3> QED
      BY <3>5
  <2>7. ASSUME NEW u \in User,
               WakeOne(u) \/ LockCompletion(u) \/ ReadActive(u)
               \/ (ReadTasks(u) /\ Tasks # <<>>) \/ WakeAll(u) \/ Destroy(u)
        PROVE  UNCHANGED map
    BY <2>7 DEF WakeOne, LockCompletion, ReadActive, ReadTasks, WakeAll,
                Destroy, UserGoto, BlockInWait
  <2>8. ASSUME SpuriousWakeup \/ UNCHANGED vars PROVE UNCHANGED map
    BY <2>8 DEF SpuriousWakeup, vars
  <2> QED
    BY <1>2, <2>1, <2>2, <2>3, <2>4, <2>5, <2>6, <2>7, <2>8
       DEF Next, CallStep, Call
<1> QED
  BY <1>1, <1>2, Invariance, PTL
     DEF Spec, ImplementsService, Service!Spec

(* What the refinement is worth: TaskService keeps its promises, so the pool   *)
(* leaves nothing undone when it is destroyed, and runs nothing afterwards.  *)
THEOREM PromisesAreKept ==
  Spec => []Service!NothingLeft /\ [][Service!InOrder]_(Service!vars)
<1> USE DEF Service!NothingLeft
<1>1. Service!Init => Service!NothingLeft
  BY DEF Service!Init
<1>2. Service!NothingLeft /\ [Service!Next]_(Service!vars) =>
        Service!NothingLeft' /\ [Service!InOrder]_(Service!vars)
  BY DEF Service!InOrder, Service!Next, Service!vars, Service!Submit,
     Service!Finish, Service!EnterBarrier, Service!LeaveBarrier, Service!Close
<1> QED
  BY <1>1, <1>2, Refinement, PTL DEF ImplementsService, Service!Spec

=============================================================================
