----------------------------- MODULE ThreadPool ------------------------------
(***************************************************************************)
(* llvm::ThreadPool (llvm/lib/Support/ThreadPool.cpp, threads enabled):     *)
(* worker threads that take tasks from a queue, client threads that call    *)
(* async() and wait(), and the destructor that drains and joins.            *)
(*                                                                          *)
(* Each mutex is the thread that holds it, each condition variable the set  *)
(* of threads blocked in it.  A thread that leaves such a set still has to  *)
(* take the mutex back, so "woken" is: at the lock step and not in the set. *)
(* A critical section no other thread can look into is one step.            *)
(***************************************************************************)
EXTENDS Naturals, Sequences, FiniteSets

CONSTANTS Worker,      (* the threads the constructor starts                 *)
          User,        (* the threads that call into the pool                *)
          Task,        (* the tasks they may submit                          *)
          Nobody       (* the holder of a free mutex                         *)

ASSUME WorkerAssumption == IsFiniteSet(Worker) /\ Worker # {}
ASSUME ThreadAssumption == /\ Worker \cap User = {}
                           /\ Nobody \notin Worker \cup User

VARIABLES Tasks,               (* the queue                                  *)
          EnableFlag,          (* cleared by the destructor                  *)
          QueueLock,
          QueueCondition,      (* the workers blocked in it                  *)
          ActiveThreads,       (* the number of threads actually busy        *)
          CompletionLock,
          CompletionCondition, (* the clients blocked in it                  *)
          workerPc, running,   (* each worker's step, and the task it took   *)
          userPc,
          submitted, finished  (* history: tasks pushed, tasks run to the end*)

queue      == <<Tasks, EnableFlag, QueueLock, QueueCondition>>
completion == <<ActiveThreads, CompletionLock, CompletionCondition>>
history    == <<submitted, finished>>
vars == <<queue, completion, workerPc, running, userPc, history>>

WorkerPc == {"lock", "test", "announce", "pop", "run", "retire", "notify",
             "exited"}
WaitPc    == {"waitLock", "readActive", "readTasks"}
DestroyPc == {"wakeAll", "join", "destroyed"}

Waiting    == {u \in User : userPc[u] \in WaitPc}
Destroying == {u \in User : userPc[u] \in DestroyPc}

Init == /\ Tasks = <<>> /\ EnableFlag = TRUE
        /\ QueueLock = Nobody /\ QueueCondition = {}
        /\ ActiveThreads = 0
        /\ CompletionLock = Nobody /\ CompletionCondition = {}
        /\ workerPc = [w \in Worker |-> "lock"]
        /\ running = [w \in Worker |-> {}]
        /\ userPc = [u \in User |-> "idle"]
        /\ submitted = {} /\ finished = {}

WorkerGoto(w, from, to) == /\ workerPc[w] = from
                           /\ workerPc' = [workerPc EXCEPT ![w] = to]
                           /\ UNCHANGED userPc

UserGoto(u, from, to) == /\ userPc[u] = from
                         /\ userPc' = [userPc EXCEPT ![u] = to]
                         /\ UNCHANGED <<workerPc, running>>

-----------------------------------------------------------------------------
(* Seeded faults: each is a slip of the step it is named after, kept to see  *)
(* that the properties at the end notice it.                                 *)

CountActive_Uncounted(w) == /\ WorkerGoto(w, "test", "announce")
                            /\ Tasks # <<>>
                            /\ UNCHANGED <<queue, completion, running, history>>

PassCompletionLock_Unlocked(w) ==
  /\ WorkerGoto(w, "announce", "pop")
  /\ UNCHANGED <<queue, completion, running, history>>

Pop_Kept(w) == /\ WorkerGoto(w, "pop", "run")
               /\ running' = [running EXCEPT ![w] = {Head(Tasks)}]
               /\ QueueLock' = Nobody
               /\ UNCHANGED <<Tasks, EnableFlag, QueueCondition, completion,
                              history>>

NotifyCompletion_Silent(w) == /\ WorkerGoto(w, "notify", "lock")
                              /\ UNCHANGED <<queue, completion, running,
                                             history>>

WakeOne_Silent(u) == /\ UserGoto(u, "wakeOne", "idle")
                     /\ UNCHANGED <<queue, completion, history>>

Async_TellingOnlyIfEmpty(u, t) ==
  /\ UserGoto(u, "idle", IF Tasks = <<>> THEN "wakeOne" ELSE "idle")
  /\ Waiting = {} /\ Destroying = {}
  /\ t \notin submitted
  /\ QueueLock = Nobody
  /\ Tasks' = Append(Tasks, t)
  /\ submitted' = submitted \cup {t}
  /\ UNCHANGED <<EnableFlag, QueueLock, QueueCondition, completion, finished>>

WakeAll_OnlyOne(u) == /\ UserGoto(u, "wakeAll", "join")
                      /\ \E W \in SUBSET QueueCondition :
                            /\ Cardinality(QueueCondition \ W) <= 1
                            /\ QueueCondition' = W
                      /\ UNCHANGED <<Tasks, EnableFlag, QueueLock, completion,
                                     history>>

-----------------------------------------------------------------------------
(* The loop of a worker thread. *)

LockQueue(w) == /\ WorkerGoto(w, "lock", "test")
                /\ w \notin QueueCondition
                /\ QueueLock = Nobody /\ QueueLock' = w
                /\ UNCHANGED <<Tasks, EnableFlag, QueueCondition, completion,
                               running, history>>

(* The predicate of QueueCondition.wait is false: block, releasing the lock. *)
Sleep(w) == /\ WorkerGoto(w, "test", "lock")
            /\ EnableFlag /\ Tasks = <<>>
            /\ QueueLock' = Nobody
            /\ QueueCondition' = QueueCondition \cup {w}
            /\ UNCHANGED <<Tasks, EnableFlag, completion, running, history>>

Exit(w) == /\ WorkerGoto(w, "test", "exited")
           /\ ~EnableFlag /\ Tasks = <<>>
           /\ QueueLock' = Nobody
           /\ UNCHANGED <<Tasks, EnableFlag, QueueCondition, completion,
                          running, history>>

(* ++ActiveThreads, an atomic that wait() reads without the queue's lock. *)
CountActive(w) == /\ WorkerGoto(w, "test", "announce")
                  /\ Tasks # <<>>
                  /\ ActiveThreads' = ActiveThreads + 1
                  /\ UNCHANGED <<queue, CompletionLock, CompletionCondition,
                                 running, history>>

(* The empty critical section: no client may be between its two reads. *)
PassCompletionLock(w) == /\ WorkerGoto(w, "announce", "pop")
                         /\ CompletionLock = Nobody
                         /\ UNCHANGED <<queue, completion, running, history>>

Pop(w) == /\ WorkerGoto(w, "pop", "run")
          /\ running' = [running EXCEPT ![w] = {Head(Tasks)}]
          /\ Tasks' = Tail(Tasks)
          /\ QueueLock' = Nobody
          /\ UNCHANGED <<EnableFlag, QueueCondition, completion, history>>

(* The task's body returns, which makes its future ready. *)
RunTask(w) == /\ WorkerGoto(w, "run", "retire")
              /\ finished' = finished \cup running[w]
              /\ running' = [running EXCEPT ![w] = {}]
              /\ UNCHANGED <<queue, completion, submitted>>

Retire(w) == /\ WorkerGoto(w, "retire", "notify")
             /\ CompletionLock = Nobody
             /\ ActiveThreads' = ActiveThreads - 1
             /\ UNCHANGED <<queue, CompletionLock, CompletionCondition,
                            running, history>>

NotifyCompletion(w) == /\ WorkerGoto(w, "notify", "lock")
                       /\ CompletionCondition' = {}
                       /\ UNCHANGED <<queue, ActiveThreads, CompletionLock,
                                      running, history>>

-----------------------------------------------------------------------------
(* The members a client calls. *)

(* asyncImpl() up to the unlock.  wait() forbids submitting meanwhile, and  *)
(* the assertion forbids it once the destructor has run.                    *)
Async(u, t) == /\ UserGoto(u, "idle", "wakeOne")
               /\ Waiting = {} /\ Destroying = {}
               /\ t \notin submitted
               /\ QueueLock = Nobody
               /\ Tasks' = Append(Tasks, t)
               /\ submitted' = submitted \cup {t}
               /\ UNCHANGED <<EnableFlag, QueueLock, QueueCondition,
                              completion, finished>>

(* QueueCondition.notify_one(). *)
WakeOne(u) == /\ UserGoto(u, "wakeOne", "idle")
              /\ \/ QueueCondition = {} /\ UNCHANGED QueueCondition
                 \/ \E w \in QueueCondition :
                       QueueCondition' = QueueCondition \ {w}
              /\ UNCHANGED <<Tasks, EnableFlag, QueueLock, completion, history>>

Wait(u) == /\ UserGoto(u, "idle", "waitLock")
           /\ Destroying = {}
           /\ UNCHANGED <<queue, completion, history>>

LockCompletion(u) == /\ UserGoto(u, "waitLock", "readActive")
                     /\ u \notin CompletionCondition
                     /\ CompletionLock = Nobody /\ CompletionLock' = u
                     /\ UNCHANGED <<queue, ActiveThreads, CompletionCondition,
                                    history>>

BlockInWait(u, from) == /\ UserGoto(u, from, "waitLock")
                        /\ CompletionLock' = Nobody
                        /\ CompletionCondition' = CompletionCondition \cup {u}

(* First half of the predicate: the load of ActiveThreads. *)
ReadActive(u) == /\ \/ /\ ActiveThreads = 0
                       /\ UserGoto(u, "readActive", "readTasks")
                       /\ UNCHANGED <<CompletionLock, CompletionCondition>>
                    \/ ActiveThreads # 0 /\ BlockInWait(u, "readActive")
                 /\ UNCHANGED <<queue, ActiveThreads, history>>

(* Second half: Tasks.empty(), read without the queue's lock. *)
ReadTasks(u) == /\ \/ /\ Tasks = <<>>
                      /\ UserGoto(u, "readTasks", "idle")
                      /\ CompletionLock' = Nobody
                      /\ UNCHANGED CompletionCondition
                   \/ Tasks # <<>> /\ BlockInWait(u, "readTasks")
                /\ UNCHANGED <<queue, ActiveThreads, history>>

(* ~ThreadPool(), which no call of another thread may overlap. *)
Destroy(u) == /\ UserGoto(u, "idle", "wakeAll")
              /\ \A v \in User : userPc[v] = "idle"
              /\ QueueLock = Nobody
              /\ EnableFlag' = FALSE
              /\ UNCHANGED <<Tasks, QueueLock, QueueCondition, completion,
                             history>>

WakeAll(u) == /\ UserGoto(u, "wakeAll", "join")
              /\ QueueCondition' = {}
              /\ UNCHANGED <<Tasks, EnableFlag, QueueLock, completion, history>>

Join(u) == /\ UserGoto(u, "join", "destroyed")
           /\ \A w \in Worker : workerPc[w] = "exited"
           /\ UNCHANGED <<queue, completion, history>>

(* A condition variable may wake a thread nobody notified. *)
SpuriousWakeup ==
  /\ \/ /\ \E w \in QueueCondition : QueueCondition' = QueueCondition \ {w}
        /\ UNCHANGED CompletionCondition
     \/ /\ \E u \in CompletionCondition :
              CompletionCondition' = CompletionCondition \ {u}
        /\ UNCHANGED QueueCondition
  /\ UNCHANGED <<Tasks, EnableFlag, QueueLock, ActiveThreads, CompletionLock,
                 workerPc, running, userPc, history>>

-----------------------------------------------------------------------------

WorkerStep(w) == \/ LockQueue(w) \/ Sleep(w) \/ Exit(w) \/ CountActive(w)
                 \/ PassCompletionLock(w) \/ Pop(w) \/ RunTask(w) \/ Retire(w)
                 \/ NotifyCompletion(w)

(* The steps of a call already begun, as against the choice to make one. *)
CallStep(u) == \/ WakeOne(u) \/ LockCompletion(u) \/ ReadActive(u)
               \/ ReadTasks(u) \/ WakeAll(u) \/ Join(u)

Call(u) == (\E t \in Task : Async(u, t)) \/ Wait(u) \/ Destroy(u)

Next == \/ \E w \in Worker : WorkerStep(w)
        \/ \E u \in User : CallStep(u) \/ Call(u)
        \/ SpuriousWakeup

Spec == Init /\ [][Next]_vars

(* A runnable thread is scheduled eventually, and a mutex that is released    *)
(* again and again starves nobody (clients may call wait() on an idle pool,   *)
(* and threads may be woken for nothing, for ever).  Nobody has to make a     *)
(* call, and no spurious wake-up has to come.                                 *)
Fairness ==
  /\ \A w \in Worker : /\ WF_vars(WorkerStep(w)) /\ SF_vars(LockQueue(w))
                       /\ SF_vars(PassCompletionLock(w)) /\ SF_vars(Retire(w))
  /\ \A u \in User : WF_vars(CallStep(u)) /\ SF_vars(LockCompletion(u))

FairSpec == Spec /\ Fairness

-----------------------------------------------------------------------------
(* Properties. *)

TypeOK == /\ Tasks \in Seq(Task)
          /\ EnableFlag \in BOOLEAN
          /\ QueueLock \in Worker \cup {Nobody}
          /\ QueueCondition \in SUBSET Worker
          /\ ActiveThreads \in Nat
          /\ CompletionLock \in User \cup {Nobody}
          /\ CompletionCondition \in SUBSET User
          /\ workerPc \in [Worker -> WorkerPc]
          /\ running \in [Worker -> SUBSET Task]
          /\ userPc \in [User -> {"idle", "wakeOne"} \cup WaitPc \cup DestroyPc]
          /\ submitted \in SUBSET Task /\ finished \in SUBSET Task

Queued == {Tasks[i] : i \in 1..Len(Tasks)}
Taken  == UNION {running[w] : w \in Worker}

(* A task handed to async() is at every moment in exactly one place: once in *)
(* the queue, with one worker, or finished.  So none is lost or run twice.   *)
TasksConserved ==
  /\ submitted = Queued \cup Taken \cup finished
  /\ Queued \cap (Taken \cup finished) = {} /\ Taken \cap finished = {}
  /\ \A i, j \in 1..Len(Tasks) : Tasks[i] = Tasks[j] => i = j
  /\ \A v, w \in Worker : running[v] \cap running[w] # {} => v = w

(* ThreadPool.cpp:77: wait() reads Tasks without QueueLock.  The order of its *)
(* reads and the worker's empty critical section keep every worker away from  *)
(* the queue while it does, so the read races with no pop.                    *)
NoRaceOnTasks ==
  \A u \in User, w \in Worker :
     userPc[u] = "readTasks" => workerPc[w] \notin {"pop", "run", "retire"}

(* Workers that will look at the queue before they block or run a task, and  *)
(* clients whose task is in the queue and whose notify_one() is to come.      *)
Awake   == {w \in Worker : /\ workerPc[w] \in {"lock", "test", "announce", "pop"}
                           /\ w \notin QueueCondition}
Telling == {u \in User : userPc[u] = "wakeOne"}

(* A worker is blocked only while there are others for all that is queued:    *)
(* a notify_one() that found nobody, or one already awake, took none away.    *)
QueueIsAttended ==
  QueueCondition # {} =>
     Len(Tasks) <= Cardinality(Awake) + Cardinality(Telling)

(* A client is blocked in wait() only while somebody will notify it.          *)
WaitersAreTold ==
  CompletionCondition # {} =>
     ActiveThreads > 0 \/ Tasks # <<>> \/ \E w \in Worker : workerPc[w] = "notify"

(* No worker sleeps through the shutdown.                                     *)
SleepersAreTold ==
  ~EnableFlag =>
     QueueCondition = {} \/ \E u \in User : userPc[u] = "wakeAll"

(* No thread is blocked for ever: each notification is sent after the mutex   *)
(* was released, so between the change a thread waits for and the             *)
(* notification others may block, be woken or leave.                          *)
NoWakeupLost == QueueIsAttended /\ WaitersAreTold /\ SleepersAreTold

(* When the destructor has joined the workers every submitted task was run,   *)
(* and no thread is left blocked in a condition variable it is destroying.    *)
DrainedWhenDestroyed ==
  (\E u \in User : userPc[u] = "destroyed") =>
     /\ finished = submitted
     /\ QueueCondition = {} /\ CompletionCondition = {}

(* ThreadPool.h: wait() is a "blocking wait for all the threads to complete   *)
(* and the queue to be empty": the step on which it returns finds every task  *)
(* submitted so far finished.                                                 *)
WaitIsABarrier ==
  [][\A u \in User : userPc[u] = "readTasks" /\ userPc'[u] = "idle"
        => finished = submitted]_vars

(* The pool implements the service its clients rely on. *)
Service == INSTANCE TaskService
             WITH blocked <- Waiting,
                  open <- \A u \in User : userPc[u] # "destroyed"
ImplementsService == Service!Spec

(* No wake-up is lost: a submitted task is run, ...                           *)
EveryTaskFinishes == \A t \in Task : t \in submitted ~> t \in finished

(* ... a client in wait() comes out of it, ...                                *)
EveryWaitReturns == \A u \in User : u \in Waiting ~> userPc[u] = "idle"

(* ... and the destructor ends, whatever is queued when it starts.            *)
DestructorReturns ==
  \A u \in User : userPc[u] = "wakeAll" ~> userPc[u] = "destroyed"

=============================================================================
