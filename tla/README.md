# Verification of the concurrency and coordination core of LLVM

This project models, model-checks and proves properties of the parts of the
LLVM monorepo in which several threads or processes coordinate: the code where
the order of steps decides the result and where unit tests reach least.

1. [The system and its parts](#1-the-system-and-its-parts)
2. [Modules, and how they are built](#2-modules-and-how-they-are-built)
3. [Component by component](#3-component-by-component): model, runs, proofs
4. [Bounds](#4-bounds) and [fairness](#5-fairness)
6. [What is proved](#6-what-is-proved), and what is only model-checked
7. [Where the code departs from what it says](#7-where-the-code-departs-from-what-it-says)
8. [What is not modelled](#8-what-is-not-modelled)
9. [Plan](#9-plan)

## 1. The system and its parts

The repository is the LLVM monorepo: clang, clang-tools-extra, compiler-rt,
libcxx, libcxxabi, libunwind, lld, lldb, llvm, openmp and polly, 9.3 million
lines.  Most of it transforms data sequentially (front ends, optimisation
passes, code generators, object-file readers).  The parts that coordinate are
small, and everything else is built upon them.

| Component | State it keeps | Operations | Interacts with | What is hard | What makes it correct |
|---|---|---|---|---|---|
| `llvm::ThreadPool` | task queue, count of busy workers, two mutexes, two condition variables | `async`, `wait`, destructor, worker loop | ThinLTO, ParallelCG, llvm-cov: callers on any thread | `wait()` reads the queue under the wrong mutex; notifications outside the lock; shutdown with work queued | every task runs once; `wait()` is a barrier; the destructor drains; no lost wake-up |
| `llvm::LockFileManager` | a symbolic link in the file system, a file per process, what each process read | constructor, `waitForUnlock`, `unsafeRemoveLockFile`, destructor, signal handler | clang's `compileAndLoadModule` in several processes | each system call is a step; owners crash; waiters time out; files are removed by name | one builder, no lock left behind, every import ends and finds its module |
| libc++ `shared_mutex`, `shared_timed_mutex` | write-entered bit and count of readers, two gates | `lock`, `try_lock`, `lock_shared`, the timed forms, unlocks | any C++ program | gate 1 is shared by readers and writers; a timed writer gives up half way; the count has a limit | exclusion, no lost wake-up, writers not starved |
| lldb `GDBRemoteClientBase` | flags and a counter under `m_mutex`, one condition variable, the connection | `SendContinuePacketAndWaitForResponse`, `SendPacketAndWaitForResponse`, `SendAsyncSignal`, `Interrupt` | the gdb-remote stub, and every thread of the debugger | interrupts race with stops, timeouts and the loss of the connection; a ^C may be answered twice | packets reach a stopped process, answers reach their senders, halts halt, the process is resumed |
| libc++ `shared_ptr`, `weak_ptr` counts | two atomic counts per control block | copy, destroy, `weak_ptr::lock` | any C++ program | lock-free; the last reference is released after a plain load | object and block outlive their users and are freed once |
| libc++ `call_once` | a flag's three states, one mutex and one condition variable for all flags | `call_once` | static initialisers, `llvm::call_once` where the standard one is used | functions throw and call `call_once` themselves; one broadcast serves all flags | a function returns once, nobody returns earlier, nobody waits for ever |
| libc++ timed mutexes | a flag or a count and an owner, a condition variable | lock, timed lock, unlock | any C++ program | one notification may meet an expired waiter | exclusion, no lost wake-up (planned) |
| libc++abi guards | the guard object, one mutex and condition variable | acquire, release, abort | compiled code of local statics | as `call_once` | as `call_once` (planned) |
| libc++ `future`/`promise` | shared state with a reference count | set, wait, abandon | any C++ program | abandonment against waiting | one result, seen by every waiter (planned) |
| lld `Parallel.h` | stack of tasks, latch | `add`, `spawn`, `sync`, `parallel_for` | the ELF and COFF linkers | shutdown with tasks left | every spawned task ends before `sync` (planned) |
| lld `ICF` | equivalence classes of sections | segregate, for each colour | the linkers | refinement in parallel reads the other colour | the coarsest stable partition (planned) |
| XRay `BufferQueue` | queue of buffers, `Finalizing` | get, release, finalize | traced threads | finalizing during a get | buffers are handed to one thread at a time (planned) |
| ThreadSanitizer's vector clocks | a clock per thread and per sync variable, with "acquired" flags, dirty entries and the last storing thread; slots of threads and how often each was used | acquire, release, release-store, acquire-release, reset; threads created, started, finished, joined, detached; `AcquireGlobal` | every synchronisation of an instrumented program; the thread registry | an acquire or release may look at a part of a clock only; slots are used again | the same as plain vector clocks do |
| OpenMP queuing locks | head and tail per lock, one link and one flag per thread, owner and depth | acquire, test, release, nested or not | OpenMP programs | lock-free queue; the two ids change together or one by one; one link for all locks of a thread | one owner at a time, in the order of the queue, and who has queued is served |
| sanitizer runtime: mutexes, lock-free stack, quarantine | a word each, or lists | lock, push, pop, recycle | every instrumented thread | ABA, futex wake-ups | exclusion; no element lost (planned in part) |
| OpenMP runtime: the rest | other locks, barrier trees, task queues | many | compiled OpenMP code | large | not planned, but for ticket locks |
| lldb `Broadcaster`/`Listener` | queues of events | broadcast, wait, hijack | all of lldb | events against deadlines | (planned) |
| llvm pass and analysis managers | caches of analysis results | get, invalidate | every pass | stale results | a result in the cache is valid (planned) |
| the front ends, optimisers, code generators, linkers, tools | large data structures | sequential | | | compiler correctness: out of reach |

`PROJECT.json` lists each with its files, and the hazards found while reading,
each at its line with the properties that would notice it.

The modelled components meet in three places.  `GDBRemoteClient` and `SharedMutex`
are two implementations of one discipline, exclusive and shared ownership, and
both are shown to refine `ReadWriteLock`.  `SyncClock` contains the clocks and the
part of the thread registry that decides when a slot is used again, because
what the flags of a clock mean depends on both.  `LockFile` contains both the library
(`LockFileManager`) and the loop of its caller, `compileAndLoadModule`, because
what is promised to the user - an import that ends and finds its module - is a
property of the two together.

## 2. Modules, and how they are built

| Module | Role |
|---|---|
| `TaskService` | what a client of a thread pool may rely on |
| `ThreadPool`, `ThreadPoolProofs` | the pool; implements `TaskService` |
| `ReadWriteLock` | a lock with exclusive and shared ownership |
| `SharedMutex`, `SharedMutexProofs` | the two-gate mutex; implements `ReadWriteLock` |
| `GDBRemoteClient`, `GDBRemoteClientProofs` | the client with stub and connection; implements `ReadWriteLock` |
| `LockFile`, `LockFileProofs` | the lock-file protocol with clang's import loop |
| `SharedObject` | an object with owners, observers and two lifetimes |
| `SharedCount`, `SharedCountProofs` | the reference counts; implements `SharedObject` |
| `CallOnce`, `CallOnceProofs` | `std::call_once` |
| `ClockModel` | plain vector clocks: the "very simple model" in `tsan_clock.cc` |
| `SyncClock`, `SyncClockProofs` | ThreadSanitizer's clocks; implements `ClockModel` |
| `FifoLock` | a lock that hands over in the order of a queue |
| `QueuingLock`, `QueuingLockProofs` | OpenMP's queuing locks; each implements `FifoLock` |

Common conventions.

* A mutex that is visible across steps is the thread that holds it; a critical
  section into which no other thread can look is one step, so that such a mutex
  is no variable.  The order of what is done *outside* a critical section
  (notify after unlock, a check before the lock) is kept as steps of its own.
* A condition variable is the set of threads blocked in it.  `notify_all`
  empties it, `notify_one` removes any one element (and is lost on an empty
  set), a spurious wake-up removes an element for no reason.  A thread that has
  left the set is at the step that takes the mutex and tests its condition
  again.
* `pc` is the step a thread is at; `Goto(t, a, b)` moves it.
* Actions whose names have an underscore (`Pop_Kept`) are seeded faults, kept at
  the top of a module or before the action, and used by no specification: each
  is a plausible slip in the action it is named after, and replacing the one by
  the other breaks the property it is listed with in `PROJECT.json`.
* A run is a module with a `.cfg`; `tlc -config X.cfg M` checks it,
  `tlapm MProofs.tla` checks the proofs.

## 3. Component by component

### 3.1 ThreadPool (`llvm/lib/Support/ThreadPool.cpp`)

*State.* `Tasks`, `EnableFlag`, `ActiveThreads` are the members of that name;
`QueueLock`, `CompletionLock` the holders of the two mutexes,
`QueueCondition`, `CompletionCondition` the blocked threads.  `running[w]` is
the task a worker moved out of the queue.  `submitted` and `finished` record
history.

*Actions.* A worker's loop is `LockQueue`, `Sleep` or `Exit` or `CountActive`,
`PassCompletionLock` (the empty critical section that publishes the count),
`Pop`, `RunTask`, `Retire`, `NotifyCompletion`.  A client has `Async` and
`WakeOne`; `Wait`, `LockCompletion`, `ReadActive`, `ReadTasks`, `BlockInWait`;
and `Destroy`, `WakeAll`, `Join`.  `wait()` evaluates `!ActiveThreads &&
Tasks.empty()` in two steps because it holds the completion mutex only.

*Run `threadpool`.* Two workers, two clients, two tasks, spurious wake-ups.
`TasksConserved`: a task is in one place.  `NoRaceOnTasks`: no worker is about
to pop while `wait()` reads the queue without its mutex - which is why the
worker counts itself active, and passes through the completion mutex, *before*
it pops.  `NoWakeupLost`: though each notification is sent after the unlock, a
thread is blocked only while others that are not will attend to what it waits
for.  `ImplementsService`; and under fairness `EveryTaskFinishes`,
`EveryWaitReturns`, `DestructorReturns`.

*Proofs.* `IInv` adds to the two safety invariants who holds which mutex at
which step (`Mutexes`), who may be blocked (`Blocked`), that `ActiveThreads`
counts the workers between count and retirement (`Counted`), that a worker
holds a task exactly from `Pop` to `Retire` (`Holding`) and what shutdown
implies (`Shutdown`).  `NoSleepForEver` (`NoWakeupLost`) is proved from it, in
three parts.  For `QueueCondition` the argument is one of numbers: while a worker
is blocked, the workers that are awake and the `notify_one()` calls to come are at
least as many as the tasks in the queue.  A notification that finds nobody blocked
leaves nothing to show; one that wakes a worker turns a call to come into a
worker that is awake; a worker that pops takes itself off the one side and a task
off the other; one that blocks has found the queue empty.  That only
finitely many clients are about to notify is proved along with it.  Two further
parts say the same of `wait()` and of the destructor's `notify_all()`.
`PromisesAreKept` proves what `TaskService` promises (nothing is left when the
service is closed, nothing is done twice, a barrier call returns when all is
done) of `TaskService` and carries it over by the refinement.
Assumptions: a finite, non-empty set of workers, and threads that are not both
worker and client.

### 3.2 LockFile (`llvm/lib/Support/LockFileManager.cpp`, `clang/lib/Frontend/CompilerInstance.cpp`)

*State.* `lockFile` is the process the `.lock` link leads to, `unique` the
processes whose unique file exists; a link whose target is gone exists, but
opening it fails (`LockFileExists`).  `Owner` is what each process last read,
`built` whether it built the module and read it back, `module` what is on disk.

*Actions.* One for each system call of the constructor (`ReadLockFile`,
`CheckOwner`, `OwnerIsDead`, `RemoveLockFile`, `CreateUniqueFile`,
`RegisterUniqueFile`, `CreateLink`, `ReleasedMeanwhile`, `ClearUnowned`), of
`waitForUnlock` (`StillLocked` or `WaitOver` is the test of the lock file,
`OwnerLives` or `OwnerDied` the one of its owner, `TimeOut` the end of its last
interval, `FileExists` the test of the module), the destructor (`Unlock`,
`CleanUp`) and of the loop of `compileAndLoadModule` (`Publish`, `CompileFails`,
`ReadAST`, `UnsafeRemoveLockFile`).  `RegisterUniqueFile` has both errors of the
code: on a full disk it removes the unique file, without a host ID it leaves it
behind.  `ReadAST` may fail for any reason; an owner whose read fails releases
its lock all the same, in the destructor.  A process may get a signal it handles
(`Interrupt`: the handler removes its unique file, so that its link dangles) or
one it cannot (`Kill`).

*Runs.* `lockfile`: three processes that may crash and time out at any step.
`NobodyWaitsInVain`: the link leads to a process that is at a step at which it
will remove it, or has crashed (`NoOrphanLock`), and whom a process has read in
the lock file, and may wait for, does not itself wait (`OwnersDoNotWait`).
`NoLeftovers`: a unique file is left only by who crashed or could not get its
host ID.  `ModuleIsThere`: who comes to read the module finds one there, an owner
the one it has built, though the file was tested some steps before.
`EveryImportEnds`.  `lockfile_owner` looks for two owners and finds them (section 7).

*Proofs.* `IInv` adds `UniqueFiles` (the steps at which a process's file
exists) to the three safety properties, which need each other: that an owner
reads what it built rests on its lock being told from the others by its
unique file.  `LocksAreReleased` proves `NobodyWaitsInVain`, `FilesAreRemoved`
`NoLeftovers`, `ImportsSucceed` `ModuleIsThere`.
Exclusion is *not* an invariant of this code and none of the proofs uses it:
what is proved holds in spite of several owners.

### 3.3 SharedMutex (`libcxx/src/shared_mutex.cpp`, `libcxx/include/shared_mutex`)

*State.* The two fields of `__state_`, the sets of threads blocked at the two
gates, the threads that called a timed function and those whose deadline has
passed.

*Actions.* `Lock`, `Enter`, `Drain`, `TryLock`, `Unlock`, `LockShared`,
`PassShared`, `TryLockShared`, `UnlockShared`, the waits at the gates, and for
deadlines `Expire`, `GiveUpAtGate1`, `DrainTimeout`.  `Lock(t)` and
`LockShared(t)` let the caller choose whether it has a deadline.

*Run `sharedmutex`.* Four threads with a count that holds two readers, so that the
limit keeps two readers out at once.  `NoDeadlock`: a writer is blocked by
owners only (`WritersBlockedOnlyByOwners`); a reader is blocked by a shut gate
or is one of those the limit kept out and nobody notified, who are
fewer than the threads a full mutex keeps out (`ReadersBlockedOnlyByTheLimit`); and while somebody is blocked at a shut gate,
another thread is inside or on its way (`SomebodyGoesOn`).
`ImplementsReadWriteLock`; `WriterGoesFirst`: nobody gets in before a writer that
waits for the readers inside; `WriterGetsIn`: it gets in, or gives up.  That
readers kept out by the limit may be forgotten is what the code does (section 7).

*Proofs.* `IInv` adds that `readers` is the number of reading threads
(`ReadersCounted`), that a writer inside leaves no reader (`WritersExclude`) and
where blocked threads are (`Gates`).  `NoWriterForgotten` is the part of
`NoDeadlock` about writers, and the one about readers is a matter of numbers:
those at gate 1 and those inside are different threads, so when the first of a
full mutex leaves, which notifies one, at least `MaxReaders + 1` threads are not
at the gate.  `NoLostWakeup` (`NoDeadlock`) puts the three together, with no
assumption on how many threads there are.  `WritersFirst` is `WriterGoesFirst`.
`Exclusive` is the promise of `ReadWriteLock`, proved of it and carried over.

### 3.4 GDBRemoteClient (`lldb/.../gdb-remote/GDBRemoteClientBase.cpp`)

*State.* `m_async_count`, `m_is_running`, `m_should_stop`, `m_continue_packet`
(the payload, plain `"c"`, or a signal to resume with), the threads in `m_cv`, each
thread's request, and the connection: two queues of packets and a stub.
`asked` and `missed` are history: what was asked of the call that is
interrupted, and whether a read has ended before what it was for had come - the
five seconds of the continue thread with an interrupt under way (`"timeout"`), or
the 100 ms of the extra read in `ShouldStop()`, or no such read (`"reply"`).

*Actions.* The continue thread: `SendContinue`, `Resume` (`ContinueLock::lock`),
`AwaitAsync`, `ResumeCancelled`, `ResumeFailed`, the reads (`ReadOutput`,
`ReadStop`, `ReadLast`, `ReadDisconnected`, `ReadTimeout`), `ShouldStop` and
`StoppedOnItsOwn`, `ReadExtraReply` (with a reply or, at any time, without),
`ContinueUnlock`, `NotifyAll`.  The others:
`Interrupt`, `AwaitStop`, `Interrupted`, `JoinStopped`, `Refused`,
`AcquireAsync`, then `SendPacket`/`ReadReply`, `Halt` or `SendAsyncSignal`, and
`Release`, `Notify`.  `ReadReply` takes what comes next, or after a timeout
disconnects, or, where the exchange that follows a timeout shows that the stub
is in step, gives up the one reply.  The stub takes one packet at a time;
it may answer a ^C twice (`"double"`), and one that finds the process stopped
(`"late"`), as the comment in `ShouldStop()` says stubs do.

*Runs.* `gdbremote`: two threads make each any one of the requests, two
different signals among them, of a stub that answers ^C twice and late, with
reads that time out and a connection that may be lost.  `NobodyForgotten`: who
is blocked on `m_cv` will be notified.  `RequestsTakeEffect`: what the threads
asked of the call they interrupted is what it resumes with, whatever the
interrupted thread writes on its way.  If one of them halted it, it does not
resume; it resumes with the signal of the last that sent one, and with none if
nobody did.  (That the signal of an earlier one is lost, though its caller is
told that it was sent, is what the code does: there is one packet.)
`SharesTheConnection`; `RequestsEnd`; `HaltEndsTheCall`; `ResumesAfterwards`;
and two about the sequence of packets, with the stubs' extra replies: a packet
with a reply finds the process stopped (`PacketsFindItStopped`), and nobody
reads what another waits for (`AnswersMatch`).  These two hold as long as nothing
is `missed`: once a reply comes when nobody reads it, no later read can tell.
`gdbremote_skew` shows that this does happen, without any delay on the side of the
stub, to `InSequence`, the part of `AnswersMatch` without that premise; and
`gdbremote_halt` a halt that cancels the wrong call (section 7).

A timeout has a limit that is no finding: a read's five seconds that end just
after an interrupt make the call return `eStateInvalid`, since the response
with which a fresh interrupt lets the loop go on is empty.  `FailsForAReason`
counts a timeout as a reason.

*Proofs.* `IInv`: `m_async_count` counts the threads inside a `Lock`
(`Counted`), what `m_is_running` says of the continue thread (`Running`), who
may be on `m_cv` (`Waiters`), nobody is inside a `Lock` while the process runs
(`Exclusive`).  These hold whatever the stub does,
and from them follow `NobodyIsForgotten` (`NobodyForgotten`),
`NotifyOneIsEnough` (`OneKindOfWaiter`: the continue thread is never on `m_cv`
together with one that waits for it, so that waking one thread is enough in
`~Lock`), the refinement, and by it `NoIntrusion`, the promise of
`ReadWriteLock`.  `RequestsAreKept` (`RequestsTakeEffect`) needs besides that
something is asked only of a call that stopped to be resumed (`AskedInTime`).

`PacketsAreHeard` (`PacketsFindItStopped`) and `NobodyIsCrossed`
(`AnswersMatch`) hold of every stub, with timeouts and lost connections.  They
rest on a second invariant, `Conversation`, of what is in the two queues, which
holds until something is missed or the connection lost.  To the stub there goes at most
one packet to resume or to answer, and after it ^Cs only (`OneRequest`);
a resume packet means a continue thread that reads and a stopped, silent stub; a
question means a sender that reads (`ToTheStub`).  From it there is an answer
and nothing else while a sender reads; while the continue thread does, output
and then the reply that ends the run, and perhaps one more to a ^C (`Closed`); and
nothing when nobody reads (`FromTheStub`).  What ties the queues to the counter is
`Presses`: as long as a ^C is under way to a process that runs or is
about to, or the reply to it has not been judged by `ShouldStop()`, whoever
pressed it is still counted - so the test of `m_async_count` tells which
stops may be followed by a second reply; and there is one ^C at most, and either
it or the reply to it.  `HungUp` is what remains of a conversation when the
connection is lost: no answer is left to the continue thread, and nothing else
to a sender.  After a timeout (`GaveUp`) the call in the continue thread has
failed, but others may go on to send: their packets come behind the ^C that was
not answered in time (`AllHeard`), and so find the process stopped.  There is such
a ^C because of `SomebodyPressed`: while a thread waits for the process to stop,
a ^C is on its way behind the packet that resumed it, or it has stopped already.

### 3.5 SharedCount (`libcxx/src/memory.cpp`)

*State.* The counts, each one less than what it counts, as in the code; whether
object and block are still there; what each handle is; the registers of `lock()`.

*Actions.* One for each atomic instruction: `CopyShared`, `CopyWeak`,
`ReleaseShared`, `OnZeroShared` (the destructor), `LoadWeakOwners` (the plain
load that spares the last decrement), `DecrementWeakOwners`, `OnZeroSharedWeak`,
`Lock`, `CompareExchange`, `CompareExchangeFails` (spuriously or not),
`LockFails`.

*Run `sharedcount`.* `BlockOutlivesUsers`, `LockFailsOnlyIfExpired`,
`ImplementsSharedObject`, and `NothingLeaks`.

*Proofs.* `IInv`: `sharedOwners + 1` is the number of owners (`SharedCounted`);
`weakOwners + 1` that of observers, releasing threads and, if there is any
owner or the object's destructor runs, one (`WeakCounted`); when the object goes
(`Destruction`); what a thread in `lock()` knows (`Locking`).  Besides the
invariants, `LastReferenceIsAlone` is the comment that justifies the plain load
of `LoadWeakOwners`, `QuietMeansFreed` is absence of leaks as a safety property, and
`Refinement` is the refinement of `SharedObject`.  `LifetimesAreKept` is what that
is worth: what has owners lives, what anybody uses is allocated, and what is
destroyed or freed is so once and for all.

### 3.6 CallOnce (`libcxx/src/mutex.cpp`)

*State.* The flags (0, 1 and `~0ul` as `"unset"`, `"running"`, `"done"`), the
threads in the one condition variable, and each thread's stack of calls: a
function may call `call_once()` of another flag.

*Actions.* `Call` (the test before the lock), `Wait`, `Claim`, `Found`,
`Complete`, `Broadcast`, `Throw`, `Rethrow`, `SpuriousWakeup`.

*Run `callonce`.* `OnlyOneRuns`, `OnceForAll`, `EveryCallReturns`, and `NoDeadlock`: no
wake-up is lost, although the flags share the condition variable and the broadcast
comes after the unlock (`BlockedForAReason`), and calls from within functions do
not wait for each other in a circle (`SomebodyGoesOn`).

*Proofs.* `IInv` adds that nested calls are of ever smaller flags (`Descending`)
- so a thread is in a function once, and a call that ends leaves no function of
that flag behind - and that blocked threads are in `__call_once` (`Waiters`).
`DoneForEver` needs `Announced` besides: a flag is done while its broadcast is
still to come.  `NoLostWakeup` (`NoDeadlock`): of the flags that blocked threads
wait for take the smallest.  If no broadcast is to come, its function is being
run by a thread; were that thread blocked, it would be in a call made from there,
of a smaller flag.  So with any number of flags somebody goes on.

### 3.7 SyncClock (`compiler-rt/lib/tsan/rtl/tsan_clock.cc`, `tsan_rtl_mutex.cc`, `tsan_rtl_thread.cc`)

*State.* A `ThreadClock` and a `SyncClock` are records with the fields of the
classes: times (`clk`, `epoch`), the "acquired" flags (`reused`), the sizes in
use, `last` (`last_acquire_`), the dirty entries as a set, and who stored last.
`sync` has one for each variable and, as `ThreadContext::sync`, one for each
slot, in which a thread's creator leaves its clock for it, and the thread its
own for whoever joins it.  `epoch` is how far each thread has come, `status` and
`reuse_count` are the registry's.

*Actions.* The operations of the two classes are operators (`Acquired`,
`Released`, `Stored`, with the shortcuts `Repeated`, `ReleasedOwn`, `StoredBy`
and `UpdateCurrentThread`).  The runtime's functions are actions of their names:
`Acquire`, `Release`, `ReleaseStore`, `AcquireRelease`, `ResetVar`; `OnCreated`,
`OnStarted`, `OnFinished`, `OnFinishedDetached`, `OnJoined`, `OnDetached`; and in
a specification of its own `AcquireGlobal` with one `UpdateClockCallback` for
each thread it asks.

*Run `syncclock`.* Three slots, each used twice, one variable with room for one
dirty entry, up to eight events.  `NothingNewSince`: whoever has told a clock of
itself since its last acquire has told it all it knows of others, the premise of
the fast release.  `NoClockAhead`: no clock knows a time that has not come,
whatever the slot was used for before.  `NewThreadIsUnknown`: when a thread
starts nobody knows of its times.  `ImplementsClockModel`: each operation does to
the times what that of plain vector clocks does.  `syncclock_global` shows what
`AcquireGlobal` does to `NothingNewSince` (section 7).

*Proofs.* `FlagMeansAcquired` - a flag with the reuse count of the slot's thread
says that the thread has acquired all of the clock but its dirty entries - is
the invariant on which repeated acquires rest, and `NothingNewSince` the one of
fast releases.  `ShortcutsAgree` derives the refinement from them, operation by
operation, for any number of slots, variables and dirty entries; `Implementation`
is the whole behaviour, and `KnowledgeIsKept` what `ClockModel` promises, carried
over: no clock is ahead of its thread, and a thread forgets nothing it knows until
its slot changes hands.  All are about `Spec`, which has no finalizers.

### 3.8 QueuingLock (`openmp/runtime/src/kmp_lock.cpp`)

*State.* `head_id`, `tail_id`, `owner_id`, `depth_locked` of each lock,
`spin_here` and `next_waiting` of each thread, and what a thread has read
(`seen`).  Thread ids are gtid + 1, so that 0 is nobody.  `waiting` is history:
the order in which threads became the tail and were not yet woken.

*Actions.* One for each access to shared memory: `Acquire` (the flag), `ReadHead`,
`Grab`, `Grabbed`, `EnqueueFirst`, `ReadTail`, `Enqueue`, `Link`, `Spin`, `Enter`;
`Release`, `ReleaseHead`, `Free`, `ReleaseTail`, `DequeueLast`, `Dequeue`,
`Unlink`, `Wake`; `Test`; and `AcquireAgain`, `ReleaseNested` of the owner.  A
failed compare-and-store goes back to the top of its loop (`Retry`).

*Run `queuinglock`.* Three threads, two locks, depth two.  `StateTable`: the ids
are in the states of the table in the source, that is, the two ends of the
queue.  `WakeUpsAreInTime`: who is woken waits, for that lock, with its flag set
(`NotPremature`), and while a thread is blocked another can go on, or has a lock to
release (`SomebodyGoesOn`).
`FieldsAreFree`: a thread that is in no queue leaves its link and flag clear.
`ImplementsFifoLock`: one owner at a time, in the order of the queue, and nobody
overtakes it.  `QueuedIsServed`: whoever has joined the queue owns the lock in
the end, if no owner keeps it for ever.  A thread that has *not* joined it may
lose every race, and no property says it does not.

*Proofs.* `IInv` says of each thread what its fields hold (`ThreadInv`), and of
each lock that it is in the hands of one thread (`Hands`), that its ids are the
ends of the queue (`Ends`), that the queue's members are those that wait, once
each (`Members`), that each member knows the next or the next is about to tell
it (`Linked`, `Links`), and what a releasing thread has read (`Releaser`).
Each action's lemma also shows what the step is to `FifoLock`, which `Refinement`
collects.  A step changes one lock (`OneLock`): a thread waits in one queue at a
time, so that one link and one flag are enough for all locks.  `WakeUps` proves
`WakeUpsAreInTime`.  That a hand-over is never left out follows from `Links` and
`Releaser`: a releasing thread that finds no next in the link of the first of the
queue has one behind it who is about to write it.  That threads do not wait for
each other's locks follows from `Descending`, as in `CallOnce`: the smallest lock
that is waited for is in the hands of a thread that waits for none.
`OneAtATime` and `FirstComeFirstServed` are the promises of `FifoLock`: an
owner is alone and does not wait for the lock it has, nobody is in a queue twice,
and the lock is given to who came first.  The asserts about the head that a
releasing thread reads are in the guards of the steps and are not among the
theorems.

## 4. Bounds

| Run | Instance | Distinct states | Why it is enough |
|---|---|---|---|
| `threadpool` | 2 workers, 2 clients, 2 tasks | 7 182 | two of each is what a lost or misdirected `notify_one`, and a pop between the two reads of `wait()`, take; queue of length 2 |
| `lockfile` | 3 processes, crashes, timeouts | 199 466 | owner, one that removes the lock, one that takes it anew |
| `lockfile_owner` | 2 processes, no crash | - | counterexample |
| `sharedmutex` | 4 threads, at most 2 readers | 125 723 | two readers inside and two kept out by the limit; a writer on either side of the gates, another one outside |
| `gdbremote` | 2 interrupting threads, one request each, of every kind, 2 signals; every fault; `MaxReplies` 2, `MaxOutput` 1 | 339 109 | two requests meet in one interruption; the first call stops, resumes or fails and others follow; a late reply behind another |
| `gdbremote_halt` | 2 interrupting threads that halt, no fault | - | counterexample |
| `gdbremote_skew` | 2 interrupting threads that send, late replies | - | counterexample |
| `sharedcount` | 3 threads, 4 handles | 17 630 | one that releases, one that locks, one that copies |
| `callonce` | 3 threads, 2 flags, at most 2 exceptions | 5 694 | a waiter of each flag and a thread that calls one from within the other; a flag is reset twice |
| `syncclock` | 3 slots used twice, 1 variable, 1 dirty entry, `MaxTime` 8 | 659 830 | one that releases, one that acquires, one they both know; the dirty entries overflow; every slot but the main thread's gets a second thread |
| `syncclock_global` | 3 slots | - | counterexample |
| `queuinglock` | 3 threads, 2 locks, depth 2 | 137 717 | an owner and a queue of two; a thread that owns one lock waits for another |

`MaxReplies` (late stop replies in flight), `MaxOutput` (console output in
flight) and `MaxThrows` bound the behaviours themselves, in the guards of the stub's and the exceptions'
actions, as do `MaxTime` (all epochs together) and `MaxReuse` of `SyncClock` and
`MaxDepth` of `QueuingLock`; everything else is finite because the sets of
threads, tasks and handles are.  The proofs hold for all values of all of them.
`CHECK_DEADLOCK FALSE` is said where the system may stop: a destroyed pool,
ended processes, an idle connection, an object that is gone, flags that are done
(in the model a call of a done flag is no step), clocks at the bound, threads
that use no lock any more.

## 5. Fairness

Each `FairSpec` asks of the environment what the operating system gives, and
nothing else: a thread that can take a step of an operation it has begun takes
it in the end (`WF`).  Calls, spurious wake-ups, exceptions, crashes,
disconnections and the debugged process's own stops never have to come, nor
deadlines to pass, with the two exceptions below.

* Strong fairness is used where a mutex is contended for ever: the pool's
  `LockQueue`, `PassCompletionLock`, `Retire`, `LockCompletion` and the client's
  `AcquireAsync`.  It says that a mutex released again and again starves nobody;
  a pthread mutex does not promise it but every scheduler with finite time
  slices delivers it.
* Whoever owns a `SharedMutex` releases it (`Unlock`, `UnlockShared` are among
  the steps that are fair), and the functions of `call_once` end, by throwing a
  bounded number of times or by returning.  Callers owe that.
* `waitForUnlock()` of `LockFile` doubles its interval from one round to the
  next and ends when it has grown to its limit.  The model does not count the
  rounds: `SF` of `TimeOut` says that a process that finds its owner alive again
  and again gives up.  `WF` of the rest would not do, since the loop goes on by
  steps of its own, and the process that was read in the file may live on while the
  lock is by now that of a second owner, who was killed.
* A read of `GDBRemoteClient` is bounded: a sender's that finds nothing ends
  (`ReadReply`, in `WF` of the thread's steps), and so does the continue thread's
  while somebody interrupts it (`ReadTimeout`, in `WF` of `ContinueStep`).  The
  other reads of the continue thread are tried again for ever, and nothing asks
  that they end.
* The stub reads what it is sent and answers, unless it is unplugged.
* A thread that is in a call of a `QueuingLock` goes on with it; nobody has to
  call anything.  `QueuedIsServed` states its own premise, that nobody keeps the
  lock for ever.
* `weak_ptr::lock()` may fail its compare-exchange for ever: it is not fair, and
  no property asks that it end.

## 6. What is proved

`PROJECT.json` lists the theorems; every one holds for all values of the
constants that satisfy the named assumptions of its module.

| Module | Invariants | Action properties | Refinement |
|---|---|---|---|
| `ThreadPoolProofs` | `TypeOK`, `TasksConserved`, `NoRaceOnTasks`, `NoWakeupLost`, `DrainedWhenDestroyed` | `WaitIsABarrier` | `TaskService` |
| `LockFileProofs` | `TypeOK`, `NobodyWaitsInVain`, `NoLeftovers`, `ModuleIsThere` | | |
| `SharedMutexProofs` | `TypeOK`, `OneWriterEntered`, `WritersBlockedOnlyByOwners`, `NoDeadlock` | `WriterGoesFirst` | `ReadWriteLock` |
| `GDBRemoteClientProofs` | `TypeOK`, `OneKindOfWaiter`, `NobodyForgotten`, `RequestsTakeEffect`, `PacketsFindItStopped`, `AnswersMatch` | | `ReadWriteLock` |
| `SharedCountProofs` | `TypeOK`, `ObjectOutlivesOwners`, `BlockOutlivesUsers`, `LastReferenceIsAlone`, `QuietMeansFreed` | `LockFailsOnlyIfExpired` | `SharedObject` |
| `CallOnceProofs` | `TypeOK`, `OnlyOneRuns`, `NoDeadlock` | `OnceForAll` | |
| `SyncClockProofs` | `TypeOK`, `FlagMeansAcquired`, `NothingNewSince`, `NoClockAhead` | `NewThreadIsUnknown` | `ClockModel` |
| `QueuingLockProofs` | `TypeOK`, `StateTable`, `WakeUpsAreInTime`, `FieldsAreFree` | | `FifoLock`, for each lock |

Each module follows one argument: an inductive invariant `IInv`, a conjunction
of named parts; lemmas that the initial states satisfy it and that each action
preserves it; `Invariance == Spec => []IInv`; and the theorems from it.  Where a
property needs more than that (`NoWakeupLost`, `NoDeadlock` of the mutex,
`WakeUpsAreInTime`, `RequestsTakeEffect`, the conversation with the stub) its own strengthening is
proved inductive on top of `IInv`.

Each abstract specification states what it promises (`NothingLeft` and `InOrder` of
`TaskService`, `Exclusion` of `ReadWriteLock`, `Lifetimes` and `ForGood` of
`SharedObject`, `Reached` and `NothingForgotten` of `ClockModel`, `OneOwner` and
`InTurn` of `FifoLock`).  The promises are proved of the abstract specification
alone and carried over by the refinement, so that a refinement says something of
the code that can be read without the abstract module's actions.

Type invariants, some invariants that say little once the rest is there
(`WaitIsABarrier`, `DrainedWhenDestroyed`, `OneWriterEntered`, `OneKindOfWaiter`,
`LastReferenceIsAlone`, `FlagMeansAcquired`), and what follows from others
(`WritersBlockedOnlyByOwners`, the promises of the abstract
specifications) are proved and not among the properties of the runs.

Only model-checked: liveness (`EveryTaskFinishes`, `EveryWaitReturns`,
`DestructorReturns`, `EveryImportEnds`, `WriterGetsIn`,
`RequestsEnd`, `HaltEndsTheCall`, `ResumesAfterwards`, `NothingLeaks`,
`EveryCallReturns`, `QueuedIsServed`), which the proof system does not reach
under fairness.  Every safety property of the runs is proved, and with it the
part of liveness that can be said of a single state: nobody sleeps without
somebody who will wake it (`NoWakeupLost`, `NobodyForgotten`, `WakeUpsAreInTime`),
and the threads do not all wait for each other (`NoDeadlock` twice,
`NobodyWaitsInVain`).  What is left to TLC is that those who can go on do.

## 7. Where the code departs from what it says

* **Two owners of a lock file** (`lockfile_owner`, `OnlyOneOwner`).
  Two processes and no crash are enough.  `LockFileManager.h:24-25` promises that "only a single process can create
  that .lock file".  `readLockFile()` unlinks the name when it cannot read the
  file; another process may have linked its own lock there in between.  The
  module is then built twice, which the other properties show to be harmless:
  imports end and find it.
* **A forgotten reader** (`SharedMutex`; no run).  `unlock_shared()` notifies
  gate 1 only on the step from the limit to one less, and one thread only
  (`shared_mutex.cpp:99-100`); of two readers kept out by the limit one stays
  blocked, though there is room for it, until a writer or another reader at the
  limit leaves.  With the shipped limit it takes 2^31 - 1 readers.
  `ReadersBlockedOnlyByTheLimit` says how far it goes.
* **A halt that ends the next call** (`gdbremote_halt`, `FailsForAReason`).
  `Interrupt()` sets `m_should_stop` without `m_mutex`, on behalf of a call that
  may be over; the next call is cancelled and returns `eStateInvalid`, which is
  reported as a lost connection.  The unit test says "The subsequent continue
  packet should work normally."
* **A skewed packet sequence** (`gdbremote_skew`, `InSequence`).  The extra read
  is there because otherwise, `GDBRemoteClientBase.cpp:245-247`, "the packet
  sequence" would "get skewed".  `ShouldStop()` looks for interrupters and returns
  at once if there are none, but the window in which a ^C can be sent ends only
  when the `ContinueLock` is unlocked.  A thread that comes between the two sends a ^C to a
  process that has stopped on its own, joins the stopped process, sends its
  packet, and reads the stop reply to the ^C as its answer.
* **A fast release that leaves something out** (`syncclock_global`,
  `NothingNewSince`).  A release updates its own entry alone "if we had not
  acquired anything from other threads since the last release on dst"
  (`tsan_clock.cc:177`), which it concludes from the clock having heard of the
  thread since its last acquire.  `AcquireGlobal()`, with which finalizers begin,
  asks running threads for their epochs one after the other: it may learn of an
  epoch of one thread without what that thread had acquired from another by then.
  Stored into a sync variable, that makes the premise false; the thread's next
  release there leaves out what it knows of the other, and a race may be
  reported where there is none.

## 8. What is not modelled

* *Weak memory.*  Atomics are sequentially consistent, and an access without a
  mutex is one atomic step.  Whether the memory orders the code asks for are
  enough is not examined.
* *ThreadPool without threads* (tasks run in `wait()`), tasks that submit tasks,
  and a pool of no workers, which `hardware_concurrency() == 0` gives: such a
  pool never returns from `wait()`.
* *LockFile*: several hosts on one file system, Windows, failing system calls
  other than those that race and those of the constructor that have an error
  path of their own, the lengths of the waits.  `processStillExecuting()` asks
  for the host ID again and takes an owner for alive without it: an ID that is
  had once is taken to be had always.
* *SharedMutex*: `shared_lock` and forwarding members.
* *GDBRemoteClient*: non-stop mode (`SendvContPacket`), responses that
  `ValidateResponse` rejects, the read thread and the acknowledgements of
  `GDBRemoteCommunication`.  The exchange after a timeout
  (`WaitForPacketNoLock`, `qEcho` or `qC`) is modelled by its three outcomes in
  `ReadReply`, not packet by packet: the packets that it reads and discards on
  the way to its own answer are those of a stub with nothing else to say.
* *SharedCount*: moves, swaps, `use_count()`, `atomic_*` on `shared_ptr`.
* *CallOnce*: a function that calls its own flag, or flags that call each other
  in a circle, which wait for ever; the standard forbids it.
* *SyncClock*: the block tables of a clock and their allocator (`Resize` is the
  change of the size); the order of the dirty entries (a set) and of the
  quarantine of dead threads (any order); `RoundUp` of a new thread's first epoch
  to a part of the trace (the next epoch); whether a running thread is detached, which is decided when it
  finishes; `ignore_sync`, the clock of the last sleep, threads without a
  parent, shadow memory and reports.
* *QueuingLock*: locks that are not nestable (the same without the depth), the
  checks of misuse, destruction, consistency dumps.  `Enter` writes depth and
  owner in one step, `Test` reads and changes the head in one, and a test that
  fails is no step.  `Dequeue` contains the last read of its wait and the write
  of the head: nobody changes either in between.  Threads take locks in descending
  order: others can deadlock, as with any lock.
* The components of section 1 marked as planned or not planned.  Those not
  planned are sequential data processing, whose correctness is that of a
  compiler, or code of a size that would only be sampled (the barriers and tasks
  of the OpenMP runtime).

## 9. Plan

Done, in this order, the most used coordination code first: `ThreadPool` with
`TaskService`; `LockFile`; `SharedMutex` with `ReadWriteLock`;
`GDBRemoteClient`, which reuses `ReadWriteLock`; `SharedCount` with
`SharedObject`; `CallOnce`; `SyncClock` with `ClockModel`; `QueuingLock` with
`FifoLock`.

Next, models:

1. `TimedMutex` (`libcxx/src/mutex.cpp:90-187`): `timed_mutex` and
   `recursive_timed_mutex` as implementations of `ReadWriteLock` with exclusive
   ownership only; run: 3 threads, recursion to 2.
2. `BufferQueue` (XRay): 2 threads, 2 buffers, a finalizer.
3. `Executor` (lld `Parallel.h`): `TaskGroup` and `Latch` over the executor, as
   another implementation of `TaskService`.
4. `ICF` (lld): the refinement as a pure algorithm against the coarsest stable
   partition, over all graphs of three or four sections.
5. Ticket locks of the OpenMP runtime, as another implementation of `FifoLock`.
6. Depth in what is there: `SendvContPacket` and the read thread in
   `GDBRemoteClient`; the sequential build of `ThreadPool`.

Then, proofs: that each import of `LockFile` starts again only when a lock was
broken, as a measure that decreases; refinement of `ReadWriteLock` by `TimedMutex`; conservation of buffers in
`BufferQueue`.
