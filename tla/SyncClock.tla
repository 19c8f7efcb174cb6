------------------------------ MODULE SyncClock ------------------------------
(***************************************************************************)
(* The vector clocks of ThreadSanitizer (compiler-rt/lib/tsan/rtl,          *)
(* tsan_clock.cc) as the runtime uses them: threads come and go in a fixed  *)
(* number of slots, which are used again, and synchronize through the       *)
(* clocks of sync variables (tsan_rtl_mutex.cc, tsan_rtl_thread.cc).        *)
(*                                                                          *)
(* An operation is one step: the clock of a thread is its own, that of a    *)
(* sync variable is changed under the variable's lock (acquire() writes one *)
(* flag under the shared lock, its own thread's), and threads come and go   *)
(* under the registry's.  Only AcquireGlobal() looks at other threads while *)
(* they run.                                                                *)
(***************************************************************************)
EXTENDS Integers, FiniteSets, Functions

CONSTANTS MaxThreads,  (* the number of slots                               *)
          Var,         (* the sync variables                                *)
          kDirtyTids,
          NoTid,       (* kInvalidTid                                       *)
          MaxTime,     (* bound on the epochs, all together                 *)
          MaxReuse     (* bound on reuse_count                              *)

Tid == 0 .. MaxThreads - 1

ASSUME SlotAssumption == MaxThreads \in Nat \ {0} /\ NoTid \notin Tid
ASSUME BoundAssumption == /\ kDirtyTids \in Nat /\ MaxReuse \in Nat
                          /\ MaxTime \in Nat

VARIABLES status,  (* of the thread in each slot: ThreadStatus              *)
          epoch,   (* its fast_state.epoch(); epoch1 when it is not running *)
          reuse_count,  (* how many threads had the slot before it          *)
          clock,   (* its ThreadClock                                       *)
          sync,    (* the SyncClock of each variable, and of each slot for  *)
                   (* its thread's creation and end                         *)
          walker, next  (* the thread in AcquireGlobal(), and where it is   *)

vars == <<status, epoch, reuse_count, clock, sync, walker, next>>

Sync == Var \cup Tid
Zero == [i \in Tid |-> 0]
Larger(m, n) == IF m < n THEN n ELSE m

-----------------------------------------------------------------------------
(* The operations of the two classes, as functions of a ThreadClock c and a  *)
(* SyncClock s: clk and epoch hold the times, reused the "acquired" flags,   *)
(* n and size are the sizes in use, beyond which all is zero.                *)

NewThreadClock(t, reuse) ==
  [tid |-> t, reused |-> reuse + 1, last |-> 0, n |-> t + 1, clk |-> Zero]

NewSyncClock == [size |-> 0, epoch |-> Zero, reused |-> Zero, dirty |-> {},
                 storeTid |-> NoTid, storeReused |-> 0]

SetOwn(c, e) == [c EXCEPT !.clk[c.tid] = e]

SetEntry(c, i, e) ==
  [c EXCEPT !.clk[i] = e, !.n = Larger(@, i + 1),
            !.last = IF i = c.tid THEN e ELSE c.clk[c.tid]]

Repeated(c, s) == s.size > c.tid /\ s.reused[c.tid] = c.reused

IsAlreadyAcquired(c, s) == /\ s.reused[c.tid] = c.reused
                           /\ \A i \in s.dirty : s.epoch[i] <= c.clk[i]

(* Seeded fault: what comes through the dirty entries does not count. *)
Acquired_RepeatForgotten(c, s) ==
  LET Seen == {i \in Tid : i < s.size /\ (Repeated(c, s) => i \in s.dirty)}
      clk  == [i \in Tid |-> IF i \in Seen THEN Larger(c.clk[i], s.epoch[i])
                                           ELSE c.clk[i]]
  IN [c EXCEPT !.clk = clk,
               !.n = IF Repeated(c, s) THEN @ ELSE Larger(@, s.size),
               !.last = IF clk = c.clk \/ Repeated(c, s) THEN @ ELSE clk[c.tid]]

(* acquire() looks at everything, or at the dirty entries if it has acquired *)
(* the clock before.                                                         *)
Acquired(c, s) ==
  LET Seen == {i \in Tid : i < s.size /\ (Repeated(c, s) => i \in s.dirty)}
      clk  == [i \in Tid |-> IF i \in Seen THEN Larger(c.clk[i], s.epoch[i])
                                           ELSE c.clk[i]]
  IN [c EXCEPT !.clk = clk,
               !.n = IF Repeated(c, s) THEN @ ELSE Larger(@, s.size),
               !.last = IF clk = c.clk THEN @ ELSE clk[c.tid]]

MarkAcquired(c, s) ==
  IF s.size > c.tid THEN [s EXCEPT !.reused[c.tid] = c.reused] ELSE s

Resized(s, n) == [s EXCEPT !.size = Larger(@, n)]

(* Seeded fault: the entries are no longer dirty, and the flags stay. *)
UpdateCurrentThread_FlagsKept(c, s) ==
  LET u == [s EXCEPT !.epoch[c.tid] = c.clk[c.tid]]
  IN IF c.tid \in s.dirty THEN u
     ELSE IF Cardinality(s.dirty) < kDirtyTids
     THEN [u EXCEPT !.dirty = @ \cup {c.tid}]
     ELSE [u EXCEPT !.dirty = {}]

UpdateCurrentThread(c, s) ==
  LET u == [s EXCEPT !.epoch[c.tid] = c.clk[c.tid]]
  IN IF c.tid \in s.dirty THEN u
     ELSE IF Cardinality(s.dirty) < kDirtyTids
     THEN [u EXCEPT !.dirty = @ \cup {c.tid}]
     ELSE [u EXCEPT !.reused = Zero, !.dirty = {}]

StoredBy(c, s) == s.storeTid = c.tid /\ s.storeReused = c.reused

Stored(c, old) ==
  LET s == Resized(old, c.n)
  IN IF StoredBy(c, s) /\ s.epoch[c.tid] > c.last
     THEN UpdateCurrentThread(c, s)
     ELSE [size |-> s.size, dirty |-> {},
           epoch |-> [i \in Tid |-> IF i < c.n THEN c.clk[i] ELSE 0],
           reused |-> [Zero EXCEPT ![c.tid] = c.reused],
           storeTid |-> c.tid, storeReused |-> c.reused]

ReleasedAll(c, s) ==
  [size |-> s.size, dirty |-> {},
   epoch |-> [i \in Tid |-> IF i < c.n THEN Larger(s.epoch[i], c.clk[i])
                                       ELSE s.epoch[i]],
   reused |-> IF IsAlreadyAcquired(c, s)
              THEN [Zero EXCEPT ![c.tid] = c.reused] ELSE Zero,
   storeTid |-> NoTid, storeReused |-> 0]

ReleasedOwn(c, s) ==
  LET u == UpdateCurrentThread(c, s)
  IN IF StoredBy(c, s) THEN u ELSE [u EXCEPT !.storeTid = NoTid]

(* release() brings its own entry alone up to date if the thread has not     *)
(* acquired anything since s last heard from it.                             *)
Released(c, old) ==
  LET s == Resized(old, c.n)
  IN IF old.size = 0 THEN Stored(c, old)
     ELSE IF s.epoch[c.tid] > c.last THEN ReleasedOwn(c, s)
     ELSE ReleasedAll(c, s)

-----------------------------------------------------------------------------
(* The runtime.  The main thread has slot 0. *)

Init == /\ status = [t \in Tid |-> IF t = 0 THEN "running" ELSE "unused"]
        /\ epoch = [t \in Tid |-> IF t = 0 THEN 1 ELSE 0]
        /\ reuse_count = Zero
        /\ clock = [t \in Tid |-> SetOwn(NewThreadClock(t, 0), epoch[t])]
        /\ sync = [s \in Sync |-> NewSyncClock]
        /\ walker = NoTid /\ next = 0

Running(t) == status[t] = "running" /\ walker # t
Quiet      == UNCHANGED <<walker, next>>
SameThreads == UNCHANGED <<status, reuse_count, walker, next>>

(* The clock of t with its own entry set to its epoch. *)
Mine(t) == SetOwn(clock[t], epoch'[t])

InBound == FoldFunction(+, 0, epoch) < MaxTime
Tick(t) == epoch' = [epoch EXCEPT ![t] = @ + 1] /\ InBound

(* A memory access. *)
Event(t) == /\ Running(t) /\ Tick(t) /\ SameThreads
            /\ UNCHANGED <<clock, sync>>

Acquire(t, s) ==
  /\ Running(t) /\ UNCHANGED epoch /\ SameThreads
  /\ clock' = [clock EXCEPT ![t] = Acquired(Mine(t), sync[s])]
  /\ sync' = [sync EXCEPT ![s] = MarkAcquired(clock[t], @)]

Release(t, s) ==
  /\ Running(t) /\ Tick(t) /\ SameThreads
  /\ clock' = [clock EXCEPT ![t] = Mine(t)]
  /\ sync' = [sync EXCEPT ![s] = Released(Mine(t), @)]

ReleaseStore(t, s) ==
  /\ Running(t) /\ Tick(t) /\ SameThreads
  /\ clock' = [clock EXCEPT ![t] = Mine(t)]
  /\ sync' = [sync EXCEPT ![s] = Stored(Mine(t), @)]

AcquireRelease(t, s) ==
  /\ Running(t) /\ Tick(t) /\ SameThreads
  /\ clock' = [clock EXCEPT ![t] = Acquired(Mine(t), sync[s])]
  /\ sync' = [sync EXCEPT ![s] = Stored(clock'[t], MarkAcquired(clock[t], @))]

(* The memory of the variable is freed. *)
ResetVar(s) == /\ sync' = [sync EXCEPT ![s] = NewSyncClock]
               /\ UNCHANGED <<epoch, clock>> /\ SameThreads

-----------------------------------------------------------------------------
(* Threads come and go, under the registry's lock. *)

(* A slot to create a thread in: the next one, or one whose thread is dead   *)
(* and out of quarantine.  Slot 0 is not used again.                         *)
Fresh(t)    == status[t] = "unused" /\ \A i \in 0 .. t - 1 : status[i] # "unused"
Reusable(t) == status[t] = "dead" /\ t # 0 /\ reuse_count[t] < MaxReuse

(* The creator hands its clock over; the slot counts its threads. *)
OnCreated(p, t) ==
  /\ Running(p) /\ walker = NoTid /\ Tick(p) /\ Quiet
  /\ \/ Fresh(t) /\ UNCHANGED reuse_count
     \/ Reusable(t) /\ reuse_count' = [reuse_count EXCEPT ![t] = @ + 1]
  /\ status' = [status EXCEPT ![t] = "created"]
  /\ clock' = [clock EXCEPT ![p] = Mine(p)]
  /\ sync' = [sync EXCEPT ![t] = Released(Mine(p), @)]

(* Seeded fault: it goes on where the last thread in the slot ended. *)
OnStarted_SameEpoch(t) ==
  /\ status[t] = "created" /\ walker = NoTid /\ UNCHANGED epoch
  /\ status' = [status EXCEPT ![t] = "running"]
  /\ clock' = [clock EXCEPT ![t] =
       Acquired(SetOwn(NewThreadClock(t, reuse_count[t]), epoch'[t]), sync[t])]
  /\ sync' = [sync EXCEPT ![t] = NewSyncClock]
  /\ UNCHANGED reuse_count /\ Quiet

(* The new thread takes it over, at an epoch nobody has reached in its slot. *)
OnStarted(t) ==
  /\ status[t] = "created" /\ walker = NoTid /\ Tick(t)
  /\ status' = [status EXCEPT ![t] = "running"]
  /\ clock' = [clock EXCEPT ![t] =
       Acquired(SetOwn(NewThreadClock(t, reuse_count[t]), epoch'[t]), sync[t])]
  /\ sync' = [sync EXCEPT ![t] = NewSyncClock]
  /\ UNCHANGED reuse_count /\ Quiet

(* Seeded fault: epoch1 is noted before the increment. *)
OnFinished_EarlyEpoch(t) ==
  /\ Running(t) /\ t # 0 /\ walker = NoTid /\ Quiet
  /\ UNCHANGED <<epoch, reuse_count>>
  /\ status' = [status EXCEPT ![t] = "finished"]
  /\ clock' = [clock EXCEPT ![t] = SetOwn(@, epoch[t] + 1)]
  /\ sync' = [sync EXCEPT ![t] = Released(clock'[t], @)]

OnFinished(t) ==
  /\ Running(t) /\ t # 0 /\ walker = NoTid /\ Tick(t) /\ Quiet
  /\ UNCHANGED reuse_count
  /\ status' = [status EXCEPT ![t] = "finished"]
  /\ clock' = [clock EXCEPT ![t] = Mine(t)]
  /\ sync' = [sync EXCEPT ![t] = Released(Mine(t), @)]

(* A detached thread leaves no clock behind. *)
OnFinishedDetached(t) ==
  /\ Running(t) /\ t # 0 /\ walker = NoTid /\ Quiet
  /\ status' = [status EXCEPT ![t] = "dead"]
  /\ UNCHANGED <<epoch, reuse_count, clock, sync>>

OnJoined(p, t) ==
  /\ Running(p) /\ status[t] = "finished" /\ walker = NoTid /\ Quiet
  /\ UNCHANGED <<epoch, reuse_count>>
  /\ status' = [status EXCEPT ![t] = "dead"]
  /\ clock' = [clock EXCEPT ![p] = Acquired(Mine(p), sync[t])]
  /\ sync' = [sync EXCEPT ![t] = NewSyncClock]

(* A thread detached before it starts does so without what its creator knew. *)
(* Of one that runs it has no effect on the clocks, and is the choice        *)
(* between the two ends above.                                               *)
OnDetached(t) ==
  /\ status[t] \in {"created", "finished"} /\ walker = NoTid /\ Quiet
  /\ status' = IF status[t] = "finished" THEN [status EXCEPT ![t] = "dead"] ELSE status
  /\ sync' = [sync EXCEPT ![t] = NewSyncClock]
  /\ UNCHANGED <<epoch, reuse_count, clock>>

Next == \/ \E t \in Tid : \/ Event(t) \/ OnStarted(t) \/ OnFinished(t)
                          \/ OnFinishedDetached(t) \/ OnDetached(t)
        \/ \E t \in Tid, s \in Var : \/ Acquire(t, s) \/ Release(t, s)
                                     \/ ReleaseStore(t, s)
                                     \/ AcquireRelease(t, s)
        \/ \E p, t \in Tid : OnCreated(p, t) \/ OnJoined(p, t)
        \/ \E s \in Var : ResetVar(s)

Spec == Init /\ [][Next]_vars

(* Finalizers of Go and Java begin with AcquireGlobal(), which asks one      *)
(* thread after the other how far it has come.  The threads in this          *)
(* specification do not end.                                                 *)
AcquireGlobal(t) ==
  /\ Running(t) /\ walker = NoTid
  /\ walker' = t /\ next' = 0
  /\ UNCHANGED <<status, epoch, reuse_count, clock, sync>>

UpdateClockCallback ==
  /\ walker # NoTid
  /\ LET More == next + 1 \in Tid /\ status[next + 1] # "unused"
     IN /\ next' = IF More THEN next + 1 ELSE 0
        /\ walker' = IF More THEN walker ELSE NoTid
  /\ clock' = [clock EXCEPT ![walker] = SetEntry(@, next, epoch[next])]
  /\ UNCHANGED <<status, epoch, reuse_count, sync>>

FinalizerNext ==
  \/ UpdateClockCallback
  \/ \E t \in Tid : AcquireGlobal(t) \/ Event(t) \/ OnStarted(t)
  \/ \E t \in Tid, s \in Var : Acquire(t, s) \/ Release(t, s) \/ ReleaseStore(t, s)
  \/ \E p, t \in Tid : OnCreated(p, t)

FinalizerSpec == Init /\ [][FinalizerNext]_vars

-----------------------------------------------------------------------------
ThreadClocks == [tid : Tid, reused : Nat, last : Nat, n : Nat,
                 clk : [Tid -> Nat]]
SyncClocks == [size : Nat, epoch : [Tid -> Nat], reused : [Tid -> Nat],
               dirty : SUBSET Tid, storeTid : Tid \cup {NoTid},
               storeReused : Nat]

TypeOK == /\ status \in [Tid -> {"unused", "created", "running", "finished",
                                 "dead"}]
          /\ epoch \in [Tid -> Nat] /\ reuse_count \in [Tid -> Nat]
          /\ clock \in [Tid -> ThreadClocks]
          /\ \A t \in Tid : clock[t].tid = t
          /\ sync \in [Sync -> SyncClocks]
          /\ walker \in Tid \cup {NoTid} /\ next \in Tid

(* "if acquried == thr->reused_, then the respective thread has already      *)
(* acquired this clock (except possibly dirty_tids_)".                       *)
FlagMeansAcquired ==
  \A t \in Tid, s \in Sync :
    Running(t) /\ Repeated(clock[t], sync[s]) =>
      \A i \in Tid \ sync[s].dirty : sync[s].epoch[i] <= clock[t].clk[i]

(* A clock that has heard of a thread since the thread's last acquire knows  *)
(* all that the thread knows of others, so that release() may update one     *)
(* entry.                                                                    *)
NothingNewSince ==
  \A t \in Tid, s \in Sync :
    Running(t) /\ sync[s].epoch[t] > clock[t].last =>
      \A i \in Tid \ {t} : clock[t].clk[i] <= sync[s].epoch[i]

(* Nobody knows of a time that a thread has not reached: DCHECK_GE in set(), *)
(* and why a thread in a slot used before is not taken for the one there     *)
(* before it (OnStarted()).                                                  *)
NoClockAhead ==
  \A i \in Tid :
    /\ \A t \in Tid : clock[t].clk[i] <= epoch[i]
    /\ \A s \in Sync : sync[s].epoch[i] <= epoch[i]

(* No thread knows anything of a thread that starts, whoever had the slot    *)
(* before it, but the times of that one.                                     *)
NewThreadIsUnknown ==
  [][\A t \in Tid : status[t] = "created" /\ status'[t] = "running" =>
       /\ \A u \in Tid \ {t} : clock[u].clk[t] < epoch'[t]
       /\ \A s \in Sync : sync[s].epoch[t] < epoch'[t]]_vars

(* The clocks are those of the simple model, and each operation does what it *)
(* does there, whatever the shortcuts.                                       *)
Model == INSTANCE ClockModel WITH now <- epoch,
           vc <- [t \in Tid |-> clock[t].clk],
           sc <- [s \in Sync |-> sync[s].epoch]

OperationsAgree ==
  /\ \A t \in Tid, s \in Var :
       /\ Acquire(t, s) => Model!Acquire(t, s)
       /\ Release(t, s) => Model!Release(t, s)
       /\ ReleaseStore(t, s) => Model!ReleaseStore(t, s)
       /\ AcquireRelease(t, s) => Model!AcquireRelease(t, s)
  /\ \A s \in Var : ResetVar(s) => Model!Reset(s)
  /\ \A p, t \in Tid : /\ OnCreated(p, t) => Model!Release(p, t)
                       /\ OnJoined(p, t) => Model!AcquireReset(p, t)
  /\ \A t \in Tid : /\ OnStarted(t) => Model!Begin(t, t)
                    /\ OnFinished(t) => Model!Release(t, t)
                    /\ OnDetached(t) => Model!Reset(t)

ImplementsClockModel == Model!Init /\ [][OperationsAgree]_vars
=============================================================================
