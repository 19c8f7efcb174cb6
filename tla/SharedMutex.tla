----------------------------- MODULE SharedMutex -----------------------------
(***************************************************************************)
(* libc++'s __shared_mutex_base and shared_timed_mutex                      *)
(* (libcxx/src/shared_mutex.cpp, libcxx/include/shared_mutex): a writer     *)
(* first enters, which stops new readers at gate 1, then waits at gate 2    *)
(* for the readers inside to drain.                                         *)
(*                                                                          *)
(* Every member holds __mut_ while it runs, so what it does from taking the *)
(* mutex to releasing it, or to waiting on a condition variable, is one     *)
(* step.  A gate is the set of threads blocked on it; a thread that left it *)
(* takes the mutex and tests its condition again.                           *)
(***************************************************************************)
EXTENDS Naturals, FiniteSets

CONSTANTS Thread,
          MaxReaders  (* __n_readers_, the largest count __state_ can hold   *)

ASSUME ThreadAssumption == IsFiniteSet(Thread)
ASSUME MaxAssumption == MaxReaders \in Nat \ {0}

VARIABLES writeEntered, readers,  (* the two fields of __state_              *)
          gate1, gate2,           (* the threads blocked on each             *)
          timed,                  (* the threads whose call has a deadline   *)
          expired,                (* ... and those past it                   *)
          pc

state == <<writeEntered, readers>>
vars == <<state, gate1, gate2, timed, expired, pc>>

Steps == {"out", "enter", "drain", "write", "enterShared", "read"}

Blocked == gate1 \cup gate2

GateOpenToWriter == ~writeEntered
GateOpenToReader == ~writeEntered /\ readers < MaxReaders

Init == /\ writeEntered = FALSE /\ readers = 0
        /\ gate1 = {} /\ gate2 = {}
        /\ timed = {} /\ expired = {}
        /\ pc = [t \in Thread |-> "out"]

Goto(t, from, to) == pc[t] = from /\ pc' = [pc EXCEPT ![t] = to]

-----------------------------------------------------------------------------
(* Seeded faults: each is a slip of the step it is named after, kept to see  *)
(* that the properties at the end notice it.                                 *)

Drain_Unchecked(t) == /\ Goto(t, "drain", "write") /\ t \notin gate2
                      /\ UNCHANGED <<state, gate1, gate2, timed, expired>>

DrainTimeout_Silent(t) == /\ readers > 0 /\ t \in expired \ gate2
                          /\ Goto(t, "drain", "out")
                          /\ writeEntered' = FALSE
                          /\ UNCHANGED <<readers, gate1, gate2, timed, expired>>

PassShared_Barging(t) ==
  /\ readers < MaxReaders
  /\ Goto(t, "enterShared", "read") /\ t \notin gate1
  /\ readers' = readers + 1
  /\ UNCHANGED <<writeEntered, gate1, gate2, timed, expired>>

UnlockShared_NoGate2(t) ==
  /\ Goto(t, "read", "out")
  /\ readers' = readers - 1
  /\ gate1' = IF readers' = MaxReaders - 1 THEN {} ELSE gate1
  /\ UNCHANGED <<writeEntered, gate2, timed, expired>>

-----------------------------------------------------------------------------
(* lock() and try_lock_until(), which differ in the deadline. *)

Lock(t, deadline) == /\ Goto(t, "out", "enter")
                     /\ timed' = IF deadline THEN timed \cup {t} ELSE timed \ {t}
                     /\ expired' = expired \ {t}
                     /\ UNCHANGED <<state, gate1, gate2>>

WaitAtGate1(t, step, open) == /\ ~open
                              /\ pc[t] = step /\ t \notin gate1 \cup expired
                              /\ gate1' = gate1 \cup {t}
                              /\ UNCHANGED <<state, gate2, timed, expired, pc>>

GiveUpAtGate1(t, step, open) ==
  /\ ~open
  /\ Goto(t, step, "out") /\ t \in expired \ gate1
  /\ UNCHANGED <<state, gate1, gate2, timed, expired>>

(* Past gate 1, the writer is in at once or waits for the readers.  Its      *)
(* first wait at gate 2 is made even by a caller past its deadline.          *)
Enter(t) == /\ GateOpenToWriter /\ t \notin gate1
            /\ writeEntered' = TRUE
            /\ \/ readers = 0 /\ Goto(t, "enter", "write") /\ UNCHANGED gate2
               \/ /\ readers > 0 /\ Goto(t, "enter", "drain")
                  /\ gate2' = gate2 \cup {t}
            /\ UNCHANGED <<readers, gate1, timed, expired>>

Drain(t) == /\ readers = 0
            /\ Goto(t, "drain", "write") /\ t \notin gate2
            /\ UNCHANGED <<state, gate1, gate2, timed, expired>>

WaitAtGate2(t) == /\ readers > 0
                  /\ pc[t] = "drain" /\ t \notin gate2 \cup expired
                  /\ gate2' = gate2 \cup {t}
                  /\ UNCHANGED <<state, gate1, timed, expired, pc>>

(* The writer leaves, and lets in whom it kept out. *)
DrainTimeout(t) == /\ readers > 0 /\ t \in expired \ gate2
                   /\ Goto(t, "drain", "out")
                   /\ writeEntered' = FALSE
                   /\ gate1' = {}
                   /\ UNCHANGED <<readers, gate2, timed, expired>>

TryLock(t) == /\ ~writeEntered /\ readers = 0
              /\ Goto(t, "out", "write")
              /\ writeEntered' = TRUE
              /\ UNCHANGED <<readers, gate1, gate2, timed, expired>>

Unlock(t) == /\ Goto(t, "write", "out")
             /\ writeEntered' = FALSE /\ readers' = 0
             /\ gate1' = {}
             /\ UNCHANGED <<gate2, timed, expired>>

-----------------------------------------------------------------------------
(* lock_shared() and try_lock_shared_until(). *)

LockShared(t, deadline) ==
  /\ Goto(t, "out", "enterShared")
  /\ timed' = IF deadline THEN timed \cup {t} ELSE timed \ {t}
  /\ expired' = expired \ {t}
  /\ UNCHANGED <<state, gate1, gate2>>

PassShared(t) == /\ GateOpenToReader
                 /\ Goto(t, "enterShared", "read") /\ t \notin gate1
                 /\ readers' = readers + 1
                 /\ UNCHANGED <<writeEntered, gate1, gate2, timed, expired>>

TryLockShared(t) == /\ GateOpenToReader
                    /\ Goto(t, "out", "read")
                    /\ readers' = readers + 1
                    /\ UNCHANGED <<writeEntered, gate1, gate2, timed, expired>>

(* notify_one(): one of the threads blocked there, if there is any. *)
OneFewer(gate) == IF gate = {} THEN {{}} ELSE {gate \ {t} : t \in gate}

UnlockShared(t) ==
  /\ Goto(t, "read", "out")
  /\ readers' = readers - 1
  /\ IF writeEntered /\ readers' = 0 THEN gate2' \in OneFewer(gate2)
                                     ELSE UNCHANGED gate2
  /\ IF ~writeEntered /\ readers' = MaxReaders - 1 THEN gate1' \in OneFewer(gate1)
                                                   ELSE UNCHANGED gate1
  /\ UNCHANGED <<writeEntered, timed, expired>>

-----------------------------------------------------------------------------
(* The deadline of a blocked thread passes; a blocked thread wakes for        *)
(* nothing.                                                                   *)

Expire(t) == /\ t \in Blocked \cap timed
             /\ gate1' = gate1 \ {t} /\ gate2' = gate2 \ {t}
             /\ expired' = expired \cup {t}
             /\ UNCHANGED <<state, timed, pc>>

SpuriousWakeup(t) == /\ t \in Blocked
                     /\ gate1' = gate1 \ {t} /\ gate2' = gate2 \ {t}
                     /\ UNCHANGED <<state, timed, expired, pc>>

Acquiring(t) == \/ Enter(t)
                \/ WaitAtGate1(t, "enter", GateOpenToWriter)
                \/ GiveUpAtGate1(t, "enter", GateOpenToWriter)
                \/ Drain(t) \/ WaitAtGate2(t) \/ DrainTimeout(t)

AcquiringShared(t) == \/ PassShared(t)
                      \/ WaitAtGate1(t, "enterShared", GateOpenToReader)
                      \/ GiveUpAtGate1(t, "enterShared", GateOpenToReader)

Progress(t) == Acquiring(t) \/ AcquiringShared(t) \/ Unlock(t) \/ UnlockShared(t)

Call(t) == \/ \E deadline \in BOOLEAN : Lock(t, deadline) \/ LockShared(t, deadline)
           \/ TryLock(t) \/ TryLockShared(t)

Next == \E t \in Thread : Progress(t) \/ Call(t) \/ Expire(t) \/ SpuriousWakeup(t)

Spec == Init /\ [][Next]_vars

(* A thread that can run does, and whoever owns the lock releases it.  No    *)
(* thread has to call anything, to wake for nothing or to have a deadline.   *)
FairSpec == Spec /\ \A t \in Thread : WF_vars(Progress(t))

-----------------------------------------------------------------------------
(* Properties. *)

Writing == {t \in Thread : pc[t] = "write"}
Reading == {t \in Thread : pc[t] = "read"}

TypeOK == /\ writeEntered \in BOOLEAN /\ readers \in 0..MaxReaders
          /\ gate1 \in SUBSET Thread /\ gate2 \in SUBSET Thread
          /\ timed \in SUBSET Thread /\ expired \in SUBSET Thread
          /\ pc \in [Thread -> Steps]

(* The mutex is a lock with exclusive and shared ownership: timeouts between  *)
(* the two gates and the shared counter never let two owners in.              *)
Abstract == INSTANCE ReadWriteLock WITH exclusive <- Writing, shared <- Reading
ImplementsReadWriteLock == Abstract!Spec

(* The flag has one cause: a thread between gate 1 and its unlock.  A timed   *)
(* writer that gave up leaves none behind, which would shut everybody out.    *)
OneWriterEntered ==
  LET entered == {t \in Thread : pc[t] \in {"drain", "write"}}
  IN  IF writeEntered THEN \E t \in Thread : entered = {t} ELSE entered = {}

(* To a writer the limit makes no difference: it is blocked only by a writer  *)
(* that has entered and, once it has entered itself, by the readers inside.  *)
WritersBlockedOnlyByOwners ==
  /\ \A t \in gate1 : pc[t] = "enter" => writeEntered
  /\ gate2 # {} => readers > 0

(* A reader is: of those kept out by the limit one alone is notified, when    *)
(* the first leaves, and the rest stay blocked at a gate that is open.  They *)
(* are kept out by as many as the limit, and one is notified: nobody is      *)
(* blocked there unless that many threads and one more are not.              *)
ReadersBlockedOnlyByTheLimit ==
  gate1 # {} => \/ ~GateOpenToReader
                \/ Cardinality(gate1) + MaxReaders + 1 <= Cardinality(Thread)

(* And the gates do not shut out everybody: while a thread is blocked at one  *)
(* that is shut, another that is not is inside, or on its way in or out.     *)
SomebodyGoesOn ==
  gate2 # {} \/ (gate1 # {} /\ ~GateOpenToReader) =>
    \E t \in Thread \ Blocked : pc[t] # "out"

(* No wake-up is lost but those, however deadlines pass at the two gates.     *)
NoDeadlock == /\ WritersBlockedOnlyByOwners /\ ReadersBlockedOnlyByTheLimit
              /\ SomebodyGoesOn

(* A writer that has entered goes first: nobody gets in while it waits for    *)
(* the readers inside, who can only become fewer.                            *)
WriterGoesFirst ==
  [][\A t \in Thread : pc[t] = "drain" /\ pc'[t] = "drain" =>
        /\ readers' <= readers
        /\ Reading' \subseteq Reading /\ Writing' = {}]_vars

(* A writer that entered comes to the end of its wait for the readers inside. *)
WriterGetsIn == \A t \in Thread : pc[t] = "drain" ~> pc[t] \in {"write", "out"}

=============================================================================
