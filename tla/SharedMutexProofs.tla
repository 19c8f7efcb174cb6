-------------------------- MODULE SharedMutexProofs --------------------------
(***************************************************************************)
(* Proofs about SharedMutex for any finite set of threads and any limit on  *)
(* the number of readers.                                                   *)
(***************************************************************************)
EXTENDS SharedMutex, FiniteSetTheorems, TLAPS

-----------------------------------------------------------------------------
(* The inductive invariant: what the two fields of __state_ count, and which *)
(* threads can be blocked at which gate.                                     *)

ReadersCounted == readers = Cardinality(Reading)

WritersExclude == Writing # {} => readers = 0

Gates == /\ \A t \in gate1 : pc[t] \in {"enter", "enterShared"}
         /\ \A t \in gate2 : pc[t] = "drain"

IInv == /\ TypeOK /\ OneWriterEntered /\ ReadersCounted /\ WritersExclude
        /\ Gates

(* The readers are finitely many and as many as the counter says. *)
LEMMA ReadingFinite == IsFiniteSet(Reading)
BY ThreadAssumption, FS_Subset DEF Reading

(* A thread that takes shared ownership adds one reader. *)
LEMMA OneMoreReader ==
  ASSUME TypeOK, ReadersCounted, NEW t \in Thread, pc[t] # "read",
         pc' = [pc EXCEPT ![t] = "read"], readers' = readers + 1
  PROVE  ReadersCounted'
<1>1. t \notin Reading /\ Reading' = Reading \cup {t}
  BY DEF Reading, TypeOK
<1>2. Cardinality(Reading') = Cardinality(Reading) + 1
  BY <1>1, ReadingFinite, FS_AddElement
<1> QED
  BY <1>2 DEF ReadersCounted

(* A thread that gives it up removes one, and there was one. *)
LEMMA OneFewerReader ==
  ASSUME TypeOK, ReadersCounted, NEW t \in Thread, pc[t] = "read",
         pc' = [pc EXCEPT ![t] = "out"], readers' = readers - 1
  PROVE  ReadersCounted' /\ readers > 0
<1>1. t \in Reading /\ Reading' = Reading \ {t}
  BY DEF Reading, TypeOK
<1>2. Cardinality(Reading') = Cardinality(Reading) - 1
  BY <1>1, ReadingFinite, FS_RemoveElement
<1>3. Cardinality(Reading) # 0
  BY <1>1, ReadingFinite, FS_EmptySet
<1> QED
  BY <1>2, <1>3 DEF ReadersCounted, TypeOK

(* Any other step of a thread leaves the readers as they are. *)
LEMMA SameReaders ==
  ASSUME TypeOK, ReadersCounted, NEW t \in Thread, NEW to, to # "read",
         pc[t] # "read", pc' = [pc EXCEPT ![t] = to], readers' = readers
  PROVE  ReadersCounted'
<1>1. Reading' = Reading
  BY DEF Reading, TypeOK
<1> QED
  BY <1>1 DEF ReadersCounted

(* No reader is inside while the count is 0. *)
LEMMA NoReader == TypeOK /\ ReadersCounted /\ readers = 0 => Reading = {}
BY ReadingFinite, FS_EmptySet DEF ReadersCounted

(* The invariant is preserved, member by member. *)
LEMMA Step == IInv /\ [Next]_vars => IInv'
<1> SUFFICES ASSUME IInv, [Next]_vars PROVE IInv'
  OBVIOUS
<1> USE MaxAssumption DEF IInv, Gates, WritersExclude, Writing, Goto, Steps,
     state, Blocked, GateOpenToWriter, GateOpenToReader
<1>1. ASSUME NEW t \in Thread, NEW deadline \in BOOLEAN, Lock(t, deadline)
      PROVE  IInv'
  <2>1. ReadersCounted'
    BY <1>1, SameReaders DEF Lock
  <2>2. TypeOK'
    BY <1>1 DEF Lock, TypeOK
  <2>3. OneWriterEntered'
    BY <1>1 DEF Lock, TypeOK, OneWriterEntered
  <2>4. WritersExclude'
    BY <1>1 DEF Lock, TypeOK, OneWriterEntered
  <2>5. Gates'
    BY <1>1 DEF Lock, TypeOK
  <2> QED
    BY <2>1, <2>2, <2>3, <2>4, <2>5
<1>2. ASSUME NEW t \in Thread, NEW open \in BOOLEAN, NEW step \in {"enter",
   "enterShared"},
             WaitAtGate1(t, step, open)
      PROVE  IInv'
  <2>1. ReadersCounted'
    BY <1>2 DEF WaitAtGate1, ReadersCounted, Reading, TypeOK
  <2>2. TypeOK'
    BY <1>2 DEF WaitAtGate1, TypeOK
  <2>3. OneWriterEntered'
    BY <1>2 DEF WaitAtGate1, TypeOK, OneWriterEntered
  <2>4. WritersExclude'
    BY <1>2 DEF WaitAtGate1, TypeOK, OneWriterEntered
  <2>5. Gates'
    BY <1>2 DEF WaitAtGate1, TypeOK
  <2> QED
    BY <2>1, <2>2, <2>3, <2>4, <2>5
<1>3. ASSUME NEW t \in Thread, NEW open \in BOOLEAN, NEW step \in {"enter",
   "enterShared"},
             GiveUpAtGate1(t, step, open)
      PROVE  IInv'
  <2>1. ReadersCounted'
    BY <1>3, SameReaders DEF GiveUpAtGate1
  <2>2. TypeOK'
    BY <1>3 DEF GiveUpAtGate1, TypeOK
  <2>3. OneWriterEntered'
    BY <1>3 DEF GiveUpAtGate1, TypeOK, OneWriterEntered
  <2>4. WritersExclude'
    BY <1>3 DEF GiveUpAtGate1, TypeOK, OneWriterEntered
  <2>5. Gates'
    BY <1>3 DEF GiveUpAtGate1, TypeOK
  <2> QED
    BY <2>1, <2>2, <2>3, <2>4, <2>5
<1>4. ASSUME NEW t \in Thread, Enter(t)
      PROVE  IInv'
  <2>1. ReadersCounted'
    BY <1>4, SameReaders DEF Enter
  <2>2. TypeOK'
    BY <1>4 DEF Enter, TypeOK
  <2>3. OneWriterEntered'
    BY <1>4 DEF Enter, TypeOK, OneWriterEntered
  <2>4. WritersExclude'
    BY <1>4 DEF Enter, TypeOK, OneWriterEntered
  <2>5. Gates'
    BY <1>4 DEF Enter, TypeOK
  <2> QED
    BY <2>1, <2>2, <2>3, <2>4, <2>5
<1>5. ASSUME NEW t \in Thread, Drain(t)
      PROVE  IInv'
  <2>1. ReadersCounted'
    BY <1>5, SameReaders DEF Drain
  <2>2. TypeOK'
    BY <1>5 DEF Drain, TypeOK
  <2>3. OneWriterEntered'
    BY <1>5 DEF Drain, TypeOK, OneWriterEntered
  <2>4. WritersExclude'
    BY <1>5 DEF Drain, TypeOK, OneWriterEntered
  <2>5. Gates'
    BY <1>5 DEF Drain, TypeOK
  <2> QED
    BY <2>1, <2>2, <2>3, <2>4, <2>5
<1>6. ASSUME NEW t \in Thread, WaitAtGate2(t)
      PROVE  IInv'
  <2>1. ReadersCounted'
    BY <1>6 DEF WaitAtGate2, ReadersCounted, Reading, TypeOK
  <2>2. TypeOK'
    BY <1>6 DEF WaitAtGate2, TypeOK
  <2>3. OneWriterEntered'
    BY <1>6 DEF WaitAtGate2, TypeOK, OneWriterEntered
  <2>4. WritersExclude'
    BY <1>6 DEF WaitAtGate2, TypeOK, OneWriterEntered
  <2>5. Gates'
    BY <1>6 DEF WaitAtGate2, TypeOK
  <2> QED
    BY <2>1, <2>2, <2>3, <2>4, <2>5
<1>7. ASSUME NEW t \in Thread, DrainTimeout(t)
      PROVE  IInv'
  <2>1. ReadersCounted'
    BY <1>7, SameReaders DEF DrainTimeout
  <2>2. TypeOK'
    BY <1>7 DEF DrainTimeout, TypeOK
  <2>3. OneWriterEntered'
    BY <1>7 DEF DrainTimeout, TypeOK, OneWriterEntered
  <2>4. WritersExclude'
    BY <1>7 DEF DrainTimeout, TypeOK, OneWriterEntered
  <2>5. Gates'
    BY <1>7 DEF DrainTimeout, TypeOK
  <2> QED
    BY <2>1, <2>2, <2>3, <2>4, <2>5
<1>8. ASSUME NEW t \in Thread, TryLock(t)
      PROVE  IInv'
  <2>1. ReadersCounted'
    BY <1>8, SameReaders DEF TryLock
  <2>2. TypeOK'
    BY <1>8 DEF TryLock, TypeOK
  <2>3. OneWriterEntered'
    BY <1>8 DEF TryLock, TypeOK, OneWriterEntered
  <2>4. WritersExclude'
    BY <1>8 DEF TryLock, TypeOK, OneWriterEntered
  <2>5. Gates'
    BY <1>8 DEF TryLock, TypeOK
  <2> QED
    BY <2>1, <2>2, <2>3, <2>4, <2>5
<1>9. ASSUME NEW t \in Thread, Unlock(t)
      PROVE  IInv'
  <2>1. ReadersCounted'
    BY <1>9, SameReaders DEF Unlock
  <2>2. TypeOK'
    BY <1>9 DEF Unlock, TypeOK
  <2>3. OneWriterEntered'
    BY <1>9 DEF Unlock, TypeOK, OneWriterEntered
  <2>4. WritersExclude'
    BY <1>9 DEF Unlock, TypeOK, OneWriterEntered
  <2>5. Gates'
    BY <1>9 DEF Unlock, TypeOK
  <2> QED
    BY <2>1, <2>2, <2>3, <2>4, <2>5
<1>10. ASSUME NEW t \in Thread, NEW deadline \in BOOLEAN, LockShared(t,
   deadline)
      PROVE  IInv'
  <2>1. ReadersCounted'
    BY <1>10, SameReaders DEF LockShared
  <2>2. TypeOK'
    BY <1>10 DEF LockShared, TypeOK
  <2>3. OneWriterEntered'
    BY <1>10 DEF LockShared, TypeOK, OneWriterEntered
  <2>4. WritersExclude'
    BY <1>10 DEF LockShared, TypeOK, OneWriterEntered
  <2>5. Gates'
    BY <1>10 DEF LockShared, TypeOK
  <2> QED
    BY <2>1, <2>2, <2>3, <2>4, <2>5
<1>11. ASSUME NEW t \in Thread, PassShared(t)
      PROVE  IInv'
  <2>1. ReadersCounted'
    BY <1>11, OneMoreReader DEF PassShared
  <2>2. TypeOK'
    BY <1>11 DEF PassShared, TypeOK
  <2>3. OneWriterEntered'
    BY <1>11 DEF PassShared, TypeOK, OneWriterEntered
  <2>4. WritersExclude'
    BY <1>11 DEF PassShared, TypeOK, OneWriterEntered
  <2>5. Gates'
    BY <1>11 DEF PassShared, TypeOK
  <2> QED
    BY <2>1, <2>2, <2>3, <2>4, <2>5
<1>12. ASSUME NEW t \in Thread, TryLockShared(t)
      PROVE  IInv'
  <2>1. ReadersCounted'
    BY <1>12, OneMoreReader DEF TryLockShared
  <2>2. TypeOK'
    BY <1>12 DEF TryLockShared, TypeOK
  <2>3. OneWriterEntered'
    BY <1>12 DEF TryLockShared, TypeOK, OneWriterEntered
  <2>4. WritersExclude'
    BY <1>12 DEF TryLockShared, TypeOK, OneWriterEntered
  <2>5. Gates'
    BY <1>12 DEF TryLockShared, TypeOK
  <2> QED
    BY <2>1, <2>2, <2>3, <2>4, <2>5
<1>13. ASSUME NEW t \in Thread, UnlockShared(t)
      PROVE  IInv'
  <2>1. ReadersCounted' /\ readers > 0
    BY <1>13, OneFewerReader DEF UnlockShared
  <2>2. readers' \in 0..MaxReaders
    BY <1>13, <2>1 DEF UnlockShared, TypeOK
  <2>3. TypeOK'
    BY <1>13, <2>2 DEF UnlockShared, TypeOK, OneFewer
  <2>4. OneWriterEntered'
    BY <1>13 DEF UnlockShared, TypeOK, OneWriterEntered
  <2>5. Writing = {} /\ Writing' = {}
    BY <1>13, <2>1 DEF UnlockShared, TypeOK
  <2>6. WritersExclude'
    BY <2>5
  <2>7. Gates'
    BY <1>13 DEF UnlockShared, TypeOK, OneFewer
  <2> QED
    BY <2>1, <2>3, <2>4, <2>6, <2>7
<1>14. ASSUME NEW t \in Thread, Expire(t)
      PROVE  IInv'
  <2>1. ReadersCounted'
    BY <1>14 DEF Expire, ReadersCounted, Reading, TypeOK
  <2>2. TypeOK'
    BY <1>14 DEF Expire, TypeOK
  <2>3. OneWriterEntered'
    BY <1>14 DEF Expire, TypeOK, OneWriterEntered
  <2>4. WritersExclude'
    BY <1>14 DEF Expire, TypeOK, OneWriterEntered
  <2>5. Gates'
    BY <1>14 DEF Expire, TypeOK
  <2> QED
    BY <2>1, <2>2, <2>3, <2>4, <2>5
<1>15. ASSUME NEW t \in Thread, SpuriousWakeup(t)
      PROVE  IInv'
  <2>1. ReadersCounted'
    BY <1>15 DEF SpuriousWakeup, ReadersCounted, Reading, TypeOK
  <2>2. TypeOK'
    BY <1>15 DEF SpuriousWakeup, TypeOK
  <2>3. OneWriterEntered'
    BY <1>15 DEF SpuriousWakeup, TypeOK, OneWriterEntered
  <2>4. WritersExclude'
    BY <1>15 DEF SpuriousWakeup, TypeOK, OneWriterEntered
  <2>5. Gates'
    BY <1>15 DEF SpuriousWakeup, TypeOK
  <2> QED
    BY <2>1, <2>2, <2>3, <2>4, <2>5
<1>16. ASSUME UNCHANGED vars PROVE IInv'
  BY <1>16 DEF vars, TypeOK, OneWriterEntered, ReadersCounted, Reading
<1> QED
  BY <1>1, <1>2, <1>3, <1>4, <1>5, <1>6, <1>7, <1>8,
     <1>9, <1>10, <1>11, <1>12, <1>13, <1>14, <1>15, <1>16
     DEF Next, Progress, Call, Acquiring, AcquiringShared

(* Every reachable state satisfies the invariant. *)
THEOREM Invariance == Spec => []IInv
<1>1. Init => IInv
  <2> SUFFICES ASSUME Init PROVE IInv
    OBVIOUS
  <2>1. Reading = {} /\ Writing = {}
    BY DEF Init, Reading, Writing
  <2>2. ReadersCounted
    BY <2>1, FS_EmptySet DEF Init, ReadersCounted
  <2>3. TypeOK
    <3>1. readers \in 0..MaxReaders
      BY MaxAssumption DEF Init
    <3>2. pc \in [Thread -> Steps]
      BY DEF Init, Steps
    <3> QED
      BY <3>1, <3>2 DEF Init, TypeOK
  <2>4. OneWriterEntered
    BY DEF Init, OneWriterEntered
  <2> QED
    BY <2>1, <2>2, <2>3, <2>4 DEF Init, IInv, WritersExclude, Gates
<1> QED
  BY <1>1, Step, PTL DEF Spec

(* Type correctness; in particular the count never wraps. *)
THEOREM TypeCorrect == Spec => []TypeOK
BY Invariance, PTL DEF IInv

(* The flag is set exactly while one thread is on its way in or inside. *)
THEOREM OneWriter == Spec => []OneWriterEntered
BY Invariance, PTL DEF IInv

-----------------------------------------------------------------------------
(* Lost wake-ups. *)

(* A writer is blocked only by owners, and by a writer in front of it.       *)
THEOREM NoWriterForgotten == Spec => []WritersBlockedOnlyByOwners
<1>1. Init => WritersBlockedOnlyByOwners
  BY DEF Init, WritersBlockedOnlyByOwners
<1>2. ASSUME IInv, WritersBlockedOnlyByOwners, [Next]_vars
      PROVE  WritersBlockedOnlyByOwners'
  <2> USE <1>2 DEF IInv, TypeOK, Steps, WritersBlockedOnlyByOwners, Goto, state
  <2>1. ASSUME NEW t \in Thread,
               \/ \E deadline \in BOOLEAN :
                     Lock(t, deadline) \/ LockShared(t, deadline)
               \/ TryLock(t) \/ TryLockShared(t) \/ PassShared(t)
               \/ GiveUpAtGate1(t, "enter", GateOpenToWriter)
               \/ GiveUpAtGate1(t, "enterShared", GateOpenToReader)
        PROVE  WritersBlockedOnlyByOwners'
    BY <2>1, MaxAssumption DEF Lock, LockShared, TryLock, TryLockShared,
       PassShared, GiveUpAtGate1, GateOpenToReader, Gates
  <2>2. ASSUME NEW t \in Thread,
               \/ WaitAtGate1(t, "enter", GateOpenToWriter)
               \/ WaitAtGate1(t, "enterShared", GateOpenToReader)
               \/ WaitAtGate2(t) \/ Expire(t) \/ SpuriousWakeup(t)
        PROVE  WritersBlockedOnlyByOwners'
    BY <2>2 DEF WaitAtGate1, WaitAtGate2, GateOpenToWriter, Expire,
       SpuriousWakeup
  <2>3. ASSUME NEW t \in Thread, Enter(t) \/ Drain(t) \/ DrainTimeout(t)
        PROVE  WritersBlockedOnlyByOwners'
    BY <2>3 DEF Enter, Drain, DrainTimeout, Gates
  <2>4. ASSUME NEW t \in Thread, Unlock(t) PROVE WritersBlockedOnlyByOwners'
    BY <2>4 DEF Unlock, Gates, OneWriterEntered
  <2>5. ASSUME NEW t \in Thread, UnlockShared(t)
        PROVE  WritersBlockedOnlyByOwners'
    <3>1. readers' = readers - 1 /\ readers > 0 /\ writeEntered' = writeEntered
      BY <2>5, OneFewerReader DEF UnlockShared
    <3>2. gate1' \subseteq gate1 /\ gate2' \subseteq gate2
      BY <2>5 DEF UnlockShared, OneFewer
    <3>3. ASSUME readers' = 0 PROVE gate2' = {}
      <4>1. ASSUME NEW u \in gate2 PROVE writeEntered /\ gate2 = {u}
        BY <4>1 DEF Gates, OneWriterEntered
      <4> QED
        BY <2>5, <3>3, <4>1 DEF UnlockShared, OneFewer
    <3>4. \A u \in gate1 : pc'[u] = pc[u]
      BY <2>5 DEF UnlockShared, Gates
    <3> QED
      BY <3>1, <3>2, <3>3, <3>4, MaxAssumption
  <2>6. CASE UNCHANGED vars
    BY <2>6 DEF vars
  <2> QED
    BY <2>1, <2>2, <2>3, <2>4, <2>5, <2>6
       DEF Next, Progress, Call, Acquiring, AcquiringShared
<1> QED
  BY <1>1, <1>2, Invariance, PTL DEF Spec

(* The threads at gate 1 and the readers inside are different threads.       *)
LEMMA BlockedAndReading ==
  ASSUME IInv
  PROVE  /\ IsFiniteSet(gate1) /\ Cardinality(gate1) \in Nat
         /\ Cardinality(Thread) \in Nat
         /\ Cardinality(gate1) + readers <= Cardinality(Thread)
<1>1. gate1 \cap Reading = {} /\ gate1 \cup Reading \subseteq Thread
  BY DEF IInv, Gates, Reading, TypeOK
<1>2. IsFiniteSet(gate1) /\ IsFiniteSet(gate1 \cup Reading)
  BY <1>1, ThreadAssumption, FS_Subset
<1>3. /\ Cardinality(gate1) \in Nat /\ Cardinality(Reading) \in Nat
      /\ Cardinality(Thread) \in Nat /\ Cardinality(gate1 \cap Reading) = 0
  BY <1>1, <1>2, ReadingFinite, ThreadAssumption, FS_CardinalityType, FS_EmptySet
<1>4. Cardinality(gate1 \cup Reading) =
        Cardinality(gate1) + Cardinality(Reading) - Cardinality(gate1 \cap Reading)
  BY <1>2, ReadingFinite, FS_Union
<1>5. Cardinality(gate1 \cup Reading) <= Cardinality(Thread)
  BY <1>1, ThreadAssumption, FS_Subset
<1> QED
  BY <1>2, <1>3, <1>4, <1>5 DEF IInv, ReadersCounted

(* Fewer threads at a gate that was open: the bound stays true.              *)
LEMMA FewerAtGate1 ==
  ASSUME IInv, ReadersBlockedOnlyByTheLimit, gate1' \subseteq gate1,
         GateOpenToReader
  PROVE  ReadersBlockedOnlyByTheLimit'
<1>1. Cardinality(gate1') <= Cardinality(gate1) /\ Cardinality(gate1') \in Nat
  BY BlockedAndReading, FS_Subset, FS_CardinalityType
<1> QED
  BY <1>1, BlockedAndReading, MaxAssumption DEF ReadersBlockedOnlyByTheLimit

(* A reader that leaves a full mutex wakes one of those kept out (line 100); *)
(* the others are no more than the threads left over by the limit.           *)
LEMMA LimitLeft ==
  ASSUME IInv, ReadersBlockedOnlyByTheLimit, NEW t \in Thread, UnlockShared(t)
  PROVE  ReadersBlockedOnlyByTheLimit'
<1> USE DEF IInv, TypeOK
<1>1. /\ readers > 0 /\ readers' = readers - 1
      /\ writeEntered' = writeEntered /\ gate1' \subseteq gate1
  BY OneFewerReader DEF UnlockShared, Goto, OneFewer
<1>2. CASE writeEntered
  BY <1>1, <1>2 DEF ReadersBlockedOnlyByTheLimit, GateOpenToReader
<1>3. CASE ~writeEntered /\ readers < MaxReaders
  BY <1>1, <1>3, FewerAtGate1 DEF GateOpenToReader
<1>4. CASE ~writeEntered /\ readers = MaxReaders
  <2>1. SUFFICES ASSUME gate1' # {}
                 PROVE  Cardinality(gate1') + MaxReaders + 1 <= Cardinality(Thread)
    BY DEF ReadersBlockedOnlyByTheLimit
  <2>2. PICK u \in gate1 : gate1' = gate1 \ {u}
    BY <1>1, <1>4, <2>1, MaxAssumption DEF UnlockShared, OneFewer
  <2>3. Cardinality(gate1') = Cardinality(gate1) - 1
    BY <2>2, BlockedAndReading, FS_RemoveElement
  <2> QED
    BY <1>4, <2>3, BlockedAndReading, MaxAssumption
<1> QED
  BY <1>2, <1>3, <1>4, MaxAssumption

(* So it is of all steps (unlock(), try_lock_until() past its deadline and    *)
(* unlock_shared() against the waits of the others).                         *)
LEMMA LimitedReaders == Spec => []ReadersBlockedOnlyByTheLimit
<1>1. Init => ReadersBlockedOnlyByTheLimit
  BY DEF Init, ReadersBlockedOnlyByTheLimit
<1>2. ASSUME IInv, ReadersBlockedOnlyByTheLimit, [Next]_vars
      PROVE  ReadersBlockedOnlyByTheLimit'
  <2> USE <1>2 DEF IInv, TypeOK, Goto, state
  <2>1. ASSUME NEW t \in Thread,
               \/ WaitAtGate1(t, "enter", GateOpenToWriter)
               \/ WaitAtGate1(t, "enterShared", GateOpenToReader)
        PROVE  ReadersBlockedOnlyByTheLimit'
    BY <2>1 DEF WaitAtGate1, GateOpenToWriter, GateOpenToReader,
                ReadersBlockedOnlyByTheLimit
  <2>2. ASSUME NEW t \in Thread,
               Enter(t) \/ TryLock(t) \/ Unlock(t) \/ DrainTimeout(t)
        PROVE  ReadersBlockedOnlyByTheLimit'
    BY <2>2 DEF Enter, TryLock, Unlock, DrainTimeout, GateOpenToReader,
                ReadersBlockedOnlyByTheLimit
  <2>3. ASSUME NEW t \in Thread, UnlockShared(t)
        PROVE  ReadersBlockedOnlyByTheLimit'
    BY <2>3, LimitLeft
  <2>4. ASSUME NEW t \in Thread, PassShared(t) \/ TryLockShared(t)
        PROVE  ReadersBlockedOnlyByTheLimit'
    BY <2>4, FewerAtGate1 DEF PassShared, TryLockShared
  <2>5. ASSUME NEW t \in Thread,
               \/ \E deadline \in BOOLEAN :
                     Lock(t, deadline) \/ LockShared(t, deadline)
               \/ GiveUpAtGate1(t, "enter", GateOpenToWriter)
               \/ GiveUpAtGate1(t, "enterShared", GateOpenToReader)
               \/ Drain(t) \/ WaitAtGate2(t)
        PROVE  ReadersBlockedOnlyByTheLimit'
    BY <2>5 DEF Lock, LockShared, GiveUpAtGate1, Drain, WaitAtGate2,
                GateOpenToReader, ReadersBlockedOnlyByTheLimit
  <2>6. ASSUME NEW t \in Thread, Expire(t) \/ SpuriousWakeup(t)
        PROVE  ReadersBlockedOnlyByTheLimit'
    <3>1. gate1' \subseteq gate1 /\ UNCHANGED state
      BY <2>6 DEF Expire, SpuriousWakeup
    <3> QED
      BY <3>1, FewerAtGate1 DEF GateOpenToReader, ReadersBlockedOnlyByTheLimit
  <2>7. CASE UNCHANGED vars
    BY <2>7 DEF vars, GateOpenToReader, ReadersBlockedOnlyByTheLimit
  <2> QED
    BY <2>1, <2>2, <2>3, <2>4, <2>5, <2>6, <2>7
       DEF Next, Progress, Call, Acquiring, AcquiringShared
<1> QED
  BY <1>1, <1>2, Invariance, PTL DEF Spec

(* A reader inside is not blocked, and there is one if the count says so.    *)
LEMMA ReaderInside ==
  ASSUME IInv, readers > 0
  PROVE  \E t \in Thread \ Blocked : pc[t] = "read"
<1>1. Reading # {}
  BY FS_EmptySet DEF IInv, ReadersCounted
<1> QED
  BY <1>1 DEF IInv, Gates, Reading, Blocked

(* However many threads there are and however many the count can hold: only   *)
(* readers kept out by the limit are ever left at an open gate, no more than  *)
(* the limit leaves over; and the threads at the shut gates never wait for    *)
(* each other alone.                                                         *)
THEOREM NoLostWakeup == Spec => []NoDeadlock
<1>1. IInv /\ WritersBlockedOnlyByOwners => SomebodyGoesOn
  <2> SUFFICES ASSUME IInv, WritersBlockedOnlyByOwners,
                      gate2 # {} \/ (gate1 # {} /\ ~GateOpenToReader)
               PROVE  \E t \in Thread \ Blocked : pc[t] # "out"
    BY DEF SomebodyGoesOn
  <2>1. CASE readers > 0
    BY <2>1, ReaderInside
  <2>2. CASE readers = 0
    <3>1. gate2 = {} /\ writeEntered
      BY <2>2, MaxAssumption DEF WritersBlockedOnlyByOwners, GateOpenToReader
    <3> QED
      BY <3>1 DEF IInv, OneWriterEntered, Gates, Blocked
  <2> QED
    BY <2>1, <2>2 DEF IInv, TypeOK
<1> QED
  BY <1>1, Invariance, LimitedReaders, NoWriterForgotten, PTL DEF NoDeadlock

(* Nobody overtakes a writer that has entered. *)
THEOREM WritersFirst == Spec => WriterGoesFirst
<1> DEFINE First == \A t \in Thread : pc[t] = "drain" /\ pc'[t] = "drain" =>
                      /\ readers' <= readers
                      /\ Reading' \subseteq Reading /\ Writing' = {}
<1>1. ASSUME IInv, IInv', [Next]_vars PROVE First
  <2> SUFFICES ASSUME NEW t \in Thread, pc[t] = "drain", pc'[t] = "drain"
               PROVE  /\ readers' <= readers
                      /\ Reading' \subseteq Reading /\ Writing' = {}
    OBVIOUS
  <2> USE <1>1 DEF Goto, state
  <2>1. writeEntered /\ \A u \in Thread : pc'[u] # "write"
    BY DEF IInv, OneWriterEntered
  <2>2. ASSUME NEW u \in Thread, pc'[u] = "read" PROVE pc[u] = "read"
    BY <2>1, <2>2 DEF Next, Progress, Call, Acquiring, AcquiringShared, vars,
       Lock, LockShared, TryLock, TryLockShared, PassShared, GiveUpAtGate1,
       WaitAtGate1, WaitAtGate2, Enter, Drain, DrainTimeout, Unlock, UnlockShared,
       Expire, SpuriousWakeup, GateOpenToReader, IInv, TypeOK
  <2>3. Reading' \subseteq Reading
    BY <2>2 DEF Reading
  <2>4. readers' <= readers
    BY <2>3, ReadingFinite, FS_Subset, FS_CardinalityType
       DEF IInv, ReadersCounted
  <2> QED
    BY <2>1, <2>3, <2>4 DEF Writing
<1>2. IInv /\ IInv' /\ [Next]_vars => [First]_vars
  BY <1>1
<1> QED
  BY <1>2, Invariance, PTL DEF Spec, WriterGoesFirst

-----------------------------------------------------------------------------
(* The mutex implements a lock with exclusive and shared ownership. *)
THEOREM Refinement == Spec => ImplementsReadWriteLock
<1> USE DEF Writing, Reading
<1>1. Init => Abstract!Init
  BY DEF Init, Abstract!Init
<1>2. ASSUME IInv, [Next]_vars PROVE [Abstract!Next]_Abstract!vars
  <2> USE <1>2 DEF IInv, TypeOK, Goto, Abstract!Next, Abstract!vars
  <2>1. ASSUME NEW t \in Thread, Drain(t) PROVE Abstract!Next
    <3>1. Reading = {}
      BY <2>1, NoReader DEF Drain
    <3>2. Abstract!Acquire(t)
      BY <2>1, <3>1 DEF Drain, OneWriterEntered, Abstract!Acquire
    <3> QED
      BY <3>2
  <2>2. ASSUME NEW t \in Thread, Enter(t) \/ TryLock(t), readers = 0
        PROVE  Abstract!Next
    <3>1. Reading = {}
      BY <2>2, NoReader
    <3>2. Abstract!Acquire(t)
      BY <2>2, <3>1 DEF Enter, TryLock, OneWriterEntered, GateOpenToWriter,
                        Abstract!Acquire
    <3> QED
      BY <3>2
  <2>3. ASSUME NEW t \in Thread, PassShared(t) \/ TryLockShared(t)
        PROVE  Abstract!Next
    <3>1. Abstract!AcquireShared(t)
      BY <2>3 DEF PassShared, TryLockShared, OneWriterEntered,
                  GateOpenToReader, Abstract!AcquireShared
    <3> QED
      BY <3>1
  <2>4. ASSUME NEW t \in Thread, Unlock(t) PROVE Abstract!Next
    <3>1. Abstract!Release(t)
      BY <2>4 DEF Unlock, OneWriterEntered, Abstract!Release
    <3> QED
      BY <3>1
  <2>5. ASSUME NEW t \in Thread, UnlockShared(t) PROVE Abstract!Next
    <3>1. Abstract!ReleaseShared(t)
      BY <2>5 DEF UnlockShared, Abstract!ReleaseShared
    <3> QED
      BY <3>1
  <2>6. ASSUME NEW t \in Thread,
               \/ \E deadline \in BOOLEAN :
                     Lock(t, deadline) \/ LockShared(t, deadline)
               \/ \E step \in {"enter", "enterShared"}, open \in BOOLEAN :
                     WaitAtGate1(t, step, open) \/ GiveUpAtGate1(t, step, open)
               \/ Enter(t) /\ readers > 0
               \/ WaitAtGate2(t) \/ DrainTimeout(t)
               \/ Expire(t) \/ SpuriousWakeup(t)
        PROVE  UNCHANGED <<Writing, Reading>>
    BY <2>6 DEF Lock, LockShared, WaitAtGate1, GiveUpAtGate1, Enter,
                WaitAtGate2, DrainTimeout, Expire, SpuriousWakeup
  <2>7. CASE UNCHANGED vars
    BY <2>7 DEF vars
  <2>8. \A t \in Thread : TryLock(t) => readers = 0
    BY DEF TryLock
  <2>9. GateOpenToWriter \in BOOLEAN /\ GateOpenToReader \in BOOLEAN
    BY DEF GateOpenToWriter, GateOpenToReader
  <2> QED
    BY <2>1, <2>2, <2>3, <2>4, <2>5, <2>6, <2>7, <2>8, <2>9, MaxAssumption
       DEF Next, Progress, Call, Acquiring, AcquiringShared
<1> QED
  BY <1>1, <1>2, Invariance, PTL DEF Spec, ImplementsReadWriteLock,
     Abstract!Spec

(* What the refinement is worth: an exclusive owner of the mutex is its only  *)
(* owner, since ReadWriteLock keeps that promise.                            *)
THEOREM Exclusive == Spec => []Abstract!Exclusion
<1>1. Abstract!Init => Abstract!Exclusion
  BY DEF Abstract!Init, Abstract!Exclusion
<1>2. Abstract!Exclusion /\ [Abstract!Next]_Abstract!vars => Abstract!Exclusion'
  BY DEF Abstract!Exclusion, Abstract!Next, Abstract!vars, Abstract!Acquire,
     Abstract!AcquireShared, Abstract!Release, Abstract!ReleaseShared
<1> QED
  BY <1>1, <1>2, Refinement, PTL DEF ImplementsReadWriteLock, Abstract!Spec

=============================================================================
