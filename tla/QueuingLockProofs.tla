-------------------------- MODULE QueuingLockProofs --------------------------
(***************************************************************************)
(* Proofs about QueuingLock for any threads, any locks and any depth.       *)
(***************************************************************************)
EXTENDS QueuingLock, WellFoundedInduction, TLAPS

-----------------------------------------------------------------------------
(* The inductive invariant. *)

Queued(t)    == pc[t] = "link" \/ (pc[t] = "spin" /\ spin_here[t])
Waking(t, l) == lck[t] = l /\ pc[t] \in {"unlink", "wake"}
Hand(t, l)   == Owns(t, l) \/ (lck[t] = l /\ pc[t] \in Releasing)

Enqueuing == {"acquire", "grab", "enqueueFirst", "readTail", "enqueue"}

(* What a thread's own fields hold. *)
ThreadInv(t) ==
  /\ lck[t] = None <=> pc[t] = "user"
  /\ spin_here[t] => pc[t] \in Enqueuing \cup {"grabbed", "link", "spin"}
  /\ pc[t] \in Enqueuing \cup {"grabbed", "link"} => spin_here[t]
  /\ ~Queued(t) => next_waiting[t] = None
  /\ lck[t] \in Lock => owner_id[lck[t]] # t
  /\ pc[t] = "enqueue" => seen[t] \in Thread

(* The queue of a lock: its length, its members, and the first of them that  *)
(* is not being woken.                                                       *)
N(l)     == Len(waiting[l])
At(l, i) == waiting[l][i]
First(l) == IF \E t \in Thread : Waking(t, l) THEN 2 ELSE 1

(* The lock is in the hands of one thread at most. *)
Hands(l) == /\ \A t, u \in Thread : Hand(t, l) /\ Hand(u, l) => t = u
            /\ head_id[l] = None <=> \A t \in Thread : ~Hand(t, l)

(* The ids are the two ends. *)
Ends(l) == /\ First(l) <= N(l) + 1
           /\ IF N(l) < First(l)
              THEN head_id[l] \in {None, Held} /\ tail_id[l] = None
              ELSE head_id[l] = At(l, First(l)) /\ tail_id[l] = At(l, N(l))

(* The members are those that wait, once each. *)
Members(l) ==
  /\ \A i \in 1 .. N(l) : Queued(At(l, i)) /\ lck[At(l, i)] = l
  /\ \A i, j \in 1 .. N(l) : At(l, i) = At(l, j) => i = j
  /\ \A t \in Thread : Queued(t) /\ lck[t] = l => \E i \in 1 .. N(l) : At(l, i) = t

(* Each knows the next one, or the next one is about to tell it. *)
Linked(l, i) ==
  IF pc[At(l, i + 1)] = "link"
  THEN seen[At(l, i + 1)] = At(l, i) /\ next_waiting[At(l, i)] = None
  ELSE next_waiting[At(l, i)] = At(l, i + 1)

Links(l) ==
  /\ \A i \in 1 .. N(l) : i <= First(l) => pc[At(l, i)] = "spin"
  /\ \A i \in 1 .. N(l) : First(l) <= i /\ i < N(l) => Linked(l, i)
  /\ First(l) <= N(l) => next_waiting[At(l, N(l))] = None

(* What a thread that releases the lock has read of it. *)
Releaser(t, l) ==
  /\ pc[t] \in {"releaseTail", "dequeueLast", "dequeue"} =>
       seen[t] \in Thread /\ head_id[l] = seen[t]
  /\ pc[t] = "dequeue" => tail_id[l] # seen[t]
  /\ pc[t] \in {"unlink", "wake"} => seen[t] = At(l, 1)
  /\ pc[t] = "wake" => next_waiting[At(l, 1)] = None

LockInv(l) == /\ Hands(l) /\ Ends(l) /\ Members(l) /\ Links(l)
              /\ \A t \in Thread : lck[t] = l => Releaser(t, l)

IInv == /\ TypeOK
        /\ \A t \in Thread : ThreadInv(t)
        /\ \A l \in Lock : LockInv(l)

-----------------------------------------------------------------------------
LEMMA Ids == /\ None # Held /\ None \notin Lock /\ None \notin Thread
             /\ Held \notin Thread
BY ThreadAssumption, LockAssumption DEF None, Held

(* Queues as sequences of threads. *)
LEMMA Queues ==
  ASSUME TypeOK, NEW l \in Lock
  PROVE  N(l) \in Nat /\ \A i \in 1 .. N(l) : At(l, i) \in Thread
BY DEF TypeOK, N, At

LEMMA FirstIs ==
  ASSUME NEW l
  PROVE  /\ First(l) \in {1, 2}
         /\ First(l) = 2 <=> \E t \in Thread : Waking(t, l)
BY DEF First

(* A step that leaves a lock and the threads that use it alone. *)
Same(t) == /\ pc'[t] = pc[t] /\ lck'[t] = lck[t] /\ seen'[t] = seen[t]
           /\ spin_here'[t] = spin_here[t] /\ next_waiting'[t] = next_waiting[t]

SameLock(l) == /\ head_id'[l] = head_id[l] /\ tail_id'[l] = tail_id[l]
               /\ owner_id'[l] = owner_id[l] /\ waiting'[l] = waiting[l]

LEMMA OtherLock ==
  ASSUME TypeOK, TypeOK', NEW l \in Lock, LockInv(l), SameLock(l),
         \A t \in Thread : lck[t] = l \/ lck'[t] = l => Same(t)
  PROVE  /\ LockInv(l)'
         /\ \A t \in Thread : Owns(t, l)' <=> Owns(t, l)
<1>1. N(l)' = N(l) /\ \A i : At(l, i)' = At(l, i)
  BY DEF SameLock, N, At
<1>2. \A t \in Thread : /\ Owns(t, l)' <=> Owns(t, l)
                        /\ Hand(t, l)' <=> Hand(t, l)
                        /\ Waking(t, l)' <=> Waking(t, l)
  BY DEF SameLock, Same, Owns, Hand, Waking
<1>3. First(l)' = First(l)
  BY <1>2 DEF First
<1>4. \A i \in 1 .. N(l) : /\ At(l, i) \in Thread /\ lck[At(l, i)] = l
                           /\ Same(At(l, i))
  BY Queues DEF LockInv, Members
<1>5. Hands(l)'
  BY <1>2 DEF LockInv, Hands, SameLock
<1>6. Ends(l)'
  BY <1>1, <1>3 DEF LockInv, Ends, SameLock
<1>7. Members(l)'
  <2>1. \A t \in Thread : lck[t] = l \/ lck'[t] = l =>
          /\ Queued(t)' <=> Queued(t)
          /\ lck'[t] = lck[t]
    BY DEF Same, Queued
  <2> QED
    BY <1>1, <1>4, <2>1 DEF LockInv, Members
<1>8. Links(l)'
  <2>1. \A i \in 1 .. N(l) : /\ pc'[At(l, i)] = pc[At(l, i)]
                             /\ seen'[At(l, i)] = seen[At(l, i)]
                             /\ next_waiting'[At(l, i)] = next_waiting[At(l, i)]
    BY <1>4 DEF Same
  <2>2. \A i \in 1 .. N(l) : First(l) <= i /\ i < N(l) => Linked(l, i)'
    <3> SUFFICES ASSUME NEW i \in 1 .. N(l), First(l) <= i, i < N(l)
                 PROVE  Linked(l, i)'
      OBVIOUS
    <3>1. i + 1 \in 1 .. N(l) /\ Linked(l, i)
      BY Queues DEF LockInv, Links
    <3> QED
      BY <1>1, <2>1, <3>1 DEF Linked
  <2>3. First(l) <= N(l) => N(l) \in 1 .. N(l)
    BY Queues, FirstIs
  <2> QED
    BY <1>1, <1>3, <2>1, <2>2, <2>3 DEF LockInv, Links
<1>9. \A t \in Thread : lck'[t] = l => Releaser(t, l)'
  <2> SUFFICES ASSUME NEW t \in Thread, lck'[t] = l
               PROVE  Releaser(t, l)'
    OBVIOUS
  <2>1. Same(t) /\ Releaser(t, l)
    BY DEF LockInv, Same
  <2>2. pc[t] = "wake" => 1 \in 1 .. N(l)
    <3>1. pc[t] = "wake" => First(l) = 2
      BY <2>1, FirstIs DEF Waking, Same
    <3> QED
      BY <3>1, Queues DEF LockInv, Ends
  <2>3. pc[t] = "wake" => next_waiting'[At(l, 1)] = next_waiting[At(l, 1)]
    BY <1>4, <2>2 DEF Same
  <2> QED
    BY <1>1, <2>1, <2>3 DEF Releaser, Same, SameLock
<1> QED
  BY <1>2, <1>5, <1>6, <1>7, <1>8, <1>9 DEF LockInv

(* A step of a thread that is not in the queue and leaves the queue alone. *)
QueueInv(l) == Ends(l) /\ Members(l) /\ Links(l)

LEMMA Aside ==
  ASSUME TypeOK, TypeOK', NEW l \in Lock, QueueInv(l), NEW t \in Thread,
         ~Queued(t), ~Queued(t)', Waking(t, l)' <=> Waking(t, l),
         \A u \in Thread \ {t} : Same(u),
         tail_id'[l] = tail_id[l], waiting'[l] = waiting[l],
         \/ head_id'[l] = head_id[l]
         \/ N(l) < First(l) /\ head_id'[l] \in {None, Held}
  PROVE  QueueInv(l)'
<1>1. N(l)' = N(l) /\ \A i : At(l, i)' = At(l, i)
  BY DEF N, At
<1>2. \A u \in Thread : Waking(u, l)' <=> Waking(u, l)
  BY DEF Same, Waking
<1>3. First(l)' = First(l)
  BY <1>2 DEF First
<1>4. \A i \in 1 .. N(l) : /\ At(l, i) \in Thread /\ Queued(At(l, i))
                           /\ lck[At(l, i)] = l /\ Same(At(l, i))
  BY Queues DEF QueueInv, Members
<1>5. Ends(l)'
  BY <1>1, <1>3 DEF QueueInv, Ends
<1>6. Members(l)'
  <2>1. \A u \in Thread : /\ Queued(u)' <=> Queued(u)
                          /\ Queued(u) => lck'[u] = lck[u]
    BY DEF Same, Queued
  <2> QED
    BY <1>1, <1>4, <2>1 DEF QueueInv, Members
<1>7. Links(l)'
  <2>1. \A i \in 1 .. N(l) : /\ pc'[At(l, i)] = pc[At(l, i)]
                             /\ seen'[At(l, i)] = seen[At(l, i)]
                             /\ next_waiting'[At(l, i)] = next_waiting[At(l, i)]
    BY <1>4 DEF Same
  <2>2. \A i \in 1 .. N(l) : First(l) <= i /\ i < N(l) => Linked(l, i)'
    <3> SUFFICES ASSUME NEW i \in 1 .. N(l), First(l) <= i, i < N(l)
                 PROVE  Linked(l, i)'
      OBVIOUS
    <3>1. i + 1 \in 1 .. N(l) /\ Linked(l, i)
      BY Queues DEF QueueInv, Links
    <3> QED
      BY <1>1, <2>1, <3>1 DEF Linked
  <2>3. First(l) <= N(l) => N(l) \in 1 .. N(l)
    BY Queues, FirstIs
  <2> QED
    BY <1>1, <1>3, <2>1, <2>2, <2>3 DEF QueueInv, Links
<1> QED
  BY <1>5, <1>6, <1>7 DEF QueueInv

(* What one of several threads does to the hands: nothing, if it is one of   *)
(* them before and after, or neither.                                        *)
LEMMA SameHands ==
  ASSUME NEW l \in Lock, Hands(l), NEW t \in Thread,
         \A u \in Thread \ {t} : Hand(u, l)' <=> Hand(u, l),
         Hand(t, l)' <=> Hand(t, l), head_id'[l] = None <=> head_id[l] = None
  PROVE  Hands(l)'
BY DEF Hands

LEMMA Take ==
  ASSUME NEW l \in Lock, Hands(l), NEW t \in Thread, head_id[l] = None,
         \A u \in Thread \ {t} : Hand(u, l)' <=> Hand(u, l),
         Hand(t, l)', head_id'[l] # None
  PROVE  Hands(l)'
BY DEF Hands

(* A lock that nobody has has no queue. *)
LEMMA Nobody ==
  ASSUME TypeOK, NEW l \in Lock, LockInv(l),
         \A t \in Thread : ~Waking(t, l),
         head_id[l] \in {None, Held}
  PROVE  First(l) = 1 /\ N(l) = 0 /\ waiting[l] = <<>>
<1>1. First(l) = 1
  BY FirstIs
<1>2. ~ (First(l) <= N(l))
  <2> SUFFICES ASSUME First(l) <= N(l) PROVE FALSE
    OBVIOUS
  <2>1. head_id[l] = At(l, 1) /\ 1 \in 1 .. N(l)
    BY <1>1, Queues DEF LockInv, Ends
  <2> QED
    BY <2>1, Queues, Ids
<1> QED
  BY <1>1, <1>2, Queues DEF N, TypeOK

(* While one thread that is not waking another has the lock, none is.        *)
LEMMA NotWaking ==
  ASSUME NEW l \in Lock, Hands(l), NEW t \in Thread, Hand(t, l), ~Waking(t, l)
  PROVE  First(l) = 1 /\ \A u \in Thread : ~Waking(u, l)
BY DEF Hands, Hand, Waking, First, Releasing

-----------------------------------------------------------------------------
(* What a step may look like to FifoLock. *)
Owner(l) == {t \in Thread : Owns(t, l)}

FifoStep(l) ==
  \/ Owner(l)' = Owner(l) /\ waiting'[l] = waiting[l]
  \/ \E t \in Thread : \/ /\ Owner(l) = {} /\ waiting[l] = <<>>
                          /\ Owner(l)' = {t} /\ waiting'[l] = waiting[l]
                       \/ /\ t \notin Owner(l) /\ \A i \in 1 .. N(l) : At(l, i) # t
                          /\ Owner(l)' = Owner(l)
                          /\ waiting'[l] = Append(waiting[l], t)
                       \/ /\ Owner(l) = {t} /\ Owner(l)' = {}
                          /\ waiting'[l] = waiting[l]
                       \/ /\ Owner(l) = {} /\ waiting[l] # <<>> /\ t = Head(waiting[l])
                          /\ Owner(l)' = {t} /\ waiting'[l] = Tail(waiting[l])

Kept == IInv' /\ \A l \in Lock : FifoStep(l)

(* The step of a thread within a call changes one lock. *)
LEMMA OneLock ==
  ASSUME IInv, TypeOK', NEW l \in Lock, NEW t \in Thread,
         lck[t] \in {l, None}, lck'[t] \in {l, None},
         \A u \in Thread \ {t} : lck'[u] = lck[u] /\ (lck[u] # l => Same(u)),
         \A k \in Lock \ {l} : SameLock(k),
         \A u \in Thread : ThreadInv(u)', LockInv(l)', FifoStep(l)
  PROVE  Kept
<1>1. ASSUME NEW k \in Lock \ {l}
      PROVE  LockInv(k)' /\ FifoStep(k)
  <2>1. \A u \in Thread : lck[u] = k \/ lck'[u] = k => Same(u)
    BY Ids
  <2>2. LockInv(k)' /\ \A u \in Thread : Owns(u, k)' <=> Owns(u, k)
    BY <2>1, OtherLock DEF IInv
  <2>3. Owner(k)' = Owner(k)
    BY <2>2 DEF Owner
  <2> QED
    BY <2>2, <2>3 DEF FifoStep, SameLock
<1> QED
  BY <1>1 DEF Kept, IInv

LEMMA OtherThread ==
  ASSUME NEW u \in Thread, ThreadInv(u), Same(u),
         lck[u] \in Lock => owner_id'[lck[u]] # u
  PROVE  ThreadInv(u)'
BY DEF ThreadInv, Same, Queued

(* Most steps leave the queue and the hands as they are. *)
LEMMA Quietly ==
  ASSUME IInv, TypeOK', NEW l \in Lock, NEW t \in Thread,
         lck[t] \in {l, None}, lck'[t] \in {l, None},
         \A u \in Thread \ {t} : Same(u),
         UNCHANGED <<head_id, tail_id, waiting>>,
         \A k \in Lock \ {l} : owner_id'[k] = owner_id[k],
         owner_id'[l] \in {owner_id[l], t, None},
         ~Queued(t), ~Queued(t)', ~Waking(t, l), ~Waking(t, l)',
         \A u \in Thread : Hand(u, l)' <=> Hand(u, l),
         ThreadInv(t)', lck'[t] = l => Releaser(t, l)', FifoStep(l)
  PROVE  Kept
<1>1. \A k \in Lock \ {l} : SameLock(k)
  BY DEF SameLock
<1>2. \A u \in Thread : ThreadInv(u)'
  <2>1. ASSUME NEW u \in Thread \ {t}, lck[u] \in Lock
        PROVE  owner_id'[lck[u]] # u
    BY <2>1, Ids DEF IInv, ThreadInv
  <2> QED
    BY <2>1, OtherThread DEF IInv
<1>3. QueueInv(l)'
  BY Aside DEF IInv, LockInv, QueueInv
<1>4. Hands(l)'
  BY DEF IInv, LockInv, Hands
<1>5. ASSUME NEW u \in Thread, lck'[u] = l PROVE Releaser(u, l)'
  <2>1. CASE u = t
    BY <1>5, <2>1
  <2>2. CASE u # t
    <3>1. Same(u) /\ Releaser(u, l)
      BY <1>5, <2>2 DEF IInv, LockInv, Same
    <3>2. N(l)' = N(l) /\ \A i : At(l, i)' = At(l, i)
      BY DEF N, At
    <3>3. pc[u] = "wake" => Same(At(l, 1))
      <4> SUFFICES ASSUME pc[u] = "wake" PROVE Same(At(l, 1))
        OBVIOUS
      <4>1. First(l) = 2
        BY <1>5, <3>1, FirstIs DEF Waking, Same
      <4>2. 1 \in 1 .. N(l)
        BY <4>1, Queues DEF IInv, LockInv, Ends
      <4>3. At(l, 1) \in Thread \ {t}
        BY <4>2, Queues DEF IInv, LockInv, Members
      <4> QED
        BY <4>3
    <3> QED
      BY <3>1, <3>2, <3>3 DEF Releaser, Same
  <2> QED
    BY <2>1, <2>2
<1>6. LockInv(l)'
  BY <1>3, <1>4, <1>5 DEF LockInv, QueueInv
<1> QED
  BY <1>1, <1>2, <1>6, OneLock, Ids DEF Same

-----------------------------------------------------------------------------
(* Types. *)
LEMMA InCall ==
  ASSUME IInv, NEW t \in Thread, pc[t] # "user"
  PROVE  lck[t] \in Lock /\ ThreadInv(t) /\ LockInv(lck[t]) /\ Releaser(t, lck[t])
BY DEF IInv, TypeOK, ThreadInv, LockInv

LEMMA WokenIsFirst ==
  ASSUME IInv, NEW t \in Thread, pc[t] \in {"unlink", "wake"}
  PROVE  /\ 1 \in 1 .. N(lck[t]) /\ seen[t] = At(lck[t], 1) /\ seen[t] \in Thread
         /\ First(lck[t]) = 2
<1>1. lck[t] \in Lock /\ LockInv(lck[t]) /\ Releaser(t, lck[t])
  BY InCall
<1>2. First(lck[t]) = 2
  BY FirstIs DEF Waking
<1>3. 1 \in 1 .. N(lck[t])
  BY <1>1, <1>2, Queues DEF IInv, LockInv, Ends
<1> QED
  BY <1>1, <1>2, <1>3, Queues DEF IInv, Releaser

LEMMA TypeStep ==
  ASSUME IInv, Next
  PROVE  TypeOK'
<1> USE DEF TypeOK, Goto, Return, Retry, ids, held, fields
<1>1. TypeOK
  BY DEF IInv
<1>2. ASSUME NEW t \in Thread, NEW l \in Lock,
             \/ AcquireAgain(t, l) \/ Acquire(t, l) \/ Test(t, l)
             \/ ReleaseNested(t, l) \/ Release(t, l)
      PROVE  TypeOK'
  <2>1. CASE AcquireAgain(t, l) BY <1>1, <2>1 DEF AcquireAgain
  <2>2. CASE Acquire(t, l) BY <1>1, <2>2 DEF Acquire
  <2>3. CASE Test(t, l) BY <1>1, <2>3 DEF Test
  <2>4. CASE ReleaseNested(t, l) BY <1>1, <2>4 DEF ReleaseNested
  <2>5. CASE Release(t, l) BY <1>1, <2>5 DEF Release, Releasing
  <2> QED
    BY <1>2, <2>1, <2>2, <2>3, <2>4, <2>5
<1>3. ASSUME NEW t \in Thread, Call(t)
      PROVE  TypeOK'
  <2>1. CASE pc[t] = "user"
    BY <1>3, <2>1 DEF Call, AcquireStep, ReleaseStep, ReadHead, Grab, Grabbed,
         EnqueueFirst, ReadTail, Enqueue, Link, Spin, Enter, ReleaseHead, Free,
         ReleaseTail, DequeueLast, Dequeue, Unlink, Wake
  <2>2. CASE pc[t] # "user"
    <3> DEFINE l == lck[t]
    <3>1. l \in Lock /\ Releaser(t, l)
      BY <2>2, InCall
    <3> HIDE DEF l
    <3>2. CASE ReadHead(t) BY <1>1, <3>2, <3>1 DEF ReadHead, l
    <3>3. CASE Grab(t) BY <1>1, <3>3, <3>1 DEF Grab, l
    <3>4. CASE Grabbed(t) BY <1>1, <3>4, <3>1 DEF Grabbed, l
    <3>5. CASE EnqueueFirst(t)
      <4>1. waiting[l] \in Seq(Thread)
        BY <1>1, <3>1
      <4>2. Append(waiting[l], t) \in Seq(Thread)
        BY <4>1
      <4> HIDE DEF TypeOK
      <4>3. waiting' \in [Lock -> Seq(Thread)]
        BY <1>1, <3>5, <4>2 DEF EnqueueFirst, TypeOK, l
      <4>4. /\ head_id' \in [Lock -> Thread \cup {None, Held}]
            /\ tail_id' \in [Lock -> Thread \cup {None}]
        <5>1. /\ head_id' \in {head_id, [head_id EXCEPT ![l] = t]}
              /\ tail_id' \in {tail_id, [tail_id EXCEPT ![l] = t]}
          BY <3>5, Zenon DEF EnqueueFirst, l
        <5> QED
          BY <1>1, <5>1 DEF TypeOK
      <4>5. /\ pc' \in [Thread -> Releasing \cup {"user", "acquire", "grab", "grabbed",
                      "enqueueFirst", "readTail", "enqueue", "link", "spin", "enter"}]
            /\ UNCHANGED <<held, fields, lck, seen>>
        BY <1>1, <3>5 DEF EnqueueFirst, TypeOK
      <4> QED
        BY <1>1, <4>3, <4>4, <4>5 DEF TypeOK
    <3>6. CASE ReadTail(t) BY <1>1, <3>6, <3>1 DEF ReadTail, l
    <3>7. CASE Enqueue(t)
      <4>1. waiting[l] \in Seq(Thread)
        BY <1>1, <3>1
      <4>2. Append(waiting[l], t) \in Seq(Thread)
        BY <4>1
      <4> HIDE DEF TypeOK
      <4>3. waiting' \in [Lock -> Seq(Thread)]
        BY <1>1, <3>7, <4>2 DEF Enqueue, TypeOK, l
      <4>4. /\ head_id' \in [Lock -> Thread \cup {None, Held}]
            /\ tail_id' \in [Lock -> Thread \cup {None}]
        <5>1. /\ head_id' \in {head_id, [head_id EXCEPT ![l] = t]}
              /\ tail_id' \in {tail_id, [tail_id EXCEPT ![l] = t]}
          BY <3>7, Zenon DEF Enqueue, l
        <5> QED
          BY <1>1, <5>1 DEF TypeOK
      <4>5. /\ pc' \in [Thread -> Releasing \cup {"user", "acquire", "grab", "grabbed",
                      "enqueueFirst", "readTail", "enqueue", "link", "spin", "enter"}]
            /\ UNCHANGED <<held, fields, lck, seen>>
        BY <1>1, <3>7 DEF Enqueue, TypeOK
      <4> QED
        BY <1>1, <4>3, <4>4, <4>5 DEF TypeOK
    <3>8. CASE Link(t) BY <1>1, <3>8, <3>1 DEF Link, l
    <3>9. CASE Spin(t) BY <1>1, <3>9, <3>1 DEF Spin, l
    <3>10. CASE Enter(t) BY <1>1, <3>10, <3>1 DEF Enter, l
    <3>11. CASE ReleaseHead(t) BY <1>1, <3>11, <3>1 DEF ReleaseHead, l, Releasing
    <3>12. CASE Free(t) BY <1>1, <3>12, <3>1 DEF Free, l, Releasing
    <3>13. CASE ReleaseTail(t) BY <1>1, <3>13, <3>1 DEF ReleaseTail, l, Releasing
    <3>14. CASE DequeueLast(t) BY <1>1, <3>14, <3>1 DEF DequeueLast, l, Releasing
    <3>15. CASE Dequeue(t)
      <4>1. seen[t] \in Thread
        BY <3>1, <3>15 DEF Dequeue, Releaser
      <4> QED
        BY <1>1, <3>15, <3>1, <4>1 DEF Dequeue, l, Releasing
    <3>16. CASE Unlink(t) BY <1>1, <3>16, <3>1 DEF Unlink, l, Releasing
    <3>17. CASE Wake(t)
      <4>1. waiting[l] \in Seq(Thread) /\ waiting[l] # <<>>
        BY <1>1, <3>1, <3>17, WokenIsFirst DEF Wake, N, l
      <4>2. Tail(waiting[l]) \in Seq(Thread)
        BY <4>1
      <4>3. waiting' \in [Lock -> Seq(Thread)]
        BY <1>1, <3>17, <4>2 DEF Wake, l
      <4> QED
        BY <1>1, <3>17, <3>1, <4>3 DEF Wake, l
    <3> QED
      BY <1>3, <3>2, <3>3, <3>4, <3>5, <3>6, <3>7, <3>8, <3>9, <3>10, <3>11,
         <3>12, <3>13, <3>14, <3>15, <3>16, <3>17
         DEF Call, AcquireStep, ReleaseStep
  <2> QED
    BY <2>1, <2>2
<1> QED
  BY <1>2, <1>3 DEF Next

-----------------------------------------------------------------------------
(* The steps that leave the queue alone. *)
LEMMA Stays ==
  ASSUME NEW l \in Lock, \A u \in Thread : Owns(u, l)' <=> Owns(u, l),
         waiting'[l] = waiting[l]
  PROVE  FifoStep(l)
BY DEF FifoStep, Owner

LEMMA RetryKept ==
  ASSUME IInv, TypeOK', NEW t \in Thread, NEW l \in Lock, lck[t] = l,
         NEW from, NEW top, Retry(t, from, top),
         \/ from \in Enqueuing /\ top = "acquire"
         \/ from \in {"free", "dequeueLast"} /\ top = "release"
  PROVE  Kept
<1>1. TypeOK /\ ThreadInv(t) /\ LockInv(l) /\ Releaser(t, l)
  BY DEF IInv, LockInv
<1>2. \A u \in Thread \ {t} : Same(u)
  BY <1>1 DEF Retry, Goto, Same, fields, TypeOK
<1>3. UNCHANGED <<head_id, tail_id, waiting, owner_id, lck>>
  BY DEF Retry, Goto, ids, held
<1>4. \A u \in Thread : /\ Owns(u, l)' <=> Owns(u, l)
                        /\ Hand(u, l)' <=> Hand(u, l)
  BY <1>1, <1>2, <1>3 DEF Retry, Goto, Same, Owns, Hand, Releasing, Enqueuing, fields, TypeOK
<1>5. ~Queued(t) /\ ~Queued(t)' /\ ~Waking(t, l) /\ ~Waking(t, l)'
  BY <1>1 DEF Retry, Goto, Queued, Waking, ThreadInv, Enqueuing, Releasing, TypeOK, fields
<1>6. ThreadInv(t)'
  BY <1>1, <1>3, Ids DEF Retry, Goto, ThreadInv, Queued, Enqueuing, Releasing, fields, TypeOK
<1>7. Releaser(t, l)'
  BY <1>1, <1>3 DEF Retry, Goto, Releaser, Enqueuing, TypeOK
<1>8. FifoStep(l)
  BY <1>3, <1>4, Stays
<1> QED
  BY <1>1, <1>2, <1>3, <1>4, <1>5, <1>6, <1>7, <1>8, Quietly

LEMMA ReadHeadKept ==
  ASSUME IInv, TypeOK', NEW t \in Thread, NEW l \in Lock, lck[t] = l, ReadHead(t)
  PROVE  Kept
<1>1. TypeOK /\ ThreadInv(t) /\ LockInv(l) /\ Releaser(t, l)
  BY DEF IInv, LockInv
<1>2. \A u \in Thread \ {t} : Same(u)
  BY <1>1 DEF ReadHead, Same, fields, TypeOK
<1>3. UNCHANGED <<head_id, tail_id, waiting, owner_id, lck>>
  BY DEF ReadHead, ids, held
<1>4. \A u \in Thread : /\ Owns(u, l)' <=> Owns(u, l)
                        /\ Hand(u, l)' <=> Hand(u, l)
  BY <1>1, <1>2, <1>3 DEF ReadHead, Same, Owns, Hand, Releasing, Enqueuing, fields, TypeOK
<1>5. ~Queued(t) /\ ~Queued(t)' /\ ~Waking(t, l) /\ ~Waking(t, l)'
  BY <1>1 DEF ReadHead, Queued, Waking, ThreadInv, Enqueuing, Releasing, TypeOK, fields
<1>6. ThreadInv(t)'
  BY <1>1, <1>3, Ids DEF ReadHead, ThreadInv, Queued, Enqueuing, Releasing, fields, TypeOK
<1>7. Releaser(t, l)'
  BY <1>1, <1>3 DEF ReadHead, Releaser, Enqueuing, TypeOK
<1>8. FifoStep(l)
  BY <1>3, <1>4, Stays
<1> QED
  BY <1>1, <1>2, <1>3, <1>4, <1>5, <1>6, <1>7, <1>8, Quietly

LEMMA ReadTailKept ==
  ASSUME IInv, TypeOK', NEW t \in Thread, NEW l \in Lock, lck[t] = l, ReadTail(t)
  PROVE  Kept
<1> SUFFICES ASSUME Goto(t, "readTail", "enqueue"), tail_id[l] # None,
                    seen' = [seen EXCEPT ![t] = tail_id[l]],
                    UNCHANGED <<ids, held, fields, lck, waiting>>
             PROVE  Kept
  BY RetryKept DEF ReadTail, Enqueuing
<1>1. TypeOK /\ ThreadInv(t) /\ LockInv(l) /\ Releaser(t, l)
  BY DEF IInv, LockInv
<1>2. \A u \in Thread \ {t} : Same(u)
  BY <1>1 DEF Goto, Same, fields, TypeOK
<1>3. UNCHANGED <<head_id, tail_id, waiting, owner_id, lck>>
  BY DEF Goto, ids, held
<1>4. \A u \in Thread : /\ Owns(u, l)' <=> Owns(u, l)
                        /\ Hand(u, l)' <=> Hand(u, l)
  BY <1>1, <1>2, <1>3 DEF Goto, Same, Owns, Hand, Releasing, Enqueuing, fields, TypeOK
<1>5. ~Queued(t) /\ ~Queued(t)' /\ ~Waking(t, l) /\ ~Waking(t, l)'
  BY <1>1 DEF Goto, Queued, Waking, ThreadInv, Enqueuing, Releasing, TypeOK, fields
<1>6. ThreadInv(t)'
  BY <1>1, <1>3, Ids DEF Goto, ThreadInv, Queued, Enqueuing, Releasing, fields, TypeOK
<1>7. Releaser(t, l)'
  BY <1>1, <1>3 DEF Goto, Releaser, Enqueuing, TypeOK
<1>8. FifoStep(l)
  BY <1>3, <1>4, Stays
<1> QED
  BY <1>1, <1>2, <1>3, <1>4, <1>5, <1>6, <1>7, <1>8, Quietly

LEMMA GrabbedKept ==
  ASSUME IInv, TypeOK', NEW t \in Thread, NEW l \in Lock, lck[t] = l, Grabbed(t)
  PROVE  Kept
<1>1. TypeOK /\ ThreadInv(t) /\ LockInv(l) /\ Releaser(t, l)
  BY DEF IInv, LockInv
<1>2. \A u \in Thread \ {t} : Same(u)
  BY <1>1 DEF Grabbed, Goto, Same, fields, TypeOK
<1>3. UNCHANGED <<head_id, tail_id, waiting, owner_id, lck>>
  BY DEF Grabbed, Goto, ids, held
<1>4. \A u \in Thread : /\ Owns(u, l)' <=> Owns(u, l)
                        /\ Hand(u, l)' <=> Hand(u, l)
  BY <1>1, <1>2, <1>3 DEF Grabbed, Goto, Same, Owns, Hand, Releasing, Enqueuing, fields, TypeOK
<1>5. ~Queued(t) /\ ~Queued(t)' /\ ~Waking(t, l) /\ ~Waking(t, l)'
  BY <1>1 DEF Grabbed, Goto, Queued, Waking, ThreadInv, Enqueuing, Releasing, TypeOK, fields
<1>6. ThreadInv(t)'
  BY <1>1, <1>3, Ids DEF Grabbed, Goto, ThreadInv, Queued, Enqueuing, Releasing, fields, TypeOK
<1>7. Releaser(t, l)'
  BY <1>1, <1>3 DEF Grabbed, Goto, Releaser, Enqueuing, TypeOK
<1>8. FifoStep(l)
  BY <1>3, <1>4, Stays
<1> QED
  BY <1>1, <1>2, <1>3, <1>4, <1>5, <1>6, <1>7, <1>8, Quietly

LEMMA SpinKept ==
  ASSUME IInv, TypeOK', NEW t \in Thread, NEW l \in Lock, lck[t] = l, Spin(t)
  PROVE  Kept
<1>1. TypeOK /\ ThreadInv(t) /\ LockInv(l) /\ Releaser(t, l)
  BY DEF IInv, LockInv
<1>2. \A u \in Thread \ {t} : Same(u)
  BY <1>1 DEF Spin, Goto, Same, fields, TypeOK
<1>3. UNCHANGED <<head_id, tail_id, waiting, owner_id, lck>>
  BY DEF Spin, Goto, ids, held
<1>4. \A u \in Thread : /\ Owns(u, l)' <=> Owns(u, l)
                        /\ Hand(u, l)' <=> Hand(u, l)
  BY <1>1, <1>2, <1>3 DEF Spin, Goto, Same, Owns, Hand, Releasing, Enqueuing, fields, TypeOK
<1>5. ~Queued(t) /\ ~Queued(t)' /\ ~Waking(t, l) /\ ~Waking(t, l)'
  BY <1>1 DEF Spin, Goto, Queued, Waking, ThreadInv, Enqueuing, Releasing, TypeOK, fields
<1>6. ThreadInv(t)'
  BY <1>1, <1>3, Ids DEF Spin, Goto, ThreadInv, Queued, Enqueuing, Releasing, fields, TypeOK
<1>7. Releaser(t, l)'
  BY <1>1, <1>3 DEF Spin, Goto, Releaser, Enqueuing, TypeOK
<1>8. FifoStep(l)
  BY <1>3, <1>4, Stays
<1> QED
  BY <1>1, <1>2, <1>3, <1>4, <1>5, <1>6, <1>7, <1>8, Quietly

LEMMA ReleaseHeadKept ==
  ASSUME IInv, TypeOK', NEW t \in Thread, NEW l \in Lock, lck[t] = l, ReleaseHead(t)
  PROVE  Kept
<1>1. TypeOK /\ ThreadInv(t) /\ LockInv(l) /\ Releaser(t, l)
  BY DEF IInv, LockInv
<1>2. \A u \in Thread \ {t} : Same(u)
  BY <1>1 DEF ReleaseHead, Same, fields, TypeOK
<1>3. UNCHANGED <<head_id, tail_id, waiting, owner_id, lck>>
  BY DEF ReleaseHead, ids, held
<1>4. \A u \in Thread : /\ Owns(u, l)' <=> Owns(u, l)
                        /\ Hand(u, l)' <=> Hand(u, l)
  BY <1>1, <1>2, <1>3 DEF ReleaseHead, Same, Owns, Hand, Releasing, Enqueuing, fields, TypeOK
<1>5. ~Queued(t) /\ ~Queued(t)' /\ ~Waking(t, l) /\ ~Waking(t, l)'
  BY <1>1 DEF ReleaseHead, Queued, Waking, ThreadInv, Enqueuing, Releasing, TypeOK, fields
<1>6. ThreadInv(t)'
  BY <1>1, <1>3, Ids DEF ReleaseHead, ThreadInv, Queued, Enqueuing, Releasing, fields, TypeOK
<1>7. Releaser(t, l)'
  BY <1>1, <1>3 DEF ReleaseHead, Releaser, TypeOK, LockInv, Hands, Hand, Releasing
<1>8. FifoStep(l)
  BY <1>3, <1>4, Stays
<1> QED
  BY <1>1, <1>2, <1>3, <1>4, <1>5, <1>6, <1>7, <1>8, Quietly

LEMMA ReleaseTailKept ==
  ASSUME IInv, TypeOK', NEW t \in Thread, NEW l \in Lock, lck[t] = l, ReleaseTail(t)
  PROVE  Kept
<1>1. TypeOK /\ ThreadInv(t) /\ LockInv(l) /\ Releaser(t, l)
  BY DEF IInv, LockInv
<1>2. \A u \in Thread \ {t} : Same(u)
  BY <1>1 DEF ReleaseTail, Same, fields, TypeOK
<1>3. UNCHANGED <<head_id, tail_id, waiting, owner_id, lck>>
  BY DEF ReleaseTail, ids, held
<1>4. \A u \in Thread : /\ Owns(u, l)' <=> Owns(u, l)
                        /\ Hand(u, l)' <=> Hand(u, l)
  BY <1>1, <1>2, <1>3 DEF ReleaseTail, Same, Owns, Hand, Releasing, Enqueuing, fields, TypeOK
<1>5. ~Queued(t) /\ ~Queued(t)' /\ ~Waking(t, l) /\ ~Waking(t, l)'
  BY <1>1 DEF ReleaseTail, Queued, Waking, ThreadInv, Enqueuing, Releasing, TypeOK, fields
<1>6. ThreadInv(t)'
  BY <1>1, <1>3, Ids DEF ReleaseTail, ThreadInv, Queued, Enqueuing, Releasing, fields, TypeOK
<1>7. Releaser(t, l)'
  BY <1>1, <1>3 DEF ReleaseTail, Releaser, Enqueuing, TypeOK
<1>8. FifoStep(l)
  BY <1>3, <1>4, Stays
<1> QED
  BY <1>1, <1>2, <1>3, <1>4, <1>5, <1>6, <1>7, <1>8, Quietly

LEMMA AcquireAgainKept ==
  ASSUME IInv, TypeOK', NEW t \in Thread, NEW l \in Lock,
         AcquireAgain(t, l) \/ ReleaseNested(t, l)
  PROVE  Kept
<1>1. TypeOK /\ ThreadInv(t) /\ lck[t] = None
  BY DEF IInv, ThreadInv, AcquireAgain, ReleaseNested
<1>2. UNCHANGED <<ids, owner_id, fields, pc, lck, seen, waiting>>
  BY DEF AcquireAgain, ReleaseNested
<1>3. \A u \in Thread : Same(u)
  BY <1>2 DEF Same, fields
<1>4. \A u \in Thread : /\ Owns(u, l)' <=> Owns(u, l)
                        /\ Hand(u, l)' <=> Hand(u, l)
  BY <1>2 DEF Owns, Hand, fields
<1>5. ~Queued(t) /\ ~Queued(t)' /\ ~Waking(t, l) /\ ~Waking(t, l)'
  BY <1>1, <1>2, Ids DEF Queued, Waking, ThreadInv
<1>6. ThreadInv(t)'
  BY <1>1, <1>2, Ids DEF ThreadInv, Queued, fields
<1>7. FifoStep(l)
  BY <1>2, <1>4, Stays
<1> QED
  BY <1>1, <1>2, <1>3, <1>4, <1>5, <1>6, <1>7, Quietly, Ids DEF ids

LEMMA AcquireKept ==
  ASSUME IInv, TypeOK', NEW t \in Thread, NEW l \in Lock, Acquire(t, l)
  PROVE  Kept
<1> USE DEF Acquire, Goto
<1>1. TypeOK /\ ThreadInv(t) /\ lck[t] = None
  BY DEF IInv, ThreadInv
<1>2. \A u \in Thread \ {t} : Same(u)
  BY <1>1 DEF Same, TypeOK
<1>3. UNCHANGED <<head_id, tail_id, waiting, owner_id>> /\ lck'[t] = l
  BY <1>1 DEF ids, held, TypeOK
<1>4. owner_id[l] # t
  <2>1. l \notin Has(t)
    BY LockAssumption
  <2> QED
    BY <2>1 DEF Has
<1>5. \A u \in Thread : /\ Owns(u, l)' <=> Owns(u, l)
                        /\ Hand(u, l)' <=> Hand(u, l)
  BY <1>1, <1>2, <1>3, Ids DEF Same, Owns, Hand, Releasing, TypeOK
<1>6. ~Queued(t) /\ ~Queued(t)' /\ ~Waking(t, l) /\ ~Waking(t, l)'
  BY <1>1 DEF Queued, Waking, TypeOK
<1>7. ThreadInv(t)'
  BY <1>1, <1>3, <1>4, <1>6, Ids DEF ThreadInv, Queued, Enqueuing, TypeOK
<1>8. Releaser(t, l)'
  BY <1>1 DEF Releaser, TypeOK
<1>9. FifoStep(l)
  BY <1>3, <1>5, Stays
<1> QED
  BY <1>1, <1>2, <1>3, <1>5, <1>6, <1>7, <1>8, <1>9, Quietly

LEMMA EnterKept ==
  ASSUME IInv, TypeOK', NEW t \in Thread, NEW l \in Lock, lck[t] = l, Enter(t)
  PROVE  Kept
<1> USE DEF Enter, Return, Goto
<1>1. TypeOK /\ ThreadInv(t) /\ LockInv(l)
  BY DEF IInv
<1>2. \A u \in Thread \ {t} : Same(u)
  BY <1>1 DEF Same, fields, TypeOK
<1>3. UNCHANGED <<head_id, tail_id, waiting>> /\ lck'[t] = None
  BY <1>1 DEF ids, TypeOK
<1>4. owner_id'[l] = t /\ \A k \in Lock \ {l} : owner_id'[k] = owner_id[k]
  BY <1>1 DEF TypeOK
<1>5. Owns(t, l) /\ \A u \in Thread : Hand(u, l) => u = t
  BY <1>1 DEF LockInv, Hands, Hand, Owns
<1>6. \A u \in Thread : /\ Owns(u, l)' <=> Owns(u, l)
                        /\ Hand(u, l)' <=> Hand(u, l)
  BY <1>2, <1>3, <1>4, <1>5, Ids DEF Same, Owns, Hand
<1>7. ~Queued(t) /\ ~Queued(t)' /\ ~Waking(t, l) /\ ~Waking(t, l)'
  BY <1>1 DEF Queued, Waking, TypeOK
<1>8. ThreadInv(t)'
  BY <1>1, <1>3, <1>7, Ids DEF ThreadInv, Queued, Enqueuing, fields, TypeOK
<1>9. FifoStep(l)
  BY <1>3, <1>6, Stays
<1> QED
  BY <1>1, <1>2, <1>3, <1>4, <1>6, <1>7, <1>8, <1>9, Quietly, Ids

LEMMA ReleaseKept ==
  ASSUME IInv, TypeOK', NEW t \in Thread, NEW l \in Lock, Release(t, l)
  PROVE  Kept
<1> USE DEF Release, Goto
<1>1. TypeOK /\ ThreadInv(t) /\ LockInv(l) /\ lck[t] = None
  BY DEF IInv, ThreadInv
<1>2. \A u \in Thread \ {t} : Same(u)
  BY <1>1 DEF Same, fields, TypeOK
<1>3. UNCHANGED <<head_id, tail_id, waiting>> /\ lck'[t] = l
  BY <1>1 DEF ids, TypeOK
<1>4. owner_id'[l] = None /\ \A k \in Lock \ {l} : owner_id'[k] = owner_id[k]
  BY <1>1 DEF TypeOK
<1>5. Owns(t, l) /\ \A u \in Thread : Hand(u, l) => u = t
  BY <1>1 DEF LockInv, Hands, Hand, Owns
<1>6. \A u \in Thread : ~Owns(u, l)' /\ (Hand(u, l)' <=> Hand(u, l))
  BY <1>1, <1>2, <1>3, <1>4, <1>5, Ids DEF Same, Owns, Hand, Releasing, TypeOK
<1>7. ~Queued(t) /\ ~Queued(t)' /\ ~Waking(t, l) /\ ~Waking(t, l)'
  BY <1>1 DEF Queued, Waking, TypeOK
<1>8. ThreadInv(t)'
  BY <1>1, <1>3, <1>4, <1>7, Ids DEF ThreadInv, Queued, Enqueuing, fields, TypeOK
<1>9. Releaser(t, l)'
  BY <1>1 DEF Releaser, TypeOK
<1>10. FifoStep(l)
  BY <1>3, <1>5, <1>6 DEF FifoStep, Owner, Hand
<1> QED
  BY <1>1, <1>2, <1>3, <1>4, <1>6, <1>7, <1>8, <1>9, <1>10, Quietly

-----------------------------------------------------------------------------
(* The steps that take a free lock, and the one that frees it. *)
LEMMA NoHand ==
  ASSUME IInv, NEW l \in Lock, head_id[l] = None
  PROVE  /\ \A u \in Thread : ~Hand(u, l) /\ ~Waking(u, l)
         /\ Owner(l) = {} /\ waiting[l] = <<>> /\ N(l) < First(l)
<1>1. TypeOK /\ LockInv(l)
  BY DEF IInv
<1>2. \A u \in Thread : ~Hand(u, l) /\ ~Waking(u, l)
  BY <1>1 DEF LockInv, Hands, Hand, Waking, Releasing
<1> QED
  BY <1>1, <1>2, Nobody DEF Owner, Hand

LEMMA TakeKept ==
  ASSUME IInv, TypeOK', NEW t \in Thread, NEW l \in Lock,
         head_id[l] = None, head_id' = [head_id EXCEPT ![l] = Held],
         UNCHANGED <<tail_id, owner_id, fields, seen, waiting>>,
         NEW from, NEW to, Goto(t, from, to),
         \/ from = "grab" /\ to = "grabbed" /\ lck[t] = l /\ lck' = lck
         \/ from = "user" /\ to = "enter" /\ lck[t] = None /\ lck' = [lck EXCEPT ![t] = l]
  PROVE  Kept
<1> USE DEF Goto
<1>1. TypeOK /\ ThreadInv(t) /\ LockInv(l) /\ lck'[t] = l /\ pc'[t] = to
  BY DEF IInv, TypeOK
<1>2. \A u \in Thread \ {t} : Same(u)
  BY <1>1 DEF Same, fields, TypeOK
<1>3. /\ head_id'[l] = Held
      /\ \A k \in Lock \ {l} : SameLock(k)
  BY <1>1 DEF SameLock, TypeOK
<1>4. Owner(l)' = {t} /\ Hand(t, l)'
      /\ \A u \in Thread \ {t} : Hand(u, l)' <=> Hand(u, l)
  BY <1>1, <1>2, NoHand DEF Owner, Owns, Hand, Same
<1>5. Hands(l)'
  BY <1>1, <1>3, <1>4, Take, Ids DEF LockInv
<1>6. ~Queued(t) /\ ~Queued(t)' /\ ~Waking(t, l) /\ ~Waking(t, l)'
  BY <1>1 DEF Queued, Waking
<1>7. QueueInv(l)'
  BY <1>1, <1>2, <1>3, <1>6, NoHand, Aside DEF LockInv, QueueInv
<1>8. ThreadInv(t)'
  <2>1. owner_id[l] # t
    BY <1>1, NoHand DEF Hand, Owns
  <2> QED
    BY <1>1, <1>6, <2>1, Ids DEF ThreadInv, Queued, Enqueuing, fields
<1>9. \A u \in Thread : ThreadInv(u)'
  BY <1>2, <1>8, OtherThread DEF IInv, ThreadInv
<1>10. \A u \in Thread : lck'[u] = l => Releaser(u, l)'
  <2>1. \A u \in Thread \ {t} : lck[u] = l => pc[u] \notin Releasing
    BY NoHand DEF Hand
  <2> QED
    BY <1>1, <1>2, <2>1 DEF Releaser, Same, Releasing
<1>11. FifoStep(l)
  BY <1>4, NoHand DEF FifoStep
<1> QED
  BY <1>1, <1>2, <1>3, <1>5, <1>7, <1>9, <1>10, <1>11, OneLock, Ids
     DEF LockInv, QueueInv, Same

LEMMA GrabKept ==
  ASSUME IInv, TypeOK', NEW t \in Thread, NEW l \in Lock, lck[t] = l, Grab(t)
  PROVE  Kept
BY TakeKept, RetryKept DEF Grab, Enqueuing, held

LEMMA TestKept ==
  ASSUME IInv, TypeOK', NEW t \in Thread, NEW l \in Lock, Test(t, l)
  PROVE  Kept
<1>1. lck[t] = None
  BY DEF IInv, ThreadInv, Test, Goto
<1> QED
  BY <1>1, TakeKept DEF Test, held

LEMMA FreeKept ==
  ASSUME IInv, TypeOK', NEW t \in Thread, NEW l \in Lock, lck[t] = l, Free(t)
  PROVE  Kept
<1> SUFFICES ASSUME Return(t, "free"), head_id[l] = Held,
                    head_id' = [head_id EXCEPT ![l] = None],
                    UNCHANGED <<tail_id, held, fields, waiting>>
             PROVE  Kept
  BY RetryKept DEF Free
<1> USE DEF Return, Goto
<1>1. TypeOK /\ ThreadInv(t) /\ LockInv(l) /\ lck'[t] = None /\ pc'[t] = "user"
  BY DEF IInv, TypeOK
<1>2. \A u \in Thread \ {t} : Same(u)
  BY <1>1 DEF Same, fields, TypeOK
<1>3. /\ head_id'[l] = None
      /\ \A k \in Lock \ {l} : SameLock(k)
  BY <1>1 DEF SameLock, held, TypeOK
<1>4. /\ Hand(t, l) /\ ~Waking(t, l)
      /\ \A u \in Thread : Hand(u, l) => u = t
  BY <1>1 DEF Hand, Releasing, Waking, LockInv, Hands
<1>5. N(l) < First(l)
  BY <1>1, <1>4, NotWaking, Nobody DEF LockInv
<1>6. ~Owns(t, l) /\ ~Hand(t, l)'
  BY <1>1, Ids DEF Hand, Owns, ThreadInv, held
<1>7. \A u \in Thread \ {t} : ~Hand(u, l)'
  BY <1>2, <1>4 DEF Hand, Owns, Same, held
<1>8. Hands(l)'
  BY <1>3, <1>6, <1>7 DEF Hands
<1>9. ~Queued(t) /\ ~Queued(t)' /\ ~Waking(t, l)'
  BY <1>1 DEF Queued, Waking
<1>10. QueueInv(l)'
  BY <1>1, <1>2, <1>3, <1>4, <1>5, <1>9, Aside DEF LockInv, QueueInv
<1>11. ThreadInv(t)'
  BY <1>1, <1>9, Ids DEF ThreadInv, Queued, Enqueuing, fields
<1>12. \A u \in Thread : ThreadInv(u)'
  BY <1>2, <1>11, OtherThread DEF IInv, ThreadInv, held
<1>13. \A u \in Thread : lck'[u] = l => Releaser(u, l)'
  <2>1. \A u \in Thread \ {t} : lck'[u] = l => pc'[u] \notin Releasing
    BY <1>7 DEF Hand
  <2> QED
    BY <1>1, <2>1, Ids DEF Releaser, Releasing
<1>14. FifoStep(l)
  BY <1>4, <1>6, <1>7, Stays DEF Hand
<1> QED
  BY <1>1, <1>2, <1>3, <1>8, <1>10, <1>12, <1>13, <1>14, OneLock, Ids
     DEF LockInv, QueueInv, Same

-----------------------------------------------------------------------------
(* The steps that put a thread at the end of the queue. *)
LEMMA JoinKept ==
  ASSUME IInv, TypeOK', NEW t \in Thread, NEW l \in Lock, lck[t] = l,
         NEW from, NEW to, Goto(t, from, to),
         tail_id' = [tail_id EXCEPT ![l] = t],
         waiting' = [waiting EXCEPT ![l] = Append(@, t)],
         UNCHANGED <<held, fields, lck, seen>>,
         \/ /\ from = "enqueueFirst" /\ to = "spin"
            /\ head_id[l] = Held
            /\ head_id' = [head_id EXCEPT ![l] = t]
         \/ /\ from = "enqueue" /\ to = "link"
            /\ tail_id[l] = seen[t]
            /\ head_id' = head_id
  PROVE  Kept
<1>0. PICK n, f : n = N(l) /\ f = First(l)
  OBVIOUS
<1> USE <1>0
<1>1. /\ TypeOK /\ ThreadInv(t) /\ LockInv(l)
      /\ from \in Enqueuing /\ pc[t] = from /\ pc'[t] = to
      /\ to \in {"spin", "link"}
  BY DEF IInv, TypeOK, Goto, Enqueuing
<1>2. \A u \in Thread \ {t} : Same(u)
  BY <1>1 DEF Same, fields, TypeOK, Goto
<1>3. /\ N(l)' = n + 1 /\ At(l, n + 1)' = t
      /\ \A i \in 1 .. n : At(l, i)' = At(l, i)
  <2>1. waiting[l] \in Seq(Thread) /\ waiting'[l] = Append(waiting[l], t)
    BY <1>1 DEF TypeOK
  <2> QED
    BY <2>1 DEF N, At
<1>4. \A u \in Thread : Waking(u, l)' <=> Waking(u, l)
  BY <1>1, <1>2 DEF Same, Waking, Enqueuing
<1>5. First(l)' = f /\ f \in {1, 2}
  BY <1>4, FirstIs DEF First
<1>6. ~Queued(t) /\ Queued(t)' /\ next_waiting'[t] = None /\ spin_here'[t]
  BY <1>1 DEF Queued, ThreadInv, fields, Enqueuing
<1>7. /\ n \in Nat
      /\ \A i \in 1 .. n : /\ At(l, i) \in Thread \ {t} /\ Same(At(l, i))
                           /\ Queued(At(l, i)) /\ lck[At(l, i)] = l
  BY <1>1, <1>2, <1>6, Queues DEF LockInv, Members
<1>8. tail_id'[l] = t /\ waiting'[l] = Append(waiting[l], t)
      /\ \A k \in Lock \ {l} : SameLock(k)
  BY <1>1 DEF SameLock, held, TypeOK
<1>9. \/ /\ n < f /\ to = "spin" /\ head_id[l] = Held /\ head_id'[l] = t
      \/ /\ f <= n /\ to = "link" /\ head_id[l] \in Thread /\ head_id'[l] = head_id[l]
         /\ seen[t] = At(l, n)
  <2>1. CASE from = "enqueueFirst"
    <3>1. head_id[l] = Held /\ head_id'[l] = t /\ to = "spin"
      BY <1>1, <2>1 DEF TypeOK
    <3>2. ~ (f <= n)
      BY <1>1, <1>5, <1>7, <3>1, Ids DEF LockInv, Ends
    <3> QED
      BY <1>5, <1>7, <3>1, <3>2
  <2>2. CASE from = "enqueue"
    <3>1. tail_id[l] = seen[t] /\ head_id'[l] = head_id[l] /\ to = "link"
      BY <2>2
    <3>2. tail_id[l] # None
      BY <1>1, <2>2, <3>1, Ids DEF ThreadInv
    <3>3. f <= n
      BY <1>1, <1>5, <1>7, <3>2 DEF LockInv, Ends
    <3> QED
      BY <1>1, <1>5, <1>7, <3>1, <3>3 DEF LockInv, Ends
  <2> QED
    BY <2>1, <2>2
<1>10. \A u \in Thread : /\ Owns(u, l)' <=> Owns(u, l)
                         /\ Hand(u, l)' <=> Hand(u, l)
  BY <1>1, <1>2, <1>6, Ids DEF Same, Owns, Hand, Releasing, Enqueuing, ThreadInv, held
<1>11. Hands(l)'
  BY <1>1, <1>9, <1>10, SameHands, Ids DEF LockInv
<1>12. Ends(l)'
  <2>1. f <= n + 1
    BY <1>1 DEF LockInv, Ends
  <2>2. head_id'[l] = At(l, f)'
    <3>1. CASE n < f
      BY <1>3, <1>5, <1>7, <1>9, <2>1, <3>1
    <3>2. CASE f <= n
      BY <1>1, <1>3, <1>5, <1>7, <1>9, <3>2 DEF LockInv, Ends
    <3> QED
      BY <1>5, <1>7, <3>1, <3>2
  <2> QED
    BY <1>3, <1>5, <1>7, <1>8, <2>1, <2>2 DEF Ends
<1>13. Members(l)'
  <2>1. \A i \in 1 .. n + 1 : i \in 1 .. n \/ i = n + 1
    BY <1>7
  <2>2. \A i \in 1 .. n : Queued(At(l, i))' /\ lck'[At(l, i)] = l
    BY <1>3, <1>7 DEF Same, Queued
  <2>3. \A u \in Thread \ {t} : Queued(u)' /\ lck'[u] = l => Queued(u) /\ lck[u] = l
    BY <1>2 DEF Same, Queued
  <2>4. ASSUME NEW u \in Thread, Queued(u)', lck'[u] = l
        PROVE  \E i \in 1 .. n + 1 : At(l, i)' = u
    <3>1. CASE u = t
      BY <1>3, <1>7, <3>1
    <3>2. CASE u # t
      <4>1. PICK i \in 1 .. n : At(l, i) = u
        BY <1>1, <2>3, <2>4, <3>2 DEF LockInv, Members
      <4> QED
        BY <1>3, <1>7, <4>1
    <3> QED
      BY <3>1, <3>2
  <2>5. \A i, j \in 1 .. n + 1 : At(l, i)' = At(l, j)' => i = j
    BY <1>1, <1>3, <1>7, <2>1 DEF LockInv, Members
  <2>6. lck'[t] = l
    BY DEF held
  <2>7. \A i \in 1 .. n + 1 : Queued(At(l, i))' /\ lck'[At(l, i)'] = l
    BY <1>3, <1>6, <2>1, <2>2, <2>6
  <2> QED
    BY <1>3, <2>4, <2>5, <2>7 DEF Members
<1>14. Links(l)'
  <2>1. ASSUME NEW i \in 1 .. n + 1, i <= f
        PROVE  pc'[At(l, i)'] = "spin"
    <3>1. CASE i \in 1 .. n
      BY <1>1, <1>3, <1>7, <2>1, <3>1 DEF LockInv, Links, Same
    <3>2. CASE i = n + 1
      BY <1>1, <1>3, <1>5, <1>7, <1>9, <2>1, <3>2
    <3> QED
      BY <1>7, <3>1, <3>2
  <2>2. ASSUME NEW i \in 1 .. n + 1, f <= i, i < n + 1
        PROVE  Linked(l, i)'
    <3>1. CASE i < n
      <4>1. i \in 1 .. n /\ i + 1 \in 1 .. n /\ Linked(l, i)
        BY <1>1, <1>7, <2>2, <3>1 DEF LockInv, Links
      <4>2. At(l, i)' = At(l, i) /\ At(l, i + 1)' = At(l, i + 1)
            /\ Same(At(l, i)) /\ Same(At(l, i + 1))
        BY <1>3, <1>7, <4>1
      <4> QED
        BY <4>1, <4>2 DEF Linked, Same
    <3>2. CASE i = n
      <4>1. n \in 1 .. n /\ to = "link" /\ seen[t] = At(l, n) /\ f <= n
        BY <1>5, <1>7, <1>9, <2>2, <3>2
      <4>2. At(l, n)' = At(l, n) /\ next_waiting'[At(l, n)] = None
        BY <1>1, <1>3, <1>7, <4>1 DEF LockInv, Links, Same
      <4>3. pc'[At(l, n + 1)'] = "link" /\ seen'[At(l, n + 1)'] = At(l, n)'
        BY <1>1, <1>3, <4>1, <4>2
      <4> QED
        BY <3>2, <4>2, <4>3 DEF Linked
    <3> QED
      BY <1>7, <2>2, <3>1, <3>2
  <2> QED
    BY <1>3, <1>5, <1>6, <2>1, <2>2 DEF Links
<1>15. ThreadInv(t)'
  BY <1>1, <1>6 DEF ThreadInv, Enqueuing, held
<1>16. \A u \in Thread : ThreadInv(u)'
  BY <1>2, <1>15, OtherThread DEF IInv, ThreadInv, held
<1>17. ASSUME NEW u \in Thread, lck'[u] = l PROVE Releaser(u, l)'
  <2>1. CASE u = t
    BY <1>1, <2>1 DEF Releaser
  <2>2. CASE u # t
    <3>1. Same(u) /\ Releaser(u, l)
      BY <1>1, <1>2, <1>17, <2>2 DEF LockInv, Same
    <3>2. pc[u] \in {"releaseTail", "dequeueLast", "dequeue"} =>
            /\ head_id'[l] = head_id[l]
            /\ seen[u] # t
      <4> SUFFICES ASSUME pc[u] \in {"releaseTail", "dequeueLast", "dequeue"}
                   PROVE  head_id'[l] = head_id[l] /\ seen[u] # t
        OBVIOUS
      <4>1. head_id[l] = seen[u] /\ seen[u] \in Thread
        BY <3>1 DEF Releaser
      <4>2. f <= n /\ head_id'[l] = head_id[l]
        BY <1>9, <4>1, Ids
      <4>3. seen[u] = At(l, f) /\ f \in 1 .. n
        BY <1>1, <1>5, <1>7, <4>1, <4>2 DEF LockInv, Ends
      <4> QED
        BY <1>7, <4>2, <4>3
    <3>3. pc[u] \in {"unlink", "wake"} => 1 \in 1 .. n
      <4>1. pc[u] \in {"unlink", "wake"} => f = 2
        BY <1>17, <3>1, FirstIs DEF Waking, Same
      <4> QED
        BY <1>1, <1>7, <4>1 DEF LockInv, Ends
    <3>4. pc[u] \in {"unlink", "wake"} =>
            At(l, 1)' = At(l, 1) /\ next_waiting'[At(l, 1)] = next_waiting[At(l, 1)]
      BY <1>3, <1>7, <3>3 DEF Same
    <3> QED
      BY <1>8, <3>1, <3>2, <3>4 DEF Releaser, Same
  <2> QED
    BY <2>1, <2>2
<1>18. FifoStep(l)
  <2>1. ~Owns(t, l)
    BY <1>1 DEF Owns, ThreadInv, Enqueuing
  <2> QED
    BY <1>7, <1>8, <1>10, <2>1 DEF FifoStep, Owner
<1> QED
  BY <1>2, <1>8, <1>11, <1>12, <1>13, <1>14, <1>16, <1>17, <1>18, OneLock
     DEF LockInv, Same

LEMMA EnqueueFirstKept ==
  ASSUME IInv, TypeOK', NEW t \in Thread, NEW l \in Lock, lck[t] = l, EnqueueFirst(t)
  PROVE  Kept
BY JoinKept, RetryKept DEF EnqueueFirst, Enqueuing

LEMMA EnqueueKept ==
  ASSUME IInv, TypeOK', NEW t \in Thread, NEW l \in Lock, lck[t] = l, Enqueue(t)
  PROVE  Kept
BY JoinKept, RetryKept DEF Enqueue, Enqueuing

-----------------------------------------------------------------------------
(* The steps in the queue. *)
LEMMA LinkKept ==
  ASSUME IInv, TypeOK', NEW t \in Thread, NEW l \in Lock, lck[t] = l, Link(t)
  PROVE  Kept
<1>0. PICK n, f : n = N(l) /\ f = First(l)
  OBVIOUS
<1> USE <1>0 DEF Link, Goto
<1>1. /\ TypeOK /\ ThreadInv(t) /\ LockInv(l)
      /\ pc[t] = "link" /\ pc'[t] = "spin" /\ spin_here[t]
  BY DEF IInv, TypeOK, ThreadInv
<1>2. /\ n \in Nat
      /\ \A i \in 1 .. n : /\ At(l, i) \in Thread /\ Queued(At(l, i))
                           /\ lck[At(l, i)] = l
  BY <1>1, Queues DEF LockInv, Members
<1>3. PICK j \in 1 .. n : At(l, j) = t
  BY <1>1 DEF LockInv, Members, Queued
<1>4. f \in {1, 2} /\ f < j
  BY <1>1, <1>2, <1>3, FirstIs DEF LockInv, Links
<1>5. /\ j - 1 \in 1 .. n /\ f <= j - 1
      /\ seen[t] = At(l, j - 1) /\ At(l, j - 1) # t
  <2>1. j - 1 \in 1 .. n /\ f <= j - 1 /\ j - 1 < n
    BY <1>2, <1>3, <1>4
  <2>2. Linked(l, j - 1) /\ At(l, (j - 1) + 1) = t
    BY <1>1, <1>2, <1>3, <2>1 DEF LockInv, Links
  <2>3. At(l, j - 1) # t
    BY <1>1, <1>3, <2>1 DEF LockInv, Members
  <2> QED
    BY <1>1, <2>1, <2>2, <2>3 DEF Linked
<1>6. /\ \A u \in Thread \ {t, seen[t]} : Same(u)
      /\ \A u \in Thread : lck'[u] = lck[u] /\ seen'[u] = seen[u]
                           /\ spin_here'[u] = spin_here[u]
      /\ \A u \in Thread \ {t} : pc'[u] = pc[u]
      /\ next_waiting'[seen[t]] = t /\ next_waiting'[t] = next_waiting[t]
      /\ \A i \in 1 .. n : i # j - 1 => next_waiting'[At(l, i)] = next_waiting[At(l, i)]
  BY <1>1, <1>2, <1>5 DEF Same, TypeOK, LockInv, Members
<1>7. /\ UNCHANGED <<head_id, tail_id, owner_id, waiting>>
      /\ \A k \in Lock : SameLock(k)
      /\ N(l)' = n /\ \A i : At(l, i)' = At(l, i)
  BY DEF ids, held, SameLock, N, At
<1>8. \A u \in Thread : /\ Owns(u, l)' <=> Owns(u, l)
                        /\ Hand(u, l)' <=> Hand(u, l)
                        /\ Waking(u, l)' <=> Waking(u, l)
                        /\ Queued(u)' <=> Queued(u)
  BY <1>1, <1>6, <1>7 DEF Owns, Hand, Waking, Queued, Releasing
<1>9. First(l)' = f
  BY <1>8 DEF First
<1>10. Hands(l)'
  BY <1>1, <1>7, <1>8 DEF LockInv, Hands
<1>11. Ends(l)'
  BY <1>1, <1>7, <1>9 DEF LockInv, Ends
<1>12. Members(l)'
  BY <1>1, <1>2, <1>6, <1>7, <1>8 DEF LockInv, Members
<1>13. Links(l)'
  <2>1. ASSUME NEW i \in 1 .. n, i <= f
        PROVE  pc'[At(l, i)] = "spin"
    BY <1>1, <1>2, <1>6, <2>1 DEF LockInv, Links
  <2>2. ASSUME NEW i \in 1 .. n, f <= i, i < n
        PROVE  Linked(l, i)'
    <3>1. i + 1 \in 1 .. n /\ Linked(l, i)
      BY <1>1, <1>2, <2>2 DEF LockInv, Links
    <3>2. CASE i = j - 1
      <4>1. At(l, i + 1) = t
        BY <1>3, <3>2
      <4> QED
        BY <1>1, <1>5, <1>6, <1>7, <3>2, <4>1 DEF Linked
    <3>3. CASE i # j - 1
      <4>1. i + 1 # j
        BY <1>3, <3>3
      <4>2. At(l, i + 1) \in Thread \ {t}
        BY <1>1, <1>2, <1>3, <3>1, <4>1 DEF LockInv, Members
      <4> QED
        BY <1>6, <1>7, <3>1, <3>3, <4>2 DEF Linked
    <3> QED
      BY <3>2, <3>3
  <2>3. f <= n => next_waiting'[At(l, n)] = None
    <3>1. n \in 1 .. n /\ n # j - 1
      BY <1>2, <1>3
    <3> QED
      BY <1>1, <1>6, <3>1 DEF LockInv, Links
  <2> QED
    BY <1>7, <1>9, <2>1, <2>2, <2>3 DEF Links
<1>14. ASSUME NEW u \in Thread PROVE ThreadInv(u)'
  <2>1. Queued(seen[t])' /\ Queued(t)'
    BY <1>1, <1>2, <1>5, <1>8 DEF Queued
  <2> QED
    BY <1>1, <1>2, <1>5, <1>6, <1>7, <1>8, <2>1 DEF IInv, ThreadInv, Same, Enqueuing
<1>15. ASSUME NEW u \in Thread, lck'[u] = l PROVE Releaser(u, l)'
  <2>1. CASE u = t
    BY <1>1, <2>1 DEF Releaser
  <2>2. CASE u # t
    <3>1. Releaser(u, l) /\ pc'[u] = pc[u] /\ seen'[u] = seen[u] /\ lck[u] = l
      BY <1>1, <1>6, <1>15, <2>2 DEF LockInv
    <3>2. pc[u] = "wake" => next_waiting'[At(l, 1)] = next_waiting[At(l, 1)]
      <4>1. pc[u] = "wake" => f = 2
        BY <3>1, FirstIs DEF Waking
      <4>2. f = 2 => 1 \in 1 .. n /\ 1 # j - 1
        BY <1>2, <1>3, <1>4
      <4> QED
        BY <1>6, <4>1, <4>2
    <3> QED
      BY <1>7, <3>1, <3>2 DEF Releaser
  <2> QED
    BY <2>1, <2>2
<1>16. FifoStep(l)
  BY <1>7, <1>8, Stays
<1>17. \A u \in Thread \ {t} : lck'[u] = lck[u] /\ (lck[u] # l => Same(u))
  BY <1>2, <1>5, <1>6
<1>18. LockInv(l)'
  BY <1>10, <1>11, <1>12, <1>13, <1>15 DEF LockInv
<1> QED
  BY <1>6, <1>7, <1>14, <1>16, <1>17, <1>18, OneLock

LEMMA ShiftKept ==
  ASSUME IInv, TypeOK', NEW t \in Thread, NEW l \in Lock, lck[t] = l,
         NEW from \in {"dequeueLast", "dequeue"}, Goto(t, from, "unlink"),
         N(l) >= 1, seen[t] = At(l, 1),
         \/ N(l) = 1 /\ head_id'[l] = Held /\ tail_id'[l] = None
         \/ /\ N(l) >= 2 /\ pc[At(l, 2)] = "spin"
            /\ head_id'[l] = At(l, 2) /\ tail_id'[l] = tail_id[l],
         \A k \in Lock \ {l} : head_id'[k] = head_id[k] /\ tail_id'[k] = tail_id[k],
         UNCHANGED <<held, fields, lck, seen, waiting>>
  PROVE  Kept
<1>0. PICK n : n = N(l)
  OBVIOUS
<1> USE <1>0
<1>1. /\ TypeOK /\ ThreadInv(t) /\ LockInv(l)
      /\ pc[t] = from /\ pc'[t] = "unlink"
  BY DEF IInv, TypeOK, Goto
<1>2. \A u \in Thread \ {t} : Same(u)
  BY <1>1 DEF Same, fields, TypeOK, Goto
<1>3. /\ n \in Nat
      /\ \A i \in 1 .. n : /\ At(l, i) \in Thread \ {t} /\ Queued(At(l, i))
                           /\ lck[At(l, i)] = l
  BY <1>1, Queues DEF LockInv, Members, Queued
<1>4. /\ Hand(t, l) /\ Hand(t, l)' /\ ~Waking(t, l) /\ Waking(t, l)'
      /\ ~Owns(t, l) /\ ~Owns(t, l)'
  BY <1>1 DEF Hand, Releasing, Waking, Owns, ThreadInv, held
<1>5. First(l) = 1 /\ First(l)' = 2 /\ \A u \in Thread : Hand(u, l) => u = t
  BY <1>1, <1>4, NotWaking DEF First, LockInv, Hands
<1>6. /\ \A k \in Lock \ {l} : SameLock(k)
      /\ N(l)' = n /\ \A i : At(l, i)' = At(l, i)
  BY DEF SameLock, held, N, At
<1>7. \A u \in Thread : /\ Owns(u, l)' <=> Owns(u, l)
                        /\ Hand(u, l)' <=> Hand(u, l)
                        /\ Queued(u)' <=> Queued(u)
  BY <1>1, <1>2, <1>4 DEF Owns, Hand, Queued, Same, held
<1>8. Hands(l)'
  <2>1. head_id'[l] # None
    BY <1>3, Ids
  <2>2. head_id[l] # None
    BY <1>1, <1>4 DEF LockInv, Hands
  <2> QED
    BY <1>1, <1>7, <2>1, <2>2 DEF LockInv, Hands
<1>9. Ends(l)'
  BY <1>1, <1>3, <1>5, <1>6 DEF LockInv, Ends
<1>10. Members(l)'
  BY <1>1, <1>3, <1>6, <1>7 DEF LockInv, Members, held
<1>11. Links(l)'
  <2>1. ASSUME NEW i \in 1 .. n, i <= 2
        PROVE  pc'[At(l, i)] = "spin"
    <3>1. pc[At(l, i)] = "spin"
      <4>1. CASE i = 1
        BY <1>1, <1>3, <1>5, <4>1 DEF LockInv, Links
      <4>2. CASE i = 2
        BY <1>3, <4>2
      <4> QED
        BY <2>1, <4>1, <4>2
    <3> QED
      BY <1>2, <1>3, <3>1 DEF Same
  <2>2. ASSUME NEW i \in 1 .. n, 2 <= i, i < n
        PROVE  Linked(l, i)'
    <3>1. i + 1 \in 1 .. n /\ Linked(l, i)
      BY <1>1, <1>3, <1>5, <2>2 DEF LockInv, Links
    <3> QED
      BY <1>2, <1>3, <1>6, <3>1 DEF Linked, Same
  <2>3. next_waiting'[At(l, n)] = None
    BY <1>1, <1>3, <1>5 DEF LockInv, Links, fields
  <2> QED
    BY <1>5, <1>6, <2>1, <2>2, <2>3 DEF Links
<1>12. ThreadInv(t)'
  BY <1>1 DEF ThreadInv, Queued, Enqueuing, fields, held
<1>13. \A u \in Thread : ThreadInv(u)'
  BY <1>2, <1>12, OtherThread DEF IInv, ThreadInv, held
<1>14. ASSUME NEW u \in Thread, lck'[u] = l PROVE Releaser(u, l)'
  <2>1. CASE u = t
    BY <1>1, <1>6, <2>1 DEF Releaser
  <2>2. CASE u # t
    BY <1>2, <1>5, <1>14, <2>2 DEF Releaser, Hand, Releasing, Same
  <2> QED
    BY <2>1, <2>2
<1>15. FifoStep(l)
  BY <1>7, Stays
<1> QED
  BY <1>2, <1>6, <1>8, <1>9, <1>10, <1>11, <1>13, <1>14, <1>15, OneLock
     DEF LockInv, Same

(* What a thread that is about to take the first one off the queue knows. *)
LEMMA Taker ==
  ASSUME IInv, NEW t \in Thread, NEW l \in Lock, lck[t] = l,
         pc[t] \in {"dequeueLast", "dequeue"}
  PROVE  /\ N(l) \in Nat /\ N(l) >= 1 /\ First(l) = 1
         /\ seen[t] = At(l, 1) /\ tail_id[l] = At(l, N(l)) /\ head_id[l] = seen[t]
         /\ At(l, 1) \in Thread
         /\ tail_id[l] = seen[t] <=> N(l) = 1
<1>1. TypeOK /\ LockInv(l) /\ Releaser(t, l)
  BY DEF IInv, LockInv
<1>2. First(l) = 1
  BY <1>1, NotWaking DEF LockInv, Hand, Releasing, Waking
<1>3. head_id[l] = seen[t] /\ seen[t] \in Thread
  BY <1>1 DEF Releaser
<1>4. N(l) \in Nat /\ N(l) >= 1
  BY <1>1, <1>2, <1>3, Queues, Ids DEF LockInv, Ends
<1>5. seen[t] = At(l, 1) /\ tail_id[l] = At(l, N(l))
  BY <1>1, <1>2, <1>3, <1>4 DEF LockInv, Ends
<1> QED
  BY <1>1, <1>2, <1>3, <1>4, <1>5 DEF LockInv, Members

LEMMA DequeueLastKept ==
  ASSUME IInv, TypeOK', NEW t \in Thread, NEW l \in Lock, lck[t] = l, DequeueLast(t)
  PROVE  Kept
<1> SUFFICES ASSUME Goto(t, "dequeueLast", "unlink"),
                    head_id[l] = seen[t], tail_id[l] = seen[t],
                    head_id' = [head_id EXCEPT ![l] = Held],
                    tail_id' = [tail_id EXCEPT ![l] = None],
                    UNCHANGED <<held, fields, lck, seen, waiting>>
             PROVE  Kept
  BY RetryKept DEF DequeueLast
<1>1. /\ head_id'[l] = Held /\ tail_id'[l] = None
      /\ \A k \in Lock \ {l} : head_id'[k] = head_id[k] /\ tail_id'[k] = tail_id[k]
  BY DEF IInv, TypeOK
<1>2. N(l) = 1 /\ seen[t] = At(l, 1)
  BY Taker DEF Goto
<1> QED
  BY <1>1, <1>2, ShiftKept

LEMMA DequeueKept ==
  ASSUME IInv, TypeOK', NEW t \in Thread, NEW l \in Lock, lck[t] = l, Dequeue(t)
  PROVE  Kept
<1>1. /\ TypeOK /\ LockInv(l) /\ Releaser(t, l) /\ pc[t] = "dequeue"
      /\ next_waiting[seen[t]] # None
  BY DEF IInv, LockInv, Dequeue, Goto
<1>2. /\ head_id'[l] = next_waiting[seen[t]] /\ tail_id'[l] = tail_id[l]
      /\ \A k \in Lock \ {l} : head_id'[k] = head_id[k] /\ tail_id'[k] = tail_id[k]
  BY <1>1 DEF Dequeue, TypeOK
<1>3. N(l) \in Nat /\ N(l) >= 2 /\ First(l) = 1 /\ seen[t] = At(l, 1)
  BY <1>1, Taker DEF Releaser
<1>4. Linked(l, 1) /\ 1 + 1 = 2 /\ Queued(At(l, 2))
  BY <1>1, <1>3 DEF LockInv, Links, Members
<1>5. head_id'[l] = At(l, 2) /\ pc[At(l, 2)] = "spin"
  BY <1>1, <1>2, <1>3, <1>4 DEF Linked, Queued
<1> QED
  BY <1>2, <1>3, <1>5, ShiftKept DEF Dequeue

LEMMA UnlinkKept ==
  ASSUME IInv, TypeOK', NEW t \in Thread, NEW l \in Lock, lck[t] = l, Unlink(t)
  PROVE  Kept
<1>0. PICK n : n = N(l)
  OBVIOUS
<1> USE <1>0 DEF Unlink, Goto
<1>1. /\ TypeOK /\ ThreadInv(t) /\ LockInv(l)
      /\ pc[t] = "unlink" /\ pc'[t] = "wake"
  BY DEF IInv, TypeOK
<1>2. /\ n \in Nat /\ 1 \in 1 .. n /\ First(l) = 2
      /\ seen[t] = At(l, 1) /\ seen[t] \in Thread \ {t}
      /\ \A i \in 1 .. n : /\ At(l, i) \in Thread \ {t} /\ Queued(At(l, i))
                           /\ lck[At(l, i)] = l
  BY <1>1, WokenIsFirst, Queues DEF LockInv, Members, Queued
<1>3. /\ \A u \in Thread \ {t, seen[t]} : Same(u)
      /\ \A u \in Thread : lck'[u] = lck[u] /\ seen'[u] = seen[u]
                           /\ spin_here'[u] = spin_here[u]
      /\ \A u \in Thread \ {t} : pc'[u] = pc[u]
      /\ next_waiting'[seen[t]] = None /\ next_waiting'[t] = next_waiting[t]
      /\ \A i \in 1 .. n : i # 1 => next_waiting'[At(l, i)] = next_waiting[At(l, i)]
  BY <1>1, <1>2 DEF Same, TypeOK, LockInv, Members
<1>4. /\ UNCHANGED <<head_id, tail_id, owner_id, waiting>>
      /\ \A k \in Lock : SameLock(k)
      /\ N(l)' = n /\ \A i : At(l, i)' = At(l, i)
  BY DEF ids, held, SameLock, N, At
<1>5. \A u \in Thread : /\ Owns(u, l)' <=> Owns(u, l)
                        /\ Hand(u, l)' <=> Hand(u, l)
                        /\ Waking(u, l)' <=> Waking(u, l)
                        /\ Queued(u)' <=> Queued(u)
  BY <1>1, <1>3, <1>4 DEF Owns, Hand, Waking, Queued, Releasing
<1>6. First(l)' = 2
  BY <1>2, <1>5 DEF First
<1>7. Hands(l)'
  BY <1>1, <1>4, <1>5 DEF LockInv, Hands
<1>8. Ends(l)'
  BY <1>1, <1>2, <1>4, <1>6 DEF LockInv, Ends
<1>9. Members(l)'
  BY <1>1, <1>2, <1>3, <1>4, <1>5 DEF LockInv, Members
<1>10. Links(l)'
  <2>1. ASSUME NEW i \in 1 .. n, i <= 2
        PROVE  pc'[At(l, i)] = "spin"
    BY <1>1, <1>2, <1>3, <2>1 DEF LockInv, Links
  <2>2. ASSUME NEW i \in 1 .. n, 2 <= i, i < n
        PROVE  Linked(l, i)'
    <3>1. i + 1 \in 1 .. n /\ Linked(l, i)
      BY <1>1, <1>2, <2>2 DEF LockInv, Links
    <3> QED
      BY <1>2, <1>3, <1>4, <2>2, <3>1 DEF Linked
  <2>3. 2 <= n => next_waiting'[At(l, n)] = None
    BY <1>1, <1>2, <1>3 DEF LockInv, Links
  <2> QED
    BY <1>4, <1>6, <2>1, <2>2, <2>3 DEF Links
<1>11. ASSUME NEW u \in Thread PROVE ThreadInv(u)'
  BY <1>1, <1>2, <1>3, <1>4, <1>5 DEF IInv, ThreadInv, Same, Enqueuing
<1>12. ASSUME NEW u \in Thread, lck'[u] = l PROVE Releaser(u, l)'
  <2>1. CASE u = t
    BY <1>1, <1>2, <1>3, <1>4, <2>1 DEF Releaser
  <2>2. CASE u # t
    <3>1. ~Hand(u, l)
      BY <1>1, <2>2 DEF LockInv, Hands, Hand, Releasing
    <3> QED
      BY <1>3, <1>12, <2>2, <3>1 DEF Releaser, Hand, Releasing
  <2> QED
    BY <2>1, <2>2
<1>13. FifoStep(l)
  BY <1>4, <1>5, Stays
<1>14. \A u \in Thread \ {t} : lck'[u] = lck[u] /\ (lck[u] # l => Same(u))
  BY <1>2, <1>3
<1>15. LockInv(l)'
  BY <1>7, <1>8, <1>9, <1>10, <1>12 DEF LockInv
<1> QED
  BY <1>3, <1>4, <1>11, <1>13, <1>14, <1>15, OneLock

LEMMA Tails ==
  ASSUME NEW S, NEW w \in Seq(S), w # <<>>
  PROVE  /\ Len(Tail(w)) = Len(w) - 1
         /\ \A i \in 1 .. Len(w) - 1 : Tail(w)[i] = w[i + 1]
OBVIOUS

LEMMA WakeKept ==
  ASSUME IInv, TypeOK', NEW t \in Thread, NEW l \in Lock, lck[t] = l, Wake(t)
  PROVE  Kept
<1>0. PICK n, p : n = N(l) /\ p = seen[t]
  OBVIOUS
<1> USE <1>0 DEF Wake, Return, Goto
<1>1. /\ TypeOK /\ ThreadInv(t) /\ LockInv(l) /\ Releaser(t, l)
      /\ pc[t] = "wake" /\ pc'[t] = "user" /\ lck'[t] = None
  BY DEF IInv, LockInv, TypeOK
<1>2. /\ n \in Nat /\ 1 \in 1 .. n /\ First(l) = 2
      /\ p = At(l, 1) /\ p \in Thread \ {t} /\ next_waiting[p] = None
      /\ pc[p] = "spin" /\ lck[p] = l
      /\ \A i \in 1 .. n : /\ At(l, i) \in Thread \ {t} /\ Queued(At(l, i))
                           /\ lck[At(l, i)] = l
  BY <1>1, WokenIsFirst, Queues DEF LockInv, Members, Links, Queued, Releaser
<1>3. /\ \A u \in Thread \ {t, p} : Same(u)
      /\ \A u \in Thread \ {t} : pc'[u] = pc[u] /\ lck'[u] = lck[u] /\ seen'[u] = seen[u]
      /\ \A u \in Thread : next_waiting'[u] = next_waiting[u]
      /\ spin_here'[t] = spin_here[t] /\ spin_here'[p] = FALSE
  <2>1. next_waiting' = next_waiting /\ spin_here' = [spin_here EXCEPT ![p] = FALSE]
    OBVIOUS
  <2>2. /\ \A u \in Thread \ {p} : spin_here'[u] = spin_here[u]
        /\ spin_here'[p] = FALSE
    BY <1>1, <1>2, <2>1 DEF TypeOK
  <2>3. \A u \in Thread \ {t} : pc'[u] = pc[u] /\ lck'[u] = lck[u] /\ seen'[u] = seen[u]
    BY <1>1 DEF TypeOK
  <2> QED
    BY <1>2, <2>1, <2>2, <2>3 DEF Same
<1>4. /\ UNCHANGED <<head_id, tail_id, owner_id>>
      /\ \A k \in Lock \ {l} : SameLock(k)
      /\ waiting[l] \in Seq(Thread) /\ waiting[l] # <<>>
      /\ waiting'[l] = Tail(waiting[l])
  BY <1>1, <1>2 DEF ids, held, SameLock, TypeOK, N
<1>5. /\ N(l)' = n - 1
      /\ \A i \in 1 .. n - 1 : At(l, i)' = At(l, i + 1)
  BY <1>4, Tails DEF N, At
<1>6. /\ \A i \in 1 .. n - 1 : i + 1 \in 1 .. n /\ At(l, i + 1) \in Thread \ {t, p}
      /\ \A i, j \in 1 .. n : At(l, i) = At(l, j) => i = j
  BY <1>1, <1>2 DEF LockInv, Members
<1>7. /\ Hand(t, l) /\ ~Owns(t, l) /\ ~Hand(t, l)'
      /\ \A u \in Thread \ {t} : ~Hand(u, l)
  BY <1>1, <1>4, Ids DEF Hand, Owns, Releasing, ThreadInv, LockInv, Hands
<1>8. Owns(p, l)' /\ \A u \in Thread \ {p} : ~Hand(u, l)'
  <2>1. Owns(p, l)'
    BY <1>2, <1>3 DEF Owns
  <2>2. ASSUME NEW u \in Thread \ {t, p} PROVE ~Hand(u, l)'
    BY <1>3, <1>4, <1>7 DEF Hand, Owns, Same
  <2> QED
    BY <1>7, <2>1, <2>2
<1>9. First(l)' = 1
  <2>1. \A u \in Thread : ~Waking(u, l)'
    BY <1>2, <1>3, <1>8 DEF Waking, Hand, Releasing
  <2> QED
    BY <2>1 DEF First
<1>10. Hands(l)'
  <2>1. head_id'[l] # None
    BY <1>1, <1>4, <1>7 DEF LockInv, Hands
  <2> QED
    BY <1>2, <1>8, <2>1 DEF Hands, Hand
<1>11. Ends(l)'
  <2>1. CASE n < 2
    BY <1>1, <1>2, <1>4, <1>5, <1>9, <2>1 DEF LockInv, Ends
  <2>2. CASE n >= 2
    <3>1. head_id[l] = At(l, 2) /\ tail_id[l] = At(l, n)
      BY <1>1, <1>2, <2>2 DEF LockInv, Ends
    <3>2. 1 \in 1 .. n - 1 /\ n - 1 \in 1 .. n - 1 /\ (n - 1) + 1 = n /\ 1 + 1 = 2
      BY <1>2, <2>2
    <3>3. At(l, 1)' = At(l, 2) /\ At(l, n - 1)' = At(l, n)
      BY <1>5, <3>2
    <3> QED
      BY <1>4, <1>5, <1>9, <3>1, <3>2, <3>3 DEF Ends
  <2> QED
    BY <1>2, <2>1, <2>2
<1>12. Members(l)'
  <2>1. ASSUME NEW i \in 1 .. n - 1
        PROVE  Queued(At(l, i))' /\ lck'[At(l, i)'] = l
    <3>1. At(l, i)' = At(l, i + 1) /\ Queued(At(l, i + 1)) /\ lck[At(l, i + 1)] = l
          /\ Same(At(l, i + 1))
      BY <1>2, <1>3, <1>5, <1>6
    <3> QED
      BY <3>1 DEF Queued, Same
  <2>2. ASSUME NEW i \in 1 .. n - 1, NEW j \in 1 .. n - 1, At(l, i)' = At(l, j)'
        PROVE  i = j
    BY <1>2, <1>5, <1>6, <2>2
  <2>3. ASSUME NEW u \in Thread, Queued(u)', lck'[u] = l
        PROVE  \E i \in 1 .. n - 1 : At(l, i)' = u
    <3>1. u # p /\ u # t /\ Queued(u) /\ lck[u] = l
      BY <1>1, <1>2, <1>3, <2>3, Ids DEF Queued, Same
    <3>2. PICK i \in 1 .. n : At(l, i) = u
      BY <1>1, <3>1 DEF LockInv, Members
    <3>3. i - 1 \in 1 .. n - 1 /\ (i - 1) + 1 = i
      BY <1>2, <3>1, <3>2
    <3>4. At(l, i - 1)' = u
      BY <1>5, <3>2, <3>3
    <3> QED
      BY <3>3, <3>4
  <2> QED
    BY <1>5, <2>1, <2>2, <2>3 DEF Members
<1>13. Links(l)'
  <2>1. ASSUME NEW i \in 1 .. n - 1, i <= 1
        PROVE  pc'[At(l, i)'] = "spin"
    <3>1. i + 1 \in 1 .. n /\ i + 1 <= 2
      BY <1>2, <2>1
    <3>2. pc[At(l, i + 1)] = "spin"
      BY <1>1, <1>2, <3>1 DEF LockInv, Links
    <3> QED
      BY <1>3, <1>5, <1>6, <3>2
  <2>2. ASSUME NEW i \in 1 .. n - 1, 1 <= i, i < n - 1
        PROVE  Linked(l, i)'
    <3>1. i + 1 \in 1 .. n - 1 /\ i + 1 \in 1 .. n /\ 2 <= i + 1 /\ i + 1 < n
      BY <1>2, <2>2
    <3>2. Linked(l, i + 1)
      BY <1>1, <1>2, <3>1 DEF LockInv, Links
    <3>3. At(l, i)' = At(l, i + 1) /\ At(l, i + 1)' = At(l, (i + 1) + 1)
          /\ Same(At(l, i + 1)) /\ Same(At(l, (i + 1) + 1))
      BY <1>3, <1>5, <1>6, <3>1
    <3> QED
      BY <3>2, <3>3 DEF Linked, Same
  <2>3. ASSUME 1 <= n - 1 PROVE next_waiting'[At(l, n - 1)'] = None
    <3>1. n - 1 \in 1 .. n - 1 /\ (n - 1) + 1 = n /\ n \in 1 .. n /\ 2 <= n
      BY <1>2, <2>3
    <3>2. At(l, n - 1)' = At(l, n) /\ next_waiting[At(l, n)] = None
      BY <1>1, <1>2, <1>5, <3>1 DEF LockInv, Links
    <3> QED
      BY <1>2, <1>3, <3>1, <3>2
  <2> QED
    BY <1>5, <1>9, <2>1, <2>2, <2>3 DEF Links
<1>14. ASSUME NEW u \in Thread PROVE ThreadInv(u)'
  <2>1. CASE u = t
    BY <1>1, <1>3, <2>1, Ids DEF ThreadInv, Queued, Enqueuing
  <2>2. CASE u = p
    BY <1>1, <1>2, <1>3, <1>4, <2>2, Ids DEF IInv, ThreadInv, Queued, Enqueuing
  <2>3. CASE u \notin {t, p}
    BY <1>3, <1>4, <2>3, OtherThread DEF IInv, ThreadInv
  <2> QED
    BY <2>1, <2>2, <2>3
<1>15. ASSUME NEW u \in Thread, lck'[u] = l PROVE Releaser(u, l)'
  BY <1>2, <1>3, <1>8, <1>15 DEF Releaser, Hand, Releasing
<1>16. FifoStep(l)
  <2>1. Owner(l) = {} /\ Owner(l)' = {p}
    BY <1>2, <1>7, <1>8 DEF Owner, Hand
  <2>2. p = Head(waiting[l])
    BY <1>2, <1>4 DEF At
  <2> QED
    BY <1>2, <1>4, <2>1, <2>2 DEF FifoStep
<1>17. \A u \in Thread \ {t} : lck'[u] = lck[u] /\ (lck[u] # l => Same(u))
  BY <1>2, <1>3
<1>18. LockInv(l)'
  BY <1>10, <1>11, <1>12, <1>13, <1>15 DEF LockInv
<1> QED
  BY <1>1, <1>4, <1>14, <1>16, <1>17, <1>18, OneLock

-----------------------------------------------------------------------------
(* The theorems. *)
LEMMA InitIInv == Init => IInv
<1> SUFFICES ASSUME Init PROVE IInv
  OBVIOUS
<1> USE DEF Init
<1>1. TypeOK
  <2>1. <<>> \in Seq(Thread)
    OBVIOUS
  <2> QED
    BY <2>1 DEF TypeOK, None
<1>2. ASSUME NEW t \in Thread PROVE ThreadInv(t)
  BY Ids DEF ThreadInv, Queued, Enqueuing
<1>3. ASSUME NEW l \in Lock PROVE LockInv(l)
  <2>1. \A t \in Thread : /\ ~Owns(t, l) /\ ~Hand(t, l) /\ ~Waking(t, l)
                          /\ ~Queued(t) /\ lck[t] # l
    BY Ids DEF Owns, Hand, Waking, Queued
  <2>2. First(l) = 1 /\ N(l) = 0
    BY <2>1 DEF First, N
  <2> QED
    BY <2>1, <2>2 DEF LockInv, Hands, Ends, Members, Links, None
<1> QED
  BY <1>1, <1>2, <1>3 DEF IInv

LEMMA NextKept ==
  ASSUME IInv, [Next]_vars
  PROVE  Kept
<1>1. CASE UNCHANGED vars
  <2>1. IInv'
    <3> SUFFICES UNCHANGED vars => (IInv <=> IInv')
      BY <1>1
    <3>1. ASSUME UNCHANGED vars, NEW t, NEW l
          PROVE  /\ Owns(t, l)' <=> Owns(t, l)
                 /\ Hand(t, l)' <=> Hand(t, l)
                 /\ Waking(t, l)' <=> Waking(t, l)
      BY <3>1 DEF vars, ids, held, fields, Owns, Hand, Waking
    <3> QED
      BY <1>1 DEF vars, ids, held, fields, IInv, TypeOK, ThreadInv, LockInv, Hands,
           Ends, Members, Links, Linked, Releaser, Queued, First, N, At, Owns, Hand,
           Waking
  <2>2. \A l \in Lock : FifoStep(l)
    BY <1>1, Stays DEF vars, ids, held, fields, Owns
  <2> QED
    BY <2>1, <2>2 DEF Kept
<1>2. CASE Next
  <2>1. TypeOK'
    BY <1>2, TypeStep
  <2>2. ASSUME NEW t \in Thread, NEW l \in Lock,
               \/ AcquireAgain(t, l) \/ Acquire(t, l) \/ Test(t, l)
               \/ ReleaseNested(t, l) \/ Release(t, l)
        PROVE  Kept
    BY <2>1, <2>2, AcquireAgainKept, AcquireKept, TestKept, ReleaseKept
  <2>3. ASSUME NEW t \in Thread, Call(t)
        PROVE  Kept
    <3>1. pc[t] # "user"
      BY <2>3 DEF Call, AcquireStep, ReleaseStep, ReadHead, Grab, Grabbed,
              EnqueueFirst, ReadTail, Enqueue, Link,
           Spin, Enter, ReleaseHead, Free, ReleaseTail, DequeueLast, Dequeue, Unlink,
           Wake, Goto, Return, Retry
    <3>2. PICK l \in Lock : lck[t] = l
      BY <3>1, InCall
    <3>3. ASSUME ReadHead(t) \/ Grab(t) \/ Grabbed(t) \/ EnqueueFirst(t)
                 \/ ReadTail(t) \/ Enqueue(t) \/ Link(t) \/ Spin(t) \/ Enter(t)
          PROVE  Kept
      BY <2>1, <3>2, <3>3, ReadHeadKept, GrabKept, GrabbedKept, EnqueueFirstKept,
         ReadTailKept, EnqueueKept, LinkKept, SpinKept, EnterKept
    <3>4. ASSUME ReleaseHead(t) \/ Free(t) \/ ReleaseTail(t) \/ DequeueLast(t)
                 \/ Dequeue(t) \/ Unlink(t) \/ Wake(t)
          PROVE  Kept
      BY <2>1, <3>2, <3>4, ReleaseHeadKept, FreeKept, ReleaseTailKept, DequeueLastKept,
         DequeueKept, UnlinkKept, WakeKept
    <3> QED
      BY <2>3, <3>3, <3>4 DEF Call, AcquireStep, ReleaseStep
  <2> QED
    BY <1>2, <2>2, <2>3 DEF Next
<1> QED
  BY <1>1, <1>2

(* The invariant holds of any number of threads and locks. *)
THEOREM Invariance == Spec => []IInv
<1>1. IInv /\ [Next]_vars => IInv'
  BY NextKept DEF Kept
<1> QED
  BY InitIInv, <1>1, PTL DEF Spec

(* The ids, the owner and the fields of the threads are what the code takes  *)
(* them for.                                                                 *)
THEOREM TypeCorrect == Spec => []TypeOK
<1>1. IInv => TypeOK
  BY DEF IInv
<1> QED
  BY Invariance, <1>1, PTL

(* The ids of a lock always are in one of the states of kmp_lock.cpp:1117.   *)
THEOREM States == Spec => []StateTable
<1>1. ASSUME IInv PROVE StateTable
  <2> SUFFICES ASSUME NEW l \in Lock
               PROVE  /\ head_id[l] = None <=> InHands(l) = {}
                      /\ IF Queue(l) = <<>>
                         THEN head_id[l] \in {None, Held} /\ tail_id[l] = None
                         ELSE /\ head_id[l] = Head(Queue(l))
                              /\ tail_id[l] = Queue(l)[Len(Queue(l))]
    BY DEF StateTable
  <2>1. /\ TypeOK /\ LockInv(l) /\ waiting[l] \in Seq(Thread) /\ N(l) \in Nat
        /\ waiting[l] = <<>> <=> N(l) = 0
    BY <1>1 DEF IInv, TypeOK, N
  <2>2. head_id[l] = None <=> InHands(l) = {}
    BY <2>1 DEF LockInv, Hands, InHands, Hand
  <2>3. CASE \E t \in Thread : Waking(t, l)
    <3>1. /\ First(l) = 2 /\ N(l) >= 1 /\ Queue(l) = Tail(waiting[l])
          /\ waiting[l] # <<>>
      BY <2>1, <2>3, FirstIs DEF LockInv, Ends, Queue, Waking
    <3>2. /\ Len(Queue(l)) = N(l) - 1 /\ Queue(l) \in Seq(Thread)
          /\ \A i \in 1 .. N(l) - 1 : Queue(l)[i] = At(l, i + 1)
      BY <2>1, <3>1, Tails DEF N, At
    <3>3. CASE N(l) = 1
      BY <2>1, <2>2, <3>1, <3>2, <3>3 DEF LockInv, Ends
    <3>4. CASE N(l) >= 2
      <4>1. /\ 1 \in 1 .. N(l) - 1 /\ 1 + 1 = 2
            /\ N(l) - 1 \in 1 .. N(l) - 1 /\ (N(l) - 1) + 1 = N(l)
        BY <2>1, <3>4
      <4>2. Queue(l)[1] = At(l, 2) /\ Queue(l)[Len(Queue(l))] = At(l, N(l))
        BY <3>2, <4>1
      <4>3. Queue(l) # <<>> /\ Head(Queue(l)) = Queue(l)[1]
        BY <3>2, <4>1
      <4> QED
        BY <2>1, <2>2, <3>1, <3>4, <4>2, <4>3 DEF LockInv, Ends
    <3> QED
      BY <2>1, <3>1, <3>3, <3>4
  <2>4. CASE ~ \E t \in Thread : Waking(t, l)
    <3>1. First(l) = 1 /\ Queue(l) = waiting[l]
      BY <2>4 DEF First, Queue, Waking
    <3> QED
      BY <2>1, <2>2, <3>1 DEF LockInv, Ends, N, At
  <2> QED
    BY <2>3, <2>4
<1> QED
  BY Invariance, <1>1, PTL

(* Nobody is woken before it waits, nor for another lock. *)
LEMMA NotTooEarly == IInv => NotPremature
<1>1. ASSUME IInv PROVE NotPremature
  <2> SUFFICES ASSUME NEW t \in Thread, pc[t] = "wake"
               PROVE  /\ seen[t] \in Thread /\ spin_here[seen[t]]
                      /\ pc[seen[t]] = "spin" /\ lck[seen[t]] = lck[t]
    BY DEF NotPremature
  <2>1. PICK l \in Lock : lck[t] = l
    BY <1>1, InCall
  <2>2. 1 \in 1 .. N(l) /\ seen[t] = At(l, 1) /\ seen[t] \in Thread /\ First(l) = 2
    BY <1>1, <2>1, WokenIsFirst
  <2>3. Queued(At(l, 1)) /\ lck[At(l, 1)] = l /\ pc[At(l, 1)] = "spin"
    BY <1>1, <2>2 DEF IInv, LockInv, Members, Links
  <2> QED
    BY <2>1, <2>2, <2>3 DEF Queued
<1> QED
  BY <1>1

(* A thread that waits for a lock has only greater ones. *)
Descending ==
  \A t \in Thread : pc[t] \in Enqueuing \cup {"grabbed", "link", "spin"} =>
                      \A k \in Has(t) : lck[t] < k

LEMMA DescendingKept ==
  ASSUME TypeOK, Descending, [Next]_vars
  PROVE  Descending'
<1> USE DEF Enqueuing, Has
<1>1. ASSUME NEW t \in Thread, NEW l \in Lock, Acquire(t, l)
      PROVE  Descending'
  BY <1>1 DEF Acquire, Goto, held, Descending, TypeOK
<1>2. ASSUME NEW t \in Thread, NEW l \in Lock,
             \/ AcquireAgain(t, l) \/ Test(t, l) \/ ReleaseNested(t, l)
             \/ Release(t, l)
      PROVE  Descending'
  BY <1>2, Ids DEF AcquireAgain, Test, ReleaseNested, Release, Goto, held,
     Descending, TypeOK
<1>3. ASSUME NEW t \in Thread, Enter(t)
      PROVE  Descending'
  BY <1>3 DEF Enter, Return, Goto, Descending, TypeOK
<1>4. ASSUME NEW t \in Thread,
             \/ ReadHead(t) \/ Grab(t) \/ Grabbed(t) \/ EnqueueFirst(t)
             \/ ReadTail(t) \/ Enqueue(t) \/ Link(t) \/ Spin(t)
      PROVE  Descending'
  BY <1>4 DEF ReadHead, Grab, Grabbed, EnqueueFirst, ReadTail, Enqueue, Link, Spin,
     Goto, Retry, held, Descending, TypeOK
<1>5. ASSUME NEW t \in Thread,
             \/ ReleaseHead(t) \/ Free(t) \/ ReleaseTail(t) \/ DequeueLast(t)
             \/ Dequeue(t) \/ Unlink(t) \/ Wake(t)
      PROVE  Descending'
  <2>1. pc'[t] \in Releasing \cup {"user"} /\ owner_id' = owner_id
    BY <1>5 DEF ReleaseHead, Free, ReleaseTail, DequeueLast, Dequeue, Unlink, Wake,
       Goto, Retry, Return, held, Releasing, TypeOK
  <2>2. \A u \in Thread \ {t} : pc'[u] = pc[u] /\ lck'[u] = lck[u]
    BY <1>5 DEF ReleaseHead, Free, ReleaseTail, DequeueLast, Dequeue, Unlink, Wake,
       Goto, Retry, Return, TypeOK
  <2> QED
    BY <2>1, <2>2 DEF Descending, Releasing
<1>6. CASE UNCHANGED vars
  BY <1>6 DEF vars, held, Descending
<1> QED
  BY <1>1, <1>2, <1>3, <1>4, <1>5, <1>6 DEF Next, Call, AcquireStep, ReleaseStep

(* Who waits, in a release, for the next thread of the queue waits for one   *)
(* that is about to make itself known.                                       *)
LEMMA NextIsComing ==
  ASSUME IInv, NEW t \in Thread, pc[t] = "dequeue", next_waiting[seen[t]] = None
  PROVE  \E u \in Thread : pc[u] = "link"
<1>1. PICK l \in Lock : lck[t] = l
  BY InCall
<1>2. TypeOK /\ LockInv(l) /\ N(l) \in Nat /\ First(l) \in Nat \ {0}
  BY Queues, FirstIs DEF IInv
<1>3. /\ seen[t] \in Thread /\ head_id[l] = seen[t] /\ tail_id[l] # seen[t]
  BY <1>1, <1>2 DEF LockInv, Releaser
<1>4. /\ First(l) <= N(l) /\ seen[t] = At(l, First(l))
      /\ At(l, First(l)) # At(l, N(l))
  BY <1>2, <1>3, Ids DEF LockInv, Ends
<1>5. First(l) \in 1 .. N(l) /\ First(l) < N(l) /\ First(l) + 1 \in 1 .. N(l)
  BY <1>2, <1>4
<1>6. Linked(l, First(l)) /\ At(l, First(l) + 1) \in Thread
  BY <1>2, <1>5, Queues DEF LockInv, Links
<1> QED
  BY <1>4, <1>6, Ids DEF Linked

(* A set of numbers that is not empty has a smallest one. *)
LEMMA Smallest ==
  ASSUME NEW S \in SUBSET Nat, S # {}
  PROVE  \E m \in S : \A n \in S : ~(n < m)
<1>1. PICK m \in S : \A n \in S : ~(<<n, m>> \in OpToRel(<, Nat))
  BY NatLessThanWellFounded, WFMin
<1>2. \A n \in S : n < m => <<n, m>> \in OpToRel(<, Nat)
  BY DEF OpToRel
<1> QED
  BY <1>1, <1>2

(* The threads never all wait for each other.  Of the locks that blocked     *)
(* threads wait for take the smallest: it is in the hands of a thread, which *)
(* does not wait for a greater lock, nor for a smaller one.                  *)
LEMMA SomebodyCan ==
  ASSUME IInv, Descending
  PROVE  SomebodyGoesOn
<1> SUFFICES ASSUME \E t \in Thread : Blocked(t),
                    \A u \in Thread : Blocked(u) \/ (pc[u] = "user" /\ Has(u) = {})
             PROVE  FALSE
  BY DEF SomebodyGoesOn
<1> DEFINE W == {lck[t] : t \in {t \in Thread : Blocked(t)}}
<1>1. \A u \in Thread : pc[u] # "link"
  BY DEF Blocked
<1>2. \A t \in Thread : Blocked(t) => pc[t] = "spin" /\ spin_here[t]
  BY <1>1, NextIsComing DEF Blocked
<1>3. \A t \in Thread : Blocked(t) => lck[t] \in Lock
  BY <1>2, InCall
<1>4. PICK m \in W : \A n \in W : ~(n < m)
  <2>1. W \in SUBSET Nat /\ W # {}
    BY <1>3, LockAssumption
  <2> QED
    BY <2>1, Smallest
<1>5. PICK t \in Thread : Blocked(t) /\ lck[t] = m
  BY <1>4
<1>6. m \in Lock /\ LockInv(m) /\ N(m) \in Nat /\ First(m) \in {1, 2}
  BY <1>3, <1>5, Queues, FirstIs DEF IInv, First
<1>7. \A u \in Thread : ~Waking(u, m)
  BY <1>2 DEF Waking
<1>8. First(m) = 1 /\ N(m) >= 1
  <2>1. \E i \in 1 .. N(m) : At(m, i) = t
    BY <1>2, <1>5, <1>6 DEF LockInv, Members, Queued
  <2> QED
    BY <1>6, <1>7, <2>1 DEF First
<1>9. head_id[m] # None
  <2>1. 1 \in 1 .. N(m)
    BY <1>6, <1>8
  <2>2. At(m, 1) \in Thread
    BY <1>6, <2>1, Queues DEF IInv
  <2> QED
    BY <1>6, <1>8, <2>2, Ids DEF LockInv, Ends
<1>10. PICK u \in Thread : Hand(u, m)
  BY <1>6, <1>9 DEF LockInv, Hands
<1>11. m \in Has(u)
  BY <1>2, <1>6, <1>10 DEF Hand, Owns, Has, Releasing
<1>12. Blocked(u) /\ lck[u] \in W
  BY <1>11
<1>13. lck[u] < m
  BY <1>2, <1>11, <1>12 DEF Descending
<1> QED
  BY <1>4, <1>12, <1>13

(* Nobody is woken too early, and nobody is left asleep. *)
THEOREM WakeUps == Spec => []WakeUpsAreInTime
<1>1. IInv => TypeOK
  BY DEF IInv
<1>2. Init => Descending
  BY DEF Init, Descending, Enqueuing
<1>3. IInv /\ Descending /\ [Next]_vars => Descending'
  BY <1>1, DescendingKept
<1>4. IInv /\ Descending => WakeUpsAreInTime
  BY NotTooEarly, SomebodyCan DEF WakeUpsAreInTime
<1> QED
  BY <1>2, <1>3, <1>4, Invariance, PTL DEF Spec

(* One pair of fields per thread is enough for any number of locks. *)
THEOREM FieldsFree == Spec => []FieldsAreFree
<1>1. ASSUME IInv PROVE FieldsAreFree
  <2>1. ASSUME NEW t \in Thread, pc[t] = "readTail" PROVE tail_id[lck[t]] # t
    <3>1. PICK l \in Lock : lck[t] = l
      BY <1>1, <2>1, InCall
    <3>2. TypeOK /\ LockInv(l)
      BY <1>1 DEF IInv
    <3>3. CASE N(l) < First(l)
      BY <3>1, <3>2, <3>3, Ids DEF LockInv, Ends
    <3>4. CASE First(l) <= N(l)
      <4>1. N(l) \in 1 .. N(l)
        BY <3>2, <3>4, Queues, FirstIs
      <4>2. Queued(At(l, N(l))) /\ ~Queued(t)
        BY <2>1, <3>2, <4>1 DEF LockInv, Members, Queued
      <4>3. tail_id[l] = At(l, N(l))
        BY <3>2, <3>4, <4>1, FirstIs DEF LockInv, Ends
      <4> QED
        BY <3>1, <4>2, <4>3
    <3> QED
      BY <3>2, <3>3, <3>4, Queues, FirstIs
  <2>2. ASSUME NEW t \in Thread
        PROVE  /\ pc[t] \in Releasing \cup {"user"} => ~spin_here[t]
               /\ pc[t] \notin {"link", "spin"} \/ (pc[t] = "spin" /\ ~spin_here[t]) =>
                    next_waiting[t] = None
    BY <1>1 DEF IInv, ThreadInv, Queued, Enqueuing, Releasing
  <2> QED
    BY <2>1, <2>2 DEF FieldsAreFree
<1> QED
  BY Invariance, <1>1, PTL

(* Each lock implements FifoLock: one owner at a time, in the order of the   *)
(* queue.                                                                    *)
THEOREM Refinement == Spec => ImplementsFifoLock
<1>1. ASSUME Init, NEW l \in Lock PROVE Fifo(l)!Init
  BY <1>1, Ids DEF Fifo!Init, Init, Owns
<1>2. ASSUME IInv, [Next]_vars, NEW l \in Lock
      PROVE  [Fifo(l)!Next]_(Fifo(l)!vars)
  <2>1. FifoStep(l)
    BY <1>2, NextKept DEF Kept
  <2> QED
    BY <2>1 DEF FifoStep, Owner, N, At, Fifo!Next, Fifo!vars, Fifo!Acquire,
         Fifo!Enqueue, Fifo!Waits, Fifo!Release, Fifo!HandOver
<1>3. Init => \A l \in Lock : Fifo(l)!Init
  BY <1>1
<1>4. IInv /\ [Next]_vars => [\A l \in Lock : [Fifo(l)!Next]_(Fifo(l)!vars)]_vars
  BY <1>2
<1> QED
  BY Invariance, <1>3, <1>4, PTL DEF Spec, ImplementsFifoLock

(* What the refinement is worth: FifoLock keeps its promises for every lock.  *)
(* It has one owner, who does not wait for it, and nobody waits twice.        *)
THEOREM OneAtATime == Spec => [](\A l \in Lock : Fifo(l)!OneOwner)
<1>1. ASSUME \A l \in Lock : Fifo(l)!Init PROVE \A l \in Lock : Fifo(l)!OneOwner
  <2>1. Len(<<>>) = 0
    OBVIOUS
  <2> QED
    BY <1>1, <2>1 DEF Fifo!Init, Fifo!OneOwner, Fifo!Waits
<1>2. ASSUME TypeOK, \A l \in Lock : Fifo(l)!OneOwner,
             [\A l \in Lock : [Fifo(l)!Next]_(Fifo(l)!vars)]_vars
      PROVE  (\A l \in Lock : Fifo(l)!OneOwner)'
  <2> SUFFICES ASSUME NEW l \in Lock PROVE Fifo(l)!OneOwner'
    OBVIOUS
  <2> DEFINE owner == {t \in Thread : Owns(t, l)}
             w     == waiting[l]
  <2>1. /\ w \in Seq(Thread)
        /\ \A t, u \in owner : t = u
        /\ \A t \in owner : \A i \in 1 .. Len(w) : w[i] # t
        /\ \A i, j \in 1 .. Len(w) : w[i] = w[j] => i = j
    BY <1>2 DEF TypeOK, Fifo!OneOwner, Fifo!Waits
  <2>2. \/ owner' \in {owner, {}} /\ w' = w
        \/ \E t \in Thread :
             \/ owner' = {t} /\ w = <<>> /\ w' = w
             \/ /\ t \notin owner /\ \A i \in 1 .. Len(w) : w[i] # t
                /\ owner' = owner /\ w' = Append(w, t)
             \/ owner' = {t} /\ w # <<>> /\ t = Head(w) /\ w' = Tail(w)
    <3>1. CASE UNCHANGED vars
      <4>1. \A t : Owns(t, l)' <=> Owns(t, l)
        BY <3>1 DEF vars, held, fields, Owns
      <4> QED
        BY <3>1, <4>1 DEF vars
    <3>2. CASE [Fifo(l)!Next]_(Fifo(l)!vars)
      BY <3>2 DEF Fifo!Next, Fifo!vars, Fifo!Acquire, Fifo!Enqueue, Fifo!Waits,
         Fifo!Release, Fifo!HandOver
    <3> QED
      BY <1>2, <3>1, <3>2
  <2> HIDE DEF owner, w
  <2>3. /\ \A t, u \in owner' : t = u
        /\ \A t \in owner' : \A i \in 1 .. Len(w') : w'[i] # t
        /\ \A i, j \in 1 .. Len(w') : w'[i] = w'[j] => i = j
    <3>1. CASE owner' \in {owner, {}} /\ w' = w
      BY <2>1, <3>1
    <3>2. ASSUME NEW t \in Thread, owner' = {t}, w = <<>>, w' = w
          PROVE  <2>3
      BY <3>2
    <3>3. ASSUME NEW t \in Thread, t \notin owner,
                 \A i \in 1 .. Len(w) : w[i] # t,
                 owner' = owner, w' = Append(w, t)
          PROVE  <2>3
      <4>1. /\ Len(w) \in Nat /\ Len(w') = Len(w) + 1 /\ w'[Len(w) + 1] = t
            /\ \A i \in 1 .. Len(w) : w'[i] = w[i]
        BY <2>1, <3>3
      <4>2. \A i \in 1 .. Len(w') : i \in 1 .. Len(w) \/ i = Len(w) + 1
        BY <4>1
      <4> QED
        BY <2>1, <3>3, <4>1, <4>2
    <3>4. ASSUME NEW t \in Thread, owner' = {t}, w # <<>>, t = Head(w), w' = Tail(w)
          PROVE  <2>3
      <4>1. /\ Len(w) \in Nat \ {0} /\ Len(w') = Len(w) - 1 /\ w[1] = t
            /\ \A i \in 1 .. Len(w') : w'[i] = w[i + 1] /\ i + 1 \in 1 .. Len(w)
        BY <2>1, <3>4
      <4>2. \A i \in 1 .. Len(w) : w[i] = t => i = 1
        BY <2>1, <4>1
      <4> QED
        BY <2>1, <3>4, <4>1, <4>2
    <3> QED
      BY <2>2, <3>1, <3>2, <3>3, <3>4
  <2> QED
    BY <2>3 DEF owner, w, Fifo!OneOwner, Fifo!Waits
<1> QED
  BY <1>1, <1>2, Refinement, TypeCorrect, PTL DEF ImplementsFifoLock

(* Threads get a lock in the order in which they joined its queue, and before *)
(* any that have not joined it.                                              *)
THEOREM FirstComeFirstServed == Spec => [][\A l \in Lock : Fifo(l)!InTurn]_vars
<1>1. ASSUME TypeOK, [\A l \in Lock : [Fifo(l)!Next]_(Fifo(l)!vars)]_vars
      PROVE  [\A l \in Lock : Fifo(l)!InTurn]_vars
  <2> SUFFICES ASSUME \A l \in Lock : [Fifo(l)!Next]_(Fifo(l)!vars), NEW l \in Lock
               PROVE  Fifo(l)!InTurn
    BY <1>1
  <2>1. waiting[l] \in Seq(Thread)
    BY <1>1 DEF TypeOK
  <2>2. CASE Fifo(l)!Next
    BY <2>1, <2>2 DEF Fifo!InTurn, Fifo!Next, Fifo!Acquire, Fifo!Enqueue,
       Fifo!Release, Fifo!HandOver
  <2>3. CASE UNCHANGED Fifo(l)!vars
    BY <2>1, <2>3 DEF Fifo!InTurn, Fifo!vars
  <2> QED
    BY <2>2, <2>3
<1> QED
  BY <1>1, Refinement, TypeCorrect, PTL DEF ImplementsFifoLock

=============================================================================
