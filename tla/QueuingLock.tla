----------------------------- MODULE QueuingLock -----------------------------
(***************************************************************************)
(* The queuing locks of the OpenMP runtime, which omp_set_nest_lock() and    *)
(* its like use by default (openmp/runtime/src/kmp_lock.cpp:1117-1834).      *)
(* The queue of a lock is a list of thread ids, from head_id to tail_id      *)
(* through th_next_waiting, which a thread has one of, as it has one flag    *)
(* th_spin_here to wait on, whatever the number of locks.                    *)
(*                                                                          *)
(* A step is one access to the memory that threads share.  The ids of        *)
(* threads are gtid + 1.  A thread waits for locks in descending order; any  *)
(* of those it has it may take again, and release, when it likes.            *)
(***************************************************************************)
EXTENDS Integers, Sequences

CONSTANTS Thread, Lock,
          MaxDepth  (* bound on depth_locked                                *)

ASSUME ThreadAssumption == Thread \subseteq Nat \ {0}
ASSUME LockAssumption == Lock \subseteq Nat \ {0} /\ MaxDepth \in Nat \ {0}

VARIABLES head_id, tail_id, owner_id, depth_locked,   (* of each lock        *)
          spin_here, next_waiting,                    (* of each thread      *)
          pc,    (* the next step of each thread; "user" outside the calls   *)
          lck,   (* the lock of its call, if it is in one                    *)
          seen,  (* the tail, in an acquire, or the head, in a release, that *)
                 (* it has read                                              *)
          waiting   (* the order in which threads joined the queue of each   *)
                    (* lock and were not woken; the code does not keep it     *)

ids    == <<head_id, tail_id>>
held   == <<owner_id, depth_locked>>
fields == <<spin_here, next_waiting>>
vars   == <<ids, held, fields, pc, lck, seen, waiting>>

None == 0   (* no thread, or no lock *)
Held == -1  (* head_id when the lock is held and nobody waits *)

Has(t) == {l \in Lock : owner_id[l] = t}

Init == /\ head_id = [l \in Lock |-> 0] /\ tail_id = [l \in Lock |-> 0]
        /\ owner_id = [l \in Lock |-> None] /\ depth_locked = [l \in Lock |-> 0]
        /\ spin_here = [t \in Thread |-> FALSE]
        /\ next_waiting = [t \in Thread |-> None]
        /\ pc = [t \in Thread |-> "user"]
        /\ lck = [t \in Thread |-> None] /\ seen = [t \in Thread |-> None]
        /\ waiting = [l \in Lock |-> <<>>]

Goto(t, from, to) == pc[t] = from /\ pc' = [pc EXCEPT ![t] = to]

Return(t, from) == /\ Goto(t, from, "user")
                   /\ lck' = [lck EXCEPT ![t] = None]
                   /\ seen' = [seen EXCEPT ![t] = None]

(* Another attempt, from the top of the loop. *)
Retry(t, from, top) == /\ Goto(t, from, top)
                       /\ UNCHANGED <<ids, held, fields, lck, seen, waiting>>

-----------------------------------------------------------------------------
(* __kmp_acquire_nested_queuing_lock(), and the template that it calls. *)

AcquireAgain(t, l) ==
  /\ pc[t] = "user" /\ owner_id[l] = t /\ depth_locked[l] < MaxDepth
  /\ depth_locked' = [depth_locked EXCEPT ![l] = @ + 1]
  /\ UNCHANGED <<ids, owner_id, fields, pc, lck, seen, waiting>>

(* A seeded fault: the flag to wait on is not set. *)
Acquire_Unflagged(t, l) ==
  /\ Goto(t, "user", "acquire")
  /\ \A k \in Has(t) : l < k
  /\ lck' = [lck EXCEPT ![t] = l]
  /\ UNCHANGED <<ids, held, fields, seen, waiting>>

Acquire(t, l) ==
  /\ Goto(t, "user", "acquire")
  /\ \A k \in Has(t) : l < k
  /\ lck' = [lck EXCEPT ![t] = l]
  /\ spin_here' = [spin_here EXCEPT ![t] = TRUE]
  /\ UNCHANGED <<ids, held, next_waiting, seen, waiting>>

ReadHead(t) ==
  /\ pc[t] = "acquire"
  /\ pc' = [pc EXCEPT ![t] = CASE head_id[lck[t]] = Held -> "enqueueFirst"
                               [] head_id[lck[t]] = None -> "grab"
                               [] OTHER -> "readTail"]
  /\ UNCHANGED <<ids, held, fields, lck, seen, waiting>>

(* A seeded fault: a store in place of the compare and store. *)
Grab_Stores(t) ==
  /\ Goto(t, "grab", "grabbed")
  /\ head_id' = [head_id EXCEPT ![lck[t]] = Held]
  /\ UNCHANGED <<tail_id, held, fields, lck, seen, waiting>>

Grab(t) ==
  \/ /\ Goto(t, "grab", "grabbed")
     /\ head_id[lck[t]] = None
     /\ head_id' = [head_id EXCEPT ![lck[t]] = Held]
     /\ UNCHANGED <<tail_id, held, fields, lck, seen, waiting>>
  \/ Retry(t, "grab", "acquire") /\ head_id[lck[t]] # None

Grabbed(t) ==
  /\ Goto(t, "grabbed", "enter")
  /\ spin_here' = [spin_here EXCEPT ![t] = FALSE]
  /\ UNCHANGED <<ids, held, next_waiting, lck, seen, waiting>>

(* Both ids at once. *)
EnqueueFirst(t) ==
  LET l == lck[t] IN
  \/ /\ Goto(t, "enqueueFirst", "spin")
     /\ head_id[l] = Held /\ tail_id[l] = None
     /\ head_id' = [head_id EXCEPT ![l] = t]
     /\ tail_id' = [tail_id EXCEPT ![l] = t]
     /\ waiting' = [waiting EXCEPT ![l] = Append(@, t)]
     /\ UNCHANGED <<held, fields, lck, seen>>
  \/ /\ Retry(t, "enqueueFirst", "acquire")
     /\ ~ (head_id[l] = Held /\ tail_id[l] = None)

ReadTail(t) ==
  \/ /\ Goto(t, "readTail", "enqueue")
     /\ tail_id[lck[t]] # None
     /\ seen' = [seen EXCEPT ![t] = tail_id[lck[t]]]
     /\ UNCHANGED <<ids, held, fields, lck, waiting>>
  \/ Retry(t, "readTail", "acquire") /\ tail_id[lck[t]] = None

Enqueue(t) ==
  LET l == lck[t] IN
  \/ /\ Goto(t, "enqueue", "link")
     /\ tail_id[l] = seen[t]
     /\ tail_id' = [tail_id EXCEPT ![l] = t]
     /\ waiting' = [waiting EXCEPT ![l] = Append(@, t)]
     /\ UNCHANGED <<head_id, held, fields, lck, seen>>
  \/ Retry(t, "enqueue", "acquire") /\ tail_id[l] # seen[t]

(* A seeded fault: the one before it is not told who comes next. *)
Link_Forgotten(t) == Retry(t, "link", "spin")

(* The one before it learns who comes next. *)
Link(t) ==
  /\ Goto(t, "link", "spin")
  /\ next_waiting' = [next_waiting EXCEPT ![seen[t]] = t]
  /\ UNCHANGED <<ids, held, spin_here, lck, seen, waiting>>

Spin(t) ==
  /\ Goto(t, "spin", "enter")
  /\ ~spin_here[t]
  /\ UNCHANGED <<ids, held, fields, lck, seen, waiting>>

(* owner_id tells a thread only whether it is the owner itself. *)
Enter(t) ==
  /\ Return(t, "enter")
  /\ depth_locked' = [depth_locked EXCEPT ![lck[t]] = 1]
  /\ owner_id' = [owner_id EXCEPT ![lck[t]] = t]
  /\ UNCHANGED <<ids, fields, waiting>>

(* __kmp_test_nested_queuing_lock(), when it does not just fail. *)
Test(t, l) ==
  /\ owner_id[l] # t /\ head_id[l] = None
  /\ Goto(t, "user", "enter")
  /\ lck' = [lck EXCEPT ![t] = l]
  /\ head_id' = [head_id EXCEPT ![l] = Held]
  /\ UNCHANGED <<tail_id, held, fields, seen, waiting>>

-----------------------------------------------------------------------------
(* __kmp_release_nested_queuing_lock() and __kmp_release_queuing_lock(). *)

ReleaseNested(t, l) ==
  /\ pc[t] = "user" /\ owner_id[l] = t /\ depth_locked[l] > 1
  /\ depth_locked' = [depth_locked EXCEPT ![l] = @ - 1]
  /\ UNCHANGED <<ids, owner_id, fields, pc, lck, seen, waiting>>

Release(t, l) ==
  /\ owner_id[l] = t /\ depth_locked[l] = 1
  /\ Goto(t, "user", "release")
  /\ lck' = [lck EXCEPT ![t] = l]
  /\ depth_locked' = [depth_locked EXCEPT ![l] = 0]
  /\ owner_id' = [owner_id EXCEPT ![l] = None]
  /\ UNCHANGED <<ids, fields, seen, waiting>>

ReleaseHead(t) ==
  /\ pc[t] = "release"
  /\ pc' = [pc EXCEPT ![t] = IF head_id[lck[t]] = Held THEN "free" ELSE "releaseTail"]
  /\ seen' = [seen EXCEPT ![t] = head_id[lck[t]]]
  /\ UNCHANGED <<ids, held, fields, lck, waiting>>

Free(t) ==
  \/ /\ Return(t, "free")
     /\ head_id[lck[t]] = Held
     /\ head_id' = [head_id EXCEPT ![lck[t]] = None]
     /\ UNCHANGED <<tail_id, held, fields, waiting>>
  \/ Retry(t, "free", "release") /\ head_id[lck[t]] # Held

ReleaseTail(t) ==
  /\ pc[t] = "releaseTail"
  /\ pc' = [pc EXCEPT ![t] = IF tail_id[lck[t]] = seen[t] THEN "dequeueLast"
                                                         ELSE "dequeue"]
  /\ UNCHANGED <<ids, held, fields, lck, seen, waiting>>

(* A seeded fault: the compare and store looks at the head only. *)
DequeueLast_OfHead(t) ==
  /\ Goto(t, "dequeueLast", "unlink")
  /\ head_id' = [head_id EXCEPT ![lck[t]] = Held]
  /\ tail_id' = [tail_id EXCEPT ![lck[t]] = None]
  /\ UNCHANGED <<held, fields, lck, seen, waiting>>

DequeueLast(t) ==
  LET l == lck[t] IN
  \/ /\ Goto(t, "dequeueLast", "unlink")
     /\ head_id[l] = seen[t] /\ tail_id[l] = seen[t]
     /\ head_id' = [head_id EXCEPT ![l] = Held]
     /\ tail_id' = [tail_id EXCEPT ![l] = None]
     /\ UNCHANGED <<held, fields, lck, seen, waiting>>
  \/ /\ Retry(t, "dequeueLast", "release")
     /\ ~ (head_id[l] = seen[t] /\ tail_id[l] = seen[t])

(* Once the next thread has made itself known, it is the first one.  What    *)
(* the wait has read nobody changes, nor the head.                           *)
Dequeue(t) ==
  /\ Goto(t, "dequeue", "unlink")
  /\ next_waiting[seen[t]] # None
  /\ head_id' = [head_id EXCEPT ![lck[t]] = next_waiting[seen[t]]]
  /\ UNCHANGED <<tail_id, held, fields, lck, seen, waiting>>

(* A seeded fault: "for clean code only", so it can go. *)
Unlink_Dropped(t) == Retry(t, "unlink", "wake")

Unlink(t) ==
  /\ Goto(t, "unlink", "wake")
  /\ next_waiting' = [next_waiting EXCEPT ![seen[t]] = None]
  /\ UNCHANGED <<ids, held, spin_here, lck, seen, waiting>>

Wake(t) ==
  /\ Return(t, "wake")
  /\ spin_here' = [spin_here EXCEPT ![seen[t]] = FALSE]
  /\ waiting' = [waiting EXCEPT ![lck[t]] = Tail(@)]
  /\ UNCHANGED <<ids, held, next_waiting>>

AcquireStep(t) == \/ ReadHead(t) \/ Grab(t) \/ Grabbed(t) \/ EnqueueFirst(t)
                  \/ ReadTail(t) \/ Enqueue(t) \/ Link(t) \/ Spin(t) \/ Enter(t)

ReleaseStep(t) == \/ ReleaseHead(t) \/ Free(t) \/ ReleaseTail(t)
                  \/ DequeueLast(t) \/ Dequeue(t) \/ Unlink(t) \/ Wake(t)

Call(t) == AcquireStep(t) \/ ReleaseStep(t)

Next == \E t \in Thread :
          \/ Call(t)
          \/ \E l \in Lock : \/ AcquireAgain(t, l) \/ Acquire(t, l) \/ Test(t, l)
                             \/ ReleaseNested(t, l) \/ Release(t, l)

Spec == Init /\ [][Next]_vars

(* Threads go on with their calls.  They need not make any. *)
FairSpec == Spec /\ \A t \in Thread : WF_vars(Call(t))

-----------------------------------------------------------------------------
Releasing == {"release", "free", "releaseTail", "dequeueLast", "dequeue", "unlink",
              "wake"}

TypeOK ==
  /\ head_id \in [Lock -> Thread \cup {None, Held}]
  /\ tail_id \in [Lock -> Thread \cup {None}]
  /\ owner_id \in [Lock -> Thread \cup {None}] /\ depth_locked \in [Lock -> Nat]
  /\ spin_here \in [Thread -> BOOLEAN]
  /\ next_waiting \in [Thread -> Thread \cup {None}]
  /\ pc \in [Thread -> Releasing \cup {"user", "acquire", "grab", "grabbed",
               "enqueueFirst", "readTail", "enqueue", "link", "spin", "enter"}]
  /\ lck \in [Thread -> Lock \cup {None}]
  /\ seen \in [Thread -> Thread \cup {None, Held}]
  /\ waiting \in [Lock -> Seq(Thread)]

(* A thread owns a lock from when it takes it, or is woken, until it begins  *)
(* to release it.                                                            *)
Owns(t, l) == \/ owner_id[l] = t
              \/ lck[t] = l /\ \/ pc[t] \in {"grabbed", "enter"}
                               \/ pc[t] = "spin" /\ ~spin_here[t]

Fifo(l) == INSTANCE FifoLock WITH owner <- {t \in Thread : Owns(t, l)},
                                  waiting <- waiting[l]

(* Every lock has one owner at a time, and hands over in the order of the    *)
(* queue.                                                                    *)
ImplementsFifoLock ==
  /\ \A l \in Lock : Fifo(l)!Init
  /\ [][\A l \in Lock : [Fifo(l)!Next]_(Fifo(l)!vars)]_vars

(* The states of kmp_lock.cpp:1117-1122: a lock is held or in transition     *)
(* when it is not (0,0), and its ids are the ends of the queue, without a    *)
(* thread that is being woken.                                               *)
InHands(l) == {t \in Thread : Owns(t, l) \/ (lck[t] = l /\ pc[t] \in Releasing)}
Queue(l) == IF \E t \in Thread : lck[t] = l /\ pc[t] \in {"unlink", "wake"}
            THEN Tail(waiting[l]) ELSE waiting[l]

StateTable ==
  \A l \in Lock :
    /\ head_id[l] = None <=> InHands(l) = {}
    /\ IF Queue(l) = <<>>
       THEN head_id[l] \in {None, Held} /\ tail_id[l] = None
       ELSE head_id[l] = Head(Queue(l)) /\ tail_id[l] = Queue(l)[Len(Queue(l))]

(* "it can rightly assume that spin_here_p has already been set to TRUE, so  *)
(* that when it sets spin_here_p to FALSE, it is not premature", and finds   *)
(* the thread waiting for the same lock.                                     *)
NotPremature ==
  \A t \in Thread : pc[t] = "wake" =>
    /\ seen[t] \in Thread
    /\ spin_here[seen[t]] /\ pc[seen[t]] = "spin" /\ lck[seen[t]] = lck[t]

(* A thread in a call can go on but where it waits for its flag to be        *)
(* cleared, or for the next thread to make itself known.                     *)
Blocked(t) == \/ pc[t] = "spin" /\ spin_here[t]
              \/ pc[t] = "dequeue" /\ next_waiting[seen[t]] = None

(* The threads do not all wait for each other, with any number of locks, nor *)
(* one who has been handed a lock for one who hands it over: while a thread  *)
(* is blocked another can go on with its call, or has a lock to release.     *)
SomebodyGoesOn ==
  (\E t \in Thread : Blocked(t)) =>
     \E t \in Thread : ~Blocked(t) /\ (pc[t] # "user" \/ Has(t) # {})

(* No wake-up comes too early, and none is left out. *)
WakeUpsAreInTime == NotPremature /\ SomebodyGoesOn

(* A thread that is not in a queue, whatever locks it has, leaves nothing in *)
(* the fields that the next lock will use, and does not find itself at the   *)
(* end of a queue: KMP_DEBUG_ASSERTs of acquire and release.                 *)
FieldsAreFree ==
  \A t \in Thread :
    /\ pc[t] \in Releasing \cup {"user"} => ~spin_here[t]
    /\ pc[t] \notin {"link", "spin"} \/ (pc[t] = "spin" /\ ~spin_here[t]) =>
         next_waiting[t] = None
    /\ pc[t] = "readTail" => tail_id[lck[t]] # t

(* A thread that has joined the queue of a lock gets the lock, unless a      *)
(* thread keeps it forever: acquire's KMP_WAIT_YIELD ends, and the one of    *)
(* release, which waits for the next thread to make itself known.            *)
QueuedIsServed ==
  \A t \in Thread, l \in Lock :
    ([]<>(owner_id[l] = None)) =>
      (lck[t] = l /\ pc[t] \in {"link", "spin"} ~> Owns(t, l))
=============================================================================
