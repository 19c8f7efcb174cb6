----------------------------- MODULE SharedCount -----------------------------
(***************************************************************************)
(* libc++'s __shared_weak_count (libcxx/src/memory.cpp), the two reference  *)
(* counts behind std::shared_ptr and std::weak_ptr, with the operations of  *)
(* those classes that use them (libcxx/include/memory).                     *)
(*                                                                          *)
(* Each atomic instruction is a step; a handle is a variable of one of the  *)
(* two classes.  As the standard demands of a program, no handle is written *)
(* while another thread uses it; different handles are used at will.        *)
(* Atomics are sequentially consistent here, whatever order they ask for.   *)
(***************************************************************************)
EXTENDS Integers, FiniteSets

CONSTANTS Thread, Handle,
          NoHandle   (* the handle of a thread that is not in lock()         *)

ASSUME ThreadAssumption == IsFiniteSet(Thread)
ASSUME HandleAssumption == IsFiniteSet(Handle) /\ NoHandle \notin Handle

VARIABLES sharedOwners,  (* __shared_owners_, one less than the owners       *)
          weakOwners,    (* __shared_weak_owners_, one less than the         *)
                         (* observers, all owners together counted as one    *)
          object, block, (* whether they still are there                     *)
          ptr,           (* what each handle is: "null", "shared" or "weak"  *)
          pc,
          from, to,      (* lock(): the weak_ptr, and the shared_ptr to be   *)
          seen           (* lock(): object_owners                            *)

counts == <<sharedOwners, weakOwners>>
locals == <<from, to, seen>>
vars == <<sharedOwners, weakOwners, object, block, ptr, pc, from, to, seen>>

Owners    == {h \in Handle : ptr[h] = "shared"}
Observers == {h \in Handle : ptr[h] = "weak"}

Free(h)   == ptr[h] = "null" /\ \A t \in Thread : to[t] # h
Shared(h) == ptr[h] = "shared"
Weak(h)   == ptr[h] = "weak"
InLock(h) == \E t \in Thread : from[t] = h

Goto(t, a, b) == pc[t] = a /\ pc' = [pc EXCEPT ![t] = b]

(* An allocation of the block made one shared_ptr. *)
Init == /\ sharedOwners = 0 /\ weakOwners = 0
        /\ object = "alive" /\ block = "alive"
        /\ \E h \in Handle :
             ptr = [x \in Handle |-> IF x = h THEN "shared" ELSE "null"]
        /\ pc = [t \in Thread |-> "idle"]
        /\ from = [t \in Thread |-> NoHandle] /\ to = from
        /\ seen = [t \in Thread |-> 0]

-----------------------------------------------------------------------------
(* Seeded faults: each is a slip of the step it is named after, kept to see  *)
(* that the properties at the end notice it.                                 *)

LoadWeakOwners_OffByOne(t) ==
  /\ Goto(t, "release", IF weakOwners <= 1 THEN "free" ELSE "decrement")
  /\ UNCHANGED <<counts, object, block, ptr, locals>>

DecrementWeakOwners_Unchecked(t) ==
  /\ Goto(t, "decrement", "idle")
  /\ weakOwners' = weakOwners - 1
  /\ UNCHANGED <<sharedOwners, object, block, ptr, locals>>

LockOver(t) == /\ Goto(t, "lock", "idle")
               /\ from' = [from EXCEPT ![t] = NoHandle]
               /\ to' = [to EXCEPT ![t] = NoHandle]
               /\ seen' = [seen EXCEPT ![t] = 0]

(* One compare-exchange where the code loops. *)
CompareExchangeFails_GivesUp(t) ==
  /\ seen[t] # -1 /\ LockOver(t)
  /\ UNCHANGED <<counts, object, block, ptr>>

(* An increment where the code compares and exchanges. *)
CompareExchange_Increments(t) ==
  /\ seen[t] # -1 /\ LockOver(t)
  /\ sharedOwners' = sharedOwners + 1
  /\ ptr' = [ptr EXCEPT ![to[t]] = "shared"]
  /\ UNCHANGED <<weakOwners, object, block>>

-----------------------------------------------------------------------------
(* Copies.  Nobody writes the original meanwhile, so one step is enough.     *)

CopyShared(t, g, h) ==
  /\ pc[t] = "idle" /\ Shared(g) /\ Free(h)
  /\ sharedOwners' = sharedOwners + 1
  /\ ptr' = [ptr EXCEPT ![h] = "shared"]
  /\ UNCHANGED <<weakOwners, object, block, pc, locals>>

CopyWeak(t, g, h) ==
  /\ pc[t] = "idle" /\ ptr[g] # "null" /\ Free(h)
  /\ weakOwners' = weakOwners + 1
  /\ ptr' = [ptr EXCEPT ![h] = "weak"]
  /\ UNCHANGED <<sharedOwners, object, block, pc, locals>>

(* ~shared_ptr(): __shared_count::__release_shared() ... *)
ReleaseShared(t, h) ==
  /\ Shared(h)
  /\ Goto(t, "idle", IF sharedOwners = 0 THEN "destroy" ELSE "idle")
  /\ sharedOwners' = sharedOwners - 1
  /\ ptr' = [ptr EXCEPT ![h] = "null"]
  /\ UNCHANGED <<weakOwners, object, block, locals>>

(* ... and __shared_weak_count::__release_shared(), which goes on to         *)
(* __release_weak().                                                         *)
OnZeroShared(t) ==
  /\ Goto(t, "destroy", "release")
  /\ object' = "destroyed"
  /\ UNCHANGED <<counts, block, ptr, locals>>

(* ~weak_ptr() calls __release_weak(). *)
ReleaseWeak(t, h) ==
  /\ Weak(h) /\ ~InLock(h) /\ Goto(t, "idle", "release")
  /\ ptr' = [ptr EXCEPT ![h] = "null"]
  /\ UNCHANGED <<counts, object, block, locals>>

(* The last reference does without the decrement. *)
LoadWeakOwners(t) ==
  /\ Goto(t, "release", IF weakOwners = 0 THEN "free" ELSE "decrement")
  /\ UNCHANGED <<counts, object, block, ptr, locals>>

DecrementWeakOwners(t) ==
  /\ Goto(t, "decrement", IF weakOwners = 0 THEN "free" ELSE "idle")
  /\ weakOwners' = weakOwners - 1
  /\ UNCHANGED <<sharedOwners, object, block, ptr, locals>>

OnZeroSharedWeak(t) ==
  /\ Goto(t, "free", "idle")
  /\ block' = "freed"
  /\ UNCHANGED <<counts, object, ptr, locals>>

(* weak_ptr::lock() of g, into h. *)
Lock(t, g, h) ==
  /\ Weak(g) /\ Free(h) /\ Goto(t, "idle", "lock")
  /\ from' = [from EXCEPT ![t] = g]
  /\ to' = [to EXCEPT ![t] = h]
  /\ seen' = [seen EXCEPT ![t] = sharedOwners]
  /\ UNCHANGED <<counts, object, block, ptr>>

CompareExchange(t) ==
  /\ seen[t] # -1 /\ sharedOwners = seen[t] /\ LockOver(t)
  /\ sharedOwners' = seen[t] + 1
  /\ ptr' = [ptr EXCEPT ![to[t]] = "shared"]
  /\ UNCHANGED <<weakOwners, object, block>>

(* A weak compare-exchange may fail for no reason. *)
CompareExchangeFails(t) ==
  /\ pc[t] = "lock" /\ seen[t] # -1
  /\ seen' = [seen EXCEPT ![t] = sharedOwners]
  /\ UNCHANGED <<counts, object, block, ptr, pc, from, to>>

LockFails(t) == /\ seen[t] = -1 /\ LockOver(t)
                /\ UNCHANGED <<counts, object, block, ptr>>

Finish(t) == \/ OnZeroShared(t) \/ LoadWeakOwners(t)
             \/ DecrementWeakOwners(t) \/ OnZeroSharedWeak(t)

Next == \E t \in Thread :
          \/ \E g, h \in Handle :
               CopyShared(t, g, h) \/ CopyWeak(t, g, h) \/ Lock(t, g, h)
          \/ \E h \in Handle : ReleaseShared(t, h) \/ ReleaseWeak(t, h)
          \/ CompareExchange(t) \/ CompareExchangeFails(t) \/ LockFails(t)
          \/ Finish(t)

Spec == Init /\ [][Next]_vars

(* A release is carried through.  Nobody has to begin one, and lock() may    *)
(* fail to exchange for ever.                                                *)
FairSpec == Spec /\ \A t \in Thread : WF_vars(Finish(t))

-----------------------------------------------------------------------------
TypeOK == /\ sharedOwners \in Nat \cup {-1} /\ weakOwners \in Nat \cup {-1}
          /\ object \in {"alive", "destroyed"} /\ block \in {"alive", "freed"}
          /\ ptr \in [Handle -> {"null", "shared", "weak"}]
          /\ pc \in [Thread -> {"idle", "lock", "destroy", "release",
                               "decrement", "free"}]
          /\ from \in [Thread -> Handle \cup {NoHandle}]
          /\ to \in [Thread -> Handle \cup {NoHandle}]
          /\ seen \in [Thread -> Nat \cup {-1}]

(* Whoever owns the object finds it there: no thread has destroyed it or is  *)
(* destroying it (__release_shared against copies and lock()).               *)
ObjectOutlivesOwners ==
  Owners # {} => object = "alive" /\ \A t \in Thread : pc[t] # "destroy"

(* The counts are never touched, nor the storage freed, after the block has  *)
(* been freed: by a handle, nor by a thread that is still in a release or in *)
(* lock().                                                                   *)
BlockOutlivesUsers ==
  block = "freed" => /\ Owners \cup Observers = {}
                     /\ \A t \in Thread : pc[t] = "idle"

(* "If we see that we are the last reference, we know that no-one else is    *)
(* accessing us": who is about to free the block, having decremented the     *)
(* count or having only read it, is alone.                                   *)
LastReferenceIsAlone ==
  \A t \in Thread : pc[t] = "free" =>
    /\ object = "destroyed" /\ Owners \cup Observers = {}
    /\ \A u \in Thread \ {t} : pc[u] = "idle"

(* lock() comes back empty-handed only if the object has expired, however    *)
(* often its compare-exchange fails.                                         *)
LockFailsOnlyIfExpired ==
  [][\A t \in Thread : LockOver(t) /\ ptr' = ptr => Owners = {}]_vars

(* Owners, observers and lifetimes go as SharedObject has them. *)
Object == INSTANCE SharedObject WITH owners <- Owners, observers <- Observers
ImplementsSharedObject == Object!Spec

(* Nothing leaks: once the last handle has gone, the block goes, whichever   *)
(* threads release the last references together.                             *)
NothingLeaks == (Owners \cup Observers = {}) ~> (block = "freed")
=============================================================================
