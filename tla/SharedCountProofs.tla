-------------------------- MODULE SharedCountProofs --------------------------
(***************************************************************************)
(* Proofs about SharedCount for any finite sets of threads and handles: the *)
(* safety properties of the reference counts, and that they implement       *)
(* SharedObject.                                                            *)
(***************************************************************************)
EXTENDS SharedCount, FiniteSetTheorems, TLAPS

-----------------------------------------------------------------------------
(* The inductive invariant.  What the counts count is what the properties    *)
(* rest on: the owners; and the observers, the threads that are about to     *)
(* drop a reference, and one for all owners until the object is destroyed.   *)

Releasing == {t \in Thread : pc[t] \in {"release", "decrement"}}
Group == IF object = "alive" THEN 1 ELSE 0

SharedCounted == sharedOwners + 1 = Cardinality(Owners)

(* Until a thread finds itself the last one. *)
WeakCounted ==
  block = "alive" /\ (\A t \in Thread : pc[t] # "free") =>
    /\ weakOwners \in Nat
    /\ weakOwners + 1 = Cardinality(Observers) + Cardinality(Releasing) + Group

(* One thread destroys the object, once the owners have gone. *)
Destruction ==
  /\ \A t \in Thread : pc[t] = "destroy" =>
       /\ object = "alive"
       /\ \A u \in Thread : pc[u] = "destroy" => u = t
  /\ object = "alive" =>
       \/ Owners # {}
       \/ \E t \in Thread : pc[t] = "destroy"

(* A call of lock() keeps its weak_ptr, and has a variable of its own for    *)
(* the result.                                                               *)
Locking ==
  /\ \A t \in Thread : pc[t] # "lock" => from[t] = NoHandle /\ to[t] = NoHandle
  /\ \A t \in Thread : pc[t] = "lock" =>
       /\ from[t] \in Observers
       /\ to[t] \in Handle /\ ptr[to[t]] = "null"
       /\ seen[t] = -1 => Owners = {}
  /\ \A t, u \in Thread :
       pc[t] = "lock" /\ pc[u] = "lock" /\ to[t] = to[u] => t = u

IInv == /\ TypeOK /\ SharedCounted /\ WeakCounted /\ Destruction /\ Locking
        /\ ObjectOutlivesOwners /\ BlockOutlivesUsers /\ LastReferenceIsAlone

-----------------------------------------------------------------------------
(* The sets that are counted are finite. *)
LEMMA Finite ==
  /\ IsFiniteSet(Owners) /\ IsFiniteSet(Observers) /\ IsFiniteSet(Releasing)
  /\ Cardinality(Owners) \in Nat /\ Cardinality(Observers) \in Nat
  /\ Cardinality(Releasing) \in Nat
<1>1. Owners \subseteq Handle /\ Observers \subseteq Handle /\ Releasing \subseteq Thread
  BY DEF Owners, Observers, Releasing
<1>2. IsFiniteSet(Owners) /\ IsFiniteSet(Observers) /\ IsFiniteSet(Releasing)
  BY <1>1, ThreadAssumption, HandleAssumption, FS_Subset
<1> QED
  BY <1>2, FS_CardinalityType

(* Initially one handle owns the object. *)
LEMMA InitOK == Init => IInv
<1> SUFFICES ASSUME Init PROVE IInv
  OBVIOUS
<1>1. PICK h \in Handle : ptr = [x \in Handle |-> IF x = h THEN "shared" ELSE "null"]
  BY DEF Init
<1>2. Owners = {h} /\ Observers = {} /\ Releasing = {}
  BY <1>1 DEF Init, Owners, Observers, Releasing
<1>3. TypeOK
  BY <1>1 DEF Init, TypeOK
<1>4. /\ Cardinality(Owners) = 1
      /\ Cardinality(Observers) = 0 /\ Cardinality(Releasing) = 0
  BY <1>2, FS_EmptySet, FS_Singleton
<1>5. SharedCounted /\ WeakCounted
  BY <1>4 DEF Init, SharedCounted, WeakCounted, Group
<1>6. Destruction /\ Locking
  BY <1>2 DEF Init, Destruction, Locking
<1>7. ObjectOutlivesOwners /\ BlockOutlivesUsers /\ LastReferenceIsAlone
  BY <1>2 DEF Init, ObjectOutlivesOwners, BlockOutlivesUsers, LastReferenceIsAlone
<1> QED
  BY <1>3, <1>5, <1>6, <1>7 DEF IInv

(* A thread that finds the weak count at zero, on its way to drop a          *)
(* reference, has the last one: the others have nothing to do with the block.*)
LEMMA LastOne ==
  ASSUME IInv, NEW t \in Thread, t \in Releasing, weakOwners = 0
  PROVE  /\ object = "destroyed" /\ Owners = {} /\ Observers = {}
         /\ \A u \in Thread \ {t} : pc[u] = "idle"
<1>1. block = "alive" /\ \A u \in Thread : pc[u] # "free"
  BY DEF IInv, TypeOK, BlockOutlivesUsers, LastReferenceIsAlone, Releasing
<1>2. 1 = Cardinality(Observers) + Cardinality(Releasing) + Group
  BY <1>1 DEF IInv, WeakCounted
<1>3. Cardinality(Releasing) # 0
  BY Finite, FS_EmptySet
<1>4. Group = 0 /\ Cardinality(Observers) = 0 /\ Cardinality(Releasing) = 1
  BY <1>2, <1>3, Finite DEF Group
<1>5. object = "destroyed" /\ Observers = {} /\ \E x : Releasing = {x}
  BY <1>4, Finite, FS_EmptySet, FS_Singleton DEF Group, IInv, TypeOK
<1>6. Owners = {}
  BY <1>5 DEF IInv, ObjectOutlivesOwners
<1>7. ASSUME NEW u \in Thread, u # t PROVE pc[u] = "idle"
  <2>1. pc[u] \notin {"release", "decrement"}
    BY <1>5, <1>7 DEF Releasing
  <2>2. pc[u] # "lock" /\ pc[u] # "destroy"
    BY <1>5 DEF IInv, Locking, Destruction
  <2> QED
    BY <1>1, <2>1, <2>2 DEF IInv, TypeOK
<1> QED
  BY <1>5, <1>6, <1>7

(* While a handle refers to the block, or a thread does, it is there and     *)
(* nobody is about to free it.                                               *)
LEMMA BlockInUse ==
  ASSUME IInv, NEW t \in Thread, pc[t] # "free",
         Owners \cup Observers # {} \/ pc[t] # "idle"
  PROVE  block = "alive" /\ \A u \in Thread : pc[u] # "free"
BY DEF IInv, TypeOK, BlockOutlivesUsers, LastReferenceIsAlone

-----------------------------------------------------------------------------
(* The steps preserve the invariant. *)

LEMMA CopySharedOK ==
  ASSUME IInv, NEW t \in Thread, NEW g \in Handle, NEW h \in Handle,
         CopyShared(t, g, h)
  PROVE  IInv'
<1> USE DEF CopyShared, counts, locals, Shared, Free
<1>1. g \in Owners /\ h \notin Owners /\ h \notin Observers
  BY DEF Owners, Observers
<1>2. Owners' = Owners \cup {h} /\ Observers' = Observers /\ Releasing' = Releasing
  BY DEF IInv, TypeOK, Owners, Observers, Releasing
<1>3. TypeOK'
  BY DEF IInv, TypeOK
<1>4. SharedCounted'
  <2>1. Cardinality(Owners') = Cardinality(Owners) + 1
    BY <1>1, <1>2, Finite, FS_AddElement
  <2> QED
    BY <2>1, Finite DEF IInv, SharedCounted, TypeOK
<1>5. WeakCounted' /\ Destruction'
  BY <1>1, <1>2 DEF IInv, WeakCounted, Destruction, ObjectOutlivesOwners, Group
<1>6. Locking'
  <2>1. \A u \in Thread : pc[u] = "lock" => seen[u] # -1
    BY <1>1 DEF IInv, Locking
  <2> QED
    BY <1>2, <2>1 DEF IInv, TypeOK, Locking
<1>7. ObjectOutlivesOwners' /\ BlockOutlivesUsers' /\ LastReferenceIsAlone'
  BY <1>1, <1>2 DEF IInv, ObjectOutlivesOwners, BlockOutlivesUsers, LastReferenceIsAlone
<1> QED
  BY <1>3, <1>4, <1>5, <1>6, <1>7 DEF IInv

LEMMA CopyWeakOK ==
  ASSUME IInv, NEW t \in Thread, NEW g \in Handle, NEW h \in Handle,
         CopyWeak(t, g, h)
  PROVE  IInv'
<1> USE DEF CopyWeak, counts, locals, Free
<1>1. g \in Owners \cup Observers /\ h \notin Owners /\ h \notin Observers
  BY DEF IInv, TypeOK, Owners, Observers
<1>2. Observers' = Observers \cup {h} /\ Owners' = Owners /\ Releasing' = Releasing
  BY DEF IInv, TypeOK, Owners, Observers, Releasing
<1>3. TypeOK'
  BY DEF IInv, TypeOK
<1>4. WeakCounted'
  <2>1. Cardinality(Observers') = Cardinality(Observers) + 1
    BY <1>1, <1>2, Finite, FS_AddElement
  <2> QED
    BY <1>2, <2>1, Finite DEF IInv, WeakCounted, Group, TypeOK
<1>5. SharedCounted' /\ Destruction'
  BY <1>2 DEF IInv, SharedCounted, Destruction
<1>6. Locking'
  BY <1>2 DEF IInv, TypeOK, Locking
<1>7. ObjectOutlivesOwners' /\ BlockOutlivesUsers' /\ LastReferenceIsAlone'
  BY <1>1, <1>2 DEF IInv, ObjectOutlivesOwners, BlockOutlivesUsers, LastReferenceIsAlone
<1> QED
  BY <1>3, <1>4, <1>5, <1>6, <1>7 DEF IInv

LEMMA ReleaseSharedOK ==
  ASSUME IInv, NEW t \in Thread, NEW h \in Handle, ReleaseShared(t, h)
  PROVE  IInv'
<1> USE DEF ReleaseShared, locals, Shared, Goto
<1>1. h \in Owners /\ h \notin Observers
  BY DEF Owners, Observers
<1>2. Owners' = Owners \ {h} /\ Observers' = Observers /\ Releasing' = Releasing
  BY DEF IInv, TypeOK, Owners, Observers, Releasing
<1>3. /\ Cardinality(Owners') = Cardinality(Owners) - 1
      /\ sharedOwners \in Nat
      /\ sharedOwners = 0 => Owners' = {}
      /\ sharedOwners # 0 => Owners' # {}
  <2>1. Cardinality(Owners') = Cardinality(Owners) - 1 /\ IsFiniteSet(Owners')
    BY <1>1, <1>2, Finite, FS_RemoveElement
  <2>2. Cardinality(Owners) # 0
    BY <1>1, Finite, FS_EmptySet
  <2>3. sharedOwners \in Nat /\ Cardinality(Owners') = sharedOwners
    BY <2>1, <2>2, Finite DEF IInv, SharedCounted, TypeOK
  <2> QED
    BY <2>1, <2>3, FS_EmptySet
<1>4. TypeOK'
  BY <1>3 DEF IInv, TypeOK
<1>5. SharedCounted'
  BY <1>3, Finite DEF IInv, SharedCounted, TypeOK
<1>6. object = "alive" /\ \A u \in Thread : pc[u] # "destroy"
  BY <1>1 DEF IInv, ObjectOutlivesOwners
<1>7. WeakCounted'
  BY <1>1, <1>2, BlockInUse DEF IInv, TypeOK, WeakCounted, Group
<1>8. Destruction' /\ ObjectOutlivesOwners'
  BY <1>3, <1>6 DEF IInv, TypeOK, Destruction, ObjectOutlivesOwners
<1>9. Locking'
  BY <1>2 DEF IInv, TypeOK, Locking
<1>10. BlockOutlivesUsers' /\ LastReferenceIsAlone'
  BY <1>1, BlockInUse DEF IInv, TypeOK, BlockOutlivesUsers, LastReferenceIsAlone
<1> QED
  BY <1>4, <1>5, <1>7, <1>8, <1>9, <1>10 DEF IInv

LEMMA OnZeroSharedOK ==
  ASSUME IInv, NEW t \in Thread, OnZeroShared(t)
  PROVE  IInv'
<1> USE DEF OnZeroShared, counts, locals, Goto
<1>1. Owners' = Owners /\ Observers' = Observers /\ Releasing' = Releasing \cup {t}
  BY DEF IInv, TypeOK, Owners, Observers, Releasing
<1>2. t \notin Releasing /\ object = "alive" /\ Owners = {}
  BY DEF Releasing, IInv, Destruction, ObjectOutlivesOwners
<1>3. block = "alive" /\ \A u \in Thread : pc[u] # "free"
  BY BlockInUse DEF IInv, TypeOK
<1>4. TypeOK'
  BY DEF IInv, TypeOK
<1>5. SharedCounted'
  BY <1>1 DEF IInv, SharedCounted
<1>6. WeakCounted'
  <2>1. Cardinality(Releasing') = Cardinality(Releasing) + 1
    BY <1>1, <1>2, Finite, FS_AddElement
  <2>2. Group = 1 /\ Group' = 0
    BY <1>2 DEF Group
  <2> QED
    BY <1>1, <1>3, <2>1, <2>2, Finite DEF IInv, WeakCounted
<1>7. Destruction'
  BY <1>1 DEF IInv, TypeOK, Destruction
<1>8. Locking'
  BY <1>1 DEF IInv, TypeOK, Locking
<1>9. ObjectOutlivesOwners' /\ BlockOutlivesUsers' /\ LastReferenceIsAlone'
  BY <1>1, <1>2, <1>3 DEF IInv, TypeOK, ObjectOutlivesOwners,
     BlockOutlivesUsers, LastReferenceIsAlone
<1> QED
  BY <1>4, <1>5, <1>6, <1>7, <1>8, <1>9 DEF IInv

LEMMA ReleaseWeakOK ==
  ASSUME IInv, NEW t \in Thread, NEW h \in Handle, ReleaseWeak(t, h)
  PROVE  IInv'
<1> USE DEF ReleaseWeak, counts, locals, Goto, Weak, InLock
<1>1. /\ Owners' = Owners /\ Observers' = Observers \ {h}
      /\ Releasing' = Releasing \cup {t} /\ h \in Observers /\ t \notin Releasing
  BY DEF IInv, TypeOK, Owners, Observers, Releasing
<1>2. block = "alive" /\ \A u \in Thread : pc[u] # "free"
  BY <1>1, BlockInUse
<1>3. TypeOK'
  BY DEF IInv, TypeOK
<1>4. SharedCounted'
  BY <1>1 DEF IInv, SharedCounted
<1>5. WeakCounted'
  <2>1. Cardinality(Releasing') = Cardinality(Releasing) + 1
    BY <1>1, Finite, FS_AddElement
  <2>2. Cardinality(Observers') = Cardinality(Observers) - 1
    BY <1>1, Finite, FS_RemoveElement
  <2>3. Group' = Group /\ Group \in Nat
    BY DEF Group
  <2> QED
    BY <1>2, <2>1, <2>2, <2>3, Finite DEF IInv, WeakCounted
<1>6. Destruction'
  BY <1>1 DEF IInv, TypeOK, Destruction
<1>7. Locking'
  BY <1>1 DEF IInv, TypeOK, Locking, Observers
<1>8. ObjectOutlivesOwners' /\ BlockOutlivesUsers' /\ LastReferenceIsAlone'
  BY <1>1, <1>2 DEF IInv, TypeOK, ObjectOutlivesOwners,
     BlockOutlivesUsers, LastReferenceIsAlone
<1> QED
  BY <1>3, <1>4, <1>5, <1>6, <1>7, <1>8 DEF IInv

LEMMA LoadWeakOwnersOK ==
  ASSUME IInv, NEW t \in Thread, LoadWeakOwners(t)
  PROVE  IInv'
<1> USE DEF LoadWeakOwners, counts, locals, Goto
<1>1. Owners' = Owners /\ Observers' = Observers /\ t \in Releasing
  BY DEF Owners, Observers, Releasing
<1>2. block = "alive" /\ \A u \in Thread : pc[u] # "free"
  BY BlockInUse DEF IInv, TypeOK
<1>3. TypeOK' /\ SharedCounted'
  BY <1>1 DEF IInv, TypeOK, SharedCounted
<1>4. WeakCounted'
  <2>1. CASE weakOwners = 0
    BY <2>1 DEF WeakCounted, IInv, TypeOK
  <2>2. CASE weakOwners # 0
    <3>1. Releasing' = Releasing
      BY <2>2 DEF Releasing, IInv, TypeOK
    <3> QED
      BY <1>1, <1>2, <3>1 DEF WeakCounted, IInv, Group
  <2> QED
    BY <2>1, <2>2
<1>5. Destruction' /\ Locking'
  BY <1>1 DEF IInv, TypeOK, Destruction, Locking
<1>6. ObjectOutlivesOwners' /\ BlockOutlivesUsers'
  BY <1>1, <1>2 DEF IInv, TypeOK, ObjectOutlivesOwners, BlockOutlivesUsers
<1>7. LastReferenceIsAlone'
  <2>1. CASE weakOwners = 0
    BY <1>1, <1>2, <2>1, LastOne DEF IInv, TypeOK, LastReferenceIsAlone
  <2>2. CASE weakOwners # 0
    BY <1>2, <2>2 DEF IInv, TypeOK, LastReferenceIsAlone
  <2> QED
    BY <2>1, <2>2
<1> QED
  BY <1>3, <1>4, <1>5, <1>6, <1>7 DEF IInv

LEMMA DecrementWeakOwnersOK ==
  ASSUME IInv, NEW t \in Thread, DecrementWeakOwners(t)
  PROVE  IInv'
<1> USE DEF DecrementWeakOwners, locals, Goto
<1>1. /\ Owners' = Owners /\ Observers' = Observers
      /\ Releasing' = Releasing \ {t} /\ t \in Releasing
  BY DEF Owners, Observers, Releasing, IInv, TypeOK
<1>2. block = "alive" /\ \A u \in Thread : pc[u] # "free"
  BY BlockInUse DEF IInv, TypeOK
<1>3. weakOwners \in Nat
  BY <1>2 DEF IInv, WeakCounted
<1>4. TypeOK' /\ SharedCounted'
  BY <1>1, <1>3 DEF IInv, TypeOK, SharedCounted
<1>5. WeakCounted'
  <2>1. CASE weakOwners = 0
    BY <2>1 DEF WeakCounted, IInv, TypeOK
  <2>2. CASE weakOwners # 0
    <3>1. Cardinality(Releasing') = Cardinality(Releasing) - 1
      BY <1>1, Finite, FS_RemoveElement
    <3>2. Group' = Group /\ Group \in Nat
      BY DEF Group
    <3> QED
      BY <1>1, <1>2, <1>3, <2>2, <3>1, <3>2, Finite DEF WeakCounted, IInv
  <2> QED
    BY <2>1, <2>2
<1>6. Destruction' /\ Locking'
  BY <1>1 DEF IInv, TypeOK, Destruction, Locking
<1>7. ObjectOutlivesOwners' /\ BlockOutlivesUsers'
  BY <1>1, <1>2 DEF IInv, TypeOK, ObjectOutlivesOwners, BlockOutlivesUsers
<1>8. LastReferenceIsAlone'
  <2>1. CASE weakOwners = 0
    BY <1>1, <1>2, <2>1, LastOne DEF IInv, TypeOK, LastReferenceIsAlone
  <2>2. CASE weakOwners # 0
    BY <1>2, <2>2 DEF IInv, TypeOK, LastReferenceIsAlone
  <2> QED
    BY <2>1, <2>2
<1> QED
  BY <1>4, <1>5, <1>6, <1>7, <1>8 DEF IInv

LEMMA OnZeroSharedWeakOK ==
  ASSUME IInv, NEW t \in Thread, OnZeroSharedWeak(t)
  PROVE  IInv'
<1> USE DEF OnZeroSharedWeak, counts, locals, Goto
<1>1. Owners' = Owners /\ Observers' = Observers
  BY DEF Owners, Observers
<1>2. /\ object = "destroyed" /\ Owners \cup Observers = {}
      /\ \A u \in Thread \ {t} : pc[u] = "idle"
  BY DEF IInv, LastReferenceIsAlone
<1>3. TypeOK' /\ SharedCounted' /\ WeakCounted'
  BY <1>1 DEF IInv, TypeOK, SharedCounted, WeakCounted
<1>4. Destruction' /\ Locking'
  BY <1>1, <1>2 DEF IInv, TypeOK, Destruction, Locking
<1>5. ObjectOutlivesOwners' /\ BlockOutlivesUsers' /\ LastReferenceIsAlone'
  BY <1>1, <1>2 DEF IInv, TypeOK, ObjectOutlivesOwners,
     BlockOutlivesUsers, LastReferenceIsAlone
<1> QED
  BY <1>3, <1>4, <1>5 DEF IInv

LEMMA LockOK ==
  ASSUME IInv, NEW t \in Thread, NEW g \in Handle, NEW h \in Handle, Lock(t, g, h)
  PROVE  IInv'
<1> USE DEF Lock, counts, Goto, Weak, Free
<1>1. /\ Owners' = Owners /\ Observers' = Observers /\ Releasing' = Releasing
      /\ g \in Observers
  BY DEF Owners, Observers, Releasing, IInv, TypeOK
<1>2. block = "alive" /\ \A u \in Thread : pc[u] # "free"
  BY <1>1, BlockInUse
<1>3. sharedOwners = -1 => Owners = {}
  BY Finite, FS_EmptySet DEF IInv, SharedCounted
<1>4. TypeOK'
  BY DEF IInv, TypeOK
<1>5. SharedCounted' /\ WeakCounted'
  BY <1>1, <1>2 DEF IInv, TypeOK, SharedCounted, WeakCounted, Group
<1>6. Destruction'
  BY <1>1 DEF IInv, TypeOK, Destruction
<1>7. Locking'
  BY <1>1, <1>3 DEF IInv, TypeOK, Locking
<1>8. ObjectOutlivesOwners' /\ BlockOutlivesUsers' /\ LastReferenceIsAlone'
  BY <1>1, <1>2 DEF IInv, TypeOK, ObjectOutlivesOwners,
     BlockOutlivesUsers, LastReferenceIsAlone
<1> QED
  BY <1>4, <1>5, <1>6, <1>7, <1>8 DEF IInv

(* The exchange succeeds on a count that says there are owners. *)
LEMMA CompareExchangeOK ==
  ASSUME IInv, NEW t \in Thread, CompareExchange(t)
  PROVE  IInv' /\ Owners # {} /\ Owners' = Owners \cup {to[t]} /\ to[t] \in Handle
<1> USE DEF CompareExchange, LockOver, Goto
<1>1. /\ Owners' = Owners \cup {to[t]} /\ Observers' = Observers
      /\ Releasing' = Releasing
      /\ to[t] \notin Owners /\ to[t] \notin Observers /\ to[t] \in Handle
  BY DEF Owners, Observers, Releasing, IInv, TypeOK, Locking
<1>2. block = "alive" /\ \A u \in Thread : pc[u] # "free"
  BY BlockInUse DEF IInv, TypeOK
<1>3. sharedOwners \in Nat /\ Owners # {}
  <2>1. sharedOwners \in Nat /\ Cardinality(Owners) # 0
    BY DEF IInv, TypeOK, SharedCounted
  <2> QED
    BY <2>1, Finite, FS_EmptySet
<1>4. TypeOK'
  BY <1>1, <1>3 DEF IInv, TypeOK
<1>5. SharedCounted'
  <2>1. Cardinality(Owners') = Cardinality(Owners) + 1
    BY <1>1, Finite, FS_AddElement
  <2> QED
    BY <2>1, <1>3, Finite DEF IInv, SharedCounted
<1>6. WeakCounted'
  BY <1>1, <1>2 DEF IInv, WeakCounted, Group
<1>7. Destruction' /\ ObjectOutlivesOwners'
  BY <1>1, <1>3 DEF IInv, TypeOK, Destruction, ObjectOutlivesOwners
<1>8. Locking'
  <2>1. \A u \in Thread : pc[u] = "lock" => seen[u] # -1
    BY <1>3 DEF IInv, Locking
  <2>2. \A u \in Thread \ {t} : pc[u] = "lock" => to[u] # to[t]
    BY DEF IInv, Locking
  <2> QED
    BY <1>1, <2>1, <2>2 DEF IInv, TypeOK, Locking
<1>9. BlockOutlivesUsers' /\ LastReferenceIsAlone'
  BY <1>1, <1>2 DEF IInv, TypeOK, BlockOutlivesUsers, LastReferenceIsAlone
<1> QED
  BY <1>1, <1>3, <1>4, <1>5, <1>6, <1>7, <1>8, <1>9 DEF IInv

LEMMA CompareExchangeFailsOK ==
  ASSUME IInv, NEW t \in Thread, CompareExchangeFails(t)
  PROVE  IInv'
<1> USE DEF CompareExchangeFails, counts
<1>1. Owners' = Owners /\ Observers' = Observers /\ Releasing' = Releasing
  BY DEF Owners, Observers, Releasing
<1>2. sharedOwners = -1 => Owners = {}
  BY Finite, FS_EmptySet DEF IInv, SharedCounted
<1>3. TypeOK' /\ SharedCounted' /\ WeakCounted'
  BY <1>1 DEF IInv, TypeOK, SharedCounted, WeakCounted, Group
<1>4. Destruction'
  BY <1>1 DEF IInv, TypeOK, Destruction
<1>5. Locking'
  BY <1>1, <1>2 DEF IInv, TypeOK, Locking
<1>6. ObjectOutlivesOwners' /\ BlockOutlivesUsers' /\ LastReferenceIsAlone'
  BY <1>1 DEF IInv, TypeOK, ObjectOutlivesOwners,
     BlockOutlivesUsers, LastReferenceIsAlone
<1> QED
  BY <1>3, <1>4, <1>5, <1>6 DEF IInv

LEMMA LockFailsOK ==
  ASSUME IInv, NEW t \in Thread, LockFails(t)
  PROVE  IInv'
<1> USE DEF LockFails, LockOver, counts, Goto
<1>1. Owners' = Owners /\ Observers' = Observers /\ Releasing' = Releasing
  BY DEF Owners, Observers, Releasing, IInv, TypeOK
<1>2. block = "alive" /\ \A u \in Thread : pc[u] # "free"
  BY BlockInUse DEF IInv, TypeOK
<1>3. TypeOK' /\ SharedCounted' /\ WeakCounted'
  BY <1>1, <1>2 DEF IInv, TypeOK, SharedCounted, WeakCounted, Group
<1>4. Destruction'
  BY <1>1 DEF IInv, TypeOK, Destruction
<1>5. Locking'
  BY <1>1 DEF IInv, TypeOK, Locking
<1>6. ObjectOutlivesOwners' /\ BlockOutlivesUsers' /\ LastReferenceIsAlone'
  BY <1>1, <1>2 DEF IInv, TypeOK, ObjectOutlivesOwners,
     BlockOutlivesUsers, LastReferenceIsAlone
<1> QED
  BY <1>3, <1>4, <1>5, <1>6 DEF IInv

LEMMA StutterOK == IInv /\ UNCHANGED vars => IInv'
BY DEF vars, IInv, TypeOK, SharedCounted, WeakCounted, Destruction, Locking,
   ObjectOutlivesOwners, BlockOutlivesUsers, LastReferenceIsAlone,
   Owners, Observers, Releasing, Group

LEMMA NextOK == IInv /\ [Next]_vars => IInv'
<1> SUFFICES ASSUME IInv, [Next]_vars PROVE IInv'
  OBVIOUS
<1>1. CASE UNCHANGED vars
  BY <1>1, StutterOK
<1>2. ASSUME NEW t \in Thread, NEW g \in Handle, NEW h \in Handle,
             CopyShared(t, g, h) \/ CopyWeak(t, g, h) \/ Lock(t, g, h)
      PROVE  IInv'
  BY <1>2, CopySharedOK, CopyWeakOK, LockOK
<1>3. ASSUME NEW t \in Thread, NEW h \in Handle,
             ReleaseShared(t, h) \/ ReleaseWeak(t, h)
      PROVE  IInv'
  BY <1>3, ReleaseSharedOK, ReleaseWeakOK
<1>4. ASSUME NEW t \in Thread,
             CompareExchange(t) \/ CompareExchangeFails(t) \/ LockFails(t)
      PROVE  IInv'
  BY <1>4, CompareExchangeOK, CompareExchangeFailsOK, LockFailsOK
<1>5. ASSUME NEW t \in Thread, Finish(t) PROVE IInv'
  BY <1>5, OnZeroSharedOK, LoadWeakOwnersOK, DecrementWeakOwnersOK,
     OnZeroSharedWeakOK DEF Finish
<1> QED
  BY <1>1, <1>2, <1>3, <1>4, <1>5 DEF Next

-----------------------------------------------------------------------------
(* What is proved of the counts. *)

(* The inductive invariant holds of every behaviour. *)
THEOREM Invariance == Spec => []IInv
BY InitOK, NextOK, PTL DEF Spec

(* Type correctness: neither count goes below -1 (__release_shared and       *)
(* __release_weak, for any number of threads and handles).                   *)
THEOREM TypeCorrect == Spec => []TypeOK
BY Invariance, PTL DEF IInv

(* The object is there as long as a shared_ptr owns it (__release_shared     *)
(* against copies and __shared_weak_count::lock).                            *)
THEOREM ObjectThere == Spec => []ObjectOutlivesOwners
BY Invariance, PTL DEF IInv

(* The control block is there for everyone that still uses its counts.       *)
THEOREM BlockThere == Spec => []BlockOutlivesUsers
BY Invariance, PTL DEF IInv

(* What the comment in __release_weak claims: the thread that sees the last  *)
(* reference may skip the decrement, because it is alone.                    *)
THEOREM LoadIsEnough == Spec => []LastReferenceIsAlone
BY Invariance, PTL DEF IInv

(* Nothing leaks: when every handle has gone and no thread is at work, the   *)
(* block has been freed (the safety part of NothingLeaks, for __release_weak *)
(* run by any number of threads at once).                                    *)
THEOREM QuietMeansFreed ==
  Spec => [](Owners \cup Observers = {} /\ (\A t \in Thread : pc[t] = "idle")
               => block = "freed")
<1>1. ASSUME IInv, Owners \cup Observers = {}, \A t \in Thread : pc[t] = "idle",
             block # "freed"
      PROVE  FALSE
  <2>1. block = "alive" /\ object = "destroyed"
    BY <1>1 DEF IInv, TypeOK, Destruction
  <2>2. Releasing = {} /\ Observers = {}
    BY <1>1 DEF Releasing
  <2>3. weakOwners \in Nat /\ weakOwners + 1 = 0
    BY <1>1, <2>1, <2>2, FS_EmptySet DEF IInv, WeakCounted, Group
  <2> QED
    BY <2>3
<1>2. IInv => (Owners \cup Observers = {} /\ (\A t \in Thread : pc[t] = "idle")
                 => block = "freed")
  BY <1>1
<1> QED
  BY <1>2, Invariance, PTL

(* lock() fails of an expired object only (__shared_weak_count::lock). *)
THEOREM HonestLock == Spec => LockFailsOnlyIfExpired
<1>1. ASSUME IInv, [Next]_vars, NEW t \in Thread, LockOver(t), ptr' = ptr
      PROVE  Owners = {}
  <2>1. pc'[t] = "idle" /\ pc[t] = "lock"
    BY <1>1 DEF LockOver, Goto, IInv, TypeOK
  <2>2. seen[t] = -1
    BY <1>1, <2>1 DEF Next, vars, CopyShared, CopyWeak, Lock, ReleaseShared,
       ReleaseWeak, CompareExchange, CompareExchangeFails, LockFails, Finish,
       OnZeroShared, LoadWeakOwners, DecrementWeakOwners, OnZeroSharedWeak, Goto,
       IInv, TypeOK, Locking, LockOver
  <2> QED
    BY <1>1, <2>1, <2>2 DEF IInv, Locking
<1>2. IInv /\ [Next]_vars =>
        [\A t \in Thread : LockOver(t) /\ ptr' = ptr => Owners = {}]_vars
  BY <1>1
<1> QED
  BY <1>2, Invariance, PTL DEF Spec, LockFailsOnlyIfExpired

-----------------------------------------------------------------------------
(* The counts implement SharedObject. *)

LEMMA InitRefines == Init => Object!Init
BY DEF Init, Object!Init, Owners, Observers

LEMMA StepRefines == IInv /\ [Next]_vars => [Object!Next]_(Object!vars)
<1> SUFFICES ASSUME IInv, [Next]_vars PROVE [Object!Next]_(Object!vars)
  OBVIOUS
<1> USE DEF counts, locals, Goto
<1>1. CASE UNCHANGED vars
  BY <1>1 DEF vars, Object!vars, Owners, Observers
<1>2. ASSUME NEW t \in Thread, NEW g \in Handle, NEW h \in Handle, CopyShared(t, g, h)
      PROVE  Object!Own(h)
  BY <1>2 DEF CopyShared, Shared, Free, Object!Own, Object!InUse, Owners, Observers,
     IInv, TypeOK
<1>3. ASSUME NEW t \in Thread, NEW g \in Handle, NEW h \in Handle, CopyWeak(t, g, h)
      PROVE  Object!Observe(h)
  BY <1>3 DEF CopyWeak, Free, Object!Observe, Object!InUse, Owners, Observers,
     IInv, TypeOK
<1>4. ASSUME NEW t \in Thread, NEW h \in Handle, ReleaseShared(t, h)
      PROVE  Object!Disown(h)
  BY <1>4 DEF ReleaseShared, Shared, Object!Disown, Owners, Observers, IInv, TypeOK
<1>5. ASSUME NEW t \in Thread, NEW h \in Handle, ReleaseWeak(t, h)
      PROVE  Object!Ignore(h)
  BY <1>5 DEF ReleaseWeak, Weak, Object!Ignore, Owners, Observers, IInv, TypeOK
<1>6. ASSUME NEW t \in Thread, OnZeroShared(t) PROVE Object!Destroy
  <2>1. Owners = {} /\ object = "alive"
    BY <1>6 DEF OnZeroShared, IInv, Destruction, ObjectOutlivesOwners
  <2> QED
    BY <1>6, <2>1 DEF OnZeroShared, Object!Destroy, Owners, Observers
<1>7. ASSUME NEW t \in Thread, OnZeroSharedWeak(t) PROVE Object!Free
  <2>1. block = "alive"
    BY <1>7, BlockInUse DEF OnZeroSharedWeak, IInv, TypeOK, BlockOutlivesUsers
  <2> QED
    BY <1>7, <2>1 DEF OnZeroSharedWeak, Object!Free, Object!InUse, Owners,
       Observers, IInv, LastReferenceIsAlone
<1>8. ASSUME NEW t \in Thread, CompareExchange(t)
      PROVE  \E h \in Handle : Object!Own(h)
  <2>1. /\ Owners # {} /\ Owners' = Owners \cup {to[t]} /\ to[t] \in Handle
        /\ ptr[to[t]] = "null" /\ Observers' = Observers
    BY <1>8, CompareExchangeOK DEF CompareExchange, LockOver, IInv, TypeOK,
       Locking, Observers
  <2>2. Object!Own(to[t])
    BY <1>8, <2>1 DEF CompareExchange, LockOver, Object!Own, Object!InUse,
       Owners, Observers
  <2> QED
    BY <2>1, <2>2
<1>9. ASSUME NEW t \in Thread,
             \/ LoadWeakOwners(t) \/ DecrementWeakOwners(t)
             \/ CompareExchangeFails(t) \/ LockFails(t)
             \/ \E g, h \in Handle : Lock(t, g, h)
      PROVE  UNCHANGED Object!vars
  BY <1>9 DEF LoadWeakOwners, DecrementWeakOwners, CompareExchangeFails, LockFails,
     LockOver, Lock, Object!vars, Owners, Observers
<1> QED
  BY <1>1, <1>2, <1>3, <1>4, <1>5, <1>6, <1>7, <1>8, <1>9
     DEF Next, Finish, Object!Next

(* The reference counts implement the object with its owners, observers and  *)
(* lifetimes (shared_ptr and weak_ptr over __shared_weak_count).             *)
THEOREM Refinement == Spec => ImplementsSharedObject
BY Invariance, InitRefines, StepRefines, PTL DEF Spec, Object!Spec, ImplementsSharedObject

(* What the refinement is worth: SharedObject keeps its promises, so an object *)
(* is there as long as a shared_ptr owns it, the counts as long as a handle  *)
(* refers to them, and neither comes back.                                   *)
THEOREM LifetimesAreKept ==
  Spec => []Object!Lifetimes /\ [][Object!ForGood]_(Object!vars)
<1> USE DEF Object!Lifetimes, Object!InUse
<1>1. Object!Init => Object!Lifetimes
  BY DEF Object!Init
<1>2. Object!Lifetimes /\ [Object!Next]_(Object!vars) => Object!Lifetimes'
  BY DEF Object!Next, Object!vars, Object!Own, Object!Observe, Object!Disown,
     Object!Ignore, Object!Destroy, Object!Free
<1>3. TypeOK /\ Object!Lifetimes /\ [Object!Next]_(Object!vars) =>
        [Object!ForGood]_(Object!vars)
  BY DEF Object!ForGood, Object!Next, Object!vars, Object!Own, Object!Observe,
     Object!Disown, Object!Ignore, Object!Destroy, Object!Free, TypeOK
<1> QED
  BY <1>1, <1>2, <1>3, Refinement, TypeCorrect, PTL
     DEF ImplementsSharedObject, Object!Spec

=============================================================================
