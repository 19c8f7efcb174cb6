------------------------------ MODULE FifoLock -------------------------------
(***************************************************************************)
(* What a lock that queues its threads promises: one owner at a time, and   *)
(* those who wait become owners in the order in which they joined the queue, *)
(* before anybody who has not joined it.                                    *)
(***************************************************************************)
EXTENDS Naturals, Sequences

CONSTANT Thread

VARIABLES owner,    (* the thread that has the lock, as a set of at most one *)
          waiting   (* the queue                                             *)

vars == <<owner, waiting>>

Init == owner = {} /\ waiting = <<>>

Acquire(t) == /\ owner = {} /\ waiting = <<>>
              /\ owner' = {t}
              /\ UNCHANGED waiting

(* Who has the lock does not queue for it, nor anybody twice. *)
Waits(t) == \E i \in 1..Len(waiting) : waiting[i] = t

Enqueue(t) == /\ t \notin owner /\ ~Waits(t)
              /\ waiting' = Append(waiting, t)
              /\ UNCHANGED owner

Release(t) == /\ owner = {t}
              /\ owner' = {}
              /\ UNCHANGED waiting

HandOver(t) == /\ owner = {} /\ waiting # <<>> /\ t = Head(waiting)
               /\ owner' = {t}
               /\ waiting' = Tail(waiting)

Next == \E t \in Thread : Acquire(t) \/ Enqueue(t) \/ Release(t) \/ HandOver(t)

Spec == Init /\ [][Next]_vars

(* The promises: one owner at a time, who does not wait for the lock, nor     *)
(* does anybody wait in two places, ...                                      *)
OneOwner == /\ \A t, u \in owner : t = u
            /\ \A t \in owner : ~Waits(t)
            /\ \A i, j \in 1..Len(waiting) : waiting[i] = waiting[j] => i = j

(* ... who is the first of the queue if there is one; and a thread leaves the *)
(* queue only from its front, to become the owner.                           *)
InTurn == /\ owner' \notin {owner, {}} /\ waiting # <<>> =>
               owner = {} /\ owner' = {Head(waiting)}
          /\ Len(waiting') < Len(waiting) =>
               waiting' = Tail(waiting) /\ owner' = {Head(waiting)}
=============================================================================
