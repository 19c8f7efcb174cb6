---------------------------- MODULE ReadWriteLock ----------------------------
(***************************************************************************)
(* What a lock with exclusive and shared ownership promises: one exclusive  *)
(* owner and nobody else, or any number of shared owners.                   *)
(***************************************************************************)
CONSTANT Thread

VARIABLES exclusive, shared  (* the owners of either kind *)

vars == <<exclusive, shared>>

TypeOK == exclusive \in SUBSET Thread /\ shared \in SUBSET Thread

Init == exclusive = {} /\ shared = {}

Acquire(t) == /\ exclusive = {} /\ shared = {}
              /\ exclusive' = {t}
              /\ UNCHANGED shared

AcquireShared(t) == /\ exclusive = {} /\ t \notin shared
                    /\ shared' = shared \cup {t}
                    /\ UNCHANGED exclusive

Release(t) == /\ t \in exclusive
              /\ exclusive' = {}
              /\ UNCHANGED shared

ReleaseShared(t) == /\ t \in shared
                    /\ shared' = shared \ {t}
                    /\ UNCHANGED exclusive

Next == \E t \in Thread : \/ Acquire(t) \/ AcquireShared(t)
                          \/ Release(t) \/ ReleaseShared(t)

Spec == Init /\ [][Next]_vars

(* The promise: an exclusive owner is the only owner of any kind. *)
Exclusion == exclusive = {} \/ (shared = {} /\ \E t \in Thread : exclusive = {t})

=============================================================================
