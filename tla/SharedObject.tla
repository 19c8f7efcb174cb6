---------------------------- MODULE SharedObject -----------------------------
(***************************************************************************)
(* What std::shared_ptr and std::weak_ptr promise of one object: it is      *)
(* destroyed once, when its last owner has gone, it cannot be owned again   *)
(* after that, and the storage that holds the counts goes once nothing      *)
(* refers to it.                                                            *)
(***************************************************************************)
CONSTANT Handle       (* the shared_ptr and weak_ptr variables              *)

VARIABLES owners,     (* the handles that own the object                    *)
          observers,  (* the handles that refer to it without owning it     *)
          object,     (* "alive" or "destroyed"                             *)
          block       (* the storage of the counts: "alive" or "freed"      *)

vars == <<owners, observers, object, block>>

InUse == owners \cup observers

Init == /\ \E h \in Handle : owners = {h}
        /\ observers = {} /\ object = "alive" /\ block = "alive"

(* An owner comes from an owner, or from an observer that finds one alive.  *)
Own(h) == /\ owners # {} /\ h \notin InUse
          /\ owners' = owners \cup {h}
          /\ UNCHANGED <<observers, object, block>>

Observe(h) == /\ InUse # {} /\ h \notin InUse
              /\ observers' = observers \cup {h}
              /\ UNCHANGED <<owners, object, block>>

Disown(h) == /\ h \in owners
             /\ owners' = owners \ {h}
             /\ UNCHANGED <<observers, object, block>>

Ignore(h) == /\ h \in observers
             /\ observers' = observers \ {h}
             /\ UNCHANGED <<owners, object, block>>

Destroy == /\ owners = {} /\ object = "alive"
           /\ object' = "destroyed"
           /\ UNCHANGED <<owners, observers, block>>

Free == /\ InUse = {} /\ object = "destroyed" /\ block = "alive"
        /\ block' = "freed"
        /\ UNCHANGED <<owners, observers, object>>

Next == \/ \E h \in Handle : Own(h) \/ Observe(h) \/ Disown(h) \/ Ignore(h)
        \/ Destroy \/ Free

Spec == Init /\ [][Next]_vars

(* The promises: whoever owns the object finds it alive, whoever refers to    *)
(* it finds the counts, ...                                                  *)
Lifetimes == /\ owners # {} => object = "alive"
             /\ InUse # {} \/ object = "alive" => block = "alive"

(* ... and what is destroyed or freed is so once and for all.                *)
ForGood == /\ object = "destroyed" => object' = "destroyed" /\ owners' = {}
           /\ block = "freed" => block' = "freed" /\ InUse' = {}
=============================================================================
