----------------------------- MODULE TaskService -----------------------------
(***************************************************************************)
(* What a pool of threads promises its clients, without saying how the     *)
(* promise is kept: a submitted task is finished exactly once, a barrier    *)
(* call returns only when every submitted task is finished, and the service *)
(* is torn down only when nothing is left to do.                            *)
(***************************************************************************)

CONSTANTS Task,   (* the tasks clients may submit                            *)
          User    (* the client threads                                      *)

VARIABLES submitted,  (* the tasks handed to the service so far              *)
          finished,   (* the tasks whose body has run to its end             *)
          blocked,    (* the clients inside a barrier call                   *)
          open        (* FALSE once the service is gone                      *)

vars == <<submitted, finished, blocked, open>>

TypeOK == /\ submitted \in SUBSET Task
          /\ finished \in SUBSET submitted
          /\ blocked \in SUBSET User
          /\ open \in BOOLEAN

Init == /\ submitted = {}
        /\ finished = {}
        /\ blocked = {}
        /\ open = TRUE

(* Nobody may submit while a barrier call is pending. *)
Submit(t) == /\ open
             /\ blocked = {}
             /\ t \notin submitted
             /\ submitted' = submitted \cup {t}
             /\ UNCHANGED <<finished, blocked, open>>

Finish(t) == /\ open
             /\ t \in submitted \ finished
             /\ finished' = finished \cup {t}
             /\ UNCHANGED <<submitted, blocked, open>>

EnterBarrier(u) == /\ open
                   /\ u \notin blocked
                   /\ blocked' = blocked \cup {u}
                   /\ UNCHANGED <<submitted, finished, open>>

LeaveBarrier(u) == /\ u \in blocked
                   /\ finished = submitted
                   /\ blocked' = blocked \ {u}
                   /\ UNCHANGED <<submitted, finished, open>>

Close == /\ open
         /\ blocked = {}
         /\ finished = submitted
         /\ open' = FALSE
         /\ UNCHANGED <<submitted, finished, blocked>>

Next == \/ \E t \in Task : Submit(t) \/ Finish(t)
        \/ \E u \in User : EnterBarrier(u) \/ LeaveBarrier(u)
        \/ Close

Spec == Init /\ [][Next]_vars

(* The promises: nothing is left to do when the service is gone, ...         *)
NothingLeft == ~open => finished = submitted /\ blocked = {}

(* ... what was done once is not done again, and a barrier call returns only  *)
(* when all is done.                                                         *)
InOrder == /\ submitted \subseteq submitted' /\ finished \subseteq finished'
           /\ blocked \ blocked' # {} => finished = submitted
           /\ ~open => UNCHANGED vars

=============================================================================
