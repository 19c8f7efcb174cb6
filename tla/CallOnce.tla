------------------------------ MODULE CallOnce -------------------------------
(***************************************************************************)
(* libc++'s std::call_once (libcxx/src/mutex.cpp, __call_once, and the test *)
(* in libcxx/include/mutex that spares most calls the lock).  One mutex and *)
(* one condition variable serve the once_flags of the whole program.        *)
(*                                                                          *)
(* What a thread does while it holds the mutex is one step: nothing in it   *)
(* blocks but the wait, which gives the mutex up.  The only access without  *)
(* the mutex is the test in call_once().  The function of a flag may call   *)
(* call_once() in its turn, of a smaller flag: where functions need each    *)
(* other in a circle a program is in error.                                 *)
(***************************************************************************)
EXTENDS Naturals, Sequences, SequencesExt

CONSTANTS Thread,
          Flag,       (* the once_flags, numbered                            *)
          MaxThrows   (* how often the functions throw, all together         *)

ASSUME FlagAssumption == Flag \subseteq Nat
ASSUME ThrowsAssumption == MaxThrows \in Nat

VARIABLES flag,    (* __state_: 0 is "unset", 1 "running" and ~0ul "done"    *)
          cv,      (* the threads blocked in __libcpp_condvar_wait()         *)
          calls,   (* the calls each thread is in, the innermost one last    *)
          pc,      (* of the innermost call; "user" outside __call_once()    *)
          throws   (* the exceptions so far                                  *)

vars == <<flag, cv, calls, pc, throws>>

Top(t) == Last(calls[t])

Goto(t, a, b) == pc[t] = a /\ pc' = [pc EXCEPT ![t] = b]
Return(t) == calls' = [calls EXCEPT ![t] = Front(@)]

Init == /\ flag = [f \in Flag |-> "unset"]
        /\ cv = {} /\ throws = 0
        /\ calls = [t \in Thread |-> <<>>]
        /\ pc = [t \in Thread |-> "user"]

-----------------------------------------------------------------------------
(* Seeded faults: each is a slip of the step it is named after, kept to see  *)
(* that the properties at the end notice it.                                 *)

Claim_Racing(t) == /\ Goto(t, "enter", "user")
                   /\ flag[Top(t)] # "done" /\ t \notin cv
                   /\ flag' = [flag EXCEPT ![Top(t)] = "running"]
                   /\ UNCHANGED <<cv, calls, throws>>

(* An if where the code has a while. *)
Found_Unlooped(t) == /\ Goto(t, "enter", "user") /\ Return(t)
                     /\ flag[Top(t)] # "unset" /\ t \notin cv
                     /\ UNCHANGED <<flag, cv, throws>>

(* notify_one(), though the flags share the condition variable. *)
Broadcast_One(t) == /\ Goto(t, "broadcast", "user") /\ Return(t)
                    /\ cv' \in IF cv = {} THEN {{}} ELSE {cv \ {u} : u \in cv}
                    /\ UNCHANGED <<flag, throws>>

Rethrow_Silent(t) == /\ Goto(t, "rethrow", "user") /\ Return(t)
                     /\ UNCHANGED <<flag, cv, throws>>

-----------------------------------------------------------------------------
(* A call of call_once() that finds the flag done returns at once. *)
Call(t, f) == /\ pc[t] = "user" /\ (calls[t] # <<>> => f < Top(t))
              /\ flag[f] # "done"
              /\ calls' = [calls EXCEPT ![t] = Append(@, f)]
              /\ pc' = [pc EXCEPT ![t] = "enter"]
              /\ UNCHANGED <<flag, cv, throws>>

Wait(t) == /\ pc[t] = "enter" /\ t \notin cv /\ flag[Top(t)] = "running"
           /\ cv' = cv \cup {t}
           /\ UNCHANGED <<flag, calls, pc, throws>>

(* The function is called with the mutex unlocked. *)
Claim(t) == /\ Goto(t, "enter", "user")
            /\ flag[Top(t)] = "unset" /\ t \notin cv
            /\ flag' = [flag EXCEPT ![Top(t)] = "running"]
            /\ UNCHANGED <<cv, calls, throws>>

(* Another thread has called it meanwhile. *)
Found(t) == /\ Goto(t, "enter", "user") /\ Return(t)
            /\ flag[Top(t)] = "done" /\ t \notin cv
            /\ UNCHANGED <<flag, cv, throws>>

(* The function returns ... *)
Complete(t) == /\ calls[t] # <<>> /\ Goto(t, "user", "broadcast")
               /\ flag' = [flag EXCEPT ![Top(t)] = "done"]
               /\ UNCHANGED <<cv, calls, throws>>

(* ... or throws an exception, that of a call inside it included. *)
Throw(t) == /\ calls[t] # <<>> /\ throws < MaxThrows
            /\ Goto(t, "user", "rethrow")
            /\ flag' = [flag EXCEPT ![Top(t)] = "unset"]
            /\ throws' = throws + 1
            /\ UNCHANGED <<cv, calls>>

(* Whoever waits is woken, after the mutex was unlocked. *)
Broadcast(t) == /\ Goto(t, "broadcast", "user") /\ Return(t)
                /\ cv' = {}
                /\ UNCHANGED <<flag, throws>>

Rethrow(t) == /\ Goto(t, "rethrow", "user") /\ Return(t)
              /\ cv' = {}
              /\ UNCHANGED <<flag, throws>>

SpuriousWakeup(t) == /\ t \in cv
                     /\ cv' = cv \ {t}
                     /\ UNCHANGED <<flag, calls, pc, throws>>

Progress(t) == \/ Wait(t) \/ Claim(t) \/ Found(t)
               \/ Complete(t) \/ Broadcast(t) \/ Rethrow(t)

Next == \E t \in Thread : \/ \E f \in Flag : Call(t, f)
                          \/ Progress(t) \/ Throw(t) \/ SpuriousWakeup(t)

Spec == Init /\ [][Next]_vars

(* A thread that can run does, and the functions come to an end.  No thread  *)
(* has to call anything, to throw or to wake for nothing.                    *)
FairSpec == Spec /\ \A t \in Thread : WF_vars(Progress(t))

-----------------------------------------------------------------------------
TypeOK == /\ flag \in [Flag -> {"unset", "running", "done"}]
          /\ cv \subseteq Thread
          /\ calls \in [Thread -> Seq(Flag)]
          /\ pc \in [Thread -> {"user", "enter", "broadcast", "rethrow"}]
          /\ \A t \in Thread : pc[t] # "user" => calls[t] # <<>>
          /\ throws \in 0..MaxThrows

(* The threads that are in the function of f. *)
Running(f) ==
  {t \in Thread : \E i \in DOMAIN calls[t] :
     calls[t][i] = f /\ (i < Len(calls[t]) \/ pc[t] = "user")}

(* The flag says whether the function is being called, and no two threads    *)
(* call it at once, nor one from within itself.                              *)
OnlyOneRuns ==
  \A f \in Flag : IF flag[f] = "running" THEN \E t \in Thread : Running(f) = {t}
                                         ELSE Running(f) = {}

(* A flag is for ever once its function has returned, and no call of         *)
(* call_once() returns before that, but by an exception.                     *)
OnceForAll ==
  [][/\ \A f \in Flag : flag[f] = "done" => flag'[f] = "done"
     /\ \A t \in Thread :
          Len(calls'[t]) < Len(calls[t]) /\ pc[t] # "rethrow" =>
            flag[Top(t)] = "done"]_vars

(* No wake-up is lost, though one condition variable serves all flags: a     *)
(* thread is blocked only while the function it waits for is being called,   *)
(* or until the broadcast that follows.                                      *)
BlockedForAReason ==
  \A t \in cv : \/ flag[Top(t)] = "running"
                \/ \E u \in Thread : pc[u] \in {"broadcast", "rethrow"}

(* Nor do the calls wait for each other: whenever a thread is blocked, one    *)
(* that is not blocked is inside a call, and can go on with it.              *)
SomebodyGoesOn == cv # {} => \E t \in Thread \ cv : calls[t] # <<>>

(* Both: nothing that blocks call_once() keeps it blocked. *)
NoDeadlock == BlockedForAReason /\ SomebodyGoesOn

(* Every call returns, as long as the functions do not throw for ever: "check *)
(* deadlock avoidance" of the test of call_once, for calls one in another.    *)
EveryCallReturns == \A t \in Thread : calls[t] # <<>> ~> calls[t] = <<>>
=============================================================================
