--------------------------- MODULE CallOnceProofs ----------------------------
(***************************************************************************)
(* Proofs about CallOnce for any sets of threads and flags, and functions   *)
(* that call call_once() to any depth.                                      *)
(***************************************************************************)
EXTENDS CallOnce, WellFoundedInduction, TLAPS

-----------------------------------------------------------------------------
(* The inductive invariant.  A flag says whether its function is being       *)
(* called; that a call that ends leaves nothing behind rests on a thread     *)
(* being in a function once, for its calls are of ever smaller flags.        *)

Descending == \A t \in Thread : \A i, j \in DOMAIN calls[t] :
                i < j => calls[t][j] < calls[t][i]

Waiters == \A t \in cv : pc[t] = "enter"

IInv == TypeOK /\ Descending /\ Waiters /\ OnlyOneRuns /\ BlockedForAReason

-----------------------------------------------------------------------------
(* Where a thread stands when it enters, or ends, a call. *)

(* The flags whose functions thread t is in. *)
Inside(t) == {calls[t][i] : i \in {i \in DOMAIN calls[t] :
                                     i < Len(calls[t]) \/ pc[t] = "user"}}

LEMMA RunningInside ==
  /\ \A f \in Flag : Running(f) = {t \in Thread : f \in Inside(t)}
  /\ \A f \in Flag : Running(f)' = {t \in Thread : f \in Inside(t)'}
BY DEF Running, Inside

(* Appending a smaller flag, or taking off the last, keeps a sequence        *)
(* descending.                                                               *)
LEMMA Stack ==
  ASSUME NEW S \in SUBSET Nat, NEW s \in Seq(S),
         \A i, j \in DOMAIN s : i < j => s[j] < s[i]
  PROVE  /\ \A f \in S :
              (s # <<>> => f < Last(s)) =>
                LET r == Append(s, f) IN
                /\ r \in Seq(S) /\ r # <<>> /\ Last(r) = f
                /\ Len(r) = Len(s) + 1 /\ \A i \in 1..Len(s) : r[i] = s[i]
                /\ \A i, j \in DOMAIN r : i < j => r[j] < r[i]
         /\ s # <<>> =>
              LET r == Front(s) IN
              /\ r \in Seq(S) /\ Last(s) \in S /\ Last(s) = s[Len(s)]
              /\ Len(r) = Len(s) - 1 /\ \A i \in 1..Len(r) : r[i] = s[i]
              /\ \A i, j \in DOMAIN r : i < j => r[j] < r[i]
<1>1. ASSUME NEW f \in S, s # <<>> => f < Last(s)
      PROVE  LET r == Append(s, f) IN
             /\ r \in Seq(S) /\ r # <<>> /\ Last(r) = f
             /\ Len(r) = Len(s) + 1 /\ \A i \in 1..Len(s) : r[i] = s[i]
             /\ \A i, j \in DOMAIN r : i < j => r[j] < r[i]
  <2> DEFINE r == Append(s, f)
  <2>1. /\ r \in Seq(S) /\ r # <<>>
        /\ Len(r) = Len(s) + 1 /\ \A i \in 1..Len(s) : r[i] = s[i]
        /\ r[Len(s) + 1] = f /\ Len(s) \in Nat
        /\ DOMAIN r = 1..Len(r) /\ DOMAIN s = 1..Len(s)
    OBVIOUS
  <2>0. /\ \A k \in 1..Len(s) : s[k] \in S
        /\ Len(s) # 0 => s # <<>>
    OBVIOUS
  <2> HIDE DEF r
  <2>2. ASSUME NEW i \in DOMAIN r, NEW j \in DOMAIN r, i < j PROVE r[j] < r[i]
    <3>1. CASE j \in 1..Len(s)
      BY <2>1, <2>2, <3>1
    <3>2. CASE j = Len(s) + 1
      <4>1. i \in 1..Len(s) /\ s # <<>> /\ r[j] = f
        BY <2>0, <2>1, <2>2, <3>2
      <4>2. s[i] = Last(s) \/ Last(s) < s[i]
        BY <2>1, <4>1 DEF Last
      <4>3. s[i] \in Nat /\ Last(s) \in Nat /\ f \in Nat
        <5>1. Len(s) \in 1..Len(s)
          BY <2>1, <4>1
        <5>2. s[i] \in S /\ s[Len(s)] \in S
          BY <2>0, <4>1, <5>1
        <5> QED
          BY <5>2 DEF Last
      <4> QED
        BY <1>1, <2>1, <4>1, <4>2, <4>3
    <3> QED
      BY <2>1, <2>2, <3>1, <3>2
  <2> QED
    BY <2>1, <2>2 DEF Last, r
<1>2. ASSUME s # <<>>
      PROVE  LET r == Front(s) IN
             /\ r \in Seq(S) /\ Last(s) \in S /\ Last(s) = s[Len(s)]
             /\ Len(r) = Len(s) - 1 /\ \A i \in 1..Len(r) : r[i] = s[i]
             /\ \A i, j \in DOMAIN r : i < j => r[j] < r[i]
  <2> DEFINE r == Front(s)
  <2>0. Len(s) \in Nat \ {0} /\ s[Len(s)] \in S /\ DOMAIN s = 1..Len(s)
    BY <1>2
  <2>1. r = [i \in 1..(Len(s) - 1) |-> s[i]]
    BY <2>0 DEF Front
  <2>2. r \in Seq(S)
    BY <2>0, <2>1
  <2>3. /\ r \in Seq(S) /\ Len(r) = Len(s) - 1
        /\ \A i \in 1..Len(r) : r[i] = s[i]
        /\ Len(s) \in Nat \ {0} /\ s[Len(s)] \in S
        /\ DOMAIN r = 1..Len(r) /\ DOMAIN s = 1..Len(s)
    BY <2>0, <2>1, <2>2
  <2> HIDE DEF r
  <2>4. \A i, j \in DOMAIN r : i < j => r[j] < r[i]
    BY <2>3
  <2> QED
    BY <2>3, <2>4 DEF r, Last
<1> QED
  BY <1>1, <1>2

(* The stacks of calls, one by one. *)
LEMMA Stacks ==
  ASSUME TypeOK, Descending, NEW t \in Thread
  PROVE  /\ calls[t] \in Seq(Flag)
         /\ \A i, j \in DOMAIN calls[t] : i < j => calls[t][j] < calls[t][i]
         /\ DOMAIN calls[t] = 1..Len(calls[t]) /\ Len(calls[t]) \in Nat
         /\ calls[t] # <<>> => Len(calls[t]) \in DOMAIN calls[t] /\ Top(t) \in Flag
BY DEF TypeOK, Descending, Top, Last

LEMMA CallInside ==
  ASSUME TypeOK, Descending, NEW t \in Thread, NEW f \in Flag,
         calls[t] # <<>> => f < Top(t), pc[t] = "user", pc'[t] = "enter",
         calls'[t] = Append(calls[t], f)
  PROVE  /\ Inside(t)' = Inside(t) /\ calls'[t] \in Seq(Flag)
         /\ calls'[t] # <<>> /\ Top(t)' = f
         /\ \A i, j \in DOMAIN calls'[t] : i < j => calls'[t][j] < calls'[t][i]
<1>1. LET r == calls'[t] IN
      /\ r \in Seq(Flag) /\ r # <<>> /\ Last(r) = f
      /\ Len(r) = Len(calls[t]) + 1
      /\ \A i \in 1..Len(calls[t]) : r[i] = calls[t][i]
      /\ \A i, j \in DOMAIN r : i < j => r[j] < r[i]
  BY Stacks, Stack, FlagAssumption DEF Top
<1>2. DOMAIN calls'[t] = 1..(Len(calls[t]) + 1)
  BY <1>1
<1>3. /\ {i \in DOMAIN calls[t] : i < Len(calls[t]) \/ pc[t] = "user"}
           = 1..Len(calls[t])
      /\ {i \in DOMAIN calls'[t] : i < Len(calls'[t]) \/ pc'[t] = "user"}
           = 1..Len(calls[t])
  BY <1>1, <1>2, Stacks
<1>4. \A i \in 1..Len(calls[t]) : calls'[t][i] = calls[t][i]
  BY <1>1
<1>5. Inside(t)' = Inside(t)
  BY <1>3, <1>4 DEF Inside
<1> QED
  BY <1>1, <1>5 DEF Top

LEMMA ReturnInside ==
  ASSUME TypeOK, Descending, NEW t \in Thread,
         pc[t] # "user", pc'[t] = "user", calls'[t] = Front(calls[t])
  PROVE  /\ Inside(t)' = Inside(t) /\ calls'[t] \in Seq(Flag)
         /\ \A i, j \in DOMAIN calls'[t] : i < j => calls'[t][j] < calls'[t][i]
<1>1. calls[t] # <<>>
  BY DEF TypeOK
<1>2. LET r == calls'[t] IN
      /\ r \in Seq(Flag)
      /\ Len(r) = Len(calls[t]) - 1 /\ \A i \in 1..Len(r) : r[i] = calls[t][i]
      /\ \A i, j \in DOMAIN r : i < j => r[j] < r[i]
  BY <1>1, Stacks, Stack, FlagAssumption
<1>3. DOMAIN calls'[t] = 1..(Len(calls[t]) - 1)
  BY <1>2
<1>4. /\ DOMAIN calls'[t] =
            {i \in DOMAIN calls[t] : i < Len(calls[t]) \/ pc[t] = "user"}
      /\ DOMAIN calls'[t] =
            {i \in DOMAIN calls'[t] : i < Len(calls'[t]) \/ pc'[t] = "user"}
  BY <1>1, <1>3, Stacks
<1>5. \A i \in DOMAIN calls'[t] : calls'[t][i] = calls[t][i]
  BY <1>2, <1>3, Stacks
<1>6. Inside(t)' = Inside(t)
  BY <1>4, <1>5 DEF Inside
<1> QED
  BY <1>2, <1>6

LEMMA ClaimInside ==
  ASSUME TypeOK, Descending, NEW t \in Thread,
         pc[t] = "enter", pc'[t] = "user", calls'[t] = calls[t]
  PROVE  Inside(t)' = Inside(t) \cup {Top(t)} /\ Top(t) \in Flag
<1>1. calls[t] # <<>>
  BY DEF TypeOK
<1> QED
  BY <1>1, Stacks DEF Inside, Top, Last

LEMMA LeaveInside ==
  ASSUME TypeOK, Descending, NEW t \in Thread, calls[t] # <<>>,
         pc[t] = "user", pc'[t] # "user", calls'[t] = calls[t]
  PROVE  /\ Inside(t)' = Inside(t) \ {Top(t)}
         /\ Top(t) \in Inside(t) /\ Top(t) \in Flag
<1>1. \A i \in DOMAIN calls[t] : i < Len(calls[t]) => calls[t][i] # Top(t)
  <2> SUFFICES ASSUME NEW i \in DOMAIN calls[t], i < Len(calls[t])
               PROVE  Top(t) < calls[t][i] /\ Top(t) \in Nat
    BY Stacks, FlagAssumption
  <2> QED
    BY Stacks, FlagAssumption DEF Top, Last
<1>2. Top(t) = calls[t][Len(calls[t])]
  BY DEF Top, Last
<1> QED
  BY <1>1, <1>2, Stacks DEF Inside

(* A step of thread t leaves the others where they are. *)
LEMMA OthersInside ==
  ASSUME NEW t \in Thread, NEW u \in Thread, calls'[u] = calls[u], pc'[u] = pc[u]
  PROVE  Inside(u)' = Inside(u) /\ Top(u)' = Top(u)
BY DEF Inside, Top

(* Nobody begins or ends a function. *)
LEMMA SameFunctions ==
  ASSUME OnlyOneRuns, flag' = flag, \A u \in Thread : Inside(u)' = Inside(u)
  PROVE  OnlyOneRuns'
<1>1. \A f \in Flag : Running(f)' = Running(f)
  BY RunningInside
<1> QED
  BY <1>1 DEF OnlyOneRuns

-----------------------------------------------------------------------------
(* The steps preserve the invariant. *)

LEMMA InitOK == Init => IInv
<1> SUFFICES ASSUME Init PROVE IInv
  OBVIOUS
<1>1. TypeOK
  BY ThrowsAssumption DEF Init, TypeOK
<1>2. Descending /\ Waiters /\ BlockedForAReason
  BY DEF Init, Descending, Waiters, BlockedForAReason
<1>3. OnlyOneRuns
  BY DEF Init, OnlyOneRuns, Running
<1> QED
  BY <1>1, <1>2, <1>3 DEF IInv

LEMMA CallOK ==
  ASSUME IInv, NEW t \in Thread, NEW f \in Flag, Call(t, f)
  PROVE  IInv'
<1> USE DEF IInv, Call
<1>1. calls'[t] = Append(calls[t], f) /\ pc'[t] = "enter"
  BY DEF TypeOK
<1>2. /\ Inside(t)' = Inside(t) /\ calls'[t] \in Seq(Flag)
      /\ calls'[t] # <<>> /\ Top(t)' = f
      /\ \A i, j \in DOMAIN calls'[t] : i < j => calls'[t][j] < calls'[t][i]
  BY <1>1, CallInside
<1>3. \A u \in Thread \ {t} : calls'[u] = calls[u] /\ pc'[u] = pc[u]
  BY DEF TypeOK
<1>4. TypeOK'
  BY <1>2, <1>3 DEF TypeOK
<1>5. Descending'
  BY <1>2, <1>3 DEF Descending
<1>6. Waiters'
  BY <1>1, <1>3 DEF Waiters, TypeOK
<1>7. OnlyOneRuns'
  BY <1>2, <1>3, OthersInside, SameFunctions
<1>8. BlockedForAReason'
  <2>1. t \notin cv
    BY DEF Waiters
  <2>2. \A u \in cv : Top(u)' = Top(u)
    BY <1>3, <2>1, OthersInside DEF TypeOK
  <2> QED
    BY <1>3, <2>2 DEF BlockedForAReason
<1> QED
  BY <1>4, <1>5, <1>6, <1>7, <1>8

LEMMA WaitOK ==
  ASSUME IInv, NEW t \in Thread, Wait(t) \/ SpuriousWakeup(t)
  PROVE  IInv'
<1> USE DEF IInv, Wait, SpuriousWakeup
<1>1. calls' = calls /\ pc' = pc /\ flag' = flag
  OBVIOUS
<1>2. TypeOK' /\ Descending' /\ Waiters'
  BY DEF TypeOK, Descending, Waiters
<1>3. OnlyOneRuns'
  BY <1>1, OthersInside, SameFunctions
<1>4. BlockedForAReason'
  BY <1>1 DEF BlockedForAReason, Top
<1> QED
  BY <1>2, <1>3, <1>4

LEMMA ClaimOK ==
  ASSUME IInv, NEW t \in Thread, Claim(t)
  PROVE  IInv'
<1> USE DEF IInv, Claim, Goto
<1>1. Inside(t)' = Inside(t) \cup {Top(t)} /\ Top(t) \in Flag
  BY ClaimInside DEF TypeOK
<1>2. \A u \in Thread \ {t} : calls'[u] = calls[u] /\ pc'[u] = pc[u]
  BY DEF TypeOK
<1>3. TypeOK' /\ Descending' /\ Waiters'
  BY <1>1 DEF TypeOK, Descending, Waiters
<1>4. OnlyOneRuns'
  <2> PICK f \in Flag : f = Top(t)
    BY <1>1
  <2>1. Running(f) = {}
    BY DEF OnlyOneRuns
  <2>2. Running(f)' = {t}
    <3>1. \A u \in Thread : f \in Inside(u)' <=> u = t
      BY <1>1, <1>2, <2>1, OthersInside, RunningInside
    <3> QED
      BY <3>1, RunningInside
  <2>3. ASSUME NEW g \in Flag, g # f
        PROVE  Running(g)' = Running(g) /\ flag'[g] = flag[g]
    <3>1. \A u \in Thread : g \in Inside(u)' <=> g \in Inside(u)
      BY <1>1, <1>2, <2>3, OthersInside
    <3> QED
      BY <2>3, <3>1, RunningInside DEF TypeOK
  <2>4. flag'[f] = "running"
    BY DEF TypeOK
  <2>5. ASSUME NEW g \in Flag
        PROVE  IF flag'[g] = "running" THEN \E u \in Thread : Running(g)' = {u}
                                       ELSE Running(g)' = {}
    BY <2>2, <2>3, <2>4 DEF OnlyOneRuns
  <2> QED
    BY <2>5 DEF OnlyOneRuns
<1>5. BlockedForAReason'
  <2>1. \A u \in cv : Top(u)' = Top(u)
    BY DEF Top
  <2>2. \A f \in Flag : flag[f] = "running" => flag'[f] = "running"
    BY <1>1 DEF TypeOK
  <2>3. \A u \in cv : Top(u) \in Flag
    BY Stacks DEF Waiters, TypeOK
  <2>4. \A u \in Thread : pc[u] \in {"broadcast", "rethrow"} => pc'[u] = pc[u]
    BY DEF TypeOK
  <2> QED
    BY <2>1, <2>2, <2>3, <2>4 DEF BlockedForAReason
<1> QED
  BY <1>3, <1>4, <1>5

LEMMA FoundOK ==
  ASSUME IInv, NEW t \in Thread, Found(t)
  PROVE  IInv'
<1> USE DEF IInv, Found, Goto, Return
<1>1. pc'[t] = "user" /\ calls'[t] = Front(calls[t])
  BY DEF TypeOK
<1>2. /\ Inside(t)' = Inside(t) /\ calls'[t] \in Seq(Flag)
      /\ \A i, j \in DOMAIN calls'[t] : i < j => calls'[t][j] < calls'[t][i]
  BY <1>1, ReturnInside
<1>3. \A u \in Thread \ {t} : calls'[u] = calls[u] /\ pc'[u] = pc[u]
  BY DEF TypeOK
<1>4. TypeOK'
  BY <1>1, <1>2, <1>3 DEF TypeOK
<1>5. Descending' /\ Waiters'
  BY <1>2, <1>3 DEF Descending, Waiters, TypeOK
<1>6. OnlyOneRuns'
  BY <1>2, <1>3, OthersInside, SameFunctions
<1>7. BlockedForAReason'
  <2>1. \A u \in cv : Top(u)' = Top(u)
    BY <1>3, OthersInside DEF TypeOK
  <2> QED
    BY <1>3, <2>1 DEF BlockedForAReason
<1> QED
  BY <1>4, <1>5, <1>6, <1>7

LEMMA LeaveOK ==
  ASSUME IInv, NEW t \in Thread, Complete(t) \/ Throw(t)
  PROVE  IInv' /\ flag[Top(t)] = "running" /\ Top(t) \in Flag
<1> USE DEF IInv, Complete, Throw, Goto
<1>1. /\ Inside(t)' = Inside(t) \ {Top(t)}
      /\ Top(t) \in Inside(t) /\ Top(t) \in Flag
  BY LeaveInside DEF TypeOK
<1>2. \A u \in Thread \ {t} : calls'[u] = calls[u] /\ pc'[u] = pc[u]
  BY DEF TypeOK
<1> PICK f \in Flag : f = Top(t)
  BY <1>1
<1>3. Running(f) = {t} /\ flag[f] = "running"
  <2>1. t \in Running(f)
    BY <1>1, RunningInside
  <2>2. flag[f] = "running"
    BY <2>1 DEF OnlyOneRuns
  <2>3. PICK u \in Thread : Running(f) = {u}
    BY <2>2 DEF OnlyOneRuns
  <2> QED
    BY <2>1, <2>2, <2>3
<1>4. TypeOK'
  <2>1. throws' \in 0..MaxThrows
    BY ThrowsAssumption DEF TypeOK
  <2>2. flag' \in [Flag -> {"unset", "running", "done"}]
    BY DEF TypeOK
  <2> QED
    BY <2>1, <2>2 DEF TypeOK
<1>5. Descending' /\ Waiters'
  BY DEF TypeOK, Descending, Waiters
<1>6. OnlyOneRuns'
  <2>1. Running(f)' = {}
    <3>1. \A u \in Thread : f \notin Inside(u)'
      BY <1>1, <1>2, <1>3, OthersInside, RunningInside
    <3> QED
      BY <3>1, RunningInside
  <2>2. ASSUME NEW g \in Flag, g # f
        PROVE  Running(g)' = Running(g) /\ flag'[g] = flag[g]
    <3>1. \A u \in Thread : g \in Inside(u)' <=> g \in Inside(u)
      BY <1>1, <1>2, <2>2, OthersInside
    <3>2. Running(g)' = Running(g)
      BY <3>1, RunningInside
    <3>3. flag'[g] = flag[g]
      BY <2>2 DEF TypeOK
    <3> QED
      BY <3>2, <3>3
  <2>3. flag'[f] # "running"
    BY DEF TypeOK
  <2>4. ASSUME NEW g \in Flag
        PROVE  IF flag'[g] = "running" THEN \E u \in Thread : Running(g)' = {u}
                                       ELSE Running(g)' = {}
    BY <2>1, <2>2, <2>3 DEF OnlyOneRuns
  <2> QED
    BY <2>4 DEF OnlyOneRuns
<1>7. BlockedForAReason'
  BY DEF BlockedForAReason, TypeOK
<1> QED
  BY <1>1, <1>3, <1>4, <1>5, <1>6, <1>7

LEMMA BroadcastOK ==
  ASSUME IInv, NEW t \in Thread, Broadcast(t) \/ Rethrow(t)
  PROVE  IInv'
<1> USE DEF IInv, Broadcast, Rethrow, Goto, Return
<1>1. pc[t] # "user" /\ pc'[t] = "user" /\ calls'[t] = Front(calls[t])
  BY DEF TypeOK
<1>2. /\ Inside(t)' = Inside(t) /\ calls'[t] \in Seq(Flag)
      /\ \A i, j \in DOMAIN calls'[t] : i < j => calls'[t][j] < calls'[t][i]
  BY <1>1, ReturnInside
<1>3. \A u \in Thread \ {t} : calls'[u] = calls[u] /\ pc'[u] = pc[u]
  BY DEF TypeOK
<1>4. TypeOK'
  BY <1>1, <1>2, <1>3 DEF TypeOK
<1>5. Descending' /\ Waiters' /\ BlockedForAReason'
  BY <1>2, <1>3 DEF Descending, Waiters, BlockedForAReason
<1>6. OnlyOneRuns'
  BY <1>2, <1>3, OthersInside, SameFunctions
<1> QED
  BY <1>4, <1>5, <1>6

LEMMA NextOK == IInv /\ [Next]_vars => IInv'
<1> SUFFICES ASSUME IInv, [Next]_vars PROVE IInv'
  OBVIOUS
<1>1. CASE UNCHANGED vars
  BY <1>1 DEF vars, IInv, TypeOK, Descending, Waiters, OnlyOneRuns, Running,
     BlockedForAReason, Top
<1>2. ASSUME NEW t \in Thread, NEW f \in Flag, Call(t, f) PROVE IInv'
  BY <1>2, CallOK
<1>3. ASSUME NEW t \in Thread, Progress(t) \/ Throw(t) \/ SpuriousWakeup(t)
      PROVE  IInv'
  BY <1>3, WaitOK, ClaimOK, FoundOK, LeaveOK, BroadcastOK DEF Progress
<1> QED
  BY <1>1, <1>2, <1>3 DEF Next

-----------------------------------------------------------------------------
(* What is proved of call_once(). *)

(* The inductive invariant holds of every behaviour. *)
THEOREM Invariance == Spec => []IInv
BY InitOK, NextOK, PTL DEF Spec

(* Type correctness, the stacks of nested calls included. *)
THEOREM TypeCorrect == Spec => []TypeOK
BY Invariance, PTL DEF IInv

(* __call_once calls the function of a flag once at a time, and the flag     *)
(* says when.                                                                *)
THEOREM OneAtATime == Spec => []OnlyOneRuns
BY Invariance, PTL DEF IInv

(* A set of numbers that is not empty has a smallest one. *)
LEMMA Smallest ==
  ASSUME NEW S \in SUBSET Nat, S # {}
  PROVE  \E m \in S : \A n \in S : ~(n < m)
<1>1. PICK m \in S : \A n \in S : ~(<<n, m>> \in OpToRel(<, Nat))
  BY NatLessThanWellFounded, WFMin
<1>2. \A n \in S : n < m => <<n, m>> \in OpToRel(<, Nat)
  BY DEF OpToRel
<1> QED
  BY <1>1, <1>2

(* The one condition variable of __call_once loses no wake-up of any flag,   *)
(* and the threads never wait in a circle.  Of the flags that the blocked    *)
(* threads wait for take the smallest: if nobody is about to broadcast, a    *)
(* thread is in its function.  Were that thread blocked too, it would be for *)
(* a call from within the function, of a smaller flag.                       *)
THEOREM NoLostWakeup == Spec => []NoDeadlock
<1>1. IInv => SomebodyGoesOn
  <2> SUFFICES ASSUME IInv, cv # {}, \A t \in Thread \ cv : calls[t] = <<>>
               PROVE  FALSE
    BY DEF SomebodyGoesOn
  <2> DEFINE W == {Top(t) : t \in cv}
  <2>1. \A t \in cv : t \in Thread /\ pc[t] = "enter" /\ Top(t) \in Flag
    BY Stacks DEF IInv, Waiters, TypeOK
  <2>2. PICK m \in W : \A n \in W : ~(n < m)
    <3>1. W \in SUBSET Nat /\ W # {}
      BY <2>1, FlagAssumption
    <3> QED
      BY <3>1, Smallest
  <2>3. PICK t \in cv : m = Top(t)
    BY <2>2
  <2>4. \A u \in Thread : pc[u] \notin {"broadcast", "rethrow"}
    BY <2>1 DEF IInv, TypeOK
  <2>5. flag[m] = "running" /\ m \in Flag
    BY <2>1, <2>3, <2>4 DEF IInv, BlockedForAReason
  <2>6. PICK u \in Thread : u \in Running(m)
    BY <2>5 DEF IInv, OnlyOneRuns
  <2>7. PICK i \in DOMAIN calls[u] :
          calls[u][i] = m /\ (i < Len(calls[u]) \/ pc[u] = "user")
    BY <2>6 DEF Running
  <2>8. calls[u] # <<>> /\ u \in cv
    BY <2>7, Stacks DEF IInv
  <2>9. Top(u) \in W /\ Top(u) < m
    BY <2>1, <2>7, <2>8, Stacks DEF IInv, Top, Last
  <2> QED
    BY <2>2, <2>9
<1>2. IInv => NoDeadlock
  BY <1>1 DEF IInv, NoDeadlock
<1> QED
  BY <1>2, Invariance, PTL

(* A flag is done while its broadcast is still to come. *)
Announced == \A t \in Thread : pc[t] = "broadcast" => flag[Top(t)] = "done"

(* The function of a flag returns once for ever, and call_once() returns     *)
(* only after it: that a thread which leaves by the broadcast leaves a flag  *)
(* that is done is the invariant Announced.                                  *)
THEOREM DoneForEver == Spec => OnceForAll
<1>1. ASSUME IInv, [Next]_vars, NEW f \in Flag, flag[f] = "done"
      PROVE  flag'[f] = "done"
  <2>1. ASSUME NEW t \in Thread, Complete(t) \/ Throw(t)
        PROVE  Top(t) # f /\ flag'[f] = flag[f]
    BY <1>1, <2>1, LeaveOK DEF Complete, Throw, IInv, TypeOK
  <2>2. ASSUME NEW t \in Thread, Claim(t) PROVE flag'[f] = flag[f]
    BY <1>1, <2>2 DEF Claim, IInv, TypeOK
  <2> QED
    BY <1>1, <2>1, <2>2 DEF Next, Progress, vars, Call, Wait, Found, Broadcast,
       Rethrow, SpuriousWakeup
<1>2. Init => Announced
  BY DEF Init, Announced
<1>3. ASSUME IInv, Announced, [Next]_vars PROVE Announced'
  <2> SUFFICES ASSUME NEW u \in Thread, pc'[u] = "broadcast"
               PROVE  flag'[Top(u)'] = "done"
    BY DEF Announced
  <2>1. CASE pc[u] = "broadcast"
    <3>1. calls'[u] = calls[u]
      BY <1>3, <2>1 DEF Next, Progress, vars, Call, Wait, Claim, Found, Complete,
         Throw, Broadcast, Rethrow, SpuriousWakeup, Goto, Return, IInv, TypeOK
    <3>2. Top(u) \in Flag /\ flag[Top(u)] = "done"
      BY <1>3, <2>1, Stacks DEF Announced, IInv, TypeOK
    <3> QED
      BY <1>1, <1>3, <3>1, <3>2 DEF Top
  <2>2. CASE pc[u] # "broadcast"
    <3>1. Complete(u)
      BY <1>3, <2>2 DEF Next, Progress, vars, Call, Wait, Claim, Found, Complete,
         Throw, Broadcast, Rethrow, SpuriousWakeup, Goto, IInv, TypeOK
    <3> QED
      BY <1>3, <3>1, LeaveOK DEF Complete, Top, IInv, TypeOK
  <2> QED
    BY <2>1, <2>2
<1>4. ASSUME IInv, Announced, [Next]_vars, NEW t \in Thread,
             Len(calls'[t]) < Len(calls[t]), pc[t] # "rethrow"
      PROVE  flag[Top(t)] = "done"
  <2>1. ASSUME NEW f \in Flag, Call(t, f) PROVE FALSE
    BY <1>4, <2>1, Stacks DEF Call, IInv, TypeOK
  <2>2. Found(t) \/ Broadcast(t)
    BY <1>4, <2>1, Stacks DEF Next, Progress, vars, Call, Wait, Claim, Found,
       Complete, Throw, Broadcast, Rethrow, SpuriousWakeup, Goto, Return,
       IInv, TypeOK
  <2> QED
    BY <1>4, <2>2 DEF Found, Broadcast, Goto, Announced
<1>5. IInv /\ Announced /\ [Next]_vars =>
        [/\ \A f \in Flag : flag[f] = "done" => flag'[f] = "done"
         /\ \A t \in Thread :
              Len(calls'[t]) < Len(calls[t]) /\ pc[t] # "rethrow" =>
                flag[Top(t)] = "done"]_vars
  BY <1>1, <1>4
<1>6. Spec => []Announced
  BY <1>2, <1>3, Invariance, PTL DEF Spec
<1> QED
  BY <1>5, <1>6, Invariance, PTL DEF Spec, OnceForAll

=============================================================================
