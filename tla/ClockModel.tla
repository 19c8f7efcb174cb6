----------------------------- MODULE ClockModel ------------------------------
(***************************************************************************)
(* The "very simple model of operations" that the clocks of ThreadSanitizer *)
(* are said to implement (compiler-rt/lib/tsan/rtl/tsan_clock.cc:22-42):    *)
(* plain vector clocks, one of each thread and one of each sync variable,   *)
(* with the operations of the runtime that use them.                        *)
(***************************************************************************)
EXTENDS Naturals

CONSTANTS Tid,   (* the slots of threads                                    *)
          Sync   (* what threads synchronize through                        *)

VARIABLES now,   (* how far the thread in each slot has come                *)
          vc,    (* the vector clock of each thread ...                     *)
          sc     (* ... and of each sync variable                           *)

vars == <<now, vc, sc>>

Never == [i \in Tid |-> 0]
Join(v, w) == [i \in Tid |-> IF v[i] < w[i] THEN w[i] ELSE v[i]]

Init == /\ now \in [Tid -> 0 .. 1]
        /\ vc = [t \in Tid |-> [Never EXCEPT ![t] = now[t]]]
        /\ sc = [s \in Sync |-> Never]

Event(t) == /\ now' = [now EXCEPT ![t] = @ + 1]
            /\ UNCHANGED <<vc, sc>>

(* A thread's own entry is brought up to date by every operation. *)
Own(t)     == [vc[t] EXCEPT ![t] = now[t]]
OwnNext(t) == [vc[t] EXCEPT ![t] = now[t] + 1]

Acquire(t, s) == /\ vc' = [vc EXCEPT ![t] = Join(Own(t), sc[s])]
                 /\ UNCHANGED <<now, sc>>

Release(t, s) == /\ vc' = [vc EXCEPT ![t] = OwnNext(t)]
                 /\ sc' = [sc EXCEPT ![s] = Join(@, OwnNext(t))]
                 /\ now' = [now EXCEPT ![t] = @ + 1]

ReleaseStore(t, s) == /\ vc' = [vc EXCEPT ![t] = OwnNext(t)]
                      /\ sc' = [sc EXCEPT ![s] = OwnNext(t)]
                      /\ now' = [now EXCEPT ![t] = @ + 1]

AcquireRelease(t, s) == /\ vc' = [vc EXCEPT ![t] = Join(OwnNext(t), sc[s])]
                        /\ sc' = [sc EXCEPT ![s] = vc'[t]]
                        /\ now' = [now EXCEPT ![t] = @ + 1]

Reset(s) == /\ sc' = [sc EXCEPT ![s] = Never]
            /\ UNCHANGED <<now, vc>>

AcquireReset(t, s) == /\ vc' = [vc EXCEPT ![t] = Join(Own(t), sc[s])]
                      /\ sc' = [sc EXCEPT ![s] = Never]
                      /\ UNCHANGED now

(* A new thread in slot t, which knows what was released to s. *)
Begin(t, s) ==
  /\ now' = [now EXCEPT ![t] = @ + 1]
  /\ vc' = [vc EXCEPT ![t] = Join([Never EXCEPT ![t] = now[t] + 1], sc[s])]
  /\ sc' = [sc EXCEPT ![s] = Never]

(* t learns where the thread in slot i is. *)
Learn(t, i) == /\ vc' = [vc EXCEPT ![t][i] = now[i]]
               /\ UNCHANGED <<now, sc>>

Next == \/ \E t \in Tid, s \in Sync :
             \/ Acquire(t, s) \/ Release(t, s) \/ ReleaseStore(t, s)
             \/ AcquireRelease(t, s) \/ AcquireReset(t, s) \/ Begin(t, s)
        \/ \E s \in Sync : Reset(s)
        \/ \E t, i \in Tid : Event(t) \/ Learn(t, i)

Spec == Init /\ [][Next]_vars

(* The promise to the race detector: no clock has a time that its thread has  *)
(* not reached, and ...                                                      *)
Reached == \A i \in Tid : /\ \A t \in Tid : vc[t][i] <= now[i]
                           /\ \A s \in Sync : sc[s][i] <= now[i]

(* ... a thread does not forget what it knows, unless the slot changes hands, *)
(* nor does time go back.                                                    *)
NothingForgotten ==
  \A t \in Tid : /\ now[t] <= now'[t]
                  /\ \/ \E s \in Sync : Begin(t, s)
                     \/ \A i \in Tid : vc[t][i] <= vc'[t][i]
=============================================================================
