--------------------------- MODULE SyncClockProofs ---------------------------
(***************************************************************************)
(* Proofs about SyncClock for any number of slots, any sync variables and   *)
(* any kDirtyTids: what the shortcuts of the clocks rest on is invariant,   *)
(* and every operation does what it does in ClockModel.                     *)
(***************************************************************************)
EXTENDS SyncClock, TLAPS

-----------------------------------------------------------------------------
(* What holds of a clock alone: it is zero beyond its size. *)

WellFormed(c) == /\ c \in ThreadClocks /\ 0 < c.reused /\ c.tid < c.n
                 /\ \A i \in Tid : c.n <= i => c.clk[i] = 0

Compact(s) == /\ s \in SyncClocks
              /\ \A i \in Tid : s.size <= i => s.epoch[i] = 0 /\ s.reused[i] = 0

(* What holds of the clock c of a running thread and a clock s, or the times *)
(* v of any clock.                                                           *)

Flagged(c, s) == s.reused[c.tid] = c.reused =>
                   \A i \in Tid : /\ i \in s.dirty \/ s.epoch[i] <= c.clk[i]
                                  /\ s.epoch[i] = 0 \/ i < c.n

Covers(v, c) == v[c.tid] > c.last =>
                  \A i \in Tid \ {c.tid} : c.clk[i] <= v[i]

Owned(c, s) == StoredBy(c, s) => \A i \in Tid \ {c.tid} : s.epoch[i] <= c.clk[i]

Related(c, s) == Flagged(c, s) /\ Covers(s.epoch, c) /\ Owned(c, s)

(* How many threads have run in a slot: their marks are not the next one's. *)
Users(t) == IF status[t] \in {"unused", "created"} THEN reuse_count[t]
                                                   ELSE reuse_count[t] + 1

Marks == \A t \in Tid :
  /\ status[t] = "running" => clock[t].reused = reuse_count[t] + 1
  /\ \A s \in Sync : /\ sync[s].reused[t] <= Users(t)
                     /\ sync[s].storeTid = t => sync[s].storeReused <= Users(t)

Relations == \A t \in Tid : status[t] = "running" =>
  /\ \A s \in Sync : Related(clock[t], sync[s])
  /\ \A u \in Tid \ {t} : Covers(clock[u].clk, clock[t])

Forms == /\ \A t \in Tid : WellFormed(clock[t])
         /\ \A s \in Sync : Compact(sync[s])

IInv == /\ TypeOK /\ walker = NoTid
        /\ Forms /\ NoClockAhead /\ Marks /\ Relations

-----------------------------------------------------------------------------
(* What an operation makes of the thread's clock m and the sync clock s.     *)

Join(v, w) == Model!Join(v, w)

Follows(m, s, c, r) ==
  /\ WellFormed(c) /\ c.tid = m.tid /\ c.reused = m.reused /\ m.n <= c.n
  /\ c.clk \in {m.clk, Join(m.clk, s.epoch)}
  /\ c.last = m.clk[m.tid] \/ (c.last = m.last /\ c.clk = m.clk)
  /\ Compact(r) /\ r.epoch \in {s.epoch, c.clk, Join(s.epoch, c.clk), Zero}
  /\ \A i \in Tid : \/ r.reused[i] \in {0, s.reused[i]}
                    \/ i = m.tid /\ r.reused[i] = m.reused
  /\ \/ r.storeTid = NoTid
     \/ r.storeTid = s.storeTid /\ r.storeReused = s.storeReused
     \/ r.storeTid = m.tid /\ r.storeReused = m.reused
  /\ Related(c, r)
  /\ \A d \in ThreadClocks :
       d.tid # m.tid /\ WellFormed(d) /\ Related(d, s) /\ Covers(c.clk, d) =>
         Related(d, r)

(* The fields of a thread's clock and of a sync clock. *)
LEMMA Fields ==
  /\ \A c \in ThreadClocks :
       /\ c.tid \in Tid /\ c.reused \in Nat /\ c.last \in Nat /\ c.n \in Nat
       /\ c.clk \in [Tid -> Nat]
  /\ \A s \in SyncClocks :
       /\ s.size \in Nat /\ s.epoch \in [Tid -> Nat] /\ s.reused \in [Tid -> Nat]
       /\ s.dirty \in SUBSET Tid /\ s.storeTid \in Tid \cup {NoTid}
       /\ s.storeReused \in Nat
  /\ Tid \subseteq Nat
BY DEF ThreadClocks, SyncClocks, Tid

(* Vectors of times that agree on every thread are equal. *)
LEMMA SameTimes ==
  ASSUME NEW v \in [Tid -> Nat], NEW w \in [Tid -> Nat], \A i \in Tid : v[i] = w[i]
  PROVE  v = w
OBVIOUS

(* Of two vectors of times, the larger time of each thread. *)
LEMMA JoinIs ==
  ASSUME NEW v \in [Tid -> Nat], NEW w \in [Tid -> Nat]
  PROVE  /\ Join(v, w) \in [Tid -> Nat]
         /\ \A i \in Tid : Join(v, w)[i] = Larger(v[i], w[i])
         /\ \A i \in Tid : v[i] <= Join(v, w)[i] /\ w[i] <= Join(v, w)[i]
         /\ \A i \in Tid : Join(v, w)[i] \in {v[i], w[i]}
BY DEF Join, Model!Join, Larger

(* The condition under which thread clock m uses sync clock s. *)
Usable(m, s) == /\ WellFormed(m) /\ Compact(s) /\ Related(m, s)
                /\ s.epoch[m.tid] <= m.clk[m.tid]

(* acquire() takes in the whole of s, whether it looks at all of it or not.  *)
LEMMA AcquiredOK ==
  ASSUME NEW m, NEW s, Usable(m, s)
  PROVE  /\ Acquired(m, s).clk = Join(m.clk, s.epoch)
         /\ Follows(m, s, Acquired(m, s), MarkAcquired(m, s))
         /\ MarkAcquired(m, s).epoch = s.epoch
<1> DEFINE a == Acquired(m, s)
           r == MarkAcquired(m, s)
           J == Join(m.clk, s.epoch)
<1> USE DEF Usable
<1>t. /\ m \in ThreadClocks /\ s \in SyncClocks
      /\ m.clk \in [Tid -> Nat] /\ s.epoch \in [Tid -> Nat] /\ s.reused \in [Tid -> Nat]
  BY Fields DEF WellFormed, Compact
<1>n. /\ m.tid \in Tid /\ m.reused \in Nat /\ m.last \in Nat /\ m.n \in Nat
      /\ s.size \in Nat /\ s.dirty \subseteq Tid
      /\ \A i \in Tid : /\ i \in Nat /\ m.clk[i] \in Nat
                         /\ s.epoch[i] \in Nat /\ s.reused[i] \in Nat
  BY <1>t, Fields
<1>j. /\ J \in [Tid -> Nat]
      /\ \A i \in Tid : J[i] = Larger(m.clk[i], s.epoch[i])
  BY <1>t, JoinIs
<1>i. \A i \in Tid : J[i] \in Nat /\ s.epoch[i] <= J[i] /\ m.clk[i] <= J[i]
  BY <1>n, <1>j DEF Larger
<1>r. /\ r \in SyncClocks /\ r.epoch = s.epoch /\ r.size = s.size /\ r.dirty = s.dirty
      /\ r.storeTid = s.storeTid /\ r.storeReused = s.storeReused
      /\ \A i \in Tid \ {m.tid} : r.reused[i] = s.reused[i]
      /\ r.reused[m.tid] \in {m.reused, s.reused[m.tid]}
      /\ s.size > m.tid => r.reused[m.tid] = m.reused
      /\ s.size <= m.tid => r = s
  <2>1. CASE s.size > m.tid
    <3>1. r = [s EXCEPT !.reused = [s.reused EXCEPT ![m.tid] = m.reused]]
      BY <1>t, <2>1 DEF MarkAcquired, SyncClocks
    <3> DEFINE f == [s.reused EXCEPT ![m.tid] = m.reused]
    <3>2. /\ f \in [Tid -> Nat] /\ f[m.tid] = m.reused
          /\ \A i \in Tid \ {m.tid} : f[i] = s.reused[i]
      BY <1>t, <1>n
    <3>3. r = [s EXCEPT !.reused = f]
      BY <3>1
    <3> HIDE DEF r, f
    <3>4. /\ r \in SyncClocks /\ r.epoch = s.epoch /\ r.size = s.size
          /\ r.dirty = s.dirty /\ r.reused = f
          /\ r.storeTid = s.storeTid /\ r.storeReused = s.storeReused
      BY <1>t, <3>2, <3>3 DEF SyncClocks
    <3> QED
      BY <1>n, <2>1, <3>2, <3>4
  <2>2. CASE ~ (s.size > m.tid)
    BY <1>t, <2>2 DEF MarkAcquired
  <2> QED
    BY <2>1, <2>2
<1>1. a.clk = J
  <2> DEFINE Seen == {i \in Tid : i < s.size /\ (Repeated(m, s) => i \in s.dirty)}
             clk == [i \in Tid |-> IF i \in Seen THEN Larger(m.clk[i], s.epoch[i])
                                                 ELSE m.clk[i]]
  <2>1. ASSUME NEW i \in Tid, i \notin Seen PROVE s.epoch[i] <= m.clk[i]
    <3>1. m.clk[i] \in Nat /\ s.epoch[i] \in Nat /\ s.size \in Nat /\ i \in Nat
      BY <1>n
    <3>2. CASE s.size <= i
      BY <3>1, <3>2 DEF Compact
    <3>3. CASE Repeated(m, s) /\ i \notin s.dirty
      BY <3>1, <3>3 DEF Repeated, Related, Flagged
    <3> QED
      BY <2>1, <3>1, <3>2, <3>3
  <2>2. clk = J
    <3>1. ASSUME NEW i \in Tid PROVE clk[i] = J[i]
      BY <1>t, <1>j, <2>1 DEF Larger, ThreadClocks, SyncClocks
    <3> QED
      BY <3>1, <1>j
  <2>3. a.clk = clk
    BY <1>t DEF Acquired, ThreadClocks
  <2> QED
    BY <2>2, <2>3
<1>2. /\ a.tid = m.tid /\ a.reused = m.reused
      /\ a.n = IF Repeated(m, s) THEN m.n ELSE Larger(m.n, s.size)
      /\ a.last = IF a.clk = m.clk THEN m.last ELSE a.clk[m.tid]
  BY <1>t DEF Acquired, ThreadClocks
<1>3. a \in ThreadClocks
  BY <1>t, <1>1, <1>2, <1>j DEF Acquired, ThreadClocks, SyncClocks, Larger, Tid
<1> HIDE DEF a, r, J
<1>4. a.clk[m.tid] = m.clk[m.tid]
  <2>1. J[m.tid] = Larger(m.clk[m.tid], s.epoch[m.tid])
    BY <1>j, <1>n
  <2> QED
    BY <2>1, <1>1, <1>n DEF Larger
<1>5. ASSUME NEW i \in Tid, s.epoch[i] # 0 PROVE i < a.n
  <2>1. i < s.size
    BY <1>5, <1>n DEF Compact
  <2>2. CASE Repeated(m, s)
    BY <2>2, <1>2, <1>5 DEF Repeated, Related, Flagged
  <2>3. CASE ~ Repeated(m, s)
    BY <2>1, <2>3, <1>2, <1>n DEF Larger
  <2> QED
    BY <2>2, <2>3
<1>10. /\ m.n <= a.n /\ a.n \in Nat
       /\ a.last = m.clk[m.tid] \/ (a.last = m.last /\ a.clk = m.clk)
  <2>1. m.n <= a.n /\ a.n \in Nat
    BY <1>n, <1>2 DEF Larger
  <2>2. a.last = m.clk[m.tid] \/ (a.last = m.last /\ a.clk = m.clk)
    BY <1>2, <1>4
  <2> QED
    BY <2>1, <2>2
<1>6. WellFormed(a)
  <2>1. ASSUME NEW i \in Tid, a.n <= i PROVE a.clk[i] = 0
    <3>1. s.epoch[i] = 0
      BY <1>5, <1>10, <1>n, <2>1
    <3>2. m.clk[i] = 0
      BY <1>10, <1>n, <2>1 DEF WellFormed
    <3> QED
      BY <3>1, <3>2, <1>1, <1>j DEF Larger
  <2>2. 0 < m.reused /\ m.tid < m.n
    BY DEF WellFormed
  <2> QED
    BY <2>1, <2>2, <1>2, <1>3, <1>10, <1>n DEF WellFormed
<1>7. Compact(r)
  BY <1>t, <1>r DEF Compact
<1>8. Related(a, r)
  <2>1. \A i \in Tid : s.epoch[i] <= a.clk[i] /\ m.clk[i] <= a.clk[i]
    BY <1>1, <1>i
  <2>2. Flagged(a, r)
    BY <2>1, <1>2, <1>5, <1>r DEF Flagged
  <2>3. Covers(r.epoch, a)
    <3>1. CASE a.clk = m.clk
      BY <3>1, <1>2, <1>r DEF Covers, Related
    <3>2. CASE a.last = m.clk[m.tid]
      <4>1. ~ (s.epoch[m.tid] > a.last)
        BY <3>2, <1>n
      <4> QED
        BY <4>1, <1>2, <1>r DEF Covers
    <3> QED
      BY <3>1, <3>2, <1>2, <1>4
  <2>4. Owned(a, r)
    BY <2>1, <1>2, <1>r DEF Owned
  <2> QED
    BY <2>2, <2>3, <2>4 DEF Related
<1>9. ASSUME NEW d \in ThreadClocks, d.tid # m.tid, Related(d, s)
      PROVE  Related(d, r)
  <2>1. d.tid \in Tid /\ r.reused[d.tid] = s.reused[d.tid]
    BY <1>9, <1>r, Fields
  <2> QED
    BY <2>1, <1>9, <1>r DEF Related, Flagged, Covers, Owned, StoredBy
<1>11. \A i \in Tid : \/ r.reused[i] \in {0, s.reused[i]}
                      \/ i = m.tid /\ r.reused[i] = m.reused
  BY <1>r
<1>12. Follows(m, s, a, r)
  <2>1. a.clk \in {m.clk, Join(m.clk, s.epoch)}
    BY <1>1 DEF J
  <2>2. \A d \in ThreadClocks :
          d.tid # m.tid /\ WellFormed(d) /\ Related(d, s) /\ Covers(a.clk, d) =>
            Related(d, r)
    BY <1>9
  <2>3. /\ a.tid = m.tid /\ a.reused = m.reused /\ r.epoch = s.epoch
        /\ r.storeTid = s.storeTid /\ r.storeReused = s.storeReused
    BY <1>2, <1>r
  <2> QED
    BY <2>1, <2>2, <2>3, <1>6, <1>7, <1>8, <1>10, <1>11 DEF Follows
<1> QED
  BY <1>1, <1>12, <1>r DEF a, r, J
(* Follows is about what r and s hold, not how large they are. *)
LEMMA ResizedOK ==
  ASSUME NEW m, NEW s, NEW k \in Nat, Usable(m, s)
  PROVE  /\ Usable(m, Resized(s, k))
         /\ k <= Resized(s, k).size
         /\ Resized(s, k).epoch = s.epoch
         /\ StoredBy(m, Resized(s, k)) = StoredBy(m, s)
         /\ \A c, r : Follows(m, Resized(s, k), c, r) => Follows(m, s, c, r)
<1> DEFINE z == Resized(s, k)
<1>1. s \in SyncClocks /\ s.size \in Nat
  BY Fields DEF Usable, Compact
<1>2. /\ z \in SyncClocks /\ z.size = Larger(s.size, k)
      /\ z.epoch = s.epoch /\ z.reused = s.reused /\ z.dirty = s.dirty
      /\ z.storeTid = s.storeTid /\ z.storeReused = s.storeReused
  BY <1>1 DEF Resized, SyncClocks, Larger
<1> HIDE DEF z
<1>3. s.size <= z.size /\ k <= z.size
  BY <1>1, <1>2 DEF Larger
<1>4. \A d : Related(d, z) <=> Related(d, s)
  BY <1>2 DEF Related, Flagged, Covers, Owned, StoredBy
<1>5. Compact(z)
  <2>1. \A i \in Tid : z.size <= i => s.size <= i
    BY <1>1, <1>2, <1>3, Fields
  <2> QED
    BY <1>2, <2>1 DEF Compact, Usable
<1>6. Usable(m, z)
  BY <1>2, <1>4, <1>5 DEF Usable
<1>7. ASSUME NEW c, NEW r, Follows(m, z, c, r) PROVE Follows(m, s, c, r)
  BY <1>2, <1>4, <1>7 DEF Follows
<1> QED
  BY <1>2, <1>3, <1>6, <1>7 DEF z, StoredBy

(* When every other entry of s is up to date, the thread's own is enough.    *)
LEMMA OwnEntryOK ==
  ASSUME NEW m, NEW s, Usable(m, s), m.n <= s.size, s.epoch[m.tid] > m.last,
         NEW r, \/ r = UpdateCurrentThread(m, s) /\ StoredBy(m, s)
                \/ r = [UpdateCurrentThread(m, s) EXCEPT !.storeTid = NoTid]
  PROVE  /\ Follows(m, s, m, r) /\ r.epoch = Join(s.epoch, m.clk)
         /\ StoredBy(m, s) => r.epoch = m.clk
<1>t. /\ m \in ThreadClocks /\ s \in SyncClocks
      /\ m.clk \in [Tid -> Nat] /\ s.epoch \in [Tid -> Nat] /\ s.reused \in [Tid -> Nat]
  BY Fields DEF WellFormed, Compact, Usable
<1>n. /\ m.tid \in Tid /\ m.reused \in Nat /\ m.last \in Nat /\ m.n \in Nat
      /\ s.size \in Nat /\ s.dirty \subseteq Tid
      /\ \A i \in Tid : /\ i \in Nat /\ m.clk[i] \in Nat
                         /\ s.epoch[i] \in Nat /\ s.reused[i] \in Nat
  BY <1>t, Fields
<1>w. 0 < m.reused /\ m.tid < m.n /\ s.epoch[m.tid] <= m.clk[m.tid]
  BY DEF Usable, WellFormed
<1> DEFINE e == [s.epoch EXCEPT ![m.tid] = m.clk[m.tid]]
<1>1. e \in [Tid -> Nat] /\ e[m.tid] = m.clk[m.tid] /\ \A i \in Tid \ {m.tid} : e[i] = s.epoch[i]
  BY <1>t, <1>n
<1>2. /\ r \in SyncClocks /\ r.size = s.size /\ r.epoch = e
      /\ \/ r.reused = s.reused /\ r.dirty = s.dirty \cup {m.tid}
         \/ r.reused = Zero /\ r.dirty = {}
      /\ \/ r.storeTid = s.storeTid /\ r.storeReused = s.storeReused /\ StoredBy(m, s)
         \/ r.storeTid = NoTid
  <2> DEFINE u == [s EXCEPT !.epoch = e]
             v == UpdateCurrentThread(m, s)
  <2>1. /\ u \in SyncClocks /\ u.size = s.size /\ u.epoch = e /\ u.reused = s.reused
        /\ u.dirty = s.dirty /\ u.storeTid = s.storeTid /\ u.storeReused = s.storeReused
    BY <1>t, <1>1 DEF SyncClocks
  <2>2. v = IF m.tid \in s.dirty THEN u
            ELSE IF Cardinality(s.dirty) < kDirtyTids
            THEN [u EXCEPT !.dirty = @ \cup {m.tid}]
            ELSE [u EXCEPT !.reused = Zero, !.dirty = {}]
    BY DEF UpdateCurrentThread
  <2> HIDE DEF u, v, e
  <2>3. Zero \in [Tid -> Nat]
    BY DEF Zero
  <2>4. /\ v \in SyncClocks /\ v.size = s.size /\ v.epoch = e
        /\ \/ v.reused = s.reused /\ v.dirty = s.dirty \cup {m.tid}
           \/ v.reused = Zero /\ v.dirty = {}
        /\ v.storeTid = s.storeTid /\ v.storeReused = s.storeReused
    <3>1. CASE m.tid \in s.dirty
      BY <2>1, <2>2, <3>1
    <3>2. CASE m.tid \notin s.dirty /\ Cardinality(s.dirty) < kDirtyTids
      <4>1. v = [u EXCEPT !.dirty = s.dirty \cup {m.tid}]
        BY <2>1, <2>2, <3>2
      <4> QED
        BY <1>n, <2>1, <4>1 DEF SyncClocks
    <3>3. CASE m.tid \notin s.dirty /\ ~ (Cardinality(s.dirty) < kDirtyTids)
      <4>1. v = [u EXCEPT !.reused = Zero, !.dirty = {}]
        BY <2>2, <3>3
      <4> QED
        BY <2>1, <2>3, <4>1 DEF SyncClocks
    <3> QED
      BY <3>1, <3>2, <3>3
  <2>5. CASE r = v /\ StoredBy(m, s)
    BY <2>4, <2>5
  <2>6. CASE r = [v EXCEPT !.storeTid = NoTid]
    BY <2>4, <2>6 DEF SyncClocks
  <2> QED
    BY <2>5, <2>6 DEF v
<1> HIDE DEF e
<1>z. \A i \in Tid : Zero[i] = 0
  BY DEF Zero
<1>3. \A i \in Tid \ {m.tid} : m.clk[i] <= s.epoch[i]
  BY DEF Usable, Related, Covers
<1>4. r.epoch = Join(s.epoch, m.clk)
  <2>1. ASSUME NEW i \in Tid PROVE e[i] = Join(s.epoch, m.clk)[i]
    <3>1. Join(s.epoch, m.clk)[i] = Larger(s.epoch[i], m.clk[i])
      BY <1>t, JoinIs
    <3>2. CASE i = m.tid
      BY <3>1, <3>2, <1>1, <1>n, <1>w DEF Larger
    <3>3. CASE i # m.tid
      BY <3>1, <3>3, <1>1, <1>3, <1>n DEF Larger
    <3> QED
      BY <3>2, <3>3
  <2> QED
    BY <2>1, <1>1, <1>2, <1>t, JoinIs
<1>5. StoredBy(m, s) => r.epoch = m.clk
  <2>1. SUFFICES ASSUME StoredBy(m, s) PROVE \A i \in Tid : e[i] = m.clk[i]
    BY <1>1, <1>2, <1>t
  <2>2. \A i \in Tid \ {m.tid} : s.epoch[i] <= m.clk[i]
    BY <2>1 DEF Usable, Related, Owned
  <2> QED
    BY <2>2, <1>1, <1>3, <1>n
<1>6. Compact(r)
  <2>1. \A i \in Tid : r.size <= i => i # m.tid /\ s.epoch[i] = 0 /\ s.reused[i] = 0
    BY <1>n, <1>w, <1>2 DEF Usable, Compact
  <2> QED
    BY <2>1, <1>1, <1>2, <1>z DEF Compact
<1>7. ASSUME NEW d, d \in ThreadClocks, WellFormed(d), Related(d, s),
             d.tid = m.tid => d = m, d.tid # m.tid => Covers(m.clk, d)
      PROVE  Related(d, r)
  <2>1. d.tid \in Tid /\ d.last \in Nat /\ d.n \in Nat /\ d.reused \in Nat /\ 0 < d.reused
        /\ \A i \in Tid : d.clk[i] \in Nat
    BY <1>7, Fields DEF WellFormed
  <2>2. Flagged(d, r)
    <3>1. SUFFICES ASSUME r.reused[d.tid] = d.reused, NEW i \in Tid
                   PROVE  /\ i \in r.dirty \/ r.epoch[i] <= d.clk[i]
                          /\ r.epoch[i] = 0 \/ i < d.n
      BY DEF Flagged
    <3>2. r.reused = s.reused /\ r.dirty = s.dirty \cup {m.tid}
      BY <2>1, <3>1, <1>2, <1>z
    <3>3. (i \in s.dirty \/ s.epoch[i] <= d.clk[i]) /\ (s.epoch[i] = 0 \/ i < d.n)
      BY <3>1, <3>2, <1>7 DEF Related, Flagged
    <3>4. s.epoch[m.tid] # 0
      BY <1>n
    <3> QED
      BY <3>2, <3>3, <3>4, <1>1, <1>2
  <2>3. Covers(r.epoch, d)
    <3>1. CASE d.tid = m.tid
      BY <3>1, <1>1, <1>2, <1>3, <1>7 DEF Covers
    <3>2. CASE d.tid # m.tid
      <4>1. SUFFICES ASSUME s.epoch[d.tid] > d.last, NEW i \in Tid \ {d.tid}
                     PROVE  d.clk[i] <= e[i]
        BY <2>1, <3>2, <1>1, <1>2 DEF Covers
      <4>2. d.clk[i] <= s.epoch[i]
        BY <4>1, <1>7 DEF Related, Covers
      <4> QED
        BY <4>2, <1>1, <1>n, <1>w, <2>1
    <3> QED
      BY <3>1, <3>2
  <2>4. Owned(d, r)
    <3>1. SUFFICES ASSUME StoredBy(d, r), NEW i \in Tid \ {d.tid}
                   PROVE  r.epoch[i] <= d.clk[i]
      BY DEF Owned
    <3>2. r.storeTid = s.storeTid /\ r.storeReused = s.storeReused /\ StoredBy(m, s)
      BY <2>1, <3>1, <1>2, SlotAssumption DEF StoredBy
    <3>3. d = m
      BY <3>1, <3>2, <1>7 DEF StoredBy
    <3> QED
      BY <3>2, <3>3, <1>5, <1>n
  <2> QED
    BY <2>2, <2>3, <2>4 DEF Related
<1>8. \A i \in Tid : r.reused[i] \in {0, s.reused[i]}
  BY <1>2, <1>z
<1>9. Related(m, r)
  BY <1>7, <1>t DEF Usable
<1> QED
  <2>1. \A d \in ThreadClocks :
          d.tid # m.tid /\ WellFormed(d) /\ Related(d, s) /\ Covers(m.clk, d) =>
            Related(d, r)
    BY <1>7
  <2>2. \/ r.storeTid = NoTid
        \/ r.storeTid = s.storeTid /\ r.storeReused = s.storeReused
    BY <1>2
  <2>3. m.n <= m.n /\ WellFormed(m)
    BY <1>n DEF Usable
  <2>4. r.epoch \in {s.epoch, m.clk, Join(s.epoch, m.clk), Zero}
    BY <1>4
  <2> QED
    BY <1>4, <1>5, <1>6, <1>8, <1>9, <2>1, <2>2, <2>3, <2>4 DEF Follows
(* When all entries are written, the flags and the store are the thread's    *)
(* own or nobody's.                                                          *)
LEMMA AllEntriesOK ==
  ASSUME NEW m, NEW s, Usable(m, s),
         NEW r \in SyncClocks, r.dirty = {}, m.n <= r.size, s.size <= r.size,
         r.epoch \in {m.clk, Join(s.epoch, m.clk)},
         \A i \in Tid \ {m.tid} : r.reused[i] = 0,
         \/ r.reused[m.tid] = 0
         \/ r.reused[m.tid] = m.reused /\ r.epoch = m.clk,
         \/ r.storeTid = NoTid
         \/ r.storeTid = m.tid /\ r.storeReused = m.reused /\ r.epoch = m.clk
  PROVE  Follows(m, s, m, r)
<1>t. /\ m \in ThreadClocks /\ s \in SyncClocks
      /\ m.clk \in [Tid -> Nat] /\ s.epoch \in [Tid -> Nat] /\ s.reused \in [Tid -> Nat]
  BY Fields DEF WellFormed, Compact, Usable
<1>n. /\ m.tid \in Tid /\ m.reused \in Nat /\ m.last \in Nat /\ m.n \in Nat
      /\ s.size \in Nat /\ r.size \in Nat
      /\ \A i \in Tid : /\ i \in Nat /\ m.clk[i] \in Nat
                         /\ s.epoch[i] \in Nat /\ s.reused[i] \in Nat
  BY <1>t, Fields
<1>w. 0 < m.reused /\ m.tid < m.n
  BY DEF Usable, WellFormed
<1>1. \A i \in Tid : /\ m.clk[i] <= r.epoch[i]
                     /\ r.epoch[i] \in {m.clk[i], s.epoch[i]}
  <2>1. CASE r.epoch = m.clk
    BY <2>1, <1>n
  <2>2. CASE r.epoch = Join(s.epoch, m.clk)
    BY <2>2, <1>t, JoinIs
  <2> QED
    BY <2>1, <2>2
<1>2. Compact(r)
  <2>1. ASSUME NEW i \in Tid, r.size <= i PROVE r.epoch[i] = 0 /\ r.reused[i] = 0
    <3>1. m.n <= i /\ s.size <= i /\ i # m.tid
      BY <2>1, <1>n, <1>w
    <3>2. m.clk[i] = 0 /\ s.epoch[i] = 0
      BY <3>1 DEF Usable, WellFormed, Compact
    <3> QED
      BY <3>1, <3>2, <1>1
  <2> QED
    BY <2>1 DEF Compact
<1>3. Related(m, r)
  <2>1. Flagged(m, r)
    <3>1. r.epoch = m.clk => \A i \in Tid : r.epoch[i] = 0 \/ i < m.n
      BY <1>n DEF Usable, WellFormed
    <3> QED
      BY <3>1, <1>n, <1>w DEF Flagged
  <2>2. Covers(r.epoch, m)
    BY <1>1 DEF Covers
  <2>3. Owned(m, r)
    BY <1>n, SlotAssumption DEF Owned, StoredBy
  <2> QED
    BY <2>1, <2>2, <2>3 DEF Related
<1>4. ASSUME NEW d \in ThreadClocks, d.tid # m.tid, WellFormed(d), Related(d, s),
             Covers(m.clk, d)
      PROVE  Related(d, r)
  <2>1. d.tid \in Tid /\ d.last \in Nat /\ d.reused \in Nat /\ 0 < d.reused
        /\ \A i \in Tid : d.clk[i] \in Nat
    BY <1>4, Fields DEF WellFormed
  <2>2. Flagged(d, r)
    BY <2>1, <1>4 DEF Flagged
  <2>3. Covers(r.epoch, d)
    <3>1. SUFFICES ASSUME r.epoch[d.tid] > d.last, NEW i \in Tid \ {d.tid}
                   PROVE  d.clk[i] <= r.epoch[i]
      BY DEF Covers
    <3>2. CASE m.clk[d.tid] > d.last
      <4>1. d.clk[i] <= m.clk[i]
        BY <3>2, <1>4 DEF Covers
      <4> QED
        BY <4>1, <1>1, <1>n, <2>1
    <3>3. CASE ~ (m.clk[d.tid] > d.last)
      <4>1. r.epoch = Join(s.epoch, m.clk)
        BY <3>1, <3>3
      <4>2. s.epoch[d.tid] > d.last
        BY <3>1, <3>3, <1>1, <2>1
      <4>3. d.clk[i] <= s.epoch[i]
        BY <4>2, <1>4 DEF Related, Covers
      <4>4. s.epoch[i] <= r.epoch[i]
        BY <4>1, <1>t, JoinIs
      <4> QED
        BY <4>3, <4>4, <1>1, <1>n, <2>1
    <3> QED
      BY <3>2, <3>3
  <2>4. Owned(d, r)
    BY <1>4, <2>1, SlotAssumption DEF Owned, StoredBy
  <2> QED
    BY <2>2, <2>3, <2>4 DEF Related
<1>5. \A i \in Tid : \/ r.reused[i] \in {0, s.reused[i]}
                     \/ i = m.tid /\ r.reused[i] = m.reused
  OBVIOUS
<1>6. m.n <= m.n /\ WellFormed(m)
  BY <1>n DEF Usable
<1>7. r.epoch \in {s.epoch, m.clk, Join(s.epoch, m.clk), Zero}
  OBVIOUS
<1>8. \/ r.storeTid = NoTid
      \/ r.storeTid = m.tid /\ r.storeReused = m.reused
  OBVIOUS
<1> QED
  BY <1>2, <1>3, <1>4, <1>5, <1>6, <1>7, <1>8 DEF Follows

(* ReleaseStore() leaves the thread's clock in s. *)
LEMMA StoredOK ==
  ASSUME NEW m, NEW s, Usable(m, s)
  PROVE  Stored(m, s).epoch = m.clk /\ Follows(m, s, m, Stored(m, s))
<1>t. /\ m \in ThreadClocks /\ m.clk \in [Tid -> Nat] /\ m.n \in Nat /\ m.tid \in Tid
      /\ m.reused \in Nat /\ s \in SyncClocks /\ s.size \in Nat
      /\ Tid \subseteq Nat
  BY Fields DEF WellFormed, Compact, Usable
<1> DEFINE z == Resized(s, m.n)
           r == [size |-> z.size, dirty |-> {},
                 epoch |-> [i \in Tid |-> IF i < m.n THEN m.clk[i] ELSE 0],
                 reused |-> [Zero EXCEPT ![m.tid] = m.reused],
                 storeTid |-> m.tid, storeReused |-> m.reused]
<1>1. Stored(m, s) = IF StoredBy(m, z) /\ z.epoch[m.tid] > m.last
                     THEN UpdateCurrentThread(m, z) ELSE r
  BY DEF Stored
<1>2. /\ Usable(m, z) /\ m.n <= z.size /\ z.size \in Nat
      /\ \A c, q : Follows(m, z, c, q) => Follows(m, s, c, q)
  BY <1>t, ResizedOK, Fields DEF Usable, Compact
<1>3. CASE StoredBy(m, z) /\ z.epoch[m.tid] > m.last
  BY <1>1, <1>2, <1>3, OwnEntryOK
<1>4. CASE ~ (StoredBy(m, z) /\ z.epoch[m.tid] > m.last)
  <2>1. [i \in Tid |-> IF i < m.n THEN m.clk[i] ELSE 0] = m.clk
    <3>1. \A i \in Tid : ~ (i < m.n) => m.clk[i] = 0
      BY <1>t DEF Usable, WellFormed
    <3> QED
      BY <3>1, <1>t
  <2>2. r \in SyncClocks /\ r.dirty = {} /\ r.size = z.size /\ r.epoch = m.clk
        /\ r.storeTid = m.tid /\ r.storeReused = m.reused
        /\ r.reused[m.tid] = m.reused /\ \A i \in Tid \ {m.tid} : r.reused[i] = 0
    BY <1>t, <1>2, <2>1 DEF SyncClocks, Zero
  <2> HIDE DEF r, z
  <2>3. Follows(m, z, m, r)
    BY <1>2, <2>2, AllEntriesOK
  <2> QED
    BY <1>1, <1>2, <1>4, <2>2, <2>3
<1> QED
  BY <1>3, <1>4

(* release() adds the thread's clock to what s has, by whichever path.       *)
LEMMA ReleasedOK ==
  ASSUME NEW m, NEW s, Usable(m, s)
  PROVE  /\ Released(m, s).epoch = Join(s.epoch, m.clk)
         /\ Follows(m, s, m, Released(m, s))
<1>t. /\ m \in ThreadClocks /\ m.clk \in [Tid -> Nat] /\ m.n \in Nat /\ m.tid \in Tid
      /\ m.reused \in Nat /\ s \in SyncClocks /\ s.size \in Nat /\ s.epoch \in [Tid -> Nat]
      /\ Tid \subseteq Nat /\ m.last \in Nat
  BY Fields DEF WellFormed, Compact, Usable
<1> DEFINE z == Resized(s, m.n)
<1>1. Released(m, s) = IF s.size = 0 THEN Stored(m, s)
                       ELSE IF z.epoch[m.tid] > m.last THEN ReleasedOwn(m, z)
                       ELSE ReleasedAll(m, z)
  BY DEF Released
<1>2. /\ Usable(m, z) /\ m.n <= z.size /\ z.size \in Nat /\ z.epoch = s.epoch
      /\ \A c, q : Follows(m, z, c, q) => Follows(m, s, c, q)
  BY <1>t, ResizedOK, Fields DEF Usable, Compact
<1>3. CASE s.size = 0
  <2>1. \A i \in Tid : s.epoch[i] = 0
    BY <1>3, <1>t DEF Usable, Compact
  <2>2. \A i \in Tid : Join(s.epoch, m.clk)[i] = m.clk[i]
    BY <2>1, <1>t, JoinIs DEF Larger
  <2>3. Join(s.epoch, m.clk) = m.clk
    <3> DEFINE J == Join(s.epoch, m.clk)
    <3>1. J \in [Tid -> Nat] /\ \A i \in Tid : J[i] = m.clk[i]
      BY <2>2, <1>t, JoinIs
    <3> HIDE DEF J
    <3>2. J = m.clk
      BY <3>1, <1>t, SameTimes
    <3> QED
      BY <3>2 DEF J
  <2> QED
    BY <1>1, <1>3, <2>3, StoredOK
<1>4. CASE s.size # 0 /\ z.epoch[m.tid] > m.last
  <2>1. ReleasedOwn(m, z) = IF StoredBy(m, z) THEN UpdateCurrentThread(m, z)
                            ELSE [UpdateCurrentThread(m, z) EXCEPT !.storeTid = NoTid]
    BY DEF ReleasedOwn
  <2> HIDE DEF z
  <2>2. /\ Follows(m, z, m, ReleasedOwn(m, z))
        /\ ReleasedOwn(m, z).epoch = Join(z.epoch, m.clk)
    BY <1>2, <1>4, <2>1, OwnEntryOK
  <2> QED
    BY <1>1, <1>2, <1>4, <2>2
<1>5. CASE s.size # 0 /\ ~ (z.epoch[m.tid] > m.last)
  <2> DEFINE r == ReleasedAll(m, z)
             f == [i \in Tid |-> IF i < m.n THEN Larger(z.epoch[i], m.clk[i])
                                            ELSE z.epoch[i]]
             J == Join(s.epoch, m.clk)
  <2> HIDE DEF z
  <2>1. J \in [Tid -> Nat] /\ \A i \in Tid : J[i] = Larger(s.epoch[i], m.clk[i])
    BY <1>t, JoinIs
  <2>2. f = J
    <3>1. \A i \in Tid : ~ (i < m.n) => m.clk[i] = 0
      BY <1>t DEF Usable, WellFormed
    <3>2. \A i \in Tid : f[i] = J[i]
      BY <3>1, <2>1, <1>2, <1>t DEF Larger
    <3> QED
      BY <3>2, <2>1
  <2>3. /\ r.dirty = {} /\ r.size = z.size /\ r.epoch = f /\ r.storeTid = NoTid
        /\ r.reused = IF IsAlreadyAcquired(m, z)
                      THEN [Zero EXCEPT ![m.tid] = m.reused] ELSE Zero
    BY DEF ReleasedAll
  <2>4. /\ r.reused \in [Tid -> Nat] /\ \A i \in Tid \ {m.tid} : r.reused[i] = 0
        /\ r.reused[m.tid] = IF IsAlreadyAcquired(m, z) THEN m.reused ELSE 0
    BY <1>t, <2>3 DEF Zero
  <2>5. r \in SyncClocks
    BY <1>2, <2>1, <2>2, <2>3, <2>4 DEF ReleasedAll, SyncClocks
  <2>6. ASSUME IsAlreadyAcquired(m, z) PROVE J = m.clk
    <3>1. \A i \in Tid : s.epoch[i] <= m.clk[i]
      BY <1>2, <2>6 DEF IsAlreadyAcquired, Usable, Related, Flagged
    <3>2. \A i \in Tid : J[i] = m.clk[i]
      BY <3>1, <2>1, <1>t DEF Larger
    <3> QED
      BY <3>2, <2>1, <1>t
  <2> HIDE DEF r, f, J
  <2>7. Follows(m, z, m, r)
    <3>1. r.epoch \in {m.clk, Join(z.epoch, m.clk)}
      BY <1>2, <2>2, <2>3 DEF J
    <3>2. z.size <= r.size /\ m.n <= r.size
      BY <1>2, <2>3
    <3>3. \/ r.reused[m.tid] = 0
          \/ r.reused[m.tid] = m.reused /\ r.epoch = m.clk
      BY <2>2, <2>3, <2>4, <2>6
    <3> QED
      BY <3>1, <3>2, <3>3, <1>2, <2>3, <2>4, <2>5, AllEntriesOK
  <2> QED
    BY <1>1, <1>2, <1>5, <2>2, <2>3, <2>7 DEF r, J
<1> QED
  BY <1>3, <1>4, <1>5

(* A release that follows an acquire of the same variable. *)
LEMMA AcquireStoredOK ==
  ASSUME NEW m, NEW s, Usable(m, s)
  PROVE  LET a == Acquired(m, s)
             r == Stored(a, MarkAcquired(m, s))
         IN  /\ a.clk = Join(m.clk, s.epoch) /\ r.epoch = a.clk
             /\ Follows(m, s, a, r)
<1> DEFINE a == Acquired(m, s)
           q == MarkAcquired(m, s)
           r == Stored(a, q)
<1>t. /\ m \in ThreadClocks /\ m.clk \in [Tid -> Nat] /\ m.tid \in Tid
      /\ s \in SyncClocks /\ s.epoch \in [Tid -> Nat]
  BY Fields DEF WellFormed, Compact, Usable
<1>1. /\ a.clk = Join(m.clk, s.epoch) /\ Follows(m, s, a, q) /\ q.epoch = s.epoch
  BY AcquiredOK
<1> HIDE DEF a, q
<1>2. Usable(a, q)
  <2>1. s.epoch[m.tid] <= a.clk[m.tid]
    BY <1>1, <1>t, JoinIs
  <2> QED
    BY <1>1, <2>1 DEF Usable, Follows
<1>3. r.epoch = a.clk /\ Follows(a, q, a, r)
  BY <1>2, StoredOK
<1> HIDE DEF r
<1>4. Follows(m, s, a, r)
  <2>1. /\ WellFormed(a) /\ a.tid = m.tid /\ a.reused = m.reused /\ m.n <= a.n
        /\ a.clk \in {m.clk, Join(m.clk, s.epoch)}
        /\ a.last = m.clk[m.tid] \/ (a.last = m.last /\ a.clk = m.clk)
    BY <1>1 DEF Follows
  <2>2. /\ Compact(r) /\ Related(a, r)
        /\ r.epoch \in {s.epoch, a.clk, Join(s.epoch, a.clk), Zero}
    BY <1>3 DEF Follows
  <2>3. \A i \in Tid : \/ r.reused[i] \in {0, s.reused[i]}
                       \/ i = m.tid /\ r.reused[i] = m.reused
    BY <1>1, <1>3, <2>1 DEF Follows
  <2>4. \/ r.storeTid = NoTid
        \/ r.storeTid = s.storeTid /\ r.storeReused = s.storeReused
        \/ r.storeTid = m.tid /\ r.storeReused = m.reused
    BY <1>1, <1>3, <2>1 DEF Follows
  <2>5. \A d \in ThreadClocks :
          d.tid # m.tid /\ WellFormed(d) /\ Related(d, s) /\ Covers(a.clk, d) =>
            Related(d, r)
    BY <1>1, <1>3, <2>1 DEF Follows
  <2> QED
    BY <2>1, <2>2, <2>3, <2>4, <2>5 DEF Follows
<1> QED
  BY <1>1, <1>3, <1>4 DEF a, q, r
-----------------------------------------------------------------------------
(* A step of a running thread t, whose epoch does not go back. *)

(* It begins with a clock that is usable with any sync clock, and relates to *)
(* the other threads as the old one does.                                    *)
LEMMA MineOK ==
  ASSUME IInv, NEW t \in Tid, status[t] = "running",
         NEW e \in Nat, epoch[t] <= e
  PROVE  LET m == SetOwn(clock[t], e)
         IN  /\ \A s \in Sync : Usable(m, sync[s])
             /\ m.tid = t /\ m.reused = clock[t].reused /\ m.last = clock[t].last
             /\ m.n = clock[t].n /\ m.clk = [clock[t].clk EXCEPT ![t] = e]
             /\ \A u \in Tid \ {t} :
                  /\ Covers(clock[u].clk, m)
                  /\ status[u] = "running" => Covers(m.clk, clock[u])
<1> DEFINE c == clock[t]
           m == SetOwn(c, e)
<1>t. /\ c \in ThreadClocks /\ c.tid = t /\ c.clk \in [Tid -> Nat] /\ WellFormed(c)
      /\ c.last \in Nat /\ c.n \in Nat /\ Tid \subseteq Nat
  BY Fields DEF IInv, TypeOK, Forms
<1>e. epoch[t] \in Nat /\ c.clk[t] <= epoch[t] /\ \A i \in Tid : c.clk[i] \in Nat
  BY <1>t DEF IInv, TypeOK, NoClockAhead
<1> HIDE DEF c
<1> DEFINE f == [c.clk EXCEPT ![t] = e]
<1>1. /\ f \in [Tid -> Nat] /\ f[t] = e /\ \A i \in Tid \ {t} : f[i] = c.clk[i]
      /\ c.clk[t] <= f[t]
  BY <1>t, <1>e
<1>2. m = [c EXCEPT !.clk = f]
  BY <1>t DEF SetOwn, ThreadClocks
<1> HIDE DEF f
<1>3. /\ m \in ThreadClocks /\ m.tid = t /\ m.reused = c.reused /\ m.last = c.last
      /\ m.n = c.n /\ m.clk = f
  BY <1>t, <1>1, <1>2 DEF ThreadClocks
<1> HIDE DEF m
<1>4. WellFormed(m)
  <2>1. \A i \in Tid : c.n <= i => i # t
    BY <1>t DEF WellFormed
  <2> QED
    BY <2>1, <1>t, <1>1, <1>3 DEF WellFormed
<1>5. ASSUME NEW s \in Sync PROVE Usable(m, sync[s])
  <2>1. Related(c, sync[s]) /\ Compact(sync[s]) /\ sync[s].epoch[t] <= epoch[t]
    BY DEF IInv, Relations, Forms, NoClockAhead, c
  <2>2. \A i \in Tid : sync[s].epoch[i] \in Nat
    BY Fields DEF IInv, TypeOK
  <2>3. Flagged(m, sync[s])
    <3>1. SUFFICES ASSUME sync[s].reused[t] = c.reused, NEW i \in Tid
                   PROVE  /\ i \in sync[s].dirty \/ sync[s].epoch[i] <= f[i]
                          /\ sync[s].epoch[i] = 0 \/ i < c.n
      BY <1>3 DEF Flagged
    <3>2. /\ i \in sync[s].dirty \/ sync[s].epoch[i] <= c.clk[i]
          /\ sync[s].epoch[i] = 0 \/ i < c.n
      BY <2>1, <3>1, <1>t DEF Related, Flagged
    <3> QED
      BY <3>2, <2>2, <1>e, <1>1
  <2>4. Covers(sync[s].epoch, m)
    BY <2>1, <1>1, <1>3, <1>t DEF Related, Covers
  <2>5. Owned(m, sync[s])
    BY <2>1, <1>1, <1>3, <1>t DEF Related, Owned, StoredBy
  <2>6. sync[s].epoch[m.tid] <= m.clk[m.tid]
    BY <2>1, <2>2, <1>1, <1>3, <1>e
  <2> QED
    BY <2>1, <2>3, <2>4, <2>5, <2>6, <1>4 DEF Usable, Related
<1>6. ASSUME NEW u \in Tid \ {t} PROVE Covers(clock[u].clk, m)
  <2>1. Covers(clock[u].clk, c)
    BY DEF IInv, Relations, c
  <2> QED
    BY <2>1, <1>1, <1>3, <1>t DEF Covers
<1>7. ASSUME NEW u \in Tid \ {t}, status[u] = "running" PROVE Covers(m.clk, clock[u])
  <2>1. Covers(c.clk, clock[u]) /\ clock[u].tid = u
    BY <1>7 DEF IInv, TypeOK, Relations, c
  <2>2. \A i \in Tid : clock[u].clk[i] \in Nat
    BY Fields DEF IInv, TypeOK
  <2> QED
    BY <2>1, <2>2, <1>1, <1>3, <1>e DEF Covers
<1> QED
  BY <1>3, <1>5, <1>6, <1>7 DEF m, c, f
(* An operation at epoch e, which leaves clock c to the thread and r to s.   *)
Operates(t, s, e, c, r) ==
  /\ status[t] = "running" /\ s \in Sync /\ e \in Nat /\ epoch[t] <= e
  /\ Follows(SetOwn(clock[t], e), sync[s], c, r)
  /\ epoch' = [epoch EXCEPT ![t] = e]
  /\ clock' = [clock EXCEPT ![t] = c] /\ sync' = [sync EXCEPT ![s] = r]

(* It leaves every clock in order, and running threads related to them.      *)
LEMMA OperateOK ==
  ASSUME IInv, NEW t \in Tid, NEW s, NEW e, NEW c, NEW r, Operates(t, s, e, c, r)
  PROVE  /\ clock' \in [Tid -> ThreadClocks] /\ \A u \in Tid : clock'[u].tid = u
         /\ sync' \in [Sync -> SyncClocks] /\ epoch' \in [Tid -> Nat]
         /\ Forms' /\ NoClockAhead'
         /\ \A u \in Tid : clock'[u].reused = clock[u].reused
         /\ \A u \in Tid, q \in Sync :
              /\ sync'[q].reused[u] <= Users(u)
              /\ sync'[q].storeTid = u => sync'[q].storeReused <= Users(u)
         /\ \A u \in Tid : status[u] = "running" =>
              /\ \A q \in Sync : Related(clock'[u], sync'[q])
              /\ \A v \in Tid \ {u} : Covers(clock'[v].clk, clock'[u])
<1> USE DEF Operates
<1> DEFINE m == SetOwn(clock[t], e)
<1>m. /\ \A q \in Sync : Usable(m, sync[q])
      /\ m.tid = t /\ m.reused = clock[t].reused /\ m.clk = [clock[t].clk EXCEPT ![t] = e]
      /\ \A u \in Tid \ {t} :
           /\ Covers(clock[u].clk, m)
           /\ status[u] = "running" => Covers(m.clk, clock[u])
  BY MineOK
<1>o. Follows(m, sync[s], c, r)
  OBVIOUS
<1> HIDE DEF m
<1>t. /\ m.clk \in [Tid -> Nat] /\ m.clk[t] = e /\ m.n \in Nat
      /\ sync[s].epoch \in [Tid -> Nat]
      /\ \A i \in Tid \ {t} : m.clk[i] = clock[t].clk[i]
      /\ Tid \subseteq Nat
  BY <1>m, Fields DEF IInv, TypeOK, Usable, WellFormed
<1>c. /\ c \in ThreadClocks /\ c.tid = t /\ c.reused = m.reused /\ m.n <= c.n /\ c.n \in Nat
      /\ c.last = e \/ (c.last = m.last /\ c.clk = m.clk)
      /\ WellFormed(c) /\ c.clk \in [Tid -> Nat]
  BY <1>m, <1>o, <1>t, Fields DEF Follows, WellFormed
<1>1. \A i \in Tid : m.clk[i] <= c.clk[i] /\ c.clk[i] \in {m.clk[i], sync[s].epoch[i]}
  <2>1. CASE c.clk = m.clk
    BY <2>1, <1>t
  <2>2. CASE c.clk = Join(m.clk, sync[s].epoch)
    BY <2>2, <1>t, JoinIs
  <2> QED
    BY <2>1, <2>2, <1>o DEF Follows
<1>2. r \in SyncClocks /\ Compact(r)
      /\ \A i \in Tid : r.epoch[i] \in {sync[s].epoch[i], c.clk[i], 0}
  <2>1. r.epoch \in {sync[s].epoch, c.clk, Join(sync[s].epoch, c.clk), Zero}
    BY <1>o DEF Follows
  <2>2. \A i \in Tid : /\ Join(sync[s].epoch, c.clk)[i] \in {sync[s].epoch[i], c.clk[i]}
                       /\ Zero[i] = 0
    BY <1>t, <1>c, JoinIs DEF Zero
  <2> QED
    BY <2>1, <2>2, <1>o DEF Follows, Compact
<1>3. /\ clock' \in [Tid -> ThreadClocks] /\ clock'[t] = c
      /\ \A u \in Tid \ {t} : clock'[u] = clock[u]
      /\ sync' \in [Sync -> SyncClocks] /\ sync'[s] = r
      /\ \A q \in Sync \ {s} : sync'[q] = sync[q]
      /\ epoch' \in [Tid -> Nat] /\ epoch'[t] = e
      /\ \A u \in Tid \ {t} : epoch'[u] = epoch[u]
  BY <1>c, <1>2 DEF IInv, TypeOK
<1>4. Forms'
  BY <1>3, <1>c, <1>2 DEF IInv, Forms
<1>5. NoClockAhead'
  <2>1. SUFFICES ASSUME NEW i \in Tid
                 PROVE  /\ \A u \in Tid : clock'[u].clk[i] <= epoch'[i]
                        /\ \A q \in Sync : sync'[q].epoch[i] <= epoch'[i]
    BY DEF NoClockAhead
  <2>2. /\ epoch[i] \in Nat /\ epoch'[i] \in Nat /\ epoch[i] <= epoch'[i]
    BY <1>3 DEF IInv, TypeOK
  <2>3. /\ \A u \in Tid : clock[u].clk[i] <= epoch[i] /\ clock[u].clk[i] \in Nat
        /\ \A q \in Sync : sync[q].epoch[i] <= epoch[i] /\ sync[q].epoch[i] \in Nat
    BY Fields DEF IInv, TypeOK, NoClockAhead
  <2>4. m.clk[i] <= epoch'[i]
    BY <1>t, <1>3, <2>2, <2>3
  <2>5. c.clk[i] <= epoch'[i] /\ r.epoch[i] <= epoch'[i]
    BY <2>2, <2>3, <2>4, <1>1, <1>2
  <2> QED
    BY <2>2, <2>3, <2>5, <1>3
<1>6. ASSUME NEW v, Covers(v, m), v[t] \in Nat, v[t] <= e PROVE Covers(v, c)
  <2>1. CASE c.last = e
    BY <2>1, <1>6, <1>c DEF Covers
  <2>2. CASE c.last = m.last /\ c.clk = m.clk
    BY <2>2, <1>6, <1>c, <1>m DEF Covers
  <2> QED
    BY <2>1, <2>2, <1>c
<1>7. ASSUME NEW q \in Sync PROVE Related(c, sync'[q])
  <2>1. CASE q = s
    BY <2>1, <1>3, <1>o DEF Follows
  <2>2. CASE q # s
    <3>1. Related(m, sync[q]) /\ sync[q].epoch[t] <= e
      BY <1>m, <1>t DEF Usable
    <3>2. \A i \in Tid : sync[q].epoch[i] \in Nat /\ m.clk[i] \in Nat /\ c.clk[i] \in Nat
      BY <1>t, <1>c, Fields DEF IInv, TypeOK
    <3>3. Flagged(c, sync[q])
      <4>1. SUFFICES ASSUME sync[q].reused[t] = m.reused, NEW i \in Tid
                     PROVE  /\ i \in sync[q].dirty \/ sync[q].epoch[i] <= c.clk[i]
                            /\ sync[q].epoch[i] = 0 \/ i < c.n
        BY <1>c DEF Flagged
      <4>2. /\ i \in sync[q].dirty \/ sync[q].epoch[i] <= m.clk[i]
            /\ sync[q].epoch[i] = 0 \/ i < m.n
        BY <3>1, <4>1, <1>m DEF Related, Flagged
      <4>3. i \in Nat
        BY <1>t
      <4> QED
        BY <4>2, <4>3, <3>2, <1>1, <1>c, <1>t
    <3>4. Covers(sync[q].epoch, c)
      BY <3>1, <3>2, <1>6 DEF Related
    <3>5. Owned(c, sync[q])
      <4>1. SUFFICES ASSUME StoredBy(m, sync[q]), NEW i \in Tid \ {t}
                     PROVE  sync[q].epoch[i] <= c.clk[i]
        BY <1>c, <1>m DEF Owned, StoredBy
      <4>2. sync[q].epoch[i] <= m.clk[i]
        BY <3>1, <4>1, <1>m DEF Related, Owned
      <4> QED
        BY <4>2, <3>2, <1>1
    <3> QED
      BY <2>2, <3>3, <3>4, <3>5, <1>3 DEF Related
  <2> QED
    BY <2>1, <2>2
<1>8. ASSUME NEW u \in Tid \ {t} PROVE Covers(clock[u].clk, c)
  <2>1. clock[u].clk[t] \in Nat /\ clock[u].clk[t] <= epoch[t] /\ epoch[t] \in Nat
    BY Fields DEF IInv, TypeOK, NoClockAhead
  <2> QED
    BY <2>1, <1>6, <1>m
<1>9. ASSUME NEW u \in Tid \ {t}, status[u] = "running" PROVE Covers(c.clk, clock[u])
  <2>1. CASE c.clk = m.clk
    BY <2>1, <1>m, <1>9
  <2>2. CASE c.clk = Join(m.clk, sync[s].epoch)
    <3>1. Covers(m.clk, clock[u]) /\ Covers(sync[s].epoch, clock[u])
      BY <1>m, <1>9 DEF IInv, Relations, Related
    <3>2. SUFFICES ASSUME c.clk[u] > clock[u].last, NEW i \in Tid \ {u}
                   PROVE  clock[u].clk[i] <= c.clk[i]
      BY DEF Covers, IInv, TypeOK
    <3>3. clock[u].tid = u /\ clock[u].clk[i] \in Nat /\ c.clk[u] \in {m.clk[u], sync[s].epoch[u]}
      BY <1>1, Fields DEF IInv, TypeOK
    <3>4. m.clk[i] <= c.clk[i] /\ sync[s].epoch[i] <= c.clk[i] /\ c.clk[i] \in Nat
          /\ m.clk[i] \in Nat /\ sync[s].epoch[i] \in Nat
      BY <2>2, <1>t, <1>c, JoinIs
    <3>5. clock[u].clk[i] <= m.clk[i] \/ clock[u].clk[i] <= sync[s].epoch[i]
      BY <3>1, <3>2, <3>3 DEF Covers
    <3> QED
      BY <3>3, <3>4, <3>5
  <2> QED
    BY <2>1, <2>2, <1>o DEF Follows
<1>10. ASSUME NEW u \in Tid \ {t}, status[u] = "running", NEW q \in Sync
       PROVE  Related(clock[u], sync'[q])
  <2>1. Related(clock[u], sync[q])
    BY <1>10 DEF IInv, Relations
  <2>2. CASE q = s
    <3>1. clock[u] \in ThreadClocks /\ clock[u].tid # m.tid /\ WellFormed(clock[u])
      BY <1>m DEF IInv, TypeOK, Forms
    <3> QED
      BY <2>1, <2>2, <3>1, <1>3, <1>9, <1>10, <1>o DEF Follows
  <2> QED
    BY <2>1, <2>2, <1>3
<1>11. ASSUME NEW u \in Tid, NEW q \in Sync
       PROVE  /\ sync'[q].reused[u] <= Users(u)
              /\ sync'[q].storeTid = u => sync'[q].storeReused <= Users(u)
  <2>1. /\ sync[q].reused[u] <= Users(u) /\ Users(u) \in Nat
        /\ sync[q].storeTid = u => sync[q].storeReused <= Users(u)
    BY DEF IInv, Marks, TypeOK, Users
  <2>2. m.reused = Users(t) /\ Users(t) \in Nat
    BY <1>m DEF IInv, Marks, TypeOK, Users
  <2>3. CASE q = s
    <3>1. \/ r.reused[u] \in {0, sync[s].reused[u]}
          \/ u = t /\ r.reused[u] = m.reused
      BY <1>m, <1>o DEF Follows
    <3>2. \/ r.storeTid = NoTid
          \/ r.storeTid = sync[s].storeTid /\ r.storeReused = sync[s].storeReused
          \/ r.storeTid = t /\ r.storeReused = m.reused
      BY <1>m, <1>o DEF Follows
    <3> QED
      BY <2>1, <2>2, <2>3, <3>1, <3>2, <1>3, SlotAssumption
  <2> QED
    BY <2>1, <2>3, <1>3
<1>12. ASSUME NEW u \in Tid, status[u] = "running"
       PROVE  /\ \A q \in Sync : Related(clock'[u], sync'[q])
              /\ \A v \in Tid \ {u} : Covers(clock'[v].clk, clock'[u])
  <2>1. CASE u = t
    BY <2>1, <1>3, <1>7, <1>8
  <2>2. CASE u # t
    <3>1. \A v \in Tid \ {u} : Covers(clock[v].clk, clock[u])
      BY <1>12 DEF IInv, Relations
    <3> QED
      BY <2>2, <3>1, <1>3, <1>9, <1>10, <1>12
  <2> QED
    BY <2>1, <2>2
<1>13. \A u \in Tid : clock'[u].tid = u /\ clock'[u].reused = clock[u].reused
  BY <1>3, <1>c, <1>m DEF IInv, TypeOK
<1> QED
  BY <1>3, <1>4, <1>5, <1>11, <1>12, <1>13
(* The invariant holds after it, if no thread begins to run in the step.     *)
LEMMA SettledOK ==
  ASSUME IInv, NEW t \in Tid, NEW s, NEW e, NEW c, NEW r, Operates(t, s, e, c, r),
         status' \in [Tid -> {"unused", "created", "running", "finished", "dead"}],
         reuse_count' \in [Tid -> Nat], UNCHANGED <<walker, next>>,
         \A u \in Tid : status'[u] = "running" =>
                         status[u] = "running" /\ reuse_count'[u] = reuse_count[u],
         \A u \in Tid : Users(u) <= Users(u)'
  PROVE  IInv'
<1>1. /\ clock' \in [Tid -> ThreadClocks] /\ \A u \in Tid : clock'[u].tid = u
      /\ sync' \in [Sync -> SyncClocks] /\ epoch' \in [Tid -> Nat]
      /\ Forms' /\ NoClockAhead'
      /\ \A u \in Tid : clock'[u].reused = clock[u].reused
      /\ \A u \in Tid, q \in Sync :
           /\ sync'[q].reused[u] <= Users(u)
           /\ sync'[q].storeTid = u => sync'[q].storeReused <= Users(u)
      /\ \A u \in Tid : status[u] = "running" =>
           /\ \A q \in Sync : Related(clock'[u], sync'[q])
           /\ \A v \in Tid \ {u} : Covers(clock'[v].clk, clock'[u])
  BY OperateOK
<1>2. TypeOK'
  BY <1>1 DEF IInv, TypeOK
<1>3. \A u \in Tid : Users(u) \in Nat /\ Users(u)' \in Nat
  BY <1>2 DEF IInv, TypeOK, Users
<1>4. Marks'
  <2>1. ASSUME NEW u \in Tid, status'[u] = "running"
        PROVE  clock'[u].reused = reuse_count'[u] + 1
    BY <1>1, <2>1 DEF IInv, Marks
  <2>2. ASSUME NEW u \in Tid, NEW q \in Sync
        PROVE  /\ sync'[q].reused[u] <= Users(u)'
               /\ sync'[q].storeTid = u => sync'[q].storeReused <= Users(u)'
    <3>1. sync'[q].reused[u] \in Nat /\ sync'[q].storeReused \in Nat
      BY <1>1, Fields
    <3> QED
      BY <3>1, <1>1, <1>3
  <2> QED
    BY <2>1, <2>2 DEF Marks
<1>5. Relations'
  BY <1>1 DEF Relations
<1> QED
  BY <1>1, <1>2, <1>4, <1>5 DEF IInv

(* A clock that is new is related to every thread. *)
LEMMA NewSyncClockOK ==
  /\ Compact(NewSyncClock) /\ NewSyncClock.epoch = Zero
  /\ \A i \in Tid : NewSyncClock.reused[i] = 0
  /\ NewSyncClock.storeTid = NoTid
  /\ \A c : WellFormed(c) => Related(c, NewSyncClock)
<1>1. Zero \in [Tid -> Nat] /\ \A i \in Tid : Zero[i] = 0
  BY DEF Zero
<1>2. Compact(NewSyncClock)
  BY <1>1 DEF NewSyncClock, Compact, SyncClocks
<1>3. ASSUME NEW c, WellFormed(c) PROVE Related(c, NewSyncClock)
  <2>1. c.tid \in Tid /\ c.reused # 0 /\ c.last \in Nat /\ \A i \in Tid : c.clk[i] \in Nat
    BY <1>3, Fields DEF WellFormed
  <2> QED
    BY <1>1, <2>1, SlotAssumption
       DEF NewSyncClock, Related, Flagged, Covers, Owned, StoredBy
<1> QED
  BY <1>1, <1>2, <1>3 DEF NewSyncClock

(* So an operation may end with one. *)
LEMMA FollowsReset ==
  ASSUME NEW m, NEW s, NEW c, NEW r, Follows(m, s, c, r)
  PROVE  Follows(m, s, c, NewSyncClock)
BY NewSyncClockOK DEF Follows

-----------------------------------------------------------------------------
(* What the steps are in the model. *)

vc == [t \in Tid |-> clock[t].clk]
sc == [s \in Sync |-> sync[s].epoch]

(* An operation changes one vector of each kind. *)
LEMMA MapsTo ==
  ASSUME IInv, NEW t \in Tid, NEW s, NEW e, NEW c, NEW r, Operates(t, s, e, c, r)
  PROVE  /\ vc' = [vc EXCEPT ![t] = c.clk] /\ sc' = [sc EXCEPT ![s] = r.epoch]
         /\ sc[s] = sync[s].epoch
BY DEF IInv, TypeOK, vc, sc, Operates

(* The clock a thread begins an operation with. *)
LEMMA BeginsWith ==
  ASSUME IInv, NEW t \in Tid, status[t] = "running", Tick(t) \/ epoch' = epoch
  PROVE  /\ epoch[t] \in Nat /\ epoch'[t] \in Nat /\ epoch[t] <= epoch'[t]
         /\ epoch' = [epoch EXCEPT ![t] = epoch'[t]]
         /\ Tick(t) => /\ epoch'[t] = epoch[t] + 1
                       /\ epoch' = [epoch EXCEPT ![t] = epoch[t] + 1]
         /\ \A s \in Sync : Usable(Mine(t), sync[s])
         /\ Mine(t) = SetOwn(clock[t], epoch'[t])
         /\ Mine(t).tid = t /\ Mine(t).reused = clock[t].reused
         /\ Mine(t).clk = [vc[t] EXCEPT ![t] = epoch'[t]]
<1>1. epoch \in [Tid -> Nat] /\ epoch[t] \in Nat
  BY DEF IInv, TypeOK
<1>2. Tick(t) => epoch' = [epoch EXCEPT ![t] = epoch[t] + 1]
  BY DEF Tick
<1>3. /\ epoch' = [epoch EXCEPT ![t] = epoch'[t]] /\ epoch'[t] \in Nat
      /\ epoch[t] <= epoch'[t]
      /\ Tick(t) => epoch'[t] = epoch[t] + 1
  BY <1>1, <1>2
<1> DEFINE e == epoch'[t]
<1>4. LET m == SetOwn(clock[t], e)
      IN  /\ \A s \in Sync : Usable(m, sync[s])
          /\ m.tid = t /\ m.reused = clock[t].reused
          /\ m.clk = [clock[t].clk EXCEPT ![t] = e]
  <2>1. e \in Nat /\ epoch[t] <= e
    BY <1>3
  <2> HIDE DEF e
  <2> QED
    BY <2>1, MineOK
<1> QED
  BY <1>1, <1>2, <1>3, <1>4 DEF Mine, vc

(* When no thread comes or goes. *)
LEMMA SameThreadsOK ==
  ASSUME IInv, NEW t \in Tid, NEW s, NEW e, NEW c, NEW r, Operates(t, s, e, c, r),
         SameThreads
  PROVE  IInv'
<1>1. \A u \in Tid : Users(u)' = Users(u) /\ Users(u) \in Nat
  BY DEF Users, IInv, TypeOK, SameThreads
<1>2. /\ status' \in [Tid -> {"unused", "created", "running", "finished", "dead"}]
      /\ reuse_count' \in [Tid -> Nat]
  BY DEF IInv, TypeOK, SameThreads
<1> QED
  BY <1>1, <1>2, SettledOK DEF SameThreads

-----------------------------------------------------------------------------
(* The operations of a thread on a sync variable. *)

LEMMA AcquireOK ==
  ASSUME IInv, NEW t \in Tid, NEW s \in Var, Acquire(t, s)
  PROVE  IInv' /\ Model!Acquire(t, s)
<1> DEFINE m == Mine(t)
           e == epoch'[t]
           c == Acquired(m, sync[s])
           r == MarkAcquired(m, sync[s])
<1>1. status[t] = "running" /\ s \in Sync /\ epoch' = epoch /\ SameThreads
  BY DEF Acquire, Running, Sync
<1>2. /\ Usable(m, sync[s]) /\ m.tid = t /\ m.reused = clock[t].reused
      /\ m = SetOwn(clock[t], e) /\ m.clk = [vc[t] EXCEPT ![t] = e]
      /\ e \in Nat /\ epoch[t] <= e /\ epoch' = [epoch EXCEPT ![t] = e]
  BY <1>1, BeginsWith
<1>3. clock' = [clock EXCEPT ![t] = c] /\ sync' = [sync EXCEPT ![s] = r]
  <2>1. MarkAcquired(m, sync[s]) = MarkAcquired(clock[t], sync[s])
    BY <1>2 DEF MarkAcquired, IInv, TypeOK
  <2> QED
    BY <2>1 DEF Acquire
<1> HIDE DEF m
<1>4. Follows(m, sync[s], c, r) /\ c.clk = Join(m.clk, sync[s].epoch) /\ r.epoch = sync[s].epoch
  BY <1>2, AcquiredOK
<1> HIDE DEF c, r, e
<1>5. Operates(t, s, e, c, r)
  BY <1>1, <1>2, <1>3, <1>4 DEF Operates
<1>6. IInv'
  BY <1>1, <1>5, SameThreadsOK
<1>7. /\ vc' = [vc EXCEPT ![t] = c.clk] /\ sc' = [sc EXCEPT ![s] = r.epoch]
      /\ sc[s] = sync[s].epoch
  BY <1>5, MapsTo
<1>8. sc' = sc
  BY <1>4, <1>7 DEF sc
<1>9. Model!Acquire(t, s)
  BY <1>1, <1>2, <1>4, <1>7, <1>8 DEF Model!Acquire, Model!Own, Join, vc, sc, e
<1> QED
  BY <1>6, <1>9

(* A release of any kind, to a variable or a slot, as a step of the clocks. *)
LEMMA ReleaseStep ==
  ASSUME IInv, NEW t \in Tid, NEW s \in Sync, status[t] = "running", Tick(t),
         clock' = [clock EXCEPT ![t] = Mine(t)],
         sync' = [sync EXCEPT ![s] = Released(Mine(t), @)]
  PROVE  /\ Operates(t, s, epoch[t] + 1, Mine(t), Released(Mine(t), sync[s]))
         /\ Model!Release(t, s)
<1> DEFINE m == Mine(t)
           e == epoch[t] + 1
           r == Released(m, sync[s])
<1>1. /\ Usable(m, sync[s]) /\ m = SetOwn(clock[t], e) /\ m.clk = [vc[t] EXCEPT ![t] = e]
      /\ e \in Nat /\ epoch[t] <= e /\ epoch' = [epoch EXCEPT ![t] = e]
  BY BeginsWith
<1>2. clock' = [clock EXCEPT ![t] = m] /\ sync' = [sync EXCEPT ![s] = r]
  OBVIOUS
<1> HIDE DEF m
<1>3. Follows(m, sync[s], m, r) /\ r.epoch = Join(sync[s].epoch, m.clk)
  BY <1>1, ReleasedOK
<1> HIDE DEF r, e
<1>4. Operates(t, s, e, m, r)
  BY <1>1, <1>2, <1>3 DEF Operates
<1>5. /\ vc' = [vc EXCEPT ![t] = m.clk] /\ sc' = [sc EXCEPT ![s] = r.epoch]
      /\ sc[s] = sync[s].epoch
  BY <1>4, MapsTo
<1>6. Model!Release(t, s)
  BY <1>1, <1>3, <1>5 DEF Model!Release, Model!OwnNext, Join, vc, sc, e
<1> QED
  BY <1>4, <1>6 DEF m, r, e

LEMMA ReleaseOK ==
  ASSUME IInv, NEW t \in Tid, NEW s \in Var, Release(t, s)
  PROVE  IInv' /\ Model!Release(t, s)
<1>1. /\ Operates(t, s, epoch[t] + 1, Mine(t), Released(Mine(t), sync[s]))
      /\ Model!Release(t, s)
  BY ReleaseStep DEF Release, Running, Sync
<1>2. SameThreads
  BY DEF Release
<1> QED
  BY <1>1, <1>2, SameThreadsOK

LEMMA ReleaseStoreOK ==
  ASSUME IInv, NEW t \in Tid, NEW s \in Var, ReleaseStore(t, s)
  PROVE  IInv' /\ Model!ReleaseStore(t, s)
<1> DEFINE m == Mine(t)
           e == epoch[t] + 1
           r == Stored(m, sync[s])
<1>1. status[t] = "running" /\ s \in Sync /\ Tick(t) /\ SameThreads
  BY DEF ReleaseStore, Running, Sync
<1>2. /\ Usable(m, sync[s]) /\ m = SetOwn(clock[t], e) /\ m.clk = [vc[t] EXCEPT ![t] = e]
      /\ e \in Nat /\ epoch[t] <= e /\ epoch' = [epoch EXCEPT ![t] = e]
  BY <1>1, BeginsWith
<1>3. clock' = [clock EXCEPT ![t] = m] /\ sync' = [sync EXCEPT ![s] = r]
  BY DEF ReleaseStore
<1> HIDE DEF m
<1>4. Follows(m, sync[s], m, r) /\ r.epoch = m.clk
  BY <1>2, StoredOK
<1> HIDE DEF r, e
<1>5. Operates(t, s, e, m, r)
  BY <1>1, <1>2, <1>3, <1>4 DEF Operates
<1>6. IInv'
  BY <1>1, <1>5, SameThreadsOK
<1>7. vc' = [vc EXCEPT ![t] = m.clk] /\ sc' = [sc EXCEPT ![s] = r.epoch]
  BY <1>5, MapsTo
<1>8. Model!ReleaseStore(t, s)
  BY <1>2, <1>4, <1>7 DEF Model!ReleaseStore, Model!OwnNext, vc, sc, e
<1> QED
  BY <1>6, <1>8

LEMMA AcquireReleaseOK ==
  ASSUME IInv, NEW t \in Tid, NEW s \in Var, AcquireRelease(t, s)
  PROVE  IInv' /\ Model!AcquireRelease(t, s)
<1> DEFINE m == Mine(t)
           e == epoch[t] + 1
           c == Acquired(m, sync[s])
           r == Stored(c, MarkAcquired(m, sync[s]))
<1>1. status[t] = "running" /\ s \in Sync /\ Tick(t) /\ SameThreads
  BY DEF AcquireRelease, Running, Sync
<1>2. /\ Usable(m, sync[s]) /\ m.tid = t /\ m.reused = clock[t].reused
      /\ m = SetOwn(clock[t], e) /\ m.clk = [vc[t] EXCEPT ![t] = e]
      /\ e \in Nat /\ epoch[t] <= e /\ epoch' = [epoch EXCEPT ![t] = e]
  BY <1>1, BeginsWith
<1>3. clock' = [clock EXCEPT ![t] = c] /\ sync' = [sync EXCEPT ![s] = r]
  <2>1. MarkAcquired(m, sync[s]) = MarkAcquired(clock[t], sync[s])
    BY <1>2 DEF MarkAcquired, IInv, TypeOK
  <2>2. clock' = [clock EXCEPT ![t] = c]
    BY DEF AcquireRelease
  <2>3. clock'[t] = c
    BY <2>2 DEF IInv, TypeOK
  <2>4. sync' = [sync EXCEPT ![s] = Stored(clock'[t], MarkAcquired(clock[t], sync[s]))]
    BY DEF AcquireRelease
  <2> HIDE DEF m, c
  <2> QED
    BY <2>1, <2>2, <2>3, <2>4
<1> HIDE DEF m
<1>4. Follows(m, sync[s], c, r) /\ c.clk = Join(m.clk, sync[s].epoch) /\ r.epoch = c.clk
  BY <1>2, AcquireStoredOK
<1> HIDE DEF c, r, e
<1>5. Operates(t, s, e, c, r)
  BY <1>1, <1>2, <1>3, <1>4 DEF Operates
<1>6. IInv'
  BY <1>1, <1>5, SameThreadsOK
<1>7. /\ vc' = [vc EXCEPT ![t] = c.clk] /\ sc' = [sc EXCEPT ![s] = r.epoch]
      /\ sc[s] = sync[s].epoch /\ vc'[t] = c.clk
  BY <1>5, MapsTo DEF vc
<1>8. Model!AcquireRelease(t, s)
  BY <1>2, <1>4, <1>7 DEF Model!AcquireRelease, Model!OwnNext, Join, vc, sc, e
<1> QED
  BY <1>6, <1>8

-----------------------------------------------------------------------------
(* The steps of threads that come and go. *)

LEMMA OnCreatedOK ==
  ASSUME IInv, NEW p \in Tid, NEW t \in Tid, OnCreated(p, t)
  PROVE  IInv' /\ Model!Release(p, t)
<1>1. /\ Operates(p, t, epoch[p] + 1, Mine(p), Released(Mine(p), sync[t]))
      /\ Model!Release(p, t)
  BY ReleaseStep DEF OnCreated, Running, Sync
<1>2. /\ status \in [Tid -> {"unused", "created", "running", "finished", "dead"}]
      /\ reuse_count \in [Tid -> Nat]
  BY DEF IInv, TypeOK
<1>3. /\ status' = [status EXCEPT ![t] = "created"] /\ status[t] \in {"unused", "dead"}
      /\ \/ status[t] = "unused" /\ reuse_count' = reuse_count
         \/ status[t] = "dead" /\ reuse_count' = [reuse_count EXCEPT ![t] = @ + 1]
      /\ UNCHANGED <<walker, next>>
  BY DEF OnCreated, Fresh, Reusable, Quiet
<1>4. /\ status' \in [Tid -> {"unused", "created", "running", "finished", "dead"}]
      /\ reuse_count' \in [Tid -> Nat]
      /\ \A u \in Tid : status'[u] = "running" =>
                         status[u] = "running" /\ reuse_count'[u] = reuse_count[u]
  BY <1>2, <1>3
<1>5. \A u \in Tid : Users(u) <= Users(u)'
  BY <1>2, <1>3 DEF Users
<1> QED
  BY <1>1, <1>3, <1>4, <1>5, SettledOK

LEMMA OnFinishedOK ==
  ASSUME IInv, NEW t \in Tid, OnFinished(t)
  PROVE  IInv' /\ Model!Release(t, t)
<1>1. clock'[t] = Mine(t)
  BY DEF OnFinished, IInv, TypeOK
<1>2. /\ Operates(t, t, epoch[t] + 1, Mine(t), Released(Mine(t), sync[t]))
      /\ Model!Release(t, t)
  BY <1>1, ReleaseStep DEF OnFinished, Running, Sync
<1>3. /\ status \in [Tid -> {"unused", "created", "running", "finished", "dead"}]
      /\ status' = [status EXCEPT ![t] = "finished"] /\ status[t] = "running"
      /\ reuse_count \in [Tid -> Nat] /\ UNCHANGED <<reuse_count, walker, next>>
  BY DEF IInv, TypeOK, OnFinished, Running, Quiet
<1>4. /\ status' \in [Tid -> {"unused", "created", "running", "finished", "dead"}]
      /\ reuse_count' \in [Tid -> Nat]
      /\ \A u \in Tid : status'[u] = "running" =>
                         status[u] = "running" /\ reuse_count'[u] = reuse_count[u]
      /\ \A u \in Tid : Users(u) <= Users(u)'
  BY <1>3 DEF Users
<1> QED
  BY <1>2, <1>3, <1>4, SettledOK

LEMMA OnJoinedOK ==
  ASSUME IInv, NEW p \in Tid, NEW t \in Tid, OnJoined(p, t)
  PROVE  IInv' /\ Model!AcquireReset(p, t)
<1> DEFINE m == Mine(p)
           e == epoch'[p]
           c == Acquired(m, sync[t])
<1>1. status[p] = "running" /\ t \in Sync /\ epoch' = epoch
  BY DEF OnJoined, Running, Sync
<1>2. /\ Usable(m, sync[t]) /\ m = SetOwn(clock[p], e) /\ m.clk = [vc[p] EXCEPT ![p] = e]
      /\ e \in Nat /\ epoch[p] <= e /\ epoch' = [epoch EXCEPT ![p] = e]
  BY <1>1, BeginsWith
<1>3. clock' = [clock EXCEPT ![p] = c] /\ sync' = [sync EXCEPT ![t] = NewSyncClock]
  BY DEF OnJoined
<1> HIDE DEF m
<1>4. Follows(m, sync[t], c, NewSyncClock) /\ c.clk = Join(m.clk, sync[t].epoch)
  BY <1>2, AcquiredOK, FollowsReset
<1> HIDE DEF c, e
<1>5. Operates(p, t, e, c, NewSyncClock)
  BY <1>1, <1>2, <1>3, <1>4 DEF Operates
<1>6. /\ status \in [Tid -> {"unused", "created", "running", "finished", "dead"}]
      /\ status' = [status EXCEPT ![t] = "dead"] /\ status[t] = "finished"
      /\ reuse_count \in [Tid -> Nat] /\ UNCHANGED <<reuse_count, walker, next>>
  BY DEF IInv, TypeOK, OnJoined, Quiet
<1>7. /\ status' \in [Tid -> {"unused", "created", "running", "finished", "dead"}]
      /\ reuse_count' \in [Tid -> Nat]
      /\ \A u \in Tid : status'[u] = "running" =>
                         status[u] = "running" /\ reuse_count'[u] = reuse_count[u]
      /\ \A u \in Tid : Users(u) <= Users(u)'
  BY <1>6 DEF Users
<1>8. IInv'
  BY <1>5, <1>6, <1>7, SettledOK
<1>9. /\ vc' = [vc EXCEPT ![p] = c.clk] /\ sc' = [sc EXCEPT ![t] = NewSyncClock.epoch]
      /\ sc[t] = sync[t].epoch
  BY <1>5, MapsTo
<1>10. NewSyncClock.epoch = Model!Never
  BY DEF NewSyncClock, Zero, Model!Never
<1>11. Model!AcquireReset(p, t)
  BY <1>1, <1>2, <1>4, <1>9, <1>10 DEF Model!AcquireReset, Model!Own, Join, vc, sc, e
<1> QED
  BY <1>8, <1>11

(* A thread that does nothing. *)
LEMMA EventOK ==
  ASSUME IInv, NEW t \in Tid, Event(t)
  PROVE  IInv' /\ Model!Event(t)
<1>1. /\ epoch' = [epoch EXCEPT ![t] = @ + 1]
      /\ UNCHANGED <<clock, sync, status, reuse_count, walker, next>>
  BY DEF Event, Tick, SameThreads
<1>2. TypeOK'
  BY <1>1 DEF IInv, TypeOK
<1>3. NoClockAhead'
  <2>1. \A i \in Tid : epoch[i] \in Nat /\ epoch'[i] \in Nat /\ epoch[i] <= epoch'[i]
    BY <1>1 DEF IInv, TypeOK
  <2>2. /\ \A u, i \in Tid : clock[u].clk[i] \in Nat
        /\ \A q \in Sync, i \in Tid : sync[q].epoch[i] \in Nat
    BY Fields DEF IInv, TypeOK
  <2> QED
    BY <1>1, <2>1, <2>2 DEF IInv, NoClockAhead
<1>4. Forms' /\ Marks' /\ Relations'
  BY <1>1 DEF IInv, Forms, Marks, Relations, Users
<1>5. Model!Event(t)
  BY <1>1 DEF Model!Event
<1> QED
  BY <1>1, <1>2, <1>3, <1>4, <1>5 DEF IInv

(* A sync clock is reset; a thread may be dead from then on.                 *)
LEMMA ResetOK ==
  ASSUME IInv, NEW s \in Sync, sync' = [sync EXCEPT ![s] = NewSyncClock],
         UNCHANGED <<epoch, clock, reuse_count, walker, next>>,
         \/ status' = status
         \/ \E t \in Tid : status[t] = "finished" /\ status' = [status EXCEPT ![t] = "dead"]
  PROVE  IInv' /\ Model!Reset(s)
<1>1. /\ Compact(NewSyncClock) /\ NewSyncClock.epoch = Zero /\ NewSyncClock \in SyncClocks
      /\ \A i \in Tid : NewSyncClock.reused[i] = 0 /\ Zero[i] = 0
      /\ NewSyncClock.storeTid = NoTid
      /\ \A c : WellFormed(c) => Related(c, NewSyncClock)
  BY NewSyncClockOK DEF Compact, Zero
<1>2. /\ sync' \in [Sync -> SyncClocks] /\ sync'[s] = NewSyncClock
      /\ \A q \in Sync \ {s} : sync'[q] = sync[q]
  BY <1>1 DEF IInv, TypeOK
<1>3. /\ status' \in [Tid -> {"unused", "created", "running", "finished", "dead"}]
      /\ \A u \in Tid : status'[u] = "running" <=> status[u] = "running"
  BY DEF IInv, TypeOK
<1>u. ASSUME NEW u \in Tid PROVE Users(u)' = Users(u) /\ Users(u) \in Nat
  BY DEF IInv, TypeOK, Users
<1>4. TypeOK'
  BY <1>2, <1>3 DEF IInv, TypeOK
<1>5. Forms'
  BY <1>1, <1>2 DEF IInv, Forms
<1>6. NoClockAhead'
  <2>1. \A i \in Tid : NewSyncClock.epoch[i] <= epoch[i]
    BY <1>1 DEF IInv, TypeOK
  <2> QED
    BY <1>2, <2>1 DEF IInv, NoClockAhead
<1>7. Marks'
  <2>1. ASSUME NEW u \in Tid, NEW q \in Sync
        PROVE  /\ sync'[q].reused[u] <= Users(u)'
               /\ sync'[q].storeTid = u => sync'[q].storeReused <= Users(u)'
    <3>1. CASE q = s
      BY <3>1, <1>1, <1>2, <1>u, SlotAssumption
    <3>2. CASE q # s
      BY <3>2, <1>2, <1>u DEF IInv, Marks
    <3> QED
      BY <3>1, <3>2
  <2>2. \A u \in Tid : status'[u] = "running" => clock'[u].reused = reuse_count'[u] + 1
    BY <1>3 DEF IInv, Marks
  <2> QED
    BY <2>1, <2>2 DEF Marks
<1>8. Relations'
  <2>1. ASSUME NEW u \in Tid, status[u] = "running"
        PROVE  /\ \A q \in Sync : Related(clock[u], sync'[q])
               /\ \A v \in Tid \ {u} : Covers(clock[v].clk, clock[u])
    BY <1>1, <1>2, <2>1 DEF IInv, Forms, Relations
  <2> QED
    BY <1>3, <2>1 DEF Relations
<1>9. Model!Reset(s)
  <2>1. sc' = [sc EXCEPT ![s] = Zero]
    BY <1>1, <1>2 DEF sc
  <2>2. Zero = Model!Never
    BY DEF Zero, Model!Never
  <2> QED
    BY <2>1, <2>2 DEF Model!Reset, sc
<1> QED
  BY <1>4, <1>5, <1>6, <1>7, <1>8, <1>9 DEF IInv

LEMMA OnFinishedDetachedOK ==
  ASSUME IInv, NEW t \in Tid, OnFinishedDetached(t)
  PROVE  IInv'
<1>1. /\ status' = [status EXCEPT ![t] = "dead"] /\ status[t] = "running"
      /\ UNCHANGED <<epoch, reuse_count, clock, sync, walker, next>>
  BY DEF OnFinishedDetached, Running, Quiet
<1>2. /\ status' \in [Tid -> {"unused", "created", "running", "finished", "dead"}]
      /\ \A u \in Tid : status'[u] = "running" => status[u] = "running"
  BY <1>1 DEF IInv, TypeOK
<1>3. TypeOK' /\ Forms' /\ NoClockAhead'
  BY <1>1, <1>2 DEF IInv, TypeOK, Forms, NoClockAhead
<1>4. Marks'
  <2>1. ASSUME NEW u \in Tid PROVE Users(u)' = Users(u)
    BY <1>1 DEF IInv, TypeOK, Users
  <2>2. ASSUME NEW u \in Tid, NEW q \in Sync
        PROVE  /\ sync'[q].reused[u] <= Users(u)'
               /\ sync'[q].storeTid = u => sync'[q].storeReused <= Users(u)'
    BY <2>1, <1>1 DEF IInv, Marks
  <2>3. \A u \in Tid : status'[u] = "running" => clock'[u].reused = reuse_count'[u] + 1
    BY <1>1, <1>2 DEF IInv, Marks
  <2> QED
    BY <2>2, <2>3 DEF Marks
<1>5. Relations'
  BY <1>1, <1>2 DEF IInv, Relations
<1> QED
  BY <1>1, <1>3, <1>4, <1>5 DEF IInv

(* A new thread starts with what was handed to it, and with marks of its own.*)
LEMMA OnStartedOK ==
  ASSUME IInv, NEW t \in Tid, OnStarted(t)
  PROVE  IInv' /\ Model!Begin(t, t)
<1> DEFINE e == epoch[t] + 1
           m == SetOwn(NewThreadClock(t, reuse_count[t]), e)
           c == Acquired(m, sync[t])
<1>1. /\ t \in Sync /\ status[t] = "created" /\ status' = [status EXCEPT ![t] = "running"]
      /\ epoch' = [epoch EXCEPT ![t] = e] /\ UNCHANGED <<reuse_count, walker, next>>
      /\ sync' = [sync EXCEPT ![t] = NewSyncClock]
  BY DEF OnStarted, Tick, Quiet, Sync
<1>2. /\ epoch[t] \in Nat /\ e \in Nat /\ epoch[t] < e /\ epoch'[t] = e
      /\ epoch' \in [Tid -> Nat] /\ \A i \in Tid \ {t} : epoch'[i] = epoch[i]
      /\ reuse_count[t] \in Nat /\ Tid \subseteq Nat
      /\ \A i \in Tid : epoch[i] \in Nat /\ epoch[i] <= epoch'[i]
  BY <1>1, Fields DEF IInv, TypeOK
<1>3. clock' = [clock EXCEPT ![t] = c]
  BY <1>2 DEF OnStarted
<1>4. /\ m.tid = t /\ m.reused = reuse_count[t] + 1 /\ m.last = 0 /\ m.n = t + 1
      /\ m.clk = [Zero EXCEPT ![t] = e] /\ m \in ThreadClocks
  BY <1>2 DEF SetOwn, NewThreadClock, ThreadClocks, Zero
<1> HIDE DEF m
<1>5. /\ m.clk \in [Tid -> Nat] /\ m.clk[t] = e /\ \A i \in Tid \ {t} : m.clk[i] = 0
      /\ WellFormed(m)
  BY <1>2, <1>4 DEF Zero, WellFormed
<1> HIDE DEF e
<1>6. ASSUME NEW q \in Sync
      PROVE  /\ sync[q].epoch[t] \in Nat /\ sync[q].epoch[t] < e
             /\ sync[q].reused[t] # m.reused
             /\ ~ (sync[q].storeTid = t /\ sync[q].storeReused = m.reused)
  <2>1. /\ sync[q].reused[t] \in Nat /\ sync[q].storeReused \in Nat
        /\ sync[q].epoch[t] \in Nat
    BY Fields DEF IInv, TypeOK
  <2>2. Users(t) = reuse_count[t]
    BY <1>1 DEF Users
  <2>3. /\ sync[q].reused[t] <= reuse_count[t] /\ sync[q].epoch[t] <= epoch[t]
        /\ sync[q].storeTid = t => sync[q].storeReused <= reuse_count[t]
    BY <2>2 DEF IInv, Marks, NoClockAhead
  <2> QED
    BY <2>1, <2>3, <1>2, <1>4
<1>7. Usable(m, sync[t])
  <2>1. sync[t].reused[t] # m.reused /\ ~ StoredBy(m, sync[t]) /\ sync[t].epoch[t] <= m.clk[t]
    BY <1>1, <1>2, <1>4, <1>5, <1>6 DEF StoredBy
  <2>2. Covers(sync[t].epoch, m)
    <3>1. \A i \in Tid : sync[t].epoch[i] \in Nat
      BY <1>1, Fields DEF IInv, TypeOK
    <3> QED
      BY <3>1, <1>4, <1>5 DEF Covers
  <2>3. Compact(sync[t])
    BY <1>1 DEF IInv, Forms
  <2> QED
    BY <2>1, <2>2, <2>3, <1>4, <1>5 DEF Usable, Related, Flagged, Owned
<1>8. Follows(m, sync[t], c, NewSyncClock) /\ c.clk = Join(m.clk, sync[t].epoch)
  BY <1>7, AcquiredOK, FollowsReset
<1> HIDE DEF c
<1>9. /\ WellFormed(c) /\ c \in ThreadClocks /\ c.tid = t /\ c.reused = m.reused
      /\ c.last = e \/ (c.last = 0 /\ c.clk = m.clk)
      /\ c.clk \in [Tid -> Nat]
  BY <1>4, <1>5, <1>8, Fields DEF Follows, WellFormed
<1>10. \A i \in Tid : /\ c.clk[i] \in {m.clk[i], sync[t].epoch[i]}
                      /\ sync[t].epoch[i] <= c.clk[i] /\ c.clk[i] \in Nat
  <2>1. sync[t].epoch \in [Tid -> Nat]
    BY <1>1, Fields DEF IInv, TypeOK
  <2> QED
    BY <2>1, <1>5, <1>8, <1>9, JoinIs
<1>11. /\ clock'[t] = c /\ \A u \in Tid \ {t} : clock'[u] = clock[u]
       /\ clock' \in [Tid -> ThreadClocks]
       /\ \A q \in Sync : sync'[q] = IF q = t THEN NewSyncClock ELSE sync[q]
       /\ status'[t] = "running" /\ \A u \in Tid \ {t} : status'[u] = status[u]
       /\ status' \in [Tid -> {"unused", "created", "running", "finished", "dead"}]
  BY <1>1, <1>3, <1>9 DEF IInv, TypeOK
<1>12. /\ Compact(NewSyncClock) /\ NewSyncClock \in SyncClocks
       /\ \A i \in Tid : NewSyncClock.reused[i] = 0 /\ NewSyncClock.epoch[i] = 0
       /\ NewSyncClock.storeTid = NoTid
       /\ \A d : WellFormed(d) => Related(d, NewSyncClock)
  BY NewSyncClockOK DEF Compact, Zero
<1>13. TypeOK' /\ Forms'
  <2>1. sync' \in [Sync -> SyncClocks]
    BY <1>1, <1>12 DEF IInv, TypeOK
  <2>2. TypeOK'
    BY <2>1, <1>1, <1>2, <1>9, <1>11 DEF IInv, TypeOK
  <2> QED
    BY <2>2, <1>9, <1>11, <1>12 DEF IInv, Forms
<1>14. NoClockAhead'
  <2>1. ASSUME NEW i \in Tid
        PROVE  /\ \A u \in Tid : clock'[u].clk[i] <= epoch'[i]
               /\ \A q \in Sync : sync'[q].epoch[i] <= epoch'[i]
    <3>1. /\ epoch[i] \in Nat /\ epoch'[i] \in Nat /\ epoch[i] <= epoch'[i]
          /\ m.clk[i] <= epoch'[i]
      BY <1>2, <1>5
    <3>2. /\ \A u \in Tid : clock[u].clk[i] <= epoch[i] /\ clock[u].clk[i] \in Nat
          /\ \A q \in Sync : sync[q].epoch[i] <= epoch[i] /\ sync[q].epoch[i] \in Nat
      BY Fields DEF IInv, TypeOK, NoClockAhead
    <3>3. c.clk[i] <= epoch'[i]
      BY <3>1, <3>2, <1>1, <1>10
    <3> QED
      BY <3>1, <3>2, <3>3, <1>11, <1>12
  <2> QED
    BY <2>1 DEF NoClockAhead
<1>15. Marks'
  <2>1. ASSUME NEW u \in Tid
        PROVE  Users(u) \in Nat /\ Users(u)' \in Nat /\ Users(u) <= Users(u)'
    BY <1>1, <1>2 DEF IInv, TypeOK, Users
  <2>2. ASSUME NEW u \in Tid, NEW q \in Sync
        PROVE  /\ sync'[q].reused[u] <= Users(u)'
               /\ sync'[q].storeTid = u => sync'[q].storeReused <= Users(u)'
    <3>1. CASE q = t
      BY <3>1, <2>1, <1>11, <1>12, SlotAssumption
    <3>2. CASE q # t
      <4>1. /\ sync[q].reused[u] <= Users(u) /\ sync[q].reused[u] \in Nat
            /\ sync[q].storeTid = u => sync[q].storeReused <= Users(u)
            /\ sync[q].storeReused \in Nat
        BY Fields DEF IInv, TypeOK, Marks
      <4> QED
        BY <3>2, <4>1, <2>1, <1>11
    <3> QED
      BY <3>1, <3>2
  <2>3. \A u \in Tid : status'[u] = "running" => clock'[u].reused = reuse_count'[u] + 1
    BY <1>1, <1>4, <1>9, <1>11 DEF IInv, Marks
  <2> QED
    BY <2>2, <2>3 DEF Marks
<1>16. ASSUME NEW v, v[t] \in Nat, v[t] <= e, \A i \in Tid : v[i] \in Nat
       PROVE  Covers(v, c)
  <2>1. CASE c.last = e
    BY <2>1, <1>2, <1>9, <1>16 DEF Covers
  <2>2. CASE c.last = 0 /\ c.clk = m.clk
    BY <2>2, <1>5, <1>9, <1>16 DEF Covers
  <2> QED
    BY <2>1, <2>2, <1>9
<1>17. Relations'
  <2>1. ASSUME NEW q \in Sync PROVE Related(c, sync'[q])
    <3>1. CASE q = t
      BY <3>1, <1>9, <1>11, <1>12
    <3>2. CASE q # t
      <4>1. Covers(sync[q].epoch, c)
        <5>1. \A i \in Tid : sync[q].epoch[i] \in Nat
          BY Fields DEF IInv, TypeOK
        <5>2. sync[q].epoch[t] <= e
          BY <1>2, <1>6
        <5> QED
          BY <5>1, <5>2, <1>16
      <4>2. sync[q].reused[t] # c.reused /\ ~ StoredBy(c, sync[q])
        BY <1>6, <1>9 DEF StoredBy
      <4> QED
        BY <3>2, <4>1, <4>2, <1>9, <1>11 DEF Related, Flagged, Owned
    <3> QED
      BY <3>1, <3>2
  <2>2. ASSUME NEW u \in Tid \ {t} PROVE Covers(clock[u].clk, c)
    <3>1. /\ \A i \in Tid : clock[u].clk[i] \in Nat
          /\ clock[u].clk[t] <= epoch[t]
      BY Fields DEF IInv, TypeOK, NoClockAhead
    <3> QED
      BY <3>1, <1>2, <1>16
  <2>3. ASSUME NEW u \in Tid \ {t}, status[u] = "running" PROVE Covers(c.clk, clock[u])
    <3>1. Covers(sync[t].epoch, clock[u]) /\ clock[u].tid = u
      BY <1>1, <2>3 DEF IInv, TypeOK, Relations, Related
    <3>2. clock[u].last \in Nat /\ \A i \in Tid : clock[u].clk[i] \in Nat /\ sync[t].epoch[i] \in Nat
      BY <1>1, Fields DEF IInv, TypeOK
    <3>3. SUFFICES ASSUME c.clk[u] > clock[u].last, NEW i \in Tid \ {u}
                   PROVE  clock[u].clk[i] <= c.clk[i]
      BY <3>1 DEF Covers
    <3>4. c.clk[u] = sync[t].epoch[u]
      BY <3>2, <3>3, <1>5, <1>10
    <3>5. clock[u].clk[i] <= sync[t].epoch[i]
      BY <3>1, <3>3, <3>4 DEF Covers
    <3> QED
      BY <3>2, <3>5, <1>10
  <2>4. ASSUME NEW u \in Tid \ {t}, status[u] = "running", NEW q \in Sync
        PROVE  Related(clock[u], sync'[q])
    <3>1. Related(clock[u], sync[q]) /\ WellFormed(clock[u])
      BY <2>4 DEF IInv, Relations, Forms
    <3> QED
      BY <3>1, <1>11, <1>12
  <2>5. ASSUME NEW u \in Tid \ {t}, status[u] = "running", NEW v \in Tid \ {u}
        PROVE  Covers(clock'[v].clk, clock[u])
    <3>1. CASE v = t
      BY <3>1, <2>3, <2>5, <1>11
    <3>2. CASE v # t
      BY <3>2, <2>5, <1>11 DEF IInv, Relations
    <3> QED
      BY <3>1, <3>2
  <2>6. ASSUME NEW u \in Tid, status'[u] = "running"
        PROVE  /\ \A q \in Sync : Related(clock'[u], sync'[q])
               /\ \A v \in Tid \ {u} : Covers(clock'[v].clk, clock'[u])
    <3>1. CASE u = t
      BY <3>1, <2>1, <2>2, <1>11
    <3>2. CASE u # t
      BY <3>2, <2>4, <2>5, <2>6, <1>11
    <3> QED
      BY <3>1, <3>2
  <2> QED
    BY <2>6 DEF Relations
<1>18. Model!Begin(t, t)
  <2>1. vc' = [vc EXCEPT ![t] = c.clk]
    BY <1>3, <1>9 DEF IInv, TypeOK, vc
  <2>2. sc' = [sc EXCEPT ![t] = Zero] /\ sc[t] = sync[t].epoch
    BY <1>1, NewSyncClockOK DEF IInv, TypeOK, sc
  <2>3. Zero = Model!Never
    BY DEF Zero, Model!Never
  <2> QED
    BY <2>1, <2>2, <2>3, <1>1, <1>4, <1>8 DEF Model!Begin, Join, vc, sc, e
<1> QED
  BY <1>1, <1>13, <1>14, <1>15, <1>17, <1>18 DEF IInv

-----------------------------------------------------------------------------
(* The invariant, and the theorems. *)

LEMMA InitOK == Init => IInv /\ Model!Init
<1> SUFFICES ASSUME Init PROVE IInv /\ Model!Init
  OBVIOUS
<1>1. /\ Zero \in [Tid -> Nat] /\ \A i \in Tid : Zero[i] = 0 /\ Zero = Model!Never
      /\ 0 \in Tid /\ Tid \subseteq Nat
  BY SlotAssumption DEF Zero, Model!Never, Tid
<1>2. /\ status = [t \in Tid |-> IF t = 0 THEN "running" ELSE "unused"]
      /\ epoch = [t \in Tid |-> IF t = 0 THEN 1 ELSE 0]
      /\ reuse_count = Zero /\ walker = NoTid /\ next = 0
      /\ sync = [s \in Sync |-> NewSyncClock]
      /\ clock = [t \in Tid |-> SetOwn(NewThreadClock(t, 0), epoch[t])]
  BY DEF Init
<1>3. /\ NewSyncClock \in SyncClocks /\ Compact(NewSyncClock) /\ NewSyncClock.epoch = Zero
      /\ NewSyncClock.storeTid = NoTid
      /\ \A i \in Tid : NewSyncClock.reused[i] = 0
      /\ \A c : WellFormed(c) => Related(c, NewSyncClock)
  BY NewSyncClockOK DEF Compact
<1>4. ASSUME NEW t \in Tid
      PROVE  /\ clock[t] \in ThreadClocks /\ clock[t].tid = t /\ clock[t].reused = 1
             /\ clock[t].last = 0 /\ clock[t].n = t + 1
             /\ clock[t].clk = [Zero EXCEPT ![t] = epoch[t]]
             /\ epoch[t] \in Nat
  <2> DEFINE e == epoch[t]
             m == SetOwn(NewThreadClock(t, 0), e)
  <2>1. e \in Nat /\ t \in Nat /\ clock[t] = m
    BY <1>1, <1>2
  <2> HIDE DEF e
  <2>2. /\ m.tid = t /\ m.reused = 1 /\ m.last = 0 /\ m.n = t + 1
        /\ m.clk = [Zero EXCEPT ![t] = e] /\ m \in ThreadClocks
    BY <2>1 DEF SetOwn, NewThreadClock, ThreadClocks, Zero
  <2> QED
    BY <2>1, <2>2 DEF e
<1>5. ASSUME NEW t \in Tid
      PROVE  \A i \in Tid : clock[t].clk[i] = IF i = t THEN epoch[t] ELSE 0
  BY <1>1, <1>4
<1>6. /\ clock \in [Tid -> ThreadClocks] /\ sync \in [Sync -> SyncClocks]
      /\ epoch \in [Tid -> Nat]
  BY <1>2, <1>3, <1>4
<1>7. TypeOK
  BY <1>1, <1>2, <1>4, <1>6 DEF TypeOK
<1>8. Forms
  <2>1. ASSUME NEW t \in Tid PROVE WellFormed(clock[t])
    <3>1. t \in Nat /\ \A i \in Tid : t + 1 <= i => i # t
      BY <1>1
    <3>2. \A i \in Tid : clock[t].n <= i => clock[t].clk[i] = 0
      BY <3>1, <1>4, <1>5
    <3>3. clock[t].reused = 1 /\ clock[t].tid = t /\ clock[t].n = t + 1
      BY <1>4
    <3>4. 0 < clock[t].reused /\ clock[t].tid < clock[t].n
      BY <3>1, <3>3
    <3>5. clock[t] \in ThreadClocks
      BY <1>4
    <3> QED
      BY <3>2, <3>4, <3>5 DEF WellFormed
  <2> QED
    BY <2>1, <1>2, <1>3 DEF Forms
<1>9. NoClockAhead
  BY <1>1, <1>2, <1>3, <1>4, <1>5 DEF NoClockAhead
<1>10. Marks
  <2>1. \A t \in Tid : Users(t) \in Nat /\ (status[t] = "running" => clock[t].reused = reuse_count[t] + 1)
    BY <1>1, <1>2, <1>4 DEF Users
  <2>2. ASSUME NEW t \in Tid, NEW s \in Sync
        PROVE  /\ sync[s].reused[t] <= Users(t)
               /\ sync[s].storeTid = t => sync[s].storeReused <= Users(t)
    <3>1. sync[s].reused[t] = 0 /\ sync[s].storeTid = NoTid
      BY <1>2, <1>3
    <3> QED
      BY <3>1, <2>1, SlotAssumption
  <2> QED
    BY <2>1, <2>2 DEF Marks
<1>11. Relations
  <2>1. ASSUME NEW t \in Tid, NEW s \in Sync PROVE Related(clock[t], sync[s])
    BY <1>2, <1>3, <1>8 DEF Forms
  <2>2. ASSUME NEW t \in Tid, NEW u \in Tid \ {t} PROVE Covers(clock[u].clk, clock[t])
    <3>1. clock[u].clk[t] = 0 /\ clock[t].last = 0 /\ clock[t].tid = t
      BY <1>4, <1>5
    <3> QED
      BY <3>1 DEF Covers
  <2> QED
    BY <2>1, <2>2 DEF Relations
<1>12. Model!Init
  <2>1. [t \in Tid |-> clock[t].clk] =
          [t \in Tid |-> [Model!Never EXCEPT ![t] = epoch[t]]]
    BY <1>1, <1>4
  <2>2. [s \in Sync |-> sync[s].epoch] = [s \in Sync |-> Model!Never]
    BY <1>1, <1>2, <1>3
  <2>3. epoch \in [Tid -> 0 .. 1]
    BY <1>2
  <2> QED
    BY <2>1, <2>2, <2>3 DEF Model!Init
<1> QED
  BY <1>2, <1>7, <1>8, <1>9, <1>10, <1>11, <1>12 DEF IInv

(* The steps of Next one by one: what each needs, and what it is in the      *)
(* model.                                                                    *)
LEMMA StepOK ==
  ASSUME IInv, [Next]_vars
  PROVE  IInv' /\ OperationsAgree /\ (Model!Next \/ UNCHANGED Model!vars)
<1> DEFINE Kept == IInv' /\ (Model!Next \/ UNCHANGED Model!vars)
<1>1. ASSUME NEW t \in Tid, NEW s \in Var
      PROVE  /\ Acquire(t, s) => Model!Acquire(t, s) /\ IInv'
             /\ Release(t, s) => Model!Release(t, s) /\ IInv'
             /\ ReleaseStore(t, s) => Model!ReleaseStore(t, s) /\ IInv'
             /\ AcquireRelease(t, s) => Model!AcquireRelease(t, s) /\ IInv'
  BY AcquireOK, ReleaseOK, ReleaseStoreOK, AcquireReleaseOK
<1>2. ASSUME NEW s \in Var, ResetVar(s) PROVE Model!Reset(s) /\ IInv'
  BY <1>2, ResetOK DEF ResetVar, SameThreads, Sync
<1>3. ASSUME NEW p \in Tid, NEW t \in Tid
      PROVE  /\ OnCreated(p, t) => Model!Release(p, t) /\ IInv'
             /\ OnJoined(p, t) => Model!AcquireReset(p, t) /\ IInv'
  BY OnCreatedOK, OnJoinedOK
<1>4. ASSUME NEW t \in Tid
      PROVE  /\ OnStarted(t) => Model!Begin(t, t) /\ IInv'
             /\ OnFinished(t) => Model!Release(t, t) /\ IInv'
             /\ Event(t) => Model!Event(t) /\ IInv'
  BY OnStartedOK, OnFinishedOK, EventOK
<1>5. ASSUME NEW t \in Tid, OnDetached(t) PROVE Model!Reset(t) /\ IInv'
  BY <1>5, ResetOK DEF OnDetached, Quiet, Sync
<1>6. OperationsAgree
  BY <1>1, <1>2, <1>3, <1>4, <1>5 DEF OperationsAgree
<1>7. CASE UNCHANGED vars
  <2>1. TypeOK' /\ Forms' /\ NoClockAhead'
    BY <1>7 DEF vars, IInv, TypeOK, Forms, NoClockAhead
  <2>2. Marks'
    BY <1>7 DEF vars, IInv, Marks, Users
  <2>3. Relations'
    BY <1>7 DEF vars, IInv, Relations
  <2>4. IInv'
    BY <2>1, <2>2, <2>3, <1>7 DEF vars, IInv
  <2>5. UNCHANGED Model!vars
    BY <1>7 DEF vars, Model!vars
  <2> QED
    BY <2>4, <2>5, <1>6
<1>8. CASE Next
  <2>1. ASSUME NEW t \in Tid, OnFinishedDetached(t) PROVE Kept
    BY <2>1, OnFinishedDetachedOK DEF OnFinishedDetached, Model!vars
  <2>2. ASSUME NEW t \in Tid,
               Event(t) \/ OnStarted(t) \/ OnFinished(t) \/ OnDetached(t)
        PROVE  Kept
    <3>1. t \in Sync
      BY DEF Sync
    <3> QED
      BY <2>2, <3>1, <1>4, <1>5 DEF Model!Next
  <2>3. ASSUME NEW t \in Tid, NEW s \in Var,
               Acquire(t, s) \/ Release(t, s) \/ ReleaseStore(t, s) \/ AcquireRelease(t, s)
        PROVE  Kept
    <3>1. s \in Sync
      BY DEF Sync
    <3> QED
      BY <2>3, <3>1, <1>1 DEF Model!Next
  <2>4. ASSUME NEW p \in Tid, NEW t \in Tid, OnCreated(p, t) \/ OnJoined(p, t)
        PROVE  Kept
    <3>1. t \in Sync
      BY DEF Sync
    <3> QED
      BY <2>4, <3>1, <1>3 DEF Model!Next
  <2>5. ASSUME NEW s \in Var, ResetVar(s) PROVE Kept
    <3>1. s \in Sync
      BY DEF Sync
    <3> QED
      BY <2>5, <3>1, <1>2 DEF Model!Next
  <2> HIDE DEF Kept
  <2>6. Kept
    BY <1>8, <2>1, <2>2, <2>3, <2>4, <2>5 DEF Next
  <2> QED
    BY <2>6, <1>6 DEF Kept
<1> QED
  BY <1>6, <1>7, <1>8

(* The relations between the clocks that the shortcuts rest on always hold.  *)
THEOREM Invariance == Spec => []IInv
<1>1. Init => IInv
  BY InitOK
<1>2. IInv /\ [Next]_vars => IInv'
  BY StepOK
<1> QED
  BY <1>1, <1>2, PTL DEF Spec

(* The clocks keep their types. *)
THEOREM TypeCorrect == Spec => []TypeOK
<1>1. IInv => TypeOK
  BY DEF IInv
<1> QED
  BY <1>1, Invariance, PTL

(* A flag means that the thread knows all that is not dirty. *)
THEOREM FlagsAreRight == Spec => []FlagMeansAcquired
<1>1. IInv => FlagMeansAcquired
  <2> SUFFICES ASSUME IInv, NEW t \in Tid, NEW s \in Sync,
                      Running(t), Repeated(clock[t], sync[s]),
                      NEW i \in Tid \ sync[s].dirty
               PROVE  sync[s].epoch[i] <= clock[t].clk[i]
    BY DEF FlagMeansAcquired
  <2>1. Flagged(clock[t], sync[s])
    BY DEF IInv, Relations, Related, Running
  <2> QED
    BY <2>1 DEF Repeated, Flagged
<1> QED
  BY <1>1, Invariance, PTL

(* What has heard of a thread since its last acquire knows what it knows.    *)
THEOREM OwnEntryIsEnough == Spec => []NothingNewSince
<1>1. IInv => NothingNewSince
  <2> SUFFICES ASSUME IInv, NEW t \in Tid, NEW s \in Sync,
                      Running(t), sync[s].epoch[t] > clock[t].last,
                      NEW i \in Tid \ {t}
               PROVE  clock[t].clk[i] <= sync[s].epoch[i]
    BY DEF NothingNewSince
  <2>1. Covers(sync[s].epoch, clock[t]) /\ clock[t].tid = t
    BY DEF IInv, TypeOK, Relations, Related, Running
  <2> QED
    BY <2>1 DEF Covers
<1> QED
  BY <1>1, Invariance, PTL

(* No clock has a time that its thread has not reached. *)
THEOREM TimesAreReached == Spec => []NoClockAhead
<1>1. IInv => NoClockAhead
  BY DEF IInv
<1> QED
  BY <1>1, Invariance, PTL

(* Nobody knows of a thread that starts. *)
THEOREM StartsUnknown == Spec => NewThreadIsUnknown
<1> DEFINE A == \A t \in Tid : status[t] = "created" /\ status'[t] = "running" =>
                  /\ \A u \in Tid \ {t} : clock[u].clk[t] < epoch'[t]
                  /\ \A s \in Sync : sync[s].epoch[t] < epoch'[t]
<1>1. IInv /\ [Next]_vars => A
  <2> SUFFICES ASSUME IInv, [Next]_vars, NEW t \in Tid,
                      status[t] = "created", status'[t] = "running"
               PROVE  /\ \A u \in Tid \ {t} : clock[u].clk[t] < epoch'[t]
                      /\ \A s \in Sync : sync[s].epoch[t] < epoch'[t]
    OBVIOUS
  <2>1. status \in [Tid -> {"unused", "created", "running", "finished", "dead"}]
        /\ epoch \in [Tid -> Nat]
    BY DEF IInv, TypeOK
  <2>2. \E u \in Tid : OnStarted(u) /\ status' = [status EXCEPT ![u] = "running"]
    BY <2>1 DEF Next, vars, SameThreads, Event, Acquire, Release, ReleaseStore,
                AcquireRelease, ResetVar, OnCreated, OnStarted, OnFinished,
                OnFinishedDetached, OnJoined, OnDetached
  <2>3. epoch' = [epoch EXCEPT ![t] = epoch[t] + 1]
    BY <2>1, <2>2 DEF OnStarted, Tick
  <2>4. epoch'[t] = epoch[t] + 1 /\ epoch[t] \in Nat
    BY <2>1, <2>3
  <2>5. /\ \A u \in Tid : clock[u].clk[t] \in Nat /\ clock[u].clk[t] <= epoch[t]
        /\ \A s \in Sync : sync[s].epoch[t] \in Nat /\ sync[s].epoch[t] <= epoch[t]
    BY Fields DEF IInv, TypeOK, NoClockAhead
  <2> QED
    BY <2>4, <2>5
<1>2. IInv /\ [Next]_vars => [A]_vars
  BY <1>1
<1> QED
  BY <1>2, Invariance, PTL DEF Spec, NewThreadIsUnknown

(* Every operation does what it does with plain vector clocks. *)
THEOREM ShortcutsAgree == Spec => ImplementsClockModel
<1>1. Init => Model!Init
  BY InitOK
<1>2. IInv /\ [Next]_vars => [OperationsAgree]_vars
  BY StepOK
<1> QED
  BY <1>1, <1>2, Invariance, PTL DEF Spec, ImplementsClockModel

(* The clocks implement the simple model. *)
THEOREM Implementation == Spec => Model!Spec
<1>1. Init => Model!Init
  BY InitOK
<1>2. IInv /\ [Next]_vars => [Model!Next]_(Model!vars)
  BY StepOK
<1> QED
  BY <1>1, <1>2, Invariance, PTL DEF Spec, Model!Spec

(* What the refinement is worth: ClockModel keeps its promises, so a thread    *)
(* forgets nothing it knows, and no clock is ahead of its thread.            *)
THEOREM KnowledgeIsKept ==
  Spec => []Model!Reached /\ [][Model!NothingForgotten]_(Model!vars)
<1>1. ASSUME IInv PROVE Model!Reached
  BY <1>1 DEF IInv, NoClockAhead, Model!Reached
<1>2. ASSUME IInv, IInv', [Model!Next]_(Model!vars)
      PROVE  [Model!NothingForgotten]_(Model!vars)
  <2> DEFINE V == [u \in Tid |-> clock[u].clk]
             S == [s \in Sync |-> sync[s].epoch]
             Kept(u) == \A i \in Tid : V[u][i] <= V'[u][i]
  <2>1. /\ epoch \in [Tid -> Nat]
        /\ V \in [Tid -> [Tid -> Nat]] /\ S \in [Sync -> [Tid -> Nat]]
        /\ \A u, i \in Tid : V[u][i] <= epoch[i]
    BY <1>2, Fields DEF IInv, TypeOK, NoClockAhead
  <2>2. ASSUME NEW t \in Tid, NEW X, V' = [V EXCEPT ![t] = X]
        PROVE  /\ \A u \in Tid \ {t} : Kept(u)
               /\ (\A i \in Tid : V[t][i] <= X[i]) => Kept(t)
    <3> HIDE DEF V
    <3>1. V'[t] = X /\ \A u \in Tid \ {t} : V'[u] = V[u]
      BY <2>1, <2>2
    <3> QED
      BY <2>1, <3>1
  <2>3. ASSUME NEW t \in Tid,
               \/ UNCHANGED epoch
               \/ epoch' = [epoch EXCEPT ![t] = @ + 1]
        PROVE  \A u \in Tid : epoch[u] <= epoch'[u]
    BY <2>1, <2>3
  <2>4. ASSUME NEW t \in Tid
        PROVE  LET own  == [V[t] EXCEPT ![t] = epoch[t]]
                   ticked == [V[t] EXCEPT ![t] = epoch[t] + 1]
               IN  /\ own \in [Tid -> Nat] /\ ticked \in [Tid -> Nat]
                   /\ \A i \in Tid : V[t][i] <= own[i] /\ V[t][i] <= ticked[i]
    <3> HIDE DEF V
    <3>1. V[t] \in [Tid -> Nat]
      BY <2>1
    <3> QED
      BY <2>1, <3>1
  <2>5. ASSUME NEW t \in Tid, NEW s \in Sync, NEW v \in [Tid -> Nat],
               \A i \in Tid : V[t][i] <= v[i]
        PROVE  \A i \in Tid : V[t][i] <= Join(v, S[s])[i]
    <3> HIDE DEF V, S
    <3>1. S[s] \in [Tid -> Nat] /\ V[t] \in [Tid -> Nat]
      BY <2>1
    <3>2. \A i \in Tid : /\ v[i] <= Join(v, S[s])[i]
                          /\ Join(v, S[s])[i] \in Nat
      BY <3>1, JoinIs
    <3>3. \A i \in Tid : V[t][i] \in Nat /\ v[i] \in Nat
      BY <3>1
    <3> QED
      BY <2>5, <3>2, <3>3
  <2>6. ASSUME NEW t \in Tid, NEW s \in Sync,
               \/ Model!Acquire(t, s) \/ Model!AcquireReset(t, s)
               \/ Model!Release(t, s) \/ Model!ReleaseStore(t, s)
               \/ Model!AcquireRelease(t, s)
        PROVE  Model!NothingForgotten
    <3> DEFINE own  == [V[t] EXCEPT ![t] = epoch[t]]
               ticked == [V[t] EXCEPT ![t] = epoch[t] + 1]
    <3>1. \E X \in {Join(own, S[s]), ticked, Join(ticked, S[s])} :
            V' = [V EXCEPT ![t] = X]
      BY <2>6 DEF Model!Acquire, Model!AcquireReset, Model!Release,
         Model!ReleaseStore, Model!AcquireRelease, Model!Own, Model!OwnNext, Join
    <3>2. UNCHANGED epoch \/ epoch' = [epoch EXCEPT ![t] = @ + 1]
      BY <2>6 DEF Model!Acquire, Model!AcquireReset, Model!Release,
         Model!ReleaseStore, Model!AcquireRelease
    <3>3. /\ own \in [Tid -> Nat] /\ ticked \in [Tid -> Nat]
          /\ \A i \in Tid : V[t][i] <= own[i] /\ V[t][i] <= ticked[i]
      BY <2>4
    <3> HIDE DEF V, S, own, ticked
    <3>4. \A u \in Tid : \A i \in Tid : V[u][i] <= V'[u][i]
      <4>1. PICK X \in {Join(own, S[s]), ticked, Join(ticked, S[s])} :
              V' = [V EXCEPT ![t] = X]
        BY <3>1
      <4>2. \A i \in Tid : V[t][i] <= X[i]
        BY <2>5, <3>3, <4>1
      <4> QED
        BY <2>2, <4>1, <4>2
    <3> QED
      BY <2>3, <3>2, <3>4 DEF V, Model!NothingForgotten
  <2>7. ASSUME NEW t \in Tid, NEW s \in Sync, Model!Begin(t, s)
        PROVE  Model!NothingForgotten
    <3>1. \E X : V' = [V EXCEPT ![t] = X]
      BY <2>7 DEF Model!Begin
    <3>2. \A u \in Tid \ {t} : Kept(u)
      BY <2>2, <3>1
    <3>3. \A u \in Tid : epoch[u] <= epoch'[u]
      BY <2>3, <2>7 DEF Model!Begin
    <3> QED
      BY <2>7, <3>2, <3>3 DEF Model!NothingForgotten
  <2>8. ASSUME NEW t \in Tid, NEW i \in Tid, Model!Learn(t, i)
        PROVE  Model!NothingForgotten
    <3> DEFINE X == [V[t] EXCEPT ![i] = epoch[i]]
    <3>1. V' = [V EXCEPT ![t] = X] /\ UNCHANGED epoch
      BY <2>8 DEF Model!Learn
    <3>2. \A j \in Tid : V[t][j] <= X[j]
      <4> HIDE DEF V
      <4>1. V[t] \in [Tid -> Nat]
        BY <2>1
      <4> QED
        BY <2>1, <4>1
    <3> HIDE DEF V, X
    <3>3. \A u \in Tid : \A j \in Tid : V[u][j] <= V'[u][j]
      BY <2>2, <3>1, <3>2
    <3> QED
      BY <2>3, <3>1, <3>3 DEF V, Model!NothingForgotten
  <2>9. ASSUME UNCHANGED V,
               \/ UNCHANGED epoch
               \/ \E t \in Tid : epoch' = [epoch EXCEPT ![t] = @ + 1]
        PROVE  Model!NothingForgotten
    <3>1. \A u \in Tid : epoch[u] <= epoch'[u]
      BY <2>1, <2>3, <2>9
    <3>2. \A u \in Tid : Kept(u)
      <4> HIDE DEF V
      <4> QED
        BY <2>1, <2>9
    <3> QED
      BY <3>1, <3>2 DEF Model!NothingForgotten
  <2> QED
    BY <1>2, <2>6, <2>7, <2>8, <2>9
       DEF Model!Next, Model!Event, Model!Reset, Model!vars
<1> QED
  BY <1>1, <1>2, Invariance, Implementation, PTL DEF Model!Spec
=============================================================================
