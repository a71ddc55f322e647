--------------------------- MODULE JobQueueProofs ---------------------------
(***************************************************************************)
(* Proofs about the job queue and its file, for any number of jobs and of  *)
(* stops.  First what the operators of the file and of the queue keep and  *)
(* order; then who is where, which no record bears on; then the list and   *)
(* the file.                                                               *)
(***************************************************************************)
EXTENDS JobQueue, FiniteSetTheorems, SequenceTheorems, TLAPS

-----------------------------------------------------------------------------
(* Any finite set of naturals is counted off in order, in one way.         *)

Increasing(f) == \A m, n \in DOMAIN f : m < n => f[m] < f[n]

LEMMA CountedOff ==
  ASSUME NEW I, I \subseteq Nat, IsFiniteSet(I)
  PROVE  \E f \in [1..Cardinality(I) -> I] : Increasing(f)
<1> DEFINE UpTo(i) == {j \in I : j <= i}
           N == Cardinality(I)
<1>1. N \in Nat /\ IsFiniteSet(1..N) /\ Cardinality(1..N) = N
  BY FS_CardinalityType, FS_Interval
<1>2. ASSUME NEW i \in I
      PROVE  /\ IsFiniteSet(UpTo(i)) /\ i \in UpTo(i)
             /\ Cardinality(UpTo(i)) \in 1..N
  <2>1. UpTo(i) \in SUBSET I /\ i \in UpTo(i)
    OBVIOUS
  <2>2. IsFiniteSet(UpTo(i)) /\ Cardinality(UpTo(i)) <= N
    BY <2>1, FS_Subset
  <2>3. Cardinality(UpTo(i)) \in Nat /\ Cardinality(UpTo(i)) # 0
    BY <2>1, <2>2, FS_CardinalityType, FS_EmptySet
  <2>4. QED
    BY <1>1, <2>1, <2>2, <2>3
<1>nat. \A n \in 1..N : n \in Nat
  BY <1>1
<1>3. ASSUME NEW i \in I, NEW j \in I, i < j
      PROVE  Cardinality(UpTo(i)) < Cardinality(UpTo(j))
  <2>0. i \in Nat /\ j \in Nat
    OBVIOUS
  <2>1. UpTo(i) \in SUBSET UpTo(j) /\ j \in UpTo(j) /\ j \notin UpTo(i)
    <3>1. \A k \in I : k \in Nat /\ (k <= i => k <= j)
      BY <1>3, <2>0
    <3>2. j <= j /\ ~(j <= i)
      BY <1>3, <2>0
    <3>3. QED
      BY <3>1, <3>2
  <2>2. /\ Cardinality(UpTo(i)) <= Cardinality(UpTo(j))
        /\ Cardinality(UpTo(i)) # Cardinality(UpTo(j))
    BY <1>2, <2>1, FS_Subset
  <2>3. Cardinality(UpTo(i)) \in Nat /\ Cardinality(UpTo(j)) \in Nat
    <3> HIDE DEF UpTo, N
    <3>1. Cardinality(UpTo(i)) \in 1..N /\ Cardinality(UpTo(j)) \in 1..N
      BY <1>2
    <3>2. QED
      BY <1>nat, <3>1
  <2>4. QED
    BY <2>2, <2>3
<1>4. PICK r : r = [i \in I |-> Cardinality(UpTo(i))]
  OBVIOUS
<1> HIDE DEF UpTo, N
<1>5. /\ r \in [I -> 1..N] /\ \A i, j \in I : i < j => r[i] < r[j]
  BY <1>2, <1>3, <1>4
<1>6. \A i, j \in I : r[i] = r[j] => i = j
  <2> SUFFICES ASSUME NEW i \in I, NEW j \in I, i # j
               PROVE  r[i] # r[j]
    OBVIOUS
  <2>1. i \in Nat /\ j \in Nat /\ r[i] \in Nat /\ r[j] \in Nat
    BY <1>1, <1>5
  <2>2. i < j \/ j < i
    BY <2>1
  <2>3. QED
    BY <1>5, <2>1, <2>2
<1>7. r \in Injection(I, 1..N)
  BY <1>5, <1>6 DEF Injection, IsInjective
<1>8. r \in Surjection(I, 1..N)
  BY <1>1, <1>7, FS_Injection DEF N
<1>9. \A n \in 1..N : \E i \in I : r[i] = n
  BY <1>8 DEF Surjection
<1>10. PICK f : f = [n \in 1..N |-> CHOOSE i \in I : r[i] = n]
  OBVIOUS
<1>11. f \in [1..N -> I] /\ \A n \in 1..N : r[f[n]] = n
  BY <1>9, <1>10
<1>12. ASSUME NEW m \in 1..N, NEW n \in 1..N, m < n
       PROVE  f[m] < f[n]
  <2>1. f[m] \in I /\ f[n] \in I /\ r[f[m]] = m /\ r[f[n]] = n
    BY <1>11
  <2>2. f[m] \in Nat /\ f[n] \in Nat /\ m # n /\ ~(n < m)
    <3>1. m \in Nat /\ n \in Nat
      BY <1>nat
    <3>2. m # n /\ ~(n < m)
      BY <1>12, <3>1
    <3>3. QED
      BY <2>1, <3>2
  <2>3. f[m] # f[n] /\ ~(f[n] < f[m])
    BY <1>5, <2>1, <2>2
  <2>4. QED
    BY <2>2, <2>3
<1>13. Increasing(f)
  BY <1>11, <1>12 DEF Increasing
<1>14. QED
  BY <1>11, <1>13 DEF N

LEMMA CountsAll ==
  ASSUME NEW I, I \subseteq Nat, IsFiniteSet(I),
         NEW f \in [1..Cardinality(I) -> I], Increasing(f)
  PROVE  \A i \in I : \E n \in 1..Cardinality(I) : f[n] = i
<1> DEFINE N == Cardinality(I)
<1>1. N \in Nat /\ IsFiniteSet(1..N) /\ Cardinality(1..N) = N
  BY FS_CardinalityType, FS_Interval
<1> HIDE DEF N
<1>2. ASSUME NEW m \in 1..N, NEW n \in 1..N, m # n
      PROVE  f[m] # f[n]
  <2>1. f[m] \in Nat /\ f[n] \in Nat /\ DOMAIN f = 1..N
    BY DEF N
  <2>2. m < n \/ n < m
    BY <1>1, <1>2
  <2>3. QED
    BY <2>1, <2>2 DEF Increasing
<1>3. f \in Injection(1..N, I)
  BY <1>2 DEF Injection, IsInjective, N
<1>4. f \in Surjection(1..N, I)
  BY <1>1, <1>3, FS_Injection DEF N
<1>5. QED
  BY <1>4 DEF Surjection, N

LEMMA MaxIsLargest ==
  ASSUME NEW I, I \subseteq Nat, IsFiniteSet(I), I # {}
  PROVE  Max(I) \in I /\ \A i \in I : i <= Max(I)
<1> DEFINE N == Cardinality(I)
<1>1. N \in Nat /\ N # 0
  BY FS_CardinalityType, FS_EmptySet
<1>2. PICK f \in [1..N -> I] : Increasing(f)
  BY CountedOff
<1>3. \A i \in I : \E n \in 1..N : f[n] = i
  BY <1>2, CountsAll
<1> HIDE DEF N
<1>4. f[N] \in I
  BY <1>1
<1>5. ASSUME NEW i \in I
      PROVE  f[N] >= i
  <2>1. PICK n \in 1..N : f[n] = i
    BY <1>3
  <2>2. n = N \/ (n < N /\ N \in DOMAIN f /\ n \in DOMAIN f)
    BY <1>1
  <2>3. f[N] \in Nat /\ i \in Nat
    BY <1>4
  <2>4. QED
    BY <1>2, <2>1, <2>2, <2>3 DEF Increasing
<1>6. \E x \in I : \A y \in I : x >= y
  BY <1>4, <1>5
<1>7. Max(I) \in I /\ \A y \in I : Max(I) >= y
  BY <1>6 DEF Max
<1>8. QED
  BY <1>7

-----------------------------------------------------------------------------
(* What is kept of a sequence.                                             *)

LEMMA KeptIs ==
  ASSUME NEW X, NEW s \in Seq(X), NEW I, I \subseteq DOMAIN s
  PROVE  /\ Kept(s, I) \in Seq(X)
         /\ \E at \in [DOMAIN Kept(s, I) -> I] :
              /\ \A n \in DOMAIN Kept(s, I) : Kept(s, I)[n] = s[at[n]]
              /\ \A m, n \in DOMAIN Kept(s, I) : m < n => at[m] < at[n]
              /\ \A i \in I : \E n \in DOMAIN Kept(s, I) : at[n] = i
<1> DEFINE N == Cardinality(I)
           t == Kept(s, I)
<1>1. Len(s) \in Nat /\ DOMAIN s = 1..Len(s) /\ s \in [1..Len(s) -> X]
  BY LenProperties
<1>2. I \subseteq Nat /\ IsFiniteSet(I)
  <2>1. IsFiniteSet(1..Len(s)) /\ I \in SUBSET (1..Len(s))
    BY <1>1, FS_Interval
  <2>2. QED
    BY <1>1, <2>1, FS_Subset
<1>3. N \in Nat
  BY <1>2, FS_CardinalityType
<1>4. PICK at : at = CHOOSE f \in [1..N -> I] :
                      \A m, n \in DOMAIN f : m < n => f[m] < f[n]
  OBVIOUS
<1>5. at \in [1..N -> I] /\ Increasing(at)
  BY <1>2, <1>4, CountedOff DEF Increasing
<1>6. t = [n \in 1..N |-> s[at[n]]]
  BY <1>4 DEF Kept
<1>7. \A i \in I : \E n \in 1..N : at[n] = i
  BY <1>2, <1>5, CountsAll
<1>8. \A n \in 1..N : s[at[n]] \in X
  BY <1>1, <1>5
<1> HIDE DEF N, t
<1>9. t \in Seq(X) /\ DOMAIN t = 1..N
  BY <1>3, <1>6, <1>8
<1>10. QED
  BY <1>5, <1>6, <1>7, <1>9 DEF t, Increasing

LEMMA KeptLines ==
  ASSUME NEW X, NEW s \in Seq(X), NEW I, I \subseteq DOMAIN s
  PROVE  /\ Kept(s, I) \in Seq(X) /\ ToSet(Kept(s, I)) = {s[i] : i \in I}
         /\ OncePerId(s) => OncePerId(Kept(s, I))
         /\ \A m, n \in I : m < n => Ahead(Kept(s, I), s[m].id, s[n].id)
         /\ \A m, n \in DOMAIN Kept(s, I) :
              m < n => Ahead(s, Kept(s, I)[m].id, Kept(s, I)[n].id)
<1>1. PICK t : t = Kept(s, I)
  OBVIOUS
<1>2. /\ t \in Seq(X)
      /\ \E at \in [DOMAIN t -> I] :
           /\ \A n \in DOMAIN t : t[n] = s[at[n]]
           /\ \A m, n \in DOMAIN t : m < n => at[m] < at[n]
           /\ \A i \in I : \E n \in DOMAIN t : at[n] = i
  BY <1>1, KeptIs
<1>3. PICK at \in [DOMAIN t -> I] :
        /\ \A n \in DOMAIN t : t[n] = s[at[n]]
        /\ \A m, n \in DOMAIN t : m < n => at[m] < at[n]
        /\ \A i \in I : \E n \in DOMAIN t : at[n] = i
  BY <1>2
<1>4. DOMAIN t \subseteq Nat /\ DOMAIN s \subseteq Nat
  BY <1>2, LenProperties
<1>5. ToSet(t) = {s[i] : i \in I}
  BY <1>3 DEF ToSet
<1>6. ASSUME OncePerId(s), NEW m \in DOMAIN t, NEW n \in DOMAIN t, t[m].id = t[n].id
      PROVE  m = n
  <2>1. at[m] \in DOMAIN s /\ at[n] \in DOMAIN s /\ t[m] = s[at[m]] /\ t[n] = s[at[n]]
    BY <1>3
  <2>2. at[m] = at[n]
    BY <1>6, <2>1 DEF OncePerId
  <2>3. ~(m < n) /\ ~(n < m)
    BY <1>3, <1>4, <2>1, <2>2
  <2>4. QED
    BY <1>4, <2>3
<1>7. ASSUME NEW m \in I, NEW n \in I, m < n
      PROVE  Ahead(t, s[m].id, s[n].id)
  <2>1. PICK k, l \in DOMAIN t : at[k] = m /\ at[l] = n
    BY <1>3
  <2>2. ~(l < k) /\ k # l
    BY <1>3, <1>4, <1>7, <2>1
  <2>3. k < l /\ t[k] = s[m] /\ t[l] = s[n]
    BY <1>3, <1>4, <2>1, <2>2
  <2>4. QED
    BY <2>3 DEF Ahead
<1>8. ASSUME NEW m \in DOMAIN t, NEW n \in DOMAIN t, m < n
      PROVE  Ahead(s, t[m].id, t[n].id)
  <2>1. at[m] \in DOMAIN s /\ at[n] \in DOMAIN s /\ at[m] < at[n]
    BY <1>3, <1>8
  <2>2. QED
    BY <1>3, <2>1 DEF Ahead
<1>9. OncePerId(s) => OncePerId(t)
  BY <1>6 DEF OncePerId
<1>10. QED
  BY <1>1, <1>2, <1>5, <1>7, <1>8, <1>9

-----------------------------------------------------------------------------
(* Sequences of records, as the file and the history are: which ids they   *)
(* hold, once each, and which comes ahead of which.                        *)

IdsOf(jobs) == {job.id : job \in ToSet(jobs)}

RecordsOf(ids, state) == [n \in DOMAIN ids |-> [id |-> ids[n], state |-> state]]

Distinct(ids) == \A m, n \in DOMAIN ids : ids[m] = ids[n] => m = n

Precedes(ids, a, b) ==
  \E m, n \in DOMAIN ids : m < n /\ ids[m] = a /\ ids[n] = b

LEMMA IdsAre ==
  ASSUME NEW jobs
  PROVE  /\ IdsOf(jobs) = {jobs[n].id : n \in DOMAIN jobs}
         /\ QueuedIn(jobs) = {job.id : job \in {j \in ToSet(jobs) : j.state = "Queued"}}
         /\ OncePerId(jobs) =>
              \A j, k \in ToSet(jobs) : j.id = k.id => j = k
BY DEF IdsOf, QueuedIn, ToSet, OncePerId

LEMMA Joined ==
  ASSUME NEW X, NEW s \in Seq(X), NEW t \in Seq(X)
  PROVE  /\ s \o t \in Seq(X) /\ Len(s) \in Nat /\ Len(t) \in Nat
         /\ DOMAIN s = 1..Len(s) /\ DOMAIN t = 1..Len(t)
         /\ DOMAIN (s \o t) = 1..(Len(s) + Len(t))
         /\ \A n \in DOMAIN s : n \in DOMAIN (s \o t) /\ (s \o t)[n] = s[n]
         /\ \A n \in DOMAIN t :
              Len(s) + n \in DOMAIN (s \o t) /\ (s \o t)[Len(s) + n] = t[n]
         /\ \A n \in DOMAIN (s \o t) :
              n \in DOMAIN s \/ \E k \in DOMAIN t : n = Len(s) + k
         /\ ToSet(s \o t) = ToSet(s) \cup ToSet(t)
<1> DEFINE u == s \o t
<1>1. /\ u \in Seq(X) /\ Len(u) = Len(s) + Len(t) /\ Len(s) \in Nat /\ Len(t) \in Nat
      /\ DOMAIN s = 1..Len(s) /\ DOMAIN t = 1..Len(t) /\ DOMAIN u = 1..Len(u)
      /\ \A n \in 1..(Len(s) + Len(t)) : u[n] = IF n <= Len(s) THEN s[n] ELSE t[n - Len(s)]
  BY ConcatProperties, LenProperties
<1> HIDE DEF u
<1>2. \A n \in DOMAIN s : n \in DOMAIN u /\ u[n] = s[n]
  BY <1>1
<1>3. \A n \in DOMAIN t : Len(s) + n \in DOMAIN u /\ u[Len(s) + n] = t[n]
  BY <1>1
<1>4. ASSUME NEW n \in DOMAIN u
      PROVE  n \in DOMAIN s \/ \E k \in DOMAIN t : n = Len(s) + k
  <2>1. n \in DOMAIN s \/ (n - Len(s) \in DOMAIN t /\ n = Len(s) + (n - Len(s)))
    BY <1>1
  <2>2. QED
    BY <2>1
<1>5. ToSet(u) = ToSet(s) \cup ToSet(t)
  BY <1>2, <1>3, <1>4 DEF ToSet
<1>6. QED
  BY <1>1, <1>2, <1>3, <1>4, <1>5 DEF u

LEMMA JoinedLines ==
  ASSUME NEW X, NEW s \in Seq(X), NEW t \in Seq(X)
  PROVE  /\ OncePerId(s) /\ OncePerId(t) /\ IdsOf(s) \cap IdsOf(t) = {}
              => OncePerId(s \o t)
         /\ \A a, b : Ahead(s, a, b) \/ Ahead(t, a, b) => Ahead(s \o t, a, b)
         /\ \A a \in IdsOf(s), b \in IdsOf(t) : Ahead(s \o t, a, b)
<1> DEFINE u == s \o t
           k == Len(s)
<1>1. /\ k \in Nat /\ DOMAIN s \subseteq Nat /\ DOMAIN t \subseteq Nat \ {0}
      /\ \A n \in DOMAIN s : n <= k
      /\ \A n \in DOMAIN s : n \in DOMAIN u /\ u[n] = s[n]
      /\ \A n \in DOMAIN t : k + n \in DOMAIN u /\ u[k + n] = t[n]
      /\ \A n \in DOMAIN u : n \in DOMAIN s \/ \E l \in DOMAIN t : n = k + l
  BY Joined
<1>2. /\ IdsOf(s) = {s[n].id : n \in DOMAIN s} /\ IdsOf(t) = {t[n].id : n \in DOMAIN t}
  BY IdsAre
<1> HIDE DEF u, k
<1>3. ASSUME OncePerId(s), OncePerId(t), IdsOf(s) \cap IdsOf(t) = {},
             NEW m \in DOMAIN u, NEW n \in DOMAIN u, u[m].id = u[n].id
      PROVE  m = n
  <2>1. CASE m \in DOMAIN s /\ n \in DOMAIN s
    BY <1>1, <1>3, <2>1 DEF OncePerId
  <2>2. CASE \E i, j \in DOMAIN t : m = k + i /\ n = k + j
    BY <1>1, <1>3, <2>2 DEF OncePerId
  <2>3. ASSUME NEW i \in DOMAIN s, NEW j \in DOMAIN t
        PROVE  u[i].id # u[k + j].id
    <3>1. u[i] = s[i] /\ u[k + j] = t[j]
      BY <1>1
    <3>2. s[i].id \in IdsOf(s) /\ t[j].id \in IdsOf(t)
      BY <1>2
    <3>3. QED
      BY <1>3, <3>1, <3>2
  <2>4. m \in DOMAIN s <=> n \in DOMAIN s
    BY <1>1, <1>3, <2>3
  <2>5. QED
    BY <1>1, <2>1, <2>2, <2>4
<1>4. ASSUME NEW a, NEW b, Ahead(s, a, b)
      PROVE  Ahead(u, a, b)
  BY <1>1, <1>4 DEF Ahead
<1>5. ASSUME NEW a, NEW b, Ahead(t, a, b)
      PROVE  Ahead(u, a, b)
  <2>1. PICK m, n \in DOMAIN t : m < n /\ t[m].id = a /\ t[n].id = b
    BY <1>5 DEF Ahead
  <2>2. k + m \in DOMAIN u /\ k + n \in DOMAIN u /\ u[k + m] = t[m] /\ u[k + n] = t[n]
    BY <1>1
  <2>3. k + m < k + n
    BY <1>1, <2>1
  <2>4. QED
    BY <2>1, <2>2, <2>3 DEF Ahead
<1>6. ASSUME NEW a \in IdsOf(s), NEW b \in IdsOf(t)
      PROVE  Ahead(u, a, b)
  <2>1. PICK m \in DOMAIN s, n \in DOMAIN t : s[m].id = a /\ t[n].id = b
    BY <1>2
  <2>2. /\ m \in DOMAIN u /\ u[m] = s[m] /\ k + n \in DOMAIN u /\ u[k + n] = t[n]
    BY <1>1
  <2>3. m < k + n
    BY <1>1
  <2>4. QED
    BY <2>1, <2>2, <2>3 DEF Ahead
<1>7. OncePerId(s) /\ OncePerId(t) /\ IdsOf(s) \cap IdsOf(t) = {} => OncePerId(u)
  BY <1>3 DEF OncePerId
<1>8. QED
  BY <1>4, <1>5, <1>6, <1>7 DEF u

LEMMA RecordsOfLines ==
  ASSUME NEW ids \in Seq(Ids), NEW state \in JobStates
  PROVE  /\ RecordsOf(ids, state) \in Seq(StoredJobs)
         /\ ToSet(RecordsOf(ids, state)) = {[id |-> i, state |-> state] : i \in ToSet(ids)}
         /\ IdsOf(RecordsOf(ids, state)) = ToSet(ids)
         /\ Distinct(ids) => OncePerId(RecordsOf(ids, state))
         /\ \A a, b : Precedes(ids, a, b) => Ahead(RecordsOf(ids, state), a, b)
<1>1. Len(ids) \in Nat /\ DOMAIN ids = 1..Len(ids) /\ ids \in [1..Len(ids) -> Ids]
  BY LenProperties
<1>2. PICK t : t = RecordsOf(ids, state)
  OBVIOUS
<1>3. /\ t = [n \in 1..Len(ids) |-> [id |-> ids[n], state |-> state]]
      /\ \A n \in 1..Len(ids) : [id |-> ids[n], state |-> state] \in StoredJobs
  BY <1>1, <1>2 DEF RecordsOf, StoredJobs
<1>4. t \in Seq(StoredJobs)
  BY <1>1, <1>3
<1>5. /\ DOMAIN t = DOMAIN ids
      /\ \A n \in DOMAIN ids : t[n] = [id |-> ids[n], state |-> state] /\ t[n].id = ids[n]
  BY <1>1, <1>3
<1>6. ToSet(t) = {[id |-> i, state |-> state] : i \in ToSet(ids)}
  BY <1>5 DEF ToSet
<1>7. IdsOf(t) = ToSet(ids)
  <2>1. IdsOf(t) = {t[n].id : n \in DOMAIN t}
    BY IdsAre
  <2>2. QED
    BY <1>5, <2>1 DEF ToSet
<1>8. Distinct(ids) => OncePerId(t)
  BY <1>5 DEF Distinct, OncePerId
<1>9. \A a, b : Precedes(ids, a, b) => Ahead(t, a, b)
  BY <1>5 DEF Precedes, Ahead
<1>10. QED
  BY <1>2, <1>4, <1>6, <1>7, <1>8, <1>9

(* What the lines appended for `ids` leave of a file.                       *)
LEMMA RecordedLines ==
  ASSUME NEW file \in Seq(StoredJobs), NEW ids \in Seq(Ids), NEW state \in JobStates
  PROVE  /\ WithRecords(file, ids, state) \in Seq(StoredJobs)
         /\ ToSet(WithRecords(file, ids, state)) =
              {job \in ToSet(file) : job.id \notin ToSet(ids)}
                \cup {[id |-> i, state |-> state] : i \in ToSet(ids)}
         /\ OncePerId(file) /\ Distinct(ids) => OncePerId(WithRecords(file, ids, state))
         /\ \A a, b : a \notin ToSet(ids) /\ b \notin ToSet(ids) /\ Ahead(file, a, b)
                        => Ahead(WithRecords(file, ids, state), a, b)
         /\ \A a \in IdsOf(file) \ ToSet(ids), b \in ToSet(ids) :
              Ahead(WithRecords(file, ids, state), a, b)
         /\ \A a, b : Precedes(ids, a, b) => Ahead(WithRecords(file, ids, state), a, b)
<1>1. PICK I : I = {n \in DOMAIN file : file[n].id \notin ToSet(ids)}
  OBVIOUS
<1>2. I \subseteq DOMAIN file
  BY <1>1
<1>3. PICK k, r : k = Kept(file, I) /\ r = RecordsOf(ids, state)
  OBVIOUS
<1>4. WithRecords(file, ids, state) = k \o r
  BY <1>1, <1>3 DEF WithRecords, RecordsOf
<1>5. /\ k \in Seq(StoredJobs) /\ ToSet(k) = {file[i] : i \in I}
      /\ OncePerId(file) => OncePerId(k)
      /\ \A m, n \in I : m < n => Ahead(k, file[m].id, file[n].id)
  BY <1>2, <1>3, KeptLines
<1>6. ToSet(k) = {job \in ToSet(file) : job.id \notin ToSet(ids)}
  BY <1>1, <1>5 DEF ToSet
<1>7. /\ r \in Seq(StoredJobs)
      /\ ToSet(r) = {[id |-> i, state |-> state] : i \in ToSet(ids)}
      /\ IdsOf(r) = ToSet(ids)
      /\ Distinct(ids) => OncePerId(r)
      /\ \A a, b : Precedes(ids, a, b) => Ahead(r, a, b)
  BY <1>3, RecordsOfLines
<1>8. k \o r \in Seq(StoredJobs) /\ ToSet(k \o r) = ToSet(k) \cup ToSet(r)
  BY <1>5, <1>7, Joined
<1>9. IdsOf(k) = IdsOf(file) \ ToSet(ids)
  BY <1>6 DEF IdsOf
<1>10. /\ OncePerId(k) /\ OncePerId(r) /\ IdsOf(k) \cap IdsOf(r) = {} => OncePerId(k \o r)
       /\ \A a, b : Ahead(k, a, b) \/ Ahead(r, a, b) => Ahead(k \o r, a, b)
       /\ \A a \in IdsOf(k), b \in IdsOf(r) : Ahead(k \o r, a, b)
  BY <1>5, <1>7, JoinedLines
<1>11. ASSUME NEW a, NEW b, a \notin ToSet(ids), b \notin ToSet(ids), Ahead(file, a, b)
       PROVE  Ahead(k \o r, a, b)
  <2>1. PICK m, n \in DOMAIN file : m < n /\ file[m].id = a /\ file[n].id = b
    BY <1>11 DEF Ahead
  <2>2. m \in I /\ n \in I
    BY <1>1, <1>11, <2>1
  <2>3. Ahead(k, a, b)
    BY <1>5, <2>1, <2>2
  <2>4. QED
    BY <1>10, <2>3
<1>12. OncePerId(file) /\ Distinct(ids) => OncePerId(k \o r)
  BY <1>5, <1>7, <1>9, <1>10
<1>13. QED
  BY <1>4, <1>6, <1>7, <1>8, <1>9, <1>10, <1>11, <1>12

LEMMA OneLine ==
  ASSUME NEW id \in Ids, NEW state \in JobStates
  PROVE  /\ <<id>> \in Seq(Ids) /\ ToSet(<<id>>) = {id} /\ Distinct(<<id>>)
         /\ [id |-> id, state |-> state] \in StoredJobs
<1>1. <<id>> \in Seq(Ids) /\ DOMAIN <<id>> = {1} /\ <<id>>[1] = id
  OBVIOUS
<1>2. QED
  BY <1>1 DEF ToSet, Distinct, StoredJobs

LEMMA RecordedLine ==
  ASSUME NEW file \in Seq(StoredJobs), NEW id \in Ids, NEW state \in JobStates
  PROVE  /\ WithRecord(file, id, state) \in Seq(StoredJobs)
         /\ ToSet(WithRecord(file, id, state)) =
              {job \in ToSet(file) : job.id # id} \cup {[id |-> id, state |-> state]}
         /\ OncePerId(file) => OncePerId(WithRecord(file, id, state))
         /\ \A a, b : a # id /\ b # id /\ Ahead(file, a, b)
                        => Ahead(WithRecord(file, id, state), a, b)
         /\ \A a \in IdsOf(file) : a # id => Ahead(WithRecord(file, id, state), a, id)
<1>1. PICK ids, t : ids = <<id>> /\ t = WithRecords(file, ids, state)
  OBVIOUS
<1>2. ids \in Seq(Ids) /\ ToSet(ids) = {id} /\ Distinct(ids)
  BY <1>1, OneLine
<1>3. /\ t \in Seq(StoredJobs)
      /\ ToSet(t) = {job \in ToSet(file) : job.id \notin ToSet(ids)}
                      \cup {[id |-> i, state |-> state] : i \in ToSet(ids)}
      /\ OncePerId(file) /\ Distinct(ids) => OncePerId(t)
      /\ \A a, b : a \notin ToSet(ids) /\ b \notin ToSet(ids) /\ Ahead(file, a, b)
                     => Ahead(t, a, b)
      /\ \A a \in IdsOf(file) \ ToSet(ids), b \in ToSet(ids) : Ahead(t, a, b)
  BY <1>1, <1>2, RecordedLines
<1>4. ToSet(t) = {job \in ToSet(file) : job.id # id} \cup {[id |-> id, state |-> state]}
  BY <1>2, <1>3
<1>5. WithRecord(file, id, state) = t
  BY <1>1 DEF WithRecord
<1>6. QED
  BY <1>2, <1>3, <1>4, <1>5

(* A job listed as finished.                                               *)
LEMMA AppendedLine ==
  ASSUME NEW X, NEW jobs \in Seq(X), NEW job \in X
  PROVE  /\ Append(jobs, job) \in Seq(X) /\ ToSet(Append(jobs, job)) = ToSet(jobs) \cup {job}
         /\ IdsOf(Append(jobs, job)) = IdsOf(jobs) \cup {job.id}
         /\ OncePerId(jobs) /\ job.id \notin IdsOf(jobs) => OncePerId(Append(jobs, job))
<1>1. PICK one : one = <<job>>
  OBVIOUS
<1>2. one \in Seq(X) /\ DOMAIN one = {1} /\ one[1] = job
  BY <1>1
<1>3. ToSet(one) = {job} /\ OncePerId(one)
  BY <1>2 DEF ToSet, OncePerId
<1>4. Append(jobs, job) = jobs \o one
  BY <1>1, AppendIsConcat
<1>5. jobs \o one \in Seq(X) /\ ToSet(jobs \o one) = ToSet(jobs) \cup {job}
  BY <1>2, <1>3, Joined
<1>6. IdsOf(one) = {job.id} /\ IdsOf(jobs \o one) = IdsOf(jobs) \cup {job.id}
  BY <1>3, <1>5 DEF IdsOf
<1>7. OncePerId(jobs) /\ OncePerId(one) /\ IdsOf(jobs) \cap IdsOf(one) = {}
        => OncePerId(jobs \o one)
  BY <1>2, JoinedLines
<1>8. QED
  BY <1>3, <1>4, <1>5, <1>6, <1>7

(* What a stop part way leaves.                                            *)
LEMMA FirstOf ==
  ASSUME NEW X, NEW s \in Seq(X), NEW n \in 0..Len(s)
  PROVE  /\ SubSeq(s, 1, n) \in Seq(X) /\ ToSet(SubSeq(s, 1, n)) \subseteq ToSet(s)
         /\ OncePerId(s) => OncePerId(SubSeq(s, 1, n))
         /\ Distinct(s) => Distinct(SubSeq(s, 1, n))
         /\ ToSet(SubSeq(s, 1, n)) = {s[i] : i \in 1..n}
<1>1. PICK t : t = SubSeq(s, 1, n)
  OBVIOUS
<1>2. Len(s) \in Nat /\ DOMAIN s = 1..Len(s) /\ \A i \in 1..Len(s) : s[i] \in X
  BY LenProperties
<1>3. n \in Nat /\ 1..n \subseteq 1..Len(s)
  BY <1>2
<1>4. \A i \in 1..n : s[i] \in X
  BY <1>2, <1>3
<1>5. /\ t \in Seq(X) /\ Len(t) = IF 1 <= n THEN n - 1 + 1 ELSE 0
      /\ \A i \in 1..(n - 1 + 1) : t[i] = s[1 + i - 1]
  BY <1>1, <1>3, <1>4, SubSeqProperties
<1>6. DOMAIN t = 1..n /\ \A i \in 1..n : t[i] = s[i]
  BY <1>3, <1>5, LenProperties
<1>7. QED
  BY <1>1, <1>2, <1>3, <1>5, <1>6 DEF ToSet, OncePerId, Distinct

-----------------------------------------------------------------------------
(* The queue's own operations.                                             *)

LEMMA Queued ==
  ASSUME NEW q \in Seq(Ids), NEW x \in Ids
  PROVE  /\ Append(q, x) \in Seq(Ids) /\ ToSet(Append(q, x)) = ToSet(q) \cup {x}
         /\ Distinct(q) /\ x \notin ToSet(q) => Distinct(Append(q, x))
         /\ \A a, b : Precedes(Append(q, x), a, b) =>
              Precedes(q, a, b) \/ (a \in ToSet(q) /\ b = x)
<1>1. PICK t, k : t = Append(q, x) /\ k = Len(q)
  OBVIOUS
<1>2. /\ k \in Nat /\ DOMAIN q = 1..k /\ t \in Seq(Ids) /\ DOMAIN t = 1..(k + 1)
      /\ t[k + 1] = x /\ \A i \in 1..k : t[i] = q[i]
  BY <1>1, AppendProperties, LenProperties
<1>3. \A i \in 1..(k + 1) : i \in 1..k \/ i = k + 1
  BY <1>2
<1>4. 1..k \subseteq 1..(k + 1) /\ k + 1 \in 1..(k + 1) /\ k + 1 \notin 1..k
  BY <1>2
<1>5. ToSet(t) = ToSet(q) \cup {x}
  BY <1>2, <1>3, <1>4 DEF ToSet
<1>6. Distinct(q) /\ x \notin ToSet(q) => Distinct(t)
  BY <1>2, <1>3 DEF Distinct, ToSet
<1>7. ASSUME NEW a, NEW b, Precedes(t, a, b)
      PROVE  Precedes(q, a, b) \/ (a \in ToSet(q) /\ b = x)
  <2>1. PICK m, n \in 1..(k + 1) : m < n /\ t[m] = a /\ t[n] = b
    BY <1>2, <1>7 DEF Precedes
  <2>2. m \in 1..k
    BY <1>2, <2>1
  <2>3. QED
    BY <1>2, <1>3, <2>1, <2>2 DEF Precedes, ToSet
<1>8. QED
  BY <1>1, <1>2, <1>5, <1>6, <1>7

LEMMA Taken ==
  ASSUME NEW q \in Seq(Ids), q # <<>>, Distinct(q)
  PROVE  /\ Head(q) \in Ids /\ Tail(q) \in Seq(Ids)
         /\ Head(q) \in ToSet(q) /\ ToSet(Tail(q)) = ToSet(q) \ {Head(q)}
         /\ Distinct(Tail(q))
         /\ \A a, b : Precedes(Tail(q), a, b) => Precedes(q, a, b)
         /\ \A b \in ToSet(Tail(q)) : Precedes(q, Head(q), b)
<1>1. PICK t, k : t = Tail(q) /\ k = Len(q)
  OBVIOUS
<1>2. /\ k \in Nat \ {0} /\ DOMAIN q = 1..k /\ Head(q) = q[1] /\ Head(q) \in Ids
      /\ t \in Seq(Ids) /\ DOMAIN t = 1..(k - 1)
      /\ \A i \in 1..(k - 1) : t[i] = q[i + 1]
  BY <1>1, HeadTailProperties, LenProperties, EmptySeq
<1>3. \A i \in 1..(k - 1) : i + 1 \in 1..k /\ i + 1 # 1 /\ 1 < i + 1
  BY <1>2
<1>4. \A i \in 1..k : i # 1 => i - 1 \in 1..(k - 1) /\ t[i - 1] = q[i]
  BY <1>2
<1>5. 1 \in 1..k
  BY <1>2
<1>6. ToSet(t) = ToSet(q) \ {q[1]}
  <2>1. ToSet(t) = {t[i] : i \in 1..(k - 1)} /\ ToSet(q) = {q[i] : i \in 1..k}
    BY <1>2 DEF ToSet
  <2>2. \A i \in 1..(k - 1) : t[i] \in ToSet(q) /\ t[i] # q[1]
    BY <1>2, <1>3, <1>5, <2>1 DEF Distinct
  <2>3. \A i \in 1..k : q[i] # q[1] => q[i] \in ToSet(t)
    BY <1>4, <2>1
  <2>4. QED
    BY <2>1, <2>2, <2>3
<1>7. ASSUME NEW m \in 1..(k - 1), NEW n \in 1..(k - 1), t[m] = t[n]
      PROVE  m = n
  <2>1. m + 1 = n + 1
    BY <1>2, <1>3, <1>7 DEF Distinct
  <2>2. QED
    BY <2>1
<1>8. ASSUME NEW a, NEW b, Precedes(t, a, b)
      PROVE  Precedes(q, a, b)
  <2>1. PICK m, n \in 1..(k - 1) : m < n /\ t[m] = a /\ t[n] = b
    BY <1>2, <1>8 DEF Precedes
  <2>2. m + 1 < n + 1
    BY <2>1
  <2>3. QED
    BY <1>2, <1>3, <2>1, <2>2 DEF Precedes
<1>9. ASSUME NEW b \in ToSet(t)
      PROVE  Precedes(q, q[1], b)
  <2>1. PICK i \in 1..(k - 1) : t[i] = b
    BY <1>2 DEF ToSet
  <2>2. 1 < i + 1 /\ i + 1 \in 1..k /\ q[i + 1] = b
    BY <1>2, <1>3, <2>1
  <2>3. QED
    BY <1>2, <1>5, <2>2 DEF Precedes
<1>10. Distinct(t)
  BY <1>2, <1>7 DEF Distinct
<1>11. q[1] \in ToSet(q)
  BY <1>2, <1>5 DEF ToSet
<1>12. QED
  BY <1>1, <1>2, <1>6, <1>8, <1>9, <1>10, <1>11

LEMMA Removed ==
  ASSUME NEW q \in Seq(Ids), NEW i \in DOMAIN q
  PROVE  /\ RemoveAt(q, i) \in Seq(Ids) /\ Len(q) \in Nat /\ i \in 1..Len(q)
         /\ DOMAIN RemoveAt(q, i) = 1..(Len(q) - 1) /\ Len(RemoveAt(q, i)) = Len(q) - 1
         /\ \A n \in 1..(Len(q) - 1) :
              RemoveAt(q, i)[n] = IF n < i THEN q[n] ELSE q[n + 1]
<1>1. PICK k, l, r : /\ k = Len(q) /\ l = SubSeq(q, 1, i - 1)
                     /\ r = SubSeq(q, i + 1, k)
  OBVIOUS
<1>2. k \in Nat /\ DOMAIN q = 1..k /\ i \in 1..k /\ \A n \in 1..k : q[n] \in Ids
  BY <1>1, LenProperties
<1>3. /\ \A n \in 1..(i - 1) : q[n] \in Ids
      /\ \A n \in (i + 1)..k : q[n] \in Ids
  BY <1>2
<1>4. /\ l \in Seq(Ids) /\ Len(l) = (IF 1 <= i - 1 THEN i - 1 - 1 + 1 ELSE 0)
      /\ \A n \in 1..(i - 1 - 1 + 1) : l[n] = q[1 + n - 1]
  BY <1>1, <1>2, <1>3, SubSeqProperties
<1>5. /\ r \in Seq(Ids) /\ Len(r) = (IF i + 1 <= k THEN k - (i + 1) + 1 ELSE 0)
      /\ \A n \in 1..(k - (i + 1) + 1) : r[n] = q[i + 1 + n - 1]
  BY <1>1, <1>2, <1>3, SubSeqProperties
<1>6. /\ Len(l) = i - 1 /\ Len(r) = k - i
      /\ \A n \in 1..(i - 1) : l[n] = q[n]
      /\ \A n \in 1..(k - i) : r[n] = q[i + n]
  <2>1. Len(l) = i - 1 /\ Len(r) = k - i
    BY <1>2, <1>4, <1>5
  <2>2. ASSUME NEW n \in 1..(i - 1)
        PROVE  l[n] = q[n]
    <3>1. n \in 1..(i - 1 - 1 + 1) /\ 1 + n - 1 = n
      BY <1>2
    <3>2. QED
      BY <1>4, <3>1
  <2>3. ASSUME NEW n \in 1..(k - i)
        PROVE  r[n] = q[i + n]
    <3>1. n \in 1..(k - (i + 1) + 1) /\ i + 1 + n - 1 = i + n
      BY <1>2
    <3>2. QED
      BY <1>5, <3>1
  <2>4. QED
    BY <2>1, <2>2, <2>3
<1>7. /\ l \o r \in Seq(Ids) /\ Len(l \o r) = k - 1
      /\ \A n \in 1..(k - 1) : (l \o r)[n] = IF n <= i - 1 THEN l[n] ELSE r[n - (i - 1)]
  <2>1. /\ l \o r \in Seq(Ids) /\ Len(l \o r) = Len(l) + Len(r)
        /\ \A n \in 1..(Len(l) + Len(r)) :
             (l \o r)[n] = IF n <= Len(l) THEN l[n] ELSE r[n - Len(l)]
    BY <1>4, <1>5, ConcatProperties
  <2>2. Len(l) + Len(r) = k - 1
    BY <1>2, <1>6
  <2>3. QED
    BY <1>6, <2>1, <2>2
<1>8. ASSUME NEW n \in 1..(k - 1)
      PROVE  (l \o r)[n] = IF n < i THEN q[n] ELSE q[n + 1]
  <2>1. CASE n < i
    BY <1>2, <1>6, <1>7, <2>1
  <2>2. CASE ~(n < i)
    <3>1. n - (i - 1) \in 1..(k - i) /\ i + (n - (i - 1)) = n + 1 /\ ~(n <= i - 1)
      BY <1>2, <2>2
    <3>2. QED
      BY <1>6, <1>7, <2>2, <3>1
  <2>3. QED
    BY <2>1, <2>2
<1>9. DOMAIN (l \o r) = 1..(k - 1)
  BY <1>7, LenProperties
<1>10. RemoveAt(q, i) = l \o r
  BY <1>1 DEF RemoveAt
<1>11. QED
  BY <1>1, <1>2, <1>7, <1>8, <1>9, <1>10

LEMMA Dropped ==
  ASSUME NEW q \in Seq(Ids), Distinct(q), NEW i \in DOMAIN q
  PROVE  /\ RemoveAt(q, i) \in Seq(Ids) /\ Distinct(RemoveAt(q, i))
         /\ q[i] \in ToSet(q) /\ ToSet(RemoveAt(q, i)) = ToSet(q) \ {q[i]}
         /\ \A a, b : Precedes(RemoveAt(q, i), a, b) => Precedes(q, a, b)
<1>1. PICK t, k, from : /\ t = RemoveAt(q, i) /\ k = Len(q)
                        /\ from = [n \in 1..(k - 1) |-> IF n < i THEN n ELSE n + 1]
  OBVIOUS
<1>2. /\ k \in Nat /\ i \in 1..k /\ t \in Seq(Ids) /\ DOMAIN t = 1..(k - 1)
      /\ \A n \in 1..(k - 1) : t[n] = IF n < i THEN q[n] ELSE q[n + 1]
  BY <1>1, Removed
<1>3. DOMAIN q = 1..k
  BY <1>1, LenProperties
<1>4. \A n \in 1..(k - 1) : from[n] \in 1..k /\ from[n] # i /\ t[n] = q[from[n]]
  <2> SUFFICES ASSUME NEW n \in 1..(k - 1)
               PROVE  from[n] \in 1..k /\ from[n] # i /\ t[n] = q[from[n]]
    OBVIOUS
  <2>1. n \in Nat /\ i \in Nat
    BY <1>2
  <2>2. CASE n < i
    BY <1>1, <1>2, <2>1, <2>2
  <2>3. CASE ~(n < i)
    BY <1>1, <1>2, <2>1, <2>3
  <2>4. QED
    BY <2>2, <2>3
<1>5. \A m, n \in 1..(k - 1) : m < n => from[m] < from[n]
  BY <1>1, <1>2
<1>6. \A j \in 1..k : j # i => \E n \in 1..(k - 1) : from[n] = j
  <2> SUFFICES ASSUME NEW j \in 1..k, j # i
               PROVE  \E n \in 1..(k - 1) : from[n] = j
    OBVIOUS
  <2>1. j \in Nat /\ i \in Nat
    BY <1>2
  <2>2. CASE j < i
    <3>1. j \in 1..(k - 1) /\ from[j] = j
      BY <1>1, <1>2, <2>1, <2>2
    <3>2. QED
      BY <3>1
  <2>3. CASE i < j
    <3>1. j - 1 \in 1..(k - 1) /\ ~(j - 1 < i) /\ j - 1 + 1 = j
      BY <1>2, <2>1, <2>3
    <3>2. from[j - 1] = j
      BY <1>1, <3>1
    <3>3. QED
      BY <3>1, <3>2
  <2>4. QED
    BY <2>1, <2>2, <2>3
<1>7. ToSet(t) = {t[n] : n \in 1..(k - 1)} /\ ToSet(q) = {q[n] : n \in 1..k}
  BY <1>2, <1>3 DEF ToSet
<1>8. ToSet(t) = ToSet(q) \ {q[i]}
  <2>1. \A j, l \in 1..k : q[j] = q[l] => j = l
    BY <1>3 DEF Distinct
  <2>2. \A n \in 1..(k - 1) : t[n] \in ToSet(q) /\ t[n] # q[i]
    <3> SUFFICES ASSUME NEW n \in 1..(k - 1)
                 PROVE  t[n] \in ToSet(q) /\ t[n] # q[i]
      OBVIOUS
    <3>1. from[n] \in 1..k /\ from[n] # i /\ t[n] = q[from[n]] /\ i \in 1..k
      BY <1>2, <1>4
    <3>2. t[n] \in ToSet(q)
      BY <1>7, <3>1
    <3>3. t[n] # q[i]
      BY <2>1, <3>1
    <3>4. QED
      BY <3>2, <3>3
  <2>3. \A j \in 1..k : q[j] # q[i] => q[j] \in ToSet(t)
    BY <1>4, <1>6, <1>7
  <2>4. QED
    BY <1>7, <2>2, <2>3
<1>9. ASSUME NEW m \in 1..(k - 1), NEW n \in 1..(k - 1), t[m] = t[n]
      PROVE  m = n
  <2>1. from[m] = from[n]
    BY <1>3, <1>4, <1>9 DEF Distinct
  <2>2. from[m] \in Nat /\ m \in Nat /\ n \in Nat
    BY <1>2, <1>4
  <2>3. ~(m < n) /\ ~(n < m)
    BY <1>5, <2>1, <2>2
  <2>4. QED
    BY <2>2, <2>3
<1>10. ASSUME NEW a, NEW b, Precedes(t, a, b)
       PROVE  Precedes(q, a, b)
  <2>1. PICK m, n \in 1..(k - 1) : m < n /\ t[m] = a /\ t[n] = b
    BY <1>2, <1>10 DEF Precedes
  <2>2. from[m] < from[n] /\ q[from[m]] = a /\ q[from[n]] = b
    BY <1>4, <1>5, <2>1
  <2>3. QED
    BY <1>3, <1>4, <2>2 DEF Precedes
<1>11. Distinct(t)
  BY <1>2, <1>9 DEF Distinct
<1>12. q[i] \in ToSet(q)
  BY <1>2, <1>7
<1>13. QED
  BY <1>1, <1>2, <1>8, <1>10, <1>11, <1>12

LEMMA PutIn ==
  ASSUME NEW q \in Seq(Ids), NEW k \in Nat, k = Len(q), NEW i \in 1..(k + 1), NEW x \in Ids,
         NEW t, t = InsertAt(q, i, x)
  PROVE  Distinct(q) /\ x \notin ToSet(q) =>
           t \in Seq(Ids) /\ Distinct(t) /\ ToSet(t) = ToSet(q) \cup {x}
<1>1. DOMAIN q = 1..k
  BY LenProperties
<1>2. /\ t \in Seq(Ids) /\ DOMAIN t = 1..(k + 1)
      /\ \A n \in 1..(k + 1) : /\ n < i => t[n] = q[n]
                               /\ n = i => t[n] = x
                               /\ i < n => t[n] = q[n - 1]
  <2>1. PICK l, r, o : l = SubSeq(q, 1, i - 1) /\ r = SubSeq(q, i, k) /\ o = <<x>>
    OBVIOUS
  <2>2. k \in Nat /\ DOMAIN q = 1..k /\ \A n \in 1..k : q[n] \in Ids
    BY <2>1, LenProperties
  <2>3. /\ \A n \in 1..(i - 1) : q[n] \in Ids
        /\ \A n \in i..k : q[n] \in Ids
    BY <2>1, <2>2
  <2>4. /\ l \in Seq(Ids) /\ Len(l) = (IF 1 <= i - 1 THEN i - 1 - 1 + 1 ELSE 0)
        /\ \A n \in 1..(i - 1 - 1 + 1) : l[n] = q[1 + n - 1]
    BY <2>1, <2>2, <2>3, SubSeqProperties
  <2>5. /\ r \in Seq(Ids) /\ Len(r) = (IF i <= k THEN k - i + 1 ELSE 0)
        /\ \A n \in 1..(k - i + 1) : r[n] = q[i + n - 1]
    BY <2>1, <2>2, <2>3, SubSeqProperties
  <2>6. /\ Len(l) = i - 1 /\ Len(r) = k - i + 1
        /\ \A n \in 1..(i - 1) : l[n] = q[n]
        /\ \A n \in 1..(k - i + 1) : r[n] = q[i + n - 1]
    BY <2>1, <2>2, <2>4, <2>5
  <2>7. o \in Seq(Ids) /\ Len(o) = 1 /\ o[1] = x
    BY <2>1
  <2>8. PICK lo : lo = l \o o
    OBVIOUS
  <2>9. /\ lo \in Seq(Ids) /\ Len(lo) = i
        /\ \A n \in 1..i : lo[n] = IF n <= i - 1 THEN l[n] ELSE o[n - (i - 1)]
    <3>1. /\ lo \in Seq(Ids) /\ Len(lo) = Len(l) + Len(o)
          /\ \A n \in 1..(Len(l) + Len(o)) :
               lo[n] = IF n <= Len(l) THEN l[n] ELSE o[n - Len(l)]
      BY <2>4, <2>7, <2>8, ConcatProperties
    <3>2. Len(l) + Len(o) = i
      BY <2>1, <2>2, <2>6, <2>7
    <3>3. QED
      BY <2>6, <3>1, <3>2
  <2>10. /\ lo \o r \in Seq(Ids) /\ Len(lo \o r) = i + (k - i + 1)
         /\ \A n \in 1..(i + (k - i + 1)) : (lo \o r)[n] = IF n <= i THEN lo[n] ELSE r[n - i]
    <3>1. /\ lo \o r \in Seq(Ids) /\ Len(lo \o r) = Len(lo) + Len(r)
          /\ \A n \in 1..(Len(lo) + Len(r)) :
               (lo \o r)[n] = IF n <= Len(lo) THEN lo[n] ELSE r[n - Len(lo)]
      BY <2>5, <2>9, ConcatProperties
    <3>2. QED
      BY <2>6, <2>9, <3>1
  <2>11. ASSUME NEW n \in 1..(k + 1)
         PROVE  (lo \o r)[n] = IF n < i THEN q[n] ELSE IF n = i THEN x ELSE q[n - 1]
    <3>0. n \in 1..(i + (k - i + 1)) /\ i \in Nat /\ n \in Nat
      BY <2>1, <2>2
    <3>1. CASE n < i
      <4>1. n \in 1..(i - 1) /\ n \in 1..i /\ n <= i /\ n <= i - 1
        BY <3>0, <3>1
      <4>2. QED
        BY <2>6, <2>9, <2>10, <3>0, <3>1, <4>1
    <3>2. CASE n = i
      BY <2>2, <2>7, <2>9, <2>10, <3>0, <3>2
    <3>3. CASE i < n
      <4>1. n - i \in 1..(k - i + 1) /\ i + (n - i) - 1 = n - 1 /\ ~(n <= i)
        BY <2>2, <3>0, <3>3
      <4>2. QED
        BY <2>6, <2>10, <3>0, <3>3, <4>1
    <3>4. n < i \/ n = i \/ i < n
      BY <3>0
    <3>5. QED
      BY <3>1, <3>2, <3>3, <3>4
  <2>12. DOMAIN (lo \o r) = 1..(k + 1)
    <3>1. i + (k - i + 1) = k + 1
      BY <2>1, <2>2
    <3>2. QED
      BY <2>10, <3>1, LenProperties
  <2>13. InsertAt(q, i, x) = lo \o r
    BY <2>1, <2>8 DEF InsertAt
  <2>14. QED
    BY <2>1, <2>10, <2>11, <2>12, <2>13
<1> SUFFICES ASSUME Distinct(q), x \notin ToSet(q)
             PROVE  t \in Seq(Ids) /\ Distinct(t) /\ ToSet(t) = ToSet(q) \cup {x}
  OBVIOUS
<1>3. ASSUME NEW n \in 1..(k + 1)
      PROVE  \/ n < i /\ n \in 1..k /\ t[n] = q[n]
             \/ n = i /\ t[n] = x
             \/ i < n /\ n - 1 \in 1..k /\ t[n] = q[n - 1]
  <2>1. n \in Nat /\ i \in Nat
    BY <1>1, <1>2
  <2>2. CASE n < i
    BY <1>1, <1>2, <2>1, <2>2
  <2>3. CASE n = i
    BY <1>2, <2>1, <2>3
  <2>4. CASE i < n
    BY <1>1, <1>2, <2>1, <2>4
  <2>5. n < i \/ n = i \/ i < n
    BY <2>1
  <2>6. QED
    BY <2>2, <2>3, <2>4, <2>5
<1>4. ToSet(t) = {t[n] : n \in 1..(k + 1)} /\ ToSet(q) = {q[n] : n \in 1..k}
  BY <1>1, <1>2 DEF ToSet
<1>5. \A n \in 1..(k + 1) : t[n] \in ToSet(q) \cup {x}
  BY <1>3, <1>4
<1>6. ASSUME NEW n \in 1..k
      PROVE  q[n] \in ToSet(t)
  <2>1. n \in 1..(k + 1) /\ n + 1 \in 1..(k + 1) /\ n + 1 - 1 = n /\ n \in Nat /\ i \in Nat
    BY <1>1, <1>2
  <2>2. CASE n < i
    BY <1>2, <1>4, <2>1, <2>2
  <2>3. CASE ~(n < i)
    <3>1. ~(n + 1 < i) /\ n + 1 # i
      BY <2>1, <2>3
    <3>2. t[n + 1] = q[n]
      BY <1>2, <2>1, <3>1
    <3>3. QED
      BY <1>4, <2>1, <3>2
  <2>4. QED
    BY <2>2, <2>3
<1>7. x \in ToSet(t)
  <2>1. i \in 1..(k + 1) /\ ~(i < i)
    BY <1>1, <1>2
  <2>2. QED
    BY <1>2, <1>4, <2>1
<1>8. ToSet(t) = ToSet(q) \cup {x}
  <2>1. ToSet(t) \subseteq ToSet(q) \cup {x}
    BY <1>4, <1>5
  <2>2. ToSet(q) \subseteq ToSet(t)
    BY <1>4, <1>6
  <2>3. QED
    BY <1>7, <2>1, <2>2
<1>9. ASSUME NEW m \in 1..(k + 1), NEW n \in 1..(k + 1), t[m] = t[n]
      PROVE  m = n
  <2>1. \A j \in 1..k : q[j] # x
    BY <1>4
  <2>2. \A j, l \in 1..k : q[j] = q[l] => j = l
    BY <1>1 DEF Distinct
  <2>3. m \in Nat /\ n \in Nat /\ i \in Nat
    BY <1>1, <1>2
  <2>4. CASE m = i
    BY <1>3, <1>9, <2>1, <2>4
  <2>5. CASE n = i
    BY <1>3, <1>9, <2>1, <2>5
  <2>6. CASE m # i /\ n # i
    <3>1. PICK j \in 1..k : t[m] = q[j] /\ ((m < i /\ j = m) \/ (i < m /\ j = m - 1))
      BY <1>3, <2>6
    <3>2. PICK l \in 1..k : t[n] = q[l] /\ ((n < i /\ l = n) \/ (i < n /\ l = n - 1))
      BY <1>3, <2>6
    <3>3. j = l
      BY <1>9, <2>2, <3>1, <3>2
    <3>4. QED
      BY <2>3, <3>1, <3>2, <3>3
  <2>7. QED
    BY <2>4, <2>5, <2>6
<1>10. Distinct(t)
  BY <1>2, <1>9 DEF Distinct
<1>11. QED
  BY <1>1, <1>2, <1>8, <1>10

(* move_before changes the order of the queue and nothing else.            *)
LEMMA MovedKeeps ==
  ASSUME queue \in Seq(Ids), Distinct(queue), NEW id \in Ids, NEW before \in Ids \cup {NoJob},
         MayMove(id, before)
  PROVE  /\ MovedBefore(id, before) \in Seq(Ids) /\ Distinct(MovedBefore(id, before))
         /\ ToSet(MovedBefore(id, before)) = ToSet(queue)
<1>1. PICK q : q = queue
  OBVIOUS
<1>2. q \in Seq(Ids) /\ Distinct(q) /\ Len(q) \in Nat /\ DOMAIN q = 1..Len(q)
  BY <1>1, LenProperties
<1>3. \A x \in ToSet(q) : PositionOf(x) \in DOMAIN q
  BY <1>1 DEF PositionOf, ToSet
<1>4. PICK from : from = PositionOf(id)
  OBVIOUS
<1>5. from \in DOMAIN q
  BY <1>1, <1>3, <1>4 DEF MayMove
<1>6. PICK to : to = IF before = NoJob THEN 1 ELSE PositionOf(before)
  OBVIOUS
<1>7. to \in DOMAIN q
  <2>1. CASE before = NoJob
    BY <1>2, <1>5, <1>6, <2>1
  <2>2. CASE before # NoJob
    BY <1>1, <1>3, <1>6, <2>2 DEF MayMove
  <2>3. QED
    BY <2>1, <2>2
<1>8. PICK without, at, x : /\ without = RemoveAt(q, from) /\ x = q[from]
                            /\ at = IF from < to THEN to - 1 ELSE to
  OBVIOUS
<1>9. /\ without \in Seq(Ids) /\ Distinct(without) /\ x \in ToSet(q)
      /\ ToSet(without) = ToSet(q) \ {x}
  BY <1>2, <1>5, <1>8, Dropped
<1>10. Len(without) = Len(q) - 1 /\ x \in Ids
  BY <1>2, <1>5, <1>8, Removed, ElementOfSeq
<1>11. at \in 1..(Len(without) + 1)
  <2>1. from \in 1..Len(q) /\ to \in 1..Len(q) /\ Len(without) + 1 = Len(q)
    BY <1>2, <1>5, <1>7, <1>10
  <2>2. CASE from < to
    BY <1>2, <1>8, <2>1, <2>2
  <2>3. CASE ~(from < to)
    BY <1>8, <2>1, <2>3
  <2>4. QED
    BY <2>2, <2>3
<1>12. PICK t : t = InsertAt(without, at, x)
  OBVIOUS
<1>13. t \in Seq(Ids) /\ Distinct(t) /\ ToSet(t) = ToSet(without) \cup {x}
  <2>1. PICK k : k = Len(without)
    OBVIOUS
  <2>2. k \in Nat /\ at \in 1..(k + 1) /\ x \in Ids /\ x \notin ToSet(without)
    BY <1>2, <1>9, <1>10, <1>11, <2>1, LenProperties
  <2>3. QED
    BY <1>9, <1>12, <2>1, <2>2, PutIn
<1>14. ToSet(t) = ToSet(q)
  BY <1>9, <1>13
<1>15. MovedBefore(id, before) = t
  BY <1>1, <1>4, <1>6, <1>8, <1>12 DEF MovedBefore, Rotated
<1>16. QED
  BY <1>1, <1>13, <1>14, <1>15

-----------------------------------------------------------------------------
(* The list a snapshot shows and the file, together: each recorded job is   *)
(* in the slot, in the queue or in the history; the file holds as queued    *)
(* the queue, and a job taken but not yet recorded running ahead of it; and *)
(* the history's records are the file's.                                   *)

Pictures(file, q, ended, slot, waits) ==
  /\ OncePerId(file) /\ Distinct(q) /\ OncePerId(ended)
  /\ IdsOf(file) = slot \cup ToSet(q) \cup IdsOf(ended)
  /\ slot \cap ToSet(q) = {} /\ slot \cap IdsOf(ended) = {}
  /\ ToSet(q) \cap IdsOf(ended) = {}
  /\ waits \subseteq slot /\ QueuedIn(file) = waits \cup ToSet(q)
  /\ ToSet(ended) \subseteq ToSet(file)
  /\ \A a \in waits, b \in ToSet(q) : Ahead(file, a, b)
  /\ \A a, b : Precedes(q, a, b) => Ahead(file, a, b)

(* `t` is the file with lines of `state` appended for the jobs of `ids`.    *)
Recorded(t, file, ids, state) ==
  /\ t \in Seq(StoredJobs) /\ IdsOf(t) = IdsOf(file) \cup ids
  /\ state = "Queued" => QueuedIn(t) = QueuedIn(file) \cup ids
  /\ state # "Queued" => QueuedIn(t) = QueuedIn(file) \ ids
  /\ \A job \in ToSet(file) : job.id \notin ids => job \in ToSet(t)
  /\ \A id \in ids : [id |-> id, state |-> state] \in ToSet(t)
  /\ \A job \in ToSet(t) : \/ job \in ToSet(file) /\ job.id \notin ids
                           \/ job.id \in ids /\ job.state = state

LEMMA RecordedIds ==
  ASSUME NEW file \in Seq(StoredJobs), NEW ids \in Seq(Ids), NEW state \in JobStates
  PROVE  Recorded(WithRecords(file, ids, state), file, ToSet(ids), state)
<1>0. PICK t : t = WithRecords(file, ids, state)
  OBVIOUS
<1>1. /\ t \in Seq(StoredJobs)
      /\ ToSet(t) = {job \in ToSet(file) : job.id \notin ToSet(ids)}
                      \cup {[id |-> i, state |-> state] : i \in ToSet(ids)}
  BY <1>0, RecordedLines
<1>2. /\ \A job \in ToSet(t) : \/ job \in ToSet(file) /\ job.id \notin ToSet(ids)
                               \/ job.id \in ToSet(ids) /\ job.state = state
      /\ \A job \in ToSet(file) : job.id \notin ToSet(ids) => job \in ToSet(t)
      /\ \A id \in ToSet(ids) : [id |-> id, state |-> state] \in ToSet(t)
  BY <1>1
<1>3. /\ QueuedIn(t) = {job.id : job \in {j \in ToSet(t) : j.state = "Queued"}}
      /\ QueuedIn(file) = {job.id : job \in {j \in ToSet(file) : j.state = "Queued"}}
  BY IdsAre
<1>4. IdsOf(t) = IdsOf(file) \cup ToSet(ids)
  <2>1. \A id \in ToSet(ids) : id \in IdsOf(t)
    <3> SUFFICES ASSUME NEW id \in ToSet(ids)
                 PROVE  id \in IdsOf(t)
      OBVIOUS
    <3>1. [id |-> id, state |-> state] \in ToSet(t) /\ [id |-> id, state |-> state].id = id
      BY <1>2
    <3>2. QED
      BY <3>1 DEF IdsOf
  <2>2. \A job \in ToSet(file) : job.id \in IdsOf(t)
    BY <1>2, <2>1 DEF IdsOf
  <2>3. \A job \in ToSet(t) : job.id \in IdsOf(file) \cup ToSet(ids)
    BY <1>2 DEF IdsOf
  <2>4. QED
    BY <2>1, <2>2, <2>3 DEF IdsOf
<1>5. ASSUME state = "Queued"
      PROVE  QueuedIn(t) = QueuedIn(file) \cup ToSet(ids)
  <2>1. \A id \in ToSet(ids) : id \in QueuedIn(t)
    <3> SUFFICES ASSUME NEW id \in ToSet(ids)
                 PROVE  id \in QueuedIn(t)
      OBVIOUS
    <3>1. /\ [id |-> id, state |-> state] \in ToSet(t)
          /\ [id |-> id, state |-> state].id = id
          /\ [id |-> id, state |-> state].state = "Queued"
      BY <1>2, <1>5
    <3>2. QED
      BY <1>3, <3>1
  <2>2. \A job \in ToSet(file) : job.state = "Queued" => job.id \in QueuedIn(t)
    BY <1>2, <1>3, <2>1
  <2>3. \A job \in ToSet(t) :
          job.state = "Queued" => job.id \in QueuedIn(file) \cup ToSet(ids)
    BY <1>2, <1>3
  <2>4. QED
    BY <1>3, <2>1, <2>2, <2>3
<1>6. ASSUME state # "Queued"
      PROVE  QueuedIn(t) = QueuedIn(file) \ ToSet(ids)
  <2>1. \A job \in ToSet(t) :
          job.state = "Queued" => job.id \in QueuedIn(file) \ ToSet(ids)
    BY <1>2, <1>3, <1>6
  <2>2. \A job \in ToSet(file) :
          job.state = "Queued" /\ job.id \notin ToSet(ids) => job.id \in QueuedIn(t)
    BY <1>2, <1>3
  <2>3. QED
    BY <1>3, <2>1, <2>2
<1>7. QED
  BY <1>0, <1>1, <1>2, <1>4, <1>5, <1>6 DEF Recorded

LEMMA RecordedId ==
  ASSUME NEW file \in Seq(StoredJobs), NEW id \in Ids, NEW state \in JobStates
  PROVE  Recorded(WithRecord(file, id, state), file, {id}, state)
<1>1. PICK ids : ids = <<id>>
  OBVIOUS
<1>2. ids \in Seq(Ids) /\ ToSet(ids) = {id}
  BY <1>1, OneLine
<1>3. Recorded(WithRecords(file, ids, state), file, ToSet(ids), state)
  BY <1>2, RecordedIds
<1>4. QED
  BY <1>1, <1>2, <1>3 DEF WithRecord

(* submit.                                                                 *)
LEMMA SubmittedPicture ==
  ASSUME NEW file \in Seq(StoredJobs), NEW q \in Seq(Ids), NEW ended, NEW slot, NEW waits,
         Pictures(file, q, ended, slot, waits), NEW id \in Ids, id \notin IdsOf(file),
         NEW t, t = WithRecord(file, id, "Queued"), NEW p, p = Append(q, id)
  PROVE  Pictures(t, p, ended, slot, waits)
<1>1. "Queued" \in JobStates /\ id \in Ids
  BY DEF JobStates
<1>0. Recorded(t, file, {id}, "Queued")
  BY <1>1, RecordedId
<1>3. /\ t \in Seq(StoredJobs) /\ IdsOf(t) = IdsOf(file) \cup {id}
      /\ QueuedIn(t) = QueuedIn(file) \cup {id}
      /\ \A job \in ToSet(file) : job.id # id => job \in ToSet(t)
  <2>1. t \in Seq(StoredJobs)
    BY <1>0, <1>1 DEF Recorded
  <2>2. IdsOf(t) = IdsOf(file) \cup {id} /\ QueuedIn(t) = QueuedIn(file) \cup {id}
    BY <1>0, <1>1 DEF Recorded
  <2>3. \A job \in ToSet(file) : job.id # id => job \in ToSet(t)
    BY <1>0, <1>1 DEF Recorded
  <2>4. QED
    BY <2>1, <2>2, <2>3
<1>4. /\ OncePerId(file) => OncePerId(t)
      /\ \A a, b : a # id /\ b # id /\ Ahead(file, a, b) => Ahead(t, a, b)
      /\ \A a \in IdsOf(file) : a # id => Ahead(t, a, id)
  BY <1>1, RecordedLine
<1>5. /\ ToSet(p) = ToSet(q) \cup {id}
      /\ Distinct(q) /\ id \notin ToSet(q) => Distinct(p)
      /\ \A a, b : Precedes(p, a, b) => Precedes(q, a, b) \/ (a \in ToSet(q) /\ b = id)
  BY Queued
<1>6. /\ OncePerId(file) /\ Distinct(q) /\ OncePerId(ended)
      /\ IdsOf(file) = slot \cup ToSet(q) \cup IdsOf(ended)
      /\ slot \cap ToSet(q) = {} /\ slot \cap IdsOf(ended) = {}
      /\ ToSet(q) \cap IdsOf(ended) = {}
      /\ waits \subseteq slot /\ QueuedIn(file) = waits \cup ToSet(q)
      /\ ToSet(ended) \subseteq ToSet(file)
      /\ \A a \in waits, b \in ToSet(q) : Ahead(file, a, b)
      /\ \A a, b : Precedes(q, a, b) => Ahead(file, a, b)
  BY DEF Pictures
<1>7. id \notin slot /\ id \notin ToSet(q) /\ id \notin IdsOf(ended)
  BY <1>6
<1>8. ToSet(ended) \subseteq ToSet(t)
  BY <1>3, <1>6, <1>7 DEF IdsOf
<1>9. \A a \in waits, b \in ToSet(p) : Ahead(t, a, b)
  BY <1>4, <1>5, <1>6, <1>7
<1>10. \A a, b : Precedes(q, a, b) => a \in ToSet(q) /\ b \in ToSet(q)
  BY DEF Precedes, ToSet
<1>11. \A a, b : Precedes(p, a, b) => Ahead(t, a, b)
  BY <1>4, <1>5, <1>6, <1>7, <1>10
<1>12. OncePerId(t) /\ Distinct(p) /\ OncePerId(ended)
  BY <1>4, <1>5, <1>6, <1>7
<1>13. /\ IdsOf(t) = slot \cup ToSet(p) \cup IdsOf(ended)
       /\ slot \cap ToSet(p) = {} /\ slot \cap IdsOf(ended) = {}
       /\ ToSet(p) \cap IdsOf(ended) = {}
       /\ waits \subseteq slot /\ QueuedIn(t) = waits \cup ToSet(p)
  BY <1>3, <1>5, <1>6, <1>7
<1>14. QED
  BY <1>8, <1>9, <1>11, <1>12, <1>13 DEF Pictures

(* move_before: the jobs of the queue, in another order.                    *)
LEMMA ReorderedPicture ==
  ASSUME NEW file \in Seq(StoredJobs), NEW q \in Seq(Ids), NEW ended, NEW slot, NEW waits,
         Pictures(file, q, ended, slot, waits),
         NEW p \in Seq(Ids), Distinct(p), ToSet(p) = ToSet(q),
         NEW t, t = WithRecords(file, p, "Queued")
  PROVE  Pictures(t, p, ended, slot, waits) /\ IdsOf(t) = IdsOf(file)
<1>1. "Queued" \in JobStates
  BY DEF JobStates
<1>0. Recorded(t, file, ToSet(p), "Queued")
  BY <1>1, RecordedIds
<1>2. /\ OncePerId(file) /\ OncePerId(ended)
      /\ IdsOf(file) = slot \cup ToSet(q) \cup IdsOf(ended)
      /\ slot \cap ToSet(q) = {} /\ slot \cap IdsOf(ended) = {}
      /\ ToSet(q) \cap IdsOf(ended) = {}
      /\ waits \subseteq slot /\ QueuedIn(file) = waits \cup ToSet(q)
      /\ ToSet(ended) \subseteq ToSet(file)
  BY DEF Pictures
<1>3. IdsOf(t) = IdsOf(file) \cup ToSet(p) /\ QueuedIn(t) = QueuedIn(file) \cup ToSet(p)
  BY <1>0, <1>1 DEF Recorded
<1>4. \A job \in ToSet(file) : job.id \notin ToSet(p) => job \in ToSet(t)
  BY <1>0, <1>1 DEF Recorded
<1>5. /\ OncePerId(t)
      /\ \A a \in IdsOf(file) \ ToSet(p), b \in ToSet(p) : Ahead(t, a, b)
      /\ \A a, b : Precedes(p, a, b) => Ahead(t, a, b)
  BY <1>1, <1>2, RecordedLines
<1>6. ToSet(ended) \subseteq ToSet(t)
  BY <1>2, <1>4 DEF IdsOf
<1>7. /\ IdsOf(t) = slot \cup ToSet(p) \cup IdsOf(ended)
      /\ slot \cap ToSet(p) = {} /\ ToSet(p) \cap IdsOf(ended) = {}
      /\ QueuedIn(t) = waits \cup ToSet(p)
  BY <1>2, <1>3
<1>8. \A a \in waits, b \in ToSet(p) : Ahead(t, a, b)
  BY <1>2, <1>5
<1>9. IdsOf(t) = IdsOf(file)
  BY <1>2, <1>3
<1>10. QED
  BY <1>2, <1>5, <1>6, <1>7, <1>8, <1>9 DEF Pictures

(* cancel of a queued job.                                                 *)
LEMMA DismissedPicture ==
  ASSUME NEW file \in Seq(StoredJobs), NEW q \in Seq(Ids), NEW ended \in Seq(StoredJobs),
         NEW slot, NEW waits, Pictures(file, q, ended, slot, waits), NEW n \in DOMAIN q
  PROVE  /\ Pictures(WithRecord(file, q[n], "Cancelled"), RemoveAt(q, n),
                     Append(ended, [id |-> q[n], state |-> "Cancelled"]), slot, waits)
         /\ IdsOf(WithRecord(file, q[n], "Cancelled")) = IdsOf(file)
<1> PICK id : id = q[n]
  OBVIOUS
<1> PICK t, p, e : /\ t = WithRecord(file, id, "Cancelled") /\ p = RemoveAt(q, n)
                   /\ e = Append(ended, [id |-> id, state |-> "Cancelled"])
  OBVIOUS
<1>1. "Cancelled" \in JobStates /\ id \in Ids
  BY ElementOfSeq DEF JobStates, FinalStates
<1>0. Recorded(t, file, {id}, "Cancelled")
  BY <1>1, RecordedId
<1>2. /\ OncePerId(file) /\ Distinct(q) /\ OncePerId(ended)
      /\ IdsOf(file) = slot \cup ToSet(q) \cup IdsOf(ended)
      /\ slot \cap ToSet(q) = {} /\ slot \cap IdsOf(ended) = {}
      /\ ToSet(q) \cap IdsOf(ended) = {}
      /\ waits \subseteq slot /\ QueuedIn(file) = waits \cup ToSet(q)
      /\ ToSet(ended) \subseteq ToSet(file)
      /\ \A a \in waits, b \in ToSet(q) : Ahead(file, a, b)
      /\ \A a, b : Precedes(q, a, b) => Ahead(file, a, b)
  BY DEF Pictures
<1>3. /\ id \in ToSet(q) /\ Distinct(p) /\ ToSet(p) = ToSet(q) \ {id}
      /\ \A a, b : Precedes(p, a, b) => Precedes(q, a, b)
  BY <1>2, Dropped
<1>4. IdsOf(t) = IdsOf(file) \cup {id} /\ QueuedIn(t) = QueuedIn(file) \ {id}
  BY <1>0, <1>1 DEF Recorded
<1>5. /\ \A job \in ToSet(file) : job.id # id => job \in ToSet(t)
      /\ [id |-> id, state |-> "Cancelled"] \in ToSet(t)
  BY <1>0, <1>1 DEF Recorded
<1>6. /\ OncePerId(t)
      /\ \A a, b : a # id /\ b # id /\ Ahead(file, a, b) => Ahead(t, a, b)
  BY <1>1, <1>2, RecordedLine
<1>7. PICK job : job = [id |-> id, state |-> "Cancelled"]
  OBVIOUS
<1>8. job \in StoredJobs /\ job.id = id
  BY <1>1, <1>7 DEF StoredJobs
<1>9. /\ ToSet(e) = ToSet(ended) \cup {job} /\ IdsOf(e) = IdsOf(ended) \cup {id}
      /\ OncePerId(e)
  BY <1>2, <1>3, <1>7, <1>8, AppendedLine
<1>10. ToSet(e) \subseteq ToSet(t)
  BY <1>2, <1>3, <1>5, <1>7, <1>9 DEF IdsOf
<1>11. \A a, b : Precedes(p, a, b) => a \in ToSet(p) /\ b \in ToSet(p)
  BY DEF Precedes, ToSet
<1>12. \A a, b : Precedes(p, a, b) => Ahead(t, a, b)
  BY <1>2, <1>3, <1>6, <1>11
<1>13. \A a \in waits, b \in ToSet(p) : Ahead(t, a, b)
  BY <1>2, <1>3, <1>6
<1>14. /\ IdsOf(t) = slot \cup ToSet(p) \cup IdsOf(e)
       /\ slot \cap ToSet(p) = {} /\ slot \cap IdsOf(e) = {}
       /\ ToSet(p) \cap IdsOf(e) = {}
       /\ QueuedIn(t) = waits \cup ToSet(p) /\ IdsOf(t) = IdsOf(file)
  BY <1>2, <1>3, <1>4, <1>9
<1>15. QED
  BY <1>2, <1>3, <1>6, <1>9, <1>10, <1>12, <1>13, <1>14 DEF Pictures

(* take_next.                                                              *)
LEMMA TakenPicture ==
  ASSUME NEW file, NEW q \in Seq(Ids), q # <<>>, NEW ended, NEW waits,
         Pictures(file, q, ended, {}, waits)
  PROVE  Pictures(file, Tail(q), ended, {Head(q)}, {Head(q)})
<1>1. PICK p, c : p = Tail(q) /\ c = Head(q)
  OBVIOUS
<1>2. /\ OncePerId(file) /\ Distinct(q) /\ OncePerId(ended)
      /\ IdsOf(file) = ToSet(q) \cup IdsOf(ended)
      /\ ToSet(q) \cap IdsOf(ended) = {}
      /\ QueuedIn(file) = ToSet(q) /\ ToSet(ended) \subseteq ToSet(file)
      /\ \A a, b : Precedes(q, a, b) => Ahead(file, a, b)
  BY DEF Pictures
<1>3. /\ c \in ToSet(q) /\ ToSet(p) = ToSet(q) \ {c} /\ Distinct(p)
      /\ \A a, b : Precedes(p, a, b) => Precedes(q, a, b)
      /\ \A b \in ToSet(p) : Precedes(q, c, b)
  BY <1>1, <1>2, Taken
<1>4. /\ IdsOf(file) = {c} \cup ToSet(p) \cup IdsOf(ended)
      /\ {c} \cap ToSet(p) = {} /\ {c} \cap IdsOf(ended) = {}
      /\ ToSet(p) \cap IdsOf(ended) = {} /\ QueuedIn(file) = {c} \cup ToSet(p)
  BY <1>2, <1>3
<1>5. /\ \A a \in {c}, b \in ToSet(p) : Ahead(file, a, b)
      /\ \A a, b : Precedes(p, a, b) => Ahead(file, a, b)
  BY <1>2, <1>3
<1>6. QED
  BY <1>1, <1>2, <1>3, <1>4, <1>5 DEF Pictures

(* start: the record of the job in the slot.                               *)
LEMMA StartedPicture ==
  ASSUME NEW file \in Seq(StoredJobs), NEW q \in Seq(Ids), NEW ended, NEW c \in Ids,
         Pictures(file, q, ended, {c}, {c}), NEW t, t = WithRecord(file, c, "Running")
  PROVE  Pictures(t, q, ended, {c}, {}) /\ IdsOf(t) = IdsOf(file)
<1>1. "Running" \in JobStates /\ c \in Ids
  BY DEF JobStates
<1>0. Recorded(t, file, {c}, "Running")
  BY <1>1, RecordedId
<1>2. /\ OncePerId(file) /\ Distinct(q) /\ OncePerId(ended)
      /\ IdsOf(file) = {c} \cup ToSet(q) \cup IdsOf(ended)
      /\ {c} \cap ToSet(q) = {} /\ {c} \cap IdsOf(ended) = {}
      /\ ToSet(q) \cap IdsOf(ended) = {}
      /\ QueuedIn(file) = {c} \cup ToSet(q) /\ ToSet(ended) \subseteq ToSet(file)
      /\ \A a, b : Precedes(q, a, b) => Ahead(file, a, b)
  BY DEF Pictures
<1>3. IdsOf(t) = IdsOf(file) \cup {c} /\ QueuedIn(t) = QueuedIn(file) \ {c}
  <2>1. IdsOf(t) = IdsOf(file) \cup {c}
    BY <1>0, <1>1 DEF Recorded
  <2>2. QueuedIn(t) = QueuedIn(file) \ {c}
    BY <1>0, <1>1 DEF Recorded
  <2>3. QED
    BY <2>1, <2>2
<1>4. \A job \in ToSet(file) : job.id # c => job \in ToSet(t)
  BY <1>0, <1>1 DEF Recorded
<1>5. /\ OncePerId(t)
      /\ \A a, b : a # c /\ b # c /\ Ahead(file, a, b) => Ahead(t, a, b)
  BY <1>1, <1>2, RecordedLine
<1>6. ToSet(ended) \subseteq ToSet(t)
  BY <1>2, <1>4 DEF IdsOf
<1>7. \A a, b : Precedes(q, a, b) => a \in ToSet(q) /\ b \in ToSet(q)
  BY DEF Precedes, ToSet
<1>8. \A a, b : Precedes(q, a, b) => Ahead(t, a, b)
  BY <1>2, <1>5, <1>7
<1>9. IdsOf(t) = IdsOf(file) /\ QueuedIn(t) = ToSet(q)
  BY <1>2, <1>3
<1>10. QED
  BY <1>2, <1>5, <1>6, <1>8, <1>9 DEF Pictures

(* finish.                                                                 *)
LEMMA FinishedPicture ==
  ASSUME NEW file \in Seq(StoredJobs), NEW q \in Seq(Ids), NEW ended \in Seq(StoredJobs),
         NEW c \in Ids, Pictures(file, q, ended, {c}, {}), NEW state \in FinalStates
  PROVE  /\ Pictures(WithRecord(file, c, state), q,
                     Append(ended, [id |-> c, state |-> state]), {}, {})
         /\ IdsOf(WithRecord(file, c, state)) = IdsOf(file)
<1> PICK t, e : /\ t = WithRecord(file, c, state)
                /\ e = Append(ended, [id |-> c, state |-> state])
  OBVIOUS
<1>1. state \in JobStates /\ state # "Queued"
  BY DEF JobStates, FinalStates
<1>0. Recorded(t, file, {c}, state)
  BY <1>1, RecordedId
<1>2. /\ OncePerId(file) /\ Distinct(q) /\ OncePerId(ended)
      /\ IdsOf(file) = {c} \cup ToSet(q) \cup IdsOf(ended)
      /\ {c} \cap ToSet(q) = {} /\ {c} \cap IdsOf(ended) = {}
      /\ ToSet(q) \cap IdsOf(ended) = {}
      /\ QueuedIn(file) = ToSet(q) /\ ToSet(ended) \subseteq ToSet(file)
      /\ \A a, b : Precedes(q, a, b) => Ahead(file, a, b)
  BY DEF Pictures
<1>3. IdsOf(t) = IdsOf(file) \cup {c} /\ QueuedIn(t) = QueuedIn(file) \ {c}
  <2>1. IdsOf(t) = IdsOf(file) \cup {c}
    BY <1>0, <1>1 DEF Recorded
  <2>2. QueuedIn(t) = QueuedIn(file) \ {c}
    BY <1>0, <1>1 DEF Recorded
  <2>3. QED
    BY <2>1, <2>2
<1>4. /\ \A job \in ToSet(file) : job.id # c => job \in ToSet(t)
      /\ [id |-> c, state |-> state] \in ToSet(t)
  BY <1>0, <1>1 DEF Recorded
<1>5. /\ OncePerId(t)
      /\ \A a, b : a # c /\ b # c /\ Ahead(file, a, b) => Ahead(t, a, b)
  BY <1>1, <1>2, RecordedLine
<1>6. PICK job : job = [id |-> c, state |-> state]
  OBVIOUS
<1>7. job \in StoredJobs /\ job.id = c
  BY <1>1, <1>6 DEF StoredJobs
<1>8. /\ ToSet(e) = ToSet(ended) \cup {job} /\ IdsOf(e) = IdsOf(ended) \cup {c}
      /\ OncePerId(e)
  BY <1>2, <1>6, <1>7, AppendedLine
<1>9. ToSet(e) \subseteq ToSet(t)
  BY <1>2, <1>4, <1>6, <1>8 DEF IdsOf
<1>10. \A a, b : Precedes(q, a, b) => a \in ToSet(q) /\ b \in ToSet(q)
  BY DEF Precedes, ToSet
<1>11. \A a, b : Precedes(q, a, b) => Ahead(t, a, b)
  BY <1>2, <1>5, <1>10
<1>12. /\ IdsOf(t) = ToSet(q) \cup IdsOf(e) /\ ToSet(q) \cap IdsOf(e) = {}
       /\ QueuedIn(t) = ToSet(q) /\ IdsOf(t) = IdsOf(file)
  BY <1>2, <1>3, <1>8
<1>13. QED
  BY <1>2, <1>5, <1>8, <1>9, <1>11, <1>12 DEF Pictures

(* stop_for_exit's drain.                                                  *)
LEMMA DrainedPicture ==
  ASSUME NEW file \in Seq(StoredJobs), NEW q \in Seq(Ids), NEW ended \in Seq(StoredJobs),
         NEW slot, NEW waits, Pictures(file, q, ended, slot, waits),
         NEW t, t = WithRecords(file, q, "Cancelled"),
         NEW e, e = ended \o RecordsOf(q, "Cancelled")
  PROVE  Pictures(t, <<>>, e, slot, waits) /\ IdsOf(t) = IdsOf(file)
<1>1. "Cancelled" \in JobStates
  BY DEF JobStates, FinalStates
<1>0. Recorded(t, file, ToSet(q), "Cancelled")
  BY <1>1, RecordedIds
<1>2. /\ OncePerId(file) /\ Distinct(q) /\ OncePerId(ended)
      /\ IdsOf(file) = slot \cup ToSet(q) \cup IdsOf(ended)
      /\ slot \cap ToSet(q) = {} /\ slot \cap IdsOf(ended) = {}
      /\ ToSet(q) \cap IdsOf(ended) = {}
      /\ waits \subseteq slot /\ QueuedIn(file) = waits \cup ToSet(q)
      /\ ToSet(ended) \subseteq ToSet(file)
  BY DEF Pictures
<1>3. IdsOf(t) = IdsOf(file) \cup ToSet(q) /\ QueuedIn(t) = QueuedIn(file) \ ToSet(q)
  <2>1. IdsOf(t) = IdsOf(file) \cup ToSet(q)
    BY <1>0, <1>1 DEF Recorded
  <2>2. QueuedIn(t) = QueuedIn(file) \ ToSet(q)
    BY <1>0, <1>1 DEF Recorded
  <2>3. QED
    BY <2>1, <2>2
<1>4. /\ \A job \in ToSet(file) : job.id \notin ToSet(q) => job \in ToSet(t)
      /\ \A id \in ToSet(q) : [id |-> id, state |-> "Cancelled"] \in ToSet(t)
  BY <1>0, <1>1 DEF Recorded
<1>5. OncePerId(t)
  BY <1>1, <1>2, RecordedLines
<1>6. PICK r : r = RecordsOf(q, "Cancelled")
  OBVIOUS
<1>7. /\ r \in Seq(StoredJobs) /\ IdsOf(r) = ToSet(q) /\ OncePerId(r)
      /\ ToSet(r) = {[id |-> i, state |-> "Cancelled"] : i \in ToSet(q)}
  BY <1>1, <1>2, <1>6, RecordsOfLines
<1>8. ToSet(e) = ToSet(ended) \cup ToSet(r)
  BY <1>6, <1>7, Joined
<1>9. IdsOf(e) = IdsOf(ended) \cup ToSet(q)
  BY <1>7, <1>8 DEF IdsOf
<1>10. IdsOf(ended) \cap IdsOf(r) = {}
  BY <1>2, <1>7
<1>11. OncePerId(e)
  BY <1>2, <1>6, <1>7, <1>10, JoinedLines
<1>12. ToSet(e) \subseteq ToSet(t)
  <2>1. ToSet(ended) \subseteq ToSet(t)
    BY <1>2, <1>4 DEF IdsOf
  <2>2. ToSet(r) \subseteq ToSet(t)
    BY <1>4, <1>7
  <2>3. QED
    BY <1>8, <2>1, <2>2
<1>13. DOMAIN <<>> = {}
  OBVIOUS
<1>14. /\ ToSet(<<>>) = {} /\ Distinct(<<>>)
       /\ \A a, b : ~Precedes(<<>>, a, b)
  BY <1>13 DEF ToSet, Distinct, Precedes
<1>15. /\ IdsOf(t) = slot \cup IdsOf(e) /\ slot \cap IdsOf(e) = {}
       /\ QueuedIn(t) = waits /\ IdsOf(t) = IdsOf(file)
  BY <1>2, <1>3, <1>9
<1>16. QED
  BY <1>2, <1>5, <1>11, <1>12, <1>14, <1>15 DEF Pictures

(* load_jobs_file.                                                         *)
EndedJobs == [id : Ids, state : FinalStates]

LEMMA SequenceOver ==
  ASSUME NEW X, NEW Y, NEW s \in Seq(X), ToSet(s) \subseteq Y
  PROVE  s \in Seq(Y)
<1>1. Len(s) \in Nat /\ DOMAIN s = 1..Len(s) /\ s = [n \in 1..Len(s) |-> s[n]]
  BY LenProperties
<1>2. \A n \in 1..Len(s) : s[n] \in Y
  BY <1>1 DEF ToSet
<1>3. QED
  BY <1>1, <1>2

LEMMA ReloadedPicture ==
  ASSUME NEW jobs \in Seq(StoredJobs), OncePerId(jobs),
         \A n \in DOMAIN jobs : jobs[n].state # "Running",
         NEW k, k = Kept(jobs, {n \in DOMAIN jobs : jobs[n].state = "Queued"}),
         NEW p, p = [n \in DOMAIN k |-> k[n].id],
         NEW e, e = Kept(jobs, {n \in DOMAIN jobs : jobs[n].state # "Queued"})
  PROVE  Pictures(jobs, p, e, {}, {}) /\ p \in Seq(Ids) /\ e \in Seq(EndedJobs)
<1>1. PICK I, J : /\ I = {n \in DOMAIN jobs : jobs[n].state = "Queued"}
                  /\ J = {n \in DOMAIN jobs : jobs[n].state # "Queued"}
  OBVIOUS
<1>2. I \subseteq DOMAIN jobs /\ J \subseteq DOMAIN jobs /\ DOMAIN jobs = I \cup J
  BY <1>1
<1>3. /\ k \in Seq(StoredJobs) /\ ToSet(k) = {jobs[i] : i \in I} /\ OncePerId(k)
      /\ \A m, n \in DOMAIN k : m < n => Ahead(jobs, k[m].id, k[n].id)
  BY <1>1, <1>2, KeptLines
<1>4. e \in Seq(StoredJobs) /\ ToSet(e) = {jobs[i] : i \in J} /\ OncePerId(e)
  BY <1>1, <1>2, KeptLines
<1>5. ToSet(k) \subseteq ToSet(jobs) /\ ToSet(e) \subseteq ToSet(jobs)
      /\ ToSet(jobs) = ToSet(k) \cup ToSet(e)
  BY <1>2, <1>3, <1>4 DEF ToSet
<1>6. \A job \in ToSet(jobs) :
        /\ job \in StoredJobs /\ job.state # "Running"
        /\ job \in ToSet(k) => job.state = "Queued"
        /\ job \in ToSet(e) => job.state # "Queued"
  <2>1. \A n \in DOMAIN jobs : jobs[n] \in StoredJobs
    BY ElementOfSeq, LenProperties
  <2>2. QED
    BY <1>1, <1>3, <1>4, <2>1 DEF ToSet
<1>7. k \in [1..Len(k) -> StoredJobs] /\ Len(k) \in Nat /\ DOMAIN k = 1..Len(k)
  BY <1>3, LenProperties
<1>8. p \in Seq(Ids)
  <2>1. \A n \in 1..Len(k) : k[n].id \in Ids
    BY <1>7 DEF StoredJobs
  <2>2. PICK l : l = Len(k)
    OBVIOUS
  <2>3. l \in Nat /\ p = [n \in 1..l |-> k[n].id]
    BY <1>7, <2>2
  <2>4. QED
    BY <2>1, <2>2, <2>3
<1>9. DOMAIN p = DOMAIN k /\ \A n \in DOMAIN k : p[n] = k[n].id
  OBVIOUS
<1>10. ToSet(p) = IdsOf(k)
  <2>1. IdsOf(k) = {k[n].id : n \in DOMAIN k}
    BY DEF IdsOf, ToSet
  <2>2. QED
    BY <1>9, <2>1 DEF ToSet
<1>11. Distinct(p)
  BY <1>3, <1>9 DEF Distinct, OncePerId
<1>12. \A a, b : Precedes(p, a, b) => Ahead(jobs, a, b)
  BY <1>3, <1>9 DEF Precedes
<1>13. QueuedIn(jobs) = IdsOf(k)
  <2>1. QueuedIn(jobs) = {job.id : job \in {j \in ToSet(jobs) : j.state = "Queued"}}
    BY IdsAre
  <2>2. {j \in ToSet(jobs) : j.state = "Queued"} = ToSet(k)
    BY <1>5, <1>6
  <2>3. QED
    BY <2>1, <2>2 DEF IdsOf
<1>14. IdsOf(jobs) = IdsOf(k) \cup IdsOf(e)
  BY <1>5 DEF IdsOf
<1>15. IdsOf(k) \cap IdsOf(e) = {}
  <2>1. \A i, j \in ToSet(jobs) : i.id = j.id => i = j
    BY IdsAre
  <2>2. \A i \in ToSet(k), j \in ToSet(e) : i \in ToSet(jobs) /\ j \in ToSet(jobs) /\ i # j
    BY <1>5, <1>6
  <2>3. \A i \in ToSet(k), j \in ToSet(e) : i.id # j.id
    BY <2>1, <2>2
  <2>4. QED
    BY <2>3 DEF IdsOf
<1>16. e \in Seq(EndedJobs)
  <2>1. ToSet(e) \subseteq EndedJobs
    BY <1>5, <1>6 DEF StoredJobs, JobStates, EndedJobs
  <2>2. QED
    BY <1>4, <2>1, SequenceOver
<1>17. Pictures(jobs, p, e, {}, {})
  BY <1>4, <1>5, <1>10, <1>11, <1>12, <1>13, <1>14, <1>15 DEF Pictures
<1>18. QED
  BY <1>8, <1>16, <1>17

(* What the properties of the list and of the file ask of the picture.     *)
LEMMA ListedOnce ==
  ASSUME NEW s, NEW X, s \in Seq(X), Distinct(s)
  PROVE  Len(s) = Cardinality(ToSet(s))
<1>1. Len(s) \in Nat /\ DOMAIN s = 1..Len(s) /\ s \in [1..Len(s) -> X]
  BY LenProperties
<1>2. IsFiniteSet(1..Len(s)) /\ Cardinality(1..Len(s)) = Len(s)
  BY <1>1, FS_Interval
<1>3. s \in Bijection(1..Len(s), ToSet(s))
  <2>1. s \in [1..Len(s) -> ToSet(s)]
    BY <1>1 DEF ToSet
  <2>2. s \in Injection(1..Len(s), ToSet(s))
    BY <1>1, <2>1 DEF Distinct, Injection, IsInjective
  <2>3. s \in Surjection(1..Len(s), ToSet(s))
    BY <1>1, <2>1 DEF Surjection, ToSet
  <2>4. QED
    BY <2>2, <2>3 DEF Bijection
<1>4. QED
  BY <1>2, <1>3, FS_Bijection DEF ExistsBijection

LEMMA EndedOnce ==
  ASSUME NEW jobs \in Seq(EndedJobs), OncePerId(jobs)
  PROVE  Len(jobs) = Cardinality(IdsOf(jobs))
<1>1. PICK s : s = [n \in DOMAIN jobs |-> jobs[n].id]
  OBVIOUS
<1>2. /\ Len(jobs) \in Nat /\ DOMAIN jobs = 1..Len(jobs)
      /\ \A n \in 1..Len(jobs) : jobs[n].id \in Ids
  <2>1. /\ Len(jobs) \in Nat /\ DOMAIN jobs = 1..Len(jobs)
        /\ jobs \in [1..Len(jobs) -> EndedJobs]
    BY LenProperties
  <2>2. QED
    BY <2>1 DEF EndedJobs
<1>3. s \in Seq(Ids) /\ Len(s) = Len(jobs) /\ DOMAIN s = DOMAIN jobs
  BY <1>1, <1>2
<1>4. Distinct(s)
  BY <1>1, <1>3 DEF Distinct, OncePerId
<1>5. ToSet(s) = IdsOf(jobs)
  <2>1. IdsOf(jobs) = {jobs[n].id : n \in DOMAIN jobs}
    BY IdsAre
  <2>2. QED
    BY <1>1, <2>1 DEF ToSet
<1>6. QED
  BY <1>3, <1>4, <1>5, ListedOnce

LEMMA OrderIsThere ==
  ASSUME NEW file, NEW q \in Seq(Ids), NEW ended, NEW slot, NEW waits,
         Pictures(file, q, ended, slot, waits),
         NEW w \in Seq(Ids), \/ w = <<>> /\ waits = {}
                             \/ \E c \in Ids : w = <<c>> /\ waits = {c}
  PROVE  /\ QueuedIn(file) = ToSet(w \o q)
         /\ \A m, n \in DOMAIN (w \o q) : m < n => Ahead(file, (w \o q)[m], (w \o q)[n])
<1>1. PICK s, k : s = w \o q /\ k = Len(w)
  OBVIOUS
<1>2. /\ QueuedIn(file) = waits \cup ToSet(q)
      /\ \A a \in waits, b \in ToSet(q) : Ahead(file, a, b)
      /\ \A a, b : Precedes(q, a, b) => Ahead(file, a, b)
  BY DEF Pictures
<1>3. ToSet(w) = waits /\ k \in 0..1 /\ DOMAIN w = 1..k
  <2>1. CASE w = <<>> /\ waits = {}
    BY <1>1, <2>1 DEF ToSet
  <2>2. CASE \E c \in Ids : w = <<c>> /\ waits = {c}
    <3>1. PICK c \in Ids : w = <<c>> /\ waits = {c}
      BY <2>2
    <3>2. Len(w) = 1 /\ DOMAIN w = 1..1 /\ w[1] = c
      BY <3>1
    <3>3. QED
      BY <1>1, <3>1, <3>2 DEF ToSet
  <2>3. QED
    BY <2>1, <2>2
<1>4. /\ DOMAIN q \subseteq Nat \ {0} /\ ToSet(s) = ToSet(w) \cup ToSet(q)
      /\ \A n \in DOMAIN w : s[n] = w[n]
      /\ \A n \in DOMAIN q : s[k + n] = q[n]
      /\ \A n \in DOMAIN s : n \in DOMAIN w \/ \E l \in DOMAIN q : n = k + l
  <2>1. /\ DOMAIN q = 1..Len(q) /\ Len(q) \in Nat
        /\ ToSet(w \o q) = ToSet(w) \cup ToSet(q)
    BY Joined
  <2>2. /\ \A n \in DOMAIN w : (w \o q)[n] = w[n]
        /\ \A n \in DOMAIN q : (w \o q)[Len(w) + n] = q[n]
    BY Joined
  <2>3. \A n \in DOMAIN (w \o q) : n \in DOMAIN w \/ \E l \in DOMAIN q : n = Len(w) + l
    BY Joined
  <2>4. QED
    BY <1>1, <2>1, <2>2, <2>3
<1>5. ASSUME NEW m \in DOMAIN s, NEW n \in DOMAIN s, m < n
      PROVE  Ahead(file, s[m], s[n])
  <2>1. PICK l \in DOMAIN q : n = k + l
    BY <1>3, <1>4, <1>5
  <2>2. CASE m \in DOMAIN w
    <3>1. s[m] \in waits /\ s[n] \in ToSet(q)
      BY <1>3, <1>4, <2>1, <2>2 DEF ToSet
    <3>2. QED
      BY <1>2, <3>1
  <2>3. CASE m \notin DOMAIN w
    <3>1. PICK j \in DOMAIN q : m = k + j
      BY <1>4, <2>3
    <3>2. j < l
      BY <1>3, <1>4, <1>5, <2>1, <3>1
    <3>3. Precedes(q, s[m], s[n])
      BY <1>4, <2>1, <3>1, <3>2 DEF Precedes
    <3>4. QED
      BY <1>2, <3>3
  <2>4. QED
    BY <2>2, <2>3
<1>6. QED
  BY <1>1, <1>2, <1>3, <1>4, <1>5

-----------------------------------------------------------------------------
(* Types, and who is where: nothing here reads the file.                    *)

Waits == IF worker \in {"taken", "started"} THEN {current_id} ELSE {}

WorkerInv ==
  /\ worker = "taken" => current_id # NoJob /\ current_state = "Queued"
  /\ worker \in {"started", "building"} => current_id # NoJob /\ current_state = "Running"
  /\ worker \in {"looping", "taking", "finished", "leaving"} =>
       current_id = NoJob \/ current_state \in FinalStates
  /\ worker = "none" => current_id = NoJob

ExitInv ==
  /\ exit # "none" => closing
  /\ exit \in {"waiting", "returned"} => cancel

Stopped ==
  /\ next_id = 1 /\ reserved = {} /\ queue = <<>> /\ history = <<>>
  /\ current_id = NoJob /\ worker = "none"

LoadedInv ==
  /\ OncePerId(loaded) /\ \A n \in DOMAIN loaded : loaded[n].state # "Running"
  /\ process # "rewriting" => loaded = <<>>
  /\ process = "rewriting" => jobs_file = <<>>
  /\ process # "running" => Stopped /\ OncePerId(jobs_file)

LEMMA StopTypes ==
  ASSUME TypeOK, NEW file \in Seq(StoredJobs), StopsLeaving(file)
  PROVE  TypeOK'
<1>1. QueuedIn(file) \subseteq Ids
  <2>1. \A n \in DOMAIN file : file[n] \in StoredJobs
    BY ElementOfSeq, LenProperties
  <2>2. QED
    BY <2>1 DEF QueuedIn, StoredJobs
<1>2. <<>> \in Seq(StoredJobs) /\ <<>> \in Seq(Ids) /\ <<>> \in Seq(EndedJobs)
  OBVIOUS
<1>3. stops' \in 0..MaxStops
  BY JobQueueAssumption DEF StopsLeaving, TypeOK
<1>4. 1 \in 1..(MaxJobs + 1)
  BY JobQueueAssumption
<1>5. jobs_file' \in Seq(StoredJobs) /\ loaded' \in Seq(StoredJobs)
      /\ queue' \in Seq(Ids) /\ history' \in Seq(EndedJobs) /\ recorded' \subseteq Ids
  BY <1>1, <1>2 DEF StopsLeaving
<1>6. QED
  BY <1>3, <1>4, <1>5 DEF StopsLeaving, TypeOK, EndedJobs, JobStates, NoJob

LEMMA StopFiles ==
  ASSUME TypeOK, OncePerId(jobs_file), Distinct(queue)
  PROVE  /\ \A id \in Ids, before \in Ids \cup {NoJob} : MayMove(id, before) =>
              \A n \in 1..Len(queue) :
                LET file == WithRecords(jobs_file, SubSeq(MovedBefore(id, before), 1, n),
                                        "Queued")
                IN  file \in Seq(StoredJobs) /\ OncePerId(file)
         /\ \A n \in 1..Len(queue) :
              LET file == WithRecords(jobs_file, SubSeq(queue, 1, n), "Cancelled")
              IN  file \in Seq(StoredJobs) /\ OncePerId(file)
<1>1. /\ jobs_file \in Seq(StoredJobs) /\ queue \in Seq(Ids)
      /\ "Queued" \in JobStates /\ "Cancelled" \in JobStates
  BY DEF TypeOK, JobStates, FinalStates
<1>2. ASSUME NEW p \in Seq(Ids), Distinct(p), NEW n \in 0..Len(p), NEW state \in JobStates
      PROVE  LET file == WithRecords(jobs_file, SubSeq(p, 1, n), state)
             IN  file \in Seq(StoredJobs) /\ OncePerId(file)
  <2>1. PICK f : f = SubSeq(p, 1, n)
    OBVIOUS
  <2>2. f \in Seq(Ids) /\ Distinct(f)
    BY <1>2, <2>1, FirstOf
  <2>3. QED
    BY <1>1, <2>1, <2>2, RecordedLines
<1>3. ASSUME NEW id \in Ids, NEW before \in Ids \cup {NoJob}, MayMove(id, before),
             NEW n \in 1..Len(queue)
      PROVE  LET file == WithRecords(jobs_file, SubSeq(MovedBefore(id, before), 1, n), "Queued")
             IN  file \in Seq(StoredJobs) /\ OncePerId(file)
  <2>1. PICK p : p = MovedBefore(id, before)
    OBVIOUS
  <2>2. p \in Seq(Ids) /\ Distinct(p) /\ ToSet(p) = ToSet(queue)
    BY <1>1, <1>3, <2>1, MovedKeeps
  <2>3. Len(p) = Len(queue)
    BY <1>1, <2>2, ListedOnce
  <2>4. n \in 0..Len(p)
    BY <1>1, <2>3, LenProperties
  <2>5. QED
    BY <1>1, <1>2, <2>1, <2>2, <2>4
<1>4. ASSUME NEW n \in 1..Len(queue)
      PROVE  LET file == WithRecords(jobs_file, SubSeq(queue, 1, n), "Cancelled")
             IN  file \in Seq(StoredJobs) /\ OncePerId(file)
  <2>1. n \in 0..Len(queue)
    BY <1>1, LenProperties
  <2>2. QED
    BY <1>1, <1>2, <2>1
<1>5. QED
  BY <1>3, <1>4

QuietWorker == WorkerSpawns \/ WorkerChecksClosing \/ StartMarks \/ WorkerLoops \/ clear_current
QuietExit == ExitCloses \/ ExitCancels \/ ExitReturns

Files ==
  \/ \E id \in Ids : submit(id) \/ cancel_job(id)
  \/ \E id \in Ids, before \in Ids \cup {NoJob} : move_before(id, before)
  \/ StartRecords \/ (\E state \in FinalStates : finish(state)) \/ ExitDrains

Stops ==
  \/ ProcessStops \/ StopsInExit
  \/ \E id \in Ids, before \in Ids \cup {NoJob} : StopsInMove(id, before)

LEMMA StepKinds ==
  Next => \/ reserve_job_id \/ take_next \/ QuietWorker \/ QuietExit
          \/ Files \/ Stops
          \/ LoadReads \/ load_jobs_file \/ StopsWhileRewriting
BY DEF Next, Worker, Exit, QuietWorker, QuietExit, Files, Stops

(* A stop, wherever it comes, leaves a file that still holds each id once.  *)
LEMMA StopsLeaveAFile ==
  ASSUME TypeOK, OncePerId(jobs_file), process = "running" => Distinct(queue), Stops
  PROVE  \E file \in Seq(StoredJobs) : OncePerId(file) /\ StopsLeaving(file)
<1>1. CASE ProcessStops
  BY <1>1 DEF ProcessStops, TypeOK
<1>2. CASE StopsInExit
  <2>1. PICK n \in 1..Len(queue) :
          StopsLeaving(WithRecords(jobs_file, SubSeq(queue, 1, n), "Cancelled"))
    BY <1>2 DEF StopsInExit
  <2>2. Distinct(queue)
    BY <2>1 DEF StopsLeaving
  <2>3. PICK file : file = WithRecords(jobs_file, SubSeq(queue, 1, n), "Cancelled")
    OBVIOUS
  <2>4. file \in Seq(StoredJobs) /\ OncePerId(file)
    BY <2>2, <2>3, StopFiles
  <2>5. QED
    BY <2>1, <2>3, <2>4
<1>3. ASSUME NEW id \in Ids, NEW before \in Ids \cup {NoJob}, StopsInMove(id, before)
      PROVE  \E file \in Seq(StoredJobs) : OncePerId(file) /\ StopsLeaving(file)
  <2>1. /\ MayMove(id, before)
        /\ \E n \in 1..Len(queue) :
             StopsLeaving(WithRecords(jobs_file, SubSeq(MovedBefore(id, before), 1, n),
                                      "Queued"))
    BY <1>3 DEF StopsInMove
  <2>2. PICK n \in 1..Len(queue) :
          StopsLeaving(WithRecords(jobs_file, SubSeq(MovedBefore(id, before), 1, n), "Queued"))
    BY <2>1
  <2>3. Distinct(queue)
    BY <2>2 DEF StopsLeaving
  <2>4. PICK file :
          file = WithRecords(jobs_file, SubSeq(MovedBefore(id, before), 1, n), "Queued")
    OBVIOUS
  <2>5. file \in Seq(StoredJobs) /\ OncePerId(file)
    BY <2>1, <2>3, <2>4, StopFiles
  <2>6. QED
    BY <2>2, <2>4, <2>5
<1>4. QED
  BY <1>1, <1>2, <1>3 DEF Stops

(* The types of what the panels, the worker and the exit write.             *)
LEMMA FileTypes ==
  ASSUME TypeOK, WorkerInv, process = "running" => Distinct(queue), Files
  PROVE  TypeOK'
<1>1. /\ jobs_file \in Seq(StoredJobs) /\ queue \in Seq(Ids) /\ history \in Seq(EndedJobs)
      /\ "Queued" \in JobStates /\ "Running" \in JobStates /\ FinalStates \subseteq JobStates
      /\ "Cancelled" \in FinalStates
  BY DEF TypeOK, JobStates, FinalStates, EndedJobs
<1>2. ASSUME NEW id \in Ids, NEW state \in JobStates
      PROVE  WithRecord(jobs_file, id, state) \in Seq(StoredJobs)
  BY <1>1, RecordedLine
<1>3. ASSUME NEW id \in Ids, NEW state \in FinalStates
      PROVE  Append(history, [id |-> id, state |-> state]) \in Seq(EndedJobs)
  BY <1>1 DEF EndedJobs
<1>4. ASSUME NEW id \in Ids, submit(id)
      PROVE  TypeOK'
  <2>1. jobs_file' \in Seq(StoredJobs)
    BY <1>1, <1>2, <1>4 DEF submit, Record
  <2>2. queue' \in Seq(Ids) /\ reserved' \subseteq Ids
    BY <1>1, <1>4 DEF submit, TypeOK
  <2>3. QED
    BY <1>4, <2>1, <2>2 DEF submit, Panel, processVars, TypeOK
<1>5. ASSUME NEW id \in Ids, cancel_job(id)
      PROVE  TypeOK'
  <2>1. /\ jobs_file' \in Seq(StoredJobs) /\ queue' \in Seq(Ids)
        /\ history' \in Seq(EndedJobs) /\ cancel_asked' \subseteq Ids /\ cancel' \in BOOLEAN
    <3>1. CASE UNCHANGED <<jobs_file, queue, history>> /\ cancel' = TRUE
                 /\ cancel_asked' = cancel_asked \cup {id}
      BY <1>1, <1>5, <3>1 DEF TypeOK
    <3>2. CASE /\ id \in ToSet(queue) /\ queue' = RemoveAt(queue, PositionOf(id))
               /\ RecordFinished(id, "Cancelled") /\ UNCHANGED <<cancel, cancel_asked>>
      <4>1. PositionOf(id) \in DOMAIN queue
        BY <3>2 DEF PositionOf, ToSet
      <4>2. queue' \in Seq(Ids)
        BY <1>1, <3>2, <4>1, Removed
      <4>3. jobs_file' \in Seq(StoredJobs) /\ history' \in Seq(EndedJobs)
        BY <1>1, <1>2, <1>3, <3>2 DEF RecordFinished, Record
      <4>4. QED
        BY <3>2, <4>2, <4>3 DEF TypeOK
    <3>3. QED
      BY <1>5, <3>1, <3>2 DEF cancel_job
  <2>2. QED
    BY <1>5, <2>1 DEF cancel_job, Panel, processVars, TypeOK, EndedJobs
<1>6. ASSUME NEW id \in Ids, NEW before \in Ids \cup {NoJob}, move_before(id, before)
      PROVE  TypeOK'
  <2>1. MayMove(id, before) /\ Distinct(queue)
    BY <1>6 DEF move_before, Panel
  <2>2. queue' \in Seq(Ids)
    <3>1. MovedBefore(id, before) \in Seq(Ids)
      BY <1>1, <2>1, MovedKeeps
    <3>2. QED
      BY <1>6, <3>1 DEF move_before
  <2>3. jobs_file' \in Seq(StoredJobs)
    BY <1>1, <1>6, <2>2, RecordedLines DEF move_before
  <2>4. QED
    BY <1>6, <2>2, <2>3 DEF move_before, Panel, processVars, TypeOK
<1>7. CASE StartRecords
  <2>1. current_id \in Ids
    BY <1>7 DEF StartRecords, WorkerAt, WorkerInv, TypeOK
  <2>2. jobs_file' \in Seq(StoredJobs)
    BY <1>1, <1>2, <1>7, <2>1 DEF StartRecords, Record
  <2>3. QED
    BY <1>7, <2>2 DEF StartRecords, WorkerAt, processVars, TypeOK
<1>8. ASSUME NEW state \in FinalStates, finish(state)
      PROVE  TypeOK'
  <2>1. current_id \in Ids
    BY <1>8 DEF finish, WorkerAt, WorkerInv, TypeOK
  <2>2. jobs_file' \in Seq(StoredJobs) /\ history' \in Seq(EndedJobs)
    BY <1>1, <1>2, <1>3, <1>8, <2>1 DEF finish, RecordFinished, Record
  <2>3. QED
    BY <1>1, <1>8, <2>2 DEF finish, WorkerAt, processVars, TypeOK, EndedJobs
<1>9. CASE ExitDrains
  <2>1. jobs_file' \in Seq(StoredJobs)
    BY <1>1, <1>9, RecordedLines DEF ExitDrains
  <2>2. PICK r : r = [n \in DOMAIN queue |-> [id |-> queue[n], state |-> "Cancelled"]]
    OBVIOUS
  <2>3. r \in Seq(EndedJobs)
    <3>1. PICK l : l = Len(queue)
      OBVIOUS
    <3>2. l \in Nat /\ DOMAIN queue = 1..l /\ \A n \in 1..l : queue[n] \in Ids
      BY <1>1, <3>1, LenProperties
    <3>3. /\ r = [n \in 1..l |-> [id |-> queue[n], state |-> "Cancelled"]]
          /\ \A n \in 1..l : [id |-> queue[n], state |-> "Cancelled"] \in EndedJobs
      BY <1>1, <2>2, <3>2 DEF EndedJobs
    <3>4. QED
      BY <3>2, <3>3
  <2>4. history' = history \o r
    BY <1>9, <2>2 DEF ExitDrains
  <2>5. history' \in Seq(EndedJobs)
    BY <1>1, <2>3, <2>4, ConcatProperties
  <2>6. queue' \in Seq(Ids)
    BY <1>9 DEF ExitDrains
  <2>7. QED
    BY <1>9, <2>1, <2>5, <2>6 DEF ExitDrains, ExitAt, processVars, TypeOK, EndedJobs
<1>10. QED
  BY <1>4, <1>5, <1>6, <1>7, <1>8, <1>9 DEF Files

LEMMA LoadTypes ==
  ASSUME TypeOK, LoadedInv, LoadReads \/ load_jobs_file \/ StopsWhileRewriting
  PROVE  TypeOK'
<1>1. /\ jobs_file \in Seq(StoredJobs) /\ loaded \in Seq(StoredJobs)
      /\ <<>> \in Seq(StoredJobs)
  BY DEF TypeOK
<1>2. CASE LoadReads
  <2>1. PICK l : l = Len(jobs_file)
    OBVIOUS
  <2>2. l \in Nat /\ DOMAIN jobs_file = 1..l /\ \A n \in 1..l : jobs_file[n] \in StoredJobs
    BY <1>1, <2>1, LenProperties
  <2>3. \A job \in StoredJobs : Interrupted(job) \in StoredJobs
    BY DEF Interrupted, StoredJobs, JobStates, FinalStates
  <2>4. loaded' = [n \in 1..l |-> Interrupted(jobs_file[n])]
    BY <1>2, <2>2 DEF LoadReads
  <2>5. loaded' \in Seq(StoredJobs)
    BY <2>2, <2>3, <2>4
  <2>6. jobs_file' \in Seq(StoredJobs)
    BY <1>1, <1>2 DEF LoadReads
  <2>7. QED
    BY <1>2, <2>5, <2>6 DEF LoadReads, TypeOK
<1>3. CASE load_jobs_file
  <2>1. PICK k, e : /\ k = Kept(loaded, {n \in DOMAIN loaded : loaded[n].state = "Queued"})
                    /\ e = Kept(loaded, {n \in DOMAIN loaded : loaded[n].state # "Queued"})
    OBVIOUS
  <2>2. PICK p : p = [n \in DOMAIN k |-> k[n].id]
    OBVIOUS
  <2>3. p \in Seq(Ids) /\ e \in Seq(EndedJobs)
    BY <1>1, <2>1, <2>2, ReloadedPicture DEF LoadedInv
  <2>4. queue' = p /\ history' = e
    BY <1>3, <2>1, <2>2 DEF load_jobs_file
  <2>5. PICK I : I = {loaded[n].id : n \in DOMAIN loaded} \cup {0}
    OBVIOUS
  <2>6. I \subseteq 0..MaxJobs /\ I # {} /\ IsFiniteSet(I)
    <3>1. \A n \in DOMAIN loaded : loaded[n].id \in 1..MaxJobs
      <4>1. \A n \in DOMAIN loaded : loaded[n] \in StoredJobs
        BY <1>1, ElementOfSeq, LenProperties
      <4>2. QED
        BY <4>1 DEF StoredJobs, Ids
    <3>2. 1..MaxJobs \subseteq 0..MaxJobs /\ 0 \in 0..MaxJobs
      BY JobQueueAssumption
    <3>3. I \subseteq 0..MaxJobs
      BY <2>5, <3>1, <3>2
    <3>4. IsFiniteSet(0..MaxJobs)
      BY JobQueueAssumption, FS_Interval
    <3>5. QED
      BY <2>5, <3>3, <3>4, FS_Subset
  <2>7. Max(I) \in 0..MaxJobs
    <3>1. I \subseteq Nat
      BY <2>6, JobQueueAssumption
    <3>2. Max(I) \in I
      BY <2>6, <3>1, MaxIsLargest
    <3>3. QED
      BY <2>6, <3>2
  <2>8. next_id' = Max(I) + 1
    BY <1>3, <2>5 DEF load_jobs_file
  <2>9. next_id' \in 1..(MaxJobs + 1)
    BY <2>7, <2>8, JobQueueAssumption
  <2>10. jobs_file' \in Seq(StoredJobs) /\ loaded' \in Seq(StoredJobs)
    BY <1>1, <1>3 DEF load_jobs_file
  <2>11. QED
    BY <1>3, <2>3, <2>4, <2>9, <2>10 DEF load_jobs_file, TypeOK, EndedJobs
<1>4. CASE StopsWhileRewriting
  <2>1. PICK n \in 0..Len(loaded) : jobs_file' = SubSeq(loaded, 1, n)
    BY <1>4 DEF StopsWhileRewriting
  <2>2. jobs_file' \in Seq(StoredJobs) /\ loaded' \in Seq(StoredJobs)
    BY <1>1, <1>4, <2>1, FirstOf DEF StopsWhileRewriting
  <2>3. QED
    BY <1>4, <2>2 DEF StopsWhileRewriting, TypeOK
<1>5. QED
  BY <1>2, <1>3, <1>4

LEMMA TypesKept ==
  ASSUME TypeOK, WorkerInv, LoadedInv, [Next]_vars,
         process = "running" => Distinct(queue) /\ OncePerId(jobs_file)
  PROVE  TypeOK'
<1>1. CASE UNCHANGED vars
  BY <1>1 DEF vars, processVars, memoryVars, TypeOK
<1>2. CASE reserve_job_id
  BY <1>2, JobQueueAssumption DEF reserve_job_id, Panel, processVars, TypeOK, Ids
<1>3. CASE take_next
  <2>1. queue # <<>> => Head(queue) \in Ids /\ Tail(queue) \in Seq(Ids)
    BY HeadTailProperties DEF TypeOK
  <2>2. queue' \in Seq(Ids) /\ current_id' \in Ids \cup {NoJob}
        /\ current_state' \in JobStates /\ cancel' \in BOOLEAN
        /\ worker' \in {"leaving", "taken"}
    BY <1>3, <2>1 DEF take_next, TakesNextWith, WorkerAt, TypeOK, JobStates
  <2>3. QED
    BY <1>3, <2>2 DEF take_next, TakesNextWith, processVars, TypeOK
<1>4. CASE QuietWorker
  BY <1>4 DEF QuietWorker, WorkerSpawns, WorkerChecksClosing, StartMarks, WorkerLoops,
              clear_current, WorkerAt, processVars, TypeOK, JobStates
<1>5. CASE QuietExit
  BY <1>5 DEF QuietExit, ExitCloses, ExitCancels, ExitReturns, ExitAt, processVars, TypeOK
<1>6. CASE Files
  BY <1>6, FileTypes
<1>7. CASE Stops
  <2>1. OncePerId(jobs_file)
    BY DEF LoadedInv
  <2>2. QED
    BY <1>7, <2>1, StopsLeaveAFile, StopTypes
<1>8. CASE LoadReads \/ load_jobs_file \/ StopsWhileRewriting
  BY <1>8, LoadTypes
<1>9. QED
  BY <1>1, <1>2, <1>3, <1>4, <1>5, <1>6, <1>7, <1>8, StepKinds

(* Neither the worker's place, nor the flags of the exit, nor a cancel, ask  *)
(* anything of the file.                                                   *)
ControlInv == WorkerInv /\ ExitInv /\ CancelHitsItsJob

LEMMA ControlKept ==
  ASSUME TypeOK, ControlInv, [Next]_vars
  PROVE  ControlInv'
<1>1. SUFFICES ASSUME WorkerInv, ExitInv, CancelHitsItsJob
               PROVE  WorkerInv' /\ ExitInv' /\ CancelHitsItsJob'
  BY DEF ControlInv
<1>2. ASSUME UNCHANGED <<current_id, current_state, cancel, worker, closing, exit, cancel_asked>>
      PROVE  WorkerInv' /\ ExitInv' /\ CancelHitsItsJob'
  BY <1>1, <1>2 DEF WorkerInv, ExitInv, CancelHitsItsJob, SlotIds
<1>3. CASE UNCHANGED vars
  BY <1>2, <1>3 DEF vars, memoryVars
<1>4. CASE reserve_job_id
  BY <1>2, <1>4 DEF reserve_job_id
<1>5. CASE LoadReads \/ load_jobs_file \/ StopsWhileRewriting
  BY <1>2, <1>5 DEF LoadReads, load_jobs_file, StopsWhileRewriting
<1>6. CASE Stops
  <2>1. PICK file : StopsLeaving(file)
    BY <1>6 DEF Stops, ProcessStops, StopsInExit, StopsInMove
  <2>2. /\ current_id' = NoJob /\ cancel' = FALSE /\ worker' = "none"
        /\ closing' = FALSE /\ exit' = "none"
    BY <2>1 DEF StopsLeaving
  <2>3. QED
    BY <2>2 DEF WorkerInv, ExitInv, CancelHitsItsJob, SlotIds
<1>7. CASE take_next
  <2>1. queue # <<>> => Head(queue) \in Ids
    BY HeadTailProperties DEF TypeOK
  <2>2. NoJob \notin Ids
    BY DEF NoJob, Ids
  <2>3. WorkerInv'
    BY <1>1, <1>7, <2>1, <2>2 DEF take_next, TakesNextWith, WorkerAt, WorkerInv
  <2>4. ExitInv'
    BY <1>1, <1>7 DEF take_next, TakesNextWith, ExitInv
  <2>5. CancelHitsItsJob'
    BY <1>1, <1>7 DEF take_next, TakesNextWith, CancelHitsItsJob, SlotIds
  <2>6. QED
    BY <2>3, <2>4, <2>5
<1>8. CASE QuietWorker
  <2>1. WorkerInv'
    BY <1>1, <1>8 DEF QuietWorker, WorkerSpawns, WorkerChecksClosing, StartMarks, WorkerLoops,
                      clear_current, WorkerAt, WorkerInv
  <2>2. ExitInv'
    BY <1>1, <1>8 DEF QuietWorker, WorkerSpawns, WorkerChecksClosing, StartMarks, WorkerLoops,
                      clear_current, ExitInv
  <2>3. CancelHitsItsJob'
    <3>1. CASE WorkerSpawns \/ WorkerChecksClosing \/ WorkerLoops
      <4>1. UNCHANGED <<current_id, current_state, cancel, closing, cancel_asked>>
        BY <3>1 DEF WorkerSpawns, WorkerChecksClosing, WorkerLoops
      <4>2. QED
        BY <1>1, <4>1 DEF CancelHitsItsJob, SlotIds
    <3>2. CASE StartMarks
      BY <1>1, <3>2 DEF StartMarks, WorkerAt, WorkerInv, CancelHitsItsJob, SlotIds
    <3>3. CASE clear_current
      BY <3>3 DEF clear_current, CancelHitsItsJob, SlotIds
    <3>4. QED
      BY <1>8, <3>1, <3>2, <3>3 DEF QuietWorker
  <2>4. QED
    BY <2>1, <2>2, <2>3
<1>9. CASE QuietExit
  BY <1>1, <1>9 DEF QuietExit, ExitCloses, ExitCancels, ExitReturns, ExitAt,
                    WorkerInv, ExitInv, CancelHitsItsJob, SlotIds
<1>10. CASE Files
  <2>1. ASSUME NEW id \in Ids, submit(id)
        PROVE  WorkerInv' /\ ExitInv' /\ CancelHitsItsJob'
    BY <1>2, <2>1 DEF submit
  <2>2. ASSUME NEW id \in Ids, NEW before \in Ids \cup {NoJob}, move_before(id, before)
        PROVE  WorkerInv' /\ ExitInv' /\ CancelHitsItsJob'
    BY <1>2, <2>2 DEF move_before
  <2>3. ASSUME NEW id \in Ids, cancel_job(id)
        PROVE  WorkerInv' /\ ExitInv' /\ CancelHitsItsJob'
    BY <1>1, <2>3 DEF cancel_job, WorkerInv, ExitInv, CancelHitsItsJob, SlotIds
  <2>4. CASE StartRecords
    BY <1>1, <2>4 DEF StartRecords, WorkerAt, WorkerInv, ExitInv, CancelHitsItsJob, SlotIds
  <2>5. ASSUME NEW state \in FinalStates, finish(state)
        PROVE  WorkerInv' /\ ExitInv' /\ CancelHitsItsJob'
    BY <1>1, <2>5 DEF finish, WorkerAt, WorkerInv, ExitInv, CancelHitsItsJob, SlotIds, FinalStates
  <2>6. CASE ExitDrains
    BY <1>1, <2>6 DEF ExitDrains, ExitAt, WorkerInv, ExitInv, CancelHitsItsJob, SlotIds
  <2>7. QED
    BY <1>10, <2>1, <2>2, <2>3, <2>4, <2>5, <2>6 DEF Files
<1>11. QED
  BY <1>3, <1>4, <1>5, <1>6, <1>7, <1>8, <1>9, <1>10, StepKinds

-----------------------------------------------------------------------------
(* The list and the file, step by step.                                     *)

PictureInv ==
  process = "running" => Pictures(jobs_file, queue, history, SlotIds, Waits)

IdsInv ==
  process = "running" =>
    /\ \A id \in IdsOf(jobs_file) \cup reserved : id < next_id
    /\ reserved \cap IdsOf(jobs_file) = {}

JobInv == TypeOK /\ ControlInv /\ LoadedInv /\ PictureInv /\ IdsInv

LEMMA StillLoaded ==
  ASSUME LoadedInv, process = "running", UNCHANGED <<process, loaded>>
  PROVE  LoadedInv'
BY DEF LoadedInv

LEMMA ListUntouched ==
  ASSUME PictureInv, IdsInv, SlotIds' = SlotIds, Waits' = Waits,
         UNCHANGED <<process, jobs_file, queue, history, next_id, reserved>>
  PROVE  PictureInv' /\ IdsInv'
BY DEF PictureInv, IdsInv

LEMMA IdsStay ==
  ASSUME IdsInv, UNCHANGED <<process, next_id, reserved>>,
         process = "running" => IdsOf(jobs_file') = IdsOf(jobs_file)
  PROVE  IdsInv'
BY DEF IdsInv

LEMMA QuietStepsKeepTheList ==
  ASSUME TypeOK, WorkerInv, PictureInv, IdsInv, QuietWorker \/ QuietExit
  PROVE  PictureInv' /\ IdsInv'
<1>1. UNCHANGED <<process, jobs_file, queue, history, next_id, reserved>>
  BY DEF QuietWorker, WorkerSpawns, WorkerChecksClosing, StartMarks, WorkerLoops, clear_current,
         QuietExit, ExitCloses, ExitCancels, ExitReturns, processVars
<1>2. SlotIds' = SlotIds /\ Waits' = Waits
  <2>1. CASE QuietExit
    BY <2>1 DEF QuietExit, ExitCloses, ExitCancels, ExitReturns, SlotIds, Waits
  <2>2. CASE WorkerSpawns \/ WorkerChecksClosing \/ WorkerLoops
    <3>1. /\ UNCHANGED <<current_id, current_state>>
          /\ worker \notin {"taken", "started"} /\ worker' \notin {"taken", "started"}
      BY <2>2 DEF WorkerSpawns, WorkerChecksClosing, WorkerLoops, WorkerAt
    <3>2. QED
      BY <3>1 DEF SlotIds, Waits
  <2>3. CASE StartMarks
    <3>1. /\ worker = "taken" /\ worker' = "started" /\ UNCHANGED current_id
          /\ current_state = "Queued" /\ current_state' = "Running"
      BY <2>3 DEF StartMarks, WorkerAt, WorkerInv
    <3>2. QED
      BY <3>1 DEF SlotIds, Waits
  <2>4. CASE clear_current
    <3>1. /\ worker = "leaving" /\ worker' = "none" /\ current_id' = NoJob
          /\ current_id = NoJob \/ current_state \in FinalStates
      BY <2>4 DEF clear_current, WorkerAt, WorkerInv
    <3>2. QED
      BY <3>1 DEF SlotIds, Waits, FinalStates
  <2>5. QED
    BY <2>1, <2>2, <2>3, <2>4 DEF QuietWorker
<1>3. QED
  BY <1>1, <1>2, ListUntouched

LEMMA TakingKeepsTheList ==
  ASSUME TypeOK, WorkerInv, PictureInv, IdsInv, take_next
  PROVE  PictureInv' /\ IdsInv'
<1>1. /\ worker = "taking" /\ process = "running"
      /\ UNCHANGED <<process, jobs_file, history, next_id, reserved>>
  BY DEF take_next, TakesNextWith, WorkerAt, processVars
<1>2. SlotIds = {} /\ Waits = {}
  BY <1>1 DEF SlotIds, Waits, WorkerInv, FinalStates
<1>3. CASE queue = <<>> /\ worker' = "leaving" /\ UNCHANGED <<queue, current_id, current_state>>
  <2>1. SlotIds' = SlotIds /\ Waits' = Waits
    BY <1>2, <1>3 DEF SlotIds, Waits
  <2>2. QED
    BY <1>1, <1>3, <2>1, ListUntouched
<1>4. CASE /\ queue # <<>> /\ worker' = "taken" /\ queue' = Tail(queue)
           /\ current_id' = Head(queue) /\ current_state' = "Queued"
  <2>1. queue \in Seq(Ids) /\ Head(queue) \in Ids /\ NoJob \notin Ids
    <3>1. queue \in Seq(Ids) /\ NoJob \notin Ids
      BY DEF TypeOK, NoJob, Ids
    <3>2. Head(queue) \in Ids
      BY <1>4, <3>1, HeadTailProperties
    <3>3. QED
      BY <3>1, <3>2
  <2>2. SlotIds' = {Head(queue)} /\ Waits' = {Head(queue)}
    BY <1>4, <2>1 DEF SlotIds, Waits
  <2>3. Pictures(jobs_file, queue, history, {}, {})
    BY <1>1, <1>2 DEF PictureInv
  <2>4. Pictures(jobs_file, Tail(queue), history, {Head(queue)}, {Head(queue)})
    BY <1>4, <2>1, <2>3, TakenPicture
  <2>5. PictureInv'
    BY <1>1, <1>4, <2>2, <2>4 DEF PictureInv
  <2>6. IdsInv'
    BY <1>1, IdsStay
  <2>7. QED
    BY <2>5, <2>6
<1>5. QED
  BY <1>3, <1>4 DEF take_next, TakesNextWith, WorkerAt

LEMMA EndedAreStored ==
  ASSUME TypeOK
  PROVE  history \in Seq(StoredJobs)
<1>1. history \in Seq(EndedJobs) /\ EndedJobs \subseteq StoredJobs
  BY DEF TypeOK, EndedJobs, StoredJobs, JobStates
<1>2. ToSet(history) \subseteq StoredJobs
  BY <1>1, ElementOfSeq, LenProperties DEF ToSet
<1>3. QED
  BY <1>1, <1>2, SequenceOver

LEMMA PanelsKeepTheList ==
  ASSUME TypeOK, ControlInv, PictureInv, IdsInv,
         \/ reserve_job_id \/ \E id \in Ids : submit(id) \/ cancel_job(id)
         \/ \E id \in Ids, before \in Ids \cup {NoJob} : move_before(id, before)
  PROVE  PictureInv' /\ IdsInv'
<1>1. process = "running" /\ UNCHANGED <<process, worker, current_id, current_state>>
  BY DEF reserve_job_id, submit, cancel_job, move_before, Panel, processVars
<1>2. SlotIds' = SlotIds /\ Waits' = Waits
  BY <1>1 DEF SlotIds, Waits
<1>3. /\ Pictures(jobs_file, queue, history, SlotIds, Waits) /\ Distinct(queue)
      /\ \A id \in IdsOf(jobs_file) \cup reserved : id < next_id
      /\ reserved \cap IdsOf(jobs_file) = {}
  BY <1>1 DEF PictureInv, IdsInv, Pictures
<1>4. /\ jobs_file \in Seq(StoredJobs) /\ queue \in Seq(Ids) /\ history \in Seq(StoredJobs)
      /\ reserved \subseteq Ids
  BY EndedAreStored DEF TypeOK
<1>5. CASE reserve_job_id
  <2>1. /\ UNCHANGED <<process, jobs_file, queue, history>>
        /\ next_id' = next_id + 1 /\ reserved' = reserved \cup {next_id}
    BY <1>5 DEF reserve_job_id, Panel, processVars
  <2>2. PictureInv'
    BY <1>2, <1>3, <2>1 DEF PictureInv
  <2>3. IdsOf(jobs_file) \subseteq Ids
    <3>1. ToSet(jobs_file) \subseteq StoredJobs
      BY <1>4, ElementOfSeq, LenProperties DEF ToSet
    <3>2. QED
      BY <3>1 DEF IdsOf, StoredJobs
  <2>4. next_id \in Nat /\ \A id \in IdsOf(jobs_file) \cup reserved : id \in Nat
    <3>1. next_id \in 1..(MaxJobs + 1) /\ Ids \subseteq Nat
      BY JobQueueAssumption DEF TypeOK, Ids
    <3>2. next_id \in Nat
      BY <3>1, JobQueueAssumption
    <3>3. QED
      BY <1>4, <2>3, <3>1, <3>2
  <2>5. \A id \in IdsOf(jobs_file) \cup reserved' : id < next_id + 1
    BY <1>3, <2>1, <2>4
  <2>6. next_id \notin IdsOf(jobs_file)
    BY <1>3, <2>4
  <2>7. IdsInv'
    BY <1>3, <2>1, <2>5, <2>6 DEF IdsInv
  <2>8. QED
    BY <2>2, <2>7
<1>6. ASSUME NEW id \in Ids, submit(id)
      PROVE  PictureInv' /\ IdsInv'
  <2>1. /\ id \in reserved /\ reserved' = reserved \ {id} /\ UNCHANGED <<next_id, history>>
        /\ jobs_file' = WithRecord(jobs_file, id, "Queued") /\ queue' = Append(queue, id)
    BY <1>6 DEF submit, Record
  <2>2. id \notin IdsOf(jobs_file)
    BY <1>3, <2>1
  <2>3. Pictures(jobs_file', queue', history, SlotIds, Waits)
    BY <1>3, <1>4, <2>1, <2>2, SubmittedPicture
  <2>4. "Queued" \in JobStates
    BY DEF JobStates
  <2>5. Recorded(jobs_file', jobs_file, {id}, "Queued")
    BY <1>4, <2>1, <2>4, RecordedId
  <2>6. IdsOf(jobs_file') = IdsOf(jobs_file) \cup {id}
    BY <2>5 DEF Recorded
  <2>7. PictureInv'
    BY <1>2, <2>1, <2>3 DEF PictureInv
  <2>8. IdsInv'
    BY <1>3, <2>1, <2>6 DEF IdsInv
  <2>9. QED
    BY <2>7, <2>8
<1>7. ASSUME NEW id \in Ids, cancel_job(id)
      PROVE  PictureInv' /\ IdsInv'
  <2>1. UNCHANGED <<process, next_id, reserved>>
    BY <1>7 DEF cancel_job, Panel, processVars
  <2>2. CASE UNCHANGED <<jobs_file, queue, history>>
    BY <1>2, <2>1, <2>2, ListUntouched
  <2>3. CASE /\ id \in ToSet(queue) /\ queue' = RemoveAt(queue, PositionOf(id))
             /\ RecordFinished(id, "Cancelled")
    <3>1. PICK n : n = PositionOf(id)
      OBVIOUS
    <3>2. n \in DOMAIN queue /\ id = queue[n]
      BY <2>3, <3>1 DEF PositionOf, ToSet
    <3>3. /\ queue' = RemoveAt(queue, n)
          /\ jobs_file' = WithRecord(jobs_file, id, "Cancelled")
          /\ history' = Append(history, [id |-> id, state |-> "Cancelled"])
      BY <2>3, <3>1 DEF RecordFinished, Record
    <3>4. /\ Pictures(jobs_file', queue', history', SlotIds, Waits)
          /\ IdsOf(jobs_file') = IdsOf(jobs_file)
      <4>1. /\ Pictures(WithRecord(jobs_file, queue[n], "Cancelled"), RemoveAt(queue, n),
                        Append(history, [id |-> queue[n], state |-> "Cancelled"]),
                        SlotIds, Waits)
            /\ IdsOf(WithRecord(jobs_file, queue[n], "Cancelled")) = IdsOf(jobs_file)
        BY <1>3, <1>4, <3>2, DismissedPicture
      <4>2. QED
        BY <3>2, <3>3, <4>1
    <3>5. PictureInv'
      BY <1>2, <3>4 DEF PictureInv
    <3>6. IdsInv'
      BY <2>1, <3>4, IdsStay
    <3>7. QED
      BY <3>5, <3>6
  <2>4. QED
    BY <1>7, <2>2, <2>3 DEF cancel_job
<1>8. ASSUME NEW id \in Ids, NEW before \in Ids \cup {NoJob}, move_before(id, before)
      PROVE  PictureInv' /\ IdsInv'
  <2>1. /\ MayMove(id, before) /\ queue' = MovedBefore(id, before)
        /\ jobs_file' = WithRecords(jobs_file, queue', "Queued")
        /\ UNCHANGED <<process, next_id, reserved, history>>
    BY <1>8 DEF move_before, Panel, processVars
  <2>2. queue' \in Seq(Ids) /\ Distinct(queue') /\ ToSet(queue') = ToSet(queue)
    <3>1. PICK p : p = MovedBefore(id, before)
      OBVIOUS
    <3>2. p \in Seq(Ids) /\ Distinct(p) /\ ToSet(p) = ToSet(queue)
      BY <1>3, <1>4, <2>1, <3>1, MovedKeeps
    <3>3. QED
      BY <2>1, <3>1, <3>2
  <2>3. /\ Pictures(jobs_file', queue', history, SlotIds, Waits)
        /\ IdsOf(jobs_file') = IdsOf(jobs_file)
    BY <1>3, <1>4, <2>1, <2>2, ReorderedPicture
  <2>4. PictureInv'
    BY <1>2, <2>1, <2>3 DEF PictureInv
  <2>5. IdsInv'
    BY <2>1, <2>3, IdsStay
  <2>6. QED
    BY <2>4, <2>5
<1>9. QED
  BY <1>5, <1>6, <1>7, <1>8

LEMMA WorkersKeepTheList ==
  ASSUME TypeOK, ControlInv, PictureInv, IdsInv,
         \/ StartRecords \/ (\E state \in FinalStates : finish(state)) \/ ExitDrains
  PROVE  PictureInv' /\ IdsInv'
<1>1. process = "running" /\ UNCHANGED <<process, next_id, reserved, current_id>>
  BY DEF StartRecords, finish, ExitDrains, WorkerAt, ExitAt, processVars
<1>2. /\ jobs_file \in Seq(StoredJobs) /\ queue \in Seq(Ids) /\ history \in Seq(StoredJobs)
      /\ Pictures(jobs_file, queue, history, SlotIds, Waits)
  BY <1>1, EndedAreStored DEF TypeOK, PictureInv
<1>3. CASE StartRecords
  <2>1. /\ worker = "started" /\ worker' = "building" /\ UNCHANGED <<queue, history, current_state>>
        /\ jobs_file' = WithRecord(jobs_file, current_id, "Running")
    BY <1>3 DEF StartRecords, WorkerAt, Record
  <2>2. current_id \in Ids /\ current_id # NoJob /\ current_state = "Running"
    BY <2>1 DEF ControlInv, WorkerInv, TypeOK
  <2>3. SlotIds = {current_id} /\ Waits = {current_id} /\ SlotIds' = {current_id} /\ Waits' = {}
    BY <1>1, <2>1, <2>2 DEF SlotIds, Waits
  <2>4. /\ Pictures(jobs_file', queue, history, {current_id}, {})
        /\ IdsOf(jobs_file') = IdsOf(jobs_file)
    BY <1>2, <2>1, <2>2, <2>3, StartedPicture
  <2>5. PictureInv'
    BY <2>1, <2>3, <2>4 DEF PictureInv
  <2>6. IdsInv'
    BY <1>1, <2>4, IdsStay
  <2>7. QED
    BY <2>5, <2>6
<1>4. ASSUME NEW state \in FinalStates, finish(state)
      PROVE  PictureInv' /\ IdsInv'
  <2>1. /\ worker = "building" /\ worker' = "finished" /\ current_state' = state
        /\ UNCHANGED queue /\ jobs_file' = WithRecord(jobs_file, current_id, state)
        /\ history' = Append(history, [id |-> current_id, state |-> state])
    BY <1>4 DEF finish, WorkerAt, RecordFinished, Record
  <2>2. current_id \in Ids /\ current_id # NoJob /\ current_state = "Running"
    BY <2>1 DEF ControlInv, WorkerInv, TypeOK
  <2>3. SlotIds = {current_id} /\ Waits = {} /\ SlotIds' = {} /\ Waits' = {}
    BY <1>1, <2>1, <2>2 DEF SlotIds, Waits, FinalStates
  <2>4. /\ Pictures(jobs_file', queue, history', {}, {})
        /\ IdsOf(jobs_file') = IdsOf(jobs_file)
    <3>1. Pictures(jobs_file, queue, history, {current_id}, {})
      BY <1>2, <2>3
    <3>2. /\ Pictures(WithRecord(jobs_file, current_id, state), queue,
                      Append(history, [id |-> current_id, state |-> state]), {}, {})
          /\ IdsOf(WithRecord(jobs_file, current_id, state)) = IdsOf(jobs_file)
      BY <1>2, <2>2, <3>1, FinishedPicture
    <3>3. QED
      BY <2>1, <3>2
  <2>5. PictureInv'
    BY <2>1, <2>3, <2>4 DEF PictureInv
  <2>6. IdsInv'
    BY <1>1, <2>4, IdsStay
  <2>7. QED
    BY <2>5, <2>6
<1>5. CASE ExitDrains
  <2>1. /\ UNCHANGED <<worker, current_state>> /\ queue' = <<>>
        /\ jobs_file' = WithRecords(jobs_file, queue, "Cancelled")
        /\ history' = history \o RecordsOf(queue, "Cancelled")
    BY <1>5 DEF ExitDrains, RecordsOf
  <2>2. SlotIds' = SlotIds /\ Waits' = Waits
    BY <1>1, <2>1 DEF SlotIds, Waits
  <2>3. /\ Pictures(jobs_file', <<>>, history', SlotIds, Waits)
        /\ IdsOf(jobs_file') = IdsOf(jobs_file)
    BY <1>2, <2>1, DrainedPicture
  <2>4. PictureInv'
    BY <2>1, <2>2, <2>3 DEF PictureInv
  <2>5. IdsInv'
    BY <1>1, <2>3, IdsStay
  <2>6. QED
    BY <2>4, <2>5
<1>6. QED
  BY <1>3, <1>4, <1>5

LEMMA StopsKeepTheFile ==
  ASSUME TypeOK, LoadedInv, PictureInv, Stops
  PROVE  LoadedInv' /\ PictureInv' /\ IdsInv'
<1>1. process = "running"
  BY DEF Stops, ProcessStops, StopsInExit, StopsInMove, StopsLeaving
<1>2. OncePerId(jobs_file) /\ Distinct(queue)
  BY <1>1 DEF PictureInv, Pictures
<1>3. PICK file \in Seq(StoredJobs) : OncePerId(file) /\ StopsLeaving(file)
  BY <1>2, StopsLeaveAFile
<1>4. /\ process' = "stopped" /\ jobs_file' = file /\ loaded' = <<>>
      /\ next_id' = 1 /\ reserved' = {} /\ queue' = <<>> /\ history' = <<>>
      /\ current_id' = NoJob /\ worker' = "none"
  BY <1>3 DEF StopsLeaving
<1>5. DOMAIN <<>> = {}
  OBVIOUS
<1>6. LoadedInv'
  BY <1>3, <1>4, <1>5 DEF LoadedInv, Stopped, OncePerId
<1>7. QED
  BY <1>4, <1>6 DEF PictureInv, IdsInv

LEMMA LoadsKeepTheFile ==
  ASSUME TypeOK, ControlInv, LoadedInv, LoadReads \/ load_jobs_file \/ StopsWhileRewriting
  PROVE  LoadedInv' /\ PictureInv' /\ IdsInv'
<1>1. process # "running" /\ Stopped /\ OncePerId(jobs_file)
  BY DEF LoadReads, load_jobs_file, StopsWhileRewriting, LoadedInv
<1>2. DOMAIN <<>> = {}
  OBVIOUS
<1>3. CASE LoadReads
  <2>1. /\ process' = "rewriting" /\ jobs_file' = <<>>
        /\ loaded' = [n \in DOMAIN jobs_file |-> Interrupted(jobs_file[n])]
        /\ UNCHANGED <<next_id, reserved, queue, history, current_id, worker>>
    BY <1>3 DEF LoadReads
  <2>2. \A job \in StoredJobs : Interrupted(job).id = job.id /\ Interrupted(job).state # "Running"
    BY DEF Interrupted, StoredJobs, JobStates, FinalStates
  <2>3. \A n \in DOMAIN jobs_file : jobs_file[n] \in StoredJobs
    BY ElementOfSeq, LenProperties DEF TypeOK
  <2>4. DOMAIN loaded' = DOMAIN jobs_file
    BY <2>1
  <2>5. \A n \in DOMAIN jobs_file : /\ loaded'[n].id = jobs_file[n].id
                                    /\ loaded'[n].state # "Running"
    BY <2>1, <2>2, <2>3
  <2>6. OncePerId(loaded') /\ \A n \in DOMAIN loaded' : loaded'[n].state # "Running"
    BY <1>1, <2>4, <2>5 DEF OncePerId
  <2>7. OncePerId(<<>>)
    BY <1>2 DEF OncePerId
  <2>8. LoadedInv'
    BY <1>1, <2>1, <2>6, <2>7 DEF LoadedInv, Stopped
  <2>9. QED
    BY <2>1, <2>8 DEF PictureInv, IdsInv
<1>4. CASE StopsWhileRewriting
  <2>1. PICK n \in 0..Len(loaded) : jobs_file' = SubSeq(loaded, 1, n)
    BY <1>4 DEF StopsWhileRewriting
  <2>2. /\ process' = "stopped" /\ loaded' = <<>>
        /\ UNCHANGED <<next_id, reserved, queue, history, current_id, worker>>
    BY <1>4 DEF StopsWhileRewriting
  <2>3. loaded \in Seq(StoredJobs) /\ OncePerId(loaded)
    BY DEF TypeOK, LoadedInv
  <2>4. OncePerId(jobs_file')
    BY <2>1, <2>3, FirstOf
  <2>5. OncePerId(loaded') /\ \A m \in DOMAIN loaded' : loaded'[m].state # "Running"
    BY <1>2, <2>2 DEF OncePerId
  <2>6. LoadedInv'
    BY <1>1, <2>2, <2>4, <2>5 DEF LoadedInv, Stopped
  <2>7. QED
    BY <2>2, <2>6 DEF PictureInv, IdsInv
<1>5. CASE load_jobs_file
  <2>1. PICK k, e : /\ k = Kept(loaded, {n \in DOMAIN loaded : loaded[n].state = "Queued"})
                    /\ e = Kept(loaded, {n \in DOMAIN loaded : loaded[n].state # "Queued"})
    OBVIOUS
  <2>2. PICK p : p = [n \in DOMAIN k |-> k[n].id]
    OBVIOUS
  <2>3. /\ loaded \in Seq(StoredJobs) /\ OncePerId(loaded)
        /\ \A n \in DOMAIN loaded : loaded[n].state # "Running"
    BY DEF TypeOK, LoadedInv
  <2>4. Pictures(loaded, p, e, {}, {})
    BY <2>1, <2>2, <2>3, ReloadedPicture
  <2>5. /\ queue' = p /\ history' = e /\ jobs_file' = loaded /\ process' = "running"
        /\ loaded' = <<>> /\ UNCHANGED <<current_id, worker, reserved>>
        /\ next_id' = Max({loaded[n].id : n \in DOMAIN loaded} \cup {0}) + 1
    BY <1>5, <2>1, <2>2 DEF load_jobs_file
  <2>6. SlotIds' = {} /\ Waits' = {}
    BY <1>1, <2>5 DEF SlotIds, Waits, Stopped
  <2>7. PictureInv'
    BY <2>4, <2>5, <2>6 DEF PictureInv
  <2>8. PICK I : I = {loaded[n].id : n \in DOMAIN loaded} \cup {0}
    OBVIOUS
  <2>9. I \subseteq Nat /\ I # {} /\ IsFiniteSet(I)
    <3>1. \A n \in DOMAIN loaded : loaded[n] \in StoredJobs
      BY <2>3, ElementOfSeq, LenProperties
    <3>2. I \subseteq 0..MaxJobs
      BY <2>8, <3>1, JobQueueAssumption DEF StoredJobs, Ids
    <3>3. IsFiniteSet(0..MaxJobs)
      BY JobQueueAssumption, FS_Interval
    <3>4. IsFiniteSet(I)
      BY <3>2, <3>3, FS_Subset
    <3>5. QED
      BY <2>8, <3>2, <3>4, JobQueueAssumption
  <2>10. Max(I) \in I /\ \A i \in I : i <= Max(I)
    BY <2>9, MaxIsLargest
  <2>11. IdsOf(loaded) \subseteq I
    <3>1. IdsOf(loaded) = {loaded[n].id : n \in DOMAIN loaded}
      BY DEF IdsOf, ToSet
    <3>2. QED
      BY <2>8, <3>1
  <2>12. \A id \in IdsOf(loaded) : id < Max(I) + 1
    <3>1. PICK m : m = Max(I)
      OBVIOUS
    <3>2. m \in Nat /\ \A i \in I : i \in Nat /\ i <= m
      BY <2>9, <2>10, <3>1
    <3>3. QED
      BY <2>11, <3>1, <3>2
  <2>13. reserved' = {} /\ next_id' = Max(I) + 1
    BY <1>1, <2>5, <2>8 DEF Stopped
  <2>14. IdsInv'
    BY <2>5, <2>12, <2>13 DEF IdsInv
  <2>15. LoadedInv'
    BY <1>2, <2>5 DEF LoadedInv, OncePerId
  <2>16. QED
    BY <2>7, <2>14, <2>15
<1>6. QED
  BY <1>3, <1>4, <1>5

LEMMA LoadedKept ==
  ASSUME LoadedInv, reserve_job_id \/ take_next \/ QuietWorker \/ QuietExit \/ Files
  PROVE  LoadedInv'
<1>1. CASE reserve_job_id
  BY <1>1, StillLoaded DEF reserve_job_id, Panel, processVars
<1>2. CASE take_next
  BY <1>2, StillLoaded DEF take_next, TakesNextWith, WorkerAt, processVars
<1>3. CASE QuietWorker
  <2>1. process = "running" /\ UNCHANGED <<process, loaded>>
    BY <1>3 DEF QuietWorker, WorkerSpawns, WorkerChecksClosing, StartMarks, WorkerLoops,
                clear_current, WorkerAt, processVars
  <2>2. QED
    BY <2>1, StillLoaded
<1>4. CASE QuietExit
  <2>1. process = "running" /\ UNCHANGED <<process, loaded>>
    BY <1>4 DEF QuietExit, ExitCloses, ExitCancels, ExitReturns, ExitAt, processVars
  <2>2. QED
    BY <2>1, StillLoaded
<1>5. CASE Files
  <2>1. process = "running" /\ UNCHANGED <<process, loaded>>
    BY <1>5 DEF Files, submit, cancel_job, move_before, StartRecords, finish, ExitDrains,
                Panel, WorkerAt, ExitAt, processVars
  <2>2. QED
    BY <2>1, StillLoaded
<1>6. QED
  BY <1>1, <1>2, <1>3, <1>4, <1>5

LEMMA JobInvKept ==
  JobInv /\ [Next]_vars => JobInv'
<1> SUFFICES ASSUME JobInv, [Next]_vars
             PROVE  JobInv'
  OBVIOUS
<1>1. TypeOK /\ ControlInv /\ WorkerInv /\ LoadedInv /\ PictureInv /\ IdsInv
  BY DEF JobInv, ControlInv
<1>2. TypeOK'
  <2>1. process = "running" => Distinct(queue) /\ OncePerId(jobs_file)
    BY <1>1 DEF PictureInv, Pictures
  <2>2. QED
    BY <1>1, <2>1, TypesKept
<1>3. ControlInv'
  BY <1>1, ControlKept
<1>4. LoadedInv' /\ PictureInv' /\ IdsInv'
  <2>1. CASE UNCHANGED vars
    <3>1. UNCHANGED <<process, jobs_file, loaded, next_id, reserved, queue, history,
                      current_id, current_state, worker>>
      BY <2>1 DEF vars, processVars, memoryVars
    <3>2. SlotIds' = SlotIds /\ Waits' = Waits
      BY <3>1 DEF SlotIds, Waits
    <3>3. LoadedInv'
      BY <1>1, <3>1 DEF LoadedInv, Stopped
    <3>4. QED
      BY <1>1, <3>1, <3>2, <3>3, ListUntouched
  <2>2. CASE reserve_job_id
    BY <1>1, <2>2, LoadedKept, PanelsKeepTheList
  <2>3. CASE take_next
    BY <1>1, <2>3, LoadedKept, TakingKeepsTheList
  <2>4. CASE QuietWorker \/ QuietExit
    BY <1>1, <2>4, LoadedKept, QuietStepsKeepTheList
  <2>5. CASE Files
    <3>1. LoadedInv'
      BY <1>1, <2>5, LoadedKept
    <3>2. CASE \/ \E id \in Ids : submit(id) \/ cancel_job(id)
               \/ \E id \in Ids, before \in Ids \cup {NoJob} : move_before(id, before)
      BY <1>1, <3>1, <3>2, PanelsKeepTheList
    <3>3. CASE StartRecords \/ (\E state \in FinalStates : finish(state)) \/ ExitDrains
      BY <1>1, <3>1, <3>3, WorkersKeepTheList
    <3>4. QED
      BY <2>5, <3>2, <3>3 DEF Files
  <2>6. CASE Stops
    BY <1>1, <2>6, StopsKeepTheFile
  <2>7. CASE LoadReads \/ load_jobs_file \/ StopsWhileRewriting
    BY <1>1, <2>7, LoadsKeepTheFile
  <2>8. QED
    BY <2>1, <2>2, <2>3, <2>4, <2>5, <2>6, <2>7, StepKinds
<1>5. QED
  BY <1>2, <1>3, <1>4 DEF JobInv

LEMMA JobInvStarts ==
  Init => JobInv
<1> SUFFICES ASSUME Init
             PROVE  JobInv
  OBVIOUS
<1>1. /\ jobs_file = <<>> /\ loaded = <<>> /\ queue = <<>> /\ history = <<>>
      /\ process = "running" /\ stops = 0 /\ recorded = {} /\ next_id = 1 /\ reserved = {}
      /\ current_id = NoJob /\ current_state = "Queued" /\ cancel = FALSE /\ closing = FALSE
      /\ worker = "none" /\ exit = "none" /\ cancel_asked = {}
  BY DEF Init, Fresh
<1>2. /\ <<>> \in Seq(StoredJobs) /\ <<>> \in Seq(Ids) /\ <<>> \in Seq(EndedJobs)
      /\ DOMAIN <<>> = {}
  OBVIOUS
<1>3. TypeOK
  <2>1. 1 \in 1..(MaxJobs + 1) /\ 0 \in 0..MaxStops
    BY JobQueueAssumption
  <2>2. /\ jobs_file \in Seq(StoredJobs) /\ loaded \in Seq(StoredJobs)
        /\ queue \in Seq(Ids) /\ history \in Seq(EndedJobs)
    BY <1>1, <1>2
  <2>3. QED
    BY <1>1, <2>1, <2>2 DEF TypeOK, EndedJobs, JobStates
<1>4. ControlInv
  BY <1>1 DEF ControlInv, WorkerInv, ExitInv, CancelHitsItsJob, SlotIds
<1>5. /\ ToSet(<<>>) = {} /\ Distinct(<<>>) /\ OncePerId(<<>>)
      /\ \A a, b : ~Precedes(<<>>, a, b)
  BY <1>2 DEF ToSet, Distinct, OncePerId, Precedes
<1>6. IdsOf(<<>>) = {} /\ QueuedIn(<<>>) = {}
  BY <1>2, <1>5 DEF IdsOf, QueuedIn
<1>7. LoadedInv
  BY <1>1, <1>2, <1>5 DEF LoadedInv
<1>8. SlotIds = {} /\ Waits = {}
  BY <1>1 DEF SlotIds, Waits
<1>9. Pictures(<<>>, <<>>, <<>>, {}, {})
  BY <1>5, <1>6 DEF Pictures
<1>10. PictureInv
  BY <1>1, <1>8, <1>9 DEF PictureInv
<1>11. IdsInv
  BY <1>1, <1>6 DEF IdsInv
<1>12. QED
  BY <1>3, <1>4, <1>7, <1>10, <1>11 DEF JobInv

LEMMA JobsConsistent == Spec => []JobInv
BY JobInvStarts, JobInvKept, PTL DEF Spec

-----------------------------------------------------------------------------
(* What has ended stays ended.                                              *)

LEMMA HeldByARecord ==
  ASSUME NEW file, NEW id, NEW states
  PROVE  Holds(file, id, states) <=>
           \E job \in ToSet(file) : job.id = id /\ job.state \in states
BY DEF Holds, ToSet

(* No line appended to a file is about a job that has ended, unless it says *)
(* that the job has ended.                                                 *)
LEMMA AppendedLinesReviveNothing ==
  ASSUME NEW file, OncePerId(file), NEW t, NEW ids, NEW state, Recorded(t, file, ids, state),
         \/ state \in FinalStates
         \/ \A id \in ids : id \in QueuedIn(file) \/ id \notin IdsOf(file)
  PROVE  \A id : Holds(file, id, FinalStates) => ~Holds(t, id, {"Queued", "Running"})
<1> SUFFICES ASSUME NEW id, NEW j \in ToSet(file), j.id = id, j.state \in FinalStates,
                    NEW k \in ToSet(t), k.id = id, k.state \in {"Queued", "Running"}
             PROVE  FALSE
  BY HeldByARecord
<1>1. \A i, l \in ToSet(file) : i.id = l.id => i = l
  BY IdsAre
<1>2. j.state \notin {"Queued", "Running"}
  BY DEF FinalStates
<1>3. k \notin ToSet(file)
  BY <1>1, <1>2
<1>4. k.id \in ids /\ k.state = state
  BY <1>3 DEF Recorded
<1>5. id \in QueuedIn(file) \/ id \notin IdsOf(file)
  BY <1>4 DEF FinalStates
<1>6. id \in IdsOf(file)
  BY DEF IdsOf
<1>7. PICK l \in ToSet(file) : l.id = id /\ l.state = "Queued"
  <2>1. QueuedIn(file) = {job.id : job \in {i \in ToSet(file) : i.state = "Queued"}}
    BY IdsAre
  <2>2. QED
    BY <1>5, <1>6, <2>1
<1>8. QED
  BY <1>1, <1>2, <1>7

LEMMA FewerLinesReviveNothing ==
  ASSUME NEW file, OncePerId(file), NEW t, ToSet(t) \subseteq ToSet(file)
  PROVE  \A id : Holds(file, id, FinalStates) => ~Holds(t, id, {"Queued", "Running"})
<1> SUFFICES ASSUME NEW id, NEW j \in ToSet(file), j.id = id, j.state \in FinalStates,
                    NEW k \in ToSet(t), k.id = id, k.state \in {"Queued", "Running"}
             PROVE  FALSE
  BY HeldByARecord
<1>1. \A i, l \in ToSet(file) : i.id = l.id => i = l
  BY IdsAre
<1>2. QED
  BY <1>1 DEF FinalStates

LEMMA EndedStays ==
  JobInv /\ [Next]_vars => EndedStaysEnded
<1> SUFFICES ASSUME JobInv, [Next]_vars
             PROVE  EndedStaysEnded
  OBVIOUS
<1> DEFINE NoneRevived ==
             \A id : Holds(jobs_file, id, FinalStates) =>
                       ~Holds(jobs_file', id, {"Queued", "Running"})
<1>1. /\ TypeOK /\ ControlInv /\ LoadedInv /\ PictureInv /\ IdsInv
      /\ jobs_file \in Seq(StoredJobs) /\ queue \in Seq(Ids)
      /\ "Queued" \in JobStates /\ "Running" \in JobStates /\ FinalStates \subseteq JobStates
      /\ "Cancelled" \in FinalStates
  BY DEF JobInv, TypeOK, JobStates, FinalStates
<1>2. DOMAIN <<>> = {} /\ ToSet(<<>>) = {}
  <2>1. DOMAIN <<>> = {}
    OBVIOUS
  <2>2. QED
    BY <2>1 DEF ToSet
<1>3. \A id, states : ~Holds(<<>>, id, states)
  BY <1>2 DEF Holds
<1>4. CASE process # "running" /\ ~UNCHANGED vars
  <2>1. LoadReads \/ load_jobs_file \/ StopsWhileRewriting
    <3>1. ~(reserve_job_id \/ take_next \/ QuietWorker \/ QuietExit \/ Files \/ Stops)
      BY <1>4 DEF reserve_job_id, take_next, TakesNextWith, QuietWorker, WorkerSpawns,
           WorkerChecksClosing, StartMarks, WorkerLoops, clear_current, QuietExit, ExitCloses,
           ExitCancels, ExitReturns, Files, submit, cancel_job, move_before, StartRecords, finish,
           ExitDrains, Stops, ProcessStops, StopsInExit, StopsInMove, StopsLeaving, Panel,
           WorkerAt, ExitAt
    <3>2. QED
      BY <1>4, <3>1, StepKinds
  <2>2. CASE LoadReads
    BY <1>3, <2>2 DEF LoadReads, EndedStaysEnded
  <2>3. CASE load_jobs_file \/ StopsWhileRewriting
    <3>1. jobs_file = <<>> /\ OncePerId(loaded) /\ loaded \in Seq(StoredJobs)
      BY <1>1, <2>3 DEF load_jobs_file, StopsWhileRewriting, LoadedInv, TypeOK
    <3>2. ToSet(jobs_file') \subseteq ToSet(loaded)
      BY <2>3, <3>1, FirstOf DEF load_jobs_file, StopsWhileRewriting
    <3>3. \A id : Holds(loaded, id, FinalStates) => ~Holds(jobs_file', id, {"Queued", "Running"})
      BY <3>1, <3>2, FewerLinesReviveNothing
    <3>4. QED
      BY <1>3, <3>1, <3>3 DEF EndedStaysEnded
  <2>4. QED
    BY <2>1, <2>2, <2>3
<1>5. CASE process = "running" /\ NoneRevived
  <2>1. loaded = <<>>
    BY <1>1, <1>5 DEF LoadedInv
  <2>2. QED
    BY <1>3, <1>5, <2>1 DEF EndedStaysEnded
<1>6. CASE UNCHANGED vars
  <2>1. UNCHANGED <<jobs_file, process>> /\ (process # "running" => OncePerId(jobs_file))
    BY <1>1, <1>6 DEF vars, processVars, LoadedInv
  <2>2. OncePerId(jobs_file) /\ OncePerId(loaded)
    BY <1>1, <2>1 DEF PictureInv, Pictures, LoadedInv
  <2>3. process = "rewriting" => jobs_file' = <<>>
    BY <1>1, <2>1 DEF LoadedInv
  <2>4. process # "rewriting" => loaded = <<>>
    BY <1>1 DEF LoadedInv
  <2>5. NoneRevived
    BY <2>1, <2>2, FewerLinesReviveNothing
  <2>6. QED
    BY <1>3, <2>3, <2>4, <2>5 DEF EndedStaysEnded
<1>7. SUFFICES ASSUME process = "running", Next
               PROVE  NoneRevived
  BY <1>4, <1>5, <1>6
<1>8. /\ OncePerId(jobs_file) /\ Distinct(queue)
      /\ ToSet(queue) \subseteq QueuedIn(jobs_file) /\ Waits \subseteq QueuedIn(jobs_file)
  BY <1>1, <1>7 DEF PictureInv, Pictures
<1>9. CASE UNCHANGED jobs_file
  BY <1>8, <1>9, FewerLinesReviveNothing
<1>10. ASSUME NEW ids, NEW state, Recorded(jobs_file', jobs_file, ids, state),
              \/ state \in FinalStates
              \/ \A id \in ids : id \in QueuedIn(jobs_file) \/ id \notin IdsOf(jobs_file)
       PROVE  NoneRevived
  BY <1>8, <1>10, AppendedLinesReviveNothing
<1>11. CASE reserve_job_id \/ take_next \/ QuietWorker \/ QuietExit
  <2>1. UNCHANGED jobs_file
    BY <1>11 DEF reserve_job_id, take_next, TakesNextWith, QuietWorker, WorkerSpawns,
         WorkerChecksClosing, StartMarks, WorkerLoops, clear_current, QuietExit, ExitCloses,
         ExitCancels, ExitReturns
  <2>2. QED
    BY <1>9, <2>1
<1>12. ASSUME NEW id \in Ids, submit(id)
       PROVE  NoneRevived
  <2>1. id \in reserved /\ jobs_file' = WithRecord(jobs_file, id, "Queued")
    BY <1>12 DEF submit, Record
  <2>2. id \notin IdsOf(jobs_file)
    BY <1>1, <1>7, <2>1 DEF IdsInv
  <2>3. Recorded(jobs_file', jobs_file, {id}, "Queued")
    BY <1>1, <2>1, RecordedId
  <2>4. QED
    BY <1>10, <2>2, <2>3
<1>13. ASSUME NEW id \in Ids, cancel_job(id)
       PROVE  NoneRevived
  <2>1. CASE UNCHANGED jobs_file
    BY <1>9, <2>1
  <2>2. CASE jobs_file' = WithRecord(jobs_file, id, "Cancelled")
    <3>1. Recorded(jobs_file', jobs_file, {id}, "Cancelled")
      BY <1>1, <2>2, RecordedId
    <3>2. QED
      BY <1>1, <1>10, <3>1
  <2>3. QED
    BY <1>13, <2>1, <2>2 DEF cancel_job, RecordFinished, Record
<1>14. ASSUME NEW ids \in Seq(Ids), ToSet(ids) \subseteq QueuedIn(jobs_file),
              NEW state \in JobStates, jobs_file' = WithRecords(jobs_file, ids, state)
       PROVE  NoneRevived
  <2>1. Recorded(jobs_file', jobs_file, ToSet(ids), state)
    BY <1>1, <1>14, RecordedIds
  <2>2. QED
    BY <1>10, <1>14, <2>1
<1>15. ASSUME NEW id \in Ids, NEW before \in Ids \cup {NoJob}, MayMove(id, before)
       PROVE  /\ MovedBefore(id, before) \in Seq(Ids)
              /\ ToSet(MovedBefore(id, before)) \subseteq QueuedIn(jobs_file)
  BY <1>1, <1>8, <1>15, MovedKeeps
<1>16. ASSUME NEW id \in Ids, NEW before \in Ids \cup {NoJob}, move_before(id, before)
       PROVE  NoneRevived
  <2>1. PICK p : p = MovedBefore(id, before)
    OBVIOUS
  <2>2. MayMove(id, before) /\ jobs_file' = WithRecords(jobs_file, p, "Queued")
    BY <1>16, <2>1 DEF move_before
  <2>3. p \in Seq(Ids) /\ ToSet(p) \subseteq QueuedIn(jobs_file)
    BY <1>15, <2>1, <2>2
  <2>4. QED
    BY <1>1, <1>14, <2>2, <2>3
<1>17. CASE StartRecords
  <2>1. worker = "started" /\ jobs_file' = WithRecord(jobs_file, current_id, "Running")
    BY <1>17 DEF StartRecords, WorkerAt, Record
  <2>2. current_id \in Ids
    BY <1>1, <2>1 DEF ControlInv, WorkerInv, TypeOK
  <2>3. current_id \in QueuedIn(jobs_file)
    BY <1>8, <2>1 DEF Waits
  <2>4. Recorded(jobs_file', jobs_file, {current_id}, "Running")
    BY <1>1, <2>1, <2>2, RecordedId
  <2>5. QED
    BY <1>10, <2>3, <2>4
<1>18. ASSUME NEW state \in FinalStates, finish(state)
       PROVE  NoneRevived
  <2>1. worker = "building" /\ jobs_file' = WithRecord(jobs_file, current_id, state)
    BY <1>18 DEF finish, WorkerAt, RecordFinished, Record
  <2>2. current_id \in Ids /\ state \in JobStates
    BY <1>1, <2>1 DEF ControlInv, WorkerInv, TypeOK
  <2>3. Recorded(jobs_file', jobs_file, {current_id}, state)
    BY <1>1, <2>1, <2>2, RecordedId
  <2>4. QED
    BY <1>10, <2>3
<1>19. CASE ExitDrains
  BY <1>1, <1>8, <1>14, <1>19 DEF ExitDrains
<1>20. CASE Files
  BY <1>12, <1>13, <1>16, <1>17, <1>18, <1>19, <1>20 DEF Files
<1>21. CASE ProcessStops
  BY <1>9, <1>21 DEF ProcessStops, StopsLeaving
<1>22. CASE StopsInExit
  <2>1. PICK n \in 1..Len(queue) :
          jobs_file' = WithRecords(jobs_file, SubSeq(queue, 1, n), "Cancelled")
    BY <1>22 DEF StopsInExit, StopsLeaving
  <2>2. PICK f : f = SubSeq(queue, 1, n)
    OBVIOUS
  <2>3. f \in Seq(Ids) /\ ToSet(f) \subseteq ToSet(queue)
    <3>1. n \in 0..Len(queue)
      BY <1>1, LenProperties
    <3>2. QED
      BY <1>1, <2>2, <3>1, FirstOf
  <2>4. QED
    BY <1>1, <1>8, <1>14, <2>1, <2>2, <2>3
<1>23. ASSUME NEW id \in Ids, NEW before \in Ids \cup {NoJob}, StopsInMove(id, before)
       PROVE  NoneRevived
  <2>1. PICK p : p = MovedBefore(id, before)
    OBVIOUS
  <2>2. MayMove(id, before)
    BY <1>23 DEF StopsInMove
  <2>3. PICK n \in 1..Len(queue) :
          jobs_file' = WithRecords(jobs_file, SubSeq(p, 1, n), "Queued")
    BY <1>23, <2>1 DEF StopsInMove, StopsLeaving
  <2>4. p \in Seq(Ids) /\ Distinct(p) /\ ToSet(p) = ToSet(queue)
    BY <1>1, <1>8, <2>1, <2>2, MovedKeeps
  <2>5. n \in 0..Len(p)
    <3>1. Len(p) = Len(queue)
      BY <1>1, <1>8, <2>4, ListedOnce
    <3>2. QED
      BY <1>1, <3>1, LenProperties
  <2>6. PICK f : f = SubSeq(p, 1, n)
    OBVIOUS
  <2>7. f \in Seq(Ids) /\ ToSet(f) \subseteq ToSet(p)
    BY <2>4, <2>5, <2>6, FirstOf
  <2>8. QED
    BY <1>1, <1>8, <1>14, <2>3, <2>4, <2>6, <2>7
<1>24. CASE Stops
  BY <1>21, <1>22, <1>23, <1>24 DEF Stops
<1>25. CASE LoadReads \/ load_jobs_file \/ StopsWhileRewriting
  BY <1>7, <1>25 DEF LoadReads, load_jobs_file, StopsWhileRewriting
<1>26. QED
  BY <1>7, <1>11, <1>20, <1>24, <1>25, StepKinds

(* The file as FileMatchesQueue reads it.                                   *)
LEMMA TruePicture ==
  JobInv => FileMatchesQueue
<1> SUFFICES ASSUME JobInv, process = "running"
             PROVE  /\ OncePerId(jobs_file) /\ QueuedIn(jobs_file) = ToSet(Awaited)
                    /\ \A m, n \in DOMAIN Awaited :
                         m < n => Ahead(jobs_file, Awaited[m], Awaited[n])
                    /\ \A n \in DOMAIN history :
                         \E k \in DOMAIN jobs_file : jobs_file[k] = history[n]
  BY DEF FileMatchesQueue
<1>1. Pictures(jobs_file, queue, history, SlotIds, Waits) /\ TypeOK /\ WorkerInv
  BY DEF JobInv, PictureInv, ControlInv
<1>2. PICK w : w = IF worker \in {"taken", "started"} THEN <<current_id>> ELSE <<>>
  OBVIOUS
<1>3. queue \in Seq(Ids) /\ current_id \in Ids \cup {NoJob}
  BY <1>1 DEF TypeOK
<1>4. w \in Seq(Ids) /\ (\/ w = <<>> /\ Waits = {}
                         \/ \E c \in Ids : w = <<c>> /\ Waits = {c})
  <2>1. CASE worker \in {"taken", "started"}
    <3>1. current_id \in Ids
      BY <1>1, <1>3, <2>1 DEF WorkerInv
    <3>2. QED
      BY <1>2, <2>1, <3>1 DEF Waits
  <2>2. CASE worker \notin {"taken", "started"}
    BY <1>2, <2>2 DEF Waits
  <2>3. QED
    BY <2>1, <2>2
<1>5. Awaited = w \o queue
  BY <1>2 DEF Awaited
<1>6. /\ QueuedIn(jobs_file) = ToSet(w \o queue)
      /\ \A m, n \in DOMAIN (w \o queue) :
           m < n => Ahead(jobs_file, (w \o queue)[m], (w \o queue)[n])
  BY <1>1, <1>3, <1>4, OrderIsThere
<1>7. OncePerId(jobs_file) /\ ToSet(history) \subseteq ToSet(jobs_file)
  BY <1>1 DEF Pictures
<1>8. \A n \in DOMAIN history : \E k \in DOMAIN jobs_file : jobs_file[k] = history[n]
  BY <1>7 DEF ToSet
<1>9. QED
  BY <1>5, <1>6, <1>7, <1>8

(* A stop, whichever it is, keeps what waited.                              *)
LEMMA StopsKeepWhatWaits ==
  JobInv /\ Next => StopKeepsTheQueue
<1> SUFFICES ASSUME JobInv, Next, process = "running", process' = "stopped"
             PROVE  StopKeepsTheQueue
  BY DEF StopKeepsTheQueue
<1>1. /\ QueuedIn(jobs_file) = ToSet(Awaited) /\ ToSet(queue) \subseteq QueuedIn(jobs_file)
      /\ jobs_file \in Seq(StoredJobs) /\ queue \in Seq(Ids) /\ Distinct(queue)
      /\ "Queued" \in JobStates /\ "Cancelled" \in JobStates
  <2>1. Pictures(jobs_file, queue, history, SlotIds, Waits) /\ TypeOK
    BY DEF JobInv, PictureInv
  <2>2. QueuedIn(jobs_file) = ToSet(Awaited)
    BY TruePicture DEF FileMatchesQueue
  <2>3. QED
    BY <2>1, <2>2 DEF Pictures, TypeOK, JobStates, FinalStates
<1>2. Stops
  <2>1. ~(reserve_job_id \/ take_next \/ QuietWorker \/ QuietExit \/ Files)
    BY DEF reserve_job_id, take_next, TakesNextWith, QuietWorker, WorkerSpawns,
         WorkerChecksClosing, StartMarks, WorkerLoops, clear_current, QuietExit, ExitCloses,
         ExitCancels, ExitReturns, Files, submit, cancel_job, move_before, StartRecords,
         finish, ExitDrains, Panel, WorkerAt, ExitAt, processVars
  <2>2. ~(LoadReads \/ load_jobs_file \/ StopsWhileRewriting)
    BY DEF LoadReads, load_jobs_file, StopsWhileRewriting
  <2>3. QED
    BY <2>1, <2>2, StepKinds
<1>3. ASSUME QueuedIn(jobs_file') = QueuedIn(jobs_file)
      PROVE  StopKeepsTheQueue
  <2>1. 0 \in IF exit = "draining" THEN 0..Len(queue) ELSE {0}
    BY <1>1, LenProperties
  <2>2. 1..0 = {}
    OBVIOUS
  <2>3. QueuedIn(jobs_file') = ToSet(Awaited) \ {queue[n] : n \in 1..0}
    BY <1>1, <1>3, <2>2
  <2>4. QED
    BY <2>1, <2>2, <2>3 DEF StopKeepsTheQueue
<1>4. CASE ProcessStops
  BY <1>3, <1>4 DEF ProcessStops, StopsLeaving
<1>5. CASE StopsInExit
  <2>1. PICK n \in 1..Len(queue) :
          jobs_file' = WithRecords(jobs_file, SubSeq(queue, 1, n), "Cancelled")
    BY <1>5 DEF StopsInExit, StopsLeaving
  <2>2. n \in 0..Len(queue) /\ exit = "draining"
    BY <1>1, <1>5, LenProperties DEF StopsInExit
  <2>3. PICK f : f = SubSeq(queue, 1, n)
    OBVIOUS
  <2>4. f \in Seq(Ids) /\ ToSet(f) = {queue[m] : m \in 1..n}
    BY <1>1, <2>2, <2>3, FirstOf
  <2>5. Recorded(jobs_file', jobs_file, ToSet(f), "Cancelled")
    BY <1>1, <2>1, <2>3, <2>4, RecordedIds
  <2>6. QueuedIn(jobs_file') = ToSet(Awaited) \ {queue[m] : m \in 1..n}
    BY <1>1, <2>4, <2>5 DEF Recorded
  <2>7. ASSUME NEW m \in 1..n
        PROVE  Holds(jobs_file', queue[m], {"Cancelled"})
    <3>1. PICK id : id = queue[m]
      OBVIOUS
    <3>2. id \in ToSet(f)
      BY <2>4, <3>1
    <3>3. ToSet(WithRecords(jobs_file, f, "Cancelled")) =
            {job \in ToSet(jobs_file) : job.id \notin ToSet(f)}
              \cup {[id |-> i, state |-> "Cancelled"] : i \in ToSet(f)}
      BY <1>1, <2>4, RecordedLines
    <3>4. [id |-> id, state |-> "Cancelled"] \in ToSet(jobs_file')
      BY <2>1, <2>3, <3>2, <3>3
    <3>5. QED
      BY <3>1, <3>4, HeldByARecord
  <2>8. QED
    BY <2>2, <2>6, <2>7 DEF StopKeepsTheQueue
<1>6. ASSUME NEW id \in Ids, NEW before \in Ids \cup {NoJob}, StopsInMove(id, before)
      PROVE  StopKeepsTheQueue
  <2>1. PICK p : p = MovedBefore(id, before)
    OBVIOUS
  <2>2. MayMove(id, before)
    BY <1>6 DEF StopsInMove
  <2>3. PICK n \in 1..Len(queue) :
          jobs_file' = WithRecords(jobs_file, SubSeq(p, 1, n), "Queued")
    BY <1>6, <2>1 DEF StopsInMove, StopsLeaving
  <2>4. p \in Seq(Ids) /\ Distinct(p) /\ ToSet(p) = ToSet(queue)
    BY <1>1, <2>1, <2>2, MovedKeeps
  <2>5. n \in 0..Len(p)
    <3>1. Len(p) = Len(queue)
      BY <1>1, <2>4, ListedOnce
    <3>2. QED
      BY <1>1, <3>1, LenProperties
  <2>6. PICK f : f = SubSeq(p, 1, n)
    OBVIOUS
  <2>7. f \in Seq(Ids) /\ ToSet(f) \subseteq QueuedIn(jobs_file)
    BY <1>1, <2>4, <2>5, <2>6, FirstOf
  <2>8. Recorded(jobs_file', jobs_file, ToSet(f), "Queued")
    BY <1>1, <2>3, <2>6, <2>7, RecordedIds
  <2>9. QueuedIn(jobs_file') = QueuedIn(jobs_file)
    BY <2>7, <2>8 DEF Recorded
  <2>10. QED
    BY <1>3, <2>9
<1>7. QED
  BY <1>2, <1>4, <1>5, <1>6 DEF Stops

-----------------------------------------------------------------------------
(* The properties, for any number of jobs and of stops.                     *)

(* Every value of the queue, of its file and of the slot stays of its type: *)
(* no operation, stop or load writes a record of no known state.           *)
THEOREM JobQueueTypes == Spec => []TypeOK
<1>1. JobInv => TypeOK
  BY DEF JobInv
<1>2. QED
  BY JobsConsistent, <1>1, PTL

(* A cancel reaches the job it named: while the program runs on, a raised   *)
(* flag in the slot is one the user raised for the job there.              *)
THEOREM CancelIsForTheJobNamed == Spec => []CancelHitsItsJob
<1>1. JobInv => CancelHitsItsJob
  BY DEF JobInv, ControlInv
<1>2. QED
  BY JobsConsistent, <1>1, PTL

(* When stop_for_exit has returned, a job that still runs has been told to  *)
(* stop, also one that take_next took while the close was under way.       *)
THEOREM ExitReachesWhatRuns == Spec => []ExitCancelsWhatRuns
<1>1. JobInv => ExitCancelsWhatRuns
  BY DEF JobInv, ControlInv, ExitInv, ExitCancelsWhatRuns
<1>2. QED
  BY JobsConsistent, <1>1, PTL

(* snapshot's promise: a recorded job is in exactly one of the slot, the    *)
(* queue and the history, and once there.                                  *)
THEOREM EveryJobListedOnce == Spec => []ListedExactlyOnce
<1>1. JobInv => ListedExactlyOnce
  <2> SUFFICES ASSUME JobInv, process = "running"
               PROVE  /\ FileIds = SlotIds \cup ToSet(queue) \cup HistoryIds
                      /\ SlotIds \cap ToSet(queue) = {} /\ SlotIds \cap HistoryIds = {}
                      /\ ToSet(queue) \cap HistoryIds = {}
                      /\ Len(queue) = Cardinality(ToSet(queue))
                      /\ Len(history) = Cardinality(HistoryIds)
    BY DEF ListedExactlyOnce
  <2>1. Pictures(jobs_file, queue, history, SlotIds, Waits) /\ TypeOK
    BY DEF JobInv, PictureInv
  <2>2. FileIds = IdsOf(jobs_file) /\ HistoryIds = IdsOf(history)
    BY IdsAre DEF FileIds, HistoryIds
  <2>3. queue \in Seq(Ids) /\ history \in Seq(EndedJobs)
    BY <2>1 DEF TypeOK, EndedJobs
  <2>4. Distinct(queue) /\ OncePerId(history)
    BY <2>1 DEF Pictures
  <2>5. Len(queue) = Cardinality(ToSet(queue))
    BY <2>3, <2>4, ListedOnce
  <2>6. Len(history) = Cardinality(IdsOf(history))
    BY <2>3, <2>4, EndedOnce
  <2>7. QED
    BY <2>1, <2>2, <2>5, <2>6 DEF Pictures
<1>2. QED
  BY JobsConsistent, <1>1, PTL

(* The file never lies about a running process: what it holds as queued is  *)
(* the queue in its order, behind a job taken but not yet recorded running, *)
(* and a finished job's record is the one the list shows.                   *)
THEOREM FileIsATruePicture == Spec => []FileMatchesQueue
<1>1. JobInv => FileMatchesQueue
  BY TruePicture
<1>2. QED
  BY JobsConsistent, <1>1, PTL

(* A stop costs no waiting job its turn, also a stop between two lines of a *)
(* move or of an exit: the file holds as queued what waited, but for the    *)
(* front of the queue the exit had cancelled.                              *)
THEOREM StopsCostNoJob == Spec => StopsKeepTheQueue
<1>1. JobInv /\ [Next]_vars => [StopKeepsTheQueue]_vars
  BY StopsKeepWhatWaits
<1>2. QED
  BY JobsConsistent, <1>1, PTL DEF Spec, StopsKeepTheQueue

(* What has ended stays ended: no move, cancel, start, stop or load writes  *)
(* a record that would run a finished job again.                           *)
THEOREM EndedJobsStayEnded == Spec => FinishedStaysFinished
<1>1. JobInv /\ [Next]_vars => [EndedStaysEnded]_vars
  BY EndedStays
<1>2. QED
  BY JobsConsistent, <1>1, PTL DEF Spec, FinishedStaysFinished

=============================================================================
