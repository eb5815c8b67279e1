-------------------------- MODULE ThreadListProofs --------------------------
(***************************************************************************)
(* What the list functions of lib/thread.c do to a list of threads: facts  *)
(* about Keep, Without, InsertTimer, Append, Tail and \o for lists of any  *)
(* length, on which ThreadMasterProofs rests.                              *)
(***************************************************************************)
EXTENDS ThreadMaster, FiniteSetTheorems, SequenceTheorems, TLAPS

(* r is what is left of q after some elements were unlinked. *)
Sublist(r, q) ==
  \E f \in [1..Len(r) -> 1..Len(q)] :
    /\ \A i, j \in 1..Len(r) : i < j => f[i] < f[j]
    /\ \A i \in 1..Len(r) : r[i] = q[f[i]]

(* Unlinking keeps threads apart. *)
LEMMA SublistDistinct ==
  ASSUME NEW q \in Seq(Thread), NEW r \in Seq(Thread), Sublist(r, q), Distinct(q)
  PROVE  Distinct(r)
  <1>1. PICK f \in [1..Len(r) -> 1..Len(q)] :
          /\ \A i, j \in 1..Len(r) : i < j => f[i] < f[j]
          /\ \A i \in 1..Len(r) : r[i] = q[f[i]]
    BY DEF Sublist
  <1>2. ASSUME NEW i \in 1..Len(r), NEW j \in 1..Len(r), r[i] = r[j]
        PROVE  i = j
    <2>1. f[i] \in 1..Len(q) /\ f[j] \in 1..Len(q) /\ q[f[i]] = q[f[j]]
      BY <1>1, <1>2
    <2>2. f[i] = f[j]
      BY <2>1 DEF Distinct
    <2>3. ~(i < j) /\ ~(j < i)
      BY <1>1, <2>1, <2>2
    <2> QED
      BY <2>3
  <1> QED
    BY <1>2 DEF Distinct

Below(K, i) == {k \in K : k < i}
Rank(K, i) == Cardinality(Below(K, i))

(* Sets of indices are finite. *)
LEMMA IndexSet ==
  ASSUME NEW n \in Nat, NEW K \in SUBSET (1..n)
  PROVE  IsFiniteSet(K) /\ Cardinality(K) \in Nat
  <1>1. IsFiniteSet(1..n)
    BY FS_Interval
  <1>2. IsFiniteSet(K)
    BY <1>1, FS_Subset
  <1> QED
    BY <1>2, FS_CardinalityType

(* An index is not below itself. *)
LEMMA RankStep ==
  ASSUME NEW n \in Nat, NEW K \in SUBSET (1..n), NEW i \in K
  PROVE  /\ Rank(K, i) \in Nat
         /\ Cardinality(Below(K, i) \cup {i}) = Rank(K, i) + 1
  <1>1. Below(K, i) \in SUBSET (1..n) /\ i \notin Below(K, i)
    <2>1. i \in Nat
      OBVIOUS
    <2>2. ~(i < i)
      BY <2>1
    <2> QED
      BY <2>2, Zenon DEF Below
  <1>2. IsFiniteSet(Below(K, i)) /\ Rank(K, i) \in Nat
    BY <1>1, IndexSet DEF Rank
  <1> QED
    BY <1>1, <1>2, FS_AddElement DEF Rank

(* A larger index has a larger rank, and ranks are smaller than the size. *)
LEMMA RankGrows ==
  ASSUME NEW n \in Nat, NEW K \in SUBSET (1..n), NEW i \in K
  PROVE  /\ Rank(K, i) \in 0..(Cardinality(K) - 1)
         /\ \A j \in K : i < j => Rank(K, i) < Rank(K, j)
  <1>1. ASSUME NEW L \in SUBSET K, Below(K, i) \cup {i} \in SUBSET L
        PROVE  Rank(K, i) + 1 <= Cardinality(L)
    <2>1. IsFiniteSet(L)
      BY IndexSet
    <2>2. Cardinality(Below(K, i) \cup {i}) <= Cardinality(L)
      BY <1>1, <2>1, FS_Subset
    <2> QED
      BY <2>2, RankStep
  <1>2. Rank(K, i) \in Nat /\ Cardinality(K) \in Nat
    BY RankStep, IndexSet
  <1>3. Rank(K, i) + 1 <= Cardinality(K)
    <2>1. Below(K, i) \cup {i} \in SUBSET K
      BY DEF Below
    <2> QED
      BY <1>1, <2>1
  <1>4. ASSUME NEW j \in K, i < j
        PROVE  Rank(K, i) < Rank(K, j)
    <2>1. Below(K, j) \in SUBSET K
      BY DEF Below
    <2>2. \A k \in K : k \in Nat
      OBVIOUS
    <2>3. Below(K, i) \cup {i} \in SUBSET Below(K, j)
      <3> SUFFICES ASSUME NEW k \in Below(K, i) \cup {i}
                   PROVE  k \in Below(K, j)
        OBVIOUS
      <3>1. k \in K /\ (k < i \/ k = i)
        BY DEF Below
      <3>2. k < j
        BY <1>4, <2>2, <3>1
      <3> QED
        BY <3>1, <3>2 DEF Below
    <2>4. Rank(K, i) + 1 <= Rank(K, j)
      BY <1>1, <2>1, <2>3 DEF Rank
    <2>5. Rank(K, j) \in Nat
      BY RankStep
    <2> QED
      BY <1>2, <2>4, <2>5
  <1> QED
    BY <1>2, <1>3, <1>4

(* Different indices have different ranks. *)
LEMMA RankInjective ==
  ASSUME NEW n \in Nat, NEW K \in SUBSET (1..n), NEW i \in K, NEW j \in K,
         Rank(K, i) = Rank(K, j)
  PROVE  i = j
  <1>1. Rank(K, i) \in Nat /\ Rank(K, j) \in Nat
    BY RankStep
  <1>2. i < j => Rank(K, i) < Rank(K, j)
    BY RankGrows
  <1>3. j < i => Rank(K, j) < Rank(K, i)
    BY RankGrows
  <1>4. i \in Nat /\ j \in Nat
    OBVIOUS
  <1> QED
    BY <1>1, <1>2, <1>3, <1>4

(* The ranks are 0, 1, 2 and so on, without a gap. *)
LEMMA RankOnto ==
  ASSUME NEW n \in Nat, NEW K \in SUBSET (1..n), NEW r \in 0..(Cardinality(K) - 1)
  PROVE  \E i \in K : Rank(K, i) = r
  <1> DEFINE T == 0..(Cardinality(K) - 1)
             rank == [i \in K |-> Rank(K, i)]
  <1>1. Cardinality(K) \in Nat
    BY IndexSet
  <1>2. IsFiniteSet(T) /\ Cardinality(T) = Cardinality(K)
    <2>1. 0 \in Int /\ Cardinality(K) - 1 \in Int
      BY <1>1
    <2>2. /\ IsFiniteSet(T)
          /\ Cardinality(T) = IF 0 > Cardinality(K) - 1 THEN 0 ELSE (Cardinality(K) - 1) - 0 + 1
      BY <2>1, FS_Interval
    <2> QED
      BY <1>1, <2>2
  <1>3. \A i \in K : Rank(K, i) \in T
    BY RankGrows
  <1>4. \A i, j \in K : Rank(K, i) = Rank(K, j) => i = j
    BY RankInjective
  <1> HIDE DEF T
  <1>5. rank \in Injection(K, T)
    BY <1>3, <1>4 DEF Injection, IsInjective
  <1> HIDE DEF rank
  <1>6. rank \in Surjection(K, T)
    BY <1>2, <1>5, FS_Injection
  <1>7. r \in T
    BY DEF T
  <1> QED
    BY <1>6, <1>7, Zenon DEF rank, Surjection

(* Keep unlinks the threads that are not in S, and no others. *)
LEMMA KeepProperties ==
  ASSUME NEW q \in Seq(Thread), NEW S
  PROVE  /\ Keep(q, S) \in Seq(Thread)
         /\ Sublist(Keep(q, S), q)
         /\ Elems(Keep(q, S)) = Elems(q) \cap S
  <1> DEFINE K == {i \in 1..Len(q) : q[i] \in S}
             c == Cardinality(K)
             f == [k \in 1..c |-> CHOOSE i \in K : Rank(K, i) = k - 1]
             r == Keep(q, S)
  <1>1. Len(q) \in Nat /\ K \in SUBSET (1..Len(q))
    OBVIOUS
  <1>2. c \in Nat
    BY <1>1, IndexSet
  <1>3. r = [k \in 1..c |-> q[f[k]]]
    BY DEF Keep, Rank, Below
  <1>4. ASSUME NEW k \in 1..c
        PROVE  f[k] \in K /\ Rank(K, f[k]) = k - 1
    <2>1. k - 1 \in 0..(c - 1)
      BY <1>2
    <2>2. \E i \in K : Rank(K, i) = k - 1
      BY <1>1, <2>1, RankOnto, Zenon
    <2> QED
      BY <2>2, Zenon
  <1> HIDE DEF f, r
  <1>5. ASSUME NEW i \in K
        PROVE  \E k \in 1..c : f[k] = i
    <2>1. Rank(K, i) \in 0..(c - 1)
      BY <1>1, RankGrows, Zenon
    <2>2. PICK k \in 1..c : k - 1 = Rank(K, i)
      <3>1. \A x \in 0..(c - 1) : x + 1 \in 1..c /\ (x + 1) - 1 = x
        BY <1>2
      <3> QED
        BY <2>1, <3>1, Zenon
    <2>3. f[k] \in K /\ Rank(K, f[k]) = Rank(K, i)
      BY <1>4, <2>2
    <2>4. f[k] = i
      <3> HIDE DEF K
      <3> QED
        BY <1>1, <2>3, RankInjective, Zenon
    <2> QED
      BY <2>4
  <1>6. \A j, k \in 1..c : j < k => f[j] < f[k]
    <2> SUFFICES ASSUME NEW j \in 1..c, NEW k \in 1..c, j < k
                 PROVE  f[j] < f[k]
      OBVIOUS
    <2>1. /\ f[j] \in K /\ f[k] \in K
          /\ Rank(K, f[j]) = j - 1 /\ Rank(K, f[k]) = k - 1
      BY <1>4
    <2>2. f[k] < f[j] => Rank(K, f[k]) < Rank(K, f[j])
      BY <1>1, <2>1, RankGrows, Zenon
    <2>3. f[k] # f[j] /\ ~(f[k] < f[j])
      BY <1>2, <2>1, <2>2
    <2> QED
      BY <2>1, <2>3
  <1>7. f \in [1..c -> 1..Len(q)]
    BY <1>4 DEF f
  <1>8. r \in Seq(Thread) /\ Len(r) = c
    <2>1. \A k \in 1..c : q[f[k]] \in Thread
      BY <1>7
    <2> QED
      BY <1>2, <1>3, <2>1
  <1>9. Sublist(r, q)
    BY <1>3, <1>6, <1>7, <1>8 DEF Sublist
  <1>10. Elems(r) = Elems(q) \cap S
    <2>1. Elems(r) = {q[f[k]] : k \in 1..c}
      BY <1>3, <1>8 DEF Elems
    <2>2. Elems(q) \cap S = {q[i] : i \in K}
      BY DEF Elems
    <2>3. Elems(r) \subseteq Elems(q) \cap S
      BY <1>4, <2>1, <2>2, Zenon
    <2>4. Elems(q) \cap S \subseteq Elems(r)
      BY <1>5, <2>1, <2>2, Zenon
    <2> QED
      BY <2>3, <2>4
  <1> QED
    BY <1>8, <1>9, <1>10 DEF r

(* thread_list_delete unlinks the one thread it is given. *)
LEMMA WithoutProperties ==
  ASSUME NEW q \in Seq(Thread), NEW t \in Elems(q), Distinct(q)
  PROVE  /\ Without(q, t) \in Seq(Thread)
         /\ Sublist(Without(q, t), q)
         /\ Elems(Without(q, t)) = Elems(q) \ {t}
  <1> DEFINE at == CHOOSE i \in 1..Len(q) : q[i] = t
             f == [j \in 1..(Len(q) - 1) |-> IF j < at THEN j ELSE j + 1]
             r == Without(q, t)
  <1>1. at \in 1..Len(q) /\ q[at] = t
    BY DEF Elems
  <1>2. r = [j \in 1..(Len(q) - 1) |-> IF j < at THEN q[j] ELSE q[j + 1]]
    BY DEF Without
  <1> HIDE DEF at, r
  <1>3. r \in Seq(Thread) /\ Len(r) = Len(q) - 1
    <2>1. \A j \in 1..(Len(q) - 1) : j \in 1..Len(q) /\ j + 1 \in 1..Len(q)
      OBVIOUS
    <2>2. r \in [1..(Len(q) - 1) -> Thread]
      BY <1>2, <2>1
    <2>3. Len(q) - 1 \in Nat
      BY <1>1
    <2> QED
      BY <2>2, <2>3
  <1>4. /\ f \in [1..Len(r) -> 1..Len(q)]
        /\ \A i, j \in 1..Len(r) : i < j => f[i] < f[j]
        /\ \A i \in 1..Len(r) : r[i] = q[f[i]]
    BY <1>1, <1>2, <1>3
  <1>5. Sublist(r, q)
    BY <1>4 DEF Sublist
  <1>6. ASSUME NEW i \in 1..Len(q), i # at
        PROVE  \E j \in 1..Len(r) : f[j] = i
    <2>1. CASE i < at
      <3>1. i \in 1..Len(r) /\ f[i] = i
        BY <1>1, <1>3, <2>1
      <3> QED
        BY <3>1
    <2>2. CASE i > at
      <3>1. i - 1 \in 1..Len(r) /\ f[i - 1] = i
        BY <1>1, <1>3, <2>2
      <3> QED
        BY <3>1
    <2>3. i < at \/ i > at
      BY <1>1, <1>6
    <2> QED
      BY <2>1, <2>2, <2>3
  <1>7. \A j \in 1..Len(r) : f[j] # at
    BY <1>1, <1>3
  <1> HIDE DEF f
  <1>8. Elems(r) = Elems(q) \ {t}
    <2>1. Elems(r) \subseteq Elems(q) \ {t}
      BY <1>1, <1>4, <1>7 DEF Elems, Distinct
    <2>2. Elems(q) \ {t} \subseteq Elems(r)
      <3> SUFFICES ASSUME NEW i \in 1..Len(q), q[i] # t
                   PROVE  q[i] \in Elems(r)
        BY DEF Elems
      <3>1. PICK j \in 1..Len(r) : f[j] = i
        BY <1>1, <1>6
      <3>2. r[j] = q[i]
        BY <1>4, <3>1
      <3> QED
        BY <3>2 DEF Elems
    <2> QED
      BY <2>1, <2>2
  <1> QED
    BY <1>3, <1>5, <1>8 DEF r

(* A set of indices that is not empty has a smallest one. *)
LEMMA Smallest ==
  ASSUME NEW n \in Nat, NEW K \in SUBSET (1..n), K # {}
  PROVE  \E i \in K : \A j \in K : i <= j
  <1>1. IsFiniteSet(K) /\ Cardinality(K) \in Nat
    BY IndexSet
  <1>2. Cardinality(K) # 0
    BY <1>1, FS_EmptySet
  <1>3. 0 \in 0..(Cardinality(K) - 1)
    BY <1>1, <1>2
  <1>4. PICK i \in K : Rank(K, i) = 0
    BY <1>3, RankOnto
  <1>5. ASSUME NEW j \in K, j < i
        PROVE  FALSE
    <2>1. Rank(K, j) < Rank(K, i) /\ Rank(K, j) \in Nat
      BY <1>5, RankGrows, RankStep
    <2> QED
      BY <1>4, <2>1
  <1>6. \A j \in K : j \in Nat
    OBVIOUS
  <1> QED
    BY <1>5, <1>6

(* thread_list_add_before links the new timer where the list stays sorted. *)
LEMMA InsertProperties ==
  ASSUME NEW q \in Seq(Thread), Distinct(q), NEW t \in Thread, t \notin Elems(q),
         NEW d \in Int, \A u \in Thread : Sands(u) \in Int,
         \A i, j \in 1..Len(q) : i < j => Sands(q[i]) <= Sands(q[j])
  PROVE  LET r == InsertTimer(q, t, d)
             S(u) == IF u = t THEN d ELSE Sands(u)
         IN  /\ r \in Seq(Thread) /\ Distinct(r) /\ Elems(r) = Elems(q) \cup {t}
             /\ \A i, j \in 1..Len(r) : i < j => S(r[i]) <= S(r[j])
  <1> DEFINE later == {i \in 1..Len(q) : d <= Sands(q[i])}
             at == IF later = {} THEN Len(q) + 1
                   ELSE CHOOSE i \in later : \A j \in later : i <= j
             r == InsertTimer(q, t, d)
             S(u) == IF u = t THEN d ELSE Sands(u)
             n == Len(q)
  <1>1. n \in Nat /\ \A i \in 1..n : q[i] \in Thread /\ q[i] # t /\ Sands(q[i]) \in Int
    BY DEF Elems
  <1>2. /\ at \in 1..(n + 1)
        /\ \A i \in 1..n : i < at => Sands(q[i]) <= d
        /\ \A i \in 1..n : at <= i => d <= Sands(q[i])
    <2>1. CASE later = {}
      <3>1. \A i \in 1..n : ~(d <= Sands(q[i]))
        BY <2>1
      <3>2. at = n + 1
        BY <2>1
      <3> HIDE DEF at, later, n
      <3>3. \A i \in 1..n : Sands(q[i]) <= d /\ ~(n + 1 <= i)
        BY <1>1, <3>1
      <3>4. n + 1 \in 1..(n + 1)
        BY <1>1
      <3> QED
        BY <3>2, <3>3, <3>4
    <2>2. CASE later # {}
      <3>1. \E i \in later : \A j \in later : i <= j
        BY <1>1, <2>2, Smallest
      <3>2. at \in later /\ \A j \in later : at <= j
        BY <2>2, <3>1, Zenon
      <3> HIDE DEF at
      <3>3. \A i \in 1..n : i < at => ~(d <= Sands(q[i]))
        BY <1>1, <3>2
      <3>4. \A i \in 1..n : at <= i => d <= Sands(q[i])
        <4> SUFFICES ASSUME NEW i \in 1..n, at <= i
                     PROVE  d <= Sands(q[i])
          OBVIOUS
        <4>1. d <= Sands(q[at]) /\ at \in 1..n
          BY <3>2
        <4>2. at = i \/ at < i
          BY <4>1
        <4>3. Sands(q[at]) <= Sands(q[i])
          BY <1>1, <4>1, <4>2
        <4> QED
          BY <1>1, <4>1, <4>3
      <3> QED
        BY <1>1, <3>2, <3>3, <3>4
    <2> QED
      BY <2>1, <2>2
  <1>3. r = [j \in 1..(n + 1) |-> CASE j < at -> q[j] [] j = at -> t [] j > at -> q[j - 1]]
    BY DEF InsertTimer
  <1> HIDE DEF at, r, n
  <1>4. ASSUME NEW j \in 1..(n + 1)
        PROVE  /\ j < at => r[j] = q[j] /\ j \in 1..n
               /\ j = at => r[j] = t
               /\ j > at => r[j] = q[j - 1] /\ j - 1 \in 1..n /\ at <= j - 1
               /\ j < at \/ j = at \/ j > at
    BY <1>1, <1>2, <1>3
  <1>5. r \in Seq(Thread) /\ Len(r) = n + 1
    <2>1. \A j \in 1..(n + 1) : r[j] \in Thread
      BY <1>1, <1>4
    <2>2. r \in [1..(n + 1) -> Thread]
      BY <1>3, <2>1
    <2> QED
      BY <1>1, <2>2
  <1>6. Distinct(r)
    <2> SUFFICES ASSUME NEW i \in 1..(n + 1), NEW j \in 1..(n + 1), r[i] = r[j]
                 PROVE  i = j
      BY <1>5 DEF Distinct
    <2>1. \A k, m \in 1..n : q[k] = q[m] => k = m
      BY DEF Distinct, n
    <2>2. CASE i = at
      <3>1. ~(j < at) /\ ~(j > at)
        BY <1>1, <1>4, <2>2
      <3> QED
        BY <1>4, <2>2, <3>1
    <2>3. CASE j = at
      <3>1. ~(i < at) /\ ~(i > at)
        BY <1>1, <1>4, <2>3
      <3> QED
        BY <1>4, <2>3, <3>1
    <2>4. CASE i # at /\ j # at
      <3>1. PICK k \in 1..n : r[i] = q[k] /\ ((i < at /\ k = i) \/ (i > at /\ k = i - 1 /\ at <= k))
        BY <1>4, <2>4
      <3>2. PICK m \in 1..n : r[j] = q[m] /\ ((j < at /\ m = j) \/ (j > at /\ m = j - 1 /\ at <= m))
        BY <1>4, <2>4
      <3>3. k = m
        BY <2>1, <3>1, <3>2
      <3> QED
        BY <1>2, <3>1, <3>2, <3>3
    <2> QED
      BY <2>2, <2>3, <2>4
  <1>7. Elems(r) = Elems(q) \cup {t}
    <2>1. Elems(r) \subseteq Elems(q) \cup {t}
      BY <1>4, <1>5 DEF Elems, n
    <2>2. t \in Elems(r)
      BY <1>2, <1>4, <1>5 DEF Elems
    <2>3. ASSUME NEW i \in 1..n
          PROVE  q[i] \in Elems(r)
      <3>1. CASE i < at
        <4>1. i \in 1..(n + 1) /\ r[i] = q[i]
          BY <1>1, <1>4, <3>1
        <4> QED
          BY <1>5, <4>1 DEF Elems
      <3>2. CASE i >= at
        <4>1. i + 1 \in 1..(n + 1) /\ i + 1 > at /\ (i + 1) - 1 = i
          BY <1>1, <1>2, <3>2
        <4>2. r[i + 1] = q[i]
          BY <1>4, <4>1
        <4> QED
          BY <1>5, <4>1, <4>2 DEF Elems
      <3> QED
        BY <1>2, <3>1, <3>2
    <2> QED
      BY <2>1, <2>2, <2>3 DEF Elems, n
  <1>8. \A i, j \in 1..Len(r) : i < j => S(r[i]) <= S(r[j])
    <2> SUFFICES ASSUME NEW i \in 1..(n + 1), NEW j \in 1..(n + 1), i < j
                 PROVE  S(r[i]) <= S(r[j])
      BY <1>5
    <2>1. CASE j < at
      <3>1. i < at
        BY <1>2, <2>1
      <3>2. r[i] = q[i] /\ i \in 1..n /\ r[j] = q[j] /\ j \in 1..n
        BY <1>4, <2>1, <3>1
      <3>3. S(r[i]) = Sands(q[i]) /\ S(r[j]) = Sands(q[j])
        BY <1>1, <3>2
      <3>4. Sands(q[i]) <= Sands(q[j])
        BY <3>2 DEF n
      <3> QED
        BY <3>3, <3>4
    <2>2. CASE j = at
      BY <1>1, <1>2, <1>4, <2>2
    <2>3. CASE j > at
      <3>1. r[j] = q[j - 1] /\ j - 1 \in 1..n /\ at <= j - 1
        BY <1>4, <2>3
      <3>2. S(r[j]) = Sands(q[j - 1]) /\ Sands(q[j - 1]) \in Int /\ d <= Sands(q[j - 1])
        BY <1>1, <1>2, <3>1
      <3>3. CASE i < at
        BY <1>1, <1>2, <1>4, <3>2, <3>3
      <3>4. CASE i = at
        BY <1>4, <3>2, <3>4
      <3>5. CASE i > at
        <4>1. r[i] = q[i - 1] /\ i - 1 \in 1..n /\ i - 1 < j - 1
          BY <1>4, <3>5
        <4> QED
          BY <1>1, <3>1, <3>2, <4>1 DEF n
      <3> QED
        BY <1>2, <3>3, <3>4, <3>5
    <2> QED
      BY <1>2, <2>1, <2>2, <2>3
  <1> QED
    BY <1>5, <1>6, <1>7, <1>8 DEF r

(* A list is what is left of it when nothing was unlinked. *)
LEMMA SublistSame ==
  ASSUME NEW q \in Seq(Thread)
  PROVE  Sublist(q, q)
  <1> DEFINE f == [i \in 1..Len(q) |-> i]
  <1>1. /\ f \in [1..Len(q) -> 1..Len(q)]
        /\ \A i, j \in 1..Len(q) : i < j => f[i] < f[j]
        /\ \A i \in 1..Len(q) : q[i] = q[f[i]]
    OBVIOUS
  <1> HIDE DEF f
  <1> QED
    BY <1>1 DEF Sublist

(* thread_list_add links a thread at the end. *)
LEMMA AddedLast ==
  ASSUME NEW q \in Seq(Thread), Distinct(q), NEW t \in Thread, t \notin Elems(q)
  PROVE  /\ Append(q, t) \in Seq(Thread)
         /\ Distinct(Append(q, t))
         /\ Elems(Append(q, t)) = Elems(q) \cup {t}
  <1> DEFINE r == Append(q, t)
  <1>1. r \in Seq(Thread) /\ Len(r) = Len(q) + 1 /\ r[Len(q) + 1] = t
    OBVIOUS
  <1>2. \A i \in 1..Len(q) : r[i] = q[i] /\ r[i] # t
    BY DEF Elems
  <1>3. \A i \in 1..Len(r) : i \in 1..Len(q) \/ i = Len(q) + 1
    BY <1>1
  <1> HIDE DEF r
  <1>4. Distinct(r)
    BY <1>1, <1>2, <1>3 DEF Distinct
  <1>5. Elems(r) = Elems(q) \cup {t}
    BY <1>1, <1>2, <1>3 DEF Elems
  <1> QED
    BY <1>1, <1>4, <1>5 DEF r

(* thread_trim_head takes the first thread and no other. *)
LEMMA HeadTaken ==
  ASSUME NEW q \in Seq(Thread), Distinct(q), q # <<>>
  PROVE  /\ Tail(q) \in Seq(Thread)
         /\ Distinct(Tail(q))
         /\ Head(q) \in Elems(q)
         /\ Elems(Tail(q)) = Elems(q) \ {Head(q)}
  <1> DEFINE r == Tail(q)
  <1>1. /\ r \in Seq(Thread) /\ Len(r) = Len(q) - 1 /\ Len(q) \in Nat \ {0}
        /\ Head(q) = q[1] /\ 1 \in 1..Len(q)
    OBVIOUS
  <1>2. \A i \in 1..Len(r) : r[i] = q[i + 1] /\ i + 1 \in 1..Len(q) /\ i + 1 # 1
    OBVIOUS
  <1>3. \A i \in 1..Len(q) : i # 1 => i - 1 \in 1..Len(r) /\ r[i - 1] = q[i]
    OBVIOUS
  <1> HIDE DEF r
  <1>4. Distinct(r)
    <2> SUFFICES ASSUME NEW i \in 1..Len(r), NEW j \in 1..Len(r), r[i] = r[j]
                 PROVE  i = j
      BY DEF Distinct
    <2>1. i + 1 = j + 1
      BY <1>2 DEF Distinct
    <2> QED
      BY <2>1
  <1>5. Elems(r) \subseteq Elems(q) \ {Head(q)}
    BY <1>1, <1>2 DEF Elems, Distinct
  <1>6. Elems(q) \ {Head(q)} \subseteq Elems(r)
    <2> SUFFICES ASSUME NEW i \in 1..Len(q), q[i] # q[1]
                 PROVE  q[i] \in Elems(r)
      BY <1>1 DEF Elems
    <2>1. i - 1 \in 1..Len(r) /\ r[i - 1] = q[i]
      BY <1>3
    <2> QED
      BY <2>1 DEF Elems
  <1> QED
    BY <1>1, <1>4, <1>5, <1>6 DEF r, Elems

(* Lists without a thread in common, one after the other. *)
LEMMA Joined ==
  ASSUME NEW p \in Seq(Thread), NEW q \in Seq(Thread), Distinct(p), Distinct(q),
         Elems(p) \cap Elems(q) = {}
  PROVE  /\ p \o q \in Seq(Thread)
         /\ Distinct(p \o q)
         /\ Elems(p \o q) = Elems(p) \cup Elems(q)
         /\ p # <<>> => p \o q # <<>> /\ Head(p \o q) = Head(p)
  <1> DEFINE r == p \o q
             m == Len(p)
             n == Len(q)
  <1>1. r \in Seq(Thread) /\ m \in Nat /\ n \in Nat /\ Len(r) = m + n
    OBVIOUS
  <1>2. \A i \in 1..m : i \in 1..Len(r) /\ r[i] = p[i]
    OBVIOUS
  <1>3. \A i \in 1..n : m + i \in 1..Len(r) /\ r[m + i] = q[i]
    OBVIOUS
  <1>4. p # <<>> => r # <<>> /\ Head(r) = Head(p)
    BY <1>1, <1>2
  <1>5. \A i \in 1..Len(r) : i \in 1..m \/ \E j \in 1..n : i = m + j
    <2> SUFFICES ASSUME NEW i \in 1..Len(r), i \notin 1..m
                 PROVE  \E j \in 1..n : i = m + j
      OBVIOUS
    <2>1. i - m \in 1..n /\ i = m + (i - m)
      BY <1>1
    <2> QED
      BY <2>1
  <1> HIDE DEF r
  <1>6. \A i \in 1..m, j \in 1..n : p[i] # q[j]
    BY DEF Elems
  <1>7. Distinct(r)
    <2> SUFFICES ASSUME NEW i \in 1..Len(r), NEW j \in 1..Len(r), r[i] = r[j]
                 PROVE  i = j
      BY DEF Distinct
    <2>1. CASE i \in 1..m /\ j \in 1..m
      BY <1>2, <2>1 DEF Distinct
    <2>2. CASE i \in 1..m /\ j \notin 1..m
      <3>1. PICK k \in 1..n : j = m + k
        BY <1>5, <2>2
      <3>2. r[i] = p[i] /\ r[j] = q[k]
        BY <1>2, <1>3, <2>2, <3>1
      <3> QED
        BY <1>6, <2>2, <3>2
    <2>3. CASE i \notin 1..m /\ j \in 1..m
      <3>1. PICK k \in 1..n : i = m + k
        BY <1>5, <2>3
      <3>2. r[j] = p[j] /\ r[i] = q[k]
        BY <1>2, <1>3, <2>3, <3>1
      <3> QED
        BY <1>6, <2>3, <3>2
    <2>4. CASE i \notin 1..m /\ j \notin 1..m
      <3>1. PICK k \in 1..n : i = m + k
        BY <1>5, <2>4
      <3>2. PICK l \in 1..n : j = m + l
        BY <1>5, <2>4
      <3>3. r[i] = q[k] /\ r[j] = q[l]
        BY <1>3, <3>1, <3>2
      <3> QED
        BY <3>1, <3>2, <3>3 DEF Distinct
    <2> QED
      BY <2>1, <2>2, <2>3, <2>4
  <1>8. Elems(r) \subseteq Elems(p) \cup Elems(q)
    <2> SUFFICES ASSUME NEW i \in 1..Len(r), i \notin 1..m
                 PROVE  r[i] \in Elems(q)
      BY <1>2 DEF Elems
    <2>1. PICK k \in 1..n : i = m + k
      BY <1>5
    <2>2. r[i] = q[k]
      BY <1>3, <2>1
    <2> QED
      BY <2>2 DEF Elems
  <1>9. Elems(p) \subseteq Elems(r)
    BY <1>2 DEF Elems
  <1>10. Elems(q) \subseteq Elems(r)
    BY <1>3 DEF Elems
  <1> QED
    BY <1>1, <1>4, <1>7, <1>8, <1>9, <1>10 DEF r

=============================================================================
