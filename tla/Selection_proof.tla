-------------------------- MODULE Selection_proof --------------------------
(***************************************************************************)
(* Proofs about what a tick looks at, for all sets of symbols and settings.*)
(*                                                                         *)
(* Universe: its types; that the slots of the universe are filled; and that*)
(* exploration goes on. They rest on lemmas about the operators on lists.  *)
(* Judgement: its types; that holdings are judged; that the calls of a day *)
(* stay near the cap; and that searches are spaced.                        *)
(***************************************************************************)
EXTENDS Judgement, Universe, SequenceTheorems, FunctionTheorems, FiniteSetTheorems, TLAPS

(* Max and Min choose; of two numbers they are a comparison.               *)
LEMMA MinMax ==
    ASSUME NEW a \in Int, NEW b \in Int
    PROVE  /\ Min({a, b}) = IF a <= b THEN a ELSE b
           /\ Max({a, b}) = IF a >= b THEN a ELSE b
  <1>1. Min({a, b}) = IF a <= b THEN a ELSE b
    BY DEF Min
  <1>2. Max({a, b}) = IF a >= b THEN a ELSE b
    BY DEF Max
  <1>3. QED
    BY <1>1, <1>2

(* In a finite set of numbers every rank is that of exactly one member:    *)
(* the ranks are an injection into as many numbers.                        *)
RanksIn(I) == [i \in I |-> Cardinality({j \in I : j <= i})]

LEMMA RanksAreABijection ==
    ASSUME NEW I \in SUBSET Nat, IsFiniteSet(I)
    PROVE  /\ RanksIn(I) \in [I -> 1..Cardinality(I)]
           /\ \A i1, i2 \in I : RanksIn(I)[i1] = RanksIn(I)[i2] => i1 = i2
           /\ \A k \in 1..Cardinality(I) : \E i \in I : RanksIn(I)[i] = k
  <1> DEFINE Below(i) == {j \in I : j <= i}
             rank == RanksIn(I)
             N == Cardinality(I)
  <1>1. N \in Nat
    BY FS_CardinalityType
  <1>2. \A i \in I : IsFiniteSet(Below(i)) /\ Cardinality(Below(i)) \in 1..N
    <2> TAKE i \in I
    <2>1. Below(i) \in SUBSET I /\ i \in Below(i)
      OBVIOUS
    <2>2. /\ IsFiniteSet(Below(i)) /\ Cardinality(Below(i)) <= N
          /\ Cardinality(Below(i)) \in Nat
      BY <2>1, FS_Subset, FS_CardinalityType
    <2>3. Cardinality(Below(i)) # 0
      BY <2>1, <2>2, FS_EmptySet
    <2>4. QED
      BY <1>1, <2>2, <2>3
  <1>3. \A i1, i2 \in I : i1 < i2 => Cardinality(Below(i1)) < Cardinality(Below(i2))
    <2> SUFFICES ASSUME NEW i1 \in I, NEW i2 \in I, i1 < i2
                 PROVE  Cardinality(Below(i1)) < Cardinality(Below(i2))
      OBVIOUS
    <2>1. i1 \in Nat /\ i2 \in Nat /\ \A j \in I : j \in Nat
      OBVIOUS
    <2>2. /\ \A j \in Below(i1) : j \in Below(i2)
          /\ i2 \in Below(i2) /\ i2 \notin Below(i1)
      BY <2>1
    <2>3. Below(i1) # Below(i2)
      BY <2>2
    <2>4. /\ Cardinality(Below(i1)) <= Cardinality(Below(i2))
          /\ Cardinality(Below(i2)) # Cardinality(Below(i1))
      BY <1>2, <2>2, <2>3, FS_Subset
    <2>5. QED
      BY <1>2, <2>4
  <1>4. \A i1, i2 \in I : rank[i1] = rank[i2] => i1 = i2
    <2> SUFFICES ASSUME NEW i1 \in I, NEW i2 \in I, rank[i1] = rank[i2]
                 PROVE  i1 = i2
      OBVIOUS
    <2>1. Cardinality(Below(i1)) = Cardinality(Below(i2)) /\ Cardinality(Below(i1)) \in Nat
      BY <1>2 DEF RanksIn
    <2>2. QED
      BY <1>3, <2>1
  <1>5. rank \in [I -> 1..N]
    BY <1>2 DEF RanksIn
  <1> HIDE DEF rank, N
  <1>6. rank \in Injection(I, 1..N)
    BY <1>4, <1>5, Fun_IsInj
  <1>7. IsFiniteSet(1..N) /\ Cardinality(1..N) = N
    BY <1>1, FS_Interval
  <1>8. rank \in Surjection(I, 1..N)
    <2>1. Cardinality(I) = Cardinality(1..N)
      BY <1>7 DEF N
    <2>2. QED
      BY ONLY <1>6, <1>7, <2>1, FS_Injection
  <1>9. \A k \in 1..N : \E i \in I : rank[i] = k
    BY <1>8, Fun_SurjectionProperties
  <1>10. QED
    BY <1>4, <1>5, <1>9 DEF rank, N

(* Kept is a filter: a list of those in T, none of them twice.             *)
LEMMA KeptProperties ==
    ASSUME NEW S, NEW s \in Seq(S), NEW T
    PROVE  /\ Kept(s, T) \in Seq(S)
           /\ ToSet(Kept(s, T)) = ToSet(s) \cap T
           /\ IsInjective(s) => IsInjective(Kept(s, T))
  <1> DEFINE I == {i \in DOMAIN s : s[i] \in T}
             rank == RanksIn(I)
             Index(k) == CHOOSE i \in I : rank[i] = k
             N == Cardinality(I)
             K == [k \in 1..N |-> s[Index(k)]]
  <1>1. Kept(s, T) = K
    BY DEF Kept, RanksIn
  <1>2. Len(s) \in Nat /\ DOMAIN s = 1..Len(s)
    BY LenProperties
  <1>3. I \in SUBSET (1..Len(s)) /\ I \in SUBSET Nat
    BY <1>2
  <1>4. IsFiniteSet(I) /\ N \in Nat
    <2>1. IsFiniteSet(1..Len(s))
      BY <1>2, FS_Interval
    <2>2. IsFiniteSet(I)
      BY ONLY <1>3, <2>1, FS_Subset
    <2>3. QED
      BY <2>2, FS_CardinalityType
  <1> HIDE DEF I
  <1>5. /\ rank \in [I -> 1..N]
        /\ \A i1, i2 \in I : rank[i1] = rank[i2] => i1 = i2
        /\ \A k \in 1..N : \E i \in I : rank[i] = k
    BY <1>3, <1>4, RanksAreABijection
  <1> HIDE DEF rank
  <1>6. \A k \in 1..N : Index(k) \in I /\ rank[Index(k)] = k
    BY <1>5
  <1>7. \A i \in I : Index(rank[i]) = i
    BY <1>5, <1>6
  <1>8. \A i \in DOMAIN s : i \in I <=> s[i] \in T
    BY DEF I
  <1> HIDE DEF Index, N
  <1>9. \A k \in 1..N : s[Index(k)] \in S /\ s[Index(k)] \in T
    BY <1>2, <1>3, <1>6, <1>8, ElementOfSeq
  <1>10. K \in Seq(S) /\ Len(K) = N /\ DOMAIN K = 1..N
    <2>1. K \in Seq(S)
      BY <1>4, <1>9, IsASeq
    <2>2. QED
      BY <1>4, <2>1, LenProperties
  <1>11. ToSet(K) = ToSet(s) \cap T
    <2>1. ASSUME NEW x \in ToSet(s) \cap T PROVE x \in ToSet(K)
      <3>1. PICK i \in I : s[i] = x
        BY <2>1, <1>8 DEF ToSet
      <3>2. rank[i] \in 1..N /\ K[rank[i]] = x
        BY <1>5, <1>7, <3>1
      <3>3. QED
        BY <1>10, <3>2 DEF ToSet
    <2>2. ASSUME NEW x \in ToSet(K) PROVE x \in ToSet(s) \cap T
      <3>1. PICK k \in 1..N : x = s[Index(k)]
        BY <1>10 DEF ToSet
      <3>2. QED
        BY <1>3, <1>2, <1>6, <1>9, <3>1 DEF ToSet
    <2>3. QED
      BY <2>1, <2>2
  <1>12. ASSUME IsInjective(s) PROVE IsInjective(K)
    <2> SUFFICES ASSUME NEW k1 \in 1..N, NEW k2 \in 1..N, K[k1] = K[k2]
                 PROVE  k1 = k2
      BY <1>10 DEF IsInjective
    <2>1. s[Index(k1)] = s[Index(k2)] /\ Index(k1) \in DOMAIN s /\ Index(k2) \in DOMAIN s
      BY <1>2, <1>3, <1>6
    <2>2. Index(k1) = Index(k2)
      BY <1>12, <2>1 DEF IsInjective
    <2>3. QED
      BY <1>6, <2>2
  <1>13. QED
    BY <1>1, <1>10, <1>11, <1>12

(* A list without repetition is as long as the set of its elements, and    *)
(* conversely.                                                             *)
LEMMA LengthIsCardinality ==
    ASSUME NEW S, NEW s \in Seq(S)
    PROVE  /\ IsFiniteSet(ToSet(s)) /\ Cardinality(ToSet(s)) \in Nat
           /\ IsInjective(s) <=> Cardinality(ToSet(s)) = Len(s)
  <1>1. Len(s) \in Nat /\ s \in [1..Len(s) -> S] /\ DOMAIN s = 1..Len(s)
    BY LenProperties
  <1>2. IsFiniteSet(1..Len(s)) /\ Cardinality(1..Len(s)) = Len(s)
    BY <1>1, FS_Interval
  <1>3. s \in [1..Len(s) -> ToSet(s)] /\ \A x \in ToSet(s) : \E i \in 1..Len(s) : s[i] = x
    BY <1>1 DEF ToSet
  <1>4. s \in Surjection(1..Len(s), ToSet(s))
    BY <1>3, Fun_IsSurj
  <1>5. /\ IsFiniteSet(ToSet(s))
        /\ Cardinality(ToSet(s)) = Len(s) <=> s \in Injection(1..Len(s), ToSet(s))
    BY <1>2, <1>4, FS_Surjection
  <1>6. s \in Injection(1..Len(s), ToSet(s)) <=> IsInjective(s)
    BY <1>3 DEF Injection
  <1>7. QED
    BY <1>5, <1>6, FS_CardinalityType

(* _rotate reorders.                                                       *)
LEMMA RotateProperties ==
    ASSUME NEW S, NEW s \in Seq(S), NEW offset \in Nat
    PROVE  /\ Rotate(s, offset) \in Seq(S)
           /\ ToSet(Rotate(s, offset)) = ToSet(s)
           /\ IsInjective(s) => IsInjective(Rotate(s, offset))
  <1>1. CASE s = <<>>
    BY <1>1 DEF Rotate
  <1>2. CASE s # <<>>
    <2> DEFINE n == Len(s)
               k == offset % n
               a == SubSeq(s, k + 1, n)
               b == SubSeq(s, 1, k)
               From(i) == IF i <= n - k THEN k + i ELSE i - (n - k)
               r == a \o b
    <2>1. n \in Nat \ {0} /\ DOMAIN s = 1..n /\ \A i \in 1..n : s[i] \in S
      BY <1>2, EmptySeq, LenProperties, ElementOfSeq
    <2> HIDE DEF n
    <2>2. k \in 0..(n - 1)
      BY <2>1
    <2>3. Rotate(s, offset) = r
      BY <1>2 DEF Rotate, n
    <2> HIDE DEF k
    <2>4. /\ a \in Seq(S) /\ Len(a) = n - k
          /\ \A i \in 1..(n - k) : a[i] = s[k + i]
      <3>1. \A i \in (k + 1)..n : s[i] \in S
        BY <2>1, <2>2
      <3>2. /\ a \in Seq(S) /\ Len(a) = IF k + 1 <= n THEN n - (k + 1) + 1 ELSE 0
            /\ \A i \in 1..(n - (k + 1) + 1) : a[i] = s[(k + 1) + i - 1]
        BY <2>1, <2>2, <3>1, SubSeqProperties
      <3>3. n - (k + 1) + 1 = n - k /\ k + 1 <= n
        BY <2>1, <2>2
      <3>4. ASSUME NEW i \in 1..(n - k) PROVE a[i] = s[k + i]
        <4>1. (k + 1) + i - 1 = k + i
          BY <2>2
        <4>2. QED
          BY <3>2, <3>3, <4>1
      <3>5. QED
        BY <3>2, <3>3, <3>4
    <2>5. /\ b \in Seq(S) /\ Len(b) = k
          /\ \A i \in 1..k : b[i] = s[i]
      <3>1. \A i \in 1..k : s[i] \in S
        BY <2>1, <2>2
      <3>2. /\ b \in Seq(S) /\ Len(b) = IF 1 <= k THEN k - 1 + 1 ELSE 0
            /\ \A i \in 1..(k - 1 + 1) : b[i] = s[1 + i - 1]
        BY <2>2, <3>1, SubSeqProperties
      <3>3. QED
        BY <2>2, <3>2
    <2> HIDE DEF a, b
    <2>6. /\ r \in Seq(S) /\ Len(r) = n
          /\ \A i \in 1..n : r[i] = s[From(i)] /\ From(i) \in 1..n
      <3>1. /\ r \in Seq(S) /\ Len(r) = Len(a) + Len(b)
            /\ \A i \in 1..(Len(a) + Len(b)) :
                  r[i] = IF i <= Len(a) THEN a[i] ELSE b[i - Len(a)]
        BY <2>4, <2>5, ConcatProperties
      <3>2. Len(a) + Len(b) = n
        BY <2>1, <2>2, <2>4, <2>5
      <3>3. ASSUME NEW i \in 1..n PROVE r[i] = s[From(i)] /\ From(i) \in 1..n
        <4>1. CASE i <= n - k
          <5>1. i \in 1..(n - k) /\ i <= Len(a) /\ From(i) = k + i /\ k + i \in 1..n
            BY <2>1, <2>2, <2>4, <4>1
          <5>2. QED
            BY <2>4, <3>1, <3>2, <5>1
        <4>2. CASE ~(i <= n - k)
          <5>1. i - (n - k) \in 1..k /\ ~(i <= Len(a)) /\ From(i) = i - (n - k)
            BY <2>1, <2>2, <2>4, <4>2
          <5>2. QED
            BY <2>1, <2>2, <2>4, <2>5, <3>1, <3>2, <5>1
        <4>3. QED
          BY <4>1, <4>2
      <3>4. QED
        BY <3>1, <3>2, <3>3
    <2> HIDE DEF r
    <2>7. DOMAIN r = 1..n
      BY <2>6, LenProperties
    <2>8. \A j \in 1..n : \E i \in 1..n : From(i) = j
      <3> TAKE j \in 1..n
      <3>1. CASE j <= k
        <4>1. j + (n - k) \in 1..n /\ From(j + (n - k)) = j
          BY <2>1, <2>2, <3>1
        <4>2. QED
          BY <4>1
      <3>2. CASE j > k
        <4>1. j - k \in 1..n /\ From(j - k) = j
          BY <2>1, <2>2, <3>2
        <4>2. QED
          BY <4>1
      <3>3. QED
        BY <2>1, <2>2, <3>1, <3>2
    <2>9. \A i1, i2 \in 1..n : From(i1) = From(i2) => i1 = i2
      BY <2>1, <2>2
    <2> HIDE DEF From
    <2>10. ToSet(r) = ToSet(s)
      BY <2>1, <2>6, <2>7, <2>8 DEF ToSet
    <2>11. ASSUME IsInjective(s) PROVE IsInjective(r)
      <3> SUFFICES ASSUME NEW i1 \in 1..n, NEW i2 \in 1..n, r[i1] = r[i2] PROVE i1 = i2
        BY <2>7 DEF IsInjective
      <3>1. From(i1) = From(i2)
        BY <2>1, <2>6, <2>11 DEF IsInjective
      <3>2. QED
        BY <2>9, <3>1
    <2>12. QED
      BY <2>3, <2>6, <2>10, <2>11
  <1>3. QED
    BY <1>1, <1>2

(* take appends what is new until cap is reached or the stream is used up; *)
(* if there is room it takes at least one of a stream.                     *)
LEMMA ExtendProperties ==
    ASSUME NEW S, NEW result \in Seq(S), NEW stream \in Seq(S), NEW cap \in Nat,
           IsInjective(result), IsInjective(stream)
    PROVE  LET e == Extend(result, stream, cap)
           IN  /\ e \in Seq(S) /\ IsInjective(e)
               /\ Len(result) <= Len(e)
               /\ \A i \in 1..Len(result) : e[i] = result[i]
               /\ Len(e) <= Len(result) \/ Len(e) <= cap
               /\ cap <= Len(e) \/ ToSet(stream) \subseteq ToSet(e)
               /\ Len(result) < cap /\ ToSet(stream) # {} => \E x \in ToSet(stream) : x \in ToSet(e)
  <1> DEFINE T == ToSet(stream) \ ToSet(result)
             new == Kept(stream, T)
             n == Len(new)
             room == Max({0, Min({n, cap - Len(result)})})
             tail == SubSeq(new, 1, room)
             e == result \o tail
  <1>1. Extend(result, stream, cap) = e
    BY DEF Extend
  <1>2. new \in Seq(S) /\ ToSet(new) = T /\ IsInjective(new)
    <2>1. ToSet(stream) \cap T = T
      OBVIOUS
    <2>2. QED
      BY <2>1, KeptProperties
  <1> HIDE DEF new
  <1>3. n \in Nat /\ DOMAIN new = 1..n /\ \A i \in 1..n : new[i] \in S
    BY <1>2, LenProperties, ElementOfSeq
  <1>4. /\ Len(result) \in Nat /\ DOMAIN result = 1..Len(result)
        /\ \A i \in 1..Len(result) : result[i] \in S
    BY LenProperties, ElementOfSeq
  <1> HIDE DEF n
  <1>5. /\ room \in 0..n
        /\ room = 0 \/ Len(result) + room <= cap
        /\ room = n \/ cap <= Len(result) + room
    <2> DEFINE least == Min({n, cap - Len(result)})
    <2>1. /\ least \in {n, cap - Len(result)}
          /\ least <= n /\ least <= cap - Len(result)
      BY <1>3, <1>4, MinMax
    <2>2. least \in Int /\ 0 \in Int
      BY <1>3, <1>4, <2>1
    <2> HIDE DEF least
    <2>3. Max({0, least}) = IF 0 >= least THEN 0 ELSE least
      BY ONLY <2>2, MinMax
    <2>4. room = IF 0 >= least THEN 0 ELSE least
      BY <2>3 DEF least
    <2>5. QED
      BY <1>3, <1>4, <2>1, <2>4
  <1> HIDE DEF room
  <1>6. /\ tail \in Seq(S) /\ Len(tail) = room
        /\ \A i \in 1..room : tail[i] = new[i]
    <2>1. \A i \in 1..room : new[i] \in S
      BY <1>3, <1>5
    <2>2. /\ tail \in Seq(S) /\ Len(tail) = IF 1 <= room THEN room - 1 + 1 ELSE 0
          /\ \A i \in 1..(room - 1 + 1) : tail[i] = new[1 + i - 1]
      BY <1>5, <2>1, SubSeqProperties
    <2>3. QED
      BY <1>3, <1>5, <2>2
  <1> HIDE DEF tail
  <1>7. /\ e \in Seq(S) /\ Len(e) = Len(result) + room
        /\ \A i \in 1..(Len(result) + room) :
              e[i] = IF i <= Len(result) THEN result[i] ELSE tail[i - Len(result)]
    BY <1>6, ConcatProperties
  <1> HIDE DEF e
  <1>8. /\ \A i \in 1..Len(result) : e[i] = result[i]
        /\ \A i \in 1..room : e[Len(result) + i] = new[i]
        /\ \A i \in 1..Len(e) : \/ i \in 1..Len(result)
                                \/ i - Len(result) \in 1..room
        /\ DOMAIN e = 1..Len(e)
    <2>1. \A i \in 1..Len(result) : i \in 1..(Len(result) + room) /\ i <= Len(result)
      BY <1>3, <1>4, <1>5
    <2>2. \A i \in 1..room : /\ Len(result) + i \in 1..(Len(result) + room)
                             /\ ~(Len(result) + i <= Len(result))
                             /\ (Len(result) + i) - Len(result) = i
      BY <1>3, <1>4, <1>5
    <2>3. \A i \in 1..Len(e) : i \in 1..Len(result) \/ i - Len(result) \in 1..room
      BY <1>3, <1>4, <1>5, <1>7
    <2>4. QED
      BY <1>6, <1>7, <2>1, <2>2, <2>3, LenProperties
  <1>9. \A i \in 1..room : i \in 1..n /\ new[i] \in ToSet(new)
    BY <1>3, <1>5 DEF ToSet
  <1>10. ToSet(result) \subseteq ToSet(e)
    BY <1>4, <1>5, <1>7, <1>8 DEF ToSet
  <1>11. IsInjective(e)
    <2> SUFFICES ASSUME NEW i \in 1..Len(e), NEW j \in 1..Len(e), e[i] = e[j] PROVE i = j
      BY <1>8 DEF IsInjective
    <2>1. CASE i \in 1..Len(result) /\ j \in 1..Len(result)
      BY <1>4, <1>8, <2>1 DEF IsInjective
    <2>2. CASE i - Len(result) \in 1..room /\ j - Len(result) \in 1..room
      <3>1. e[i] = new[i - Len(result)] /\ e[j] = new[j - Len(result)]
        <4>1. Len(result) + (i - Len(result)) = i /\ Len(result) + (j - Len(result)) = j
          BY <1>4
        <4>2. QED
          BY <1>8, <2>2, <4>1
      <3>2. i - Len(result) = j - Len(result)
        BY <1>2, <1>3, <1>9, <2>2, <3>1 DEF IsInjective
      <3>3. QED
        BY <1>4, <3>2
    <2>3. ASSUME NEW p \in 1..Len(result), NEW q \in 1..Len(e), q - Len(result) \in 1..room,
                 e[p] = e[q]
          PROVE  FALSE
      <3>1. e[p] \in ToSet(result)
        BY <1>4, <1>8 DEF ToSet
      <3>2. Len(result) + (q - Len(result)) = q
        BY <1>4
      <3>3. e[q] = new[q - Len(result)]
        BY <1>8, <2>3, <3>2
      <3>4. e[q] \in T
        BY <1>2, <1>9, <2>3, <3>3
      <3>5. QED
        BY <2>3, <3>1, <3>4
    <2>4. QED
      BY <1>8, <2>1, <2>2, <2>3
  <1>12. cap <= Len(e) \/ ToSet(stream) \subseteq ToSet(e)
    <2>1. CASE room = n
      <3>1. T \subseteq ToSet(e)
        <4> SUFFICES ASSUME NEW x \in T PROVE x \in ToSet(e)
          OBVIOUS
        <4>1. PICK i \in 1..n : new[i] = x
          BY <1>2, <1>3 DEF ToSet
        <4>2. Len(result) + i \in 1..Len(e) /\ e[Len(result) + i] = x
          BY <1>3, <1>4, <1>7, <1>8, <2>1, <4>1
        <4>3. QED
          BY <1>8, <4>2 DEF ToSet
      <3>2. QED
        BY <1>10, <3>1
    <2>2. CASE room # n
      BY <1>5, <1>7, <2>2
    <2>3. QED
      BY <2>1, <2>2
  <1>13. ASSUME Len(result) < cap, ToSet(stream) # {}
         PROVE  \E x \in ToSet(stream) : x \in ToSet(e)
    <2>1. CASE T = {}
      <3>1. ToSet(stream) \subseteq ToSet(e)
        BY <1>10, <2>1
      <3>2. QED
        BY <1>13, <3>1
    <2>2. CASE T # {}
      <3>1. n # 0
        <4>1. PICK i \in 1..n : new[i] \in T
          BY <1>2, <1>3, <2>2 DEF ToSet
        <4>2. QED
          BY <1>3, <4>1
      <3>2. 1 \in 1..room
        BY <1>3, <1>4, <1>5, <1>13, <3>1
      <3>3. new[1] \in T /\ e[Len(result) + 1] = new[1] /\ Len(result) + 1 \in 1..Len(e)
        BY <1>2, <1>4, <1>5, <1>7, <1>8, <1>9, <3>2
      <3>4. new[1] \in ToSet(e)
        BY <1>8, <3>3 DEF ToSet
      <3>5. QED
        BY <3>3, <3>4
    <2>3. QED
      BY <2>1, <2>2
  <1>14. Len(result) <= Len(e) /\ (Len(e) <= Len(result) \/ Len(e) <= cap)
    BY <1>3, <1>4, <1>5, <1>7
  <1>15. QED
    BY <1>1, <1>7, <1>8, <1>11, <1>12, <1>13, <1>14

LEMMA Slots ==
    /\ Limit \in Nat
    /\ NExplore \in Nat \ {0}
    /\ NExploit \in Nat /\ NExploit <= Limit
    /\ Max({NExploit, 1}) \in Nat
  <1> DEFINE ceiling == (Limit * ExplorePercent + 99) \div 100
  <1>1. Limit \in Nat /\ ExplorePercent \in Nat
    BY UniverseAssumption
  <1>2. Limit * ExplorePercent \in Nat
    BY <1>1
  <1>3. ceiling \in Nat
    BY <1>2
  <1> HIDE DEF ceiling
  <1>4. NExplore = IF ceiling > 1 THEN ceiling ELSE 1
    BY DEF NExplore, ceiling
  <1>5. NExplore \in Nat \ {0}
    BY <1>3, <1>4
  <1>6. NExploit \in Nat /\ NExploit <= Limit
    BY <1>1, <1>5 DEF NExploit
  <1>7. Max({NExploit, 1}) \in Nat
    <2>1. NExploit \in Int /\ 1 \in Int
      BY <1>6
    <2>2. Max({NExploit, 1}) = IF NExploit >= 1 THEN NExploit ELSE 1
      BY ONLY <2>1, MinMax
    <2>3. QED
      BY <1>6, <2>2
  <1>8. QED
    BY <1>1, <1>5, <1>6, <1>7

LEMMA CodeLists ==
    ASSUME NEW codes \in Watchlists \cup {Seeds}
    PROVE  codes \in Seq(Codes) /\ IsInjective(codes)
  <1>1. codes \in Seq(ToSet(codes)) /\ Cardinality(ToSet(codes)) = Len(codes)
    BY UniverseAssumption
  <1>2. ToSet(codes) \subseteq Codes
    BY DEF Codes
  <1>3. Len(codes) \in Nat /\ codes \in [1..Len(codes) -> ToSet(codes)]
    BY <1>1, LenProperties
  <1>4. codes \in [1..Len(codes) -> Codes]
    BY <1>2, <1>3
  <1>5. QED
    BY <1>1, <1>3, <1>4, SeqDef, LengthIsCardinality

LEMMA PoolProperties ==
    ASSUME UniverseTypeOK, NEW pool \in Pools
    PROVE  pool \in Seq(Codes) /\ IsInjective(pool)
  <1> DEFINE measured == {s \in Codes : adv[s] > 0}
             D == 1..Cardinality(measured)
  <1>1. PICK p \in SetToSeqs(measured) : pool = SubSeq(p, 1, Min({Len(p), PoolSize}))
    BY DEF Pools
  <1>2. p \in [D -> measured] /\ \A i, j \in D : i # j => p[i] # p[j]
    BY DEF SetToSeqs
  <1>3. Cardinality(measured) \in Nat
    <2>1. measured \in SUBSET Codes
      OBVIOUS
    <2>2. IsFiniteSet(Codes)
      BY UniverseAssumption
    <2>3. IsFiniteSet(measured)
      BY ONLY <2>1, <2>2, FS_Subset
    <2>4. QED
      BY <2>3, FS_CardinalityType
  <1>4. p \in [D -> Codes]
    BY <1>2
  <1> HIDE DEF measured
  <1>5. p \in Seq(Codes) /\ Len(p) = Cardinality(measured)
    <2>1. p \in Seq(Codes)
      BY <1>3, <1>4, SeqDef
    <2>2. DOMAIN p = 1..Len(p) /\ Len(p) \in Nat
      BY <2>1, LenProperties
    <2>3. QED
      BY <1>3, <1>4, <2>1, <2>2
  <1> DEFINE m == Min({Len(p), PoolSize})
  <1>6. m \in 0..Len(p)
    BY <1>3, <1>5, MinMax, UniverseAssumption
  <1> HIDE DEF m
  <1>7. /\ pool \in Seq(Codes) /\ Len(pool) = m
        /\ \A i \in 1..m : pool[i] = p[i]
    <2>1. \A i \in 1..m : p[i] \in Codes
      BY <1>3, <1>4, <1>5, <1>6
    <2>2. pool = SubSeq(p, 1, m)
      BY <1>1 DEF m
    <2>3. /\ pool \in Seq(Codes) /\ Len(pool) = IF 1 <= m THEN m - 1 + 1 ELSE 0
          /\ \A i \in 1..(m - 1 + 1) : pool[i] = p[1 + i - 1]
      BY <1>6, <2>1, <2>2, SubSeqProperties
    <2>4. QED
      BY <1>3, <1>5, <1>6, <2>3
  <1>8. DOMAIN pool = 1..m
    BY <1>7, LenProperties
  <1>9. \A i \in 1..m : i \in D
    BY <1>3, <1>5, <1>6
  <1>10. IsInjective(pool)
    BY <1>2, <1>7, <1>8, <1>9 DEF IsInjective
  <1>11. QED
    BY <1>7, <1>10

LEMMA PrefixByElements ==
    ASSUME NEW S, NEW s \in Seq(S), NEW t \in Seq(S), Len(s) <= Len(t),
           \A i \in 1..Len(s) : t[i] = s[i]
    PROVE  IsPrefix(s, t) /\ ToSet(s) \subseteq ToSet(t)
  <1>1. Len(s) \in Nat /\ Len(t) \in Nat /\ DOMAIN s = 1..Len(s) /\ DOMAIN t = 1..Len(t)
    BY LenProperties
  <1>2. \A i \in 1..Len(s) : s[i] \in S /\ i \in 1..Len(t)
    BY <1>1, ElementOfSeq
  <1>3. SubSeq(s, 1, Len(s)) = s
    BY SubSeqFull
  <1>4. /\ SubSeq(t, 1, Len(s)) \in Seq(S)
        /\ Len(SubSeq(t, 1, Len(s))) = Len(s)
        /\ \A i \in 1..Len(s) : SubSeq(t, 1, Len(s))[i] = s[i]
    <2>1. \A i \in 1..Len(s) : t[i] \in S
      BY <1>2
    <2>2. /\ SubSeq(t, 1, Len(s)) \in Seq(S)
          /\ Len(SubSeq(t, 1, Len(s))) = IF 1 <= Len(s) THEN Len(s) - 1 + 1 ELSE 0
          /\ \A i \in 1..(Len(s) - 1 + 1) : SubSeq(t, 1, Len(s))[i] = t[1 + i - 1]
      BY <1>1, <2>1, SubSeqProperties
    <2>3. ASSUME NEW i \in 1..Len(s) PROVE SubSeq(t, 1, Len(s))[i] = s[i]
      <3>1. i \in 1..(Len(s) - 1 + 1) /\ 1 + i - 1 = i
        BY <1>1
      <3>2. QED
        BY <2>2, <3>1
    <2>4. QED
      BY <1>1, <2>2, <2>3
  <1>5. SubSeq(t, 1, Len(s)) = s
    BY <1>4, SeqEqual
  <1>6. ToSet(s) \subseteq ToSet(t)
    BY <1>1, <1>2 DEF ToSet
  <1>7. QED
    BY <1>3, <1>5, <1>6 DEF IsPrefix

(* What resolve_universe returns: three times take, each keeping what it   *)
(* was given. The last one reaches the limit or has used up the seeds; the *)
(* second one starts below the limit if the watchlist leaves room.         *)
LEMMA ResolvedProperties ==
    ASSUME UniverseTypeOK, NEW pool \in Pools
    PROVE  /\ Resolved(pool) \in Seq(Codes)
           /\ IsPrefix(watch, Resolved(pool))
           /\ Cardinality(ToSet(Resolved(pool))) = Len(Resolved(pool))
           /\ Len(Resolved(pool)) >= Min({Limit, Cardinality(ToSet(watch) \cup ToSet(Seeds))})
           /\ Len(Resolved(pool)) <= Max({Limit, Len(watch) + NExploit})
           /\ Len(watch) + NExploit < Limit /\ (\E s \in ToSet(Seeds) : Stale(s))
                => \E s \in ToSet(Resolved(pool)) : Stale(s)
  <1> DEFINE stale == Kept(Seeds, {s \in Codes : Stale(s)})
             S1 == Rotate(pool, tickCount * Max({NExploit, 1}))
             S2 == Rotate(stale, tickCount * NExplore)
             S3 == Rotate(Seeds, tickCount * Limit)
             A == Exploited(pool)
             B == Explored(pool)
             C == Resolved(pool)
             full == Len(watch) + NExploit
  <1>1. /\ watch \in Seq(Codes) /\ IsInjective(watch)
        /\ Seeds \in Seq(Codes) /\ IsInjective(Seeds)
        /\ pool \in Seq(Codes) /\ IsInjective(pool)
        /\ Len(watch) \in Nat
    BY CodeLists, PoolProperties, LenProperties DEF UniverseTypeOK
  <1>2. tickCount \in Nat
    BY UniverseAssumption DEF UniverseTypeOK
  <1>3. /\ tickCount * Max({NExploit, 1}) \in Nat
        /\ tickCount * NExplore \in Nat /\ tickCount * Limit \in Nat
        /\ full \in Nat /\ Limit \in Nat
    <2>1. \A a, b \in Nat : a * b \in Nat
      OBVIOUS
    <2>2. /\ Max({NExploit, 1}) \in Nat /\ NExplore \in Nat /\ Limit \in Nat
          /\ NExploit \in Nat
      BY Slots
    <2>3. full \in Nat
      BY <1>1, <2>2
    <2>4. QED
      BY ONLY <1>2, <2>1, <2>2, <2>3
  <1>4. /\ stale \in Seq(Codes) /\ IsInjective(stale)
        /\ ToSet(stale) = ToSet(Seeds) \cap {s \in Codes : Stale(s)}
    BY <1>1, KeptProperties
  <1> HIDE DEF stale
  <1>5. /\ S1 \in Seq(Codes) /\ IsInjective(S1)
        /\ S2 \in Seq(Codes) /\ IsInjective(S2) /\ ToSet(S2) = ToSet(stale)
        /\ S3 \in Seq(Codes) /\ IsInjective(S3) /\ ToSet(S3) = ToSet(Seeds)
    BY <1>1, <1>3, <1>4, RotateProperties
  <1>6. /\ A = Extend(watch, S1, full)
        /\ B = Extend(A, S2, Limit)
        /\ C = Extend(B, S3, Limit)
    BY DEF Exploited, Explored, Resolved, stale
  <1> HIDE DEF S1, S2, S3, A, B, C, full
  <1>7. /\ A \in Seq(Codes) /\ IsInjective(A)
        /\ Len(watch) <= Len(A) /\ \A i \in 1..Len(watch) : A[i] = watch[i]
        /\ Len(A) <= Len(watch) \/ Len(A) <= full
    BY <1>1, <1>3, <1>5, <1>6, ExtendProperties
  <1>8. /\ B \in Seq(Codes) /\ IsInjective(B)
        /\ Len(A) <= Len(B) /\ \A i \in 1..Len(A) : B[i] = A[i]
        /\ Len(B) <= Len(A) \/ Len(B) <= Limit
        /\ Len(A) < Limit /\ ToSet(stale) # {} => \E x \in ToSet(stale) : x \in ToSet(B)
    <2>1. /\ B \in Seq(Codes) /\ IsInjective(B)
          /\ Len(A) <= Len(B) /\ \A i \in 1..Len(A) : B[i] = A[i]
          /\ Len(B) <= Len(A) \/ Len(B) <= Limit
      BY <1>3, <1>5, <1>6, <1>7, ExtendProperties
    <2>2. Len(A) < Limit /\ ToSet(S2) # {} => \E x \in ToSet(S2) : x \in ToSet(B)
      <3>1. Limit \in Nat
        BY <1>3
      <3>2. QED
        BY ONLY <1>5, <1>6, <1>7, <3>1, ExtendProperties
    <2>3. QED
      BY <1>5, <2>1, <2>2
  <1>9. /\ C \in Seq(Codes) /\ IsInjective(C)
        /\ Len(B) <= Len(C) /\ \A i \in 1..Len(B) : C[i] = B[i]
        /\ Len(C) <= Len(B) \/ Len(C) <= Limit
        /\ Limit <= Len(C) \/ ToSet(Seeds) \subseteq ToSet(C)
    BY <1>3, <1>5, <1>6, <1>8, ExtendProperties
  <1>10. /\ Len(A) \in Nat /\ Len(B) \in Nat /\ Len(C) \in Nat
         /\ IsPrefix(B, C) /\ ToSet(B) \subseteq ToSet(C)
    BY <1>7, <1>8, <1>9, LenProperties, PrefixByElements
  <1>11. IsPrefix(watch, C) /\ ToSet(watch) \subseteq ToSet(C)
    <2>1. Len(watch) <= Len(C)
      BY <1>1, <1>7, <1>8, <1>9, <1>10
    <2>2. \A i \in 1..Len(watch) : i \in 1..Len(A) /\ i \in 1..Len(B)
      BY <1>1, <1>7, <1>8, <1>10
    <2>3. \A i \in 1..Len(watch) : C[i] = watch[i]
      BY <1>7, <1>8, <1>9, <2>2
    <2>4. QED
      BY <1>1, <1>9, <2>1, <2>3, PrefixByElements
  <1>12. IsFiniteSet(ToSet(C)) /\ Cardinality(ToSet(C)) = Len(C)
    BY <1>9, LengthIsCardinality
  <1>13. Len(C) >= Min({Limit, Cardinality(ToSet(watch) \cup ToSet(Seeds))})
    <2> DEFINE W == ToSet(watch) \cup ToSet(Seeds)
    <2>1. IsFiniteSet(W) /\ Cardinality(W) \in Nat
      <3>1. IsFiniteSet(ToSet(watch)) /\ IsFiniteSet(ToSet(Seeds))
        BY <1>1, LengthIsCardinality
      <3>2. IsFiniteSet(W)
        BY ONLY <3>1, FS_Union
      <3>3. QED
        BY <3>2, FS_CardinalityType
    <2>2. Min({Limit, Cardinality(W)}) =
              IF Limit <= Cardinality(W) THEN Limit ELSE Cardinality(W)
      <3>1. Limit \in Int /\ Cardinality(W) \in Int
        BY <1>3, <2>1
      <3>2. QED
        BY ONLY <3>1, MinMax
    <2>3. CASE Limit <= Len(C)
      BY <1>3, <1>10, <2>1, <2>3, <2>2
    <2>4. CASE ToSet(Seeds) \subseteq ToSet(C)
      <3>1. W \in SUBSET ToSet(C)
        BY <1>11, <2>4
      <3>2. Cardinality(W) <= Len(C)
        BY <1>12, <3>1, FS_Subset
      <3>3. QED
        BY <1>3, <1>10, <2>1, <3>2, <2>2
    <2>5. QED
      BY <1>9, <2>3, <2>4
  <1>14. Len(C) <= Max({Limit, full})
    <2>1. Max({Limit, full}) = IF Limit >= full THEN Limit ELSE full
      BY <1>3, MinMax
    <2>2. Len(watch) <= full
      BY <1>1, Slots DEF full
    <2>3. QED
      BY <1>1, <1>3, <1>7, <1>8, <1>9, <1>10, <2>1, <2>2
  <1>15. ASSUME full < Limit, \E s \in ToSet(Seeds) : Stale(s)
         PROVE  \E s \in ToSet(C) : Stale(s)
    <2>1. Len(A) < Limit
      BY <1>1, <1>3, <1>7, <1>10, <1>15, Slots DEF full
    <2>2. ToSet(stale) # {}
      <3>1. ToSet(Seeds) \subseteq Codes
        BY DEF Codes
      <3>2. QED
        BY <1>4, <1>15, <3>1
    <2>3. PICK x \in ToSet(stale) : x \in ToSet(B)
      BY <1>8, <2>1, <2>2
    <2>4. x \in ToSet(C) /\ Stale(x)
      BY <1>4, <1>10, <2>3
    <2>5. QED
      BY <2>4
  <1>16. QED
    BY <1>9, <1>11, <1>12, <1>13, <1>14, <1>15 DEF C, full

(* Types; and a symbol that is screened out gets into the statistics only  *)
(* while it is held (pipeline.py:120, upsert_symbol_stats), for any seeds, *)
(* holdings and screens, and whichever symbols have candles.               *)
THEOREM UniverseTypes == UniverseSpec => []UniverseTypeOK
  <1>1. UniverseInit => UniverseTypeOK
    <2> SUFFICES ASSUME UniverseInit PROVE UniverseTypeOK
      OBVIOUS
    <2>1. \A s \in ineligible : s \in Codes
      BY UniverseAssumption DEF UniverseInit
    <2>2. <<>> \in Seq(Codes)
      BY EmptySeq
    <2>3. QED
      BY <2>1, <2>2, UniverseAssumption DEF UniverseInit, UniverseTypeOK
  <1>2. UniverseTypeOK /\ [UniverseNext]_universeVars => UniverseTypeOK'
    <2> SUFFICES ASSUME UniverseTypeOK, [UniverseNext]_universeVars PROVE UniverseTypeOK'
      OBVIOUS
    <2>1. CASE Choose
      <3>1. universe' \in Seq(Codes)
        BY <2>1, ResolvedProperties DEF Choose
      <3>2. owned' \subseteq Codes
        <4>1. owned' \in Holdings
          BY <2>1 DEF Choose
        <4>2. SUFFICES ASSUME NEW s \in owned' PROVE s \in Codes
          OBVIOUS
        <4>3. s \in UNION Holdings
          BY ONLY <4>1, <4>2
        <4>4. QED
          BY ONLY <4>3 DEF Codes
      <3>3. QED
        BY <2>1, <3>1, <3>2 DEF Choose, UniverseTypeOK, setup
    <2>2. CASE RecordTick
      <3>1. NextCount \in 0..(TickCycle - 1)
        BY UniverseAssumption DEF NextCount, UniverseTypeOK
      <3>2. QED
        BY <2>2, <3>1 DEF RecordTick, UniverseTypeOK, setup
    <2>3. CASE Upsert
      <3>1. PICK measured \in SUBSET Evaluated :
               \E values \in [measured -> Values] : Store(measured, values)
        BY <2>3 DEF Upsert
      <3>2. PICK values \in [measured -> Values] : Store(measured, values)
        BY <3>1
      <3>3. adv' \in [Codes -> Values \cup {0}]
        BY <3>2 DEF Store, UniverseTypeOK
      <3>4. age' \in [Codes -> 0..FreshDays]
        BY <3>2, UniverseAssumption DEF Store, UniverseTypeOK
      <3>5. /\ ownedOnce' = ownedOnce \cup owned /\ ownedOnce' \subseteq Codes
            /\ ineligible' = ineligible
        BY <2>3 DEF Upsert, UniverseTypeOK, setup
      <3>6. ASSUME NEW s \in ineligible, adv'[s] > 0 PROVE s \in ownedOnce'
        <4>1. s \in Codes
          BY UniverseAssumption DEF UniverseTypeOK
        <4>2. CASE s \in measured
          BY <3>5, <4>2 DEF Evaluated
        <4>3. CASE s \notin measured
          BY <3>2, <3>5, <3>6, <4>1, <4>3 DEF Store, UniverseTypeOK
        <4>4. QED
          BY <4>2, <4>3
      <3>7. universe' \in Seq(Codes) /\ owned' \subseteq Codes
        BY <2>3, EmptySeq DEF Upsert
      <3>8. QED
        BY <2>3, <3>3, <3>4, <3>5, <3>6, <3>7 DEF Upsert, UniverseTypeOK, setup
    <2>4. CASE Fails
      <3>1. universe' \in Seq(Codes)
        BY <2>4, EmptySeq DEF Fails
      <3>2. abandoned' \in 0..MaxAbandoned
        BY <2>4, UniverseAssumption DEF Fails, UniverseTypeOK
      <3>3. QED
        BY <2>4, <3>1, <3>2 DEF Fails, UniverseTypeOK, setup
    <2>5. CASE NextDay
      <3>1. \A s \in Codes : Min({age[s] + 1, FreshDays}) \in 0..FreshDays
        <4> TAKE s \in Codes
        <4>1. age[s] \in 0..FreshDays /\ FreshDays \in Nat
          BY UniverseAssumption DEF UniverseTypeOK
        <4>2. age[s] + 1 \in Int /\ FreshDays \in Int
          BY <4>1
        <4>3. Min({age[s] + 1, FreshDays}) = IF age[s] + 1 <= FreshDays THEN age[s] + 1 ELSE FreshDays
          BY ONLY <4>2, MinMax
        <4>4. QED
          BY <4>1, <4>3
      <3>2. age' \in [Codes -> 0..FreshDays]
        BY <2>5, <3>1 DEF NextDay
      <3>3. days' \in 0..MaxDays
        BY <2>5, UniverseAssumption DEF NextDay, UniverseTypeOK
      <3>4. QED
        BY <2>5, <3>2, <3>3 DEF NextDay, UniverseTypeOK, setup
    <2>6. CASE UNCHANGED universeVars
      BY <2>6 DEF universeVars, setup, UniverseTypeOK
    <2>7. QED
      BY <2>1, <2>2, <2>3, <2>4, <2>5, <2>6 DEF UniverseNext
  <1>3. QED
    BY <1>1, <1>2, PTL DEF UniverseSpec

(* The universe of a tick (resolve_universe) starts with the watchlist, has*)
(* nothing twice, no empty slot, and exceeds the limit by no more than the *)
(* watchlist makes it.                                                     *)
THEOREM SlotsFilled == UniverseSpec => []SlotsAreFilled
  <1>1. UniverseInit => SlotsAreFilled
    BY DEF UniverseInit, SlotsAreFilled
  <1>2. UniverseTypeOK /\ SlotsAreFilled /\ [UniverseNext]_universeVars => SlotsAreFilled'
    <2> SUFFICES ASSUME UniverseTypeOK, SlotsAreFilled, [UniverseNext]_universeVars
                 PROVE  SlotsAreFilled'
      OBVIOUS
    <2>1. CASE Choose
      <3>1. PICK pool \in Pools : universe' = Resolved(pool)
        BY <2>1 DEF Choose
      <3>2. watch' = watch
        BY <2>1 DEF Choose, setup
      <3>3. QED
        BY <3>1, <3>2, ResolvedProperties DEF SlotsAreFilled
    <2>2. CASE RecordTick
      BY <2>2 DEF RecordTick, setup, SlotsAreFilled
    <2>3. CASE Upsert \/ Fails
      BY <2>3 DEF Upsert, Fails, SlotsAreFilled
    <2>4. CASE NextDay
      BY <2>4 DEF NextDay, setup, SlotsAreFilled
    <2>5. CASE UNCHANGED universeVars
      BY <2>5 DEF universeVars, setup, SlotsAreFilled
    <2>6. QED
      BY <2>1, <2>2, <2>3, <2>4, <2>5 DEF UniverseNext
  <1>3. QED
    BY <1>1, <1>2, UniverseTypes, PTL DEF UniverseSpec

(* As long as a seed is unmeasured or stale and the watchlist leaves room, *)
(* every tick evaluates an unmeasured or stale symbol (symbols.py:146).    *)
THEOREM ExplorationGuaranteed == UniverseSpec => ExplorationIsGuaranteed
  <1>1. ASSUME UniverseTypeOK, [UniverseNext]_universeVars, stage = "idle", stage' = "chosen",
               Len(watch) + NExploit < Limit, \E s \in ToSet(Seeds) : Stale(s)
        PROVE  \E s \in ToSet(universe') : Stale(s)
    <2>1. Choose
      BY <1>1 DEF UniverseNext, universeVars, RecordTick, Upsert, Fails, NextDay
    <2>2. PICK pool \in Pools : universe' = Resolved(pool)
      BY <2>1 DEF Choose
    <2>3. \E s \in ToSet(Resolved(pool)) : Stale(s)
      BY <1>1, ResolvedProperties
    <2>4. QED
      BY <2>2, <2>3
  <1>2. UniverseTypeOK /\ [UniverseNext]_universeVars =>
          [ /\ stage = "idle" /\ stage' = "chosen"
            /\ Len(watch) + NExploit < Limit
            /\ \E s \in ToSet(Seeds) : Stale(s)
            => \E s \in ToSet(universe') : Stale(s) ]_universeVars
    BY <1>1
  <1>3. QED
    BY <1>2, UniverseTypes, PTL DEF UniverseSpec, ExplorationIsGuaranteed
-----------------------------------------------------------------------------
LEMMA DayType == ASSUME NEW hour \in Hours PROVE DayOf(hour) \in Days
  BY DEF Days

LEMMA FirstDay == 0 \in Hours /\ 0 \in Days
  <1>1. 0 \in Hours
    BY JudgementAssumption DEF Hours
  <1>2. 0 \div HoursPerDay = 0
    BY JudgementAssumption
  <1>3. QED
    BY <1>1, <1>2 DEF Days, DayOf

LEMMA SubsetType ==
    ASSUME NEW S \in SUBSET Symbols
    PROVE  IsFiniteSet(S) /\ Cardinality(S) \in Nat /\ Cardinality(S) <= Cardinality(Symbols)
  BY JudgementAssumption, FS_Subset, FS_CardinalityType

LEMMA DisjointUnion ==
    ASSUME NEW S, NEW T, IsFiniteSet(S), IsFiniteSet(T), S \cap T = {}
    PROVE  /\ IsFiniteSet(S \cup T)
           /\ Cardinality(S \cup T) = Cardinality(S) + Cardinality(T)
  <1>1. /\ IsFiniteSet(S \cup T) /\ Cardinality(S) \in Nat /\ Cardinality(T) \in Nat
        /\ Cardinality(S \cup T) = Cardinality(S) + Cardinality(T) - Cardinality({})
    BY FS_Union, FS_CardinalityType
  <1>2. QED
    BY <1>1, FS_EmptySet

(* A list of a set in any order is as long as the set and leaves nothing   *)
(* out.                                                                    *)
LEMMA AnyOrder ==
    ASSUME NEW S \in SUBSET Symbols, NEW q \in InAnyOrder(S)
    PROVE  /\ q \in Seq(S) /\ Len(q) = Cardinality(S)
           /\ \A s \in S : \E i \in 1..Len(q) : q[i] = s
  <1> DEFINE n == Cardinality(S)
  <1>1. /\ IsFiniteSet(S) /\ n \in Nat /\ q \in [1..n -> S]
        /\ \A i, j \in 1..n : q[i] = q[j] => i = j
    BY SubsetType DEF InAnyOrder
  <1> HIDE DEF n
  <1>2. q \in Seq(S) /\ Len(q) = n
    BY <1>1
  <1>3. q \in Injection(1..n, S)
    BY <1>1 DEF Injection, IsInjective
  <1>4. Cardinality(1..n) = n
    BY <1>1, FS_Interval
  <1>5. q \in Surjection(1..n, S)
    BY <1>1, <1>3, <1>4, FS_Injection DEF n
  <1>6. QED
    BY <1>2, <1>5 DEF Surjection, n
-----------------------------------------------------------------------------
(* Nothing is decided before the screen; the tick is within its queue while*)
(* it researches and judges, and has a symbol while it searches.           *)
PlaceInv ==
    /\ at \in {"idle", "screening"} => sells = {}
    /\ at \in {"researching", "judging"} => next >= 1
    /\ at = "searching" => next \in 1..Len(queue)

(* The queue and the exits by rule name every holding, and no symbol twice;*)
(* there is a candle of every holding that was fresh when it was needed.   *)
Queued == at \in {"researching", "searching", "judging"}

QueueInv ==
    Queued =>
        /\ \A s \in held : /\ candles[s] # Unknown
                           /\ screened - candles[s] < CandleTtl
                           /\ s \in forced \/ \E i \in DOMAIN queue : queue[i] = s
        /\ Cardinality(forced) + Len(queue) <= Cardinality(Symbols)

(* Calls are accounted for: by the decisions recorded, by ticks that failed*)
(* and by the tick under way, which began below the cap if it calls at all.*)
CallsNow(d) == IF at = "judging" /\ llm /\ d = date THEN next - 1 ELSE 0

CallInv ==
    Cap > 0 =>
        /\ at # "idle" /\ llm => decided[date] < Cap
        /\ \A d \in Days :
              /\ calls[d] <= decided[d] + failed[d] * Cardinality(Symbols) + CallsNow(d)
              /\ calls[d] <= Cap - 1 + (1 + failed[d]) * Cardinality(Symbols)

(* The notes of a symbol but the last one took the shorter period each,    *)
(* and what is searched for is not in the cache or is too old.             *)
Shorter == IF Ttl <= HeldTtl THEN Ttl ELSE HeldTtl

NoteInv ==
    /\ \A s \in Symbols :
          /\ notes[s] > 0 => cache[s] # Unknown /\ (notes[s] - 1) * Shorter <= cache[s]
          /\ cache[s] # Unknown => cache[s] <= now
    /\ at = "searching" => ~Fresh(Current)
-----------------------------------------------------------------------------
LEMMA FetchedType ==
    ASSUME now \in Hours, candles \in [Symbols -> Maybe(Hours)], NEW S
    PROVE  /\ Fetched(S) \in [Symbols -> Maybe(Hours)]
           /\ \A s \in S \cap Symbols : /\ Fetched(S)[s] # Unknown
                                        /\ now - Fetched(S)[s] < CandleTtl
  <1>1. /\ now \in Nat /\ now # Unknown /\ CandleTtl \in Nat \ {0}
    BY JudgementAssumption DEF Hours
  <1>2. QED
    BY <1>1 DEF Fetched, Maybe

(* What the screen queues: holdings to judge, candidates to buy, no symbol *)
(* twice, and none that is an exit by rule.                                *)
LEMMA ScreenedQueue ==
    ASSUME TypeOK, NEW found, Screen(found)
    PROVE  /\ queue' \in Seq(Symbols)
           /\ Cardinality(forced) + Len(queue') <= Cardinality(Symbols)
           /\ \A s \in held \ forced : \E i \in DOMAIN queue' : queue'[i] = s
  <1> DEFINE eligible == Eligible(found)
             passing == {s \in eligible \ held : Passes(found[s].quote)}
             warned == {s \in Symbols : found[s].warned}
  <1>0. PICK best \in BuyCandidates(passing) :
           \E buys \in InAnyOrder(best \ warned), holdings \in InAnyOrder(held \ forced) :
              queue' = buys \o holdings
    BY DEF Screen
  <1>1. PICK buys \in InAnyOrder(best \ warned), holdings \in InAnyOrder(held \ forced) :
           queue' = buys \o holdings
    BY <1>0
  <1>2. forced \subseteq held /\ held \subseteq Symbols
    BY DEF TypeOK
  <1>3. passing \subseteq Symbols \ held
    BY <1>2 DEF Eligible, OnMaster
  <1>4. best \subseteq passing
    BY <1>0 DEF BuyCandidates
  <1> HIDE DEF passing, warned
  <1> DEFINE B == best \ warned
             H == held \ forced
  <1>5. B \in SUBSET Symbols /\ H \in SUBSET Symbols /\ B \cap H = {} /\ B \cap held = {}
    BY <1>2, <1>3, <1>4
  <1>6. buys \in InAnyOrder(B) /\ holdings \in InAnyOrder(H)
    OBVIOUS
  <1> HIDE DEF B, H
  <1>7. buys \in Seq(B) /\ Len(buys) = Cardinality(B)
    BY <1>5, <1>6, AnyOrder
  <1>8. /\ holdings \in Seq(H) /\ Len(holdings) = Cardinality(H)
         /\ \A s \in H : \E i \in 1..Len(holdings) : holdings[i] = s
    BY <1>5, <1>6, AnyOrder
  <1>9. /\ IsFiniteSet(B) /\ IsFiniteSet(H) /\ IsFiniteSet(forced)
        /\ Cardinality(B) \in Nat /\ Cardinality(H) \in Nat /\ Cardinality(forced) \in Nat
    BY <1>2, <1>5, SubsetType
  <1>10. Cardinality(forced) + Cardinality(B) + Cardinality(H) <= Cardinality(Symbols)
    <2>1. forced \cap H = {} /\ B \cap (forced \cup H) = {}
      BY <1>2, <1>5 DEF H
    <2>2. /\ IsFiniteSet(forced \cup H)
          /\ Cardinality(forced \cup H) = Cardinality(forced) + Cardinality(H)
      BY <1>9, <2>1, DisjointUnion
    <2>3. Cardinality(B \cup (forced \cup H)) = Cardinality(B) + Cardinality(forced \cup H)
      BY <1>9, <2>1, <2>2, DisjointUnion
    <2>4. B \cup (forced \cup H) \in SUBSET Symbols
      BY <1>2, <1>5
    <2>5. Cardinality(B \cup (forced \cup H)) <= Cardinality(Symbols)
      BY <2>4, SubsetType
    <2>6. QED
      BY <1>9, <2>2, <2>3, <2>5
  <1>11. buys \in Seq(Symbols) /\ holdings \in Seq(Symbols)
    BY <1>5, <1>7, <1>8
  <1>12. queue' \in Seq(Symbols) /\ Len(queue') = Len(buys) + Len(holdings)
    BY <1>1, <1>11
  <1>13. ASSUME NEW s \in H PROVE \E i \in DOMAIN queue' : queue'[i] = s
    <2>1. PICK i \in 1..Len(holdings) : holdings[i] = s
      BY <1>8
    <2>2. Len(buys) + i \in DOMAIN queue' /\ queue'[Len(buys) + i] = holdings[i]
      BY <1>1, <1>11, <1>12
    <2>3. QED
      BY <2>1, <2>2
  <1>14. Cardinality(forced) + Len(queue') <= Cardinality(Symbols)
    <2>1. Len(queue') = Cardinality(B) + Cardinality(H)
      BY <1>12, <1>7, <1>8
    <2>2. Cardinality(Symbols) \in Nat
      BY SubsetType
    <2>3. QED
      BY <1>9, <1>10, <2>1, <2>2
  <1>15. QED
    BY <1>12, <1>13, <1>14 DEF H
-----------------------------------------------------------------------------
(* Types.                                                                  *)
LEMMA ForgottenType ==
    ASSUME Forgotten
    PROVE  /\ date' \in Days /\ llm' \in BOOLEAN
           /\ forced' \subseteq held' /\ held' \subseteq Symbols
           /\ screened' \in Hours /\ queue' \in Seq(Symbols)
           /\ next' \in 0..(Len(queue') + 1) /\ turns' \in 0..MaxContinuations
           /\ sells' \subseteq held' /\ sells' = {}
  <1>1. queue' \in Seq(Symbols) /\ Len(queue') = 0
    BY DEF Forgotten
  <1>2. date' \in Days /\ screened' \in Hours
    BY FirstDay DEF Forgotten
  <1>3. next' \in 0..1 /\ turns' \in 0..MaxContinuations
    BY JudgementAssumption DEF Forgotten
  <1>4. next' \in 0..(Len(queue') + 1)
    BY <1>1, <1>3
  <1>5. QED
    BY <1>1, <1>2, <1>3, <1>4 DEF Forgotten

LEMMA TypedStep == TypeOK /\ PlaceInv /\ [Next]_vars => TypeOK' /\ PlaceInv'
  <1> SUFFICES ASSUME TypeOK, PlaceInv, [Next]_vars PROVE TypeOK' /\ PlaceInv'
    OBVIOUS
  <1> USE DEF TypeOK, PlaceInv
  <1>0. /\ now \in Hours /\ Len(queue) \in Nat
        /\ \A d \in Days : calls[d] \in Nat /\ failed[d] \in Nat /\ decided[d] \in Nat
    OBVIOUS
  <1>1. ASSUME NEW holding \in SUBSET Symbols, NEW exits \in SUBSET Symbols,
               Start(holding, exits)
        PROVE  TypeOK' /\ PlaceInv'
    <2>1. date' \in Days /\ llm' \in BOOLEAN /\ ticks' \in 0..MaxTicks /\ at' = "screening"
      BY <1>1, DayType, JudgementAssumption DEF Start, Capped
    <2>2. forced' \subseteq held' /\ held' \subseteq Symbols /\ sells' \subseteq held'
      BY <1>1 DEF Start
    <2>3. QED
      BY <1>1, <2>1, <2>2 DEF Start, db, history
  <1>2. ASSUME NEW found, Screen(found) PROVE TypeOK' /\ PlaceInv'
    <2>1. queue' \in Seq(Symbols)
      BY <1>2, ScreenedQueue
    <2>2. candles' \in [Symbols -> Maybe(Hours)]
      BY <1>2, FetchedType DEF Screen
    <2>3. next' = 1 /\ next' \in 0..(Len(queue') + 1) /\ at' = "researching"
      BY <1>2, <2>1 DEF Screen
    <2>4. QED
      BY <1>2, <2>1, <2>2, <2>3, SMTT(30) DEF Screen, history
  <1>3. CASE ReadNote
    BY <1>0, <1>3, SMTT(30) DEF ReadNote, ToResearch, db, history
  <1>4. CASE Search
    BY <1>0, <1>4, JudgementAssumption, SMTT(30) DEF Search, ToResearch, db, history
  <1>5. CASE Continue
    BY <1>0, <1>5, JudgementAssumption, SMTT(30) DEF Continue, db, history
  <1>6. CASE SaveNote
    <2>0. Current \in Symbols
      BY <1>0, <1>6 DEF SaveNote, Current
    <2>1. /\ cache' \in [Symbols -> Maybe(Hours)] /\ notes' \in [Symbols -> Nat]
      BY <1>0, <1>6, <2>0 DEF SaveNote, FetchedAt, Maybe
    <2>2. next' \in 0..(Len(queue) + 1) /\ next' >= 1 /\ turns' \in 0..MaxContinuations
      BY <1>0, <1>6, JudgementAssumption DEF SaveNote
    <2>3. QED
      BY <1>6, <2>1, <2>2 DEF SaveNote
  <1>7. CASE Researched
    BY <1>0, <1>7 DEF Researched, db, history
  <1>8. calls \in [Days -> Nat] /\ Called \in [Days -> Nat]
    BY DEF Called
  <1>9. ASSUME NEW action \in Actions, Decide(action) PROVE TypeOK' /\ PlaceInv'
    <2>1. sells' \subseteq held
      <3>1. action = "SELL" => Current \in held
        BY <1>9 DEF Decide, Verdicts, Normalized, Fallback, Actions
      <3>2. QED
        BY <1>9, <3>1 DEF Decide
    <2>2. next' \in 0..(Len(queue) + 1) /\ next' >= 1
      BY <1>0, <1>9 DEF Decide
    <2>3. QED
      BY <1>8, <1>9, <2>1, <2>2 DEF Decide, db
  <1>10. CASE Record
    <2>1. Cardinality(forced) \in Nat
      BY SubsetType
    <2>2. decided' \in [Days -> Nat]
      BY <1>0, <1>10, <2>1 DEF Record
    <2>3. QED
      BY <1>10, <2>2, ForgottenType DEF Record, history
  <1>11. ASSUME Aborted
         PROVE  /\ at' = "idle" /\ failures' \in 0..MaxFailures /\ failed' \in [Days -> Nat]
                /\ Forgotten
    BY <1>0, <1>11, JudgementAssumption DEF Aborted
  <1>12. CASE StepFails
    BY <1>11, <1>12, ForgottenType DEF StepFails, db
  <1>13. ASSUME NEW found, NEW before, CandlesFail(found, before) PROVE TypeOK' /\ PlaceInv'
    <2>1. candles' \in [Symbols -> Maybe(Hours)]
      BY <1>13, FetchedType DEF CandlesFail
    <2>2. QED
      BY <1>11, <1>13, <2>1, ForgottenType DEF CandlesFail
  <1>14. CASE JudgeFails
    BY <1>8, <1>11, <1>14, ForgottenType DEF JudgeFails, db
  <1>15. CASE Hour
    <2>1. now' \in Hours
      BY <1>15, JudgementAssumption DEF Hour, Hours
    <2>2. QED
      BY <1>15, <2>1 DEF Hour, db, tick, history
  <1>16. CASE UNCHANGED vars
    BY <1>16 DEF vars, db, tick, history
  <1> HIDE DEF TypeOK, PlaceInv
  <1>17. QED
    BY <1>1, <1>2, <1>3, <1>4, <1>5, <1>6, <1>7, <1>9, <1>10, <1>12, <1>13, <1>14, <1>15,
       <1>16 DEF Next

LEMMA InitialTypes == Init => TypeOK /\ PlaceInv
  <1> SUFFICES ASSUME Init PROVE TypeOK /\ PlaceInv
    OBVIOUS
  <1>1. now \in Hours /\ date \in Days /\ screened \in Hours
    BY FirstDay DEF Init
  <1>2. queue \in Seq(Symbols) /\ Len(queue) = 0
    BY DEF Init
  <1>3. /\ next \in 0..1 /\ turns \in 0..MaxContinuations
        /\ ticks \in 0..MaxTicks /\ failures \in 0..MaxFailures
    BY JudgementAssumption DEF Init
  <1>4. QED
    BY <1>1, <1>2, <1>3 DEF Init, TypeOK, PlaceInv, Maybe

(* What a tick keeps is of its type in every reachable state; above all, a *)
(* tick sells of its holdings only, whatever the judge answers.            *)
THEOREM TypeCorrect == Spec => []TypeOK
  BY InitialTypes, TypedStep, PTL DEF Spec
-----------------------------------------------------------------------------
LEMMA TypeInvariant == Spec => [](TypeOK /\ PlaceInv)
  <1>1. Init => TypeOK /\ PlaceInv
    BY InitialTypes
  <1>2. QED
    BY <1>1, TypedStep, PTL DEF Spec

LEMMA QueueStep == TypeOK /\ PlaceInv /\ QueueInv /\ [Next]_vars => QueueInv'
  <1> SUFFICES ASSUME TypeOK, PlaceInv, QueueInv, [Next]_vars PROVE QueueInv'
    OBVIOUS
  <1> USE DEF QueueInv, Queued
  <1>1. CASE at' \in {"idle", "screening"}
    BY <1>1
  <1>2. ASSUME NEW found, Screen(found) PROVE QueueInv'
    <2>1. /\ candles' = Fetched(Eligible(found)) /\ screened' = now
          /\ UNCHANGED <<held, forced>>
      BY <1>2 DEF Screen
    <2>2. held \subseteq Eligible(found) /\ held \subseteq Symbols
      BY DEF Eligible, TypeOK
    <2>3. /\ Cardinality(forced) + Len(queue') <= Cardinality(Symbols)
          /\ \A s \in held \ forced : \E i \in DOMAIN queue' : queue'[i] = s
      BY <1>2, ScreenedQueue
    <2>4. \A s \in held : candles'[s] # Unknown /\ now - candles'[s] < CandleTtl
      BY <2>1, <2>2, FetchedType DEF TypeOK
    <2>5. QED
      BY <2>1, <2>3, <2>4
  <1>3. CASE UNCHANGED <<held, forced, candles, screened, queue>> /\ (Queued' => Queued)
    BY <1>3
  <1>4. QED
    <2>1. ASSUME NEW holding, NEW exits, Start(holding, exits) PROVE at' = "screening"
      BY <2>1 DEF Start
    <2>2. ASSUME NEW found, NEW before, CandlesFail(found, before) PROVE at' = "idle"
      BY <2>2 DEF CandlesFail, Aborted
    <2>3. Record \/ StepFails \/ JudgeFails => at' = "idle"
      BY DEF Record, StepFails, JudgeFails, Aborted
    <2>4. \/ ReadNote \/ Search \/ Continue \/ SaveNote \/ Researched \/ Hour \/ UNCHANGED vars
          => UNCHANGED <<held, forced, candles, screened, queue>> /\ (Queued' => Queued)
      BY DEF ReadNote, Search, Continue, SaveNote, Researched, Hour, ToResearch, vars, db, tick
    <2>5. ASSUME NEW action, Decide(action)
          PROVE  UNCHANGED <<held, forced, candles, screened, queue>> /\ (Queued' => Queued)
      BY <2>5 DEF Decide, db
    <2>6. QED
      BY <1>1, <1>2, <1>3, <2>1, <2>2, <2>3, <2>4, <2>5 DEF Next

LEMMA QueueInvariant == Spec => []QueueInv
  <1>1. Init => QueueInv
    BY DEF Init, QueueInv, Queued
  <1>2. QED
    BY <1>1, QueueStep, TypeInvariant, PTL DEF Spec

(* Each holding is an exit by rule or is judged, whatever the stock master,*)
(* the screener and the warnings say, and has a price that was fresh at    *)
(* the screen.                                                             *)
THEOREM EveryHoldingIsJudged == Spec => []HoldingsAreJudged
  <1>1. QueueInv => HoldingsAreJudged
    BY DEF QueueInv, Queued, HoldingsAreJudged
  <1>2. QED
    BY <1>1, QueueInvariant, PTL
-----------------------------------------------------------------------------
LEMMA TimesNat == \A x, y \in Nat : x * y \in Nat
  OBVIOUS

LEMMA OneMore ==
    ASSUME NEW n \in Nat, NEW m \in Nat
    PROVE  \E share \in Nat : /\ share = n * m /\ (1 + n) * m = share + m
                              /\ (n + 1) * m = share + m
                              /\ (1 + (n + 1)) * m = share + m + m
  OBVIOUS

(* One call more, as long as there is a symbol for it: the bounds stay.    *)
LEMMA OneCallMore ==
    ASSUME NEW c \in Nat, NEW recorded \in Nat, NEW lost \in Nat, NEW k \in Nat, NEW n \in Nat,
           c <= recorded + lost + (k - 1), k <= n, recorded <= Cap - 1
    PROVE  /\ c + 1 <= recorded + lost + k /\ c + 1 <= recorded + (lost + n)
           /\ c + 1 <= Cap - 1 + (lost + n) /\ c + 1 <= Cap - 1 + (lost + n + n)
  BY JudgementAssumption

(* What a tick that fails leaves of its calls is less than one per symbol. *)
LEMMA FailedCalls ==
    ASSUME TypeOK, PlaceInv, QueueInv, CallInv, Aborted, Cap > 0,
           UNCHANGED decided,
           \/ calls' = calls
           \/ at = "judging" /\ next <= Len(queue) /\ llm /\ calls' = [calls EXCEPT ![date] = @ + 1]
    PROVE  CallInv'
  <1> DEFINE N == Cardinality(Symbols)
  <1>0. N \in Nat /\ Cap \in Nat
    BY SubsetType, JudgementAssumption
  <1>1. /\ date \in Days /\ failed' = [failed EXCEPT ![date] = @ + 1] /\ at' = "idle"
        /\ calls \in [Days -> Nat] /\ failed \in [Days -> Nat] /\ decided \in [Days -> Nat]
        /\ next \in Nat /\ Len(queue) \in Nat /\ next <= Len(queue) + 1
    BY DEF Aborted, TypeOK
  <1>2. ASSUME NEW d \in Days
        PROVE  /\ calls'[d] <= decided[d] + failed'[d] * N
               /\ calls'[d] <= Cap - 1 + (1 + failed'[d]) * N
    <2>0. calls[d] \in Nat /\ failed[d] \in Nat /\ decided[d] \in Nat
      BY <1>1
    <2>b. /\ calls[d] <= decided[d] + failed[d] * N + CallsNow(d)
          /\ calls[d] <= Cap - 1 + (1 + failed[d]) * N
      BY <1>1 DEF CallInv
    <2>1. CASE d # date
      BY <1>0, <1>1, <2>0, <2>b, <2>1, SMTT(30) DEF CallsNow
    <2>2. CASE d = date
      <3>1. failed'[d] = failed[d] + 1
        BY <1>1, <2>2
      <3>2. PICK lost \in Nat :
              /\ lost = failed[d] * N
              /\ (1 + failed[d]) * N = lost + N
              /\ failed'[d] * N = lost + N /\ (1 + failed'[d]) * N = lost + N + N
        <4> HIDE DEF N
        <4>1. \E share \in Nat : /\ share = failed[d] * N
                                 /\ (1 + failed[d]) * N = share + N
                                 /\ (failed[d] + 1) * N = share + N
                                 /\ (1 + (failed[d] + 1)) * N = share + N + N
          <5> HIDE DEF N
          <5>1. \A n, m \in Nat : \E share \in Nat :
                   /\ share = n * m /\ (1 + n) * m = share + m
                   /\ (n + 1) * m = share + m /\ (1 + (n + 1)) * m = share + m + m
            BY OneMore
          <5>2. PICK n \in Nat, m \in Nat : n = failed[d] /\ m = N
            BY <1>0, <2>0
          <5>3. PICK share \in Nat :
                   /\ share = n * m /\ (1 + n) * m = share + m
                   /\ (n + 1) * m = share + m /\ (1 + (n + 1)) * m = share + m + m
            BY <5>1
          <5>4. /\ share = failed[d] * N /\ (1 + failed[d]) * N = share + N
                /\ (failed[d] + 1) * N = share + N
                /\ (1 + (failed[d] + 1)) * N = share + N + N
            BY Zenon, <5>2, <5>3
          <5>5. QED
            BY Zenon, <5>4
        <4>2. QED
          BY <3>1, <4>1
      <3>3. at = "judging" => Len(queue) <= N
        <4>1. Cardinality(forced) \in Nat
          BY SubsetType DEF TypeOK
        <4>2. QED
          BY <1>0, <1>1, <4>1 DEF QueueInv, Queued
      <3>4. calls[d] <= decided[d] + lost + CallsNow(d) /\ calls[d] <= Cap - 1 + (lost + N)
        BY <2>b, <3>2
      <3> HIDE DEF N
      <3>5. CASE calls' = calls
        <4>1. CallsNow(d) \in Nat /\ CallsNow(d) <= N
          <5>1. CASE at = "judging" /\ llm
            <6>1. CallsNow(d) = next - 1 /\ next >= 1
              BY <2>2, <5>1 DEF CallsNow, PlaceInv
            <6>2. QED
              BY <1>0, <1>1, <3>3, <5>1, <6>1
          <5>2. CASE ~(at = "judging" /\ llm)
            BY <1>0, <5>2 DEF CallsNow
          <5>3. QED
            BY <5>1, <5>2
        <4>2. /\ calls[d] <= decided[d] + (lost + N)
              /\ calls[d] <= Cap - 1 + (lost + N + N)
          BY <1>0, <2>0, <3>4, <4>1
        <4>3. QED
          BY <3>2, <3>5, <4>2
      <3>6. CASE /\ at = "judging" /\ next <= Len(queue) /\ llm
                 /\ calls' = [calls EXCEPT ![date] = @ + 1]
        <4>1. CallsNow(d) = next - 1 /\ calls'[d] = calls[d] + 1 /\ next <= N
          BY <1>0, <1>1, <2>2, <3>3, <3>6 DEF CallsNow
        <4>2. decided[d] <= Cap - 1
          BY <1>0, <1>1, <2>0, <2>2, <3>6 DEF CallInv
        <4>3. /\ calls[d] + 1 <= decided[d] + (lost + N)
              /\ calls[d] + 1 <= Cap - 1 + (lost + N + N)
          BY <1>0, <1>1, <2>0, <3>4, <4>1, <4>2, OneCallMore
        <4>4. QED
          BY <3>2, <4>1, <4>3
      <3>7. QED
        BY <3>5, <3>6
    <2>3. QED
      BY <2>1, <2>2
  <1>3. \A d \in Days : CallsNow(d)' = 0
    BY <1>1 DEF CallsNow
  <1>4. \A d \in Days : calls'[d] <= decided'[d] + failed'[d] * N + CallsNow(d)'
    <2>1. \A d \in Days : decided[d] \in Nat /\ failed'[d] \in Nat
      BY <1>1
    <2>2. \A d \in Days : failed'[d] * N \in Nat
      <3> SUFFICES ASSUME NEW d \in Days PROVE failed'[d] * N \in Nat
        OBVIOUS
      <3> HIDE DEF N
      <3>1. N \in Nat /\ failed'[d] \in Nat
        BY <1>0, <2>1
      <3>2. QED
        BY ONLY <3>1, TimesNat
    <2>3. \A x, y \in Nat : x + y + 0 = x + y
      OBVIOUS
    <2>4. QED
      BY <1>1, <1>2, <1>3, <2>1, <2>2, <2>3, SMTT(30)
  <1>5. QED
    BY <1>1, <1>2, <1>4 DEF CallInv

LEMMA CallStep == TypeOK /\ PlaceInv /\ QueueInv /\ CallInv /\ [Next]_vars => CallInv'
  <1> SUFFICES ASSUME TypeOK, PlaceInv, QueueInv, CallInv, [Next]_vars, Cap > 0 PROVE CallInv'
    BY DEF CallInv
  <1> DEFINE N == Cardinality(Symbols)
  <1>0. /\ N \in Nat /\ Cap \in Nat
        /\ \A d \in Days : calls[d] \in Nat /\ failed[d] \in Nat /\ decided[d] \in Nat
    BY SubsetType, JudgementAssumption DEF TypeOK
  <1>b. \A d \in Days : \E lost \in Nat :
           /\ lost = failed[d] * N /\ (1 + failed[d]) * N = lost + N
           /\ calls[d] <= decided[d] + lost + CallsNow(d)
           /\ calls[d] <= Cap - 1 + (lost + N)
    <2> SUFFICES ASSUME NEW d \in Days
                 PROVE  \E lost \in Nat :
                           /\ lost = failed[d] * N /\ (1 + failed[d]) * N = lost + N
                           /\ calls[d] <= decided[d] + lost + CallsNow(d)
                           /\ calls[d] <= Cap - 1 + (lost + N)
      OBVIOUS
    <2>1. /\ calls[d] <= decided[d] + failed[d] * N + CallsNow(d)
          /\ calls[d] <= Cap - 1 + (1 + failed[d]) * N
      BY DEF CallInv
    <2>2. PICK lost \in Nat : lost = failed[d] * N /\ (1 + failed[d]) * N = lost + N
      <3> HIDE DEF N
      <3>1. N \in Nat /\ failed[d] \in Nat
        BY <1>0
      <3>2. \E lost \in Nat : /\ lost = failed[d] * N /\ (1 + failed[d]) * N = lost + N
                              /\ (failed[d] + 1) * N = lost + N
                              /\ (1 + (failed[d] + 1)) * N = lost + N + N
        BY ONLY <3>1, OneMore
      <3> QED  BY ONLY <3>2
    <2>3. QED
      BY <2>1, <2>2
  <1>1. /\ date \in Days /\ next \in Nat /\ Len(queue) \in Nat
        /\ calls \in [Days -> Nat] /\ decided \in [Days -> Nat]
    BY DEF TypeOK
  <1>2. ASSUME NEW holding, NEW exits, Start(holding, exits) PROVE CallInv'
    <2>1. /\ at = "idle" /\ at' = "screening" /\ date' = DayOf(now) /\ llm' = ~Capped
          /\ UNCHANGED <<calls, failed, decided>>
      BY <1>2 DEF Start, db, history
    <2>2. \A d \in Days : CallsNow(d) = 0 /\ CallsNow(d)' = 0
      BY <2>1 DEF CallsNow
    <2>3. DayOf(now) \in Days
      BY DayType DEF TypeOK
    <2>4. llm' => decided[date'] < Cap
      <3>1. llm' => ~Capped
        BY <2>1
      <3>2. decided[DayOf(now)] \in Nat
        BY <1>0, <2>3
      <3>3. ~Capped => decided[DayOf(now)] < Cap
        BY <1>0, <3>2 DEF Capped
      <3>4. QED
        BY <2>1, <3>1, <3>3
    <2>5. QED
      BY <2>1, <2>2, <2>4 DEF CallInv
  <1>3. CASE Researched
    <2>1. /\ at = "researching" /\ at' = "judging" /\ next' = 1
          /\ UNCHANGED <<calls, failed, decided, date, llm>>
      BY <1>3 DEF Researched, db, history
    <2>2. \A d \in Days : CallsNow(d) = 0 /\ CallsNow(d)' = 0
      BY <2>1 DEF CallsNow
    <2>3. QED
      BY <2>1, <2>2 DEF CallInv
  <1>4. ASSUME NEW action, Decide(action) PROVE CallInv'
    <2>1. /\ at = "judging" /\ at' = "judging" /\ next' = next + 1 /\ next <= Len(queue)
          /\ calls' = Called /\ UNCHANGED <<failed, decided, date, llm>>
      BY <1>4 DEF Decide, db
    <2>2. CASE ~llm
      <3>1. calls' = calls /\ \A d \in Days : CallsNow(d) = 0 /\ CallsNow(d)' = 0
        BY <2>1, <2>2 DEF Called, CallsNow
      <3>2. QED
        BY <2>1, <2>2, <3>1 DEF CallInv
    <2>3. CASE llm
      <3>1. calls' = [calls EXCEPT ![date] = @ + 1] /\ decided[date] <= Cap - 1
        BY <1>0, <1>1, <2>1, <2>3 DEF Called, CallInv
      <3>2. Len(queue) <= N
        <4>1. Cardinality(forced) \in Nat
          BY SubsetType DEF TypeOK
        <4>2. QED
          BY <1>0, <1>1, <2>1, <4>1 DEF QueueInv, Queued
      <3>3. ASSUME NEW d \in Days
            PROVE  /\ calls'[d] <= decided[d] + failed[d] * N + CallsNow(d)'
                   /\ calls'[d] <= Cap - 1 + (1 + failed[d]) * N
        <4>1. CASE d # date
          <5>1. calls'[d] = calls[d] /\ CallsNow(d)' = CallsNow(d)
            BY <1>1, <2>1, <3>1, <4>1 DEF CallsNow
          <5>2. QED
            BY <1>b, <5>1
        <4>2. CASE d = date
          <5>1. /\ calls'[d] = calls[d] + 1
                /\ CallsNow(d) = next - 1 /\ CallsNow(d)' = next
            BY <1>1, <2>1, <2>3, <3>1, <4>2 DEF CallsNow
          <5>2. PICK lost \in Nat :
                  /\ lost = failed[d] * N /\ (1 + failed[d]) * N = lost + N
                  /\ calls[d] <= decided[d] + lost + CallsNow(d)
            BY <1>b
          <5>3. /\ calls[d] + 1 <= decided[d] + lost + next
                /\ calls[d] + 1 <= Cap - 1 + (lost + N)
            <6> HIDE DEF N
            <6>1. next \in Nat /\ next <= N
              BY <1>0, <1>1, <2>1, <3>2
            <6>2. calls[d] \in Nat /\ decided[d] \in Nat /\ decided[d] <= Cap - 1
              BY <1>0, <3>1, <4>2
            <6>3. calls[d] <= decided[d] + lost + (next - 1)
              BY <5>1, <5>2
            <6>4. QED
              BY <1>0, <6>1, <6>2, <6>3, OneCallMore
          <5>4. QED
            BY <5>1, <5>2, <5>3
        <4>3. QED
          BY <4>1, <4>2
      <3>4. QED
        BY <2>1, <3>1, <3>3 DEF CallInv
    <2>4. QED
      BY <2>2, <2>3
  <1>5. CASE Record
    <2>1. /\ at = "judging" /\ at' = "idle" /\ next > Len(queue)
          /\ decided' = [decided EXCEPT ![date] = @ + Cardinality(forced) + Len(queue)]
          /\ UNCHANGED <<calls, failed>> /\ ~llm' /\ next <= Len(queue) + 1
      BY <1>5 DEF Record, Forgotten, history, TypeOK
    <2>2. Cardinality(forced) \in Nat
      BY SubsetType DEF TypeOK
    <2>3. ASSUME NEW d \in Days
          PROVE  calls[d] <= decided'[d] + failed[d] * N + CallsNow(d)'
      <3>1. CallsNow(d)' = 0
        BY <2>1 DEF CallsNow
      <3>2. CallsNow(d) = 0 \/ (CallsNow(d) = Len(queue) /\ d = date)
        BY <1>1, <2>1 DEF CallsNow
      <3>3. decided'[d] \in Nat /\ decided'[d] >= decided[d] + CallsNow(d)
        <4>1. CASE d = date
          <5>1. decided'[d] = decided[d] + Cardinality(forced) + Len(queue)
            BY <1>1, <2>1, <4>1
          <5>2. QED
            BY <1>0, <1>1, <2>2, <3>2, <5>1
        <4>2. CASE d # date
          BY <1>0, <1>1, <2>1, <3>2, <4>2
        <4>3. QED
          BY <4>1, <4>2
      <3>4. PICK lost \in Nat :
              lost = failed[d] * N /\ calls[d] <= decided[d] + lost + CallsNow(d)
        BY <1>b
      <3>5. calls[d] <= decided'[d] + lost + 0
        <4> HIDE DEF N
        <4>1. CallsNow(d) \in Nat /\ decided[d] \in Nat /\ calls[d] \in Nat
          BY <1>0, <1>1, <3>2
        <4>2. QED
          BY <3>3, <3>4, <4>1
      <3>6. QED
        BY <3>1, <3>4, <3>5
    <2>4. QED
      BY <2>1, <2>3 DEF CallInv
  <1>6. CASE StepFails
    BY <1>6, FailedCalls DEF StepFails, db
  <1>7. ASSUME NEW found, NEW before, CandlesFail(found, before) PROVE CallInv'
    BY <1>7, FailedCalls DEF CandlesFail
  <1>8. CASE JudgeFails
    BY <1>8, FailedCalls DEF JudgeFails, Called, db
  <1>9. CASE /\ at' = at \/ {at, at'} \subseteq {"screening", "researching", "searching"}
             /\ at # "judging" \/ next' = next
             /\ UNCHANGED <<calls, failed, decided, date, llm>>
    <2>1. \A d \in Days : CallsNow(d)' = CallsNow(d)
      BY <1>9 DEF CallsNow
    <2>2. at' # "idle" => at # "idle"
      BY <1>9
    <2>3. QED
      BY <1>9, <2>1, <2>2 DEF CallInv
  <1>10. QED
    <2>1. ASSUME NEW found, Screen(found) PROVE CallInv'
      BY <1>9, <2>1 DEF Screen, history
    <2>2. CASE ReadNote
      BY <1>9, <2>2 DEF ReadNote, ToResearch, db, history
    <2>3. CASE Search
      BY <1>9, <2>3 DEF Search, ToResearch, db, history
    <2>4. CASE Continue
      BY <1>9, <2>4 DEF Continue, db, history
    <2>5. CASE SaveNote
      BY <1>9, <2>5 DEF SaveNote
    <2>6. CASE Hour \/ UNCHANGED vars
      BY <1>9, <2>6 DEF Hour, vars, db, tick, history
    <2>7. QED
      BY <1>2, <1>3, <1>4, <1>5, <1>6, <1>7, <1>8, <2>1, <2>2, <2>3, <2>4, <2>5, <2>6 DEF Next

(* The calls of a day exceed the cap by less than one per symbol, and by   *)
(* one per symbol for each tick that failed: for any cap, and though only  *)
(* the decisions of recorded ticks are counted.                            *)
THEOREM CallsAreCapped == Spec => []CallsStayNearTheCap
  <1>1. Init => CallInv
    <2> SUFFICES ASSUME Init, Cap > 0, NEW d \in Days
                 PROVE  /\ calls[d] <= decided[d] + failed[d] * Cardinality(Symbols) + CallsNow(d)
                        /\ calls[d] <= Cap - 1 + (1 + failed[d]) * Cardinality(Symbols)
      BY DEF Init, CallInv
    <2>1. Cardinality(Symbols) \in Nat /\ Cap \in Nat
      BY SubsetType, JudgementAssumption
    <2>2. calls[d] = 0 /\ decided[d] = 0 /\ failed[d] = 0 /\ CallsNow(d) = 0
      BY DEF Init, CallsNow
    <2>3. QED
      BY <2>1, <2>2
  <1>2. CallInv => CallsStayNearTheCap
    BY DEF CallInv, CallsStayNearTheCap
  <1>3. QED
    BY <1>1, <1>2, CallStep, TypeInvariant, QueueInvariant, PTL DEF Spec
-----------------------------------------------------------------------------
LEMMA OneNoteMore ==
    ASSUME NEW n \in Nat, NEW m \in Nat, NEW t \in Nat, n > 0, (n - 1) * m <= t
    PROVE  ((n + 1) - 1) * m <= t + m
  <1>1. n * m = (n - 1) * m + m
    OBVIOUS
  <1>2. (n - 1) * m \in Nat /\ (n + 1) - 1 = n
    OBVIOUS
  <1>3. QED
    BY <1>1, <1>2

LEMMA Periods ==
    /\ Shorter \in Nat /\ Shorter \in {Ttl, HeldTtl}
    /\ \A s : TtlOf(s) \in Nat /\ Shorter <= TtlOf(s)
  BY JudgementAssumption DEF Shorter, TtlOf

LEMMA NoteStep == TypeOK /\ PlaceInv /\ NoteInv /\ [Next]_vars => NoteInv'
  <1> SUFFICES ASSUME TypeOK, PlaceInv, NoteInv, [Next]_vars PROVE NoteInv'
    OBVIOUS
  <1>0. /\ now \in Nat /\ now # Unknown
        /\ \A s \in Symbols : cache[s] \in Maybe(Nat) /\ notes[s] \in Nat
    BY JudgementAssumption DEF TypeOK, Hours, Maybe
  <1>1. CASE SaveNote
    <2>1. /\ at = "searching" /\ at' = "researching" /\ now' = now
          /\ cache' = [cache EXCEPT ![Current] = now]
          /\ notes' = [notes EXCEPT ![Current] = @ + 1]
      BY <1>1 DEF SaveNote, FetchedAt
    <2>2. Current \in Symbols
      BY <2>1 DEF TypeOK, PlaceInv, Current
    <2>3. ASSUME NEW s \in Symbols
          PROVE  /\ notes'[s] > 0 => cache'[s] # Unknown /\ (notes'[s] - 1) * Shorter <= cache'[s]
                 /\ cache'[s] # Unknown => cache'[s] <= now'
      <3>1. CASE s # Current
        <4>1. cache'[s] = cache[s] /\ notes'[s] = notes[s]
          BY <2>1, <2>2, <3>1 DEF TypeOK
        <4>2. QED
          BY <2>1, <4>1 DEF NoteInv
      <3>2. CASE s = Current
        <4>1. cache'[s] = now /\ notes'[s] = notes[s] + 1
          BY <2>1, <2>2, <3>2 DEF TypeOK
        <4>2. (notes'[s] - 1) * Shorter <= now
          <5>1. CASE notes[s] = 0
            <6>1. notes'[s] - 1 = 0 /\ 0 * Shorter = 0
              BY <4>1, <5>1, Periods
            <6>2. QED
              BY <1>0, <6>1
          <5>2. CASE notes[s] > 0
            <6>1. /\ cache[s] \in Nat /\ cache[s] # Unknown
                  /\ (notes[s] - 1) * Shorter <= cache[s]
              BY <1>0, <5>2 DEF NoteInv, Maybe
            <6>2. ~Fresh(s)
              BY <2>1, <3>2 DEF NoteInv
            <6>3. cache[s] + Shorter <= now
              <7>1. TtlOf(s) \in Nat /\ Shorter \in Nat /\ Shorter <= TtlOf(s)
                BY Periods
              <7>2. ~(now - cache[s] < TtlOf(s))
                BY <6>1, <6>2 DEF Fresh
              <7>3. QED
                BY <1>0, <6>1, <7>1, <7>2
            <6>4. ((notes[s] + 1) - 1) * Shorter <= cache[s] + Shorter
              BY <1>0, <5>2, <6>1, Periods, OneNoteMore
            <6>5. ((notes[s] + 1) - 1) * Shorter \in Nat /\ cache[s] + Shorter \in Nat
              <7>1. \A n, m \in Nat : ((n + 1) - 1) * m \in Nat
                OBVIOUS
              <7>2. QED
                BY <1>0, <6>1, <7>1, Periods
            <6>6. QED
              BY <1>0, <4>1, <6>3, <6>4, <6>5
          <5>3. QED
            BY <1>0, <5>1, <5>2
        <4>3. QED
          BY <1>0, <2>1, <4>1, <4>2
      <3>3. QED
        BY <3>1, <3>2
    <2>4. QED
      BY <2>1, <2>3 DEF NoteInv
  <1>2. CASE Hour
    <2>1. now' = now + 1 /\ UNCHANGED <<cache, notes, at, queue, next, held>>
      BY <1>2 DEF Hour, db, tick, history
    <2>2. \A s \in Symbols : cache[s] # Unknown => cache[s] <= now'
      BY <1>0, <2>1 DEF NoteInv, Maybe
    <2>3. at = "searching" => ~Fresh(Current)'
      <3> SUFFICES ASSUME at = "searching" PROVE ~Fresh(Current)'
        OBVIOUS
      <3>1. Current \in Symbols /\ Current' = Current /\ ~Fresh(Current)
        BY <2>1 DEF TypeOK, PlaceInv, Current, NoteInv
      <3>2. cache[Current] \in Nat => ~(now + 1 - cache[Current] < TtlOf(Current))
        BY <1>0, <3>1, Periods, JudgementAssumption DEF Fresh
      <3>3. QED
        BY <1>0, <2>1, <3>1, <3>2 DEF Fresh, TtlOf, Maybe
    <2>4. QED
      BY <2>1, <2>2, <2>3 DEF NoteInv
  <1>3. CASE /\ UNCHANGED <<now, cache, notes>>
             /\ at' = "searching" => ~Fresh(Current)'
    BY <1>3 DEF NoteInv
  <1>4. CASE UNCHANGED <<now, cache, notes>> /\ at' # "searching"
    BY <1>3, <1>4
  <1>5. CASE UNCHANGED <<now, cache, notes, queue, next, held, at>>
    <2>1. Fresh(Current)' = Fresh(Current)
      BY <1>5 DEF Fresh, TtlOf, Current
    <2>2. QED
      BY <1>5, <2>1 DEF NoteInv
  <1>6. CASE Search
    <2>1. ~Fresh(Current) /\ UNCHANGED <<now, cache, notes, queue, next, held>>
      BY <1>6 DEF Search, db, history
    <2>2. Fresh(Current)' = Fresh(Current)
      BY <2>1 DEF Fresh, TtlOf, Current
    <2>3. QED
      BY <1>3, <2>1, <2>2
  <1>7. ASSUME NEW holding, NEW exits, Start(holding, exits) PROVE NoteInv'
    BY <1>4, <1>7 DEF Start, db, history
  <1>8. ASSUME NEW found, Screen(found) PROVE NoteInv'
    BY <1>4, <1>8 DEF Screen, history
  <1>9. ASSUME NEW found, NEW before, CandlesFail(found, before) PROVE NoteInv'
    BY <1>4, <1>9 DEF CandlesFail, Aborted
  <1>10. CASE ReadNote \/ Researched
    BY <1>4, <1>10 DEF ReadNote, Researched, ToResearch, db, history
  <1>11. CASE Continue
    BY <1>5, <1>11 DEF Continue, db, history
  <1>12. ASSUME NEW action, Decide(action) PROVE NoteInv'
    BY <1>4, <1>12 DEF Decide, db
  <1>13. CASE Record \/ StepFails \/ JudgeFails
    BY <1>4, <1>13 DEF Record, StepFails, JudgeFails, Aborted, db, history
  <1>14. CASE UNCHANGED vars
    BY <1>5, <1>14 DEF vars, db, tick, history
  <1>15. QED
    BY <1>1, <1>2, <1>6, <1>7, <1>8, <1>9, <1>10, <1>11, <1>12, <1>13, <1>14 DEF Next

(* However ticks fail, whatever is held when, and for any two periods of   *)
(* the cache: a symbol with n notes was first searched for n - 1 of the    *)
(* shorter period ago, or before.                                          *)
THEOREM SearchesStaySpaced == Spec => []SearchesAreSpaced
  <1>1. Init => NoteInv
    BY DEF Init, NoteInv
  <1>2. TypeOK /\ NoteInv => SearchesAreSpaced
    <2> SUFFICES ASSUME TypeOK, NoteInv, NEW s \in Symbols, notes[s] > 0
                 PROVE  (notes[s] - 1) * Shorter <= now
      BY Periods DEF SearchesAreSpaced
    <2>1. (notes[s] - 1) * Shorter <= cache[s] /\ cache[s] <= now /\ cache[s] # Unknown
      BY DEF NoteInv
    <2>2. cache[s] \in Nat /\ now \in Nat /\ notes[s] \in Nat /\ Shorter \in Nat
      BY <2>1, Periods, JudgementAssumption DEF TypeOK, Hours, Maybe
    <2>3. (notes[s] - 1) * Shorter \in Int
      BY <2>2
    <2>4. QED
      BY <2>1, <2>2, <2>3
  <1>3. QED
    BY <1>1, <1>2, NoteStep, TypeInvariant, PTL DEF Spec
=============================================================================
