-------------------------------- MODULE Sums --------------------------------
(***************************************************************************)
(* Lemmas about sums over finite sets, for the modules that add up money   *)
(* and shares. SumFunctionOnSet is a recursion over the subsets of the     *)
(* index set that takes away one chosen element at a time. What holds of   *)
(* all subsets is shown at a smallest counterexample.                      *)
(***************************************************************************)
EXTENDS Functions, FiniteSetTheorems, TLAPS

Any(s) == CHOOSE x \in s : TRUE

LEMMA SmallestExists ==
    ASSUME NEW S, IsFiniteSet(S), NEW B \in SUBSET SUBSET S, B # {}
    PROVE  \E s \in B : \A x \in s : s \ {x} \notin B
  <1> DEFINE R == StrictSubsetOrdering(S)
  <1>1. IsWellFoundedOn(R, SUBSET S)
    BY FS_StrictSubsetOrderingWellFounded, FS_FiniteSubsetsOfFinite
  <1>2. PICK s \in B : \A t \in B : ~(<<t, s>> \in R)
    <2> HIDE DEF R
    <2>1. QED
      BY <1>1, WFMin
  <1>3. ASSUME NEW x \in s PROVE s \ {x} \notin B
    <2>1. s \ {x} \in SUBSET S /\ s \in SUBSET S /\ s \ {x} \subseteq s /\ s \ {x} # s
      OBVIOUS
    <2>2. <<s \ {x}, s>> \in R
      BY <2>1 DEF StrictSubsetOrdering
    <2>3. QED
      BY <1>2, <2>2
  <1>4. QED
    BY <1>3

(* g is a sum of f on the subsets of S that have at most n elements.       *)
SumsUpTo(g, f, S, n) ==
    \A s \in SUBSET S : Cardinality(s) <= n =>
        g[s] = IF s = {} THEN 0 ELSE f[Any(s)] + g[s \ {Any(s)}]

AreSums(g, f, S) ==
    g = [s \in SUBSET S |-> IF s = {} THEN 0 ELSE f[Any(s)] + g[s \ {Any(s)}]]

LEMMA SumsExist ==
    ASSUME NEW S, IsFiniteSet(S), NEW f
    PROVE  \E g : AreSums(g, f, S)
  <1> DEFINE B == {t \in SUBSET S : ~\E g : SumsUpTo(g, f, S, Cardinality(t))}
  <1>0. \A t \in SUBSET S : IsFiniteSet(t) /\ Cardinality(t) \in Nat
    BY FS_Subset, FS_CardinalityType
  <1>1. B = {}
    <2> SUFFICES ASSUME B # {} PROVE FALSE
      OBVIOUS
    <2>1. PICK t \in B : \A x \in t : t \ {x} \notin B
      BY SmallestExists
    <2>2. CASE t = {}
      <3> DEFINE g == [s \in SUBSET S |-> 0]
      <3>1. \A s \in SUBSET S : Cardinality(s) <= 0 => s = {}
        BY <1>0, FS_EmptySet
      <3>2. SumsUpTo(g, f, S, Cardinality(t))
        BY <2>2, <3>1, FS_EmptySet DEF SumsUpTo
      <3>3. QED
        BY <3>2
    <2>3. CASE t # {}
      <3>1. PICK x \in t : TRUE
        BY <2>3
      <3>2. t \ {x} \in SUBSET S /\ Cardinality(t) = Cardinality(t \ {x}) + 1
        BY <1>0, <3>1, FS_RemoveElement
      <3> DEFINE n == Cardinality(t \ {x})
      <3>3. PICK g : SumsUpTo(g, f, S, n)
        BY <2>1, <3>2
      <3>4. n \in Nat
        BY <1>0, <3>2
      <3> DEFINE h == [s \in SUBSET S |-> IF Cardinality(s) <= n THEN g[s]
                                          ELSE f[Any(s)] + g[s \ {Any(s)}]]
      <3>5. ASSUME NEW s \in SUBSET S, Cardinality(s) <= n + 1
            PROVE  h[s] = IF s = {} THEN 0 ELSE f[Any(s)] + h[s \ {Any(s)}]
        <4>1. CASE s = {}
          <5>1. Cardinality(s) <= n
            BY <3>4, <4>1, FS_EmptySet
          <5>2. QED
            BY <3>3, <4>1, <5>1 DEF SumsUpTo
        <4>2. CASE s # {}
          <5>1. Any(s) \in s
            BY <4>2 DEF Any
          <5>2. /\ s \ {Any(s)} \in SUBSET S
                /\ Cardinality(s \ {Any(s)}) = Cardinality(s) - 1
            BY <1>0, <5>1, FS_RemoveElement
          <5>3. Cardinality(s \ {Any(s)}) <= n
            BY <1>0, <3>4, <3>5, <5>2
          <5>4. h[s \ {Any(s)}] = g[s \ {Any(s)}]
            BY <5>2, <5>3
          <5>5. h[s] = f[Any(s)] + g[s \ {Any(s)}]
            BY <3>3, <4>2 DEF SumsUpTo
          <5>6. QED
            BY <4>2, <5>4, <5>5
        <4>3. QED
          BY <4>1, <4>2
      <3>6. SumsUpTo(h, f, S, Cardinality(t))
        <4> HIDE DEF h, n
        <4>1. Cardinality(t) = n + 1
          BY <3>2 DEF n
        <4>2. QED
          BY <3>5, <4>1 DEF SumsUpTo
      <3>7. QED
        BY <3>6
    <2>4. QED
      BY <2>2, <2>3
  <1>2. S \in SUBSET S /\ S \notin B
    BY <1>1
  <1>3. PICK g : SumsUpTo(g, f, S, Cardinality(S))
    BY <1>2
  <1> DEFINE h == [s \in SUBSET S |-> g[s]]
  <1>4. \A s \in SUBSET S : s \ {Any(s)} \in SUBSET S /\ Cardinality(s) <= Cardinality(S)
    BY FS_Subset
  <1>5. \A s \in SUBSET S : h[s] = IF s = {} THEN 0 ELSE f[Any(s)] + h[s \ {Any(s)}]
    BY <1>3, <1>4 DEF SumsUpTo
  <1>6. AreSums(h, f, S)
    BY <1>5 DEF AreSums
  <1>7. QED
    BY <1>6

(* The sums of f on the subsets of S, as the library computes them.        *)
Sums(f, S) == CHOOSE g : AreSums(g, f, S)

LEMMA SumIsOfSums ==
    ASSUME NEW f, NEW S
    PROVE  SumFunctionOnSet(f, S) = Sums(f, S)[S]
  BY DEF SumFunctionOnSet, FoldFunctionOnSet, MapThenFoldSet, Sums, AreSums, Any

(* What the recursion says of each subset.                                 *)
SumLaw(f, S) ==
    \A s \in SUBSET S :
        /\ s = {} => Sums(f, S)[s] = 0
        /\ s # {} => /\ Any(s) \in s
                     /\ Sums(f, S)[s] = f[Any(s)] + Sums(f, S)[s \ {Any(s)}]

LEMMA SumsObeyTheLaw ==
    ASSUME NEW S, IsFiniteSet(S), NEW f
    PROVE  SumLaw(f, S)
  <1> DEFINE g == Sums(f, S)
  <1> HIDE DEF g
  <1>1. AreSums(g, f, S)
    BY SumsExist DEF Sums, g
  <1>2. \A s \in SUBSET S : g[s] = IF s = {} THEN 0 ELSE f[Any(s)] + g[s \ {Any(s)}]
    BY <1>1 DEF AreSums
  <1>3. \A s \in SUBSET S : s # {} => Any(s) \in s
    BY DEF Any
  <1>4. QED
    BY <1>2, <1>3 DEF g, SumLaw

(* On what two index sets share, sums of the same numbers are the same.    *)
LEMMA SumsAgree ==
    ASSUME NEW S, IsFiniteSet(S), NEW T, IsFiniteSet(T), NEW f, NEW g,
           NEW U \in SUBSET (S \cap T), \A x \in U : f[x] = g[x]
    PROVE  Sums(f, S)[U] = Sums(g, T)[U]
  <1>0. IsFiniteSet(U) /\ U \subseteq S /\ U \subseteq T
    BY FS_Subset
  <1>1. SumLaw(f, S) /\ SumLaw(g, T)
    BY SumsObeyTheLaw
  <1>2. \A s \in SUBSET U : s \in SUBSET S /\ s \in SUBSET T
    BY <1>0
  <1> DEFINE B == {s \in SUBSET U : Sums(f, S)[s] # Sums(g, T)[s]}
  <1>3. B = {}
    <2> SUFFICES ASSUME B # {} PROVE FALSE
      OBVIOUS
    <2>1. PICK s \in B : \A x \in s : s \ {x} \notin B
      BY <1>0, SmallestExists
    <2>2. CASE s = {}
      BY <1>1, <1>2, <2>2 DEF SumLaw
    <2>3. CASE s # {}
      <3>1. Any(s) \in s /\ Sums(f, S)[s] = f[Any(s)] + Sums(f, S)[s \ {Any(s)}]
        BY <1>1, <1>2, <2>3 DEF SumLaw
      <3>2. Sums(g, T)[s] = g[Any(s)] + Sums(g, T)[s \ {Any(s)}]
        BY <1>1, <1>2, <2>3 DEF SumLaw
      <3>3. Sums(f, S)[s \ {Any(s)}] = Sums(g, T)[s \ {Any(s)}] /\ f[Any(s)] = g[Any(s)]
        BY <2>1, <3>1
      <3>4. QED
        BY <3>1, <3>2, <3>3
    <2>4. QED
      BY <2>2, <2>3
  <1>4. QED
    BY <1>3

LEMMA SumOfNone == ASSUME NEW f PROVE SumFunctionOnSet(f, {}) = 0
  <1>1. SumLaw(f, {})
    BY FS_EmptySet, SumsObeyTheLaw
  <1>2. QED
    BY <1>1, SumIsOfSums DEF SumLaw

(* Sums of members of a set that is closed under addition are in it.       *)
LEMMA SumsStayIn ==
    ASSUME NEW S, IsFiniteSet(S), NEW f, NEW K,
           0 \in K, \A a, b \in K : a + b \in K, \A x \in S : f[x] \in K
    PROVE  \A s \in SUBSET S : Sums(f, S)[s] \in K
  <1>0. SumLaw(f, S)
    BY SumsObeyTheLaw
  <1> DEFINE B == {s \in SUBSET S : Sums(f, S)[s] \notin K}
  <1>1. B = {}
    <2> SUFFICES ASSUME B # {} PROVE FALSE
      OBVIOUS
    <2>1. PICK s \in B : \A x \in s : s \ {x} \notin B
      BY SmallestExists
    <2>2. CASE s = {}
      BY <1>0, <2>2 DEF SumLaw
    <2>3. CASE s # {}
      <3>1. Any(s) \in s /\ Sums(f, S)[s] = f[Any(s)] + Sums(f, S)[s \ {Any(s)}]
        BY <1>0, <2>3 DEF SumLaw
      <3>2. Sums(f, S)[s \ {Any(s)}] \in K /\ f[Any(s)] \in K
        BY <2>1, <3>1
      <3>3. QED
        BY <3>1, <3>2
    <2>4. QED
      BY <2>2, <2>3
  <1>2. QED
    BY <1>1

LEMMA SumType ==
    ASSUME NEW S, IsFiniteSet(S), NEW f, \A x \in S : f[x] \in Int
    PROVE  SumFunctionOnSet(f, S) \in Int
  <1>1. 0 \in Int /\ \A a, b \in Int : a + b \in Int
    OBVIOUS
  <1>2. \A s \in SUBSET S : Sums(f, S)[s] \in Int
    BY <1>1, SumsStayIn
  <1>3. QED
    BY <1>2, SumIsOfSums

LEMMA SumOfNaturals ==
    ASSUME NEW S, IsFiniteSet(S), NEW f, \A x \in S : f[x] \in Nat
    PROVE  SumFunctionOnSet(f, S) \in Nat
  <1>1. 0 \in Nat /\ \A a, b \in Nat : a + b \in Nat
    OBVIOUS
  <1>2. \A s \in SUBSET S : Sums(f, S)[s] \in Nat
    BY <1>1, SumsStayIn
  <1>3. QED
    BY <1>2, SumIsOfSums

LEMMA SumOfZeros ==
    ASSUME NEW S, IsFiniteSet(S), NEW f, \A x \in S : f[x] = 0
    PROVE  SumFunctionOnSet(f, S) = 0
  <1> DEFINE K == {0}
  <1>1. 0 \in K /\ (\A a, b \in K : a + b \in K) /\ \A x \in S : f[x] \in K
    OBVIOUS
  <1> HIDE DEF K
  <1>2. \A s \in SUBSET S : Sums(f, S)[s] \in K
    BY <1>1, SumsStayIn
  <1>3. QED
    BY <1>2, SumIsOfSums DEF K

(* It does not matter which element is taken away.                         *)
LEMMA SumsTakeAny ==
    ASSUME NEW S, IsFiniteSet(S), NEW f, \A x \in S : f[x] \in Int
    PROVE  \A s \in SUBSET S : \A y \in s : Sums(f, S)[s] = f[y] + Sums(f, S)[s \ {y}]
  <1>0. SumLaw(f, S)
    BY SumsObeyTheLaw
  <1>a. 0 \in Int /\ \A a, b \in Int : a + b \in Int
    OBVIOUS
  <1>b. \A s \in SUBSET S : Sums(f, S)[s] \in Int
    BY <1>a, SumsStayIn
  <1> DEFINE Good(s) == \A y \in s : Sums(f, S)[s] = f[y] + Sums(f, S)[s \ {y}]
             B == {s \in SUBSET S : ~Good(s)}
  <1>1. B = {}
    <2> SUFFICES ASSUME B # {} PROVE FALSE
      OBVIOUS
    <2>1. PICK s \in B : \A x \in s : s \ {x} \notin B
      BY SmallestExists
    <2>2. PICK y \in s : Sums(f, S)[s] # f[y] + Sums(f, S)[s \ {y}]
      OBVIOUS
    <2> DEFINE a == Any(s)
    <2>3. a \in s /\ Sums(f, S)[s] = f[a] + Sums(f, S)[s \ {a}]
      BY <1>0, <2>2 DEF SumLaw
    <2> HIDE DEF a
    <2>4. a # y
      BY <2>2, <2>3
    <2>5. Good(s \ {a}) /\ Good(s \ {y})
      BY <2>1, <2>2, <2>3
    <2>6. /\ Sums(f, S)[s \ {a}] = f[y] + Sums(f, S)[(s \ {a}) \ {y}]
          /\ Sums(f, S)[s \ {y}] = f[a] + Sums(f, S)[(s \ {y}) \ {a}]
      BY <2>2, <2>3, <2>4, <2>5
    <2>7. (s \ {a}) \ {y} = (s \ {y}) \ {a}
      OBVIOUS
    <2>8. Sums(f, S)[(s \ {y}) \ {a}] \in Int /\ f[a] \in Int /\ f[y] \in Int
      <3>1. (s \ {y}) \ {a} \in SUBSET S
        OBVIOUS
      <3>2. QED
        BY <1>b, <2>2, <2>3, <3>1
    <2> DEFINE rest == Sums(f, S)[(s \ {y}) \ {a}]
    <2>9. /\ Sums(f, S)[s] = f[a] + (f[y] + rest)
          /\ f[y] + Sums(f, S)[s \ {y}] = f[y] + (f[a] + rest)
      BY <2>3, <2>6, <2>7
    <2> HIDE DEF rest
    <2>10. f[a] + (f[y] + rest) = f[y] + (f[a] + rest)
      BY <2>8 DEF rest
    <2>11. QED
      BY <2>2, <2>9, <2>10
  <1>2. QED
    BY <1>1

LEMMA SumTakesAny ==
    ASSUME NEW S, IsFiniteSet(S), NEW f, NEW x \in S, \A y \in S : f[y] \in Int
    PROVE  SumFunctionOnSet(f, S) = f[x] + SumFunctionOnSet(f, S \ {x})
  <1>1. Sums(f, S)[S] = f[x] + Sums(f, S)[S \ {x}]
    BY SumsTakeAny
  <1>2. IsFiniteSet(S \ {x}) /\ S \ {x} \in SUBSET (S \cap (S \ {x}))
    BY FS_Subset
  <1>3. Sums(f, S)[S \ {x}] = Sums(f, S \ {x})[S \ {x}]
    BY <1>2, SumsAgree
  <1>4. QED
    BY <1>1, <1>3, SumIsOfSums

LEMMA SameSum ==
    ASSUME NEW S, IsFiniteSet(S), NEW f, NEW g, \A x \in S : f[x] = g[x]
    PROVE  SumFunctionOnSet(f, S) = SumFunctionOnSet(g, S)
  <1>1. Sums(f, S)[S] = Sums(g, S)[S]
    <2>1. S \in SUBSET (S \cap S)
      OBVIOUS
    <2>2. QED
      BY <2>1, SumsAgree
  <1>2. QED
    BY <1>1, SumIsOfSums

(* Changing one summand changes the sum by as much.                        *)
LEMMA SumOfChange ==
    ASSUME NEW S, IsFiniteSet(S), NEW f, NEW g, NEW x \in S,
           \A y \in S : f[y] \in Int /\ g[y] \in Int,
           \A y \in S \ {x} : g[y] = f[y]
    PROVE  SumFunctionOnSet(g, S) = SumFunctionOnSet(f, S) - f[x] + g[x]
  <1>1. SumFunctionOnSet(f, S) = f[x] + SumFunctionOnSet(f, S \ {x})
    BY SumTakesAny
  <1>2. SumFunctionOnSet(g, S) = g[x] + SumFunctionOnSet(g, S \ {x})
    BY SumTakesAny
  <1>3. IsFiniteSet(S \ {x})
    BY FS_Subset
  <1>4. SumFunctionOnSet(g, S \ {x}) = SumFunctionOnSet(f, S \ {x})
    BY <1>3, SameSum
  <1>5. SumFunctionOnSet(f, S \ {x}) \in Int
    BY <1>3, SumType
  <1>6. f[x] \in Int /\ g[x] \in Int
    OBVIOUS
  <1>7. QED
    BY <1>1, <1>2, <1>4, <1>5, <1>6
=============================================================================
