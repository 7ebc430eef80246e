-------------------------- MODULE Sampling_proofs --------------------------
(***************************************************************************)
(* The arithmetic of Sampling for every length, limit and number of        *)
(* sources: what is kept of a series, what each source traces, and which   *)
(* rows a range has.                                                       *)
(***************************************************************************)
EXTENDS Sampling, Sequences, FiniteSetTheorems, TLAPS

LEMMA Division ==
  ASSUME NEW a \in Nat, NEW b \in Nat \ {0}
  PROVE  /\ a \div b \in Nat /\ a % b \in 0..(b - 1)
         /\ a = b * (a \div b) + (a % b)
OBVIOUS

LEMMA SmallerOfTwo ==
  ASSUME NEW a \in Nat, NEW b \in Nat
  PROVE  Smaller(a, b) \in Nat /\ Smaller(a, b) <= a /\ Smaller(a, b) <= b
BY DEF Smaller

\* A quotient is rounded by half of the divisor at most.
LEMMA RoundingError ==
  ASSUME NEW a \in Nat, NEW b \in Nat \ {0}
  PROVE  /\ RoundHalfEven(a, b) \in Nat
         /\ 2 * (b * RoundHalfEven(a, b)) <= 2 * a + b
         /\ 2 * a <= 2 * (b * RoundHalfEven(a, b)) + b
<1> DEFINE q == a \div b
           m == a % b
<1>1. q \in Nat /\ m \in 0..(b - 1) /\ a = b * q + m
  BY Division
<1>2. b * (q + 1) = b * q + b /\ b * q \in Nat
  BY <1>1
<1>3. \/ RoundHalfEven(a, b) = q /\ 2 * m <= b
      \/ RoundHalfEven(a, b) = q + 1 /\ 2 * m >= b
  BY <1>1 DEF RoundHalfEven
<1> HIDE DEF q, m
<1> QED BY <1>1, <1>2, <1>3

\* Quotients that are more than one apart are rounded to different numbers.
LEMMA RoundingSeparates ==
  ASSUME NEW a \in Nat, NEW c \in Nat, NEW b \in Nat \ {0}, c > a + b
  PROVE  RoundHalfEven(a, b) < RoundHalfEven(c, b)
<1> DEFINE r == RoundHalfEven(a, b)
           t == RoundHalfEven(c, b)
<1>1. /\ r \in Nat /\ 2 * (b * r) <= 2 * a + b
      /\ t \in Nat /\ 2 * c <= 2 * (b * t) + b
  BY RoundingError
<1> HIDE DEF r, t
<1>2. b * r < b * t
  BY <1>1
<1>3. ASSUME r >= t PROVE FALSE
  <2>1. PICK d \in Nat : r = t + d
    BY <1>1, <1>3
  <2>2. b * r = b * t + b * d /\ b * d >= 0
    BY <1>1, <2>1
  <2> QED BY <1>1, <1>2, <2>2
<1> QED BY <1>1, <1>3 DEF r, t

\* A number that is divided without remainder is not rounded.
LEMMA ExactQuotient ==
  ASSUME NEW k \in Nat, NEW b \in Nat \ {0}
  PROVE  RoundHalfEven(b * k, b) = k
<1> DEFINE r == RoundHalfEven(b * k, b)
<1>0. b * k \in Nat
  OBVIOUS
<1>1. r \in Nat /\ 2 * (b * r) <= 2 * (b * k) + b /\ 2 * (b * k) <= 2 * (b * r) + b
  BY <1>0, RoundingError
<1> HIDE DEF r
<1>2. ASSUME r > k PROVE FALSE
  <2>1. PICK d \in Nat : r = k + 1 + d
    BY <1>1, <1>2
  <2>2. b * r = b * k + b + b * d /\ b * d \in Nat
    BY <2>1
  <2> QED BY <1>0, <1>1, <2>2
<1>3. ASSUME r < k PROVE FALSE
  <2>1. PICK d \in Nat : k = r + 1 + d
    BY <1>1, <1>3
  <2>2. b * k = b * r + b + b * d /\ b * d \in Nat /\ b * r \in Nat
    BY <1>1, <2>1
  <2> QED BY <1>1, <2>2
<1> QED BY <1>1, <1>2, <1>3 DEF r

\* analysis_runner.py:373: of a series of any length, any number of points that is
\* asked for is kept at most, in order and without repetition, among them the first and,
\* if there is more than one, the last.
THEOREM SampleKeepsEnds ==
  ASSUME NEW length \in Nat, NEW limit \in Nat \ {0}
  PROVE  LET s == SampleIndices(length, limit)
         IN  /\ Len(s) \in Nat /\ DOMAIN s = 1..Len(s)
             /\ Len(s) <= limit
             /\ Len(s) > 0 => s[1] = 0
             /\ Len(s) > 1 => s[Len(s)] = length - 1
             /\ \A i, j \in DOMAIN s : i < j => s[i] < s[j]
<1> DEFINE s == SampleIndices(length, limit)
           b == limit - 1
           f(i) == (i - 1) * (length - 1)
<1>1. CASE length <= limit
  <2>1. s = [i \in 1..length |-> i - 1]
    BY <1>1 DEF SampleIndices
  <2> HIDE DEF s
  <2>2. Len(s) = length /\ DOMAIN s = 1..length
    BY <2>1
  <2>3. \A i \in 1..length : s[i] = i - 1
    BY <2>1
  <2>4. \A i, j \in 1..length : i < j => s[i] < s[j]
    BY <2>3
  <2> QED BY <1>1, <2>2, <2>3, <2>4 DEF s
<1>2. CASE length > limit /\ limit = 1
  <2>1. s = <<0>>
    BY <1>2 DEF SampleIndices
  <2> HIDE DEF s
  <2>2. Len(s) = 1 /\ DOMAIN s = 1..1 /\ s[1] = 0
    BY <2>1
  <2> QED BY <1>2, <2>2 DEF s
<1>3. CASE length > limit /\ limit > 1
  <2>1. s = [i \in 1..limit |-> RoundHalfEven(f(i), b)]
    BY <1>3 DEF SampleIndices
  <2>2. b \in Nat \ {0}
    BY <1>3
  <2>3. \A i \in 1..limit : f(i) \in Nat
    BY <1>3
  <2> HIDE DEF s
  <2>4. Len(s) = limit /\ DOMAIN s = 1..limit
    BY <2>1
  <2>5. \A i \in 1..limit : s[i] = RoundHalfEven(f(i), b)
    BY <2>1
  <2>6. s[1] = 0
    <3>1. f(1) = b * 0
      BY <1>3
    <3> QED BY <1>3, <2>2, <2>5, <3>1, ExactQuotient
  <2>7. s[limit] = length - 1
    <3>1. f(limit) = b * (length - 1) /\ limit \in 1..limit /\ length - 1 \in Nat
      BY <1>3
    <3> HIDE DEF f, b
    <3> QED BY <2>2, <2>5, <3>1, ExactQuotient
  <2>8. ASSUME NEW i \in 1..limit, NEW j \in 1..limit, i < j PROVE s[i] < s[j]
    <3>1. PICK d \in Nat : j = i + 1 + d
      BY <2>8
    <3>2. f(j) = f(i) + (length - 1) + d * (length - 1) /\ d * (length - 1) \in Nat
      BY <1>3, <3>1
    <3>3. f(j) > f(i) + b
      BY <1>3, <2>3, <3>2
    <3> HIDE DEF f, b
    <3> QED BY <2>2, <2>3, <2>5, <3>3, RoundingSeparates
  <2> QED BY <2>4, <2>6, <2>7, <2>8 DEF s
<1> QED BY <1>1, <1>2, <1>3

\* nsc.py:269: every source traces a ray, and all together no more than the limit, or
\* one each when there are more sources than that.
THEOREM ShareOfLimit ==
  ASSUME NEW limit \in Nat \ {0}, NEW sources \in Nat \ {0}
  PROVE  /\ PerSource(limit, sources) \in Nat \ {0}
         /\ sources * PerSource(limit, sources) <= Greater(limit, sources)
<1> DEFINE q == limit \div sources
<1>1. q \in Nat /\ sources * q <= limit
  BY Division
<1> HIDE DEF q
<1>2. PerSource(limit, sources) = Greater(1, q)
  BY DEF PerSource, q
<1> QED BY <1>1, <1>2 DEF Greater
-----------------------------------------------------------------------------
\* Induction, stated of a set of numbers and of a set of subsets.
LEMMA NatSetInduction ==
  ASSUME NEW K \in SUBSET Nat, 0 \in K, \A k \in K : k + 1 \in K
  PROVE  K = Nat
<1> DEFINE R == OpToRel(<, Nat)
           T == Nat \ K
<1> SUFFICES ASSUME T # {} PROVE FALSE
  OBVIOUS
<1>1. IsWellFoundedOn(R, Nat) /\ T \subseteq Nat
  BY NatLessThanWellFounded
<1>2. PICK m \in T : \A k \in T : ~(<<k, m>> \in R)
  <2> HIDE DEF R, T
  <2> QED BY <1>1, WFMin
<1>3. m - 1 \in Nat /\ m - 1 \notin K
  OBVIOUS
<1>4. <<m - 1, m>> \in R
  BY <1>3 DEF OpToRel
<1> QED BY <1>2, <1>3, <1>4

LEMMA SubsetInduction ==
  ASSUME NEW S, IsFiniteSet(S), NEW Good,
         \A T \in SUBSET S : (\A U \in SUBSET T : U # T => U \in Good) => T \in Good
  PROVE  \A T \in SUBSET S : T \in Good
<1> DEFINE R == StrictSubsetOrdering(S)
           Bad == {T \in SUBSET S : T \notin Good}
<1> SUFFICES ASSUME Bad # {} PROVE FALSE
  OBVIOUS
<1>1. IsWellFoundedOn(R, SUBSET S) /\ Bad \subseteq SUBSET S
  <2>1. IsWellFoundedOn(R, FiniteSubsetsOf(S))
    BY FS_StrictSubsetOrderingWellFounded
  <2>2. FiniteSubsetsOf(S) = SUBSET S
    BY FS_FiniteSubsetsOfFinite
  <2> HIDE DEF R
  <2> QED BY <2>1, <2>2
<1>2. PICK T \in Bad : \A U \in Bad : ~(<<U, T>> \in R)
  <2> HIDE DEF R, Bad
  <2> QED BY <1>1, WFMin
<1>3. \A U \in SUBSET T : U # T => <<U, T>> \in R
  BY DEF StrictSubsetOrdering
<1>4. \A U \in SUBSET T : U # T => U \in Good
  <2> SUFFICES ASSUME NEW U \in SUBSET T, U # T PROVE U \in Good
    OBVIOUS
  <2>1. <<U, T>> \in R
    BY <1>3
  <2> HIDE DEF R
  <2> QED BY <1>2, <2>1
<1> QED BY <1>4

-----------------------------------------------------------------------------
\* The fold by which SumFunction is defined, on the subsets of the domain of f.
First(s) == CHOOSE x \in s : TRUE
Sums(f) == CHOOSE it : it = [s \in SUBSET (DOMAIN f) |->
             IF s = {} THEN 0 ELSE f[First(s)] + it[s \ {First(s)}]]

LEMMA SumIsFold == \A f : SumFunction(f) = Sums(f)[DOMAIN f]
BY DEF SumFunction, SumFunctionOnSet, FoldFunctionOnSet, MapThenFoldSet, Sums, First

\* There is such a function: one on the subsets with k elements at most can be extended.
LEMMA SumsExist ==
  ASSUME NEW f, IsFiniteSet(DOMAIN f)
  PROVE  Sums(f) = [s \in SUBSET (DOMAIN f) |->
                      IF s = {} THEN 0 ELSE f[First(s)] + Sums(f)[s \ {First(s)}]]
<1> DEFINE S == DOMAIN f
           Upto(k) == {s \in SUBSET S : Cardinality(s) <= k}
           Next(g, s) == IF s = {} THEN 0 ELSE f[First(s)] + g[s \ {First(s)}]
           Has(g, k) == \A s \in Upto(k) : g[s] = Next(g, s)
           K == {k \in Nat : \E g : Has(g, k)}
<1>1. \A s \in SUBSET S : IsFiniteSet(s) /\ Cardinality(s) \in Nat /\ Cardinality(s) <= Cardinality(S)
  BY FS_Subset, FS_CardinalityType
<1>2. \A s \in SUBSET S : s # {} => /\ First(s) \in s
                                    /\ Cardinality(s \ {First(s)}) = Cardinality(s) - 1
  BY <1>1, FS_RemoveElement DEF First
<1>3. 0 \in K
  <2>1. \A s \in Upto(0) : s = {}
    BY <1>1, FS_EmptySet
  <2>2. Has([s \in {{}} |-> 0], 0)
    BY <2>1
  <2> QED BY <2>2
<1>4. ASSUME NEW k \in K PROVE k + 1 \in K
  <2>1. PICK g : Has(g, k)
    OBVIOUS
  <2> DEFINE h == [s \in SUBSET S |-> IF s \in Upto(k) THEN g[s] ELSE Next(g, s)]
  <2>2. \A s \in Upto(k + 1) : s # {} => s \ {First(s)} \in Upto(k)
    BY <1>1, <1>2
  <2>3. \A s \in Upto(k + 1) : h[s] = Next(g, s)
    BY <2>1
  <2>4. \A s \in Upto(k + 1) : Next(g, s) = Next(h, s)
    <3> TAKE s \in Upto(k + 1)
    <3>1. s # {} => h[s \ {First(s)}] = g[s \ {First(s)}]
      BY <2>2
    <3> HIDE DEF h
    <3> QED BY <3>1
  <2>5. Has(h, k + 1)
    BY <2>3, <2>4
  <2> HIDE DEF h, Has
  <2> QED BY <2>5
<1>5. K = Nat
  <2> HIDE DEF K
  <2>1. K \in SUBSET Nat
    BY DEF K
  <2> QED BY <1>3, <1>4, <2>1, NatSetInduction
<1>6. PICK g : Has(g, Cardinality(S))
  <2>1. Cardinality(S) \in Nat
    BY FS_CardinalityType
  <2> QED BY <1>5, <2>1
<1>7. Upto(Cardinality(S)) = SUBSET S
  BY <1>1
<1> DEFINE h == [s \in SUBSET S |-> g[s]]
<1>8. h = [s \in SUBSET S |-> Next(h, s)]
  <2>1. \A s \in SUBSET S : h[s] = Next(g, s)
    BY <1>6, <1>7
  <2>2. \A s \in SUBSET S : Next(g, s) = Next(h, s)
    <3> TAKE s \in SUBSET S
    <3>1. h[s \ {First(s)}] = g[s \ {First(s)}]
      OBVIOUS
    <3> HIDE DEF h
    <3> QED BY <3>1
  <2>3. h = [s \in SUBSET S |-> h[s]]
    OBVIOUS
  <2> HIDE DEF h, Next
  <2> QED BY <2>1, <2>2, <2>3
<1>9. \E it : it = [s \in SUBSET (DOMAIN f) |-> IF s = {} THEN 0 ELSE f[First(s)] + it[s \ {First(s)}]]
  <2> HIDE DEF h
  <2> QED BY <1>8
<1> QED BY <1>9 DEF Sums

LEMMA SumsOfNumbers ==
  ASSUME NEW S, IsFiniteSet(S), NEW f \in [S -> Nat]
  PROVE  /\ Sums(f)[{}] = 0
         /\ \A T \in SUBSET S :
              /\ Sums(f)[T] \in Nat
              /\ \A x \in T : Sums(f)[T] = f[x] + Sums(f)[T \ {x}]
<1> DEFINE sum == Sums(f)
           Good == {T \in SUBSET S : /\ sum[T] \in Nat
                                     /\ \A x \in T : sum[T] = f[x] + sum[T \ {x}]}
<1>1. \A T \in SUBSET S :
        sum[T] = IF T = {} THEN 0 ELSE f[First(T)] + sum[T \ {First(T)}]
  <2>1. sum = [s \in SUBSET S |-> IF s = {} THEN 0 ELSE f[First(s)] + sum[s \ {First(s)}]]
    BY SumsExist
  <2> HIDE DEF sum
  <2> QED BY <2>1
<1> HIDE DEF sum
<1>2. ASSUME NEW T \in SUBSET S, \A U \in SUBSET T : U # T => U \in Good PROVE T \in Good
  <2>1. CASE T = {}
    <3>1. sum[T] = 0
      BY <1>1, <2>1
    <3> QED BY <2>1, <3>1
  <2>2. CASE T # {}
    <3> DEFINE c == First(T)
               U == T \ {c}
    <3>1. c \in T /\ f[c] \in Nat
      BY <2>2 DEF First
    <3>2. sum[T] = f[c] + sum[U]
      BY <1>1, <2>2
    <3>3. U \in SUBSET T /\ U # T
      BY <3>1
    <3> HIDE DEF c
    <3>4. sum[U] \in Nat /\ \A x \in U : sum[U] = f[x] + sum[U \ {x}]
      BY <1>2, <3>3
    <3>5. ASSUME NEW x \in T PROVE sum[T] = f[x] + sum[T \ {x}]
      <4>1. CASE x = c
        BY <3>2, <4>1
      <4>2. CASE x # c
        <5>1. sum[U] = f[x] + sum[U \ {x}]
          BY <3>4, <4>2
        <5>2. T \ {x} \in Good /\ c \in T \ {x}
          BY <1>2, <3>1, <4>2
        <5>3. sum[T \ {x}] = f[c] + sum[(T \ {x}) \ {c}]
          BY <5>2
        <5>4. (T \ {x}) \ {c} = U \ {x} /\ U \ {x} \in Good
          <6>1. U \ {x} \in SUBSET T /\ U \ {x} # T
            BY <3>1
          <6> QED BY <1>2, <6>1
        <5>5. sum[U \ {x}] \in Nat /\ f[x] \in Nat /\ f[c] \in Nat
          BY <3>1, <5>4
        <5>6. sum[T \ {x}] = f[c] + sum[U \ {x}]
          BY <5>3, <5>4
        <5> HIDE DEF U, Good
        <5> QED BY <3>2, <5>1, <5>5, <5>6
      <4> QED BY <4>1, <4>2
    <3> QED BY <3>1, <3>2, <3>4, <3>5
  <2> QED BY <2>1, <2>2
<1>3. \A T \in SUBSET S : T \in Good
  <2> HIDE DEF Good
  <2> QED BY <1>2, SubsetInduction
<1> QED BY <1>1, <1>3 DEF sum

\* A sum depends only on the values that it adds up.
LEMMA SumsAgree ==
  ASSUME NEW S, IsFiniteSet(S), NEW f \in [S -> Nat], NEW R \in SUBSET S, NEW g \in [R -> Nat],
         \A x \in R : g[x] = f[x]
  PROVE  \A T \in SUBSET R : Sums(g)[T] = Sums(f)[T]
<1> DEFINE Good == {T \in SUBSET R : Sums(g)[T] = Sums(f)[T]}
<1>1. IsFiniteSet(R)
  BY FS_Subset
<1>2. ASSUME NEW T \in SUBSET R, \A U \in SUBSET T : U # T => U \in Good PROVE T \in Good
  <2>1. CASE T = {}
    <3>1. Sums(g)[{}] = 0 /\ Sums(f)[{}] = 0
      BY <1>1, SumsOfNumbers
    <3> QED BY <2>1, <3>1
  <2>2. CASE T # {}
    <3>1. PICK x \in T : TRUE
      BY <2>2
    <3>2. Sums(g)[T \ {x}] = Sums(f)[T \ {x}]
      BY <1>2, <3>1
    <3>3. \A y \in T : Sums(g)[T] = g[y] + Sums(g)[T \ {y}]
      BY <1>1, SumsOfNumbers
    <3>4. \A y \in T : Sums(f)[T] = f[y] + Sums(f)[T \ {y}]
      BY SumsOfNumbers
    <3> QED BY <3>1, <3>2, <3>3, <3>4
  <2> QED BY <2>1, <2>2
<1>3. \A T \in SUBSET R : T \in Good
  <2> HIDE DEF Good
  <2> QED BY <1>1, <1>2, SubsetInduction
<1> QED BY <1>3

\* What proofs need to know of sums: one value after the other may be taken out.
LEMMA SumOfRest ==
  ASSUME NEW S, IsFiniteSet(S), NEW f \in [S -> Nat]
  PROVE  /\ SumFunction(f) \in Nat
         /\ S = {} => SumFunction(f) = 0
         /\ \A x \in S : SumFunction(f) = f[x] + SumFunction([s \in S \ {x} |-> f[s]])
<1>1. SumFunction(f) = Sums(f)[S]
  BY SumIsFold
<1>2. ASSUME NEW x \in S PROVE SumFunction(f) = f[x] + SumFunction([s \in S \ {x} |-> f[s]])
  <2> DEFINE R == S \ {x}
             g == [s \in R |-> f[s]]
  <2>1. g \in [R -> Nat] /\ \A s \in R : g[s] = f[s]
    OBVIOUS
  <2>2. SumFunction(g) = Sums(g)[R]
    BY SumIsFold
  <2> HIDE DEF g
  <2>3. Sums(g)[R] = Sums(f)[R]
    BY <2>1, SumsAgree
  <2>4. Sums(f)[S] = f[x] + Sums(f)[R]
    BY SumsOfNumbers
  <2> QED BY <1>1, <2>2, <2>3, <2>4 DEF g
<1>3. Sums(f)[S] \in Nat /\ Sums(f)[{}] = 0
  BY SumsOfNumbers
<1> QED BY <1>1, <1>2, <1>3

LEMMA SumBounded ==
  ASSUME NEW S, IsFiniteSet(S), NEW f \in [S -> Nat], NEW m \in Nat, \A s \in S : f[s] <= m
  PROVE  SumFunction(f) <= m * Cardinality(S)
<1> DEFINE Good == {T \in SUBSET S : Sums(f)[T] <= m * Cardinality(T)}
<1>0. \A T \in SUBSET S : /\ Sums(f)[T] \in Nat
                          /\ \A x \in T : Sums(f)[T] = f[x] + Sums(f)[T \ {x}]
  BY SumsOfNumbers
<1>1. ASSUME NEW T \in SUBSET S, \A U \in SUBSET T : U # T => U \in Good PROVE T \in Good
  <2>0. IsFiniteSet(T) /\ Cardinality(T) \in Nat
    BY FS_Subset, FS_CardinalityType
  <2>1. CASE T = {}
    <3>1. Sums(f)[{}] = 0 /\ Cardinality({}) = 0 /\ m * 0 = 0
      BY SumsOfNumbers, FS_EmptySet
    <3> QED BY <2>1, <3>1
  <2>2. CASE T # {}
    <3>1. PICK x \in T : TRUE
      BY <2>2
    <3>2. Sums(f)[T] = f[x] + Sums(f)[T \ {x}] /\ Sums(f)[T \ {x}] \in Nat
      BY <1>0, <3>1
    <3>7. f[x] \in Nat /\ f[x] <= m
      BY <3>1
    <3>3. Sums(f)[T \ {x}] <= m * Cardinality(T \ {x})
      BY <1>1, <3>1
    <3>4. Cardinality(T \ {x}) = Cardinality(T) - 1
      BY <2>0, <3>1, FS_RemoveElement
    <3>5. m * Cardinality(T) = m * (Cardinality(T) - 1) + m
      BY <2>0
    <3>6. Sums(f)[T] <= m * Cardinality(T)
      <4> DEFINE a == Sums(f)[T \ {x}]
                 b == m * (Cardinality(T) - 1)
                 d == m * Cardinality(T)
      <4>1. a \in Nat /\ b \in Int /\ d = b + m /\ a <= b /\ d \in Int
        BY <2>0, <3>2, <3>3, <3>4, <3>5
      <4> HIDE DEF a, b, d
      <4>2. f[x] + a <= d
        BY <3>2, <3>7, <4>1
      <4> QED BY <3>2, <3>7, <4>2 DEF a, d
    <3> QED BY <3>6
  <2> QED BY <2>1, <2>2
<1>2. \A T \in SUBSET S : T \in Good
  <2> HIDE DEF Good
  <2> QED BY <1>1, SubsetInduction
<1> QED BY <1>2, SumIsFold
=============================================================================
