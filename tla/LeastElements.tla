---------------------------- MODULE LeastElements ----------------------------
(***************************************************************************)
(* Induction without a predicate as a parameter: a nonempty set has a      *)
(* least element.  A proof by induction that a set of counterexamples is   *)
(* empty takes the least one and refutes it.  After that, what the proofs  *)
(* of several components need of sums, products and quotients.             *)
(***************************************************************************)
EXTENDS Integers, FiniteSets, FiniteSetTheorems, TLAPS

LEMMA LeastNumber ==
  ASSUME NEW T, T \subseteq Nat, T # {}
  PROVE  \E n \in T : \A m \in T : n <= m
<1> DEFINE R == {ss \in Nat \X Nat : ss[1] < ss[2]}
<1>1. IsWellFoundedOn(R, Nat)
  BY NatLessThanWellFounded, Zenon DEF OpToRel
<1>2. PICK n \in T : \A m \in T : <<m, n>> \notin R
  BY <1>1, WFMin
<1>3. \A m \in T : ~(m < n)
  BY <1>2
<1>. QED
  BY <1>3

LEMMA GreatestNumber ==
  ASSUME NEW n \in Nat, NEW S, S \subseteq 0 .. n, S # {}
  PROVE  \E u \in S : \A v \in S : v <= u
<1> DEFINE T == {n - u : u \in S}
<1>1. T \subseteq Nat /\ T # {}
  <2>1. \A u \in S : n - u \in Nat
    OBVIOUS
  <2>. QED
    BY <2>1
<1>2. PICK m \in T : \A k \in T : m <= k
  <2>. HIDE DEF T
  <2>. QED
    BY <1>1, LeastNumber
<1>3. PICK u \in S : m = n - u
  OBVIOUS
<1>4. \A v \in S : m <= n - v
  BY <1>2
<1>. QED
  BY <1>3, <1>4

(* Among the subsets of a finite set that have some property, one has no    *)
(* proper subset that has it.                                               *)
LEMMA LeastSubset ==
  ASSUME NEW S, IsFiniteSet(S), NEW T, T \subseteq SUBSET S, T # {}
  PROVE  \E U \in T : \A V \in T : V \subseteq U => V = U
<1> DEFINE R == StrictSubsetOrdering(S)
<1>1. IsWellFoundedOn(R, SUBSET S)
  BY FS_StrictSubsetOrderingWellFounded, FS_FiniteSubsetsOfFinite
<1>2. PICK U \in T : \A V \in T : <<V, U>> \notin R
  BY <1>1, WFMin
<1>3. \A V \in T : ~(V \subseteq U /\ V # U)
  BY <1>2 DEF StrictSubsetOrdering
<1>. QED
  BY <1>3

-----------------------------------------------------------------------------
(* Sums over finite sets.  MapThenSumSet is a recursive function on the     *)
(* subsets of its set; SumStep is the body of the recursion.  The sum of f  *)
(* is the number of tokens: pairs of an element x and a number up to f[x].  *)

SumStep(f, S, h) ==
  [s \in SUBSET S |->
     IF s = {} THEN 0
     ELSE f[CHOOSE x \in s : TRUE] + h[s \ {CHOOSE x \in s : TRUE}]]

SumOf(f, S) == (CHOOSE h : h = SumStep(f, S, h))[S]

Tokens(f, m, s) == {q \in s \X (1 .. m) : q[2] <= f[q[1]]}

LEMMA TokensFinite ==
  ASSUME NEW s, IsFiniteSet(s), NEW m \in Nat, NEW f
  PROVE  IsFiniteSet(Tokens(f, m, s)) /\ Cardinality(Tokens(f, m, s)) \in Nat
<1>1. IsFiniteSet(s \X (1 .. m))
  <2>1. IsFiniteSet(1 .. m)
    BY FS_Interval
  <2>. QED
    BY <2>1, FS_Product
<1>2. Tokens(f, m, s) \in SUBSET (s \X (1 .. m))
  BY DEF Tokens
<1>. QED
  BY <1>1, <1>2, FS_Subset, FS_CardinalityType

LEMMA TokensOfOne ==
  ASSUME NEW t, NEW m \in Nat, NEW f, f[t] \in 0 .. m
  PROVE  Cardinality(Tokens(f, m, {t})) = f[t]
<1> DEFINE T == Tokens(f, m, {t})
           b == [k \in 1 .. f[t] |-> <<t, k>>]
<1>1. b \in [1 .. f[t] -> T]
  BY DEF Tokens
<1>2. \A k, l \in 1 .. f[t] : b[k] = b[l] => k = l
  OBVIOUS
<1>3. \A q \in T : \E k \in 1 .. f[t] : b[k] = q
  BY DEF Tokens
<1>. HIDE DEF b, T
<1>4. b \in Bijection(1 .. f[t], T)
  BY <1>1, <1>2, <1>3, Zenon DEF Bijection, Injection, Surjection, IsInjective
<1>5. ExistsBijection(1 .. f[t], T)
  BY <1>4 DEF ExistsBijection
<1>6. f[t] \in Nat
  OBVIOUS
<1>. QED
  BY <1>5, <1>6, FS_CountingElements DEF T

LEMMA TokensWithout ==
  ASSUME NEW S, IsFiniteSet(S), NEW m \in Nat, NEW f \in [S -> 0 .. m],
         NEW s \in SUBSET S, NEW t \in s
  PROVE  Cardinality(Tokens(f, m, s)) = f[t] + Cardinality(Tokens(f, m, s \ {t}))
<1> DEFINE A == Tokens(f, m, {t})
           B == Tokens(f, m, s \ {t})
<1>1. Tokens(f, m, s) = A \cup B /\ A \cap B = {}
  BY DEF Tokens
<1>2. IsFiniteSet(A) /\ IsFiniteSet(B) /\ Cardinality(B) \in Nat
  <2>1. IsFiniteSet(s) /\ IsFiniteSet({t})
    BY FS_Subset, FS_Singleton
  <2>2. IsFiniteSet(s \ {t})
    BY <2>1, FS_Difference
  <2>. QED
    BY <2>1, <2>2, TokensFinite
<1>3. Cardinality(A) = f[t] /\ f[t] \in Nat
  BY TokensOfOne
<1>. HIDE DEF A, B
<1>4. Cardinality(A \cup B) = Cardinality(A) + Cardinality(B) - Cardinality(A \cap B)
  BY <1>2, FS_Union
<1>5. Cardinality(A \cap B) = 0
  BY <1>1, FS_EmptySet, Zenon
<1>6. Cardinality(A \cup B) = f[t] + Cardinality(B)
  BY <1>2, <1>3, <1>4, <1>5
<1>. QED
  BY <1>1, <1>6 DEF B

LEMMA SumIsTokenNumber ==
  ASSUME NEW S, IsFiniteSet(S), NEW m \in Nat, NEW f \in [S -> 0 .. m]
  PROVE  SumOf(f, S) = Cardinality(Tokens(f, m, S))
<1> DEFINE g == [s \in SUBSET S |-> Cardinality(Tokens(f, m, s))]
<1>1. ASSUME NEW s \in SUBSET S, s # {}
      PROVE  /\ (CHOOSE x \in s : TRUE) \in s
             /\ s \ {CHOOSE x \in s : TRUE} \in SUBSET S
             /\ g[s] = f[CHOOSE x \in s : TRUE] + g[s \ {CHOOSE x \in s : TRUE}]
  <2>1. PICK y : y \in s
    BY <1>1
  <2> DEFINE c == CHOOSE x \in s : TRUE
  <2>2. c \in s
    BY <2>1
  <2>. HIDE DEF c
  <2>3. s \ {c} \in SUBSET S
    OBVIOUS
  <2>4. Cardinality(Tokens(f, m, s)) = f[c] + Cardinality(Tokens(f, m, s \ {c}))
    BY <2>2, TokensWithout
  <2>5. g[s] = f[c] + g[s \ {c}]
    BY <2>3, <2>4
  <2>. QED
    BY <2>2, <2>3, <2>5 DEF c
<1>2. Tokens(f, m, {}) = {} /\ Cardinality({}) = 0
  BY FS_EmptySet DEF Tokens
<1>3. g = SumStep(f, S, g)
  BY <1>1, <1>2 DEF SumStep
<1>4. ASSUME NEW h, h = SumStep(f, S, h) PROVE h = g
  <2> DEFINE T == {s \in SUBSET S : h[s] # g[s]}
  <2>1. \A s \in SUBSET S :
          h[s] = IF s = {} THEN 0
                 ELSE f[CHOOSE x \in s : TRUE] + h[s \ {CHOOSE x \in s : TRUE}]
    BY <1>4 DEF SumStep
  <2>2. T = {}
    <3> SUFFICES ASSUME T # {} PROVE FALSE
      OBVIOUS
    <3>1. PICK U \in T : \A V \in T : V \subseteq U => V = U
      <4>1. T \subseteq SUBSET S
        OBVIOUS
      <4>. HIDE DEF T
      <4>. QED
        BY <4>1, LeastSubset
    <3>2. U # {}
      BY <1>2, <2>1
    <3> DEFINE x == CHOOSE x \in U : TRUE
    <3>3. x \in U /\ U \ {x} \in SUBSET S /\ g[U] = f[x] + g[U \ {x}]
      BY <3>2, <1>1
    <3>4. U \ {x} \notin T
      BY <3>1, <3>3
    <3>5. h[U] = f[x] + h[U \ {x}]
      BY <2>1, <3>2
    <3>. QED
      BY <3>3, <3>4, <3>5
  <2>3. DOMAIN h = SUBSET S /\ h = [s \in SUBSET S |-> h[s]]
    BY <1>4 DEF SumStep
  <2>. QED
    BY <2>2, <2>3
<1>5. g[S] = Cardinality(Tokens(f, m, S))
  OBVIOUS
<1>. HIDE DEF g
<1>6. (CHOOSE h : h = SumStep(f, S, h)) = g
  BY <1>3, <1>4
<1>. QED
  BY <1>5, <1>6 DEF SumOf

LEMMA SumAtLeast ==
  ASSUME NEW S, IsFiniteSet(S), NEW m \in Nat, NEW f \in [S -> 0 .. m], NEW t \in S
  PROVE  SumOf(f, S) \in Nat /\ f[t] <= SumOf(f, S)
<1>1. IsFiniteSet(S \ {t})
  BY FS_Difference
<1>2. /\ Cardinality(Tokens(f, m, S)) \in Nat
      /\ Cardinality(Tokens(f, m, S \ {t})) \in Nat
  BY <1>1, TokensFinite
<1>3. Cardinality(Tokens(f, m, S)) = f[t] + Cardinality(Tokens(f, m, S \ {t}))
  BY TokensWithout
<1>4. f[t] \in Nat
  OBVIOUS
<1>. QED
  BY <1>2, <1>3, <1>4, SumIsTokenNumber

-----------------------------------------------------------------------------
(* Products and quotients of natural numbers.                               *)

LEMMA Products ==
  /\ \A x, y \in Nat : x * y \in Nat
  /\ \A x, y, z \in Nat : x <= y => x * z <= y * z
  /\ \A x, y \in Nat : \A z \in Nat \ {0} : x < y => x * z < y * z
<1>1. \A x, y \in Nat : x * y \in Nat
  OBVIOUS
<1>2. ASSUME NEW x \in Nat, NEW y \in Nat, NEW z \in Nat, x <= y
      PROVE  x * z <= y * z
  <2>1. (y - x) * z \in Nat
    BY <1>1, <1>2
  <2>2. (y - x) * z = y * z - x * z
    OBVIOUS
  <2>. QED
    BY <1>1, <2>1, <2>2
<1>3. ASSUME NEW x \in Nat, NEW y \in Nat, NEW z \in Nat \ {0}, x < y
      PROVE  x * z < y * z
  <2>1. (y - x - 1) * z \in Nat
    BY <1>1, <1>3
  <2>2. (y - x - 1) * z = y * z - x * z - z
    OBVIOUS
  <2>. QED
    BY <1>1, <2>1, <2>2
<1>. QED
  BY <1>1, <1>2, <1>3

LEMMA QuotientOf ==
  ASSUME NEW s \in Nat, NEW w \in Nat \ {0}
  PROVE  s \div w \in Nat /\ w * (s \div w) <= s /\ s < w * (s \div w) + w
<1>1. s \div w \in Nat
  OBVIOUS
<1>2. w * (s \div w) <= s /\ s < w * (s \div w) + w
  BY SMTT(30)
<1>. QED
  BY <1>1, <1>2

(* The quotient is the one number with these bounds.                        *)
LEMMA QuotientIs ==
  ASSUME NEW s \in Nat, NEW w \in Nat \ {0}, NEW k \in Nat, k * w <= s, s < k * w + w
  PROVE  s \div w = k
<1> DEFINE p == s \div w
<1>1. p \in Nat /\ p * w <= s /\ s < p * w + w
  <2>1. w * p = p * w
    OBVIOUS
  <2>. QED
    BY <2>1, QuotientOf
<1>. HIDE DEF p
<1>2. p * w \in Nat /\ k * w \in Nat
  BY <1>1, Products
<1>3. CASE p < k
  <2>1. p + 1 <= k /\ p + 1 \in Nat
    BY <1>1, <1>3
  <2>2. (p + 1) * w <= k * w
    BY <2>1, Products
  <2>3. (p + 1) * w = p * w + w
    BY <1>1
  <2>. QED
    BY <1>1, <1>2, <2>2, <2>3
<1>4. CASE k < p
  <2>1. k + 1 <= p /\ k + 1 \in Nat
    BY <1>1, <1>4
  <2>2. (k + 1) * w <= p * w
    BY <1>1, <2>1, Products
  <2>3. (k + 1) * w = k * w + w
    OBVIOUS
  <2>. QED
    BY <1>1, <1>2, <2>2, <2>3
<1>. QED
  BY <1>1, <1>3, <1>4 DEF p
=============================================================================
