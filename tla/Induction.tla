----------------------------- MODULE Induction -----------------------------
(***************************************************************************)
(* What the proofs need of the natural numbers: a set of them has a least  *)
(* element and, if bounded, a greatest; induction, for what a set of       *)
(* numbers can express; the ranks of an order on a finite set; and that a  *)
(* fold from the left is what it comes to step by step.                    *)
(***************************************************************************)
EXTENDS Integers, FiniteSetsExt, WellFoundedInduction, FiniteSetTheorems, FunctionTheorems, TLAPS

\* The two orders of the numbers, as relations.
Below == {p \in Nat \X Nat : p[1] < p[2]}
Beyond == {p \in Nat \X Nat : p[1] > p[2]}

\* A set of numbers has a least one.
LEMMA LeastNat ==
  ASSUME NEW T, T \subseteq Nat, T # {}
  PROVE  \E x \in T : \A y \in T : x <= y
<1>1. IsWellFoundedOn(Below, Nat)
  BY NatLessThanWellFounded DEF OpToRel, Below
<1>2. PICK x \in T : \A y \in T : ~(<<y, x>> \in Below)
  BY <1>1, WFMin
<1>3. ASSUME NEW y \in T PROVE x <= y
  <2>1. <<y, x>> \in Nat \X Nat /\ <<y, x>>[1] = y /\ <<y, x>>[2] = x
    OBVIOUS
  <2>2. ~(y < x)
    BY <1>2, <2>1 DEF Below
  <2> QED  BY <2>2
<1> QED  BY <1>3

\* Induction, for what a set of numbers expresses.
LEMMA NatsByInduction ==
  ASSUME NEW T, T \subseteq Nat, 0 \in T, \A n \in T : n + 1 \in T
  PROVE  T = Nat
<1>1. SUFFICES ASSUME Nat \ T # {} PROVE FALSE
  OBVIOUS
<1>2. PICK x \in Nat \ T : \A y \in Nat \ T : x <= y
  BY <1>1, LeastNat
<1>3. x - 1 \in Nat /\ ~(x <= x - 1)
  BY <1>2
<1>4. x - 1 \in T
  BY <1>2, <1>3
<1> QED  BY <1>2, <1>3, <1>4

\* The greatest number of a set, where there is one.
LEMMA GreatestNat ==
  ASSUME NEW S, S \subseteq Nat, S # {}, NEW b \in Nat, \A x \in S : x <= b
  PROVE  Max(S) \in S /\ \A x \in S : x <= Max(S)
<1> DEFINE T == {x \in Nat : \A y \in S : y <= x}
<1>1. T \subseteq Nat /\ T # {}
  OBVIOUS
<1>2. PICK t \in T : \A x \in T : t <= x
  <2> HIDE DEF T
  <2> QED  BY <1>1, LeastNat
<1>3. t \in S
  <2>1. SUFFICES ASSUME t \notin S PROVE FALSE
    OBVIOUS
  <2>2. PICK s \in S : s < t
    <3>1. PICK s \in S : s \in Nat
      OBVIOUS
    <3>2. t \in Nat /\ s <= t /\ s # t
      BY <1>2, <2>1, <3>1
    <3> QED  BY <3>1, <3>2
  <2>3. t - 1 \in Nat /\ ~(t <= t - 1)
    BY <1>2, <2>2
  <2>4. ASSUME NEW y \in S PROVE y <= t - 1
    <3>1. y \in Nat /\ t \in Nat /\ y <= t /\ y # t
      BY <1>2, <2>1
    <3> QED  BY <3>1
  <2>5. t - 1 \in T
    BY <2>3, <2>4
  <2> QED  BY <1>2, <2>3, <2>5
<1>4. \E x \in S : \A y \in S : x >= y
  BY <1>2, <1>3
<1>5. Max(S) \in S /\ \A y \in S : Max(S) >= y
  BY <1>4 DEF Max
<1> QED  BY <1>5

\* There are n numbers up to n.
LEMMA CountTo ==
  ASSUME NEW n \in Nat
  PROVE  IsFiniteSet(1 .. n) /\ Cardinality(1 .. n) = n
<1>1. 1 \in Int /\ n \in Int
  OBVIOUS
<1>2. IsFiniteSet(1 .. n) /\ Cardinality(1 .. n) = IF 1 > n THEN 0 ELSE n - 1 + 1
  BY <1>1, FS_Interval
<1> QED  BY <1>2

\* Whoever numbers the members of S from 1 to n, each once, has counted them.
LEMMA CountedOnce ==
  ASSUME NEW n \in Nat, NEW S, NEW f \in [1 .. n -> S],
         \A i, j \in 1 .. n : f[i] = f[j] => i = j, \A x \in S : \E i \in 1 .. n : f[i] = x
  PROVE  IsFiniteSet(S) /\ Cardinality(S) = n
<1>1. f \in Bijection(1 .. n, S)
  BY Fun_IsBij
<1>2. ExistsBijection(1 .. n, S)
  BY <1>1 DEF ExistsBijection
<1> QED  BY <1>2, CountTo, FS_Bijection

-----------------------------------------------------------------------------
\* The members of T that the order R puts before x.
Before(T, R, x) == {y \in T : <<y, x>> \in R}

\* R orders the members of T one after the other.
LinearOn(R, T) ==
  /\ \A x, y \in T : <<x, y>> \in R => <<y, x>> \notin R
  /\ \A x, y \in T : x # y => <<x, y>> \in R \/ <<y, x>> \in R
  /\ \A x, y, z \in T : <<x, y>> \in R /\ <<y, z>> \in R => <<x, z>> \in R

\* Each rank below the size of T is taken by exactly one member.
Ranked(T, R) ==
  /\ Cardinality(T) \in Nat
  /\ \A x \in T : Cardinality(Before(T, R, x)) \in 0 .. Cardinality(T) - 1
  /\ \A x, y \in T : <<x, y>> \in R => Cardinality(Before(T, R, x)) < Cardinality(Before(T, R, y))
  /\ \A x, y \in T : Cardinality(Before(T, R, x)) = Cardinality(Before(T, R, y)) => x = y
  /\ \A r \in 0 .. Cardinality(T) - 1 : \E x \in T : Cardinality(Before(T, R, x)) = r

\* In an ordered finite set each rank below its size is taken by exactly one
\* member.
LEMMA RankIsExact ==
  ASSUME NEW T, IsFiniteSet(T), NEW R, LinearOn(R, T)
  PROVE  Ranked(T, R)
<1> DEFINE n == Cardinality(T)
           rank(x) == Cardinality(Before(T, R, x))
<1>1. n \in Nat
  BY FS_CardinalityType
<1>2. ASSUME NEW x \in T PROVE IsFiniteSet(Before(T, R, x)) /\ rank(x) \in 0 .. n - 1
  <2>1. Before(T, R, x) \in SUBSET T /\ Before(T, R, x) # T
    BY DEF Before, LinearOn
  <2>2. IsFiniteSet(Before(T, R, x)) /\ rank(x) <= n /\ rank(x) # n
    BY <2>1, FS_Subset
  <2>3. rank(x) \in Nat
    BY <2>2, FS_CardinalityType
  <2> HIDE DEF rank, n
  <2> QED  BY <1>1, <2>2, <2>3
<1>3. ASSUME NEW x \in T, NEW y \in T, <<x, y>> \in R PROVE rank(x) < rank(y)
  <2>1. Before(T, R, x) \in SUBSET Before(T, R, y) /\ x \in Before(T, R, y) /\ x \notin Before(T, R, x)
    BY <1>3 DEF Before, LinearOn
  <2>2. Before(T, R, x) # Before(T, R, y) /\ IsFiniteSet(Before(T, R, y))
    BY <1>2, <2>1
  <2>3. rank(x) <= rank(y) /\ rank(x) # rank(y)
    BY <2>1, <2>2, FS_Subset
  <2>4. rank(x) \in Nat /\ rank(y) \in Nat
    BY <1>1, <1>2
  <2> HIDE DEF rank
  <2> QED  BY <2>3, <2>4
<1>4. ASSUME NEW x \in T, NEW y \in T, rank(x) = rank(y) PROVE x = y
  <2>1. rank(x) \in Nat /\ rank(y) \in Nat
    BY <1>1, <1>2
  <2>2. ~(rank(x) < rank(y)) /\ ~(rank(y) < rank(x))
    <3> HIDE DEF rank
    <3> QED  BY <1>4, <2>1
  <2> QED  BY <1>3, <2>2 DEF LinearOn
<1> DEFINE f == [x \in T |-> rank(x)]
           I == 0 .. n - 1
<1>5. IsFiniteSet(I) /\ Cardinality(I) = n
  <2> HIDE DEF n
  <2>1. 0 \in Int /\ n - 1 \in Int
    BY <1>1
  <2>2. IsFiniteSet(0 .. n - 1) /\ Cardinality(0 .. n - 1) = IF 0 > n - 1 THEN 0 ELSE n - 1 - 0 + 1
    BY <2>1, FS_Interval
  <2> QED  BY <1>1, <2>2
<1>6. f \in [T -> I] /\ \A x, y \in T : f[x] = f[y] => x = y
  <2> HIDE DEF rank, I
  <2>1. \A x \in T : rank(x) \in I
    BY <1>2 DEF I
  <2>2. \A x, y \in T : rank(x) = rank(y) => x = y
    BY <1>4
  <2> QED  BY <2>1, <2>2
<1>7. f \in Injection(T, I)
  <2> HIDE DEF f, I
  <2> QED  BY <1>6, Fun_IsInj
<1>8. f \in Surjection(T, I)
  <2> HIDE DEF f, I
  <2> QED  BY <1>5, <1>7, FS_Injection DEF n
<1>9. \A r \in I : \E x \in T : f[x] = r
  <2> HIDE DEF f, I
  <2> QED  BY <1>8, Fun_SurjectionProperties
<1> QED  BY <1>1, <1>2, <1>3, <1>4, <1>9 DEF Ranked

\* The members of T below and above x.
Under(T, x) == {y \in T : y < x}
Above(T, x) == {y \in T : y > x}

\* The rank of a number in a finite set, from below and from above.
LEMMA NumbersAreRanked ==
  ASSUME NEW T, T \subseteq Nat, IsFiniteSet(T)
  PROVE  /\ Cardinality(T) \in Nat
         /\ \A x \in T : /\ Cardinality(Under(T, x)) \in 0 .. Cardinality(T) - 1
                         /\ Cardinality(Above(T, x)) \in 0 .. Cardinality(T) - 1
         /\ \A x, y \in T : x < y => Cardinality(Under(T, x)) < Cardinality(Under(T, y))
         /\ \A x, y \in T : Cardinality(Above(T, x)) = Cardinality(Above(T, y)) => x = y
         /\ \A r \in 0 .. Cardinality(T) - 1 : /\ \E x \in T : Cardinality(Under(T, x)) = r
                                               /\ \E x \in T : Cardinality(Above(T, x)) = r
<1>1. \A x, y \in T : x \in Nat /\ y \in Nat /\ <<x, y>> \in Nat \X Nat /\ <<x, y>>[1] = x /\ <<x, y>>[2] = y
  OBVIOUS
<1>2. \A x, y \in T : (<<x, y>> \in Below <=> x < y) /\ (<<x, y>> \in Beyond <=> x > y)
  BY <1>1 DEF Below, Beyond
<1>3. LinearOn(Below, T) /\ LinearOn(Beyond, T)
  <2>1. \A x, y, z \in T : /\ ~(x < y /\ y < x) /\ (x # y => x < y \/ y < x)
                           /\ (x < y /\ y < z => x < z)
    BY <1>1
  <2>2. LinearOn(Below, T)
    BY <1>2, <2>1 DEF LinearOn
  <2>3. LinearOn(Beyond, T)
    <3>1. \A x, y \in T : x > y <=> y < x
      BY <1>1
    <3> QED  BY <1>2, <2>1, <3>1 DEF LinearOn
  <2> QED  BY <2>2, <2>3
<1>4. \A x \in T : Before(T, Below, x) = Under(T, x) /\ Before(T, Beyond, x) = Above(T, x)
  BY <1>2 DEF Before, Under, Above
<1>5. Ranked(T, Below) /\ Ranked(T, Beyond)
  BY <1>3, RankIsExact
<1>6. /\ Cardinality(T) \in Nat
      /\ \A x \in T : Cardinality(Under(T, x)) \in 0 .. Cardinality(T) - 1
      /\ \A x, y \in T : x < y => Cardinality(Under(T, x)) < Cardinality(Under(T, y))
      /\ \A r \in 0 .. Cardinality(T) - 1 : \E x \in T : Cardinality(Under(T, x)) = r
  <2>1. \A x \in T : Cardinality(Before(T, Below, x)) = Cardinality(Under(T, x))
    BY <1>4
  <2>2. \A x, y \in T : x < y => Cardinality(Before(T, Below, x)) < Cardinality(Before(T, Below, y))
    BY <1>2, <1>5 DEF Ranked
  <2> QED  BY <1>5, <2>1, <2>2 DEF Ranked
<1>7. /\ \A x \in T : Cardinality(Above(T, x)) \in 0 .. Cardinality(T) - 1
      /\ \A x, y \in T : Cardinality(Above(T, x)) = Cardinality(Above(T, y)) => x = y
      /\ \A r \in 0 .. Cardinality(T) - 1 : \E x \in T : Cardinality(Above(T, x)) = r
  <2>1. \A x \in T : Cardinality(Before(T, Beyond, x)) = Cardinality(Above(T, x))
    BY <1>4
  <2> QED  BY <1>5, <2>1 DEF Ranked
<1> QED  BY <1>6, <1>7

-----------------------------------------------------------------------------
(* Folds from the left, as FoldLeft of the community modules writes them.   *)

\* The last number of an interval.
LEMMA TopOfInterval ==
  ASSUME NEW n \in Nat, NEW m \in 1 .. n
  PROVE  /\ 1 .. m \in SUBSET (1 .. n) /\ 1 .. m # {}
         /\ Max(1 .. m) = m /\ (1 .. m) \ {m} = 1 .. m - 1
<1>1. \A x \in 1 .. m : x \in 1 .. n
  OBVIOUS
<1>2. m \in 1 .. m
  OBVIOUS
<1>3. \A x \in 1 .. m : (\A y \in 1 .. m : x >= y) <=> x = m
  OBVIOUS
<1>4. Max(1 .. m) = m
  BY <1>3 DEF Max
<1>5. (1 .. m) \ {m} = 1 .. m - 1
  OBVIOUS
<1> QED  BY <1>1, <1>2, <1>4, <1>5

\* What a nonempty part of an interval ends with, and the rest.
LEMMA TopOfPart ==
  ASSUME NEW n \in Nat, NEW S \in SUBSET (1 .. n), S # {}
  PROVE  Max(S) \in 1 .. n /\ S \ {Max(S)} \in SUBSET (1 .. n)
<1>1. S \subseteq Nat /\ \A x \in S : x <= n
  OBVIOUS
<1>2. Max(S) \in S
  BY <1>1, GreatestNat
<1> QED  BY <1>2

\* f is a run of the fold of s with op from the left, as the community modules
\* define it.
FoldRun(f, op, b, s, D) ==
  \A S \in SUBSET D : f[S] = IF S = {} THEN b ELSE op[<<f[S \ {Max(S)}], s[Max(S)]>>]

\* The recursion of a fold from the left has a solution, of the type of what
\* it folds to.
LEMMA RunsExist ==
  ASSUME NEW A, NEW V, NEW op \in [A \X V -> A], NEW b \in A, NEW n \in Nat, NEW s \in [1 .. n -> V]
  PROVE  \E f \in [SUBSET (1 .. n) -> A] : FoldRun(f, op, b, s, 1 .. n)
<1> DEFINE Solves(f, m) == \A S \in SUBSET (1 .. m) : f[S] = IF S = {} THEN b ELSE op[<<f[S \ {Max(S)}], s[Max(S)]>>]
           Solved(m) == \E f \in [SUBSET (1 .. m) -> A] : Solves(f, m)
           T == {m \in Nat : m <= n => Solved(m)}
<1>1. 0 \in T
  <2>1. 1 .. 0 = {}
    OBVIOUS
  <2> DEFINE f == [S \in SUBSET {} |-> b]
  <2>2. f \in [SUBSET {} -> A] /\ \A S \in SUBSET {} : S = {} /\ f[S] = b
    OBVIOUS
  <2>3. f \in [SUBSET (1 .. 0) -> A] /\ Solves(f, 0)
    <3> HIDE DEF f
    <3> QED  BY <2>1, <2>2
  <2> HIDE DEF f, Solves
  <2> QED  BY <2>3
<1>2. ASSUME NEW m \in T PROVE m + 1 \in T
  <2>1. SUFFICES ASSUME m + 1 <= n PROVE Solved(m + 1)
    <3> HIDE DEF Solved
    <3> QED  OBVIOUS
  <2>2. m \in Nat /\ m <= n /\ m + 1 \in 1 .. n /\ Solved(m)
    <3> HIDE DEF Solved
    <3> QED  BY <2>1
  <2>3. PICK f \in [SUBSET (1 .. m) -> A] : Solves(f, m)
    <3> HIDE DEF Solves
    <3> QED  BY <2>2
  <2> DEFINE g == [S \in SUBSET (1 .. m + 1) |->
                     IF m + 1 \in S THEN op[<<f[S \ {m + 1}], s[m + 1]>>] ELSE f[S]]
  <2>4. ASSUME NEW S \in SUBSET (1 .. m + 1), m + 1 \notin S PROVE S \in SUBSET (1 .. m)
    <3>1. ASSUME NEW x \in S PROVE x \in 1 .. m
      <4>1. x \in 1 .. m + 1 /\ x # m + 1
        BY <2>4
      <4> QED  BY <2>2, <4>1
    <3> QED  BY <3>1
  <2>5. \A S \in SUBSET (1 .. m) : m + 1 \notin S /\ S \in SUBSET (1 .. m + 1) /\ g[S] = f[S]
    BY <2>2
  <2>6. g \in [SUBSET (1 .. m + 1) -> A]
    <3>1. ASSUME NEW S \in SUBSET (1 .. m + 1) PROVE g[S] \in A
      <4>1. S \ {m + 1} \in SUBSET (1 .. m)
        BY <2>4
      <4>2. f[S \ {m + 1}] \in A /\ s[m + 1] \in V
        BY <2>2, <4>1
      <4>3. op[<<f[S \ {m + 1}], s[m + 1]>>] \in A
        BY <4>2
      <4> QED  BY <2>4, <4>3
    <3>2. g = [S \in SUBSET (1 .. m + 1) |-> g[S]]
      OBVIOUS
    <3> HIDE DEF g
    <3> QED  BY <3>1, <3>2
  <2>7. ASSUME NEW S \in SUBSET (1 .. m + 1)
        PROVE  g[S] = IF S = {} THEN b ELSE op[<<g[S \ {Max(S)}], s[Max(S)]>>]
    <3>1. CASE m + 1 \in S
      <4>1. Max(S) = m + 1
        <5>1. \A x \in S : (\A y \in S : x >= y) <=> x = m + 1
          BY <2>2, <3>1
        <5> QED  BY <3>1, <5>1 DEF Max
      <4>2. S \ {m + 1} \in SUBSET (1 .. m)
        BY <2>4
      <4>3. g[S] = op[<<f[S \ {m + 1}], s[m + 1]>>]
        BY <3>1
      <4>4. g[S \ {m + 1}] = f[S \ {m + 1}]
        BY <2>5, <4>2
      <4> HIDE DEF g
      <4> QED  BY <3>1, <4>1, <4>3, <4>4
    <3>2. CASE m + 1 \notin S
      <4>1. S \in SUBSET (1 .. m) /\ S \ {Max(S)} \in SUBSET (1 .. m)
        BY <2>4, <3>2
      <4>2. f[S] = IF S = {} THEN b ELSE op[<<f[S \ {Max(S)}], s[Max(S)]>>]
        BY <2>3, <4>1
      <4>3. g[S] = f[S] /\ g[S \ {Max(S)}] = f[S \ {Max(S)}]
        BY <2>5, <4>1
      <4> HIDE DEF g
      <4> QED  BY <4>2, <4>3
    <3> QED  BY <3>1, <3>2
  <2>8. Solves(g, m + 1)
    <3> HIDE DEF g
    <3> QED  BY <2>7
  <2> HIDE DEF g, Solves
  <2> QED  BY <2>6, <2>8
<1>3. T = Nat
  <2> HIDE DEF T
  <2>1. T \subseteq Nat
    BY DEF T
  <2> QED  BY <1>1, <1>2, <2>1, NatsByInduction
<1>4. Solved(n)
  <2> HIDE DEF Solved
  <2> QED  BY <1>3
<1> QED  BY <1>4 DEF FoldRun

\* Induction up to a number.
LEMMA UpTo ==
  ASSUME NEW n \in Nat, NEW T, 0 \in T, \A m \in 0 .. n - 1 : m \in T => m + 1 \in T
  PROVE  \A m \in 0 .. n : m \in T
<1> DEFINE U == {m \in Nat : m <= n => m \in T}
<1>1. 0 \in U
  OBVIOUS
<1>2. ASSUME NEW m \in U PROVE m + 1 \in U
  <2>1. SUFFICES ASSUME m + 1 <= n PROVE m + 1 \in T
    OBVIOUS
  <2>2. m \in 0 .. n - 1 /\ m \in T
    BY <2>1
  <2> QED  BY <2>2
<1>3. U = Nat
  <2> HIDE DEF U
  <2>1. U \subseteq Nat
    BY DEF U
  <2> QED  BY <1>1, <1>2, <2>1, NatsByInduction
<1> QED  BY <1>3

\* A fold from the left: the value after each prefix, the last being the whole.
Stepwise(g, op, b, s, n) == g[0] = b /\ \A m \in 0 .. n - 1 : g[m + 1] = op[<<g[m], s[m + 1]>>]

FoldedBy(h, g, A, op, b, s, n) ==
  /\ h \in [SUBSET (1 .. n) -> A] /\ FoldRun(h, op, b, s, 1 .. n)
  /\ g \in [0 .. n -> A] /\ Stepwise(g, op, b, s, n)
  /\ g[n] = h[1 .. n]

LEMMA FoldsExist ==
  ASSUME NEW A, NEW V, NEW op \in [A \X V -> A], NEW b \in A, NEW n \in Nat, NEW s \in [1 .. n -> V]
  PROVE  \E h, g : FoldedBy(h, g, A, op, b, s, n)
<1>1. PICK h \in [SUBSET (1 .. n) -> A] : FoldRun(h, op, b, s, 1 .. n)
  BY RunsExist
<1> DEFINE g == [m \in 0 .. n |-> h[1 .. m]]
<1>2. g \in [0 .. n -> A]
  <2>1. \A m \in 0 .. n : 1 .. m \in SUBSET (1 .. n)
    OBVIOUS
  <2> QED  BY <2>1
<1>3. 0 \in 0 .. n /\ n \in 0 .. n /\ 1 .. 0 = {} /\ {} \in SUBSET (1 .. n)
  OBVIOUS
<1>4. g[0] = b
  BY <1>1, <1>3 DEF FoldRun
<1>5. ASSUME NEW m \in 0 .. n - 1 PROVE g[m + 1] = op[<<g[m], s[m + 1]>>]
  <2>1. m + 1 \in 1 .. n /\ m + 1 - 1 = m /\ m \in 0 .. n /\ m + 1 \in 0 .. n
    OBVIOUS
  <2>2. 1 .. m + 1 \in SUBSET (1 .. n) /\ 1 .. m + 1 # {}
    BY <2>1, TopOfInterval
  <2>3. Max(1 .. m + 1) = m + 1 /\ (1 .. m + 1) \ {m + 1} = 1 .. m
    BY <2>1, TopOfInterval
  <2>4. h[1 .. m + 1] = op[<<h[(1 .. m + 1) \ {Max(1 .. m + 1)}], s[Max(1 .. m + 1)]>>]
    BY <1>1, <2>2 DEF FoldRun
  <2> QED  BY <2>1, <2>3, <2>4
<1>6. g[n] = h[1 .. n]
  BY <1>3
<1> HIDE DEF g
<1>7. Stepwise(g, op, b, s, n)
  BY <1>4, <1>5 DEF Stepwise
<1> QED  BY <1>1, <1>2, <1>6, <1>7 DEF FoldedBy

\* Two runs that agree on the empty part, and on each part if they agree on the
\* part without its last number, agree.
LEMMA RunsAgree ==
  ASSUME NEW n \in Nat, NEW f, NEW h, f[{}] = h[{}],
         \A S \in SUBSET (1 .. n) : S # {} /\ f[S \ {Max(S)}] = h[S \ {Max(S)}] => f[S] = h[S]
  PROVE  f[1 .. n] = h[1 .. n]
<1> DEFINE T == {m \in Nat : f[1 .. m] = h[1 .. m]}
<1>1. 0 \in T
  <2>1. 1 .. 0 = {}
    OBVIOUS
  <2> QED  BY <2>1
<1>2. ASSUME NEW m \in 0 .. n - 1, m \in T PROVE m + 1 \in T
  <2>1. m + 1 \in 1 .. n /\ m + 1 - 1 = m /\ m + 1 \in Nat
    OBVIOUS
  <2>2. 1 .. m + 1 \in SUBSET (1 .. n) /\ 1 .. m + 1 # {}
    BY <2>1, TopOfInterval
  <2>3. Max(1 .. m + 1) = m + 1 /\ (1 .. m + 1) \ {m + 1} = 1 .. m
    BY <2>1, TopOfInterval
  <2>4. f[(1 .. m + 1) \ {Max(1 .. m + 1)}] = h[(1 .. m + 1) \ {Max(1 .. m + 1)}]
    BY <1>2, <2>3
  <2>5. f[1 .. m + 1] = h[1 .. m + 1]
    BY <2>2, <2>4
  <2> QED  BY <2>1, <2>5
<1>3. n \in 0 .. n
  OBVIOUS
<1>4. n \in T
  <2> HIDE DEF T
  <2> QED  BY <1>1, <1>2, <1>3, UpTo
<1> QED  BY <1>4
=============================================================================
