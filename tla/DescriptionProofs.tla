------------------------- MODULE DescriptionProofs -------------------------
(***************************************************************************)
(* Proofs about graph descriptions, for any names, records and graphs.     *)
(*   Sorting gives one list for the same entries, so what is registered    *)
(*   has one description and one graph_id, in whatever order it came;      *)
(*   what create makes is read back as it was, and whoever reads an edited *)
(*   description under its author's graph_id gets the author's spec or an  *)
(*   exception (modules GraphSpec, Lint, Builder and Exchange);            *)
(*   the loop of lint finds exactly the reachable places, and what it      *)
(*   concludes from them is true of every run (module LintedWalk).         *)
(***************************************************************************)
EXTENDS Exchange, LintedWalk, Induction, SequenceTheorems

-----------------------------------------------------------------------------
(* Keys.                                                                   *)

\* What Precedes compares.
Keys == Seq(Int)

\* Keys are compared at the first place where they differ.
LEMMA PrecedesIsStrict ==
  ASSUME NEW a \in Keys, NEW b \in Keys, Precedes(a, b)
  PROVE  ~Precedes(b, a)
<1>1. Len(a) \in Nat /\ Len(b) \in Nat /\ (\A k \in 1 .. Len(a) : a[k] \in Int) /\ (\A k \in 1 .. Len(b) : b[k] \in Int)
  BY ElementOfSeq, LenProperties DEF Keys
<1>2. PICK i \in 1 .. Len(b) : /\ i > Len(a) \/ (i <= Len(a) /\ a[i] < b[i])
                               /\ \A k \in 1 .. i - 1 : k <= Len(a) /\ a[k] = b[k]
  BY DEF Precedes
<1>3. SUFFICES ASSUME NEW j \in 1 .. Len(a), j > Len(b) \/ (j <= Len(b) /\ b[j] < a[j]),
                      \A k \in 1 .. j - 1 : k <= Len(b) /\ b[k] = a[k]
               PROVE  FALSE
  BY DEF Precedes
<1>4. CASE i < j
  <2>1. i \in 1 .. j - 1 /\ i \in 1 .. Len(a) /\ i \in 1 .. Len(b)
    BY <1>1, <1>4
  <2>2. b[i] = a[i] /\ a[i] < b[i] /\ a[i] \in Int
    BY <1>1, <1>2, <1>3, <2>1
  <2> QED  BY <2>2
<1>5. CASE j < i
  <2>1. j \in 1 .. i - 1 /\ j \in 1 .. Len(a) /\ j \in 1 .. Len(b)
    BY <1>1, <1>5
  <2>2. b[j] = a[j] /\ b[j] < a[j] /\ a[j] \in Int
    BY <1>1, <1>2, <1>3, <2>1
  <2> QED  BY <2>2
<1>6. CASE i = j
  <2>1. i \in 1 .. Len(a) /\ i \in 1 .. Len(b) /\ a[i] \in Int /\ b[i] \in Int
    BY <1>1, <1>6
  <2>2. b[i] < a[i] /\ a[i] < b[i]
    BY <1>1, <1>2, <1>3, <1>6, <2>1
  <2> QED  BY <2>1, <2>2
<1> QED  BY <1>1, <1>4, <1>5, <1>6

\* If a comes before b and b before c, a comes before c.
LEMMA PrecedesIsTransitive ==
  ASSUME NEW a \in Keys, NEW b \in Keys, NEW c \in Keys, Precedes(a, b), Precedes(b, c)
  PROVE  Precedes(a, c)
<1>1. /\ Len(a) \in Nat /\ Len(b) \in Nat /\ Len(c) \in Nat
      /\ \A k \in 1 .. Len(a) : a[k] \in Int
      /\ \A k \in 1 .. Len(b) : b[k] \in Int
      /\ \A k \in 1 .. Len(c) : c[k] \in Int
  BY ElementOfSeq, LenProperties DEF Keys
<1>2. PICK i \in 1 .. Len(b) : /\ i > Len(a) \/ (i <= Len(a) /\ a[i] < b[i])
                               /\ \A k \in 1 .. i - 1 : k <= Len(a) /\ a[k] = b[k]
  BY DEF Precedes
<1>3. PICK j \in 1 .. Len(c) : /\ j > Len(b) \/ (j <= Len(b) /\ b[j] < c[j])
                               /\ \A k \in 1 .. j - 1 : k <= Len(b) /\ b[k] = c[k]
  BY DEF Precedes
<1>4. CASE i < j
  <2>1. i \in 1 .. j - 1 /\ i \in 1 .. Len(c)
    BY <1>1, <1>4
  <2>2. b[i] = c[i]
    BY <1>3, <2>1
  <2>3. ASSUME NEW k \in 1 .. i - 1 PROVE k <= Len(a) /\ a[k] = c[k]
    <3>1. k \in 1 .. j - 1
      BY <1>1, <1>4
    <3> QED  BY <1>2, <1>3, <3>1
  <2> QED  BY <1>2, <2>1, <2>2, <2>3 DEF Precedes
<1>5. CASE j <= i
  <2>1. ASSUME NEW k \in 1 .. j - 1 PROVE k <= Len(a) /\ a[k] = c[k]
    <3>1. k \in 1 .. i - 1
      BY <1>1, <1>5
    <3> QED  BY <1>2, <1>3, <3>1
  <2>2. j \in 1 .. Len(b) /\ b[j] < c[j] /\ b[j] \in Int /\ c[j] \in Int
    BY <1>1, <1>3, <1>5
  <2>3. j > Len(a) \/ (j <= Len(a) /\ a[j] < c[j])
    <3>1. CASE j < i
      <4>1. j \in 1 .. i - 1
        BY <1>1, <3>1
      <4> QED  BY <1>2, <2>2, <4>1
    <3>2. CASE j = i
      <4>1. SUFFICES ASSUME j <= Len(a) PROVE a[j] < c[j]
        BY <1>1
      <4>2. j \in 1 .. Len(a) /\ a[j] < b[j]
        BY <1>1, <1>2, <3>2, <4>1
      <4>3. a[j] \in Int
        BY <1>1, <4>2
      <4> QED  BY <2>2, <4>2, <4>3
    <3> QED  BY <1>1, <1>5, <3>1, <3>2
  <2> QED  BY <2>1, <2>3 DEF Precedes
<1> QED  BY <1>1, <1>4, <1>5

\* Of two keys that differ one comes first.
LEMMA PrecedesIsTotal ==
  ASSUME NEW a \in Keys, NEW b \in Keys, a # b
  PROVE  Precedes(a, b) \/ Precedes(b, a)
<1>1. Len(a) \in Nat /\ Len(b) \in Nat /\ (\A k \in 1 .. Len(a) : a[k] \in Int) /\ (\A k \in 1 .. Len(b) : b[k] \in Int)
  BY ElementOfSeq, LenProperties DEF Keys
<1> DEFINE D == {k \in 1 .. Len(a) : k <= Len(b) /\ a[k] # b[k]}
<1>2. CASE D = {}
  <2>1. \A k \in 1 .. Len(a) : k <= Len(b) => a[k] = b[k]
    BY <1>2
  <2>2. Len(a) # Len(b)
    <3>1. SUFFICES ASSUME Len(a) = Len(b) PROVE FALSE
      OBVIOUS
    <3>2. \A k \in 1 .. Len(a) : a[k] = b[k]
      BY <1>1, <2>1, <3>1
    <3> QED  BY <3>1, <3>2, SeqEqual DEF Keys
  <2>3. CASE Len(a) < Len(b)
    <3>1. Len(a) + 1 \in 1 .. Len(b) /\ Len(a) + 1 > Len(a)
      BY <1>1, <2>3
    <3>2. \A k \in 1 .. Len(a) + 1 - 1 : k <= Len(a) /\ a[k] = b[k]
      BY <1>1, <2>1, <2>3
    <3> QED  BY <3>1, <3>2 DEF Precedes
  <2>4. CASE Len(b) < Len(a)
    <3>1. Len(b) + 1 \in 1 .. Len(a) /\ Len(b) + 1 > Len(b)
      BY <1>1, <2>4
    <3>2. \A k \in 1 .. Len(b) + 1 - 1 : k <= Len(b) /\ b[k] = a[k]
      BY <1>1, <2>1, <2>4
    <3> QED  BY <3>1, <3>2 DEF Precedes
  <2> QED  BY <1>1, <2>2, <2>3, <2>4
<1>3. CASE D # {}
  <2>1. PICK d \in D : \A y \in D : d <= y
    <3>1. D \subseteq Nat
      BY <1>1
    <3> HIDE DEF D
    <3> QED  BY <1>3, <3>1, LeastNat
  <2>2. d \in 1 .. Len(a) /\ d \in 1 .. Len(b) /\ a[d] # b[d] /\ a[d] \in Int /\ b[d] \in Int
    BY <1>1, <2>1
  <2>3. ASSUME NEW k \in 1 .. d - 1 PROVE k <= Len(a) /\ k <= Len(b) /\ a[k] = b[k]
    <3>1. k \in 1 .. Len(a) /\ k <= Len(b) /\ ~(d <= k)
      BY <1>1, <2>2
    <3> QED  BY <2>1, <3>1
  <2>4. CASE a[d] < b[d]
    BY <2>2, <2>3, <2>4 DEF Precedes
  <2>5. CASE b[d] < a[d]
    BY <2>2, <2>3, <2>5 DEF Precedes
  <2> QED  BY <2>2, <2>4, <2>5
<1> QED  BY <1>2, <1>3

-----------------------------------------------------------------------------
(* Sorting.                                                                *)

\* The order in which SortBy puts the entries, as the code of list.sort has it.
ComesFirst(keys, i, j) ==
  \/ Precedes(keys[i], keys[j])
  \/ ~Precedes(keys[j], keys[i]) /\ i <= j
\* ComesFirst between different places, as a relation.
Turns(keys, D) == {q \in D \X D : q[1] # q[2] /\ ComesFirst(keys, q[1], q[2])}

\* A stable sort puts the places of a list one after the other.
LEMMA TurnsAreLinear ==
  ASSUME NEW n \in Nat, NEW keys \in [1 .. n -> Keys]
  PROVE  LinearOn(Turns(keys, 1 .. n), 1 .. n)
<1> DEFINE D == 1 .. n
           P(i, j) == Precedes(keys[i], keys[j])
<1>1. ASSUME NEW i \in D, NEW j \in D
      PROVE  <<i, j>> \in Turns(keys, D) <=> i # j /\ (P(i, j) \/ (keys[i] = keys[j] /\ i < j))
  <2>1. keys[i] \in Keys /\ keys[j] \in Keys /\ i \in Int /\ j \in Int
    OBVIOUS
  <2>2. /\ keys[i] = keys[j] => ~P(i, j) /\ ~P(j, i)
        /\ keys[i] # keys[j] => P(i, j) \/ P(j, i)
        /\ ~(P(i, j) /\ P(j, i))
    BY <2>1, PrecedesIsStrict, PrecedesIsTotal
  <2>3. <<i, j>> \in Turns(keys, D) <=> i # j /\ (P(i, j) \/ (~P(j, i) /\ i <= j))
    BY DEF Turns, ComesFirst
  <2> HIDE DEF P, D
  <2> QED  BY <2>1, <2>2, <2>3
<1>2. ASSUME NEW i \in D, NEW j \in D PROVE ~(P(i, j) /\ P(j, i)) /\ (keys[i] # keys[j] => P(i, j) \/ P(j, i))
  BY PrecedesIsStrict, PrecedesIsTotal
<1>3. ASSUME NEW i \in D, NEW j \in D, NEW k \in D, P(i, j), P(j, k) PROVE P(i, k)
  BY <1>3, PrecedesIsTransitive
<1>4. ASSUME NEW i \in D, NEW j \in D, NEW k \in D PROVE keys[i] = keys[j] => (P(i, k) <=> P(j, k)) /\ (P(k, i) <=> P(k, j))
  OBVIOUS
<1>5. \A i \in D : i \in Int
  OBVIOUS
<1> HIDE DEF P, D
<1>6. \A i, j \in D : <<i, j>> \in Turns(keys, D) => <<j, i>> \notin Turns(keys, D)
  BY <1>1, <1>2, <1>4, <1>5
<1>7. \A i, j \in D : i # j => <<i, j>> \in Turns(keys, D) \/ <<j, i>> \in Turns(keys, D)
  BY <1>1, <1>2, <1>5
<1>8. ASSUME NEW i \in D, NEW j \in D, NEW k \in D, <<i, j>> \in Turns(keys, D), <<j, k>> \in Turns(keys, D)
      PROVE  <<i, k>> \in Turns(keys, D)
  <2>1. i # k
    BY <1>6, <1>8
  <2>2. (P(i, j) \/ (keys[i] = keys[j] /\ i < j)) /\ (P(j, k) \/ (keys[j] = keys[k] /\ j < k))
    BY <1>1, <1>8
  <2>3. P(i, k) \/ (keys[i] = keys[k] /\ i < k)
    BY <2>2, <1>3, <1>4, <1>5
  <2> QED  BY <1>1, <2>1, <2>3
<1> QED  BY <1>6, <1>7, <1>8 DEF LinearOn, D

\* The result has every entry once, and none after one that it precedes.
LEMMA SortIsPermutation ==
  ASSUME NEW T, NEW s \in Seq(T), NEW keys \in [DOMAIN s -> Keys]
  PROVE  /\ SortBy(s, keys) \in Seq(T)
         /\ Len(SortBy(s, keys)) = Len(s)
         /\ \E p \in [1 .. Len(s) -> 1 .. Len(s)] :
              /\ \A k \in 1 .. Len(s) : SortBy(s, keys)[k] = s[p[k]]
              /\ \A i, j \in 1 .. Len(s) : p[i] = p[j] => i = j
              /\ \A m \in 1 .. Len(s) : \E k \in 1 .. Len(s) : p[k] = m
              /\ \A i, j \in 1 .. Len(s) : i < j => ~Precedes(keys[p[j]], keys[p[i]])
<1> DEFINE n == Len(s)
           D == 1 .. n
           R == Turns(keys, D)
           place(j) == Cardinality({i \in D : ComesFirst(keys, i, j)})
           p == [k \in D |-> CHOOSE j \in D : place(j) = k]
<1>1. n \in Nat /\ DOMAIN s = D /\ s \in [D -> T] /\ keys \in [D -> Keys]
  BY LenProperties
<1>2. IsFiniteSet(D) /\ Cardinality(D) = n
  <2> HIDE DEF n
  <2> QED  BY <1>1, CountTo
<1>3. SortBy(s, keys) = [k \in D |-> s[p[k]]]
  BY <1>1 DEF SortBy, ComesFirst
<1> HIDE DEF n
<1>4. LinearOn(R, D)
  BY <1>1, TurnsAreLinear
<1> HIDE DEF R
<1>5. Ranked(D, R)
  BY <1>2, <1>4, RankIsExact
<1>6. ASSUME NEW j \in D PROVE /\ place(j) = Cardinality(Before(D, R, j)) + 1
                              /\ Cardinality(Before(D, R, j)) \in Nat
  <2>1. ~Precedes(keys[j], keys[j]) /\ j <= j
    BY <1>1, PrecedesIsStrict
  <2>2. {i \in D : ComesFirst(keys, i, j)} = Before(D, R, j) \cup {j} /\ j \notin Before(D, R, j)
    BY <2>1 DEF Before, R, Turns, ComesFirst
  <2>3. Before(D, R, j) \in SUBSET D
    BY DEF Before
  <2>4. IsFiniteSet(Before(D, R, j))
    BY <1>2, <2>3, FS_Subset
  <2> QED  BY <2>2, <2>4, FS_AddElement, FS_CardinalityType
<1> HIDE DEF place
<1>7. ASSUME NEW k \in D PROVE p[k] \in D /\ place(p[k]) = k
  <2>1. k - 1 \in 0 .. Cardinality(D) - 1
    BY <1>1, <1>2
  <2>2. PICK j \in D : Cardinality(Before(D, R, j)) = k - 1
    BY <1>5, <2>1 DEF Ranked
  <2>3. place(j) = k
    BY <1>6, <2>2
  <2> QED  BY <2>3
<1>8. \A m \in D : place(m) \in D
  <2> TAKE m \in D
  <2>1. Cardinality(Before(D, R, m)) \in 0 .. n - 1
    BY <1>2, <1>5 DEF Ranked
  <2> QED  BY <1>1, <1>6, <2>1
<1>9. \A i, j \in D : place(i) = place(j) => i = j
  <2> TAKE i, j \in D
  <2>1. place(i) = place(j) => Cardinality(Before(D, R, i)) = Cardinality(Before(D, R, j))
    BY <1>6
  <2> QED  BY <1>5, <2>1 DEF Ranked
<1>10. p \in [D -> D]
  BY <1>7
<1> HIDE DEF p
<1>11. \A i, j \in D : p[i] = p[j] => i = j
  BY <1>7
<1>12. \A m \in D : \E k \in D : p[k] = m
  BY <1>7, <1>8, <1>9, <1>10
<1>13. ASSUME NEW i \in D, NEW j \in D, i < j PROVE ~Precedes(keys[p[j]], keys[p[i]])
  <2>1. SUFFICES ASSUME Precedes(keys[p[j]], keys[p[i]]) PROVE FALSE
    OBVIOUS
  <2>2. p[i] \in D /\ p[j] \in D /\ keys[p[i]] \in Keys
    BY <1>1, <1>7
  <2>3. p[j] # p[i]
    BY <2>1, <2>2, PrecedesIsStrict
  <2>4. <<p[j], p[i]>> \in R
    BY <2>1, <2>2, <2>3 DEF R, Turns, ComesFirst
  <2>5. Cardinality(Before(D, R, p[j])) < Cardinality(Before(D, R, p[i]))
    BY <1>5, <2>2, <2>4 DEF Ranked
  <2>6. place(p[j]) < place(p[i])
    BY <1>6, <2>2, <2>5
  <2> QED  BY <1>1, <1>7, <1>13, <2>6
<1>14. SortBy(s, keys) \in [D -> T]
  BY <1>1, <1>3, <1>10
<1>15. SortBy(s, keys) \in Seq(T) /\ Len(SortBy(s, keys)) = n
  BY <1>1, <1>14, IsASeq, LenProperties
<1>16. \A k \in D : SortBy(s, keys)[k] = s[p[k]]
  BY <1>3
<1> QED  BY <1>10, <1>11, <1>12, <1>13, <1>15, <1>16 DEF n

\* A list in order is left as it is: sorting twice is sorting once.
LEMMA SortedIsFixed ==
  ASSUME NEW T, NEW s \in Seq(T), NEW keys \in [DOMAIN s -> Keys],
         \A i, j \in DOMAIN s : i < j => ~Precedes(keys[j], keys[i])
  PROVE  SortBy(s, keys) = s
<1> DEFINE D == 1 .. Len(s)
           place(j) == Cardinality({i \in D : ComesFirst(keys, i, j)})
<1>1. Len(s) \in Nat /\ DOMAIN s = D /\ s \in [D -> T]
  BY LenProperties
<1>2. SortBy(s, keys) = [k \in D |-> s[CHOOSE j \in D : place(j) = k]]
  BY <1>1 DEF SortBy, ComesFirst
<1>3. ASSUME NEW j \in D PROVE place(j) = j
  <2>1. ASSUME NEW i \in D PROVE ComesFirst(keys, i, j) <=> i <= j
    <3>1. keys[i] \in Keys /\ keys[j] \in Keys /\ i \in Int /\ j \in Int
      BY <1>1
    <3>2. i <= j => ~Precedes(keys[j], keys[i])
      <4>1. CASE i = j
        BY <3>1, <4>1, PrecedesIsStrict
      <4>2. CASE i < j
        BY <1>1, <4>2
      <4> QED  BY <3>1, <4>1, <4>2
    <3>3. j < i => ~Precedes(keys[i], keys[j])
      BY <1>1
    <3> QED  BY <3>1, <3>2, <3>3 DEF ComesFirst
  <2>2. {i \in D : ComesFirst(keys, i, j)} = 1 .. j
    <3>1. j \in Nat /\ j <= Len(s)
      BY <1>1
    <3>2. \A i \in 1 .. j : i \in D /\ i <= j
      BY <1>1, <3>1
    <3>3. \A i \in D : i <= j => i \in 1 .. j
      BY <1>1, <3>1
    <3> QED  BY <2>1, <3>2, <3>3
  <2>3. j \in Nat
    BY <1>1
  <2> QED  BY <2>2, <2>3, CountTo
<1> HIDE DEF place
<1>4. \A k \in D : (CHOOSE j \in D : place(j) = k) = k
  BY <1>3
<1> QED  BY <1>1, <1>2, <1>4

\* A list sorted by a key of its entries.
Sorted(s, K) == SortBy(s, [i \in DOMAIN s |-> K[s[i]]])
\* No entry of s has a later key than one that follows it.
InOrder(s, K) == \A i, j \in DOMAIN s : i < j => ~Precedes(K[s[j]], K[s[i]])

\* r holds the entries of s at the places I, each place once.
Arranges(r, s, I) ==
  \E f \in [DOMAIN r -> I] :
    /\ \A i, j \in DOMAIN r : f[i] = f[j] => i = j
    /\ \A m \in I : \E k \in DOMAIN r : f[k] = m
    /\ \A k \in DOMAIN r : r[k] = s[f[k]]

\* Sorting keeps the entries, and does nothing the second time.
LEMMA SortKeepsEntries ==
  ASSUME NEW T, NEW s \in Seq(T), NEW K \in [T -> Keys]
  PROVE  /\ Sorted(s, K) \in Seq(T)
         /\ Len(Sorted(s, K)) = Len(s)
         /\ ToSet(Sorted(s, K)) = ToSet(s)
         /\ IsInjective(s) => IsInjective(Sorted(s, K))
         /\ Arranges(Sorted(s, K), s, DOMAIN s)
         /\ InOrder(Sorted(s, K), K)
         /\ Sorted(Sorted(s, K), K) = Sorted(s, K)
<1> DEFINE n == Len(s)
           keys == [i \in DOMAIN s |-> K[s[i]]]
           r == Sorted(s, K)
<1>1. n \in Nat /\ DOMAIN s = 1 .. n /\ s \in [1 .. n -> T] /\ keys \in [DOMAIN s -> Keys]
  BY LenProperties
<1>2. /\ r \in Seq(T)
      /\ Len(r) = n
      /\ \E p \in [1 .. n -> 1 .. n] :
           /\ \A k \in 1 .. n : r[k] = s[p[k]]
           /\ \A i, j \in 1 .. n : p[i] = p[j] => i = j
           /\ \A m \in 1 .. n : \E k \in 1 .. n : p[k] = m
           /\ \A i, j \in 1 .. n : i < j => ~Precedes(keys[p[j]], keys[p[i]])
  <2> HIDE DEF keys
  <2> QED  BY <1>1, SortIsPermutation DEF Sorted, keys
<1>3. PICK p \in [1 .. n -> 1 .. n] :
           /\ \A k \in 1 .. n : r[k] = s[p[k]]
           /\ \A i, j \in 1 .. n : p[i] = p[j] => i = j
           /\ \A m \in 1 .. n : \E k \in 1 .. n : p[k] = m
           /\ \A i, j \in 1 .. n : i < j => ~Precedes(keys[p[j]], keys[p[i]])
  BY <1>2
<1> HIDE DEF r, n
<1>4. DOMAIN r = 1 .. n
  BY <1>2, LenProperties
<1>5. ToSet(r) = ToSet(s)
  <2>1. ToSet(r) \subseteq ToSet(s)
    BY <1>1, <1>3, <1>4 DEF ToSet
  <2>2. ASSUME NEW i \in 1 .. n PROVE \E k \in 1 .. n : r[k] = s[i]
    BY <1>3
  <2> QED  BY <1>1, <1>4, <2>1, <2>2 DEF ToSet
<1>6. ASSUME IsInjective(s) PROVE IsInjective(r)
  <2>1. ASSUME NEW i \in 1 .. n, NEW j \in 1 .. n, r[i] = r[j] PROVE i = j
    <3>1. s[p[i]] = s[p[j]] /\ p[i] \in 1 .. n /\ p[j] \in 1 .. n
      BY <1>3, <2>1
    <3>2. p[i] = p[j]
      BY <1>1, <1>6, <3>1 DEF IsInjective
    <3> QED  BY <1>3, <3>2
  <2> QED  BY <1>4, <2>1 DEF IsInjective
<1>7. InOrder(r, K)
  <2>1. ASSUME NEW i \in 1 .. n, NEW j \in 1 .. n, i < j PROVE ~Precedes(K[r[j]], K[r[i]])
    <3>1. p[i] \in 1 .. n /\ p[j] \in 1 .. n /\ ~Precedes(keys[p[j]], keys[p[i]])
      BY <1>3, <2>1
    <3>2. keys[p[i]] = K[r[i]] /\ keys[p[j]] = K[r[j]]
      BY <1>1, <1>3, <3>1
    <3> QED  BY <3>1, <3>2
  <2> QED  BY <1>4, <2>1 DEF InOrder
<1>8. Sorted(r, K) = r
  <2> DEFINE kr == [i \in DOMAIN r |-> K[r[i]]]
  <2>1. kr \in [DOMAIN r -> Keys]
    BY <1>2, <1>4, ElementOfSeq
  <2>2. \A i, j \in DOMAIN r : i < j => ~Precedes(kr[j], kr[i])
    BY <1>7 DEF InOrder
  <2> HIDE DEF kr
  <2>3. SortBy(r, kr) = r
    <3>1. r \in Seq(T)
      BY <1>2
    <3> QED  BY <2>1, <2>2, <3>1, SortedIsFixed
  <2> QED  BY <2>3 DEF kr, Sorted
<1>9. Arranges(r, s, DOMAIN s)
  <2>1. p \in [DOMAIN r -> DOMAIN s]
    BY <1>1, <1>4
  <2>2. /\ \A i, j \in DOMAIN r : p[i] = p[j] => i = j
        /\ \A m \in DOMAIN s : \E k \in DOMAIN r : p[k] = m
        /\ \A k \in DOMAIN r : r[k] = s[p[k]]
    BY <1>1, <1>3, <1>4
  <2> QED  BY <2>1, <2>2 DEF Arranges
<1> QED  BY <1>2, <1>5, <1>6, <1>7, <1>8, <1>9 DEF r, n

\* The order of the keys, as a relation on entries.
ByKey(S, K) == {q \in S \X S : Precedes(K[q[1]], K[q[2]])}

\* In a list without repetition, sorted by a key that tells its entries apart,
\* entry k is the one that k - 1 members of the set precede.
LEMMA PlaceIsRank ==
  ASSUME NEW T, NEW r \in Seq(T), NEW K \in [T -> Keys], IsInjective(r), InOrder(r, K),
         \A x, y \in ToSet(r) : K[x] = K[y] => x = y
  PROVE  /\ IsFiniteSet(ToSet(r)) /\ Cardinality(ToSet(r)) = Len(r)
         /\ \A k \in 1 .. Len(r) : Cardinality(Before(ToSet(r), ByKey(ToSet(r), K), r[k])) = k - 1
<1> DEFINE n == Len(r)
           S == ToSet(r)
           R == ByKey(S, K)
<1>1. n \in Nat /\ DOMAIN r = 1 .. n /\ \A i \in 1 .. n : r[i] \in S /\ r[i] \in T /\ K[r[i]] \in Keys
  BY LenProperties, ElementOfSeq DEF ToSet
<1>2. r \in [1 .. n -> S] /\ \A x \in S : \E i \in 1 .. n : r[i] = x
  BY <1>1, LenProperties DEF ToSet
<1>3. \A i, j \in 1 .. n : r[i] = r[j] => i = j
  BY <1>1 DEF IsInjective
<1> HIDE DEF n, S
<1>4. IsFiniteSet(S) /\ Cardinality(S) = n
  BY <1>1, <1>2, <1>3, CountedOnce
<1>5. ASSUME NEW i \in 1 .. n, NEW k \in 1 .. n PROVE <<r[i], r[k]>> \in R <=> i < k
  <2>1. <<r[i], r[k]>> \in R <=> Precedes(K[r[i]], K[r[k]])
    BY <1>1 DEF ByKey
  <2>2. i \in Int /\ k \in Int
    OBVIOUS
  <2>3. ASSUME i < k PROVE Precedes(K[r[i]], K[r[k]])
    <3>1. ~Precedes(K[r[k]], K[r[i]])
      BY <1>1, <2>3 DEF InOrder
    <3>2. r[i] # r[k]
      BY <1>3, <2>2, <2>3
    <3>3. K[r[i]] # K[r[k]]
      BY <1>1, <3>2 DEF S
    <3> QED  BY <1>1, <3>1, <3>3, PrecedesIsTotal
  <2>4. ASSUME k < i PROVE ~Precedes(K[r[i]], K[r[k]])
    BY <1>1, <2>4 DEF InOrder
  <2>5. ASSUME k = i PROVE ~Precedes(K[r[i]], K[r[k]])
    BY <1>1, <2>5, PrecedesIsStrict
  <2> QED  BY <2>1, <2>2, <2>3, <2>4, <2>5
<1>6. ASSUME NEW k \in 1 .. n PROVE Cardinality(Before(S, R, r[k])) = k - 1
  <2> DEFINE f == [i \in 1 .. k - 1 |-> r[i]]
             B == Before(S, R, r[k])
  <2>1. k - 1 \in Nat /\ \A i \in 1 .. k - 1 : i \in 1 .. n /\ i < k
    BY <1>1
  <2>2. \A i \in 1 .. n : i < k => i \in 1 .. k - 1
    BY <1>1
  <2>3. \A i \in 1 .. n : r[i] \in B <=> i < k
    BY <1>1, <1>5 DEF Before
  <2>4. B \subseteq S
    BY DEF Before
  <2> HIDE DEF B
  <2>5. f \in [1 .. k - 1 -> B]
    BY <2>1, <2>3
  <2>6. \A x \in B : \E i \in 1 .. k - 1 : f[i] = x
    BY <1>2, <2>2, <2>3, <2>4
  <2>7. \A i, j \in 1 .. k - 1 : f[i] = f[j] => i = j
    BY <1>3, <2>1
  <2> HIDE DEF f
  <2> QED  BY <2>1, <2>5, <2>6, <2>7, CountedOnce DEF B
<1> QED  BY <1>4, <1>6 DEF n, S

\* What is sorted is determined by the set of its entries, if the key tells
\* them apart: the order they came in does not show.
LEMMA SortIsCanonical ==
  ASSUME NEW T, NEW s \in Seq(T), NEW t \in Seq(T), NEW K \in [T -> Keys],
         IsInjective(s), IsInjective(t), ToSet(s) = ToSet(t),
         \A x, y \in ToSet(s) : K[x] = K[y] => x = y
  PROVE  Sorted(s, K) = Sorted(t, K)
<1> DEFINE a == Sorted(s, K)
           b == Sorted(t, K)
           S == ToSet(s)
           R == ByKey(S, K)
<1>1. /\ a \in Seq(T) /\ ToSet(a) = S /\ IsInjective(a) /\ InOrder(a, K)
      /\ b \in Seq(T) /\ ToSet(b) = S /\ IsInjective(b) /\ InOrder(b, K)
  BY SortKeepsEntries
<1>2. S \subseteq T
  BY ElementOfSeq DEF ToSet
<1> HIDE DEF a, b, S
<1>3. \A x, y \in S : K[x] = K[y] => x = y
  BY DEF S
<1>4. /\ IsFiniteSet(S) /\ Cardinality(S) = Len(a)
      /\ \A k \in 1 .. Len(a) : Cardinality(Before(S, R, a[k])) = k - 1
  BY <1>1, <1>3, PlaceIsRank
<1>5. /\ Cardinality(S) = Len(b)
      /\ \A k \in 1 .. Len(b) : Cardinality(Before(S, R, b[k])) = k - 1
  BY <1>1, <1>3, PlaceIsRank
<1>6. LinearOn(R, S)
  <2>1. \A x, y \in S : <<x, y>> \in R <=> Precedes(K[x], K[y])
    BY DEF ByKey
  <2>2. \A x \in S : K[x] \in Keys
    BY <1>2
  <2> HIDE DEF R
  <2>3. \A x, y \in S : Precedes(K[x], K[y]) => ~Precedes(K[y], K[x])
    BY <2>2, PrecedesIsStrict
  <2>4. \A x, y \in S : x # y => Precedes(K[x], K[y]) \/ Precedes(K[y], K[x])
    BY <2>2, <1>3, PrecedesIsTotal
  <2>5. \A x, y, z \in S : Precedes(K[x], K[y]) /\ Precedes(K[y], K[z]) => Precedes(K[x], K[z])
    BY <2>2, PrecedesIsTransitive
  <2> QED  BY <2>1, <2>3, <2>4, <2>5 DEF LinearOn
<1>7. Ranked(S, R)
  BY <1>4, <1>6, RankIsExact
<1>8. Len(a) = Len(b) /\ Len(a) \in Nat
  BY <1>1, <1>4, <1>5, LenProperties
<1>9. ASSUME NEW k \in 1 .. Len(a) PROVE a[k] = b[k]
  <2>1. a[k] \in S /\ b[k] \in S
    BY <1>1, <1>8, LenProperties DEF ToSet
  <2>2. Cardinality(Before(S, R, a[k])) = Cardinality(Before(S, R, b[k]))
    BY <1>4, <1>5, <1>8
  <2> QED  BY <1>7, <2>1, <2>2 DEF Ranked
<1>10. a = b
  BY <1>1, <1>8, <1>9, SeqEqual
<1> QED  BY <1>10 DEF a, b

\* The members of a finite set of numbers, each once, in ascending order.
LEMMA AscendingLists ==
  ASSUME NEW S, S \subseteq Nat, IsFiniteSet(S)
  PROVE  /\ Cardinality(S) \in Nat
         /\ Ascending(S) \in [1 .. Cardinality(S) -> S]
         /\ \A i, j \in 1 .. Cardinality(S) : i < j => Ascending(S)[i] < Ascending(S)[j]
         /\ \A i, j \in 1 .. Cardinality(S) : Ascending(S)[i] = Ascending(S)[j] => i = j
         /\ \A x \in S : \E i \in 1 .. Cardinality(S) : Ascending(S)[i] = x
<1> DEFINE n == Cardinality(S)
           q == [k \in 1 .. n |-> CHOOSE x \in S : Cardinality(Under(S, x)) = k - 1]
           a == Ascending(S)
<1>1. /\ n \in Nat
      /\ \A x, y \in S : x < y => Cardinality(Under(S, x)) < Cardinality(Under(S, y))
      /\ \A r \in 0 .. n - 1 : \E x \in S : Cardinality(Under(S, x)) = r
  BY NumbersAreRanked
<1> HIDE DEF n
<1>2. ASSUME NEW k \in 1 .. n PROVE q[k] \in S /\ Cardinality(Under(S, q[k])) = k - 1
  <2>1. k - 1 \in 0 .. n - 1
    BY <1>1
  <2>2. \E x \in S : Cardinality(Under(S, x)) = k - 1
    BY <1>1, <2>1
  <2> QED  BY <2>2
<1>3. q \in [1 .. n -> S]
  BY <1>2
<1> HIDE DEF q
<1>4. ASSUME NEW i \in 1 .. n, NEW j \in 1 .. n, i < j PROVE q[i] < q[j]
  <2>1. q[i] \in Nat /\ q[j] \in Nat
    BY <1>2
  <2>2. q[i] # q[j]
    BY <1>2, <1>4
  <2>3. ~(q[j] < q[i])
    <3>1. Cardinality(Under(S, q[i])) = i - 1 /\ Cardinality(Under(S, q[j])) = j - 1
      BY <1>2
    <3>2. ~(j - 1 < i - 1)
      BY <1>4
    <3> QED  BY <1>1, <1>2, <3>1, <3>2
  <2> QED  BY <2>1, <2>2, <2>3
<1>5. DOMAIN q = 1 .. n /\ \A i, j \in DOMAIN q : i < j => q[i] < q[j]
  BY <1>3, <1>4
<1>6. a \in [1 .. n -> S] /\ \A i, j \in DOMAIN a : i < j => a[i] < a[j]
  BY <1>3, <1>5 DEF Ascending, n
<1> HIDE DEF a
<1>7. \A i, j \in 1 .. n : i < j => a[i] < a[j]
  BY <1>6
<1>8. ASSUME NEW i \in 1 .. n, NEW j \in 1 .. n, a[i] = a[j] PROVE i = j
  <2>1. a[i] \in Nat /\ i \in Int /\ j \in Int
    <3>1. a[i] \in S
      BY <1>6
    <3>2. i \in Int /\ j \in Int
      BY <1>1
    <3> QED  BY <3>1, <3>2
  <2>2. ~(i < j) /\ ~(j < i)
    BY <1>7, <1>8, <2>1
  <2> QED  BY <2>1, <2>2
<1>9. a \in Injection(1 .. n, S)
  BY <1>6, <1>8, Fun_IsInj
<1>10. a \in Surjection(1 .. n, S)
  BY <1>1, <1>9, CountTo, FS_Injection DEF n
<1>11. \A x \in S : \E i \in 1 .. n : a[i] = x
  BY <1>10 DEF Surjection
<1> QED  BY <1>1, <1>6, <1>7, <1>8, <1>11 DEF a, n

\* The numbers up to n in ascending order.
LEMMA AscendingToN ==
  ASSUME NEW n \in Nat, NEW k \in 1 .. n
  PROVE  Ascending(1 .. n)[k] = k
<1> DEFINE a == Ascending(1 .. n)
           m == a[k]
           f == [i \in 1 .. k - 1 |-> a[i]]
<1>1. /\ a \in [1 .. n -> 1 .. n]
      /\ \A i, j \in 1 .. n : i < j => a[i] < a[j]
      /\ \A i, j \in 1 .. n : a[i] = a[j] => i = j
      /\ \A x \in 1 .. n : \E i \in 1 .. n : a[i] = x
  <2>1. 1 .. n \subseteq Nat /\ IsFiniteSet(1 .. n) /\ Cardinality(1 .. n) = n
    BY CountTo
  <2>2. DEFINE S == 1 .. n
  <2>3. S \subseteq Nat /\ IsFiniteSet(S) /\ Cardinality(S) = n
    BY <2>1
  <2> HIDE DEF S
  <2>4. /\ Ascending(S) \in [1 .. n -> S]
        /\ \A i, j \in 1 .. n : i < j => Ascending(S)[i] < Ascending(S)[j]
        /\ \A i, j \in 1 .. n : Ascending(S)[i] = Ascending(S)[j] => i = j
        /\ \A x \in S : \E i \in 1 .. n : Ascending(S)[i] = x
    BY <2>3, AscendingLists
  <2> QED  BY <2>4 DEF S
<1> HIDE DEF a
<1>2. m \in 1 .. n /\ m - 1 \in Nat /\ k - 1 \in Nat
  BY <1>1
<1>3. \A i \in 1 .. n : a[i] < m <=> i < k
  <2> TAKE i \in 1 .. n
  <2>1. i \in Int /\ k \in Int /\ a[i] \in Int /\ m \in Int
    BY <1>1
  <2>2. (i < k => a[i] < m) /\ (k < i => m < a[i]) /\ (i = k => a[i] = m)
    BY <1>1
  <2> QED  BY <2>1, <2>2
<1> HIDE DEF m
<1>4. f \in [1 .. k - 1 -> 1 .. m - 1]
  <2> SUFFICES ASSUME NEW i \in 1 .. k - 1 PROVE a[i] \in 1 .. m - 1
    OBVIOUS
  <2>1. i \in 1 .. n /\ i < k
    OBVIOUS
  <2>2. a[i] \in 1 .. n /\ a[i] < m
    BY <1>1, <1>3, <2>1
  <2> QED  BY <1>2, <2>2
<1>5. \A x \in 1 .. m - 1 : \E i \in 1 .. k - 1 : f[i] = x
  <2> TAKE x \in 1 .. m - 1
  <2>1. x \in 1 .. n /\ x < m
    BY <1>2
  <2>2. PICK i \in 1 .. n : a[i] = x
    BY <1>1, <2>1
  <2>3. i \in 1 .. k - 1
    BY <1>3, <2>1, <2>2
  <2> QED  BY <2>2, <2>3
<1>6. \A i, j \in 1 .. k - 1 : f[i] = f[j] => i = j
  <2>1. \A i \in 1 .. k - 1 : i \in 1 .. n
    OBVIOUS
  <2> QED  BY <1>1, <2>1
<1> HIDE DEF f
<1>7. Cardinality(1 .. m - 1) = k - 1
  BY <1>2, <1>4, <1>5, <1>6, CountedOnce
<1>8. Cardinality(1 .. m - 1) = m - 1
  BY <1>2, CountTo
<1>9. m = k
  BY <1>2, <1>7, <1>8
<1> QED  BY <1>9 DEF m, a

\* The picked entries are the ones at the given places, in their order.
LEMMA PickedLists ==
  ASSUME NEW T, NEW s \in Seq(T), NEW I, I \subseteq DOMAIN s
  PROVE  /\ Picked(s, I) \in Seq(T)
         /\ ToSet(Picked(s, I)) = {s[i] : i \in I}
         /\ IsInjective(s) => IsInjective(Picked(s, I))
         /\ Arranges(Picked(s, I), s, I)
         /\ I = DOMAIN s => Picked(s, I) = s
<1> DEFINE at == Ascending(I)
           n == Cardinality(I)
           r == Picked(s, I)
<1>1. Len(s) \in Nat /\ DOMAIN s = 1 .. Len(s) /\ s \in [1 .. Len(s) -> T]
  BY LenProperties
<1>2. I \subseteq Nat /\ IsFiniteSet(I)
  <2>1. IsFiniteSet(1 .. Len(s)) /\ I \in SUBSET (1 .. Len(s))
    BY <1>1, CountTo
  <2> QED  BY <1>1, <2>1, FS_Subset
<1>3. /\ n \in Nat
      /\ at \in [1 .. n -> I]
      /\ \A i, j \in 1 .. n : at[i] = at[j] => i = j
      /\ \A x \in I : \E i \in 1 .. n : at[i] = x
  BY <1>2, AscendingLists
<1>4. r = [k \in 1 .. n |-> s[at[k]]]
  BY <1>3 DEF Picked
<1>5. ASSUME I = DOMAIN s PROVE r = s
  <2>1. I = 1 .. Len(s)
    BY <1>1, <1>5
  <2>2. n = Len(s) /\ \A k \in 1 .. Len(s) : at[k] = k
    BY <1>1, <2>1, CountTo, AscendingToN
  <2> HIDE DEF r, at, n
  <2>3. \A k \in 1 .. Len(s) : r[k] = s[k]
    BY <1>4, <2>2
  <2>4. r = [k \in 1 .. Len(s) |-> s[k]]
    BY <1>4, <2>2
  <2> QED  BY <1>1, <2>4
<1> HIDE DEF at, n, r
<1>6. r \in [1 .. n -> T]
  BY <1>1, <1>3, <1>4
<1>7. r \in Seq(T) /\ DOMAIN r = 1 .. n
  BY <1>3, <1>6, IsASeq
<1>8. ToSet(r) = {s[i] : i \in I}
  <2>1. \A k \in 1 .. n : r[k] = s[at[k]] /\ at[k] \in I
    BY <1>3, <1>4
  <2>2. \A i \in I : \E k \in 1 .. n : r[k] = s[i]
    BY <1>3, <2>1
  <2>3. ToSet(r) = {r[k] : k \in 1 .. n}
    BY <1>7 DEF ToSet
  <2> QED  BY <2>1, <2>2, <2>3
<1>9. IsInjective(s) => IsInjective(r)
  <2> SUFFICES ASSUME IsInjective(s), NEW i \in 1 .. n, NEW j \in 1 .. n, r[i] = r[j] PROVE i = j
    BY <1>7 DEF IsInjective
  <2>1. at[i] \in DOMAIN s /\ at[j] \in DOMAIN s /\ s[at[i]] = s[at[j]]
    BY <1>3, <1>4
  <2>2. at[i] = at[j]
    BY <2>1 DEF IsInjective
  <2> QED  BY <1>3, <2>2
<1>10. Arranges(r, s, I)
  BY <1>3, <1>4, <1>7 DEF Arranges
<1> QED  BY <1>5, <1>7, <1>8, <1>9, <1>10 DEF r

-----------------------------------------------------------------------------
(* The five ways a description is sorted.                                  *)

\* The sort keys of the five lists, as functions.
NameKey == [n \in NodeSpecs |-> <<n.name, OrEmpty(n.ref)>>]
EdgesKey == [e \in EdgeSpecs |-> EdgeKey(e)]
FieldKey == [r \in ReducerSpecs |-> <<r.field>>]
SourceKey == [j \in Joins |-> <<j.source>>]
JoinKey == [j \in Joins |-> <<j.source, JoinKindOrder[j.kind]>>]

\* Every record has a key that Precedes compares.
LEMMA KeysAreKeys ==
  /\ NameKey \in [NodeSpecs -> Keys] /\ EdgesKey \in [EdgeSpecs -> Keys]
  /\ FieldKey \in [ReducerSpecs -> Keys]
  /\ SourceKey \in [Joins -> Keys] /\ JoinKey \in [Joins -> Keys]
<1>1. ASSUME NEW x \in Int, NEW y \in Int PROVE <<x>> \in Keys /\ <<x, y>> \in Keys
  BY DEF Keys
<1>a. \A x \in Optional : OrEmpty(x) \in Int
  BY DEF Optional, OrEmpty, Empty, Nothing
<1>2. NameKey \in [NodeSpecs -> Keys]
  <2>1. \A n \in NodeSpecs : n.name \in Int /\ OrEmpty(n.ref) \in Int
    BY <1>a DEF NodeSpecs
  <2> QED  BY <1>1, <2>1 DEF NameKey
<1>3. FieldKey \in [ReducerSpecs -> Keys]
  <2>1. \A n \in ReducerSpecs : n.field \in Int
    BY DEF ReducerSpecs
  <2> QED  BY <1>1, <2>1 DEF FieldKey
<1>4. SourceKey \in [Joins -> Keys] /\ JoinKey \in [Joins -> Keys]
  <2>1. ASSUME NEW k \in JoinKinds PROVE JoinKindOrder[k] \in Int
    BY DEF JoinKinds, JoinKindOrder
  <2>2. \A j \in Joins : j.source \in Int /\ j.kind \in JoinKinds
    BY DEF Joins
  <2> QED  BY <1>1, <2>1, <2>2 DEF SourceKey, JoinKey
<1>5. EdgesKey \in [EdgeSpecs -> Keys]
  <2> SUFFICES ASSUME NEW e \in EdgeSpecs PROVE EdgeKey(e) \in Keys
    BY DEF EdgesKey
  <2>1. /\ e.source \in Int /\ OrEmpty(e.target) \in Int /\ OrEmpty(e.router) \in Int
        /\ e.kind \in DOMAIN EdgeKindOrder
        /\ e.declared \subseteq Nat /\ IsFiniteSet(e.declared)
    BY <1>a DEF EdgeSpecs
  <2>2. EdgeKindOrder[e.kind] \in Int
    BY <2>1 DEF EdgeKindOrder
  <2>3. <<e.source, EdgeKindOrder[e.kind], OrEmpty(e.target), OrEmpty(e.router)>> \in Keys
    BY <2>1, <2>2 DEF Keys
  <2>4. Ascending(e.declared) \in Keys
    <3>1. /\ Cardinality(e.declared) \in Nat
          /\ Ascending(e.declared) \in [1 .. Cardinality(e.declared) -> e.declared]
      BY <2>1, AscendingLists
    <3>2. Ascending(e.declared) \in [1 .. Cardinality(e.declared) -> Int]
      BY <2>1, <3>1
    <3> QED  BY <3>1, <3>2, IsASeq DEF Keys
  <2> QED  BY <2>3, <2>4, ConcatProperties DEF EdgeKey, Keys
<1> QED  BY <1>2, <1>3, <1>4, <1>5

\* The sorts of GraphSpec sort by these keys (spec.py:201-213, 235-238, 277-286, 330).
LEMMA ListsAreSorted ==
  /\ \A s \in Seq(NodeSpecs) : ByName(s) = Sorted(s, NameKey)
  /\ \A s \in Seq(EdgeSpecs) : ByEdge(s) = Sorted(s, EdgesKey)
  /\ \A s \in Seq(ReducerSpecs) : ByField(s) = Sorted(s, FieldKey)
  /\ \A s \in Seq(Joins) : BySource(s) = Sorted(s, SourceKey) /\ ByJoin(s) = Sorted(s, JoinKey)
<1>1. ASSUME NEW T, NEW s \in Seq(T) PROVE \A i \in DOMAIN s : s[i] \in T
  BY LenProperties, ElementOfSeq
<1>2. ASSUME NEW s \in Seq(NodeSpecs) PROVE ByName(s) = Sorted(s, NameKey)
  <2>1. [i \in DOMAIN s |-> <<s[i].name, OrEmpty(s[i].ref)>>] = [i \in DOMAIN s |-> NameKey[s[i]]]
    BY <1>1 DEF NameKey
  <2> QED  BY <2>1 DEF ByName, Sorted
<1>3. ASSUME NEW s \in Seq(EdgeSpecs) PROVE ByEdge(s) = Sorted(s, EdgesKey)
  <2>1. [i \in DOMAIN s |-> EdgeKey(s[i])] = [i \in DOMAIN s |-> EdgesKey[s[i]]]
    BY <1>1 DEF EdgesKey
  <2> QED  BY <2>1 DEF ByEdge, Sorted
<1>4. ASSUME NEW s \in Seq(ReducerSpecs) PROVE ByField(s) = Sorted(s, FieldKey)
  <2>1. [i \in DOMAIN s |-> <<s[i].field>>] = [i \in DOMAIN s |-> FieldKey[s[i]]]
    BY <1>1 DEF FieldKey
  <2> QED  BY <2>1 DEF ByField, Sorted
<1>5. ASSUME NEW s \in Seq(Joins) PROVE BySource(s) = Sorted(s, SourceKey) /\ ByJoin(s) = Sorted(s, JoinKey)
  <2>1. [i \in DOMAIN s |-> <<s[i].source>>] = [i \in DOMAIN s |-> SourceKey[s[i]]]
    BY <1>1 DEF SourceKey
  <2>2. [i \in DOMAIN s |-> <<s[i].source, JoinKindOrder[s[i].kind]>>] = [i \in DOMAIN s |-> JoinKey[s[i]]]
    BY <1>1 DEF JoinKey
  <2> QED  BY <2>1, <2>2 DEF BySource, ByJoin, Sorted
<1> QED  BY <1>2, <1>3, <1>4, <1>5

\* Every way of sorting keeps the entries and does nothing the second time.
LEMMA SortsSettle ==
  /\ \A s \in Seq(NodeSpecs) : /\ ByName(s) \in Seq(NodeSpecs) /\ ToSet(ByName(s)) = ToSet(s)
                               /\ ByName(ByName(s)) = ByName(s)
  /\ \A s \in Seq(EdgeSpecs) : /\ ByEdge(s) \in Seq(EdgeSpecs) /\ ToSet(ByEdge(s)) = ToSet(s)
                               /\ Arranges(ByEdge(s), s, DOMAIN s)
                               /\ ByEdge(ByEdge(s)) = ByEdge(s)
  /\ \A s \in Seq(ReducerSpecs) : /\ ByField(s) \in Seq(ReducerSpecs) /\ ToSet(ByField(s)) = ToSet(s)
                                  /\ ByField(ByField(s)) = ByField(s)
  /\ \A s \in Seq(Joins) : /\ BySource(s) \in Seq(Joins) /\ ToSet(BySource(s)) = ToSet(s)
                           /\ BySource(BySource(s)) = BySource(s)
  /\ \A s \in Seq(Joins) : /\ ByJoin(s) \in Seq(Joins) /\ ToSet(ByJoin(s)) = ToSet(s)
                           /\ Arranges(ByJoin(s), s, DOMAIN s)
                           /\ ByJoin(ByJoin(s)) = ByJoin(s)
<1>1. ASSUME NEW s \in Seq(NodeSpecs)
      PROVE  ByName(s) \in Seq(NodeSpecs) /\ ToSet(ByName(s)) = ToSet(s) /\ ByName(ByName(s)) = ByName(s)
  BY KeysAreKeys, ListsAreSorted, SortKeepsEntries
<1>2. ASSUME NEW s \in Seq(EdgeSpecs)
      PROVE  /\ ByEdge(s) \in Seq(EdgeSpecs) /\ ToSet(ByEdge(s)) = ToSet(s) /\ ByEdge(ByEdge(s)) = ByEdge(s)
             /\ Arranges(ByEdge(s), s, DOMAIN s)
  BY KeysAreKeys, ListsAreSorted, SortKeepsEntries
<1>3. ASSUME NEW s \in Seq(ReducerSpecs)
      PROVE  ByField(s) \in Seq(ReducerSpecs) /\ ToSet(ByField(s)) = ToSet(s) /\ ByField(ByField(s)) = ByField(s)
  BY KeysAreKeys, ListsAreSorted, SortKeepsEntries
<1>4. ASSUME NEW s \in Seq(Joins)
      PROVE  BySource(s) \in Seq(Joins) /\ ToSet(BySource(s)) = ToSet(s) /\ BySource(BySource(s)) = BySource(s)
  BY KeysAreKeys, ListsAreSorted, SortKeepsEntries
<1>5. ASSUME NEW s \in Seq(Joins)
      PROVE  /\ ByJoin(s) \in Seq(Joins) /\ ToSet(ByJoin(s)) = ToSet(s) /\ ByJoin(ByJoin(s)) = ByJoin(s)
             /\ Arranges(ByJoin(s), s, DOMAIN s)
  BY KeysAreKeys, ListsAreSorted, SortKeepsEntries
<1> QED  BY <1>1, <1>2, <1>3, <1>4, <1>5

\* Joins in the order create keeps them are in the order of their sources.
LEMMA JoinsStayInOrder ==
  ASSUME NEW s \in Seq(Joins)
  PROVE  BySource(ByJoin(s)) = ByJoin(s)
<1> DEFINE r == ByJoin(s)
           keys == [i \in DOMAIN r |-> SourceKey[r[i]]]
<1>1. r \in Seq(Joins) /\ InOrder(r, JoinKey)
  BY KeysAreKeys, ListsAreSorted, SortKeepsEntries
<1> HIDE DEF r
<1>2. \A i \in DOMAIN r : r[i] \in Joins
  BY <1>1, LenProperties, ElementOfSeq
<1>3. keys \in [DOMAIN r -> Keys]
  BY <1>2, KeysAreKeys
<1>4. ASSUME NEW i \in DOMAIN r, NEW j \in DOMAIN r, i < j PROVE ~Precedes(keys[j], keys[i])
  <2>1. SUFFICES ASSUME Precedes(keys[j], keys[i]) PROVE FALSE
    OBVIOUS
  <2>2. /\ keys[i] = <<r[i].source>> /\ keys[j] = <<r[j].source>>
        /\ JoinKey[r[i]] = <<r[i].source, JoinKindOrder[r[i].kind]>>
        /\ JoinKey[r[j]] = <<r[j].source, JoinKindOrder[r[j].kind]>>
    BY <1>2 DEF SourceKey, JoinKey
  <2>3. r[j].source < r[i].source
    BY <2>1, <2>2 DEF Precedes
  <2>4. Precedes(JoinKey[r[j]], JoinKey[r[i]])
    BY <2>2, <2>3 DEF Precedes
  <2> QED  BY <1>1, <1>4, <2>4 DEF InOrder
<1> HIDE DEF keys
<1>5. SortBy(r, keys) = r
  BY <1>1, <1>3, <1>4, SortedIsFixed
<1>6. BySource(r) = r
  BY <1>1, <1>5, ListsAreSorted DEF Sorted, keys
<1> QED  BY <1>6 DEF r

\* No two entries have the same value of a field.
UniqueBy(s, key) == \A i, j \in DOMAIN s : s[i][key] = s[j][key] => i = j

\* The same entries, perhaps in another order.
Reordered(s, t) == IsInjective(t) /\ ToSet(t) = ToSet(s)

\* A list of which no two entries share a field has no entry twice, and every
\* reordering of it is such a list too.
LEMMA UniqueEntries ==
  ASSUME NEW s, NEW t, NEW key, UniqueBy(s, key), Reordered(s, t)
  PROVE  /\ IsInjective(s)
         /\ \A x, y \in ToSet(s) : x[key] = y[key] => x = y
         /\ UniqueBy(t, key)
<1>1. IsInjective(s)
  BY DEF UniqueBy, IsInjective
<1>2. \A x, y \in ToSet(s) : x[key] = y[key] => x = y
  BY DEF UniqueBy, ToSet
<1>3. \A i \in DOMAIN t : t[i] \in ToSet(s)
  BY DEF Reordered, ToSet
<1>4. UniqueBy(t, key)
  BY <1>2, <1>3 DEF UniqueBy, Reordered, IsInjective
<1> QED  BY <1>1, <1>2, <1>4

\* Lists that hold the same entries are sorted into the same list.
LEMMA SortsAreCanonical ==
  /\ \A s, t \in Seq(NodeSpecs) : UniqueBy(s, "name") /\ Reordered(s, t) => ByName(s) = ByName(t)
  /\ \A s, t \in Seq(EdgeSpecs) : UniqueBy(s, "source") /\ Reordered(s, t) => ByEdge(s) = ByEdge(t)
  /\ \A s, t \in Seq(ReducerSpecs) : UniqueBy(s, "field") /\ Reordered(s, t) => ByField(s) = ByField(t)
  /\ \A s, t \in Seq(Joins) : UniqueBy(s, "source") /\ Reordered(s, t) => ByJoin(s) = ByJoin(t)
<1>1. ASSUME NEW T, NEW s \in Seq(T) PROVE ToSet(s) \subseteq T
  BY ElementOfSeq, LenProperties DEF ToSet
<1>2. ASSUME NEW s \in Seq(NodeSpecs), NEW t \in Seq(NodeSpecs), UniqueBy(s, "name"), Reordered(s, t)
      PROVE  ByName(s) = ByName(t)
  <2>1. \A x, y \in ToSet(s) : NameKey[x] = NameKey[y] => x = y
    <3>1. \A x, y \in ToSet(s) : NameKey[x] = NameKey[y] => x.name = y.name
      BY <1>1 DEF NameKey
    <3> QED  BY <1>2, <3>1, UniqueEntries
  <2>2. Sorted(s, NameKey) = Sorted(t, NameKey)
    BY <1>2, <2>1, UniqueEntries, KeysAreKeys, SortIsCanonical DEF Reordered
  <2> QED  BY <2>2, ListsAreSorted
<1>3. ASSUME NEW s \in Seq(EdgeSpecs), NEW t \in Seq(EdgeSpecs), UniqueBy(s, "source"), Reordered(s, t)
      PROVE  ByEdge(s) = ByEdge(t)
  <2>1. \A x, y \in ToSet(s) : EdgesKey[x] = EdgesKey[y] => x = y
    <3>1. ASSUME NEW x \in EdgeSpecs PROVE EdgesKey[x][1] = x.source
      <4>1. x.declared \subseteq Nat /\ IsFiniteSet(x.declared)
        BY DEF EdgeSpecs
      <4>2. /\ Cardinality(x.declared) \in Nat
            /\ Ascending(x.declared) \in [1 .. Cardinality(x.declared) -> x.declared]
        BY <4>1, AscendingLists
      <4> DEFINE head == <<x.source, EdgeKindOrder[x.kind], OrEmpty(x.target), OrEmpty(x.router)>>
                 U == {x.source, EdgeKindOrder[x.kind], OrEmpty(x.target), OrEmpty(x.router)} \cup x.declared
      <4>3. head \in Seq(U) /\ Len(head) = 4 /\ head[1] = x.source
        OBVIOUS
      <4>4. Ascending(x.declared) \in [1 .. Cardinality(x.declared) -> U]
        BY <4>2
      <4>5. Ascending(x.declared) \in Seq(U)
        BY <4>2, <4>4, IsASeq
      <4> HIDE DEF head, U
      <4>6. (head \o Ascending(x.declared))[1] = head[1]
        <5>1. Len(Ascending(x.declared)) \in Nat /\ 1 \in 1 .. 4 + Len(Ascending(x.declared)) /\ 1 <= 4
          BY <4>5, LenProperties
        <5> QED  BY <4>3, <4>5, <5>1, ConcatProperties
      <4>7. EdgesKey[x] = head \o Ascending(x.declared)
        BY DEF EdgesKey, EdgeKey, head
      <4> QED  BY <4>3, <4>6, <4>7
    <3>2. \A x, y \in ToSet(s) : EdgesKey[x] = EdgesKey[y] => x.source = y.source
      BY <1>1, <3>1
    <3> QED  BY <1>3, <3>2, UniqueEntries
  <2>2. Sorted(s, EdgesKey) = Sorted(t, EdgesKey)
    BY <1>3, <2>1, UniqueEntries, KeysAreKeys, SortIsCanonical DEF Reordered
  <2> QED  BY <2>2, ListsAreSorted
<1>4. ASSUME NEW s \in Seq(ReducerSpecs), NEW t \in Seq(ReducerSpecs), UniqueBy(s, "field"), Reordered(s, t)
      PROVE  ByField(s) = ByField(t)
  <2>1. \A x, y \in ToSet(s) : FieldKey[x] = FieldKey[y] => x = y
    <3>1. \A x, y \in ToSet(s) : FieldKey[x] = FieldKey[y] => x.field = y.field
      BY <1>1 DEF FieldKey
    <3> QED  BY <1>4, <3>1, UniqueEntries
  <2>2. Sorted(s, FieldKey) = Sorted(t, FieldKey)
    BY <1>4, <2>1, UniqueEntries, KeysAreKeys, SortIsCanonical DEF Reordered
  <2> QED  BY <2>2, ListsAreSorted
<1>5. ASSUME NEW s \in Seq(Joins), NEW t \in Seq(Joins), UniqueBy(s, "source"), Reordered(s, t)
      PROVE  ByJoin(s) = ByJoin(t)
  <2>1. \A x, y \in ToSet(s) : JoinKey[x] = JoinKey[y] => x = y
    <3>1. \A x, y \in ToSet(s) : JoinKey[x] = JoinKey[y] => x.source = y.source
      BY <1>1 DEF JoinKey
    <3> QED  BY <1>5, <3>1, UniqueEntries
  <2>2. Sorted(s, JoinKey) = Sorted(t, JoinKey)
    <3>1. IsInjective(s) /\ IsInjective(t) /\ ToSet(s) = ToSet(t)
      BY <1>5, UniqueEntries DEF Reordered
    <3> QED  BY <2>1, <3>1, KeysAreKeys, SortIsCanonical
  <2> QED  BY <2>2, ListsAreSorted
<1> QED  BY <1>2, <1>3, <1>4, <1>5

-----------------------------------------------------------------------------
(* Creating and loading.                                                   *)

\* What the constructors accept, in lists.
GoodEdges == {e \in EdgeSpecs : EdgeConstructs(e)}
GoodReducers == {r \in ReducerSpecs : ReducerConstructs(r)}
GoodJoins == {j \in Joins : JoinConstructs(j)}

\* The places of the joins that create does not leave out.
Kept(es, js) == {i \in DOMAIN js : ~IsImplied(js[i], es, js)}

\* A spec that create made: its lists are in order, no join of it is implied,
\* its version fits and its id is that of its content.
Made(s) ==
  /\ s.version \in SupportedVersions
  /\ s = [version |-> s.version, id |-> s.id, maxSteps |-> s.maxSteps, nodes |-> s.nodes,
          edges |-> s.edges, reducers |-> s.reducers, joins |-> s.joins]
  /\ s.nodes \in Seq(NodeSpecs) /\ ByName(s.nodes) = s.nodes
  /\ s.edges \in Seq(GoodEdges) /\ ByEdge(s.edges) = s.edges
  /\ s.reducers \in Seq(GoodReducers) /\ ByField(s.reducers) = s.reducers
  /\ s.joins \in Seq(GoodJoins) /\ ByJoin(s.joins) = s.joins /\ BySource(s.joins) = s.joins
  /\ \A j \in ToSet(s.joins) : ~IsImplied(j, s.edges, s.joins)
  /\ VersionFits(s.version, UsesR3(s.edges, s.reducers, s.joins))
  /\ s.id = [version |-> s.version, maxSteps |-> s.maxSteps, nodes |-> s.nodes, edges |-> s.edges,
             reducers |-> s.reducers, joins |-> s.joins]

\* A join is alone at its source when no other place holds that source.
LEMMA AloneMeansOnce ==
  ASSUME NEW js \in Seq(Joins), NEW i \in DOMAIN js
  PROVE  SoleJoin(js, js[i]) <=> \A k \in DOMAIN js : js[k].source = js[i].source => k = i
<1> DEFINE S == {k \in DOMAIN js : js[k].source = js[i].source}
<1>1. IsFiniteSet(S)
  <2>1. Len(js) \in Nat /\ DOMAIN js = 1 .. Len(js)
    BY LenProperties
  <2>2. IsFiniteSet(1 .. Len(js)) /\ S \in SUBSET (1 .. Len(js))
    BY <2>1, CountTo
  <2> QED  BY <2>2, FS_Subset
<1>2. i \in S /\ (SoleJoin(js, js[i]) <=> Cardinality(S) = 1)
  BY DEF SoleJoin
<1>3. (\A k \in DOMAIN js : js[k].source = js[i].source => k = i) <=> S = {i}
  BY <1>2
<1> HIDE DEF S
<1>4. Cardinality(S) = 1 <=> \E x : S = {x}
  BY <1>1, FS_Singleton
<1>5. (\E x : S = {x}) <=> S = {i}
  BY <1>2
<1> QED  BY <1>2, <1>3, <1>4, <1>5

\* What create drops, it drops for good: what is kept is not implied by the
\* lists that are left.
LEMMA KeptIsNotImplied ==
  ASSUME NEW es \in Seq(EdgeSpecs), NEW js \in Seq(Joins)
  PROVE  LET kept == ByJoin(Picked(js, Kept(es, js)))
         IN  \A j \in ToSet(kept) : ~IsImplied(j, ByEdge(es), kept)
<1> DEFINE I == Kept(es, js)
           picked == Picked(js, I)
           kept == ByJoin(picked)
<1>1. /\ picked \in Seq(Joins) /\ ToSet(picked) = {js[i] : i \in I} /\ Arranges(picked, js, I)
      /\ I \subseteq DOMAIN js
  BY PickedLists DEF Kept
<1>2. kept \in Seq(Joins) /\ ToSet(kept) = ToSet(picked) /\ Arranges(kept, picked, DOMAIN picked)
  <2> HIDE DEF picked
  <2> QED  BY <1>1, SortsSettle
<1>3. FanoutSources(ByEdge(es)) = FanoutSources(es)
  BY SortsSettle DEF FanoutSources
<1> HIDE DEF picked, kept
<1>4. ASSUME NEW m \in DOMAIN kept, IsImplied(kept[m], ByEdge(es), kept) PROVE FALSE
  <2>1. PICK g \in [DOMAIN kept -> DOMAIN picked] :
          /\ \A k \in DOMAIN picked : \E n \in DOMAIN kept : g[n] = k
          /\ \A n \in DOMAIN kept : kept[n] = picked[g[n]]
    BY <1>2 DEF Arranges
  <2>2. PICK f \in [DOMAIN picked -> I] :
          /\ \A i \in I : \E k \in DOMAIN picked : f[k] = i
          /\ \A k \in DOMAIN picked : picked[k] = js[f[k]]
    BY <1>1 DEF Arranges
  <2> DEFINE i == f[g[m]]
  <2>3. i \in I /\ i \in DOMAIN js /\ kept[m] = js[i]
    BY <1>1, <2>1, <2>2
  <2>4. ~IsImplied(js[i], es, js)
    BY <2>3 DEF Kept
  <2>5. IsDefault(js[i]) /\ js[i].source \in FanoutSources(es) /\ SoleJoin(kept, kept[m])
    BY <1>3, <1>4, <2>3 DEF IsImplied
  <2>6. ~SoleJoin(js, js[i])
    BY <2>4, <2>5 DEF IsImplied
  <2> HIDE DEF i
  <2>7. PICK k \in DOMAIN js : js[k].source = js[i].source /\ k # i
    BY <2>3, <2>6, AloneMeansOnce
  <2>8. ~SoleJoin(js, js[k])
    BY <2>3, <2>7, AloneMeansOnce
  <2>9. k \in I
    BY <2>8 DEF Kept, IsImplied
  <2>10. PICK n \in DOMAIN kept : f[g[n]] = k
    BY <2>1, <2>2, <2>9
  <2>11. kept[n] = js[k] /\ n # m
    BY <2>1, <2>2, <2>7, <2>10 DEF i
  <2>12. kept[n].source = kept[m].source
    BY <2>3, <2>7, <2>11
  <2> QED  BY <1>2, <2>5, <2>11, <2>12, AloneMeansOnce
<1>5. \A j \in ToSet(kept) : ~IsImplied(j, ByEdge(es), kept)
  BY <1>4 DEF ToSet
<1> QED  BY <1>5 DEF kept, picked

\* Entries chosen from a list are good if those of the list are.
LEMMA GoodStaysGood ==
  ASSUME NEW T, NEW U, NEW s \in Seq(U), NEW r \in Seq(T), ToSet(r) \subseteq ToSet(s)
  PROVE  r \in Seq(U)
<1>1. Len(r) \in Nat /\ DOMAIN r = 1 .. Len(r) /\ r \in [1 .. Len(r) -> T]
  BY LenProperties
<1>2. \A i \in 1 .. Len(r) : r[i] \in ToSet(r)
  BY <1>1 DEF ToSet
<1>3. ToSet(s) \subseteq U
  BY ElementOfSeq, LenProperties DEF ToSet
<1>4. r \in [1 .. Len(r) -> U]
  BY <1>1, <1>2, <1>3
<1> QED  BY <1>1, <1>4, IsASeq

\* A list has entries exactly when its set has members.
LEMMA EmptyLists ==
  ASSUME NEW T, NEW s \in Seq(T)
  PROVE  s = <<>> <=> ToSet(s) = {}
<1>1. Len(s) \in Nat /\ DOMAIN s = 1 .. Len(s)
  BY LenProperties
<1>2. s = <<>> <=> Len(s) = 0
  BY EmptySeq
<1>3. ToSet(s) = {} <=> Len(s) = 0
  <2>1. Len(s) # 0 => s[1] \in ToSet(s)
    BY <1>1 DEF ToSet
  <2>2. Len(s) = 0 => DOMAIN s = {}
    BY <1>1
  <2> QED  BY <2>1, <2>2 DEF ToSet
<1> QED  BY <1>2, <1>3

\* A list of constructed records is a list of records.
LEMMA GoodIsTyped ==
  /\ \A s \in Seq(GoodEdges) : s \in Seq(EdgeSpecs)
  /\ \A s \in Seq(GoodReducers) : s \in Seq(ReducerSpecs)
  /\ \A s \in Seq(GoodJoins) : s \in Seq(Joins)
<1>1. GoodEdges \subseteq EdgeSpecs /\ GoodReducers \subseteq ReducerSpecs /\ GoodJoins \subseteq Joins
  BY DEF GoodEdges, GoodReducers, GoodJoins
<1> QED  BY <1>1, SeqMonotonic

\* The joins create keeps.
KeptJoins(es, js) == ByJoin(Picked(js, Kept(es, js)))

\* A spec made from the given lists.
MadeFrom(c, m, ns, es, rs, js) ==
  /\ Made(c) /\ c.maxSteps = m
  /\ c.nodes = ByName(ns) /\ c.edges = ByEdge(es) /\ c.reducers = ByField(rs)
  /\ c.joins = KeptJoins(es, js)

\* What create returns, if it does not raise (spec.py:289-368).
LEMMA CreatedIsMade ==
  ASSUME NEW v \in SupportedVersions \cup {"inferred"}, NEW m, NEW ns \in Seq(NodeSpecs),
         NEW es \in Seq(GoodEdges), NEW rs \in Seq(GoodReducers), NEW js \in Seq(GoodJoins)
  PROVE  LET c == Create(v, m, ns, es, rs, js)
         IN  /\ IsSpec(c) <=> VersionFits(v, UsesR3(es, rs, KeptJoins(es, js)))
             /\ IsSpec(c) => MadeFrom(c, m, ns, es, rs, js)
<1> DEFINE c == Create(v, m, ns, es, rs, js)
           kept == KeptJoins(es, js)
           r3 == UsesR3(es, rs, kept)
           chosen == IF v = "inferred" THEN (IF r3 THEN "2" ELSE "1") ELSE v
           id == GraphId(Payload(chosen, m, ns, es, rs, kept))
           made == Construct(chosen, id, m, ns, es, rs, kept)
<1>1. es \in Seq(EdgeSpecs) /\ rs \in Seq(ReducerSpecs) /\ js \in Seq(Joins)
  BY GoodIsTyped
<1>2. c = IF VersionFits(v, r3) THEN made ELSE Raised
  BY DEF Create, KeptJoins, Kept
<1>3. /\ ByName(ns) \in Seq(NodeSpecs) /\ ByName(ByName(ns)) = ByName(ns)
      /\ ByEdge(es) \in Seq(EdgeSpecs) /\ ToSet(ByEdge(es)) = ToSet(es) /\ ByEdge(ByEdge(es)) = ByEdge(es)
      /\ ByField(rs) \in Seq(ReducerSpecs) /\ ToSet(ByField(rs)) = ToSet(rs) /\ ByField(ByField(rs)) = ByField(rs)
  BY <1>1, SortsSettle
<1>4. /\ Picked(js, Kept(es, js)) \in Seq(GoodJoins)
      /\ Picked(js, Kept(es, js)) \in Seq(Joins)
  <2>1. Kept(es, js) \subseteq DOMAIN js
    BY DEF Kept
  <2>2. Picked(js, Kept(es, js)) \in Seq(GoodJoins)
    BY <2>1, PickedLists
  <2> QED  BY <2>2, GoodIsTyped
<1>5. /\ kept \in Seq(Joins) /\ ToSet(kept) = ToSet(Picked(js, Kept(es, js)))
      /\ ByJoin(kept) = kept /\ BySource(kept) = kept
  BY <1>4, SortsSettle, JoinsStayInOrder DEF KeptJoins
<1>6. ByEdge(es) \in Seq(GoodEdges) /\ ByField(rs) \in Seq(GoodReducers) /\ kept \in Seq(GoodJoins)
  <2>1. ByEdge(es) \in Seq(GoodEdges)
    BY <1>3, GoodStaysGood
  <2>2. ByField(rs) \in Seq(GoodReducers)
    BY <1>3, GoodStaysGood
  <2>3. kept \in Seq(GoodJoins)
    BY <1>4, <1>5, GoodStaysGood
  <2> QED  BY <2>1, <2>2, <2>3
<1>7. \A j \in ToSet(kept) : ~IsImplied(j, ByEdge(es), kept)
  BY <1>1, KeptIsNotImplied DEF KeptJoins
<1>8. UsesR3(ByEdge(es), ByField(rs), kept) <=> r3
  <2>1. ByField(rs) = <<>> <=> rs = <<>>
    BY <1>1, <1>3, EmptyLists
  <2>2. FanoutSources(ByEdge(es)) = FanoutSources(es)
    BY <1>3 DEF FanoutSources
  <2> QED  BY <2>1, <2>2 DEF UsesR3
<1> HIDE DEF kept, r3
<1>9. chosen \in SupportedVersions /\ (VersionFits(v, r3) => VersionFits(chosen, r3))
  BY DEF VersionFits, SupportedVersions
<1>10. ASSUME VersionFits(v, r3), chosen = "1" PROVE ByField(rs) = <<>> /\ kept = <<>>
  <2>1. ~UsesR3(ByEdge(es), ByField(rs), kept)
    BY <1>8, <1>9, <1>10 DEF VersionFits
  <2> QED  BY <2>1 DEF UsesR3
<1> HIDE DEF chosen
<1>11. made # Raised
  <2>1. made.version = chosen /\ Raised.version = "raised"
    BY DEF Construct, Raised
  <2>2. chosen # "raised"
    BY <1>9 DEF SupportedVersions
  <2> QED  BY <2>1, <2>2
<1>12. ASSUME VersionFits(v, r3)
       PROVE  /\ Made(made) /\ made.maxSteps = m
              /\ made.nodes = ByName(ns) /\ made.edges = ByEdge(es) /\ made.reducers = ByField(rs)
              /\ made.joins = kept
  <2>1. made = [version |-> chosen, id |-> id, maxSteps |-> m, nodes |-> ByName(ns), edges |-> ByEdge(es),
                reducers |-> ByField(rs), joins |-> kept]
    BY <1>5 DEF Construct
  <2>2. id = [version |-> chosen, maxSteps |-> m, nodes |-> ByName(ns), edges |-> ByEdge(es),
              reducers |-> ByField(rs), joins |-> kept]
    <3>1. id = [version |-> chosen, maxSteps |-> m, nodes |-> ByName(ns), edges |-> ByEdge(es),
                reducers |-> IF chosen = "1" THEN <<>> ELSE ByField(rs),
                joins |-> IF chosen = "1" THEN <<>> ELSE kept]
      BY <1>5 DEF GraphId, Payload
    <3> QED  BY <1>10, <1>12, <3>1
  <2>3. VersionFits(chosen, UsesR3(ByEdge(es), ByField(rs), kept))
    BY <1>8, <1>9, <1>12 DEF VersionFits
  <2> HIDE DEF made, id
  <2>4. /\ made.version = chosen /\ made.id = id /\ made.maxSteps = m /\ made.nodes = ByName(ns)
        /\ made.edges = ByEdge(es) /\ made.reducers = ByField(rs) /\ made.joins = kept
    BY <2>1
  <2>5. Made(made)
    BY <1>3, <1>5, <1>6, <1>7, <1>9, <2>1, <2>2, <2>3, <2>4 DEF Made
  <2> QED  BY <2>4, <2>5
<1> HIDE DEF made
<1> QED  BY <1>2, <1>11, <1>12 DEF IsSpec, MadeFrom, kept, r3

\* The id of a made spec tells all of it.
LEMMA IdIsContent ==
  ASSUME NEW s, NEW t, Made(s), Made(t), s.id = t.id
  PROVE  s = t
<1>1. /\ s.version = t.version /\ s.maxSteps = t.maxSteps /\ s.nodes = t.nodes /\ s.edges = t.edges
      /\ s.reducers = t.reducers /\ s.joins = t.joins
  BY DEF Made
<1>2. s = [version |-> s.version, id |-> s.id, maxSteps |-> s.maxSteps, nodes |-> s.nodes,
           edges |-> s.edges, reducers |-> s.reducers, joins |-> s.joins]
  BY DEF Made
<1>3. t = [version |-> t.version, id |-> t.id, maxSteps |-> t.maxSteps, nodes |-> t.nodes,
           edges |-> t.edges, reducers |-> t.reducers, joins |-> t.joins]
  BY DEF Made
<1> QED  BY <1>1, <1>2, <1>3

\* A made spec's payload is its id, and creating it anew gives it again.
LEMMA MadeIsFixed ==
  ASSUME NEW s, Made(s)
  PROVE  /\ PayloadOf(s) = s.id
         /\ Create(s.version, s.maxSteps, s.nodes, s.edges, s.reducers, s.joins) = s
         /\ FromDict(ToDict(s)) = s
<1> DEFINE c == Create(s.version, s.maxSteps, s.nodes, s.edges, s.reducers, s.joins)
<1>1. /\ s.version \in SupportedVersions
      /\ s.nodes \in Seq(NodeSpecs) /\ ByName(s.nodes) = s.nodes
      /\ s.edges \in Seq(GoodEdges) /\ ByEdge(s.edges) = s.edges
      /\ s.reducers \in Seq(GoodReducers) /\ ByField(s.reducers) = s.reducers
      /\ s.joins \in Seq(GoodJoins) /\ ByJoin(s.joins) = s.joins /\ BySource(s.joins) = s.joins
      /\ \A j \in ToSet(s.joins) : ~IsImplied(j, s.edges, s.joins)
      /\ VersionFits(s.version, UsesR3(s.edges, s.reducers, s.joins))
      /\ s.id = [version |-> s.version, maxSteps |-> s.maxSteps, nodes |-> s.nodes, edges |-> s.edges,
                 reducers |-> s.reducers, joins |-> s.joins]
  BY DEF Made
<1>2. s.version = "1" => s.reducers = <<>> /\ s.joins = <<>>
  BY <1>1 DEF VersionFits, UsesR3
<1>3. PayloadOf(s) = s.id
  BY <1>1, <1>2 DEF PayloadOf, Payload
<1>4. KeptJoins(s.edges, s.joins) = s.joins
  <2>1. Kept(s.edges, s.joins) = DOMAIN s.joins
    BY <1>1 DEF Kept, ToSet
  <2>2. Picked(s.joins, Kept(s.edges, s.joins)) = s.joins
    BY <1>1, <2>1, PickedLists
  <2> QED  BY <1>1, <2>2 DEF KeptJoins
<1>5. IsSpec(c) /\ Made(c) /\ c.maxSteps = s.maxSteps /\ c.nodes = s.nodes /\ c.edges = s.edges
      /\ c.reducers = s.reducers /\ c.joins = s.joins
  BY <1>1, <1>4, CreatedIsMade DEF MadeFrom
<1>6. c.version = s.version
  <2>1. s.version # "inferred"
    BY <1>1 DEF SupportedVersions
  <2> QED  BY <1>1, <1>4, <2>1 DEF Create, Construct, KeptJoins, Kept
<1>7. c = s
  <2> HIDE DEF c
  <2>1. c.id = s.id
    BY <1>1, <1>5, <1>6 DEF Made
  <2> QED  BY <1>5, <2>1, IdIsContent
<1>8. FromDict(ToDict(s)) = s
  <2> DEFINE d == ToDict(s)
  <2>1. d.id = s.id /\ d.payload = s.id /\ d.strays = {}
    BY <1>3 DEF ToDict
  <2>2. /\ d.payload.version = s.version /\ d.payload.maxSteps = s.maxSteps /\ d.payload.nodes = s.nodes
        /\ d.payload.edges = s.edges /\ d.payload.reducers = s.reducers /\ d.payload.joins = s.joins
    BY <1>1, <2>1
  <2> HIDE DEF d
  <2>3. ASSUME NEW T, NEW q \in Seq(T), NEW x \in ToSet(q) PROVE x \in T
    BY ElementOfSeq, LenProperties DEF ToSet
  <2>4. Loadable(d)
    <3>1. \A e \in ToSet(s.edges) : EdgeConstructs(e)
      BY <1>1, <2>3 DEF GoodEdges
    <3>2. \A r \in ToSet(s.reducers) : ReducerConstructs(r)
      BY <1>1, <2>3 DEF GoodReducers
    <3>3. \A j \in ToSet(s.joins) : JoinConstructs(j)
      BY <1>1, <2>3 DEF GoodJoins
    <3> QED  BY <1>1, <2>1, <2>2, <3>1, <3>2, <3>3 DEF Loadable
  <2>5. FromDict(d) = IF Loadable(d) /\ IsSpec(c) /\ d.id = c.id THEN c ELSE Raised
    BY <2>2 DEF FromDict
  <2> QED  BY <1>5, <1>7, <2>1, <2>4, <2>5 DEF d
<1> QED  BY <1>3, <1>7, <1>8

\* create gives one spec for the same records, however they are ordered, if
\* none is repeated (spec.py:216-239 with 277-368).
LEMMA CreateIsCanonical ==
  ASSUME NEW v, NEW m,
         NEW ns \in Seq(NodeSpecs), NEW ns2 \in Seq(NodeSpecs), UniqueBy(ns, "name"), Reordered(ns, ns2),
         NEW es \in Seq(GoodEdges), NEW es2 \in Seq(GoodEdges), UniqueBy(es, "source"), Reordered(es, es2),
         NEW rs \in Seq(GoodReducers), NEW rs2 \in Seq(GoodReducers), UniqueBy(rs, "field"), Reordered(rs, rs2),
         NEW js \in Seq(GoodJoins), NEW js2 \in Seq(GoodJoins), UniqueBy(js, "source"), Reordered(js, js2)
  PROVE  Create(v, m, ns, es, rs, js) = Create(v, m, ns2, es2, rs2, js2)
<1>1. /\ es \in Seq(EdgeSpecs) /\ rs \in Seq(ReducerSpecs) /\ js \in Seq(Joins)
      /\ es2 \in Seq(EdgeSpecs) /\ rs2 \in Seq(ReducerSpecs) /\ js2 \in Seq(Joins)
  BY GoodIsTyped
<1>2. ByName(ns) = ByName(ns2) /\ ByEdge(es) = ByEdge(es2) /\ ByField(rs) = ByField(rs2)
  BY <1>1, SortsAreCanonical
<1>3. FanoutSources(es) = FanoutSources(es2) /\ (rs = <<>> <=> rs2 = <<>>)
  BY <1>1, EmptyLists DEF FanoutSources, Reordered
<1>4. IsInjective(js) /\ UniqueBy(js2, "source")
  BY UniqueEntries
<1> DEFINE S == {j \in ToSet(js) : ~(IsDefault(j) /\ j.source \in FanoutSources(es))}
<1>5. ASSUME NEW fs, NEW q \in Seq(Joins), UniqueBy(q, "source"), IsInjective(q),
             FanoutSources(fs) = FanoutSources(es), ToSet(q) = ToSet(js)
      PROVE  /\ Picked(q, Kept(fs, q)) \in Seq(Joins) /\ IsInjective(Picked(q, Kept(fs, q)))
             /\ ToSet(Picked(q, Kept(fs, q))) = S
  <2>1. ASSUME NEW i \in DOMAIN q
        PROVE  i \in Kept(fs, q) <=> ~(IsDefault(q[i]) /\ q[i].source \in FanoutSources(es))
    <3>1. SoleJoin(q, q[i])
      BY <1>5, AloneMeansOnce DEF UniqueBy
    <3> QED  BY <1>5, <3>1 DEF Kept, IsImplied
  <2>2. Kept(fs, q) \subseteq DOMAIN q
    BY DEF Kept
  <2>3. /\ Picked(q, Kept(fs, q)) \in Seq(Joins) /\ IsInjective(Picked(q, Kept(fs, q)))
        /\ ToSet(Picked(q, Kept(fs, q))) = {q[i] : i \in Kept(fs, q)}
    BY <1>5, <2>2, PickedLists
  <2>4. {q[i] : i \in Kept(fs, q)} = S
    <3>1. ToSet(js) = {q[i] : i \in DOMAIN q}
      BY <1>5 DEF ToSet
    <3> QED  BY <2>1, <2>2, <3>1
  <2> QED  BY <2>3, <2>4
<1>6. /\ Picked(js, Kept(es, js)) \in Seq(Joins) /\ IsInjective(Picked(js, Kept(es, js)))
      /\ ToSet(Picked(js, Kept(es, js))) = S
  BY <1>1, <1>4, <1>5
<1>7. /\ Picked(js2, Kept(es2, js2)) \in Seq(Joins) /\ IsInjective(Picked(js2, Kept(es2, js2)))
      /\ ToSet(Picked(js2, Kept(es2, js2))) = S
  <2>1. IsInjective(js2) /\ ToSet(js2) = ToSet(js)
    BY DEF Reordered
  <2> QED  BY <1>1, <1>3, <1>4, <1>5, <2>1
<1>8. KeptJoins(es, js) = KeptJoins(es2, js2)
  <2>1. UniqueBy(Picked(js, Kept(es, js)), "source")
    <3>1. \A x, y \in ToSet(js) : x["source"] = y["source"] => x = y
      BY UniqueEntries
    <3>2. \A i \in DOMAIN Picked(js, Kept(es, js)) : Picked(js, Kept(es, js))[i] \in ToSet(js)
      BY <1>6 DEF ToSet
    <3> QED  BY <1>6, <3>1, <3>2 DEF UniqueBy, IsInjective
  <2>2. Reordered(Picked(js, Kept(es, js)), Picked(js2, Kept(es2, js2)))
    BY <1>6, <1>7 DEF Reordered
  <2> QED  BY <1>6, <1>7, <2>1, <2>2, SortsAreCanonical DEF KeptJoins
<1>9. UsesR3(es, rs, KeptJoins(es, js)) = UsesR3(es2, rs2, KeptJoins(es2, js2))
  BY <1>3, <1>8 DEF UsesR3
<1> DEFINE C(ens, ees, ers, kept, r3) ==
             LET chosen == IF v = "inferred" THEN (IF r3 THEN "2" ELSE "1") ELSE v
             IN  IF VersionFits(v, r3)
                 THEN [version |-> chosen,
                       id |-> [version |-> chosen, maxSteps |-> m, nodes |-> ens, edges |-> ees,
                               reducers |-> IF chosen = "1" THEN <<>> ELSE ers,
                               joins |-> IF chosen = "1" THEN <<>> ELSE BySource(kept)],
                       maxSteps |-> m, nodes |-> ens, edges |-> ees, reducers |-> ers, joins |-> BySource(kept)]
                 ELSE Raised
<1>10. Create(v, m, ns, es, rs, js)
         = C(ByName(ns), ByEdge(es), ByField(rs), KeptJoins(es, js), UsesR3(es, rs, KeptJoins(es, js)))
  BY DEF Create, Construct, GraphId, Payload, KeptJoins, Kept
<1>11. Create(v, m, ns2, es2, rs2, js2)
         = C(ByName(ns2), ByEdge(es2), ByField(rs2), KeptJoins(es2, js2), UsesR3(es2, rs2, KeptJoins(es2, js2)))
  BY DEF Create, Construct, GraphId, Payload, KeptJoins, Kept
<1> HIDE DEF C
<1> QED  BY <1>2, <1>8, <1>9, <1>10, <1>11

\* What a lint without findings has checked (lint.py:82-109, 318-337).
LEMMA ValidMeans ==
  ASSUME NEW s, Valid(s)
  PROVE  /\ s.version \in SupportedVersions
         /\ s.id = PayloadOf(s)
         /\ s.version = "1" => ~UsesR3(s.edges, s.reducers, s.joins)
         /\ Repeated(s.nodes, "name") = {} /\ Repeated(s.edges, "source") = {}
         /\ Repeated(s.reducers, "field") = {} /\ Repeated(s.joins, "source") = {}
<1>1. /\ IdentityErrors(s) = {} /\ NodeErrors(s) = {} /\ EdgeErrors(s) = {} /\ VersionErrors(s) = {}
      /\ JoinErrors(s) = {} /\ ReducerErrors(s) = {}
  BY DEF Valid, Errors
<1>3. s.version \in SupportedVersions /\ s.id = PayloadOf(s)
  <2>1. /\ When(s.version \notin SupportedVersions, "GS013", Nothing, Nothing) = {}
        /\ When(s.id # GraphId(PayloadOf(s)), "GS014", Nothing, Nothing) = {}
    BY <1>1 DEF IdentityErrors
  <2> QED  BY <2>1 DEF When, GraphId
<1>4. s.version = "1" => ~UsesR3(s.edges, s.reducers, s.joins)
  <2>1. When(UsesR3(s.edges, s.reducers, s.joins) /\ s.version = "1", "GS211", Nothing, Nothing) = {}
    BY <1>1 DEF VersionErrors
  <2> QED  BY <2>1 DEF When
<1>5. Repeated(s.nodes, "name") = {}
  BY <1>1 DEF NodeErrors
<1>6. Repeated(s.edges, "source") = {}
  BY <1>1 DEF EdgeErrors
<1>7. Repeated(s.joins, "source") = {}
  BY <1>1 DEF JoinErrors
<1>8. Repeated(s.reducers, "field") = {}
  BY <1>1 DEF ReducerErrors
<1> QED  BY <1>3, <1>4, <1>5, <1>6, <1>7, <1>8

\* Lint finds a repeated value exactly where two entries share one.
LEMMA NotRepeated ==
  ASSUME NEW T, NEW s \in Seq(T), NEW key
  PROVE  Repeated(s, key) = {} <=> UniqueBy(s, key)
<1>1. Len(s) \in Nat /\ DOMAIN s = 1 .. Len(s)
  BY LenProperties
<1>2. ASSUME Repeated(s, key) = {}, NEW i \in DOMAIN s, NEW j \in DOMAIN s, i < j PROVE s[i][key] # s[j][key]
  <2>1. i \in 1 .. j - 1
    BY <1>1, <1>2
  <2> QED  BY <1>2, <2>1 DEF Repeated
<1>3. ASSUME UniqueBy(s, key) PROVE Repeated(s, key) = {}
  <2>1. \A j \in DOMAIN s : \A k \in 1 .. j - 1 : k \in DOMAIN s /\ k # j
    BY <1>1
  <2> QED  BY <1>3, <2>1 DEF Repeated, UniqueBy
<1>4. \A i, j \in DOMAIN s : i = j \/ i < j \/ j < i
  BY <1>1
<1>5. ASSUME Repeated(s, key) = {} PROVE UniqueBy(s, key)
  BY <1>2, <1>4, <1>5 DEF UniqueBy
<1> QED  BY <1>3, <1>5

-----------------------------------------------------------------------------
(* The builder.                                                            *)

\* What add_edge registers: the constructors of FanOut and Join accepted it.
GoodRoutes == {e \in Routes : FanOutConstructs(e)}

\* What add_reducer registers: the constructor of Reducer accepted it.
BoundReducers == {r \in ReducerSpecs : ReducerBinds(r)}

\* Registries as the calls leave them: every key once.
Registered(ns, es, rs) ==
  /\ ns \in Seq(NodeSpecs) /\ UniqueBy(ns, "name")
  /\ es \in Seq(GoodRoutes) /\ UniqueBy(es, "source")
  /\ rs \in Seq(BoundReducers) /\ UniqueBy(rs, "field")

\* Every reducer names a field, so that the registries have a description.
Named(rs) == \A r \in ToSet(rs) : ReducerConstructs(r)

\* Only the name of the field can make a registered reducer unfit.
LEMMA NamedReducers ==
  ASSUME NEW rs \in Seq(BoundReducers)
  PROVE  /\ rs \in Seq(ReducerSpecs)
         /\ Named(rs) => rs \in Seq(GoodReducers)
         /\ Named(rs) <=> ~\E r \in ToSet(rs) : r.field = Empty
<1>1. /\ Len(rs) \in Nat /\ DOMAIN rs = 1 .. Len(rs) /\ rs \in [1 .. Len(rs) -> BoundReducers]
      /\ \A i \in DOMAIN rs : rs[i] \in ToSet(rs)
  BY LenProperties DEF ToSet
<1>2. BoundReducers \subseteq ReducerSpecs
  BY DEF BoundReducers
<1>3. rs \in Seq(ReducerSpecs)
  BY <1>1, <1>2, IsASeq
<1>4. Named(rs) => rs \in Seq(GoodReducers)
  <2>1. Named(rs) => rs \in [1 .. Len(rs) -> GoodReducers]
    BY <1>1, <1>2 DEF Named, GoodReducers
  <2> QED  BY <1>1, <2>1, IsASeq
<1>5. \A r \in ToSet(rs) : r \in BoundReducers
  BY <1>1 DEF ToSet
<1>6. \A r \in BoundReducers : ReducerConstructs(r) <=> r.field # Empty
  BY DEF BoundReducers, ReducerSpecs, ReducerConstructs, ReducerBinds
<1> QED  BY <1>3, <1>4, <1>5, <1>6 DEF Named

\* The edges of a description, in order of registration.
EdgesOf(es) == [i \in DOMAIN es |-> EdgeSpecOf(es[i])]

\* A registration keeps every key once (a Python dict).
LEMMA PutKeepsKeys ==
  ASSUME NEW T, NEW d \in Seq(T), NEW item \in T, NEW key, UniqueBy(d, key)
  PROVE  Put(d, item, key) \in Seq(T) /\ UniqueBy(Put(d, item, key), key)
<1>1. Len(d) \in Nat /\ DOMAIN d = 1 .. Len(d) /\ d \in [1 .. Len(d) -> T]
  BY LenProperties
<1>2. CASE \E i \in DOMAIN d : d[i][key] = item[key]
  <2> DEFINE q == [i \in DOMAIN d |-> IF d[i][key] = item[key] THEN item ELSE d[i]]
  <2>1. Put(d, item, key) = q
    BY <1>2 DEF Put
  <2>2. q \in [1 .. Len(d) -> T] /\ \A i \in DOMAIN d : q[i][key] = d[i][key]
    BY <1>1
  <2>3. q \in Seq(T) /\ DOMAIN q = DOMAIN d
    BY <1>1, <2>2, IsASeq
  <2> HIDE DEF q
  <2> QED  BY <2>1, <2>2, <2>3 DEF UniqueBy
<1>3. CASE ~\E i \in DOMAIN d : d[i][key] = item[key]
  <2> DEFINE q == Append(d, item)
  <2>1. Put(d, item, key) = q
    BY <1>3 DEF Put
  <2>2. q \in Seq(T) /\ Len(q) = Len(d) + 1 /\ q[Len(d) + 1] = item /\ \A i \in 1 .. Len(d) : q[i] = d[i]
    BY AppendProperties
  <2> HIDE DEF q
  <2>3. \A i \in DOMAIN q : i \in DOMAIN d \/ i = Len(d) + 1
    BY <1>1, <2>2, LenProperties
  <2>4. ASSUME NEW i \in DOMAIN q, NEW j \in DOMAIN q, q[i][key] = q[j][key] PROVE i = j
    BY <1>1, <1>3, <2>2, <2>3, <2>4 DEF UniqueBy
  <2> QED  BY <2>1, <2>2, <2>4 DEF UniqueBy
<1> QED  BY <1>2, <1>3

\* What registered edges are described as (engine.py:240-276).
LEMMA RoutesAreDescribed ==
  ASSUME NEW es \in Seq(GoodRoutes), UniqueBy(es, "source")
  PROVE  /\ EdgesOf(es) \in Seq(GoodEdges) /\ UniqueBy(EdgesOf(es), "source")
         /\ ToSet(EdgesOf(es)) = {EdgeSpecOf(e) : e \in ToSet(es)}
         /\ JoinSpecs(es) \in Seq(GoodJoins) /\ UniqueBy(JoinSpecs(es), "source")
         /\ ToSet(JoinSpecs(es)) = {e.join : e \in {f \in ToSet(es) : f.kind = "fanout"}}
<1>1. Len(es) \in Nat /\ DOMAIN es = 1 .. Len(es) /\ es \in [1 .. Len(es) -> GoodRoutes]
  BY LenProperties
<1>2. ASSUME NEW e \in GoodRoutes
      PROVE  /\ EdgeSpecOf(e) \in GoodEdges /\ EdgeSpecOf(e).source = e.source
             /\ e.kind = "fanout" => e.join \in GoodJoins /\ e.join.source = e.source
  <2>1. e \in Routes /\ FanOutConstructs(e) /\ IsRoute(e)
    BY RegistriesAssumption DEF GoodRoutes
  <2>2. EdgeSpecOf(e).source = e.source /\ EdgeSpecOf(e) \in EdgeSpecs
    BY <2>1 DEF IsRoute, EdgeSpecOf
  <2>3. EdgeConstructs(EdgeSpecOf(e))
    BY <2>1 DEF IsRoute, FanOutConstructs, EdgeConstructs, EdgeSpecOf
  <2>4. e.kind = "fanout" => e.join \in GoodJoins /\ e.join.source = e.source
    BY <2>1 DEF IsRoute, FanOutConstructs, GoodJoins
  <2> QED  BY <2>2, <2>3, <2>4 DEF GoodEdges
<1>3. EdgesOf(es) \in Seq(GoodEdges) /\ DOMAIN EdgesOf(es) = DOMAIN es
  <2>1. EdgesOf(es) \in [1 .. Len(es) -> GoodEdges]
    BY <1>1, <1>2 DEF EdgesOf
  <2> QED  BY <1>1, <2>1, IsASeq
<1>4. \A i \in DOMAIN es : EdgesOf(es)[i] = EdgeSpecOf(es[i]) /\ es[i] \in GoodRoutes
  BY <1>1 DEF EdgesOf
<1>5. UniqueBy(EdgesOf(es), "source")
  <2>1. \A i \in DOMAIN es : EdgesOf(es)[i]["source"] = es[i]["source"]
    BY <1>2, <1>4
  <2> QED  BY <1>3, <2>1 DEF UniqueBy
<1>6. ToSet(EdgesOf(es)) = {EdgeSpecOf(e) : e \in ToSet(es)}
  BY <1>3, <1>4 DEF ToSet
<1> DEFINE I == {i \in DOMAIN es : IsFanout(es[i])}
           regions == Picked(es, I)
           js == JoinSpecs(es)
<1>7. /\ regions \in Seq(GoodRoutes) /\ ToSet(regions) = {es[i] : i \in I} /\ Arranges(regions, es, I)
  <2>1. I \subseteq DOMAIN es
    OBVIOUS
  <2> HIDE DEF I
  <2> QED  BY <2>1, PickedLists
<1>8. js = [i \in DOMAIN regions |-> regions[i].join]
  BY DEF JoinSpecs
<1> HIDE DEF regions, js
<1>9. \A i \in DOMAIN regions : regions[i] \in GoodRoutes /\ regions[i].kind = "fanout"
  <2>1. \A i \in DOMAIN regions : regions[i] \in ToSet(regions)
    BY DEF ToSet
  <2> QED  BY <1>4, <1>7, <2>1 DEF IsFanout
<1>10. js \in Seq(GoodJoins) /\ DOMAIN js = DOMAIN regions
  <2>1. Len(regions) \in Nat /\ DOMAIN regions = 1 .. Len(regions)
    BY <1>7, LenProperties
  <2>2. js \in [1 .. Len(regions) -> GoodJoins]
    BY <1>2, <1>8, <1>9, <2>1
  <2> QED  BY <2>1, <2>2, IsASeq
<1>11. UniqueBy(js, "source")
  <2>1. PICK f \in [DOMAIN regions -> I] : /\ \A i, j \in DOMAIN regions : f[i] = f[j] => i = j
                                           /\ \A k \in DOMAIN regions : regions[k] = es[f[k]]
    BY <1>7 DEF Arranges
  <2>2. \A k \in DOMAIN regions : js[k]["source"] = es[f[k]]["source"] /\ f[k] \in DOMAIN es
    BY <1>2, <1>8, <1>9, <2>1
  <2> QED  BY <1>10, <2>1, <2>2 DEF UniqueBy
<1>12. ToSet(js) = {e.join : e \in {f \in ToSet(es) : f.kind = "fanout"}}
  <2>1. ToSet(regions) = {f \in ToSet(es) : f.kind = "fanout"}
    BY <1>7 DEF ToSet, IsFanout
  <2>2. ToSet(js) = {e.join : e \in ToSet(regions)}
    BY <1>8, <1>10 DEF ToSet
  <2> QED  BY <2>1, <2>2
<1> QED  BY <1>3, <1>5, <1>6, <1>10, <1>11, <1>12 DEF js

\* Registries with a reducer that names no field have no description.
LEMMA DescribedIfNamed ==
  ASSUME NEW ns, NEW es, NEW rs, Registered(ns, es, rs)
  PROVE  IsSpec(Describe(ns, es, rs)) => Named(rs)
BY DEF Describe, Named, IsSpec

\* All others have one, whatever was registered.
LEMMA DescribedIsMade ==
  ASSUME NEW ns, NEW es, NEW rs, Registered(ns, es, rs), Named(rs)
  PROVE  /\ IsSpec(Describe(ns, es, rs))
         /\ MadeFrom(Describe(ns, es, rs), Limit, ns, EdgesOf(es), rs, JoinSpecs(es))
<1>1. /\ ns \in Seq(NodeSpecs) /\ EdgesOf(es) \in Seq(GoodEdges)
      /\ rs \in Seq(GoodReducers) /\ JoinSpecs(es) \in Seq(GoodJoins)
  BY RoutesAreDescribed, NamedReducers DEF Registered
<1>2. "inferred" \in SupportedVersions \cup {"inferred"}
  OBVIOUS
<1> DEFINE c == Create("inferred", Limit, ns, EdgesOf(es), rs, JoinSpecs(es))
<1>3. IsSpec(c)
  BY <1>1, <1>2, CreatedIsMade DEF VersionFits
<1>4. MadeFrom(c, Limit, ns, EdgesOf(es), rs, JoinSpecs(es))
  BY <1>1, <1>2, <1>3, CreatedIsMade
<1>5. c = Describe(ns, es, rs)
  BY DEF Describe, EdgesOf, Named
<1> HIDE DEF c
<1> QED  BY <1>3, <1>4, <1>5

-----------------------------------------------------------------------------
(* Reading.                                                                *)

\* Typed lists under an id.
Carries(d, id) ==
  /\ d.id = id
  /\ \A f \in Lists : d.payload[f] \in Seq(RecordsOf[f])

\* The lists of a description on its way are lists of records.
LEMMA CarriedLists ==
  ASSUME NEW d, NEW id, Carries(d, id)
  PROVE  /\ d.payload.nodes \in Seq(NodeSpecs) /\ d.payload.edges \in Seq(EdgeSpecs)
         /\ d.payload.reducers \in Seq(ReducerSpecs) /\ d.payload.joins \in Seq(Joins)
  BY DEF Carries, Lists, RecordsOf

\* Lists whose records construct.
LEMMA ConstructedLists ==
  ASSUME NEW es \in Seq(EdgeSpecs), NEW rs \in Seq(ReducerSpecs), NEW js \in Seq(Joins),
         \A e \in ToSet(es) : EdgeConstructs(e), \A r \in ToSet(rs) : ReducerConstructs(r),
         \A j \in ToSet(js) : JoinConstructs(j)
  PROVE  es \in Seq(GoodEdges) /\ rs \in Seq(GoodReducers) /\ js \in Seq(GoodJoins)
<1>1. ASSUME NEW T, NEW U, NEW s \in Seq(T), ToSet(s) \subseteq U PROVE s \in Seq(U)
  <2>1. Len(s) \in Nat /\ DOMAIN s = 1 .. Len(s) /\ s \in [1 .. Len(s) -> T]
    BY LenProperties
  <2>2. s \in [1 .. Len(s) -> U]
    BY <1>1, <2>1 DEF ToSet
  <2> QED  BY <2>1, <2>2, IsASeq
<1>2. ASSUME NEW T, NEW s \in Seq(T) PROVE ToSet(s) \subseteq T
  BY ElementOfSeq, LenProperties DEF ToSet
<1>3. ToSet(es) \subseteq GoodEdges /\ ToSet(rs) \subseteq GoodReducers /\ ToSet(js) \subseteq GoodJoins
  BY <1>2 DEF GoodEdges, GoodReducers, GoodJoins
<1> QED  BY <1>1, <1>3

\* Who loads a description gets the spec of its id, or an exception
\* (spec.py:390-480).
LEMMA LoadingIsExact ==
  ASSUME NEW t, Made(t), NEW d, Carries(d, t.id)
  PROVE  FromDict(d) \in {Raised, t}
<1> DEFINE p == d.payload
           s == Create(p.version, p.maxSteps, p.nodes, p.edges, p.reducers, p.joins)
<1>1. SUFFICES ASSUME Loadable(d), IsSpec(s), d.id = s.id PROVE s = t
  BY DEF FromDict
<1>2. p.version \in SupportedVersions
  BY <1>1 DEF Loadable
<1>3. /\ p.nodes \in Seq(NodeSpecs) /\ p.edges \in Seq(GoodEdges)
      /\ p.reducers \in Seq(GoodReducers) /\ p.joins \in Seq(GoodJoins)
  BY <1>1, CarriedLists, ConstructedLists DEF Loadable
<1>4. Made(s)
  BY <1>1, <1>2, <1>3, CreatedIsMade DEF MadeFrom
<1> QED  BY <1>1, <1>4, IdIsContent DEF Carries

\* Who builds a description directly and validates it gets the spec of its id,
\* or an exception (lint.py:82-109, 318-337).
LEMMA AdmittingIsExact ==
  ASSUME NEW t, Made(t), NEW v, NEW m, NEW ns \in Seq(NodeSpecs), NEW es \in Seq(EdgeSpecs),
         NEW rs \in Seq(ReducerSpecs), NEW js \in Seq(Joins)
  PROVE  Validated(Construct(v, t.id, m, ns, es, rs, js)) \in {Raised, t}
<1> DEFINE c == Construct(v, t.id, m, ns, es, rs, js)
<1>1. SUFFICES ASSUME Valid(c) PROVE c = t
  BY DEF Validated
<1>2. c = [version |-> v, id |-> t.id, maxSteps |-> m, nodes |-> ByName(ns), edges |-> ByEdge(es),
           reducers |-> ByField(rs), joins |-> BySource(js)]
  BY DEF Construct
<1> HIDE DEF c
<1>3. c.version = "1" => c.reducers = <<>> /\ c.joins = <<>>
  BY <1>1, ValidMeans DEF UsesR3
<1>4. PayloadOf(c) = [version |-> v, maxSteps |-> m, nodes |-> ByName(ns), edges |-> ByEdge(es),
                      reducers |-> ByField(rs), joins |-> BySource(js)]
  <2>1. /\ ByName(c.nodes) = c.nodes /\ ByEdge(c.edges) = c.edges
        /\ ByField(c.reducers) = c.reducers /\ BySource(c.joins) = c.joins
    BY <1>2, SortsSettle
  <2> QED  BY <1>2, <1>3, <2>1 DEF PayloadOf, Payload
<1>5. t.id = PayloadOf(c)
  BY <1>1, <1>2, ValidMeans
<1>6. t.id = [version |-> t.version, maxSteps |-> t.maxSteps, nodes |-> t.nodes, edges |-> t.edges,
              reducers |-> t.reducers, joins |-> t.joins]
  BY DEF Made
<1>7. /\ t.version = v /\ t.maxSteps = m /\ t.nodes = ByName(ns) /\ t.edges = ByEdge(es)
      /\ t.reducers = ByField(rs) /\ t.joins = BySource(js)
  BY <1>4, <1>5, <1>6
<1>8. t = [version |-> t.version, id |-> t.id, maxSteps |-> t.maxSteps, nodes |-> t.nodes,
           edges |-> t.edges, reducers |-> t.reducers, joins |-> t.joins]
  BY DEF Made
<1> QED  BY <1>2, <1>7, <1>8
-----------------------------------------------------------------------------
(* The life of a description.                                              *)

\* The fields of a serialised description.
IsEnvelope(d) ==
  /\ DOMAIN d = {"id", "payload", "strays"}
  /\ DOMAIN d.payload = Lists \cup {"version", "maxSteps"}

\* A description whose lists differ from those of a spec in order only.
SameRecords(d, s) ==
  /\ d.strays = {} /\ d.payload.version = s.version /\ d.payload.maxSteps = s.maxSteps
  /\ \A f \in Lists : /\ ToSet(d.payload[f]) = ToSet(s[f])
                      /\ IsInjective(s[f]) => IsInjective(d.payload[f])

\* What is sent was made, and what has become of it carries its id.
Sent ==
  /\ Made(origin)
  /\ IsEnvelope(wire) /\ Carries(wire, origin.id)
  /\ edits = 0 => wire = ToDict(origin)
  /\ ~rewritten => SameRecords(wire, origin)

\* The inductive invariant.
ExchangeInv ==
  /\ Registered(nodes, edges, reducers)
  /\ IsSpec(compiled) => Made(compiled)
  /\ edits \in Nat /\ rewritten \in BOOLEAN
  /\ IF origin = Unsent THEN loaded = Unread /\ admitted = Unread ELSE Sent
  /\ loaded \in {Unread, Raised, origin}
  /\ admitted \in {Unread, Raised, origin}

\* Two neighbours of a list change places.
LEMMA SwapReorders ==
  ASSUME NEW T, NEW s \in Seq(T), NEW i \in 1 .. Len(s) - 1
  PROVE  /\ Swapped(s, i) \in Seq(T) /\ ToSet(Swapped(s, i)) = ToSet(s)
         /\ IsInjective(s) => IsInjective(Swapped(s, i))
<1> DEFINE r == Swapped(s, i)
           p == [k \in DOMAIN s |-> IF k = i THEN i + 1 ELSE IF k = i + 1 THEN i ELSE k]
<1>1. Len(s) \in Nat /\ DOMAIN s = 1 .. Len(s) /\ s \in [1 .. Len(s) -> T]
  BY LenProperties
<1>2. i \in Int /\ i \in DOMAIN s /\ i + 1 \in DOMAIN s /\ i + 1 # i
  BY <1>1
<1>3. DOMAIN r = DOMAIN s /\ \A k \in DOMAIN s : p[k] \in DOMAIN s /\ p[p[k]] = k /\ r[k] = s[p[k]]
  BY <1>2 DEF Swapped
<1>4. r \in [1 .. Len(s) -> T]
  BY <1>1, <1>2 DEF Swapped
<1>5. r \in Seq(T)
  BY <1>1, <1>4, IsASeq
<1> HIDE DEF r, p
<1>6. ToSet(r) = ToSet(s)
  <2>1. \A k \in DOMAIN s : \E m \in DOMAIN r : s[k] = r[m]
    BY <1>3
  <2>2. \A k \in DOMAIN r : \E m \in DOMAIN s : r[k] = s[m]
    BY <1>3
  <2> QED  BY <2>1, <2>2 DEF ToSet
<1>7. IsInjective(s) => IsInjective(r)
  <2>1. SUFFICES ASSUME IsInjective(s), NEW j \in DOMAIN r, NEW k \in DOMAIN r, r[j] = r[k] PROVE j = k
    BY DEF IsInjective
  <2>2. p[j] = p[k]
    BY <1>3, <2>1 DEF IsInjective
  <2> QED  BY <1>3, <2>1, <2>2
<1> QED  BY <1>5, <1>6, <1>7 DEF r

\* An edited list is still one of records.
LEMMA EditsAreTyped ==
  ASSUME NEW T, NEW s \in Seq(T), NEW x \in T
  PROVE  /\ \A i \in DOMAIN s : ReplaceAt(s, i, x) \in Seq(T) /\ RemoveAt(s, i) \in Seq(T)
         /\ Append(s, x) \in Seq(T)
<1>1. Len(s) \in Nat /\ DOMAIN s = 1 .. Len(s) /\ s \in [1 .. Len(s) -> T]
  BY LenProperties
<1>2. ASSUME NEW i \in DOMAIN s PROVE ReplaceAt(s, i, x) \in Seq(T)
  BY <1>1, IsASeq DEF ReplaceAt
<1>3. ASSUME NEW i \in DOMAIN s PROVE RemoveAt(s, i) \in Seq(T)
  <2>1. SubSeq(s, 1, i - 1) \in Seq(T)
    BY <1>1, SubSeqProperties
  <2>2. SubSeq(s, i + 1, Len(s)) \in Seq(T)
    BY <1>1, SubSeqProperties
  <2> QED  BY <2>1, <2>2, ConcatProperties DEF RemoveAt
<1> QED  BY <1>2, <1>3, AppendProperties

\* The form a spec is sent in is that spec's.
LEMMA SendingIsExact ==
  ASSUME NEW s, Made(s)
  PROVE  /\ IsEnvelope(ToDict(s)) /\ Carries(ToDict(s), s.id) /\ SameRecords(ToDict(s), s)
<1>1. ToDict(s) = [id |-> s.id, payload |-> s.id, strays |-> {}]
  BY MadeIsFixed DEF ToDict
<1>2. s.id = [version |-> s.version, maxSteps |-> s.maxSteps, nodes |-> s.nodes, edges |-> s.edges,
              reducers |-> s.reducers, joins |-> s.joins]
  BY DEF Made
<1> DEFINE d == ToDict(s)
           p == d.payload
<1>3. d.id = s.id /\ d.strays = {} /\ DOMAIN d = {"id", "payload", "strays"} /\ p = s.id
  BY <1>1
<1>4. /\ DOMAIN p = Lists \cup {"version", "maxSteps"}
      /\ p.version = s.version /\ p.maxSteps = s.maxSteps /\ p["nodes"] = s["nodes"] /\ p["edges"] = s["edges"]
      /\ p["reducers"] = s["reducers"] /\ p["joins"] = s["joins"]
  <2> HIDE DEF d
  <2> QED  BY <1>2, <1>3 DEF Lists
<1>5. s["nodes"] \in Seq(NodeSpecs) /\ s["edges"] \in Seq(EdgeSpecs) /\ s["reducers"] \in Seq(ReducerSpecs)
      /\ s["joins"] \in Seq(Joins)
  BY GoodIsTyped DEF Made
<1> HIDE DEF d, p
<1>6. \A f \in Lists : p[f] = s[f] /\ p[f] \in Seq(RecordsOf[f])
  BY <1>4, <1>5 DEF Lists, RecordsOf
<1>7. IsEnvelope(d)
  BY <1>3, <1>4 DEF IsEnvelope, p
<1>8. Carries(d, s.id)
  BY <1>3, <1>6 DEF Carries, p
<1>9. SameRecords(d, s)
  BY <1>3, <1>4, <1>6 DEF SameRecords, p
<1> QED  BY <1>7, <1>8, <1>9 DEF d

\* A description with another list in the field f, and what it then has.
Relisted(d, f, q) == [d EXCEPT !.payload[f] = q]
HasRelisted(e, d, f, q) ==
  /\ IsEnvelope(e) /\ e.id = d.id /\ e.strays = d.strays
  /\ e.payload.version = d.payload.version /\ e.payload.maxSteps = d.payload.maxSteps
  /\ e.payload[f] = q /\ \A g \in Lists \ {f} : e.payload[g] = d.payload[g]

\* Editing one list leaves the rest of the description as it is.
LEMMA EditedList ==
  ASSUME NEW d, IsEnvelope(d), NEW f \in Lists, NEW q
  PROVE  HasRelisted(Relisted(d, f, q), d, f, q)
<1> DEFINE e == [d EXCEPT !.payload[f] = q]
<1>1. f # "version" /\ f # "maxSteps" /\ f \in DOMAIN d.payload /\ "payload" \in DOMAIN d
  BY DEF IsEnvelope, Lists
<1>2. e.payload = [d.payload EXCEPT ![f] = q] /\ e.id = d.id /\ e.strays = d.strays /\ DOMAIN e = DOMAIN d
  BY <1>1 DEF IsEnvelope
<1>3. DOMAIN e.payload = DOMAIN d.payload
  BY <1>2
<1>4. IsEnvelope(e)
  BY <1>2, <1>3 DEF IsEnvelope
<1>5. \A g \in DOMAIN d.payload : e.payload[g] = IF g = f THEN q ELSE d.payload[g]
  BY <1>2
<1>6. "version" \in DOMAIN d.payload /\ "maxSteps" \in DOMAIN d.payload /\ Lists \subseteq DOMAIN d.payload
  BY DEF IsEnvelope
<1> HIDE DEF e
<1>7. HasRelisted(e, d, f, q)
  BY <1>1, <1>2, <1>4, <1>5, <1>6 DEF HasRelisted
<1> QED  BY <1>7 DEF e, Relisted

\* An edited description is one still, under the author's id; it has the
\* author's records unless somebody changed them.
LEMMA EditsKeepTheId ==
  ASSUME ExchangeInv, origin # Unsent, NEW d, NEW changes \in BOOLEAN, Edit(d, changes),
         IsEnvelope(d), Carries(d, wire.id), ~changes /\ SameRecords(wire, origin) => SameRecords(d, origin)
  PROVE  ExchangeInv'
<1>1. /\ wire' = d /\ edits' = edits + 1 /\ rewritten' = (rewritten \/ changes)
      /\ origin' = origin /\ loaded' = loaded /\ admitted' = admitted
      /\ nodes' = nodes /\ edges' = edges /\ reducers' = reducers /\ compiled' = compiled
  BY DEF Edit, built
<1>2. Sent /\ edits \in Nat /\ rewritten \in BOOLEAN
  BY DEF ExchangeInv
<1>3. wire.id = origin.id
  BY <1>2 DEF Sent, Carries
<1>4. edits' \in Nat /\ edits' # 0 /\ rewritten' \in BOOLEAN
  BY <1>1, <1>2
<1>5. ~rewritten' => SameRecords(d, origin)
  <2>1. ~rewritten' => ~rewritten /\ ~changes
    BY <1>1, <1>2
  <2> QED  BY <1>2, <2>1 DEF Sent
<1>6. Sent'
  BY <1>1, <1>2, <1>3, <1>4, <1>5 DEF Sent
<1> QED  BY <1>1, <1>4, <1>6 DEF ExchangeInv

\* Every edit keeps the invariant.
LEMMA EditsKeepTheInvariant ==
  ASSUME ExchangeInv, origin # Unsent
  PROVE  /\ (\E f \in Lists : Reorder(f) \/ Rewrite(f)) => ExchangeInv'
         /\ Relabel => ExchangeInv'
         /\ \A kind : Stray(kind) => ExchangeInv'
<1>1. IsEnvelope(wire) /\ Carries(wire, wire.id)
  BY DEF ExchangeInv, Sent, Carries
<1>2. ASSUME NEW f \in Lists, NEW q \in Seq(RecordsOf[f])
      PROVE  IsEnvelope(Relisted(wire, f, q)) /\ Carries(Relisted(wire, f, q), wire.id)
  <2> DEFINE d == Relisted(wire, f, q)
  <2>1. IsEnvelope(d) /\ d.id = wire.id /\ d.payload[f] = q /\ \A g \in Lists \ {f} : d.payload[g] = wire.payload[g]
    BY <1>1, EditedList DEF HasRelisted
  <2> HIDE DEF d
  <2> QED  BY <1>1, <2>1 DEF Carries, d
<1>3. ASSUME NEW f \in Lists, NEW q \in Seq(RecordsOf[f]), Edit([wire EXCEPT !.payload[f] = q], TRUE)
      PROVE  ExchangeInv'
  <2>1. Edit(Relisted(wire, f, q), TRUE)
    BY <1>3 DEF Relisted
  <2> QED  BY <1>2, <2>1, EditsKeepTheId
<1>4. ASSUME NEW f \in Lists PROVE wire.payload[f] \in Seq(RecordsOf[f]) /\ Records[f] \subseteq RecordsOf[f]
  BY <1>1, DescriptionsAssumption DEF Carries
<1>5. ASSUME NEW f \in Lists, Reorder(f) PROVE ExchangeInv'
  <2>1. PICK i \in 1 .. Len(wire.payload[f]) - 1 : Edit([wire EXCEPT !.payload[f] = Swapped(wire.payload[f], i)], FALSE)
    BY <1>5 DEF Reorder
  <2> DEFINE q == Swapped(wire.payload[f], i)
             d == Relisted(wire, f, q)
  <2>2. /\ q \in Seq(RecordsOf[f]) /\ ToSet(q) = ToSet(wire.payload[f])
        /\ IsInjective(wire.payload[f]) => IsInjective(q)
    BY <1>4, SwapReorders
  <2> HIDE DEF q
  <2>3. /\ d.strays = wire.strays /\ d.payload.version = wire.payload.version /\ d.payload.maxSteps = wire.payload.maxSteps
        /\ d.payload[f] = q /\ \A g \in Lists \ {f} : d.payload[g] = wire.payload[g]
    BY <1>1, EditedList DEF HasRelisted
  <2>4. IsEnvelope(d) /\ Carries(d, wire.id)
    BY <1>2, <2>2
  <2>5. Edit(d, FALSE)
    BY <2>1 DEF q, Relisted
  <2> HIDE DEF d
  <2>6. SameRecords(wire, origin) => SameRecords(d, origin)
    BY <2>2, <2>3 DEF SameRecords
  <2> QED  BY <2>4, <2>5, <2>6, EditsKeepTheId
<1>6. ASSUME NEW f \in Lists, Rewrite(f) PROVE ExchangeInv'
  <2>1. CASE \E i \in DOMAIN wire.payload[f], x \in Records[f] :
               Edit([wire EXCEPT !.payload[f] = ReplaceAt(wire.payload[f], i, x)], TRUE)
    BY <1>3, <1>4, <2>1, EditsAreTyped
  <2>2. CASE \E x \in Records[f] : Edit([wire EXCEPT !.payload[f] = Append(wire.payload[f], x)], TRUE)
    BY <1>3, <1>4, <2>2, EditsAreTyped
  <2>3. CASE \E i \in DOMAIN wire.payload[f] : Edit([wire EXCEPT !.payload[f] = RemoveAt(wire.payload[f], i)], TRUE)
    <3>1. PICK i \in DOMAIN wire.payload[f] : Edit([wire EXCEPT !.payload[f] = RemoveAt(wire.payload[f], i)], TRUE)
      BY <2>3
    <3>2. wire.payload[f][i] \in RecordsOf[f]
      BY <1>4, LenProperties, ElementOfSeq
    <3>3. RemoveAt(wire.payload[f], i) \in Seq(RecordsOf[f])
      BY <1>4, <3>2, EditsAreTyped
    <3> QED  BY <1>3, <3>1, <3>3
  <2> QED  BY <1>6, <2>1, <2>2, <2>3 DEF Rewrite
<1>7. ASSUME Relabel PROVE ExchangeInv'
  <2>1. PICK v : Edit([wire EXCEPT !.payload.version = v], TRUE)
    BY <1>7 DEF Relabel
  <2> DEFINE d == [wire EXCEPT !.payload.version = v]
  <2>2. d.id = wire.id /\ DOMAIN d = DOMAIN wire /\ d.payload = [wire.payload EXCEPT !.version = v]
    BY <1>1 DEF IsEnvelope
  <2>3. DOMAIN d.payload = DOMAIN wire.payload /\ \A g \in Lists : d.payload[g] = wire.payload[g]
    <3>1. \A g \in Lists : g \in DOMAIN wire.payload /\ g # "version"
      BY <1>1 DEF IsEnvelope, Lists
    <3> QED  BY <2>2, <3>1
  <2> HIDE DEF d
  <2>4. IsEnvelope(d) /\ Carries(d, wire.id)
    BY <1>1, <2>2, <2>3 DEF IsEnvelope, Carries
  <2> QED  BY <2>1, <2>4, EditsKeepTheId DEF d
<1>8. ASSUME NEW kind, Stray(kind) PROVE ExchangeInv'
  <2> DEFINE d == [wire EXCEPT !.strays = wire.strays \cup {kind}]
  <2>1. Edit(d, TRUE)
    BY <1>8 DEF Stray
  <2>2. d.id = wire.id /\ DOMAIN d = DOMAIN wire /\ d.payload = wire.payload
    BY <1>1 DEF IsEnvelope
  <2> HIDE DEF d
  <2>4. IsEnvelope(d) /\ Carries(d, wire.id)
    BY <1>1, <2>2 DEF IsEnvelope, Carries
  <2> QED  BY <2>1, <2>4, EditsKeepTheId
<1> QED  BY <1>5, <1>6, <1>7, <1>8

\* Nothing is registered at first.
LEMMA ExchangeInit == Init => ExchangeInv
<1>1. \A S : <<>> \in Seq(S)
  BY EmptySeq
<1>2. Registered(<<>>, <<>>, <<>>)
  <2>1. <<>> \in Seq(NodeSpecs) /\ <<>> \in Seq(GoodRoutes) /\ <<>> \in Seq(BoundReducers)
    BY <1>1
  <2>2. \A key : UniqueBy(<<>>, key)
    BY DEF UniqueBy
  <2> QED  BY <2>1, <2>2 DEF Registered
<1>3. Init => Registered(nodes, edges, reducers) /\ ~IsSpec(compiled)
  BY <1>2 DEF Init, BuilderInit, IsSpec
<1>4. ASSUME Init
      PROVE  /\ origin = Unsent /\ loaded = Unread /\ admitted = Unread
             /\ edits \in Nat /\ rewritten \in BOOLEAN
  BY <1>4 DEF Init
<1> QED  BY <1>3, <1>4 DEF ExchangeInv

\* Every call of the builder keeps the invariant.
LEMMA CallsKeepTheInvariant ==
  ASSUME ExchangeInv, BuilderNext, origin = Unsent, UNCHANGED sent
  PROVE  ExchangeInv'
<1>1. /\ Registered(nodes, edges, reducers) /\ (IsSpec(compiled) => Made(compiled))
      /\ Nodes \subseteq NodeSpecs /\ Reducers \subseteq ReducerSpecs
  BY RegistriesAssumption DEF ExchangeInv
<1>2. SUFFICES Registered(nodes', edges', reducers') /\ (IsSpec(compiled') => Made(compiled'))
  BY DEF ExchangeInv, sent
<1>3. ASSUME NEW n \in Nodes, AddNode(n)
      PROVE  Registered(nodes', edges', reducers') /\ (IsSpec(compiled') => Made(compiled'))
  BY <1>1, <1>3, PutKeepsKeys DEF AddNode, Registered
<1>4. ASSUME NEW e \in Routes, AddEdge(e)
      PROVE  Registered(nodes', edges', reducers') /\ (IsSpec(compiled') => Made(compiled'))
  <2>1. e \in GoodRoutes
    BY <1>4 DEF AddEdge, GoodRoutes
  <2> QED  BY <1>1, <1>4, <2>1, PutKeepsKeys DEF AddEdge, Registered
<1>5. ASSUME NEW r \in Reducers, AddReducer(r)
      PROVE  Registered(nodes', edges', reducers') /\ (IsSpec(compiled') => Made(compiled'))
  <2>1. r \in BoundReducers
    BY <1>1, <1>5 DEF AddReducer, BoundReducers
  <2> QED  BY <1>1, <1>5, <2>1, PutKeepsKeys DEF AddReducer, Registered
<1>6. ASSUME Compile \/ CompileValidated
      PROVE  Registered(nodes', edges', reducers') /\ (IsSpec(compiled') => Made(compiled'))
  <2>1. /\ compiled' = Describe(nodes, edges, reducers)
        /\ nodes' = nodes /\ edges' = edges /\ reducers' = reducers
    BY <1>6 DEF Compile, CompileValidated, Description
  <2> QED  BY <1>1, <2>1, DescribedIfNamed, DescribedIsMade DEF MadeFrom
<1> QED  BY <1>3, <1>4, <1>5, <1>6 DEF BuilderNext

\* Whoever sends a made spec keeps the invariant.
LEMMA SendingKeepsTheInvariant ==
  ASSUME ExchangeInv, NEW s, Made(s), Send(s)
  PROVE  ExchangeInv'
<1>1. /\ origin = Unsent /\ origin' = s /\ wire' = ToDict(s)
      /\ nodes' = <<>> /\ edges' = <<>> /\ reducers' = <<>> /\ compiled' = Raised
      /\ edits' = edits /\ rewritten' = rewritten /\ loaded' = loaded /\ admitted' = admitted
  BY DEF Send
<1>2. Registered(<<>>, <<>>, <<>>)
  <2>1. <<>> \in Seq(NodeSpecs) /\ <<>> \in Seq(GoodRoutes) /\ <<>> \in Seq(BoundReducers)
    BY EmptySeq
  <2>2. \A key : UniqueBy(<<>>, key)
    BY DEF UniqueBy
  <2> QED  BY <2>1, <2>2 DEF Registered
<1>3. loaded = Unread /\ admitted = Unread /\ edits \in Nat /\ rewritten \in BOOLEAN
  BY <1>1 DEF ExchangeInv
<1>4. Sent'
  BY <1>1, SendingIsExact DEF Sent
<1> QED  BY <1>1, <1>2, <1>3, <1>4 DEF ExchangeInv, IsSpec

\* What is created from records was made.
LEMMA AuthoredIsMade ==
  ASSUME NEW a \in Authored, IsSpec(Create(a.version, a.maxSteps, a.nodes, a.edges, a.reducers, a.joins))
  PROVE  Made(Create(a.version, a.maxSteps, a.nodes, a.edges, a.reducers, a.joins))
<1>1. /\ a.version \in SupportedVersions \cup {"inferred"} /\ a.nodes \in Seq(NodeSpecs)
      /\ a.edges \in Seq(GoodEdges) /\ a.reducers \in Seq(GoodReducers) /\ a.joins \in Seq(GoodJoins)
  BY DescriptionsAssumption DEF IsArguments, GoodEdges, GoodReducers, GoodJoins
<1> QED  BY <1>1, CreatedIsMade DEF MadeFrom

\* Who reads an edited description gets the author's spec or an exception.
LEMMA ReadingKeepsTheInvariant ==
  ASSUME ExchangeInv, Load \/ Admit
  PROVE  ExchangeInv'
<1>1. Sent
  BY DEF ExchangeInv, Load, Admit
<1>2. Made(origin) /\ Carries(wire, origin.id) /\ wire.id = origin.id
  BY <1>1 DEF Sent, Carries
<1>3. CASE Load
  <2>1. loaded' \in {Raised, origin}
    BY <1>2, <1>3, LoadingIsExact DEF Load
  <2>2. /\ origin # Unsent /\ origin' = origin /\ wire' = wire /\ edits' = edits /\ rewritten' = rewritten
        /\ admitted' = admitted /\ nodes' = nodes /\ edges' = edges /\ reducers' = reducers
        /\ compiled' = compiled
    BY <1>3 DEF Load, built
  <2>3. Sent'
    BY <1>1, <2>2 DEF Sent
  <2> QED  BY <2>1, <2>2, <2>3 DEF ExchangeInv
<1>4. CASE Admit
  <2>1. admitted' \in {Raised, origin}
    BY <1>2, <1>4, CarriedLists, AdmittingIsExact DEF Admit
  <2>2. /\ origin # Unsent /\ origin' = origin /\ wire' = wire /\ edits' = edits /\ rewritten' = rewritten
        /\ loaded' = loaded /\ nodes' = nodes /\ edges' = edges /\ reducers' = reducers
        /\ compiled' = compiled
    BY <1>4 DEF Admit, built
  <2>3. Sent'
    BY <1>1, <2>2 DEF Sent
  <2> QED  BY <2>1, <2>2, <2>3 DEF ExchangeInv
<1> QED  BY <1>3, <1>4

\* The invariant holds throughout.
LEMMA ExchangeInvariance == Spec => []ExchangeInv
<1>1. ExchangeInv /\ [Next]_vars => ExchangeInv'
  <2> SUFFICES ASSUME ExchangeInv, [Next]_vars PROVE ExchangeInv'
    OBVIOUS
  <2>1. CASE origin = Unsent /\ BuilderNext /\ UNCHANGED sent
    BY <2>1, CallsKeepTheInvariant
  <2>2. CASE SendBuilt
    BY <2>2, SendingKeepsTheInvariant DEF SendBuilt, ExchangeInv
  <2>3. CASE SendCreated
    BY <2>3, AuthoredIsMade, SendingKeepsTheInvariant DEF SendCreated
  <2>4. CASE /\ origin # Unsent
             /\ \/ \E f \in Lists : Reorder(f) \/ Rewrite(f)
                \/ Relabel
                \/ \E kind \in {"graph", "node", "edge", "reducer", "join"} : Stray(kind)
    BY <2>4, EditsKeepTheInvariant
  <2>5. CASE Load \/ Admit
    BY <2>5, ReadingKeepsTheInvariant
  <2>6. CASE UNCHANGED vars
    BY <2>6 DEF vars, built, sent, ExchangeInv, Sent
  <2> QED  BY <2>1, <2>2, <2>3, <2>4, <2>5, <2>6 DEF Next
<1> QED  BY <1>1, ExchangeInit, PTL DEF Spec

-----------------------------------------------------------------------------
(* What the reader gets.                                                   *)

\* A valid description loads in any order of its lists (spec.py:277-286, 301-330).
LEMMA ReorderedLoads ==
  ASSUME NEW t, Made(t), Valid(t), NEW d, Carries(d, t.id), SameRecords(d, t)
  PROVE  FromDict(d) = t
<1> DEFINE p == d.payload
           c == Create(p.version, p.maxSteps, p.nodes, p.edges, p.reducers, p.joins)
<1>1. /\ t.version \in SupportedVersions
      /\ t.nodes \in Seq(NodeSpecs) /\ t.edges \in Seq(GoodEdges)
      /\ t.reducers \in Seq(GoodReducers) /\ t.joins \in Seq(GoodJoins)
  BY DEF Made
<1>2. /\ UniqueBy(t.nodes, "name") /\ UniqueBy(t.edges, "source")
      /\ UniqueBy(t.reducers, "field") /\ UniqueBy(t.joins, "source")
  BY <1>1, ValidMeans, NotRepeated
<1>3. /\ IsInjective(t.nodes) /\ IsInjective(t.edges) /\ IsInjective(t.reducers) /\ IsInjective(t.joins)
  BY <1>2 DEF UniqueBy, IsInjective
<1>4. /\ p.version = t.version /\ p.maxSteps = t.maxSteps
      /\ Reordered(t.nodes, p.nodes) /\ Reordered(t.edges, p.edges)
      /\ Reordered(t.reducers, p.reducers) /\ Reordered(t.joins, p.joins)
  BY <1>3 DEF SameRecords, Reordered, Lists
<1> HIDE DEF p
<1>5. /\ p.nodes \in Seq(NodeSpecs) /\ p.edges \in Seq(EdgeSpecs)
      /\ p.reducers \in Seq(ReducerSpecs) /\ p.joins \in Seq(Joins)
  BY CarriedLists DEF p
<1>6. p.edges \in Seq(GoodEdges) /\ p.reducers \in Seq(GoodReducers) /\ p.joins \in Seq(GoodJoins)
  <2>1. p.edges \in Seq(GoodEdges)
    BY <1>1, <1>4, <1>5, GoodStaysGood DEF Reordered
  <2>2. p.reducers \in Seq(GoodReducers)
    BY <1>1, <1>4, <1>5, GoodStaysGood DEF Reordered
  <2>3. p.joins \in Seq(GoodJoins)
    BY <1>1, <1>4, <1>5, GoodStaysGood DEF Reordered
  <2> QED  BY <2>1, <2>2, <2>3
<1>7. Create(t.version, t.maxSteps, t.nodes, t.edges, t.reducers, t.joins) = c
  BY <1>1, <1>2, <1>4, <1>5, <1>6, CreateIsCanonical
<1>8. c = t
  BY <1>7, MadeIsFixed
<1>9. Loadable(d)
  <2>1. ASSUME NEW T, NEW q \in Seq(T), NEW x \in ToSet(q) PROVE x \in T
    BY ElementOfSeq, LenProperties DEF ToSet
  <2>2. \A e \in ToSet(p.edges) : EdgeConstructs(e)
    BY <1>6, <2>1 DEF GoodEdges
  <2>3. \A r \in ToSet(p.reducers) : ReducerConstructs(r)
    BY <1>6, <2>1 DEF GoodReducers
  <2>4. \A j \in ToSet(p.joins) : JoinConstructs(j)
    BY <1>6, <2>1 DEF GoodJoins
  <2> QED  BY <1>1, <1>4, <2>2, <2>3, <2>4 DEF SameRecords, Loadable, p
<1>10. t # Raised /\ d.id = t.id
  BY <1>1 DEF Raised, SupportedVersions, Carries
<1>11. FromDict(d) = IF Loadable(d) /\ IsSpec(c) /\ d.id = c.id THEN c ELSE Raised
  BY DEF FromDict, p
<1> HIDE DEF c
<1> QED  BY <1>8, <1>9, <1>10, <1>11 DEF IsSpec

\* Whoever reads a description under the author's graph_id gets what the author
\* sent or an exception, and gets it unless somebody changed more than order.
THEOREM ReadersGetTheOrigin == Spec => []ReaderGetsOrigin
<1>1. ExchangeInv => ReaderGetsOrigin
  <2> SUFFICES ASSUME ExchangeInv PROVE ReaderGetsOrigin
    OBVIOUS
  <2>1. LoadedIsOrigin /\ AdmittedIsOrigin
    BY DEF ExchangeInv, LoadedIsOrigin, AdmittedIsOrigin
  <2>2. ASSUME origin # Unsent, edits = 0 \/ (~rewritten /\ Valid(origin)) PROVE FromDict(wire) = origin
    <3>1. Sent
      BY <2>2 DEF ExchangeInv
    <3>2. CASE edits = 0
      BY <3>1, <3>2, MadeIsFixed DEF Sent
    <3>3. CASE ~rewritten /\ Valid(origin)
      BY <3>1, <3>3, ReorderedLoads DEF Sent
    <3> QED  BY <2>2, <3>2, <3>3
  <2> QED  BY <2>1, <2>2 DEF ReaderGetsOrigin, DeliveryIsAccepted
<1> QED  BY <1>1, ExchangeInvariance, PTL

-----------------------------------------------------------------------------
(* What a builder describes.                                               *)

\* The orders of a list are the lists of its entries.
LEMMA OrdersReorder ==
  ASSUME NEW T, NEW s \in Seq(T), IsInjective(s), NEW r \in Orders(s)
  PROVE  r \in Seq(T) /\ Reordered(s, r)
<1> DEFINE S == ToSet(s)
           n == Len(s)
<1>1. n \in Nat /\ DOMAIN s = 1 .. n /\ s \in [1 .. n -> T]
  BY LenProperties
<1>2. s \in [1 .. n -> S] /\ (\A i, j \in 1 .. n : s[i] = s[j] => i = j) /\ \A x \in S : \E i \in 1 .. n : s[i] = x
  BY <1>1 DEF ToSet, IsInjective
<1>3. IsFiniteSet(S) /\ Cardinality(S) = n
  <2> HIDE DEF S, n
  <2> QED  BY <1>1, <1>2, CountedOnce
<1>4. r \in [1 .. n -> S] /\ \A i, j \in 1 .. n : i # j => r[i] # r[j]
  <2> HIDE DEF n
  <2> QED  BY <1>3 DEF Orders, SetToSeqs
<1>5. S \subseteq T
  BY <1>1 DEF ToSet
<1> HIDE DEF S, n
<1>6. r \in Seq(T)
  <2>1. r \in [1 .. n -> T]
    BY <1>4, <1>5
  <2> QED  BY <1>1, <2>1, IsASeq
<1>7. ToSet(r) = S
  <2>1. r \in Injection(1 .. n, S)
    BY <1>4, Fun_IsInj
  <2>2. r \in Surjection(1 .. n, S)
    BY <1>1, <1>3, <2>1, CountTo, FS_Injection
  <2> DEFINE I == 1 .. n
  <2>3. \A x \in S : \E i \in I : r[i] = x
    <3>1. r \in Surjection(I, S)
      BY <2>2
    <3> HIDE DEF I
    <3> QED  BY <3>1, Fun_SurjectionProperties
  <2> QED  BY <1>4, <2>3 DEF ToSet
<1>8. IsInjective(r)
  BY <1>4 DEF IsInjective
<1> QED  BY <1>6, <1>7, <1>8 DEF Reordered, S

\* What is registered has one description, in whatever order it was
\* (engine.py:228-292).
LEMMA DescribeIsCanonical ==
  ASSUME NEW ns, NEW es, NEW rs, Registered(ns, es, rs),
         NEW ns2 \in Seq(NodeSpecs), NEW es2 \in Seq(GoodRoutes), NEW rs2 \in Seq(BoundReducers),
         Reordered(ns, ns2), Reordered(es, es2), Reordered(rs, rs2)
  PROVE  Describe(ns, es, rs) = Describe(ns2, es2, rs2)
<1>1. /\ ns \in Seq(NodeSpecs) /\ UniqueBy(ns, "name") /\ es \in Seq(GoodRoutes) /\ UniqueBy(es, "source")
      /\ rs \in Seq(BoundReducers) /\ UniqueBy(rs, "field") /\ UniqueBy(es2, "source")
  BY UniqueEntries DEF Registered
<1>a. Named(rs) <=> Named(rs2)
  BY DEF Named, Reordered
<1>2. /\ EdgesOf(es) \in Seq(GoodEdges) /\ UniqueBy(EdgesOf(es), "source")
      /\ JoinSpecs(es) \in Seq(GoodJoins) /\ UniqueBy(JoinSpecs(es), "source")
      /\ EdgesOf(es2) \in Seq(GoodEdges) /\ UniqueBy(EdgesOf(es2), "source")
      /\ JoinSpecs(es2) \in Seq(GoodJoins) /\ UniqueBy(JoinSpecs(es2), "source")
  BY <1>1, RoutesAreDescribed
<1>3. ToSet(EdgesOf(es)) = ToSet(EdgesOf(es2)) /\ ToSet(JoinSpecs(es)) = ToSet(JoinSpecs(es2))
  <2>1. ToSet(es2) = ToSet(es)
    BY DEF Reordered
  <2>2. /\ ToSet(EdgesOf(es)) = {EdgeSpecOf(e) : e \in ToSet(es)}
        /\ ToSet(EdgesOf(es2)) = {EdgeSpecOf(e) : e \in ToSet(es)}
        /\ ToSet(JoinSpecs(es)) = {e.join : e \in {f \in ToSet(es) : f.kind = "fanout"}}
        /\ ToSet(JoinSpecs(es2)) = {e.join : e \in {f \in ToSet(es) : f.kind = "fanout"}}
    BY <1>1, <2>1, RoutesAreDescribed
  <2> QED  BY <2>2
<1>4. Reordered(EdgesOf(es), EdgesOf(es2)) /\ Reordered(JoinSpecs(es), JoinSpecs(es2))
  BY <1>2, <1>3 DEF Reordered, UniqueBy, IsInjective
<1>5. CASE Named(rs)
  <2>1. rs \in Seq(GoodReducers) /\ rs2 \in Seq(GoodReducers)
    BY <1>1, <1>a, <1>5, NamedReducers
  <2>2. Create("inferred", Limit, ns, EdgesOf(es), rs, JoinSpecs(es))
          = Create("inferred", Limit, ns2, EdgesOf(es2), rs2, JoinSpecs(es2))
    BY <1>1, <1>2, <1>4, <2>1, CreateIsCanonical
  <2> QED  BY <1>a, <1>5, <2>2 DEF Describe, EdgesOf, Named
<1>6. CASE ~Named(rs)
  BY <1>a, <1>6 DEF Describe, Named
<1> QED  BY <1>5, <1>6

\* Sorting an unrepeated list reorders it.
LEMMA SortsReorder ==
  /\ \A s \in Seq(NodeSpecs) : IsInjective(s) => Reordered(s, ByName(s))
  /\ \A s \in Seq(EdgeSpecs) : IsInjective(s) => Reordered(s, ByEdge(s))
  /\ \A s \in Seq(ReducerSpecs) : IsInjective(s) => Reordered(s, ByField(s))
  /\ \A s \in Seq(Joins) : IsInjective(s) => Reordered(s, ByJoin(s))
<1>1. ASSUME NEW T, NEW s \in Seq(T), NEW K \in [T -> Keys], IsInjective(s) PROVE Reordered(s, Sorted(s, K))
  BY <1>1, SortKeepsEntries DEF Reordered
<1>2. \A s \in Seq(NodeSpecs) : IsInjective(s) => Reordered(s, ByName(s))
  BY <1>1, KeysAreKeys, ListsAreSorted
<1>3. \A s \in Seq(EdgeSpecs) : IsInjective(s) => Reordered(s, ByEdge(s))
  BY <1>1, KeysAreKeys, ListsAreSorted
<1>4. \A s \in Seq(ReducerSpecs) : IsInjective(s) => Reordered(s, ByField(s))
  BY <1>1, KeysAreKeys, ListsAreSorted
<1>5. \A s \in Seq(Joins) : IsInjective(s) => Reordered(s, ByJoin(s))
  BY <1>1, KeysAreKeys, ListsAreSorted
<1> QED  BY <1>2, <1>3, <1>4, <1>5

\* The joins a description keeps are those of its regions that are not the
\* default one (engine.py:244-260 with spec.py:313-332).
LEMMA JoinsDescribed ==
  ASSUME NEW es \in Seq(GoodRoutes), UniqueBy(es, "source")
  PROVE  LET kept == KeptJoins(EdgesOf(es), JoinSpecs(es))
         IN  /\ kept \in Seq(Joins) /\ UniqueBy(kept, "source")
             /\ ToSet(kept) = {e.join : e \in {f \in ToSet(es) : f.kind = "fanout" /\ f.join.kind # "all"}}
<1> DEFINE js == JoinSpecs(es)
           I == Kept(EdgesOf(es), js)
           picked == Picked(js, I)
           kept == KeptJoins(EdgesOf(es), js)
<1>1. /\ js \in Seq(GoodJoins) /\ js \in Seq(Joins) /\ UniqueBy(js, "source")
      /\ ToSet(EdgesOf(es)) = {EdgeSpecOf(e) : e \in ToSet(es)}
      /\ ToSet(js) = {e.join : e \in {f \in ToSet(es) : f.kind = "fanout"}}
  BY RoutesAreDescribed, GoodIsTyped
<1>2. I \subseteq DOMAIN js
  BY DEF Kept
<1> HIDE DEF js
<1>3. IsInjective(js)
  BY <1>1 DEF UniqueBy, IsInjective
<1>4. /\ picked \in Seq(Joins) /\ IsInjective(picked) /\ ToSet(picked) = {js[i] : i \in I}
      /\ Arranges(picked, js, I)
  <2> HIDE DEF I
  <2> QED  BY <1>1, <1>2, <1>3, PickedLists
<1>5. /\ kept = ByJoin(picked) /\ kept \in Seq(Joins) /\ ToSet(kept) = ToSet(picked)
      /\ Reordered(picked, kept)
  BY <1>4, SortsSettle, SortsReorder DEF KeptJoins
<1> HIDE DEF I, picked, kept
<1>6. UniqueBy(kept, "source")
  <2>1. \A x, y \in ToSet(js) : x["source"] = y["source"] => x = y
    BY <1>1 DEF UniqueBy, ToSet
  <2>2. ToSet(kept) \subseteq ToSet(js)
    BY <1>2, <1>4, <1>5 DEF ToSet
  <2>3. \A i \in DOMAIN kept : kept[i] \in ToSet(js)
    BY <2>2 DEF ToSet
  <2> QED  BY <1>5, <2>1, <2>3 DEF UniqueBy, Reordered, IsInjective
<1>7. ASSUME NEW i \in DOMAIN js PROVE i \in I <=> js[i].kind # "all"
  <2>1. SoleJoin(js, js[i])
    BY <1>1, AloneMeansOnce DEF UniqueBy
  <2>2. js[i] \in ToSet(js)
    BY DEF ToSet
  <2>3. PICK e \in ToSet(es) : e.kind = "fanout" /\ js[i] = e.join
    BY <1>1, <2>2
  <2>4. e \in GoodRoutes
    BY ElementOfSeq, LenProperties DEF ToSet
  <2>5. e.join.source = e.source
    BY <2>4, RegistriesAssumption DEF GoodRoutes, IsRoute
  <2>6. EdgeSpecOf(e) \in ToSet(EdgesOf(es)) /\ EdgeSpecOf(e).kind = "fanout" /\ EdgeSpecOf(e).source = e.source
    BY <1>1, <2>3 DEF EdgeSpecOf
  <2>7. js[i].source \in FanoutSources(EdgesOf(es))
    BY <2>3, <2>5, <2>6 DEF FanoutSources
  <2> QED  BY <2>1, <2>7 DEF I, Kept, IsImplied, IsDefault
<1>8. ToSet(kept) = {j \in ToSet(js) : j.kind # "all"}
  <2>1. ToSet(kept) = {js[i] : i \in I} /\ ToSet(js) = {js[i] : i \in DOMAIN js}
    BY <1>4, <1>5 DEF ToSet
  <2> QED  BY <1>2, <1>7, <2>1
<1>9. {j \in ToSet(js) : j.kind # "all"} = {e.join : e \in {f \in ToSet(es) : f.kind = "fanout" /\ f.join.kind # "all"}}
  BY <1>1
<1> QED  BY <1>5, <1>6, <1>8, <1>9 DEF kept, js

\* What lint can say of a registry is what AuthorErrors lists
\* (engine.py:228-292, 1025-1046 with lint.py:77-482).
LEMMA DescribedErrors ==
  ASSUME NEW ns, NEW es, NEW rs, Registered(ns, es, rs), Named(rs)
  PROVE  \A issue \in Errors(Describe(ns, es, rs)) : issue.code \in AuthorErrors
<1> DEFINE d == Describe(ns, es, rs)
<1>1. /\ ns \in Seq(NodeSpecs) /\ UniqueBy(ns, "name") /\ es \in Seq(GoodRoutes) /\ UniqueBy(es, "source")
      /\ rs \in Seq(GoodReducers) /\ rs \in Seq(ReducerSpecs) /\ UniqueBy(rs, "field")
  BY NamedReducers, GoodIsTyped DEF Registered
<1>2. /\ EdgesOf(es) \in Seq(GoodEdges) /\ EdgesOf(es) \in Seq(EdgeSpecs) /\ UniqueBy(EdgesOf(es), "source")
      /\ ToSet(EdgesOf(es)) = {EdgeSpecOf(e) : e \in ToSet(es)}
  BY <1>1, RoutesAreDescribed, GoodIsTyped
<1>3. /\ Made(d) /\ d.nodes = ByName(ns) /\ d.edges = ByEdge(EdgesOf(es)) /\ d.reducers = ByField(rs)
      /\ d.joins = KeptJoins(EdgesOf(es), JoinSpecs(es))
  BY DescribedIsMade DEF MadeFrom
<1> HIDE DEF d
<1>4. IsInjective(ns) /\ IsInjective(EdgesOf(es)) /\ IsInjective(rs)
  BY <1>1, <1>2 DEF UniqueBy, IsInjective
<1>5. /\ Reordered(ns, d.nodes) /\ Reordered(EdgesOf(es), d.edges) /\ Reordered(rs, d.reducers)
      /\ UniqueBy(d.nodes, "name") /\ UniqueBy(d.edges, "source") /\ UniqueBy(d.reducers, "field")
  <2>1. Reordered(ns, d.nodes) /\ Reordered(EdgesOf(es), d.edges) /\ Reordered(rs, d.reducers)
    BY <1>1, <1>2, <1>3, <1>4, SortsReorder
  <2> QED  BY <1>1, <1>2, <2>1, UniqueEntries
<1>6. /\ d.joins \in Seq(Joins) /\ UniqueBy(d.joins, "source")
      /\ ToSet(d.joins) = {e.join : e \in {f \in ToSet(es) : f.kind = "fanout" /\ f.join.kind # "all"}}
  BY <1>1, <1>3, JoinsDescribed
<1>7. /\ Repeated(d.nodes, "name") = {} /\ Repeated(d.edges, "source") = {}
      /\ Repeated(d.reducers, "field") = {} /\ Repeated(d.joins, "source") = {}
  <2>1. d.nodes \in Seq(NodeSpecs) /\ d.edges \in Seq(GoodEdges) /\ d.reducers \in Seq(GoodReducers)
    BY <1>3 DEF Made
  <2> QED  BY <1>5, <1>6, <2>1, NotRepeated
<1>8. ToSet(d.edges) \subseteq GoodEdges /\ ToSet(d.edges) = {EdgeSpecOf(e) : e \in ToSet(es)}
  <2>1. d.edges \in Seq(GoodEdges)
    BY <1>3 DEF Made
  <2>2. ToSet(d.edges) \subseteq GoodEdges
    BY <2>1, ElementOfSeq, LenProperties DEF ToSet
  <2> QED  BY <1>2, <1>5, <2>2 DEF Reordered
<1>9. \A condition, code, at, to : \A issue \in When(condition, code, at, to) : condition /\ issue.code = code
  BY DEF When, Issue
<1>10. /\ \A code, at, to : Issue(code, at, to).code = code
       /\ \A condition, code, at, to : \A issue \in When(condition, code, at, to) : issue.code = code
  BY DEF Issue, When
<1>11. IdentityErrors(d) = {}
  <2>1. d.version \in SupportedVersions /\ d.id = PayloadOf(d)
    BY <1>3, MadeIsFixed DEF Made
  <2> QED  BY <2>1 DEF IdentityErrors, When, GraphId
<1>12. \A issue \in NodeErrors(d) : issue.code \in {"GS002", "GS011", "GS010"}
  BY <1>7, <1>9, <1>10 DEF NodeErrors
<1>13. ASSUME NEW e \in ToSet(d.edges)
       PROVE  /\ e.kind = "static" => \A issue \in StaticErrors(d, e) : issue.code \in {"GS004", "GS005"}
              /\ e.kind = "conditional" => \A issue \in ConditionalErrors(d, e) : issue.code \in {"GS006", "GS007"}
  <2>1. EdgeConstructs(e)
    BY <1>8 DEF GoodEdges
  <2>2. e.kind = "static" \/ e.kind = "conditional" => ~BadShape(e)
    BY <2>1 DEF EdgeConstructs, BadShape
  <2>3. ASSUME e.kind = "static", NEW issue \in StaticErrors(d, e) PROVE issue.code \in {"GS004", "GS005"}
    BY <1>9, <2>2, <2>3 DEF StaticErrors
  <2>4. ASSUME e.kind = "conditional", NEW issue \in ConditionalErrors(d, e) PROVE issue.code \in {"GS006", "GS007"}
    BY <1>9, <1>10, <2>2, <2>4 DEF ConditionalErrors
  <2> QED  BY <2>3, <2>4
<1>14. \A issue \in EdgeErrors(d) : issue.code \in {"GS003", "GS004", "GS005", "GS006", "GS007"}
  BY <1>7, <1>9, <1>13 DEF EdgeErrors, Edges
<1>15. VersionErrors(d) = {}
  <2>1. VersionFits(d.version, UsesR3(d.edges, d.reducers, d.joins))
    BY <1>3 DEF Made
  <2> QED  BY <2>1 DEF VersionErrors, When, VersionFits
<1>16. ASSUME NEW j \in ToSet(d.joins)
       PROVE  /\ j.source \in FanoutSources(d.edges)
              /\ j.kind = "quorum" => ~(j.quorum > BranchCount(d, j.source))
  <2>1. PICK e \in ToSet(es) : e.kind = "fanout" /\ j = e.join
    BY <1>6
  <2>2. e \in GoodRoutes
    BY <1>1, ElementOfSeq, LenProperties DEF ToSet
  <2>3. FanOutConstructs(e) /\ IsRoute(e)
    BY <2>2, RegistriesAssumption DEF GoodRoutes
  <2> DEFINE x == EdgeSpecOf(e)
  <2>4. x \in ToSet(d.edges) /\ x.kind = "fanout" /\ x.source = j.source /\ x.declared = e.declared
    BY <1>8, <2>1, <2>3 DEF IsRoute, EdgeSpecOf
  <2> HIDE DEF x
  <2>5. j.source \in FanoutSources(d.edges)
    BY <2>4 DEF FanoutSources
  <2>6. d.edges \in Seq(GoodEdges) /\ Len(d.edges) \in Nat /\ DOMAIN d.edges = 1 .. Len(d.edges)
    BY <1>3, LenProperties DEF Made
  <2>7. PICK m \in DOMAIN d.edges : d.edges[m] = x
    BY <2>4 DEF ToSet
  <2> DEFINE IsLast(i) == /\ d.edges[i].kind = "fanout" /\ d.edges[i].source = j.source
                          /\ \A k \in i + 1 .. Len(d.edges) :
                               d.edges[k].source = j.source => d.edges[k].kind # "fanout"
             last == CHOOSE i \in DOMAIN d.edges : IsLast(i)
  <2>8. IsLast(m)
    <3>1. ASSUME NEW k \in m + 1 .. Len(d.edges) PROVE d.edges[k].source # j.source
      <4>1. k \in DOMAIN d.edges /\ k # m
        BY <2>6, <2>7
      <4>2. d.edges[k]["source"] # d.edges[m]["source"]
        BY <1>5, <2>7, <4>1 DEF UniqueBy
      <4> QED  BY <2>4, <2>7, <4>2
    <3> QED  BY <2>4, <2>7, <3>1
  <2>9. last \in DOMAIN d.edges /\ IsLast(last)
    <3> HIDE DEF IsLast
    <3> QED  BY <2>7, <2>8
  <2>10. d.edges[last] = x
    <3> HIDE DEF last
    <3>1. d.edges[last]["source"] = d.edges[m]["source"]
      BY <2>4, <2>7, <2>9
    <3> QED  BY <1>5, <2>7, <2>9, <3>1 DEF UniqueBy
  <2>11. BranchCount(d, j.source) = Cardinality(e.declared)
    BY <2>4, <2>10 DEF BranchCount
  <2>12. Cardinality(e.declared) \in Nat
    <3>1. x \in EdgeSpecs
      BY <1>8, <2>4 DEF GoodEdges
    <3>2. IsFiniteSet(e.declared)
      BY <2>4, <3>1 DEF EdgeSpecs
    <3> QED  BY <3>2, FS_CardinalityType
  <2>13. j.kind = "quorum" => j.quorum <= Cardinality(e.declared)
    BY <2>1, <2>3 DEF FanOutConstructs
  <2>14. j.quorum \in Int
    BY <2>1, <2>3 DEF IsRoute, Joins, Optional, Nothing
  <2> QED  BY <2>5, <2>11, <2>12, <2>13, <2>14
<1>17. JoinErrors(d) = {}
  BY <1>7, <1>16 DEF JoinErrors
<1>18. ReducerErrors(d) = {}
  BY <1>7 DEF ReducerErrors
<1>19. ASSUME NEW e PROVE \A issue \in RegionErrors(d, e) :
                           issue.code \in {"GS201", "GS202", "GS203", "GS204", "GS205", "GS206"}
  <2>1. ASSUME NEW b PROVE \A issue \in BranchErrors(d, e, b) : issue.code \in {"GS202", "GS203", "GS204", "GS206"}
    <3>1. CASE b \notin NodeNames(d)
      BY <1>10, <3>1 DEF BranchErrors
    <3>2. CASE b \in NodeNames(d)
      <4> DEFINE taken == \E f \in Fanouts(d) : f.source # e.source /\ b \in f.declared
                 at203 == When(b \in {e.source, e.target, START, END}, "GS203", e.source, b)
                 at204 == When(b \in Sources(d), "GS204", e.source, b)
                 at206 == When(taken, "GS206", Nothing, b)
      <4>1. BranchErrors(d, e, b) = at203 \cup at204 \cup at206
        BY <3>2 DEF BranchErrors
      <4>2. /\ \A issue \in at203 : issue.code = "GS203"
            /\ \A issue \in at204 : issue.code = "GS204"
        BY <1>10
      <4>3. \A issue \in at206 : issue.code = "GS206"
        <5> HIDE DEF taken
        <5> QED  BY <1>10
      <4> HIDE DEF at203, at204, at206
      <4> QED  BY <4>1, <4>2, <4>3
    <3> QED  BY <3>1, <3>2
  <2> QED  BY <1>9, <2>1 DEF RegionErrors
<1>20. \A issue \in Errors(d) : issue.code \in AuthorErrors
  <2>1. ASSUME NEW issue \in Errors(d)
        PROVE  \/ issue \in NodeErrors(d) \/ issue \in EdgeErrors(d) \/ \E e : issue \in RegionErrors(d, e)
    BY <1>11, <1>15, <1>17, <1>18 DEF Errors
  <2> QED  BY <1>12, <1>14, <1>19, <2>1 DEF AuthorErrors
<1> QED  BY <1>20 DEF d

\* Whatever was registered, and in whatever order, there is one description of
\* it, or none because a reducer names no field; its identity, shape and joins
\* are in order and it survives being stored.
THEOREM DescriptionsAreCanonical == Spec => []DescriptionIsCanonical
<1>1. ExchangeInv => DescriptionIsCanonical
  <2> SUFFICES ASSUME ExchangeInv PROVE DescriptionIsCanonical
    OBVIOUS
  <2>1. Registered(nodes, edges, reducers) /\ (IsSpec(compiled) => Made(compiled))
    BY DEF ExchangeInv
  <2>2. /\ nodes \in Seq(NodeSpecs) /\ edges \in Seq(GoodRoutes) /\ reducers \in Seq(BoundReducers)
        /\ IsInjective(nodes) /\ IsInjective(edges) /\ IsInjective(reducers)
    BY <2>1 DEF Registered, UniqueBy, IsInjective
  <2>3. Reordered(nodes, nodes) /\ Reordered(edges, edges) /\ Reordered(reducers, reducers)
    BY <2>2 DEF Reordered
  <2>4. ASSUME NEW ns \in Orders(nodes) PROVE Describe(ns, edges, reducers) = Description
    <3>1. ns \in Seq(NodeSpecs) /\ Reordered(nodes, ns)
      BY <2>2, OrdersReorder
    <3> QED  BY <2>1, <2>2, <2>3, <3>1, DescribeIsCanonical DEF Description
  <2>5. ASSUME NEW es \in Orders(edges) PROVE Describe(nodes, es, reducers) = Description
    <3>1. es \in Seq(GoodRoutes) /\ Reordered(edges, es)
      BY <2>2, OrdersReorder
    <3> QED  BY <2>1, <2>2, <2>3, <3>1, DescribeIsCanonical DEF Description
  <2>6. ASSUME NEW rs \in Orders(reducers) PROVE Describe(nodes, edges, rs) = Description
    <3>1. rs \in Seq(BoundReducers) /\ Reordered(reducers, rs)
      BY <2>2, OrdersReorder
    <3> QED  BY <2>1, <2>2, <2>3, <3>1, DescribeIsCanonical DEF Description
  <2>7. OrderIsIrrelevant
    BY <2>4, <2>5, <2>6 DEF OrderIsIrrelevant
  <2>8. OnlyAuthorErrors
    <3>1. Named(reducers) <=> ~\E r \in ToSet(reducers) : r.field = Empty
      BY <2>2, NamedReducers
    <3>2. ~Named(reducers) => ~IsSpec(Description)
      BY <2>1, DescribedIfNamed DEF Description
    <3>3. Named(reducers) =>
            IsSpec(Description) /\ \A issue \in Errors(Description) : issue.code \in AuthorErrors
      BY <2>1, DescribedIsMade, DescribedErrors DEF Description
    <3> QED  BY <3>1, <3>2, <3>3 DEF OnlyAuthorErrors
  <2>9. SnapshotReloads
    BY <2>1, MadeIsFixed DEF SnapshotReloads
  <2> QED  BY <2>7, <2>8, <2>9 DEF DescriptionIsCanonical
<1> QED  BY <1>1, ExchangeInvariance, PTL

\* The id of a registry's description tells what is registered.
LEMMA DescriptionTellsAll ==
  ASSUME NEW ns, NEW es, NEW rs, Registered(ns, es, rs),
         NEW ns2, NEW es2, NEW rs2, Registered(ns2, es2, rs2), Named(rs), Named(rs2),
         Describe(ns, es, rs).id = Describe(ns2, es2, rs2).id
  PROVE  ToSet(ns) = ToSet(ns2) /\ ToSet(es) = ToSet(es2) /\ ToSet(rs) = ToSet(rs2)
<1> DEFINE d == Describe(ns, es, rs)
           d2 == Describe(ns2, es2, rs2)
<1>1. /\ MadeFrom(d, Limit, ns, EdgesOf(es), rs, JoinSpecs(es))
      /\ MadeFrom(d2, Limit, ns2, EdgesOf(es2), rs2, JoinSpecs(es2))
  BY DescribedIsMade
<1>2. Made(d) /\ Made(d2) /\ d.id = d2.id
  BY <1>1 DEF MadeFrom
<1>3. d = d2
  <2> HIDE DEF d, d2
  <2> QED  BY <1>2, IdIsContent
<1> HIDE DEF d, d2
<1>4. /\ ByName(ns) = ByName(ns2) /\ ByEdge(EdgesOf(es)) = ByEdge(EdgesOf(es2)) /\ ByField(rs) = ByField(rs2)
      /\ KeptJoins(EdgesOf(es), JoinSpecs(es)) = KeptJoins(EdgesOf(es2), JoinSpecs(es2))
  BY <1>1, <1>3 DEF MadeFrom
<1>5. /\ ns \in Seq(NodeSpecs) /\ ns2 \in Seq(NodeSpecs) /\ rs \in Seq(ReducerSpecs) /\ rs2 \in Seq(ReducerSpecs)
      /\ es \in Seq(GoodRoutes) /\ es2 \in Seq(GoodRoutes) /\ UniqueBy(es, "source") /\ UniqueBy(es2, "source")
  BY NamedReducers DEF Registered
<1>6. ToSet(ns) = ToSet(ns2) /\ ToSet(rs) = ToSet(rs2)
  BY <1>4, <1>5, SortsSettle
<1>7. {EdgeSpecOf(e) : e \in ToSet(es)} = {EdgeSpecOf(e) : e \in ToSet(es2)}
  <2>1. EdgesOf(es) \in Seq(EdgeSpecs) /\ EdgesOf(es2) \in Seq(EdgeSpecs)
    BY <1>5, RoutesAreDescribed, GoodIsTyped
  <2>2. ToSet(EdgesOf(es)) = ToSet(EdgesOf(es2))
    BY <1>4, <2>1, SortsSettle
  <2> QED  BY <1>5, <2>2, RoutesAreDescribed
<1>8. {e.join : e \in {f \in ToSet(es) : f.kind = "fanout" /\ f.join.kind # "all"}}
        = {e.join : e \in {f \in ToSet(es2) : f.kind = "fanout" /\ f.join.kind # "all"}}
  BY <1>4, <1>5, JoinsDescribed
<1>9. ASSUME NEW u \in Seq(GoodRoutes), NEW v \in Seq(GoodRoutes), UniqueBy(u, "source"), UniqueBy(v, "source"),
             {EdgeSpecOf(e) : e \in ToSet(u)} = {EdgeSpecOf(e) : e \in ToSet(v)},
             {e.join : e \in {f \in ToSet(u) : f.kind = "fanout" /\ f.join.kind # "all"}}
               = {e.join : e \in {f \in ToSet(v) : f.kind = "fanout" /\ f.join.kind # "all"}},
             NEW e \in ToSet(u)
      PROVE  e \in ToSet(v)
  <2> DEFINE x == EdgeSpecOf(e)
  <2>0. x \in {EdgeSpecOf(g) : g \in ToSet(u)}
    OBVIOUS
  <2>1. PICK f \in ToSet(v) : EdgeSpecOf(f) = x
    <3>1. x \in {EdgeSpecOf(g) : g \in ToSet(v)}
      <4> HIDE DEF x
      <4> QED  BY <1>9, <2>0
    <3> HIDE DEF x
    <3> QED  BY <3>1
  <2>2. \A g \in ToSet(u) \cup ToSet(v) : g \in GoodRoutes
    BY ElementOfSeq, LenProperties DEF ToSet
  <2>3. \A g \in ToSet(u) \cup ToSet(v) : IsRoute(g) /\ FanOutConstructs(g)
    BY <2>2, RegistriesAssumption DEF GoodRoutes
  <2>4. /\ \A g, h \in ToSet(u) : g.source = h.source => g = h
        /\ \A g, h \in ToSet(v) : g.source = h.source => g = h
    BY <1>9 DEF UniqueBy, ToSet
  <2>5. /\ e.source = f.source /\ e.kind = f.kind /\ e.target = f.target
        /\ e.router = f.router /\ e.declared = f.declared
    BY <2>1 DEF EdgeSpecOf
  <2>6. /\ e.join.source = e.source /\ f.join.source = e.source /\ e.join \in Joins /\ f.join \in Joins
    BY <2>3, <2>5 DEF IsRoute
  <2>7. e.join = f.join
    <3>1. CASE e.kind # "fanout"
      BY <2>3, <2>5, <3>1 DEF IsRoute
    <3>2. CASE e.kind = "fanout" /\ e.join.kind # "all"
      <4>1. PICK g \in ToSet(v) : e.join = g.join
        BY <1>9, <3>2
      <4>2. g.source = f.source
        BY <2>3, <2>5, <2>6, <4>1 DEF IsRoute
      <4> QED  BY <2>4, <4>1, <4>2
    <3>3. CASE e.kind = "fanout" /\ f.join.kind # "all"
      <4> DEFINE j == f.join
      <4>0. j \in {g.join : g \in {h \in ToSet(v) : h.kind = "fanout" /\ h.join.kind # "all"}}
        BY <2>5, <3>3
      <4>1. PICK g \in ToSet(u) : j = g.join
        <5> HIDE DEF j
        <5>1. j \in {g.join : g \in {h \in ToSet(u) : h.kind = "fanout" /\ h.join.kind # "all"}}
          BY <1>9, <4>0
        <5> QED  BY <5>1
      <4>2. g.source = e.source
        BY <2>3, <2>6, <4>1 DEF IsRoute
      <4> QED  BY <2>4, <4>1, <4>2
    <3>4. CASE e.kind = "fanout" /\ e.join.kind = "all" /\ f.join.kind = "all"
      <4>1. JoinConstructs(e.join) /\ JoinConstructs(f.join)
        BY <2>3, <2>5, <3>4 DEF FanOutConstructs
      <4>2. e.join.quorum = Nothing /\ e.join.ref = Nothing /\ f.join.quorum = Nothing /\ f.join.ref = Nothing
        BY <3>4, <4>1 DEF JoinConstructs
      <4> QED  BY <2>6, <3>4, <4>2 DEF Joins
    <3> QED  BY <3>1, <3>2, <3>3, <3>4
  <2>8. e = [source |-> e.source, kind |-> e.kind, target |-> e.target, router |-> e.router,
             declared |-> e.declared, join |-> e.join]
    BY <2>3 DEF IsRoute
  <2>9. f = [source |-> f.source, kind |-> f.kind, target |-> f.target, router |-> f.router,
             declared |-> f.declared, join |-> f.join]
    BY <2>3 DEF IsRoute
  <2>10. e = f
    BY <2>5, <2>7, <2>8, <2>9
  <2> QED  BY <2>10
<1>10. ToSet(es) \subseteq ToSet(es2)
  BY <1>5, <1>7, <1>8, <1>9
<1>11. ToSet(es2) \subseteq ToSet(es)
  BY <1>5, <1>7, <1>8, <1>9
<1> QED  BY <1>6, <1>10, <1>11

\* A call gives a graph that is described before and after another graph_id
\* exactly when it changes what is registered (spec.py:216-252 with
\* engine.py:228-292).
THEOREM IdsFollowContent == Spec => IdFollowsContent
<1> DEFINE Follows == IsSpec(Description) /\ IsSpec(Describe(nodes', edges', reducers')) =>
                        (Content' = Content <=> Describe(nodes', edges', reducers').id = Description.id)
<1>1. ASSUME ExchangeInv, ExchangeInv' PROVE Follows
  <2>1. Registered(nodes, edges, reducers) /\ Registered(nodes', edges', reducers')
    BY <1>1 DEF ExchangeInv
  <2>2. ASSUME Content' = Content PROVE Describe(nodes', edges', reducers') = Describe(nodes, edges, reducers)
    <3>1. ToSet(nodes') = ToSet(nodes) /\ ToSet(edges') = ToSet(edges) /\ ToSet(reducers') = ToSet(reducers)
      BY <2>2 DEF Content
    <3>2. IsInjective(nodes') /\ IsInjective(edges') /\ IsInjective(reducers')
      BY <2>1 DEF Registered, UniqueBy, IsInjective
    <3>3. Reordered(nodes, nodes') /\ Reordered(edges, edges') /\ Reordered(reducers, reducers')
      BY <3>1, <3>2 DEF Reordered
    <3>4. nodes' \in Seq(NodeSpecs) /\ edges' \in Seq(GoodRoutes) /\ reducers' \in Seq(BoundReducers)
      BY <2>1 DEF Registered
    <3> QED  BY <2>1, <3>3, <3>4, DescribeIsCanonical
  <2>3. ASSUME IsSpec(Description), IsSpec(Describe(nodes', edges', reducers')),
               Describe(nodes', edges', reducers').id = Describe(nodes, edges, reducers).id
        PROVE  Content' = Content
    <3>1. Named(reducers) /\ Named(reducers')
      BY <2>1, <2>3, DescribedIfNamed DEF Description
    <3> QED  BY <2>1, <2>3, <3>1, DescriptionTellsAll DEF Content
  <2> QED  BY <2>2, <2>3 DEF Description
<1>2. ExchangeInv /\ ExchangeInv' =>
        [IsSpec(Description) /\ IsSpec(Describe(nodes', edges', reducers')) =>
           (Content' = Content <=> Describe(nodes', edges', reducers').id = Description.id)]_built
  BY <1>1
<1> QED  BY <1>2, ExchangeInvariance, PTL DEF IdFollowsContent

-----------------------------------------------------------------------------
(* Static validation and the walk.                                         *)

\* Where lint is definite, a run stays among the places it found.
Tame == RoutersKeepDeclared /\ ~ReachesOpaque(spec)

\* The walk stands at a registered node or START, a finished one where an
\* edge leads to END, and where lint is definite all of it is reachable.
LInv ==
  /\ Describes(spec, graph)
  /\ \E S : walk \in Seq(S)
  /\ \A i \in DOMAIN walk : walk[i].node \in graph.nodes
  /\ ending = "done" => END \in Walk!Edge.targets
  /\ Tame => Entered \subseteq Reachable(spec)

-----------------------------------------------------------------------------
\* The reachable places are closed under the declared edges (lint.py:275-282).
LEMMA ReachableIsClosed ==
  ASSUME NEW s, NEW a \in Reachable(s), NEW b, <<a, b>> \in Arcs(s)
  PROVE  b \in Reachable(s)
<1>1. b \in Places(s)
  BY DEF Places
<1>2. ASSUME NEW S \in SUBSET Places(s), START \in S, Closed(S, Arcs(s)) PROVE b \in S
  <2>1. a \in S
    BY <1>2 DEF Reachable
  <2> QED  BY <2>1, <1>2 DEF Closed
<1> QED  BY <1>1, <1>2 DEF Reachable

\* START is reachable.
LEMMA StartIsReachable == ASSUME NEW s PROVE START \in Reachable(s)
  BY DEF Reachable, Places

\* Every arc has two ends, and leads to a place.
LEMMA ArcsArePairs ==
  ASSUME NEW s, \A e \in ToSet(s.edges) : EdgeConstructs(e), NEW arc \in Arcs(s)
  PROVE  arc = <<arc[1], arc[2]>> /\ arc[2] \in Places(s)
<1>1. PICK e \in ToSet(s.edges) : arc \in ArcsOf(e)
  BY DEF Arcs
<1>2. e.kind \in {"static", "conditional", "fanout"}
  BY <1>1 DEF EdgeConstructs
<1>3. arc = <<arc[1], arc[2]>>
  BY <1>1, <1>2 DEF ArcsOf
<1> QED  BY <1>3 DEF Places

\* What a described edge leads to is an arc of its description, unless its
\* router is opaque (lint.py:261-273).
LEMMA EdgesAreArcs ==
  ASSUME Describes(spec, graph), RoutersKeepDeclared,
         NEW n \in DOMAIN graph.edge, n \in Sources(spec), n \notin Opaque(spec)
  PROVE  /\ \A t \in graph.edge[n].targets : <<n, t>> \in Arcs(spec)
         /\ graph.edge[n].kind = "fanout" => \A b \in ToSet(graph.edge[n].branches) : <<n, b>> \in Arcs(spec)
<1>1. PICK e \in ToSet(spec.edges) : e.source = n /\ Says(e, graph.edge[n])
  BY DEF Describes
<1>2. ArcsOf(e) \subseteq Arcs(spec)
  BY DEF Arcs
<1>3. CASE e.kind = "conditional"
  <2>1. e \in Edges(spec, "conditional")
    BY <1>1, <1>3 DEF Edges
  <2>2. e.declared # {}
    BY <1>1, <2>1 DEF Opaque
  <2>3. graph.edge[n].targets \subseteq e.declared
    BY <1>1, <2>1, <2>2 DEF RoutersKeepDeclared
  <2>4. ArcsOf(e) = {<<n, t>> : t \in e.declared}
    BY <1>1, <1>3 DEF ArcsOf
  <2>5. graph.edge[n].kind # "fanout"
    BY <1>1, <1>3 DEF Says
  <2> QED  BY <1>2, <2>3, <2>4, <2>5
<1>4. CASE e.kind = "static"
  <2>1. ArcsOf(e) = {<<n, e.target>>} /\ graph.edge[n].targets = {e.target} /\ graph.edge[n].kind # "fanout"
    BY <1>1, <1>4 DEF ArcsOf, Says
  <2> QED  BY <1>2, <2>1
<1>5. CASE e.kind = "fanout"
  <2>1. /\ {<<n, t>> : t \in e.declared \cup {e.target}} \subseteq ArcsOf(e)
        /\ graph.edge[n].targets = {e.target} /\ ToSet(graph.edge[n].branches) = e.declared
    BY <1>1, <1>5 DEF ArcsOf, Says
  <2> QED  BY <1>2, <2>1
<1>6. EdgeConstructs(e)
  BY <1>1 DEF Describes
<1> QED  BY <1>3, <1>4, <1>5, <1>6 DEF EdgeConstructs

-----------------------------------------------------------------------------
\* Places that left the frontier have all their targets among those found,
\* and nothing was found that is not reachable.
WInv ==
  /\ \A e \in ToSet(spec.edges) : EdgeConstructs(e)
  /\ START \in reachable /\ frontier \subseteq reachable
  /\ reachable \subseteq Reachable(spec)
  /\ \A arc \in Arcs(spec) : arc[1] \in reachable \ frontier => arc[2] \in reachable

\* The loop starts with START alone.
LEMMA InitWInv == LintedWalkInit => WInv
<1> SUFFICES ASSUME LintedWalkInit PROVE WInv
  OBVIOUS
<1>1. \A e \in ToSet(spec.edges) : EdgeConstructs(e)
  BY CasesAssumption DEF LintedWalkInit, Describes
<1> QED  BY <1>1, StartIsReachable DEF LintedWalkInit, LoopInit, WInv

\* Expanding a place (lint.py:278-282) adds what its edges demand, and only that.
LEMMA NextWInv == WInv /\ [LintedWalkNext]_lintedVars => WInv'
<1> SUFFICES ASSUME WInv, [LintedWalkNext]_lintedVars PROVE WInv'
  OBVIOUS
<1>1. ASSUME NEW p \in frontier, Expand(p) PROVE WInv'
  <2>1. spec' = spec /\ reachable' = reachable \cup Fresh(p) /\ frontier' = (frontier \ {p}) \cup Fresh(p)
    BY <1>1 DEF Expand, Queued
  <2>2. Reachable(spec)' = Reachable(spec) /\ Arcs(spec)' = Arcs(spec)
    BY <2>1
  <2>3. p \in Reachable(spec)
    BY DEF WInv
  <2>4. Fresh(p) \subseteq Reachable(spec)
    BY <2>3, ReachableIsClosed DEF Fresh, Targets
  <2>5. ASSUME NEW arc \in Arcs(spec), arc[1] \in reachable' \ frontier' PROVE arc[2] \in reachable'
    <3>1. arc = <<arc[1], arc[2]>> /\ arc[2] \in Places(spec)
      BY ArcsArePairs DEF WInv
    <3>2. CASE arc[1] = p
      <4>1. arc[2] \in Targets(p)
        BY <3>1, <3>2 DEF Targets
      <4> QED  BY <4>1, <2>1 DEF Fresh
    <3>3. CASE arc[1] # p
      BY <2>1, <2>5, <3>3 DEF WInv
    <3> QED  BY <3>2, <3>3
  <2> QED  BY <2>1, <2>2, <2>4, <2>5 DEF WInv
<1>2. CASE UNCHANGED loop
  BY <1>2 DEF loop, WInv
<1> QED  BY <1>1, <1>2 DEF LintedWalkNext, LoopStep, lintedVars

\* For every graph and every order of expansion: when the loop of
\* lint.py:275-282 ends, it has found exactly the reachable places.
THEOREM WorklistIsExact == LintedWalkSpec => []ExactWhenDone
<1>1. ASSUME WInv, LoopEnded PROVE reachable = Reachable(spec)
  <2>1. Closed(reachable, Arcs(spec))
    BY <1>1 DEF WInv, LoopEnded, Closed
  <2>2. reachable \in SUBSET Places(spec)
    BY <1>1 DEF WInv, Reachable
  <2> QED  BY <1>1, <2>1, <2>2 DEF WInv, Reachable
<1>2. WInv => ExactWhenDone
  BY <1>1 DEF ExactWhenDone
<1> QED  BY InitWInv, NextWInv, <1>2, PTL DEF LintedWalkSpec

-----------------------------------------------------------------------------
\* A walk stands at a place with an edge.
LEMMA PositionHasEdge == ASSUME LInv PROVE Walk!Position \in DOMAIN graph.edge
<1>1. CASE walk = <<>>
  BY <1>1 DEF LInv, Describes, Walk!Position
<1>2. CASE walk # <<>>
  <2>1. PICK S : walk \in Seq(S)
    BY DEF LInv
  <2>2. Len(walk) \in DOMAIN walk
    BY <2>1, <1>2
  <2> QED  BY <1>2, <2>2 DEF LInv, Describes, Walk!Position
<1> QED  BY <1>1, <1>2

\* Where lint is definite, the place a walk stands at is reachable.
LEMMA PositionIsReachable == ASSUME LInv, Tame PROVE Walk!Position \in Reachable(spec)
<1>1. CASE walk = <<>>
  BY <1>1, StartIsReachable DEF Walk!Position
<1>2. CASE walk # <<>>
  <2>1. PICK S : walk \in Seq(S)
    BY DEF LInv
  <2>2. Len(walk) \in DOMAIN walk
    BY <2>1, <1>2
  <2>3. Walk!Position \in Entered
    BY <2>2, <1>2 DEF Entered, Walk!Position
  <2> QED  BY <2>3 DEF LInv
<1> QED  BY <1>1, <1>2

\* From there an edge leads to reachable places only.
LEMMA EdgeStaysReachable ==
  ASSUME LInv, Tame, Walk!Position \in Sources(spec)
  PROVE  /\ Walk!Edge.targets \subseteq Reachable(spec)
         /\ Walk!Edge.kind = "fanout" => Walk!Members \subseteq Reachable(spec)
<1> DEFINE n == Walk!Position
<1>1. n \in DOMAIN graph.edge /\ n \in Reachable(spec)
  BY PositionHasEdge, PositionIsReachable
<1>2. n \notin Opaque(spec)
  BY <1>1 DEF Tame, ReachesOpaque
<1>3. /\ \A t \in graph.edge[n].targets : <<n, t>> \in Arcs(spec)
      /\ graph.edge[n].kind = "fanout" => \A b \in ToSet(graph.edge[n].branches) : <<n, b>> \in Arcs(spec)
  BY <1>1, <1>2, EdgesAreArcs DEF LInv, Tame
<1>4. \A t : <<n, t>> \in Arcs(spec) => t \in Reachable(spec)
  BY <1>1, ReachableIsClosed
<1>5. Walk!Members = ToSet(graph.edge[n].branches) /\ Walk!Edge = graph.edge[n]
  BY DEF Walk!Members, Walk!Edge, ToSet
<1> HIDE DEF n
<1> QED  BY <1>3, <1>4, <1>5

\* A source without an edge leads to END alone.
LEMMA NoEdgeLeadsToEnd ==
  ASSUME LInv, Walk!Position \notin Sources(spec)
  PROVE  Walk!Edge.kind = "static" /\ Walk!Edge.targets = {END}
<1>1. Walk!Position \in DOMAIN graph.edge
  BY PositionHasEdge
<1> QED  BY <1>1 DEF LInv, Describes, Walk!Edge, Sources

-----------------------------------------------------------------------------
\* Publishing a node or a region that lint found keeps the invariant.
LEMMA PublishKeepsInv ==
  ASSUME LInv, UNCHANGED <<spec, graph>>, NEW k, NEW n \in graph.nodes, NEW A, ending = "running",
         walk' = Append(walk, [kind |-> k, node |-> n, nodes |-> A]), ending' = ending,
         Tame => {n} \cup A \subseteq Reachable(spec)
  PROVE  LInv'
<1> DEFINE w == [kind |-> k, node |-> n, nodes |-> A]
<1>1. PICK S : walk \in Seq(S)
  BY DEF LInv
<1>2. walk' \in Seq(S \cup {w})
  BY <1>1
<1>3. /\ DOMAIN walk' = DOMAIN walk \cup {Len(walk) + 1}
      /\ \A i \in DOMAIN walk : walk'[i] = walk[i]
      /\ walk'[Len(walk) + 1] = w
  BY <1>1
<1>4. \A i \in DOMAIN walk' : walk'[i].node \in graph'.nodes
  BY <1>3 DEF LInv
<1>5. Entered' \subseteq Entered \cup {n} \cup A
  <2> SUFFICES ASSUME NEW i \in DOMAIN walk', NEW x \in {walk'[i].node} \cup walk'[i].nodes
               PROVE  x \in Entered \cup {n} \cup A
    BY DEF Entered
  <2>1. CASE i \in DOMAIN walk
    BY <2>1, <1>3 DEF Entered
  <2>2. CASE i = Len(walk) + 1
    BY <2>2, <1>3
  <2> QED  BY <2>1, <2>2, <1>3
<1>6. Tame' => Tame /\ Reachable(spec)' = Reachable(spec)
  BY DEF Tame, RoutersKeepDeclared
<1>7. Describes(spec, graph)'
  BY DEF LInv
<1> QED  BY <1>2, <1>4, <1>5, <1>6, <1>7 DEF LInv

\* Runs start at START with nothing entered, on a described graph.
LEMMA InitLInv == LintedWalkInit => LInv
<1> SUFFICES ASSUME LintedWalkInit PROVE LInv
  OBVIOUS
<1>1. Describes(spec, graph)
  BY CasesAssumption DEF LintedWalkInit
<1>2. walk = <<>> /\ ending = "running"
  BY DEF LintedWalkInit, Walk!Init
<1>3. walk \in Seq({}) /\ DOMAIN walk = {}
  BY <1>2
<1>4. Entered = {}
  BY <1>3 DEF Entered
<1> QED  BY <1>1, <1>2, <1>3, <1>4 DEF LInv

\* Every step of a walk keeps the invariant.
LEMMA NextLInv == LInv /\ [LintedWalkNext]_lintedVars => LInv'
<1> SUFFICES ASSUME LInv, [LintedWalkNext]_lintedVars PROVE LInv'
  OBVIOUS
<1>1. ASSUME UNCHANGED loop, NEW n \in graph.nodes, Walk!Visit(n) PROVE LInv'
  <2>1. n \in Walk!Edge.targets /\ ending = "running" /\ UNCHANGED <<spec, graph>> /\ ending' = ending
    BY <1>1 DEF loop, Walk!Visit, Walk!Publish
  <2>2. walk' = Append(walk, [kind |-> "node", node |-> n, nodes |-> {n}])
    BY <1>1 DEF Walk!Visit, Walk!Publish
  <2>3. Walk!Position \in Sources(spec)
    BY <2>1, NoEdgeLeadsToEnd DEF LInv, Describes
  <2>4. Tame => {n} \cup {n} \subseteq Reachable(spec)
    BY <2>1, <2>3, EdgeStaysReachable
  <2> QED  BY <2>1, <2>2, <2>4, PublishKeepsInv
<1>2. ASSUME UNCHANGED loop, NEW A \in SUBSET Walk!Members, Walk!CrossRegion(A) PROVE LInv'
  <2>1. Walk!Edge.kind = "fanout" /\ ending = "running" /\ UNCHANGED <<spec, graph>> /\ ending' = ending
    BY <1>2 DEF loop, Walk!CrossRegion, Walk!Publish, Walk!RegionOwed
  <2>2. walk' = Append(walk, [kind |-> "region", node |-> Walk!Position, nodes |-> A])
    BY <1>2 DEF Walk!CrossRegion, Walk!Publish
  <2>3. Walk!Position \in graph.nodes
    BY <2>1, PositionHasEdge DEF LInv, Describes, Walk!Edge
  <2>4. Walk!Position \in Sources(spec)
    BY <2>1, NoEdgeLeadsToEnd
  <2>5. Tame => {Walk!Position} \cup A \subseteq Reachable(spec)
    BY <2>1, <2>4, EdgeStaysReachable, PositionIsReachable
  <2> HIDE DEF Walk!Position
  <2> QED  BY <2>1, <2>2, <2>3, <2>5, PublishKeepsInv
<1>3. ASSUME UNCHANGED <<spec, graph, walk>>, ending' = "done" => END \in Walk!Edge.targets PROVE LInv'
  <2>1. Describes(spec, graph)' /\ (\E S : walk' \in Seq(S)) /\ \A i \in DOMAIN walk' : walk'[i].node \in graph'.nodes
    BY <1>3 DEF LInv
  <2>2. Walk!Edge' = Walk!Edge
    BY <1>3 DEF Walk!Edge, Walk!Position
  <2>3. Tame' = Tame /\ Entered' = Entered /\ Reachable(spec)' = Reachable(spec)
    BY <1>3 DEF Tame, RoutersKeepDeclared, Entered
  <2> QED  BY <1>3, <2>1, <2>2, <2>3 DEF LInv
<1>4. ASSUME UNCHANGED loop, Walk!Complete PROVE LInv'
  BY <1>3, <1>4 DEF Walk!Complete, loop
<1>5. ASSUME UNCHANGED loop, Walk!Abandon PROVE LInv'
  BY <1>3, <1>5 DEF Walk!Abandon, loop
<1>6. CASE UNCHANGED <<spec, walked>>
  BY <1>3, <1>6 DEF walked, LInv
<1>7. CASE LoopStep /\ UNCHANGED walked
  BY <1>6, <1>7 DEF LoopStep, Expand
<1> QED  BY <1>1, <1>2, <1>4, <1>5, <1>6, <1>7 DEF LintedWalkNext, Walk!Next, lintedVars, loop

\* The invariant holds throughout every run.
THEOREM WalkIsLinted == LintedWalkSpec => []LInv
  BY InitLInv, NextLInv, PTL DEF LintedWalkSpec

-----------------------------------------------------------------------------
\* GS101 is sound for every graph whose routers keep to what they declare
\* (lint.py:284-294).
THEOREM UnreachableIsSound == LintedWalkSpec => []UnreachableIsNeverEntered
<1>1. LInv => UnreachableIsNeverEntered
  BY DEF LInv, Tame, UnreachableIsNeverEntered, Unreachable
<1> QED  BY WalkIsLinted, <1>1, PTL

\* GS102 is sound up to the implied edge of a node without one
\* (lint.py:296-303, engine.py:525).
THEOREM EndlessIsSound == LintedWalkSpec => []EndlessIsNeverDone
<1>1. ASSUME LInv PROVE EndlessIsNeverDone
  <2> SUFFICES ASSUME RoutersKeepDeclared, Endless(spec), ending = "done", Walk!Position \in Sources(spec)
               PROVE  FALSE
    BY DEF EndlessIsNeverDone
  <2>1. Tame
    BY DEF Tame, Endless
  <2>2. Walk!Edge.targets \subseteq Reachable(spec)
    BY <1>1, <2>1, EdgeStaysReachable
  <2> QED  BY <1>1, <2>2 DEF LInv, Endless
<1> QED  BY WalkIsLinted, <1>1, PTL

\* Both warnings are sound, for every description and every graph it describes.
THEOREM WarningsAreSound == LintedWalkSpec => []WarningsHold
<1>1. UnreachableIsNeverEntered /\ EndlessIsNeverDone => WarningsHold
  BY DEF WarningsHold
<1> QED  BY UnreachableIsSound, EndlessIsSound, <1>1, PTL

-----------------------------------------------------------------------------
\* A rule that reports nothing found its condition false.
LEMMA NoIssue == ASSUME NEW c \in BOOLEAN, NEW x, NEW y, NEW z, When(c, x, y, z) = {} PROVE ~c
  BY DEF When

\* What a valid description says of its names (lint.py:111-255, 339-403).
LEMMA ValidNames ==
  ASSUME NEW s, Valid(s), \A e \in ToSet(s.edges) : EdgeConstructs(e)
  PROVE  /\ NodeNames(s) \cap {START, END} = {}
         /\ \A e \in ToSet(s.edges) :
              /\ e.kind = "static" => Enterable(s, e.target)
              /\ e.kind = "conditional" => \A t \in e.declared : Enterable(s, t)
              /\ e.kind = "fanout" => Enterable(s, e.target) /\ e.declared \subseteq NodeNames(s)
<1>1. /\ NodeErrors(s) = {} /\ EdgeErrors(s) = {}
      /\ \A e \in Fanouts(s) : RegionErrors(s, e) = {}
  BY DEF Valid, Errors
<1>2. NodeNames(s) \cap {START, END} = {}
  <2>1. {Issue("GS011", n, Nothing) : n \in NodeNames(s) \cap {START, END}} = {}
    BY <1>1 DEF NodeErrors
  <2> QED  BY <2>1
<1>3. ASSUME NEW e \in ToSet(s.edges), e.kind = "static" PROVE Enterable(s, e.target)
  <2>1. StaticErrors(s, e) = {}
    BY <1>1, <1>3 DEF EdgeErrors, Edges
  <2>2. When(e.target # Nothing /\ ~Enterable(s, e.target), "GS005", e.source, e.target) = {}
    BY <2>1 DEF StaticErrors
  <2>3. ~(e.target # Nothing /\ ~Enterable(s, e.target))
    BY <2>2, NoIssue
  <2>4. e.target # Nothing
    BY <1>3 DEF EdgeConstructs
  <2> QED  BY <2>3, <2>4
<1>4. ASSUME NEW e \in ToSet(s.edges), e.kind = "conditional", NEW t \in e.declared PROVE Enterable(s, t)
  <2>1. ConditionalErrors(s, e) = {}
    BY <1>1, <1>4 DEF EdgeErrors, Edges
  <2>2. {Issue("GS007", e.source, u) : u \in {v \in e.declared : ~Enterable(s, v)}} = {}
    BY <2>1 DEF ConditionalErrors
  <2> QED  BY <2>2, <1>4
<1>5. ASSUME NEW e \in ToSet(s.edges), e.kind = "fanout"
      PROVE  Enterable(s, e.target) /\ e.declared \subseteq NodeNames(s)
  <2>1. RegionErrors(s, e) = {}
    BY <1>1, <1>5 DEF Fanouts, Edges
  <2>2. When(~Enterable(s, e.target), "GS205", e.source, e.target) = {}
    BY <2>1 DEF RegionErrors
  <2>3. Enterable(s, e.target)
    BY <2>2, NoIssue
  <2>4. \A b \in e.declared : BranchErrors(s, e, b) = {}
    BY <2>1 DEF RegionErrors
  <2>5. \A b \in e.declared : b \in NodeNames(s)
    BY <2>4 DEF BranchErrors
  <2> QED  BY <2>3, <2>5
<1> QED  BY <1>2, <1>3, <1>4, <1>5

\* A graph that compile_validated accepts never fails on a name
\* (engine.py:1058-1064).
THEOREM ValidatedIsSafe == LintedWalkSpec => []ValidatedNeverBreaks
<1>1. ASSUME LInv PROVE ValidatedNeverBreaks
  <2> SUFFICES ASSUME Valid(spec), RoutersKeepDeclared PROVE Resolvable
    BY DEF ValidatedNeverBreaks
  <2> DEFINE n == Walk!Position
  <2>1. n \in DOMAIN graph.edge
    BY <1>1, PositionHasEdge
  <2>2. Walk!Edge = graph.edge[n] /\ Walk!Members = ToSet(graph.edge[n].branches)
    BY DEF Walk!Edge, Walk!Members, ToSet
  <2>3. \A t : Enterable(spec, t) => t \in graph.nodes \cup {END}
    BY <1>1, ValidNames DEF LInv, Describes, Enterable
  <2>4. CASE n \notin Sources(spec)
    BY <1>1, <2>4, NoEdgeLeadsToEnd DEF Resolvable
  <2>5. CASE n \in Sources(spec)
    <3>1. PICK e \in ToSet(spec.edges) : e.source = n /\ Says(e, graph.edge[n])
      BY <1>1, <2>1, <2>5 DEF LInv, Describes
    <3>2. EdgeConstructs(e)
      BY <1>1 DEF LInv, Describes
    <3>3. /\ e.kind = "static" => Enterable(spec, e.target)
          /\ e.kind = "conditional" => \A t \in e.declared : Enterable(spec, t)
          /\ e.kind = "fanout" => Enterable(spec, e.target) /\ e.declared \subseteq NodeNames(spec)
      BY <1>1, ValidNames DEF LInv, Describes
    <3>4. CASE e.kind = "conditional"
      <4>1. e \in Edges(spec, "conditional") /\ graph.edge[n].kind = "conditional"
        BY <3>1, <3>4 DEF Edges, Says
      <4>2. CASE e.declared = {}
        BY <4>1, <4>2, <2>2, <3>1 DEF Opaque, Resolvable
      <4>3. CASE e.declared # {}
        <5>1. graph.edge[n].targets \subseteq e.declared
          BY <4>1, <4>3, <3>1, <2>1 DEF RoutersKeepDeclared
        <5> QED  BY <5>1, <4>1, <3>3, <3>4, <2>2, <2>3 DEF Resolvable
      <4> QED  BY <4>2, <4>3
    <3>5. CASE e.kind = "static"
      <4>1. graph.edge[n].kind = "static" /\ graph.edge[n].targets = {e.target}
        BY <3>1, <3>5 DEF Says
      <4> QED  BY <4>1, <3>3, <3>5, <2>2, <2>3 DEF Resolvable
    <3>6. CASE e.kind = "fanout"
      <4>1. graph.edge[n].targets = {e.target} /\ ToSet(graph.edge[n].branches) = e.declared
        BY <3>1, <3>6 DEF Says
      <4>2. NodeNames(spec) \subseteq graph.nodes
        BY <1>1, ValidNames DEF LInv, Describes
      <4> QED  BY <4>1, <4>2, <3>3, <3>6, <2>2, <2>3 DEF Resolvable
    <3> QED  BY <3>2, <3>4, <3>5, <3>6 DEF EdgeConstructs
  <2> QED  BY <2>4, <2>5
<1> QED  BY WalkIsLinted, <1>1, PTL
=============================================================================
