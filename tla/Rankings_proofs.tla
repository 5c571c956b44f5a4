---------------------------- MODULE Rankings_proofs ----------------------------
(***************************************************************************)
(* What the lists of Rankings are: the lemmas that the proofs of every     *)
(* reader rest on, and the two forms of induction over naturals they use.  *)
(***************************************************************************)
EXTENDS Rankings, FiniteSetTheorems, WellFoundedInduction, TLAPS

\* The least number of a set of naturals.
LEMMA Least ==
  ASSUME NEW T, T \subseteq Nat, T # {}
  PROVE  Min(T) \in T /\ \A k \in T : Min(T) <= k
<1>1. PICK m \in T : \A k \in T : ~ (<<k, m>> \in OpToRel(<, Nat))
  BY NatLessThanWellFounded, WFMin
<1>2. \A k \in T : ~(k < m)
  BY <1>1 DEF OpToRel
<1>3. \A k \in T : m <= k
  BY <1>2
<1>4. QED
  BY <1>3 DEF Min

\* The greatest number of a bounded set of naturals.
LEMMA Greatest ==
  ASSUME NEW n \in Nat, NEW T, T \subseteq 0..n, T # {}
  PROVE  Max(T) \in T /\ \A k \in T : k <= Max(T)
<1> DEFINE U == {n - k : k \in T}
<1>1. U \subseteq Nat /\ U # {}
  <2>1. \A k \in T : n - k \in Nat
    OBVIOUS
  <2>2. QED
    BY <2>1
<1>2. PICK m \in U : \A k \in U : m <= k
  <2> HIDE DEF U
  <2> QED
    BY <1>1, Least
<1>3. PICK k \in T : m = n - k
  BY <1>2
<1>4. \A i \in T : i <= k
  <2> TAKE i \in T
  <2>1. n - k <= n - i
    BY <1>2, <1>3
  <2>2. n \in Int /\ k \in Int /\ i \in Int
    OBVIOUS
  <2>3. QED
    BY <2>1, <2>2
<1>5. QED
  BY <1>4 DEF Max

\* Induction up to a number, for a set instead of a predicate.
LEMMA InductionTo ==
  ASSUME NEW n \in Nat, NEW S, 0 \in S, \A i \in 0..(n - 1) : i \in S => i + 1 \in S
  PROVE  \A i \in 0..n : i \in S
<1> DEFINE T == {i \in 0..n : i \notin S}
<1>1. SUFFICES ASSUME T # {} PROVE FALSE
  OBVIOUS
<1>2. T \subseteq Nat
  OBVIOUS
<1>3. PICK m \in T : \A k \in T : m <= k
  <2> HIDE DEF T
  <2> QED
    BY <1>1, <1>2, Least
<1>4. m # 0 /\ m - 1 \in 0..(n - 1) /\ m - 1 \in S
  BY <1>3
<1>5. QED
  BY <1>3, <1>4

\* g goes from b on, as F says what comes at i after what.
Iterates(g, n, b, F) == g[0] = b /\ \A i \in 1..n : g[i] = F[<<i, g[i - 1]>>]

\* A function may be defined by recursion on the naturals up to a bound.
LEMMA Recursive ==
  ASSUME NEW n \in Nat, NEW R, NEW b \in R, NEW F \in [(1..n) \X R -> R]
  PROVE  \E g \in [0..n -> R] : Iterates(g, n, b, F)
<1> DEFINE Upto(k, g) == g[0] = b /\ \A i \in 1..k : g[i] = F[<<i, g[i - 1]>>]
           S == {k \in 0..n : \E g \in [0..k -> R] : Upto(k, g)}
<1>1. 0 \in S
  <2> DEFINE g == [i \in 0..0 |-> b]
  <2>1. g \in [0..0 -> R] /\ Upto(0, g)
    OBVIOUS
  <2> HIDE DEF g, Upto
  <2>2. QED
    BY <2>1
<1>2. \A k \in 0..(n - 1) : k \in S => k + 1 \in S
  <2> TAKE k \in 0..(n - 1)
  <2>1. HAVE k \in S
  <2>2. PICK g \in [0..k -> R] : Upto(k, g)
    BY <2>1
  <2> DEFINE h == [i \in 0..(k + 1) |-> IF i = k + 1 THEN F[<<k + 1, g[k]>>] ELSE g[i]]
  <2>3. k + 1 \in 1..n /\ k \in 0..k /\ g[k] \in R
    OBVIOUS
  <2>4. F[<<k + 1, g[k]>>] \in R
    BY <2>3
  <2>5. h \in [0..(k + 1) -> R]
    BY <2>4
  <2>6. \A i \in 0..k : h[i] = g[i]
    OBVIOUS
  <2>7. h[k + 1] = F[<<k + 1, g[k]>>]
    OBVIOUS
  <2> HIDE DEF h
  <2>8. Upto(k + 1, h)
    <3>1. h[0] = b
      BY <2>2, <2>6
    <3>2. ASSUME NEW i \in 1..(k + 1) PROVE h[i] = F[<<i, h[i - 1]>>]
      <4>1. i - 1 \in 0..k /\ h[i - 1] = g[i - 1]
        BY <2>6
      <4>2. CASE i = k + 1
        BY <2>7, <4>1, <4>2
      <4>3. CASE i # k + 1
        BY <2>2, <2>6, <4>1, <4>3
      <4>4. QED
        BY <4>2, <4>3
    <3>3. QED
      BY <3>1, <3>2
  <2> HIDE DEF Upto
  <2>9. QED
    BY <2>3, <2>5, <2>8
<1>3. n \in S
  <2> HIDE DEF S
  <2>1. \A i \in 0..n : i \in S
    BY <1>1, <1>2, InductionTo
  <2>2. QED
    BY <2>1
<1>4. QED
  BY <1>3 DEF Iterates

-----------------------------------------------------------------------------
(* Lists *)

StrictOrder(S, R) ==
  /\ \A x \in S : <<x, x>> \notin R
  /\ \A x, y \in S : x # y => <<x, y>> \in R \/ <<y, x>> \in R
  /\ \A x, y, z \in S : <<x, y>> \in R /\ <<y, z>> \in R => <<x, z>> \in R

Standing(S, R) == [x \in S |-> 1 + Cardinality({y \in S : <<y, x>> \in R})]
Listing(S, R) == [n \in 1..Cardinality(S) |-> CHOOSE x \in S : Standing(S, R)[x] = n]

\* s lists S in the order R.
Lists(s, S, R) ==
  /\ s \in Seq(S) /\ Len(s) = Cardinality(S)
  /\ \A x \in S : \E i \in DOMAIN s : s[i] = x
  /\ \A i, j \in DOMAIN s : i < j <=> <<s[i], s[j]>> \in R

\* In a strict order of a finite set every place from one up is somebody's.
LEMMA Places ==
  ASSUME NEW S, IsFiniteSet(S), NEW R, StrictOrder(S, R)
  PROVE  LET place == Standing(S, R) IN
         /\ place \in [S -> 1..Cardinality(S)]
         /\ \A x, y \in S : <<x, y>> \in R <=> place[x] < place[y]
         /\ \A x, y \in S : place[x] = place[y] => x = y
         /\ \A n \in 1..Cardinality(S) : \E x \in S : place[x] = n
<1> DEFINE Below(x) == {y \in S : <<y, x>> \in R}
           place == Standing(S, R)
           N == Cardinality(S)
<1>1. N \in Nat
  BY FS_CardinalityType
<1>2. \A x \in S : IsFiniteSet(Below(x)) /\ Cardinality(Below(x)) \in Nat /\ Cardinality(Below(x)) < N
  <2> TAKE x \in S
  <2>1. Below(x) \in SUBSET S /\ x \notin Below(x)
    BY DEF StrictOrder
  <2> HIDE DEF Below
  <2>2. IsFiniteSet(Below(x)) /\ Cardinality(Below(x)) <= N /\ Cardinality(Below(x)) # N
    BY <2>1, FS_Subset
  <2>3. QED
    BY <1>1, <2>2, FS_CardinalityType
<1>3. \A x \in S : place[x] = 1 + Cardinality(Below(x))
  BY DEF Standing
<1>4. place \in [S -> 1..N]
  <2>1. ASSUME NEW x \in S PROVE 1 + Cardinality(Below(x)) \in 1..N
    <3>1. Cardinality(Below(x)) \in Nat /\ Cardinality(Below(x)) < N
      BY <1>2
    <3> HIDE DEF Below, N
    <3>2. QED
      BY <1>1, <3>1
  <2>2. place = [x \in S |-> 1 + Cardinality(Below(x))]
    BY DEF Standing
  <2> HIDE DEF Below, place
  <2>3. QED
    BY <2>1, <2>2
<1>5. ASSUME NEW x \in S, NEW y \in S, <<x, y>> \in R PROVE place[x] < place[y]
  <2>1. Below(x) \in SUBSET Below(y) /\ x \in Below(y) /\ x \notin Below(x)
    BY <1>5 DEF StrictOrder
  <2>2. Cardinality(Below(x)) <= Cardinality(Below(y)) /\ Cardinality(Below(x)) # Cardinality(Below(y))
    <3> HIDE DEF Below
    <3> QED
      BY <1>2, <2>1, FS_Subset
  <2> HIDE DEF Below, place
  <2>3. QED
    BY <1>2, <1>3, <2>2
<1> HIDE DEF place
<1>6. \A x, y \in S : place[x] \in Nat /\ place[y] \in Nat
  BY <1>4
<1>7. \A x, y \in S : <<x, y>> \in R <=> place[x] < place[y]
  <2> TAKE x, y \in S
  <2>1. x = y \/ <<x, y>> \in R \/ <<y, x>> \in R
    BY DEF StrictOrder
  <2>2. x = y => <<x, y>> \notin R
    BY DEF StrictOrder
  <2>3. QED
    BY <1>5, <1>6, <2>1, <2>2
<1>8. \A x, y \in S : place[x] = place[y] => x = y
  <2> TAKE x, y \in S
  <2>1. x = y \/ <<x, y>> \in R \/ <<y, x>> \in R
    BY DEF StrictOrder
  <2>2. QED
    BY <1>5, <1>6, <2>1
<1>9. \A n \in 1..N : \E x \in S : place[x] = n
  <2>1. place \in Injection(S, 1..N)
    BY <1>4, <1>8 DEF Injection, IsInjective
  <2>2. IsFiniteSet(1..N) /\ Cardinality(1..N) = N
    BY <1>1, FS_Interval
  <2> HIDE DEF N
  <2>3. place \in Surjection(S, 1..N)
    BY <2>1, <2>2, FS_Injection DEF N
  <2>4. QED
    BY <2>3 DEF Surjection
<1>10. QED
  BY <1>4, <1>7, <1>8, <1>9 DEF place

LEMMA ListingIs ==
  ASSUME NEW S, IsFiniteSet(S), NEW R, StrictOrder(S, R)
  PROVE  Lists(Listing(S, R), S, R)
<1> DEFINE place == Standing(S, R)
           N == Cardinality(S)
           s == Listing(S, R)
<1>1. /\ place \in [S -> 1..N]
      /\ \A x, y \in S : <<x, y>> \in R <=> place[x] < place[y]
      /\ \A x, y \in S : place[x] = place[y] => x = y
      /\ \A n \in 1..N : \E x \in S : place[x] = n
  BY Places
<1>2. N \in Nat
  BY FS_CardinalityType
<1>3. s = [n \in 1..N |-> CHOOSE x \in S : place[x] = n]
  BY DEF Listing
<1> HIDE DEF place, N, s
<1>4. \A n \in 1..N : s[n] \in S /\ place[s[n]] = n
  BY <1>1, <1>3
<1>5. s \in Seq(S) /\ Len(s) = N /\ DOMAIN s = 1..N
  BY <1>2, <1>3, <1>4
<1>6. \A x \in S : s[place[x]] = x
  BY <1>1, <1>4
<1>7. \A x \in S : \E i \in DOMAIN s : s[i] = x
  <2> TAKE x \in S
  <2>1. place[x] \in DOMAIN s
    BY <1>1, <1>5
  <2>2. QED
    BY <1>6, <2>1
<1>8. \A i, j \in DOMAIN s : i < j <=> <<s[i], s[j]>> \in R
  BY <1>1, <1>4, <1>5
<1>9. QED
  BY <1>5, <1>7, <1>8 DEF Lists, N, s

\* There is one list of a set in a strict order.
LEMMA OneList ==
  ASSUME NEW S, NEW R, StrictOrder(S, R), NEW s, Lists(s, S, R), NEW t, Lists(t, S, R)
  PROVE  s = t
<1> DEFINE D == {i \in DOMAIN s : s[i] # t[i]}
<1>1. /\ s \in Seq(S) /\ t \in Seq(S) /\ Len(s) = Len(t)
      /\ DOMAIN s = DOMAIN t /\ DOMAIN s = 1..Len(s) /\ Len(s) \in Nat
  BY DEF Lists
<1>2. SUFFICES ASSUME D # {} PROVE FALSE
  BY <1>1
<1>3. PICK k \in D : \A i \in D : k <= i
  <2>1. D \subseteq Nat
    BY <1>1
  <2> HIDE DEF D
  <2>2. QED
    BY <1>2, <2>1, Least
<1>4. k \in DOMAIN s /\ k \in DOMAIN t /\ s[k] # t[k] /\ s[k] \in S /\ t[k] \in S
  BY <1>1
<1>5. \A i \in DOMAIN s : i < k => s[i] = t[i]
  BY <1>1, <1>3
<1>6. PICK i \in DOMAIN t : t[i] = s[k]
  BY <1>4 DEF Lists
<1>7. PICK j \in DOMAIN s : s[j] = t[k]
  BY <1>4 DEF Lists
<1>8. k < i
  <2>1. i # k
    BY <1>4, <1>6
  <2>2. ASSUME i < k PROVE FALSE
    <3>1. s[i] = s[k] /\ <<s[i], s[k]>> \in R
      BY <1>1, <1>4, <1>5, <1>6, <2>2 DEF Lists
    <3>2. QED
      BY <1>4, <3>1 DEF StrictOrder
  <2>3. QED
    BY <1>1, <1>4, <2>1, <2>2
<1>9. k < j
  <2>1. j # k
    BY <1>4, <1>7
  <2>2. ASSUME j < k PROVE FALSE
    <3>1. t[j] = t[k] /\ <<t[j], t[k]>> \in R
      BY <1>1, <1>4, <1>5, <1>7, <2>2 DEF Lists
    <3>2. QED
      BY <1>4, <3>1 DEF StrictOrder
  <2>3. QED
    BY <1>1, <1>4, <2>1, <2>2
<1>10. <<t[k], s[k]>> \in R /\ <<s[k], t[k]>> \in R
  BY <1>1, <1>4, <1>6, <1>7, <1>8, <1>9 DEF Lists
<1>11. QED
  BY <1>4, <1>10 DEF StrictOrder

LEMMA SeqOver ==
  ASSUME NEW S, NEW T, S \subseteq T, NEW s \in Seq(S)
  PROVE  s \in Seq(T)
  OBVIOUS

\* The first entries of a list are in their places.
LEMMA FirstEntries ==
  ASSUME NEW S, NEW s \in Seq(S), NEW n \in Nat
  PROVE  /\ AtMost(n, s) \in Seq(S)
         /\ DOMAIN AtMost(n, s) = {i \in DOMAIN s : i <= n}
         /\ \A i \in DOMAIN AtMost(n, s) : AtMost(n, s)[i] = s[i]
<1> DEFINE m == IF n < Len(s) THEN n ELSE Len(s)
<1>1. m \in Nat /\ m <= Len(s) /\ 1..m = {i \in DOMAIN s : i <= n}
  OBVIOUS
<1>2. AtMost(n, s) = SubSeq(s, 1, m)
  BY DEF AtMost
<1> HIDE DEF m
<1>3. SubSeq(s, 1, m) = [i \in 1..m |-> s[i]]
  BY <1>1
<1>4. QED
  BY <1>1, <1>2, <1>3

AmongTo(s, T, n, g) ==
  g = [i \in 0..n |->
         IF i = 0 THEN <<>>
         ELSE IF s[i] \in T THEN Append(g[i - 1], s[i]) ELSE g[i - 1]]

LEMMA AmongExists ==
  ASSUME NEW s, NEW T, NEW n \in Nat
  PROVE  \E g : AmongTo(s, T, n, g)
<1> DEFINE S == {k \in Nat : \E g : AmongTo(s, T, k, g)}
           More(k, g) == IF s[k] \in T THEN Append(g[k - 1], s[k]) ELSE g[k - 1]
<1>1. 0 \in S
  <2> DEFINE g == [i \in 0..0 |-> <<>>]
  <2>1. AmongTo(s, T, 0, g)
    BY DEF AmongTo
  <2>2. QED
    BY <2>1
<1>2. \A k \in 0..(n - 1) : k \in S => k + 1 \in S
  <2> TAKE k \in 0..(n - 1)
  <2>1. HAVE k \in S
  <2>2. PICK g : AmongTo(s, T, k, g)
    BY <2>1
  <2> DEFINE h == [i \in 0..(k + 1) |-> IF i = k + 1 THEN More(k + 1, g) ELSE g[i]]
  <2>3. \A i \in 0..k : g[i] = IF i = 0 THEN <<>> ELSE More(i, g)
    BY <2>2 DEF AmongTo
  <2>4. \A i \in 0..(k + 1) : h[i] = IF i = 0 THEN <<>> ELSE More(i, h)
    BY <2>3
  <2>5. AmongTo(s, T, k + 1, h)
    BY <2>4 DEF AmongTo
  <2>6. QED
    BY <2>5
<1>3. n \in S
  <2> HIDE DEF S
  <2>1. \A i \in 0..n : i \in S
    BY <1>1, <1>2, InductionTo
  <2>2. QED
    BY <2>1
<1>4. QED
  BY <1>3

\* What is among the entries of a list is entries of it.
LEMMA AmongEntries ==
  ASSUME NEW S, NEW s \in Seq(S), NEW T
  PROVE  Among(s, T) \in Seq(S \cap T)
<1> DEFINE n == Len(s)
           g == CHOOSE g : AmongTo(s, T, n, g)
<1>1. n \in Nat /\ \A i \in 1..n : s[i] \in S
  OBVIOUS
<1>2. AmongTo(s, T, n, g)
  BY <1>1, AmongExists
<1>3. Among(s, T) = g[n]
  BY DEF Among, AmongTo
<1> HIDE DEF n, g
<1> DEFINE Good == {i \in 0..n : g[i] \in Seq(S \cap T)}
<1>4. 0 \in Good
  BY <1>1, <1>2 DEF AmongTo
<1>5. \A i \in 0..(n - 1) : i \in Good => i + 1 \in Good
  <2> TAKE i \in 0..(n - 1)
  <2>1. HAVE i \in Good
  <2>2. i + 1 \in 0..n /\ i + 1 # 0 /\ i + 1 - 1 = i /\ s[i + 1] \in S
    BY <1>1
  <2>3. \A k \in 0..n : g[k] = IF k = 0 THEN <<>>
                             ELSE IF s[k] \in T THEN Append(g[k - 1], s[k]) ELSE g[k - 1]
    BY <1>2 DEF AmongTo
  <2>4. g[i + 1] = IF s[i + 1] \in T THEN Append(g[i], s[i + 1]) ELSE g[i]
    BY <2>2, <2>3
  <2>5. g[i] \in Seq(S \cap T)
    BY <2>1
  <2>6. s[i + 1] \in T => s[i + 1] \in S \cap T
    BY <2>2
  <2>7. g[i + 1] \in Seq(S \cap T)
    BY <2>4, <2>5, <2>6
  <2>8. QED
    BY <2>2, <2>7
<1>6. n \in Good
  <2> HIDE DEF Good
  <2>1. \A i \in 0..n : i \in Good
    BY <1>1, <1>4, <1>5, InductionTo
  <2>2. QED
    BY <1>1, <2>1
<1>7. QED
  BY <1>3, <1>6

\* What is listed comes from the set, whatever list it is.
LEMMA SomeList ==
  ASSUME NEW S, IsFiniteSet(S), NEW s \in SetToSeqs(S)
  PROVE  s \in Seq(S)
  BY FS_CardinalityType DEF SetToSeqs

-----------------------------------------------------------------------------
(* Lists without repetitions *)

Once(s) == \A i, j \in DOMAIN s : s[i] = s[j] => i = j
Within(s, t) == \A i \in DOMAIN s : \E j \in DOMAIN t : s[i] = t[j]
Alike(m, s, t) == m <= Len(s) /\ m <= Len(t) /\ \A i \in 1..m : s[i] = t[i]
OnceIn(s, q, n) == \A i, j \in (q + 1)..(q + n) : s[i] = s[j] => i = j
Begins(s, t) == Len(s) <= Len(t) /\ \A i \in 1..Len(s) : s[i] = t[i]

LEMMA Pigeon ==
  ASSUME NEW m \in Nat, NEW n \in Nat, NEW f \in [1..n -> 1..m],
         \A i, j \in 1..n : f[i] = f[j] => i = j
  PROVE  n <= m
<1>1. f \in Injection(1..n, 1..m)
  BY DEF Injection, IsInjective
<1>2. IsFiniteSet(1..m)
  BY FS_Interval
<1>3. Cardinality(1..n) <= Cardinality(1..m)
  BY <1>1, <1>2, FS_Injection
<1>4. \A k \in Nat : Cardinality(1..k) = k
  BY FS_Interval
<1>5. QED
  BY <1>3, <1>4

\* A list without repetitions is no longer than one that holds its entries.
LEMMA OnceFits ==
  ASSUME NEW S, NEW s \in Seq(S), NEW t \in Seq(S), Once(s), Within(s, t)
  PROVE  Len(s) <= Len(t)
<1>1. PICK m \in Nat, n \in Nat : m = Len(t) /\ n = Len(s)
  OBVIOUS
<1>2. DOMAIN s = 1..n /\ DOMAIN t = 1..m
  BY <1>1
<1> DEFINE f == [i \in 1..n |-> CHOOSE j \in 1..m : s[i] = t[j]]
<1>3. \A i \in 1..n : f[i] \in 1..m /\ s[i] = t[f[i]]
  BY <1>2 DEF Within
<1>4. f \in [1..n -> 1..m]
  BY <1>3
<1>5. \A i, j \in 1..n : f[i] = f[j] => i = j
  <2> HIDE DEF f
  <2> QED
    BY <1>2, <1>3 DEF Once
<1> HIDE DEF f
<1>6. QED
  BY <1>1, <1>4, <1>5, Pigeon

\* g[i] is what is left of the first i entries.
DistinctTo(s, n, g) ==
  g = [i \in 0..n |->
         IF i = 0 THEN <<>>
         ELSE IF s[i] \in Range(g[i - 1]) THEN g[i - 1]
         ELSE Append(g[i - 1], s[i])]

LEMMA DistinctExists ==
  ASSUME NEW s, NEW n \in Nat
  PROVE  \E g : DistinctTo(s, n, g)
<1> DEFINE S == {k \in Nat : \E g : DistinctTo(s, k, g)}
           More(k, g) ==
             IF s[k] \in Range(g[k - 1]) THEN g[k - 1] ELSE Append(g[k - 1], s[k])
<1>1. 0 \in S
  <2> DEFINE g == [i \in 0..0 |-> <<>>]
  <2>1. DistinctTo(s, 0, g)
    BY DEF DistinctTo
  <2>2. QED
    BY <2>1
<1>2. \A k \in 0..(n - 1) : k \in S => k + 1 \in S
  <2> TAKE k \in 0..(n - 1)
  <2>1. HAVE k \in S
  <2>2. PICK g : DistinctTo(s, k, g)
    BY <2>1
  <2> DEFINE h == [i \in 0..(k + 1) |-> IF i = k + 1 THEN More(k + 1, g) ELSE g[i]]
  <2>3. \A i \in 0..k : g[i] = IF i = 0 THEN <<>> ELSE More(i, g)
    BY <2>2 DEF DistinctTo
  <2>4. \A i \in 0..(k + 1) : h[i] = IF i = 0 THEN <<>> ELSE More(i, h)
    BY <2>3
  <2>5. DistinctTo(s, k + 1, h)
    BY <2>4 DEF DistinctTo
  <2>6. QED
    BY <2>5
<1>3. n \in S
  <2> HIDE DEF S
  <2>1. \A i \in 0..n : i \in S
    BY <1>1, <1>2, InductionTo
  <2>2. QED
    BY <2>1
<1>4. QED
  BY <1>3

\* What g says, entry by entry.
Dedupes(s, S, g) ==
  /\ \A i \in 0..Len(s) : g[i] \in Seq(S) /\ Once(g[i])
  /\ g[0] = <<>>
  /\ \A i \in 1..Len(s) :
       \/ s[i] \in Range(g[i - 1]) /\ g[i] = g[i - 1]
       \/ s[i] \notin Range(g[i - 1]) /\ g[i] = Append(g[i - 1], s[i])

LEMMA Deduped ==
  ASSUME NEW S, NEW s \in Seq(S)
  PROVE  \E g : Dedupes(s, S, g) /\ Distinct(s) = g[Len(s)]
<1> DEFINE n == Len(s)
           g == CHOOSE g : DistinctTo(s, n, g)
<1>1. n \in Nat /\ \A i \in 1..n : s[i] \in S
  OBVIOUS
<1>2. DistinctTo(s, n, g)
  BY <1>1, DistinctExists
<1>3. Distinct(s) = g[n]
  BY DEF Distinct, DistinctTo
<1> HIDE DEF n, g
<1>4. g[0] = <<>>
  BY <1>1, <1>2 DEF DistinctTo
<1>5. \A i \in 1..n :
        \/ s[i] \in Range(g[i - 1]) /\ g[i] = g[i - 1]
        \/ s[i] \notin Range(g[i - 1]) /\ g[i] = Append(g[i - 1], s[i])
  <2>1. \A i \in 1..n : i \in 0..n /\ i # 0
    BY <1>1
  <2>2. QED
    BY <1>2, <2>1 DEF DistinctTo
<1> DEFINE Good == {i \in 0..n : g[i] \in Seq(S) /\ Once(g[i])}
<1>6. 0 \in Good
  <2>1. PICK e : e = <<>>
    OBVIOUS
  <2>2. e \in Seq(S) /\ DOMAIN e = {}
    BY <2>1
  <2>3. Once(e)
    BY <2>2 DEF Once
  <2>4. g[0] \in Seq(S) /\ Once(g[0])
    BY <1>4, <2>1, <2>2, <2>3
  <2>5. 0 \in 0..n
    BY <1>1
  <2>6. QED
    BY <2>4, <2>5
<1>7. \A i \in 0..(n - 1) : i \in Good => i + 1 \in Good
  <2> TAKE i \in 0..(n - 1)
  <2>1. HAVE i \in Good
  <2>2. i + 1 \in 1..n /\ i + 1 \in 0..n /\ i + 1 - 1 = i
    BY <1>1
  <2>3. PICK a, b, x : a = g[i] /\ b = g[i + 1] /\ x = s[i + 1]
    OBVIOUS
  <2>4. a \in Seq(S) /\ Once(a) /\ x \in S
    BY <1>1, <2>1, <2>2, <2>3
  <2>5. \/ x \in Range(a) /\ b = a
        \/ x \notin Range(a) /\ b = Append(a, x)
    BY <1>5, <2>2, <2>3
  <2>6. CASE b = a
    BY <2>2, <2>3, <2>4, <2>6
  <2>7. CASE x \notin Range(a) /\ b = Append(a, x)
    <3>1. \A k \in 1..Len(a) : a[k] # x
      BY <2>4, <2>7 DEF Range
    <3>2. b \in Seq(S) /\ Once(b)
      BY <2>4, <2>7, <3>1 DEF Once
    <3>3. QED
      BY <2>2, <2>3, <3>2
  <2>8. QED
    BY <2>5, <2>6, <2>7
<1>8. \A i \in 0..n : i \in Good
  <2> HIDE DEF Good
  <2> QED
    BY <1>1, <1>6, <1>7, InductionTo
<1>9. Dedupes(s, S, g)
  BY <1>4, <1>5, <1>8 DEF Dedupes, n
<1>10. QED
  BY <1>3, <1>9 DEF n

LEMMA BeginsIs ==
  ASSUME NEW S, NEW r \in Seq(S), NEW s \in Seq(S), NEW t \in Seq(S)
  PROVE  /\ Begins(s, s)
         /\ Begins(r, s) /\ Begins(s, t) => Begins(r, t)
         /\ \A x \in S : Begins(s, Append(s, x))
<1>1. Begins(s, s)
  BY DEF Begins
<1>2. ASSUME Begins(r, s), Begins(s, t) PROVE Begins(r, t)
  <2>1. Len(r) <= Len(s) /\ Len(s) <= Len(t) /\ Len(r) <= Len(t)
    BY <1>2 DEF Begins
  <2>2. \A i \in 1..Len(r) : i \in 1..Len(s)
    BY <2>1
  <2>3. QED
    BY <1>2, <2>1, <2>2 DEF Begins
<1>3. \A x \in S : Begins(s, Append(s, x))
  BY DEF Begins
<1>4. QED
  BY <1>1, <1>2, <1>3

\* What is left of the first i entries begins what is left of the first n.
LEMMA DedupeGrows ==
  ASSUME NEW S, NEW s \in Seq(S), NEW g, Dedupes(s, S, g), NEW n \in 0..Len(s)
  PROVE  \A i \in 0..n : Begins(g[i], g[n])
<1> DEFINE N == Len(s)
           Good == {k \in 0..n : Begins(g[n - k], g[n])}
<1>1. N \in Nat /\ n \in 0..N
  OBVIOUS
<1>2. /\ \A i \in 0..N : g[i] \in Seq(S)
      /\ \A i \in 1..N : s[i] \in S /\ (g[i] = g[i - 1] \/ g[i] = Append(g[i - 1], s[i]))
  BY DEF Dedupes
<1> HIDE DEF N
<1>3. 0 \in Good
  <2>1. g[n] \in Seq(S)
    BY <1>1, <1>2
  <2>2. Begins(g[n], g[n]) /\ n - 0 = n
    BY <1>1, <2>1, BeginsIs
  <2>3. QED
    BY <1>1, <2>2
<1>4. \A k \in 0..(n - 1) : k \in Good => k + 1 \in Good
  <2> TAKE k \in 0..(n - 1)
  <2>1. HAVE k \in Good
  <2>2. PICK i \in 1..N : i = n - k
    BY <1>1
  <2>3. i - 1 = n - (k + 1) /\ i - 1 \in 0..N /\ i \in 0..N /\ n \in 0..N
    BY <1>1, <2>2
  <2>4. PICK a, b, c, x : a = g[i - 1] /\ b = g[i] /\ c = g[n] /\ x = s[i]
    OBVIOUS
  <2>5. a \in Seq(S) /\ b \in Seq(S) /\ c \in Seq(S) /\ x \in S
    BY <1>2, <2>3, <2>4
  <2>6. b = a \/ b = Append(a, x)
    BY <1>2, <2>4
  <2>7. Begins(a, b)
    BY <2>5, <2>6, BeginsIs
  <2>8. Begins(b, c)
    BY <2>1, <2>2, <2>4
  <2>9. Begins(a, c)
    BY <2>5, <2>7, <2>8, BeginsIs
  <2>10. QED
    BY <1>1, <2>3, <2>4, <2>9
<1>5. \A k \in 0..n : k \in Good
  <2> HIDE DEF Good
  <2> QED
    BY <1>1, <1>3, <1>4, InductionTo
<1>6. QED
  <2> TAKE i \in 0..n
  <2>1. n - i \in 0..n /\ n - (n - i) = i
    BY <1>1
  <2>2. n - i \in Good
    BY <1>5, <2>1
  <2>3. QED
    BY <2>1, <2>2

\* The first occurrence of an entry stays, so all are there.
LEMMA DedupeKeeps ==
  ASSUME NEW S, NEW s \in Seq(S), NEW g, Dedupes(s, S, g), NEW n \in 0..Len(s)
  PROVE  /\ \A i \in 1..n : \E k \in DOMAIN g[n] : g[n][k] = s[i]
         /\ \A k \in DOMAIN g[n] : \E i \in 1..n : g[n][k] = s[i]
<1> DEFINE N == Len(s)
           Holds(i) == /\ \A j \in 1..i : \E k \in DOMAIN g[i] : g[i][k] = s[j]
                       /\ \A k \in DOMAIN g[i] : \E j \in 1..i : g[i][k] = s[j]
           Good == {i \in 0..n : Holds(i)}
<1>1. N \in Nat /\ n \in 0..N
  OBVIOUS
<1>2. /\ \A i \in 0..N : g[i] \in Seq(S)
      /\ g[0] = <<>>
      /\ \A i \in 1..N :
           /\ s[i] \in S
           /\ \/ s[i] \in Range(g[i - 1]) /\ g[i] = g[i - 1]
              \/ g[i] = Append(g[i - 1], s[i])
  BY DEF Dedupes
<1> HIDE DEF N
<1>3. 0 \in Good
  BY <1>1, <1>2
<1>4. \A i \in 0..(n - 1) : i \in Good => i + 1 \in Good
  <2> TAKE i \in 0..(n - 1)
  <2>1. HAVE i \in Good
  <2>2. i + 1 \in 1..N /\ i + 1 - 1 = i /\ i \in 0..N /\ i + 1 \in 0..n
    BY <1>1
  <2>3. PICK a, b, x : a = g[i] /\ b = g[i + 1] /\ x = s[i + 1]
    OBVIOUS
  <2>4. a \in Seq(S) /\ x \in S
    BY <1>2, <2>2, <2>3
  <2>5. (x \in Range(a) /\ b = a) \/ b = Append(a, x)
    BY <1>2, <2>2, <2>3
  <2>6. /\ \A j \in 1..i : \E k \in DOMAIN a : a[k] = s[j]
        /\ \A k \in DOMAIN a : \E j \in 1..i : a[k] = s[j]
    BY <2>1, <2>3
  <2>7. /\ \A j \in 1..i : \E k \in DOMAIN b : b[k] = s[j]
        /\ \E k \in DOMAIN b : b[k] = x
        /\ \A k \in DOMAIN b : b[k] = x \/ \E j \in 1..i : b[k] = s[j]
    <3>1. CASE x \in Range(a) /\ b = a
      BY <2>6, <3>1 DEF Range
    <3>2. CASE b = Append(a, x)
      <4>1. /\ DOMAIN b = 1..(Len(a) + 1) /\ DOMAIN a = 1..Len(a) /\ Len(a) \in Nat
            /\ b[Len(a) + 1] = x
            /\ \A k \in 1..Len(a) : b[k] = a[k]
        BY <2>4, <3>2
      <4>2. \A k \in DOMAIN b : k \in DOMAIN a \/ k = Len(a) + 1
        BY <4>1
      <4>3. \A k \in DOMAIN a : k \in DOMAIN b
        BY <4>1
      <4>4. ASSUME NEW j \in 1..i PROVE \E k \in DOMAIN b : b[k] = s[j]
        BY <2>6, <4>1, <4>3
      <4>5. Len(a) + 1 \in DOMAIN b
        BY <4>1
      <4>6. ASSUME NEW k \in DOMAIN b PROVE b[k] = x \/ \E j \in 1..i : b[k] = s[j]
        BY <2>6, <4>1, <4>2
      <4>7. QED
        BY <4>1, <4>4, <4>5, <4>6
    <3>3. QED
      BY <2>5, <3>1, <3>2
  <2>8. \A j \in 1..(i + 1) : j \in 1..i \/ j = i + 1
    OBVIOUS
  <2>9. i + 1 \in 1..(i + 1) /\ \A j \in 1..i : j \in 1..(i + 1)
    OBVIOUS
  <2>10. Holds(i + 1)
    BY <2>3, <2>7, <2>8, <2>9
  <2>11. QED
    BY <2>2, <2>10
<1>5. \A i \in 0..n : i \in Good
  <2> HIDE DEF Good
  <2> QED
    BY <1>1, <1>3, <1>4, InductionTo
<1>6. QED
  BY <1>1, <1>5

LEMMA DistinctIs ==
  ASSUME NEW S, NEW s \in Seq(S)
  PROVE  /\ Distinct(s) \in Seq(S) /\ Once(Distinct(s))
         /\ Within(s, Distinct(s)) /\ Within(Distinct(s), s)
<1>1. PICK g : Dedupes(s, S, g) /\ Distinct(s) = g[Len(s)]
  BY Deduped
<1>2. PICK n \in Nat : n = Len(s) /\ DOMAIN s = 1..n
  OBVIOUS
<1>3. n \in 0..Len(s)
  BY <1>2
<1>4. /\ \A i \in 1..n : \E k \in DOMAIN g[n] : g[n][k] = s[i]
      /\ \A k \in DOMAIN g[n] : \E i \in 1..n : g[n][k] = s[i]
  BY <1>1, <1>3, DedupeKeeps
<1>5. g[n] \in Seq(S) /\ Once(g[n])
  BY <1>1, <1>3 DEF Dedupes
<1>6. PICK d : d = g[n] /\ d = Distinct(s)
  BY <1>1, <1>2
<1>7. Within(s, d) /\ Within(d, s)
  <2>1. /\ \A i \in 1..n : \E k \in DOMAIN d : d[k] = s[i]
        /\ \A k \in DOMAIN d : \E i \in 1..n : d[k] = s[i]
    BY <1>4, <1>6
  <2>2. \A i \in DOMAIN s : \E k \in DOMAIN d : s[i] = d[k]
    BY <1>2, <2>1
  <2>3. \A k \in DOMAIN d : \E i \in DOMAIN s : d[k] = s[i]
    BY <1>2, <2>1
  <2>4. QED
    BY <2>2, <2>3 DEF Within
<1>8. QED
  BY <1>5, <1>6, <1>7

\* A list whose entries are all in another one is no longer without its
\* repetitions.
LEMMA FewerDistinct ==
  ASSUME NEW S, NEW s \in Seq(S), NEW t \in Seq(S), Within(s, t)
  PROVE  Len(Distinct(s)) <= Len(Distinct(t))
<1>1. PICK c, d : c = Distinct(s) /\ d = Distinct(t)
  OBVIOUS
<1>2. c \in Seq(S) /\ Once(c) /\ d \in Seq(S) /\ Within(c, s) /\ Within(t, d)
  BY <1>1, DistinctIs
<1>3. Within(c, d)
  <2> SUFFICES ASSUME NEW i \in DOMAIN c PROVE \E k \in DOMAIN d : c[i] = d[k]
    BY DEF Within
  <2>1. PICK j \in DOMAIN s : c[i] = s[j]
    BY <1>2 DEF Within
  <2>2. PICK h \in DOMAIN t : s[j] = t[h]
    BY DEF Within
  <2>3. PICK k \in DOMAIN d : t[h] = d[k]
    BY <1>2 DEF Within
  <2>4. QED
    BY <2>1, <2>2, <2>3
<1>4. QED
  BY <1>1, <1>2, <1>3, OnceFits

\* The first entries of a list without its repetitions depend on the first
\* entries of the list only.
LEMMA SameStart ==
  ASSUME NEW S, NEW s \in Seq(S), NEW t \in Seq(S),
         NEW g, Dedupes(s, S, g), NEW h, Dedupes(t, S, h),
         NEW p \in Nat, p <= Len(s), p <= Len(t), \A i \in 1..p : s[i] = t[i]
  PROVE  g[p] = h[p]
<1> DEFINE Good == {i \in 0..p : g[i] = h[i]}
<1>1. 0 \in Good
  BY DEF Dedupes
<1>2. \A i \in 0..(p - 1) : i \in Good => i + 1 \in Good
  <2> TAKE i \in 0..(p - 1)
  <2>1. HAVE i \in Good
  <2>2. /\ i + 1 \in 1..p /\ i + 1 \in 1..Len(s) /\ i + 1 \in 1..Len(t)
        /\ i + 1 - 1 = i /\ i + 1 \in 0..p
    OBVIOUS
  <2>3. PICK j \in 1..p : j = i + 1
    BY <2>2
  <2>4. PICK x, a : x = s[j] /\ x = t[j] /\ a = g[i] /\ a = h[i]
    BY <2>1
  <2>5. \/ x \in Range(a) /\ g[j] = a
        \/ x \notin Range(a) /\ g[j] = Append(a, x)
    <3>1. \/ s[j] \in Range(g[j - 1]) /\ g[j] = g[j - 1]
          \/ s[j] \notin Range(g[j - 1]) /\ g[j] = Append(g[j - 1], s[j])
      BY <2>2, <2>3 DEF Dedupes
    <3>2. j - 1 = i
      BY <2>3
    <3>3. QED
      BY <2>4, <3>1, <3>2, Zenon
  <2>6. \/ x \in Range(a) /\ h[j] = a
        \/ x \notin Range(a) /\ h[j] = Append(a, x)
    <3>1. \/ t[j] \in Range(h[j - 1]) /\ h[j] = h[j - 1]
          \/ t[j] \notin Range(h[j - 1]) /\ h[j] = Append(h[j - 1], t[j])
      BY <2>2, <2>3 DEF Dedupes
    <3>2. j - 1 = i
      BY <2>3
    <3>3. QED
      BY <2>4, <3>1, <3>2, Zenon
  <2>7. QED
    BY <2>2, <2>3, <2>5, <2>6
<1>3. \A i \in 0..p : i \in Good
  <2> HIDE DEF Good
  <2> QED
    BY <1>1, <1>2, InductionTo
<1>4. QED
  BY <1>3

LEMMA CutStart ==
  ASSUME NEW S, NEW a \in Seq(S), NEW b \in Seq(S), NEW n \in Nat, n <= Len(a), Begins(a, b)
  PROVE  AtMost(n, a) = AtMost(n, b)
<1>1. PICK c, d : c = AtMost(n, a) /\ d = AtMost(n, b)
  OBVIOUS
<1>2. /\ c \in Seq(S) /\ DOMAIN c = {i \in DOMAIN a : i <= n}
      /\ \A i \in DOMAIN c : c[i] = a[i]
  BY <1>1, FirstEntries
<1>3. /\ d \in Seq(S) /\ DOMAIN d = {i \in DOMAIN b : i <= n}
      /\ \A i \in DOMAIN d : d[i] = b[i]
  BY <1>1, FirstEntries
<1>4. Len(a) \in Nat /\ Len(b) \in Nat /\ DOMAIN a = 1..Len(a) /\ DOMAIN b = 1..Len(b)
      /\ Len(a) <= Len(b)
  BY DEF Begins
<1>5. DOMAIN c = 1..n /\ DOMAIN d = 1..n
  BY <1>2, <1>3, <1>4
<1>6. \A i \in 1..n : c[i] = d[i]
  BY <1>2, <1>3, <1>4, <1>5 DEF Begins
<1>7. c = d
  BY <1>2, <1>3, <1>5, <1>6
<1>8. QED
  BY <1>1, <1>7

\* Two lists that begin alike, with n different entries in what they share, are
\* alike in the first n entries when their repetitions are dropped.
LEMMA StartDecides ==
  ASSUME NEW S, NEW s \in Seq(S), NEW t \in Seq(S),
         NEW p \in Nat, Alike(p, s, t),
         NEW q \in Nat, NEW n \in Nat, q + n <= p, OnceIn(s, q, n)
  PROVE  AtMost(n, Distinct(s)) = AtMost(n, Distinct(t))
<1> p <= Len(s) /\ p <= Len(t) /\ \A i \in 1..p : s[i] = t[i]
  BY DEF Alike
<1> \A i, j \in (q + 1)..(q + n) : s[i] = s[j] => i = j
  BY DEF OnceIn
<1>1. PICK g : Dedupes(s, S, g) /\ Distinct(s) = g[Len(s)]
  BY Deduped
<1>2. PICK h : Dedupes(t, S, h) /\ Distinct(t) = h[Len(t)]
  BY Deduped
<1>3. g[p] = h[p]
  BY <1>1, <1>2, SameStart
<1>4. PICK a, c, d : a = g[p] /\ c = Distinct(s) /\ d = Distinct(t)
  OBVIOUS
<1>5. Begins(a, c)
  <2>1. Len(s) \in 0..Len(s) /\ p \in 0..Len(s)
    OBVIOUS
  <2>2. QED
    BY <1>1, <1>4, <2>1, DedupeGrows
<1>6. Begins(a, d)
  <2>1. Len(t) \in 0..Len(t) /\ p \in 0..Len(t)
    OBVIOUS
  <2>2. QED
    BY <1>2, <1>3, <1>4, <2>1, DedupeGrows
<1>7. a \in Seq(S) /\ c \in Seq(S) /\ d \in Seq(S)
  <2>1. p \in 0..Len(s)
    OBVIOUS
  <2>2. QED
    BY <1>1, <1>4, <2>1, DistinctIs DEF Dedupes
<1>8. n <= Len(a)
  <2>1. \A i \in 1..p : \E k \in DOMAIN a : a[k] = s[i]
    <3>1. p \in 0..Len(s)
      OBVIOUS
    <3>2. QED
      BY <1>1, <1>4, <3>1, DedupeKeeps
  <2>2. PICK m \in Nat : m = Len(a) /\ DOMAIN a = 1..m
    BY <1>7
  <2> DEFINE f == [i \in 1..n |-> CHOOSE k \in 1..m : a[k] = s[q + i]]
  <2>3. \A i \in 1..n : q + i \in 1..p /\ q + i \in (q + 1)..(q + n)
    OBVIOUS
  <2>4. \A i \in 1..n : f[i] \in 1..m /\ a[f[i]] = s[q + i]
    BY <2>1, <2>2, <2>3
  <2>5. f \in [1..n -> 1..m]
    BY <2>4
  <2> HIDE DEF f
  <2>6. \A i, j \in 1..n : f[i] = f[j] => i = j
    <3> TAKE i, j \in 1..n
    <3>1. HAVE f[i] = f[j]
    <3>2. s[q + i] = s[q + j]
      BY <2>4, <3>1
    <3>3. q + i = q + j
      BY <2>3, <3>2
    <3>4. QED
      BY <3>3
  <2>7. n <= m
    BY <2>5, <2>6, Pigeon
  <2>8. QED
    BY <2>2, <2>7
<1>9. AtMost(n, a) = AtMost(n, c) /\ AtMost(n, a) = AtMost(n, d)
  BY <1>5, <1>6, <1>7, <1>8, CutStart
<1>10. QED
  BY <1>4, <1>9

\* A list all of whose entries are asked for stays as it is.
LEMMA AmongAll ==
  ASSUME NEW S, NEW s \in Seq(S), NEW T, S \subseteq T
  PROVE  Among(s, T) = s
<1> DEFINE n == Len(s)
           g == CHOOSE g : AmongTo(s, T, n, g)
<1>1. n \in Nat /\ \A i \in 1..n : s[i] \in S
  OBVIOUS
<1>2. AmongTo(s, T, n, g)
  BY <1>1, AmongExists
<1>3. Among(s, T) = g[n]
  BY DEF Among, AmongTo
<1> HIDE DEF n, g
<1> DEFINE Good == {i \in 0..n : /\ g[i] \in Seq(S) /\ Len(g[i]) = i
                                 /\ \A k \in 1..i : g[i][k] = s[k]}
<1>4. 0 \in Good
  <2>1. PICK e : e = g[0]
    OBVIOUS
  <2>2. e = <<>> /\ 0 \in 0..n
    BY <1>1, <1>2, <2>1 DEF AmongTo
  <2>3. e \in Seq(S) /\ Len(e) = 0
    BY <2>2
  <2>4. g[0] \in Seq(S) /\ Len(g[0]) = 0 /\ \A k \in 1..0 : g[0][k] = s[k]
    BY <2>1, <2>3
  <2>5. QED
    BY <2>2, <2>4
<1>5. \A i \in 0..(n - 1) : i \in Good => i + 1 \in Good
  <2> TAKE i \in 0..(n - 1)
  <2>1. HAVE i \in Good
  <2>2. i + 1 \in 0..n /\ i + 1 # 0 /\ i + 1 - 1 = i /\ s[i + 1] \in S
    BY <1>1
  <2>3. \A k \in 0..n : k # 0 /\ s[k] \in T => g[k] = Append(g[k - 1], s[k])
    BY <1>2 DEF AmongTo
  <2>4. g[i + 1] = Append(g[i], s[i + 1])
    BY <2>2, <2>3
  <2>5. PICK a, b, x : a = g[i] /\ b = g[i + 1] /\ x = s[i + 1]
    OBVIOUS
  <2>6. a \in Seq(S) /\ Len(a) = i /\ (\A k \in 1..i : a[k] = s[k]) /\ b = Append(a, x) /\ x \in S
    BY <2>1, <2>2, <2>4, <2>5
  <2>7. b \in Seq(S) /\ Len(b) = i + 1 /\ b[i + 1] = x /\ \A k \in 1..i : b[k] = s[k]
    BY <2>6
  <2>8. \A k \in 1..(i + 1) : k = i + 1 \/ k \in 1..i
    OBVIOUS
  <2>9. QED
    BY <2>2, <2>5, <2>7, <2>8
<1>6. n \in Good
  <2> HIDE DEF Good
  <2>1. \A i \in 0..n : i \in Good
    BY <1>1, <1>4, <1>5, InductionTo
  <2>2. QED
    BY <1>1, <2>1
<1>7. PICK r : r = g[n]
  OBVIOUS
<1>8. r \in Seq(S) /\ Len(r) = n /\ \A k \in 1..n : r[k] = s[k]
  BY <1>6, <1>7
<1>9. r = s
  BY <1>8 DEF n
<1>10. QED
  BY <1>3, <1>7, <1>9

\* A function on the places of a list is the list.
LEMMA EachIs ==
  ASSUME NEW n \in Nat, NEW f, DOMAIN f = 1..n, f = [i \in 1..n |-> f[i]]
  PROVE  SubSeq(f, 1, n) = f
<1>1. f \in Seq({f[i] : i \in 1..n}) /\ Len(f) = n
  BY Zenon, SMT
<1>2. QED
  BY <1>1

\* g[i] is the first i lists, one after the other.
Strung(lists, S, g) ==
  /\ \A i \in 0..Len(lists) : g[i] \in Seq(S)
  /\ g[0] = <<>>
  /\ \A i \in 1..Len(lists) : g[i] = g[i - 1] \o lists[i]

LEMMA Concatenated ==
  ASSUME NEW S, NEW lists \in Seq(Seq(S))
  PROVE  \E g : Strung(lists, S, g) /\ FlattenSeq(lists) = g[Len(lists)]
<1> DEFINE n == Len(lists)
<1>1. n \in Nat /\ \A i \in 1..n : lists[i] \in Seq(S)
  OBVIOUS
<1>2. PICK e : e = <<>>
  OBVIOUS
<1>3. e \in Seq(S) /\ \A l \in Seq(S) : e \o l = l
  BY <1>2
<1>4. CASE n = 0
  <2> DEFINE g == [i \in 0..0 |-> e]
  <2>1. FlattenSeq(lists) = e
    <3>1. lists = e
      BY <1>2, <1>4
    <3>2. QED
      BY <1>4, <3>1, Zenon DEF FlattenSeq
  <2>2. Strung(lists, S, g) /\ g[n] = e
    BY <1>2, <1>3, <1>4 DEF Strung
  <2>3. QED
    BY <2>1, <2>2
<1>5. CASE n # 0
  <2> DEFINE To(h) == h = [i \in 1..n |-> IF i = 1 THEN lists[i] ELSE h[i - 1] \o lists[i]]
             F == [x \in (1..(n - 1)) \X Seq(S) |-> x[2] \o lists[x[1] + 1]]
  <2>1. n - 1 \in Nat /\ lists[1] \in Seq(S)
    BY <1>1, <1>5
  <2>2. F \in [(1..(n - 1)) \X Seq(S) -> Seq(S)]
    <3>1. ASSUME NEW x \in (1..(n - 1)) \X Seq(S) PROVE x[2] \o lists[x[1] + 1] \in Seq(S)
      <4>1. x[1] + 1 \in 1..n /\ x[2] \in Seq(S)
        BY <1>1
      <4>2. PICK b, c : b = x[2] /\ c = lists[x[1] + 1]
        OBVIOUS
      <4>3. b \in Seq(S) /\ c \in Seq(S)
        BY <1>1, <4>1, <4>2
      <4>4. b \o c \in Seq(S)
        BY <4>3
      <4>5. QED
        BY <4>2, <4>4
    <3>2. QED
      BY <3>1
  <2>3. PICK r \in [0..(n - 1) -> Seq(S)] : Iterates(r, n - 1, lists[1], F)
    <3> HIDE DEF n, F
    <3> QED
      BY <2>1, <2>2, Recursive
  <2>4. \A i \in 1..(n - 1) : r[i] = r[i - 1] \o lists[i + 1]
    <3> TAKE i \in 1..(n - 1)
    <3>1. PICK x : x = <<i, r[i - 1]>>
      OBVIOUS
    <3>2. x \in (1..(n - 1)) \X Seq(S) /\ x[1] = i /\ x[2] = r[i - 1]
      <4>1. r[i - 1] \in Seq(S)
        <5>1. i - 1 \in 0..(n - 1)
          BY <1>1
        <5>2. QED
          BY <2>3, <5>1
      <4>2. QED
        BY <3>1, <4>1
    <3>3. r[i] = F[x]
      BY <2>3, <3>1 DEF Iterates
    <3>4. F[x] = x[2] \o lists[x[1] + 1]
      BY <3>2, Zenon
    <3>5. QED
      BY <3>2, <3>3, <3>4, Zenon
  <2> DEFINE h == [i \in 1..n |-> r[i - 1]]
  <2>5. To(h)
    <3>1. ASSUME NEW i \in 1..n
          PROVE  h[i] = IF i = 1 THEN lists[i] ELSE h[i - 1] \o lists[i]
      <4>1. CASE i = 1
        BY <1>1, <2>3, <4>1 DEF Iterates
      <4>2. CASE i # 1
        <5>1. PICK k : k = i - 1
          OBVIOUS
        <5>2. k \in 1..(n - 1) /\ k \in 1..n /\ i = k + 1
          BY <1>1, <4>2, <5>1
        <5>3. h[i] = r[k] /\ h[k] = r[k - 1]
          BY <5>1, <5>2
        <5>4. QED
          BY <2>4, <4>2, <5>1, <5>2, <5>3
      <4>3. QED
        BY <4>1, <4>2
    <3>2. QED
      BY <3>1, Zenon
  <2>6. PICK c : c = CHOOSE f : To(f)
    OBVIOUS
  <2>7. To(c)
    <3> HIDE DEF To, h
    <3> QED
      BY <2>5, <2>6, Zenon
  <2>8. FlattenSeq(lists) = c[n]
    BY <1>5, <2>6, Zenon DEF FlattenSeq
  <2> HIDE DEF h
  <2>9. /\ c[1] = lists[1]
        /\ \A i \in 2..n : c[i] = c[i - 1] \o lists[i]
    <3>1. \A i \in 1..n : c[i] = IF i = 1 THEN lists[i] ELSE c[i - 1] \o lists[i]
      BY <2>7, Zenon
    <3>2. 1 \in 1..n /\ \A i \in 2..n : i \in 1..n /\ i # 1
      BY <1>1, <1>5
    <3>3. QED
      BY <3>1, <3>2, Zenon
  <2> DEFINE g == [i \in 0..n |-> IF i = 0 THEN e ELSE c[i]]
  <2>10. g[0] = e /\ \A i \in 1..n : g[i] = c[i]
    BY <1>1
  <2>11. ASSUME NEW i \in 1..n PROVE g[i] = g[i - 1] \o lists[i]
    <3>1. CASE i = 1
      <4>1. PICK l : l = lists[1]
        OBVIOUS
      <4>2. e \o l = l
        BY <1>3, <2>1, <4>1
      <4>3. g[0] \o lists[1] = lists[1]
        BY <2>10, <4>1, <4>2, Zenon
      <4>4. g[1] = lists[1] /\ i - 1 = 0
        BY <1>1, <2>9, <2>10, <3>1
      <4>5. QED
        BY <3>1, <4>3, <4>4, Zenon
    <3>2. CASE i # 1
      <4>1. i \in 2..n /\ i - 1 \in 1..n
        BY <3>2
      <4>2. QED
        BY <2>9, <2>10, <4>1
    <3>3. QED
      BY <3>1, <3>2
  <2> HIDE DEF g
  <2> DEFINE Good == {i \in 0..n : g[i] \in Seq(S)}
  <2>12. 0 \in Good
    BY <1>1, <1>3, <2>10
  <2>13. \A i \in 0..(n - 1) : i \in Good => i + 1 \in Good
    <3> TAKE i \in 0..(n - 1)
    <3>1. HAVE i \in Good
    <3>2. i + 1 \in 1..n /\ i + 1 \in 0..n /\ (i + 1) - 1 = i
      BY <1>1
    <3>3. PICK a, b, d : a = g[i] /\ b = lists[i + 1] /\ d = g[i + 1]
      OBVIOUS
    <3>4. a \in Seq(S) /\ b \in Seq(S) /\ d = a \o b
      BY <1>1, <2>11, <3>1, <3>2, <3>3
    <3>5. d \in Seq(S)
      BY <3>4
    <3>6. QED
      BY <3>2, <3>3, <3>5
  <2>14. \A i \in 0..n : g[i] \in Seq(S)
    <3> HIDE DEF Good
    <3>1. \A i \in 0..n : i \in Good
      BY <1>1, <2>12, <2>13, InductionTo
    <3>2. QED
      BY <3>1 DEF Good
  <2>15. Strung(lists, S, g)
    BY <1>2, <2>10, <2>11, <2>14 DEF Strung
  <2>16. g[n] = c[n]
    BY <1>1, <1>5, <2>10
  <2>17. QED
    BY <2>8, <2>15, <2>16
<1>6. QED
  BY <1>4, <1>5

\* What op makes of the first i entries, one after the other; f is op as a function.
Flattens(f, s, S, g) ==
  /\ \A i \in 0..Len(s) : g[i] \in Seq(S)
  /\ g[0] = <<>>
  /\ \A i \in 1..Len(s) : g[i] = g[i - 1] \o f[s[i]]

\* lists is what f makes of the entries.
Makes(lists, f, s) ==
  Len(lists) = Len(s) /\ \A i \in 1..Len(s) : lists[i] = f[s[i]]

LEMMA Flattened ==
  ASSUME NEW K, NEW S, NEW f \in [K -> Seq(S)], NEW s \in Seq(K),
         NEW lists \in Seq(Seq(S)), Makes(lists, f, s)
  PROVE  \E g : Flattens(f, s, S, g) /\ FlattenSeq(lists) = g[Len(s)]
<1>1. PICK g : Strung(lists, S, g) /\ FlattenSeq(lists) = g[Len(lists)]
  BY Concatenated
<1>2. QED
  BY <1>1 DEF Strung, Flattens, Makes

LEMMA Appended ==
  ASSUME NEW S, NEW a \in Seq(S), NEW b \in Seq(S)
  PROVE  /\ a \o b \in Seq(S) /\ Len(a \o b) = Len(a) + Len(b)
         /\ \A i \in 1..Len(a) : (a \o b)[i] = a[i]
         /\ \A i \in 1..Len(b) : (a \o b)[Len(a) + i] = b[i]
         /\ \A i \in 1..(Len(a) + Len(b)) : i \in 1..Len(a) \/ i - Len(a) \in 1..Len(b)
OBVIOUS

\* When every list is somebody's and has no repetitions, the lists of different
\* owners have none together.
LEMMA FlatOnce ==
  ASSUME NEW K, NEW S, NEW f \in [K -> Seq(S)], NEW s \in Seq(K), Once(s),
         NEW o, \A k \in K : Once(f[k]) /\ \A j \in DOMAIN f[k] : o[f[k][j]] = k,
         NEW g, Flattens(f, s, S, g)
  PROVE  Once(g[Len(s)])
<1> DEFINE n == Len(s)
           Owned(i) == Once(g[i]) /\ \A k \in DOMAIN g[i] : \E j \in 1..i : o[g[i][k]] = s[j]
           Good == {i \in 0..n : Owned(i)}
<1>1. n \in Nat /\ DOMAIN s = 1..n /\ \A i \in 1..n : s[i] \in K /\ f[s[i]] \in Seq(S)
  OBVIOUS
<1>2. /\ \A i \in 0..n : g[i] \in Seq(S)
      /\ g[0] = <<>>
      /\ \A i \in 1..n : g[i] = g[i - 1] \o f[s[i]]
  BY DEF Flattens
<1> HIDE DEF n
<1>3. 0 \in Good
  <2>1. PICK e : e = <<>>
    OBVIOUS
  <2>2. DOMAIN e = {}
    BY <2>1
  <2>3. Once(g[0]) /\ DOMAIN g[0] = {}
    BY <1>2, <2>1, <2>2 DEF Once
  <2>4. QED
    BY <1>1, <2>3
<1>4. \A i \in 0..(n - 1) : i \in Good => i + 1 \in Good
  <2> TAKE i \in 0..(n - 1)
  <2>1. HAVE i \in Good
  <2>2. /\ i + 1 \in 1..n /\ i + 1 \in 0..n /\ i + 1 - 1 = i /\ i \in 0..n
        /\ \A j \in 1..i : j \in 1..n /\ j # i + 1 /\ j \in 1..(i + 1)
        /\ i + 1 \in 1..(i + 1)
    BY <1>1
  <2>3. PICK a, b, c, k : a = g[i] /\ b = f[k] /\ c = g[i + 1] /\ k = s[i + 1]
    OBVIOUS
  <2>4. a \in Seq(S) /\ k \in K /\ b \in Seq(S) /\ c = a \o b
    <3>1. PICK j \in 1..n : j = i + 1 /\ j - 1 = i
      BY <2>2
    <3>2. g[j] = g[j - 1] \o f[s[j]]
      BY <1>2
    <3>3. c = a \o b
      BY <2>3, <3>1, <3>2, Zenon
    <3>4. QED
      BY <1>1, <1>2, <2>2, <2>3, <3>3
  <2>5. Once(a) /\ \A j \in DOMAIN a : \E h \in 1..i : o[a[j]] = s[h]
    BY <2>1, <2>3
  <2>6. Once(b) /\ \A j \in DOMAIN b : o[b[j]] = k
    BY <2>3, <2>4
  <2>7. \A h \in 1..i : s[h] # k
    BY <1>1, <2>2, <2>3 DEF Once
  <2>8. \A x \in DOMAIN a, y \in DOMAIN b : a[x] # b[y]
    BY <2>5, <2>6, <2>7
  <2>9. PICK m \in Nat, l \in Nat : m = Len(a) /\ l = Len(b)
    BY <2>4
  <2>10. /\ DOMAIN a = 1..m /\ DOMAIN b = 1..l /\ DOMAIN c = 1..(m + l)
         /\ \A x \in 1..m : c[x] = a[x]
         /\ \A x \in 1..l : c[m + x] = b[x]
    BY <2>4, <2>9, Appended
  <2>11. \A x \in 1..(m + l) :
           \/ x \in 1..m /\ c[x] = a[x]
           \/ x - m \in 1..l /\ c[x] = b[x - m]
    <3> TAKE x \in 1..(m + l)
    <3>1. CASE x \in 1..m
      BY <2>10, <3>1
    <3>2. CASE x \notin 1..m
      <4>1. PICK y \in 1..l : y = x - m /\ x = m + y
        BY <3>2
      <4>2. c[m + y] = b[y]
        BY <2>10
      <4>3. QED
        BY <4>1, <4>2
    <3>3. QED
      BY <3>1, <3>2
  <2>12. Once(c)
    <3> SUFFICES ASSUME NEW x \in 1..(m + l), NEW y \in 1..(m + l), c[x] = c[y] PROVE x = y
      BY <2>10 DEF Once
    <3>1. CASE x \in 1..m /\ y \in 1..m
      BY <2>5, <2>10, <3>1 DEF Once
    <3>2. CASE x \notin 1..m /\ y \notin 1..m
      <4>1. x - m \in 1..l /\ y - m \in 1..l /\ b[x - m] = b[y - m]
        BY <2>11, <3>2
      <4>2. x - m = y - m
        BY <2>6, <2>10, <4>1 DEF Once
      <4>3. QED
        BY <4>2
    <3>3. CASE x \in 1..m /\ y \notin 1..m
      <4>1. y - m \in 1..l /\ c[y] = b[y - m] /\ c[x] = a[x]
        BY <2>10, <2>11, <3>3
      <4>2. a[x] # b[y - m]
        BY <2>8, <2>10, <3>3, <4>1
      <4>3. QED
        BY <4>1, <4>2
    <3>4. CASE x \notin 1..m /\ y \in 1..m
      <4>1. x - m \in 1..l /\ c[x] = b[x - m] /\ c[y] = a[y]
        BY <2>10, <2>11, <3>4
      <4>2. a[y] # b[x - m]
        BY <2>8, <2>10, <3>4, <4>1
      <4>3. QED
        BY <4>1, <4>2
    <3>5. QED
      BY <3>1, <3>2, <3>3, <3>4
  <2>13. \A x \in DOMAIN c : \E j \in 1..(i + 1) : o[c[x]] = s[j]
    <3> TAKE x \in DOMAIN c
    <3>1. CASE x \in 1..m
      <4>1. c[x] = a[x] /\ \E j \in 1..i : o[a[x]] = s[j]
        BY <2>5, <2>10, <3>1
      <4>2. 1..i \subseteq 1..(i + 1)
        BY <2>2
      <4>3. QED
        BY <4>1, <4>2
    <3>2. CASE x - m \in 1..l /\ c[x] = b[x - m]
      <4>1. o[c[x]] = k
        BY <2>6, <2>10, <3>2
      <4>2. QED
        BY <2>2, <2>3, <4>1
    <3>3. QED
      BY <2>10, <2>11, <3>1, <3>2
  <2>14. Owned(i + 1)
    BY <2>3, <2>12, <2>13
  <2>15. QED
    BY <2>2, <2>14
<1>5. \A i \in 0..n : i \in Good
  <2> HIDE DEF Good
  <2> QED
    BY <1>1, <1>3, <1>4, InductionTo
<1>6. QED
  BY <1>1, <1>5 DEF n

\* One more list, cut or not.
LEMMA CutOnce ==
  ASSUME NEW S, NEW a \in Seq(S), NEW b \in Seq(S), NEW l \in Seq(S), NEW m \in Nat,
         a = b \/ Alike(m, a, b), Within(a, b)
  PROVE  /\ Within(a \o AtMost(m, l), b \o l)
         /\ a \o AtMost(m, l) = b \o l \/ Alike(m, a \o AtMost(m, l), b \o l)
<1>1. PICK k : k = AtMost(m, l)
  OBVIOUS
<1>2. /\ k \in Seq(S) /\ DOMAIN k = {i \in DOMAIN l : i <= m}
      /\ \A i \in DOMAIN k : k[i] = l[i]
  BY <1>1, FirstEntries
<1>3. PICK A \in Nat, B \in Nat, C \in Nat, D \in Nat :
         A = Len(a) /\ B = Len(b) /\ C = Len(k) /\ D = Len(l)
  BY <1>2
<1>4. DOMAIN a = 1..A /\ DOMAIN b = 1..B /\ DOMAIN k = 1..C /\ DOMAIN l = 1..D
  BY <1>2, <1>3
<1>5. C <= D /\ C <= m /\ (C = D \/ C = m)
  <2>1. 1..C = {i \in 1..D : i <= m}
    BY <1>2, <1>4
  <2>2. C <= D /\ C <= m
    <3>1. CASE C = 0
      BY <3>1
    <3>2. CASE C # 0
      <4>1. C \in 1..C
        BY <3>2
      <4>2. C \in {i \in 1..D : i <= m}
        BY <2>1, <4>1
      <4>3. QED
        BY <4>2
    <3>3. QED
      BY <3>1, <3>2
  <2>3. ASSUME C < D, C < m PROVE FALSE
    <3>1. C + 1 \in 1..D /\ C + 1 <= m /\ C + 1 \notin 1..C
      BY <2>3
    <3>2. QED
      BY <2>1, <3>1
  <2>4. QED
    BY <2>2, <2>3
<1>6. PICK x, y : x = a \o k /\ y = b \o l
  OBVIOUS
<1>7. /\ x \in Seq(S) /\ Len(x) = A + C /\ DOMAIN x = 1..(A + C)
      /\ \A i \in 1..A : x[i] = a[i]
      /\ \A i \in 1..C : x[A + i] = k[i]
  BY <1>2, <1>3, <1>6, Appended
<1>8. /\ y \in Seq(S) /\ Len(y) = B + D /\ DOMAIN y = 1..(B + D)
      /\ \A i \in 1..B : y[i] = b[i]
      /\ \A i \in 1..D : y[B + i] = l[i]
  BY <1>3, <1>6, Appended
<1>14. x = a \o AtMost(m, l) /\ y = b \o l
  BY <1>1, <1>6
<1>9. Within(x, y)
  <2> SUFFICES ASSUME NEW i \in 1..(A + C) PROVE \E j \in 1..(B + D) : x[i] = y[j]
    BY <1>7, <1>8 DEF Within
  <2>1. CASE i \in 1..A
    <3>1. PICK j \in 1..B : a[i] = b[j]
      BY <1>4, <2>1 DEF Within
    <3>2. j \in 1..(B + D)
      BY <1>3
    <3>3. QED
      BY <1>7, <1>8, <2>1, <3>1, <3>2
  <2>2. CASE i \notin 1..A
    <3>1. PICK j \in 1..C : i = A + j
      <4>1. i - A \in 1..C /\ i = A + (i - A)
        BY <1>3, <2>2
      <4>2. QED
        BY <4>1
    <3>2. j \in 1..D /\ k[j] = l[j] /\ B + j \in 1..(B + D)
      BY <1>2, <1>3, <1>4, <1>5
    <3>3. QED
      BY <1>7, <1>8, <3>1, <3>2
  <2>3. QED
    BY <2>1, <2>2
<1>10. CASE Alike(m, a, b)
  <2>1. m <= A /\ m <= B /\ \A i \in 1..m : a[i] = b[i]
    BY <1>3, <1>10 DEF Alike
  <2>2. \A i \in 1..m : i \in 1..A /\ i \in 1..B
    BY <1>3, <2>1
  <2>3. \A i \in 1..m : x[i] = y[i]
    BY <1>7, <1>8, <2>1, <2>2
  <2>4. m <= A + C /\ m <= B + D
    BY <1>3, <2>1
  <2>5. Alike(m, x, y)
    BY <1>7, <1>8, <2>3, <2>4 DEF Alike
  <2>6. QED
    BY <1>14, <1>9, <2>5, Zenon
<1>11. CASE a = b /\ C = D
  <2>1. k = l
    BY <1>2, <1>4, <1>11
  <2>2. x = y
    BY <1>6, <1>11, <2>1
  <2>3. QED
    BY <1>14, <1>9, <2>2, Zenon
<1>12. CASE a = b /\ C = m
  <2>1. A = B /\ m <= A + C /\ m <= B + D
    BY <1>3, <1>5, <1>12
  <2>2. \A i \in 1..m : x[i] = y[i]
    <3> TAKE i \in 1..m
    <3>1. CASE i \in 1..A
      BY <1>7, <1>8, <1>12, <2>1, <3>1
    <3>2. CASE i \notin 1..A
      <4>1. PICK j \in 1..C : i = A + j
        <5>1. i - A \in 1..C /\ i = A + (i - A)
          BY <1>3, <1>12, <3>2
        <5>2. QED
          BY <5>1
      <4>2. j \in 1..D /\ k[j] = l[j]
        BY <1>2, <1>4, <1>5
      <4>3. QED
        BY <1>7, <1>8, <2>1, <4>1, <4>2
    <3>3. QED
      BY <3>1, <3>2
  <2>3. Alike(m, x, y)
    BY <1>7, <1>8, <2>1, <2>2 DEF Alike
  <2>4. QED
    BY <1>14, <1>9, <2>3, Zenon
<1>13. QED
  BY <1>5, <1>10, <1>11, <1>12

\* Cutting every list to m entries leaves everything, or the first m entries.
LEMMA FlatCut ==
  ASSUME NEW K, NEW S, NEW f \in [K -> Seq(S)], NEW h \in [K -> Seq(S)], NEW m \in Nat,
         \A k \in K : h[k] = AtMost(m, f[k]),
         NEW s \in Seq(K), NEW b, Flattens(h, s, S, b), NEW c, Flattens(f, s, S, c)
  PROVE  /\ Within(b[Len(s)], c[Len(s)])
         /\ b[Len(s)] = c[Len(s)] \/ Alike(m, b[Len(s)], c[Len(s)])
<1> DEFINE n == Len(s)
           Good == {i \in 0..n : Within(b[i], c[i]) /\ (b[i] = c[i] \/ Alike(m, b[i], c[i]))}
<1>1. n \in Nat /\ \A i \in 1..n : s[i] \in K
  OBVIOUS
<1>2. /\ \A i \in 0..n : b[i] \in Seq(S) /\ c[i] \in Seq(S)
      /\ b[0] = <<>> /\ c[0] = <<>>
      /\ \A i \in 1..n : b[i] = b[i - 1] \o h[s[i]] /\ c[i] = c[i - 1] \o f[s[i]]
  BY DEF Flattens
<1> HIDE DEF n
<1>3. 0 \in Good
  <2>1. PICK e : e = <<>>
    OBVIOUS
  <2>2. Within(e, e)
    BY DEF Within
  <2>3. b[0] = e /\ c[0] = e /\ 0 \in 0..n
    BY <1>1, <1>2, <2>1
  <2>4. QED
    BY <2>2, <2>3
<1>4. \A i \in 0..(n - 1) : i \in Good => i + 1 \in Good
  <2> TAKE i \in 0..(n - 1)
  <2>1. HAVE i \in Good
  <2>2. PICK j \in 1..n : j = i + 1
    BY <1>1
  <2>3. j - 1 = i /\ j \in 0..n /\ i \in 0..n
    BY <1>1, <2>2
  <2>4. PICK x, y, l, k : x = b[i] /\ y = c[i] /\ k = s[j] /\ l = f[k]
    OBVIOUS
  <2>5. x \in Seq(S) /\ y \in Seq(S) /\ k \in K /\ l \in Seq(S)
    BY <1>1, <1>2, <2>3, <2>4
  <2>6. Within(x, y) /\ (x = y \/ Alike(m, x, y))
    BY <2>1, <2>4
  <2>7. b[j] = x \o AtMost(m, l)
    <3>1. b[j] = b[j - 1] \o h[s[j]]
      BY <1>2
    <3>2. h[k] = AtMost(m, l)
      BY <2>4, <2>5
    <3>3. QED
      BY <2>3, <2>4, <3>1, <3>2, Zenon
  <2>8. c[j] = y \o l
    <3>1. c[j] = c[j - 1] \o f[s[j]]
      BY <1>2
    <3>2. QED
      BY <2>3, <2>4, <3>1, Zenon
  <2>9. /\ Within(x \o AtMost(m, l), y \o l)
        /\ x \o AtMost(m, l) = y \o l \/ Alike(m, x \o AtMost(m, l), y \o l)
    BY <2>5, <2>6, CutOnce
  <2>10. PICK u, v : u = b[j] /\ v = c[j]
    OBVIOUS
  <2>11. Within(u, v) /\ (u = v \/ Alike(m, u, v))
    BY <2>7, <2>8, <2>9, <2>10, Zenon
  <2>12. QED
    BY <2>2, <2>3, <2>10, <2>11
<1>5. \A i \in 0..n : i \in Good
  <2> HIDE DEF Good
  <2> QED
    BY <1>1, <1>3, <1>4, InductionTo
<1>6. QED
  BY <1>1, <1>5 DEF n

-----------------------------------------------------------------------------
(* Orders by up to four numbers *)

ComesBefore(a, b, c, d, x, y) ==
  \/ a[x] < a[y]
  \/ a[x] = a[y] /\ b[x] < b[y]
  \/ a[x] = a[y] /\ b[x] = b[y] /\ c[x] < c[y]
  \/ a[x] = a[y] /\ b[x] = b[y] /\ c[x] = c[y] /\ d[x] < d[y]
Lex(S, a, b, c, d) == {p \in S \X S : ComesBefore(a, b, c, d, p[1], p[2])}

LEMMA LexIs ==
  ASSUME NEW S, NEW a, NEW b, NEW c, NEW d, NEW x \in S, NEW y \in S
  PROVE  <<x, y>> \in Lex(S, a, b, c, d) <=> ComesBefore(a, b, c, d, x, y)
<1>1. PICK p : p = <<x, y>>
  OBVIOUS
<1>2. p \in S \X S /\ p[1] = x /\ p[2] = y
  BY <1>1
<1>3. p \in Lex(S, a, b, c, d) <=> ComesBefore(a, b, c, d, x, y)
  BY <1>2, Zenon DEF Lex
<1>4. QED
  BY <1>1, <1>3, Zenon

\* ORDER BY four numbers, the last of which are all different.
LEMMA Sorted ==
  ASSUME NEW S, IsFiniteSet(S), NEW a \in [S -> Int], NEW b \in [S -> Int], NEW c \in [S -> Int],
         NEW d \in [S -> Int], \A x, y \in S : d[x] = d[y] => x = y,
         NEW R, R = Lex(S, a, b, c, d)
  PROVE  StrictOrder(S, R) /\ Lists(Listing(S, R), S, R)
<1>1. \A x, y \in S : <<x, y>> \in R <=> ComesBefore(a, b, c, d, x, y)
  BY LexIs
<1>2. \A x \in S : <<x, x>> \notin R
  BY <1>1 DEF ComesBefore
<1>3. \A x, y \in S : x # y => <<x, y>> \in R \/ <<y, x>> \in R
  <2> TAKE x, y \in S
  <2>1. HAVE x # y
  <2>2. /\ a[x] \in Int /\ a[y] \in Int /\ b[x] \in Int /\ b[y] \in Int
        /\ c[x] \in Int /\ c[y] \in Int /\ d[x] \in Int /\ d[y] \in Int /\ d[x] # d[y]
    BY <2>1
  <2>3. ComesBefore(a, b, c, d, x, y) \/ ComesBefore(a, b, c, d, y, x)
    BY <2>2 DEF ComesBefore
  <2>4. QED
    BY <1>1, <2>3
<1>4. \A x, y, z \in S : <<x, y>> \in R /\ <<y, z>> \in R => <<x, z>> \in R
  <2> TAKE x, y, z \in S
  <2>1. /\ a[x] \in Int /\ a[y] \in Int /\ a[z] \in Int /\ b[x] \in Int /\ b[y] \in Int
        /\ b[z] \in Int /\ c[x] \in Int /\ c[y] \in Int /\ c[z] \in Int
        /\ d[x] \in Int /\ d[y] \in Int /\ d[z] \in Int
    OBVIOUS
  <2>2. ComesBefore(a, b, c, d, x, y) /\ ComesBefore(a, b, c, d, y, z) => ComesBefore(a, b, c, d, x, z)
    BY <2>1 DEF ComesBefore
  <2>3. QED
    BY <1>1, <2>2
<1>5. StrictOrder(S, R)
  BY <1>2, <1>3, <1>4 DEF StrictOrder
<1>6. QED
  BY <1>5, ListingIs

\* The greatest of finitely many integers.
LEMMA MaxIs ==
  ASSUME NEW T, T \subseteq Int, IsFiniteSet(T), T # {}
  PROVE  Max(T) \in T /\ \A x \in T : Max(T) >= x
<1> DEFINE R == {p \in T \X T : p[1] > p[2]}
<1>1. \A x, y \in T : <<x, y>> \in R <=> x > y
  OBVIOUS
<1> HIDE DEF R
<1>2. StrictOrder(T, R)
  BY <1>1 DEF StrictOrder
<1>3. PICK s : Lists(s, T, R)
  BY <1>2, ListingIs
<1>4. s \in Seq(T) /\ \A x \in T : \E i \in DOMAIN s : s[i] = x
  BY <1>3 DEF Lists
<1>5. DOMAIN s = 1..Len(s) /\ Len(s) \in Nat /\ 1 \in DOMAIN s
  <2>1. DOMAIN s = 1..Len(s) /\ Len(s) \in Nat
    BY <1>4
  <2>2. DOMAIN s # {}
    BY <1>4, Zenon
  <2>3. QED
    BY <2>1, <2>2
<1>6. s[1] \in T /\ \A x \in T : s[1] >= x
  <2>1. ASSUME NEW x \in T PROVE s[1] >= x
    <3>1. PICK i \in DOMAIN s : s[i] = x
      BY <1>4
    <3>2. CASE i = 1
      BY <1>4, <1>5, <3>1, <3>2
    <3>3. CASE i # 1
      <4>1. 1 < i
        BY <1>5, <3>3
      <4>2. <<s[1], s[i]>> \in R
        BY <1>3, <1>5, <4>1 DEF Lists
      <4>3. s[1] \in T /\ s[i] \in T
        BY <1>4, <1>5
      <4>4. s[1] > s[i]
        BY <1>1, <4>2, <4>3, Zenon
      <4>5. s[1] \in Int /\ x \in Int
        BY <4>3
      <4>6. QED
        BY <3>1, <4>4, <4>5
    <3>4. QED
      BY <3>2, <3>3
  <2>2. QED
    BY <1>4, <1>5, <2>1
<1>7. QED
  BY <1>6 DEF Max

\* The values of a function on a finite set are finitely many.
LEMMA FiniteRange ==
  ASSUME NEW S, IsFiniteSet(S), NEW f, DOMAIN f = S
  PROVE  IsFiniteSet({f[x] : x \in S})
<1>1. PICK g : g = [x \in S |-> f[x]]
  OBVIOUS
<1>2. PICK T : T = {f[x] : x \in S}
  OBVIOUS
<1>3. g \in Surjection(S, T)
  BY <1>1, <1>2 DEF Surjection
<1>4. QED
  BY <1>2, <1>3, FS_Surjection

\* A list in an order has no repetitions.
LEMMA ListsOnce ==
  ASSUME NEW S, NEW R, StrictOrder(S, R), NEW s, Lists(s, S, R)
  PROVE  Once(s)
<1> SUFFICES ASSUME NEW i \in DOMAIN s, NEW j \in DOMAIN s, s[i] = s[j], i < j PROVE FALSE
  <2>1. s \in Seq(S)
    BY DEF Lists
  <2>2. DOMAIN s = 1..Len(s) /\ Len(s) \in Nat
    BY <2>1
  <2>3. \A i, j \in DOMAIN s : i < j \/ j < i \/ i = j
    BY <2>2
  <2>4. QED
    BY <2>3 DEF Once
<1>1. <<s[i], s[j]>> \in R
  BY DEF Lists
<1>2. s[i] \in S
  BY DEF Lists
<1>3. QED
  BY <1>1, <1>2 DEF StrictOrder

\* A list without repetitions has as many entries as places.
LEMMA OnceCounts ==
  ASSUME NEW S, NEW s \in Seq(S), Once(s)
  PROVE  IsFiniteSet(Range(s)) /\ Cardinality(Range(s)) = Len(s)
<1>1. DOMAIN s = 1..Len(s) /\ Len(s) \in Nat
  OBVIOUS
<1>2. PICK n, T : n = Len(s) /\ T = Range(s)
  BY <1>1
<1>3. IsFiniteSet(1..n) /\ Cardinality(1..n) = n
  <2>1. n \in Nat /\ n \in Int /\ 1 \in Int
    BY <1>1, <1>2
  <2>2. IsFiniteSet(1..n) /\ Cardinality(1..n) = IF 1 > n THEN 0 ELSE n - 1 + 1
    BY <2>1, FS_Interval
  <2>3. QED
    BY <2>1, <2>2
<1>4. s \in Bijection(1..n, T)
  <2>1. s \in [1..n -> T]
    BY <1>1, <1>2 DEF Range
  <2>2. s \in Injection(1..n, T)
    BY <1>1, <1>2, <2>1 DEF Injection, IsInjective, Once
  <2>3. s \in Surjection(1..n, T)
    BY <1>1, <1>2, <2>1 DEF Surjection, Range
  <2>4. QED
    BY <2>2, <2>3 DEF Bijection
<1>5. QED
  BY <1>2, <1>3, <1>4, FS_Bijection DEF ExistsBijection

-----------------------------------------------------------------------------
(* Some of the entries *)

Ascending(P) == {p \in P \X P : p[1] < p[2]}

\* e is the entries of s at the places in p.
Picked(e, s, p) == Len(e) = Len(p) /\ \A i \in 1..Len(p) : e[i] = s[p[i]]

LEMMA EntriesAtIs ==
  ASSUME NEW S, NEW s \in Seq(S), NEW P, P \subseteq DOMAIN s
  PROVE  /\ EntriesAt(s, P) \in Seq(S)
         /\ \E p : Lists(p, P, Ascending(P)) /\ Picked(EntriesAt(s, P), s, p)
<1> DEFINE R == Ascending(P)
           place == [x \in P |-> 1 + Cardinality({y \in P : y < x})]
<1>1. DOMAIN s = 1..Len(s) /\ Len(s) \in Nat
  OBVIOUS
<1>2. IsFiniteSet(P)
  <2>1. PICK n \in Nat : n = Len(s)
    BY <1>1
  <2>2. IsFiniteSet(1..n)
    BY FS_Interval
  <2>3. QED
    BY <1>1, <2>1, <2>2, FS_Subset
<1>3. \A x, y \in P : <<x, y>> \in R <=> x < y
  BY DEF Ascending
<1>4. StrictOrder(P, R)
  BY <1>1, <1>3 DEF StrictOrder
<1>5. PICK p : p = Ordered(P, LAMBDA i, j : i < j)
  OBVIOUS
<1>6. p = [n \in 1..Cardinality(P) |-> CHOOSE x \in P : place[x] = n]
  BY <1>5, Zenon DEF Ordered
<1> HIDE DEF R
<1>7. place = Standing(P, R)
  <2>1. \A x \in P : {y \in P : y < x} = {y \in P : <<y, x>> \in R}
    BY <1>3
  <2>2. QED
    BY <2>1 DEF Standing
<1> HIDE DEF place
<1>8. p = Listing(P, R)
  BY <1>6, <1>7 DEF Listing
<1>9. Lists(p, P, R)
  BY <1>2, <1>4, <1>8, ListingIs
<1>10. p \in Seq(P) /\ DOMAIN p = 1..Len(p) /\ Len(p) \in Nat
  BY <1>9 DEF Lists
<1>11. PICK e : e = [n \in 1..Len(p) |-> s[p[n]]]
  OBVIOUS
<1>12. EntriesAt(s, P) = SubSeq(e, 1, Len(p))
  BY <1>5, <1>10, <1>11, Zenon DEF EntriesAt, Each
<1>13. SubSeq(e, 1, Len(p)) = e
  BY <1>10, <1>11, EachIs
<1>14. e \in Seq(S) /\ Picked(e, s, p)
  BY <1>1, <1>10, <1>11 DEF Picked
<1>15. QED
  BY <1>9, <1>12, <1>13, <1>14 DEF R
==============================================================================
