--------------------------- MODULE Documents_proofs ---------------------------
(***************************************************************************)
(* What holds of the evidence tier for any number of chunks, ingests and   *)
(* searches.                                                               *)
(***************************************************************************)
EXTENDS Documents, Rankings_proofs

-----------------------------------------------------------------------------
(* Reciprocal rank fusion *)

\* Fractions by cross multiplication.
LEMMA Multiplied ==
  ASSUME NEW a \in Nat, NEW b \in Nat, NEW c \in Nat
  PROVE  /\ a <= b => a * c <= b * c
         /\ a < b /\ c > 0 => a * c < b * c
  OBVIOUS

LEMMA Fractions ==
  ASSUME NEW a \in Nat, NEW x \in Nat \ {0}, NEW b \in Nat, NEW y \in Nat \ {0},
         NEW c \in Nat, NEW z \in Nat \ {0},
         a * y >= b * x, b * z >= c * y
  PROVE  /\ a * z >= c * x
         /\ a * y > b * x \/ b * z > c * y => a * z > c * x
<1>1. (a * y) * z >= (b * x) * z /\ (b * z) * x >= (c * y) * x
  BY Multiplied
<1>2. (a * y) * z = (a * z) * y /\ (c * y) * x = (c * x) * y /\ (b * x) * z = (b * z) * x
  OBVIOUS
<1>3. (a * z) * y >= (c * x) * y
  BY <1>1, <1>2
<1>4. a * z >= c * x
  <2>1. ~(a * z < c * x)
    BY <1>3, Multiplied
  <2>2. QED
    BY <2>1
<1>5. ASSUME a * y > b * x \/ b * z > c * y PROVE a * z > c * x
  <2>1. (a * y) * z > (b * x) * z \/ (b * z) * x > (c * y) * x
    BY <1>5, Multiplied
  <2>2. (a * z) * y > (c * x) * y
    BY <1>1, <1>2, <2>1
  <2>3. QED
    BY <1>4, <2>2
<1>6. QED
  BY <1>4, <1>5

Fraction(f) == f[1] \in Nat /\ f[2] \in Nat \ {0}

\* c comes before d in the fusion of two arms.
Above(semantic, lexical, c, d) ==
  LET left == Score(semantic, lexical, c)[1] * Score(semantic, lexical, d)[2]
      right == Score(semantic, lexical, d)[1] * Score(semantic, lexical, c)[2]
  IN  left > right \/ (left = right /\ c < d)
AboveSet(semantic, lexical) ==
  {p \in (Range(semantic) \cup Range(lexical)) \X (Range(semantic) \cup Range(lexical)) :
     Above(semantic, lexical, p[1], p[2])}

LEMMA Shares ==
  ASSUME NEW s \in Seq(Nat), NEW c
  PROVE  Fraction(Share(s, c)) /\ (c \in Range(s) => Position(s, c) \in DOMAIN s /\ s[Position(s, c)] = c)
<1>1. RrfK \in Nat \ {0}
  BY DocumentsAssumption
<1>2. c \in Range(s) => Position(s, c) \in DOMAIN s /\ s[Position(s, c)] = c
  BY DEF Range, Position
<1>3. c \in Range(s) => RrfK + Position(s, c) \in Nat \ {0}
  BY <1>1, <1>2
<1>4. QED
  BY <1>2, <1>3 DEF Share, Fraction

LEMMA Scores ==
  ASSUME NEW semantic \in Seq(Nat), NEW lexical \in Seq(Nat), NEW c
  PROVE  Fraction(Score(semantic, lexical, c))
<1> DEFINE p == Share(semantic, c)
           q == Share(lexical, c)
<1>1. Fraction(p) /\ Fraction(q)
  BY Shares
<1>2. Score(semantic, lexical, c) = <<p[1] * q[2] + q[1] * p[2], p[2] * q[2]>>
  BY DEF Score
<1> HIDE DEF p, q
<1>3. p[1] * q[2] \in Nat /\ q[1] * p[2] \in Nat /\ p[2] * q[2] \in Nat
  <2>1. p[1] \in Nat /\ p[2] \in Nat /\ q[1] \in Nat /\ q[2] \in Nat
    BY <1>1 DEF Fraction
  <2>2. \A m, n \in Nat : m * n \in Nat
    OBVIOUS
  <2>3. QED
    BY <2>1, <2>2
<1>4. p[2] * q[2] # 0
  BY <1>1 DEF Fraction
<1>5. QED
  BY <1>2, <1>3, <1>4 DEF Fraction

LEMMA AboveIsOrder ==
  ASSUME NEW semantic \in Seq(Nat), NEW lexical \in Seq(Nat)
  PROVE  StrictOrder(Range(semantic) \cup Range(lexical), AboveSet(semantic, lexical))
<1> DEFINE S == Range(semantic) \cup Range(lexical)
           num(c) == Score(semantic, lexical, c)[1]
           den(c) == Score(semantic, lexical, c)[2]
           R == AboveSet(semantic, lexical)
<1>1. \A c : num(c) \in Nat /\ den(c) \in Nat \ {0}
  BY Scores DEF Fraction
<1>2. S \subseteq Nat
  BY DEF Range
<1>3. \A c, d \in S : <<c, d>> \in R <=> \/ num(c) * den(d) > num(d) * den(c)
                                       \/ (num(c) * den(d) = num(d) * den(c) /\ c < d)
  BY DEF AboveSet, Above
<1>4. R = AboveSet(semantic, lexical)
  OBVIOUS
<1> HIDE DEF S, num, den, R
<1>5. \A c \in S : <<c, c>> \notin R
  BY <1>1, <1>2, <1>3
<1>6. \A c, d \in S : c # d => <<c, d>> \in R \/ <<d, c>> \in R
  <2> TAKE c, d \in S
  <2>1. num(c) * den(d) \in Nat /\ num(d) * den(c) \in Nat /\ c \in Nat /\ d \in Nat
    BY <1>1, <1>2
  <2>2. HAVE c # d
  <2>3. c < d \/ d < c
    BY <2>1, <2>2
  <2>4. \/ num(c) * den(d) > num(d) * den(c) \/ num(d) * den(c) > num(c) * den(d)
        \/ num(c) * den(d) = num(d) * den(c)
    BY <2>1
  <2>5. QED
    BY <1>3, <2>3, <2>4
<1>7. ASSUME NEW c \in S, NEW d \in S, NEW e \in S, <<c, d>> \in R, <<d, e>> \in R
      PROVE  <<c, e>> \in R
  <2> DEFINE cd == num(c) * den(d)
             dc == num(d) * den(c)
             de == num(d) * den(e)
             ed == num(e) * den(d)
             ce == num(c) * den(e)
             ec == num(e) * den(c)
  <2>1. cd \in Nat /\ dc \in Nat /\ de \in Nat /\ ed \in Nat /\ ce \in Nat /\ ec \in Nat
    <3>1. \A m, n \in Nat : m * n \in Nat
      OBVIOUS
    <3>2. \A x : num(x) \in Nat /\ den(x) \in Nat
      BY <1>1
    <3>3. QED
      BY <3>1, <3>2
  <2>2. /\ cd > dc \/ (cd = dc /\ c < d)
        /\ de > ed \/ (de = ed /\ d < e)
    BY <1>3, <1>7
  <2>3. cd >= dc /\ de >= ed
    <3> HIDE DEF cd, dc, de, ed
    <3> QED
      BY <2>1, <2>2
  <2>4. ce >= ec /\ (cd > dc \/ de > ed => ce > ec)
    BY <1>1, <2>3, Fractions
  <2>5. c \in Nat /\ d \in Nat /\ e \in Nat
    BY <1>2
  <2>6. <<c, e>> \in R <=> ce > ec \/ (ce = ec /\ c < e)
    BY <1>3
  <2> HIDE DEF cd, dc, de, ed, ce, ec
  <2>7. QED
    BY <2>1, <2>2, <2>4, <2>5, <2>6
<1>8. QED
  BY <1>5, <1>6, <1>7 DEF StrictOrder, S, R

\* The fusion is the first of the arms' chunks in that order.
LEMMA FusedIs ==
  ASSUME NEW semantic \in Seq(Nat), NEW lexical \in Seq(Nat)
  PROVE  LET S == Range(semantic) \cup Range(lexical) IN
         \E s : /\ Lists(s, S, AboveSet(semantic, lexical))
                /\ Fused(semantic, lexical) = AtMost(Limit, s)
<1> DEFINE S == Range(semantic) \cup Range(lexical)
           R == AboveSet(semantic, lexical)
           place == [x \in S |-> 1 + Cardinality({y \in S : Above(semantic, lexical, y, x)})]
<1>1. IsFiniteSet(S)
  <2>1. IsFiniteSet(Range(semantic)) /\ IsFiniteSet(Range(lexical))
    <3>1. ASSUME NEW s \in Seq(Nat) PROVE IsFiniteSet(Range(s))
      <4>1. s \in [1..Len(s) -> Nat]
        OBVIOUS
      <4>5. Range(s) = {s[i] : i \in 1..Len(s)}
        BY <4>1 DEF Range
      <4>2. s \in Surjection(1..Len(s), Range(s))
        BY <4>1, <4>5 DEF Surjection
      <4>3. IsFiniteSet(1..Len(s))
        BY FS_Interval
      <4>4. QED
        BY <4>2, <4>3, FS_Surjection
    <3>2. QED
      BY <3>1
  <2>2. QED
    BY <2>1, FS_Union
<1>2. place = Standing(S, R)
  <2>1. \A x \in S : {y \in S : Above(semantic, lexical, y, x)} = {y \in S : <<y, x>> \in R}
    BY DEF AboveSet
  <2>2. QED
    BY <2>1 DEF Standing
<1>3. Fused(semantic, lexical) = AtMost(Limit, [n \in 1..Cardinality(S) |-> CHOOSE x \in S : place[x] = n])
  BY Zenon DEF Fused, Ordered, Above
<1> HIDE DEF place
<1>4. Fused(semantic, lexical) = AtMost(Limit, Listing(S, R))
  BY <1>2, <1>3 DEF Listing
<1>5. QED
  BY <1>1, <1>4, AboveIsOrder, ListingIs

LEMMA Sums ==
  ASSUME NEW a \in Nat, NEW u \in Nat \ {0}, NEW e \in Nat, NEW v \in Nat \ {0},
         NEW b \in Nat, NEW x \in Nat \ {0}, NEW f \in Nat, NEW y \in Nat \ {0},
         a * v >= e * u, b * y >= f * x, a * v > e * u \/ b * y > f * x
  PROVE  (a * x + b * u) * (v * y) > (e * y + f * v) * (u * x)
<1> DEFINE av == a * v
           eu == e * u
           by == b * y
           fx == f * x
           xy == x * y
           uv == u * v
<1>1. av \in Nat /\ eu \in Nat /\ by \in Nat /\ fx \in Nat /\ xy \in Nat \ {0} /\ uv \in Nat \ {0}
  <2>1. av \in Nat /\ eu \in Nat /\ by \in Nat /\ fx \in Nat /\ xy \in Nat /\ uv \in Nat
    OBVIOUS
  <2>2. xy # 0 /\ uv # 0
    OBVIOUS
  <2>3. QED
    BY <2>1, <2>2
<1>2. (a * x + b * u) * (v * y) = av * xy + by * uv
  OBVIOUS
<1>3. (e * y + f * v) * (u * x) = eu * xy + fx * uv
  OBVIOUS
<1>4. av >= eu /\ by >= fx /\ (av > eu \/ by > fx)
  OBVIOUS
<1> HIDE DEF av, eu, by, fx, xy, uv
<1>5. av * xy >= eu * xy /\ by * uv >= fx * uv /\ (av * xy > eu * xy \/ by * uv > fx * uv)
  BY <1>1, <1>4, Multiplied
<1>6. av * xy \in Nat /\ eu * xy \in Nat /\ by * uv \in Nat /\ fx * uv \in Nat
  BY <1>1
<1>7. QED
  BY <1>2, <1>3, <1>5, <1>6

\* A chunk that comes before another in the arms that found the other one.
LEMMA BeforeIsAbove ==
  ASSUME NEW semantic \in Seq(Nat), NEW lexical \in Seq(Nat), NEW c,
         NEW d \in Range(semantic) \cup Range(lexical),
         \A arm \in {semantic, lexical} : d \in Range(arm) => Before(arm, c, d)
  PROVE  Above(semantic, lexical, c, d)
<1>1. RrfK \in Nat \ {0}
  BY DocumentsAssumption
<1>2. ASSUME NEW arm \in {semantic, lexical}
      PROVE  /\ Fraction(Share(arm, c)) /\ Fraction(Share(arm, d))
             /\ Share(arm, c)[1] * Share(arm, d)[2] >= Share(arm, d)[1] * Share(arm, c)[2]
             /\ d \in Range(arm) =>
                  Share(arm, c)[1] * Share(arm, d)[2] > Share(arm, d)[1] * Share(arm, c)[2]
  <2>1. arm \in Seq(Nat)
    OBVIOUS
  <2>2. Fraction(Share(arm, c)) /\ Fraction(Share(arm, d))
    BY <2>1, Shares
  <2>3. CASE d \in Range(arm)
    <3>1. Before(arm, c, d)
      BY <2>3
    <3>2. /\ Position(arm, c) \in Nat /\ Position(arm, d) \in Nat
          /\ Position(arm, c) < Position(arm, d)
      BY <2>1, <2>3, <3>1, Shares DEF Before
    <3>3. Share(arm, c) = <<1, RrfK + Position(arm, c)>> /\ Share(arm, d) = <<1, RrfK + Position(arm, d)>>
      BY <2>3, <3>1 DEF Before, Share
    <3>4. QED
      BY <1>1, <2>2, <3>2, <3>3
  <2>4. CASE d \notin Range(arm)
    <3>1. Share(arm, d)[1] = 0 /\ Share(arm, d)[2] = 1
      BY <2>4 DEF Share
    <3>2. QED
      BY <2>2, <2>4, <3>1 DEF Fraction
  <2>5. QED
    BY <2>3, <2>4
<1> DEFINE a == Share(semantic, c)
           b == Share(lexical, c)
           e == Share(semantic, d)
           f == Share(lexical, d)
<1>3. /\ Fraction(a) /\ Fraction(e) /\ a[1] * e[2] >= e[1] * a[2]
      /\ d \in Range(semantic) => a[1] * e[2] > e[1] * a[2]
  BY <1>2
<1>4. /\ Fraction(b) /\ Fraction(f) /\ b[1] * f[2] >= f[1] * b[2]
      /\ d \in Range(lexical) => b[1] * f[2] > f[1] * b[2]
  BY <1>2
<1>5. /\ Score(semantic, lexical, c)[1] = a[1] * b[2] + b[1] * a[2]
      /\ Score(semantic, lexical, c)[2] = a[2] * b[2]
      /\ Score(semantic, lexical, d)[1] = e[1] * f[2] + f[1] * e[2]
      /\ Score(semantic, lexical, d)[2] = e[2] * f[2]
  BY DEF Score
<1> HIDE DEF a, b, e, f
<1>6. (a[1] * b[2] + b[1] * a[2]) * (e[2] * f[2]) > (e[1] * f[2] + f[1] * e[2]) * (a[2] * b[2])
  BY <1>3, <1>4, Sums DEF Fraction
<1>7. QED
  BY <1>5, <1>6 DEF Above

\* A list holds each entry once.
LEMMA OnePlace ==
  ASSUME NEW s, NEW S, S \subseteq Nat, NEW R, StrictOrder(S, R), Lists(s, S, R),
         NEW n \in Nat, NEW i \in DOMAIN AtMost(n, s)
  PROVE  /\ AtMost(n, s)[i] = s[i] /\ i \in DOMAIN s /\ i <= n
         /\ Position(AtMost(n, s), s[i]) = i
<1> DEFINE t == AtMost(n, s)
<1>1. s \in Seq(S)
  BY DEF Lists
<1>2. /\ \A k \in DOMAIN t : k \in DOMAIN s /\ k <= n /\ t[k] = s[k]
  BY <1>1, FirstEntries
<1> HIDE DEF t
<1>3. \A j, k \in DOMAIN s : s[j] = s[k] => j = k
  <2> TAKE j, k \in DOMAIN s
  <2>1. j \in Nat /\ k \in Nat /\ s[j] \in S /\ s[k] \in S
    BY <1>1
  <2>2. j < k => <<s[j], s[k]>> \in R
    BY DEF Lists
  <2>3. k < j => <<s[k], s[j]>> \in R
    BY DEF Lists
  <2>4. HAVE s[j] = s[k]
  <2>5. <<s[j], s[j]>> \notin R /\ <<s[k], s[j]>> = <<s[j], s[j]>> /\ <<s[j], s[k]>> = <<s[j], s[j]>>
    BY <2>1, <2>4 DEF StrictOrder
  <2>6. QED
    BY <2>1, <2>2, <2>3, <2>5
<1>4. \A k \in DOMAIN t : t[k] = s[i] <=> k = i
  BY <1>2, <1>3 DEF t
<1>5. i \in DOMAIN t
  BY DEF t
<1>6. Position(t, s[i]) = i
  BY <1>4, <1>5 DEF Position
<1>7. QED
  BY <1>2, <1>5, <1>6 DEF t

\* The fusion respects its arms.
LEMMA FusionRespects ==
  ASSUME NEW semantic \in Seq(Nat), NEW lexical \in Seq(Nat),
         NEW d \in Range(Fused(semantic, lexical)),
         NEW c \in Range(semantic) \cup Range(lexical),
         \A arm \in {semantic, lexical} : d \in Range(arm) => Before(arm, c, d)
  PROVE  Before(Fused(semantic, lexical), c, d)
<1> DEFINE S == Range(semantic) \cup Range(lexical)
           R == AboveSet(semantic, lexical)
<1>1. PICK s : Lists(s, S, R) /\ Fused(semantic, lexical) = AtMost(Limit, s)
  BY FusedIs
<1>2. StrictOrder(S, R) /\ S \subseteq Nat
  <2>1. StrictOrder(S, R)
    BY AboveIsOrder
  <2>2. S \subseteq Nat
    BY DEF Range
  <2>3. QED
    BY <2>1, <2>2
<1>3. Limit \in Nat
  BY DocumentsAssumption
<1> DEFINE t == AtMost(Limit, s)
<1>4. PICK j \in DOMAIN t : t[j] = d
  BY <1>1 DEF Range
<1>5. j \in DOMAIN s /\ j <= Limit /\ s[j] = d /\ Position(t, d) = j
  BY <1>1, <1>2, <1>3, <1>4, OnePlace
<1>6. d \in S
  BY <1>1, <1>5 DEF Lists
<1>7. <<c, d>> \in R
  <2>1. Above(semantic, lexical, c, d)
    BY <1>6, BeforeIsAbove
  <2>2. QED
    BY <1>6, <2>1 DEF AboveSet
<1> HIDE DEF S, R
<1>8. PICK i \in DOMAIN s : s[i] = c
  BY <1>1 DEF Lists, S
<1>9. i < j
  BY <1>1, <1>5, <1>7, <1>8 DEF Lists
<1>10. i \in DOMAIN t
  <2>1. s \in Seq(S)
    BY <1>1 DEF Lists
  <2>2. DOMAIN t = {k \in DOMAIN s : k <= Limit}
    BY <1>3, <2>1, FirstEntries
  <2>3. i \in Nat /\ j \in Nat
    BY <2>1, <1>5
  <2>4. QED
    BY <1>3, <1>5, <1>8, <1>9, <2>2, <2>3
<1>11. t[i] = c /\ Position(t, c) = i
  BY <1>1, <1>2, <1>3, <1>8, <1>10, OnePlace
<1> HIDE DEF t
<1>12. c \in Range(t)
  BY <1>10, <1>11 DEF Range
<1>13. QED
  BY <1>1, <1>5, <1>9, <1>11, <1>12 DEF Before, t

-----------------------------------------------------------------------------
(* Ingest *)

Identity(row) == <<row.space, row.text, row.path>>

\* The tables of the chunks, at rest and in the loop of an ingest.
Table(t) ==
  /\ t = [count |-> t.count, chunks |-> t.chunks, fts |-> t.fts, vectors |-> t.vectors]
  /\ t.count \in Nat
  /\ t.chunks \in [DOMAIN t.chunks -> Chunk] /\ DOMAIN t.chunks \subseteq 1..t.count
  /\ \A c \in DOMAIN t.chunks : t.chunks[c].index < t.chunks[c].of
  /\ t.fts = [c \in DOMAIN t.chunks |-> FtsRow(t.chunks[c])]
  /\ t.vectors \subseteq DOMAIN t.chunks
  /\ \A c, d \in DOMAIN t.chunks : Identity(t.chunks[c]) = Identity(t.chunks[d]) => c = d

\* The iteration of an ingest for one content.
Iterated(t, r, i) ==
  LET found == SameChunk(t, r, r.texts[i]) IN
  IF found = {} THEN Inserted(t, r, i) ELSE Repaired(t, r, i, Min(found))

NewRow(r, i) ==
  [space |-> r.space, path |-> r.path, text |-> r.texts[i], index |-> i - 1,
   of |-> Len(r.texts), meta |-> r.meta, status |-> "indexed"]

\* A row at another place.
LEMMA Moved ==
  ASSUME NEW r \in IngestRequest, NEW i \in DOMAIN r.texts, NEW row \in Chunk
  PROVE  LET new == At(row, Place(r, i)) IN
         /\ new \in Chunk /\ new.index = i - 1 /\ new.of = Len(r.texts) /\ new.meta = r.meta
         /\ new.index < new.of
         /\ Identity(new) = Identity(row) /\ new.status = row.status
<1>1. i - 1 \in Nat /\ Len(r.texts) \in Nat /\ i - 1 < Len(r.texts) /\ r.meta \in Metas
  BY DEF IngestRequest
<1> DEFINE new == [row EXCEPT !.index = i - 1, !.of = Len(r.texts), !.meta = r.meta]
<1>2. At(row, Place(r, i)) = new
  BY DEF At, Place
<1>3. new \in Chunk
  BY <1>1 DEF Chunk
<1>4. /\ new.index = i - 1 /\ new.of = Len(r.texts) /\ new.meta = r.meta
      /\ new.status = row.status /\ new.space = row.space /\ new.path = row.path /\ new.text = row.text
  BY DEF Chunk
<1> HIDE DEF new
<1>5. QED
  BY <1>1, <1>2, <1>3, <1>4 DEF Identity

LEMMA NewRowIs ==
  ASSUME NEW r \in IngestRequest, NEW i \in DOMAIN r.texts
  PROVE  /\ NewRow(r, i) \in Chunk /\ NewRow(r, i).index < NewRow(r, i).of
         /\ Identity(NewRow(r, i)) = <<r.space, r.texts[i], r.path>>
  BY DEF NewRow, Chunk, IngestRequest, Identity

\* A repair changes the place and the provenance of one chunk.
LEMMA RepairTable ==
  ASSUME NEW t, Table(t), NEW r \in IngestRequest, NEW i \in DOMAIN r.texts, NEW c \in DOMAIN t.chunks
  PROVE  LET u == Repaired(t, r, i, c) IN
         /\ Table(u) /\ u.count = t.count /\ u.vectors = t.vectors
         /\ DOMAIN u.chunks = DOMAIN t.chunks
         /\ \A d \in DOMAIN t.chunks \ {c} : u.chunks[d] = t.chunks[d]
         /\ u.chunks[c] = At(t.chunks[c], Place(r, i))
<1> DEFINE row == At(t.chunks[c], Place(r, i))
           cs == [t.chunks EXCEPT ![c] = row]
           fs == [t.fts EXCEPT ![c] = FtsRow(row)]
           u == [count |-> t.count, chunks |-> cs, fts |-> fs, vectors |-> t.vectors]
<1>1. Repaired(t, r, i, c) = u
  <2>1. Repaired(t, r, i, c) = [t EXCEPT !.chunks[c] = row, !.fts[c] = FtsRow(row)]
    BY DEF Repaired
  <2>2. t = [count |-> t.count, chunks |-> t.chunks, fts |-> t.fts, vectors |-> t.vectors]
    BY DEF Table
  <2> HIDE DEF row
  <2>3. QED
    BY <2>1, <2>2
<1>2. row \in Chunk /\ row.index < row.of /\ Identity(row) = Identity(t.chunks[c])
  BY Moved DEF Table
<1>3. /\ cs \in [DOMAIN t.chunks -> Chunk] /\ cs[c] = row
      /\ \A d \in DOMAIN t.chunks \ {c} : cs[d] = t.chunks[d]
  BY <1>2 DEF Table
<1>4. fs = [d \in DOMAIN t.chunks |-> FtsRow(cs[d])]
  BY DEF Table
<1> HIDE DEF row, cs, fs
<1>5. \A d \in DOMAIN t.chunks : cs[d].index < cs[d].of /\ Identity(cs[d]) = Identity(t.chunks[d])
  BY <1>2, <1>3 DEF Table
<1>6. Table(u)
  BY <1>3, <1>4, <1>5 DEF Table
<1>7. QED
  BY <1>1, <1>3, <1>6 DEF row

\* A content that is not there gets the next id.
LEMMA InsertTable ==
  ASSUME NEW t, Table(t), NEW r \in IngestRequest, NEW i \in DOMAIN r.texts,
         SameChunk(t, r, r.texts[i]) = {}
  PROVE  LET u == Inserted(t, r, i)
             c == t.count + 1
         IN  /\ Table(u) /\ u.count = c /\ c \notin DOMAIN t.chunks
             /\ DOMAIN u.chunks = DOMAIN t.chunks \cup {c}
             /\ \A d \in DOMAIN t.chunks : u.chunks[d] = t.chunks[d]
             /\ u.chunks[c] = NewRow(r, i)
<1> DEFINE c == t.count + 1
           row == NewRow(r, i)
           cs == With(t.chunks, c, row)
           fs == With(t.fts, c, FtsRow(row))
           vs == t.vectors \cup (IF r.vectors THEN {c} ELSE {})
           u == [count |-> c, chunks |-> cs, fts |-> fs, vectors |-> vs]
<1>1. Inserted(t, r, i) = u
  BY DEF Inserted, Place, NewRow
<1>2. row \in Chunk /\ row.index < row.of /\ Identity(row) = <<r.space, r.texts[i], r.path>>
  BY NewRowIs
<1>3. c \in Nat /\ c \notin DOMAIN t.chunks /\ DOMAIN t.chunks \cup {c} \subseteq 1..c
  BY DEF Table
<1> HIDE DEF row, c
<1>4. /\ DOMAIN cs = DOMAIN t.chunks \cup {c} /\ cs \in [DOMAIN t.chunks \cup {c} -> Chunk] /\ cs[c] = row
      /\ \A d \in DOMAIN t.chunks : cs[d] = t.chunks[d]
  BY <1>2, <1>3 DEF Table, With
<1>5. fs = [d \in DOMAIN cs |-> FtsRow(cs[d])]
  BY <1>3, <1>4 DEF Table, With
<1>6. vs \subseteq DOMAIN cs
  BY <1>4 DEF Table
<1> HIDE DEF cs, fs, vs
<1>7. \A d \in DOMAIN cs : cs[d].index < cs[d].of
  BY <1>2, <1>4 DEF Table
<1>8. \A d \in DOMAIN t.chunks : Identity(t.chunks[d]) # <<r.space, r.texts[i], r.path>>
  BY DEF SameChunk, Identity
<1>9. \A d, e \in DOMAIN cs : Identity(cs[d]) = Identity(cs[e]) => d = e
  BY <1>2, <1>4, <1>8 DEF Table
<1>10. Table(u)
  BY <1>3, <1>4, <1>5, <1>6, <1>7, <1>9 DEF Table
<1>11. QED
  BY <1>1, <1>3, <1>4, <1>10 DEF row, c

\* What the first i iterations of an ingest of r made of t: every content is
\* there once, at the last place it had so far, and nothing else was touched.
LastPlace(r, i, j) == \A k \in (j + 1)..i : r.texts[k] # r.texts[j]
Key(r, j) == <<r.space, r.texts[j], r.path>>
IsAt(row, r, i, j) ==
  /\ Identity(row) = Key(r, j) /\ LastPlace(r, i, j)
  /\ row.index = j - 1 /\ row.of = Len(r.texts) /\ row.meta = r.meta
Kept(t, r, i, u, c) ==
  /\ c \in DOMAIN t.chunks /\ u.chunks[c] = t.chunks[c]
  /\ \A j \in 1..i : Identity(u.chunks[c]) # Key(r, j)
Written(t, r, i, u, c) ==
  /\ \E j \in 1..i : IsAt(u.chunks[c], r, i, j)
  /\ c \in DOMAIN t.chunks => /\ Identity(u.chunks[c]) = Identity(t.chunks[c])
                              /\ u.chunks[c].status = t.chunks[c].status
IsThere(t, r, j) == SameChunk(t, r, r.texts[j]) # {}
After(t, r, i, u) ==
  /\ Table(u) /\ t.count <= u.count
  /\ DOMAIN t.chunks \subseteq DOMAIN u.chunks
  /\ \A c \in DOMAIN u.chunks : Kept(t, r, i, u, c) \/ Written(t, r, i, u, c)
  /\ \A j \in 1..i : IsThere(u, r, j)
  /\ (\A j \in DOMAIN r.texts : IsThere(t, r, j))
       => DOMAIN u.chunks = DOMAIN t.chunks /\ u.count = t.count /\ u.vectors = t.vectors

LEMMA There ==
  ASSUME NEW t, NEW r, NEW j
  PROVE  IsThere(t, r, j) <=> \E c \in DOMAIN t.chunks : Identity(t.chunks[c]) = Key(r, j)
  BY DEF IsThere, SameChunk, Identity, Key

LEMMA AfterNone ==
  ASSUME NEW t, Table(t), NEW r
  PROVE  After(t, r, 0, t)
  BY DEF After, Kept, Table

\* One row changed or added with the content of iteration i + 1, and the other
\* rows as they were.
LEMMA OneWritten ==
  ASSUME NEW t, NEW r \in IngestRequest, NEW i \in Nat, i + 1 \in DOMAIN r.texts,
         NEW u, After(t, r, i, u), NEW v, NEW c,
         \A d \in DOMAIN u.chunks \ {c} :
           v.chunks[d] = u.chunks[d] /\ Identity(u.chunks[d]) # Key(r, i + 1),
         IsAt(v.chunks[c], r, i + 1, i + 1),
         c \in DOMAIN t.chunks => /\ Identity(v.chunks[c]) = Identity(t.chunks[c])
                                  /\ v.chunks[c].status = t.chunks[c].status
  PROVE  \A d \in DOMAIN u.chunks \cup {c} :
           Kept(t, r, i + 1, v, d) \/ Written(t, r, i + 1, v, d)
<1> SUFFICES ASSUME NEW d \in DOMAIN u.chunks \cup {c}
             PROVE  Kept(t, r, i + 1, v, d) \/ Written(t, r, i + 1, v, d)
  OBVIOUS
<1>1. CASE d = c
  <2>1. i + 1 \in 1..(i + 1)
    OBVIOUS
  <2>2. QED
    BY <1>1, <2>1 DEF Written
<1>2. CASE d # c
  <2>1. v.chunks[d] = u.chunks[d] /\ Identity(u.chunks[d]) # Key(r, i + 1)
    BY <1>2
  <2>2. CASE Kept(t, r, i, u, d)
    <3>1. \A j \in 1..(i + 1) : j \in 1..i \/ j = i + 1
      OBVIOUS
    <3>2. QED
      BY <2>1, <2>2, <3>1 DEF Kept
  <2>3. CASE Written(t, r, i, u, d)
    <3>1. PICK j \in 1..i : IsAt(u.chunks[d], r, i, j)
      BY <2>3 DEF Written
    <3>2. r.texts[i + 1] # r.texts[j]
      BY <2>1, <3>1 DEF IsAt, Key
    <3>3. \A k \in (j + 1)..(i + 1) : k \in (j + 1)..i \/ k = i + 1
      OBVIOUS
    <3>4. IsAt(v.chunks[d], r, i + 1, j)
      BY <2>1, <3>1, <3>2, <3>3 DEF IsAt, LastPlace
    <3>5. j \in 1..(i + 1)
      OBVIOUS
    <3>6. QED
      BY <2>1, <2>3, <3>4, <3>5 DEF Written
  <2>4. QED
    BY <1>2, <2>2, <2>3 DEF After
<1>3. QED
  BY <1>1, <1>2

LEMMA AfterOneMore ==
  ASSUME NEW t, Table(t), NEW r \in IngestRequest, NEW i \in Nat, i + 1 \in DOMAIN r.texts,
         NEW u, After(t, r, i, u)
  PROVE  After(t, r, i + 1, Iterated(u, r, i + 1))
<1> DEFINE v == Iterated(u, r, i + 1)
           found == SameChunk(u, r, r.texts[i + 1])
<1>1. Table(u) /\ DOMAIN t.chunks \subseteq DOMAIN u.chunks
  BY DEF After
<1>2. LastPlace(r, i + 1, i + 1)
  BY DEF LastPlace
<1>3. CASE found = {}
  <2> DEFINE c == u.count + 1
  <2>1. /\ Table(v) /\ v.count = c /\ c \notin DOMAIN u.chunks
        /\ DOMAIN v.chunks = DOMAIN u.chunks \cup {c}
        /\ \A d \in DOMAIN u.chunks : v.chunks[d] = u.chunks[d]
        /\ v.chunks[c] = NewRow(r, i + 1)
    BY <1>1, <1>3, InsertTable DEF Iterated
  <2> HIDE DEF v, c
  <2>2. \A d \in DOMAIN u.chunks : Identity(u.chunks[d]) # Key(r, i + 1)
    BY <1>3, There DEF IsThere
  <2>3. IsAt(v.chunks[c], r, i + 1, i + 1)
    <3>1. Identity(NewRow(r, i + 1)) = Key(r, i + 1)
      BY NewRowIs DEF Key
    <3>2. NewRow(r, i + 1).index = i + 1 - 1 /\ NewRow(r, i + 1).of = Len(r.texts) /\ NewRow(r, i + 1).meta = r.meta
      BY DEF NewRow
    <3>3. QED
      BY <1>2, <2>1, <3>1, <3>2 DEF IsAt
  <2>4. \A d \in DOMAIN v.chunks : Kept(t, r, i + 1, v, d) \/ Written(t, r, i + 1, v, d)
    BY <1>1, <2>1, <2>2, <2>3, OneWritten
  <2>5. \A j \in 1..(i + 1) : IsThere(v, r, j)
    <3>1. \A j \in 1..(i + 1) : j \in 1..i \/ j = i + 1
      OBVIOUS
    <3>2. \A j \in 1..i : IsThere(v, r, j)
      BY <2>1, There DEF After
    <3>3. IsThere(v, r, i + 1)
      BY <2>1, <2>3, There DEF IsAt
    <3>4. QED
      BY <3>1, <3>2, <3>3
  <2>6. ~IsThere(t, r, i + 1)
    <3>1. SUFFICES ASSUME NEW d \in DOMAIN t.chunks, Identity(t.chunks[d]) = Key(r, i + 1) PROVE FALSE
      BY There
    <3>2. d \in DOMAIN u.chunks /\ Identity(u.chunks[d]) = Identity(t.chunks[d])
      BY <1>1, <3>1 DEF After, Kept, Written
    <3>3. QED
      BY <2>2, <3>1, <3>2
  <2>7. t.count <= v.count
    BY <1>1, <2>1 DEF After, Table, c
  <2>8. QED
    BY <1>1, <2>1, <2>4, <2>5, <2>6, <2>7 DEF After, v
<1>4. CASE found # {}
  <2> DEFINE c == Min(found)
  <2>1. c \in found
    <3>1. found \subseteq Nat
      BY <1>1 DEF SameChunk, Table
    <3> HIDE DEF found
    <3>2. QED
      BY <1>4, <3>1, Least
  <2>2. c \in DOMAIN u.chunks /\ Identity(u.chunks[c]) = Key(r, i + 1)
    BY <2>1 DEF SameChunk, Identity, Key
  <2>3. /\ Table(v) /\ v.count = u.count /\ v.vectors = u.vectors
        /\ DOMAIN v.chunks = DOMAIN u.chunks
        /\ \A d \in DOMAIN u.chunks \ {c} : v.chunks[d] = u.chunks[d]
        /\ v.chunks[c] = At(u.chunks[c], Place(r, i + 1))
    BY <1>1, <1>4, <2>2, RepairTable DEF Iterated
  <2> HIDE DEF v, c, found
  <2>4. \A d \in DOMAIN u.chunks \ {c} : Identity(u.chunks[d]) # Key(r, i + 1)
    BY <1>1, <2>2 DEF Table
  <2>5. IsAt(v.chunks[c], r, i + 1, i + 1) /\ v.chunks[c].status = u.chunks[c].status
    <3>1. u.chunks[c] \in Chunk
      BY <1>1, <2>2 DEF Table
    <3>2. QED
      BY <1>2, <2>2, <2>3, <3>1, Moved DEF IsAt
  <2>6. c \in DOMAIN t.chunks => /\ Identity(v.chunks[c]) = Identity(t.chunks[c])
                                 /\ v.chunks[c].status = t.chunks[c].status
    BY <2>2, <2>5 DEF After, Kept, Written, IsAt
  <2>7. \A d \in DOMAIN v.chunks : Kept(t, r, i + 1, v, d) \/ Written(t, r, i + 1, v, d)
    BY <2>2, <2>3, <2>4, <2>5, <2>6, OneWritten
  <2>8. \A j \in 1..(i + 1) : IsThere(v, r, j)
    <3>1. \A j \in 1..(i + 1) : j \in 1..i \/ j = i + 1
      OBVIOUS
    <3>2. \A d \in DOMAIN u.chunks : Identity(v.chunks[d]) = Identity(u.chunks[d])
      BY <2>2, <2>3, <2>5 DEF IsAt
    <3>3. QED
      BY <2>2, <2>3, <3>1, <3>2, There DEF After
  <2>9. QED
    BY <1>1, <2>3, <2>7, <2>8 DEF After, v
<1>5. QED
  BY <1>3, <1>4

Chain(t, r, n, g) ==
  g = [i \in 0..n |-> IF i = 0 THEN t ELSE Iterated(g[i - 1], r, i)]

LEMMA ChainExists ==
  ASSUME NEW t, NEW r, NEW n \in Nat
  PROVE  \E g : Chain(t, r, n, g)
<1> DEFINE S == {k \in Nat : \E g : Chain(t, r, k, g)}
<1>1. 0 \in S
  <2> DEFINE g == [i \in 0..0 |-> t]
  <2>1. Chain(t, r, 0, g)
    BY DEF Chain
  <2>2. QED
    BY <2>1
<1>2. \A k \in 0..(n - 1) : k \in S => k + 1 \in S
  <2> TAKE k \in 0..(n - 1)
  <2>1. HAVE k \in S
  <2>2. PICK g : Chain(t, r, k, g)
    BY <2>1
  <2> DEFINE h == [i \in 0..(k + 1) |-> IF i = k + 1 THEN Iterated(g[k], r, k + 1) ELSE g[i]]
  <2>3. \A i \in 0..k : g[i] = IF i = 0 THEN t ELSE Iterated(g[i - 1], r, i)
    BY <2>2 DEF Chain
  <2>4. \A i \in 0..(k + 1) : h[i] = IF i = 0 THEN t ELSE Iterated(h[i - 1], r, i)
    BY <2>3
  <2>5. Chain(t, r, k + 1, h)
    BY <2>4 DEF Chain
  <2>6. QED
    BY <2>5
<1>3. n \in S
  <2> HIDE DEF S
  <2> QED
    BY <1>1, <1>2, InductionTo
<1>4. QED
  BY <1>3

\* What an ingest makes of the tables.
LEMMA IngestedIs ==
  ASSUME NEW t, Table(t), NEW r \in IngestRequest
  PROVE  After(t, r, Len(r.texts), Ingested(t, r))
<1> DEFINE n == Len(r.texts)
           g == CHOOSE g : Chain(t, r, n, g)
<1>1. n \in Nat /\ DOMAIN r.texts = 1..n
  BY DEF IngestRequest
<1>2. Chain(t, r, n, g)
  BY <1>1, ChainExists
<1>3. Ingested(t, r) = g[n]
  BY DEF Ingested, Chain, Iterated
<1> HIDE DEF n, g
<1>4. g[0] = t /\ \A i \in 0..(n - 1) : g[i + 1] = Iterated(g[i], r, i + 1)
  BY <1>1, <1>2 DEF Chain
<1> DEFINE S == {i \in 0..n : After(t, r, i, g[i])}
<1>5. 0 \in S
  BY <1>1, <1>4, AfterNone
<1>6. \A i \in 0..(n - 1) : i \in S => i + 1 \in S
  <2> TAKE i \in 0..(n - 1)
  <2>1. HAVE i \in S
  <2>2. i \in Nat /\ i + 1 \in DOMAIN r.texts /\ i + 1 \in 0..n
    BY <1>1
  <2>3. After(t, r, i + 1, g[i + 1])
    BY <1>4, <2>1, <2>2, AfterOneMore
  <2>4. QED
    BY <2>2, <2>3
<1>7. n \in S
  <2> HIDE DEF S
  <2>1. \A i \in 0..n : i \in S
    BY <1>1, <1>5, <1>6, InductionTo
  <2>2. QED
    BY <1>1, <2>1
<1>8. QED
  BY <1>3, <1>7 DEF n

-----------------------------------------------------------------------------
(* The inductive invariant *)

SpacesInv ==
  /\ spaces \subseteq Spaces /\ count \in 0..MaxChunks
  /\ \A c \in DOMAIN chunks : chunks[c].space \in spaces

Answered(r) ==
  /\ r.space \in Spaces /\ r.query \in Queries
  /\ r.semantic \in Seq(1..count) /\ r.lexical \in Seq(1..count)
  /\ r.results = Fused(r.semantic, r.lexical)

ReportsInv ==
  /\ report \in [Searchers -> {report[p] : p \in Searchers}]
  /\ \A p \in Searchers : report[p] # NoReport => Answered(report[p])

LogInv == log \in Seq([chunk : 1..count, space : Spaces, query : Queries])

IInv == Table(Tables) /\ SpacesInv /\ ReportsInv /\ LogInv

LEMMA InitInv == Init => IInv
<1> SUFFICES ASSUME Init PROVE IInv
  OBVIOUS
<1>1. Table(Tables)
  <2>1. DOMAIN chunks = {} /\ DOMAIN fts = {} /\ chunks = fts
    BY DEF Init
  <2>2. chunks \in [{} -> Chunk] /\ fts = [c \in {} |-> FtsRow(chunks[c])]
    BY DEF Init
  <2>3. QED
    BY <2>1, <2>2 DEF Init, Table, Tables
<1>2. SpacesInv
  BY DocumentsAssumption DEF Init, SpacesInv
<1>3. ReportsInv
  BY DEF Init, ReportsInv
<1>4. LogInv
  BY DEF Init, LogInv
<1>5. QED
  BY <1>1, <1>2, <1>3, <1>4 DEF IInv

LEMMA IngestIs ==
  ASSUME Table(Tables), NEW r \in Ingests, Ingest(r)
  PROVE  /\ r \in IngestRequest
         /\ Tables' = Ingested(Tables, r)
         /\ After(Tables, r, Len(r.texts), Ingested(Tables, r))
<1>1. r \in IngestRequest
  BY DocumentsAssumption
<1>2. After(Tables, r, Len(r.texts), Ingested(Tables, r))
  BY <1>1, IngestedIs
<1> DEFINE u == Ingested(Tables, r)
<1>3. u = [count |-> u.count, chunks |-> u.chunks, fts |-> u.fts, vectors |-> u.vectors]
  BY <1>2 DEF After, Table
<1>4. count' = u.count /\ chunks' = u.chunks /\ fts' = u.fts /\ vectors' = u.vectors
  BY DEF Ingest
<1> HIDE DEF u
<1>5. Tables' = u
  BY <1>3, <1>4 DEF Tables
<1>6. QED
  BY <1>1, <1>2, <1>5 DEF u

\* Ids are only handed out: what was reported or logged stays in range.
LEMMA Ranges ==
  ASSUME ReportsInv, LogInv, count \in Nat, count' \in Nat, count <= count',
         UNCHANGED <<log, report>>
  PROVE  ReportsInv' /\ LogInv'
<1>1. 1..count \subseteq 1..count'
  OBVIOUS
<1>2. ASSUME NEW p \in Searchers, report[p] # NoReport PROVE Answered(report[p])'
  <2> DEFINE q == report[p]
  <2>1. q.semantic \in Seq(1..count) /\ q.lexical \in Seq(1..count)
    BY <1>2 DEF ReportsInv, Answered
  <2>2. q.semantic \in Seq(1..count') /\ q.lexical \in Seq(1..count')
    <3> HIDE DEF q
    <3>1. \A s \in Seq(1..count) : s \in Seq(1..count')
      BY <1>1
    <3>2. QED
      BY <2>1, <3>1
  <2>3. QED
    BY <1>2, <2>2 DEF ReportsInv, Answered
<1>3. LogInv'
  <2> DEFINE Row(n) == [chunk : 1..n, space : Spaces, query : Queries]
  <2>1. Row(count) \subseteq Row(count')
    BY <1>1
  <2>2. log \in Seq(Row(count))
    BY DEF LogInv
  <2>3. log \in Seq(Row(count'))
    <3> HIDE DEF Row
    <3> QED
      BY <2>1, <2>2
  <2>4. QED
    BY <2>3 DEF LogInv
<1>4. QED
  BY <1>2, <1>3 DEF ReportsInv

LEMMA IngestInv ==
  ASSUME IInv, NEW r \in Ingests, Ingest(r)
  PROVE  IInv'
<1> DEFINE t == Tables
           n == Len(r.texts)
<1>1. PICK u : u = Ingested(t, r)
  OBVIOUS
<1>2. r \in IngestRequest /\ Tables' = u /\ After(t, r, n, u)
  BY <1>1, IngestIs DEF IInv
<1>3. Table(Tables)'
  BY <1>2 DEF After, Table
<1>4. count' = u.count /\ chunks' = u.chunks /\ spaces' = spaces \cup {r.space} /\ UNCHANGED <<log, report>>
  BY <1>1 DEF Ingest
<1>5. r.space \in Spaces
  BY <1>2 DEF IngestRequest
<1>6. SpacesInv'
  <2>1. count' \in 0..MaxChunks
    BY <1>1, <1>2, DocumentsAssumption DEF Ingest, After, Table
  <2>2. ASSUME NEW c \in DOMAIN u.chunks PROVE u.chunks[c].space \in spaces \cup {r.space}
    <3>1. CASE Kept(t, r, n, u, c)
      BY <3>1 DEF Kept, Tables, IInv, SpacesInv
    <3>2. CASE Written(t, r, n, u, c)
      BY <3>2 DEF Written, IsAt, Identity, Key
    <3>3. QED
      BY <1>2, <3>1, <3>2 DEF After
  <2>3. QED
    BY <1>4, <1>5, <2>1, <2>2 DEF IInv, SpacesInv
<1>7. count <= count'
  BY <1>2, <1>4 DEF After, Tables
<1>8. QED
  BY <1>3, <1>4, <1>6, <1>7, Ranges DEF IInv, SpacesInv

\* Chunks are left, and rows that stay are rows of the same identity.
LEMMA PruneInv ==
  ASSUME IInv, NEW space, NEW ids, Prune(space, ids)
  PROVE  IInv'
<1> DEFINE gone == Found(space, ids)
           D == DOMAIN chunks \ gone
<1>1. Table(Tables)
  BY DEF IInv
<1>2. DOMAIN fts = DOMAIN chunks /\ fts = [c \in DOMAIN chunks |-> FtsRow(chunks[c])]
  BY <1>1 DEF Table, Tables
<1>3. chunks' = [c \in D |-> chunks[c]] /\ fts' = [c \in D |-> FtsRow(chunks[c])]
  BY <1>2 DEF Prune, Without
<1>4. vectors' = vectors \ gone /\ UNCHANGED <<spaces, count, log, report>>
  BY DEF Prune
<1>5. D \subseteq DOMAIN chunks /\ vectors \ gone \subseteq D
  BY <1>1 DEF Table, Tables
<1> HIDE DEF gone, D
<1>6. /\ DOMAIN chunks' = D /\ \A c \in D : chunks'[c] = chunks[c]
      /\ fts' = [c \in D |-> FtsRow(chunks'[c])]
  BY <1>3
<1>7. chunks' \in [D -> Chunk]
  BY <1>1, <1>3, <1>5 DEF Table, Tables
<1>8. Table(Tables)'
  BY <1>1, <1>4, <1>5, <1>6, <1>7 DEF Table, Tables
<1>9. SpacesInv'
  BY <1>4, <1>5, <1>6 DEF IInv, SpacesInv
<1>10. ReportsInv' /\ LogInv'
  BY <1>4, Ranges DEF IInv, SpacesInv
<1>11. QED
  BY <1>8, <1>9, <1>10 DEF IInv

LEMMA MarkInv ==
  ASSUME IInv, NEW space, NEW ids, MarkExtracted(space, ids)
  PROVE  IInv'
<1> DEFINE marked == Found(space, ids)
           row(c) == IF c \in marked THEN [chunks[c] EXCEPT !.status = "extracted"] ELSE chunks[c]
           D == DOMAIN chunks
<1>1. Table(Tables)
  BY DEF IInv
<1>2. chunks' = [c \in D |-> row(c)] /\ UNCHANGED <<spaces, count, fts, vectors, log, report>>
  BY DEF MarkExtracted
<1>3. ASSUME NEW c \in D
      PROVE  /\ row(c) \in Chunk
             /\ row(c).space = chunks[c].space /\ row(c).text = chunks[c].text
             /\ row(c).path = chunks[c].path /\ row(c).meta = chunks[c].meta
             /\ row(c).index = chunks[c].index /\ row(c).of = chunks[c].of
  <2>1. chunks[c] \in Chunk
    BY <1>1 DEF Table, Tables
  <2>2. QED
    BY <2>1 DEF Chunk
<1> HIDE DEF row
<1>4. DOMAIN chunks' = D /\ chunks' \in [D -> Chunk] /\ \A c \in D : chunks'[c] = row(c)
  BY <1>2, <1>3
<1>5. \A c \in D : FtsRow(chunks'[c]) = FtsRow(chunks[c]) /\ Identity(chunks'[c]) = Identity(chunks[c])
  BY <1>3, <1>4 DEF FtsRow, Identity
<1>6. fts' = [c \in D |-> FtsRow(chunks'[c])]
  <2>1. fts = [c \in D |-> FtsRow(chunks[c])]
    BY <1>1 DEF Table, Tables
  <2>2. QED
    BY <1>2, <1>5, <2>1
<1>7. \A c \in D : chunks'[c].index < chunks'[c].of
  BY <1>1, <1>3, <1>4 DEF Table, Tables
<1>8. Table(Tables)'
  BY <1>1, <1>2, <1>4, <1>5, <1>6, <1>7 DEF Table, Tables
<1>9. SpacesInv'
  BY <1>2, <1>3, <1>4 DEF IInv, SpacesInv
<1>10. ReportsInv' /\ LogInv'
  BY <1>2, Ranges DEF IInv, SpacesInv
<1>11. QED
  BY <1>8, <1>9, <1>10 DEF IInv

LEMMA ReindexInv ==
  ASSUME IInv, Reindex
  PROVE  IInv'
<1>1. fts' = fts /\ UNCHANGED <<spaces, count, chunks, vectors, log, report>>
  BY DEF IInv, Table, Tables, Reindex
<1>2. QED
  BY <1>1 DEF IInv, Table, Tables, SpacesInv, ReportsInv, LogInv, Answered

LEMMA Arms ==
  ASSUME IInv, NEW space, NEW query, NEW embedded
  PROVE  /\ \A s \in Lexical(space, query) : s \in Seq(1..count)
         /\ \A s \in Semantic(space, embedded) : s \in Seq(1..count)
<1> DEFINE N == 1..count
<1>1. IsFiniteSet(N) /\ DOMAIN fts \subseteq N /\ vectors \subseteq N /\ Pool \in Nat
  <2>1. count \in Int /\ 1 \in Int
    BY DEF IInv, SpacesInv
  <2>2. QED
    BY <2>1, FS_Interval, DocumentsAssumption DEF IInv, Table, Tables
<1> HIDE DEF N
<1>2. ASSUME NEW S \in SUBSET N, NEW s \in SetToSeqs(S)
      PROVE  AtMost(Pool, s) \in Seq(N)
  <2>1. IsFiniteSet(S)
    BY <1>1, FS_Subset
  <2>2. s \in Seq(S)
    BY <2>1, SomeList
  <2>3. s \in Seq(N)
    BY <2>2
  <2>4. QED
    BY <1>1, <2>3, FirstEntries
<1>3. \A s \in Lexical(space, query) : s \in Seq(N)
  <2> DEFINE S == {c \in DOMAIN fts : fts[c].space = space /\ fts[c].text \in Matching[query]}
  <2>1. S \in SUBSET N
    BY <1>1
  <2>2. Lexical(space, query) = {AtMost(Pool, s) : s \in SetToSeqs(S)}
    BY DEF Lexical
  <2> HIDE DEF S
  <2>3. QED
    BY <1>2, <2>1, <2>2
<1>4. \A s \in Semantic(space, embedded) : s \in Seq(N)
  <2> DEFINE T == {c \in vectors : chunks[c].space = space}
  <2>1. CASE ~embedded
    BY <2>1 DEF Semantic
  <2>2. CASE embedded
    <3>1. Semantic(space, embedded) = {Among(AtMost(Pool, s), T) : s \in SetToSeqs(vectors)}
      BY <2>2 DEF Semantic
    <3> HIDE DEF T
    <3>2. ASSUME NEW s \in SetToSeqs(vectors) PROVE Among(AtMost(Pool, s), T) \in Seq(N)
      <4>1. AtMost(Pool, s) \in Seq(N)
        BY <1>1, <1>2
      <4>2. Among(AtMost(Pool, s), T) \in Seq(N \cap T)
        BY <4>1, AmongEntries
      <4>3. QED
        BY <4>2
    <3>3. QED
      BY <3>1, <3>2
  <2>3. QED
    BY <2>1, <2>2
<1>5. QED
  BY <1>3, <1>4 DEF N

LEMMA SearchInv ==
  ASSUME IInv, NEW p \in Searchers, NEW space \in Spaces, NEW query \in Queries,
         NEW embedded, Search(p, space, query, embedded)
  PROVE  IInv'
<1>1. PICK lexical \in Lexical(space, query), semantic \in Semantic(space, embedded) :
        report' = [report EXCEPT ![p] =
          [space |-> space, query |-> query, lexical |-> lexical, semantic |-> semantic,
           results |-> Fused(semantic, lexical)]]
  BY DEF Search
<1>2. UNCHANGED <<spaces, count, chunks, fts, vectors, log>>
  BY DEF Search
<1>3. PICK new : new = [space |-> space, query |-> query, lexical |-> lexical, semantic |-> semantic,
                        results |-> Fused(semantic, lexical)]
  OBVIOUS
<1>4. Answered(new)
  BY <1>3, Arms DEF Answered
<1>5. report' = [report EXCEPT ![p] = new]
  BY <1>1, <1>3
<1>6. Answered(new)'
  BY <1>2, <1>4 DEF Answered
<1>7. ReportsInv'
  <2>1. ASSUME NEW q \in Searchers, report'[q] # NoReport PROVE Answered(report[q])'
    <3>1. CASE q = p
      <4>1. report'[q] = new
        BY <1>5, <3>1 DEF IInv, ReportsInv
      <4>2. QED
        BY <1>6, <4>1 DEF Answered
    <3>2. CASE q # p
      <4>1. report'[q] = report[q] /\ report[q] # NoReport
        BY <1>5, <2>1, <3>2 DEF IInv, ReportsInv
      <4>2. Answered(report[q])
        BY <4>1 DEF IInv, ReportsInv
      <4>3. QED
        BY <1>2, <4>1, <4>2 DEF Answered
    <3>3. QED
      BY <3>1, <3>2
  <2>2. report' \in [Searchers -> {report'[q] : q \in Searchers}]
    BY <1>5 DEF IInv, ReportsInv
  <2>3. QED
    BY <2>1, <2>2 DEF ReportsInv
<1>8. QED
  BY <1>2, <1>7 DEF IInv, Table, Tables, SpacesInv, LogInv

LEMMA ForgetReport ==
  ASSUME ReportsInv, NEW p \in Searchers, report' = [report EXCEPT ![p] = NoReport],
         count' = count
  PROVE  ReportsInv'
<1>1. ASSUME NEW q \in Searchers, report'[q] # NoReport PROVE Answered(report[q])'
  <2>1. report'[q] = report[q] /\ report[q] # NoReport
    BY <1>1 DEF ReportsInv
  <2>2. Answered(report[q])
    BY <2>1 DEF ReportsInv
  <2>3. QED
    BY <2>1, <2>2 DEF Answered
<1>2. report' \in [Searchers -> {report'[q] : q \in Searchers}]
  BY DEF ReportsInv
<1>3. QED
  BY <1>1, <1>2 DEF ReportsInv

\* What is answered is among what the arms found.
LEMMA FusedFromArms ==
  ASSUME NEW n \in Nat, NEW semantic \in Seq(1..n), NEW lexical \in Seq(1..n)
  PROVE  Fused(semantic, lexical) \in Seq(1..n)
<1>1. semantic \in Seq(Nat) /\ lexical \in Seq(Nat)
  OBVIOUS
<1> DEFINE S == Range(semantic) \cup Range(lexical)
<1>2. S \subseteq 1..n
  BY DEF Range
<1>3. PICK s : Lists(s, S, AboveSet(semantic, lexical)) /\ Fused(semantic, lexical) = AtMost(Limit, s)
  BY <1>1, FusedIs
<1>4. s \in Seq(S) /\ Limit \in Nat
  BY <1>3, DocumentsAssumption DEF Lists
<1> HIDE DEF S
<1>5. AtMost(Limit, s) \in Seq(S)
  BY <1>4, FirstEntries
<1>6. AtMost(Limit, s) \in Seq(1..n)
  BY <1>2, <1>5, SeqOver
<1>7. QED
  BY <1>3, <1>5, <1>6

LEMMA RecordInv ==
  ASSUME IInv, NEW p \in Searchers, Record(p)
  PROVE  IInv'
<1>1. PICK r : r = report[p]
  OBVIOUS
<1>2. /\ r.results # <<>>
      /\ log' = log \o [i \in DOMAIN r.results |->
                          [chunk |-> r.results[i], space |-> r.space, query |-> r.query]]
      /\ report' = [report EXCEPT ![p] = NoReport]
      /\ UNCHANGED <<spaces, count, chunks, fts, vectors>>
  BY <1>1 DEF Record
<1>3. r # NoReport
  BY <1>2 DEF NoReport
<1>4. Answered(r) /\ count \in Nat
  BY <1>1, <1>3 DEF IInv, ReportsInv, SpacesInv
<1>5. r.results \in Seq(1..count)
  BY <1>4, FusedFromArms DEF Answered
<1>6. LogInv'
  <2> DEFINE Row == [chunk : 1..count, space : Spaces, query : Queries]
             new == [i \in DOMAIN r.results |->
                       [chunk |-> r.results[i], space |-> r.space, query |-> r.query]]
  <2>1. \A i \in DOMAIN r.results :
          [chunk |-> r.results[i], space |-> r.space, query |-> r.query] \in Row
    BY <1>4, <1>5 DEF Answered
  <2>2. new \in Seq(Row)
    <3>1. DOMAIN r.results = 1..Len(r.results) /\ Len(r.results) \in Nat
      BY <1>5
    <3> HIDE DEF Row
    <3>2. QED
      BY <2>1, <3>1
  <2>3. log \in Seq(Row)
    BY DEF IInv, LogInv
  <2> HIDE DEF Row, new
  <2>4. log \o new \in Seq(Row)
    BY <2>2, <2>3
  <2>5. QED
    BY <1>2, <2>4 DEF LogInv, new, Row
<1>7. ReportsInv'
  BY <1>2, ForgetReport DEF IInv
<1>8. QED
  BY <1>2, <1>6, <1>7 DEF IInv, Table, Tables, SpacesInv

LEMMA ForgetInv ==
  ASSUME IInv, NEW p \in Searchers, Forget(p)
  PROVE  IInv'
<1>1. UNCHANGED <<spaces, count, chunks, fts, vectors, log>>
  BY DEF Forget
<1>2. ReportsInv'
  BY ForgetReport DEF IInv, Forget
<1>3. QED
  BY <1>1, <1>2 DEF IInv, Table, Tables, SpacesInv, LogInv

LEMMA StepInv ==
  ASSUME IInv, [Next]_vars
  PROVE  IInv'
<1>1. CASE UNCHANGED vars
  BY <1>1 DEF vars, IInv, Table, Tables, SpacesInv, ReportsInv, LogInv, Answered
<1>2. QED
  BY <1>1, IngestInv, PruneInv, MarkInv, ReindexInv, SearchInv, RecordInv, ForgetInv DEF Next

THEOREM Invariant == Spec => []IInv
  BY InitInv, StepInv, PTL DEF Spec

-----------------------------------------------------------------------------
(* Theorems *)

LEMMA Clusters == IInv => ClustersAcrossSources
<1> SUFFICES ASSUME IInv, NEW space \in Spaces, NEW cluster \in Duplicates(space),
                    NEW c \in cluster, NEW d \in cluster, chunks[c].path = chunks[d].path
             PROVE  c = d
  BY DEF ClustersAcrossSources
<1>1. PICK text : cluster = Cluster(space, text)
  BY DEF Duplicates
<1>2. /\ c \in DOMAIN chunks /\ d \in DOMAIN chunks
      /\ Identity(chunks[c]) = Identity(chunks[d])
  BY <1>1 DEF Cluster, Identity
<1>3. QED
  BY <1>2 DEF IInv, Table, Tables

LEMMA TypeCorrect == IInv => TypeOK
<1> SUFFICES ASSUME IInv PROVE TypeOK
  OBVIOUS
<1>1. \A i \in DOMAIN log : log[i] \in [chunk : 1..count, space : Spaces, query : Queries]
  <2> DEFINE Row == [chunk : 1..count, space : Spaces, query : Queries]
  <2>1. log \in Seq(Row)
    BY DEF IInv, LogInv
  <2> HIDE DEF Row
  <2>2. \A i \in DOMAIN log : log[i] \in Row
    BY <2>1
  <2>3. QED
    BY <2>2 DEF Row
<1>2. QED
  BY <1>1 DEF TypeOK, IInv, SpacesInv, Table, Tables

\* Whatever is ingested, repaired, pruned and marked, in whatever order: the
\* full-text rows are those of the chunks, vectors and telemetry rows are of
\* chunks there are or were, and no source has two chunks of one content.
THEOREM ChunksAlwaysSound == Spec => []ChunksSound
<1>1. IInv => ChunksSound
  BY Clusters, TypeCorrect DEF ChunksSound, IInv, Table, Tables, FtsMirrorsChunks
<1>2. QED
  BY <1>1, Invariant, PTL

\* Reciprocal rank fusion (document_rrf_merge) never puts a chunk before one that
\* every arm that found it ranks higher, whatever K, the arms' sizes and the cut.
THEOREM FusionAlwaysRespectsArms == Spec => []FusionRespectsArms
<1>1. IInv => FusionRespectsArms
  <2> SUFFICES ASSUME IInv, NEW p \in Searchers, report[p] # NoReport,
                      NEW d \in Range(report[p].results),
                      NEW c \in Range(report[p].semantic) \cup Range(report[p].lexical),
                      \A arm \in {report[p].semantic, report[p].lexical} :
                        d \in Range(arm) => Before(arm, c, d)
               PROVE  Before(report[p].results, c, d)
    BY DEF FusionRespectsArms
  <2>1. PICK semantic, lexical : semantic = report[p].semantic /\ lexical = report[p].lexical
    OBVIOUS
  <2>2. semantic \in Seq(Nat) /\ lexical \in Seq(Nat) /\ report[p].results = Fused(semantic, lexical)
    <3>1. /\ semantic \in Seq(1..count) /\ lexical \in Seq(1..count)
          /\ report[p].results = Fused(semantic, lexical)
      BY <2>1 DEF IInv, ReportsInv, Answered
    <3>2. \A s \in Seq(1..count) : s \in Seq(Nat)
      <4>1. 1..count \subseteq Nat
        OBVIOUS
      <4>2. QED
        BY <4>1, SeqOver
    <3>3. QED
      BY <3>1, <3>2
  <2>3. QED
    BY <2>1, <2>2, FusionRespects
<1>2. QED
  BY <1>1, Invariant, PTL

\* A prune or an extraction that names chunks of other spaces leaves them alone.
THEOREM SpacesAreApart == Spec => OtherSpacesUntouched
<1>1. [\A space \in Spaces, ids \in SUBSET (1..count) :
         Prune(space, ids) \/ MarkExtracted(space, ids) =>
           \A c \in DOMAIN chunks : chunks[c].space # space =>
             c \in DOMAIN chunks' /\ chunks'[c] = chunks[c]]_vars
  BY DEF Prune, MarkExtracted, Without, Found
<1>2. QED
  BY <1>1, PTL DEF OtherSpacesUntouched

\* The rows an ingest is done with are the ones it would write.
LEMMA IngestedTwice ==
  ASSUME NEW t, Table(t), NEW r \in IngestRequest
  PROVE  Ingested(Ingested(t, r), r) = Ingested(t, r)
<1> DEFINE n == Len(r.texts)
           u == Ingested(t, r)
           v == Ingested(u, r)
<1>1. After(t, r, n, u) /\ Table(u) /\ DOMAIN r.texts = 1..n /\ n \in Nat
  BY IngestedIs DEF After, IngestRequest
<1>2. After(u, r, n, v) /\ Table(v)
  BY <1>1, IngestedIs DEF After
<1> HIDE DEF n, u, v
<1>3. DOMAIN v.chunks = DOMAIN u.chunks /\ v.count = u.count /\ v.vectors = u.vectors
  BY <1>1, <1>2 DEF After
<1>4. ASSUME NEW c \in DOMAIN u.chunks PROVE v.chunks[c] = u.chunks[c]
  <2>1. CASE Kept(u, r, n, v, c)
    BY <2>1 DEF Kept
  <2>2. CASE Written(u, r, n, v, c)
    <3>1. PICK j \in 1..n : IsAt(v.chunks[c], r, n, j)
      BY <2>2 DEF Written
    <3>2. /\ Identity(u.chunks[c]) = Identity(v.chunks[c]) /\ u.chunks[c].status = v.chunks[c].status
          /\ Identity(u.chunks[c]) = Key(r, j)
      BY <2>2, <3>1 DEF Written, IsAt
    <3>3. ~Kept(t, r, n, u, c)
      BY <3>2 DEF Kept
    <3>4. PICK k \in 1..n : IsAt(u.chunks[c], r, n, k)
      BY <1>1, <3>3 DEF After, Written
    <3>5. r.texts[j] = r.texts[k]
      BY <3>2, <3>4 DEF IsAt, Key
    <3>6. ~(j < k) /\ ~(k < j)
      <4>1. j < k => k \in (j + 1)..n
        BY <1>1
      <4>2. k < j => j \in (k + 1)..n
        BY <1>1
      <4>3. QED
        BY <3>1, <3>4, <3>5, <4>1, <4>2 DEF IsAt, LastPlace
    <3>7. j = k
      BY <3>6
    <3>8. v.chunks[c] \in Chunk /\ u.chunks[c] \in Chunk
      BY <1>1, <1>2, <1>3 DEF Table
    <3>9. /\ v.chunks[c].index = u.chunks[c].index /\ v.chunks[c].of = u.chunks[c].of
          /\ v.chunks[c].meta = u.chunks[c].meta
      BY <3>1, <3>4, <3>7 DEF IsAt
    <3>10. QED
      BY <3>2, <3>8, <3>9 DEF Chunk, Identity
  <2>3. QED
    BY <1>2, <1>3, <2>1, <2>2 DEF After
<1>5. v.chunks = u.chunks
  BY <1>1, <1>2, <1>3, <1>4 DEF Table
<1>6. v.fts = u.fts
  BY <1>1, <1>2, <1>5 DEF Table
<1>7. v = u
  BY <1>1, <1>2, <1>3, <1>5, <1>6 DEF Table
<1>8. QED
  BY <1>7 DEF u, v

\* A caller that did not see the answer of an ingest and sends it again changes
\* nothing, also when one content occurs several times in the source.
THEOREM IngestsRepeat == Spec => IngestIsIdempotent
<1>1. ASSUME IInv, NEW r \in Ingests, Ingest(r)
      PROVE  LET after == [count |-> count', chunks |-> chunks', fts |-> fts', vectors |-> vectors']
             IN  Ingested(after, r) = after
  <2>1. PICK t : t = Tables
    OBVIOUS
  <2>2. r \in IngestRequest /\ Table(t) /\ Tables' = Ingested(t, r)
    BY <1>1, <2>1, IngestIs DEF IInv
  <2>3. [count |-> count', chunks |-> chunks', fts |-> fts', vectors |-> vectors'] = Ingested(t, r)
    BY <2>2 DEF Tables
  <2>4. QED
    BY <2>2, <2>3, IngestedTwice
<1>2. IInv => [\A r \in Ingests :
                 Ingest(r) =>
                   LET after == [count |-> count', chunks |-> chunks', fts |-> fts', vectors |-> vectors']
                   IN  Ingested(after, r) = after]_vars
  BY <1>1
<1>3. QED
  BY <1>2, Invariant, PTL DEF IngestIsIdempotent

\* What is proposed: chunks that are not extracted.
ProposalsInv ==
  \A space \in Spaces : \A c \in Range(Candidates(space)) :
    c \in DOMAIN chunks /\ chunks[c].status # "extracted"

LEMMA Proposals == IInv => ProposalsInv
<1> SUFFICES ASSUME IInv, NEW space \in Spaces, NEW c \in Range(Candidates(space))
             PROVE  c \in DOMAIN chunks /\ chunks[c].status # "extracted"
  BY DEF ProposalsInv
<1> DEFINE S == {x \in DOMAIN chunks :
                   /\ chunks[x].status # "extracted"
                   /\ Cardinality(Hits(space, x)) >= MinHits
                   /\ Cardinality(DistinctQueries(space, x)) >= MinQueries}
           queries(x) == Cardinality(DistinctQueries(space, x))
           hits(x) == Cardinality(Hits(space, x))
           latest(x) == Max(Hits(space, x))
           R == {p \in S \X S :
                   \/ queries(p[1]) > queries(p[2])
                   \/ queries(p[1]) = queries(p[2]) /\ hits(p[1]) > hits(p[2])
                   \/ queries(p[1]) = queries(p[2]) /\ hits(p[1]) = hits(p[2])
                        /\ latest(p[1]) > latest(p[2])}
           place == [x \in S |-> 1 + Cardinality({y \in S :
                       \/ queries(y) > queries(x)
                       \/ queries(y) = queries(x) /\ hits(y) > hits(x)
                       \/ queries(y) = queries(x) /\ hits(y) = hits(x) /\ latest(y) > latest(x)})]
<1>1. IsFiniteSet(S) /\ S \subseteq Nat
  <2>1. DOMAIN chunks \subseteq 1..count /\ count \in Nat
    BY DEF IInv, SpacesInv, Table, Tables
  <2>2. IsFiniteSet(1..count)
    BY <2>1, FS_Interval
  <2>3. S \in SUBSET (1..count)
    BY <2>1
  <2>4. 1..count \subseteq Nat
    OBVIOUS
  <2> HIDE DEF S
  <2>5. IsFiniteSet(S)
    BY <2>2, <2>3, FS_Subset
  <2>6. QED
    BY <2>3, <2>4, <2>5
<1>2. ASSUME NEW x \in S
      PROVE  /\ queries(x) \in Nat /\ hits(x) \in Nat
             /\ latest(x) \in Hits(space, x) /\ latest(x) \in Nat
  <2> DEFINE H == Hits(space, x)
             Q == DistinctQueries(space, x)
  <2>1. DOMAIN log = 1..Len(log) /\ Len(log) \in Nat
    BY DEF IInv, LogInv
  <2>2. H \in SUBSET (1..Len(log)) /\ H \subseteq 0..Len(log)
    BY <2>1 DEF Hits
  <2>3. IsFiniteSet(H) /\ Cardinality(H) \in Nat
    <3>1. IsFiniteSet(1..Len(log))
      BY <2>1, FS_Interval
    <3> HIDE DEF H
    <3>2. IsFiniteSet(H)
      BY <2>2, <3>1, FS_Subset
    <3>3. QED
      BY <3>2, FS_CardinalityType
  <2>4. H # {}
    <3>1. Cardinality(H) >= MinHits /\ MinHits \in Nat \ {0}
      BY DocumentsAssumption
    <3> HIDE DEF H
    <3>2. Cardinality(H) # 0
      BY <2>3, <3>1
    <3>3. QED
      BY <3>2, FS_EmptySet
  <2>5. Max(H) \in H
    <3> HIDE DEF H
    <3> QED
      BY <2>1, <2>2, <2>4, Greatest
  <2>6. Cardinality(Q) \in Nat
    <3> DEFINE f == [i \in H |-> log[i].query]
    <3>1. Q = {log[i].query : i \in H}
      BY DEF DistinctQueries
    <3>2. f \in Surjection(H, Q)
      <4> HIDE DEF H, Q
      <4> QED
        BY <3>1 DEF Surjection
    <3> HIDE DEF f, H, Q
    <3>3. IsFiniteSet(Q)
      BY <2>3, <3>2, FS_Surjection
    <3>4. QED
      BY <3>3, FS_CardinalityType
  <2>7. QED
    BY <2>2, <2>3, <2>5, <2>6
<1>3. \A x, y \in S : latest(x) = latest(y) => x = y
  BY <1>2 DEF Hits
<1>4. place = Standing(S, R)
  <2> DEFINE Precedes(y, x) ==
               \/ queries(y) > queries(x)
               \/ queries(y) = queries(x) /\ hits(y) > hits(x)
               \/ queries(y) = queries(x) /\ hits(y) = hits(x) /\ latest(y) > latest(x)
  <2>1. \A x, y \in S : <<y, x>> \in R <=> Precedes(y, x)
    OBVIOUS
  <2>2. place = [x \in S |-> 1 + Cardinality({y \in S : Precedes(y, x)})]
    OBVIOUS
  <2> HIDE DEF S, R, Precedes, place
  <2>3. \A x \in S : {y \in S : Precedes(y, x)} = {y \in S : <<y, x>> \in R}
    BY <2>1
  <2>4. QED
    BY <2>2, <2>3 DEF Standing
<1>5. StrictOrder(S, R)
  <2>1. \A x, y \in S : <<x, y>> \in R <=>
          \/ queries(x) > queries(y)
          \/ queries(x) = queries(y) /\ hits(x) > hits(y)
          \/ queries(x) = queries(y) /\ hits(x) = hits(y) /\ latest(x) > latest(y)
    OBVIOUS
  <2>2. \A x \in S : queries(x) \in Nat /\ hits(x) \in Nat /\ latest(x) \in Nat
    BY <1>2
  <2> HIDE DEF S, R, queries, hits, latest
  <2>3. \A x \in S : <<x, x>> \notin R
    BY <2>1, <2>2
  <2>4. \A x, y \in S : x # y => <<x, y>> \in R \/ <<y, x>> \in R
    BY <1>3, <2>1, <2>2
  <2>5. \A x, y, z \in S : <<x, y>> \in R /\ <<y, z>> \in R => <<x, z>> \in R
    BY <2>1, <2>2
  <2>6. QED
    BY <2>3, <2>4, <2>5 DEF StrictOrder
<1>6. Candidates(space) = [n \in 1..Cardinality(S) |-> CHOOSE x \in S : place[x] = n]
  BY Zenon DEF Candidates, Ordered
<1>7. Candidates(space) = Listing(S, R)
  <2> HIDE DEF S, R, place
  <2> QED
    BY <1>4, <1>6 DEF Listing
<1>8. c \in S
  <2> HIDE DEF S, R
  <2>1. Lists(Candidates(space), S, R)
    BY <1>1, <1>5, <1>7, ListingIs
  <2>2. QED
    BY <2>1 DEF Lists, Range
<1>9. QED
  BY <1>8

\* A chunk that was made a memory is not proposed again as long as it is there,
\* whatever is logged late, ingested again or repaired in its row.
THEOREM ExtractedStaysOut == Spec => ExtractedIsNotProposed
<1>1. ASSUME IInv, IInv', ProposalsInv', [Next]_vars, vars' # vars,
             NEW c \in DOMAIN chunks \cap DOMAIN chunks', chunks[c].status = "extracted"
      PROVE  c \notin Range(Candidates(chunks[c].space)')
  <2>1. chunks'[c].status = "extracted"
    <3>1. ASSUME NEW r \in Ingests, Ingest(r) PROVE chunks'[c].status = "extracted"
      <4>1. PICK u : u = Ingested(Tables, r)
        OBVIOUS
      <4>2. After(Tables, r, Len(r.texts), u) /\ Tables' = u
        BY <1>1, <3>1, <4>1, IngestIs DEF IInv
      <4>3. chunks' = u.chunks
        BY <4>2 DEF Tables
      <4>4. QED
        BY <1>1, <4>2, <4>3 DEF After, Kept, Written, Tables
    <3>2. ASSUME NEW space \in Spaces, NEW ids, Prune(space, ids) \/ MarkExtracted(space, ids)
          PROVE  chunks'[c].status = "extracted"
      <4>1. CASE Prune(space, ids)
        BY <1>1, <4>1 DEF Prune, Without
      <4>2. CASE MarkExtracted(space, ids)
        <5>1. chunks[c] \in Chunk
          BY <1>1 DEF IInv, Table, Tables
        <5>2. QED
          BY <1>1, <4>2, <5>1 DEF MarkExtracted, Chunk
      <4>3. QED
        BY <3>2, <4>1, <4>2
    <3>3. CASE chunks' = chunks
      BY <1>1, <3>3
    <3>4. QED
      BY <1>1, <3>1, <3>2, <3>3 DEF Next, vars, Reindex, Search, Record, Forget
  <2>2. chunks'[c].space \in Spaces
    BY <1>1 DEF IInv, SpacesInv
  <2>3. QED
    BY <1>1, <2>1, <2>2 DEF ProposalsInv
<1>2. IInv /\ IInv' /\ ProposalsInv' /\ [Next]_vars =>
        [\A c \in DOMAIN chunks \cap DOMAIN chunks' :
           chunks[c].status = "extracted" => c \notin Range(Candidates(chunks[c].space)')]_vars
  BY <1>1
<1>3. QED
  BY <1>2, Invariant, Proposals, PTL DEF Spec, ExtractedIsNotProposed

\* The documents of a path, and its contents in the order of their last places.
Chunks(cs, space, path) == {c \in DOMAIN cs : cs[c].space = space /\ cs[c].path = path}
InDocument(cs, c, d) == \/ cs[c].index < cs[d].index
                        \/ (cs[c].index = cs[d].index /\ c < d)
DocumentOrder(cs, S) == {p \in S \X S : InDocument(cs, p[1], p[2])}

LEMMA DocumentIs ==
  ASSUME NEW t, Table(t), NEW space, NEW path
  PROVE  LET S == Chunks(t.chunks, space, path)
             R == DocumentOrder(t.chunks, S)
         IN  /\ IsFiniteSet(S) /\ StrictOrder(S, R)
             /\ Lists(GetDocument(t.chunks, space, path), S, R)
<1> DEFINE cs == t.chunks
           S == Chunks(cs, space, path)
           R == DocumentOrder(cs, S)
           place == [x \in S |-> 1 + Cardinality({y \in S : InDocument(cs, y, x)})]
<1>1. IsFiniteSet(S) /\ \A c \in S : c \in Nat /\ cs[c].index \in Nat
  <2>1. DOMAIN cs \subseteq 1..t.count /\ t.count \in Nat /\ \A c \in DOMAIN cs : cs[c] \in Chunk
    BY DEF Table
  <2>2. IsFiniteSet(1..t.count)
    BY <2>1, FS_Interval
  <2>3. S \in SUBSET (1..t.count)
    BY <2>1 DEF Chunks
  <2>4. \A c \in S : c \in Nat /\ cs[c].index \in Nat
    BY <2>1 DEF Chunks, Chunk
  <2> HIDE DEF S
  <2>5. QED
    BY <2>2, <2>3, <2>4, FS_Subset
<1>2. \A x, y \in S : <<x, y>> \in R <=> InDocument(cs, x, y)
  BY DEF DocumentOrder
<1> HIDE DEF S, R, cs
<1>3. StrictOrder(S, R)
  <2>1. \A x \in S : <<x, x>> \notin R
    BY <1>1, <1>2 DEF InDocument
  <2>2. \A x, y \in S : x # y => <<x, y>> \in R \/ <<y, x>> \in R
    BY <1>1, <1>2 DEF InDocument
  <2>3. \A x, y, z \in S : <<x, y>> \in R /\ <<y, z>> \in R => <<x, z>> \in R
    BY <1>1, <1>2 DEF InDocument
  <2>4. QED
    BY <2>1, <2>2, <2>3 DEF StrictOrder
<1>4. place = Standing(S, R)
  <2>1. \A x \in S : {y \in S : InDocument(cs, y, x)} = {y \in S : <<y, x>> \in R}
    BY <1>2
  <2>2. QED
    BY <2>1 DEF Standing
<1>5. GetDocument(cs, space, path) = [n \in 1..Cardinality(S) |-> CHOOSE x \in S : place[x] = n]
  BY Zenon DEF GetDocument, Ordered, InDocument, S, Chunks
<1> HIDE DEF place
<1>6. GetDocument(cs, space, path) = Listing(S, R)
  BY <1>4, <1>5 DEF Listing
<1>7. QED
  BY <1>1, <1>3, <1>6, ListingIs DEF S, R, cs

LastOf(s, x) == Max({i \in DOMAIN s : s[i] = x})
LastOrder(s) == {p \in Range(s) \X Range(s) : LastOf(s, p[1]) < LastOf(s, p[2])}

LEMMA LastIs ==
  ASSUME NEW T, NEW s \in Seq(T), NEW x \in Range(s)
  PROVE  /\ LastOf(s, x) \in DOMAIN s /\ LastOf(s, x) \in Nat /\ s[LastOf(s, x)] = x
         /\ \A i \in DOMAIN s : s[i] = x => i <= LastOf(s, x)
<1> DEFINE I == {i \in DOMAIN s : s[i] = x}
<1>1. I \subseteq 0..Len(s) /\ I # {} /\ Len(s) \in Nat
  BY DEF Range
<1>2. Max(I) \in I /\ \A k \in I : k <= Max(I)
  <2> HIDE DEF I
  <2> QED
    BY <1>1, Greatest
<1>3. QED
  BY <1>2 DEF LastOf

LEMMA KeepLastIs ==
  ASSUME NEW T, NEW s \in Seq(T)
  PROVE  /\ IsFiniteSet(Range(s)) /\ StrictOrder(Range(s), LastOrder(s))
         /\ Lists(KeepLast(s), Range(s), LastOrder(s))
<1> DEFINE S == Range(s)
           R == LastOrder(s)
           place == [x \in S |-> 1 + Cardinality({y \in S : LastOf(s, y) < LastOf(s, x)})]
<1>1. IsFiniteSet(S)
  <2>1. s \in [1..Len(s) -> T] /\ S = {s[i] : i \in 1..Len(s)}
    BY DEF Range
  <2> HIDE DEF S
  <2>2. s \in Surjection(1..Len(s), S)
    BY <2>1 DEF Surjection
  <2>3. IsFiniteSet(1..Len(s))
    BY FS_Interval
  <2>4. QED
    BY <2>2, <2>3, FS_Surjection
<1>2. \A x \in S : LastOf(s, x) \in Nat /\ s[LastOf(s, x)] = x
  BY LastIs
<1>3. \A x, y \in S : <<x, y>> \in R <=> LastOf(s, x) < LastOf(s, y)
  BY DEF LastOrder
<1> HIDE DEF S, R
<1>4. StrictOrder(S, R)
  <2>1. \A x \in S : <<x, x>> \notin R
    BY <1>2, <1>3
  <2>2. \A x, y \in S : x # y => <<x, y>> \in R \/ <<y, x>> \in R
    <3> TAKE x, y \in S
    <3>1. HAVE x # y
    <3>2. LastOf(s, x) # LastOf(s, y)
      BY <1>2, <3>1
    <3>3. LastOf(s, x) \in Nat /\ LastOf(s, y) \in Nat
      BY <1>2
    <3>4. QED
      BY <1>3, <3>2, <3>3
  <2>3. \A x, y, z \in S : <<x, y>> \in R /\ <<y, z>> \in R => <<x, z>> \in R
    BY <1>2, <1>3
  <2>4. QED
    BY <2>1, <2>2, <2>3 DEF StrictOrder
<1>5. place = Standing(S, R)
  <2>1. \A x \in S : {y \in S : LastOf(s, y) < LastOf(s, x)} = {y \in S : <<y, x>> \in R}
    BY <1>3
  <2>2. QED
    BY <2>1 DEF Standing
<1>6. KeepLast(s) = [n \in 1..Cardinality(S) |-> CHOOSE x \in S : place[x] = n]
  BY Zenon DEF KeepLast, Ordered, LastOf, S
<1> HIDE DEF place
<1>7. KeepLast(s) = Listing(S, R)
  BY <1>5, <1>6 DEF Listing
<1>8. QED
  BY <1>1, <1>4, <1>7, ListingIs DEF S, R

\* The contents of a document, in the order it is read.
ReadTexts(cs, space, path) ==
  LET read == GetDocument(cs, space, path) IN [i \in DOMAIN read |-> cs[read[i]].text]

LEMMA FreshReadsBack ==
  ASSUME NEW t, Table(t), NEW r \in IngestRequest, NEW u, After(t, r, Len(r.texts), u),
         Chunks(t.chunks, r.space, r.path) = {}
  PROVE  ReadTexts(u.chunks, r.space, r.path) = KeepLast(r.texts)
<1> DEFINE n == Len(r.texts)
           cs == u.chunks
           D == Chunks(cs, r.space, r.path)
           T == Range(r.texts)
           read == GetDocument(cs, r.space, r.path)
           text(c) == cs[c].text
           f == [c \in D |-> text(c)]
           list == [i \in DOMAIN read |-> text(read[i])]
<1>1. r.texts \in Seq(Texts) /\ DOMAIN r.texts = 1..n /\ n \in Nat /\ Table(u)
  BY DEF IngestRequest, After
<1>2. /\ IsFiniteSet(D) /\ StrictOrder(D, DocumentOrder(cs, D))
      /\ Lists(read, D, DocumentOrder(cs, D))
  BY <1>1, DocumentIs
<1>3. /\ IsFiniteSet(T) /\ StrictOrder(T, LastOrder(r.texts))
      /\ Lists(KeepLast(r.texts), T, LastOrder(r.texts))
  BY <1>1, KeepLastIs
<1>4. ASSUME NEW c \in D
      PROVE  text(c) \in T /\ cs[c].index + 1 = LastOf(r.texts, text(c)) /\ cs[c].index \in Nat
  <2>1. c \in DOMAIN cs /\ cs[c].space = r.space /\ cs[c].path = r.path /\ cs[c] \in Chunk
    BY <1>1 DEF Chunks, Table
  <2>2. ~Kept(t, r, n, u, c)
    BY <2>1 DEF Kept, Chunks
  <2>3. PICK j \in 1..n : IsAt(cs[c], r, n, j)
    BY <2>1, <2>2 DEF After, Written
  <2>4. text(c) = r.texts[j] /\ cs[c].index = j - 1
    BY <2>3 DEF IsAt, Identity, Key
  <2>5. text(c) \in T
    BY <1>1, <2>4 DEF Range
  <2>6. PICK l : l = LastOf(r.texts, text(c))
    OBVIOUS
  <2>7. l \in 1..n /\ r.texts[l] = r.texts[j] /\ j <= l
    BY <1>1, <2>4, <2>5, <2>6, LastIs
  <2>8. ~(j < l)
    <3>1. j < l => l \in (j + 1)..n
      BY <1>1, <2>7
    <3>2. QED
      BY <2>3, <2>7, <3>1 DEF IsAt, LastPlace
  <2>9. cs[c].index \in Nat
    BY <2>1 DEF Chunk
  <2>10. QED
    BY <1>1, <2>4, <2>5, <2>6, <2>7, <2>8, <2>9
<1>5. ASSUME NEW c \in D, NEW d \in D, text(c) = text(d) PROVE c = d
  <2>1. c \in DOMAIN cs /\ d \in DOMAIN cs /\ Identity(cs[c]) = Identity(cs[d])
    BY <1>5 DEF Chunks, Identity
  <2>2. QED
    BY <1>1, <2>1 DEF Table
<1>6. ASSUME NEW x \in T PROVE \E c \in D : text(c) = x
  <2>1. PICK j \in 1..n : r.texts[j] = x
    BY <1>1 DEF Range
  <2>2. PICK c \in DOMAIN cs : Identity(cs[c]) = Key(r, j)
    BY <2>1, There DEF After
  <2>3. QED
    BY <2>1, <2>2 DEF Identity, Key, Chunks
<1>7. \A c, d \in D : <<c, d>> \in DocumentOrder(cs, D) <=> <<text(c), text(d)>> \in LastOrder(r.texts)
  <2> TAKE c, d \in D
  <2>1. <<c, d>> \in DocumentOrder(cs, D) <=>
          cs[c].index < cs[d].index \/ (cs[c].index = cs[d].index /\ c < d)
    BY DEF DocumentOrder, InDocument
  <2>2. <<text(c), text(d)>> \in LastOrder(r.texts) <=>
          LastOf(r.texts, text(c)) < LastOf(r.texts, text(d))
    BY <1>4 DEF LastOrder
  <2>3. cs[c].index = cs[d].index => c = d
    <3>1. HAVE cs[c].index = cs[d].index
    <3>2. LastOf(r.texts, text(c)) = LastOf(r.texts, text(d))
      BY <1>4, <3>1
    <3>3. text(c) = text(d)
      BY <1>1, <1>4, <3>2, LastIs
    <3>4. QED
      BY <1>5, <3>3
  <2>4. c \in Nat
    BY <1>1 DEF Chunks, Table
  <2>5. <<text(c), text(d)>> \in LastOrder(r.texts) <=> cs[c].index < cs[d].index
    <3>1. cs[c].index + 1 = LastOf(r.texts, text(c)) /\ cs[c].index \in Nat
      BY <1>4
    <3>2. cs[d].index + 1 = LastOf(r.texts, text(d)) /\ cs[d].index \in Nat
      BY <1>4
    <3> HIDE DEF text, cs
    <3>3. QED
      BY <2>2, <3>1, <3>2
  <2>6. cs[c].index = cs[d].index => ~(c < d)
    BY <2>3, <2>4
  <2>7. QED
    BY <2>1, <2>5, <2>6
<1>8. Cardinality(T) = Cardinality(D)
  <2> HIDE DEF D, T, text
  <2>1. f \in Bijection(D, T)
    BY <1>4, <1>5, <1>6 DEF Bijection, Injection, IsInjective, Surjection
  <2>2. ExistsBijection(D, T)
    BY <2>1 DEF ExistsBijection
  <2>3. QED
    BY <1>2, <2>2, FS_Bijection
<1> HIDE DEF D, T, text, cs, read
<1>9. /\ read \in Seq(D) /\ Len(read) = Cardinality(D) /\ DOMAIN read = 1..Len(read)
      /\ \A c \in D : \E i \in DOMAIN read : read[i] = c
      /\ \A i, j \in DOMAIN read : i < j <=> <<read[i], read[j]>> \in DocumentOrder(cs, D)
  BY <1>2 DEF Lists
<1>10. Lists(list, T, LastOrder(r.texts))
  <2>1. \A i \in DOMAIN read : read[i] \in D /\ list[i] = text(read[i]) /\ list[i] \in T
    BY <1>4, <1>9
  <2>2. list \in Seq(T) /\ Len(list) = Len(read) /\ DOMAIN list = DOMAIN read
    BY <1>9, <2>1
  <2>3. \A x \in T : \E i \in DOMAIN list : list[i] = x
    BY <1>6, <1>9, <2>1, <2>2
  <2>4. \A i, j \in DOMAIN list : i < j <=> <<list[i], list[j]>> \in LastOrder(r.texts)
    BY <1>7, <1>9, <2>1, <2>2
  <2>5. QED
    BY <1>8, <1>9, <2>2, <2>3, <2>4 DEF Lists
<1>11. list = KeepLast(r.texts)
  BY <1>3, <1>10, OneList
<1>12. QED
  BY <1>11 DEF ReadTexts, list, text, read, cs

\* A document that is ingested for the first time reads back in its order, each
\* content at its last place, whatever else the tables hold.
THEOREM FreshDocumentsReadBack == Spec => FreshDocumentReadsBack
<1>1. ASSUME IInv, NEW r \in Ingests, Ingest(r), GetDocument(chunks, r.space, r.path) = <<>>
      PROVE  LET read == GetDocument(chunks', r.space, r.path) IN
             [i \in DOMAIN read |-> chunks'[read[i]].text] = KeepLast(r.texts)
  <2>1. PICK t : t = Tables
    OBVIOUS
  <2>2. PICK u : u = Ingested(t, r)
    OBVIOUS
  <2>3. r \in IngestRequest /\ Table(t) /\ Tables' = u /\ After(t, r, Len(r.texts), u)
    BY <1>1, <2>1, <2>2, IngestIs DEF IInv
  <2>4. t.chunks = chunks /\ u.chunks = chunks'
    BY <2>1, <2>3 DEF Tables
  <2>5. Chunks(chunks, r.space, r.path) = {}
    <3> DEFINE S == Chunks(t.chunks, r.space, r.path)
    <3>1. IsFiniteSet(S) /\ Lists(<<>>, S, DocumentOrder(t.chunks, S))
      BY <1>1, <2>3, <2>4, DocumentIs
    <3> HIDE DEF S
    <3>2. S = {}
      BY <3>1 DEF Lists
    <3>3. QED
      BY <2>4, <3>2 DEF S
  <2>6. Chunks(t.chunks, r.space, r.path) = {}
    BY <2>4, <2>5
  <2>7. ReadTexts(u.chunks, r.space, r.path) = KeepLast(r.texts)
    BY <2>3, <2>6, FreshReadsBack
  <2>8. ReadTexts(chunks', r.space, r.path) = KeepLast(r.texts)
    BY <2>4, <2>7
  <2>9. QED
    BY <2>8 DEF ReadTexts
<1>2. IInv => [\A r \in Ingests :
                 Ingest(r) /\ GetDocument(chunks, r.space, r.path) = <<>> =>
                   LET read == GetDocument(chunks', r.space, r.path) IN
                   [i \in DOMAIN read |-> chunks'[read[i]].text] = KeepLast(r.texts)]_vars
  BY <1>1
<1>3. QED
  BY <1>2, Invariant, PTL DEF FreshDocumentReadsBack

\* What an ingest, a prune and an extraction promise, together.
THEOREM IngestsAlwaysSound == Spec => IngestsSound
  BY IngestsRepeat, FreshDocumentsReadBack, ExtractedStaysOut, SpacesAreApart DEF IngestsSound
==============================================================================
