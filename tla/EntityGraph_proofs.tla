-------------------------- MODULE EntityGraph_proofs --------------------------
(***************************************************************************)
(* What holds of the entity graph for any keys, names, requests, captures  *)
(* and budgets.                                                            *)
(***************************************************************************)
EXTENDS EntityGraph, Rankings_proofs

-----------------------------------------------------------------------------
(* Relationship rows *)

RelRow(m) ==
  [subject : Keys, type : Types \cup {RelatedTo}, object : Keys,
   memory : 0..m, status : RelStatuses]

\* Rows over memories 1..m, each between entities that have rows in e.
Rows(m, e) ==
  {rs \in Seq(RelRow(m)) :
     \A i \in DOMAIN rs : e[rs[i].subject] # Absent /\ e[rs[i].object] # Absent}

LEMMA RowsAre ==
  TypeOK <=>
    /\ ent \in [Keys -> {Absent} \cup Entities]
    /\ alias \in [Keys -> SUBSET Surfaces]
    /\ rels \in Rows(Len(mem), ent)
    /\ mem \in Seq([key : Keys \cup {NoKey}, tags : SUBSET Tags, active : BOOLEAN])
    /\ links \subseteq (DOMAIN mem) \X (DOMAIN mem)
BY DEF TypeOK, Rows, RelRow

\* Rows stay rows while memories are added and no entity loses its row.
LEMMA RowsGrow ==
  ASSUME NEW m \in Nat, NEW n \in Nat, m <= n, NEW e, NEW f,
         \A k \in Keys : e[k] # Absent => f[k] # Absent,
         NEW rs \in Rows(m, e)
  PROVE  rs \in Rows(n, f)
<1>1. rs \in Seq(RelRow(m)) /\ RelRow(m) \subseteq RelRow(n)
  BY DEF Rows, RelRow
<1>2. rs \in Seq(RelRow(n))
  BY <1>1, SeqOver
<1>3. \A i \in DOMAIN rs : rs[i].subject \in Keys /\ rs[i].object \in Keys
  <2>1. \A i \in DOMAIN rs : rs[i] \in RelRow(m)
    BY <1>1
  <2>2. QED
    BY <2>1 DEF RelRow
<1>4. QED
  BY <1>2, <1>3 DEF Rows

\* An upsert between known entities keeps the table a table of rows.
LEMMA UpsertRows ==
  ASSUME NEW m \in Nat, NEW e, NEW rs \in Rows(m, e),
         NEW s \in Keys, NEW t \in Types \cup {RelatedTo}, NEW o \in Keys,
         NEW i \in 0..m, NEW status \in RelStatuses,
         e[s] # Absent, e[o] # Absent
  PROVE  UpsertRel(rs, s, t, o, i, status) \in Rows(m, e)
<1> DEFINE found == Existing(rs, s, t, o, i)
           new == Rel(s, t, o, i, status)
<1>1. rs \in Seq(RelRow(m)) /\ new \in RelRow(m) /\ new.subject = s /\ new.object = o
  BY DEF Rows, RelRow, Rel
<1>2. CASE found = {}
  <2>1. UpsertRel(rs, s, t, o, i, status) = Append(rs, new)
    BY <1>2 DEF UpsertRel
  <2> HIDE DEF new
  <2>2. Append(rs, new) \in Seq(RelRow(m))
    BY <1>1
  <2>3. \A j \in DOMAIN Append(rs, new) :
          (j \in DOMAIN rs /\ Append(rs, new)[j] = rs[j]) \/ Append(rs, new)[j] = new
    BY <1>1
  <2>4. PICK ts : ts = Append(rs, new)
    OBVIOUS
  <2>5. \A j \in DOMAIN ts : e[ts[j].subject] # Absent /\ e[ts[j].object] # Absent
    <3> TAKE j \in DOMAIN ts
    <3>1. CASE ts[j] = new
      BY <1>1, <3>1
    <3>2. CASE j \in DOMAIN rs /\ ts[j] = rs[j]
      BY <3>2 DEF Rows
    <3>3. QED
      BY <2>3, <2>4, <3>1, <3>2
  <2>6. ts \in Rows(m, e)
    BY <2>2, <2>4, <2>5 DEF Rows
  <2>7. QED
    BY <2>1, <2>4, <2>6
<1>3. CASE found # {}
  <2>1. found \subseteq DOMAIN rs /\ DOMAIN rs \subseteq Nat
    BY <1>1 DEF Existing
  <2>2. PICK j \in DOMAIN rs : j = Min(found)
    <3> HIDE DEF found
    <3>1. QED
      BY <1>3, <2>1, Least
  <2>3. UpsertRel(rs, s, t, o, i, status) = [rs EXCEPT ![j] = [rs[j] EXCEPT !.status = status]]
    BY <1>3, <2>2 DEF UpsertRel
  <2>4. rs[j] \in RelRow(m)
    BY <1>1
  <2>5. PICK row : row = [rs[j] EXCEPT !.status = status]
    OBVIOUS
  <2>6. row \in RelRow(m) /\ row.subject = rs[j].subject /\ row.object = rs[j].object
    BY <2>4, <2>5 DEF RelRow
  <2>7. [rs EXCEPT ![j] = row] \in Seq(RelRow(m))
    BY <1>1, <2>6
  <2>8. \A k \in DOMAIN rs : [rs EXCEPT ![j] = row][k] = IF k = j THEN row ELSE rs[k]
    OBVIOUS
  <2>9. [rs EXCEPT ![j] = row] \in Rows(m, e)
    BY <2>6, <2>7, <2>8 DEF Rows
  <2>10. QED
    BY <2>3, <2>5, <2>9
<1>4. QED
  BY <1>2, <1>3

\* So does a change of statuses.
LEMMA TombstoneRows ==
  ASSUME NEW m \in Nat, NEW e, NEW rs \in Rows(m, e), NEW ids
  PROVE  /\ Tombstone(rs, ids) \in Rows(m, e)
         /\ DOMAIN Tombstone(rs, ids) = DOMAIN rs
         /\ \A i \in DOMAIN rs :
              /\ i \notin ids => Tombstone(rs, ids)[i] = rs[i]
              /\ i \in ids => Tombstone(rs, ids)[i].status = "tombstoned"
<1>1. rs \in Seq(RelRow(m))
  BY DEF Rows
<1> DEFINE ts == Tombstone(rs, ids)
<1>2. ts = [i \in DOMAIN rs |->
              IF i \in ids THEN [rs[i] EXCEPT !.status = "tombstoned"] ELSE rs[i]]
  BY DEF Tombstone
<1> HIDE DEF ts
<1>3. \A row \in RelRow(m) :
        LET dead == [row EXCEPT !.status = "tombstoned"] IN
        /\ dead \in RelRow(m) /\ dead.status = "tombstoned"
        /\ dead.subject = row.subject /\ dead.object = row.object
  BY DEF RelRow, RelStatuses
<1>4. \A i \in DOMAIN rs :
        /\ ts[i] \in RelRow(m)
        /\ ts[i].subject = rs[i].subject /\ ts[i].object = rs[i].object
        /\ i \notin ids => ts[i] = rs[i]
        /\ i \in ids => ts[i].status = "tombstoned"
  BY <1>1, <1>2, <1>3
<1>5. ts \in Seq(RelRow(m)) /\ DOMAIN ts = DOMAIN rs
  BY <1>1, <1>2, <1>4
<1>6. ts \in Rows(m, e)
  BY <1>4, <1>5 DEF Rows
<1>7. QED
  BY <1>4, <1>5, <1>6 DEF ts

-----------------------------------------------------------------------------
(* The loop of a merge *)

MovedTriple(t, from, into) == <<Moved(t[1], from, into), t[2], Moved(t[3], from, into)>>

\* One turn treats one row: it is retired, if it would join an entity to itself or
\* repeat an active row, or it moves.
Turned(rs, ts, i, to) ==
  /\ DOMAIN ts = DOMAIN rs
  /\ \A j \in DOMAIN rs : j # i => ts[j] = rs[j]
  /\ IF to[1] = to[3] \/ Duplicated(rs, i, to)
     THEN ts[i].status = "tombstoned"
     ELSE Triple(ts[i]) = to /\ ts[i].status = rs[i].status

LEMMA OneRelinked ==
  ASSUME NEW m \in Nat, NEW e, NEW rs \in Rows(m, e), NEW i \in DOMAIN rs,
         NEW from \in Keys, NEW into \in Keys, e[into] # Absent
  PROVE  /\ RelinkOne(rs, i, from, into) \in Rows(m, e)
         /\ Turned(rs, RelinkOne(rs, i, from, into), i, MovedTriple(Triple(rs[i]), from, into))
<1> DEFINE s == Moved(rs[i].subject, from, into)
           o == Moved(rs[i].object, from, into)
           to == MovedTriple(Triple(rs[i]), from, into)
           ts == RelinkOne(rs, i, from, into)
<1>1. rs \in Seq(RelRow(m)) /\ rs[i] \in RelRow(m)
  BY DEF Rows
<1>2. to = <<s, rs[i].type, o>> /\ to[1] = s /\ to[3] = o
  BY DEF MovedTriple, Triple
<1>3. s \in Keys /\ o \in Keys /\ e[s] # Absent /\ e[o] # Absent
  <2>1. rs[i].subject \in Keys /\ rs[i].object \in Keys
    BY <1>1 DEF RelRow
  <2>2. QED
    BY <2>1 DEF Rows, Moved
<1>4. CASE s = o \/ Duplicated(rs, i, to)
  <2>1. ts = Tombstone(rs, {i})
    BY <1>2, <1>4 DEF RelinkOne
  <2>2. i \in {i} /\ \A j : j # i => j \notin {i}
    OBVIOUS
  <2>3. /\ ts \in Rows(m, e) /\ DOMAIN ts = DOMAIN rs
        /\ \A j \in DOMAIN rs : j # i => ts[j] = rs[j]
        /\ ts[i].status = "tombstoned"
    BY <2>1, <2>2, TombstoneRows
  <2> HIDE DEF ts, to
  <2>4. to[1] = to[3] \/ Duplicated(rs, i, to)
    BY <1>2, <1>4
  <2>5. QED
    BY <2>3, <2>4 DEF Turned, ts, to
<1>5. CASE ~(s = o \/ Duplicated(rs, i, to))
  <2>1. PICK row : row = [rs[i] EXCEPT !.subject = s, !.object = o]
    OBVIOUS
  <2>2. /\ row \in RelRow(m) /\ row.subject = s /\ row.object = o
        /\ row.type = rs[i].type /\ row.status = rs[i].status
    BY <1>1, <1>3, <2>1 DEF RelRow
  <2>3. ts = [rs EXCEPT ![i] = row]
    <3>1. ts = [rs EXCEPT ![i].subject = s, ![i].object = o]
      BY <1>2, <1>5 DEF RelinkOne
    <3>2. QED
      BY <2>1, <3>1
  <2>4. DOMAIN ts = DOMAIN rs /\ ts[i] = row /\ \A j \in DOMAIN rs : j # i => ts[j] = rs[j]
    BY <2>3
  <2>5. ts \in Seq(RelRow(m))
    BY <1>1, <2>2, <2>3
  <2> HIDE DEF ts
  <2>6. ts \in Rows(m, e)
    BY <1>3, <2>2, <2>4, <2>5 DEF Rows
  <2>7. Triple(ts[i]) = to /\ ts[i].status = rs[i].status
    BY <1>2, <2>2, <2>4 DEF Triple
  <2> HIDE DEF to
  <2>8. ~(to[1] = to[3] \/ Duplicated(rs, i, to))
    BY <1>2, <1>5
  <2>9. QED
    BY <2>4, <2>6, <2>7, <2>8 DEF Turned, ts, to
<1>6. QED
  BY <1>4, <1>5

Edges(from) == {i \in Live(rels) : Incident(rels[i], from)}

\* The tables that the loop goes through.
RelinkTo(from, into, g) ==
  g = [i \in 0..Len(rels) |->
         IF i = 0 THEN rels
         ELSE LET before == g[i - 1] IN
              IF i \in Edges(from) THEN RelinkOne(before, i, from, into) ELSE before]

LEMMA RelinkedIs ==
  ASSUME TypeOK, NEW from \in Keys, NEW into \in Keys, ent[into] # Absent
  PROVE  \E g : /\ Relinked(from, into) = g[Len(rels)]
                /\ g[0] = rels
                /\ \A i \in 0..Len(rels) :
                     g[i] \in Rows(Len(mem), ent) /\ DOMAIN g[i] = DOMAIN rels
                /\ \A i \in 1..Len(rels) :
                     /\ i \notin Edges(from) => g[i] = g[i - 1]
                     /\ i \in Edges(from) =>
                          Turned(g[i - 1], g[i], i,
                                 MovedTriple(Triple(g[i - 1][i]), from, into))
<1> DEFINE n == Len(rels)
           m == Len(mem)
           R == {rs \in Rows(m, ent) : DOMAIN rs = DOMAIN rels}
           F == [p \in (1..n) \X R |->
                   IF p[1] \in Edges(from) THEN RelinkOne(p[2], p[1], from, into) ELSE p[2]]
           h == CHOOSE g : RelinkTo(from, into, g)
<1>1. n \in Nat /\ m \in Nat /\ rels \in R /\ DOMAIN rels = 1..n
  BY RowsAre DEF Rows
<1>2. \A i \in 1..n, rs \in R :
        (IF i \in Edges(from) THEN RelinkOne(rs, i, from, into) ELSE rs) \in R
  <2> TAKE i \in 1..n, rs \in R
  <2>1. CASE i \in Edges(from)
    <3>1. rs \in Rows(m, ent) /\ DOMAIN rs = DOMAIN rels /\ i \in DOMAIN rs
      BY <1>1
    <3>2. /\ RelinkOne(rs, i, from, into) \in Rows(m, ent)
          /\ Turned(rs, RelinkOne(rs, i, from, into), i,
                    MovedTriple(Triple(rs[i]), from, into))
      <4> HIDE DEF m
      <4>1. QED
        BY <1>1, <3>1, OneRelinked
    <3>3. DOMAIN RelinkOne(rs, i, from, into) = DOMAIN rs
      BY <3>2 DEF Turned
    <3>4. QED
      BY <2>1, <3>1, <3>2, <3>3
  <2>2. QED
    BY <2>1
<1> HIDE DEF n, m, R
<1>3. F \in [(1..n) \X R -> R]
  BY <1>2
<1>4. PICK f \in [0..n -> R] : f[0] = rels /\ \A i \in 1..n : f[i] = F[<<i, f[i - 1]>>]
  <2> HIDE DEF F
  <2>1. PICK f \in [0..n -> R] : Iterates(f, n, rels, F)
    BY <1>1, <1>3, Recursive
  <2>2. QED
    BY <2>1 DEF Iterates
<1>5. RelinkTo(from, into, f)
  <2>1. \A i \in 1..n : i - 1 \in 0..n /\ f[i - 1] \in R
    BY <1>1
  <2>2. \A i \in 1..n : f[i] = IF i \in Edges(from) THEN RelinkOne(f[i - 1], i, from, into)
                               ELSE f[i - 1]
    BY <1>4, <2>1
  <2>3. f = [i \in 0..n |-> f[i]]
    BY <1>4
  <2>4. \A i \in 0..n : i = 0 \/ i \in 1..n
    BY <1>1
  <2> HIDE DEF F
  <2>5. \A i \in 0..n :
          f[i] = IF i = 0 THEN rels
                 ELSE IF i \in Edges(from) THEN RelinkOne(f[i - 1], i, from, into)
                      ELSE f[i - 1]
    BY <1>4, <2>2, <2>4
  <2>6. QED
    BY <2>3, <2>5 DEF RelinkTo, n
<1>6. RelinkTo(from, into, h)
  BY <1>5
<1>7. Relinked(from, into) = h[n]
  BY DEF Relinked, RelinkTo, Edges, n
<1> HIDE DEF h, F
<1>8. \A i \in 0..n : h[i] = IF i = 0 THEN rels
                             ELSE IF i \in Edges(from) THEN RelinkOne(h[i - 1], i, from, into)
                             ELSE h[i - 1]
  BY <1>6 DEF RelinkTo, n
<1>9. h[0] = rels
  BY <1>1, <1>8
<1>10. \A i \in 1..n : h[i] = IF i \in Edges(from) THEN RelinkOne(h[i - 1], i, from, into)
                              ELSE h[i - 1]
  BY <1>1, <1>8
<1> DEFINE S == {i \in 0..n : h[i] \in R}
<1>11. \A i \in 0..n : i \in S
  <2>1. 0 \in S
    BY <1>1, <1>9
  <2>2. \A i \in 0..(n - 1) : i \in S => i + 1 \in S
    <3> TAKE i \in 0..(n - 1)
    <3>1. HAVE i \in S
    <3>2. i + 1 \in 1..n /\ i + 1 \in 0..n /\ (i + 1) - 1 = i /\ h[i] \in R
      BY <1>1, <3>1
    <3>3. h[i + 1] = IF i + 1 \in Edges(from) THEN RelinkOne(h[i], i + 1, from, into)
                     ELSE h[i]
      BY <1>10, <3>2
    <3>4. h[i + 1] \in R
      BY <1>2, <3>2, <3>3
    <3>5. QED
      BY <3>2, <3>4
  <2> HIDE DEF S
  <2>3. QED
    BY <1>1, <2>1, <2>2, InductionTo
<1>12. \A i \in 0..n : h[i] \in Rows(m, ent) /\ DOMAIN h[i] = DOMAIN rels
  BY <1>11 DEF R
<1>13. ASSUME NEW i \in 1..n, i \in Edges(from)
       PROVE  Turned(h[i - 1], h[i], i, MovedTriple(Triple(h[i - 1][i]), from, into))
  <2>1. i - 1 \in 0..n /\ i \in DOMAIN rels
    BY <1>1
  <2>2. h[i - 1] \in Rows(m, ent) /\ i \in DOMAIN h[i - 1]
    BY <1>12, <2>1
  <2>3. Turned(h[i - 1], RelinkOne(h[i - 1], i, from, into), i,
               MovedTriple(Triple(h[i - 1][i]), from, into))
    BY <1>1, <2>2, OneRelinked
  <2>4. h[i] = RelinkOne(h[i - 1], i, from, into)
    BY <1>10, <1>13
  <2>5. QED
    BY <2>3, <2>4
<1>14. \A i \in 1..n : i \notin Edges(from) => h[i] = h[i - 1]
  BY <1>10
<1>15. QED
  BY <1>7, <1>9, <1>12, <1>13, <1>14 DEF n, m

\* What the loop has done once the first i rows are treated: the others stand as
\* they did; an active row of the source speaks of the target, and not of it twice;
\* and whatever a row of the source said is said by an active row.
Looped(from, into, i, rs) ==
  LET to(j) == MovedTriple(Triple(rels[j]), from, into) IN
  /\ \A j \in DOMAIN rels : j > i \/ j \notin Edges(from) => rs[j] = rels[j]
  /\ \A j \in Edges(from) :
       j <= i /\ rs[j].status = "active" => Triple(rs[j]) = to(j) /\ to(j)[1] # to(j)[3]
  /\ \A j \in Edges(from) :
       j <= i /\ to(j)[1] # to(j)[3] => \E k \in Live(rs) : Triple(rs[k]) = to(j)

LEMMA LoopTurn ==
  ASSUME NEW from, NEW into, from # into, NEW rs, NEW ts, DOMAIN rs = DOMAIN rels,
         NEW n \in DOMAIN rels, DOMAIN rels \subseteq Nat \ {0},
         Looped(from, into, n - 1, rs), n \in Edges(from),
         Turned(rs, ts, n, MovedTriple(Triple(rs[n]), from, into))
  PROVE  Looped(from, into, n, ts)
<1> DEFINE to(j) == MovedTriple(Triple(rels[j]), from, into)
<1>1. /\ \A j \in DOMAIN rels : j > n - 1 \/ j \notin Edges(from) => rs[j] = rels[j]
      /\ \A j \in Edges(from) :
           j <= n - 1 /\ rs[j].status = "active" => Triple(rs[j]) = to(j) /\ to(j)[1] # to(j)[3]
      /\ \A j \in Edges(from) :
           j <= n - 1 /\ to(j)[1] # to(j)[3] => \E k \in Live(rs) : Triple(rs[k]) = to(j)
  BY DEF Looped
<1>2. rs[n] = rels[n] /\ rels[n].status = "active" /\ Incident(rels[n], from)
  <2>1. n > n - 1
    OBVIOUS
  <2>2. QED
    BY <1>1, <2>1 DEF Edges, Live
<1>3. /\ DOMAIN ts = DOMAIN rs /\ \A j \in DOMAIN rs : j # n => ts[j] = rs[j]
      /\ to(n)[1] = to(n)[3] \/ Duplicated(rs, n, to(n)) => ts[n].status = "tombstoned"
      /\ ~(to(n)[1] = to(n)[3] \/ Duplicated(rs, n, to(n))) =>
           Triple(ts[n]) = to(n) /\ ts[n].status = rs[n].status
  BY <1>2 DEF Turned
<1>4. Edges(from) \subseteq DOMAIN rels
  BY DEF Edges, Live
<1>5. \A j \in Edges(from) : j <= n => j = n \/ j <= n - 1
  BY <1>4
<1>6. \A j \in DOMAIN rels : j > n \/ j \notin Edges(from) => ts[j] = rels[j]
  <2> TAKE j \in DOMAIN rels
  <2>1. HAVE j > n \/ j \notin Edges(from)
  <2>2. j # n /\ (j > n - 1 \/ j \notin Edges(from))
    BY <2>1
  <2>3. QED
    BY <1>1, <1>3, <2>2
<1>7. ASSUME NEW k \in Live(rs), k # n
      PROVE  k \in Live(ts) /\ Triple(ts[k]) = Triple(rs[k])
  BY <1>3, <1>7 DEF Live
<1>8. \A j : to(j)[1] # from /\ to(j)[3] # from
  BY DEF MovedTriple, Moved
<1>9. Triple(rs[n])[1] = from \/ Triple(rs[n])[3] = from
  BY <1>2 DEF Triple, Incident
<1> HIDE DEF to
<1>10. ASSUME NEW j \in Edges(from), j <= n, ts[j].status = "active"
       PROVE  Triple(ts[j]) = to(j) /\ to(j)[1] # to(j)[3]
  <2>1. CASE j = n
    BY <1>3, <1>10, <2>1
  <2>2. CASE j <= n - 1
    <3>1. j # n /\ j \in DOMAIN rs
      BY <1>4, <2>2
    <3>2. ts[j] = rs[j]
      BY <1>3, <3>1
    <3>3. QED
      BY <1>1, <1>10, <2>2, <3>2
  <2>3. QED
    BY <1>5, <1>10, <2>1, <2>2
<1>11. ASSUME NEW j \in Edges(from), j <= n, to(j)[1] # to(j)[3]
       PROVE  \E k \in Live(ts) : Triple(ts[k]) = to(j)
  <2>1. CASE j <= n - 1
    <3>1. PICK k \in Live(rs) : Triple(rs[k]) = to(j)
      BY <1>1, <1>11, <2>1
    <3>2. k # n
      BY <1>8, <1>9, <3>1
    <3>3. QED
      BY <1>7, <3>1, <3>2
  <2>2. CASE j = n /\ Duplicated(rs, n, to(n))
    <3>1. PICK k \in Live(rs) \ {n} : Triple(rs[k]) = to(n)
      BY <2>2 DEF Duplicated
    <3>2. QED
      BY <1>7, <2>2, <3>1
  <2>3. CASE j = n /\ ~Duplicated(rs, n, to(n))
    <3>1. Triple(ts[n]) = to(n) /\ ts[n].status = "active"
      BY <1>2, <1>3, <1>11, <2>3
    <3>2. n \in Live(ts)
      BY <1>3, <3>1 DEF Live
    <3>3. QED
      BY <2>3, <3>1, <3>2
  <2>4. QED
    BY <1>5, <1>11, <2>1, <2>2, <2>3
<1>12. QED
  BY <1>6, <1>10, <1>11 DEF Looped, to

\* What relink_active_relationships leaves is the contraction of the graph.
LEMMA MergeContracts ==
  ASSUME TypeOK, NEW from \in Keys, NEW into \in Keys, from # into, ent[into] # Absent
  PROVE  /\ Relinked(from, into) \in Rows(Len(mem), ent)
         /\ {Triple(Relinked(from, into)[i]) : i \in Live(Relinked(from, into))}
              = Contracted(from, into)
<1> DEFINE n == Len(rels)
           to(j) == MovedTriple(Triple(rels[j]), from, into)
<1>1. PICK g : /\ Relinked(from, into) = g[n]
               /\ g[0] = rels
               /\ \A i \in 0..n :
                    g[i] \in Rows(Len(mem), ent) /\ DOMAIN g[i] = DOMAIN rels
               /\ \A i \in 1..n :
                    /\ i \notin Edges(from) => g[i] = g[i - 1]
                    /\ i \in Edges(from) =>
                         Turned(g[i - 1], g[i], i,
                                MovedTriple(Triple(g[i - 1][i]), from, into))
  BY RelinkedIs
<1>2. n \in Nat /\ DOMAIN rels = 1..n
  BY RowsAre DEF Rows
<1>3. Edges(from) \subseteq DOMAIN rels
  BY DEF Edges, Live
<1> HIDE DEF n
<1> DEFINE S == {i \in 0..n : Looped(from, into, i, g[i])}
<1>4. 0 \in S
  <2>1. \A j \in Edges(from) : ~(j <= 0)
    BY <1>2, <1>3
  <2>2. Looped(from, into, 0, g[0])
    BY <1>1, <2>1 DEF Looped
  <2>3. QED
    BY <1>2, <2>2
<1>5. \A i \in 0..(n - 1) : i \in S => i + 1 \in S
  <2> TAKE i \in 0..(n - 1)
  <2>1. HAVE i \in S
  <2>2. PICK k \in 1..n : k = i + 1
    BY <1>2
  <2>3. k - 1 = i /\ k \in DOMAIN rels /\ i \in 0..n /\ k \in 0..n
    BY <1>2, <2>2
  <2>4. Looped(from, into, k - 1, g[k - 1]) /\ DOMAIN g[k - 1] = DOMAIN rels
    BY <1>1, <2>1, <2>3
  <2>5. CASE k \in Edges(from)
    <3>1. Turned(g[k - 1], g[k], k, MovedTriple(Triple(g[k - 1][k]), from, into))
      BY <1>1, <2>5
    <3>2. DOMAIN rels \subseteq Nat \ {0}
      BY <1>2
    <3>3. Looped(from, into, k, g[k])
      BY <2>3, <2>4, <2>5, <3>1, <3>2, LoopTurn
    <3>4. QED
      BY <2>2, <2>3, <3>3
  <2>6. CASE k \notin Edges(from)
    <3>1. g[k] = g[k - 1]
      BY <1>1, <2>6
    <3>2. \A j \in Edges(from) : j <= k => j <= k - 1
      BY <1>2, <1>3, <2>6
    <3>3. \A j \in DOMAIN rels : j > k => j > k - 1
      BY <1>2
    <3>4. Looped(from, into, k, g[k])
      BY <2>4, <3>1, <3>2, <3>3 DEF Looped
    <3>5. QED
      BY <2>2, <2>3, <3>4
  <2>7. QED
    BY <2>5, <2>6
<1>6. Looped(from, into, n, g[n]) /\ DOMAIN g[n] = DOMAIN rels
      /\ g[n] \in Rows(Len(mem), ent)
  <2> HIDE DEF S
  <2>1. \A i \in 0..n : i \in S
    BY <1>2, <1>4, <1>5, InductionTo
  <2>2. n \in 0..n
    BY <1>2
  <2>3. QED
    BY <1>1, <2>1, <2>2 DEF S
<1>7. PICK rs : rs = g[n]
  OBVIOUS
<1>8. /\ \A j \in DOMAIN rels : j \notin Edges(from) => rs[j] = rels[j]
      /\ \A j \in Edges(from) :
           rs[j].status = "active" => Triple(rs[j]) = to(j) /\ to(j)[1] # to(j)[3]
      /\ \A j \in Edges(from) :
           to(j)[1] # to(j)[3] => \E k \in Live(rs) : Triple(rs[k]) = to(j)
  <2>1. \A j \in Edges(from) : j <= n
    BY <1>2, <1>3
  <2>2. QED
    BY <1>6, <1>7, <2>1 DEF Looped
<1>9. Contracted(from, into) =
        {MovedTriple(t, from, into) :
           t \in {t \in LiveTriples :
                    \/ from \notin {t[1], t[3]}
                    \/ Moved(t[1], from, into) # Moved(t[3], from, into)}}
  BY DEF Contracted, MovedTriple
<1>10. \A t : MovedTriple(t, from, into)[1] = Moved(t[1], from, into)
              /\ MovedTriple(t, from, into)[3] = Moved(t[3], from, into)
  BY DEF MovedTriple
<1>11. \A j \in Live(rels) :
         /\ j \in Edges(from) <=> from \in {Triple(rels[j])[1], Triple(rels[j])[3]}
         /\ j \notin Edges(from) => to(j) = Triple(rels[j])
  BY DEF Edges, Incident, Triple, MovedTriple, Moved
<1>12. ASSUME NEW i \in Live(rs) PROVE Triple(rs[i]) \in Contracted(from, into)
  <2>1. i \in DOMAIN rels /\ rs[i].status = "active"
    BY <1>6, <1>7 DEF Live
  <2>2. CASE i \in Edges(from)
    <3>1. Triple(rs[i]) = to(i) /\ to(i)[1] # to(i)[3] /\ i \in Live(rels)
      BY <1>8, <2>1, <2>2 DEF Edges
    <3>2. Triple(rels[i]) \in LiveTriples
      BY <3>1 DEF LiveTriples
    <3>3. QED
      BY <1>9, <1>10, <3>1, <3>2
  <2>3. CASE i \notin Edges(from)
    <3>1. rs[i] = rels[i]
      BY <1>8, <2>1, <2>3
    <3>2. i \in Live(rels)
      BY <2>1, <3>1 DEF Live
    <3>3. Triple(rels[i]) \in LiveTriples
      BY <3>2 DEF LiveTriples
    <3>4. to(i) = Triple(rs[i]) /\ from \notin {Triple(rels[i])[1], Triple(rels[i])[3]}
      BY <1>11, <2>3, <3>1, <3>2
    <3>5. QED
      BY <1>9, <3>3, <3>4
  <2>4. QED
    BY <2>2, <2>3
<1>13. ASSUME NEW x \in Contracted(from, into)
       PROVE  \E i \in Live(rs) : Triple(rs[i]) = x
  <2>1. PICK t \in LiveTriples :
          /\ x = MovedTriple(t, from, into)
          /\ \/ from \notin {t[1], t[3]}
             \/ Moved(t[1], from, into) # Moved(t[3], from, into)
    BY <1>9
  <2>2. PICK j \in Live(rels) : t = Triple(rels[j])
    BY DEF LiveTriples
  <2>3. x = to(j) /\ j \in DOMAIN rels
    BY <2>1, <2>2 DEF Live
  <2>4. CASE j \in Edges(from)
    <3>1. to(j)[1] # to(j)[3]
      BY <1>10, <1>11, <2>1, <2>2, <2>4
    <3>2. QED
      BY <1>8, <2>3, <2>4, <3>1
  <2>5. CASE j \notin Edges(from)
    <3>1. rs[j] = rels[j] /\ to(j) = Triple(rels[j])
      BY <1>8, <1>11, <2>3, <2>5
    <3>2. j \in Live(rs)
      BY <1>6, <1>7, <2>2, <3>1 DEF Live
    <3>3. QED
      BY <2>3, <3>1, <3>2
  <2>6. QED
    BY <2>4, <2>5
<1>14. {Triple(rs[i]) : i \in Live(rs)} = Contracted(from, into)
  BY <1>12, <1>13
<1>15. QED
  BY <1>1, <1>6, <1>7, <1>14

-----------------------------------------------------------------------------
(* Several upserts, one after the other *)

Upserts(rs, n, d, g) ==
  g = [i \in 0..n |->
         IF i = 0 THEN rs
         ELSE UpsertRel(g[i - 1], d[i].subject, d[i].type, d[i].object, d[i].memory,
                        d[i].status)]

LEMMA UpsertChain ==
  ASSUME NEW m \in Nat, NEW e, NEW rs \in Rows(m, e), NEW n \in Nat, NEW d,
         \A i \in 1..n : /\ d[i] \in RelRow(m)
                         /\ e[d[i].subject] # Absent /\ e[d[i].object] # Absent
  PROVE  /\ \E g : Upserts(rs, n, d, g)
         /\ \A g : Upserts(rs, n, d, g) => g[n] \in Rows(m, e)
<1> DEFINE R == Rows(m, e)
           One(i, r) == UpsertRel(r, d[i].subject, d[i].type, d[i].object, d[i].memory,
                                  d[i].status)
           F == [p \in (1..n) \X R |-> One(p[1], p[2])]
<1>1. \A i \in 1..n, r \in R : One(i, r) \in R
  <2> TAKE i \in 1..n, r \in R
  <2>1. /\ d[i].subject \in Keys /\ d[i].type \in Types \cup {RelatedTo}
        /\ d[i].object \in Keys /\ d[i].memory \in 0..m /\ d[i].status \in RelStatuses
    BY DEF RelRow
  <2>2. QED
    BY <2>1, UpsertRows
<1> HIDE DEF R, One
<1>2. F \in [(1..n) \X R -> R]
  BY <1>1
<1>3. \E g : Upserts(rs, n, d, g)
  <2>1. rs \in R
    BY DEF R
  <2>2. PICK f \in [0..n -> R] : Iterates(f, n, rs, F)
    <3> HIDE DEF F
    <3>1. QED
      BY <1>2, <2>1, Recursive
  <2>3. f[0] = rs /\ \A i \in 1..n : f[i] = F[<<i, f[i - 1]>>]
    BY <2>2 DEF Iterates
  <2>4. \A i \in 1..n : f[i - 1] \in R
    OBVIOUS
  <2>5. \A i \in 1..n : f[i] = One(i, f[i - 1])
    BY <2>3, <2>4
  <2> HIDE DEF F
  <2>6. \A i \in 0..n : f[i] = IF i = 0 THEN rs ELSE One(i, f[i - 1])
    <3>1. \A i \in 0..n : i = 0 \/ i \in 1..n
      OBVIOUS
    <3>2. QED
      BY <2>3, <2>5, <3>1
  <2>7. f = [i \in 0..n |-> IF i = 0 THEN rs ELSE One(i, f[i - 1])]
    BY <2>6
  <2>8. QED
    BY <2>7 DEF Upserts, One
<1>4. ASSUME NEW g, Upserts(rs, n, d, g) PROVE g[n] \in R
  <2>1. \A i \in 0..n : g[i] = IF i = 0 THEN rs ELSE One(i, g[i - 1])
    BY <1>4 DEF Upserts, One
  <2> DEFINE S == {i \in 0..n : g[i] \in R}
  <2>2. 0 \in S
    BY <2>1 DEF R
  <2>3. \A i \in 0..(n - 1) : i \in S => i + 1 \in S
    <3> TAKE i \in 0..(n - 1)
    <3>1. HAVE i \in S
    <3>2. i + 1 \in 1..n /\ i + 1 \in 0..n /\ (i + 1) - 1 = i /\ i + 1 # 0 /\ g[i] \in R
      BY <3>1
    <3>3. g[i + 1] = One(i + 1, g[i])
      BY <2>1, <3>2
    <3>4. g[i + 1] \in R
      BY <1>1, <3>2, <3>3
    <3>5. QED
      BY <3>2, <3>4
  <2>4. n \in S
    <3> HIDE DEF S
    <3>1. \A i \in 0..n : i \in S
      BY <2>2, <2>3, InductionTo
    <3>2. QED
      BY <3>1
  <2>5. QED
    BY <2>4
<1>5. QED
  BY <1>3, <1>4 DEF R

-----------------------------------------------------------------------------
(* Captures *)

\* A capture resolves its keys to keys.
LEMMA ResolvedIs ==
  ASSUME NEW e, NEW a, NEW c, NEW k \in Keys
  PROVE  /\ Resolved(e, a, c, k) \in Keys
         /\ e[k].status = "active" => Resolved(e, a, c, k) = k
         /\ Matches(e, a, c, k) = {} => Resolved(e, a, c, k) = k
         /\ e[k].status # "active" /\ Matches(e, a, c, k) # {} =>
              Resolved(e, a, c, k) \in Matches(e, a, c, k)
         /\ \A j \in Matches(e, a, c, k) : j \in Keys /\ e[j].status = "active"
<1> DEFINE found == Matches(e, a, c, k)
<1>1. \A j \in found : j \in Keys /\ e[j].status = "active"
  BY DEF Matches, Named
<1>2. found \subseteq Nat
  BY <1>1, GraphAssumption
<1>3. found # {} => Min(found) \in found
  <2> HIDE DEF found
  <2> QED
    BY <1>2, Least
<1>4. Resolved(e, a, c, k) = IF e[k].status = "active" \/ found = {} THEN k ELSE Min(found)
  BY DEF Resolved
<1> HIDE DEF found
<1>5. QED
  BY <1>1, <1>3, <1>4 DEF found

EntityTable == [Keys -> {Absent} \cup Entities]
AliasTable == [Keys -> SUBSET Surfaces]

LEMMA NotAbsent == \A x \in Entities : x # Absent
BY DEF Entities, Absent, EntityStatuses

LEMMA IsCapture ==
  ASSUME NEW c \in Captures
  PROVE  /\ CapturedKeys(c) \subseteq Keys
         /\ \A k \in CapturedKeys(c) :
              /\ c.name[k] \in Surfaces /\ c.aliases[k] \subseteq Surfaces
              /\ CaptureSurfaces(c, k) \subseteq Surfaces
         /\ c.edges \in Seq(Keys \X (Types \cup {RelatedTo}) \X Keys)
BY GraphAssumption DEF CaptureRequest, CapturedKeys, CaptureSurfaces

\* The entities of a capture have rows afterwards, and nobody loses one.
LEMMA CapturedTables ==
  ASSUME NEW e \in EntityTable, NEW a \in AliasTable, NEW c \in Captures
  PROVE  /\ CapturedEntities(e, a, c) \in EntityTable
         /\ CapturedAliases(e, a, c) \in AliasTable
         /\ \A k \in Keys : e[k] # Absent => CapturedEntities(e, a, c)[k] # Absent
         /\ \A k \in CapturedKeys(c) :
              CapturedEntities(e, a, c)[Resolved(e, a, c, k)] # Absent
<1> DEFINE For(r) == {k \in CapturedKeys(c) : Resolved(e, a, c, k) = r}
           k0(r) == CHOOSE k \in CapturedKeys(c) : Resolved(e, a, c, k) = r
           row(r) == [status |-> "active",
                      name |-> IF e[r].status = "active" THEN e[r].name ELSE c.name[k0(r)]]
           f == CapturedEntities(e, a, c)
<1>1. f = [r \in Keys |->
             IF \E k \in CapturedKeys(c) : Resolved(e, a, c, k) = r THEN row(r) ELSE e[r]]
  BY DEF CapturedEntities
<1>2. ASSUME NEW r \in Keys, NEW k \in CapturedKeys(c), Resolved(e, a, c, k) = r
      PROVE  row(r) \in Entities
  <2>1. k0(r) \in CapturedKeys(c)
    BY <1>2
  <2>2. c.name[k0(r)] \in Surfaces
    <3> HIDE DEF k0
    <3>1. QED
      BY <2>1, IsCapture
  <2>3. e[r].status = "active" => e[r].name \in Surfaces
    <3>1. e[r] \in {Absent} \cup Entities
      BY DEF EntityTable
    <3>2. QED
      BY <3>1 DEF Absent, Entities
  <2> HIDE DEF k0
  <2>4. QED
    BY <2>2, <2>3 DEF Entities, EntityStatuses
<1> HIDE DEF row
<1>3. f \in EntityTable
  BY <1>1, <1>2 DEF EntityTable
<1>4. \A k \in Keys : e[k] # Absent => f[k] # Absent
  BY <1>1, <1>2, NotAbsent
<1>5. ASSUME NEW k \in CapturedKeys(c)
      PROVE  f[Resolved(e, a, c, k)] # Absent
  <2>1. k \in Keys
    BY IsCapture
  <2>2. PICK r \in Keys : r = Resolved(e, a, c, k)
    BY <2>1, ResolvedIs
  <2>3. f[r] = row(r) /\ row(r) \in Entities
    BY <1>1, <1>2, <2>2
  <2>4. QED
    BY <2>2, <2>3, NotAbsent
<1>6. CapturedAliases(e, a, c) \in AliasTable
  <2>1. ASSUME NEW r \in Keys, NEW k \in For(r)
        PROVE  CaptureSurfaces(c, k) \cup {f[r].name} \subseteq Surfaces
    <3>1. k \in CapturedKeys(c) /\ Resolved(e, a, c, k) = r
      OBVIOUS
    <3>2. f[r] = row(r) /\ row(r) \in Entities
      BY <1>1, <1>2, <3>1
    <3>3. f[r].name \in Surfaces
      BY <3>2 DEF Entities
    <3>4. QED
      BY <3>1, <3>3, IsCapture
  <2>2. CapturedAliases(e, a, c) =
          [r \in Keys |-> a[r] \cup UNION {CaptureSurfaces(c, k) \cup {f[r].name} : k \in For(r)}]
    BY DEF CapturedAliases
  <2> HIDE DEF For, f
  <2>3. \A r \in Keys : a[r] \subseteq Surfaces
    BY DEF AliasTable
  <2>4. QED
    BY <2>1, <2>2, <2>3 DEF AliasTable
<1>7. QED
  BY <1>3, <1>4, <1>5, <1>6

\* The edges of a capture join the entities of the capture.
LEMMA CapturedRows ==
  ASSUME TypeOK, NEW e \in EntityTable, NEW a \in AliasTable, NEW c \in Captures,
         WellFormed(c), \A k \in Keys : ent[k] # Absent => e[k] # Absent,
         NEW m \in Nat, m = Len(mem) + 1
  PROVE  CapturedRels(e, a, c, m) \in Rows(m, CapturedEntities(e, a, c))
<1> DEFINE n == Len(c.edges)
           f == CapturedEntities(e, a, c)
           d == [i \in 1..n |-> Rel(Resolved(e, a, c, c.edges[i][1]), c.edges[i][2],
                                    Resolved(e, a, c, c.edges[i][3]), m, "active")]
           h == CHOOSE g : Upserts(rels, n, d, g)
<1>1. /\ n \in Nat /\ DOMAIN c.edges = 1..n
      /\ \A i \in 1..n : c.edges[i] \in Keys \X (Types \cup {RelatedTo}) \X Keys
  BY IsCapture
<1>2. \A i \in 1..n : c.edges[i][1] \in CapturedKeys(c) /\ c.edges[i][3] \in CapturedKeys(c)
  BY <1>1 DEF WellFormed
<1>3. /\ \A k \in Keys : e[k] # Absent => f[k] # Absent
      /\ \A k \in CapturedKeys(c) :
           Resolved(e, a, c, k) \in Keys /\ f[Resolved(e, a, c, k)] # Absent
  <2>1. \A k \in CapturedKeys(c) : k \in Keys
    BY IsCapture
  <2>2. QED
    BY <2>1, CapturedTables, ResolvedIs
<1>4. PICK rs : rs = rels
  OBVIOUS
<1>5. rs \in Rows(m, f)
  <2>1. PICK l \in Nat, en \in EntityTable : l = Len(mem) /\ en = ent /\ rs \in Rows(l, en)
    BY <1>4, RowsAre DEF EntityTable
  <2>2. l <= m /\ \A k \in Keys : en[k] # Absent => f[k] # Absent
    BY <1>3, <2>1
  <2> HIDE DEF f
  <2>3. QED
    BY <2>1, <2>2, RowsGrow
<1> HIDE DEF n, f
<1>6. \A i \in 1..n : /\ d[i] \in RelRow(m)
                      /\ f[d[i].subject] # Absent /\ f[d[i].object] # Absent
  <2> TAKE i \in 1..n
  <2>1. c.edges[i][2] \in Types \cup {RelatedTo}
    BY <1>1
  <2>2. PICK s \in Keys, o \in Keys :
          /\ s = Resolved(e, a, c, c.edges[i][1]) /\ o = Resolved(e, a, c, c.edges[i][3])
          /\ f[s] # Absent /\ f[o] # Absent
    BY <1>2, <1>3
  <2>3. d[i] = Rel(s, c.edges[i][2], o, m, "active")
    BY <2>2
  <2> HIDE DEF d
  <2>4. QED
    BY <2>1, <2>2, <2>3 DEF Rel, RelRow, RelStatuses
<1>7. /\ \E g : Upserts(rs, n, d, g)
      /\ \A g : Upserts(rs, n, d, g) => g[n] \in Rows(m, f)
  <2> HIDE DEF d
  <2> QED
    BY <1>1, <1>5, <1>6, UpsertChain
<1>8. CapturedRels(e, a, c, m) = h[n]
  <2>1. \A i \in 1..n :
          /\ d[i].subject = Resolved(e, a, c, c.edges[i][1]) /\ d[i].type = c.edges[i][2]
          /\ d[i].object = Resolved(e, a, c, c.edges[i][3])
          /\ d[i].memory = m /\ d[i].status = "active"
    BY DEF Rel
  <2> DEFINE One(g, i) ==
               IF i = 0 THEN rels
               ELSE UpsertRel(g[i - 1], d[i].subject, d[i].type, d[i].object, d[i].memory,
                              d[i].status)
             Two(g, i) ==
               IF i = 0 THEN rels
               ELSE UpsertRel(g[i - 1], Resolved(e, a, c, c.edges[i][1]), c.edges[i][2],
                              Resolved(e, a, c, c.edges[i][3]), m, "active")
  <2>2. \A g : \A i \in 0..n : One(g, i) = Two(g, i)
    <3>1. \A i \in 0..n : i = 0 \/ i \in 1..n
      BY <1>1
    <3> HIDE DEF d
    <3>2. QED
      BY <2>1, <3>1
  <2> HIDE DEF d
  <2>3. \A g : Upserts(rels, n, d, g) <=> g = [i \in 0..n |-> Two(g, i)]
    <3>1. \A g : Upserts(rels, n, d, g) <=> g = [i \in 0..n |-> One(g, i)]
      BY DEF Upserts
    <3> HIDE DEF One, Two
    <3>2. QED
      BY <2>2, <3>1
  <2>4. CapturedRels(e, a, c, m) = (CHOOSE g : g = [i \in 0..n |-> Two(g, i)])[n]
    BY DEF CapturedRels, n
  <2> HIDE DEF Two
  <2>5. QED
    BY <2>3, <2>4
<1>9. h[n] \in Rows(m, f)
  <2> HIDE DEF d
  <2> QED
    BY <1>4, <1>7
<1>10. QED
  BY <1>8, <1>9 DEF f

-----------------------------------------------------------------------------
(* The graph task *)

PairOrder(S) == {p \in S \X S : PairBefore(p[1], p[2])}

\* Pairs of naturals in their order.
LEMMA PairsListed ==
  ASSUME NEW S, IsFiniteSet(S), S \subseteq Nat \X Nat
  PROVE  Lists(Ordered(S, PairBefore), S, PairOrder(S))
<1> DEFINE R == PairOrder(S)
           place == [x \in S |-> 1 + Cardinality({y \in S : PairBefore(y, x)})]
<1>1. \A x, y \in S : <<x, y>> \in R <=> PairBefore(x, y)
  BY DEF PairOrder
<1>2. \A x \in S : x = <<x[1], x[2]>> /\ x[1] \in Nat /\ x[2] \in Nat
  OBVIOUS
<1> HIDE DEF R
<1>3. StrictOrder(S, R)
  <2>1. \A x \in S : ~PairBefore(x, x)
    BY <1>2 DEF PairBefore
  <2>2. \A x, y \in S : x # y => PairBefore(x, y) \/ PairBefore(y, x)
    <3> TAKE x, y \in S
    <3>1. HAVE x # y
    <3>2. x[1] # y[1] \/ x[2] # y[2]
      BY <1>2, <3>1
    <3>3. QED
      BY <1>2, <3>2 DEF PairBefore
  <2>3. \A x, y, z \in S : PairBefore(x, y) /\ PairBefore(y, z) => PairBefore(x, z)
    BY <1>2 DEF PairBefore
  <2>4. QED
    BY <1>1, <2>1, <2>2, <2>3 DEF StrictOrder
<1>4. place = Standing(S, R)
  <2>1. \A x \in S : {y \in S : PairBefore(y, x)} = {y \in S : <<y, x>> \in R}
    BY <1>1
  <2>2. QED
    BY <2>1 DEF Standing
<1>5. Ordered(S, PairBefore) = [n \in 1..Cardinality(S) |-> CHOOSE x \in S : place[x] = n]
  BY Zenon DEF Ordered
<1> HIDE DEF place
<1>6. Ordered(S, PairBefore) = Listing(S, R)
  BY <1>4, <1>5 DEF Listing
<1>7. QED
  BY <1>3, <1>6, ListingIs DEF R

\* The graph task adds edges between entities that have rows.
LEMMA ProposedRows ==
  ASSUME TypeOK, NEW e \in EntityTable, \A k \in Keys : ent[k] # Absent => e[k] # Absent,
         NEW ls, ls \subseteq (DOMAIN mem) \X (DOMAIN mem)
  PROVE  WithProposals(e, ls) \in Rows(Len(mem), e)
<1> DEFINE all == Proposals(e, ls)
           chosen == {p \in all : Cardinality({q \in all : PairBefore(q, p)}) < Budget}
           list == Ordered(chosen, PairBefore)
           n == Len(list)
           source(p) == Min({l[1] : l \in Backing(ls, p)})
           d == [i \in 1..n |->
                   Rel(list[i][1], RelatedTo, list[i][2], source(list[i]), "active")]
           h == CHOOSE g : Upserts(rels, n, d, g)
<1>1. \A p \in chosen : /\ p \in Keys \X Keys /\ Backing(ls, p) # {}
                        /\ e[p[1]] # Absent /\ e[p[2]] # Absent
  BY DEF Proposals, Absent
<1>2. list \in Seq(chosen)
  <2>1. IsFiniteSet(Keys \X Keys) /\ Keys \X Keys \subseteq Nat \X Nat
    BY GraphAssumption, FS_Product
  <2>2. chosen \in SUBSET (Keys \X Keys)
    BY DEF Proposals
  <2> HIDE DEF chosen
  <2>3. IsFiniteSet(chosen) /\ chosen \subseteq Nat \X Nat
    BY <2>1, <2>2, FS_Subset
  <2>4. QED
    BY <2>3, PairsListed DEF Lists
<1>3. PICK m \in Nat : m = Len(mem)
  BY DEF TypeOK
<1>4. ASSUME NEW p \in chosen PROVE source(p) \in 0..m
  <2> DEFINE T == {l[1] : l \in Backing(ls, p)}
  <2>1. T \subseteq DOMAIN mem /\ DOMAIN mem = 1..m
    BY <1>3 DEF Backing, TypeOK
  <2>2. T # {}
    BY <1>1
  <2> HIDE DEF T
  <2>3. Min(T) \in T
    BY <2>1, <2>2, Least
  <2>4. Min(T) \in 0..m
    BY <2>1, <2>3
  <2>5. QED
    BY <2>4 DEF T
<1>5. n \in Nat /\ \A i \in 1..n : list[i] \in chosen
  <2> HIDE DEF chosen, list
  <2> QED
    BY <1>2
<1>6. PICK rs : rs = rels
  OBVIOUS
<1>7. rs \in Rows(m, e)
  <2>1. PICK en \in EntityTable : en = ent /\ rs \in Rows(m, en)
    BY <1>3, <1>6, RowsAre DEF EntityTable
  <2>2. m <= m /\ \A k \in Keys : en[k] # Absent => e[k] # Absent
    BY <2>1
  <2>3. QED
    BY <2>1, <2>2, RowsGrow
<1> HIDE DEF n, list, chosen, source
<1>8. \A i \in 1..n : /\ d[i] \in RelRow(m)
                      /\ e[d[i].subject] # Absent /\ e[d[i].object] # Absent
  <2> TAKE i \in 1..n
  <2>1. PICK s \in Keys, o \in Keys, j \in 0..m :
          /\ s = list[i][1] /\ o = list[i][2] /\ j = source(list[i])
          /\ e[s] # Absent /\ e[o] # Absent
    BY <1>1, <1>4, <1>5
  <2>2. d[i] = Rel(s, RelatedTo, o, j, "active")
    BY <2>1
  <2> HIDE DEF d
  <2>3. QED
    BY <2>1, <2>2 DEF Rel, RelRow, RelStatuses
<1>9. /\ \E g : Upserts(rs, n, d, g)
      /\ \A g : Upserts(rs, n, d, g) => g[n] \in Rows(m, e)
  <2> HIDE DEF d
  <2> QED
    BY <1>5, <1>7, <1>8, UpsertChain
<1>10. WithProposals(e, ls) = h[n]
  <2>1. \A i \in 1..n :
          /\ d[i].subject = list[i][1] /\ d[i].type = RelatedTo
          /\ d[i].object = list[i][2]
          /\ d[i].memory = source(list[i]) /\ d[i].status = "active"
    BY DEF Rel
  <2> DEFINE One(g, i) ==
               IF i = 0 THEN rels
               ELSE UpsertRel(g[i - 1], d[i].subject, d[i].type, d[i].object, d[i].memory,
                              d[i].status)
             Two(g, i) ==
               IF i = 0 THEN rels
               ELSE UpsertRel(g[i - 1], list[i][1], RelatedTo, list[i][2],
                              source(list[i]), "active")
  <2>2. \A g : \A i \in 0..n : One(g, i) = Two(g, i)
    <3>1. \A i \in 0..n : i = 0 \/ i \in 1..n
      BY <1>5
    <3> HIDE DEF d
    <3>2. QED
      BY <2>1, <3>1
  <2> HIDE DEF d
  <2>3. \A g : Upserts(rels, n, d, g) <=> g = [i \in 0..n |-> Two(g, i)]
    <3>1. \A g : Upserts(rels, n, d, g) <=> g = [i \in 0..n |-> One(g, i)]
      BY DEF Upserts
    <3> HIDE DEF One, Two
    <3>2. QED
      BY <2>2, <3>1
  <2>4. WithProposals(e, ls) = (CHOOSE g : g = [i \in 0..n |-> Two(g, i)])[n]
    BY DEF WithProposals, n, list, chosen, source
  <2> HIDE DEF Two
  <2>5. QED
    BY <2>3, <2>4
<1>11. h[n] \in Rows(m, e)
  <2> HIDE DEF d
  <2> QED
    BY <1>6, <1>9
<1>12. QED
  BY <1>3, <1>10, <1>11

-----------------------------------------------------------------------------
(* Type correctness *)

\* Aliases are written with the row of their entity, or after it.
AliasesOwned == \A k \in Keys : ent[k] = Absent => alias[k] = {}
IInv == TypeOK /\ AliasesOwned

MemoryRow == [key : Keys \cup {NoKey}, tags : SUBSET Tags, active : BOOLEAN]

LEMMA Tables ==
  ASSUME TypeOK
  PROVE  /\ ent \in EntityTable /\ alias \in AliasTable /\ mem \in Seq(MemoryRow)
         /\ rels \in Rows(Len(mem), ent)
         /\ links \subseteq (DOMAIN mem) \X (DOMAIN mem)
         /\ Len(mem) \in Nat /\ DOMAIN mem = 1..Len(mem)
BY RowsAre DEF EntityTable, AliasTable, MemoryRow

\* Tables of the right types over as many memories make the state well typed.
LEMMA TypesFrom ==
  ASSUME ent' \in EntityTable, alias' \in AliasTable, mem' \in Seq(MemoryRow),
         rels' \in Rows(Len(mem'), ent'), links' \subseteq (DOMAIN mem') \X (DOMAIN mem'),
         AliasesOwned'
  PROVE  IInv'
BY RowsAre DEF EntityTable, AliasTable, MemoryRow, IInv, TypeOK, Rows, RelRow

LEMMA InitInv == Init => IInv
<1> SUFFICES ASSUME Init PROVE IInv
  OBVIOUS
<1>1. ent \in EntityTable /\ alias \in AliasTable /\ AliasesOwned
  BY DEF Init, EntityTable, AliasTable, AliasesOwned
<1>2. rels \in Rows(Len(mem), ent)
  BY DEF Init, Rows
<1>3. mem \in Seq(MemoryRow)
  <2>1. \A k \in Subjects, tags \in TagSets :
          [key |-> k, tags |-> tags, active |-> TRUE] \in MemoryRow
    BY GraphAssumption DEF MemoryRow
  <2>2. CASE mem = <<>>
    BY <2>2
  <2>3. CASE \E k \in Subjects, tags \in TagSets :
               mem = <<[key |-> k, tags |-> tags, active |-> TRUE]>>
    BY <2>1, <2>3
  <2>4. QED
    BY <2>2, <2>3 DEF Init
<1>4. QED
  BY <1>1, <1>2, <1>3, RowsAre DEF Init, IInv, EntityTable, AliasTable, MemoryRow

\* Rows stay rows when entities change and none loses its row.
LEMMA RowsStay ==
  ASSUME TypeOK, NEW f, \A k \in Keys : ent[k] # Absent => f[k] # Absent,
         NEW n \in Nat, Len(mem) <= n
  PROVE  rels \in Rows(n, f)
<1>1. PICK rs, e, m : rs = rels /\ e = ent /\ m = Len(mem)
  OBVIOUS
<1>2. rs \in Rows(m, e) /\ m \in Nat /\ m <= n /\ \A k \in Keys : e[k] # Absent => f[k] # Absent
  BY <1>1, Tables
<1>3. rs \in Rows(n, f)
  BY <1>2, RowsGrow
<1>4. QED
  BY <1>1, <1>3

LEMMA EntityInv ==
  ASSUME IInv, NEW r \in EntityRequests, UpsertEntity(r.key, r.name, r.aliases, r.status)
  PROVE  IInv'
<1>1. /\ r.key \in Keys /\ r.name \in Surfaces /\ r.aliases \subseteq Surfaces
      /\ r.status \in EntityStatuses
  BY GraphAssumption DEF EntityRequest, Surfaces
<1>2. PICK row : row = [status |-> r.status, name |-> r.name]
  OBVIOUS
<1>3. row \in Entities
  BY <1>1, <1>2 DEF Entities
<1>4. row # Absent
  BY <1>3, NotAbsent
<1>5. ent' = [ent EXCEPT ![r.key] = row]
  BY <1>2 DEF UpsertEntity, EntityRow
<1>6. alias' = [alias EXCEPT ![r.key] = @ \cup (r.aliases \cup {r.name})]
  BY DEF UpsertEntity, WithAliases
<1>7. UNCHANGED <<rels, mem, links>>
  BY DEF UpsertEntity
<1>8. ent \in EntityTable /\ alias \in AliasTable
  BY Tables DEF IInv
<1>9. ent' \in EntityTable /\ alias' \in AliasTable
  BY <1>1, <1>3, <1>5, <1>6, <1>8 DEF EntityTable, AliasTable
<1>10. \A k \in Keys : ent[k] # Absent => ent'[k] # Absent
  BY <1>4, <1>5, <1>8 DEF EntityTable
<1>11. AliasesOwned'
  <2>1. \A k \in Keys : k # r.key => ent'[k] = ent[k] /\ alias'[k] = alias[k]
    BY <1>5, <1>6, <1>8 DEF EntityTable, AliasTable
  <2>2. ent'[r.key] # Absent
    BY <1>1, <1>4, <1>5, <1>8 DEF EntityTable
  <2>3. QED
    BY <2>1, <2>2 DEF IInv, AliasesOwned
<1>12. rels' \in Rows(Len(mem'), ent')
  <2>1. PICK f : f = ent'
    OBVIOUS
  <2>2. Len(mem) \in Nat
    BY Tables DEF IInv
  <2>3. rels \in Rows(Len(mem), f)
    BY <1>10, <2>1, <2>2, RowsStay DEF IInv
  <2>4. QED
    BY <1>7, <2>1, <2>3
<1>13. QED
  BY <1>7, <1>9, <1>11, <1>12, Tables, TypesFrom DEF IInv

LEMMA EdgeInv ==
  ASSUME IInv, NEW r \in EdgeRequests,
         UpsertRelationship(r.subject, r.type, r.object, r.memory, r.status)
  PROVE  IInv'
<1>1. /\ r.subject \in Keys /\ r.type \in Types \cup {RelatedTo} /\ r.object \in Keys
      /\ r.status \in RelStatuses
  BY GraphAssumption DEF EdgeRequest
<1>2. PICK rs, e, m : rs = rels /\ e = ent /\ m = Len(mem)
  OBVIOUS
<1>3. rs \in Rows(m, e) /\ m \in Nat /\ DOMAIN mem = 1..m
  BY <1>2, Tables DEF IInv
<1>4. r.memory \in 0..m
  BY <1>3 DEF UpsertRelationship, NoMemory
<1>5. e[r.subject] # Absent /\ e[r.object] # Absent
  BY <1>2 DEF UpsertRelationship, Known
<1>6. UpsertRel(rs, r.subject, r.type, r.object, r.memory, r.status) \in Rows(m, e)
  BY <1>1, <1>3, <1>4, <1>5, UpsertRows
<1>7. rels' \in Rows(Len(mem'), ent')
  BY <1>2, <1>6 DEF UpsertRelationship
<1>8. QED
  BY <1>7, Tables, TypesFrom DEF IInv, AliasesOwned, UpsertRelationship

LEMMA MergeInv ==
  ASSUME IInv, NEW from \in Keys, NEW into \in Keys, MergeEntity(from, into)
  PROVE  IInv'
<1>1. ent \in EntityTable /\ alias \in AliasTable
  BY Tables DEF IInv
<1>2. ent[from].status = "active" /\ ent[into].status = "active" /\ from # into
  BY DEF MergeEntity
<1>3. ent[from] # Absent /\ ent[into] # Absent /\ ent[from] \in Entities
  BY <1>1, <1>2 DEF Absent, EntityTable
<1>4. PICK row : row = [ent[from] EXCEPT !.status = "tombstoned"]
  OBVIOUS
<1>5. row \in Entities /\ row # Absent
  <2>1. row \in Entities
    BY <1>3, <1>4 DEF Entities, EntityStatuses
  <2>2. QED
    BY <2>1, NotAbsent
<1>6. ent' = [ent EXCEPT ![from] = row]
  BY <1>4 DEF MergeEntity
<1>7. alias' = [alias EXCEPT ![into] = @ \cup Carried(from)]
  BY DEF MergeEntity, WithAliases
<1>8. Carried(from) \subseteq Surfaces
  <2>1. ent[from].name \in Surfaces
    BY <1>3 DEF Entities
  <2>2. QED
    BY <1>1, <2>1 DEF Carried, Surfaces, AliasTable
<1>9. ent' \in EntityTable /\ alias' \in AliasTable
  BY <1>1, <1>5, <1>6, <1>7, <1>8 DEF EntityTable, AliasTable
<1>10. \A k \in Keys : ent[k] # Absent => ent'[k] # Absent
  BY <1>1, <1>5, <1>6 DEF EntityTable
<1>11. AliasesOwned'
  <2> SUFFICES ASSUME NEW k \in Keys, ent'[k] = Absent PROVE alias'[k] = {}
    BY DEF AliasesOwned
  <2>1. k # into /\ ent[k] = Absent
    BY <1>1, <1>3, <1>5, <1>6 DEF EntityTable
  <2>2. alias'[k] = alias[k]
    BY <1>1, <1>7, <2>1 DEF AliasTable
  <2>3. QED
    BY <2>1, <2>2 DEF IInv, AliasesOwned
<1>12. rels' \in Rows(Len(mem'), ent')
  <2>1. PICK rs, e, f, m : rs = rels' /\ e = ent /\ f = ent' /\ m = Len(mem)
    OBVIOUS
  <2>2. rs \in Rows(m, e)
    BY <1>2, <1>3, <2>1, MergeContracts DEF MergeEntity, IInv
  <2>3. m \in Nat /\ m <= m /\ \A k \in Keys : e[k] # Absent => f[k] # Absent
    BY <1>10, <2>1, Tables DEF IInv
  <2>4. rs \in Rows(m, f)
    BY <2>2, <2>3, RowsGrow
  <2>5. QED
    BY <2>1, <2>4 DEF MergeEntity
<1>13. QED
  BY <1>9, <1>11, <1>12, Tables, TypesFrom DEF IInv, MergeEntity

\* A projection gives the entity a row, and touches no other.
LEMMA ProjectedIs ==
  ASSUME NEW e \in EntityTable, NEW k \in Keys
  PROVE  /\ Projected(e, k) \in EntityTable
         /\ Projected(e, k)[k] # Absent
         /\ \A j \in Keys : j # k => Projected(e, k)[j] = e[j]
         /\ \A j \in Keys : e[j] # Absent => Projected(e, k)[j] # Absent
<1> DEFINE status == IF e[k] = Absent THEN "active" ELSE e[k].status
<1>1. PICK row : row = [status |-> status, name |-> DerivedName[k]]
  OBVIOUS
<1>2. status \in EntityStatuses
  <2>1. e[k] = Absent \/ e[k] \in Entities
    BY DEF EntityTable
  <2>2. QED
    BY <2>1 DEF Entities, EntityStatuses
<1>3. row \in Entities /\ row # Absent
  <2>1. row \in Entities
    BY <1>1, <1>2, GraphAssumption DEF Entities, Surfaces
  <2>2. QED
    BY <2>1, NotAbsent
<1>4. Projected(e, k) = [e EXCEPT ![k] = row]
  BY <1>1 DEF Projected, EntityRow
<1>5. QED
  BY <1>3, <1>4 DEF EntityTable

LEMMA SubjectIs ==
  ASSUME TypeOK, NEW key \in Subjects
  PROVE  /\ WithSubject(key) \in EntityTable
         /\ \A k \in Keys : ent[k] # Absent => WithSubject(key)[k] # Absent
<1>1. PICK e \in EntityTable : e = ent
  BY Tables
<1>2. CASE key = NoKey
  BY <1>1, <1>2 DEF WithSubject
<1>3. CASE key # NoKey
  <2>1. key \in Keys
    BY <1>3, GraphAssumption
  <2>2. WithSubject(key) = Projected(e, key)
    BY <1>1, <1>3 DEF WithSubject
  <2>3. QED
    BY <1>1, <2>1, <2>2, ProjectedIs
<1>4. QED
  BY <1>2, <1>3

\* Whom a capture does not resolve to, it leaves as it is.
LEMMA Untouched ==
  ASSUME NEW e, NEW a, NEW c, NEW r \in Keys,
         \A k \in CapturedKeys(c) : Resolved(e, a, c, k) # r
  PROVE  /\ CapturedEntities(e, a, c)[r] = e[r]
         /\ CapturedAliases(e, a, c)[r] = a[r]
<1>1. CapturedEntities(e, a, c)[r] = e[r]
  BY DEF CapturedEntities
<1>2. {k \in CapturedKeys(c) : Resolved(e, a, c, k) = r} = {}
  OBVIOUS
<1>3. QED
  BY <1>1, <1>2 DEF CapturedAliases

LEMMA RememberInv ==
  ASSUME IInv, NEW key \in Subjects, NEW tags \in TagSets, NEW c \in Captures \cup {NoCapture},
         Remember(key, tags, c)
  PROVE  IInv'
<1>1. PICK e \in EntityTable : e = WithSubject(key)
  BY SubjectIs DEF IInv
<1>2. \A k \in Keys : ent[k] # Absent => e[k] # Absent
  BY <1>1, SubjectIs DEF IInv
<1>3. PICK m \in Nat : m = Len(mem) + 1
  BY Tables DEF IInv
<1>4. mem' \in Seq(MemoryRow) /\ Len(mem') = m /\ DOMAIN mem \subseteq DOMAIN mem'
  <2>1. PICK row : row = [key |-> key, tags |-> tags, active |-> TRUE]
    OBVIOUS
  <2>2. row \in MemoryRow
    BY <2>1, GraphAssumption DEF MemoryRow
  <2>3. mem' = Append(mem, row)
    BY <2>1 DEF Remember
  <2>4. mem \in Seq(MemoryRow)
    BY Tables DEF IInv
  <2>5. QED
    BY <1>3, <2>2, <2>3, <2>4
<1>5. links' \subseteq (DOMAIN mem') \X (DOMAIN mem')
  <2>1. links' = links /\ links \subseteq (DOMAIN mem) \X (DOMAIN mem)
    BY Tables DEF IInv, Remember
  <2>2. QED
    BY <1>4, <2>1
<1>6. alias \in AliasTable
  BY Tables DEF IInv
<1>7. CASE c = NoCapture /\ ent' = e /\ UNCHANGED <<alias, rels>>
  <2>1. AliasesOwned'
    BY <1>2, <1>7 DEF IInv, AliasesOwned
  <2>2. rels \in Rows(m, e)
    <3>1. Len(mem) <= m
      BY <1>3, Tables DEF IInv
    <3>2. QED
      BY <1>2, <3>1, RowsStay DEF IInv
  <2>3. QED
    BY <1>4, <1>5, <1>6, <1>7, <2>1, <2>2, TypesFrom
<1>8. CASE /\ c # NoCapture /\ WellFormed(c)
           /\ Acceptable(e, alias, c)
           /\ ent' = CapturedEntities(e, alias, c)
           /\ alias' = CapturedAliases(e, alias, c)
           /\ rels' = CapturedRels(e, alias, c, m)
  <2>1. PICK a \in AliasTable : a = alias
    BY <1>6
  <2>2. c \in Captures
    BY <1>8
  <2>3. /\ CapturedEntities(e, a, c) \in EntityTable
        /\ CapturedAliases(e, a, c) \in AliasTable
        /\ \A k \in Keys : e[k] # Absent => CapturedEntities(e, a, c)[k] # Absent
        /\ \A k \in CapturedKeys(c) :
             CapturedEntities(e, a, c)[Resolved(e, a, c, k)] # Absent
    BY <2>2, CapturedTables
  <2>4. CapturedRels(e, a, c, m) \in Rows(m, CapturedEntities(e, a, c))
    BY <1>2, <1>3, <1>8, <2>2, CapturedRows DEF IInv
  <2>5. AliasesOwned'
    <3> SUFFICES ASSUME NEW r \in Keys, ent'[r] = Absent PROVE alias'[r] = {}
      BY DEF AliasesOwned
    <3>1. \A k \in CapturedKeys(c) : Resolved(e, a, c, k) # r
      BY <1>8, <2>1, <2>3
    <3>2. ent'[r] = e[r] /\ alias'[r] = a[r]
      BY <1>8, <2>1, <3>1, Untouched
    <3>3. ent[r] = Absent
      BY <1>2, <3>2
    <3>4. QED
      BY <2>1, <3>2, <3>3 DEF IInv, AliasesOwned
  <2>6. ent' \in EntityTable /\ alias' \in AliasTable /\ rels' \in Rows(Len(mem'), ent')
    BY <1>4, <1>8, <2>1, <2>3, <2>4
  <2>7. QED
    BY <1>4, <1>5, <2>5, <2>6, TypesFrom
<1>9. QED
  BY <1>1, <1>3, <1>7, <1>8 DEF Remember

LEMMA RetireInv ==
  ASSUME IInv, NEW m \in DOMAIN mem, Retire(m)
  PROVE  IInv'
<1>1. PICK row : row = [mem[m] EXCEPT !.active = FALSE]
  OBVIOUS
<1>2. mem \in Seq(MemoryRow) /\ mem' = [mem EXCEPT ![m] = row]
  BY <1>1, Tables DEF IInv, Retire
<1>3. mem[m] \in MemoryRow
  BY <1>2
<1>4. row \in MemoryRow
  BY <1>1, <1>3 DEF MemoryRow
<1>5. mem' \in Seq(MemoryRow) /\ Len(mem') = Len(mem) /\ DOMAIN mem' = DOMAIN mem
  BY <1>2, <1>4
<1>6. UNCHANGED <<ent, alias, rels, links>>
  BY DEF Retire
<1>7. AliasesOwned'
  BY <1>6 DEF IInv, AliasesOwned
<1>8. rels' \in Rows(Len(mem'), ent') /\ links' \subseteq (DOMAIN mem') \X (DOMAIN mem')
  BY <1>5, <1>6, Tables DEF IInv
<1>9. QED
  BY <1>5, <1>6, <1>7, <1>8, Tables, TypesFrom DEF IInv

LEMMA StagedIs ==
  ASSUME TypeOK
  PROVE  /\ Staged \in EntityTable
         /\ \A k \in Keys : ent[k] # Absent => Staged[k] # Absent
<1>1. PICK e \in EntityTable : e = ent
  BY Tables
<1>2. \A k \in Keys : /\ Projected(e, k)[k] \in {Absent} \cup Entities
                      /\ Projected(e, k)[k] # Absent
  BY ProjectedIs DEF EntityTable
<1>3. Staged = [k \in Keys |-> IF k \in Lowest(Budget, Missing) THEN Projected(e, k)[k] ELSE e[k]]
  BY <1>1 DEF Staged
<1>4. \A k \in Keys : e[k] \in {Absent} \cup Entities
  BY DEF EntityTable
<1>5. Staged \in EntityTable
  BY <1>2, <1>3, <1>4 DEF EntityTable
<1>6. QED
  BY <1>1, <1>2, <1>3, <1>5

\* The end of the graph task retires orphans; they keep their rows.
LEMMA OrphansRetired ==
  ASSUME NEW e \in EntityTable, NEW S, \A k \in S : k \in Keys => e[k] \in Entities,
         NEW f, f = [k \in Keys |-> IF k \in S THEN [e[k] EXCEPT !.status = "tombstoned"]
                                    ELSE e[k]]
  PROVE  /\ f \in EntityTable
         /\ \A k \in Keys : e[k] # Absent => f[k] # Absent
<1>1. \A x \in Entities : [x EXCEPT !.status = "tombstoned"] \in Entities
  BY DEF Entities, EntityStatuses
<1>2. \A k \in Keys : e[k] \in {Absent} \cup Entities
  BY DEF EntityTable
<1>3. \A k \in Keys : k \in S => f[k] \in Entities
  BY <1>1
<1>4. \A k \in Keys : k \notin S => f[k] = e[k]
  OBVIOUS
<1>5. f \in EntityTable
  BY <1>2, <1>3, <1>4 DEF EntityTable
<1>6. QED
  BY <1>3, <1>4, <1>5, NotAbsent

LEMMA DreamInv ==
  ASSUME IInv, NEW tasks \in SUBSET {"link", "graph"}, Dream(tasks)
  PROVE  IInv'
<1>1. UNCHANGED <<alias, mem>>
  BY DEF Dream
<1>2. links' \subseteq (DOMAIN mem) \X (DOMAIN mem)
  <2>1. NewLinks \subseteq (DOMAIN mem) \X (DOMAIN mem)
    BY DEF NewLinks, LinkCandidates, Taggable
  <2>2. links \subseteq (DOMAIN mem) \X (DOMAIN mem)
    BY Tables DEF IInv
  <2>3. links' = links \/ links' = links \cup NewLinks
    BY DEF Dream
  <2>4. QED
    BY <2>1, <2>2, <2>3
<1>3. ASSUME ent' \in EntityTable,
             \A k \in Keys : ent[k] # Absent => ent'[k] # Absent,
             rels' \in Rows(Len(mem'), ent')
      PROVE  IInv'
  <2>1. AliasesOwned'
    BY <1>1, <1>3 DEF IInv, AliasesOwned
  <2>2. alias' \in AliasTable /\ mem' \in Seq(MemoryRow)
        /\ links' \subseteq (DOMAIN mem') \X (DOMAIN mem')
    BY <1>1, <1>2, Tables DEF IInv
  <2>3. QED
    BY <1>3, <2>1, <2>2, TypesFrom
<1>4. CASE "graph" \in tasks
  <2>1. GraphTask(links')
    BY <1>4 DEF Dream
  <2>20. Staged \in EntityTable /\ Len(mem) \in Nat
    BY StagedIs, Tables DEF IInv
  <2>21. PICK e \in EntityTable : e = Staged
    BY <2>20
  <2>22. PICK ls : ls = links'
    OBVIOUS
  <2>23. PICK m \in Nat : m = Len(mem)
    BY <2>20
  <2>2. e = Staged /\ ls = links' /\ m = Len(mem)
    BY <2>21, <2>22, <2>23
  <2>3. \A k \in Keys : ent[k] # Absent => e[k] # Absent
    BY <2>2, StagedIs DEF IInv
  <2>4. WithProposals(e, ls) \in Rows(m, e)
    BY <1>2, <2>2, <2>3, ProposedRows DEF IInv
  <2>5. PICK ids, rs : /\ ids = Lowest(Budget, Dangling(e)) \cup Lowest(Budget, Unsupported)
                       /\ rs = WithProposals(e, ls)
    OBVIOUS
  <2>6. rels' = Tombstone(rs, ids)
    BY <2>1, <2>2, <2>5 DEF GraphTask
  <2>7. Tombstone(rs, ids) \in Rows(m, e)
    BY <2>4, <2>5, TombstoneRows
  <2>8. PICK f, S : f = ent' /\ S = Lowest(Budget, Orphans(e))
    OBVIOUS
  <2>9. f = [k \in Keys |-> IF k \in S THEN [e[k] EXCEPT !.status = "tombstoned"] ELSE e[k]]
    BY <2>1, <2>2, <2>8 DEF GraphTask
  <2>10. \A k \in S : k \in Keys => e[k] \in Entities
    <3>1. \A k \in S : e[k].status = "active"
      BY <2>8 DEF Lowest, Orphans
    <3>2. \A k \in Keys : e[k] \in {Absent} \cup Entities
      BY DEF EntityTable
    <3>3. QED
      BY <3>1, <3>2 DEF Absent
  <2>11. f \in EntityTable /\ \A k \in Keys : e[k] # Absent => f[k] # Absent
    BY <2>9, <2>10, OrphansRetired
  <2>12. PICK ts : ts = Tombstone(rs, ids)
    OBVIOUS
  <2>13. ts \in Rows(m, e) /\ m <= m
    BY <2>7, <2>12
  <2>14. ts \in Rows(m, f)
    BY <2>11, <2>13, RowsGrow
  <2>15. rels' \in Rows(Len(mem'), ent')
    <3>1. rels' = ts
      BY <2>6, <2>12
    <3>2. Len(mem') = m /\ ent' = f
      BY <1>1, <2>2, <2>8
    <3>3. QED
      BY <2>14, <3>1, <3>2
  <2>16. ent' \in EntityTable /\ \A k \in Keys : ent[k] # Absent => ent'[k] # Absent
    BY <2>3, <2>8, <2>11
  <2>17. QED
    BY <1>3, <2>15, <2>16
<1>5. CASE "graph" \notin tasks
  <2>1. UNCHANGED <<ent, rels>>
    BY <1>5 DEF Dream
  <2>2. ent' \in EntityTable /\ rels' \in Rows(Len(mem'), ent')
    BY <1>1, <2>1, Tables DEF IInv
  <2>3. QED
    BY <1>3, <2>1, <2>2
<1>6. QED
  BY <1>4, <1>5

LEMMA NextInv == IInv /\ [Next]_vars => IInv'
<1> SUFFICES ASSUME IInv, [Next]_vars PROVE IInv'
  OBVIOUS
<1>1. CASE \E r \in EntityRequests : UpsertEntity(r.key, r.name, r.aliases, r.status)
  BY <1>1, EntityInv
<1>2. CASE \E r \in EdgeRequests :
             UpsertRelationship(r.subject, r.type, r.object, r.memory, r.status)
  BY <1>2, EdgeInv
<1>3. CASE \E from, into \in Keys : MergeEntity(from, into)
  BY <1>3, MergeInv
<1>4. CASE \E key \in Subjects, tags \in TagSets, c \in Captures \cup {NoCapture} :
             Remember(key, tags, c)
  BY <1>4, RememberInv
<1>5. CASE \E m \in DOMAIN mem : Retire(m)
  BY <1>5, RetireInv
<1>6. CASE \E tasks \in SUBSET {"link", "graph"} : Dream(tasks)
  BY <1>6, DreamInv
<1>7. CASE UNCHANGED vars
  BY <1>7 DEF vars, IInv, TypeOK, AliasesOwned, Alive
<1>8. QED
  BY <1>1, <1>2, <1>3, <1>4, <1>5, <1>6, <1>7 DEF Next

THEOREM Invariant == Spec => []IInv
  BY InitInv, NextInv, PTL DEF Spec

\* The tables are well typed whatever is upserted, merged, captured, retired and
\* dreamt: no relationship ever names an entity without a row, or a memory that
\* was not written.
THEOREM TypeCorrect == Spec => []TypeOK
<1>1. IInv => TypeOK
  BY DEF IInv
<1>2. QED
  BY <1>1, Invariant, PTL

-----------------------------------------------------------------------------
(* Merges *)

\* A page of a page of a list is empty only when the list is.
LEMMA OnePage ==
  ASSUME NEW T, NEW n \in Nat, NEW hits \in [1..n -> T],
         NEW a \in Nat, NEW b \in Nat, 1 <= a, 1 <= b
  PROVE  /\ Len(hits) = n
         /\ AtMost(a, AtMost(b, SubSeq(hits, 1, n))) # <<>> <=> n # 0
<1>1. hits \in Seq(T) /\ Len(hits) = n
  OBVIOUS
<1>2. PICK s : s = SubSeq(hits, 1, n)
  OBVIOUS
<1>3. s \in Seq(T) /\ DOMAIN s = 1..n
  BY <1>1, <1>2
<1>4. ASSUME NEW t \in Seq(T), NEW k \in Nat, 1 <= k
      PROVE  AtMost(k, t) \in Seq(T) /\ (1 \in DOMAIN AtMost(k, t) <=> 1 \in DOMAIN t)
  <2>1. PICK r : r = AtMost(k, t)
    OBVIOUS
  <2>2. /\ AtMost(k, t) \in Seq(T)
        /\ DOMAIN AtMost(k, t) = {i \in DOMAIN t : i <= k}
        /\ \A i \in DOMAIN AtMost(k, t) : AtMost(k, t)[i] = t[i]
    BY FirstEntries
  <2>3. r \in Seq(T) /\ DOMAIN r = {i \in DOMAIN t : i <= k}
    BY <2>1, <2>2, Zenon
  <2>4. QED
    BY <1>4, <2>1, <2>3
<1>5. PICK rows : rows = AtMost(b, s)
  OBVIOUS
<1>6. rows \in Seq(T) /\ (1 \in DOMAIN rows <=> 1 \in DOMAIN s)
  BY <1>3, <1>4, <1>5
<1>7. PICK page : page = AtMost(a, rows)
  OBVIOUS
<1>8. page \in Seq(T) /\ (1 \in DOMAIN page <=> 1 \in DOMAIN rows)
  BY <1>4, <1>6, <1>7
<1>9. page # <<>> <=> 1 \in DOMAIN page
  <2>1. page \in Seq(T)
    BY <1>8
  <2>2. QED
    BY <2>1
<1>10. 1 \in DOMAIN page <=> n # 0
  BY <1>3, <1>6, <1>8
<1>11. QED
  BY <1>1, <1>2, <1>5, <1>7, <1>9, <1>10

\* A search for one active entity finds one exactly when some active entity has
\* the name, whatever the order of the hits.
NamedByAny(q) ==
  \E k \in Keys : ent[k].status = "active" /\ q \in {k, ent[k].name} \cup alias[k]

FindsByName == \A q : Findable(q) <=> NamedByAny(q)

Hits(q) == {k \in Keys : ent[k].status \in {"active"} /\ q \in {k, ent[k].name} \cup alias[k]}

LEMMA Found == FindsByName
<1> SUFFICES ASSUME NEW q PROVE Findable(q) <=> NamedByAny(q)
  BY DEF FindsByName
<1>1. IsFiniteSet(Hits(q))
  BY GraphAssumption, FS_Subset DEF Hits
<1>2. Cardinality(Hits(q)) \in Nat /\ (Cardinality(Hits(q)) = 0 <=> Hits(q) = {})
  BY <1>1, FS_CardinalityType, FS_EmptySet
<1>3. PICK n \in Nat : n = Cardinality(Hits(q))
  BY <1>2
<1>4. PICK hits : hits = SearchHits(q, {"active"})
  OBVIOUS
<1>5. \E T : hits \in [1..n -> T]
  <2> DEFINE before(j, k) ==
               \/ StatusOrder[ent[j].status] < StatusOrder[ent[k].status]
               \/ ent[j].status = ent[k].status /\ j < k
             place == [x \in Hits(q) |-> 1 + Cardinality({y \in Hits(q) : before(y, x)})]
             hit(i) == CHOOSE x \in Hits(q) : place[x] = i
  <2>1. hits = [i \in 1..Cardinality(Hits(q)) |-> hit(i)]
    BY <1>4, Zenon DEF SearchHits, Ordered, Hits
  <2> HIDE DEF hit
  <2>2. hits \in [1..n -> {hit(i) : i \in 1..n}]
    BY <1>3, <2>1
  <2>3. QED
    BY <2>2
<1>6. /\ Len(hits) = n
      /\ AtMost(1, AtMost(2, SubSeq(hits, 1, n))) # <<>> <=> n # 0
  <2>1. PICK a \in Nat, b \in Nat : a = 1 /\ b = 2
    OBVIOUS
  <2>2. 1 <= a /\ 1 <= b
    BY <2>1
  <2>3. Len(hits) = n /\ (AtMost(a, AtMost(b, SubSeq(hits, 1, n))) # <<>> <=> n # 0)
    BY <1>5, <2>2, OnePage
  <2>4. QED
    BY <2>1, <2>3
<1>7. Findable(q) <=> AtMost(1, AtMost(2, SubSeq(hits, 1, n))) # <<>>
  <2>1. 0 + 1 = 1 /\ 1 + 1 = 2
    OBVIOUS
  <2>2. QED
    BY <1>4, <1>6, <2>1, Zenon DEF Findable, SearchEntities
<1>8. NamedByAny(q) <=> Hits(q) # {}
  BY DEF NamedByAny, Hits
<1>9. QED
  BY <1>2, <1>3, <1>6, <1>7, <1>8

\* The target of a merge is called what the source was called; the others keep
\* their rows.
LEMMA NamesCarried ==
  ASSUME TypeOK, NEW from \in Keys, NEW into \in Keys, MergeEntity(from, into),
         NEW q, NamedByAny(q)
  PROVE  NamedByAny(q)'
<1>1. PICK k \in Keys : ent[k].status = "active" /\ q \in {k, ent[k].name} \cup alias[k]
  BY DEF NamedByAny
<1>2. /\ from # into /\ ent[into].status = "active"
      /\ ent' = [ent EXCEPT ![from].status = "tombstoned"]
      /\ alias' = [alias EXCEPT ![into] = @ \cup Carried(from)]
  BY DEF MergeEntity, WithAliases
<1>3. ent \in EntityTable /\ alias \in AliasTable
  BY Tables
<1>4. ent'[into] = ent[into] /\ alias'[into] = alias[into] \cup Carried(from)
  BY <1>2, <1>3 DEF EntityTable, AliasTable
<1>5. CASE k = from
  <2>1. q \in alias'[into]
    BY <1>1, <1>4, <1>5 DEF Carried
  <2>2. QED
    BY <1>2, <1>4, <2>1 DEF NamedByAny
<1>6. CASE k # from
  <2>1. ent'[k] = ent[k] /\ alias[k] \subseteq alias'[k]
    BY <1>2, <1>3, <1>6 DEF EntityTable, AliasTable
  <2>2. QED
    BY <1>1, <2>1 DEF NamedByAny
<1>7. QED
  BY <1>5, <1>6

\* However often entities are upserted, merged, captured and retired, a merge
\* only contracts the graph, and no search that found an active entity before
\* it comes back empty.
THEOREM MergesAlwaysKeepGraph == Spec => MergesKeepGraph
<1> DEFINE Contracts(from, into) == MergeEntity(from, into) => LiveTriples' = Contracted(from, into)
           Keeps(from, into) ==
             MergeEntity(from, into) =>
               \A query \in Surfaces : Findable(query) => Findable(query)'
<1>1. ASSUME TypeOK, NEW from \in Keys, NEW into \in Keys, MergeEntity(from, into)
      PROVE  LiveTriples' = Contracted(from, into)
  <2>1. from # into /\ ent[into] # Absent /\ rels' = Relinked(from, into)
    BY <1>1 DEF MergeEntity, Absent
  <2>2. {Triple(Relinked(from, into)[i]) : i \in Live(Relinked(from, into))} = Contracted(from, into)
    BY <1>1, <2>1, MergeContracts
  <2>3. QED
    BY <2>1, <2>2 DEF LiveTriples, Live
<1>2. FindsByName /\ FindsByName'
  BY Found, PTL
<1>3. ASSUME TypeOK, NEW from \in Keys, NEW into \in Keys, MergeEntity(from, into)
      PROVE  \A query \in Surfaces : Findable(query) => Findable(query)'
  <2> SUFFICES ASSUME NEW query \in Surfaces, Findable(query) PROVE Findable(query)'
    OBVIOUS
  <2>1. NamedByAny(query)
    BY <1>2 DEF FindsByName
  <2>2. NamedByAny(query)'
    BY <1>3, <2>1, NamesCarried
  <2>3. QED
    BY <1>2, <2>2 DEF FindsByName
<1>4. TypeOK => \A from, into \in Keys : Contracts(from, into)
  BY <1>1
<1>5. TypeOK => \A from, into \in Keys : Keeps(from, into)
  BY <1>3
<1>6. Spec => MergesContract
  BY <1>4, TypeCorrect, PTL DEF MergesContract
<1>7. Spec => MergeKeepsNames
  BY <1>5, TypeCorrect, PTL DEF MergeKeepsNames
<1>8. QED
  BY <1>6, <1>7 DEF MergesKeepGraph

-----------------------------------------------------------------------------
(* Names *)

LEMMA OnlyOne ==
  ASSUME NEW S, IsFiniteSet(S), Cardinality(S) <= 1, NEW x \in S
  PROVE  S = {x}
<1>1. {x} \in SUBSET S
  OBVIOUS
<1>2. Cardinality({x}) = 1 /\ Cardinality({x}) <= Cardinality(S)
  BY <1>1, FS_Singleton, FS_Subset
<1>3. Cardinality(S) \in Nat
  BY FS_CardinalityType
<1>4. Cardinality(S) = Cardinality({x})
  BY <1>2, <1>3
<1>5. QED
  BY <1>1, <1>4, FS_Subset

\* The entity that a captured key resolves to.
LEMMA CapturedIs ==
  ASSUME NEW e, NEW a, NEW c, Acceptable(e, a, c),
         NEW k \in CapturedKeys(c), NEW r \in Keys, r = Resolved(e, a, c, k)
  PROVE  /\ CapturedEntities(e, a, c)[r].status = "active"
         /\ e[r].status = "active" => CapturedEntities(e, a, c)[r].name = e[r].name
         /\ e[r].status # "active" => CapturedEntities(e, a, c)[r].name = c.name[k]
         /\ CapturedAliases(e, a, c)[r]
              = a[r] \cup CaptureSurfaces(c, k) \cup {CapturedEntities(e, a, c)[r].name}
<1>1. \A j \in CapturedKeys(c) : Resolved(e, a, c, j) = r => j = k
  BY DEF Acceptable
<1>2. {j \in CapturedKeys(c) : Resolved(e, a, c, j) = r} = {k}
  BY <1>1
<1>3. (CHOOSE j \in CapturedKeys(c) : Resolved(e, a, c, j) = r) = k
  BY <1>1
<1>4. CapturedEntities(e, a, c)[r]
        = [status |-> "active",
           name |-> IF e[r].status = "active" THEN e[r].name ELSE c.name[k]]
  BY <1>3, Zenon DEF CapturedEntities
<1>5. CapturedAliases(e, a, c)[r]
        = a[r] \cup CaptureSurfaces(c, k) \cup {CapturedEntities(e, a, c)[r].name}
  <2>1. CapturedAliases(e, a, c)[r]
          = a[r] \cup UNION {CaptureSurfaces(c, j) \cup {CapturedEntities(e, a, c)[r].name} :
                               j \in {j \in CapturedKeys(c) : Resolved(e, a, c, j) = r}}
    BY Zenon DEF CapturedAliases
  <2>2. PICK f : f = CapturedEntities(e, a, c)[r].name
    OBVIOUS
  <2>3. UNION {CaptureSurfaces(c, j) \cup {f} : j \in {k}} = CaptureSurfaces(c, k) \cup {f}
    OBVIOUS
  <2>4. QED
    BY <1>2, <2>1, <2>2, <2>3
<1>6. QED
  BY <1>4, <1>5

\* A new captured key makes an entity, or joins the only one that its surfaces
\* name.
LEMMA Joins ==
  ASSUME NEW e, NEW a, NEW c, Acceptable(e, a, c),
         NEW k \in CapturedKeys(c), k \in Keys, e[k] = Absent
  PROVE  \/ Resolved(e, a, c, k) = k /\ Matches(e, a, c, k) = {}
         \/ /\ Matches(e, a, c, k) = {Resolved(e, a, c, k)}
            /\ e[Resolved(e, a, c, k)].status = "active"
<1>1. e[k].status # "active"
  BY DEF Absent
<1>2. Cardinality(Matches(e, a, c, k)) <= 1
  BY <1>1 DEF Acceptable
<1>3. \A j \in Matches(e, a, c, k) : j \in Keys /\ e[j].status = "active"
  BY ResolvedIs
<1>4. IsFiniteSet(Matches(e, a, c, k))
  BY <1>3, GraphAssumption, FS_Subset
<1>5. CASE Matches(e, a, c, k) = {}
  BY <1>5, ResolvedIs
<1>6. CASE Matches(e, a, c, k) # {}
  <2>1. Resolved(e, a, c, k) \in Matches(e, a, c, k)
    BY <1>1, <1>6, ResolvedIs
  <2>2. QED
    BY <1>2, <1>3, <1>4, <2>1, OnlyOne
<1>7. QED
  BY <1>5, <1>6

\* Whoever a name comes to belong to through a capture of new keys has it from
\* the capture, and nobody had it before.
LEMMA NewlyNamed ==
  ASSUME NEW e, NEW a, NEW c, Acceptable(e, a, c), CapturedKeys(c) \subseteq Keys,
         \A k \in CapturedKeys(c) : e[k] = Absent /\ a[k] = {} /\ Named(e, a, k) = {},
         NEW s,
         NEW r \in Named(CapturedEntities(e, a, c), CapturedAliases(e, a, c), s),
         r \notin Named(e, a, s)
  PROVE  /\ Named(e, a, s) = {}
         /\ \E k \in CapturedKeys(c) :
              r = Resolved(e, a, c, k) /\ s \in {k} \cup CaptureSurfaces(c, k)
<1> DEFINE f == CapturedEntities(e, a, c)
           b == CapturedAliases(e, a, c)
<1>1. r \in Keys /\ f[r].status = "active" /\ s \in {r, f[r].name} \cup b[r]
  BY DEF Named
<1>2. PICK k \in CapturedKeys(c) : Resolved(e, a, c, k) = r
  <2>1. SUFFICES ASSUME \A k \in CapturedKeys(c) : Resolved(e, a, c, k) # r PROVE FALSE
    OBVIOUS
  <2>2. f[r] = e[r] /\ b[r] = a[r]
    BY <1>1, <2>1, Untouched
  <2>3. QED
    BY <1>1, <2>2 DEF Named
<1>3. /\ e[r].status = "active" => f[r].name = e[r].name
      /\ e[r].status # "active" => f[r].name = c.name[k]
      /\ b[r] = a[r] \cup CaptureSurfaces(c, k) \cup {f[r].name}
  BY <1>1, <1>2, CapturedIs
<1>4. c.name[k] \in CaptureSurfaces(c, k)
  BY DEF CaptureSurfaces
<1>5. \A t \in CaptureSurfaces(c, k) : Named(e, a, t) \subseteq Matches(e, a, c, k)
  BY DEF Matches
<1> HIDE DEF f, b
<1>6. CASE r = k /\ Matches(e, a, c, k) = {}
  <2>1. e[r].status # "active" /\ a[r] = {}
    BY <1>2, <1>6 DEF Absent
  <2>2. s \in {k} \cup CaptureSurfaces(c, k)
    BY <1>1, <1>3, <1>4, <1>6, <2>1
  <2>3. Named(e, a, s) = {}
    BY <1>2, <1>5, <1>6, <2>2
  <2>4. QED
    BY <1>2, <2>2, <2>3
<1>7. CASE Matches(e, a, c, k) = {r} /\ e[r].status = "active"
  <2>1. s \notin {r, e[r].name} \cup a[r]
    BY <1>1, <1>7 DEF Named
  <2>2. s \in CaptureSurfaces(c, k)
    BY <1>1, <1>3, <1>7, <2>1
  <2>3. Named(e, a, s) = {}
    BY <1>5, <1>7, <2>2
  <2>4. QED
    BY <1>2, <2>2, <2>3
<1>8. QED
  BY <1>2, <1>6, <1>7, Joins

\* Nobody loses a name to a capture.
LEMMA NamesStay ==
  ASSUME NEW e, NEW a, NEW c, Acceptable(e, a, c), NEW s, NEW r \in Named(e, a, s)
  PROVE  r \in Named(CapturedEntities(e, a, c), CapturedAliases(e, a, c), s)
<1>1. r \in Keys /\ e[r].status = "active" /\ s \in {r, e[r].name} \cup a[r]
  BY DEF Named
<1>2. CASE \E k \in CapturedKeys(c) : Resolved(e, a, c, k) = r
  BY <1>1, <1>2, CapturedIs DEF Named
<1>3. CASE \A k \in CapturedKeys(c) : Resolved(e, a, c, k) # r
  BY <1>1, <1>3, Untouched DEF Named
<1>4. QED
  BY <1>2, <1>3

\* The keys of a capture are new, and no one's names.
AllNew(e, a, c) ==
  \A k \in CapturedKeys(c) : e[k] = Absent /\ a[k] = {} /\ Named(e, a, k) = {}
SingleOwner(N) == \E r : N = {r}

LEMMA NamesKept ==
  ASSUME NEW e, NEW a, NEW c, Acceptable(e, a, c), CapturedKeys(c) \subseteq Keys, Disjoint(c),
         AllNew(e, a, c),
         NEW s
  PROVE  \/ Named(CapturedEntities(e, a, c), CapturedAliases(e, a, c), s) = Named(e, a, s)
         \/ SingleOwner(Named(CapturedEntities(e, a, c), CapturedAliases(e, a, c), s))
<1>1. PICK before : before = Named(e, a, s)
  OBVIOUS
<1>2. PICK after : after = Named(CapturedEntities(e, a, c), CapturedAliases(e, a, c), s)
  OBVIOUS
<1>3. before \subseteq after
  BY <1>1, <1>2, NamesStay
<1>4. \A r \in after \ before :
        /\ before = {}
        /\ \E k \in CapturedKeys(c) :
             r = Resolved(e, a, c, k) /\ s \in {k} \cup CaptureSurfaces(c, k)
  BY <1>1, <1>2, NewlyNamed DEF AllNew
<1>5. ASSUME NEW r \in after \ before, NEW q \in after \ before PROVE q = r
  <2>1. PICK j \in CapturedKeys(c) :
          r = Resolved(e, a, c, j) /\ s \in {j} \cup CaptureSurfaces(c, j)
    BY <1>4
  <2>2. PICK k \in CapturedKeys(c) :
          q = Resolved(e, a, c, k) /\ s \in {k} \cup CaptureSurfaces(c, k)
    BY <1>4
  <2>3. j = k
    BY <2>1, <2>2 DEF Disjoint
  <2>4. QED
    BY <2>1, <2>2, <2>3
<1>6. CASE after \subseteq before
  BY <1>1, <1>2, <1>3, <1>6
<1>7. CASE \E r \in after : r \notin before
  <2>1. PICK r \in after : r \notin before
    BY <1>7
  <2>2. before = {}
    BY <1>4, <2>1
  <2>3. after = {r}
    BY <1>5, <2>1, <2>2
  <2>4. QED
    BY <1>2, <2>3 DEF SingleOwner
<1>8. QED
  BY <1>6, <1>7

\* A capture of new keys that are nobody's names never makes a name ambiguous.
THEOREM CapturesAlwaysKeepNamesUnique == Spec => CapturesKeepNamesUnique
<1> DEFINE New(e, c) == \A k \in CapturedKeys(c) : e[k] = Absent /\ Named(e, alias, k) = {}
           Keeps(key, tags, c) ==
             LET e == WithSubject(key) IN
             /\ Remember(key, tags, c)
             /\ Disjoint(c)
             /\ \A k \in CapturedKeys(c) : e[k] = Absent /\ Named(e, alias, k) = {}
             => \A surface \in Surfaces :
                  Cardinality(Named(ent', alias', surface)) > 1
                  => Named(ent', alias', surface) = Named(e, alias, surface)
<1>1. ASSUME IInv, NEW key \in Subjects, NEW tags \in TagSets, NEW c \in Captures,
             Remember(key, tags, c), Disjoint(c), New(WithSubject(key), c),
             NEW s \in Surfaces, Cardinality(Named(ent', alias', s)) > 1
      PROVE  Named(ent', alias', s) = Named(WithSubject(key), alias, s)
  <2>1. PICK e, a : e = WithSubject(key) /\ a = alias
    OBVIOUS
  <2>2. CASE ent' = e /\ alias' = a
    <3>1. PICK f, b : f = ent' /\ b = alias'
      OBVIOUS
    <3>2. Named(f, b, s) = Named(e, a, s)
      BY <2>2, <3>1
    <3>3. QED
      BY <2>1, <3>1, <3>2
  <2>3. CASE /\ Acceptable(e, a, c)
             /\ ent' = CapturedEntities(e, a, c) /\ alias' = CapturedAliases(e, a, c)
    <3>1. CapturedKeys(c) \subseteq Keys
      BY IsCapture
    <3>2. AllNew(e, a, c)
      <4>1. \A k \in Keys : ent[k] # Absent => e[k] # Absent
        BY <1>1, <2>1, SubjectIs DEF IInv
      <4>2. QED
        BY <1>1, <2>1, <3>1, <4>1 DEF IInv, AliasesOwned, AllNew
    <3>3. PICK f, b : f = ent' /\ b = alias'
      OBVIOUS
    <3>4. Cardinality(Named(f, b, s)) > 1
      BY <1>1, <3>3
    <3>5. ASSUME NEW r, Named(f, b, s) = {r} PROVE FALSE
      <4>1. Cardinality({r}) > 1
        BY <3>4, <3>5, Zenon
      <4>2. Cardinality({r}) = 1
        BY FS_Singleton
      <4>3. QED
        BY <4>1, <4>2
    <3>6. f = CapturedEntities(e, a, c) /\ b = CapturedAliases(e, a, c)
      BY <2>3, <3>3
    <3>7. \/ Named(f, b, s) = Named(e, a, s)
          \/ SingleOwner(Named(f, b, s))
      <4>1. \/ Named(CapturedEntities(e, a, c), CapturedAliases(e, a, c), s) = Named(e, a, s)
            \/ SingleOwner(Named(CapturedEntities(e, a, c), CapturedAliases(e, a, c), s))
        BY <1>1, <2>3, <3>1, <3>2, NamesKept
      <4>2. QED
        BY <3>6, <4>1, Zenon
    <3>8. QED
      BY <2>1, <3>3, <3>5, <3>7 DEF SingleOwner
  <2>4. QED
    BY <1>1, <2>1, <2>2, <2>3 DEF Remember
<1>2. IInv => \A key \in Subjects, tags \in TagSets, c \in Captures : Keeps(key, tags, c)
  BY <1>1
<1>3. QED
  BY <1>2, Invariant, PTL DEF CapturesKeepNamesUnique

-----------------------------------------------------------------------------
(* Walks *)

ActiveEdge(i) == Walkable(i, {"active"})
Between(i, j, k) == {rels[i].subject, rels[i].object} = {j, k}

\* The entities at the end of one more step.
Beyond(before, n) ==
  {k \in Keys : /\ Open(k, FALSE)
                /\ \E i \in DOMAIN rels, p \in before :
                     p[2] = n - 1 /\ ActiveEdge(i) /\ Between(i, p[1], k)}

WalkTo(seed, depth, g) ==
  g = [n \in 0..depth |->
         IF n = 0 THEN {<<seed, 0>>}
         ELSE g[n - 1] \cup {<<k, n>> : k \in Beyond(g[n - 1], n)}]

LEMMA WalkExists ==
  ASSUME NEW seed \in Keys, NEW depth \in Nat
  PROVE  \E g : WalkTo(seed, depth, g)
<1> DEFINE R == SUBSET (Keys \X Nat)
           F == [x \in (1..depth) \X R |-> x[2] \cup {<<k, x[1]>> : k \in Beyond(x[2], x[1])}]
           b == {<<seed, 0>>}
<1>1. b \in R
  OBVIOUS
<1>2. \A x, n : Beyond(x, n) \subseteq Keys
  BY DEF Beyond
<1>3. F \in [(1..depth) \X R -> R]
  <2>1. ASSUME NEW x \in (1..depth) \X R
        PROVE  x[2] \cup {<<k, x[1]>> : k \in Beyond(x[2], x[1])} \in R
    BY <1>2
  <2>2. QED
    BY <2>1
<1>4. \A i \in 1..depth, x \in R : F[<<i, x>>] = x \cup {<<k, i>> : k \in Beyond(x, i)}
  OBVIOUS
<1> HIDE DEF F, R, b
<1>5. PICK g \in [0..depth -> R] : Iterates(g, depth, b, F)
  BY <1>1, <1>3, Recursive
<1>6. g[0] = b /\ \A i \in 1..depth : g[i] = F[<<i, g[i - 1]>>]
  BY <1>5 DEF Iterates
<1>7. \A i \in 1..depth : g[i] = g[i - 1] \cup {<<k, i>> : k \in Beyond(g[i - 1], i)}
  <2> TAKE i \in 1..depth
  <2>1. i - 1 \in 0..depth
    OBVIOUS
  <2>2. QED
    BY <1>4, <1>6, <2>1
<1>8. WalkTo(seed, depth, g)
  <2> DEFINE h == [n \in 0..depth |->
                     IF n = 0 THEN {<<seed, 0>>}
                     ELSE g[n - 1] \cup {<<k, n>> : k \in Beyond(g[n - 1], n)}]
  <2>1. \A n \in 0..depth : g[n] = h[n]
    <3> TAKE n \in 0..depth
    <3>1. CASE n = 0
      BY <1>6, <3>1 DEF b
    <3>2. CASE n \in 1..depth
      BY <1>7, <3>2
    <3>3. QED
      BY <3>1, <3>2
  <2>2. DOMAIN g = DOMAIN h
    OBVIOUS
  <2>3. g = h
    <3> HIDE DEF h
    <3>1. g = [n \in DOMAIN g |-> g[n]]
      OBVIOUS
    <3>2. h = [n \in DOMAIN h |-> h[n]]
      BY DEF h
    <3>3. QED
      BY <2>1, <2>2, <3>1, <3>2
  <2>4. QED
    BY <2>3 DEF WalkTo
<1>9. QED
  BY <1>8

\* What a walk of up to d steps has: each place it comes to, by a last step, and
\* every place that a step from there leads to.
Walked(w, seed, d) ==
  /\ w \subseteq Keys \X (0..d)
  /\ <<seed, 0>> \in w
  /\ \A p \in w : p[2] = 0 => p[1] = seed
  /\ \A p \in w : p[2] # 0 =>
       /\ Open(p[1], FALSE)
       /\ \E i \in DOMAIN rels, q \in w :
            q[2] = p[2] - 1 /\ ActiveEdge(i) /\ Between(i, q[1], p[1])
  /\ \A q \in w, i \in DOMAIN rels, k \in Keys :
       q[2] < d /\ ActiveEdge(i) /\ Between(i, q[1], k) /\ Open(k, FALSE)
       => <<k, q[2] + 1>> \in w

LEMMA WalkIs ==
  ASSUME NEW seed \in Keys, NEW depth \in Nat
  PROVE  Walked(Walk(seed, depth, {"active"}, FALSE), seed, depth)
<1>1. PICK g : /\ WalkTo(seed, depth, g)
               /\ Walk(seed, depth, {"active"}, FALSE) = g[depth]
  <2>1. \E g : WalkTo(seed, depth, g)
    BY WalkExists
  <2>2. PICK g : g = CHOOSE f : WalkTo(seed, depth, f)
    OBVIOUS
  <2>3. WalkTo(seed, depth, g)
    BY <2>1, <2>2, Zenon
  <2>4. Walk(seed, depth, {"active"}, FALSE) = g[depth]
    BY <2>2, Zenon DEF Walk, WalkTo, Beyond, ActiveEdge, Between
  <2>5. QED
    BY <2>3, <2>4
<1>2. /\ g[0] = {<<seed, 0>>}
      /\ \A n \in 1..depth : g[n] = g[n - 1] \cup {<<k, n>> : k \in Beyond(g[n - 1], n)}
  <2>1. \A n \in 0..depth :
          g[n] = IF n = 0 THEN {<<seed, 0>>}
                 ELSE g[n - 1] \cup {<<k, n>> : k \in Beyond(g[n - 1], n)}
    BY <1>1, Zenon DEF WalkTo
  <2>2. 0 \in 0..depth /\ \A n \in 1..depth : n \in 0..depth /\ n # 0
    OBVIOUS
  <2>3. QED
    BY <2>1, <2>2, Zenon
<1> DEFINE Good == {n \in 0..depth : Walked(g[n], seed, n)}
<1>3. 0 \in Good
  <2>1. PICK w : w = g[0]
    OBVIOUS
  <2>2. w = {<<seed, 0>>} /\ \A p \in w : p[2] = 0
    BY <1>2, <2>1
  <2>3. Walked(w, seed, 0)
    BY <2>2 DEF Walked
  <2>4. QED
    BY <2>1, <2>3
<1>4. \A n \in 0..(depth - 1) : n \in Good => n + 1 \in Good
  <2> TAKE n \in 0..(depth - 1)
  <2>1. HAVE n \in Good
  <2>2. PICK m \in 1..depth : m = n + 1
    OBVIOUS
  <2>3. m - 1 = n
    BY <2>2
  <2>4. PICK v, w : v = g[n] /\ w = g[m]
    OBVIOUS
  <2>5. Walked(v, seed, n)
    BY <2>1, <2>4
  <2>6. w = v \cup {<<k, m>> : k \in Beyond(v, m)}
    BY <1>2, <2>3, <2>4
  <2>7. w \subseteq Keys \X (0..m) /\ v \subseteq w
    <3>1. v \subseteq Keys \X (0..n) /\ 0..n \subseteq 0..m
      BY <2>2, <2>5 DEF Walked
    <3>2. Beyond(v, m) \subseteq Keys
      BY DEF Beyond
    <3>3. m \in 0..m
      OBVIOUS
    <3>4. QED
      BY <2>6, <3>1, <3>2, <3>3
  <2>8. \A p \in w : p \in v \/ (p[2] = m /\ p[1] \in Beyond(v, m))
    BY <2>6
  <2>9. ASSUME NEW p \in w, p[2] # 0
        PROVE  /\ Open(p[1], FALSE)
               /\ \E i \in DOMAIN rels, q \in w :
                    q[2] = p[2] - 1 /\ ActiveEdge(i) /\ Between(i, q[1], p[1])
    <3>1. CASE p \in v
      BY <2>5, <2>7, <2>9, <3>1 DEF Walked
    <3>2. CASE p[2] = m /\ p[1] \in Beyond(v, m)
      BY <2>7, <3>2 DEF Beyond
    <3>3. QED
      BY <2>8, <3>1, <3>2
  <2>10. ASSUME NEW q \in w, NEW i \in DOMAIN rels, NEW k \in Keys, q[2] < m,
                ActiveEdge(i), Between(i, q[1], k), Open(k, FALSE)
         PROVE  <<k, q[2] + 1>> \in w
    <3>1. q \in v /\ q[2] \in 0..n
      BY <2>2, <2>5, <2>8, <2>10 DEF Walked
    <3>2. CASE q[2] < n
      BY <2>5, <2>7, <2>10, <3>1, <3>2 DEF Walked
    <3>3. CASE q[2] = n
      <4>1. k \in Beyond(v, m)
        BY <2>3, <2>10, <3>1, <3>3 DEF Beyond
      <4>2. <<k, m>> \in w
        BY <2>6, <4>1
      <4>3. QED
        BY <2>2, <3>3, <4>2
    <3>4. QED
      BY <3>1, <3>2, <3>3
  <2>11. <<seed, 0>> \in w /\ \A p \in w : p[2] = 0 => p[1] = seed
    BY <2>2, <2>5, <2>7, <2>8 DEF Walked
  <2>12. Walked(w, seed, m)
    BY <2>7, <2>9, <2>10, <2>11 DEF Walked
  <2>13. QED
    BY <2>2, <2>4, <2>12
<1>5. \A n \in 0..depth : n \in Good
  <2> HIDE DEF Good
  <2> QED
    BY <1>3, <1>4, InductionTo
<1>6. depth \in 0..depth
  OBVIOUS
<1>7. QED
  BY <1>1, <1>5, <1>6

\* The depth of an entity is that of the first step that comes to it.
LEMMA DepthIs ==
  ASSUME NEW d \in Nat, NEW w, NEW seed \in Keys, Walked(w, seed, d), NEW k \in Reached(w)
  PROVE  /\ k \in Keys /\ Depth(w, k) \in 0..d /\ <<k, Depth(w, k)>> \in w
         /\ \A n \in 0..d : <<k, n>> \in w => Depth(w, k) <= n
         /\ k = seed <=> Depth(w, k) = 0
<1> DEFINE T == {p[2] : p \in {p \in w : p[1] = k}}
<1>1. w \subseteq Keys \X (0..d)
  BY DEF Walked
<1>2. T \subseteq 0..d /\ \A n \in T : <<k, n>> \in w
  BY <1>1
<1>3. T # {}
  BY DEF Reached
<1>4. \A n \in 0..d : <<k, n>> \in w => n \in T
  OBVIOUS
<1>5. T \subseteq Nat
  BY <1>2
<1>6. Depth(w, k) = Min(T)
  BY Zenon DEF Depth
<1> HIDE DEF T
<1>7. Min(T) \in T /\ \A n \in T : Min(T) <= n
  BY <1>3, <1>5, Least
<1>8. k \in Keys
  BY <1>1 DEF Reached
<1>9. Depth(w, k) \in 0..d /\ <<k, Depth(w, k)>> \in w
  BY <1>2, <1>6, <1>7
<1>10. \A n \in 0..d : <<k, n>> \in w => Depth(w, k) <= n
  BY <1>4, <1>6, <1>7
<1>11. k = seed => Depth(w, k) = 0
  <2>1. <<seed, 0>> \in w /\ 0 \in 0..d
    BY DEF Walked
  <2>2. QED
    BY <1>9, <1>10, <2>1
<1>12. Depth(w, k) = 0 => k = seed
  BY <1>9 DEF Walked
<1>13. QED
  BY <1>8, <1>9, <1>10, <1>11, <1>12

\* Whatever a walk comes to, it comes to over an edge from one step before.
LEMMA LastStep ==
  ASSUME NEW d \in Nat, NEW w, NEW seed \in Keys, Walked(w, seed, d),
         NEW k \in Reached(w), k # seed
  PROVE  /\ Open(k, FALSE)
         /\ \E i \in DOMAIN rels, j \in Reached(w) :
              ActiveEdge(i) /\ Between(i, j, k) /\ Depth(w, j) + 1 = Depth(w, k)
<1>0. ASSUME NEW x \in Reached(w)
       PROVE  /\ x \in Keys /\ Depth(w, x) \in 0..d /\ <<x, Depth(w, x)>> \in w
              /\ \A n \in 0..d : <<x, n>> \in w => Depth(w, x) <= n
              /\ x = seed <=> Depth(w, x) = 0
  BY DepthIs
<1>1. PICK n : n = Depth(w, k)
  OBVIOUS
<1>2. n \in 1..d /\ <<k, n>> \in w /\ \A l \in 0..d : <<k, l>> \in w => n <= l
  BY <1>1, <1>0
<1>3. /\ Open(k, FALSE)
      /\ \E i \in DOMAIN rels, q \in w : q[2] = n - 1 /\ ActiveEdge(i) /\ Between(i, q[1], k)
  <2>1. PICK p : p = <<k, n>>
    OBVIOUS
  <2>2. p \in w /\ p[1] = k /\ p[2] = n /\ p[2] # 0
    BY <1>2, <2>1
  <2>3. QED
    BY <2>2 DEF Walked
<1>4. PICK i \in DOMAIN rels, q \in w : q[2] = n - 1 /\ ActiveEdge(i) /\ Between(i, q[1], k)
  BY <1>3
<1>5. PICK j : j = q[1]
  OBVIOUS
<1>6. j \in Reached(w) /\ q = <<j, n - 1>>
  BY <1>4, <1>5 DEF Reached, Walked
<1>7. PICK m : m = Depth(w, j)
  OBVIOUS
<1>8. m \in 0..d /\ <<j, m>> \in w /\ m <= n - 1
  <2>1. m \in 0..d /\ <<j, m>> \in w
    BY <1>6, <1>7, <1>0
  <2>2. <<j, n - 1>> \in w
    BY <1>4, <1>6
  <2>3. n - 1 \in 0..d
    BY <1>2
  <2>4. m <= n - 1
    BY <1>6, <1>7, <1>0, <2>2, <2>3
  <2>5. QED
    BY <2>1, <2>4
<1>9. <<k, m + 1>> \in w
  <2>1. PICK p : p = <<j, m>>
    OBVIOUS
  <2>2. p \in w /\ p[1] = j /\ p[2] = m
    BY <1>8, <2>1
  <2>3. m < d
    BY <1>2, <1>8
  <2>4. k \in Keys
    BY <1>0
  <2>5. <<k, p[2] + 1>> \in w
    BY <1>3, <1>4, <1>5, <2>2, <2>3, <2>4 DEF Walked
  <2>6. QED
    BY <2>2, <2>5
<1>10. n <= m + 1
  <2>1. m + 1 \in 0..d
    BY <1>2, <1>8
  <2>2. QED
    BY <1>2, <1>9, <2>1
<1>11. m + 1 = n
  BY <1>2, <1>8, <1>10
<1>12. QED
  BY <1>1, <1>3, <1>4, <1>5, <1>6, <1>7, <1>11

-----------------------------------------------------------------------------
(* Neighbourhoods *)

\* Quadruples of naturals in their order.
Quad == Nat \X Nat \X Nat \X Nat
QuadBefore(x, y) == \E n \in 1..4 : x[n] < y[n] /\ \A l \in 1..(n - 1) : x[l] = y[l]

LEMMA QuadOrder ==
  ASSUME NEW x \in Quad, NEW y \in Quad, NEW z \in Quad
  PROVE  /\ ~QuadBefore(x, x)
         /\ x[4] # y[4] => QuadBefore(x, y) \/ QuadBefore(y, x)
         /\ QuadBefore(x, y) /\ QuadBefore(y, z) => QuadBefore(x, z)
         /\ x[1] < y[1] => QuadBefore(x, y)
<1>1. ASSUME NEW u \in Quad, NEW v \in Quad
      PROVE  QuadBefore(u, v) <=>
               \/ u[1] < v[1]
               \/ u[1] = v[1] /\ u[2] < v[2]
               \/ u[1] = v[1] /\ u[2] = v[2] /\ u[3] < v[3]
               \/ u[1] = v[1] /\ u[2] = v[2] /\ u[3] = v[3] /\ u[4] < v[4]
  <2>1. 1..4 = {1, 2, 3, 4}
    OBVIOUS
  <2>2. 1..(1 - 1) = {} /\ 1..(2 - 1) = {1} /\ 1..(3 - 1) = {1, 2} /\ 1..(4 - 1) = {1, 2, 3}
    OBVIOUS
  <2>3. QED
    BY <2>1, <2>2, Zenon DEF QuadBefore
<1>2. /\ x[1] \in Nat /\ x[2] \in Nat /\ x[3] \in Nat /\ x[4] \in Nat
      /\ y[1] \in Nat /\ y[2] \in Nat /\ y[3] \in Nat /\ y[4] \in Nat
      /\ z[1] \in Nat /\ z[2] \in Nat /\ z[3] \in Nat /\ z[4] \in Nat
  BY DEF Quad
<1>3. ~QuadBefore(x, x)
  BY <1>1, <1>2
<1>4. x[4] # y[4] => QuadBefore(x, y) \/ QuadBefore(y, x)
  BY <1>1, <1>2
<1>5. QuadBefore(x, y) /\ QuadBefore(y, z) => QuadBefore(x, z)
  BY <1>1, <1>2
<1>6. x[1] < y[1] => QuadBefore(x, y)
  BY <1>1, <1>2
<1>7. QED
  BY <1>3, <1>4, <1>5, <1>6

\* The relationships that a walk is allowed to show, in the order of its list.
Near(w) ==
  {i \in DOMAIN rels :
     /\ ActiveEdge(i)
     /\ {rels[i].subject, rels[i].object} \subseteq Reached(w)
     /\ Open(rels[i].subject, FALSE)
     /\ Open(rels[i].object, FALSE)}
NearList(w) == Ordered(Near(w), LAMBDA i, j : EdgeBefore(w, i, j))
NearOrder(w) == {p \in Near(w) \X Near(w) : EdgeBefore(w, p[1], p[2])}

Ends(w, i) == {Depth(w, rels[i].subject), Depth(w, rels[i].object)}
EdgeKey(w, i) == <<Min(Ends(w, i)), Max(Ends(w, i)), rels[i].type, i>>

LEMMA RelTypes ==
  ASSUME TypeOK
  PROVE  /\ Len(rels) \in Nat /\ DOMAIN rels = 1..Len(rels)
         /\ \A i \in DOMAIN rels :
              /\ rels[i].subject \in Keys /\ rels[i].object \in Keys
              /\ rels[i].type \in Nat /\ rels[i].memory \in 0..Len(mem)
<1> DEFINE T == [subject : Keys, type : Types \cup {RelatedTo}, object : Keys,
                 memory : 0..Len(mem), status : RelStatuses]
<1>1. rels \in Seq(T)
  BY DEF TypeOK
<1>2. \A r \in T : r.subject \in Keys /\ r.object \in Keys /\ r.type \in Nat /\ r.memory \in 0..Len(mem)
  <2>1. Types \cup {RelatedTo} \subseteq Nat
    BY GraphAssumption DEF RelatedTo
  <2>2. QED
    BY <2>1
<1> HIDE DEF T
<1>3. Len(rels) \in Nat /\ DOMAIN rels = 1..Len(rels) /\ \A i \in DOMAIN rels : rels[i] \in T
  BY <1>1
<1>4. QED
  BY <1>2, <1>3

LEMMA EdgeKeyIs ==
  ASSUME TypeOK, NEW d \in Nat, NEW w, NEW seed \in Keys, Walked(w, seed, d), NEW i \in Near(w)
  PROVE  /\ EdgeKey(w, i) \in Quad /\ EdgeKey(w, i)[4] = i
         /\ EdgeKey(w, i)[1] \in {Depth(w, rels[i].subject), Depth(w, rels[i].object)}
         /\ EdgeKey(w, i)[1] <= Depth(w, rels[i].subject)
         /\ EdgeKey(w, i)[1] <= Depth(w, rels[i].object)
<1>0. ASSUME NEW x \in Reached(w) PROVE Depth(w, x) \in 0..d
  BY DepthIs
<1>1. PICK x, y : x = Depth(w, rels[i].subject) /\ y = Depth(w, rels[i].object)
  OBVIOUS
<1>2. x \in 0..d /\ y \in 0..d
  BY <1>0, <1>1 DEF Near
<1>3. PICK E : E = {x, y}
  OBVIOUS
<1>4. E \subseteq 0..d /\ E \subseteq Nat /\ E # {}
  BY <1>2, <1>3
<1>5. Min(E) \in E /\ \A k \in E : Min(E) <= k
  BY <1>4, Least
<1>6. Max(E) \in E
  BY <1>4, Greatest
<1>7. i \in Nat /\ rels[i].type \in Nat
  BY RelTypes DEF Near
<1>8. EdgeKey(w, i) = <<Min(E), Max(E), rels[i].type, i>>
  BY <1>1, <1>3, Zenon DEF EdgeKey, Ends
<1>9. Min(E) \in Nat /\ Max(E) \in Nat
  BY <1>4, <1>5, <1>6
<1>10. EdgeKey(w, i) \in Quad /\ EdgeKey(w, i)[4] = i /\ EdgeKey(w, i)[1] = Min(E)
  BY <1>7, <1>8, <1>9 DEF Quad
<1>11. QED
  BY <1>1, <1>3, <1>5, <1>10

\* The rows come in one order, whatever their ends.
LEMMA NearListed ==
  ASSUME TypeOK, NEW d \in Nat, NEW w, NEW seed \in Keys, Walked(w, seed, d)
  PROVE  /\ Lists(NearList(w), Near(w), NearOrder(w))
         /\ IsFiniteSet(Near(w)) /\ Cardinality(Near(w)) <= Len(rels)
<1>0. ASSUME NEW i \in Near(w) PROVE EdgeKey(w, i) \in Quad /\ EdgeKey(w, i)[4] = i
  BY EdgeKeyIs
<1>1. IsFiniteSet(Near(w)) /\ Cardinality(Near(w)) <= Len(rels)
  <2>1. Len(rels) \in Nat /\ Near(w) \subseteq 1..Len(rels)
    BY RelTypes DEF Near
  <2>2. PICK n \in Nat : n = Len(rels)
    BY <2>1
  <2>3. IsFiniteSet(1..n) /\ Cardinality(1..n) = n
    BY FS_Interval
  <2>4. Near(w) \subseteq 1..n
    BY <2>1, <2>2
  <2>5. IsFiniteSet(Near(w)) /\ Cardinality(Near(w)) <= n
    BY <2>3, <2>4, FS_Subset
  <2>6. QED
    BY <2>2, <2>5
<1>2. \A i, j : EdgeBefore(w, i, j) <=> QuadBefore(EdgeKey(w, i), EdgeKey(w, j))
  BY Zenon DEF EdgeBefore, QuadBefore, EdgeKey, Ends
<1> DEFINE S == Near(w)
           R == NearOrder(w)
           place == [x \in S |-> 1 + Cardinality({y \in S : EdgeBefore(w, y, x)})]
<1>3. \A x, y \in S : <<x, y>> \in R <=> EdgeBefore(w, x, y)
  BY DEF NearOrder
<1>4. NearList(w) = [n \in 1..Cardinality(S) |-> CHOOSE x \in S : place[x] = n]
  BY Zenon DEF NearList, Ordered
<1> HIDE DEF S, R
<1>5. StrictOrder(S, R)
  <2>1. \A x \in S : EdgeKey(w, x) \in Quad /\ EdgeKey(w, x)[4] = x
    BY <1>0 DEF S
  <2>2. \A x \in S : ~EdgeBefore(w, x, x)
    BY <1>2, <2>1, QuadOrder
  <2>3. \A x, y \in S : x # y => EdgeBefore(w, x, y) \/ EdgeBefore(w, y, x)
    BY <1>2, <2>1, QuadOrder
  <2>4. \A x, y, z \in S : EdgeBefore(w, x, y) /\ EdgeBefore(w, y, z) => EdgeBefore(w, x, z)
    BY <1>2, <2>1, QuadOrder
  <2>5. QED
    BY <1>3, <2>2, <2>3, <2>4 DEF StrictOrder
<1>6. place = Standing(S, R)
  <2>1. \A x \in S : {y \in S : EdgeBefore(w, y, x)} = {y \in S : <<y, x>> \in R}
    BY <1>3
  <2>2. QED
    BY <2>1 DEF Standing
<1> HIDE DEF place
<1>7. NearList(w) = Listing(S, R)
  BY <1>4, <1>6 DEF Listing
<1>8. Lists(NearList(w), S, R)
  BY <1>1, <1>5, <1>7, ListingIs DEF S
<1>9. QED
  BY <1>1, <1>8 DEF S, R

\* What is listed comes in the order of the least depths of the ends.
LEMMA NearerFirst ==
  ASSUME TypeOK, NEW d \in Nat, NEW w, NEW seed \in Keys, Walked(w, seed, d),
         NEW i \in Near(w), NEW j \in Near(w), EdgeKey(w, i)[1] < EdgeKey(w, j)[1]
  PROVE  <<i, j>> \in NearOrder(w)
<1>0. ASSUME NEW x \in Near(w) PROVE EdgeKey(w, x) \in Quad
  BY EdgeKeyIs
<1>1. QuadBefore(EdgeKey(w, i), EdgeKey(w, j))
  BY <1>0, QuadOrder
<1>2. EdgeBefore(w, i, j)
  BY <1>1, Zenon DEF EdgeBefore, QuadBefore, EdgeKey, Ends
<1>3. QED
  BY <1>2 DEF NearOrder

LEMMA NeighborsAre ==
  ASSUME NEW seed, NEW depth, NEW n
  PROVE  Neighbors(seed, depth, n, {"active"}, FALSE)
           = AtMost(n, NearList(Walk(seed, depth, {"active"}, FALSE)))
BY Zenon DEF Neighbors, NearList, Near, ActiveEdge

\* A list that is cut keeps, with a relationship, whatever comes before it.
LEMMA CutKeepsFirst ==
  ASSUME NEW S, NEW R, NEW s, Lists(s, S, R), NEW n \in Nat
  PROVE  /\ Range(AtMost(n, s)) \subseteq S
         /\ \A y \in Range(AtMost(n, s)), x \in S :
              <<x, y>> \in R => x \in Range(AtMost(n, s))
         /\ Cardinality(S) <= n => S \subseteq Range(AtMost(n, s))
<1>1. /\ s \in Seq(S) /\ Len(s) = Cardinality(S)
      /\ \A x \in S : \E i \in DOMAIN s : s[i] = x
      /\ \A i, j \in DOMAIN s : i < j <=> <<s[i], s[j]>> \in R
  BY DEF Lists
<1>2. PICK t : t = AtMost(n, s)
  OBVIOUS
<1>3. /\ t \in Seq(S) /\ DOMAIN t = {i \in DOMAIN s : i <= n}
      /\ \A i \in DOMAIN t : t[i] = s[i]
  BY <1>1, <1>2, FirstEntries
<1>4. DOMAIN s = 1..Len(s) /\ Len(s) \in Nat
  BY <1>1
<1>5. Range(t) = {t[i] : i \in DOMAIN t}
  BY DEF Range
<1>6. Range(t) \subseteq S
  <2>1. \A i \in DOMAIN t : t[i] \in S
    BY <1>3
  <2>2. QED
    BY <1>5, <2>1
<1>7. ASSUME NEW y \in Range(t), NEW x \in S, <<x, y>> \in R PROVE x \in Range(t)
  <2>1. PICK j \in DOMAIN t : t[j] = y
    BY <1>5
  <2>2. PICK i \in DOMAIN s : s[i] = x
    BY <1>1
  <2>3. j \in DOMAIN s /\ s[j] = y /\ j <= n
    BY <1>3, <2>1
  <2>4. i < j
    BY <1>1, <1>7, <2>2, <2>3
  <2>5. i \in DOMAIN t
    BY <1>3, <1>4, <2>2, <2>3, <2>4
  <2>6. QED
    BY <1>3, <1>5, <2>2, <2>5
<1>8. ASSUME Cardinality(S) <= n, NEW x \in S PROVE x \in Range(t)
  <2>1. PICK i \in DOMAIN s : s[i] = x
    BY <1>1
  <2>2. i \in DOMAIN t
    BY <1>1, <1>3, <1>4, <1>8, <2>1
  <2>3. QED
    BY <1>3, <1>5, <2>1, <2>2
<1>9. QED
  BY <1>2, <1>6, <1>7, <1>8

Grown(edges, J) ==
  J \cup UNION {{rels[i].subject, rels[i].object} :
                  i \in {i \in edges : \E k \in J : Incident(rels[i], k)}}
JoinedTo(seed, edges, g) ==
  g = [n \in 0..2 |-> IF n = 0 THEN {seed} ELSE Grown(edges, g[n - 1])]
JoinedBy(seed, edges) == CHOOSE g : JoinedTo(seed, edges, g)

LEMMA JoinedIs ==
  ASSUME NEW seed, NEW edges
  PROVE  JoinedBy(seed, edges)[2] = Grown(edges, Grown(edges, {seed}))
<1> DEFINE one == Grown(edges, {seed})
           two == Grown(edges, one)
           h == [n \in 0..2 |-> IF n = 0 THEN {seed} ELSE IF n = 1 THEN one ELSE two]
<1>0. /\ 0 \in 0..2 /\ 1 \in 0..2 /\ 2 \in 0..2
      /\ 1 # 0 /\ 2 # 0 /\ 1 - 1 = 0 /\ 2 - 1 = 1
  OBVIOUS
<1>1. h[0] = {seed} /\ h[1] = one
  BY <1>0, Zenon
<1>2. JoinedTo(seed, edges, h)
  <2> DEFINE f == [n \in 0..2 |-> IF n = 0 THEN {seed} ELSE Grown(edges, h[n - 1])]
  <2>1. \A n \in 0..2 : f[n] = h[n]
    <3> HIDE DEF one, two
    <3>1. two = Grown(edges, one)
      BY DEF two
    <3> TAKE n \in 0..2
    <3>2. CASE n = 0
      BY <3>2
    <3>3. CASE n = 1
      BY <1>1, <3>3 DEF one
    <3>4. CASE n = 2
      BY <1>1, <3>1, <3>4
    <3>5. QED
      BY <3>2, <3>3, <3>4
  <2>2. f = h
    BY <2>1, Zenon
  <2>3. QED
    BY <2>2, Zenon DEF JoinedTo
<1> HIDE DEF h
<1>3. PICK g : g = JoinedBy(seed, edges)
  OBVIOUS
<1>4. JoinedTo(seed, edges, g)
  BY <1>2, <1>3, Zenon DEF JoinedBy
<1>5. \A n \in 0..2 : g[n] = IF n = 0 THEN {seed} ELSE Grown(edges, g[n - 1])
  BY <1>4, Zenon DEF JoinedTo
<1>6. g[0] = {seed}
  BY <1>0, <1>5, Zenon
<1>7. g[1] = Grown(edges, g[0])
  BY <1>0, <1>5, Zenon
<1>8. g[2] = Grown(edges, g[1])
  BY <1>0, <1>5, Zenon
<1>9. QED
  BY <1>3, <1>6, <1>7, <1>8, Zenon

\* An edge with an end in a set brings the other end.
LEMMA GrownHas ==
  ASSUME NEW edges, NEW J, NEW i \in edges, NEW j, NEW k, Between(i, j, k), j \in J
  PROVE  k \in Grown(edges, J) /\ j \in Grown(edges, J)
<1>1. {rels[i].subject, rels[i].object} = {j, k}
  BY DEF Between
<1>2. Incident(rels[i], j)
  BY <1>1 DEF Incident
<1>3. QED
  BY <1>1, <1>2 DEF Grown

LEMMA Connected ==
  ASSUME TypeOK, NEW seed \in Keys, Seeded(seed, FALSE), NEW n \in Nat,
         NEW edges, edges = Range(Neighbors(seed, 2, n, {"active"}, FALSE)),
         NEW i \in edges
  PROVE  {rels[i].subject, rels[i].object} \subseteq Grown(edges, Grown(edges, {seed}))
<1>1. PICK w : w = Walk(seed, 2, {"active"}, FALSE)
  OBVIOUS
<1>2. PICK d \in Nat : d = 2
  OBVIOUS
<1>3. Walked(w, seed, d)
  BY <1>1, <1>2, WalkIs
<1>0. ASSUME NEW x \in Reached(w)
      PROVE  /\ x \in Keys /\ Depth(w, x) \in 0..d /\ <<x, Depth(w, x)>> \in w
             /\ \A l \in 0..d : <<x, l>> \in w => Depth(w, x) <= l
             /\ x = seed <=> Depth(w, x) = 0
  BY <1>3, DepthIs
<1>4. Lists(NearList(w), Near(w), NearOrder(w))
  BY <1>3, NearListed
<1>5. edges = Range(AtMost(n, NearList(w)))
  BY <1>1, NeighborsAre, Zenon
<1>6. /\ edges \subseteq Near(w)
      /\ \A y \in edges, x \in Near(w) : <<x, y>> \in NearOrder(w) => x \in edges
  BY <1>4, <1>5, CutKeepsFirst
<1>7. PICK J, K : J = Grown(edges, {seed}) /\ K = Grown(edges, J)
  OBVIOUS
<1>8. seed \in J /\ J \subseteq K
  BY <1>7 DEF Grown
<1>9. PICK m : m = EdgeKey(w, i)[1]
  OBVIOUS
<1>10. PICK s, o : s = rels[i].subject /\ o = rels[i].object
  OBVIOUS
<1>11. i \in Near(w) /\ s \in Reached(w) /\ o \in Reached(w) /\ Between(i, s, o) /\ Between(i, o, s)
  BY <1>6, <1>10 DEF Near, Between
<1>12. m \in {Depth(w, s), Depth(w, o)} /\ m <= Depth(w, s) /\ m <= Depth(w, o)
  BY <1>3, <1>9, <1>10, <1>11, EdgeKeyIs
\* The edge over which the walk comes to an entity that is not nearer than i.
<1>13. ASSUME NEW k \in Reached(w), k # seed, Depth(w, k) <= m
       PROVE  \E e \in edges, j \in Reached(w) : Between(e, j, k) /\ Depth(w, j) + 1 = Depth(w, k)
  <2>1. PICK e \in DOMAIN rels, j \in Reached(w) :
          ActiveEdge(e) /\ Between(e, j, k) /\ Depth(w, j) + 1 = Depth(w, k)
    BY <1>3, <1>13, LastStep
  <2>2. Open(k, FALSE) /\ Open(j, FALSE)
    <3>1. Open(seed, FALSE)
      BY DEF Seeded
    <3>2. ASSUME NEW x \in Reached(w), x # seed PROVE Open(x, FALSE)
      BY <1>3, <3>2, LastStep
    <3>3. QED
      BY <1>13, <3>1, <3>2
  <2>3. e \in Near(w)
    BY <2>1, <2>2 DEF Near, Between
  <2>4. EdgeKey(w, e)[1] <= Depth(w, j)
    <3>1. /\ EdgeKey(w, e)[1] <= Depth(w, rels[e].subject)
          /\ EdgeKey(w, e)[1] <= Depth(w, rels[e].object)
      BY <1>3, <2>3, EdgeKeyIs
    <3>2. j = rels[e].subject \/ j = rels[e].object
      BY <2>1 DEF Between
    <3>3. QED
      BY <3>1, <3>2
  <2>5. EdgeKey(w, e)[1] < EdgeKey(w, i)[1]
    <3>1. EdgeKey(w, e) \in Quad
      BY <1>3, <2>3, EdgeKeyIs
    <3>2. PICK x : x = EdgeKey(w, e)[1]
      OBVIOUS
    <3>3. x \in Nat
      BY <3>1, <3>2 DEF Quad
    <3>4. Depth(w, j) \in 0..d /\ Depth(w, k) \in 0..d /\ m \in 0..d
      BY <1>0, <1>11, <1>12
    <3>5. x < m
      BY <1>13, <2>1, <2>4, <3>2, <3>3, <3>4
    <3>6. QED
      BY <1>9, <3>2, <3>5
  <2>6. <<e, i>> \in NearOrder(w)
    BY <1>3, <1>11, <2>3, <2>5, NearerFirst
  <2>7. e \in edges
    BY <1>6, <2>3, <2>6
  <2>8. QED
    BY <2>1, <2>7
\* Entities that are not farther than the nearer end of i hang on the seed.
<1>14. ASSUME NEW k \in Reached(w), Depth(w, k) <= m, Depth(w, k) <= 1 PROVE k \in J
  <2>1. CASE k = seed
    BY <1>8, <2>1
  <2>2. CASE k # seed
    <3>1. PICK e \in edges, j \in Reached(w) : Between(e, j, k) /\ Depth(w, j) + 1 = Depth(w, k)
      BY <1>13, <1>14, <2>2
    <3>2. j = seed
      <4>1. Depth(w, j) \in 0..d /\ Depth(w, k) \in 0..d
        BY <1>0
      <4>2. Depth(w, j) = 0
        BY <1>14, <3>1, <4>1
      <4>3. QED
        BY <1>0, <4>2
    <3>3. QED
      BY <1>7, <3>1, <3>2, GrownHas
  <2>3. QED
    BY <2>1, <2>2
<1>15. ASSUME NEW k \in Reached(w), Depth(w, k) <= m PROVE k \in K
  <2>1. CASE k = seed
    BY <1>8, <2>1
  <2>2. CASE k # seed
    <3>1. PICK e \in edges, j \in Reached(w) : Between(e, j, k) /\ Depth(w, j) + 1 = Depth(w, k)
      BY <1>13, <1>15, <2>2
    <3>2. Depth(w, j) <= m /\ Depth(w, j) <= 1
      <4>1. Depth(w, j) \in 0..d /\ Depth(w, k) \in 0..d /\ m \in 0..d
        BY <1>0, <1>11, <1>12
      <4>2. QED
        BY <1>2, <1>15, <3>1, <4>1
    <3>3. j \in J
      BY <1>14, <3>2
    <3>4. QED
      BY <1>7, <3>1, <3>3, GrownHas
  <2>3. QED
    BY <2>1, <2>2
\* An end at the depth of i hangs on the seed; the other end is as far, or comes
\* with it.
<1>16. ASSUME NEW a \in Reached(w), NEW b \in Reached(w), Between(i, a, b), m = Depth(w, a),
              m <= Depth(w, b)
       PROVE  a \in K /\ b \in K
  <2>1. m \in 0..d /\ Depth(w, b) \in 0..d
    BY <1>0, <1>16
  <2>2. a \in K
    BY <1>15, <1>16, <2>1
  <2>3. CASE m <= 1
    <3>1. a \in J
      BY <1>14, <1>16, <2>1, <2>3
    <3>2. QED
      BY <1>7, <1>16, <2>2, <3>1, GrownHas
  <2>4. CASE m = 2
    <3>1. Depth(w, b) <= m
      BY <1>2, <2>1, <2>4
    <3>2. QED
      BY <1>15, <2>2, <3>1
  <2>5. QED
    BY <1>2, <2>1, <2>3, <2>4
<1>17. s \in K /\ o \in K
  BY <1>11, <1>12, <1>16
<1>18. QED
  BY <1>7, <1>10, <1>17

LEMMA NeighborsHang == TypeOK => NeighborsConnected
<1>1. ASSUME TypeOK, NEW seed \in {k \in Keys : Seeded(k, FALSE)}, NEW n \in 1..2,
             NEW i \in Range(Neighbors(seed, 2, n, {"active"}, FALSE))
      PROVE  {rels[i].subject, rels[i].object} \subseteq
               JoinedBy(seed, Range(Neighbors(seed, 2, n, {"active"}, FALSE)))[2]
  <2>1. PICK edges : edges = Range(Neighbors(seed, 2, n, {"active"}, FALSE))
    OBVIOUS
  <2>2. i \in edges
    BY <2>1, Zenon
  <2>7. n \in Nat
    OBVIOUS
  <2>5. seed \in Keys /\ Seeded(seed, FALSE)
    OBVIOUS
  <2>3. {rels[i].subject, rels[i].object} \subseteq Grown(edges, Grown(edges, {seed}))
    BY <1>1, <2>1, <2>2, <2>5, <2>7, Connected
  <2>4. JoinedBy(seed, edges)[2] = Grown(edges, Grown(edges, {seed}))
    BY JoinedIs
  <2>6. QED
    BY <2>1, <2>3, <2>4
<1>2. QED
  BY <1>1, Zenon DEF NeighborsConnected, JoinedBy, JoinedTo, Grown

\* The relationships that a step from k shows when nothing is cut.
AllAround(k) == Range(Neighbors(k, 1, Len(rels) + 1, {"active"}, FALSE))

LEMMA AroundIs ==
  ASSUME TypeOK, NEW k \in Keys
  PROVE  AllAround(k) = Near(Walk(k, 1, {"active"}, FALSE))
<1>1. PICK w : w = Walk(k, 1, {"active"}, FALSE)
  OBVIOUS
<1>2. PICK d \in Nat : d = 1
  OBVIOUS
<1>3. Walked(w, k, d)
  BY <1>1, <1>2, WalkIs
<1>4. /\ Lists(NearList(w), Near(w), NearOrder(w))
      /\ IsFiniteSet(Near(w)) /\ Cardinality(Near(w)) <= Len(rels)
  BY <1>3, NearListed
<1>5. PICK n \in Nat : n = Len(rels) + 1
  BY RelTypes
<1>6. AllAround(k) = Range(AtMost(n, NearList(w)))
  BY <1>1, <1>5, NeighborsAre, Zenon DEF AllAround
<1>7. Cardinality(Near(w)) <= n
  <2>1. Cardinality(Near(w)) \in Nat /\ Len(rels) \in Nat
    BY <1>4, FS_CardinalityType, RelTypes
  <2>2. QED
    BY <1>4, <1>5, <2>1
<1>8. Range(AtMost(n, NearList(w))) = Near(w)
  <2>1. Range(AtMost(n, NearList(w))) \subseteq Near(w)
    BY <1>4, CutKeepsFirst
  <2>2. Near(w) \subseteq Range(AtMost(n, NearList(w)))
    BY <1>4, <1>7, CutKeepsFirst
  <2>3. QED
    BY <2>1, <2>2, Zenon
<1>9. QED
  BY <1>1, <1>6, <1>8

LEMMA ReadersMeet == TypeOK => ReadersAgree
<1> SUFFICES ASSUME TypeOK, EdgesBacked
             PROVE  FullEdges = UNION {AllAround(k) : k \in {k \in Keys : ent[k].status = "active"}}
  BY Zenon DEF ReadersAgree, AllAround
<1>1. ASSUME NEW i \in FullEdges
      PROVE  \E k \in {k \in Keys : ent[k].status = "active"} : i \in AllAround(k)
  <2>1. PICK s, o : s = rels[i].subject /\ o = rels[i].object
    OBVIOUS
  <2>2. i \in DOMAIN rels /\ rels[i].status = "active"
    BY DEF FullEdges, Live
  <2>3. ent[s].status = "active" /\ ent[o].status = "active"
    BY <2>1 DEF FullEdges
  <2>4. s \in Keys /\ o \in Keys /\ rels[i].memory \in 0..Len(mem)
    BY <2>1, <2>2, RelTypes
  <2>5. Open(s, FALSE) /\ Open(o, FALSE)
    BY <2>3 DEF Open
  <2>6. ActiveEdge(i)
    <3>1. rels[i].memory = NoMemory \/ mem[rels[i].memory].active
      BY <2>2 DEF EdgesBacked, Live
    <3>2. rels[i].memory # NoMemory => rels[i].memory \in DOMAIN mem
      BY <2>4, Tables DEF NoMemory
    <3>3. QED
      BY <2>2, <3>1, <3>2 DEF ActiveEdge, Walkable, Alive
  <2>7. PICK w : w = Walk(s, 1, {"active"}, FALSE)
    OBVIOUS
  <2>8. PICK d \in Nat : d = 1
    OBVIOUS
  <2>9. Walked(w, s, d)
    BY <2>4, <2>7, <2>8, WalkIs
  <2>10. <<s, 0>> \in w
    BY <2>9 DEF Walked
  <2>11. <<o, 1>> \in w
    <3>1. PICK q : q = <<s, 0>>
      OBVIOUS
    <3>2. q \in w /\ q[1] = s /\ q[2] = 0 /\ q[2] < d
      BY <2>8, <2>10, <3>1
    <3>3. Between(i, q[1], o)
      BY <2>1, <3>2 DEF Between
    <3>4. <<o, q[2] + 1>> \in w
      BY <2>2, <2>4, <2>5, <2>6, <2>9, <3>2, <3>3 DEF Walked
    <3>5. QED
      BY <3>2, <3>4
  <2>12. s \in Reached(w) /\ o \in Reached(w)
    BY <2>10, <2>11 DEF Reached
  <2>13. i \in Near(w)
    BY <2>1, <2>2, <2>5, <2>6, <2>12 DEF Near
  <2>14. i \in AllAround(s)
    BY <2>4, <2>7, <2>13, AroundIs
  <2>15. QED
    BY <2>3, <2>4, <2>14
<1>2. ASSUME NEW k \in Keys, NEW i \in AllAround(k) PROVE i \in FullEdges
  <2>1. i \in Near(Walk(k, 1, {"active"}, FALSE))
    BY <1>2, AroundIs
  <2>2. i \in Live(rels)
    BY <2>1 DEF Near, ActiveEdge, Walkable, Live
  <2>3. QED
    BY <2>2 DEF EdgesBacked, FullEdges
<1>3. QED
  BY <1>1, <1>2

-----------------------------------------------------------------------------
(* Contexts *)

AliveSet == {m \in DOMAIN mem : Alive(m)}
Memories(k) == {m \in DOMAIN mem : Alive(m) /\ mem[m].key = k}
NewestFirst(S) == {p \in S \X S : p[1] > p[2]}

LEMMA MemoriesListed ==
  ASSUME TypeOK, NEW k
  PROVE  /\ MemoriesOf(k) \in Seq(AliveSet) /\ Once(MemoriesOf(k))
         /\ \A j \in DOMAIN MemoriesOf(k) : mem[MemoriesOf(k)[j]].key = k
<1> DEFINE S == Memories(k)
           R == NewestFirst(S)
           place == [x \in S |-> 1 + Cardinality({y \in S : y > x})]
<1>1. S \subseteq Nat /\ IsFiniteSet(S)
  <2>1. S \subseteq 1..Len(mem) /\ Len(mem) \in Nat
    BY Tables DEF Memories
  <2>2. PICK n \in Nat : n = Len(mem)
    BY <2>1
  <2>3. IsFiniteSet(1..n)
    BY FS_Interval
  <2>4. QED
    BY <2>1, <2>2, <2>3, FS_Subset
<1>2. \A x, y \in S : <<x, y>> \in R <=> x > y
  BY DEF NewestFirst
<1>3. MemoriesOf(k) = [n \in 1..Cardinality(S) |-> CHOOSE x \in S : place[x] = n]
  BY Zenon DEF MemoriesOf, Ordered, Memories
<1>4. S \subseteq AliveSet /\ \A m \in S : mem[m].key = k
  BY DEF Memories, AliveSet
<1> HIDE DEF S, R
<1>5. StrictOrder(S, R)
  BY <1>1, <1>2 DEF StrictOrder
<1>6. place = Standing(S, R)
  <2>1. \A x \in S : {y \in S : y > x} = {y \in S : <<y, x>> \in R}
    BY <1>2
  <2>2. QED
    BY <2>1 DEF Standing
<1> HIDE DEF place
<1>7. MemoriesOf(k) = Listing(S, R)
  BY <1>3, <1>6 DEF Listing
<1>8. PICK s : s = MemoriesOf(k)
  OBVIOUS
<1>9. Lists(s, S, R)
  BY <1>1, <1>5, <1>7, <1>8, ListingIs
<1>10. Once(s)
  BY <1>5, <1>9, ListsOnce
<1>11. s \in Seq(S)
  BY <1>9 DEF Lists
<1>12. s \in Seq(AliveSet)
  BY <1>4, <1>11, SeqOver
<1>13. \A j \in DOMAIN s : mem[s[j]].key = k
  BY <1>4, <1>11
<1>14. QED
  BY <1>8, <1>10, <1>12, <1>13

\* Nearer entities come first, and of two as near the one with the lesser key.
Nearer(w, j, k) == Depth(w, j) < Depth(w, k) \/ (Depth(w, j) = Depth(w, k) /\ j < k)
NearerPairs(w, S) == {p \in S \X S : Nearer(w, p[1], p[2])}
Around(seed, edges) == {seed} \cup UNION {{rels[i].subject, rels[i].object} : i \in edges}

LEMMA EntitiesListed ==
  ASSUME TypeOK, NEW d \in Nat, NEW w, NEW seed \in Keys, Walked(w, seed, d),
         NEW edges, edges \subseteq Near(w)
  PROVE  NeighborEntities(w, seed, edges) \in Seq(Keys) /\ Once(NeighborEntities(w, seed, edges))
<1>0. ASSUME NEW x \in Reached(w)
      PROVE  /\ x \in Keys /\ Depth(w, x) \in 0..d /\ <<x, Depth(w, x)>> \in w
             /\ \A l \in 0..d : <<x, l>> \in w => Depth(w, x) <= l
             /\ x = seed <=> Depth(w, x) = 0
  BY DepthIs
<1> DEFINE S == Around(seed, edges)
           R == NearerPairs(w, S)
           place == [x \in S |-> 1 + Cardinality({y \in S : Nearer(w, y, x)})]
<1>1. S \subseteq Reached(w)
  <2>1. <<seed, 0>> \in w
    BY DEF Walked
  <2>2. seed \in Reached(w)
    <3>1. PICK p : p = <<seed, 0>>
      OBVIOUS
    <3>2. p \in w /\ p[1] = seed
      BY <2>1, <3>1
    <3>3. QED
      BY <3>2 DEF Reached
  <2>3. \A i \in edges : {rels[i].subject, rels[i].object} \subseteq Reached(w)
    BY DEF Near
  <2>4. QED
    BY <2>2, <2>3 DEF Around
<1>2. NeighborEntities(w, seed, edges)
        = [n \in 1..Cardinality(S) |-> CHOOSE x \in S : place[x] = n]
  BY Zenon DEF NeighborEntities, Ordered, Around, Nearer
<1> HIDE DEF S
<1>3. \A x, y \in S : <<x, y>> \in R <=> Nearer(w, x, y)
  BY DEF NearerPairs
<1> HIDE DEF R
<1>4. S \subseteq Keys /\ \A x \in S : Depth(w, x) \in Nat /\ x \in Nat
  <2>1. Keys \subseteq Nat
    BY GraphAssumption
  <2>2. \A x \in S : x \in Keys /\ Depth(w, x) \in 0..d
    BY <1>0, <1>1
  <2>3. S \subseteq Keys
    BY <2>2
  <2>4. \A x \in S : Depth(w, x) \in Nat
    BY <2>2
  <2>5. QED
    BY <2>1, <2>3, <2>4
<1>5. IsFiniteSet(S)
  BY <1>4, GraphAssumption, FS_Subset
<1>6. StrictOrder(S, R)
  <2>1. \A x \in S : ~Nearer(w, x, x)
    BY <1>4 DEF Nearer
  <2>2. \A x, y \in S : x # y => Nearer(w, x, y) \/ Nearer(w, y, x)
    BY <1>4 DEF Nearer
  <2>3. \A x, y, z \in S : Nearer(w, x, y) /\ Nearer(w, y, z) => Nearer(w, x, z)
    BY <1>4 DEF Nearer
  <2>4. QED
    BY <1>3, <2>1, <2>2, <2>3 DEF StrictOrder
<1>7. place = Standing(S, R)
  <2>1. \A x \in S : {y \in S : Nearer(w, y, x)} = {y \in S : <<y, x>> \in R}
    BY <1>3
  <2>2. QED
    BY <2>1 DEF Standing
<1> HIDE DEF place
<1>8. NeighborEntities(w, seed, edges) = Listing(S, R)
  BY <1>2, <1>7 DEF Listing
<1>9. PICK s : s = NeighborEntities(w, seed, edges)
  OBVIOUS
<1>10. Lists(s, S, R)
  BY <1>5, <1>6, <1>8, <1>9, ListingIs
<1>11. Once(s)
  BY <1>6, <1>10, ListsOnce
<1>12. s \in Seq(S)
  BY <1>10 DEF Lists
<1>13. s \in Seq(Keys)
  BY <1>4, <1>12, SeqOver
<1>14. QED
  BY <1>9, <1>11, <1>13

\* The evidence of edges that are walked is alive.
LEMMA EvidenceAlive ==
  ASSUME TypeOK, NEW w, NEW edges \in Seq(Near(w))
  PROVE  Evidence(edges) \in Seq(AliveSet)
<1> DEFINE T == {NoMemory} \cup AliveSet
           f == [i \in DOMAIN edges |-> rels[edges[i]].memory]
<1>1. \A i \in DOMAIN edges : edges[i] \in Near(w)
  OBVIOUS
<1>2. \A j \in Near(w) : rels[j].memory \in T
  BY DEF Near, ActiveEdge, Walkable, Alive, AliveSet
<1>3. f \in Seq(T)
  <2>1. DOMAIN edges = 1..Len(edges) /\ Len(edges) \in Nat
    OBVIOUS
  <2>2. \A i \in 1..Len(edges) : rels[edges[i]].memory \in T
    BY <1>1, <1>2, <2>1
  <2> HIDE DEF T
  <2>3. QED
    BY <2>1, <2>2
<1> HIDE DEF f, T
<1>4. PICK t : t = Among(f, Nat \ {NoMemory})
  OBVIOUS
<1>5. t \in Seq(T \cap (Nat \ {NoMemory}))
  BY <1>3, <1>4, AmongEntries
<1>6. T \cap (Nat \ {NoMemory}) \subseteq AliveSet
  BY DEF T
<1>7. t \in Seq(AliveSet)
  BY <1>5, <1>6, SeqOver
<1>8. Evidence(edges) = Distinct(t)
  BY <1>4, Zenon DEF Evidence, f
<1>9. QED
  BY <1>7, <1>8, DistinctIs

Owned == [k \in Keys |-> MemoriesOf(k)]
Capped(m) == [k \in Keys |-> AtMost(m, MemoriesOf(k))]

LEMMA OwnedTypes ==
  ASSUME TypeOK, NEW m \in Nat
  PROVE  /\ Owned \in [Keys -> Seq(AliveSet)] /\ Capped(m) \in [Keys -> Seq(AliveSet)]
         /\ \A k \in Keys : Capped(m)[k] = AtMost(m, Owned[k])
<1>1. \A k \in Keys : MemoriesOf(k) \in Seq(AliveSet)
  BY MemoriesListed
<1>2. ASSUME NEW k \in Keys PROVE AtMost(m, MemoriesOf(k)) \in Seq(AliveSet)
  BY <1>1, FirstEntries
<1>3. QED
  BY <1>1, <1>2 DEF Owned, Capped

\* The memories of a list of entities, all of them or a few of each.
LEMMA AllOfEach ==
  ASSUME TypeOK, NEW s \in Seq(Keys)
  PROVE  \E c : Flattens(Owned, s, AliveSet, c) /\ EachIn(MemoriesOf, s) = c[Len(s)]
<1>1. PICK lists : lists = [i \in 1..Len(s) |-> MemoriesOf(s[i])]
  OBVIOUS
<1>2. EachIn(MemoriesOf, s) = FlattenSeq(lists)
  <2>1. DOMAIN s = 1..Len(s) /\ Len(s) \in Nat
    OBVIOUS
  <2>2. EachIn(MemoriesOf, s) = FlattenSeq(SubSeq(lists, 1, Len(s)))
    BY <1>1, <2>1, Zenon DEF EachIn, Each
  <2>3. SubSeq(lists, 1, Len(s)) = lists
    BY <1>1, <2>1, EachIs
  <2>4. QED
    BY <2>2, <2>3, Zenon
<1>3. \A i \in 1..Len(s) : lists[i] = Owned[s[i]]
  BY <1>1 DEF Owned
<1>4. PICK m \in Nat : m = 0
  OBVIOUS
<1>5. Owned \in [Keys -> Seq(AliveSet)]
  BY <1>4, OwnedTypes
<1>6. PICK T, f : T = AliveSet /\ f = Owned
  OBVIOUS
<1>7. lists \in Seq(Seq(T)) /\ Len(lists) = Len(s)
  BY <1>1, <1>3, <1>5, <1>6
<1>8. \E c : Flattens(f, s, T, c) /\ FlattenSeq(lists) = c[Len(s)]
  <2>1. f \in [Keys -> Seq(T)] /\ Makes(lists, f, s)
    BY <1>3, <1>5, <1>6, <1>7 DEF Makes
  <2>2. QED
    BY <1>7, <2>1, Flattened
<1>9. QED
  BY <1>2, <1>6, <1>8, Zenon

LEMMA FewOfEach ==
  ASSUME TypeOK, NEW n \in Nat, NEW s \in Seq(Keys)
  PROVE  \E b : /\ Flattens(Capped(n + 1), s, AliveSet, b)
                /\ EachIn(LAMBDA k : AtMost(n + 1, MemoriesOf(k)), s) = b[Len(s)]
<1>1. PICK lists : lists = [i \in 1..Len(s) |-> AtMost(n + 1, MemoriesOf(s[i]))]
  OBVIOUS
<1>2. EachIn(LAMBDA k : AtMost(n + 1, MemoriesOf(k)), s) = FlattenSeq(lists)
  <2>1. DOMAIN s = 1..Len(s) /\ Len(s) \in Nat
    OBVIOUS
  <2>2. EachIn(LAMBDA k : AtMost(n + 1, MemoriesOf(k)), s) = FlattenSeq(SubSeq(lists, 1, Len(s)))
    BY <1>1, <2>1, Zenon DEF EachIn, Each
  <2>3. SubSeq(lists, 1, Len(s)) = lists
    BY <1>1, <2>1, EachIs
  <2>4. QED
    BY <2>2, <2>3, Zenon
<1>3. PICK m \in Nat : m = n + 1
  OBVIOUS
<1>4. \A i \in 1..Len(s) : lists[i] = Capped(m)[s[i]]
  BY <1>1, <1>3 DEF Capped
<1>5. Capped(m) \in [Keys -> Seq(AliveSet)]
  BY OwnedTypes
<1>6. PICK T, f : T = AliveSet /\ f = Capped(m)
  OBVIOUS
<1>7. lists \in Seq(Seq(T)) /\ Len(lists) = Len(s)
  BY <1>1, <1>4, <1>5, <1>6
<1>8. \E c : Flattens(f, s, T, c) /\ FlattenSeq(lists) = c[Len(s)]
  <2>1. f \in [Keys -> Seq(T)] /\ Makes(lists, f, s)
    BY <1>4, <1>5, <1>6, <1>7 DEF Makes
  <2>2. QED
    BY <1>7, <2>1, Flattened
<1>9. QED
  BY <1>2, <1>3, <1>6, <1>8, Zenon

\* What the caps leave, after the evidence, begins with the same n memories.
LEMMA CapsKeepStart ==
  ASSUME TypeOK, NEW n \in Nat, NEW e \in Nat, NEW s \in Seq(Keys), Once(s),
         NEW a \in Seq(AliveSet)
  PROVE  LET few == Distinct(a \o EntityMemories(s, e, n))
             all == Distinct(a \o EachIn(MemoriesOf, s))
         IN  /\ few \in Seq(AliveSet) /\ Len(few) <= Len(all)
             /\ AtMost(n, few) = AtMost(n, all)
<1>1. PICK c : Flattens(Owned, s, AliveSet, c) /\ EachIn(MemoriesOf, s) = c[Len(s)]
  BY AllOfEach
<1>2. PICK b : /\ Flattens(Capped(n + 1), s, AliveSet, b)
               /\ EachIn(LAMBDA k : AtMost(n + 1, MemoriesOf(k)), s) = b[Len(s)]
  BY FewOfEach
<1>3. PICK m \in Nat : m = n + 1
  OBVIOUS
<1>4. /\ Owned \in [Keys -> Seq(AliveSet)] /\ Capped(m) \in [Keys -> Seq(AliveSet)]
      /\ \A k \in Keys : Capped(m)[k] = AtMost(m, Owned[k])
  BY OwnedTypes
<1>5. PICK B, C : B = b[Len(s)] /\ C = c[Len(s)]
  OBVIOUS
<1>6. Flattens(Capped(m), s, AliveSet, b)
  BY <1>2, <1>3
<1>7. Within(B, C) /\ (B = C \/ Alike(m, B, C))
  BY <1>1, <1>4, <1>5, <1>6, FlatCut
<1>8. B \in Seq(AliveSet) /\ C \in Seq(AliveSet)
  BY <1>1, <1>5, <1>6 DEF Flattens
<1>9. Once(C)
  <2>1. PICK o : o = [x \in DOMAIN mem |-> mem[x].key]
    OBVIOUS
  <2>2. \A k \in Keys : Once(Owned[k]) /\ \A j \in DOMAIN Owned[k] : o[Owned[k][j]] = k
    <3> TAKE k \in Keys
    <3>1. PICK l : l = Owned[k]
      OBVIOUS
    <3>2. l = MemoriesOf(k)
      BY <3>1 DEF Owned
    <3>3. l \in Seq(AliveSet) /\ Once(l) /\ \A j \in DOMAIN l : mem[l[j]].key = k
      BY <3>2, MemoriesListed
    <3>4. \A j \in DOMAIN l : l[j] \in DOMAIN mem
      BY <3>3 DEF AliveSet
    <3>5. QED
      BY <2>1, <3>1, <3>3, <3>4
  <2>3. PICK f, T : f = Owned /\ T = AliveSet
    OBVIOUS
  <2>4. f \in [Keys -> Seq(T)] /\ Flattens(f, s, T, c)
    BY <1>1, <1>4, <2>3, Zenon
  <2>5. \A k \in Keys : Once(f[k]) /\ \A j \in DOMAIN f[k] : o[f[k][j]] = k
    BY <2>2, <2>3, Zenon
  <2>6. Once(c[Len(s)])
    BY <2>4, <2>5, FlatOnce
  <2>7. QED
    BY <1>5, <2>6, Zenon
<1>10. PICK x : x = AtMost(n + e, B)
  OBVIOUS
<1>11. /\ x \in Seq(AliveSet) /\ DOMAIN x = {i \in DOMAIN B : i <= n + e}
       /\ \A i \in DOMAIN x : x[i] = B[i]
  <2>1. PICK l, T : l = n + e /\ T = AliveSet /\ l \in Nat
    OBVIOUS
  <2>2. B \in Seq(T) /\ x = AtMost(l, B)
    BY <1>8, <1>10, <2>1
  <2>3. l \in Nat
    BY <2>1
  <2>4. /\ AtMost(l, B) \in Seq(T)
        /\ DOMAIN AtMost(l, B) = {i \in DOMAIN B : i <= l}
        /\ \A i \in DOMAIN AtMost(l, B) : AtMost(l, B)[i] = B[i]
    BY <2>2, <2>3, FirstEntries
  <2>5. QED
    BY <2>1, <2>2, <2>4, Zenon
<1>12. EntityMemories(s, e, n) = x
  BY <1>2, <1>5, <1>10, Zenon DEF EntityMemories
<1>13. PICK u, v : u = a \o x /\ v = a \o C
  OBVIOUS
<1>14. PICK A \in Nat, X \in Nat, Y \in Nat, Z \in Nat :
         A = Len(a) /\ X = Len(x) /\ Y = Len(B) /\ Z = Len(C)
  <2>1. Len(a) \in Nat /\ Len(x) \in Nat
    BY <1>11
  <2>2. Len(B) \in Nat /\ Len(C) \in Nat
    BY <1>8
  <2>3. QED
    BY <2>1, <2>2, Zenon
<1>15. DOMAIN a = 1..A /\ DOMAIN x = 1..X /\ DOMAIN B = 1..Y /\ DOMAIN C = 1..Z
  BY <1>8, <1>11, <1>14
<1>16. X <= Y /\ (X = Y \/ X = n + e)
  <2>1. 1..X = {i \in 1..Y : i <= n + e}
    BY <1>11, <1>15
  <2>2. X <= Y
    <3>1. CASE X = 0
      BY <3>1
    <3>2. CASE X # 0
      <4>1. X \in 1..X
        BY <3>2
      <4>2. X \in {i \in 1..Y : i <= n + e}
        BY <2>1, <4>1
      <4>3. QED
        BY <4>2
    <3>3. QED
      BY <3>1, <3>2
  <2>3. X <= n + e
    <3>1. CASE X = 0
      BY <3>1
    <3>2. CASE X # 0
      <4>1. X \in 1..X
        BY <3>2
      <4>2. X \in {i \in 1..Y : i <= n + e}
        BY <2>1, <4>1
      <4>3. QED
        BY <4>2
    <3>3. QED
      BY <3>1, <3>2
  <2>4. ASSUME X < Y, X < n + e PROVE FALSE
    <3>1. X + 1 \in 1..Y /\ X + 1 <= n + e /\ X + 1 \notin 1..X
      BY <2>4
    <3>2. X + 1 \in {i \in 1..Y : i <= n + e}
      BY <3>1
    <3>3. QED
      BY <2>1, <3>1, <3>2
  <2>5. QED
    BY <2>2, <2>3, <2>4
<1>17. /\ u \in Seq(AliveSet) /\ Len(u) = A + X /\ DOMAIN u = 1..(A + X)
       /\ \A i \in 1..A : u[i] = a[i]
       /\ \A i \in 1..X : u[A + i] = x[i]
  <2>1. /\ a \o x \in Seq(AliveSet) /\ Len(a \o x) = Len(a) + Len(x)
        /\ \A i \in 1..Len(a) : (a \o x)[i] = a[i]
        /\ \A i \in 1..Len(x) : (a \o x)[Len(a) + i] = x[i]
    BY <1>11, Appended
  <2>2. /\ u \in Seq(AliveSet) /\ Len(u) = A + X
        /\ \A i \in 1..A : u[i] = a[i]
        /\ \A i \in 1..X : u[A + i] = x[i]
    BY <1>13, <1>14, <2>1, Zenon
  <2>3. QED
    BY <2>2
<1>18. /\ v \in Seq(AliveSet) /\ Len(v) = A + Z /\ DOMAIN v = 1..(A + Z)
       /\ \A i \in 1..A : v[i] = a[i]
       /\ \A i \in 1..Z : v[A + i] = C[i]
  <2>1. /\ a \o C \in Seq(AliveSet) /\ Len(a \o C) = Len(a) + Len(C)
        /\ \A i \in 1..Len(a) : (a \o C)[i] = a[i]
        /\ \A i \in 1..Len(C) : (a \o C)[Len(a) + i] = C[i]
    BY <1>8, Appended
  <2>2. /\ v \in Seq(AliveSet) /\ Len(v) = A + Z
        /\ \A i \in 1..A : v[i] = a[i]
        /\ \A i \in 1..Z : v[A + i] = C[i]
    BY <1>13, <1>14, <2>1, Zenon
  <2>3. QED
    BY <2>2
<1>19. Within(u, v)
  <2> SUFFICES ASSUME NEW i \in 1..(A + X) PROVE \E j \in 1..(A + Z) : u[i] = v[j]
    BY <1>17, <1>18 DEF Within
  <2>1. CASE i \in 1..A
    <3>1. i \in 1..(A + Z)
      BY <2>1
    <3>2. QED
      BY <1>17, <1>18, <2>1, <3>1
  <2>2. CASE i \notin 1..A
    <3>1. PICK j \in 1..X : i = A + j
      <4>1. i - A \in 1..X /\ i = A + (i - A)
        BY <2>2
      <4>2. QED
        BY <4>1
    <3>2. j \in 1..Y /\ x[j] = B[j]
      BY <1>11, <1>15, <1>16
    <3>3. PICK k \in 1..Z : B[j] = C[k]
      BY <1>7, <1>15, <3>2 DEF Within
    <3>4. A + k \in 1..(A + Z)
      OBVIOUS
    <3>5. QED
      BY <1>17, <1>18, <3>1, <3>2, <3>3, <3>4
  <2>3. QED
    BY <2>1, <2>2
<1>20. Distinct(u) \in Seq(AliveSet) /\ Len(Distinct(u)) <= Len(Distinct(v))
  BY <1>17, <1>18, <1>19, DistinctIs, FewerDistinct
\* Either nothing was cut, or the two lists share n entries beyond the evidence.
<1>21. u = v \/ (n <= X /\ n <= Z /\ \A i \in 1..n : x[i] = C[i])
  <2>1. CASE B = C /\ X = Y
    <3>1. x = C
      <4>1. DOMAIN x = DOMAIN C /\ \A i \in DOMAIN x : x[i] = C[i]
        BY <1>11, <1>15, <2>1
      <4>2. \A p, q \in Seq(AliveSet) :
              DOMAIN p = DOMAIN q /\ (\A i \in DOMAIN p : p[i] = q[i]) => p = q
        OBVIOUS
      <4>3. QED
        BY <1>8, <1>11, <4>1, <4>2, Zenon
    <3>2. QED
      BY <1>13, <3>1
  <2>2. CASE B = C /\ X = n + e
    <3>1. n <= X /\ n <= Z
      BY <1>14, <1>16, <2>2
    <3>2. \A i \in 1..n : i \in 1..X
      BY <3>1
    <3>3. QED
      BY <1>11, <1>15, <2>2, <3>1, <3>2
  <2>3. CASE Alike(m, B, C)
    <3>1. m <= Y /\ m <= Z /\ \A i \in 1..m : B[i] = C[i]
      BY <1>14, <2>3 DEF Alike
    <3>2. n <= X /\ n <= Z
      BY <1>3, <1>16, <3>1
    <3>3. \A i \in 1..n : i \in 1..X /\ i \in 1..m
      BY <1>3, <3>2
    <3>4. QED
      BY <1>11, <1>15, <3>1, <3>2, <3>3
  <2>4. QED
    BY <1>7, <1>16, <2>1, <2>2, <2>3
<1>22. AtMost(n, Distinct(u)) = AtMost(n, Distinct(v))
  <2>1. CASE u = v
    BY <2>1
  <2>2. CASE n <= X /\ n <= Z /\ \A i \in 1..n : x[i] = C[i]
    <3>1. PICK p \in Nat : p = A + n
      OBVIOUS
    <3>2. p <= Len(u) /\ p <= Len(v) /\ A + n <= p
      BY <1>17, <1>18, <2>2, <3>1
    <3>3. ASSUME NEW i \in 1..p, i \notin 1..A
          PROVE  i - A \in 1..n /\ i - A \in 1..X /\ i - A \in 1..Z /\ A + (i - A) = i
      BY <2>2, <3>1, <3>3
    <3>4. \A i \in 1..p : u[i] = v[i]
      <4> TAKE i \in 1..p
      <4>1. CASE i \in 1..A
        BY <1>17, <1>18, <4>1
      <4>2. CASE i \notin 1..A
        <5>1. PICK j : j = i - A
          OBVIOUS
        <5>2. j \in 1..n /\ j \in 1..X /\ j \in 1..Z /\ A + j = i
          BY <3>3, <4>2, <5>1
        <5>3. u[A + j] = x[j] /\ v[A + j] = C[j] /\ x[j] = C[j]
          BY <1>17, <1>18, <2>2, <5>2
        <5>4. QED
          BY <5>2, <5>3
      <4>3. QED
        BY <4>1, <4>2
    <3>5. \A i, j \in (A + 1)..(A + n) : u[i] = u[j] => i = j
      <4> SUFFICES ASSUME NEW i \in (A + 1)..(A + n), NEW j \in (A + 1)..(A + n), u[i] = u[j]
                   PROVE  i = j
        OBVIOUS
      <4>1. PICK k, l : k = i - A /\ l = j - A
        OBVIOUS
      <4>2. /\ k \in 1..n /\ k \in 1..X /\ k \in 1..Z /\ A + k = i
            /\ l \in 1..n /\ l \in 1..X /\ l \in 1..Z /\ A + l = j
        BY <2>2, <4>1
      <4>3. C[k] = C[l]
        BY <1>17, <2>2, <4>2
      <4>4. k = l
        BY <1>9, <1>15, <4>2, <4>3 DEF Once
      <4>5. QED
        BY <4>2, <4>4
    <3>6. QED
      <4>1. PICK T : T = AliveSet
        OBVIOUS
      <4>2. u \in Seq(T) /\ v \in Seq(T)
        BY <1>17, <1>18, <4>1
      <4>3. Alike(p, u, v) /\ OnceIn(u, A, n) /\ A + n <= p
        BY <3>2, <3>4, <3>5, Zenon DEF Alike, OnceIn
      <4>4. QED
        BY <4>2, <4>3, StartDecides
  <2>3. QED
    BY <1>21, <2>1, <2>2
<1>23. QED
  BY <1>1, <1>5, <1>12, <1>13, <1>20, <1>22

LEMMA CapsUnseen == TypeOK => CapsAreInvisible
<1> DEFINE near(seed) == Neighborhood(seed, 2, 2)
           few(seed, n) == Distinct(Evidence(near(seed).edges) \o
                                    EntityMemories(near(seed).entities, Len(near(seed).edges), n))
           all(seed) == Distinct(Evidence(near(seed).edges) \o EachIn(MemoriesOf, near(seed).entities))
<1>1. ASSUME TypeOK, NEW seed \in {k \in Keys : Seeded(k, FALSE)}, NEW n \in 1..2
      PROVE  /\ Context(seed, 2, 2, n).ids = AtMost(n, all(seed))
             /\ Context(seed, 2, 2, n).truncated => Len(all(seed)) > n
  <2>1. seed \in Keys /\ n \in Nat
    OBVIOUS
  <2>2. PICK w : w = Walk(seed, 2, {"active"}, FALSE)
    OBVIOUS
  <2>3. PICK d \in Nat : d = 2
    OBVIOUS
  <2>4. Walked(w, seed, d)
    BY <2>1, <2>2, <2>3, WalkIs
  <2>5. PICK edges : edges = AtMost(d, NearList(w))
    OBVIOUS
  <2>6. edges \in Seq(Near(w))
    <3>1. Lists(NearList(w), Near(w), NearOrder(w))
      BY <1>1, <2>1, <2>4, NearListed
    <3>2. NearList(w) \in Seq(Near(w))
      BY <3>1 DEF Lists
    <3>3. QED
      BY <2>5, <3>2, FirstEntries
  <2>7. PICK s : s = NeighborEntities(w, seed, Range(edges))
    OBVIOUS
  <2>8. near(seed) = [edges |-> edges, entities |-> s]
    BY <2>2, <2>3, <2>5, <2>7, NeighborsAre, Zenon DEF Neighborhood
  <2>9. near(seed).edges = edges /\ near(seed).entities = s
    BY <2>8
  <2>10. s \in Seq(Keys) /\ Once(s)
    <3>1. Range(edges) \subseteq Near(w)
      <4>1. \A i \in DOMAIN edges : edges[i] \in Near(w)
        BY <2>6
      <4>2. QED
        BY <4>1 DEF Range
    <3>2. QED
      BY <1>1, <2>1, <2>4, <2>7, <3>1, EntitiesListed
  <2>11. PICK a : a = Evidence(edges)
    OBVIOUS
  <2>12. a \in Seq(AliveSet)
    BY <1>1, <2>6, <2>11, EvidenceAlive
  <2>13. PICK e \in Nat : e = Len(edges)
    BY <2>6
  <2>14. PICK f, g : f = few(seed, n) /\ g = all(seed)
    OBVIOUS
  <2>15. f = Distinct(a \o EntityMemories(s, e, n)) /\ g = Distinct(a \o EachIn(MemoriesOf, s))
    BY <2>9, <2>11, <2>13, <2>14, Zenon
  <2>16. f \in Seq(AliveSet) /\ Len(f) <= Len(g) /\ AtMost(n, f) = AtMost(n, g)
    BY <1>1, <2>1, <2>10, <2>12, <2>15, CapsKeepStart
  <2>17. Among(f, AliveSet) = f
    BY <2>16, AmongAll
  <2>18. Context(seed, 2, 2, n) = [ids |-> AtMost(n, f), truncated |-> Len(f) > n]
    BY <2>14, <2>17, Zenon DEF Context, AliveSet
  <2>19. /\ Context(seed, 2, 2, n).ids = AtMost(n, f)
         /\ Context(seed, 2, 2, n).truncated = (Len(f) > n)
    <3>1. PICK x, t : x = AtMost(n, f) /\ t = (Len(f) > n)
      OBVIOUS
    <3>2. Context(seed, 2, 2, n) = [ids |-> x, truncated |-> t]
      BY <2>18, <3>1, Zenon
    <3>3. Context(seed, 2, 2, n).ids = x /\ Context(seed, 2, 2, n).truncated = t
      BY <3>2
    <3>4. QED
      BY <3>1, <3>3, Zenon
  <2>20. Len(f) > n => Len(g) > n
    <3>1. Len(f) \in Nat
      BY <2>16
    <3>2. Len(g) \in Nat
      <4>1. \E T : g \in Seq(T)
        <5>1. PICK c : Flattens(Owned, s, AliveSet, c) /\ EachIn(MemoriesOf, s) = c[Len(s)]
          BY <1>1, <2>10, AllOfEach
        <5>2. c[Len(s)] \in Seq(AliveSet)
          BY <2>10, <5>1 DEF Flattens
        <5>3. PICK x : x = a \o c[Len(s)]
          OBVIOUS
        <5>4. x \in Seq(AliveSet)
          BY <2>12, <5>2, <5>3
        <5>5. g = Distinct(x)
          BY <2>15, <5>1, <5>3, Zenon
        <5>6. QED
          BY <5>4, <5>5, DistinctIs
      <4>2. QED
        BY <4>1
    <3>3. QED
      BY <2>16, <3>1, <3>2
  <2>21. QED
    BY <2>14, <2>16, <2>19, <2>20
<1>2. QED
  BY <1>1, Zenon DEF CapsAreInvisible

\* Whatever was written, merged, captured, retired and dreamt, the readers serve
\* what the graph has: a cut neighbourhood hangs together, the caps of a context
\* never change what is in it, and when nothing has drifted the two readers show
\* the same relationships.
THEOREM ReadersAlwaysSound == Spec => []ReadersSound
<1>1. TypeOK => ReadersSound
  BY NeighborsHang, CapsUnseen, ReadersMeet DEF ReadersSound
<1>2. QED
  BY <1>1, TypeCorrect, PTL
==============================================================================
