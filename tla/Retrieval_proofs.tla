--------------------------- MODULE Retrieval_proofs ---------------------------
(***************************************************************************)
(* What searches find and what packs hold, for every store, request and    *)
(* model.                                                                  *)
(*                                                                         *)
(* The properties are about what a read answers in a state, so the         *)
(* inductive invariant is small: the types, the bound on the memories, and *)
(* that a relationship is in the space of its evidence.  The argument is   *)
(* about the answers: every arm is a list of recalled memories with a      *)
(* score, because ORDER BY is a strict order (it ends with an id); merging *)
(* keeps that and leaves no memory twice; the graph adds memories that the *)
(* arms did not find; and a pack is the beginning of a ranked pool.        *)
(*                                                                         *)
(* The last part is about SemanticIndex, which keeps the vectors that the  *)
(* searches compare with.                                                  *)
(***************************************************************************)
EXTENDS Retrieval, SemanticIndex, Rankings_proofs

IInv ==
  /\ TypeOK
  /\ Len(mem) <= MaxMemories
  /\ \A k \in DOMAIN rels : rels[k].space = mem[rels[k].memory].space

-----------------------------------------------------------------------------
(* The invariant *)

LEMMA InitIInv == Init => IInv
  BY RetrievalAssumption DEF Init, IInv, TypeOK

LEMMA RowsTyped ==
  ASSUME IInv
  PROVE  /\ DOMAIN mem = 1..Len(mem) /\ Len(mem) \in Nat
         /\ DOMAIN rels = 1..Len(rels) /\ Len(rels) \in Nat
         /\ \A i \in DOMAIN mem : mem[i] \in MemoryRow
         /\ \A k \in DOMAIN rels : /\ rels[k] \in RelationshipRow
                                   /\ rels[k].memory \in DOMAIN mem
                                   /\ rels[k].space = mem[rels[k].memory].space
  BY DEF IInv, TypeOK

LEMMA RememberIInv ==
  ASSUME IInv, NEW w, Remember(w)
  PROVE  IInv'
<1>1. NextId \in 1..MaxMemories /\ MaxMemories \in Nat /\ NextId = Len(mem) + 1
  BY RetrievalAssumption, RowsTyped DEF Remember, NextId
<1>2. w \in RememberRequest
  BY <1>1, RetrievalAssumption DEF Remember
<1>3. PICK row : row = [space |-> w.space, key |-> w.key, text |-> w.text, boost |-> w.boost,
                        pinned |-> w.pinned, until |-> w.until, vector |-> w.vector,
                        status |-> "active"]
  OBVIOUS
<1>4. row \in MemoryRow /\ row.space = w.space
  BY <1>2, <1>3 DEF RememberRequest, MemoryRow
<1>5. mem' = Append(mem, row)
  BY <1>3 DEF Remember
<1>6. mem \in Seq(MemoryRow)
  BY DEF IInv, TypeOK
<1>7. /\ Len(mem') = NextId /\ DOMAIN mem = 1..Len(mem) /\ DOMAIN mem' = 1..NextId
      /\ mem'[NextId] = row /\ \A i \in DOMAIN mem : mem'[i] = mem[i]
      /\ mem' \in Seq(MemoryRow) /\ DOMAIN mem \subseteq DOMAIN mem'
  BY <1>1, <1>4, <1>5, <1>6
<1>8. tokens' \subseteq DOMAIN mem' /\ lapsed' = lapsed
  BY <1>1, <1>7 DEF IInv, TypeOK, Remember
<1>9. lapsed' \subseteq {i \in DOMAIN mem' : mem'[i].until # "none"}
  BY <1>7, <1>8 DEF IInv, TypeOK
<1>10. /\ rels' \in Seq(RelationshipRow)
       /\ \A k \in DOMAIN rels' : rels'[k].memory \in DOMAIN mem'
                                  /\ rels'[k].space = mem'[rels'[k].memory].space
  <2>1. CASE w.edge = NoEdge
    <3>1. rels' = rels
      BY <2>1 DEF Remember
    <3>2. QED
      BY <1>7, <3>1 DEF IInv, TypeOK
  <2>2. CASE w.edge # NoEdge
    <3>1. PICK edge : edge = EdgeTo(w)
      OBVIOUS
    <3>2. w.edge \in Keys \X Keys /\ w.space \in Spaces
      BY <1>2, <2>2 DEF RememberRequest
    <3>3. edge \in RelationshipRow /\ edge.space = w.space /\ edge.memory = NextId
      BY <1>1, <3>1, <3>2 DEF EdgeTo, RelationshipRow
    <3>4. rels' = Append(rels, edge)
      BY <2>2, <3>1 DEF Remember
    <3>5. rels \in Seq(RelationshipRow)
      BY DEF IInv, TypeOK
    <3>6. /\ rels' \in Seq(RelationshipRow)
          /\ \A k \in DOMAIN rels' : (k \in DOMAIN rels /\ rels'[k] = rels[k]) \/ rels'[k] = edge
      BY <3>3, <3>4, <3>5
    <3>7. edge.memory \in DOMAIN mem' /\ edge.space = mem'[edge.memory].space
      BY <1>1, <1>4, <1>7, <3>3
    <3>8. \A k \in DOMAIN rels : rels[k].memory \in DOMAIN mem'
                                 /\ rels[k].space = mem'[rels[k].memory].space
      BY <1>7, RowsTyped
    <3>9. QED
      BY <3>6, <3>7, <3>8
  <2>3. QED
    BY <2>1, <2>2
<1>11. QED
  BY <1>1, <1>7, <1>8, <1>9, <1>10 DEF IInv, TypeOK

LEMMA DreamIInv ==
  ASSUME IInv, Dream
  PROVE  IInv'
<1>1. /\ DOMAIN mem' = DOMAIN mem
      /\ \A i \in DOMAIN mem : mem'[i] = mem[i] \/ mem'[i] = [mem[i] EXCEPT !.status = "retired"]
  BY DEF Dream
<1>2. \A i \in DOMAIN mem : /\ mem'[i] \in MemoryRow
                            /\ mem'[i].space = mem[i].space /\ mem'[i].until = mem[i].until
  BY <1>1, RowsTyped DEF MemoryRow
<1>3. mem' = [i \in 1..Len(mem) |-> mem'[i]] /\ Len(mem') = Len(mem)
  BY RowsTyped DEF Dream
<1>4. mem' \in Seq(MemoryRow)
  <2>1. PICK s, n : s = mem' /\ n = Len(mem)
    OBVIOUS
  <2>2. n \in Nat /\ s = [i \in 1..n |-> s[i]] /\ \A i \in 1..n : s[i] \in MemoryRow
    BY <1>2, <1>3, <2>1, RowsTyped
  <2>3. s \in Seq(MemoryRow)
    BY <2>2
  <2>4. QED
    BY <2>1, <2>3
<1>5. /\ DOMAIN rels' = DOMAIN rels /\ rels' = [k \in 1..Len(rels) |-> rels'[k]]
      /\ \A k \in DOMAIN rels :
           rels'[k] = rels[k] \/ rels'[k] = [rels[k] EXCEPT !.status = "tombstoned"]
  BY RowsTyped DEF Dream
<1>6. \A k \in DOMAIN rels :
        /\ rels'[k] \in RelationshipRow
        /\ rels'[k].space = rels[k].space /\ rels'[k].memory = rels[k].memory
  BY <1>5, RowsTyped DEF RelationshipRow
<1>7. rels' \in Seq(RelationshipRow)
  <2>1. PICK s, n : s = rels' /\ n = Len(rels)
    OBVIOUS
  <2>2. n \in Nat /\ s = [i \in 1..n |-> s[i]] /\ \A i \in 1..n : s[i] \in RelationshipRow
    BY <1>5, <1>6, <2>1, RowsTyped
  <2>3. s \in Seq(RelationshipRow)
    BY <2>2
  <2>4. QED
    BY <2>1, <2>3
<1>8. lapsed' = lapsed /\ tokens' = tokens
  BY DEF Dream
<1>9. TypeOK'
  BY <1>1, <1>2, <1>4, <1>5, <1>6, <1>7, <1>8 DEF IInv, TypeOK
<1>10. (\A k \in DOMAIN rels : rels[k].space = mem[rels[k].memory].space)'
  BY <1>2, <1>5, <1>6, RowsTyped
<1>11. QED
  BY <1>3, <1>9, <1>10 DEF IInv

LEMMA RetireIInv ==
  ASSUME IInv, NEW i \in DOMAIN mem, Retire(i)
  PROVE  IInv'
<1>1. PICK row : row = [mem[i] EXCEPT !.status = "retired"]
  OBVIOUS
<1>2. row \in MemoryRow /\ row.space = mem[i].space /\ row.until = mem[i].until
  BY <1>1, RowsTyped DEF MemoryRow
<1>3. mem' = [mem EXCEPT ![i] = row]
  BY <1>1 DEF Retire
<1>4. /\ mem' \in Seq(MemoryRow) /\ Len(mem') = Len(mem) /\ DOMAIN mem' = DOMAIN mem
      /\ \A j \in DOMAIN mem : mem'[j].space = mem[j].space /\ mem'[j].until = mem[j].until
  BY <1>2, <1>3 DEF IInv, TypeOK
<1>5. rels' = rels /\ lapsed' = lapsed /\ tokens' = tokens
  BY DEF Retire
<1>6. TypeOK'
  BY <1>4, <1>5 DEF IInv, TypeOK
<1>7. (\A k \in DOMAIN rels : rels[k].space = mem[rels[k].memory].space)'
  BY <1>4, <1>5, RowsTyped
<1>8. QED
  BY <1>4, <1>6, <1>7 DEF IInv

\* A step keeps the invariant.
LEMMA NextIInv == IInv /\ [Next]_vars => IInv'
<1> SUFFICES ASSUME IInv, [Next]_vars PROVE IInv'
  OBVIOUS
<1>1. ASSUME NEW w \in UNION Range(Writes), Remember(w) PROVE IInv'
  BY <1>1, RememberIInv
<1>2. ASSUME NEW i \in DOMAIN mem, Retire(i) PROVE IInv'
  BY <1>2, RetireIInv
<1>3. ASSUME NEW i \in DOMAIN mem, Lapse(i) PROVE IInv'
  BY <1>3 DEF Lapse, IInv, TypeOK
<1>4. CASE BackfillTokens
  BY <1>4 DEF BackfillTokens, IInv, TypeOK
<1>5. CASE Dream
  BY <1>5, DreamIInv
<1>6. CASE UNCHANGED vars
  BY <1>6 DEF vars, IInv, TypeOK
<1>7. QED
  BY <1>1, <1>2, <1>3, <1>4, <1>5, <1>6 DEF Next

LEMMA SpecIInv == Spec => []IInv
<1>1. Init => IInv
  BY InitIInv
<1>2. IInv /\ [Next]_vars => IInv'
  BY NextIInv
<1>3. QED
  BY <1>1, <1>2, PTL DEF Spec

-----------------------------------------------------------------------------
(* The arms *)

Answer(I) == [id : I, score : Int]

LEMMA IdsIn ==
  ASSUME NEW I, NEW s \in Seq(Answer(I))
  PROVE  Ids(s) \subseteq I /\ \A k \in DOMAIN s : s[k].id \in I /\ s[k].score \in Int
<1>1. \A k \in DOMAIN s : s[k] \in Answer(I)
  OBVIOUS
<1>2. QED
  BY <1>1 DEF Ids, Answer

LEMMA RecalledIs ==
  ASSUME IInv, NEW r
  PROVE  /\ Recalled(r) \subseteq JoinEligible(r) /\ JoinEligible(r) \subseteq DOMAIN mem
         /\ Recalled(r) \cap lapsed = {}
         /\ DOMAIN mem \subseteq Int /\ IsFiniteSet(DOMAIN mem)
<1>1. IsFiniteSet(DOMAIN mem)
  <2>1. PICK n : n = Len(mem)
    OBVIOUS
  <2>2. DOMAIN mem = 1..n /\ n \in Int
    BY <2>1, RowsTyped
  <2>3. IsFiniteSet(1..n)
    BY <2>2, FS_Interval
  <2>4. QED
    BY <2>2, <2>3
<1>2. QED
  BY <1>1, RowsTyped DEF Recalled, JoinEligible

LEMMA ScoresTyped ==
  ASSUME IInv, NEW q \in Queries, NEW i \in DOMAIN mem
  PROVE  /\ Rel(q, i).bm25 \in Nat /\ Rel(q, i).distance \in Nat
         /\ Rel(q, i).maxsim \in Nat /\ Rel(q, i).rerank \in Int
         /\ Boost(i) \in Nat
<1>1. mem[i].text \in Texts /\ mem[i].boost \in Nat
  BY RowsTyped DEF MemoryRow
<1>2. Rel(q, i) \in [bm25 : Nat, distance : Nat, maxsim : Nat, rerank : Int]
  BY <1>1, RetrievalAssumption DEF Rel
<1>3. Boost(i) \in Nat
  BY <1>1 DEF Boost
<1>4. QED
  BY <1>2, <1>3

\* p is the n entries of s after the first k, or as many as there are.
Paged(p, s, n, k) ==
  DOMAIN p = {i \in 1..n : k + i <= Len(s)} /\ \A i \in DOMAIN p : p[i] = s[k + i]

LEMMA PageIs ==
  ASSUME NEW S, NEW s \in Seq(S), NEW n \in Nat, NEW k \in Nat
  PROVE  Page(s, n, k) \in Seq(S) /\ Paged(Page(s, n, k), s, n, k)
<1>1. PICK t : t = SubSeq(s, k + 1, Len(s))
  OBVIOUS
<1>2. /\ t \in Seq(S) /\ DOMAIN t = {i \in Nat : 1 <= i /\ k + i <= Len(s)}
      /\ \A i \in DOMAIN t : t[i] = s[k + i]
  BY <1>1
<1>3. /\ AtMost(n, t) \in Seq(S) /\ DOMAIN AtMost(n, t) = {i \in DOMAIN t : i <= n}
      /\ \A i \in DOMAIN AtMost(n, t) : AtMost(n, t)[i] = t[i]
  BY <1>2, FirstEntries
<1>4. PICK p : p = AtMost(n, t)
  OBVIOUS
<1>5. p = Page(s, n, k)
  BY <1>1, <1>4 DEF Page
<1>6. p \in Seq(S) /\ DOMAIN p = {i \in 1..n : k + i <= Len(s)} /\ \A i \in DOMAIN p : p[i] = s[k + i]
  BY <1>2, <1>3, <1>4
<1>7. QED
  BY <1>5, <1>6 DEF Paged

LEMMA LimitTyped ==
  ASSUME NEW m \in Nat, NEW n \in Nat
  PROVE  Larger(m, n) \in Nat /\ Larger(m, n) >= m /\ Larger(m, n) >= n /\ PoolLimit(m) \in Nat
<1>1. PoolFactor * m \in Nat /\ m + PoolFloor \in Nat /\ PoolFactor * MaxLimit \in Nat
  BY RetrievalAssumption
<1>2. QED
  BY <1>1 DEF Larger, Smaller, PoolLimit

LEMMA FtsRowsFound ==
  ASSUME IInv, NEW q \in Queries, NEW r, NEW tier, NEW limit \in Nat, NEW offset \in Nat
  PROVE  FtsRows(q, r, tier, limit, offset) \in Seq(Recalled(r))
<1> DEFINE before(i, j) == \/ Rel(q, i).bm25 > Rel(q, j).bm25
                           \/ Rel(q, i).bm25 = Rel(q, j).bm25 /\ Boost(i) > Boost(j)
                           \/ Rel(q, i).bm25 = Rel(q, j).bm25 /\ Boost(i) = Boost(j) /\ i > j
<1>1. PICK S : S = {i \in Recalled(r) : Matches(q, mem[i].text, tier)}
  OBVIOUS
<1>2. S \subseteq Recalled(r) /\ S \subseteq DOMAIN mem /\ IsFiniteSet(S) /\ S \subseteq Int
  <2>1. S \subseteq Recalled(r) /\ S \subseteq DOMAIN mem /\ S \subseteq Int
    BY <1>1, RecalledIs
  <2>2. PICK D : D = DOMAIN mem
    OBVIOUS
  <2>3. QED
    BY <2>1, <2>2, RecalledIs, FS_Subset
<1>3. PICK a, b, c : /\ a = [i \in S |-> 0 - Rel(q, i).bm25] /\ b = [i \in S |-> 0 - Boost(i)]
                     /\ c = [i \in S |-> 0 - i]
  OBVIOUS
<1>4. /\ a \in [S -> Int] /\ b \in [S -> Int] /\ c \in [S -> Int]
      /\ \A x, y \in S : c[x] = c[y] => x = y
  BY <1>2, <1>3, ScoresTyped
<1>5. PICK R : R = Lex(S, a, b, c, c)
  OBVIOUS
<1>6. Lists(Listing(S, R), S, R)
  BY <1>2, <1>4, <1>5, Sorted
<1>7. \A i, j \in S : before(i, j) <=> <<i, j>> \in R
  <2> TAKE i, j \in S
  <2>1. <<i, j>> \in R <=> ComesBefore(a, b, c, c, i, j)
    BY <1>5, LexIs
  <2>2. /\ Rel(q, i).bm25 \in Nat /\ Rel(q, j).bm25 \in Nat /\ Boost(i) \in Nat /\ Boost(j) \in Nat
        /\ i \in Int /\ j \in Int
    BY <1>2, ScoresTyped
  <2>3. a[i] = 0 - Rel(q, i).bm25 /\ a[j] = 0 - Rel(q, j).bm25 /\ b[i] = 0 - Boost(i)
        /\ b[j] = 0 - Boost(j) /\ c[i] = 0 - i /\ c[j] = 0 - j
    BY <1>3
  <2>4. QED
    BY <2>1, <2>2, <2>3 DEF ComesBefore
<1>8. Ordered(S, before) = Listing(S, R)
  <2> HIDE DEF before
  <2> DEFINE place == [x \in S |-> 1 + Cardinality({y \in S : before(y, x)})]
  <2>1. Ordered(S, before) = [n \in 1..Cardinality(S) |-> CHOOSE x \in S : place[x] = n]
    BY Zenon DEF Ordered
  <2>2. place = Standing(S, R)
    <3>1. \A x \in S : {y \in S : before(y, x)} = {y \in S : <<y, x>> \in R}
      BY <1>7
    <3>2. QED
      BY <3>1 DEF Standing
  <2> HIDE DEF place
  <2>3. QED
    BY <2>1, <2>2 DEF Listing
<1>9. PICK s : s = Listing(S, R)
  OBVIOUS
<1>10. s \in Seq(S)
  BY <1>6, <1>9 DEF Lists
<1>11. PoolLimit(limit) + offset \in Nat
  BY LimitTyped
<1>12. PICK n : n = PoolLimit(limit) + offset
  OBVIOUS
<1>13. Page(s, n, offset) \in Seq(S)
  BY <1>10, <1>11, <1>12, PageIs
<1>14. FtsRows(q, r, tier, limit, offset) = Page(s, n, offset)
  BY <1>1, <1>8, <1>9, <1>12, Zenon DEF FtsRows
<1>15. QED
  BY <1>2, <1>13, <1>14

LEMMA SubsetsFinite ==
  ASSUME IInv, NEW r, NEW S, S \subseteq Recalled(r)
  PROVE  S \subseteq DOMAIN mem /\ S \subseteq Int /\ IsFiniteSet(S)
<1>1. S \subseteq DOMAIN mem /\ S \subseteq Int
  BY RecalledIs
<1>2. PICK D : D = DOMAIN mem
  OBVIOUS
<1>3. QED
  BY <1>1, <1>2, RecalledIs, FS_Subset

LEMMA DivTyped == ASSUME NEW a \in Int, NEW b \in Int, b > 0 PROVE a \div b \in Int
  OBVIOUS

LEMMA TieredFound ==
  ASSUME IInv, NEW q \in Queries, NEW r, NEW limit \in Nat, NEW exact, NEW prefixed, NEW any,
         exact \cup prefixed \cup any \subseteq Recalled(r)
  PROVE  Tiered(q, limit, exact, prefixed, any) \in Seq(Answer(Recalled(r)))
<1> DEFINE S == exact \cup prefixed \cup any
           best == Max({0} \cup {Rel(q, i).bm25 : i \in S})
           tier(i) == IF i \in exact THEN 0 ELSE IF i \in prefixed THEN 1 ELSE 2
           score(i) == Boost(i) + (IF best = 0 THEN 0 ELSE (100 * Rel(q, i).bm25) \div best)
           before(i, j) == \/ tier(i) < tier(j)
                           \/ tier(i) = tier(j) /\ score(i) > score(j)
                           \/ tier(i) = tier(j) /\ score(i) = score(j) /\ i > j
<1>1. Tiered(q, limit, exact, prefixed, any)
        = Each(LAMBDA i : Hit(i, score(i)), AtMost(limit, Ordered(S, before)))
  BY Zenon DEF Tiered
<1> HIDE DEF S
<1>2. S \subseteq Recalled(r) /\ S \subseteq DOMAIN mem /\ IsFiniteSet(S) /\ S \subseteq Int
  BY SubsetsFinite DEF S
<1>4. best \in Int /\ best >= 0
  <2>1. PICK f : f = [i \in S |-> Rel(q, i).bm25]
    OBVIOUS
  <2>2. PICK T : T = {0} \cup {f[i] : i \in S}
    OBVIOUS
  <2>3. IsFiniteSet({f[i] : i \in S})
    BY <1>2, <2>1, FiniteRange
  <2>4. IsFiniteSet(T)
    BY <2>2, <2>3, FS_AddElement
  <2>5. T \subseteq Int /\ 0 \in T
    BY <1>2, <2>1, <2>2, ScoresTyped
  <2>6. Max(T) \in T /\ \A x \in T : Max(T) >= x
    BY <2>4, <2>5, MaxIs
  <2>7. T = {0} \cup {Rel(q, i).bm25 : i \in S}
    BY <2>1, <2>2
  <2>8. QED
    BY <2>5, <2>6, <2>7
<1> HIDE DEF best
<1>5. \A i \in S : score(i) \in Int /\ tier(i) \in Int
  <2> TAKE i \in S
  <2>1. Rel(q, i).bm25 \in Nat /\ Boost(i) \in Nat
    BY <1>2, ScoresTyped
  <2>2. 100 * Rel(q, i).bm25 \in Int
    BY <2>1
  <2>3. best # 0 => (100 * Rel(q, i).bm25) \div best \in Int
    BY <1>4, <2>2, DivTyped
  <2>4. QED
    BY <2>1, <2>3
<1> HIDE DEF tier, score
<1>7. PICK a, b, c : /\ a = [i \in S |-> tier(i)] /\ b = [i \in S |-> 0 - score(i)]
                     /\ c = [i \in S |-> 0 - i]
  OBVIOUS
<1>8. /\ a \in [S -> Int] /\ b \in [S -> Int] /\ c \in [S -> Int]
      /\ \A x, y \in S : c[x] = c[y] => x = y
  BY <1>2, <1>5, <1>7
<1>9. PICK R : R = Lex(S, a, b, c, c)
  OBVIOUS
<1>10. Lists(Listing(S, R), S, R)
  BY <1>2, <1>8, <1>9, Sorted
<1>11. \A i, j \in S : before(i, j) <=> <<i, j>> \in R
  <2> TAKE i, j \in S
  <2>1. <<i, j>> \in R <=> ComesBefore(a, b, c, c, i, j)
    BY <1>9, LexIs
  <2>2. i \in Int /\ j \in Int /\ score(i) \in Int /\ score(j) \in Int
    BY <1>2, <1>5
  <2>3. a[i] = tier(i) /\ a[j] = tier(j) /\ b[i] = 0 - score(i)
        /\ b[j] = 0 - score(j) /\ c[i] = 0 - i /\ c[j] = 0 - j
    BY <1>7
  <2>4. QED
    BY <2>1, <2>2, <2>3 DEF ComesBefore
<1>12. Ordered(S, before) = Listing(S, R)
  <2> HIDE DEF before
  <2> DEFINE place == [x \in S |-> 1 + Cardinality({y \in S : before(y, x)})]
  <2>1. Ordered(S, before) = [n \in 1..Cardinality(S) |-> CHOOSE x \in S : place[x] = n]
    BY Zenon DEF Ordered
  <2>2. place = Standing(S, R)
    <3>1. \A x \in S : {y \in S : before(y, x)} = {y \in S : <<y, x>> \in R}
      BY <1>11
    <3>2. QED
      BY <3>1 DEF Standing
  <2> HIDE DEF place
  <2>3. QED
    BY <2>1, <2>2 DEF Listing
<1>13. PICK s : s = Listing(S, R)
  OBVIOUS
<1>14. s \in Seq(S) /\ AtMost(limit, s) \in Seq(S)
  BY <1>10, <1>13, FirstEntries DEF Lists
<1>15. PICK u : u = AtMost(limit, s)
  OBVIOUS
<1>16. PICK e : e = [n \in DOMAIN u |-> Hit(u[n], score(u[n]))]
  OBVIOUS
<1>17. Each(LAMBDA i : Hit(i, score(i)), u) = SubSeq(e, 1, Len(u))
  BY <1>16, Zenon DEF Each
<1>18. SubSeq(e, 1, Len(u)) = e
  BY <1>14, <1>15, <1>16, EachIs
<1>19. e \in Seq(Answer(Recalled(r)))
  <2>1. /\ DOMAIN u = 1..Len(u) /\ Len(u) \in Nat
        /\ \A n \in DOMAIN u : u[n] \in Recalled(r) /\ score(u[n]) \in Int
    BY <1>2, <1>5, <1>14, <1>15
  <2>2. \A n \in DOMAIN u : Hit(u[n], score(u[n])) \in Answer(Recalled(r))
    BY <2>1 DEF Answer, Hit
  <2>3. QED
    BY <1>16, <2>1, <2>2
<1>20. QED
  BY <1>1, <1>12, <1>13, <1>15, <1>17, <1>18, <1>19, Zenon

LEMMA LexicalFound ==
  ASSUME IInv, NEW q \in Queries, NEW r, NEW limit \in Nat, NEW offset \in Nat
  PROVE  Lexical(q, r, limit, offset) \in Seq(Answer(Recalled(r)))
<1> DEFINE rows(tier) == Range(FtsRows(q, r, tier, limit, offset))
<1>1. \A tier \in {0, 1, 2} : rows(tier) \subseteq Recalled(r)
  <2> TAKE tier \in {0, 1, 2}
  <2>1. FtsRows(q, r, tier, limit, offset) \in Seq(Recalled(r))
    BY FtsRowsFound
  <2>2. QED
    BY <2>1 DEF Range
<1> HIDE DEF rows
<1>2. PICK exact : exact = rows(0)
  OBVIOUS
<1>3. PICK prefixed : prefixed = IF Cardinality(exact) < limit THEN rows(1) ELSE {}
  OBVIOUS
<1>4. PICK any : any = IF exact \cup prefixed = {} THEN rows(2) ELSE {}
  OBVIOUS
<1>5. exact \cup prefixed \cup any \subseteq Recalled(r)
  BY <1>1, <1>2, <1>3, <1>4
<1>6. Tiered(q, limit, exact, prefixed, any) \in Seq(Answer(Recalled(r)))
  BY <1>5, TieredFound
<1>7. Lexical(q, r, limit, offset) = Tiered(q, limit, exact, prefixed, any)
  BY <1>2, <1>3, <1>4, Zenon DEF Lexical, rows
<1>8. QED
  BY <1>6, <1>7

LEMMA RankedFound ==
  ASSUME IInv, NEW r, NEW S, S \subseteq Recalled(r), NEW distance \in [S -> Nat],
         NEW limit \in Nat
  PROVE  Ranked(distance, limit) \in Seq(Answer(Recalled(r)))
<1> DEFINE score(i) == Boost(i) + 10000 \div (100 + distance[i])
           before(i, j) == score(i) > score(j) \/ (score(i) = score(j) /\ i > j)
<1>1. Ranked(distance, limit)
        = Each(LAMBDA i : Hit(i, score(i)), AtMost(limit, Ordered(DOMAIN distance, before)))
  BY DEF Ranked
<1>2. S \subseteq Recalled(r) /\ S \subseteq DOMAIN mem /\ IsFiniteSet(S) /\ S \subseteq Int
  BY SubsetsFinite
<1>3. DOMAIN distance = S
  OBVIOUS
<1>4. \A i \in S : score(i) \in Int
  <2> TAKE i \in S
  <2>1. Boost(i) \in Nat
    BY <1>2, RowsTyped DEF Boost, MemoryRow
  <2>2. 100 + distance[i] \in Int /\ 100 + distance[i] > 0
    OBVIOUS
  <2>3. 10000 \div (100 + distance[i]) \in Int
    BY <2>2, DivTyped
  <2>4. QED
    BY <2>1, <2>3
<1> HIDE DEF score
<1>5. PICK a, c : a = [i \in S |-> 0 - score(i)] /\ c = [i \in S |-> 0 - i]
  OBVIOUS
<1>6. a \in [S -> Int] /\ c \in [S -> Int] /\ \A x, y \in S : c[x] = c[y] => x = y
  <2>1. \A i \in S : 0 - score(i) \in Int /\ 0 - i \in Int
    BY <1>2, <1>4
  <2>2. a \in [S -> Int] /\ c \in [S -> Int]
    BY <1>5, <2>1
  <2>3. \A x, y \in S : c[x] = c[y] => x = y
    BY <1>2, <1>5
  <2>4. QED
    BY <2>2, <2>3
<1>7. PICK R : R = Lex(S, a, c, c, c)
  OBVIOUS
<1>8. Lists(Listing(S, R), S, R)
  BY <1>2, <1>6, <1>7, Sorted
<1>9. \A i, j \in S : before(i, j) <=> <<i, j>> \in R
  <2> TAKE i, j \in S
  <2>1. <<i, j>> \in R <=> ComesBefore(a, c, c, c, i, j)
    BY <1>7, LexIs
  <2>2. i \in Int /\ j \in Int /\ score(i) \in Int /\ score(j) \in Int
    BY <1>2, <1>4
  <2>3. a[i] = 0 - score(i) /\ a[j] = 0 - score(j) /\ c[i] = 0 - i /\ c[j] = 0 - j
    BY <1>5
  <2>4. QED
    BY <2>1, <2>2, <2>3 DEF ComesBefore
<1>10. Ordered(S, before) = Listing(S, R)
  <2> HIDE DEF before
  <2> DEFINE place == [x \in S |-> 1 + Cardinality({y \in S : before(y, x)})]
  <2>1. Ordered(S, before) = [n \in 1..Cardinality(S) |-> CHOOSE x \in S : place[x] = n]
    BY Zenon DEF Ordered
  <2>2. place = Standing(S, R)
    <3>1. \A x \in S : {y \in S : before(y, x)} = {y \in S : <<y, x>> \in R}
      BY <1>9
    <3>2. QED
      BY <3>1 DEF Standing
  <2> HIDE DEF place
  <2>3. QED
    BY <2>1, <2>2 DEF Listing
<1>11. PICK s : s = Listing(S, R)
  OBVIOUS
<1>12. s \in Seq(S) /\ AtMost(limit, s) \in Seq(S)
  BY <1>8, <1>11, FirstEntries DEF Lists
<1>13. PICK u : u = AtMost(limit, s)
  OBVIOUS
<1>14. PICK e : e = [n \in DOMAIN u |-> Hit(u[n], score(u[n]))]
  OBVIOUS
<1>15. Each(LAMBDA i : Hit(i, score(i)), u) = SubSeq(e, 1, Len(u))
  BY <1>14, Zenon DEF Each
<1>16. SubSeq(e, 1, Len(u)) = e
  BY <1>12, <1>13, <1>14, EachIs
<1>17. e \in Seq(Answer(Recalled(r)))
  <2>1. /\ DOMAIN u = 1..Len(u) /\ Len(u) \in Nat
        /\ \A n \in DOMAIN u : u[n] \in Recalled(r) /\ score(u[n]) \in Int
    BY <1>2, <1>4, <1>12, <1>13
  <2>2. \A n \in DOMAIN u : Hit(u[n], score(u[n])) \in Answer(Recalled(r))
    BY <2>1 DEF Answer, Hit
  <2>3. QED
    BY <1>14, <2>1, <2>2
<1>18. QED
  BY <1>1, <1>3, <1>10, <1>11, <1>13, <1>15, <1>16, <1>17, Zenon

LEMMA NearestFound ==
  ASSUME IInv, NEW q \in Queries, NEW r, NEW ids, ids \subseteq Recalled(r)
  PROVE  Nearest(q, ids) \in Seq(ids)
<1> DEFINE before(i, j) == \/ Rel(q, i).distance < Rel(q, j).distance
                           \/ Rel(q, i).distance = Rel(q, j).distance /\ i > j
<1>1. PICK S : S = {i \in ids : mem[i].vector}
  OBVIOUS
<1>2. S \subseteq Recalled(r) /\ S \subseteq DOMAIN mem /\ IsFiniteSet(S) /\ S \subseteq Int
  BY <1>1, SubsetsFinite
<1>3. PICK a, c : a = [i \in S |-> Rel(q, i).distance] /\ c = [i \in S |-> 0 - i]
  OBVIOUS
<1>4. a \in [S -> Int] /\ c \in [S -> Int] /\ \A x, y \in S : c[x] = c[y] => x = y
  BY <1>2, <1>3, ScoresTyped
<1>5. PICK R : R = Lex(S, a, c, c, c)
  OBVIOUS
<1>6. Lists(Listing(S, R), S, R)
  BY <1>2, <1>4, <1>5, Sorted
<1>7. \A i, j \in S : before(i, j) <=> <<i, j>> \in R
  <2> TAKE i, j \in S
  <2>1. <<i, j>> \in R <=> ComesBefore(a, c, c, c, i, j)
    BY <1>5, LexIs
  <2>2. Rel(q, i).distance \in Nat /\ Rel(q, j).distance \in Nat /\ i \in Int /\ j \in Int
    BY <1>2, ScoresTyped
  <2>3. a[i] = Rel(q, i).distance /\ a[j] = Rel(q, j).distance /\ c[i] = 0 - i /\ c[j] = 0 - j
    BY <1>3
  <2>4. QED
    BY <2>1, <2>2, <2>3 DEF ComesBefore
<1>8. Ordered(S, before) = Listing(S, R)
  <2> HIDE DEF before
  <2> DEFINE place == [x \in S |-> 1 + Cardinality({y \in S : before(y, x)})]
  <2>1. Ordered(S, before) = [n \in 1..Cardinality(S) |-> CHOOSE x \in S : place[x] = n]
    BY Zenon DEF Ordered
  <2>2. place = Standing(S, R)
    <3>1. \A x \in S : {y \in S : before(y, x)} = {y \in S : <<y, x>> \in R}
      BY <1>7
    <3>2. QED
      BY <3>1 DEF Standing
  <2> HIDE DEF place
  <2>3. QED
    BY <2>1, <2>2 DEF Listing
<1>9. Nearest(q, ids) = Listing(S, R)
  BY <1>1, <1>8, Zenon DEF Nearest
<1>10. QED
  BY <1>1, <1>6, <1>9 DEF Lists

LEMMA SemanticFound ==
  ASSUME IInv, NEW q \in Queries, NEW r, NEW limit \in Nat, NEW offset \in Nat
  PROVE  Semantic(q, r, limit, offset) \in Seq(Answer(Recalled(r)))
<1>1. PICK T, s : T = Recalled(r) /\ s = Nearest(q, T)
  OBVIOUS
<1>2. s \in Seq(T)
  BY <1>1, NearestFound
<1>3. PICK n, m : n = PoolLimit(limit) + offset /\ m = PoolLimit(limit)
  OBVIOUS
<1>4. n \in Nat /\ m \in Nat
  <2>1. PoolLimit(limit) \in Nat
    BY LimitTyped
  <2>2. QED
    BY <1>3, <2>1
<1>5. PICK u : u = AtMost(n, s)
  OBVIOUS
<1>6. u \in Seq(T)
  BY <1>2, <1>4, <1>5, FirstEntries
<1>7. PICK near : near = Page(u, m, offset)
  OBVIOUS
<1>8. near \in Seq(T)
  BY <1>4, <1>6, <1>7, PageIs
<1>9. PICK S : S = Range(near)
  OBVIOUS
<1>10. S \subseteq Recalled(r) /\ S \subseteq DOMAIN mem
  BY <1>1, <1>8, <1>9, RecalledIs DEF Range
<1>11. PICK distance : distance = [i \in S |-> Rel(q, i).distance]
  OBVIOUS
<1>12. distance \in [S -> Nat]
  BY <1>10, <1>11, ScoresTyped
<1>13. Ranked(distance, limit) \in Seq(Answer(Recalled(r)))
  BY <1>10, <1>12, RankedFound
<1>14. Semantic(q, r, limit, offset) = Ranked(distance, limit)
  BY <1>1, <1>3, <1>5, <1>7, <1>9, <1>11, Zenon DEF Semantic
<1>15. QED
  BY <1>13, <1>14

LEMMA MaxSimFound ==
  ASSUME IInv, NEW q \in Queries, NEW r, NEW ids, ids \subseteq Recalled(r), NEW limit \in Nat
  PROVE  MaxSim(q, ids, limit) \in Seq(Answer(Recalled(r)))
<1> DEFINE before(i, j) == \/ Rel(q, i).maxsim > Rel(q, j).maxsim
                           \/ Rel(q, i).maxsim = Rel(q, j).maxsim /\ i < j
<1>1. PICK S : S = ids \cap tokens
  OBVIOUS
<1>2. S \subseteq Recalled(r) /\ S \subseteq DOMAIN mem /\ IsFiniteSet(S) /\ S \subseteq Int
  BY <1>1, SubsetsFinite
<1>3. PICK a, c : a = [i \in S |-> 0 - Rel(q, i).maxsim] /\ c = [i \in S |-> i]
  OBVIOUS
<1>4. a \in [S -> Int] /\ c \in [S -> Int] /\ \A x, y \in S : c[x] = c[y] => x = y
  BY <1>2, <1>3, ScoresTyped
<1>5. PICK R : R = Lex(S, a, c, c, c)
  OBVIOUS
<1>6. Lists(Listing(S, R), S, R)
  BY <1>2, <1>4, <1>5, Sorted
<1>7. \A i, j \in S : before(i, j) <=> <<i, j>> \in R
  <2> TAKE i, j \in S
  <2>1. <<i, j>> \in R <=> ComesBefore(a, c, c, c, i, j)
    BY <1>5, LexIs
  <2>2. Rel(q, i).maxsim \in Nat /\ Rel(q, j).maxsim \in Nat /\ i \in Int /\ j \in Int
    BY <1>2, ScoresTyped
  <2>3. /\ a[i] = 0 - Rel(q, i).maxsim /\ a[j] = 0 - Rel(q, j).maxsim
        /\ c[i] = i /\ c[j] = j
    BY <1>3
  <2>4. QED
    BY <2>1, <2>2, <2>3 DEF ComesBefore
<1>8. Ordered(S, before) = Listing(S, R)
  <2> HIDE DEF before
  <2> DEFINE place == [x \in S |-> 1 + Cardinality({y \in S : before(y, x)})]
  <2>1. Ordered(S, before) = [n \in 1..Cardinality(S) |-> CHOOSE x \in S : place[x] = n]
    BY Zenon DEF Ordered
  <2>2. place = Standing(S, R)
    <3>1. \A x \in S : {y \in S : before(y, x)} = {y \in S : <<y, x>> \in R}
      BY <1>7
    <3>2. QED
      BY <3>1 DEF Standing
  <2> HIDE DEF place
  <2>3. QED
    BY <2>1, <2>2 DEF Listing
<1>9. PICK s : s = Listing(S, R)
  OBVIOUS
<1>10. s \in Seq(S) /\ AtMost(limit, s) \in Seq(S)
  BY <1>6, <1>9, FirstEntries DEF Lists
<1>11. PICK u : u = AtMost(limit, s)
  OBVIOUS
<1>12. PICK e : e = [n \in DOMAIN u |-> Hit(u[n], Rel(q, u[n]).maxsim)]
  OBVIOUS
<1>13. Each(LAMBDA i : Hit(i, Rel(q, i).maxsim), u) = SubSeq(e, 1, Len(u))
  BY <1>12, Zenon DEF Each
<1>14. SubSeq(e, 1, Len(u)) = e
  BY <1>10, <1>11, <1>12, EachIs
<1>15. e \in Seq(Answer(Recalled(r)))
  <2>1. /\ DOMAIN u = 1..Len(u) /\ Len(u) \in Nat
        /\ \A n \in DOMAIN u : u[n] \in Recalled(r) /\ Rel(q, u[n]).maxsim \in Int
    BY <1>2, <1>10, <1>11, ScoresTyped
  <2>2. \A n \in DOMAIN u : Hit(u[n], Rel(q, u[n]).maxsim) \in Answer(Recalled(r))
    BY <2>1 DEF Answer, Hit
  <2>3. QED
    BY <1>12, <2>1, <2>2
<1>16. MaxSim(q, ids, limit)
         = Each(LAMBDA i : Hit(i, Rel(q, i).maxsim), AtMost(limit, Ordered(S, before)))
  BY <1>1, Zenon DEF MaxSim
<1>17. QED
  BY <1>8, <1>9, <1>11, <1>13, <1>14, <1>15, <1>16, Zenon

\* What MaxSim may choose from is recalled, and holds what has no vector.
LEMMA ScannedIs ==
  ASSUME IInv, NEW q \in Queries, NEW r, r.shortlist \in Nat, NEW limit \in Nat
  PROVE  /\ Scanned(q, r, limit) \subseteq Recalled(r)
         /\ \A i \in Recalled(r) : ~mem[i].vector => i \in Scanned(q, r, limit)
<1>1. PICK T, s, cap : T = Recalled(r) /\ s = Nearest(q, T) /\ cap = Larger(r.shortlist, limit)
  OBVIOUS
<1>2. s \in Seq(T)
  BY <1>1, NearestFound
<1>3. cap \in Nat
  BY <1>1, LimitTyped
<1>4. AtMost(cap, s) \in Seq(T)
  BY <1>2, <1>3, FirstEntries
<1>5. Shortlist(q, T, cap) = Range(AtMost(cap, s)) \cup {i \in T : ~mem[i].vector}
  BY <1>1 DEF Shortlist
<1>6. Shortlist(q, T, cap) \subseteq T /\ \A i \in T : ~mem[i].vector => i \in Shortlist(q, T, cap)
  BY <1>4, <1>5 DEF Range
<1>7. Scanned(q, r, limit) = T \/ Scanned(q, r, limit) = Shortlist(q, T, cap)
  BY <1>1 DEF Scanned
<1>8. QED
  BY <1>1, <1>6, <1>7

LEMMA LateInteractionFound ==
  ASSUME IInv, NEW q \in Queries, NEW r, r.shortlist \in Nat, NEW limit \in Nat, NEW offset \in Nat
  PROVE  LateInteraction(q, r, limit, offset) \in Seq(Answer(Recalled(r)))
<1> DEFINE distance(i) == IF mem[i].vector THEN Rel(q, i).distance ELSE 200
           before(i, j) == distance(i) < distance(j) \/ (distance(i) = distance(j) /\ i > j)
           chosen == Ids(MaxSim(q, Scanned(q, r, limit + offset), limit + offset))
           near == Page(Ordered(chosen, before), PoolLimit(limit), offset)
<1>1. LateInteraction(q, r, limit, offset) = Ranked([i \in Range(near) |-> distance(i)], limit)
  BY DEF LateInteraction
<1>2. chosen \subseteq Recalled(r)
  <2>1. PICK n, T : n = limit + offset /\ T = Scanned(q, r, n)
    OBVIOUS
  <2>2. n \in Nat
    BY <2>1
  <2>3. T \subseteq Recalled(r)
    BY <2>1, <2>2, ScannedIs
  <2>4. MaxSim(q, T, n) \in Seq(Answer(Recalled(r)))
    BY <2>2, <2>3, MaxSimFound
  <2>5. PICK h, I : h = MaxSim(q, T, n) /\ I = Recalled(r)
    OBVIOUS
  <2>6. Ids(h) \subseteq I
    BY <2>4, <2>5, IdsIn
  <2>7. QED
    BY <2>1, <2>5, <2>6
<1>3. PICK S : S = chosen
  OBVIOUS
<1> HIDE DEF chosen
<1>4. S \subseteq Recalled(r) /\ S \subseteq DOMAIN mem /\ IsFiniteSet(S) /\ S \subseteq Int
  BY <1>2, <1>3, SubsetsFinite
<1>5. \A i \in S : distance(i) \in Nat
  BY <1>4, ScoresTyped
<1> HIDE DEF distance
<1>6. PICK a, c : a = [i \in S |-> distance(i)] /\ c = [i \in S |-> 0 - i]
  OBVIOUS
<1>7. a \in [S -> Int] /\ c \in [S -> Int] /\ \A x, y \in S : c[x] = c[y] => x = y
  BY <1>4, <1>5, <1>6
<1>8. PICK R : R = Lex(S, a, c, c, c)
  OBVIOUS
<1>9. Lists(Listing(S, R), S, R)
  BY <1>4, <1>7, <1>8, Sorted
<1>10. \A i, j \in S : before(i, j) <=> <<i, j>> \in R
  <2> TAKE i, j \in S
  <2>1. <<i, j>> \in R <=> ComesBefore(a, c, c, c, i, j)
    BY <1>8, LexIs
  <2>2. distance(i) \in Nat /\ distance(j) \in Nat /\ i \in Int /\ j \in Int
    BY <1>4, <1>5
  <2>3. a[i] = distance(i) /\ a[j] = distance(j) /\ c[i] = 0 - i /\ c[j] = 0 - j
    BY <1>6
  <2>4. QED
    BY <2>1, <2>2, <2>3 DEF ComesBefore
<1>11. Ordered(S, before) = Listing(S, R)
  <2> HIDE DEF before
  <2> DEFINE place == [x \in S |-> 1 + Cardinality({y \in S : before(y, x)})]
  <2>1. Ordered(S, before) = [n \in 1..Cardinality(S) |-> CHOOSE x \in S : place[x] = n]
    BY Zenon DEF Ordered
  <2>2. place = Standing(S, R)
    <3>1. \A x \in S : {y \in S : before(y, x)} = {y \in S : <<y, x>> \in R}
      BY <1>10
    <3>2. QED
      BY <3>1 DEF Standing
  <2> HIDE DEF place
  <2>3. QED
    BY <2>1, <2>2 DEF Listing
<1>12. PICK s : s = Listing(S, R)
  OBVIOUS
<1>13. s \in Seq(S)
  BY <1>9, <1>12 DEF Lists
<1>14. PICK m : m = PoolLimit(limit)
  OBVIOUS
<1>15. m \in Nat
  BY <1>14, LimitTyped
<1>16. PICK p : p = Page(s, m, offset)
  OBVIOUS
<1>17. p \in Seq(S)
  BY <1>13, <1>15, <1>16, PageIs
<1>18. near = p
  BY <1>3, <1>11, <1>12, <1>14, <1>16, Zenon
<1> HIDE DEF near
<1>19. PICK U : U = Range(p)
  OBVIOUS
<1>20. U \subseteq S
  BY <1>17, <1>19 DEF Range
<1>21. PICK far : far = [i \in U |-> distance(i)]
  OBVIOUS
<1>22. far \in [U -> Nat]
  BY <1>5, <1>20, <1>21
<1>23. Ranked(far, limit) \in Seq(Answer(Recalled(r)))
  <2>1. U \subseteq Recalled(r)
    BY <1>4, <1>20
  <2>2. QED
    BY <1>22, <2>1, RankedFound
<1>24. Range(near) = U
  BY <1>18, <1>19
<1>25. QED
  BY <1>1, <1>21, <1>23, <1>24

-----------------------------------------------------------------------------
(* Searches *)

LEMMA SearchedFound ==
  ASSUME IInv, NEW r \in SearchRequest, NEW limit \in Nat
  PROVE  Searched(r, limit) \in Seq(Answer(Recalled(r)))
<1>1. r.query \in Queries /\ r.offset \in Nat /\ r.shortlist \in Nat
  BY DEF SearchRequest
<1>2. PICK q, offset : q = r.query /\ offset = r.offset
  OBVIOUS
<1>3. q \in Queries /\ offset \in Nat
  BY <1>1, <1>2
<1>4. /\ LateInteraction(q, r, limit, offset) \in Seq(Answer(Recalled(r)))
      /\ Semantic(q, r, limit, offset) \in Seq(Answer(Recalled(r)))
      /\ Lexical(q, r, limit, offset) \in Seq(Answer(Recalled(r)))
  BY <1>1, <1>3, LateInteractionFound, SemanticFound, LexicalFound
<1>5. \/ Searched(r, limit) = LateInteraction(q, r, limit, offset)
      \/ Searched(r, limit) = Semantic(q, r, limit, offset)
      \/ Searched(r, limit) = Lexical(q, r, limit, offset)
  BY <1>2 DEF Searched
<1>6. QED
  BY <1>4, <1>5

LEMMA SearchFound ==
  ASSUME IInv, NEW r \in SearchRequest
  PROVE  Search(r) \in Seq(Answer(Recalled(r)))
<1>1. r.query \in Queries /\ r.limit \in Nat /\ r.rerank \in Nat /\ MaxLimit \in Nat
  BY RetrievalAssumption DEF SearchRequest
<1>2. CASE r.rerank = 0
  <2>1. PICK limit : limit = r.limit
    OBVIOUS
  <2>2. Searched(r, limit) \in Seq(Answer(Recalled(r)))
    BY <1>1, <2>1, SearchedFound
  <2>3. QED
    BY <1>2, <2>1, <2>2 DEF Search
<1>3. CASE r.rerank # 0
  <2> DEFINE wide == Searched(r, Min({Larger(r.rerank, r.limit), MaxLimit}))
             before(k, n) ==
               \/ Rel(r.query, wide[k].id).rerank > Rel(r.query, wide[n].id).rerank
               \/ Rel(r.query, wide[k].id).rerank = Rel(r.query, wide[n].id).rerank /\ k < n
  <2>0. Search(r) = Each(LAMBDA k : wide[k], AtMost(r.limit, Ordered(DOMAIN wide, before)))
    BY <1>3 DEF Search
  <2>1. PICK limit : limit = Min({Larger(r.rerank, r.limit), MaxLimit})
    OBVIOUS
  <2>2. limit \in Nat
    <3>1. Larger(r.rerank, r.limit) \in Nat
      BY <1>1 DEF Larger
    <3>2. PICK T : T = {Larger(r.rerank, r.limit), MaxLimit}
      OBVIOUS
    <3>3. T \subseteq Nat /\ T # {}
      BY <1>1, <3>1, <3>2
    <3>4. Min(T) \in T
      BY <3>3, Least
    <3>5. QED
      BY <2>1, <3>2, <3>3, <3>4
  <2>3. PICK I : I = Recalled(r)
    OBVIOUS
  <2>4. wide \in Seq(Answer(I))
    <3>1. Searched(r, limit) \in Seq(Answer(I))
      BY <2>2, <2>3, SearchedFound
    <3>2. QED
      BY <2>1, <3>1
  <2> HIDE DEF wide
  <2>5. PICK S : S = DOMAIN wide
    OBVIOUS
  <2>6. S = 1..Len(wide) /\ Len(wide) \in Nat
    BY <2>4, <2>5
  <2>7. IsFiniteSet(S) /\ S \subseteq Int
    <3>1. PICK n : n = Len(wide)
      OBVIOUS
    <3>2. QED
      BY <2>6, <3>1, FS_Interval
  <2>8. \A k \in S : wide[k].id \in I /\ Rel(r.query, wide[k].id).rerank \in Int
    <3>1. I \subseteq DOMAIN mem
      BY <2>3, RecalledIs
    <3>2. \A k \in S : wide[k].id \in I
      <4>1. PICK w : w = wide
        OBVIOUS
      <4>2. QED
        BY <2>4, <2>5, <4>1, IdsIn
    <3>3. QED
      BY <1>1, <3>1, <3>2, ScoresTyped
  <2>10. PICK a, c : a = [k \in S |-> 0 - Rel(r.query, wide[k].id).rerank] /\ c = [k \in S |-> k]
    OBVIOUS
  <2>11. a \in [S -> Int] /\ c \in [S -> Int] /\ \A x, y \in S : c[x] = c[y] => x = y
    BY <2>7, <2>8, <2>10
  <2>12. PICK R : R = Lex(S, a, c, c, c)
    OBVIOUS
  <2>13. Lists(Listing(S, R), S, R)
    BY <2>7, <2>11, <2>12, Sorted
  <2>14. \A i, j \in S : before(i, j) <=> <<i, j>> \in R
    <3> TAKE i, j \in S
    <3>1. <<i, j>> \in R <=> ComesBefore(a, c, c, c, i, j)
      BY <2>12, LexIs
    <3>2. /\ Rel(r.query, wide[i].id).rerank \in Int /\ Rel(r.query, wide[j].id).rerank \in Int
          /\ i \in Int /\ j \in Int
      BY <2>7, <2>8
    <3>3. /\ a[i] = 0 - Rel(r.query, wide[i].id).rerank
          /\ a[j] = 0 - Rel(r.query, wide[j].id).rerank /\ c[i] = i /\ c[j] = j
      BY <2>10
    <3>4. QED
      BY <3>1, <3>2, <3>3 DEF ComesBefore
  <2>15. Ordered(S, before) = Listing(S, R)
    <3> HIDE DEF before
    <3> DEFINE place == [x \in S |-> 1 + Cardinality({y \in S : before(y, x)})]
    <3>1. Ordered(S, before) = [n \in 1..Cardinality(S) |-> CHOOSE x \in S : place[x] = n]
      BY Zenon DEF Ordered
    <3>2. place = Standing(S, R)
      <4>1. \A x \in S : {y \in S : before(y, x)} = {y \in S : <<y, x>> \in R}
        BY <2>14
      <4>2. QED
        BY <4>1 DEF Standing
    <3> HIDE DEF place
    <3>3. QED
      BY <3>1, <3>2 DEF Listing
  <2>16. PICK s, m : s = Listing(S, R) /\ m = r.limit
    OBVIOUS
  <2>17. s \in Seq(S) /\ m \in Nat /\ AtMost(m, s) \in Seq(S)
    <3>1. s \in Seq(S) /\ m \in Nat
      BY <1>1, <2>13, <2>16 DEF Lists
    <3>2. QED
      BY <3>1, FirstEntries
  <2>18. PICK u : u = AtMost(m, s)
    OBVIOUS
  <2>19. PICK e : e = [n \in DOMAIN u |-> wide[u[n]]]
    OBVIOUS
  <2>20. Each(LAMBDA k : wide[k], u) = SubSeq(e, 1, Len(u))
    BY <2>19, Zenon DEF Each
  <2>21. SubSeq(e, 1, Len(u)) = e
    BY <2>17, <2>18, <2>19, EachIs
  <2>22. e \in Seq(Answer(I))
    <3>1. /\ DOMAIN u = 1..Len(u) /\ Len(u) \in Nat
          /\ \A n \in DOMAIN u : u[n] \in S
      BY <2>17, <2>18
    <3>2. \A n \in DOMAIN u : wide[u[n]] \in Answer(I)
      BY <2>4, <2>5, <3>1
    <3>3. QED
      BY <2>19, <3>1, <3>2
  <2>23. QED
    BY <2>0, <2>3, <2>5, <2>15, <2>16, <2>18, <2>20, <2>21, <2>22, Zenon
<1>4. QED
  BY <1>2, <1>3

\* The window of a page in the list of what the filters admit.
Window(s, limit, offset) == {s[i] : i \in {n \in DOMAIN s : offset < n /\ n <= offset + limit}}

\* A list that lists what the filters admit, and what list_memories shows of it.
Shows(r, s) ==
  \A limit, offset \in Nat :
    /\ Listed(r, limit, offset).truncated <=> Len(s) > offset + limit
    /\ Range(Listed(r, limit, offset).ids) = Window(s, limit, offset)

LEMMA ListedIs ==
  ASSUME IInv, NEW r
  PROVE  \E s : /\ s \in Seq(JoinEligible(r)) /\ Once(s) /\ Len(s) <= MaxMemories
                /\ Range(s) = JoinEligible(r) /\ Shows(r, s)
<1> DEFINE before(i, j) == i > j
<1>1. PICK S : S = JoinEligible(r)
  OBVIOUS
<1>2. S \subseteq DOMAIN mem /\ S \subseteq Int /\ IsFiniteSet(S)
  <2>1. PICK D : D = DOMAIN mem
    OBVIOUS
  <2>2. S \subseteq D /\ D \subseteq Int /\ IsFiniteSet(D)
    BY <1>1, <2>1, RecalledIs
  <2>3. QED
    BY <2>1, <2>2, FS_Subset
<1>3. PICK c : c = [i \in S |-> 0 - i]
  OBVIOUS
<1>4. c \in [S -> Int] /\ \A x, y \in S : c[x] = c[y] => x = y
  BY <1>2, <1>3
<1>5. PICK R : R = Lex(S, c, c, c, c)
  OBVIOUS
<1>6. StrictOrder(S, R) /\ Lists(Listing(S, R), S, R)
  BY <1>2, <1>4, <1>5, Sorted
<1>7. \A i, j \in S : before(i, j) <=> <<i, j>> \in R
  <2> TAKE i, j \in S
  <2>1. <<i, j>> \in R <=> ComesBefore(c, c, c, c, i, j)
    BY <1>5, LexIs
  <2>2. i \in Int /\ j \in Int /\ c[i] = 0 - i /\ c[j] = 0 - j
    BY <1>2, <1>3
  <2>3. QED
    BY <2>1, <2>2 DEF ComesBefore
<1>8. Ordered(S, before) = Listing(S, R)
  <2> HIDE DEF before
  <2> DEFINE place == [x \in S |-> 1 + Cardinality({y \in S : before(y, x)})]
  <2>1. Ordered(S, before) = [n \in 1..Cardinality(S) |-> CHOOSE x \in S : place[x] = n]
    BY Zenon DEF Ordered
  <2>2. place = Standing(S, R)
    <3>1. \A x \in S : {y \in S : before(y, x)} = {y \in S : <<y, x>> \in R}
      BY <1>7
    <3>2. QED
      BY <3>1 DEF Standing
  <2> HIDE DEF place
  <2>3. QED
    BY <2>1, <2>2 DEF Listing
<1>9. PICK s : s = Listing(S, R)
  OBVIOUS
<1>10. s \in Seq(S) /\ Once(s) /\ Range(s) = S /\ Len(s) = Cardinality(S)
  <2>1. Lists(s, S, R)
    BY <1>6, <1>9
  <2>2. Once(s)
    BY <1>6, <2>1, ListsOnce
  <2>3. s \in Seq(S) /\ Range(s) = S /\ Len(s) = Cardinality(S)
    BY <2>1 DEF Lists, Range
  <2>4. QED
    BY <2>2, <2>3
<1>11. Len(s) <= MaxMemories
  <2>1. PICK n : n = Len(mem)
    OBVIOUS
  <2>2. DOMAIN mem = 1..n /\ n \in Nat /\ n <= MaxMemories /\ MaxMemories \in Nat
    BY <2>1, RowsTyped, RetrievalAssumption DEF IInv
  <2>3. IsFiniteSet(1..n) /\ Cardinality(1..n) = IF 1 > n THEN 0 ELSE n - 1 + 1
    BY <2>2, FS_Interval
  <2>4. Cardinality(1..n) = n
    BY <2>2, <2>3
  <2>5. Cardinality(S) <= Cardinality(1..n)
    BY <1>2, <2>2, <2>3, FS_Subset
  <2>6. Len(s) \in Nat
    BY <1>10
  <2>7. QED
    BY <1>10, <2>2, <2>4, <2>5, <2>6
<1>12. Shows(r, s)
  <2> SUFFICES ASSUME NEW limit \in Nat, NEW offset \in Nat
               PROVE  /\ Listed(r, limit, offset).truncated <=> Len(s) > offset + limit
                      /\ Range(Listed(r, limit, offset).ids) = Window(s, limit, offset)
    BY DEF Shows
  <2>1. PICK rows : rows = Page(s, limit + 1, offset)
    OBVIOUS
  <2>2. /\ rows \in Seq(S) /\ DOMAIN rows = {i \in 1..(limit + 1) : offset + i <= Len(s)}
        /\ \A i \in DOMAIN rows : rows[i] = s[offset + i]
    <3>1. PICK m : m = limit + 1
      OBVIOUS
    <3>2. m \in Nat /\ s \in Seq(S)
      BY <1>10, <3>1
    <3>3. Page(s, m, offset) \in Seq(S) /\ Paged(Page(s, m, offset), s, m, offset)
      BY <3>2, PageIs
    <3>4. rows = Page(s, m, offset)
      BY <2>1, <3>1
    <3>5. rows \in Seq(S) /\ Paged(rows, s, m, offset)
      BY <3>3, <3>4
    <3>6. QED
      BY <3>1, <3>5 DEF Paged
  <2>3. Ordered(JoinEligible(r), LAMBDA i, j : i > j) = s
    BY <1>1, <1>8, <1>9, Zenon
  <2>4. /\ Listed(r, limit, offset).ids = CutAt(limit, rows)
        /\ Listed(r, limit, offset).truncated <=> Len(rows) > limit
    <3> DEFINE lines == Page(Ordered(JoinEligible(r), LAMBDA i, j : i > j), limit + 1, offset)
    <3>1. Listed(r, limit, offset) = [ids |-> CutAt(limit, lines), truncated |-> Len(lines) > limit]
      BY DEF Listed
    <3>2. lines = rows
      BY <2>1, <2>3, Zenon
    <3> HIDE DEF lines
    <3>3. PICK l : l = Listed(r, limit, offset)
      OBVIOUS
    <3>4. l.ids = CutAt(limit, lines)
      BY <3>1, <3>3
    <3>5. l.truncated <=> Len(lines) > limit
      <4>1. l.truncated = (Len(lines) > limit)
        BY <3>1, <3>3
      <4>2. (Len(lines) > limit) = TRUE \/ (Len(lines) > limit) = FALSE
        OBVIOUS
      <4>3. QED
        BY <4>1, <4>2
    <3>6. l.ids = CutAt(limit, rows)
      BY <3>2, <3>4
    <3>7. Len(lines) = Len(rows)
      BY <3>2
    <3>8. l.truncated <=> Len(rows) > limit
      BY <3>5, <3>7
    <3>9. QED
      BY <3>3, <3>6, <3>8
  <2>5. Len(s) \in Nat /\ DOMAIN s = 1..Len(s) /\ Len(rows) \in Nat /\ DOMAIN rows = 1..Len(rows)
    <3>1. s \in Seq(S) /\ rows \in Seq(S)
      BY <1>10, <2>2
    <3>2. QED
      BY <3>1
  <2>6. Len(rows) > limit <=> Len(s) > offset + limit
    <3>1. limit + 1 \in 1..Len(rows) <=> offset + (limit + 1) <= Len(s)
      BY <2>2, <2>5
    <3>2. QED
      BY <2>5, <3>1
  <2>7. PICK ids : ids = AtMost(limit, rows)
    OBVIOUS
  <2>8. /\ ids \in Seq(S) /\ DOMAIN ids = {i \in DOMAIN rows : i <= limit}
        /\ \A i \in DOMAIN ids : ids[i] = rows[i]
    BY <2>2, <2>7, FirstEntries
  <2>9. \A i \in Int : i \in DOMAIN ids <=> offset + i \in DOMAIN s /\ 1 <= i /\ i <= limit
    BY <2>2, <2>5, <2>8
  <2>10. \A i \in DOMAIN ids : ids[i] = s[offset + i] /\ i \in Int
    BY <2>2, <2>8
  <2>11. Range(ids) = Window(s, limit, offset)
    <3>1. ASSUME NEW x \in Range(ids) PROVE x \in Window(s, limit, offset)
      <4>1. PICK i \in DOMAIN ids : x = ids[i]
        BY DEF Range
      <4>2. i \in Int /\ offset + i \in DOMAIN s /\ 1 <= i /\ i <= limit /\ x = s[offset + i]
        BY <2>9, <2>10, <4>1
      <4>3. offset < offset + i /\ offset + i <= offset + limit
        BY <4>2
      <4>4. QED
        BY <4>2, <4>3 DEF Window
    <3>2. ASSUME NEW x \in Window(s, limit, offset) PROVE x \in Range(ids)
      <4>1. PICK n \in DOMAIN s : offset < n /\ n <= offset + limit /\ x = s[n]
        BY DEF Window
      <4>2. PICK i : i = n - offset
        OBVIOUS
      <4>3. i \in Int /\ offset + i = n /\ 1 <= i /\ i <= limit
        BY <2>5, <4>1, <4>2
      <4>4. i \in DOMAIN ids /\ ids[i] = x
        BY <2>9, <2>10, <4>1, <4>3
      <4>5. QED
        BY <4>4 DEF Range
    <3>3. QED
      BY <3>1, <3>2
  <2>12. QED
    BY <2>4, <2>6, <2>7, <2>11 DEF CutAt
<1>13. QED
  BY <1>1, <1>10, <1>11, <1>12

\* Every place is in one window, and the window before it is not the last.
LEMMA WindowOf ==
  ASSUME NEW limit \in Nat, limit >= 1, NEW p \in Nat, p >= 1
  PROVE  \E k \in Nat : k * limit < p /\ p <= k * limit + limit /\ k < p
<1> DEFINE T == {k \in Nat : p <= k * limit + limit}
<1>1. p \in T
  <2>1. p <= p * limit
    OBVIOUS
  <2>2. p * limit \in Nat
    OBVIOUS
  <2>3. QED
    BY <2>1, <2>2
<1>2. PICK k \in T : \A n \in T : k <= n
  <2>1. T \subseteq Nat /\ T # {}
    BY <1>1
  <2> HIDE DEF T
  <2>2. QED
    BY <2>1, Least
<1>3. k * limit \in Nat
  OBVIOUS
<1>4. k * limit < p
  <2>1. CASE k = 0
    BY <2>1
  <2>2. CASE k # 0
    <3>1. k - 1 \in Nat
      BY <2>2
    <3>2. k - 1 \notin T
      <4>1. ~(k <= k - 1)
        OBVIOUS
      <4>2. QED
        BY <1>2, <4>1
    <3>3. ~(p <= (k - 1) * limit + limit)
      BY <3>1, <3>2
    <3>4. (k - 1) * limit + limit = k * limit
      OBVIOUS
    <3>5. QED
      BY <1>3, <3>3, <3>4
  <2>3. QED
    BY <2>1, <2>2
<1>5. k <= k * limit
  OBVIOUS
<1>6. QED
  BY <1>3, <1>4, <1>5

\* Later windows begin where earlier ones have ended.
LEMMA WindowsApart ==
  ASSUME NEW limit \in Nat, NEW j \in Nat, NEW k \in Nat, j < k
  PROVE  j * limit + limit <= k * limit
<1>1. PICK d \in Nat : k = j + 1 + d
  <2>1. k - j - 1 \in Nat /\ k = j + 1 + (k - j - 1)
    OBVIOUS
  <2>2. QED
    BY <2>1
<1>2. k * limit = j * limit + limit + d * limit
  BY <1>1
<1>3. d * limit \in Nat /\ j * limit \in Nat
  OBVIOUS
<1>4. QED
  BY <1>2, <1>3

LEMMA PagesPartition == IInv => ListPagesPartition
<1> SUFFICES ASSUME IInv, NEW r \in Searches
             PROVE  LET pages == {k \in 0..MaxMemories :
                                    k = 0 \/ Listed(r, r.limit, (k - 1) * r.limit).truncated}
                        page(k) == Listed(r, r.limit, k * r.limit).ids
                    IN  /\ UNION {Range(page(k)) : k \in pages} = JoinEligible(r)
                        /\ \A j, k \in pages : j # k => Range(page(j)) \cap Range(page(k)) = {}
  BY Zenon DEF ListPagesPartition
<1> DEFINE pages == {k \in 0..MaxMemories :
                       k = 0 \/ Listed(r, r.limit, (k - 1) * r.limit).truncated}
           page(k) == Listed(r, r.limit, k * r.limit).ids
<1>1. PICK limit : limit = r.limit
  OBVIOUS
<1>2. limit \in Nat /\ limit >= 1 /\ MaxMemories \in Nat
  BY <1>1, RetrievalAssumption DEF SearchRequest
<1>3. PICK s : /\ s \in Seq(JoinEligible(r)) /\ Once(s) /\ Len(s) <= MaxMemories
               /\ Range(s) = JoinEligible(r) /\ Shows(r, s)
  BY ListedIs
<1>4. PICK I : I = JoinEligible(r)
  OBVIOUS
<1>5. DOMAIN s = 1..Len(s) /\ Len(s) \in Nat
  BY <1>3
<1>6. \A k \in Nat : Range(page(k)) = Window(s, limit, k * limit)
  <2> TAKE k \in Nat
  <2>1. PICK offset : offset = k * limit
    OBVIOUS
  <2>2. offset \in Nat
    BY <1>2, <2>1
  <2>3. Range(Listed(r, limit, offset).ids) = Window(s, limit, offset)
    BY <1>2, <1>3, <2>2 DEF Shows
  <2>4. QED
    BY <1>1, <2>1, <2>3
<1>7. \A k \in 0..MaxMemories : k \in pages <=> k = 0 \/ Len(s) > k * limit
  <2> TAKE k \in 0..MaxMemories
  <2>1. CASE k = 0
    BY <2>1
  <2>2. CASE k # 0
    <3>1. PICK offset : offset = (k - 1) * limit
      OBVIOUS
    <3>2. k - 1 \in Nat
      BY <1>2, <2>2
    <3>3. offset \in Nat
      BY <1>2, <3>1, <3>2
    <3>4. offset + limit = k * limit
      BY <1>2, <3>1
    <3>5. Listed(r, limit, offset).truncated <=> Len(s) > offset + limit
      BY <1>2, <1>3, <3>3 DEF Shows
    <3>6. k \in pages <=> Listed(r, limit, offset).truncated
      BY <1>1, <2>2, <3>1
    <3>7. QED
      BY <2>2, <3>4, <3>5, <3>6
  <2>3. QED
    BY <2>1, <2>2
<1>8. pages \subseteq Nat
  BY <1>2
<1>9. UNION {Range(page(k)) : k \in pages} = I
  <2>1. ASSUME NEW k \in pages, NEW x \in Range(page(k)) PROVE x \in I
    <3>1. x \in Window(s, limit, k * limit)
      BY <1>6, <1>8, <2>1
    <3>2. QED
      BY <1>3, <1>4, <3>1 DEF Window
  <2>2. ASSUME NEW x \in I PROVE \E k \in pages : x \in Range(page(k))
    <3>1. PICK p \in DOMAIN s : x = s[p]
      BY <1>3, <1>4 DEF Range
    <3>2. p \in Nat /\ p >= 1 /\ p <= Len(s)
      BY <1>5
    <3>3. PICK k \in Nat : k * limit < p /\ p <= k * limit + limit /\ k < p
      BY <1>2, <3>2, WindowOf
    <3>4. k \in 0..MaxMemories /\ Len(s) > k * limit
      <4>1. k * limit \in Nat
        BY <1>2
      <4>2. QED
        BY <1>2, <1>3, <1>5, <3>2, <3>3, <4>1
    <3>5. k \in pages
      BY <1>7, <3>4
    <3>6. x \in Window(s, limit, k * limit)
      BY <3>1, <3>3 DEF Window
    <3>7. x \in Range(page(k))
      BY <1>6, <3>6
    <3>8. QED
      BY <3>5, <3>7
  <2> HIDE DEF pages, page
  <2>3. QED
    BY <2>1, <2>2
<1>10. ASSUME NEW j \in pages, NEW k \in pages, j # k
       PROVE  Range(page(j)) \cap Range(page(k)) = {}
  <2>1. ASSUME NEW m \in pages, NEW n \in pages, m < n, NEW x \in Range(page(m)),
               x \in Range(page(n))
        PROVE  FALSE
    <3>1. m \in Nat /\ n \in Nat
      BY <1>8
    <3>2. x \in Window(s, limit, m * limit) /\ x \in Window(s, limit, n * limit)
      BY <1>6, <2>1, <3>1
    <3>3. PICK a \in DOMAIN s : x = s[a] /\ a <= m * limit + limit
      BY <3>2 DEF Window
    <3>4. PICK b \in DOMAIN s : x = s[b] /\ n * limit < b
      BY <3>2 DEF Window
    <3>5. a = b
      BY <1>3, <3>3, <3>4 DEF Once
    <3>6. m * limit + limit <= n * limit
      BY <1>2, <2>1, <3>1, WindowsApart
    <3>7. m * limit \in Nat /\ n * limit \in Nat /\ a \in Nat
      BY <1>2, <1>5, <3>1
    <3>8. QED
      BY <1>2, <3>3, <3>4, <3>5, <3>6, <3>7
  <2>2. j < k \/ k < j
    BY <1>8, <1>10
  <2> HIDE DEF pages, page
  <2>3. QED
    BY <2>1, <2>2
<1>11. QED
  BY <1>4, <1>9, <1>10

-----------------------------------------------------------------------------
(* The pool before the graph *)

LEMMA FlatTyped ==
  ASSUME NEW S, NEW lists \in Seq(Seq(S))
  PROVE  FlattenSeq(lists) \in Seq(S)
<1>1. PICK g : Strung(lists, S, g) /\ FlattenSeq(lists) = g[Len(lists)]
  BY Concatenated
<1>2. Len(lists) \in 0..Len(lists)
  OBVIOUS
<1>3. QED
  BY <1>1, <1>2 DEF Strung

LEMMA RoundRobinTyped ==
  ASSUME NEW S, NEW lists \in Seq(Seq(S))
  PROVE  RoundRobin(lists) \in Seq(S)
<1> DEFINE nth(n) == EachIn(LAMBDA list : IF n <= Len(list) THEN <<list[n]>> ELSE <<>>, lists)
           longest == Max({0} \cup {Len(lists[k]) : k \in DOMAIN lists})
<1>1. RoundRobin(lists) = EachIn(nth, [n \in 1..longest |-> n])
  BY DEF RoundRobin
<1>2. DOMAIN lists = 1..Len(lists) /\ Len(lists) \in Nat /\ \A k \in DOMAIN lists : lists[k] \in Seq(S)
  OBVIOUS
<1>3. longest \in Nat
  <2>1. PICK f, D : D = DOMAIN lists /\ f = [k \in D |-> Len(lists[k])]
    OBVIOUS
  <2>2. IsFiniteSet(D)
    <3>1. PICK n : n = Len(lists)
      OBVIOUS
    <3>2. QED
      BY <1>2, <2>1, <3>1, FS_Interval
  <2>3. IsFiniteSet({f[k] : k \in D})
    BY <2>1, <2>2, FiniteRange
  <2>4. PICK T : T = {0} \cup {f[k] : k \in D}
    OBVIOUS
  <2>5. IsFiniteSet(T)
    <3>1. PICK F : F = {f[k] : k \in D}
      OBVIOUS
    <3>2. IsFiniteSet(F) /\ T = F \cup {0}
      BY <2>3, <2>4, <3>1
    <3>3. IsFiniteSet(F \cup {0})
      BY <3>2, FS_AddElement
    <3>4. QED
      BY <3>2, <3>3
  <2>6. T \subseteq Nat /\ 0 \in T
    BY <1>2, <2>1, <2>4
  <2>7. Max(T) \in T
    <3>1. T \subseteq Int /\ T # {}
      BY <2>6
    <3>2. QED
      BY <2>5, <3>1, MaxIs
  <2>8. T = {0} \cup {Len(lists[k]) : k \in DOMAIN lists}
    BY <2>1, <2>4
  <2>9. QED
    BY <2>6, <2>7, <2>8
<1> HIDE DEF longest
<1>4. \A n \in Nat : n >= 1 => nth(n) \in Seq(S)
  <2> SUFFICES ASSUME NEW n \in Nat, n >= 1 PROVE nth(n) \in Seq(S)
    OBVIOUS
  <2>1. PICK e : e = [k \in DOMAIN lists |->
                        IF n <= Len(lists[k]) THEN <<lists[k][n]>> ELSE <<>>]
    OBVIOUS
  <2>2. nth(n) = FlattenSeq(SubSeq(e, 1, Len(lists)))
    BY <2>1, Zenon DEF EachIn, Each
  <2>3. SubSeq(e, 1, Len(lists)) = e
    BY <1>2, <2>1, EachIs
  <2>4. e \in Seq(Seq(S))
    <3>1. \A k \in DOMAIN lists : e[k] \in Seq(S)
      <4> TAKE k \in DOMAIN lists
      <4>1. CASE n <= Len(lists[k])
        <5>1. lists[k][n] \in S
          BY <1>2, <4>1
        <5>2. e[k] = <<lists[k][n]>>
          BY <2>1, <4>1
        <5>3. QED
          BY <5>1, <5>2
      <4>2. CASE ~(n <= Len(lists[k]))
        BY <2>1, <4>2
      <4>3. QED
        BY <4>1, <4>2
    <3>2. QED
      BY <1>2, <2>1, <3>1
  <2>5. FlattenSeq(e) \in Seq(S)
    BY <2>4, FlatTyped
  <2>6. QED
    BY <2>2, <2>3, <2>5
<1> HIDE DEF nth
<1>5. PICK n : n = longest
  OBVIOUS
<1>6. PICK ns : ns = [k \in 1..n |-> k]
  OBVIOUS
<1>7. PICK e : e = [k \in DOMAIN ns |-> nth(ns[k])]
  OBVIOUS
<1>8. DOMAIN ns = 1..n /\ Len(ns) = n /\ n \in Nat
  BY <1>3, <1>5, <1>6
<1>9. EachIn(nth, ns) = FlattenSeq(SubSeq(e, 1, Len(ns)))
  BY <1>7, Zenon DEF EachIn, Each
<1>10. SubSeq(e, 1, Len(ns)) = e
  BY <1>7, <1>8, EachIs
<1>11. e \in Seq(Seq(S))
  <2>1. \A k \in 1..n : e[k] = nth(k)
    BY <1>6, <1>7
  <2>2. \A k \in 1..n : e[k] \in Seq(S)
    BY <1>4, <2>1
  <2>3. e = [k \in 1..n |-> e[k]]
    BY <1>7, <1>8
  <2>4. PICK T : T = Seq(S)
    OBVIOUS
  <2>5. e \in [1..n -> T] /\ n \in Nat
    BY <1>8, <2>2, <2>3, <2>4
  <2>6. e \in Seq(T)
    BY ONLY <2>5
  <2>7. QED
    BY <2>4, <2>6
<1>12. FlattenSeq(e) \in Seq(S)
  BY <1>11, FlatTyped
<1>13. QED
  BY <1>1, <1>5, <1>6, <1>9, <1>10, <1>12

\* No two entries are of one memory.
OncePerMemory(s) == \A i, j \in DOMAIN s : s[i].id = s[j].id => i = j

LEMMA FirstOfEachIs ==
  ASSUME NEW I, NEW hits \in Seq(Answer(I))
  PROVE  FirstOfEach(hits) \in Seq(Answer(I)) /\ OncePerMemory(FirstOfEach(hits))
<1>1. PICK P : P = {n \in DOMAIN hits : \A k \in 1..(n - 1) : hits[k].id # hits[n].id}
  OBVIOUS
<1>2. PICK e : e = EntriesAt(hits, P)
  OBVIOUS
<1>3. P \subseteq DOMAIN hits
  BY <1>1
<1>4. e \in Seq(Answer(I)) /\ \E p : Lists(p, P, Ascending(P)) /\ Picked(e, hits, p)
  BY <1>2, <1>3, EntriesAtIs
<1>5. PICK p : Lists(p, P, Ascending(P)) /\ Picked(e, hits, p)
  BY <1>4
<1>6. p \in Seq(P) /\ DOMAIN p = 1..Len(p) /\ DOMAIN e = 1..Len(p) /\ Len(p) \in Nat
  <2>1. p \in Seq(P)
    BY <1>5 DEF Lists
  <2>2. Len(e) = Len(p)
    BY <1>5 DEF Picked
  <2>3. QED
    BY <1>4, <2>1, <2>2
<1>7. DOMAIN hits = 1..Len(hits) /\ Len(hits) \in Nat
  OBVIOUS
<1>8. ASSUME NEW i \in DOMAIN e, NEW j \in DOMAIN e, i < j PROVE e[i].id # e[j].id
  <2>1. <<p[i], p[j]>> \in Ascending(P)
    BY <1>5, <1>6, <1>8 DEF Lists
  <2>2. p[i] \in P /\ p[j] \in P
    BY <1>6
  <2>3. p[i] < p[j]
    <3>1. PICK q : q = <<p[i], p[j]>>
      OBVIOUS
    <3>2. q[1] = p[i] /\ q[2] = p[j] /\ q[1] < q[2]
      BY <2>1, <3>1 DEF Ascending
    <3>3. QED
      BY <3>2
  <2>4. p[i] \in 1..(p[j] - 1)
    BY <1>3, <1>7, <2>2, <2>3
  <2>5. hits[p[i]].id # hits[p[j]].id
    BY <1>1, <2>2, <2>4
  <2>6. e[i] = hits[p[i]] /\ e[j] = hits[p[j]]
    BY <1>5, <1>6 DEF Picked
  <2>7. QED
    BY <2>5, <2>6
<1>9. OncePerMemory(e)
  <2>1. \A i, j \in DOMAIN e : i < j \/ j < i \/ i = j
    BY <1>6
  <2>2. QED
    BY <1>8, <2>1 DEF OncePerMemory
<1>10. FirstOfEach(hits) = e
  BY <1>1, <1>2 DEF FirstOfEach
<1>11. QED
  BY <1>4, <1>9, <1>10

LEMMA InterleavedFound ==
  ASSUME NEW I, NEW lists \in Seq(Seq(Answer(I))), NEW width \in Nat
  PROVE  Interleaved(lists, width) \in Seq(Answer(I))
<1>1. PICK h : h = RoundRobin(lists)
  OBVIOUS
<1>2. PICK f : f = FirstOfEach(h)
  OBVIOUS
<1>3. h \in Seq(Answer(I))
  BY <1>1, RoundRobinTyped
<1>4. f \in Seq(Answer(I))
  BY <1>2, <1>3, FirstOfEachIs
<1>5. AtMost(width, f) \in Seq(Answer(I))
  BY <1>4, FirstEntries
<1>6. QED
  BY <1>1, <1>2, <1>5 DEF Interleaved

LEMMA PackTyped ==
  ASSUME NEW r \in PackRequest
  PROVE  /\ r.queries \in Seq(Queries) /\ r.queries # <<>> /\ r.memories \in Nat /\ r.memories >= 1
         /\ r.chars \in Nat /\ r.floor \in Int /\ r.rerank \in Nat /\ r.shortlist \in Nat
         /\ r.seeds \in Nat /\ r.neighbors \in Nat
         /\ Width(r) \in Nat
<1>1. /\ r.queries \in Seq(Queries) /\ r.queries # <<>> /\ r.memories \in Nat /\ r.memories >= 1
      /\ r.chars \in Nat /\ r.floor \in Int /\ r.rerank \in Nat /\ r.shortlist \in Nat
      /\ r.seeds \in Nat /\ r.neighbors \in Nat
  BY DEF PackRequest
<1>2. Width(r) \in Nat
  BY <1>1 DEF Width, Larger
<1>3. QED
  BY <1>1, <1>2

LEMMA BasicFound ==
  ASSUME IInv, NEW r \in PackRequest, NEW dense, NEW width \in Nat
  PROVE  Basic(r, dense, width) \in Seq(Answer(Recalled(r)))
<1> DEFINE hits(q) == IF dense /\ TableExists THEN Semantic(q, r, Min({width, MaxQueryLimit}), 0)
                      ELSE Lexical(q, r, Min({width, MaxQueryLimit}), 0)
<1>1. Basic(r, dense, width) = Interleaved(Each(hits, r.queries), width)
  BY DEF Basic
<1>2. PICK limit, I, qs : /\ limit = Min({width, MaxQueryLimit}) /\ I = Recalled(r)
                          /\ qs = r.queries
  OBVIOUS
<1>3. limit \in Nat
  <2>1. PICK T : T = {width, MaxQueryLimit}
    OBVIOUS
  <2>2. T \subseteq Nat /\ T # {}
    BY <2>1, RetrievalAssumption
  <2>3. Min(T) \in T
    BY <2>2, Least
  <2>4. QED
    BY <1>2, <2>1, <2>2, <2>3
<1>4. \A q \in Queries : hits(q) \in Seq(Answer(I))
  <2> TAKE q \in Queries
  <2>1. PICK zero : zero = 0
    OBVIOUS
  <2>2. /\ Semantic(q, r, limit, zero) \in Seq(Answer(I))
        /\ Lexical(q, r, limit, zero) \in Seq(Answer(I))
    BY <1>2, <1>3, <2>1, SemanticFound, LexicalFound
  <2>3. hits(q) = Semantic(q, r, limit, zero) \/ hits(q) = Lexical(q, r, limit, zero)
    BY <1>2, <2>1
  <2>4. QED
    BY <2>2, <2>3
<1> HIDE DEF hits
<1>5. qs \in Seq(Queries) /\ DOMAIN qs = 1..Len(qs) /\ Len(qs) \in Nat
  BY <1>2, PackTyped
<1>6. PICK e : e = [n \in DOMAIN qs |-> hits(qs[n])]
  OBVIOUS
<1>7. Each(hits, qs) = SubSeq(e, 1, Len(qs))
  BY <1>6, Zenon DEF Each
<1>8. SubSeq(e, 1, Len(qs)) = e
  BY <1>5, <1>6, EachIs
<1>9. e \in Seq(Seq(Answer(I)))
  <2>1. \A n \in DOMAIN qs : e[n] \in Seq(Answer(I))
    BY <1>4, <1>5, <1>6
  <2>2. QED
    BY <1>5, <1>6, <2>1
<1>10. Interleaved(e, width) \in Seq(Answer(I))
  BY <1>9, InterleavedFound
<1>11. QED
  BY <1>1, <1>2, <1>7, <1>8, <1>10

LEMMA MaxSimPoolFound ==
  ASSUME IInv, NEW r \in PackRequest, NEW width \in Nat
  PROVE  MaxSimPool(r, width) \in Seq(Answer(Recalled(r)))
<1> DEFINE hits(q) == MaxSim(q, Scanned(q, r, width), width)
<1>1. MaxSimPool(r, width) = Interleaved(Each(hits, r.queries), width)
  BY DEF MaxSimPool
<1>2. PICK I, qs : I = Recalled(r) /\ qs = r.queries
  OBVIOUS
<1>3. \A q \in Queries : hits(q) \in Seq(Answer(I))
  <2> TAKE q \in Queries
  <2>1. PICK T : T = Scanned(q, r, width)
    OBVIOUS
  <2>2. T \subseteq Recalled(r)
    BY <2>1, PackTyped, ScannedIs
  <2>3. MaxSim(q, T, width) \in Seq(Answer(Recalled(r)))
    BY <2>2, MaxSimFound
  <2>4. QED
    BY <1>2, <2>1, <2>3
<1> HIDE DEF hits
<1>4. qs \in Seq(Queries) /\ DOMAIN qs = 1..Len(qs) /\ Len(qs) \in Nat
  BY <1>2, PackTyped
<1>5. PICK e : e = [n \in DOMAIN qs |-> hits(qs[n])]
  OBVIOUS
<1>6. Each(hits, qs) = SubSeq(e, 1, Len(qs))
  BY <1>5, Zenon DEF Each
<1>7. SubSeq(e, 1, Len(qs)) = e
  BY <1>4, <1>5, EachIs
<1>8. e \in Seq(Seq(Answer(I)))
  <2>1. \A n \in DOMAIN qs : e[n] \in Seq(Answer(I))
    BY <1>3, <1>4, <1>5
  <2>2. QED
    BY <1>4, <1>5, <2>1
<1>9. Interleaved(e, width) \in Seq(Answer(I))
  BY <1>8, InterleavedFound
<1>10. QED
  BY <1>1, <1>2, <1>6, <1>7, <1>9

\* What both legs find, each memory once.
LEMMA MergedFound ==
  ASSUME IInv, NEW r \in PackRequest, NEW width \in Nat
  PROVE  Merged(r, width) \in Seq(Answer(Recalled(r))) /\ OncePerMemory(Merged(r, width))
<1>1. PICK I, a, b : I = Recalled(r) /\ a = Primary(r, width) /\ b = Secondary(r, width)
  OBVIOUS
<1>2. a \in Seq(Answer(I))
  <2>1. MaxSimPool(r, width) \in Seq(Answer(I))
    BY <1>1, MaxSimPoolFound
  <2>2. PICK dense : dense = r.dense
    OBVIOUS
  <2>3. Basic(r, dense, width) \in Seq(Answer(I))
    BY <1>1, BasicFound
  <2>4. a = MaxSimPool(r, width) \/ a = Basic(r, dense, width)
    BY <1>1, <2>2 DEF Primary
  <2>5. QED
    BY <2>1, <2>3, <2>4
<1>3. b \in Seq(Answer(I))
  <2>1. Basic(r, FALSE, width) \in Seq(Answer(I))
    BY <1>1, BasicFound
  <2>2. b = <<>> \/ b = Basic(r, FALSE, width)
    BY <1>1 DEF Secondary
  <2>3. <<>> \in Seq(Answer(I))
    <3>1. PICK e : e = <<>>
      OBVIOUS
    <3>2. e \in Seq(Answer(I))
      BY <3>1
    <3>3. QED
      BY <3>1, <3>2
  <2>4. QED
    BY <2>1, <2>2, <2>3
<1>4. PICK lists : lists = <<a, b>>
  OBVIOUS
<1>5. lists \in Seq(Seq(Answer(I)))
  BY <1>2, <1>3, <1>4
<1>6. PICK h : h = RoundRobin(lists)
  OBVIOUS
<1>7. h \in Seq(Answer(I))
  BY <1>5, <1>6, RoundRobinTyped
<1>8. FirstOfEach(h) \in Seq(Answer(I)) /\ OncePerMemory(FirstOfEach(h))
  BY <1>7, FirstOfEachIs
<1>9. Merged(r, width) = FirstOfEach(h)
  BY <1>1, <1>4, <1>6 DEF Merged
<1>10. QED
  BY <1>1, <1>8, <1>9

\* A limit that cuts is met.
LEMMA CutsAt ==
  ASSUME NEW S, NEW s \in Seq(S), NEW n \in Nat
  PROVE  Len(AtMost(n, s)) = n \/ AtMost(n, s) = s
<1>1. PICK t : t = AtMost(n, s)
  OBVIOUS
<1>2. t \in Seq(S) /\ DOMAIN t = {i \in DOMAIN s : i <= n} /\ \A i \in DOMAIN t : t[i] = s[i]
  BY <1>1, FirstEntries
<1>3. DOMAIN s = 1..Len(s) /\ Len(s) \in Nat /\ DOMAIN t = 1..Len(t) /\ Len(t) \in Nat
  <2>1. t \in Seq(S)
    BY <1>2
  <2>2. QED
    BY <2>1
<1>4. CASE n < Len(s)
  <2>1. DOMAIN t = 1..n
    BY <1>2, <1>3, <1>4
  <2>2. PICK m : m = Len(t)
    OBVIOUS
  <2>3. m \in Nat /\ \A i \in Nat : i \in 1..n <=> i \in 1..m
    BY <1>3, <2>1, <2>2
  <2>4. (n \in 1..n <=> n \in 1..m) /\ (m \in 1..m <=> m \in 1..n)
    BY <2>3
  <2>5. m = n
    BY <2>3, <2>4
  <2>6. QED
    BY <1>1, <2>2, <2>5
<1>5. CASE ~(n < Len(s))
  <2>1. DOMAIN t = DOMAIN s
    BY <1>2, <1>3, <1>5
  <2>2. QED
    BY <1>1, <1>2, <1>3, <2>1
<1>6. QED
  BY <1>4, <1>5

\* The first entries of a list of answers, and whether they are all.
LEMMA CutOff ==
  ASSUME NEW I, NEW s \in Seq(Answer(I)), OncePerMemory(s), NEW n \in Nat, NEW t, t = AtMost(n, s)
  PROVE  /\ t \in Seq(Answer(I)) /\ OncePerMemory(t) /\ Ids(t) \subseteq Ids(s)
         /\ Len(t) = n \/ t = s
<1>1. /\ t \in Seq(Answer(I)) /\ DOMAIN t = {i \in DOMAIN s : i <= n}
      /\ \A i \in DOMAIN t : t[i] = s[i]
  BY FirstEntries
<1>2. DOMAIN s = 1..Len(s) /\ Len(s) \in Nat /\ DOMAIN t = 1..Len(t) /\ Len(t) \in Nat
  <2>1. t \in Seq(Answer(I))
    BY <1>1
  <2>2. QED
    BY <2>1
<1>3. OncePerMemory(t) /\ Ids(t) \subseteq Ids(s)
  BY <1>1 DEF OncePerMemory, Ids
<1>4. Len(t) = n \/ t = s
  BY CutsAt
<1>5. QED
  BY <1>1, <1>3, <1>4

LEMMA DirectFound ==
  ASSUME IInv, NEW r \in PackRequest
  PROVE  /\ Direct(r) \in Seq(Answer(Recalled(r))) /\ OncePerMemory(Direct(r))
         /\ Len(Direct(r)) = Width(r) \/ Direct(r) = Merged(r, Width(r))
<1>1. PICK w, I : w = Width(r) /\ I = Recalled(r)
  OBVIOUS
<1>2. w \in Nat
  BY <1>1, PackTyped
<1>3. PICK s : s = Merged(r, w)
  OBVIOUS
<1>4. s \in Seq(Answer(I)) /\ OncePerMemory(s)
  BY <1>1, <1>2, <1>3, MergedFound
<1>5. PICK t : t = AtMost(w, s)
  OBVIOUS
<1>6. t \in Seq(Answer(I)) /\ OncePerMemory(t) /\ (Len(t) = w \/ t = s)
  BY <1>2, <1>4, <1>5, CutOff
<1>7. Direct(r) = t
  BY <1>1, <1>3, <1>5 DEF Direct
<1>8. QED
  BY <1>1, <1>3, <1>6, <1>7

-----------------------------------------------------------------------------
(* The evidence join *)

Seed == [source : {"memory", "entity"}, memory : Nat, at : Entities, score : Int]

\* The endpoints of the relationships a memory supports, with what orders them.
Endpoints(i) ==
  UNION {{Entity(rels[k].space, rels[k].subject), Entity(rels[k].space, rels[k].object)} :
           k \in {n \in DOMAIN rels : rels[n].status = "active" /\ rels[n].memory = i}}

LEMMA SupportedKeys ==
  ASSUME IInv, NEW i \in DOMAIN mem, NEW E, E = Endpoints(i) \cap Entities
  PROVE  IsFiniteSet(E) /\ \A x, y \in E : x.key \in Int /\ (x.key = y.key => x = y)
<1>1. PICK D, f, g : /\ D = DOMAIN rels
                     /\ f = [k \in D |-> Entity(rels[k].space, rels[k].subject)]
                     /\ g = [k \in D |-> Entity(rels[k].space, rels[k].object)]
  OBVIOUS
<1>2. IsFiniteSet(D)
  <2>1. PICK n : n = Len(rels)
    OBVIOUS
  <2>2. D = 1..n /\ n \in Int
    BY <1>1, <2>1, RowsTyped
  <2>3. QED
    BY <2>2, FS_Interval
<1>3. PICK A, B : A = {f[k] : k \in D} /\ B = {g[k] : k \in D}
  OBVIOUS
<1>4. IsFiniteSet(A) /\ IsFiniteSet(B)
  <2>1. IsFiniteSet({f[k] : k \in D})
    BY <1>1, <1>2, FiniteRange
  <2>2. IsFiniteSet({g[k] : k \in D})
    BY <1>1, <1>2, FiniteRange
  <2>3. QED
    BY <1>3, <2>1, <2>2
<1>5. E \subseteq A \cup B /\ E \subseteq Entities
  <2>1. ASSUME NEW x \in E PROVE x \in A \cup B
    <3>1. PICK k \in D : x = f[k] \/ x = g[k]
      BY <1>1 DEF Endpoints
    <3>2. QED
      BY <1>3, <3>1
  <2>2. QED
    BY <2>1
<1>6. IsFiniteSet(A \cup B)
  BY <1>4, FS_Union
<1>7. IsFiniteSet(E)
  BY <1>5, <1>6, FS_Subset
<1>8. ASSUME NEW x \in E
      PROVE  x.space = mem[i].space /\ x.key \in Int /\ x \in [space : Spaces, key : Keys]
  <2>1. PICK k \in DOMAIN rels : /\ rels[k].memory = i
                                 /\ \/ x = Entity(rels[k].space, rels[k].subject)
                                    \/ x = Entity(rels[k].space, rels[k].object)
    BY DEF Endpoints
  <2>2. x.space = rels[k].space
    BY <2>1 DEF Entity
  <2>3. rels[k].space = mem[i].space
    BY <2>1, RowsTyped
  <2>4. x \in [space : Spaces, key : Keys]
    BY <1>5, RetrievalAssumption
  <2>5. x.key \in Int
    <3>1. Keys \subseteq Int
      BY RetrievalAssumption
    <3>2. QED
      BY <2>4, <3>1
  <2>6. QED
    BY <2>2, <2>3, <2>4, <2>5
<1>9. \A x, y \in E : x.key = y.key => x = y
  BY <1>8
<1>10. QED
  BY <1>7, <1>8, <1>9

LEMMA SeedsOfTyped ==
  ASSUME IInv, NEW I, I \subseteq DOMAIN mem, NEW hit \in Answer(I)
  PROVE  SeedsOf(hit) \in Seq(Seed)
<1> DEFINE before(a, b) == a.key < b.key
           attached == IF Entity(mem[hit.id].space, mem[hit.id].key) \in Entities
                       THEN <<Entity(mem[hit.id].space, mem[hit.id].key)>> ELSE <<>>
           seed(e) == [source |-> "memory", memory |-> hit.id, at |-> e, score |-> hit.score]
<1>1. SeedsOf(hit) = Each(seed, Ordered(Endpoints(hit.id) \cap Entities, before) \o attached)
  BY DEF SeedsOf, Endpoints
<1>2. PICK E : E = Endpoints(hit.id) \cap Entities
  OBVIOUS
<1>3. hit.id \in DOMAIN mem /\ hit.id \in Nat /\ hit.score \in Int
  BY RowsTyped DEF Answer
<1>4. PICK i : i = hit.id
  OBVIOUS
<1>5. IsFiniteSet(E) /\ \A x, y \in E : x.key \in Int /\ (x.key = y.key => x = y)
  <2>1. E = Endpoints(i) \cap Entities
    BY <1>2, <1>4, Zenon
  <2>2. i \in DOMAIN mem
    BY <1>3, <1>4
  <2>3. QED
    BY <2>1, <2>2, SupportedKeys
<1>6. PICK d : d = [x \in E |-> x.key]
  OBVIOUS
<1>7. d \in [E -> Int] /\ \A x, y \in E : d[x] = d[y] => x = y
  BY <1>5, <1>6
<1>8. PICK R : R = Lex(E, d, d, d, d)
  OBVIOUS
<1>9. Lists(Listing(E, R), E, R)
  BY <1>5, <1>7, <1>8, Sorted
<1>10. \A x, y \in E : before(x, y) <=> <<x, y>> \in R
  <2> TAKE x, y \in E
  <2>1. <<x, y>> \in R <=> ComesBefore(d, d, d, d, x, y)
    BY <1>8, LexIs
  <2>2. x.key \in Int /\ y.key \in Int /\ d[x] = x.key /\ d[y] = y.key
    BY <1>5, <1>6
  <2>3. QED
    BY <2>1, <2>2 DEF ComesBefore
<1>11. Ordered(E, before) = Listing(E, R)
  <2> HIDE DEF before
  <2> DEFINE place == [x \in E |-> 1 + Cardinality({y \in E : before(y, x)})]
  <2>1. Ordered(E, before) = [n \in 1..Cardinality(E) |-> CHOOSE x \in E : place[x] = n]
    BY Zenon DEF Ordered
  <2>2. place = Standing(E, R)
    <3>1. \A x \in E : {y \in E : before(y, x)} = {y \in E : <<y, x>> \in R}
      BY <1>10
    <3>2. QED
      BY <3>1 DEF Standing
  <2> HIDE DEF place
  <2>3. QED
    BY <2>1, <2>2 DEF Listing
<1>12. PICK s, a : s = Listing(E, R) /\ a = attached
  OBVIOUS
<1>13. s \in Seq(Entities)
  <2>1. s \in Seq(E)
    BY <1>9, <1>12 DEF Lists
  <2>2. E \subseteq Entities
    BY <1>2
  <2>3. QED
    BY <2>1, <2>2, SeqOver
<1>14. a \in Seq(Entities)
  <2>1. PICK x : x = Entity(mem[hit.id].space, mem[hit.id].key)
    OBVIOUS
  <2>2. CASE x \in Entities
    <3>1. a = <<x>>
      BY <1>12, <2>1, <2>2
    <3>2. QED
      BY <2>2, <3>1
  <2>3. CASE x \notin Entities
    <3>1. a = <<>>
      BY <1>12, <2>1, <2>3
    <3>2. QED
      BY <3>1
  <2>4. QED
    BY <2>2, <2>3
<1> HIDE DEF attached
<1>15. PICK t : t = s \o a
  OBVIOUS
<1>16. t \in Seq(Entities) /\ DOMAIN t = 1..Len(t) /\ Len(t) \in Nat
  <2>1. t \in Seq(Entities)
    BY <1>13, <1>14, <1>15
  <2>2. QED
    BY <2>1
<1>17. PICK e : e = [n \in DOMAIN t |-> seed(t[n])]
  OBVIOUS
<1>18. Each(seed, t) = SubSeq(e, 1, Len(t))
  BY <1>17, Zenon DEF Each
<1>19. SubSeq(e, 1, Len(t)) = e
  BY <1>16, <1>17, EachIs
<1>20. e \in Seq(Seed)
  <2>1. \A n \in DOMAIN t : seed(t[n]) \in Seed
    BY <1>3, <1>16 DEF Seed
  <2>2. QED
    BY <1>16, <1>17, <2>1
<1>21. QED
  BY <1>1, <1>2, <1>11, <1>12, <1>15, <1>18, <1>19, <1>20, Zenon

LEMMA FirstAtTyped ==
  ASSUME NEW s \in Seq(Seed)
  PROVE  FirstAt(s) \in Seq(Seed)
<1>1. PICK P : P = {n \in DOMAIN s : \A k \in 1..(n - 1) : s[k].at # s[n].at}
  OBVIOUS
<1>2. P \subseteq DOMAIN s
  BY <1>1
<1>3. EntriesAt(s, P) \in Seq(Seed)
  BY <1>2, EntriesAtIs
<1>4. QED
  BY <1>1, <1>3 DEF FirstAt

LEMMA EntitySeedsTyped ==
  ASSUME NEW r \in PackRequest
  PROVE  EntitySeeds(r) \in Seq(Seed)
<1> DEFINE named(key) ==
             {e \in Entities : e.key = key /\ (r.spaces = {} \/ e.space \in r.spaces)}
           seeds(key) == IF Cardinality(named(key)) # 1 THEN <<>>
                         ELSE <<[source |-> "entity", memory |-> 0, score |-> 100,
                                 at |-> CHOOSE e \in named(key) : TRUE]>>
<1>1. EntitySeeds(r) = EachIn(seeds, EachIn(LAMBDA q : Mentions[q], r.queries))
  BY DEF EntitySeeds
<1>2. PICK qs : qs = r.queries
  OBVIOUS
<1>3. qs \in Seq(Queries) /\ DOMAIN qs = 1..Len(qs) /\ Len(qs) \in Nat
  BY <1>2, PackTyped
<1>4. PICK m : m = [n \in DOMAIN qs |-> Mentions[qs[n]]]
  OBVIOUS
<1>5. EachIn(LAMBDA q : Mentions[q], qs) = FlattenSeq(SubSeq(m, 1, Len(qs)))
  BY <1>4, Zenon DEF EachIn, Each
<1>6. SubSeq(m, 1, Len(qs)) = m
  BY <1>3, <1>4, EachIs
<1>7. m \in Seq(Seq(Keys))
  <2>1. \A n \in DOMAIN qs : m[n] \in Seq(Keys)
    BY <1>3, <1>4, RetrievalAssumption
  <2>2. QED
    BY <1>3, <1>4, <2>1
<1>8. PICK ks : ks = FlattenSeq(m)
  OBVIOUS
<1>9. ks \in Seq(Keys) /\ DOMAIN ks = 1..Len(ks) /\ Len(ks) \in Nat
  <2>1. ks \in Seq(Keys)
    BY <1>7, <1>8, FlatTyped
  <2>2. QED
    BY <2>1
<1>10. \A key \in Keys : seeds(key) \in Seq(Seed)
  <2> TAKE key \in Keys
  <2>1. PICK T : T = named(key)
    OBVIOUS
  <2>2. CASE Cardinality(T) # 1
    <3>1. PICK e : e = <<>>
      OBVIOUS
    <3>2. e \in Seq(Seed)
      BY <3>1
    <3>3. seeds(key) = e
      BY <2>1, <2>2, <3>1
    <3>4. QED
      BY <3>2, <3>3
  <2>3. CASE Cardinality(T) = 1
    <3>1. T # {}
      BY <2>3, FS_EmptySet
    <3>2. PICK e : e = CHOOSE x \in T : TRUE
      OBVIOUS
    <3>3. e \in T
      BY <3>1, <3>2
    <3>4. e \in Entities
      BY <2>1, <3>3
    <3>5. PICK one : one = [source |-> "entity", memory |-> 0, score |-> 100, at |-> e]
      OBVIOUS
    <3>6. one \in Seed
      BY <3>4, <3>5 DEF Seed
    <3>7. seeds(key) = <<one>>
      BY <2>1, <2>3, <3>2, <3>5
    <3>8. <<one>> \in Seq(Seed)
      BY <3>6
    <3> HIDE DEF seeds
    <3>9. QED
      BY <3>7, <3>8
  <2>4. QED
    BY <2>2, <2>3
<1> HIDE DEF seeds
<1>11. PICK e : e = [n \in DOMAIN ks |-> seeds(ks[n])]
  OBVIOUS
<1>12. EachIn(seeds, ks) = FlattenSeq(SubSeq(e, 1, Len(ks)))
  BY <1>11, Zenon DEF EachIn, Each
<1>13. SubSeq(e, 1, Len(ks)) = e
  BY <1>9, <1>11, EachIs
<1>14. e \in Seq(Seq(Seed))
  <2>1. \A n \in DOMAIN ks : e[n] \in Seq(Seed)
    BY <1>9, <1>10, <1>11
  <2>2. QED
    BY <1>9, <1>11, <2>1
<1>15. FlattenSeq(e) \in Seq(Seed)
  BY <1>14, FlatTyped
<1>16. QED
  BY <1>1, <1>2, <1>5, <1>6, <1>8, <1>12, <1>13, <1>15, Zenon

LEMMA SeedsTyped ==
  ASSUME IInv, NEW r \in PackRequest, NEW I, I \subseteq DOMAIN mem, NEW pool \in Seq(Answer(I))
  PROVE  Seeds(r, pool) \in Seq(Seed)
<1>1. DOMAIN pool = 1..Len(pool) /\ Len(pool) \in Nat
  OBVIOUS
<1>2. PICK e : e = [n \in DOMAIN pool |-> SeedsOf(pool[n])]
  OBVIOUS
<1>3. EachIn(SeedsOf, pool) = FlattenSeq(SubSeq(e, 1, Len(pool)))
  BY <1>2, Zenon DEF EachIn, Each
<1>4. SubSeq(e, 1, Len(pool)) = e
  BY <1>1, <1>2, EachIs
<1>5. e \in Seq(Seq(Seed))
  <2>1. \A n \in DOMAIN pool : e[n] \in Seq(Seed)
    <3> TAKE n \in DOMAIN pool
    <3>1. PICK hit : hit = pool[n]
      OBVIOUS
    <3>2. hit \in Answer(I)
      BY <3>1
    <3>3. SeedsOf(hit) \in Seq(Seed)
      BY <3>2, SeedsOfTyped
    <3>4. QED
      BY <1>2, <3>1, <3>3
  <2>2. QED
    BY <1>1, <1>2, <2>1
<1>6. PICK f, g : f = FlattenSeq(e) /\ g = EntitySeeds(r)
  OBVIOUS
<1>7. f \in Seq(Seed) /\ g \in Seq(Seed)
  BY <1>5, <1>6, FlatTyped, EntitySeedsTyped
<1>8. PICK a, b : a = FirstAt(f) /\ b = FirstAt(g)
  OBVIOUS
<1>9. a \in Seq(Seed) /\ b \in Seq(Seed)
  BY <1>7, <1>8, FirstAtTyped
<1>10. PICK lists : lists = <<a, b>>
  OBVIOUS
<1>11. lists \in Seq(Seq(Seed))
  BY <1>9, <1>10
<1>12. PICK s, n : s = RoundRobin(lists) /\ n = r.seeds
  OBVIOUS
<1>13. s \in Seq(Seed) /\ n \in Nat
  BY <1>11, <1>12, RoundRobinTyped, PackTyped
<1>14. AtMost(n, s) \in Seq(Seed)
  BY <1>13, FirstEntries
<1>15. EachIn(SeedsOf, pool) = f
  BY <1>3, <1>4, <1>6
<1>16. QED
  BY <1>6, <1>8, <1>10, <1>12, <1>14, <1>15, Zenon DEF Seeds

LEMMA PathsFinite ==
  ASSUME IInv, NEW e
  PROVE  IsFiniteSet(Paths(e)) /\ \A path \in Paths(e) : Len(path) \in {1, 2}
<1>1. PICK D : D = DOMAIN rels
  OBVIOUS
<1>2. IsFiniteSet(D)
  <2>1. PICK n : n = Len(rels)
    OBVIOUS
  <2>2. D = 1..n /\ n \in Int
    BY <1>1, <2>1, RowsTyped
  <2>3. QED
    BY <2>2, FS_Interval
<1>3. \A x : Edges(x) \subseteq D
  BY <1>1 DEF Edges
<1>4. PICK f, g, P : P = D \X D /\ f = [k \in D |-> <<k>>] /\ g = [p \in P |-> <<p[1], p[2]>>]
  OBVIOUS
<1>5. PICK A, B : A = {f[k] : k \in D} /\ B = {g[p] : p \in P}
  OBVIOUS
<1>6. IsFiniteSet(A) /\ IsFiniteSet(B)
  <2>1. IsFiniteSet({f[k] : k \in D})
    BY <1>2, <1>4, FiniteRange
  <2>2. IsFiniteSet(P)
    BY <1>2, <1>4, FS_Product
  <2>3. IsFiniteSet({g[p] : p \in P})
    BY <1>4, <2>2, FiniteRange
  <2>4. QED
    BY <1>5, <2>1, <2>3
<1>7. ASSUME NEW path \in Paths(e) PROVE path \in A \cup B /\ Len(path) \in {1, 2}
  <2>1. \/ \E k \in Edges(e) : path = <<k>>
        \/ \E k \in Onward(e) : \E n \in Edges(Far(k, e)) \ {k} : path = <<k, n>>
    BY DEF Paths
  <2>2. CASE \E k \in Edges(e) : path = <<k>>
    <3>1. PICK k \in D : path = <<k>>
      BY <1>3, <2>2
    <3>2. f[k] = <<k>>
      BY <1>4
    <3>3. QED
      BY <1>5, <3>1, <3>2
  <2>3. CASE \E k \in Onward(e) : \E n \in Edges(Far(k, e)) \ {k} : path = <<k, n>>
    <3>1. PICK k \in D, n \in D : path = <<k, n>>
      BY <1>3, <2>3 DEF Onward
    <3>2. PICK p : p = <<k, n>>
      OBVIOUS
    <3>3. p \in P /\ g[p] = <<k, n>>
      BY <1>4, <3>2
    <3>4. QED
      BY <1>5, <3>1, <3>3
  <2>4. QED
    BY <2>1, <2>2, <2>3
<1>8. IsFiniteSet(A \cup B)
  BY <1>6, FS_Union
<1>9. PICK Q : Q = Paths(e)
  OBVIOUS
<1>10. IsFiniteSet(Q)
  BY <1>7, <1>8, <1>9, FS_Subset
<1>11. QED
  BY <1>7, <1>9, <1>10

LEMMA AttachedIs ==
  ASSUME IInv, NEW r \in PackRequest, NEW key
  PROVE  Attached(r, key) \subseteq JoinEligible(r)
<1> DEFINE before(i, j) == \/ mem[i].pinned /\ ~mem[j].pinned
                           \/ mem[i].pinned = mem[j].pinned /\ i > j
<1>1. PICK J, S : J = JoinEligible(r) /\ S = {i \in J : mem[i].key = key}
  OBVIOUS
<1>2. S \subseteq J /\ S \subseteq DOMAIN mem /\ S \subseteq Int /\ IsFiniteSet(S)
  <2>1. PICK D : D = DOMAIN mem
    OBVIOUS
  <2>2. S \subseteq J /\ S \subseteq D /\ D \subseteq Int /\ IsFiniteSet(D)
    BY <1>1, <2>1, RecalledIs
  <2>3. QED
    BY <2>1, <2>2, FS_Subset
<1>3. PICK a, c : a = [i \in S |-> IF mem[i].pinned THEN 0 ELSE 1] /\ c = [i \in S |-> 0 - i]
  OBVIOUS
<1>4. a \in [S -> Int] /\ c \in [S -> Int] /\ \A x, y \in S : c[x] = c[y] => x = y
  BY <1>2, <1>3
<1>5. PICK R : R = Lex(S, a, c, c, c)
  OBVIOUS
<1>6. Lists(Listing(S, R), S, R)
  BY <1>2, <1>4, <1>5, Sorted
<1>7. \A i, j \in S : before(i, j) <=> <<i, j>> \in R
  <2> TAKE i, j \in S
  <2>1. <<i, j>> \in R <=> ComesBefore(a, c, c, c, i, j)
    BY <1>5, LexIs
  <2>2. mem[i].pinned \in BOOLEAN /\ mem[j].pinned \in BOOLEAN /\ i \in Int /\ j \in Int
    BY <1>2, RowsTyped DEF MemoryRow
  <2>3. /\ a[i] = (IF mem[i].pinned THEN 0 ELSE 1) /\ a[j] = (IF mem[j].pinned THEN 0 ELSE 1)
        /\ c[i] = 0 - i /\ c[j] = 0 - j
    BY <1>3
  <2>4. QED
    BY <2>1, <2>2, <2>3 DEF ComesBefore
<1>8. Ordered(S, before) = Listing(S, R)
  <2> HIDE DEF before
  <2> DEFINE place == [x \in S |-> 1 + Cardinality({y \in S : before(y, x)})]
  <2>1. Ordered(S, before) = [n \in 1..Cardinality(S) |-> CHOOSE x \in S : place[x] = n]
    BY Zenon DEF Ordered
  <2>2. place = Standing(S, R)
    <3>1. \A x \in S : {y \in S : before(y, x)} = {y \in S : <<y, x>> \in R}
      BY <1>7
    <3>2. QED
      BY <3>1 DEF Standing
  <2> HIDE DEF place
  <2>3. QED
    BY <2>1, <2>2 DEF Listing
<1>9. PICK s, n : s = Listing(S, R) /\ n = r.neighbors
  OBVIOUS
<1>10. s \in Seq(S) /\ n \in Nat
  BY <1>6, <1>9, PackTyped DEF Lists
<1>11. PICK t : t = AtMost(n, s)
  OBVIOUS
<1>12. t \in Seq(S)
  BY <1>10, <1>11, FirstEntries
<1>13. Attached(r, key) = Range(t)
  BY <1>1, <1>8, <1>9, <1>11, Zenon DEF Attached
<1>14. Range(t) \subseteq S
  BY <1>12 DEF Range
<1>15. QED
  BY <1>1, <1>2, <1>13, <1>14

\* What is known of a route to a memory of J.
IsRoute(e, J) ==
  e.id \in J /\ e.class \in {0, 1} /\ Len(e.path) \in {1, 2} /\ e.activation \in Int
AreRoutes(all, J) == IsFiniteSet(all) /\ \A e \in all : IsRoute(e, J)

LEMMA EligibleFinite ==
  ASSUME IInv, NEW r, NEW S, S \subseteq JoinEligible(r)
  PROVE  IsFiniteSet(S) /\ S \subseteq DOMAIN mem /\ S \subseteq Int
<1>1. PICK D : D = DOMAIN mem
  OBVIOUS
<1>2. S \subseteq D /\ D \subseteq Int /\ IsFiniteSet(D)
  BY <1>1, RecalledIs
<1>3. QED
  BY <1>1, <1>2, FS_Subset

LEMMA RoutesAre ==
  ASSUME IInv, NEW r \in PackRequest, NEW seed \in Seed
  PROVE  AreRoutes(Routes(r, seed), JoinEligible(r))
<1> DEFINE route(i, class, path) ==
             [id |-> i, seed |-> <<seed.source, seed.memory, seed.at>>, class |-> class,
              path |-> path,
              activation |-> seed.score \div (IF Len(path) = 1 THEN Decay ELSE Decay * Decay)]
           evidence(path) == rels[path[Len(path)]].memory
           reached(path) ==
             {route(evidence(path), 0, path) : i \in {evidence(path)} \cap JoinEligible(r)}
               \cup {route(i, 1, path) :
                       i \in Attached(r, PathEnd(seed.at, path).key) \ {evidence(path)}}
<1>1. Routes(r, seed) = UNION {reached(path) : path \in Paths(seed.at)}
  BY DEF Routes
<1>2. PICK P, J : P = Paths(seed.at) /\ J = JoinEligible(r)
  OBVIOUS
<1>3. IsFiniteSet(P) /\ \A path \in P : Len(path) \in {1, 2}
  <2>1. PICK at : at = seed.at
    OBVIOUS
  <2>2. IsFiniteSet(Paths(at)) /\ \A path \in Paths(at) : Len(path) \in {1, 2}
    BY PathsFinite
  <2>3. QED
    BY <1>2, <2>1, <2>2
<1>4. \A i \in J, class \in {0, 1}, path \in P : IsRoute(route(i, class, path), J)
  <2> TAKE i \in J, class \in {0, 1}, path \in P
  <2>1. seed.score \in Int
    BY DEF Seed
  <2>2. PICK d : d = IF Len(path) = 1 THEN Decay ELSE Decay * Decay
    OBVIOUS
  <2>3. d \in Int /\ d > 0
    <3>1. Decay \in Nat /\ Decay > 0
      BY RetrievalAssumption
    <3>2. Decay * Decay \in Nat /\ Decay * Decay > 0
      BY <3>1
    <3>3. QED
      BY <2>2, <3>1, <3>2
  <2>4. PICK n, a : n = seed.score /\ a = n \div d
    OBVIOUS
  <2>5. a \in Int
    BY <2>1, <2>3, <2>4, DivTyped
  <2>6. PICK e : e = route(i, class, path)
    OBVIOUS
  <2>7. e.id = i /\ e.class = class /\ e.path = path /\ e.activation = a
    BY <2>2, <2>4, <2>6
  <2> HIDE DEF route
  <2>8. QED
    BY <1>3, <2>5, <2>6, <2>7 DEF IsRoute
<1> HIDE DEF route, evidence
<1>5. ASSUME NEW path \in P PROVE AreRoutes(reached(path), J)
  <2>1. PICK X, Y, v : /\ v = evidence(path) /\ X = {v} \cap J
                       /\ Y = Attached(r, PathEnd(seed.at, path).key) \ {v}
    OBVIOUS
  <2>2. X \subseteq J /\ Y \subseteq J
    <3>1. PICK key : key = PathEnd(seed.at, path).key
      OBVIOUS
    <3>2. Attached(r, key) \subseteq JoinEligible(r)
      BY AttachedIs
    <3>3. QED
      BY <1>2, <2>1, <3>1, <3>2
  <2>3. IsFiniteSet(X) /\ IsFiniteSet(Y)
    BY <1>2, <2>2, EligibleFinite
  <2>4. PICK f, g : f = [i \in X |-> route(v, 0, path)] /\ g = [i \in Y |-> route(i, 1, path)]
    OBVIOUS
  <2>5. PICK A, B : A = {f[i] : i \in X} /\ B = {g[i] : i \in Y}
    OBVIOUS
  <2>6. IsFiniteSet(A) /\ IsFiniteSet(B)
    <3>1. IsFiniteSet({f[i] : i \in X})
      BY <2>3, <2>4, FiniteRange
    <3>2. IsFiniteSet({g[i] : i \in Y})
      BY <2>3, <2>4, FiniteRange
    <3>3. QED
      BY <2>5, <3>1, <3>2
  <2>7. A = {route(v, 0, path) : i \in X} /\ B = {route(i, 1, path) : i \in Y}
    BY <2>4, <2>5
  <2>8. \A e \in A \cup B : IsRoute(e, J)
    <3>1. \A e \in A : IsRoute(e, J)
      <4> TAKE e \in A
      <4>1. v \in J /\ e = route(v, 0, path)
        BY <2>1, <2>7
      <4>2. QED
        BY <1>4, <4>1
    <3>2. \A e \in B : IsRoute(e, J)
      BY <1>4, <2>2, <2>7
    <3>3. QED
      BY <3>1, <3>2
  <2>9. IsFiniteSet(A \cup B)
    BY <2>6, FS_Union
  <2>10. reached(path) = A \cup B
    BY <1>2, <2>1, <2>7
  <2>11. PICK C : C = A \cup B
    OBVIOUS
  <2>12. AreRoutes(C, J)
    BY <2>8, <2>9, <2>11 DEF AreRoutes
  <2> HIDE DEF reached
  <2>13. QED
    BY <2>10, <2>11, <2>12
<1> HIDE DEF reached
<1>6. PICK h : h = [path \in P |-> reached(path)]
  OBVIOUS
<1>7. PICK F : F = {h[path] : path \in P}
  OBVIOUS
<1>8. IsFiniteSet(F)
  <2>1. IsFiniteSet({h[path] : path \in P})
    BY <1>3, <1>6, FiniteRange
  <2>2. QED
    BY <1>7, <2>1
<1>9. \A T \in F : AreRoutes(T, J)
  BY <1>5, <1>6, <1>7
<1>10. IsFiniteSet(UNION F)
  BY <1>8, <1>9, FS_UNION DEF AreRoutes
<1>11. \A e \in UNION F : IsRoute(e, J)
  BY <1>9 DEF AreRoutes
<1>12. Routes(r, seed) = UNION F
  <2>1. F = {reached(path) : path \in P}
    BY <1>6, <1>7
  <2>2. QED
    BY <1>1, <1>2, <2>1
<1>13. PICK U : U = UNION F
  OBVIOUS
<1>14. AreRoutes(U, J)
  BY <1>10, <1>11, <1>13 DEF AreRoutes
<1>15. QED
  BY <1>2, <1>12, <1>13, <1>14

LEMMA BestIs ==
  ASSUME NEW J, NEW routes, AreRoutes(routes, J), NEW i \in {e.id : e \in routes}
  PROVE  BestOf(routes)[i] \in routes /\ BestOf(routes)[i].id = i
<1>1. \A e \in routes : /\ e.class \in Nat /\ Len(e.path) \in Nat /\ e.activation \in Int
  BY DEF AreRoutes, IsRoute
<1>2. PICK T : T = {e \in routes : e.id = i}
  OBVIOUS
<1>3. T # {} /\ T \subseteq routes
  BY <1>2
<1>4. PICK C : C = {e.class : e \in T}
  OBVIOUS
<1>5. C \subseteq Nat /\ C # {}
  BY <1>1, <1>3, <1>4
<1>6. PICK c \in C : \A k \in C : c <= k
  BY <1>5, Least
<1>7. PICK T1 : T1 = {e \in T : e.class = c}
  OBVIOUS
<1>8. T1 # {} /\ T1 \subseteq T
  BY <1>4, <1>6, <1>7
<1>9. PICK L : L = {Len(e.path) : e \in T1}
  OBVIOUS
<1>10. L \subseteq Nat /\ L # {}
  BY <1>1, <1>3, <1>8, <1>9
<1>11. PICK l \in L : \A k \in L : l <= k
  BY <1>10, Least
<1>12. PICK T2 : T2 = {e \in T1 : Len(e.path) = l}
  OBVIOUS
<1>13. T2 # {} /\ T2 \subseteq T1 /\ T2 \subseteq routes
  BY <1>3, <1>8, <1>9, <1>11, <1>12
<1>14. PICK f : f = [e \in T2 |-> e.activation]
  OBVIOUS
<1>15. PICK A : A = {f[e] : e \in T2}
  OBVIOUS
<1>16. IsFiniteSet(A) /\ A \subseteq Int /\ A # {}
  <2>1. IsFiniteSet(T2)
    BY <1>13, FS_Subset DEF AreRoutes
  <2>2. IsFiniteSet({f[e] : e \in T2})
    BY <1>14, <2>1, FiniteRange
  <2>3. QED
    BY <1>1, <1>13, <1>14, <1>15, <2>2
<1>17. PICK a \in A : \A x \in A : a >= x
  BY <1>16, MaxIs
<1>18. PICK e \in T2 : e.activation = a
  BY <1>14, <1>15, <1>17
<1>19. e \in routes /\ e.id = i /\ e.class = c /\ Len(e.path) = l
  BY <1>2, <1>7, <1>8, <1>12, <1>13
<1>20. \A g \in routes : g.id = i => ~Better(g, e)
  <2> SUFFICES ASSUME NEW g \in routes, g.id = i PROVE ~Better(g, e)
    OBVIOUS
  <2>1. g \in T /\ g.class \in C /\ c <= g.class
    BY <1>2, <1>4, <1>6
  <2>2. g.class = c => g \in T1 /\ l <= Len(g.path)
    BY <1>7, <1>9, <1>11, <2>1
  <2>3. (g.class = c /\ Len(g.path) = l) => g.activation <= a
    <3>1. SUFFICES ASSUME g.class = c, Len(g.path) = l PROVE g.activation <= a
      OBVIOUS
    <3>2. g \in T2
      BY <1>12, <2>2, <3>1
    <3>3. g.activation \in A
      BY <1>14, <1>15, <3>2
    <3>4. a >= g.activation
      BY <1>17, <3>3
    <3>5. a \in Int /\ g.activation \in Int
      BY <1>16, <3>3
    <3>6. QED
      BY <3>4, <3>5
  <2>4. /\ g.class \in Nat /\ Len(g.path) \in Nat /\ g.activation \in Int
        /\ c \in Nat /\ l \in Nat /\ a \in Int
    BY <1>1, <1>5, <1>10, <1>16
  <2>5. QED
    BY <1>18, <1>19, <2>1, <2>2, <2>3, <2>4 DEF Better
<1>21. PICK b : b = CHOOSE x \in routes : x.id = i /\ \A g \in routes : g.id = i => ~Better(g, x)
  OBVIOUS
<1>22. b \in routes /\ b.id = i
  BY <1>19, <1>20, <1>21, Zenon
<1>23. BestOf(routes)[i] = b
  BY <1>21, Zenon DEF BestOf
<1>24. QED
  BY <1>22, <1>23

\* What the join adds, in order, and what it says of the activation.
IsJoin(join, J, pool) ==
  /\ join.order \in Seq(J \ Ids(pool)) /\ Once(join.order)
  /\ \A i \in DOMAIN join.activation : join.activation[i] \in Int

LEMMA JoinedIs ==
  ASSUME NEW J, J \subseteq Int, NEW routes, AreRoutes(routes, J), NEW pool
  PROVE  IsJoin(Joined(routes, BestOf(routes), pool), J, pool)
<1>1. PICK best, S : best = BestOf(routes) /\ S = NewToPool(DOMAIN best, pool)
  OBVIOUS
<1> DEFINE before(i, j) == Better(best[i], best[j]) \/ (~Better(best[j], best[i]) /\ i < j)
           largest(i) == Max({e.activation : e \in {f \in routes : f.id = i}})
<1>2. Joined(routes, best, pool)
        = [activation |-> [i \in DOMAIN best |-> largest(i)], order |-> Ordered(S, before)]
  BY <1>1 DEF Joined
<1>3. DOMAIN best = {e.id : e \in routes}
  BY <1>1 DEF BestOf
<1>4. DOMAIN best \subseteq J /\ IsFiniteSet(DOMAIN best)
  <2>1. PICK f : f = [e \in routes |-> e.id]
    OBVIOUS
  <2>2. IsFiniteSet({f[e] : e \in routes})
    BY <2>1, FiniteRange DEF AreRoutes
  <2>3. {f[e] : e \in routes} = {e.id : e \in routes}
    BY <2>1
  <2>4. QED
    BY <1>3, <2>2, <2>3 DEF AreRoutes, IsRoute
<1>5. S \subseteq J \ Ids(pool) /\ S \subseteq DOMAIN best /\ IsFiniteSet(S)
  <2>1. S \subseteq J \ Ids(pool) /\ S \subseteq DOMAIN best
    BY <1>1, <1>4 DEF NewToPool
  <2>2. PICK D : D = DOMAIN best
    OBVIOUS
  <2>3. QED
    BY <1>4, <2>1, <2>2, FS_Subset
<1>6. \A i \in DOMAIN best : /\ best[i] \in routes
                             /\ best[i].class \in Int /\ Len(best[i].path) \in Int
                             /\ best[i].activation \in Int
  <2> TAKE i \in DOMAIN best
  <2>1. best[i] \in routes
    BY <1>1, <1>3, BestIs
  <2>2. QED
    BY <2>1 DEF AreRoutes, IsRoute
<1>7. ASSUME NEW i \in DOMAIN best PROVE largest(i) \in Int
  <2>1. PICK T : T = {f \in routes : f.id = i}
    OBVIOUS
  <2>2. PICK f : f = [e \in T |-> e.activation]
    OBVIOUS
  <2>3. PICK A : A = {f[e] : e \in T}
    OBVIOUS
  <2>4. IsFiniteSet(T) /\ T # {} /\ T \subseteq routes
    <3>1. T \subseteq routes /\ T # {}
      BY <1>3, <2>1
    <3>2. QED
      BY <3>1, FS_Subset DEF AreRoutes
  <2>5. IsFiniteSet(A)
    <3>1. IsFiniteSet({f[e] : e \in T})
      BY <2>2, <2>4, FiniteRange
    <3>2. QED
      BY <2>3, <3>1
  <2>6. A \subseteq Int /\ A # {}
    BY <2>2, <2>3, <2>4 DEF AreRoutes, IsRoute
  <2>7. Max(A) \in A
    BY <2>5, <2>6, MaxIs
  <2>8. A = {e.activation : e \in {g \in routes : g.id = i}}
    BY <2>1, <2>2, <2>3
  <2>9. QED
    BY <2>6, <2>7, <2>8
<1> HIDE DEF largest
<1>8. PICK a, b, c, d : /\ a = [i \in S |-> best[i].class] /\ b = [i \in S |-> Len(best[i].path)]
                        /\ c = [i \in S |-> 0 - best[i].activation] /\ d = [i \in S |-> i]
  OBVIOUS
<1>9. /\ a \in [S -> Int] /\ b \in [S -> Int] /\ c \in [S -> Int] /\ d \in [S -> Int]
      /\ \A x, y \in S : d[x] = d[y] => x = y
  <2>1. ASSUME NEW i \in S
        PROVE  /\ best[i].class \in Int /\ Len(best[i].path) \in Int
               /\ 0 - best[i].activation \in Int /\ i \in Int
    <3>1. i \in DOMAIN best /\ i \in J
      BY <1>5
    <3>2. best[i].class \in Int /\ Len(best[i].path) \in Int /\ best[i].activation \in Int
      BY <1>6, <3>1
    <3>3. PICK m : m = best[i].activation
      OBVIOUS
    <3>4. 0 - m \in Int
      BY <3>2, <3>3
    <3>5. QED
      BY <3>1, <3>2, <3>3, <3>4
  <2>2. QED
    BY <1>8, <2>1
<1>10. PICK R : R = Lex(S, a, b, c, d)
  OBVIOUS
<1>11. StrictOrder(S, R) /\ Lists(Listing(S, R), S, R)
  BY <1>5, <1>9, <1>10, Sorted
<1>12. \A i, j \in S : before(i, j) <=> <<i, j>> \in R
  <2> TAKE i, j \in S
  <2>1. <<i, j>> \in R <=> ComesBefore(a, b, c, d, i, j)
    BY <1>10, LexIs
  <2>2. PICK x, y : x = best[i] /\ y = best[j]
    OBVIOUS
  <2>3. /\ x.class \in Int /\ Len(x.path) \in Int /\ x.activation \in Int
        /\ y.class \in Int /\ Len(y.path) \in Int /\ y.activation \in Int
        /\ i \in Int /\ j \in Int
    BY <1>5, <1>6, <2>2
  <2>4. /\ a[i] = x.class /\ b[i] = Len(x.path) /\ c[i] = 0 - x.activation /\ d[i] = i
        /\ a[j] = y.class /\ b[j] = Len(y.path) /\ c[j] = 0 - y.activation /\ d[j] = j
    BY <1>8, <2>2
  <2>5. before(i, j) <=> Better(x, y) \/ (~Better(y, x) /\ i < j)
    BY <2>2
  <2> HIDE DEF before
  <2>6. /\ a[i] \in Int /\ b[i] \in Int /\ c[i] \in Int /\ d[i] = i /\ i \in Int
        /\ a[j] \in Int /\ b[j] \in Int /\ c[j] \in Int /\ d[j] = j /\ j \in Int
    BY <2>3, <2>4
  <2>7. Better(x, y) <=> \/ a[i] < a[j]
                         \/ a[i] = a[j] /\ b[i] < b[j]
                         \/ a[i] = a[j] /\ b[i] = b[j] /\ c[i] < c[j]
    BY <2>3, <2>4 DEF Better
  <2>8. Better(y, x) <=> \/ a[j] < a[i]
                         \/ a[j] = a[i] /\ b[j] < b[i]
                         \/ a[j] = a[i] /\ b[j] = b[i] /\ c[j] < c[i]
    BY <2>3, <2>4 DEF Better
  <2>9. QED
    BY ONLY <2>1, <2>5, <2>6, <2>7, <2>8 DEF ComesBefore
<1>13. Ordered(S, before) = Listing(S, R)
  <2> HIDE DEF before
  <2> DEFINE place == [x \in S |-> 1 + Cardinality({y \in S : before(y, x)})]
  <2>1. Ordered(S, before) = [n \in 1..Cardinality(S) |-> CHOOSE x \in S : place[x] = n]
    BY Zenon DEF Ordered
  <2>2. place = Standing(S, R)
    <3>1. \A x \in S : {y \in S : before(y, x)} = {y \in S : <<y, x>> \in R}
      BY <1>12
    <3>2. QED
      BY <3>1 DEF Standing
  <2> HIDE DEF place
  <2>3. QED
    BY <2>1, <2>2 DEF Listing
<1>14. PICK s, activation : s = Listing(S, R) /\ activation = [i \in DOMAIN best |-> largest(i)]
  OBVIOUS
<1>15. s \in Seq(J \ Ids(pool)) /\ Once(s)
  <2>1. Lists(s, S, R)
    BY <1>11, <1>14
  <2>2. Once(s)
    BY <1>11, <2>1, ListsOnce
  <2>3. s \in Seq(S)
    BY <2>1 DEF Lists
  <2>4. QED
    BY <1>5, <2>2, <2>3
<1>16. \A i \in DOMAIN activation : activation[i] \in Int
  BY <1>7, <1>14
<1>17. Joined(routes, best, pool) = [activation |-> activation, order |-> s]
  BY <1>2, <1>13, <1>14, Zenon
<1>18. QED
  BY <1>1, <1>15, <1>16, <1>17 DEF IsJoin

\* The evidence join of a pool is typed, and adds what the pool has not, once.
LEMMA JoinIs ==
  ASSUME IInv, NEW r \in PackRequest, NEW I, I \subseteq DOMAIN mem, NEW pool \in Seq(Answer(I))
  PROVE  IsJoin(Join(r, pool), JoinEligible(r), pool)
<1>1. PICK all : all = IF r.neighbors = 0 THEN {}
                       ELSE UNION {Routes(r, seed) : seed \in Range(Seeds(r, pool))}
  OBVIOUS
<1>2. Join(r, pool) = Joined(Kept(all), BestOf(Kept(all)), pool)
  BY <1>1, Zenon DEF Join
<1>3. AreRoutes(all, JoinEligible(r))
  <2>1. CASE r.neighbors = 0
    <3>1. all = {}
      BY <1>1, <2>1
    <3>2. QED
      BY <3>1, FS_EmptySet DEF AreRoutes
  <2>2. CASE r.neighbors # 0
    <3>1. PICK seeds : seeds = Seeds(r, pool)
      OBVIOUS
    <3>2. seeds \in Seq(Seed)
      BY <3>1, SeedsTyped
    <3>3. PICK f : f = [k \in DOMAIN seeds |-> Routes(r, seeds[k])]
      OBVIOUS
    <3>4. all = UNION {f[k] : k \in DOMAIN seeds}
      BY <1>1, <2>2, <3>1, <3>3 DEF Range
    <3>5. \A k \in DOMAIN seeds : AreRoutes(f[k], JoinEligible(r))
      <4> TAKE k \in DOMAIN seeds
      <4>1. PICK seed : seed = seeds[k]
        OBVIOUS
      <4>2. seed \in Seed
        BY <3>2, <4>1
      <4>3. AreRoutes(Routes(r, seed), JoinEligible(r))
        BY <4>2, RoutesAre
      <4>4. QED
        BY <3>3, <4>1, <4>3
    <3>6. IsFiniteSet(DOMAIN seeds)
      <4>1. DOMAIN seeds = 1..Len(seeds) /\ Len(seeds) \in Nat
        BY <3>2
      <4>2. QED
        BY <4>1, FS_Interval
    <3>7. IsFiniteSet({f[k] : k \in DOMAIN seeds})
      BY <3>3, <3>6, FiniteRange
    <3>8. IsFiniteSet(all)
      <4>1. \A T \in {f[k] : k \in DOMAIN seeds} : IsFiniteSet(T)
        BY <3>5 DEF AreRoutes
      <4>2. QED
        BY <3>4, <3>7, <4>1, FS_UNION
    <3>9. \A e \in all : IsRoute(e, JoinEligible(r))
      BY <3>4, <3>5 DEF AreRoutes
    <3>10. QED
      BY <3>8, <3>9 DEF AreRoutes
  <2>3. QED
    BY <2>1, <2>2
<1>4. PICK J, routes : J = JoinEligible(r) /\ routes = Kept(all)
  OBVIOUS
<1>5. AreRoutes(routes, J)
  <2>1. routes \subseteq all
    BY <1>4 DEF Kept
  <2>2. IsFiniteSet(routes)
    BY <1>3, <2>1, FS_Subset DEF AreRoutes
  <2>3. QED
    BY <1>3, <1>4, <2>1, <2>2 DEF AreRoutes
<1>6. J \subseteq Int
  BY <1>4, RecalledIs
<1>7. IsJoin(Joined(routes, BestOf(routes), pool), J, pool)
  BY <1>5, <1>6, JoinedIs
<1>8. QED
  BY <1>2, <1>4, <1>7

-----------------------------------------------------------------------------
(* The pool a reranker scores *)

Candidate(J) == [id : J, consensus : BOOLEAN, activation : Int]

\* A pool of what the arms found and the graph added, every memory once.
IsPool(pool, J, found, added) ==
  /\ pool \in Seq(Candidate(J)) /\ OncePerMemory(pool)
  /\ Len(pool) = Len(found) + Len(added)
  /\ Ids(pool) = Ids(found) \cup Range(added)

LEMMA ExpandedIs ==
  ASSUME NEW r \in PackRequest, NEW J, NEW I, I \subseteq J, NEW direct \in Seq(Answer(I)),
         OncePerMemory(direct), NEW join, IsJoin(join, J, direct)
  PROVE  IsPool(Expanded(r, direct, join), J, direct, AtMost(r.neighbors, join.order))
<1>1. PICK order, act : order = join.order /\ act = join.activation
  OBVIOUS
<1>2. order \in Seq(J \ Ids(direct)) /\ Once(order) /\ \A i \in DOMAIN act : act[i] \in Int
  BY <1>1 DEF IsJoin
<1>3. PICK t : t = AtMost(r.neighbors, order)
  OBVIOUS
<1>4. t \in Seq(J \ Ids(direct)) /\ Once(t)
  <2>1. r.neighbors \in Nat
    BY PackTyped
  <2>2. PICK n \in Nat : n = r.neighbors
    BY <2>1
  <2>3. /\ AtMost(n, order) \in Seq(J \ Ids(direct))
        /\ DOMAIN AtMost(n, order) = {i \in DOMAIN order : i <= n}
        /\ \A i \in DOMAIN AtMost(n, order) : AtMost(n, order)[i] = order[i]
    BY <1>2, FirstEntries
  <2>4. QED
    BY <1>2, <1>3, <2>2, <2>3 DEF Once
<1>5. PICK l : l = [k \in DOMAIN direct |-> direct[k].id]
  OBVIOUS
<1>6. /\ DOMAIN direct = 1..Len(direct) /\ Len(direct) \in Nat
      /\ \A k \in DOMAIN direct : direct[k].id \in I
  <2>1. DOMAIN direct = 1..Len(direct) /\ Len(direct) \in Nat
    OBVIOUS
  <2>2. QED
    BY <2>1, IdsIn
<1>7. Each(LAMBDA hit : hit.id, direct) = l
  <2>1. Each(LAMBDA hit : hit.id, direct) = SubSeq(l, 1, Len(direct))
    BY <1>5, Zenon DEF Each
  <2>2. SubSeq(l, 1, Len(direct)) = l
    BY <1>5, <1>6, EachIs
  <2>3. QED
    BY <2>1, <2>2
<1>8. l \in Seq(J) /\ Len(l) = Len(direct) /\ \A k \in 1..Len(l) : l[k] = direct[k].id
  <2>1. \A k \in 1..Len(direct) : l[k] \in J
    BY <1>5, <1>6
  <2>2. QED
    BY <1>5, <1>6, <2>1
<1>9. t \in Seq(J) /\ \A k \in 1..Len(t) : t[k] \notin Ids(direct)
  <2>1. J \ Ids(direct) \subseteq J
    OBVIOUS
  <2>2. t \in Seq(J)
    BY <1>4, <2>1, SeqOver
  <2>3. QED
    BY <1>4, <2>2
<1>10. PICK s : s = l \o t
  OBVIOUS
<1>11. PICK m, n : m = Len(l) /\ n = Len(t)
  OBVIOUS
<1>12. /\ s \in Seq(J) /\ Len(s) = m + n /\ m \in Nat /\ n \in Nat
       /\ \A i \in 1..m : s[i] = l[i]
       /\ \A i \in 1..n : s[m + i] = t[i]
       /\ \A i \in 1..(m + n) : i \in 1..m \/ i - m \in 1..n
  <2>1. /\ l \o t \in Seq(J) /\ Len(l \o t) = Len(l) + Len(t)
        /\ \A i \in 1..Len(l) : (l \o t)[i] = l[i]
        /\ \A i \in 1..Len(t) : (l \o t)[Len(l) + i] = t[i]
        /\ \A i \in 1..(Len(l) + Len(t)) : i \in 1..Len(l) \/ i - Len(l) \in 1..Len(t)
    BY <1>8, <1>9, Appended
  <2>2. Len(l) \in Nat /\ Len(t) \in Nat
    BY <1>8, <1>9
  <2>3. QED
    BY <1>10, <1>11, <2>1, <2>2
<1>13. DOMAIN s = 1..(m + n)
  <2>1. DOMAIN s = 1..Len(s)
    BY <1>12
  <2>2. QED
    BY <1>12, <2>1
<1> DEFINE candidate(i) ==
             [id |-> i, consensus |-> i \in DOMAIN join.activation /\ i \in Ids(direct),
              activation |-> IF i \in DOMAIN join.activation THEN join.activation[i] ELSE 0 - 1]
<1>14. Expanded(r, direct, join) = Each(candidate, Each(LAMBDA hit : hit.id, direct) \o t)
  <2>1. Expanded(r, direct, join)
          = Each(candidate, Each(LAMBDA hit : hit.id, direct) \o AtMost(r.neighbors, join.order))
    BY Zenon DEF Expanded
  <2> HIDE DEF candidate
  <2>2. t = AtMost(r.neighbors, join.order)
    BY <1>1, <1>3
  <2>3. QED
    BY <2>1, <2>2, Zenon
<1>15. PICK e : e = [k \in DOMAIN s |-> candidate(s[k])]
  OBVIOUS
<1>16. Each(candidate, s) = SubSeq(e, 1, Len(s))
  <2> HIDE DEF candidate
  <2>1. QED
    BY <1>15, Zenon DEF Each
<1>17. SubSeq(e, 1, Len(s)) = e
  <2>1. DOMAIN s = 1..Len(s) /\ Len(s) \in Nat
    BY <1>12
  <2> HIDE DEF candidate
  <2>2. QED
    BY <1>15, <2>1, EachIs
<1>18. Expanded(r, direct, join) = e
  <2> HIDE DEF candidate
  <2>1. QED
    BY <1>7, <1>10, <1>14, <1>16, <1>17, Zenon
<1>19. \A i \in J : candidate(i) \in Candidate(J) /\ candidate(i).id = i
  <2> TAKE i \in J
  <2>1. (i \in DOMAIN join.activation /\ i \in Ids(direct)) \in BOOLEAN
    OBVIOUS
  <2>2. (IF i \in DOMAIN join.activation THEN join.activation[i] ELSE 0 - 1) \in Int
    BY <1>1, <1>2
  <2>3. QED
    BY <2>1, <2>2 DEF Candidate
<1> HIDE DEF candidate
<1>20. e \in Seq(Candidate(J)) /\ Len(e) = m + n /\ DOMAIN e = 1..(m + n)
       /\ \A k \in 1..(m + n) : e[k].id = s[k]
  <2>1. \A k \in 1..(m + n) : s[k] \in J
    BY <1>12, <1>13
  <2>2. \A k \in 1..(m + n) : e[k] \in Candidate(J) /\ e[k].id = s[k]
    BY <1>13, <1>15, <1>19, <2>1
  <2>3. DOMAIN e = 1..(m + n) /\ e = [k \in 1..(m + n) |-> e[k]]
    BY <1>13, <1>15
  <2>4. e \in Seq(Candidate(J)) /\ Len(e) = m + n
    BY <1>12, <2>2, <2>3
  <2>5. QED
    BY <2>2, <2>3, <2>4
<1>21. Once(s)
  <2> SUFFICES ASSUME NEW i \in 1..(m + n), NEW j \in 1..(m + n), s[i] = s[j] PROVE i = j
    BY <1>13 DEF Once
  <2>1. \A k \in 1..m : s[k] \in Ids(direct)
    BY <1>6, <1>8, <1>11, <1>12 DEF Ids
  <2>2. \A k \in 1..n : s[m + k] \notin Ids(direct)
    BY <1>9, <1>11, <1>12
  <2>3. CASE i \in 1..m /\ j \in 1..m
    <3>1. direct[i].id = direct[j].id
      BY <1>8, <1>11, <1>12, <2>3
    <3>2. QED
      BY <1>6, <1>8, <1>11, <2>3, <3>1 DEF OncePerMemory
  <2>4. CASE i - m \in 1..n /\ j - m \in 1..n
    <3>1. m + (i - m) = i /\ m + (j - m) = j
      BY <1>12
    <3>2. t[i - m] = t[j - m]
      BY <1>12, <2>4, <3>1
    <3>3. DOMAIN t = 1..n
      BY <1>9, <1>11
    <3>4. i - m = j - m
      BY <1>4, <2>4, <3>2, <3>3 DEF Once
    <3>5. QED
      BY <1>12, <3>4
  <2>5. CASE i \in 1..m /\ j - m \in 1..n
    <3>1. m + (j - m) = j
      BY <1>12
    <3>2. QED
      BY <2>1, <2>2, <2>5, <3>1
  <2>6. CASE i - m \in 1..n /\ j \in 1..m
    <3>1. m + (i - m) = i
      BY <1>12
    <3>2. QED
      BY <2>1, <2>2, <2>6, <3>1
  <2>7. QED
    BY <1>12, <2>3, <2>4, <2>5, <2>6
<1>22. OncePerMemory(e)
  BY <1>13, <1>20, <1>21 DEF OncePerMemory, Once
<1>23. Ids(e) = Ids(direct) \cup Range(t)
  <2>1. Ids(e) = {s[k] : k \in 1..(m + n)}
    BY <1>20 DEF Ids
  <2>2. \A k \in 1..(m + n) : s[k] \in Ids(direct) \cup Range(t)
    <3> TAKE k \in 1..(m + n)
    <3>1. CASE k \in 1..m
      BY <1>6, <1>8, <1>11, <1>12, <3>1 DEF Ids
    <3>2. CASE k - m \in 1..n
      <4>1. m + (k - m) = k /\ DOMAIN t = 1..n
        BY <1>9, <1>11, <1>12
      <4>2. QED
        BY <1>12, <3>2, <4>1 DEF Range
    <3>3. QED
      BY <1>12, <3>1, <3>2
  <2>3. \A x \in Ids(direct) : \E k \in 1..(m + n) : s[k] = x
    <3> TAKE x \in Ids(direct)
    <3>1. PICK k \in 1..m : direct[k].id = x
      BY <1>6, <1>8, <1>11 DEF Ids
    <3>2. k \in 1..(m + n)
      BY <1>12
    <3>3. QED
      BY <1>8, <1>11, <1>12, <3>1, <3>2
  <2>4. \A x \in Range(t) : \E k \in 1..(m + n) : s[k] = x
    <3> TAKE x \in Range(t)
    <3>1. PICK k \in 1..n : t[k] = x
      BY <1>9, <1>11 DEF Range
    <3>2. m + k \in 1..(m + n)
      BY <1>12
    <3>3. QED
      BY <1>12, <3>1, <3>2
  <2>5. QED
    BY <2>1, <2>2, <2>3, <2>4
<1>24. Len(e) = Len(direct) + Len(t)
  BY <1>8, <1>11, <1>20
<1>25. t = AtMost(r.neighbors, join.order)
  BY <1>1, <1>3
<1>26. IsPool(e, J, direct, t)
  BY <1>20, <1>22, <1>23, <1>24 DEF IsPool
<1>27. QED
  BY <1>18, <1>25, <1>26

LEMMA PoolIs ==
  ASSUME IInv, NEW r \in PackRequest
  PROVE  /\ IsJoin(Join(r, Direct(r)), JoinEligible(r), Direct(r))
         /\ IsPool(Pool(r), JoinEligible(r), Direct(r),
                   AtMost(r.neighbors, Join(r, Direct(r)).order))
<1>1. PICK I, J, direct : I = Recalled(r) /\ J = JoinEligible(r) /\ direct = Direct(r)
  OBVIOUS
<1>2. I \subseteq J /\ I \subseteq DOMAIN mem
  BY <1>1, RecalledIs
<1>3. direct \in Seq(Answer(I)) /\ OncePerMemory(direct)
  BY <1>1, DirectFound
<1>4. IsJoin(Join(r, direct), J, direct)
  BY <1>1, <1>2, <1>3, JoinIs
<1>5. PICK join : join = Join(r, direct)
  OBVIOUS
<1>6. IsPool(Expanded(r, direct, join), J, direct, AtMost(r.neighbors, join.order))
  BY <1>2, <1>3, <1>4, <1>5, ExpandedIs
<1>7. Pool(r) = Expanded(r, Direct(r), Join(r, Direct(r)))
  BY Zenon DEF Pool
<1>8. QED
  BY <1>1, <1>4, <1>5, <1>6, <1>7

LEMMA PoolsInScope == IInv => PoolInScope
<1> SUFFICES ASSUME IInv, NEW r \in Packs, NEW k \in DOMAIN Pool(r)
             PROVE  Active(Pool(r)[k].id) /\ InScope(r, Pool(r)[k].id)
  BY DEF PoolInScope
<1>1. r \in PackRequest
  BY RetrievalAssumption
<1>2. Pool(r) \in Seq(Candidate(JoinEligible(r)))
  BY <1>1, PoolIs DEF IsPool
<1>3. PICK pool, J : pool = Pool(r) /\ J = JoinEligible(r)
  OBVIOUS
<1>4. pool[k].id \in J
  <2>1. pool \in Seq(Candidate(J)) /\ k \in DOMAIN pool
    BY <1>2, <1>3
  <2>2. pool[k] \in Candidate(J)
    BY <2>1
  <2>3. QED
    BY <2>2 DEF Candidate
<1>5. QED
  BY <1>3, <1>4 DEF JoinEligible

LEMMA IdsCounted ==
  ASSUME NEW I, NEW s \in Seq(Answer(I)), OncePerMemory(s)
  PROVE  Cardinality(Ids(s)) = Len(s)
<1>1. PICK l : l = [k \in DOMAIN s |-> s[k].id]
  OBVIOUS
<1>2. DOMAIN s = 1..Len(s) /\ Len(s) \in Nat
  OBVIOUS
<1>3. l \in Seq(I) /\ Len(l) = Len(s) /\ DOMAIN l = DOMAIN s
  <2>1. \A k \in DOMAIN s : s[k].id \in I
    BY IdsIn
  <2>2. QED
    BY <1>1, <1>2, <2>1
<1>4. Once(l)
  BY <1>1, <1>3 DEF Once, OncePerMemory
<1>5. Range(l) = Ids(s)
  BY <1>1, <1>3 DEF Range, Ids
<1>6. QED
  BY <1>3, <1>4, <1>5, OnceCounts

\* What a cap left out was left out of a full place.
LEMMA PoolsFull == IInv => DroppedOnlyWhenFull
<1> SUFFICES ASSUME IInv, NEW r \in Packs, NEW pool \in {Pool(r)}, NEW dropped \in {Dropped(r)},
                    NEW D \in {Ids(Direct(r))}
             PROVE  /\ DOMAIN dropped \cap {pool[k].id : k \in DOMAIN pool} = {}
                    /\ \A i \in DOMAIN dropped :
                         IF dropped[i] = "hybrid_cap" THEN Cardinality(D) = Width(r)
                         ELSE Cardinality({pool[k].id : k \in DOMAIN pool} \ D) = r.neighbors
  BY Zenon DEF DroppedOnlyWhenFull
<1> DEFINE P == {pool[k].id : k \in DOMAIN pool}
<1>0. pool = Pool(r) /\ dropped = Dropped(r) /\ D = Ids(Direct(r))
  OBVIOUS
<1>1. r \in PackRequest
  BY RetrievalAssumption
<1>2. PICK direct, J : direct = Direct(r) /\ J = JoinEligible(r)
  OBVIOUS
<1>3. PICK order : order = Join(r, direct).order
  OBVIOUS
<1>4. PICK t : t = AtMost(r.neighbors, order)
  OBVIOUS
<1>5. PICK added : added = Range(t)
  OBVIOUS
<1>6. PICK cut : cut = (Ids(Merged(r, Width(r))) \ Ids(direct)) \ added
  OBVIOUS
<1>7. dropped = [i \in cut \cup (Range(order) \ added) |->
                   IF i \in cut THEN "hybrid_cap" ELSE "graph_cap"]
  <2>1. Dropped(r)
          = [i \in ((Ids(Merged(r, Width(r))) \ Ids(Direct(r)))
                      \ Range(AtMost(r.neighbors, Join(r, Direct(r)).order)))
                   \cup (Range(Join(r, Direct(r)).order)
                           \ Range(AtMost(r.neighbors, Join(r, Direct(r)).order))) |->
               IF i \in (Ids(Merged(r, Width(r))) \ Ids(Direct(r)))
                          \ Range(AtMost(r.neighbors, Join(r, Direct(r)).order))
               THEN "hybrid_cap" ELSE "graph_cap"]
    BY Zenon DEF Dropped
  <2>2. /\ added = Range(AtMost(r.neighbors, Join(r, Direct(r)).order))
        /\ Range(order) = Range(Join(r, Direct(r)).order)
        /\ cut = (Ids(Merged(r, Width(r))) \ Ids(Direct(r)))
                   \ Range(AtMost(r.neighbors, Join(r, Direct(r)).order))
    BY <1>2, <1>3, <1>4, <1>5, <1>6
  <2>3. QED
    BY <1>0, <2>1, <2>2
<1>8. order \in Seq(J \ D) /\ Once(order) /\ r.neighbors \in Nat
  BY <1>1, <1>2, <1>3, PoolIs, PackTyped DEF IsJoin
<1>9. /\ t \in Seq(J \ D) /\ Once(t)
      /\ Len(t) = r.neighbors \/ t = order
  <2>1. PICK n \in Nat : n = r.neighbors
    BY <1>8
  <2>2. /\ AtMost(n, order) \in Seq(J \ D)
        /\ DOMAIN AtMost(n, order) = {i \in DOMAIN order : i <= n}
        /\ \A i \in DOMAIN AtMost(n, order) : AtMost(n, order)[i] = order[i]
    BY <1>8, FirstEntries
  <2>3. Len(AtMost(n, order)) = n \/ AtMost(n, order) = order
    BY <1>8, CutsAt
  <2>4. QED
    BY <1>4, <1>8, <2>1, <2>2, <2>3 DEF Once
<1>10. P = D \cup added /\ D = Ids(direct)
  <2>1. Ids(Pool(r)) = Ids(Direct(r)) \cup Range(AtMost(r.neighbors, Join(r, Direct(r)).order))
    BY <1>1, PoolIs DEF IsPool
  <2>2. Ids(Pool(r)) = P
    BY <1>0 DEF Ids
  <2>3. QED
    BY <1>0, <1>2, <1>3, <1>4, <1>5, <2>1, <2>2
<1> HIDE DEF P
<1>11. added \cap D = {} /\ Range(order) \cap D = {}
  <2>1. DOMAIN t = 1..Len(t) /\ DOMAIN order = 1..Len(order)
    BY <1>8, <1>9
  <2>2. /\ \A k \in 1..Len(t) : t[k] \in J \ D
        /\ \A k \in 1..Len(order) : order[k] \in J \ D
    BY <1>8, <1>9
  <2>3. QED
    BY <1>5, <2>1, <2>2 DEF Range
<1>12. DOMAIN dropped = cut \cup (Range(order) \ added)
  BY <1>7
<1>13. DOMAIN dropped \cap P = {}
  BY <1>6, <1>10, <1>11, <1>12
<1>14. ASSUME NEW i \in DOMAIN dropped, dropped[i] = "hybrid_cap" PROVE Cardinality(D) = Width(r)
  <2>1. i \in cut
    BY <1>7, <1>12, <1>14
  <2>2. Ids(Merged(r, Width(r))) # Ids(direct)
    BY <1>6, <2>1
  <2>3. PICK I : I = Recalled(r)
    OBVIOUS
  <2>4. /\ direct \in Seq(Answer(I)) /\ OncePerMemory(direct)
        /\ Len(direct) = Width(r) \/ direct = Merged(r, Width(r))
    BY <1>1, <1>2, <2>3, DirectFound
  <2>5. Cardinality(Ids(direct)) = Len(direct)
    BY <2>4, IdsCounted
  <2>6. QED
    BY <1>10, <2>2, <2>4, <2>5
<1>15. ASSUME NEW i \in DOMAIN dropped, dropped[i] # "hybrid_cap"
       PROVE  Cardinality(P \ D) = r.neighbors
  <2>1. i \in Range(order) /\ i \notin added
    BY <1>7, <1>12, <1>15
  <2>2. Len(t) = r.neighbors
    BY <1>5, <1>9, <2>1
  <2>3. P \ D = added
    BY <1>10, <1>11
  <2>4. Cardinality(added) = Len(t)
    BY <1>5, <1>9, OnceCounts
  <2>5. QED
    BY <2>2, <2>3, <2>4
<1>16. QED
  BY <1>13, <1>14, <1>15 DEF P

\* Every pool is in scope and its trace explains it, whatever was written,
\* retired, lapsed or dreamt over before (PoolsSound).
THEOREM PoolsStaySound == Spec => []PoolsSound
<1>1. IInv => PoolsSound
  BY PoolsInScope, PoolsFull DEF PoolsSound, IInv
<1>2. QED
  BY <1>1, SpecIInv, PTL

-----------------------------------------------------------------------------
(* Searches *)

LEMMA LapsedHidden == IInv => ArmsHideLapsed
<1> SUFFICES ASSUME IInv PROVE ArmsHideLapsed
  OBVIOUS
<1>1. ASSUME NEW r \in Searches PROVE Ids(Search(r)) \cap lapsed = {}
  <2>1. r \in SearchRequest
    BY RetrievalAssumption
  <2>2. PICK s, I : s = Search(r) /\ I = Recalled(r)
    OBVIOUS
  <2>3. s \in Seq(Answer(I))
    BY <2>1, <2>2, SearchFound
  <2>4. Ids(s) \subseteq I
    BY <2>3, IdsIn
  <2>5. QED
    BY <2>2, <2>4, RecalledIs
<1>2. ASSUME NEW r \in Packs PROVE Ids(Direct(r)) \cap lapsed = {}
  <2>1. r \in PackRequest
    BY RetrievalAssumption
  <2>2. PICK s, I : s = Direct(r) /\ I = Recalled(r)
    OBVIOUS
  <2>3. s \in Seq(Answer(I))
    BY <2>1, <2>2, DirectFound
  <2>4. Ids(s) \subseteq I
    BY <2>3, IdsIn
  <2>5. QED
    BY <2>2, <2>4, RecalledIs
<1>3. QED
  BY <1>1, <1>2 DEF ArmsHideLapsed

LEMMA VectorlessKept == IInv => ShortlistKeepsVectorless
<1> SUFFICES ASSUME IInv, NEW r \in Searches, NEW i \in Recalled(r), ~mem[i].vector
             PROVE  i \in Scanned(r.query, r, r.limit)
  BY DEF ShortlistKeepsVectorless
<1>1. r.query \in Queries /\ r.shortlist \in Nat /\ r.limit \in Nat
  BY RetrievalAssumption DEF SearchRequest
<1>2. PICK q \in Queries, limit \in Nat : q = r.query /\ limit = r.limit
  BY <1>1
<1>3. i \in Scanned(q, r, limit)
  BY <1>1, ScannedIs
<1>4. QED
  BY <1>2, <1>3

\* Searches and the arms of packs hide what has lapsed, the shortlist keeps what
\* has no vector, and the pages of a list partition it, in every state
\* (SearchesSound).
THEOREM SearchesStaySound == Spec => []SearchesSound
<1>1. IInv => SearchesSound
  BY LapsedHidden, VectorlessKept, PagesPartition DEF SearchesSound
<1>2. QED
  BY <1>1, SpecIInv, PTL

-----------------------------------------------------------------------------
(* Packs *)

Scoring(J) == [id : J, consensus : BOOLEAN, activation : Int, score : Int]

\* A pool entry with its score, as assemble_reranked_pack gets it.
Entry(pool, score, k) ==
  [id |-> pool[k].id, consensus |-> pool[k].consensus, activation |-> pool[k].activation,
   score |-> score[k]]

\* The candidates of a pack: finitely many, one of a memory.
AreCandidates(C, J) ==
  /\ IsFiniteSet(C) /\ C \subseteq Scoring(J)
  /\ \A c, d \in C : c.id = d.id => c = d

LEMMA EntryTyped ==
  ASSUME NEW J, NEW pool \in Seq(Candidate(J)), NEW score \in [DOMAIN pool -> Int],
         NEW k \in DOMAIN pool
  PROVE  /\ Entry(pool, score, k) \in Scoring(J)
         /\ Entry(pool, score, k).id = pool[k].id /\ Entry(pool, score, k).score = score[k]
         /\ pool[k].id \in J
<1>1. PICK c : c = pool[k]
  OBVIOUS
<1>2. c \in Candidate(J)
  BY <1>1
<1>3. c.id \in J /\ c.consensus \in BOOLEAN /\ c.activation \in Int
  BY <1>2 DEF Candidate
<1>4. score[k] \in Int
  OBVIOUS
<1>5. QED
  BY <1>1, <1>3, <1>4 DEF Entry, Scoring

\* The candidates are the entries of the pool.
AreEntries(C, pool, score) ==
  /\ \A k \in DOMAIN pool : /\ Entry(pool, score, k) \in C
                            /\ Entry(pool, score, k).id = pool[k].id
                            /\ Entry(pool, score, k).score = score[k]
  /\ \A c \in C : \E k \in DOMAIN pool : c = Entry(pool, score, k)

LEMMA ScoredIs ==
  ASSUME NEW J, NEW pool \in Seq(Candidate(J)), OncePerMemory(pool),
         NEW score \in [DOMAIN pool -> Int], NEW C, C = Scored(pool, score)
  PROVE  AreCandidates(C, J) /\ AreEntries(C, pool, score)
<1>1. C = {Entry(pool, score, k) : k \in DOMAIN pool}
  BY DEF Scored, Entry
<1>2. IsFiniteSet(C)
  <2>1. DOMAIN pool = 1..Len(pool) /\ Len(pool) \in Nat
    OBVIOUS
  <2>2. IsFiniteSet(DOMAIN pool)
    BY <2>1, FS_Interval
  <2>3. PICK f : f = [k \in DOMAIN pool |-> Entry(pool, score, k)]
    OBVIOUS
  <2>4. IsFiniteSet({f[k] : k \in DOMAIN pool})
    BY <2>2, <2>3, FiniteRange
  <2>5. {f[k] : k \in DOMAIN pool} = C
    BY <1>1, <2>3
  <2>6. QED
    BY <2>4, <2>5
<1>3. C \subseteq Scoring(J)
  BY <1>1, EntryTyped
<1>4. ASSUME NEW c \in C, NEW d \in C, c.id = d.id PROVE c = d
  <2>1. PICK k \in DOMAIN pool : c = Entry(pool, score, k)
    BY <1>1
  <2>2. PICK n \in DOMAIN pool : d = Entry(pool, score, n)
    BY <1>1
  <2>3. pool[k].id = pool[n].id
    BY <1>4, <2>1, <2>2, EntryTyped
  <2>4. k = n
    BY <2>3 DEF OncePerMemory
  <2>5. QED
    BY <2>1, <2>2, <2>4
<1>5. AreEntries(C, pool, score)
  BY <1>1, EntryTyped DEF AreEntries
<1>6. QED
  BY <1>2, <1>3, <1>4, <1>5 DEF AreCandidates

Ranks(C) == {p \in C \X C : RanksBefore(p[1], p[2])}

LEMMA RankedIs ==
  ASSUME NEW J, J \subseteq Int, NEW C, AreCandidates(C, J)
  PROVE  /\ StrictOrder(C, Ranks(C))
         /\ Lists(Ordered(C, RanksBefore), C, Ranks(C))
<1>1. PICK a, b, c, d : /\ a = [x \in C |-> 0 - x.score]
                        /\ b = [x \in C |-> IF x.consensus THEN 0 ELSE 1]
                        /\ c = [x \in C |-> 0 - x.activation] /\ d = [x \in C |-> x.id]
  OBVIOUS
<1>2. \A x \in C : /\ x.score \in Int /\ x.activation \in Int /\ x.id \in Int
                   /\ x.consensus = TRUE \/ x.consensus = FALSE
  <2> TAKE x \in C
  <2>1. x \in Scoring(J)
    BY DEF AreCandidates
  <2>2. x.score \in Int /\ x.activation \in Int /\ x.id \in J /\ x.consensus \in BOOLEAN
    BY <2>1 DEF Scoring
  <2>3. QED
    BY <2>2
<1>3. /\ a \in [C -> Int] /\ b \in [C -> Int] /\ c \in [C -> Int] /\ d \in [C -> Int]
      /\ \A x, y \in C : d[x] = d[y] => x = y
  <2>1. \A x \in C : 0 - x.score \in Int /\ 0 - x.activation \in Int /\ x.id \in Int
    <3> TAKE x \in C
    <3>1. PICK m, n : m = x.score /\ n = x.activation
      OBVIOUS
    <3>2. m \in Int /\ n \in Int /\ x.id \in Int
      BY <1>2, <3>1
    <3>3. 0 - m \in Int /\ 0 - n \in Int
      BY <3>2
    <3>4. QED
      BY <3>1, <3>2, <3>3
  <2>2. \A x, y \in C : x.id = y.id => x = y
    BY DEF AreCandidates
  <2>3. a \in [C -> Int] /\ c \in [C -> Int] /\ d \in [C -> Int]
    BY <1>1, <2>1
  <2>4. b \in [C -> Int]
    BY <1>1
  <2>5. QED
    BY <1>1, <2>2, <2>3, <2>4
<1>4. PICK R : R = Lex(C, a, b, c, d)
  OBVIOUS
<1>5. StrictOrder(C, R) /\ Lists(Listing(C, R), C, R)
  <2>1. IsFiniteSet(C)
    BY DEF AreCandidates
  <2>2. QED
    BY <1>3, <1>4, <2>1, Sorted
<1>6. \A x, y \in C : RanksBefore(x, y) <=> <<x, y>> \in R
  <2> TAKE x, y \in C
  <2>1. <<x, y>> \in R <=> ComesBefore(a, b, c, d, x, y)
    BY <1>4, LexIs
  <2>2. /\ x.score \in Int /\ x.activation \in Int /\ x.id \in Int
        /\ y.score \in Int /\ y.activation \in Int /\ y.id \in Int
        /\ x.consensus = TRUE \/ x.consensus = FALSE
        /\ y.consensus = TRUE \/ y.consensus = FALSE
    BY <1>2
  <2>3. /\ a[x] = 0 - x.score /\ c[x] = 0 - x.activation /\ d[x] = x.id
        /\ a[y] = 0 - y.score /\ c[y] = 0 - y.activation /\ d[y] = y.id
        /\ b[x] = IF x.consensus THEN 0 ELSE 1
        /\ b[y] = IF y.consensus THEN 0 ELSE 1
    BY <1>1
  <2>4. /\ b[x] < b[y] <=> x.consensus /\ ~y.consensus
        /\ b[x] = b[y] <=> x.consensus = y.consensus
    <3>1. /\ x.consensus = TRUE => b[x] = 0
          /\ x.consensus = FALSE => b[x] = 1
          /\ y.consensus = TRUE => b[y] = 0
          /\ y.consensus = FALSE => b[y] = 1
      BY <2>3
    <3>2. CASE x.consensus = TRUE /\ y.consensus = TRUE
      <4>1. b[x] = b[y] /\ ~(b[x] < b[y])
        BY <3>1, <3>2
      <4>2. x.consensus = y.consensus /\ ~(x.consensus /\ ~y.consensus)
        BY <3>2, Zenon
      <4>3. QED
        BY <4>1, <4>2, Zenon
    <3>3. CASE x.consensus = TRUE /\ y.consensus = FALSE
      BY <3>1, <3>3
    <3>4. CASE x.consensus = FALSE /\ y.consensus = TRUE
      BY <3>1, <3>4
    <3>5. CASE x.consensus = FALSE /\ y.consensus = FALSE
      <4>1. b[x] = b[y] /\ ~(b[x] < b[y])
        BY <3>1, <3>5
      <4>2. x.consensus = y.consensus /\ ~(x.consensus /\ ~y.consensus)
        BY <3>5, Zenon
      <4>3. QED
        BY <4>1, <4>2, Zenon
    <3>6. QED
      BY <2>2, <3>2, <3>3, <3>4, <3>5
  <2>5. /\ a[x] < a[y] <=> x.score > y.score
        /\ a[x] = a[y] <=> x.score = y.score
        /\ c[x] < c[y] <=> x.activation > y.activation
        /\ c[x] = c[y] <=> x.activation = y.activation
    BY <2>2, <2>3
  <2>6. QED
    BY <2>1, <2>3, <2>4, <2>5 DEF ComesBefore, RanksBefore
<1>7. Ranks(C) = R
  <2>1. Ranks(C) \subseteq C \X C /\ R \subseteq C \X C
    BY <1>4 DEF Ranks, Lex
  <2>2. \A x, y \in C : <<x, y>> \in Ranks(C) <=> RanksBefore(x, y)
    BY DEF Ranks
  <2>3. QED
    BY <1>6, <2>1, <2>2
<1>8. Ordered(C, RanksBefore) = Listing(C, R)
  <2> DEFINE place == [x \in C |-> 1 + Cardinality({y \in C : RanksBefore(y, x)})]
  <2>1. Ordered(C, RanksBefore) = [n \in 1..Cardinality(C) |-> CHOOSE x \in C : place[x] = n]
    BY Zenon DEF Ordered
  <2>2. place = Standing(C, R)
    <3>1. \A x \in C : {y \in C : RanksBefore(y, x)} = {y \in C : <<y, x>> \in R}
      BY <1>6
    <3>2. QED
      BY <3>1 DEF Standing
  <2> HIDE DEF place
  <2>3. QED
    BY <2>1, <2>2 DEF Listing
<1>9. QED
  BY <1>5, <1>7, <1>8

PackOf(J) == [ids : Seq(J), scores : Seq(Int), truncated : BOOLEAN, top : Int]

\* A pack shows the first m of what was ranked.
Shown(pack, ranked, m) ==
  /\ m \in 0..Len(ranked) /\ Len(pack.ids) = m /\ Len(pack.scores) = m
  /\ \A k \in 1..m : pack.ids[k] = ranked[k].id

\* What is shown alone, or whole, is the start of the ranking.
Heads(taken, ranked, m) ==
  /\ m \in 0..Len(ranked) /\ Len(taken) = m
  /\ \A k \in 1..m : taken[k] = ranked[k]

LEMMA AloneIs ==
  ASSUME NEW S, NEW ranked \in Seq(S), ranked # <<>>, NEW chars \in Nat
  PROVE  /\ FirstAlone(ranked, chars) \in Seq(S)
         /\ \E m : Heads(FirstAlone(ranked, chars), ranked, m) /\ (chars > Overhead => m >= 1)
<1>1. Len(ranked) \in Nat /\ Len(ranked) >= 1 /\ DOMAIN ranked = 1..Len(ranked) /\ Overhead \in Nat
  <2>1. Len(ranked) # 0
    OBVIOUS
  <2>2. QED
    BY <2>1, RetrievalAssumption
<1>2. CASE chars > Overhead
  <2>1. PICK t : t = AtMost(1, ranked)
    OBVIOUS
  <2>2. t \in Seq(S) /\ DOMAIN t = {i \in DOMAIN ranked : i <= 1} /\ \A i \in DOMAIN t : t[i] = ranked[i]
    <3>1. PICK n \in Nat : n = 1
      OBVIOUS
    <3>2. /\ AtMost(n, ranked) \in Seq(S)
          /\ DOMAIN AtMost(n, ranked) = {i \in DOMAIN ranked : i <= n}
          /\ \A i \in DOMAIN AtMost(n, ranked) : AtMost(n, ranked)[i] = ranked[i]
      BY FirstEntries
    <3>3. QED
      BY <2>1, <3>1, <3>2
  <2>3. Len(t) = 1
    <3>1. DOMAIN t = 1..Len(t) /\ Len(t) \in Nat
      <4>1. t \in Seq(S)
        BY <2>2
      <4>2. QED
        BY <4>1
    <3>2. 1 \in DOMAIN t /\ 2 \notin DOMAIN t
      BY <1>1, <2>2
    <3>3. QED
      BY <3>1, <3>2
  <2>4. t[1] = ranked[1]
    BY <1>1, <2>2
  <2>5. Heads(t, ranked, 1)
    BY <1>1, <2>3, <2>4 DEF Heads
  <2>6. QED
    BY <1>2, <2>1, <2>2, <2>5 DEF FirstAlone
<1>3. CASE ~(chars > Overhead)
  <2>1. FirstAlone(ranked, chars) = <<>>
    BY <1>3 DEF FirstAlone
  <2>2. Heads(<<>>, ranked, 0)
    BY <1>1 DEF Heads
  <2>3. QED
    BY <1>3, <2>1, <2>2
<1>4. QED
  BY <1>2, <1>3

LEMMA ShownIs ==
  ASSUME NEW J, NEW ranked \in Seq(Scoring(J)), NEW taken \in Seq(Scoring(J)),
         NEW m, Heads(taken, ranked, m)
  PROVE  /\ Each(LAMBDA c : c.id, taken) \in Seq(J)
         /\ Each(LAMBDA c : c.score, taken) \in Seq(Int)
         /\ Len(Each(LAMBDA c : c.id, taken)) = m
         /\ Len(Each(LAMBDA c : c.score, taken)) = m
         /\ \A k \in 1..m : Each(LAMBDA c : c.id, taken)[k] = ranked[k].id
<1>1. PICK e, f : /\ e = [k \in DOMAIN taken |-> taken[k].id]
                  /\ f = [k \in DOMAIN taken |-> taken[k].score]
  OBVIOUS
<1>2. DOMAIN taken = 1..Len(taken) /\ Len(taken) \in Nat
  OBVIOUS
<1>3. Each(LAMBDA c : c.id, taken) = SubSeq(e, 1, Len(taken))
  BY <1>1, Zenon DEF Each
<1>4. Each(LAMBDA c : c.score, taken) = SubSeq(f, 1, Len(taken))
  BY <1>1, Zenon DEF Each
<1>5. SubSeq(e, 1, Len(taken)) = e
  BY <1>1, <1>2, EachIs
<1>6. SubSeq(f, 1, Len(taken)) = f
  BY <1>1, <1>2, EachIs
<1>7. \A k \in 1..Len(taken) : taken[k].id \in J /\ taken[k].score \in Int
  <2> TAKE k \in 1..Len(taken)
  <2>1. taken[k] \in Scoring(J)
    BY <1>2
  <2>2. QED
    BY <2>1 DEF Scoring
<1>8. e \in Seq(J) /\ f \in Seq(Int) /\ Len(e) = Len(taken) /\ Len(f) = Len(taken)
  BY <1>1, <1>2, <1>7
<1>9. Len(taken) = m /\ \A k \in 1..m : e[k] = ranked[k].id
  BY <1>1, <1>2 DEF Heads
<1>10. QED
  BY <1>3, <1>4, <1>5, <1>6, <1>8, <1>9

\* What assemble_reranked_pack makes of a ranking.
Assembles(pack, ranked, chars, floor, J) ==
  \/ /\ ranked = <<>> \/ ranked[1].score < floor
     /\ pack = EmptyPack
  \/ /\ ranked # <<>> /\ ~(ranked[1].score < floor)
     /\ pack \in PackOf(J)
     /\ \E m : Shown(pack, ranked, m) /\ (chars > Overhead => m >= 1)

LEMMA AssembledIs ==
  ASSUME NEW J, J \subseteq Int, NEW C, AreCandidates(C, J),
         NEW memories \in Nat, NEW chars \in Nat, NEW floor
  PROVE  Assembles(Assembled(C, memories, chars, floor), Ordered(C, RanksBefore), chars, floor, J)
<1>1. PICK ranked : ranked = Ordered(C, RanksBefore)
  OBVIOUS
<1>2. ranked \in Seq(Scoring(J))
  <2>1. ranked \in Seq(C)
    BY <1>1, RankedIs DEF Lists
  <2>2. C \subseteq Scoring(J)
    BY DEF AreCandidates
  <2>3. QED
    BY <2>1, <2>2, SeqOver
<1> DEFINE used(n) == FoldLeft(LAMBDA sum, c : sum + Size[mem[c.id].text], 0,
                               SubSeq(Ordered(C, RanksBefore), 1, n))
           fits == {n \in 0..Min({memories, Len(Ordered(C, RanksBefore))}) :
                      \A k \in 1..n : used(k) <= chars}
           whole == SubSeq(Ordered(C, RanksBefore), 1, Max(fits))
           taken == IF whole = <<>> THEN FirstAlone(Ordered(C, RanksBefore), chars) ELSE whole
<1>3. Assembled(C, memories, chars, floor)
        = IF Ordered(C, RanksBefore) = <<>> \/ Ordered(C, RanksBefore)[1].score < floor THEN EmptyPack
          ELSE [ids |-> Each(LAMBDA c : c.id, taken), scores |-> Each(LAMBDA c : c.score, taken),
                truncated |-> Len(taken) < Len(Ordered(C, RanksBefore))
                                \/ (whole = <<>> /\ taken # <<>>),
                top |-> Ordered(C, RanksBefore)[1].score]
  BY Zenon DEF Assembled
<1>4. fits \subseteq 0..Len(ranked) /\ 0 \in fits
  <2>1. PICK T : T = {memories, Len(ranked)}
    OBVIOUS
  <2>2. T \subseteq Nat /\ T # {}
    BY <1>2, <2>1
  <2>3. Min(T) \in T /\ \A k \in T : Min(T) <= k
    BY <2>2, Least
  <2>4. Min(T) \in Nat /\ Min(T) <= Len(ranked)
    BY <2>1, <2>2, <2>3
  <2> HIDE DEF used
  <2>5. fits \subseteq 0..Min(T)
    BY <1>1, <2>1
  <2>6. 0 \in 0..Min(T)
    BY <2>4
  <2>7. \A k \in 1..0 : used(k) <= chars
    OBVIOUS
  <2>8. 0 \in fits
    BY <1>1, <2>1, <2>6, <2>7
  <2>9. Len(ranked) \in Nat
    BY <1>2
  <2>10. 0..Min(T) \subseteq 0..Len(ranked)
    BY <2>4, <2>9
  <2> HIDE DEF fits
  <2>11. QED
    BY <2>5, <2>8, <2>10
<1> HIDE DEF used, fits
<1>5. PICK w : w = Max(fits)
  OBVIOUS
<1>6. w \in 0..Len(ranked) /\ Len(ranked) \in Nat
  <2>1. PICK T, n : T = fits /\ n = Len(ranked)
    OBVIOUS
  <2>2. n \in Nat /\ T \subseteq 0..n /\ T # {}
    BY <1>2, <1>4, <2>1
  <2>3. Max(T) \in T
    BY <2>2, Greatest
  <2>4. QED
    BY <1>5, <2>1, <2>2, <2>3
<1>7. PICK u : u = SubSeq(ranked, 1, w)
  OBVIOUS
<1>8. whole = u
  BY <1>1, <1>5, <1>7
<1>9. u \in Seq(Scoring(J)) /\ Heads(u, ranked, w) /\ (u = <<>> <=> w = 0)
  <2>1. /\ u \in Seq(Scoring(J)) /\ Len(u) = w
        /\ \A k \in 1..w : u[k] = ranked[k]
    BY <1>2, <1>6, <1>7
  <2>2. Heads(u, ranked, w)
    BY <1>6, <2>1 DEF Heads
  <2>3. u = <<>> <=> w = 0
    BY <2>1
  <2>4. QED
    BY <2>1, <2>2, <2>3
<1>10. PICK t : t = taken
  OBVIOUS
<1>11. t = IF u = <<>> THEN FirstAlone(ranked, chars) ELSE u
  BY <1>1, <1>8, <1>10
<1> HIDE DEF whole, taken
<1>12. PICK pack : pack = Assembled(C, memories, chars, floor)
  OBVIOUS
<1>13. pack = IF ranked = <<>> \/ ranked[1].score < floor THEN EmptyPack
              ELSE [ids |-> Each(LAMBDA c : c.id, t), scores |-> Each(LAMBDA c : c.score, t),
                    truncated |-> Len(t) < Len(ranked) \/ (u = <<>> /\ t # <<>>),
                    top |-> ranked[1].score]
  BY <1>1, <1>3, <1>8, <1>10, <1>12
<1>14. CASE ranked = <<>> \/ ranked[1].score < floor
  BY <1>1, <1>12, <1>13, <1>14 DEF Assembles
<1>15. CASE ~(ranked = <<>> \/ ranked[1].score < floor)
  <2>1. t \in Seq(Scoring(J)) /\ \E m : Heads(t, ranked, m) /\ (chars > Overhead => m >= 1)
    <3>1. CASE u = <<>>
      <4>1. t = FirstAlone(ranked, chars)
        BY <1>11, <3>1
      <4>2. ranked # <<>>
        BY <1>15
      <4>3. /\ FirstAlone(ranked, chars) \in Seq(Scoring(J))
            /\ \E m : Heads(FirstAlone(ranked, chars), ranked, m) /\ (chars > Overhead => m >= 1)
        BY <1>2, <4>2, AloneIs
      <4>4. QED
        BY <4>1, <4>3
    <3>2. CASE u # <<>>
      <4>1. t = u
        BY <1>11, <3>2
      <4>2. w >= 1
        BY <1>6, <1>9, <3>2
      <4>3. QED
        BY <1>9, <4>1, <4>2
    <3>3. QED
      BY <3>1, <3>2
  <2>2. PICK m : Heads(t, ranked, m) /\ (chars > Overhead => m >= 1)
    BY <2>1
  <2>3. PICK e, f : e = Each(LAMBDA c : c.id, t) /\ f = Each(LAMBDA c : c.score, t)
    OBVIOUS
  <2>4. /\ e \in Seq(J) /\ f \in Seq(Int) /\ Len(e) = m /\ Len(f) = m
        /\ \A k \in 1..m : e[k] = ranked[k].id
    BY <1>2, <2>1, <2>2, <2>3, ShownIs
  <2>5. PICK cut : cut = (Len(t) < Len(ranked) \/ (u = <<>> /\ t # <<>>))
    OBVIOUS
  <2>6. pack = [ids |-> e, scores |-> f, truncated |-> cut, top |-> ranked[1].score]
    BY <1>13, <1>15, <2>3, <2>5
  <2>7. cut \in BOOLEAN
    BY <2>5
  <2>8. ranked[1].score \in Int
    <3>1. Len(ranked) # 0
      BY <1>2, <1>15
    <3>2. 1 \in DOMAIN ranked
      BY <1>2, <1>6, <3>1
    <3>3. ranked[1] \in Scoring(J)
      BY <1>2, <3>2
    <3>4. QED
      BY <3>3 DEF Scoring
  <2>9. pack \in PackOf(J) /\ pack.ids = e /\ pack.scores = f
    BY <2>4, <2>6, <2>7, <2>8 DEF PackOf
  <2>10. Shown(pack, ranked, m)
    BY <2>2, <2>4, <2>9 DEF Shown, Heads
  <2>11. QED
    BY <1>1, <1>12, <1>15, <2>2, <2>9, <2>10 DEF Assembles
<1>16. QED
  BY <1>14, <1>15

\* A ranking holds every candidate, and who comes earlier does not score less.
RunsDown(ranked, C) ==
  /\ ranked \in Seq(C)
  /\ \A c \in C : \E n \in 1..Len(ranked) : ranked[n] = c
  /\ \A i, j \in 1..Len(ranked) :
       i <= j => /\ ranked[i] \in C /\ ranked[j] \in C
                 /\ ranked[i].score \in Int /\ ranked[j].score \in Int
                 /\ ranked[j].score <= ranked[i].score

LEMMA EarlierScores ==
  ASSUME NEW J, J \subseteq Int, NEW C, AreCandidates(C, J),
         NEW ranked, ranked = Ordered(C, RanksBefore)
  PROVE  RunsDown(ranked, C)
<1>1. PICK R : R = Ranks(C)
  OBVIOUS
<1>2. Lists(ranked, C, R)
  BY <1>1, RankedIs
<1>3. ranked \in Seq(C) /\ DOMAIN ranked = 1..Len(ranked) /\ Len(ranked) \in Nat
  BY <1>2 DEF Lists
<1>4. \A c \in C : \E n \in 1..Len(ranked) : ranked[n] = c
  BY <1>2, <1>3 DEF Lists
<1>5. ASSUME NEW i \in 1..Len(ranked), NEW j \in 1..Len(ranked), i <= j
      PROVE  /\ ranked[i] \in C /\ ranked[j] \in C
             /\ ranked[i].score \in Int /\ ranked[j].score \in Int
             /\ ranked[j].score <= ranked[i].score
  <2>1. PICK c, d : c = ranked[i] /\ d = ranked[j]
    OBVIOUS
  <2>2. c \in C /\ d \in C
    BY <1>3, <2>1
  <2>3. c.score \in Int /\ d.score \in Int
    BY <2>2 DEF AreCandidates, Scoring
  <2>4. CASE i = j
    BY <2>1, <2>2, <2>3, <2>4
  <2>5. CASE i < j
    <3>1. <<c, d>> \in R
      BY <1>2, <1>3, <2>1, <2>5 DEF Lists
    <3>2. RanksBefore(c, d)
      BY <1>1, <3>1 DEF Ranks
    <3>3. c.score > d.score \/ c.score = d.score
      BY <3>2, Zenon DEF RanksBefore
    <3>4. d.score <= c.score
      BY <2>3, <3>3
    <3>5. QED
      BY <2>1, <2>2, <2>3, <3>4
  <2>6. QED
    BY <1>5, <2>4, <2>5
<1>6. QED
  BY <1>3, <1>4, <1>5 DEF RunsDown

\* A pool with the scores of the reranker.
LEMMA RerankTyped ==
  ASSUME IInv, NEW r \in PackRequest, NEW pool, pool = Pool(r),
         NEW score, score = [k \in DOMAIN pool |-> Rel(r.queries[1], pool[k].id).rerank],
         NEW J, J = JoinEligible(r)
  PROVE  /\ pool \in Seq(Candidate(J)) /\ OncePerMemory(pool)
         /\ score \in [DOMAIN pool -> Int] /\ J \subseteq Int
<1>1. pool \in Seq(Candidate(J)) /\ OncePerMemory(pool)
  BY PoolIs DEF IsPool
<1>2. J \subseteq DOMAIN mem /\ J \subseteq Int
  BY RecalledIs
<1>3. r.queries[1] \in Queries
  <2>1. r.queries \in Seq(Queries) /\ r.queries # <<>>
    BY PackTyped
  <2>2. PICK s : s = r.queries
    OBVIOUS
  <2>3. s \in Seq(Queries) /\ s # <<>>
    BY <2>1, <2>2
  <2>4. s[1] \in Queries
    BY <2>3
  <2>5. QED
    BY <2>2, <2>4
<1>4. PICK q \in Queries : q = r.queries[1]
  BY <1>3
<1>5. ASSUME NEW k \in DOMAIN pool PROVE Rel(q, pool[k].id).rerank \in Int
  <2>1. pool[k] \in Candidate(J)
    BY <1>1
  <2>2. PICK i : i = pool[k].id
    OBVIOUS
  <2>3. i \in DOMAIN mem
    BY <1>2, <2>1, <2>2 DEF Candidate
  <2>4. Rel(q, i).rerank \in Int
    BY <2>3, ScoresTyped
  <2>5. QED
    BY <2>2, <2>4
<1>6. score \in [DOMAIN pool -> Int]
  BY <1>4, <1>5
<1>7. QED
  BY <1>1, <1>2, <1>6

\* What is assembled of a pool with scores.
LEMMA PackFrom ==
  ASSUME NEW J, J \subseteq Int, NEW pool \in Seq(Candidate(J)), OncePerMemory(pool),
         NEW score \in [DOMAIN pool -> Int], NEW C, C = Scored(pool, score),
         NEW memories \in Nat, NEW chars \in Nat, NEW floor
  PROVE  /\ AreCandidates(C, J) /\ AreEntries(C, pool, score)
         /\ Assembles(Assembled(C, memories, chars, floor), Ordered(C, RanksBefore), chars, floor, J)
<1>1. AreCandidates(C, J) /\ AreEntries(C, pool, score)
  BY ScoredIs
<1>2. Assembles(Assembled(C, memories, chars, floor), Ordered(C, RanksBefore), chars, floor, J)
  BY <1>1, AssembledIs
<1>3. QED
  BY <1>1, <1>2

\* A pack says something of what passes the floor, and leaves out nothing that
\* scores more than what it takes.
Speaks(pack, pool, score, chars, floor) ==
  /\ (\E k \in DOMAIN pool : score[k] >= floor) /\ chars > Overhead => pack.ids # <<>>
  /\ \A j \in Range(pack.ids) : \E n \in DOMAIN pool : pool[n].id = j
  /\ \A k, n \in DOMAIN pool :
       pool[k].id \notin Range(pack.ids) /\ pool[n].id \in Range(pack.ids) => score[k] <= score[n]
  /\ Len(pack.scores) = Len(pack.ids)

LEMMA PackSpeaks ==
  ASSUME NEW J, J \subseteq Int, NEW pool \in Seq(Candidate(J)), OncePerMemory(pool),
         NEW score \in [DOMAIN pool -> Int], NEW C, C = Scored(pool, score),
         NEW memories \in Nat, NEW chars \in Nat, NEW floor \in Int,
         NEW pack, pack = Assembled(C, memories, chars, floor)
  PROVE  Speaks(pack, pool, score, chars, floor)
<1>1. PICK ranked : ranked = Ordered(C, RanksBefore)
  OBVIOUS
<1>2. /\ AreCandidates(C, J) /\ AreEntries(C, pool, score)
      /\ Assembles(pack, ranked, chars, floor, J)
  BY <1>1, PackFrom
<1>3. /\ ranked \in Seq(C)
      /\ \A c \in C : \E n \in 1..Len(ranked) : ranked[n] = c
      /\ \A i, j \in 1..Len(ranked) :
           i <= j => /\ ranked[i] \in C /\ ranked[j] \in C
                     /\ ranked[i].score \in Int /\ ranked[j].score \in Int
                     /\ ranked[j].score <= ranked[i].score
  <2>1. RunsDown(ranked, C)
    BY <1>1, <1>2, EarlierScores
  <2>2. QED
    BY <2>1 DEF RunsDown
<1>4. Len(ranked) \in Nat
  BY <1>3
\* The place of a memory of the pool in the ranking.
<1>5. ASSUME NEW k \in DOMAIN pool
      PROVE  \E n \in 1..Len(ranked) : ranked[n].id = pool[k].id /\ ranked[n].score = score[k]
  <2>1. PICK c : c = Entry(pool, score, k)
    OBVIOUS
  <2>2. c \in C /\ c.id = pool[k].id /\ c.score = score[k]
    BY <1>2, <2>1 DEF AreEntries
  <2>3. QED
    BY <1>3, <2>2
\* The memory of the pool at a place of the ranking.
<1>6. ASSUME NEW n \in 1..Len(ranked)
      PROVE  \E k \in DOMAIN pool : ranked[n].id = pool[k].id /\ ranked[n].score = score[k]
  <2>1. PICK c : c = ranked[n]
    OBVIOUS
  <2>2. c \in C
    BY <1>3, <2>1
  <2>3. PICK k \in DOMAIN pool : c = Entry(pool, score, k)
    BY <1>2, <2>2 DEF AreEntries
  <2>4. QED
    BY <1>2, <2>1, <2>3 DEF AreEntries
<1>7. CASE (ranked = <<>> \/ ranked[1].score < floor) /\ pack = EmptyPack
  <2>1. pack.ids = <<>> /\ pack.scores = <<>>
    BY <1>7 DEF EmptyPack
  <2>2. Range(pack.ids) = {}
    BY <2>1 DEF Range
  <2>3. ASSUME NEW k \in DOMAIN pool, score[k] >= floor PROVE FALSE
    <3>1. PICK n \in 1..Len(ranked) : ranked[n].score = score[k]
      BY <1>5
    <3>2. ranked # <<>> /\ 1 \in 1..Len(ranked) /\ 1 <= n
      BY <1>4, <3>1
    <3>3. /\ ranked[1].score \in Int /\ ranked[n].score \in Int
          /\ ranked[n].score <= ranked[1].score
      BY <1>3, <3>2
    <3>4. ranked[1].score < floor
      BY <1>7, <3>2
    <3>5. QED
      BY <2>3, <3>1, <3>3, <3>4
  <2>4. QED
    BY <2>1, <2>2, <2>3 DEF Speaks
<1>8. CASE pack \in PackOf(J) /\ \E m : Shown(pack, ranked, m) /\ (chars > Overhead => m >= 1)
  <2>1. PICK m : Shown(pack, ranked, m) /\ (chars > Overhead => m >= 1)
    BY <1>8
  <2>2. /\ m \in 0..Len(ranked) /\ Len(pack.ids) = m /\ Len(pack.scores) = m
        /\ \A k \in 1..m : pack.ids[k] = ranked[k].id
    BY <2>1 DEF Shown
  <2>3. PICK ids : ids = pack.ids
    OBVIOUS
  <2>4. ids \in Seq(J) /\ DOMAIN ids = 1..m /\ m \in Nat
    <3>1. ids \in Seq(J)
      BY <1>8, <2>3 DEF PackOf
    <3>2. QED
      BY <1>4, <2>2, <2>3, <3>1
  <2>5. \A j : j \in Range(ids) <=> \E k \in 1..m : ranked[k].id = j
    BY <2>2, <2>3, <2>4 DEF Range
  <2>6. chars > Overhead => ids # <<>>
    BY <2>1, <2>2, <2>3
  <2>7. ASSUME NEW j \in Range(ids) PROVE \E n \in DOMAIN pool : pool[n].id = j
    <3>1. PICK k \in 1..m : ranked[k].id = j
      BY <2>5, <2>7
    <3>2. k \in 1..Len(ranked)
      BY <1>4, <2>2
    <3>3. QED
      BY <1>6, <3>1, <3>2
  <2>8. ASSUME NEW k \in DOMAIN pool, NEW n \in DOMAIN pool,
               pool[k].id \notin Range(ids), pool[n].id \in Range(ids)
        PROVE  score[k] <= score[n]
    <3>1. PICK i \in 1..Len(ranked) : ranked[i].id = pool[k].id /\ ranked[i].score = score[k]
      BY <1>5
    <3>2. PICK j \in 1..m : ranked[j].id = pool[n].id
      BY <2>5, <2>8
    <3>3. j \in 1..Len(ranked)
      BY <1>4, <2>2
    <3>4. ranked[j].score = score[n]
      <4>1. PICK l \in DOMAIN pool : ranked[j].id = pool[l].id /\ ranked[j].score = score[l]
        BY <1>6, <3>3
      <4>2. l = n
        BY <3>2, <4>1 DEF OncePerMemory
      <4>3. QED
        BY <4>1, <4>2
    <3>5. i \notin 1..m
      BY <2>5, <2>8, <3>1
    <3>6. j <= i
      BY <1>4, <2>4, <3>5
    <3>7. ranked[i].score <= ranked[j].score
      BY <1>3, <3>3, <3>6
    <3>8. QED
      BY <3>1, <3>4, <3>7
  <2>9. QED
    BY <2>2, <2>3, <2>6, <2>7, <2>8 DEF Speaks
<1>9. QED
  BY <1>2, <1>7, <1>8 DEF Assembles

LEMMA PacksSpeak == IInv => RelevantPackSpeaks
<1> SUFFICES ASSUME IInv, NEW r \in Packs, NEW pool \in {Pool(r)}, NEW pack \in {Pack(r)}
             PROVE  LET ids == {pool[k].id : k \in DOMAIN pool}
                        score(i) == Rel(r.queries[1], i).rerank
                    IN  /\ ((\E i \in ids : score(i) >= r.floor) /\ r.chars > Overhead)
                             => pack.ids # <<>>
                        /\ \A i \in ids \ Range(pack.ids), j \in Range(pack.ids) : score(i) <= score(j)
                        /\ Len(pack.scores) = Len(pack.ids)
  BY Zenon DEF RelevantPackSpeaks
<1>1. r \in PackRequest
  BY RetrievalAssumption
<1>2. PICK score : score = [k \in DOMAIN pool |-> Rel(r.queries[1], pool[k].id).rerank]
  OBVIOUS
<1>3. PICK J : J = JoinEligible(r)
  OBVIOUS
<1>4. PICK p : p = pool
  OBVIOUS
<1>5. /\ p \in Seq(Candidate(J)) /\ OncePerMemory(p)
      /\ score \in [DOMAIN p -> Int] /\ J \subseteq Int
  <2>1. p = Pool(r)
    BY <1>4
  <2>2. score = [k \in DOMAIN p |-> Rel(r.queries[1], p[k].id).rerank]
    BY <1>2, <1>4
  <2>3. QED
    BY <1>1, <1>3, <2>1, <2>2, RerankTyped
<1>6. PICK memories \in Nat, chars \in Nat : memories = r.memories /\ chars = r.chars
  BY <1>1, PackTyped
<1>7. PICK floor \in Int : floor = r.floor
  BY <1>1, PackTyped
<1>8. PICK C : C = Scored(p, score)
  OBVIOUS
<1>9. PICK k : k = Assembled(C, memories, chars, floor)
  OBVIOUS
<1>10. pack = k
  <2>1. Pack(r) = Assembled(Scored(Pool(r), [n \in DOMAIN Pool(r) |->
                                               Rel(r.queries[1], Pool(r)[n].id).rerank]),
                            r.memories, r.chars, r.floor)
    BY Zenon DEF Pack, RerankedPack
  <2>2. QED
    BY <1>2, <1>4, <1>6, <1>7, <1>8, <1>9, <2>1
<1>11. Speaks(k, p, score, chars, floor)
  BY <1>5, <1>8, <1>9, PackSpeaks
<1>12. \A n \in DOMAIN pool : score[n] = Rel(r.queries[1], pool[n].id).rerank
  BY <1>2
<1>13. /\ (\E n \in DOMAIN pool : score[n] >= r.floor) /\ r.chars > Overhead => pack.ids # <<>>
       /\ \A j \in Range(pack.ids) : \E n \in DOMAIN pool : pool[n].id = j
       /\ \A m, n \in DOMAIN pool :
            pool[m].id \notin Range(pack.ids) /\ pool[n].id \in Range(pack.ids)
              => score[m] <= score[n]
       /\ Len(pack.scores) = Len(pack.ids)
  BY <1>4, <1>6, <1>7, <1>10, <1>11 DEF Speaks
<1>14. ASSUME \E i \in {pool[n].id : n \in DOMAIN pool} : Rel(r.queries[1], i).rerank >= r.floor,
              r.chars > Overhead
       PROVE  pack.ids # <<>>
  <2>1. PICK n \in DOMAIN pool : Rel(r.queries[1], pool[n].id).rerank >= r.floor
    BY <1>14
  <2>2. score[n] >= r.floor
    BY <1>12, <2>1
  <2>3. QED
    BY <1>13, <1>14, <2>2
<1>15. ASSUME NEW i \in {pool[n].id : n \in DOMAIN pool} \ Range(pack.ids), NEW j \in Range(pack.ids)
       PROVE  Rel(r.queries[1], i).rerank <= Rel(r.queries[1], j).rerank
  <2>1. PICK m \in DOMAIN pool : pool[m].id = i
    OBVIOUS
  <2>2. PICK n \in DOMAIN pool : pool[n].id = j
    BY <1>13
  <2>3. score[m] <= score[n]
    BY <1>13, <2>1, <2>2
  <2>4. QED
    BY <1>12, <2>1, <2>2, <2>3
<1>16. QED
  BY <1>13, <1>14, <1>15

\* Scores that count the places down rank a pool as it is.
LEMMA PlacesRank ==
  ASSUME NEW J, J \subseteq Int, NEW pool \in Seq(Candidate(J)), OncePerMemory(pool),
         NEW score \in [DOMAIN pool -> Int],
         \A k \in DOMAIN pool : score[k] = Len(pool) - k,
         NEW C, AreCandidates(C, J), AreEntries(C, pool, score)
  PROVE  /\ Len(Ordered(C, RanksBefore)) = Len(pool)
         /\ \A k \in DOMAIN pool : Ordered(C, RanksBefore)[k].id = pool[k].id
<1>1. PICK R, ranked : R = Ranks(C) /\ ranked = Ordered(C, RanksBefore)
  OBVIOUS
<1>2. StrictOrder(C, R) /\ Lists(ranked, C, R)
  BY <1>1, RankedIs
<1>3. PICK n : n = Len(pool)
  OBVIOUS
<1>4. DOMAIN pool = 1..n /\ n \in Nat
  BY <1>3
<1>5. PICK s : s = [k \in 1..n |-> Entry(pool, score, k)]
  OBVIOUS
<1>6. \A k \in 1..n : s[k] \in C /\ s[k].id = pool[k].id /\ s[k].score = score[k]
  BY <1>4, <1>5 DEF AreEntries
<1>7. s \in Seq(C) /\ Len(s) = n /\ DOMAIN s = 1..n
  BY <1>4, <1>5, <1>6
<1>8. Once(s)
  <2> SUFFICES ASSUME NEW i \in 1..n, NEW j \in 1..n, s[i] = s[j] PROVE i = j
    BY <1>7 DEF Once
  <2>1. pool[i].id = pool[j].id
    BY <1>6
  <2>2. QED
    BY <1>4, <2>1 DEF OncePerMemory
<1>9. Range(s) = C
  <2>1. \A c \in C : \E k \in 1..n : c = s[k]
    BY <1>4, <1>5 DEF AreEntries
  <2>2. Range(s) = {s[k] : k \in 1..n}
    BY <1>7 DEF Range
  <2>3. \A k \in 1..n : s[k] \in C
    BY <1>6
  <2>4. QED
    BY <2>1, <2>2, <2>3
<1>10. Len(s) = Cardinality(C)
  BY <1>7, <1>8, <1>9, OnceCounts
<1>11. ASSUME NEW i \in 1..n, NEW j \in 1..n
       PROVE  i < j <=> <<s[i], s[j]>> \in R
  <2>1. PICK c, d : c = s[i] /\ d = s[j]
    OBVIOUS
  <2>2. c \in C /\ d \in C /\ c.score = n - i /\ d.score = n - j
    BY <1>3, <1>4, <1>6, <2>1
  <2>3. <<c, d>> \in R <=> RanksBefore(c, d)
    BY <1>1, <2>2 DEF Ranks
  <2>4. CASE i < j
    <3>1. c.score > d.score
      BY <1>4, <2>2, <2>4
    <3>2. RanksBefore(c, d)
      BY <3>1, Zenon DEF RanksBefore
    <3>3. QED
      BY <2>1, <2>3, <2>4, <3>2
  <2>5. CASE i = j
    <3>1. <<c, d>> \notin R
      BY <1>2, <2>1, <2>2, <2>5 DEF StrictOrder
    <3>2. QED
      BY <2>1, <2>5, <3>1
  <2>6. CASE j < i
    <3>1. ~(c.score > d.score) /\ c.score # d.score
      BY <1>4, <2>2, <2>6
    <3>2. ~RanksBefore(c, d)
      BY <3>1, Zenon DEF RanksBefore
    <3>3. QED
      BY <1>4, <2>1, <2>3, <2>6, <3>2
  <2>7. QED
    BY <1>4, <2>4, <2>5, <2>6
<1>12. Lists(s, C, R)
  <2>1. \A c \in C : \E k \in DOMAIN s : s[k] = c
    BY <1>9 DEF Range
  <2>2. \A i, j \in DOMAIN s : i < j <=> <<s[i], s[j]>> \in R
    BY <1>7, <1>11
  <2>3. QED
    BY <1>7, <1>10, <2>1, <2>2 DEF Lists
<1>13. ranked = s
  BY <1>2, <1>12, OneList
<1>14. QED
  BY <1>1, <1>3, <1>4, <1>6, <1>7, <1>13

\* A pack, as a record, that shows the start of a pool.
ShowsStart(whole, pool, J) ==
  /\ whole = EmptyPack \/ whole \in PackOf(J)
  /\ whole.ids = [k \in DOMAIN whole.ids |-> whole.ids[k]]
  /\ \A k \in DOMAIN whole.ids : whole.ids[k] = pool[k].id

\* The pack of a pool that no reranker scored shows the start of the pool.
LEMMA DegradedShows ==
  ASSUME NEW J, J \subseteq Int, NEW pool \in Seq(Candidate(J)), OncePerMemory(pool),
         NEW score \in [DOMAIN pool -> Int],
         \A k \in DOMAIN pool : score[k] = Len(pool) - k,
         NEW C, C = Scored(pool, score), NEW memories \in Nat, NEW chars \in Nat,
         NEW whole, whole = Assembled(C, memories, chars, 0)
  PROVE  ShowsStart(whole, pool, J)
<1>1. PICK ranked : ranked = Ordered(C, RanksBefore)
  OBVIOUS
<1>2. /\ AreCandidates(C, J) /\ AreEntries(C, pool, score)
      /\ Assembles(whole, ranked, chars, 0, J)
  BY <1>1, PackFrom
<1>3. Len(ranked) = Len(pool) /\ \A k \in DOMAIN pool : ranked[k].id = pool[k].id
  <2>1. AreCandidates(C, J) /\ AreEntries(C, pool, score)
    BY <1>2
  <2>2. /\ Len(Ordered(C, RanksBefore)) = Len(pool)
        /\ \A k \in DOMAIN pool : Ordered(C, RanksBefore)[k].id = pool[k].id
    <3>1. /\ J \subseteq Int /\ pool \in Seq(Candidate(J)) /\ OncePerMemory(pool)
          /\ score \in [DOMAIN pool -> Int]
          /\ \A k \in DOMAIN pool : score[k] = Len(pool) - k
      OBVIOUS
    <3>2. Len(Ordered(C, RanksBefore)) = Len(pool)
      BY ONLY <2>1, <3>1, PlacesRank, Zenon
    <3>3. ASSUME NEW k \in DOMAIN pool
          PROVE  Ordered(C, RanksBefore)[k].id = pool[k].id
      BY ONLY <2>1, <3>1, <3>3, PlacesRank, Zenon
    <3>4. QED
      BY ONLY <3>2, <3>3
  <2>3. QED
    BY <1>1, <2>2
<1>4. CASE whole = EmptyPack
  <2>1. whole.ids = <<>>
    BY <1>4 DEF EmptyPack
  <2>2. DOMAIN whole.ids = 1..0
    BY <2>1
  <2>3. \A k : k \notin 1..0
    OBVIOUS
  <2>4. whole.ids = [k \in DOMAIN whole.ids |-> whole.ids[k]]
    BY <2>1
  <2>5. QED
    BY <1>4, <2>2, <2>3, <2>4 DEF ShowsStart
<1>5. CASE whole \in PackOf(J) /\ \E m : Shown(whole, ranked, m) /\ (chars > Overhead => m >= 1)
  <2>1. PICK m : Shown(whole, ranked, m)
    BY <1>5
  <2>2. /\ m \in 0..Len(ranked) /\ Len(whole.ids) = m
        /\ \A k \in 1..m : whole.ids[k] = ranked[k].id
    BY <2>1 DEF Shown
  <2>3. PICK ids : ids = whole.ids
    OBVIOUS
  <2>4. ids \in Seq(J)
    BY <1>5, <2>3 DEF PackOf
  <2>5. Len(pool) \in Nat /\ DOMAIN pool = 1..Len(pool)
    OBVIOUS
  <2>6. m \in Nat /\ DOMAIN ids = 1..m /\ 1..m \subseteq DOMAIN pool
    BY <1>3, <2>2, <2>3, <2>4, <2>5
  <2>7. ids = [k \in DOMAIN ids |-> ids[k]]
    BY <2>4
  <2>8. QED
    BY <1>3, <1>5, <2>2, <2>3, <2>6, <2>7 DEF ShowsStart
<1>6. QED
  BY <1>2, <1>4, <1>5 DEF Assembles

LEMMA OrderKept == IInv => DegradedPackKeepsOrder
<1> SUFFICES ASSUME IInv, NEW r \in Packs, NEW pool \in {Pool(r)}, NEW pack \in {RetrievalOnly(r)}
             PROVE  /\ pack.ids = [k \in DOMAIN pack.ids |-> pool[k].id]
                    /\ pack.scores = <<>> /\ pack.top = NoScore
  BY Zenon DEF DegradedPackKeepsOrder
<1>1. r \in PackRequest
  BY RetrievalAssumption
<1>2. PICK J : J = JoinEligible(r)
  OBVIOUS
<1>3. PICK p : p = pool
  OBVIOUS
<1>4. p \in Seq(Candidate(J)) /\ OncePerMemory(p) /\ J \subseteq Int
  BY <1>1, <1>2, <1>3, PoolIs, RecalledIs DEF IsPool
<1>5. PICK score : score = [k \in DOMAIN p |-> PlaceScore(p, k)]
  OBVIOUS
<1>6. score \in [DOMAIN p -> Int] /\ \A k \in DOMAIN p : score[k] = Len(p) - k
  <2>1. DOMAIN p = 1..Len(p) /\ Len(p) \in Nat
    BY <1>4
  <2>2. \A k \in DOMAIN p : score[k] = Len(p) - k /\ Len(p) - k \in Int
    BY <1>5, <2>1 DEF PlaceScore
  <2>3. QED
    BY <1>5, <2>2
<1>7. PICK memories \in Nat : memories = r.memories
  BY <1>1, PackTyped
<1>8. PICK chars \in Nat : chars = IF r.chars > Heading THEN r.chars - Heading ELSE 0
  <2>1. r.chars \in Nat /\ Heading \in Nat
    BY <1>1, PackTyped, RetrievalAssumption
  <2>2. (IF r.chars > Heading THEN r.chars - Heading ELSE 0) \in Nat
    BY <2>1
  <2>3. QED
    BY <2>2
<1>9. PICK C : C = Scored(p, score)
  OBVIOUS
<1>10. PICK whole : whole = Assembled(C, memories, chars, 0)
  OBVIOUS
<1>11. ShowsStart(whole, p, J)
  BY <1>4, <1>6, <1>9, <1>10, DegradedShows
<1>12. pack = [whole EXCEPT !.scores = <<>>, !.top = NoScore]
  <2>1. RetrievalOnly(r)
          = [Assembled(Scored(Pool(r), [k \in DOMAIN Pool(r) |-> PlaceScore(Pool(r), k)]),
                       r.memories, IF r.chars > Heading THEN r.chars - Heading ELSE 0, 0)
               EXCEPT !.scores = <<>>, !.top = NoScore]
    BY Zenon DEF RetrievalOnly, OrderedPack
  <2>2. Pool(r) = p
    BY <1>3
  <2>3. Assembled(Scored(Pool(r), [k \in DOMAIN Pool(r) |-> PlaceScore(Pool(r), k)]),
                  r.memories, IF r.chars > Heading THEN r.chars - Heading ELSE 0, 0) = whole
    BY <1>5, <1>7, <1>8, <1>9, <1>10, <2>2, Zenon
  <2>4. QED
    BY <2>1, <2>3, Zenon
<1>13. pack.ids = whole.ids /\ pack.scores = <<>> /\ pack.top = NoScore
  <2>1. whole = EmptyPack \/ whole \in PackOf(J)
    BY <1>11 DEF ShowsStart
  <2>2. CASE whole = EmptyPack
    BY <1>12, <2>2 DEF EmptyPack
  <2>3. CASE whole \in PackOf(J)
    BY <1>12, <2>3 DEF PackOf
  <2>4. QED
    BY <2>1, <2>2, <2>3
<1>14. pack.ids = [k \in DOMAIN pack.ids |-> pool[k].id]
  <2>1. PICK ids : ids = whole.ids
    OBVIOUS
  <2>2. ids = [k \in DOMAIN ids |-> ids[k]] /\ \A k \in DOMAIN ids : ids[k] = pool[k].id
    BY <1>3, <1>11, <2>1 DEF ShowsStart
  <2>3. ids = [k \in DOMAIN ids |-> pool[k].id]
    BY <2>2
  <2>4. QED
    BY <1>13, <2>1, <2>3
<1>15. QED
  BY <1>13, <1>14

\* A pack whose best memory passes the floor says something and leaves out
\* nothing that scores more, and without the reranker a pack keeps the order of
\* the pool and shows no scores, in every state (PacksSound).
THEOREM PacksStaySound == Spec => []PacksSound
<1>1. IInv => PacksSound
  BY PacksSpeak, OrderKept DEF PacksSound
<1>2. QED
  BY <1>1, SpecIInv, PTL

-----------------------------------------------------------------------------
(* The vectors that searches compare with: SemanticIndex, whose specification is *)
(* IndexSpec.                                                                    *)

\* The inductive invariant.  OneModel needs all of it: RememberVectors and Ingest add
\* vectors of the active model only because what is there is of that model,
\* Prune keeps IndexMirrors because chunks are not memories (IndexTypeOK).
IndexInv == IndexTypeOK /\ OneModel /\ IndexMirrors /\ OneTokenModel /\ NoOrphanVectors

\* Every vector of a batch has an owner in the batch and the model of the batch.
LEMMA VectorsFields ==
  ASSUME NEW owners, NEW m
  PROVE  \A v : v \in Vectors(owners, m)
                  <=> /\ v \in [of : owners, model : {m}]
                      /\ m # None
BY DEF Vectors

\* The empty store satisfies the invariant.
LEMMA IndexInvInit == IndexInit => IndexInv
BY SemanticAssumption
   DEF IndexInit, IndexInv, IndexTypeOK, OneModel, IndexMirrors, OneTokenModel, NoOrphanVectors,
       MemoryVectors, MemoryIds, Idle

-----------------------------------------------------------------------------
(* One lemma per group of actions *)

\* A write with a vector is admitted only for the active model, so the vectors
\* of a store stay of one model.
LEMMA RememberStep ==
  ASSUME IndexInv, count < MaxWritten,
         NEW m \in Models \cup {None}, NEW t \in TokenModels \cup {None},
         RememberVectors(m, t)
  PROVE  IndexInv'
<1> USE SemanticAssumption
<1>1. /\ count \in Nat /\ count' = count + 1 /\ count' \in 0..MaxWritten
      /\ NewId = count' /\ NewId \in MemoryIds' /\ MemoryIds \subseteq MemoryIds' /\ MemoryIds' \subseteq Nat
  BY DEF IndexInv, IndexTypeOK, RememberVectors, NewId, MemoryIds
<1>2. /\ m # None => model' = m
      /\ model # None => model' = model
      /\ model' \in Models \cup {None}
  BY DEF IndexInv, IndexTypeOK, RememberVectors, Admits, Settled
<1>3. /\ t # None => tokenModel' = t
      /\ tokenModel # None => tokenModel' = tokenModel
      /\ tokenModel' \in TokenModels \cup {None}
  BY DEF IndexInv, IndexTypeOK, RememberVectors, AdmitsTokens, SettledTokens
<1>4. \A v \in Vectors({NewId}, m) :
        v \in [of : MemoryIds', model : Models] /\ v.model = model' /\ v.of \in Nat
  BY <1>1, <1>2, VectorsFields
<1>5. \A v \in Vectors({NewId}, t) :
        v \in [of : MemoryIds', model : TokenModels] /\ v.model = tokenModel'
  BY <1>1, <1>3, VectorsFields
<1>6. IndexTypeOK'
  <2>1. active' \subseteq MemoryIds' /\ chunks' \subseteq Chunks
    BY <1>1 DEF IndexInv, IndexTypeOK, RememberVectors
  <2>2. embeddings' \subseteq [of : MemoryIds' \cup chunks', model : Models]
    BY <1>1, <1>4 DEF IndexInv, IndexTypeOK, RememberVectors
  <2>3. memVec' \subseteq [of : MemoryIds', model : Models]
    BY <1>1, <1>4 DEF IndexInv, IndexTypeOK, RememberVectors
  <2>4. tokenEmbeddings' \subseteq [of : MemoryIds', model : TokenModels]
    BY <1>1, <1>5 DEF IndexInv, IndexTypeOK, RememberVectors
  <2>5. job' \in [Jobs -> {Idle} \cup ReembedJobs' \cup BackfillJobs']
    BY <1>1 DEF IndexInv, IndexTypeOK, RememberVectors, ReembedJobs, BackfillJobs
  <2> QED
    BY <1>1, <1>2, <1>3, <2>1, <2>2, <2>3, <2>4, <2>5
    DEF IndexInv, IndexTypeOK, RememberVectors, Idle
<1>7. OneModel'
  <2>1. \A v \in embeddings \cup memVec : v.model = model'
    BY <1>2 DEF IndexInv, IndexTypeOK, OneModel
  <2> QED
    BY <1>4, <2>1 DEF OneModel, RememberVectors
<1>8. IndexMirrors'
  BY <1>4 DEF IndexInv, IndexMirrors, MemoryVectors, RememberVectors
<1>9. OneTokenModel'
  BY <1>3, <1>5 DEF IndexInv, IndexTypeOK, OneTokenModel, RememberVectors
<1>10. NoOrphanVectors'
  BY DEF IndexInv, NoOrphanVectors, RememberVectors
<1> QED
  BY <1>6, <1>7, <1>8, <1>9, <1>10 DEF IndexInv

\* An ingest is admitted under the same rule, and its vectors go to the
\* projection of the documents.
LEMMA IngestStep ==
  ASSUME IndexInv, NEW request \in SUBSET Chunks, NEW m \in Models \cup {None},
         Ingest(request, m)
  PROVE  IndexInv'
<1> USE SemanticAssumption
<1> DEFINE created == request \ chunks
<1>1. /\ created # {} /\ m # None => model' = m
      /\ created = {} \/ model # None => model' = model
      /\ model' \in Models \cup {None}
  BY DEF IndexInv, IndexTypeOK, Ingest, Admits, Settled
<1>2. /\ chunks' = chunks \cup request /\ created \subseteq chunks'
      /\ chunks' \subseteq Chunks
      /\ embeddings' = embeddings \cup Vectors(created, m)
      /\ docVec' = docVec \cup Vectors(created, m)
      /\ UNCHANGED <<memoryVars, memVec, tokenVars, job>>
  BY DEF IndexInv, IndexTypeOK, Ingest
<1> HIDE DEF created
<1>3. \A v \in Vectors(created, m) :
        /\ v \in [of : chunks', model : Models] /\ v \in [of : Chunks, model : Models]
        /\ v.model = model' /\ v.of \notin Nat
  BY <1>1, <1>2, VectorsFields
<1>4. IndexTypeOK'
  BY <1>1, <1>2, <1>3
  DEF IndexInv, IndexTypeOK, memoryVars, tokenVars, MemoryIds, ReembedJobs, BackfillJobs, Idle
<1>5. OneModel'
  BY <1>1, <1>2, <1>3 DEF IndexInv, IndexTypeOK, OneModel
<1>6. IndexMirrors'
  BY <1>2, <1>3 DEF IndexInv, IndexMirrors, MemoryVectors
<1>7. OneTokenModel' /\ NoOrphanVectors'
  BY <1>2, <1>3 DEF IndexInv, OneTokenModel, NoOrphanVectors, tokenVars
<1> QED
  BY <1>4, <1>5, <1>6, <1>7 DEF IndexInv

\* A prune takes the vectors of its chunks from both tables.
LEMMA PruneStep ==
  ASSUME IndexInv, NEW request \in SUBSET Chunks, Prune(request)
  PROVE  IndexInv'
<1> USE SemanticAssumption
<1>1. IndexTypeOK'
  <2>1. /\ embeddings' \subseteq [of : MemoryIds' \cup chunks', model : Models]
        /\ docVec' \subseteq [of : Chunks, model : Models]
        /\ chunks' \subseteq Chunks
    BY DEF IndexInv, IndexTypeOK, Prune, PrunedIndex, memoryVars, MemoryIds
  <2> QED
    BY <2>1 DEF IndexInv, IndexTypeOK, Prune, memoryVars, tokenVars, MemoryIds, ReembedJobs, BackfillJobs, Idle
<1>2. OneModel' /\ OneTokenModel' /\ NoOrphanVectors'
  BY DEF IndexInv, OneModel, OneTokenModel, NoOrphanVectors, Prune, PrunedIndex, tokenVars
<1>3. IndexMirrors'
  BY DEF IndexInv, IndexMirrors, MemoryVectors, Prune
<1> QED
  BY <1>1, <1>2, <1>3 DEF IndexInv

\* Where the projection mirrors the table, rebuilding it changes nothing.
LEMMA ReprojectedMirrors ==
  ASSUME IndexInv, RebuildReads
  PROVE  /\ Reprojected(memVec) = memVec
         /\ Reprojected({}) = memVec
<1> USE SemanticAssumption
<1>1. memVec = embeddings
  BY DEF IndexInv, IndexMirrors, RebuildReads
<1>2. \A v \in memVec : ~(\A e \in embeddings : e.of = v.of => Dims[e.model] # Dims[v.model])
  BY <1>1
<1> QED
  BY <1>1, <1>2 DEF Reprojected

\* A rebuild reads the rows of memories only: it writes what IndexMirrors says.
LEMMA RebuildStep ==
  ASSUME IndexInv, Reindex \/ Reload
  PROVE  IndexInv'
<1> USE SemanticAssumption
<1>1. /\ memVec' = memVec
      /\ docVec' \subseteq docVec /\ tokenEmbeddings' \subseteq tokenEmbeddings
      /\ UNCHANGED <<memoryVars, chunks, embeddings, model, tokenModel, job>>
  BY ReprojectedMirrors DEF Reindex, Reload, tokenVars
<1> QED
  BY <1>1 DEF IndexInv, IndexTypeOK, OneModel, IndexMirrors, OneTokenModel, NoOrphanVectors,
              MemoryVectors, memoryVars, MemoryIds, ReembedJobs, BackfillJobs, Idle

\* The second half of a re-embed replaces every vector and the active model
\* together, so what was collected under another model does no harm.
LEMMA EndReembedStep ==
  ASSUME IndexInv, NEW j \in Jobs, EndReembed(j)
  PROVE  IndexInv'
<1> USE SemanticAssumption
<1> DEFINE written == Vectors(job[j].targets, job[j].model)
<1>1. job[j].model \in Models /\ job[j].targets \subseteq MemoryIds /\ MemoryIds \subseteq Nat
  BY DEF IndexInv, IndexTypeOK, EndReembed, Idle, ReembedJobs, BackfillJobs, MemoryIds
<1>2. /\ embeddings' = written /\ memVec' = written /\ model' = job[j].model
      /\ job' = [job EXCEPT ![j] = Idle]
      /\ UNCHANGED <<memoryVars, chunks, docVec, tokenVars>>
  BY DEF EndReembed, MemVecAfterReembed
<1>3. \A v \in written :
        v \in [of : MemoryIds, model : Models] /\ v.model = model' /\ v.of \in Nat
  <2> DEFINE targets == job[j].targets
             m == job[j].model
  <2>1. m \in Models /\ targets \subseteq MemoryIds /\ MemoryIds \subseteq Nat /\ model' = m
    BY <1>1, <1>2
  <2> HIDE DEF targets, m
  <2>2. \A v \in Vectors(targets, m) :
          v \in [of : MemoryIds, model : Models] /\ v.model = m /\ v.of \in Nat
    <3>1. Vectors(targets, m) \subseteq [of : targets, model : {m}]
      BY VectorsFields
    <3> QED
      BY <2>1, <3>1
  <2> QED
    BY <2>1, <2>2 DEF targets, m
<1> HIDE DEF written
<1>4. IndexTypeOK'
  <2>1. job' \in [Jobs -> {Idle} \cup ReembedJobs' \cup BackfillJobs']
    BY <1>2 DEF IndexInv, IndexTypeOK, ReembedJobs, BackfillJobs, MemoryIds, memoryVars
  <2> QED
    BY <1>1, <1>2, <1>3, <2>1 DEF IndexInv, IndexTypeOK, memoryVars, tokenVars, MemoryIds, Idle
<1>5. OneModel' /\ IndexMirrors'
  BY <1>2, <1>3 DEF OneModel, IndexMirrors, MemoryVectors
<1>6. OneTokenModel' /\ NoOrphanVectors'
  BY <1>2 DEF IndexInv, OneTokenModel, NoOrphanVectors, tokenVars
<1> QED
  BY <1>4, <1>5, <1>6 DEF IndexInv

\* The second half of a backfill is refused or resets the table when another
\* process switched the model since the first.
LEMMA EndBackfillStep ==
  ASSUME IndexInv, NEW j \in Jobs, EndBackfill(j)
  PROVE  IndexInv'
<1> USE SemanticAssumption
<1> DEFINE b == job[j]
           written == Vectors(b.targets, b.model)
           left == TokensLeft(b.targets, b.force)
<1>1. b.model \in TokenModels /\ b.targets \subseteq MemoryIds /\ b.force \in BOOLEAN
  BY DEF IndexInv, IndexTypeOK, EndBackfill, Idle, ReembedJobs, BackfillJobs
<1>2. /\ b.force \/ AdmitsTokens(b.model)
      /\ tokenEmbeddings' = left \cup written /\ tokenModel' = b.model
      /\ job' = [job EXCEPT ![j] = Idle]
      /\ UNCHANGED <<memoryVars, chunks, vectorVars>>
  BY DEF EndBackfill
<1>3. \A v \in written : v \in [of : MemoryIds, model : TokenModels] /\ v.model = b.model
  BY <1>1, VectorsFields
<1>4. left \subseteq tokenEmbeddings /\ (b.force => left = {})
  BY DEF TokensLeft
<1> HIDE DEF b, written, left
<1>5. \A v \in left : v.model = b.model
  BY <1>1, <1>2, <1>4 DEF IndexInv, IndexTypeOK, OneTokenModel, AdmitsTokens
<1>6. IndexTypeOK'
  <2>1. job' \in [Jobs -> {Idle} \cup ReembedJobs' \cup BackfillJobs']
    BY <1>2 DEF IndexInv, IndexTypeOK, ReembedJobs, BackfillJobs, MemoryIds, memoryVars
  <2> QED
    BY <1>1, <1>2, <1>3, <1>4, <2>1 DEF IndexInv, IndexTypeOK, memoryVars, vectorVars, MemoryIds, Idle
<1>7. OneTokenModel'
  BY <1>2, <1>3, <1>5 DEF OneTokenModel
<1>8. OneModel' /\ IndexMirrors' /\ NoOrphanVectors'
  BY <1>2 DEF IndexInv, OneModel, IndexMirrors, NoOrphanVectors, MemoryVectors, vectorVars
<1> QED
  BY <1>6, <1>7, <1>8 DEF IndexInv

\* The actions that move no vector: a retirement, and a job that begins or is
\* given up.
LEMMA OtherStep ==
  ASSUME IndexInv,
         \/ \E i \in active : RetireOwner(i)
         \/ \E j \in Jobs : \/ \E m \in Models : BeginReembed(j, m)
                            \/ \E t \in TokenModels, force \in BOOLEAN :
                                 BeginBackfill(j, t, force)
                            \/ Abandon(j)
         \/ UNCHANGED indexVars
  PROVE  IndexInv'
<1> USE SemanticAssumption
<1>1. /\ UNCHANGED <<count, chunks, vectorVars, tokenVars>>
      /\ active' \subseteq active
  BY DEF RetireOwner, BeginReembed, BeginBackfill, Abandon, indexVars, memoryVars
<1>2. job' \in [Jobs -> {Idle} \cup ReembedJobs \cup BackfillJobs]
  <2>1. CASE \E j \in Jobs, m \in Models : BeginReembed(j, m)
    BY <2>1 DEF IndexInv, IndexTypeOK, BeginReembed, ReembedJobs
  <2>2. CASE \E j \in Jobs, t \in TokenModels, force \in BOOLEAN : BeginBackfill(j, t, force)
    <3>1. PICK j \in Jobs, t \in TokenModels, force \in BOOLEAN : BeginBackfill(j, t, force)
      BY <2>2
    <3> DEFINE targets == IF force THEN active
                          ELSE {i \in active : \A v \in tokenEmbeddings : v.of # i}
    <3>2. targets \in SUBSET MemoryIds
      BY DEF IndexInv, IndexTypeOK
    <3>3. job' = [job EXCEPT ![j] =
                    [task |-> "tokens", model |-> t, force |-> force, targets |-> targets]]
      BY <3>1 DEF BeginBackfill
    <3> HIDE DEF targets
    <3> QED
      BY <3>2, <3>3 DEF IndexInv, IndexTypeOK, BackfillJobs
  <2>3. CASE \E j \in Jobs : Abandon(j)
    BY <2>3 DEF IndexInv, IndexTypeOK, Abandon
  <2>4. CASE (\E i \in active : RetireOwner(i)) \/ UNCHANGED indexVars
    BY <2>4 DEF IndexInv, IndexTypeOK, RetireOwner, indexVars
  <2> QED
    BY <2>1, <2>2, <2>3, <2>4
<1> QED
  BY <1>1, <1>2 DEF IndexInv, IndexTypeOK, OneModel, IndexMirrors, OneTokenModel, NoOrphanVectors,
                    MemoryVectors, vectorVars, tokenVars, MemoryIds, ReembedJobs, BackfillJobs, Idle

-----------------------------------------------------------------------------
(* The theorems *)

\* Every step keeps the invariant.
LEMMA IndexInvNext == IndexInv /\ [IndexNext]_indexVars => IndexInv'
<1> SUFFICES ASSUME IndexInv, [IndexNext]_indexVars PROVE IndexInv'
  OBVIOUS
<1>1. CASE \E m \in Models \cup {None}, t \in TokenModels \cup {None} :
             count < MaxWritten /\ RememberVectors(m, t)
  BY <1>1, RememberStep
<1>2. CASE \E request \in SUBSET Chunks, m \in Models \cup {None} : Ingest(request, m)
  BY <1>2, IngestStep
<1>3. CASE \E request \in SUBSET Chunks : Prune(request)
  BY <1>3, PruneStep
<1>4. CASE Reindex \/ Reload
  BY <1>4, RebuildStep
<1>5. CASE \E j \in Jobs : EndReembed(j)
  BY <1>5, EndReembedStep
<1>6. CASE \E j \in Jobs : EndBackfill(j)
  BY <1>6, EndBackfillStep
<1>7. CASE \/ \E i \in active : RetireOwner(i)
           \/ \E j \in Jobs : \/ \E m \in Models : BeginReembed(j, m)
                              \/ \E t \in TokenModels, force \in BOOLEAN :
                                   BeginBackfill(j, t, force)
                              \/ Abandon(j)
           \/ UNCHANGED indexVars
  BY <1>7, OtherStep
<1> QED
  BY <1>1, <1>2, <1>3, <1>4, <1>5, <1>6, <1>7 DEF IndexNext

\* The invariant holds in every reachable state.
LEMMA IndexInvariance == IndexSpec => []IndexInv
<1>1. IndexInit => IndexInv
  BY IndexInvInit
<1>2. IndexInv /\ [IndexNext]_indexVars => IndexInv'
  BY IndexInvNext
<1> QED
  BY <1>1, <1>2, PTL DEF IndexSpec

\* Memories are never searched by vectors of two models, however many re-embeds
\* to however many models race the writers.
THEOREM VectorsOfOneModel == IndexSpec => []OneModel
<1>1. IndexInv => OneModel
  BY DEF IndexInv
<1> QED
  BY <1>1, IndexInvariance, PTL

\* The sqlite-vec tables of the memories always repeat the embeddings table.
THEOREM IndexAlwaysMirrors == IndexSpec => []IndexMirrors
<1>1. IndexInv => IndexMirrors
  BY DEF IndexInv
<1> QED
  BY <1>1, IndexInvariance, PTL

\* The token matrices are always of the model the store records.
THEOREM TokensOfOneModel == IndexSpec => []OneTokenModel
<1>1. IndexInv => OneTokenModel
  BY DEF IndexInv
<1> QED
  BY <1>1, IndexInvariance, PTL

\* A prune leaves nothing of its chunks for document search, whatever re-embeds
\* passed over the document tables before.
THEOREM NoOrphans == IndexSpec => []NoOrphanVectors
<1>1. IndexInv => NoOrphanVectors
  BY DEF IndexInv
<1> QED
  BY <1>1, IndexInvariance, PTL

\* Whatever memories are compared with, vectors in either table or token
\* matrices, is of one model for every number of memories, models and
\* maintenance jobs in flight.
THEOREM ModelsAlwaysKept == IndexSpec => []ModelsKept
<1>1. IndexInv => ModelsKept
  BY DEF IndexInv, ModelsKept
<1> QED
  BY <1>1, IndexInvariance, PTL

\* The search tables never hold a row that the table they project lacks, across
\* writers, prunes, re-embeds, backfills, reindexes and reloads.
THEOREM IndexesAlwaysSound == IndexSpec => []IndexesSound
<1>1. IndexInv => IndexesSound
  BY DEF IndexInv, IndexesSound
<1> QED
  BY <1>1, IndexInvariance, PTL

-----------------------------------------------------------------------------
(* What a re-embed may do *)

\* A step that takes the store from an index of the documents in its model to
\* one that is not is the second half of a re-embed to another model.
LEMMA SplitStep ==
  ASSUME IndexInv, [IndexNext]_indexVars, \A v \in docVec : v.model = model,
         \E v \in docVec' : v.model # model'
  PROVE  \E j \in Jobs : EndReembed(j) /\ job[j].model # model
<1> USE SemanticAssumption
<1>1. ASSUME docVec' \subseteq docVec, model' = model PROVE FALSE
  BY <1>1
<1>2. ASSUME NEW v \in docVec PROVE v.model = model /\ model \in Models /\ model # None
  BY DEF IndexInv, IndexTypeOK
<1>3. CASE \E m \in Models \cup {None}, t \in TokenModels \cup {None} : RememberVectors(m, t)
  <2>1. docVec' = docVec /\ (model # None => model' = model)
    BY <1>3 DEF RememberVectors, Settled
  <2> QED
    BY <1>2, <2>1
<1>4. CASE \E request \in SUBSET Chunks, m \in Models \cup {None} : Ingest(request, m)
  <2>1. PICK request \in SUBSET Chunks, m \in Models \cup {None} : Ingest(request, m)
    BY <1>4
  <2> DEFINE created == request \ chunks
  <2>2. /\ docVec' = docVec \cup Vectors(created, m)
        /\ created # {} /\ m # None => model' = m
        /\ created = {} \/ model # None => model' = model
    BY <2>1 DEF IndexInv, IndexTypeOK, Ingest, Admits, Settled
  <2> HIDE DEF created
  <2>3. \A v \in Vectors(created, m) : v.model = model'
    BY <2>2, VectorsFields
  <2> QED
    BY <1>2, <2>2, <2>3
<1>5. CASE \E j \in Jobs : EndReembed(j)
  <2>1. PICK j \in Jobs : EndReembed(j)
    BY <1>5
  <2>2. docVec' = docVec /\ model' = job[j].model
    BY <2>1 DEF EndReembed
  <2> QED
    BY <1>1, <2>1, <2>2
<1>6. CASE \/ \E i \in active : RetireOwner(i)
           \/ \E request \in SUBSET Chunks : Prune(request)
           \/ Reindex \/ Reload
           \/ \E j \in Jobs : \/ \E m \in Models : BeginReembed(j, m)
                              \/ \E t \in TokenModels, force \in BOOLEAN :
                                   BeginBackfill(j, t, force)
                              \/ EndBackfill(j) \/ Abandon(j)
           \/ UNCHANGED indexVars
  <2>1. docVec' \subseteq docVec /\ model' = model
    BY <1>6 DEF RetireOwner, Prune, PrunedIndex, Reindex, Reload, BeginReembed, BeginBackfill,
                EndBackfill, Abandon, indexVars, vectorVars
  <2> QED
    BY <1>1, <2>1
<1> QED
  BY <1>3, <1>4, <1>5, <1>6 DEF IndexNext

\* Document search compares vectors of two models only after a re-embed switched
\* the model: no writer, prune, reindex, reload or backfill ever splits the index.
THEOREM OnlyReembedsSplitDocuments == IndexSpec => DocumentsSplitByReembed
<1>1. IndexInv /\ [IndexNext]_indexVars =>
        [(\A v \in docVec : v.model = model) /\ (\E v \in docVec' : v.model # model')
           => \E j \in Jobs : EndReembed(j) /\ job[j].model # model]_indexVars
  BY SplitStep
<1> QED
  BY <1>1, IndexInvariance, PTL DEF IndexSpec, DocumentsSplitByReembed

\* The active memories that a re-embed did not collect were written after it
\* collected: ids only grow, and nothing that is retired is active again.
CollectedFirst ==
  \A j \in Jobs : job[j].task = "embed" =>
    \A i \in active \ job[j].targets, t \in job[j].targets : t < i

LEMMA CollectedFirstNext ==
  ASSUME IndexInv, CollectedFirst, [IndexNext]_indexVars
  PROVE  CollectedFirst'
<1> USE SemanticAssumption
<1>1. SUFFICES ASSUME NEW j \in Jobs, job'[j].task = "embed",
                      NEW i \in active' \ job'[j].targets, NEW t \in job'[j].targets
               PROVE  t < i
  BY DEF CollectedFirst
<1>2. job \in [Jobs -> {Idle} \cup ReembedJobs \cup BackfillJobs] /\ active \subseteq MemoryIds
  BY DEF IndexInv, IndexTypeOK
<1>3. CASE \E m \in Models \cup {None}, s \in TokenModels \cup {None} : RememberVectors(m, s)
  <2>1. /\ job' = job /\ active' \subseteq active \cup {count + 1}
        /\ count \in Nat
    BY <1>3 DEF IndexInv, IndexTypeOK, RememberVectors, NewId
  <2>2. job[j] \in ReembedJobs
    BY <1>1, <1>2, <2>1 DEF Idle, BackfillJobs
  <2>3. t \in 1..count
    BY <1>1, <2>1, <2>2 DEF ReembedJobs, MemoryIds
  <2> QED
    BY <1>1, <2>1, <2>3 DEF CollectedFirst
<1>4. CASE \E k \in Jobs, m \in Models : BeginReembed(k, m)
  <2>1. PICK k \in Jobs, m \in Models : BeginReembed(k, m)
    BY <1>4
  <2>2. /\ active' = active
        /\ job' = [job EXCEPT ![k] = [task |-> "embed", model |-> m, targets |-> active]]
    BY <2>1 DEF BeginReembed, memoryVars
  <2>3. CASE j = k
    BY <1>1, <1>2, <2>2, <2>3
  <2>4. CASE j # k
    BY <1>1, <1>2, <2>2, <2>4 DEF CollectedFirst
  <2> QED
    BY <2>3, <2>4
<1>5. CASE \/ \E k \in active : RetireOwner(k)
           \/ \E request \in SUBSET Chunks : \/ Prune(request)
                                             \/ \E m \in Models \cup {None} : Ingest(request, m)
           \/ Reindex \/ Reload
           \/ UNCHANGED indexVars
  <2>1. job' = job /\ active' \subseteq active
    BY <1>5 DEF RetireOwner, Prune, Ingest, Reindex, Reload, indexVars, memoryVars
  <2> QED
    BY <1>1, <2>1 DEF CollectedFirst
<1>6. CASE \E k \in Jobs : \/ \E s \in TokenModels, force \in BOOLEAN : BeginBackfill(k, s, force)
                           \/ EndReembed(k) \/ EndBackfill(k) \/ Abandon(k)
  <2>1. PICK k \in Jobs : \/ \E s \in TokenModels, force \in BOOLEAN : BeginBackfill(k, s, force)
                          \/ EndReembed(k) \/ EndBackfill(k) \/ Abandon(k)
    BY <1>6
  <2>2. active' = active
    BY <2>1 DEF BeginBackfill, EndReembed, EndBackfill, Abandon, memoryVars
  <2>3. j # k /\ job'[j] = job[j]
    <3>1. job'[k].task # "embed" /\ \A l \in Jobs \ {k} : job'[l] = job[l]
      <4>1. CASE EndReembed(k) \/ EndBackfill(k) \/ Abandon(k)
        BY <1>2, <4>1 DEF EndReembed, EndBackfill, Abandon, Idle
      <4>2. CASE \E s \in TokenModels, force \in BOOLEAN : BeginBackfill(k, s, force)
        BY <1>2, <4>2 DEF BeginBackfill
      <4> QED
        BY <2>1, <4>1, <4>2
    <3> QED
      BY <1>1, <3>1
  <2> QED
    BY <1>1, <2>2, <2>3 DEF CollectedFirst
<1> QED
  BY <1>3, <1>4, <1>5, <1>6 DEF IndexNext

\* Every memory that is active and was collected has a vector after the re-embed.
LEMMA ReembedStep ==
  ASSUME IndexInv, CollectedFirst, NEW j \in Jobs, EndReembed(j),
         NEW i \in active, NEW t \in job[j].targets,
         \A v \in embeddings' : v.of # i
  PROVE  t < i
<1> USE SemanticAssumption
<1> DEFINE m == job[j].model
           targets == job[j].targets
<1>1. embeddings' = Vectors(targets, m) /\ job[j].task = "embed"
  BY DEF EndReembed
<1>2. m \in Models /\ m # None
  BY <1>1 DEF IndexInv, IndexTypeOK, Idle, ReembedJobs, BackfillJobs
<1>3. i \notin targets
  <2> HIDE DEF m, targets
  <2>1. SUFFICES ASSUME i \in targets PROVE FALSE
    OBVIOUS
  <2>2. [of |-> i, model |-> m] \in Vectors(targets, m)
    BY <1>2, <2>1, VectorsFields
  <2> QED
    BY <1>1, <2>2
<1> QED
  BY <1>1, <1>3 DEF CollectedFirst

\* A re-embed that ran for as long as it took, beside writers and other
\* re-embeds, leaves no vector of an older active memory out.
THEOREM ReembedsMissOnlyNewcomers == IndexSpec => ReembedMissesNewcomersOnly
<1>1. IndexInit => CollectedFirst
  BY DEF IndexInit, CollectedFirst
<1>2. IndexInv /\ CollectedFirst /\ [IndexNext]_indexVars => CollectedFirst'
  BY CollectedFirstNext
<1>3. IndexInv /\ CollectedFirst /\ [IndexNext]_indexVars =>
        [\A j \in Jobs : EndReembed(j) =>
           \A i \in active, t \in job[j].targets :
             (\A v \in embeddings' : v.of # i) => t < i]_indexVars
  BY ReembedStep
<1> QED
  BY <1>1, <1>2, <1>3, IndexInvariance, PTL DEF IndexSpec, ReembedMissesNewcomersOnly
==============================================================================
