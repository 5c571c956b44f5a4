------------------------------ MODULE Retrieval -------------------------------
(***************************************************************************)
(* What `search` and `pack` answer: the lexical, semantic and late-        *)
(* interaction arms over memories, the pool they are merged into, the      *)
(* evidence the routing relationships join to it, and the pack a reranker, *)
(* or its absence, makes of it; while memories are written, retired, lapse *)
(* and are dreamt over.                                                    *)
(*                                                                         *)
(* A read runs in one snapshot of the store, so the answers are operators  *)
(* of a state.  What the models and SQLite compute of a query and a text   *)
(* is the constant Of; scores are in hundredths.  Memory and relationship  *)
(* ids are positions.                                                      *)
(***************************************************************************)
EXTENDS Rankings, Integers

CONSTANTS
  Spaces, Keys, Texts, Queries,
  Entities,     \* the active entities, which EntityGraph maintains: [space, key]
  Mentions,     \* the entity keys a query names, in the order of its spans
  Of,           \* query, text: bm25 (negated), distance, maxsim, rerank
  Terms,        \* the words of a query
  Stopwords,
  Variants,     \* a word with its stems
  Words,        \* the words of a text
  Starts,       \* pairs: a prefixable word, and a word that starts with it
  Size,         \* the length of the pack line of a text
  Heading,      \* the length of the heading of a retrieval-only pack
  Overhead,     \* the shortest truncated entry, less one
  PoolFactor, PoolFloor, \* candidate_pool_limit: max(4 * limit, limit + 32), to a most
  MaxQueryLimit,\* MAX_BATCH_QUERY_LIMIT
  MaxLimit,     \* MAX_SEARCH_LIMIT
  Decay,        \* graph_decay is 1 / Decay
  Writes,       \* the remembers of the callers, by the position they get
  Searches, Packs, \* the requests of the callers
  MaxMemories

NoKey == 0
NoEdge == <<>>
NoScore == 0 - 1000

SearchRequest ==
  [query : Queries, spaces : SUBSET Spaces, limit : 1..MaxLimit, offset : Nat,
   dense : BOOLEAN, tokens : BOOLEAN, shortlist : Nat, rerank : Nat]
PackRequest ==
  [queries : Seq(Queries) \ {<<>>}, spaces : SUBSET Spaces, memories : Nat \ {0},
   chars : Nat \ {0}, floor : Int,
   rerank : Nat, dense : BOOLEAN, tokens : BOOLEAN, shortlist : Nat, seeds : Nat,
   neighbors : Nat]
RememberRequest ==
  [space : Spaces, key : Keys \cup {NoKey}, text : Texts, boost : Nat, pinned : BOOLEAN,
   until : {"none", "valid_to", "expires_at"}, vector : BOOLEAN, tokens : BOOLEAN,
   edge : {NoEdge} \cup (Keys \X Keys)]

ASSUME RetrievalAssumption ==
  /\ Keys \subseteq Nat \ {0} /\ Entities \subseteq [space : Spaces, key : Keys]
  /\ Mentions \in [Queries -> Seq(Keys)]
  /\ Of \in [Queries -> [Texts -> [bm25 : Nat, distance : Nat,
                                   maxsim : Nat, rerank : Int]]]
  /\ \A query \in Queries : \A word \in Terms[query] : word \in Variants[word]
  /\ Size \in [Texts -> Nat] /\ {Heading, Overhead, PoolFloor, MaxMemories} \subseteq Nat
  /\ {PoolFactor, MaxQueryLimit, MaxLimit, Decay} \subseteq Nat \ {0}
  /\ Writes \in [1..MaxMemories -> SUBSET RememberRequest]
  /\ Searches \subseteq SearchRequest /\ Packs \subseteq PackRequest

VARIABLES
  mem,      \* table memories, with its vector rows
  lapsed,   \* the memories whose valid_to or expires_at has passed
  rels,     \* table relationships
  tokens    \* the memories with a row in table memory_token_embeddings

vars == <<mem, lapsed, rels, tokens>>

Active(i) == mem[i].status = "active"

MemoryRow ==
  [space : Spaces, key : Keys \cup {NoKey}, text : Texts, boost : Nat, pinned : BOOLEAN,
   until : {"none", "valid_to", "expires_at"}, vector : BOOLEAN, status : {"active", "retired"}]
RelationshipRow ==
  [space : Spaces, subject : Keys, object : Keys, memory : Nat, status : {"active", "tombstoned"}]

TypeOK ==
  /\ mem \in Seq(MemoryRow)
  /\ lapsed \subseteq {i \in DOMAIN mem : mem[i].until # "none"}
  /\ rels \in Seq(RelationshipRow) /\ \A k \in DOMAIN rels : rels[k].memory \in DOMAIN mem
  /\ tokens \subseteq DOMAIN mem

Init == mem = <<>> /\ lapsed = {} /\ rels = <<>> /\ tokens = {}

-----------------------------------------------------------------------------
(* Filters *)

\* resolve_space_filter: no space is every space.
InScope(r, i) == r.spaces = {} \/ mem[i].space \in r.spaces

\* evidence_join_filters
JoinEligible(r) == {i \in DOMAIN mem : Active(i) /\ InScope(r, i)}

\* Mutant of Recalled: what has lapsed is recalled until dream removes it.
RecalledActive(r) == JoinEligible(r)

\* prepare_recall_filters: hide_expired
Recalled(r) == {i \in JoinEligible(r) : i \notin lapsed}

-----------------------------------------------------------------------------
(* The arms.  A hit is a memory with the score its arm gave it. *)

Hit(i, score) == [id |-> i, score |-> score]
Ids(hits) == {hits[k].id : k \in DOMAIN hits}
Rel(q, i) == Of[q][mem[i].text]

Larger(m, n) == IF m > n THEN m ELSE n
Smaller(m, n) == IF m < n THEN m ELSE n
PoolLimit(limit) ==
  Smaller(Larger(PoolFactor * limit, limit + PoolFloor), PoolFactor * MaxLimit)

\* LIMIT n OFFSET k
Page(s, n, k) == AtMost(n, SubSeq(s, k + 1, Len(s)))

\* The boosts of score_candidate that no arm changes: confidence, recency, source
\* tier and metadata in one number, and the pin and the status.
Boost(i) == mem[i].boost + 2 + (IF mem[i].pinned THEN 5 ELSE 0)

\* search_terms: a query of nothing but stop words keeps them.
TermsOf(q) == IF Terms[q] \subseteq Stopwords THEN Terms[q] ELSE Terms[q] \ Stopwords

\* search_term_expression over search_term_variants, with search_prefix_terms.
Holds(text, word) == Variants[word] \cap Words[text] # {}
Starting(text, word) == \E v \in Variants[word], w \in Words[text] : <<v, w>> \in Starts

\* The three MATCH queries of prepare_search_request: every term, every term or
\* what starts with it, any of several terms.
Matches(q, text, tier) ==
  CASE tier = 0 -> \A word \in TermsOf(q) : Holds(text, word)
    [] tier = 1 -> \A word \in TermsOf(q) : Holds(text, word) \/ Starting(text, word)
    [] tier = 2 -> Cardinality(TermsOf(q)) > 1 /\ \E word \in TermsOf(q) : Holds(text, word)

\* search_candidates: the matches of a tier, best bm25 first, inside the pool.
FtsRows(q, r, tier, limit, offset) ==
  LET before(i, j) == \/ Rel(q, i).bm25 > Rel(q, j).bm25
                      \/ Rel(q, i).bm25 = Rel(q, j).bm25 /\ Boost(i) > Boost(j)
                      \/ Rel(q, i).bm25 = Rel(q, j).bm25 /\ Boost(i) = Boost(j) /\ i > j
  IN  Page(Ordered({i \in Recalled(r) : Matches(q, mem[i].text, tier)}, before),
           PoolLimit(limit) + offset, offset)

\* score_candidate of what the MATCH queries found, and the order of
\* merge_search_candidates: the tier first, the score inside it.
Tiered(q, limit, exact, prefixed, any) ==
  LET found == exact \cup prefixed \cup any
      tier(i) == IF i \in exact THEN 0 ELSE IF i \in prefixed THEN 1 ELSE 2
      best == Max({0} \cup {Rel(q, i).bm25 : i \in found})
      score(i) == Boost(i) + (IF best = 0 THEN 0 ELSE (100 * Rel(q, i).bm25) \div best)
      before(i, j) == \/ tier(i) < tier(j)
                      \/ tier(i) = tier(j) /\ score(i) > score(j)
                      \/ tier(i) = tier(j) /\ score(i) = score(j) /\ i > j
  IN  Each(LAMBDA i : Hit(i, score(i)), AtMost(limit, Ordered(found, before)))

\* search_prepared without an embedding: the exact query, the prefixes when it
\* fills less than the limit, any of the terms when there is still nothing.
Lexical(q, r, limit, offset) ==
  LET rows(tier) == Range(FtsRows(q, r, tier, limit, offset))
      widened(exact) == IF Cardinality(exact) < limit THEN rows(1) ELSE {}
      last(exact, prefixed) == IF exact \cup prefixed = {} THEN rows(2) ELSE {}
      hits(exact, prefixed) == Tiered(q, limit, exact, prefixed, last(exact, prefixed))
  IN  hits(rows(0), widened(rows(0)))

\* score_semantic_candidate and the cut of semantic_ranked_report and
\* ann_search_for_pack, of ids with their distance.
Ranked(distance, limit) ==
  LET score(i) == Boost(i) + 10000 \div (100 + distance[i])
      before(i, j) == score(i) > score(j) \/ (score(i) = score(j) /\ i > j)
  IN  Each(LAMBDA i : Hit(i, score(i)), AtMost(limit, Ordered(DOMAIN distance, before)))

\* The KNN of semantic_search_sql and maxsim_shortlist_ids: among the rows of the
\* filters, and no others.
Nearest(q, ids) ==
  LET before(i, j) == \/ Rel(q, i).distance < Rel(q, j).distance
                      \/ Rel(q, i).distance = Rel(q, j).distance /\ i > j
  IN  Ordered({i \in ids : mem[i].vector}, before)

Semantic(q, r, limit, offset) ==
  LET near == Page(AtMost(PoolLimit(limit) + offset, Nearest(q, Recalled(r))),
                   PoolLimit(limit), offset)
  IN  Ranked([i \in Range(near) |-> Rel(q, i).distance], limit)

\* Mutant of Shortlist: what has no vector is dropped.
ShortlistNearest(q, ids, cap) == Range(AtMost(cap, Nearest(q, ids)))

\* maxsim_shortlist_ids
Shortlist(q, ids, cap) ==
  Range(AtMost(cap, Nearest(q, ids))) \cup {i \in ids : ~mem[i].vector}

\* maxsim_candidates; equal scores keep the order of the rows.
MaxSim(q, ids, limit) ==
  LET before(i, j) == \/ Rel(q, i).maxsim > Rel(q, j).maxsim
                      \/ Rel(q, i).maxsim = Rel(q, j).maxsim /\ i < j
  IN  Each(LAMBDA i : Hit(i, Rel(q, i).maxsim),
           AtMost(limit, Ordered(ids \cap tokens, before)))

\* ensure_semantic_table made the vector table with the first vector.
TableExists == \E i \in DOMAIN mem : mem[i].vector

\* What MaxSim may choose from when the request caps the exhaustive scan: the
\* shortlist needs the single vector of the query.
Scanned(q, r, limit) ==
  IF r.shortlist > 0 /\ Cardinality(Recalled(r)) > r.shortlist /\ r.dense /\ TableExists
  THEN Shortlist(q, Recalled(r), Larger(r.shortlist, limit)) ELSE Recalled(r)

\* semantic_candidates_late_interaction: MaxSim chooses, the distance of the
\* single vector orders; without one the distance is the largest.
LateInteraction(q, r, limit, offset) ==
  LET chosen == Ids(MaxSim(q, Scanned(q, r, limit + offset), limit + offset))
      distance(i) == IF mem[i].vector THEN Rel(q, i).distance ELSE 200
      before(i, j) == distance(i) < distance(j) \/ (distance(i) = distance(j) /\ i > j)
      near == Page(Ordered(chosen, before), PoolLimit(limit), offset)
  IN  Ranked([i \in Range(near) |-> distance(i)], limit)

-----------------------------------------------------------------------------
(* search *)

\* search_prepared: the semantic arm, and the lexical one when it finds nothing.
Searched(r, limit) ==
  LET primary == IF ~(r.dense /\ TableExists) THEN <<>>
                 ELSE IF r.tokens THEN LateInteraction(r.query, r, limit, r.offset)
                 ELSE Semantic(r.query, r, limit, r.offset)
  IN  IF primary # <<>> THEN primary ELSE Lexical(r.query, r, limit, r.offset)

\* execute_search: with a reranker the window is widened, ordered by the
\* cross-encoder, and cut to what was asked for.
Search(r) ==
  LET wide == Searched(r, Min({Larger(r.rerank, r.limit), MaxLimit}))
      before(k, n) == \/ Rel(r.query, wide[k].id).rerank > Rel(r.query, wide[n].id).rerank
                      \/ Rel(r.query, wide[k].id).rerank = Rel(r.query, wide[n].id).rerank /\ k < n
      order == AtMost(r.limit, Ordered(DOMAIN wide, before))
  IN  IF r.rerank = 0 THEN Searched(r, r.limit)
      ELSE Each(LAMBDA k : wide[k], order)

\* Mutant of CutAt: the row that was read ahead is shown.
CutAfter(limit, rows) == rows

CutAt(limit, rows) == AtMost(limit, rows)

\* list_memories: one row more than the limit is read, to know of more.
Listed(r, limit, offset) ==
  LET rows == Page(Ordered(JoinEligible(r), LAMBDA i, j : i > j), limit + 1, offset)
  IN  [ids |-> CutAt(limit, rows), truncated |-> Len(rows) > limit]

-----------------------------------------------------------------------------
(* The pool of pack before the graph                                         *)

\* The n-th entries of the lists, for n from one up.
RoundRobin(lists) ==
  LET nth(n) == EachIn(LAMBDA list : IF n <= Len(list) THEN <<list[n]>> ELSE <<>>, lists)
      longest == Max({0} \cup {Len(lists[k]) : k \in DOMAIN lists})
  IN  EachIn(nth, [n \in 1..longest |-> n])

\* The hits whose memory is not the memory of an earlier one.
FirstOfEach(hits) ==
  EntriesAt(hits, {n \in DOMAIN hits : \A k \in 1..(n - 1) : hits[k].id # hits[n].id})

\* The end of build_pack_pool_basic_on_connection, and interleave_pools.
Interleaved(lists, width) == AtMost(width, FirstOfEach(RoundRobin(lists)))

\* build_pack_pool_basic_on_connection, which calls ann_search_for_pack for a
\* query with an embedding.
Basic(r, dense, width) ==
  LET limit == Min({width, MaxQueryLimit})
      hits(q) == IF dense /\ TableExists THEN Semantic(q, r, limit, 0) ELSE Lexical(q, r, limit, 0)
  IN  Interleaved(Each(hits, r.queries), width)

\* The MaxSim leg of build_hybrid_rerank_pool_with_evidence_options.
MaxSimPool(r, width) ==
  LET hits(q) == MaxSim(q, Scanned(q, r, width), width) IN
  Interleaved(Each(hits, r.queries), width)

\* The two legs: MaxSim takes the place of the ANN, and the lexical leg stays.
Primary(r, width) ==
  IF r.tokens THEN MaxSimPool(r, width) ELSE Basic(r, r.dense, width)
Secondary(r, width) ==
  IF r.tokens \/ r.dense THEN Basic(r, FALSE, width) ELSE <<>>

\* merge_rerank_pools_with_trace, uncut.
Merged(r, width) == FirstOfEach(RoundRobin(<<Primary(r, width), Secondary(r, width)>>))

-----------------------------------------------------------------------------
(* The evidence join *)

Entity(space, key) == [space |-> space, key |-> key]

\* evidence_memory_seeds: the endpoints a memory of the pool supports, then the
\* entity it is attached to.
SeedsOf(hit) ==
  LET row == mem[hit.id]
      supported == UNION {{Entity(rels[k].space, rels[k].subject),
                           Entity(rels[k].space, rels[k].object)} :
                            k \in {n \in DOMAIN rels : rels[n].status = "active"
                                                         /\ rels[n].memory = hit.id}}
      byKey == Ordered(supported \cap Entities, LAMBDA a, b : a.key < b.key)
      attached == IF Entity(row.space, row.key) \in Entities
                  THEN <<Entity(row.space, row.key)>> ELSE <<>>
  IN  Each(LAMBDA e : [source |-> "memory", memory |-> hit.id, at |-> e, score |-> hit.score],
           byKey \o attached)

\* exact_entities_for_span and evidence_entity_seeds: a name that several
\* entities of the spaces answer to names none.
EntitySeeds(r) ==
  LET named(key) == {e \in Entities : e.key = key /\ (r.spaces = {} \/ e.space \in r.spaces)}
      seeds(key) == IF Cardinality(named(key)) # 1 THEN <<>>
                    ELSE <<[source |-> "entity", memory |-> 0, score |-> 100,
                            at |-> CHOOSE e \in named(key) : TRUE]>>
  IN  EachIn(seeds, EachIn(LAMBDA q : Mentions[q], r.queries))

\* The seeds whose entity is not the entity of an earlier one.
FirstAt(seeds) ==
  EntriesAt(seeds, {n \in DOMAIN seeds : \A k \in 1..(n - 1) : seeds[k].at # seeds[n].at})

\* allocate_evidence_seeds: the two arms in turn, memories first.
Seeds(r, pool) ==
  AtMost(r.seeds, RoundRobin(<<FirstAt(EachIn(SeedsOf, pool)),
                               FirstAt(EntitySeeds(r))>>))

\* evidence_incident_relationships; MAX_GRAPH_NEIGHBOR_EDGES is never met.
Edges(e) == {k \in DOMAIN rels : /\ rels[k].status = "active" /\ rels[k].space = e.space
                                 /\ e.key \in {rels[k].subject, rels[k].object}}

\* routing_support_memory_is_valid
Supported(k) ==
  LET i == rels[k].memory IN
  Active(i) /\ i \notin lapsed /\ mem[i].space = rels[k].space

\* qualified_evidence_relationship: the other end.
Far(k, e) == Entity(e.space, IF rels[k].subject = e.key THEN rels[k].object ELSE rels[k].subject)

\* The order of evidence_incident_relationships.
EdgeBefore(j, k) ==
  \/ rels[j].subject < rels[k].subject
  \/ rels[j].subject = rels[k].subject /\ rels[j].object < rels[k].object
  \/ rels[j].subject = rels[k].subject /\ rels[j].object = rels[k].object /\ j < k

\* traverse_evidence_seed goes on from the entities one edge away, each by the
\* first edge that reached it.
Onward(e) ==
  {k \in Edges(e) : Far(k, e) # e /\ \A j \in Edges(e) : Far(j, e) = Far(k, e) => ~EdgeBefore(j, k)}
Paths(e) ==
  {<<k>> : k \in Edges(e)}
    \cup UNION {{<<k, n>> : n \in Edges(Far(k, e)) \ {k}} : k \in Onward(e)}

\* A relationship whose evidence does not stand is an error, and the read with it.
Blocks(k) == ~Supported(k)
Blocked(r, pool) ==
  \E seed \in Range(Seeds(r, pool)) : \E path \in Paths(seed.at) : \E k \in Range(path) : Blocks(k)

PathEnd(e, path) ==
  IF Len(path) = 1 THEN Far(path[1], e) ELSE Far(path[2], Far(path[1], e))

\* Mutant of Attached: an entity of the same name in any space.
AttachedAnywhere(r, key) == {i \in DOMAIN mem : Active(i) /\ mem[i].key = key}

\* entity_memory_ids_with_filters: by the key, in every space of the request.
Attached(r, key) ==
  LET before(i, j) == \/ mem[i].pinned /\ ~mem[j].pinned
                      \/ mem[i].pinned = mem[j].pinned /\ i > j
  IN  Range(AtMost(r.neighbors, Ordered({i \in JoinEligible(r) : mem[i].key = key}, before)))

\* record_evidence_candidate for every edge a seed reaches: the memory that
\* supports the edge, and the others of the entity behind it.
Routes(r, seed) ==
  LET route(i, class, path) ==
        [id |-> i, seed |-> <<seed.source, seed.memory, seed.at>>, class |-> class, path |-> path,
         activation |-> seed.score \div (IF Len(path) = 1 THEN Decay ELSE Decay * Decay)]
      evidence(path) == rels[path[Len(path)]].memory
      reached(path) ==
        {route(evidence(path), 0, path) : i \in {evidence(path)} \cap JoinEligible(r)}
          \cup {route(i, 1, path) :
                  i \in Attached(r, PathEnd(seed.at, path).key) \ {evidence(path)}}
  IN  UNION {reached(path) : path \in Paths(seed.at)}

\* evidence_route_is_better
Better(a, b) ==
  \/ a.class < b.class
  \/ a.class = b.class /\ Len(a.path) < Len(b.path)
  \/ a.class = b.class /\ Len(a.path) = Len(b.path) /\ a.activation > b.activation

\* Mutant of NewToPool: a memory of the pool takes one of the graph's places.
ReachedAtAll(reached, pool) == reached

NewToPool(reached, pool) == reached \ Ids(pool)

\* The best route of every memory that a route reaches.
BestOf(routes) ==
  [i \in {e.id : e \in routes} |->
     CHOOSE e \in routes : e.id = i /\ \A f \in routes : f.id = i => ~Better(f, e)]

\* One route of each seed is kept.
Kept(all) == {e \in all : ~\E f \in all : f.id = e.id /\ f.seed = e.seed /\ Better(f, e)}

Joined(routes, best, pool) ==
  LET before(i, j) == Better(best[i], best[j]) \/ (~Better(best[j], best[i]) /\ i < j)
  IN  [activation |-> [i \in DOMAIN best |-> Max({e.activation : e \in {f \in routes : f.id = i}})],
       order |-> Ordered(NewToPool(DOMAIN best, pool), before)]

\* evidence_graph_expand_pool: the best of its routes ranks a memory, and the
\* largest activation is its score.
Join(r, pool) ==
  LET all == IF r.neighbors = 0 THEN {} ELSE UNION {Routes(r, seed) : seed \in Range(Seeds(r, pool))}
      joined(routes) == Joined(routes, BestOf(routes), pool)
  IN  joined(Kept(all))

-----------------------------------------------------------------------------
(* The pool a reranker scores, and the pack *)

Width(r) == Larger(r.rerank, r.memories)
Direct(r) == AtMost(Width(r), Merged(r, Width(r)))

\* The read fails: an edge that a seed reaches has evidence that does not stand.
PackFails(r) == r.neighbors > 0 /\ Blocked(r, Direct(r))

\* expand_and_observe_rerank_graph: what joins, and what the graph adds to the
\* rank of what it reaches.
Expanded(r, direct, join) ==
  LET added == AtMost(r.neighbors, join.order)
      reached == DOMAIN join.activation
      candidate(i) ==
        [id |-> i, consensus |-> i \in reached /\ i \in Ids(direct),
         activation |-> IF i \in reached THEN join.activation[i] ELSE 0 - 1]
  IN  Each(candidate, Each(LAMBDA hit : hit.id, direct) \o added)

Pool(r) == LET expand(direct) == Expanded(r, direct, Join(r, direct)) IN expand(Direct(r))

\* What the trace says of the memories that are not in the pool.
Dropped(r) ==
  LET dropped(direct, order) ==
        LET added == Range(AtMost(r.neighbors, order))
            cut == (Ids(Merged(r, Width(r))) \ Ids(direct)) \ added
        IN  [i \in cut \cup (Range(order) \ added) |->
               IF i \in cut THEN "hybrid_cap" ELSE "graph_cap"]
      from(direct) == dropped(direct, Join(r, direct).order)
  IN  from(Direct(r))

EmptyPack == [ids |-> <<>>, scores |-> <<>>, truncated |-> FALSE, top |-> NoScore]

\* compare_rerank_candidates
RanksBefore(c, d) ==
  \/ c.score > d.score
  \/ c.score = d.score /\ c.consensus /\ ~d.consensus
  \/ c.score = d.score /\ c.consensus = d.consensus /\ c.activation > d.activation
  \/ c.score = d.score /\ c.consensus = d.consensus /\ c.activation = d.activation /\ c.id < d.id

\* Mutant of FirstAlone: what does not fit is left out.
NothingAlone(ranked, chars) == <<>>

\* truncate_pack_entry of the first: as much of it as the budget holds.
FirstAlone(ranked, chars) == IF chars > Overhead THEN AtMost(1, ranked) ELSE <<>>

\* assemble_reranked_pack, of candidates with their score.
Assembled(candidates, memories, chars, floor) ==
  LET ranked == Ordered(candidates, RanksBefore)
      used(n) == FoldLeft(LAMBDA sum, c : sum + Size[mem[c.id].text], 0, SubSeq(ranked, 1, n))
      fits == {n \in 0..Min({memories, Len(ranked)}) : \A k \in 1..n : used(k) <= chars}
      whole == SubSeq(ranked, 1, Max(fits))
      taken == IF whole = <<>> THEN FirstAlone(ranked, chars) ELSE whole
  IN  IF ranked = <<>> \/ ranked[1].score < floor THEN EmptyPack
      ELSE [ids |-> Each(LAMBDA c : c.id, taken), scores |-> Each(LAMBDA c : c.score, taken),
            truncated |-> Len(taken) < Len(ranked) \/ (whole = <<>> /\ taken # <<>>),
            top |-> ranked[1].score]

Scored(pool, score) ==
  {[id |-> pool[k].id, consensus |-> pool[k].consensus, activation |-> pool[k].activation,
    score |-> score[k]] : k \in DOMAIN pool}

\* rerank_pack_scores: the first query, whatever the others are.
RerankedPack(r, pool) ==
  LET score == [k \in DOMAIN pool |-> Rel(r.queries[1], pool[k].id).rerank]
  IN  Assembled(Scored(pool, score), r.memories, r.chars, r.floor)
Pack(r) == RerankedPack(r, Pool(r))

\* Mutant of PlaceScore: the places are counted up.
PlaceItself(pool, k) == k

PlaceScore(pool, k) == Len(pool) - k

\* retrieval_only_pack_report
OrderedPack(r, pool) ==
  LET score == [k \in DOMAIN pool |-> PlaceScore(pool, k)]
      chars == IF r.chars > Heading THEN r.chars - Heading ELSE 0
  IN  [Assembled(Scored(pool, score), r.memories, chars, 0) EXCEPT !.scores = <<>>, !.top = NoScore]
RetrievalOnly(r) == OrderedPack(r, Pool(r))

-----------------------------------------------------------------------------
(* What happens to the store *)

NextId == Len(mem) + 1

\* Mutant of EdgeTo: the id of the memory before.
EdgeToLast(w) ==
  [space |-> w.space, subject |-> w.edge[1], object |-> w.edge[2], memory |-> Len(mem),
   status |-> "active"]

\* apply_graph_capture
EdgeTo(w) ==
  [space |-> w.space, subject |-> w.edge[1], object |-> w.edge[2], memory |-> NextId,
   status |-> "active"]

\* remember_memory_tx with a captured relationship, of which the memory is the
\* evidence.
Remember(w) ==
  /\ Len(mem) < MaxMemories /\ w \in Writes[NextId]
  /\ mem' = Append(mem, [space |-> w.space, key |-> w.key, text |-> w.text, boost |-> w.boost,
                         pinned |-> w.pinned, until |-> w.until, vector |-> w.vector,
                         status |-> "active"])
  /\ rels' = IF w.edge = NoEdge THEN rels ELSE Append(rels, EdgeTo(w))
  /\ tokens' = IF w.tokens THEN tokens \cup {NextId} ELSE tokens
  /\ UNCHANGED lapsed

\* forget, or a correction of it.
Retire(i) ==
  /\ Active(i)
  /\ mem' = [mem EXCEPT ![i].status = "retired"]
  /\ UNCHANGED <<lapsed, rels, tokens>>

\* Time passes the valid_to or expires_at of a memory.
Lapse(i) ==
  /\ mem[i].until # "none" /\ i \notin lapsed
  /\ lapsed' = lapsed \cup {i}
  /\ UNCHANGED <<mem, rels, tokens>>

\* token_backfill_store without force; TokenMatrices has its steps.
BackfillTokens ==
  /\ {i \in DOMAIN mem : Active(i)} \ tokens # {}
  /\ tokens' = tokens \cup {i \in DOMAIN mem : Active(i)}
  /\ UNCHANGED <<mem, lapsed, rels>>

\* dream_expire_candidate_ids
Expired == {i \in lapsed : Active(i) /\ mem[i].until = "expires_at" /\ ~mem[i].pinned}

\* Mutant of Unsupported: only what this dream expired.
UnsupportedByExpiry == {k \in DOMAIN rels : rels[k].status = "active" /\ rels[k].memory \in Expired}

\* dream_graph_inactive_evidence_relationship_ids, after the memories expired.
Unsupported ==
  {k \in DOMAIN rels :
     rels[k].status = "active" /\ (rels[k].memory \in Expired \/ ~Active(rels[k].memory))}

Dream ==
  /\ Expired # {} \/ Unsupported # {}
  /\ mem' = [i \in DOMAIN mem |-> IF i \in Expired THEN [mem[i] EXCEPT !.status = "retired"]
                                                  ELSE mem[i]]
  /\ rels' = [k \in DOMAIN rels |-> IF k \in Unsupported
                                     THEN [rels[k] EXCEPT !.status = "tombstoned"] ELSE rels[k]]
  /\ UNCHANGED <<lapsed, tokens>>

Next ==
  \/ \E w \in UNION Range(Writes) : Remember(w)
  \/ \E i \in DOMAIN mem : Retire(i)
  \/ \E i \in DOMAIN mem : Lapse(i)
  \/ BackfillTokens
  \/ Dream

\* The scheduler runs dream again and again.
Spec == Init /\ [][Next]_vars /\ WF_vars(Dream)

-----------------------------------------------------------------------------
(* Properties *)

\* Every memory of a pool is active and in a space of the request, whichever
\* route admitted it: an arm, the evidence of an edge, or the key of an entity
\* (which is looked up in all the spaces of the request, not in the seed's).
PoolInScope ==
  \A r \in Packs : ~PackFails(r) =>
    \A pool \in {Pool(r)} : \A k \in DOMAIN pool : Active(pool[k].id) /\ InScope(r, pool[k].id)

\* Neither search nor the arms of a pack find a memory whose valid_to or
\* expires_at has passed, before dream has seen it (lib.rs:8188).
ArmsHideLapsed ==
  /\ \A r \in Searches : Ids(Search(r)) \cap lapsed = {}
  /\ \A r \in Packs : Ids(Direct(r)) \cap lapsed = {}

\* The pages of a list, followed until one is not truncated, hold every memory of
\* the filters once.
ListPagesPartition ==
  \A r \in Searches :
    LET pages == {k \in 0..MaxMemories : k = 0 \/ Listed(r, r.limit, (k - 1) * r.limit).truncated}
        page(k) == Listed(r, r.limit, k * r.limit).ids
    IN  /\ UNION {Range(page(k)) : k \in pages} = JoinEligible(r)
        /\ \A j, k \in pages : j # k => Range(page(j)) \cap Range(page(k)) = {}

\* The trace explains the pool: a memory that was found and is not in the pool
\* was left out by a cap that was full, the width of the merge by memories of
\* the arms, the places of the graph by memories that only the graph reached.
DroppedOnlyWhenFull ==
  \A r \in Packs : ~PackFails(r) =>
    \A pool \in {Pool(r)}, dropped \in {Dropped(r)}, direct \in {Ids(Direct(r))} :
        /\ DOMAIN dropped \cap {pool[k].id : k \in DOMAIN pool} = {}
        /\ \A i \in DOMAIN dropped :
             IF dropped[i] = "hybrid_cap" THEN Cardinality(direct) = Width(r)
             ELSE Cardinality({pool[k].id : k \in DOMAIN pool} \ direct) = r.neighbors

\* A pack whose best memory passes the floor says something, whatever the
\* length of that memory, as soon as the budget holds any of it; and it leaves
\* out no memory that scores higher than one it takes.
RelevantPackSpeaks ==
  \A r \in Packs : ~PackFails(r) =>
    \A pool \in {Pool(r)}, pack \in {Pack(r)} :
    LET ids == {pool[k].id : k \in DOMAIN pool}
        score(i) == Rel(r.queries[1], i).rerank
    IN  /\ ((\E i \in ids : score(i) >= r.floor) /\ r.chars > Overhead) => pack.ids # <<>>
        /\ \A i \in ids \ Range(pack.ids), j \in Range(pack.ids) : score(i) <= score(j)
        /\ Len(pack.scores) = Len(pack.ids)

\* When the reranker fails at request time, the pack keeps the order of the
\* retrieval and shows no scores (CHANGELOG.md:148).
DegradedPackKeepsOrder ==
  \A r \in Packs : ~PackFails(r) =>
    \A pool \in {Pool(r)}, pack \in {RetrievalOnly(r)} :
        /\ pack.ids = [k \in DOMAIN pack.ids |-> pool[k].id]
        /\ pack.scores = <<>> /\ pack.top = NoScore

\* The shortlist never hides a memory from MaxSim because it has no vector: with
\* room for every memory that has a token matrix, the best of them is found
\* with the shortlist as without it, unless a nearer one has a vector.
ShortlistKeepsVectorless ==
  \A r \in Searches : (r.tokens /\ r.shortlist > 0) =>
    LET ids == Scanned(r.query, r, r.limit)
    IN  \A i \in Recalled(r) : ~mem[i].vector => i \in ids

\* A memory that is retired, superseded or expired blocks the packs that reach
\* its relationship only until a dream tombstones it.  (A memory past valid_to,
\* or a pinned one past expires_at, blocks them for good.)
Stands(k) == Active(rels[k].memory) /\ (rels[k].memory \notin lapsed
               \/ mem[rels[k].memory].until = "valid_to" \/ mem[rels[k].memory].pinned)
RetiredEvidenceUnblocks ==
  \A k \in 1..MaxMemories :
    (k \in DOMAIN rels /\ rels[k].status = "active" /\ ~Stands(k))
      ~> (k \in DOMAIN rels /\ rels[k].status = "tombstoned")

\* Every pool is in scope, and its trace explains what is not in it.
PoolsSound == TypeOK /\ PoolInScope /\ DroppedOnlyWhenFull

\* Searches and lists hide what has lapsed, miss nothing for want of a vector,
\* and can be followed to the end.
SearchesSound == ArmsHideLapsed /\ ShortlistKeepsVectorless /\ ListPagesPartition

\* Packs keep the order they were given, by the reranker or without it.
PacksSound == RelevantPackSpeaks /\ DegradedPackKeepsOrder
=============================================================================
