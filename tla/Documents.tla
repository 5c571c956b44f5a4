------------------------------ MODULE Documents -------------------------------
(***************************************************************************)
(* The evidence tier: document chunks in `source_episodes`, their full-    *)
(* text rows, their vectors, the telemetry of document search, and what    *)
(* reads them.  Chunk ids are numbers: ids sort by creation.  Which model  *)
(* made a vector is the subject of SemanticIndex; here a chunk has one or  *)
(* has none.                                                               *)
(*                                                                         *)
(* A search reads one snapshot and logs what it returned in a transaction  *)
(* of its own, so a chunk may be pruned, or extracted, in between.         *)
(***************************************************************************)
EXTENDS Rankings

CONSTANTS
  Spaces,      \* names of spaces
  Paths,       \* source paths, naturals above 0 in their text order
  Texts,       \* chunk contents; equal contents have equal hashes
  Metas,       \* the provenance a caller sends along
  Queries,     \* search queries, without the empty one
  Matching,    \* the contents that a query's terms match
  Ingests,     \* the ingest requests the callers send
  Searchers,   \* processes that search
  RrfK,        \* RRF_K
  Limit,       \* DocumentSearchRequest.limit
  Pool,        \* candidate_limit
  MinHits, MinQueries,  \* the thresholds of PromotionCandidatesRequest
  MaxChunks,   \* bound: the most chunk ids handed out
  MaxLog       \* bound: the most telemetry rows

NoPath == 0   \* a NULL source_path
NoReport == [results |-> <<>>]

IngestRequest ==
  [space : Spaces, path : Paths \cup {NoPath}, texts : Seq(Texts), meta : Metas,
   vectors : BOOLEAN]

ASSUME DocumentsAssumption ==
  /\ Paths \subseteq Nat \ {0}
  /\ Matching \in [Queries -> SUBSET Texts]
  /\ Ingests \subseteq IngestRequest /\ \A r \in Ingests : r.texts # <<>>
  /\ {RrfK, Limit, Pool, MinHits} \subseteq Nat \ {0} /\ MinQueries \in Nat
  /\ MaxChunks \in Nat /\ MaxLog \in Nat

VARIABLES
  spaces,   \* table spaces
  count,    \* how many chunk ids were handed out
  chunks,   \* table source_episodes, by id
  fts,      \* table source_episode_fts, by id
  vectors,  \* the ids in source_episode_vec_<dims> and embeddings
  log,      \* table source_episode_recall_events
  report    \* what each searcher was answered and has not logged yet

vars == <<spaces, count, chunks, fts, vectors, log, report>>

Chunk == [space : Spaces, path : Paths \cup {NoPath}, text : Texts, index : Nat,
          of : Nat, meta : Metas, status : {"indexed", "extracted"}]

FtsRow(c) == [space |-> c.space, path |-> c.path, text |-> c.text, meta |-> c.meta]

TypeOK ==
  /\ spaces \subseteq Spaces /\ count \in 0..MaxChunks
  /\ DOMAIN chunks \subseteq 1..count
  /\ \A c \in DOMAIN chunks : chunks[c] \in Chunk /\ chunks[c].space \in spaces
  /\ \A c \in DOMAIN chunks : chunks[c].index < chunks[c].of
  /\ vectors \subseteq DOMAIN chunks
  /\ \A i \in DOMAIN log : log[i].chunk \in 1..count /\ log[i].query \in Queries

Init ==
  /\ spaces = {} /\ count = 0
  /\ chunks = <<>> /\ fts = <<>> /\ vectors = {}
  /\ log = <<>>
  /\ report = [p \in Searchers |-> NoReport]

-----------------------------------------------------------------------------
(* Ingest *)

Tables == [count |-> count, chunks |-> chunks, fts |-> fts, vectors |-> vectors]

\* Mutant of SameChunk: a NULL path is compared with `=`.
SameChunkByEquals(t, r, text) ==
  {c \in DOMAIN t.chunks :
     /\ t.chunks[c].space = r.space /\ t.chunks[c].text = text
     /\ t.chunks[c].path = r.path /\ r.path # NoPath}

\* The identity of a chunk in maybe_repair_ingested_chunk.
SameChunk(t, r, text) ==
  {c \in DOMAIN t.chunks :
     <<t.chunks[c].space, t.chunks[c].text, t.chunks[c].path>> = <<r.space, text, r.path>>}

\* Mutant of Place: positions start at one.
PlaceFromOne(r, i) == [index |-> i, of |-> Len(r.texts), meta |-> r.meta]

\* What an ingest says of the chunk at one place of its source.
Place(r, i) == [index |-> i - 1, of |-> Len(r.texts), meta |-> r.meta]

At(row, place) ==
  [row EXCEPT !.index = place.index, !.of = place.of, !.meta = place.meta]

\* Mutant of Repaired: the chunk is indexed again, whatever became of it.
RepairedStatus(t, r, i, c) ==
  LET row == [At(t.chunks[c], Place(r, i)) EXCEPT !.status = "indexed"] IN
  [t EXCEPT !.chunks[c] = row, !.fts[c] = FtsRow(row)]

\* Mutant of Repaired: the full-text row is left alone.
RepairedRow(t, r, i, c) == [t EXCEPT !.chunks[c] = At(@, Place(r, i))]

\* Mutant of Repaired: the provenance is repaired and the place is not.
RepairedInPlace(t, r, i, c) ==
  [t EXCEPT !.chunks[c].meta = r.meta, !.fts[c].meta = r.meta]

\* The repair of a chunk that is there: its content, its status and its vector,
\* the one it has or the one it lacks, stay.
Repaired(t, r, i, c) ==
  LET row == At(t.chunks[c], Place(r, i)) IN
  [t EXCEPT !.chunks[c] = row, !.fts[c] = FtsRow(row)]

With(f, c, row) == [d \in DOMAIN f \cup {c} |-> IF d = c THEN row ELSE f[d]]

Inserted(t, r, i) ==
  LET c == t.count + 1
      place == Place(r, i)
      row == [space |-> r.space, path |-> r.path, text |-> r.texts[i],
              index |-> place.index, of |-> place.of, meta |-> place.meta,
              status |-> "indexed"]
  IN  [count |-> c, chunks |-> With(t.chunks, c, row), fts |-> With(t.fts, c, FtsRow(row)),
       vectors |-> t.vectors \cup (IF r.vectors THEN {c} ELSE {})]

\* The loop of ingest_source.
Ingested(t, r) ==
  LET after[i \in 0..Len(r.texts)] ==
        IF i = 0 THEN t
        ELSE LET before == after[i - 1]
                 found == SameChunk(before, r, r.texts[i])
             IN  IF found = {} THEN Inserted(before, r, i)
                 ELSE Repaired(before, r, i, Min(found))
  IN  after[Len(r.texts)]

\* ingest_source; ensure_ingest_space creates the space it writes to.
Ingest(r) ==
  LET t == Ingested(Tables, r) IN
  /\ t.count <= MaxChunks
  /\ count' = t.count /\ chunks' = t.chunks /\ fts' = t.fts /\ vectors' = t.vectors
  /\ spaces' = spaces \cup {r.space}
  /\ UNCHANGED <<log, report>>

-----------------------------------------------------------------------------
(* The other writers *)

Without(f, ids) == [c \in DOMAIN f \ ids |-> f[c]]

\* Mutant of Found: the space is not looked at.
FoundAnywhere(space, ids) == ids \cap DOMAIN chunks

\* What a request by ids reaches: ids of other spaces are passed over.
Found(space, ids) == {c \in ids \cap DOMAIN chunks : chunks[c].space = space}

\* prune_documents; telemetry has no foreign key and stays.
Prune(space, ids) ==
  /\ chunks' = Without(chunks, Found(space, ids))
  /\ fts' = Without(fts, Found(space, ids))
  /\ vectors' = vectors \ Found(space, ids)
  /\ UNCHANGED <<spaces, count, log, report>>

\* mark_source_episodes_extracted
MarkExtracted(space, ids) ==
  /\ chunks' = [c \in DOMAIN chunks |->
                  IF c \in Found(space, ids)
                  THEN [chunks[c] EXCEPT !.status = "extracted"] ELSE chunks[c]]
  /\ UNCHANGED <<spaces, count, fts, vectors, log, report>>

\* rebuild_fts, as `reindex` and the reindex task of dream call it
Reindex ==
  /\ fts' = [c \in DOMAIN chunks |-> FtsRow(chunks[c])]
  /\ UNCHANGED <<spaces, count, chunks, vectors, log, report>>

-----------------------------------------------------------------------------
(* Search *)

\* document_lexical_candidates: the order of bm25 is any order.
Lexical(space, query) ==
  {AtMost(Pool, s) : s \in SetToSeqs({c \in DOMAIN fts : fts[c].space = space
                                       /\ fts[c].text \in Matching[query]})}

\* document_semantic_candidates: the nearest vectors of all spaces are taken
\* first, and those of the space looked for among them.
Semantic(space, embedded) ==
  IF ~embedded THEN {<<>>}
  ELSE {Among(AtMost(Pool, s), {c \in vectors : chunks[c].space = space}) : s \in SetToSeqs(vectors)}

Position(s, c) == CHOOSE i \in DOMAIN s : s[i] = c

\* Mutant of Score: the second arm's contribution replaces the first's.
ScoreOfLast(semantic, lexical, c) ==
  <<1, RrfK + Position(IF c \in Range(lexical) THEN lexical ELSE semantic, c)>>

\* Reciprocal rank fusion, as a fraction: the sum of 1 / (K + rank).
Share(s, c) == IF c \in Range(s) THEN <<1, RrfK + Position(s, c)>> ELSE <<0, 1>>
Score(semantic, lexical, c) ==
  LET p == Share(semantic, c)
      q == Share(lexical, c)
  IN  <<p[1] * q[2] + q[1] * p[2], p[2] * q[2]>>

\* document_rrf_merge: by score, and by id where scores are equal.
Fused(semantic, lexical) ==
  LET score(c) == Score(semantic, lexical, c)
      above(c, d) == LET left == score(c)[1] * score(d)[2]
                         right == score(d)[1] * score(c)[2]
                     IN  \/ left > right
                         \/ left = right /\ c < d
  IN  AtMost(Limit, Ordered(Range(semantic) \cup Range(lexical), above))

\* search_documents up to the answer
Search(p, space, query, embedded) ==
  /\ report[p] = NoReport
  /\ \E lexical \in Lexical(space, query), semantic \in Semantic(space, embedded) :
       report' = [report EXCEPT ![p] =
         [space |-> space, query |-> query, lexical |-> lexical, semantic |-> semantic,
          results |-> Fused(semantic, lexical)]]
  /\ UNCHANGED <<spaces, count, chunks, fts, vectors, log>>

\* record_document_retrievals: one row per result.
Record(p) ==
  LET r == report[p] IN
  /\ r.results # <<>>
  /\ Len(log) + Len(r.results) <= MaxLog
  /\ log' = log \o [i \in DOMAIN r.results |->
                      [chunk |-> r.results[i], space |-> r.space, query |-> r.query]]
  /\ report' = [report EXCEPT ![p] = NoReport]
  /\ UNCHANGED <<spaces, count, chunks, fts, vectors>>

\* The answer is empty or not to be logged, the log cannot be written, or the
\* process is gone.
Forget(p) ==
  /\ report[p] # NoReport
  /\ report' = [report EXCEPT ![p] = NoReport]
  /\ UNCHANGED <<spaces, count, chunks, fts, vectors, log>>

-----------------------------------------------------------------------------
(* Readers *)

\* get_document by path, in the order of the chunks
GetDocument(cs, space, path) ==
  Ordered({c \in DOMAIN cs : cs[c].space = space /\ cs[c].path = path},
               LAMBDA c, d : \/ cs[c].index < cs[d].index
                             \/ cs[c].index = cs[d].index /\ c < d)

Hits(space, c) == {i \in DOMAIN log : log[i].chunk = c /\ log[i].space = space}
DistinctQueries(space, c) == {log[i].query : i \in Hits(space, c)}

\* promotion_candidates, without those that were extracted
Candidates(space) ==
  Ordered(
    {c \in DOMAIN chunks :
       /\ chunks[c].status # "extracted"
       /\ Cardinality(Hits(space, c)) >= MinHits
       /\ Cardinality(DistinctQueries(space, c)) >= MinQueries},
    LAMBDA c, d :
      LET nc == Cardinality(DistinctQueries(space, c))
          nd == Cardinality(DistinctQueries(space, d))
          hc == Cardinality(Hits(space, c))
          hd == Cardinality(Hits(space, d))
      IN  \/ nc > nd
          \/ nc = nd /\ hc > hd
          \/ nc = nd /\ hc = hd /\ Max(Hits(space, c)) > Max(Hits(space, d)))

\* document_duplicates: the contents that several chunks of the space have
Cluster(space, text) == {c \in DOMAIN chunks : chunks[c].space = space /\ chunks[c].text = text}
Duplicates(space) ==
  {Cluster(space, text) : text \in {x \in Texts : Cardinality(Cluster(space, x)) > 1}}

Next ==
  \/ \E r \in Ingests : Ingest(r)
  \/ \E space \in Spaces, ids \in SUBSET (1..count) \ {{}} :
       Prune(space, ids) \/ MarkExtracted(space, ids)
  \/ Reindex
  \/ \E p \in Searchers :
       \/ \E space \in Spaces, query \in Queries, embedded \in BOOLEAN :
            Search(p, space, query, embedded)
       \/ Record(p)
       \/ Forget(p)

Spec == Init /\ [][Next]_vars

-----------------------------------------------------------------------------
(* Properties *)

\* The full-text table, which ingest writes row by row and repairs in place, is
\* what a rebuild would make of the chunks, also after prunes that name chunks
\* of other spaces.
FtsMirrorsChunks == fts = [c \in DOMAIN chunks |-> FtsRow(chunks[c])]

\* Duplicates are the same content held under different sources (README.md):
\* whatever is ingested again, a cluster never has two chunks of one source.
ClustersAcrossSources ==
  \A space \in Spaces : \A cluster \in Duplicates(space) :
    \A c, d \in cluster : chunks[c].path = chunks[d].path => c = d

\* An ingest that is repeated, as a caller does who did not see the answer,
\* changes nothing.
IngestIsIdempotent ==
  [][\A r \in Ingests :
       Ingest(r) =>
         LET after == [count |-> count', chunks |-> chunks', fts |-> fts', vectors |-> vectors']
         IN  Ingested(after, r) = after]_vars

\* A document that is ingested for the first time reads back in its order, each
\* content at the last place it had.  (A content that occurs twice in one source
\* is one chunk.)
KeepLast(s) ==
  LET last(x) == Max({i \in DOMAIN s : s[i] = x}) IN
  Ordered(Range(s), LAMBDA x, y : last(x) < last(y))
FreshDocumentReadsBack ==
  [][\A r \in Ingests :
       Ingest(r) /\ GetDocument(chunks, r.space, r.path) = <<>> =>
         LET read == GetDocument(chunks', r.space, r.path) IN
         [i \in DOMAIN read |-> chunks'[read[i]].text] = KeepLast(r.texts)]_vars

\* A chunk that was made a memory is not proposed again as long as it is there,
\* whatever is logged late or ingested again; and a prune or an extraction
\* leaves the chunks of other spaces alone.
ExtractedIsNotProposed ==
  [][\A c \in DOMAIN chunks \cap DOMAIN chunks' :
       chunks[c].status = "extracted" => c \notin Range(Candidates(chunks[c].space)')]_vars
OtherSpacesUntouched ==
  [][\A space \in Spaces, ids \in SUBSET (1..count) :
       Prune(space, ids) \/ MarkExtracted(space, ids) =>
         \A c \in DOMAIN chunks : chunks[c].space # space =>
           c \in DOMAIN chunks' /\ chunks'[c] = chunks[c]]_vars

\* The fusion respects its arms: a chunk that comes before another in every arm
\* that found the other one comes before it in the answer, and is in the answer
\* if the other is.
Before(s, c, d) == c \in Range(s) /\ Position(s, c) < Position(s, d)
FusionRespectsArms ==
  \A p \in Searchers : report[p] # NoReport =>
    LET r == report[p] IN
    \A d \in Range(r.results), c \in Range(r.semantic) \cup Range(r.lexical) :
      (\A arm \in {r.semantic, r.lexical} : d \in Range(arm) => Before(arm, c, d))
      => Before(r.results, c, d)

\* The tables of the chunks fit each other, whatever was ingested again.
ChunksSound == TypeOK /\ FtsMirrorsChunks /\ ClustersAcrossSources

\* What an ingest, a prune and an extraction promise of the chunks they name
\* and of those they do not.
IngestsSound ==
  /\ IngestIsIdempotent /\ FreshDocumentReadsBack
  /\ ExtractedIsNotProposed /\ OtherSpacesUntouched
=============================================================================
