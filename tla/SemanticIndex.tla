---------------------------- MODULE SemanticIndex -----------------------------
(***************************************************************************)
(* The vectors of the store: the `embeddings` table, the sqlite-vec tables *)
(* memory_vec_<dims> and source_episode_vec_<dims> projected from it, the  *)
(* token matrices, and the active models recorded in config_kv.            *)
(*                                                                         *)
(* Memories and chunks appear here only as the owners of vectors.  The     *)
(* maintenance commands `reindex --embed` and `reindex --tokens` read the  *)
(* store, run the model for as long as it takes, and write in a second     *)
(* transaction: a Begin and an End action, with other processes in between.*)
(***************************************************************************)
EXTENDS Naturals, FiniteSets

CONSTANTS
  MaxWritten,   \* bound: the most memories a behaviour creates
  Chunks,        \* document chunks, by (space, content, source_path)
  Models,        \* embedding models
  Dims,          \* the dimensions of each model
  TokenModels,   \* late-interaction models
  Jobs,          \* processes that run `reindex`
  None           \* NULL, an unset variable

ASSUME SemanticAssumption ==
  /\ MaxWritten \in Nat
  /\ Chunks \cap Nat = {}
  /\ Dims \in [Models -> Nat \ {0}]
  /\ None \notin Models \cup TokenModels

VARIABLES
  count,        \* how many memories were written; their ids are 1..count
  active,       \* the memories whose status is active
  chunks,       \* table source_episodes
  embeddings,   \* table embeddings: whose vector, by which model
  memVec,       \* the vectors in the tables memory_vec_<dims>
  docVec,       \* the vectors in the tables source_episode_vec_<dims>
  model,        \* config_kv active_embedding_model and _dims
  tokenEmbeddings,       \* table memory_token_embeddings
  tokenModel,   \* config_kv active_colbert_model
  job           \* what each maintenance process has collected

memoryVars == <<count, active>>
tokenVars == <<tokenEmbeddings, tokenModel>>
vectorVars == <<embeddings, memVec, docVec, model>>
indexVars == <<memoryVars, chunks, vectorVars, tokenVars, job>>

MemoryIds == 1..count

Vectors(owners, m) == [of : owners, model : {m} \ {None}]

MemoryVectors == {v \in embeddings : v.of \in Nat}

Idle == [task |-> "none"]
ReembedJobs ==
  [task : {"embed"}, model : Models, targets : SUBSET MemoryIds]
BackfillJobs ==
  [task : {"tokens"}, model : TokenModels, targets : SUBSET MemoryIds, force : BOOLEAN]

IndexTypeOK ==
  /\ count \in 0..MaxWritten
  /\ active \subseteq MemoryIds
  /\ chunks \subseteq Chunks
  /\ embeddings \subseteq [of : MemoryIds \cup chunks, model : Models]
  /\ memVec \subseteq [of : MemoryIds, model : Models]
  /\ docVec \subseteq [of : Chunks, model : Models]
  /\ model \in Models \cup {None}
  /\ tokenEmbeddings \subseteq [of : MemoryIds, model : TokenModels]
  /\ tokenModel \in TokenModels \cup {None}
  /\ job \in [Jobs -> {Idle} \cup ReembedJobs \cup BackfillJobs]

IndexInit ==
  /\ count = 0 /\ active = {} /\ chunks = {}
  /\ embeddings = {} /\ memVec = {} /\ docVec = {}
  /\ model = None
  /\ tokenEmbeddings = {} /\ tokenModel = None
  /\ job = [j \in Jobs |-> Idle]

-----------------------------------------------------------------------------
(* One model per store *)

\* Mutant of Admits: the dimensions are compared and the name is not.
AdmitsSameDims(m) ==
    IF None \in {m, model} THEN TRUE ELSE Dims[m] = Dims[model]

\* enforce_active_embedding_model: m = None is a write without a vector.
Admits(m) == m = None \/ model \in {None, m}
Settled(m) == IF model = None THEN m ELSE model

\* enforce_active_colbert_model
AdmitsTokens(t) == t = None \/ tokenModel \in {None, t}
SettledTokens(t) == IF tokenModel = None THEN t ELSE tokenModel

-----------------------------------------------------------------------------
(* Memories *)

\* Mutant of NewId: ids are handed out with a gap.
NewIdSkips == count + 2

NewId == count + 1

\* remember: its vectors come with the request, and it may supersede others.
RememberVectors(m, t) ==
  /\ Admits(m) /\ AdmitsTokens(t)
  /\ count' = count + 1
  /\ \E superseded \in SUBSET active :
       active' = (active \ superseded) \cup {NewId}
  /\ embeddings' = embeddings \cup Vectors({NewId}, m)
  /\ memVec' = memVec \cup Vectors({NewId}, m)
  /\ model' = Settled(m)
  /\ tokenEmbeddings' = tokenEmbeddings \cup Vectors({NewId}, t)
  /\ tokenModel' = SettledTokens(t)
  /\ UNCHANGED <<chunks, docVec, job>>

\* forget, and the retirements of a dream run: no vector is removed.
RetireOwner(i) ==
  /\ i \in active
  /\ active' = active \ {i}
  /\ UNCHANGED <<count, chunks, vectorVars, tokenVars, job>>

-----------------------------------------------------------------------------
(* Document chunks *)

\* ingest: a chunk that is there already is repaired in place and its vector
\* is left alone, the one it has or the one it lacks.
Ingest(request, m) ==
  LET created == request \ chunks IN
  /\ created # {} => Admits(m)
  /\ chunks' = chunks \cup request
  /\ embeddings' = embeddings \cup Vectors(created, m)
  /\ docVec' = docVec \cup Vectors(created, m)
  /\ model' = IF created = {} THEN model ELSE Settled(m)
  /\ UNCHANGED <<memoryVars, memVec, tokenVars, job>>

\* Mutant of PrunedIndex: the projection is left behind.
PrunedIndexKept(request) == docVec

PrunedIndex(request) == {v \in docVec : v.of \notin request}

Prune(request) ==
  /\ chunks' = chunks \ request
  /\ embeddings' = {v \in embeddings : v.of \notin request}
  /\ docVec' = PrunedIndex(request)
  /\ UNCHANGED <<memoryVars, memVec, model, tokenVars, job>>

-----------------------------------------------------------------------------
(* Maintenance *)

\* rebuild_vector_index reads memory_id of every row as a string, and the row
\* of a chunk has none: then the transaction fails.
RebuildReads == MemoryVectors = embeddings

Reprojected(vecs) ==
  {v \in vecs : \A e \in embeddings : e.of = v.of => Dims[e.model] # Dims[v.model]}
    \cup embeddings

Reindex ==
  /\ RebuildReads
  /\ memVec' = Reprojected(memVec)
  /\ UNCHANGED <<memoryVars, chunks, embeddings, docVec, model, tokenVars, job>>

\* export, and import into a new file that takes the store's place.  The
\* archive has no token matrices; only the memories' vectors are projected.
Reload ==
  /\ \A j \in Jobs : job[j] = Idle
  /\ RebuildReads
  /\ memVec' = Reprojected({})
  /\ docVec' = {}
  /\ tokenEmbeddings' = {}
  /\ UNCHANGED <<memoryVars, chunks, embeddings, model, tokenModel, job>>

\* Mutant of BeginReembed: memories that have a vector of the model are skipped.
BeginReembedRest(j, m) ==
  /\ job[j] = Idle
  /\ job' = [job EXCEPT ![j] = [task |-> "embed", model |-> m,
               targets |-> {i \in active : [of |-> i, model |-> m] \notin embeddings}]]
  /\ UNCHANGED <<memoryVars, chunks, vectorVars, tokenVars>>

\* collect_reembed_targets
BeginReembed(j, m) ==
  /\ job[j] = Idle
  /\ job' = [job EXCEPT ![j] = [task |-> "embed", model |-> m, targets |-> active]]
  /\ UNCHANGED <<memoryVars, chunks, vectorVars, tokenVars>>

\* Mutant of MemVecAfterReembed: the old tables are not dropped.
MemVecOnTop(written) == memVec \cup written

\* drop_all_vector_tables drops every memory_vec_<dims>, and those only.
MemVecAfterReembed(written) == written

\* apply_reembed
EndReembed(j) ==
  /\ job[j].task = "embed"
  /\ LET written == Vectors(job[j].targets, job[j].model) IN
     /\ embeddings' = written
     /\ memVec' = MemVecAfterReembed(written)
  /\ model' = job[j].model
  /\ job' = [job EXCEPT ![j] = Idle]
  /\ UNCHANGED <<memoryVars, chunks, docVec, tokenVars>>

\* collect_token_backfill_targets
BeginBackfill(j, t, force) ==
  /\ job[j] = Idle
  /\ job' = [job EXCEPT ![j] =
       [task |-> "tokens", model |-> t, force |-> force,
        targets |-> IF force THEN active
                    ELSE {i \in active : \A v \in tokenEmbeddings : v.of # i}]]
  /\ UNCHANGED <<memoryVars, chunks, vectorVars, tokenVars>>

\* Mutant of TokensLeft: the old matrices stay when the model is switched.
TokensLeftAll(targets, force) == {v \in tokenEmbeddings : v.of \notin targets}

\* What is left before the new rows are written: nothing after a reset, else
\* what INSERT OR REPLACE does not replace.
TokensLeft(targets, force) ==
  {v \in tokenEmbeddings : ~force /\ v.of \notin targets}

\* apply_token_embeddings
EndBackfill(j) ==
  LET b == job[j] IN
  /\ b.task = "tokens"
  /\ b.force \/ AdmitsTokens(b.model)
  /\ tokenEmbeddings' = TokensLeft(b.targets, b.force) \cup Vectors(b.targets, b.model)
  /\ tokenModel' = b.model
  /\ job' = [job EXCEPT ![j] = Idle]
  /\ UNCHANGED <<memoryVars, chunks, vectorVars>>

\* The model fails, the write is refused, or the process dies.
Abandon(j) ==
  /\ job[j] # Idle
  /\ job' = [job EXCEPT ![j] = Idle]
  /\ UNCHANGED <<memoryVars, chunks, vectorVars, tokenVars>>

-----------------------------------------------------------------------------
(* Specification *)

IndexNext ==
  \/ /\ count < MaxWritten
     /\ \E m \in Models \cup {None}, t \in TokenModels \cup {None} : RememberVectors(m, t)
  \/ \E i \in active : RetireOwner(i)
  \/ \E request \in SUBSET Chunks \ {{}} :
       \/ \E m \in Models \cup {None} : Ingest(request, m)
       \/ Prune(request)
  \/ Reindex
  \/ Reload
  \/ \E j \in Jobs :
       \/ \E m \in Models : BeginReembed(j, m)
       \/ \E t \in TokenModels, force \in BOOLEAN : BeginBackfill(j, t, force)
       \/ EndReembed(j) \/ EndBackfill(j) \/ Abandon(j)

IndexSpec == IndexInit /\ [][IndexNext]_indexVars

-----------------------------------------------------------------------------
(* Properties *)

\* The store never mixes the vectors of two models where memories are searched:
\* whatever was remembered or ingested while a re-embed was under way.
OneModel == \A v \in embeddings \cup memVec : v.model = model

\* The projection holds exactly the vectors of the memories, across re-embeds,
\* reindexes and reloads.
IndexMirrors == memVec = MemoryVectors

\* The token matrices are of the active late-interaction model, whoever
\* switched it between another process's collection and its write.
OneTokenModel == \A v \in tokenEmbeddings : v.model = tokenModel

\* No vector of a pruned chunk is left for document search to find, also not in
\* the tables that a re-embed passed over.
NoOrphanVectors == \A v \in docVec : v.of \in chunks

\* Document search compares vectors of one model, until a re-embed switches the
\* model: it passes over the indexes of the documents.
DocumentsSplitByReembed ==
  [][(\A v \in docVec : v.model = model) /\ (\E v \in docVec' : v.model # model')
       => \E j \in Jobs : EndReembed(j) /\ job[j].model # model]_indexVars

\* A re-embed takes vectors from no active memory but those remembered after
\* it collected: each is younger than all it collected.
ReembedMissesNewcomersOnly ==
  [][\A j \in Jobs : EndReembed(j) =>
       \A i \in active, t \in job[j].targets :
         (\A v \in embeddings' : v.of # i) => t < i]_indexVars

\* Everything that memories are compared with is of one model: their vectors,
\* in both tables, and their token matrices.
ModelsKept == OneModel /\ OneTokenModel

\* The projections hold what their tables hold: of the memories exactly, and
\* of the chunks nothing that was pruned.
IndexesSound == IndexTypeOK /\ IndexMirrors /\ NoOrphanVectors
=============================================================================
