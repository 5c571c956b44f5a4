# TLA+ models of memkeeper

memkeeper keeps an assistant's long-term memory in one SQLite file. Several
short-lived and long-lived processes work on that file: CLI commands, the
`serve` daemon, MCP bridges, session hooks, nightly maintenance, and the child
processes of the Pi adapter. These modules model what their commands make of the
store, of its files, and of each other: which steps happen between which others,
and what a long history of legal commands can make of the tables. They are
checked by TLC on small instances; every safety and action property that holds, the
three refinements among them, is proved by TLAPS for all values of the constants.

Sections: [inventory](#inventory), [modules](#modules-and-code),
[runs](#runs), [bounds](#bounds), [fairness](#fairness), [proofs](#proofs),
[only checked](#what-is-only-model-checked),
[where the code differs](#where-the-code-differs-from-what-one-expects),
[not modelled](#what-is-not-modelled), [plan](#plan).

## Inventory

Paths are relative to the repository; `store/` is `crates/memkeeper-store/src/`,
`cli/` is `crates/memkeeper-cli/src/`.

| Component | State | Operations | Talks to | What is hard | What makes it correct |
|---|---|---|---|---|---|
| Curated memories, `store/lib.rs`, `recall.rs`, `dream.rs` | `memories`, two full-text tables, `memory_events`, `memory_links`, `conflicts`, `recall_events` | `remember` (five modes), `forget`, `correct`, `recall-log`, `dream` (promote, expire, reindex) | review queue, semantic index, entity graph: same transaction | long histories; the projection written by five statements in four functions; budgets and caps that cut lists | links form a tree that explains each `superseded` status; every status change is in the log; the projection repeats the rows; lapsed memories leave |
| Review queue, `store/lib.rs` 546–1491 | `memory_candidates` | submit, approve, reject, quarantine | approving calls `remember` | two reviewers; targets named long before they are looked at; a gate that is a setting of the process | a decision is taken once; an approval and its memory belong together; no unadjudicated capture where the gate is on |
| Semantic index, `store/lib.rs` 10354–10697, `schema.rs` | `embeddings`, `memory_vec_<dims>`, `source_episode_vec_<dims>`, active models in `config_kv` | vectors of remember and ingest, `reindex`, `reindex --embed`, import | embedding models; every writer | maintenance in two transactions with minutes of model time between | one model per store; the index mirrors the table |
| Token matrices, `store/lib.rs` 3602–3638, 10142–10645 | `memory_token_embeddings`, a copy per process | remember, `reindex --tokens`, late-interaction search | daemon, bridge, command line | a copy looked up by a count and a second | one model; the copy answers for the store |
| Evidence tier, `store/lib.rs` 4768–6020 | `source_episodes`, full-text rows, `document_search_events` | ingest, prune, mark extracted, search, duplicates, promotion candidates | semantic index | repair in place, rows of two kinds in `embeddings`, telemetry that arrives late | ingest is idempotent; what was extracted is not proposed again; fusion respects its arms |
| Entity graph, `store/graph.rs`, graph and link tasks of `dream.rs` | `entities`, `entity_aliases`, `relationships`, `related_to` links | upserts, merge, capture, projection; neighbours, context, full graph | `remember` (same transaction) | merges that relink rows in sequence; names that become ambiguous; drift between writes | a merge contracts the graph and loses no name; readers agree; dream reconciles |
| Retrieval and packs, `store/lib.rs` 1648–4215, 8370–9182, `cli/main.rs` | none | search, list, pack, rerank | semantic index, full text, graph, models | arms of different reach, caps, budgets, failing rerankers | scope; nothing lapsed; only full caps drop; packs keep their order |
| Archive, `store/lib.rs` 3706–4700, 6346–7400, `archive_spec.rs` | JSONL archive | export, import | all tables | every reference between tables; metadata of other builds | an export comes back, and is found, as it was; damage is caught |
| Files and schema, `connection.rs`, `schema.rs`, publishing in `store/lib.rs` | files, sidecars, write-ahead log, `user_version` | init, migrate, open, inspect, publish, backup | every command | kills between file steps; races for one path; a version read before the lock | what is published is whole and stays; reported writes stay |
| Spaces and silos, `spaces.rs` | `spaces`, `silos` | create, init, register on write | archive, curated memories | defaults that init removes | they come back from an archive |
| `serve` daemon, `cli/serve.rs`; bridge `mcp.rs`; hook `hook.rs` | socket file, loaded models, requests in flight | start, stop, accept, execute, route, time out, log recall | CLI commands, token matrices | socket bind race; requests executed after their caller left; models that fail on one request | no clobbering, nothing runs twice, nothing less than required is served (it is: see the findings) |
| Pi transport, `adapters/pi-extension/transport.mjs` | promise queue, pending request, child process, pipes | request, timeout, abort, close, every child event, CLI fallback | `serve --stdio` and CLI processes | late lines and close events of earlier processes; unknown outcome after a timeout | a write is performed once; an answer is the request's own; every request ends |
| Embedding providers, CLI parsing, output, dashboard, stats, core and protocol types, Pi tool definitions, scripts | none that outlives a call | | | | not modelled |

Every component, with its status and reason, is in `PROJECT.json` under
`components`; the places where this code can go wrong in a way that tests hardly
reach are listed there under `hazards`, each at its line.

## Modules and code

An operation of the store runs in one SQLite transaction, so in the modules about
tables each is one action, trailing statements included. An operation that
returns an error rolls back, and a dry run rolls back too: both are stuttering
steps. Ids are numbers, because ids sort by creation. Where an operation is split
into several transactions or file steps, it is several actions. A mutant (such as
`CanSupersedeRetired`, `PromoteFtsStale`) sits beside the definition it replaces
and is used by nothing else; a property is shown to be sensitive to it.

**MemoryStore** is the core: the curated tier.

| State | Code |
|---|---|
| `mem` | `memories`: status, space, (entity_key, claim_key), observed_at, expires_at, pinned, silo |
| `fts` | the two full-text tables, which are written together |
| `events` | `memory_events`, per memory: type, previous and new status |
| `links`, `conflicts` | `memory_links` of types supersedes, superseded_by, contradicts; the open conflict rows |
| `recalls` | the sessions of `recall_events` above the promotion floor |
| `now` | `now_timestamp`; `Never` is a NULL expires_at |

`Remember(r, window)` has the lookup of `same_claim_candidates` as a parameter:
`ClaimWindows` is the set of results the ordered, capped query may return, ties
included. `Dream` runs promote, expire and reindex one after the other on the
rows the previous task left, each cut to its budget first, as `dream.rs` does.
**MemoryLifecycle** is the abstract specification of it: what may happen to the
status and pin flag of a memory. `ImplementsLifecycle` is the refinement.

**ReviewQueue** extends MemoryStore with `memory_candidates` and composes the
queue with every operation of the store. An approval *is* a `Remember` of the
request that `remember_request_from_candidate` builds, joined with the UPDATE of
the candidate. `ImplementsStore` says that, projected to the store's tables, a
queue behaviour is a store behaviour.

**SemanticIndex** models who has a vector by which model. A re-embed and a token
backfill are a `Begin` (collect, one transaction) and an `End` (write, another),
with anything in between; `Abandon` is a failed model run, a refused write or a
dead process. Memories and chunks appear only as owners of vectors.

**Documents** is the evidence tier: `chunks` (`source_episodes` with their ledger
status), `fts`, `vectors`, and the telemetry of searches. `Ingest` goes chunk by
chunk through the dedupe and repair of `maybe_repair_ingested_chunk`. A search
reads one snapshot (`Search`) and logs in a transaction of its own (`Log`), so that
prunes and extractions come between. The readers (`Fused`, `Duplicates`,
`GetDocument`, `Candidates`) are operators of a state.

**EntityGraph** is the graph of one space (every statement of `graph.rs` carries
the space in its predicate): `ent`, `alias`, `rels`, and the memories and links as
far as the graph reads them. Upserts, captures, merges with the row-by-row
relinking of `relink_active_relationships`, and `dream`'s link and graph tasks are
actions; `SearchEntities`, `Neighbors`, `FullEdges` and `Context` are operators.

**Retrieval** models what search, list and pack answer. A read runs in one
snapshot, so the answers are operators of a state; the actions are what changes
the state between two reads: memories are remembered, retired, lapse, get token
matrices, and are dreamt over. What the models and SQLite compute of a query and a
text (bm25, distance, MaxSim, rerank score) is the constant `Of`. The operators
follow the functions: `Lexical`, `Semantic`, `LateInteraction` are the arms;
`Interleaved`, `Basic`, `Merged` the pools; `Seeds`, `Paths`, `Join` the routes
through entities and relationships; `Assembled`, `Pack`, `RetrievalOnly` the packs.

**Archive** extends MemoryStore with the other tables an archive carries (spaces,
silos, chunks, cards, vectors, relationships, metadata). Of the texts that import bounds
and their writers do not (`metadata_json` after `verify`, the keys and metadata of a
`remember`, the path and description of an `ingest`), a row has one flag, `fit`: whether
import admits them. `Verify` may set it either way. `Export` is a sequence of records; `Import` checks and inserts them in the code's order and rebuilds what is
derived. `Reload` replaces the store by the import of its export, and the
behaviour goes on from there.

**StoreFiles** is about files: `files` is everything ever written, `at` what is
under each path, `hot` the paths with a write-ahead log that no connection has
checkpointed. `disk` is what a main file alone holds (what `immutable=1` sees),
`live` what a connection sees. `cut` are the files a kill left between the switch of
the journal mode and the first schema. init, import, export, backup, migration and write are
sequences of steps, and a process may be killed between any two.

**TokenMatrices** and **Daemon** are the long-lived processes: the rows of the
token matrices with the copy each process keeps, and the socket daemon, bridges and
hooks around it. `Load`, `Probe`, `Remove`, `Bind` are the start-up of
`run_serve_socket`; `Ask`, `Send`, `Timeout`, `Disconnect`, `After` the callers; a
request is executed on a thread of its own (`jobs`), whether or not its caller still
waits. The cache look-up is two steps, `ReadKey` and `Score`, because the code reads
the key before it takes the lock. A loaded model may fail on one request (`Failing`):
`Used` is what the request then runs on, `Admits` and `Ordered` say when it is refused.
A `remember` takes a fresh memory each time, also when it is the repetition of one
that was performed.

**StdioTransport** models the Pi adapter's client with the processes it spawns.
Node runs one handler at a time and the promise chain it frees before the next
event: a handler is one action, guarded by `EventLoopFree`. Processes and pipes run
beside it; the handler of `stdout` is not bound to a process, so the lines and the
close event of a killed child still arrive. **RequestContract** is what a caller
relies on: a request ends once, answers belong to performed requests, a mutating
command is performed at most once. `ImplementsContract` is the refinement.

**Rankings** holds what the readers share: ordered, cut and deduplicated lists.
`MC*` modules give the values that a configuration cannot write, and symmetry sets;
`*_proofs` modules hold the theorems.

## Runs

A property whose name ends in `Sound`, `Kept`, `Stay` and the like is a conjunction of
named parts, each with its own comment in the module; `PROJECT.json` has a mutant for
every part, so that no part holds for want of a way to break it.

| Run | Module | Properties and their parts | Result |
|---|---|---|---|
| `store` | MemoryStore, fair | `RowsSound` (types, only corrections cross spaces), `SupersessionTree`, `AuditTrail`, `ImplementsLifecycle`, `FtsMirrorsMemory`, `RecalledNeverExpires`, `LapsedEventuallyLeave` | hold; the last two but for what the budget cuts, which they spell out |
| `review_decisions` | ReviewQueue | `ApprovalsSound` (types, approvals make memories, captures adjudicated), `ClaimOrder`, `DecisionsAreFinal`, `ImplementsStore` | hold |
| `semantic_maintenance` | SemanticIndex | `ModelsKept` (vectors, token matrices), `IndexesSound` (types, mirror, no orphans), `DocumentsSplitByReembed`, `ReembedMissesNewcomersOnly` | hold |
| `documents` | Documents | `ChunksSound` (types, full text mirrors, clusters across sources), `IngestsSound` (idempotent, reads back, extracted not proposed, other spaces untouched), `FusionRespectsArms` | hold |
| `graph` | EntityGraph, fair | `MergesKeepGraph` (contraction, names), `CapturesKeepNamesUnique`, `ReadersSound` (types, connected neighbourhoods, invisible caps, agreement), `DriftIsReconciled` | hold |
| `retrieval` | Retrieval, fair | `PoolsSound` (types, scope, full caps only), `SearchesSound` (nothing lapsed, vectorless kept, pages partition), `PacksSound` (relevant pack speaks, degraded order), `RetiredEvidenceUnblocks` | hold |
| `archive` | Archive | `ImportsWhatItShould` (refused for four reasons only, other producers), `RoundTripKeepsAll` (types, round trip, searches survive), `BadArchivesRefused` (damage, moved rows) | hold |
| `archive_reload` | Archive | `ExportsReload` | **violated**: an export with an embedded chunk, with a correction by a memory of another space, or with a row that was stored longer than import admits, cannot be imported |
| `files` | StoreFiles | `WritesStay` (whole, acknowledged, cards served), `StoresUsable` (types, quiet stores readable, init rerunnable), `FilesStay` | hold, with the exceptions the parts name |
| `daemon` | Daemon | `CallsSound` (types, at most once, recall once), `OneTokenModel`, `ClobberOnlyInRace`, `MatricesKept`, `CacheFollowsStore` | hold |
| `daemon_requirements` | Daemon | `NeverLexicalOnly` | **violated**: a server that is required to be semantic answers the hook's pack on words alone when its models fail on that request |
| `transport` | StdioTransport, fair | `ClientSound` (types, writes once, no lost process, reads fall back), `ImplementsContract`, `EveryRequestEnds` | hold |

The violated runs quote, in `PROJECT.json` `findings`, the sentences of
`docs/operations.md` and of the repository's `README.md` that they contradict.

**Deadlock** is not checked where a behaviour really ends: the requests are
answered, or the bounds on rows are used up.

**Mutants.** For each property of a passing run `PROJECT.json` names at least one
plausible bug (a dropped guard, swapped operands, an index left behind) with which
TLC finds that property violated under the same configuration.

## Bounds

`MaxMemories`, `MaxTime`, `MaxCandidates`, `MaxRels`, `MaxChunks`, `MaxLog`, `MaxJobs`,
`MaxCrashes`, `MaxStops`, `MaxOutside`, `MaxClock`, the processes and the request sets
bound behaviours; the other constants are the code's own limits, given small values.

- `store`: two families of behaviours. Writers: three memories show a chain (a supersedes b
  supersedes c), a memory named twice, and a claim lookup that is cut (cap 2 with three rows);
  two spaces, pinned and not, kinds that auto-supersede and not, three modes. Dream: two
  memories with a TTL and a budget of one, every way the cut takes the wrong one, with a
  pinned memory in the way.
- `review_decisions`: two candidates for two memories, one observed out of order.
- `semantic_maintenance`: two maintenance processes show every overlap of two collected
  states; a third would only write over the second. Three models, two of one dimension.
- `documents`: four requests that share contents within a source, across sources and
  across spaces, three chunk ids, a search whose telemetry arrives late.
- `graph`: three keys are what a merge that collides and makes a self-loop needs, two
  relationships what it needs to collide.
- `retrieval`: four memories, each from a small set that differs in space, key, text,
  expiry, vector and matrix; packs of one and two memories, so that every cap is full in
  some state and has room in another.
- `archive`: two memories, one card, one chunk, a space with the default silo
  `long-term` that init removes elsewhere, and whatever `verify`, `remember` and `ingest`
  leave that import does not admit (`Ingests`, `Stamps`); in every state every record is damaged, lost,
  repeated, swapped and moved in turn.
- `files`: three jobs of two processes and two kills on a store of schema 5 and an output
  path: every pair of jobs interleaves, with a third job that finds what they left.
- `daemon`: three families of initial states instead of one, each a state the program
  gets into: cold servers that race; a warm server that stops under a bridge and a hook;
  a warm server that stays while the command line writes, forgets and reindexes. Each
  leaves the budget for what it is about. On a request nothing fails, or the reranker, or
  both models that make a search semantic (`Failing`).
- `transport`: two processes with three requests show a late line, a late close event
  and a restart.

The theorems below carry the invariants they are about to all values.

## Fairness

- `MemoryStore!LiveSpec`, `EntityGraph!LiveSpec` and `Retrieval`'s specification assume
  weak fairness of the nightly dream job of `docs/operations.md`, the whole store with default
  flags, and of nothing else; `MCMemoryStore` assumes it of its dream family. In the run `store` the job's list has `promote` before `expire`,
  which the list in that document lacks; `LapsedEventuallyLeave` holds with it and without,
  `RecalledNeverExpires` with it only. `DriftIsReconciled` asks only for behaviours in which, from
  some point on, nothing but that job changes the store.
- `StdioTransport!LiveSpec` assumes what Node gives: a timer that is not cleared fires
  (`Timeout`, and the bounded CLI run's `CliFail`), a promise reaction runs (`Start`), a
  failed spawn is reported (`SpawnError`). Nothing is assumed of the processes: they may
  hang for ever.

## Proofs

| Module | Theorems | Argument |
|---|---|---|
| `MemoryStore_proofs`, store | `TypeCorrect`, `FtsAlwaysMirrors`, `AuditAlwaysExplains`, `SupersessionAlwaysTree`, `RowsAlwaysSound`, `StoreImplementsLifecycle`, `DefaultWritesKeepClaimOrder`, `PromotedBeforeExpired` | `TypeOK` is inductive, the others relative to it, one lemma per operation. `UnnamedCanBeSuperseded` says that what the claim lookup retires is active, unpinned and in the space; `DreamEffect` reduces a dream run to a set of promoted and a set of expired memories, all active. The tree rests on two facts: a new link's parent is the new, youngest row, and its child was active and so had no parent yet. `RowsAlwaysSound` needs `CrossInv`: a memory corrected from another space is tombstoned, and nothing appends to the log of a tombstoned memory. `DefaultWritesKeepClaimOrder` is about the behaviours in which every write is a `DefaultWrite`, which its statement says; corrections, forgets, recalls and dream runs are free. `PromotedBeforeExpired` counts: what the promotion's budget takes is the recalled memories with fewer than a budget of recalled ones before them, and what it promoted is silo and expiry away from the list of the lapsed. It is about jobs whose expiring runs also promote; a run of `expire` alone has nothing to promote first. |
| `MemoryStore_proofs`, queue | `QueueTypeCorrect`, `QueueImplementsStore`, `QueueKeepsSupersessionTree`, `QueueDecisionsAreFinal`, `CapturesAlwaysAdjudicated`, `ApprovalsAlwaysSound` | An approval is a `Remember` with a member of `Requests`, so a queue step is a store step or none, and the store's theorems carry over. `StoreKeepsRows` (no step of the store moves a memory or removes a link) is what keeps an old approval true. |
| `MemoryStore_proofs`, archive | `ArchivesKeepAll`, `ArchivesImport`, `BadArchivesAreRefused`, `MovesKeepTheStore`, `MovesImplementLifecycle` | `RoundTripKeepsAll` is not inductive: `ArchiveInv` adds that every space has its seeded silos, that no two chunks share an id and a memory's source is in its space, and that the full-text tables serve the card. `Read(s, n, p)` is what the parser p knows after n records of the file s, if it took them all; by induction over the records (`StepRead`, with `InductionTo`) reading an export back gives the rows that went out (`ReadBack`), whatever the length of the archive. `IntegrityIs` says which references the checks look at, and `OwnImport` that those of an export hold but for the four that the property names; `KnownReasons` ties those to what a correction, an ingest, a `remember` or a `verify` wrote. For the damaged archives the induction goes the other way: `OkTells` says what a successful import says of its file, `Complete`, that it ends with a footer that counts its rows, which are rows of the known tables and columns and refer to each other as they should; `EditedTells` follows an edited record to the count, key or reference it breaks. `ReachedIs` and `PassedApart`: an archive that passed the checks has no row that reaches over two spaces. The last two theorems put moves between the writes: what holds of a store holds however often it went through an archive. |
| `Retrieval_proofs`, reads | `PoolsStaySound`, `SearchesStaySound`, `PacksStaySound` | The properties are about what a read answers in a state, so `IInv` is small: the types, the bound, and that a relationship is in the space of its evidence. The argument is about the answers. Each arm sorts by a strict order that ends with an id, so it is a list without repetitions of memories that were recalled (`Sorted`), and the pages of a list cover it, each entry in one window (`WindowOf`). Merging arms and queries keeps order and uniqueness (`PoolIs`), the graph adds only what the arms had not found, each for a path of edges within the request's spaces (`JoinIs`), and what is missing was cut by a cap that was full. A pack is the longest beginning of the ranked pool that the budgets admit (`AssembledIs`); `PlacesRank` relates the places in it to the scores, or to the places in the pool where no reranker answered. |
| `Retrieval_proofs`, vectors | `VectorsOfOneModel`, `IndexAlwaysMirrors`, `TokensOfOneModel`, `NoOrphans`, and together `ModelsAlwaysKept`, `IndexesAlwaysSound`; `OnlyReembedsSplitDocuments`, `ReembedsMissOnlyNewcomers` | About SemanticIndex, which keeps what the searches compare with. `IndexInv`: the writers are admitted for the active model only, and a re-embed replaces vectors and active model in one step, so what it collected long ago does no harm. `CollectedFirst` keeps what a running re-embed knew when it collected: a memory it lacks is younger than that. |
| `StdioTransport_proofs` | `TypeCorrect`, `WritesOnce`, `ProcessesKept`, `ReadsAlwaysFallBack`, `ClientAlwaysSound`, `TransportImplementsContract` | `WriteAtMostOnce` is not inductive: it says nothing of a line that still waits on a pipe. `RunsInv` counts past runs together with the waiting line against the ways a request was sent, `PipeInv` keeps a line on the pipe of its carrier only, `SentInv` keeps a written write from the CLI. `EventSettles` shows that all event handlers settle at most one request, for a reason. |
| `Daemon_proofs` | `ClobbersOnlyInRace`, `StoresKeepOneTokenModel`, `MatricesLostToForceOnly`, `CallersContract`, `CopiesFollowStore` | `SocketInv`: a server that has looked and is about to remove the file knows every server it did not see bound. The model of the rows is inductive with the model the store is bound to and with what a backfill collected. `CallInv` counts, for each call, the request in flight, the job and the executions together: they are one at most, and recall is owed or logged. `CopiesInv` says there is for each process a snapshot its copy was loaded from; snapshots of one store are nested in time (`Nested`), so two with the same number of rows that no one lost a row between are the same (`SnapshotsStand`). |
| `StoreFiles_proofs` | `WritesKept`, `StoresKept`, `FilesKept` | `IInv` has eight parts, TLC checked each first. `Names` and `Apart`: a file has one name at a time and what a process has open is under its path or was taken back. `Contents`: a content is one the program can make. `Relied`: what a process at each step knows of the file it writes, copies or is to publish. `Begun` and `Old`: a half-made schema belongs to an init that goes on or was killed, and a store of schema 5 is worked on under its first path only. |
| `Documents_proofs` | `ChunksAlwaysSound`, `FusionAlwaysRespectsArms`, `IngestsAlwaysSound` | `After(t, r, i, u)` says what the first i iterations of the loop of `ingest_source` made of the tables: what is kept, what is written where, and that every content is there at its last place so far. It is proved by induction over i, and gives idempotence (a second run changes nothing it reads), reading back, and with it the inductive invariant `IInv`, in which a chunk's space, content and path identify it. The lemmas on lists (`Rankings_proofs`) carry `GetDocument`, `Candidates` and the fusion, whose order of fractions is shown strict by cross multiplication (`Fractions`, `Sums`). |
| `EntityGraph_proofs` | `TypeCorrect`, `MergesAlwaysKeepGraph`, `CapturesAlwaysKeepNamesUnique`, `ReadersAlwaysSound` | `IInv` adds to the types that an entity without a row has no aliases. The loop of `relink_active_relationships` is followed turn by turn: `Looped` says, once the first i rows are treated: the others stand as they did, an active row of the source speaks of the target and not of it twice, and what a row of the source said is said by an active row; `LoopTurn` is its step, `MergeContracts` the result. The loops of captures and of the graph task are instances of one lemma about chains of upserts (`UpsertChain`). A name is found by a search exactly when an active entity has it (`Found`), and `NewlyNamed` says that whoever gets a name through a capture of new keys has it from the capture, when nobody had it before. What the readers make of a graph follows from its types alone. `Walked` is what a walk of up to d steps has, by induction over d (`WalkIs`); `LastStep` says that every entity but the seed is reached over an edge from one step nearer. The order of the rows is a strict order of quadruples (`NearListed`), in which that edge comes before any row whose nearer end is no nearer than what it reaches (`Connected`): no cut can keep the row and drop the edge. `CapsKeepStart`: the caps leave the first n entries after the evidence, which are different memories, and a list without its repetitions begins as its first n different entries do (`StartDecides`). |
| `Rankings_proofs` | lemmas only | `InductionTo`, induction below a bound from the least element of a set of naturals, and `Recursive`, that a recursive function over 0..n exists; `Sorted`, `MaxIs`, `EntriesAtIs` and `OnceCounts` for sorting by score, largest entries, filters and the number of entries of a list without repetitions; `ListingIs` and `OneList`: what ORDER BY makes of a set in a strict order, and that it is the only such list; what the cuts, filters and concatenations of lists keep (`FirstEntries`, `AmongEntries`, `AmongAll`, `FlatOnce`, `FlatCut`), and what dropping repetitions does to a list, to one that begins like it and to one that has more (`DistinctIs`, `StartDecides`, `FewerDistinct`). |

The proofs assume the named assumptions of the modules and no more:
`BoundsAssumption` and `RequestAssumption` (limits are naturals, budget and threshold
positive, the name `*` is no space), `QueueAssumption` (the store's requests include those
the queue builds), `SemanticAssumption` (chunks are no numbers, NULL is no model),
`TransportAssumption` (a command is a read or not), `TokenMatricesAssumption` and
`DaemonAssumption` (who the processes are, that the memories are finitely many, and that
no model, caller or call is called what stands for none), `StoreFilesAssumption`
(finitely many stores), `DocumentsAssumption` and `GraphAssumption` (what the callers send
has the fields its type has; keys are finitely many naturals, NULL is no key),
`RetrievalAssumption` (requests and scores have their types, windows and factors are
positive, a word is one of its variants) and `ArchiveAssumption` (the store has its default
space, and no card is the summary). TLC evaluates each of them in some run. No bound on behaviours is used in a
proof except as a number. `Daemon_proofs` is about `Daemon!Spec`, which starts from cold
servers and gets to the run's warm ones by its own steps.

## What is only model-checked

- Liveness (`LapsedEventuallyLeave`, `EveryRequestEnds`, `DriftIsReconciled`,
  `RetiredEvidenceUnblocks`) is outside the prover's reach.
- Two theorems have a hypothesis that their runs meet and a caller need not:
  `DefaultWritesKeepClaimOrder` (every write uses the defaults) and `PromotedBeforeExpired`
  (a run that expires also promotes).

Induction over data is a matter of form. The library's induction theorems take a predicate,
which the installed provers cannot instantiate; `Rankings_proofs` goes round that with
the least element of a set of naturals (`WFMin` of the library), which gives induction
over the turns of one loop at a time. The models therefore write their loops as recursive functions.

## Where the code differs from what one expects

Apart from the findings, the models have these behaviours of the code; each is either
spelled out by a property (named) or has no document that forbids it.

- More than five actives of one claim survive a `supersede` write in part.
- A recalled memory behind the promotion budget may be expired by the run that should have
  promoted it (`RecalledNeverExpires` says when). The nightly job of
  `docs/operations.md` passes `expire,reindex,dedupe,graph` and never promotes: where it
  is the only one, a recalled memory ends with its TTL like any other.
- Pinned lapsed memories at the head of the expiry order starve what is behind them
  (`LapsedEventuallyLeave`).
- A memory remembered while a re-embed runs its model loses its vector
  (`ReembedMissesNewcomersOnly`), and the document indexes keep vectors of the old model
  (`DocumentsSplitByReembed`).
- The close event of an earlier child fails the Pi adapter's current request; a read is then
  tried by the CLI, a write is reported failed.
- The arms of a search hide what has lapsed (`ArmsHideLapsed`); the entity and graph
  routes of a pack do not. A relationship whose evidence is retired fails every pack that
  reaches it until dream runs, and for good when the evidence is past `valid_to`, or pinned and
  past `expires_at` (`RetiredEvidenceUnblocks`).
- `graph context` may leave a memory out and still report `truncated: false`
  (`CapsAreInvisible`). A capture of a retired key revives it with its old aliases, and a
  capture of the memory's own subject is not looked up by its names, because `remember`
  projects the subject before it resolves the capture: in both cases a name may come to
  belong to two entities, and `CapturesKeepNamesUnique` leaves them out. A capture
  whose alias is its own name is accepted once and refused when repeated.
- A chunk ingested without a model is never embedded by a later ingest. A changed file
  keeps its old chunks beside the new ones until they are pruned.
- A kill between switching the journal mode and committing the first schema leaves a path that
  `init` refuses. `InitRerunnable` excepts that path and no other: a store that had a schema,
  such as the one of `v0.2.x` whose upgrade the repository's `README.md` (line 90) calls safe
  to rerun, stays rerunnable wherever an init or a migration of it is killed.
- Two processes that migrate one store may seed the cards twice (`CardsServed`); an import or
  backup that fails its last check removes a file that another process may have written into
  (`AcknowledgedStay`).
- The token-matrix copy is keyed by row count and second and not by store
  (`CacheFollowsStore` names the two gaps). Two servers started together may take each
  other's socket file (`ClobberOnlyInRace`).
- What the environment requires is checked by the process that executes: a bridge that routes to
  a daemon may be answered with less than its own environment requires.
- A process that is required to be semantic refuses a search whose embedding fails, and
  nothing else: the embedding of a pack (`cli/main.rs` 1531–1538) and of a document search
  (1298–1305) and the late-interaction encoding of either query (1424–1433, 1456–1463) log
  the failure and go on (`NeverLexicalOnly`, the second finding). The late-interaction half of a search may
  be missing likewise, which its embedding makes up for.
- `docs/operations.md` (163–167) says that with `MEMKEEPER_REQUIRE_RERANK=1` a reranked search
  refuses rather than return another order. It refuses when the reranker is not loaded; when
  it fails on the request the search keeps the plain order (`cli/main.rs` 883–903), as the
  comment at 699–702 says. A pack does refuse (`Ordered`).
- Import bounds texts that the writers do not (`RefusedOnlyForKnownReasons`): `verify`
  (`store/lib.rs` 1551–1570) and `remember` store metadata and keys, `ingest` paths and
  descriptions, with which the store's own export is refused (6113, 6272).
- An export carries neither the review queue nor recall events nor token matrices.

## What is not modelled

- SQLite itself: a transaction is atomic and isolated. Busy errors and snapshot upgrades
  that fail are stuttering steps; crashes inside a commit are SQLite's.
- `dream`'s dedupe task, which only reports; migrations before schema 5. `verify` is
  modelled in Archive only, where what it stamps matters; nothing else reads it.
- In Archive: the name of a space that an `ingest` creates by itself, which import may find too
  long, and the repair of a chunk, which is in Documents. A late repair can make a chunk fit
  again or not, as its first ingest could.
- The HTTP mode of the daemon, the dashboard, statistics and doctor, argument parsing
  and output, the tool definitions of the Pi extension and of the bridge: no state of
  their own and no property beyond repeating what they do.
- Inference of the embedding, late-interaction and reranking models: constants.
- The text of memories, requests and cards, except as members of small sets.

## Plan

Everything below would be new.

1. Writers with deferred transactions over MemoryStore: snapshot at the first read,
   refused upgrade, busy timeout; refines MemoryStore.
2. What a database that moved by archive looks like to a daemon that still serves the old one.
