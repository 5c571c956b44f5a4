------------------------------- MODULE Archive -------------------------------
(***************************************************************************)
(* `export` and `import`: a store written out as a sequence of records and *)
(* read back into a new store, which then lives on.  The store is the one  *)
(* of MemoryStore with the tables that the archive also carries: spaces    *)
(* and silos, document chunks, retrieval cards, vectors and relationships. *)
(*                                                                         *)
(* A text and its hash, and every other check of a single row, are one     *)
(* field `sound`: of the row of a memory or a chunk it is `fit`, for what  *)
(* their writers store as they get it.  A memory has one version, with its *)
(* id.  Rows are written in one order for one set of rows (ORDER BY the    *)
(* primary key).                                                           *)
(***************************************************************************)
EXTENDS MemoryStore, Rankings

CONSTANTS
  DefaultSpace,  \* workspace-memory
  Cards,         \* the retrieval cards the callers write
  NewSpaces,     \* the spaces they create: pairs of a space and its default silo
  Writes,        \* the memories they write, in addition to MemoryStore's Requests
  Ingests,       \* the chunks they ingest
  Stamps,        \* whether import admits the metadata that verify leaves
  MaxChunks      \* bound: the most document chunks a behaviour ingests

None == 0
Summary == "summary"      \* the text a memory without a card is found by
LongTerm == "long-term"   \* the silo that init removes from DefaultSpace

ASSUME ArchiveAssumption ==
  /\ DefaultSpace \in Spaces /\ Summary \notin Cards /\ MaxChunks \in Nat
  /\ {ShortTerm, LongTerm} \subseteq Silos /\ NewSpaces \subseteq Spaces \X Silos
  /\ Writes \subseteq [space : Spaces, silo : Silos, expires : 0..Never, sourced : BOOLEAN,
                       card : Cards \cup {Summary}, vector : BOOLEAN, fit : BOOLEAN]
  /\ Ingests \subseteq [space : Spaces, vector : BOOLEAN, fit : BOOLEAN]
  /\ Stamps \subseteq BOOLEAN

VARIABLES
  defaults,  \* the spaces there are, with their default silos
  silos,     \* table silos
  details,   \* of a memory: its card, whether it has a vector, its source, and
             \* whether import admits its metadata, keys and project
  served,    \* column retrieval_text of the full-text tables
  docs,      \* table source_episodes, with the vectors of the chunks
  chunk,     \* the last id of a chunk
  related    \* the memories that are evidence of a relationship

tables == <<defaults, silos, details, served, docs, chunk, related>>
archiveVars == <<vars, tables>>

Chunk == [id : 1..MaxChunks, space : Spaces, vector : BOOLEAN, fit : BOOLEAN]
Detail == [card : Cards \cup {Summary}, vector : BOOLEAN, source : 0..MaxChunks, fit : BOOLEAN]

\* Every memory has the row of a silo that exists, the source it names is
\* there, and each has its rows in the tables beside its own.
ArchiveTypeOK ==
  /\ TypeOK
  /\ defaults \in [DOMAIN defaults -> Silos] /\ DOMAIN defaults \subseteq Spaces
  /\ silos \subseteq Spaces \X Silos
  /\ \A space \in DOMAIN defaults : <<space, defaults[space]>> \in silos
  /\ details \in [Ids -> Detail] /\ served \in [Ids -> Cards \cup {Summary}]
  /\ docs \subseteq Chunk /\ chunk \in 0..MaxChunks
  /\ \A i \in Ids : /\ <<mem[i].space, mem[i].silo>> \in silos
                    /\ details[i].source \in {None} \cup {d.id : d \in docs}
  /\ related \subseteq Ids

SeededSilos(space, silo) == {space} \X {ShortTerm, Durable, silo}

\* init of a new store
ArchiveInit ==
  /\ Init
  /\ defaults = [space \in {DefaultSpace} |-> Durable]
  /\ silos = SeededSilos(DefaultSpace, Durable)
  /\ details = <<>> /\ served = <<>>
  /\ docs = {} /\ chunk = 0 /\ related = {}

-----------------------------------------------------------------------------
(* The writers *)

\* Mutant of NewSilos: a default silo that is not a standard one is not seeded.
NewSilosStandard(space, silo) == SeededSilos(space, Durable)

\* seed_standard_silos
NewSilos(space, silo) == SeededSilos(space, silo)

CreateSpace(space, silo) ==
  /\ space \notin DOMAIN defaults
  /\ defaults' = [known \in DOMAIN defaults \cup {space} |->
                   IF known = space THEN silo ELSE defaults[known]]
  /\ silos' = silos \cup NewSilos(space, silo)
  /\ UNCHANGED <<vars, details, served, docs, chunk, related>>

\* retrieval_companion: the card, or else the summary.
Companion(detail) == detail.card

\* The silo must exist, and the source in the memory's space.
Admissible(w, source) ==
  /\ <<w.space, w.silo>> \in silos
  /\ IF w.sourced THEN \E d \in docs : d.id = source /\ d.space = w.space
     ELSE source = None

\* remember, of a request that is also one of MemoryStore's
Write(w, source, r, window) ==
  LET detail == [card |-> w.card, vector |-> w.vector, source |-> source, fit |-> w.fit] IN
  /\ Admissible(w, source)
  /\ Remember(r, window)
  /\ details' = Append(details, detail)
  /\ served' = Append(served, Companion(detail))
  /\ UNCHANGED <<defaults, silos, docs, chunk, related>>

\* verify_memory_tx merges a stamp and the caller's text into the metadata; a
\* shorter text in the place of a long one makes it fit again.
Verify(i, fit) ==
  /\ details' = [details EXCEPT ![i].fit = fit]
  /\ UNCHANGED <<vars, defaults, silos, served, docs, chunk, related>>

\* capture-triple and the graph task of dream: the relationship and both its
\* entities are of the space of the memory that is their evidence.
Relate(i) ==
  /\ related' = related \cup {i}
  /\ UNCHANGED <<vars, defaults, silos, details, served, docs, chunk>>

\* ingest_source, of a chunk that is new, into a space there is.  It checks the
\* metadata only, not the path and the description.
Ingest(c) ==
  /\ c.space \in DOMAIN defaults /\ chunk < MaxChunks
  /\ chunk' = chunk + 1
  /\ docs' = docs \cup {[id |-> chunk', space |-> c.space, vector |-> c.vector, fit |-> c.fit]}
  /\ UNCHANGED <<vars, defaults, silos, details, served, related>>

\* Mutant of Unsourced: the memories keep naming the chunk.
StillSourced(gone) == details

\* ON DELETE SET NULL
Unsourced(gone) ==
  [i \in Ids |-> IF details[i].source = gone.id
                 THEN [details[i] EXCEPT !.source = None] ELSE details[i]]

Prune(gone) ==
  /\ docs' = docs \ {gone}
  /\ details' = Unsourced(gone)
  /\ UNCHANGED <<vars, defaults, silos, served, chunk, related>>

-----------------------------------------------------------------------------
(* export *)

\* EXPORT_TABLES, those that hold rows here, with their columns.
Columns ==
  [schema_migrations |-> {"id"}, config_kv |-> {"id", "value"},
   spaces |-> {"id", "silo", "sound"}, silos |-> {"id", "space", "sound"},
   source_episodes |-> {"id", "space", "sound"},
   memories |-> {"id", "version", "source", "sound", "status", "space", "key", "observed",
                 "expires", "pinned", "silo"},
   memory_versions |-> {"id", "memory", "sound"},
   memory_representations |-> {"id", "text", "sound"},
   memory_events |-> {"id", "memory"}, memory_links |-> {"id"}, conflicts |-> {"id", "space"},
   entities |-> {"id", "space"}, relationships |-> {"id", "space", "entity"},
   embeddings |-> {"id"}]

\* The order of the file
ExportTables ==
  <<"schema_migrations", "config_kv", "spaces", "silos", "source_episodes", "memories",
    "memory_versions", "memory_representations", "memory_events", "memory_links",
    "conflicts", "entities", "relationships", "embeddings">>

\* import_tables_for_schema
TablesOf(schema) ==
  IF schema = 5
  THEN EntriesAt(ExportTables,
                 {k \in DOMAIN ExportTables : ExportTables[k] # "memory_representations"})
  ELSE ExportTables

Config(schema, protocol) ==
  {[id |-> "schema_version", value |-> schema], [id |-> "protocol_version", value |-> protocol],
   [id |-> "default_space", value |-> DefaultSpace]}

MemoryRow(i) ==
  [id |-> i, version |-> i, source |-> details[i].source, sound |-> details[i].fit,
   status |-> mem[i].status, space |-> mem[i].space, key |-> mem[i].key,
   observed |-> mem[i].observed, expires |-> mem[i].expires, pinned |-> mem[i].pinned,
   silo |-> mem[i].silo]

\* The rows of a table of this store.
RowsOf(t) ==
  CASE t = "schema_migrations" -> {[id |-> version] : version \in {5, 6}}
    [] t = "config_kv" -> Config(6, "ours")
    [] t = "spaces" -> {[id |-> s, silo |-> defaults[s], sound |-> TRUE] : s \in DOMAIN defaults}
    [] t = "silos" -> {[id |-> p, space |-> p[1], sound |-> TRUE] : p \in silos}
    [] t = "source_episodes" -> {[id |-> d.id, space |-> d.space, sound |-> d.fit] : d \in docs}
    [] t = "memories" -> {MemoryRow(i) : i \in Ids}
    [] t = "memory_versions" -> {[id |-> i, memory |-> i, sound |-> TRUE] : i \in Ids}
    [] t = "memory_representations" ->
         {[id |-> i, text |-> details[i].card, sound |-> TRUE] :
            i \in {j \in Ids : details[j].card # Summary}}
    [] t = "memory_events" ->
         {[id |-> <<i, events[i]>>, memory |-> i] : i \in Ids}
    [] t = "memory_links" -> {[id |-> l] : l \in links}
    [] t = "conflicts" -> {[id |-> c, space |-> mem[c[1]].space] : c \in conflicts}
    [] t = "entities" -> {[id |-> mem[i].space, space |-> mem[i].space] : i \in related}
    [] t = "relationships" ->
         {[id |-> i, space |-> mem[i].space, entity |-> mem[i].space] : i \in related}
    [] t = "embeddings" ->
         {[id |-> <<i, None>>] : i \in {j \in Ids : details[j].vector}}
           \cup {[id |-> <<None, d.id>>] : d \in {e \in docs : e.vector}}

Tables == [t \in Range(ExportTables) |-> RowsOf(t)]

\* The order of a table's rows depends on the rows alone.
Foremost(rows) == CHOOSE row \in rows : TRUE
Rest(rows) == rows \ {Foremost(rows)}

InOrder(rows) ==
  LET left[n \in 0..Cardinality(rows)] ==
        IF n = 0 THEN rows ELSE Rest(left[n - 1])
  IN  [n \in 1..Cardinality(rows) |-> Foremost(left[n - 1])]

Listed(t, rows) ==
  Each(LAMBDA row : [type |-> "row", table |-> t, data |-> row], InOrder(rows))

\* write_export_file
ArchiveOf(rows, schema) ==
  LET listed(t) == Listed(t, rows[t])
      body == EachIn(listed, TablesOf(schema)) IN
  <<[type |-> "header", protocol |-> "ours", schema |-> schema, tables |-> TablesOf(schema)]>>
    \o body
    \o <<[type |-> "footer", total |-> Len(body),
          counts |-> [t \in Range(TablesOf(schema)) |-> Cardinality(rows[t])]]>>

Export == ArchiveOf(Tables, 6)

-----------------------------------------------------------------------------
(* import: the records *)

Optional(t, id) == IF id = None THEN {} ELSE {<<t, id>>}

\* The foreign keys of a row.
Refs(t, row) ==
  CASE t \in {"silos", "source_episodes", "entities"} -> {<<"spaces", row.space>>}
    [] t = "memories" -> {<<"spaces", row.space>>, <<"silos", <<row.space, row.silo>>>>}
                           \cup Optional("source_episodes", row.source)
    [] t \in {"memory_versions", "memory_events"} -> {<<"memories", row.memory>>}
    [] t = "memory_representations" -> {<<"memory_versions", row.id>>}
    [] t = "memory_links" -> {<<"memories", row.id[1]>>, <<"memories", row.id[2]>>}
    [] t = "conflicts" -> {<<"spaces", row.space>>, <<"memories", row.id[1]>>,
                           <<"memories", row.id[2]>>}
    [] t = "relationships" -> {<<"spaces", row.space>>, <<"entities", row.entity>>,
                               <<"memories", row.id>>}
    [] t = "embeddings" -> Optional("memories", row.id[1])
                             \cup Optional("source_episodes", row.id[2])
    [] OTHER -> {}

Has(rows, t, id) == \E row \in rows[t] : row.id = id

\* insert_import_row: a row with other columns is refused, and so is one whose
\* key is taken or that refers to a row that has not come yet.
Insertable(rows, t, row) ==
  /\ DOMAIN row = Columns[t]
  /\ ~Has(rows, t, row.id)
  /\ \A ref \in Refs(t, row) : Has(rows, ref[1], ref[2])

NoRows == [t \in Range(ExportTables) |-> {}]

\* ImportState::new, after clear_import_tables
Start ==
  [ok |-> TRUE, header |-> FALSE, footer |-> FALSE, schema |-> 0, tables |-> {}, table |-> 1,
   total |-> 0, rows |-> NoRows]

Failed(p) == [p EXCEPT !.ok = FALSE]

HeaderFits(p, record) ==
  /\ ~p.header /\ ~p.footer /\ p.total = 0
  /\ record.protocol = "ours" /\ record.schema \in {5, 6}
  /\ record.tables = TablesOf(record.schema)

AcceptHeader(p, record) ==
  IF HeaderFits(p, record) THEN [p EXCEPT !.header = TRUE, !.schema = record.schema,
                                                   !.tables = Range(record.tables)]
  ELSE Failed(p)

Place == [t \in Range(ExportTables) |-> CHOOSE k \in DOMAIN ExportTables : ExportTables[k] = t]

RowFits(p, record) ==
  /\ p.header /\ ~p.footer
  /\ record.table \in p.tables
  /\ Place[record.table] >= p.table
  /\ Insertable(p.rows, record.table, record.data)

Inserted(rows, record) == [rows EXCEPT ![record.table] = @ \cup {record.data}]

AcceptRow(p, record) ==
  IF RowFits(p, record)
  THEN [p EXCEPT !.table = Place[record.table], !.total = @ + 1,
                 !.rows = Inserted(@, record)]
  ELSE Failed(p)

\* Mutant of FooterFits: the total is taken on trust.
FooterTrusted(p, record) == p.header /\ ~p.footer

FooterFits(p, record) ==
  /\ p.header /\ ~p.footer
  /\ record.total = p.total
  /\ DOMAIN record.counts = p.tables
  /\ \A t \in DOMAIN record.counts : record.counts[t] = Cardinality(p.rows[t])

AcceptFooter(p, record) ==
  IF FooterFits(p, record) THEN [p EXCEPT !.footer = TRUE] ELSE Failed(p)

\* process_import_line; the first refusal ends the import.
Accept(p, record) ==
  CASE ~p.ok -> p
    [] p.ok /\ record.type = "header" -> AcceptHeader(p, record)
    [] p.ok /\ record.type = "row" -> AcceptRow(p, record)
    [] p.ok /\ record.type = "footer" -> AcceptFooter(p, record)

\* parse_import_file
Parsed(records) ==
  LET upTo[n \in 0..Len(records)] ==
        IF n = 0 THEN Start ELSE LET before == upTo[n - 1] IN Accept(before, records[n])
  IN  upTo[Len(records)]

-----------------------------------------------------------------------------
(* import: the store they make *)

Keyed(rows, id) == {row \in rows : row.id = id}

\* What the archive lacks of `known`, and what it has otherwise.
Completed(rows, known) == rows \cup {row \in known : Keyed(rows, row.id) = {}}

\* Mutant of Normalised: the metadata is what the archive says.
NormalisedNot(rows, schema) == rows

\* normalize_imported_schema_metadata
Normalised(rows, schema) ==
  LET config == {CASE row.id = "schema_version" /\ schema = 5 -> [row EXCEPT !.value = 6]
                   [] row.id = "protocol_version" -> [row EXCEPT !.value = "ours"]
                   [] OTHER -> row : row \in rows["config_kv"]}
  IN  [rows EXCEPT !["schema_migrations"] = Completed(@, {[id |-> 6]}),
                   !["config_kv"] = Completed(config, Config(6, "ours"))]

\* validate_initialized
Initialized(rows) ==
  /\ Has(rows, "schema_migrations", 6)
  /\ rows["config_kv"] = Config(6, "ours")
  /\ Has(rows, "spaces", DefaultSpace)

ActiveVersions(rows) ==
  \A m \in rows["memories"] :
    \E v \in rows["memory_versions"] : v.id = m.version /\ v.memory = m.id

DefaultSilos(rows) ==
  \A s \in rows["spaces"] : Has(rows, "silos", <<s.id, s.silo>>)

\* The tables whose rows are looked at one by one; those of events, links,
\* conflicts, entities and relationships are not.
CheckedTables ==
  {"spaces", "silos", "source_episodes", "memories", "memory_versions",
   "memory_representations"}

SoundSpaces(rows) == \A t \in {"spaces", "silos"} : \A row \in rows[t] : row.sound
SoundSources(rows) == \A row \in rows["source_episodes"] : row.sound
SoundMemories(rows) == \A row \in rows["memories"] : row.sound
SoundVersions(rows) == \A row \in rows["memory_versions"] : row.sound
SoundCards(rows) == \A row \in rows["memory_representations"] : row.sound

Home(rows, t, id) == (CHOOSE row \in rows[t] : row.id = id).space

\* validate_import_space_isolation
MemoriesApart(rows) ==
  /\ \A m \in rows["memories"] :
       m.source # None => Home(rows, "source_episodes", m.source) = m.space
  /\ \A l \in rows["memory_links"] :
       Home(rows, "memories", l.id[1]) = Home(rows, "memories", l.id[2])
  /\ \A c \in rows["conflicts"] :
       \A k \in 1..2 : Home(rows, "memories", c.id[k]) = c.space

\* Mutant of GraphApart: the evidence is not compared.
GraphEndsApart(rows) ==
  \A r \in rows["relationships"] : Home(rows, "entities", r.entity) = r.space

GraphApart(rows) ==
  \A r \in rows["relationships"] :
    /\ Home(rows, "entities", r.entity) = r.space
    /\ Home(rows, "memories", r.id) = r.space

\* validate_import_integrity
Integrity(rows) ==
  /\ ActiveVersions(rows) /\ DefaultSilos(rows) /\ SoundSpaces(rows)
  /\ SoundSources(rows) /\ SoundMemories(rows) /\ SoundVersions(rows) /\ SoundCards(rows)
  /\ MemoriesApart(rows) /\ GraphApart(rows)

\* Mutant of CardOf: the projection forgets the cards.
CardForgotten(rows, m) == Summary

CardOf(rows, m) ==
  LET cards == {row \in rows["memory_representations"] : row.id = m.version}
  IN  IF cards = {} THEN Summary ELSE (CHOOSE row \in cards : TRUE).text

\* rebuild_fts
Projected(rows) ==
  {[id |-> m.id, fts |-> FtsRow(m), text |-> CardOf(rows, m)] : m \in rows["memories"]}

\* rebuild_vector_index reads the memory of every vector, which is NULL when
\* the vector is of a chunk, as a string.
VectorsReadable(rows) == \A e \in rows["embeddings"] : e.id[1] # None

\* Mutant of Cleaned: the repair is made in every space.
CleanedEverywhere(rows) ==
  LET used == {<<m.space, m.silo>> : m \in rows["memories"]} IN
  [rows EXCEPT !["spaces"] = {IF s.silo = LongTerm THEN [s EXCEPT !.silo = Durable] ELSE s :
                                s \in @},
               !["silos"] = {s \in @ : s.id[2] # LongTerm \/ s.id \in used}]

\* cleanup_vestigial_long_term_silo, which init_store runs on what it opens.
Cleaned(rows) ==
  LET used == {<<m.space, m.silo>> : m \in rows["memories"]} IN
  [rows EXCEPT !["spaces"] = {IF s.id = DefaultSpace /\ s.silo = LongTerm
                              THEN [s EXCEPT !.silo = Durable] ELSE s : s \in @},
               !["silos"] = {s \in @ : s.id # <<DefaultSpace, LongTerm>> \/ s.id \in used}]

\* import_store_into_path, and init_store of what it published.
Import(records) ==
  LET parsed == Parsed(records)
      rows == Normalised(parsed.rows, parsed.schema) IN
  [ok |-> /\ parsed.ok /\ parsed.footer
          /\ Integrity(rows) /\ VectorsReadable(rows) /\ Initialized(rows),
   rows |-> Cleaned(rows)]

\* The store moves: it is exported, imported under another path, and used there.
Reload ==
  LET imported == Import(Export) IN
  /\ imported.ok
  /\ served' = [i \in Ids |-> CardOf(imported.rows, CHOOSE m \in imported.rows["memories"] :
                                                      m.id = i)]
  /\ fts' = [i \in Ids |-> FtsRow(mem[i])]
  /\ recalls' = [i \in Ids |-> {}]
  /\ UNCHANGED <<now, count, mem, events, links, conflicts>>
  /\ UNCHANGED <<defaults, silos, details, docs, chunk, related>>

-----------------------------------------------------------------------------
(* Specification *)

\* dream; its reindex is rebuild_fts again.
Maintain(tasks) ==
  /\ Dream(tasks, [space |-> AllSpaces, silos |-> {}], FALSE)
  /\ served' = IF "reindex" \in tasks
               THEN [i \in Ids |-> CardOf(Tables, [version |-> i])] ELSE served
  /\ UNCHANGED <<defaults, silos, details, docs, chunk, related>>

ArchiveNext ==
  \/ \E new \in NewSpaces : CreateSpace(new[1], new[2])
  \/ /\ count < MaxMemories
     /\ \E w \in Writes, source \in 0..MaxChunks :
          \E r \in {q \in Requests : /\ q.space = w.space /\ q.silo = w.silo
                                   /\ q.expires = w.expires} :
            \E window \in ClaimWindows(r) : Write(w, source, r, window)
  \/ \E i \in Ids : Forget(i) /\ UNCHANGED tables
  \/ \E i \in Ids : \E c \in Corrections(i) : Correct(i, c) /\ UNCHANGED tables
  \/ \E i \in Ids, fit \in Stamps : Verify(i, fit)
  \/ \E i \in Ids : Relate(i)
  \/ \E c \in Ingests : Ingest(c)
  \/ \E gone \in docs : Prune(gone)
  \/ \E tasks \in DreamTaskSets : Maintain(tasks)
  \/ Reload

ArchiveSpec == ArchiveInit /\ [][ArchiveNext]_archiveVars

-----------------------------------------------------------------------------
(* Damage to an archive, by hand or on its way *)

IsRow(record, ts) == record.type = "row" /\ record.table \in ts

Widened(row) ==
  [column \in DOMAIN row \cup {"column"} |-> IF column = "column" THEN None ELSE row[column]]

\* The archive ends early, or one of its records is missing, is there twice,
\* has changed places with the next, got a column more or had its content edited.
Damaged(s) ==
  {SubSeq(s, 1, k) : k \in 0..(Len(s) - 1)}
    \cup {RemoveAt(s, k) : k \in DOMAIN s}
    \cup {InsertAt(s, k, s[k]) : k \in DOMAIN s}
    \cup {[s EXCEPT ![k] = s[k + 1], ![k + 1] = s[k]] : k \in 1..(Len(s) - 1)}
    \cup {[s EXCEPT ![k].data = Widened(@)] :
            k \in {j \in DOMAIN s : s[j].type = "row"}}
    \cup {[s EXCEPT ![k].data.sound = FALSE] :
            k \in {j \in DOMAIN s : IsRow(s[j], CheckedTables)}}

SpacedTables == {"source_episodes", "memories", "conflicts", "entities", "relationships"}

\* One row names another space.
Moved(s) ==
  {[s EXCEPT ![k].data.space = space] :
     space \in Spaces, k \in {j \in DOMAIN s : IsRow(s[j], SpacedTables)}}

-----------------------------------------------------------------------------
(* Properties *)

\* Whatever the callers wrote, corrected, related, ingested and pruned, an
\* export of the store can be imported.
ExportsReload == Import(Export).ok

\* Of all that the writers above store, four things make the store's own export
\* unreadable: a correction that names a replacement in another space, a chunk
\* with a vector, and what remember, verify or ingest took unchecked into a row.
RefusedOnlyForKnownReasons ==
  ~ExportsReload =>
    \/ \E l \in links : l[3] = "contradicts" /\ mem[l[1]].space # mem[l[2]].space
    \/ \E d \in docs : d.vector \/ ~d.fit
    \/ \E i \in Ids : ~details[i].fit

\* The second export of an imported store is the first, record by record, for
\* custom default silos and cards too.
RoundTrip ==
  LET imported == Import(Export) IN
  imported.ok => ArchiveOf(imported.rows, 6) = Export

\* Search answers from what import rebuilt as it did from what the writers,
\* retirements and reindexes had left.
SearchSurvives ==
  LET imported == Import(Export) IN
  imported.ok =>
    Projected(imported.rows) = {[id |-> i, fts |-> fts[i], text |-> served[i]] : i \in Ids}

\* A damaged archive is refused, or nothing of the store was lost.
DamageIsCaught ==
  \A s \in Damaged(Export) :
    LET imported == Import(s) IN imported.ok => imported.rows = Tables

Homes(rows, t, row) ==
  (IF t \in SpacedTables THEN {row.space} ELSE {})
    \cup {Home(rows, ref[1], ref[2]) : ref \in {r \in Refs(t, row) : r[1] \in SpacedTables}}

\* Whichever row of an archive was moved to another space, no row of the
\* imported store reaches over two.
ImportKeepsSpacesApart ==
  \A s \in Moved(Export) :
    LET imported == Import(s) IN
    imported.ok =>
      \A t \in Range(ExportTables) : \A row \in imported.rows[t] :
        Cardinality(Homes(imported.rows, t, row)) <= 1

\* What a store without metadata tables, a build of another name and schema 5
\* would have written of this store.
Foreign ==
  {ArchiveOf([Tables EXCEPT !["schema_migrations"] = {}, !["config_kv"] = {}], 6),
   ArchiveOf([Tables EXCEPT !["config_kv"] = Config(6, "theirs")], 6)}
  \cup (IF Tables["memory_representations"] = {}
        THEN {ArchiveOf([Tables EXCEPT !["schema_migrations"] = {[id |-> 5]},
                                       !["config_kv"] = Config(5, "ours")], 5)}
        ELSE {})

\* The archives of other producers import wherever this build's own does, and
\* into the same rows, metadata included.
OtherProducersImport ==
  ExportsReload =>
    \A s \in Foreign :
      LET imported == Import(s) IN
      imported.ok /\ \A t \in Range(ExportTables) \ {"schema_migrations"} :
                       imported.rows[t] = Tables[t]

\* What imports: everything but the kinds of rows that import refuses, whoever
\* produced the archive.
ImportsWhatItShould == RefusedOnlyForKnownReasons /\ OtherProducersImport

\* What came back is what went out, and is found as it was.
RoundTripKeepsAll == ArchiveTypeOK /\ RoundTrip /\ SearchSurvives

\* What was damaged or moved in the archive is refused, or does no harm.
BadArchivesRefused == DamageIsCaught /\ ImportKeepsSpacesApart
=============================================================================
