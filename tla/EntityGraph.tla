----------------------------- MODULE EntityGraph -----------------------------
(***************************************************************************)
(* The entity graph of one space: `entities`, `entity_aliases` and         *)
(* `relationships`, as graph upserts, merges, the captures of `remember`   *)
(* and the link and graph tasks of `dream` change them, and the readers    *)
(* that walk it.  Every statement of the source carries the space in its   *)
(* predicate, so one space stands for all.                                 *)
(*                                                                         *)
(* An entity is named by its key, which is unique in the space and never   *)
(* changes; keys and relation types are numbered in their text order.      *)
(* Relationship and memory ids are positions: ids sort by creation.  What  *)
(* an operation refuses rolls its transaction back and is a stuttering     *)
(* step, as is a dry run.                                                  *)
(***************************************************************************)
EXTENDS Rankings

CONSTANTS
  Keys,           \* entity keys, a set of naturals without 0
  Names,          \* normalized names other than keys
  DerivedName,    \* canonical_name_from_entity_key
  Types,          \* the relation types the callers use, naturals above 0
  Tags,           \* discriminative topic tags
  MinSharedTags,  \* DREAM_LINK_MIN_SHARED_TAGS
  MaxTagMemories, \* DREAM_LINK_MAX_TAG_MEMORIES
  Budget,         \* DreamRequest.max_memories
  NoCapture,      \* a remember without a capture
  Captures,       \* the graph captures the callers send
  EntityRequests, \* the entity upserts the callers send
  EdgeRequests,   \* the relationship upserts the callers send
  Subjects,       \* the entity keys the writers give their memories
  TagSets,        \* the tags they give them
  MaxRels,        \* bound: the most relationship rows
  MaxMemories     \* bound: the most memories

NoMemory == 0     \* a NULL memory_id
NoKey == 0        \* a NULL entity_key
RelatedTo == 0    \* the link type `related_to`, which no capture may use

Surfaces == Keys \cup Names

EntityStatuses == {"active", "merged", "tombstoned"}
RelStatuses == {"active", "superseded", "conflicted", "tombstoned"}

EntityRequest ==
  [key : Keys, name : Names, aliases : SUBSET Names, status : EntityStatuses]
EdgeRequest ==
  [subject : Keys, type : Types \cup {RelatedTo}, object : Keys, memory : Nat,
   status : RelStatuses]

\* A graph capture names some keys, each with a canonical name and aliases, and
\* typed edges between keys.
CaptureRequest(c) ==
  /\ DOMAIN c.name \subseteq Keys /\ DOMAIN c.aliases = DOMAIN c.name
  /\ \A k \in DOMAIN c.name : c.name[k] \in Surfaces /\ c.aliases[k] \subseteq Surfaces
  /\ c.edges \in Seq(Keys \X (Types \cup {RelatedTo}) \X Keys)

ASSUME GraphAssumption ==
  /\ Keys \subseteq Nat \ {0} /\ IsFiniteSet(Keys)
  /\ Types \subseteq Nat \ {0}
  /\ DerivedName \in [Keys -> Names]
  /\ {MinSharedTags, MaxTagMemories, Budget} \subseteq Nat \ {0}
  /\ EntityRequests \subseteq EntityRequest
  /\ EdgeRequests \subseteq EdgeRequest
  /\ \A c \in Captures : CaptureRequest(c)
  /\ Subjects \subseteq Keys \cup {NoKey} /\ TagSets \subseteq SUBSET Tags
  /\ MaxRels \in Nat /\ MaxMemories \in Nat

VARIABLES
  ent,    \* table entities: status and canonical name per key
  alias,  \* table entity_aliases: the normalized aliases per key
  rels,   \* table relationships
  mem,    \* what the graph reads of memories: key, tags, active or not
  links   \* the memory_links of type related_to, from the older memory

vars == <<ent, alias, rels, mem, links>>

Entities == [status : EntityStatuses, name : Surfaces]
Absent == [status |-> "absent", name |-> "none"]

Rel(s, t, o, m, status) ==
  [subject |-> s, type |-> t, object |-> o, memory |-> m, status |-> status]

Triple(r) == <<r.subject, r.type, r.object>>
Incident(r, k) == k \in {r.subject, r.object}
Live(rs) == {i \in DOMAIN rs : rs[i].status = "active"}
Alive(m) == m \in DOMAIN mem /\ mem[m].active

TypeOK ==
  /\ ent \in [Keys -> {Absent} \cup Entities]
  /\ alias \in [Keys -> SUBSET Surfaces]
  /\ rels \in Seq([subject : Keys, type : Types \cup {RelatedTo},
                   object : Keys, memory : 0..Len(mem), status : RelStatuses])
  /\ \A i \in DOMAIN rels : Absent \notin {ent[rels[i].subject], ent[rels[i].object]}
  /\ mem \in Seq([key : Keys \cup {NoKey}, tags : SUBSET Tags, active : BOOLEAN])
  /\ links \subseteq (DOMAIN mem) \X (DOMAIN mem)

\* A store may hold memories without an entity: nothing that imports an
\* archive asks for one.
Init ==
  /\ ent = [k \in Keys |-> Absent]
  /\ alias = [k \in Keys |-> {}]
  /\ rels = <<>>
  /\ mem \in {<<>>} \cup
       {<<[key |-> k, tags |-> tags, active |-> TRUE]>> : k \in Subjects, tags \in TagSets}
  /\ links = {}

-----------------------------------------------------------------------------
(* Rows.  Operators on rows take the tables as arguments, because one      *)
(* transaction applies several of them.                                    *)

\* exact_entities_for_span: the active entities a surface names.
Named(e, a, surface) ==
  {k \in Keys : e[k].status = "active" /\ surface \in {k, e[k].name} \cup a[k]}

\* INSERT INTO entities ... ON CONFLICT DO UPDATE, with any status.
EntityRow(e, k, name, status) == [e EXCEPT ![k] = [status |-> status, name |-> name]]

\* upsert_entity_aliases: rows are added or rewritten, never removed.
WithAliases(a, k, new) == [a EXCEPT ![k] = @ \cup new]

\* upsert_memory_entity_projection: a conflicting row keeps its status, and
\* its canonical name is overwritten by the one derived from the key.
Projected(e, k) ==
  EntityRow(e, k, DerivedName[k],
            IF e[k] = Absent THEN "active" ELSE e[k].status)

\* find_existing_relationship: of any status, the oldest row.
Existing(rs, s, t, o, m) ==
  {i \in DOMAIN rs : Triple(rs[i]) = <<s, t, o>> /\ rs[i].memory = m}

UpsertRel(rs, s, t, o, m, status) ==
  LET found == Existing(rs, s, t, o, m) IN
  IF found = {}
  THEN Append(rs, Rel(s, t, o, m, status))
  ELSE [rs EXCEPT ![Min(found)].status = status]

Tombstone(rs, ids) ==
  [i \in DOMAIN rs |->
     IF i \in ids THEN [rs[i] EXCEPT !.status = "tombstoned"] ELSE rs[i]]

-----------------------------------------------------------------------------
(* Entity and relationship upserts *)

\* upsert_entity_tx: the canonical name is mirrored as an alias.  Nothing
\* looks at the status the entity had, so a merged entity may come back.
UpsertEntity(k, name, aliases, status) ==
  /\ ent' = EntityRow(ent, k, name, status)
  /\ alias' = WithAliases(alias, k, aliases \cup {name})
  /\ UNCHANGED <<rels, mem, links>>

\* Mutant of UpsertRelationship: the endpoints are not looked up.
UpsertRelationshipUnchecked(s, t, o, m, status) ==
  /\ m \in {NoMemory} \cup DOMAIN mem
  /\ rels' = UpsertRel(rels, s, t, o, m, status)
  /\ Len(rels') <= MaxRels
  /\ UNCHANGED <<ent, alias, mem, links>>

\* resolve_relationship_endpoint: of any status
Known(k) == ent[k] # Absent

\* upsert_relationship_tx: the endpoints have to exist, whatever their status,
\* and may be the same; the evidence memory has to exist in the space.
UpsertRelationship(s, t, o, m, status) ==
  /\ Known(s) /\ Known(o)
  /\ m \in {NoMemory} \cup DOMAIN mem
  /\ rels' = UpsertRel(rels, s, t, o, m, status)
  /\ Len(rels') <= MaxRels
  /\ UNCHANGED <<ent, alias, mem, links>>

-----------------------------------------------------------------------------
(* Merge *)

Moved(k, from, into) == IF k = from THEN into ELSE k

\* Mutant of Duplicated: a retired row counts as well.
DuplicatedByRetired(rs, i, triple) ==
  \E j \in DOMAIN rs \ {i} : Triple(rs[j]) = triple

\* active_relationship_exists, the row itself excluded
Duplicated(rs, i, triple) ==
  \E j \in Live(rs) \ {i} : Triple(rs[j]) = triple

\* One turn of the loop in relink_active_relationships.
RelinkOne(rs, i, from, into) ==
  LET s == Moved(rs[i].subject, from, into)
      o == Moved(rs[i].object, from, into)
  IN  IF s = o \/ Duplicated(rs, i, <<s, rs[i].type, o>>)
      THEN Tombstone(rs, {i})
      ELSE [rs EXCEPT ![i].subject = s, ![i].object = o]

\* relink_active_relationships: the rows are listed before the first change
\* and then treated in the order of their ids.
Relinked(from, into) ==
  LET edges == {i \in Live(rels) : Incident(rels[i], from)}
      after[i \in 0..Len(rels)] ==
        IF i = 0 THEN rels
        ELSE LET before == after[i - 1] IN
             IF i \in edges THEN RelinkOne(before, i, from, into) ELSE before
  IN  after[Len(rels)]

\* Mutant of Carried: the aliases of the source are left behind.
CarriedName(from) == {from, ent[from].name}

\* merge_alias_candidates: key, name and aliases of the source
Carried(from) == {from, ent[from].name} \cup alias[from]

MergeEntity(from, into) ==
  /\ from # into
  /\ ent[from].status = "active" /\ ent[into].status = "active"
  /\ rels' = Relinked(from, into)
  /\ alias' = WithAliases(alias, into, Carried(from))
  /\ ent' = [ent EXCEPT ![from].status = "tombstoned"]
  /\ UNCHANGED <<mem, links>>

-----------------------------------------------------------------------------
(* Captures *)

CapturedKeys(c) == DOMAIN c.name
CaptureSurfaces(c, k) == {c.name[k]} \cup c.aliases[k]

\* validate_graph_capture
WellFormed(c) ==
  /\ CapturedKeys(c) # {}
  /\ \A i, j \in DOMAIN c.edges : c.edges[i] = c.edges[j] => i = j
  /\ \A i \in DOMAIN c.edges :
       /\ {c.edges[i][1], c.edges[i][3]} \subseteq CapturedKeys(c)
       /\ c.edges[i][1] # c.edges[i][3]
       /\ c.edges[i][2] # RelatedTo

\* The entities that the surfaces of a captured key name.
Matches(e, a, c, k) ==
  UNION {Named(e, a, surface) : surface \in CaptureSurfaces(c, k)}

\* Mutant of Resolved: only the key is looked up.
ResolvedByKey(e, a, c, k) == k

\* resolve_graph_capture_keys, per key: an active entity of that very key wins,
\* then the only entity that the surfaces name, then a new one.
Resolved(e, a, c, k) ==
  LET found == Matches(e, a, c, k) IN
  IF e[k].status = "active" \/ found = {} THEN k ELSE Min(found)

\* What resolve_graph_capture_keys and the upserts behind it refuse: a key
\* whose surfaces name several entities, two keys for one entity, and an alias
\* list that repeats the name it is pushed onto.
Acceptable(e, a, c) ==
  /\ \A k \in CapturedKeys(c) :
       e[k].status = "active" \/ Cardinality(Matches(e, a, c, k)) <= 1
  /\ \A j, k \in CapturedKeys(c) :
       Resolved(e, a, c, j) = Resolved(e, a, c, k) => j = k
  /\ \A k \in CapturedKeys(c) :
       e[Resolved(e, a, c, k)].status = "active" => c.name[k] \notin c.aliases[k]

\* upsert_graph_capture_entities: an active entity keeps its name and takes
\* the captured one as an alias.  Targets are distinct, so the order is free.
CapturedEntities(e, a, c) ==
  [r \in Keys |->
     IF \E k \in CapturedKeys(c) : Resolved(e, a, c, k) = r
     THEN LET k == CHOOSE k \in CapturedKeys(c) : Resolved(e, a, c, k) = r IN
          [status |-> "active",
           name |-> IF e[r].status = "active" THEN e[r].name ELSE c.name[k]]
     ELSE e[r]]

CapturedAliases(e, a, c) ==
  [r \in Keys |->
     a[r] \cup UNION {CaptureSurfaces(c, k) \cup {CapturedEntities(e, a, c)[r].name} :
                        k \in {k \in CapturedKeys(c) : Resolved(e, a, c, k) = r}}]

\* upsert_graph_capture_relationships: the memory is the only evidence.
CapturedRels(e, a, c, m) ==
  LET after[i \in 0..Len(c.edges)] ==
        IF i = 0 THEN rels
        ELSE LET edge == c.edges[i] IN
             UpsertRel(after[i - 1], Resolved(e, a, c, edge[1]), edge[2],
                       Resolved(e, a, c, edge[3]), m, "active")
  IN  after[Len(c.edges)]

WithSubject(key) == IF key = NoKey THEN ent ELSE Projected(ent, key)

\* The tail of remember_memory_tx: the projection of the entity key, then the
\* capture, in the transaction that writes the memory.
Remember(key, tags, c) ==
  LET e == WithSubject(key)
      m == Len(mem) + 1
  IN
  /\ m <= MaxMemories
  /\ mem' = Append(mem, [key |-> key, tags |-> tags, active |-> TRUE])
  /\ UNCHANGED links
  /\ \/ /\ c = NoCapture
        /\ ent' = e
        /\ UNCHANGED <<alias, rels>>
     \/ /\ c # NoCapture /\ WellFormed(c)
        /\ Acceptable(e, alias, c)
        /\ ent' = CapturedEntities(e, alias, c)
        /\ alias' = CapturedAliases(e, alias, c)
        /\ rels' = CapturedRels(e, alias, c, m)
        /\ Len(rels') <= MaxRels

\* Whatever retires a memory: forget, supersession, expiry.  The graph is left
\* as it is.
Retire(m) ==
  /\ Alive(m)
  /\ mem' = [mem EXCEPT ![m].active = FALSE]
  /\ UNCHANGED <<ent, alias, rels, links>>

-----------------------------------------------------------------------------
(* The link and graph tasks of dream.  A task cuts every list it makes to   *)
(* its Budget, in the order of its query.                                  *)

\* The first n elements of a set of naturals.
Lowest(n, S) == {x \in S : Cardinality({y \in S : y < x}) < n}

Linked(i, j) == {<<i, j>>, <<j, i>>} \cap links # {}

\* dream_tag_link_candidates: the tags that few active memories of the scope
\* carry, and the pairs that share enough of them.
Taggable == {m \in DOMAIN mem : mem[m].active /\ mem[m].key # NoKey}
Discriminative ==
  {t \in Tags : Cardinality({m \in Taggable : t \in mem[m].tags}) <= MaxTagMemories}
SharedTags(p) == mem[p[1]].tags \cap mem[p[2]].tags \cap Discriminative
LinkCandidates ==
  {p \in Taggable \X Taggable :
     /\ p[1] < p[2] /\ mem[p[1]].key # mem[p[2]].key
     /\ ~Linked(p[1], p[2])
     /\ Cardinality(SharedTags(p)) >= MinSharedTags}

PairBefore(p, q) == p[1] < q[1] \/ (p[1] = q[1] /\ p[2] < q[2])

\* ORDER BY COUNT(*) DESC, src, dst
LinksBefore(p, q) ==
  LET np == Cardinality(SharedTags(p))
      nq == Cardinality(SharedTags(q))
  IN  \/ np > nq
      \/ (np = nq /\ PairBefore(p, q))

\* dream_tag_link
NewLinks ==
  {p \in LinkCandidates :
     Cardinality({q \in LinkCandidates : LinksBefore(q, p)}) < Budget}

\* dream_graph_missing_entity_projections: no row of any status.
Missing == {k \in Keys : ent[k] = Absent /\ \E m \in DOMAIN mem : Alive(m) /\ mem[m].key = k}

\* dream_graph_orphan_entity_ids
Orphans(e) ==
  {k \in Keys :
     /\ e[k].status = "active"
     /\ \A m \in DOMAIN mem : mem[m].key = k => ~mem[m].active
     /\ \A i \in Live(rels) : ~Incident(rels[i], k)}

\* Mutant of Dangling: only an end without a row counts.
DanglingAbsent(e) ==
  {i \in Live(rels) : \E k \in {rels[i].subject, rels[i].object} : e[k] = Absent}

\* dream_graph_dangling_relationship_ids
Dangling(e) ==
  {i \in Live(rels) :
     \E k \in {rels[i].subject, rels[i].object} : e[k].status # "active"}

\* dream_graph_inactive_evidence_relationship_ids
Unsupported == {i \in Live(rels) : rels[i].memory # NoMemory /\ ~Alive(rels[i].memory)}

\* dream_graph_relationship_proposals, per pair of keys: the links between
\* their active memories, unless an active edge of that type joins them.
Backing(ls, p) ==
  {l \in ls : Alive(l[1]) /\ Alive(l[2]) /\ <<mem[l[1]].key, mem[l[2]].key>> = p}
Proposals(e, ls) ==
  {p \in Keys \X Keys :
     /\ p[1] # p[2] /\ Backing(ls, p) # {}
     /\ e[p[1]].status = "active" /\ e[p[2]].status = "active"
     /\ \A i \in Live(rels) : Triple(rels[i]) # <<p[1], RelatedTo, p[2]>>}

\* apply_graph_relationship_proposals: the evidence is the oldest source memory
\* of the group.
WithProposals(e, ls) ==
  LET all == Proposals(e, ls)
      chosen == {p \in all : Cardinality({q \in all : PairBefore(q, p)}) < Budget}
      list == Ordered(chosen, PairBefore)
      after[i \in 0..Len(list)] ==
        IF i = 0 THEN rels
        ELSE UpsertRel(after[i - 1], list[i][1], RelatedTo, list[i][2],
                       Min({l[1] : l \in Backing(ls, list[i])}), "active")
  IN  after[Len(list)]

\* The entities once the first missing projections are staged.
Staged ==
  LET chosen == Lowest(Budget, Missing) IN
  [k \in Keys |-> IF k \in chosen THEN Projected(ent, k)[k] ELSE ent[k]]

\* dream_graph_diagnostics on an apply run: every list is made before the first
\* change, on the staged entities.
GraphTask(ls) ==
  /\ rels' = Tombstone(WithProposals(Staged, ls),
                       Lowest(Budget, Dangling(Staged)) \cup Lowest(Budget, Unsupported))
  /\ ent' = [k \in Keys |->
               IF k \in Lowest(Budget, Orphans(Staged))
               THEN [Staged[k] EXCEPT !.status = "tombstoned"] ELSE Staged[k]]

\* dream_store_tx: link runs before graph, which reads the links it wrote.
Dream(tasks) ==
  /\ links' = IF "link" \in tasks THEN links \cup NewLinks ELSE links
  /\ IF "graph" \in tasks THEN GraphTask(links') ELSE UNCHANGED <<ent, rels>>
  /\ UNCHANGED <<alias, mem>>

Nightly == Dream({"graph"})

-----------------------------------------------------------------------------
(* Readers.  They run in one read snapshot and change nothing.             *)

\* Mutant of Walkable: a relationship without evidence is not walked.
WalkableByEvidence(i, statuses) == rels[i].status \in statuses /\ Alive(rels[i].memory)

\* The relationships a walk may use: of the statuses asked for, and never on
\* the word of a retired memory.
Walkable(i, statuses) ==
  /\ rels[i].status \in statuses
  /\ rels[i].memory = NoMemory \/ Alive(rels[i].memory)

Open(k, tombstoned) == tombstoned \/ ent[k].status # "tombstoned"

\* resolve_graph_seed: a retired entity is found when the caller asks for those.
Seeded(k, tombstoned) == ent[k] # Absent /\ Open(k, tombstoned)

\* The table `walk` of graph_relationship_rows: the entities at the end of a
\* path of each length up to depth.  Only an entity that is walked to has to be
\* open.
Walk(seed, depth, statuses, tombstoned) ==
  LET step[n \in 0..depth] ==
        IF n = 0 THEN {<<seed, 0>>}
        ELSE LET before == step[n - 1] IN
             before \cup
               {<<k, n>> : k \in {k \in Keys :
                  /\ Open(k, tombstoned)
                  /\ \E i \in DOMAIN rels, p \in before :
                       /\ p[2] = n - 1 /\ Walkable(i, statuses)
                       /\ {rels[i].subject, rels[i].object} = {p[1], k}}}
  IN  step[depth]

Reached(walk) == {p[1] : p \in walk}
Depth(walk, k) == Min({p[2] : p \in {p \in walk : p[1] = k}})

\* Mutant of EdgeBefore: the rows come in the order of their ids.
EdgeBeforeById(walk, i, j) == i < j

\* ORDER BY min(s.depth, o.depth), max(s.depth, o.depth), relation_type, id
EdgeBefore(walk, i, j) ==
  LET ends(e) == {Depth(walk, rels[e].subject), Depth(walk, rels[e].object)}
      left == <<Min(ends(i)), Max(ends(i)), rels[i].type, i>>
      right == <<Min(ends(j)), Max(ends(j)), rels[j].type, j>>
  IN  \E n \in 1..4 : left[n] < right[n] /\ \A l \in 1..(n - 1) : left[l] = right[l]

\* graph_neighbors_on_connection: the first maxEdges relationships between the
\* entities that the walk reaches, each entity at its least depth.
Neighbors(seed, depth, maxEdges, statuses, tombstoned) ==
  LET walk == Walk(seed, depth, statuses, tombstoned)
      found == {i \in DOMAIN rels :
                  /\ Walkable(i, statuses)
                  /\ {rels[i].subject, rels[i].object} \subseteq Reached(walk)
                  /\ Open(rels[i].subject, tombstoned)
                  /\ Open(rels[i].object, tombstoned)}
  IN  AtMost(maxEdges, Ordered(found, LAMBDA i, j : EdgeBefore(walk, i, j)))

\* The entities a neighbourhood reports: the ends of its edges, and the seed, by
\* depth and then by key.
NeighborEntities(walk, seed, edges) ==
  Ordered({seed} \cup UNION {{rels[i].subject, rels[i].object} : i \in edges},
          LAMBDA j, k : \/ Depth(walk, j) < Depth(walk, k)
                        \/ Depth(walk, j) = Depth(walk, k) /\ j < k)

\* Memories with an entity key, newest first.
MemoriesOf(k) ==
  Ordered({m \in DOMAIN mem : Alive(m) /\ mem[m].key = k}, LAMBDA i, j : i > j)

\* graph_context_evidence_memory_ids
Evidence(edges) ==
  Distinct(Among([i \in DOMAIN edges |-> rels[edges[i]].memory], Nat \ {NoMemory}))

\* Mutant of EntityMemories: only the room that the edges leave is filled.
EntityMemoriesLeft(entities, edges, n) ==
  AtMost(IF n > edges THEN n - edges ELSE 0,
         EachIn(LAMBDA k : AtMost(n + 1, MemoriesOf(k)), entities))

\* graph_context_entity_memory_ids
EntityMemories(entities, edges, n) ==
  AtMost(n + edges, EachIn(LAMBDA k : AtMost(n + 1, MemoriesOf(k)), entities))

StatusOrder == [active |-> 1, merged |-> 2, tombstoned |-> 3]

\* entity_search_results: the entities of the statuses asked for that a query
\* matches by key, name or alias, by status and then by key.
SearchHits(query, statuses) ==
  Ordered({k \in Keys : ent[k].status \in statuses /\ query \in {k, ent[k].name} \cup alias[k]},
               LAMBDA j, k : \/ StatusOrder[ent[j].status] < StatusOrder[ent[k].status]
                             \/ ent[j].status = ent[k].status /\ j < k)

\* search_entities_on_connection: one page of the hits, and whether more follow.
SearchEntities(query, statuses, limit, offset) ==
  LET hits == SearchHits(query, statuses)
      rows == AtMost(limit + 1, SubSeq(hits, offset + 1, Len(hits)))
  IN  [results |-> AtMost(limit, rows), truncated |-> Len(rows) > limit]

\* The edges of a neighbourhood, and its entities.
Neighborhood(seed, depth, maxEdges) ==
  LET edges == Neighbors(seed, depth, maxEdges, {"active"}, FALSE)
      walk == Walk(seed, depth, {"active"}, FALSE)
  IN  [edges |-> edges, entities |-> NeighborEntities(walk, seed, Range(edges))]

\* graph_context_on_connection: the evidence of the edges, then the memories of
\* the entities, as many as the pack takes; and whether that left any out.
Context(seed, depth, maxEdges, n) ==
  LET near == Neighborhood(seed, depth, maxEdges)
      all == Among(Distinct(Evidence(near.edges) \o
                            EntityMemories(near.entities, Len(near.edges), n)),
                   {m \in DOMAIN mem : Alive(m)})
  IN  [ids |-> AtMost(n, all), truncated |-> Len(all) > n]

\* graph_full_on_connection, which looks at the statuses of both ends and not
\* at the evidence.
FullEdges ==
  {i \in Live(rels) : \A k \in {rels[i].subject, rels[i].object} : ent[k].status = "active"}

Next ==
  \/ \E r \in EntityRequests : UpsertEntity(r.key, r.name, r.aliases, r.status)
  \/ \E r \in EdgeRequests :
       UpsertRelationship(r.subject, r.type, r.object, r.memory, r.status)
  \/ \E from, into \in Keys : MergeEntity(from, into)
  \/ \E key \in Subjects, tags \in TagSets, c \in Captures \cup {NoCapture} :
       Remember(key, tags, c)
  \/ \E m \in DOMAIN mem : Retire(m)
  \/ \E tasks \in SUBSET {"link", "graph"} : Dream(tasks)

Spec == Init /\ [][Next]_vars

\* The nightly job of docs/operations.md runs the graph task with --apply.
LiveSpec == Spec /\ WF_vars(Nightly)

-----------------------------------------------------------------------------
(* Properties *)

LiveTriples == {Triple(rels[i]) : i \in Live(rels)}

\* A merge is a contraction of the graph: what any relationship said of the
\* source is said of the target, except of an entity and itself, and nothing
\* else appears, disappears or is said twice more often.  The loop of
\* relink_active_relationships reaches this row by row, on a table that it
\* changes meanwhile.
Contracted(from, into) ==
  {<<Moved(t[1], from, into), t[2], Moved(t[3], from, into)>> :
     t \in {t \in LiveTriples :
              \/ from \notin {t[1], t[3]}
              \/ Moved(t[1], from, into) # Moved(t[3], from, into)}}
MergesContract ==
  [][\A from, into \in Keys :
       MergeEntity(from, into) => LiveTriples' = Contracted(from, into)]_vars

\* A merge loses no name: a search that found an active entity before it finds
\* one afterwards, although the source is retired with all its own rows.
Findable(query) == SearchEntities(query, {"active"}, 1, 0).results # <<>>
MergeKeepsNames ==
  [][\A from, into \in Keys :
       MergeEntity(from, into) =>
         \A query \in Surfaces :
           Findable(query) => Findable(query)']_vars

\* A capture of keys that are new, and no one's names, makes no name ambiguous:
\* whatever upserts and merges came before, it joins the entity that its names
\* belong to, or makes one that shares none.  An ambiguous name would refuse every
\* later capture (resolve_graph_capture_keys).  Two keys do not have this.  One
\* that was retired: its row comes back with all its old aliases.  And the subject
\* of the memory itself: remember projects its entity before it resolves the
\* capture, so the key wins and its names are not looked up.
Disjoint(c) ==
  \A j, k \in CapturedKeys(c) :
    j # k => ({j} \cup CaptureSurfaces(c, j)) \cap ({k} \cup CaptureSurfaces(c, k)) = {}
CapturesKeepNamesUnique ==
  [][\A key \in Subjects, tags \in TagSets, c \in Captures :
       LET e == WithSubject(key) IN
       /\ Remember(key, tags, c)
       /\ Disjoint(c)
       /\ \A k \in CapturedKeys(c) : e[k] = Absent /\ Named(e, alias, k) = {}
       => \A surface \in Surfaces :
            Cardinality(Named(ent', alias', surface)) > 1
            => Named(ent', alias', surface) = Named(e, alias, surface)]_vars

\* A neighbourhood that is cut to max_edges is still in one piece: every
\* relationship that graph_neighbors reports hangs together with the seed.
NeighborsConnected ==
  \A seed \in {k \in Keys : Seeded(k, FALSE)}, maxEdges \in 1..2 :
    LET edges == Range(Neighbors(seed, 2, maxEdges, {"active"}, FALSE))
        joined[n \in 0..2] ==
          IF n = 0 THEN {seed}
          ELSE joined[n - 1] \cup
               UNION {{rels[i].subject, rels[i].object} :
                        i \in {i \in edges : \E k \in joined[n - 1] : Incident(rels[i], k)}}
    IN  \A i \in edges : {rels[i].subject, rels[i].object} \subseteq joined[2]

\* The three caps on the way to a context (per entity, over the entities, and on
\* the evidence) never change what is in it: the pack is the beginning of the list
\* that would be made without them.  (That it is cut it does not always say: the
\* cap over the entities leaves no room to notice a memory beyond the pack.)
CapsAreInvisible ==
  \A seed \in {k \in Keys : Seeded(k, FALSE)}, n \in 1..2 :
    LET near == Neighborhood(seed, 2, 2)
        context == Context(seed, 2, 2, n)
        uncut == Distinct(Evidence(near.edges) \o
                          EachIn(MemoriesOf, near.entities))
    IN  /\ context.ids = AtMost(n, uncut)
        /\ context.truncated => Len(uncut) > n

\* What the projection promises between two writes: no active relationship has
\* a retired end or rests on a retired memory, no active entity is without
\* memories and relationships, and every subject of a memory has its entity.
EdgesBacked ==
  \A i \in Live(rels) :
    /\ ent[rels[i].subject].status = "active" /\ ent[rels[i].object].status = "active"
    /\ rels[i].memory = NoMemory \/ mem[rels[i].memory].active
EntitiesBacked ==
  \A k \in Keys :
    ent[k].status = "active" =>
      \/ \E m \in DOMAIN mem : mem[m].active /\ mem[m].key = k
      \/ \E i \in Live(rels) : Incident(rels[i], k)
SubjectsProjected ==
  \A m \in DOMAIN mem : mem[m].active /\ mem[m].key # NoKey => ent[mem[m].key] # Absent
LinksProjected ==
  \A l \in links :
    (\A m \in {l[1], l[2]} : mem[m].active /\ ent[mem[m].key].status = "active")
    => <<mem[l[1]].key, RelatedTo, mem[l[2]].key>> \in LiveTriples
Reconciled == EdgesBacked /\ EntitiesBacked /\ SubjectsProjected /\ LinksProjected

\* Once the writers stop, the nightly job leaves no drift behind, however small
\* its budget and although each run lists before it changes.
DriftIsReconciled == <>[][Nightly]_vars => <>[]Reconciled

\* When nothing has drifted, the two readers agree: the whole graph shows the
\* relationships that a walk of one step from their ends finds.
ReadersAgree ==
  EdgesBacked =>
    FullEdges = UNION {Range(Neighbors(k, 1, Len(rels) + 1, {"active"}, FALSE)) :
                         k \in {k \in Keys : ent[k].status = "active"}}

\* A merge changes nothing but whom the graph speaks of.
MergesKeepGraph == MergesContract /\ MergeKeepsNames

\* What the readers make of any graph: connected neighbourhoods, contexts that
\* are only cut, and one answer from the two of them.
ReadersSound == TypeOK /\ NeighborsConnected /\ CapsAreInvisible /\ ReadersAgree
=============================================================================
