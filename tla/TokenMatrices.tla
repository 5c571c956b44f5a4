--------------------------- MODULE TokenMatrices ----------------------------
(***************************************************************************)
(* The token matrices that late interaction scores memories by: rows of a  *)
(* store, written with a memory or by `reindex --tokens`, and the copy of  *)
(* them that every process keeps for the searches it serves.               *)
(*                                                                         *)
(* A row is the memory it belongs to, the model it was made with and the   *)
(* second it was written in: the copy is looked up by the number of rows   *)
(* and the last of those seconds.                                          *)
(***************************************************************************)
EXTENDS Integers, FiniteSets

CONSTANTS
  Procs,    \* the processes that may search or remember
  Mems,     \* the memories that may be remembered
  Stores,
  Home,     \* the store of a memory
  Models,   \* the token models
  MaxClock  \* bound: the seconds that pass

NoModel == "none"

ASSUME TokenMatricesAssumption ==
  /\ Home \in [Mems -> Stores] /\ MaxClock \in Nat \ {0}
  /\ NoModel \notin Models /\ IsFiniteSet(Mems)

VARIABLES
  known,    \* the memories remembered so far
  live,     \* those that are active
  tokens,   \* the rows: [mem, model, made]
  active,   \* the token model a store is bound to, or NoModel
  clock,
  cache,    \* the rows a process keeps, or Cold
  reindex,  \* the `reindex --tokens` under way, or Idle
  hasty     \* the stores and seconds of a reset that followed a write

rowVars == <<known, live, tokens, active>>
tokenVars == <<rowVars, clock, cache, reindex, hasty>>

Cold == [key |-> [model |-> NoModel, n |-> 0, made |-> 0], rows |-> {}, of |-> NoModel]
Idle == [store |-> NoModel, model |-> NoModel, force |-> FALSE, targets |-> {}]

Rows == [mem : Mems, model : Models, made : 1..MaxClock]
Keys == [model : Models, n : 0..Cardinality(Mems), made : 0..MaxClock]

TokensTypeOK ==
  /\ live \subseteq known /\ known \subseteq Mems
  /\ tokens \subseteq Rows
  /\ active \in [Stores -> Models \cup {NoModel}]
  /\ clock \in 1..MaxClock
  /\ \A p \in Procs : cache[p] = Cold
       \/ (cache[p].key \in Keys /\ cache[p].rows \subseteq Mems /\ cache[p].of \in Stores)
  /\ hasty \subseteq Stores \X (1..MaxClock)

TokensInit ==
  /\ known = {} /\ live = {} /\ tokens = {}
  /\ active = [s \in Stores |-> NoModel]
  /\ clock = 1
  /\ cache = [p \in Procs |-> Cold]
  /\ reindex = Idle /\ hasty = {}

RowsOf(store) == {r \in tokens : Home[r.mem] = store}
Encoded == {r.mem : r \in tokens}
RowsBy(store, model) == {r \in RowsOf(store) : r.model = model}
LiveIn(store) == {m \in live : Home[m] = store}
LastMade(rows) == CHOOSE s \in 0..MaxClock :
  /\ \A r \in rows : r.made <= s
  /\ s = 0 \/ \E r \in rows : r.made = s

-----------------------------------------------------------------------------
(* Writing rows.                                                             *)

\* Mutant: the binding is not looked at.
ModelFitsAny(store, model) == store \in Stores /\ model \in Models

\* enforce_active_colbert_model: a store is bound to its first token model.
ModelFits(store, model) == active[store] \in {NoModel, model}

\* upsert_memory_token_embedding
Put(rows, mems, model) ==
  {r \in rows : r.mem \notin mems} \cup {[mem |-> m, model |-> model, made |-> clock] : m \in mems}

\* remember_memory_tx, with a matrix of the model or, model = NoModel, without.
RememberFits(m, model) == m \notin known /\ (model = NoModel \/ ModelFits(Home[m], model))
Remember(m, model) ==
  /\ known' = known \cup {m} /\ live' = live \cup {m}
  /\ IF model = NoModel THEN UNCHANGED <<tokens, active>>
     ELSE /\ tokens' = Put(tokens, {m}, model)
          /\ active' = [active EXCEPT ![Home[m]] = model]

\* `memkeeper remember` on the command line, of a build without the encoder.
RememberPlain(m) ==
  /\ RememberFits(m, NoModel) /\ Remember(m, NoModel)
  /\ UNCHANGED <<clock, cache, reindex, hasty>>

\* Retiring a memory leaves its row.
Forget(m) ==
  /\ m \in live
  /\ live' = live \ {m}
  /\ UNCHANGED <<known, tokens, active, clock, cache, reindex, hasty>>

-----------------------------------------------------------------------------
(* reindex --tokens: collect the memories, encode them, apply the matrices.  *)

Targets(store, force) == LiveIn(store) \ (IF force THEN {} ELSE Encoded)

Collect(store, model, force) ==
  /\ reindex = Idle
  /\ reindex' = [store |-> store, model |-> model, force |-> force,
                 targets |-> Targets(store, force)]
  /\ UNCHANGED <<rowVars, clock, cache, hasty>>

\* Mutant: a backfill clears the rows too.
KeptNone(force, store) == tokens \ RowsOf(store)

\* With force every row of the store and its model go first.
Kept(force, store) == IF force THEN tokens \ RowsOf(store) ELSE tokens
ApplyFits == reindex.force \/ ModelFits(reindex.store, reindex.model)

Apply ==
  /\ reindex # Idle
  /\ reindex' = Idle
  /\ IF ApplyFits
     THEN /\ tokens' = Put(Kept(reindex.force, reindex.store), reindex.targets, reindex.model)
          /\ active' = [active EXCEPT ![reindex.store] = reindex.model]
          /\ hasty' = hasty \cup {<<s, clock>> : s \in {q \in {reindex.store} :
                        reindex.force /\ \E r \in RowsOf(q) : r.made = clock}}
     ELSE UNCHANGED <<tokens, active, hasty>>
  /\ UNCHANGED <<known, live, clock, cache>>

Tick ==
  /\ clock < MaxClock
  /\ clock' = clock + 1
  /\ UNCHANGED <<rowVars, cache, reindex, hasty>>

-----------------------------------------------------------------------------
(* load_token_embeddings_cached.  The key is read before the lock is taken:  *)
(* a write may come between.                                                 *)

KeyOf(store, model) ==
  LET rows == RowsBy(store, model)
  IN  [model |-> model, n |-> Cardinality(rows), made |-> LastMade(rows)]

\* load_token_embeddings
Loaded(store, model) == {r.mem : r \in RowsBy(store, model)} \cap live

\* Mutant: a hit by the number of rows alone.
HitByCount(entry, key) == entry.key.model = key.model /\ entry.key.n = key.n

Hit(entry, key) == entry.key = key

Entry(p, store, key) ==
  IF Hit(cache[p], key) THEN cache[p]
  ELSE [key |-> key, rows |-> Loaded(store, key.model), of |-> store]

TakeRows(p, store, key) == cache' = [cache EXCEPT ![p] = Entry(p, store, key)]

-----------------------------------------------------------------------------
(* A looked-up entry answers for the store: no eligible memory is passed     *)
(* over whose row was there when the key was read and is there still.  Two   *)
(* gaps are known: the key does not name the store, and one second may hold  *)
(* a write and a reset.                                                      *)
Answers(entry, store, eligible, seen) ==
  \/ entry.of # store \/ <<store, entry.key.made>> \in hasty
  \/ {r.mem : r \in seen \cap tokens} \cap eligible \cap live \subseteq entry.rows

\* A store's rows are of one model, the one it is bound to: what a query is
\* compared with was encoded as the query was.
OneTokenModel == \A r \in tokens : r.model = active[Home[r.mem]]

\* A matrix is lost only to a forced reindex that collected before the memory
\* was remembered or that follows its retirement.
MatricesKept ==
  [][\A r \in tokens : (\A q \in tokens' : q.mem # r.mem)
       => /\ reindex # Idle /\ reindex.force /\ reindex.store = Home[r.mem]
          /\ r.mem \notin reindex.targets]_tokenVars
=============================================================================
