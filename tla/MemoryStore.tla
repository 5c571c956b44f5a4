----------------------------- MODULE MemoryStore -----------------------------
(***************************************************************************)
(* The curated tier of a memkeeper store: the rows of `memories`, their    *)
(* full-text projection, their audit events, the intent links between them *)
(* and the conflict rows, as `remember`, `forget`, `recall-log` and the    *)
(* memory tasks of `dream` change them.  Every operation of the crate runs *)
(* in one SQLite transaction, so each is one action here; an operation     *)
(* that returns an error rolls its transaction back and is a stuttering    *)
(* step, as is every dry run.                                              *)
(*                                                                         *)
(* Memory ids are 1..count: next_id hands out ids that sort by creation    *)
(* time.  Timestamps are 0..MaxTime, and Never (= MaxTime + 1) stands for  *)
(* a NULL expires_at, which no clock reading reaches.                      *)
(***************************************************************************)
EXTENDS Naturals, Sequences, FiniteSets

CONSTANTS
  MaxMemories,       \* bound: the most memories a behaviour creates
  MaxTime,           \* bound: the last clock reading
  Spaces, Keys,      \* space names; (entity_key, claim_key) pairs
  NoKey,             \* the member of Keys that is not a complete pair
  Kinds, Pins,       \* the kinds and pin flags the callers use
  Silos,             \* the silos the callers name
  ObservedTimes,     \* the observed_at values the callers supply
  ExpiryTimes,       \* the expires_at values the callers supply
  Modes,             \* the supersession modes the callers use
  MaxSupersedes,     \* MAX_MEMORY_LINKS, for a request's supersedes list
  MaxContradicts,    \* MAX_MEMORY_LINKS, for its contradicts list
  ClaimCap,          \* MAX_REMEMBER_CONFLICT_CANDIDATES
  DreamBudget,       \* DreamRequest.max_memories
  Sessions,          \* recall sessions
  PromoteThreshold,  \* DreamRequest.promote_threshold
  DreamTaskSets      \* the task lists the maintenance jobs pass

Never == MaxTime + 1
AllSpaces == "*"                  \* DreamRequest.space = None
ShortTerm == "short-term"
Durable == "durable"

ASSUME BoundsAssumption ==
  /\ MaxMemories \in Nat /\ MaxTime \in Nat
  /\ ClaimCap \in Nat /\ MaxSupersedes \in Nat /\ MaxContradicts \in Nat
  /\ DreamBudget \in Nat \ {0} /\ PromoteThreshold \in Nat \ {0}

ASSUME RequestAssumption ==
  /\ Pins \subseteq BOOLEAN
  /\ {Durable} \subseteq Silos
  /\ ObservedTimes \subseteq Nat
  /\ ExpiryTimes \subseteq 0..Never
  /\ AllSpaces \notin Spaces

VARIABLES
  now,        \* the clock that now_timestamp reads
  count,      \* how many memories exist
  mem,        \* table memories
  fts,        \* memory_fts and memory_fts_public, always written together
  events,     \* table memory_events, per memory, in creation order
  links,      \* table memory_links, the supersession and correction rows
  conflicts,  \* table conflicts, the open rows
  recalls     \* recall_events: the sessions that retrieved a memory well

vars == <<now, count, mem, fts, events, links, conflicts, recalls>>

Ids == 1..count

-----------------------------------------------------------------------------
(* The rows *)

Statuses == {"active", "superseded", "expired", "tombstoned"}
EventTypes == {"remember", "supersede", "forget", "correct", "dream"}
LinkTypes == {"supersedes", "superseded_by", "contradicts"}
AutoSupersedeKinds == {"fact", "preference", "decision", "lesson"}

Row == [status : Statuses, space : Spaces, key : Keys,
        observed : Nat, expires : 0..Never, pinned : BOOLEAN, silo : Silos]

Event == [type : EventTypes, old : Statuses \cup {"none"}, new : Statuses]

\* What one row of the full-text tables repeats of its memory.
FtsRow(row) == [status |-> row.status, silo |-> row.silo]

TypeOK ==
  /\ now \in 0..MaxTime
  /\ count \in Nat
  /\ mem \in [Ids -> Row]
  /\ fts \in [Ids -> [status : Statuses, silo : Silos]]
  /\ events \in [Ids -> Seq(Event)]
  /\ links \subseteq Ids \X Ids \X LinkTypes
  /\ conflicts \subseteq Ids \X Ids
  /\ recalls \in [Ids -> SUBSET Sessions]

Active(i) == mem[i].status = "active"

Entry(type, old, new) == [type |-> type, old |-> old, new |-> new]

Init ==
  /\ now = 0
  /\ count = 0
  /\ mem = [i \in 1..0 |-> 0]
  /\ fts = [i \in 1..0 |-> 0]
  /\ events = [i \in 1..0 |-> 0]
  /\ links = {}
  /\ conflicts = {}
  /\ recalls = [i \in 1..0 |-> 0]

-----------------------------------------------------------------------------
(* remember *)

References(max) == {S \in SUBSET Ids : Cardinality(S) <= max}

Requests ==
  [space : Spaces, key : Keys, kind : Kinds,
   observed : ObservedTimes, expires : ExpiryTimes, pinned : Pins,
   silo : Silos, mode : Modes, supersedes : References(MaxSupersedes),
   contradicts : References(MaxContradicts)]

SameClaim(space, key) ==
  {i \in Ids : Active(i) /\ mem[i].space = space /\ mem[i].key = key}

\* The ClaimCap newest of a set of memories by observed_at; which of those
\* observed at the same time make it (updated_at, then id) is left open.
IsNewest(window, set) ==
  /\ Cardinality(window) =
       IF Cardinality(set) < ClaimCap THEN Cardinality(set) ELSE ClaimCap
  /\ \A i \in window, j \in set \ window : mem[j].observed <= mem[i].observed

\* What same_claim_candidates may return.  Naming a memory explicitly, or
\* lacking a key, switches the lookup off.
ClaimWindows(r) ==
  IF r.key = NoKey \/ r.supersedes # {} \/ r.contradicts # {}
  THEN {{}}
  ELSE LET same == SameClaim(r.space, r.key) IN
       {window \in SUBSET same : IsNewest(window, same)}

\* Mutant of Unnamed: the comparison of `auto` with its operands swapped.
UnnamedSwapped(r, window) ==
  {i \in window :
     /\ ~mem[i].pinned
     /\ \/ r.mode = "supersede"
        \/ /\ r.mode = "auto"
           /\ r.kind \in AutoSupersedeKinds
           /\ r.observed < mem[i].observed}

\* Which memories the write retires without naming them: `supersede` retires
\* whatever the lookup returns and is not pinned, `auto` only what is older and
\* only for some kinds; append, suggest and conflict retire none.
Unnamed(r, window) ==
  {i \in window :
     /\ ~mem[i].pinned
     /\ \/ r.mode = "supersede"
        \/ /\ r.mode = "auto"
           /\ r.kind \in AutoSupersedeKinds
           /\ mem[i].observed < r.observed}

\* Mutants of CanSupersede: one of the three refusals is missing.
CanSupersedeRetired(i, space) == mem[i].space = space /\ ~mem[i].pinned
CanSupersedeForeign(i, space) == Active(i) /\ ~mem[i].pinned
CanSupersedePinned(i, space) == Active(i) /\ mem[i].space = space

\* supersede_memory refuses a target of another space, one that is no longer
\* active and one that is pinned; a refusal aborts the whole remember.
CanSupersede(i, space) ==
  Active(i) /\ mem[i].space = space /\ ~mem[i].pinned

\* Mutant of SupersedeLinks: a second id is drawn for the links.
SupersedeLinksNextId(new, retired) ==
  {<<new + 1, i, "supersedes">> : i \in retired}
    \cup {<<i, new + 1, "superseded_by">> : i \in retired}

SupersedeLinks(new, retired) ==
  {<<new, i, "supersedes">> : i \in retired}
    \cup {<<i, new, "superseded_by">> : i \in retired}

ContradictLinks(new, others) ==
  {<<new, i, "contradicts">> : i \in others}
    \cup {<<i, new, "contradicts">> : i \in others}

NewRow(r) ==
  [status |-> "active", space |-> r.space, key |-> r.key,
   observed |-> r.observed, expires |-> r.expires, pinned |-> r.pinned,
   silo |-> r.silo]

RetiredRow(row, status) == [row EXCEPT !.status = status]

\* Insert row `new` and retire the memories of `retired`, in the tables and
\* in the full-text projection, each with its audit event.
InsertAndSupersede(r, retired) ==
  LET new == count + 1 IN
  /\ mem' = [i \in 1..new |->
               IF i = new THEN NewRow(r)
               ELSE IF i \in retired THEN RetiredRow(mem[i], "superseded")
               ELSE mem[i]]
  /\ fts' = [i \in 1..new |->
               IF i = new THEN FtsRow(NewRow(r))
               ELSE IF i \in retired THEN RetiredRow(fts[i], "superseded")
               ELSE fts[i]]
  /\ events' = [i \in 1..new |->
                  IF i = new THEN <<Entry("remember", "none", "active")>>
                  ELSE IF i \in retired
                  THEN Append(events[i],
                              Entry("supersede", mem[i].status, "superseded"))
                  ELSE events[i]]

Remember(r, window) ==
  LET new == count + 1
      retired == r.supersedes \cup Unnamed(r, window) IN
  /\ \A i \in r.supersedes : CanSupersede(i, r.space)
  /\ \A i \in r.contradicts : mem[i].space = r.space
  /\ count' = new
  /\ InsertAndSupersede(r, retired)
  /\ links' = links \cup SupersedeLinks(new, retired)
                    \cup ContradictLinks(new, r.contradicts)
  /\ conflicts' = IF r.mode = "conflict"
                  THEN conflicts \cup {<<new, i>> : i \in window}
                  ELSE conflicts
  /\ recalls' = [i \in 1..new |-> IF i = new THEN {} ELSE recalls[i]]
  /\ UNCHANGED now

-----------------------------------------------------------------------------
(* forget, in its two modes *)

\* Mutant of Tombstone: the event takes for granted that the memory was active.
TombstoneFromActive(i, type) ==
  /\ mem[i].status # "tombstoned"
  /\ mem' = [mem EXCEPT ![i].status = "tombstoned"]
  /\ fts' = [fts EXCEPT ![i].status = "tombstoned"]
  /\ events' = [events EXCEPT ![i] =
                  Append(@, Entry(type, "active", "tombstoned"))]
  /\ UNCHANGED <<now, count, conflicts, recalls>>

\* What forget_memory_tx does to the memory itself: any status but tombstoned
\* may be forgotten.
Tombstone(i, type) ==
  /\ mem[i].status # "tombstoned"
  /\ mem' = [mem EXCEPT ![i].status = "tombstoned"]
  /\ fts' = [fts EXCEPT ![i].status = "tombstoned"]
  /\ events' = [events EXCEPT ![i] =
                  Append(@, Entry(type, mem[i].status, "tombstoned"))]
  /\ UNCHANGED <<now, count, conflicts, recalls>>

Forget(i) == Tombstone(i, "forget") /\ UNCHANGED links

\* A correction may name its replacement: any other existing memory.
Correct(i, replacements) ==
  /\ Tombstone(i, "correct")
  /\ links' = links \cup {<<c, i, "contradicts">> : c \in replacements}

Corrections(i) == {{}} \cup {{c} : c \in Ids \ {i}}

-----------------------------------------------------------------------------
(* recall-log: one session retrieves a memory above the promotion floor.   *)
(* The table names memories without a foreign key; a row for an id that    *)
(* does not exist is never read.                                           *)

RecordRecall(i, session) ==
  /\ recalls' = [recalls EXCEPT ![i] = @ \cup {session}]
  /\ UNCHANGED <<now, count, mem, fts, events, links, conflicts>>

-----------------------------------------------------------------------------
(* dream: promote, then expire, then reindex, in one transaction.  Each    *)
(* task reads what the previous one wrote.  The link and graph tasks write *)
(* other tables (related_to links, entities, relationships) and dedupe     *)
(* only reports.                                                           *)

\* DreamRequest.space and .silos; a silo filter needs a space.
Scopes ==
  [space : Spaces, silos : SUBSET Silos]
    \cup {[space |-> AllSpaces, silos |-> {}]}

\* Mutant of InScope: the sentinel for all spaces is compared like a name.
InScopeLiteral(row, scope) ==
  /\ scope.space = row.space
  /\ scope.silos = {} \/ row.silo \in scope.silos

InScope(row, scope) ==
  /\ scope.space \in {AllSpaces, row.space}
  /\ scope.silos = {} \/ row.silo \in scope.silos

\* The DreamBudget first members of a set, in the order Before.
First(set, Before(_, _)) ==
  {i \in set : Cardinality({j \in set : Before(j, i)}) < DreamBudget}

\* Active short-term memories that enough distinct sessions retrieved.
PromoteDue(scope) ==
  {i \in Ids : /\ Active(i) /\ mem[i].silo = ShortTerm
               /\ InScope(mem[i], scope)
               /\ Cardinality(recalls[i]) >= PromoteThreshold}

Promoted(scope) == First(PromoteDue(scope), LAMBDA j, i : j < i)

\* Mutant of PromotedRow: the TTL survives the promotion.
PromotedRowWithTtl(row) == [row EXCEPT !.silo = Durable]

\* What promotion makes of a memory: durable, and without a TTL.
PromotedRow(row) == [row EXCEPT !.silo = Durable, !.expires = Never]

PromoteRows(promoted) ==
  [i \in Ids |-> IF i \in promoted THEN PromotedRow(mem[i]) ELSE mem[i]]

ExpireDue(rows, scope) ==
  {i \in Ids : /\ rows[i].status = "active" /\ rows[i].expires <= now
               /\ InScope(rows[i], scope)}

\* ORDER BY expires_at, id
ExpiresBefore(rows, j, i) ==
  \/ rows[j].expires < rows[i].expires
  \/ rows[j].expires = rows[i].expires /\ j < i

\* The budget cuts the list before the pinned memories are skipped.
Expired(rows, scope, includePinned) ==
  LET Before(j, i) == ExpiresBefore(rows, j, i) IN
  {i \in First(ExpireDue(rows, scope), Before) :
     includePinned \/ ~rows[i].pinned}

ExpireRows(rows, expired) ==
  [i \in Ids |-> IF i \in expired THEN RetiredRow(rows[i], "expired")
                 ELSE rows[i]]

\* Mutant of PromoteFts: promotion leaves the projection to the next reindex.
PromoteFtsStale(promoted) == fts

PromoteFts(promoted) ==
  [i \in Ids |-> IF i \in promoted THEN [fts[i] EXCEPT !.silo = Durable]
                 ELSE fts[i]]

DreamEntries(i, promoted, expired) ==
  (IF i \in promoted THEN <<Entry("dream", "active", "active")>> ELSE <<>>)
    \o (IF i \in expired THEN <<Entry("dream", "active", "expired")>> ELSE <<>>)

Dream(tasks, scope, includePinned) ==
  LET promoted == IF "promote" \in tasks THEN Promoted(scope) ELSE {}
      rows == PromoteRows(promoted)
      expired == IF "expire" \in tasks
                 THEN Expired(rows, scope, includePinned) ELSE {} IN
  /\ mem' = ExpireRows(rows, expired)
  /\ fts' = IF "reindex" \in tasks
            THEN [i \in Ids |-> FtsRow(mem'[i])]
            ELSE ExpireRows(PromoteFts(promoted), expired)
  /\ events' = [i \in Ids |-> events[i] \o DreamEntries(i, promoted, expired)]
  /\ UNCHANGED <<now, count, links, conflicts, recalls>>

-----------------------------------------------------------------------------
(* Specification *)

Tick ==
  /\ now < MaxTime
  /\ now' = now + 1
  /\ UNCHANGED <<count, mem, fts, events, links, conflicts, recalls>>

Next ==
  \/ /\ count < MaxMemories
     /\ \E r \in Requests : \E window \in ClaimWindows(r) : Remember(r, window)
  \/ \E i \in Ids : Forget(i)
  \/ \E i \in Ids : \E c \in Corrections(i) : Correct(i, c)
  \/ \E i \in Ids, s \in Sessions : RecordRecall(i, s)
  \/ \E tasks \in DreamTaskSets, scope \in Scopes, includePinned \in BOOLEAN :
       Dream(tasks, scope, includePinned)
  \/ Tick

Spec == Init /\ [][Next]_vars

\* A nightly job (docs/operations.md): the whole store, default flags, one of the
\* task lists.  The job written there has `expire` in its list, and no `promote`.
NightlyDream ==
  \E tasks \in DreamTaskSets :
    Dream(tasks, [space |-> AllSpaces, silos |-> {}], FALSE)

LiveSpec == Spec /\ WF_vars(NightlyDream)

-----------------------------------------------------------------------------
(* Properties *)

\* The full-text projection never says something else of a memory than its
\* row: search filters on the row, the lexical leg on the projection, and five
\* statements in four functions keep the two together.
FtsMirrorsMemory == \A i \in Ids : fts[i] = FtsRow(mem[i])

\* A log tells how its memory came to have a status: it starts with the birth,
\* every event takes up the status the previous one left, and the last one
\* left that status.
Explains(log, status) ==
  /\ Len(log) > 0
  /\ log[1] = Entry("remember", "none", "active")
  /\ \A k \in 1..(Len(log) - 1) : log[k + 1].old = log[k].new
  /\ log[Len(log)].new = status

\* A memory's history explains its present: no operation changes a status
\* without recording the change, from the status it really had.
AuditTrail == \A i \in Ids : Explains(events[i], mem[i].status)

\* Supersession links say what happened, both ways and once: the two links of
\* a supersession come together; the successor is the younger memory, in the
\* same space; what it superseded was not pinned and is not active; nobody is
\* superseded twice; and every superseded memory has its successor.
SupersessionTree ==
  /\ \A i, j \in Ids :
       <<j, i, "supersedes">> \in links <=> <<i, j, "superseded_by">> \in links
  /\ \A i, j \in Ids :
       <<j, i, "supersedes">> \in links =>
         /\ i < j
         /\ mem[i].space = mem[j].space
         /\ ~mem[i].pinned
         /\ mem[i].status \in {"superseded", "tombstoned"}
  /\ \A i, j, k \in Ids :
       <<j, i, "supersedes">> \in links /\ <<k, i, "supersedes">> \in links
         => j = k
  /\ \A i \in Ids :
       mem[i].status = "superseded" =>
         \E j \in Ids : <<j, i, "supersedes">> \in links

\* Only a correction may relate memories of two spaces: every other link, and
\* every conflict row, stays inside one.
OnlyCorrectionsCrossSpaces ==
  /\ \A l \in links :
       mem[l[1]].space # mem[l[2]].space =>
         /\ l[3] = "contradicts"
         /\ events[l[2]][Len(events[l[2]])].type = "correct"
  /\ \A c \in conflicts : mem[c[1]].space = mem[c[2]].space

\* With default writes only, of kinds that supersede, and no more memories of
\* one claim than the lookup reads: two unpinned active memories of a claim
\* are there together only if the younger write brought the older observation
\* or an equal one, so the freshest observation is never shadowed by an older
\* fact that was written before it.
ClaimOrder ==
  \A i, j \in Ids :
    /\ i < j /\ Active(i) /\ Active(j) /\ ~mem[i].pinned
    /\ mem[i].space = mem[j].space
    /\ mem[i].key = mem[j].key /\ mem[i].key # NoKey
    => mem[j].observed <= mem[i].observed

Lapsed(i) == i \in Ids /\ Active(i) /\ mem[i].expires <= now
Recalled(i) == /\ i \in Ids /\ Active(i) /\ mem[i].silo = ShortTerm
               /\ Cardinality(recalls[i]) >= PromoteThreshold

\* A short-term memory that enough sessions retrieved is promoted before its
\* TTL is looked at, so the run that promotes never expires it: unless the
\* budget, which cuts promotion by id and expiry by time, is spent before it.
RecalledNeverExpires ==
  [][\A i \in Ids :
       /\ Recalled(i)
       /\ Cardinality({j \in Ids : Recalled(j) /\ j < i}) < DreamBudget
       => mem'[i].status # "expired"]_vars

\* The lapsed memories that no nightly run ends and every one counts first.
PinnedBefore(i) ==
  {j \in Ids : Lapsed(j) /\ mem[j].pinned /\ ExpiresBefore(mem, j, i)}

\* Maintenance that keeps running ends every lapsed, unpinned memory (or
\* promotes it out of its TTL): unless as many lapsed pinned memories as the
\* budget stand before it, for ever at the head of the expiry order.
LapsedEventuallyLeave ==
  \A i \in 1..MaxMemories :
    Lapsed(i) /\ ~mem[i].pinned
      ~> (~Lapsed(i) \/ Cardinality(PinnedBefore(i)) >= DreamBudget)

\* The store implements the lifecycle: status and pin flag, read off the rows.
Lifecycle ==
  INSTANCE MemoryLifecycle WITH
    status <- [i \in Ids |-> mem[i].status],
    pinned <- [i \in Ids |-> mem[i].pinned]

\* Every step of the store is a step of MemoryLifecycle or leaves it alone.
ImplementsLifecycle == Lifecycle!Spec

\* The rows are well formed, links, conflicts and projected rows name memories
\* that exist, and only a correction relates memories of two spaces.
RowsSound == TypeOK /\ OnlyCorrectionsCrossSpaces
=============================================================================
