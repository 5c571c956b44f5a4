-------------------------- MODULE MemoryStore_proofs --------------------------
(***************************************************************************)
(* Machine-checked proofs about MemoryStore, and about the two modules     *)
(* composed with it, for every value of their constants: what the tables   *)
(* of the store say of one memory agrees, the store implements             *)
(* MemoryLifecycle, and the queue implements the store, so that what is    *)
(* proved of the store holds behind the queue as well.  Of the archive:    *)
(* an export comes back as it went out and is found as it was, and what    *)
(* was damaged in it or moved to another space is refused or does no harm. *)
(***************************************************************************)
EXTENDS ReviewQueue, Archive, Rankings_proofs

-----------------------------------------------------------------------------
(* What the helpers of the actions return *)

\* The implicit supersession of a write takes unpinned, active memories of the
\* request's space, whatever the mode.
LEMMA UnnamedCanBeSuperseded ==
  ASSUME NEW r \in Requests, NEW window \in ClaimWindows(r)
  PROVE  /\ window \subseteq Ids
         /\ \A i \in Unnamed(r, window) : i \in Ids /\ CanSupersede(i, r.space)
<1>1. window \subseteq SameClaim(r.space, r.key)
  BY DEF ClaimWindows
<1>2. Unnamed(r, window) \subseteq {i \in window : ~mem[i].pinned}
  BY DEF Unnamed
<1>3. QED
  BY <1>1, <1>2 DEF SameClaim, CanSupersede

\* Promotion keeps a row a row and touches its silo and its TTL only.
LEMMA PromotedRowFields ==
  ASSUME NEW row \in Row
  PROVE  /\ PromotedRow(row) \in Row
         /\ PromotedRow(row).status = row.status
         /\ PromotedRow(row).space = row.space
         /\ PromotedRow(row).pinned = row.pinned
         /\ PromotedRow(row).key = row.key
         /\ PromotedRow(row).observed = row.observed
         /\ PromotedRow(row).silo = Durable
<1> DEFINE durable == [row EXCEPT !.silo = Durable]
<1>1. /\ durable \in Row
      /\ durable.status = row.status /\ durable.space = row.space
      /\ durable.pinned = row.pinned /\ durable.silo = Durable
      /\ durable.key = row.key /\ durable.observed = row.observed
  BY RequestAssumption DEF Row
<1>2. PromotedRow(row) = [durable EXCEPT !.expires = Never]
  BY DEF PromotedRow
<1>3. Never \in 0..Never
  BY BoundsAssumption DEF Never
<1> HIDE DEF durable
<1>4. QED
  BY <1>1, <1>2, <1>3 DEF Row

\* A dream run promotes and expires memories that exist and are active, and
\* never the same one twice over.
LEMMA DreamTargets ==
  ASSUME TypeOK, NEW scope \in Scopes, NEW includePinned \in BOOLEAN,
         NEW promoted, promoted = {} \/ promoted = Promoted(scope),
         NEW expired,
         expired = {} \/ expired = Expired(PromoteRows(promoted), scope, includePinned)
  PROVE  /\ \A i \in promoted : i \in Ids /\ Active(i)
         /\ \A i \in expired : i \in Ids /\ Active(i)
<1>1. \A i \in promoted : i \in Ids /\ Active(i)
  BY DEF Promoted, PromoteDue, First
<1>2. \A i \in expired : i \in Ids /\ PromoteRows(promoted)[i].status = "active"
  BY DEF Expired, ExpireDue, First
<1>3. \A i \in Ids : PromoteRows(promoted)[i].status = mem[i].status
  BY PromotedRowFields DEF PromoteRows, TypeOK
<1>4. QED
  BY <1>1, <1>2, <1>3 DEF Active

\* The links a write adds join memories of the same set.
LEMMA LinksInside ==
  ASSUME NEW S, NEW new \in S, NEW others \in SUBSET S
  PROVE  /\ SupersedeLinks(new, others) \subseteq S \X S \X LinkTypes
         /\ ContradictLinks(new, others) \subseteq S \X S \X LinkTypes
<1>1. \A i \in others : /\ <<new, i, "supersedes">> \in S \X S \X LinkTypes
                        /\ <<i, new, "superseded_by">> \in S \X S \X LinkTypes
                        /\ <<new, i, "contradicts">> \in S \X S \X LinkTypes
                        /\ <<i, new, "contradicts">> \in S \X S \X LinkTypes
  BY DEF LinkTypes
<1>2. QED
  BY <1>1 DEF SupersedeLinks, ContradictLinks

-----------------------------------------------------------------------------
(* Type correctness *)

\* The empty store is well typed.
LEMMA TypeInit == Init => TypeOK
BY BoundsAssumption DEF Init, TypeOK, Ids, Never

\* A write keeps the tables well typed: the new row is a row, the retired ones
\* stay rows, and all links name memories that exist afterwards.
LEMMA RememberType ==
  ASSUME TypeOK, NEW r \in Requests, NEW window \in ClaimWindows(r),
         Remember(r, window)
  PROVE  TypeOK'
<1> DEFINE new == count + 1
           retired == r.supersedes \cup Unnamed(r, window)
<1>1. window \subseteq Ids /\ retired \subseteq Ids /\ r.contradicts \subseteq Ids
  BY UnnamedCanBeSuperseded DEF Requests, References
<1>2. new \in Nat /\ count' = new /\ Ids' = 1..new /\ Ids \subseteq Ids' /\ new \in Ids'
      /\ \A i \in Ids' : i = new \/ i \in Ids
  BY DEF TypeOK, Remember, Ids
<1>3. NewRow(r) \in Row
  BY BoundsAssumption, RequestAssumption
  DEF NewRow, Row, Requests, Statuses, Never
<1>4. mem' \in [Ids' -> Row]
  <2>1. ASSUME NEW i \in Ids
        PROVE  RetiredRow(mem[i], "superseded") \in Row
    <3>1. mem[i] \in Row
      BY DEF TypeOK
    <3>2. QED
      BY <3>1 DEF RetiredRow, Row, Statuses
  <2>2. mem' = [i \in 1..new |->
                  IF i = new THEN NewRow(r)
                  ELSE IF i \in retired THEN RetiredRow(mem[i], "superseded")
                  ELSE mem[i]]
    BY DEF Remember, InsertAndSupersede
  <2>3. QED
    BY <1>2, <1>3, <2>1, <2>2 DEF TypeOK
<1>5. fts' \in [Ids' -> [status : Statuses, silo : Silos]]
  <2>1. FtsRow(NewRow(r)) \in [status : Statuses, silo : Silos]
    BY <1>3 DEF FtsRow, Row
  <2>2. \A i \in Ids : RetiredRow(fts[i], "superseded")
                         \in [status : Statuses, silo : Silos]
    BY DEF RetiredRow, TypeOK, Statuses
  <2>3. fts' = [i \in 1..new |->
                  IF i = new THEN FtsRow(NewRow(r))
                  ELSE IF i \in retired THEN RetiredRow(fts[i], "superseded")
                  ELSE fts[i]]
    BY DEF Remember, InsertAndSupersede
  <2>4. QED
    BY <1>2, <2>1, <2>2, <2>3 DEF TypeOK
<1>6. events' \in [Ids' -> Seq(Event)]
  <2>1. <<Entry("remember", "none", "active")>> \in Seq(Event)
    BY DEF Entry, Event, EventTypes, Statuses
  <2>2. \A i \in Ids :
          Append(events[i], Entry("supersede", mem[i].status, "superseded"))
            \in Seq(Event)
    <3> SUFFICES ASSUME NEW i \in Ids
                 PROVE  Append(events[i],
                               Entry("supersede", mem[i].status, "superseded"))
                          \in Seq(Event)
      OBVIOUS
    <3>1. events[i] \in Seq(Event) /\ mem[i].status \in Statuses
      BY DEF TypeOK, Row
    <3>2. Entry("supersede", mem[i].status, "superseded") \in Event
      BY <3>1 DEF Entry, Event, EventTypes, Statuses
    <3>3. QED
      BY <3>1, <3>2
  <2>3. events' = [i \in 1..new |->
                     IF i = new THEN <<Entry("remember", "none", "active")>>
                     ELSE IF i \in retired
                     THEN Append(events[i],
                                 Entry("supersede", mem[i].status, "superseded"))
                     ELSE events[i]]
    BY DEF Remember, InsertAndSupersede
  <2>4. QED
    BY <1>2, <2>1, <2>2, <2>3 DEF TypeOK
<1>7. links' \subseteq Ids' \X Ids' \X LinkTypes
  <2>1. links \subseteq Ids' \X Ids' \X LinkTypes
    BY <1>2 DEF TypeOK
  <2>2. SupersedeLinks(new, retired) \subseteq Ids' \X Ids' \X LinkTypes
    BY <1>1, <1>2, LinksInside
  <2>3. ContradictLinks(new, r.contradicts) \subseteq Ids' \X Ids' \X LinkTypes
    BY <1>1, <1>2, LinksInside
  <2>4. QED
    BY <2>1, <2>2, <2>3 DEF Remember
<1>8. conflicts' \subseteq Ids' \X Ids'
  <2>1. conflicts \subseteq Ids' \X Ids'
    BY <1>2 DEF TypeOK
  <2>2. {<<new, i>> : i \in window} \subseteq Ids' \X Ids'
    <3> HIDE DEF new
    <3>1. QED
      BY <1>1, <1>2
  <2>3. QED
    BY <2>1, <2>2 DEF Remember
<1>9. recalls' \in [Ids' -> SUBSET Sessions]
  BY <1>1, <1>2 DEF Remember, TypeOK
<1>10. QED
  BY <1>2, <1>4, <1>5, <1>6, <1>7, <1>8, <1>9 DEF TypeOK, Remember

\* Forgetting and correcting keep the tables well typed.
LEMMA TombstoneType ==
  ASSUME TypeOK, NEW i \in Ids, NEW type \in {"forget", "correct"},
         Tombstone(i, type), links' \subseteq Ids \X Ids \X LinkTypes
  PROVE  TypeOK'
<1>1. Ids' = Ids
  BY DEF Tombstone, Ids
<1>2. mem' \in [Ids -> Row]
  <2>1. mem \in [Ids -> Row] /\ mem' = [mem EXCEPT ![i].status = "tombstoned"]
    BY DEF TypeOK, Tombstone
  <2>2. mem[i] \in Row
    BY <2>1
  <2>3. [mem[i] EXCEPT !.status = "tombstoned"] \in Row
    BY <2>2 DEF Row, Statuses
  <2>4. QED
    BY <2>1, <2>3
<1>3. fts' \in [Ids -> [status : Statuses, silo : Silos]]
  BY DEF Tombstone, TypeOK, Statuses
<1>4. events' \in [Ids -> Seq(Event)]
  <2>1. events[i] \in Seq(Event) /\ mem[i].status \in Statuses
    BY DEF TypeOK, Row
  <2>2. Entry(type, mem[i].status, "tombstoned") \in Event
    BY <2>1 DEF Entry, Event, EventTypes, Statuses
  <2>3. Append(events[i], Entry(type, mem[i].status, "tombstoned")) \in Seq(Event)
    BY <2>1, <2>2
  <2>4. QED
    BY <2>3 DEF Tombstone, TypeOK
<1>5. QED
  BY <1>1, <1>2, <1>3, <1>4 DEF Tombstone, TypeOK

\* What a dream run does, memory by memory.
LEMMA DreamEffect ==
  ASSUME TypeOK, NEW tasks, NEW scope \in Scopes, NEW includePinned \in BOOLEAN,
         Dream(tasks, scope, includePinned)
  PROVE  \E promoted, expired \in SUBSET Ids :
           /\ \A i \in promoted \cup expired : Active(i)
           /\ mem' = ExpireRows(PromoteRows(promoted), expired)
           /\ \/ fts' = [i \in Ids |-> FtsRow(mem'[i])]
              \/ fts' = ExpireRows(PromoteFts(promoted), expired)
           /\ events' =
                [i \in Ids |-> events[i] \o DreamEntries(i, promoted, expired)]
<1> DEFINE promoted == IF "promote" \in tasks THEN Promoted(scope) ELSE {}
           expired == IF "expire" \in tasks
                      THEN Expired(PromoteRows(promoted), scope, includePinned)
                      ELSE {}
<1>1. /\ promoted = {} \/ promoted = Promoted(scope)
      /\ expired = {}
           \/ expired = Expired(PromoteRows(promoted), scope, includePinned)
  OBVIOUS
<1>2. /\ mem' = ExpireRows(PromoteRows(promoted), expired)
      /\ fts' = IF "reindex" \in tasks
                THEN [i \in Ids |-> FtsRow(mem'[i])]
                ELSE ExpireRows(PromoteFts(promoted), expired)
      /\ events' =
           [i \in Ids |-> events[i] \o DreamEntries(i, promoted, expired)]
  BY DEF Dream
<1>3. /\ \A i \in promoted : i \in Ids /\ Active(i)
      /\ \A i \in expired : i \in Ids /\ Active(i)
  <2> HIDE DEF promoted, expired
  <2>1. QED
    BY <1>1, DreamTargets
<1>4. promoted \in SUBSET Ids /\ expired \in SUBSET Ids
      /\ \A i \in promoted \cup expired : Active(i)
  BY <1>3
<1> HIDE DEF promoted, expired
<1>5. QED
  BY <1>2, <1>4

\* A dream run keeps the tables well typed, whatever it promotes and expires.
LEMMA DreamType ==
  ASSUME TypeOK, NEW tasks, NEW scope \in Scopes, NEW includePinned \in BOOLEAN,
         Dream(tasks, scope, includePinned)
  PROVE  TypeOK'
<1>1. PICK promoted \in SUBSET Ids, expired \in SUBSET Ids :
        /\ \A i \in promoted \cup expired : Active(i)
        /\ mem' = ExpireRows(PromoteRows(promoted), expired)
        /\ \/ fts' = [i \in Ids |-> FtsRow(mem'[i])]
           \/ fts' = ExpireRows(PromoteFts(promoted), expired)
        /\ events' =
             [i \in Ids |-> events[i] \o DreamEntries(i, promoted, expired)]
  BY DreamEffect
<1>2. Ids' = Ids /\ UNCHANGED <<now, count, links, conflicts, recalls>>
  BY DEF Dream, Ids
<1>3. mem' \in [Ids -> Row]
  <2>1. PromoteRows(promoted) \in [Ids -> Row]
    BY PromotedRowFields DEF PromoteRows, TypeOK
  <2>2. \A row \in Row : RetiredRow(row, "expired") \in Row
    BY DEF RetiredRow, Row, Statuses
  <2>3. mem' = ExpireRows(PromoteRows(promoted), expired)
    BY <1>1
  <2>4. QED
    BY <2>1, <2>2, <2>3 DEF ExpireRows
<1>4. fts' \in [Ids -> [status : Statuses, silo : Silos]]
  <2>1. CASE fts' = [i \in Ids |-> FtsRow(mem'[i])]
    BY <1>3, <2>1 DEF FtsRow, Row
  <2>2. CASE fts' = ExpireRows(PromoteFts(promoted), expired)
    <3>1. PromoteFts(promoted) \in [Ids -> [status : Statuses, silo : Silos]]
      BY RequestAssumption DEF PromoteFts, TypeOK
    <3>2. QED
      BY <2>2, <3>1 DEF ExpireRows, RetiredRow, Statuses
  <2>3. QED
    BY <1>1, <2>1, <2>2
<1>5. events' \in [Ids -> Seq(Event)]
  <2>1. \A i \in Ids : DreamEntries(i, promoted, expired) \in Seq(Event)
    <3>1. /\ Entry("dream", "active", "active") \in Event
          /\ Entry("dream", "active", "expired") \in Event
      BY DEF Entry, Event, EventTypes, Statuses
    <3>2. QED
      BY <3>1 DEF DreamEntries
  <2>2. \A i \in Ids : events[i] \o DreamEntries(i, promoted, expired) \in Seq(Event)
    BY <2>1 DEF TypeOK
  <2>3. QED
    BY <1>1, <2>2
<1>6. QED
  BY <1>2, <1>3, <1>4, <1>5 DEF TypeOK

\* A recall is recorded for a memory that exists.
LEMMA RecordRecallType ==
  ASSUME TypeOK, NEW i \in Ids, NEW s \in Sessions, RecordRecall(i, s)
  PROVE  TypeOK'
BY DEF RecordRecall, TypeOK, Ids

\* Every step of the store keeps the tables well typed.
LEMMA TypeNext == TypeOK /\ [Next]_vars => TypeOK'
<1> SUFFICES ASSUME TypeOK, [Next]_vars PROVE TypeOK'
  OBVIOUS
<1>1. CASE \E r \in Requests : \E window \in ClaimWindows(r) : Remember(r, window)
  BY <1>1, RememberType
<1>2. CASE \E i \in Ids : Forget(i)
  BY <1>2, TombstoneType DEF Forget, TypeOK
<1>3. CASE \E i \in Ids : \E c \in Corrections(i) : Correct(i, c)
  <2>1. PICK i \in Ids : \E c \in Corrections(i) : Correct(i, c)
    BY <1>3
  <2> PICK c \in Corrections(i) : Correct(i, c)
    BY <2>1
  <2>2. {<<k, i, "contradicts">> : k \in c} \subseteq Ids \X Ids \X LinkTypes
    BY DEF Corrections, LinkTypes
  <2>3. QED
    BY <2>2, TombstoneType DEF Correct, TypeOK
<1>4. CASE \E i \in Ids, s \in Sessions : RecordRecall(i, s)
  BY <1>4, RecordRecallType
<1>5. CASE \E tasks \in DreamTaskSets, scope \in Scopes, p \in BOOLEAN :
             Dream(tasks, scope, p)
  BY <1>5, DreamType
<1>6. CASE Tick
  BY <1>6, BoundsAssumption DEF Tick, TypeOK, Ids
<1>7. CASE UNCHANGED vars
  BY <1>7 DEF vars, TypeOK, Ids
<1>8. QED
  BY <1>1, <1>2, <1>3, <1>4, <1>5, <1>6, <1>7 DEF Next

\* The tables only ever hold well-formed rows, and every link, conflict and
\* projected row names memories that exist.
THEOREM TypeCorrect == Spec => []TypeOK
<1>1. QED
  BY TypeInit, TypeNext, PTL DEF Spec

-----------------------------------------------------------------------------
(* What each action does to the rows, memory by memory *)

\* Retiring a memory changes its status and nothing else.
LEMMA RetiredRowFields ==
  ASSUME NEW row \in Row, NEW s \in Statuses
  PROVE  /\ RetiredRow(row, s).status = s
         /\ RetiredRow(row, s).space = row.space
         /\ RetiredRow(row, s).pinned = row.pinned
         /\ RetiredRow(row, s).key = row.key
         /\ RetiredRow(row, s).observed = row.observed
         /\ RetiredRow(row, s).silo = row.silo
         /\ FtsRow(RetiredRow(row, s)) = RetiredRow(FtsRow(row), s)
BY DEF RetiredRow, Row, FtsRow

\* A successful remember adds one memory and retires only memories that may be
\* superseded in its space; every other row stays as it is.
LEMMA RememberRows ==
  ASSUME TypeOK, NEW r \in Requests, NEW window \in ClaimWindows(r),
         Remember(r, window)
  PROVE  \E retired \in SUBSET Ids :
           /\ retired = r.supersedes \cup Unnamed(r, window)
           /\ count' = count + 1 /\ Ids' = Ids \cup {count + 1}
           /\ count + 1 \notin Ids
           /\ \A i \in retired : CanSupersede(i, r.space)
           /\ mem'[count + 1] = NewRow(r)
           /\ \A i \in retired : mem'[i] = RetiredRow(mem[i], "superseded")
           /\ \A i \in Ids \ retired : mem'[i] = mem[i]
<1> DEFINE retired == r.supersedes \cup Unnamed(r, window)
<1>1. retired \in SUBSET Ids
  BY UnnamedCanBeSuperseded DEF Requests, References
<1>2. \A i \in retired : CanSupersede(i, r.space)
  BY UnnamedCanBeSuperseded DEF Remember
<1>3. /\ count' = count + 1 /\ Ids' = Ids \cup {count + 1}
      /\ count + 1 \notin Ids /\ 1..(count + 1) = Ids \cup {count + 1}
  BY DEF Remember, TypeOK, Ids
<1>4. mem' = [i \in 1..(count + 1) |->
                IF i = count + 1 THEN NewRow(r)
                ELSE IF i \in retired THEN RetiredRow(mem[i], "superseded")
                ELSE mem[i]]
  BY DEF Remember, InsertAndSupersede
<1> HIDE DEF retired
<1>5. /\ mem'[count + 1] = NewRow(r)
      /\ \A i \in retired : mem'[i] = RetiredRow(mem[i], "superseded")
      /\ \A i \in Ids \ retired : mem'[i] = mem[i]
  BY <1>1, <1>3, <1>4
<1>6. QED
  BY <1>1, <1>2, <1>3, <1>5 DEF retired

\* Forgetting a memory sets its status, in both tables, and no other row.
LEMMA TombstoneRows ==
  ASSUME TypeOK, NEW i \in Ids, NEW type, Tombstone(i, type)
  PROVE  /\ Ids' = Ids
         /\ \A k \in Ids : mem'[k] = IF k = i THEN RetiredRow(mem[i], "tombstoned")
                                      ELSE mem[k]
         /\ \A k \in Ids : fts'[k] = IF k = i THEN RetiredRow(fts[i], "tombstoned")
                                      ELSE fts[k]
<1>1. Ids' = Ids
  BY DEF Tombstone, Ids
<1>2. /\ mem' = [mem EXCEPT ![i] = [mem[i] EXCEPT !.status = "tombstoned"]]
      /\ fts' = [fts EXCEPT ![i] = [fts[i] EXCEPT !.status = "tombstoned"]]
  BY DEF Tombstone
<1>3. mem' = [mem EXCEPT ![i] = RetiredRow(mem[i], "tombstoned")]
      /\ fts' = [fts EXCEPT ![i] = RetiredRow(fts[i], "tombstoned")]
  BY <1>2 DEF RetiredRow
<1>4. QED
  BY <1>1, <1>3 DEF TypeOK

\* A dream run changes the status of the memories it expires and of no other;
\* spaces and pins stay.
LEMMA DreamRows ==
  ASSUME TypeOK, NEW promoted \in SUBSET Ids, NEW expired \in SUBSET Ids,
         NEW i \in Ids
  PROVE  LET row == ExpireRows(PromoteRows(promoted), expired)[i] IN
         /\ row.status = IF i \in expired THEN "expired" ELSE mem[i].status
         /\ row.space = mem[i].space
         /\ row.pinned = mem[i].pinned
         /\ row.key = mem[i].key /\ row.observed = mem[i].observed
         /\ row.silo = IF i \in promoted THEN Durable ELSE mem[i].silo
<1> DEFINE promotedRow == PromoteRows(promoted)[i]
<1>1. /\ promotedRow \in Row
      /\ promotedRow.status = mem[i].status
      /\ promotedRow.space = mem[i].space
      /\ promotedRow.pinned = mem[i].pinned
      /\ promotedRow.key = mem[i].key /\ promotedRow.observed = mem[i].observed
      /\ promotedRow.silo = IF i \in promoted THEN Durable ELSE mem[i].silo
  BY PromotedRowFields DEF PromoteRows, TypeOK
<1>2. ExpireRows(PromoteRows(promoted), expired)[i] =
        IF i \in expired THEN RetiredRow(promotedRow, "expired") ELSE promotedRow
  BY DEF ExpireRows
<1> HIDE DEF promotedRow
<1>3. QED
  BY <1>1, <1>2, RetiredRowFields DEF Statuses

-----------------------------------------------------------------------------
(* The projection *)

\* Every step of the store keeps the projection a mirror: the four functions
\* that write it write what they wrote to the row.
LEMMA FtsNext == TypeOK /\ FtsMirrorsMemory /\ [Next]_vars => FtsMirrorsMemory'
<1> SUFFICES ASSUME TypeOK, FtsMirrorsMemory, [Next]_vars
             PROVE  FtsMirrorsMemory'
  OBVIOUS
<1>1. CASE \E r \in Requests : \E window \in ClaimWindows(r) : Remember(r, window)
  <2>1. PICK r \in Requests : \E window \in ClaimWindows(r) : Remember(r, window)
    BY <1>1
  <2> PICK window \in ClaimWindows(r) : Remember(r, window)
    BY <2>1
  <2>2. PICK retired \in SUBSET Ids :
          /\ retired = r.supersedes \cup Unnamed(r, window)
          /\ count' = count + 1 /\ Ids' = Ids \cup {count + 1}
          /\ count + 1 \notin Ids
          /\ \A i \in retired : CanSupersede(i, r.space)
          /\ mem'[count + 1] = NewRow(r)
          /\ \A i \in retired : mem'[i] = RetiredRow(mem[i], "superseded")
          /\ \A i \in Ids \ retired : mem'[i] = mem[i]
    BY RememberRows
  <2>3. Ids' = 1..(count + 1)
    BY <2>2 DEF Ids
  <2>4. /\ fts'[count + 1] = FtsRow(NewRow(r))
        /\ \A i \in retired : fts'[i] = RetiredRow(fts[i], "superseded")
        /\ \A i \in Ids \ retired : fts'[i] = fts[i]
    BY <2>2, <2>3 DEF Remember, InsertAndSupersede
  <2>5. \A i \in Ids : fts[i] = FtsRow(mem[i]) /\ mem[i] \in Row
    BY DEF FtsMirrorsMemory, TypeOK
  <2>6. \A i \in retired : fts'[i] = FtsRow(mem'[i])
    BY <2>2, <2>4, <2>5, RetiredRowFields DEF Statuses
  <2>7. QED
    BY <2>2, <2>4, <2>5, <2>6 DEF FtsMirrorsMemory
<1>2. ASSUME NEW i \in Ids, NEW type, Tombstone(i, type)
      PROVE  FtsMirrorsMemory'
  <2>1. /\ Ids' = Ids
        /\ \A k \in Ids : mem'[k] = IF k = i THEN RetiredRow(mem[i], "tombstoned")
                                     ELSE mem[k]
        /\ \A k \in Ids : fts'[k] = IF k = i THEN RetiredRow(fts[i], "tombstoned")
                                     ELSE fts[k]
    BY <1>2, TombstoneRows
  <2>2. \A k \in Ids : fts[k] = FtsRow(mem[k]) /\ mem[k] \in Row
    BY DEF FtsMirrorsMemory, TypeOK
  <2>3. FtsRow(RetiredRow(mem[i], "tombstoned")) = RetiredRow(fts[i], "tombstoned")
    BY <2>2, RetiredRowFields DEF Statuses
  <2>4. QED
    BY <2>1, <2>2, <2>3 DEF FtsMirrorsMemory
<1>3. CASE \E tasks \in DreamTaskSets, scope \in Scopes, p \in BOOLEAN :
             Dream(tasks, scope, p)
  <2> PICK tasks \in DreamTaskSets, scope \in Scopes, p \in BOOLEAN :
        Dream(tasks, scope, p)
    BY <1>3
  <2>1. PICK promoted \in SUBSET Ids, expired \in SUBSET Ids :
          /\ \A i \in promoted \cup expired : Active(i)
          /\ mem' = ExpireRows(PromoteRows(promoted), expired)
          /\ \/ fts' = [i \in Ids |-> FtsRow(mem'[i])]
             \/ fts' = ExpireRows(PromoteFts(promoted), expired)
          /\ events' =
               [i \in Ids |-> events[i] \o DreamEntries(i, promoted, expired)]
    BY DreamEffect
  <2>2. Ids' = Ids
    BY DEF Dream, Ids
  <2>3. CASE fts' = [i \in Ids |-> FtsRow(mem'[i])]
    BY <2>2, <2>3 DEF FtsMirrorsMemory
  <2>4. CASE fts' = ExpireRows(PromoteFts(promoted), expired)
    <3> SUFFICES ASSUME NEW i \in Ids PROVE fts'[i] = FtsRow(mem'[i])
      BY <2>2 DEF FtsMirrorsMemory
    <3>1. PromoteFts(promoted)[i] = FtsRow(PromoteRows(promoted)[i])
      <4>1. fts[i] = FtsRow(mem[i]) /\ mem[i] \in Row
        BY DEF FtsMirrorsMemory, TypeOK
      <4>2. [FtsRow(mem[i]) EXCEPT !.silo = Durable] = FtsRow(PromotedRow(mem[i]))
        BY <4>1, PromotedRowFields DEF FtsRow
      <4>3. QED
        BY <4>1, <4>2 DEF PromoteFts, PromoteRows
    <3>2. PromoteRows(promoted)[i] \in Row
      BY PromotedRowFields DEF PromoteRows, TypeOK
    <3>3. QED
      BY <2>1, <2>4, <3>1, <3>2, RetiredRowFields DEF ExpireRows, Statuses
  <2>5. QED
    BY <2>1, <2>3, <2>4
<1>4. CASE \E i \in Ids, s \in Sessions : RecordRecall(i, s)
  BY <1>4 DEF RecordRecall, FtsMirrorsMemory, Ids
<1>5. CASE Tick
  BY <1>5 DEF Tick, FtsMirrorsMemory, Ids
<1>6. CASE UNCHANGED vars
  BY <1>6 DEF vars, FtsMirrorsMemory, Ids
<1>7. QED
  BY <1>1, <1>2, <1>3, <1>4, <1>5, <1>6 DEF Next, Forget, Correct

\* The full-text projection repeats the status and silo of every memory.
THEOREM FtsAlwaysMirrors == Spec => []FtsMirrorsMemory
<1>1. Init => FtsMirrorsMemory
  BY DEF Init, FtsMirrorsMemory, Ids
<1>2. QED
  BY <1>1, TypeCorrect, FtsNext, PTL DEF Spec

-----------------------------------------------------------------------------
(* The audit trail *)

\* A log that explains a status explains the next one once the event that
\* led there is appended.
LEMMA ExplainsAppend ==
  ASSUME NEW log \in Seq(Event), NEW s, Explains(log, s),
         NEW e \in Event, e.old = s
  PROVE  Explains(Append(log, e), e.new)
<1> DEFINE longer == Append(log, e)
<1>1. /\ Len(longer) = Len(log) + 1 /\ Len(log) \in Nat /\ Len(log) > 0
      /\ \A k \in 1..Len(log) : longer[k] = log[k]
      /\ longer[Len(log) + 1] = e
  BY DEF Explains
<1> HIDE DEF longer
<1>2. longer[1] = Entry("remember", "none", "active")
  BY <1>1 DEF Explains
<1>3. ASSUME NEW k \in 1..(Len(longer) - 1)
      PROVE  longer[k + 1].old = longer[k].new
  <2>1. CASE k = Len(log)
    BY <1>1, <2>1 DEF Explains
  <2>2. CASE k < Len(log)
    <3>1. k \in 1..(Len(log) - 1) /\ k + 1 \in 1..Len(log) /\ k \in 1..Len(log)
      BY <1>1, <2>2
    <3>2. QED
      BY <1>1, <3>1 DEF Explains
  <2>3. QED
    BY <1>1, <1>3, <2>1, <2>2
<1>4. Explains(longer, e.new)
  BY <1>1, <1>2, <1>3 DEF Explains
<1>5. QED
  BY <1>4 DEF longer

\* Concatenating what a dream run writes is appending its entries in order.
LEMMA ConcatEntries ==
  ASSUME NEW S, NEW log \in Seq(S), NEW a \in S, NEW b \in S
  PROVE  /\ log \o (<<>> \o <<>>) = log
         /\ log \o (<<a>> \o <<>>) = Append(log, a)
         /\ log \o (<<>> \o <<b>>) = Append(log, b)
         /\ log \o (<<a>> \o <<b>>) = Append(Append(log, a), b)
OBVIOUS

\* The entries an operation writes are events.
LEMMA EntryIsEvent ==
  ASSUME NEW type \in EventTypes, NEW old \in Statuses, NEW new \in Statuses
  PROVE  /\ Entry(type, old, new) \in Event
         /\ Entry(type, old, new).old = old
         /\ Entry(type, old, new).new = new
BY DEF Entry, Event

\* Every step of the store extends a log by the change it makes, or leaves both
\* alone.
LEMMA AuditNext == TypeOK /\ AuditTrail /\ [Next]_vars => AuditTrail'
<1> SUFFICES ASSUME TypeOK, AuditTrail, [Next]_vars
             PROVE  AuditTrail'
  OBVIOUS
<1>0. \A i \in Ids : /\ events[i] \in Seq(Event) /\ mem[i] \in Row
                     /\ mem[i].status \in Statuses
                     /\ Explains(events[i], mem[i].status)
  BY DEF TypeOK, AuditTrail, Row
<1>1. CASE \E r \in Requests : \E window \in ClaimWindows(r) : Remember(r, window)
  <2>1. PICK r \in Requests : \E window \in ClaimWindows(r) : Remember(r, window)
    BY <1>1
  <2> PICK window \in ClaimWindows(r) : Remember(r, window)
    BY <2>1
  <2>2. PICK retired \in SUBSET Ids :
          /\ retired = r.supersedes \cup Unnamed(r, window)
          /\ count' = count + 1 /\ Ids' = Ids \cup {count + 1}
          /\ count + 1 \notin Ids
          /\ \A i \in retired : CanSupersede(i, r.space)
          /\ mem'[count + 1] = NewRow(r)
          /\ \A i \in retired : mem'[i] = RetiredRow(mem[i], "superseded")
          /\ \A i \in Ids \ retired : mem'[i] = mem[i]
    BY RememberRows
  <2>3. Ids' = 1..(count + 1)
    BY <2>2 DEF Ids
  <2>4. /\ events'[count + 1] = <<Entry("remember", "none", "active")>>
        /\ \A i \in retired :
             events'[i] = Append(events[i],
                                 Entry("supersede", mem[i].status, "superseded"))
        /\ \A i \in Ids \ retired : events'[i] = events[i]
    BY <2>2, <2>3 DEF Remember, InsertAndSupersede
  <2>5. Explains(events'[count + 1], mem'[count + 1].status)
    BY <2>2, <2>4 DEF NewRow, Explains, Entry
  <2>6. \A i \in retired : Explains(events'[i], mem'[i].status)
    <3> SUFFICES ASSUME NEW i \in retired
                 PROVE  Explains(events'[i], mem'[i].status)
      OBVIOUS
    <3> DEFINE e == Entry("supersede", mem[i].status, "superseded")
    <3>1. e \in Event /\ e.old = mem[i].status /\ e.new = "superseded"
      BY <1>0, EntryIsEvent DEF EventTypes, Statuses
    <3>2. events'[i] = Append(events[i], e) /\ mem'[i].status = "superseded"
      BY <1>0, <2>2, <2>4, RetiredRowFields DEF Statuses
    <3> HIDE DEF e
    <3>3. QED
      BY <1>0, <3>1, <3>2, ExplainsAppend
  <2>7. QED
    BY <1>0, <2>2, <2>4, <2>5, <2>6 DEF AuditTrail
<1>2. ASSUME NEW i \in Ids, NEW type \in {"forget", "correct"}, Tombstone(i, type)
      PROVE  AuditTrail'
  <2> DEFINE e == Entry(type, mem[i].status, "tombstoned")
  <2>1. /\ Ids' = Ids
        /\ \A k \in Ids : mem'[k] = IF k = i THEN RetiredRow(mem[i], "tombstoned")
                                     ELSE mem[k]
    BY <1>2, TombstoneRows
  <2>2. e \in Event /\ e.old = mem[i].status /\ e.new = "tombstoned"
    BY <1>0, EntryIsEvent DEF EventTypes, Statuses
  <2>3. \A k \in Ids : events'[k] = IF k = i THEN Append(events[i], e)
                                    ELSE events[k]
    BY <1>2 DEF Tombstone, TypeOK
  <2> HIDE DEF e
  <2>4. mem'[i].status = "tombstoned"
    BY <1>0, <2>1, RetiredRowFields DEF Statuses
  <2>5. Explains(events'[i], mem'[i].status)
    BY <1>0, <2>2, <2>3, <2>4, ExplainsAppend
  <2>6. QED
    BY <1>0, <2>1, <2>3, <2>5 DEF AuditTrail
<1>3. CASE \E tasks \in DreamTaskSets, scope \in Scopes, p \in BOOLEAN :
             Dream(tasks, scope, p)
  <2> PICK tasks \in DreamTaskSets, scope \in Scopes, p \in BOOLEAN :
        Dream(tasks, scope, p)
    BY <1>3
  <2>1. PICK promoted \in SUBSET Ids, expired \in SUBSET Ids :
          /\ \A i \in promoted \cup expired : Active(i)
          /\ mem' = ExpireRows(PromoteRows(promoted), expired)
          /\ \/ fts' = [i \in Ids |-> FtsRow(mem'[i])]
             \/ fts' = ExpireRows(PromoteFts(promoted), expired)
          /\ events' =
               [i \in Ids |-> events[i] \o DreamEntries(i, promoted, expired)]
    BY DreamEffect
  <2>2. Ids' = Ids
    BY DEF Dream, Ids
  <2> SUFFICES ASSUME NEW i \in Ids
               PROVE  Explains(events'[i], mem'[i].status)
    BY <2>2 DEF AuditTrail
  <2> DEFINE kept == Entry("dream", "active", "active")
             ended == Entry("dream", "active", "expired")
  <2>3. /\ kept \in Event /\ kept.old = "active" /\ kept.new = "active"
        /\ ended \in Event /\ ended.old = "active" /\ ended.new = "expired"
    BY EntryIsEvent DEF EventTypes, Statuses
  <2>4. events'[i] = events[i] \o ((IF i \in promoted THEN <<kept>> ELSE <<>>)
                                    \o (IF i \in expired THEN <<ended>> ELSE <<>>))
    BY <2>1 DEF DreamEntries
  <2>5. mem'[i].status = IF i \in expired THEN "expired" ELSE mem[i].status
    BY <2>1, DreamRows
  <2>6. i \in promoted \cup expired => mem[i].status = "active"
    BY <2>1 DEF Active
  <2> HIDE DEF kept, ended
  <2> DEFINE first == IF i \in promoted THEN Append(events[i], kept) ELSE events[i]
  <2>7. first \in Seq(Event) /\ Explains(first, mem[i].status)
    BY <1>0, <2>3, <2>6, ExplainsAppend
  <2>8. events'[i] = IF i \in expired THEN Append(first, ended) ELSE first
    <3>1. /\ events[i] \o (<<>> \o <<>>) = events[i]
          /\ events[i] \o (<<kept>> \o <<>>) = Append(events[i], kept)
          /\ events[i] \o (<<>> \o <<ended>>) = Append(events[i], ended)
          /\ events[i] \o (<<kept>> \o <<ended>>) =
               Append(Append(events[i], kept), ended)
      BY <1>0, <2>3, ConcatEntries
    <3>2. CASE i \in promoted /\ i \in expired
      BY <2>4, <3>1, <3>2, Zenon
    <3>3. CASE i \in promoted /\ i \notin expired
      BY <2>4, <3>1, <3>3, Zenon
    <3>4. CASE i \notin promoted /\ i \in expired
      BY <2>4, <3>1, <3>4, Zenon
    <3>5. CASE i \notin promoted /\ i \notin expired
      BY <2>4, <3>1, <3>5, Zenon
    <3>6. QED
      BY <3>2, <3>3, <3>4, <3>5
  <2> HIDE DEF first
  <2>9. QED
    BY <2>3, <2>5, <2>6, <2>7, <2>8, ExplainsAppend
<1>4. CASE \E i \in Ids, s \in Sessions : RecordRecall(i, s)
  BY <1>4 DEF RecordRecall, AuditTrail, Ids
<1>5. CASE Tick
  BY <1>5 DEF Tick, AuditTrail, Ids
<1>6. CASE UNCHANGED vars
  BY <1>6 DEF vars, AuditTrail, Ids
<1>7. QED
  BY <1>1, <1>2, <1>3, <1>4, <1>5, <1>6 DEF Next, Forget, Correct

\* The event log of every memory explains its status, from birth to now.
THEOREM AuditAlwaysExplains == Spec => []AuditTrail
<1>1. Init => AuditTrail
  BY DEF Init, AuditTrail, Ids
<1>2. QED
  BY <1>1, TypeCorrect, AuditNext, PTL DEF Spec

-----------------------------------------------------------------------------
(* Supersession *)

\* The supersession links after a successful remember are the ones before and
\* a pair for every memory it retired.
LEMMA RememberLinks ==
  ASSUME TypeOK, NEW r \in Requests, NEW window \in ClaimWindows(r),
         Remember(r, window), NEW retired,
         retired = r.supersedes \cup Unnamed(r, window)
  PROVE  /\ \A i, j : <<j, i, "supersedes">> \in links' <=>
                      \/ <<j, i, "supersedes">> \in links
                      \/ j = count + 1 /\ i \in retired
         /\ \A i, j : <<i, j, "superseded_by">> \in links' <=>
                      \/ <<i, j, "superseded_by">> \in links
                      \/ j = count + 1 /\ i \in retired
<1>1. links' = links \cup SupersedeLinks(count + 1, retired)
                     \cup ContradictLinks(count + 1, r.contradicts)
  BY DEF Remember
<1>2. \A i, j : /\ <<j, i, "supersedes">> \in SupersedeLinks(count + 1, retired)
                     <=> j = count + 1 /\ i \in retired
                /\ <<i, j, "superseded_by">> \in SupersedeLinks(count + 1, retired)
                     <=> j = count + 1 /\ i \in retired
  BY DEF SupersedeLinks
<1>3. \A i, j : /\ <<j, i, "supersedes">> \notin ContradictLinks(count + 1, r.contradicts)
                /\ <<i, j, "superseded_by">> \notin ContradictLinks(count + 1, r.contradicts)
  BY DEF ContradictLinks
<1>4. QED
  BY <1>1, <1>2, <1>3

\* A step that leaves the supersession links, the spaces and the pins alone,
\* supersedes nothing and moves no superseded memory anywhere but to its
\* tombstone keeps the tree.
LEMMA TreeKept ==
  ASSUME TypeOK, SupersessionTree, Ids' = Ids,
         \A i, j : /\ <<j, i, "supersedes">> \in links'
                         <=> <<j, i, "supersedes">> \in links
                   /\ <<i, j, "superseded_by">> \in links'
                          <=> <<i, j, "superseded_by">> \in links,
         \A i \in Ids : /\ mem'[i].space = mem[i].space
                        /\ mem'[i].pinned = mem[i].pinned
                        /\ \/ mem'[i].status = mem[i].status
                           \/ mem'[i].status = "tombstoned"
                           \/ mem[i].status = "active" /\ mem'[i].status = "expired"
  PROVE  SupersessionTree'
<1>1. \A i, j \in Ids' :
        <<j, i, "supersedes">> \in links' <=> <<i, j, "superseded_by">> \in links'
  BY DEF SupersessionTree
<1>2. ASSUME NEW i \in Ids', NEW j \in Ids', <<j, i, "supersedes">> \in links'
      PROVE  /\ i < j
             /\ mem'[i].space = mem'[j].space
             /\ ~mem'[i].pinned
             /\ mem'[i].status \in {"superseded", "tombstoned"}
  <2>1. i \in Ids /\ j \in Ids /\ <<j, i, "supersedes">> \in links
    BY <1>2
  <2>2. /\ i < j /\ mem[i].space = mem[j].space /\ ~mem[i].pinned
        /\ mem[i].status \in {"superseded", "tombstoned"}
    BY <2>1 DEF SupersessionTree
  <2>3. QED
    BY <2>1, <2>2
<1>3. ASSUME NEW i \in Ids', NEW j \in Ids', NEW k \in Ids',
             <<j, i, "supersedes">> \in links', <<k, i, "supersedes">> \in links'
      PROVE  j = k
  <2>1. /\ <<j, i, "supersedes">> \in links /\ <<k, i, "supersedes">> \in links
        /\ i \in Ids /\ j \in Ids /\ k \in Ids
    BY <1>3
  <2>2. QED
    BY <2>1 DEF SupersessionTree
<1>4. ASSUME NEW i \in Ids', mem'[i].status = "superseded"
      PROVE  \E j \in Ids' : <<j, i, "supersedes">> \in links'
  <2>1. i \in Ids /\ mem[i].status = "superseded"
    BY <1>4
  <2>2. PICK j \in Ids : <<j, i, "supersedes">> \in links
    BY <2>1 DEF SupersessionTree
  <2>3. QED
    BY <2>2
<1>5. QED
  BY <1>1, <1>2, <1>3, <1>4 DEF SupersessionTree

\* Every step of the store keeps the supersession links a tree.
LEMMA TreeNext == TypeOK /\ SupersessionTree /\ [Next]_vars => SupersessionTree'
<1> SUFFICES ASSUME TypeOK, SupersessionTree, [Next]_vars
             PROVE  SupersessionTree'
  OBVIOUS
<1>0. \A i \in Ids : mem[i] \in Row
  BY DEF TypeOK
<1>1. CASE \E r \in Requests : \E window \in ClaimWindows(r) : Remember(r, window)
  <2>1. PICK r \in Requests : \E window \in ClaimWindows(r) : Remember(r, window)
    BY <1>1
  <2> PICK window \in ClaimWindows(r) : Remember(r, window)
    BY <2>1
  <2> DEFINE new == count + 1
  <2>2. PICK retired \in SUBSET Ids :
          /\ retired = r.supersedes \cup Unnamed(r, window)
          /\ count' = count + 1 /\ Ids' = Ids \cup {count + 1}
          /\ count + 1 \notin Ids
          /\ \A i \in retired : CanSupersede(i, r.space)
          /\ mem'[count + 1] = NewRow(r)
          /\ \A i \in retired : mem'[i] = RetiredRow(mem[i], "superseded")
          /\ \A i \in Ids \ retired : mem'[i] = mem[i]
    BY RememberRows
  <2>3. /\ \A i, j : <<j, i, "supersedes">> \in links' <=>
                     \/ <<j, i, "supersedes">> \in links
                     \/ j = new /\ i \in retired
        /\ \A i, j : <<i, j, "superseded_by">> \in links' <=>
                     \/ <<i, j, "superseded_by">> \in links
                     \/ j = new /\ i \in retired
    <3>1. retired = r.supersedes \cup Unnamed(r, window)
      BY <2>2
    <3>2. QED
      BY <3>1, RememberLinks
  <2>4. \A i, j : /\ <<j, i, "supersedes">> \in links => i \in Ids /\ j \in Ids
                  /\ <<i, j, "superseded_by">> \in links => i \in Ids /\ j \in Ids
    BY DEF TypeOK
  <2>5. \A i \in retired : /\ i < new /\ mem[i].status = "active"
                           /\ mem'[i].status = "superseded"
                           /\ mem'[i].space = mem'[new].space
                           /\ ~mem'[i].pinned
    <3> SUFFICES ASSUME NEW i \in retired
                 PROVE  /\ i < new /\ mem[i].status = "active"
                        /\ mem'[i].status = "superseded"
                        /\ mem'[i].space = mem'[new].space
                        /\ ~mem'[i].pinned
      OBVIOUS
    <3>1. i < new
      BY DEF TypeOK, Ids
    <3>2. mem[i] \in Row /\ CanSupersede(i, r.space)
          /\ mem'[i] = RetiredRow(mem[i], "superseded")
          /\ mem'[new].space = r.space
      BY <1>0, <2>2 DEF NewRow
    <3>3. QED
      BY <3>1, <3>2, RetiredRowFields DEF CanSupersede, Active, Statuses
  <2>6. \A i \in Ids : /\ mem'[i].space = mem[i].space
                       /\ mem'[i].pinned = mem[i].pinned
                       /\ i \notin retired => mem'[i].status = mem[i].status
    BY <1>0, <2>2, RetiredRowFields DEF Statuses
  <2>7. mem'[new].status = "active"
    BY <2>2 DEF NewRow
  <2>8. \A i, j : <<j, i, "supersedes">> \in links => i \notin retired
    BY <2>4, <2>5 DEF SupersessionTree
  <2>9. \A i, j \in Ids' :
          <<j, i, "supersedes">> \in links' <=> <<i, j, "superseded_by">> \in links'
    BY <2>3, <2>4 DEF SupersessionTree
  <2>10. ASSUME NEW i \in Ids', NEW j \in Ids', <<j, i, "supersedes">> \in links'
         PROVE  /\ i < j
                /\ mem'[i].space = mem'[j].space
                /\ ~mem'[i].pinned
                /\ mem'[i].status \in {"superseded", "tombstoned"}
    <3>1. CASE <<j, i, "supersedes">> \in links
      <4>1. i \in Ids /\ j \in Ids /\ i \notin retired
        BY <2>4, <2>8, <3>1
      <4>2. /\ i < j /\ mem[i].space = mem[j].space /\ ~mem[i].pinned
            /\ mem[i].status \in {"superseded", "tombstoned"}
        BY <3>1, <4>1 DEF SupersessionTree
      <4>3. QED
        BY <2>6, <4>1, <4>2
    <3>2. CASE j = new /\ i \in retired
      BY <2>5, <3>2
    <3>3. QED
      BY <2>3, <2>10, <3>1, <3>2
  <2>11. ASSUME NEW i \in Ids', NEW j \in Ids', NEW k \in Ids',
                <<j, i, "supersedes">> \in links', <<k, i, "supersedes">> \in links'
         PROVE  j = k
    <3>1. CASE i \in retired
      BY <2>3, <2>8, <2>11, <3>1
    <3>2. CASE i \notin retired
      <4>1. <<j, i, "supersedes">> \in links /\ <<k, i, "supersedes">> \in links
        BY <2>3, <2>11, <3>2
      <4>2. QED
        BY <2>4, <4>1 DEF SupersessionTree
    <3>3. QED
      BY <3>1, <3>2
  <2>12. \A i \in Ids' :
           mem'[i].status = "superseded" =>
             \E j \in Ids' : <<j, i, "supersedes">> \in links'
    BY <2>2, <2>3, <2>6, <2>7 DEF SupersessionTree
  <2>13. QED
    BY <2>9, <2>10, <2>11, <2>12 DEF SupersessionTree
<1>2. ASSUME NEW i \in Ids, NEW type, Tombstone(i, type),
             \A k, l : /\ <<k, l, "supersedes">> \in links'
                            <=> <<k, l, "supersedes">> \in links
                       /\ <<k, l, "superseded_by">> \in links'
                             <=> <<k, l, "superseded_by">> \in links
      PROVE  SupersessionTree'
  <2>1. /\ Ids' = Ids
        /\ \A k \in Ids : mem'[k] = IF k = i THEN RetiredRow(mem[i], "tombstoned")
                                     ELSE mem[k]
    BY <1>2, TombstoneRows
  <2>2. \A k \in Ids : /\ mem'[k].space = mem[k].space
                       /\ mem'[k].pinned = mem[k].pinned
                       /\ \/ mem'[k].status = mem[k].status
                          \/ mem'[k].status = "tombstoned"
    BY <1>0, <2>1, RetiredRowFields DEF Statuses
  <2>3. QED
    BY <1>2, <2>1, <2>2, TreeKept
<1>3. CASE \E i \in Ids : Forget(i)
  BY <1>2, <1>3 DEF Forget
<1>4. CASE \E i \in Ids : \E c \in Corrections(i) : Correct(i, c)
  BY <1>2, <1>4 DEF Correct
<1>5. CASE \E tasks \in DreamTaskSets, scope \in Scopes, p \in BOOLEAN :
             Dream(tasks, scope, p)
  <2> PICK tasks \in DreamTaskSets, scope \in Scopes, p \in BOOLEAN :
        Dream(tasks, scope, p)
    BY <1>5
  <2>1. PICK promoted \in SUBSET Ids, expired \in SUBSET Ids :
          /\ \A i \in promoted \cup expired : Active(i)
          /\ mem' = ExpireRows(PromoteRows(promoted), expired)
    BY DreamEffect
  <2>2. \A i \in Ids : /\ mem'[i].space = mem[i].space
                       /\ mem'[i].pinned = mem[i].pinned
                       /\ \/ mem'[i].status = mem[i].status
                          \/ mem[i].status = "active" /\ mem'[i].status = "expired"
    BY <2>1, DreamRows DEF Active
  <2>3. Ids' = Ids /\ links' = links
    BY DEF Dream, Ids
  <2>4. QED
    BY <2>2, <2>3, TreeKept
<1>6. CASE \E i \in Ids, s \in Sessions : RecordRecall(i, s)
  BY <1>6 DEF RecordRecall, SupersessionTree, Ids
<1>7. CASE Tick
  BY <1>7 DEF Tick, SupersessionTree, Ids
<1>8. CASE UNCHANGED vars
  BY <1>8 DEF vars, SupersessionTree, Ids
<1>9. QED
  BY <1>1, <1>3, <1>4, <1>5, <1>6, <1>7, <1>8 DEF Next

\* Supersession stays a forest inside each space: links in pairs, successors
\* younger, one successor each, none for a pinned or an active memory.
THEOREM SupersessionAlwaysTree == Spec => []SupersessionTree
<1>1. Init => SupersessionTree
  BY DEF Init, SupersessionTree, Ids
<1>2. QED
  BY <1>1, TypeCorrect, TreeNext, PTL DEF Spec

-----------------------------------------------------------------------------
(* Links between spaces *)

\* The last event of a memory.
LastEvent(i) == events[i][Len(events[i])]

\* OnlyCorrectionsCrossSpaces is not inductive: that the corrected memory is
\* tombstoned is what keeps a later event from hiding the correction.
CrossInv ==
  /\ \A a, b \in Ids, t \in LinkTypes :
       <<a, b, t>> \in links /\ mem[a].space # mem[b].space =>
         /\ t = "contradicts"
         /\ mem[b].status = "tombstoned"
         /\ LastEvent(b).type = "correct"
  /\ \A a, b \in Ids : <<a, b>> \in conflicts => mem[a].space = mem[b].space

\* A step that moves no memory to another space, leaves tombstoned memories
\* alone and adds only links within a space or to what it corrects keeps it.
LEMMA CrossKept ==
  ASSUME TypeOK, CrossInv,
         \A i \in Ids : /\ mem'[i].space = mem[i].space
                        /\ mem[i].status = "tombstoned" =>
                             /\ mem'[i].status = "tombstoned"
                             /\ events'[i] = events[i],
         \A a, b \in Ids', t \in LinkTypes : <<a, b, t>> \in links' =>
           \/ <<a, b, t>> \in links
           \/ mem'[a].space = mem'[b].space
           \/ /\ t = "contradicts"
              /\ mem'[b].status = "tombstoned"
              /\ LastEvent(b)'.type = "correct",
         \A a, b \in Ids' : <<a, b>> \in conflicts' =>
           <<a, b>> \in conflicts \/ mem'[a].space = mem'[b].space
  PROVE  CrossInv'
<1>1. ASSUME NEW a \in Ids', NEW b \in Ids', NEW t \in LinkTypes,
             <<a, b, t>> \in links', mem'[a].space # mem'[b].space
      PROVE  /\ t = "contradicts"
             /\ mem'[b].status = "tombstoned"
             /\ LastEvent(b)'.type = "correct"
  <2>1. CASE <<a, b, t>> \in links
    <3>1. a \in Ids /\ b \in Ids
      BY <2>1 DEF TypeOK
    <3>2. mem[a].space # mem[b].space
      BY <1>1, <3>1
    <3>3. /\ t = "contradicts" /\ mem[b].status = "tombstoned"
          /\ LastEvent(b).type = "correct"
      BY <2>1, <3>1, <3>2 DEF CrossInv
    <3>4. LastEvent(b)' = LastEvent(b)
      BY <3>1, <3>3 DEF LastEvent
    <3> QED
      BY <3>1, <3>3, <3>4
  <2>2. CASE <<a, b, t>> \notin links
    BY <1>1, <2>2
  <2> QED
    BY <2>1, <2>2
<1>2. ASSUME NEW a \in Ids', NEW b \in Ids', <<a, b>> \in conflicts'
      PROVE  mem'[a].space = mem'[b].space
  <2>1. CASE <<a, b>> \in conflicts
    <3>1. a \in Ids /\ b \in Ids
      BY <2>1 DEF TypeOK
    <3> QED
      BY <2>1, <3>1 DEF CrossInv
  <2>2. CASE <<a, b>> \notin conflicts
    BY <1>2, <2>2
  <2> QED
    BY <2>1, <2>2
<1> QED
  BY <1>1, <1>2 DEF CrossInv

\* remember relates memories of its own space only: it refuses to supersede or
\* contradict others, and the lookup returns none.
LEMMA RememberCross ==
  ASSUME TypeOK, CrossInv, NEW r \in Requests, NEW window \in ClaimWindows(r),
         Remember(r, window)
  PROVE  CrossInv'
<1> DEFINE new == count + 1
<1>0. \A i \in Ids : mem[i] \in Row
  BY DEF TypeOK
<1>1. PICK retired \in SUBSET Ids :
        /\ retired = r.supersedes \cup Unnamed(r, window)
        /\ count' = count + 1 /\ Ids' = Ids \cup {count + 1}
        /\ count + 1 \notin Ids
        /\ \A i \in retired : CanSupersede(i, r.space)
        /\ mem'[count + 1] = NewRow(r)
        /\ \A i \in retired : mem'[i] = RetiredRow(mem[i], "superseded")
        /\ \A i \in Ids \ retired : mem'[i] = mem[i]
  BY RememberRows
<1>2. \A i \in retired : mem[i].space = r.space /\ mem[i].status = "active"
  BY <1>1 DEF CanSupersede, Active
<1>3. \A i \in Ids : mem'[i].space = mem[i].space
  BY <1>0, <1>1, RetiredRowFields DEF Statuses
<1>4. mem'[new].space = r.space
  BY <1>1 DEF NewRow
<1>5. ASSUME NEW i \in Ids, mem[i].status = "tombstoned"
      PROVE  mem'[i].status = "tombstoned" /\ events'[i] = events[i]
  <2>1. i \notin retired /\ i # new /\ i \in 1..new
    BY <1>1, <1>2, <1>5 DEF Ids
  <2>2. events' = [k \in 1..new |->
                     IF k = new THEN <<Entry("remember", "none", "active")>>
                     ELSE IF k \in retired
                     THEN Append(events[k],
                                 Entry("supersede", mem[k].status, "superseded"))
                     ELSE events[k]]
    BY <1>1 DEF Remember, InsertAndSupersede
  <2> QED
    BY <1>1, <1>5, <2>1, <2>2
<1>6. r.contradicts \subseteq Ids /\ \A i \in r.contradicts : mem[i].space = r.space
  BY DEF Requests, References, Remember
<1>7. ASSUME NEW a \in Ids', NEW b \in Ids', NEW t \in LinkTypes,
             <<a, b, t>> \in links', <<a, b, t>> \notin links
      PROVE  mem'[a].space = mem'[b].space
  <2>1. links' = links \cup SupersedeLinks(new, retired)
                       \cup ContradictLinks(new, r.contradicts)
    BY <1>1 DEF Remember
  <2>2. \E i \in retired \cup r.contradicts : \/ a = new /\ b = i
                                              \/ a = i /\ b = new
    BY <1>7, <2>1 DEF SupersedeLinks, ContradictLinks
  <2> QED
    BY <1>2, <1>3, <1>4, <1>6, <2>2
<1>8. ASSUME NEW a \in Ids', NEW b \in Ids',
             <<a, b>> \in conflicts', <<a, b>> \notin conflicts
      PROVE  mem'[a].space = mem'[b].space
  <2>1. a = new /\ b \in window
    BY <1>8 DEF Remember
  <2>2. b \in Ids /\ mem[b].space = r.space
    BY <2>1 DEF ClaimWindows, SameClaim
  <2> QED
    BY <1>3, <1>4, <2>1, <2>2
<1> QED
  BY <1>3, <1>5, <1>7, <1>8, CrossKept

\* Forgetting and correcting: only what was not tombstoned before changes, and
\* a correction, whatever it names, is the last event of what it corrects.
LEMMA TombstoneCross ==
  ASSUME TypeOK, CrossInv, NEW i \in Ids, NEW type \in EventTypes,
         Tombstone(i, type),
         \A a, b, t : <<a, b, t>> \in links' =>
           \/ <<a, b, t>> \in links
           \/ type = "correct" /\ t = "contradicts" /\ b = i
  PROVE  CrossInv'
<1>0. mem[i] \in Row /\ \A k \in Ids : events[k] \in Seq(Event)
  BY DEF TypeOK
<1>1. /\ Ids' = Ids
      /\ \A k \in Ids : mem'[k] = IF k = i THEN RetiredRow(mem[i], "tombstoned")
                                   ELSE mem[k]
  BY TombstoneRows
<1>2. mem'[i].status = "tombstoned" /\ mem[i].status # "tombstoned"
  BY <1>0, <1>1, RetiredRowFields DEF Statuses, Tombstone
<1>3. \A k \in Ids : mem'[k].space = mem[k].space
  BY <1>0, <1>1, RetiredRowFields DEF Statuses
<1>4. DEFINE e == Entry(type, mem[i].status, "tombstoned")
<1>5. e \in Event /\ e.type = type
  <2>1. mem[i].status \in Statuses /\ "tombstoned" \in Statuses
    BY <1>0 DEF Row, Statuses
  <2>2. e.type = type
    BY DEF Entry
  <2> QED
    BY <2>1, <2>2, EntryIsEvent
<1>6. events' = [events EXCEPT ![i] = Append(events[i], e)]
  BY DEF Tombstone
<1> HIDE DEF e
<1>7. \A k \in Ids : k # i => events'[k] = events[k]
  BY <1>6 DEF TypeOK
<1>8. events'[i] = Append(events[i], e)
  BY <1>6 DEF TypeOK
<1>9. LastEvent(i)'.type = type
  BY <1>0, <1>5, <1>8 DEF LastEvent
<1>10. conflicts' = conflicts
  BY DEF Tombstone
<1> QED
  BY <1>1, <1>2, <1>3, <1>7, <1>9, <1>10, CrossKept

\* Maintenance touches active memories only.
LEMMA DreamCross ==
  ASSUME TypeOK, CrossInv, NEW tasks, NEW scope \in Scopes, NEW p \in BOOLEAN,
         Dream(tasks, scope, p)
  PROVE  CrossInv'
<1>1. PICK promoted \in SUBSET Ids, expired \in SUBSET Ids :
        /\ \A i \in promoted \cup expired : Active(i)
        /\ mem' = ExpireRows(PromoteRows(promoted), expired)
        /\ \/ fts' = [i \in Ids |-> FtsRow(mem'[i])]
           \/ fts' = ExpireRows(PromoteFts(promoted), expired)
        /\ events' = [i \in Ids |-> events[i] \o DreamEntries(i, promoted, expired)]
  BY DreamEffect
<1>2. Ids' = Ids /\ links' = links /\ conflicts' = conflicts
  BY DEF Dream, Ids
<1>3. \A i \in Ids : /\ mem'[i].space = mem[i].space
                     /\ i \notin expired => mem'[i].status = mem[i].status
  <2> SUFFICES ASSUME NEW i \in Ids
               PROVE  /\ mem'[i].space = mem[i].space
                      /\ i \notin expired => mem'[i].status = mem[i].status
    OBVIOUS
  <2>1. mem'[i] = ExpireRows(PromoteRows(promoted), expired)[i]
    BY <1>1
  <2>2. QED
    BY <2>1, DreamRows
<1>4. ASSUME NEW i \in Ids, mem[i].status = "tombstoned"
      PROVE  mem'[i].status = "tombstoned" /\ events'[i] = events[i]
  <2>1. i \notin promoted /\ i \notin expired
    BY <1>1, <1>4 DEF Active
  <2>2. events[i] \in Seq(Event)
    BY DEF TypeOK
  <2>3. events'[i] = events[i] \o (<<>> \o <<>>)
    BY <1>1, <2>1 DEF DreamEntries
  <2>4. events[i] \o (<<>> \o <<>>) = events[i]
    BY <2>2
  <2> QED
    BY <1>3, <1>4, <2>1, <2>3, <2>4
<1> QED
  BY <1>2, <1>3, <1>4, CrossKept

\* Every step of the store keeps links inside a space or made by a correction.
LEMMA CrossNext == TypeOK /\ CrossInv /\ [Next]_vars => CrossInv'
<1> SUFFICES ASSUME TypeOK, CrossInv, [Next]_vars PROVE CrossInv'
  OBVIOUS
<1>1. CASE \E r \in Requests : \E window \in ClaimWindows(r) : Remember(r, window)
  BY <1>1, RememberCross
<1>2. CASE \E i \in Ids : Forget(i)
  <2>1. PICK i \in Ids : Tombstone(i, "forget") /\ UNCHANGED links
    BY <1>2 DEF Forget
  <2> QED
    BY <2>1, TombstoneCross DEF EventTypes
<1>3. CASE \E i \in Ids : \E c \in Corrections(i) : Correct(i, c)
  <2>1. PICK i \in Ids : \E c \in Corrections(i) : Correct(i, c)
    BY <1>3
  <2>2. PICK c \in Corrections(i) : Correct(i, c)
    BY <2>1
  <2>3. \A a, b, t : <<a, b, t>> \in links' =>
          \/ <<a, b, t>> \in links
          \/ t = "contradicts" /\ b = i
    BY <2>2 DEF Correct
  <2> QED
    BY <2>2, <2>3, TombstoneCross DEF Correct, EventTypes
<1>4. CASE \E tasks \in DreamTaskSets, scope \in Scopes, p \in BOOLEAN :
             Dream(tasks, scope, p)
  BY <1>4, DreamCross
<1>5. CASE \/ \E i \in Ids, s \in Sessions : RecordRecall(i, s)
           \/ Tick
           \/ UNCHANGED vars
  <2>1. UNCHANGED <<count, mem, events, links, conflicts>>
    BY <1>5 DEF RecordRecall, Tick, vars
  <2> QED
    BY <2>1 DEF CrossInv, LastEvent, Ids
<1> QED
  BY <1>1, <1>2, <1>3, <1>4, <1>5 DEF Next

LEMMA CrossSound == TypeOK /\ CrossInv => RowsSound
<1> SUFFICES ASSUME TypeOK, CrossInv PROVE OnlyCorrectionsCrossSpaces
  BY DEF RowsSound
<1>1. ASSUME NEW l \in links, mem[l[1]].space # mem[l[2]].space
      PROVE  /\ l[3] = "contradicts"
             /\ events[l[2]][Len(events[l[2]])].type = "correct"
  <2>1. l \in Ids \X Ids \X LinkTypes
    BY DEF TypeOK
  <2>2. l = <<l[1], l[2], l[3]>> /\ l[1] \in Ids /\ l[2] \in Ids /\ l[3] \in LinkTypes
    BY <2>1
  <2> QED
    BY <1>1, <2>2 DEF CrossInv, LastEvent
<1>2. ASSUME NEW c \in conflicts PROVE mem[c[1]].space = mem[c[2]].space
  <2>1. c = <<c[1], c[2]>> /\ c[1] \in Ids /\ c[2] \in Ids
    BY DEF TypeOK
  <2> QED
    BY <1>2, <2>1 DEF CrossInv
<1> QED
  BY <1>1, <1>2 DEF OnlyCorrectionsCrossSpaces

\* The tables stay well formed, and silos of knowledge stay apart: whatever is
\* written, contradicted, corrected and maintained, only a correction relates
\* memories of two spaces, and its audit event says so.
THEOREM RowsAlwaysSound == Spec => []RowsSound
<1>1. Init => CrossInv
  BY DEF Init, CrossInv, Ids
<1> QED
  BY <1>1, CrossSound, TypeCorrect, CrossNext, PTL DEF Spec

-----------------------------------------------------------------------------
(* The order of a claim *)

\* A write as the callers send it by default: in mode `auto`, of a kind that
\* supersedes, naming no memory, and over no more memories of its claim than
\* the lookup reads.
DefaultWrite ==
  \E r \in Requests : \E window \in ClaimWindows(r) :
    /\ r.mode = "auto" /\ r.kind \in AutoSupersedeKinds
    /\ r.supersedes = {} /\ r.contradicts = {}
    /\ Cardinality(SameClaim(r.space, r.key)) <= ClaimCap
    /\ Remember(r, window)

\* The lookup of a default write with a key returns all of the claim.
LEMMA WholeWindow ==
  ASSUME TypeOK, NEW r \in Requests, NEW window \in ClaimWindows(r),
         r.key # NoKey, r.supersedes = {}, r.contradicts = {},
         Cardinality(SameClaim(r.space, r.key)) <= ClaimCap
  PROVE  window = SameClaim(r.space, r.key)
<1> DEFINE same == SameClaim(r.space, r.key)
<1>1. window \in SUBSET same /\ IsNewest(window, same)
  BY DEF ClaimWindows
<1>2. IsFiniteSet(Ids)
  BY FS_Interval DEF Ids, TypeOK
<1>3. same \in SUBSET Ids
  BY DEF SameClaim
<1> HIDE DEF same
<1>4. IsFiniteSet(same)
  BY <1>2, <1>3, FS_Subset
<1>5. Cardinality(same) \in Nat
  BY <1>4, FS_CardinalityType
<1>6. Cardinality(same) <= ClaimCap
  BY DEF same
<1>7. Cardinality(window) = Cardinality(same)
  BY <1>1, <1>5, <1>6, BoundsAssumption DEF IsNewest
<1>8. same = window
  BY <1>1, <1>4, <1>7, FS_Subset
<1>9. QED
  BY <1>8 DEF same

\* A default write keeps the claims in order: what is older than it, it
\* retires; what it leaves is pinned or at least as fresh.
LEMMA DefaultWriteKeepsOrder ==
  ASSUME TypeOK, ClaimOrder, DefaultWrite
  PROVE  ClaimOrder'
<1>1. PICK r \in Requests : \E window \in ClaimWindows(r) :
         /\ r.mode = "auto" /\ r.kind \in AutoSupersedeKinds
         /\ r.supersedes = {} /\ r.contradicts = {}
         /\ Cardinality(SameClaim(r.space, r.key)) <= ClaimCap
         /\ Remember(r, window)
  BY DEF DefaultWrite
<1>2. PICK window \in ClaimWindows(r) :
         /\ r.mode = "auto" /\ r.kind \in AutoSupersedeKinds
         /\ r.supersedes = {} /\ r.contradicts = {}
         /\ Cardinality(SameClaim(r.space, r.key)) <= ClaimCap
         /\ Remember(r, window)
  BY <1>1
<1>3. PICK retired \in SUBSET Ids :
         /\ retired = r.supersedes \cup Unnamed(r, window)
         /\ count' = count + 1 /\ Ids' = Ids \cup {count + 1}
         /\ count + 1 \notin Ids
         /\ \A i \in retired : CanSupersede(i, r.space)
         /\ mem'[count + 1] = NewRow(r)
         /\ \A i \in retired : mem'[i] = RetiredRow(mem[i], "superseded")
         /\ \A i \in Ids \ retired : mem'[i] = mem[i]
  BY <1>2, RememberRows
<1>4. ASSUME NEW i \in Ids, Active(i)'
      PROVE  i \notin retired /\ mem'[i] = mem[i] /\ Active(i)
  <2>1. mem[i] \in Row
    BY DEF TypeOK
  <2>2. i \notin retired
    <3>1. i \in retired => mem'[i].status = "superseded"
      BY <1>3, <2>1, RetiredRowFields DEF Statuses
    <3>2. QED
      BY <1>4, <3>1 DEF Active
  <2>3. QED
    BY <1>3, <1>4, <2>2 DEF Active
<1>5. SUFFICES ASSUME NEW i \in Ids', NEW j \in Ids',
                      i < j, Active(i)', Active(j)', ~mem'[i].pinned,
                      mem'[i].space = mem'[j].space,
                      mem'[i].key = mem'[j].key, mem'[i].key # NoKey
               PROVE  mem'[j].observed <= mem'[i].observed
  BY DEF ClaimOrder
<1>6. i \in Ids
  <2>1. Ids = 1..count /\ Ids' = 1..count' /\ count' = count + 1 /\ count \in Nat
    BY <1>3 DEF Ids, TypeOK
  <2>2. QED
    BY <1>5, <2>1
<1>7. i \notin retired /\ mem'[i] = mem[i] /\ Active(i)
  BY <1>4, <1>5, <1>6
<1>8. CASE j \in Ids
  <2>1. mem'[j] = mem[j] /\ Active(j)
    BY <1>4, <1>5, <1>8
  <2>2. QED
    BY <1>5, <1>6, <1>7, <1>8, <2>1 DEF ClaimOrder
<1>9. CASE j = count + 1
  <2>1. mem'[j] = NewRow(r)
    BY <1>3, <1>9
  <2>2. mem[i].space = r.space /\ mem[i].key = r.key /\ r.key # NoKey /\ ~mem[i].pinned
    BY <1>5, <1>7, <2>1 DEF NewRow
  <2>3. i \in window
    BY <1>2, <1>6, <1>7, <2>2, WholeWindow DEF SameClaim
  <2>4. ~(mem[i].observed < r.observed)
    BY <1>2, <1>3, <1>7, <2>2, <2>3 DEF Unnamed
  <2>5. mem[i].observed \in Nat /\ r.observed \in Nat
    BY <1>6, RequestAssumption DEF TypeOK, Row, Requests
  <2>6. QED
    BY <1>7, <2>1, <2>4, <2>5 DEF NewRow
<1>10. QED
  BY <1>3, <1>5, <1>8, <1>9

\* Every other step leaves the claims as they were, or with fewer memories.
LEMMA OthersKeepOrder ==
  ASSUME TypeOK, ClaimOrder, [Next]_vars, count' = count
  PROVE  ClaimOrder'
<1>0. \A k \in Ids : mem[k] \in Row
  BY DEF TypeOK
<1>1. SUFFICES ASSUME Ids' = Ids,
                      \A k \in Ids : /\ Active(k)' => Active(k)
                                     /\ mem'[k].pinned = mem[k].pinned
                                     /\ mem'[k].space = mem[k].space
                                     /\ mem'[k].key = mem[k].key
                                     /\ mem'[k].observed = mem[k].observed
               PROVE  ClaimOrder'
  <2>1. ASSUME NEW r \in Requests, NEW window \in ClaimWindows(r), Remember(r, window)
        PROVE  FALSE
    BY <2>1 DEF Remember, TypeOK
  <2>2. ASSUME NEW i \in Ids, NEW type, Tombstone(i, type)
        PROVE  ClaimOrder'
    <3>1. /\ Ids' = Ids
          /\ \A k \in Ids : mem'[k] = IF k = i THEN RetiredRow(mem[i], "tombstoned")
                                       ELSE mem[k]
      BY <2>2, TombstoneRows
    <3>2. /\ mem'[i].status = "tombstoned"
          /\ mem'[i].pinned = mem[i].pinned /\ mem'[i].space = mem[i].space
          /\ mem'[i].key = mem[i].key /\ mem'[i].observed = mem[i].observed
      BY <1>0, <3>1, RetiredRowFields DEF Statuses
    <3>3. QED
      BY <1>1, <3>1, <3>2 DEF Active
  <2>3. ASSUME NEW tasks \in DreamTaskSets, NEW scope \in Scopes, NEW p \in BOOLEAN,
               Dream(tasks, scope, p)
        PROVE  ClaimOrder'
    <3>1. PICK promoted \in SUBSET Ids, expired \in SUBSET Ids :
            /\ \A i \in promoted \cup expired : Active(i)
            /\ mem' = ExpireRows(PromoteRows(promoted), expired)
      BY <2>3, DreamEffect
    <3>2. Ids' = Ids
      BY DEF Ids
    <3>3. \A k \in Ids : /\ mem'[k].status = IF k \in expired THEN "expired"
                                              ELSE mem[k].status
                         /\ mem'[k].pinned = mem[k].pinned
                         /\ mem'[k].space = mem[k].space
                         /\ mem'[k].key = mem[k].key
                         /\ mem'[k].observed = mem[k].observed
      BY <3>1, DreamRows
    <3>4. QED
      BY <1>1, <3>2, <3>3 DEF Active
  <2>4. CASE mem' = mem
    BY <1>1, <2>4 DEF Active, Ids
  <2>5. QED
    BY <2>1, <2>2, <2>3, <2>4
    DEF Next, vars, Forget, Correct, RecordRecall, Tick
<1>2. QED
  BY <1>1 DEF ClaimOrder

\* With default writes only, and whatever is forgotten, corrected, recalled
\* and dreamt between them, two active memories of one claim stand in the
\* order of their observations: a younger write that survives beside an
\* unpinned older one brought no fresher fact.
THEOREM DefaultWritesKeepClaimOrder ==
  Spec /\ [][count' = count \/ DefaultWrite]_vars => []ClaimOrder
<1>1. Init => ClaimOrder
  BY DEF Init, ClaimOrder, Ids
<1>2. TypeOK /\ ClaimOrder /\ [Next]_vars /\ [count' = count \/ DefaultWrite]_vars
        => ClaimOrder'
  <2> SUFFICES ASSUME TypeOK, ClaimOrder, [Next]_vars,
                      [count' = count \/ DefaultWrite]_vars
               PROVE  ClaimOrder'
    OBVIOUS
  <2>1. CASE count' = count
    BY <2>1, OthersKeepOrder
  <2>2. CASE DefaultWrite
    BY <2>2, DefaultWriteKeepsOrder
  <2>3. CASE UNCHANGED vars
    BY <2>3, OthersKeepOrder DEF vars
  <2>4. QED
    BY <2>1, <2>2, <2>3
<1>3. QED
  BY <1>1, <1>2, TypeCorrect, PTL DEF Spec

-----------------------------------------------------------------------------
(* Promotion before expiry *)

\* Promotion takes the TTL away.
LEMMA PromotedNeverLapses ==
  ASSUME NEW row \in Row
  PROVE  PromotedRow(row).expires = Never
<1> DEFINE durable == [row EXCEPT !.silo = Durable]
<1>1. durable \in Row
  BY RequestAssumption DEF Row
<1>2. PromotedRow(row) = [durable EXCEPT !.expires = Never]
  BY DEF PromotedRow
<1> HIDE DEF durable
<1>3. QED
  BY <1>1, <1>2 DEF Row

\* Of the memories a promotion has to consider, one with fewer recalled
\* memories before it than the budget is among those it takes: what is due in
\* a scope is recalled, so no scope puts more memories before it.
LEMMA RecalledIsPromoted ==
  ASSUME TypeOK, NEW scope, NEW i, Recalled(i), InScope(mem[i], scope),
         Cardinality({j \in Ids : Recalled(j) /\ j < i}) < DreamBudget
  PROVE  i \in Promoted(scope)
<1> DEFINE ahead == {j \in Ids : Recalled(j) /\ j < i}
           due == {j \in PromoteDue(scope) : j < i}
<1>1. i \in PromoteDue(scope)
  BY DEF Recalled, PromoteDue
<1>2. due \subseteq ahead /\ ahead \subseteq Ids
  BY DEF Recalled, PromoteDue
<1>3. IsFiniteSet(Ids)
  BY FS_Interval DEF Ids, TypeOK
<1>4. IsFiniteSet(ahead) /\ IsFiniteSet(due)
  BY <1>2, <1>3, FS_Subset
<1>5. Cardinality(due) <= Cardinality(ahead)
  BY <1>2, <1>4, FS_Subset
<1>6. Cardinality(due) \in Nat /\ Cardinality(ahead) \in Nat
  BY <1>4, FS_CardinalityType
<1>7. Cardinality(ahead) < DreamBudget /\ DreamBudget \in Nat
  BY BoundsAssumption
<1> HIDE DEF ahead
<1>8. Cardinality(due) < DreamBudget
  <2> HIDE DEF due
  <2>1. QED
    BY <1>5, <1>6, <1>7
<1>9. QED
  BY <1>1, <1>8 DEF Promoted, First

\* A run that promotes before it expires leaves such a memory alone: inside
\* its scope the memory has no TTL by the time the lapsed ones are read, and
\* outside it is not looked at.
LEMMA PromotionComesFirst ==
  ASSUME TypeOK, NEW scope, NEW includePinned, NEW i, Recalled(i),
         Cardinality({j \in Ids : Recalled(j) /\ j < i}) < DreamBudget
  PROVE  i \notin Expired(PromoteRows(Promoted(scope)), scope, includePinned)
<1> DEFINE rows == PromoteRows(Promoted(scope))
<1>1. i \in Ids /\ mem[i] \in Row
  BY DEF Recalled, TypeOK
<1>2. i \notin ExpireDue(rows, scope)
  <2>1. CASE InScope(mem[i], scope)
    <3>1. rows[i] = PromotedRow(mem[i])
      BY <1>1, <2>1, RecalledIsPromoted DEF PromoteRows
    <3>2. rows[i].expires = Never
      BY <1>1, <3>1, PromotedNeverLapses
    <3>3. ~(Never <= now)
      BY BoundsAssumption DEF Never, TypeOK
    <3> HIDE DEF rows
    <3>4. QED
      BY <3>2, <3>3 DEF ExpireDue
  <2>2. CASE ~InScope(mem[i], scope)
    <3>1. i \notin Promoted(scope)
      BY <2>2 DEF Promoted, PromoteDue, First
    <3>2. rows[i] = mem[i]
      BY <1>1, <3>1 DEF PromoteRows
    <3> HIDE DEF rows
    <3>3. QED
      BY <2>2, <3>2 DEF ExpireDue
  <2>3. QED
    BY <2>1, <2>2
<1> HIDE DEF rows
<1>3. i \notin Expired(rows, scope, includePinned)
  BY <1>2 DEF Expired, First
<1>4. QED
  BY <1>3 DEF rows

\* No step of the store expires a memory that enough sessions recalled.
LEMMA RecalledKept ==
  ASSUME TypeOK, [Next]_vars,
         \A tasks \in DreamTaskSets : "expire" \in tasks => "promote" \in tasks,
         NEW i \in Ids, Recalled(i),
         Cardinality({j \in Ids : Recalled(j) /\ j < i}) < DreamBudget
  PROVE  mem'[i].status # "expired"
<1>1. mem[i] \in Row /\ mem[i].status = "active"
  BY DEF Recalled, Active, TypeOK
<1>2. ASSUME NEW r \in Requests, NEW window \in ClaimWindows(r), Remember(r, window)
      PROVE  mem'[i].status # "expired"
  <2>1. mem'[i] = RetiredRow(mem[i], "superseded") \/ mem'[i] = mem[i]
    BY <1>2, RememberRows
  <2>2. QED
    BY <1>1, <2>1, RetiredRowFields DEF Statuses
<1>3. ASSUME NEW k \in Ids, NEW type, Tombstone(k, type)
      PROVE  mem'[i].status # "expired"
  <2>1. mem'[i] = RetiredRow(mem[i], "tombstoned") \/ mem'[i] = mem[i]
    BY <1>3, TombstoneRows
  <2>2. QED
    BY <1>1, <2>1, RetiredRowFields DEF Statuses
<1>4. ASSUME NEW tasks \in DreamTaskSets, NEW scope \in Scopes, NEW p \in BOOLEAN,
             Dream(tasks, scope, p)
      PROVE  mem'[i].status # "expired"
  <2> DEFINE promoted == IF "promote" \in tasks THEN Promoted(scope) ELSE {}
             expired == IF "expire" \in tasks
                        THEN Expired(PromoteRows(promoted), scope, p) ELSE {}
  <2>1. mem' = ExpireRows(PromoteRows(promoted), expired)
    BY <1>4 DEF Dream
  <2>2. promoted = {} \/ promoted = Promoted(scope)
    OBVIOUS
  <2>3. expired = {} \/ expired = Expired(PromoteRows(promoted), scope, p)
    OBVIOUS
  <2>4. i \notin expired
    <3>1. CASE "expire" \in tasks
      <4>1. promoted = Promoted(scope)
        BY <3>1
      <4> HIDE DEF promoted
      <4>2. QED
        BY <4>1, PromotionComesFirst
    <3>2. CASE "expire" \notin tasks
      BY <3>2
    <3>3. QED
      BY <3>1, <3>2
  <2> HIDE DEF promoted, expired
  <2>5. promoted \in SUBSET Ids /\ expired \in SUBSET Ids
    BY <2>2, <2>3, DreamTargets
  <2>6. mem'[i].status = mem[i].status
    BY <2>1, <2>4, <2>5, DreamRows
  <2>7. QED
    BY <1>1, <2>6
<1>5. CASE mem' = mem
  BY <1>1, <1>5
<1>6. QED
  BY <1>2, <1>3, <1>4, <1>5
  DEF Next, vars, Forget, Correct, RecordRecall, Tick

\* A memory that enough sessions recalled is promoted before its TTL is looked
\* at, so no run expires it unless a whole budget of recalled memories stands
\* before it: for every scope, budget and flag, of jobs whose expiring runs
\* also promote.  (A job may pass `expire` alone, and such a run promotes
\* nothing.)
THEOREM PromotedBeforeExpired ==
  ASSUME \A tasks \in DreamTaskSets : "expire" \in tasks => "promote" \in tasks
  PROVE  Spec => RecalledNeverExpires
<1>1. TypeOK /\ [Next]_vars
        => [\A i \in Ids :
              /\ Recalled(i)
              /\ Cardinality({j \in Ids : Recalled(j) /\ j < i}) < DreamBudget
              => mem'[i].status # "expired"]_vars
  BY RecalledKept
<1>2. QED
  BY <1>1, TypeCorrect, PTL DEF Spec, RecalledNeverExpires

-----------------------------------------------------------------------------
(* Refinement *)

\* What a row contributes to the abstract state.
LEMMA LifecycleStep ==
  TypeOK /\ TypeOK' /\ [Next]_vars => [Lifecycle!Next]_(Lifecycle!vars)
<1> SUFFICES ASSUME TypeOK, TypeOK', [Next]_vars
             PROVE  [Lifecycle!Next]_(Lifecycle!vars)
  OBVIOUS
<1> DEFINE status == [i \in Ids |-> mem[i].status]
           pinned == [i \in Ids |-> mem[i].pinned]
<1>0. \A i \in Ids : mem[i] \in Row
  BY DEF TypeOK
<1>1. CASE /\ count < MaxMemories
           /\ \E r \in Requests : \E window \in ClaimWindows(r) : Remember(r, window)
  <2>1. PICK r \in Requests : \E window \in ClaimWindows(r) : Remember(r, window)
    BY <1>1
  <2> PICK window \in ClaimWindows(r) : Remember(r, window)
    BY <2>1
  <2> DEFINE new == count + 1
  <2>2. PICK retired \in SUBSET Ids :
          /\ retired = r.supersedes \cup Unnamed(r, window)
          /\ count' = count + 1 /\ Ids' = Ids \cup {count + 1}
          /\ count + 1 \notin Ids
          /\ \A i \in retired : CanSupersede(i, r.space)
          /\ mem'[count + 1] = NewRow(r)
          /\ \A i \in retired : mem'[i] = RetiredRow(mem[i], "superseded")
          /\ \A i \in Ids \ retired : mem'[i] = mem[i]
    BY RememberRows
  <2>3. new \in 1..MaxMemories /\ Ids = 1..(new - 1) /\ Ids' = 1..new
    BY <1>1, <2>2, BoundsAssumption DEF TypeOK, Ids
  <2>4. retired \subseteq {i \in Ids : status[i] = "active" /\ ~pinned[i]}
    BY <2>2 DEF CanSupersede, Active
  <2>5. /\ \A i \in retired : mem'[i].status = "superseded"
        /\ \A i \in Ids \ retired : mem'[i].status = mem[i].status
        /\ \A i \in Ids : mem'[i].pinned = mem[i].pinned
        /\ mem'[new].status = "active" /\ mem'[new].pinned = r.pinned
    BY <1>0, <2>2, RetiredRowFields DEF Statuses, NewRow
  <2>6. r.pinned \in BOOLEAN
    BY RequestAssumption DEF Requests
  <2>7. status' = [i \in 1..new |-> IF i = new THEN "active"
                                    ELSE IF i \in retired THEN "superseded"
                                    ELSE status[i]]
    <3> HIDE DEF new
    <3>1. QED
      BY <2>2, <2>3, <2>5 DEF new
  <2>8. pinned' = [i \in 1..new |-> IF i = new THEN r.pinned ELSE pinned[i]]
    <3> HIDE DEF new
    <3>1. QED
      BY <2>2, <2>3, <2>5 DEF new
  <2>9. Lifecycle!Ids = Ids
    BY DEF Lifecycle!Ids
  <2> HIDE DEF new, status, pinned
  <2>10. Lifecycle!Create(new, r.pinned, retired)
    BY <2>3, <2>4, <2>7, <2>8, <2>9 DEF Lifecycle!Create, status, pinned
  <2>11. QED
    BY <2>3, <2>6, <2>9, <2>10 DEF Lifecycle!Next
<1>2. ASSUME NEW i \in Ids, NEW type, Tombstone(i, type)
      PROVE  Lifecycle!Next
  <2>1. /\ Ids' = Ids
        /\ \A k \in Ids : mem'[k] = IF k = i THEN RetiredRow(mem[i], "tombstoned")
                                     ELSE mem[k]
    BY <1>2, TombstoneRows
  <2>2. /\ mem'[i].status = "tombstoned"
        /\ \A k \in Ids : mem'[k].pinned = mem[k].pinned
        /\ \A k \in Ids \ {i} : mem'[k].status = mem[k].status
    BY <1>0, <2>1, RetiredRowFields DEF Statuses
  <2>3. status[i] # "tombstoned"
    BY <1>2 DEF Tombstone
  <2>4. /\ status' = [status EXCEPT ![i] = "tombstoned"]
        /\ pinned' = pinned
    BY <2>1, <2>2
  <2>5. QED
    BY <2>3, <2>4 DEF Lifecycle!Next, Lifecycle!Tombstone, Lifecycle!Ids
<1>3. CASE \E tasks \in DreamTaskSets, scope \in Scopes, p \in BOOLEAN :
             Dream(tasks, scope, p)
  <2> PICK tasks \in DreamTaskSets, scope \in Scopes, p \in BOOLEAN :
        Dream(tasks, scope, p)
    BY <1>3
  <2>1. PICK promoted \in SUBSET Ids, expired \in SUBSET Ids :
          /\ \A i \in promoted \cup expired : Active(i)
          /\ mem' = ExpireRows(PromoteRows(promoted), expired)
    BY DreamEffect
  <2>2. Ids' = Ids
    BY DEF Dream, Ids
  <2>3. \A i \in Ids : /\ mem'[i].pinned = mem[i].pinned
                       /\ mem'[i].status = IF i \in expired THEN "expired"
                                           ELSE mem[i].status
    BY <2>1, DreamRows
  <2>4. /\ status' = [i \in Ids |-> IF i \in expired THEN "expired" ELSE status[i]]
        /\ pinned' = pinned
        /\ expired \subseteq {i \in Ids : status[i] = "active"}
    BY <2>1, <2>2, <2>3 DEF Active
  <2>5. QED
    BY <2>4 DEF Lifecycle!Next, Lifecycle!Expire, Lifecycle!Ids
<1>4. CASE mem' = mem /\ count' = count
  BY <1>4 DEF Lifecycle!vars, Ids
<1>5. QED
  BY <1>1, <1>2, <1>3, <1>4
  DEF Next, vars, Forget, Correct, RecordRecall, Tick

\* Every behaviour of the store, read as the statuses and pins of its rows, is
\* a behaviour of MemoryLifecycle.
THEOREM StoreImplementsLifecycle == Spec => ImplementsLifecycle
<1>1. Init => Lifecycle!Init
  BY DEF Init, Lifecycle!Init, Ids
<1>2. QED
  BY <1>1, TypeCorrect, LifecycleStep, PTL
  DEF Spec, ImplementsLifecycle, Lifecycle!Spec

-----------------------------------------------------------------------------
(* The review queue *)

\* A submission whose targets exist becomes a request that the store accepts:
\* the review queue adds no shape of request that remember does not know.
LEMMA RequestOfSubmission ==
  ASSUME TypeOK, NEW s \in Submissions, s.kind \in Kinds, s.supersedes \subseteq Ids
  PROVE  RequestOf(s) \in Requests
<1>1. s.space \in Spaces /\ s.silo \in Silos /\ s.key \in Keys
  BY DEF Submissions
<1>2. s.supersedes \in References(MaxSupersedes)
  BY DEF Submissions, References
<1>3. {} \in References(MaxContradicts)
  BY FS_EmptySet, BoundsAssumption DEF References
<1>4. now \in ObservedTimes /\ Never \in ExpiryTimes /\ FALSE \in Pins /\ "auto" \in Modes
  BY QueueAssumption DEF TypeOK
<1> QED
  BY <1>1, <1>2, <1>3, <1>4 DEF RequestOf, Requests

\* A row of the table is a candidate, and what it asks for is a submission.
LEMMA CandidateFields ==
  ASSUME QueueTypeOK, NEW k \in DOMAIN cands
  PROVE  cands[k] \in CandidateRow /\ cands[k].asked \in Submissions
<1>1. cands \in Seq(CandidateRow)
  BY DEF QueueTypeOK
<1>2. cands[k] \in CandidateRow
  BY <1>1
<1>3. \A row \in CandidateRow : row.asked \in Submissions
  BY DEF CandidateRow
<1> QED
  BY <1>2, <1>3

\* Approving is remembering: an approval is one of the store's own steps.
LEMMA ApprovalIsNext ==
  ASSUME QueueTypeOK, NEW k \in DOMAIN cands, NEW require, count < MaxMemories,
         Approve(k, require)
  PROVE  Next
<1> DEFINE s == cands[k].asked
<1>1. s \in Submissions
  BY CandidateFields
<1>2. s.kind \in Kinds /\ s.supersedes \subseteq Ids
  BY DEF Approve
<1>3. RequestOf(s) \in Requests
  BY <1>1, <1>2, RequestOfSubmission DEF QueueTypeOK
<1>4. \E window \in ClaimWindows(RequestOf(s)) : Remember(RequestOf(s), window)
  BY DEF Approve
<1> QED
  BY <1>3, <1>4 DEF Next

\* Whatever the queue does, the store takes a step of its own or none.
LEMMA QueueStepIsStep ==
  ASSUME QueueTypeOK, [QueueNext]_queueVars
  PROVE  [Next]_vars
<1>1. CASE Next /\ UNCHANGED cands
  BY <1>1
<1>2. CASE \E s \in Submissions : Submit(s)
  BY <1>2 DEF Submit
<1>3. CASE /\ count < MaxMemories
           /\ \E k \in DOMAIN cands, require \in RequireAdjudication :
                Approve(k, require)
  BY <1>3, ApprovalIsNext
<1>4. CASE \E k \in DOMAIN cands, status \in {"rejected", "quarantined"} :
             Dismiss(k, status)
  BY <1>4 DEF Dismiss
<1>5. CASE UNCHANGED queueVars
  BY <1>5 DEF queueVars
<1> QED
  BY <1>1, <1>2, <1>3, <1>4, <1>5 DEF QueueNext

\* What a step may do to the candidates: append a pending one, or decide one
\* that is pending; what is approved is not refused.
LEMMA QueueEffect ==
  ASSUME QueueTypeOK, [QueueNext]_queueVars
  PROVE  \/ UNCHANGED cands
         \/ \E s \in Submissions : cands' = Append(cands, Candidate(s))
         \/ \E k \in DOMAIN cands, status \in CandidateStatuses, result \in Nat :
              /\ Pending(k) /\ Decide(k, status, result)
              /\ status = "approved" =>
                   \E require \in RequireAdjudication :
                     ~Refused(cands[k].asked, require)
<1>1. CASE \/ Next /\ UNCHANGED cands
           \/ UNCHANGED queueVars
           \/ \E s \in Submissions : Submit(s)
  BY <1>1 DEF Submit, queueVars
<1>2. CASE \E k \in DOMAIN cands, require \in RequireAdjudication :
             Approve(k, require)
  <2>1. PICK k \in DOMAIN cands, require \in RequireAdjudication :
          Approve(k, require)
    BY <1>2
  <2>2. PICK result \in Nat : result = count + 1
    BY DEF QueueTypeOK, TypeOK
  <2>3. /\ Pending(k) /\ Decide(k, "approved", result)
        /\ ~Refused(cands[k].asked, require)
    BY <2>1, <2>2 DEF Approve, Decide
  <2>4. "approved" \in CandidateStatuses
    BY DEF CandidateStatuses
  <2> QED
    BY <2>3, <2>4
<1>3. CASE \E k \in DOMAIN cands, status \in {"rejected", "quarantined"} :
             Dismiss(k, status)
  <2>1. PICK k \in DOMAIN cands, status \in {"rejected", "quarantined"} :
          Dismiss(k, status)
    BY <1>3
  <2>2. Pending(k) /\ Decide(k, status, 0) /\ status # "approved"
    BY <2>1 DEF Dismiss
  <2> QED
    BY <2>2 DEF CandidateStatuses
<1> QED
  BY <1>1, <1>2, <1>3 DEF QueueNext

\* Deciding keeps the table a table and changes one row of it.
LEMMA DecideRows ==
  ASSUME QueueTypeOK, NEW k \in DOMAIN cands,
         NEW status \in CandidateStatuses, NEW result \in Nat,
         Decide(k, status, result)
  PROVE  /\ cands' \in Seq(CandidateRow)
         /\ DOMAIN cands' = DOMAIN cands
         /\ cands'[k].status = status /\ cands'[k].asked = cands[k].asked
         /\ \A l \in DOMAIN cands : l # k => cands'[l] = cands[l]
<1> DEFINE row == [status |-> status, asked |-> cands[k].asked, result |-> result]
<1>1. cands \in Seq(CandidateRow) /\ cands[k] \in CandidateRow
  BY DEF QueueTypeOK
<1>2. row \in CandidateRow
  BY <1>1 DEF CandidateRow
<1>3. cands' = [cands EXCEPT ![k] = row]
  BY DEF Decide
<1>4. row.status = status /\ row.asked = cands[k].asked
  OBVIOUS
<1> HIDE DEF row
<1> QED
  BY <1>1, <1>2, <1>3, <1>4

\* Submitting keeps the table a table and adds one row at its end.
LEMMA SubmitRows ==
  ASSUME QueueTypeOK, NEW s \in Submissions, cands' = Append(cands, Candidate(s))
  PROVE  /\ cands' \in Seq(CandidateRow)
         /\ DOMAIN cands' = DOMAIN cands \cup {Len(cands) + 1}
         /\ Len(cands) + 1 \notin DOMAIN cands
         /\ cands'[Len(cands) + 1] = Candidate(s)
         /\ \A l \in DOMAIN cands : cands'[l] = cands[l]
<1>1. Candidate(s) \in CandidateRow
  BY DEF Candidate, CandidateRow, CandidateStatuses
<1>2. cands \in Seq(CandidateRow)
  BY DEF QueueTypeOK
<1> QED
  BY <1>1, <1>2

\* Every step of the queue keeps the types of all tables.
LEMMA QueueTypeNext ==
  ASSUME QueueTypeOK, [QueueNext]_queueVars
  PROVE  QueueTypeOK'
<1>1. TypeOK'
  BY QueueStepIsStep, TypeNext DEF QueueTypeOK
<1>2. cands' \in Seq(CandidateRow)
  <2>1. CASE UNCHANGED cands
    BY <2>1 DEF QueueTypeOK
  <2>2. CASE \E s \in Submissions : cands' = Append(cands, Candidate(s))
    BY <2>2, SubmitRows
  <2>3. CASE \E k \in DOMAIN cands, status \in CandidateStatuses, result \in Nat :
               Decide(k, status, result)
    BY <2>3, DecideRows
  <2> QED
    BY <2>1, <2>2, <2>3, QueueEffect
<1> QED
  BY <1>1, <1>2 DEF QueueTypeOK

\* The tables of the queue and of the store keep their types: a decision never
\* writes a status or a result that the row cannot hold.
THEOREM QueueTypeCorrect == QueueSpec => []QueueTypeOK
<1>1. QueueInit => QueueTypeOK
  BY TypeInit DEF QueueInit, QueueTypeOK
<1> QED
  BY <1>1, QueueTypeNext, PTL DEF QueueSpec

\* The queue implements the store: approving a candidate is one remember with
\* a request the store accepts from anybody, and nothing else of the queue
\* touches the store's tables.
THEOREM QueueImplementsStore == QueueSpec => ImplementsStore
<1>1. QueueInit => Init
  BY DEF QueueInit
<1>2. QueueTypeOK /\ [QueueNext]_queueVars => [Next]_vars
  BY QueueStepIsStep
<1> QED
  BY <1>1, <1>2, QueueTypeCorrect, PTL DEF QueueSpec, ImplementsStore, Spec

\* Behind the queue the supersession links still say what happened: approvals
\* that name targets follow the rules of remember.
THEOREM QueueKeepsSupersessionTree == QueueSpec => []SupersessionTree
BY QueueImplementsStore, SupersessionAlwaysTree, PTL DEF ImplementsStore

\* A decision is taken once: approve, reject and quarantine leave a candidate
\* alone that is not pending, and nothing rewrites a submission.
THEOREM QueueDecisionsAreFinal == QueueSpec => DecisionsAreFinal
<1> DEFINE Final == \A k \in DOMAIN cands :
                      /\ cands'[k].asked = cands[k].asked
                      /\ cands[k].status # "pending" => cands'[k] = cands[k]
<1>1. ASSUME QueueTypeOK, [QueueNext]_queueVars
      PROVE  Final
  <2>1. CASE UNCHANGED cands
    BY <2>1
  <2>2. CASE \E s \in Submissions : cands' = Append(cands, Candidate(s))
    BY <2>2, <1>1, SubmitRows
  <2>3. ASSUME NEW k \in DOMAIN cands, NEW status \in CandidateStatuses,
               NEW result \in Nat, Pending(k), Decide(k, status, result)
        PROVE  Final
    <3>1. cands'[k].asked = cands[k].asked /\ cands[k].status = "pending"
      BY <1>1, <2>3, DecideRows DEF Pending
    <3>2. \A l \in DOMAIN cands : l # k => cands'[l] = cands[l]
      BY <1>1, <2>3, DecideRows
    <3> QED
      BY <3>1, <3>2
  <2> QED
    BY <1>1, <2>1, <2>2, <2>3, QueueEffect
<1>2. QueueTypeOK /\ [QueueNext]_queueVars => [Final]_queueVars
  BY <1>1
<1> QED
  BY <1>2, QueueTypeCorrect, PTL DEF QueueSpec, DecisionsAreFinal

\* Fail closed: where every process that approves has the adjudication gate
\* on, no capture ever becomes a memory without a verdict.
THEOREM CapturesAlwaysAdjudicated == QueueSpec => []CapturesAreAdjudicated
<1>1. QueueInit => CapturesAreAdjudicated
  BY DEF QueueInit, CapturesAreAdjudicated
<1>2. ASSUME QueueTypeOK, CapturesAreAdjudicated, [QueueNext]_queueVars
      PROVE  CapturesAreAdjudicated'
  <2>1. SUFFICES ASSUME RequireAdjudication = {TRUE}
                 PROVE  \A k \in DOMAIN cands' :
                          cands'[k].status = "approved" =>
                            cands'[k].asked.source # "capture"
    BY DEF CapturesAreAdjudicated
  <2>2. \A k \in DOMAIN cands :
          cands[k].status = "approved" => cands[k].asked.source # "capture"
    BY <1>2, <2>1 DEF CapturesAreAdjudicated
  <2>3. CASE UNCHANGED cands
    BY <2>2, <2>3
  <2>4. CASE \E s \in Submissions : cands' = Append(cands, Candidate(s))
    BY <1>2, <2>2, <2>4, SubmitRows DEF Candidate
  <2>5. ASSUME NEW k \in DOMAIN cands, NEW status \in CandidateStatuses,
               NEW result \in Nat, Decide(k, status, result),
               status = "approved" =>
                 \E require \in RequireAdjudication :
                   ~Refused(cands[k].asked, require)
        PROVE  \A l \in DOMAIN cands' :
                 cands'[l].status = "approved" => cands'[l].asked.source # "capture"
    <3>1. /\ DOMAIN cands' = DOMAIN cands
          /\ cands'[k].status = status /\ cands'[k].asked = cands[k].asked
      BY <1>2, <2>5, DecideRows
    <3>2. \A l \in DOMAIN cands : l # k => cands'[l] = cands[l]
      BY <1>2, <2>5, DecideRows
    <3>3. status = "approved" => cands[k].asked.source # "capture"
      BY <2>1, <2>5 DEF Refused
    <3> QED
      BY <2>2, <3>1, <3>2, <3>3
  <2> QED
    BY <1>2, <2>3, <2>4, <2>5, QueueEffect
<1> QED
  BY <1>1, <1>2, QueueTypeCorrect, PTL DEF QueueSpec

-----------------------------------------------------------------------------
(* What an approval made *)

\* No step of the store takes a memory away, moves it to another space or
\* claim, or removes a link.
LEMMA StoreKeepsRows ==
  ASSUME TypeOK, [Next]_vars
  PROVE  /\ Ids \subseteq Ids' /\ links \subseteq links'
         /\ \A i \in Ids : /\ mem'[i].space = mem[i].space
                           /\ mem'[i].key = mem[i].key
<1>0. \A i \in Ids : mem[i] \in Row
  BY DEF TypeOK
<1> DEFINE Same(new, old) == new.space = old.space /\ new.key = old.key
<1>1. \A row \in Row : \A s : Same(RetiredRow(row, s), row)
  BY DEF RetiredRow, Row
<1>2. \A row \in Row : PromotedRow(row) \in Row /\ Same(PromotedRow(row), row)
  <2> SUFFICES ASSUME NEW row \in Row
               PROVE  PromotedRow(row) \in Row /\ Same(PromotedRow(row), row)
    OBVIOUS
  <2>1. PromotedRow(row) \in Row
    BY PromotedRowFields
  <2>2. Same(PromotedRow(row), row)
    BY DEF PromotedRow, Row
  <2> QED
    BY <2>1, <2>2
<1>3. CASE \E r \in Requests : \E window \in ClaimWindows(r) : Remember(r, window)
  <2>1. PICK r \in Requests : \E window \in ClaimWindows(r) : Remember(r, window)
    BY <1>3
  <2> PICK window \in ClaimWindows(r) : Remember(r, window)
    BY <2>1
  <2>2. links \subseteq links'
    BY DEF Remember
  <2>3. PICK retired \in SUBSET Ids :
          /\ Ids' = Ids \cup {count + 1}
          /\ \A i \in retired : mem'[i] = RetiredRow(mem[i], "superseded")
          /\ \A i \in Ids \ retired : mem'[i] = mem[i]
    BY RememberRows
  <2>4. \A i \in Ids : Same(mem'[i], mem[i])
    BY <1>0, <1>1, <2>3
  <2> QED
    BY <2>2, <2>3, <2>4
<1>4. ASSUME NEW i \in Ids, NEW type, Tombstone(i, type), links \subseteq links'
      PROVE  Ids' = Ids /\ \A k \in Ids : Same(mem'[k], mem[k])
  BY <1>0, <1>1, <1>4, TombstoneRows
<1>5. CASE \E i \in Ids : Forget(i) \/ \E c \in Corrections(i) : Correct(i, c)
  <2>1. PICK i \in Ids, type \in {"forget", "correct"} :
          Tombstone(i, type) /\ links \subseteq links'
    BY <1>5 DEF Forget, Correct
  <2> QED
    BY <2>1, <1>4
<1>6. CASE \E tasks \in DreamTaskSets, scope \in Scopes, p \in BOOLEAN :
             Dream(tasks, scope, p)
  <2> PICK tasks \in DreamTaskSets, scope \in Scopes, p \in BOOLEAN :
        Dream(tasks, scope, p)
    BY <1>6
  <2>1. PICK promoted \in SUBSET Ids, expired \in SUBSET Ids :
          mem' = ExpireRows(PromoteRows(promoted), expired)
    BY DreamEffect
  <2>2. \A i \in Ids : PromoteRows(promoted)[i] \in Row
                       /\ Same(PromoteRows(promoted)[i], mem[i])
    BY <1>0, <1>2 DEF PromoteRows
  <2>3. \A i \in Ids : mem'[i] \in {PromoteRows(promoted)[i],
                                    RetiredRow(PromoteRows(promoted)[i], "expired")}
    BY <2>1 DEF ExpireRows
  <2>4. \A i \in Ids : Same(mem'[i], mem[i])
    BY <1>1, <2>2, <2>3
  <2>5. Ids' = Ids /\ links' = links
    BY DEF Dream, Ids
  <2> QED
    BY <2>4, <2>5
<1>7. CASE (\E i \in Ids, s \in Sessions : RecordRecall(i, s)) \/ Tick \/ UNCHANGED vars
  BY <1>7 DEF RecordRecall, Tick, vars, Ids
<1> QED
  BY <1>3, <1>5, <1>6, <1>7 DEF Next

\* A row names the memory it made, and what it asked for became of it.
Made(c) ==
  /\ c.result \in Ids
  /\ mem[c.result].space = c.asked.space
  /\ mem[c.result].key = c.asked.key
  /\ \A i \in c.asked.supersedes : <<c.result, i, "supersedes">> \in links

\* An approval makes a new memory where the submission asked for it.
LEMMA ApprovalMakes ==
  ASSUME QueueTypeOK, NEW k \in DOMAIN cands, NEW require, Approve(k, require)
  PROVE  LET s == cands[k].asked IN
         /\ count + 1 \in Ids' \ Ids
         /\ mem'[count + 1].space = s.space /\ mem'[count + 1].key = s.key
         /\ \A i \in s.supersedes : <<count + 1, i, "supersedes">> \in links'
<1> DEFINE s == cands[k].asked
<1>1. s \in Submissions
  BY CandidateFields
<1>2. s.kind \in Kinds /\ s.supersedes \subseteq Ids
  BY DEF Approve
<1>3. RequestOf(s) \in Requests
  BY <1>1, <1>2, RequestOfSubmission DEF QueueTypeOK
<1>4. PICK window \in ClaimWindows(RequestOf(s)) : Remember(RequestOf(s), window)
  BY DEF Approve
<1>5. /\ RequestOf(s).space = s.space /\ RequestOf(s).key = s.key
      /\ RequestOf(s).supersedes = s.supersedes
  BY DEF RequestOf
<1> HIDE DEF s
<1> DEFINE q == RequestOf(s)
<1> HIDE DEF q
<1>6. PICK retired \in SUBSET Ids :
        /\ retired = q.supersedes \cup Unnamed(q, window)
        /\ Ids' = Ids \cup {count + 1} /\ count + 1 \notin Ids
        /\ mem'[count + 1] = NewRow(q)
  BY <1>3, <1>4, RememberRows DEF q, QueueTypeOK
<1>7. mem'[count + 1].space = q.space /\ mem'[count + 1].key = q.key
  BY <1>6 DEF NewRow
<1>8. \A i \in q.supersedes : <<count + 1, i, "supersedes">> \in links'
  <2>1. SupersedeLinks(count + 1, q.supersedes \cup Unnamed(q, window)) \subseteq links'
    BY <1>4 DEF q, Remember
  <2> QED
    BY <2>1 DEF SupersedeLinks
<1> QED
  BY <1>5, <1>6, <1>7, <1>8 DEF q, s

\* Every step of the queue and of the store keeps what the approvals made.
LEMMA ApprovalsNext ==
  ASSUME QueueTypeOK, ApprovalsMakeMemories, [QueueNext]_queueVars
  PROVE  ApprovalsMakeMemories'
<1>1. TypeOK /\ [Next]_vars
  BY QueueStepIsStep DEF QueueTypeOK
<1>2. \A k \in DOMAIN cands :
        /\ cands[k] \in CandidateRow
        /\ IF cands[k].status = "approved"
           THEN /\ Made(cands[k])
                /\ \A l \in DOMAIN cands : cands[l].result = cands[k].result => l = k
           ELSE cands[k].result = 0
  BY CandidateFields DEF ApprovalsMakeMemories, Made
<1>3. 0 \notin Ids
  BY DEF Ids
<1>4. ASSUME NEW k \in DOMAIN cands, cands[k].status = "approved"
      PROVE  /\ cands[k].result \in Ids /\ cands[k].result \in Ids'
             /\ mem'[cands[k].result].space = cands[k].asked.space
             /\ mem'[cands[k].result].key = cands[k].asked.key
             /\ \A i \in cands[k].asked.supersedes :
                  <<cands[k].result, i, "supersedes">> \in links'
  BY <1>1, <1>2, <1>4, StoreKeepsRows DEF Made
<1>5. CASE UNCHANGED cands
  BY <1>2, <1>4, <1>5 DEF ApprovalsMakeMemories
<1>6. CASE \E s \in Submissions : cands' = Append(cands, Candidate(s))
  <2>1. PICK s \in Submissions : cands' = Append(cands, Candidate(s))
    BY <1>6
  <2>2. /\ DOMAIN cands' = DOMAIN cands \cup {Len(cands) + 1}
        /\ cands'[Len(cands) + 1] = Candidate(s)
        /\ \A l \in DOMAIN cands : cands'[l] = cands[l]
    BY <2>1, SubmitRows
  <2>3. Candidate(s).status = "pending" /\ Candidate(s).result = 0
    BY DEF Candidate
  <2> QED
    BY <1>2, <1>3, <1>4, <2>2, <2>3 DEF ApprovalsMakeMemories
<1>7. ASSUME NEW k \in DOMAIN cands, NEW require \in RequireAdjudication,
             Approve(k, require)
      PROVE  ApprovalsMakeMemories'
  <2>1. count + 1 \in Nat /\ "approved" \in CandidateStatuses
    BY DEF QueueTypeOK, TypeOK, CandidateStatuses
  <2>2. Decide(k, "approved", count + 1)
    BY <1>7 DEF Approve
  <2>3. /\ DOMAIN cands' = DOMAIN cands
        /\ cands'[k].status = "approved" /\ cands'[k].asked = cands[k].asked
        /\ \A l \in DOMAIN cands : l # k => cands'[l] = cands[l]
    BY <2>1, <2>2, DecideRows
  <2>4. cands'[k].result = count + 1
    BY <2>2 DEF Decide, QueueTypeOK
  <2>5. /\ count + 1 \in Ids' \ Ids
        /\ mem'[count + 1].space = cands[k].asked.space
        /\ mem'[count + 1].key = cands[k].asked.key
        /\ \A i \in cands[k].asked.supersedes :
             <<count + 1, i, "supersedes">> \in links'
    BY <1>7, ApprovalMakes
  <2>6. \A l \in DOMAIN cands : l # k => cands'[l].result # count + 1
    BY <1>2, <1>3, <1>4, <2>1, <2>3, <2>5 DEF Ids
  <2>7. ASSUME NEW l \in DOMAIN cands', l # k
        PROVE  IF cands'[l].status = "approved"
               THEN /\ cands'[l].result \in Ids'
                    /\ mem'[cands'[l].result].space = cands'[l].asked.space
                    /\ mem'[cands'[l].result].key = cands'[l].asked.key
                    /\ \A i \in cands'[l].asked.supersedes :
                         <<cands'[l].result, i, "supersedes">> \in links'
                    /\ \A m \in DOMAIN cands' :
                         cands'[m].result = cands'[l].result => m = l
               ELSE cands'[l].result = 0
    BY <1>2, <1>4, <2>3, <2>4, <2>6, <2>7
  <2>8. /\ cands'[k].result \in Ids'
        /\ mem'[cands'[k].result].space = cands'[k].asked.space
        /\ mem'[cands'[k].result].key = cands'[k].asked.key
        /\ \A i \in cands'[k].asked.supersedes :
             <<cands'[k].result, i, "supersedes">> \in links'
        /\ \A m \in DOMAIN cands' : cands'[m].result = cands'[k].result => m = k
    BY <2>3, <2>4, <2>5, <2>6
  <2> QED
    BY <2>3, <2>7, <2>8 DEF ApprovalsMakeMemories
<1>8. ASSUME NEW k \in DOMAIN cands, NEW status \in {"rejected", "quarantined"},
             Dismiss(k, status)
      PROVE  ApprovalsMakeMemories'
  <2>1. /\ status \in CandidateStatuses /\ 0 \in Nat /\ Decide(k, status, 0)
    BY <1>8 DEF Dismiss, CandidateStatuses
  <2>2. /\ DOMAIN cands' = DOMAIN cands
        /\ cands'[k].status = status /\ status # "approved"
        /\ \A l \in DOMAIN cands : l # k => cands'[l] = cands[l]
    BY <2>1, DecideRows
  <2>3. cands'[k].result = 0
    BY <2>1 DEF Decide, QueueTypeOK
  <2> QED
    BY <1>2, <1>3, <1>4, <2>2, <2>3 DEF ApprovalsMakeMemories
<1> QED
  BY <1>5, <1>6, <1>7, <1>8 DEF QueueNext, Submit, queueVars

\* An approved candidate and its memory belong together for every number of
\* candidates, memories and approving processes, and the gate is never passed:
\* what may happen to the memory later takes nothing of that back.
THEOREM ApprovalsAlwaysSound == QueueSpec => []ApprovalsSound
<1>1. QueueInit => ApprovalsMakeMemories
  BY DEF QueueInit, ApprovalsMakeMemories
<1>2. QueueTypeOK /\ ApprovalsMakeMemories /\ [QueueNext]_queueVars
        => ApprovalsMakeMemories'
  BY ApprovalsNext
<1>3. QueueTypeOK /\ ApprovalsMakeMemories /\ CapturesAreAdjudicated => ApprovalsSound
  BY DEF ApprovalsSound
<1> QED
  BY <1>1, <1>2, <1>3, QueueTypeCorrect, CapturesAlwaysAdjudicated, PTL DEF QueueSpec
-----------------------------------------------------------------------------
(* The archive: what is true of every store that is exported *)

\* Every space has the standard silos and its default one, and no others.
DefaultsSeeded ==
  /\ DefaultSpace \in DOMAIN defaults /\ defaults[DefaultSpace] = Durable
  /\ IsFiniteSet(DOMAIN defaults)
  /\ \A space \in Spaces, silo \in Silos :
       <<space, silo>> \in silos <=>
         space \in DOMAIN defaults /\ silo \in {ShortTerm, Durable, defaults[space]}

\* Chunks are told apart by their ids, and a source is in its memory's space.
ChunksApart ==
  /\ IsFiniteSet(docs)
  /\ \A d \in docs : d.space \in DOMAIN defaults /\ d.id <= chunk
  /\ \A d, e \in docs : d.id = e.id => d = e
  /\ \A i \in Ids, d \in docs : d.id = details[i].source => d.space = mem[i].space

\* The full-text tables serve the text of the card.
CardsServed == \A i \in Ids : served[i] = details[i].card

\* RoundTripKeepsAll is not inductive: that nothing is lost on the way rests on
\* what makes the rows of one table fit those of the others.
ArchiveInv ==
  /\ ArchiveTypeOK /\ CrossInv /\ FtsMirrorsMemory
  /\ DefaultsSeeded /\ ChunksApart /\ CardsServed

\* A step of the archive is a step of the store, or the move to another file.
LEMMA ArchiveSteps ==
  ASSUME [ArchiveNext]_archiveVars
  PROVE  [Next]_vars \/ Reload
<1>1. ASSUME NEW w \in Writes, NEW source \in 0..MaxChunks,
             NEW r \in {q \in Requests : /\ q.space = w.space /\ q.silo = w.silo
                                         /\ q.expires = w.expires},
             NEW window \in ClaimWindows(r), Write(w, source, r, window),
             count < MaxMemories
      PROVE  Next
  BY <1>1 DEF Write, Next
<1>2. ASSUME NEW tasks \in DreamTaskSets, Maintain(tasks)
      PROVE  Next
  <2>1. [space |-> AllSpaces, silos |-> {}] \in Scopes
    BY DEF Scopes
  <2>2. Dream(tasks, [space |-> AllSpaces, silos |-> {}], FALSE)
    BY <1>2 DEF Maintain
  <2>3. QED
    BY <2>1, <2>2 DEF Next
<1>3. CASE \/ \E new \in NewSpaces : CreateSpace(new[1], new[2])
           \/ \E i \in Ids, fit \in Stamps : Verify(i, fit)
           \/ \E i \in Ids : Relate(i)
           \/ \E c \in Ingests : Ingest(c)
           \/ \E gone \in docs : Prune(gone)
           \/ UNCHANGED archiveVars
  BY <1>3 DEF CreateSpace, Verify, Relate, Ingest, Prune, archiveVars, vars
<1>4. CASE \/ \E i \in Ids : Forget(i) /\ UNCHANGED tables
           \/ \E i \in Ids : \E c \in Corrections(i) : Correct(i, c) /\ UNCHANGED tables
  BY <1>4 DEF Next
<1>5. QED
  BY <1>1, <1>2, <1>3, <1>4 DEF ArchiveNext

\* What the store promises holds on, in the new file as well.
LEMMA StoreMoves ==
  ASSUME TypeOK, CrossInv, FtsMirrorsMemory, [ArchiveNext]_archiveVars
  PROVE  TypeOK' /\ CrossInv' /\ FtsMirrorsMemory'
<1>1. CASE [Next]_vars
  BY <1>1, TypeNext, CrossNext, FtsNext
<1>2. CASE Reload
  <2>1. /\ now' = now /\ count' = count /\ mem' = mem /\ events' = events
        /\ links' = links /\ conflicts' = conflicts
        /\ fts' = [i \in Ids |-> FtsRow(mem[i])]
        /\ recalls' = [i \in Ids |-> {}]
    BY <1>2 DEF Reload
  <2>2. Ids' = Ids
    BY <2>1 DEF Ids
  <2>3. \A i \in Ids : FtsRow(mem[i]) \in [status : Statuses, silo : Silos]
    BY DEF TypeOK, Row, FtsRow
  <2>4. TypeOK'
    BY <2>1, <2>2, <2>3 DEF TypeOK
  <2>5. CrossInv'
    BY <2>1, <2>2 DEF CrossInv, LastEvent
  <2>6. FtsMirrorsMemory'
    BY <2>1, <2>2 DEF FtsMirrorsMemory
  <2>7. QED
    BY <2>4, <2>5, <2>6
<1>3. QED
  BY <1>1, <1>2, ArchiveSteps

\* A memory stays in its space, and in its silo until it is promoted.
LEMMA HomeStays ==
  ASSUME TypeOK, [ArchiveNext]_archiveVars, NEW i \in Ids
  PROVE  /\ i \in Ids' /\ mem'[i].space = mem[i].space
         /\ mem'[i].silo = mem[i].silo \/ mem'[i].silo = Durable
<1>0. mem[i] \in Row
  BY DEF TypeOK
<1>1. ASSUME NEW r \in Requests, NEW window \in ClaimWindows(r), Remember(r, window)
      PROVE  mem'[i].silo = mem[i].silo
  <2>1. mem'[i] = RetiredRow(mem[i], "superseded") \/ mem'[i] = mem[i]
    BY <1>1, RememberRows
  <2>2. QED
    BY <1>0, <2>1, RetiredRowFields DEF Statuses
<1>2. ASSUME NEW k \in Ids, NEW type, Tombstone(k, type)
      PROVE  mem'[i].silo = mem[i].silo
  <2>1. mem'[i] = RetiredRow(mem[i], "tombstoned") \/ mem'[i] = mem[i]
    BY <1>2, TombstoneRows
  <2>2. QED
    BY <1>0, <2>1, RetiredRowFields DEF Statuses
<1>3. ASSUME NEW tasks \in DreamTaskSets, NEW scope \in Scopes, NEW p \in BOOLEAN,
             Dream(tasks, scope, p)
      PROVE  mem'[i].silo = mem[i].silo \/ mem'[i].silo = Durable
  <2>1. PICK promoted \in SUBSET Ids, expired \in SUBSET Ids :
          mem' = ExpireRows(PromoteRows(promoted), expired)
    BY <1>3, DreamEffect
  <2>2. QED
    BY <2>1, DreamRows
<1>4. CASE [Next]_vars
  <2>1. mem'[i].silo = mem[i].silo \/ mem'[i].silo = Durable
    BY <1>1, <1>2, <1>3, <1>4 DEF Next, vars, Forget, Correct, RecordRecall, Tick
  <2>2. QED
    BY <1>4, <2>1, StoreKeepsRows
<1>5. CASE Reload
  BY <1>5 DEF Reload, Ids
<1>6. QED
  BY <1>4, <1>5, ArchiveSteps

\* g is the column f, of n values, with one more.
Grows(g, f, n, x, S) ==
  g \in [1..(n + 1) -> S] /\ g[n + 1] = x /\ \A i \in 1..n : g[i] = f[i]

LEMMA Grown ==
  ASSUME NEW S, NEW n \in Nat, NEW f \in [1..n -> S], NEW x \in S
  PROVE  Grows(Append(f, x), f, n, x, S)
<1>1. f \in Seq(S) /\ Len(f) = n
  OBVIOUS
<1> DEFINE g == Append(f, x)
<1>2. g \in Seq(S) /\ Len(g) = n + 1
  BY <1>1
<1>3. g[n + 1] = x /\ \A i \in 1..n : g[i] = f[i]
  BY <1>1
<1> HIDE DEF g
<1>4. g \in [1..Len(g) -> S]
  BY <1>2
<1>5. g \in [1..(n + 1) -> S]
  BY <1>2, <1>4
<1>6. Grows(g, f, n, x, S)
  BY <1>3, <1>5 DEF Grows
<1>7. QED
  BY <1>6 DEF g

\* What a write adds: one memory with its card, in a silo that exists, and with
\* a source in its space.
LEMMA WriteAdds ==
  ASSUME ArchiveInv, NEW w \in Writes, NEW source \in 0..MaxChunks,
         NEW r \in {q \in Requests : /\ q.space = w.space /\ q.silo = w.silo
                                     /\ q.expires = w.expires},
         NEW window \in ClaimWindows(r), Write(w, source, r, window)
  PROVE  \E detail \in Detail :
           /\ detail.card = w.card
           /\ detail.source # None =>
                \E d \in docs : d.id = detail.source /\ d.space = w.space
           /\ <<w.space, w.silo>> \in silos
           /\ Ids' = Ids \cup {count + 1} /\ count + 1 \notin Ids
           /\ mem'[count + 1].space = w.space /\ mem'[count + 1].silo = w.silo
           /\ details' \in [Ids' -> Detail] /\ served' \in [Ids' -> Cards \cup {Summary}]
           /\ details'[count + 1] = detail /\ served'[count + 1] = detail.card
           /\ \A i \in Ids : details'[i] = details[i] /\ served'[i] = served[i]
           /\ UNCHANGED <<defaults, silos, docs, chunk, related>>
<1> DEFINE detail == [card |-> w.card, vector |-> w.vector, source |-> source, fit |-> w.fit]
<1>1. w.card \in Cards \cup {Summary} /\ w.vector \in BOOLEAN /\ w.fit \in BOOLEAN
  BY ArchiveAssumption
<1>2. detail \in Detail /\ detail.card = w.card /\ detail.source = source
  BY <1>1 DEF Detail
<1>3. /\ Admissible(w, source) /\ Remember(r, window)
      /\ details' = Append(details, detail) /\ served' = Append(served, detail.card)
      /\ UNCHANGED <<defaults, silos, docs, chunk, related>>
  BY DEF Write, Companion
<1>4. /\ count' = count + 1 /\ Ids' = Ids \cup {count + 1} /\ count + 1 \notin Ids
      /\ mem'[count + 1] = NewRow(r)
  BY <1>3, RememberRows DEF ArchiveInv, ArchiveTypeOK
<1>5. mem'[count + 1].space = w.space /\ mem'[count + 1].silo = w.silo
  BY <1>4 DEF NewRow
<1>6. /\ details \in [1..count -> Detail] /\ served \in [1..count -> Cards \cup {Summary}]
      /\ count \in Nat /\ Ids' = 1..(count + 1) /\ Ids = 1..count
  BY <1>4 DEF ArchiveInv, ArchiveTypeOK, TypeOK, Ids
<1> HIDE DEF detail
<1>8. /\ details' \in [Ids' -> Detail]
      /\ details'[count + 1] = detail
      /\ \A i \in Ids : details'[i] = details[i]
  <2> DEFINE f == Append(details, detail)
  <2>1. Grows(f, details, count, detail, Detail)
    BY <1>2, <1>6, Grown
  <2>2. details' = f
    BY <1>3
  <2> HIDE DEF f
  <2>3. QED
    BY <1>6, <2>1, <2>2 DEF Grows
<1>9. /\ served' \in [Ids' -> Cards \cup {Summary}]
      /\ served'[count + 1] = detail.card
      /\ \A i \in Ids : served'[i] = served[i]
  <2> DEFINE f == Append(served, detail.card)
  <2>1. Grows(f, served, count, detail.card, Cards \cup {Summary})
    BY <1>1, <1>2, <1>6, Grown
  <2>2. served' = f
    BY <1>3
  <2> HIDE DEF f
  <2>3. QED
    BY <1>6, <2>1, <2>2 DEF Grows
<1>10. /\ <<w.space, w.silo>> \in silos
       /\ detail.source # None => \E d \in docs : d.id = detail.source /\ d.space = w.space
  BY <1>2, <1>3 DEF Admissible
<1>11. QED
  BY <1>2, <1>3, <1>4, <1>5, <1>8, <1>9, <1>10

\* Spaces come with their silos, and stay.
LEMMA DefaultsNext ==
  ASSUME ArchiveInv, [ArchiveNext]_archiveVars
  PROVE  /\ DefaultsSeeded'
         /\ defaults' \in [DOMAIN defaults' -> Silos] /\ DOMAIN defaults' \subseteq Spaces
         /\ silos' \subseteq Spaces \X Silos
         /\ \A space \in DOMAIN defaults' : <<space, defaults'[space]>> \in silos'
         /\ silos \subseteq silos' /\ DOMAIN defaults \subseteq DOMAIN defaults'
<1>0. /\ DefaultsSeeded
      /\ defaults \in [DOMAIN defaults -> Silos] /\ DOMAIN defaults \subseteq Spaces
      /\ silos \subseteq Spaces \X Silos
      /\ \A space \in DOMAIN defaults : <<space, defaults[space]>> \in silos
  BY DEF ArchiveInv, ArchiveTypeOK
<1>1. CASE defaults' = defaults /\ silos' = silos
  BY <1>0, <1>1 DEF DefaultsSeeded
<1>2. ASSUME NEW new \in NewSpaces, CreateSpace(new[1], new[2])
      PROVE  /\ DefaultsSeeded'
             /\ defaults' \in [DOMAIN defaults' -> Silos] /\ DOMAIN defaults' \subseteq Spaces
             /\ silos' \subseteq Spaces \X Silos
             /\ \A space \in DOMAIN defaults' : <<space, defaults'[space]>> \in silos'
             /\ silos \subseteq silos' /\ DOMAIN defaults \subseteq DOMAIN defaults'
  <2> DEFINE n == new[1]
             k == new[2]
  <2>1. n \in Spaces /\ k \in Silos /\ {ShortTerm, Durable} \subseteq Silos
    BY ArchiveAssumption, RequestAssumption
  <2> HIDE DEF n, k
  <2>2. /\ n \notin DOMAIN defaults
        /\ defaults' = [known \in DOMAIN defaults \cup {n} |->
                          IF known = n THEN k ELSE defaults[known]]
        /\ silos' = silos \cup ({n} \X {ShortTerm, Durable, k})
    BY <1>2 DEF CreateSpace, NewSilos, SeededSilos, n, k
  <2>3. DOMAIN defaults' = DOMAIN defaults \cup {n}
    BY <2>2
  <2>4. defaults'[n] = k /\ \A s \in DOMAIN defaults : defaults'[s] = defaults[s]
    BY <2>2
  <2>5. IsFiniteSet(DOMAIN defaults')
    BY <1>0, <2>3, FS_AddElement DEF DefaultsSeeded
  <2>6. \A space \in Spaces, silo \in Silos :
          <<space, silo>> \in silos' <=>
            space \in DOMAIN defaults' /\ silo \in {ShortTerm, Durable, defaults'[space]}
    <3> TAKE space \in Spaces, silo \in Silos
    <3>1. CASE space = n
      BY <1>0, <2>2, <2>3, <2>4, <3>1 DEF DefaultsSeeded
    <3>2. CASE space # n
      BY <1>0, <2>2, <2>3, <2>4, <3>2 DEF DefaultsSeeded
    <3>3. QED
      BY <3>1, <3>2
  <2>7. DefaultSpace \in DOMAIN defaults' /\ defaults'[DefaultSpace] = Durable
    BY <1>0, <2>3, <2>4 DEF DefaultsSeeded
  <2>8. defaults' \in [DOMAIN defaults' -> Silos]
    BY <1>0, <2>1, <2>2
  <2>9. QED
    BY <1>0, <2>1, <2>2, <2>3, <2>4, <2>5, <2>6, <2>7, <2>8 DEF DefaultsSeeded
<1>3. QED
  BY <1>1, <1>2
  DEF ArchiveNext, Write, Verify, Relate, Ingest, Prune, Maintain, Reload, tables, archiveVars

\* The chunks stay told apart, whatever is ingested and pruned.
LEMMA DocsNext ==
  ASSUME ArchiveInv, [ArchiveNext]_archiveVars
  PROVE  /\ docs' \subseteq Chunk /\ chunk' \in 0..MaxChunks /\ IsFiniteSet(docs')
         /\ \A d \in docs' : d.space \in DOMAIN defaults' /\ d.id <= chunk'
         /\ \A d, e \in docs' : d.id = e.id => d = e
<1>0. /\ docs \subseteq Chunk /\ chunk \in 0..MaxChunks /\ IsFiniteSet(docs)
      /\ \A d \in docs : d.space \in DOMAIN defaults /\ d.id <= chunk
      /\ \A d, e \in docs : d.id = e.id => d = e
  BY DEF ArchiveInv, ArchiveTypeOK, ChunksApart
<1>1. DOMAIN defaults \subseteq DOMAIN defaults' /\ DOMAIN defaults \subseteq Spaces
  BY DefaultsNext DEF ArchiveInv, ArchiveTypeOK
<1>2. CASE docs' = docs /\ chunk' = chunk
  BY <1>0, <1>1, <1>2
<1>3. ASSUME NEW c \in Ingests, Ingest(c)
      PROVE  /\ docs' \subseteq Chunk /\ chunk' \in 0..MaxChunks /\ IsFiniteSet(docs')
             /\ \A d \in docs' : d.space \in DOMAIN defaults' /\ d.id <= chunk'
             /\ \A d, e \in docs' : d.id = e.id => d = e
  <2> DEFINE new == [id |-> chunk + 1, space |-> c.space, vector |-> c.vector, fit |-> c.fit]
  <2>1. /\ c.space \in DOMAIN defaults /\ chunk < MaxChunks
        /\ chunk' = chunk + 1 /\ docs' = docs \cup {new}
    BY <1>3 DEF Ingest
  <2>2. /\ MaxChunks \in Nat
        /\ c.space \in Spaces /\ c.vector \in BOOLEAN /\ c.fit \in BOOLEAN
    BY ArchiveAssumption
  <2>3. new \in Chunk /\ new.id = chunk + 1 /\ new.space = c.space
    BY <1>0, <2>1, <2>2 DEF Chunk
  <2> HIDE DEF new
  <2>4. IsFiniteSet(docs')
    BY <1>0, <2>1, FS_AddElement
  <2>5. \A d \in docs : d.id \in Nat /\ d.id # chunk + 1 /\ d.id <= chunk + 1
    BY <1>0 DEF Chunk
  <2>6. QED
    BY <1>0, <1>1, <2>1, <2>2, <2>3, <2>4, <2>5
<1>4. ASSUME NEW gone \in docs, Prune(gone)
      PROVE  /\ docs' \subseteq Chunk /\ chunk' \in 0..MaxChunks /\ IsFiniteSet(docs')
             /\ \A d \in docs' : d.space \in DOMAIN defaults' /\ d.id <= chunk'
             /\ \A d, e \in docs' : d.id = e.id => d = e
  <2>1. docs' = docs \ {gone} /\ chunk' = chunk
    BY <1>4 DEF Prune
  <2>2. IsFiniteSet(docs')
    BY <1>0, <2>1, FS_RemoveElement
  <2>3. QED
    BY <1>0, <1>1, <2>1, <2>2
<1>5. QED
  BY <1>2, <1>3, <1>4
  DEF ArchiveNext, Write, CreateSpace, Verify, Relate, Maintain, Reload, tables, archiveVars

-----------------------------------------------------------------------------
(* The archive: the records of a file *)

\* g is what is left of the rows when the first ones are taken out.
LeftTo(rows, n, g) ==
  g = [i \in 0..n |-> IF i = 0 THEN rows ELSE Rest(g[i - 1])]

LEMMA LeftExists ==
  ASSUME NEW rows, NEW n \in Nat
  PROVE  \E g : LeftTo(rows, n, g)
<1> DEFINE S == {k \in Nat : \E g : LeftTo(rows, k, g)}
           Less(k, g) == Rest(g[k - 1])
<1>1. 0 \in S
  <2> DEFINE g == [i \in 0..0 |-> rows]
  <2>1. LeftTo(rows, 0, g)
    BY DEF LeftTo
  <2>2. QED
    BY <2>1
<1>2. \A k \in 0..(n - 1) : k \in S => k + 1 \in S
  <2> TAKE k \in 0..(n - 1)
  <2>1. HAVE k \in S
  <2>2. PICK g : LeftTo(rows, k, g)
    BY <2>1
  <2> DEFINE h == [i \in 0..(k + 1) |-> IF i = k + 1 THEN Less(k + 1, g) ELSE g[i]]
  <2>3. \A i \in 0..k : g[i] = IF i = 0 THEN rows ELSE Less(i, g)
    BY <2>2 DEF LeftTo
  <2>4. \A i \in 0..(k + 1) : h[i] = IF i = 0 THEN rows ELSE Less(i, h)
    BY <2>3
  <2>5. LeftTo(rows, k + 1, h)
    BY <2>4 DEF LeftTo
  <2>6. QED
    BY <2>5
<1>3. n \in S
  <2> HIDE DEF S
  <2>1. \A i \in 0..n : i \in S
    BY <1>1, <1>2, InductionTo
  <2>2. QED
    BY <2>1
<1>4. QED
  BY <1>3

\* The rows of a table are written one after the other: each, and once.
LEMMA InOrderIs ==
  ASSUME NEW rows, IsFiniteSet(rows)
  PROVE  /\ InOrder(rows) \in Seq(rows) /\ Len(InOrder(rows)) = Cardinality(rows)
         /\ Once(InOrder(rows)) /\ Range(InOrder(rows)) = rows
<1> DEFINE N == Cardinality(rows)
           left == CHOOSE g : LeftTo(rows, N, g)
           s == [n \in 1..N |-> Foremost(left[n - 1])]
<1>1. N \in Nat
  BY FS_CardinalityType
<1>2. LeftTo(rows, N, left)
  BY <1>1, LeftExists
<1>3. InOrder(rows) = s
  BY Zenon DEF InOrder, LeftTo
<1>4. /\ left[0] = rows
      /\ \A n \in 1..N : left[n] = Rest(left[n - 1])
  <2> HIDE DEF left, N
  <2>1. \A n \in 0..N : left[n] = IF n = 0 THEN rows ELSE Rest(left[n - 1])
    BY <1>2 DEF LeftTo
  <2>2. QED
    BY <1>1, <2>1
<1> HIDE DEF left
<1> DEFINE S == {n \in 0..N : /\ left[n] \subseteq rows /\ IsFiniteSet(left[n])
                              /\ Cardinality(left[n]) = N - n}
<1>5. \A n \in 0..N : n \in S
  <2>1. 0 \in S
    BY <1>1, <1>4
  <2>2. ASSUME NEW n \in 0..(N - 1), n \in S PROVE n + 1 \in S
    <3> DEFINE x == Foremost(left[n])
    <3>1. left[n] \subseteq rows /\ IsFiniteSet(left[n]) /\ Cardinality(left[n]) = N - n
      BY <2>2
    <3>2. left[n] # {}
      BY <1>1, <3>1, FS_EmptySet
    <3>3. x \in left[n]
      BY <3>2 DEF Foremost
    <3> HIDE DEF x
    <3>4. left[n + 1] = left[n] \ {x}
      BY <1>1, <1>4 DEF x, Rest
    <3>5. IsFiniteSet(left[n + 1]) /\ Cardinality(left[n + 1]) = Cardinality(left[n]) - 1
      BY <3>1, <3>3, <3>4, FS_RemoveElement
    <3>6. left[n + 1] \subseteq rows
      BY <3>1, <3>4
    <3>7. n + 1 \in 0..N /\ Cardinality(left[n + 1]) = N - (n + 1)
      <4> HIDE DEF N
      <4>1. N \in Nat /\ n \in 0..(N - 1)
        BY <1>1, <2>2
      <4>2. Cardinality(left[n + 1]) = (N - n) - 1
        BY <3>1, <3>5
      <4>3. QED
        BY <4>1, <4>2
    <3>8. QED
      BY <3>5, <3>6, <3>7
  <2> HIDE DEF S, N
  <2>3. QED
    BY <1>1, <2>1, <2>2, InductionTo
<1>6. \A n \in 1..N : /\ s[n] \in left[n - 1] /\ left[n] = left[n - 1] \ {s[n]}
                      /\ s[n] \in rows
  <2> TAKE n \in 1..N
  <2>1. n - 1 \in 0..N /\ n - 1 \in S /\ N - (n - 1) # 0
    BY <1>1, <1>5
  <2>2. left[n - 1] # {}
    BY <2>1, FS_EmptySet
  <2>3. s[n] \in left[n - 1]
    BY <2>2 DEF Foremost
  <2>4. QED
    BY <1>4, <2>1, <2>3 DEF Rest
<1>7. s \in Seq(rows) /\ Len(s) = N /\ DOMAIN s = 1..N
  BY <1>1, <1>6
<1>8. Once(s)
  <2> HIDE DEF S, s, N
  <2>1. ASSUME NEW i \in 1..N, NEW n \in 0..N, i <= n PROVE s[i] \notin left[n]
    <3> DEFINE T == {m \in 0..N : i <= m => s[i] \notin left[m]}
    <3>1. 0 \in T
      BY <1>1
    <3>2. ASSUME NEW m \in 0..(N - 1), m \in T PROVE m + 1 \in T
      <4>1. m + 1 \in 1..N /\ left[m + 1] = left[m] \ {s[m + 1]}
        BY <1>1, <1>6
      <4>2. CASE i <= m
        BY <1>1, <3>2, <4>1, <4>2
      <4>3. CASE i = m + 1
        BY <1>1, <4>1, <4>3
      <4>4. QED
        BY <4>1, <4>2, <4>3
    <3> HIDE DEF T
    <3>3. n \in T
      BY <1>1, <3>1, <3>2, InductionTo
    <3>4. QED
      BY <2>1, <3>3 DEF T
  <2>2. ASSUME NEW i \in 1..N, NEW j \in 1..N, i < j PROVE s[i] # s[j]
    <3>1. j - 1 \in 0..N /\ i <= j - 1
      BY <1>1, <2>2
    <3>2. s[i] \notin left[j - 1] /\ s[j] \in left[j - 1]
      BY <1>6, <2>1, <3>1
    <3>3. QED
      BY <3>2
  <2>3. QED
    BY <1>1, <1>7, <2>2 DEF Once
<1> HIDE DEF s, S
<1>9. Range(s) \subseteq rows
  BY <1>6, <1>7 DEF Range
<1>10. IsFiniteSet(Range(s)) /\ Cardinality(Range(s)) = N
  BY <1>7, <1>8, OnceCounts
<1>11. Range(s) = rows
  BY <1>9, <1>10, FS_Subset
<1>12. QED
  BY <1>3, <1>7, <1>8, <1>11

AllTables == Range(ExportTables)

LEMMA FourteenTables ==
  /\ DOMAIN ExportTables = 1..14 /\ ExportTables \in Seq(AllTables)
  /\ AllTables =
       {"schema_migrations", "config_kv", "spaces", "silos", "source_episodes", "memories",
        "memory_versions", "memory_representations", "memory_events", "memory_links",
        "conflicts", "entities", "relationships", "embeddings"}
<1>1. /\ DOMAIN ExportTables = 1..14
      /\ AllTables =
           {"schema_migrations", "config_kv", "spaces", "silos", "source_episodes", "memories",
            "memory_versions", "memory_representations", "memory_events", "memory_links",
            "conflicts", "entities", "relationships", "embeddings"}
  BY DEF AllTables, Range, ExportTables
<1>2. ExportTables \in Seq(AllTables)
  BY <1>1 DEF ExportTables
<1>3. QED
  BY <1>1, <1>2

\* A table is at its place in the file.
LEMMA PlaceIs ==
  /\ Place["schema_migrations"] = 1 /\ Place["config_kv"] = 2 /\ Place["spaces"] = 3
  /\ Place["silos"] = 4 /\ Place["source_episodes"] = 5 /\ Place["memories"] = 6
  /\ Place["memory_versions"] = 7 /\ Place["memory_representations"] = 8
  /\ Place["memory_events"] = 9 /\ Place["memory_links"] = 10 /\ Place["conflicts"] = 11
  /\ Place["entities"] = 12 /\ Place["relationships"] = 13 /\ Place["embeddings"] = 14
<1>1. \A t \in AllTables : Place[t] \in 1..14 /\ ExportTables[Place[t]] = t
  <2> TAKE t \in AllTables
  <2>1. \E k \in DOMAIN ExportTables : ExportTables[k] = t
    BY DEF AllTables, Range
  <2>2. Place[t] = CHOOSE k \in DOMAIN ExportTables : ExportTables[k] = t
    BY DEF Place, AllTables
  <2>3. QED
    BY <2>1, <2>2, FourteenTables
<1>2. \A k \in 1..14 : 
        /\ ExportTables[k] = "schema_migrations" => k = 1
        /\ ExportTables[k] = "config_kv" => k = 2
        /\ ExportTables[k] = "spaces" => k = 3
        /\ ExportTables[k] = "silos" => k = 4
        /\ ExportTables[k] = "source_episodes" => k = 5
        /\ ExportTables[k] = "memories" => k = 6
        /\ ExportTables[k] = "memory_versions" => k = 7
        /\ ExportTables[k] = "memory_representations" => k = 8
        /\ ExportTables[k] = "memory_events" => k = 9
        /\ ExportTables[k] = "memory_links" => k = 10
        /\ ExportTables[k] = "conflicts" => k = 11
        /\ ExportTables[k] = "entities" => k = 12
        /\ ExportTables[k] = "relationships" => k = 13
        /\ ExportTables[k] = "embeddings" => k = 14
  BY DEF ExportTables
<1>3. QED
  BY <1>1, <1>2, FourteenTables

LEMMA PlacesOf ==
  ASSUME NEW S, NEW s \in Seq(S)
  PROVE  DOMAIN s = 1..Len(s)
OBVIOUS

\* A file names its tables in the order of all.
LEMMA TablesInOrder ==
  ASSUME NEW schema \in {5, 6}
  PROVE  /\ TablesOf(schema) \in Seq(AllTables) /\ DOMAIN TablesOf(schema) = 1..Len(TablesOf(schema))
         /\ \A j, k \in DOMAIN TablesOf(schema) :
              j < k => Place[TablesOf(schema)[j]] < Place[TablesOf(schema)[k]]
         /\ Range(TablesOf(schema)) =
              IF schema = 5 THEN AllTables \ {"memory_representations"} ELSE AllTables
<1>1. /\ ExportTables \in Seq(AllTables) /\ DOMAIN ExportTables = 1..14
      /\ \A k \in 1..14 : ExportTables[k] \in AllTables
  BY FourteenTables DEF AllTables, Range
<1>2. \A k \in 1..14 : Place[ExportTables[k]] = k
  BY PlaceIs DEF ExportTables
<1>3. CASE schema = 6
  <2>1. TablesOf(schema) = ExportTables
    BY <1>3 DEF TablesOf
  <2>2. Range(ExportTables) = AllTables
    BY DEF AllTables
  <2>3. \A j, k \in 1..14 : j < k => Place[ExportTables[j]] < Place[ExportTables[k]]
    BY ONLY <1>2
  <2>4. ExportTables \in Seq(AllTables) /\ DOMAIN ExportTables = 1..14
    BY <1>1
  <2>5. DOMAIN ExportTables = 1..Len(ExportTables)
    BY <2>4, PlacesOf
  <2>6. \A j, k \in DOMAIN ExportTables : j < k => Place[ExportTables[j]] < Place[ExportTables[k]]
    BY <2>3, <2>4
  <2>7. schema # 5
    BY <1>3
  <2>8. QED
    BY ONLY <2>1, <2>2, <2>4, <2>5, <2>6, <2>7, Zenon
<1>4. CASE schema = 5
  <2> DEFINE P == {k \in DOMAIN ExportTables : ExportTables[k] # "memory_representations"}
             T == EntriesAt(ExportTables, P)
  <2>1. TablesOf(schema) = T
    BY <1>4 DEF TablesOf
  <2>2. P \subseteq DOMAIN ExportTables
    OBVIOUS
  <2> HIDE DEF T
  <2>3. T \in Seq(AllTables) /\ \E p : Lists(p, P, Ascending(P)) /\ Picked(T, ExportTables, p)
    <3> HIDE DEF P
    <3>1. QED
      BY <1>1, <2>2, EntriesAtIs DEF T
  <2>4. PICK p : Lists(p, P, Ascending(P)) /\ Picked(T, ExportTables, p)
    BY <2>3
  <2>5. /\ p \in Seq(P) /\ Len(T) = Len(p) /\ \A i \in 1..Len(p) : T[i] = ExportTables[p[i]]
        /\ \A x \in P : \E i \in DOMAIN p : p[i] = x
        /\ \A i, j \in DOMAIN p : i < j => p[i] < p[j]
    BY <2>4 DEF Lists, Picked, Ascending
  <2>6. DOMAIN T = 1..Len(T) /\ DOMAIN p = DOMAIN T /\ \A i \in DOMAIN p : p[i] \in P
    BY <2>3, <2>5
  <2>7. \A j, k \in DOMAIN T : j < k => Place[T[j]] < Place[T[k]]
    <3> TAKE j, k \in DOMAIN T
    <3>1. HAVE j < k
    <3>2. p[j] < p[k] /\ p[j] \in 1..14 /\ p[k] \in 1..14
      BY <1>1, <2>5, <2>6, <3>1
    <3>3. T[j] = ExportTables[p[j]] /\ T[k] = ExportTables[p[k]]
      BY <2>5, <2>6
    <3>4. QED
      BY <1>2, <3>2, <3>3
  <2>8. Range(T) = AllTables \ {"memory_representations"}
    <3>1. \A i \in DOMAIN T : T[i] \in AllTables /\ T[i] # "memory_representations"
      BY <1>1, <2>5, <2>6
    <3>2. ASSUME NEW t \in AllTables, t # "memory_representations" PROVE \E i \in DOMAIN T : T[i] = t
      <4>1. PICK k \in 1..14 : ExportTables[k] = t
        BY <1>1 DEF AllTables, Range
      <4>2. k \in P
        BY <1>1, <3>2, <4>1
      <4>3. PICK i \in DOMAIN p : p[i] = k
        BY <2>5, <4>2
      <4>4. QED
        BY <2>5, <2>6, <4>1, <4>3
    <3>3. QED
      BY <3>1, <3>2 DEF Range
  <2>9. QED
    BY <1>4, <2>1, <2>3, <2>6, <2>7, <2>8
<1>5. QED
  BY <1>3, <1>4

LEMMA PlaceNat == \A t \in AllTables : Place[t] \in 1..14
BY FourteenTables, PlaceIs

LEMMA PlacesCount == \A t \in AllTables : Place[t] \in Nat
<1>1. 1..14 \subseteq Nat
  OBVIOUS
<1>2. QED
  BY <1>1, PlaceNat

RowRecord(t, row) == [type |-> "row", table |-> t, data |-> row]
RowRecords(rows) == UNION {{RowRecord(t, row) : row \in rows[t]} : t \in AllTables}

Header(schema) ==
  [type |-> "header", protocol |-> "ours", schema |-> schema, tables |-> TablesOf(schema)]
Footer(total, rows, schema) ==
  [type |-> "footer", total |-> total,
   counts |-> [t \in Range(TablesOf(schema)) |-> Cardinality(rows[t])]]

FiniteTables(rows) == \A t \in AllTables : IsFiniteSet(rows[t])

\* s is the records of a table.
Records(s, t, rows) ==
  /\ s \in Seq({RowRecord(t, row) : row \in rows}) /\ Once(s)
  /\ \A row \in rows : \E k \in DOMAIN s : s[k] = RowRecord(t, row)

LEMMA ListedIs ==
  ASSUME NEW t, NEW rows, IsFiniteSet(rows)
  PROVE  Records(Listed(t, rows), t, rows)
<1> DEFINE s == InOrder(rows)
           l == [n \in DOMAIN s |-> RowRecord(t, s[n])]
<1>1. s \in Seq(rows) /\ Once(s) /\ Range(s) = rows
  BY InOrderIs
<1>2. Listed(t, rows) = SubSeq(l, 1, Len(s))
  BY Zenon DEF Listed, Each, RowRecord
<1> HIDE DEF s
<1>3. DOMAIN l = 1..Len(s) /\ Len(s) \in Nat /\ l = [n \in 1..Len(s) |-> l[n]]
  BY <1>1
<1>4. Listed(t, rows) = l
  <2> HIDE DEF l
  <2>1. QED
    BY <1>2, <1>3, EachIs
<1>5. \A n \in 1..Len(s) : l[n] = RowRecord(t, s[n]) /\ s[n] \in rows
  BY <1>1
<1>6. \A x, y : RowRecord(t, x) = RowRecord(t, y) => x = y
  BY DEF RowRecord
<1> HIDE DEF l
<1>7. l \in Seq({RowRecord(t, row) : row \in rows})
  BY <1>3, <1>5
<1>8. Once(l)
  BY <1>1, <1>3, <1>5, <1>6 DEF Once
<1>9. \A row \in rows : \E k \in DOMAIN l : l[k] = RowRecord(t, row)
  BY <1>1, <1>3, <1>5 DEF Range
<1>10. QED
  BY <1>4, <1>7, <1>8, <1>9 DEF Records

\* b is the rows of the tables of T, table after table.
IsBody(b, rows, T) ==
  /\ b \in Seq(RowRecords(rows)) /\ Once(b)
  /\ \A k \in DOMAIN b : \E n \in DOMAIN T : b[k].table = T[n]
  /\ \A j, k \in DOMAIN b : j < k => Place[b[j].table] <= Place[b[k].table]
  /\ \A n \in DOMAIN T : \A row \in rows[T[n]] : \E k \in DOMAIN b : b[k] = RowRecord(T[n], row)

Body(rows, T) == EachIn(LAMBDA t : Listed(t, rows[t]), T)

LEMMA RecordIs ==
  ASSUME NEW rows, NEW record \in RowRecords(rows)
  PROVE  /\ record.table \in AllTables /\ record.data \in rows[record.table]
         /\ record = RowRecord(record.table, record.data) /\ record.type = "row"
<1>1. PICK t \in AllTables : record \in {RowRecord(t, row) : row \in rows[t]}
  BY DEF RowRecords
<1>2. PICK row \in rows[t] : record = RowRecord(t, row)
  BY <1>1
<1>3. QED
  BY <1>1, <1>2 DEF RowRecord

LEMMA BodyIs ==
  ASSUME NEW rows, FiniteTables(rows), NEW T \in Seq(AllTables),
         \A j, k \in DOMAIN T : j < k => Place[T[j]] < Place[T[k]]
  PROVE  IsBody(Body(rows, T), rows, T)
<1> DEFINE S == RowRecords(rows)
           f == [t \in AllTables |-> Listed(t, rows[t])]
           lists == [n \in 1..Len(T) |-> Listed(T[n], rows[T[n]])]
           N == Len(T)
<1>1. N \in Nat /\ DOMAIN T = 1..N /\ \A n \in 1..N : T[n] \in AllTables
  OBVIOUS
<1>2. \A t \in AllTables : Records(Listed(t, rows[t]), t, rows[t])
  BY ListedIs DEF FiniteTables
<1>3. \A t \in AllTables : Listed(t, rows[t]) \in Seq(S)
  <2> TAKE t \in AllTables
  <2>1. {RowRecord(t, row) : row \in rows[t]} \subseteq S
    BY DEF RowRecords
  <2>2. QED
    BY <1>2, <2>1, SeqOver DEF Records
<1>4. f \in [AllTables -> Seq(S)]
  BY <1>3
<1>5. Body(rows, T) = FlattenSeq(lists)
  <2>1. Body(rows, T)
          = FlattenSeq(SubSeq([n \in DOMAIN T |-> Listed(T[n], rows[T[n]])], 1, N))
    BY Zenon DEF Body, EachIn, Each
  <2>2. [n \in DOMAIN T |-> Listed(T[n], rows[T[n]])] = lists
    BY <1>1
  <2>3. DOMAIN lists = 1..N /\ lists = [n \in 1..N |-> lists[n]]
    OBVIOUS
  <2> HIDE DEF lists, N
  <2>4. SubSeq(lists, 1, N) = lists
    BY <1>1, <2>3, EachIs
  <2>5. QED
    BY <2>1, <2>2, <2>4
<1>6. lists \in Seq(Seq(S))
  BY <1>1, <1>3
<1>7. Makes(lists, f, T)
  BY <1>1, <1>6 DEF Makes
<1>8. PICK g : Flattens(f, T, S, g) /\ FlattenSeq(lists) = g[N]
  <2> HIDE DEF f, lists, S
  <2>1. QED
    BY <1>4, <1>6, <1>7, Flattened
<1>9. /\ \A i \in 0..N : g[i] \in Seq(S)
      /\ g[0] = <<>> /\ \A i \in 1..N : g[i] = g[i - 1] \o Listed(T[i], rows[T[i]])
  BY <1>1, <1>8 DEF Flattens
<1>10. Once(g[N])
  <2> DEFINE o == [record \in S |-> record.table]
  <2>1. Once(T)
    <3>1. \A t \in AllTables : Place[t] \in Nat
      BY PlaceNat
    <3>2. \A i, j \in 1..N : i < j \/ j < i \/ i = j
      BY <1>1
    <3>3. \A i, j \in 1..N : i < j => T[i] # T[j]
      BY <1>1, <3>1
    <3>4. QED
      BY <1>1, <3>2, <3>3 DEF Once
  <2>2. ASSUME NEW t \in AllTables
        PROVE  Once(f[t]) /\ \A j \in DOMAIN f[t] : o[f[t][j]] = t
    <3> DEFINE s == Listed(t, rows[t])
    <3>1. f[t] = s /\ Records(s, t, rows[t]) /\ s \in Seq(S)
      BY <1>2, <1>3
    <3> HIDE DEF s, f, S
    <3>2. \A j \in DOMAIN s : s[j] \in S /\ \E row \in rows[t] : s[j] = RowRecord(t, row)
      BY <3>1 DEF Records
    <3>3. \A j \in DOMAIN s : o[s[j]] = t
      BY <3>2 DEF RowRecord
    <3> HIDE DEF o
    <3>4. QED
      BY <3>1, <3>3 DEF Records
  <2> HIDE DEF f, o, S
  <2>3. QED
    BY <1>4, <1>8, <2>1, <2>2, FlatOnce
<1> DEFINE Upto(i) ==
             /\ \A k \in DOMAIN g[i] : \E n \in 1..i : g[i][k].table = T[n]
             /\ \A j, k \in DOMAIN g[i] :
                  j < k => Place[g[i][j].table] <= Place[g[i][k].table]
             /\ \A n \in 1..i : \A row \in rows[T[n]] :
                  \E k \in DOMAIN g[i] : g[i][k] = RowRecord(T[n], row)
           Good == {i \in 0..N : Upto(i)}
<1>11. 0 \in Good
  BY <1>1, <1>9
<1>12. ASSUME NEW i \in 0..(N - 1), i \in Good PROVE i + 1 \in Good
  <2> DEFINE a == g[i]
             t == T[i + 1]
             l == Listed(t, rows[t])
  <2>0. g[i + 1] = g[i] \o Listed(T[i + 1], rows[T[i + 1]])
    <3> DEFINE m == i + 1
    <3>1. m \in 1..N /\ m - 1 = i
      BY <1>1
    <3> HIDE DEF m, N, S
    <3>2. g[m] = g[m - 1] \o Listed(T[m], rows[T[m]])
      BY <1>9, <3>1
    <3>3. g[m] = g[i] \o Listed(T[m], rows[T[m]])
      BY <3>1, <3>2
    <3>4. QED
      BY <3>3 DEF m
  <2>1. i + 1 \in 1..N /\ i \in 0..N /\ t \in AllTables
    BY <1>1
  <2>2. a \in Seq(S) /\ l \in Seq(S) /\ Records(l, t, rows[t]) /\ g[i + 1] = a \o l
    <3> HIDE DEF t, l, S
    <3>1. a \in Seq(S)
      BY <1>9, <2>1
    <3>2. g[i + 1] = a \o l
      BY <2>0 DEF l, t, a
    <3>3. l \in Seq(S) /\ Records(l, t, rows[t])
      BY <1>2, <1>3, <2>1 DEF l
    <3>4. QED
      BY <3>1, <3>2, <3>3
  <2> HIDE DEF l, t, a
  <2>3. /\ \A k \in DOMAIN a : \E n \in 1..i : a[k].table = T[n]
        /\ \A j, k \in DOMAIN a : j < k => Place[a[j].table] <= Place[a[k].table]
        /\ \A n \in 1..i : \A row \in rows[T[n]] : \E k \in DOMAIN a : a[k] = RowRecord(T[n], row)
    BY <1>12 DEF a
  <2>4. \A k \in DOMAIN l : l[k].table = t
    BY <2>2 DEF Records, RowRecord
  <2> DEFINE b == a \o l
  <2>5. /\ Len(a) \in Nat /\ Len(l) \in Nat
        /\ DOMAIN a = 1..Len(a) /\ DOMAIN l = 1..Len(l) /\ DOMAIN b = 1..(Len(a) + Len(l))
        /\ \A k \in 1..Len(a) : b[k] = a[k]
        /\ \A k \in 1..Len(l) : b[Len(a) + k] = l[k]
        /\ \A k \in 1..(Len(a) + Len(l)) : k \in 1..Len(a) \/ k - Len(a) \in 1..Len(l)
    BY <2>2, Appended
  <2> HIDE DEF b
  <2>6. \A k \in 1..(Len(a) + Len(l)) :
          \/ k \in 1..Len(a) /\ b[k] = a[k]
          \/ k - Len(a) \in 1..Len(l) /\ b[k].table = t /\ b[k] = l[k - Len(a)]
    <3> TAKE k \in 1..(Len(a) + Len(l))
    <3>1. CASE k - Len(a) \in 1..Len(l)
      <4>1. b[k] = l[k - Len(a)]
        BY <2>5, <3>1
      <4>2. QED
        BY <2>4, <2>5, <3>1, <4>1
    <3>2. QED
      BY <2>5, <3>1
  <2>7. \A n \in 1..i : Place[T[n]] < Place[t] /\ Place[T[n]] \in Nat /\ Place[t] \in Nat
    <3> TAKE n \in 1..i
    <3>1. n \in DOMAIN T /\ i + 1 \in DOMAIN T /\ n < i + 1 /\ T[n] \in AllTables
      BY <1>1, <2>1
    <3>2. Place[T[n]] < Place[T[i + 1]]
      BY <3>1
    <3>3. Place[T[n]] \in Nat /\ Place[t] \in Nat
      <4>1. \A u \in AllTables : Place[u] \in Nat
        BY PlacesCount
      <4>2. QED
        BY <2>1, <3>1, <4>1
    <3>4. QED
      BY <3>2, <3>3 DEF t
  <2>8. \A k \in DOMAIN b : \E n \in 1..(i + 1) : b[k].table = T[n]
    <3> TAKE k \in DOMAIN b
    <3>1. k \in 1..(Len(a) + Len(l))
      BY <2>5
    <3>2. CASE k \in 1..Len(a) /\ b[k] = a[k]
      BY <2>1, <2>3, <3>2
    <3>3. CASE b[k].table = t
      BY <2>1, <3>3 DEF t
    <3>4. QED
      BY <2>6, <3>1, <3>2, <3>3
  <2>9. ASSUME NEW j \in DOMAIN b, NEW k \in DOMAIN b, j < k
        PROVE  Place[b[j].table] <= Place[b[k].table]
    <3>1. CASE k \in 1..Len(a)
      <4>1. j \in 1..Len(a)
        BY <2>5, <2>9, <3>1
      <4>2. QED
        BY <2>3, <2>5, <2>9, <3>1, <4>1
    <3>2. CASE k \notin 1..Len(a) /\ j \in 1..Len(a)
      <4>1. b[k].table = t /\ b[j] = a[j]
        BY <2>5, <2>6, <3>2
      <4>2. PICK n \in 1..i : a[j].table = T[n]
        BY <2>3, <2>5, <3>2
      <4>3. QED
        BY <2>7, <4>1, <4>2
    <3>3. CASE k \notin 1..Len(a) /\ j \notin 1..Len(a)
      <4>1. b[k].table = t /\ b[j].table = t
        BY <2>5, <2>6, <3>3
      <4>2. Place[t] \in Nat
        BY <2>1, PlacesCount
      <4>3. QED
        BY <4>1, <4>2
    <3>4. QED
      BY <3>1, <3>2, <3>3
  <2>10. ASSUME NEW n \in 1..(i + 1), NEW row \in rows[T[n]]
         PROVE  \E k \in DOMAIN b : b[k] = RowRecord(T[n], row)
    <3>1. CASE n \in 1..i
      <4>1. PICK k \in DOMAIN a : a[k] = RowRecord(T[n], row)
        BY <2>3, <3>1
      <4>2. k \in DOMAIN b /\ b[k] = a[k]
        BY <2>5
      <4>3. QED
        BY <4>1, <4>2
    <3>2. CASE n = i + 1
      <4>1. PICK k \in DOMAIN l : l[k] = RowRecord(t, row)
        BY <2>2, <3>2 DEF Records, t
      <4>2. Len(a) + k \in DOMAIN b /\ b[Len(a) + k] = l[k]
        BY <2>5
      <4>3. QED
        BY <3>2, <4>1, <4>2 DEF t
    <3>3. QED
      BY <2>1, <3>1, <3>2
  <2>11. g[i + 1] = b
    BY <2>2 DEF b
  <2>12. Upto(i + 1)
    BY <2>8, <2>9, <2>10, <2>11
  <2> HIDE DEF Upto
  <2>13. QED
    BY <2>1, <2>12
<1>13. N \in Good
  <2> HIDE DEF Good, N
  <2>1. \A i \in 0..N : i \in Good
    BY <1>1, <1>11, <1>12, InductionTo
  <2>2. QED
    BY <1>1, <2>1
<1>14. IsBody(g[N], rows, T)
  BY <1>1, <1>9, <1>10, <1>13 DEF IsBody
<1>15. QED
  BY <1>5, <1>8, <1>14

\* a is the file of the rows: a header, each row once, table after table, and a
\* footer that counts them.
IsFile(a, rows, schema) ==
  /\ Len(a) \in Nat /\ Len(a) >= 2 /\ DOMAIN a = 1..Len(a) /\ a \in Seq(Range(a))
  /\ a[1] = Header(schema) /\ a[Len(a)] = Footer(Len(a) - 2, rows, schema)
  /\ \A k \in 2..(Len(a) - 1) :
       /\ a[k].table \in Range(TablesOf(schema)) /\ a[k].data \in rows[a[k].table]
       /\ a[k] = RowRecord(a[k].table, a[k].data) /\ a[k].type = "row"
  /\ \A j, k \in 2..(Len(a) - 1) : j < k => Place[a[j].table] <= Place[a[k].table]
  /\ \A j, k \in 2..(Len(a) - 1) : a[j] = a[k] => j = k
  /\ \A t \in Range(TablesOf(schema)) : \A row \in rows[t] :
       \E k \in 2..(Len(a) - 1) : a[k] = RowRecord(t, row)

LEMMA OwnRange ==
  ASSUME NEW S, NEW s \in Seq(S)
  PROVE  s \in Seq(Range(s))
<1> DEFINE R == Range(s)
<1>1. Len(s) \in Nat /\ s = [k \in 1..Len(s) |-> s[k]] /\ \A k \in 1..Len(s) : s[k] \in R
  BY DEF Range
<1> HIDE DEF R
<1>2. s \in Seq(R)
  BY <1>1
<1>3. QED
  BY <1>2 DEF R

LEMMA OneMore ==
  ASSUME NEW T, NEW c \in Seq(T), NEW y \in T, NEW n \in Nat, Len(c) = n + 1
  PROVE  /\ c \o <<y>> \in Seq(T) /\ Len(c \o <<y>>) = n + 2
         /\ DOMAIN (c \o <<y>>) = 1..(n + 2) /\ (c \o <<y>>)[n + 2] = y
         /\ \A k \in 1..(n + 1) : (c \o <<y>>)[k] = c[k]
<1>1. c \o <<y>> = Append(c, y)
  OBVIOUS
<1>2. QED
  BY <1>1

\* a is the list b between two single entries.
Frames(a, x, b, y) ==
  /\ Len(a) = Len(b) + 2 /\ DOMAIN a = 1..Len(a) /\ a \in Seq(Range(a))
  /\ a[1] = x /\ a[Len(a)] = y
  /\ \A k \in 2..(Len(a) - 1) : k - 1 \in DOMAIN b /\ a[k] = b[k - 1]
  /\ \A k \in DOMAIN b : k + 1 \in 2..(Len(a) - 1) /\ a[k + 1] = b[k]

LEMMA Framed ==
  ASSUME NEW S, NEW b \in Seq(S), NEW x, NEW y, NEW a, a = <<x>> \o b \o <<y>>
  PROVE  Frames(a, x, b, y)
<1> DEFINE T == S \cup {x, y}
           c == <<x>> \o b
           n == Len(b)
<1>1. b \in Seq(T) /\ <<x>> \in Seq(T) /\ <<y>> \in Seq(T)
  <2>1. b \in Seq(T)
    BY SeqOver
  <2>2. QED
    BY <2>1
<1> HIDE DEF T
<1>2. /\ c \in Seq(T) /\ Len(c) = n + 1 /\ n \in Nat /\ DOMAIN b = 1..n
      /\ c[1] = x /\ \A k \in 1..n : c[k + 1] = b[k]
  BY <1>1
<1> HIDE DEF c, n
<1>3. a = c \o <<y>>
  BY DEF c
<1>4. /\ a \in Seq(T) /\ Len(a) = n + 2 /\ DOMAIN a = 1..(n + 2)
      /\ a[n + 2] = y /\ \A k \in 1..(n + 1) : a[k] = c[k]
  <2>1. y \in T
    BY <1>1
  <2>2. QED
    <3>1. /\ c \o <<y>> \in Seq(T) /\ Len(c \o <<y>>) = n + 2
          /\ DOMAIN (c \o <<y>>) = 1..(n + 2) /\ (c \o <<y>>)[n + 2] = y
          /\ \A k \in 1..(n + 1) : (c \o <<y>>)[k] = c[k]
      <4>1. n \in Nat /\ c \in Seq(T) /\ Len(c) = n + 1
        BY <1>2
      <4>2. QED
        BY <4>1, <2>1, OneMore
    <3>2. QED
      BY <1>3, <3>1, Zenon
<1>5. a \in Seq(Range(a))
  BY <1>4, OwnRange
<1>6. ASSUME NEW k \in 2..(n + 1) PROVE k - 1 \in 1..n /\ a[k] = b[k - 1]
  <2>1. k - 1 \in 1..n /\ k \in 1..(n + 1) /\ (k - 1) + 1 = k
    BY <1>2
  <2>2. QED
    BY <1>2, <1>4, <2>1
<1>7. ASSUME NEW k \in 1..n PROVE k + 1 \in 2..(n + 1) /\ a[k + 1] = b[k]
  BY <1>2, <1>4
<1>8. Len(a) - 1 = n + 1 /\ 1 \in 1..(n + 1)
  BY <1>2, <1>4
<1>9. QED
  BY <1>2, <1>4, <1>5, <1>6, <1>7, <1>8 DEF n, Frames

LEMMA FileIs ==
  ASSUME NEW rows, FiniteTables(rows), NEW schema \in {5, 6}
  PROVE  IsFile(ArchiveOf(rows, schema), rows, schema)
<1> DEFINE T == TablesOf(schema)
           b == Body(rows, T)
           a == ArchiveOf(rows, schema)
<1>1. T \in Seq(AllTables) /\ DOMAIN T = 1..Len(T)
      /\ \A j, k \in DOMAIN T : j < k => Place[T[j]] < Place[T[k]]
  BY TablesInOrder
<1>2. IsBody(b, rows, T)
  <2> HIDE DEF T
  <2>1. QED
    BY <1>1, BodyIs
<1>3. a = <<Header(schema)>> \o b \o <<Footer(Len(b), rows, schema)>>
  BY Zenon DEF ArchiveOf, Body, Header, Footer
<1> HIDE DEF a, b
<1>4. /\ b \in Seq(RowRecords(rows)) /\ DOMAIN b = 1..Len(b) /\ Len(b) \in Nat
      /\ \A k \in DOMAIN b : b[k] \in RowRecords(rows)
  <2> DEFINE R == RowRecords(rows)
  <2>1. b \in Seq(R)
    BY <1>2 DEF IsBody
  <2> HIDE DEF R
  <2>2. DOMAIN b = 1..Len(b) /\ Len(b) \in Nat /\ \A k \in DOMAIN b : b[k] \in R
    BY <2>1
  <2>3. QED
    BY <2>1, <2>2 DEF R
<1>5. /\ Len(a) = Len(b) + 2 /\ DOMAIN a = 1..Len(a) /\ a \in Seq(Range(a))
      /\ a[1] = Header(schema) /\ a[Len(a)] = Footer(Len(b), rows, schema)
      /\ \A k \in 2..(Len(a) - 1) : k - 1 \in DOMAIN b /\ a[k] = b[k - 1]
      /\ \A k \in DOMAIN b : k + 1 \in 2..(Len(a) - 1) /\ a[k + 1] = b[k]
  <2> DEFINE R == RowRecords(rows)
             x == Header(schema)
             y == Footer(Len(b), rows, schema)
  <2>1. b \in Seq(R) /\ a = <<x>> \o b \o <<y>>
    BY <1>3, <1>4
  <2> HIDE DEF R, x, y
  <2>2. Frames(a, x, b, y)
    BY <2>1, Framed
  <2>3. QED
    BY <2>2 DEF Frames, x, y
<1>6. ASSUME NEW k \in 2..(Len(a) - 1)
      PROVE  /\ a[k].table \in Range(T) /\ a[k].data \in rows[a[k].table]
             /\ a[k] = RowRecord(a[k].table, a[k].data) /\ a[k].type = "row"
  <2>1. k - 1 \in DOMAIN b /\ a[k] = b[k - 1] /\ a[k] \in RowRecords(rows)
    BY <1>4, <1>5
  <2>2. a[k].table \in Range(T)
    BY <1>2, <2>1 DEF IsBody, Range
  <2>3. QED
    BY <2>1, <2>2, RecordIs
<1>7. ASSUME NEW j \in 2..(Len(a) - 1), NEW k \in 2..(Len(a) - 1)
      PROVE  /\ j < k => Place[a[j].table] <= Place[a[k].table]
             /\ a[j] = a[k] => j = k
  <2>1. /\ j - 1 \in DOMAIN b /\ a[j] = b[j - 1] /\ k - 1 \in DOMAIN b /\ a[k] = b[k - 1]
    BY <1>5
  <2>2. j < k => j - 1 < k - 1
    BY <1>4, <1>5
  <2>3. j < k => Place[a[j].table] <= Place[a[k].table]
    BY <1>2, <2>1, <2>2 DEF IsBody
  <2>4. a[j] = a[k] => j - 1 = k - 1
    BY <1>2, <2>1 DEF IsBody, Once
  <2>5. QED
    BY <1>4, <1>5, <2>3, <2>4
<1>8. ASSUME NEW t \in Range(T), NEW row \in rows[t]
      PROVE  \E k \in 2..(Len(a) - 1) : a[k] = RowRecord(t, row)
  <2>1. PICK n \in DOMAIN T : T[n] = t
    BY DEF Range
  <2>2. PICK k \in DOMAIN b : b[k] = RowRecord(t, row)
    BY <1>2, <2>1 DEF IsBody
  <2>3. QED
    BY <1>5, <2>2
<1>9. Len(a) \in Nat /\ Len(a) >= 2 /\ Len(a) - 2 = Len(b)
  BY <1>4, <1>5
<1>10. IsFile(a, rows, schema)
  BY <1>5, <1>6, <1>7, <1>8, <1>9 DEF IsFile
<1>11. QED
  BY <1>10 DEF a

-----------------------------------------------------------------------------
(* The archive: reading a file *)

\* g is what the parser knows after each of the first n records.
Reads(s, n, g) == g = [i \in 0..n |-> IF i = 0 THEN Start ELSE Accept(g[i - 1], s[i])]

LEMMA ReadsExists ==
  ASSUME NEW s, NEW n \in Nat
  PROVE  \E g : Reads(s, n, g)
<1> DEFINE S == {k \in Nat : \E g : Reads(s, k, g)}
           More(k, g) == Accept(g[k - 1], s[k])
<1>1. 0 \in S
  <2> DEFINE g == [i \in 0..0 |-> Start]
  <2>1. Reads(s, 0, g)
    BY DEF Reads
  <2>2. QED
    BY <2>1
<1>2. \A k \in 0..(n - 1) : k \in S => k + 1 \in S
  <2> TAKE k \in 0..(n - 1)
  <2>1. HAVE k \in S
  <2>2. PICK g : Reads(s, k, g)
    BY <2>1
  <2> DEFINE h == [i \in 0..(k + 1) |-> IF i = k + 1 THEN More(k + 1, g) ELSE g[i]]
  <2>3. \A i \in 0..k : g[i] = IF i = 0 THEN Start ELSE More(i, g)
    BY <2>2 DEF Reads
  <2>4. \A i \in 0..(k + 1) : h[i] = IF i = 0 THEN Start ELSE More(i, h)
    BY <2>3
  <2>5. Reads(s, k + 1, h)
    BY <2>4 DEF Reads
  <2>6. QED
    BY <2>5
<1>3. n \in S
  <2> HIDE DEF S
  <2>1. \A i \in 0..n : i \in S
    BY <1>1, <1>2, InductionTo
  <2>2. QED
    BY <2>1
<1>4. QED
  BY <1>3

LEMMA ParsedIs ==
  ASSUME NEW s, Len(s) \in Nat
  PROVE  \E g : Reads(s, Len(s), g) /\ Parsed(s) = g[Len(s)]
<1> DEFINE g == CHOOSE f : Reads(s, Len(s), f)
<1>1. Reads(s, Len(s), g)
  BY ReadsExists
<1>2. Parsed(s) = g[Len(s)]
  BY Zenon DEF Parsed, Reads
<1> HIDE DEF g
<1>3. QED
  BY <1>1, <1>2

Types == {"header", "row", "footer"}
ParserFields == {"ok", "header", "footer", "schema", "tables", "table", "total", "rows"}

\* The parser takes a record: what the guards said, and what it knows then.
Took(p, record, q) ==
  /\ p.ok /\ q.ok
  /\ \/ /\ record.type = "header" /\ HeaderFits(p, record)
        /\ q.header /\ (q.footer <=> p.footer)
        /\ q.schema = record.schema /\ q.tables = Range(record.tables)
        /\ q.table = p.table /\ q.total = p.total /\ q.rows = p.rows
     \/ /\ record.type = "row" /\ RowFits(p, record)
        /\ (q.header <=> p.header) /\ (q.footer <=> p.footer)
        /\ q.schema = p.schema /\ q.tables = p.tables
        /\ q.table = Place[record.table] /\ q.total = p.total + 1
        /\ q.rows = Inserted(p.rows, record)
     \/ /\ record.type = "footer" /\ FooterFits(p, record)
        /\ (q.header <=> p.header) /\ q.footer
        /\ q.schema = p.schema /\ q.tables = p.tables
        /\ q.table = p.table /\ q.total = p.total /\ q.rows = p.rows

Guarded(p, record) ==
  \/ record.type = "header" /\ HeaderFits(p, record)
  \/ record.type = "row" /\ RowFits(p, record)
  \/ record.type = "footer" /\ FooterFits(p, record)

LEMMA AcceptIs ==
  ASSUME NEW p, DOMAIN p = ParserFields, NEW record, record.type \in Types
  PROVE  /\ DOMAIN Accept(p, record) = ParserFields
         /\ ~p.ok => ~Accept(p, record).ok
         /\ p.ok /\ ~Guarded(p, record) => ~Accept(p, record).ok
         /\ p.ok /\ Guarded(p, record) => Took(p, record, Accept(p, record))
<1> DEFINE q == Accept(p, record)
<1>1. CASE ~p.ok
  <2>1. q = p
    BY <1>1 DEF Accept
  <2>2. QED
    BY <1>1, <2>1
<1>2. ASSUME p.ok, q = Failed(p)
      PROVE  DOMAIN q = ParserFields /\ ~q.ok
  <2> HIDE DEF q
  <2>1. QED
    BY <1>2 DEF Failed, ParserFields
<1>3. CASE p.ok /\ record.type = "header"
  <2>1. q = AcceptHeader(p, record)
    BY <1>3 DEF Accept
  <2>2. CASE ~HeaderFits(p, record)
    <3>1. q = Failed(p) /\ ~Guarded(p, record)
      BY <1>3, <2>1, <2>2 DEF AcceptHeader, Guarded
    <3>2. QED
      BY <1>2, <1>3, <3>1
  <2>3. CASE HeaderFits(p, record)
    <3>1. q = [p EXCEPT !.header = TRUE, !.schema = record.schema,
                        !.tables = Range(record.tables)]
      BY <2>1, <2>3 DEF AcceptHeader
    <3> HIDE DEF q
    <3>2. /\ DOMAIN q = ParserFields
          /\ q.ok = p.ok /\ q.header = TRUE /\ q.footer = p.footer
          /\ q.schema = record.schema /\ q.tables = Range(record.tables)
          /\ q.table = p.table /\ q.total = p.total /\ q.rows = p.rows
      BY <3>1 DEF ParserFields
    <3>3. Took(p, record, q)
      BY <1>3, <2>3, <3>2 DEF Took
    <3>4. QED
      BY <1>3, <2>3, <3>2, <3>3 DEF q, Guarded
  <2>4. QED
    BY <2>2, <2>3
<1>4. CASE p.ok /\ record.type = "row"
  <2>1. q = AcceptRow(p, record)
    BY <1>4 DEF Accept
  <2>2. CASE ~RowFits(p, record)
    <3>1. q = Failed(p) /\ ~Guarded(p, record)
      BY <1>4, <2>1, <2>2 DEF AcceptRow, Guarded
    <3>2. QED
      BY <1>2, <1>4, <3>1
  <2>3. CASE RowFits(p, record)
    <3>1. q = [p EXCEPT !.table = Place[record.table], !.total = p.total + 1,
                        !.rows = Inserted(p.rows, record)]
      BY <2>1, <2>3 DEF AcceptRow
    <3> HIDE DEF q
    <3>2. /\ DOMAIN q = ParserFields
          /\ q.ok = p.ok /\ q.header = p.header /\ q.footer = p.footer
          /\ q.schema = p.schema /\ q.tables = p.tables
          /\ q.table = Place[record.table] /\ q.total = p.total + 1 /\ q.rows = Inserted(p.rows, record)
      BY <3>1 DEF ParserFields
    <3>3. Took(p, record, q)
      BY <1>4, <2>3, <3>2 DEF Took
    <3>4. QED
      BY <1>4, <2>3, <3>2, <3>3 DEF q, Guarded
  <2>4. QED
    BY <2>2, <2>3
<1>5. CASE p.ok /\ record.type = "footer"
  <2>1. q = AcceptFooter(p, record)
    BY <1>5 DEF Accept
  <2>2. CASE ~FooterFits(p, record)
    <3>1. q = Failed(p) /\ ~Guarded(p, record)
      BY <1>5, <2>1, <2>2 DEF AcceptFooter, Guarded
    <3>2. QED
      BY <1>2, <1>5, <3>1
  <2>3. CASE FooterFits(p, record)
    <3>1. q = [p EXCEPT !.footer = TRUE]
      BY <2>1, <2>3 DEF AcceptFooter
    <3> HIDE DEF q
    <3>2. /\ DOMAIN q = ParserFields
          /\ q.ok = p.ok /\ q.header = p.header /\ q.footer = TRUE
          /\ q.schema = p.schema /\ q.tables = p.tables
          /\ q.table = p.table /\ q.total = p.total /\ q.rows = p.rows
      BY <3>1 DEF ParserFields
    <3>3. Took(p, record, q)
      BY <1>5, <2>3, <3>2 DEF Took
    <3>4. QED
      BY <1>5, <2>3, <3>2, <3>3 DEF q, Guarded
  <2>4. QED
    BY <2>2, <2>3
<1>6. QED
  BY <1>1, <1>3, <1>4, <1>5 DEF Types

\* The rows of a table among the first n records.
Had(s, n, t) == {s[k].data : k \in {j \in 1..n : s[j].type = "row" /\ s[j].table = t}}

\* What the parser knows of the first n records when it took them all.
Read(s, n, p) ==
  /\ DOMAIN p = ParserFields /\ p.ok
  /\ p.rows = [t \in AllTables |-> Had(s, n, t)]
  /\ n = 0 => ~p.header /\ ~p.footer /\ p.total = 0 /\ p.table = 1
  /\ n >= 1 => /\ p.header /\ s[1].type = "header" /\ s[1].schema \in {5, 6}
               /\ p.schema = s[1].schema /\ p.tables = Range(TablesOf(s[1].schema))
  /\ \A k \in 2..n : s[k].type = "row" \/ (k = n /\ p.footer)
  /\ p.footer => n >= 2 /\ s[n].type = "footer" /\ p.total = n - 2 /\ s[n].total = n - 2
  /\ ~p.footer /\ n >= 1 =>
       p.total = n - 1 /\ p.table = IF n = 1 THEN 1 ELSE Place[s[n].table]
  /\ \A k \in 2..n : s[k].type = "row" =>
       /\ s[k].table \in p.tables /\ DOMAIN s[k].data = Columns[s[k].table]
       /\ \A j \in 2..n : /\ s[j].type = "row" /\ s[j].table = s[k].table
                          /\ s[j].data.id = s[k].data.id
                          => j = k

LEMMA HadNone ==
  ASSUME NEW s, NEW n \in Nat, s[n + 1].type # "row", NEW t
  PROVE  Had(s, n + 1, t) = Had(s, n, t)
<1>1. {j \in 1..(n + 1) : s[j].type = "row" /\ s[j].table = t}
        = {j \in 1..n : s[j].type = "row" /\ s[j].table = t}
  OBVIOUS
<1>2. QED
  BY <1>1 DEF Had

LEMMA HadOne ==
  ASSUME NEW s, NEW n \in Nat, s[n + 1].type = "row", NEW t
  PROVE  Had(s, n + 1, t) =
           IF t = s[n + 1].table THEN Had(s, n, t) \cup {s[n + 1].data} ELSE Had(s, n, t)
<1> DEFINE J(m) == {j \in 1..m : s[j].type = "row" /\ s[j].table = t}
<1>1. J(n + 1) = IF t = s[n + 1].table THEN J(n) \cup {n + 1} ELSE J(n)
  OBVIOUS
<1>2. Had(s, n + 1, t) = {s[k].data : k \in J(n + 1)} /\ Had(s, n, t) = {s[k].data : k \in J(n)}
  BY DEF Had
<1> HIDE DEF J
<1>3. QED
  BY <1>1, <1>2

LEMMA RowsRead ==
  ASSUME NEW s, NEW n \in Nat, n >= 1, NEW p, Read(s, n, p), ~p.footer
  PROVE  /\ p.total = n - 1
         /\ \A k \in 2..n : s[k].type = "row"
         /\ \A k \in 2..n : s[k].table \in p.tables /\ DOMAIN s[k].data = Columns[s[k].table]
         /\ \A k \in 2..n : \A j \in 2..n :
              s[j].table = s[k].table /\ s[j].data.id = s[k].data.id => j = k
<1>1. p.total = n - 1
  BY DEF Read
<1>2. \A k \in 2..n : s[k].type = "row"
  BY DEF Read
<1>3. \A k \in 2..n :
         /\ s[k].table \in p.tables /\ DOMAIN s[k].data = Columns[s[k].table]
         /\ \A j \in 2..n : /\ s[j].type = "row" /\ s[j].table = s[k].table
                            /\ s[j].data.id = s[k].data.id
                            => j = k
  BY <1>2, Zenon DEF Read
<1>4. QED
  BY <1>1, <1>2, <1>3

LEMMA StepRead ==
  ASSUME NEW s, NEW n \in Nat, NEW p, NEW q, DOMAIN q = ParserFields,
         Read(s, n, p), Took(p, s[n + 1], q)
  PROVE  Read(s, n + 1, q)
<1> DEFINE r == s[n + 1]
<1>0. p.ok /\ q.ok /\ p.rows = [t \in AllTables |-> Had(s, n, t)]
  BY DEF Read, Took
<1>1. CASE r.type = "header"
  <2>1. /\ HeaderFits(p, r) /\ q.header /\ (q.footer <=> p.footer)
        /\ q.schema = r.schema /\ q.tables = Range(r.tables)
        /\ q.table = p.table /\ q.total = p.total /\ q.rows = p.rows
    BY <1>1 DEF Took
  <2>2. /\ ~p.header /\ r.schema \in {5, 6} /\ r.tables = TablesOf(r.schema)
    BY <2>1 DEF HeaderFits
  <2>3. n = 0 /\ ~p.footer /\ p.total = 0 /\ p.table = 1
    BY <2>2 DEF Read
  <2>4. q.rows = [t \in AllTables |-> Had(s, n + 1, t)]
    BY <1>0, <1>1, <2>1, HadNone
  <2>5. QED
    BY <1>0, <1>1, <2>1, <2>2, <2>3, <2>4 DEF Read
<1>2. CASE r.type = "row"
  <2>1. /\ RowFits(p, r) /\ (q.header <=> p.header) /\ (q.footer <=> p.footer)
        /\ q.schema = p.schema /\ q.tables = p.tables
        /\ q.table = Place[r.table] /\ q.total = p.total + 1
        /\ q.rows = Inserted(p.rows, r)
    BY <1>2 DEF Took
  <2>2. /\ p.header /\ ~p.footer /\ r.table \in p.tables
        /\ DOMAIN r.data = Columns[r.table] /\ ~Has(p.rows, r.table, r.data.id)
    BY <2>1 DEF RowFits, Insertable
  <2>3. n >= 1 /\ s[1].type = "header" /\ s[1].schema \in {5, 6}
    BY <2>2 DEF Read
  <2>4. p.tables = Range(TablesOf(s[1].schema)) /\ p.schema = s[1].schema /\ r.table \in AllTables
    <3>1. p.tables = Range(TablesOf(s[1].schema)) /\ p.schema = s[1].schema
      BY <2>3 DEF Read
    <3>2. QED
      BY <2>2, <2>3, <3>1, TablesInOrder
  <2>5. q.rows = [t \in AllTables |-> Had(s, n + 1, t)]
    <3>1. \A t \in AllTables : Had(s, n + 1, t) =
            IF t = r.table THEN Had(s, n, t) \cup {r.data} ELSE Had(s, n, t)
      BY <1>2, HadOne
    <3>2. q.rows = [p.rows EXCEPT ![r.table] = p.rows[r.table] \cup {r.data}]
      BY <2>1 DEF Inserted
    <3>3. DOMAIN p.rows = AllTables /\ \A t \in AllTables : p.rows[t] = Had(s, n, t)
      BY <1>0
    <3>4. q.rows = [t \in AllTables |-> IF t = r.table THEN p.rows[r.table] \cup {r.data}
                                       ELSE p.rows[t]]
      BY <3>2, <3>3
    <3>5. \A t \in AllTables : q.rows[t] = Had(s, n + 1, t)
      BY <2>4, <3>1, <3>3, <3>4
    <3>6. QED
      BY <3>4, <3>5
  <2>6. \A j \in 2..n : s[j].type = "row" /\ s[j].table = r.table => s[j].data.id # r.data.id
    <3> TAKE j \in 2..n
    <3>1. HAVE s[j].type = "row" /\ s[j].table = r.table
    <3>2. s[j].data \in Had(s, n, r.table)
      BY <3>1 DEF Had
    <3>3. p.rows[r.table] = Had(s, n, r.table)
      BY <1>0, <2>4
    <3>4. QED
      BY <2>2, <3>2, <3>3 DEF Has
  <2>7. /\ \A k \in 2..n : s[k].type = "row"
        /\ p.total = n - 1
        /\ \A k \in 2..n : s[k].table \in p.tables /\ DOMAIN s[k].data = Columns[s[k].table]
        /\ \A k \in 2..n : \A j \in 2..n :
             s[j].table = s[k].table /\ s[j].data.id = s[k].data.id => j = k
    BY <2>2, <2>3, RowsRead
  <2>8. /\ \A k \in 2..(n + 1) : s[k].type = "row"
        /\ \A k \in 2..(n + 1) :
             s[k].table \in p.tables /\ DOMAIN s[k].data = Columns[s[k].table]
        /\ \A k \in 2..(n + 1) : \A j \in 2..(n + 1) :
             s[j].table = s[k].table /\ s[j].data.id = s[k].data.id => j = k
    <3>1. \A k \in 2..(n + 1) : k \in 2..n \/ k = n + 1
      OBVIOUS
    <3>2. \A k \in 2..(n + 1) : s[k].type = "row"
      BY <1>2, <2>7, <3>1
    <3>3. \A k \in 2..(n + 1) : s[k].table \in p.tables /\ DOMAIN s[k].data = Columns[s[k].table]
      BY <2>2, <2>7, <3>1
    <3>4. \A k \in 2..(n + 1) : \A j \in 2..(n + 1) :
            s[j].table = s[k].table /\ s[j].data.id = s[k].data.id => j = k
      BY <2>6, <2>7, <3>1, <3>2
    <3>5. QED
      BY <3>2, <3>3, <3>4
  <2>9. q.total = n /\ (n + 1 = 1 => FALSE) /\ q.table = Place[s[n + 1].table]
    BY <2>1, <2>3, <2>7
  <2>10. QED
    BY <1>0, <2>1, <2>2, <2>3, <2>4, <2>5, <2>8, <2>9 DEF Read
<1>3. CASE r.type = "footer"
  <2>1. /\ FooterFits(p, r) /\ (q.header <=> p.header) /\ q.footer
        /\ q.schema = p.schema /\ q.tables = p.tables
        /\ q.total = p.total /\ q.rows = p.rows
    BY <1>3 DEF Took
  <2>2. p.header /\ ~p.footer /\ r.total = p.total
    BY <2>1 DEF FooterFits
  <2>3. n >= 1 /\ s[1].type = "header" /\ s[1].schema \in {5, 6} /\ p.total = n - 1
        /\ p.tables = Range(TablesOf(s[1].schema)) /\ p.schema = s[1].schema
    BY <2>2 DEF Read
  <2>4. q.rows = [t \in AllTables |-> Had(s, n + 1, t)]
    BY <1>0, <1>3, <2>1, HadNone
  <2>5. /\ \A k \in 2..n : s[k].type = "row"
        /\ \A k \in 2..n : s[k].table \in p.tables /\ DOMAIN s[k].data = Columns[s[k].table]
        /\ \A k \in 2..n : \A j \in 2..n :
             s[j].table = s[k].table /\ s[j].data.id = s[k].data.id => j = k
    BY <2>2, <2>3, RowsRead
  <2>6. \A k \in 2..(n + 1) : s[k].type = "row" =>
          /\ s[k].table \in p.tables /\ DOMAIN s[k].data = Columns[s[k].table]
          /\ \A j \in 2..(n + 1) : /\ s[j].type = "row" /\ s[j].table = s[k].table
                                   /\ s[j].data.id = s[k].data.id
                                   => j = k
    <3>1. \A k \in 2..(n + 1) : s[k].type = "row" => k \in 2..n
      BY <1>3
    <3> TAKE k \in 2..(n + 1)
    <3>2. HAVE s[k].type = "row"
    <3>3. k \in 2..n
      BY <3>1, <3>2
    <3>4. s[k].table \in p.tables /\ DOMAIN s[k].data = Columns[s[k].table]
      BY <2>5, <3>3
    <3>5. \A j \in 2..(n + 1) : /\ s[j].type = "row" /\ s[j].table = s[k].table
                               /\ s[j].data.id = s[k].data.id
                               => j = k
      BY <2>5, <3>1, <3>3
    <3>6. QED
      BY <3>4, <3>5
  <2>7. \A k \in 2..(n + 1) : s[k].type = "row" \/ (k = n + 1 /\ q.footer)
    BY <2>1, <2>5
  <2>8. QED
    BY <1>0, <1>3, <2>1, <2>2, <2>3, <2>4, <2>6, <2>7 DEF Read
<1>4. QED
  BY <1>1, <1>2, <1>3 DEF Took

LEMMA StartRead ==
  ASSUME NEW s
  PROVE  Read(s, 0, Start)
<1>1. \A t \in AllTables : Had(s, 0, t) = {}
  BY DEF Had
<1>2. Start.rows = [t \in AllTables |-> Had(s, 0, t)]
  BY <1>1 DEF Start, NoRows, AllTables
<1>3. QED
  BY <1>2 DEF Read, Start, ParserFields

\* A file that the parser took to its end was, record by record, in order.
LEMMA AcceptedIs ==
  ASSUME NEW s, Len(s) \in Nat, \A k \in 1..Len(s) : s[k].type \in Types, Parsed(s).ok
  PROVE  Read(s, Len(s), Parsed(s))
<1> DEFINE N == Len(s)
<1>1. PICK g : Reads(s, N, g) /\ Parsed(s) = g[N]
  BY ParsedIs
<1>2. g[0] = Start /\ \A i \in 1..N : g[i] = Accept(g[i - 1], s[i])
  BY <1>1 DEF Reads
<1> DEFINE S == {i \in 0..N : DOMAIN g[i] = ParserFields /\ (g[i].ok => Read(s, i, g[i]))}
<1>3. 0 \in S
  <2>1. Read(s, 0, Start) /\ DOMAIN Start = ParserFields
    BY StartRead DEF Read
  <2>2. QED
    BY <1>2, <2>1
<1>4. ASSUME NEW i \in 0..(N - 1), i \in S PROVE i + 1 \in S
  <2>1. g[i + 1] = Accept(g[i], s[i + 1]) /\ s[i + 1].type \in Types /\ i \in Nat /\ i + 1 \in 0..N
    BY <1>2
  <2>2. DOMAIN g[i] = ParserFields /\ (g[i].ok => Read(s, i, g[i]))
    BY <1>4
  <2>3. /\ DOMAIN g[i + 1] = ParserFields
        /\ ~g[i].ok => ~g[i + 1].ok
        /\ g[i].ok /\ ~Guarded(g[i], s[i + 1]) => ~g[i + 1].ok
        /\ g[i].ok /\ Guarded(g[i], s[i + 1]) => Took(g[i], s[i + 1], g[i + 1])
    BY <2>1, <2>2, AcceptIs
  <2>4. g[i + 1].ok => Read(s, i + 1, g[i + 1])
    BY <2>1, <2>2, <2>3, StepRead
  <2>5. QED
    BY <2>1, <2>3, <2>4
<1> HIDE DEF S
<1>5. N \in S
  <2>1. N \in Nat
    OBVIOUS
  <2> HIDE DEF N
  <2>2. \A i \in 0..(N - 1) : i \in S => i + 1 \in S
    BY <1>4
  <2>3. \A i \in 0..N : i \in S
    BY <1>3, <2>1, <2>2, InductionTo
  <2>4. QED
    BY <2>1, <2>3
<1>6. QED
  BY <1>1, <1>5 DEF S

\* The rows that a file is read back into: those of the tables it names.
Carried(rows, schema) ==
  [t \in AllTables |-> IF t \in Range(TablesOf(schema)) THEN rows[t] ELSE {}]

\* The keys are keys, and what they refer to comes before them.
Importable(rows, schema) ==
  \A t \in Range(TablesOf(schema)) : \A row \in rows[t] :
    /\ DOMAIN row = Columns[t]
    /\ \A other \in rows[t] : other.id = row.id => other = row
    /\ \A ref \in Refs(t, row) : /\ ref[1] \in Range(TablesOf(schema))
                                 /\ Place[ref[1]] < Place[t]
                                 /\ Has(rows, ref[1], ref[2])

LEMMA FileHad ==
  ASSUME NEW a, NEW rows, NEW schema \in {5, 6}, IsFile(a, rows, schema), NEW t \in AllTables
  PROVE  Had(a, Len(a) - 1, t) = Carried(rows, schema)[t]
<1> DEFINE N == Len(a)
           J == {j \in 1..(N - 1) : a[j].type = "row" /\ a[j].table = t}
           named == Range(TablesOf(schema))
<1>1. Had(a, N - 1, t) = {a[k].data : k \in J}
  BY DEF Had
<1>2. N \in Nat /\ N >= 2 /\ a[1].type = "header"
  BY DEF IsFile, Header
<1>3. \A k \in 2..(N - 1) : /\ a[k].type = "row" /\ a[k].table \in named
                            /\ a[k].data \in rows[a[k].table]
  BY DEF IsFile
<1>4. \A k \in J : k \in 2..(N - 1) /\ t \in named /\ a[k].data \in rows[t]
  <2> TAKE k \in J
  <2>1. k # 1
    BY <1>2
  <2>2. k \in 2..(N - 1)
    BY <1>2, <2>1
  <2>3. QED
    BY <1>3, <2>2
<1>5. ASSUME t \in named, NEW row \in rows[t] PROVE \E k \in J : a[k].data = row
  <2>1. PICK k \in 2..(N - 1) : a[k] = RowRecord(t, row)
    BY <1>5 DEF IsFile
  <2>2. k \in 1..(N - 1) /\ a[k].type = "row" /\ a[k].table = t /\ a[k].data = row
    BY <1>2, <2>1 DEF RowRecord
  <2>3. QED
    BY <2>2
<1>6. Carried(rows, schema)[t] = IF t \in named THEN rows[t] ELSE {}
  BY DEF Carried
<1> HIDE DEF J
<1>7. CASE t \in named
  <2>1. {a[k].data : k \in J} = rows[t]
    BY <1>4, <1>5, <1>7
  <2>2. QED
    BY <1>1, <1>6, <1>7, <2>1
<1>8. CASE t \notin named
  <2>1. J = {}
    BY <1>4, <1>8
  <2>2. QED
    BY <1>1, <1>6, <1>8, <2>1
<1>9. QED
  BY <1>7, <1>8

\* What comes next in a file that a store wrote is taken.
LEMMA HeaderIsNext ==
  ASSUME NEW a, NEW rows, NEW schema \in {5, 6}, IsFile(a, rows, schema),
         NEW p, Read(a, 0, p)
  PROVE  a[1].type \in Types /\ Guarded(p, a[1])
<1>1. ~p.header /\ ~p.footer /\ p.total = 0
  BY DEF Read
<1>2. /\ a[1].type = "header" /\ a[1].protocol = "ours" /\ a[1].schema = schema
      /\ a[1].tables = TablesOf(schema)
  BY DEF IsFile, Header
<1>3. HeaderFits(p, a[1])
  BY <1>1, <1>2 DEF HeaderFits
<1>4. QED
  BY <1>2, <1>3 DEF Guarded, Types

LEMMA FooterIsNext ==
  ASSUME NEW a, NEW rows, NEW schema \in {5, 6}, IsFile(a, rows, schema),
         NEW p, Read(a, Len(a) - 1, p), ~p.footer
  PROVE  a[Len(a)].type \in Types /\ Guarded(p, a[Len(a)])
<1> DEFINE N == Len(a)
           n == N - 1
           r == a[N]
<1>1. n \in Nat /\ n >= 1 /\ r = Footer(N - 2, rows, schema) /\ a[1].schema = schema
  BY DEF IsFile, Header
<1>2. p.header /\ p.tables = Range(TablesOf(schema))
  <2> HIDE DEF n
  <2>1. QED
    BY <1>1 DEF Read, n
<1>3. p.total = N - 2
  <2>1. p.total = n - 1
    BY <1>1, RowsRead
  <2>2. QED
    BY <2>1 DEF IsFile
<1>4. /\ r.type = "footer" /\ r.total = N - 2 /\ DOMAIN r.counts = Range(TablesOf(schema))
      /\ \A t \in Range(TablesOf(schema)) : r.counts[t] = Cardinality(rows[t])
  BY <1>1 DEF Footer
<1>5. \A t \in Range(TablesOf(schema)) : p.rows[t] = rows[t]
  <2> TAKE t \in Range(TablesOf(schema))
  <2>1. t \in AllTables
    BY TablesInOrder
  <2>2. p.rows[t] = Had(a, n, t)
    BY <2>1 DEF Read
  <2>3. Had(a, n, t) = Carried(rows, schema)[t]
    BY <2>1, FileHad
  <2>4. QED
    BY <2>1, <2>2, <2>3 DEF Carried
<1>6. FooterFits(p, r)
  BY <1>2, <1>3, <1>4, <1>5 DEF FooterFits
<1>7. QED
  BY <1>4, <1>6 DEF Guarded, Types

LEMMA RowIsNext ==
  ASSUME NEW a, NEW rows, NEW schema \in {5, 6}, IsFile(a, rows, schema),
         Importable(rows, schema),
         NEW n \in Nat, n >= 1, n + 1 < Len(a), NEW p, Read(a, n, p), ~p.footer
  PROVE  a[n + 1].type \in Types /\ Guarded(p, a[n + 1])
<1> DEFINE N == Len(a)
           r == a[n + 1]
           t == r.table
           named == Range(TablesOf(schema))
<1>1. N \in Nat /\ n + 1 \in 2..(N - 1) /\ a[1].schema = schema
  BY DEF IsFile, Header
<1>2. p.header /\ p.tables = named /\ p.rows = [x \in AllTables |-> Had(a, n, x)]
  BY <1>1 DEF Read
<1>3. r.type = "row" /\ t \in named /\ t \in AllTables /\ r.data \in rows[t] /\ r = RowRecord(t, r.data)
  BY <1>1, TablesInOrder DEF IsFile
<1>4. Place[t] >= p.table
  <2>1. p.table = IF n = 1 THEN 1 ELSE Place[a[n].table]
    BY DEF Read
  <2>2. CASE n = 1
    BY <1>3, <2>1, <2>2, PlaceNat
  <2>3. CASE n # 1
    <3>1. n \in 2..(N - 1) /\ n < n + 1
      BY <1>1, <2>3
    <3>2. Place[a[n].table] <= Place[t] /\ a[n].table \in named
      BY <1>1, <3>1 DEF IsFile
    <3>3. a[n].table \in AllTables
      BY <3>2, TablesInOrder
    <3>4. QED
      BY <1>3, <2>1, <2>3, <3>2, <3>3, PlaceNat
  <2>4. QED
    BY <2>2, <2>3
<1>5. /\ DOMAIN r.data = Columns[t]
      /\ \A other \in rows[t] : other.id = r.data.id => other = r.data
      /\ \A ref \in Refs(t, r.data) : /\ ref[1] \in named /\ Place[ref[1]] < Place[t]
                                      /\ Has(rows, ref[1], ref[2])
  BY <1>3 DEF Importable
<1>6. \A k \in 2..(N - 1) : /\ a[k] = RowRecord(a[k].table, a[k].data)
                            /\ a[k].type = "row" /\ a[k].data \in rows[a[k].table]
  BY DEF IsFile
<1>7. ~Has(p.rows, t, r.data.id)
  <2> SUFFICES ASSUME NEW row \in p.rows[t], row.id = r.data.id PROVE FALSE
    BY DEF Has
  <2>1. row \in Had(a, n, t)
    BY <1>2, <1>3
  <2>2. PICK k \in 1..n : a[k].type = "row" /\ a[k].table = t /\ a[k].data = row
    BY <2>1 DEF Had
  <2>3. k # 1
    <3>1. a[1].type = "header"
      BY DEF IsFile, Header
    <3>2. QED
      BY <2>2, <3>1
  <2>4. k \in 2..(N - 1) /\ k # n + 1
    BY <1>1, <2>3
  <2>5. row = r.data
    BY <1>5, <1>6, <2>2, <2>4
  <2>6. a[k] = r
    BY <1>3, <1>6, <2>2, <2>4, <2>5
  <2>7. QED
    BY <1>1, <2>4, <2>6 DEF IsFile
<1>8. ASSUME NEW ref \in Refs(t, r.data) PROVE Has(p.rows, ref[1], ref[2])
  <2> DEFINE u == ref[1]
  <2>1. u \in named /\ Place[u] < Place[t] /\ Has(rows, u, ref[2])
    BY <1>5, <1>8
  <2>2. u \in AllTables
    BY <2>1, TablesInOrder
  <2>3. PICK row \in rows[u] : row.id = ref[2]
    BY <2>1 DEF Has
  <2>4. PICK k \in 2..(N - 1) : a[k] = RowRecord(u, row)
    BY <2>1, <2>3 DEF IsFile
  <2>5. a[k].table = u /\ a[k].data = row /\ a[k].type = "row"
    BY <2>4 DEF RowRecord
  <2>6. k <= n
    <3>1. CASE n + 1 < k
      <4>1. \A j \in 2..(N - 1) : n + 1 < j => Place[a[n + 1].table] <= Place[a[j].table]
        BY <1>1 DEF IsFile
      <4>2. Place[t] <= Place[u]
        BY <2>4, <2>5, <3>1, <4>1
      <4>3. Place[t] \in 1..14 /\ Place[u] \in 1..14
        BY <1>3, <2>2, PlaceNat
      <4>4. Place[u] < Place[t]
        BY <2>1
      <4> DEFINE x == Place[t]
                 y == Place[u]
      <4>5. x \in 1..14 /\ y \in 1..14 /\ x <= y /\ y < x
        BY <4>2, <4>3, <4>4
      <4> HIDE DEF x, y
      <4>6. x \in Int /\ y \in Int /\ x <= y /\ y < x
        BY <4>5
      <4>7. FALSE
        BY ONLY <4>6
      <4>8. QED
        BY <4>7
    <3>2. CASE n + 1 = k
      <4>1. t = u
        BY <1>3, <2>2, <2>5, <3>2
      <4>2. \A v \in AllTables : Place[v] \in Nat
        BY PlacesCount
      <4>3. QED
        BY <1>3, <2>1, <2>2, <4>1, <4>2
    <3>3. QED
      BY <1>1, <2>4, <3>1, <3>2
  <2>7. k \in 1..n
    BY <1>1, <2>4, <2>6
  <2>8. row \in Had(a, n, u)
    BY <2>5, <2>7 DEF Had
  <2>9. QED
    BY <1>2, <2>2, <2>3, <2>8 DEF Has
<1>9. Insertable(p.rows, t, r.data)
  BY <1>5, <1>7, <1>8 DEF Insertable
<1>10. RowFits(p, r)
  BY <1>2, <1>3, <1>4, <1>9 DEF RowFits
<1>11. QED
  BY <1>3, <1>10 DEF Guarded, Types

\* What a store wrote is read back.
LEMMA ReadBack ==
  ASSUME NEW rows, FiniteTables(rows), NEW schema \in {5, 6}, Importable(rows, schema)
  PROVE  LET p == Parsed(ArchiveOf(rows, schema)) IN
         p.ok /\ p.footer /\ p.schema = schema /\ p.rows = Carried(rows, schema)
<1> DEFINE a == ArchiveOf(rows, schema)
           N == Len(a)
<1>1. IsFile(a, rows, schema)
  BY FileIs
<1> HIDE DEF a
<1>2. N \in Nat /\ N >= 2 /\ a[1].schema = schema /\ a[N].type = "footer"
  BY <1>1 DEF IsFile, Header, Footer
<1>3. \A k \in 1..(N - 1) : a[k].type # "footer"
  <2>1. \A k \in 1..(N - 1) : k = 1 \/ k \in 2..(N - 1)
    BY <1>2
  <2>2. a[1].type = "header" /\ \A k \in 2..(N - 1) : a[k].type = "row"
    BY <1>1 DEF IsFile, Header
  <2>3. QED
    BY <2>1, <2>2
<1>4. PICK g : Reads(a, N, g) /\ Parsed(a) = g[N]
  BY <1>2, ParsedIs
<1>5. g[0] = Start /\ \A i \in 1..N : g[i] = Accept(g[i - 1], a[i])
  BY <1>2, <1>4 DEF Reads
<1> DEFINE S == {i \in 0..N : Read(a, i, g[i])}
<1>6. 0 \in S
  BY <1>2, <1>5, StartRead
<1>7. ASSUME NEW i \in 0..(N - 1), i \in S PROVE i + 1 \in S
  <2>1. /\ i \in Nat /\ i + 1 \in 1..N /\ i + 1 \in 0..N
        /\ g[i + 1] = Accept(g[i], a[i + 1]) /\ Read(a, i, g[i])
    BY <1>2, <1>5, <1>7
  <2>2. ~g[i].footer
    <3>1. g[i].footer => i >= 2 /\ a[i].type = "footer"
      BY <2>1 DEF Read
    <3>2. QED
      BY <1>2, <1>3, <3>1
  <2>3. a[i + 1].type \in Types /\ Guarded(g[i], a[i + 1])
    <3>1. CASE i = 0
      BY <1>1, <2>1, <3>1, HeaderIsNext
    <3>2. CASE i >= 1 /\ i + 1 < N
      BY <1>1, <2>1, <2>2, <3>2, RowIsNext
    <3>3. CASE i = N - 1
      <4>1. i + 1 = N
        BY <1>2, <3>3
      <4>2. QED
        BY <1>1, <2>1, <2>2, <3>3, <4>1, FooterIsNext
    <3>4. QED
      BY <1>2, <3>1, <3>2, <3>3
  <2>4. DOMAIN g[i] = ParserFields /\ g[i].ok
    BY <2>1 DEF Read
  <2>5. DOMAIN g[i + 1] = ParserFields /\ Took(g[i], a[i + 1], g[i + 1])
    BY <2>1, <2>3, <2>4, AcceptIs
  <2>6. Read(a, i + 1, g[i + 1])
    BY <2>1, <2>5, StepRead
  <2>7. QED
    BY <2>1, <2>6
<1>8. Read(a, N, g[N])
  <2>1. N \in Nat
    BY <1>2
  <2> HIDE DEF N, S
  <2>2. \A i \in 0..(N - 1) : i \in S => i + 1 \in S
    BY <1>7
  <2>3. \A i \in 0..N : i \in S
    BY <1>6, <2>1, <2>2, InductionTo
  <2>4. N \in S
    BY <2>1, <2>3
  <2>5. QED
    BY <2>4 DEF S
<1>9. g[N].ok /\ g[N].schema = schema /\ g[N].rows = [t \in AllTables |-> Had(a, N, t)]
  BY <1>2, <1>8 DEF Read
<1>10. g[N].footer
  <2>1. \A k \in 2..N : a[k].type = "row" \/ (k = N /\ g[N].footer)
    BY <1>8 DEF Read
  <2>2. QED
    BY <1>2, <2>1
<1>11. \A t \in AllTables : Had(a, N, t) = Carried(rows, schema)[t]
  <2> TAKE t \in AllTables
  <2>1. N - 1 \in Nat /\ (N - 1) + 1 = N
    BY <1>2
  <2>2. Had(a, (N - 1) + 1, t) = Had(a, N - 1, t)
    BY <1>2, <2>1, HadNone
  <2>3. QED
    BY <1>1, <2>1, <2>2, FileHad
<1>12. g[N].rows = Carried(rows, schema)
  BY <1>9, <1>11 DEF Carried
<1>13. QED
  BY <1>4, <1>9, <1>10, <1>12 DEF a

-----------------------------------------------------------------------------
(* The archive: what a store writes *)

SpaceRow(s) == [id |-> s, silo |-> defaults[s], sound |-> TRUE]
SiloRow(p) == [id |-> p, space |-> p[1], sound |-> TRUE]
SourceRow(d) == [id |-> d.id, space |-> d.space, sound |-> d.fit]
VersionRow(i) == [id |-> i, memory |-> i, sound |-> TRUE]
CardRow(i) == [id |-> i, text |-> details[i].card, sound |-> TRUE]
EventRow(i) == [id |-> <<i, events[i]>>, memory |-> i]
LinkRow(l) == [id |-> l]
ConflictRow(c) == [id |-> c, space |-> mem[c[1]].space]
EntityRow(i) == [id |-> mem[i].space, space |-> mem[i].space]
RelationRow(i) == [id |-> i, space |-> mem[i].space, entity |-> mem[i].space]
MemoryVector(i) == [id |-> <<i, None>>]
ChunkVector(d) == [id |-> <<None, d.id>>]

WithCard == {i \in Ids : details[i].card # Summary}
WithVector == {i \in Ids : details[i].vector}
VectorChunks == {d \in docs : d.vector}

LEMMA TablesAre ==
  /\ Tables["schema_migrations"] = {[id |-> version] : version \in {5, 6}}
  /\ Tables["config_kv"] = Config(6, "ours")
  /\ Tables["spaces"] = {SpaceRow(s) : s \in DOMAIN defaults}
  /\ Tables["silos"] = {SiloRow(p) : p \in silos}
  /\ Tables["source_episodes"] = {SourceRow(d) : d \in docs}
  /\ Tables["memories"] = {MemoryRow(i) : i \in Ids}
  /\ Tables["memory_versions"] = {VersionRow(i) : i \in Ids}
  /\ Tables["memory_representations"] = {CardRow(i) : i \in WithCard}
  /\ Tables["memory_events"] = {EventRow(i) : i \in Ids}
  /\ Tables["memory_links"] = {LinkRow(l) : l \in links}
  /\ Tables["conflicts"] = {ConflictRow(c) : c \in conflicts}
  /\ Tables["entities"] = {EntityRow(i) : i \in related}
  /\ Tables["relationships"] = {RelationRow(i) : i \in related}
  /\ Tables["embeddings"] =
       {MemoryVector(i) : i \in WithVector} \cup {ChunkVector(d) : d \in VectorChunks}
<1>1. \A t \in AllTables : Tables[t] = RowsOf(t)
  BY DEF Tables, AllTables
<1>2. QED
  BY <1>1, FourteenTables, Zenon
     DEF RowsOf, SpaceRow, SiloRow, SourceRow, VersionRow, CardRow, EventRow, LinkRow,
         ConflictRow, EntityRow, RelationRow, MemoryVector, ChunkVector, WithCard, WithVector,
         VectorChunks

\* What the store's types say of its tables.
LEMMA StoreTypes ==
  ASSUME ArchiveInv
  PROVE  /\ \A i \in Ids : /\ i \in Nat /\ i # None /\ mem[i] \in Row
                           /\ mem[i].space \in DOMAIN defaults
                           /\ <<mem[i].space, mem[i].silo>> \in silos
                           /\ details[i] \in Detail
                           /\ details[i].source # None =>
                                \E d \in docs : /\ d.id = details[i].source
                                                /\ d.space = mem[i].space
         /\ \A p \in silos : /\ p = <<p[1], p[2]>> /\ p[1] \in DOMAIN defaults
                             /\ p[2] \in {ShortTerm, Durable, defaults[p[1]]}
         /\ \A space \in DOMAIN defaults : <<space, defaults[space]>> \in silos
         /\ \A d \in docs : /\ d \in Chunk /\ d.id # None /\ d.space \in DOMAIN defaults
                            /\ \A e \in docs : d.id = e.id => d = e
         /\ \A l \in links : /\ l[1] \in Ids /\ l[2] \in Ids /\ l[3] \in LinkTypes
                             /\ l = <<l[1], l[2], l[3]>>
         /\ \A c \in conflicts : c[1] \in Ids /\ c[2] \in Ids /\ c = <<c[1], c[2]>>
         /\ related \subseteq Ids
<1>1. /\ TypeOK /\ defaults \in [DOMAIN defaults -> Silos] /\ DOMAIN defaults \subseteq Spaces
      /\ silos \subseteq Spaces \X Silos /\ docs \subseteq Chunk /\ related \subseteq Ids
      /\ details \in [Ids -> Detail]
      /\ \A space \in DOMAIN defaults : <<space, defaults[space]>> \in silos
      /\ \A i \in Ids : /\ <<mem[i].space, mem[i].silo>> \in silos
                        /\ details[i].source \in {None} \cup {d.id : d \in docs}
  BY DEF ArchiveInv, ArchiveTypeOK
<1>2. \A p \in silos : /\ p = <<p[1], p[2]>> /\ p[1] \in DOMAIN defaults
                       /\ p[2] \in {ShortTerm, Durable, defaults[p[1]]}
  <2> TAKE p \in silos
  <2>1. PICK space \in Spaces, silo \in Silos : p = <<space, silo>>
    BY <1>1
  <2>2. <<space, silo>> \in silos
    BY <2>1
  <2>3. space \in DOMAIN defaults /\ silo \in {ShortTerm, Durable, defaults[space]}
    BY <2>2 DEF ArchiveInv, DefaultsSeeded
  <2>4. QED
    BY <2>1, <2>3
<1>3. \A i \in Ids : i \in Nat /\ i # None /\ mem[i] \in Row
  BY <1>1 DEF TypeOK, Ids, None
<1>4. \A i \in Ids : mem[i].space \in DOMAIN defaults /\ details[i] \in Detail
  <2> TAKE i \in Ids
  <2>1. <<mem[i].space, mem[i].silo>> \in silos
    BY <1>1
  <2>2. QED
    BY <1>1, <1>2, <2>1
<1>5. \A i \in Ids : details[i].source # None =>
        \E d \in docs : d.id = details[i].source /\ d.space = mem[i].space
  BY <1>1 DEF ArchiveInv, ChunksApart
<1>6. \A d \in docs : /\ d \in Chunk /\ d.id # None /\ d.space \in DOMAIN defaults
                      /\ \A e \in docs : d.id = e.id => d = e
  BY <1>1, ArchiveAssumption DEF ArchiveInv, ChunksApart, Chunk, None
<1>7. /\ \A l \in links : /\ l[1] \in Ids /\ l[2] \in Ids /\ l[3] \in LinkTypes
                          /\ l = <<l[1], l[2], l[3]>>
      /\ \A c \in conflicts : c[1] \in Ids /\ c[2] \in Ids /\ c = <<c[1], c[2]>>
  BY <1>1 DEF TypeOK
<1>8. QED
  BY <1>1, <1>2, <1>3, <1>4, <1>5, <1>6, <1>7

\* t holds rows with its columns and one key each.
Kept(rows, t) ==
  \A row \in rows[t] : /\ DOMAIN row = Columns[t]
                       /\ \A other \in rows[t] : other.id = row.id => other = row

LEMMA KeysAndColumns ==
  ASSUME ArchiveInv, NEW t \in AllTables
  PROVE  Kept(Tables, t)
<1> USE DEF Kept
<1>1. CASE t = "schema_migrations"
  BY <1>1, TablesAre DEF Columns
<1>2. CASE t = "config_kv"
  BY <1>2, TablesAre DEF Columns, Config
<1>3. CASE t = "spaces"
  <2>1. Tables[t] = {SpaceRow(s) : s \in DOMAIN defaults}
    BY <1>3, TablesAre
  <2>2. \A s : DOMAIN SpaceRow(s) = Columns["spaces"] /\ SpaceRow(s).id = s
    BY DEF SpaceRow, Columns
  <2>3. QED
    BY <1>3, <2>1, <2>2
<1>4. CASE t = "silos"
  <2>1. Tables[t] = {SiloRow(p) : p \in silos}
    BY <1>4, TablesAre
  <2>2. \A p : DOMAIN SiloRow(p) = Columns["silos"] /\ SiloRow(p).id = p
    BY DEF SiloRow, Columns
  <2>3. QED
    BY <1>4, <2>1, <2>2
<1>5. CASE t = "source_episodes"
  <2>1. Tables[t] = {SourceRow(d) : d \in docs}
    BY <1>5, TablesAre
  <2>2. \A d : DOMAIN SourceRow(d) = Columns["source_episodes"] /\ SourceRow(d).id = d.id
    BY DEF SourceRow, Columns
  <2>3. \A d, e \in docs : d.id = e.id => d = e
    BY StoreTypes
  <2>4. QED
    BY <1>5, <2>1, <2>2, <2>3
<1>6. CASE t = "memories"
  <2>1. Tables[t] = {MemoryRow(i) : i \in Ids}
    BY <1>6, TablesAre
  <2>2. \A i : DOMAIN MemoryRow(i) = Columns["memories"] /\ MemoryRow(i).id = i
    BY DEF MemoryRow, Columns
  <2>3. QED
    BY <1>6, <2>1, <2>2
<1>7. CASE t = "memory_versions"
  <2>1. Tables[t] = {VersionRow(i) : i \in Ids}
    BY <1>7, TablesAre
  <2>2. \A i : DOMAIN VersionRow(i) = Columns["memory_versions"] /\ VersionRow(i).id = i
    BY DEF VersionRow, Columns
  <2>3. QED
    BY <1>7, <2>1, <2>2
<1>8. CASE t = "memory_representations"
  <2>1. Tables[t] = {CardRow(i) : i \in WithCard}
    BY <1>8, TablesAre
  <2>2. \A i : DOMAIN CardRow(i) = Columns["memory_representations"] /\ CardRow(i).id = i
    BY DEF CardRow, Columns
  <2>3. QED
    BY <1>8, <2>1, <2>2
<1>9. CASE t = "memory_events"
  <2>1. Tables[t] = {EventRow(i) : i \in Ids}
    BY <1>9, TablesAre
  <2>2. \A i : DOMAIN EventRow(i) = Columns["memory_events"] /\ EventRow(i).id = <<i, events[i]>>
    BY DEF EventRow, Columns
  <2>3. QED
    BY <1>9, <2>1, <2>2
<1>10. CASE t = "memory_links"
  <2>1. Tables[t] = {LinkRow(l) : l \in links}
    BY <1>10, TablesAre
  <2>2. \A l : DOMAIN LinkRow(l) = Columns["memory_links"] /\ LinkRow(l).id = l
    BY DEF LinkRow, Columns
  <2>3. QED
    BY <1>10, <2>1, <2>2
<1>11. CASE t = "conflicts"
  <2>1. Tables[t] = {ConflictRow(c) : c \in conflicts}
    BY <1>11, TablesAre
  <2>2. \A c : DOMAIN ConflictRow(c) = Columns["conflicts"] /\ ConflictRow(c).id = c
    BY DEF ConflictRow, Columns
  <2>3. QED
    BY <1>11, <2>1, <2>2
<1>12. CASE t = "entities"
  <2>1. Tables[t] = {EntityRow(i) : i \in related}
    BY <1>12, TablesAre
  <2>2. \A i : DOMAIN EntityRow(i) = Columns["entities"] /\ EntityRow(i).id = mem[i].space
    BY DEF EntityRow, Columns
  <2>3. \A i, j : mem[i].space = mem[j].space => EntityRow(i) = EntityRow(j)
    BY DEF EntityRow
  <2>4. QED
    BY <1>12, <2>1, <2>2, <2>3
<1>13. CASE t = "relationships"
  <2>1. Tables[t] = {RelationRow(i) : i \in related}
    BY <1>13, TablesAre
  <2>2. \A i : DOMAIN RelationRow(i) = Columns["relationships"] /\ RelationRow(i).id = i
    BY DEF RelationRow, Columns
  <2>3. QED
    BY <1>13, <2>1, <2>2
<1>14. CASE t = "embeddings"
  <2>1. Tables[t] = {MemoryVector(i) : i \in WithVector} \cup {ChunkVector(d) : d \in VectorChunks}
    BY <1>14, TablesAre
  <2>2. \A row \in Tables[t] : \E x : row = [id |-> x]
    BY <2>1 DEF MemoryVector, ChunkVector
  <2>3. \A x : DOMAIN [id |-> x] = Columns["embeddings"] /\ [id |-> x].id = x
    BY DEF Columns
  <2>4. QED
    BY <1>14, <2>2, <2>3
<1>15. QED
  BY <1>1, <1>2, <1>3, <1>4, <1>5, <1>6, <1>7, <1>8, <1>9, <1>10, <1>11, <1>12, <1>13, <1>14,
     FourteenTables

\* The tables that others refer to.
Owners == {"spaces", "silos", "source_episodes", "memories", "memory_versions", "entities"}

LEMMA OwnersHave ==
  ASSUME ArchiveInv
  PROVE  /\ \A space \in DOMAIN defaults : Has(Tables, "spaces", space)
         /\ \A p \in silos : Has(Tables, "silos", p)
         /\ \A d \in docs : Has(Tables, "source_episodes", d.id)
         /\ \A i \in Ids : Has(Tables, "memories", i) /\ Has(Tables, "memory_versions", i)
         /\ \A i \in related : Has(Tables, "entities", mem[i].space)
<1>1. \A space \in DOMAIN defaults : Has(Tables, "spaces", space)
  <2>1. \A space \in DOMAIN defaults : SpaceRow(space) \in Tables["spaces"]
    BY TablesAre
  <2>2. \A space \in DOMAIN defaults : SpaceRow(space).id = space
    BY DEF SpaceRow
  <2>3. QED
    BY <2>1, <2>2 DEF Has
<1>2. \A p \in silos : Has(Tables, "silos", p)
  <2>1. \A p \in silos : SiloRow(p) \in Tables["silos"]
    BY TablesAre
  <2>2. \A p \in silos : SiloRow(p).id = p
    BY DEF SiloRow
  <2>3. QED
    BY <2>1, <2>2 DEF Has
<1>3. \A d \in docs : Has(Tables, "source_episodes", d.id)
  <2>1. \A d \in docs : SourceRow(d) \in Tables["source_episodes"]
    BY TablesAre
  <2>2. \A d \in docs : SourceRow(d).id = d.id
    BY DEF SourceRow
  <2>3. QED
    BY <2>1, <2>2 DEF Has
<1>4. \A i \in Ids : Has(Tables, "memories", i)
  <2>1. \A i \in Ids : MemoryRow(i) \in Tables["memories"]
    BY TablesAre
  <2>2. \A i \in Ids : MemoryRow(i).id = i
    BY DEF MemoryRow
  <2>3. QED
    BY <2>1, <2>2 DEF Has
<1>5. \A i \in Ids : Has(Tables, "memory_versions", i)
  <2>1. \A i \in Ids : VersionRow(i) \in Tables["memory_versions"]
    BY TablesAre
  <2>2. \A i \in Ids : VersionRow(i).id = i
    BY DEF VersionRow
  <2>3. QED
    BY <2>1, <2>2 DEF Has
<1>6. \A i \in related : Has(Tables, "entities", mem[i].space)
  <2>1. \A i \in related : EntityRow(i) \in Tables["entities"]
    BY TablesAre
  <2>2. \A i \in related : EntityRow(i).id = mem[i].space
    BY DEF EntityRow
  <2>3. QED
    BY <2>1, <2>2 DEF Has
<1>7. QED
  BY <1>1, <1>2, <1>3, <1>4, <1>5, <1>6

\* What the rows of t refer to is there before them.
Referred(rows, t) ==
  \A row \in rows[t] : \A ref \in Refs(t, row) :
    ref[1] \in Owners /\ Place[ref[1]] < Place[t] /\ Has(Tables, ref[1], ref[2])

LEMMA RefsComeFirst ==
  ASSUME ArchiveInv, NEW t \in AllTables
  PROVE  Referred(Tables, t)
<1>1. CASE t \in {"schema_migrations", "config_kv", "spaces"}
  <2>1. \A row \in Tables[t] : Refs(t, row) = {}
    BY <1>1 DEF Refs
  <2>2. QED
    BY <2>1 DEF Referred
<1>2. CASE t \in {"silos", "source_episodes", "entities"}
  <2>1. \A row \in Tables[t] : row.space \in DOMAIN defaults
    <3>1. \/ t = "silos" /\ Tables[t] = {SiloRow(p) : p \in silos}
          \/ t = "source_episodes" /\ Tables[t] = {SourceRow(d) : d \in docs}
          \/ t = "entities" /\ Tables[t] = {EntityRow(i) : i \in related}
      BY <1>2, TablesAre
    <3>2. /\ \A p : SiloRow(p).space = p[1]
          /\ \A d : SourceRow(d).space = d.space
          /\ \A i : EntityRow(i).space = mem[i].space
      BY DEF SiloRow, SourceRow, EntityRow
    <3>3. /\ \A p \in silos : p[1] \in DOMAIN defaults
          /\ \A d \in docs : d.space \in DOMAIN defaults
          /\ \A i \in related : mem[i].space \in DOMAIN defaults
      BY StoreTypes
    <3>4. QED
      BY <3>1, <3>2, <3>3
  <2>2. \A row \in Tables[t] : Refs(t, row) = {<<"spaces", row.space>>}
    BY <1>2 DEF Refs
  <2>3. QED
    BY <1>2, <2>1, <2>2, OwnersHave, PlaceIs DEF Referred, Owners
<1>3. CASE t = "memories"
  <2> SUFFICES ASSUME NEW i \in Ids, NEW ref \in Refs(t, MemoryRow(i))
               PROVE  /\ ref[1] \in Owners /\ Place[ref[1]] < Place[t]
                      /\ Has(Tables, ref[1], ref[2])
    <3>1. Tables[t] = {MemoryRow(i) : i \in Ids}
      BY <1>3, TablesAre
    <3>2. QED
      BY <3>1 DEF Referred
  <2>1. /\ MemoryRow(i).space = mem[i].space /\ MemoryRow(i).silo = mem[i].silo
        /\ MemoryRow(i).source = details[i].source
    BY DEF MemoryRow
  <2>2. \/ ref = <<"spaces", mem[i].space>>
        \/ ref = <<"silos", <<mem[i].space, mem[i].silo>>>>
        \/ ref = <<"source_episodes", details[i].source>> /\ details[i].source # None
    BY <1>3, <2>1 DEF Refs, Optional
  <2>3. CASE ref = <<"spaces", mem[i].space>>
    <3>1. ref[1] = "spaces" /\ Place[ref[1]] < Place[t] /\ ref[1] \in Owners
      BY <1>3, <2>3, PlaceIs DEF Owners
    <3>2. Has(Tables, ref[1], ref[2])
      BY <2>3, StoreTypes, OwnersHave
    <3>3. QED
      BY <3>1, <3>2
  <2>4. CASE ref = <<"silos", <<mem[i].space, mem[i].silo>>>>
    <3>1. ref[1] = "silos" /\ Place[ref[1]] < Place[t] /\ ref[1] \in Owners
      BY <1>3, <2>4, PlaceIs DEF Owners
    <3>2. Has(Tables, ref[1], ref[2])
      BY <2>4, StoreTypes, OwnersHave
    <3>3. QED
      BY <3>1, <3>2
  <2>5. CASE ref = <<"source_episodes", details[i].source>> /\ details[i].source # None
    <3>1. ref[1] = "source_episodes" /\ Place[ref[1]] < Place[t] /\ ref[1] \in Owners
      BY <1>3, <2>5, PlaceIs DEF Owners
    <3>2. Has(Tables, ref[1], ref[2])
      BY <2>5, StoreTypes, OwnersHave
    <3>3. QED
      BY <3>1, <3>2
  <2>6. QED
    BY <2>2, <2>3, <2>4, <2>5
<1>4. CASE t \in {"memory_versions", "memory_events"}
  <2>1. \A row \in Tables[t] : row.memory \in Ids
    <3>1. \/ Tables[t] = {VersionRow(i) : i \in Ids}
          \/ Tables[t] = {EventRow(i) : i \in Ids}
      BY <1>4, TablesAre
    <3>2. \A i : VersionRow(i).memory = i /\ EventRow(i).memory = i
      BY DEF VersionRow, EventRow
    <3>3. QED
      BY <3>1, <3>2
  <2>2. \A row \in Tables[t] : Refs(t, row) = {<<"memories", row.memory>>}
    BY <1>4 DEF Refs
  <2>3. QED
    BY <1>4, <2>1, <2>2, OwnersHave, PlaceIs DEF Referred, Owners
<1>5. CASE t = "memory_representations"
  <2>1. \A row \in Tables[t] : row.id \in Ids
    <3>1. Tables[t] = {CardRow(i) : i \in WithCard}
      BY <1>5, TablesAre
    <3>2. \A i : CardRow(i).id = i
      BY DEF CardRow
    <3>3. QED
      BY <3>1, <3>2 DEF WithCard
  <2>2. \A row \in Tables[t] : Refs(t, row) = {<<"memory_versions", row.id>>}
    BY <1>5 DEF Refs
  <2>3. QED
    BY <1>5, <2>1, <2>2, OwnersHave, PlaceIs DEF Referred, Owners
<1>6. CASE t = "memory_links"
  <2>1. \A row \in Tables[t] : row.id[1] \in Ids /\ row.id[2] \in Ids
    <3>1. Tables[t] = {LinkRow(l) : l \in links}
      BY <1>6, TablesAre
    <3>2. \A l : LinkRow(l).id = l
      BY DEF LinkRow
    <3>3. QED
      BY <3>1, <3>2, StoreTypes
  <2>2. \A row \in Tables[t] :
          Refs(t, row) = {<<"memories", row.id[1]>>, <<"memories", row.id[2]>>}
    BY <1>6 DEF Refs
  <2>3. QED
    BY <1>6, <2>1, <2>2, OwnersHave, PlaceIs DEF Referred, Owners
<1>7. CASE t = "conflicts"
  <2>1. \A row \in Tables[t] : /\ row.id[1] \in Ids /\ row.id[2] \in Ids
                               /\ row.space \in DOMAIN defaults
    <3>1. Tables[t] = {ConflictRow(c) : c \in conflicts}
      BY <1>7, TablesAre
    <3>2. \A c : ConflictRow(c).id = c /\ ConflictRow(c).space = mem[c[1]].space
      BY DEF ConflictRow
    <3>3. \A c \in conflicts : c[1] \in Ids /\ c[2] \in Ids /\ mem[c[1]].space \in DOMAIN defaults
      BY StoreTypes
    <3>4. QED
      BY <3>1, <3>2, <3>3
  <2>2. \A row \in Tables[t] :
          Refs(t, row) = {<<"spaces", row.space>>, <<"memories", row.id[1]>>,
                          <<"memories", row.id[2]>>}
    BY <1>7 DEF Refs
  <2>3. QED
    BY <1>7, <2>1, <2>2, OwnersHave, PlaceIs DEF Referred, Owners
<1>8. CASE t = "relationships"
  <2>1. \A row \in Tables[t] : /\ row.id \in Ids /\ row.space \in DOMAIN defaults
                               /\ Has(Tables, "entities", row.entity)
    <3>1. Tables[t] = {RelationRow(i) : i \in related}
      BY <1>8, TablesAre
    <3>2. \A i : /\ RelationRow(i).id = i /\ RelationRow(i).space = mem[i].space
                /\ RelationRow(i).entity = mem[i].space
      BY DEF RelationRow
    <3>3. \A i \in related : i \in Ids /\ mem[i].space \in DOMAIN defaults
      BY StoreTypes
    <3>4. \A i \in related : Has(Tables, "entities", mem[i].space)
      BY OwnersHave
    <3>5. QED
      BY <3>1, <3>2, <3>3, <3>4
  <2>2. \A row \in Tables[t] :
          Refs(t, row) = {<<"spaces", row.space>>, <<"entities", row.entity>>,
                          <<"memories", row.id>>}
    BY <1>8 DEF Refs
  <2>3. QED
    BY <1>8, <2>1, <2>2, OwnersHave, PlaceIs DEF Referred, Owners
<1>9. CASE t = "embeddings"
  <2>1. \A row \in Tables[t] :
          \/ row.id[1] \in Ids /\ row.id[2] = None
          \/ row.id[1] = None /\ \E d \in docs : row.id[2] = d.id
    <3>1. Tables[t] = {MemoryVector(i) : i \in WithVector} \cup {ChunkVector(d) : d \in VectorChunks}
      BY <1>9, TablesAre
    <3>2. /\ \A i : MemoryVector(i).id = <<i, None>>
          /\ \A d : ChunkVector(d).id = <<None, d.id>>
      BY DEF MemoryVector, ChunkVector
    <3>3. QED
      BY <3>1, <3>2 DEF WithVector, VectorChunks
  <2>2. \A row \in Tables[t] :
          Refs(t, row) = Optional("memories", row.id[1])
                           \cup Optional("source_episodes", row.id[2])
    BY <1>9 DEF Refs
  <2>3. QED
    BY <1>9, <2>1, <2>2, OwnersHave, PlaceIs DEF Referred, Owners, Optional
<1>10. QED
  BY <1>1, <1>2, <1>3, <1>4, <1>5, <1>6, <1>7, <1>8, <1>9, FourteenTables

LEMMA ImageFinite ==
  ASSUME NEW S, IsFiniteSet(S), NEW f
  PROVE  IsFiniteSet({f[x] : x \in S})
<1> DEFINE T == {f[x] : x \in S}
           g == [x \in S |-> f[x]]
<1>1. g \in Surjection(S, T)
  BY DEF Surjection
<1> HIDE DEF T, g
<1>2. IsFiniteSet(T)
  BY <1>1, FS_Surjection
<1>3. QED
  BY <1>2 DEF T

LEMMA StoreFinite ==
  ASSUME ArchiveInv
  PROVE  /\ IsFiniteSet(Ids) /\ IsFiniteSet(DOMAIN defaults) /\ IsFiniteSet(silos)
         /\ IsFiniteSet(docs) /\ IsFiniteSet(links) /\ IsFiniteSet(conflicts)
         /\ IsFiniteSet(related) /\ IsFiniteSet(WithCard) /\ IsFiniteSet(WithVector)
         /\ IsFiniteSet(VectorChunks)
<1>1. IsFiniteSet(Ids)
  <2>1. count \in Int /\ 1 \in Int
    BY DEF ArchiveInv, ArchiveTypeOK, TypeOK
  <2>2. QED
    BY <2>1, FS_Interval DEF Ids
<1>2. IsFiniteSet(DOMAIN defaults) /\ IsFiniteSet(docs)
  BY DEF ArchiveInv, DefaultsSeeded, ChunksApart
<1>3. IsFiniteSet(silos)
  <2> DEFINE D == DOMAIN defaults
             own == {defaults[s] : s \in D}
             names == own \cup {ShortTerm} \cup {Durable}
  <2>1. IsFiniteSet(own)
    BY <1>2, ImageFinite
  <2>2. IsFiniteSet(names)
    BY <2>1, FS_AddElement
  <2>3. silos \subseteq D \X names
    <3> SUFFICES ASSUME NEW p \in silos PROVE p \in D \X names
      OBVIOUS
    <3>1. /\ p = <<p[1], p[2]>> /\ p[1] \in DOMAIN defaults
          /\ p[2] \in {ShortTerm, Durable, defaults[p[1]]}
      BY StoreTypes
    <3>2. QED
      BY <3>1
  <2> HIDE DEF names, D
  <2>4. IsFiniteSet(D \X names)
    BY <1>2, <2>2, FS_Product DEF D
  <2>5. QED
    BY <2>3, <2>4, FS_Subset
<1>4. IsFiniteSet(Ids \X Ids)
  BY <1>1, FS_Product
<1>5. IsFiniteSet(conflicts)
  BY <1>4, FS_Subset DEF ArchiveInv, ArchiveTypeOK, TypeOK
<1>6. IsFiniteSet(links)
  <2> DEFINE pairs == Ids \X Ids
             P == pairs \X LinkTypes
             f == [q \in P |-> <<q[1][1], q[1][2], q[2]>>]
             T == {f[q] : q \in P}
  <2>1. IsFiniteSet(LinkTypes)
    <3>1. LinkTypes = {"supersedes"} \cup {"superseded_by"} \cup {"contradicts"}
      BY DEF LinkTypes
    <3>2. QED
      BY <3>1, FS_Singleton, FS_AddElement
  <2>2. links \subseteq T
    <3> SUFFICES ASSUME NEW l \in links PROVE l \in T
      OBVIOUS
    <3>1. /\ l[1] \in Ids /\ l[2] \in Ids /\ l[3] \in LinkTypes
          /\ l = <<l[1], l[2], l[3]>>
      BY StoreTypes
    <3>2. <<<<l[1], l[2]>>, l[3]>> \in P /\ f[<<<<l[1], l[2]>>, l[3]>>] = <<l[1], l[2], l[3]>>
      BY <3>1
    <3> HIDE DEF f, P
    <3>3. QED
      BY <3>1, <3>2
  <2>3. IsFiniteSet(P)
    BY <1>4, <2>1, FS_Product
  <2> HIDE DEF P, f
  <2>4. IsFiniteSet(T)
    BY <2>3, ImageFinite
  <2>5. QED
    BY <2>2, <2>4, FS_Subset
<1>7. IsFiniteSet(related)
  BY <1>1, FS_Subset DEF ArchiveInv, ArchiveTypeOK
<1>8. WithCard \subseteq Ids /\ WithVector \subseteq Ids /\ VectorChunks \subseteq docs
  BY DEF WithCard, WithVector, VectorChunks
<1>9. IsFiniteSet(WithCard) /\ IsFiniteSet(WithVector)
  BY <1>1, <1>8, FS_Subset
<1>10. IsFiniteSet(VectorChunks)
  BY <1>2, <1>8, FS_Subset
<1>11. QED
  BY <1>1, <1>2, <1>3, <1>5, <1>6, <1>7, <1>9, <1>10

LEMMA MetadataFinite ==
  ASSUME NEW schema, NEW protocol
  PROVE  IsFiniteSet(Config(schema, protocol)) /\ \A v : IsFiniteSet({[id |-> v]})
<1> DEFINE a == [id |-> "schema_version", value |-> schema]
           b == [id |-> "protocol_version", value |-> protocol]
           c == [id |-> "default_space", value |-> DefaultSpace]
<1>1. Config(schema, protocol) = {a} \cup {b} \cup {c}
  BY DEF Config
<1> HIDE DEF a, b, c
<1>2. IsFiniteSet({a})
  BY FS_Singleton
<1>3. IsFiniteSet({a} \cup {b})
  BY <1>2, FS_AddElement
<1>4. IsFiniteSet({a} \cup {b} \cup {c})
  BY <1>3, FS_AddElement
<1>5. \A v : IsFiniteSet({[id |-> v]})
  BY FS_Singleton
<1>6. QED
  BY <1>1, <1>4, <1>5

LEMMA TablesFinite ==
  ASSUME ArchiveInv
  PROVE  FiniteTables(Tables)
<1>1. IsFiniteSet(Tables["schema_migrations"])
  <2>1. Tables["schema_migrations"] = {[id |-> 5]} \cup {[id |-> 6]}
    BY TablesAre
  <2>2. QED
    BY <2>1, MetadataFinite, FS_AddElement
<1>2. IsFiniteSet(Tables["config_kv"])
  BY TablesAre, MetadataFinite
<1>3. IsFiniteSet(Tables["spaces"])
  <2> DEFINE f == [s \in DOMAIN defaults |-> SpaceRow(s)]
  <2>1. Tables["spaces"] = {f[s] : s \in DOMAIN defaults}
    BY TablesAre
  <2> HIDE DEF f
  <2>2. QED
    BY <2>1, StoreFinite, ImageFinite
<1>4. IsFiniteSet(Tables["silos"])
  <2> DEFINE f == [p \in silos |-> SiloRow(p)]
  <2>1. Tables["silos"] = {f[p] : p \in silos}
    BY TablesAre
  <2> HIDE DEF f
  <2>2. QED
    BY <2>1, StoreFinite, ImageFinite
<1>5. IsFiniteSet(Tables["source_episodes"])
  <2> DEFINE f == [d \in docs |-> SourceRow(d)]
  <2>1. Tables["source_episodes"] = {f[d] : d \in docs}
    BY TablesAre
  <2> HIDE DEF f
  <2>2. QED
    BY <2>1, StoreFinite, ImageFinite
<1>6. IsFiniteSet(Tables["memories"])
  <2> DEFINE f == [i \in Ids |-> MemoryRow(i)]
  <2>1. Tables["memories"] = {f[i] : i \in Ids}
    BY TablesAre
  <2> HIDE DEF f
  <2>2. QED
    BY <2>1, StoreFinite, ImageFinite
<1>7. IsFiniteSet(Tables["memory_versions"])
  <2> DEFINE f == [i \in Ids |-> VersionRow(i)]
  <2>1. Tables["memory_versions"] = {f[i] : i \in Ids}
    BY TablesAre
  <2> HIDE DEF f
  <2>2. QED
    BY <2>1, StoreFinite, ImageFinite
<1>8. IsFiniteSet(Tables["memory_representations"])
  <2> DEFINE f == [i \in WithCard |-> CardRow(i)]
  <2>1. Tables["memory_representations"] = {f[i] : i \in WithCard}
    BY TablesAre
  <2> HIDE DEF f
  <2>2. QED
    BY <2>1, StoreFinite, ImageFinite
<1>9. IsFiniteSet(Tables["memory_events"])
  <2> DEFINE f == [i \in Ids |-> EventRow(i)]
  <2>1. Tables["memory_events"] = {f[i] : i \in Ids}
    BY TablesAre
  <2> HIDE DEF f
  <2>2. QED
    BY <2>1, StoreFinite, ImageFinite
<1>10. IsFiniteSet(Tables["memory_links"])
  <2> DEFINE f == [l \in links |-> LinkRow(l)]
  <2>1. Tables["memory_links"] = {f[l] : l \in links}
    BY TablesAre
  <2> HIDE DEF f
  <2>2. QED
    BY <2>1, StoreFinite, ImageFinite
<1>11. IsFiniteSet(Tables["conflicts"])
  <2> DEFINE f == [c \in conflicts |-> ConflictRow(c)]
  <2>1. Tables["conflicts"] = {f[c] : c \in conflicts}
    BY TablesAre
  <2> HIDE DEF f
  <2>2. QED
    BY <2>1, StoreFinite, ImageFinite
<1>12. IsFiniteSet(Tables["entities"])
  <2> DEFINE f == [i \in related |-> EntityRow(i)]
  <2>1. Tables["entities"] = {f[i] : i \in related}
    BY TablesAre
  <2> HIDE DEF f
  <2>2. QED
    BY <2>1, StoreFinite, ImageFinite
<1>13. IsFiniteSet(Tables["relationships"])
  <2> DEFINE f == [i \in related |-> RelationRow(i)]
  <2>1. Tables["relationships"] = {f[i] : i \in related}
    BY TablesAre
  <2> HIDE DEF f
  <2>2. QED
    BY <2>1, StoreFinite, ImageFinite
<1>14. IsFiniteSet(Tables["embeddings"])
  <2> DEFINE f == [i \in WithVector |-> MemoryVector(i)]
             g == [d \in VectorChunks |-> ChunkVector(d)]
             F == {f[i] : i \in WithVector}
             G == {g[d] : d \in VectorChunks}
  <2>1. Tables["embeddings"] = F \cup G
    BY TablesAre
  <2> HIDE DEF f, g
  <2>2. IsFiniteSet(F) /\ IsFiniteSet(G)
    BY StoreFinite, ImageFinite
  <2> HIDE DEF F, G
  <2>3. QED
    BY <2>1, <2>2, FS_Union
<1>15. QED
  BY <1>1, <1>2, <1>3, <1>4, <1>5, <1>6, <1>7, <1>8, <1>9, <1>10, <1>11, <1>12, <1>13, <1>14,
     FourteenTables DEF FiniteTables

-----------------------------------------------------------------------------
(* The archive: what import makes of what the store wrote *)

Metadata == {"schema_migrations", "config_kv"}

\* The store's rows, under whatever metadata.
OfStore(rows) ==
  /\ rows = [t \in AllTables |-> rows[t]]
  /\ \A t \in AllTables \ Metadata : rows[t] = Tables[t]

MetadataKept(rows) == \A t \in Metadata : IsFiniteSet(rows[t]) /\ Kept(rows, t)

\* A file of schema 5 has no place for the cards.
Placed(rows, schema) == schema = 5 => rows["memory_representations"] = {}

LEMMA StoreImports ==
  ASSUME ArchiveInv, NEW rows, OfStore(rows), MetadataKept(rows),
         NEW schema \in {5, 6}, Placed(rows, schema)
  PROVE  FiniteTables(rows) /\ Importable(rows, schema) /\ Carried(rows, schema) = rows
<1>0. /\ Range(TablesOf(schema)) =
           IF schema = 5 THEN AllTables \ {"memory_representations"} ELSE AllTables
      /\ "memory_representations" \notin Owners /\ Owners \subseteq AllTables \ Metadata
  BY TablesInOrder, FourteenTables DEF Owners, Metadata
<1>1. FiniteTables(rows)
  BY TablesFinite DEF FiniteTables, OfStore, MetadataKept
<1>2. \A t \in AllTables : Kept(rows, t)
  <2> TAKE t \in AllTables
  <2>1. CASE t \in Metadata
    BY <2>1 DEF MetadataKept
  <2>2. CASE t \notin Metadata
    <3>1. rows[t] = Tables[t] /\ Kept(Tables, t)
      BY <2>2, KeysAndColumns DEF OfStore
    <3>2. QED
      BY <3>1 DEF Kept
  <2>3. QED
    BY <2>1, <2>2
<1>3. \A t \in Owners : \A id : Has(Tables, t, id) => Has(rows, t, id)
  BY <1>0 DEF OfStore, Has
<1>4. \A t \in AllTables : Referred(rows, t)
  <2> TAKE t \in AllTables
  <2>1. CASE t \in Metadata
    <3>1. \A row : Refs(t, row) = {}
      BY <2>1 DEF Refs, Metadata
    <3>2. QED
      BY <3>1 DEF Referred
  <2>2. CASE t \notin Metadata
    <3>1. rows[t] = Tables[t] /\ Referred(Tables, t)
      BY <2>2, RefsComeFirst DEF OfStore
    <3>2. QED
      BY <3>1 DEF Referred
  <2>3. QED
    BY <2>1, <2>2
<1>5. Importable(rows, schema)
  <2> SUFFICES ASSUME NEW t \in Range(TablesOf(schema)), NEW row \in rows[t]
               PROVE  /\ DOMAIN row = Columns[t]
                      /\ \A other \in rows[t] : other.id = row.id => other = row
                      /\ \A ref \in Refs(t, row) : /\ ref[1] \in Range(TablesOf(schema))
                                                   /\ Place[ref[1]] < Place[t]
                                                   /\ Has(rows, ref[1], ref[2])
    BY DEF Importable
  <2>1. t \in AllTables
    BY <1>0
  <2>2. /\ DOMAIN row = Columns[t]
        /\ \A other \in rows[t] : other.id = row.id => other = row
    BY <1>2, <2>1 DEF Kept
  <2>3. \A ref \in Refs(t, row) :
          ref[1] \in Owners /\ Place[ref[1]] < Place[t] /\ Has(Tables, ref[1], ref[2])
    BY <1>4, <2>1 DEF Referred
  <2>4. QED
    BY <1>0, <1>3, <2>2, <2>3
<1>6. Carried(rows, schema) = rows
  <2>1. \A t \in AllTables : Carried(rows, schema)[t] = rows[t]
    BY <1>0 DEF Carried, Placed
  <2>2. Carried(rows, schema) = [t \in AllTables |-> rows[t]]
    BY <2>1 DEF Carried
  <2>3. QED
    BY <2>2 DEF OfStore
<1>7. QED
  BY <1>1, <1>5, <1>6

LEMMA StoreRows ==
  ASSUME NEW rows, OfStore(rows)
  PROVE  /\ rows["spaces"] = Tables["spaces"] /\ rows["silos"] = Tables["silos"]
         /\ rows["source_episodes"] = Tables["source_episodes"]
         /\ rows["memories"] = Tables["memories"]
         /\ rows["memory_versions"] = Tables["memory_versions"]
         /\ rows["memory_representations"] = Tables["memory_representations"]
         /\ rows["memory_links"] = Tables["memory_links"]
         /\ rows["conflicts"] = Tables["conflicts"] /\ rows["entities"] = Tables["entities"]
         /\ rows["relationships"] = Tables["relationships"]
         /\ rows["embeddings"] = Tables["embeddings"]
BY FourteenTables DEF OfStore, Metadata

LEMMA HomesAre ==
  ASSUME ArchiveInv, NEW rows, OfStore(rows)
  PROVE  /\ \A i \in Ids : Home(rows, "memories", i) = mem[i].space
         /\ \A d \in docs : Home(rows, "source_episodes", d.id) = d.space
         /\ \A i \in related : Home(rows, "entities", mem[i].space) = mem[i].space
<1>1. ASSUME NEW i \in Ids PROVE Home(rows, "memories", i) = mem[i].space
  <2>1. rows["memories"] = {MemoryRow(j) : j \in Ids}
    BY StoreRows, TablesAre
  <2>2. \A j : MemoryRow(j).id = j /\ MemoryRow(j).space = mem[j].space
    BY DEF MemoryRow
  <2>3. \E row \in rows["memories"] : row.id = i
    BY <2>1, <2>2
  <2>4. \A row \in rows["memories"] : row.id = i => row.space = mem[i].space
    BY <2>1, <2>2
  <2>5. QED
    BY <2>3, <2>4 DEF Home
<1>2. ASSUME NEW d \in docs PROVE Home(rows, "source_episodes", d.id) = d.space
  <2>1. rows["source_episodes"] = {SourceRow(e) : e \in docs}
    BY StoreRows, TablesAre
  <2>2. \A e : SourceRow(e).id = e.id /\ SourceRow(e).space = e.space
    BY DEF SourceRow
  <2>3. \A e \in docs : e.id = d.id => e = d
    BY StoreTypes
  <2>4. \E row \in rows["source_episodes"] : row.id = d.id
    BY <2>1, <2>2
  <2>5. \A row \in rows["source_episodes"] : row.id = d.id => row.space = d.space
    BY <2>1, <2>2, <2>3
  <2>6. QED
    BY <2>4, <2>5 DEF Home
<1>3. ASSUME NEW i \in related PROVE Home(rows, "entities", mem[i].space) = mem[i].space
  <2>1. rows["entities"] = {EntityRow(j) : j \in related}
    BY StoreRows, TablesAre
  <2>2. \A j : EntityRow(j).id = mem[j].space /\ EntityRow(j).space = mem[j].space
    BY DEF EntityRow
  <2>3. \E row \in rows["entities"] : row.id = mem[i].space
    BY <2>1, <2>2
  <2>4. \A row \in rows["entities"] : row.id = mem[i].space => row.space = mem[i].space
    BY <2>1, <2>2
  <2>5. QED
    BY <2>3, <2>4 DEF Home
<1>4. QED
  BY <1>1, <1>2, <1>3

LinksApart == \A l \in links : mem[l[1]].space = mem[l[2]].space

\* Import admits what the callers wrote into the rows of memories and chunks.
RowsFit == (\A i \in Ids : details[i].fit) /\ (\A d \in docs : d.fit)

\* The store's own rows pass every other check, unless a link reaches over two
\* spaces.
LEMMA IntegrityIs ==
  ASSUME ArchiveInv, NEW rows, OfStore(rows)
  PROVE  Integrity(rows) <=> RowsFit /\ LinksApart
<1>1. ActiveVersions(rows)
  <2>1. /\ rows["memories"] = {MemoryRow(i) : i \in Ids}
        /\ rows["memory_versions"] = {VersionRow(i) : i \in Ids}
    BY StoreRows, TablesAre
  <2>2. \A i : MemoryRow(i).id = i /\ MemoryRow(i).version = i
    BY DEF MemoryRow
  <2>3. \A i : VersionRow(i).id = i /\ VersionRow(i).memory = i
    BY DEF VersionRow
  <2>4. QED
    BY <2>1, <2>2, <2>3 DEF ActiveVersions
<1>2. DefaultSilos(rows)
  <2>1. rows["spaces"] = {SpaceRow(s) : s \in DOMAIN defaults}
    BY StoreRows, TablesAre
  <2>2. \A s : SpaceRow(s).id = s /\ SpaceRow(s).silo = defaults[s]
    BY DEF SpaceRow
  <2>3. \A s \in DOMAIN defaults : Has(rows, "silos", <<s, defaults[s]>>)
    <3>1. rows["silos"] = Tables["silos"]
      BY StoreRows
    <3>2. \A s \in DOMAIN defaults : Has(Tables, "silos", <<s, defaults[s]>>)
      BY StoreTypes, OwnersHave
    <3>3. QED
      BY <3>1, <3>2 DEF Has
  <2>4. QED
    BY <2>1, <2>2, <2>3 DEF DefaultSilos
<1>3. SoundSpaces(rows)
  <2>1. /\ rows["spaces"] = {SpaceRow(s) : s \in DOMAIN defaults}
        /\ rows["silos"] = {SiloRow(p) : p \in silos}
    BY StoreRows, TablesAre
  <2>2. \A s : SpaceRow(s).sound /\ SiloRow(s).sound
    BY DEF SpaceRow, SiloRow
  <2>3. \A row \in rows["spaces"] \cup rows["silos"] : row.sound
    BY <2>1, <2>2
  <2>4. QED
    BY <2>3 DEF SoundSpaces
<1>4. SoundSources(rows) <=> \A d \in docs : d.fit
  <2>1. rows["source_episodes"] = {SourceRow(d) : d \in docs}
    BY StoreRows, TablesAre
  <2>2. \A d : SourceRow(d).sound = d.fit
    BY DEF SourceRow
  <2>3. QED
    BY <2>1, <2>2 DEF SoundSources
<1>5. SoundMemories(rows) <=> \A i \in Ids : details[i].fit
  <2>1. rows["memories"] = {MemoryRow(i) : i \in Ids}
    BY StoreRows, TablesAre
  <2>2. \A i : MemoryRow(i).sound = details[i].fit
    BY DEF MemoryRow
  <2>3. QED
    BY <2>1, <2>2 DEF SoundMemories
<1>6. SoundVersions(rows)
  <2>1. rows["memory_versions"] = {VersionRow(i) : i \in Ids}
    BY StoreRows, TablesAre
  <2>2. \A i : VersionRow(i).sound
    BY DEF VersionRow
  <2>3. QED
    BY <2>1, <2>2 DEF SoundVersions
<1>7. SoundCards(rows)
  <2>1. rows["memory_representations"] = {CardRow(i) : i \in WithCard}
    BY StoreRows, TablesAre
  <2>2. \A i : CardRow(i).sound
    BY DEF CardRow
  <2>3. QED
    BY <2>1, <2>2 DEF SoundCards
<1>8. \A m \in rows["memories"] :
        m.source # None => Home(rows, "source_episodes", m.source) = m.space
  <2>1. rows["memories"] = {MemoryRow(i) : i \in Ids}
    BY StoreRows, TablesAre
  <2>2. \A i : MemoryRow(i).source = details[i].source /\ MemoryRow(i).space = mem[i].space
    BY DEF MemoryRow
  <2>3. \A i \in Ids : details[i].source # None =>
          Home(rows, "source_episodes", details[i].source) = mem[i].space
    <3> TAKE i \in Ids
    <3>1. HAVE details[i].source # None
    <3>2. PICK d \in docs : d.id = details[i].source /\ d.space = mem[i].space
      BY <3>1, StoreTypes
    <3>3. QED
      BY <3>2, HomesAre
  <2>4. QED
    BY <2>1, <2>2, <2>3
<1>9. (\A l \in rows["memory_links"] :
         Home(rows, "memories", l.id[1]) = Home(rows, "memories", l.id[2])) <=> LinksApart
  <2>1. rows["memory_links"] = {LinkRow(l) : l \in links}
    BY StoreRows, TablesAre
  <2>2. \A l : LinkRow(l).id = l
    BY DEF LinkRow
  <2>3. \A l \in links : /\ Home(rows, "memories", l[1]) = mem[l[1]].space
                         /\ Home(rows, "memories", l[2]) = mem[l[2]].space
    BY StoreTypes, HomesAre
  <2>4. QED
    BY <2>1, <2>2, <2>3 DEF LinksApart
<1>10. \A c \in rows["conflicts"] :
         \A k \in 1..2 : Home(rows, "memories", c.id[k]) = c.space
  <2>1. rows["conflicts"] = {ConflictRow(c) : c \in conflicts}
    BY StoreRows, TablesAre
  <2>2. \A c : ConflictRow(c).id = c /\ ConflictRow(c).space = mem[c[1]].space
    BY DEF ConflictRow
  <2>3. \A c \in conflicts : /\ Home(rows, "memories", c[1]) = mem[c[1]].space
                             /\ Home(rows, "memories", c[2]) = mem[c[2]].space
                             /\ mem[c[1]].space = mem[c[2]].space
    <3> TAKE c \in conflicts
    <3>1. c[1] \in Ids /\ c[2] \in Ids /\ c = <<c[1], c[2]>>
      BY StoreTypes
    <3>2. mem[c[1]].space = mem[c[2]].space
      BY <3>1 DEF ArchiveInv, CrossInv
    <3>3. QED
      BY <3>1, <3>2, HomesAre
  <2>4. QED
    BY <2>1, <2>2, <2>3
<1>11. GraphApart(rows)
  <2>1. rows["relationships"] = {RelationRow(i) : i \in related}
    BY StoreRows, TablesAre
  <2>2. \A i : /\ RelationRow(i).id = i /\ RelationRow(i).space = mem[i].space
               /\ RelationRow(i).entity = mem[i].space
    BY DEF RelationRow
  <2>3. \A i \in related : /\ Home(rows, "memories", i) = mem[i].space
                           /\ Home(rows, "entities", mem[i].space) = mem[i].space
    BY StoreTypes, HomesAre
  <2>4. QED
    BY <2>1, <2>2, <2>3 DEF GraphApart
<1>12. MemoriesApart(rows) <=> LinksApart
  BY <1>8, <1>9, <1>10 DEF MemoriesApart
<1>13. QED
  BY <1>1, <1>2, <1>3, <1>4, <1>5, <1>6, <1>7, <1>11, <1>12
  DEF Integrity, RowsFit

LEMMA VectorsIs ==
  ASSUME ArchiveInv, NEW rows, OfStore(rows)
  PROVE  VectorsReadable(rows) <=> VectorChunks = {}
<1>1. rows["embeddings"] =
        {MemoryVector(i) : i \in WithVector} \cup {ChunkVector(d) : d \in VectorChunks}
  BY StoreRows, TablesAre
<1>2. \A i : MemoryVector(i).id[1] = i
  BY DEF MemoryVector
<1>3. \A d : ChunkVector(d).id[1] = None
  BY DEF ChunkVector
<1>4. \A i \in WithVector : i # None
  BY StoreTypes DEF WithVector
<1>5. QED
  BY <1>1, <1>2, <1>3, <1>4 DEF VectorsReadable

\* There is nothing to clean up.
LEMMA CleanedIs ==
  ASSUME ArchiveInv, NEW rows, OfStore(rows)
  PROVE  Cleaned(rows) = rows
<1> DEFINE used == {<<m.space, m.silo>> : m \in rows["memories"]}
           spaces == {IF s.id = DefaultSpace /\ s.silo = LongTerm
                      THEN [s EXCEPT !.silo = Durable] ELSE s : s \in rows["spaces"]}
           kept == {s \in rows["silos"] : s.id # <<DefaultSpace, LongTerm>> \/ s.id \in used}
<1>1. Cleaned(rows) = [rows EXCEPT !["spaces"] = spaces, !["silos"] = kept]
  BY DEF Cleaned
<1>2. defaults[DefaultSpace] = Durable /\ <<DefaultSpace, LongTerm>> \notin silos
  <2>1. defaults[DefaultSpace] = Durable
    BY DEF ArchiveInv, DefaultsSeeded
  <2>2. \A p \in silos : p[2] \in {ShortTerm, Durable, defaults[p[1]]}
    BY StoreTypes
  <2>3. QED
    BY <2>1, <2>2 DEF ShortTerm, Durable, LongTerm
<1>3. spaces = rows["spaces"]
  <2>1. rows["spaces"] = {SpaceRow(s) : s \in DOMAIN defaults}
    BY StoreRows, TablesAre
  <2>2. \A s : SpaceRow(s).id = s /\ SpaceRow(s).silo = defaults[s]
    BY DEF SpaceRow
  <2>3. Durable # LongTerm
    BY DEF Durable, LongTerm
  <2>4. \A s \in rows["spaces"] : ~(s.id = DefaultSpace /\ s.silo = LongTerm)
    BY <1>2, <2>1, <2>2, <2>3
  <2>5. QED
    BY <2>4
<1>4. kept = rows["silos"]
  <2>1. rows["silos"] = {SiloRow(p) : p \in silos}
    BY StoreRows, TablesAre
  <2>2. \A p : SiloRow(p).id = p
    BY DEF SiloRow
  <2>3. \A s \in rows["silos"] : s.id # <<DefaultSpace, LongTerm>>
    BY <1>2, <2>1, <2>2
  <2>4. QED
    BY <2>3
<1> HIDE DEF spaces, kept
<1>5. QED
  BY <1>1, <1>3, <1>4 DEF OfStore

\* The configuration, under this build's name.
Renamed(rows, schema) ==
  {CASE row.id = "schema_version" /\ schema = 5 -> [row EXCEPT !.value = 6]
     [] row.id = "protocol_version" -> [row EXCEPT !.value = "ours"]
     [] OTHER -> row : row \in rows["config_kv"]}

\* The metadata is made this build's own, and nothing else is touched.
LEMMA NormalisedIs ==
  ASSUME NEW rows, OfStore(rows), NEW schema
  PROVE  LET norm == Normalised(rows, schema) IN
         /\ OfStore(norm)
         /\ norm["schema_migrations"] = Completed(rows["schema_migrations"], {[id |-> 6]})
         /\ norm["config_kv"] = Completed(Renamed(rows, schema), Config(6, "ours"))
<1> DEFINE M == Completed(rows["schema_migrations"], {[id |-> 6]})
           C == Completed(Renamed(rows, schema), Config(6, "ours"))
           norm == Normalised(rows, schema)
<1>1. norm = [rows EXCEPT !["schema_migrations"] = M, !["config_kv"] = C]
  BY Zenon DEF Normalised, Renamed
<1> HIDE DEF M, C, norm
<1>2. /\ norm = [t \in AllTables |-> norm[t]]
      /\ \A t \in AllTables \ Metadata : norm[t] = rows[t]
      /\ norm["schema_migrations"] = M /\ norm["config_kv"] = C
  BY <1>1, FourteenTables DEF OfStore, Metadata
<1>3. OfStore(norm)
  BY <1>2 DEF OfStore
<1>4. QED
  BY <1>2, <1>3, Zenon DEF M, C, norm

\* What import answers about the store's own rows.
LEMMA ImportOf ==
  ASSUME ArchiveInv, NEW rows, OfStore(rows), MetadataKept(rows),
         NEW schema \in {5, 6}, Placed(rows, schema)
  PROVE  LET imported == Import(ArchiveOf(rows, schema)) IN
         /\ imported.rows = Normalised(rows, schema)
         /\ imported.ok <=> /\ RowsFit /\ LinksApart /\ VectorChunks = {}
                            /\ Initialized(Normalised(rows, schema))
<1> DEFINE p == Parsed(ArchiveOf(rows, schema))
           norm == Normalised(rows, schema)
<1>1. p.ok /\ p.footer /\ p.schema = schema /\ p.rows = rows
  BY StoreImports, ReadBack
<1>2. OfStore(norm)
  BY NormalisedIs
<1>3. Import(ArchiveOf(rows, schema)) =
        [ok |-> /\ p.ok /\ p.footer
                /\ Integrity(norm) /\ VectorsReadable(norm) /\ Initialized(norm),
         rows |-> Cleaned(norm)]
  <2> HIDE DEF p
  <2>1. Normalised(p.rows, p.schema) = norm
    BY <1>1
  <2>2. QED
    BY <2>1, Zenon DEF Import, p
<1>4. /\ Cleaned(norm) = norm /\ (Integrity(norm) <=> RowsFit /\ LinksApart)
      /\ VectorsReadable(norm) <=> VectorChunks = {}
  BY <1>2, CleanedIs, IntegrityIs, VectorsIs
<1> HIDE DEF p, norm
<1>5. Import(ArchiveOf(rows, schema)).rows = norm
  BY <1>3, <1>4
<1>6. Import(ArchiveOf(rows, schema)).ok <=> 
        /\ p.ok /\ p.footer
        /\ Integrity(norm) /\ VectorsReadable(norm) /\ Initialized(norm)
  BY <1>3
<1>7. QED
  BY <1>1, <1>4, <1>5, <1>6 DEF norm

\* The three rows of config_kv.
Version(v) == [id |-> "schema_version", value |-> v]
Protocol(name) == [id |-> "protocol_version", value |-> name]
SpaceConfig == [id |-> "default_space", value |-> DefaultSpace]

LEMMA ConfigIs ==
  ASSUME NEW schema, NEW protocol
  PROVE  /\ Config(schema, protocol) = {Version(schema), Protocol(protocol), SpaceConfig}
         /\ Version(schema).id = "schema_version"
         /\ Protocol(protocol).id = "protocol_version" /\ SpaceConfig.id = "default_space"
         /\ [Version(schema) EXCEPT !.value = 6] = Version(6)
         /\ [Protocol(protocol) EXCEPT !.value = "ours"] = Protocol("ours")
BY DEF Config, Version, Protocol, SpaceConfig

LEMMA CompletedIs ==
  ASSUME NEW rows, NEW known
  PROVE  /\ Completed({}, known) = known /\ Completed(known, known) = known
         /\ \A row \in known : \E had \in Completed(rows, known) : had.id = row.id
<1>1. Completed({}, known) = known
  BY DEF Completed, Keyed
<1>2. Completed(known, known) = known
  BY DEF Completed
<1>3. \A row \in known : \E had \in Completed(rows, known) : had.id = row.id
  BY DEF Completed, Keyed
<1>4. QED
  BY <1>1, <1>2, <1>3

LEMMA MetadataIs ==
  ASSUME NEW rows, OfStore(rows), NEW schema \in {5, 6},
         \/ rows["config_kv"] = {}
         \/ rows["config_kv"] = Config(schema, "ours")
         \/ rows["config_kv"] = Config(schema, "theirs")
  PROVE  /\ Normalised(rows, schema)["config_kv"] = Config(6, "ours")
         /\ Has(Normalised(rows, schema), "schema_migrations", 6)
<1> DEFINE norm == Normalised(rows, schema)
           New(row) == CASE row.id = "schema_version" /\ schema = 5 -> [row EXCEPT !.value = 6]
                         [] row.id = "protocol_version" -> [row EXCEPT !.value = "ours"]
                         [] OTHER -> row
           config == Renamed(rows, schema)
           ours == Config(6, "ours")
<1>1. /\ norm["schema_migrations"] = Completed(rows["schema_migrations"], {[id |-> 6]})
      /\ norm["config_kv"] = Completed(config, ours)
  BY NormalisedIs, Zenon
<1>0. config = {New(row) : row \in rows["config_kv"]}
  BY Zenon DEF Renamed
<1> HIDE DEF norm, config
<1>2. Has(norm, "schema_migrations", 6)
  <2> DEFINE row6 == [id |-> 6]
  <2>1. row6.id = 6
    OBVIOUS
  <2>2. norm["schema_migrations"] = Completed(rows["schema_migrations"], {row6})
    BY <1>1
  <2> HIDE DEF row6
  <2>3. \A row \in {row6} : \E had \in Completed(rows["schema_migrations"], {row6}) :
          had.id = row.id
    BY CompletedIs
  <2>4. QED
    BY <2>1, <2>2, <2>3 DEF Has
<1>3. ASSUME NEW protocol, rows["config_kv"] = Config(schema, protocol)
      PROVE  config = ours
  <2> DEFINE v == Version(schema)
             q == Protocol(protocol)
  <2>1. rows["config_kv"] = {v, q, SpaceConfig} /\ ours = {Version(6), Protocol("ours"), SpaceConfig}
    BY <1>3, ConfigIs
  <2>2. /\ v.id = "schema_version" /\ q.id = "protocol_version" /\ SpaceConfig.id = "default_space"
        /\ [v EXCEPT !.value = 6] = Version(6) /\ [q EXCEPT !.value = "ours"] = Protocol("ours")
        /\ schema # 5 => v = Version(6)
    BY ConfigIs
  <2> HIDE DEF v, q
  <2>3. New(v) = Version(6)
    BY <2>2
  <2>4. New(q) = Protocol("ours")
    BY <2>2
  <2>5. New(SpaceConfig) = SpaceConfig
    BY <2>2
  <2> HIDE DEF New, ours
  <2>6. QED
    BY <1>0, <2>1, <2>3, <2>4, <2>5
<1>4. CASE rows["config_kv"] = {}
  <2>1. config = {}
    BY <1>0, <1>4
  <2>2. norm["config_kv"] = ours
    BY <1>1, <2>1, CompletedIs
  <2>3. QED
    BY <1>2, <2>2 DEF norm
<1>5. CASE config = ours
  <2> HIDE DEF config, ours
  <2>1. norm["config_kv"] = ours
    BY <1>1, <1>5, CompletedIs
  <2>2. QED
    BY <1>2, <2>1 DEF norm, ours
<1>6. QED
  BY <1>3, <1>4, <1>5

\* What the store wrote comes back as it was.
LEMMA OwnImport ==
  ASSUME ArchiveInv
  PROVE  /\ Import(Export).rows = Tables
         /\ Import(Export).ok <=> RowsFit /\ LinksApart /\ VectorChunks = {}
<1>1. OfStore(Tables)
  BY DEF OfStore, Tables, AllTables
<1>2. MetadataKept(Tables)
  BY TablesFinite, KeysAndColumns, FourteenTables DEF MetadataKept, Metadata, FiniteTables
<1>3. Placed(Tables, 6)
  BY DEF Placed
<1> DEFINE norm == Normalised(Tables, 6)
<1>4. /\ OfStore(norm)
      /\ norm["schema_migrations"] = Completed(Tables["schema_migrations"], {[id |-> 6]})
  BY <1>1, NormalisedIs
<1>5. norm["config_kv"] = Config(6, "ours") /\ Has(norm, "schema_migrations", 6)
  BY <1>1, MetadataIs, TablesAre
<1> HIDE DEF norm
<1>6. norm["schema_migrations"] = Tables["schema_migrations"]
  <2> DEFINE row6 == [id |-> 6]
             M == Tables["schema_migrations"]
  <2>1. row6 \in M
    BY TablesAre
  <2> HIDE DEF row6, M
  <2>2. Completed(M, {row6}) = M
    BY <2>1 DEF Completed, Keyed
  <2>3. QED
    BY <1>4, <2>2 DEF row6, M
<1>7. norm = Tables
  <2>1. \A t \in AllTables : norm[t] = Tables[t]
    BY <1>4, <1>5, <1>6, TablesAre DEF OfStore, Metadata
  <2>2. norm = [t \in AllTables |-> norm[t]] /\ Tables = [t \in AllTables |-> Tables[t]]
    BY <1>1, <1>4 DEF OfStore
  <2>3. QED
    BY <2>1, <2>2
<1>8. Initialized(Tables)
  <2>1. Has(Tables, "spaces", DefaultSpace)
    BY OwnersHave DEF ArchiveInv, DefaultsSeeded
  <2>2. QED
    BY <1>5, <1>7, <2>1 DEF Initialized
<1>9. /\ Import(ArchiveOf(Tables, 6)).rows = norm
      /\ Import(ArchiveOf(Tables, 6)).ok <=>
           RowsFit /\ LinksApart /\ VectorChunks = {} /\ Initialized(norm)
  BY <1>1, <1>2, <1>3, ImportOf DEF norm
<1>10. QED
  BY <1>7, <1>8, <1>9 DEF Export

LEMMA CardOfIs ==
  ASSUME ArchiveInv, NEW i \in Ids, NEW m, m.version = i
  PROVE  CardOf(Tables, m) = details[i].card
<1> DEFINE R == Tables["memory_representations"]
           cards == {row \in R : row.id = i}
<1>1. CardOf(Tables, m) = IF cards = {} THEN Summary ELSE (CHOOSE row \in cards : TRUE).text
  BY DEF CardOf
<1>2. R = {CardRow(j) : j \in WithCard}
  BY TablesAre
<1>3. \A j : CardRow(j).id = j /\ CardRow(j).text = details[j].card
  BY DEF CardRow
<1> HIDE DEF R
<1>4. CASE i \in WithCard
  <2>1. cards # {} /\ \A row \in cards : row.text = details[i].card
    BY <1>2, <1>3, <1>4
  <2> HIDE DEF cards
  <2>2. QED
    BY <1>1, <2>1
<1>5. CASE i \notin WithCard
  <2>1. cards = {}
    BY <1>2, <1>3, <1>5
  <2>2. details[i].card = Summary
    BY <1>5 DEF WithCard
  <2>3. QED
    BY <1>1, <2>1, <2>2
<1>6. QED
  BY <1>4, <1>5

LEMMA RoundTripIs ==
  ASSUME ArchiveInv
  PROVE  RoundTrip
BY OwnImport DEF RoundTrip, Export

LEMMA SearchSurvivesIs ==
  ASSUME ArchiveInv
  PROVE  SearchSurvives
<1> DEFINE New(m) == [id |-> m.id, fts |-> FtsRow(m), text |-> CardOf(Tables, m)]
           Old(i) == [id |-> i, fts |-> fts[i], text |-> served[i]]
<1>1. Tables["memories"] = {MemoryRow(i) : i \in Ids}
  BY TablesAre
<1>2. \A i \in Ids : New(MemoryRow(i)) = Old(i)
  <2> TAKE i \in Ids
  <2>1. /\ MemoryRow(i).id = i /\ MemoryRow(i).version = i
        /\ MemoryRow(i).status = mem[i].status /\ MemoryRow(i).silo = mem[i].silo
    BY DEF MemoryRow
  <2>2. FtsRow(MemoryRow(i)) = fts[i]
    BY <2>1 DEF FtsRow, ArchiveInv, FtsMirrorsMemory
  <2>3. CardOf(Tables, MemoryRow(i)) = served[i]
    BY <2>1, CardOfIs DEF ArchiveInv, CardsServed
  <2>4. QED
    BY <2>1, <2>2, <2>3
<1> HIDE DEF New, Old
<1>3. {New(m) : m \in Tables["memories"]} = {Old(i) : i \in Ids}
  BY <1>1, <1>2
<1>4. Projected(Tables) = {Old(i) : i \in Ids}
  BY <1>3, Zenon DEF Projected, New
<1>5. Import(Export).rows = Tables
  BY OwnImport
<1>6. QED
  BY <1>4, <1>5, Zenon DEF SearchSurvives, Old

LEMMA KnownReasons ==
  ASSUME ArchiveInv
  PROVE  RefusedOnlyForKnownReasons
<1> SUFFICES ASSUME ~Import(Export).ok
             PROVE  \/ \E l \in links : l[3] = "contradicts" /\ mem[l[1]].space # mem[l[2]].space
                    \/ \E d \in docs : d.vector \/ ~d.fit
                    \/ \E i \in Ids : ~details[i].fit
  BY DEF RefusedOnlyForKnownReasons, ExportsReload
<1>1. ~RowsFit \/ ~LinksApart \/ VectorChunks # {}
  BY OwnImport
<1>2. ASSUME NEW l \in links, mem[l[1]].space # mem[l[2]].space PROVE l[3] = "contradicts"
  <2>1. l[1] \in Ids /\ l[2] \in Ids /\ l[3] \in LinkTypes /\ <<l[1], l[2], l[3]>> \in links
    BY StoreTypes
  <2>2. QED
    BY <1>2, <2>1 DEF ArchiveInv, CrossInv
<1>3. QED
  BY <1>1, <1>2 DEF RowsFit, LinksApart, VectorChunks

\* The store's rows under another producer's metadata import as its own do.
LEMMA OtherImports ==
  ASSUME ArchiveInv, NEW rows, OfStore(rows), MetadataKept(rows),
         NEW schema \in {5, 6}, Placed(rows, schema),
         \/ rows["config_kv"] = {}
         \/ rows["config_kv"] = Config(schema, "ours")
         \/ rows["config_kv"] = Config(schema, "theirs"),
         ExportsReload
  PROVE  LET imported == Import(ArchiveOf(rows, schema)) IN
         imported.ok /\ \A t \in Range(ExportTables) \ {"schema_migrations"} :
                          imported.rows[t] = Tables[t]
<1> DEFINE norm == Normalised(rows, schema)
<1>1. RowsFit /\ LinksApart /\ VectorChunks = {}
  BY OwnImport DEF ExportsReload
<1>2. /\ Import(ArchiveOf(rows, schema)).rows = norm
      /\ Import(ArchiveOf(rows, schema)).ok <=>
           RowsFit /\ LinksApart /\ VectorChunks = {} /\ Initialized(norm)
  BY ImportOf
<1>3. norm["config_kv"] = Config(6, "ours") /\ Has(norm, "schema_migrations", 6)
  BY MetadataIs
<1>4. OfStore(norm)
  BY NormalisedIs
<1> HIDE DEF norm
<1>5. Has(norm, "spaces", DefaultSpace)
  <2>1. Has(Tables, "spaces", DefaultSpace)
    BY OwnersHave DEF ArchiveInv, DefaultsSeeded
  <2>2. norm["spaces"] = Tables["spaces"]
    BY <1>4, StoreRows
  <2>3. QED
    BY <2>1, <2>2 DEF Has
<1>6. Initialized(norm)
  BY <1>3, <1>5 DEF Initialized
<1>7. \A t \in AllTables \ {"schema_migrations"} : norm[t] = Tables[t]
  BY <1>3, <1>4, TablesAre DEF OfStore, Metadata
<1>8. QED
  BY <1>1, <1>2, <1>6, <1>7 DEF AllTables

LEMMA OthersImport ==
  ASSUME ArchiveInv
  PROVE  OtherProducersImport
<1> DEFINE bare == [Tables EXCEPT !["schema_migrations"] = {}, !["config_kv"] = {}]
           theirs == [Tables EXCEPT !["config_kv"] = Config(6, "theirs")]
           older == [Tables EXCEPT !["schema_migrations"] = {[id |-> 5]},
                                   !["config_kv"] = Config(5, "ours")]
           Good(s) == LET imported == Import(s) IN
                      imported.ok /\ \A t \in Range(ExportTables) \ {"schema_migrations"} :
                                       imported.rows[t] = Tables[t]
<1>1. Tables = [t \in AllTables |-> Tables[t]]
  BY DEF Tables, AllTables
<1>2. /\ bare = [t \in AllTables |-> bare[t]] /\ theirs = [t \in AllTables |-> theirs[t]]
      /\ older = [t \in AllTables |-> older[t]]
      /\ bare["schema_migrations"] = {} /\ bare["config_kv"] = {}
      /\ theirs["schema_migrations"] = Tables["schema_migrations"]
      /\ theirs["config_kv"] = Config(6, "theirs")
      /\ older["schema_migrations"] = {[id |-> 5]} /\ older["config_kv"] = Config(5, "ours")
      /\ \A t \in AllTables \ Metadata :
           bare[t] = Tables[t] /\ theirs[t] = Tables[t] /\ older[t] = Tables[t]
  BY <1>1, FourteenTables DEF Metadata
<1>3. \A schema, protocol :
        /\ IsFiniteSet(Config(schema, protocol))
        /\ \A row, other \in Config(schema, protocol) :
             DOMAIN row = Columns["config_kv"] /\ (other.id = row.id => other = row)
  <2> TAKE schema, protocol
  <2>1. IsFiniteSet(Config(schema, protocol))
    BY MetadataFinite
  <2>2. /\ Config(schema, protocol) = {Version(schema), Protocol(protocol), SpaceConfig}
        /\ Version(schema).id = "schema_version"
        /\ Protocol(protocol).id = "protocol_version" /\ SpaceConfig.id = "default_space"
    BY ConfigIs
  <2>3. /\ DOMAIN Version(schema) = Columns["config_kv"]
        /\ DOMAIN Protocol(protocol) = Columns["config_kv"]
        /\ DOMAIN SpaceConfig = Columns["config_kv"]
    BY DEF Version, Protocol, SpaceConfig, Columns
  <2>4. QED
    BY <2>1, <2>2, <2>3
<1>4. IsFiniteSet({[id |-> 5]}) /\ DOMAIN [id |-> 5] = Columns["schema_migrations"]
  BY MetadataFinite DEF Columns
<1>5. IsFiniteSet({})
  BY FS_EmptySet
<1>6. IsFiniteSet(Tables["schema_migrations"]) /\ Kept(Tables, "schema_migrations")
  BY TablesFinite, KeysAndColumns, FourteenTables DEF FiniteTables
<1> HIDE DEF bare, theirs, older
<1>7. OfStore(bare) /\ OfStore(theirs) /\ OfStore(older)
  BY <1>2 DEF OfStore
<1>8. MetadataKept(bare)
  BY <1>2, <1>5 DEF MetadataKept, Metadata, Kept
<1>9. MetadataKept(theirs)
  <2>1. Kept(theirs, "config_kv") /\ IsFiniteSet(theirs["config_kv"])
    BY <1>2, <1>3 DEF Kept
  <2>2. Kept(theirs, "schema_migrations") /\ IsFiniteSet(theirs["schema_migrations"])
    BY <1>2, <1>6 DEF Kept
  <2>3. QED
    BY <2>1, <2>2 DEF MetadataKept, Metadata
<1>10. MetadataKept(older)
  <2>1. Kept(older, "config_kv") /\ IsFiniteSet(older["config_kv"])
    BY <1>2, <1>3 DEF Kept
  <2>2. Kept(older, "schema_migrations") /\ IsFiniteSet(older["schema_migrations"])
    BY <1>2, <1>4 DEF Kept
  <2>3. QED
    BY <2>1, <2>2 DEF MetadataKept, Metadata
<1>11. ASSUME ExportsReload
       PROVE  /\ Good(ArchiveOf(bare, 6)) /\ Good(ArchiveOf(theirs, 6))
              /\ Tables["memory_representations"] = {} => Good(ArchiveOf(older, 5))
  <2>1. Good(ArchiveOf(bare, 6))
    <3>1. Placed(bare, 6)
      BY DEF Placed
    <3>2. QED
      BY <1>2, <1>7, <1>8, <1>11, <3>1, OtherImports
  <2>2. Good(ArchiveOf(theirs, 6))
    <3>1. Placed(theirs, 6)
      BY DEF Placed
    <3>2. QED
      BY <1>2, <1>7, <1>9, <1>11, <3>1, OtherImports
  <2>3. ASSUME Tables["memory_representations"] = {} PROVE Good(ArchiveOf(older, 5))
    <3>1. Placed(older, 5)
      BY <1>7, <2>3, StoreRows DEF Placed
    <3>2. QED
      BY <1>2, <1>7, <1>10, <1>11, <3>1, OtherImports
  <2>4. QED
    BY <2>1, <2>2, <2>3
<1>12. \A s \in Foreign : \/ s = ArchiveOf(bare, 6) \/ s = ArchiveOf(theirs, 6)
                          \/ s = ArchiveOf(older, 5) /\ Tables["memory_representations"] = {}
  BY DEF Foreign, bare, theirs, older
<1>13. ASSUME ExportsReload, NEW s \in Foreign PROVE Good(s)
  <2> HIDE DEF Good
  <2>1. QED
    BY <1>11, <1>12, <1>13
<1>14. QED
  BY <1>13 DEF OtherProducersImport

-----------------------------------------------------------------------------
(* The archive: the inductive step *)

\* A promoted memory finds the silo it moves to.
LEMMA HomesNext ==
  ASSUME ArchiveInv, [ArchiveNext]_archiveVars, NEW i \in Ids
  PROVE  /\ i \in Ids' /\ mem'[i].space = mem[i].space
         /\ <<mem'[i].space, mem'[i].silo>> \in silos'
<1>1. /\ i \in Ids' /\ mem'[i].space = mem[i].space
      /\ mem'[i].silo = mem[i].silo \/ mem'[i].silo = Durable
  BY HomeStays DEF ArchiveInv, ArchiveTypeOK
<1>2. /\ <<mem[i].space, mem[i].silo>> \in silos /\ mem[i].space \in DOMAIN defaults
  BY StoreTypes
<1>3. /\ silos \subseteq silos' /\ mem[i].space \in DOMAIN defaults'
      /\ DOMAIN defaults' \subseteq Spaces /\ DefaultsSeeded'
  BY <1>2, DefaultsNext
<1>4. <<mem[i].space, Durable>> \in silos'
  BY <1>3, RequestAssumption DEF DefaultsSeeded
<1>5. QED
  BY <1>1, <1>2, <1>3, <1>4

\* What is served, after a reindex and in the new file: the card of the memory.
LEMMA ServedNext ==
  ASSUME ArchiveInv,
         \/ served' = served
         \/ \E tasks \in DreamTaskSets : Maintain(tasks)
         \/ Reload
  PROVE  served' \in [Ids -> Cards \cup {Summary}] /\ \A i \in Ids : served'[i] = details[i].card
<1>0. /\ served \in [Ids -> Cards \cup {Summary}] /\ \A i \in Ids : served[i] = details[i].card
      /\ details \in [Ids -> Detail]
  BY DEF ArchiveInv, ArchiveTypeOK, CardsServed
<1>1. \A i \in Ids : details[i].card \in Cards \cup {Summary}
  BY <1>0 DEF Detail
<1>2. ASSUME served' = [i \in Ids |-> details[i].card]
      PROVE  served' \in [Ids -> Cards \cup {Summary}] /\ \A i \in Ids : served'[i] = details[i].card
  BY <1>1, <1>2
<1>3. CASE served' = [i \in Ids |-> CardOf(Tables, [version |-> i])]
  <2>1. \A i \in Ids : CardOf(Tables, [version |-> i]) = details[i].card
    BY CardOfIs
  <2>2. QED
    BY <1>2, <1>3, <2>1
<1>4. CASE Reload
  <2> DEFINE imported == Import(Export)
             row(i) == CHOOSE m \in Tables["memories"] : m.id = i
  <2>1. imported.rows = Tables
    BY OwnImport
  <2>2. served' = [i \in Ids |-> CardOf(imported.rows, CHOOSE m \in imported.rows["memories"] :
                                                         m.id = i)]
    BY <1>4 DEF Reload
  <2>3. \A i \in Ids : row(i).version = i
    <3> TAKE i \in Ids
    <3>1. Tables["memories"] = {MemoryRow(j) : j \in Ids}
      BY TablesAre
    <3>2. \A j : MemoryRow(j).id = j /\ MemoryRow(j).version = j
      BY DEF MemoryRow
    <3>3. row(i) \in Tables["memories"] /\ row(i).id = i
      BY <3>1, <3>2
    <3> HIDE DEF row
    <3>4. QED
      BY <3>1, <3>2, <3>3
  <2>4. \A i \in Ids : CardOf(Tables, row(i)) = details[i].card
    <3> HIDE DEF row
    <3>1. QED
      BY <2>3, CardOfIs
  <2>5. served' = [i \in Ids |-> CardOf(Tables, row(i))]
    BY <2>1, <2>2
  <2> HIDE DEF row
  <2>6. QED
    BY <1>2, <2>4, <2>5
<1>5. QED
  BY <1>0, <1>3, <1>4 DEF Maintain

\* What the archive asks of every memory.
Settled(i) ==
  /\ <<mem[i].space, mem[i].silo>> \in silos
  /\ details[i].source \in {None} \cup {d.id : d \in docs}
  /\ \A d \in docs : d.id = details[i].source => d.space = mem[i].space
  /\ served[i] = details[i].card

Settling ==
  /\ details \in [Ids -> Detail] /\ served \in [Ids -> Cards \cup {Summary}]
  /\ \A i \in Ids : Settled(i)
  /\ related \subseteq Ids

\* A step that makes no memory and prunes no chunk.
LEMMA QuietNext ==
  ASSUME ArchiveInv, [ArchiveNext]_archiveVars, count' = count, details' \in [Ids -> Detail],
         \A i \in Ids : details'[i].source = details[i].source /\ details'[i].card = details[i].card,
         served' \in [Ids -> Cards \cup {Summary}],
         \A i \in Ids : served'[i] = details[i].card,
         related' \subseteq Ids, docs \subseteq docs',
         \A d \in docs' \ docs : d.id > chunk
  PROVE  Settling'
<1>1. Ids' = Ids
  BY DEF Ids
<1>2. \A i \in Ids : /\ details'[i].source = details[i].source
                     /\ served'[i] = details'[i].card
  OBVIOUS
<1>3. ASSUME NEW i \in Ids PROVE Settled(i)'
  <2>1. /\ mem'[i].space = mem[i].space /\ <<mem'[i].space, mem'[i].silo>> \in silos'
    BY HomesNext
  <2>2. /\ details[i].source \in {None} \cup {d.id : d \in docs}
        /\ \A d \in docs : d.id = details[i].source => d.space = mem[i].space
        /\ \A d \in docs : d.id <= chunk /\ d.id \in Nat
        /\ chunk \in Nat
    <3>1. docs \subseteq Chunk /\ chunk \in 0..MaxChunks
      BY DEF ArchiveInv, ArchiveTypeOK
    <3>2. \A d \in docs : d.id \in Nat
      BY <3>1 DEF Chunk
    <3>3. /\ details[i].source \in {None} \cup {d.id : d \in docs}
          /\ \A d \in docs : d.id = details[i].source => d.space = mem[i].space
          /\ \A d \in docs : d.id <= chunk
      BY DEF ArchiveInv, ArchiveTypeOK, ChunksApart
    <3>4. QED
      BY <3>1, <3>2, <3>3
  <2>3. details'[i].source \in {None} \cup {d.id : d \in docs'}
    BY <1>2, <2>2
  <2>4. details[i].source <= chunk
    BY <2>2 DEF None
  <2>5. \A d \in docs' : d.id = details'[i].source => d.space = mem'[i].space
    <3> TAKE d \in docs'
    <3>1. HAVE d.id = details'[i].source
    <3>2. ~(d.id > chunk)
      BY <1>2, <2>2, <2>4, <3>1 DEF None
    <3>3. d \in docs
      BY <3>2
    <3>4. QED
      BY <1>2, <2>1, <2>2, <3>1, <3>3
  <2>6. QED
    BY <1>2, <2>1, <2>3, <2>5 DEF Settled
<1>4. QED
  BY <1>1, <1>2, <1>3 DEF Settling

LEMMA WriteNext ==
  ASSUME ArchiveInv, [ArchiveNext]_archiveVars, NEW w \in Writes, NEW source \in 0..MaxChunks,
         NEW r \in {q \in Requests : /\ q.space = w.space /\ q.silo = w.silo
                                     /\ q.expires = w.expires},
         NEW window \in ClaimWindows(r), Write(w, source, r, window)
  PROVE  Settling'
<1>1. PICK detail \in Detail :
           /\ detail.card = w.card
           /\ detail.source # None =>
                \E d \in docs : d.id = detail.source /\ d.space = w.space
           /\ <<w.space, w.silo>> \in silos
           /\ Ids' = Ids \cup {count + 1} /\ count + 1 \notin Ids
           /\ mem'[count + 1].space = w.space /\ mem'[count + 1].silo = w.silo
           /\ details' \in [Ids' -> Detail] /\ served' \in [Ids' -> Cards \cup {Summary}]
           /\ details'[count + 1] = detail /\ served'[count + 1] = detail.card
           /\ \A i \in Ids : details'[i] = details[i] /\ served'[i] = served[i]
           /\ UNCHANGED <<defaults, silos, docs, chunk, related>>
  BY WriteAdds
<1>2. \A d, e \in docs : d.id = e.id => d = e
  BY StoreTypes
<1>3. ASSUME NEW i \in Ids PROVE Settled(i)'
  <2>1. mem'[i].space = mem[i].space /\ <<mem'[i].space, mem'[i].silo>> \in silos'
    BY HomesNext
  <2>2. /\ details[i].source \in {None} \cup {d.id : d \in docs}
        /\ \A d \in docs : d.id = details[i].source => d.space = mem[i].space
        /\ served[i] = details[i].card
    BY DEF ArchiveInv, ArchiveTypeOK, ChunksApart, CardsServed
  <2>3. QED
    BY <1>1, <2>1, <2>2 DEF Settled
<1>4. ASSUME NEW n, n = count + 1 PROVE Settled(n)'
  <2>1. /\ mem'[n].space = w.space /\ mem'[n].silo = w.silo /\ silos' = silos /\ docs' = docs
        /\ details'[n] = detail /\ served'[n] = detail.card /\ <<w.space, w.silo>> \in silos
    BY <1>1, <1>4
  <2>2. detail.source \in {None} \cup {d.id : d \in docs}
    BY <1>1
  <2>3. \A d \in docs : d.id = detail.source => d.space = w.space
    <3> TAKE d \in docs
    <3>1. HAVE d.id = detail.source
    <3>2. detail.source # None
      BY <3>1, StoreTypes
    <3>3. PICK e \in docs : e.id = detail.source /\ e.space = w.space
      BY <1>1, <3>2
    <3>4. QED
      BY <1>2, <3>1, <3>3
  <2> SUFFICES /\ <<mem'[n].space, mem'[n].silo>> \in silos'
               /\ details'[n].source \in {None} \cup {d.id : d \in docs'}
               /\ \A d \in docs' : d.id = details'[n].source => d.space = mem'[n].space
               /\ served'[n] = details'[n].card
    BY DEF Settled
  <2>4. QED
    BY <2>1, <2>2, <2>3
<1>5. related' \subseteq Ids'
  BY <1>1 DEF ArchiveInv, ArchiveTypeOK
<1>6. \A i \in Ids' : Settled(i)'
  BY <1>1, <1>3, <1>4
<1>7. QED
  BY <1>1, <1>5, <1>6 DEF Settling

\* A pruned chunk is no memory's source any more.
LEMMA PruneNext ==
  ASSUME ArchiveInv, [ArchiveNext]_archiveVars, NEW gone \in docs, Prune(gone)
  PROVE  Settling'
<1>1. /\ docs' = docs \ {gone} /\ details' = Unsourced(gone)
      /\ count' = count /\ served' = served /\ related' = related
  BY DEF Prune, vars
<1>2. Ids' = Ids
  BY <1>1 DEF Ids
<1>3. /\ details \in [Ids -> Detail] /\ served \in [Ids -> Cards \cup {Summary}]
      /\ \A i \in Ids : served[i] = details[i].card
      /\ related \subseteq Ids
  BY DEF ArchiveInv, ArchiveTypeOK, CardsServed
<1>4. ASSUME NEW i \in Ids
      PROVE  /\ details'[i] \in Detail /\ details'[i].card = details[i].card
             /\ details'[i].source =
                  IF details[i].source = gone.id THEN None ELSE details[i].source
  <2>1. details[i] \in Detail /\ None \in 0..MaxChunks
    BY <1>3, ArchiveAssumption DEF None
  <2>2. details'[i] = IF details[i].source = gone.id
                      THEN [details[i] EXCEPT !.source = None] ELSE details[i]
    BY <1>1 DEF Unsourced
  <2>3. QED
    BY <2>1, <2>2 DEF Detail
<1>5. details' = [i \in Ids |-> details'[i]]
  BY <1>1 DEF Unsourced
<1>6. details' \in [Ids' -> Detail]
  BY <1>2, <1>4, <1>5
<1>7. ASSUME NEW i \in Ids PROVE Settled(i)'
  <2>1. mem'[i].space = mem[i].space /\ <<mem'[i].space, mem'[i].silo>> \in silos'
    BY HomesNext
  <2>2. /\ details[i].source \in {None} \cup {d.id : d \in docs}
        /\ \A d \in docs : d.id = details[i].source => d.space = mem[i].space
    BY DEF ArchiveInv, ArchiveTypeOK, ChunksApart
  <2>3. \A d \in docs : d.id # None /\ \A e \in docs : d.id = e.id => d = e
    BY StoreTypes
  <2>4. details'[i].source \in {None} \cup {d.id : d \in docs'}
    BY <1>1, <1>4, <2>2
  <2>5. \A d \in docs' : d.id = details'[i].source => d.space = mem'[i].space
    BY <1>1, <1>4, <2>1, <2>2, <2>3
  <2>6. served'[i] = details'[i].card
    BY <1>1, <1>3, <1>4
  <2>7. QED
    BY <2>1, <2>4, <2>5, <2>6 DEF Settled
<1>8. QED
  BY <1>1, <1>2, <1>3, <1>6, <1>7 DEF Settling

LEMMA SettlingNext ==
  ASSUME ArchiveInv, [ArchiveNext]_archiveVars
  PROVE  Settling'
<1>1. ASSUME NEW w \in Writes, NEW source \in 0..MaxChunks,
             NEW r \in {q \in Requests : /\ q.space = w.space /\ q.silo = w.silo
                                         /\ q.expires = w.expires},
             NEW window \in ClaimWindows(r), Write(w, source, r, window)
      PROVE  Settling'
  BY <1>1, WriteNext
<1>2. ASSUME NEW gone \in docs, Prune(gone)
      PROVE  Settling'
  BY <1>2, PruneNext
<1>3. /\ related \subseteq Ids /\ details \in [Ids -> Detail]
      /\ \A d \in docs : d.id <= chunk /\ chunk \in Nat
  BY DEF ArchiveInv, ArchiveTypeOK, ChunksApart
<1>4. ASSUME NEW c \in Ingests, Ingest(c)
      PROVE  Settling'
  <2> DEFINE new == [id |-> chunk + 1, space |-> c.space, vector |-> c.vector, fit |-> c.fit]
  <2>1. /\ docs' = docs \cup {new} /\ count' = count /\ details' = details
        /\ served' = served /\ related' = related
    BY <1>4 DEF Ingest, vars
  <2>2. new.id > chunk
    BY DEF ArchiveInv, ArchiveTypeOK
  <2> HIDE DEF new
  <2>3. /\ served' \in [Ids -> Cards \cup {Summary}] /\ \A i \in Ids : served'[i] = details[i].card
    BY <2>1, ServedNext
  <2>4. QED
    BY <1>3, <2>1, <2>2, <2>3, QuietNext
<1>5. ASSUME /\ count' = count /\ details' = details /\ docs' = docs /\ related' \subseteq Ids
             /\ \/ served' = served
                \/ \E tasks \in DreamTaskSets : Maintain(tasks)
                \/ Reload
      PROVE  Settling'
  <2>1. /\ served' \in [Ids -> Cards \cup {Summary}] /\ \A i \in Ids : served'[i] = details[i].card
    BY <1>5, ServedNext
  <2>2. QED
    BY <1>3, <1>5, <2>1, QuietNext
<1>6. CASE \/ \E new \in NewSpaces : CreateSpace(new[1], new[2])
           \/ \E i \in Ids : Relate(i)
           \/ UNCHANGED archiveVars
  BY <1>3, <1>5, <1>6 DEF CreateSpace, Relate, archiveVars, tables, vars
<1>7. CASE \/ \E i \in Ids : Forget(i) /\ UNCHANGED tables
           \/ \E i \in Ids : \E c \in Corrections(i) : Correct(i, c) /\ UNCHANGED tables
  BY <1>3, <1>5, <1>7 DEF Forget, Correct, Tombstone, tables
<1>8. CASE \/ \E tasks \in DreamTaskSets : Maintain(tasks)
           \/ Reload
  BY <1>3, <1>5, <1>8 DEF Maintain, Dream, Reload
<1>9. ASSUME NEW i \in Ids, NEW fit \in Stamps, Verify(i, fit)
      PROVE  Settling'
  <2>1. /\ count' = count /\ docs' = docs /\ served' = served /\ related' = related
        /\ details' = [details EXCEPT ![i].fit = fit]
    BY <1>9 DEF Verify, vars
  <2>2. fit \in BOOLEAN
    BY ArchiveAssumption
  <2>3. /\ details' \in [Ids -> Detail]
        /\ \A j \in Ids : /\ details'[j].source = details[j].source
                           /\ details'[j].card = details[j].card
    BY <1>3, <2>1, <2>2 DEF Detail
  <2>4. /\ served' \in [Ids -> Cards \cup {Summary}]
        /\ \A j \in Ids : served'[j] = details[j].card
    BY <2>1, ServedNext
  <2>5. QED
    BY <1>3, <2>1, <2>3, <2>4, QuietNext
<1>10. QED
  BY <1>1, <1>2, <1>4, <1>6, <1>7, <1>8, <1>9 DEF ArchiveNext

LEMMA ArchiveInvInit == ArchiveInit => ArchiveInv
<1> SUFFICES ASSUME ArchiveInit PROVE ArchiveInv
  OBVIOUS
<1>1. Init /\ count = 0 /\ Ids = {}
  BY DEF ArchiveInit, Init, Ids
<1>2. TypeOK /\ CrossInv /\ FtsMirrorsMemory
  BY <1>1, TypeInit DEF CrossInv, FtsMirrorsMemory, Init
<1>3. /\ defaults = [space \in {DefaultSpace} |-> Durable]
      /\ silos = {DefaultSpace} \X {ShortTerm, Durable}
      /\ DefaultSpace \in Spaces /\ {ShortTerm, Durable} \subseteq Silos
  BY ArchiveAssumption, RequestAssumption DEF ArchiveInit, SeededSilos
<1>4. DefaultsSeeded
  BY <1>3, FS_Singleton DEF DefaultsSeeded
<1>5. /\ details = <<>> /\ served = <<>> /\ docs = {} /\ chunk = 0 /\ related = {}
  BY DEF ArchiveInit
<1>6. details \in [Ids -> Detail] /\ served \in [Ids -> Cards \cup {Summary}]
  BY <1>1, <1>5
<1>7. ArchiveTypeOK
  BY <1>1, <1>2, <1>3, <1>5, <1>6, ArchiveAssumption DEF ArchiveTypeOK
<1>8. ChunksApart /\ CardsServed
  BY <1>1, <1>5, FS_EmptySet DEF ChunksApart, CardsServed
<1>9. QED
  BY <1>2, <1>4, <1>7, <1>8 DEF ArchiveInv

LEMMA ArchiveInvNext ==
  ASSUME ArchiveInv, [ArchiveNext]_archiveVars
  PROVE  ArchiveInv'
<1>1. TypeOK' /\ CrossInv' /\ FtsMirrorsMemory'
  BY StoreMoves DEF ArchiveInv, ArchiveTypeOK
<1>2. /\ DefaultsSeeded'
      /\ defaults' \in [DOMAIN defaults' -> Silos] /\ DOMAIN defaults' \subseteq Spaces
      /\ silos' \subseteq Spaces \X Silos
      /\ \A space \in DOMAIN defaults' : <<space, defaults'[space]>> \in silos'
  BY DefaultsNext
<1>3. /\ docs' \subseteq Chunk /\ chunk' \in 0..MaxChunks /\ IsFiniteSet(docs')
      /\ \A d \in docs' : d.space \in DOMAIN defaults' /\ d.id <= chunk'
      /\ \A d, e \in docs' : d.id = e.id => d = e
  BY DocsNext
<1>4. Settling'
  BY SettlingNext
<1>5. ArchiveTypeOK'
  BY <1>1, <1>2, <1>3, <1>4 DEF ArchiveTypeOK, Settling, Settled
<1>6. ChunksApart' /\ CardsServed'
  BY <1>3, <1>4 DEF ChunksApart, CardsServed, Settling, Settled
<1>7. QED
  BY <1>1, <1>2, <1>5, <1>6 DEF ArchiveInv

LEMMA ArchiveInvHolds == ArchiveSpec => []ArchiveInv
BY ArchiveInvInit, ArchiveInvNext, PTL DEF ArchiveSpec

\* No chunk, card, vector, relationship or history is lost between a store and
\* its copy (export_table and insert_import_row), which search answers from as
\* from the store (rebuild_fts), whatever was written, retired and moved before.
THEOREM ArchivesKeepAll == ArchiveSpec => []RoundTripKeepsAll
<1>1. ArchiveInv => RoundTripKeepsAll
  BY RoundTripIs, SearchSurvivesIs DEF ArchiveInv, RoundTripKeepsAll
<1>2. QED
  BY <1>1, ArchiveInvHolds, PTL

\* validate_import_integrity and rebuild_vector_index refuse a store's own
\* archive for a link over two spaces, a chunk's vector and what remember, verify
\* and ingest store unchecked, and for nothing else these writers leave; and no
\* archive of another producer that says the same of the store.
THEOREM ArchivesImport == ArchiveSpec => []ImportsWhatItShould
<1>1. ArchiveInv => ImportsWhatItShould
  BY KnownReasons, OthersImport DEF ImportsWhatItShould
<1>2. QED
  BY <1>1, ArchiveInvHolds, PTL

-----------------------------------------------------------------------------
(* The archive: damage *)

\* What an import that succeeds says of the file it read.
Complete(s) ==
  LET p == Parsed(s)
      M == Len(s) IN
  /\ M >= 2 /\ s[1].type = "header" /\ s[M].type = "footer" /\ s[M].total = M - 2
  /\ \A k \in 2..(M - 1) : /\ s[k].type = "row" /\ s[k].table \in AllTables
                           /\ DOMAIN s[k].data = Columns[s[k].table]
  /\ p.schema = s[1].schema /\ p.rows = [t \in AllTables |-> Had(s, M, t)]
  /\ Integrity(Normalised(p.rows, p.schema)) /\ VectorsReadable(Normalised(p.rows, p.schema))
  /\ Import(s).rows = Cleaned(Normalised(p.rows, p.schema))

LEMMA OkTells ==
  ASSUME NEW s, Len(s) \in Nat, \A k \in 1..Len(s) : s[k].type \in Types, Import(s).ok
  PROVE  Complete(s)
<1> DEFINE p == Parsed(s)
           M == Len(s)
           norm == Normalised(p.rows, p.schema)
<1>1. Import(s) = [ok |-> /\ p.ok /\ p.footer
                          /\ Integrity(norm) /\ VectorsReadable(norm) /\ Initialized(norm),
                   rows |-> Cleaned(norm)]
  BY Zenon DEF Import
<1> HIDE DEF p, norm
<1>2. /\ p.ok /\ p.footer /\ Integrity(norm) /\ VectorsReadable(norm)
      /\ Import(s).rows = Cleaned(norm)
  BY <1>1
<1>3. Read(s, M, p)
  BY <1>2, AcceptedIs DEF p
<1>4. M >= 2 /\ s[M].type = "footer" /\ s[M].total = M - 2
  BY <1>2, <1>3 DEF Read
<1>5. /\ s[1].type = "header" /\ s[1].schema \in {5, 6} /\ p.schema = s[1].schema
      /\ p.tables = Range(TablesOf(s[1].schema))
      /\ p.rows = [t \in AllTables |-> Had(s, M, t)]
  BY <1>3, <1>4 DEF Read
<1>6. p.tables \subseteq AllTables
  BY <1>5, TablesInOrder
<1>7. \A k \in 2..(M - 1) : s[k].type = "row"
  BY <1>3, <1>4 DEF Read
<1>8. \A k \in 2..M : s[k].type = "row" =>
        s[k].table \in p.tables /\ DOMAIN s[k].data = Columns[s[k].table]
  BY <1>3 DEF Read
<1>9. \A k \in 2..(M - 1) : /\ s[k].type = "row" /\ s[k].table \in AllTables
                            /\ DOMAIN s[k].data = Columns[s[k].table]
  BY <1>6, <1>7, <1>8
<1>10. QED
  BY <1>2, <1>4, <1>5, <1>9, Zenon DEF Complete, p, norm

\* The records of the store's file.
Own(a) ==
  /\ Len(a) \in Nat /\ Len(a) >= 2 /\ DOMAIN a = 1..Len(a) /\ a \in Seq(Range(a))
  /\ a[1].type = "header" /\ a[1].schema = 6
  /\ a[Len(a)].type = "footer" /\ a[Len(a)].total = Len(a) - 2
  /\ \A k \in 2..(Len(a) - 1) : /\ a[k].type = "row" /\ a[k].table \in AllTables
                                /\ a[k].data \in Tables[a[k].table]
                                /\ a[k] = RowRecord(a[k].table, a[k].data)
  /\ \A k \in 1..Len(a) : a[k].type \in Types
  /\ \A k \in 1..Len(a) : a[k].type = "row" => k \in 2..(Len(a) - 1)
  /\ \A k \in 1..Len(a) : a[k].type = "header" => k = 1
  /\ \A k \in 1..Len(a) : a[k].type = "footer" => k = Len(a)
  /\ \A t \in AllTables : Had(a, Len(a), t) = Tables[t]

LEMMA OwnFile ==
  ASSUME ArchiveInv
  PROVE  Own(Export)
<1> DEFINE a == Export
           N == Len(a)
<1>1. OfStore(Tables) /\ MetadataKept(Tables) /\ Placed(Tables, 6)
  <2>1. OfStore(Tables)
    BY DEF OfStore, Tables, AllTables
  <2>2. MetadataKept(Tables)
    BY TablesFinite, KeysAndColumns, FourteenTables DEF MetadataKept, Metadata, FiniteTables
  <2>3. QED
    BY <2>1, <2>2 DEF Placed
<1>2. FiniteTables(Tables) /\ Carried(Tables, 6) = Tables
  BY <1>1, StoreImports
<1>3. IsFile(a, Tables, 6)
  BY <1>2, FileIs DEF Export
<1> HIDE DEF a
<1>4. /\ N \in Nat /\ N >= 2 /\ DOMAIN a = 1..N /\ a \in Seq(Range(a))
      /\ a[1] = Header(6) /\ a[N] = Footer(N - 2, Tables, 6)
  BY <1>3 DEF IsFile
<1>5. a[1].type = "header" /\ a[1].schema = 6 /\ a[N].type = "footer" /\ a[N].total = N - 2
  BY <1>4 DEF Header, Footer
<1>6. \A k \in 2..(N - 1) : /\ a[k].type = "row" /\ a[k].table \in AllTables
                            /\ a[k].data \in Tables[a[k].table]
                            /\ a[k] = RowRecord(a[k].table, a[k].data)
  BY <1>3, TablesInOrder DEF IsFile
<1>7. \A k \in 1..N : k = 1 \/ k = N \/ k \in 2..(N - 1)
  <2>1. N \in Nat
    BY <1>4
  <2> HIDE DEF N
  <2>2. QED
    BY <2>1
<1>8. /\ \A k \in 1..N : a[k].type \in Types
      /\ \A k \in 1..N : a[k].type = "row" => k \in 2..(N - 1)
      /\ \A k \in 1..N : a[k].type = "header" => k = 1
      /\ \A k \in 1..N : a[k].type = "footer" => k = N
  BY <1>5, <1>6, <1>7 DEF Types
<1>9. \A t \in AllTables : Had(a, N, t) = Tables[t]
  <2> TAKE t \in AllTables
  <2>1. N - 1 \in Nat /\ (N - 1) + 1 = N
    BY <1>4
  <2>2. Had(a, (N - 1) + 1, t) = Had(a, N - 1, t)
    BY <1>5, <2>1, HadNone
  <2>3. QED
    BY <1>2, <1>3, <2>1, <2>2, FileHad
<1>10. Own(a)
  BY <1>4, <1>5, <1>6, <1>8, <1>9 DEF Own
<1>11. QED
  BY <1>10 DEF a

\* A file whose rows are those of the store makes the store.
LEMMA SameRows ==
  ASSUME ArchiveInv, NEW s, Complete(s), s[1].schema = 6,
         \A t \in AllTables : Had(s, Len(s), t) = Tables[t]
  PROVE  Import(s).rows = Tables
<1>1. Tables = [t \in AllTables |-> Tables[t]]
  BY DEF Tables, AllTables
<1> DEFINE p == Parsed(s)
<1>2. /\ p.schema = 6 /\ p.rows = [t \in AllTables |-> Had(s, Len(s), t)]
      /\ Import(s).rows = Cleaned(Normalised(p.rows, p.schema))
  BY DEF Complete
<1> HIDE DEF p
<1>3. p.rows = Tables
  BY <1>1, <1>2
<1>4. Import(s).rows = Cleaned(Normalised(Tables, 6))
  BY <1>2, <1>3
<1>5. OfStore(Tables) /\ MetadataKept(Tables) /\ Placed(Tables, 6)
  <2>1. OfStore(Tables)
    BY <1>1 DEF OfStore
  <2>2. MetadataKept(Tables)
    BY TablesFinite, KeysAndColumns, FourteenTables DEF MetadataKept, Metadata, FiniteTables
  <2>3. QED
    BY <2>1, <2>2 DEF Placed
<1>6. Normalised(Tables, 6) = Tables
  <2>1. Import(Export).rows = Normalised(Tables, 6)
    BY <1>5, ImportOf DEF Export
  <2>2. QED
    BY <2>1, OwnImport
<1>7. QED
  BY <1>4, <1>5, <1>6, CleanedIs

\* What is lost, doubled, swapped or changed in a file is refused, or harmless.
Caught(s) == Import(s).ok => Import(s).rows = Tables

LEMMA EarlyEnd ==
  ASSUME NEW a, Own(a), NEW k \in 0..(Len(a) - 1)
  PROVE  Caught(SubSeq(a, 1, k))
<1> DEFINE N == Len(a)
           s == SubSeq(a, 1, k)
<1>1. N \in Nat /\ a \in Seq(Range(a)) /\ \A j \in 1..N : a[j].type \in Types
  BY DEF Own
<1>2. Len(s) = k /\ \A j \in 1..k : s[j] = a[j]
  BY <1>1
<1>3. \A j \in 1..N : a[j].type = "footer" => j = N
  BY DEF Own
<1> HIDE DEF s, N
<1>4. ASSUME Import(s).ok PROVE FALSE
  <2>1. Complete(s)
    BY <1>1, <1>2, <1>4, OkTells DEF N
  <2>2. k >= 2 /\ s[k].type = "footer"
    BY <1>2, <2>1 DEF Complete
  <2>3. k \in 1..N /\ k # N
    BY <1>1, <2>2 DEF N
  <2>4. QED
    BY <1>2, <1>3, <2>2, <2>3
<1>5. Caught(s)
  BY <1>4 DEF Caught
<1>6. QED
  BY <1>5 DEF s

LEMMA JoinedIs ==
  ASSUME NEW S, NEW b \in Seq(S), NEW c \in Seq(S)
  PROVE  /\ b \o c \in Seq(S) /\ Len(b \o c) = Len(b) + Len(c)
         /\ \A j \in 1..(Len(b) + Len(c)) :
              (b \o c)[j] = IF j <= Len(b) THEN b[j] ELSE c[j - Len(b)]
OBVIOUS

LEMMA RemoveAtIs ==
  ASSUME NEW S, NEW a \in Seq(S), NEW k \in 1..Len(a)
  PROVE  /\ Len(RemoveAt(a, k)) = Len(a) - 1
         /\ \A j \in 1..(Len(a) - 1) : RemoveAt(a, k)[j] = IF j < k THEN a[j] ELSE a[j + 1]
<1> DEFINE N == Len(a)
           b == SubSeq(a, 1, k - 1)
           c == SubSeq(a, k + 1, N)
<1>1. N \in Nat /\ k \in 1..N
  OBVIOUS
<1>2. /\ b \in Seq(S) /\ Len(b) = k - 1 /\ \A j \in 1..(k - 1) : b[j] = a[j]
      /\ c \in Seq(S) /\ Len(c) = N - k /\ \A j \in 1..(N - k) : c[j] = a[k + j]
  BY <1>1
<1>3. RemoveAt(a, k) = b \o c
  BY DEF RemoveAt
<1> HIDE DEF b, c, N
<1>4. /\ Len(b \o c) = (k - 1) + (N - k)
      /\ \A j \in 1..(N - 1) : (b \o c)[j] = IF j <= k - 1 THEN b[j] ELSE c[j - (k - 1)]
  <2>1. /\ Len(b \o c) = Len(b) + Len(c)
        /\ \A j \in 1..(Len(b) + Len(c)) :
             (b \o c)[j] = IF j <= Len(b) THEN b[j] ELSE c[j - Len(b)]
    BY <1>2, JoinedIs
  <2>2. Len(b) = k - 1 /\ Len(c) = N - k /\ Len(b) + Len(c) = N - 1
    BY <1>1, <1>2
  <2>3. QED
    BY ONLY <2>1, <2>2
<1>5. \A j \in 1..(N - 1) : (b \o c)[j] = IF j < k THEN a[j] ELSE a[j + 1]
  <2> TAKE j \in 1..(N - 1)
  <2>1. CASE j < k
    BY <1>1, <1>2, <1>4, <2>1
  <2>2. CASE ~(j < k)
    <3>1. j - (k - 1) \in 1..(N - k) /\ k + (j - (k - 1)) = j + 1
      BY <1>1, <2>2
    <3>2. c[j - (k - 1)] = a[j + 1]
      BY <1>2, <3>1
    <3>3. QED
      BY <1>1, <1>4, <2>2, <3>2
  <2>3. QED
    BY <2>1, <2>2
<1>6. QED
  BY <1>1, <1>3, <1>4, <1>5 DEF N

LEMMA Lost ==
  ASSUME NEW a, Own(a), NEW k \in 1..Len(a)
  PROVE  Caught(RemoveAt(a, k))
<1> DEFINE N == Len(a)
           s == RemoveAt(a, k)
<1>1. /\ N \in Nat /\ N >= 2 /\ a[N].total = N - 2
      /\ \A j \in 1..N : a[j].type \in Types
      /\ \A j \in 1..N : a[j].type = "footer" => j = N
  BY DEF Own
<1>2. /\ Len(s) = N - 1
      /\ \A j \in 1..(N - 1) : s[j] = IF j < k THEN a[j] ELSE a[j + 1]
  BY RemoveAtIs DEF Own
<1>3. k \in 1..N
  OBVIOUS
<1> HIDE DEF s, N
<1>4. ASSUME Import(s).ok PROVE FALSE
  <2>1. Len(s) \in Nat /\ \A j \in 1..Len(s) : s[j].type \in Types
    BY <1>1, <1>2
  <2>2. Complete(s)
    BY <1>4, <2>1, OkTells
  <2>3. s[N - 1].type = "footer" /\ s[N - 1].total = (N - 1) - 2
    BY <1>2, <2>2 DEF Complete
  <2>4. N - 1 \in 1..N /\ N - 1 \in 1..(N - 1) /\ (N - 1) + 1 = N /\ N - 1 # N
    BY <1>1
  <2>5. CASE N - 1 < k
    BY <1>1, <1>2, <2>3, <2>4, <2>5
  <2>6. CASE ~(N - 1 < k)
    <3>1. s[N - 1] = a[N]
      BY <1>2, <2>4, <2>6
    <3>2. QED
      BY <1>1, <2>3, <3>1
  <2>7. QED
    BY <2>5, <2>6
<1>5. Caught(s)
  BY <1>4 DEF Caught
<1>6. QED
  BY <1>5 DEF s

LEMMA InsertAtIs ==
  ASSUME NEW S, NEW a \in Seq(S), NEW k \in 1..Len(a)
  PROVE  /\ Len(InsertAt(a, k, a[k])) = Len(a) + 1
         /\ \A j \in 1..(Len(a) + 1) :
              InsertAt(a, k, a[k])[j] = IF j <= k THEN a[j] ELSE a[j - 1]
<1> DEFINE N == Len(a)
           b == SubSeq(a, 1, k - 1)
           c == SubSeq(a, k, N)
           x == <<a[k]>>
<1>1. N \in Nat /\ k \in 1..N
  OBVIOUS
<1>2. /\ b \in Seq(S) /\ Len(b) = k - 1 /\ \A j \in 1..(k - 1) : b[j] = a[j]
      /\ c \in Seq(S) /\ Len(c) = N - k + 1 /\ \A j \in 1..(N - k + 1) : c[j] = a[k + j - 1]
      /\ x \in Seq(S) /\ Len(x) = 1 /\ x[1] = a[k]
  BY <1>1
<1>3. InsertAt(a, k, a[k]) = (b \o x) \o c
  BY DEF InsertAt
<1> HIDE DEF b, c, x, N
<1>4. /\ b \o x \in Seq(S) /\ Len(b \o x) = k
      /\ \A j \in 1..k : (b \o x)[j] = a[j]
  <2>1. /\ b \o x \in Seq(S) /\ Len(b \o x) = k
        /\ \A j \in 1..k : (b \o x)[j] = IF j <= k - 1 THEN b[j] ELSE x[j - (k - 1)]
    <3>1. (k - 1) + 1 = k
      BY <1>1
    <3>2. /\ b \o x \in Seq(S) /\ Len(b \o x) = Len(b) + Len(x)
          /\ \A j \in 1..(Len(b) + Len(x)) :
               (b \o x)[j] = IF j <= Len(b) THEN b[j] ELSE x[j - Len(b)]
      <4>1. b \in Seq(S) /\ x \in Seq(S)
        BY <1>2
      <4>2. QED
        BY <4>1, JoinedIs
    <3>3. QED
      BY <1>2, <3>1, <3>2
  <2>2. \A j \in 1..k : ~(j <= k - 1) => j = k /\ j - (k - 1) = 1
    BY <1>1
  <2>3. QED
    BY <1>1, <1>2, <2>1, <2>2
<1> DEFINE d == b \o x
<1>5. d \in Seq(S) /\ Len(d) = k /\ \A j \in 1..k : d[j] = a[j]
  BY <1>4
<1> HIDE DEF d
<1>6. /\ Len(d \o c) = k + (N - k + 1)
      /\ \A j \in 1..(N + 1) : (d \o c)[j] = IF j <= k THEN d[j] ELSE c[j - k]
  <2>1. k + (N - k + 1) = N + 1
    BY <1>1
  <2>2. Len(c) = N - k + 1 /\ c \in Seq(S)
    BY <1>2
  <2>3. /\ Len(d \o c) = Len(d) + Len(c)
        /\ \A j \in 1..(Len(d) + Len(c)) :
             (d \o c)[j] = IF j <= Len(d) THEN d[j] ELSE c[j - Len(d)]
    <3>1. d \in Seq(S) /\ c \in Seq(S)
      BY <1>5, <2>2
    <3>2. QED
      BY <3>1, JoinedIs
  <2>4. QED
    BY <1>5, <2>1, <2>2, <2>3
<1>7. \A j \in 1..(N + 1) : (d \o c)[j] = IF j <= k THEN a[j] ELSE a[j - 1]
  <2> TAKE j \in 1..(N + 1)
  <2>1. CASE j <= k
    BY <1>1, <1>5, <1>6, <2>1
  <2>2. CASE ~(j <= k)
    <3>1. j - k \in 1..(N - k + 1) /\ k + (j - k) - 1 = j - 1
      BY <1>1, <2>2
    <3>2. c[j - k] = a[j - 1]
      BY <1>2, <3>1
    <3>3. QED
      BY <1>6, <2>2, <3>2
  <2>3. QED
    BY <2>1, <2>2
<1>8. QED
  BY <1>1, <1>3, <1>6, <1>7 DEF N, d

LEMMA Doubled ==
  ASSUME NEW a, Own(a), NEW k \in 1..Len(a)
  PROVE  Caught(InsertAt(a, k, a[k]))
<1> DEFINE N == Len(a)
           s == InsertAt(a, k, a[k])
<1>1. /\ N \in Nat /\ N >= 2 /\ a[N].total = N - 2
      /\ \A j \in 1..N : a[j].type \in Types
  BY DEF Own
<1>2. /\ Len(s) = N + 1
      /\ \A j \in 1..(N + 1) : s[j] = IF j <= k THEN a[j] ELSE a[j - 1]
  BY InsertAtIs DEF Own
<1>3. k \in 1..N
  OBVIOUS
<1> HIDE DEF s, N
<1>4. ASSUME Import(s).ok PROVE FALSE
  <2>1. Len(s) \in Nat /\ \A j \in 1..Len(s) : s[j].type \in Types
    <3>1. ASSUME NEW j \in 1..(N + 1)
          PROVE  s[j].type \in Types
      <4>1. CASE j <= k
        <5>1. j \in 1..N /\ s[j] = a[j]
          BY <1>1, <1>2, <1>3, <4>1
        <5>2. QED
          BY <1>1, <5>1
      <4>2. CASE ~(j <= k)
        <5>1. j - 1 \in 1..N /\ s[j] = a[j - 1]
          BY <1>1, <1>2, <1>3, <4>2
        <5>2. QED
          BY <1>1, <5>1
      <4>3. QED
        BY <4>1, <4>2
    <3>2. QED
      BY <1>1, <1>2, <3>1
  <2>2. Complete(s)
    BY <1>4, <2>1, OkTells
  <2>3. s[N + 1].total = (N + 1) - 2
    BY <1>2, <2>2 DEF Complete
  <2>4. N + 1 \in 1..(N + 1) /\ ~(N + 1 <= k) /\ (N + 1) - 1 = N
    BY <1>1, <1>3
  <2>5. s[N + 1] = a[N]
    BY <1>2, <2>4
  <2>6. QED
    BY <1>1, <2>3, <2>5
<1>5. Caught(s)
  BY <1>4 DEF Caught
<1>6. QED
  BY <1>5 DEF s

LEMMA Swapped ==
  ASSUME ArchiveInv, NEW a, Own(a), NEW k \in 1..(Len(a) - 1)
  PROVE  Caught([a EXCEPT ![k] = a[k + 1], ![k + 1] = a[k]])
<1> DEFINE N == Len(a)
           s == [a EXCEPT ![k] = a[k + 1], ![k + 1] = a[k]]
<1>1. /\ N \in Nat /\ N >= 2 /\ DOMAIN a = 1..N /\ a \in Seq(Range(a))
      /\ a[1].schema = 6
      /\ \A j \in 1..N : a[j].type \in Types
      /\ \A j \in 1..N : a[j].type = "header" => j = 1
      /\ \A j \in 1..N : a[j].type = "footer" => j = N
      /\ \A t \in AllTables : Had(a, N, t) = Tables[t]
  BY DEF Own
<1>2. /\ k \in 1..N /\ k + 1 \in 1..N
  <2>1. N \in Nat /\ k \in 1..(N - 1)
    BY <1>1
  <2> HIDE DEF N
  <2>2. QED
    BY <2>1
<1>3. Len(s) = N
  <2>1. s \in Seq(Range(a))
    <3>1. a[k] \in Range(a) /\ a[k + 1] \in Range(a)
      BY <1>1, <1>2 DEF Range
    <3>2. QED
      BY <1>1, <1>2, <3>1
  <2>2. DOMAIN s = 1..N
    BY <1>1
  <2>3. QED
    BY <1>1, <2>1, <2>2
<1>4. \A j \in 1..N : s[j] = IF j = k THEN a[k + 1] ELSE IF j = k + 1 THEN a[k] ELSE a[j]
  BY <1>1, <1>2
<1> HIDE DEF s, N
<1>5. ASSUME Import(s).ok PROVE Import(s).rows = Tables
  <2>1. \A j \in 1..N : s[j].type \in Types
    BY <1>1, <1>2, <1>4
  <2>2. Complete(s)
    BY <1>1, <1>3, <1>5, <2>1, OkTells
  <2>3. s[1].type = "header" /\ s[N].type = "footer"
    BY <1>3, <2>2 DEF Complete
  <2>4. k # 1
    BY <1>1, <1>2, <1>4, <2>3
  <2>5. k + 1 # N
    BY <1>1, <1>2, <1>4, <2>3
  <2>6. s[1] = a[1]
    BY <1>1, <1>2, <1>4, <2>4
  <2>7. ASSUME NEW t PROVE Had(s, N, t) = Had(a, N, t)
    <3> DEFINE InA(j) == a[j].type = "row" /\ a[j].table = t
               InS(j) == s[j].type = "row" /\ s[j].table = t
    <3>1. \A j \in 1..N : InS(j) => \E i \in 1..N : InA(i) /\ a[i] = s[j]
      BY <1>2, <1>4
    <3>2. \A j \in 1..N : InA(j) => \E i \in 1..N : InS(i) /\ s[i] = a[j]
      <4> TAKE j \in 1..N
      <4>1. CASE j = k
        <5>1. s[k + 1] = a[k]
          BY <1>1, <1>2, <1>4
        <5>2. QED
          BY <1>2, <4>1, <5>1
      <4>2. CASE j = k + 1
        BY <1>2, <1>4, <4>2
      <4>3. CASE j # k /\ j # k + 1
        BY <1>4, <4>3
      <4>4. QED
        BY <4>1, <4>2, <4>3
    <3>3. QED
      BY <3>1, <3>2 DEF Had
  <2>8. QED
    BY <1>1, <1>3, <2>2, <2>6, <2>7, SameRows
<1>6. Caught(s)
  BY <1>5 DEF Caught
<1>7. QED
  BY <1>6 DEF s

\* Only the data of one record is changed.
Edited(s, a, k, data) ==
  /\ Len(s) = Len(a) /\ k \in 1..Len(a)
  /\ s[k].type = a[k].type /\ s[k].table = a[k].table /\ s[k].data = data
  /\ \A j \in 1..Len(a) : j # k => s[j] = a[j]

LEMMA EditedIs ==
  ASSUME NEW a, Own(a), NEW k \in 1..Len(a), a[k].type = "row", NEW data
  PROVE  Edited([a EXCEPT ![k].data = data], a, k, data)
<1> DEFINE N == Len(a)
           x == [a[k] EXCEPT !.data = data]
           s == [a EXCEPT ![k] = x]
<1>1. /\ N \in Nat /\ DOMAIN a = 1..N /\ a \in Seq(Range(a))
      /\ \A j \in 1..N : a[j].type = "row" => j \in 2..(N - 1)
      /\ \A j \in 2..(N - 1) : a[j] = RowRecord(a[j].table, a[j].data)
  BY DEF Own
<1>2. k \in 1..N /\ a[k] = RowRecord(a[k].table, a[k].data)
  BY <1>1
<1>3. x.type = a[k].type /\ x.table = a[k].table /\ x.data = data
  BY <1>2 DEF RowRecord
<1> HIDE DEF x
<1>4. s[k] = x /\ DOMAIN s = 1..N /\ \A j \in 1..N : j # k => s[j] = a[j]
  BY <1>1, <1>2
<1>5. Len(s) = N
  <2>1. s \in Seq(Range(a) \cup {x})
    <3>1. \A j \in 1..N : s[j] \in Range(a) \cup {x}
      BY <1>1, <1>4 DEF Range
    <3>2. QED
      BY <1>1, <3>1
  <2>2. QED
    BY <1>1, <1>4, <2>1
<1>6. Edited(s, a, k, data)
  BY <1>2, <1>3, <1>4, <1>5 DEF Edited
<1>7. QED
  BY <1>6 DEF x

\* What an import that succeeds says of a file with one record changed.
LEMMA EditedTells ==
  ASSUME NEW a, Own(a), NEW s, NEW k, NEW data, Edited(s, a, k, data), a[k].type = "row",
         Import(s).ok
  PROVE  /\ Complete(s) /\ s[k].table \in AllTables /\ DOMAIN data = Columns[s[k].table]
         /\ data \in Had(s, Len(s), s[k].table)
         /\ \A t : t # s[k].table => Had(s, Len(s), t) = Had(a, Len(a), t)
<1> DEFINE N == Len(a)
<1>1. /\ N \in Nat /\ Len(s) = N /\ k \in 1..N
      /\ s[k].type = a[k].type /\ s[k].table = a[k].table /\ s[k].data = data
      /\ \A j \in 1..N : j # k => s[j] = a[j]
  BY DEF Own, Edited
<1>2. /\ \A j \in 1..N : a[j].type \in Types
      /\ k \in 2..(N - 1)
  BY <1>1 DEF Own
<1>3. \A j \in 1..N : s[j].type \in Types
  BY <1>1, <1>2
<1>4. Complete(s)
  <2>1. Len(s) \in Nat /\ \A j \in 1..Len(s) : s[j].type \in Types
    BY <1>1, <1>3
  <2>2. QED
    BY <2>1, OkTells
<1> HIDE DEF N
<1>5. s[k].table \in AllTables /\ DOMAIN data = Columns[s[k].table]
  <2>1. \A j \in 2..(N - 1) : s[j].table \in AllTables /\ DOMAIN s[j].data = Columns[s[j].table]
    BY <1>1, <1>4 DEF Complete
  <2>2. QED
    BY <1>1, <1>2, <2>1
<1>6. data \in Had(s, N, s[k].table)
  BY <1>1 DEF Had
<1>7. ASSUME NEW t, t # s[k].table PROVE Had(s, N, t) = Had(a, N, t)
  BY <1>1, <1>7 DEF Had
<1>8. QED
  BY <1>1, <1>4, <1>5, <1>6, <1>7 DEF N

LEMMA Wider ==
  ASSUME NEW a, Own(a), NEW k \in 1..Len(a), a[k].type = "row"
  PROVE  Caught([a EXCEPT ![k].data = Widened(@)])
<1> DEFINE data == Widened(a[k].data)
           s == [a EXCEPT ![k].data = data]
<1>1. Edited(s, a, k, data)
  BY EditedIs
<1>2. "column" \in DOMAIN data
  BY DEF Widened
<1> HIDE DEF s, data
<1>3. ASSUME Import(s).ok PROVE FALSE
  <2>1. s[k].table \in AllTables /\ DOMAIN data = Columns[s[k].table]
    BY <1>1, <1>3, EditedTells
  <2>2. ASSUME NEW t \in AllTables PROVE "column" \notin Columns[t]
    <3>1. \/ t \in {"schema_migrations", "config_kv", "spaces", "silos", "source_episodes"}
          \/ t \in {"memories", "memory_versions", "memory_representations", "memory_events"}
          \/ t \in {"memory_links", "conflicts", "entities", "relationships", "embeddings"}
      BY FourteenTables
    <3>2. QED
      BY <3>1 DEF Columns
  <2>3. QED
    BY <1>2, <2>1, <2>2
<1>4. Caught(s)
  BY <1>3 DEF Caught
<1>5. QED
  BY <1>4 DEF s, data

\* The metadata alone is made anew.
LEMMA OthersStay ==
  ASSUME NEW rows, rows = [t \in AllTables |-> rows[t]], NEW schema, NEW t \in AllTables \ Metadata
  PROVE  Normalised(rows, schema)[t] = rows[t]
BY DEF Normalised, Metadata

\* What a file that imports held of a table is what is imported and checked.
LEMMA Checked ==
  ASSUME NEW s, Complete(s)
  PROVE  \E norm : /\ Integrity(norm) /\ VectorsReadable(norm) /\ Import(s).rows = Cleaned(norm)
                   /\ norm = [t \in AllTables |-> norm[t]]
                   /\ \A t \in AllTables \ Metadata : norm[t] = Had(s, Len(s), t)
<1> DEFINE p == Parsed(s)
           norm == Normalised(p.rows, p.schema)
<1>1. /\ p.rows = [t \in AllTables |-> Had(s, Len(s), t)]
      /\ Integrity(norm) /\ VectorsReadable(norm) /\ Import(s).rows = Cleaned(norm)
  BY DEF Complete
<1> HIDE DEF p
<1>2. p.rows = [t \in AllTables |-> p.rows[t]]
  BY <1>1
<1>3. \A t \in AllTables \ Metadata : norm[t] = Had(s, Len(s), t)
  BY <1>1, <1>2, OthersStay
<1>4. norm = [t \in AllTables |-> norm[t]]
  BY <1>2 DEF Normalised
<1> HIDE DEF norm
<1>5. QED
  BY <1>1, <1>3, <1>4

LEMMA EditedContent ==
  ASSUME NEW a, Own(a), NEW k \in 1..Len(a), a[k].type = "row", a[k].table \in CheckedTables
  PROVE  Caught([a EXCEPT ![k].data.sound = FALSE])
<1> DEFINE data == [a[k].data EXCEPT !.sound = FALSE]
           s == [a EXCEPT ![k].data = data]
<1>1. Edited(s, a, k, data)
  BY EditedIs
<1> HIDE DEF s
<1>2. ASSUME Import(s).ok PROVE FALSE
  <2>1. /\ Complete(s) /\ DOMAIN data = Columns[s[k].table] /\ s[k].table = a[k].table
        /\ data \in Had(s, Len(s), a[k].table)
    BY <1>1, <1>2, EditedTells DEF Edited
  <2>2. "sound" \in Columns[a[k].table] /\ a[k].table \in AllTables \ Metadata
    BY FourteenTables DEF Columns, CheckedTables, Metadata
  <2>3. data.sound = FALSE
    BY <2>1, <2>2
  <2>4. PICK norm : /\ Integrity(norm)
                    /\ \A t \in AllTables \ Metadata : norm[t] = Had(s, Len(s), t)
    BY <2>1, Checked
  <2> HIDE DEF data
  <2>5. data \in norm[a[k].table]
    BY <2>1, <2>2, <2>4
  <2>6. \A t \in CheckedTables : \A row \in norm[t] : row.sound
    BY <2>4 DEF Integrity, SoundSpaces, SoundSources, SoundMemories, SoundVersions, SoundCards,
                CheckedTables
  <2>7. QED
    BY <2>3, <2>5, <2>6
<1>3. Caught(s)
  BY <1>2 DEF Caught
<1>4. QED
  BY <1>3 DEF s

LEMMA DamageCaught ==
  ASSUME ArchiveInv
  PROVE  DamageIsCaught
<1> DEFINE E == Export
<1>1. Own(E)
  BY OwnFile
<1>2. DOMAIN E = 1..Len(E)
  BY <1>1 DEF Own
<1> HIDE DEF E
<1>3. ASSUME NEW s \in Damaged(E) PROVE Caught(s)
  <2>1. ASSUME NEW k \in 0..(Len(E) - 1), s = SubSeq(E, 1, k) PROVE Caught(s)
    BY <1>1, <2>1, EarlyEnd
  <2>2. ASSUME NEW k \in 1..Len(E), s = RemoveAt(E, k) \/ s = InsertAt(E, k, E[k])
        PROVE  Caught(s)
    BY <1>1, <2>2, Lost, Doubled
  <2>3. ASSUME NEW k \in 1..(Len(E) - 1), s = [E EXCEPT ![k] = E[k + 1], ![k + 1] = E[k]]
        PROVE  Caught(s)
    BY <1>1, <2>3, Swapped
  <2>4. ASSUME NEW k \in 1..Len(E), E[k].type = "row", s = [E EXCEPT ![k].data = Widened(@)]
        PROVE  Caught(s)
    BY <1>1, <2>4, Wider
  <2>5. ASSUME NEW k \in 1..Len(E), IsRow(E[k], CheckedTables),
               s = [E EXCEPT ![k].data.sound = FALSE]
        PROVE  Caught(s)
    BY <1>1, <2>5, EditedContent DEF IsRow
  <2>6. QED
    BY <1>2, <2>1, <2>2, <2>3, <2>4, <2>5 DEF Damaged
<1>4. QED
  BY <1>3 DEF DamageIsCaught, Caught, E

LEMMA OneAtMost ==
  ASSUME NEW S, NEW x, S \subseteq {x}
  PROVE  Cardinality(S) <= 1
<1>1. IsFiniteSet({x}) /\ Cardinality({x}) = 1
  BY FS_Singleton
<1>2. QED
  BY <1>1, FS_Subset

\* The spaces of the rows that a row refers to.
Spaced(rows, S) == {Home(rows, ref[1], ref[2]) : ref \in {r \in S : r[1] \in SpacedTables}}
Reached(rows, t, row) == Spaced(rows, Refs(t, row))

LEMMA SpacedIs ==
  ASSUME NEW rows
  PROVE  /\ \A x : /\ Spaced(rows, {<<"spaces", x>>}) = {}
                   /\ Spaced(rows, {<<"silos", x>>}) = {}
                   /\ Spaced(rows, {<<"memory_versions", x>>}) = {}
                   /\ Spaced(rows, {<<"memories", x>>}) = {Home(rows, "memories", x)}
                   /\ Spaced(rows, {<<"source_episodes", x>>}) = {Home(rows, "source_episodes", x)}
                   /\ Spaced(rows, {<<"entities", x>>}) = {Home(rows, "entities", x)}
         /\ Spaced(rows, {}) = {}
<1>1. ASSUME NEW u, u \in SpacedTables, NEW x
      PROVE  Spaced(rows, {<<u, x>>}) = {Home(rows, u, x)}
  <2>1. <<u, x>>[1] = u /\ <<u, x>>[2] = x
    OBVIOUS
  <2>2. {r \in {<<u, x>>} : r[1] \in SpacedTables} = {<<u, x>>}
    BY <1>1, <2>1
  <2> DEFINE ref == <<u, x>>
  <2> HIDE DEF ref
  <2>3. {Home(rows, r[1], r[2]) : r \in {ref}} = {Home(rows, ref[1], ref[2])}
    OBVIOUS
  <2>4. QED
    BY <2>1, <2>2, <2>3 DEF Spaced, ref
<1>2. ASSUME NEW u, u \notin SpacedTables, NEW x
      PROVE  Spaced(rows, {<<u, x>>}) = {}
  BY <1>2 DEF Spaced
<1>3. /\ "spaces" \notin SpacedTables /\ "silos" \notin SpacedTables
      /\ "memory_versions" \notin SpacedTables /\ "memories" \in SpacedTables
      /\ "source_episodes" \in SpacedTables /\ "entities" \in SpacedTables
  BY DEF SpacedTables
<1>4. Spaced(rows, {}) = {}
  BY DEF Spaced
<1>5. QED
  BY <1>1, <1>2, <1>3, <1>4, Zenon

LEMMA SpacedTwo ==
  ASSUME NEW rows, NEW S, NEW T
  PROVE  Spaced(rows, S \cup T) = Spaced(rows, S) \cup Spaced(rows, T)
BY DEF Spaced

LEMMA ReachedIs ==
  ASSUME NEW rows, NEW row
  PROVE  /\ \A t \in {"schema_migrations", "config_kv", "spaces", "silos", "source_episodes",
                      "entities", "memory_representations"} : Reached(rows, t, row) = {}
         /\ \A t \in {"memory_versions", "memory_events"} :
              Reached(rows, t, row) = {Home(rows, "memories", row.memory)}
         /\ Reached(rows, "memories", row) \subseteq
              {home \in {Home(rows, "source_episodes", row.source)} : row.source # None}
         /\ Reached(rows, "memory_links", row) =
              {Home(rows, "memories", row.id[1]), Home(rows, "memories", row.id[2])}
         /\ Reached(rows, "conflicts", row) =
              {Home(rows, "memories", row.id[1]), Home(rows, "memories", row.id[2])}
         /\ Reached(rows, "relationships", row) =
              {Home(rows, "entities", row.entity), Home(rows, "memories", row.id)}
         /\ row.id[2] = None => Reached(rows, "embeddings", row) \subseteq
                                  {Home(rows, "memories", row.id[1])}
<1>1. ASSUME NEW t, NEW S, Refs(t, row) = S
      PROVE  Reached(rows, t, row) = Spaced(rows, S)
  BY <1>1 DEF Reached
<1>2. \A x : /\ Spaced(rows, Optional("source_episodes", x)) =
                   {home \in {Home(rows, "source_episodes", x)} : x # None}
            /\ Spaced(rows, Optional("memories", x)) \subseteq {Home(rows, "memories", x)}
  <2> TAKE x
  <2>1. CASE x = None
    <3>1. Optional("source_episodes", x) = {} /\ Optional("memories", x) = {}
      BY <2>1 DEF Optional
    <3>2. Spaced(rows, {}) = {}
      BY SpacedIs
    <3>3. QED
      BY ONLY <2>1, <3>1, <3>2
  <2>2. CASE x # None
    <3>1. /\ Optional("source_episodes", x) = {<<"source_episodes", x>>}
          /\ Optional("memories", x) = {<<"memories", x>>}
      BY <2>2 DEF Optional
    <3>2. /\ Spaced(rows, {<<"memories", x>>}) = {Home(rows, "memories", x)}
          /\ Spaced(rows, {<<"source_episodes", x>>}) = {Home(rows, "source_episodes", x)}
      BY SpacedIs
    <3>3. QED
      BY ONLY <2>2, <3>1, <3>2
  <2>3. QED
    BY <2>1, <2>2
<1>3. ASSUME NEW t \in {"schema_migrations", "config_kv", "spaces"}
      PROVE  Reached(rows, t, row) = {}
  <2>1. Refs(t, row) = {}
    BY DEF Refs
  <2>2. QED
    BY <1>1, <2>1, SpacedIs
<1>4. ASSUME NEW t \in {"silos", "source_episodes", "entities"}
      PROVE  Reached(rows, t, row) = {}
  <2>1. Refs(t, row) = {<<"spaces", row.space>>}
    BY DEF Refs
  <2>2. Reached(rows, t, row) = Spaced(rows, {<<"spaces", row.space>>})
    BY <1>1, <2>1
  <2>3. QED
    BY <2>2, SpacedIs
<1>5. Reached(rows, "memory_representations", row) = {}
  <2>1. Refs("memory_representations", row) = {<<"memory_versions", row.id>>}
    BY DEF Refs
  <2>2. Reached(rows, "memory_representations", row) =
          Spaced(rows, {<<"memory_versions", row.id>>})
    BY <1>1, <2>1
  <2>3. QED
    BY <2>2, SpacedIs
<1>6. ASSUME NEW t \in {"memory_versions", "memory_events"}
      PROVE  Reached(rows, t, row) = {Home(rows, "memories", row.memory)}
  <2>1. Refs(t, row) = {<<"memories", row.memory>>}
    BY DEF Refs
  <2>2. Reached(rows, t, row) = Spaced(rows, {<<"memories", row.memory>>})
    BY <1>1, <2>1
  <2>3. QED
    BY <2>2, SpacedIs
<1>7. Reached(rows, "memories", row) \subseteq
        {home \in {Home(rows, "source_episodes", row.source)} : row.source # None}
  <2> DEFINE own == {<<"spaces", row.space>>}
             home == {<<"silos", <<row.space, row.silo>>>>}
             source == Optional("source_episodes", row.source)
  <2>1. Refs("memories", row) = (own \cup home) \cup source
    BY DEF Refs
  <2>2. Spaced(rows, own) = {} /\ Spaced(rows, home) = {}
    BY SpacedIs, Zenon
  <2>3. Spaced(rows, source) = {h \in {Home(rows, "source_episodes", row.source)} :
                                  row.source # None}
    BY <1>2
  <2> HIDE DEF own, home, source
  <2>4. Reached(rows, "memories", row) = Spaced(rows, (own \cup home) \cup source)
    BY <1>1, <2>1
  <2>5. /\ Spaced(rows, (own \cup home) \cup source) =
             Spaced(rows, own \cup home) \cup Spaced(rows, source)
        /\ Spaced(rows, own \cup home) = Spaced(rows, own) \cup Spaced(rows, home)
    BY SpacedTwo
  <2>6. QED
    BY <2>2, <2>3, <2>4, <2>5
<1>8. ASSUME NEW x, NEW y
      PROVE  Spaced(rows, {<<"memories", x>>, <<"memories", y>>}) =
               {Home(rows, "memories", x), Home(rows, "memories", y)}
  <2>1. {<<"memories", x>>, <<"memories", y>>} = {<<"memories", x>>} \cup {<<"memories", y>>}
    OBVIOUS
  <2>2. Spaced(rows, {<<"memories", x>>} \cup {<<"memories", y>>}) =
          Spaced(rows, {<<"memories", x>>}) \cup Spaced(rows, {<<"memories", y>>})
    BY SpacedTwo
  <2>3. /\ Spaced(rows, {<<"memories", x>>}) = {Home(rows, "memories", x)}
        /\ Spaced(rows, {<<"memories", y>>}) = {Home(rows, "memories", y)}
    BY SpacedIs, Zenon
  <2>4. QED
    BY <2>1, <2>2, <2>3
<1>9. Reached(rows, "memory_links", row) =
        {Home(rows, "memories", row.id[1]), Home(rows, "memories", row.id[2])}
  <2>1. Refs("memory_links", row) = {<<"memories", row.id[1]>>, <<"memories", row.id[2]>>}
    BY DEF Refs
  <2>2. Reached(rows, "memory_links", row) =
          Spaced(rows, {<<"memories", row.id[1]>>, <<"memories", row.id[2]>>})
    BY <1>1, <2>1
  <2>3. QED
    BY <1>8, <2>2
<1>10. Reached(rows, "conflicts", row) =
         {Home(rows, "memories", row.id[1]), Home(rows, "memories", row.id[2])}
  <2> DEFINE own == {<<"spaces", row.space>>}
             ends == {<<"memories", row.id[1]>>, <<"memories", row.id[2]>>}
  <2>1. Refs("conflicts", row) = own \cup ends
    BY DEF Refs
  <2>2. Spaced(rows, own) = {}
    BY SpacedIs, Zenon
  <2>3. Spaced(rows, ends) =
          {Home(rows, "memories", row.id[1]), Home(rows, "memories", row.id[2])}
    BY <1>8
  <2> HIDE DEF own, ends
  <2>4. Reached(rows, "conflicts", row) = Spaced(rows, own \cup ends)
    BY <1>1, <2>1
  <2>5. Spaced(rows, own \cup ends) = Spaced(rows, own) \cup Spaced(rows, ends)
    BY SpacedTwo
  <2>6. QED
    BY <2>2, <2>3, <2>4, <2>5
<1>11. Reached(rows, "relationships", row) =
         {Home(rows, "entities", row.entity), Home(rows, "memories", row.id)}
  <2> DEFINE own == {<<"spaces", row.space>>}
             entity == {<<"entities", row.entity>>}
             evidence == {<<"memories", row.id>>}
  <2>1. Refs("relationships", row) = (own \cup entity) \cup evidence
    BY DEF Refs
  <2>2. /\ Spaced(rows, own) = {} /\ Spaced(rows, entity) = {Home(rows, "entities", row.entity)}
        /\ Spaced(rows, evidence) = {Home(rows, "memories", row.id)}
    BY SpacedIs, Zenon
  <2> HIDE DEF own, entity, evidence
  <2>3. Reached(rows, "relationships", row) = Spaced(rows, (own \cup entity) \cup evidence)
    BY <1>1, <2>1
  <2>4. /\ Spaced(rows, (own \cup entity) \cup evidence) =
             Spaced(rows, own \cup entity) \cup Spaced(rows, evidence)
        /\ Spaced(rows, own \cup entity) = Spaced(rows, own) \cup Spaced(rows, entity)
    BY SpacedTwo
  <2>5. QED
    BY <2>2, <2>3, <2>4
<1>12. row.id[2] = None => Reached(rows, "embeddings", row) \subseteq
                             {Home(rows, "memories", row.id[1])}
  <2> DEFINE first == Optional("memories", row.id[1])
             second == Optional("source_episodes", row.id[2])
  <2>1. HAVE row.id[2] = None
  <2>2. Refs("embeddings", row) = first \cup second
    BY DEF Refs
  <2>3. Spaced(rows, second) = {}
    BY <1>2, <2>1
  <2>4. Spaced(rows, first) \subseteq {Home(rows, "memories", row.id[1])}
    BY <1>2
  <2> HIDE DEF first, second
  <2>5. Reached(rows, "embeddings", row) = Spaced(rows, first \cup second)
    BY <1>1, <2>2
  <2>6. Spaced(rows, first \cup second) = Spaced(rows, first) \cup Spaced(rows, second)
    BY SpacedTwo
  <2>7. QED
    BY <2>3, <2>4, <2>5, <2>6
<1>13. QED
  BY <1>3, <1>4, <1>5, <1>6, <1>7, <1>9, <1>10, <1>11, <1>12

\* No row reaches over two spaces.
OneHome(rows, t, row) == \E x : Homes(rows, t, row) \subseteq {x}

\* What validate_import_space_isolation lets pass reaches over no two spaces.
LEMMA PassedApart ==
  ASSUME NEW rows, MemoriesApart(rows), GraphApart(rows),
         \A e \in rows["embeddings"] : e.id[2] = None,
         NEW t \in AllTables, NEW row \in rows[t]
  PROVE  OneHome(rows, t, row)
<1>1. /\ t \in SpacedTables => Homes(rows, t, row) = {row.space} \cup Reached(rows, t, row)
      /\ t \notin SpacedTables => Homes(rows, t, row) = Reached(rows, t, row)
  BY DEF Homes, Reached, Spaced
<1>2. CASE t \in {"schema_migrations", "config_kv", "spaces", "silos", "source_episodes",
                  "entities", "memory_representations"}
  <2>1. Reached(rows, t, row) = {}
    BY <1>2, ReachedIs
  <2>2. Homes(rows, t, row) \subseteq {row.space}
    BY <1>1, <2>1
  <2>3. QED
    BY <2>2 DEF OneHome
<1>3. CASE t \in {"memory_versions", "memory_events"}
  <2>1. t \notin SpacedTables
    BY <1>3 DEF SpacedTables
  <2>2. Reached(rows, t, row) = {Home(rows, "memories", row.memory)}
    BY <1>3, ReachedIs
  <2>3. QED
    BY <1>1, <2>1, <2>2 DEF OneHome
<1>4. CASE t = "memories"
  <2>1. row.source # None => Home(rows, "source_episodes", row.source) = row.space
    BY <1>4 DEF MemoriesApart
  <2>2. Reached(rows, t, row) \subseteq
          {home \in {Home(rows, "source_episodes", row.source)} : row.source # None}
    BY <1>4, ReachedIs
  <2>3. Homes(rows, t, row) \subseteq {row.space}
    BY <1>1, <1>4, <2>1, <2>2 DEF SpacedTables
  <2>4. QED
    BY <2>3 DEF OneHome
<1>5. CASE t = "memory_links"
  <2>1. Home(rows, "memories", row.id[1]) = Home(rows, "memories", row.id[2])
    BY <1>5 DEF MemoriesApart
  <2>2. Reached(rows, t, row) =
          {Home(rows, "memories", row.id[1]), Home(rows, "memories", row.id[2])}
    BY <1>5, ReachedIs
  <2>3. Homes(rows, t, row) \subseteq {Home(rows, "memories", row.id[1])}
    BY <1>1, <1>5, <2>1, <2>2 DEF SpacedTables
  <2>4. QED
    BY <2>3 DEF OneHome
<1>6. CASE t = "conflicts"
  <2>1. \A k \in 1..2 : Home(rows, "memories", row.id[k]) = row.space
    BY <1>6 DEF MemoriesApart
  <2>2. /\ Home(rows, "memories", row.id[1]) = row.space
        /\ Home(rows, "memories", row.id[2]) = row.space
    BY <2>1
  <2>3. Reached(rows, t, row) =
          {Home(rows, "memories", row.id[1]), Home(rows, "memories", row.id[2])}
    BY <1>6, ReachedIs
  <2>4. Homes(rows, t, row) \subseteq {row.space}
    BY <1>1, <1>6, <2>2, <2>3 DEF SpacedTables
  <2>5. QED
    BY <2>4 DEF OneHome
<1>7. CASE t = "relationships"
  <2>1. /\ Home(rows, "entities", row.entity) = row.space
        /\ Home(rows, "memories", row.id) = row.space
    BY <1>7 DEF GraphApart
  <2>2. Reached(rows, t, row) =
          {Home(rows, "entities", row.entity), Home(rows, "memories", row.id)}
    BY <1>7, ReachedIs
  <2>3. Homes(rows, t, row) \subseteq {row.space}
    BY <1>1, <1>7, <2>1, <2>2 DEF SpacedTables
  <2>4. QED
    BY <2>3 DEF OneHome
<1>8. CASE t = "embeddings"
  <2>1. row.id[2] = None
    BY <1>8
  <2>2. Reached(rows, t, row) \subseteq {Home(rows, "memories", row.id[1])}
    BY <1>8, <2>1, ReachedIs
  <2>3. Homes(rows, t, row) \subseteq {Home(rows, "memories", row.id[1])}
    BY <1>1, <1>8, <2>2 DEF SpacedTables
  <2>4. QED
    BY <2>3 DEF OneHome
<1>9. QED
  BY <1>2, <1>3, <1>4, <1>5, <1>6, <1>7, <1>8, FourteenTables

\* The repair of the vestigial silo moves nothing to another space.
LEMMA CleanedApart ==
  ASSUME NEW norm, norm = [t \in AllTables |-> norm[t]],
         NEW rows, rows = Cleaned(norm),
         \A t \in AllTables : \A row \in norm[t] : OneHome(norm, t, row),
         NEW t \in AllTables, NEW row \in rows[t]
  PROVE  OneHome(rows, t, row)
<1>1. \A u \in AllTables \ {"spaces", "silos"} : rows[u] = norm[u]
  BY DEF Cleaned
<1>2. \A u \in SpacedTables : \A id : Home(rows, u, id) = Home(norm, u, id)
  <2> TAKE u \in SpacedTables
  <2> TAKE id
  <2>1. u \in AllTables \ {"spaces", "silos"}
    BY FourteenTables DEF SpacedTables
  <2>2. rows[u] = norm[u]
    BY <1>1, <2>1
  <2>3. QED
    BY <2>2 DEF Home
<1>3. \A u, r : Reached(rows, u, r) = Reached(norm, u, r)
  BY <1>2 DEF Reached, Spaced
<1>4. /\ t \in SpacedTables => Homes(rows, t, row) = {row.space} \cup Reached(rows, t, row)
      /\ t \notin SpacedTables => Homes(rows, t, row) = Reached(rows, t, row)
  BY DEF Homes, Reached, Spaced
<1>5. CASE t \in {"spaces", "silos"}
  <2>1. Reached(rows, t, row) = {} /\ t \notin SpacedTables
    BY <1>5, ReachedIs DEF SpacedTables
  <2>2. Homes(rows, t, row) \subseteq {row.space}
    BY <1>4, <2>1
  <2>3. QED
    BY <2>2 DEF OneHome
<1>6. CASE t \notin {"spaces", "silos"}
  <2>1. row \in norm[t]
    BY <1>1, <1>6
  <2>2. PICK x : Homes(norm, t, row) \subseteq {x}
    BY <2>1 DEF OneHome
  <2>3. Homes(rows, t, row) = Homes(norm, t, row)
    BY <1>3, <1>4 DEF Homes, Reached, Spaced
  <2>4. QED
    BY <2>2, <2>3 DEF OneHome
<1>7. QED
  BY <1>5, <1>6

LEMMA SpacesApart ==
  ASSUME ArchiveInv
  PROVE  ImportKeepsSpacesApart
<1> DEFINE E == Export
<1>1. Own(E) /\ DOMAIN E = 1..Len(E)
  BY OwnFile DEF Own
<1> HIDE DEF E
<1>2. ASSUME NEW k \in 1..Len(E), IsRow(E[k], SpacedTables), NEW space \in Spaces,
             NEW s, s = [E EXCEPT ![k].data.space = space], Import(s).ok,
             NEW t \in AllTables, NEW row \in Import(s).rows[t]
      PROVE  Cardinality(Homes(Import(s).rows, t, row)) <= 1
  <2> DEFINE data == [E[k].data EXCEPT !.space = space]
  <2>1. E[k].type = "row" /\ E[k].table \in SpacedTables
    BY <1>2 DEF IsRow
  <2>2. Edited(s, E, k, data)
    BY <1>1, <1>2, <2>1, EditedIs
  <2> HIDE DEF data
  <2>3. /\ Complete(s) /\ s[k].table = E[k].table
        /\ \A u : u # s[k].table => Had(s, Len(s), u) = Had(E, Len(E), u)
    <3>1. s[k].table = E[k].table
      BY <2>2 DEF Edited
    <3>2. Complete(s) /\ \A u : u # s[k].table => Had(s, Len(s), u) = Had(E, Len(E), u)
      <4>1. Own(E) /\ E[k].type = "row" /\ Import(s).ok /\ Edited(s, E, k, data)
        BY <1>1, <1>2, <2>1, <2>2
      <4>2. Complete(s)
        BY ONLY <4>1, EditedTells
      <4>3. ASSUME NEW u, u # s[k].table
            PROVE  Had(s, Len(s), u) = Had(E, Len(E), u)
        BY ONLY <4>1, <4>3, EditedTells
      <4>4. QED
        BY ONLY <4>2, <4>3
    <3>3. QED
      BY <3>1, <3>2
  <2>4. PICK norm : /\ Integrity(norm) /\ VectorsReadable(norm)
                    /\ Import(s).rows = Cleaned(norm)
                    /\ norm = [u \in AllTables |-> norm[u]]
                    /\ \A u \in AllTables \ Metadata : norm[u] = Had(s, Len(s), u)
    BY <2>3, Checked
  <2>5. norm["embeddings"] = Tables["embeddings"]
    <3>1. "embeddings" \in AllTables \ Metadata /\ "embeddings" \notin SpacedTables
      BY FourteenTables DEF Metadata, SpacedTables
    <3>2. Had(E, Len(E), "embeddings") = Tables["embeddings"]
      BY <1>1, <3>1 DEF Own
    <3>3. QED
      BY <2>1, <2>3, <2>4, <3>1, <3>2
  <2>6. \A e \in norm["embeddings"] : e.id[2] = None
    <3> TAKE e \in norm["embeddings"]
    <3>1. e.id[1] # None
      BY <2>4 DEF VectorsReadable
    <3>2. Tables["embeddings"] =
            {MemoryVector(i) : i \in WithVector} \cup {ChunkVector(d) : d \in VectorChunks}
      BY TablesAre
    <3>3. \/ \E i \in WithVector : e = MemoryVector(i)
          \/ \E d \in VectorChunks : e = ChunkVector(d)
      BY <2>5, <3>2
    <3>4. QED
      BY <3>1, <3>3 DEF MemoryVector, ChunkVector
  <2>7. \A u \in AllTables : \A r \in norm[u] : OneHome(norm, u, r)
    BY <2>4, <2>6, PassedApart DEF Integrity
  <2>8. OneHome(Import(s).rows, t, row)
    BY <2>4, <2>7, CleanedApart
  <2>9. QED
    BY <2>8, OneAtMost DEF OneHome
<1>3. \A s \in Moved(E) : Import(s).ok =>
        \A t \in AllTables : \A row \in Import(s).rows[t] :
          Cardinality(Homes(Import(s).rows, t, row)) <= 1
  BY <1>1, <1>2 DEF Moved
<1>4. QED
  BY <1>3 DEF ImportKeepsSpacesApart, E, AllTables

\* parse_import_file, the integrity checks and rebuild_vector_index refuse a
\* file that ends early or misses, repeats, swaps, widens or edits a record, or
\* nothing is lost by it; and a row moved to another space is refused wherever
\* it, or a row that refers to it, would then reach over two spaces.
THEOREM BadArchivesAreRefused == ArchiveSpec => []BadArchivesRefused
<1>1. ArchiveInv => BadArchivesRefused
  BY DamageCaught, SpacesApart DEF BadArchivesRefused
<1>2. QED
  BY <1>1, ArchiveInvHolds, PTL

\* What is true of the rows, the history and the supersessions of a store stays
\* true however often it moves to other files between its writes: the rows that
\* come back are those that went out (ArchivesKeepAll), and the recall log, which
\* is left behind, is nothing that they rest on.
THEOREM MovesKeepTheStore == ArchiveSpec => [](RowsSound /\ AuditTrail /\ SupersessionTree)
<1>1. ArchiveInit => AuditTrail /\ SupersessionTree
  BY DEF ArchiveInit, Init, AuditTrail, SupersessionTree, Ids
<1>2. ArchiveInv /\ AuditTrail /\ SupersessionTree /\ [ArchiveNext]_archiveVars
        => AuditTrail' /\ SupersessionTree'
  <2> SUFFICES ASSUME ArchiveInv, AuditTrail, SupersessionTree, [ArchiveNext]_archiveVars
               PROVE  AuditTrail' /\ SupersessionTree'
    OBVIOUS
  <2>1. TypeOK
    BY DEF ArchiveInv, ArchiveTypeOK
  <2>2. CASE [Next]_vars
    BY <2>1, <2>2, AuditNext, TreeNext
  <2>3. CASE Reload
    <3>1. UNCHANGED <<count, mem, events, links>>
      BY <2>3 DEF Reload
    <3>2. QED
      BY <3>1 DEF AuditTrail, SupersessionTree, Ids
  <2>4. QED
    BY <2>2, <2>3, ArchiveSteps
<1>3. ArchiveInv => RowsSound
  BY CrossSound DEF ArchiveInv, ArchiveTypeOK
<1>4. QED
  BY <1>1, <1>2, <1>3, ArchiveInvHolds, PTL DEF ArchiveSpec

\* And it is still an implementation of MemoryLifecycle: no memory comes back to
\* life, changes its pin or is lost by way of an archive.
THEOREM MovesImplementLifecycle == ArchiveSpec => ImplementsLifecycle
<1>1. ArchiveInit => Lifecycle!Init
  BY DEF ArchiveInit, Init, Ids, Lifecycle!Init
<1>2. ArchiveInv /\ [ArchiveNext]_archiveVars => [Lifecycle!Next]_(Lifecycle!vars)
  <2> SUFFICES ASSUME ArchiveInv, [ArchiveNext]_archiveVars
               PROVE  [Lifecycle!Next]_(Lifecycle!vars)
    OBVIOUS
  <2>1. CASE [Next]_vars
    <3>1. TypeOK /\ TypeOK'
      BY <2>1, TypeNext DEF ArchiveInv, ArchiveTypeOK
    <3>2. QED
      BY <2>1, <3>1, LifecycleStep
  <2>2. CASE Reload
    <3>1. mem' = mem /\ count' = count
      BY <2>2 DEF Reload
    <3>2. QED
      BY <3>1 DEF Lifecycle!vars, Ids
  <2>3. QED
    BY <2>1, <2>2, ArchiveSteps
<1>3. QED
  BY <1>1, <1>2, ArchiveInvHolds, PTL DEF ArchiveSpec, ImplementsLifecycle, Lifecycle!Spec

=============================================================================
