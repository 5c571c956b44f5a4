-------------------------- MODULE StoreFiles_proofs --------------------------
(* Proofs about stores as files, for every number of processes, paths, jobs   *)
(* and crashes: what was reported stays, no process replaces what another one *)
(* put under a path, and what was killed leaves stores that can be used.      *)
EXTENDS StoreFiles, SequenceTheorems, FiniteSetTheorems, TLAPS

-----------------------------------------------------------------------------
(* The inductive invariant *)

FileRow == [disk : Content, live : Content, mode : {"delete", "wal"}, whole : BOOLEAN]

ProcRow == [step : Steps, job : Jobs \cup {None}, id : 0..MaxJobs, file : Nat, temp : Nat,
            source : Nat, published : Nat, seen : {0, 5, Current}]

Working == {"version", "schema", "commit", "close"}

\* What a process has in its hands at each of its steps.
Shape(r) ==
  /\ r.step = "idle" <=> r = Idle
  /\ r.step # "idle" => r.job \in Jobs /\ r.id # 0
  /\ r.step \in {"temp", "fill", "publish"} => r.job.op \in {"import", "export", "backup"}
  /\ r.temp # None <=> r.step \in {"fill", "publish"}
  /\ r.file # None <=> r.step \in Working

Types ==
  /\ files \in Seq(FileRow)
  /\ at \in [Paths -> 0..Len(files)]
  /\ temps \subseteq DOMAIN files /\ hot \subseteq Paths
  /\ proc \in [Procs -> ProcRow]
  /\ \A p \in Procs : /\ Shape(proc[p])
                      /\ {proc[p].file, proc[p].published} \subseteq 0..Len(files)
  /\ Owned \subseteq temps /\ (crashes = 0 => temps = Owned)
  /\ started \in 0..MaxJobs /\ crashes \in 0..MaxCrashes
  /\ withdrawn \subseteq DOMAIN files /\ cut \subseteq DOMAIN files

\* A file has one name at a time.  What a process published is under its path,
\* what it has open is, or was taken back.
Names ==
  /\ \A q, r \in Paths : at[q] # None /\ at[q] = at[r] => q = r
  /\ \A q \in Paths : at[q] # None => at[q] \notin temps /\ at[q] \notin withdrawn
  /\ temps \cap withdrawn = {}
  /\ \A p \in Procs : proc[p].published # None => at[Path(p)] = proc[p].published
  /\ \A p \in Procs : proc[p].file # None =>
       /\ proc[p].file \notin temps
       /\ at[Path(p)] = proc[p].file \/ proc[p].file \in withdrawn
Apart ==
  \A p, r \in Procs : p # r =>
    /\ proc[p].temp # None => proc[p].temp # proc[r].temp
    /\ proc[p].published # None => proc[p].published # proc[r].published

\* What may be in a file at any time.
Sane(content) ==
  /\ ~content.sized => content = Empty
  /\ content.version # Current => content.mems = {} /\ content.cards = {}
  /\ content.mems = content.cards \/ content.twice
  /\ content.version # 0 \/ content.archive \/ content \in {Empty, Bare}
Contents ==
  \A f \in DOMAIN files :
    /\ Sane(files[f].live)
    /\ files[f].mode = "delete" => files[f].disk = files[f].live
    /\ files[f].mode = "wal" => files[f].live.sized
    /\ files[f].disk.version = Current => files[f].live.version = Current

\* What a process relies on of the file it writes, copies or is to publish, and
\* of the file it is about to open.
Leans(p) ==
  /\ At(p, "commit") => files[proc[p].file].live.version = Current
  /\ proc[p].step \in {"version", "schema"} => files[proc[p].file].live.sized
  /\ At(p, "fill") /\ proc[p].job.op = "backup" =>
       /\ proc[p].source \in DOMAIN files \ temps
       /\ files[proc[p].source].live.version = Current
  /\ At(p, "publish") =>
       LET file == files[proc[p].temp] IN
       file.whole /\ (file.live.version = Current \/ file.live.archive)
Looks(p) ==
  At(p, "open") /\ proc[p].seen # Current =>
    /\ at[Path(p)] # None
    /\ files[at[Path(p)]].live.sized
    /\ \A r \in Procs : proc[r].published # at[Path(p)]
Relied ==
  /\ \A q \in Paths : at[q] # None => files[at[q]].whole
  /\ \A p \in Procs : Leans(p) /\ Looks(p)

Acknowledged ==
  \A a \in acked :
    /\ a.path \in Paths /\ a.file \in DOMAIN files /\ a.file \notin temps
    /\ a.mem \in files[a.file].live.mems
    /\ at[a.path] = a.file \/ a.file \in withdrawn

\* A file with the first page and no schema is of an init that goes on or was
\* killed.
Begun ==
  \A f \in DOMAIN files :
    files[f].live = Bare =>
      f \in cut \/ \E p \in Users(f) : proc[p].step \in {"version", "schema"}

\* A store of schema 5 was there from the start: whoever works on its path works
\* on it, and a log that is not checkpointed lies beside it.
Old ==
  \A f \in DOMAIN files :
    5 \in {files[f].disk.version, files[f].live.version} =>
      /\ files[f].mode = "wal"
      /\ \E q \in Paths :
           /\ at[q] = f
           /\ \A p \in Procs : ~At(p, "idle") /\ Path(p) = q =>
                proc[p].file \in {None, f} /\ proc[p].published = None
           /\ files[f].disk # files[f].live => Users(f) # {} \/ q \in hot

IInv == Types /\ Names /\ Apart /\ Contents /\ Relied /\ Acknowledged /\ Begun /\ Old

-----------------------------------------------------------------------------
(* Files *)

\* What the program puts into a new file is what a file may hold.
LEMMA ContentFacts ==
  /\ Empty \in Content /\ Bare \in Content /\ StoreOf(5) \in Content
  /\ StoreOf(Current) \in Content /\ ArchiveFile \in Content
  /\ Sane(Empty) /\ Sane(Bare) /\ Sane(StoreOf(5)) /\ Sane(StoreOf(Current))
  /\ Sane(ArchiveFile)
  /\ Empty.version = 0 /\ Bare.version = 0 /\ ArchiveFile.version = 0
  /\ ArchiveFile.archive /\ ArchiveFile # Bare /\ ArchiveFile.sized
  /\ ~Empty.sized /\ Bare.sized /\ ~Bare.archive /\ Empty.mems = {}
  /\ \A v \in {0, 5, Current} : StoreOf(v).version = v /\ StoreOf(v).sized
<1>1. /\ Empty \in Content /\ ~Empty.sized /\ ~Empty.archive /\ Empty.version = 0
      /\ Empty.mems = {} /\ Empty.cards = {}
  BY DEF Content, Empty
<1>2. /\ Bare \in Content /\ Bare.sized /\ ~Bare.archive /\ Bare.version = 0
      /\ Bare.mems = {} /\ Bare.cards = {}
  BY <1>1 DEF Content, Bare
<1>3. /\ ArchiveFile \in Content /\ ArchiveFile.sized /\ ArchiveFile.archive
      /\ ArchiveFile.version = 0 /\ ArchiveFile.mems = {} /\ ArchiveFile.cards = {}
  BY <1>2 DEF Content, ArchiveFile
<1>4. ASSUME NEW v \in {0, 5, Current}
      PROVE  /\ StoreOf(v) \in Content /\ StoreOf(v).sized /\ StoreOf(v).version = v
             /\ StoreOf(v).mems = {} /\ StoreOf(v).cards = {}
  BY <1>2 DEF Content, StoreOf
<1>5. Sane(Empty) /\ Sane(Bare) /\ Sane(ArchiveFile)
  BY <1>1, <1>2, <1>3 DEF Sane
<1>6. ASSUME NEW v \in {5, Current}
      PROVE  Sane(StoreOf(v))
  <2>1. v # 0 /\ v \in {0, 5, Current}
    BY DEF Current
  <2> QED
    BY <1>4, <2>1 DEF Sane
<1> QED
  BY <1>1, <1>2, <1>3, <1>4, <1>5, <1>6

\* A migration keeps the memories and leaves a store of the current schema; it
\* empties the full-text table of what was current only when it says so.
LEMMA MigratedContent ==
  ASSUME NEW content \in Content, Sane(content), content.sized, NEW seen \in {0, 5, Current}
  PROVE  /\ Migrated(content, seen) \in Content
         /\ Sane(Migrated(content, seen))
         /\ Migrated(content, seen).version = Current
         /\ Migrated(content, seen).mems = content.mems
         /\ Migrated(content, seen).sized
         /\ Migrated(content, seen).archive = content.archive
<1> DEFINE new == Migrated(content, seen)
           again == content.twice \/ content.version = Current
<1>1. /\ content.mems \subseteq 1..MaxJobs /\ content.cards \subseteq 1..MaxJobs
      /\ content.sized \in BOOLEAN /\ content.archive \in BOOLEAN /\ content.twice \in BOOLEAN
  BY DEF Content
<1>2. CASE seen < Current
  <2>1. new = [content EXCEPT !.version = Current, !.cards = {}, !.twice = again]
    BY <1>2 DEF Migrated
  <2>2. /\ new \in Content /\ new.version = Current /\ new.mems = content.mems
        /\ new.cards = {} /\ new.sized = content.sized /\ new.archive = content.archive
        /\ new.twice = again
    BY <1>1, <2>1 DEF Content
  <2>3. new.mems = {} \/ new.twice
    BY <2>2 DEF Sane
  <2>4. Sane(new)
    BY <2>2, <2>3 DEF Sane, Current
  <2> QED
    BY <2>2, <2>4
<1>3. CASE ~(seen < Current)
  <2>1. new = [content EXCEPT !.version = Current]
    BY <1>3 DEF Migrated
  <2>2. /\ new \in Content /\ new.version = Current /\ new.mems = content.mems
        /\ new.cards = content.cards /\ new.sized = content.sized
        /\ new.archive = content.archive /\ new.twice = content.twice
    BY <1>1, <2>1 DEF Content
  <2>3. Sane(new)
    BY <2>2 DEF Sane, Current
  <2> QED
    BY <2>2, <2>3
<1> QED
  BY <1>2, <1>3

\* A write adds its memory and its card, and changes nothing else.
Written(content, m) == [content EXCEPT !.mems = @ \cup {m}, !.cards = @ \cup {m}]

LEMMA WrittenContent ==
  ASSUME NEW content \in Content, Sane(content), content.version = Current,
         NEW m \in 1..MaxJobs
  PROVE  /\ Written(content, m) \in Content
         /\ Sane(Written(content, m))
         /\ Written(content, m).version = Current
         /\ Written(content, m).mems = content.mems \cup {m}
         /\ Written(content, m).sized
<1> DEFINE new == Written(content, m)
<1>1. content.mems \cup {m} \subseteq 1..MaxJobs /\ content.cards \cup {m} \subseteq 1..MaxJobs
  BY DEF Content
<1>2. /\ new \in Content /\ new.version = content.version
      /\ new.mems = content.mems \cup {m} /\ new.cards = content.cards \cup {m}
      /\ new.sized = content.sized /\ new.archive = content.archive /\ new.twice = content.twice
  BY <1>1 DEF Content, Written
<1> HIDE DEF new
<1>3. content.sized
  BY ContentFacts DEF Sane, Current
<1>4. Sane(new)
  <2>1. content.version # 0
    BY DEF Current
  <2> QED
    BY <1>2, <1>3, <2>1 DEF Sane
<1> QED
  BY <1>2, <1>3, <1>4 DEF new

\* One file is written: the others are as they were.
LEMMA Rewritten ==
  ASSUME NEW s \in Seq(FileRow), NEW f \in DOMAIN s, NEW row \in FileRow,
         NEW t, t = [s EXCEPT ![f] = row]
  PROVE  /\ t \in Seq(FileRow) /\ Len(t) = Len(s) /\ DOMAIN t = DOMAIN s
         /\ t[f] = row
         /\ \A g \in DOMAIN s \ {f} : t[g] = s[g]
BY ExceptSeq, LenProperties

\* A file is created: the others are as they were.
LEMMA Created ==
  ASSUME NEW s \in Seq(FileRow), NEW row \in FileRow, NEW t, t = Append(s, row)
  PROVE  /\ t \in Seq(FileRow) /\ Len(t) = Len(s) + 1
         /\ DOMAIN t = DOMAIN s \cup {Len(t)} /\ Len(t) \notin DOMAIN s
         /\ Len(t) # None
         /\ t[Len(t)] = row
         /\ \A g \in DOMAIN s : t[g] = s[g]
BY AppendProperties, LenProperties DEF None

\* The logs may have been checkpointed; what a connection sees is as it was.
Saved(t) ==
  /\ t \in Seq(FileRow) /\ Len(t) = Len(files) /\ DOMAIN t = DOMAIN files
  /\ \A g \in DOMAIN files :
       /\ t[g].live = files[g].live /\ t[g].mode = files[g].mode /\ t[g].whole = files[g].whole
       /\ t[g].disk \in {files[g].disk, files[g].live}

LEMMA CheckpointedFiles ==
  ASSUME files \in Seq(FileRow), NEW f \in DOMAIN files
  PROVE  Saved(Checkpointed(f)) /\ Checkpointed(f)[f].disk = files[f].live
<1> DEFINE row == [files[f] EXCEPT !.disk = files[f].live]
<1>1. files[f] \in FileRow
  BY ElementOfSeq, LenProperties
<1>2. /\ row \in FileRow /\ row.disk = files[f].live /\ row.live = files[f].live
      /\ row.mode = files[f].mode /\ row.whole = files[f].whole
  BY <1>1 DEF FileRow
<1>3. Checkpointed(f) = [files EXCEPT ![f] = row]
  BY DEF Checkpointed
<1> HIDE DEF row
<1> QED
  BY <1>2, <1>3, Rewritten DEF Saved

\* The last connection that closes a store checkpoints it.
LEMMA ClosedFiles ==
  ASSUME files \in Seq(FileRow), NEW p \in Procs, proc[p].file \in 0..Len(files)
  PROVE  /\ Saved(Closed(p))
         /\ proc[p].file # None /\ Users(proc[p].file) = {p} =>
              Closed(p)[proc[p].file].disk = files[proc[p].file].live
<1> DEFINE f == proc[p].file
<1>1. Saved(files)
  BY DEF Saved
<1>2. f # None => f \in DOMAIN files
  BY LenProperties DEF None
<1>3. CASE f # None /\ Users(f) = {p}
  BY <1>2, <1>3, CheckpointedFiles DEF Closed
<1>4. CASE ~(f # None /\ Users(f) = {p})
  BY <1>1, <1>4 DEF Closed
<1> QED
  BY <1>3, <1>4

\* A transaction writes the main file in rollback mode, and the log otherwise.
LEMMA CommittedFiles ==
  ASSUME files \in Seq(FileRow), NEW f \in DOMAIN files, NEW content \in Content,
         Committed(f, content)
  PROVE  /\ files' \in Seq(FileRow) /\ Len(files') = Len(files) /\ DOMAIN files' = DOMAIN files
         /\ \A g \in DOMAIN files \ {f} : files'[g] = files[g]
         /\ files'[f].live = content
         /\ files'[f].disk = IF files[f].mode = "wal" THEN files[f].disk ELSE content
         /\ files'[f].mode = files[f].mode /\ files'[f].whole = files[f].whole
<1> DEFINE row == [files[f] EXCEPT !.live = content,
                                   !.disk = IF files[f].mode = "wal" THEN @ ELSE content]
<1>1. files[f] \in FileRow
  BY ElementOfSeq, LenProperties
<1>2. /\ row \in FileRow /\ row.live = content
      /\ row.disk = IF files[f].mode = "wal" THEN files[f].disk ELSE content
      /\ row.mode = files[f].mode /\ row.whole = files[f].whole
  BY <1>1 DEF FileRow
<1>3. files' = [files EXCEPT ![f] = row]
  BY <1>1, LenProperties DEF Committed, FileRow
<1> HIDE DEF row
<1> QED
  BY <1>2, <1>3, Rewritten

-----------------------------------------------------------------------------
(* The initial states *)

LEMMA IdleRow == Idle \in ProcRow /\ Shape(Idle)
<1>1. /\ Idle.step = "idle" /\ Idle.job = None /\ Idle.id = 0 /\ Idle.file = None
      /\ Idle.temp = None /\ Idle.source = None /\ Idle.published = None /\ Idle.seen = 0
  BY DEF Idle, None
<1>2. Idle \in ProcRow
  BY StoreFilesAssumption DEF Idle, ProcRow, Steps, None, StoreFilesAssumption
<1>3. "idle" \notin {"fill", "publish"} /\ "idle" \notin Working
  BY DEF Working
<1> QED
  BY <1>1, <1>2, <1>3 DEF Shape

LEMMA OldStoreRow ==
  /\ OldStore \in FileRow /\ OldStore.mode = "wal" /\ OldStore.whole
  /\ OldStore.disk = StoreOf(5) /\ OldStore.live = StoreOf(5)
BY ContentFacts DEF OldStore, File, FileRow

LEMMA InitInv == Init => IInv
<1> SUFFICES ASSUME Init PROVE IInv
  OBVIOUS
<1>1. PICK n \in 0..Cardinality(Stores) : files = [f \in 1..n |-> OldStore]
  BY DEF Init
<1>2. n \in Nat
  BY FS_CardinalityType, StoreFilesAssumption DEF StoreFilesAssumption
<1>3. /\ files \in Seq(FileRow) /\ Len(files) = n /\ DOMAIN files = 1..n
      /\ \A f \in 1..n : files[f] = OldStore
  <2>1. files \in [1..n -> FileRow] /\ \A f \in 1..n : files[f] = OldStore
    BY <1>1, OldStoreRow
  <2> QED
    BY <1>2, <2>1
<1>4. \A p \in Procs : proc[p] = Idle
  BY DEF Init
<1>5. /\ Idle.step = "idle" /\ Idle.file = None /\ Idle.temp = None /\ Idle.published = None
  BY DEF Idle
<1>6. Owned = {}
  BY <1>4, <1>5 DEF Owned
<1>7. Types
  <2>1. proc \in [Procs -> ProcRow]
    BY IdleRow DEF Init
  <2>2. \A p \in Procs : Shape(proc[p]) /\ {proc[p].file, proc[p].published} \subseteq 0..Len(files)
    BY <1>2, <1>3, <1>4, <1>5, IdleRow DEF None
  <2> QED
    BY <1>3, <1>6, <2>1, <2>2, StoreFilesAssumption DEF Types, Init, StoreFilesAssumption
<1>8. \A f \in DOMAIN files : \E q \in Paths : \A r \in Paths : at[r] = f <=> r = q
  BY StoreFilesAssumption DEF Init, StoreFilesAssumption
<1>9. at \in [Paths -> 0..n]
  BY <1>3 DEF Init
<1>10. Names
  <2>1. \A q, r \in Paths : at[q] # None /\ at[q] = at[r] => q = r
    <3> SUFFICES ASSUME NEW q \in Paths, NEW r \in Paths, at[q] # None, at[q] = at[r]
                 PROVE  q = r
      OBVIOUS
    <3>1. at[q] \in DOMAIN files
      BY <1>2, <1>3, <1>9 DEF None
    <3> QED
      BY <1>8, <3>1
  <2> QED
    BY <1>4, <1>5, <2>1 DEF Names, Init
<1>11. Apart
  BY <1>4, <1>5 DEF Apart
<1>12. Contents
  BY <1>3, OldStoreRow, ContentFacts DEF Contents, Current
<1>13. Relied
  <2>1. \A q \in Paths : at[q] # None => files[at[q]].whole
    BY <1>2, <1>3, <1>9, OldStoreRow DEF None
  <2> QED
    BY <1>4, <1>5, <2>1 DEF Relied, Leans, Looks, At
<1>14. Acknowledged /\ Begun
  BY <1>3, OldStoreRow, ContentFacts DEF Acknowledged, Begun, Init
<1>15. Old
  <2> SUFFICES ASSUME NEW f \in DOMAIN files
               PROVE  /\ files[f].mode = "wal" /\ files[f].disk = files[f].live
                      /\ \E q \in Paths : at[q] = f
                      /\ \A p \in Procs : At(p, "idle")
    BY DEF Old
  <2> QED
    BY <1>3, <1>4, <1>5, <1>8, OldStoreRow DEF At
<1> QED
  BY <1>7, <1>10, <1>11, <1>12, <1>13, <1>14, <1>15 DEF IInv

-----------------------------------------------------------------------------
(* Steps that change what one process is about, and no file *)

\* What a process has in its hands.
LEMMA InHands ==
  ASSUME Types, NEW p \in Procs
  PROVE  /\ proc[p] \in ProcRow /\ Shape(proc[p])
         /\ proc[p].file \in 0..Len(files) /\ proc[p].published \in 0..Len(files)
         /\ proc[p].file # None => proc[p].file \in DOMAIN files
         /\ proc[p].temp # None => proc[p].temp \in temps /\ proc[p].temp \in DOMAIN files
BY LenProperties DEF Types, Owned, None

\* The job of a process that works.
LEMMA AtWork ==
  ASSUME Types, NEW p \in Procs, ~At(p, "idle")
  PROVE  /\ proc[p].job \in Jobs /\ proc[p].job.op \in Ops
         /\ Path(p) \in Paths /\ proc[p].job.from \in Paths
         /\ proc[p].id \in 1..MaxJobs
BY InHands, StoreFilesAssumption DEF At, Path, Shape, ProcRow, StoreFilesAssumption

\* The file under a path, and what is in a file.
LEMMA UnderPath ==
  ASSUME Types, NEW q \in Paths, at[q] # None
  PROVE  at[q] \in DOMAIN files
BY LenProperties DEF Types, None

LEMMA InFile ==
  ASSUME Types, NEW f \in DOMAIN files
  PROVE  /\ files[f] \in FileRow
         /\ files[f].live \in Content /\ files[f].disk \in Content
         /\ f \in Nat /\ f # None /\ f \in 1..Len(files)
<1>1. DOMAIN files = 1..Len(files) /\ Len(files) \in Nat
  BY LenProperties DEF Types
<1>2. files[f] \in FileRow
  BY <1>1, ElementOfSeq DEF Types
<1> QED
  BY <1>1, <1>2 DEF FileRow, None

\* The process p goes on, with the file under its path or the one it has open.
LEMMA GoesOn ==
  ASSUME IInv, NEW p \in Procs, NEW row \in ProcRow, Shape(row),
         proc' = [proc EXCEPT ![p] = row],
         row.temp = proc[p].temp, row.published = proc[p].published,
         UNCHANGED <<fileVars, crashes, history>>,
         started' \in 0..MaxJobs,
         row.published # None => row.job = proc[p].job,
         \/ row.file = proc[p].file /\ (row.file # None => row.job = proc[p].job)
         \/ /\ proc[p].file = None /\ row.job = proc[p].job
            /\ row.file \in {None, at[row.job.path]} /\ row.job.path \in Paths,
         proc[p].step \in {"version", "schema"} =>
           row.step \in {"version", "schema"} /\ row.file = proc[p].file,
         row.step = "commit" => files[row.file].live.version = Current,
         row.step \in {"version", "schema"} => files[row.file].live.sized,
         row.step = "open" /\ row.seen # Current =>
            /\ at[row.job.path] # None
            /\ files[at[row.job.path]].live.sized
            /\ \A r \in Procs : proc[r].published # at[row.job.path],
         row.step \notin {"fill", "publish"},
         row.step = "idle" => proc[p].file = None
  PROVE  IInv'
<1> USE DEF IInv
<1>1. /\ proc'[p] = row
      /\ \A r \in Procs \ {p} : proc'[r] = proc[r]
      /\ \A r \in Procs : proc'[r].temp = proc[r].temp /\ proc'[r].published = proc[r].published
  BY DEF Types
<1>2. /\ files' = files /\ at' = at /\ temps' = temps /\ hot' = hot
      /\ crashes' = crashes /\ acked' = acked /\ withdrawn' = withdrawn /\ cut' = cut
  BY DEF fileVars, history
<1>3. row.file \in 0..Len(files) /\ (row.file # None => row.file \in DOMAIN files)
  BY InHands, UnderPath, LenProperties DEF Types
<1>4. Types'
  <2>1. Owned' = Owned
    BY <1>1 DEF Owned
  <2>2. proc' \in [Procs -> ProcRow]
    BY DEF Types
  <2> QED
    BY <1>1, <1>2, <1>3, <2>1, <2>2 DEF Types
<1>5. Names'
  <2>1. proc[p].published # None => at[row.job.path] = proc[p].published
    BY DEF Names, Path
  <2>2. row.file # None => /\ row.file \notin temps
                           /\ at[row.job.path] = row.file \/ row.file \in withdrawn
    BY DEF Names, Path
  <2> QED
    BY <1>1, <1>2, <2>1, <2>2 DEF Names, Path
<1>6. Apart'
  BY <1>1 DEF Apart
<1>7. Contents'
  BY <1>2 DEF Contents
<1>8. Relied'
  <2>1. ASSUME NEW r \in Procs, r # p PROVE Leans(r)' /\ Looks(r)'
    <3>1. Leans(r) /\ Looks(r)
      BY DEF Relied
    <3>2. proc'[r] = proc[r]
      BY <1>1, <2>1
    <3>3. Leans(r)'
      BY <1>2, <3>1, <3>2 DEF Leans, At
    <3>4. /\ Path(r)' = Path(r) /\ At(r, "open")' = At(r, "open")
          /\ \A u \in Procs : proc'[u].published = proc[u].published
      BY <1>1, <3>2 DEF At, Path
    <3>5. Looks(r)'
      BY <1>2, <3>1, <3>2, <3>4 DEF Looks
    <3> QED
      BY <3>3, <3>5
  <2>2. Leans(p)'
    BY <1>1, <1>2 DEF Leans, At
  <2>3. Looks(p)'
    BY <1>1, <1>2 DEF Looks, At, Path
  <2>4. \A q \in Paths : at'[q] # None => files'[at'[q]].whole
    BY <1>2 DEF Relied
  <2> QED
    BY <2>1, <2>2, <2>3, <2>4 DEF Relied
<1>9. Acknowledged'
  BY <1>2 DEF Acknowledged
<1>10. Begun'
  <2> SUFFICES ASSUME NEW f \in DOMAIN files, files[f].live = Bare, f \notin cut,
                      NEW r \in Users(f), proc[r].step \in {"version", "schema"}
               PROVE  r \in Users(f)' /\ proc'[r].step \in {"version", "schema"}
    BY <1>2 DEF Begun, Users
  <2> QED
    BY <1>1 DEF Users
<1>11. Old'
  <2> SUFFICES ASSUME NEW f \in DOMAIN files, 5 \in {files[f].disk.version, files[f].live.version}
               PROVE  /\ files[f].mode = "wal"
                      /\ \E q \in Paths :
                           /\ at[q] = f
                           /\ \A r \in Procs : ~At(r, "idle")' /\ Path(r)' = q =>
                                proc'[r].file \in {None, f} /\ proc'[r].published = None
                           /\ files[f].disk # files[f].live => Users(f)' # {} \/ q \in hot
    BY <1>2 DEF Old
  <2>1. PICK q \in Paths :
          /\ at[q] = f
          /\ \A r \in Procs : ~At(r, "idle") /\ Path(r) = q =>
               proc[r].file \in {None, f} /\ proc[r].published = None
          /\ files[f].disk # files[f].live => Users(f) # {} \/ q \in hot
    BY DEF Old
  <2>2. files[f].mode = "wal" /\ f # None
    BY InFile DEF Old
  <2>3. row.step # "idle" /\ row.job.path = q => row.file \in {None, f} /\ row.published = None
    <3>1. proc[p].step = "idle" => proc[p].file = None /\ proc[p].published = None
      BY InHands DEF Shape, Idle
    <3>2. f \in Nat /\ f # None
      BY InFile
    <3> QED
      BY <2>1, <3>1, <3>2 DEF At, Path
  <2>4. \A r \in Procs : ~At(r, "idle")' /\ Path(r)' = q =>
          proc'[r].file \in {None, f} /\ proc'[r].published = None
    BY <1>1, <2>1, <2>3 DEF At, Path
  <2>5. Users(f) \subseteq Users(f)'
    BY <1>1, <2>2 DEF Users
  <2> QED
    BY <2>1, <2>2, <2>4, <2>5
<1> QED
  BY <1>4, <1>5, <1>6, <1>7, <1>8, <1>9, <1>10, <1>11

-----------------------------------------------------------------------------
(* Steps in which a process ends *)

\* What a step that ends the job of p may do to the files: logs are
\* checkpointed, the file that p published is taken back, and the log of the
\* last connection is checkpointed or stays.
Ends(p) ==
  /\ proc' = [proc EXCEPT ![p] = Idle]
  /\ Saved(files')
  /\ temps' = temps \ {proc[p].temp} \/ (temps' = temps /\ crashes' # 0)
  /\ \/ at' = at /\ withdrawn' = withdrawn
     \/ /\ proc[p].published # None
        /\ at' = [at EXCEPT ![Path(p)] = None]
        /\ withdrawn' = withdrawn \cup {proc[p].published}
  /\ hot' \subseteq Paths
  /\ \A q \in hot \ hot' :
       /\ q = Path(p)
       /\ proc[p].published # None
            \/ /\ proc[p].file # None
               /\ files'[proc[p].file].disk = files[proc[p].file].live
  /\ LET f == proc[p].file IN
     f # None /\ Users(f) = {p} /\ at[Path(p)] = f /\ files[f].mode = "wal" =>
       files'[f].disk = files[f].live \/ Path(p) \in hot'
  /\ cut \subseteq cut' /\ cut' \subseteq DOMAIN files
  /\ proc[p].step \in {"version", "schema"} /\ files[proc[p].file].live = Bare =>
       \/ proc[p].file \in cut'
       \/ \E r \in Users(proc[p].file) \ {p} : proc[r].step \in {"version", "schema", "commit"}
  /\ crashes' \in 0..MaxCrashes /\ (crashes' = 0 => crashes = 0)
  /\ UNCHANGED <<started, acked>>

LEMMA EndsInv ==
  ASSUME IInv, NEW p \in Procs, ~At(p, "idle"), Ends(p)
  PROVE  IInv'
<1> USE DEF IInv
<1>1. /\ proc'[p] = Idle
      /\ \A r \in Procs \ {p} : proc'[r] = proc[r]
      /\ Idle.step = "idle" /\ Idle.file = None /\ Idle.temp = None /\ Idle.published = None
  BY DEF Types, Ends, Idle
<1>2. /\ files' \in Seq(FileRow) /\ Len(files') = Len(files) /\ DOMAIN files' = DOMAIN files
      /\ \A g \in DOMAIN files :
           /\ files'[g].live = files[g].live /\ files'[g].mode = files[g].mode
           /\ files'[g].whole = files[g].whole
           /\ files'[g].disk \in {files[g].disk, files[g].live}
  BY DEF Ends, Saved
<1>3. acked' = acked /\ started' = started
  BY DEF Ends
<1>4. Path(p) \in Paths
  BY AtWork
<1>5. /\ temps' \subseteq temps
      /\ \A f \in temps : f \in temps' \/ f = proc[p].temp
  BY DEF Ends
<1>6. \A q \in Paths : \/ at'[q] = at[q]
                       \/ /\ q = Path(p) /\ at'[q] = None
                          /\ at[q] = proc[p].published /\ proc[p].published # None
                          /\ at[q] \in withdrawn'
  BY DEF Ends, Types, Names
<1>7. /\ withdrawn \subseteq withdrawn'
      /\ \A f \in withdrawn' : f \in withdrawn
                                 \/ (f = proc[p].published /\ f # None /\ at'[Path(p)] = None)
  BY <1>4 DEF Ends, Types
<1>8. Types'
  <2>1. proc' \in [Procs -> ProcRow]
    BY IdleRow DEF Types, Ends
  <2>2. \A r \in Procs : /\ Shape(proc'[r])
                         /\ {proc'[r].file, proc'[r].published} \subseteq 0..Len(files')
    BY <1>1, <1>2, IdleRow, LenProperties DEF Types, None
  <2>3. Owned' = Owned \ {proc[p].temp}
    <3>1. \A f \in Owned' : f \in Owned /\ f # proc[p].temp
      BY <1>1 DEF Owned, Apart
    <3>2. \A f \in Owned : f \in Owned' \/ f = proc[p].temp
      BY <1>1 DEF Owned
    <3> QED
      BY <3>1, <3>2 DEF Owned
  <2>4. Owned' \subseteq temps' /\ (crashes' = 0 => temps' = Owned')
    BY <2>3 DEF Types, Ends
  <2>5. at' \in [Paths -> 0..Len(files')]
    <3>1. at \in [Paths -> 0..Len(files')] /\ None \in 0..Len(files')
      BY <1>2, LenProperties DEF Types, None
    <3>2. at' = at \/ at' = [at EXCEPT ![Path(p)] = None]
      BY DEF Ends
    <3> QED
      BY <3>1, <3>2
  <2>6. withdrawn' \subseteq DOMAIN files'
    BY <1>2, <1>7, InHands, LenProperties DEF Types, None
  <2> QED
    BY <1>2, <1>3, <1>5, <2>1, <2>2, <2>4, <2>5, <2>6 DEF Types, Ends
<1>9. Names'
  <2>1. \A q, r \in Paths : at'[q] # None /\ at'[q] = at'[r] => q = r
    BY <1>6 DEF Names
  <2>2. \A q \in Paths : at'[q] # None => at'[q] \notin temps' /\ at'[q] \notin withdrawn'
    BY <1>4, <1>5, <1>6, <1>7 DEF Names
  <2>3. temps' \cap withdrawn' = {}
    BY <1>4, <1>5, <1>7 DEF Names
  <2>4. ASSUME NEW r \in Procs, proc'[r].published # None
        PROVE  at'[Path(r)'] = proc'[r].published
    <3>1. r # p /\ proc'[r] = proc[r]
      BY <1>1, <2>4
    <3>2. ~At(r, "idle")
      BY <2>4, <3>1, InHands DEF Shape, At, Idle
    <3>3. Path(r) \in Paths /\ at[Path(r)] = proc[r].published
      BY <2>4, <3>1, <3>2, AtWork DEF Names
    <3> QED
      BY <1>6, <2>4, <3>1, <3>3 DEF Path, Apart
  <2>5. ASSUME NEW r \in Procs, proc'[r].file # None
        PROVE  /\ proc'[r].file \notin temps'
               /\ at'[Path(r)'] = proc'[r].file \/ proc'[r].file \in withdrawn'
    <3>1. r # p /\ proc'[r] = proc[r]
      BY <1>1, <2>5
    <3>2. ~At(r, "idle")
      BY <2>5, <3>1, InHands DEF Shape, At, Idle
    <3>3. Path(r) \in Paths
      BY <3>2, AtWork
    <3> QED
      BY <1>5, <1>6, <1>7, <2>5, <3>1, <3>3 DEF Path, Names
  <2> QED
    BY <2>1, <2>2, <2>3, <2>4, <2>5 DEF Names
<1>10. Apart'
  BY <1>1 DEF Apart
<1>11. Contents'
  BY <1>2 DEF Contents
<1>12. Relied'
  <2>1. \A q \in Paths : at'[q] # None => files'[at'[q]].whole
    BY <1>2, <1>6, UnderPath DEF Relied, Leans, Looks
  <2>2. ASSUME NEW r \in Procs, r # p
        PROVE  Leans(r)'
    <3>1. proc'[r] = proc[r]
      BY <1>1, <2>2
    <3>2. /\ proc[r].file # None => proc[r].file \in DOMAIN files
          /\ proc[r].temp # None => proc[r].temp \in DOMAIN files
          /\ Shape(proc[r])
      BY InHands
    <3>3. Leans(r)
      BY DEF Relied
    <3> QED
      BY <1>2, <1>5, <3>1, <3>2, <3>3 DEF Leans, At, Shape, Working
  <2>3. ASSUME NEW r \in Procs, r # p PROVE Looks(r)'
    <3> SUFFICES ASSUME At(r, "open")', proc'[r].seen # Current
                 PROVE  /\ at'[Path(r)'] # None
                        /\ files'[at'[Path(r)']].live.sized
                        /\ \A u \in Procs : proc'[u].published # at'[Path(r)']
      BY DEF Looks
    <3>1. proc'[r] = proc[r] /\ At(r, "open") /\ ~At(r, "idle")
      BY <1>1, <2>3 DEF At
    <3>2. Path(r) \in Paths /\ Path(r)' = Path(r)
      BY <3>1, AtWork DEF Path
    <3>3. /\ at[Path(r)] # None /\ files[at[Path(r)]].live.sized
          /\ \A u \in Procs : proc[u].published # at[Path(r)]
      BY <2>3, <3>1 DEF Relied, Leans, Looks
    <3>4. at'[Path(r)] = at[Path(r)]
      BY <1>6, <3>2, <3>3
    <3> QED
      BY <1>1, <1>2, <3>2, <3>3, <3>4, UnderPath
  <2>4. ASSUME NEW r \in Procs, r # p
        PROVE  Leans(r)' /\ Looks(r)'
    BY <2>2, <2>3, <2>4
  <2>5. Leans(p)' /\ Looks(p)'
    BY <1>1 DEF Leans, Looks, At
  <2> QED
    BY <2>1, <2>4, <2>5 DEF Relied
<1>13. Acknowledged'
  BY <1>2, <1>3, <1>5, <1>6, <1>7 DEF Acknowledged
<1>14. Begun'
  <2> SUFFICES ASSUME NEW f \in DOMAIN files, files[f].live = Bare, f \notin cut'
               PROVE  \E r \in Users(f)' : proc'[r].step \in {"version", "schema"}
    BY <1>2 DEF Begun
  <2>1. PICK r \in Users(f) : proc[r].step \in {"version", "schema"}
    BY DEF Begun, Ends
  <2>2. CASE r # p
    BY <1>1, <2>1, <2>2 DEF Users
  <2>3. CASE r = p
    <3>1. PICK u \in Users(f) \ {p} : proc[u].step \in {"version", "schema", "commit"}
      BY <1>2, <2>1, <2>3 DEF Ends, Users
    <3>2. Bare.version # Current
      BY ContentFacts DEF Current
    <3>3. proc[u].step # "commit"
      BY <3>1, <3>2 DEF Relied, Leans, Looks, Users, At
    <3> QED
      BY <1>1, <3>1, <3>3 DEF Users
  <2> QED
    BY <2>2, <2>3
<1>15. Old'
  <2> SUFFICES ASSUME NEW f \in DOMAIN files, 5 \in {files'[f].disk.version, files'[f].live.version}
               PROVE  /\ files'[f].mode = "wal"
                      /\ \E q \in Paths :
                           /\ at'[q] = f
                           /\ \A r \in Procs : ~At(r, "idle")' /\ Path(r)' = q =>
                                proc'[r].file \in {None, f} /\ proc'[r].published = None
                           /\ files'[f].disk # files'[f].live => Users(f)' # {} \/ q \in hot'
    BY <1>2 DEF Old
  <2>1. 5 \in {files[f].disk.version, files[f].live.version} /\ f # None
    BY <1>2, InFile
  <2>2. PICK q \in Paths :
          /\ at[q] = f
          /\ \A r \in Procs : ~At(r, "idle") /\ Path(r) = q =>
               proc[r].file \in {None, f} /\ proc[r].published = None
          /\ files[f].disk # files[f].live => Users(f) # {} \/ q \in hot
    BY <2>1 DEF Old
  <2>3. at'[q] = f
    BY <1>6, <2>1, <2>2
  <2>4. \A r \in Procs : ~At(r, "idle")' /\ Path(r)' = q =>
          proc'[r].file \in {None, f} /\ proc'[r].published = None
    BY <1>1, <2>2 DEF At, Path
  <2>5. ASSUME files'[f].disk # files'[f].live, Users(f)' = {}
        PROVE  q \in hot'
    <3>1. files[f].disk # files[f].live
      BY <1>2, <2>5
    <3>2. Users(f) \subseteq {p}
      BY <1>1, <2>5 DEF Users
    <3>3. CASE proc[p].file = f
      <4>1. Users(f) = {p}
        BY <3>2, <3>3 DEF Users
      <4>2. at[Path(p)] = f
        BY <2>1, <2>2, <3>3 DEF Names
      <4>3. Path(p) = q
        BY <1>4, <2>1, <2>2, <4>2 DEF Names
      <4> QED
        BY <1>2, <2>1, <2>5, <3>3, <4>1, <4>2, <4>3 DEF Ends, Old
    <3>4. CASE proc[p].file # f
      <4>1. q \in hot
        BY <2>2, <3>1, <3>2, <3>4 DEF Users
      <4>2. Path(p) = q => proc[p].file = None /\ proc[p].published = None
        BY <2>2, <3>4
      <4> QED
        BY <4>1, <4>2 DEF Ends
    <3> QED
      BY <3>3, <3>4
  <2> QED
    BY <1>2, <2>1, <2>2, <2>3, <2>4, <2>5 DEF Old
<1> QED
  BY <1>8, <1>9, <1>10, <1>11, <1>12, <1>13, <1>14, <1>15

\* A job that reports an error ends so, unless it had begun a schema that no
\* other process is at.
LEMMA FailInv ==
  ASSUME IInv, NEW p \in Procs, ~At(p, "idle"), Fail(p),
         proc[p].step \in {"version", "schema"} =>
           \E r \in Users(proc[p].file) \ {p} : proc[r].step \in {"version", "schema", "commit"}
  PROVE  IInv'
<1> USE DEF IInv
<1>1. /\ Saved(files')
      /\ proc[p].file # None /\ Users(proc[p].file) = {p} =>
           files'[proc[p].file].disk = files[proc[p].file].live
  BY ClosedFiles DEF Types, Fail
<1>2. Path(p) \in Paths
  BY AtWork
<1>3. hot' \subseteq Paths
  BY <1>2 DEF Fail, ClosedHot, Types
<1>4. ASSUME NEW q \in hot, q \notin hot'
      PROVE  /\ q = Path(p)
             /\ proc[p].published # None
                  \/ /\ proc[p].file # None
                     /\ files'[proc[p].file].disk = files[proc[p].file].live
  BY <1>1, <1>4 DEF Fail, ClosedHot
<1>5. Ends(p)
  <2>1. proc' = [proc EXCEPT ![p] = Idle] /\ temps' = temps \ {proc[p].temp}
    BY DEF Fail, TempsLeft
  <2>2. \/ at' = at /\ withdrawn' = withdrawn
        \/ /\ proc[p].published # None
           /\ at' = [at EXCEPT ![Path(p)] = None]
           /\ withdrawn' = withdrawn \cup {proc[p].published}
    BY DEF Fail
  <2>3. cut' = cut /\ crashes' = crashes /\ UNCHANGED <<started, acked>>
    BY DEF Fail
  <2>4. cut \subseteq DOMAIN files /\ crashes \in 0..MaxCrashes
    BY DEF Types
  <2> QED
    BY <1>1, <1>3, <1>4, <2>1, <2>2, <2>3, <2>4 DEF Ends
<1> QED
  BY <1>5, EndsInv

LEMMA CloseInv ==
  ASSUME IInv, NEW p \in Procs, Close(p)
  PROVE  IInv'
<1> USE DEF IInv
<1>1. At(p, "close") /\ ~At(p, "idle") /\ proc[p].step \notin {"version", "schema"}
  BY DEF Close, At
<1>2. /\ Saved(files')
      /\ proc[p].file # None /\ Users(proc[p].file) = {p} =>
           files'[proc[p].file].disk = files[proc[p].file].live
  BY ClosedFiles DEF Types, Close
<1>3. /\ hot' \subseteq Paths
      /\ \A q \in hot \ hot' : /\ q = Path(p)
                               /\ proc[p].file # None
                               /\ files'[proc[p].file].disk = files[proc[p].file].live
  BY <1>2 DEF Close, ClosedHot, Types
<1>4. proc[p].temp = None
  BY <1>1, InHands DEF Shape, At
<1>5. temps' = temps \ {proc[p].temp}
  <2>1. None \notin temps
    BY LenProperties DEF Types, None
  <2> QED
    BY <1>4, <2>1 DEF Close
<1>6. Ends(p)
  BY <1>1, <1>2, <1>3, <1>5 DEF Ends, Close, history, Types
<1> QED
  BY <1>1, <1>6, EndsInv

LEMMA CrashInv ==
  ASSUME IInv, NEW p \in Procs, Crash(p)
  PROVE  IInv'
<1> USE DEF IInv
<1> DEFINE f == proc[p].file
<1>1. ~At(p, "idle") /\ Path(p) \in Paths
  BY AtWork DEF Crash
<1>2. Saved(files')
  BY DEF Saved, Crash, Types
<1>3. hot \subseteq hot' /\ hot' \subseteq Paths
  BY <1>1 DEF Crash, Types
<1>4. f # None /\ Users(f) = {p} /\ at[Path(p)] = f /\ files[f].mode = "wal" => Path(p) \in hot'
  BY DEF Crash, Sidecar
<1>5. crashes \in Nat /\ crashes' = crashes + 1 /\ crashes' \in 0..MaxCrashes /\ crashes' # 0
  BY StoreFilesAssumption DEF Crash, Types, StoreFilesAssumption
<1>6. /\ cut \subseteq cut'
      /\ proc[p].step \in {"version", "schema"} /\ files[f].live = Bare => f \in cut'
      /\ cut' \subseteq DOMAIN files
  <2>1. proc[p].step \in {"version", "schema"} => f \in DOMAIN files
    BY InHands DEF Shape, Working
  <2> QED
    BY <2>1 DEF Crash, Types
<1>7. Ends(p)
  BY <1>2, <1>3, <1>4, <1>5, <1>6 DEF Ends, Crash
<1> QED
  BY <1>1, <1>7, EndsInv

-----------------------------------------------------------------------------
(* The steps of a job *)

LEMMA BeginInv ==
  ASSUME IInv, NEW p \in Procs, NEW job \in Jobs, Begin(p, job)
  PROVE  IInv'
<1> DEFINE row == [Idle EXCEPT !.step = FirstStep(job.op), !.job = job, !.id = started']
<1>1. proc[p] = Idle /\ proc' = [proc EXCEPT ![p] = row]
  BY InHands DEF Begin, At, Shape, IInv
<1>2. started' \in 0..MaxJobs /\ started' # 0
  BY StoreFilesAssumption DEF Begin, IInv, Types, StoreFilesAssumption
<1>3. /\ FirstStep(job.op) \in {"claim", "inspect", "temp"}
      /\ FirstStep(job.op) = "temp" => job.op \in {"import", "export", "backup"}
  BY StoreFilesAssumption DEF FirstStep, Ops, StoreFilesAssumption
<1>4. /\ row.step = FirstStep(job.op) /\ row.job = job /\ row.id = started'
      /\ row.file = None /\ row.temp = None /\ row.published = None /\ row.source = None
      /\ row.seen = 0
      /\ proc[p].step = "idle" /\ proc[p].file = None /\ proc[p].temp = None
      /\ proc[p].published = None
  BY <1>1 DEF Idle
<1>5. row \in ProcRow
  BY <1>2, <1>3, IdleRow DEF ProcRow, Steps
<1> HIDE DEF row
<1>6. Shape(row)
  <2>1. row # Idle
    BY <1>3, <1>4 DEF Idle
  <2> QED
    BY <1>2, <1>3, <1>4, <2>1 DEF Shape, Working, None
<1>7. UNCHANGED <<fileVars, crashes, history>>
  BY DEF Begin
<1> QED
  BY <1>1, <1>2, <1>3, <1>4, <1>5, <1>6, <1>7, GoesOn

LEMMA ReadVersionInv ==
  ASSUME IInv, NEW p \in Procs, ReadVersion(p)
  PROVE  IInv'
<1> USE DEF IInv
<1> DEFINE seen == files[proc[p].file].live.version
           row == [proc[p] EXCEPT !.step = "schema", !.seen = seen]
<1>1. /\ proc[p] \in ProcRow /\ Shape(proc[p]) /\ proc[p].step = "version"
      /\ proc[p].file \in DOMAIN files
  BY InHands DEF ReadVersion, At, Shape, Working
<1>2. seen \in {0, 5, Current}
  BY <1>1, InFile DEF Content
<1>3. proc' = [proc EXCEPT ![p] = row]
  BY DEF ReadVersion
<1>4. /\ row \in ProcRow /\ row.step = "schema"
      /\ row.job = proc[p].job /\ row.id = proc[p].id /\ row.file = proc[p].file
      /\ row.temp = proc[p].temp /\ row.published = proc[p].published
  BY <1>1, <1>2 DEF ProcRow, Steps
<1>5. Shape(row)
  BY <1>1, <1>4 DEF Shape, Working, Idle
<1>6. files[proc[p].file].live.sized
  BY <1>1 DEF Relied, Leans, Looks
<1>7. UNCHANGED <<fileVars, crashes, history>> /\ started' \in 0..MaxJobs
  BY DEF ReadVersion, Types
<1> HIDE DEF row
<1> QED
  BY <1>1, <1>3, <1>4, <1>5, <1>6, <1>7, GoesOn

LEMMA BusyInv ==
  ASSUME IInv, NEW p \in Procs, Busy(p)
  PROVE  IInv'
<1> USE DEF IInv
<1>1. ~At(p, "idle") /\ Fail(p)
  BY DEF Busy, At
<1>2. \E r \in Users(proc[p].file) \ {p} : proc[r].step \in {"version", "schema", "commit"}
  BY DEF Busy
<1> QED
  BY <1>1, <1>2, FailInv

\* What an inspection recognises is what a connection sees, or what the log
\* has not been checkpointed into yet.
LEMMA Recognised ==
  ASSUME IInv, NEW q \in Paths, at[q] # None,
         NEW kind \in Inspections(at[q]), kind # "unrecognized"
  PROVE  /\ files[at[q]].live.sized
         /\ kind = "compatible" => files[at[q]].live.version = Current
         /\ kind # "compatible" => \A r \in Procs : proc[r].published # at[q]
<1> USE DEF IInv
<1> DEFINE f == at[q]
<1>1. f \in DOMAIN files /\ files[f].live \in Content /\ files[f].disk \in Content
  BY UnderPath, InFile
<1>2. PICK content \in {files[f].disk, files[f].live} : Kind(content) = kind
  BY DEF Inspections, Copies
<1>3. content.version # 0 /\ content.version \in {0, 5, Current}
  BY <1>1, <1>2 DEF Kind, Current, Content
<1>4. files[f].live.sized
  <2>1. files[f].mode = "delete" => files[f].disk = files[f].live
    BY <1>1 DEF Contents
  <2>2. files[f].mode = "wal" => files[f].live.sized
    BY <1>1 DEF Contents
  <2>3. files[f].mode \in {"delete", "wal"}
    BY <1>1, InFile DEF FileRow
  <2>4. files[f].mode = "delete" => content = files[f].live
    BY <1>2, <2>1
  <2>5. files[f].live.version # 0 => files[f].live.sized
    BY <1>1, ContentFacts DEF Contents, Sane
  <2> QED
    BY <1>3, <2>2, <2>3, <2>4, <2>5
<1>5. kind = "compatible" => files[f].live.version = Current
  <2>1. kind = "compatible" => content.version = Current
    BY <1>2, <1>3 DEF Kind, Current
  <2> QED
    BY <1>1, <1>2, <2>1 DEF Contents
<1>6. ASSUME kind # "compatible", NEW r \in Procs, proc[r].published = f
      PROVE  FALSE
  <2>1. content.version = 5
    BY <1>2, <1>3, <1>6 DEF Kind, Current
  <2>2. PICK o \in Paths :
          /\ at[o] = f
          /\ \A u \in Procs : ~At(u, "idle") /\ Path(u) = o => proc[u].published = None
    BY <1>1, <1>2, <2>1 DEF Old
  <2>3. ~At(r, "idle")
    BY <1>6, InHands DEF Shape, At, Idle
  <2>4. at[Path(r)] = f /\ Path(r) \in Paths
    BY <1>6, <2>3, AtWork DEF Names
  <2>5. Path(r) = o
    BY <2>2, <2>4 DEF Names
  <2> QED
    BY <1>6, <2>2, <2>3, <2>5
<1> QED
  BY <1>4, <1>5, <1>6

LEMMA InspectInv ==
  ASSUME IInv, NEW p \in Procs, Inspect(p)
  PROVE  IInv'
<1> DEFINE f == at[Path(p)]
           kinds == IF f = None THEN {"unrecognized"} ELSE Inspections(f)
<1>1. /\ proc[p] \in ProcRow /\ Shape(proc[p]) /\ proc[p].step = "inspect" /\ ~At(p, "idle")
  BY InHands DEF Inspect, At, IInv
<1>2. CASE Fail(p)
  BY <1>1, <1>2, FailInv
<1>3. ASSUME NEW kind \in kinds \ {"unrecognized"},
             proc' = [proc EXCEPT ![p].step = "open",
                                  ![p].seen = IF kind = "older" THEN 5 ELSE Current],
             UNCHANGED <<fileVars, started, crashes, history>>
      PROVE  IInv'
  <2> DEFINE row == [proc[p] EXCEPT !.step = "open",
                                    !.seen = IF kind = "older" THEN 5 ELSE Current]
  <2>1. proc' = [proc EXCEPT ![p] = row]
    BY <1>1, <1>3 DEF IInv, Types
  <2>2. /\ row \in ProcRow /\ row.step = "open"
        /\ row.seen = IF kind = "older" THEN 5 ELSE Current
        /\ row.job = proc[p].job /\ row.id = proc[p].id /\ row.file = proc[p].file
        /\ row.temp = proc[p].temp /\ row.published = proc[p].published
    BY <1>1 DEF ProcRow, Steps
  <2> HIDE DEF row
  <2>3. Shape(row)
    BY <1>1, <2>2 DEF Shape, Working, Idle
  <2>4. f # None /\ kind \in Inspections(f) /\ kind # "unrecognized"
    OBVIOUS
  <2>5. Path(p) \in Paths /\ Path(p) = row.job.path
    BY <1>1, <2>2, AtWork DEF Path, IInv
  <2>6. row.seen # Current =>
          /\ at[row.job.path] # None
          /\ files[at[row.job.path]].live.sized
          /\ \A r \in Procs : proc[r].published # at[row.job.path]
    <3>1. row.seen # Current => kind # "compatible"
      BY <2>2 DEF Current
    <3> QED
      BY <2>4, <2>5, <3>1, Recognised
  <2>7. /\ UNCHANGED <<fileVars, crashes, history>> /\ started' \in 0..MaxJobs
        /\ proc[p].file = None
    BY <1>1, <1>3 DEF IInv, Types, Shape, Working
  <2> QED
    BY <1>1, <2>1, <2>2, <2>3, <2>6, <2>7, GoesOn
<1> QED
  BY <1>2, <1>3 DEF Inspect

LEMMA OpenInv ==
  ASSUME IInv, NEW p \in Procs, Open(p)
  PROVE  IInv'
<1> DEFINE f == at[Path(p)]
           row == [proc[p] EXCEPT !.file = f,
                                  !.step = IF proc[p].seen < Current THEN "version" ELSE "commit"]
<1>1. /\ proc[p] \in ProcRow /\ Shape(proc[p]) /\ proc[p].step = "open" /\ ~At(p, "idle")
      /\ proc[p].seen \in {0, 5, Current}
  BY InHands DEF Open, At, IInv, ProcRow
<1>2. CASE Fail(p)
  BY <1>1, <1>2, FailInv
<1>3. CASE /\ f # None
           /\ proc[p].seen = Current => files[f].live.version = Current
           /\ proc' = [proc EXCEPT ![p].file = f,
                                   ![p].step = IF proc[p].seen < Current THEN "version" ELSE "commit"]
           /\ UNCHANGED <<fileVars, started, crashes, history>>
  <2>1. proc' = [proc EXCEPT ![p] = row]
    BY <1>1, <1>3 DEF IInv, Types
  <2>2. Path(p) \in Paths /\ f \in DOMAIN files /\ f \in Nat
    BY <1>1, <1>3, AtWork, UnderPath, InFile DEF IInv
  <2>3. /\ row \in ProcRow /\ row.file = f
        /\ row.step = IF proc[p].seen < Current THEN "version" ELSE "commit"
        /\ row.job = proc[p].job /\ row.id = proc[p].id /\ row.seen = proc[p].seen
        /\ row.temp = proc[p].temp /\ row.published = proc[p].published
    BY <1>1, <2>2 DEF ProcRow, Steps
  <2> HIDE DEF row
  <2>4. Shape(row)
    BY <1>1, <1>3, <2>3 DEF Shape, Working, Idle
  <2>5. /\ proc[p].seen # Current => files[f].live.sized
        /\ ~(proc[p].seen < Current) => proc[p].seen = Current
    BY <1>1 DEF IInv, Relied, Leans, Looks, At, Current
  <2>6. row.step = "commit" => files[row.file].live.version = Current
    BY <1>3, <2>3, <2>5
  <2>7. row.step = "version" => files[row.file].live.sized
    BY <1>3, <2>3, <2>5 DEF Current
  <2>8. /\ UNCHANGED <<fileVars, crashes, history>> /\ started' \in 0..MaxJobs
        /\ proc[p].file = None
    BY <1>1, <1>3 DEF IInv, Types, Shape, Working
  <2>9. row.job.path = Path(p)
    BY <2>3 DEF Path
  <2> QED
    BY <1>1, <2>1, <2>2, <2>3, <2>4, <2>6, <2>7, <2>8, <2>9, GoesOn
<1> QED
  BY <1>2, <1>3 DEF Open

LEMMA RecheckInv ==
  ASSUME IInv, NEW p \in Procs, Recheck(p)
  PROVE  IInv'
<1>1. /\ proc[p] \in ProcRow /\ Shape(proc[p]) /\ proc[p].step = "recheck" /\ ~At(p, "idle")
      /\ proc[p].file = None /\ proc[p].temp = None
  BY InHands DEF Recheck, At, IInv, Shape, Working
<1>2. CASE Fail(p)
  BY <1>1, <1>2, FailInv
<1>3. CASE /\ proc' = [proc EXCEPT ![p] = [@ EXCEPT !.step = "claim"]]
           /\ UNCHANGED <<fileVars, started, crashes, history>>
  <2> DEFINE row == [proc[p] EXCEPT !.step = "claim"]
  <2>1. proc' = [proc EXCEPT ![p] = row]
    BY <1>3
  <2>2. /\ row \in ProcRow /\ row.step = "claim"
        /\ row.job = proc[p].job /\ row.id = proc[p].id /\ row.file = proc[p].file
        /\ row.temp = proc[p].temp /\ row.published = proc[p].published
    BY <1>1 DEF ProcRow, Steps
  <2> HIDE DEF row
  <2>3. Shape(row)
    BY <1>1, <2>2 DEF Shape, Working, Idle
  <2>4. UNCHANGED <<fileVars, crashes, history>> /\ started' \in 0..MaxJobs
    BY <1>3 DEF IInv, Types
  <2> QED
    BY <1>1, <2>1, <2>2, <2>3, <2>4, GoesOn
<1>4. CASE proc' = [proc EXCEPT ![p] = Idle] /\ UNCHANGED <<fileVars, started, crashes, history>>
  <2>1. Saved(files') /\ temps' = temps \ {proc[p].temp}
    BY <1>1, <1>4, LenProperties DEF IInv, Types, Saved, fileVars, None
  <2> QED
    BY <1>1, <1>4, <2>1, EndsInv DEF Ends, IInv, Types, fileVars, history
<1> QED
  BY <1>2, <1>3, <1>4 DEF Recheck

-----------------------------------------------------------------------------
(* Steps that write a file *)

\* The process p writes the file f of its path, and nothing that another one
\* relies on is lost.
LEMMA WritesInv ==
  ASSUME IInv, NEW p \in Procs, ~At(p, "idle"), NEW f \in DOMAIN files \ temps,
         proc[p].file = f \/ (proc[p].file = None /\ at[Path(p)] = f),
         NEW step \in Working,
         NEW row \in ProcRow, row = [proc[p] EXCEPT !.step = step, !.file = f],
         proc' = [proc EXCEPT ![p] = row],
         proc[p].temp = None,
         files' \in Seq(FileRow), Len(files') = Len(files), DOMAIN files' = DOMAIN files,
         \A g \in DOMAIN files \ {f} : files'[g] = files[g],
         files'[f].whole = files[f].whole,
         files[f].mode = "wal" => files'[f].mode = "wal",
         files'[f].mode = "delete" => files'[f].disk = files'[f].live,
         Sane(files'[f].live), files'[f].live.sized,
         Current \in {files[f].live.version, files'[f].disk.version} =>
           files'[f].live.version = Current,
         files[f].live.mems \subseteq files'[f].live.mems,
         5 \in {files'[f].disk.version, files'[f].live.version} =>
           5 \in {files[f].disk.version, files[f].live.version},
         files'[f].live = Bare => step \in {"version", "schema"},
         step = "commit" => files'[f].live.version = Current,
         \A a \in acked' \ acked : a.path = Path(p) /\ a.file = f /\ a.mem \in files'[f].live.mems,
         UNCHANGED <<at, temps, hot, started, crashes, withdrawn, cut>>
  PROVE  IInv'
<1> USE DEF IInv
<1>1. /\ proc'[p] = row
      /\ \A r \in Procs \ {p} : proc'[r] = proc[r]
      /\ row.step = step /\ row.file = f /\ row.job = proc[p].job /\ row.id = proc[p].id
      /\ row.temp = None /\ row.published = proc[p].published
  BY InHands DEF Types, ProcRow
<1>2. f # None /\ f \in 0..Len(files)
  BY InFile DEF None
<1>3. /\ step # "idle" /\ step \notin {"temp", "fill", "publish", "open"}
      /\ proc[p].step # "idle" /\ proc[p].job \in Jobs /\ proc[p].id # 0
      /\ Path(p) \in Paths
  BY AtWork, InHands DEF Working, At, Shape
<1>4. /\ \A g \in DOMAIN files : /\ files'[g].whole = files[g].whole
                                 /\ files[g].live.sized => files'[g].live.sized
                                 /\ files[g].live.version = Current =>
                                      files'[g].live.version = Current
                                 /\ files[g].live.mems \subseteq files'[g].live.mems
      /\ \A g \in temps : files'[g] = files[g]
  <2>1. \A g \in DOMAIN files : g = f \/ files'[g] = files[g]
    OBVIOUS
  <2> QED
    BY <2>1 DEF Types
<1>5. Types'
  <2>1. Shape(row)
    <3>1. row.step # "idle"
      BY <1>1, <1>3
    <3>2. Idle.step = "idle"
      BY DEF Idle
    <3>3. row # Idle
      BY <3>1, <3>2
    <3> QED
      BY <1>1, <1>2, <1>3, <3>1, <3>3 DEF Shape
  <2>2. Owned' = Owned
    BY <1>1 DEF Owned
  <2>3. proc' \in [Procs -> ProcRow]
    BY DEF Types
  <2> QED
    BY <1>1, <1>2, <2>1, <2>2, <2>3 DEF Types
<1>6. Names'
  <2>1. at[Path(p)] = f \/ f \in withdrawn
    BY <1>2 DEF Names
  <2> QED
    <3>1. /\ \A r \in Procs : proc'[r].published = proc[r].published /\ Path(r)' = Path(r)
          /\ \A r \in Procs : r # p => proc'[r].file = proc[r].file
      BY <1>1 DEF Path
    <3> QED
      BY <1>1, <1>3, <2>1, <3>1 DEF Names
<1>7. Apart'
  BY <1>1 DEF Apart
<1>8. Contents'
  <2> SUFFICES ASSUME NEW g \in DOMAIN files
               PROVE  /\ Sane(files'[g].live)
                      /\ files'[g].mode = "delete" => files'[g].disk = files'[g].live
                      /\ files'[g].mode = "wal" => files'[g].live.sized
                      /\ files'[g].disk.version = Current => files'[g].live.version = Current
    BY DEF Contents
  <2> QED
    BY DEF Contents
<1>9. Relied'
  <2>1. \A q \in Paths : at[q] # None => files'[at[q]].whole
    BY <1>4, UnderPath DEF Relied, Leans, Looks
  <2>2. ASSUME NEW r \in Procs, r # p
        PROVE  Leans(r)'
    <3>1. proc'[r] = proc[r]
      BY <1>1, <2>2
    <3>2. /\ proc[r].file # None => proc[r].file \in DOMAIN files
          /\ proc[r].temp # None => proc[r].temp \in temps /\ proc[r].temp \in DOMAIN files
          /\ Shape(proc[r])
      BY InHands
    <3>3. Leans(r)
      BY DEF Relied
    <3>4. /\ At(r, "commit")' => files'[proc'[r].file].live.version = Current
          /\ proc'[r].step \in {"version", "schema"} => files'[proc'[r].file].live.sized
      BY <1>4, <3>1, <3>2, <3>3 DEF Leans, At, Shape, Working
    <3>5. At(r, "fill")' /\ proc'[r].job.op = "backup" =>
            /\ proc'[r].source \in DOMAIN files' \ temps'
            /\ files'[proc'[r].source].live.version = Current
      BY <1>4, <3>1, <3>3 DEF Leans, At
    <3>6. At(r, "publish")' =>
            LET file == files'[proc'[r].temp] IN
            file.whole /\ (file.live.version = Current \/ file.live.archive)
      BY <1>4, <3>1, <3>2, <3>3 DEF Leans, At, Shape
    <3> QED
      BY <3>4, <3>5, <3>6 DEF Leans
  <2>3. ASSUME NEW r \in Procs, r # p PROVE Looks(r)'
    <3> SUFFICES ASSUME At(r, "open")', proc'[r].seen # Current
                 PROVE  /\ at'[Path(r)'] # None
                        /\ files'[at'[Path(r)']].live.sized
                        /\ \A u \in Procs : proc'[u].published # at'[Path(r)']
      BY DEF Looks
    <3>1. proc'[r] = proc[r] /\ At(r, "open") /\ ~At(r, "idle")
      BY <1>1, <2>3 DEF At
    <3>2. Path(r) \in Paths /\ Path(r)' = Path(r)
      BY <3>1, AtWork DEF Path
    <3>3. /\ at[Path(r)] # None /\ files[at[Path(r)]].live.sized
          /\ \A u \in Procs : proc[u].published # at[Path(r)]
      BY <2>3, <3>1 DEF Relied, Leans, Looks
    <3> QED
      BY <1>1, <1>4, <3>2, <3>3, UnderPath
  <2>4. /\ proc'[p].step = step /\ proc'[p].file = f
        /\ step = "commit" => files'[f].live.version = Current
        /\ files'[f].live.sized
    BY <1>1
  <2>5. ASSUME NEW r \in Procs, r # p
        PROVE  Leans(r)' /\ Looks(r)'
    BY <2>2, <2>3, <2>5
  <2>6. Leans(p)' /\ Looks(p)'
    BY <1>3, <2>4 DEF Leans, Looks, At
  <2> QED
    BY <2>1, <2>5, <2>6 DEF Relied
<1>10. Acknowledged'
  <2> SUFFICES ASSUME NEW a \in acked'
               PROVE  /\ a.path \in Paths /\ a.file \in DOMAIN files /\ a.file \notin temps
                      /\ a.mem \in files'[a.file].live.mems
                      /\ at[a.path] = a.file \/ a.file \in withdrawn
    BY DEF Acknowledged
  <2>1. CASE a \in acked
    BY <1>4, <2>1 DEF Acknowledged
  <2>2. CASE a \notin acked
    <3>1. at[Path(p)] = f \/ f \in withdrawn
      BY <1>2 DEF Names
    <3>2. a.path = Path(p) /\ a.file = f /\ a.mem \in files'[f].live.mems
      BY <2>2
    <3> QED
      BY <1>3, <3>1, <3>2
  <2> QED
    BY <2>1, <2>2
<1>11. \A g \in DOMAIN files : Users(g) \subseteq Users(g)'
  <2> SUFFICES ASSUME NEW g \in DOMAIN files, NEW r \in Procs, proc[r].file = g
               PROVE  proc'[r].file = g
    BY DEF Users
  <2>1. g # None
    BY InFile
  <2> QED
    BY <1>1, <2>1
<1>12. Begun'
  <2> SUFFICES ASSUME NEW g \in DOMAIN files, files'[g].live = Bare, g \notin cut
               PROVE  \E r \in Users(g)' : proc'[r].step \in {"version", "schema"}
    BY DEF Begun
  <2>1. CASE g = f
    <3>1. p \in Users(f)' /\ proc'[p].step = step
      BY <1>1 DEF Users
    <3> QED
      BY <2>1, <3>1
  <2>2. CASE g # f
    <3>1. PICK r \in Users(g) : proc[r].step \in {"version", "schema"}
      BY <2>2 DEF Begun
    <3>2. r # p
      <4>1. g # None
        BY InFile
      <4> QED
        BY <2>2, <3>1, <4>1 DEF Users
    <3> QED
      BY <1>1, <1>11, <3>1, <3>2 DEF Users
  <2> QED
    BY <2>1, <2>2
<1>13. Old'
  <2> SUFFICES ASSUME NEW g \in DOMAIN files, 5 \in {files'[g].disk.version, files'[g].live.version}
               PROVE  /\ files'[g].mode = "wal"
                      /\ \E q \in Paths :
                           /\ at[q] = g
                           /\ \A r \in Procs : ~At(r, "idle")' /\ Path(r)' = q =>
                                proc'[r].file \in {None, g} /\ proc'[r].published = None
                           /\ files'[g].disk # files'[g].live => Users(g)' # {} \/ q \in hot
    BY DEF Old
  <2>1. 5 \in {files[g].disk.version, files[g].live.version} /\ g # None
    BY InFile
  <2>2. PICK q \in Paths :
          /\ at[q] = g
          /\ \A r \in Procs : ~At(r, "idle") /\ Path(r) = q =>
               proc[r].file \in {None, g} /\ proc[r].published = None
          /\ files[g].disk # files[g].live => Users(g) # {} \/ q \in hot
    BY <2>1 DEF Old
  <2>3. files'[g].mode = "wal"
    BY <2>1 DEF Old
  <2>4. Path(p) = q => f = g /\ proc[p].published = None
    <3>1. g \notin withdrawn
      BY <2>1, <2>2 DEF Names
    <3>2. Path(p) = q => proc[p].file \in {None, g} /\ proc[p].published = None
      BY <2>2
    <3> QED
      BY <1>2, <2>2, <3>1, <3>2
  <2>5. \A r \in Procs : ~At(r, "idle")' /\ Path(r)' = q =>
          proc'[r].file \in {None, g} /\ proc'[r].published = None
    BY <1>1, <2>2, <2>4 DEF At, Path
  <2>6. files'[g].disk # files'[g].live => Users(g)' # {} \/ q \in hot
    <3>1. p \in Users(f)'
      BY <1>1 DEF Users
    <3>2. g # f => files'[g] = files[g] /\ Users(g) \subseteq Users(g)'
      BY <1>11
    <3> QED
      BY <2>2, <3>1, <3>2
  <2> QED
    BY <2>2, <2>3, <2>5, <2>6
<1> QED
  BY <1>5, <1>6, <1>7, <1>8, <1>9, <1>10, <1>12, <1>13

LEMMA ApplySchemaInv ==
  ASSUME IInv, NEW p \in Procs, ApplySchema(p)
  PROVE  IInv'
<1> DEFINE f == proc[p].file
           step == IF proc[p].job.op = "write" THEN "commit" ELSE "close"
           row == [proc[p] EXCEPT !.step = step, !.file = f]
           new == Migrated(files[f].live, proc[p].seen)
<1>1. /\ proc[p] \in ProcRow /\ proc[p].step = "schema" /\ ~At(p, "idle")
      /\ f # None /\ f \in DOMAIN files \ temps /\ proc[p].temp = None
      /\ proc[p].seen \in {0, 5, Current}
  BY InHands DEF ApplySchema, At, IInv, Shape, Working, Names, ProcRow
<1>2. /\ files \in Seq(FileRow) /\ files[f].live \in Content /\ Sane(files[f].live)
      /\ files[f].live.sized /\ files[f].mode \in {"delete", "wal"}
  BY <1>1, InFile DEF IInv, Types, Contents, Relied, Leans, Looks, FileRow
<1>3. /\ new \in Content /\ Sane(new) /\ new.version = Current /\ new.sized
      /\ new.mems = files[f].live.mems
  BY <1>1, <1>2, MigratedContent
<1>4. Committed(f, new)
  BY DEF ApplySchema
<1> HIDE DEF new
<1>5. /\ files' \in Seq(FileRow) /\ Len(files') = Len(files) /\ DOMAIN files' = DOMAIN files
      /\ \A g \in DOMAIN files \ {f} : files'[g] = files[g]
      /\ files'[f].live = new
      /\ files'[f].disk = IF files[f].mode = "wal" THEN files[f].disk ELSE new
      /\ files'[f].mode = files[f].mode /\ files'[f].whole = files[f].whole
  BY <1>1, <1>2, <1>3, <1>4, CommittedFiles
<1>6. proc' = [proc EXCEPT ![p] = row] /\ row \in ProcRow
  BY <1>1 DEF ApplySchema, Go, IInv, Types, ProcRow, Steps
<1>7. step \in Working /\ new # Bare /\ Current # 5
  BY <1>3, ContentFacts DEF Working, Current
<1>8. UNCHANGED <<at, temps, hot, started, crashes, withdrawn, cut>> /\ acked' = acked
  BY DEF ApplySchema, history
<1>9. row = [proc[p] EXCEPT !.step = step, !.file = f]
  OBVIOUS
<1> HIDE DEF step, row
<1> QED
  BY <1>1, <1>2, <1>3, <1>5, <1>6, <1>7, <1>8, <1>9, WritesInv

LEMMA CommitInv ==
  ASSUME IInv, NEW p \in Procs, Commit(p)
  PROVE  IInv'
<1> DEFINE f == proc[p].file
           m == proc[p].id
           step == "close"
           row == [proc[p] EXCEPT !.step = step, !.file = f]
           new == Written(files[f].live, m)
<1>1. /\ proc[p] \in ProcRow /\ proc[p].step = "commit" /\ ~At(p, "idle")
      /\ f # None /\ f \in DOMAIN files \ temps /\ proc[p].temp = None
      /\ m \in 1..MaxJobs
  BY InHands, AtWork DEF Commit, At, IInv, Shape, Working, Names, ProcRow
<1>2. /\ files \in Seq(FileRow) /\ files[f].live \in Content /\ Sane(files[f].live)
      /\ files[f].live.version = Current /\ files[f].mode \in {"delete", "wal"}
  BY <1>1, InFile DEF IInv, Types, Contents, Relied, Leans, Looks, FileRow, At
<1>3. Committed(f, new)
  BY DEF Commit, Written
<1>4. /\ new \in Content /\ Sane(new) /\ new.version = Current /\ new.sized
      /\ new.mems = files[f].live.mems \cup {m}
  BY <1>1, <1>2, WrittenContent
<1> HIDE DEF new
<1>5. /\ files' \in Seq(FileRow) /\ Len(files') = Len(files) /\ DOMAIN files' = DOMAIN files
      /\ \A g \in DOMAIN files \ {f} : files'[g] = files[g]
      /\ files'[f].live = new
      /\ files'[f].disk = IF files[f].mode = "wal" THEN files[f].disk ELSE new
      /\ files'[f].mode = files[f].mode /\ files'[f].whole = files[f].whole
  BY <1>1, <1>2, <1>3, <1>4, CommittedFiles
<1>6. proc' = [proc EXCEPT ![p] = row] /\ row \in ProcRow
  BY <1>1 DEF Commit, Go, IInv, Types, ProcRow, Steps
<1>7. step \in Working /\ new # Bare /\ Current # 5
  BY <1>4, ContentFacts DEF Working, Current
<1>8. UNCHANGED <<at, temps, hot, started, crashes, withdrawn, cut>>
  BY DEF Commit
<1>9. \A a \in acked' \ acked : a.path = Path(p) /\ a.file = f /\ a.mem \in files'[f].live.mems
  <2>1. \A a \in acked' \ acked : a = [mem |-> m, file |-> f, path |-> Path(p)]
    BY DEF Commit
  <2>2. m \in files'[f].live.mems
    BY <1>4, <1>5
  <2> QED
    BY <2>1, <2>2
<1>10. row = [proc[p] EXCEPT !.step = step, !.file = f]
  OBVIOUS
<1> HIDE DEF step, row
<1>11. /\ files[f].live.mems \subseteq files'[f].live.mems
       /\ files'[f].live.version = Current /\ files'[f].live # Bare
       /\ files'[f].mode = "delete" => files'[f].disk = files'[f].live
       /\ 5 \in {files'[f].disk.version, files'[f].live.version} => 5 = files[f].disk.version
  BY <1>2, <1>4, <1>5, <1>7
<1>12. /\ Sane(files'[f].live) /\ files'[f].live.sized
       /\ files'[f].whole = files[f].whole
       /\ files[f].mode = "wal" => files'[f].mode = "wal"
       /\ 5 \in {files'[f].disk.version, files'[f].live.version} =>
            5 \in {files[f].disk.version, files[f].live.version}
  BY <1>4, <1>5, <1>11
<1>13. f \in DOMAIN files \ temps /\ proc[p].file = f
  BY <1>1
<1> HIDE DEF f
<1> QED
  BY <1>1, <1>5, <1>6, <1>7, <1>8, <1>9, <1>10, <1>11, <1>12, <1>13, WritesInv

\* A file is put under the path of p.
Placed(p, f) == at' = [at EXCEPT ![Path(p)] = f]

\* An init creates the file of a path that has none, and goes on with it.
LEMMA CreatesInv ==
  ASSUME IInv, NEW p \in Procs, ~At(p, "idle"), at[Path(p)] = None,
         proc[p].temp = None, proc[p].file = None,
         NEW new \in FileRow, new.whole, Sane(new.live), new.disk = new.live,
         new.mode = "wal" => new.live.sized, new.live.version = 0,
         files' = Append(files, new),
         Placed(p, Len(files')),
         NEW row \in ProcRow, proc' = [proc EXCEPT ![p] = row],
         row.job = proc[p].job, row.id = proc[p].id, row.temp = None,
         row.published = proc[p].published,
         \/ row.step = "wal" /\ row.file = None /\ new.live # Bare
         \/ row.step = "version" /\ row.file = Len(files') /\ new.live.sized,
         UNCHANGED <<temps, hot, started, crashes, history>>
  PROVE  IInv'
<1> USE DEF IInv
<1> DEFINE n == Len(files')
<1>1. /\ proc'[p] = row
      /\ \A r \in Procs \ {p} : proc'[r] = proc[r]
      /\ proc[p].job \in Jobs /\ proc[p].id # 0 /\ Path(p) \in Paths
      /\ row.job.path = Path(p)
  BY AtWork DEF Types, Path
<1>2. /\ files' \in Seq(FileRow) /\ n = Len(files) + 1 /\ Len(files) \in Nat
      /\ DOMAIN files' = DOMAIN files \cup {n} /\ n \notin DOMAIN files
      /\ n # None /\ files'[n] = new
      /\ \A g \in DOMAIN files : files'[g] = files[g]
  BY Created, LenProperties DEF Types
<1>3. /\ acked' = acked /\ withdrawn' = withdrawn /\ cut' = cut
      /\ temps' = temps /\ hot' = hot /\ started' = started /\ crashes' = crashes
  BY DEF history
<1> HIDE DEF n
<1>4. /\ at'[Path(p)] = n
      /\ \A q \in Paths \ {Path(p)} : at'[q] = at[q]
      /\ at' \in [Paths -> 0..n]
  BY <1>1, <1>2 DEF Types, n, Placed
<1>5. /\ proc[p].published = None /\ row.published = None
  BY DEF Names
<1>6. n \notin temps /\ n \notin withdrawn /\ \A q \in Paths : at[q] # n
  BY <1>2, LenProperties DEF Types
<1>7. \A r \in Procs : proc[r].file # n /\ proc[r].published # n /\ proc[r].temp # n
  BY <1>2, <1>6, InHands DEF Types
<1>8. row.step \notin {"idle", "fill", "publish", "open", "commit", "schema"}
  OBVIOUS
<1>9. Types'
  <2>1. Shape(row)
    <3>1. row # Idle
      BY <1>8 DEF Idle
    <3> QED
      BY <1>1, <1>2, <1>8, <3>1 DEF Shape, Working, None, n
  <2>2. Owned' = Owned
    BY <1>1 DEF Owned
  <2>3. proc' \in [Procs -> ProcRow]
    BY DEF Types
  <2>4. \A r \in Procs : {proc'[r].file, proc'[r].published} \subseteq 0..n
    BY <1>1, <1>2, <1>5, InHands DEF None, n
  <2>5. \A r \in Procs : Shape(proc'[r])
    BY <1>1, <2>1, InHands
  <2> QED
    BY <1>2, <1>3, <1>4, <2>2, <2>3, <2>4, <2>5 DEF Types, n
<1>10. Names'
  <2>1. \A q, r \in Paths : at'[q] # None /\ at'[q] = at'[r] => q = r
    BY <1>4, <1>6 DEF Names
  <2>2. \A q \in Paths : at'[q] # None => at'[q] \notin temps' /\ at'[q] \notin withdrawn'
    BY <1>3, <1>4, <1>6 DEF Names
  <2>3. temps' \cap withdrawn' = {}
    BY <1>3 DEF Names
  <2>4. ASSUME NEW r \in Procs, proc'[r].published # None
        PROVE  at'[Path(r)'] = proc'[r].published
    <3>1. r # p /\ proc'[r] = proc[r]
      BY <1>1, <1>5, <2>4
    <3>2. ~At(r, "idle")
      BY <2>4, <3>1, InHands DEF Shape, At, Idle
    <3>3. Path(r) \in Paths /\ at[Path(r)] = proc[r].published
      BY <2>4, <3>1, <3>2, AtWork DEF Names
    <3> QED
      BY <1>4, <2>4, <3>1, <3>3 DEF Path
  <2>5. ASSUME NEW r \in Procs, r # p, proc'[r].file # None
        PROVE  /\ proc'[r].file \notin temps'
               /\ at'[Path(r)'] = proc'[r].file \/ proc'[r].file \in withdrawn'
    <3>1. proc'[r] = proc[r]
      BY <1>1, <2>5
    <3>2. ~At(r, "idle")
      BY <2>5, <3>1, InHands DEF Shape, At, Idle
    <3>3. Path(r) \in Paths
      BY <3>2, AtWork
    <3> QED
      BY <1>3, <1>4, <2>5, <3>1, <3>3 DEF Path, Names
  <2>6. row.file # None => row.file \notin temps /\ at'[Path(p)] = row.file
    BY <1>4, <1>6 DEF n
  <2> QED
    BY <1>1, <1>3, <2>1, <2>2, <2>3, <2>4, <2>5, <2>6 DEF Names, Path
<1>11. Apart'
  BY <1>1, <1>5 DEF Apart
<1>12. Contents'
  BY <1>2 DEF Contents
<1>13. Relied'
  <2>1. \A q \in Paths : at'[q] # None => files'[at'[q]].whole
    BY <1>2, <1>4, UnderPath DEF Relied, Leans, Looks
  <2>2. ASSUME NEW r \in Procs, r # p
        PROVE  Leans(r)'
    <3>1. proc'[r] = proc[r]
      BY <1>1, <2>2
    <3>2. /\ proc[r].file # None => proc[r].file \in DOMAIN files
          /\ proc[r].temp # None => proc[r].temp \in temps /\ proc[r].temp \in DOMAIN files
          /\ Shape(proc[r])
      BY InHands
    <3>3. Leans(r)
      BY DEF Relied
    <3> QED
      BY <1>2, <1>3, <3>1, <3>2, <3>3 DEF Leans, At, Shape, Working
  <2>3. ASSUME NEW r \in Procs, r # p PROVE Looks(r)'
    <3> SUFFICES ASSUME At(r, "open")', proc'[r].seen # Current
                 PROVE  /\ at'[Path(r)'] # None
                        /\ files'[at'[Path(r)']].live.sized
                        /\ \A u \in Procs : proc'[u].published # at'[Path(r)']
      BY DEF Looks
    <3>1. proc'[r] = proc[r] /\ At(r, "open") /\ ~At(r, "idle")
      BY <1>1, <2>3 DEF At
    <3>2. Path(r) \in Paths /\ Path(r)' = Path(r)
      BY <3>1, AtWork DEF Path
    <3>3. /\ at[Path(r)] # None /\ files[at[Path(r)]].live.sized
          /\ \A u \in Procs : proc[u].published # at[Path(r)]
      BY <2>3, <3>1 DEF Relied, Leans, Looks
    <3> QED
      BY <1>1, <1>2, <1>4, <1>5, <3>2, <3>3, UnderPath
  <2>4. row.step = "version" => files'[row.file].live.sized
    <3>1. row.step = "version" => row.file = n /\ new.live.sized
      BY DEF n
    <3> QED
      BY <1>2, <3>1
  <2>5. /\ proc'[p].step = row.step /\ proc'[p].file = row.file
        /\ proc'[p].step \notin {"fill", "publish", "open", "commit", "schema"}
    BY <1>1, <1>8
  <2>6. ASSUME NEW r \in Procs, r # p
        PROVE  Leans(r)' /\ Looks(r)'
    BY <2>2, <2>3, <2>6
  <2>7. Leans(p)' /\ Looks(p)'
    BY <2>4, <2>5 DEF Leans, Looks, At
  <2> QED
    BY <2>1, <2>6, <2>7 DEF Relied
<1>14. Acknowledged'
  <2> SUFFICES ASSUME NEW a \in acked
               PROVE  /\ a.path \in Paths /\ a.file \in DOMAIN files' /\ a.file \notin temps
                      /\ a.mem \in files'[a.file].live.mems
                      /\ at'[a.path] = a.file \/ a.file \in withdrawn
    BY <1>3 DEF Acknowledged
  <2>1. /\ a.path \in Paths /\ a.file \in DOMAIN files /\ a.file # None
        /\ a.file \notin temps /\ a.mem \in files[a.file].live.mems
        /\ at[a.path] = a.file \/ a.file \in withdrawn
    BY InFile DEF Acknowledged
  <2> QED
    BY <1>2, <1>4, <2>1
<1>15. \A g \in DOMAIN files : Users(g) \subseteq Users(g)' /\ p \notin Users(g)
  <2> SUFFICES ASSUME NEW g \in DOMAIN files
               PROVE  Users(g) \subseteq Users(g)' /\ p \notin Users(g)
    OBVIOUS
  <2>1. g # None
    BY InFile
  <2> QED
    BY <1>1, <2>1 DEF Users
<1>16. Begun'
  <2> SUFFICES ASSUME NEW g \in DOMAIN files', files'[g].live = Bare, g \notin cut
               PROVE  \E r \in Users(g)' : proc'[r].step \in {"version", "schema"}
    BY <1>3 DEF Begun
  <2>1. CASE g = n
    <3>1. row.step = "version" /\ row.file = n
      BY <1>2, <2>1 DEF n
    <3> QED
      BY <1>1, <2>1, <3>1 DEF Users
  <2>2. CASE g \in DOMAIN files
    <3>1. PICK r \in Users(g) : proc[r].step \in {"version", "schema"}
      BY <1>2, <2>2 DEF Begun
    <3> QED
      BY <1>1, <1>15, <2>2, <3>1 DEF Users
  <2> QED
    BY <1>2, <2>1, <2>2
<1>17. Old'
  <2> SUFFICES ASSUME NEW g \in DOMAIN files', 5 \in {files'[g].disk.version, files'[g].live.version}
               PROVE  /\ files'[g].mode = "wal"
                      /\ \E q \in Paths :
                           /\ at'[q] = g
                           /\ \A r \in Procs : ~At(r, "idle")' /\ Path(r)' = q =>
                                proc'[r].file \in {None, g} /\ proc'[r].published = None
                           /\ files'[g].disk # files'[g].live => Users(g)' # {} \/ q \in hot
    BY <1>3 DEF Old
  <2>1. g \in DOMAIN files /\ g # None
    BY <1>2, InFile
  <2>2. PICK q \in Paths :
          /\ at[q] = g
          /\ \A r \in Procs : ~At(r, "idle") /\ Path(r) = q =>
               proc[r].file \in {None, g} /\ proc[r].published = None
          /\ files[g].disk # files[g].live => Users(g) # {} \/ q \in hot
    BY <1>2, <2>1 DEF Old
  <2>3. q # Path(p)
    BY <2>1, <2>2
  <2>4. \A r \in Procs : ~At(r, "idle")' /\ Path(r)' = q =>
          proc'[r].file \in {None, g} /\ proc'[r].published = None
    BY <1>1, <2>2, <2>3 DEF At, Path
  <2>5. files'[g].mode = "wal" /\ files'[g] = files[g] /\ at'[q] = g
    BY <1>2, <1>4, <2>1, <2>2, <2>3 DEF Old
  <2> QED
    BY <1>15, <2>1, <2>2, <2>4, <2>5
<1> QED
  BY <1>9, <1>10, <1>11, <1>12, <1>13, <1>14, <1>16, <1>17

\* A new file, an inspected one, or one that the preflight refuses.
LEMMA ClaimInv ==
  ASSUME IInv, NEW p \in Procs, Claim(p)
  PROVE  IInv'
<1> DEFINE row == [proc[p] EXCEPT !.step = "wal"]
<1>1. /\ proc[p] \in ProcRow /\ Shape(proc[p]) /\ proc[p].step = "claim" /\ ~At(p, "idle")
      /\ proc[p].file = None /\ proc[p].temp = None
  BY InHands DEF Claim, At, IInv, Shape, Working
<1>2. /\ row \in ProcRow /\ row.step = "wal"
      /\ row.job = proc[p].job /\ row.id = proc[p].id /\ row.file = proc[p].file
      /\ row.temp = proc[p].temp /\ row.published = proc[p].published
  BY <1>1 DEF ProcRow, Steps
<1>3. Go(p, "wal") => proc' = [proc EXCEPT ![p] = row]
  BY DEF Go
<1> HIDE DEF row
<1>4. CASE /\ Creatable(Path(p))
           /\ files' = Append(files, File(Empty))
           /\ at' = [at EXCEPT ![Path(p)] = Len(files')]
           /\ Go(p, "wal")
           /\ UNCHANGED <<temps, hot, started, crashes, history>>
  <2> DEFINE new == File(Empty)
  <2>1. /\ new \in FileRow /\ new.whole /\ new.live = Empty /\ new.disk = Empty
        /\ new.mode = "delete"
    BY ContentFacts DEF File, FileRow
  <2>2. at[Path(p)] = None /\ files' = Append(files, new) /\ Placed(p, Len(files'))
    BY <1>4 DEF Creatable, Placed
  <2> HIDE DEF new
  <2>3. /\ Sane(new.live) /\ new.disk = new.live /\ new.mode # "wal" /\ new.live.version = 0
        /\ new.live # Bare
    BY <2>1, ContentFacts
  <2> QED
    BY <1>1, <1>2, <1>3, <1>4, <2>1, <2>2, <2>3, CreatesInv
<1>5. CASE Go(p, "wal") /\ UNCHANGED <<fileVars, started, crashes, history>>
  <2>1. Shape(row)
    BY <1>1, <1>2 DEF Shape, Working, Idle
  <2>2. UNCHANGED <<fileVars, crashes, history>> /\ started' \in 0..MaxJobs
    BY <1>5 DEF IInv, Types
  <2> QED
    BY <1>1, <1>2, <1>3, <1>5, <2>1, <2>2, GoesOn
<1>6. CASE Fail(p)
  BY <1>1, <1>6, FailInv
<1> QED
  BY <1>4, <1>5, <1>6 DEF Claim

\* The first page of an empty file is written when the mode is set.
LEMMA EnableWalInv ==
  ASSUME IInv, NEW p \in Procs, EnableWal(p)
  PROVE  IInv'
<1> DEFINE f == at[Path(p)]
<1>1. /\ proc[p] \in ProcRow /\ proc[p].step = "wal" /\ ~At(p, "idle")
      /\ proc[p].file = None /\ proc[p].temp = None /\ Path(p) \in Paths
  BY InHands, AtWork DEF EnableWal, At, IInv, Shape, Working
<1>2. CASE /\ f # None
           /\ files' = [files EXCEPT
                ![f].mode = "wal",
                ![f].live = IF @.sized THEN @ ELSE Bare,
                ![f].disk = IF files[f].live.sized THEN @ ELSE Bare]
           /\ proc' = [proc EXCEPT ![p].step = "version", ![p].file = f]
           /\ UNCHANGED <<at, temps, hot, started, crashes, history>>
  <2> DEFINE old == files[f]
             new == [old EXCEPT !.mode = "wal",
                                !.live = IF @.sized THEN @ ELSE Bare,
                                !.disk = IF old.live.sized THEN @ ELSE Bare]
             step == "version"
             row == [proc[p] EXCEPT !.step = step, !.file = f]
  <2>1. /\ f \in DOMAIN files \ temps /\ f \in Nat /\ files \in Seq(FileRow)
        /\ old \in FileRow /\ old.live \in Content /\ old.disk \in Content /\ Sane(old.live)
        /\ old.disk.version = Current => old.live.version = Current
    BY <1>1, <1>2, UnderPath, InFile DEF IInv, Types, Names, Contents
  <2>2. files' = [files EXCEPT ![f] = new]
    BY <1>2, <2>1, LenProperties DEF FileRow
  <2>3. new \in FileRow
    BY <2>1, ContentFacts DEF FileRow
  <2>4. /\ new.whole = old.whole /\ new.mode = "wal"
        /\ new.live = IF old.live.sized THEN old.live ELSE Bare
        /\ new.disk = IF old.live.sized THEN old.disk ELSE Bare
    BY <2>1 DEF FileRow
  <2>5. /\ Sane(new.live) /\ new.live.sized
        /\ Current \in {old.live.version, new.disk.version} => new.live.version = Current
        /\ old.live.mems \subseteq new.live.mems
        /\ 5 \in {new.disk.version, new.live.version} => 5 \in {old.disk.version, old.live.version}
    <3>1. CASE old.live.sized
      BY <2>1, <2>4, <3>1
    <3>2. CASE ~old.live.sized
      <4>1. old.live = Empty /\ new.live = Bare /\ new.disk = Bare
        BY <2>1, <2>4, <3>2 DEF Sane
      <4> QED
        BY <4>1, ContentFacts DEF Current
    <3> QED
      BY <3>1, <3>2
  <2> HIDE DEF new
  <2>6. /\ files' \in Seq(FileRow) /\ Len(files') = Len(files) /\ DOMAIN files' = DOMAIN files
        /\ files'[f] = new
        /\ \A g \in DOMAIN files \ {f} : files'[g] = files[g]
    BY <2>1, <2>2, <2>3, Rewritten
  <2>7. proc' = [proc EXCEPT ![p] = row] /\ row \in ProcRow /\ step \in Working
    BY <1>1, <1>2, <2>1 DEF IInv, Types, ProcRow, Steps, Working
  <2>8. row = [proc[p] EXCEPT !.step = step, !.file = f] /\ step = "version"
    OBVIOUS
  <2>9. UNCHANGED <<at, temps, hot, started, crashes, withdrawn, cut>> /\ acked' = acked
    BY <1>2 DEF history
  <2> HIDE DEF step, row
  <2> QED
    BY <1>1, <2>1, <2>4, <2>5, <2>6, <2>7, <2>8, <2>9, WritesInv
<1>3. CASE /\ f = None
           /\ files' = Append(files, [File(Bare) EXCEPT !.mode = "wal"])
           /\ at' = [at EXCEPT ![Path(p)] = Len(files')]
           /\ proc' = [proc EXCEPT ![p].step = "version", ![p].file = Len(files')]
           /\ UNCHANGED <<temps, hot, started, crashes, history>>
  <2> DEFINE new == [File(Bare) EXCEPT !.mode = "wal"]
             row == [proc[p] EXCEPT !.step = "version", !.file = Len(files')]
  <2>1. /\ new \in FileRow /\ new.whole /\ new.live = Bare /\ new.disk = Bare
        /\ new.mode = "wal"
    BY ContentFacts DEF File, FileRow
  <2> HIDE DEF new
  <2>2. files' = Append(files, new) /\ Placed(p, Len(files'))
    BY <1>3 DEF new, Placed
  <2>3. Len(files') \in Nat
    BY <2>1, <2>2, Created, LenProperties DEF IInv, Types
  <2>4. proc' = [proc EXCEPT ![p] = row] /\ row \in ProcRow
    BY <1>1, <1>3, <2>3 DEF IInv, Types, ProcRow, Steps
  <2>5. /\ row.step = "version" /\ row.file = Len(files')
        /\ row.job = proc[p].job /\ row.id = proc[p].id
        /\ row.temp = proc[p].temp /\ row.published = proc[p].published
    BY <1>1 DEF ProcRow
  <2> HIDE DEF row
  <2>6. /\ Sane(new.live) /\ new.disk = new.live /\ new.live.sized /\ new.live.version = 0
    BY <2>1, ContentFacts
  <2>7. at[Path(p)] = None /\ UNCHANGED <<temps, hot, started, crashes, history>>
    BY <1>3
  <2> QED
    BY <1>1, <2>1, <2>2, <2>4, <2>5, <2>6, <2>7, CreatesInv
<1>4. CASE Fail(p)
  BY <1>1, <1>4, FailInv
<1> QED
  BY <1>2, <1>3, <1>4 DEF EnableWal

LEMMA CheckpointInv ==
  ASSUME IInv, NEW f \in DOMAIN files, Checkpoint(f)
  PROVE  IInv'
<1> USE DEF IInv
<1>1. Saved(files')
  BY CheckpointedFiles DEF Types, Checkpoint
<1>2. /\ files' \in Seq(FileRow) /\ Len(files') = Len(files) /\ DOMAIN files' = DOMAIN files
      /\ \A g \in DOMAIN files :
           /\ files'[g].live = files[g].live /\ files'[g].mode = files[g].mode
           /\ files'[g].whole = files[g].whole
           /\ files'[g].disk \in {files[g].disk, files[g].live}
  BY <1>1 DEF Saved
<1>3. /\ at' = at /\ temps' = temps /\ hot' = hot /\ proc' = proc /\ started' = started
      /\ crashes' = crashes /\ acked' = acked /\ withdrawn' = withdrawn /\ cut' = cut
  BY DEF Checkpoint, history
<1>4. Types'
  BY <1>2, <1>3 DEF Types, Owned
<1>5. Names' /\ Apart'
  BY <1>3 DEF Names, Apart, Path
<1>6. Contents'
  BY <1>2 DEF Contents
<1>7. Relied'
  <2>1. \A q \in Paths : at[q] # None => files'[at[q]].whole
    BY <1>2, UnderPath DEF Relied, Leans, Looks
  <2>2. ASSUME NEW r \in Procs
        PROVE  /\ At(r, "commit") => files'[proc[r].file].live.version = Current
               /\ proc[r].step \in {"version", "schema"} => files'[proc[r].file].live.sized
               /\ At(r, "fill") /\ proc[r].job.op = "backup" =>
                    /\ proc[r].source \in DOMAIN files' \ temps
                    /\ files'[proc[r].source].live.version = Current
               /\ At(r, "publish") =>
                    /\ files'[proc[r].temp].whole
                    /\ files'[proc[r].temp].live.version = Current
                         \/ files'[proc[r].temp].live.archive
    <3>1. /\ proc[r].file # None => proc[r].file \in DOMAIN files
          /\ proc[r].temp # None => proc[r].temp \in DOMAIN files
          /\ Shape(proc[r])
      BY InHands
    <3>2. Leans(r)
      BY DEF Relied
    <3> QED
      BY <1>2, <3>1, <3>2 DEF Leans, At, Shape, Working
  <2>3. ASSUME NEW r \in Procs, At(r, "open"), proc[r].seen # Current
        PROVE  /\ at[Path(r)] # None /\ files'[at[Path(r)]].live.sized
               /\ \A u \in Procs : proc[u].published # at[Path(r)]
    <3>1. Path(r) \in Paths
      BY <2>3, AtWork DEF At
    <3> QED
      BY <1>2, <2>3, <3>1, UnderPath DEF Relied, Leans, Looks
  <2> QED
    BY <1>3, <2>1, <2>2, <2>3 DEF Relied, Leans, Looks, At, Path
<1>8. Acknowledged' /\ Begun'
  BY <1>2, <1>3 DEF Acknowledged, Begun, Users
<1>9. Old'
  <2> SUFFICES ASSUME NEW g \in DOMAIN files, 5 \in {files'[g].disk.version, files'[g].live.version}
               PROVE  /\ files'[g].mode = "wal"
                      /\ \E q \in Paths :
                           /\ at[q] = g
                           /\ \A r \in Procs : ~At(r, "idle") /\ Path(r) = q =>
                                proc[r].file \in {None, g} /\ proc[r].published = None
                           /\ files'[g].disk # files'[g].live => Users(g) # {} \/ q \in hot
    BY <1>2, <1>3 DEF Old, Users, At, Path
  <2>1. 5 \in {files[g].disk.version, files[g].live.version}
    BY <1>2
  <2>2. files'[g].disk # files'[g].live => files[g].disk # files[g].live
    BY <1>2
  <2> QED
    BY <1>2, <2>1, <2>2 DEF Old
<1> QED
  BY <1>4, <1>5, <1>6, <1>7, <1>8, <1>9

-----------------------------------------------------------------------------
(* Import, export and backup *)

LEMMA PartialRow ==
  /\ Partial \in FileRow /\ Partial.live = Empty /\ Partial.disk = Empty
  /\ Partial.mode = "delete"
<1>1. File(Empty) \in FileRow /\ File(Empty).live = Empty /\ File(Empty).disk = Empty
      /\ File(Empty).mode = "delete"
  BY ContentFacts DEF File, FileRow
<1> QED
  BY <1>1 DEF Partial, FileRow

LEMMA CreateTempInv ==
  ASSUME IInv, NEW p \in Procs, CreateTemp(p)
  PROVE  IInv'
<1> USE DEF IInv
<1> DEFINE n == Len(files')
           source == at[proc[p].job.from]
           row == [proc[p] EXCEPT !.step = "fill", !.temp = n, !.source = source]
<1>1. /\ proc[p] \in ProcRow /\ Shape(proc[p]) /\ proc[p].step = "temp" /\ ~At(p, "idle")
      /\ proc[p].file = None /\ proc[p].temp = None
      /\ proc[p].job \in Jobs /\ proc[p].id # 0 /\ proc[p].job.from \in Paths
  BY InHands, AtWork DEF CreateTemp, At, Shape, Working
<1>2. CASE Fail(p)
  BY <1>1, <1>2, FailInv
<1>3. ASSUME proc[p].job.op = "backup" => Readable(source),
             files' = Append(files, Partial),
             temps' = temps \cup {n},
             proc' = [proc EXCEPT ![p].step = "fill", ![p].temp = n, ![p].source = source],
             UNCHANGED <<at, hot, started, crashes, history>>
      PROVE  IInv'
  <2>1. /\ files' \in Seq(FileRow) /\ n = Len(files) + 1 /\ Len(files) \in Nat /\ n \in Nat
        /\ DOMAIN files' = DOMAIN files \cup {n} /\ n \notin DOMAIN files
        /\ n # None /\ files'[n] = Partial
        /\ \A g \in DOMAIN files : files'[g] = files[g]
    <3>1. files \in Seq(FileRow) /\ files' = Append(files, Partial)
      BY <1>3 DEF Types
    <3>2. Len(files) \in Nat
      BY <3>1, LenProperties
    <3>3. /\ files' \in Seq(FileRow) /\ Len(files') = Len(files) + 1
          /\ DOMAIN files' = DOMAIN files \cup {Len(files')} /\ Len(files') \notin DOMAIN files
          /\ files'[Len(files')] = Partial
          /\ \A g \in DOMAIN files : files'[g] = files[g]
      BY <3>1, PartialRow, Created
    <3> QED
      BY <3>2, <3>3 DEF None
  <2>2. source \in 0..Len(files)
    BY <1>1 DEF Types
  <2> HIDE DEF n
  <2>3. proc' = [proc EXCEPT ![p] = row] /\ row \in ProcRow
    BY <1>1, <1>3, <2>1, <2>2 DEF Types, ProcRow, Steps
  <2>4. /\ row.step = "fill" /\ row.temp = n /\ row.source = source
        /\ row.job = proc[p].job /\ row.id = proc[p].id /\ row.file = None
        /\ row.published = proc[p].published
    BY <1>1 DEF ProcRow
  <2> HIDE DEF row
  <2>5. /\ proc'[p] = row
        /\ \A r \in Procs \ {p} : proc'[r] = proc[r]
        /\ Path(p)' = Path(p)
    BY <2>3, <2>4 DEF Types, Path
  <2>6. /\ at' = at /\ hot' = hot /\ started' = started /\ crashes' = crashes
        /\ acked' = acked /\ withdrawn' = withdrawn /\ cut' = cut /\ temps' = temps \cup {n}
    BY <1>3 DEF history
  <2>7. n \notin temps /\ n \notin withdrawn /\ \A q \in Paths : at[q] # n
    BY <2>1, LenProperties DEF Types
  <2>8. \A r \in Procs : proc[r].file # n /\ proc[r].published # n /\ proc[r].temp # n
    BY <2>1, InHands DEF Types
  <2>9. Types'
    <3>1. Shape(row)
      <4>1. row # Idle
        BY <2>4 DEF Idle
      <4> QED
        BY <1>1, <2>1, <2>4, <4>1 DEF Shape, Working
    <3>2. Owned' = Owned \cup {n}
      BY <1>1, <2>1, <2>4, <2>5 DEF Owned
    <3>3. proc' \in [Procs -> ProcRow]
      BY <2>3 DEF Types
    <3>4. \A r \in Procs : /\ Shape(proc'[r])
                           /\ {proc'[r].file, proc'[r].published} \subseteq 0..n
      BY <2>1, <2>4, <2>5, <3>1, InHands DEF None
    <3>5. at' \in [Paths -> 0..n] /\ withdrawn' \subseteq DOMAIN files' /\ cut' \subseteq DOMAIN files'
      BY <2>1, <2>6 DEF Types
    <3> QED
      BY <2>1, <2>6, <3>2, <3>3, <3>4, <3>5 DEF Types, n
  <2>10. Names'
    BY <2>1, <2>4, <2>5, <2>6, <2>7, <2>8 DEF Names, Path
  <2>11. Apart'
    BY <2>4, <2>5, <2>8 DEF Apart
  <2>12. Contents'
    BY PartialRow, <2>1, ContentFacts DEF Contents, Current
  <2>13. Relied'
    <3>1. \A q \in Paths : at'[q] # None => files'[at'[q]].whole
      BY <2>1, <2>6, UnderPath DEF Relied, Leans, Looks
    <3>2. ASSUME NEW r \in Procs, r # p
          PROVE  Leans(r)'
      <4>1. proc'[r] = proc[r]
        BY <2>5, <3>2
      <4>2. /\ proc[r].file # None => proc[r].file \in DOMAIN files
            /\ proc[r].temp # None => proc[r].temp \in DOMAIN files
            /\ Shape(proc[r])
        BY InHands
      <4>3. Leans(r)
        BY DEF Relied
      <4> QED
        BY <2>1, <2>6, <4>1, <4>2, <4>3 DEF Leans, At, Shape, Working
    <3>3. ASSUME NEW r \in Procs, r # p PROVE Looks(r)'
      <4> SUFFICES ASSUME At(r, "open")', proc'[r].seen # Current
                   PROVE  /\ at'[Path(r)'] # None
                          /\ files'[at'[Path(r)']].live.sized
                          /\ \A u \in Procs : proc'[u].published # at'[Path(r)']
        BY DEF Looks
      <4>1. proc'[r] = proc[r] /\ At(r, "open") /\ ~At(r, "idle")
        BY <2>5, <3>3 DEF At
      <4>2. Path(r) \in Paths /\ Path(r)' = Path(r)
        BY <4>1, AtWork DEF Path
      <4>3. /\ at[Path(r)] # None /\ files[at[Path(r)]].live.sized
            /\ \A u \in Procs : proc[u].published # at[Path(r)]
        BY <3>3, <4>1 DEF Relied, Leans, Looks
      <4> QED
        BY <2>1, <2>4, <2>5, <2>6, <4>2, <4>3, UnderPath
    <3>4. ASSUME proc[p].job.op = "backup"
          PROVE  source \in DOMAIN files \ temps' /\ files'[source].live.version = Current
      <4>1. source # None /\ "compatible" \in Inspections(source)
        BY <1>3, <3>4 DEF Readable
      <4>2. source \in DOMAIN files \ temps
        BY <1>1, <4>1, UnderPath DEF Names
      <4> QED
        BY <1>1, <2>1, <2>6, <4>1, <4>2, Recognised
    <3>5. ASSUME NEW r \in Procs, r # p
          PROVE  Leans(r)' /\ Looks(r)'
      BY <3>2, <3>3, <3>5
    <3>6. Leans(p)' /\ Looks(p)'
      BY <2>1, <2>4, <2>5, <3>4 DEF Leans, Looks, At
    <3> QED
      BY <3>1, <3>5, <3>6 DEF Relied
  <2>14. Acknowledged'
    BY <2>1, <2>6 DEF Acknowledged
  <2>15. \A g \in DOMAIN files : Users(g)' = Users(g) /\ p \notin Users(g)
    <3> SUFFICES ASSUME NEW g \in DOMAIN files
                 PROVE  Users(g)' = Users(g) /\ p \notin Users(g)
      OBVIOUS
    <3>1. g # None
      BY InFile
    <3> QED
      BY <1>1, <2>4, <2>5, <3>1 DEF Users
  <2>16. Begun'
    <3> SUFFICES ASSUME NEW g \in DOMAIN files', files'[g].live = Bare, g \notin cut
                 PROVE  \E r \in Users(g)' : proc'[r].step \in {"version", "schema"}
      BY <2>6 DEF Begun
    <3>1. g # n
      BY PartialRow, <2>1, ContentFacts
    <3>2. g \in DOMAIN files /\ files[g].live = Bare
      BY <2>1, <3>1
    <3>3. PICK r \in Users(g) : proc[r].step \in {"version", "schema"}
      BY <3>2 DEF Begun
    <3> QED
      BY <2>5, <2>15, <3>2, <3>3 DEF Users
  <2>17. Old'
    <3> SUFFICES ASSUME NEW g \in DOMAIN files', 5 \in {files'[g].disk.version, files'[g].live.version}
                 PROVE  /\ files'[g].mode = "wal"
                        /\ \E q \in Paths :
                             /\ at[q] = g
                             /\ \A r \in Procs : ~At(r, "idle")' /\ Path(r)' = q =>
                                  proc'[r].file \in {None, g} /\ proc'[r].published = None
                             /\ files'[g].disk # files'[g].live => Users(g)' # {} \/ q \in hot
      BY <2>6 DEF Old
    <3>1. g \in DOMAIN files /\ files'[g] = files[g]
      BY PartialRow, <2>1, ContentFacts
    <3>2. PICK q \in Paths :
            /\ at[q] = g
            /\ \A r \in Procs : ~At(r, "idle") /\ Path(r) = q =>
                 proc[r].file \in {None, g} /\ proc[r].published = None
            /\ files[g].disk # files[g].live => Users(g) # {} \/ q \in hot
      BY <3>1 DEF Old
    <3>3. \A r \in Procs : ~At(r, "idle")' /\ Path(r)' = q =>
            proc'[r].file \in {None, g} /\ proc'[r].published = None
      BY <1>1, <2>4, <2>5, <3>2 DEF At, Path
    <3> QED
      BY <2>15, <3>1, <3>2, <3>3 DEF Old
  <2> QED
    BY <2>9, <2>10, <2>11, <2>12, <2>13, <2>14, <2>16, <2>17
<1> QED
  BY <1>2, <1>3, <1>1 DEF CreateTemp

\* What is published is a store of the current schema or an archive.
LEMMA OutputContent ==
  ASSUME IInv, NEW p \in Procs, At(p, "fill")
  PROVE  /\ Output(p) \in Content /\ Sane(Output(p))
         /\ Output(p).version = Current \/ (Output(p).archive /\ Output(p).version = 0)
         /\ Output(p) # Bare
<1>1. proc[p].job.op \in {"import", "export", "backup"}
  BY InHands DEF IInv, Shape, At
<1>2. CASE proc[p].job.op = "import"
  BY <1>2, ContentFacts DEF Output, Current
<1>3. CASE proc[p].job.op = "export"
  BY <1>3, ContentFacts DEF Output
<1>4. CASE proc[p].job.op = "backup"
  <2> DEFINE f == proc[p].source
  <2>1. f \in DOMAIN files /\ files[f].live.version = Current
    BY <1>4 DEF IInv, Relied, Leans, Looks
  <2>2. files[f].live \in Content /\ Sane(files[f].live)
    BY <2>1, InFile DEF IInv, Contents
  <2>3. Output(p) = files[f].live
    BY <1>4 DEF Output
  <2> QED
    BY <2>1, <2>2, <2>3, ContentFacts DEF Current
<1> QED
  BY <1>1, <1>2, <1>3, <1>4

LEMMA FillInv ==
  ASSUME IInv, NEW p \in Procs, Fill(p)
  PROVE  IInv'
<1> USE DEF IInv
<1> DEFINE f == proc[p].temp
           new == File(Output(p))
           row == [proc[p] EXCEPT !.step = "publish"]
<1>1. /\ proc[p] \in ProcRow /\ Shape(proc[p]) /\ proc[p].step = "fill" /\ ~At(p, "idle")
      /\ proc[p].file = None /\ f # None /\ f \in temps /\ f \in DOMAIN files
      /\ proc[p].job \in Jobs /\ proc[p].id # 0
  BY InHands, AtWork DEF Fill, At, Shape, Working
<1>2. CASE Fail(p)
  BY <1>1, <1>2, FailInv
<1>3. CASE /\ files' = [files EXCEPT ![f] = new]
           /\ Go(p, "publish")
           /\ UNCHANGED <<at, temps, hot, started, crashes, history>>
  <2>1. /\ new \in FileRow /\ Sane(new.live) /\ new.disk = new.live /\ new.whole
        /\ new.mode = "delete" /\ new.live # Bare
        /\ new.live.version = Current \/ (new.live.archive /\ new.live.version = 0)
    BY OutputContent DEF Fill, File, FileRow
  <2> HIDE DEF new
  <2>2. /\ files' \in Seq(FileRow) /\ Len(files') = Len(files) /\ DOMAIN files' = DOMAIN files
        /\ files'[f] = new
        /\ \A g \in DOMAIN files \ {f} : files'[g] = files[g]
    BY <1>1, <1>3, <2>1, Rewritten DEF Types
  <2>3. proc' = [proc EXCEPT ![p] = row] /\ row \in ProcRow
    BY <1>1, <1>3 DEF Go, ProcRow, Steps
  <2>4. /\ row.step = "publish" /\ row.temp = f
        /\ row.job = proc[p].job /\ row.id = proc[p].id /\ row.file = None
        /\ row.published = proc[p].published
    BY <1>1 DEF ProcRow
  <2> HIDE DEF row
  <2>5. /\ proc'[p] = row
        /\ \A r \in Procs \ {p} : proc'[r] = proc[r]
        /\ Path(p)' = Path(p)
    BY <2>3, <2>4 DEF Types, Path
  <2>6. /\ at' = at /\ hot' = hot /\ started' = started /\ crashes' = crashes
        /\ acked' = acked /\ withdrawn' = withdrawn /\ cut' = cut /\ temps' = temps
    BY <1>3 DEF history
  <2>7. Types'
    <3>1. Shape(row)
      <4>1. row # Idle
        BY <2>4 DEF Idle
      <4> QED
        BY <1>1, <2>4, <4>1 DEF Shape, Working
    <3>2. Owned' = Owned
      BY <2>4, <2>5 DEF Owned
    <3>3. proc' \in [Procs -> ProcRow]
      BY <2>3 DEF Types
    <3>4. \A r \in Procs : /\ Shape(proc'[r])
                           /\ {proc'[r].file, proc'[r].published} \subseteq 0..Len(files)
      BY <1>1, <2>4, <2>5, <3>1, InHands
    <3> QED
      BY <2>2, <2>6, <3>2, <3>3, <3>4 DEF Types
  <2>8. Names'
    BY <2>4, <2>5, <2>6 DEF Names, Path
  <2>9. Apart'
    BY <2>4, <2>5 DEF Apart
  <2>10. Contents'
    <3>1. new.mode # "wal" /\ Current # 0
      BY <2>1 DEF Current
    <3> QED
      BY <2>1, <2>2, <3>1 DEF Contents
  <2>11. Relied'
    <3>1. \A q \in Paths : at'[q] # None => files'[at'[q]].whole
      BY <1>1, <2>2, <2>6, UnderPath DEF Relied, Leans, Looks, Names
    <3>2. ASSUME NEW r \in Procs, r # p
          PROVE  Leans(r)'
      <4>1. proc'[r] = proc[r]
        BY <2>5, <3>2
      <4>2. /\ proc[r].file # None => proc[r].file \in DOMAIN files /\ proc[r].file # f
            /\ proc[r].temp # None => proc[r].temp \in DOMAIN files /\ proc[r].temp # f
            /\ Shape(proc[r])
        BY <1>1, <3>2, InHands DEF Names, Apart
      <4>3. Leans(r)
        BY DEF Relied
      <4> QED
        BY <1>1, <2>2, <2>6, <4>1, <4>2, <4>3 DEF Leans, At, Shape, Working
    <3>3. ASSUME NEW r \in Procs, r # p PROVE Looks(r)'
      <4> SUFFICES ASSUME At(r, "open")', proc'[r].seen # Current
                   PROVE  /\ at'[Path(r)'] # None
                          /\ files'[at'[Path(r)']].live.sized
                          /\ \A u \in Procs : proc'[u].published # at'[Path(r)']
        BY DEF Looks
      <4>1. proc'[r] = proc[r] /\ At(r, "open") /\ ~At(r, "idle")
        BY <2>5, <3>3 DEF At
      <4>2. Path(r) \in Paths /\ Path(r)' = Path(r)
        BY <4>1, AtWork DEF Path
      <4>3. /\ at[Path(r)] # None /\ files[at[Path(r)]].live.sized
            /\ \A u \in Procs : proc[u].published # at[Path(r)]
        BY <3>3, <4>1 DEF Relied, Leans, Looks
      <4>4. at[Path(r)] # f
        BY <1>1, <4>2, <4>3 DEF Names
      <4> QED
        BY <2>2, <2>4, <2>5, <2>6, <4>2, <4>3, <4>4, UnderPath
    <3>4. ASSUME NEW r \in Procs, r # p
          PROVE  Leans(r)' /\ Looks(r)'
      BY <3>2, <3>3, <3>4
    <3>5. Leans(p)' /\ Looks(p)'
      BY <2>1, <2>2, <2>4, <2>5 DEF Leans, Looks, At
    <3> QED
      BY <3>1, <3>4, <3>5 DEF Relied
  <2>12. Acknowledged'
    BY <1>1, <2>2, <2>6 DEF Acknowledged
  <2>13. \A g \in DOMAIN files : Users(g)' = Users(g)
    BY <1>1, <2>4, <2>5 DEF Users
  <2>14. Begun'
    <3> SUFFICES ASSUME NEW g \in DOMAIN files, files'[g].live = Bare, g \notin cut
                 PROVE  \E r \in Users(g)' : proc'[r].step \in {"version", "schema"}
      BY <2>2, <2>6 DEF Begun
    <3>1. g # f /\ files[g].live = Bare
      BY <2>1, <2>2
    <3>2. PICK r \in Users(g) : proc[r].step \in {"version", "schema"}
      BY <3>1 DEF Begun
    <3> QED
      BY <1>1, <2>5, <2>13, <3>2 DEF Users
  <2>15. Old'
    <3> SUFFICES ASSUME NEW g \in DOMAIN files, 5 \in {files'[g].disk.version, files'[g].live.version}
                 PROVE  /\ files'[g].mode = "wal"
                        /\ \E q \in Paths :
                             /\ at[q] = g
                             /\ \A r \in Procs : ~At(r, "idle")' /\ Path(r)' = q =>
                                  proc'[r].file \in {None, g} /\ proc'[r].published = None
                             /\ files'[g].disk # files'[g].live => Users(g)' # {} \/ q \in hot
      BY <2>2, <2>6 DEF Old
    <3>1. g # f /\ files'[g] = files[g]
      BY <2>1, <2>2 DEF Current
    <3>2. PICK q \in Paths :
            /\ at[q] = g
            /\ \A r \in Procs : ~At(r, "idle") /\ Path(r) = q =>
                 proc[r].file \in {None, g} /\ proc[r].published = None
            /\ files[g].disk # files[g].live => Users(g) # {} \/ q \in hot
      BY <3>1 DEF Old
    <3>3. \A r \in Procs : ~At(r, "idle")' /\ Path(r)' = q =>
            proc'[r].file \in {None, g} /\ proc'[r].published = None
      BY <1>1, <2>4, <2>5, <3>2 DEF At, Path
    <3> QED
      BY <2>13, <3>1, <3>2, <3>3 DEF Old
  <2> QED
    BY <2>7, <2>8, <2>9, <2>10, <2>11, <2>12, <2>14, <2>15
<1> QED
  BY <1>2, <1>3 DEF Fill

\* The temporary file gets its name, and an export is done.
LEMMA PublishInv ==
  ASSUME IInv, NEW p \in Procs, Publish(p)
  PROVE  IInv'
<1> USE DEF IInv
<1> DEFINE f == proc[p].temp
           row == IF proc[p].job.op = "export" THEN Idle
                  ELSE [proc[p] EXCEPT !.step = "recheck", !.published = f, !.temp = None]
<1>1. /\ proc[p] \in ProcRow /\ Shape(proc[p]) /\ proc[p].step = "publish" /\ ~At(p, "idle")
      /\ proc[p].file = None /\ f # None /\ f \in temps /\ f \in DOMAIN files
      /\ proc[p].job \in Jobs /\ proc[p].id # 0 /\ Path(p) \in Paths
  BY InHands, AtWork DEF Publish, At, Shape, Working
<1>2. CASE Fail(p)
  BY <1>1, <1>2, FailInv
<1>3. CASE /\ Publishable(p)
           /\ at' = [at EXCEPT ![Path(p)] = f]
           /\ temps' = TempsLeft(p)
           /\ proc' = [proc EXCEPT ![p] = row]
           /\ UNCHANGED <<files, hot, started, crashes, history>>
  <2>1. at[Path(p)] = None /\ f \in Nat /\ f \in 1..Len(files)
    BY <1>1, <1>3, InFile DEF Publishable
  <2>2. row \in ProcRow
    BY <1>1, <2>1, IdleRow DEF ProcRow, Steps, None
  <2>3. /\ row.temp = None /\ row.file = None
        /\ row.step \notin {"fill", "publish", "open", "commit", "version", "schema"}
        /\ row.step # "idle" => row.job = proc[p].job
        /\ row.published # None => row.published = f /\ row.job = proc[p].job
    BY <1>1 DEF ProcRow, Idle
  <2>4. Shape(row)
    <3>1. CASE proc[p].job.op = "export"
      BY <3>1, IdleRow
    <3>2. CASE proc[p].job.op # "export"
      <4>1. /\ row.step = "recheck" /\ row.job = proc[p].job /\ row.id = proc[p].id
            /\ row # Idle
        BY <1>1, <3>2 DEF ProcRow, Idle
      <4> HIDE DEF row
      <4> QED
        BY <1>1, <2>3, <4>1 DEF Shape, Working
    <3> QED
      BY <3>1, <3>2
  <2> HIDE DEF row
  <2>5. /\ proc'[p] = row
        /\ \A r \in Procs \ {p} : proc'[r] = proc[r]
    BY <1>3 DEF Types
  <2>6. /\ files' = files /\ hot' = hot /\ started' = started /\ crashes' = crashes
        /\ acked' = acked /\ withdrawn' = withdrawn /\ cut' = cut /\ temps' = temps \ {f}
    BY <1>3 DEF history, TempsLeft
  <2>7. /\ at'[Path(p)] = f
        /\ \A q \in Paths \ {Path(p)} : at'[q] = at[q]
        /\ at' \in [Paths -> 0..Len(files)]
        /\ \A q \in Paths : at[q] # None => at'[q] = at[q]
    BY <1>1, <1>3, <2>1 DEF Types
  <2>8. f \notin withdrawn /\ \A q \in Paths : at[q] # f
    BY <1>1 DEF Names
  <2>9. /\ proc[p].published = None
        /\ \A r \in Procs : proc[r].file # f /\ proc[r].published # f
    <3>1. proc[p].published = None
      BY <2>1 DEF Names
    <3>2. ASSUME NEW r \in Procs
          PROVE  proc[r].file # f /\ proc[r].published # f
      <4>1. proc[r].published # None => ~At(r, "idle")
        BY InHands DEF Shape, At, Idle
      <4>2. proc[r].published # None => Path(r) \in Paths /\ at[Path(r)] = proc[r].published
        BY <4>1, AtWork DEF Names
      <4> QED
        BY <1>1, <2>8, <4>2 DEF Names
    <3> QED
      BY <3>1, <3>2
  <2>10. Types'
    <3>1. Owned' = Owned \ {f}
      <4>1. \A g \in Owned' : g \in Owned /\ g # f
        BY <1>1, <2>3, <2>5 DEF Owned, Apart
      <4>2. \A g \in Owned : g \in Owned' \/ g = f
        BY <2>5 DEF Owned
      <4> QED
        BY <4>1, <4>2 DEF Owned
    <3>2. proc' \in [Procs -> ProcRow]
      BY <1>3, <2>2 DEF Types
    <3>3. \A r \in Procs : /\ Shape(proc'[r])
                           /\ {proc'[r].file, proc'[r].published} \subseteq 0..Len(files)
      BY <2>1, <2>3, <2>4, <2>5, InHands, LenProperties DEF Types, None
    <3>4. Owned' \subseteq temps' /\ (crashes' = 0 => temps' = Owned')
      BY <2>6, <3>1 DEF Types
    <3> QED
      BY <2>6, <2>7, <3>2, <3>3, <3>4 DEF Types
  <2>11. Names'
    <3>1. \A q, r \in Paths : at'[q] # None /\ at'[q] = at'[r] => q = r
      BY <2>7, <2>8 DEF Names
    <3>2. \A q \in Paths : at'[q] # None => at'[q] \notin temps' /\ at'[q] \notin withdrawn'
      BY <2>6, <2>7, <2>8 DEF Names
    <3>3. temps' \cap withdrawn' = {}
      BY <2>6 DEF Names
    <3>4. ASSUME NEW r \in Procs, r # p
          PROVE  /\ proc'[r].published # None => at'[Path(r)'] = proc'[r].published
                 /\ proc'[r].file # None =>
                      /\ proc'[r].file \notin temps'
                      /\ at'[Path(r)'] = proc'[r].file \/ proc'[r].file \in withdrawn'
      <4>1. proc'[r] = proc[r]
        BY <2>5, <3>4
      <4>2. proc[r].published # None \/ proc[r].file # None => ~At(r, "idle")
        BY InHands DEF Shape, At, Idle
      <4>3. proc[r].published # None \/ proc[r].file # None => Path(r) \in Paths
        BY <4>2, AtWork
      <4> QED
        BY <2>6, <2>7, <4>1, <4>3 DEF Names, Path
    <3>5. row.published # None => at'[row.job.path] = row.published
      BY <2>3, <2>7 DEF Path
    <3> QED
      BY <2>3, <2>5, <3>1, <3>2, <3>3, <3>4, <3>5 DEF Names, Path
  <2>12. Apart'
    BY <2>3, <2>5, <2>9 DEF Apart
  <2>13. Contents'
    BY <2>6 DEF Contents
  <2>14. Relied'
    <3>1. \A q \in Paths : at'[q] # None => files'[at'[q]].whole
      <4>1. files[f].whole
        BY <1>1 DEF Relied, Leans, Looks, At
      <4> QED
        BY <2>6, <2>7, <4>1 DEF Relied, Leans, Looks
    <3>2. ASSUME NEW r \in Procs, r # p
          PROVE  Leans(r)'
      <4>1. proc'[r] = proc[r]
        BY <2>5, <3>2
      <4> QED
        BY <2>6, <4>1 DEF Relied, Leans, Looks, At
    <3>3. ASSUME NEW r \in Procs, r # p PROVE Looks(r)'
      <4> SUFFICES ASSUME At(r, "open")', proc'[r].seen # Current
                   PROVE  /\ at'[Path(r)'] # None
                          /\ files'[at'[Path(r)']].live.sized
                          /\ \A u \in Procs : proc'[u].published # at'[Path(r)']
        BY DEF Looks
      <4>1. proc'[r] = proc[r] /\ At(r, "open") /\ ~At(r, "idle")
        BY <2>5, <3>3 DEF At
      <4>2. Path(r) \in Paths /\ Path(r)' = Path(r)
        BY <4>1, AtWork DEF Path
      <4>3. /\ at[Path(r)] # None /\ files[at[Path(r)]].live.sized
            /\ \A u \in Procs : proc[u].published # at[Path(r)]
        BY <3>3, <4>1 DEF Relied, Leans, Looks
      <4>4. at'[Path(r)] = at[Path(r)] /\ at[Path(r)] # f
        BY <2>7, <2>8, <4>2, <4>3
      <4> QED
        BY <2>3, <2>5, <2>6, <4>2, <4>3, <4>4
    <3>4. ASSUME NEW r \in Procs, r # p
          PROVE  Leans(r)' /\ Looks(r)'
      BY <3>2, <3>3, <3>4
    <3>5. Leans(p)' /\ Looks(p)'
      BY <2>3, <2>5 DEF Leans, Looks, At
    <3> QED
      BY <3>1, <3>4, <3>5 DEF Relied
  <2>15. Acknowledged'
    <3> SUFFICES ASSUME NEW a \in acked
                 PROVE  /\ a.path \in Paths /\ a.file \in DOMAIN files /\ a.file \notin temps
                        /\ a.mem \in files[a.file].live.mems
                        /\ at'[a.path] = a.file \/ a.file \in withdrawn
      BY <2>6 DEF Acknowledged
    <3>1. a.file # None
      BY InFile DEF Acknowledged
    <3> QED
      BY <2>7, <3>1 DEF Acknowledged
  <2>16. \A g \in DOMAIN files : Users(g)' = Users(g) /\ p \notin Users(g)
    <3> SUFFICES ASSUME NEW g \in DOMAIN files
                 PROVE  Users(g)' = Users(g) /\ p \notin Users(g)
      OBVIOUS
    <3>1. g # None
      BY InFile
    <3> QED
      BY <1>1, <2>3, <2>5, <3>1 DEF Users
  <2>17. Begun'
    BY <2>5, <2>6, <2>16 DEF Begun, Users
  <2>18. Old'
    <3> SUFFICES ASSUME NEW g \in DOMAIN files, 5 \in {files[g].disk.version, files[g].live.version}
                 PROVE  /\ files[g].mode = "wal"
                        /\ \E q \in Paths :
                             /\ at'[q] = g
                             /\ \A r \in Procs : ~At(r, "idle")' /\ Path(r)' = q =>
                                  proc'[r].file \in {None, g} /\ proc'[r].published = None
                             /\ files[g].disk # files[g].live => Users(g)' # {} \/ q \in hot
      BY <2>6 DEF Old
    <3>1. PICK q \in Paths :
            /\ at[q] = g
            /\ \A r \in Procs : ~At(r, "idle") /\ Path(r) = q =>
                 proc[r].file \in {None, g} /\ proc[r].published = None
            /\ files[g].disk # files[g].live => Users(g) # {} \/ q \in hot
      BY DEF Old
    <3>2. g # None /\ files[g].mode = "wal"
      BY InFile DEF Old
    <3>3. q # Path(p) /\ at'[q] = g
      BY <2>1, <2>7, <3>1, <3>2
    <3>4. \A r \in Procs : ~At(r, "idle")' /\ Path(r)' = q =>
            proc'[r].file \in {None, g} /\ proc'[r].published = None
      BY <2>3, <2>5, <3>1, <3>3 DEF At, Path
    <3> QED
      BY <2>16, <3>1, <3>2, <3>3, <3>4
  <2> QED
    BY <2>10, <2>11, <2>12, <2>13, <2>14, <2>15, <2>17, <2>18
<1> QED
  BY <1>2, <1>3 DEF Publish

-----------------------------------------------------------------------------
(* The invariant *)

LEMMA StepInv == IInv /\ [Next]_vars => IInv'
<1> SUFFICES ASSUME IInv, [Next]_vars PROVE IInv'
  OBVIOUS
<1>1. ASSUME NEW p \in Procs, NEW job \in Jobs, Begin(p, job) PROVE IInv'
  BY <1>1, BeginInv
<1>2. ASSUME NEW p \in Procs,
             \/ Claim(p) \/ EnableWal(p) \/ ReadVersion(p) \/ ApplySchema(p) \/ Busy(p)
             \/ Inspect(p) \/ Open(p) \/ Commit(p) \/ Close(p)
             \/ CreateTemp(p) \/ Fill(p) \/ Publish(p) \/ Recheck(p)
             \/ Crash(p)
      PROVE  IInv'
  BY <1>2, ClaimInv, EnableWalInv, ReadVersionInv, ApplySchemaInv, BusyInv, InspectInv, OpenInv,
     CommitInv, CloseInv, CreateTempInv, FillInv, PublishInv, RecheckInv, CrashInv
<1>3. ASSUME NEW f \in DOMAIN files, Checkpoint(f) PROVE IInv'
  BY <1>3, CheckpointInv
<1>4. CASE UNCHANGED vars
  <2>1. Relied' = Relied
    BY <1>4 DEF Relied, Leans, Looks, At, Path, vars, fileVars, history
  <2>2. Types' = Types
    BY <1>4 DEF Types, Owned, vars, fileVars, history
  <2>3. Names' /\ Apart' /\ Contents' /\ Acknowledged'
    BY <1>4 DEF IInv, Names, Apart, Contents, Acknowledged, Path, vars, fileVars, history
  <2>4. Begun' /\ Old'
    BY <1>4 DEF IInv, Begun, Old, Users, At, Path, vars, fileVars, history
  <2> QED
    BY <2>1, <2>2, <2>3, <2>4 DEF IInv
<1> QED
  BY <1>1, <1>2, <1>3, <1>4 DEF Next

LEMMA Invariant == Spec => []IInv
<1> QED
  BY InitInv, StepInv, PTL DEF Spec

-----------------------------------------------------------------------------
(* What follows from it *)

LEMMA TypeCorrect == IInv => TypeOK
<1> SUFFICES ASSUME IInv PROVE TypeOK
  OBVIOUS
<1>1. \A f \in DOMAIN files : /\ files[f].disk \in Content /\ files[f].live \in Content
                              /\ files[f].mode \in {"delete", "wal"}
                              /\ files[f].whole \in BOOLEAN
  BY InFile DEF IInv, FileRow
<1>2. \A p \in Procs : /\ proc[p].step \in Steps
                       /\ proc[p].step = "idle" <=> proc[p] = Idle
                       /\ proc[p].file \in 0..Len(files)
  BY InHands DEF IInv, ProcRow, Shape
<1> QED
  BY <1>1, <1>2 DEF TypeOK, IInv, Types

LEMMA Published == IInv => PublishedWhole
<1> SUFFICES ASSUME IInv, NEW q \in Paths, at[q] # None
             PROVE  LET file == files[at[q]] IN
                    /\ file.whole
                    /\ file.live.version # 0 \/ file.live.archive \/ file.live \in {Empty, Bare}
  BY DEF PublishedWhole
<1>1. at[q] \in DOMAIN files
  BY UnderPath DEF IInv
<1> QED
  BY <1>1 DEF IInv, Relied, Leans, Looks, Contents, Sane

LEMMA Acked == IInv => AcknowledgedStay /\ CardsServed
BY DEF IInv, Acknowledged, AcknowledgedStay, Contents, Sane, CardsServed

\* Nobody has a store open under a path where no process works.
LEMMA QuietUnused ==
  ASSUME IInv, NEW q \in Paths, at[q] # None, Quiet(q)
  PROVE  Users(at[q]) = {}
<1> SUFFICES ASSUME NEW p \in Procs, proc[p].file = at[q]
             PROVE  FALSE
  BY DEF Users
<1>1. ~At(p, "idle")
  BY InHands DEF IInv, Shape, At, Working
<1>2. Path(p) \in Paths /\ Path(p) # q
  BY <1>1, AtWork DEF Quiet, IInv
<1>3. at[q] \notin withdrawn /\ (at[Path(p)] = proc[p].file \/ proc[p].file \in withdrawn)
  BY DEF IInv, Names
<1> QED
  BY <1>2, <1>3 DEF IInv, Names

LEMMA Readers == IInv => QuietStoresReadable
<1> SUFFICES ASSUME IInv, NEW q \in Paths, Quiet(q), at[q] # None,
                    files[at[q]].live.version = Current
             PROVE  Readable(at[q]) \/ (files[at[q]].disk.version = 5 /\ q \in hot)
  BY DEF QuietStoresReadable
<1> DEFINE f == at[q]
<1>1. /\ f \in DOMAIN files /\ files[f].disk \in Content
      /\ Users(f) = {}
  BY UnderPath, InFile, QuietUnused DEF IInv
<1>2. files[f].disk.version \in {0, 5, Current}
  BY <1>1 DEF Content
<1>3. CASE files[f].disk.version = Current
  BY <1>3 DEF Readable, Inspections, Kind, Current
<1>4. CASE files[f].disk.version = 0
  <2>1. Kind(files[f].disk) = "unrecognized" /\ Kind(files[f].live) = "compatible"
    BY <1>4 DEF Kind, Current
  <2>2. files[f].live \in Copies(f)
    BY DEF Copies
  <2> QED
    BY <2>1, <2>2 DEF Readable, Inspections
<1>5. CASE files[f].disk.version = 5
  <2>1. files[f].disk # files[f].live
    BY <1>5 DEF Current
  <2>2. \E o \in Paths : at[o] = f /\ (Users(f) # {} \/ o \in hot)
    BY <1>1, <1>5, <2>1 DEF IInv, Old
  <2>3. q \in hot
    BY <1>1, <2>2 DEF IInv, Names
  <2> QED
    BY <1>5, <2>3
<1> QED
  BY <1>2, <1>3, <1>4, <1>5

LEMMA Rerun == IInv => InitRerunnable
<1> SUFFICES ASSUME IInv, NEW q \in Paths, Quiet(q), at[q] # None, ~files[at[q]].live.archive,
                    at[q] \notin cut
             PROVE  Preflights(at[q]) # {}
  BY DEF InitRerunnable
<1> DEFINE f == at[q]
<1>1. f \in DOMAIN files /\ files[f].live \in Content /\ Users(f) = {}
  BY UnderPath, InFile, QuietUnused DEF IInv
<1>2. files[f].live # Bare
  BY <1>1 DEF IInv, Begun
<1>3. files[f].live.version # 0 \/ files[f].live = Empty
  BY <1>1, <1>2 DEF IInv, Contents, Sane
<1>4. ~files[f].live.sized \/ Kind(files[f].live) # "unrecognized"
  <2>1. files[f].live.version \in {0, 5, Current}
    BY <1>1 DEF Content
  <2> QED
    BY <1>3, <2>1, ContentFacts DEF Kind, Current
<1> QED
  BY <1>4 DEF Preflights, Copies

\* What a step may do to a path that has a file.
StaysUnlessWithdrawn ==
  \A q \in Paths :
    at[q] # None /\ at'[q] # at[q] =>
      at'[q] = None /\ \E p \in Procs : proc[p].published = at[q]

LEMMA StepStays == IInv /\ [Next]_vars => StaysUnlessWithdrawn
<1> SUFFICES ASSUME IInv, [Next]_vars PROVE StaysUnlessWithdrawn
  OBVIOUS
<1>1. ASSUME at' = at
      PROVE  StaysUnlessWithdrawn
  BY <1>1 DEF StaysUnlessWithdrawn
<1>2. ASSUME NEW p \in Procs, Fail(p)
      PROVE  StaysUnlessWithdrawn
  <2>1. \/ at' = at
        \/ proc[p].published # None /\ at' = [at EXCEPT ![Path(p)] = None]
    BY <1>2 DEF Fail
  <2>2. proc[p].published # None => at[Path(p)] = proc[p].published
    BY DEF IInv, Names
  <2>3. at \in [Paths -> 0..Len(files)]
    BY DEF IInv, Types
  <2> QED
    BY <2>1, <2>2, <2>3 DEF StaysUnlessWithdrawn
<1>3. ASSUME NEW p \in Procs, NEW f, at[Path(p)] = None, at' = [at EXCEPT ![Path(p)] = f]
      PROVE  StaysUnlessWithdrawn
  <2>1. at \in [Paths -> 0..Len(files)]
    BY DEF IInv, Types
  <2> QED
    BY <1>3, <2>1 DEF StaysUnlessWithdrawn
<1>4. ASSUME NEW p \in Procs,
             Claim(p) \/ EnableWal(p) \/ CreateTemp(p) \/ Fill(p) \/ Publish(p) \/ Recheck(p)
      PROVE  StaysUnlessWithdrawn
  BY <1>1, <1>2, <1>3, <1>4 DEF Claim, Creatable, EnableWal, CreateTemp, Fill, Publish,
     Publishable, Recheck, fileVars
<1>5. ASSUME NEW p \in Procs,
             \/ \E job \in Jobs : Begin(p, job)
             \/ ReadVersion(p) \/ ApplySchema(p) \/ Busy(p) \/ Inspect(p) \/ Open(p) \/ Commit(p)
             \/ Close(p) \/ Crash(p)
      PROVE  StaysUnlessWithdrawn
  BY <1>1, <1>2, <1>5 DEF Begin, ReadVersion, ApplySchema, Busy, Inspect, Open, Commit, Close,
     Crash, fileVars
<1>6. ASSUME NEW f \in DOMAIN files, Checkpoint(f)
      PROVE  StaysUnlessWithdrawn
  BY <1>1, <1>6 DEF Checkpoint
<1>7. CASE UNCHANGED vars
  BY <1>1, <1>7 DEF vars, fileVars
<1> QED
  BY <1>4, <1>5, <1>6, <1>7 DEF Next

-----------------------------------------------------------------------------
(* Theorems *)

\* What was reported is there whatever is killed and whoever races: the file
\* under a path is complete, an acknowledged write is in it unless an import or
\* backup took the file back, and a memory is found by its card.
THEOREM WritesKept == Spec => []WritesStay
<1>1. IInv => WritesStay
  BY Published, Acked DEF WritesStay
<1> QED
  BY Invariant, <1>1, PTL

\* Whatever was killed, a store nobody uses can be read and initialised again,
\* but for the two cases the properties name.
THEOREM StoresKept == Spec => []StoresUsable
<1>1. IInv => StoresUsable
  BY TypeCorrect, Readers, Rerun DEF StoresUsable
<1> QED
  BY Invariant, <1>1, PTL

\* No process replaces or removes what another one put under a path
\* (create_new, hard_link and cleanup of what was published).
THEOREM FilesKept == Spec => FilesStay
<1>1. IInv /\ [Next]_vars =>
        [\A q \in Paths :
           at[q] # None /\ at'[q] # at[q] =>
             at'[q] = None /\ \E p \in Procs : proc[p].published = at[q]]_vars
  BY StepStays DEF StaysUnlessWithdrawn
<1> QED
  BY Invariant, <1>1, PTL DEF Spec, FilesStay
==============================================================================
