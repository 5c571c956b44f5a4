----------------------------- MODULE StoreFiles ------------------------------
(***************************************************************************)
(* Stores and archives as files.  Processes create, migrate, write, import,*)
(* export and back up stores under the same paths, step by step, and may   *)
(* be killed between two steps.                                            *)
(*                                                                         *)
(* A store is its main file and the write-ahead log beside it: `disk` is   *)
(* what the main file alone holds, which is all that an inspection with    *)
(* immutable=1 sees, and `live` what a connection sees.  A transaction is  *)
(* one step.  Readers leave no trace and are not processes here.           *)
(***************************************************************************)
EXTENDS Integers, Sequences, FiniteSets

CONSTANTS
  Procs,      \* the processes
  Paths,
  Jobs,       \* what a process may be started for: [op, path, from]
  Stores,     \* the paths that may have a store of schema 5 to begin with
  MaxJobs,    \* bound: the processes started
  MaxCrashes  \* bound: the processes killed

Ops == {"init", "write", "import", "export", "backup"}

ASSUME StoreFilesAssumption ==
  /\ Jobs \subseteq [op : Ops, path : Paths, from : Paths]
  /\ Stores \subseteq Paths /\ IsFiniteSet(Stores) /\ MaxJobs \in Nat /\ MaxCrashes \in Nat

VARIABLES
  files,     \* the files there have ever been
  at,        \* the file under a path, or None
  temps,     \* the files under a hidden temporary name
  hot,       \* the paths beside which a killed process left SQLite's sidecars
  proc,      \* a process: its job, its next step and what it has open
  started,   \* the jobs started so far
  crashes,   \* the processes killed so far
  acked,     \* the writes reported to a caller: [mem, file, path]
  withdrawn, \* the files that the job that published them took back
  cut        \* the new stores whose process was killed between WAL and schema

fileVars == <<files, at, temps, hot>>
history == <<acked, withdrawn, cut>>
vars == <<fileVars, proc, started, crashes, history>>

None == 0
Current == 6
Steps == {"idle", "claim", "wal", "version", "schema", "inspect", "open", "commit", "close",
          "temp", "fill", "publish", "recheck"}

\* What a file holds.  `twice`: the migration was run on what was current.
Content == [sized : BOOLEAN, archive : BOOLEAN, version : {0, 5, Current},
            mems : SUBSET (1..MaxJobs), cards : SUBSET (1..MaxJobs), twice : BOOLEAN]
Empty == [sized |-> FALSE, archive |-> FALSE, version |-> 0, mems |-> {}, cards |-> {},
          twice |-> FALSE]
Bare == [Empty EXCEPT !.sized = TRUE]
StoreOf(version) == [Bare EXCEPT !.version = version]
ArchiveFile == [Bare EXCEPT !.archive = TRUE]

File(content) == [disk |-> content, live |-> content, mode |-> "delete", whole |-> TRUE]
Partial == [File(Empty) EXCEPT !.whole = FALSE]

Idle == [step |-> "idle", job |-> None, id |-> None, file |-> None, temp |-> None,
         source |-> None, published |-> None, seen |-> 0]

Owned == {proc[p].temp : p \in Procs} \ {None}
Path(p) == proc[p].job.path
Users(f) == {p \in Procs : proc[p].file = f}

\* A temporary name is in the hands of a process, or its process was killed.
TypeOK ==
  /\ \A f \in DOMAIN files : /\ files[f].disk \in Content /\ files[f].live \in Content
                             /\ files[f].mode \in {"delete", "wal"}
                             /\ files[f].whole \in BOOLEAN
  /\ at \in [Paths -> 0..Len(files)] /\ temps \subseteq DOMAIN files /\ hot \subseteq Paths
  /\ \A p \in Procs : /\ proc[p].step \in Steps
                      /\ proc[p].step = "idle" <=> proc[p] = Idle
                      /\ proc[p].file \in 0..Len(files)
  /\ Owned \subseteq temps /\ (crashes = 0 => temps = Owned)
  /\ started \in 0..MaxJobs /\ crashes \in 0..MaxCrashes
  /\ withdrawn \subseteq DOMAIN files /\ cut \subseteq DOMAIN files

OldStore == [File(StoreOf(5)) EXCEPT !.mode = "wal"]

\* Every old store is under one path of its own.
Init ==
  /\ files \in {[f \in 1..n |-> OldStore] : n \in 0..Cardinality(Stores)}
  /\ at \in [Paths -> 0..Len(files)]
  /\ \A f \in DOMAIN files : \E q \in Stores : \A r \in Paths : at[r] = f <=> r = q
  /\ temps = {} /\ hot = {}
  /\ proc = [p \in Procs |-> Idle]
  /\ started = 0 /\ crashes = 0
  /\ acked = {} /\ withdrawn = {} /\ cut = {}

-----------------------------------------------------------------------------
(* SQLite *)

\* A log lies beside a store in use; in rollback mode, a journal beside one
\* that is being written.
Sidecar(q) ==
  \/ q \in hot
  \/ /\ at[q] # None
     /\ \E p \in Users(at[q]) : files[at[q]].mode = "wal" \/ proc[p].step = "commit"

\* In rollback mode the main file has what was committed.
Committed(f, content) ==
  files' = [files EXCEPT ![f].live = content,
                         ![f].disk = IF files[f].mode = "wal" THEN @ ELSE content]

Checkpointed(f) == [files EXCEPT ![f].disk = files[f].live]

\* The log is checkpointed as it grows.
Checkpoint(f) ==
  /\ files[f].disk # files[f].live
  /\ Users(f) # {}
  /\ files' = Checkpointed(f)
  /\ UNCHANGED <<at, temps, hot, proc, started, crashes, history>>

-----------------------------------------------------------------------------
(* Inspection *)

\* inspect_opened_store
Kind(content) ==
  CASE content.version = Current -> "compatible"
    [] content.version = 5 -> "older"
    [] content.version = 0 -> "unrecognized"

\* inspect_on_copy copies the main file before the log, which another process
\* may close, and so remove, in between.
Copies(f) == {files[f].live} \cup (IF Users(f) = {} THEN {} ELSE {files[f].disk})

\* Mutant of Inspections: the main file alone decides.
InspectionsImmutable(f) == {Kind(files[f].disk)}

\* inspect_existing_store_immutable, and a copy when it recognises nothing.
Inspections(f) ==
  IF Kind(files[f].disk) # "unrecognized" THEN {Kind(files[f].disk)}
  ELSE {Kind(copy) : copy \in Copies(f)}

\* Mutant of Preflights: an empty file is not told from a foreign one.
PreflightsSized(f) == {copy \in Copies(f) : Kind(copy) # "unrecognized"}

\* preflight_init_path: an empty file, or a store of any version.
Preflights(f) == {copy \in Copies(f) : ~copy.sized \/ Kind(copy) # "unrecognized"}

-----------------------------------------------------------------------------
(* A job and its ends *)

At(p, step) == proc[p].step = step
Go(p, step) == proc' = [proc EXCEPT ![p].step = step]

FirstStep(op) ==
  CASE op = "init" -> "claim" [] op = "write" -> "inspect"
    [] op \in {"import", "export", "backup"} -> "temp"

Begin(p, job) ==
  /\ At(p, "idle") /\ started < MaxJobs
  /\ started' = started + 1
  /\ proc' = [proc EXCEPT ![p] = [Idle EXCEPT !.step = FirstStep(job.op), !.job = job,
                                              !.id = started']]
  /\ UNCHANGED <<fileVars, crashes, history>>

\* A connection is closed: SQLite checkpoints the log for the last one, and
\* removes it.
Closed(p) ==
  LET f == proc[p].file IN
  IF f # None /\ Users(f) = {p} THEN Checkpointed(f) ELSE files

ClosedHot(p) ==
  IF proc[p].file # None /\ Users(proc[p].file) = {p} THEN hot \ {Path(p)} ELSE hot

\* Mutant of TempsLeft: an error leaves the temporary file.
TempsKept(p) == temps

\* cleanup_temp_output
TempsLeft(p) == temps \ {proc[p].temp}

\* The job reports an error.  Import and backup take back what they published,
\* import together with the sidecars.
Fail(p) ==
  /\ proc' = [proc EXCEPT ![p] = Idle]
  /\ temps' = TempsLeft(p)
  /\ files' = Closed(p)
  /\ IF proc[p].published # None
     THEN /\ at' = [at EXCEPT ![Path(p)] = None]
          /\ withdrawn' = withdrawn \cup {proc[p].published}
          /\ hot' = IF proc[p].job.op = "import" THEN hot \ {Path(p)} ELSE hot \cup {Path(p)}
     ELSE hot' = ClosedHot(p) /\ UNCHANGED <<at, withdrawn>>
  /\ UNCHANGED <<started, crashes, acked, cut>>

Close(p) ==
  /\ At(p, "close")
  /\ files' = Closed(p) /\ hot' = ClosedHot(p)
  /\ proc' = [proc EXCEPT ![p] = Idle]
  /\ UNCHANGED <<at, temps, started, crashes, history>>

\* A process is killed: its log stays when no other process has the store open.
Crash(p) ==
  LET f == proc[p].file IN
  /\ crashes < MaxCrashes /\ ~At(p, "idle")
  /\ crashes' = crashes + 1
  /\ proc' = [proc EXCEPT ![p] = Idle]
  /\ hot' = IF f # None /\ at[Path(p)] = f /\ Users(f) = {p} /\ Sidecar(Path(p))
            THEN hot \cup {Path(p)} ELSE hot
  /\ cut' = IF proc[p].step \in {"version", "schema"} /\ files[f].live = Bare
            THEN cut \cup {f} ELSE cut
  /\ UNCHANGED <<files, at, temps, started, acked, withdrawn>>

-----------------------------------------------------------------------------
(* init, on a path of its own or of an import *)

\* Mutant of Creatable: the file is created over what there is.
CreatableAlways(q) == TRUE

\* create_new_private_file
Creatable(q) == at[q] = None

\* claim_or_preflight_init_path
Claim(p) ==
  LET q == Path(p) IN
  /\ At(p, "claim")
  /\ \/ /\ Creatable(q)
        /\ files' = Append(files, File(Empty))
        /\ at' = [at EXCEPT ![q] = Len(files')]
        /\ Go(p, "wal")
        /\ UNCHANGED <<temps, hot, started, crashes, history>>
     \/ /\ at[q] # None /\ Preflights(at[q]) # {}
        /\ Go(p, "wal")
        /\ UNCHANGED <<fileVars, started, crashes, history>>
     \/ /\ at[q] # None /\ Preflights(at[q]) # Copies(at[q])
        /\ Fail(p)

\* Opening the store and enable_wal, which writes the first page of an empty
\* file and needs the store for itself when it changes the mode.
EnableWal(p) ==
  LET f == at[Path(p)] IN
  /\ At(p, "wal")
  /\ \/ /\ f # None /\ ~files[f].live.archive
        /\ files' = [files EXCEPT
             ![f].mode = "wal",
             ![f].live = IF @.sized THEN @ ELSE Bare,
             ![f].disk = IF files[f].live.sized THEN @ ELSE Bare]
        /\ proc' = [proc EXCEPT ![p].step = "version", ![p].file = f]
        /\ UNCHANGED <<at, temps, hot, started, crashes, history>>
     \/ /\ f = None
        /\ files' = Append(files, [File(Bare) EXCEPT !.mode = "wal"])
        /\ at' = [at EXCEPT ![Path(p)] = Len(files')]
        /\ proc' = [proc EXCEPT ![p].step = "version", ![p].file = Len(files')]
        /\ UNCHANGED <<temps, hot, started, crashes, history>>
     \/ /\ f # None
        /\ files[f].live.archive \/ (files[f].mode = "delete" /\ Users(f) # {})
        /\ Fail(p)

\* apply_schema reads the version before it takes the write lock.
ReadVersion(p) ==
  /\ At(p, "version")
  /\ proc' = [proc EXCEPT ![p].step = "schema", ![p].seen = files[proc[p].file].live.version]
  /\ UNCHANGED <<fileVars, started, crashes, history>>

\* Mutant of Migrated: the schema's own version is migrated too.
MigratedAgain(content, seen) ==
  [content EXCEPT !.version = Current, !.cards = {}]

\* apply_feature_schema: the migration fills the full-text table from the
\* summaries, whatever cards have been written since `seen`.
Migrated(content, seen) ==
  IF seen < Current
  THEN [content EXCEPT !.version = Current, !.cards = {},
                       !.twice = @ \/ content.version = Current]
  ELSE [content EXCEPT !.version = Current]

ApplySchema(p) ==
  LET f == proc[p].file IN
  /\ At(p, "schema")
  /\ Committed(f, Migrated(files[f].live, proc[p].seen))
  /\ Go(p, IF proc[p].job.op = "write" THEN "commit" ELSE "close")
  /\ UNCHANGED <<at, temps, hot, started, crashes, history>>

\* Another process holds the write lock for longer than the busy timeout.
Busy(p) ==
  /\ proc[p].step \in {"schema", "commit"}
  /\ \E q \in Users(proc[p].file) \ {p} : proc[q].step \in {"schema", "commit"}
  /\ Fail(p)

-----------------------------------------------------------------------------
(* A write: remember, with a retrieval card *)

\* open_initialized_write
Inspect(p) ==
  LET f == at[Path(p)]
      kinds == IF f = None THEN {"unrecognized"} ELSE Inspections(f) IN
  /\ At(p, "inspect")
  /\ \/ /\ \E kind \in kinds \ {"unrecognized"} :
             proc' = [proc EXCEPT ![p].step = "open",
                                  ![p].seen = IF kind = "older" THEN 5 ELSE Current]
        /\ UNCHANGED <<fileVars, started, crashes, history>>
     \/ /\ "unrecognized" \in kinds
        /\ Fail(p)

Open(p) ==
  LET f == at[Path(p)]
      opens == /\ f # None
               /\ ~files[f].live.archive
               /\ proc[p].seen = Current => files[f].live.version = Current IN
  /\ At(p, "open")
  /\ \/ /\ opens
        /\ proc' = [proc EXCEPT ![p].file = f,
                                ![p].step = IF proc[p].seen < Current THEN "version" ELSE "commit"]
        /\ UNCHANGED <<fileVars, started, crashes, history>>
     \/ /\ ~opens
        /\ Fail(p)

Commit(p) ==
  LET f == proc[p].file
      m == proc[p].id IN
  /\ At(p, "commit")
  /\ Committed(f, [files[f].live EXCEPT !.mems = @ \cup {m}, !.cards = @ \cup {m}])
  /\ acked' = acked \cup {[mem |-> m, file |-> f, path |-> Path(p)]}
  /\ Go(p, "close")
  /\ UNCHANGED <<at, temps, hot, started, crashes, withdrawn, cut>>

-----------------------------------------------------------------------------
(* import, export and backup *)

\* The source of an export or backup is a store that a reader opens.
Readable(f) == f # None /\ "compatible" \in Inspections(f)

\* create_temp_output_file, after the checks of the destination and the source
CreateTemp(p) ==
  LET job == proc[p].job
      fits == /\ at[job.path] = None
              /\ job.op = "import" => ~Sidecar(job.path)
              /\ job.op \in {"export", "backup"} => Readable(at[job.from]) IN
  /\ At(p, "temp")
  /\ \/ /\ fits
        /\ files' = Append(files, Partial)
        /\ temps' = temps \cup {Len(files')}
        /\ proc' = [proc EXCEPT ![p].step = "fill", ![p].temp = Len(files'),
                                ![p].source = at[job.from]]
        /\ UNCHANGED <<at, hot, started, crashes, history>>
     \/ /\ ~fits
        /\ Fail(p)

\* import_store_into_path, write_export_file or backup_to_temp
Output(p) ==
  CASE proc[p].job.op = "import" -> StoreOf(Current)
    [] proc[p].job.op = "export" -> ArchiveFile
    [] proc[p].job.op = "backup" -> files[proc[p].source].live

\* Mutant of Fill: what a failed import had written is published.
FillUnchecked(p) ==
  /\ At(p, "fill")
  /\ Go(p, "publish")
  /\ \/ files' = [files EXCEPT ![proc[p].temp] = File(Output(p))]
     \/ UNCHANGED files
  /\ UNCHANGED <<at, temps, hot, started, crashes, history>>

Fill(p) ==
  /\ At(p, "fill")
  /\ \/ /\ files' = [files EXCEPT ![proc[p].temp] = File(Output(p))]
        /\ Go(p, "publish")
        /\ UNCHANGED <<at, temps, hot, started, crashes, history>>
     \/ /\ proc[p].job.op = "import"   \* the archive is refused
        /\ Fail(p)

\* Mutant of Publishable: the temporary file is renamed over the destination.
PublishableOver(p) == proc[p].job.op \in {"import", "backup"} => ~Sidecar(Path(p))

\* hard_link refuses a name that is taken, and import and backup look for
\* sidecars before.
Publishable(p) ==
  /\ at[Path(p)] = None
  /\ proc[p].job.op \in {"import", "backup"} => ~Sidecar(Path(p))

\* publish_temp_output
Publish(p) ==
  /\ At(p, "publish")
  /\ \/ /\ Publishable(p)
        /\ at' = [at EXCEPT ![Path(p)] = proc[p].temp]
        /\ temps' = TempsLeft(p)
        /\ proc' = [proc EXCEPT ![p] =
             IF proc[p].job.op = "export" THEN Idle
             ELSE [@ EXCEPT !.step = "recheck", !.published = proc[p].temp, !.temp = None]]
        /\ UNCHANGED <<files, hot, started, crashes, history>>
     \/ /\ ~Publishable(p)
        /\ Fail(p)

\* The sidecars again; import then runs init_store on what it published.
Recheck(p) ==
  /\ At(p, "recheck")
  /\ \/ /\ ~Sidecar(Path(p))
        /\ proc' = [proc EXCEPT ![p] = IF proc[p].job.op = "import"
                                       THEN [@ EXCEPT !.step = "claim"] ELSE Idle]
        /\ UNCHANGED <<fileVars, started, crashes, history>>
     \/ /\ Sidecar(Path(p))
        /\ Fail(p)

-----------------------------------------------------------------------------
(* Specification *)

Next ==
  \/ \E p \in Procs :
       \/ \E job \in Jobs : Begin(p, job)
       \/ Claim(p) \/ EnableWal(p) \/ ReadVersion(p) \/ ApplySchema(p) \/ Busy(p)
       \/ Inspect(p) \/ Open(p) \/ Commit(p) \/ Close(p)
       \/ CreateTemp(p) \/ Fill(p) \/ Publish(p) \/ Recheck(p)
       \/ Crash(p)
  \/ \E f \in DOMAIN files : Checkpoint(f)

Spec == Init /\ [][Next]_vars
-----------------------------------------------------------------------------
(* Properties *)

\* No process replaces or removes what another one put under a path: a file
\* leaves its path only when the job that published it fails before it has
\* reported success, and nothing takes its place in that step.
FilesStay ==
  [][\A q \in Paths :
       at[q] # None /\ at'[q] # at[q] =>
         at'[q] = None /\ \E p \in Procs : proc[p].published = at[q]]_vars

\* Whatever is killed and whoever races, a file under a path is complete: an
\* archive, a store that can be opened, or what an init has begun.
PublishedWhole ==
  \A q \in Paths : at[q] # None =>
    LET file == files[at[q]] IN
    file.whole /\ (file.live.version # 0 \/ file.live.archive \/ file.live \in {Empty, Bare})

\* A write that was reported is in the store under its path, killed processes,
\* reruns of init and migrations included, unless the store was still being
\* published and its import or backup took it back.
AcknowledgedStay ==
  \A a \in acked :
    /\ a.mem \in files[a.file].live.mems
    /\ at[a.path] = a.file \/ a.file \in withdrawn

\* A memory is found by its card, unless its store was migrated again by a
\* process that had read the version before the first migration committed.
CardsServed ==
  \A f \in DOMAIN files :
    LET store == files[f].live IN store.mems = store.cards \/ store.twice

\* No process works on the path.
Quiet(q) == \A p \in Procs : At(p, "idle") \/ Path(p) # q

\* A store that nobody has open can be opened for reading, whatever was killed
\* before, except that a migration which only the log holds keeps readers out.
QuietStoresReadable ==
  \A q \in Paths :
    LET f == at[q] IN
    Quiet(q) /\ f # None /\ files[f].live.version = Current =>
      Readable(f) \/ (files[f].disk.version = 5 /\ q \in hot)

\* "`init` is safe to rerun" (README.md:90): on every path where an init or an
\* import was killed, a migration of an older store included, but for one: a new
\* store whose init was killed after it switched the journal mode and before it
\* committed the schema.
InitRerunnable ==
  \A q \in Paths :
    LET f == at[q] IN
    Quiet(q) /\ f # None /\ ~files[f].live.archive => Preflights(f) # {} \/ f \in cut

\* What was reported is there: whole, in the store under its path, and found.
WritesStay == PublishedWhole /\ AcknowledgedStay /\ CardsServed

\* Whatever was killed, a store nobody uses can be read and initialised again.
StoresUsable == TypeOK /\ QuietStoresReadable /\ InitRerunnable
=============================================================================
