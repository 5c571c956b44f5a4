---------------------------- MODULE MCMemoryStore ----------------------------
(* Two families of behaviours of one store.  Writers: three memories in two   *)
(* spaces, written with whatever a request can say.  Dream: two memories of   *)
(* one space with TTLs and recalls, the clock, and a nightly job that must    *)
(* get through them with a budget of one.                                     *)
EXTENDS MemoryStore

CONSTANT s1   \* a space

VARIABLE family

mcVars == <<vars, family>>

\* Without a TTL, so that dream has nothing to end.
WriterRequests ==
  [space : Spaces, key : Keys, kind : Kinds, observed : ObservedTimes, expires : {Never},
   pinned : Pins, silo : {Durable}, mode : Modes \ {"append"},
   supersedes : References(MaxSupersedes), contradicts : References(MaxContradicts)]

\* The spaces are interchangeable: the first memory is one of s1.
Writers ==
  \/ /\ count < MaxMemories
     /\ \E r \in WriterRequests : \E window \in ClaimWindows(r) :
          (count = 0 => r.space = s1) /\ Remember(r, window)
  \/ \E i \in Ids : Forget(i)
  \/ \E i \in Ids : \E c \in Corrections(i) : Correct(i, c)

\* Corrections are left to the writers.
DreamRequests ==
  [space : {s1}, key : Keys, kind : {"fact"}, observed : {0}, expires : ExpiryTimes,
   pinned : Pins, silo : Silos, mode : {"append"}, supersedes : {{}}, contradicts : {{}}]
DreamScopes == {scope \in Scopes : scope.space \in {s1, AllSpaces}}

Dreams ==
  \/ /\ count < 2
     /\ \E r \in DreamRequests : \E window \in ClaimWindows(r) : Remember(r, window)
  \/ \E i \in Ids : Forget(i)
  \/ \E i \in Ids, s \in Sessions : RecordRecall(i, s)
  \/ \E tasks \in DreamTaskSets, scope \in DreamScopes, includePinned \in BOOLEAN :
       Dream(tasks, scope, includePinned)
  \/ Tick

MCInit == Init /\ family \in {"writers", "dream"}
MCNext ==
  /\ UNCHANGED family
  /\ \/ family = "writers" /\ Writers
     \/ family = "dream" /\ Dreams
MCSpec ==
  MCInit /\ [][MCNext]_mcVars
    /\ WF_mcVars(family = "dream" /\ NightlyDream /\ UNCHANGED family)
=============================================================================
