------------------------------ MODULE MCDaemon -------------------------------
(* Two servers of which one must be semantic and rerank, a bridge that must   *)
(* be semantic, and a hook; two memories of one store.  The runs explore from *)
(* three states of the program, each with what it is about left to happen:    *)
(* servers that start and stop around a bridge; a warm server that stops      *)
(* under a bridge and a hook; a warm server that stays while the command line *)
(* writes, forgets and reindexes.                                             *)
EXTENDS Daemon, TLC

CONSTANTS s1, s2, bridge, hook, a, b, home, m1, write, ask, browse

MCHome == [m \in {a, b} |-> home]
MCCallOf == (write :> [op |-> "remember", store |-> home])
         @@ (ask :> [op |-> "search", store |-> home])
         @@ (browse :> [op |-> "documents", store |-> home])
         @@ (hook :> [op |-> "pack", store |-> home])
MCRequires == (s1 :> {"semantic", "rerank"}) @@ (s2 :> {}) @@ (bridge :> {"semantic"})
MCLoadable == {{"embed", "rerank"}, Kinds}
MCFailing == {{}, {"rerank"}, {"embed", "colbert"}}

Warm == [Down EXCEPT !.pc = "serving", !.has = Kinds]
Gone == [Fresh EXCEPT !.stage = "gone", !.via = "daemon"]
Routed == [Fresh EXCEPT !.stage = "idle", !.via = "daemon"]

\* These calls were answered, and the recall of those that found something logged.
Had(calls, found) == /\ outcome = [k \in Calls |-> IF k \in calls THEN "ok" ELSE Unanswered]
              /\ ran = [k \in Calls |-> IF k \in calls THEN 1 ELSE 0]
              /\ logged = [k \in Calls |-> IF k \in found THEN 1 ELSE 0] /\ givenUp = {}

\* An earlier bridge has searched the empty store.
Starting == /\ TokensInit /\ Had({ask}, {})
            /\ server = [s \in Servers |-> Down] /\ sock = NoFile
            /\ caller = (bridge :> Fresh) @@ (hook :> Gone)
            /\ stops = 0 /\ outside = MaxOutside

\* The memory `a` was remembered without a matrix.
Stopping == /\ server = (s1 :> Down) @@ (s2 :> Warm) /\ sock = s2
            /\ caller = (bridge :> Routed) @@ (hook :> Fresh)
            /\ Had({write, browse}, {}) /\ known = {a} /\ live = {a} /\ tokens = {} /\ active = (home :> NoModel)
            /\ cache = [p \in Procs |-> Cold]
            /\ clock = 1 /\ reindex = Idle /\ hasty = {}
            /\ stops = 0 /\ outside = MaxOutside

\* The memory `b` was remembered, found and retired.
Writing == /\ server = (s1 :> Warm) @@ (s2 :> Down) /\ sock = s1
           /\ caller = (bridge :> Routed) @@ (hook :> Fresh)
           /\ Had({ask, browse}, {ask}) /\ known = {b} /\ live = {} /\ tokens = {[mem |-> b, model |-> m1, made |-> 1]}
           /\ active = (home :> m1)
           /\ cache = [[p \in Procs |-> Cold] EXCEPT
                        ![s1] = [key |-> KeyOf(home, m1), rows |-> {b}, of |-> home]]
           /\ clock = 1 /\ reindex = Idle /\ hasty = {}
           /\ stops = MaxStops /\ outside = 0

MCInit == jobs = {} /\ (Starting \/ Stopping \/ Writing)
MCSpec == MCInit /\ [][Next]_vars
=============================================================================
