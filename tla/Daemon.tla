------------------------------- MODULE Daemon --------------------------------
(***************************************************************************)
(* The socket daemon and its callers: servers that are started and stopped *)
(* under one socket path, MCP bridges that route to the daemon or load the *)
(* models themselves, and session hooks that ask for a pack and log what   *)
(* they injected.  A request is executed on a thread of its own, so what   *)
(* the caller gave up waiting for may still be done.  A model that is      *)
(* loaded may fail on a request, which goes on without it or is refused.   *)
(*                                                                         *)
(* Of the store a request sees the token matrices (TokenMatrices) and the  *)
(* recall log.                                                             *)
(***************************************************************************)
EXTENDS TokenMatrices

CONSTANTS
  Servers,   \* the processes started with `serve --socket`
  Bridges,   \* the MCP processes
  Hooks,     \* the processes of the session hook
  Calls,     \* the tool calls of an agent
  CallOf,    \* a call: [op, store]
  Loadable,  \* the sets of models a process may find
  Failing,   \* bound: the sets of models that fail on one request
  Requires,  \* what the environment of a process requires
  Late,      \* the processes with MEMKEEPER_LATE_INTERACTION
  Encoder,   \* the token model they are configured with
  MaxStops,  \* bound: the servers stopped
  MaxOutside \* bound: the commands and ticks beside the callers

Callers == Bridges \cup Hooks
Kinds == {"embed", "rerank", "colbert"}
Queries == {"search", "pack", "documents"}
Ops == {"remember"} \cup Queries
NoFile == "nofile"

ASSUME DaemonAssumption ==
  /\ Procs = Servers \cup Bridges
  /\ NoFile \notin Servers /\ Servers \cap Callers = {} /\ Bridges \cap Hooks = {} /\ Hooks \subseteq Calls
  /\ "none" \notin Callers \cup Calls
  /\ CallOf \in [Calls -> [op : Ops, store : Stores]]
  /\ Loadable \subseteq SUBSET Kinds /\ Failing \subseteq SUBSET Kinds
  /\ Requires \in [Procs -> SUBSET {"semantic", "rerank"}]
  /\ Late \subseteq Procs /\ Encoder \in Models /\ MaxStops \in Nat
  /\ MaxOutside \in Nat

VARIABLES
  server,   \* a server: its step, its models and who bound since it probed
  sock,     \* whose socket file is under the path, or NoFile
  caller,   \* a caller: its route, its models, the stage of its call
  jobs,     \* the requests at a process, those nobody waits for included
  stops,
  outside,  \* the commands and ticks so far
  outcome,  \* how a call was answered
  ran,      \* how often a call was executed
  logged,   \* how often its recall was logged
  givenUp   \* the calls with a log that its caller gave up

procVars == <<server, sock, caller, jobs, stops>>
history == <<outcome, ran, logged, givenUp>>
vars == <<tokenVars, outside, procVars, history>>

Unanswered == "unanswered"
Down == [pc |-> "down", has |-> {}, missed |-> {}]
Fresh == [via |-> "none", has |-> {}, stage |-> "new", sent |-> FALSE, call |-> "none"]

TypeOK ==
  /\ TokensTypeOK
  /\ \A s \in Servers : /\ server[s].pc \in {"down", "loaded", "probed", "cleared", "serving"}
                        /\ server[s].has \subseteq Kinds /\ server[s].missed \subseteq Servers
  /\ sock \in Servers \cup {NoFile}
  /\ \A c \in Callers : /\ caller[c].via \in {"none", "daemon", "local"}
                        /\ caller[c].stage \in {"new", "idle", "call", "log", "legacy", "gone"}
                        /\ caller[c].call \in Calls \cup {"none"}
                        /\ caller[c].sent => caller[c].call # "none"
  /\ \A j \in jobs : /\ j.by \in Callers /\ j.at \in Procs /\ j.call \in Calls
                     /\ j.step \in {"todo", "keyed", "done"} /\ j.ok \in BOOLEAN
                     /\ j.used \subseteq Kinds
  /\ outcome \in [Calls -> {Unanswered, "ok", "failed"}]
  /\ ran \in [Calls -> Nat] /\ logged \in [Calls -> Nat]

HistoryInit ==
  /\ outcome = [k \in Calls |-> Unanswered]
  /\ ran = [k \in Calls |-> 0] /\ logged = [k \in Calls |-> 0] /\ givenUp = {}

Init ==
  /\ TokensInit
  /\ server = [s \in Servers |-> Down] /\ sock = NoFile
  /\ caller = [c \in Callers |-> Fresh]
  /\ jobs = {} /\ stops = 0 /\ outside = 0
  /\ HistoryInit

Serving(s) == server[s].pc = "serving"
\* The models a process has loaded.
Has(p) == IF p \in Servers THEN server[p].has ELSE caller[p].has
Reachable == sock # NoFile /\ Serving(sock)

-----------------------------------------------------------------------------
(* Starting a server.                                                        *)

\* The models a process has: ColBERT is only loaded by who asked for it.
Found(p, models) == {k \in models : k = "colbert" => p \in Late}

\* serve_semantic_models_or_refuse, run_serve: what a process may run with.
GuardsPass(p, has) ==
  /\ "semantic" \in Requires[p] => "embed" \in has
  /\ "rerank" \in Requires[p] => "rerank" \in has
  /\ "semantic" \in Requires[p] /\ p \in Late => "colbert" \in has

Load(s) ==
  /\ server[s].pc = "down"
  /\ \E models \in Loadable :
       LET has == Found(s, models)
       IN  GuardsPass(s, has)
           /\ server' = [server EXCEPT ![s] = [Down EXCEPT !.pc = "loaded", !.has = has]]
  /\ UNCHANGED <<tokenVars, outside, sock, caller, jobs, stops, history>>

\* Mutant: the socket file is taken for stale unseen.
ProbeUnseen(s) ==
  /\ server[s].pc = "loaded"
  /\ server' = [server EXCEPT ![s].pc = "probed"]
  /\ UNCHANGED <<tokenVars, outside, sock, caller, jobs, stops, history>>

\* run_serve_socket: "Refuse to clobber a live server; remove only a stale
\* socket file."  Connecting, removing and binding are three steps.
Probe(s) ==
  /\ server[s].pc = "loaded"
  /\ server' = [server EXCEPT ![s] = IF Reachable THEN Down ELSE [@ EXCEPT !.pc = "probed"]]
  /\ UNCHANGED <<tokenVars, outside, sock, caller, jobs, stops, history>>

Remove(s) ==
  /\ server[s].pc = "probed"
  /\ server' = [server EXCEPT ![s].pc = "cleared"]
  /\ sock' = NoFile
  /\ UNCHANGED <<tokenVars, outside, caller, jobs, stops, history>>

Bind(s) ==
  /\ server[s].pc = "cleared"
  /\ IF sock = NoFile
     THEN /\ sock' = s
          /\ server' = [t \in Servers |->
               CASE t = s -> [server[s] EXCEPT !.pc = "serving", !.missed = {}]
                 [] server[t].pc \in {"probed", "cleared"} -> [server[t] EXCEPT !.missed = @ \cup {s}]
                 [] OTHER -> server[t]]
     ELSE sock' = sock /\ server' = [server EXCEPT ![s] = Down]
  /\ UNCHANGED <<tokenVars, outside, caller, jobs, stops, history>>

\* A stopped server leaves its socket file and takes its threads and its
\* token matrices with it.
Stop(s) ==
  /\ server[s].pc # "down" /\ stops < MaxStops
  /\ stops' = stops + 1
  /\ server' = [server EXCEPT ![s] = Down]
  /\ jobs' = {j \in jobs : j.at # s}
  /\ cache' = [cache EXCEPT ![s] = Cold]
  /\ UNCHANGED <<outside, rowVars, clock, reindex, hasty, sock, caller, history>>

-----------------------------------------------------------------------------
(* Callers.                                                                  *)

\* run_mcp: the route is chosen once; only a bridge that loads the models
\* itself applies the guards.
StartBridge(c) ==
  /\ caller[c].stage = "new"
  /\ IF Reachable
     THEN caller' = [caller EXCEPT ![c] = [@ EXCEPT !.stage = "idle", !.via = "daemon"]]
     ELSE \E models \in Loadable :
            LET has == Found(c, models)
            IN  GuardsPass(c, has)
                /\ caller' = [caller EXCEPT ![c] = [@ EXCEPT !.stage = "idle", !.via = "local", !.has = has]]
  /\ UNCHANGED <<tokenVars, outside, server, sock, jobs, stops, history>>

\* handle_tools_call.  Each call is made once.
Ask(c, k) ==
  /\ c \in Bridges /\ caller[c].stage = "idle"
  /\ k \notin Hooks /\ outcome[k] = Unanswered /\ \A b \in Callers : caller[b].call # k
  /\ caller' = [caller EXCEPT ![c] = [@ EXCEPT !.stage = "call", !.call = k]]
  /\ UNCHANGED <<tokenVars, outside, server, sock, jobs, stops, history>>

\* run_hook_retrieve
StartHook(c) ==
  /\ c \in Hooks /\ caller[c].stage = "new"
  /\ caller' = [caller EXCEPT ![c] = [@ EXCEPT !.stage = "call", !.via = "daemon", !.call = c]]
  /\ UNCHANGED <<tokenVars, outside, server, sock, jobs, stops, history>>

\* Mutants: a failed call is sent again; a log always is.
AfterRetrying(c, stage, ok, hits) ==
  CASE stage = "call" -> IF ~ok THEN "call" ELSE IF hits THEN "log" ELSE "idle"
    [] stage = "log" -> IF c \in Bridges THEN "idle" ELSE IF ok THEN "gone" ELSE "legacy"
    [] OTHER -> "gone"
AfterTwice(c, stage, ok, hits) ==
  CASE stage = "call" -> IF ok /\ hits THEN "log" ELSE IF c \in Hooks THEN "gone" ELSE "idle"
    [] stage = "log" -> IF c \in Bridges THEN "idle" ELSE "legacy"
    [] OTHER -> "gone"

\* Where a caller goes from a stage that ended well or not: record_mcp_recall
\* logs what a search surfaced; the hook logs what it injected, and once more
\* as an older server understands it.
After(c, stage, ok, hits) ==
  CASE stage = "call" -> IF ok /\ hits THEN "log" ELSE IF c \in Hooks THEN "gone" ELSE "idle"
    [] stage = "log" -> IF c \in Bridges THEN "idle" ELSE IF ok THEN "gone" ELSE "legacy"
    [] OTHER -> "gone"

\* Mutant: the connection is taken for open when the next stage begins.
EndOpen(c, ok, hits) ==
  LET stage == caller[c].stage
      k == caller[c].call
      next == After(c, stage, ok, hits)
  IN  /\ caller' = [caller EXCEPT ![c] = [@ EXCEPT !.stage = next,
                      !.call = IF next \in {"idle", "gone"} THEN "none" ELSE k]]
      /\ outcome' = IF stage # "call" THEN outcome
                    ELSE [outcome EXCEPT ![k] = IF ok THEN "ok" ELSE "failed"]

\* The end of a stage; what the agent is told was settled by the call alone.
End(c, ok, hits) ==
  LET stage == caller[c].stage
      k == caller[c].call
      next == After(c, stage, ok, hits)
  IN  /\ caller' = [caller EXCEPT ![c] = [@ EXCEPT !.stage = next, !.sent = FALSE,
                      !.call = IF next \in {"idle", "gone"} THEN "none" ELSE k]]
      /\ outcome' = IF stage # "call" THEN outcome
                    ELSE [outcome EXCEPT ![k] = IF ok THEN "ok" ELSE "failed"]

Job(c, p) == [by |-> c, at |-> p, call |-> caller[c].call, stage |-> caller[c].stage,
              step |-> "todo", ok |-> FALSE, used |-> {}, key |-> Cold.key, seen |-> {}, eligible |-> {}]

\* dispatch_serve, hook_unix_request: connect and write the request.
Send(c) ==
  /\ caller[c].stage \in {"call", "log", "legacy"} /\ ~caller[c].sent
  /\ IF caller[c].via = "local" \/ Reachable
     THEN /\ jobs' = jobs \cup {Job(c, IF caller[c].via = "local" THEN c ELSE sock)}
          /\ caller' = [caller EXCEPT ![c].sent = TRUE]
          /\ UNCHANGED outcome
     ELSE End(c, FALSE, FALSE) /\ UNCHANGED jobs
  /\ UNCHANGED <<tokenVars, outside, server, sock, stops, ran, logged, givenUp>>

Waits(c, j) == /\ j.by = c /\ caller[c].sent
               /\ j.call = caller[c].call /\ j.stage = caller[c].stage

\* The read timeout: 30 s of a bridge, 2.5 s and 500 ms of a hook.  A request
\* in the same process has none.
Timeout(c) ==
  /\ caller[c].sent /\ caller[c].via = "daemon"
  /\ End(c, FALSE, FALSE)
  /\ givenUp' = givenUp \cup {k \in {caller[c].call} : caller[c].stage = "log"}
  /\ UNCHANGED <<tokenVars, outside, server, sock, jobs, stops, ran, logged>>

\* The server went away: the connection ends without a response.
Disconnect(c) ==
  /\ caller[c].sent /\ ~\E j \in jobs : Waits(c, j)
  /\ End(c, FALSE, FALSE)
  /\ givenUp' = givenUp \cup {k \in {caller[c].call} : caller[c].stage = "log"}
  /\ UNCHANGED <<tokenVars, outside, server, sock, jobs, stops, ran, logged>>

-----------------------------------------------------------------------------
(* Executing a request, on a thread of the process it is at.                 *)

Becomes(j, new) == jobs' = (jobs \ {j}) \cup {new}
Done(j, ok) == [j EXCEPT !.step = "done", !.ok = ok]
\* Nobody reads the response of a request that was given up.
Finish(j, done) == jobs' = (jobs \ {j}) \cup {q \in {done} : Waits(j.by, j)}
OpOf(j) == IF j.stage = "call" THEN CallOf[j.call].op ELSE "log"
Runs(j, op) == j.step = "todo" /\ OpOf(j) = op

\* The store is busy, the request invalid or not admitted: nothing is changed.
Fail(j) ==
  /\ j.step = "todo"
  /\ Finish(j, Done(j, FALSE))
  /\ UNCHANGED <<tokenVars, outside, server, sock, caller, stops, history>>

\* What a request runs on where the models `failed` fail: with its query encoded
\* for late interaction a pack does without the embedding, and a search of the
\* documents knows nothing else.
Used(j, failed) ==
  LET able == Has(j.at) \ failed
  IN  CASE OpOf(j) = "documents" -> able \cap {"embed"}
        [] OpOf(j) = "pack" /\ "colbert" \in able -> able \ {"embed"}
        [] OTHER -> able

\* must_refuse_search_without_semantic, require_primary_reranker: what is
\* required and asked for here.  Only a search insists on its embedding.
Admits(j, used) ==
  /\ OpOf(j) = "search" /\ "semantic" \in Requires[j.at] => "embed" \in used
  /\ OpOf(j) \in {"search", "pack"} /\ "rerank" \in Requires[j.at] => "rerank" \in Has(j.at)

\* execute_pack_request: no other order will do where the reranker is required.
\* A search whose reranker fails keeps the plain order.
Ordered(j) ==
  OpOf(j) = "pack" /\ "rerank" \in Requires[j.at] /\ j.eligible # {} => "rerank" \in j.used

\* `read` is the request as it has come, read from the store included.
Conclude(j, read) ==
  /\ Finish(j, Done(read, Ordered(read)))
  /\ ran' = [ran EXCEPT ![j.call] = IF Ordered(read) THEN @ + 1 ELSE @]

\* A memory is stored with a matrix if the encoder is loaded and does not fail.
ExecuteRemember(j) ==
  /\ Runs(j, "remember")
  /\ \E m \in Mems, failed \in Failing :
       LET model == IF "colbert" \in Used(j, failed) THEN Encoder ELSE NoModel
       IN  /\ Home[m] = CallOf[j.call].store /\ RememberFits(m, model)
           /\ Remember(m, model)
  /\ Finish(j, Done(j, TRUE))
  /\ ran' = [ran EXCEPT ![j.call] = @ + 1]
  /\ UNCHANGED <<outside, clock, cache, reindex, hasty, server, sock, caller, stops, outcome, logged, givenUp>>

\* execute_search, execute_pack_request, search_documents: a query reads what is
\* eligible and, with its own tokens encoded, the key of the matrices, which
\* come from the cache or the store.
ReadKey(j) ==
  LET store == CallOf[j.call].store
      op == OpOf(j)
      eligible == IF op = "documents" THEN {} ELSE LiveIn(store)
  IN  /\ j.step = "todo" /\ op \in Queries
      /\ \E failed \in Failing :
           LET used == Used(j, failed)
               read == [j EXCEPT !.used = used, !.eligible = eligible]
           IN  /\ Admits(j, used)
               /\ IF "colbert" \in used
                  THEN /\ Becomes(j, [read EXCEPT !.step = "keyed", !.seen = RowsBy(store, Encoder),
                                                  !.key = KeyOf(store, Encoder)])
                       /\ UNCHANGED ran
                  ELSE Conclude(j, read)
      /\ UNCHANGED <<tokenVars, outside, server, sock, caller, stops, outcome, logged, givenUp>>

Score(j) ==
  /\ j.step = "keyed"
  /\ TakeRows(j.at, CallOf[j.call].store, j.key)
  /\ Conclude(j, j)
  /\ UNCHANGED <<outside, rowVars, clock, reindex, hasty, server, sock, caller, stops, outcome, logged, givenUp>>

ExecuteLog(j) ==
  /\ Runs(j, "log")
  /\ Finish(j, Done(j, TRUE))
  /\ logged' = [logged EXCEPT ![j.call] = @ + 1]
  /\ UNCHANGED <<tokenVars, outside, server, sock, caller, stops, outcome, ran, givenUp>>

\* What is logged: what a bridge's search surfaced, what a hook injected.
Recalls(j) == j.eligible # {} /\ (OpOf(j) = "search" \/ j.by \in Hooks)

\* The response, if its caller still reads.
Answer(j) ==
  /\ j.step = "done"
  /\ jobs' = jobs \ {j}
  /\ IF Waits(j.by, j) THEN End(j.by, j.ok, Recalls(j))
     ELSE UNCHANGED <<caller, outcome>>
  /\ UNCHANGED <<tokenVars, outside, server, sock, stops, ran, logged, givenUp>>

Work(j) ==
  Fail(j) \/ ExecuteRemember(j) \/ ReadKey(j) \/ Score(j) \/ ExecuteLog(j) \/ Answer(j)

\* `memkeeper` on the command line, and the clock.
Outside ==
  /\ outside < MaxOutside /\ outside' = outside + 1
  /\ \/ \E m \in Mems : RememberPlain(m) \/ Forget(m)
     \/ \E s \in Stores, model \in Models, force \in BOOLEAN : Collect(s, model, force)
     \/ Apply
     \/ Tick
  /\ UNCHANGED <<procVars, history>>

Next ==
  \/ \E s \in Servers : Load(s) \/ Probe(s) \/ Remove(s) \/ Bind(s) \/ Stop(s)
  \/ \E c \in Bridges : StartBridge(c) \/ \E k \in Calls : Ask(c, k)
  \/ \E c \in Hooks : StartHook(c)
  \/ \E c \in Callers : Send(c) \/ Timeout(c) \/ Disconnect(c)
  \/ \E j \in jobs : Work(j)
  \/ Outside

Spec == Init /\ [][Next]_vars

-----------------------------------------------------------------------------
(* Safety.                                                                   *)

\* "Set MEMKEEPER_REQUIRE_SEMANTIC=1 to fail closed instead - refuse the request
\* rather than serve degraded results" (src/README.md:198): what a process that
\* requires it answers was found by an embedding or by late interaction.  The
\* code keeps this for a search of the memories and for nothing else: a model
\* that fails on a pack or on a search of the documents is logged and left out.
NeverLexicalOnly ==
  \A j \in jobs :
    j.step = "done" /\ j.ok /\ j.eligible # {} /\ "semantic" \in Requires[j.at]
      => j.used \cap {"embed", "colbert"} # {}

\* "Refuse to clobber a live server" (serve.rs:417): a serving server loses its
\* socket file only to a server that had looked before this one was bound.
ClobberOnlyInRace ==
  [][\A s \in Servers :
       (Serving(s) /\ sock = s /\ sock' # s /\ server'[s].pc = "serving")
         => \E t \in Servers : server[t].pc = "probed" /\ s \in server[t].missed]_vars

\* A call that was answered well was executed exactly once; one that failed,
\* timed out or lost its server may have been executed, and never twice: only
\* the hook's log is ever sent again.
ExecutedAtMostOnce ==
  \A k \in Calls : /\ ran[k] <= 1
                   /\ outcome[k] = "ok" => ran[k] = 1

\* Recall is logged only for what an agent was shown, and once, unless a hook
\* gave its first log up and the server did it all the same.
RecallLoggedOnce ==
  \A k \in Calls :
    /\ logged[k] > 0 => outcome[k] = "ok"
    /\ logged[k] <= IF k \in givenUp /\ k \in Hooks THEN 2 ELSE 1

\* Late interaction scores what the store has, although the copy a process
\* keeps is looked up by a count and a second and other processes write.
CacheFollowsStore ==
  [][\A j \in jobs :
       (j.step = "keyed" /\ j \notin jobs' /\ cache'[j.at] # Cold)
         => Answers(cache'[j.at], CallOf[j.call].store, j.eligible, j.seen)]_vars

\* What callers rely on: nothing is executed twice, and recall is logged once for
\* what was shown.
CallsSound == TypeOK /\ ExecutedAtMostOnce /\ RecallLoggedOnce
=============================================================================
