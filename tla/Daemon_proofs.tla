---------------------------- MODULE Daemon_proofs -----------------------------
(* Proofs about the daemon, for every number of servers, bridges, hooks,      *)
(* calls and memories: the socket file of a serving server is only ever taken *)
(* in the race of two starts, and the rows of a store are of one model.       *)
EXTENDS Daemon, FiniteSetTheorems, WellFoundedInduction, TLAPS

-----------------------------------------------------------------------------
(* The socket.  Who has probed and not yet removed the file has noted every   *)
(* server bound since: as it found nobody, whoever is reachable is among them.*)

ServerType ==
  server \in [Servers -> [pc : {"down", "loaded", "probed", "cleared", "serving"},
                          has : SUBSET Kinds, missed : SUBSET Servers]]

ProbedKnow ==
  \A t \in Servers : server[t].pc = "probed" /\ Reachable => sock \in server[t].missed

SocketInv == ServerType /\ sock \in Servers \cup {NoFile} /\ ProbedKnow

\* The servers and the socket change in the five steps of a server only.
ServerStep == \E s \in Servers : Load(s) \/ Probe(s) \/ Remove(s) \/ Bind(s) \/ Stop(s)

LEMMA OnlyServersMove ==
  ASSUME [Next]_vars, ~ServerStep
  PROVE  UNCHANGED <<server, sock>>
<1>1. CASE UNCHANGED vars
  BY <1>1 DEF vars, procVars
<1>2. CASE \E c \in Bridges : StartBridge(c) \/ \E k \in Calls : Ask(c, k)
  BY <1>2 DEF StartBridge, Ask
<1>3. CASE \E c \in Hooks : StartHook(c)
  BY <1>3 DEF StartHook
<1>4. CASE \E c \in Callers : Send(c) \/ Timeout(c) \/ Disconnect(c)
  BY <1>4 DEF Send, Timeout, Disconnect
<1>5. CASE \E j \in jobs : Work(j)
  BY <1>5 DEF Work, Fail, ExecuteRemember, ReadKey, Score, ExecuteLog, Answer
<1>6. CASE Outside
  BY <1>6 DEF Outside, procVars
<1>7. QED
  BY <1>1, <1>2, <1>3, <1>4, <1>5, <1>6 DEF Next, ServerStep

LEMMA SocketInit == Init => SocketInv
<1>1. ASSUME Init PROVE SocketInv
  <2>1. ServerType
    BY <1>1 DEF Init, ServerType, Down
  <2>2. QED
    BY <1>1, <2>1 DEF Init, SocketInv, ProbedKnow, Down
<1>2. QED
  BY <1>1

LEMMA SocketStep ==
  ASSUME SocketInv, [Next]_vars
  PROVE  SocketInv'
<1> USE DEF SocketInv
<1>1. ASSUME NEW s \in Servers, Load(s) PROVE SocketInv'
  <2>1. PICK models \in Loadable :
          server' = [server EXCEPT ![s] = [Down EXCEPT !.pc = "loaded", !.has = Found(s, models)]]
    BY <1>1 DEF Load
  <2>2. Found(s, models) \subseteq Kinds
    BY DaemonAssumption DEF Found
  <2>3. ServerType' /\ sock' = sock
    BY <1>1, <2>1, <2>2 DEF Load, ServerType, Down
  <2>4. ProbedKnow'
    BY <2>1, <2>3 DEF ProbedKnow, Reachable, Serving, ServerType, Down
  <2>5. QED
    BY <2>3, <2>4
<1>2. ASSUME NEW s \in Servers, Probe(s) PROVE SocketInv'
  <2>1. ServerType' /\ sock' = sock
    BY <1>2 DEF Probe, ServerType, Down
  <2>2. ProbedKnow'
    BY <1>2, <2>1 DEF Probe, ProbedKnow, Reachable, Serving, ServerType, Down
  <2>3. QED
    BY <2>1, <2>2
<1>3. ASSUME NEW s \in Servers, Remove(s) PROVE SocketInv'
  <2>1. ServerType' /\ sock' = NoFile
    BY <1>3 DEF Remove, ServerType
  <2>2. QED
    BY <2>1 DEF ProbedKnow, Reachable
<1>4. ASSUME NEW s \in Servers, Bind(s) PROVE SocketInv'
  <2>1. CASE sock = NoFile
    <3>1. ServerType' /\ sock' = s
      BY <1>4, <2>1 DEF Bind, ServerType
    <3>2. ASSUME NEW t \in Servers, server'[t].pc = "probed" PROVE s \in server'[t].missed
      BY <1>4, <2>1, <3>2 DEF Bind, ServerType
    <3>3. QED
      BY <3>1, <3>2 DEF ProbedKnow
  <2>2. CASE sock # NoFile
    <3>1. ServerType' /\ sock' = sock
      BY <1>4, <2>2 DEF Bind, ServerType, Down
    <3>2. ProbedKnow'
      BY <1>4, <2>2, <3>1 DEF Bind, ProbedKnow, Reachable, Serving, ServerType, Down
    <3>3. QED
      BY <3>1, <3>2
  <2>3. QED
    BY <2>1, <2>2
<1>5. ASSUME NEW s \in Servers, Stop(s) PROVE SocketInv'
  <2>1. ServerType' /\ sock' = sock
    BY <1>5 DEF Stop, ServerType, Down
  <2>2. ProbedKnow'
    BY <1>5, <2>1 DEF Stop, ProbedKnow, Reachable, Serving, ServerType, Down
  <2>3. QED
    BY <2>1, <2>2
<1>6. CASE ~ServerStep
  BY <1>6, OnlyServersMove DEF ServerType, ProbedKnow, Reachable, Serving
<1>7. QED
  BY <1>1, <1>2, <1>3, <1>4, <1>5, <1>6 DEF ServerStep

\* A step that takes the socket file from a server which serves on is the
\* removal by one that had probed before that server was bound.
LEMMA ClobberStep ==
  ASSUME SocketInv, [Next]_vars,
         NEW s \in Servers, Serving(s), sock = s, sock' # s, server'[s].pc = "serving"
  PROVE  \E t \in Servers : server[t].pc = "probed" /\ s \in server[t].missed
<1>1. ServerStep
  BY OnlyServersMove
<1>2. PICK t \in Servers : Load(t) \/ Probe(t) \/ Remove(t) \/ Bind(t) \/ Stop(t)
  BY <1>1 DEF ServerStep
<1>3. s # NoFile
  BY DaemonAssumption
<1>4. Remove(t) \/ Bind(t)
  BY <1>2 DEF Load, Probe, Stop
<1>5. CASE Bind(t)
  BY <1>3, <1>5 DEF Bind
<1>6. CASE Remove(t)
  <2>1. server[t].pc = "probed"
    BY <1>6 DEF Remove
  <2>2. QED
    BY <1>3, <2>1 DEF SocketInv, ProbedKnow, Reachable
<1>7. QED
  BY <1>4, <1>5, <1>6

\* "Refuse to clobber a live server": however many servers are started under
\* one path, a serving one loses its file only to a start that had looked
\* before it was bound.
THEOREM ClobbersOnlyInRace == Spec => ClobberOnlyInRace
<1>1. Init => SocketInv
  BY SocketInit
<1>2. SocketInv /\ [Next]_vars => SocketInv'
  BY SocketStep
<1>3. SocketInv /\ [Next]_vars =>
        [\A s \in Servers :
           (Serving(s) /\ sock = s /\ sock' # s /\ server'[s].pc = "serving")
             => \E t \in Servers : server[t].pc = "probed" /\ s \in server[t].missed]_vars
  BY ClobberStep
<1>4. QED
  BY <1>1, <1>2, <1>3, PTL DEF Spec, ClobberOnlyInRace

-----------------------------------------------------------------------------
(* The rows.  They change with a memory that is remembered with a matrix and *)
(* with a backfill that is applied; both leave every row of a store with the *)
(* model that the store is bound to.                                         *)

StageType == {"new", "idle", "call", "log", "legacy", "gone"}
Asking == {"call", "log", "legacy"}
CallerType == [via : {"none", "daemon", "local"}, has : SUBSET Kinds, stage : StageType,
               sent : BOOLEAN, call : Calls \cup {"none"}]
Sound(r) == /\ r \in CallerType
            /\ r.stage \in Asking => r.call \in Calls
            /\ r.sent => r.stage \in Asking

\* A caller that is asking has a call, and so has every request.
CallersInv ==
  /\ caller \in [Callers -> CallerType]
  /\ \A c \in Callers : Sound(caller[c])

RequestsInv == \A j \in jobs : /\ DOMAIN j = DOMAIN Job(j.by, j.at)
                               /\ j.by \in Callers /\ j.call \in Calls

RowsType ==
  /\ active \in [Stores -> Models \cup {NoModel}]
  /\ tokens \subseteq Rows /\ live \subseteq Mems
  /\ clock \in 1..MaxClock

\* What a backfill under way was collected for.
ReindexType ==
  reindex # Idle => /\ reindex.store \in Stores /\ reindex.model \in Models
                    /\ reindex.targets \subseteq Mems
                    /\ \A m \in reindex.targets : Home[m] = reindex.store

RowsInv == RowsType /\ ReindexType /\ OneTokenModel

LEMMA CallerUpdate ==
  ASSUME CallersInv, NEW c \in Callers, NEW r, Sound(r), caller' = [caller EXCEPT ![c] = r]
  PROVE  CallersInv'
<1>1. caller' \in [Callers -> CallerType]
  BY DEF CallersInv, Sound
<1>2. ASSUME NEW d \in Callers PROVE Sound(caller'[d])
  BY <1>2, caller'[d] = IF d = c THEN r ELSE caller[d] DEF CallersInv
<1>3. QED
  BY <1>1, <1>2 DEF CallersInv, Sound, CallerType

LEMMA EndKeepsCallers ==
  ASSUME CallersInv, NEW c \in Callers, caller[c].stage \in Asking,
         NEW ok, NEW hits, End(c, ok, hits)
  PROVE  CallersInv'
<1> DEFINE next == After(c, caller[c].stage, ok, hits)
           call == IF next \in {"idle", "gone"} THEN "none" ELSE caller[c].call
           r == [caller[c] EXCEPT !.stage = next, !.sent = FALSE, !.call = call]
<1>1. caller' = [caller EXCEPT ![c] = r]
  BY DEF End
<1>2. next \in {"log", "legacy", "idle", "gone"}
  BY DEF After
<1>3. Sound(caller[c])
  BY DEF CallersInv
<1>4. call \in Calls \cup {"none"} /\ (next \in Asking => call \in Calls)
  BY <1>2, <1>3 DEF Sound, CallerType, Asking
<1>5. Sound(r)
  <2> HIDE DEF next, call
  <2>1. QED
    BY <1>2, <1>3, <1>4 DEF Sound, CallerType, StageType
<1>6. QED
  <2> HIDE DEF r
  <2>1. QED
    BY <1>1, <1>5, CallerUpdate

\* A caller starts, asks and sends with what it has.
LEMMA CallersMove ==
  ASSUME CallersInv,
         \/ \E c \in Bridges : StartBridge(c) \/ \E k \in Calls : Ask(c, k)
         \/ \E c \in Hooks : StartHook(c)
         \/ \E c \in Callers : Send(c) \/ Timeout(c) \/ Disconnect(c)
  PROVE  CallersInv'
<1>1. ASSUME NEW c \in Bridges, StartBridge(c) PROVE CallersInv'
  <2>1. PICK via \in {"daemon", "local"}, has \in SUBSET Kinds :
          caller' = [caller EXCEPT ![c] = [caller[c] EXCEPT !.stage = "idle", !.via = via, !.has = has]]
    <3>1. Sound(caller[c]) /\ c \in Callers
      BY <1>1 DEF CallersInv, Callers
    <3>2. CASE Reachable
      <4>1. caller' = [caller EXCEPT ![c] = [caller[c] EXCEPT !.stage = "idle", !.via = "daemon"]]
        BY <1>1, <3>2 DEF StartBridge
      <4>2. [caller[c] EXCEPT !.stage = "idle", !.via = "daemon"]
              = [caller[c] EXCEPT !.stage = "idle", !.via = "daemon", !.has = caller[c].has]
        BY <3>1 DEF Sound, CallerType
      <4>3. caller[c].has \in SUBSET Kinds
        BY <3>1 DEF Sound, CallerType
      <4>4. QED
        BY <4>1, <4>2, <4>3
    <3>3. CASE ~Reachable
      <4>1. PICK models \in Loadable :
              caller' = [caller EXCEPT ![c] = [caller[c] EXCEPT !.stage = "idle", !.via = "local",
                           !.has = Found(c, models)]]
        BY <1>1, <3>3 DEF StartBridge
      <4>2. Found(c, models) \in SUBSET Kinds
        BY DaemonAssumption DEF Found
      <4>3. QED
        BY <4>1, <4>2
    <3>4. QED
      BY <3>2, <3>3
  <2>2. Sound([caller[c] EXCEPT !.stage = "idle", !.via = via, !.has = has])
    <3>1. Sound(caller[c]) /\ ~caller[c].sent
      BY <1>1 DEF CallersInv, Callers, StartBridge, Sound, Asking
    <3>2. QED
      BY <3>1 DEF Sound, CallerType, StageType, Asking
  <2>3. QED
    <3> DEFINE r == [caller[c] EXCEPT !.stage = "idle", !.via = via, !.has = has]
    <3>1. c \in Callers /\ Sound(r) /\ caller' = [caller EXCEPT ![c] = r]
      BY <1>1, <2>1, <2>2 DEF Callers
    <3> HIDE DEF r
    <3>2. QED
      BY <3>1, CallerUpdate
<1>2. ASSUME NEW c \in Callers, NEW via, NEW k \in Calls,
             via \in {caller[c].via, "daemon"}, caller[c].stage \in {"idle", "new"},
             caller' = [caller EXCEPT ![c] = [caller[c] EXCEPT !.stage = "call", !.via = via, !.call = k]]
      PROVE CallersInv'
  <2> DEFINE r == [caller[c] EXCEPT !.stage = "call", !.via = via, !.call = k]
  <2>1. Sound(caller[c])
    BY DEF CallersInv
  <2>2. Sound(r)
    BY <1>2, <2>1 DEF Sound, CallerType, StageType, Asking
  <2> HIDE DEF r
  <2>3. QED
    BY <1>2, <2>2, CallerUpdate DEF r
<1>3. ASSUME NEW c \in Bridges, NEW k \in Calls, Ask(c, k) PROVE CallersInv'
  <2>1. c \in Callers /\ Sound(caller[c]) /\ caller[c].stage = "idle"
    BY <1>3 DEF Ask, Callers, CallersInv
  <2>2. [caller[c] EXCEPT !.stage = "call", !.call = k]
          = [caller[c] EXCEPT !.stage = "call", !.via = caller[c].via, !.call = k]
    BY <2>1 DEF Sound, CallerType
  <2>3. caller' = [caller EXCEPT ![c] = [caller[c] EXCEPT !.stage = "call", !.via = caller[c].via, !.call = k]]
    BY <1>3, <2>2 DEF Ask
  <2>4. QED
    BY <1>2, <2>1, <2>3
<1>4. ASSUME NEW c \in Hooks, StartHook(c) PROVE CallersInv'
  <2>1. c \in Callers /\ c \in Calls /\ caller[c].stage = "new"
    BY <1>4, DaemonAssumption DEF StartHook, Callers
  <2>2. caller' = [caller EXCEPT ![c] = [caller[c] EXCEPT !.stage = "call", !.via = "daemon", !.call = c]]
    BY <1>4 DEF StartHook
  <2>3. QED
    BY <1>2, <2>1, <2>2
<1>5. ASSUME NEW c \in Callers, Send(c) PROVE CallersInv'
  <2>1. caller[c].stage \in Asking /\ Sound(caller[c])
    BY <1>5 DEF Send, Asking, CallersInv
  <2>2. CASE caller[c].via = "local" \/ Reachable
    <3> DEFINE r == [caller[c] EXCEPT !.sent = TRUE]
    <3>1. caller' = [caller EXCEPT ![c] = r]
      BY <1>5, <2>2 DEF Send
    <3>2. Sound(r)
      BY <2>1 DEF Sound, CallerType
    <3> HIDE DEF r
    <3>3. QED
      BY <3>1, <3>2, CallerUpdate
  <2>3. CASE ~(caller[c].via = "local" \/ Reachable)
    <3>1. End(c, FALSE, FALSE)
      BY <1>5, <2>3 DEF Send
    <3>2. QED
      BY <2>1, <3>1, EndKeepsCallers
  <2>4. QED
    BY <2>2, <2>3
<1>6. ASSUME NEW c \in Callers, Timeout(c) \/ Disconnect(c) PROVE CallersInv'
  <2>1. End(c, FALSE, FALSE) /\ caller[c].stage \in Asking
    BY <1>6 DEF Timeout, Disconnect, CallersInv, Sound
  <2>2. QED
    BY <2>1, EndKeepsCallers
<1>7. QED
  BY <1>1, <1>3, <1>4, <1>5, <1>6

Step(j) == Fail(j) \/ ExecuteRemember(j) \/ ReadKey(j) \/ Score(j) \/ ExecuteLog(j)

\* A request keeps its caller and its call from sending to answering.
LEMMA RequestsStep ==
  ASSUME CallersInv, RequestsInv, [Next]_vars
  PROVE  CallersInv' /\ RequestsInv'
<1>1. CASE UNCHANGED <<caller, jobs>>
  BY <1>1 DEF CallersInv, RequestsInv, Job
<1>2. ASSUME NEW s \in Servers, Stop(s) PROVE CallersInv' /\ RequestsInv'
  BY <1>2 DEF Stop, CallersInv, RequestsInv, Job
<1>3. ASSUME NEW c \in Callers, Send(c) PROVE CallersInv' /\ RequestsInv'
  <2>1. CallersInv'
    BY <1>3, CallersMove
  <2>2. caller[c].call \in Calls
    BY <1>3 DEF Send, CallersInv, Sound, Asking
  <2>3. jobs' = jobs \/ \E p : jobs' = jobs \cup {Job(c, p)}
    BY <1>3 DEF Send
  <2>4. QED
    BY <2>1, <2>2, <2>3 DEF RequestsInv, Job
<1>4. ASSUME jobs' = jobs,
             \/ \E c \in Bridges : StartBridge(c) \/ \E k \in Calls : Ask(c, k)
             \/ \E c \in Hooks : StartHook(c)
             \/ \E c \in Callers : Timeout(c) \/ Disconnect(c)
      PROVE CallersInv' /\ RequestsInv'
  BY <1>4, CallersMove DEF RequestsInv, Job
<1>5. ASSUME NEW j \in jobs, Answer(j) PROVE CallersInv' /\ RequestsInv'
  <2>1. jobs' = jobs \ {j} /\ j.by \in Callers
    BY <1>5 DEF Answer, RequestsInv
  <2>2. CASE Waits(j.by, j)
    <3>1. End(j.by, j.ok, Recalls(j))
      BY <1>5, <2>2 DEF Answer
    <3>2. caller[j.by].stage \in Asking
      BY <2>1, <2>2 DEF Waits, CallersInv, Sound
    <3>3. CallersInv'
      BY <2>1, <3>1, <3>2, EndKeepsCallers
    <3>4. QED
      BY <2>1, <3>3 DEF RequestsInv, Job
  <2>3. CASE ~Waits(j.by, j)
    BY <1>5, <2>1, <2>3 DEF Answer, CallersInv, RequestsInv, Job
  <2>4. QED
    BY <2>2, <2>3
<1>6. ASSUME NEW j \in jobs, Step(j) PROVE CallersInv' /\ RequestsInv'
  <2>1. caller' = caller
    BY <1>6 DEF Step, Fail, ExecuteRemember, ReadKey, Score, ExecuteLog
  <2> DEFINE Like(q) == DOMAIN q = DOMAIN j /\ q.by = j.by /\ q.call = j.call
  <2>2. PICK q : jobs' \subseteq jobs \cup {q} /\ Like(q)
    <3>1. DOMAIN j = {"by", "at", "call", "stage", "step", "ok", "used", "key", "seen", "eligible"}
      BY DEF RequestsInv, Job
    <3>2. ASSUME NEW ok PROVE Like(Done(j, ok))
      BY <3>1 DEF Done
    <3>3. ASSUME NEW q, Finish(j, q) PROVE jobs' \subseteq jobs \cup {q}
      BY <3>3 DEF Finish
    <3>4. CASE Fail(j)
      BY <3>2, <3>3, <3>4 DEF Fail
    <3>5. CASE ExecuteRemember(j) \/ Score(j) \/ ExecuteLog(j)
      BY <3>2, <3>3, <3>5 DEF ExecuteRemember, Score, Conclude, ExecuteLog
    <3>6. CASE ReadKey(j)
      <4>1. PICK used, eligible, rows, key :
              \/ \E ok : Finish(j, Done([j EXCEPT !.used = used, !.eligible = eligible], ok))
              \/ Becomes(j, [[j EXCEPT !.used = used, !.eligible = eligible]
                               EXCEPT !.step = "keyed", !.seen = rows, !.key = key])
        BY <3>6 DEF ReadKey, Conclude
      <4> DEFINE read == [j EXCEPT !.used = used, !.eligible = eligible]
                 keyed == [read EXCEPT !.step = "keyed", !.seen = rows, !.key = key]
      <4>2. ASSUME NEW ok PROVE Like(Done(read, ok))
        BY <3>1 DEF Done
      <4>3. Like(keyed)
        BY <3>1
      <4> HIDE DEF read, keyed, Like
      <4>4. ASSUME NEW ok, Finish(j, Done(read, ok)) PROVE \E q : jobs' \subseteq jobs \cup {q} /\ Like(q)
        BY <4>2, <4>4, <3>3
      <4>5. CASE Becomes(j, keyed)
        BY <4>3, <4>5 DEF Becomes
      <4>6. QED
        BY <4>1, <4>4, <4>5 DEF read, keyed
    <3>7. QED
      BY <1>6, <3>4, <3>5, <3>6 DEF Step
  <2>3. QED
    BY <2>1, <2>2 DEF CallersInv, RequestsInv, Job
<1>7. QED
  <2>1. CASE \E s \in Servers : Load(s) \/ Probe(s) \/ Remove(s) \/ Bind(s)
    BY <2>1, <1>1 DEF Load, Probe, Remove, Bind
  <2>2. CASE UNCHANGED vars \/ Outside
    BY <2>2, <1>1 DEF vars, procVars, Outside
  <2>3. ASSUME NEW c, StartBridge(c) \/ StartHook(c) \/ Timeout(c) \/ Disconnect(c) PROVE jobs' = jobs
    BY <2>3 DEF StartBridge, StartHook, Timeout, Disconnect
  <2>4. ASSUME NEW c, NEW k, Ask(c, k) PROVE jobs' = jobs
    BY <2>4 DEF Ask
  <2>5. CASE \/ \E c \in Bridges : StartBridge(c) \/ \E k \in Calls : Ask(c, k)
             \/ \E c \in Hooks : StartHook(c)
             \/ \E c \in Callers : Timeout(c) \/ Disconnect(c)
    BY <2>5, <2>3, <2>4, <1>4
  <2>6. QED
    BY <2>1, <2>2, <2>5, <1>2, <1>3, <1>5, <1>6 DEF Next, Work, Step

-----------------------------------------------------------------------------
(* The rows of a store under one write.                                      *)

\* Remembering: the store is bound to the model of the row, and was to no other.
LEMMA RememberKeepsModel ==
  ASSUME RowsInv, NEW m \in Mems, NEW model \in Models \cup {NoModel},
         RememberFits(m, model), Remember(m, model), clock' = clock, reindex' = reindex
  PROVE  RowsInv'
<1>1. Home[m] \in Stores /\ NoModel \notin Models
  BY TokenMatricesAssumption
<1>2. live' \subseteq Mems
  BY DEF Remember, RowsInv, RowsType
<1>3. ReindexType'
  BY DEF RowsInv, ReindexType
<1>4. CASE model = NoModel
  BY <1>2, <1>3, <1>4 DEF Remember, RowsInv, RowsType, OneTokenModel
<1>5. CASE model # NoModel
  <2>1. /\ tokens' = Put(tokens, {m}, model) /\ active' = [active EXCEPT ![Home[m]] = model]
        /\ active[Home[m]] \in {NoModel, model}
    BY <1>5 DEF Remember, RememberFits, ModelFits
  <2>2. ASSUME NEW r \in tokens' PROVE r \in Rows /\ r.model = active'[Home[r.mem]]
    <3>1. CASE r \in tokens
      <4>1. r \in Rows /\ r.model \in Models /\ Home[r.mem] \in Stores /\ r.model = active[Home[r.mem]]
        BY <3>1, TokenMatricesAssumption DEF RowsInv, RowsType, OneTokenModel, Rows
      <4>2. QED
        BY <1>1, <2>1, <4>1 DEF RowsInv, RowsType
    <3>2. CASE r = [mem |-> m, model |-> model, made |-> clock]
      BY <1>1, <1>5, <2>1, <3>2 DEF RowsInv, RowsType, Rows
    <3>3. QED
      BY <2>1, <2>2, <3>1, <3>2 DEF Put
  <2>3. active' \in [Stores -> Models \cup {NoModel}]
    BY <2>1 DEF RowsInv, RowsType
  <2>4. QED
    BY <1>2, <1>3, <2>2, <2>3 DEF RowsInv, RowsType, OneTokenModel
<1>6. QED
  BY <1>4, <1>5

\* A backfill: only the same model, or after every other row of the store.
LEMMA ApplyKeepsModel ==
  ASSUME RowsInv, Apply PROVE RowsInv'
<1>1. reindex' = Idle /\ live' = live /\ clock' = clock /\ reindex # Idle
  BY DEF Apply
<1>2. CASE ~ApplyFits
  BY <1>1, <1>2 DEF Apply, RowsInv, RowsType, ReindexType, OneTokenModel
<1>3. CASE ApplyFits
  <2> DEFINE store == reindex.store
             kept == Kept(reindex.force, store)
  <2>1. /\ tokens' = Put(kept, reindex.targets, reindex.model)
        /\ active' = [active EXCEPT ![store] = reindex.model]
    BY <1>3 DEF Apply
  <2>2. /\ store \in Stores /\ reindex.model \in Models /\ reindex.targets \subseteq Mems
        /\ \A m \in reindex.targets : Home[m] = store
    BY <1>1 DEF RowsInv, ReindexType
  <2>3. ASSUME NEW r \in kept PROVE r \in tokens /\ (Home[r.mem] # store \/ active[store] \in {NoModel, reindex.model})
    BY <1>3, <2>3 DEF Kept, RowsOf, ApplyFits, ModelFits
  <2>4. ASSUME NEW r \in tokens' PROVE r \in Rows /\ r.model = active'[Home[r.mem]]
    <3>1. CASE r \in kept
      <4>1. r \in Rows /\ r.model \in Models /\ Home[r.mem] \in Stores /\ r.model = active[Home[r.mem]]
        BY <2>3, <3>1, TokenMatricesAssumption DEF RowsInv, RowsType, OneTokenModel, Rows
      <4>2. NoModel \notin Models
        BY TokenMatricesAssumption
      <4>3. QED
        BY <2>1, <2>2, <2>3, <3>1, <4>1, <4>2 DEF RowsInv, RowsType
    <3>2. ASSUME NEW m \in reindex.targets, r = [mem |-> m, model |-> reindex.model, made |-> clock]
          PROVE r \in Rows /\ r.model = active'[Home[r.mem]]
      <4>1. m \in Mems /\ Home[m] = store /\ clock \in 1..MaxClock /\ store \in DOMAIN active
        BY <2>2 DEF RowsInv, RowsType
      <4>2. QED
        BY <2>1, <2>2, <3>2, <4>1 DEF Rows
    <3>3. QED
      BY <2>1, <2>4, <3>1, <3>2 DEF Put
  <2>5. active' \in [Stores -> Models \cup {NoModel}]
    BY <2>1, <2>2 DEF RowsInv, RowsType
  <2>6. QED
    BY <1>1, <2>4, <2>5 DEF RowsInv, RowsType, ReindexType, OneTokenModel
<1>4. QED
  BY <1>2, <1>3

LEMMA RowsStep ==
  ASSUME RowsInv, RequestsInv, [Next]_vars
  PROVE  RowsInv'
<1>1. CASE UNCHANGED <<tokens, active, live, clock, reindex>>
  BY <1>1 DEF RowsInv, RowsType, ReindexType, OneTokenModel
<1>2. ASSUME NEW j \in jobs, ExecuteRemember(j) PROVE RowsInv'
  <2>1. PICK m \in Mems, model \in Models \cup {NoModel} : RememberFits(m, model) /\ Remember(m, model)
    BY <1>2, DaemonAssumption DEF ExecuteRemember
  <2>2. QED
    BY <1>2, <2>1, RememberKeepsModel DEF ExecuteRemember
<1>3. ASSUME NEW m \in Mems, RememberPlain(m) PROVE RowsInv'
  BY <1>3, RememberKeepsModel DEF RememberPlain
<1>4. ASSUME NEW m \in Mems, Forget(m) PROVE RowsInv'
  BY <1>4 DEF Forget, RowsInv, RowsType, ReindexType, OneTokenModel
<1>5. ASSUME NEW s \in Stores, NEW model \in Models, NEW force \in BOOLEAN, Collect(s, model, force)
      PROVE RowsInv'
  <2>1. /\ reindex'.store = s /\ reindex'.model = model /\ reindex'.targets = Targets(s, force)
        /\ UNCHANGED <<tokens, active, live, clock>>
    BY <1>5 DEF Collect, rowVars
  <2>2. Targets(s, force) \subseteq Mems /\ \A m \in Targets(s, force) : Home[m] = s
    BY DEF Targets, LiveIn, RowsInv, RowsType
  <2>3. QED
    BY <2>1, <2>2 DEF RowsInv, RowsType, ReindexType, OneTokenModel
<1>6. ASSUME Apply PROVE RowsInv'
  BY <1>6, ApplyKeepsModel
<1>7. ASSUME Tick PROVE RowsInv'
  BY <1>7, TokenMatricesAssumption DEF Tick, rowVars, RowsInv, RowsType, ReindexType, OneTokenModel
<1>8. CASE Outside
  BY <1>8, <1>3, <1>4, <1>5, <1>6, <1>7 DEF Outside
<1>9. CASE \/ \E s \in Servers : Load(s) \/ Probe(s) \/ Remove(s) \/ Bind(s) \/ Stop(s)
           \/ \E c \in Bridges : StartBridge(c) \/ \E k \in Calls : Ask(c, k)
           \/ \E c \in Hooks : StartHook(c)
  BY <1>9, <1>1 DEF Load, Probe, Remove, Bind, Stop, StartBridge, Ask, StartHook, tokenVars, rowVars
<1>10. CASE \E c \in Callers : Send(c) \/ Timeout(c) \/ Disconnect(c)
  BY <1>10, <1>1 DEF Send, Timeout, Disconnect, tokenVars, rowVars
<1>11. ASSUME NEW j \in jobs, Fail(j) \/ ReadKey(j) \/ Score(j) \/ ExecuteLog(j) \/ Answer(j) PROVE RowsInv'
  BY <1>11, <1>1 DEF Fail, ReadKey, Score, ExecuteLog, Answer, tokenVars, rowVars
<1>12. CASE UNCHANGED vars
  BY <1>12, <1>1 DEF vars, tokenVars, rowVars
<1>13. QED
  BY <1>2, <1>8, <1>9, <1>10, <1>11, <1>12 DEF Next, Work

\* The matrices of a store are all of the model it is bound to, whoever writes
\* them: servers, bridges with models of their own, and backfills that were
\* collected before other writes.
THEOREM StoresKeepOneTokenModel == Spec => []OneTokenModel
<1> DEFINE Inv == CallersInv /\ RequestsInv /\ RowsInv
<1>1. Init => Inv
  <2>1. Init => CallersInv /\ RequestsInv
    BY DEF Init, CallersInv, RequestsInv, Sound, CallerType, StageType, Asking, Fresh
  <2>2. Init => RowsInv
    BY TokenMatricesAssumption DEF Init, TokensInit, RowsInv, RowsType, ReindexType, OneTokenModel
  <2>3. QED
    BY <2>1, <2>2
<1>2. Inv /\ [Next]_vars => Inv'
  BY RequestsStep, RowsStep
<1>3. Inv => OneTokenModel
  BY DEF RowsInv
<1>4. QED
  BY <1>1, <1>2, <1>3, PTL DEF Spec

-----------------------------------------------------------------------------
(* What is lost.                                                             *)

LostToForce(r) ==
  /\ reindex # Idle /\ reindex.force /\ reindex.store = Home[r.mem]
  /\ r.mem \notin reindex.targets

LEMMA WritesKeepMatrices ==
  ASSUME [Next]_vars, NEW r \in tokens, \A q \in tokens' : q.mem # r.mem
  PROVE  LostToForce(r)
<1>1. tokens' # tokens
  OBVIOUS
<1>2. ASSUME NEW m, NEW model, Remember(m, model) PROVE FALSE
  <2>1. tokens' = Put(tokens, {m}, model)
    BY <1>1, <1>2 DEF Remember
  <2>2. CASE r.mem = m
    <3>1. [mem |-> m, model |-> model, made |-> clock] \in tokens'
      BY <2>1 DEF Put
    <3>2. QED
      BY <2>2, <3>1
  <2>3. CASE r.mem # m
    BY <2>1, <2>3 DEF Put
  <2>4. QED
    BY <2>2, <2>3
<1>3. ASSUME Apply PROVE LostToForce(r)
  <2>1. /\ reindex # Idle
        /\ tokens' = Put(Kept(reindex.force, reindex.store), reindex.targets, reindex.model)
    BY <1>1, <1>3 DEF Apply
  <2>2. r.mem \notin reindex.targets
    <3>1. ASSUME r.mem \in reindex.targets PROVE FALSE
      <4>1. [mem |-> r.mem, model |-> reindex.model, made |-> clock] \in tokens'
        BY <2>1, <3>1 DEF Put
      <4>2. QED
        BY <4>1
    <3>2. QED
      BY <3>1
  <2>3. r \notin Kept(reindex.force, reindex.store)
    BY <2>1, <2>2 DEF Put
  <2>4. QED
    BY <2>1, <2>2, <2>3 DEF Kept, RowsOf, LostToForce
<1>4. CASE Outside
  BY <1>1, <1>2, <1>3, <1>4 DEF Outside, RememberPlain, Forget, Collect, Tick, rowVars
<1>5. CASE \/ \E s \in Servers : Load(s) \/ Probe(s) \/ Remove(s) \/ Bind(s) \/ Stop(s)
           \/ \E c \in Bridges : StartBridge(c) \/ \E k \in Calls : Ask(c, k)
           \/ \E c \in Hooks : StartHook(c)
  BY <1>1, <1>5 DEF Load, Probe, Remove, Bind, Stop, StartBridge, Ask, StartHook, tokenVars, rowVars
<1>6. CASE \E c \in Callers : Send(c) \/ Timeout(c) \/ Disconnect(c)
  BY <1>1, <1>6 DEF Send, Timeout, Disconnect, tokenVars, rowVars
<1>7. ASSUME NEW j \in jobs, Work(j) PROVE FALSE
  <2>1. CASE ExecuteRemember(j)
    BY <2>1, <1>2 DEF ExecuteRemember
  <2>2. CASE Fail(j) \/ ReadKey(j) \/ Score(j) \/ ExecuteLog(j) \/ Answer(j)
    BY <1>1, <2>2 DEF Fail, ReadKey, Score, ExecuteLog, Answer, tokenVars, rowVars
  <2>3. QED
    BY <1>7, <2>1, <2>2 DEF Work
<1>8. QED
  BY <1>1, <1>4, <1>5, <1>6, <1>7 DEF Next, vars, tokenVars, rowVars

\* A matrix is lost only to a forced backfill whose collection passed its
\* memory over: never to a remember, to a retirement or to a plain backfill,
\* whoever else writes between the collecting and the applying.
THEOREM MatricesLostToForceOnly == Spec => MatricesKept
<1>1. [Next]_vars =>
        [\A r \in tokens : (\A q \in tokens' : q.mem # r.mem)
           => /\ reindex # Idle /\ reindex.force /\ reindex.store = Home[r.mem]
              /\ r.mem \notin reindex.targets]_tokenVars
  BY WritesKeepMatrices DEF LostToForce
<1>2. QED
  BY <1>1, PTL DEF Spec, MatricesKept

-----------------------------------------------------------------------------
(* The calls.  A request is at most once among the jobs of a call and stage;  *)
(* the callers say how far a call has come, and a request is never ahead of   *)
(* its caller.                                                                *)

JobType == [by : Callers, at : Procs, call : Calls, stage : Asking,
            step : {"todo", "keyed", "done"}, ok : BOOLEAN, used : SUBSET Kinds, key : Keys \cup {Cold.key},
            seen : SUBSET Rows, eligible : SUBSET Mems]
AnswerType == {Unanswered, "ok", "failed"}

Types ==
  /\ CallersInv /\ ServerType /\ sock \in Servers \cup {NoFile}
  /\ jobs \subseteq JobType
  /\ outcome \in [Calls -> AnswerType]
  /\ ran \in [Calls -> Nat] /\ logged \in [Calls -> Nat]

\* Only a bridge loads models of its own.
Routes == \A c \in Callers : caller[c].via = "local" => c \in Bridges

\* A call is in the hands of one caller, a hook's in its own.
Apart(c) ==
  /\ caller[c].stage \notin Asking => caller[c].call = "none"
  /\ caller[c].stage = "new" <=> caller[c].via = "none"
  /\ caller[c].call \in Hooks => caller[c].call = c
  /\ c \in Hooks => caller[c].call \in {c, "none"}
  /\ caller[c].stage = "legacy" => c \in Hooks
  /\ \A d \in Callers : caller[d].call = caller[c].call /\ caller[c].call # "none" => d = c

\* What a caller has been told of the call it is at.
Told(c) ==
  /\ caller[c].stage = "call" => outcome[caller[c].call] = Unanswered
  /\ caller[c].stage \in {"log", "legacy"} => outcome[caller[c].call] = "ok"
  /\ caller[c].stage \in {"call", "log"} => caller[c].call \notin givenUp
  /\ c \in Hooks /\ caller[c].stage = "new" => outcome[c] = Unanswered

\* Only the log of what was answered is given up.
Answered(k) == k \in givenUp => outcome[k] = "ok"

\* The request of an earlier stage, or the one its caller waits for.
Behind(j, r) ==
  \/ j.stage = r.stage /\ r.sent
  \/ j.stage = "call" /\ r.stage \in {"log", "legacy"}
  \/ j.stage = "log" /\ r.stage = "legacy"

Placed(j) ==
  \/ j.at \in Servers /\ Serving(j.at) /\ caller[j.by].via = "daemon"
  \/ j.at = j.by /\ caller[j.by].via = "local"

Keyed(j) == j.step = "keyed" => j.stage = "call" /\ CallOf[j.call].op \in Queries /\ j.key \in Keys

Followed(j) ==
  /\ outcome[j.call] = Unanswered => Waits(j.by, j)
  /\ \A c \in Callers : caller[c].call = j.call => j.by = c /\ Behind(j, caller[c])
  /\ j.stage # "call" => outcome[j.call] = "ok"

Requests == \A j \in jobs :
  /\ Placed(j) /\ Keyed(j) /\ Followed(j)
  /\ \A i \in jobs : i.call = j.call /\ i.stage = j.stage => i = j

\* What was executed, and what may still be.
Counted(j) == j.stage = "call" => /\ j.step \in {"todo", "keyed"} => ran[j.call] = 0
                                  /\ j.step = "done" /\ j.ok => ran[j.call] = 1
Once(k) ==
  /\ ran[k] \in {0, 1} /\ (outcome[k] = "ok" => ran[k] = 1)
  /\ ran[k] = 1 /\ outcome[k] = Unanswered => \E c \in Callers : caller[c].call = k /\ caller[c].sent

Executed == (\A k \in Calls : Once(k)) /\ (\A j \in jobs : Counted(j))

\* A log of the stage may still be written.
Open(stage, k) ==
  \/ \E j \in jobs : j.call = k /\ j.stage = stage /\ j.step = "todo"
  \/ \E c \in Callers : caller[c].call = k /\ caller[c].stage = stage /\ ~caller[c].sent
Chance(stage, k) == IF Open(stage, k) THEN 1 ELSE 0
Allowed(k) == IF k \in givenUp /\ k \in Hooks THEN 2 ELSE 1

Refused(j) == j.stage = "log" /\ j.step = "done" /\ ~j.ok /\ Waits(j.by, j)
Few(k) ==
  /\ logged[k] > 0 => outcome[k] = "ok"
  /\ logged[k] + Chance("log", k) + Chance("legacy", k) <= Allowed(k)

Logs == (\A k \in Calls : Few(k)) /\ (\A j \in jobs : Refused(j) => logged[j.call] = 0)

CallInv ==
  /\ Types /\ Routes
  /\ (\A c \in Callers : Apart(c) /\ Told(c))
  /\ (\A k \in Calls : Answered(k))
  /\ Requests /\ Executed /\ Logs

LEMMA CallsInit == Init => CallInv
<1> SUFFICES ASSUME Init PROVE CallInv
  OBVIOUS
<1>1. Types
  <2>1. CallersInv
    BY DEF Init, CallersInv, Sound, CallerType, StageType, Asking, Fresh
  <2>2. QED
    BY <2>1, SocketInit DEF Init, HistoryInit, Types, SocketInv, Unanswered, AnswerType
<1>2. Routes
  BY DEF Init, Routes, Down, Fresh
<1>3. \A c \in Callers : Apart(c) /\ Told(c)
  BY DaemonAssumption DEF Init, HistoryInit, Apart, Told, Fresh, Asking, Callers
<1>4. \A k \in Calls : Answered(k)
  BY DEF Init, HistoryInit, Answered, Unanswered
<1>5. Requests /\ Executed
  BY DEF Init, HistoryInit, Requests, Executed, Once, Unanswered
<1>6. ASSUME NEW k \in Calls, NEW stage, stage \in {"log", "legacy"} PROVE Chance(stage, k) = 0
  <2>1. \A c \in Callers : caller[c].stage = "new"
    BY DEF Init, Fresh
  <2>2. ~Open(stage, k)
    BY <1>6, <2>1 DEF Init, Open
  <2>3. QED
    BY <2>2 DEF Chance
<1>7. \A k \in Calls : Few(k)
  BY <1>6 DEF Init, HistoryInit, Few, Unanswered, Allowed
<1>8. QED
  BY <1>1, <1>2, <1>3, <1>4, <1>5, <1>7 DEF Init, Logs, CallInv

\* Servers come and go, and requests are dropped unanswered.
LEMMA JobsDropped ==
  ASSUME CallInv, UNCHANGED <<caller, history>>, jobs' \subseteq jobs,
         ServerType', sock' \in Servers \cup {NoFile},
         \A j \in jobs' : Placed(j)'
  PROVE  CallInv'
<1>1. Types'
  BY DEF CallInv, Types, CallersInv, history
<1>2. Routes'
  BY DEF CallInv, Routes
<1>3. \A c \in Callers : Apart(c)' /\ Told(c)'
  BY DEF CallInv, Apart, Told, history
<1>4. \A k \in Calls : Answered(k)'
  BY DEF CallInv, Answered, history
<1>5. Requests'
  BY DEF CallInv, Requests, Keyed, Followed, Waits, Behind, history
<1>6. Executed'
  BY DEF CallInv, Executed, Once, Counted, history
<1>7. ASSUME NEW k \in Calls, NEW stage, stage \in {"log", "legacy"}
      PROVE  Chance(stage, k) \in {0, 1} /\ Chance(stage, k)' \in {0, 1} /\ Chance(stage, k)' <= Chance(stage, k)
  <2>1. Open(stage, k)' => Open(stage, k)
    BY DEF Open
  <2>2. QED
    BY <2>1 DEF Chance
<1>8. ASSUME NEW k \in Calls PROVE Few(k)'
  <2>1. Few(k) /\ logged[k] \in Nat
    BY DEF CallInv, Logs, Types
  <2>2. Allowed(k)' = Allowed(k) /\ Allowed(k) \in {1, 2} /\ logged' = logged /\ outcome' = outcome
    BY DEF Allowed, history
  <2>3. QED
    BY <2>1, <2>2, <1>7 DEF Few
<1>9. Logs'
  BY <1>8 DEF CallInv, Logs, Refused, Waits, history
<1>10. QED
  BY <1>1, <1>2, <1>3, <1>4, <1>5, <1>6, <1>9 DEF CallInv

\* A server is started with what its environment requires, and a request is
\* at a server that serves.
LEMMA CallsOfServers ==
  ASSUME CallInv, SocketInv, ServerStep
  PROVE  CallInv'
<1>1. ServerType' /\ sock' \in Servers \cup {NoFile}
  BY SocketStep DEF SocketInv, Next, ServerStep
<1>2. UNCHANGED <<caller, history>> /\ jobs' \subseteq jobs
  BY DEF ServerStep, Load, Probe, Remove, Bind, Stop
<1>3. PICK s \in Servers : Load(s) \/ Probe(s) \/ Remove(s) \/ Bind(s) \/ Stop(s)
  BY DEF ServerStep
<1>4. ServerType  /\ (\A j \in jobs : Placed(j))
  BY DEF CallInv, Types, Routes, Requests
<1>5. CASE Load(s)
  <2>1. PICK has : server' = [server EXCEPT ![s] = [Down EXCEPT !.pc = "loaded", !.has = has]]
    BY <1>5 DEF Load
  <2>3. \A j \in jobs' : Placed(j)'
    BY <1>2, <1>4, <1>5, <2>1 DEF Placed, Serving, ServerType, Load
  <2>4. QED
    BY <1>1, <1>2, <2>3, JobsDropped
<1>6. CASE Probe(s) \/ Remove(s)
  <2>1. /\ server[s].pc \in {"loaded", "probed"}
        /\ \A t \in Servers : t # s => server'[t] = server[t]
        /\ server'[s].pc # "down" => server'[s].has = server[s].has
    BY <1>4, <1>6 DEF Probe, Remove, ServerType, Down
  <2>3. \A j \in jobs' : Placed(j)'
    BY <1>2, <1>4, <2>1 DEF Placed, Serving
  <2>4. QED
    BY <1>1, <1>2, <2>3, JobsDropped
<1>7. CASE Bind(s)
  <2>1. /\ server[s].pc = "cleared"
        /\ \A t \in Servers : /\ t # s => server'[t].pc = server[t].pc
                              /\ server'[t].pc # "down" => server'[t].has = server[t].has
    BY <1>4, <1>7 DEF Bind, ServerType, Down
  <2>3. \A j \in jobs' : Placed(j)'
    BY <1>2, <1>4, <2>1 DEF Placed, Serving
  <2>4. QED
    BY <1>1, <1>2, <2>3, JobsDropped
<1>8. CASE Stop(s)
  <2>1. /\ server' = [server EXCEPT ![s] = Down]
        /\ jobs' = {j \in jobs : j.at # s}
    BY <1>8 DEF Stop
  <2>3. \A j \in jobs' : Placed(j)'
    BY <1>2, <1>4, <2>1 DEF Placed, Serving, ServerType
  <2>4. QED
    BY <1>1, <1>2, <2>3, JobsDropped
<1>9. QED
  BY <1>3, <1>5, <1>6, <1>7, <1>8

\* The requests of a call in nobody's hands were all ended: there is none for
\* a call that is not answered, and nothing of it was executed.
LEMMA Unasked ==
  ASSUME CallInv, NEW k \in Calls, outcome[k] = Unanswered,
         \A c \in Callers : caller[c].call # k
  PROVE  /\ \A j \in jobs : j.call # k
         /\ ran[k] = 0 /\ logged[k] = 0 /\ k \notin givenUp
<1>1. ASSUME NEW j \in jobs, j.call = k PROVE FALSE
  <2>1. Waits(j.by, j) /\ j.by \in Callers
    BY <1>1 DEF CallInv, Requests, Followed, Types, JobType
  <2>2. QED
    BY <1>1, <2>1 DEF Waits
<1>2. ran[k] = 0
  BY DEF CallInv, Executed, Once
<1>3. logged[k] = 0
  BY DEF CallInv, Logs, Few, Types, Unanswered
<1>4. k \notin givenUp
  BY DEF CallInv, Answered, Unanswered
<1>5. QED
  BY <1>1, <1>2, <1>3, <1>4

LEMMA JobFacts ==
  ASSUME Types, NEW j \in jobs
  PROVE  /\ j.by \in Callers /\ j.at \in Procs /\ j.call \in Calls /\ j.stage \in Asking
         /\ j.step \in {"todo", "keyed", "done"} /\ j.ok \in BOOLEAN
         /\ j.call # "none" /\ j.by # "none" /\ j \in JobType
<1>1. j \in JobType
  BY DEF Types
<1>2. QED
  BY <1>1, DaemonAssumption DEF JobType

LEMMA CallerFacts ==
  ASSUME Types, NEW c \in Callers
  PROVE  /\ caller[c].via \in {"none", "daemon", "local"} /\ caller[c].has \subseteq Kinds
         /\ caller[c].stage \in StageType /\ caller[c].sent \in BOOLEAN
         /\ caller[c].stage \in Asking => caller[c].call \in Calls
         /\ caller[c].sent => caller[c].stage \in Asking
         /\ caller[c].call \in Calls \cup {"none"} /\ caller \in [Callers -> CallerType]
<1>1. Sound(caller[c]) /\ caller \in [Callers -> CallerType]
  BY DEF Types, CallersInv
<1>2. QED
  BY <1>1 DEF Sound, CallerType

\* A caller that starts or takes a call: it has none, and what it takes is
\* untouched.
LEMMA CallsBegin ==
  ASSUME CallInv, CallersInv', NEW c \in Callers, NEW r,
         caller' = [caller EXCEPT ![c] = r], UNCHANGED <<server, sock, jobs, history>>,
         caller[c].stage \in {"new", "idle"}, ~r.sent, r.stage \in {"idle", "call"},
         r.via \in {"daemon", "local"}, caller[c].via \in {"none", r.via},
         r.via = "local" => c \in Bridges,
         r.stage = "idle" => r.call = "none" /\ c \notin Hooks,
         r.stage = "call" => /\ r.call \in Calls /\ outcome[r.call] = Unanswered
                             /\ \A d \in Callers : caller[d].call # r.call
                             /\ r.call \in Hooks \/ c \in Hooks => r.call = c
  PROVE  CallInv'
<1>1. Types /\ caller[c].call = "none" /\ ~caller[c].sent
  BY CallerFacts DEF CallInv, Apart, Asking
<1>2. caller'[c] = r /\ \A d \in Callers : d # c => caller'[d] = caller[d]
  BY <1>1, CallerFacts
<1>3. UNCHANGED <<server, sock, jobs, outcome, ran, logged, givenUp>>
  BY DEF history
<1>4. Types'
  BY <1>3 DEF CallInv, Types, ServerType
<1>5. Routes'
  BY <1>2, <1>3 DEF CallInv, Routes
<1>6. r.call # "none" => r.stage = "call" /\ r.call \in Calls
  BY DaemonAssumption
<1>7. ASSUME NEW d \in Callers PROVE Apart(d)'
  <2>1. Apart(d)
    BY DEF CallInv
  <2>2. CASE d = c
    BY <1>2, <1>6, <2>2, DaemonAssumption DEF Apart, Asking
  <2>3. CASE d # c
    BY <1>2, <1>6, <2>1, <2>3 DEF Apart
  <2>4. QED
    BY <2>2, <2>3
<1>8. ASSUME NEW d \in Callers PROVE Told(d)'
  <2>1. CASE d = c
    <3>1. r.stage = "call" => r.call \notin givenUp
      BY Unasked
    <3>2. QED
      BY <1>2, <1>3, <2>1, <3>1 DEF Told
  <2>2. CASE d # c
    BY <1>2, <1>3, <2>2 DEF CallInv, Told
  <2>3. QED
    BY <2>1, <2>2
<1>9. ASSUME NEW k \in Calls PROVE Answered(k)'
  <2>1. Answered(k) /\ (caller[c].stage = "new" <=> caller[c].via = "none") /\ r.stage # "new"
    BY DEF CallInv, Apart
  <2>2. outcome[k] = "ok" => outcome[k] # Unanswered
    BY DEF Unanswered
  <2>3. QED
    BY <1>2, <1>3, <2>1, <2>2 DEF Answered
<1>10. ASSUME NEW j \in jobs
       PROVE  /\ j.by \in Callers /\ j.call \in Calls /\ j.call # "none" /\ j.call # r.call
              /\ Placed(j) /\ Keyed(j) /\ Followed(j)
  BY <1>1, <1>6, JobFacts, Unasked DEF CallInv, Requests
<1>11. ASSUME NEW j \in jobs PROVE Placed(j)' /\ Keyed(j)'
  BY <1>2, <1>3, <1>10, <1>11 DEF Placed, Serving, Keyed
<1>12. ASSUME NEW j \in jobs PROVE Followed(j)' /\ (Waits(j.by, j)' <=> Waits(j.by, j))
  <2>1. Waits(j.by, j)' <=> Waits(j.by, j)
    BY <1>1, <1>2, <1>10, <1>12 DEF Waits
  <2>2. QED
    BY <1>2, <1>3, <1>10, <1>12, <2>1 DEF Followed
<1>13. Requests'
  BY <1>3, <1>11, <1>12 DEF CallInv, Requests
<1>14. Executed'
  <2>1. ASSUME NEW k \in Calls PROVE Once(k)'
    <3>1. ASSUME NEW d \in Callers, caller[d].call = k, caller[d].sent
          PROVE  caller'[d].call = k /\ caller'[d].sent
      BY <1>1, <1>2, <3>1
    <3>2. QED
      BY <1>3, <3>1 DEF CallInv, Executed, Once
  <2>2. QED
    BY <1>3, <2>1 DEF CallInv, Executed, Counted
<1>15. ASSUME NEW k \in Calls PROVE Few(k)'
  <2>1. ASSUME NEW stage, stage \in {"log", "legacy"} PROVE Chance(stage, k)' <= Chance(stage, k)
    <3>1. Open(stage, k)' => Open(stage, k)
      BY <1>2, <1>3, <2>1 DEF Open
    <3>2. QED
      BY <3>1 DEF Chance
  <2>2. QED
    <3>1. Few(k) /\ logged[k] \in Nat /\ Allowed(k)' = Allowed(k)
      BY <1>3 DEF CallInv, Logs, Types, Allowed
    <3>2. QED
      BY <1>3, <2>1, <3>1 DEF Few, Chance, Allowed
<1>16. Logs'
  BY <1>3, <1>12, <1>15 DEF CallInv, Logs, Refused
<1>17. QED
  BY <1>4, <1>5, <1>7, <1>8, <1>9, <1>13, <1>14, <1>16 DEF CallInv

LEMMA CallsOfStart ==
  ASSUME CallInv, NEW c \in Bridges, StartBridge(c)
  PROVE  CallInv'
<1>1. CallersInv'
  BY CallersMove DEF CallInv, Types
<1>2. c \in Callers /\ c \notin Hooks /\ caller[c].stage = "new" /\ Types
  BY DaemonAssumption DEF StartBridge, Callers, CallInv
<1>3. PICK via \in {"daemon", "local"}, has \in SUBSET Kinds :
        caller' = [caller EXCEPT ![c] = [caller[c] EXCEPT !.stage = "idle", !.via = via, !.has = has]]
  <2>1. CASE Reachable
    <3>1. caller' = [caller EXCEPT ![c] = [caller[c] EXCEPT !.stage = "idle", !.via = "daemon"]]
      BY <2>1 DEF StartBridge
    <3>2. [caller[c] EXCEPT !.stage = "idle", !.via = "daemon"]
            = [caller[c] EXCEPT !.stage = "idle", !.via = "daemon", !.has = caller[c].has]
      BY <1>2, CallerFacts DEF CallerType
    <3>3. caller[c].has \in SUBSET Kinds
      BY <1>2, CallerFacts
    <3>4. QED
      BY <3>1, <3>2, <3>3
  <2>2. CASE ~Reachable
    <3>1. PICK models \in Loadable :
            caller' = [caller EXCEPT ![c] = [caller[c] EXCEPT !.stage = "idle", !.via = "local",
                         !.has = Found(c, models)]]
      BY <2>2 DEF StartBridge
    <3>2. Found(c, models) \in SUBSET Kinds
      BY DaemonAssumption DEF Found
    <3>3. QED
      BY <3>1, <3>2
  <2>3. QED
    BY <2>1, <2>2
<1> DEFINE r == [caller[c] EXCEPT !.stage = "idle", !.via = via, !.has = has]
<1>4. /\ r.stage = "idle" /\ r.sent = caller[c].sent /\ r.call = caller[c].call
      /\ r.via = via /\ r.has = has
  BY <1>2, CallerFacts DEF CallerType
<1>5. caller' = [caller EXCEPT ![c] = r]
  BY <1>3
<1> HIDE DEF r
<1>6. caller[c].call = "none" /\ ~caller[c].sent /\ caller[c].via = "none"
  BY <1>2, CallerFacts DEF CallInv, Apart, Asking
<1>7. UNCHANGED <<server, sock, jobs, history>>
  BY DEF StartBridge
<1>8. QED
  BY <1>1, <1>2, <1>3, <1>4, <1>5, <1>6, <1>7, CallsBegin

\* A bridge takes a call that nobody has had; a hook makes its own.
LEMMA CallsOfAsk ==
  ASSUME CallInv,
         \/ \E c \in Bridges, k \in Calls : Ask(c, k)
         \/ \E c \in Hooks : StartHook(c)
  PROVE  CallInv'
<1>1. CallersInv' /\ UNCHANGED <<server, sock, jobs, history>> /\ Types
  BY CallersMove DEF CallInv, Types, Ask, StartHook
<1>2. ASSUME NEW c \in Bridges, NEW k \in Calls, Ask(c, k) PROVE CallInv'
  <2> DEFINE r == [caller[c] EXCEPT !.stage = "call", !.call = k]
  <2>1. /\ c \in Callers /\ c \notin Hooks /\ k \notin Hooks /\ caller[c].stage = "idle"
        /\ outcome[k] = Unanswered /\ (\A b \in Callers : caller[b].call # k)
        /\ caller' = [caller EXCEPT ![c] = r]
    BY <1>2, DaemonAssumption DEF Ask, Callers
  <2>2. /\ r.stage = "call" /\ r.sent = caller[c].sent /\ r.call = k
        /\ r.via = caller[c].via /\ r.has = caller[c].has
    BY <1>1, <2>1, CallerFacts DEF CallerType
  <2>3. ~caller[c].sent /\ caller[c].via \in {"daemon", "local"}
    BY <1>1, <2>1, CallerFacts DEF CallInv, Apart, Asking
  <2>4. r.via = "local" => c \in Bridges
    BY <2>1, <2>2 DEF CallInv, Routes
  <2> HIDE DEF r
  <2>5. QED
    BY <1>1, <2>1, <2>2, <2>3, <2>4, CallsBegin
<1>3. ASSUME NEW c \in Hooks, StartHook(c) PROVE CallInv'
  <2> DEFINE r == [caller[c] EXCEPT !.stage = "call", !.via = "daemon", !.call = c]
  <2>1. /\ c \in Callers /\ c \in Calls /\ caller[c].stage = "new"
        /\ caller' = [caller EXCEPT ![c] = r]
    BY <1>3, DaemonAssumption DEF StartHook, Callers
  <2>2. /\ r.stage = "call" /\ r.sent = caller[c].sent /\ r.call = c /\ r.via = "daemon"
    BY <1>1, <2>1, CallerFacts DEF CallerType
  <2>3. ~caller[c].sent /\ caller[c].via = "none" /\ caller[c].call = "none"
    BY <1>1, <2>1, CallerFacts DEF CallInv, Apart, Asking
  <2>4. outcome[c] = Unanswered
    BY <2>1 DEF CallInv, Told
  <2>5. \A d \in Callers : caller[d].call # c
    BY <2>1, <2>3, DaemonAssumption DEF CallInv, Apart
  <2> HIDE DEF r
  <2>6. QED
    BY <1>1, <2>1, <2>2, <2>3, <2>4, <2>5, CallsBegin
<1>4. QED
  BY <1>2, <1>3

-----------------------------------------------------------------------------
(* Sending and ending.                                                       *)

\* The request that is sent is the first of its call and stage.
LEMMA CallsOfSend ==
  ASSUME CallInv, NEW c \in Callers, Send(c), caller[c].via = "local" \/ Reachable
  PROVE  CallInv'
<1> DEFINE k == caller[c].call
           stage == caller[c].stage
           p == IF caller[c].via = "local" THEN c ELSE sock
           r == [caller[c] EXCEPT !.sent = TRUE]
<1>0. PICK new : new = Job(c, p)
  OBVIOUS
<1>1. /\ stage \in Asking /\ ~caller[c].sent /\ jobs' = jobs \cup {new}
      /\ caller' = [caller EXCEPT ![c] = r]
      /\ UNCHANGED <<server, sock, outcome, ran, logged, givenUp>>
  BY <1>0 DEF Send, Asking
<1>2. Types /\ k \in Calls /\ k # "none"
  BY <1>1, CallerFacts, DaemonAssumption DEF CallInv
<1>3. CallersInv'
  BY CallersMove DEF CallInv, Types
<1>4. /\ r.via = caller[c].via /\ r.has = caller[c].has /\ r.stage = stage /\ r.call = k /\ r.sent
  BY <1>2, CallerFacts DEF CallerType
<1>5. /\ new.by = c /\ new.at = p /\ new.call = k /\ new.stage = stage /\ new.step = "todo"
      /\ ~new.ok
  BY <1>0 DEF Job
<1>6. caller[c].via # "none"
  BY <1>1 DEF CallInv, Apart, Asking
<1>7. /\ p \in Procs
      /\ \/ p \in Servers /\ Serving(p) /\ caller[c].via = "daemon"
         \/ p = c /\ caller[c].via = "local"
  BY <1>2, <1>6, CallerFacts, DaemonAssumption DEF CallInv, Routes, Types, Reachable
<1>8. new \in JobType
  BY <1>0, <1>1, <1>2, <1>7 DEF Job, JobType, Cold
<1>9. caller'[c] = r /\ \A d \in Callers : d # c => caller'[d] = caller[d]
  BY <1>1, <1>2, CallerFacts
<1> HIDE DEF p, r
<1>10. Types'
  BY <1>1, <1>3, <1>8 DEF CallInv, Types, ServerType
<1>11. ASSUME NEW d \in Callers
       PROVE  /\ caller'[d].via = caller[d].via /\ caller'[d].has = caller[d].has
              /\ caller'[d].stage = caller[d].stage /\ caller'[d].call = caller[d].call
              /\ caller[d].sent => caller'[d].sent
  BY <1>4, <1>9
<1>12. Routes'
  BY <1>1, <1>11 DEF CallInv, Routes
<1>13. ASSUME NEW d \in Callers PROVE Apart(d)' /\ Told(d)'
  BY <1>1, <1>11 DEF CallInv, Apart, Told
<1>14. ASSUME NEW i \in Calls PROVE Answered(i)'
  BY <1>1, <1>11 DEF CallInv, Answered
<1>15. ASSUME NEW j \in jobs PROVE ~(j.call = k /\ j.stage = stage)
  BY <1>1, <1>2 DEF CallInv, Requests, Followed, Behind, Asking
<1>16. ASSUME NEW j \in jobs PROVE Placed(j)' /\ Keyed(j)' /\ Followed(j)'
  <2>1. Placed(j) /\ Keyed(j) /\ Followed(j) /\ j.by \in Callers
    BY <1>2, JobFacts DEF CallInv, Requests
  <2>2. Waits(j.by, j) => Waits(j.by, j)'
    BY <1>11, <2>1 DEF Waits
  <2>3. \A d \in Callers : Behind(j, caller[d]) => Behind(j, caller'[d])
    BY <1>11 DEF Behind
  <2>4. QED
    BY <1>1, <1>11, <2>1, <2>2, <2>3 DEF Placed, Serving, Keyed, Followed
<1>17. Placed(new)' /\ Keyed(new)' /\ Followed(new)'
  <2>1. Placed(new)' /\ Keyed(new)'
    BY <1>1, <1>5, <1>7, <1>11 DEF Placed, Serving, Keyed
  <2>2. Waits(c, new)'
    BY <1>4, <1>5, <1>9 DEF Waits
  <2>3. ASSUME NEW d \in Callers, caller'[d].call = k PROVE d = c /\ Behind(new, caller'[d])
    BY <1>2, <1>4, <1>5, <1>9, <1>11, <2>3 DEF CallInv, Apart, Behind
  <2>4. stage # "call" => outcome[k] = "ok"
    BY <1>1 DEF CallInv, Told, Asking
  <2>5. QED
    BY <1>1, <1>5, <2>1, <2>2, <2>3, <2>4 DEF Followed
<1>18. Requests'
  BY <1>1, <1>5, <1>15, <1>16, <1>17 DEF CallInv, Requests
<1>19. ran[k] = 0 \/ stage # "call"
  <2>1. ASSUME stage = "call" PROVE outcome[k] = Unanswered /\ \A d \in Callers : caller[d].call = k => ~caller[d].sent
    BY <1>1, <1>2, <2>1 DEF CallInv, Told, Apart
  <2>2. QED
    BY <1>2, <2>1 DEF CallInv, Executed, Once
<1>20. Executed'
  <2>1. ASSUME NEW i \in Calls PROVE Once(i)'
    BY <1>1, <1>11 DEF CallInv, Executed, Once
  <2>2. ASSUME NEW j \in jobs' PROVE Counted(j)'
    BY <1>1, <1>5, <1>19 DEF CallInv, Executed, Counted
  <2>3. QED
    BY <2>1, <2>2 DEF Executed
<1>21. ASSUME NEW i \in Calls PROVE Few(i)'
  <2>1. ASSUME NEW s, s \in {"log", "legacy"} PROVE Chance(s, i)' <= Chance(s, i)
    <3>1. Open(s, i)' => Open(s, i)
      <4>1. ASSUME NEW j \in jobs', j.call = i, j.stage = s, j.step = "todo" PROVE Open(s, i)
        <5>1. CASE j = new
          BY <1>1, <1>5, <4>1, <5>1 DEF Open
        <5>2. CASE j \in jobs
          BY <4>1, <5>2 DEF Open
        <5>3. QED
          BY <1>1, <5>1, <5>2
      <4>2. ASSUME NEW d \in Callers, caller'[d].call = i, caller'[d].stage = s, ~caller'[d].sent
            PROVE  Open(s, i)
        BY <1>11, <4>2 DEF Open
      <4>3. QED
        BY <4>1, <4>2 DEF Open
    <3>2. QED
      BY <3>1 DEF Chance
  <2>2. Few(i) /\ logged[i] \in Nat /\ Allowed(i)' = Allowed(i)
    BY <1>1 DEF CallInv, Logs, Types, Allowed
  <2>3. QED
    BY <1>1, <2>1, <2>2 DEF Few, Chance, Allowed
<1>22. Logs'
  <2>1. ASSUME NEW j \in jobs', Refused(j)' PROVE logged'[j.call] = 0
    <3>1. j # new
      BY <1>5, <2>1 DEF Refused
    <3>2. j \in jobs /\ j.stage = "log" /\ j.step = "done" /\ ~j.ok /\ Waits(j.by, j)'
      BY <1>1, <2>1, <3>1 DEF Refused
    <3>3. Waits(j.by, j)
      <4>1. CASE j.by = c
        BY <1>4, <1>9, <1>15, <3>2, <4>1 DEF Waits
      <4>2. CASE j.by # c
        BY <1>2, <1>9, <3>2, <4>2, JobFacts DEF Waits
      <4>3. QED
        BY <4>1, <4>2
    <3>4. QED
      BY <1>1, <3>2, <3>3 DEF CallInv, Logs, Refused
  <2>2. QED
    BY <1>21, <2>1 DEF Logs
<1>23. QED
  BY <1>10, <1>12, <1>13, <1>14, <1>18, <1>20, <1>22 DEF CallInv

\* A stage ends: well after its request was done, or badly.  A hook's log that
\* failed unseen was not written.
LEMMA CallsOfEnd ==
  ASSUME CallInv, NEW c \in Callers, NEW ok \in BOOLEAN, NEW hits \in BOOLEAN,
         caller[c].stage \in Asking, End(c, ok, hits),
         jobs' \subseteq jobs, UNCHANGED <<server, sock, ran, logged>>,
         \/ givenUp' = givenUp
         \/ ~ok /\ givenUp' = givenUp \cup {k \in {caller[c].call} : caller[c].stage = "log"},
         ok /\ caller[c].stage = "call" => ran[caller[c].call] = 1,
         ~ok /\ caller[c].stage = "log" /\ givenUp' = givenUp =>
           /\ logged[caller[c].call] = 0
           /\ \A j \in jobs' : j.call = caller[c].call => j.stage # "log"
  PROVE  CallInv'
<1>0. PICK k : k = caller[c].call
  OBVIOUS
<1> DEFINE stage == caller[c].stage
           next == After(c, stage, ok, hits)
           call == IF next \in {"idle", "gone"} THEN "none" ELSE k
           r == [caller[c] EXCEPT !.stage = next, !.sent = FALSE, !.call = call]
           answer == IF ok THEN "ok" ELSE "failed"
<1>1. /\ caller' = [caller EXCEPT ![c] = r]
      /\ outcome' = IF stage # "call" THEN outcome ELSE [outcome EXCEPT ![k] = answer]
  BY <1>0 DEF End
<1>2. Types /\ k \in Calls /\ k # "none" /\ c # "none"
  BY <1>0, CallerFacts, DaemonAssumption DEF CallInv
<1>3. CallersInv'
  BY <1>2, EndKeepsCallers DEF Types
<1>4. /\ r.via = caller[c].via /\ r.has = caller[c].has /\ r.stage = next /\ ~r.sent /\ r.call = call
  BY <1>2, CallerFacts DEF CallerType
<1>5. /\ stage = "call" => next = (IF ok /\ hits THEN "log" ELSE IF c \in Hooks THEN "gone" ELSE "idle")
      /\ stage = "log" => next = (IF c \in Bridges THEN "idle" ELSE IF ok THEN "gone" ELSE "legacy")
      /\ stage = "legacy" => next = "gone"
  BY DEF After
<1>6. answer \in AnswerType /\ (answer = "ok" <=> ok)
  BY DEF AnswerType
<1>7. answer # Unanswered
  BY DEF Unanswered
<1>8. caller'[c] = r /\ \A d \in Callers : d # c => caller'[d] = caller[d]
  BY <1>1, <1>2, CallerFacts
<1>9. /\ \A i \in Calls : i # k \/ stage # "call" => outcome'[i] = outcome[i]
      /\ stage = "call" => outcome'[k] = answer
      /\ outcome' \in [Calls -> AnswerType]
  BY <1>1, <1>2, <1>6 DEF Types
<1> HIDE DEF next, call, r, answer
<1>10. call = IF next \in {"idle", "gone"} THEN "none" ELSE k
  BY DEF call
<1>11. Types'
  BY <1>2, <1>3, <1>9 DEF Types, ServerType
<1>12. Routes'
  BY <1>4, <1>8 DEF CallInv, Routes
<1>13. c \in Bridges \/ c \in Hooks
  BY DEF Callers
<1>14. Apart(c) /\ Told(c) /\ Answered(k) /\ Few(k) /\ Once(k) /\ caller[c].via # "none"
  BY <1>2 DEF CallInv, Logs, Executed, Apart, Asking
<1>31. /\ stage = "call" => outcome[k] = Unanswered
       /\ stage \in {"log", "legacy"} => outcome[k] = "ok"
       /\ stage \in {"call", "log"} => k \notin givenUp
       /\ k \in Hooks => k = c
       /\ c \in Hooks => k = c
  BY <1>0, <1>2, <1>14 DEF Told, Apart
<1>15. ASSUME NEW d \in Callers, d # c PROVE Apart(d) /\ Told(d) /\ caller[d].call # k
  BY <1>0, <1>2, <1>15 DEF CallInv, Apart
<1>16. ASSUME NEW d \in Callers PROVE Apart(d)'
  <2>1. CASE d = c
    <3>1. /\ next \in {"log", "legacy", "idle", "gone"} /\ (next \in {"log", "legacy"} => call = k)
          /\ next \in {"idle", "gone"} => call = "none"
          /\ next = "legacy" => c \in Hooks
      BY <1>5, <1>10, <1>13 DEF Asking
    <3>2. \A e \in Callers : caller'[e].call = call /\ call # "none" => e = c
      BY <1>8, <1>10, <1>15
    <3>3. QED
      BY <1>4, <1>8, <1>14, <1>31, <2>1, <3>1, <3>2, DaemonAssumption DEF Apart, Asking
  <2>2. CASE d # c
    BY <1>4, <1>8, <1>10, <1>15, <2>2 DEF Apart
  <2>3. QED
    BY <2>1, <2>2
<1>17. givenUp \subseteq givenUp' /\ givenUp' \subseteq givenUp \cup {k} /\ (k \in givenUp' => k \in givenUp \/ stage = "log")
  BY <1>0
<1>18. (outcome[k] = "ok" => stage # "call") /\ (stage # "call" => outcome[k] = "ok")
  BY <1>31 DEF Unanswered, Asking
<1>19. ASSUME NEW d \in Callers PROVE Told(d)'
  <2>1. CASE d = c
    <3>1. next = "log" => call = k /\ outcome'[k] = "ok" /\ k \notin givenUp'
      BY <1>5, <1>6, <1>9, <1>10, <1>17, <1>31 DEF Asking
    <3>2. next = "legacy" => call = k /\ outcome'[k] = "ok"
      BY <1>2, <1>5, <1>9, <1>10, <1>31 DEF Asking
    <3>3. next \notin {"new", "call"}
      BY <1>5 DEF Asking
    <3>4. QED
      BY <1>4, <1>8, <2>1, <3>1, <3>2, <3>3 DEF Told
  <2>2. CASE d # c
    <3>1. caller[d].stage \in {"call", "log", "legacy"} => caller[d].call \in Calls
      BY <1>2, CallerFacts DEF Asking
    <3>2. d \in Hooks => d \in Calls /\ d # k
      BY <1>31, <2>2, DaemonAssumption
    <3>3. QED
      BY <1>8, <1>9, <1>15, <1>17, <2>2, <3>1, <3>2 DEF Told
  <2>3. QED
    BY <2>1, <2>2
<1>21. ASSUME NEW i \in Calls PROVE Answered(i)'
  <2>1. CASE i = k /\ stage = "call"
    BY <1>17, <1>31, <2>1 DEF Answered
  <2>2. CASE i # k \/ stage # "call"
    <3>1. outcome'[i] = outcome[i] /\ Answered(i)
      BY <1>9, <2>2 DEF CallInv
    <3>2. QED
      BY <1>17, <1>31, <2>2, <3>1 DEF Answered
  <2>3. QED
    BY <2>1, <2>2
<1>22. ASSUME NEW j \in jobs'
       PROVE  /\ j \in jobs /\ j.by \in Callers /\ j.call \in Calls /\ j.call # "none" /\ j.stage \in Asking
              /\ Placed(j) /\ Keyed(j) /\ Followed(j)
  BY <1>2, JobFacts DEF CallInv, Requests
<1>23. ASSUME NEW j \in jobs' PROVE Placed(j)' /\ Keyed(j)' /\ Followed(j)'
  <2>1. Placed(j)' /\ Keyed(j)'
    BY <1>4, <1>8, <1>22 DEF Placed, Serving, Keyed
  <2>2. outcome'[j.call] = Unanswered => Waits(j.by, j)'
    <3>1. ASSUME outcome'[j.call] = Unanswered PROVE outcome[j.call] = Unanswered /\ j.call # k
      <4>1. stage # "call" => outcome[k] # Unanswered
        BY <1>18 DEF Unanswered
      <4>2. QED
        BY <1>7, <1>9, <1>22, <3>1, <4>1
    <3>2. ASSUME outcome'[j.call] = Unanswered PROVE Waits(j.by, j) /\ j.by # c
      BY <1>0, <1>22, <3>1, <3>2 DEF Followed, Waits
    <3>3. QED
      BY <1>8, <1>22, <3>2 DEF Waits
  <2>3. ASSUME NEW d \in Callers, caller'[d].call = j.call PROVE j.by = d /\ Behind(j, caller'[d])
    <3>1. CASE d # c
      BY <1>8, <1>22, <2>3, <3>1 DEF Followed
    <3>2. CASE d = c
      <4>1. j.call = k /\ next \in {"log", "legacy"}
        BY <1>4, <1>5, <1>8, <1>10, <1>22, <2>3, <3>2 DEF Asking
      <4>2. j.by = c /\ Behind(j, caller[c])
        BY <1>0, <1>22, <4>1 DEF Followed
      <4>3. QED
        BY <1>4, <1>5, <1>8, <1>22, <3>2, <4>1, <4>2 DEF Behind, Asking
    <3>3. QED
      BY <3>1, <3>2
  <2>4. j.stage # "call" => outcome'[j.call] = "ok"
    <3>1. CASE j.call = k /\ stage = "call"
      BY <1>22, <1>18, <3>1 DEF Followed
    <3>2. CASE j.call # k \/ stage # "call"
      BY <1>9, <1>22, <3>2 DEF Followed
    <3>3. QED
      BY <3>1, <3>2
  <2>5. QED
    BY <2>1, <2>2, <2>3, <2>4 DEF Followed
<1>24. Requests'
  BY <1>22, <1>23 DEF CallInv, Requests
<1>25. Executed'
  <2>1. ASSUME NEW i \in Calls PROVE Once(i)'
    <3>1. CASE i = k /\ stage = "call"
      BY <1>0, <1>2, <1>6, <1>7, <1>9, <1>14, <3>1 DEF Once
    <3>2. CASE i # k \/ stage # "call"
      <4>1. outcome'[i] = outcome[i] /\ Once(i)
        BY <1>9, <3>2 DEF CallInv, Executed
      <4>2. outcome[i] = Unanswered => i # k
        BY <1>18, <3>2 DEF Unanswered
      <4>3. ASSUME NEW d \in Callers, caller[d].call = i, i # k PROVE caller'[d] = caller[d]
        BY <1>0, <1>8, <4>3
      <4>4. QED
        BY <4>1, <4>2, <4>3 DEF Once
    <3>3. QED
      BY <3>1, <3>2
  <2>2. QED
    BY <1>22, <2>1 DEF CallInv, Executed, Counted
<1>26. ASSUME NEW i \in Calls, NEW s, s \in {"log", "legacy"}, Open(s, i)'
       PROVE  Open(s, i) \/ (i = k /\ s = next)
  <2>1. ASSUME NEW j \in jobs', j.call = i, j.stage = s, j.step = "todo" PROVE Open(s, i)
    BY <2>1 DEF Open
  <2>2. ASSUME NEW d \in Callers, caller'[d].call = i, caller'[d].stage = s, ~caller'[d].sent
        PROVE  Open(s, i) \/ (i = k /\ s = next)
    <3>1. CASE d = c
      BY <1>4, <1>8, <1>10, <1>26, <2>2, <3>1
    <3>2. CASE d # c
      BY <1>8, <2>2, <3>2 DEF Open
    <3>3. QED
      BY <3>1, <3>2
  <2>3. QED
    BY <1>26, <2>1, <2>2 DEF Open
<1>27. ASSUME NEW i \in Calls, i # k PROVE Few(i)'
  <2>1. /\ Few(i) /\ logged[i] \in Nat /\ outcome'[i] = outcome[i] /\ Allowed(i)' = Allowed(i)
    BY <1>2, <1>9, <1>17, <1>27 DEF CallInv, Logs, Types, Allowed
  <2>2. Chance("log", i)' <= Chance("log", i) /\ Chance("legacy", i)' <= Chance("legacy", i)
    BY <1>26, <1>27 DEF Chance
  <2>3. QED
    BY <2>1, <2>2 DEF Few, Chance, Allowed
<1>28. Few(k)'
  <2>1. /\ Few(k) /\ logged[k] \in Nat /\ Allowed(k) \in {1, 2} /\ Allowed(k)' \in {1, 2}
        /\ Allowed(k) <= Allowed(k)'
    BY <1>2, <1>14, <1>17 DEF Types, Allowed
  <2>2. logged'[k] > 0 => outcome'[k] = "ok"
    BY <1>2, <1>9, <1>18, <2>1 DEF Few
  <2>3. /\ Chance("log", k) \in {0, 1} /\ Chance("legacy", k) \in {0, 1}
        /\ Chance("log", k)' \in {0, 1} /\ Chance("legacy", k)' \in {0, 1}
    BY DEF Chance
  <2>4. ASSUME NEW j \in jobs, j.call = k PROVE Behind(j, caller[c])
    BY <1>0, <2>4 DEF CallInv, Requests, Followed
  <2>5. \A d \in Callers : caller[d].call = k => d = c
    BY <1>15
  <2>6. CASE next \notin {"log", "legacy"}
    <3>1. Chance("log", k)' <= Chance("log", k) /\ Chance("legacy", k)' <= Chance("legacy", k)
      BY <1>2, <1>26, <2>6 DEF Chance
    <3>2. QED
      BY <2>1, <2>2, <2>3, <3>1 DEF Few
  <2>7. CASE next = "log"
    <3>1. stage = "call" /\ logged[k] = 0
      BY <1>5, <1>18, <2>1, <2>7 DEF Few, Asking
    <3>2. ~Open("legacy", k)
      BY <2>4, <2>5, <3>1 DEF Open, Behind
    <3>3. ~Open("legacy", k)'
      BY <1>2, <1>26, <2>7, <3>2
    <3>4. QED
      BY <2>1, <2>2, <2>3, <3>1, <3>3 DEF Few, Chance
  <2>8. CASE next = "legacy"
    <3>1. stage = "log" /\ ~ok /\ k \in Hooks /\ k \notin givenUp
      BY <1>5, <1>13, <1>31, <2>8, DaemonAssumption DEF Asking
    <3>2. CASE givenUp' = givenUp
      <4>1. logged[k] = 0 /\ \A j \in jobs' : j.call = k => j.stage # "log"
        BY <1>0, <3>1, <3>2
      <4>2. ~Open("log", k)'
        BY <1>4, <1>8, <1>15, <2>8, <4>1 DEF Open
      <4>3. QED
        BY <2>1, <2>2, <2>3, <4>1, <4>2 DEF Few, Chance
    <3>3. CASE givenUp' # givenUp
      <4>1. k \in givenUp' /\ Allowed(k)' = 2 /\ Allowed(k) = 1
        BY <1>0, <3>1, <3>3 DEF Allowed
      <4>2. Chance("log", k)' <= Chance("log", k)
        BY <1>2, <1>26, <2>8 DEF Chance
      <4>3. QED
        BY <2>1, <2>2, <2>3, <4>1, <4>2 DEF Few
    <3>4. QED
      BY <3>2, <3>3
  <2>9. QED
    BY <2>6, <2>7, <2>8
<1>29. Logs'
  <2>1. ASSUME NEW j \in jobs', Refused(j)' PROVE logged'[j.call] = 0
    <3>1. Waits(j.by, j)' /\ j.stage = "log" /\ j.step = "done" /\ ~j.ok
      BY <2>1 DEF Refused
    <3>2. j.by # c
      BY <1>4, <1>8, <3>1 DEF Waits
    <3>3. Refused(j)
      BY <1>8, <1>22, <3>1, <3>2 DEF Refused, Waits
    <3>4. QED
      BY <1>22, <3>3 DEF CallInv, Logs
  <2>2. QED
    BY <1>27, <1>28, <2>1 DEF Logs
<1>30. QED
  BY <1>11, <1>12, <1>16, <1>19, <1>21, <1>24, <1>25, <1>29 DEF CallInv

-----------------------------------------------------------------------------
(* Executing.                                                                 *)

\* A request moves on at the process that has it, or is done and dropped
\* because nobody reads its response.  What is executed is not executed again.
LEMMA CallsOfWork ==
  ASSUME CallInv, NEW j \in jobs, NEW new \in JobType,
         new.by = j.by, new.at = j.at, new.call = j.call, new.stage = j.stage,
         new.step \in {"keyed", "done"}, Keyed(new),
         UNCHANGED <<server, sock, caller, outcome, givenUp>>,
         \/ jobs' = (jobs \ {j}) \cup {new}
         \/ new.step = "done" /\ jobs' = (jobs \ {j}) \cup {q \in {new} : Waits(j.by, j)},
         new.step = "done" /\ new.ok /\ new.stage = "call" =>
           j.step # "done" /\ ran' = [ran EXCEPT ![j.call] = @ + 1],
         ~(new.step = "done" /\ new.ok /\ new.stage = "call") =>
           ran' = ran /\ j.step # "done",
         new.step = "done" /\ new.ok /\ new.stage # "call" =>
           j.step = "todo" /\ logged' = [logged EXCEPT ![j.call] = @ + 1],
         ~(new.step = "done" /\ new.ok /\ new.stage # "call") => logged' = logged
  PROVE  CallInv'
<1> DEFINE k == j.call
           executes == new.step = "done" /\ new.ok /\ new.stage = "call"
           writes == new.step = "done" /\ new.ok /\ new.stage # "call"
<1>1. Types /\ k \in Calls /\ j.by \in Callers /\ j.stage \in Asking /\ j.step \in {"todo", "keyed"}
  BY JobFacts DEF CallInv
<1>2. /\ jobs' \subseteq (jobs \ {j}) \cup {new}
      /\ \A i \in jobs' : i = new \/ (i \in jobs /\ i # j)
  OBVIOUS
<1>3. Types'
  <2>1. jobs' \subseteq JobType
    BY <1>1, <1>2 DEF Types
  <2>2. ran' \in [Calls -> Nat] /\ logged' \in [Calls -> Nat]
    BY <1>1 DEF Types
  <2>3. QED
    BY <1>1, <2>1, <2>2 DEF Types, CallersInv, ServerType
<1>4. Routes' /\ (\A c \in Callers : Apart(c)' /\ Told(c)') /\ (\A i \in Calls : Answered(i)')
  BY DEF CallInv, Routes, Apart, Told, Answered
<1>5. \A i \in jobs : i.call = k /\ i.stage = j.stage => i = j
  BY DEF CallInv, Requests
<1>6. \A i \in jobs : Placed(i) /\ Keyed(i) /\ Followed(i)
  BY DEF CallInv, Requests
<1>7. Placed(new) /\ Followed(new) /\ (Waits(new.by, new) <=> Waits(j.by, j))
  BY <1>6 DEF Placed, Followed, Waits, Behind
<1>8. ASSUME NEW i \in jobs' PROVE Placed(i)' /\ Keyed(i)' /\ Followed(i)'
  <2>1. Placed(i) /\ Keyed(i) /\ Followed(i)
    BY <1>2, <1>6, <1>7
  <2>2. QED
    BY <2>1 DEF Placed, Serving, Keyed, Followed, Waits
<1>9. Requests'
  <2>1. ASSUME NEW i \in jobs', NEW i2 \in jobs', i2.call = i.call, i2.stage = i.stage PROVE i2 = i
    <3>1. CASE i = new
      BY <1>2, <1>5, <2>1, <3>1
    <3>2. CASE i2 = new
      BY <1>2, <1>5, <2>1, <3>2
    <3>3. CASE i # new /\ i2 # new
      BY <1>2, <2>1, <3>3 DEF CallInv, Requests
    <3>4. QED
      BY <3>1, <3>2, <3>3
  <2>2. QED
    BY <1>8, <2>1 DEF Requests
<1>10. j.stage = "call" => ran[k] = 0
  BY <1>1 DEF CallInv, Executed, Counted
<1>11. /\ \A i \in Calls : i # k => ran'[i] = ran[i] /\ logged'[i] = logged[i]
       /\ executes => ran'[k] = ran[k] + 1 /\ logged' = logged
       /\ ~executes => ran' = ran
       /\ writes => logged'[k] = logged[k] + 1
       /\ ~writes => logged' = logged
  BY <1>1 DEF Types
<1>12. Executed'
  <2>1. ASSUME NEW i \in Calls PROVE Once(i)'
    <3>1. Once(i)
      BY DEF CallInv, Executed
    <3>2. CASE i = k /\ executes
      <4>1. ran'[k] = 1
        BY <1>10, <1>11, <3>2
      <4>2. outcome[k] = Unanswered => caller[j.by].call = k /\ caller[j.by].sent
        BY <1>6 DEF Followed, Waits
      <4>3. QED
        BY <1>1, <3>2, <4>1, <4>2 DEF Once
    <3>3. CASE i # k \/ ~executes
      BY <1>11, <3>1, <3>3 DEF Once
    <3>4. QED
      BY <3>2, <3>3
  <2>2. ASSUME NEW i \in jobs' PROVE Counted(i)'
    <3>1. CASE i = new
      BY <1>1, <1>10, <1>11, <3>1 DEF Counted
    <3>2. CASE i \in jobs /\ i # j
      <4>1. Counted(i) /\ i.call \in Calls
        BY <1>1, <3>2, JobFacts DEF CallInv, Executed
      <4>2. i.stage = "call" => i.call # k \/ j.stage # "call"
        BY <1>5, <3>2
      <4>3. QED
        BY <1>11, <4>1, <4>2 DEF Counted
    <3>3. QED
      BY <1>2, <3>1, <3>2
  <2>3. QED
    BY <2>1, <2>2 DEF Executed
<1>13. ASSUME NEW i \in Calls, NEW s, s \in {"log", "legacy"}
       PROVE  /\ Open(s, i)' => Open(s, i)
              /\ i = k /\ s = j.stage => ~Open(s, i)'
              /\ i = k /\ s = j.stage /\ j.step = "todo" => Open(s, i)
  <2>1. Open(s, i)' => Open(s, i)
    BY <1>2 DEF Open
  <2>2. ASSUME i = k, s = j.stage PROVE ~Open(s, i)'
    <3>1. \A d \in Callers : caller[d].call = k /\ caller[d].stage = s => caller[d].sent
      BY <1>6, <2>2 DEF Followed, Behind
    <3>2. QED
      BY <1>2, <1>5, <2>2, <3>1 DEF Open
  <2>3. QED
    BY <2>1, <2>2 DEF Open
<1>14. ASSUME NEW i \in Calls PROVE Few(i)'
  <2>1. /\ Few(i) /\ logged[i] \in Nat /\ Allowed(i)' = Allowed(i) /\ Allowed(i) \in {1, 2}
    BY <1>1 DEF CallInv, Logs, Types, Allowed
  <2>2. /\ Chance("log", i) \in {0, 1} /\ Chance("legacy", i) \in {0, 1}
        /\ Chance("log", i)' \in {0, 1} /\ Chance("legacy", i)' \in {0, 1}
        /\ Chance("log", i)' <= Chance("log", i) /\ Chance("legacy", i)' <= Chance("legacy", i)
    BY <1>13 DEF Chance
  <2>3. CASE i = k /\ writes
    <3>1. j.stage \in {"log", "legacy"} /\ j.step = "todo" /\ outcome[k] = "ok"
      BY <1>1, <1>6, <2>3 DEF Followed, Asking
    <3>2. Chance(j.stage, k) = 1 /\ Chance(j.stage, k)' = 0
      BY <1>1, <1>13, <3>1 DEF Chance
    <3>3. logged'[k] = logged[k] + 1
      BY <1>11, <2>3
    <3>4. CASE j.stage = "log"
      BY <2>1, <2>2, <2>3, <3>1, <3>2, <3>3, <3>4 DEF Few
    <3>5. CASE j.stage = "legacy"
      BY <2>1, <2>2, <2>3, <3>1, <3>2, <3>3, <3>5 DEF Few
    <3>6. QED
      BY <3>1, <3>4, <3>5
  <2>4. CASE i # k \/ ~writes
    <3>1. logged'[i] = logged[i]
      BY <1>11, <2>4
    <3>2. QED
      BY <2>1, <2>2, <3>1 DEF Few
  <2>5. QED
    BY <2>3, <2>4
<1>15. ASSUME NEW i \in jobs', Refused(i)' PROVE logged'[i.call] = 0
  <2>1. Refused(i)
    BY <1>15 DEF Refused, Waits
  <2>2. CASE i = new
    <3>1. Waits(j.by, j) /\ j.stage = "log" /\ ~writes
      BY <1>7, <2>1, <2>2 DEF Refused
    <3>2. caller[j.by].call = k /\ caller[j.by].stage = "log"
      BY <3>1 DEF Waits
    <3>3. k \notin givenUp
      BY <1>1, <3>2 DEF CallInv, Told
    <3>4. Few(k) /\ Allowed(k) = 1 /\ logged[k] \in Nat
      BY <1>1, <3>3 DEF CallInv, Logs, Types, Allowed
    <3>5. j.step = "todo"
      BY <1>1, <1>6, <3>1 DEF Keyed
    <3>6. Chance("log", k) = 1 /\ Chance("legacy", k) \in {0, 1}
      BY <1>1, <1>13, <3>1, <3>5 DEF Chance
    <3>7. logged[k] = 0
      BY <3>4, <3>6 DEF Few
    <3>8. QED
      BY <1>11, <2>2, <3>1, <3>7
  <2>3. CASE i \in jobs /\ i # j
    <3>1. logged[i.call] = 0 /\ i.call \in Calls
      BY <1>1, <2>1, <2>3, JobFacts DEF CallInv, Logs
    <3>2. CASE i.call = k
      <4>1. i.stage = "log" /\ j.stage # "log" /\ Waits(i.by, i) /\ i.by \in Callers
        BY <1>1, <1>5, <2>1, <2>3, <3>2, JobFacts DEF Refused
      <4>2. Behind(j, caller[i.by]) /\ caller[i.by].stage = "log"
        <5>1. caller[i.by].call = j.call /\ caller[i.by].stage = "log"
          BY <3>2, <4>1 DEF Waits
        <5>2. \A c \in Callers : caller[c].call = j.call => Behind(j, caller[c])
          BY <1>6 DEF Followed
        <5>3. QED
          BY <4>1, <5>1, <5>2
      <4>3. j.stage = "call"
        BY <4>1, <4>2 DEF Behind
      <4>4. QED
        BY <1>11, <3>1, <4>3
    <3>3. CASE i.call # k
      BY <1>11, <3>1, <3>3
    <3>4. QED
      BY <3>2, <3>3
  <2>4. QED
    BY <1>2, <2>2, <2>3
<1>16. QED
  BY <1>3, <1>4, <1>9, <1>12, <1>14, <1>15 DEF CallInv, Logs

-----------------------------------------------------------------------------
(* The keys of the copies.  A memory has one row at most, so that the number  *)
(* of rows is bounded by the number of memories.                              *)

OneRow == \A r, q \in tokens : r.mem = q.mem => r = q
CacheType ==
  /\ cache = [p \in Procs |-> cache[p]]
  /\ \A p \in Procs : cache[p] = Cold
       \/ (cache[p].key \in Keys /\ cache[p].rows \subseteq Mems /\ cache[p].of \in Stores)

TokenInv == /\ RowsInv /\ OneRow /\ CacheType
            /\ live \subseteq known /\ known \subseteq Mems /\ hasty \subseteq Stores \X (1..MaxClock)

LEMMA Least ==
  ASSUME NEW T, T \subseteq Nat, T # {}
  PROVE  \E m \in T : \A k \in T : m <= k
<1>1. PICK m \in T : \A k \in T : ~(<<k, m>> \in OpToRel(<, Nat))
  BY NatLessThanWellFounded, WFMin
<1>2. \A k \in T : ~(k < m)
  BY <1>1 DEF OpToRel
<1>3. QED
  BY <1>2

\* Rows have a last second.
LEMMA LastMadeIs ==
  ASSUME NEW rows, rows \subseteq Rows
  PROVE  /\ LastMade(rows) \in 0..MaxClock
         /\ \A r \in rows : r.made <= LastMade(rows)
         /\ LastMade(rows) = 0 \/ \E r \in rows : r.made = LastMade(rows)
<1> DEFINE T == {s \in 0..MaxClock : \A r \in rows : r.made <= s}
<1>1. T \subseteq Nat /\ MaxClock \in T
  BY TokenMatricesAssumption DEF Rows
<1>2. PICK m \in T : \A k \in T : m <= k
  <2> HIDE DEF T
  <2> QED BY <1>1, Least
<1>3. m = 0 \/ \E r \in rows : r.made = m
  <2>1. ASSUME m # 0 PROVE \E r \in rows : r.made = m
    <3>1. m - 1 \in 0..MaxClock /\ m - 1 \notin T
      BY <1>1, <1>2, <2>1
    <3>2. PICK r \in rows : ~(r.made <= m - 1)
      BY <3>1
    <3>3. r.made \in Int /\ r.made <= m /\ m \in Int
      BY <1>2 DEF Rows
    <3>4. QED
      BY <3>2, <3>3
  <2>2. QED
    BY <2>1
<1>4. \E s \in 0..MaxClock : (\A r \in rows : r.made <= s) /\ (s = 0 \/ \E r \in rows : r.made = s)
  BY <1>2, <1>3
<1>5. QED
  BY <1>4 DEF LastMade

LEMMA RowsFinite ==
  ASSUME TokenInv, NEW rows, rows \subseteq tokens, rows \subseteq Rows
  PROVE  IsFiniteSet(rows) /\ Cardinality(rows) \in 0..Cardinality(Mems)
<1> DEFINE f == [r \in rows |-> r.mem]
<1>1. f \in [rows -> Mems]
  BY DEF Rows
<1>2. \A r, q \in rows : f[r] = f[q] => r = q
  BY DEF TokenInv, OneRow
<1>3. f \in Injection(rows, Mems)
  BY <1>1, <1>2 DEF Injection, IsInjective
<1>4. IsFiniteSet(rows) /\ Cardinality(rows) <= Cardinality(Mems)
  BY <1>3, TokenMatricesAssumption, FS_Injection
<1>5. Cardinality(rows) \in Nat /\ Cardinality(Mems) \in Nat
  BY <1>4, TokenMatricesAssumption, FS_CardinalityType
<1>6. QED
  BY <1>4, <1>5

LEMMA KeyIsKey ==
  ASSUME TokenInv, NEW store \in Stores, NEW model \in Models
  PROVE  KeyOf(store, model) \in Keys
<1> DEFINE rows == RowsBy(store, model)
<1>1. rows \subseteq tokens /\ rows \subseteq Rows
  BY DEF RowsBy, RowsOf, TokenInv, RowsInv, RowsType
<1> HIDE DEF rows
<1>2. Cardinality(rows) \in 0..Cardinality(Mems)
  BY <1>1, RowsFinite
<1>3. LastMade(rows) \in 0..MaxClock
  BY <1>1, LastMadeIs
<1>4. KeyOf(store, model) = [model |-> model, n |-> Cardinality(rows), made |-> LastMade(rows)]
  BY DEF KeyOf, rows
<1>5. QED
  BY <1>2, <1>3, <1>4 DEF Keys

LEMMA PutIsOneRow ==
  ASSUME NEW rows, NEW mems, NEW model, \A r, q \in rows : r.mem = q.mem => r = q
  PROVE  \A r, q \in Put(rows, mems, model) : r.mem = q.mem => r = q
<1> TAKE r, q \in Put(rows, mems, model)
<1> HAVE r.mem = q.mem
<1>1. CASE r.mem \in mems
  BY <1>1 DEF Put
<1>2. CASE r.mem \notin mems
  <2>1. \A t \in Put(rows, mems, model) : t.mem \notin mems => t \in rows
    BY DEF Put
  <2>2. QED
    BY <1>2, <2>1
<1>3. QED
  BY <1>1, <1>2

\* What the rows and their copies keep, whatever is written.
LEMMA TokensStep ==
  ASSUME TokenInv, CallInv, SocketInv, [Next]_vars
  PROVE  TokenInv'
<1>1. RequestsInv
  BY DEF CallInv, Types, JobType, RequestsInv, Job
<1>2. RowsInv'
  BY <1>1, RowsStep DEF TokenInv
<1>3. ASSUME UNCHANGED tokenVars PROVE TokenInv'
  BY <1>2, <1>3 DEF tokenVars, rowVars, TokenInv, OneRow, CacheType
<1>4. ASSUME NEW m \in Mems, NEW model, Remember(m, model), UNCHANGED <<cache, hasty>> PROVE TokenInv'
  <2>1. tokens' = tokens \/ tokens' = Put(tokens, {m}, model)
    BY <1>4 DEF Remember
  <2>2. OneRow'
    BY <2>1, PutIsOneRow DEF TokenInv, OneRow
  <2>3. QED
    BY <1>2, <1>4, <2>2 DEF TokenInv, CacheType, Remember
<1>5. ASSUME NEW m \in Mems, Forget(m) PROVE TokenInv'
  BY <1>2, <1>5 DEF Forget, TokenInv, OneRow, CacheType
<1>6. ASSUME Apply PROVE TokenInv'
  <2>1. tokens' = tokens \/ tokens' = Put(Kept(reindex.force, reindex.store), reindex.targets, reindex.model)
    BY <1>6 DEF Apply
  <2>2. Kept(reindex.force, reindex.store) \subseteq tokens
    BY DEF Kept
  <2>3. OneRow'
    BY <2>1, <2>2, PutIsOneRow DEF TokenInv, OneRow
  <2>4. hasty' \subseteq Stores \X (1..MaxClock)
    <3>1. reindex.store \in Stores /\ clock \in 1..MaxClock
      BY <1>6 DEF Apply, TokenInv, RowsInv, ReindexType, RowsType
    <3>2. QED
      BY <1>6, <3>1 DEF Apply, TokenInv
  <2>5. UNCHANGED <<known, live, cache>>
    BY <1>6 DEF Apply
  <2>6. QED
    BY <1>2, <2>3, <2>4, <2>5 DEF TokenInv, CacheType
<1>7. ASSUME NEW p \in Procs, cache' = [cache EXCEPT ![p] = Cold], UNCHANGED <<rowVars, hasty>> PROVE TokenInv'
  BY <1>2, <1>7 DEF rowVars, TokenInv, OneRow, CacheType
<1>8. ASSUME NEW j \in jobs, Score(j) PROVE TokenInv'
  <2> DEFINE store == CallOf[j.call].store
  <2>1. j.at \in Procs /\ j.key \in Keys /\ store \in Stores
    BY <1>8, JobFacts, DaemonAssumption DEF Score, CallInv, Requests, Keyed
  <2>2. cache' = [cache EXCEPT ![j.at] = Entry(j.at, store, j.key)] /\ UNCHANGED <<rowVars, hasty>>
    BY <1>8 DEF Score, TakeRows
  <2> HIDE DEF store
  <2>3. \/ Entry(j.at, store, j.key) = cache[j.at]
        \/ Entry(j.at, store, j.key) = [key |-> j.key, rows |-> Loaded(store, j.key.model), of |-> store]
    BY DEF Entry
  <2>4. Loaded(store, j.key.model) \subseteq Mems
    BY DEF Loaded, TokenInv, RowsInv, RowsType
  <2>5. CacheType'
    BY <2>1, <2>2, <2>3, <2>4 DEF TokenInv, CacheType
  <2>6. QED
    BY <1>2, <2>2, <2>5 DEF rowVars, TokenInv, OneRow
<1>9. CASE Outside
  <2>1. ASSUME NEW m \in Mems, RememberPlain(m) PROVE TokenInv'
    BY <1>4, <2>1 DEF RememberPlain
  <2>2. ASSUME NEW s \in Stores, NEW model \in Models, NEW force \in BOOLEAN, Collect(s, model, force)
        PROVE  TokenInv'
    BY <1>2, <2>2 DEF Collect, rowVars, TokenInv, OneRow, CacheType
  <2>3. ASSUME Tick PROVE TokenInv'
    BY <1>2, <2>3 DEF Tick, rowVars, TokenInv, OneRow, CacheType
  <2>4. QED
    BY <1>5, <1>6, <1>9, <2>1, <2>2, <2>3 DEF Outside
<1>10. CASE \/ \E s \in Servers : Load(s) \/ Probe(s) \/ Remove(s) \/ Bind(s)
            \/ \E c \in Bridges : StartBridge(c) \/ \E k \in Calls : Ask(c, k)
            \/ \E c \in Hooks : StartHook(c)
            \/ \E c \in Callers : Send(c) \/ Timeout(c) \/ Disconnect(c)
  BY <1>3, <1>10 DEF Load, Probe, Remove, Bind, StartBridge, Ask, StartHook, Send, Timeout, Disconnect
<1>11. ASSUME NEW s \in Servers, Stop(s) PROVE TokenInv'
  BY <1>7, <1>11, DaemonAssumption DEF Stop
<1>12. ASSUME NEW j \in jobs, Work(j) PROVE TokenInv'
  <2>1. CASE ExecuteRemember(j)
    <3>1. PICK m \in Mems, model \in Models \cup {NoModel} : Remember(m, model)
      BY <2>1, DaemonAssumption DEF ExecuteRemember
    <3>2. QED
      BY <1>4, <2>1, <3>1 DEF ExecuteRemember
  <2>2. CASE Fail(j) \/ ReadKey(j) \/ ExecuteLog(j) \/ Answer(j)
    BY <1>3, <2>2 DEF Fail, ReadKey, ExecuteLog, Answer
  <2>3. QED
    BY <1>8, <1>12, <2>1, <2>2 DEF Work
<1>13. CASE UNCHANGED vars
  BY <1>3, <1>13 DEF vars
<1>14. QED
  BY <1>9, <1>10, <1>11, <1>12, <1>13 DEF Next

-----------------------------------------------------------------------------
(* The callers' contract.                                                     *)

IInv == SocketInv /\ CallInv /\ TokenInv

\* A request that is done, with what it has read.
Read(j, used, eligible) == [j EXCEPT !.used = used, !.eligible = eligible]

LEMMA CallsOfConclude ==
  ASSUME CallInv, NEW j \in jobs, j.step \in {"todo", "keyed"}, j.stage = "call",
         NEW used \in SUBSET Kinds, NEW eligible \in SUBSET Mems, NEW ok \in BOOLEAN,
         Finish(j, Done(Read(j, used, eligible), ok)),
         ran' = [ran EXCEPT ![j.call] = IF ok THEN @ + 1 ELSE @],
         UNCHANGED <<server, sock, caller, outcome, givenUp, logged>>
  PROVE  CallInv'
<1>1. j \in JobType /\ ran \in [Calls -> Nat]
  BY JobFacts DEF CallInv, Types
<1>2. PICK new \in JobType : /\ new = Done(Read(j, used, eligible), ok)
                             /\ new.by = j.by /\ new.at = j.at /\ new.call = j.call /\ new.stage = j.stage
                             /\ new.step = "done" /\ new.ok = ok /\ Keyed(new)
  <2> DEFINE read == Read(j, used, eligible)
  <2>1. /\ read \in JobType /\ read.by = j.by /\ read.at = j.at
        /\ read.call = j.call /\ read.stage = j.stage
    BY <1>1 DEF Read, JobType
  <2> HIDE DEF read
  <2>2. /\ Done(read, ok) \in JobType /\ Done(read, ok).by = j.by /\ Done(read, ok).at = j.at
        /\ Done(read, ok).call = j.call /\ Done(read, ok).stage = j.stage
        /\ Done(read, ok).step = "done" /\ Done(read, ok).ok = ok
    BY <2>1 DEF Done, JobType
  <2>3. QED
    BY <2>2 DEF Keyed, read
<1>3. jobs' = (jobs \ {j}) \cup {q \in {new} : Waits(j.by, j)}
  BY <1>2 DEF Finish
<1>4. ~ok => ran' = ran
  BY <1>1
<1>5. QED
  BY <1>2, <1>3, <1>4, CallsOfWork

LEMMA CallsOfJobs ==
  ASSUME IInv, NEW j \in jobs, Step(j)
  PROVE  CallInv'
<1> DEFINE store == CallOf[j.call].store
<1>1. /\ CallInv /\ Types /\ j \in JobType /\ j.call \in Calls /\ store \in Stores
      /\ j.ok \in BOOLEAN /\ j.stage \in Asking /\ Keyed(j)
  BY JobFacts, DaemonAssumption DEF IInv, CallInv, Requests
<1>2. UNCHANGED <<server, sock, caller, outcome, givenUp>>
  BY DEF Step, Fail, ExecuteRemember, ReadKey, Score, ExecuteLog, history
<1>3. LiveIn(store) \subseteq Mems /\ RowsBy(store, Encoder) \subseteq Rows /\ KeyOf(store, Encoder) \in Keys
  BY <1>1, KeyIsKey, DaemonAssumption DEF IInv, TokenInv, RowsInv, RowsType, LiveIn, RowsBy, RowsOf
<1>4. ASSUME NEW ok \in BOOLEAN
      PROVE  /\ Done(j, ok) \in JobType /\ Done(j, ok).by = j.by /\ Done(j, ok).at = j.at
             /\ Done(j, ok).call = j.call /\ Done(j, ok).stage = j.stage /\ Done(j, ok).step = "done"
             /\ Done(j, ok).ok = ok /\ Keyed(Done(j, ok))
  BY <1>1 DEF Done, JobType, Keyed
<1>5. j = Read(j, j.used, j.eligible) /\ j.used \in SUBSET Kinds /\ j.eligible \in SUBSET Mems
  BY <1>1 DEF Read, JobType
<1>6. CASE Fail(j)
  <2>1. PICK new \in JobType : /\ new = Done(j, FALSE) /\ new.by = j.by /\ new.at = j.at
                               /\ new.call = j.call /\ new.stage = j.stage /\ new.step = "done"
                               /\ ~new.ok /\ Keyed(new)
    BY <1>4
  <2>2. /\ j.step = "todo" /\ ran' = ran /\ logged' = logged
        /\ jobs' = (jobs \ {j}) \cup {q \in {new} : Waits(j.by, j)}
    BY <1>6, <2>1 DEF Fail, Finish, history
  <2>3. QED
    BY <1>1, <1>2, <2>1, <2>2, CallsOfWork
<1>7. CASE ExecuteRemember(j)
  <2>1. j.step = "todo" /\ j.stage = "call"
    BY <1>7 DEF ExecuteRemember, Runs, OpOf
  <2>2. /\ Finish(j, Done(Read(j, j.used, j.eligible), TRUE)) /\ logged' = logged
        /\ ran' = [ran EXCEPT ![j.call] = IF TRUE THEN @ + 1 ELSE @]
    BY <1>5, <1>7 DEF ExecuteRemember
  <2>3. QED
    BY <1>1, <1>2, <1>5, <2>1, <2>2, CallsOfConclude
<1>8. CASE Score(j)
  <2>1. j.step = "keyed" /\ j.stage = "call" /\ logged' = logged
    BY <1>1, <1>8 DEF Score, Keyed
  <2>2. /\ Finish(j, Done(Read(j, j.used, j.eligible), Ordered(j))) /\ Ordered(j) \in BOOLEAN
        /\ ran' = [ran EXCEPT ![j.call] = IF Ordered(j) THEN @ + 1 ELSE @]
    BY <1>5, <1>8 DEF Score, Conclude, Ordered
  <2>3. QED
    BY <1>1, <1>2, <1>5, <2>1, <2>2, CallsOfConclude
<1>9. CASE ReadKey(j)
  <2> DEFINE eligible == IF OpOf(j) = "documents" THEN {} ELSE LiveIn(store)
  <2>1. /\ j.step = "todo" /\ j.stage = "call" /\ CallOf[j.call].op \in Queries /\ logged' = logged
    BY <1>9 DEF ReadKey, OpOf, Queries
  <2>2. eligible \in SUBSET Mems
    BY <1>3
  <2>3. PICK failed : IF "colbert" \in Used(j, failed)
                      THEN /\ Becomes(j, [Read(j, Used(j, failed), eligible) EXCEPT !.step = "keyed",
                                            !.seen = RowsBy(store, Encoder), !.key = KeyOf(store, Encoder)])
                           /\ ran' = ran
                      ELSE Conclude(j, Read(j, Used(j, failed), eligible))
    BY <1>9 DEF ReadKey, Read
  <2> HIDE DEF eligible
  <2>4. PICK used \in SUBSET Kinds : used = Used(j, failed)
    <3>1. j.at \in Procs
      BY <1>1 DEF JobType
    <3>2. Has(j.at) \subseteq Kinds
      BY <1>1, <3>1, CallerFacts, DaemonAssumption DEF Has, Types, ServerType, Callers
    <3>3. QED
      BY <3>2 DEF Used
  <2>5. CASE "colbert" \in used
    <3> DEFINE new == [Read(j, used, eligible) EXCEPT !.step = "keyed",
                        !.seen = RowsBy(store, Encoder), !.key = KeyOf(store, Encoder)]
    <3>1. ran' = ran /\ jobs' = (jobs \ {j}) \cup {new}
      BY <2>3, <2>4, <2>5 DEF Becomes
    <3>2. new \in JobType
      BY <1>1, <1>3, <2>2 DEF Read, JobType
    <3>3. /\ new.by = j.by /\ new.at = j.at /\ new.call = j.call /\ new.stage = j.stage
          /\ new.step = "keyed" /\ new.key = KeyOf(store, Encoder)
      BY <1>1 DEF Read, JobType
    <3>4. Keyed(new)
      BY <1>3, <2>1, <3>3 DEF Keyed
    <3> HIDE DEF new
    <3>5. QED
      BY <1>1, <1>2, <2>1, <3>1, <3>2, <3>3, <3>4, CallsOfWork
  <2>6. CASE "colbert" \notin used
    <3> DEFINE ok == Ordered(Read(j, used, eligible))
    <3>1. /\ Finish(j, Done(Read(j, used, eligible), ok)) /\ ok \in BOOLEAN
          /\ ran' = [ran EXCEPT ![j.call] = IF ok THEN @ + 1 ELSE @]
      BY <2>3, <2>4, <2>6 DEF Conclude, Ordered
    <3> HIDE DEF ok
    <3>2. QED
      BY <1>1, <1>2, <2>1, <2>2, <3>1, CallsOfConclude
  <2>7. QED
    BY <2>5, <2>6
<1>10. CASE ExecuteLog(j)
  <2>1. PICK new \in JobType : /\ new = Done(j, TRUE) /\ new.by = j.by /\ new.at = j.at
                               /\ new.call = j.call /\ new.stage = j.stage /\ new.step = "done"
                               /\ new.ok /\ Keyed(new)
    BY <1>4
  <2>2. /\ j.step = "todo" /\ j.stage # "call" /\ ran' = ran
        /\ logged' = [logged EXCEPT ![j.call] = @ + 1]
        /\ jobs' = (jobs \ {j}) \cup {q \in {new} : Waits(j.by, j)}
    BY <1>1, <1>10, <2>1, DaemonAssumption DEF ExecuteLog, Runs, OpOf, Finish, Ops, Queries
  <2>3. QED
    BY <1>1, <1>2, <2>1, <2>2, CallsOfWork
<1>11. QED
  BY <1>6, <1>7, <1>8, <1>9, <1>10 DEF Step

\* What is answered well was executed.
LEMMA CallsOfAnswer ==
  ASSUME IInv, NEW j \in jobs, Answer(j)
  PROVE  CallInv'
<1>1. /\ CallInv /\ Types /\ j.by \in Callers /\ j.call \in Calls /\ j.ok \in BOOLEAN /\ j.at \in Procs
      /\ Placed(j) /\ Followed(j) /\ Counted(j)
      /\ \A i \in jobs : i.call = j.call /\ i.stage = j.stage => i = j
  BY JobFacts DEF IInv, CallInv, Requests, Executed
<1>2. j.step = "done" /\ jobs' = jobs \ {j} /\ UNCHANGED <<server, sock, ran, logged, givenUp>>
  BY DEF Answer
<1>3. CASE Waits(j.by, j)
  <2>1. End(j.by, j.ok, Recalls(j))
    BY <1>3 DEF Answer
  <2>2. caller[j.by].stage = j.stage /\ caller[j.by].call = j.call /\ j.stage \in Asking
    BY <1>1, <1>3, JobFacts DEF Waits
  <2>5. j.ok /\ j.stage = "call" => ran[j.call] = 1
    BY <1>1, <1>2 DEF Counted
  <2>6. ~j.ok /\ j.stage = "log" =>
          logged[j.call] = 0 /\ \A i \in jobs' : i.call = j.call => i.stage # "log"
    BY <1>1, <1>2, <1>3 DEF CallInv, Logs, Refused
  <2>7. j.ok /\ caller[j.by].stage = "call" => ran[caller[j.by].call] = 1
    BY <2>2, <2>5
  <2>8. ~j.ok /\ caller[j.by].stage = "log" =>
          /\ logged[caller[j.by].call] = 0
          /\ \A i \in jobs' : i.call = caller[j.by].call => i.stage # "log"
    BY <2>2, <2>6
  <2>9. /\ CallInv /\ j.by \in Callers /\ j.ok \in BOOLEAN /\ Recalls(j) \in BOOLEAN
        /\ caller[j.by].stage \in Asking
        /\ jobs' \subseteq jobs /\ UNCHANGED <<server, sock, ran, logged>> /\ givenUp' = givenUp
    BY <1>1, <1>2, <2>2 DEF Recalls
  <2>10. QED
    BY <2>1, <2>7, <2>8, <2>9, CallsOfEnd
<1>4. CASE ~Waits(j.by, j)
  <2>1. UNCHANGED <<caller, history>>
    BY <1>2, <1>4 DEF Answer, history
  <2>2. ServerType' /\ sock' \in Servers \cup {NoFile} 
    BY <1>1, <1>2 DEF Types, ServerType, CallInv, Routes
  <2>3. \A i \in jobs' : Placed(i)'
    BY <1>1, <1>2, <2>1 DEF Placed, Serving, CallInv, Requests
  <2>4. QED
    BY <1>1, <1>2, <2>1, <2>2, <2>3, JobsDropped
<1>5. QED
  BY <1>3, <1>4

\* A stage that fails: nothing to connect to, a timeout, a lost connection.
LEMMA CallsOfFailure ==
  ASSUME CallInv, NEW c \in Callers,
         (Send(c) /\ ~(caller[c].via = "local" \/ Reachable)) \/ Timeout(c) \/ Disconnect(c)
  PROVE  CallInv'
<1> DEFINE lost == {k \in {caller[c].call} : caller[c].stage = "log"}
<1>1. /\ caller[c].stage \in Asking /\ End(c, FALSE, FALSE)
      /\ jobs' = jobs /\ UNCHANGED <<server, sock, ran, logged>>
  BY CallerFacts DEF CallInv, Send, Timeout, Disconnect, Asking
<1>2. \/ ~caller[c].sent /\ givenUp' = givenUp
      \/ givenUp' = givenUp \cup lost
  BY DEF Send, Timeout, Disconnect
<1>3. ASSUME caller[c].stage = "log", givenUp' = givenUp
      PROVE  /\ logged[caller[c].call] = 0
             /\ \A j \in jobs' : j.call = caller[c].call => j.stage # "log"
  <2> DEFINE k == caller[c].call
  <2>1. k \in Calls /\ k \notin givenUp /\ logged[k] \in Nat /\ Few(k)
    BY <1>3, CallerFacts DEF CallInv, Told, Logs, Types, Asking
  <2>2. ~caller[c].sent
    BY <1>2, <1>3, <2>1
  <2>3. Open("log", k)
    BY <1>3, <2>2 DEF Open
  <2>4. logged[k] = 0
    BY <2>1, <2>3 DEF Few, Chance, Allowed
  <2>5. ASSUME NEW j \in jobs, j.call = k PROVE j.stage # "log"
    BY <1>3, <2>2, <2>5 DEF CallInv, Requests, Followed, Behind
  <2>6. QED
    BY <1>1, <2>4, <2>5
<1>4. QED
  BY <1>1, <1>2, <1>3, CallsOfEnd

LEMMA CallsStep ==
  ASSUME IInv, [Next]_vars
  PROVE  CallInv'
<1>1. CASE ServerStep
  BY <1>1, CallsOfServers DEF IInv
<1>2. CASE \E c \in Bridges : StartBridge(c) \/ \E k \in Calls : Ask(c, k)
  BY <1>2, CallsOfStart, CallsOfAsk DEF IInv
<1>3. CASE \E c \in Hooks : StartHook(c)
  BY <1>3, CallsOfAsk DEF IInv
<1>4. CASE \E c \in Callers : Send(c) \/ Timeout(c) \/ Disconnect(c)
  BY <1>4, CallsOfSend, CallsOfFailure DEF IInv
<1>5. ASSUME NEW j \in jobs, Work(j) PROVE CallInv'
  BY <1>5, CallsOfJobs, CallsOfAnswer DEF Work, Step
<1>6. CASE Outside \/ UNCHANGED vars
  <2>1. UNCHANGED <<server, sock, caller, jobs, history>>
    BY <1>6 DEF Outside, vars, procVars
  <2>2. ServerType' /\ sock' \in Servers \cup {NoFile} 
    BY <2>1 DEF IInv, CallInv, Types, ServerType, Routes
  <2>3. \A i \in jobs' : Placed(i)'
    BY <2>1 DEF Placed, Serving, IInv, CallInv, Requests
  <2>4. QED
    BY <2>1, <2>2, <2>3, JobsDropped DEF IInv
<1>7. QED
  BY <1>1, <1>2, <1>3, <1>4, <1>5, <1>6 DEF Next, ServerStep

LEMMA CallsAreSound == IInv => CallsSound
<1> SUFFICES ASSUME IInv PROVE CallsSound
  OBVIOUS
<1>1. TypeOK
  <2>1. TokensTypeOK
    BY DEF IInv, TokenInv, RowsInv, RowsType, CacheType, TokensTypeOK
  <2>2. Types
    BY DEF IInv, CallInv
  <2>3. ASSUME NEW c \in Callers
        PROVE  /\ caller[c].via \in {"none", "daemon", "local"}
               /\ caller[c].stage \in {"new", "idle", "call", "log", "legacy", "gone"}
               /\ caller[c].call \in Calls \cup {"none"}
               /\ caller[c].sent => caller[c].call # "none"
    BY <2>2, CallerFacts, DaemonAssumption DEF StageType
  <2>4. \A j \in jobs : j.used \subseteq Kinds
    BY <2>2 DEF Types, JobType
  <2>5. QED
    BY <2>1, <2>2, <2>3, <2>4, JobFacts DEF TypeOK, Types, ServerType, AnswerType
<1>3. ExecutedAtMostOnce
  BY DEF IInv, CallInv, Executed, Once, ExecutedAtMostOnce
<1>4. RecallLoggedOnce
  <2>1. ASSUME NEW k \in Calls PROVE Few(k) /\ logged[k] \in Nat
    BY DEF IInv, CallInv, Logs, Types
  <2>2. QED
    BY <2>1 DEF Few, Chance, Allowed, RecallLoggedOnce
<1>5. QED
  BY <1>1, <1>3, <1>4 DEF CallsSound

\* However many servers, bridges and hooks start, stop, time out and are
\* answered late, and whichever models fail on a request: what was answered was
\* executed once and nothing twice, and recall is logged once for what was shown.
THEOREM CallersContract == Spec => []CallsSound
<1>1. Init => IInv
  <2>1. Init => RowsInv
    BY TokenMatricesAssumption DEF Init, TokensInit, RowsInv, RowsType, ReindexType, OneTokenModel
  <2>2. Init => TokenInv
    BY <2>1 DEF Init, TokensInit, TokenInv, OneRow, CacheType
  <2>3. QED
    BY <2>2, SocketInit, CallsInit DEF IInv
<1>2. IInv /\ [Next]_vars => IInv'
  BY SocketStep, CallsStep, TokensStep DEF IInv
<1>3. QED
  BY <1>1, <1>2, CallsAreSound, PTL DEF Spec

-----------------------------------------------------------------------------
(* The copies of the matrices.  What was read with a key is a snapshot of the *)
(* store's rows.  Rows are only added, but for a forced backfill, which       *)
(* starts the store anew: so of two snapshots that are both still there, one  *)
(* holds the other, and with as many rows they are the same.                  *)

Snapshot(rows, store, key) ==
  /\ rows \subseteq Rows /\ IsFiniteSet(rows) /\ key \in Keys /\ key.model = Encoder
  /\ key.n = Cardinality(rows)
  /\ \A r \in rows : Home[r.mem] = store /\ r.model = Encoder /\ r.made <= key.made
  /\ key.made = 0 \/ \E r \in rows : r.made = key.made

\* The store was started anew in a later second.
Past(store, key) == clock > key.made /\ \A r \in RowsOf(store) : r.made > key.made
Hasty(store, key) == <<store, key.made>> \in hasty
Stands(rows, store, key) == Hasty(store, key) \/ rows \subseteq tokens \/ Past(store, key)
Current(rows, store, key) == ~Hasty(store, key) /\ rows \subseteq tokens

\* A memory with a row was remembered, rows are not of the future, and a
\* backfill without force replaces none.
Growing ==
  /\ Encoded \subseteq known
  /\ \A r \in tokens : r.made <= clock
  /\ reindex # Idle => /\ reindex.targets \subseteq known
                       /\ ~reindex.force => reindex.targets \cap Encoded = {}

Grows ==
  /\ tokens \subseteq tokens' /\ hasty' = hasty
  /\ clock' \in Int /\ clock <= clock'
  /\ \A r \in tokens' : r \in tokens \/ r.made = clock

Anew(store) ==
  /\ clock' = clock /\ store \in Stores
  /\ \A r \in tokens' : Home[r.mem] = store => r.made = clock
  /\ \A r \in tokens' : Home[r.mem] # store => r \in tokens
  /\ \A r \in tokens : Home[r.mem] # store => r \in tokens'
  /\ hasty \subseteq hasty'
  /\ (\E r \in RowsOf(store) : r.made = clock) => <<store, clock>> \in hasty'

Keeps == /\ (Grows \/ \E s \in Stores : Anew(s))
         /\ \A m \in live' : m \in live \/ m \notin known
         /\ known \subseteq known'

LEMMA Growth ==
  ASSUME TokenInv, Growing, [Next]_vars, RequestsInv, CallInv
  PROVE  Keeps /\ Growing'
<1>1. clock \in Nat /\ tokens \subseteq Rows /\ live \subseteq known
  BY TokenMatricesAssumption DEF TokenInv, RowsInv, RowsType
<1>2. CASE UNCHANGED <<tokens, known, live, clock, reindex, hasty>>
  BY <1>1, <1>2 DEF Keeps, Grows, Growing, Encoded
<1>3. ASSUME NEW m \in Mems, NEW model, RememberFits(m, model), Remember(m, model),
             UNCHANGED <<clock, reindex, hasty>>
      PROVE  Keeps /\ Growing'
  <2>1. m \notin known /\ known' = known \cup {m} /\ live' = live \cup {m}
    BY <1>3 DEF RememberFits, Remember
  <2>2. CASE tokens' = tokens
    BY <1>1, <1>3, <2>1, <2>2 DEF Keeps, Grows, Growing, Encoded
  <2>3. CASE tokens' = Put(tokens, {m}, model)
    <3> DEFINE row == [mem |-> m, model |-> model, made |-> clock]
    <3>1. tokens' = tokens \cup {row}
      BY <2>1, <2>3 DEF Put, Growing, Encoded
    <3>2. row.mem = m /\ row.made = clock
      OBVIOUS
    <3> HIDE DEF row
    <3>3. Grows
      BY <1>1, <1>3, <3>1, <3>2 DEF Grows
    <3>4. reindex # Idle => m \notin reindex.targets
      BY <2>1 DEF Growing
    <3>5. Growing'
      BY <1>1, <1>3, <2>1, <3>1, <3>2, <3>4 DEF Growing, Encoded
    <3>6. QED
      BY <2>1, <3>3, <3>5 DEF Keeps
  <2>4. QED
    BY <1>3, <2>2, <2>3 DEF Remember
<1>4. ASSUME NEW m \in Mems, Forget(m) PROVE Keeps /\ Growing'
  BY <1>1, <1>4 DEF Forget, Keeps, Grows, Growing, Encoded
<1>5. ASSUME NEW s \in Stores, NEW model \in Models, NEW force \in BOOLEAN, Collect(s, model, force)
      PROVE  Keeps /\ Growing'
  <2>1. /\ reindex'.force = force /\ reindex'.targets = Targets(s, force)
        /\ UNCHANGED <<tokens, known, live, clock, hasty>>
    BY <1>5 DEF Collect, rowVars
  <2>2. Targets(s, force) \subseteq known /\ (~force => Targets(s, force) \cap Encoded = {})
    BY <1>1 DEF Targets, LiveIn
  <2>3. QED
    BY <1>1, <2>1, <2>2 DEF Keeps, Grows, Growing, Encoded
<1>6. ASSUME Tick PROVE Keeps /\ Growing'
  BY <1>1, <1>6 DEF Tick, rowVars, Keeps, Grows, Growing, Encoded, Rows
<1>7. ASSUME Apply PROVE Keeps /\ Growing'
  <2> DEFINE store == reindex.store
             targets == reindex.targets
  <2>1. /\ reindex # Idle /\ reindex' = Idle /\ UNCHANGED <<known, live, clock>>
        /\ store \in Stores /\ targets \subseteq known
        /\ \A m \in targets : Home[m] = store
    BY <1>7 DEF Apply, Growing, TokenInv, RowsInv, ReindexType
  <2>2. CASE ~ApplyFits
    BY <1>1, <1>7, <2>1, <2>2 DEF Apply, Keeps, Grows, Growing, Encoded
  <2>3. CASE ApplyFits
    <3>1. /\ tokens' = Put(Kept(reindex.force, store), targets, reindex.model)
          /\ hasty' = hasty \cup {<<s, clock>> : s \in {q \in {store} :
                        reindex.force /\ \E r \in RowsOf(q) : r.made = clock}}
      BY <1>7, <2>3 DEF Apply
    <3>2. ASSUME NEW r \in tokens'
          PROVE  r \in Kept(reindex.force, store) \/ (r.mem \in targets /\ r.made = clock)
      BY <3>1, <3>2 DEF Put
    <3>3. Kept(reindex.force, store) \subseteq tokens
      BY DEF Kept
    <3>4. Growing'
      BY <1>1, <2>1, <3>2, <3>3 DEF Growing, Encoded
    <3>5. CASE reindex.force
      <4>1. Kept(reindex.force, store) = tokens \ RowsOf(store)
        BY <3>5 DEF Kept
      <4>2. ASSUME NEW r \in tokens, Home[r.mem] # store PROVE r \in tokens'
        BY <2>1, <3>1, <4>1, <4>2 DEF Put, RowsOf
      <4>3. \A r \in tokens' : Home[r.mem] = store => r.made = clock
        BY <3>2, <4>1 DEF RowsOf
      <4>4. \A r \in tokens' : Home[r.mem] # store => r \in tokens
        BY <2>1, <3>2, <3>3
      <4>5. (\E r \in RowsOf(store) : r.made = clock) => <<store, clock>> \in hasty'
        BY <3>1, <3>5
      <4>6. Anew(store)
        BY <2>1, <3>1, <4>2, <4>3, <4>4, <4>5 DEF Anew
      <4>7. QED
        BY <2>1, <3>4, <4>6 DEF Keeps
    <3>6. CASE ~reindex.force
      <4>1. Kept(reindex.force, store) = tokens
        BY <3>6 DEF Kept
      <4>2. targets \cap Encoded = {}
        BY <2>1, <3>6 DEF Growing
      <4>3. tokens \subseteq tokens'
        BY <3>1, <4>1, <4>2 DEF Put, Encoded
      <4>4. hasty' = hasty
        BY <3>1, <3>6
      <4>5. Grows
        BY <1>1, <2>1, <3>2, <4>1, <4>3, <4>4 DEF Grows
      <4>6. QED
        BY <2>1, <3>4, <4>5 DEF Keeps
    <3>7. QED
      BY <3>5, <3>6
  <2>4. QED
    BY <2>2, <2>3
<1>8. CASE Outside
  BY <1>3, <1>4, <1>5, <1>6, <1>7, <1>8 DEF Outside, RememberPlain
<1>9. CASE \/ \E s \in Servers : Load(s) \/ Probe(s) \/ Remove(s) \/ Bind(s) \/ Stop(s)
           \/ \E c \in Bridges : StartBridge(c) \/ \E k \in Calls : Ask(c, k)
           \/ \E c \in Hooks : StartHook(c)
           \/ \E c \in Callers : Send(c) \/ Timeout(c) \/ Disconnect(c)
  BY <1>2, <1>9 DEF Load, Probe, Remove, Bind, Stop, StartBridge, Ask, StartHook, Send, Timeout,
     Disconnect, tokenVars, rowVars
<1>10. ASSUME NEW j \in jobs, Work(j) PROVE Keeps /\ Growing'
  <2>1. CASE ExecuteRemember(j)
    <3>1. PICK m \in Mems, model \in Models \cup {NoModel} : Remember(m, model)
      BY <2>1, DaemonAssumption DEF ExecuteRemember
    <3>2. QED
      BY <1>3, <2>1, <3>1 DEF ExecuteRemember
  <2>2. CASE Fail(j) \/ ReadKey(j) \/ Score(j) \/ ExecuteLog(j) \/ Answer(j)
    BY <1>2, <2>2 DEF Fail, ReadKey, Score, ExecuteLog, Answer, tokenVars, rowVars
  <2>3. QED
    BY <1>10, <2>1, <2>2 DEF Work
<1>11. CASE UNCHANGED vars
  BY <1>2, <1>11 DEF vars, tokenVars, rowVars
<1>12. QED
  BY <1>8, <1>9, <1>10, <1>11 DEF Next

\* A snapshot that stands goes on to stand, and one that was overtaken does
\* not come back.
LEMMA SnapshotsStand ==
  ASSUME TokenInv, Growing, Keeps, clock' \in Int,
         NEW rows, NEW store, NEW key, Snapshot(rows, store, key), Stands(rows, store, key)
  PROVE  /\ Stands(rows, store, key)'
         /\ Current(rows, store, key)' => Current(rows, store, key)
<1> USE DEF Stands, Hasty, Current, Past, RowsOf
<1>1. /\ clock \in Nat /\ key.made \in Nat /\ tokens \subseteq Rows
      /\ \A r \in rows : r \in Rows /\ Home[r.mem] = store /\ r.made <= key.made /\ r.made \in Nat
  BY TokenMatricesAssumption DEF TokenInv, RowsInv, RowsType, Snapshot, Keys, Rows
<1>2. Stands(rows, store, key)'
  <2>1. CASE Grows
    BY <1>1, <2>1 DEF Grows
  <2>2. ASSUME NEW s \in Stores, Anew(s) PROVE Stands(rows, store, key)'
    <3>1. CASE Hasty(store, key)
      BY <2>2, <3>1 DEF Anew
    <3>2. CASE s # store
      BY <1>1, <2>2, <3>2 DEF Anew
    <3>3. CASE s = store /\ rows \subseteq tokens /\ key.made < clock
      BY <1>1, <2>2, <3>3 DEF Anew
    <3>4. CASE s = store /\ rows \subseteq tokens /\ ~(key.made < clock)
      <4>1. clock # 0
        BY DEF TokenInv, RowsInv, RowsType
      <4>2. PICK r \in rows : r.made = key.made
        BY <1>1, <3>4, <4>1 DEF Snapshot
      <4>3. r \in RowsOf(store) /\ r.made = clock
        BY <1>1, <3>4, <4>2 DEF Growing
      <4>4. QED
        BY <2>2, <3>4, <4>2, <4>3 DEF Anew
    <3>5. CASE s = store /\ Past(store, key)
      BY <1>1, <2>2, <3>5 DEF Anew
    <3>6. QED
      BY <3>1, <3>2, <3>3, <3>4, <3>5
  <2>3. QED
    BY <2>1, <2>2 DEF Keeps
<1>3. ASSUME Current(rows, store, key)' PROVE Current(rows, store, key)
  <2>1. hasty \subseteq hasty'
    BY DEF Keeps, Grows, Anew
  <2>2. CASE Past(store, key)
    <3>1. Past(store, key)'
      <4>1. CASE Grows
        BY <1>1, <2>2, <4>1 DEF Grows
      <4>2. CASE \E s \in Stores : Anew(s)
        BY <1>1, <2>2, <4>2 DEF Anew
      <4>3. QED
        BY <4>1, <4>2 DEF Keeps
    <3>2. rows = {}
      BY <1>1, <1>3, <3>1
    <3>3. QED
      BY <1>3, <2>1, <3>2
  <2>3. QED
    BY <1>3, <2>1, <2>2
<1>4. QED
  BY <1>2, <1>3

StoreAt(j) == CallOf[j.call].store
Reading(j) == j.step = "keyed" => /\ Snapshot(j.seen, StoreAt(j), j.key)
                                  /\ Stands(j.seen, StoreAt(j), j.key)
\* A copy holds what stands of its snapshot and is active.
Copied(entry, rows) == entry # Cold =>
  /\ Snapshot(rows, entry.of, entry.key) /\ Stands(rows, entry.of, entry.key)
  /\ Current(rows, entry.of, entry.key) => \A r \in rows : r.mem \in live => r.mem \in entry.rows

Nested(rows1, key1, rows2, key2, store) ==
  Current(rows1, store, key1) /\ Current(rows2, store, key2)
    => rows1 \subseteq rows2 \/ rows2 \subseteq rows1

Copies(snap) ==
  /\ \A p \in Procs : Copied(cache[p], snap[p])
  /\ \A j \in jobs : Reading(j)
  /\ \A p \in Procs, j \in jobs :
       cache[p] # Cold /\ cache[p].of = StoreAt(j) /\ j.step = "keyed"
         => Nested(snap[p], cache[p].key, j.seen, j.key, StoreAt(j))
  /\ \A i, j \in jobs : i.step = "keyed" /\ j.step = "keyed" /\ StoreAt(i) = StoreAt(j)
         => Nested(i.seen, i.key, j.seen, j.key, StoreAt(j))

CopiesInv == \E snap \in [Procs -> SUBSET Rows] : Copies(snap)

\* Writes around the copies, and copies that are dropped.
LEMMA CopiesStand ==
  ASSUME TokenInv, Growing, Keeps, clock' \in Int, NEW snap, Copies(snap),
         \A p \in Procs : cache'[p] \in {cache[p], Cold},
         \A j \in jobs' : j.step = "keyed" => j \in jobs
  PROVE  Copies(snap)'
<1>1. ASSUME NEW rows, NEW store, NEW key, Snapshot(rows, store, key), Stands(rows, store, key)
      PROVE  /\ Stands(rows, store, key)'
             /\ Current(rows, store, key)' => Current(rows, store, key)
  BY <1>1, SnapshotsStand
<1>2. ASSUME NEW rows, NEW entry, Copied(entry, rows) PROVE Copied(entry, rows)'
  <2>1. SUFFICES ASSUME entry # Cold PROVE Copied(entry, rows)'
    BY DEF Copied
  <2>2. /\ Snapshot(rows, entry.of, entry.key)
        /\ Stands(rows, entry.of, entry.key)'
        /\ Current(rows, entry.of, entry.key)' => Current(rows, entry.of, entry.key)
    BY <1>1, <1>2, <2>1 DEF Copied
  <2>3. ASSUME Current(rows, entry.of, entry.key), NEW r \in rows, r.mem \in live' PROVE r.mem \in entry.rows
    <3>1. r.mem \in known
      BY <2>3 DEF Current, Growing, Encoded
    <3>2. r.mem \in live
      BY <2>3, <3>1 DEF Keeps
    <3>3. QED
      BY <1>2, <2>1, <2>3, <3>2 DEF Copied
  <2>4. QED
    BY <2>2, <2>3 DEF Copied, Snapshot
<1>3. ASSUME NEW p \in Procs PROVE Copied(cache[p], snap[p])'
  <2>1. PICK entry : entry = cache'[p]
    OBVIOUS
  <2>2. Copied(entry, snap[p])
    BY <1>3, <2>1 DEF Copies, Copied
  <2>3. Copied(entry, snap[p])'
    BY <1>2, <2>2
  <2>4. QED
    BY <2>1, <2>3 DEF Copied, Snapshot
<1>4. ASSUME NEW j \in jobs' PROVE Reading(j)'
  BY <1>1, <1>4 DEF Copies, Reading, Snapshot
<1>5. ASSUME NEW rows1, NEW key1, NEW rows2, NEW key2, NEW store,
             Nested(rows1, key1, rows2, key2, store),
             Snapshot(rows1, store, key1), Stands(rows1, store, key1),
             Snapshot(rows2, store, key2), Stands(rows2, store, key2)
      PROVE  Nested(rows1, key1, rows2, key2, store)'
  BY <1>1, <1>5 DEF Nested
<1>6. ASSUME NEW p \in Procs, NEW j \in jobs', cache'[p] # Cold, cache'[p].of = StoreAt(j), j.step = "keyed"
      PROVE  Nested(snap[p], cache[p].key, j.seen, j.key, StoreAt(j))'
  <2>1. cache'[p] = cache[p] /\ j \in jobs
    BY <1>6
  <2>2. Nested(snap[p], cache[p].key, j.seen, j.key, StoreAt(j)) /\ Copied(cache[p], snap[p]) /\ Reading(j)
    BY <1>6, <2>1 DEF Copies
  <2>3. PICK key : key = cache[p].key
    OBVIOUS
  <2>4. Nested(snap[p], key, j.seen, j.key, StoreAt(j))'
    BY <1>5, <1>6, <2>1, <2>2, <2>3 DEF Copied, Reading
  <2>5. QED
    BY <2>1, <2>3, <2>4 DEF Nested
<1>7. ASSUME NEW i \in jobs', NEW j \in jobs', i.step = "keyed", j.step = "keyed", StoreAt(i) = StoreAt(j)
      PROVE  Nested(i.seen, i.key, j.seen, j.key, StoreAt(j))'
  <2>1. i \in jobs /\ j \in jobs
    BY <1>7
  <2>2. Nested(i.seen, i.key, j.seen, j.key, StoreAt(j)) /\ Reading(i) /\ Reading(j)
    BY <1>7, <2>1 DEF Copies
  <2>3. QED
    BY <1>5, <1>7, <2>2 DEF Reading
<1>8. QED
  BY <1>3, <1>4, <1>6, <1>7 DEF Copies

\* A key is read together with the rows it counts, and every other snapshot
\* that is still there is among them.
LEMMA ReadingIsSnapshot ==
  ASSUME TokenInv, Growing, NEW store \in Stores
  PROVE  /\ Snapshot(RowsBy(store, Encoder), store, KeyOf(store, Encoder))
         /\ RowsBy(store, Encoder) \subseteq tokens
<1> DEFINE rows == RowsBy(store, Encoder)
           key == KeyOf(store, Encoder)
<1>1. rows \subseteq tokens /\ rows \subseteq Rows /\ \A r \in rows : Home[r.mem] = store /\ r.model = Encoder
  BY DEF RowsBy, RowsOf, TokenInv, RowsInv, RowsType
<1>2. key \in Keys /\ key.model = Encoder /\ key.n = Cardinality(rows) /\ key.made = LastMade(rows)
  BY KeyIsKey, DaemonAssumption DEF KeyOf
<1> HIDE DEF rows, key
<1>3. IsFiniteSet(rows)
  BY <1>1, RowsFinite
<1>4. (\A r \in rows : r.made <= key.made) /\ (key.made = 0 \/ \E r \in rows : r.made = key.made)
  BY <1>1, <1>2, LastMadeIs
<1>5. Snapshot(rows, store, key)
  BY <1>1, <1>2, <1>3, <1>4 DEF Snapshot
<1>6. QED
  BY <1>1, <1>5 DEF rows, key

LEMMA CopiesOfReading ==
  ASSUME TokenInv, Growing, CallInv, NEW snap, Copies(snap), NEW j \in jobs, ReadKey(j)
  PROVE  Copies(snap)'
<1> DEFINE store == StoreAt(j)
<1>1. UNCHANGED <<tokens, known, live, clock, reindex, hasty, cache>>
  BY DEF ReadKey, tokenVars, rowVars
<1>2. store \in Stores /\ j \in JobType
  BY JobFacts, DaemonAssumption DEF CallInv, StoreAt
<1>3. PICK new : /\ \A i \in jobs' : i \in jobs \/ i = new
                 /\ new.step = "keyed" => /\ StoreAt(new) = store
                                          /\ new.seen = RowsBy(store, Encoder)
                                          /\ new.key = KeyOf(store, Encoder)
  <2>1. PICK used, eligible :
          \/ jobs' = (jobs \ {j}) \cup {[Read(j, used, eligible) EXCEPT !.step = "keyed",
                                         !.seen = RowsBy(store, Encoder), !.key = KeyOf(store, Encoder)]}
          \/ \E ok : jobs' \subseteq (jobs \ {j}) \cup {Done(Read(j, used, eligible), ok)}
    BY DEF ReadKey, Becomes, Conclude, Finish, StoreAt, Read
  <2> DEFINE keyed == [Read(j, used, eligible) EXCEPT !.step = "keyed",
                         !.seen = RowsBy(store, Encoder), !.key = KeyOf(store, Encoder)]
  <2>2. keyed.call = j.call /\ keyed.seen = RowsBy(store, Encoder) /\ keyed.key = KeyOf(store, Encoder)
    BY <1>2 DEF Read, JobType
  <2>3. \A ok : Done(Read(j, used, eligible), ok).step = "done"
    BY <1>2 DEF Read, JobType, Done
  <2> HIDE DEF keyed
  <2>4. CASE jobs' = (jobs \ {j}) \cup {keyed}
    BY <2>2, <2>4 DEF StoreAt
  <2>5. CASE jobs' # (jobs \ {j}) \cup {keyed}
    BY <2>1, <2>3, <2>5 DEF keyed
  <2>6. QED
    BY <2>4, <2>5
<1> DEFINE rows == RowsBy(store, Encoder)
           key == KeyOf(store, Encoder)
<1>4. Snapshot(rows, store, key) /\ rows \subseteq tokens
  BY <1>2, ReadingIsSnapshot
<1>5. ASSUME NEW rows1, NEW key1, Snapshot(rows1, store, key1)
      PROVE  Nested(rows1, key1, rows, key, store) /\ Nested(rows, key, rows1, key1, store)
  <2>1. rows1 \subseteq tokens => rows1 \subseteq rows
    BY <1>5 DEF Snapshot, RowsBy, RowsOf
  <2>2. QED
    BY <2>1 DEF Nested, Current
<1> HIDE DEF rows, key
<1>6. new.step = "keyed" => Reading(new) /\ StoreAt(new) = store /\ new.seen = rows /\ new.key = key
  BY <1>3, <1>4 DEF Reading, Stands, rows, key
<1>7. /\ \A p \in Procs : Copied(cache[p], snap[p])
      /\ \A i \in jobs' : Reading(i)
  BY <1>3, <1>6 DEF Copies, Reading
<1>8. ASSUME NEW p \in Procs, NEW i \in jobs', cache[p] # Cold, cache[p].of = StoreAt(i), i.step = "keyed"
      PROVE  Nested(snap[p], cache[p].key, i.seen, i.key, StoreAt(i))
  <2>1. CASE i \in jobs
    BY <1>8, <2>1 DEF Copies
  <2>2. CASE i = new
    BY <1>5, <1>6, <1>7, <1>8, <2>2 DEF Copied
  <2>3. QED
    BY <1>3, <2>1, <2>2
<1>9. ASSUME NEW i \in jobs', NEW h \in jobs', i.step = "keyed", h.step = "keyed", StoreAt(i) = StoreAt(h)
      PROVE  Nested(i.seen, i.key, h.seen, h.key, StoreAt(h))
  <2>1. CASE i = new
    BY <1>5, <1>6, <1>7, <1>9, <2>1 DEF Reading
  <2>2. CASE h = new
    BY <1>5, <1>6, <1>7, <1>9, <2>2 DEF Reading
  <2>3. CASE i \in jobs /\ h \in jobs
    BY <1>9, <2>3 DEF Copies
  <2>4. QED
    BY <1>3, <2>1, <2>2, <2>3
<1>10. /\ \A i : Reading(i)' <=> Reading(i)
       /\ \A e, r : Copied(e, r)' <=> Copied(e, r)
       /\ \A r1, k1, r2, k2, s : Nested(r1, k1, r2, k2, s)' <=> Nested(r1, k1, r2, k2, s)
  BY <1>1 DEF Reading, Copied, Nested, Snapshot, Stands, Current, Hasty, Past, RowsOf
<1>11. /\ \A p \in Procs : Copied(cache[p], snap[p])'
       /\ \A p \in Procs, i \in jobs : Nested(snap[p], cache[p].key, i.seen, i.key, StoreAt(i))'
            <=> Nested(snap[p], cache[p].key, i.seen, i.key, StoreAt(i))
  BY <1>1, <1>7, <1>10
<1>12. QED
  BY <1>1, <1>7, <1>8, <1>9, <1>10, <1>11 DEF Copies

\* What is loaded with a key holds what stands of the rows read with it.
LEMMA LoadedHolds ==
  ASSUME TokenInv, NEW rows, NEW store, NEW key, Snapshot(rows, store, key)
  PROVE  \A r \in rows \cap tokens : r.mem \in live => r.mem \in Loaded(store, key.model)
BY DEF Snapshot, Loaded, RowsBy, RowsOf

LEMMA CopiesOfScore ==
  ASSUME TokenInv, CallInv, NEW snap \in [Procs -> SUBSET Rows], Copies(snap), NEW j \in jobs, Score(j)
  PROVE  \E now \in [Procs -> SUBSET Rows] : Copies(now)'
<1> DEFINE store == StoreAt(j)
           p == j.at
           loaded == [key |-> j.key, rows |-> Loaded(store, j.key.model), of |-> store]
<1>1. /\ j.step = "keyed" /\ p \in Procs /\ Reading(j) /\ j.seen \in SUBSET Rows
      /\ UNCHANGED <<tokens, known, live, clock, reindex, hasty>>
  BY JobFacts DEF CallInv, Score, Copies, JobType, rowVars
<1>2. \A i \in jobs' : i.step = "keyed" => i \in jobs
  <2>1. Done(j, Ordered(j)).step = "done"
    BY JobFacts DEF CallInv, Done, JobType
  <2>2. \A i \in jobs' : i \in jobs \/ i = Done(j, Ordered(j))
    BY DEF Score, Conclude, Finish
  <2>3. QED
    BY <2>1, <2>2
<1>3. PICK entry : /\ entry \in {cache[p], loaded} /\ cache' = [cache EXCEPT ![p] = entry]
  BY DEF Score, TakeRows, Entry, StoreAt
<1>4. cache'[p] = entry /\ \A q \in Procs : q # p => cache'[q] = cache[q]
  BY <1>1, <1>3 DEF TokenInv, CacheType
<1>5. /\ \A i : Reading(i)' <=> Reading(i)
      /\ \A e, r : Copied(e, r)' <=> Copied(e, r)
      /\ \A r1, k1, r2, k2, s : Nested(r1, k1, r2, k2, s)' <=> Nested(r1, k1, r2, k2, s)
  BY <1>1 DEF Reading, Copied, Nested, Snapshot, Stands, Current, Hasty, Past, RowsOf
<1> DEFINE now == IF entry = cache[p] THEN snap ELSE [snap EXCEPT ![p] = j.seen]
<1>6. /\ now \in [Procs -> SUBSET Rows]
      /\ \A q \in Procs : q # p => now[q] = snap[q]
      /\ entry = cache[p] => now[p] = snap[p]
      /\ entry # cache[p] => now[p] = j.seen
  BY <1>1
<1> HIDE DEF now
<1>7. PICK new : new = now
  OBVIOUS
<1>8. Copied(loaded, j.seen)
  BY <1>1, LoadedHolds DEF Copied, Reading, Current
<1> HIDE DEF loaded
<1>9. loaded.of = store /\ loaded.key = j.key
  BY DEF loaded
<1>10. ASSUME NEW q \in Procs PROVE Copied(cache'[q], new[q])
  BY <1>3, <1>4, <1>6, <1>7, <1>8 DEF Copies
<1>11. ASSUME NEW q \in Procs, NEW i \in jobs', cache'[q] # Cold, cache'[q].of = StoreAt(i), i.step = "keyed"
       PROVE  Nested(new[q], cache'[q].key, i.seen, i.key, StoreAt(i))
  <2>1. CASE q # p \/ entry = cache[p]
    BY <1>2, <1>4, <1>6, <1>7, <1>11, <2>1 DEF Copies
  <2>2. CASE q = p /\ entry # cache[p]
    BY <1>1, <1>2, <1>3, <1>4, <1>6, <1>7, <1>9, <1>11, <2>2 DEF Copies
  <2>3. QED
    BY <2>1, <2>2
<1>12. /\ \A i \in jobs' : Reading(i)
       /\ \A i, h \in jobs' : i.step = "keyed" /\ h.step = "keyed" /\ StoreAt(i) = StoreAt(h)
            => Nested(i.seen, i.key, h.seen, h.key, StoreAt(h))
  BY <1>2 DEF Copies, Reading
<1>13. ASSUME NEW q \in Procs
       PROVE  /\ Copied(cache[q], new[q])'
              /\ \A i \in jobs' : Nested(new[q], cache[q].key, i.seen, i.key, StoreAt(i))'
                   <=> Nested(new[q], cache'[q].key, i.seen, i.key, StoreAt(i))
  <2>1. PICK e : e = cache'[q]
    OBVIOUS
  <2>2. Copied(e, new[q])' /\ \A i : Nested(new[q], e.key, i.seen, i.key, StoreAt(i))'
            <=> Nested(new[q], e.key, i.seen, i.key, StoreAt(i))
    BY <1>5, <1>10, <2>1
  <2>3. QED
    BY <2>1, <2>2 DEF Copied, Nested, Snapshot
<1>14. Copies(new)'
  BY <1>5, <1>11, <1>12, <1>13 DEF Copies
<1>15. QED
  BY <1>6, <1>7, <1>14

\* What a search scores by: its own copy, or one that was looked up by the
\* same number of rows and the same second.
LEMMA ScoreAnswers ==
  ASSUME TokenInv, CallInv, NEW snap, Copies(snap), NEW j \in jobs, Score(j)
  PROVE  Answers(cache'[j.at], StoreAt(j), j.eligible, j.seen)
<1> DEFINE store == StoreAt(j)
           p == j.at
           key == j.key
<1>1. /\ j.step = "keyed" /\ p \in Procs /\ Snapshot(j.seen, store, key) /\ Stands(j.seen, store, key)
      /\ UNCHANGED <<tokens, live, hasty>>
  BY JobFacts DEF CallInv, Score, Copies, Reading, rowVars
<1>2. cache'[p] = Entry(p, store, key)
  BY <1>1 DEF Score, TakeRows, StoreAt, TokenInv, CacheType
<1>3. CASE ~Hit(cache[p], key)
  <2>1. cache'[p].rows = Loaded(store, key.model)
    BY <1>2, <1>3 DEF Entry
  <2>2. \A r \in j.seen \cap tokens : r.mem \in live => r.mem \in Loaded(store, key.model)
    BY <1>1, LoadedHolds
  <2>3. QED
    BY <1>1, <2>1, <2>2 DEF Answers
<1>4. CASE Hit(cache[p], key)
  <2> DEFINE e == cache[p]
  <2>1. cache'[p] = e /\ e.key = key /\ e # Cold
    <3>1. key.model # NoModel
      BY <1>1, TokenMatricesAssumption DEF Snapshot, Keys
    <3>2. QED
      BY <1>2, <1>4, <3>1 DEF Entry, Hit, Cold
  <2>2. SUFFICES ASSUME e.of = store, ~Hasty(store, key), NEW r \in j.seen \cap tokens, r.mem \in live
                 PROVE  r.mem \in e.rows
    BY <1>1, <2>1 DEF Answers, Hasty
  <2>3. Copied(e, snap[p]) /\ Nested(snap[p], key, j.seen, key, store)
    BY <1>1, <2>1, <2>2 DEF Copies
  <2>4. ~Past(store, key)
    BY <1>1, <2>2 DEF Past, Snapshot, RowsOf, Keys, Rows
  <2>5. Current(j.seen, store, key) /\ Current(snap[p], store, key) /\ Snapshot(snap[p], store, key)
    BY <1>1, <2>1, <2>2, <2>3, <2>4 DEF Copied, Stands, Current
  <2>6. snap[p] = j.seen
    <3>1. /\ IsFiniteSet(snap[p]) /\ IsFiniteSet(j.seen) /\ Cardinality(snap[p]) = Cardinality(j.seen)
          /\ snap[p] \subseteq j.seen \/ j.seen \subseteq snap[p]
      BY <1>1, <2>3, <2>5 DEF Snapshot, Nested
    <3>2. QED
      BY <3>1, FS_Subset
  <2>7. QED
    BY <2>1, <2>2, <2>3, <2>5, <2>6 DEF Copied
<1>5. QED
  BY <1>3, <1>4

CopiesAll == IInv /\ Growing /\ CopiesInv

LEMMA CopiesStep ==
  ASSUME CopiesAll, [Next]_vars
  PROVE  CopiesAll'
<1>1. IInv'
  BY SocketStep, CallsStep, TokensStep DEF IInv, CopiesAll
<1>2. RequestsInv
  BY DEF CopiesAll, IInv, CallInv, Types, JobType, RequestsInv, Job
<1>3. Keeps /\ Growing'
  BY <1>2, Growth DEF CopiesAll, IInv
<1>. SUFFICES CopiesInv'
  BY <1>1, <1>3 DEF CopiesAll
<1>4. PICK snap \in [Procs -> SUBSET Rows] : Copies(snap)
  BY DEF CopiesAll, CopiesInv
<1>5. ASSUME \A p \in Procs : cache'[p] \in {cache[p], Cold}, \A j \in jobs' : j.step = "keyed" => j \in jobs
      PROVE  CopiesInv'
  <2>1. clock' \in Int
    BY <1>1 DEF IInv, TokenInv, RowsInv, RowsType
  <2>2. Copies(snap)'
    BY <1>3, <1>4, <1>5, <2>1, CopiesStand DEF CopiesAll, IInv
  <2>3. QED
    BY <1>4, <2>2 DEF CopiesInv
<1>6. ASSUME jobs' = jobs, cache' = cache PROVE CopiesInv'
  <2>1. \A p \in Procs : cache'[p] \in {cache[p], Cold}
    BY <1>6
  <2>2. \A j \in jobs' : j.step = "keyed" => j \in jobs
    BY <1>6
  <2>3. QED
    BY <1>5, <2>1, <2>2
<1>7. CASE ServerStep
  <2>1. ASSUME NEW s \in Servers, Stop(s) PROVE CopiesInv'
    <3>1. \A p \in Procs : cache'[p] \in {cache[p], Cold}
      BY <2>1 DEF Stop, CopiesAll, IInv, TokenInv, CacheType
    <3>2. QED
      BY <1>5, <2>1, <3>1 DEF Stop
  <2>2. ASSUME NEW s \in Servers, Load(s) \/ Probe(s) \/ Remove(s) \/ Bind(s)
        PROVE  jobs' = jobs /\ cache' = cache
    BY <2>2 DEF Load, Probe, Remove, Bind, tokenVars
  <2>3. ASSUME NEW s \in Servers, Load(s) \/ Probe(s) \/ Remove(s) \/ Bind(s)
        PROVE  CopiesInv'
    <3>1. jobs' = jobs /\ cache' = cache
      BY <2>2, <2>3
    <3>2. QED
      BY <3>1, <1>6
  <2>4. PICK s \in Servers : Load(s) \/ Probe(s) \/ Remove(s) \/ Bind(s) \/ Stop(s)
    BY <1>7 DEF ServerStep
  <2>5. QED
    BY <2>1, <2>3, <2>4
<1>8. CASE \/ \E c \in Bridges : StartBridge(c) \/ \E k \in Calls : Ask(c, k)
           \/ \E c \in Hooks : StartHook(c)
           \/ \E c \in Callers : Timeout(c) \/ Disconnect(c)
  <2>1. jobs' = jobs /\ cache' = cache
    BY <1>8 DEF StartBridge, Ask, StartHook, Timeout, Disconnect, tokenVars
  <2>2. QED
    BY <1>6, <2>1
<1>9. ASSUME NEW c \in Callers, Send(c) PROVE CopiesInv'
  <2>1. \A j \in jobs' : j.step = "keyed" => j \in jobs
    <3>1. \A p : Job(c, p).step = "todo"
      BY DEF Job
    <3>2. jobs' = jobs \/ \E p : jobs' = jobs \cup {Job(c, p)}
      BY <1>9 DEF Send
    <3>3. QED
      BY <3>1, <3>2
  <2>2. QED
    <3>1. \A p \in Procs : cache'[p] \in {cache[p], Cold}
      BY <1>9 DEF Send, tokenVars
    <3>2. QED
      BY <1>5, <2>1, <3>1
<1>10. ASSUME NEW j \in jobs, Work(j) PROVE CopiesInv'
  <2>1. CASE Score(j)
    <3>1. \E now \in [Procs -> SUBSET Rows] : Copies(now)'
      BY <1>4, <2>1, CopiesOfScore DEF CopiesAll, IInv
    <3>2. QED
      BY <3>1 DEF CopiesInv
  <2>2. CASE ReadKey(j)
    <3>1. Copies(snap)'
      BY <1>4, <2>2, CopiesOfReading DEF CopiesAll, IInv
    <3>2. QED
      BY <1>4, <3>1 DEF CopiesInv
  <2>3. CASE Fail(j) \/ ExecuteRemember(j) \/ ExecuteLog(j) \/ Answer(j)
    <3>1. cache' = cache /\ \E ok \in BOOLEAN : jobs' \subseteq (jobs \ {j}) \cup {Done(j, ok)}
      BY <2>3 DEF Fail, ExecuteRemember, ExecuteLog, Answer, Finish, tokenVars
    <3>2. \A ok \in BOOLEAN : Done(j, ok).step = "done"
      BY JobFacts DEF CopiesAll, IInv, CallInv, Done, JobType
    <3>3. QED
      BY <1>5, <3>1, <3>2
  <2>4. QED
    BY <1>10, <2>1, <2>2, <2>3 DEF Work
<1>11. CASE Outside
  <2>1. jobs' = jobs
    BY <1>11 DEF Outside, procVars
  <2>2. cache' = cache
    BY <1>11 DEF Outside, RememberPlain, Forget, Collect, Apply, Tick
  <2>3. QED
    BY <1>6, <2>1, <2>2
<1>12. CASE UNCHANGED vars
  <2>1. jobs' = jobs /\ cache' = cache
    BY <1>12 DEF vars, procVars, tokenVars
  <2>2. QED
    BY <1>6, <2>1
<1>13. QED
  BY <1>7, <1>8, <1>9, <1>10, <1>11, <1>12 DEF Next, ServerStep

LEMMA FollowsStep ==
  ASSUME CopiesAll, [Next]_vars, NEW j \in jobs,
         j.step = "keyed", j \notin jobs', cache'[j.at] # Cold
  PROVE  Answers(cache'[j.at], StoreAt(j), j.eligible, j.seen)
<1>1. ASSUME NEW s \in Servers, Stop(s) PROVE FALSE
  <2>1. j.at = s /\ cache' = [cache EXCEPT ![s] = Cold] /\ s \in Procs
    BY <1>1, DaemonAssumption DEF Stop
  <2>2. QED
    BY <2>1 DEF CopiesAll, IInv, TokenInv, CacheType
<1>2. ASSUME NEW i \in jobs, Work(i) PROVE Score(j)
  <2>1. j = i
    BY <1>2 DEF Work, Fail, ExecuteRemember, ReadKey, Score, Conclude, ExecuteLog, Answer, Finish, Becomes
  <2>2. QED
    BY <1>2, <2>1 DEF Work, Fail, ExecuteRemember, ReadKey, ExecuteLog, Answer, Runs
<1>3. CASE jobs \subseteq jobs'
  BY <1>3
<1>4. Score(j)
  BY <1>1, <1>2, <1>3 DEF Next, vars, procVars, Load, Probe, Remove, Bind, StartBridge, Ask, StartHook,
     Send, Timeout, Disconnect, Outside
<1>5. PICK snap : Copies(snap)
  BY DEF CopiesAll, CopiesInv
<1>6. QED
  BY <1>4, <1>5, ScoreAnswers DEF CopiesAll, IInv

\* Although a copy is looked up by the number of rows and the second of the
\* last one, and every process writes: what is scored is passed over by no copy
\* of the same store, but for the reset in the second of a write.
THEOREM CopiesFollowStore == Spec => CacheFollowsStore
<1>1. Init => CopiesAll
  <2>1. Init => IInv
    <3>1. Init => RowsInv
      BY TokenMatricesAssumption DEF Init, TokensInit, RowsInv, RowsType, ReindexType, OneTokenModel
    <3>2. Init => TokenInv
      BY <3>1 DEF Init, TokensInit, TokenInv, OneRow, CacheType
    <3>3. QED
      BY <3>2, SocketInit, CallsInit DEF IInv
  <2>2. Init => Growing
    BY DEF Init, TokensInit, Growing, Encoded
  <2>3. Init => CopiesInv
    <3>1. ASSUME Init PROVE Copies([p \in Procs |-> {}])
      BY <3>1 DEF Init, TokensInit, Copies, Copied
    <3>2. [p \in Procs |-> {}] \in [Procs -> SUBSET Rows]
      OBVIOUS
    <3>3. QED
      BY <3>1, <3>2 DEF CopiesInv
  <2>4. QED
    BY <2>1, <2>2, <2>3 DEF CopiesAll
<1>2. CopiesAll /\ [Next]_vars => CopiesAll'
  BY CopiesStep
<1>3. CopiesAll /\ [Next]_vars =>
        [\A j \in jobs :
           (j.step = "keyed" /\ j \notin jobs' /\ cache'[j.at] # Cold)
             => Answers(cache'[j.at], CallOf[j.call].store, j.eligible, j.seen)]_vars
  BY FollowsStep DEF StoreAt
<1>4. QED
  BY <1>1, <1>2, <1>3, PTL DEF Spec, CacheFollowsStore
==============================================================================
