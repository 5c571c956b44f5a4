------------------------ MODULE StdioTransport_proofs -------------------------
(***************************************************************************)
(* The transport keeps its contract, for any number of requests and        *)
(* processes.  The argument counts where a request can still be performed: *)
(* a line waits on the pipe of the one process the request was written to, *)
(* and a CLI run is made ready once, never for a write that has a process. *)
(***************************************************************************)
EXTENDS StdioTransport, TLAPS

-----------------------------------------------------------------------------
(* Pipes: sequences of lines without repetition *)

Lines(s) == {s[i] : i \in DOMAIN s}
Distinct(s) == \A i, j \in DOMAIN s : s[i] = s[j] => i = j

\* Writing a line that is not on a pipe yet adds it and repeats none.
LEMMA AppendLines ==
  ASSUME NEW S, NEW s \in Seq(S), NEW e \in S
  PROVE  /\ Append(s, e) \in Seq(S)
         /\ Lines(Append(s, e)) = Lines(s) \cup {e}
         /\ Distinct(s) /\ e \notin Lines(s) => Distinct(Append(s, e))
<1> DEFINE t == Append(s, e)
<1>1. /\ t \in Seq(S) /\ DOMAIN t = 1..(Len(s) + 1)
      /\ t[Len(s) + 1] = e
      /\ \A i \in 1..Len(s) : t[i] = s[i]
  OBVIOUS
<1>2. DOMAIN s = 1..Len(s) /\ Len(s) \in Nat
  OBVIOUS
<1> HIDE DEF t
<1>3. \A i \in DOMAIN t : i \in DOMAIN s \/ i = Len(s) + 1
  BY <1>1, <1>2
<1>4. \A i \in DOMAIN s : i \in DOMAIN t /\ t[i] = s[i]
  BY <1>1, <1>2
<1>5. Len(s) + 1 \in DOMAIN t
  BY <1>1, <1>2
<1>6. Lines(t) = Lines(s) \cup {e}
  BY <1>1, <1>3, <1>4, <1>5 DEF Lines
<1>7. Distinct(s) /\ e \notin Lines(s) => Distinct(t)
  BY <1>1, <1>3, <1>4 DEF Lines, Distinct
<1> QED
  BY <1>1, <1>6, <1>7 DEF t

\* Reading the first line takes it off the pipe for good.
LEMMA TailLines ==
  ASSUME NEW S, NEW s \in Seq(S), s # <<>>
  PROVE  /\ Tail(s) \in Seq(S)
         /\ Head(s) \in S /\ Head(s) \in Lines(s)
         /\ Lines(Tail(s)) \subseteq Lines(s)
         /\ Distinct(s) => Distinct(Tail(s)) /\ Head(s) \notin Lines(Tail(s))
<1> DEFINE t == Tail(s)
<1>1. /\ t \in Seq(S) /\ DOMAIN t = 1..(Len(s) - 1)
      /\ \A i \in 1..(Len(s) - 1) : t[i] = s[i + 1]
  OBVIOUS
<1>2. /\ DOMAIN s = 1..Len(s) /\ Len(s) \in Nat /\ 1 \in DOMAIN s
      /\ Head(s) = s[1] /\ s[1] \in S
  OBVIOUS
<1> HIDE DEF t
<1>3. \A i \in DOMAIN t : i + 1 \in DOMAIN s /\ i + 1 # 1 /\ t[i] = s[i + 1]
  BY <1>1, <1>2
<1>4. Lines(t) \subseteq Lines(s) /\ s[1] \in Lines(s)
  BY <1>2, <1>3 DEF Lines
<1>5. ASSUME Distinct(s)
      PROVE  Distinct(t) /\ s[1] \notin Lines(t)
  <2>1. \A i, j \in DOMAIN t : t[i] = t[j] => i + 1 = j + 1
    BY <1>3, <1>5 DEF Distinct
  <2>2. Distinct(t)
    BY <1>1, <1>2, <2>1 DEF Distinct
  <2> QED
    BY <1>2, <1>3, <1>5, <2>2 DEF Distinct, Lines
<1> QED
  BY <1>1, <1>2, <1>4, <1>5 DEF t

\* A chunk read from a pipe leaves lines that were there.
LEMMA ChunkLines ==
  ASSUME NEW S, NEW s \in Seq(S), NEW n \in 1..Len(s)
  PROVE  /\ SubSeq(s, n + 1, Len(s)) \in Seq(S)
         /\ Lines(SubSeq(s, n + 1, Len(s))) \subseteq Lines(s)
         /\ Head(s) \in S /\ Head(s) \in Lines(s)
<1> DEFINE t == SubSeq(s, n + 1, Len(s))
<1>1. /\ t \in Seq(S) /\ DOMAIN t = 1..(Len(s) - n)
      /\ \A i \in 1..(Len(s) - n) : t[i] = s[n + i]
  OBVIOUS
<1>2. /\ DOMAIN s = 1..Len(s) /\ Len(s) \in Nat /\ 1 \in DOMAIN s
      /\ Head(s) = s[1] /\ s[1] \in S
  OBVIOUS
<1> HIDE DEF t
<1>3. \A i \in DOMAIN t : n + i \in DOMAIN s /\ t[i] = s[n + i]
  BY <1>1, <1>2
<1> QED
  BY <1>1, <1>2, <1>3 DEF t, Lines

-----------------------------------------------------------------------------
(* The inductive invariant *)

QueueInv == Distinct(queue) /\ \A r \in Lines(queue) : phase[r] = "queued"

PhaseInv ==
  \A r \in Requests :
    /\ phase[r] \in {"new", "queued"} => carrier[r] = None
    /\ phase[r] \in {"new", "queued", "stdio"} => cli[r] = "off"
    /\ phase[r] = "cli" => cli[r] # "off"

PendingInv == pending # None => phase[pending] = "stdio"

PipeInv ==
  \A p \in Procs :
    Distinct(stdin[p]) /\ \A r \in Lines(stdin[p]) : carrier[r] = p

\* A request whose line has not been read yet
Waiting(r) == \E p \in Procs : r \in Lines(stdin[p])

\* How often a request was performed, and may be by the line that waits, is
\* bounded by the ways it was sent.
RunsInv ==
  \A r \in Requests :
    runs[r] + (IF Waiting(r) THEN 1 ELSE 0) <=
      (IF carrier[r] = None THEN 0 ELSE 1) + (IF cli[r] = "ran" THEN 1 ELSE 0)

\* What was answered was performed.
AnswersInv ==
  /\ \A r \in Requests : cli[r] = "ran" => runs[r] > 0
  /\ \A p \in Procs : \A r \in Lines(stdout[p]) : runs[r] > 0

\* A write that was given to a process is not given to the CLI.
SentInv == \A r \in Writes : carrier[r] # None => cli[r] = "off"

IInv ==
  /\ TypeOK
  /\ QueueInv /\ PhaseInv /\ PendingInv /\ PipeInv
  /\ RunsInv /\ AnswersInv /\ SentInv
  /\ NoLostProcess /\ ReadsFallBack

\* The invariant holds when the adapter starts.
LEMMA InvInit == Init => IInv
<1> SUFFICES ASSUME Init PROVE IInv
  OBVIOUS
<1>1. TypeOK
  <2>1. <<>> \in Seq(Requests)
    OBVIOUS
  <2>2. /\ stdin \in [Procs -> Seq(Requests)]
        /\ stdout \in [Procs -> Seq(Requests)]
    BY <2>1 DEF Init
  <2>3. /\ phase \in [Requests -> Phases] /\ status \in [Procs -> ProcStatuses]
        /\ carrier \in [Requests -> Procs \cup {None}]
        /\ cli \in [Requests -> {"off", "ready", "ran"}]
    BY DEF Init, Phases, ProcStatuses
  <2>4. runs \in [Requests -> 0..2]
    BY DEF Init
  <2> QED
    BY <2>1, <2>2, <2>3, <2>4 DEF Init, TypeOK
<1>2. Lines(<<>>) = {} /\ Distinct(<<>>)
  BY DEF Lines, Distinct
<1>3. QueueInv /\ PhaseInv /\ PendingInv
  BY <1>2 DEF Init, QueueInv, PhaseInv, PendingInv
<1>4. PipeInv /\ AnswersInv /\ SentInv
  BY <1>2 DEF Init, PipeInv, AnswersInv, SentInv, Requests
<1>5. RunsInv
  BY <1>2 DEF Init, RunsInv, Waiting
<1>6. NoLostProcess /\ ReadsFallBack
  BY DEF Init, NoLostProcess, ReadsFallBack, Requests
<1> QED
  BY <1>1, <1>3, <1>4, <1>5, <1>6 DEF IInv

-----------------------------------------------------------------------------
(* What the event handlers do to the requests *)

\* A request leaves the stdio transport, or its CLI run ends.
Settles(r, outcome) ==
  /\ phase[r] \in {"stdio", "cli"}
  /\ phase' = [phase EXCEPT ![r] = outcome]
  /\ cli' = IF outcome = "cli" THEN [cli EXCEPT ![r] = "ready"] ELSE cli
  /\ pending' \in {pending, None} /\ pending' # r
  /\ outcome = "cli" => phase[r] = "stdio" /\ r \in Reads
  /\ outcome = "answered" => runs[r] > 0
  /\ outcome = "failed" =>
       r \in Writes \/ ~StdioFallback \/ r \in aborted' \/ cli[r] # "off"

Stays == UNCHANGED <<phase, cli>> /\ pending' \in {pending, None}

\* No handler sends or performs anything.
Quiet ==
  /\ UNCHANGED <<queue, carrier, stdin, runs>>
  /\ stdout' \in [Procs -> Seq(Requests)]
  /\ \A p \in Procs : Lines(stdout'[p]) \subseteq Lines(stdout[p])
  /\ aborted' \subseteq Requests /\ aborted \subseteq aborted'
  /\ closed' \in BOOLEAN

SettlesOne ==
  Stays \/ \E r \in Requests, outcome \in {"cli", "answered", "failed"} :
             Settles(r, outcome)

\* A transport error of a written request ends a write and sends a read to
\* the CLI.
LEMMA FailPendingSettles ==
  ASSUME IInv, FailPending, aborted' = aborted
  PROVE  SettlesOne
<1>1. CASE pending = None
  BY <1>1 DEF FailPending, SettlesOne, Stays
<1>2. CASE pending # None
  <2>1. /\ pending \in Requests /\ phase[pending] = "stdio"
        /\ GiveUp(pending, TRUE) /\ pending' = None
    BY <1>2 DEF IInv, TypeOK, PendingInv, FailPending
  <2>2. None # pending
    BY <1>2
  <2>3. CASE MayRetry(pending, TRUE)
    <3>1. pending \in Reads
      BY <2>3 DEF MayRetry
    <3>2. Settles(pending, "cli")
      BY <2>1, <2>2, <2>3, <3>1 DEF GiveUp, Settles
    <3> QED
      BY <2>1, <3>2 DEF SettlesOne
  <2>4. CASE ~MayRetry(pending, TRUE)
    <3>1. pending \in Writes \/ ~StdioFallback
      BY <2>1, <2>4 DEF MayRetry, Requests
    <3>2. Settles(pending, "failed")
      BY <2>1, <2>2, <2>4, <3>1 DEF GiveUp, Settles
    <3> QED
      BY <2>1, <3>2 DEF SettlesOne
  <2> QED
    BY <2>3, <2>4
<1> QED
  BY <1>1, <1>2

\* Reading a chunk of output sends nothing.
LEMMA ChunkIsQuiet ==
  ASSUME IInv, NEW p \in Procs, NEW n \in 1..Len(stdout[p]),
         stdout' = [stdout EXCEPT ![p] = SubSeq(@, n + 1, Len(@))],
         UNCHANGED <<queue, carrier, aborted, closed, stdin, runs>>
  PROVE  Quiet /\ Head(stdout[p]) \in Requests /\ runs[Head(stdout[p])] > 0
<1> DEFINE rest == SubSeq(stdout[p], n + 1, Len(stdout[p]))
<1>1. /\ stdout \in [Procs -> Seq(Requests)] /\ aborted \subseteq Requests
      /\ closed \in BOOLEAN
  BY DEF IInv, TypeOK
<1>2. stdout[p] \in Seq(Requests)
  BY <1>1
<1>3. /\ rest \in Seq(Requests) /\ Lines(rest) \subseteq Lines(stdout[p])
      /\ Head(stdout[p]) \in Requests /\ Head(stdout[p]) \in Lines(stdout[p])
  BY <1>2, ChunkLines
<1>4. stdout' = [stdout EXCEPT ![p] = rest]
  OBVIOUS
<1> HIDE DEF rest
<1>5. /\ stdout' \in [Procs -> Seq(Requests)]
      /\ \A q \in Procs : Lines(stdout'[q]) \subseteq Lines(stdout[q])
  BY <1>1, <1>3, <1>4
<1> QED
  BY <1>1, <1>3, <1>5 DEF Quiet, IInv, AnswersInv

\* Where the output is not read either, a handler is quiet.
LEMMA HandlerIsQuiet ==
  ASSUME IInv, UNCHANGED <<queue, carrier, stdin, stdout, runs>>,
         aborted' \subseteq Requests, aborted \subseteq aborted',
         closed' \in BOOLEAN
  PROVE  Quiet
BY DEF Quiet, IInv, TypeOK

\* The steps that settle a request or none and send nothing.
EventStep ==
  \/ \E p \in Procs : \/ Deliver(p) \/ DeliverUnusable(p)
                      \/ SpawnError(p) \/ CloseEvent(p) \/ Exit(p)
  \/ \E r \in Requests : \/ Timeout(r) \/ WriteError(r) \/ Abort(r)
                         \/ CliAnswer(r) \/ CliFail(r)
  \/ Close
  \/ UNCHANGED vars

\* Every event handler settles one request at most, and for a reason: an
\* answer stands for a request that was performed, and a read fails only
\* after the CLI was tried or its caller gave up.
LEMMA EventSettles ==
  ASSUME IInv, EventStep
  PROVE  Quiet /\ SettlesOne
<1> USE DEF IInv
<1>0. /\ aborted \subseteq Requests /\ closed \in BOOLEAN
      /\ pending \in Requests \cup {None}
  BY DEF TypeOK
<1>1. ASSUME NEW p \in Procs, Deliver(p)
      PROVE  Quiet /\ SettlesOne
  <2>1. PICK n \in 1..Len(stdout[p]) :
          /\ stdout' = [stdout EXCEPT ![p] = SubSeq(@, n + 1, Len(@))]
          /\ IF pending # None /\ Matches(Head(stdout[p]), pending)
             THEN /\ phase' = [phase EXCEPT ![pending] = "answered"]
                  /\ pending' = None
                  /\ UNCHANGED cli
             ELSE FailPending
    BY <1>1 DEF Deliver
  <2>2. UNCHANGED <<queue, carrier, aborted, closed, stdin, runs>>
    BY <1>1 DEF Deliver
  <2>3. Quiet /\ Head(stdout[p]) \in Requests /\ runs[Head(stdout[p])] > 0
    BY <2>1, <2>2, ChunkIsQuiet
  <2>4. CASE pending # None /\ Matches(Head(stdout[p]), pending)
    <3>1. pending \in Requests /\ phase[pending] = "stdio" /\ runs[pending] > 0
      BY <1>0, <2>3, <2>4 DEF Matches, PendingInv
    <3>2. Settles(pending, "answered")
      BY <2>1, <2>4, <3>1 DEF Settles
    <3> QED
      BY <2>3, <3>1, <3>2 DEF SettlesOne
  <2>5. CASE ~(pending # None /\ Matches(Head(stdout[p]), pending))
    BY <2>1, <2>2, <2>3, <2>5, FailPendingSettles
  <2> QED
    BY <2>4, <2>5
<1>2. ASSUME NEW p \in Procs, DeliverUnusable(p)
      PROVE  Quiet /\ SettlesOne
  <2>1. PICK n \in 1..Len(stdout[p]) :
          stdout' = [stdout EXCEPT ![p] = SubSeq(@, n + 1, Len(@))]
    BY <1>2 DEF DeliverUnusable
  <2>2. FailPending /\ UNCHANGED <<queue, carrier, aborted, closed, stdin, runs>>
    BY <1>2 DEF DeliverUnusable
  <2> QED
    BY <2>1, <2>2, ChunkIsQuiet, FailPendingSettles
<1>3. ASSUME NEW p \in Procs, SpawnError(p) \/ CloseEvent(p)
      PROVE  Quiet /\ SettlesOne
  BY <1>0, <1>3, HandlerIsQuiet, FailPendingSettles
     DEF SpawnError, CloseEvent, HandleChildFailure
<1>4. ASSUME NEW r \in Requests, Timeout(r) \/ WriteError(r)
      PROVE  Quiet /\ SettlesOne
  BY <1>0, <1>4, HandlerIsQuiet, FailPendingSettles
     DEF Timeout, WriteError, processVars
<1>5. ASSUME NEW r \in Requests, Abort(r)
      PROVE  Quiet /\ SettlesOne
  <2>1. Quiet
    BY <1>0, <1>5, HandlerIsQuiet DEF Abort
  <2>2. CASE phase[r] = "queued"
    <3>1. UNCHANGED <<phase, cli>> /\ pending' \in {pending, None}
      BY <1>5, <2>2 DEF Abort
    <3> QED
      BY <2>1, <3>1 DEF SettlesOne, Stays
  <2>3. CASE phase[r] # "queued"
    <3>1. phase[r] \in {"stdio", "cli"} /\ r \in aborted' /\ cli' = cli
      BY <1>5, <2>3 DEF Abort
    <3>2. phase' = [phase EXCEPT ![r] = "failed"]
      BY <1>5, <2>3 DEF Abort
    <3>3. pending' \in {pending, None} /\ pending' # r
      BY <1>5, TransportAssumption DEF Abort, Requests
    <3>4. Settles(r, "failed")
      BY <3>1, <3>2, <3>3 DEF Settles
    <3> QED
      BY <2>1, <3>4 DEF SettlesOne
  <2> QED
    BY <2>1, <2>2, <2>3
<1>6. ASSUME NEW r \in Requests, CliAnswer(r) \/ CliFail(r)
      PROVE  Quiet /\ SettlesOne
  <2>1. Quiet
    BY <1>0, <1>6, HandlerIsQuiet DEF CliAnswer, CliFail, clientVars, processVars
  <2>2. phase[r] = "cli" /\ UNCHANGED <<cli, pending>> /\ pending # r
    BY <1>6, TransportAssumption
       DEF CliAnswer, CliFail, clientVars, PendingInv, Requests
  <2>3. cli[r] # "off"
    BY <2>2 DEF PhaseInv
  <2>4. CASE CliAnswer(r)
    <3>1. runs[r] > 0 /\ phase' = [phase EXCEPT ![r] = "answered"]
      BY <2>4 DEF CliAnswer, AnswersInv
    <3>2. Settles(r, "answered")
      BY <2>2, <3>1 DEF Settles
    <3> QED
      BY <2>1, <3>2 DEF SettlesOne
  <2>5. CASE CliFail(r)
    <3>1. Settles(r, "failed")
      BY <2>2, <2>3, <2>5 DEF CliFail, Settles
    <3> QED
      BY <2>1, <3>1 DEF SettlesOne
  <2> QED
    BY <1>6, <2>4, <2>5
<1>7. ASSUME \/ Close \/ UNCHANGED vars
             \/ \E p \in Procs : Exit(p)
      PROVE  Quiet /\ SettlesOne
  BY <1>0, <1>7, HandlerIsQuiet
     DEF Close, Exit, vars, clientVars, processVars, SettlesOne, Stays
<1> QED
  BY <1>1, <1>2, <1>3, <1>4, <1>5, <1>6, <1>7 DEF EventStep

-----------------------------------------------------------------------------
(* The invariant is inductive *)

\* The client's process is the one at work: every action that makes the client
\* forget a process tells it to stop or has seen it end.
LEMMA ProcessStep ==
  ASSUME TypeOK, NoLostProcess, [Next]_vars
  PROVE  /\ child' \in Procs \cup {None}
         /\ status' \in [Procs -> ProcStatuses]
         /\ NoLostProcess'
<1> DEFINE Kept == /\ child' \in Procs \cup {None}
                   /\ status' \in [Procs -> ProcStatuses]
                   /\ NoLostProcess'
<1>0. child \in Procs \cup {None} /\ status \in [Procs -> ProcStatuses]
  BY DEF TypeOK
<1>1. CASE UNCHANGED <<child, status>>
  BY <1>0, <1>1 DEF NoLostProcess
<1>2. CASE KillChild
  BY <1>0, <1>2 DEF KillChild, NoLostProcess, ProcStatuses
<1>3. ASSUME NEW p \in Procs, EnsureChild(p)
      PROVE  Kept
  BY <1>0, <1>3, TransportAssumption DEF EnsureChild, NoLostProcess, ProcStatuses
<1>4. ASSUME NEW p \in Procs, NEW s \in {"exited", "closed"},
             status' = [status EXCEPT ![p] = s],
             child' = child \/ child' = ChildAfterFailure(p)
      PROVE  Kept
  BY <1>0, <1>4 DEF ChildAfterFailure, NoLostProcess, ProcStatuses
<1>5. ASSUME NEW r \in Requests, RequestNext(r)
      PROVE  Kept
  <2>1. CASE Submit(r) \/ CliRun(r) \/ CliAnswer(r) \/ CliFail(r) \/ WriteError(r)
    BY <1>1, <2>1
       DEF Submit, CliRun, CliAnswer, CliFail, WriteError, clientVars, processVars
  <2>2. CASE StartAborted(r) \/ StartThrows(r)
    BY <1>1, <2>2 DEF StartAborted, StartThrows, processVars
  <2>3. CASE StartWrites(r)
    BY <1>3, <2>3 DEF StartWrites
  <2>4. CASE Timeout(r)
    BY <1>2, <2>4 DEF Timeout
  <2>5. CASE Abort(r)
    BY <1>1, <1>2, <2>5 DEF Abort
  <2> QED
    BY <1>5, <2>1, <2>2, <2>3, <2>4, <2>5 DEF RequestNext, Start
<1>6. ASSUME NEW p \in Procs, ProcessNext(p)
      PROVE  Kept
  <2>1. CASE Deliver(p) \/ DeliverUnusable(p)
    BY <1>1, <1>2, <2>1 DEF Deliver, DeliverUnusable
  <2>2. CASE SpawnError(p) \/ CloseEvent(p)
    BY <1>4, <2>2 DEF SpawnError, CloseEvent, HandleChildFailure
  <2>3. CASE Serve(p) \/ Exit(p)
    BY <1>1, <1>4, <2>3 DEF Serve, Exit, clientVars
  <2> QED
    BY <1>6, <2>1, <2>2, <2>3 DEF ProcessNext
<1>7. CASE Close
  BY <1>2, <1>7 DEF Close
<1>8. CASE UNCHANGED vars
  BY <1>1, <1>8 DEF vars, clientVars, processVars
<1> QED
  BY <1>5, <1>6, <1>7, <1>8 DEF Next

\* What must be shown of a step beside ProcessStep.
RequestInv ==
  /\ QueueInv /\ PhaseInv /\ PendingInv /\ PipeInv
  /\ RunsInv /\ AnswersInv /\ SentInv /\ ReadsFallBack

RequestTypes ==
  /\ phase \in [Requests -> Phases]
  /\ queue \in Seq(Requests)
  /\ pending \in Requests \cup {None}
  /\ carrier \in [Requests -> Procs \cup {None}]
  /\ aborted \subseteq Requests
  /\ closed \in BOOLEAN
  /\ stdin \in [Procs -> Seq(Requests)]
  /\ stdout \in [Procs -> Seq(Requests)]
  /\ cli \in [Requests -> {"off", "ready", "ran"}]
  /\ runs \in [Requests -> 0..2]

\* No event handler breaks the invariant: what is waiting on a pipe is left
\* there, and a read that was written is given to the CLI, a write never.
LEMMA EventKeeps ==
  ASSUME IInv, Quiet, SettlesOne
  PROVE  RequestTypes' /\ RequestInv'
<1> USE DEF IInv
<1>0. RequestTypes
  BY DEF TypeOK, RequestTypes
<1>1. \A r \in Requests : Waiting(r)' <=> Waiting(r)
  BY DEF Quiet, Waiting
<1>2. PipeInv'
  BY DEF Quiet, PipeInv
<1>3. Stays \/ \E r \in Requests, outcome \in {"cli", "answered", "failed"} :
                 Settles(r, outcome)
  BY DEF SettlesOne
<1>4. CASE Stays
  <2>1. RequestTypes'
    BY <1>0, <1>4 DEF Stays, Quiet, RequestTypes
  <2>2. QueueInv' /\ PhaseInv' /\ PendingInv' /\ SentInv'
    BY <1>4 DEF Stays, Quiet, QueueInv, PhaseInv, PendingInv, SentInv
  <2>3. RunsInv' /\ AnswersInv'
    BY <1>1, <1>4 DEF Stays, Quiet, RunsInv, AnswersInv
  <2>4. ReadsFallBack'
    BY <1>4 DEF Stays, Quiet, ReadsFallBack
  <2> QED
    BY <1>2, <2>1, <2>2, <2>3, <2>4 DEF RequestInv
<1>5. ASSUME NEW r \in Requests, NEW outcome \in {"cli", "answered", "failed"},
             Settles(r, outcome)
      PROVE  RequestTypes' /\ RequestInv'
  <2>1. /\ phase[r] \in {"stdio", "cli"}
        /\ phase' = [phase EXCEPT ![r] = outcome]
        /\ pending' \in {pending, None} /\ pending' # r
    BY <1>5 DEF Settles
  <2>2. /\ outcome = "cli" =>
             cli' = [cli EXCEPT ![r] = "ready"] /\ cli[r] = "off" /\ r \in Reads
        /\ outcome # "cli" => cli' = cli
    BY <1>5 DEF Settles, PhaseInv
  <2>3. UNCHANGED <<queue, carrier, stdin, runs>>
    BY DEF Quiet
  <2>4. RequestTypes'
    BY <1>0, <2>1, <2>2, <2>3 DEF RequestTypes, Quiet, Phases
  <2>5. /\ phase'[r] = outcome
        /\ \A q \in Requests : q # r => phase'[q] = phase[q] /\ cli'[q] = cli[q]
    BY <1>0, <2>1, <2>2 DEF RequestTypes
  <2>6. cli'[r] = IF outcome = "cli" THEN "ready" ELSE cli[r]
    BY <1>0, <2>2 DEF RequestTypes
  <2>7. QueueInv'
    <3>1. Lines(queue) \subseteq Requests
      BY <1>0 DEF RequestTypes, Lines
    <3> QED
      BY <2>1, <2>3, <2>5, <3>1 DEF QueueInv
  <2>8. PhaseInv'
    BY <2>1, <2>3, <2>5, <2>6 DEF PhaseInv
  <2>9. PendingInv'
    BY <1>0, <2>1, <2>5 DEF PendingInv, RequestTypes
  <2>10. SentInv'
    BY <2>2, <2>3, <2>5, TransportAssumption DEF SentInv, Requests
  <2>11. RunsInv'
    BY <1>1, <2>2, <2>3, <2>5, <2>6 DEF RunsInv
  <2>12. AnswersInv'
    <3>1. \A q \in Requests : cli'[q] = "ran" => cli[q] = "ran"
      BY <2>5, <2>6
    <3> QED
      BY <2>3, <3>1 DEF AnswersInv, Quiet
  <2>13. ReadsFallBack'
    <3>1. ASSUME NEW q \in Reads, phase'[q] = "failed", StdioFallback
          PROVE  q \in aborted' \/ cli'[q] # "off"
      <4>1. CASE q = r
        BY <1>5, <2>5, <2>6, <3>1, <4>1, TransportAssumption DEF Settles
      <4>2. CASE q # r
        BY <2>5, <3>1, <4>2 DEF ReadsFallBack, Quiet, Requests
      <4> QED
        BY <4>1, <4>2
    <3> QED
      BY <3>1 DEF ReadsFallBack
  <2> QED
    BY <1>2, <2>4, <2>7, <2>8, <2>9, <2>10, <2>11, <2>12, <2>13 DEF RequestInv
<1> QED
  BY <1>3, <1>4, <1>5

\* A request enters the queue once, having been sent nowhere.
LEMMA SubmitKeeps ==
  ASSUME IInv, NEW r \in Requests, Submit(r)
  PROVE  RequestTypes' /\ RequestInv'
<1> USE DEF IInv
<1>0. RequestTypes
  BY DEF TypeOK, RequestTypes
<1>1. /\ phase[r] = "new"
      /\ phase' = [phase EXCEPT ![r] = "queued"]
      /\ queue' = Append(queue, r)
      /\ UNCHANGED <<pending, carrier, aborted, closed, stdin, stdout, cli, runs>>
  BY DEF Submit, processVars
<1>2. r \notin Lines(queue)
  BY <1>1 DEF QueueInv
<1>3. /\ queue' \in Seq(Requests)
      /\ Lines(queue') = Lines(queue) \cup {r} /\ Distinct(queue')
  BY <1>0, <1>1, <1>2, AppendLines DEF RequestTypes, QueueInv
<1>4. /\ phase'[r] = "queued"
      /\ \A q \in Requests : q # r => phase'[q] = phase[q]
  BY <1>0, <1>1 DEF RequestTypes
<1>5. RequestTypes'
  BY <1>0, <1>1, <1>3 DEF RequestTypes, Phases
<1>6. QueueInv'
  <2>1. Lines(queue) \subseteq Requests
    BY <1>0 DEF RequestTypes, Lines
  <2> QED
    BY <1>3, <1>4, <2>1 DEF QueueInv
<1>7. PhaseInv' /\ PendingInv'
  BY <1>0, <1>1, <1>4 DEF PhaseInv, PendingInv, RequestTypes
<1>8. PipeInv' /\ RunsInv' /\ AnswersInv' /\ SentInv'
  BY <1>1 DEF PipeInv, RunsInv, Waiting, AnswersInv, SentInv
<1>9. ReadsFallBack'
  BY <1>1, <1>4 DEF ReadsFallBack, Requests
<1> QED
  BY <1>5, <1>6, <1>7, <1>8, <1>9 DEF RequestInv

\* When its turn comes, a request leaves the queue for good; until then it was
\* sent nowhere.
LEMMA TurnTakes ==
  ASSUME IInv, NEW r \in Requests, Turn(r)
  PROVE  /\ phase[r] = "queued" /\ carrier[r] = None /\ cli[r] = "off"
         /\ queue' \in Seq(Requests) /\ Distinct(queue')
         /\ \A q \in Lines(queue') : q \in Requests /\ q # r /\ phase[q] = "queued"
<1>1. queue \in Seq(Requests) /\ queue # <<>> /\ r = Head(queue) /\ queue' = Tail(queue)
  BY DEF IInv, TypeOK, Turn
<1>2. Distinct(queue) /\ \A q \in Lines(queue) : phase[q] = "queued"
  BY DEF IInv, QueueInv
<1>3. /\ Tail(queue) \in Seq(Requests) /\ Head(queue) \in Lines(queue)
      /\ Lines(Tail(queue)) \subseteq Lines(queue)
      /\ Distinct(Tail(queue)) /\ Head(queue) \notin Lines(Tail(queue))
  BY <1>1, <1>2, TailLines
<1>4. phase[r] = "queued"
  BY <1>1, <1>2, <1>3
<1>5. Lines(queue) \subseteq Requests
  BY <1>1 DEF Lines
<1> QED
  BY <1>1, <1>2, <1>3, <1>4, <1>5 DEF IInv, PhaseInv

\* A request that is not written, because it was aborted or nothing could be
\* written to, is failed or given to the CLI.
LEMMA UnwrittenKeeps ==
  ASSUME IInv, NEW r \in Requests, StartAborted(r) \/ StartThrows(r)
  PROVE  RequestTypes' /\ RequestInv'
<1> USE DEF IInv
<1>0. RequestTypes
  BY DEF TypeOK, RequestTypes
<1>1. /\ Turn(r)
      /\ UNCHANGED <<pending, carrier, aborted, closed, stdin, stdout, runs>>
  BY DEF StartAborted, StartThrows, processVars
<1>2. /\ phase[r] = "queued" /\ carrier[r] = None /\ cli[r] = "off"
      /\ queue' \in Seq(Requests) /\ Distinct(queue')
      /\ \A q \in Lines(queue') : q \in Requests /\ q # r /\ phase[q] = "queued"
  BY <1>1, TurnTakes
<1>3. PICK outcome \in {"cli", "failed"} :
        /\ phase' = [phase EXCEPT ![r] = outcome]
        /\ cli' = IF outcome = "cli" THEN [cli EXCEPT ![r] = "ready"] ELSE cli
        /\ outcome = "failed" => r \in aborted \/ ~StdioFallback
  <2>1. CASE StartAborted(r)
    BY <2>1 DEF StartAborted
  <2>2. CASE StartThrows(r) /\ MayRetry(r, FALSE)
    BY <2>2 DEF StartThrows, GiveUp
  <2>3. CASE StartThrows(r) /\ ~MayRetry(r, FALSE)
    BY <2>3 DEF StartThrows, GiveUp, MayRetry
  <2> QED
    BY <2>1, <2>2, <2>3
<1>4. /\ phase'[r] = outcome
      /\ cli'[r] = IF outcome = "cli" THEN "ready" ELSE "off"
      /\ \A q \in Requests : q # r => phase'[q] = phase[q] /\ cli'[q] = cli[q]
  BY <1>0, <1>2, <1>3 DEF RequestTypes
<1>5. RequestTypes'
  BY <1>0, <1>1, <1>2, <1>3 DEF RequestTypes, Phases
<1>6. QueueInv'
  BY <1>2, <1>4 DEF QueueInv
<1>7. PhaseInv' /\ PendingInv'
  BY <1>0, <1>1, <1>2, <1>4 DEF PhaseInv, PendingInv, RequestTypes
<1>8. PipeInv' /\ \A q \in Requests : Waiting(q)' <=> Waiting(q)
  BY <1>1 DEF PipeInv, Waiting
<1>9. RunsInv' /\ AnswersInv'
  BY <1>1, <1>2, <1>4, <1>8 DEF RunsInv, AnswersInv
<1>10. SentInv'
  BY <1>1, <1>2, <1>4 DEF SentInv, Requests
<1>11. ReadsFallBack'
  BY <1>1, <1>3, <1>4 DEF ReadsFallBack, Requests
<1> QED
  BY <1>5, <1>6, <1>7, <1>8, <1>9, <1>10, <1>11 DEF RequestInv

\* A request is written once: its line waits on the pipe of its carrier, and
\* it was performed by nobody before.
LEMMA WrittenKeeps ==
  ASSUME IInv, NEW r \in Requests, StartWrites(r)
  PROVE  RequestTypes' /\ RequestInv'
<1> USE DEF IInv
<1>0. RequestTypes
  BY DEF TypeOK, RequestTypes
<1>1. /\ Turn(r) /\ pending' = r
      /\ phase' = [phase EXCEPT ![r] = "stdio"]
      /\ UNCHANGED <<aborted, closed, stdout, cli, runs>>
  BY DEF StartWrites
<1>2. PICK p \in Procs :
        /\ carrier' = [carrier EXCEPT ![r] = p]
        /\ stdin' = [stdin EXCEPT ![p] = Append(@, r)]
  BY DEF StartWrites
<1>3. /\ phase[r] = "queued" /\ carrier[r] = None /\ cli[r] = "off"
      /\ queue' \in Seq(Requests) /\ Distinct(queue')
      /\ \A q \in Lines(queue') : q \in Requests /\ q # r /\ phase[q] = "queued"
  BY <1>1, TurnTakes
<1>4. p # None
  BY TransportAssumption
<1>5. \A q \in Procs : r \notin Lines(stdin[q])
  BY <1>3, TransportAssumption DEF PipeInv
<1>6. /\ stdin'[p] \in Seq(Requests)
      /\ Lines(stdin'[p]) = Lines(stdin[p]) \cup {r}
      /\ Distinct(stdin'[p])
      /\ \A q \in Procs : q # p => stdin'[q] = stdin[q]
  <2>1. stdin[p] \in Seq(Requests) /\ Distinct(stdin[p]) /\ r \notin Lines(stdin[p])
    BY <1>0, <1>5 DEF RequestTypes, PipeInv
  <2>2. /\ stdin'[p] = Append(stdin[p], r)
        /\ \A q \in Procs : q # p => stdin'[q] = stdin[q]
    BY <1>0, <1>2 DEF RequestTypes
  <2> QED
    BY <2>1, <2>2, AppendLines
<1>7. /\ phase'[r] = "stdio" /\ carrier'[r] = p
      /\ \A q \in Requests : q # r => phase'[q] = phase[q] /\ carrier'[q] = carrier[q]
  BY <1>0, <1>1, <1>2 DEF RequestTypes
<1>8. RequestTypes'
  <2>1. stdin' \in [Procs -> Seq(Requests)]
    BY <1>0, <1>2, <1>6 DEF RequestTypes
  <2> QED
    BY <1>0, <1>1, <1>2, <1>3, <2>1 DEF RequestTypes, Phases
<1>9. QueueInv'
  BY <1>3, <1>7 DEF QueueInv
<1>10. PhaseInv' /\ PendingInv'
  BY <1>1, <1>3, <1>7 DEF PhaseInv, PendingInv
<1>11. PipeInv'
  <2>1. \A q \in Procs : Lines(stdin[q]) \subseteq Requests
    BY <1>0 DEF RequestTypes, Lines
  <2> QED
    BY <1>5, <1>6, <1>7, <2>1 DEF PipeInv
<1>12. RunsInv'
  <2>1. ~Waiting(r)
    BY <1>5 DEF Waiting
  <2>2. runs[r] \in 0..2
    BY <1>0 DEF RequestTypes
  <2>3. runs[r] + 0 <= 0 + 0
    BY <1>3, <2>1 DEF RunsInv
  <2>4. runs[r] = 0
    BY <2>2, <2>3
  <2>5. \A q \in Requests : q # r => (Waiting(q)' <=> Waiting(q))
    BY <1>6 DEF Waiting
  <2> QED
    BY <1>1, <1>4, <1>7, <2>4, <2>5 DEF RunsInv
<1>13. AnswersInv' /\ SentInv' /\ ReadsFallBack'
  BY <1>1, <1>3, <1>7 DEF AnswersInv, SentInv, ReadsFallBack, Requests
<1> QED
  BY <1>8, <1>9, <1>10, <1>11, <1>12, <1>13 DEF RequestInv

\* Performing the first line of a pipe takes it from there.
LEMMA ServeKeeps ==
  ASSUME IInv, NEW p \in Procs, Serve(p)
  PROVE  RequestTypes' /\ RequestInv'
<1> USE DEF IInv
<1>0. RequestTypes
  BY DEF TypeOK, RequestTypes
<1>p. PICK r \in Requests : r = Head(stdin[p])
  <2>1. stdin[p] \in Seq(Requests) /\ stdin[p] # <<>>
    BY <1>0 DEF RequestTypes, Serve
  <2> QED
    BY <2>1, TailLines
<1>1. /\ stdin[p] # <<>>
      /\ stdin' = [stdin EXCEPT ![p] = Tail(@)]
      /\ runs' = [runs EXCEPT ![r] = @ + 1]
      /\ stdout' = [stdout EXCEPT ![p] = Append(@, r)] \/ stdout' = stdout
      /\ UNCHANGED <<phase, queue, pending, carrier, aborted, closed, cli>>
  BY <1>p DEF Serve, Perform, clientVars
<1>2. /\ stdin'[p] \in Seq(Requests) /\ Distinct(stdin'[p])
      /\ Lines(stdin'[p]) \subseteq Lines(stdin[p]) /\ r \notin Lines(stdin'[p])
      /\ r \in Requests /\ r \in Lines(stdin[p])
      /\ \A q \in Procs : q # p => stdin'[q] = stdin[q]
  <2>1. stdin[p] \in Seq(Requests) /\ Distinct(stdin[p])
    BY <1>0 DEF RequestTypes, PipeInv
  <2>2. /\ stdin'[p] = Tail(stdin[p])
        /\ \A q \in Procs : q # p => stdin'[q] = stdin[q]
    BY <1>0, <1>1 DEF RequestTypes
  <2> QED
    BY <1>p, <1>1, <2>1, <2>2, TailLines
<1>3. carrier[r] = p /\ p # None
  BY <1>2, TransportAssumption DEF PipeInv
<1>4. Waiting(r) /\ ~Waiting(r)'
  BY <1>2, <1>3 DEF Waiting, PipeInv
<1>5. \A q \in Requests : q # r => (Waiting(q)' => Waiting(q))
  BY <1>2 DEF Waiting
<1>6. /\ runs'[r] = runs[r] + 1 /\ runs[r] \in 0..2
      /\ \A q \in Requests : runs[q] \in 0..2 /\ (q # r => runs'[q] = runs[q])
  BY <1>0, <1>1, <1>2 DEF RequestTypes
<1>7. RunsInv'
  BY <1>1, <1>4, <1>5, <1>6 DEF RunsInv
<1>8. runs' \in [Requests -> 0..2]
  <2>1. runs'[r] \in 0..2
    BY <1>2, <1>4, <1>6 DEF RunsInv
  <2> QED
    BY <1>0, <1>1, <2>1, <1>6 DEF RequestTypes
<1>9. stdin' \in [Procs -> Seq(Requests)]
  BY <1>0, <1>1, <1>2 DEF RequestTypes
<1>10. /\ stdout' \in [Procs -> Seq(Requests)]
       /\ \A q \in Procs : Lines(stdout'[q]) \subseteq Lines(stdout[q]) \cup {r}
  <2>1. stdout[p] \in Seq(Requests)
    BY <1>0 DEF RequestTypes
  <2>2. /\ Append(stdout[p], r) \in Seq(Requests)
        /\ Lines(Append(stdout[p], r)) = Lines(stdout[p]) \cup {r}
    BY <1>2, <2>1, AppendLines
  <2> QED
    BY <1>0, <1>1, <2>2 DEF RequestTypes
<1>11. RequestTypes'
  BY <1>0, <1>1, <1>8, <1>9, <1>10 DEF RequestTypes
<1>12. QueueInv' /\ PhaseInv' /\ PendingInv' /\ SentInv' /\ ReadsFallBack'
  BY <1>1 DEF QueueInv, PhaseInv, PendingInv, SentInv, ReadsFallBack
<1>13. PipeInv'
  BY <1>1, <1>2 DEF PipeInv
<1>14. AnswersInv'
  <2>1. \A q \in Procs : Lines(stdout[q]) \subseteq Requests
    BY <1>0 DEF RequestTypes, Lines
  <2>2. \A q \in Requests : runs[q] > 0 => runs'[q] > 0
    BY <1>6
  <2>3. runs'[r] > 0
    BY <1>6
  <2> QED
    BY <1>1, <1>10, <2>1, <2>2, <2>3 DEF AnswersInv
<1> QED
  BY <1>7, <1>11, <1>12, <1>13, <1>14 DEF RequestInv

\* A CLI run performs its request once.
LEMMA CliRunKeeps ==
  ASSUME IInv, NEW r \in Requests, CliRun(r)
  PROVE  RequestTypes' /\ RequestInv'
<1> USE DEF IInv
<1>0. RequestTypes
  BY DEF TypeOK, RequestTypes
<1>1. /\ cli[r] = "ready"
      /\ cli' = [cli EXCEPT ![r] = "ran"]
      /\ runs' = [runs EXCEPT ![r] = @ + 1]
      /\ UNCHANGED <<phase, queue, pending, carrier, aborted, closed, stdin, stdout>>
  BY DEF CliRun, CliStateAfterRun, Perform, clientVars, processVars
<1>2. /\ runs'[r] = runs[r] + 1 /\ cli'[r] = "ran"
      /\ \A q \in Requests : /\ runs[q] \in 0..2
                             /\ q # r => runs'[q] = runs[q] /\ cli'[q] = cli[q]
  BY <1>0, <1>1 DEF RequestTypes
<1>3. \A q \in Requests : Waiting(q)' <=> Waiting(q)
  BY <1>1 DEF Waiting
<1>4. RunsInv'
  BY <1>1, <1>2, <1>3 DEF RunsInv
<1>5. runs'[r] \in 0..2
  BY <1>1, <1>2 DEF RunsInv
<1>6. RequestTypes'
  BY <1>0, <1>1, <1>5, <1>2 DEF RequestTypes
<1>7. QueueInv' /\ PendingInv' /\ PipeInv'
  BY <1>1 DEF QueueInv, PendingInv, PipeInv
<1>8. PhaseInv' /\ SentInv'
  BY <1>1, <1>2 DEF PhaseInv, SentInv, Requests
<1>9. AnswersInv'
  <2>1. \A q \in Procs : Lines(stdout[q]) \subseteq Requests
    BY <1>0 DEF RequestTypes, Lines
  <2>2. \A q \in Requests : runs[q] > 0 => runs'[q] > 0
    BY <1>2
  <2>3. \A q \in Requests : cli'[q] = "ran" => runs'[q] > 0
    BY <1>2 DEF AnswersInv
  <2> QED
    BY <1>1, <2>1, <2>2, <2>3 DEF AnswersInv
<1>10. ReadsFallBack'
  BY <1>1, <1>2 DEF ReadsFallBack, Requests
<1> QED
  BY <1>4, <1>6, <1>7, <1>8, <1>9, <1>10 DEF RequestInv

\* Every step keeps the invariant.
LEMMA InvNext ==
  ASSUME IInv, [Next]_vars
  PROVE  IInv'
<1>1. RequestTypes' /\ RequestInv'
  <2>1. CASE EventStep
    BY <2>1, EventSettles, EventKeeps
  <2>2. ASSUME NEW r \in Requests, RequestNext(r)
        PROVE  RequestTypes' /\ RequestInv'
    <3>1. CASE Submit(r)
      BY <3>1, SubmitKeeps
    <3>2. CASE Start(r)
      BY <3>2, UnwrittenKeeps, WrittenKeeps DEF Start
    <3>3. CASE CliRun(r)
      BY <3>3, CliRunKeeps
    <3>4. CASE \/ Timeout(r) \/ WriteError(r) \/ Abort(r)
               \/ CliAnswer(r) \/ CliFail(r)
      BY <3>4, <2>1 DEF EventStep
    <3> QED
      BY <2>2, <3>1, <3>2, <3>3, <3>4 DEF RequestNext
  <2>3. ASSUME NEW p \in Procs, ProcessNext(p)
        PROVE  RequestTypes' /\ RequestInv'
    <3>1. CASE Serve(p)
      BY <3>1, ServeKeeps
    <3>2. CASE \/ Deliver(p) \/ DeliverUnusable(p)
               \/ SpawnError(p) \/ CloseEvent(p) \/ Exit(p)
      BY <3>2, <2>1 DEF EventStep
    <3> QED
      BY <2>3, <3>1, <3>2 DEF ProcessNext
  <2> QED
    BY <2>1, <2>2, <2>3 DEF Next, EventStep
<1>2. /\ child' \in Procs \cup {None} /\ status' \in [Procs -> ProcStatuses]
      /\ NoLostProcess'
  BY ProcessStep DEF IInv
<1> QED
  BY <1>1, <1>2 DEF IInv, TypeOK, RequestTypes, RequestInv

\* A write was sent one way only, so it was performed once at most.
LEMMA SentOnce ==
  ASSUME IInv
  PROVE  WriteAtMostOnce
<1>1. SUFFICES ASSUME NEW r \in Writes
               PROVE  runs[r] <= 1
  BY DEF WriteAtMostOnce
<1>2. r \in Requests /\ runs[r] \in 0..2
  BY DEF IInv, TypeOK, Requests
<1>3. carrier[r] # None => cli[r] = "off"
  BY DEF IInv, SentInv
<1> QED
  BY <1>2, <1>3 DEF IInv, RunsInv

-----------------------------------------------------------------------------
(* The theorems *)

\* The invariant holds in every reachable state.
LEMMA Invariance == Spec => []IInv
<1>1. IInv /\ [Next]_vars => IInv'
  BY InvNext
<1> QED
  BY <1>1, InvInit, PTL DEF Spec

\* The variables keep their types; in particular no request is performed more
\* than twice, however many processes died under it.
THEOREM TypeCorrect == Spec => []TypeOK
<1>1. IInv => TypeOK
  BY DEF IInv
<1> QED
  BY <1>1, Invariance, PTL

\* A command that may change the store is performed once at most.
THEOREM WritesOnce == Spec => []WriteAtMostOnce
BY SentOnce, Invariance, PTL

\* A process that the client has not told to stop is the one it knows.
THEOREM ProcessesKept == Spec => []NoLostProcess
<1>1. IInv => NoLostProcess
  BY DEF IInv
<1> QED
  BY <1>1, Invariance, PTL

\* A read fails only after the CLI was tried, or aborted by its caller.
THEOREM ReadsAlwaysFallBack == Spec => []ReadsFallBack
<1>1. IInv => ReadsFallBack
  BY DEF IInv
<1> QED
  BY <1>1, Invariance, PTL

\* The client is sound for any number of requests and processes: a write runs
\* once at most, no process is lost and a read fails only after the CLI.
THEOREM ClientAlwaysSound == Spec => []ClientSound
<1>1. TypeOK /\ WriteAtMostOnce /\ NoLostProcess /\ ReadsFallBack => ClientSound
  BY DEF ClientSound
<1> QED
  BY <1>1, TypeCorrect, WritesOnce, ProcessesKept, ReadsAlwaysFallBack, PTL

-----------------------------------------------------------------------------
(* The contract *)

\* What the caller knows of a request
Seen(r) == IF phase[r] \in {"queued", "stdio", "cli"} THEN "open" ELSE phase[r]
SeenPhase == [r \in Requests |-> Seen(r)]

\* An event handler ends an open request, with an answer only if it was
\* performed, or changes nothing the caller sees.
LEMMA EventIsContractStep ==
  ASSUME IInv, Quiet, SettlesOne
  PROVE  [Contract!Next]_(Contract!vars)
<1>1. phase \in [Requests -> Phases] /\ runs' = runs
  BY DEF IInv, TypeOK, Quiet
<1>2. CASE Stays
  BY <1>1, <1>2 DEF Stays, Contract!vars
<1>3. ASSUME NEW r \in Requests, NEW outcome \in {"cli", "answered", "failed"},
             Settles(r, outcome)
      PROVE  [Contract!Next]_(Contract!vars)
  <2>1. /\ phase[r] \in {"stdio", "cli"}
        /\ phase' = [phase EXCEPT ![r] = outcome]
        /\ outcome = "answered" => runs[r] > 0
    BY <1>3 DEF Settles
  <2>2. SeenPhase[r] = "open"
    BY <2>1 DEF SeenPhase, Seen
  <2>3. SeenPhase' = [SeenPhase EXCEPT ![r] = IF outcome = "cli" THEN "open"
                                              ELSE outcome]
    BY <1>1, <2>1 DEF SeenPhase, Seen
  <2>4. CASE outcome = "cli"
    <3>1. SeenPhase' = SeenPhase
      BY <2>2, <2>3, <2>4 DEF SeenPhase
    <3> QED
      BY <1>1, <3>1 DEF SeenPhase, Seen, Contract!vars
  <2>5. CASE outcome = "answered"
    <3>1. Contract!Answer(r)
      BY <1>1, <2>1, <2>2, <2>3, <2>5 DEF SeenPhase, Seen, Contract!Answer
    <3> QED
      BY <3>1 DEF Contract!Next, Contract!Requests, Requests
  <2>6. CASE outcome = "failed"
    <3>1. Contract!Fail(r)
      BY <1>1, <2>2, <2>3, <2>6 DEF SeenPhase, Seen, Contract!Fail
    <3> QED
      BY <3>1 DEF Contract!Next, Contract!Requests, Requests
  <2> QED
    BY <2>4, <2>5, <2>6
<1> QED
  BY <1>2, <1>3 DEF SettlesOne

\* Performing is open to the contract as often as the transport does it.
LEMMA PerformIsContractStep ==
  ASSUME IInv, IInv', WriteAtMostOnce', NEW r \in Requests, phase[r] # "new",
         Perform(r), UNCHANGED phase
  PROVE  Contract!Next
<1>1. /\ phase \in [Requests -> Phases]
      /\ runs \in [Requests -> 0..2] /\ runs'[r] \in 0..2
  BY DEF IInv, TypeOK
<1>2. runs' = [runs EXCEPT ![r] = @ + 1] /\ runs'[r] = runs[r] + 1
  BY <1>1 DEF Perform
<1>3. r \in Writes => runs'[r] <= 1
  BY DEF WriteAtMostOnce
<1>4. runs[r] < (IF r \in Writes THEN 1 ELSE 2)
  BY <1>1, <1>2, <1>3
<1>5. SeenPhase[r] # "new" /\ SeenPhase' = SeenPhase
  BY <1>1 DEF SeenPhase, Seen
<1>6. Contract!Perform(r)
  BY <1>2, <1>4, <1>5 DEF SeenPhase, Seen, Contract!Perform
<1> QED
  BY <1>6 DEF Contract!Next, Contract!Requests, Requests

\* Every step of the transport is a step of the contract or invisible to it.
LEMMA ContractStep ==
  ASSUME IInv, IInv', WriteAtMostOnce', [Next]_vars
  PROVE  [Contract!Next]_(Contract!vars)
<1>0. phase \in [Requests -> Phases]
  BY DEF IInv, TypeOK
<1>1. CASE EventStep
  BY <1>1, EventSettles, EventIsContractStep
<1>2. ASSUME NEW r \in Requests, Submit(r)
      PROVE  [Contract!Next]_(Contract!vars)
  <2>1. /\ phase[r] = "new" /\ phase' = [phase EXCEPT ![r] = "queued"]
        /\ runs' = runs
    BY <1>2 DEF Submit
  <2>2. SeenPhase[r] = "new" /\ SeenPhase' = [SeenPhase EXCEPT ![r] = "open"]
    BY <1>0, <2>1 DEF SeenPhase, Seen
  <2>3. Contract!Submit(r)
    BY <2>1, <2>2 DEF SeenPhase, Seen, Contract!Submit
  <2> QED
    BY <2>3 DEF Contract!Next, Contract!Requests, Requests
<1>3. ASSUME NEW r \in Requests, Start(r)
      PROVE  [Contract!Next]_(Contract!vars)
  <2>1. phase[r] = "queued" /\ runs' = runs
    BY <1>3, TurnTakes DEF Start, StartAborted, StartThrows, StartWrites
  <2>2. PICK outcome \in {"stdio", "cli", "failed"} :
          phase' = [phase EXCEPT ![r] = outcome]
    BY <1>3 DEF Start, StartAborted, StartThrows, StartWrites, GiveUp
  <2>3. /\ SeenPhase[r] = "open"
        /\ SeenPhase' = [SeenPhase EXCEPT ![r] = IF outcome = "failed"
                                                THEN "failed" ELSE "open"]
    BY <1>0, <2>1, <2>2 DEF SeenPhase, Seen
  <2>4. CASE outcome = "failed"
    <3>1. Contract!Fail(r)
      BY <2>1, <2>3, <2>4 DEF SeenPhase, Seen, Contract!Fail
    <3> QED
      BY <3>1 DEF Contract!Next, Contract!Requests, Requests
  <2>5. CASE outcome # "failed"
    <3>1. SeenPhase' = SeenPhase
      BY <2>3, <2>5 DEF SeenPhase
    <3> QED
      BY <2>1, <3>1 DEF SeenPhase, Seen, Contract!vars
  <2> QED
    BY <2>4, <2>5
<1>4. ASSUME NEW r \in Requests, CliRun(r)
      PROVE  Contract!Next
  <2>1. Perform(r) /\ UNCHANGED phase /\ cli[r] = "ready"
    BY <1>4 DEF CliRun
  <2>2. phase[r] # "new"
    BY <2>1 DEF IInv, PhaseInv
  <2> QED
    BY <2>1, <2>2, PerformIsContractStep
<1>5. ASSUME NEW p \in Procs, Serve(p)
      PROVE  Contract!Next
  <2>1. stdin[p] \in Seq(Requests) /\ stdin[p] # <<>>
    BY <1>5 DEF IInv, TypeOK, Serve
  <2>2. PICK r \in Requests : r = Head(stdin[p]) /\ r \in Lines(stdin[p])
    BY <2>1, TailLines
  <2>3. Perform(r) /\ UNCHANGED phase
    BY <1>5, <2>2 DEF Serve, Perform
  <2>4. carrier[r] # None
    BY <2>2, TransportAssumption DEF IInv, PipeInv
  <2>5. phase[r] # "new"
    BY <2>4 DEF IInv, PhaseInv
  <2> QED
    BY <2>3, <2>5, PerformIsContractStep
<1>6. CASE \E r \in Requests : RequestNext(r)
  BY <1>1, <1>2, <1>3, <1>4, <1>6 DEF RequestNext, EventStep
<1>7. CASE \E p \in Procs : ProcessNext(p)
  BY <1>1, <1>5, <1>7 DEF ProcessNext, EventStep
<1>8. CASE Close \/ UNCHANGED vars
  BY <1>1, <1>8 DEF EventStep
<1> QED
  BY <1>6, <1>7, <1>8 DEF Next

\* The transport implements the contract of the adapter: a request ends once,
\* an answer is the answer to a request that was performed, and a command that
\* may change the store is performed once at most.
THEOREM TransportImplementsContract == Spec => ImplementsContract
<1>1. Init => Contract!Init
  <2>1. SUFFICES ASSUME Init PROVE Contract!Init
    OBVIOUS
  <2>2. SeenPhase = [r \in Requests |-> "new"]
    BY <2>1 DEF Init, SeenPhase, Seen
  <2>3. runs = [r \in Requests |-> 0]
    BY <2>1 DEF Init
  <2> QED
    BY <2>2, <2>3 DEF SeenPhase, Seen, Contract!Init, Contract!Requests, Requests
<1>2. IInv /\ IInv' /\ WriteAtMostOnce' /\ [Next]_vars => [Contract!Next]_(Contract!vars)
  BY ContractStep
<1> QED
  BY <1>1, <1>2, Invariance, WritesOnce, PTL DEF Spec, ImplementsContract, Contract!Spec
=============================================================================
