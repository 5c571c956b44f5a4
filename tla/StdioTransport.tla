--------------------------- MODULE StdioTransport ----------------------------
(***************************************************************************)
(* The stdio transport of the Pi adapter (adapters/pi-extension/           *)
(* transport.mjs): one StdioMemkeeperClient, the `memkeeper serve --stdio` *)
(* processes it spawns one after the other, and the CLI runs it falls back *)
(* to.  Requests go through the promise chain `queue` one at a time; the   *)
(* process answers on a pipe.                                              *)
(*                                                                         *)
(* The client runs on one event loop: an event handler runs to its end,    *)
(* and the promise chain it set free goes on before the next event.  So    *)
(* every handler is one action, enabled only when no queued request could  *)
(* start (EventLoopFree).  Processes run beside it.  Lines cross the pipes *)
(* whole, and timers may fire at any time.                                 *)
(***************************************************************************)
EXTENDS Naturals, Sequences

CONSTANTS
  Reads,           \* requests for a command of READ_ONLY_COMMANDS
  Writes,          \* requests for any other command
  Procs,           \* bound: the serve processes that may be spawned
  None,            \* undefined
  StdioFallback    \* stdioFallbackEnabled(env)

Requests == Reads \cup Writes

ASSUME TransportAssumption ==
  /\ Reads \cap Writes = {}
  /\ None \notin Requests /\ None \notin Procs
  /\ StdioFallback \in BOOLEAN

VARIABLES
  phase,     \* where runMemkeeperViaTransport is with each request
  queue,     \* this.queue: requests whose turn has not come
  pending,   \* this.pending
  carrier,   \* the process a request was written to
  aborted,   \* the requests whose AbortSignal fired
  closed,    \* this.closed
  child,     \* this.child
  status,    \* each process, as the operating system sees it
  stdin,     \* request lines written to a process and not read by it
  stdout,    \* response lines of a process that the client has not read
  cli,       \* the CLI run of a request
  runs       \* how often the store performed a request

clientVars == <<queue, pending, carrier, aborted, closed, child>>
processVars == <<status, stdin, stdout>>
vars == <<phase, clientVars, processVars, cli, runs>>

Phases == {"new", "queued", "stdio", "cli", "answered", "failed"}
ProcStatuses == {"unused", "unborn", "live", "killed", "exited", "closed"}

TypeOK ==
  /\ phase \in [Requests -> Phases]
  /\ queue \in Seq(Requests)
  /\ pending \in Requests \cup {None}
  /\ carrier \in [Requests -> Procs \cup {None}]
  /\ aborted \subseteq Requests
  /\ closed \in BOOLEAN
  /\ child \in Procs \cup {None}
  /\ status \in [Procs -> ProcStatuses]
  /\ stdin \in [Procs -> Seq(Requests)]
  /\ stdout \in [Procs -> Seq(Requests)]
  /\ cli \in [Requests -> {"off", "ready", "ran"}]
  /\ runs \in [Requests -> 0..2]

Init ==
  /\ phase = [r \in Requests |-> "new"]
  /\ queue = <<>>
  /\ pending = None
  /\ carrier = [r \in Requests |-> None]
  /\ aborted = {}
  /\ closed = FALSE
  /\ child = None
  /\ status = [p \in Procs |-> "unused"]
  /\ stdin = [p \in Procs |-> <<>>]
  /\ stdout = [p \in Procs |-> <<>>]
  /\ cli = [r \in Requests |-> "off"]
  /\ runs = [r \in Requests |-> 0]

\* No queued request can start, and no process waits for its error event,
\* which the runtime delivers before it goes back to the event loop.
EventLoopFree ==
  /\ pending # None \/ queue = <<>>
  /\ \A p \in Procs : status[p] # "unborn"

-----------------------------------------------------------------------------
(* How a request leaves the stdio transport *)

\* Mutants of MayRetry: what was written is forgotten; the read-only commands
\* are not told apart.
MayRetryWritten(r, written) == StdioFallback
MayRetryUnwrittenOnly(r, written) == StdioFallback /\ ~written

\* fallbackForCurrentState and shouldFallbackToCli
MayRetry(r, written) == StdioFallback /\ (~written \/ r \in Reads)

\* A transport error ends the request, here or in a CLI run.
GiveUp(r, written) ==
  IF MayRetry(r, written)
  THEN /\ phase' = [phase EXCEPT ![r] = "cli"]
       /\ cli' = [cli EXCEPT ![r] = "ready"]
  ELSE /\ phase' = [phase EXCEPT ![r] = "failed"]
       /\ UNCHANGED cli

\* settle(error) of the pending request, which had been written
FailPending ==
  IF pending = None THEN UNCHANGED <<phase, cli, pending>>
  ELSE GiveUp(pending, TRUE) /\ pending' = None

\* killChild: SIGTERM, and the client forgets the process
KillChild ==
  /\ child' = None
  /\ status' = [p \in Procs |-> IF p = child /\ status[p] = "live"
                                THEN "killed" ELSE status[p]]

-----------------------------------------------------------------------------
(* request and performRequest *)

Submit(r) ==
  /\ phase[r] = "new"
  /\ ~closed
  /\ phase' = [phase EXCEPT ![r] = "queued"]
  /\ queue' = Append(queue, r)
  /\ UNCHANGED <<pending, carrier, aborted, closed, child, processVars, cli, runs>>

\* The next request's turn: nothing is pending and no event comes between.
Turn(r) ==
  /\ pending = None
  /\ queue # <<>>
  /\ r = Head(queue)
  /\ queue' = Tail(queue)

StartAborted(r) ==
  /\ Turn(r)
  /\ r \in aborted
  /\ phase' = [phase EXCEPT ![r] = "failed"]
  /\ UNCHANGED <<pending, carrier, aborted, closed, child, processVars, cli, runs>>

\* spawn throws, or the write to the process at hand does
StartThrows(r) ==
  /\ Turn(r)
  /\ r \notin aborted
  /\ GiveUp(r, FALSE)
  /\ UNCHANGED <<pending, carrier, aborted, closed, child, processVars, runs>>

\* ensureChild: the process at hand, or a new one.  A process that cannot be
\* started is noticed by its error event only.
EnsureChild(p) ==
  \/ /\ child # None /\ p = child
     /\ UNCHANGED <<child, status>>
  \/ /\ child = None /\ status[p] = "unused"
     /\ child' = p
     /\ \E s \in {"live", "unborn"} : status' = [status EXCEPT ![p] = s]

StartWrites(r) ==
  /\ Turn(r)
  /\ r \notin aborted
  /\ \E p \in Procs :
       /\ EnsureChild(p)
       /\ carrier' = [carrier EXCEPT ![r] = p]
       /\ stdin' = [stdin EXCEPT ![p] = Append(@, r)]
  /\ pending' = r
  /\ phase' = [phase EXCEPT ![r] = "stdio"]
  /\ UNCHANGED <<aborted, closed, stdout, cli, runs>>

Start(r) == StartAborted(r) \/ StartThrows(r) \/ StartWrites(r)

-----------------------------------------------------------------------------
(* The event handlers *)

\* Mutant of Matches: the echoed request_id is not looked at.
MatchesAny(line, r) == TRUE

Matches(line, r) == line = r

\* handleStdout, on a chunk of n lines of process p.  The handler is not bound
\* to a process: lines of a killed one still arrive here.  The first line goes
\* to the pending request; the others find none, since the next one starts
\* after the handler, and cost the process its life.
Deliver(p) ==
  /\ EventLoopFree
  /\ \E n \in 1..Len(stdout[p]) :
       /\ stdout' = [stdout EXCEPT ![p] = SubSeq(@, n + 1, Len(@))]
       /\ IF pending # None /\ Matches(Head(stdout[p]), pending)
          THEN /\ phase' = [phase EXCEPT ![pending] = "answered"]
               /\ pending' = None
               /\ IF n = 1 THEN UNCHANGED <<child, status>> ELSE KillChild
               /\ UNCHANGED cli
          ELSE KillChild /\ FailPending
  /\ UNCHANGED <<queue, carrier, aborted, closed, stdin, runs>>

\* handleStdout, on output that answers nothing: the buffer outgrows
\* MAX_STDOUT_BYTES, or the line is no envelope, like the rest of one whose
\* start was dropped when the buffer was cleared.
DeliverUnusable(p) ==
  /\ EventLoopFree
  /\ \E n \in 1..Len(stdout[p]) :
       stdout' = [stdout EXCEPT ![p] = SubSeq(@, n + 1, Len(@))]
  /\ KillChild
  /\ FailPending
  /\ UNCHANGED <<queue, carrier, aborted, closed, stdin, runs>>

\* Mutant of Timeout: the handler leaves the rest to the process's close event.
TimeoutWaits(r) ==
  /\ EventLoopFree
  /\ pending = r
  /\ KillChild
  /\ UNCHANGED <<phase, cli, pending, queue, carrier, aborted, closed, stdin, stdout, runs>>

Timeout(r) ==
  /\ EventLoopFree
  /\ pending = r
  /\ KillChild
  /\ FailPending
  /\ UNCHANGED <<queue, carrier, aborted, closed, stdin, stdout, runs>>

\* The callback of stdin.write reports a process that is gone; the client does
\* not forget the process here.
WriteError(r) ==
  /\ EventLoopFree
  /\ pending = r
  /\ status[carrier[r]] \in {"killed", "exited", "closed"}
  /\ FailPending
  /\ UNCHANGED <<queue, carrier, aborted, closed, child, processVars, runs>>

\* Mutant of ChildAfterFailure: the handler does not ask whose event this is.
ChildForgotten(p) == None

ChildAfterFailure(p) == IF child = p THEN None ELSE child

HandleChildFailure(p) ==
  /\ child' = ChildAfterFailure(p)
  /\ FailPending
  /\ UNCHANGED <<queue, carrier, aborted, closed, stdin, stdout, runs>>

\* The error event of a process that could not be started
SpawnError(p) ==
  /\ status[p] = "unborn"
  /\ status' = [status EXCEPT ![p] = "exited"]
  /\ HandleChildFailure(p)

\* The close event of a process that has exited and whose output is read
CloseEvent(p) ==
  /\ EventLoopFree
  /\ status[p] = "exited" /\ stdout[p] = <<>>
  /\ status' = [status EXCEPT ![p] = "closed"]
  /\ HandleChildFailure(p)

\* The caller's AbortSignal fires: onAbort for the pending request, the spawn
\* option `signal` for a CLI run, and a flag to find for a queued one.
Abort(r) ==
  /\ EventLoopFree
  /\ r \notin aborted
  /\ phase[r] \in {"queued", "stdio", "cli"}
  /\ aborted' = aborted \cup {r}
  /\ phase' = IF phase[r] = "queued" THEN phase
              ELSE [phase EXCEPT ![r] = "failed"]
  /\ IF pending = r THEN KillChild /\ pending' = None
     ELSE UNCHANGED <<child, status, pending>>
  /\ UNCHANGED <<queue, carrier, closed, stdin, stdout, cli, runs>>

\* shutdownStdioTransports: later requests get another client.
Close ==
  /\ EventLoopFree
  /\ ~closed
  /\ closed' = TRUE
  /\ KillChild
  /\ UNCHANGED <<phase, queue, pending, carrier, aborted, stdin, stdout, cli, runs>>

-----------------------------------------------------------------------------
(* The processes: run_serve_stdio reads a line, performs it, writes a line *)

Running(p) == status[p] \in {"live", "killed"}

Perform(r) == runs' = [runs EXCEPT ![r] = @ + 1]

\* A process may die between performing a request and answering it.
Serve(p) ==
  /\ Running(p)
  /\ stdin[p] # <<>>
  /\ stdin' = [stdin EXCEPT ![p] = Tail(@)]
  /\ Perform(Head(stdin[p]))
  /\ \/ /\ stdout' = [stdout EXCEPT ![p] = Append(@, Head(stdin[p]))]
        /\ UNCHANGED status
     \/ /\ status' = [status EXCEPT ![p] = "exited"]
        /\ UNCHANGED stdout
  /\ UNCHANGED <<phase, clientVars, cli>>

Exit(p) ==
  /\ Running(p)
  /\ status' = [status EXCEPT ![p] = "exited"]
  /\ UNCHANGED <<phase, clientVars, stdin, stdout, cli, runs>>

\* Mutant of CliStateAfterRun: the run is repeated.
CliRunsAgain(r) == "ready"

CliStateAfterRun(r) == "ran"

\* A CLI run whose caller gave up may still perform its request.
CliRun(r) ==
  /\ cli[r] = "ready"
  /\ cli' = [cli EXCEPT ![r] = CliStateAfterRun(r)]
  /\ Perform(r)
  /\ UNCHANGED <<phase, clientVars, processVars>>

CliAnswer(r) ==
  /\ phase[r] = "cli" /\ cli[r] = "ran"
  /\ phase' = [phase EXCEPT ![r] = "answered"]
  /\ UNCHANGED <<clientVars, processVars, cli, runs>>

\* Its timeout, its death, or output that is no envelope
CliFail(r) ==
  /\ phase[r] = "cli"
  /\ phase' = [phase EXCEPT ![r] = "failed"]
  /\ UNCHANGED <<clientVars, processVars, cli, runs>>

-----------------------------------------------------------------------------
(* Specification *)

RequestNext(r) ==
  \/ Submit(r) \/ Start(r) \/ Timeout(r) \/ WriteError(r) \/ Abort(r)
  \/ CliRun(r) \/ CliAnswer(r) \/ CliFail(r)

ProcessNext(p) ==
  \/ Deliver(p) \/ DeliverUnusable(p) \/ SpawnError(p) \/ CloseEvent(p)
  \/ Serve(p) \/ Exit(p)

Next ==
  \/ \E r \in Requests : RequestNext(r)
  \/ \E p \in Procs : ProcessNext(p)
  \/ Close

Spec == Init /\ [][Next]_vars

\* Node fires every timer that is not cleared, runs every promise reaction and
\* reports a failed spawn; nothing is assumed of the processes.
LiveSpec ==
  /\ Spec
  /\ \A p \in Procs : WF_vars(SpawnError(p))
  /\ \A r \in Requests :
       WF_vars(Start(r)) /\ WF_vars(Timeout(r)) /\ WF_vars(CliFail(r))

-----------------------------------------------------------------------------
(* Properties *)

\* The adapter keeps its contract: requests end once, an answer is the answer
\* of a request that was performed (so the late line of a killed process is
\* never taken for it), and a write is performed at most once.
Contract ==
  INSTANCE RequestContract WITH
    phase <- [r \in Requests |->
                IF phase[r] \in {"queued", "stdio", "cli"} THEN "open"
                ELSE phase[r]]

\* Every step of the transport is a step of RequestContract or a stutter.
ImplementsContract == Contract!Spec

\* A command that may change the store is never performed twice, whatever
\* times out, dies or arrives late: what was written is not sent to the CLI.
WriteAtMostOnce == \A r \in Writes : runs[r] <= 1

\* The client never loses a process it has not told to stop: a late event of an
\* earlier process does not make it forget the one at work.
NoLostProcess == \A p \in Procs : status[p] = "live" => child = p

\* A read-only request fails only when its caller aborted it or the CLI was
\* tried as well, however the stdio side went wrong.
ReadsFallBack ==
  \A r \in Reads :
    phase[r] = "failed" /\ StdioFallback => r \in aborted \/ cli[r] # "off"

\* Every request ends, even when every process hangs.
EveryRequestEnds ==
  \A r \in Requests : phase[r] = "queued" ~> phase[r] \in {"answered", "failed"}

\* What holds of the client in every state: a write is performed once at most,
\* no process is lost, and a read fails only after the CLI was tried.
ClientSound == TypeOK /\ WriteAtMostOnce /\ NoLostProcess /\ ReadsFallBack
=============================================================================
