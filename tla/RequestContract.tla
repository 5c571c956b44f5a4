--------------------------- MODULE RequestContract ---------------------------
(***************************************************************************)
(* What the Pi adapter promises its tools about a memkeeper command: it    *)
(* ends once, answered or failed; an answer is given only to a command     *)
(* that the store performed; and a command that may change the store is    *)
(* performed at most once, even when the caller is told that it failed.    *)
(***************************************************************************)
EXTENDS Naturals

CONSTANTS Reads, Writes   \* the read-only commands and the others

Requests == Reads \cup Writes

VARIABLES
  phase,   \* what the caller knows of each request
  runs     \* how often the store performed it

vars == <<phase, runs>>

Init ==
  /\ phase = [r \in Requests |-> "new"]
  /\ runs = [r \in Requests |-> 0]

Submit(r) ==
  /\ phase[r] = "new"
  /\ phase' = [phase EXCEPT ![r] = "open"]
  /\ UNCHANGED runs

\* A failed request may still be performed: its caller does not know.
Perform(r) ==
  /\ phase[r] # "new"
  /\ runs[r] < (IF r \in Writes THEN 1 ELSE 2)
  /\ runs' = [runs EXCEPT ![r] = @ + 1]
  /\ UNCHANGED phase

Answer(r) ==
  /\ phase[r] = "open"
  /\ runs[r] > 0
  /\ phase' = [phase EXCEPT ![r] = "answered"]
  /\ UNCHANGED runs

Fail(r) ==
  /\ phase[r] = "open"
  /\ phase' = [phase EXCEPT ![r] = "failed"]
  /\ UNCHANGED runs

Next == \E r \in Requests : Submit(r) \/ Perform(r) \/ Answer(r) \/ Fail(r)

Spec == Init /\ [][Next]_vars
=============================================================================
