----------------------------- MODULE ReviewQueue ------------------------------
(***************************************************************************)
(* The review queue in front of the curated tier: candidate-submit,        *)
(* candidate-approve, candidate-reject and candidate-quarantine, composed  *)
(* with every operation of MemoryStore.  Approving runs remember in the    *)
(* same transaction, so either both tables change or neither does.         *)
(***************************************************************************)
EXTENDS MemoryStore

CONSTANTS
  MaxCandidates,         \* bound: the most candidates a behaviour submits
  CandidateKinds,        \* the kinds submitted; submit does not check them
  RequireAdjudication    \* the settings of MEMKEEPER_CAPTURE_REQUIRE_ADJUDICATION
                         \* among the processes that approve

ASSUME QueueAssumption ==
  /\ MaxCandidates \in Nat
  /\ RequireAdjudication \subseteq BOOLEAN
  /\ FALSE \in Pins /\ "auto" \in Modes
  /\ 0..MaxTime \subseteq ObservedTimes /\ Never \in ExpiryTimes

VARIABLE cands   \* table memory_candidates, in order of creation

queueVars == <<vars, cands>>

CandidateStatuses == {"pending", "approved", "rejected", "quarantined"}

\* A source_type other than capture, a capture, and a capture whose
\* source_json has an "adjudication" object.
Sources == {"inference", "capture", "adjudicated"}

\* Targets are not looked up before the approval: they may not exist yet.  The
\* key is the submitted one with what it lacks filled in from the content,
\* which is a function of the row.
Submissions ==
  [space : Spaces, silo : Silos, key : Keys, kind : CandidateKinds,
   supersedes : {S \in SUBSET (1..MaxMemories) : Cardinality(S) <= MaxSupersedes},
   source : Sources]

\* Mutant of Candidate: it starts with the status a memory starts with.
CandidateActive(s) == [status |-> "active", asked |-> s, result |-> 0]

\* result is resulting_memory_id, 0 for NULL.
Candidate(s) == [status |-> "pending", asked |-> s, result |-> 0]

CandidateRow ==
  [status : CandidateStatuses, asked : Submissions, result : Nat]

QueueTypeOK == TypeOK /\ cands \in Seq(CandidateRow)

QueueInit == Init /\ cands = <<>>

-----------------------------------------------------------------------------
(* The operations *)

Submit(s) ==
  /\ cands' = Append(cands, Candidate(s))
  /\ UNCHANGED vars

\* Mutant of Pending: the decision is taken without looking at the row.
PendingUnchecked(k) == TRUE

Pending(k) == cands[k].status = "pending"

\* Mutants of RequestOf: a field is lost, one is taken from elsewhere.
RequestOfUnlinked(s) ==
  [space |-> s.space, key |-> s.key, kind |-> s.kind, observed |-> now,
   expires |-> Never, pinned |-> FALSE, silo |-> s.silo, mode |-> "auto",
   supersedes |-> {}, contradicts |-> {}]
RequestOfPinned(s) == [RequestOfUnlinked(s) EXCEPT !.pinned = TRUE]

\* remember_request_from_candidate: observed now, not when it was submitted;
\* never pinned and without a TTL.
RequestOf(s) ==
  [space |-> s.space, key |-> s.key, kind |-> s.kind, observed |-> now,
   expires |-> Never, pinned |-> FALSE, silo |-> s.silo, mode |-> "auto",
   supersedes |-> s.supersedes, contradicts |-> {}]

\* Mutant of Refused: only an adjudicated capture is refused.
RefusedWithVerdict(s, require) == s.source = "adjudicated" /\ require

\* adjudication_guard
Refused(s, require) == s.source = "capture" /\ require

\* The one UPDATE that ends a candidate, `WHERE id = ?`.
Decide(k, status, result) ==
  cands' = [cands EXCEPT ![k] =
              [status |-> status, asked |-> @.asked, result |-> result]]

\* validate_remember_request and ensure_memory_in_space come with the approval.
Approve(k, require) ==
  LET s == cands[k].asked IN
  /\ Pending(k)
  /\ ~Refused(s, require)
  /\ s.kind \in Kinds
  /\ s.supersedes \subseteq Ids
  /\ \E window \in ClaimWindows(RequestOf(s)) : Remember(RequestOf(s), window)
  /\ Decide(k, "approved", count + 1)

\* reject_candidate and quarantine_candidate differ in the status only.
Dismiss(k, status) ==
  /\ Pending(k)
  /\ Decide(k, status, 0)
  /\ UNCHANGED vars

QueueNext ==
  \/ Next /\ UNCHANGED cands
  \/ /\ Len(cands) < MaxCandidates
     /\ \E s \in Submissions : Submit(s)
  \/ /\ count < MaxMemories
     /\ \E k \in DOMAIN cands, require \in RequireAdjudication :
          Approve(k, require)
  \/ \E k \in DOMAIN cands, status \in {"rejected", "quarantined"} :
       Dismiss(k, status)

QueueSpec == QueueInit /\ [][QueueNext]_queueVars

-----------------------------------------------------------------------------
(* Properties *)

\* With the queue in front, the store is still a MemoryStore: an approval is
\* one remember, so everything that is proved of MemoryStore holds here.
ImplementsStore == Spec

\* A decision is taken once: nothing changes a candidate that is not pending,
\* and a submission is never changed at all.
DecisionsAreFinal ==
  [][\A k \in DOMAIN cands :
       /\ cands'[k].asked = cands[k].asked
       /\ cands[k].status # "pending" => cands'[k] = cands[k]]_queueVars

\* An approval and its memory belong together whatever happens to the memory
\* later: no two candidates made the same memory, it lies where the candidate
\* asked, and what the candidate named is superseded by it.
ApprovalsMakeMemories ==
  \A k \in DOMAIN cands :
    LET c == cands[k] IN
    IF c.status = "approved"
    THEN /\ c.result \in Ids
         /\ mem[c.result].space = c.asked.space
         /\ mem[c.result].key = c.asked.key
         /\ \A i \in c.asked.supersedes : <<c.result, i, "supersedes">> \in links
         /\ \A l \in DOMAIN cands : cands[l].result = c.result => l = k
    ELSE c.result = 0

\* Where every process requires it, no capture becomes a memory without a verdict.
CapturesAreAdjudicated ==
  RequireAdjudication = {TRUE} =>
    \A k \in DOMAIN cands :
      cands[k].status = "approved" => cands[k].asked.source # "capture"

\* The queue is well formed, a memory of the queue and the approval it comes
\* from belong together, and none is made past the gate.
ApprovalsSound == QueueTypeOK /\ ApprovalsMakeMemories /\ CapturesAreAdjudicated
=============================================================================
