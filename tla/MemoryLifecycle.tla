--------------------------- MODULE MemoryLifecycle ---------------------------
(***************************************************************************)
(* What the store promises about a memory's status, whatever its tables    *)
(* look like: a memory is born active, and the write that gives birth to   *)
(* it is the only one that may supersede others; superseding takes active, *)
(* unpinned memories; only maintenance expires, and only active ones;      *)
(* nothing returns to active; a tombstone is final and nothing else ends   *)
(* a superseded or expired memory.                                         *)
(***************************************************************************)
EXTENDS Naturals

CONSTANT MaxMemories   \* bound: the most memories a behaviour creates

VARIABLES
  status,   \* status[i] for each memory 1..n, in order of creation
  pinned    \* whether memory i was created pinned

vars == <<status, pinned>>

Ids == DOMAIN status

Init == status = [i \in 1..0 |-> 0] /\ pinned = [i \in 1..0 |-> 0]

Create(new, pin, retired) ==
  /\ Ids = 1..(new - 1)
  /\ retired \subseteq {i \in Ids : status[i] = "active" /\ ~pinned[i]}
  /\ status' = [i \in 1..new |-> IF i = new THEN "active"
                                 ELSE IF i \in retired THEN "superseded"
                                 ELSE status[i]]
  /\ pinned' = [i \in 1..new |-> IF i = new THEN pin ELSE pinned[i]]

Tombstone(i) ==
  /\ status[i] # "tombstoned"
  /\ status' = [status EXCEPT ![i] = "tombstoned"]
  /\ UNCHANGED pinned

Expire(lapsed) ==
  /\ lapsed \subseteq {i \in Ids : status[i] = "active"}
  /\ status' = [i \in Ids |-> IF i \in lapsed THEN "expired" ELSE status[i]]
  /\ UNCHANGED pinned

Next ==
  \/ \E new \in 1..MaxMemories, pin \in BOOLEAN, retired \in SUBSET Ids :
       Create(new, pin, retired)
  \/ \E i \in Ids : Tombstone(i)
  \/ \E lapsed \in SUBSET Ids : Expire(lapsed)

Spec == Init /\ [][Next]_vars
=============================================================================
