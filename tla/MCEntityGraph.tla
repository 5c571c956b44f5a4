---------------------------- MODULE MCEntityGraph ----------------------------
(* Instances of EntityGraph for TLC: names, and captures of one or two keys. *)
EXTENDS EntityGraph

CONSTANTS a, derived, t

MCDerivedName == [k \in Keys |-> derived]

MCCaptures ==
  {[name |-> (1 :> a @@ 3 :> derived), aliases |-> (1 :> {} @@ 3 :> {}),
    edges |-> << <<1, 1, 3>> >>]}

Request(k, name, status) == [key |-> k, name |-> name, aliases |-> {}, status |-> status]
MCEntityRequests == {Request(2, a, "active")}

MCEdgeRequests ==
  {[subject |-> 2, type |-> type, object |-> 3, memory |-> 0, status |-> "active"] :
     type \in {1, RelatedTo}}
=============================================================================
