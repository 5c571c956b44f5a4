----------------------------- MODULE MCRetrieval ------------------------------
(* Instances of Retrieval for TLC: memories that the arms rank differently,   *)
(* evidence that crosses spaces, and requests at their caps.                  *)
EXTENDS Retrieval

CONSTANTS work, home, plain, dense, long, q

Finds(bm25, distance, maxsim, rerank) ==
  [bm25 |-> bm25, distance |-> distance, maxsim |-> maxsim, rerank |-> rerank]
MCOf == [query \in Queries |->
  (plain :> Finds(4, 80, 3, 2)) @@ (dense :> Finds(0, 10, 9, 5))
    @@ (long :> Finds(6, 40, 1, 7))]
MCTerms == [query \in Queries |-> {"the", "deploy"}]
MCVariants == ("the" :> {"the"}) @@ ("deploy" :> {"deploy"})
MCWords == (plain :> {"the", "deploy"}) @@ (dense :> {"the", "host"}) @@ (long :> {"deployment"})
MCStarts == {<<"deploy", "deployment">>}
MCSize == (plain :> 2) @@ (dense :> 3) @@ (long :> 9)
MCMentions == [query \in Queries |-> <<1>>]
MCEntities == {Entity(work, 1), Entity(work, 2), Entity(home, 2)}

Memory(space, key, text, until, vector, matrix, edge) ==
  [space |-> space, key |-> key, text |-> text, boost |-> 0, pinned |-> FALSE, until |-> until,
   vector |-> vector, tokens |-> matrix, edge |-> edge]
MCWrites ==
  <<{Memory(work, NoKey, plain, "none", FALSE, TRUE, <<1, 2>>),
     Memory(work, 1, plain, "expires_at", TRUE, TRUE, <<1, 2>>)},
    {Memory(work, 2, dense, "expires_at", TRUE, TRUE, NoEdge),
     Memory(home, 2, long, "none", TRUE, FALSE, NoEdge),
     Memory(work, NoKey, long, "valid_to", FALSE, FALSE, <<2, 1>>)},
    {Memory(work, 2, long, "none", TRUE, FALSE, NoEdge),
     Memory(home, 2, dense, "none", FALSE, TRUE, <<2, 2>>)},
    {Memory(work, 2, plain, "none", TRUE, TRUE, NoEdge)}>>

SearchFor(late, shortlist, rerank) ==
  [query |-> q, spaces |-> {work}, limit |-> 1, offset |-> 0, dense |-> TRUE, tokens |-> late,
   shortlist |-> shortlist, rerank |-> rerank]
MCSearches == {SearchFor(FALSE, 0, 2), SearchFor(TRUE, 1, 0)}

PackOf(memories, chars, embedded, late, neighbors) ==
  [queries |-> <<q>>, spaces |-> {work}, memories |-> memories, chars |-> chars, floor |-> 3,
   rerank |-> 0, dense |-> embedded, tokens |-> late, shortlist |-> IF late THEN 1 ELSE 0,
   seeds |-> 2, neighbors |-> neighbors]
MCPacks ==
  {PackOf(1, 6, FALSE, FALSE, 1), PackOf(2, 20, TRUE, FALSE, 2),
   [PackOf(1, 5, TRUE, TRUE, 1) EXCEPT !.rerank = 2, !.spaces = {}]}
=============================================================================
