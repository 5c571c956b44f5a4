----------------------------- MODULE MCDocuments ------------------------------
(* Instances of Documents for TLC: sources that share contents, with and      *)
(* without a path, in two spaces.                                            *)
EXTENDS Documents

CONSTANTS docs, notes, x, y, asked

Source(space, path, texts, meta, embedded) ==
  [space |-> space, path |-> path, texts |-> texts, meta |-> meta, vectors |-> embedded]
MCIngests ==
  {Source(docs, 1, <<y, x, y>>, 1, TRUE), Source(docs, NoPath, <<x>>, 2, FALSE),
   Source(notes, 1, <<x>>, 1, TRUE), Source(docs, 1, <<x>>, 2, TRUE)}

MCMatching == [query \in Queries |-> {x}]
=============================================================================
