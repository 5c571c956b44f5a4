------------------------------ MODULE MCArchive ------------------------------
(* Two spaces, one of them created with a default silo of its own, and two  *)
(* memories: one with a card and a vector that expires, one with a source.    *)
EXTENDS Archive

CONSTANTS s

MCNewSpaces == {s} \X {LongTerm}

MCWrites ==
  {[space |-> DefaultSpace, silo |-> ShortTerm, expires |-> 0, sourced |-> FALSE,
    card |-> "card", vector |-> TRUE, fit |-> TRUE],
   [space |-> s, silo |-> LongTerm, expires |-> Never, sourced |-> TRUE,
    card |-> Summary, vector |-> FALSE, fit |-> TRUE]}

MCIngests ==
  {[space |-> DefaultSpace, vector |-> TRUE, fit |-> TRUE],
   [space |-> s, vector |-> FALSE, fit |-> TRUE],
   [space |-> s, vector |-> FALSE, fit |-> FALSE]}
=============================================================================
