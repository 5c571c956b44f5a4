---------------------------- MODULE MCStoreFiles ----------------------------
(* Two processes, a store and the path of an output.                          *)
EXTENDS StoreFiles

CONSTANTS home, out

MCJobs ==
  {[op |-> op, path |-> home, from |-> home] : op \in {"init", "import", "write"}}
    \cup {[op |-> op, path |-> out, from |-> home] : op \in {"export", "backup"}}
    \cup {[op |-> op, path |-> out, from |-> out] : op \in {"write", "init"}}
=============================================================================
