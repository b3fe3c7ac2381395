-------------------------- MODULE MCRestoreHandler --------------------------
(* The instance of RestoreHandler for TLC. *)
EXTENDS RestoreHandler, TLC

CONSTANTS v1, v2

(* A range of one page, a short chunk, and a range of two huge pages that  *)
(* is one full chunk.                                                      *)
TwoRanges == <<[length |-> 1, page_size |-> 1], [length |-> 4, page_size |-> 2]>>
Requests == [p \in Pages |-> PageRequest(p)]
(* The vCPUs share the chunk of pages 1 and 2. *)
TwoPrograms ==
  v1 :> {[op |-> "read", page |-> 0], [op |-> "read", page |-> 1], [op |-> "write", page |-> 1]}
  @@ v2 :> {[op |-> "write", page |-> 2]}
=============================================================================
