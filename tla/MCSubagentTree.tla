--------------------------- MODULE MCSubagentTree ---------------------------
(* Two or three tasks that may nest, and concurrent calls. *)
EXTENDS SubagentTree, TLC

CONSTANTS t1, t2, t3, k1, k2

Symmetric == Permutations(Tasks) \cup Permutations(Calls)
=============================================================================
