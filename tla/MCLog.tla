------------------------------- MODULE MCLog -------------------------------
(* TLC instances of Log: two processes, five blocks of two contents.       *)
EXTENDS Log, TLC

Symmetry == Permutations(Procs) \cup Permutations(Blocks) \cup Permutations(Data)
=============================================================================
