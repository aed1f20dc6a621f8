----------------------------- MODULE MCConsole ------------------------------
(* TLC instances of Console.                                               *)
EXTENDS Console

CONSTANTS p1, p2
=============================================================================
