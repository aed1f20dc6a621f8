------------------------------- MODULE MCPipe -------------------------------
(* TLC instances of Pipe.                                                  *)
EXTENDS Pipe

CONSTANTS p1, p2
=============================================================================
