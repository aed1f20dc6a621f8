------------------------------ MODULE MCMemory ------------------------------
(***************************************************************************)
(* Two processes over few pages, so that every kalloc() can be the one     *)
(* that fails; sbrk(-3) lets a program give back all it has.               *)
(***************************************************************************)
EXTENDS Syscall

GrowSizes == {3, -3}
=============================================================================
