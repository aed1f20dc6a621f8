------------------------------ MODULE MCUmalloc ------------------------------
(***************************************************************************)
(* A heap of two or three pieces of core, blocks of two and three headers. *)
(***************************************************************************)
EXTENDS Umalloc
=============================================================================
