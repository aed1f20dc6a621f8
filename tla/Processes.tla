----------------------------- MODULE Processes ------------------------------
(***************************************************************************)
(* The process table (param.h): any finite set of processes.               *)
(***************************************************************************)
EXTENDS FiniteSets

CONSTANT Procs

ASSUME ProcsFinite == IsFiniteSet(Procs)
=============================================================================
