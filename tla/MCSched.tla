------------------------------ MODULE MCSched ------------------------------
(* TLC instances of Sched: two CPUs, one of them the boot CPU.             *)
EXTENDS Sched
=============================================================================
