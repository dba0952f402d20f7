------------------------------ MODULE MCScheduler ------------------------------
(* Instances of Scheduler for TLC. *)
EXTENDS Scheduler
CONSTANTS j1, j2, j3, c1, c2

MCId2 == (j1 :> 1) @@ (j2 :> 2)
MCId3 == (j1 :> 1) @@ (j2 :> 2) @@ (j3 :> 3)
Singles == {<< c1 >>}
Arrays == {<< >>, << c1 >>, << c2, c1 >>}
================================================================================
