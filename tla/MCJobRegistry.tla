---- MODULE MCJobRegistry ----
(* The job registry on the jobs the configurations name: two migrations and *)
(* another job for safety, one of each for liveness.                        *)
EXTENDS JobRegistry
====
