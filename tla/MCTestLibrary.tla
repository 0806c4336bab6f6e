---- MODULE MCTestLibrary ----
EXTENDS TestLibrary, TLC

Interchange == Permutations(Cases) \cup Permutations(Steps) \cup Permutations(Threads)

(* Every invariant gives up once a deletion overlapped something: the     *)
(* first such state is checked and not explored further.                   *)
UpToClash == ~clash

(* Once the process was restarted, requests overlap only for one step:     *)
(* what a crash tears is met by every sequence of later requests.          *)
SerialAfterCrash == crashes > 0 => Cardinality(Busy) <= 1
====
