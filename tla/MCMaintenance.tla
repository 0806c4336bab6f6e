---------------------------- MODULE MCMaintenance ----------------------------
(***************************************************************************)
(* Maintenance for TLC: two databases, collections and documents; three    *)
(* cases, two of them from before, in one of two groups.                   *)
(***************************************************************************)
EXTENDS Maintenance, TLC

CONSTANTS home, away, c1, c2, d1, d2, g1, g2, k1, k2, k3, u1

\* Collections and documents are interchangeable.
Interchange == Permutations(Colls) \cup Permutations(Docs)
MCGroupOf == [c \in Cases |-> g1]
\* Threads that share a prefix are not explored further.
UpToRace == ~raced
=============================================================================
