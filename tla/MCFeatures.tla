----------------------------- MODULE MCFeatures ------------------------------
(* Two epics, one also sent with blanks around it.                              *)
EXTENDS Features, TLC

CONSTANTS q1, q2, d1, d2

MCStrip == "E" :> "E" @@ "F" :> "F" @@ " E " :> "E"
Symmetry == Permutations(Requests) \union Permutations(Texts)
=============================================================================
