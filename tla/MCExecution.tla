----------------------------- MODULE MCExecution -----------------------------
(***************************************************************************)
(* Execution for TLC.  The questions have two options, one of which the    *)
(* model may send twice.                                                   *)
(***************************************************************************)
EXTENDS Execution, TLC

CONSTANTS c1, c2, t1, t2

MCPlanned == <<c1>>
Parsed(key, options, correct) == [category |-> TRUE, key |-> key, long |-> TRUE, options |-> options, correct |-> correct]
MCLower == "Yes" :> "yes" @@ "yes" :> "yes" @@ "no" :> "no" @@ "other" :> "other"
Good == <<Parsed("k1", <<"Yes", "yes", None, "no">>, "no"), Parsed("k1", <<"yes", "no">>, "yes"),
          [Parsed("k2", <<"yes", "no">>, "yes") EXCEPT !.category = FALSE], Parsed("k3", <<"no", "yes", "other">>, "other")>>
Few == <<Parsed("k1", <<"no", "no">>, "no")>>
MCReplies == {Failed, Good, Few}
MCOrders == {<<2, 1>>}
MCSelections == {<<<<1, 1>>, <<2, 1>>>>, <<<<1, 2>>, <<9, 1>>>>}
Interchange == Permutations(Threads)
=============================================================================
