------------------------------ MODULE MCPrSync ------------------------------
(***************************************************************************)
(* Two pull requests: the first names a ticket below an epic, the second   *)
(* names nothing.  Two features: the epic's, without test cases, and the   *)
(* one users choose, with test cases.  For the search, a newer version of  *)
(* the first and one of a third group, without epics.                      *)
(***************************************************************************)
EXTENDS Suggesting

Feature(group, version, epic) == [group |-> group, version |-> version, epic |-> epic, tag |-> None]
MCFeatures == [f1 |-> Feature("g1", 1, "E"), f2 |-> Feature("g2", 1, None),
               f3 |-> Feature("g1", 2, None), f4 |-> Feature("g3", 1, None)]
MCScores == 1..3
MCWithCases == {"f2"}
MCIssues == [S |-> [isEpic |-> FALSE, parent |-> "E"], E |-> [isEpic |-> TRUE, parent |-> None]]
MCText == [n \in Numbers |-> [keys |-> IF n = "p1" THEN <<"S">> ELSE <<>>,
                              tags |-> {}]]
MCPicked == {"f2"}

\* After an overlap or a failure only syncs start anew, one at a time, and no
\* migration begins: what the threads leave behind is decided by then, and
\* what the watermark hides, by the next sync.
CalmAfterBroken ==
    broken = {}
    \/ /\ migrations' = migrations
       /\ \A t \in Threads : th[t].pc = "idle" /\ th'[t].pc # "idle" =>
             th'[t].pc = "sync" /\ \A s \in Threads : th[s].pc = "idle"

Perms == Permutations(Threads)
=============================================================================
