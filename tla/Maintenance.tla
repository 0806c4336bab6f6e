----------------------------- MODULE Maintenance -----------------------------
(***************************************************************************)
(* The copy of the database to another and the upkeep of the readable ids, *)
(* which both survive restarts.  They share no state that the models see,  *)
(* so their behaviours stand side by side and are not interleaved: scene   *)
(* says which of them moves.                                               *)
(***************************************************************************)
EXTENDS Migration

CONSTANTS Groups, Cases, Clients, Boot, Legacy, GroupOf, MaxCount, MaxCrashes

VARIABLES scene, id, legacy, stored, prefix, counter, indexed, done, work, stage, left, listed, rank, crashes, original, raced

Readable == INSTANCE DisplayIds WITH todo <- left
idVars == <<id, legacy, stored, prefix, counter, indexed, done, work, stage, left, listed, rank, crashes, original, raced>>

ASSUME ReadableAssumption == Readable!IdsAssumption

\* While the migration moves, the ids are those of one initial state.
MaintenanceInit == scene \in {"migration", "ids"} /\ Init /\ Readable!Init /\ (indexed => scene = "ids")
MaintenanceNext == \/ scene = "migration" /\ Next /\ UNCHANGED <<scene, idVars>>
                   \/ scene = "ids" /\ Readable!Next /\ UNCHANGED <<scene, vars>>
MaintenanceSpec == MaintenanceInit /\ [][MaintenanceNext]_<<scene, vars, idVars>>

\* Those of DisplayIds, here; store/steps_test_cases.py: no id is handed out
\* twice, ids given before stay, renumbering keeps the order, and it leaves no
\* temporary id behind.
IdsSound == Readable!IdsSound
IdsStable == Readable!IdsStable
=============================================================================
