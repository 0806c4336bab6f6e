---- MODULE Migration ----
(***************************************************************************)
(* "Switch to this database": the migration job's copy, its verification,  *)
(* the write of MONGO_URI to .env and the restart that makes it count,     *)
(* while requests keep writing to the live source.  One migration runs at  *)
(* a time: JobRegistry!MigrationRunsAlone.                                 *)
(*                                                                         *)
(* A document is present in a collection at a version; 0 means absent.     *)
(***************************************************************************)
EXTENDS Naturals, FiniteSets

CONSTANTS
  Dbs,          \* databases a connection string may name
  Home,         \* the one the installation starts on
  Colls,        \* collections, the EPHEMERAL ones left out
  Docs,         \* _ids a collection may hold
  MaxVer,       \* bound: versions of one document
  MaxWrites,    \* bound: writes the application makes
  MaxForeign,   \* bound: inserts others make into a database not in use
  MaxRestarts,  \* bound: restarts
  NoColl        \* no collection is being copied

ASSUME MigrationAssumption ==
  /\ Home \in Dbs
  /\ MaxVer \in Nat \ {0}
  /\ MaxWrites \in Nat
  /\ MaxForeign \in Nat
  /\ MaxRestarts \in Nat
  /\ NoColl \notin Colls
  /\ IsFiniteSet(Docs)

VARIABLES
  db,         \* db[D][c][d]: version of document d
  made,       \* made[D]: collections that exist in D
  active,     \* the database the process is connected to
  env,        \* the database MONGO_URI in .env names
  up,         \* the process runs
  mig,        \* the migration: phase and the choices of its request
  names,      \* list_collection_names() when the copy began
  todo,       \* collections of names not yet copied, then not yet counted
  cur,        \* the collection being streamed
  cursor,     \* ids its find({}) has not passed yet
  copied,     \* counts[nm] of migrate_to
  counted,    \* history: what the source held when verification counted it
  ok,         \* no failure found so far by verify_migration
  deleted,    \* history: a document was deleted since the copy began
  quiet,      \* history: nothing but the migration wrote since then
  settled,    \* history: "copied" once a quiet copy is what .env names, for as
              \* long as only migrations write; "recopied" when one replaces it
  writes, foreign, restarts   \* counters of the bounded environment

dataVars == <<db, made>>
copyVars == <<names, todo, cur, cursor, copied, counted, ok>>
historyVars == <<deleted, quiet, settled>>
envVars == <<writes, foreign, restarts>>
vars == <<db, made, active, env, up, mig, names, todo, cur, cursor, copied, counted, ok,
          deleted, quiet, settled, writes, foreign, restarts>>

MigPhase == {"idle", "launched", "copy", "verify", "switch", "report"}

Empty == [c \in Colls |-> [d \in Docs |-> 0]]
Ids(D, c) == {d \in Docs : db[D][c][d] # 0}
NonEmpty(D) == {c \in Colls : Ids(D, c) # {}}

TypeOK ==
  /\ db \in [Dbs -> [Colls -> [Docs -> 0 .. MaxVer]]]
  /\ made \in [Dbs -> SUBSET Colls]
  /\ active \in Dbs /\ env \in Dbs /\ up \in BOOLEAN
  /\ mig \in [phase : MigPhase, target : Dbs, overwrite : BOOLEAN, override : BOOLEAN]
  /\ names \subseteq Colls /\ todo \subseteq names
  /\ cur \in Colls \cup {NoColl}
  /\ cursor \subseteq Docs
  /\ copied \in [Colls -> 0 .. Cardinality(Docs)]
  /\ counted \in [Colls -> SUBSET Docs]
  /\ ok \in BOOLEAN /\ deleted \in BOOLEAN /\ quiet \in BOOLEAN
  /\ settled \in {"no", "copied", "recopied"}
  /\ writes \in 0 .. MaxWrites
  /\ foreign \in 0 .. MaxForeign
  /\ restarts \in 0 .. MaxRestarts

NoMigration == [phase |-> "idle", target |-> Home, overwrite |-> FALSE, override |-> FALSE]
NoCopy ==
  /\ names' = {} /\ todo' = {} /\ cur' = NoColl /\ cursor' = {}
  /\ copied' = [c \in Colls |-> 0]
  /\ counted' = [c \in Colls |-> {}]
  /\ ok' = TRUE

(* The source holds one document, every other database none. *)
Init ==
  /\ \E c \in Colls, d \in Docs :
       db = [D \in Dbs |-> IF D = Home THEN [Empty EXCEPT ![c][d] = 1] ELSE Empty]
  /\ made = [D \in Dbs |-> NonEmpty(D)]
  /\ active = Home /\ env = Home /\ up = TRUE
  /\ mig = NoMigration
  /\ names = {} /\ todo = {} /\ cur = NoColl /\ cursor = {}
  /\ copied = [c \in Colls |-> 0]
  /\ counted = [c \in Colls |-> {}]
  /\ ok = TRUE /\ deleted = FALSE /\ quiet = TRUE /\ settled = "no"
  /\ writes = 0 /\ foreign = 0 /\ restarts = 0

-----------------------------------------------------------------------------
(* The request. *)

Phase(p) == mig' = [mig EXCEPT !.phase = p]

(* _preflight_migration: another database than the one in use, and an      *)
(* empty one unless the caller chose to replace what it holds.  A retry    *)
(* (_retry_migration) is the same request with overwrite off.              *)
Preflight(t, overwrite, override) ==
  /\ up
  /\ mig.phase = "idle"
  /\ t # active
  /\ overwrite \/ NonEmpty(t) = {}
  /\ mig' = [phase |-> "launched", target |-> t, overwrite |-> overwrite, override |-> override]
  /\ UNCHANGED <<dataVars, active, env, up, copyVars, historyVars, envVars>>

(* The job ends without having written .env. *)
GiveUp ==
  /\ mig' = NoMigration
  /\ NoCopy

-----------------------------------------------------------------------------
(* migrate_to *)

(* Both checks are made again where the data would be erased. *)
BeginCopy ==
  /\ mig.phase = "launched"
  /\ IF mig.target = active \/ (~mig.overwrite /\ made[active] \cap NonEmpty(mig.target) # {})
       THEN GiveUp /\ UNCHANGED historyVars
       ELSE /\ Phase("copy")
            /\ names' = made[active]
            /\ todo' = made[active]
            /\ deleted' = FALSE
            /\ quiet' = TRUE
            /\ UNCHANGED <<cur, cursor, copied, counted, ok, settled>>
  /\ UNCHANGED <<dataVars, active, env, up, envVars>>

(* With overwrite the target's collection is emptied first. *)
StartColl(c) ==
  /\ mig.phase = "copy"
  /\ cur = NoColl
  /\ c \in todo
  /\ cur' = c
  /\ todo' = todo \ {c}
  /\ cursor' = Docs
  /\ db' = IF mig.overwrite THEN [db EXCEPT ![mig.target][c] = [d \in Docs |-> 0]] ELSE db
  /\ settled' = IF mig.overwrite /\ mig.target = env /\ settled = "copied"
                  THEN "recopied" ELSE settled
  /\ UNCHANGED <<made, active, env, up, mig, names, copied, counted, ok, deleted, quiet, envVars>>

(* Mutant: documents are upserted, so a duplicate key is not noticed. *)
StreamDoc_Upserts(d) ==
  /\ mig.phase = "copy"
  /\ d \in cursor
  /\ cursor' = cursor \ {d}
  /\ db' = [db EXCEPT ![mig.target][cur][d] =
              IF db[active][cur][d] # 0 THEN db[active][cur][d] ELSE @]
  /\ copied' = [copied EXCEPT ![cur] = @ + IF db[active][cur][d] # 0 THEN 1 ELSE 0]
  /\ UNCHANGED <<made, active, env, up, mig, names, todo, cur, counted, ok, historyVars, envVars>>

(* find({}) reaches d.  Its cursor has no isolation: a document written    *)
(* since it was opened is seen or missed, depending on where it lies.  An  *)
(* _id the target already holds is a duplicate key: the job fails, after   *)
(* the unordered insert has stored what it could of the rest of the batch. *)
StreamDoc(d) ==
  /\ mig.phase = "copy"
  /\ d \in cursor
  /\ IF db[active][cur][d] # 0 /\ db[mig.target][cur][d] # 0
       THEN /\ GiveUp
            /\ \E rest \in SUBSET {e \in cursor : db[mig.target][cur][e] = 0} :
                 db' = [db EXCEPT ![mig.target][cur] =
                          [e \in Docs |-> IF e \in rest THEN db[active][cur][e] ELSE @[e]]]
            /\ UNCHANGED made
       ELSE /\ cursor' = cursor \ {d}
            /\ db' = [db EXCEPT ![mig.target][cur][d] =
                        IF db[active][cur][d] # 0 THEN db[active][cur][d] ELSE @]
            /\ made' = IF db[active][cur][d] # 0
                         THEN [made EXCEPT ![mig.target] = @ \cup {cur}] ELSE made
            /\ copied' = [copied EXCEPT ![cur] = @ + IF db[active][cur][d] # 0 THEN 1 ELSE 0]
            /\ UNCHANGED <<mig, names, todo, cur, counted, ok>>
  /\ UNCHANGED <<active, env, up, historyVars, envVars>>

(* Mutant: the last, partial batch is not inserted. *)
EndColl_LosesBatch ==
  /\ mig.phase = "copy"
  /\ cur # NoColl
  /\ Cardinality(cursor) <= 1
  /\ cur' = NoColl
  /\ cursor' = {}
  /\ UNCHANGED <<dataVars, active, env, up, mig, names, todo, copied, counted, ok,
                 historyVars, envVars>>

EndColl ==
  /\ mig.phase = "copy"
  /\ cur # NoColl
  /\ cursor = {}
  /\ cur' = NoColl
  /\ UNCHANGED <<dataVars, active, env, up, mig, names, todo, cursor, copied, counted, ok,
                 historyVars, envVars>>

CopyDone ==
  /\ mig.phase = "copy"
  /\ cur = NoColl
  /\ todo = {}
  /\ Phase("verify")
  /\ todo' = names
  /\ UNCHANGED <<dataVars, active, env, up, names, cur, cursor, copied, counted, ok,
                 historyVars, envVars>>

-----------------------------------------------------------------------------
(* verify_migration *)

(* The two counts are of different databases and commute with every write  *)
(* between them, so they are one step.                                     *)
CountColl(c) ==
  /\ mig.phase = "verify"
  /\ c \in todo
  /\ todo' = todo \ {c}
  /\ counted' = [counted EXCEPT ![c] = Ids(active, c)]
  /\ ok' = (/\ ok
            /\ Cardinality(Ids(mig.target, c)) = copied[c]
            /\ mig.override \/ Cardinality(Ids(active, c)) = copied[c])
  /\ UNCHANGED <<dataVars, active, env, up, mig, names, cur, cursor, copied, historyVars, envVars>>

(* Collections created since are drift; then the verdict. *)
VerifyDone ==
  /\ mig.phase = "verify"
  /\ todo = {}
  /\ IF ok /\ (mig.override \/ made[active] \subseteq names)
       THEN /\ Phase("switch")
            /\ counted' = [c \in Colls |-> IF c \in names THEN counted[c] ELSE Ids(active, c)]
            /\ UNCHANGED <<names, todo, cur, cursor, copied, ok>>
       ELSE GiveUp
  /\ UNCHANGED <<dataVars, active, env, up, historyVars, envVars>>

(* The target or the source cannot be reached, an insert or a count        *)
(* fails, or .env cannot be written.                                       *)
MigrationFails ==
  /\ mig.phase \in {"launched", "copy", "verify", "switch"}
  /\ GiveUp
  /\ UNCHANGED <<dataVars, active, env, up, historyVars, envVars>>

WriteEnv ==
  /\ mig.phase = "switch"
  /\ Phase("report")
  /\ env' = mig.target
  /\ settled' = IF quiet THEN "copied" ELSE "no"
  /\ UNCHANGED <<dataVars, active, up, copyVars, deleted, quiet, envVars>>

Report ==
  /\ mig.phase = "report"
  /\ GiveUp
  /\ UNCHANGED <<dataVars, active, env, up, historyVars, envVars>>

-----------------------------------------------------------------------------
(* Everything else that runs meanwhile. *)

(* A request that saves directly (no job row, so no admission check), or,  *)
(* under override_busy, a job that was already running: insert, update in  *)
(* place or delete one document of the database in use.                    *)
AppWrite(c, d, version) ==
  /\ up
  /\ writes < MaxWrites
  /\ version # db[active][c][d]
  /\ version \in {0, db[active][c][d] + 1}
  /\ db' = [db EXCEPT ![active][c][d] = version]
  /\ made' = [made EXCEPT ![active] = @ \cup {c}]
  /\ deleted' = (deleted \/ version = 0)
  /\ quiet' = FALSE
  /\ settled' = "no"
  /\ writes' = writes + 1
  /\ UNCHANGED <<active, env, up, mig, copyVars, foreign, restarts>>

(* Someone else uses a database the operator may pick as a target. *)
ForeignInsert(D, c, d) ==
  /\ D # active
  /\ foreign < MaxForeign
  /\ db[D][c][d] = 0
  /\ db' = [db EXCEPT ![D][c][d] = MaxVer]
  /\ made' = [made EXCEPT ![D] = @ \cup {c}]
  /\ quiet' = FALSE
  /\ settled' = "no"
  /\ foreign' = foreign + 1
  /\ UNCHANGED <<active, env, up, mig, copyVars, deleted, writes, restarts>>

(* POST /api/db-config: MONGO_URI by hand, nothing copied. *)
SetDbConfig(D) ==
  /\ up
  /\ env' = D
  /\ settled' = "no"
  /\ UNCHANGED <<dataVars, active, up, mig, copyVars, deleted, quiet, envVars>>

(* The process dies or is stopped; its successor connects to what .env     *)
(* names.                                                                  *)
Stop ==
  /\ up
  /\ restarts < MaxRestarts
  /\ up' = FALSE
  /\ restarts' = restarts + 1
  /\ GiveUp
  /\ UNCHANGED <<dataVars, active, env, historyVars, writes, foreign>>

Start ==
  /\ ~up
  /\ up' = TRUE
  /\ active' = env
  /\ UNCHANGED <<dataVars, env, mig, copyVars, historyVars, envVars>>

MigrationStep ==
  \/ BeginCopy
  \/ \E c \in Colls : StartColl(c) \/ CountColl(c)
  \/ \E d \in Docs : StreamDoc(d)
  \/ EndColl
  \/ CopyDone
  \/ VerifyDone
  \/ MigrationFails
  \/ WriteEnv
  \/ Report

Next ==
  \/ \E t \in Dbs, overwrite \in BOOLEAN, override \in BOOLEAN : Preflight(t, overwrite, override)
  \/ MigrationStep
  \/ \E c \in Colls, d \in Docs, version \in 0 .. MaxVer : AppWrite(c, d, version)
  \/ \E D \in Dbs, c \in Colls, d \in Docs : ForeignInsert(D, c, d)
  \/ \E D \in Dbs : SetDbConfig(D)
  \/ Stop
  \/ Start

Spec == Init /\ [][Next]_vars

-----------------------------------------------------------------------------
(* docs/configuration.md: "Your current database is never modified".  No   *)
(* step of a migration writes to the database the process runs on, which   *)
(* target_is_this_database() is there for.                                 *)
ActiveUntouched ==
  [][MigrationStep => db'[active] = db[active] /\ made'[active] = made[active]]_vars

(* A document in a database that is not in use disappears or changes only  *)
(* in the target of a migration whose own request chose to replace it.     *)
OverwriteOnlyOnRequest ==
  [][\A D \in Dbs \ {active}, c \in Colls, d \in Docs :
       db[D][c][d] # 0 /\ db'[D][c][d] # db[D][c][d] =>
         mig.overwrite /\ mig.target = D /\ mig.phase = "copy"]_vars

(* Nothing else wrote: a copy that passed verification holds every         *)
(* document of the source at the source's version, and no other.           *)
QuietCopyExact ==
  mig.phase \in {"switch", "report"} /\ quiet =>
    \A c \in Colls : db[active][c] = db[mig.target][c] \/ (c \notin names /\ Ids(active, c) = {})

(* Requests did write, but deleted nothing: without override_busy, a copy  *)
(* that passed verification holds every document the source held when it   *)
(* was counted, in the collections created meanwhile too.                  *)
DriftCaught ==
  mig.phase \in {"switch", "report"} /\ ~mig.override /\ ~deleted =>
    \A c \in Colls : counted[c] \subseteq Ids(mig.target, c)

(* A restart that follows a quiet switch finds every document of the old   *)
(* database in the new one.                                                *)
Carries(D, old) == \A c \in Colls : \A d \in Ids(old, c) : db[D][c][d] = db[old][c][d]

RestartKeepsData ==
  [][active' # active /\ settled = "copied" => Carries(active', active)]_vars

(* store/base.py, verify_migration: a verified copy during which nobody    *)
(* else wrote is exact, and one during which nothing was deleted has all   *)
(* that was counted.                                                       *)
CopySound == TypeOK /\ QuietCopyExact /\ DriftCaught

(* store/base.py, migrate_to: no step of a migration writes to the         *)
(* database in use, what another holds changes only in a target that was   *)
(* to be replaced, and a restart after an undisturbed switch finds every   *)
(* document again.                                                         *)
MigrationSteps == ActiveUntouched /\ OverwriteOnlyOnRequest /\ RestartKeepsData
====
