--------------------------- MODULE Migration_proofs ---------------------------
(***************************************************************************)
(* A verified copy of the database is sound, and no step of a migration    *)
(* loses what is in use: for any databases, collections and documents, and *)
(* any number of writes, foreign insertions, migrations and restarts.      *)
(*                                                                         *)
(* And of the readable ids, which Maintenance puts beside it: for       *)
(* any groups, cases, creators and crashes, no id is handed out twice, and *)
(* the renumbering loses no old id, keeps their order and happens once.    *)
(***************************************************************************)
EXTENDS Maintenance, FiniteSetTheorems, WellFoundedInduction, TLAPS

-----------------------------------------------------------------------------
(* The invariant *)

Moving == mig.phase \in {"copy", "verify", "switch", "report"}

\* What each phase has in hand.
Shape ==
  /\ mig.phase # "idle" => up
  /\ Moving => mig.target # active
  /\ ~Moving => names = {} /\ cur = NoColl /\ \A c \in Colls : copied[c] = 0
  /\ mig.phase # "copy" => cur = NoColl
  /\ cur # NoColl => cur \in names \ todo
  /\ cur = NoColl => cursor = {}

\* A collection with documents exists.
Whole == \A D \in Dbs, c \in Colls : c \notin made[D] => db[D][c] = [d \in Docs |-> 0]

\* What was counted while copying: documents that the target has, and that
\* the source still has unless something was deleted.
Tally(c, K) ==
  /\ Cardinality(K) = copied[c]
  /\ c = cur => K \cap cursor = {}
  /\ c \notin names \/ (mig.phase = "copy" /\ c \in todo) => K = {}
  /\ Moving => K \subseteq Ids(mig.target, c) /\ (deleted \/ K \subseteq Ids(active, c))
Tallied == \A c \in Colls : \E K \in SUBSET Docs : Tally(c, K)

\* What verification found good the target has, and switching presumes it.
Verified ==
  /\ mig.phase = "verify" /\ ok /\ ~mig.override /\ ~deleted =>
        \A c \in names \ todo : counted[c] \subseteq Ids(mig.target, c)
  /\ DriftCaught

\* Without other writers: what is not yet copied is not in the target, and
\* what is, is as in the source.
Undisturbed ==
  Moving /\ quiet =>
    /\ \A c \in Colls \ names : db[active][c] = [d \in Docs |-> 0]
    /\ \A c \in names :
         IF mig.phase = "copy" /\ c \in todo
           THEN mig.overwrite \/ db[mig.target][c] = [d \in Docs |-> 0]
           ELSE \A d \in Docs : db[mig.target][c][d] = IF c = cur /\ d \in cursor THEN 0 ELSE db[active][c][d]

\* Until something else is written, the database .env names has everything.
Settled == settled = "copied" => Carries(env, active)

IInv == TypeOK /\ Shape /\ Whole /\ Tallied /\ Verified /\ Undisturbed /\ Settled

-----------------------------------------------------------------------------
(* What a write does                                                       *)

Zero == [d \in Docs |-> 0]

LEMMA DocsAre == IsFiniteSet(Docs) /\ Cardinality(Docs) \in Nat
BY MigrationAssumption, FS_CardinalityType

LEMMA ZeroIs ==
  ASSUME TypeOK, NEW D \in Dbs, NEW c \in Colls, Ids(D, c) = {}
  PROVE  db[D][c] = Zero
<1>1. db[D][c] \in [Docs -> 0 .. MaxVer] /\ \A d \in Docs : db[D][c][d] = 0
  BY DEF TypeOK, Ids
<1>. QED
  BY <1>1 DEF Zero

\* One collection of one database is replaced.
LEMMA PutIs ==
  ASSUME TypeOK, NEW D \in Dbs, NEW c \in Colls, NEW f \in [Docs -> 0 .. MaxVer], db' = [db EXCEPT ![D][c] = f]
  PROVE  /\ db' \in [Dbs -> [Colls -> [Docs -> 0 .. MaxVer]]]
         /\ db'[D][c] = f
         /\ \A E \in Dbs, e \in Colls : E # D \/ e # c => db'[E][e] = db[E][e]
         /\ \A E \in Dbs : E # D => db'[E] = db[E]
BY DEF TypeOK

LEMMA PhaseIs ==
  ASSUME TypeOK, NEW p \in MigPhase, Phase(p)
  PROVE  /\ mig' \in [phase : MigPhase, target : Dbs, overwrite : BOOLEAN, override : BOOLEAN]
         /\ mig'.phase = p /\ mig'.target = mig.target
         /\ mig'.overwrite = mig.overwrite /\ mig'.override = mig.override
BY DEF TypeOK, Phase

\* The migration ends, whatever it has written so far.
LEMMA GaveUp ==
  ASSUME IInv, GiveUp, Whole', Settled',
         db' \in [Dbs -> [Colls -> [Docs -> 0 .. MaxVer]]], made' \in [Dbs -> SUBSET Colls],
         active' \in Dbs, env' \in Dbs, up' \in BOOLEAN,
         UNCHANGED <<deleted, quiet, settled, writes, foreign>>, restarts' \in 0 .. MaxRestarts
  PROVE  IInv'
<1>1. /\ mig' = NoMigration /\ names' = {} /\ todo' = {} /\ cur' = NoColl /\ cursor' = {}
      /\ copied' = [c \in Colls |-> 0] /\ counted' = [c \in Colls |-> {}] /\ ok' = TRUE
  BY DEF GiveUp, NoCopy
<1>2. /\ mig' \in [phase : MigPhase, target : Dbs, overwrite : BOOLEAN, override : BOOLEAN]
      /\ mig'.phase = "idle"
  BY <1>1, MigrationAssumption DEF NoMigration, MigPhase
<1>3. 0 \in 0 .. Cardinality(Docs)
  BY DocsAre
<1>4. TypeOK'
  BY <1>1, <1>2, <1>3 DEF IInv, TypeOK
<1>5. Shape'
  BY <1>1, <1>2 DEF Shape, Moving
<1>6. Tallied'
  <2>1. \A c \in Colls : Tally(c, {})'
    BY <1>1, <1>2, FS_EmptySet DEF Tally, Moving
  <2>. QED
    BY <2>1 DEF Tallied
<1>7. Verified' /\ Undisturbed'
  BY <1>2 DEF Verified, DriftCaught, Undisturbed, Moving
<1>. QED
  BY <1>4, <1>5, <1>6, <1>7 DEF IInv

-----------------------------------------------------------------------------
(* The request and the copy                                                *)

LEMMA PreflightStep ==
  ASSUME IInv, NEW t \in Dbs, NEW overwrite \in BOOLEAN, NEW override \in BOOLEAN, Preflight(t, overwrite, override)
  PROVE  IInv'
<1>1. /\ up /\ mig.phase = "idle"
      /\ mig' = [phase |-> "launched", target |-> t, overwrite |-> overwrite, override |-> override]
      /\ UNCHANGED <<db, made, active, env, up, names, todo, cur, cursor, copied, counted, ok,
                     deleted, quiet, settled, writes, foreign, restarts>>
  BY DEF Preflight, dataVars, copyVars, historyVars, envVars
<1>2. TypeOK'
  BY <1>1 DEF IInv, TypeOK, MigPhase
<1>3. mig'.phase = "launched" /\ ~Moving /\ ~Moving'
  BY <1>1 DEF Moving
<1>4. Shape' /\ Whole' /\ Settled'
  BY <1>1, <1>3 DEF IInv, Shape, Whole, Settled, Carries, Ids
<1>5. Tallied'
  <2>1. \A c \in Colls : Tally(c, {})'
    BY <1>1, <1>3, FS_EmptySet DEF IInv, Shape, Tally
  <2>. QED
    BY <2>1 DEF Tallied
<1>6. Verified' /\ Undisturbed'
  BY <1>3 DEF Verified, DriftCaught, Undisturbed
<1>. QED
  BY <1>2, <1>4, <1>5, <1>6 DEF IInv

LEMMA BeginStep ==
  ASSUME IInv, BeginCopy
  PROVE  IInv'
<1>1. /\ mig.phase = "launched"
      /\ UNCHANGED <<db, made, active, env, up, writes, foreign, restarts, settled>>
  BY DEF BeginCopy, dataVars, envVars, historyVars
<1>2. Whole' /\ Settled'
  BY <1>1 DEF IInv, Whole, Settled, Carries, Ids
<1>3. CASE GiveUp /\ UNCHANGED historyVars
  BY <1>1, <1>2, <1>3, GaveUp DEF historyVars, IInv, TypeOK
<1>4. CASE /\ ~(mig.target = active \/ (~mig.overwrite /\ made[active] \cap NonEmpty(mig.target) # {}))
           /\ Phase("copy") /\ names' = made[active] /\ todo' = made[active] /\ deleted' = FALSE /\ quiet' = TRUE
           /\ UNCHANGED <<cur, cursor, copied, counted, ok>>
  <2>1. /\ mig' \in [phase : MigPhase, target : Dbs, overwrite : BOOLEAN, override : BOOLEAN]
        /\ mig'.phase = "copy" /\ mig'.target = mig.target
        /\ mig'.overwrite = mig.overwrite /\ mig'.override = mig.override
    BY <1>4, PhaseIs DEF IInv, MigPhase
  <2>2. TypeOK'
    BY <1>1, <1>4, <2>1 DEF IInv, TypeOK
  <2>3. /\ ~Moving /\ Moving' /\ up /\ cur = NoColl /\ cursor = {} /\ \A c \in Colls : copied[c] = 0
        /\ mig.target # active /\ mig.target \in Dbs /\ active \in Dbs
    BY <1>1, <1>4, <2>1 DEF IInv, Shape, Moving, TypeOK
  <2>4. Shape'
    BY <1>1, <1>4, <2>1, <2>3 DEF Shape
  <2>5. Tallied'
    <3>1. \A c \in Colls : Tally(c, {})'
      BY <1>1, <1>4, <2>3, FS_EmptySet DEF Tally
    <3>. QED
      BY <3>1 DEF Tallied
  <2>6. Verified'
    BY <2>1 DEF Verified, DriftCaught
  <2>7. ASSUME NEW c \in Colls \ made[active]
        PROVE  db[active][c] = Zero
    BY <2>3 DEF IInv, Whole, Zero
  <2>8. ASSUME NEW c \in made[active], ~mig.overwrite
        PROVE  db[mig.target][c] = Zero
    <3>1. c \in Colls /\ Ids(mig.target, c) = {}
      BY <1>4, <2>3, <2>8 DEF NonEmpty, IInv, TypeOK
    <3>. QED
      BY <2>3, <3>1, ZeroIs DEF IInv
  <2>9. Undisturbed'
    BY <1>1, <1>4, <2>1, <2>7, <2>8 DEF Undisturbed, Zero
  <2>. QED
    BY <1>2, <2>2, <2>4, <2>5, <2>6, <2>9 DEF IInv
<1>. QED
  BY <1>3, <1>4 DEF BeginCopy

LEMMA StartCollStep ==
  ASSUME IInv, NEW c \in Colls, StartColl(c)
  PROVE  IInv'
<1>1. /\ mig.phase = "copy" /\ cur = NoColl /\ c \in todo /\ cur' = c /\ todo' = todo \ {c} /\ cursor' = Docs
      /\ db' = IF mig.overwrite THEN [db EXCEPT ![mig.target][c] = Zero] ELSE db
      /\ settled' = IF mig.overwrite /\ mig.target = env /\ settled = "copied" THEN "recopied" ELSE settled
      /\ UNCHANGED <<made, active, env, up, mig, names, copied, counted, ok, deleted, quiet, writes, foreign, restarts>>
  BY DEF StartColl, envVars, Zero
<1>2. PICK t \in Dbs, a \in Dbs : t = mig.target /\ a = active /\ t # a
  BY <1>1 DEF IInv, Shape, Moving, TypeOK
<1>3. Zero \in [Docs -> 0 .. MaxVer] /\ \A d \in Docs : Zero[d] = 0
  BY MigrationAssumption DEF Zero
<1>4. /\ db' \in [Dbs -> [Colls -> [Docs -> 0 .. MaxVer]]]
      /\ \A D \in Dbs, e \in Colls : D # t \/ e # c => db'[D][e] = db[D][e]
      /\ db'[t][c] = IF mig.overwrite THEN Zero ELSE db[t][c]
      /\ \A D \in Dbs : D # t => db'[D] = db[D]
  <2>1. CASE mig.overwrite
    <3>1. db' = [db EXCEPT ![t][c] = Zero] /\ db \in [Dbs -> [Colls -> [Docs -> 0 .. MaxVer]]]
      BY <1>1, <1>2, <2>1 DEF IInv, TypeOK
    <3>. QED
      BY <1>3, <2>1, <3>1
  <2>2. CASE ~mig.overwrite
    BY <1>1, <2>2 DEF IInv, TypeOK
  <2>. QED
    BY <2>1, <2>2
<1>5. TypeOK'
  BY <1>1, <1>4 DEF IInv, TypeOK
<1>6. c \in names /\ c # NoColl
  BY <1>1, MigrationAssumption DEF IInv, TypeOK
<1>7. Shape'
  BY <1>1, <1>6 DEF IInv, Shape, Moving
<1>8. Whole'
  BY <1>1, <1>4 DEF IInv, Whole, Zero
<1>9. ASSUME NEW e \in Colls, NEW K \in SUBSET Docs, Tally(e, K)
      PROVE  Tally(e, K)'
  <2>1. CASE e = c
    <3>1. K = {}
      BY <1>1, <1>9, <2>1 DEF Tally
    <3>. QED
      BY <1>1, <1>9, <3>1 DEF Tally
  <2>2. CASE e # c
    <3>1. Ids(t, e)' = Ids(t, e) /\ Ids(a, e)' = Ids(a, e)
      BY <1>4, <2>2 DEF Ids
    <3>2. Ids(mig.target, e)' = Ids(mig.target, e) /\ Ids(active, e)' = Ids(active, e)
      BY <1>1, <1>2, <3>1 DEF Ids
    <3>. QED
      BY <1>1, <1>9, <2>2, <3>2 DEF Tally, Moving
  <2>. QED
    BY <2>1, <2>2
<1>10. Tallied'
  BY <1>9 DEF IInv, Tallied
<1>11. Verified'
  BY <1>1 DEF Verified, DriftCaught
<1>12. Undisturbed'
  <2>1. SUFFICES ASSUME quiet
                 PROVE  /\ \A e \in Colls \ names : db'[a][e] = Zero
                        /\ \A e \in names : IF e \in todo' THEN mig.overwrite \/ db'[t][e] = Zero
                             ELSE \A d \in Docs : db'[t][e][d] = IF e = c THEN 0 ELSE db'[a][e][d]
    BY <1>1, <1>2 DEF Undisturbed, Zero
  <2>2. /\ \A e \in Colls \ names : db[a][e] = Zero
        /\ \A e \in names : IF e \in todo THEN mig.overwrite \/ db[t][e] = Zero
                            ELSE \A d \in Docs : db[t][e][d] = db[a][e][d]
    BY <1>1, <1>2, <1>6, <2>1 DEF IInv, Undisturbed, Moving, Zero, Shape
  <2>3. db'[a] = db[a] /\ names \subseteq Colls
    BY <1>2, <1>4 DEF IInv, TypeOK
  <2>4. \A d \in Docs : db'[t][c][d] = 0
    BY <1>1, <1>3, <1>4, <1>6, <2>2
  <2>5. ASSUME NEW e \in names, e # c
        PROVE  IF e \in todo' THEN mig.overwrite \/ db'[t][e] = Zero
               ELSE \A d \in Docs : db'[t][e][d] = IF e = c THEN 0 ELSE db'[a][e][d]
    BY <1>1, <1>4, <2>2, <2>3, <2>5
  <2>. QED
    BY <1>1, <2>2, <2>3, <2>4, <2>5
<1>13. Settled'
  BY <1>1, <1>2, <1>4 DEF IInv, Settled, Carries, Ids, TypeOK
<1>. QED
  BY <1>5, <1>7, <1>8, <1>10, <1>11, <1>12, <1>13 DEF IInv

Stored(d) == db' = [db EXCEPT ![mig.target][cur][d] = IF db[active][cur][d] # 0 THEN db[active][cur][d] ELSE @]

\* A document the cursor meets and stores, or one that is not there.
LEMMA StreamStep ==
  ASSUME IInv, NEW d \in cursor, mig.phase = "copy", ~(db[active][cur][d] # 0 /\ db[mig.target][cur][d] # 0),
         cursor' = cursor \ {d}, Stored(d),
         made' = IF db[active][cur][d] # 0 THEN [made EXCEPT ![mig.target] = @ \cup {cur}] ELSE made,
         copied' = [copied EXCEPT ![cur] = @ + IF db[active][cur][d] # 0 THEN 1 ELSE 0],
         UNCHANGED <<mig, names, todo, cur, counted, ok, active, env, up, deleted, quiet, settled, writes, foreign, restarts>>
  PROVE  IInv'
<1>1. PICK t \in Dbs, a \in Dbs : t = mig.target /\ a = active /\ t # a
  BY DEF IInv, Shape, Moving, TypeOK
<1>2. PICK c \in Colls : c = cur /\ c \in names \ todo
  BY DEF IInv, Shape, TypeOK
<1>3. d \in Docs
  BY DEF IInv, TypeOK
<1>4. PICK x \in 0 .. MaxVer : x = db[a][c][d]
  BY <1>3 DEF IInv, TypeOK
<1>5. PICK f \in [Docs -> 0 .. MaxVer] :
         /\ db' = [db EXCEPT ![t][c] = f] /\ f[d] = (IF x # 0 THEN x ELSE db[t][c][d])
         /\ \A e \in Docs \ {d} : f[e] = db[t][c][e]
  <2>1. PICK f : f = [db[t][c] EXCEPT ![d] = IF x # 0 THEN x ELSE @]
    OBVIOUS
  <2>2. db[t][c] \in [Docs -> 0 .. MaxVer]
    BY DEF IInv, TypeOK
  <2>3. f \in [Docs -> 0 .. MaxVer] /\ f[d] = (IF x # 0 THEN x ELSE db[t][c][d]) /\ \A e \in Docs \ {d} : f[e] = db[t][c][e]
    BY <1>3, <2>1, <2>2
  <2>4. db' = [db EXCEPT ![t][c] = f]
    BY <1>1, <1>2, <1>4, <2>1 DEF Stored, IInv, TypeOK
  <2>. QED
    BY <2>3, <2>4
<1>6. /\ db' \in [Dbs -> [Colls -> [Docs -> 0 .. MaxVer]]] /\ db'[t][c] = f
      /\ \A D \in Dbs, e \in Colls : D # t \/ e # c => db'[D][e] = db[D][e]
      /\ \A D \in Dbs : D # t => db'[D] = db[D]
  <2>1. db \in [Dbs -> [Colls -> [Docs -> 0 .. MaxVer]]] /\ db' = [db EXCEPT ![t][c] = f]
    BY <1>5 DEF IInv, TypeOK
  <2>. QED
    BY <2>1
<1>7. made' \in [Dbs -> SUBSET Colls] /\ (x # 0 => c \in made'[t]) /\ \A D \in Dbs : made[D] \subseteq made'[D]
  BY <1>1, <1>2, <1>4 DEF IInv, TypeOK
<1>8. Shape'
  BY DEF IInv, Shape, Moving
<1>9. Whole'
  <2>1. x = 0 => f = db[t][c]
    <3>1. db[t][c] \in [Docs -> 0 .. MaxVer]
      BY DEF IInv, TypeOK
    <3>. QED
      BY <1>5, <3>1
  <2>2. ASSUME NEW D \in Dbs, NEW e \in Colls, e \notin made'[D]
        PROVE  db'[D][e] = [k \in Docs |-> 0]
    <3>1. db[D][e] = [k \in Docs |-> 0]
      BY <1>7, <2>2 DEF IInv, Whole
    <3>2. CASE D = t /\ e = c
      BY <1>6, <1>7, <2>1, <2>2, <3>1, <3>2
    <3>3. CASE D # t \/ e # c
      BY <1>6, <3>1, <3>3
    <3>. QED
      BY <3>2, <3>3
  <2>. QED
    BY <2>2 DEF Whole
<1>10. /\ \A k \in Docs : k # d => (k \in Ids(t, c)' <=> k \in Ids(t, c))
       /\ \A e \in Colls : e # c => Ids(t, e)' = Ids(t, e)
       /\ \A e \in Colls : Ids(a, e)' = Ids(a, e)
       /\ x # 0 => d \in Ids(t, c)' /\ d \in Ids(a, c)
       /\ d \in Ids(t, c) => d \in Ids(t, c)'
  BY <1>1, <1>3, <1>4, <1>5, <1>6 DEF Ids
<1>11. /\ copied' = [copied EXCEPT ![c] = copied[c] + IF x # 0 THEN 1 ELSE 0]
       /\ copied \in [Colls -> 0 .. Cardinality(Docs)]
  BY <1>1, <1>2, <1>4 DEF IInv, TypeOK
<1>12. \A e \in Colls : Ids(mig.target, e)' = Ids(t, e)' /\ Ids(active, e)' = Ids(a, e)'
  BY <1>1 DEF Ids
<1>13. ASSUME NEW K \in SUBSET Docs, Tally(c, K)
       PROVE  \E L \in SUBSET Docs : Tally(c, L)' /\ copied'[c] \in 0 .. Cardinality(Docs)
  <2>1. /\ Cardinality(K) = copied[c] /\ K \cap cursor = {} /\ K \subseteq Ids(t, c) /\ (deleted \/ K \subseteq Ids(a, c))
    BY <1>1, <1>2, <1>13 DEF Tally, Moving
  <2>2. PICK L : L = IF x # 0 THEN K \cup {d} ELSE K
    OBVIOUS
  <2>3. L \in SUBSET Docs /\ IsFiniteSet(K) /\ d \notin K
    BY <1>3, <2>1, <2>2, DocsAre, FS_Subset
  <2>4. Cardinality(L) = copied'[c]
    <3>1. copied'[c] = copied[c] + IF x # 0 THEN 1 ELSE 0
      BY <1>11
    <3>2. Cardinality(K \cup {d}) = Cardinality(K) + 1 /\ Cardinality(K) \in Nat
      BY <2>3, FS_AddElement, FS_CardinalityType
    <3>. QED
      BY <2>1, <2>2, <3>1, <3>2
  <2>5. copied'[c] \in 0 .. Cardinality(Docs)
    <3>1. Cardinality(L) \in Nat /\ Cardinality(L) <= Cardinality(Docs)
      BY <2>3, DocsAre, FS_Subset, FS_CardinalityType
    <3>. QED
      BY <2>4, <3>1, DocsAre
  <2>6. L \cap cursor' = {}
    BY <2>1, <2>2
  <2>7. L \subseteq Ids(t, c)' /\ (deleted \/ L \subseteq Ids(a, c)')
    BY <1>10, <2>1, <2>2, <2>3
  <2>8. Tally(c, L)'
    BY <1>1, <1>2, <1>12, <2>4, <2>6, <2>7 DEF Tally
  <2>. QED
    BY <2>3, <2>5, <2>8
<1>14. ASSUME NEW e \in Colls, e # c, NEW K \in SUBSET Docs, Tally(e, K)
       PROVE  Tally(e, K)'
  <2>1. copied'[e] = copied[e]
    BY <1>11, <1>14
  <2>2. Ids(mig.target, e)' = Ids(mig.target, e) /\ Ids(active, e)' = Ids(active, e)
    BY <1>1, <1>10, <1>12, <1>14
  <2>. QED
    BY <1>2, <1>14, <2>1, <2>2 DEF Tally, Moving
<1>15. Tallied'
  BY <1>13, <1>14 DEF IInv, Tallied
<1>16. copied' \in [Colls -> 0 .. Cardinality(Docs)]
  <2>1. copied'[c] \in 0 .. Cardinality(Docs)
    BY <1>13 DEF IInv, Tallied
  <2>. QED
    BY <1>11, <2>1
<1>17. TypeOK'
  BY <1>6, <1>7, <1>16 DEF IInv, TypeOK
<1>18. Verified'
  BY DEF Verified, DriftCaught
<1>19. Undisturbed'
  <2>1. SUFFICES ASSUME quiet
                 PROVE  /\ \A e \in Colls \ names : db'[a][e] = Zero
                        /\ \A e \in names : IF e \in todo THEN mig.overwrite \/ db'[t][e] = Zero
                             ELSE \A k \in Docs : db'[t][e][k] = IF e = c /\ k \in cursor' THEN 0 ELSE db'[a][e][k]
    BY <1>1, <1>2 DEF Undisturbed, Zero
  <2>2. /\ \A e \in Colls \ names : db[a][e] = Zero
        /\ \A e \in names : IF e \in todo THEN mig.overwrite \/ db[t][e] = Zero
                            ELSE \A k \in Docs : db[t][e][k] = IF e = c /\ k \in cursor THEN 0 ELSE db[a][e][k]
    BY <1>1, <1>2, <2>1 DEF IInv, Undisturbed, Moving, Zero
  <2>3. db'[a] = db[a] /\ names \subseteq Colls
    BY <1>1, <1>6 DEF IInv, TypeOK
  <2>4. ASSUME NEW k \in Docs
        PROVE  db'[t][c][k] = IF k \in cursor' THEN 0 ELSE db'[a][c][k]
    <3>1. CASE k = d
      BY <1>2, <1>3, <1>4, <1>5, <1>6, <2>2, <2>3, <3>1
    <3>2. CASE k # d
      BY <1>2, <1>5, <1>6, <2>2, <2>3, <3>2
    <3>. QED
      BY <3>1, <3>2
  <2>5. \A e \in names : e # c => db'[t][e] = db[t][e]
    BY <1>6, <2>3
  <2>. QED
    BY <1>2, <2>2, <2>3, <2>4, <2>5
<1>20. Settled'
  <2>1. SUFFICES ASSUME settled = "copied", NEW e \in Colls, NEW k \in Docs, db'[a][e][k] # 0
                 PROVE  db'[env][e][k] = db'[a][e][k]
    BY <1>1 DEF Settled, Carries, Ids
  <2>2. db[env][e][k] = db[a][e][k] /\ db'[a][e][k] = db[a][e][k] /\ env \in Dbs
    BY <1>1, <1>6, <2>1 DEF IInv, Settled, Carries, Ids, TypeOK
  <2>3. CASE env = t /\ e = c /\ k = d
    BY <1>1, <1>2, <1>4, <2>1, <2>2, <2>3
  <2>4. CASE ~(env = t /\ e = c /\ k = d)
    BY <1>5, <1>6, <2>2, <2>4
  <2>. QED
    BY <2>3, <2>4
<1>. QED
  BY <1>8, <1>9, <1>15, <1>17, <1>18, <1>19, <1>20 DEF IInv

PartlyStored(rest) ==
  db' = [db EXCEPT ![mig.target][cur] = [e \in Docs |-> IF e \in rest THEN db[active][cur][e] ELSE @[e]]]

\* A document the target already has: the job fails, and part of the batch is
\* in the target.
LEMMA DuplicateStep ==
  ASSUME IInv, NEW d \in cursor, mig.phase = "copy", db[active][cur][d] # 0, db[mig.target][cur][d] # 0,
         GiveUp, NEW rest \in SUBSET {e \in cursor : db[mig.target][cur][e] = 0},
         PartlyStored(rest), UNCHANGED <<made, active, env, up, deleted, quiet, settled, writes, foreign, restarts>>
  PROVE  IInv'
<1>1. PICK t \in Dbs, a \in Dbs : t = mig.target /\ a = active /\ t # a
  BY DEF IInv, Shape, Moving, TypeOK
<1>2. PICK c \in Colls : c = cur /\ d \in Docs
  BY DEF IInv, Shape, TypeOK
<1>3. PICK f : f = [e \in Docs |-> IF e \in rest THEN db[a][c][e] ELSE db[t][c][e]]
  OBVIOUS
<1>4. f \in [Docs -> 0 .. MaxVer] /\ db' = [db EXCEPT ![t][c] = f] /\ db \in [Dbs -> [Colls -> [Docs -> 0 .. MaxVer]]]
  BY <1>1, <1>2, <1>3 DEF PartlyStored, IInv, TypeOK
<1>5. /\ db' \in [Dbs -> [Colls -> [Docs -> 0 .. MaxVer]]] /\ db'[t][c] = f
      /\ \A D \in Dbs, e \in Colls : D # t \/ e # c => db'[D][e] = db[D][e]
      /\ \A D \in Dbs : D # t => db'[D] = db[D]
  BY <1>4
<1>6. Whole'
  <2>1. c \in made[t]
    BY <1>1, <1>2 DEF IInv, Whole
  <2>2. ASSUME NEW D \in Dbs, NEW e \in Colls, e \notin made[D]
        PROVE  db'[D][e] = [k \in Docs |-> 0]
    <3>1. D # t \/ e # c
      BY <2>1, <2>2
    <3>2. db[D][e] = [k \in Docs |-> 0]
      BY <2>2 DEF IInv, Whole
    <3>3. db'[D][e] = db[D][e]
      BY <1>5, <3>1
    <3>. QED
      BY <3>2, <3>3
  <2>. QED
    BY <2>2 DEF Whole
<1>7. Settled'
  <2>1. SUFFICES ASSUME settled = "copied", NEW e \in Colls, NEW k \in Docs, db'[a][e][k] # 0
                 PROVE  db'[env][e][k] = db'[a][e][k]
    BY <1>1 DEF Settled, Carries, Ids
  <2>2. db[env][e][k] = db[a][e][k] /\ db'[a][e][k] = db[a][e][k] /\ env \in Dbs
    BY <1>1, <1>5, <2>1 DEF IInv, Settled, Carries, Ids, TypeOK
  <2>3. CASE env = t /\ e = c
    <3>1. db[t][c][k] # 0
      BY <2>1, <2>2, <2>3
    <3>2. k \notin rest
      BY <1>1, <1>2, <3>1
    <3>. QED
      BY <1>3, <1>5, <2>2, <2>3, <3>2
  <2>4. CASE ~(env = t /\ e = c)
    BY <1>5, <2>2, <2>4
  <2>. QED
    BY <2>3, <2>4
<1>8. /\ made' \in [Dbs -> SUBSET Colls] /\ active' \in Dbs /\ env' \in Dbs /\ up' \in BOOLEAN
      /\ restarts' \in 0 .. MaxRestarts
  BY DEF IInv, TypeOK
<1>. QED
  BY <1>5, <1>6, <1>7, <1>8, GaveUp

LEMMA StreamDocStep ==
  ASSUME IInv, NEW d \in Docs, StreamDoc(d)
  PROVE  IInv'
<1>1. /\ mig.phase = "copy" /\ d \in cursor
      /\ UNCHANGED <<active, env, up, deleted, quiet, settled, writes, foreign, restarts>>
  BY DEF StreamDoc, historyVars, envVars
<1>2. CASE db[active][cur][d] # 0 /\ db[mig.target][cur][d] # 0
  BY <1>1, <1>2, DuplicateStep DEF StreamDoc, PartlyStored
<1>3. CASE ~(db[active][cur][d] # 0 /\ db[mig.target][cur][d] # 0)
  BY <1>1, <1>3, StreamStep DEF StreamDoc, Stored
<1>. QED
  BY <1>2, <1>3

LEMMA EndCollStep ==
  ASSUME IInv, EndColl
  PROVE  IInv'
<1>1. /\ mig.phase = "copy" /\ cur # NoColl /\ cursor = {} /\ cur' = NoColl
      /\ UNCHANGED <<db, made, active, env, up, mig, names, todo, cursor, copied, counted, ok,
                     deleted, quiet, settled, writes, foreign, restarts>>
  BY DEF EndColl, dataVars, historyVars, envVars
<1>2. TypeOK' /\ Shape' /\ Whole' /\ Settled'
  BY <1>1 DEF IInv, TypeOK, Shape, Moving, Whole, Settled, Carries, Ids
<1>3. Tallied'
  <2>1. ASSUME NEW c \in Colls, NEW K \in SUBSET Docs, Tally(c, K) PROVE Tally(c, K)'
    BY <1>1, <2>1 DEF Tally, Moving, Ids
  <2>. QED
    BY <2>1 DEF IInv, Tallied
<1>4. Verified' /\ Undisturbed'
  BY <1>1 DEF IInv, Verified, DriftCaught, Undisturbed, Moving
<1>. QED
  BY <1>2, <1>3, <1>4 DEF IInv

LEMMA CopyDoneStep ==
  ASSUME IInv, CopyDone
  PROVE  IInv'
<1>1. /\ mig.phase = "copy" /\ cur = NoColl /\ todo = {} /\ todo' = names /\ Phase("verify")
      /\ UNCHANGED <<db, made, active, env, up, names, cur, cursor, copied, counted, ok,
                     deleted, quiet, settled, writes, foreign, restarts>>
  BY DEF CopyDone, dataVars, historyVars, envVars
<1>2. /\ mig' \in [phase : MigPhase, target : Dbs, overwrite : BOOLEAN, override : BOOLEAN]
      /\ mig'.phase = "verify" /\ mig'.target = mig.target
      /\ mig'.overwrite = mig.overwrite /\ mig'.override = mig.override
  BY <1>1, PhaseIs DEF IInv, MigPhase
<1>3. TypeOK' /\ Shape' /\ Whole' /\ Settled'
  BY <1>1, <1>2 DEF IInv, TypeOK, Shape, Moving, Whole, Settled, Carries, Ids
<1>4. Tallied'
  <2>1. ASSUME NEW c \in Colls, NEW K \in SUBSET Docs, Tally(c, K) PROVE Tally(c, K)'
    BY <1>1, <1>2, <2>1 DEF Tally, Moving, Ids
  <2>. QED
    BY <2>1 DEF IInv, Tallied
<1>5. Verified'
  BY <1>1, <1>2 DEF Verified, DriftCaught
<1>6. Undisturbed'
  BY <1>1, <1>2 DEF IInv, Undisturbed, Moving
<1>. QED
  BY <1>3, <1>4, <1>5, <1>6 DEF IInv

-----------------------------------------------------------------------------
(* Verification and the switch                                             *)

\* Equal counts and nothing deleted: what was copied is what was counted.
LEMMA CountStep ==
  ASSUME IInv, NEW c \in Colls, CountColl(c)
  PROVE  IInv'
<1>1. /\ mig.phase = "verify" /\ c \in todo /\ todo' = todo \ {c} /\ c \in names
      /\ counted' = [counted EXCEPT ![c] = Ids(active, c)]
      /\ ok' = (/\ ok
                /\ Cardinality(Ids(mig.target, c)) = copied[c]
                /\ mig.override \/ Cardinality(Ids(active, c)) = copied[c])
      /\ UNCHANGED <<db, made, active, env, up, mig, names, cur, cursor, copied,
                     deleted, quiet, settled, writes, foreign, restarts>>
  BY DEF CountColl, dataVars, historyVars, envVars, IInv, TypeOK
<1>2. Ids(active, c) \subseteq Docs /\ ok' \in BOOLEAN
  BY <1>1 DEF Ids, IInv, TypeOK
<1>3. TypeOK'
  BY <1>1, <1>2 DEF IInv, TypeOK
<1>4. Shape' /\ Whole' /\ Settled'
  BY <1>1 DEF IInv, Shape, Moving, Whole, Settled, Carries, Ids
<1>5. Tallied'
  <2>1. ASSUME NEW e \in Colls, NEW K \in SUBSET Docs, Tally(e, K) PROVE Tally(e, K)'
    BY <1>1, <2>1 DEF Tally, Moving, Ids
  <2>. QED
    BY <2>1 DEF IInv, Tallied
<1>6. Verified'
  <2>1. SUFFICES ASSUME ok', ~mig.override, ~deleted, NEW e \in names \ todo'
                 PROVE  counted'[e] \subseteq Ids(mig.target, e)
    BY <1>1 DEF Verified, DriftCaught, Ids
  <2>2. CASE e = c
    <3>1. PICK K \in SUBSET Docs : Tally(c, K)
      BY DEF IInv, Tallied
    <3>2. Cardinality(K) = copied[c] /\ K \subseteq Ids(mig.target, c) /\ K \subseteq Ids(active, c)
      BY <1>1, <2>1, <3>1 DEF Tally, Moving
    <3>3. Cardinality(Ids(active, c)) = Cardinality(K)
      BY <1>1, <2>1, <3>2
    <3>4. IsFiniteSet(Ids(active, c))
      BY <1>2, DocsAre, FS_Subset
    <3>5. Ids(active, c) = K
      BY <3>2, <3>3, <3>4, FS_Subset
    <3>6. counted'[c] = Ids(active, c)
      BY <1>1 DEF IInv, TypeOK
    <3>. QED
      BY <2>2, <3>2, <3>5, <3>6
  <2>3. CASE e # c
    BY <1>1, <2>1, <2>3 DEF IInv, TypeOK, Verified
  <2>. QED
    BY <2>2, <2>3
<1>7. Undisturbed'
  BY <1>1 DEF IInv, Undisturbed, Moving
<1>. QED
  BY <1>3, <1>4, <1>5, <1>6, <1>7 DEF IInv

LEMMA VerifyStep ==
  ASSUME IInv, VerifyDone
  PROVE  IInv'
<1>1. /\ mig.phase = "verify" /\ todo = {}
      /\ UNCHANGED <<db, made, active, env, up, deleted, quiet, settled, writes, foreign, restarts>>
  BY DEF VerifyDone, dataVars, historyVars, envVars
<1>2. Whole' /\ Settled'
  BY <1>1 DEF IInv, Whole, Settled, Carries, Ids
<1>3. CASE GiveUp
  BY <1>1, <1>2, <1>3, GaveUp DEF IInv, TypeOK
<1>4. CASE /\ ok /\ (mig.override \/ made[active] \subseteq names) /\ Phase("switch")
           /\ counted' = [c \in Colls |-> IF c \in names THEN counted[c] ELSE Ids(active, c)]
           /\ UNCHANGED <<names, todo, cur, cursor, copied, ok>>
  <2>1. /\ mig' \in [phase : MigPhase, target : Dbs, overwrite : BOOLEAN, override : BOOLEAN]
        /\ mig'.phase = "switch" /\ mig'.target = mig.target
        /\ mig'.overwrite = mig.overwrite /\ mig'.override = mig.override
    BY <1>4, PhaseIs DEF IInv, MigPhase
  <2>2. counted' \in [Colls -> SUBSET Docs]
    BY <1>4 DEF IInv, TypeOK, Ids
  <2>3. TypeOK'
    BY <1>1, <1>4, <2>1, <2>2 DEF IInv, TypeOK
  <2>4. Shape'
    BY <1>1, <1>4, <2>1 DEF IInv, Shape, Moving
  <2>5. Tallied'
    <3>1. ASSUME NEW c \in Colls, NEW K \in SUBSET Docs, Tally(c, K) PROVE Tally(c, K)'
      BY <1>1, <1>4, <2>1, <3>1 DEF Tally, Moving, Ids
    <3>. QED
      BY <3>1 DEF IInv, Tallied
  <2>6. Verified'
    <3>1. SUFFICES ASSUME ~mig.override, ~deleted, NEW c \in Colls
                   PROVE  counted'[c] \subseteq Ids(mig.target, c)
      BY <1>1, <2>1 DEF Verified, DriftCaught, Ids
    <3>2. CASE c \in names
      BY <1>1, <1>4, <3>1, <3>2 DEF IInv, Verified
    <3>3. CASE c \notin names
      <4>1. db[active][c] = [d \in Docs |-> 0]
        BY <1>4, <3>1, <3>3 DEF IInv, Whole, TypeOK
      <4>2. Ids(active, c) = {}
        BY <4>1 DEF Ids
      <4>. QED
        BY <1>4, <3>3, <4>2
    <3>. QED
      BY <3>2, <3>3
  <2>7. Undisturbed'
    BY <1>1, <1>4, <2>1 DEF IInv, Undisturbed, Moving
  <2>. QED
    BY <1>2, <2>3, <2>4, <2>5, <2>6, <2>7 DEF IInv
<1>. QED
  BY <1>3, <1>4 DEF VerifyDone

LEMMA FailsStep ==
  ASSUME IInv, MigrationFails \/ Report
  PROVE  IInv'
<1>1. /\ GiveUp
      /\ UNCHANGED <<db, made, active, env, up, deleted, quiet, settled, writes, foreign, restarts>>
  BY DEF MigrationFails, Report, dataVars, historyVars, envVars
<1>2. Whole' /\ Settled'
  BY <1>1 DEF IInv, Whole, Settled, Carries, Ids
<1>. QED
  BY <1>1, <1>2, GaveUp DEF IInv, TypeOK

\* .env comes to name an undisturbed copy, or one of which nothing is promised.
LEMMA WriteEnvStep ==
  ASSUME IInv, WriteEnv
  PROVE  IInv'
<1>1. /\ mig.phase = "switch" /\ Phase("report") /\ env' = mig.target
      /\ settled' = (IF quiet THEN "copied" ELSE "no")
      /\ UNCHANGED <<db, made, active, up, names, todo, cur, cursor, copied, counted, ok,
                     deleted, quiet, writes, foreign, restarts>>
  BY DEF WriteEnv, dataVars, copyVars, envVars
<1>2. /\ mig' \in [phase : MigPhase, target : Dbs, overwrite : BOOLEAN, override : BOOLEAN]
      /\ mig'.phase = "report" /\ mig'.target = mig.target
      /\ mig'.overwrite = mig.overwrite /\ mig'.override = mig.override
  BY <1>1, PhaseIs DEF IInv, MigPhase
<1>3. TypeOK'
  BY <1>1, <1>2 DEF IInv, TypeOK
<1>4. Shape' /\ Whole'
  BY <1>1, <1>2 DEF IInv, Shape, Moving, Whole
<1>5. Tallied'
  <2>1. ASSUME NEW c \in Colls, NEW K \in SUBSET Docs, Tally(c, K) PROVE Tally(c, K)'
    BY <1>1, <1>2, <2>1 DEF Tally, Moving, Ids
  <2>. QED
    BY <2>1 DEF IInv, Tallied
<1>6. Verified'
  BY <1>1, <1>2 DEF IInv, Verified, DriftCaught, Ids
<1>7. Undisturbed'
  BY <1>1, <1>2 DEF IInv, Undisturbed, Moving
<1>8. Settled'
  <2>1. SUFFICES ASSUME quiet, NEW c \in Colls, NEW d \in Docs, db[active][c][d] # 0
                 PROVE  db[mig.target][c][d] = db[active][c][d]
    BY <1>1 DEF Settled, Carries, Ids
  <2>2. c \in names
    BY <1>1, <2>1 DEF IInv, Undisturbed, Moving
  <2>3. cur = NoColl /\ c # cur
    BY <1>1, MigrationAssumption DEF IInv, Shape
  <2>. QED
    BY <1>1, <2>1, <2>2, <2>3 DEF IInv, Undisturbed, Moving
<1>. QED
  BY <1>3, <1>4, <1>5, <1>6, <1>7, <1>8 DEF IInv

-----------------------------------------------------------------------------
(* The application, others and restarts                                    *)

\* One document of any database is written by someone else: the target loses
\* nothing, and the source only what counts as deleted.
LEMMA OtherWriteStep ==
  ASSUME IInv, NEW D \in Dbs, NEW c \in Colls, NEW d \in Docs, NEW v \in 0 .. MaxVer,
         db' = [db EXCEPT ![D][c][d] = v], made' = [made EXCEPT ![D] = @ \cup {c}],
         deleted' \in BOOLEAN, deleted => deleted', v # 0 \/ (D = active /\ deleted'),
         quiet' = FALSE, settled' = "no", writes' \in 0 .. MaxWrites, foreign' \in 0 .. MaxForeign,
         UNCHANGED <<active, env, up, mig, names, todo, cur, cursor, copied, counted, ok, restarts>>
  PROVE  IInv'
<1>1. db \in [Dbs -> [Colls -> [Docs -> 0 .. MaxVer]]] /\ db[D][c] \in [Docs -> 0 .. MaxVer]
  BY DEF IInv, TypeOK
<1>2. /\ db' \in [Dbs -> [Colls -> [Docs -> 0 .. MaxVer]]]
      /\ db'[D][c][d] = v
      /\ \A k \in Docs : k # d => db'[D][c][k] = db[D][c][k]
      /\ \A E \in Dbs, e \in Colls : E # D \/ e # c => db'[E][e] = db[E][e]
  BY <1>1
<1>3. made' \in [Dbs -> SUBSET Colls] /\ c \in made'[D] /\ \A E \in Dbs : made[E] \subseteq made'[E]
  BY DEF IInv, TypeOK
<1>4. TypeOK'
  BY <1>2, <1>3 DEF IInv, TypeOK
<1>5. Shape' /\ Undisturbed' /\ Settled'
  BY DEF IInv, Shape, Moving, Undisturbed, Settled
<1>6. Whole'
  <2>1. ASSUME NEW E \in Dbs, NEW e \in Colls, e \notin made'[E]
        PROVE  db'[E][e] = [k \in Docs |-> 0]
    BY <1>2, <1>3, <2>1 DEF IInv, Whole
  <2>. QED
    BY <2>1 DEF Whole
<1>7. ASSUME NEW E \in Dbs, NEW e \in Colls, v # 0 \/ E # D
      PROVE  Ids(E, e) \subseteq Ids(E, e)'
  <2>1. ASSUME NEW k \in Docs, db[E][e][k] # 0 PROVE db'[E][e][k] # 0
    BY <1>2, <1>7, <2>1
  <2>. QED
    BY <2>1 DEF Ids
<1>8. Moving => mig.target \in Dbs /\ mig.target # active /\ active \in Dbs
  BY DEF IInv, Shape, TypeOK
<1>9. ASSUME Moving, NEW e \in Colls
      PROVE  Ids(mig.target, e) \subseteq Ids(mig.target, e)' /\ (deleted' \/ Ids(active, e) \subseteq Ids(active, e)')
  <2>1. PICK t \in Dbs, a \in Dbs : t = mig.target /\ a = active /\ t # a
    BY <1>8, <1>9
  <2>2. Ids(t, e) \subseteq Ids(t, e)' /\ (deleted' \/ Ids(a, e) \subseteq Ids(a, e)')
    BY <1>7, <2>1
  <2>3. Ids(mig.target, e)' = Ids(t, e)' /\ Ids(active, e)' = Ids(a, e)'
    BY <2>1 DEF Ids
  <2>. QED
    BY <2>1, <2>2, <2>3
<1>10. Tallied'
  <2>1. ASSUME NEW e \in Colls, NEW K \in SUBSET Docs, Tally(e, K)
        PROVE  Tally(e, K)'
    <3>1. Moving => K \subseteq Ids(mig.target, e)' /\ (deleted' \/ K \subseteq Ids(active, e)')
      BY <1>9, <2>1 DEF Tally
    <3>2. Moving' <=> Moving
      BY DEF Moving
    <3>. QED
      BY <2>1, <3>1, <3>2 DEF Tally
  <2>. QED
    BY <2>1 DEF IInv, Tallied
<1>11. Verified'
  <2>1. ASSUME Moving, NEW e \in Colls, counted[e] \subseteq Ids(mig.target, e)
        PROVE  counted'[e] \subseteq Ids(mig.target, e)'
    BY <1>9, <2>1
  <2>2. names \subseteq Colls
    BY DEF IInv, TypeOK
  <2>3. ASSUME mig.phase = "verify", ok, ~mig.override, ~deleted, NEW e \in names \ todo
        PROVE  counted'[e] \subseteq Ids(mig.target, e)'
    BY <2>1, <2>2, <2>3 DEF IInv, Verified, Moving
  <2>4. ASSUME mig.phase \in {"switch", "report"}, ~mig.override, ~deleted, NEW e \in Colls
        PROVE  counted'[e] \subseteq Ids(mig.target, e)'
    BY <2>1, <2>4 DEF IInv, Verified, DriftCaught, Moving
  <2>. QED
    BY <2>3, <2>4 DEF Verified, DriftCaught
<1>. QED
  BY <1>4, <1>5, <1>6, <1>10, <1>11 DEF IInv

LEMMA AppWriteStep ==
  ASSUME IInv, NEW c \in Colls, NEW d \in Docs, NEW version \in 0 .. MaxVer, AppWrite(c, d, version)
  PROVE  IInv'
<1>1. active \in Dbs /\ writes' \in 0 .. MaxWrites /\ foreign' \in 0 .. MaxForeign /\ deleted' \in BOOLEAN
  BY MigrationAssumption DEF AppWrite, IInv, TypeOK
<1>. QED
  BY <1>1, OtherWriteStep DEF AppWrite, copyVars

LEMMA ForeignInsertStep ==
  ASSUME IInv, NEW D \in Dbs, NEW c \in Colls, NEW d \in Docs, ForeignInsert(D, c, d)
  PROVE  IInv'
<1>1. /\ MaxVer \in 0 .. MaxVer /\ MaxVer # 0
      /\ writes' \in 0 .. MaxWrites /\ foreign' \in 0 .. MaxForeign /\ deleted' \in BOOLEAN
  BY MigrationAssumption DEF ForeignInsert, IInv, TypeOK
<1>. QED
  BY <1>1, OtherWriteStep DEF ForeignInsert, copyVars

LEMMA SetDbConfigStep ==
  ASSUME IInv, NEW D \in Dbs, SetDbConfig(D)
  PROVE  IInv'
<1>1. /\ env' = D /\ settled' = "no"
      /\ UNCHANGED <<db, made, active, up, mig, names, todo, cur, cursor, copied, counted, ok,
                     deleted, quiet, writes, foreign, restarts>>
  BY DEF SetDbConfig, dataVars, copyVars, envVars
<1>2. TypeOK' /\ Shape' /\ Whole' /\ Settled'
  BY <1>1 DEF IInv, TypeOK, Shape, Moving, Whole, Settled
<1>3. Tallied'
  <2>1. ASSUME NEW c \in Colls, NEW K \in SUBSET Docs, Tally(c, K) PROVE Tally(c, K)'
    BY <1>1, <2>1 DEF Tally, Moving, Ids
  <2>. QED
    BY <2>1 DEF IInv, Tallied
<1>4. Verified' /\ Undisturbed'
  BY <1>1 DEF IInv, Verified, DriftCaught, Undisturbed, Moving, Ids
<1>. QED
  BY <1>2, <1>3, <1>4 DEF IInv

LEMMA StopStep ==
  ASSUME IInv, Stop
  PROVE  IInv'
<1>1. /\ GiveUp /\ up' = FALSE /\ restarts' = restarts + 1 /\ restarts < MaxRestarts
      /\ UNCHANGED <<db, made, active, env, deleted, quiet, settled, writes, foreign>>
  BY DEF Stop, dataVars, historyVars
<1>2. Whole' /\ Settled'
  BY <1>1 DEF IInv, Whole, Settled, Carries, Ids
<1>3. restarts' \in 0 .. MaxRestarts
  BY <1>1, MigrationAssumption DEF IInv, TypeOK
<1>. QED
  BY <1>1, <1>2, <1>3, GaveUp DEF IInv, TypeOK

\* The successor connects to what .env names.
LEMMA StartStep ==
  ASSUME IInv, Start
  PROVE  IInv'
<1>1. /\ ~up /\ up' = TRUE /\ active' = env
      /\ UNCHANGED <<db, made, env, mig, names, todo, cur, cursor, copied, counted, ok,
                     deleted, quiet, settled, writes, foreign, restarts>>
  BY DEF Start, dataVars, copyVars, historyVars, envVars
<1>2. mig.phase = "idle" /\ mig'.phase = "idle" /\ ~Moving /\ ~Moving'
  BY <1>1 DEF IInv, Shape, Moving
<1>3. TypeOK' /\ Shape' /\ Whole' /\ Settled'
  BY <1>1, <1>2 DEF IInv, TypeOK, Shape, Whole, Settled, Carries, Ids
<1>4. Tallied'
  <2>1. ASSUME NEW c \in Colls, NEW K \in SUBSET Docs, Tally(c, K) PROVE Tally(c, K)'
    BY <1>1, <1>2, <2>1 DEF Tally
  <2>. QED
    BY <2>1 DEF IInv, Tallied
<1>5. Verified' /\ Undisturbed'
  BY <1>2 DEF Verified, DriftCaught, Undisturbed
<1>. QED
  BY <1>3, <1>4, <1>5 DEF IInv

-----------------------------------------------------------------------------
(* The specification                                                       *)

LEMMA InitOK ==
  ASSUME Init
  PROVE  IInv
<1>1. PICK c \in Colls, d \in Docs :
        db = [D \in Dbs |-> IF D = Home THEN [Empty EXCEPT ![c][d] = 1] ELSE Empty]
  BY DEF Init
<1>2. Empty \in [Colls -> [Docs -> 0 .. MaxVer]] /\ [Empty EXCEPT ![c][d] = 1] \in [Colls -> [Docs -> 0 .. MaxVer]]
  BY MigrationAssumption DEF Empty
<1>3. db \in [Dbs -> [Colls -> [Docs -> 0 .. MaxVer]]]
  BY <1>1, <1>2
<1>4. /\ made = [D \in Dbs |-> NonEmpty(D)] /\ mig = NoMigration
      /\ active = Home /\ env = Home /\ up = TRUE
      /\ names = {} /\ todo = {} /\ cur = NoColl /\ cursor = {}
      /\ copied = [e \in Colls |-> 0] /\ counted = [e \in Colls |-> {}]
      /\ ok = TRUE /\ deleted = FALSE /\ quiet = TRUE /\ settled = "no"
      /\ writes = 0 /\ foreign = 0 /\ restarts = 0
  BY DEF Init
<1>5. /\ mig \in [phase : MigPhase, target : Dbs, overwrite : BOOLEAN, override : BOOLEAN]
      /\ mig.phase = "idle" /\ ~Moving
  BY <1>4, MigrationAssumption DEF NoMigration, MigPhase, Moving
<1>6. 0 \in 0 .. Cardinality(Docs)
  BY DocsAre
<1>7. made \in [Dbs -> SUBSET Colls]
  BY <1>4 DEF NonEmpty
<1>8. TypeOK
  <2>1. active \in Dbs /\ env \in Dbs /\ up \in BOOLEAN /\ names \subseteq Colls /\ todo \subseteq names
    BY <1>4, MigrationAssumption
  <2>2. copied \in [Colls -> 0 .. Cardinality(Docs)] /\ counted \in [Colls -> SUBSET Docs]
    BY <1>4, <1>6
  <2>3. /\ cur \in Colls \cup {NoColl} /\ cursor \subseteq Docs
        /\ ok \in BOOLEAN /\ deleted \in BOOLEAN /\ quiet \in BOOLEAN /\ settled \in {"no", "copied", "recopied"}
    BY <1>4
  <2>4. writes \in 0 .. MaxWrites /\ foreign \in 0 .. MaxForeign /\ restarts \in 0 .. MaxRestarts
    BY <1>4, MigrationAssumption
  <2>. QED
    BY <1>3, <1>5, <1>7, <2>1, <2>2, <2>3, <2>4 DEF TypeOK
<1>9. Shape
  BY <1>4, <1>5 DEF Shape
<1>10. Whole
  <2>1. ASSUME NEW D \in Dbs, NEW e \in Colls, e \notin made[D]
        PROVE  db[D][e] = [k \in Docs |-> 0]
    <3>1. Ids(D, e) = {}
      BY <1>4, <2>1 DEF NonEmpty
    <3>. QED
      BY <1>8, <3>1, ZeroIs DEF Zero
  <2>. QED
    BY <2>1 DEF Whole
<1>11. Tallied
  <2>1. \A e \in Colls : Tally(e, {})
    BY <1>4, <1>5, FS_EmptySet DEF Tally
  <2>. QED
    BY <2>1 DEF Tallied
<1>12. Verified /\ Undisturbed /\ Settled
  BY <1>4, <1>5 DEF Verified, DriftCaught, Undisturbed, Settled
<1>. QED
  BY <1>8, <1>9, <1>10, <1>11, <1>12 DEF IInv

LEMMA StutterStep ==
  ASSUME IInv, UNCHANGED vars
  PROVE  IInv'
<1>1. UNCHANGED <<db, made, active, env, up, mig, names, todo, cur, cursor, copied, counted, ok,
                  deleted, quiet, settled, writes, foreign, restarts>>
  BY DEF vars
<1>2. TypeOK' /\ Shape' /\ Whole' /\ Settled'
  BY <1>1 DEF IInv, TypeOK, Shape, Moving, Whole, Settled, Carries, Ids
<1>3. Tallied'
  <2>1. ASSUME NEW c \in Colls, NEW K \in SUBSET Docs, Tally(c, K) PROVE Tally(c, K)'
    BY <1>1, <2>1 DEF Tally, Moving, Ids
  <2>. QED
    BY <2>1 DEF IInv, Tallied
<1>4. Verified' /\ Undisturbed'
  BY <1>1 DEF IInv, Verified, DriftCaught, Undisturbed, Moving, Ids
<1>. QED
  BY <1>2, <1>3, <1>4 DEF IInv

LEMMA NextOK ==
  ASSUME IInv, [Next]_vars
  PROVE  IInv'
<1>1. CASE \E t \in Dbs, overwrite \in BOOLEAN, override \in BOOLEAN : Preflight(t, overwrite, override)
  BY <1>1, PreflightStep
<1>2. CASE MigrationStep
  BY <1>2, BeginStep, StartCollStep, CountStep, StreamDocStep, EndCollStep, CopyDoneStep, VerifyStep,
     FailsStep, WriteEnvStep DEF MigrationStep
<1>3. CASE \E c \in Colls, d \in Docs, version \in 0 .. MaxVer : AppWrite(c, d, version)
  BY <1>3, AppWriteStep
<1>4. CASE \E D \in Dbs, c \in Colls, d \in Docs : ForeignInsert(D, c, d)
  BY <1>4, ForeignInsertStep
<1>5. CASE \E D \in Dbs : SetDbConfig(D)
  BY <1>5, SetDbConfigStep
<1>6. CASE Stop
  BY <1>6, StopStep
<1>7. CASE Start
  BY <1>7, StartStep
<1>8. CASE UNCHANGED vars
  BY <1>8, StutterStep
<1>. QED
  BY <1>1, <1>2, <1>3, <1>4, <1>5, <1>6, <1>7, <1>8 DEF Next

\* Every reachable state keeps the invariant from which the rest follows.
THEOREM SpecIInv == Spec => []IInv
<1>1. Init => IInv
  BY InitOK
<1>2. IInv /\ [Next]_vars => IInv'
  BY NextOK
<1>. QED
  BY <1>1, <1>2, PTL DEF Spec

\* Every variable keeps its type; in particular no count of copied documents
\* exceeds the documents there can be.
THEOREM TypeCorrect == Spec => []TypeOK
<1>1. IInv => TypeOK
  BY DEF IInv
<1>. QED
  BY <1>1, SpecIInv, PTL

\* store/base.py, verify_migration: a copy that was verified and disturbed by
\* nobody is the source, document by document and version by version, and one
\* during which requests wrote but deleted nothing has all that was counted.
THEOREM CopyIsSound == Spec => []CopySound
<1>1. ASSUME IInv, mig.phase \in {"switch", "report"}, quiet, NEW c \in Colls
      PROVE  db[active][c] = db[mig.target][c] \/ (c \notin names /\ Ids(active, c) = {})
  <2>1. Moving /\ mig.phase # "copy" /\ cur = NoColl /\ c # cur
    BY <1>1, MigrationAssumption DEF Moving, IInv, Shape
  <2>2. CASE c \in names
    <3>1. \A d \in Docs : db[mig.target][c][d] = db[active][c][d]
      BY <1>1, <2>1, <2>2 DEF IInv, Undisturbed
    <3>2. db[mig.target][c] \in [Docs -> 0 .. MaxVer] /\ db[active][c] \in [Docs -> 0 .. MaxVer]
      BY <1>1 DEF IInv, TypeOK
    <3>. QED
      BY <3>1, <3>2
  <2>3. CASE c \notin names
    <3>1. db[active][c] = [d \in Docs |-> 0]
      BY <1>1, <2>1, <2>3 DEF IInv, Undisturbed
    <3>. QED
      BY <2>3, <3>1 DEF Ids
  <2>. QED
    BY <2>2, <2>3
<1>2. IInv => QuietCopyExact
  BY <1>1 DEF QuietCopyExact
<1>3. IInv => CopySound
  BY <1>2 DEF IInv, Verified, CopySound
<1>. QED
  BY <1>3, SpecIInv, PTL

-----------------------------------------------------------------------------
(* What a step may not do                                                  *)

\* No step of a migration writes to the database in use.
LEMMA ActiveKept ==
  ASSUME IInv, MigrationStep
  PROVE  db'[active] = db[active] /\ made'[active] = made[active]
<1>1. CASE BeginCopy
  BY <1>1 DEF BeginCopy, dataVars
<1>2. ASSUME NEW c \in Colls, StartColl(c)
      PROVE  db'[active] = db[active] /\ made'[active] = made[active]
  <2>1. mig.target # active
    BY <1>2 DEF StartColl, IInv, Shape, Moving
  <2>. QED
    BY <1>2, <2>1 DEF StartColl, IInv, TypeOK
<1>3. ASSUME NEW c \in Colls, CountColl(c)
      PROVE  db'[active] = db[active] /\ made'[active] = made[active]
  BY <1>3 DEF CountColl, dataVars
<1>4. ASSUME NEW d \in Docs, StreamDoc(d)
      PROVE  db'[active] = db[active] /\ made'[active] = made[active]
  <2>1. mig.target # active
    BY <1>4 DEF StreamDoc, IInv, Shape, Moving
  <2>2. made'[active] = made[active]
    BY <1>4, <2>1 DEF StreamDoc, IInv, TypeOK
  <2>3. db'[active] = db[active]
    BY <1>4, <2>1 DEF StreamDoc, IInv, TypeOK
  <2>. QED
    BY <2>2, <2>3
<1>5. CASE EndColl \/ CopyDone \/ VerifyDone \/ MigrationFails \/ WriteEnv \/ Report
  BY <1>5 DEF EndColl, CopyDone, VerifyDone, MigrationFails, WriteEnv, Report, dataVars
<1>. QED
  BY <1>1, <1>2, <1>3, <1>4, <1>5 DEF MigrationStep

\* What a database not in use holds, only a migration told to replace it
\* changes: a document streamed in replaces none.
LEMMA OthersKept ==
  ASSUME IInv, [Next]_vars, NEW D \in Dbs \ {active}, NEW c \in Colls, NEW d \in Docs,
         db[D][c][d] # 0, db'[D][c][d] # db[D][c][d]
  PROVE  mig.overwrite /\ mig.target = D /\ mig.phase = "copy"
<1>. DEFINE Goal == mig.overwrite /\ mig.target = D /\ mig.phase = "copy"
<1>1. db' # db
  OBVIOUS
<1>2. ASSUME NEW e \in Colls, StartColl(e)
      PROVE  Goal
  <2>1. mig.overwrite
    BY <1>1, <1>2 DEF StartColl
  <2>2. mig.target = D
    BY <1>2, <2>1 DEF StartColl, IInv, TypeOK
  <2>. QED
    BY <1>2, <2>1, <2>2 DEF StartColl
<1>3. ASSUME NEW k \in Docs, StreamDoc(k)
      PROVE  FALSE
  <2>1. PICK t \in Dbs : t = mig.target
    BY DEF IInv, TypeOK
  <2>2. PICK s \in Colls : s = cur
    BY <1>3 DEF StreamDoc, IInv, Shape, TypeOK
  <2>3. CASE db[active][cur][k] # 0 /\ db[mig.target][cur][k] # 0
    <3>1. PICK rest \in SUBSET {e \in cursor : db[mig.target][cur][e] = 0} :
            db' = [db EXCEPT ![mig.target][cur] =
                     [e \in Docs |-> IF e \in rest THEN db[active][cur][e] ELSE @[e]]]
      BY <1>3, <2>3 DEF StreamDoc
    <3>2. CASE D = t /\ c = s
      <4>1. d \notin rest
        BY <2>1, <2>2, <3>2
      <4>. QED
        BY <2>1, <2>2, <3>1, <3>2, <4>1 DEF IInv, TypeOK
    <3>3. CASE ~(D = t /\ c = s)
      BY <2>1, <2>2, <3>1, <3>3 DEF IInv, TypeOK
    <3>. QED
      BY <3>2, <3>3
  <2>4. CASE ~(db[active][cur][k] # 0 /\ db[mig.target][cur][k] # 0)
    <3>1. db' = [db EXCEPT ![t][s][k] = IF db[active][s][k] # 0 THEN db[active][s][k] ELSE @]
      BY <1>3, <2>1, <2>2, <2>4 DEF StreamDoc
    <3>2. CASE D = t /\ c = s /\ d = k
      BY <2>1, <2>2, <2>4, <3>1, <3>2 DEF IInv, TypeOK
    <3>3. CASE ~(D = t /\ c = s /\ d = k)
      BY <3>1, <3>3 DEF IInv, TypeOK
    <3>. QED
      BY <3>2, <3>3
  <2>. QED
    BY <2>3, <2>4
<1>4. ASSUME NEW e \in Colls, NEW k \in Docs, NEW version \in 0 .. MaxVer, AppWrite(e, k, version)
      PROVE  FALSE
  BY <1>4 DEF AppWrite, IInv, TypeOK
<1>5. ASSUME NEW E \in Dbs, NEW e \in Colls, NEW k \in Docs, ForeignInsert(E, e, k)
      PROVE  FALSE
  BY <1>5 DEF ForeignInsert, IInv, TypeOK
<1>6. ASSUME MigrationStep
      PROVE  Goal
  <2>1. ~(BeginCopy \/ EndColl \/ CopyDone \/ VerifyDone \/ MigrationFails \/ WriteEnv \/ Report)
    BY <1>1 DEF BeginCopy, EndColl, CopyDone, VerifyDone, MigrationFails, WriteEnv, Report, dataVars
  <2>2. \A e \in Colls : ~CountColl(e)
    BY <1>1 DEF CountColl, dataVars
  <2>. QED
    BY <1>2, <1>3, <1>6, <2>1, <2>2 DEF MigrationStep
<1>7. ~(\E t \in Dbs, overwrite \in BOOLEAN, override \in BOOLEAN : Preflight(t, overwrite, override))
  BY <1>1 DEF Preflight, dataVars
<1>8. ~(\E E \in Dbs : SetDbConfig(E)) /\ ~Stop /\ ~Start /\ ~UNCHANGED vars
  BY <1>1 DEF SetDbConfig, Stop, Start, vars, dataVars
<1>. QED
  BY <1>4, <1>5, <1>6, <1>7, <1>8 DEF Next

\* Only a restart changes the database in use, to what .env names.
LEMMA RestartFollows ==
  ASSUME IInv, [Next]_vars, active' # active, settled = "copied"
  PROVE  Carries(active', active)
<1>1. CASE Start
  <2>1. active' = env /\ Carries(env, active)
    BY <1>1 DEF Start, IInv, Settled
  <2>. QED
    BY <2>1 DEF Carries
<1>2. CASE MigrationStep
  BY <1>2 DEF MigrationStep, BeginCopy, StartColl, CountColl, StreamDoc, EndColl, CopyDone, VerifyDone,
              MigrationFails, WriteEnv, Report
<1>3. CASE ~Start /\ ~MigrationStep
  BY <1>3 DEF Next, Preflight, AppWrite, ForeignInsert, SetDbConfig, Stop, vars
<1>. QED
  BY <1>1, <1>2, <1>3

\* docs/configuration.md, "Your current database is never modified": no step of
\* a migration writes to the database in use; what a database not in use holds
\* is replaced only where the request chose to; and a restart after a copy
\* that nothing disturbed finds every document again.
THEOREM StepsKept == Spec => MigrationSteps
<1>1. IInv /\ [Next]_vars =>
        [MigrationStep => db'[active] = db[active] /\ made'[active] = made[active]]_vars
  BY ActiveKept
<1>2. IInv /\ [Next]_vars =>
        [\A D \in Dbs \ {active}, c \in Colls, d \in Docs :
           db[D][c][d] # 0 /\ db'[D][c][d] # db[D][c][d] =>
             mig.overwrite /\ mig.target = D /\ mig.phase = "copy"]_vars
  BY OthersKept
<1>3. IInv /\ [Next]_vars =>
        [active' # active /\ settled = "copied" => Carries(active', active)]_vars
  BY RestartFollows
<1>. QED
  BY <1>1, <1>2, <1>3, SpecIInv, PTL DEF Spec, MigrationSteps, ActiveUntouched, OverwriteOnlyOnRequest, RestartKeepsData

-----------------------------------------------------------------------------
(* The readable ids.  A thread that holds a number is past the counter's   *)
(* increment and has not written it yet; what makes the number its own is  *)
(* that the counter of the group is at or ahead of every number in a hand  *)
(* or in a case, and that no two groups have one prefix unless two threads *)
(* raced for it.                                                           *)

\* Where a thread has a prefix, and where it has a number too.
Prefixed(t) == work[t].at \in {"count", "look", "write"}
Numbered(t) == work[t].at \in {"look", "write"}
\* A thread has a case in hand.
Busy(t) == work[t].at # "idle"
\* The renumbering is through with the old id of c.
Renumbered(c) == done \/ stage \in {"assign", "mark"} \/ (stage = "park" /\ c \notin left)

\* Who works on what, and when.
Working ==
  /\ \A t \in Readable!Threads : Busy(t) => work[t].case \in Cases
  /\ \A t \in Clients : Busy(t) => work[t].case \notin stored \cup Legacy
  /\ \A t, u \in Clients : Busy(t) /\ Busy(u) /\ work[t].case = work[u].case => t = u
  /\ Busy(Boot) => stage \in {"backfill", "assign"}
  /\ stage \in {"park", "assign", "mark"} => ~done
  /\ stage \in {"repair", "final", "up"} => done
  /\ stage \in {"repair", "final"} => left = {}

\* The parked cases are those the renumbering has yet to come to.
ParkedAhead ==
  /\ stage = "park" => left \subseteq listed /\ Readable!Stuck \subseteq listed
  /\ stage = "assign" => Readable!Stuck \subseteq left \cup (IF Busy(Boot) THEN {work[Boot].case} ELSE {})
  /\ stage = "mark" \/ done => Readable!Stuck = {}

\* An old id is where it was or in display_id_legacy.
Preserved ==
  \A c \in Legacy \cap stored : original[c].is = "real" =>
     /\ legacy[c] = original[c] \/ (legacy[c] = Readable!Missing /\ id[c] = original[c])
     /\ Renumbered(c) => legacy[c] = original[c]

\* Unless two threads raced, no two groups have one prefix.
Prefixes ==
  /\ \A g, h \in Groups : prefix[g] = prefix[h] /\ prefix[g] # 0 => g = h
  /\ \A t \in Readable!Threads : work[t].at = "claim" => work[t].prefix # 0
  /\ \A t \in Readable!Threads : Prefixed(t) \/ (t = Boot /\ stage = "assign" /\ ~Busy(t) /\ work[t].case \in Cases) =>
       work[t].prefix = prefix[Readable!GroupAt(t)] /\ work[t].prefix # 0

\* A number is in one hand, and none is ahead of its counter.
Numbers ==
  /\ \A t \in Readable!Threads : Numbered(t) => work[t].n <= counter[Readable!GroupAt(t)]
  /\ \A t, u \in Readable!Threads : Numbered(t) /\ Numbered(u) /\ Readable!GroupAt(t) = Readable!GroupAt(u) /\ work[t].n = work[u].n => t = u

\* A new id is behind the counter of its group and in no hand.
Issued ==
  \A c \in stored : Renumbered(c) /\ id[c].is = "real" =>
     /\ id[c].prefix = prefix[GroupOf[c]] /\ id[c].prefix # 0
     /\ id[c].n <= counter[GroupOf[c]]
     /\ \A t \in Readable!Threads : Numbered(t) => id[c] # Readable!Real(work[t].prefix, work[t].n)

\* Which order the renumbering keeps, and how far it is with that.
Originals == (\A c \in Cases : original[c] = Readable!Missing) \/ (\A c \in Legacy : original[c].is = "real")
Kept == {c \in Legacy \cap stored : original[c].is = "real"}
Before(c, d) == GroupOf[c] = GroupOf[d] /\ original[c].n < original[d].n
Written(c) == c \notin left /\ (Busy(Boot) => work[Boot].case # c)
Ordered ==
  /\ ~done /\ stage \in {"down", "backfill", "index", "flag"} => \A c \in Kept : id[c] = original[c]
  /\ stage = "park" => Kept \subseteq listed
  /\ stage \in {"park", "assign"} => \A c \in Kept : rank[c] = original[c].n
  /\ stage = "assign" =>
       /\ \A c \in Kept : Written(c) => id[c].is = "real"
       /\ Busy(Boot) => work[Boot].case \notin left
       /\ \A c, d \in Kept : Before(c, d) /\ d \notin left => Written(c)
       /\ \A c, d \in Kept : Before(c, d) /\ Written(c) /\ Written(d) => id[c].n < id[d].n
       /\ \A c \in Kept : Numbered(Boot) /\ work[Boot].case \in Kept /\ Before(c, work[Boot].case) => id[c].n < work[Boot].n
  /\ stage = "mark" \/ done =>
       /\ \A c \in Kept : id[c].is = "real"
       /\ \A c, d \in Kept : Before(c, d) => id[c].n < id[d].n

\* Inductive.  What a race for a prefix spoils is claimed only without one, and
\* the order only without a crash.
IdsInv == /\ Readable!TypeOK /\ Working /\ ParkedAhead /\ Preserved /\ Numbers /\ Originals
          /\ ~raced => Prefixes /\ Issued
          /\ ~raced /\ crashes = 0 => Ordered

\* The operators of FiniteSets that the instance brings are those of this module.
LEMMA SameSizes ==
  /\ \A S : Readable!IsFiniteSet(S) <=> IsFiniteSet(S)
  /\ \A S : Readable!Cardinality(S) = Cardinality(S)
<1>1. \A S : Readable!IsFiniteSet(S) <=> IsFiniteSet(S)
  BY DEF Readable!IsFiniteSet, IsFiniteSet
<1>2. \A S : Readable!Cardinality(S) = Cardinality(S)
  BY Zenon DEF Readable!Cardinality, Cardinality
<1>. QED
  BY <1>1, <1>2

\* A set of naturals has a least element.
LEMMA Least ==
  ASSUME NEW S \in SUBSET Nat, S # {}
  PROVE  \E x \in S : \A y \in S : x <= y
<1>. DEFINE Below(x) == {y \in S : y < x}
            T == {Below(x) : x \in S}
<1>0. \A x \in S : x \in Nat
  OBVIOUS
<1>1. T \subseteq FiniteSubsetsOf(S) /\ T # {}
  <2>1. ASSUME NEW x \in S PROVE IsFiniteSet(Below(x)) /\ Below(x) \subseteq S
    <3>1. IsFiniteSet(0 .. x)
      BY FS_Interval
    <3>2. ASSUME NEW y \in S, y < x PROVE y \in 0 .. x
      BY <1>0, <3>2
    <3>3. Below(x) \subseteq 0 .. x
      BY <3>2
    <3>. QED
      BY <3>1, <3>3, FS_Subset
  <2>. QED
    BY <2>1 DEF FiniteSubsetsOf
<1>2. PICK A \in T : \A B \in T : <<B, A>> \notin StrictSubsetOrdering(S)
  <2>. HIDE DEF T
  <2>1. IsWellFoundedOn(StrictSubsetOrdering(S), FiniteSubsetsOf(S))
    BY FS_StrictSubsetOrderingWellFounded
  <2>. QED
    BY <1>1, <2>1, WFMin, Zenon
<1>3. PICK x \in S : A = Below(x)
  OBVIOUS
<1>4. ASSUME NEW y \in S, y < x PROVE FALSE
  <2>0. x \in Nat /\ y \in Nat
    BY <1>0
  <2>1. y \in Below(x) /\ y \notin Below(y)
    BY <1>4, <2>0
  <2>2. ASSUME NEW z \in Below(y) PROVE z \in Below(x)
    <3>1. z \in S /\ z < y /\ z \in Nat
      BY <1>0, <2>2
    <3>. QED
      BY <1>4, <2>0, <3>1
  <2>3. <<Below(y), Below(x)>> \in StrictSubsetOrdering(S)
    BY <2>1, <2>2 DEF StrictSubsetOrdering
  <2>. QED
    BY <1>2, <1>3, <2>3
<1>. QED
  BY <1>0, <1>4

\* There are as many suffixes as groups, so ReadPrefix finds a free one.
LEMMA Prefixable ==
  ASSUME Readable!IdsAssumption, Readable!TypeOK, NEW g \in Groups
  PROVE  LET held == {prefix[h] : h \in Groups \ {g}}
             first == CHOOSE p \in Readable!Suffix \ {0} : p \notin held /\ \A q \in 1 .. p - 1 : q \in held
         IN  first \in Readable!Suffix \ {0} /\ first \notin held
<1> DEFINE N == Cardinality(Groups)
           held == {prefix[h] : h \in Groups \ {g}}
           free == {p \in 1 .. N : p \notin held}
<1>1. N \in Nat /\ IsFiniteSet(Groups)
  BY FS_CardinalityType, SameSizes DEF Readable!IdsAssumption
<1>2. IsFiniteSet(Groups \ {g}) /\ Cardinality(Groups \ {g}) = N - 1
  BY <1>1, FS_RemoveElement
<1>3. IsFiniteSet(held) /\ Cardinality(held) <= N - 1
  <2> DEFINE F == [h \in Groups \ {g} |-> prefix[h]]
  <2>1. F \in Surjection(Groups \ {g}, held)
    BY DEF Surjection
  <2>. QED
    BY <1>2, <2>1, FS_Surjection
<1>4. free # {}
  <2>1. IsFiniteSet(1 .. N) /\ Cardinality(1 .. N) = N
    BY <1>1, FS_Interval
  <2>2. SUFFICES ASSUME free = {} PROVE FALSE
    OBVIOUS
  <2>3. 1 .. N \subseteq held
    BY <2>2
  <2>4. Cardinality(1 .. N) <= Cardinality(held)
    BY <1>3, <2>3, FS_Subset
  <2>5. Cardinality(held) \in Nat
    BY <1>3, FS_CardinalityType
  <2>. QED
    BY <1>1, <1>3, <2>1, <2>4, <2>5
<1>5. PICK p \in free : \A q \in free : p <= q
  <2>1. free \in SUBSET Nat
    BY <1>1
  <2>. HIDE DEF free
  <2>. QED
    BY <1>4, <2>1, Least
<1>6. p \in Readable!Suffix \ {0} /\ p \notin held /\ \A q \in 1 .. p - 1 : q \in held
  <2>1. Readable!Suffix = 0 .. N
    BY SameSizes DEF Readable!Suffix
  <2>. QED
    BY <1>1, <1>5, <2>1
<1>. QED
  BY <1>6

\* The type invariant holds at first.
LEMMA TypeInit ==
  ASSUME Readable!IdsAssumption, Readable!Init
  PROVE  Readable!TypeOK
<1>1. Cardinality(Groups) \in Nat /\ Cardinality(Legacy) \in Nat
  BY FS_CardinalityType, SameSizes DEF Readable!IdsAssumption
<1>2. Readable!Missing \in Readable!Id /\ 0 \in Readable!Suffix
  BY <1>1, SameSizes DEF Readable!Missing, Readable!Id, Readable!Suffix, Readable!Number, Readable!IdsAssumption
<1>3. id \in [Cases -> Readable!Id] /\ \A c \in Cases \ stored : id[c] = Readable!Missing
  <2>1. CASE id = [c \in Cases |-> Readable!Missing]
    BY <1>2, <2>1
  <2>2. CASE \E f \in [Legacy -> 1 .. Readable!Cardinality(Legacy)] :
               id = [c \in Cases |-> IF c \in Legacy THEN Readable!Real(1, f[c]) ELSE Readable!Missing]
    <3>1. PICK f \in [Legacy -> 1 .. Readable!Cardinality(Legacy)] :
               id = [c \in Cases |-> IF c \in Legacy THEN Readable!Real(1, f[c]) ELSE Readable!Missing]
      BY <2>2
    <3>2. ASSUME NEW c \in Legacy PROVE Readable!Real(1, f[c]) \in Readable!Id
      <4>1. GroupOf[c] \in Groups
        BY DEF Readable!IdsAssumption
      <4>2. Cardinality(Groups) # 0
        BY <4>1, FS_EmptySet, SameSizes DEF Readable!IdsAssumption
      <4>3. f[c] \in 0 .. MaxCount
        BY <1>1, SameSizes DEF Readable!IdsAssumption
      <4>. QED
        BY <1>1, <4>2, <4>3, SameSizes DEF Readable!Real, Readable!Id, Readable!Suffix, Readable!Number
    <3>3. \A c \in Cases \ stored : id[c] = Readable!Missing
      BY <3>1 DEF Readable!Init
    <3>. QED
      BY <1>2, <3>1, <3>2, <3>3
  <2>. QED
    BY <2>1, <2>2 DEF Readable!Init
<1>4. work \in [Readable!Threads -> Readable!Work]
  BY <1>2 DEF Readable!Init, Readable!Free, Readable!Work, Readable!Number, Readable!IdsAssumption
<1>5. prefix \in [Groups -> Readable!Suffix] /\ counter \in [Groups -> Readable!Number] /\ rank \in [Cases -> Readable!Number] /\ crashes \in 0 .. MaxCrashes
  BY <1>2 DEF Readable!Init, Readable!Number, Readable!IdsAssumption
<1>6. legacy \in [Cases -> Readable!Id] /\ original \in [Cases -> Readable!Id] /\ stored \subseteq Cases
  BY <1>2, <1>3 DEF Readable!Init, Readable!IdsAssumption
<1>7. indexed \in BOOLEAN /\ done \in BOOLEAN /\ raced \in BOOLEAN /\ stage \in Readable!Stage /\ left \subseteq Cases /\ listed \subseteq Cases
  BY DEF Readable!Init, Readable!Stage
<1>. QED
  BY <1>3, <1>4, <1>5, <1>6, <1>7 DEF Readable!TypeOK

\* Members of the types.
LEMMA Atoms ==
  ASSUME Readable!IdsAssumption
  PROVE  /\ Cardinality(Groups) \in Nat /\ 0 \in Readable!Suffix /\ 0 \in Readable!Number /\ Readable!Number \subseteq Nat /\ Readable!Suffix \subseteq Nat
         /\ Readable!Missing \in Readable!Id /\ Readable!Parked \in Readable!Id /\ Readable!Free \in Readable!Work /\ Boot \in Readable!Threads
         /\ \A p \in Readable!Suffix, n \in Readable!Number : Readable!Real(p, n) \in Readable!Id
<1>1. Cardinality(Groups) \in Nat /\ 0 \in Readable!Suffix /\ 0 \in Readable!Number /\ Readable!Number \subseteq Nat /\ Readable!Suffix \subseteq Nat
  BY FS_CardinalityType, SameSizes DEF Readable!IdsAssumption, Readable!Suffix, Readable!Number
<1>. QED
  BY <1>1 DEF Readable!Missing, Readable!Parked, Readable!Free, Readable!Work, Readable!Threads, Readable!Real, Readable!Id

\* What a thread has in hand, field by field.
Entry(a, c, p, k) == [at |-> a, case |-> c, prefix |-> p, n |-> k]

\* What a thread does next, with which prefix and number.
With(t, at, p, n) == [work EXCEPT ![t] = Entry(at, work[t].case, p, n)]

\* A change of where a thread is, as a whole entry.
LEMMA EntryAt ==
  ASSUME Readable!TypeOK, NEW t \in Readable!Threads, NEW a
  PROVE  [work EXCEPT ![t].at = a] = With(t, a, work[t].prefix, work[t].n)
<1>1. [work EXCEPT ![t].at = a] = [work EXCEPT ![t] = [work[t] EXCEPT !.at = a]]
  BY DEF Readable!TypeOK
<1>2. PICK w \in Readable!Work : w = work[t]
  BY DEF Readable!TypeOK
<1>3. [w EXCEPT !.at = a] = Entry(a, w.case, w.prefix, w.n)
  BY DEF Readable!Work, Entry
<1>. QED
  BY <1>1, <1>2, <1>3, Zenon DEF With

\* The same for where it is and its prefix.
LEMMA EntryPrefix ==
  ASSUME Readable!TypeOK, NEW t \in Readable!Threads, NEW a, NEW v
  PROVE  [work EXCEPT ![t].at = a, ![t].prefix = v] = With(t, a, v, work[t].n)
<1>1. [work EXCEPT ![t].at = a, ![t].prefix = v] = [work EXCEPT ![t] = [[work[t] EXCEPT !.at = a] EXCEPT !.prefix = v]]
  BY DEF Readable!TypeOK
<1>2. PICK w \in Readable!Work : w = work[t]
  BY DEF Readable!TypeOK
<1>3. [w EXCEPT !.at = a] = Entry(a, w.case, w.prefix, w.n)
  BY DEF Readable!Work, Entry
<1>4. [Entry(a, w.case, w.prefix, w.n) EXCEPT !.prefix = v] = Entry(a, w.case, v, w.n)
  BY DEF Entry
<1>. QED
  BY <1>1, <1>2, <1>3, <1>4, Zenon DEF With

\* The same for where it is and its number.
LEMMA EntryNumber ==
  ASSUME Readable!TypeOK, NEW t \in Readable!Threads, NEW a, NEW v
  PROVE  [work EXCEPT ![t].at = a, ![t].n = v] = With(t, a, work[t].prefix, v)
<1>1. [work EXCEPT ![t].at = a, ![t].n = v] = [work EXCEPT ![t] = [[work[t] EXCEPT !.at = a] EXCEPT !.n = v]]
  BY DEF Readable!TypeOK
<1>2. PICK w \in Readable!Work : w = work[t]
  BY DEF Readable!TypeOK
<1>3. [w EXCEPT !.at = a] = Entry(a, w.case, w.prefix, w.n)
  BY DEF Readable!Work, Entry
<1>4. [Entry(a, w.case, w.prefix, w.n) EXCEPT !.n = v] = Entry(a, w.case, w.prefix, v)
  BY DEF Entry
<1>. QED
  BY <1>1, <1>2, <1>3, <1>4, Zenon DEF With

\* What With does to each thread.
LEMMA WithIs ==
  ASSUME Readable!IdsAssumption, Readable!TypeOK, NEW t \in Readable!Threads, NEW at \in {"idle", "prefix", "claim", "count", "look", "write"},
         NEW p \in Readable!Suffix, NEW n \in Readable!Number
  PROVE  /\ With(t, at, p, n) \in [Readable!Threads -> Readable!Work]
         /\ With(t, at, p, n)[t].at = at /\ With(t, at, p, n)[t].case = work[t].case
         /\ With(t, at, p, n)[t].prefix = p /\ With(t, at, p, n)[t].n = n
         /\ \A u \in Readable!Threads : u # t => With(t, at, p, n)[u] = work[u]
<1>1. work[t] \in Readable!Work
  BY DEF Readable!TypeOK
<1>2. Entry(at, work[t].case, p, n) \in Readable!Work
  BY <1>1 DEF Readable!Work, Entry
<1>. QED
  BY <1>2 DEF With, Readable!TypeOK, Entry

\* _group_prefix: the prefix read is that of the group, or free for it to claim.
LEMMA ReadPrefixIs ==
  ASSUME Readable!IdsAssumption, Readable!TypeOK, Working, NEW t \in Readable!Threads, Readable!ReadPrefix(t)
  PROVE  /\ Busy(t) /\ Readable!GroupAt(t) \in Groups
         /\ \E p \in Readable!Suffix \ {0} : \/ work' = With(t, "count", p, work[t].n) /\ p = prefix[Readable!GroupAt(t)]
                                   \/ work' = With(t, "claim", p, work[t].n)
<1>1. Busy(t) /\ work[t].case \in Cases /\ work[t] \in Readable!Work
  BY DEF Readable!ReadPrefix, Readable!At, Busy, Working, Readable!TypeOK
<1>2. Readable!GroupAt(t) \in Groups
  BY <1>1 DEF Readable!GroupAt, Readable!IdsAssumption
<1>3. CASE prefix[Readable!GroupAt(t)] # 0
  <2>1. prefix[Readable!GroupAt(t)] \in Readable!Suffix \ {0}
    BY <1>2, <1>3 DEF Readable!TypeOK
  <2>2. work' = With(t, "count", prefix[Readable!GroupAt(t)], work[t].n)
    <3>1. work' = [work EXCEPT ![t].at = "count", ![t].prefix = prefix[Readable!GroupAt(t)]]
      BY <1>3 DEF Readable!ReadPrefix
    <3>. QED
      BY <3>1, EntryPrefix, Zenon
  <2>. QED
    BY <1>1, <1>2, <2>1, <2>2
<1>4. CASE prefix[Readable!GroupAt(t)] = 0
  <2> DEFINE held == {prefix[h] : h \in Groups \ {Readable!GroupAt(t)}}
             first == CHOOSE p \in Readable!Suffix \ {0} : p \notin held /\ \A q \in 1 .. p - 1 : q \in held
  <2>1. first \in Readable!Suffix \ {0}
    BY <1>2, Prefixable
  <2>2. work' = [work EXCEPT ![t].at = "claim", ![t].prefix = first]
    BY <1>4 DEF Readable!ReadPrefix
  <2>. HIDE DEF first
  <2>3. work' = With(t, "claim", first, work[t].n)
    BY <2>2, EntryPrefix, Zenon
  <2>. QED
    BY <1>1, <1>2, <2>1, <2>3
<1>. QED
  BY <1>3, <1>4

\* _group_prefix: the claim writes the prefix of the group, or finds one there.
LEMMA ClaimPrefixIs ==
  ASSUME Readable!IdsAssumption, Readable!TypeOK, Working, NEW t \in Readable!Threads, Readable!ClaimPrefix(t)
  PROVE  /\ Busy(t) /\ Readable!GroupAt(t) \in Groups /\ work[t].prefix \in Readable!Suffix
         /\ work' = With(t, "count", work[t].prefix, work[t].n)
<1>1. Busy(t) /\ work[t].case \in Cases /\ work[t] \in Readable!Work
  BY DEF Readable!ClaimPrefix, Readable!At, Busy, Working, Readable!TypeOK
<1>2. Readable!GroupAt(t) \in Groups /\ work[t].prefix \in Readable!Suffix
  BY <1>1 DEF Readable!GroupAt, Readable!IdsAssumption, Readable!Work
<1>3. work' = [work EXCEPT ![t].at = "count"]
  BY DEF Readable!ClaimPrefix
<1>4. work' = With(t, "count", work[t].prefix, work[t].n)
  BY <1>3, EntryAt, Zenon
<1>. QED
  BY <1>1, <1>2, <1>4

\* _allocate_display_id: the counter of the group goes up by one.
LEMMA CountIs ==
  ASSUME Readable!IdsAssumption, Readable!TypeOK, Working, NEW t \in Readable!Threads, Readable!Count(t)
  PROVE  /\ Busy(t) /\ Readable!GroupAt(t) \in Groups /\ work[t].prefix \in Readable!Suffix /\ counter[Readable!GroupAt(t)] + 1 \in Readable!Number
         /\ counter[Readable!GroupAt(t)] \in Nat
         /\ \E at \in {"look", "write"} : work' = With(t, at, work[t].prefix, counter[Readable!GroupAt(t)] + 1)
         /\ t # Boot => work' = With(t, "write", work[t].prefix, counter[Readable!GroupAt(t)] + 1)
         /\ counter' = [counter EXCEPT ![Readable!GroupAt(t)] = counter[Readable!GroupAt(t)] + 1]
<1>1. Busy(t) /\ work[t].case \in Cases /\ work[t] \in Readable!Work
  BY DEF Readable!Count, Readable!At, Busy, Working, Readable!TypeOK
<1>2. Readable!GroupAt(t) \in Groups /\ work[t].prefix \in Readable!Suffix
  BY <1>1 DEF Readable!GroupAt, Readable!IdsAssumption, Readable!Work
<1>3. counter[Readable!GroupAt(t)] \in Nat /\ counter[Readable!GroupAt(t)] + 1 \in Readable!Number
  BY <1>2 DEF Readable!Count, Readable!TypeOK, Readable!Number, Readable!IdsAssumption
<1>4. work' = With(t, IF Readable!Careful(t) THEN "look" ELSE "write", work[t].prefix, counter[Readable!GroupAt(t)] + 1)
  <2> DEFINE at == IF Readable!Careful(t) THEN "look" ELSE "write"
  <2>1. work' = [work EXCEPT ![t].at = at, ![t].n = counter[Readable!GroupAt(t)] + 1]
    BY DEF Readable!Count
  <2>. HIDE DEF at
  <2>2. work' = With(t, at, work[t].prefix, counter[Readable!GroupAt(t)] + 1)
    BY <2>1, EntryNumber, Zenon
  <2>. QED
    BY <2>2 DEF at
<1>5. Readable!Careful(t) => t = Boot
  BY DEF Readable!Careful
<1>. QED
  BY <1>1, <1>2, <1>3, <1>4, <1>5 DEF Readable!Count

\* _allocate_display_id: a taken number sends the thread back to the counter.
LEMMA LookTakenIs ==
  ASSUME Readable!IdsAssumption, Readable!TypeOK, Working, NEW t \in Readable!Threads, Readable!LookTaken(t)
  PROVE  /\ Busy(t) /\ work[t].at = "look" /\ Readable!GroupAt(t) \in Groups /\ work[t].prefix \in Readable!Suffix /\ work[t].n \in Readable!Number
         /\ \E at \in {"count", "write"} : work' = With(t, at, work[t].prefix, work[t].n)
<1>1. Busy(t) /\ work[t].case \in Cases /\ work[t] \in Readable!Work
  BY DEF Readable!LookTaken, Readable!At, Busy, Working, Readable!TypeOK
<1>2. Readable!GroupAt(t) \in Groups /\ work[t].prefix \in Readable!Suffix /\ work[t].n \in Readable!Number
  BY <1>1 DEF Readable!GroupAt, Readable!IdsAssumption, Readable!Work
<1>3. work' = With(t, IF Readable!Taken(Readable!Real(work[t].prefix, work[t].n)) THEN "count" ELSE "write", work[t].prefix, work[t].n)
  <2> DEFINE at == IF Readable!Taken(Readable!Real(work[t].prefix, work[t].n)) THEN "count" ELSE "write"
  <2>1. work' = [work EXCEPT ![t].at = at]
    BY DEF Readable!LookTaken
  <2>. HIDE DEF at
  <2>2. work' = With(t, at, work[t].prefix, work[t].n)
    BY <2>1, EntryAt, Zenon
  <2>. QED
    BY <2>2 DEF at
<1>. QED
  BY <1>1, <1>2, <1>3 DEF Readable!LookTaken, Readable!At

\* An entry for a case, at the start or when the prefix is at hand.
Anew(c) == Entry("prefix", c, 0, 0)
Again(c) == Entry("count", c, work[Boot].prefix, work[Boot].n)

\* The fields of an entry.
LEMMA EntryIs ==
  ASSUME NEW c
  PROVE  /\ Anew(c).at = "prefix" /\ Anew(c).case = c
         /\ Again(c).at = "count" /\ Again(c).case = c /\ Again(c).prefix = work[Boot].prefix
         /\ Readable!Free.at = "idle" /\ Readable!Free.case = Boot
BY DEF Anew, Again, Entry, Readable!Free

\* A thread that is through is free, and the others go on.
LEMMA FreedIs ==
  ASSUME Readable!TypeOK, NEW t \in Readable!Threads, Readable!InsertCase(t) \/ (Readable!ParkDone /\ t = Boot)
  PROVE  /\ work'[t].at = "idle" /\ work'[t].case = Boot
         /\ \A u \in Readable!Threads : u # t => work'[u] = work[u]
<1>1. work' = [work EXCEPT ![t] = Readable!Free]
  BY DEF Readable!InsertCase, Readable!ParkDone
<1>2. work'[t] = Readable!Free /\ \A u \in Readable!Threads : u # t => work'[u] = work[u]
  BY <1>1 DEF Readable!TypeOK
<1>. QED
  BY <1>2, EntryIs

\* The entry of a case in hand at first.
LEMMA AnewIs ==
  ASSUME NEW c
  PROVE  [Readable!Free EXCEPT !.at = "prefix", !.case = c] = Anew(c)
<1>1. [Readable!Free EXCEPT !.at = "prefix"] = Entry("prefix", Boot, 0, 0)
  BY DEF Readable!Free, Entry
<1>2. [Entry("prefix", Boot, 0, 0) EXCEPT !.case = c] = Entry("prefix", c, 0, 0)
  BY DEF Entry
<1>3. [[Readable!Free EXCEPT !.at = "prefix"] EXCEPT !.case = c] = Anew(c)
  BY <1>1, <1>2, Zenon DEF Anew
<1>. QED
  BY <1>3

\* create_case takes up a case that is not stored.
LEMMA BeginCreateIs ==
  ASSUME Readable!IdsAssumption, Readable!TypeOK, NEW t \in Clients, NEW c \in Cases, Readable!BeginCreate(t, c)
  PROVE  work' = [work EXCEPT ![t] = Anew(c)] /\ Anew(c) \in Readable!Work
<1>1. [Readable!Free EXCEPT !.at = "prefix", !.case = c] = Anew(c)
  BY AnewIs, Zenon
<1>2. Anew(c) \in Readable!Work
  BY Atoms DEF Anew, Entry, Readable!Work
<1>. QED
  BY <1>1, <1>2 DEF Readable!BeginCreate

\* ensure_indexes takes up a case that is still to be handled.
LEMMA PickIs ==
  ASSUME Readable!IdsAssumption, Readable!TypeOK, NEW c \in Cases, Readable!Pick(c)
  PROVE  /\ Anew(c) \in Readable!Work /\ Again(c) \in Readable!Work
         /\ \/ work' = [work EXCEPT ![Boot] = Anew(c)]
            \/ work' = [work EXCEPT ![Boot] = Again(c)] /\ stage = "assign" /\ Readable!SameGroup(c)
<1>0. Boot \in Readable!Threads
  BY DEF Readable!Threads
<1>1. [Readable!Free EXCEPT !.at = "prefix", !.case = c] = Anew(c)
  BY AnewIs, Zenon
<1>2. PICK w \in Readable!Work : w = work[Boot]
  BY <1>0 DEF Readable!TypeOK
<1>3. Anew(c) \in Readable!Work /\ Again(c) \in Readable!Work
  BY <1>2, Atoms DEF Anew, Again, Entry, Readable!Work
<1>4. [w EXCEPT !.at = "count"] = Entry("count", w.case, w.prefix, w.n)
  BY DEF Readable!Work, Entry
<1>5. [Entry("count", w.case, w.prefix, w.n) EXCEPT !.case = c] = Entry("count", c, w.prefix, w.n)
  BY DEF Entry
<1>6. [[w EXCEPT !.at = "count"] EXCEPT !.case = c] = Again(c)
  BY <1>2, <1>4, <1>5, Zenon DEF Again
<1>7. CASE stage = "assign" /\ Readable!SameGroup(c)
  <2>1. work' = [work EXCEPT ![Boot] = [[work[Boot] EXCEPT !.at = "count"] EXCEPT !.case = c]]
    BY <1>0, <1>7 DEF Readable!Pick, Readable!TypeOK
  <2>. QED
    BY <1>2, <1>3, <1>6, <1>7, <2>1, Zenon
<1>8. CASE ~(stage = "assign" /\ Readable!SameGroup(c))
  <2>1. work' = [work EXCEPT ![Boot] = Anew(c)]
    BY <1>1, <1>8 DEF Readable!Pick
  <2>. QED
    BY <1>3, <2>1
<1>. QED
  BY <1>7, <1>8

\* An id is given or not, to a stored case or to a new one.
LEMMA InsertCaseIs ==
  ASSUME Readable!IdsAssumption, Readable!TypeOK, Working, NEW t \in Clients, Readable!InsertCase(t)
  PROVE  /\ Busy(t) /\ Numbered(t) /\ work[t].case \in Cases \ (stored \cup Legacy)
         /\ work' = [work EXCEPT ![t] = Readable!Free] /\ Readable!Free \in Readable!Work
         /\ Readable!Real(work[t].prefix, work[t].n) \in Readable!Id
         /\ \/ id' = id /\ stored' = stored
            \/ /\ id' = [id EXCEPT ![work[t].case] = Readable!Real(work[t].prefix, work[t].n)]
               /\ stored' = stored \cup {work[t].case}
<1>1. Busy(t) /\ Numbered(t) /\ t \in Readable!Threads
  BY DEF Readable!InsertCase, Readable!At, Busy, Numbered, Readable!Threads
<1>2. work[t] \in Readable!Work /\ work[t].case \in Cases \ (stored \cup Legacy)
  BY <1>1 DEF Working, Readable!TypeOK
<1>3. Readable!Real(work[t].prefix, work[t].n) \in Readable!Id
  BY <1>2, Atoms DEF Readable!Work
<1>. QED
  BY <1>1, <1>2, <1>3, Atoms DEF Readable!InsertCase

\* ensure_indexes writes the id it holds to its case, or is refused.
LEMMA WriteIdIs ==
  ASSUME Readable!IdsAssumption, Readable!TypeOK, Working, Readable!WriteId
  PROVE  /\ Busy(Boot) /\ Numbered(Boot) /\ work[Boot].case \in Cases /\ stage \in {"backfill", "assign"}
         /\ work' = With(Boot, "idle", work[Boot].prefix, work[Boot].n)
         /\ work[Boot].prefix \in Readable!Suffix /\ work[Boot].n \in Readable!Number
         /\ Readable!Real(work[Boot].prefix, work[Boot].n) \in Readable!Id
         /\ \/ id' = id
            \/ /\ id' = [id EXCEPT ![work[Boot].case] = Readable!Real(work[Boot].prefix, work[Boot].n)]
               /\ work[Boot].case \in stored /\ (stage = "backfill" => id[work[Boot].case] = Readable!Missing)
         /\ \/ stage' = stage /\ left' = left
            \/ /\ stage' = "backfill" /\ left' = {c \in stored : id[c] = Readable!Missing}
               /\ Readable!Taken(Readable!Real(work[Boot].prefix, work[Boot].n)) /\ id' = id
         /\ stage' = "assign" => work[Boot].case \notin stored \/ id'[work[Boot].case] = Readable!Real(work[Boot].prefix, work[Boot].n)
<1>1. Busy(Boot) /\ Numbered(Boot) /\ Boot \in Readable!Threads
  BY DEF Readable!WriteId, Readable!At, Busy, Numbered, Readable!Threads
<1>2. work[Boot] \in Readable!Work /\ work[Boot].case \in Cases /\ stage \in {"backfill", "assign"}
  BY <1>1 DEF Working, Readable!TypeOK
<1>3. Readable!Real(work[Boot].prefix, work[Boot].n) \in Readable!Id /\ work[Boot].prefix \in Readable!Suffix /\ work[Boot].n \in Readable!Number
  BY <1>2, Atoms DEF Readable!Work
<1>4. work' = With(Boot, "idle", work[Boot].prefix, work[Boot].n)
  <2>1. work' = [work EXCEPT ![Boot].at = "idle"]
    BY DEF Readable!WriteId
  <2>. QED
    BY <1>1, <2>1, EntryAt, Zenon
<1>5. \/ id' = id
      \/ /\ id' = [id EXCEPT ![work[Boot].case] = Readable!Real(work[Boot].prefix, work[Boot].n)]
         /\ work[Boot].case \in stored /\ (stage = "backfill" => id[work[Boot].case] = Readable!Missing)
  BY DEF Readable!WriteId
<1>6. \/ stage' = stage /\ left' = left
      \/ /\ stage' = "backfill" /\ left' = {c \in stored : id[c] = Readable!Missing}
         /\ Readable!Taken(Readable!Real(work[Boot].prefix, work[Boot].n)) /\ id' = id
  BY DEF Readable!WriteId, Readable!Retry, Readable!Enter
<1>7. stage' = "assign" => work[Boot].case \notin stored \/ id'[work[Boot].case] = Readable!Real(work[Boot].prefix, work[Boot].n)
  <2>1. SUFFICES ASSUME stage' = "assign", work[Boot].case \in stored
                 PROVE  id'[work[Boot].case] = Readable!Real(work[Boot].prefix, work[Boot].n)
    OBVIOUS
  <2>2. stage = "assign"
    BY <1>6, <2>1
  <2>3. ~(indexed /\ Readable!Taken(Readable!Real(work[Boot].prefix, work[Boot].n)) /\ id[work[Boot].case] # Readable!Real(work[Boot].prefix, work[Boot].n))
    BY <2>1, <2>2 DEF Readable!WriteId, Readable!Retry, Readable!Enter
  <2>4. id' = [id EXCEPT ![work[Boot].case] = Readable!Real(work[Boot].prefix, work[Boot].n)]
    BY <2>1, <2>2, <2>3 DEF Readable!WriteId
  <2>. QED
    BY <1>2, <2>4 DEF Readable!TypeOK
<1>. QED
  BY <1>1, <1>2, <1>3, <1>4, <1>5, <1>6, <1>7

\* A step keeps the type invariant.
LEMMA TypeStep ==
  ASSUME Readable!IdsAssumption, Readable!TypeOK, Working, [Readable!Next]_(Readable!vars)
  PROVE  Readable!TypeOK'
<1>. USE DEF Readable!TypeOK, Readable!Stage, Readable!At, Readable!caseVars, Readable!rowVars, Readable!bootVars, Readable!hist, Readable!Enter, Readable!Retry, Readable!Stuck
<1>1. ASSUME NEW t \in Readable!Threads, Readable!ReadPrefix(t) PROVE Readable!TypeOK'
  <2>1. work[t].n \in Readable!Number
    BY Atoms, <1>1, ReadPrefixIs DEF Readable!Work
  <2>2. \E p \in Readable!Suffix, at \in {"count", "claim"} : work' = With(t, at, p, work[t].n)
    BY <1>1, ReadPrefixIs
  <2>3. work' \in [Readable!Threads -> Readable!Work]
    BY <2>1, <2>2, WithIs
  <2>. QED
    BY <1>1, <2>3 DEF Readable!ReadPrefix
<1>2. ASSUME NEW t \in Readable!Threads, Readable!ClaimPrefix(t) PROVE Readable!TypeOK'
  <2>1. work[t].n \in Readable!Number /\ work[t].prefix \in Readable!Suffix /\ Readable!GroupAt(t) \in Groups
    BY <1>2, ClaimPrefixIs DEF Readable!Work
  <2>2. work' \in [Readable!Threads -> Readable!Work]
    BY <1>2, <2>1, ClaimPrefixIs, WithIs
  <2>3. prefix' \in [Groups -> Readable!Suffix]
    BY <1>2, <2>1 DEF Readable!ClaimPrefix
  <2>4. raced' \in BOOLEAN
    BY <1>2 DEF Readable!ClaimPrefix
  <2>. QED
    BY <1>2, <2>2, <2>3, <2>4 DEF Readable!ClaimPrefix
<1>3. ASSUME NEW t \in Readable!Threads, Readable!Count(t) PROVE Readable!TypeOK'
  <2>1. Readable!GroupAt(t) \in Groups /\ work[t].prefix \in Readable!Suffix /\ counter[Readable!GroupAt(t)] + 1 \in Readable!Number
    BY <1>3, CountIs
  <2>2. work' \in [Readable!Threads -> Readable!Work]
    <3>1. PICK at \in {"look", "write"} : work' = With(t, at, work[t].prefix, counter[Readable!GroupAt(t)] + 1)
      BY <1>3, CountIs
    <3>. QED
      BY <2>1, <3>1, WithIs
  <2>3. counter' \in [Groups -> Readable!Number]
    BY <1>3, <2>1, CountIs
  <2>. QED
    BY <1>3, <2>2, <2>3 DEF Readable!Count
<1>4. ASSUME NEW t \in Readable!Threads, Readable!LookTaken(t) PROVE Readable!TypeOK'
  <2>1. work' \in [Readable!Threads -> Readable!Work]
    <3>1. PICK at \in {"count", "write"} : work' = With(t, at, work[t].prefix, work[t].n)
      BY <1>4, LookTakenIs
    <3>. QED
      BY <1>4, <3>1, LookTakenIs, WithIs
  <2>. QED
    BY <1>4, <2>1 DEF Readable!LookTaken
<1>5. ASSUME NEW t \in Clients, NEW c \in Cases, Readable!BeginCreate(t, c) PROVE Readable!TypeOK'
  <2>1. work' \in [Readable!Threads -> Readable!Work]
    BY <1>5, BeginCreateIs
  <2>. QED
    BY <1>5, <2>1 DEF Readable!BeginCreate
<1>6. ASSUME NEW t \in Clients, Readable!InsertCase(t) PROVE Readable!TypeOK'
  <2>1. work' \in [Readable!Threads -> Readable!Work]
    BY <1>6, InsertCaseIs
  <2>2. id' \in [Cases -> Readable!Id] /\ stored' \subseteq Cases /\ \A c \in Cases \ stored' : id'[c] = Readable!Missing
    BY <1>6, InsertCaseIs
  <2>. QED
    BY <1>6, <2>1, <2>2 DEF Readable!InsertCase
<1>7. ASSUME NEW c \in Cases, Readable!DeleteCase(c) PROVE Readable!TypeOK'
  <2>1. legacy' \in [Cases -> Readable!Id] /\ id' \in [Cases -> Readable!Id] /\ stored' \subseteq Cases /\ \A d \in Cases \ stored' : id'[d] = Readable!Missing
    BY <1>7, Atoms DEF Readable!DeleteCase
  <2>. QED
    BY <1>7, <2>1 DEF Readable!DeleteCase
<1>8. ASSUME Readable!Start PROVE Readable!TypeOK'
  BY <1>8, Atoms DEF Readable!Start
<1>9. ASSUME NEW c \in Cases, Readable!Pick(c) PROVE Readable!TypeOK'
  <2>1. work' \in [Readable!Threads -> Readable!Work]
    BY <1>9, PickIs
  <2>. QED
    BY <1>9, <2>1 DEF Readable!Pick
<1>10. ASSUME Readable!WriteId PROVE Readable!TypeOK'
  <2>1. work' \in [Readable!Threads -> Readable!Work]
    BY <1>10, WriteIdIs, WithIs, Atoms
  <2>2. id' \in [Cases -> Readable!Id] /\ \A c \in Cases \ stored : id'[c] = Readable!Missing
    BY <1>10, WriteIdIs
  <2>3. left' \subseteq Cases /\ stage' \in Readable!Stage
    BY <1>10, WriteIdIs
  <2>. QED
    BY <1>10, <2>1, <2>2, <2>3 DEF Readable!WriteId
<1>11. ASSUME Readable!BackfillDone PROVE Readable!TypeOK'
  BY <1>11, Atoms DEF Readable!BackfillDone
<1>12. ASSUME Readable!BuildIndex PROVE Readable!TypeOK'
  BY <1>12, Atoms DEF Readable!BuildIndex
<1>13. ASSUME Readable!CheckFlag PROVE Readable!TypeOK'
  BY <1>13, Atoms DEF Readable!CheckFlag
<1>14. ASSUME NEW c \in Cases, Readable!Park(c) PROVE Readable!TypeOK'
  <2>1. legacy' \in [Cases -> Readable!Id] /\ id' \in [Cases -> Readable!Id] /\ \A d \in Cases \ stored : id'[d] = Readable!Missing
    BY <1>14, Atoms DEF Readable!Park
  <2>. QED
    BY <1>14, <2>1 DEF Readable!Park
<1>15. ASSUME Readable!ParkDone PROVE Readable!TypeOK'
  BY <1>15, Atoms DEF Readable!ParkDone
<1>16. ASSUME Readable!AssignDone PROVE Readable!TypeOK'
  BY <1>16, Atoms DEF Readable!AssignDone
<1>17. ASSUME Readable!MarkDone PROVE Readable!TypeOK'
  BY <1>17, Atoms DEF Readable!MarkDone
<1>18. ASSUME Readable!RepairDone PROVE Readable!TypeOK'
  BY <1>18, Atoms DEF Readable!RepairDone
<1>19. ASSUME Readable!Crash PROVE Readable!TypeOK'
  <2>1. work' \in [Readable!Threads -> Readable!Work] /\ rank' \in [Cases -> Readable!Number]
    BY <1>19, Atoms DEF Readable!Crash
  <2>2. crashes' \in 0 .. MaxCrashes
    BY <1>19 DEF Readable!Crash, Readable!IdsAssumption
  <2>. QED
    BY <1>19, <2>1, <2>2 DEF Readable!Crash
<1>20. ASSUME UNCHANGED Readable!vars PROVE Readable!TypeOK'
  BY <1>20 DEF Readable!vars
<1>. QED
  BY <1>1, <1>2, <1>3, <1>4, <1>5, <1>6, <1>7, <1>8, <1>9, <1>10, <1>11, <1>12, <1>13, <1>14, <1>15, <1>16, <1>17, <1>18, <1>19, <1>20 DEF Readable!Next, Readable!Allocate, Readable!EnsureIndexes

\* Allocating moves one thread, which stays at its case.
Moved(t) == /\ Busy(t) /\ work'[t].at # "idle" /\ work'[t].case = work[t].case
            /\ \A u \in Readable!Threads : u # t => work'[u] = work[u]
            /\ UNCHANGED <<Readable!caseVars, indexed, done, Readable!bootVars, crashes, original>>

\* That is what every step of _allocate_display_id does.
LEMMA AllocateIs ==
  ASSUME Readable!IdsAssumption, Readable!TypeOK, Working, NEW t \in Readable!Threads,
         Readable!ReadPrefix(t) \/ Readable!ClaimPrefix(t) \/ Readable!Count(t) \/ Readable!LookTaken(t)
  PROVE  Moved(t)
<1>1. CASE Readable!ReadPrefix(t)
  <2>1. work[t].n \in Readable!Number
    BY Atoms, <1>1, ReadPrefixIs DEF Readable!Work, Readable!TypeOK
  <2>2. PICK p \in Readable!Suffix, at \in {"count", "claim"} : work' = With(t, at, p, work[t].n)
    BY <1>1, ReadPrefixIs
  <2>3. Busy(t) /\ work'[t].at # "idle" /\ work'[t].case = work[t].case /\ \A u \in Readable!Threads : u # t => work'[u] = work[u]
    BY <1>1, <2>1, <2>2, WithIs, ReadPrefixIs
  <2>. QED
    BY <1>1, <2>3 DEF Readable!ReadPrefix, Moved, Readable!caseVars, Readable!rowVars, Readable!bootVars, Readable!hist
<1>2. CASE Readable!ClaimPrefix(t)
  <2>1. work[t].n \in Readable!Number /\ work[t].prefix \in Readable!Suffix /\ Readable!GroupAt(t) \in Groups
    BY <1>2, ClaimPrefixIs DEF Readable!Work, Readable!TypeOK
  <2>2. Busy(t) /\ work'[t].at # "idle" /\ work'[t].case = work[t].case /\ \A u \in Readable!Threads : u # t => work'[u] = work[u]
    BY <1>2, <2>1, WithIs, ClaimPrefixIs
  <2>. QED
    BY <1>2, <2>2 DEF Readable!ClaimPrefix, Moved, Readable!caseVars, Readable!rowVars, Readable!bootVars, Readable!hist
<1>3. CASE Readable!Count(t)
  <2>1. Readable!GroupAt(t) \in Groups /\ work[t].prefix \in Readable!Suffix /\ counter[Readable!GroupAt(t)] + 1 \in Readable!Number
    BY <1>3, CountIs
  <2>2. PICK at \in {"look", "write"} : work' = With(t, at, work[t].prefix, counter[Readable!GroupAt(t)] + 1)
    BY <1>3, CountIs
  <2>3. Busy(t) /\ work'[t].at # "idle" /\ work'[t].case = work[t].case /\ \A u \in Readable!Threads : u # t => work'[u] = work[u]
    BY <1>3, <2>1, <2>2, WithIs, CountIs
  <2>. QED
    BY <1>3, <2>3 DEF Readable!Count, Moved, Readable!caseVars, Readable!rowVars, Readable!bootVars, Readable!hist
<1>4. CASE Readable!LookTaken(t)
  <2>1. PICK at \in {"count", "write"} : work' = With(t, at, work[t].prefix, work[t].n)
    BY <1>4, LookTakenIs
  <2>2. Busy(t) /\ work'[t].at # "idle" /\ work'[t].case = work[t].case /\ \A u \in Readable!Threads : u # t => work'[u] = work[u]
    BY <1>4, <2>1, WithIs, LookTakenIs
  <2>. QED
    BY <1>4, <2>2 DEF Readable!LookTaken, Moved, Readable!caseVars, Readable!rowVars, Readable!bootVars, Readable!hist
<1>. QED
  BY <1>1, <1>2, <1>3, <1>4

\* A step keeps who works on what.
LEMMA WorkingStep ==
  ASSUME Readable!IdsAssumption, Readable!TypeOK, Working, ParkedAhead, [Readable!Next]_(Readable!vars)
  PROVE  Working'
<1>. USE DEF Working, Busy, Readable!At, Readable!caseVars, Readable!rowVars, Readable!bootVars, Readable!hist, Readable!Enter, Readable!Retry, Readable!Threads, Readable!TypeOK
<1>0. Boot \notin Clients /\ Boot \notin Cases
  BY DEF Readable!IdsAssumption
<1>1. ASSUME NEW t \in Readable!Threads, Readable!ReadPrefix(t) PROVE Working'
  BY <1>0, <1>1, AllocateIs DEF Moved
<1>2. ASSUME NEW t \in Readable!Threads, Readable!ClaimPrefix(t) PROVE Working'
  BY <1>0, <1>2, AllocateIs DEF Moved
<1>3. ASSUME NEW t \in Readable!Threads, Readable!Count(t) PROVE Working'
  BY <1>0, <1>3, AllocateIs DEF Moved
<1>4. ASSUME NEW t \in Readable!Threads, Readable!LookTaken(t) PROVE Working'
  BY <1>0, <1>4, AllocateIs DEF Moved
<1>5. ASSUME NEW t \in Clients, NEW c \in Cases, Readable!BeginCreate(t, c) PROVE Working'
  <2>1. work'[t].case = c /\ work'[t].at = "prefix" /\ \A u \in Readable!Threads : u # t => work'[u] = work[u]
    BY <1>5, BeginCreateIs, EntryIs
  <2>2. c \notin stored \cup Legacy /\ \A u \in Readable!Threads : work[u].case # c
    BY <1>5 DEF Readable!BeginCreate
  <2>. QED
    BY <1>0, <1>5, <2>1, <2>2 DEF Readable!BeginCreate
<1>6. ASSUME NEW t \in Clients, Readable!InsertCase(t) PROVE Working'
  BY <1>0, <1>6, Atoms, InsertCaseIs DEF Readable!InsertCase, Readable!Free
<1>7. ASSUME NEW c \in Cases, Readable!DeleteCase(c) PROVE Working'
  BY <1>0, <1>7, Atoms DEF Readable!DeleteCase
<1>8. ASSUME Readable!Start PROVE Working'
  BY <1>0, <1>8, Atoms DEF Readable!Start
<1>9. ASSUME NEW c \in Cases, Readable!Pick(c) PROVE Working'
  <2>1. work'[Boot].case = c /\ \A u \in Readable!Threads : u # Boot => work'[u] = work[u]
    BY <1>9, PickIs, EntryIs
  <2>2. stage \in {"backfill", "assign"}
    BY <1>9 DEF Readable!Pick
  <2>. QED
    BY <1>0, <1>9, <2>1, <2>2 DEF Readable!Pick
<1>10. ASSUME Readable!WriteId PROVE Working'
  BY <1>0, <1>10, Atoms, WriteIdIs, WithIs DEF Readable!WriteId
<1>11. ASSUME Readable!BackfillDone PROVE Working'
  BY <1>0, <1>11, Atoms DEF Readable!BackfillDone, Readable!Finished
<1>12. ASSUME Readable!BuildIndex PROVE Working'
  BY <1>0, <1>12, Atoms DEF Readable!BuildIndex
<1>13. ASSUME Readable!CheckFlag PROVE Working'
  BY <1>0, <1>13, Atoms DEF Readable!CheckFlag, ParkedAhead
<1>14. ASSUME NEW c \in Cases, Readable!Park(c) PROVE Working'
  BY <1>0, <1>14, Atoms DEF Readable!Park
<1>15. ASSUME Readable!ParkDone PROVE Working'
  BY <1>0, <1>15, Atoms DEF Readable!ParkDone, Readable!Finished, Readable!Free
<1>16. ASSUME Readable!AssignDone PROVE Working'
  BY <1>0, <1>16, Atoms DEF Readable!AssignDone, Readable!Finished
<1>17. ASSUME Readable!MarkDone PROVE Working'
  BY <1>0, <1>17, Atoms DEF Readable!MarkDone, ParkedAhead
<1>18. ASSUME Readable!RepairDone PROVE Working'
  BY <1>0, <1>18, Atoms DEF Readable!RepairDone, Readable!Finished, ParkedAhead
<1>19. ASSUME Readable!Crash PROVE Working'
  BY <1>0, <1>19, Atoms DEF Readable!Crash, Readable!Free
<1>20. ASSUME UNCHANGED Readable!vars PROVE Working'
  BY <1>0, <1>20 DEF Readable!vars
<1>. QED
  BY <1>1, <1>2, <1>3, <1>4, <1>5, <1>6, <1>7, <1>8, <1>9, <1>10, <1>11, <1>12, <1>13, <1>14, <1>15, <1>16, <1>17, <1>18, <1>19, <1>20 DEF Readable!Next, Readable!Allocate, Readable!EnsureIndexes

\* A step keeps the parked cases ahead of the renumbering.
LEMMA ParkedAheadStep ==
  ASSUME Readable!IdsAssumption, Readable!TypeOK, Working, ParkedAhead, [Readable!Next]_(Readable!vars)
  PROVE  ParkedAhead'
<1>. USE DEF ParkedAhead, Readable!Stuck, Readable!caseVars, Readable!rowVars, Readable!bootVars, Readable!hist, Readable!Enter, Readable!Retry, Readable!TypeOK
<1>0. Boot \notin Clients /\ Boot \notin Cases /\ Boot \in Readable!Threads /\ \A p, n : Readable!Real(p, n) # Readable!Parked
  BY DEF Readable!IdsAssumption, Readable!Threads, Readable!Real, Readable!Parked
<1>1. ASSUME NEW t \in Readable!Threads, Readable!ReadPrefix(t) PROVE ParkedAhead'
  BY <1>0, <1>1, AllocateIs DEF Moved, Busy
<1>2. ASSUME NEW t \in Readable!Threads, Readable!ClaimPrefix(t) PROVE ParkedAhead'
  BY <1>0, <1>2, AllocateIs DEF Moved, Busy
<1>3. ASSUME NEW t \in Readable!Threads, Readable!Count(t) PROVE ParkedAhead'
  BY <1>0, <1>3, AllocateIs DEF Moved, Busy
<1>4. ASSUME NEW t \in Readable!Threads, Readable!LookTaken(t) PROVE ParkedAhead'
  BY <1>0, <1>4, AllocateIs DEF Moved, Busy
<1>5. ASSUME NEW t \in Clients, NEW c \in Cases, Readable!BeginCreate(t, c) PROVE ParkedAhead'
  <2>1. work'[Boot] = work[Boot]
    BY <1>0, <1>5, BeginCreateIs
  <2>. QED
    BY <1>5, <2>1 DEF Readable!BeginCreate, Busy
<1>6. ASSUME NEW t \in Clients, Readable!InsertCase(t) PROVE ParkedAhead'
  <2>1. work'[Boot] = work[Boot] /\ work[t].case \in Cases
    BY <1>0, <1>6, InsertCaseIs
  <2>2. Readable!Stuck' \subseteq Readable!Stuck
    BY <1>0, <1>6, <2>1, InsertCaseIs
  <2>. QED
    BY <1>6, <2>1, <2>2 DEF Readable!InsertCase, Busy
<1>7. ASSUME NEW c \in Cases, Readable!DeleteCase(c) PROVE ParkedAhead'
  <2>1. Readable!Stuck' \subseteq Readable!Stuck
    BY <1>7 DEF Readable!DeleteCase, Readable!Missing, Readable!Parked
  <2>. QED
    BY <1>7, <2>1 DEF Readable!DeleteCase, Busy
<1>8. ASSUME Readable!Start PROVE ParkedAhead'
  BY <1>0, <1>8 DEF Readable!Start, Working, Busy
<1>9. ASSUME NEW c \in Cases, Readable!Pick(c) PROVE ParkedAhead'
  <2>1. work'[Boot].case = c /\ work'[Boot].at # "idle"
    BY <1>0, <1>9, PickIs, EntryIs
  <2>2. work[Boot].at = "idle" /\ left' = left \ {c} /\ Readable!Stuck' = Readable!Stuck /\ stage' = stage /\ listed' = listed /\ done' = done
    BY <1>9 DEF Readable!Pick, Readable!At
  <2>. QED
    BY <2>1, <2>2 DEF Busy
<1>10. ASSUME Readable!WriteId PROVE ParkedAhead'
  BY <1>0, <1>10, WriteIdIs, WithIs DEF Readable!WriteId, Working, Busy
<1>11. ASSUME Readable!BackfillDone PROVE ParkedAhead'
  BY <1>0, <1>11 DEF Readable!BackfillDone, Working, Readable!Finished
<1>12. ASSUME Readable!BuildIndex PROVE ParkedAhead'
  BY <1>0, <1>12 DEF Readable!BuildIndex, Working, Busy
<1>13. ASSUME Readable!CheckFlag PROVE ParkedAhead'
  BY <1>0, <1>13 DEF Readable!CheckFlag, Working, Busy
<1>14. ASSUME NEW c \in Cases, Readable!Park(c) PROVE ParkedAhead'
  BY <1>0, <1>14 DEF Readable!Park, Working, Readable!Parked
<1>15. ASSUME Readable!ParkDone PROVE ParkedAhead'
  BY <1>0, <1>15 DEF Readable!ParkDone, Working, Readable!Finished, Readable!Free, Readable!At, Busy
<1>16. ASSUME Readable!AssignDone PROVE ParkedAhead'
  BY <1>0, <1>16 DEF Readable!AssignDone, Working, Readable!Finished, Readable!At, Busy
<1>17. ASSUME Readable!MarkDone PROVE ParkedAhead'
  BY <1>0, <1>17 DEF Readable!MarkDone, Working, Busy
<1>18. ASSUME Readable!RepairDone PROVE ParkedAhead'
  BY <1>0, <1>18 DEF Readable!RepairDone, Working, Readable!Finished
<1>19. ASSUME Readable!Crash PROVE ParkedAhead'
  BY <1>0, <1>19 DEF Readable!Crash, Working, Readable!Free
<1>20. ASSUME UNCHANGED Readable!vars PROVE ParkedAhead'
  BY <1>20 DEF Readable!vars, Busy
<1>. QED
  BY <1>1, <1>2, <1>3, <1>4, <1>5, <1>6, <1>7, <1>8, <1>9, <1>10, <1>11, <1>12, <1>13, <1>14, <1>15, <1>16, <1>17, <1>18, <1>19, <1>20 DEF Readable!Next, Readable!Allocate, Readable!EnsureIndexes

\* A step keeps the old ids where they were or in display_id_legacy.
LEMMA PreservedStep ==
  ASSUME Readable!IdsAssumption, Readable!TypeOK, Working, Preserved, [Readable!Next]_(Readable!vars)
  PROVE  Preserved'
<1>. USE DEF Preserved, Renumbered, Readable!caseVars, Readable!rowVars, Readable!bootVars, Readable!hist, Readable!Enter, Readable!Retry, Readable!TypeOK
<1>1. ASSUME NEW t \in Readable!Threads, Readable!ReadPrefix(t) PROVE Preserved'
  BY <1>1, AllocateIs DEF Moved
<1>2. ASSUME NEW t \in Readable!Threads, Readable!ClaimPrefix(t) PROVE Preserved'
  BY <1>2, AllocateIs DEF Moved
<1>3. ASSUME NEW t \in Readable!Threads, Readable!Count(t) PROVE Preserved'
  BY <1>3, AllocateIs DEF Moved
<1>4. ASSUME NEW t \in Readable!Threads, Readable!LookTaken(t) PROVE Preserved'
  BY <1>4, AllocateIs DEF Moved
<1>5. ASSUME NEW t \in Clients, NEW c \in Cases, Readable!BeginCreate(t, c) PROVE Preserved'
  BY <1>5 DEF Readable!BeginCreate
<1>6. ASSUME NEW t \in Clients, Readable!InsertCase(t) PROVE Preserved'
  <2>1. work[t].case \notin Legacy /\ UNCHANGED <<legacy, done, stage, left, original>>
    BY <1>6, InsertCaseIs DEF Readable!InsertCase
  <2>2. \A c \in Legacy : id'[c] = id[c] /\ (c \in stored' => c \in stored)
    BY <1>6, <2>1, InsertCaseIs DEF Readable!IdsAssumption
  <2>. QED
    BY <2>1, <2>2
<1>7. ASSUME NEW c \in Cases, Readable!DeleteCase(c) PROVE Preserved'
  BY <1>7 DEF Readable!DeleteCase
<1>8. ASSUME Readable!Start PROVE Preserved'
  BY <1>8 DEF Readable!Start
<1>9. ASSUME NEW c \in Cases, Readable!Pick(c) PROVE Preserved'
  BY <1>9 DEF Readable!Pick, Working, Readable!At, Busy
<1>10. ASSUME Readable!WriteId PROVE Preserved'
  <2>1. UNCHANGED <<legacy, stored, done, original>> /\ work[Boot].case \in Cases
    BY <1>10, WriteIdIs DEF Readable!WriteId
  <2>2. ASSUME NEW c \in Cases, Renumbered(c)' PROVE Renumbered(c)
    BY <1>10, <2>1, <2>2, WriteIdIs
  <2>3. ASSUME NEW c \in Legacy \cap stored, original[c].is = "real", legacy[c] = Readable!Missing, id'[c] # id[c] PROVE FALSE
    <3>1. c = work[Boot].case /\ c \in Cases
      BY <1>10, <2>3, WriteIdIs DEF Readable!IdsAssumption
    <3>2. original[c] # Readable!Missing
      BY <2>3 DEF Readable!Missing
    <3>3. id[c] = original[c] /\ ~Renumbered(c)
      BY <2>3, <3>2
    <3>. QED
      BY <1>10, <2>3, <3>1, <3>2, <3>3, WriteIdIs
  <2>. QED
    BY <2>1, <2>2, <2>3 DEF Readable!IdsAssumption
<1>11. ASSUME Readable!BackfillDone PROVE Preserved'
  BY <1>11 DEF Readable!BackfillDone, Readable!Finished
<1>12. ASSUME Readable!BuildIndex PROVE Preserved'
  BY <1>12 DEF Readable!BuildIndex
<1>13. ASSUME Readable!CheckFlag PROVE Preserved'
  BY <1>13 DEF Readable!CheckFlag, Working
<1>14. ASSUME NEW c \in Cases, Readable!Park(c) PROVE Preserved'
  <2>1. ASSUME NEW d \in Legacy \cap stored, original[d].is = "real", d # c PROVE id'[d] = id[d] /\ legacy'[d] = legacy[d]
    BY <1>14, <2>1 DEF Readable!Park, Readable!IdsAssumption
  <2>2. ASSUME c \in Legacy \cap stored, original[c].is = "real" PROVE legacy'[c] = original[c]
    BY <1>14, <2>2 DEF Readable!Park, Readable!IdsAssumption, Readable!Missing
  <2>3. UNCHANGED <<stored, done, original, stage>> /\ left' = left \ {c}
    BY <1>14 DEF Readable!Park
  <2>. QED
    BY <2>1, <2>2, <2>3
<1>15. ASSUME Readable!ParkDone PROVE Preserved'
  BY <1>15 DEF Readable!ParkDone, Readable!Finished
<1>16. ASSUME Readable!AssignDone PROVE Preserved'
  BY <1>16 DEF Readable!AssignDone, Readable!Finished
<1>17. ASSUME Readable!MarkDone PROVE Preserved'
  BY <1>17 DEF Readable!MarkDone
<1>18. ASSUME Readable!RepairDone PROVE Preserved'
  BY <1>18 DEF Readable!RepairDone, Readable!Finished
<1>19. ASSUME Readable!Crash PROVE Preserved'
  BY <1>19 DEF Readable!Crash
<1>20. ASSUME UNCHANGED Readable!vars PROVE Preserved'
  BY <1>20 DEF Readable!vars
<1>. QED
  BY <1>1, <1>2, <1>3, <1>4, <1>5, <1>6, <1>7, <1>8, <1>9, <1>10, <1>11, <1>12, <1>13, <1>14, <1>15, <1>16, <1>17, <1>18, <1>19, <1>20 DEF Readable!Next, Readable!Allocate, Readable!EnsureIndexes

\* A step keeps every number in one hand and behind its counter.
LEMMA NumbersStep ==
  ASSUME Readable!IdsAssumption, Readable!TypeOK, Working, Numbers, [Readable!Next]_(Readable!vars)
  PROVE  Numbers'
<1>. USE DEF Numbers, Numbered, Readable!GroupAt, Readable!caseVars, Readable!rowVars, Readable!bootVars, Readable!hist, Readable!Enter, Readable!Retry
<1>0. Boot \in Readable!Threads /\ Clients \subseteq Readable!Threads
  BY DEF Readable!Threads
<1>1. ASSUME NEW t \in Readable!Threads, Readable!ReadPrefix(t) PROVE Numbers'
  <2>1. work[t].n \in Readable!Number
    BY Atoms DEF Readable!Work, Readable!TypeOK
  <2>2. PICK p \in Readable!Suffix, at \in {"count", "claim"} : work' = With(t, at, p, work[t].n)
    BY <1>1, ReadPrefixIs
  <2>3. work'[t].at \in {"count", "claim"} /\ \A u \in Readable!Threads : u # t => work'[u] = work[u]
    BY <1>1, <2>1, <2>2, WithIs
  <2>4. counter' = counter
    BY <1>1 DEF Readable!ReadPrefix
  <2>. QED
    BY <2>3, <2>4
<1>2. ASSUME NEW t \in Readable!Threads, Readable!ClaimPrefix(t) PROVE Numbers'
  <2>1. work[t].n \in Readable!Number /\ work[t].prefix \in Readable!Suffix
    BY <1>2, ClaimPrefixIs DEF Readable!Work, Readable!TypeOK
  <2>2. work'[t].at = "count" /\ \A u \in Readable!Threads : u # t => work'[u] = work[u]
    BY <1>2, <2>1, WithIs, ClaimPrefixIs
  <2>. QED
    BY <1>2, <2>2 DEF Readable!ClaimPrefix
<1>3. ASSUME NEW t \in Readable!Threads, Readable!Count(t) PROVE Numbers'
  <2>1. Readable!GroupAt(t) \in Groups /\ work[t].prefix \in Readable!Suffix /\ counter[Readable!GroupAt(t)] + 1 \in Readable!Number /\ counter[Readable!GroupAt(t)] \in Nat
    BY <1>3, CountIs
  <2>2. PICK at \in {"look", "write"} : work' = With(t, at, work[t].prefix, counter[Readable!GroupAt(t)] + 1)
    BY <1>3, CountIs
  <2>3. work'[t].case = work[t].case /\ work'[t].n = counter[Readable!GroupAt(t)] + 1 /\ \A u \in Readable!Threads : u # t => work'[u] = work[u]
    BY <2>1, <2>2, WithIs
  <2>4. counter'[Readable!GroupAt(t)] = counter[Readable!GroupAt(t)] + 1 /\ \A g \in Groups : g # Readable!GroupAt(t) => counter'[g] = counter[g]
    BY <1>3, <2>1, CountIs DEF Readable!TypeOK
  <2>5. \A u \in Readable!Threads : Numbered(u) => work[u].n \in Nat /\ Readable!GroupAt(u) \in Groups
    BY Atoms DEF Readable!TypeOK, Readable!Work, Working, Busy, Readable!IdsAssumption
  <2>. HIDE DEF Readable!GroupAt
  <2>6. \A u \in Readable!Threads : Readable!GroupAt(u)' = Readable!GroupAt(u)
    BY <2>3 DEF Readable!GroupAt
  <2>7. \A u \in Readable!Threads : u # t /\ Numbered(u)' => Numbered(u) /\ work'[u].n = work[u].n
    BY <2>3
  <2>8. ASSUME NEW u \in Readable!Threads, Numbered(u)' PROVE work'[u].n <= counter'[Readable!GroupAt(u)']
    BY <2>1, <2>3, <2>4, <2>5, <2>6, <2>7, <2>8
  <2>9. ASSUME NEW u \in Readable!Threads, NEW v \in Readable!Threads, Numbered(u)', Numbered(v)', Readable!GroupAt(u)' = Readable!GroupAt(v)', work'[u].n = work'[v].n, u # v PROVE FALSE
    <3>1. CASE u = t
      BY <2>1, <2>3, <2>5, <2>6, <2>7, <2>9, <3>1
    <3>2. CASE v = t
      BY <2>1, <2>3, <2>5, <2>6, <2>7, <2>9, <3>2
    <3>3. CASE u # t /\ v # t
      BY <2>6, <2>7, <2>9, <3>3
    <3>. QED
      BY <3>1, <3>2, <3>3
  <2>. QED
    BY <2>8, <2>9
<1>4. ASSUME NEW t \in Readable!Threads, Readable!LookTaken(t) PROVE Numbers'
  <2>1. PICK at \in {"count", "write"} : work' = With(t, at, work[t].prefix, work[t].n)
    BY <1>4, LookTakenIs
  <2>2. work'[t].case = work[t].case /\ work'[t].n = work[t].n /\ work[t].at = "look" /\ \A u \in Readable!Threads : u # t => work'[u] = work[u]
    BY <1>4, <2>1, WithIs, LookTakenIs
  <2>. QED
    BY <1>4, <2>2 DEF Readable!LookTaken
<1>5. ASSUME NEW t \in Clients, NEW c \in Cases, Readable!BeginCreate(t, c) PROVE Numbers'
  <2>1. work'[t].at = "prefix" /\ \A u \in Readable!Threads : u # t => work'[u] = work[u]
    BY <1>0, <1>5, BeginCreateIs, EntryIs DEF Readable!TypeOK
  <2>. QED
    BY <1>5, <2>1 DEF Readable!BeginCreate
<1>6. ASSUME NEW t \in Clients, Readable!InsertCase(t) PROVE Numbers'
  <2>1. work'[t].at = "idle" /\ \A u \in Readable!Threads : u # t => work'[u] = work[u]
    BY <1>0, <1>6, FreedIs
  <2>. QED
    BY <1>6, <2>1 DEF Readable!InsertCase
<1>7. ASSUME NEW c \in Cases, Readable!DeleteCase(c) PROVE Numbers'
  BY <1>7 DEF Readable!DeleteCase
<1>8. ASSUME Readable!Start PROVE Numbers'
  BY <1>8 DEF Readable!Start
<1>9. ASSUME NEW c \in Cases, Readable!Pick(c) PROVE Numbers'
  <2>1. work'[Boot].at \in {"prefix", "count"} /\ \A u \in Readable!Threads : u # Boot => work'[u] = work[u]
    BY <1>0, <1>9, PickIs, EntryIs DEF Readable!TypeOK
  <2>. QED
    BY <1>9, <2>1 DEF Readable!Pick
<1>10. ASSUME Readable!WriteId PROVE Numbers'
  <2>1. work'[Boot].at = "idle" /\ \A u \in Readable!Threads : u # Boot => work'[u] = work[u]
    BY <1>0, <1>10, WriteIdIs, WithIs
  <2>. QED
    BY <1>10, <2>1 DEF Readable!WriteId
<1>11. ASSUME Readable!BackfillDone PROVE Numbers'
  BY <1>11 DEF Readable!BackfillDone
<1>12. ASSUME Readable!BuildIndex PROVE Numbers'
  BY <1>12 DEF Readable!BuildIndex
<1>13. ASSUME Readable!CheckFlag PROVE Numbers'
  BY <1>13 DEF Readable!CheckFlag
<1>14. ASSUME NEW c \in Cases, Readable!Park(c) PROVE Numbers'
  BY <1>14 DEF Readable!Park
<1>15. ASSUME Readable!ParkDone PROVE Numbers'
  <2>1. work'[Boot].at = "idle" /\ \A u \in Readable!Threads : u # Boot => work'[u] = work[u]
    BY <1>0, <1>15, FreedIs
  <2>. QED
    BY <1>15, <2>1 DEF Readable!ParkDone
<1>16. ASSUME Readable!AssignDone PROVE Numbers'
  BY <1>16 DEF Readable!AssignDone
<1>17. ASSUME Readable!MarkDone PROVE Numbers'
  BY <1>17 DEF Readable!MarkDone
<1>18. ASSUME Readable!RepairDone PROVE Numbers'
  BY <1>18 DEF Readable!RepairDone
<1>19. ASSUME Readable!Crash PROVE Numbers'
  <2>1. \A u \in Readable!Threads : work'[u].at = "idle"
    BY <1>19, EntryIs DEF Readable!Crash
  <2>. QED
    BY <2>1
<1>20. ASSUME UNCHANGED Readable!vars PROVE Numbers'
  BY <1>20 DEF Readable!vars
<1>. QED
  BY <1>1, <1>2, <1>3, <1>4, <1>5, <1>6, <1>7, <1>8, <1>9, <1>10, <1>11, <1>12, <1>13, <1>14, <1>15, <1>16, <1>17, <1>18, <1>19, <1>20 DEF Readable!Next, Readable!Allocate, Readable!EnsureIndexes

\* A race is remembered.
LEMMA RacedStays ==
  ASSUME ~raced', [Readable!Next]_(Readable!vars)
  PROVE  ~raced
<1>1. ASSUME NEW t \in Readable!Threads, Readable!ReadPrefix(t) PROVE ~raced
  BY <1>1 DEF Readable!ReadPrefix, Readable!hist
<1>2. ASSUME NEW t \in Readable!Threads, Readable!ClaimPrefix(t) PROVE ~raced
  BY <1>2 DEF Readable!ClaimPrefix, Readable!hist
<1>3. ASSUME NEW t \in Readable!Threads, Readable!Count(t) PROVE ~raced
  BY <1>3 DEF Readable!Count, Readable!hist
<1>4. ASSUME NEW t \in Readable!Threads, Readable!LookTaken(t) PROVE ~raced
  BY <1>4 DEF Readable!LookTaken, Readable!hist
<1>5. ASSUME NEW t \in Clients, NEW c \in Cases, Readable!BeginCreate(t, c) PROVE ~raced
  BY <1>5 DEF Readable!BeginCreate, Readable!hist
<1>6. ASSUME NEW t \in Clients, Readable!InsertCase(t) PROVE ~raced
  BY <1>6 DEF Readable!InsertCase, Readable!hist
<1>7. ASSUME NEW c \in Cases, Readable!DeleteCase(c) PROVE ~raced
  BY <1>7 DEF Readable!DeleteCase, Readable!hist
<1>8. ASSUME Readable!Start PROVE ~raced
  BY <1>8 DEF Readable!Start, Readable!hist
<1>9. ASSUME NEW c \in Cases, Readable!Pick(c) PROVE ~raced
  BY <1>9 DEF Readable!Pick, Readable!hist
<1>10. ASSUME Readable!WriteId PROVE ~raced
  BY <1>10 DEF Readable!WriteId, Readable!hist
<1>11. ASSUME Readable!BackfillDone PROVE ~raced
  BY <1>11 DEF Readable!BackfillDone, Readable!hist
<1>12. ASSUME Readable!BuildIndex PROVE ~raced
  BY <1>12 DEF Readable!BuildIndex, Readable!hist
<1>13. ASSUME Readable!CheckFlag PROVE ~raced
  BY <1>13 DEF Readable!CheckFlag, Readable!hist
<1>14. ASSUME NEW c \in Cases, Readable!Park(c) PROVE ~raced
  BY <1>14 DEF Readable!Park, Readable!hist
<1>15. ASSUME Readable!ParkDone PROVE ~raced
  BY <1>15 DEF Readable!ParkDone, Readable!hist
<1>16. ASSUME Readable!AssignDone PROVE ~raced
  BY <1>16 DEF Readable!AssignDone, Readable!hist
<1>17. ASSUME Readable!MarkDone PROVE ~raced
  BY <1>17 DEF Readable!MarkDone, Readable!hist
<1>18. ASSUME Readable!RepairDone PROVE ~raced
  BY <1>18 DEF Readable!RepairDone, Readable!hist
<1>19. ASSUME Readable!Crash PROVE ~raced
  BY <1>19 DEF Readable!Crash, Readable!hist
<1>20. ASSUME UNCHANGED Readable!vars PROVE ~raced
  BY <1>20 DEF Readable!vars, Readable!hist
<1>. QED
  BY <1>1, <1>2, <1>3, <1>4, <1>5, <1>6, <1>7, <1>8, <1>9, <1>10, <1>11, <1>12, <1>13, <1>14, <1>15, <1>16, <1>17, <1>18, <1>19, <1>20 DEF Readable!Next, Readable!Allocate, Readable!EnsureIndexes

\* Unless there was a race, a step keeps the prefixes apart.
LEMMA PrefixesStep ==
  ASSUME Readable!IdsAssumption, Readable!TypeOK, Working, Prefixes, ~raced', [Readable!Next]_(Readable!vars)
  PROVE  Prefixes'
<1>. USE DEF Prefixes, Prefixed, Readable!caseVars, Readable!rowVars, Readable!bootVars, Readable!hist, Readable!Enter, Readable!Retry
<1>0. Boot \in Readable!Threads /\ Clients \subseteq Readable!Threads /\ Boot \notin Cases /\ Boot \notin Clients
  BY DEF Readable!Threads, Readable!IdsAssumption
<1>1. ASSUME NEW t \in Readable!Threads, Readable!ReadPrefix(t) PROVE Prefixes'
  <2>1. work[t].n \in Readable!Number
    BY Atoms DEF Readable!Work, Readable!TypeOK
  <2>2. PICK p \in Readable!Suffix \ {0} : \/ work' = With(t, "count", p, work[t].n) /\ p = prefix[Readable!GroupAt(t)]
                               \/ work' = With(t, "claim", p, work[t].n)
    BY <1>1, ReadPrefixIs
  <2>3. PICK at \in {"count", "claim"} : work' = With(t, at, p, work[t].n) /\ (at = "count" => p = prefix[Readable!GroupAt(t)])
    BY <2>2
  <2>4. work'[t].at = at /\ work'[t].prefix = p /\ work'[t].case = work[t].case /\ \A u \in Readable!Threads : u # t => work'[u] = work[u]
    BY <2>1, <2>3, WithIs
  <2>5. prefix' = prefix /\ stage' = stage
    BY <1>1 DEF Readable!ReadPrefix
  <2>. QED
    BY <2>3, <2>4, <2>5 DEF Readable!GroupAt, Busy
<1>2. ASSUME NEW t \in Readable!Threads, Readable!ClaimPrefix(t) PROVE Prefixes'
  <2> DEFINE g == Readable!GroupAt(t)
             p == work[t].prefix
  <2>1. work[t].n \in Readable!Number /\ p \in Readable!Suffix /\ g \in Groups /\ work[t].at = "claim"
    BY <1>2, ClaimPrefixIs DEF Readable!Work, Readable!TypeOK, Readable!ClaimPrefix, Readable!At
  <2>2. work'[t].at = "count" /\ work'[t].prefix = p /\ work'[t].case = work[t].case /\ \A u \in Readable!Threads : u # t => work'[u] = work[u]
    BY <1>2, <2>1, WithIs, ClaimPrefixIs
  <2>3. prefix'[g] = p /\ p # 0 /\ (\A h \in Groups : h # g => prefix'[h] = prefix[h] /\ prefix[h] # p) /\ prefix[g] \in {0, p}
    BY <1>2, <2>1 DEF Readable!ClaimPrefix, Readable!TypeOK
  <2>4. stage' = stage /\ g' = g
    BY <1>2, <2>2 DEF Readable!ClaimPrefix, Readable!GroupAt
  <2>5. \A u \in Readable!Threads : work[u].case \in Cases => Readable!GroupAt(u) \in Groups
    BY DEF Readable!GroupAt, Readable!IdsAssumption
  <2>6. \A u \in Readable!Threads : Prefixed(u) => work[u].case \in Cases
    BY DEF Working, Busy
  <2>. HIDE DEF g, p
  <2>7. ASSUME NEW u \in Readable!Threads, u # t, work[u].case \in Cases, work[u].prefix = prefix[Readable!GroupAt(u)], work[u].prefix # 0
        PROVE  work'[u].prefix = prefix'[Readable!GroupAt(u)']
    <3>1. Readable!GroupAt(u)' = Readable!GroupAt(u)
      BY <2>2, <2>7 DEF Readable!GroupAt
    <3>. QED
      BY <2>2, <2>3, <2>5, <2>7, <3>1
  <2>8. \A a, b \in Groups : prefix'[a] = prefix'[b] /\ prefix'[a] # 0 => a = b
    BY <2>1, <2>3
  <2>9. ASSUME NEW u \in Readable!Threads, Prefixed(u)' \/ (u = Boot /\ stage' = "assign" /\ ~Busy(u)' /\ work'[u].case \in Cases)
        PROVE  work'[u].prefix = prefix'[Readable!GroupAt(u)'] /\ work'[u].prefix # 0
    <3>1. CASE u = t
      BY <2>2, <2>3, <2>4, <3>1 DEF g
    <3>2. CASE u # t
      BY <2>2, <2>4, <2>6, <2>7, <2>9, <3>2 DEF Busy
    <3>. QED
      BY <3>1, <3>2
  <2>. QED
    BY <2>2, <2>3, <2>8, <2>9
<1>3. ASSUME NEW t \in Readable!Threads, Readable!Count(t) PROVE Prefixes'
  <2>1. work[t].prefix \in Readable!Suffix /\ counter[Readable!GroupAt(t)] + 1 \in Readable!Number
    BY <1>3, CountIs
  <2>2. PICK at \in {"look", "write"} : work' = With(t, at, work[t].prefix, counter[Readable!GroupAt(t)] + 1)
    BY <1>3, CountIs
  <2>3. work'[t].case = work[t].case /\ work'[t].prefix = work[t].prefix /\ \A u \in Readable!Threads : u # t => work'[u] = work[u]
    BY <2>1, <2>2, WithIs
  <2>4. work'[t].at = at
    BY <2>1, <2>2, WithIs
  <2>5. work[t].at = "count" /\ prefix' = prefix /\ stage' = stage
    BY <1>3 DEF Readable!Count, Readable!At
  <2>. QED
    BY <2>3, <2>4, <2>5 DEF Readable!GroupAt, Busy
<1>4. ASSUME NEW t \in Readable!Threads, Readable!LookTaken(t) PROVE Prefixes'
  <2>1. PICK at \in {"count", "write"} : work' = With(t, at, work[t].prefix, work[t].n)
    BY <1>4, LookTakenIs
  <2>2. work'[t].at = at /\ work'[t].case = work[t].case /\ work'[t].prefix = work[t].prefix /\ work[t].at = "look" /\ \A u \in Readable!Threads : u # t => work'[u] = work[u]
    BY <1>4, <2>1, WithIs, LookTakenIs
  <2>. QED
    BY <1>4, <2>2 DEF Readable!LookTaken, Readable!GroupAt, Busy
<1>5. ASSUME NEW t \in Clients, NEW c \in Cases, Readable!BeginCreate(t, c) PROVE Prefixes'
  <2>1. work'[t].at = "prefix" /\ \A u \in Readable!Threads : u # t => work'[u] = work[u]
    BY <1>0, <1>5, BeginCreateIs, EntryIs DEF Readable!TypeOK
  <2>2. t # Boot
    BY <1>0
  <2>. QED
    BY <1>5, <2>1, <2>2 DEF Readable!BeginCreate, Readable!GroupAt, Busy
<1>6. ASSUME NEW t \in Clients, Readable!InsertCase(t) PROVE Prefixes'
  <2>1. work'[t].at = "idle" /\ \A u \in Readable!Threads : u # t => work'[u] = work[u]
    BY <1>0, <1>6, FreedIs
  <2>2. t # Boot
    BY <1>0
  <2>. QED
    BY <1>6, <2>1, <2>2 DEF Readable!InsertCase, Readable!GroupAt, Busy
<1>7. ASSUME NEW c \in Cases, Readable!DeleteCase(c) PROVE Prefixes'
  BY <1>7 DEF Readable!DeleteCase, Readable!GroupAt, Busy
<1>8. ASSUME Readable!Start PROVE Prefixes'
  BY <1>8 DEF Readable!Start, Readable!GroupAt, Busy
<1>9. ASSUME NEW c \in Cases, Readable!Pick(c) PROVE Prefixes'
  <2>1. CASE work' = [work EXCEPT ![Boot] = Anew(c)]
    <3>1. work'[Boot].at = "prefix" /\ \A u \in Readable!Threads : u # Boot => work'[u] = work[u]
      BY <1>0, <2>1, EntryIs DEF Readable!TypeOK
    <3>. QED
      BY <1>9, <3>1 DEF Readable!Pick, Readable!GroupAt, Busy
  <2>2. CASE work' = [work EXCEPT ![Boot] = Again(c)] /\ stage = "assign" /\ Readable!SameGroup(c)
    <3>1. work'[Boot].at = "count" /\ work'[Boot].case = c /\ work'[Boot].prefix = work[Boot].prefix /\ \A u \in Readable!Threads : u # Boot => work'[u] = work[u]
      BY <1>0, <2>2, EntryIs DEF Readable!TypeOK
    <3>2. ~Busy(Boot) /\ work[Boot].case \in Cases /\ GroupOf[work[Boot].case] = GroupOf[c]
      BY <1>0, <1>9, <2>2 DEF Readable!Pick, Readable!At, Busy, Readable!SameGroup, Readable!TypeOK, Readable!Work
    <3>3. work[Boot].prefix = prefix[GroupOf[c]] /\ work[Boot].prefix # 0
      BY <1>0, <2>2, <3>2 DEF Readable!GroupAt
    <3>. QED
      BY <1>9, <3>1, <3>3 DEF Readable!Pick, Readable!GroupAt, Busy
  <2>. QED
    BY <1>9, <2>1, <2>2, PickIs
<1>10. ASSUME Readable!WriteId PROVE Prefixes'
  <2>1. work'[Boot].at = "idle" /\ work'[Boot].case = work[Boot].case /\ work'[Boot].prefix = work[Boot].prefix /\ \A u \in Readable!Threads : u # Boot => work'[u] = work[u]
    BY <1>0, <1>10, WriteIdIs, WithIs
  <2>2. Prefixed(Boot) /\ prefix' = prefix
    BY <1>10, WriteIdIs DEF Numbered, Readable!WriteId
  <2>. QED
    BY <1>0, <2>1, <2>2 DEF Readable!GroupAt, Busy
<1>11. ASSUME Readable!BackfillDone PROVE Prefixes'
  BY <1>11 DEF Readable!BackfillDone, Readable!GroupAt, Busy
<1>12. ASSUME Readable!BuildIndex PROVE Prefixes'
  BY <1>12 DEF Readable!BuildIndex, Readable!GroupAt, Busy
<1>13. ASSUME Readable!CheckFlag PROVE Prefixes'
  BY <1>13 DEF Readable!CheckFlag, Readable!GroupAt, Busy
<1>14. ASSUME NEW c \in Cases, Readable!Park(c) PROVE Prefixes'
  BY <1>14 DEF Readable!Park, Readable!GroupAt, Busy
<1>15. ASSUME Readable!ParkDone PROVE Prefixes'
  <2>1. work'[Boot].at = "idle" /\ work'[Boot].case = Boot /\ \A u \in Readable!Threads : u # Boot => work'[u] = work[u]
    BY <1>0, <1>15, FreedIs
  <2>2. prefix' = prefix /\ Boot \notin Cases
    BY <1>15 DEF Readable!ParkDone, Readable!IdsAssumption, Readable!rowVars
  <2>3. \A u \in Readable!Threads : work'[u].at = "claim" => work'[u].prefix # 0
    BY <1>0, <2>1
  <2>4. ASSUME NEW u \in Readable!Threads, Prefixed(u)' PROVE u # Boot /\ work'[u] = work[u] /\ Prefixed(u)
    BY <2>1, <2>4
  <2>. QED
    BY <1>0, <2>1, <2>2, <2>3, <2>4 DEF Readable!GroupAt
<1>16. ASSUME Readable!AssignDone PROVE Prefixes'
  BY <1>16 DEF Readable!AssignDone, Readable!GroupAt, Busy
<1>17. ASSUME Readable!MarkDone PROVE Prefixes'
  BY <1>17 DEF Readable!MarkDone, Readable!GroupAt, Busy
<1>18. ASSUME Readable!RepairDone PROVE Prefixes'
  BY <1>18 DEF Readable!RepairDone, Readable!GroupAt, Busy
<1>19. ASSUME Readable!Crash PROVE Prefixes'
  <2>1. \A u \in Readable!Threads : work'[u].at = "idle"
    BY <1>19, EntryIs DEF Readable!Crash
  <2>. QED
    BY <1>19, <2>1 DEF Readable!Crash
<1>20. ASSUME UNCHANGED Readable!vars PROVE Prefixes'
  BY <1>20 DEF Readable!vars, Readable!GroupAt, Busy
<1>. QED
  BY <1>1, <1>2, <1>3, <1>4, <1>5, <1>6, <1>7, <1>8, <1>9, <1>10, <1>11, <1>12, <1>13, <1>14, <1>15, <1>16, <1>17, <1>18, <1>19, <1>20 DEF Readable!Next, Readable!Allocate, Readable!EnsureIndexes

\* What a thread with a number holds.
LEMMA HandIs ==
  ASSUME Readable!IdsAssumption, Readable!TypeOK, Working, Numbers, Prefixes, NEW t \in Readable!Threads, Numbered(t)
  PROVE  /\ work[t].case \in Cases /\ Readable!GroupAt(t) \in Groups
         /\ work[t].prefix = prefix[Readable!GroupAt(t)] /\ work[t].prefix # 0
         /\ work[t].n \in Nat /\ work[t].n <= counter[Readable!GroupAt(t)]
<1>1. work[t].case \in Cases /\ work[t] \in Readable!Work
  BY DEF Working, Busy, Numbered, Readable!TypeOK
<1>. QED
  BY <1>1, Atoms DEF Numbers, Prefixes, Prefixed, Numbered, Readable!GroupAt, Readable!IdsAssumption, Readable!Work

\* No two threads have one id in hand.
LEMMA HandsDiffer ==
  ASSUME Readable!IdsAssumption, Readable!TypeOK, Working, Numbers, Prefixes, NEW t \in Readable!Threads, NEW u \in Readable!Threads, Numbered(t), Numbered(u),
         Readable!Real(work[t].prefix, work[t].n) = Readable!Real(work[u].prefix, work[u].n)
  PROVE  t = u
<1>1. work[t].prefix = work[u].prefix /\ work[t].n = work[u].n
  BY DEF Readable!Real
<1>2. Readable!GroupAt(t) = Readable!GroupAt(u)
  BY <1>1, HandIs DEF Prefixes
<1>. QED
  BY <1>1, <1>2 DEF Numbers

\* A step keeps every new id behind its counter and out of every hand.
LEMMA IssuedStep ==
  ASSUME Readable!IdsAssumption, Readable!TypeOK, Working, Numbers, Prefixes, Issued, ~raced', [Readable!Next]_(Readable!vars)
  PROVE  Issued'
<1>. USE DEF Readable!caseVars, Readable!rowVars, Readable!bootVars, Readable!hist, Readable!Enter, Readable!Retry
<1>0. Boot \in Readable!Threads /\ Clients \subseteq Readable!Threads /\ Boot \notin Cases /\ Boot \notin Clients
  BY DEF Readable!Threads, Readable!IdsAssumption
<1>1. ASSUME NEW t \in Readable!Threads, Readable!ReadPrefix(t) PROVE Issued'
  <2>1. work[t].n \in Readable!Number
    BY Atoms DEF Readable!Work, Readable!TypeOK
  <2>2. PICK p \in Readable!Suffix, at \in {"count", "claim"} : work' = With(t, at, p, work[t].n)
    BY <1>1, ReadPrefixIs
  <2>3. work'[t].at \in {"count", "claim"} /\ \A u \in Readable!Threads : u # t => work'[u] = work[u]
    BY <1>1, <2>1, <2>2, WithIs
  <2>4. prefix' = prefix /\ counter' = counter
    BY <1>1 DEF Readable!ReadPrefix
  <2>5. Moved(t)
    BY <1>1, AllocateIs
  <2>. QED
    BY <2>3, <2>4, <2>5 DEF Moved, Issued, Renumbered, Numbered
<1>2. ASSUME NEW t \in Readable!Threads, Readable!ClaimPrefix(t) PROVE Issued'
  <2>1. work[t].n \in Readable!Number /\ work[t].prefix \in Readable!Suffix /\ Readable!GroupAt(t) \in Groups
    BY <1>2, ClaimPrefixIs DEF Readable!Work, Readable!TypeOK
  <2>2. work'[t].at = "count" /\ \A u \in Readable!Threads : u # t => work'[u] = work[u]
    BY <1>2, <2>1, WithIs, ClaimPrefixIs
  <2>3. \A g \in Groups : prefix[g] # 0 => prefix'[g] = prefix[g]
    BY <1>2, <2>1 DEF Readable!ClaimPrefix, Readable!TypeOK
  <2>4. counter' = counter
    BY <1>2 DEF Readable!ClaimPrefix
  <2>5. Moved(t)
    BY <1>2, AllocateIs
  <2>6. \A c \in stored : GroupOf[c] \in Groups
    BY DEF Readable!IdsAssumption, Readable!TypeOK
  <2>. QED
    BY <2>2, <2>3, <2>4, <2>5, <2>6 DEF Moved, Issued, Renumbered, Numbered
<1>3. ASSUME NEW t \in Readable!Threads, Readable!Count(t) PROVE Issued'
  <2>1. work[t].prefix \in Readable!Suffix /\ counter[Readable!GroupAt(t)] + 1 \in Readable!Number /\ counter[Readable!GroupAt(t)] \in Nat /\ Readable!GroupAt(t) \in Groups
    BY <1>3, CountIs
  <2>2. PICK at \in {"look", "write"} : work' = With(t, at, work[t].prefix, counter[Readable!GroupAt(t)] + 1)
    BY <1>3, CountIs
  <2>3. work'[t].n = counter[Readable!GroupAt(t)] + 1 /\ work'[t].prefix = work[t].prefix /\ \A u \in Readable!Threads : u # t => work'[u] = work[u]
    BY <2>1, <2>2, WithIs
  <2>4. prefix' = prefix /\ counter' = [counter EXCEPT ![Readable!GroupAt(t)] = counter[Readable!GroupAt(t)] + 1]
    BY <1>3, CountIs DEF Readable!Count
  <2>5. Moved(t)
    BY <1>3, AllocateIs
  <2>6. work[t].prefix = prefix[Readable!GroupAt(t)] /\ work[t].prefix # 0
    BY <1>3 DEF Prefixes, Prefixed, Readable!Count, Readable!At
  <2>7. ASSUME NEW c \in stored, Renumbered(c), id[c].is = "real"
        PROVE  /\ id[c].prefix = prefix[GroupOf[c]] /\ id[c].prefix # 0 /\ id[c].n <= counter'[GroupOf[c]]
               /\ id[c] # Readable!Real(work[t].prefix, counter[Readable!GroupAt(t)] + 1)
               /\ \A u \in Readable!Threads : Numbered(u) => id[c] # Readable!Real(work[u].prefix, work[u].n)
    <3>1. GroupOf[c] \in Groups /\ id[c] \in Readable!Id /\ counter[GroupOf[c]] \in Nat /\ id[c].n \in Nat
      BY Atoms DEF Readable!IdsAssumption, Readable!TypeOK, Readable!Id
    <3>2. id[c].prefix = prefix[GroupOf[c]] /\ id[c].prefix # 0 /\ id[c].n <= counter[GroupOf[c]]
      BY <2>7 DEF Issued
    <3>3. counter[GroupOf[c]] <= counter'[GroupOf[c]]
      BY <2>1, <2>4, <3>1 DEF Readable!TypeOK
    <3>4. id[c].n <= counter'[GroupOf[c]]
      BY <2>1, <2>4, <3>1, <3>2 DEF Readable!TypeOK
    <3>5. ASSUME id[c] = Readable!Real(work[t].prefix, counter[Readable!GroupAt(t)] + 1) PROVE FALSE
      <4>1. id[c].prefix = work[t].prefix /\ id[c].n = counter[Readable!GroupAt(t)] + 1
        BY <3>5 DEF Readable!Real
      <4>2. GroupOf[c] = Readable!GroupAt(t)
        BY <2>1, <2>6, <3>1, <3>2, <4>1 DEF Prefixes
      <4>. QED
        BY <2>1, <3>2, <4>1, <4>2
    <3>. QED
      BY <2>7, <3>2, <3>4, <3>5 DEF Issued
  <2>8. \A c : Renumbered(c)' => Renumbered(c)
    BY <2>5 DEF Moved, Renumbered
  <2>. QED
    BY <2>3, <2>4, <2>5, <2>7, <2>8 DEF Moved, Issued, Numbered
<1>4. ASSUME NEW t \in Readable!Threads, Readable!LookTaken(t) PROVE Issued'
  <2>1. PICK at \in {"count", "write"} : work' = With(t, at, work[t].prefix, work[t].n)
    BY <1>4, LookTakenIs
  <2>2. work'[t].n = work[t].n /\ work'[t].prefix = work[t].prefix /\ work[t].at = "look" /\ \A u \in Readable!Threads : u # t => work'[u] = work[u]
    BY <1>4, <2>1, WithIs, LookTakenIs
  <2>3. prefix' = prefix /\ counter' = counter
    BY <1>4 DEF Readable!LookTaken
  <2>4. Moved(t)
    BY <1>4, AllocateIs
  <2>. QED
    BY <2>2, <2>3, <2>4 DEF Moved, Issued, Renumbered, Numbered
<1>5. ASSUME NEW t \in Clients, NEW c \in Cases, Readable!BeginCreate(t, c) PROVE Issued'
  <2>1. work'[t].at = "prefix" /\ \A u \in Readable!Threads : u # t => work'[u] = work[u]
    BY <1>0, <1>5, BeginCreateIs, EntryIs DEF Readable!TypeOK
  <2>. QED
    BY <1>5, <2>1 DEF Readable!BeginCreate, Issued, Renumbered, Numbered
<1>6. ASSUME NEW t \in Clients, Readable!InsertCase(t) PROVE Issued'
  <2> DEFINE d == work[t].case
             new == Readable!Real(work[t].prefix, work[t].n)
  <2>1. work'[t].at = "idle" /\ \A u \in Readable!Threads : u # t => work'[u] = work[u]
    BY <1>0, <1>6, FreedIs
  <2>2. UNCHANGED <<prefix, counter, done, stage, left>> /\ Numbered(t) /\ t \in Readable!Threads
    BY <1>0, <1>6, InsertCaseIs DEF Readable!InsertCase
  <2>3. \A c \in stored' : (c \in stored /\ id'[c] = id[c]) \/ (c = d /\ id'[c] = new)
    BY <1>6, InsertCaseIs DEF Readable!TypeOK
  <2>4. /\ new.prefix = prefix[GroupOf[d]] /\ new.prefix # 0 /\ new.n <= counter[GroupOf[d]]
        /\ \A u \in Readable!Threads : u # t /\ Numbered(u) => new # Readable!Real(work[u].prefix, work[u].n)
    BY <2>2, HandIs, HandsDiffer DEF Readable!Real, Readable!GroupAt
  <2>5. \A u \in Readable!Threads : Numbered(u)' => u # t /\ Numbered(u) /\ work'[u] = work[u]
    BY <2>1 DEF Numbered
  <2>6. \A c : Renumbered(c)' => Renumbered(c)
    BY <2>2 DEF Renumbered
  <2>. HIDE DEF d, new
  <2>. QED
    BY <2>2, <2>3, <2>4, <2>5, <2>6 DEF Issued
<1>7. ASSUME NEW c \in Cases, Readable!DeleteCase(c) PROVE Issued'
  <2>1. \A d \in stored' : d \in stored /\ id'[d] = id[d]
    BY <1>7 DEF Readable!DeleteCase, Readable!TypeOK
  <2>2. UNCHANGED <<prefix, counter, done, stage, left, work>>
    BY <1>7 DEF Readable!DeleteCase
  <2>. QED
    BY <2>1, <2>2 DEF Issued, Renumbered, Numbered
<1>8. ASSUME Readable!Start PROVE Issued'
  BY <1>8 DEF Readable!Start, Issued, Renumbered, Numbered
<1>9. ASSUME NEW c \in Cases, Readable!Pick(c) PROVE Issued'
  <2>1. work'[Boot].at \in {"prefix", "count"} /\ \A u \in Readable!Threads : u # Boot => work'[u] = work[u]
    BY <1>0, <1>9, PickIs, EntryIs DEF Readable!TypeOK
  <2>. QED
    BY <1>9, <2>1 DEF Readable!Pick, Issued, Renumbered, Numbered
<1>10. ASSUME Readable!WriteId PROVE Issued'
  <2> DEFINE d == work[Boot].case
             new == Readable!Real(work[Boot].prefix, work[Boot].n)
  <2>1. work'[Boot].at = "idle" /\ \A u \in Readable!Threads : u # Boot => work'[u] = work[u]
    BY <1>0, <1>10, WriteIdIs, WithIs
  <2>2. UNCHANGED <<prefix, counter, done, stored>> /\ Numbered(Boot) /\ d \in Cases
    BY <1>10, WriteIdIs DEF Readable!WriteId
  <2>3. \A c \in Cases : id'[c] = id[c] \/ (c = d /\ id'[c] = new)
    BY <1>10, WriteIdIs DEF Readable!TypeOK
  <2>4. /\ new.prefix = prefix[GroupOf[d]] /\ new.prefix # 0 /\ new.n <= counter[GroupOf[d]]
        /\ \A u \in Readable!Threads : u # Boot /\ Numbered(u) => new # Readable!Real(work[u].prefix, work[u].n)
    BY <1>0, <2>2, HandIs, HandsDiffer DEF Readable!Real, Readable!GroupAt
  <2>5. \A u \in Readable!Threads : Numbered(u)' => u # Boot /\ Numbered(u) /\ work'[u] = work[u]
    BY <2>1 DEF Numbered
  <2>6. \A c : Renumbered(c)' => Renumbered(c)
    BY <1>10, <2>2, WriteIdIs DEF Renumbered
  <2>7. stored \subseteq Cases
    BY DEF Readable!TypeOK
  <2>. HIDE DEF d, new
  <2>. QED
    BY <2>2, <2>3, <2>4, <2>5, <2>6, <2>7 DEF Issued
<1>11. ASSUME Readable!BackfillDone PROVE Issued'
  BY <1>11 DEF Readable!BackfillDone, Issued, Renumbered, Numbered, Readable!Finished
<1>12. ASSUME Readable!BuildIndex PROVE Issued'
  BY <1>12 DEF Readable!BuildIndex, Issued, Renumbered, Numbered
<1>13. ASSUME Readable!CheckFlag PROVE Issued'
  BY <1>13 DEF Readable!CheckFlag, Issued, Renumbered, Numbered, Working
<1>14. ASSUME NEW c \in Cases, Readable!Park(c) PROVE Issued'
  <2>1. UNCHANGED <<stored, prefix, counter, done, stage, work>> /\ left' = left \ {c}
    BY <1>14 DEF Readable!Park
  <2>2. \A d \in stored : id'[d] = id[d] \/ id'[d] = Readable!Parked
    BY <1>14 DEF Readable!Park, Readable!TypeOK
  <2>3. \A d \in stored : d # c => id'[d] = id[d]
    BY <1>14 DEF Readable!Park, Readable!TypeOK
  <2>4. c \in stored => id'[c] = Readable!Parked
    BY <1>14 DEF Readable!Park, Readable!TypeOK
  <2>. QED
    BY <2>1, <2>3, <2>4 DEF Issued, Renumbered, Numbered, Readable!Parked
<1>15. ASSUME Readable!ParkDone PROVE Issued'
  <2>1. work'[Boot].at = "idle" /\ \A u \in Readable!Threads : u # Boot => work'[u] = work[u]
    BY <1>0, <1>15, FreedIs
  <2>. QED
    BY <1>15, <2>1 DEF Readable!ParkDone, Readable!Finished, Issued, Renumbered, Numbered
<1>16. ASSUME Readable!AssignDone PROVE Issued'
  BY <1>16 DEF Readable!AssignDone, Issued, Renumbered, Numbered, Readable!Finished
<1>17. ASSUME Readable!MarkDone PROVE Issued'
  BY <1>17 DEF Readable!MarkDone, Issued, Renumbered, Numbered
<1>18. ASSUME Readable!RepairDone PROVE Issued'
  BY <1>18 DEF Readable!RepairDone, Issued, Renumbered, Numbered, Readable!Finished, Working
<1>19. ASSUME Readable!Crash PROVE Issued'
  <2>1. \A u \in Readable!Threads : ~Numbered(u)'
    BY <1>19, EntryIs DEF Readable!Crash, Numbered
  <2>. QED
    BY <1>19, <2>1 DEF Readable!Crash, Issued, Renumbered
<1>20. ASSUME UNCHANGED Readable!vars PROVE Issued'
  BY <1>20 DEF Readable!vars, Issued, Renumbered, Numbered
<1>. QED
  BY <1>1, <1>2, <1>3, <1>4, <1>5, <1>6, <1>7, <1>8, <1>9, <1>10, <1>11, <1>12, <1>13, <1>14, <1>15, <1>16, <1>17, <1>18, <1>19, <1>20 DEF Readable!Next, Readable!Allocate, Readable!EnsureIndexes

\* What the renumbering has in hand comes after all it should come after.
InHand == \A c \in Kept : Numbered(Boot) /\ work[Boot].case \in Kept /\ Before(c, work[Boot].case) => id[c].n < work[Boot].n

\* Allocating keeps the order when it keeps what is in hand in order.
LEMMA AllocateOrder ==
  ASSUME Readable!IdsAssumption, Ordered, NEW t \in Readable!Threads, Moved(t), stage = "assign" => InHand'
  PROVE  Ordered'
<1>1. UNCHANGED <<id, stored, done, stage, left, listed, rank, original>> /\ Busy(Boot)' = Busy(Boot) /\ (Busy(Boot) => work'[Boot].case = work[Boot].case)
  BY DEF Moved, Busy, Readable!caseVars, Readable!bootVars, Readable!Threads
<1>2. Kept' = Kept /\ (\A c, d : Before(c, d)' = Before(c, d)) /\ \A c : Written(c)' = Written(c)
  BY <1>1 DEF Kept, Before, Written
<1>. QED
  BY <1>1, <1>2 DEF Ordered, InHand

\* No case has an id of the number in hand, so that no write is refused.
LEMMA NotTaken ==
  ASSUME Readable!IdsAssumption, Readable!TypeOK, Issued, NEW t \in Readable!Threads, Numbered(t), done \/ stage = "assign"
  PROVE  ~Readable!Taken(Readable!Real(work[t].prefix, work[t].n))
BY DEF Issued, Renumbered, Readable!Taken, Readable!Real

\* What is in hand stays in order unless ensure_indexes takes a new number.
LEMMA SameInHand ==
  ASSUME Readable!IdsAssumption, Ordered, stage = "assign", NEW t \in Readable!Threads, Moved(t),
         t # Boot \/ ~Numbered(Boot)' \/ (Numbered(Boot) /\ work'[Boot].n = work[Boot].n)
  PROVE  InHand'
<1>1. UNCHANGED <<id, stored, original>> /\ (~Numbered(Boot)' \/ (Numbered(Boot) /\ work'[Boot].n = work[Boot].n /\ work'[Boot].case = work[Boot].case))
  BY DEF Moved, Readable!caseVars, Readable!Threads, Numbered
<1>. QED
  BY <1>1 DEF InHand, Ordered, Kept, Before

\* A step keeps the order of the renumbering.
LEMMA OrderedStep ==
  ASSUME Readable!IdsAssumption, Readable!TypeOK, Working, Issued, Ordered, crashes' = 0, [Readable!Next]_(Readable!vars)
  PROVE  Ordered'
<1>. USE DEF Readable!caseVars, Readable!rowVars, Readable!bootVars, Readable!hist, Readable!Enter, Readable!Retry
<1>0. Boot \in Readable!Threads /\ Clients \subseteq Readable!Threads /\ Boot \notin Cases /\ Boot \notin Clients
  BY DEF Readable!Threads, Readable!IdsAssumption
<1>1. ASSUME NEW t \in Readable!Threads, Readable!ReadPrefix(t) PROVE Ordered'
  <2>1. Moved(t)
    BY <1>1, AllocateIs
  <2>2. stage = "assign" => InHand'
    <3>1. work[t].n \in Readable!Number
      BY Atoms DEF Readable!Work, Readable!TypeOK
    <3>2. PICK p \in Readable!Suffix, at \in {"count", "claim"} : work' = With(t, at, p, work[t].n)
      BY <1>1, ReadPrefixIs
    <3>3. work'[t].at \in {"count", "claim"}
      BY <1>1, <3>1, <3>2, WithIs
    <3>. QED
      BY <1>0, <2>1, <3>3, SameInHand DEF Numbered
  <2>. QED
    BY <2>1, <2>2, AllocateOrder
<1>2. ASSUME NEW t \in Readable!Threads, Readable!ClaimPrefix(t) PROVE Ordered'
  <2>1. Moved(t)
    BY <1>2, AllocateIs
  <2>2. stage = "assign" => InHand'
    <3>1. work[t].n \in Readable!Number /\ work[t].prefix \in Readable!Suffix
      BY <1>2, ClaimPrefixIs DEF Readable!Work, Readable!TypeOK
    <3>2. work'[t].at = "count"
      BY <1>2, <3>1, WithIs, ClaimPrefixIs
    <3>. QED
      BY <1>0, <2>1, <3>2, SameInHand DEF Numbered
  <2>. QED
    BY <2>1, <2>2, AllocateOrder
<1>3. ASSUME NEW t \in Readable!Threads, Readable!Count(t) PROVE Ordered'
  <2>1. Moved(t)
    BY <1>3, AllocateIs
  <2>2. stage = "assign" => InHand'
    <3>1. work[t].prefix \in Readable!Suffix /\ counter[Readable!GroupAt(t)] + 1 \in Readable!Number /\ counter[Readable!GroupAt(t)] \in Nat
      BY <1>3, CountIs
    <3>2. PICK at \in {"look", "write"} : work' = With(t, at, work[t].prefix, counter[Readable!GroupAt(t)] + 1)
      BY <1>3, CountIs
    <3>3. work'[t].n = counter[Readable!GroupAt(t)] + 1
      BY <3>1, <3>2, WithIs
    <3>4. CASE t # Boot
      BY <1>0, <2>1, <3>4, SameInHand
    <3>5. ASSUME t = Boot, stage = "assign", NEW c \in Kept, work[Boot].case \in Kept, Before(c, work[Boot].case)
          PROVE  id[c].n < counter[Readable!GroupAt(t)] + 1
      <4>1. Busy(Boot)
        BY <1>3, <3>5, CountIs
      <4>2. work[Boot].case \notin left /\ Written(c)
        BY <3>5, <4>1 DEF Ordered
      <4>3. id[c].is = "real" /\ c \in stored /\ c \in Cases
        BY <3>5, <4>2 DEF Ordered, Kept, Readable!TypeOK
      <4>4. id[c].n <= counter[GroupOf[c]] /\ id[c].n \in Nat
        BY <3>5, <4>3, Atoms DEF Issued, Renumbered, Readable!TypeOK, Readable!Id
      <4>5. GroupOf[c] = Readable!GroupAt(t)
        BY <3>5 DEF Before, Readable!GroupAt
      <4>. QED
        BY <3>1, <4>4, <4>5
    <3>6. UNCHANGED <<id, stored, original>> /\ work'[t].case = work[t].case
      BY <2>1 DEF Moved
    <3>. QED
      BY <3>3, <3>4, <3>5, <3>6 DEF InHand, Kept, Before
  <2>. QED
    BY <2>1, <2>2, AllocateOrder
<1>4. ASSUME NEW t \in Readable!Threads, Readable!LookTaken(t) PROVE Ordered'
  <2>1. Moved(t)
    BY <1>4, AllocateIs
  <2>2. stage = "assign" => InHand'
    <3>1. PICK at \in {"count", "write"} : work' = With(t, at, work[t].prefix, work[t].n)
      BY <1>4, LookTakenIs
    <3>2. work'[t].n = work[t].n /\ Numbered(t)
      BY <1>4, <3>1, WithIs, LookTakenIs DEF Numbered
    <3>. QED
      BY <1>0, <2>1, <3>2, SameInHand
  <2>. QED
    BY <2>1, <2>2, AllocateOrder
<1>5. ASSUME NEW t \in Clients, NEW c \in Cases, Readable!BeginCreate(t, c) PROVE Ordered'
  <2>1. work'[Boot] = work[Boot]
    BY <1>0, <1>5, BeginCreateIs DEF Readable!TypeOK
  <2>2. UNCHANGED <<id, stored, done, stage, left, listed, rank, original>>
    BY <1>5 DEF Readable!BeginCreate
  <2>. QED
    BY <2>1, <2>2 DEF Ordered, Kept, Before, Written, Busy, Numbered
<1>6. ASSUME NEW t \in Clients, Readable!InsertCase(t) PROVE Ordered'
  <2>1. work'[Boot] = work[Boot]
    BY <1>0, <1>6 DEF Readable!InsertCase, Readable!TypeOK
  <2>2. UNCHANGED <<done, stage, left, listed, rank, original>>
    BY <1>6 DEF Readable!InsertCase
  <2>3. Kept' = Kept /\ \A c \in Kept : id'[c] = id[c]
    BY <1>6, <2>2, InsertCaseIs DEF Kept, Readable!TypeOK
  <2>4. \A c, d : Before(c, d)' = Before(c, d)
    BY <2>2 DEF Before
  <2>. QED
    BY <2>1, <2>2, <2>3, <2>4 DEF Ordered, Written, Busy, Numbered
<1>7. ASSUME NEW c \in Cases, Readable!DeleteCase(c) PROVE Ordered'
  <2>1. UNCHANGED <<work, done, stage, left, listed, rank, original>>
    BY <1>7 DEF Readable!DeleteCase
  <2>2. Kept' \subseteq Kept /\ \A d \in Kept' : id'[d] = id[d]
    BY <1>7 DEF Readable!DeleteCase, Kept, Readable!TypeOK
  <2>3. \A d, e : Before(d, e)' = Before(d, e)
    BY <2>1 DEF Before
  <2>. QED
    BY <2>1, <2>2, <2>3 DEF Ordered, Written, Busy, Numbered
<1>8. ASSUME Readable!Start PROVE Ordered'
  BY <1>8 DEF Readable!Start, Ordered, Kept, Before
<1>9. ASSUME NEW c \in Cases, Readable!Pick(c) PROVE Ordered'
  <2>0. work'[Boot].case = c /\ work'[Boot].at \in {"prefix", "count"}
    BY <1>0, <1>9, PickIs, EntryIs DEF Readable!TypeOK
  <2>1. work'[Boot].case = c /\ Busy(Boot)' /\ ~Numbered(Boot)' /\ ~Busy(Boot)
    BY <1>9, <2>0 DEF Busy, Numbered, Readable!Pick, Readable!At
  <2>2. UNCHANGED <<id, stored, done, stage, listed, rank, original>> /\ left' = left \ {c} /\ c \in left /\ stage # "park"
    BY <1>9 DEF Readable!Pick
  <2>3. Kept' = Kept /\ \A a, b : Before(a, b)' = Before(a, b)
    BY <2>2 DEF Kept, Before
  <2>4. \A a : Written(a)' = (a \notin left)
    BY <2>1, <2>2 DEF Written
  <2>5. \A a : Written(a) = (a \notin left)
    BY <2>1 DEF Written
  <2>6. ASSUME stage = "assign", NEW a \in Kept, NEW b \in Kept, Before(a, b), b \notin left'
        PROVE  a \notin left
    <3>1. CASE b # c
      BY <2>2, <2>5, <2>6, <3>1 DEF Ordered
    <3>2. CASE b = c
      <4>1. ASSUME a \in left PROVE rank[c] <= rank[a]
        BY <1>9, <2>6, <3>2, <4>1 DEF Readable!Pick, Readable!InTurn, Before
      <4>2. rank[c] = original[c].n /\ rank[a] = original[a].n /\ rank[a] < rank[c]
        BY <2>6, <3>2 DEF Ordered, Before
      <4>3. rank[a] \in Nat /\ rank[c] \in Nat
        BY <2>6, <3>2, Atoms DEF Readable!TypeOK, Kept
      <4>. QED
        BY <4>1, <4>2, <4>3
    <3>. QED
      BY <3>1, <3>2
  <2>. QED
    BY <2>1, <2>2, <2>3, <2>4, <2>5, <2>6 DEF Ordered
<1>10. ASSUME Readable!WriteId PROVE Ordered'
  <2> DEFINE d == work[Boot].case
             new == Readable!Real(work[Boot].prefix, work[Boot].n)
  <2>1. work'[Boot].case = d /\ ~Busy(Boot)' /\ ~Numbered(Boot)' /\ Busy(Boot) /\ Numbered(Boot)
    BY <1>0, <1>10, WriteIdIs, WithIs DEF Busy, Numbered
  <2>2. UNCHANGED <<stored, done, listed, rank, original>> /\ d \in Cases
    BY <1>10, WriteIdIs DEF Readable!WriteId
  <2>3. Kept' = Kept /\ \A a, b : Before(a, b)' = Before(a, b)
    BY <2>2 DEF Kept, Before
  <2>4. new.is = "real" /\ new.n = work[Boot].n
    BY DEF Readable!Real
  <2>5. CASE stage = "backfill"
    <3>1. stage' = "backfill"
      BY <1>10, <2>5, WriteIdIs
    <3>2. \A c \in Kept : id[c] # Readable!Missing
      BY <2>5 DEF Ordered, Kept, Readable!Missing
    <3>3. \A c \in Kept : id'[c] = id[c]
      BY <1>10, <2>5, <3>2, WriteIdIs DEF Kept, Readable!TypeOK
    <3>. QED
      BY <2>2, <2>3, <2>5, <3>1, <3>3 DEF Ordered
  <2>6. CASE stage = "assign"
    <3>1. stage' = stage /\ left' = left /\ ~done
      BY <1>0, <1>10, <2>1, <2>6, NotTaken, WriteIdIs DEF Working
    <3>2. d \in stored => id'[d] = new
      BY <1>10, <2>6, <3>1, WriteIdIs
    <3>3. \A c \in Kept : c # d => id'[c] = id[c]
      BY <1>10, WriteIdIs DEF Kept, Readable!TypeOK
    <3>4. \A c : Written(c)' = (c \notin left)
      BY <2>1, <3>1 DEF Written
    <3>5. \A c : Written(c) = (c \notin left /\ c # d)
      BY <2>1 DEF Written
    <3>6. \A c \in Kept : c \in stored
      BY DEF Kept
    <3>. HIDE DEF d, new
    <3>7. \A c \in Kept : c \notin left => id'[c].is = "real"
      BY <2>4, <2>6, <3>2, <3>3, <3>5, <3>6 DEF Ordered
    <3>8. ASSUME NEW a \in Kept, NEW b \in Kept, Before(a, b), a \notin left, b \notin left
          PROVE  id'[a].n < id'[b].n
      <4>1. a # d
        BY <2>6, <3>5, <3>8 DEF Ordered
      <4>2. CASE b # d
        BY <2>6, <3>3, <3>5, <3>8, <4>1, <4>2 DEF Ordered
      <4>3. CASE b = d
        BY <2>1, <2>4, <2>6, <3>2, <3>3, <3>6, <3>8, <4>1, <4>3 DEF Ordered, d
      <4>. QED
        BY <4>2, <4>3
    <3>9. \A a, b \in Kept : Before(a, b) /\ b \notin left => a \notin left
      BY <2>6, <3>5 DEF Ordered
    <3>. QED
      BY <2>1, <2>2, <2>3, <2>6, <3>1, <3>4, <3>7, <3>8, <3>9 DEF Ordered
  <2>. QED
    BY <1>10, <2>5, <2>6, WriteIdIs
<1>11. ASSUME Readable!BackfillDone PROVE Ordered'
  BY <1>11 DEF Readable!BackfillDone, Ordered, Kept, Before, Readable!Finished
<1>12. ASSUME Readable!BuildIndex PROVE Ordered'
  BY <1>12 DEF Readable!BuildIndex, Ordered, Kept, Before
<1>13. ASSUME Readable!CheckFlag PROVE Ordered'
  <2>1. UNCHANGED <<id, stored, done, original, work>> /\ stage = "flag"
    BY <1>13 DEF Readable!CheckFlag
  <2>2. Kept' = Kept
    BY <2>1 DEF Kept
  <2>3. CASE done
    <3>1. stage' = "final"
      BY <1>13, <2>3 DEF Readable!CheckFlag
    <3>2. \A a, b : Before(a, b)' = Before(a, b)
      BY <2>1 DEF Before
    <3>. QED
      BY <2>1, <2>2, <2>3, <3>1, <3>2 DEF Ordered
  <2>4. CASE ~done
    <3>1. stage' = "park" /\ listed' = stored
      BY <1>13, <2>4 DEF Readable!CheckFlag
    <3>2. ASSUME NEW c \in Kept PROVE rank'[c] = original[c].n
      <4>1. id[c] = original[c] /\ id[c].is = "real" /\ c \in Cases
        BY <2>1, <2>4, <3>2 DEF Ordered, Kept, Readable!TypeOK
      <4>2. id[c] # Readable!Parked
        BY <4>1 DEF Readable!Parked
      <4>3. rank'[c] = id[c].n \/ id[c] = Readable!Parked
        BY <1>13, <2>4, <4>1 DEF Readable!CheckFlag
      <4>. QED
        BY <4>1, <4>2, <4>3
    <3>. QED
      BY <2>1, <2>2, <2>4, <3>1, <3>2 DEF Ordered, Kept
  <2>. QED
    BY <2>3, <2>4
<1>14. ASSUME NEW c \in Cases, Readable!Park(c) PROVE Ordered'
  <2>1. UNCHANGED <<stored, done, stage, listed, rank, original, work>> /\ stage = "park" /\ ~done
    BY <1>14 DEF Readable!Park, Working
  <2>. QED
    BY <2>1 DEF Ordered, Kept
<1>15. ASSUME Readable!ParkDone PROVE Ordered'
  <2>1. UNCHANGED <<id, stored, done, listed, rank, original>> /\ stage = "park" /\ stage' = "assign" /\ left' = listed /\ ~done
    BY <1>15 DEF Readable!ParkDone, Readable!Finished, Working
  <2>2. ~Busy(Boot)'
    BY <1>0, <1>15, FreedIs DEF Busy
  <2>3. Kept' = Kept /\ Kept \subseteq left'
    BY <2>1 DEF Ordered, Kept
  <2>. QED
    BY <2>1, <2>2, <2>3 DEF Ordered, Written, Numbered, Busy
<1>16. ASSUME Readable!AssignDone PROVE Ordered'
  <2>1. UNCHANGED <<id, stored, done, rank, original, work>> /\ stage = "assign" /\ stage' = "mark" /\ left = {} /\ ~Busy(Boot)
    BY <1>16 DEF Readable!AssignDone, Readable!Finished, Readable!At, Busy
  <2>2. \A c : Written(c)
    BY <2>1 DEF Written
  <2>3. ~done /\ ~done'
    BY <2>1 DEF Working
  <2>4. Kept' = Kept /\ \A a, b : Before(a, b)' = Before(a, b)
    BY <2>1 DEF Kept, Before
  <2>. QED
    BY <2>1, <2>2, <2>3, <2>4 DEF Ordered
<1>17. ASSUME Readable!MarkDone PROVE Ordered'
  BY <1>17 DEF Readable!MarkDone, Ordered, Kept, Before
<1>18. ASSUME Readable!RepairDone PROVE Ordered'
  BY <1>18 DEF Readable!RepairDone, Ordered, Kept, Before, Readable!Finished, Working
<1>19. ASSUME Readable!Crash PROVE Ordered'
  BY <1>19 DEF Readable!Crash, Readable!TypeOK, Readable!IdsAssumption
<1>20. ASSUME UNCHANGED Readable!vars PROVE Ordered'
  BY <1>20 DEF Readable!vars, Ordered, Kept, Before, Written, Busy, Numbered
<1>. QED
  BY <1>1, <1>2, <1>3, <1>4, <1>5, <1>6, <1>7, <1>8, <1>9, <1>10, <1>11, <1>12, <1>13, <1>14, <1>15, <1>16, <1>17, <1>18, <1>19, <1>20 DEF Readable!Next, Readable!Allocate, Readable!EnsureIndexes

\* The ids before the first start and the crashes are remembered.
LEMMA OriginalStays ==
  ASSUME Readable!IdsAssumption, Readable!TypeOK, [Readable!Next]_(Readable!vars)
  PROVE  original' = original /\ (crashes' = 0 => crashes = 0)
<1>1. ASSUME NEW t \in Readable!Threads, Readable!ReadPrefix(t) PROVE original' = original /\ (crashes' = 0 => crashes = 0)
  BY <1>1 DEF Readable!ReadPrefix, Readable!hist, Readable!TypeOK, Readable!IdsAssumption
<1>2. ASSUME NEW t \in Readable!Threads, Readable!ClaimPrefix(t) PROVE original' = original /\ (crashes' = 0 => crashes = 0)
  BY <1>2 DEF Readable!ClaimPrefix, Readable!hist, Readable!TypeOK, Readable!IdsAssumption
<1>3. ASSUME NEW t \in Readable!Threads, Readable!Count(t) PROVE original' = original /\ (crashes' = 0 => crashes = 0)
  BY <1>3 DEF Readable!Count, Readable!hist, Readable!TypeOK, Readable!IdsAssumption
<1>4. ASSUME NEW t \in Readable!Threads, Readable!LookTaken(t) PROVE original' = original /\ (crashes' = 0 => crashes = 0)
  BY <1>4 DEF Readable!LookTaken, Readable!hist, Readable!TypeOK, Readable!IdsAssumption
<1>5. ASSUME NEW t \in Clients, NEW c \in Cases, Readable!BeginCreate(t, c) PROVE original' = original /\ (crashes' = 0 => crashes = 0)
  BY <1>5 DEF Readable!BeginCreate, Readable!hist, Readable!TypeOK, Readable!IdsAssumption
<1>6. ASSUME NEW t \in Clients, Readable!InsertCase(t) PROVE original' = original /\ (crashes' = 0 => crashes = 0)
  BY <1>6 DEF Readable!InsertCase, Readable!hist, Readable!TypeOK, Readable!IdsAssumption
<1>7. ASSUME NEW c \in Cases, Readable!DeleteCase(c) PROVE original' = original /\ (crashes' = 0 => crashes = 0)
  BY <1>7 DEF Readable!DeleteCase, Readable!hist, Readable!TypeOK, Readable!IdsAssumption
<1>8. ASSUME Readable!Start PROVE original' = original /\ (crashes' = 0 => crashes = 0)
  BY <1>8 DEF Readable!Start, Readable!hist, Readable!TypeOK, Readable!IdsAssumption
<1>9. ASSUME NEW c \in Cases, Readable!Pick(c) PROVE original' = original /\ (crashes' = 0 => crashes = 0)
  BY <1>9 DEF Readable!Pick, Readable!hist, Readable!TypeOK, Readable!IdsAssumption
<1>10. ASSUME Readable!WriteId PROVE original' = original /\ (crashes' = 0 => crashes = 0)
  BY <1>10 DEF Readable!WriteId, Readable!hist, Readable!TypeOK, Readable!IdsAssumption
<1>11. ASSUME Readable!BackfillDone PROVE original' = original /\ (crashes' = 0 => crashes = 0)
  BY <1>11 DEF Readable!BackfillDone, Readable!hist, Readable!TypeOK, Readable!IdsAssumption
<1>12. ASSUME Readable!BuildIndex PROVE original' = original /\ (crashes' = 0 => crashes = 0)
  BY <1>12 DEF Readable!BuildIndex, Readable!hist, Readable!TypeOK, Readable!IdsAssumption
<1>13. ASSUME Readable!CheckFlag PROVE original' = original /\ (crashes' = 0 => crashes = 0)
  BY <1>13 DEF Readable!CheckFlag, Readable!hist, Readable!TypeOK, Readable!IdsAssumption
<1>14. ASSUME NEW c \in Cases, Readable!Park(c) PROVE original' = original /\ (crashes' = 0 => crashes = 0)
  BY <1>14 DEF Readable!Park, Readable!hist, Readable!TypeOK, Readable!IdsAssumption
<1>15. ASSUME Readable!ParkDone PROVE original' = original /\ (crashes' = 0 => crashes = 0)
  BY <1>15 DEF Readable!ParkDone, Readable!hist, Readable!TypeOK, Readable!IdsAssumption
<1>16. ASSUME Readable!AssignDone PROVE original' = original /\ (crashes' = 0 => crashes = 0)
  BY <1>16 DEF Readable!AssignDone, Readable!hist, Readable!TypeOK, Readable!IdsAssumption
<1>17. ASSUME Readable!MarkDone PROVE original' = original /\ (crashes' = 0 => crashes = 0)
  BY <1>17 DEF Readable!MarkDone, Readable!hist, Readable!TypeOK, Readable!IdsAssumption
<1>18. ASSUME Readable!RepairDone PROVE original' = original /\ (crashes' = 0 => crashes = 0)
  BY <1>18 DEF Readable!RepairDone, Readable!hist, Readable!TypeOK, Readable!IdsAssumption
<1>19. ASSUME Readable!Crash PROVE original' = original /\ (crashes' = 0 => crashes = 0)
  BY <1>19 DEF Readable!Crash, Readable!hist, Readable!TypeOK, Readable!IdsAssumption
<1>20. ASSUME UNCHANGED Readable!vars PROVE original' = original /\ (crashes' = 0 => crashes = 0)
  BY <1>20 DEF Readable!vars, Readable!hist
<1>. QED
  BY <1>1, <1>2, <1>3, <1>4, <1>5, <1>6, <1>7, <1>8, <1>9, <1>10, <1>11, <1>12, <1>13, <1>14, <1>15, <1>16, <1>17, <1>18, <1>19, <1>20 DEF Readable!Next, Readable!Allocate, Readable!EnsureIndexes

\* The invariant holds at first.
LEMMA IdsInit ==
  ASSUME Readable!IdsAssumption, Readable!Init
  PROVE  IdsInv
<1>1. Readable!TypeOK
  BY TypeInit
<1>2. /\ \A t \in Readable!Threads : work[t].at = "idle" /\ work[t].case = Boot
      /\ stage = "down" /\ left = {} /\ done = FALSE /\ id = original /\ (\A g \in Groups : prefix[g] = 0)
  BY EntryIs DEF Readable!Init
<1>3. Working /\ Numbers /\ Prefixes /\ Issued
  BY <1>2 DEF Working, Numbers, Prefixes, Issued, Busy, Numbered, Prefixed, Renumbered, Readable!Threads
<1>4. ParkedAhead /\ Ordered
  BY <1>2 DEF ParkedAhead, Ordered
<1>5. Preserved
  <2>1. \A c \in Legacy : legacy[c] = Readable!Missing
    BY DEF Readable!Init, Readable!IdsAssumption
  <2>. QED
    BY <1>2, <2>1 DEF Preserved, Renumbered
<1>6. Originals
  <2>1. CASE id = [c \in Cases |-> Readable!Missing]
    BY <1>2, <2>1 DEF Originals
  <2>2. CASE \E f \in [Legacy -> 1 .. Readable!Cardinality(Legacy)] :
               id = [c \in Cases |-> IF c \in Legacy THEN Readable!Real(1, f[c]) ELSE Readable!Missing]
    BY <1>2, <2>2 DEF Originals, Readable!Real, Readable!IdsAssumption
  <2>. QED
    BY <2>1, <2>2 DEF Readable!Init
<1>. QED
  BY <1>1, <1>3, <1>4, <1>5, <1>6 DEF IdsInv

\* A step keeps the invariant.
LEMMA IdsStep ==
  ASSUME Readable!IdsAssumption, IdsInv, [Readable!Next]_(Readable!vars)
  PROVE  IdsInv'
<1>. USE DEF IdsInv
<1>1. Readable!TypeOK' /\ Working' /\ ParkedAhead' /\ Preserved' /\ Numbers'
  BY TypeStep, WorkingStep, ParkedAheadStep, PreservedStep, NumbersStep
<1>2. Originals'
  BY OriginalStays DEF Originals
<1>3. ASSUME ~raced' PROVE Prefixes' /\ Issued'
  BY <1>3, RacedStays, PrefixesStep, IssuedStep
<1>4. ASSUME ~raced', crashes' = 0 PROVE Ordered'
  BY <1>4, RacedStays, OriginalStays, OrderedStep
<1>. QED
  BY <1>1, <1>2, <1>3, <1>4

\* The invariant holds throughout, whatever the groups, the cases and the clients.
THEOREM IdsInvariant == Readable!Spec => []IdsInv
<1>1. Readable!Init => IdsInv
  BY ReadableAssumption, IdsInit
<1>2. IdsInv /\ [Readable!Next]_(Readable!vars) => IdsInv'
  BY ReadableAssumption, IdsStep
<1>. QED
  BY <1>1, <1>2, PTL DEF Readable!Spec

\* store/steps_test_cases.py: for any groups, cases, creators and crashes, an id
\* that create_case is about to write is free once the renumbering is done, every
\* old id is in display_id_legacy, the new ids of a group are in the order of the
\* old ones unless a crash interrupted, and no case stays on a parking id.
THEOREM IdsAreSound == Readable!Spec => []IdsSound
<1>1. IdsInv => Readable!TypeOK
  BY DEF IdsInv
<1>2. IdsInv => Readable!IdsFree
  <2>1. SUFFICES ASSUME IdsInv, done, ~raced, NEW t \in Clients, Readable!At(t, "write")
                 PROVE  ~Readable!Taken(Readable!Real(work[t].prefix, work[t].n))
    BY DEF Readable!IdsFree
  <2>2. Numbered(t) /\ t \in Readable!Threads
    BY <2>1 DEF Readable!At, Numbered, Readable!Threads
  <2>. QED
    BY <2>1, <2>2, ReadableAssumption, NotTaken DEF IdsInv
<1>3. IdsInv => Readable!LegacyKept
  BY DEF IdsInv, Readable!LegacyKept, Preserved, Renumbered
<1>4. IdsInv => Readable!OrderKept
  <2>1. SUFFICES ASSUME IdsInv, done, crashes = 0, ~raced, NEW c \in Legacy \cap stored, NEW d \in Legacy \cap stored,
                        GroupOf[c] = GroupOf[d], original[c].n < original[d].n
                 PROVE  id[c].n < id[d].n
    BY DEF Readable!OrderKept
  <2>2. original[c].is = "real" /\ original[d].is = "real"
    <3>1. c \in Cases /\ d \in Cases
      BY ReadableAssumption DEF Readable!IdsAssumption
    <3>2. ~(original[c] = Readable!Missing /\ original[d] = Readable!Missing)
      BY <2>1 DEF Readable!Missing
    <3>. QED
      BY <2>1, <3>1, <3>2 DEF IdsInv, Originals
  <2>. QED
    BY <2>1, <2>2 DEF IdsInv, Ordered, Kept, Before
<1>5. IdsInv => Readable!NoneParked
  BY DEF IdsInv, Readable!NoneParked, ParkedAhead, Working
<1>6. IdsInv => IdsSound
  BY <1>1, <1>2, <1>3, <1>4, <1>5 DEF IdsSound, Readable!IdsSound
<1>. QED
  BY <1>6, IdsInvariant, PTL

\* After the renumbering no step changes an id.
LEMMA IdStays ==
  ASSUME Readable!IdsAssumption, IdsInv, [Readable!Next]_(Readable!vars), done, NEW c \in stored \cap stored', id[c].is = "real"
  PROVE  id'[c] = id[c]
<1>1. ASSUME NEW t \in Readable!Threads, Readable!ReadPrefix(t) PROVE id'[c] = id[c]
  BY <1>1 DEF Readable!ReadPrefix, Readable!caseVars
<1>2. ASSUME NEW t \in Readable!Threads, Readable!ClaimPrefix(t) PROVE id'[c] = id[c]
  BY <1>2 DEF Readable!ClaimPrefix, Readable!caseVars
<1>3. ASSUME NEW t \in Readable!Threads, Readable!Count(t) PROVE id'[c] = id[c]
  BY <1>3 DEF Readable!Count, Readable!caseVars
<1>4. ASSUME NEW t \in Readable!Threads, Readable!LookTaken(t) PROVE id'[c] = id[c]
  BY <1>4 DEF Readable!LookTaken, Readable!caseVars
<1>5. ASSUME NEW t \in Clients, NEW d \in Cases, Readable!BeginCreate(t, d) PROVE id'[c] = id[c]
  BY <1>5 DEF Readable!BeginCreate, Readable!caseVars
<1>6. ASSUME NEW t \in Clients, Readable!InsertCase(t) PROVE id'[c] = id[c]
  BY <1>6, InsertCaseIs DEF IdsInv, Readable!TypeOK
<1>7. ASSUME NEW d \in Cases, Readable!DeleteCase(d) PROVE id'[c] = id[c]
  BY <1>7 DEF Readable!DeleteCase, IdsInv, Readable!TypeOK
<1>8. ASSUME Readable!Start PROVE id'[c] = id[c]
  BY <1>8 DEF Readable!Start, Readable!caseVars
<1>9. ASSUME NEW d \in Cases, Readable!Pick(d) PROVE id'[c] = id[c]
  BY <1>9 DEF Readable!Pick, Readable!caseVars
<1>10. ASSUME Readable!WriteId PROVE id'[c] = id[c]
  <2>1. stage = "backfill"
    BY <1>10, WriteIdIs DEF IdsInv, Working
  <2>2. id[c] # Readable!Missing
    BY DEF Readable!Missing
  <2>. QED
    BY <1>10, <2>1, <2>2, WriteIdIs DEF IdsInv, Readable!TypeOK
<1>11. ASSUME Readable!BackfillDone PROVE id'[c] = id[c]
  BY <1>11 DEF Readable!BackfillDone, Readable!caseVars
<1>12. ASSUME Readable!BuildIndex PROVE id'[c] = id[c]
  BY <1>12 DEF Readable!BuildIndex, Readable!caseVars
<1>13. ASSUME Readable!CheckFlag PROVE id'[c] = id[c]
  BY <1>13 DEF Readable!CheckFlag, Readable!caseVars
<1>14. ASSUME NEW d \in Cases, Readable!Park(d) PROVE id'[c] = id[c]
  BY <1>14 DEF Readable!Park, IdsInv, Working
<1>15. ASSUME Readable!ParkDone PROVE id'[c] = id[c]
  BY <1>15 DEF Readable!ParkDone, Readable!caseVars
<1>16. ASSUME Readable!AssignDone PROVE id'[c] = id[c]
  BY <1>16 DEF Readable!AssignDone, Readable!caseVars
<1>17. ASSUME Readable!MarkDone PROVE id'[c] = id[c]
  BY <1>17 DEF Readable!MarkDone, Readable!caseVars
<1>18. ASSUME Readable!RepairDone PROVE id'[c] = id[c]
  BY <1>18 DEF Readable!RepairDone, Readable!caseVars
<1>19. ASSUME Readable!Crash PROVE id'[c] = id[c]
  BY <1>19 DEF Readable!Crash, Readable!caseVars
<1>20. ASSUME UNCHANGED Readable!vars PROVE id'[c] = id[c]
  BY <1>20 DEF Readable!vars, Readable!caseVars
<1>. QED
  BY <1>1, <1>2, <1>3, <1>4, <1>5, <1>6, <1>7, <1>8, <1>9, <1>10, <1>11, <1>12, <1>13, <1>14, <1>15, <1>16, <1>17, <1>18, <1>19, <1>20 DEF Readable!Next, Readable!Allocate, Readable!EnsureIndexes

\* "one-time": after the renumbering no step, and no restart, changes an id that a
\* case has.
THEOREM IdsAreStable == Readable!Spec => IdsStable
<1>1. IdsInv /\ [Readable!Next]_(Readable!vars) => [\A c \in stored \cap stored' : done /\ id[c].is = "real" => id'[c] = id[c]]_(Readable!vars)
  BY ReadableAssumption, IdStays
<1>. QED
  BY <1>1, IdsInvariant, PTL DEF Readable!Spec, IdsStable, Readable!IdsStable

=============================================================================
