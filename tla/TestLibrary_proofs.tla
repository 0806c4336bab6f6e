------------------------- MODULE TestLibrary_proofs -------------------------
(***************************************************************************)
(* The references of the test library hold for any sets of features,       *)
(* cases, steps and threads and any number of crashes, until a deletion    *)
(* overlaps another request.  And the tests that generation writes into    *)
(* the library are supported, of the operations that the documents name,   *)
(* and there once, whatever documents there are and whatever the models    *)
(* answer.                                                                 *)
(***************************************************************************)
EXTENDS Writing, FiniteSetTheorems, SequenceTheorems, TLAPS

(***************************************************************************)
(* What each point of a request knows of its kind and its parameters.      *)
(***************************************************************************)
Sweeping == {"sweep", "sweep_drop", "rehome"}

Fits(r) ==
  /\ r.at = "idle" => r.op = "none"
  /\ r.at = "lookup" => r.op = "generate" /\ r.feat \in Features
  /\ r.at = "steps" => \/ r.op = "edit" /\ r.case \in Cases
                       \/ r.op \in {"generate", "create"} /\ r.feat \in Features
  /\ r.at = "insert" => r.op \in {"generate", "create"} /\ r.feat \in Features
  /\ r.at = "link" => r.op \in {"generate", "create", "associate"} /\ r.feat \in Features /\ r.case \in Cases
  /\ r.at = "update" => r.op = "edit" /\ r.case \in Cases
  /\ r.at \in {"create_version", "carry"} => r.op = "version" /\ r.feat \in Features
  /\ r.at \in {"count", "drop"} => r.op = "unlink" /\ r.case \in Cases
  /\ r.at \in {"drop_case", "unassoc"} => r.op = "delete_case" /\ r.case \in Cases
  /\ r.at \in {"unlink_all"} \cup Sweeping => r.op \in {"delete_feature", "reset"} /\ r.feat \in Features
  /\ r.at \in {"sweep_drop", "rehome"} => r.case \in r.todo
  /\ r.at = "rehome" => r.op = "delete_feature" /\ r.heir \in Features
  /\ r.at = "drop_feature" => r.op = "delete_feature" /\ r.feat \in Features
  /\ r.at = "drop_step" => r.op = "delete_step"
  /\ r.at \in {"scan", "purge"} => r.op \in {"unlink", "delete_case", "delete_feature", "reset"}

Serving == req \in [Threads -> Request] /\ \A t \in Threads : Fits(req[t])
Typed == TypeOK /\ Serving

\* A request is begun or goes on, and is one that may come to that point.
LEMMA Becomes ==
  ASSUME Serving, NEW t \in Threads, NEW r \in Request, Fits(r), req' = [req EXCEPT ![t] = r]
  PROVE  Serving'
BY DEF Serving

LEMMA IdleFits == Idle \in Request /\ Fits(Idle) /\ Idle.at = "idle" /\ Idle.op = "none"
BY DEF Idle, Request, Fits, Op, Point, Sweeping

LEMMA EndsWell == ASSUME Serving, NEW t \in Threads, End(t) PROVE Serving'
BY IdleFits, Becomes DEF End

LEMMA GoesWell ==
  ASSUME Serving, NEW t \in Threads, NEW point, req' = [req EXCEPT ![t].at = point],
         \/ At(t, "steps") /\ req[t].op = "edit" /\ point = "update"
         \/ At(t, "steps") /\ req[t].op # "edit" /\ point = "insert"
         \/ At(t, "lookup") /\ point = "steps"
         \/ At(t, "create_version") /\ point = "carry"
         \/ At(t, "count") /\ point = "drop"
         \/ At(t, "drop") /\ point = "scan"
         \/ At(t, "drop_case") /\ point = "unassoc"
         \/ At(t, "unassoc") /\ point = "scan"
         \/ At(t, "unlink_all") /\ point = "sweep"
         \/ At(t, "sweep") /\ req[t].op = "reset" /\ point = "scan"
         \/ At(t, "sweep") /\ req[t].op # "reset" /\ point = "drop_feature"
         \/ At(t, "drop_feature") /\ point = "scan"
  PROVE  Serving'
<1> DEFINE r == [req[t] EXCEPT !.at = point]
<1>1. point \in Point
  BY DEF Point
<1>2. r \in Request
  BY <1>1 DEF Serving, Request
<1>3. req[t] \in Request /\ r.at = point /\ r.op = req[t].op /\ r.feat = req[t].feat /\ r.case = req[t].case
      /\ r.todo = req[t].todo /\ r.heir = req[t].heir
  BY DEF Serving, Request
<1>4. Fits(r)
  BY <1>3 DEF Fits, Serving, At, Sweeping
<1>5. req' = [req EXCEPT ![t] = r]
  OBVIOUS
<1>. QED
  BY <1>2, <1>4, <1>5, Becomes

LEMMA InitTyped == Init => Typed
<1> SUFFICES ASSUME Init PROVE Typed
  OBVIOUS
<1>1. Serving
  BY IdleFits DEF Init, Serving
<1>2. \A c \in Cases : case[c] \in Document /\ c \notin StoredCases
  BY DEF Init, No, Document, Presence, StoredCases
<1>3. case \in [Cases -> Document] /\ \A c \in StoredCases : case[c].source \in Features
  BY <1>2 DEF Init, StoredCases
<1>4. feature \in [Features -> Presence] /\ step \in [Steps -> Presence]
  BY DEF Init, Presence
<1>5. crashes \in 0 .. MaxCrashes
  BY LibraryAssumption DEF Init
<1>6. assoc \subseteq Features \X Cases /\ clash \in BOOLEAN /\ torn \subseteq Cases /\ detached \subseteq Cases
  BY DEF Init
<1>. QED
  BY <1>1, <1>3, <1>4, <1>5, <1>6 DEF Typed, TypeOK, Serving

\* No document is written but by these actions.
LEMMA StepServing == Typed /\ [Next]_vars => Serving'
<1> SUFFICES ASSUME Typed, [Next]_vars PROVE Serving'
  OBVIOUS
<1>1. Serving /\ req \in [Threads -> Request]
  BY DEF Typed, Serving
<1>2. ASSUME NEW t \in Threads, NEW f \in Features, BeginGenerate(t, f) \/ BeginCreate(t, f) PROVE Serving'
  <2> DEFINE q == [Idle EXCEPT !.op = "generate", !.at = "lookup", !.feat = f]
             r == [Idle EXCEPT !.op = "create", !.at = "steps", !.feat = f]
  <2>1. q \in Request /\ r \in Request
    BY DEF Idle, Request, Op, Point
  <2>2. Fits(q) /\ Fits(r)
    BY DEF Idle, Fits, Sweeping
  <2>. QED
    BY <1>1, <1>2, <2>1, <2>2, Becomes DEF BeginGenerate, BeginCreate, Begin
<1>3. ASSUME NEW t \in Threads, NEW c \in Cases, BeginEdit(t, c) PROVE Serving'
  <2>1. PICK kept \in SUBSET case[c].steps :
           req' = [req EXCEPT ![t] = [Idle EXCEPT !.op = "edit", !.at = "steps", !.case = c, !.steps = kept]]
    BY <1>3 DEF BeginEdit, Begin
  <2> DEFINE r == [Idle EXCEPT !.op = "edit", !.at = "steps", !.case = c, !.steps = kept]
  <2>2. kept \subseteq Steps
    BY DEF Typed, TypeOK, Document
  <2>3. r \in Request
    BY <2>2 DEF Idle, Request, Op, Point
  <2>4. Fits(r)
    BY DEF Idle, Fits, Sweeping
  <2>. QED
    BY <1>1, <2>1, <2>3, <2>4, Becomes
<1>4. ASSUME NEW t \in Threads, NEW f \in Features, NEW c \in Cases, BeginAssociate(t, f, c) PROVE Serving'
  <2> DEFINE r == [Idle EXCEPT !.op = "associate", !.at = "link", !.feat = f, !.case = c]
  <2>1. r \in Request
    BY DEF Idle, Request, Op, Point
  <2>2. Fits(r)
    BY DEF Idle, Fits, Sweeping
  <2>. QED
    BY <1>1, <1>4, <2>1, <2>2, Becomes DEF BeginAssociate, Begin
\* A case to link.
<1>5. ASSUME NEW t \in Threads, NEW c \in Cases, req' = [req EXCEPT ![t].at = "link", ![t].case = c],
             req[t].op \in {"generate", "create"}, req[t].feat \in Features
      PROVE Serving'
  <2> DEFINE r == [req[t] EXCEPT !.at = "link", !.case = c]
  <2>1. r \in Request
    BY <1>1, ZenonT(30) DEF Request, Point
  <2>2. r.at = "link" /\ r.op = req[t].op /\ r.feat = req[t].feat /\ r.case = c
    BY <1>1 DEF Request
  <2>3. Fits(r)
    BY <1>5, <2>2 DEF Fits, Sweeping
  <2>4. req' = [req EXCEPT ![t] = r]
    BY <1>1, <1>5
  <2>. QED
    BY <1>1, <2>1, <2>3, <2>4, Becomes
<1>6. ASSUME NEW t \in Threads, Lookup(t) PROVE Serving'
  <2>1. req[t].op = "generate" /\ req[t].feat \in Features
    BY <1>1, <1>6 DEF Lookup, At, Serving, Fits
  <2>2. CASE \E c \in StoredCases : req' = [req EXCEPT ![t].at = "link", ![t].case = c]
    BY <1>5, <2>1, <2>2 DEF StoredCases
  <2>3. CASE req' = [req EXCEPT ![t].at = "steps"]
    BY <1>1, <1>6, <2>3, GoesWell DEF Lookup
  <2>. QED
    BY <1>6, <2>2, <2>3 DEF Lookup
\* Steps are collected.
<1>7. ASSUME NEW t \in Threads, NEW s \in Steps, ReuseStep(t, s) \/ NewStep(t, s) PROVE Serving'
  <2> DEFINE r == [req[t] EXCEPT !.steps = @ \cup {s}]
  <2>1. r \in Request
    BY <1>1 DEF Request
  <2>2. r.at = "steps" /\ r.at = req[t].at /\ r.op = req[t].op /\ r.feat = req[t].feat /\ r.case = req[t].case
    BY <1>1, <1>7 DEF Request, ReuseStep, NewStep, At
  <2>3. Fits(r)
    BY <1>1, <2>2 DEF Fits, Serving, Sweeping
  <2>4. req' = [req EXCEPT ![t] = r]
    BY <1>1, <1>7 DEF ReuseStep, NewStep
  <2>. QED
    BY <1>1, <2>1, <2>3, <2>4, Becomes
<1>8. ASSUME NEW t \in Threads, StepsDone(t) PROVE Serving'
  <2>1. At(t, "steps") /\ (req[t].op # "edit" => req[t].op \in {"generate", "create"} /\ req[t].feat \in Features)
    BY <1>1, <1>8 DEF StepsDone, At, Serving, Fits
  <2>2. CASE req[t].op = "generate" /\ \E c \in StoredCases : req' = [req EXCEPT ![t].at = "link", ![t].case = c]
    BY <1>5, <2>1, <2>2 DEF StoredCases
  <2>. QED
    BY <1>1, <1>8, <2>1, <2>2, GoesWell DEF StepsDone, Goto
<1>9. ASSUME NEW t \in Threads, NEW c \in Cases, InsertCase(t, c) PROVE Serving'
  <2>1. req[t].op \in {"generate", "create"} /\ req[t].feat \in Features
    BY <1>1, <1>9 DEF InsertCase, At, Serving, Fits
  <2>. QED
    BY <1>5, <1>9, <2>1 DEF InsertCase
<1>10. ASSUME NEW t \in Threads, Link(t) PROVE Serving'
  <2>1. CASE End(t)
    BY <1>1, <2>1, EndsWell
  <2>2. CASE req' = [req EXCEPT ![t] = [Idle EXCEPT !.op = "generate", !.at = "lookup", !.feat = req[t].feat]]
    <3> DEFINE r == [Idle EXCEPT !.op = "generate", !.at = "lookup", !.feat = req[t].feat]
    <3>1. req[t].feat \in Features
      BY <1>1, <1>10 DEF Link, At, Serving, Fits
    <3>2. r \in Request
      BY <3>1 DEF Idle, Request, Op, Point
    <3>3. Fits(r)
      BY <3>1 DEF Idle, Fits, Sweeping
    <3>. QED
      BY <1>1, <2>2, <3>2, <3>3, Becomes
  <2>. QED
    BY <1>10, <2>1, <2>2 DEF Link
<1>11. ASSUME NEW t \in Threads, UpdateCase(t) \/ DeleteStep(t) \/ Purge(t) PROVE Serving'
  BY <1>1, <1>11, EndsWell DEF UpdateCase, DeleteStep, Purge
<1>12. ASSUME NEW t \in Threads, NEW f \in Features, NEW g \in Features, BeginVersion(t, f, g) PROVE Serving'
  <2>1. PICK kept \in SUBSET CasesOf(f) :
           req' = [req EXCEPT ![t] = [Idle EXCEPT !.op = "version", !.at = "create_version", !.feat = g, !.todo = kept]]
    BY <1>12 DEF BeginVersion, Begin
  <2> DEFINE r == [Idle EXCEPT !.op = "version", !.at = "create_version", !.feat = g, !.todo = kept]
  <2>2. kept \subseteq Cases
    BY DEF CasesOf
  <2>3. r \in Request
    BY <2>2 DEF Idle, Request, Op, Point
  <2>4. Fits(r)
    BY DEF Idle, Fits, Sweeping
  <2>. QED
    BY <1>1, <2>1, <2>3, <2>4, Becomes
\* One of the cases is done with.
<1>13. ASSUME NEW t \in Threads, NEW c, req' = [req EXCEPT ![t].todo = @ \ {c}], At(t, "carry") \/ At(t, "sweep")
       PROVE Serving'
  <2> DEFINE r == [req[t] EXCEPT !.todo = @ \ {c}]
  <2>1. r \in Request
    BY <1>1 DEF Request
  <2>2. r.at = req[t].at /\ r.op = req[t].op /\ r.feat = req[t].feat
    BY <1>1 DEF Request
  <2>3. Fits(r)
    BY <1>1, <1>13, <2>2 DEF Fits, Serving, At, Sweeping
  <2>4. req' = [req EXCEPT ![t] = r]
    BY <1>1, <1>13
  <2>. QED
    BY <1>1, <2>1, <2>3, <2>4, Becomes
<1>14. ASSUME NEW t \in Threads, Carry(t) PROVE Serving'
  BY <1>1, <1>13, <1>14, EndsWell DEF Carry
<1>15. ASSUME NEW t \in Threads,
              \/ CreateVersion(t) \/ DropUnlinked(t) \/ DeleteCase(t) \/ DeleteLinks(t) \/ UnlinkAll(t)
              \/ SweepDone(t) \/ DropFeature(t)
       PROVE Serving'
  BY <1>1, <1>15, GoesWell DEF CreateVersion, DropUnlinked, DeleteCase, DeleteLinks, UnlinkAll, SweepDone, DropFeature, Goto
<1>16. ASSUME NEW t \in Threads, CountLinks(t) PROVE Serving'
  BY <1>1, <1>16, GoesWell, EndsWell DEF CountLinks, Goto
<1>17. ASSUME NEW t \in Threads, NEW c \in Cases, NEW op, NEW point, (op = "unlink" /\ point = "count")
              \/ (op = "delete_case" /\ point = "drop_case"), Begin(t, [Idle EXCEPT !.op = op, !.at = point, !.case = c])
       PROVE Serving'
  <2> DEFINE r == [Idle EXCEPT !.op = op, !.at = point, !.case = c]
  <2>1. r \in Request
    BY <1>17 DEF Idle, Request, Op, Point, Deletion
  <2>2. Fits(r)
    BY <1>17 DEF Idle, Fits, Sweeping
  <2>. QED
    BY <1>1, <1>17, <2>1, <2>2, Becomes DEF Begin
<1>18. ASSUME NEW t \in Threads, NEW f \in Features, NEW op, BeginClear(t, f, op) PROVE Serving'
  <2> DEFINE r == [Idle EXCEPT !.op = op, !.at = "unlink_all", !.feat = f, !.todo = CasesOf(f)]
  <2>1. r \in Request
    BY <1>18 DEF BeginClear, Idle, Request, Op, Point, Deletion, CasesOf
  <2>2. Fits(r)
    BY <1>18 DEF BeginClear, Idle, Fits, Sweeping
  <2>. QED
    BY <1>1, <1>18, <2>1, <2>2, Becomes DEF BeginClear, Begin
<1>19. ASSUME NEW t \in Threads, NEW s \in Steps, BeginDeleteStep(t, s) PROVE Serving'
  <2> DEFINE r == [Idle EXCEPT !.op = "delete_step", !.at = "drop_step", !.steps = {s}]
  <2>1. r \in Request
    BY DEF Idle, Request, Op, Point, Deletion
  <2>2. Fits(r)
    BY DEF Idle, Fits, Sweeping
  <2>. QED
    BY <1>1, <1>19, <2>1, <2>2, Becomes DEF BeginDeleteStep, Begin
<1>20. ASSUME NEW t \in Threads, NEW c \in Cases, SweepNext(t, c) PROVE Serving'
  <2>1. At(t, "sweep") /\ req[t].feat \in Features /\ req[t].op \in {"delete_feature", "reset"} /\ c \in req[t].todo
    BY <1>1, <1>20 DEF SweepNext, At, Serving, Fits, Sweeping
  <2>2. ASSUME NEW h \in Features \cup {None}, NEW point,
               point = "sweep_drop" \/ (point = "rehome" /\ req[t].op = "delete_feature" /\ h \in Features),
               req' = [req EXCEPT ![t].at = point, ![t].case = c, ![t].heir = h]
        PROVE  Serving'
    <3> DEFINE r == [req[t] EXCEPT !.at = point, !.case = c, !.heir = h]
    <3>1. r \in Request
      BY <1>1, <2>2, ZenonT(30) DEF Request, Point
    <3>2. r.at = point /\ r.op = req[t].op /\ r.feat = req[t].feat /\ r.case = c /\ r.heir = h /\ r.todo = req[t].todo
      BY <1>1 DEF Request
    <3>3. Fits(r)
      BY <2>1, <2>2, <3>2 DEF Fits, Sweeping
    <3>4. req' = [req EXCEPT ![t] = r]
      BY <1>1, <2>2
    <3>. QED
      BY <1>1, <3>1, <3>3, <3>4, Becomes
  <2>3. CASE req' = [req EXCEPT ![t].at = "sweep_drop", ![t].case = c]
    <3>1. req' = [req EXCEPT ![t].at = "sweep_drop", ![t].case = c, ![t].heir = req[t].heir]
      BY <1>1, <2>3 DEF Request
    <3>2. req[t].heir \in Features \cup {None}
      BY <1>1 DEF Request
    <3>. QED
      BY <2>2, <3>1, <3>2
  <2>4. CASE req' = [req EXCEPT ![t].todo = @ \ {c}]
    BY <1>13, <2>1, <2>4
  <2>5. CASE req[t].op # "reset" /\ \E h \in LinksOf(c) :
                 req' = [req EXCEPT ![t].at = "rehome", ![t].case = c, ![t].heir = h]
    BY <2>1, <2>2, <2>5 DEF LinksOf
  <2>. QED
    BY <1>20, <2>3, <2>4, <2>5 DEF SweepNext
<1>21. ASSUME NEW t \in Threads, SweepDrop(t) \/ Rehome(t) PROVE Serving'
  <2> DEFINE r == [req[t] EXCEPT !.at = "sweep", !.todo = @ \ {req[t].case}]
  <2>1. r \in Request
    BY <1>1, ZenonT(30) DEF Request, Point
  <2>2. r.at = "sweep" /\ r.op = req[t].op /\ r.feat = req[t].feat
    BY <1>1 DEF Request
  <2>3. Fits(r)
    BY <1>1, <1>21, <2>2 DEF SweepDrop, Rehome, At, Fits, Serving, Sweeping
  <2>4. req' = [req EXCEPT ![t] = r]
    BY <1>1, <1>21 DEF SweepDrop, Rehome
  <2>. QED
    BY <1>1, <2>1, <2>3, <2>4, Becomes
<1>22. ASSUME NEW t \in Threads, Scan(t) PROVE Serving'
  <2> DEFINE r == [req[t] EXCEPT !.at = "purge", !.steps = Referenced]
  <2>1. Referenced \subseteq Steps
    BY DEF Typed, TypeOK, Document, Referenced, StoredCases
  <2>2. r \in Request
    BY <1>1, <2>1, ZenonT(30) DEF Request, Point
  <2>3. r.at = "purge" /\ r.op = req[t].op
    BY <1>1 DEF Request
  <2>4. Fits(r)
    BY <1>1, <1>22, <2>3 DEF Scan, At, Fits, Serving, Sweeping
  <2>5. req' = [req EXCEPT ![t] = r]
    BY <1>1, <1>22 DEF Scan
  <2>. QED
    BY <1>1, <2>2, <2>4, <2>5, Becomes
<1>23. ASSUME UNCHANGED req PROVE Serving'
  BY <1>1, <1>23 DEF Serving
<1>24. ASSUME Crash PROVE Serving'
  BY <1>24, IdleFits DEF Crash, Serving
<1>25. ASSUME NEW t \in Threads, Build(t) PROVE Serving'
  BY <1>2, <1>3, <1>4, <1>6, <1>7, <1>8, <1>9, <1>10, <1>11, <1>25 DEF Build
<1>26. ASSUME NEW t \in Threads, Versioning(t) PROVE Serving'
  BY <1>12, <1>14, <1>15, <1>26 DEF Versioning
<1>27. ASSUME NEW t \in Threads, Delete(t) PROVE Serving'
  <2>1. ASSUME NEW f \in Features, NEW c \in Cases, BeginUnlink(t, f, c) PROVE Serving'
    BY <2>1, <1>17 DEF BeginUnlink
  <2>2. ASSUME NEW c \in Cases, NEW force \in BOOLEAN, BeginDeleteCase(t, c, force) PROVE Serving'
    BY <2>2, <1>17 DEF BeginDeleteCase
  <2>. QED
    BY <2>1, <2>2, <1>11, <1>15, <1>16, <1>18, <1>19, <1>20, <1>21, <1>22, <1>27 DEF Delete
<1>. QED
  BY <1>23, <1>24, <1>25, <1>26, <1>27 DEF Next, CreateStep, vars

\* A case document is written, its source a feature.
LEMMA StepDocuments == Typed /\ [Next]_vars => (case \in [Cases -> Document] /\ \A c \in StoredCases : case[c].source \in Features)'
<1> SUFFICES ASSUME Typed, [Next]_vars
             PROVE  case' \in [Cases -> Document] /\ \A c \in StoredCases' : case'[c].source \in Features
  OBVIOUS
<1>1. /\ case \in [Cases -> Document] /\ req \in [Threads -> Request] /\ \A t \in Threads : Fits(req[t])
      /\ \A c \in Cases : case[c].is = "stored" => case[c].source \in Features
  BY DEF Typed, TypeOK, Serving, StoredCases
<1>2. CASE UNCHANGED case
  BY <1>1, <1>2 DEF StoredCases
<1>3. ASSUME NEW c \in Cases, NEW d \in Document, d.is = "stored" => d.source \in Features,
             case' = [case EXCEPT ![c] = d]
      PROVE  case' \in [Cases -> Document] /\ \A k \in StoredCases' : case'[k].source \in Features
  BY <1>1, <1>3 DEF StoredCases
<1>4. ASSUME NEW t \in Threads, NEW c \in Cases, InsertCase(t, c)
      PROVE  case' \in [Cases -> Document] /\ \A k \in StoredCases' : case'[k].source \in Features
  <2> DEFINE d == [is |-> "stored", steps |-> req[t].steps, source |-> req[t].feat]
  <2>1. req[t].feat \in Features /\ req[t].steps \subseteq Steps
    BY <1>1, <1>4 DEF InsertCase, At, Fits, Request
  <2>2. d \in Document /\ d.source \in Features
    BY <2>1 DEF Document, Presence
  <2>. QED
    BY <1>3, <1>4, <2>2 DEF InsertCase
<1>5. ASSUME NEW t \in Threads, UpdateCase(t), req[t].case \in StoredCases
      PROVE  case' \in [Cases -> Document] /\ \A k \in StoredCases' : case'[k].source \in Features
  <2> DEFINE c == req[t].case  d == [case[c] EXCEPT !.steps = req[t].steps]
  <2>1. c \in Cases /\ case[c] \in Document /\ req[t].steps \subseteq Steps
    BY <1>1, <1>5 DEF StoredCases, Request
  <2>2. d \in Document /\ d.source = case[c].source
    BY <2>1 DEF Document
  <2>3. case' = [case EXCEPT ![c] = d]
    BY <1>5 DEF UpdateCase
  <2>4. case[c].source \in Features
    BY <1>1, <1>5 DEF StoredCases
  <2>. HIDE DEF c, d
  <2>. QED
    BY <1>3, <2>1, <2>2, <2>3, <2>4
<1>6. ASSUME NEW c, DropCase(c)
      PROVE  case' \in [Cases -> Document] /\ \A k \in StoredCases' : case'[k].source \in Features
  <2>1. No("gone") \in Document /\ No("gone").is = "gone"
    BY DEF No, Document, Presence
  <2>2. CASE c \in StoredCases
    BY <1>3, <1>6, <2>1, <2>2 DEF DropCase, StoredCases
  <2>3. CASE c \notin StoredCases
    BY <1>2, <1>6, <2>3 DEF DropCase
  <2>. QED
    BY <2>2, <2>3
<1>7. ASSUME NEW t \in Threads, Rehome(t)
      PROVE  case' \in [Cases -> Document] /\ \A k \in StoredCases' : case'[k].source \in Features
  <2>1. CASE req[t].case \in StoredCases /\ case[req[t].case].source = req[t].feat
    <3> DEFINE c == req[t].case  d == [case[c] EXCEPT !.source = req[t].heir]
    <3>1. c \in Cases /\ case[c] \in Document /\ req[t].heir \in Features
      BY <1>1, <1>7, <2>1 DEF StoredCases, Rehome, At, Fits
    <3>2. d \in Document /\ d.source \in Features
      BY <3>1 DEF Document
    <3>3. case' = [case EXCEPT ![c] = d]
      BY <1>7, <2>1 DEF Rehome
    <3>. HIDE DEF c, d
    <3>. QED
      BY <1>3, <3>1, <3>2, <3>3
  <2>2. CASE ~(req[t].case \in StoredCases /\ case[req[t].case].source = req[t].feat)
    BY <1>2, <1>7, <2>2 DEF Rehome
  <2>. QED
    BY <2>1, <2>2
<1>8. ASSUME NEW t \in Threads, UpdateCase(t) \/ DropUnlinked(t) \/ DeleteCase(t) \/ SweepDrop(t)
      PROVE  case' \in [Cases -> Document] /\ \A k \in StoredCases' : case'[k].source \in Features
  BY <1>2, <1>5, <1>6, <1>8 DEF UpdateCase, DropUnlinked, DeleteCase, SweepDrop
<1>9. ASSUME NEW t \in Threads, Build(t) PROVE UNCHANGED case \/ UpdateCase(t) \/ \E c \in Cases : InsertCase(t, c)
  BY <1>9 DEF Build, BeginGenerate, BeginCreate, BeginEdit, BeginAssociate, Lookup, ReuseStep, NewStep, StepsDone,
              Link, dataVars
<1>10. ASSUME NEW t \in Threads, Versioning(t) PROVE UNCHANGED case
  BY <1>10 DEF Versioning, BeginVersion, CreateVersion, Carry, dataVars
<1>11. ASSUME NEW t \in Threads, Delete(t)
       PROVE UNCHANGED case \/ DropUnlinked(t) \/ DeleteCase(t) \/ SweepDrop(t) \/ Rehome(t)
  BY <1>11 DEF Delete, BeginUnlink, CountLinks, BeginDeleteCase, DeleteLinks, BeginClear, UnlinkAll, SweepNext,
               SweepDone, DropFeature, BeginDeleteStep, DeleteStep, Scan, Purge, dataVars
<1>. QED
  BY <1>2, <1>4, <1>7, <1>8, <1>9, <1>10, <1>11 DEF Next, CreateStep, Crash, dataVars, vars

LEMMA StepTyped == Typed /\ [Next]_vars => Typed'
<1> SUFFICES ASSUME Typed, [Next]_vars PROVE Typed'
  OBVIOUS
<1>1. /\ req \in [Threads -> Request] /\ \A t \in Threads : Fits(req[t])
      /\ feature \in [Features -> Presence] /\ step \in [Steps -> Presence] /\ assoc \subseteq Features \X Cases
      /\ case \in [Cases -> Document] /\ crashes \in 0 .. MaxCrashes /\ clash \in BOOLEAN
      /\ torn \subseteq Cases /\ detached \subseteq Cases
  BY DEF Typed, TypeOK, Serving
<1>2. Serving' /\ (case \in [Cases -> Document] /\ \A c \in StoredCases : case[c].source \in Features)'
  BY StepServing, StepDocuments
<1> DEFINE Rest == /\ feature' \in [Features -> Presence] /\ step' \in [Steps -> Presence]
                   /\ assoc' \subseteq Features \X Cases /\ crashes' \in 0 .. MaxCrashes /\ clash' \in BOOLEAN
                   /\ torn' \subseteq Cases /\ detached' \subseteq Cases
<1>3. ASSUME NEW t \in Threads, Build(t) PROVE Rest
  <2>1. Link(t) => req[t].feat \in Features /\ req[t].case \in Cases
    BY <1>1 DEF Link, At, Fits
  <2>2. UNCHANGED <<crashes, torn>>
    BY <1>3 DEF Build, BeginGenerate, BeginCreate, BeginEdit, BeginAssociate, Lookup, ReuseStep, NewStep,
             StepsDone, InsertCase, UpdateCase, Link, Begin, Goto, End, histVars
  <2>3. clash' \in BOOLEAN
    BY <1>1, <1>3 DEF Build, BeginGenerate, BeginCreate, BeginEdit, BeginAssociate, Lookup, ReuseStep, NewStep,
             StepsDone, InsertCase, UpdateCase, Link, Begin, Goto, End, histVars
  <2>4. UNCHANGED <<feature, detached>> /\ (UNCHANGED assoc \/ (Link(t) /\ assoc' = assoc \cup {<<req[t].feat, req[t].case>>}))
    BY <1>3 DEF Build, BeginGenerate, BeginCreate, BeginEdit, BeginAssociate, Lookup, ReuseStep, NewStep,
             StepsDone, InsertCase, UpdateCase, Link, dataVars
  <2>5. step' \in [Steps -> Presence]
    BY <1>1, <1>3 DEF Build, BeginGenerate, BeginCreate, BeginEdit, BeginAssociate, Lookup, ReuseStep, NewStep,
             StepsDone, InsertCase, UpdateCase, Link, dataVars, Presence
  <2>. QED
    BY <1>1, <2>1, <2>2, <2>3, <2>4, <2>5
<1>4. ASSUME NEW t \in Threads, Versioning(t) PROVE Rest
  <2>1. Carry(t) => req[t].feat \in Features /\ req[t].todo \subseteq Cases
    BY <1>1 DEF Carry, At, Fits, Request
  <2>2. UNCHANGED <<crashes, torn>> /\ clash' \in BOOLEAN
    BY <1>1, <1>4 DEF Versioning, BeginVersion, CreateVersion, Carry, Begin, Goto, End, histVars
  <2>3. UNCHANGED <<step, detached>> /\ feature' \in [Features -> Presence]
    BY <1>1, <1>4 DEF Versioning, BeginVersion, CreateVersion, Carry, dataVars, Presence
  <2>4. UNCHANGED assoc \/ (Carry(t) /\ \E c \in req[t].todo : assoc' = assoc \cup {<<req[t].feat, c>>})
    BY <1>4 DEF Versioning, BeginVersion, CreateVersion, Carry, dataVars
  <2>. QED
    BY <1>1, <2>1, <2>2, <2>3, <2>4
<1>5. ASSUME NEW t \in Threads, Delete(t) PROVE Rest
  <2>1. \A f, cs : Authored(f, cs) \subseteq Cases
    BY DEF Authored, StoredCases
  <2>2. step' \in [Steps -> Presence]
    BY <1>1, <1>5 DEF Delete, BeginUnlink, CountLinks, DropUnlinked, BeginDeleteCase, DeleteCase, DeleteLinks, BeginClear,
             UnlinkAll, SweepNext, SweepDrop, Rehome, SweepDone, DropFeature, BeginDeleteStep, DeleteStep, Scan, Purge,
             RemoveSteps, dataVars, Presence
  <2>3. feature' \in [Features -> Presence] /\ assoc' \subseteq Features \X Cases /\ detached' \subseteq Cases
    BY <1>1, <1>5, <2>1 DEF Delete, BeginUnlink, CountLinks, DropUnlinked, BeginDeleteCase, DeleteCase, DeleteLinks, BeginClear,
             UnlinkAll, SweepNext, SweepDrop, Rehome, SweepDone, DropFeature, BeginDeleteStep, DeleteStep, Scan, Purge,
             dataVars, Presence
  <2>4. UNCHANGED <<crashes, torn>> /\ clash' \in BOOLEAN
    BY <1>1, <1>5 DEF Delete, BeginUnlink, CountLinks, DropUnlinked, BeginDeleteCase, DeleteCase, DeleteLinks, BeginClear,
             UnlinkAll, SweepNext, SweepDrop, Rehome, SweepDone, DropFeature, BeginDeleteStep, DeleteStep, Scan, Purge,
             Begin, Goto, End, histVars
  <2>. QED
    BY <1>1, <2>2, <2>3, <2>4
<1>6. ASSUME Crash PROVE Rest
  <2>1. \A t \in Threads : InHand(t) \subseteq Cases
    <3> SUFFICES ASSUME NEW t \in Threads PROVE InHand(t) \subseteq Cases
      OBVIOUS
    <3>1. req[t].todo \subseteq Cases /\ (req[t].at \in {"count", "drop", "unassoc"} => req[t].case \in Cases)
      BY <1>1 DEF Fits, Request
    <3>2. Authored(req[t].feat, {req[t].case}) \subseteq Cases
      BY DEF Authored, StoredCases
    <3>. QED
      BY <3>1, <3>2 DEF InHand
  <2>2. crashes' \in 0 .. MaxCrashes
    BY <1>1, <1>6, LibraryAssumption DEF Crash
  <2>3. torn' \subseteq Cases
    BY <1>1, <1>6, <2>1 DEF Crash, Busy
  <2>4. UNCHANGED <<dataVars, clash, detached>>
    BY <1>6 DEF Crash
  <2>. QED
    BY <1>1, <2>2, <2>3, <2>4 DEF dataVars
<1>7. ASSUME (\E s \in Steps : CreateStep(s)) \/ UNCHANGED vars PROVE Rest
  <2>1. UNCHANGED <<feature, assoc, histVars, detached>>
    BY <1>7 DEF CreateStep, vars, dataVars
  <2>2. step' \in [Steps -> Presence]
    BY <1>1, <1>7 DEF CreateStep, vars, dataVars, Presence
  <2>. QED
    BY <1>1, <2>1, <2>2 DEF histVars
<1>8. Rest
  <2>. HIDE DEF Rest
  <2>. QED
    BY <1>3, <1>4, <1>5, <1>6, <1>7 DEF Next
<1>. QED
  BY <1>2, <1>8 DEF Typed, TypeOK, Serving

(***************************************************************************)
(* What holds until a deletion overlaps another request.                   *)
(***************************************************************************)
Alone == \A t, u \in Threads : req[t].op \in Deletion /\ req[u].op # "none" => t = u

\* The steps that a case names, or will name, are there.
Named ==
  /\ Referenced \subseteq StoredSteps
  /\ \A t \in Threads :
       /\ req[t].at \in {"lookup", "steps", "insert", "update"} => req[t].steps \subseteq StoredSteps
       /\ req[t].at = "drop_step" => req[t].steps \cap Referenced = {}
       /\ req[t].at = "purge" => Referenced \subseteq req[t].steps

\* Both ends of an association are there, but for a case that delete_case
\* has just deleted.
Ends == \A a \in assoc :
          /\ a[1] \in LiveFeatures
          /\ a[2] \in StoredCases \cup torn \/ \E t \in Threads : At(t, "unassoc") /\ req[t].case = a[2]

\* What a request that will link, or is unlinking, knows.
KnowsLinks(t) ==
  /\ req[t].op \in {"generate", "create", "associate"} => req[t].feat \in LiveFeatures
  /\ req[t].at = "link" => req[t].case \in StoredCases
  /\ req[t].at = "carry" => req[t].feat \in LiveFeatures
  /\ req[t].at \in {"create_version", "carry"} => req[t].todo \subseteq StoredCases \cup torn
Linking == \A t \in Threads : KnowsLinks(t)
KnowsRemains(t) ==
  /\ req[t].at \in {"unlink_all", "drop_feature"} \cup Sweeping => req[t].feat \in LiveFeatures
  /\ req[t].at = "unlink_all" => CasesOf(req[t].feat) \subseteq req[t].todo
  /\ req[t].at \in {"drop_feature"} \cup Sweeping => CasesOf(req[t].feat) = {}
  /\ req[t].at \in {"drop", "sweep_drop"} => LinksOf(req[t].case) = {}
  /\ req[t].at = "unassoc" => req[t].case \notin StoredCases
  /\ req[t].at = "rehome" => <<req[t].heir, req[t].case>> \in assoc
Unlinking == \A t \in Threads : KnowsRemains(t)

\* A stored case has a link or is in the hands of a request.
Reached == \A c \in StoredCases \ torn : LinksOf(c) # {} \/ \E t \in Threads : c \in InHand(t)

\* The feature it came from links it, unless it was unlinked from that one.
Files(t, c) == /\ req[t].at \in {"link"} \cup Sweeping /\ req[t].op # "reset"
               /\ c \in InHand(t) /\ req[t].feat = case[c].source
Filed == \A c \in StoredCases \ (torn \cup detached) :
           <<case[c].source, c>> \in assoc \/ \E t \in Threads : Files(t, c)

Kept == Alone /\ Named /\ Ends /\ Linking /\ Unlinking /\ Reached /\ Filed
Sound == clash \/ Kept

-----------------------------------------------------------------------------
(* While nothing is deleted *)

DeletionPoints == {"count", "drop", "drop_case", "unassoc", "unlink_all", "drop_feature", "drop_step", "scan", "purge"}
                  \cup Sweeping
NoneDeletes == \A t \in Threads : req[t].op \notin Deletion /\ req[t].at \notin DeletionPoints

LEMMA Points ==
  ASSUME Serving, NEW t \in Threads
  PROVE  /\ req[t].at = "idle" <=> req[t].op = "none"
         /\ req[t].op \in Deletion <=> req[t].at \in DeletionPoints
<1>1. req[t].at \in Point /\ Fits(req[t])
  BY DEF Serving, Request
<1>. QED
  BY <1>1 DEF Fits, Point, Deletion, DeletionPoints, Sweeping

\* A request that deletes is alone; beside another, no request deletes.
LEMMA ByItself ==
  ASSUME Serving, Alone, NEW t \in Threads, req[t].op \in Deletion
  PROVE  \A u \in Threads \ {t} : req[u].at = "idle" /\ req[u].op = "none"
BY Points DEF Alone

LEMMA OthersBuild ==
  ASSUME Serving, Alone, NEW t \in Threads, req[t].op \notin Deletion, req[t].op # "none"
  PROVE  NoneDeletes
BY Points DEF Alone, NoneDeletes, Deletion

NoDeletion == \A t \in Threads : req[t].op \notin Deletion

LEMMA NobodyDeletes == Serving /\ NoDeletion => NoneDeletes
BY Points DEF NoneDeletes, NoDeletion

KnowsSteps(t) == req[t].at \in {"lookup", "steps", "insert", "update"} => req[t].steps \subseteq StoredSteps
Linker(t, c) == At(t, "link") /\ req[t].case = c /\ req[t].feat = case[c].source

Built ==
  /\ Referenced \subseteq StoredSteps
  /\ \A t \in Threads : KnowsSteps(t) /\ KnowsLinks(t)
  /\ \A a \in assoc : a[1] \in LiveFeatures /\ a[2] \in StoredCases \cup torn
  /\ \A c \in StoredCases \ torn : LinksOf(c) # {} \/ \E t \in Threads : Linker(t, c)
  /\ \A c \in StoredCases \ (torn \cup detached) : <<case[c].source, c>> \in assoc \/ \E t \in Threads : Linker(t, c)

LEMMA InHandLinks ==
  ASSUME Serving, NoneDeletes, NEW t \in Threads, NEW c \in StoredCases
  PROVE  /\ c \in InHand(t) <=> Linker(t, c)
         /\ Files(t, c) <=> Linker(t, c)
<1>1. req[t].at \notin Sweeping /\ req[t].at \notin {"count", "drop", "unassoc"}
  BY DEF NoneDeletes, DeletionPoints, Sweeping
<1>2. InHand(t) = IF At(t, "link") THEN Authored(req[t].feat, {req[t].case}) ELSE {}
  BY <1>1 DEF InHand, Sweeping, At
<1>3. At(t, "link") => req[t].op # "reset"
  BY DEF Serving, Fits, At
<1>. QED
  BY <1>1, <1>2, <1>3 DEF Files, Linker, Authored, Sweeping, At

LEMMA BuiltIsKept == Serving /\ NoneDeletes => (Kept <=> Built)
<1> SUFFICES ASSUME Serving, NoneDeletes PROVE Kept <=> Built
  OBVIOUS
<1>1. Alone
  BY DEF NoneDeletes, Alone
<1>2. Named <=> Referenced \subseteq StoredSteps /\ \A t \in Threads : KnowsSteps(t)
  BY DEF NoneDeletes, DeletionPoints, Named, KnowsSteps
<1>3. Ends <=> \A a \in assoc : a[1] \in LiveFeatures /\ a[2] \in StoredCases \cup torn
  BY DEF NoneDeletes, DeletionPoints, Ends, At
<1>4. Unlinking
  BY DEF NoneDeletes, DeletionPoints, Unlinking, KnowsRemains, Sweeping
<1>5. Reached <=> \A c \in StoredCases \ torn : LinksOf(c) # {} \/ \E t \in Threads : Linker(t, c)
  BY InHandLinks DEF Reached
<1>6. Filed <=> \A c \in StoredCases \ (torn \cup detached) :
                  <<case[c].source, c>> \in assoc \/ \E t \in Threads : Linker(t, c)
  BY InHandLinks DEF Filed
<1>. QED
  BY <1>1, <1>2, <1>3, <1>4, <1>5, <1>6 DEF Kept, Built, Linking

\* A request goes on and only adds: features, steps, associations of what is there.
LEMMA BuiltGrows ==
  ASSUME Built, NEW t \in Threads, \A u \in Threads \ {t} : req'[u] = req[u],
         UNCHANGED <<case, torn, detached>>,
         StoredSteps \subseteq StoredSteps', LiveFeatures \subseteq LiveFeatures', assoc \subseteq assoc',
         \A a \in assoc' : a \in assoc \/ (a[1] \in LiveFeatures /\ a[2] \in StoredCases \cup torn),
         At(t, "link") => <<req[t].feat, req[t].case>> \in assoc' /\ req[t].feat \in Features,
         KnowsSteps(t)', KnowsLinks(t)'
  PROVE  Built'
<1>1. StoredCases' = StoredCases /\ Referenced' = Referenced
  BY DEF StoredCases, Referenced
<1>2. \A u \in Threads \ {t} : KnowsSteps(u)' /\ KnowsLinks(u)'
  BY <1>1 DEF Built, KnowsSteps, KnowsLinks
<1>3. \A u \in Threads \ {t}, c \in Cases : Linker(u, c) => Linker(u, c)'
  BY DEF Linker, At
<1>4. \A c \in Cases : LinksOf(c) \subseteq LinksOf(c)'
  BY DEF LinksOf
<1>5. \A c \in StoredCases : Linker(t, c) => LinksOf(c)' # {} /\ <<case[c].source, c>> \in assoc'
  BY DEF Linker, LinksOf
<1>6. StoredCases \subseteq Cases
  BY DEF StoredCases
<1>7. \A c \in StoredCases \ torn : LinksOf(c)' # {} \/ \E u \in Threads : Linker(u, c)'
  BY <1>3, <1>4, <1>5, <1>6 DEF Built
<1>8. \A c \in StoredCases \ (torn \cup detached) :
          <<case'[c].source, c>> \in assoc' \/ \E u \in Threads : Linker(u, c)'
  BY <1>3, <1>5, <1>6 DEF Built
<1>9. \A a \in assoc' : a[1] \in LiveFeatures' /\ a[2] \in StoredCases' \cup torn'
  BY <1>1 DEF Built
<1>. QED
  BY <1>1, <1>2, <1>7, <1>8, <1>9 DEF Built

\* A step after which still nothing is deleted.
LEMMA BuiltStep ==
  ASSUME Serving, Serving', NoneDeletes, Kept, Built => Built', NEW t \in Threads,
         req'[t].op \notin Deletion, \A u \in Threads \ {t} : req'[u] = req[u]
  PROVE  Kept'
<1>1. Built'
  BY BuiltIsKept
<1>2. \A u \in Threads : req'[u].op \notin Deletion
  BY DEF NoneDeletes
<1>3. NoneDeletes'
  <2>1. (Serving /\ NoDeletion => NoneDeletes)'
    BY NobodyDeletes, PTL
  <2>. QED
    BY <1>2, <2>1 DEF NoDeletion
<1>4. Serving' /\ NoneDeletes' => (Kept' <=> Built')
  BY BuiltIsKept, PTL
<1>. QED
  BY <1>1, <1>3, <1>4

LEMMA BeginsFree ==
  ASSUME Serving, ~clash', NEW t \in Threads, NEW r, Begin(t, r)
  PROVE  /\ NoneDeletes /\ ~clash /\ UNCHANGED torn /\ At(t, "idle")
         /\ r.op \in Deletion => \A u \in Threads : req[u].at = "idle" /\ req[u].op = "none"
<1>1. \A u \in Threads : req[u].at # "idle" => r.op \notin Deletion /\ req[u].op \notin Deletion
  BY DEF Begin, Busy
<1>2. \A u \in Threads : req[u].op \notin Deletion
  <2>1. \A u \in Threads : req[u].at = "idle" => req[u].op = "none"
    BY Points
  <2>. QED
    BY <1>1, <2>1 DEF Deletion
<1>3. NoneDeletes
  BY <1>2, NobodyDeletes DEF NoDeletion
<1>. QED
  BY <1>1, <1>3, Points, IdleFits DEF Begin, At

LEMMA BuildKept ==
  ASSUME Typed, Typed', Kept, ~clash', NEW t \in Threads, Build(t) \/ Versioning(t) PROVE Kept'
<1>1. /\ Serving /\ Serving' /\ req \in [Threads -> Request] /\ req' \in [Threads -> Request] /\ Fits(req[t])
      /\ assoc \subseteq Features \X Cases /\ case \in [Cases -> Document] /\ step \in [Steps -> Presence]
      /\ feature \in [Features -> Presence]
  BY DEF Typed, Serving, TypeOK
\* A request begins that builds.
<1>2. ASSUME NEW r \in Request, Begin(t, r), r.op \notin Deletion, UNCHANGED <<dataVars, detached>>,
             r.at \in {"lookup", "steps"} => r.steps \subseteq StoredSteps,
             r.at # "carry",
             r.op \in {"generate", "create", "associate"} => r.feat \in LiveFeatures,
             r.at = "link" => r.case \in StoredCases,
             r.at \notin {"insert", "update"},
             r.at = "create_version" => (Built => r.todo \subseteq StoredCases \cup torn)
      PROVE Kept'
  <2>1. NoneDeletes /\ UNCHANGED torn /\ At(t, "idle")
    BY <1>1, <1>2, BeginsFree
  <2>2. req'[t] = r /\ \A u \in Threads \ {t} : req'[u] = req[u]
    BY <1>1, <1>2 DEF Begin
  <2>3. StoredSteps' = StoredSteps /\ LiveFeatures' = LiveFeatures /\ StoredCases' = StoredCases
    BY <1>2 DEF dataVars, StoredSteps, LiveFeatures, StoredCases
  <2>4. KnowsSteps(t)' /\ (Built => KnowsLinks(t)')
    BY <1>2, <2>1, <2>2, <2>3 DEF KnowsSteps, KnowsLinks
  <2>5. Built => Built'
    BY <1>2, <2>1, <2>2, <2>3, <2>4, BuiltGrows DEF dataVars, At
  <2>. QED
    BY <1>1, <1>2, <2>1, <2>2, <2>5, BuiltStep
<1>3. ASSUME NEW f \in Features, BeginGenerate(t, f) PROVE Kept'
  <2> DEFINE r == [Idle EXCEPT !.op = "generate", !.at = "lookup", !.feat = f]
  <2>1. r \in Request
    BY DEF Idle, Request, Op, Point
  <2>2. r.op = "generate" /\ r.at = "lookup" /\ r.feat = f /\ r.steps = {}
    BY DEF Idle
  <2>3. Begin(t, r) /\ UNCHANGED <<dataVars, detached>> /\ f \in LiveFeatures
    BY <1>3 DEF BeginGenerate
  <2>. HIDE DEF r
  <2>. QED
    BY <1>2, <2>1, <2>2, <2>3 DEF Deletion
<1>4. ASSUME NEW f \in Features, BeginCreate(t, f) PROVE Kept'
  <2> DEFINE r == [Idle EXCEPT !.op = "create", !.at = "steps", !.feat = f]
  <2>1. r \in Request
    BY DEF Idle, Request, Op, Point
  <2>2. r.op = "create" /\ r.at = "steps" /\ r.feat = f /\ r.steps = {}
    BY DEF Idle
  <2>3. Begin(t, r) /\ UNCHANGED <<dataVars, detached>> /\ f \in LiveFeatures
    BY <1>4 DEF BeginCreate
  <2>. HIDE DEF r
  <2>. QED
    BY <1>2, <2>1, <2>2, <2>3 DEF Deletion
<1>5. ASSUME NEW c \in Cases, BeginEdit(t, c) PROVE Kept'
  <2>1. PICK kept \in SUBSET case[c].steps :
           Begin(t, [Idle EXCEPT !.op = "edit", !.at = "steps", !.case = c, !.steps = kept])
    BY <1>5, Zenon DEF BeginEdit
  <2> DEFINE r == [Idle EXCEPT !.op = "edit", !.at = "steps", !.case = c, !.steps = kept]
  <2>2. kept \subseteq Steps /\ c \in StoredCases /\ UNCHANGED <<dataVars, detached>>
    BY <1>1, <1>5 DEF BeginEdit, Document
  <2>3. r \in Request
    BY <2>2 DEF Idle, Request, Op, Point
  <2>4. r.op = "edit" /\ r.at = "steps" /\ r.steps = kept
    BY DEF Idle
  <2>5. kept \subseteq StoredSteps
    BY <2>2 DEF Kept, Named, Referenced
  <2>6. Begin(t, r)
    BY <2>1
  <2>. HIDE DEF r
  <2>. QED
    BY <1>2, <2>2, <2>3, <2>4, <2>5, <2>6 DEF Deletion
<1>6. ASSUME NEW f \in Features, NEW c \in Cases, BeginAssociate(t, f, c) PROVE Kept'
  <2> DEFINE r == [Idle EXCEPT !.op = "associate", !.at = "link", !.feat = f, !.case = c]
  <2>1. r \in Request
    BY DEF Idle, Request, Op, Point
  <2>2. r.op = "associate" /\ r.at = "link" /\ r.feat = f /\ r.case = c
    BY DEF Idle
  <2>3. Begin(t, r) /\ UNCHANGED <<dataVars, detached>> /\ f \in LiveFeatures /\ c \in StoredCases
    BY <1>6 DEF BeginAssociate
  <2>. HIDE DEF r
  <2>. QED
    BY <1>2, <2>1, <2>2, <2>3 DEF Deletion
<1>7. ASSUME NEW f \in Features, NEW g \in Features, BeginVersion(t, f, g) PROVE Kept'
  <2>1. PICK kept \in SUBSET CasesOf(f) :
           Begin(t, [Idle EXCEPT !.op = "version", !.at = "create_version", !.feat = g, !.todo = kept])
    BY <1>7, Zenon DEF BeginVersion
  <2> DEFINE r == [Idle EXCEPT !.op = "version", !.at = "create_version", !.feat = g, !.todo = kept]
  <2>2. kept \subseteq Cases /\ UNCHANGED <<dataVars, detached>>
    BY <1>7 DEF BeginVersion, CasesOf
  <2>3. r \in Request
    BY <2>2 DEF Idle, Request, Op, Point
  <2>4. r.op = "version" /\ r.at = "create_version" /\ r.todo = kept
    BY DEF Idle
  <2>5. Built => kept \subseteq StoredCases \cup torn
    BY DEF Built, CasesOf
  <2>6. Begin(t, r)
    BY <2>1
  <2>. HIDE DEF r
  <2>. QED
    BY <1>2, <2>2, <2>3, <2>4, <2>5, <2>6 DEF Deletion
\* It goes on.
<1>8. ASSUME ~At(t, "idle"), req[t].op \notin Deletion, req'[t].op \notin Deletion,
             \A u \in Threads \ {t} : req'[u] = req[u],
             Built => Built'
      PROVE Kept'
  <2>1. req[t].op # "none"
    BY <1>1, <1>8, Points DEF At
  <2>2. NoneDeletes
    BY <1>1, <1>8, <2>1, OthersBuild DEF Kept
  <2>. QED
    BY <1>1, <1>8, <2>2, BuiltStep
<1>9. ASSUME Lookup(t) \/ (\E s \in Steps : ReuseStep(t, s) \/ NewStep(t, s)) \/ StepsDone(t) PROVE Kept'
  <2>1. /\ UNCHANGED <<feature, case, assoc, torn, detached>> /\ \A u \in Threads \ {t} : req'[u] = req[u]
        /\ StoredSteps \subseteq StoredSteps'
    BY <1>1, <1>9 DEF Lookup, ReuseStep, NewStep, StepsDone, Goto, dataVars, histVars, StoredSteps
  <2>2. /\ req'[t].op = req[t].op /\ req'[t].feat = req[t].feat
        /\ req[t].at \in {"lookup", "steps"}
        /\ req'[t].at \in {"steps", "insert", "update"} \/ (req'[t].at = "link" /\ req'[t].case \in StoredCases)
    BY <1>1, <1>9 DEF Lookup, ReuseStep, NewStep, StepsDone, Goto, At, Request, StoredCases
  <2>3. \/ req'[t].steps = req[t].steps
        \/ \E s \in StoredSteps' : req'[t].steps = req[t].steps \cup {s}
    <3>1. CASE Lookup(t) \/ StepsDone(t)
      BY <1>1, <3>1 DEF Lookup, StepsDone, Goto, Request
    <3>2. ASSUME NEW s \in Steps, ReuseStep(t, s) \/ NewStep(t, s)
          PROVE  s \in StoredSteps' /\ req'[t].steps = req[t].steps \cup {s}
      BY <1>1, <3>2 DEF ReuseStep, NewStep, StoredSteps, Request, dataVars
    <3>. QED
      BY <1>9, <3>1, <3>2
  <2>4. req[t].op \in {"generate", "create", "edit"}
    BY <1>1, <2>2 DEF Fits
  <2>5. Built => KnowsSteps(t)'
    BY <2>1, <2>2, <2>3 DEF Built, KnowsSteps
  <2>6. Built => KnowsLinks(t)'
    BY <2>1, <2>2 DEF Built, KnowsLinks, LiveFeatures, StoredCases
  <2>7. Built => Built'
    BY <2>1, <2>2, <2>5, <2>6, BuiltGrows DEF LiveFeatures, At
  <2>. QED
    BY <2>1, <2>2, <2>4, <2>7, <1>8 DEF At, Deletion
<1>10. ASSUME NEW c \in Cases, InsertCase(t, c) PROVE Kept'
  <2>1. /\ req[t].at = "insert" /\ req[t].op \in {"generate", "create"} /\ req[t].feat \in Features
        /\ case[c].is = "absent" /\ case' = [case EXCEPT ![c] = [is |-> "stored", steps |-> req[t].steps, source |-> req[t].feat]]
        /\ UNCHANGED <<feature, step, assoc, torn, detached>>
    BY <1>1, <1>10 DEF InsertCase, At, Fits, histVars
  <2>2. req'[t].at = "link" /\ req'[t].case = c /\ req'[t].op = req[t].op /\ req'[t].feat = req[t].feat
        /\ \A u \in Threads \ {t} : req'[u] = req[u]
    BY <1>1, <1>10 DEF InsertCase, Request
  <2>3. c \notin StoredCases /\ StoredCases' = StoredCases \cup {c} /\ case'[c].steps = req[t].steps /\ case'[c].source = req[t].feat
        /\ \A k \in StoredCases : case'[k] = case[k]
    BY <1>1, <2>1 DEF StoredCases
  <2>4. ASSUME Built PROVE Built'
    <3>1. Referenced' \subseteq StoredSteps'
      BY <2>1, <2>3, <2>4 DEF Built, Referenced, KnowsSteps, StoredSteps
    <3>2. \A u \in Threads : KnowsSteps(u)'
      BY <2>1, <2>2, <2>4 DEF Built, KnowsSteps, StoredSteps
    <3>3. \A u \in Threads : KnowsLinks(u)'
      BY <2>1, <2>2, <2>3, <2>4 DEF Built, KnowsLinks, LiveFeatures
    <3>4. \A a \in assoc' : a[1] \in LiveFeatures' /\ a[2] \in StoredCases' \cup torn'
      BY <2>1, <2>3, <2>4 DEF Built, LiveFeatures
    <3>5. Linker(t, c)'
      BY <2>2, <2>3 DEF Linker, At
    <3>6. \A u \in Threads, k \in StoredCases : Linker(u, k) => u # t /\ Linker(u, k)'
      BY <2>1, <2>2, <2>3 DEF Linker, At
    <3>7. \A k \in StoredCases' \ torn' : LinksOf(k)' # {} \/ \E u \in Threads : Linker(u, k)'
      BY <2>1, <2>3, <2>4, <3>5, <3>6 DEF Built, LinksOf
    <3>8. \A k \in StoredCases' \ (torn' \cup detached') :
              <<case'[k].source, k>> \in assoc' \/ \E u \in Threads : Linker(u, k)'
      BY <2>1, <2>3, <2>4, <3>5, <3>6 DEF Built
    <3>. QED
      BY <3>1, <3>2, <3>3, <3>4, <3>7, <3>8 DEF Built
  <2>. QED
    BY <2>1, <2>2, <2>4, <1>8 DEF At, Deletion
<1>11. ASSUME UpdateCase(t) PROVE Kept'
  <2>1. /\ req[t].at = "update" /\ req[t].op = "edit"
        /\ UNCHANGED <<feature, step, assoc, torn, detached>>
    BY <1>1, <1>11 DEF UpdateCase, At, Fits, End, histVars
  <2>2. req'[t] = Idle /\ Idle.at = "idle" /\ Idle.op = "none" /\ \A u \in Threads \ {t} : req'[u] = req[u]
    BY <1>1, <1>11, IdleFits DEF UpdateCase, End
  <2>3. /\ StoredCases' = StoredCases /\ \A k \in StoredCases : case'[k].source = case[k].source
        /\ \A k \in StoredCases : case'[k].steps = case[k].steps \/ case'[k].steps = req[t].steps
    BY <1>1, <1>11 DEF UpdateCase, StoredCases, Document
  <2>4. ASSUME Built PROVE Built'
    <3>1. Referenced' \subseteq StoredSteps'
      BY <2>1, <2>3, <2>4 DEF Built, Referenced, KnowsSteps, StoredSteps
    <3>2. \A u \in Threads : KnowsSteps(u)'
      BY <2>1, <2>2, <2>4 DEF Built, KnowsSteps, StoredSteps
    <3>3. \A u \in Threads : KnowsLinks(u)'
      BY <2>1, <2>2, <2>3, <2>4 DEF Built, KnowsLinks, LiveFeatures
    <3>4. \A a \in assoc' : a[1] \in LiveFeatures' /\ a[2] \in StoredCases' \cup torn'
      BY <2>1, <2>3, <2>4 DEF Built, LiveFeatures
    <3>5. \A u \in Threads, k \in StoredCases : Linker(u, k) => Linker(u, k)'
      BY <2>1, <2>2, <2>3 DEF Linker, At
    <3>6. \A k \in StoredCases' \ torn' : LinksOf(k)' # {} \/ \E u \in Threads : Linker(u, k)'
      BY <2>1, <2>3, <2>4, <3>5 DEF Built, LinksOf
    <3>7. \A k \in StoredCases' \ (torn' \cup detached') :
              <<case'[k].source, k>> \in assoc' \/ \E u \in Threads : Linker(u, k)'
      BY <2>1, <2>3, <2>4, <3>5 DEF Built
    <3>. QED
      BY <3>1, <3>2, <3>3, <3>4, <3>6, <3>7 DEF Built
  <2>. QED
    BY <2>1, <2>2, <2>4, <1>8 DEF At, Deletion
<1>12. ASSUME Link(t) PROVE Kept'
  <2>1. /\ req[t].at = "link" /\ req[t].op \in {"generate", "create", "associate"}
        /\ req[t].feat \in Features /\ req[t].case \in Cases
        /\ UNCHANGED <<feature, case, step, torn, detached>> /\ assoc' = assoc \cup {<<req[t].feat, req[t].case>>}
    BY <1>1, <1>12 DEF Link, At, Fits, End, histVars
  <2>2. /\ \A u \in Threads \ {t} : req'[u] = req[u]
        /\ \/ req'[t].at = "idle" /\ req'[t].op = "none"
           \/ req'[t].at = "lookup" /\ req'[t].op = "generate" /\ req'[t].feat = req[t].feat /\ req'[t].steps = {}
    BY <1>1, <1>12, IdleFits, ZenonT(30) DEF Link, End, Idle
  <2>3. Built => KnowsSteps(t)' /\ KnowsLinks(t)'
    BY <2>1, <2>2 DEF Built, KnowsSteps, KnowsLinks, LiveFeatures
  <2>4. Built => /\ \A a \in assoc' : a \in assoc \/ (a[1] \in LiveFeatures /\ a[2] \in StoredCases \cup torn)
    BY <2>1 DEF Built, KnowsLinks
  <2>5. Built => Built'
    BY <2>1, <2>2, <2>3, <2>4, BuiltGrows DEF LiveFeatures, StoredSteps, At
  <2>. QED
    BY <2>1, <2>2, <2>5, <1>8 DEF At, Deletion
<1>13. ASSUME CreateVersion(t) \/ Carry(t) PROVE Kept'
  <2>1. /\ req[t].at \in {"create_version", "carry"} /\ req[t].op = "version" /\ req[t].feat \in Features
        /\ UNCHANGED <<case, step, torn, detached>> /\ LiveFeatures \subseteq LiveFeatures' /\ assoc \subseteq assoc'
    BY <1>1, <1>13 DEF CreateVersion, Carry, Goto, At, Fits, End, histVars, LiveFeatures
  <2>2. /\ \A u \in Threads \ {t} : req'[u] = req[u]
        /\ \/ req'[t].at = "idle" /\ req'[t].op = "none"
           \/ /\ req'[t].at = "carry" /\ req'[t].op = "version" /\ req'[t].feat = req[t].feat
              /\ req'[t].todo \subseteq req[t].todo
    BY <1>1, <1>13, <2>1, IdleFits DEF CreateVersion, Carry, Goto, End, At, Request
  <2>3. req'[t].at = "carry" /\ Built => req[t].feat \in LiveFeatures'
    BY <1>1, <1>13, <2>1, <2>2 DEF CreateVersion, Carry, At, Built, KnowsLinks, LiveFeatures
  <2>4. Built => KnowsSteps(t)' /\ KnowsLinks(t)'
    BY <2>1, <2>2, <2>3 DEF Built, KnowsSteps, KnowsLinks, StoredCases
  <2>5. Built => \A a \in assoc' : a \in assoc \/ (a[1] \in LiveFeatures /\ a[2] \in StoredCases \cup torn)
    BY <1>13, <2>1 DEF Carry, CreateVersion, At, Built, KnowsLinks
  <2>6. Built => Built'
    BY <2>1, <2>2, <2>4, <2>5, BuiltGrows DEF StoredSteps, At
  <2>. QED
    BY <2>1, <2>2, <2>6, <1>8 DEF At, Deletion
<1>. QED
  BY <1>3, <1>4, <1>5, <1>6, <1>7, <1>9, <1>10, <1>11, <1>12, <1>13 DEF Build, Versioning

-----------------------------------------------------------------------------
(* While one request deletes, alone *)

Solo(t) ==
  /\ Referenced \subseteq StoredSteps
  /\ req[t].at = "drop_step" => req[t].steps \cap Referenced = {}
  /\ req[t].at = "purge" => Referenced \subseteq req[t].steps
  /\ \A a \in assoc : /\ a[1] \in LiveFeatures
                      /\ a[2] \in StoredCases \cup torn \/ (At(t, "unassoc") /\ req[t].case = a[2])
  /\ KnowsRemains(t)
  /\ \A c \in StoredCases \ torn : LinksOf(c) # {} \/ c \in InHand(t)
  /\ \A c \in StoredCases \ (torn \cup detached) : <<case[c].source, c>> \in assoc \/ Files(t, c)

OthersIdle(t) == \A u \in Threads \ {t} : req[u].at = "idle" /\ req[u].op = "none"

LEMMA SoloIsKept ==
  \A d \in Threads : Serving /\ req[d].op \in Deletion /\ OthersIdle(d) => (Kept <=> Solo(d))
<1> SUFFICES ASSUME NEW d \in Threads, Serving, req[d].op \in Deletion, OthersIdle(d) PROVE Kept <=> Solo(d)
  OBVIOUS
<1>1. Alone
  BY DEF OthersIdle, Alone, Deletion
<1>2. req[d].at \in DeletionPoints
  BY Points
<1>3. Named <=> /\ Referenced \subseteq StoredSteps
                /\ req[d].at = "drop_step" => req[d].steps \cap Referenced = {}
                /\ req[d].at = "purge" => Referenced \subseteq req[d].steps
  BY <1>2 DEF OthersIdle, Named, DeletionPoints, Sweeping
<1>4. Ends <=> \A a \in assoc :
                  /\ a[1] \in LiveFeatures
                  /\ a[2] \in StoredCases \cup torn \/ (At(d, "unassoc") /\ req[d].case = a[2])
  BY DEF OthersIdle, Ends, At
<1>5. Linking
  BY <1>2 DEF OthersIdle, Linking, KnowsLinks, DeletionPoints, Deletion, Sweeping
<1>6. Unlinking <=> KnowsRemains(d)
  BY DEF OthersIdle, Unlinking, KnowsRemains, Sweeping
<1>7. \A u \in Threads \ {d}, c \in Cases : c \notin InHand(u) /\ ~Files(u, c)
  BY DEF OthersIdle, InHand, Files, Sweeping
<1>8. StoredCases \subseteq Cases
  BY DEF StoredCases
<1>9. Reached <=> \A c \in StoredCases \ torn : LinksOf(c) # {} \/ c \in InHand(d)
  BY <1>7, <1>8 DEF Reached
<1>10. Filed <=> \A c \in StoredCases \ (torn \cup detached) : <<case[c].source, c>> \in assoc \/ Files(d, c)
  BY <1>7, <1>8 DEF Filed
<1>. QED
  BY <1>1, <1>3, <1>4, <1>5, <1>6, <1>9, <1>10 DEF Kept, Solo

LEMMA SoloStep ==
  ASSUME Serving, Serving', NEW t \in Threads, \A u \in Threads \ {t} : req'[u] = req[u], OthersIdle(t),
         (req'[t].op \in Deletion /\ Solo(t)') \/ (req'[t].op = "none" /\ Built')
  PROVE  Kept'
<1>1. OthersIdle(t)'
  BY DEF OthersIdle
<1>2. CASE req'[t].op \in Deletion /\ Solo(t)'
  <2>1. (\A d \in Threads : Serving /\ req[d].op \in Deletion /\ OthersIdle(d) => (Kept <=> Solo(d)))'
    BY SoloIsKept, PTL
  <2>. QED
    BY <1>1, <1>2, <2>1
<1>3. CASE req'[t].op = "none" /\ Built'
  <2>1. NoDeletion'
    BY <1>1, <1>3 DEF NoDeletion, OthersIdle, Deletion
  <2>2. (Serving /\ NoDeletion => NoneDeletes)'
    BY NobodyDeletes, PTL
  <2>3. (Serving /\ NoneDeletes => (Kept <=> Built))'
    BY BuiltIsKept, PTL
  <2>. QED
    BY <1>3, <2>1, <2>2, <2>3
<1>. QED
  BY <1>2, <1>3

\* What is in hand where.
LEMMA Hands ==
  ASSUME NEW t
  PROVE  /\ req[t].at \in Sweeping => InHand(t) = req[t].todo
         /\ req[t].at \in {"count", "drop", "unassoc"} => InHand(t) = {req[t].case}
         /\ req[t].at \in {"drop_case", "unlink_all", "drop_feature", "drop_step", "scan", "purge"} => InHand(t) = {}
BY DEF InHand, Sweeping

LEMMA HandsNext ==
  ASSUME NEW t
  PROVE  /\ req'[t].at \in Sweeping => InHand(t)' = req'[t].todo
         /\ req'[t].at \in {"count", "drop", "unassoc"} => InHand(t)' = {req'[t].case}
         /\ req'[t].at \in {"drop_case", "unlink_all", "drop_feature", "drop_step", "scan", "purge"} => InHand(t)' = {}
BY DEF InHand, Sweeping

LEMMA DeleteBegins ==
  ASSUME Typed, Typed', Kept, ~clash', NEW t \in Threads,
         \/ \E f \in Features, c \in Cases : BeginUnlink(t, f, c)
         \/ \E c \in Cases, force \in BOOLEAN : BeginDeleteCase(t, c, force)
         \/ \E f \in Features, op \in Op : BeginClear(t, f, op)
         \/ \E s \in Steps : BeginDeleteStep(t, s)
  PROVE  Kept'
<1>1. /\ Serving /\ Serving' /\ req \in [Threads -> Request] /\ req' \in [Threads -> Request]
      /\ assoc \subseteq Features \X Cases
  BY DEF Typed, Serving, TypeOK
<1>2. ASSUME NEW r \in Request, Begin(t, r), r.op \in Deletion
      PROVE  /\ Built /\ UNCHANGED torn /\ OthersIdle(t) /\ req'[t] = r /\ \A u \in Threads \ {t} : req'[u] = req[u]
             /\ \A u \in Threads, c \in Cases : ~Linker(u, c)
  <2>1. NoneDeletes /\ UNCHANGED torn /\ \A u \in Threads : req[u].at = "idle" /\ req[u].op = "none"
    BY <1>1, <1>2, BeginsFree
  <2>2. req'[t] = r /\ \A u \in Threads \ {t} : req'[u] = req[u]
    BY <1>1, <1>2 DEF Begin
  <2>. QED
    BY <1>1, <2>1, <2>2, BuiltIsKept DEF OthersIdle, Linker, At
<1>3. StoredCases \subseteq Cases
  BY DEF StoredCases
<1>4. ASSUME NEW f \in Features, NEW c \in Cases, BeginUnlink(t, f, c) PROVE Kept'
  <2> DEFINE r == [Idle EXCEPT !.op = "unlink", !.at = "count", !.case = c]
  <2>1. r \in Request
    BY DEF Idle, Request, Op, Point, Deletion
  <2>2. r.op = "unlink" /\ r.at = "count" /\ r.case = c
    BY DEF Idle
  <2>3. /\ Begin(t, r) /\ assoc' = assoc \ {<<f, c>>} /\ detached' = detached \cup Authored(f, {c})
        /\ UNCHANGED <<feature, case, step>>
    BY <1>4, ZenonT(30) DEF BeginUnlink
  <2>. HIDE DEF r
  <2>4. /\ Built /\ UNCHANGED torn /\ OthersIdle(t) /\ req'[t] = r /\ \A u \in Threads \ {t} : req'[u] = req[u]
        /\ \A u \in Threads, k \in Cases : ~Linker(u, k)
    BY <1>2, <2>1, <2>2, <2>3 DEF Deletion
  <2>5. StoredCases' = StoredCases /\ Referenced' = Referenced /\ StoredSteps' = StoredSteps /\ LiveFeatures' = LiveFeatures
    BY <2>3 DEF StoredCases, Referenced, StoredSteps, LiveFeatures
  <2>6. InHand(t)' = {c}
    BY <2>2, <2>4, HandsNext
  <2>7. KnowsRemains(t)'
    BY <2>2, <2>4 DEF KnowsRemains, Sweeping
  <2>8. \A k \in StoredCases' \ torn' : LinksOf(k)' # {} \/ k \in InHand(t)'
    BY <1>3, <2>3, <2>4, <2>5, <2>6 DEF Built, LinksOf
  <2>9. \A k \in StoredCases' \ (torn' \cup detached') : <<case'[k].source, k>> \in assoc'
    BY <1>3, <2>3, <2>4, <2>5 DEF Built, Authored
  <2>10. \A a \in assoc' : a[1] \in LiveFeatures' /\ a[2] \in StoredCases' \cup torn'
    BY <2>3, <2>4, <2>5 DEF Built
  <2>11. Solo(t)'
    BY <2>2, <2>4, <2>5, <2>7, <2>8, <2>9, <2>10 DEF Solo, Built
  <2>. QED
    BY <1>1, <2>2, <2>4, <2>11, SoloStep DEF Deletion
\* The others change no document.
<1>5. ASSUME NEW r \in Request, Begin(t, r), r.op \in Deletion, UNCHANGED <<dataVars, detached>>,
             r.at \in {"drop_case", "unlink_all", "drop_step"},
             r.at = "unlink_all" => r.feat \in LiveFeatures /\ CasesOf(r.feat) \subseteq r.todo,
             r.at = "drop_step" => r.steps \cap Referenced = {}
      PROVE Kept'
  <2>1. /\ Built /\ UNCHANGED torn /\ OthersIdle(t) /\ req'[t] = r /\ \A u \in Threads \ {t} : req'[u] = req[u]
        /\ \A u \in Threads, k \in Cases : ~Linker(u, k)
    BY <1>2, <1>5
  <2>2. StoredCases' = StoredCases /\ Referenced' = Referenced /\ StoredSteps' = StoredSteps /\ LiveFeatures' = LiveFeatures
    BY <1>5 DEF StoredCases, Referenced, StoredSteps, LiveFeatures, dataVars
  <2>3. \A k : LinksOf(k)' = LinksOf(k)
    BY <1>5 DEF LinksOf, dataVars
  <2>4. KnowsRemains(t)'
    BY <1>5, <2>1, <2>2 DEF KnowsRemains, CasesOf, Sweeping, dataVars
  <2>5. Solo(t)'
    BY <1>3, <1>5, <2>1, <2>2, <2>3, <2>4 DEF Solo, Built, dataVars
  <2>. QED
    BY <1>1, <1>5, <2>1, <2>5, SoloStep
<1>6. ASSUME NEW c \in Cases, NEW force \in BOOLEAN, BeginDeleteCase(t, c, force) PROVE Kept'
  <2> DEFINE r == [Idle EXCEPT !.op = "delete_case", !.at = "drop_case", !.case = c]
  <2>1. r \in Request
    BY DEF Idle, Request, Op, Point, Deletion
  <2>2. r.op = "delete_case" /\ r.at = "drop_case"
    BY DEF Idle
  <2>3. Begin(t, r) /\ UNCHANGED <<dataVars, detached>>
    BY <1>6, ZenonT(30) DEF BeginDeleteCase
  <2>. HIDE DEF r
  <2>. QED
    BY <1>5, <2>1, <2>2, <2>3 DEF Deletion
<1>7. ASSUME NEW f \in Features, NEW op, BeginClear(t, f, op) PROVE Kept'
  <2> DEFINE r == [Idle EXCEPT !.op = op, !.at = "unlink_all", !.feat = f, !.todo = CasesOf(f)]
  <2>0. op \in {"delete_feature", "reset"} /\ f \in LiveFeatures /\ UNCHANGED <<dataVars, detached>>
    BY <1>7 DEF BeginClear
  <2>1. Begin(t, r)
    BY <1>7, ZenonT(30) DEF BeginClear
  <2>2. r \in Request
    BY <2>0 DEF Idle, Request, Op, Point, Deletion, CasesOf
  <2>3. r.op = op /\ r.at = "unlink_all" /\ r.feat = f /\ r.todo = CasesOf(f)
    BY DEF Idle
  <2>. HIDE DEF r
  <2>. QED
    BY <1>5, <2>0, <2>1, <2>2, <2>3 DEF Deletion
<1>8. ASSUME NEW s \in Steps, BeginDeleteStep(t, s) PROVE Kept'
  <2> DEFINE r == [Idle EXCEPT !.op = "delete_step", !.at = "drop_step", !.steps = {s}]
  <2>1. r \in Request
    BY DEF Idle, Request, Op, Point, Deletion
  <2>2. r.op = "delete_step" /\ r.at = "drop_step" /\ r.steps = {s}
    BY DEF Idle
  <2>3. Begin(t, r) /\ UNCHANGED <<dataVars, detached>> /\ s \notin Referenced
    BY <1>8, ZenonT(30) DEF BeginDeleteStep
  <2>. HIDE DEF r
  <2>. QED
    BY <1>5, <2>1, <2>2, <2>3 DEF Deletion
<1>. QED
  BY <1>4, <1>6, <1>7, <1>8

\* The three ways on of a sweep.
LEMMA SweepForms ==
  ASSUME req \in [Threads -> Request], NEW t \in Threads, NEW c \in Cases, SweepNext(t, c)
  PROVE  /\ req[t].at = "sweep" /\ UNCHANGED <<dataVars, torn, detached>> /\ \A u \in Threads \ {t} : req'[u] = req[u]
         /\ req'[t].op = req[t].op /\ req'[t].feat = req[t].feat
         /\ \/ LinksOf(c) = {} /\ req'[t].at = "sweep_drop" /\ req'[t].case = c /\ req'[t].todo = req[t].todo
            \/ LinksOf(c) # {} /\ req[t].op = "reset" /\ req'[t].at = "sweep" /\ req'[t].todo = req[t].todo \ {c}
            \/ /\ LinksOf(c) # {} /\ req'[t].at = "rehome" /\ req'[t].case = c /\ req'[t].todo = req[t].todo
               /\ req'[t].heir \in LinksOf(c)
<1>1. req[t].at = "sweep" /\ UNCHANGED <<dataVars, torn, detached>>
  BY DEF SweepNext, At, histVars
<1>2. CASE LinksOf(c) = {}
  <2>1. req' = [req EXCEPT ![t] = [req[t] EXCEPT !.at = "sweep_drop", !.case = c]]
    BY <1>2 DEF SweepNext
  <2>. QED
    BY <1>1, <1>2, <2>1 DEF Request
<1>3. CASE LinksOf(c) # {} /\ req[t].op = "reset"
  <2>1. req' = [req EXCEPT ![t] = [req[t] EXCEPT !.todo = @ \ {c}]]
    BY <1>3 DEF SweepNext
  <2>. QED
    BY <1>1, <1>3, <2>1 DEF Request
<1>4. CASE LinksOf(c) # {} /\ req[t].op # "reset"
  <2>1. PICK h \in LinksOf(c) : req' = [req EXCEPT ![t].at = "rehome", ![t].case = c, ![t].heir = h]
    BY <1>4 DEF SweepNext
  <2>2. req' = [req EXCEPT ![t] = [req[t] EXCEPT !.at = "rehome", !.case = c, !.heir = h]]
    BY <2>1
  <2>. QED
    BY <1>1, <1>4, <2>2 DEF Request
<1>. QED
  BY <1>2, <1>3, <1>4

LEMMA DeleteGoesOn ==
  ASSUME Typed, Typed', Kept, NEW t \in Threads,
         \/ CountLinks(t) \/ DropUnlinked(t) \/ DeleteCase(t) \/ DeleteLinks(t)
         \/ UnlinkAll(t) \/ (\E c \in Cases : SweepNext(t, c)) \/ SweepDrop(t) \/ Rehome(t) \/ SweepDone(t)
         \/ DropFeature(t) \/ DeleteStep(t) \/ Scan(t) \/ Purge(t)
  PROVE  Kept'
<1>1. /\ Serving /\ Serving' /\ req \in [Threads -> Request] /\ req' \in [Threads -> Request] /\ Fits(req[t])
      /\ assoc \subseteq Features \X Cases /\ case \in [Cases -> Document]
      /\ feature \in [Features -> Presence] /\ step \in [Steps -> Presence] /\ StoredCases \subseteq Cases
      /\ \A c \in StoredCases : case[c].source \in Features
  BY DEF Typed, Serving, TypeOK, StoredCases
<1>2. req[t].at \in DeletionPoints
  <2>1. CASE CountLinks(t) \/ DropUnlinked(t) \/ DeleteCase(t) \/ DeleteLinks(t) \/ UnlinkAll(t) \/ SweepDrop(t) \/ Rehome(t)
    BY <2>1 DEF CountLinks, DropUnlinked, DeleteCase, DeleteLinks, UnlinkAll, SweepDrop, Rehome, DeletionPoints, Sweeping, At
  <2>2. CASE SweepDone(t) \/ DropFeature(t) \/ DeleteStep(t) \/ Scan(t) \/ Purge(t)
    BY <2>2 DEF SweepDone, DropFeature, DeleteStep, Scan, Purge, DeletionPoints, Sweeping, At
  <2>3. CASE \E c \in Cases : SweepNext(t, c)
    BY <1>1, <2>3, SweepForms DEF DeletionPoints, Sweeping
  <2>. QED
    BY <2>1, <2>2, <2>3
<1>3. req[t].op \in Deletion
  BY <1>1, <1>2, Points
<1>4. OthersIdle(t) /\ Solo(t)
  BY <1>1, <1>3, ByItself, SoloIsKept DEF Kept, OthersIdle
<1>5. \A u \in Threads \ {t} : req'[u] = req[u]
  <2>1. CASE CountLinks(t) \/ DropUnlinked(t) \/ DeleteCase(t) \/ DeleteLinks(t) \/ UnlinkAll(t) \/ SweepDrop(t) \/ Rehome(t)
    BY <1>1, <2>1 DEF CountLinks, DropUnlinked, DeleteCase, DeleteLinks, UnlinkAll, SweepDrop, Rehome, Goto, End
  <2>2. CASE SweepDone(t) \/ DropFeature(t) \/ DeleteStep(t) \/ Scan(t) \/ Purge(t)
    BY <1>1, <2>2 DEF SweepDone, DropFeature, DeleteStep, Scan, Purge, Goto, End
  <2>3. CASE \E c \in Cases : SweepNext(t, c)
    BY <1>1, <2>3, SweepForms
  <2>. QED
    BY <2>1, <2>2, <2>3
\* It goes on deleting.
<1>6. ASSUME req'[t].op \in Deletion, Solo(t)' PROVE Kept'
  BY <1>1, <1>4, <1>5, <1>6, SoloStep
\* It has ended.
<1>7. ASSUME End(t), UNCHANGED <<feature, case, assoc, detached>>, InHand(t) = {} \/ (LinksOf(req[t].case) # {} /\ At(t, "count")),
             ~At(t, "unassoc"), Referenced \subseteq StoredSteps'
      PROVE Kept'
  <2>1. req'[t].at = "idle" /\ req'[t].op = "none" /\ UNCHANGED torn
    BY <1>1, <1>7, IdleFits DEF End, histVars
  <2>2. \A u \in Threads : req'[u].at = "idle" /\ req'[u].op = "none"
    BY <1>4, <1>5, <2>1 DEF OthersIdle
  <2>3. StoredCases' = StoredCases /\ Referenced' = Referenced /\ LiveFeatures' = LiveFeatures
    BY <1>7 DEF StoredCases, Referenced, LiveFeatures
  <2>4. \A u \in Threads : KnowsSteps(u)' /\ KnowsLinks(u)'
    BY <2>2 DEF KnowsSteps, KnowsLinks
  <2>5. \A c \in StoredCases \ torn : LinksOf(c) # {}
    BY <1>4, <1>7, Hands DEF Solo, At
  <2>6. \A c \in StoredCases \ (torn \cup detached) : <<case[c].source, c>> \in assoc
    BY <1>4, <1>7 DEF Solo, Files, Sweeping, At
  <2>7. Built'
    BY <1>4, <1>7, <2>1, <2>3, <2>4, <2>5, <2>6 DEF Solo, Built, At, LinksOf
  <2>. QED
    BY <1>1, <1>4, <1>5, <2>1, <2>7, SoloStep
<1>8. CASE CountLinks(t) /\ LinksOf(req[t].case) # {}
  <2>1. End(t) /\ At(t, "count") /\ UNCHANGED <<dataVars, detached>>
    BY <1>8 DEF CountLinks
  <2>. QED
    BY <1>4, <1>7, <1>8, <2>1 DEF dataVars, At, Solo, StoredSteps
<1>9. CASE CountLinks(t) /\ LinksOf(req[t].case) = {}
  <2>1. /\ req[t].at = "count" /\ req[t].op = "unlink" /\ UNCHANGED <<dataVars, torn, detached>>
        /\ req'[t].at = "drop" /\ req'[t].op = req[t].op /\ req'[t].case = req[t].case
    BY <1>1, <1>9 DEF CountLinks, Goto, At, Fits, Request, histVars
  <2>2. InHand(t) = {req[t].case} /\ InHand(t)' = {req[t].case}
    BY <2>1, Hands, HandsNext
  <2>3. KnowsRemains(t)'
    BY <1>9, <2>1 DEF KnowsRemains, LinksOf, Sweeping, dataVars
  <2>4. Solo(t)'
    BY <1>4, <2>1, <2>2, <2>3 DEF Solo, Files, Sweeping, At, StoredCases, StoredSteps, Referenced, LiveFeatures, LinksOf, dataVars
  <2>. QED
    BY <1>6, <2>1, <2>4 DEF Deletion
<1>10. ASSUME NEW k, DropCase(k)
       PROVE  /\ StoredCases' = StoredCases \ {k} /\ Referenced' \subseteq Referenced
              /\ \A c \in StoredCases' : case'[c] = case[c]
  BY <1>1, <1>10 DEF DropCase, StoredCases, Referenced, No
\* A case is dropped that nothing links any more.
<1>11. ASSUME DropUnlinked(t) \/ SweepDrop(t) PROVE Kept'
  <2> DEFINE k == req[t].case
  <2>1. /\ DropCase(k) /\ UNCHANGED <<feature, step, assoc, torn, detached>>
        /\ \/ req[t].at = "drop" /\ req'[t].at = "scan"
           \/ req[t].at = "sweep_drop" /\ req'[t].at = "sweep" /\ req'[t].todo = req[t].todo \ {k}
        /\ req'[t].op = req[t].op /\ req'[t].feat = req[t].feat
    BY <1>1, <1>11 DEF DropUnlinked, SweepDrop, Goto, At, Request, histVars
  <2>2. LinksOf(k) = {} /\ \A a \in assoc : a[2] # k
    <3>1. LinksOf(k) = {}
      BY <1>4, <2>1 DEF Solo, KnowsRemains
    <3>. QED
      BY <1>1, <3>1 DEF LinksOf
  <2>3. /\ StoredCases' = StoredCases \ {k} /\ Referenced' \subseteq Referenced
        /\ (\A c \in StoredCases' : case'[c] = case[c]) /\ LiveFeatures' = LiveFeatures /\ StoredSteps' = StoredSteps
    BY <1>10, <2>1 DEF LiveFeatures, StoredSteps
  <2>4. KnowsRemains(t)'
    BY <1>4, <2>1, <2>3 DEF Solo, KnowsRemains, CasesOf, Sweeping
  <2>5. \A c \in InHand(t) : c = k \/ c \in InHand(t)'
    BY <2>1, Hands, HandsNext DEF Sweeping
  <2>6. \A c \in StoredCases' : Files(t, c) => Files(t, c)'
    BY <2>1, <2>3, <2>5 DEF Files, Sweeping
  <2>7. \A a \in assoc' : a[1] \in LiveFeatures' /\ a[2] \in StoredCases' \cup torn'
    BY <1>4, <2>1, <2>2, <2>3 DEF Solo, At
  <2>8. \A c \in StoredCases' \ torn' : LinksOf(c)' # {} \/ c \in InHand(t)'
    BY <1>4, <2>1, <2>3, <2>5 DEF Solo, LinksOf
  <2>9. \A c \in StoredCases' \ (torn' \cup detached') : <<case'[c].source, c>> \in assoc' \/ Files(t, c)'
    BY <1>4, <2>1, <2>3, <2>6 DEF Solo
  <2>10. Solo(t)'
    BY <1>4, <2>1, <2>3, <2>4, <2>7, <2>8, <2>9 DEF Solo
  <2>. QED
    BY <1>3, <1>6, <2>1, <2>10
<1>12. ASSUME DeleteCase(t) PROVE Kept'
  <2> DEFINE k == req[t].case
  <2>1. /\ DropCase(k) /\ UNCHANGED <<feature, step, assoc, torn, detached>>
        /\ req[t].at = "drop_case" /\ req'[t].at = "unassoc" /\ req'[t].case = k /\ req'[t].op = req[t].op
    BY <1>1, <1>12 DEF DeleteCase, Goto, At, Request, histVars
  <2>2. /\ StoredCases' = StoredCases \ {k} /\ Referenced' \subseteq Referenced
        /\ (\A c \in StoredCases' : case'[c] = case[c]) /\ LiveFeatures' = LiveFeatures /\ StoredSteps' = StoredSteps
    BY <1>10, <2>1 DEF LiveFeatures, StoredSteps
  <2>3. KnowsRemains(t)'
    BY <2>1, <2>2 DEF KnowsRemains, Sweeping
  <2>4. InHand(t) = {} /\ \A c : ~Files(t, c)
    BY <2>1, Hands DEF Files, Sweeping
  <2>5. Solo(t)'
    BY <1>4, <2>1, <2>2, <2>3, <2>4 DEF Solo, At, LinksOf
  <2>. QED
    BY <1>3, <1>6, <2>1, <2>5
<1>13. ASSUME DeleteLinks(t) PROVE Kept'
  <2> DEFINE k == req[t].case
  <2>1. /\ UNCHANGED <<feature, case, step, torn, detached>> /\ assoc' = {a \in assoc : a[2] # k}
        /\ req[t].at = "unassoc" /\ req'[t].at = "scan" /\ req'[t].op = req[t].op
    BY <1>1, <1>13 DEF DeleteLinks, Goto, At, Request, histVars
  <2>2. k \notin StoredCases
    BY <1>4, <2>1 DEF Solo, KnowsRemains
  <2>3. /\ StoredCases' = StoredCases /\ Referenced' = Referenced
        /\ LiveFeatures' = LiveFeatures /\ StoredSteps' = StoredSteps
    BY <2>1 DEF LiveFeatures, StoredSteps, StoredCases, Referenced
  <2>4. KnowsRemains(t)'
    BY <2>1, <2>2 DEF KnowsRemains, Sweeping
  <2>5. InHand(t) = {k} /\ \A c : ~Files(t, c)
    BY <2>1, Hands DEF Files, Sweeping
  <2>6. \A c \in StoredCases : LinksOf(c)' = LinksOf(c)
    BY <2>1, <2>2 DEF LinksOf
  <2>7. \A a \in assoc' : a[1] \in LiveFeatures' /\ a[2] \in StoredCases' \cup torn'
    BY <1>4, <2>1, <2>3 DEF Solo, At
  <2>8. \A c \in StoredCases' \ torn' : LinksOf(c)' # {}
    BY <1>4, <2>1, <2>2, <2>3, <2>5, <2>6 DEF Solo
  <2>9. \A c \in StoredCases' \ (torn' \cup detached') : <<case'[c].source, c>> \in assoc'
    BY <1>4, <2>1, <2>2, <2>3, <2>5 DEF Solo
  <2>10. Solo(t)'
    BY <1>4, <2>1, <2>3, <2>4, <2>7, <2>8, <2>9 DEF Solo
  <2>. QED
    BY <1>3, <1>6, <2>1, <2>10
<1>14. ASSUME UnlinkAll(t) PROVE Kept'
  <2> DEFINE f == req[t].feat
  <2>1. /\ UNCHANGED <<feature, case, step, torn>> /\ assoc' = {a \in assoc : a[1] # f}
        /\ detached' = IF req[t].op = "reset" THEN detached \cup Authored(f, req[t].todo) ELSE detached
        /\ req[t].at = "unlink_all" /\ req'[t].at = "sweep" /\ req'[t].op = req[t].op /\ req'[t].feat = f
        /\ req'[t].todo = req[t].todo
    BY <1>1, <1>14 DEF UnlinkAll, Goto, At, Request, histVars
  <2>2. f \in LiveFeatures /\ CasesOf(f) \subseteq req[t].todo
    BY <1>4, <2>1 DEF Solo, KnowsRemains
  <2>3. /\ StoredCases' = StoredCases /\ Referenced' = Referenced
        /\ LiveFeatures' = LiveFeatures /\ StoredSteps' = StoredSteps
    BY <2>1 DEF LiveFeatures, StoredSteps, StoredCases, Referenced
  <2>5. KnowsRemains(t)'
    BY <2>1, <2>2, <2>3 DEF KnowsRemains, CasesOf, Sweeping
  <2>6. InHand(t) = {} /\ (\A c : ~Files(t, c)) /\ InHand(t)' = req[t].todo
    BY <2>1, Hands, HandsNext DEF Files, Sweeping
  <2>7. \A c \in StoredCases' \ torn' : LinksOf(c)' # {} \/ c \in InHand(t)'
    <3> SUFFICES ASSUME NEW c \in StoredCases \ torn PROVE (\E g \in Features : <<g, c>> \in assoc') \/ c \in InHand(t)'
      BY <2>1, <2>3 DEF LinksOf
    <3>1. PICK g \in Features : <<g, c>> \in assoc
      BY <1>4, <2>6 DEF Solo, LinksOf
    <3>2. g = f => c \in req[t].todo
      BY <1>1, <2>2, <3>1 DEF CasesOf
    <3>3. g # f => <<g, c>> \in assoc'
      BY <2>1, <3>1
    <3>. QED
      BY <2>6, <3>2, <3>3
  <2>8. ASSUME NEW c \in StoredCases' \ (torn' \cup detached') PROVE <<case'[c].source, c>> \in assoc' \/ Files(t, c)'
    <3>1. c \in Cases /\ c \in StoredCases \ (torn \cup detached) /\ <<case[c].source, c>> \in assoc /\ case' = case
      BY <1>1, <1>4, <2>1, <2>3, <2>6, <2>8 DEF Solo
    <3>2. CASE case[c].source # f
      BY <2>1, <3>1, <3>2
    <3>3. CASE case[c].source = f
      <4>1. c \in req[t].todo
        BY <2>2, <3>1, <3>3 DEF CasesOf
      <4>2. req[t].op # "reset"
        BY <2>1, <2>8, <3>1, <3>3, <4>1 DEF Authored
      <4>. QED
        BY <2>1, <2>6, <3>1, <3>3, <4>1, <4>2 DEF Files, Sweeping
    <3>. QED
      BY <3>2, <3>3
  <2>9. \A a \in assoc' : a[1] \in LiveFeatures' /\ a[2] \in StoredCases' \cup torn'
    BY <1>4, <2>1, <2>3 DEF Solo, At
  <2>10. Solo(t)'
    BY <1>4, <2>1, <2>3, <2>5, <2>7, <2>8, <2>9 DEF Solo
  <2>. QED
    BY <1>3, <1>6, <2>1, <2>10
\* A case that is linked or dropped next: another point of the sweep.
<1>15. ASSUME NEW c \in Cases, SweepNext(t, c), req'[t].at \in {"sweep_drop", "rehome"} PROVE Kept'
  <2>1. /\ req[t].at = "sweep" /\ UNCHANGED <<dataVars, torn, detached>>
        /\ req'[t].op = req[t].op /\ req'[t].feat = req[t].feat /\ req'[t].todo = req[t].todo /\ req'[t].case = c
        /\ req'[t].at = "sweep_drop" => LinksOf(c) = {}
        /\ req'[t].at = "rehome" => req'[t].heir \in LinksOf(c)
    BY <1>1, <1>15, SweepForms
  <2>2. /\ StoredCases' = StoredCases /\ Referenced' = Referenced /\ LiveFeatures' = LiveFeatures /\ StoredSteps' = StoredSteps
        /\ \A k : LinksOf(k)' = LinksOf(k)
    BY <2>1 DEF LiveFeatures, StoredSteps, StoredCases, Referenced, LinksOf, dataVars
  <2>3. KnowsRemains(t)'
    <3>1. req'[t].at = "sweep_drop" => {f \in Features : <<f, req'[t].case>> \in assoc'} = {}
      BY <2>1 DEF LinksOf, dataVars
    <3>2. req'[t].at = "rehome" => <<req'[t].heir, req'[t].case>> \in assoc'
      BY <2>1 DEF LinksOf, dataVars
    <3>3. CasesOf(req[t].feat) = {} /\ req[t].feat \in LiveFeatures
      BY <1>4, <2>1 DEF Solo, KnowsRemains, Sweeping
    <3>. QED
      BY <1>15, <2>1, <2>2, <3>1, <3>2, <3>3 DEF KnowsRemains, CasesOf, LinksOf, Sweeping, dataVars
  <2>4. InHand(t)' = InHand(t)
    BY <1>15, <2>1, Hands, HandsNext DEF Sweeping
  <2>5. \A k : Files(t, k)' <=> Files(t, k)
    BY <1>15, <2>1, <2>4 DEF Files, Sweeping, dataVars
  <2>6. Solo(t)'
    BY <1>4, <1>15, <2>1, <2>2, <2>3, <2>4, <2>5 DEF Solo, At, dataVars
  <2>. QED
    BY <1>3, <1>6, <2>1, <2>6
\* A case that is still linked and stays where it is, or the last one.
<1>16. ASSUME UNCHANGED <<dataVars, torn, detached>>, req[t].at = "sweep",
              req'[t].at \in {"sweep", "scan", "drop_feature"}, req'[t].op = req[t].op, req'[t].feat = req[t].feat,
              req'[t].at # "sweep" => req[t].todo = {},
              NEW c, req'[t].at = "sweep" => req[t].op = "reset" /\ req'[t].todo = req[t].todo \ {c} /\ LinksOf(c) # {}
       PROVE Kept'
  <2>1. /\ StoredCases' = StoredCases /\ Referenced' = Referenced /\ LiveFeatures' = LiveFeatures /\ StoredSteps' = StoredSteps
        /\ \A k : LinksOf(k)' = LinksOf(k)
    BY <1>16 DEF LiveFeatures, StoredSteps, StoredCases, Referenced, LinksOf, dataVars
  <2>2. KnowsRemains(t)'
    BY <1>4, <1>16, <2>1 DEF Solo, KnowsRemains, CasesOf, Sweeping, dataVars
  <2>3. \A k \in InHand(t) : k \in InHand(t)' \/ LinksOf(k) # {}
    BY <1>16, Hands, HandsNext DEF Sweeping
  <2>4. \A k : ~Files(t, k)
    BY <1>16, Hands DEF Files, Sweeping
  <2>5. Solo(t)'
    BY <1>4, <1>16, <2>1, <2>2, <2>3, <2>4 DEF Solo, At, dataVars
  <2>. QED
    BY <1>3, <1>6, <1>16, <2>5
<1>17. ASSUME NEW c \in Cases, SweepNext(t, c) PROVE Kept'
  <2>1. CASE LinksOf(c) # {} /\ req[t].op = "reset"
    <3>1. /\ UNCHANGED <<dataVars, torn, detached>> /\ req[t].at = "sweep" /\ req'[t].at = "sweep"
          /\ req'[t].op = req[t].op /\ req'[t].feat = req[t].feat /\ req'[t].todo = req[t].todo \ {c}
      <4>1. req'[t].at = "sweep" /\ req'[t].todo = req[t].todo \ {c}
        <5>1. req' = [req EXCEPT ![t] = [req[t] EXCEPT !.todo = @ \ {c}]] /\ req[t].at = "sweep"
          BY <1>17, <2>1 DEF SweepNext, At
        <5>. QED
          BY <1>1, <5>1 DEF Request
      <4>. QED
        BY <1>1, <1>17, <4>1, SweepForms
    <3>. QED
      BY <1>16, <2>1, <3>1
  <2>2. CASE LinksOf(c) = {} \/ req[t].op # "reset"
    <3>1. req'[t].at \in {"sweep_drop", "rehome"}
      BY <1>1, <1>17, <2>2, SweepForms
    <3>. QED
      BY <1>15, <1>17, <3>1
  <2>. QED
    BY <2>1, <2>2
<1>18. ASSUME SweepDone(t) PROVE Kept'
  <2>1. /\ UNCHANGED <<dataVars, torn, detached>> /\ req[t].at = "sweep" /\ req[t].todo = {}
        /\ req'[t].at \in {"scan", "drop_feature"} /\ req'[t].op = req[t].op /\ req'[t].feat = req[t].feat
    BY <1>1, <1>18 DEF SweepDone, Goto, At, Request, histVars
  <2>. QED
    BY <1>16, <2>1
<1>19. ASSUME Rehome(t) PROVE Kept'
  <2> DEFINE k == req[t].case
  <2>1. /\ req[t].at = "rehome" /\ req[t].op = "delete_feature" /\ req[t].heir \in Features /\ UNCHANGED <<feature, step, assoc, torn, detached>>
        /\ req'[t].at = "sweep" /\ req'[t].op = req[t].op /\ req'[t].feat = req[t].feat /\ req'[t].todo = req[t].todo \ {k}
    BY <1>1, <1>19 DEF Rehome, At, Request, Fits, histVars
  <2>2. /\ StoredCases' = StoredCases
        /\ \A c \in StoredCases : case'[c].steps = case[c].steps /\ (c # k => case'[c].source = case[c].source)
        /\ k \in StoredCases => case'[k].source = IF case[k].source = req[t].feat THEN req[t].heir ELSE case[k].source
    BY <1>1, <1>19 DEF Rehome, StoredCases, Document
  <2>3. Referenced' = Referenced /\ LiveFeatures' = LiveFeatures /\ StoredSteps' = StoredSteps /\ \A c : LinksOf(c)' = LinksOf(c)
    BY <2>1, <2>2 DEF LiveFeatures, StoredSteps, Referenced, LinksOf
  <2>4. <<req[t].heir, k>> \in assoc /\ LinksOf(k) # {}
    BY <1>4, <2>1 DEF Solo, KnowsRemains, LinksOf
  <2>5. KnowsRemains(t)'
    BY <1>4, <2>1, <2>3 DEF Solo, KnowsRemains, CasesOf, Sweeping
  <2>6. InHand(t) = req[t].todo /\ InHand(t)' = req[t].todo \ {k}
    BY <2>1, Hands, HandsNext DEF Sweeping
  <2>7. \A a \in assoc' : a[1] \in LiveFeatures' /\ a[2] \in StoredCases' \cup torn'
    BY <1>4, <2>1, <2>2, <2>3 DEF Solo, At
  <2>8. \A c \in StoredCases' \ torn' : LinksOf(c)' # {} \/ c \in InHand(t)'
    BY <1>4, <2>1, <2>2, <2>3, <2>4, <2>6 DEF Solo
  <2>9. ASSUME NEW c \in StoredCases \ (torn \cup detached) PROVE <<case'[c].source, c>> \in assoc' \/ Files(t, c)'
    <3>1. <<case[c].source, c>> \in assoc \/ (c \in InHand(t) /\ case[c].source = req[t].feat)
      BY <1>4 DEF Solo, Files
    <3>2. CASE c = k
      BY <2>1, <2>2, <2>4, <3>1, <3>2
    <3>3. CASE c # k
      BY <2>1, <2>2, <2>6, <3>1, <3>3 DEF Files, Sweeping
    <3>. QED
      BY <3>2, <3>3
  <2>10. Solo(t)'
    BY <1>4, <2>1, <2>2, <2>3, <2>5, <2>7, <2>8, <2>9 DEF Solo
  <2>. QED
    BY <1>3, <1>6, <2>1, <2>10
<1>20. ASSUME DropFeature(t) PROVE Kept'
  <2> DEFINE f == req[t].feat
  <2>1. /\ req[t].at = "drop_feature" /\ UNCHANGED <<case, step, assoc, torn, detached>> /\ feature' = [feature EXCEPT ![f] = "gone"]
        /\ req'[t].at = "scan" /\ req'[t].op = req[t].op
    BY <1>1, <1>20 DEF DropFeature, Goto, At, Request, histVars
  <2>2. /\ StoredCases' = StoredCases /\ Referenced' = Referenced /\ StoredSteps' = StoredSteps /\ (\A c : LinksOf(c)' = LinksOf(c))
        /\ \A g \in LiveFeatures : g # f => g \in LiveFeatures'
    BY <1>1, <2>1 DEF LiveFeatures, StoredSteps, StoredCases, Referenced, LinksOf
  <2>3. \A a \in assoc : a[1] # f
    BY <1>1, <1>4, <2>1 DEF Solo, KnowsRemains, CasesOf
  <2>4. KnowsRemains(t)'
    BY <2>1 DEF KnowsRemains, Sweeping
  <2>5. InHand(t) = {} /\ \A c : ~Files(t, c)
    BY <2>1, Hands DEF Files, Sweeping
  <2>6. \A a \in assoc' : a[1] \in LiveFeatures' /\ a[2] \in StoredCases' \cup torn'
    BY <1>4, <2>1, <2>2, <2>3 DEF Solo, At
  <2>7. Solo(t)'
    BY <1>4, <2>1, <2>2, <2>4, <2>5, <2>6 DEF Solo
  <2>. QED
    BY <1>3, <1>6, <2>1, <2>7
<1>21. ASSUME Scan(t) PROVE Kept'
  <2>1. /\ req[t].at = "scan" /\ UNCHANGED <<dataVars, torn, detached>>
        /\ req'[t].at = "purge" /\ req'[t].op = req[t].op /\ req'[t].steps = Referenced
    BY <1>1, <1>21 DEF Scan, At, Request, histVars
  <2>2. /\ StoredCases' = StoredCases /\ Referenced' = Referenced /\ LiveFeatures' = LiveFeatures /\ StoredSteps' = StoredSteps
        /\ \A k : LinksOf(k)' = LinksOf(k)
    BY <2>1 DEF LiveFeatures, StoredSteps, StoredCases, Referenced, LinksOf, dataVars
  <2>3. KnowsRemains(t)'
    BY <2>1 DEF KnowsRemains, Sweeping
  <2>4. InHand(t) = {} /\ \A c : ~Files(t, c)
    BY <2>1, Hands DEF Files, Sweeping
  <2>5. Solo(t)'
    BY <1>4, <2>1, <2>2, <2>3, <2>4 DEF Solo, At, dataVars
  <2>. QED
    BY <1>3, <1>6, <2>1, <2>5
<1>22. ASSUME DeleteStep(t) \/ Purge(t) PROVE Kept'
  <2>1. req[t].at \in {"drop_step", "purge"} /\ End(t) /\ UNCHANGED <<feature, case, assoc, detached>>
    BY <1>22 DEF DeleteStep, Purge, At
  <2>2. PICK gone : RemoveSteps(gone) /\ gone \cap Referenced = {}
    BY <1>4, <1>22 DEF DeleteStep, Purge, At, Solo
  <2>3. Referenced \subseteq StoredSteps'
    BY <1>4, <2>2 DEF RemoveSteps, StoredSteps, Solo
  <2>4. InHand(t) = {}
    BY <2>1, Hands
  <2>5. ~At(t, "unassoc")
    BY <2>1 DEF At
  <2>. QED
    BY <1>7, <2>1, <2>3, <2>4, <2>5
<1>. QED
  BY <1>8, <1>9, <1>11, <1>12, <1>13, <1>14, <1>17, <1>18, <1>19, <1>20, <1>21, <1>22

-----------------------------------------------------------------------------
(* A clash is never forgotten. *)

LEMMA BeginKeepsClash == ASSUME NEW t, NEW r, Begin(t, r) PROVE clash => clash'
BY DEF Begin

LEMMA GotoKeepsClash == ASSUME NEW t, NEW p, Goto(t, p) PROVE clash => clash'
BY DEF Goto, histVars

LEMMA EndKeepsClash == ASSUME NEW t, End(t) PROVE clash => clash'
BY DEF End, histVars

LEMMA ClashKept ==
  ASSUME NEW t \in Threads, Build(t) \/ Versioning(t) \/ Delete(t)
  PROVE  clash => clash'
<1>1. ASSUME NEW f \in Features, BeginGenerate(t, f) \/ BeginCreate(t, f) PROVE clash => clash'
  BY <1>1, BeginKeepsClash, ZenonT(30) DEF BeginGenerate, BeginCreate
<1>2. ASSUME NEW f \in Features, NEW c \in Cases, BeginAssociate(t, f, c) \/ BeginUnlink(t, f, c) PROVE clash => clash'
  BY <1>2, BeginKeepsClash, ZenonT(30) DEF BeginAssociate, BeginUnlink
<1>3. ASSUME NEW c \in Cases, BeginEdit(t, c) \/ \E force \in BOOLEAN : BeginDeleteCase(t, c, force) PROVE clash => clash'
  BY <1>3, BeginKeepsClash, ZenonT(30) DEF BeginEdit, BeginDeleteCase
<1>4. ASSUME NEW f \in Features, NEW g \in Features, BeginVersion(t, f, g) PROVE clash => clash'
  BY <1>4, BeginKeepsClash, ZenonT(30) DEF BeginVersion
<1>5. ASSUME NEW f \in Features, NEW op \in Op, BeginClear(t, f, op) PROVE clash => clash'
  BY <1>5, BeginKeepsClash, ZenonT(30) DEF BeginClear
<1>6. ASSUME NEW s \in Steps, BeginDeleteStep(t, s) PROVE clash => clash'
  BY <1>6, BeginKeepsClash, ZenonT(30) DEF BeginDeleteStep
<1>7. ASSUME Lookup(t) \/ StepsDone(t) \/ Link(t) \/ UpdateCase(t) \/ CreateVersion(t) \/ Carry(t) PROVE clash => clash'
  BY <1>7, GotoKeepsClash, EndKeepsClash, ZenonT(30)
     DEF Lookup, StepsDone, Link, UpdateCase, CreateVersion, Carry, histVars
<1>8. ASSUME NEW s \in Steps, ReuseStep(t, s) \/ NewStep(t, s) PROVE clash => clash'
  BY <1>8 DEF ReuseStep, NewStep, histVars
<1>9. ASSUME NEW c \in Cases, InsertCase(t, c) \/ SweepNext(t, c) PROVE clash => clash'
  BY <1>9 DEF InsertCase, SweepNext, histVars
<1>10. ASSUME CountLinks(t) \/ DropUnlinked(t) \/ DeleteCase(t) \/ DeleteLinks(t) \/ UnlinkAll(t) PROVE clash => clash'
  BY <1>10, GotoKeepsClash, EndKeepsClash, ZenonT(30)
     DEF CountLinks, DropUnlinked, DeleteCase, DeleteLinks, UnlinkAll
<1>11. ASSUME SweepDrop(t) \/ Rehome(t) \/ Scan(t) PROVE clash => clash'
  BY <1>11 DEF SweepDrop, Rehome, Scan, histVars
<1>12. ASSUME SweepDone(t) \/ DropFeature(t) \/ DeleteStep(t) \/ Purge(t) PROVE clash => clash'
  BY <1>12, GotoKeepsClash, EndKeepsClash, ZenonT(30) DEF SweepDone, DropFeature, DeleteStep, Purge
<1>13. CASE Build(t)
  BY <1>13, <1>1, <1>2, <1>3, <1>7, <1>8, <1>9, ZenonT(30) DEF Build
<1>14. CASE Versioning(t)
  BY <1>14, <1>4, <1>7 DEF Versioning
<1>15. CASE Delete(t)
  BY <1>15, <1>2, <1>3, <1>5, <1>6, <1>9, <1>10, <1>11, <1>12, ZenonT(30) DEF Delete
<1>. QED
  BY <1>13, <1>14, <1>15

-----------------------------------------------------------------------------
(* Every step *)

LEMMA StepSound == Typed /\ Typed' /\ Sound /\ [Next]_vars => Sound'
<1> SUFFICES ASSUME Typed, Typed', Sound, [Next]_vars, ~clash' PROVE Kept'
  BY DEF Sound
<1>1. Serving /\ Serving' /\ req \in [Threads -> Request] /\ step \in [Steps -> Presence]
  BY DEF Typed, Serving, TypeOK
<1>2. ~clash => Kept
  BY DEF Sound
<1>3. ASSUME NEW t \in Threads, Build(t) \/ Versioning(t), ~clash PROVE Kept'
  BY <1>2, <1>3, BuildKept
<1>4. ASSUME NEW t \in Threads, Delete(t), ~clash PROVE Kept'
  BY <1>2, <1>4, DeleteBegins, DeleteGoesOn DEF Delete
<1>5. ASSUME NEW s \in Steps, CreateStep(s) PROVE Kept'
  <2>1. UNCHANGED <<feature, case, assoc, req, torn, detached, clash>> /\ StoredSteps \subseteq StoredSteps'
    BY <1>1, <1>5 DEF CreateStep, StoredSteps, histVars
  <2>2. StoredCases' = StoredCases /\ Referenced' = Referenced /\ LiveFeatures' = LiveFeatures
    BY <2>1 DEF StoredCases, Referenced, LiveFeatures
  <2>3. Kept
    BY <1>2, <2>1
  <2>4. Alone' /\ Named' /\ Ends' /\ Linking'
    BY <2>1, <2>2, <2>3 DEF Kept, Alone, Named, Ends, Linking, KnowsLinks, At
  <2>5. (\A c : LinksOf(c)' = LinksOf(c)) /\ (\A u : InHand(u)' = InHand(u)) /\ (\A u, c : Files(u, c)' <=> Files(u, c))
    BY <2>1 DEF LinksOf, InHand, Authored, StoredCases, Files
  <2>6. \A u : KnowsRemains(u)' <=> KnowsRemains(u)
    BY <2>1, <2>2 DEF KnowsRemains, LinksOf, CasesOf
  <2>7. Unlinking' /\ Reached' /\ Filed'
    BY <2>1, <2>2, <2>3, <2>5, <2>6 DEF Kept, Unlinking, Reached, Filed
  <2>. QED
    BY <2>4, <2>7 DEF Kept
<1>6. ASSUME Crash PROVE Kept'
  <2>1. /\ UNCHANGED <<feature, case, step, assoc, detached, clash>> /\ torn' = torn \cup UNION {InHand(t) : t \in Busy}
        /\ \A u \in Threads : req'[u].at = "idle" /\ req'[u].op = "none"
    BY <1>6, IdleFits DEF Crash, dataVars
  <2>2. StoredCases' = StoredCases /\ Referenced' = Referenced /\ LiveFeatures' = LiveFeatures /\ StoredSteps' = StoredSteps
        /\ \A c : LinksOf(c)' = LinksOf(c)
    BY <2>1 DEF StoredCases, Referenced, LiveFeatures, StoredSteps, LinksOf
  <2>3. Kept
    BY <1>2, <2>1
  <2>4. \A u \in Threads : InHand(u) \subseteq torn'
    <3> SUFFICES ASSUME NEW u \in Threads PROVE InHand(u) \subseteq torn'
      OBVIOUS
    <3>1. CASE u \in Busy
      BY <2>1, <3>1
    <3>2. CASE u \notin Busy
      BY <3>2 DEF Busy, InHand
    <3>. QED
      BY <3>1, <3>2
  <2>5. \A u \in Threads : KnowsSteps(u)' /\ KnowsLinks(u)'
    BY <2>1 DEF KnowsSteps, KnowsLinks
  <2>6. \A u \in Threads : At(u, "unassoc") => req[u].case \in torn'
    <3> SUFFICES ASSUME NEW u \in Threads, At(u, "unassoc") PROVE req[u].case \in torn'
      OBVIOUS
    <3>1. InHand(u) = {req[u].case}
      BY Hands DEF At
    <3>. QED
      BY <2>4, <3>1
  <2>7. \A a \in assoc' : a[1] \in LiveFeatures' /\ a[2] \in StoredCases' \cup torn'
    BY <2>1, <2>2, <2>3, <2>6 DEF Kept, Ends
  <2>8. \A c \in StoredCases' \ torn' : LinksOf(c)' # {}
    BY <2>1, <2>2, <2>3, <2>4 DEF Kept, Reached
  <2>9. \A c \in StoredCases' \ (torn' \cup detached') : <<case'[c].source, c>> \in assoc'
    BY <2>1, <2>2, <2>3, <2>4 DEF Kept, Filed, Files
  <2>10. Built'
    BY <2>2, <2>3, <2>5, <2>7, <2>8, <2>9 DEF Built, Kept, Named
  <2>11. NoDeletion'
    BY <2>1 DEF NoDeletion, Deletion
  <2>12. (Serving /\ NoDeletion => NoneDeletes)'
    BY NobodyDeletes, PTL
  <2>13. (Serving /\ NoneDeletes => (Kept <=> Built))'
    BY BuiltIsKept, PTL
  <2>. QED
    BY <1>1, <2>10, <2>11, <2>12, <2>13
<1>7. ASSUME UNCHANGED vars PROVE Kept'
  <2>1. UNCHANGED <<feature, case, step, assoc, req, torn, detached, clash>>
    BY <1>7 DEF vars, dataVars, histVars
  <2>2. (\A c : LinksOf(c)' = LinksOf(c)) /\ (\A u : InHand(u)' = InHand(u)) /\ (\A u, c : Files(u, c)' <=> Files(u, c))
        /\ StoredCases' = StoredCases /\ Referenced' = Referenced /\ LiveFeatures' = LiveFeatures /\ StoredSteps' = StoredSteps
    BY <2>1 DEF LinksOf, InHand, Authored, StoredCases, Files, Referenced, LiveFeatures, StoredSteps
  <2>3. \A u : KnowsRemains(u)' <=> KnowsRemains(u)
    BY <2>1, <2>2 DEF KnowsRemains, LinksOf, CasesOf
  <2>4. Kept
    BY <1>2, <2>1
  <2>. QED
    BY <2>1, <2>2, <2>3, <2>4 DEF Kept, Alone, Named, Ends, Linking, KnowsLinks, Unlinking, Reached, Filed, At
<1>8. ASSUME NEW t \in Threads, Build(t) \/ Versioning(t) \/ Delete(t) PROVE ~clash
  BY <1>8, ClashKept
<1>. QED
  BY <1>3, <1>4, <1>5, <1>6, <1>7, <1>8 DEF Next

LEMMA InitSound == Init => Sound
<1> SUFFICES ASSUME Init PROVE Kept
  BY DEF Sound
<1>1. Serving
  BY InitTyped DEF Typed
<1>2. \A u \in Threads : req[u].at = "idle" /\ req[u].op = "none"
  BY IdleFits DEF Init
<1>3. NoneDeletes
  BY <1>1, <1>2, NobodyDeletes DEF NoDeletion, Deletion
<1>4. StoredCases = {} /\ assoc = {} /\ Referenced = {}
  BY DEF Init, StoredCases, Referenced, No
<1>5. Built
  BY <1>2, <1>4 DEF Built, KnowsSteps, KnowsLinks
<1>. QED
  BY <1>1, <1>3, <1>5, BuiltIsKept

-----------------------------------------------------------------------------
(* The theorems *)

(* Every state of the library is well formed, for any features, cases and  *)
(* steps.                                                                  *)
THEOREM TypeCorrect == Spec => []TypeOK
<1>1. Spec => []Typed
  BY InitTyped, StepTyped, PTL DEF Spec
<1>. QED
  BY <1>1, PTL DEF Typed

LEMMA SpecSound == Spec => []Typed /\ []Sound
<1>1. Spec => []Typed
  BY InitTyped, StepTyped, PTL DEF Spec
<1>2. Spec => []Sound
  BY <1>1, InitSound, StepSound, PTL DEF Spec
<1>. QED
  BY <1>1, <1>2, PTL

(* As long as no deletion overlapped another request, the steps a case     *)
(* names exist, a link has both its ends, a case is linked by a feature,   *)
(* and the feature it is filed under exists, whatever crashes tore nothing *)
(* of it: the deletions of the store leave nothing dangling by themselves. *)
THEOREM LinksAreSound == Spec => []LinksSound
<1>1. ASSUME Typed, Sound PROVE LinksSound
  <2>1. TypeOK /\ StepsExist
    BY <1>1 DEF Typed, Sound, Kept, Named, StepsExist
  <2>2. ASSUME ~clash, Quiet PROVE /\ \A a \in assoc : a[1] \in LiveFeatures /\ a[2] \in StoredCases \cup torn
                                   /\ \A c \in StoredCases \ torn : LinksOf(c) # {}
                                   /\ \A c \in StoredCases \ (torn \cup detached) : case[c].source \in LiveFeatures
    <3>1. \A u \in Threads : req[u].at = "idle"
      BY <2>2 DEF Quiet, Busy
    <3>2. \A u \in Threads : \A c : c \notin InHand(u) /\ ~Files(u, c)
      BY <3>1 DEF InHand, Files, Sweeping
    <3>3. Ends /\ Reached /\ Filed
      BY <1>1, <2>2 DEF Sound, Kept
    <3>4. \A a \in assoc : a[1] \in LiveFeatures /\ a[2] \in StoredCases \cup torn
      BY <3>1, <3>3 DEF Ends, At
    <3>5. \A c \in StoredCases \ (torn \cup detached) : <<case[c].source, c>> \in assoc
      BY <3>2, <3>3 DEF Filed
    <3>. QED
      BY <3>2, <3>3, <3>4, <3>5 DEF Reached
  <2>. QED
    BY <2>1, <2>2 DEF LinksSound, LinksResolve, CasesReachable, SourceLives
<1>. QED
  BY <1>1, SpecSound, PTL

(* A case that is not dropped stays stored. *)
LEMMA NotDropped ==
  ASSUME NEW c \in StoredCases, case'[c].is = "gone", NEW t \in Threads,
         Build(t) \/ Versioning(t) \/ Delete(t), Typed
  PROVE  (DropUnlinked(t) \/ DeleteCase(t) \/ SweepDrop(t)) /\ req[t].case = c
<1>1. c \in Cases /\ case[c].is = "stored" /\ case \in [Cases -> Document]
  BY DEF StoredCases, Typed, TypeOK
<1>2. case' # case
  BY <1>1
<1>3. \A f : ~BeginGenerate(t, f) /\ ~BeginCreate(t, f)
  BY <1>2, ZenonT(30) DEF BeginGenerate, BeginCreate, dataVars
<1>4. ASSUME NEW d \in Cases PROVE ~InsertCase(t, d)
  BY <1>1 DEF InsertCase
<1>5. ~UpdateCase(t) /\ ~Rehome(t)
  BY <1>1 DEF UpdateCase, Rehome, Document
<1>6. \A f, d : ~BeginAssociate(t, f, d) /\ ~BeginUnlink(t, f, d) /\ ~BeginVersion(t, f, d) /\ ~BeginClear(t, f, d)
                /\ ~BeginDeleteCase(t, f, d)
  BY <1>2, ZenonT(30) DEF BeginAssociate, BeginUnlink, BeginVersion, BeginClear, BeginDeleteCase, dataVars
<1>7. \A d : ~BeginEdit(t, d) /\ ~ReuseStep(t, d) /\ ~NewStep(t, d) /\ ~SweepNext(t, d) /\ ~BeginDeleteStep(t, d)
  BY <1>2, ZenonT(30) DEF BeginEdit, ReuseStep, NewStep, SweepNext, BeginDeleteStep, dataVars
<1>8. ~Lookup(t) /\ ~StepsDone(t) /\ ~Link(t) /\ ~CreateVersion(t) /\ ~Carry(t)
  BY <1>2 DEF Lookup, StepsDone, Link, CreateVersion, Carry, dataVars
<1>9. ~CountLinks(t) /\ ~DeleteLinks(t) /\ ~UnlinkAll(t) /\ ~SweepDone(t) /\ ~DropFeature(t)
  BY <1>2 DEF CountLinks, DeleteLinks, UnlinkAll, SweepDone, DropFeature, dataVars
<1>10. ~DeleteStep(t) /\ ~Scan(t) /\ ~Purge(t)
  BY <1>2 DEF DeleteStep, Scan, Purge, dataVars
<1>11. ~Build(t)
  BY <1>3, <1>4, <1>5, <1>6, <1>7, <1>8, ZenonT(30) DEF Build
<1>12. ~Versioning(t)
  BY <1>6, <1>8, ZenonT(30) DEF Versioning
<1>13. DropUnlinked(t) \/ DeleteCase(t) \/ SweepDrop(t)
  BY <1>5, <1>6, <1>7, <1>9, <1>10, <1>11, <1>12, ZenonT(30) DEF Delete
<1>14. DropCase(req[t].case)
  BY <1>13 DEF DropUnlinked, DeleteCase, SweepDrop
<1>15. req[t].case = c
  BY <1>1, <1>14 DEF DropCase
<1>. QED
  BY <1>13, <1>15

(* A shared case is kept: one that goes is linked by no feature, or is the *)
(* case its user deletes.  What the deletion read before, when it counted  *)
(* the links, still holds when it drops the case.                          *)
THEOREM SharedKept == Spec => SharedCasesKept
<1> DEFINE Spared(c) == case'[c].is = "gone" /\ ~clash =>
              \/ LinksOf(c) = {}
              \/ \E t \in Threads : req[t].at = "drop_case" /\ req[t].case = c
<1>1. ASSUME Typed, Sound, Next, NEW c \in StoredCases, case'[c].is = "gone", ~clash
      PROVE  LinksOf(c) = {} \/ \E t \in Threads : req[t].at = "drop_case" /\ req[t].case = c
  <2>1. c \in Cases /\ case[c].is = "stored"
    BY DEF StoredCases
  <2>2. ~Crash /\ \A s \in Steps : ~CreateStep(s)
    BY <1>1, <2>1 DEF Crash, CreateStep, dataVars
  <2>3. PICK t \in Threads : Build(t) \/ Versioning(t) \/ Delete(t)
    BY <1>1, <2>2 DEF Next
  <2>4. (DropUnlinked(t) \/ DeleteCase(t) \/ SweepDrop(t)) /\ req[t].case = c
    BY <1>1, <2>3, NotDropped
  <2>5. CASE DeleteCase(t)
    BY <2>4, <2>5 DEF DeleteCase, At
  <2>6. CASE DropUnlinked(t) \/ SweepDrop(t)
    <3>1. At(t, "drop") \/ At(t, "sweep_drop")
      BY <2>6 DEF DropUnlinked, SweepDrop
    <3>2. KnowsRemains(t)
      BY <1>1 DEF Sound, Kept, Unlinking
    <3>. QED
      BY <2>4, <3>1, <3>2 DEF KnowsRemains, At
  <2>. QED
    BY <2>4, <2>5, <2>6
<1>2. Typed /\ Sound /\ [Next]_vars => [\A c \in StoredCases : Spared(c)]_vars
  BY <1>1
<1>. QED
  BY <1>2, SpecSound, PTL DEF Spec, SharedCasesKept

-----------------------------------------------------------------------------
(***************************************************************************)
(* The generation.  What is proved of it rests on what each of its lists   *)
(* holds, in whatever order: the suites are tests; after the filters the   *)
(* API suite has tests of all operations and of no other; what is to be    *)
(* stored has gone through the guards; what was stored is in the library.  *)
(***************************************************************************)

\* The suites, and the operations that the documents name.
Names == {"api_tests", "ui_validations", "e2e_tests", "edge_cases", "business_tests"}
Keys == {Gen!ApiKey(Gen!OfOperation(op)) : op \in Gen!ToSet(surface)}

Shaped ==
  /\ doc \in Docs /\ focus \in Focuses
  /\ surface \in Seq(DOMAIN Baseline)
  /\ DOMAIN suites = Names /\ \A s \in Names : Gen!Tests(suites[s])
  /\ \A job \in waiting : job[1] \in {"happy", "negative", "chaos", "ui"}
  /\ todo \in Seq(Gen!ToSet(todo))
  /\ library \in Seq(Gen!ToSet(library))

\* What was there stays, what is new is supported, and no test is there twice.
Grown ==
  /\ Len(Old) <= Len(library)
  /\ \A c \in DOMAIN Old : library[c] = Old[c]
  /\ \A c \in DOMAIN library : Gen!IsTest(library[c].test)
  /\ \A c \in DOMAIN library \ DOMAIN Old : Gen!Backed(library[c].test) /\ Gen!Original(library[c].test)
  /\ \A c, d \in DOMAIN library \ DOMAIN Old : c # d => ~Gen!SameTest(library[c].test, d)

\* The API suite has tests of all operations and of no other.
Tested ==
  pc \in {"layer2", "repair", "guard"} /\ "repair" \notin errors =>
      {Gen!ApiKey(t) : t \in Gen!ToSet(suites["api_tests"])} = Keys

\* What is to be stored has gone through the guards of its suite.
Guarded(x) == \E s \in Names :
  /\ x.type = Gen!TypeOf[s] /\ Gen!IsTest(x.test) /\ Gen!Survives(x.test, s)
  /\ s = "api_tests" /\ "repair" \notin errors => Gen!ApiKey(x.test) \in Keys
Planned == pc = "persist" => \A x \in Gen!ToSet(todo) : Guarded(x)

\* What was stored in this run.
Answered ==
  /\ pc # "persist" => answered = {}
  /\ \A a \in answered :
       /\ a.case \in DOMAIN library
       /\ a.test.category \in {"e2e_tests", "edge_cases"} => Gen!Sourced(a.test)
       /\ a.test.category = "api_tests" => Gen!ApiKey(library[a.case].test) = Gen!ApiKey(a.test)
       /\ a.test.category = "api_tests" /\ "repair" \notin errors => Gen!ApiKey(a.test) \in Keys

GenInv == Shaped /\ Grown /\ Tested /\ Planned /\ Answered
-----------------------------------------------------------------------------
(* Lists: what is in them, whatever the order                              *)

\* The operators of FiniteSets that the instance brings are those of this module.
LEMMA SameSizes ==
  /\ \A S : Gen!IsFiniteSet(S) <=> IsFiniteSet(S)
  /\ \A S : Gen!Cardinality(S) = Cardinality(S)
<1>1. \A S : Gen!IsFiniteSet(S) <=> IsFiniteSet(S)
  BY DEF Gen!IsFiniteSet, IsFiniteSet
<1>2. \A S : Gen!Cardinality(S) = Cardinality(S)
  BY Zenon DEF Gen!Cardinality, Cardinality
<1>. QED
  BY <1>1, <1>2

\* Fewer positions come before an earlier one.
LEMMA Ranks ==
  ASSUME NEW S \in SUBSET Nat, IsFiniteSet(S), NEW i \in S, NEW j \in S, i < j
  PROVE  Cardinality({k \in S : k < i}) < Cardinality({k \in S : k < j})
<1> DEFINE Before(x) == {k \in S : k < x}
<1>0. \A x \in S : x \in Nat
  OBVIOUS
<1>1. IsFiniteSet(Before(i)) /\ IsFiniteSet(Before(j)) /\ i \notin Before(i)
  BY <1>0, FS_Subset
<1>2. Before(i) \union {i} \subseteq Before(j)
  <2>1. \A k \in S : k < i => k < j
    BY <1>0
  <2>. QED
    BY <2>1
<1>3. Cardinality(Before(i) \union {i}) = Cardinality(Before(i)) + 1
  BY <1>1, FS_AddElement
<1>4. Cardinality(Before(i) \union {i}) <= Cardinality(Before(j))
  BY <1>1, <1>2, FS_Subset
<1>5. Cardinality(Before(i)) \in Nat /\ Cardinality(Before(j)) \in Nat
  BY <1>1, FS_CardinalityType
<1>. HIDE DEF Before
<1>6. Cardinality(Before(i)) < Cardinality(Before(j))
  BY <1>3, <1>4, <1>5
<1>. QED
  BY <1>6 DEF Before

\* The n-th position is the one with n - 1 before it.
LEMMA NthOnly ==
  ASSUME NEW S \in SUBSET Nat, IsFiniteSet(S), NEW n, NEW i \in S, Cardinality({k \in S : k < i}) = n - 1
  PROVE  Gen!Nth(S, n) = i
<1> DEFINE rank(x) == Cardinality({k \in S : k < x})
<1>1. \A x \in S : rank(x) = n - 1 => x = i
  <2>1. TAKE x \in S
  <2>2. x < i => rank(x) < rank(i)
    BY Ranks
  <2>3. i < x => rank(i) < rank(x)
    BY Ranks
  <2>4. rank(x) \in Nat /\ rank(i) \in Nat
    <3>1. IsFiniteSet({k \in S : k < x}) /\ IsFiniteSet({k \in S : k < i})
      BY FS_Subset
    <3>. QED
      BY <3>1, FS_CardinalityType
  <2>. QED
    BY <2>2, <2>3, <2>4
<1>2. Gen!Nth(S, n) = CHOOSE x \in S : rank(x) = n - 1
  BY SameSizes DEF Gen!Nth
<1>3. rank(i) = n - 1
  OBVIOUS
<1>. HIDE DEF rank
<1>. QED
  BY <1>1, <1>2, <1>3

\* There is an n-th position for every n up to their number.
LEMMA NthThere ==
  ASSUME NEW S \in SUBSET Nat, IsFiniteSet(S), NEW n \in 1 .. Cardinality(S)
  PROVE  Gen!Nth(S, n) \in S /\ Cardinality({i \in S : i < Gen!Nth(S, n)}) = n - 1
<1> DEFINE N == Cardinality(S)
           Before(i) == {j \in S : j < i}
           rank(i) == Cardinality(Before(i))
           R == {rank(i) : i \in S}
           f == [i \in S |-> rank(i)]
<1>0. N \in Nat /\ \A i \in S : i \in Nat
  BY FS_CardinalityType
<1>1. ASSUME NEW i \in S PROVE IsFiniteSet(Before(i)) /\ rank(i) \in 0 .. N - 1 /\ i \notin Before(i)
  <2>1. i \notin Before(i) /\ Before(i) \subseteq S \ {i}
    BY <1>0
  <2>2. IsFiniteSet(S \ {i}) /\ Cardinality(S \ {i}) = N - 1
    BY FS_RemoveElement
  <2>3. IsFiniteSet(Before(i)) /\ rank(i) <= N - 1
    BY <2>1, <2>2, FS_Subset
  <2>. QED
    BY <1>0, <2>1, <2>3, FS_CardinalityType
<1>3. ASSUME NEW i \in S, NEW j \in S, rank(i) = rank(j) PROVE i = j
  <2>1. rank(i) \in Nat /\ rank(j) \in Nat
    BY <1>0, <1>1
  <2>2. (i < j => rank(i) < rank(j)) /\ (j < i => rank(j) < rank(i))
    BY Ranks
  <2>. HIDE DEF rank
  <2>. QED
    BY <1>0, <1>3, <2>1, <2>2
<1>4. f \in Bijection(S, R)
  <2>. HIDE DEF rank
  <2>. QED
    BY <1>3 DEF Bijection, Injection, Surjection, IsInjective
<1>5. Cardinality(R) = N
  <2>. HIDE DEF f, R
  <2>. QED
    BY <1>4, FS_Bijection DEF ExistsBijection
<1>6. IsFiniteSet(0 .. N - 1) /\ Cardinality(0 .. N - 1) = N
  <2>1. 0 \in Int /\ N - 1 \in Int /\ N # 0
    BY <1>0, FS_EmptySet
  <2>. HIDE DEF N
  <2>2. IsFiniteSet(0 .. N - 1) /\ Cardinality(0 .. N - 1) = IF 0 > N - 1 THEN 0 ELSE N - 1 - 0 + 1
    BY <2>1, FS_Interval
  <2>. QED
    BY <1>0, <2>1, <2>2
<1>7. R \subseteq 0 .. N - 1
  BY <1>1
<1>8. R = 0 .. N - 1
  BY <1>5, <1>6, <1>7, FS_Subset
<1>9. n - 1 \in R
  <2>. HIDE DEF R
  <2>. QED
    BY <1>0, <1>8
<1>10. PICK i \in S : rank(i) = n - 1
  BY <1>9
<1>. QED
  BY <1>10, NthOnly

\* Positions in a list are finitely many numbers.
LEMMA PositionsAre ==
  ASSUME NEW T, NEW seq \in Seq(T), NEW S \in SUBSET DOMAIN seq
  PROVE  S \in SUBSET Nat /\ IsFiniteSet(S) /\ Cardinality(S) \in Nat
<1>1. IsFiniteSet(1 .. Len(seq)) /\ 1 .. Len(seq) \subseteq Nat /\ DOMAIN seq = 1 .. Len(seq)
  BY FS_Interval, LenProperties
<1>2. S \in SUBSET Nat /\ IsFiniteSet(S)
  BY <1>1, FS_Subset
<1>. QED
  BY <1>2, FS_CardinalityType

\* The items at some positions are what is in the list there.
LEMMA ItemsAre ==
  ASSUME NEW T, NEW seq \in Seq(T), NEW S \in SUBSET DOMAIN seq
  PROVE  Gen!ItemsAt(seq, S) \in Seq(T) /\ Gen!ToSet(Gen!ItemsAt(seq, S)) = {seq[i] : i \in S}
<1> DEFINE items == Gen!ItemsAt(seq, S)
           N == Cardinality(S)
<1>1. S \in SUBSET Nat /\ IsFiniteSet(S) /\ N \in Nat
  BY PositionsAre
<1>2. \A n \in 1 .. N : Gen!Nth(S, n) \in S
  BY <1>1, NthThere
<1>3. items = [n \in 1 .. N |-> seq[Gen!Nth(S, n)]]
  BY SameSizes DEF Gen!ItemsAt
<1>4. \A n \in 1 .. N : seq[Gen!Nth(S, n)] \in T
  BY <1>2, ElementOfSeq, LenProperties
<1>5. items \in [1 .. N -> T]
  BY <1>3, <1>4
<1>6. items \in Seq(T)
  BY <1>1, <1>5, SeqDef
<1>7. \A i \in S : \E n \in 1 .. N : Gen!Nth(S, n) = i
  <2>1. SUFFICES ASSUME NEW i \in S PROVE \E n \in 1 .. N : Gen!Nth(S, n) = i
    OBVIOUS
  <2> DEFINE B == {k \in S : k < i}
             n == Cardinality(B) + 1
  <2>2. IsFiniteSet(B) /\ B \subseteq S \ {i}
    BY <1>1, FS_Subset
  <2>3. IsFiniteSet(S \ {i}) /\ Cardinality(S \ {i}) = N - 1
    BY <1>1, FS_RemoveElement
  <2>4. Cardinality(B) \in Nat /\ Cardinality(B) <= N - 1
    BY <2>2, <2>3, FS_Subset, FS_CardinalityType
  <2>5. n \in 1 .. N /\ Cardinality(B) = n - 1
    <3>. HIDE DEF B
    <3>. QED
      BY <1>1, <2>4
  <2>6. Gen!Nth(S, n) = i
    <3>. HIDE DEF n
    <3>. QED
      BY <1>1, <2>5, NthOnly
  <2>. QED
    BY <2>5, <2>6
<1>8. Gen!ToSet(items) = {seq[Gen!Nth(S, n)] : n \in 1 .. N}
  <2>. HIDE DEF N
  <2>. QED
    BY <1>3 DEF Gen!ToSet
<1>9. {seq[Gen!Nth(S, n)] : n \in 1 .. N} = {seq[i] : i \in S}
  BY <1>2, <1>7
<1>. QED
  BY <1>6, <1>8, <1>9

\* What is in a list.
LEMMA InList ==
  ASSUME NEW T, NEW seq \in Seq(T)
  PROVE  /\ seq \in Seq(Gen!ToSet(seq)) /\ Gen!ToSet(seq) \subseteq T
         /\ DOMAIN seq = 1 .. Len(seq) /\ Len(seq) \in Nat
         /\ \A i \in 1 .. Len(seq) : seq[i] \in Gen!ToSet(seq)
         /\ \A x \in Gen!ToSet(seq) : \E i \in 1 .. Len(seq) : x = seq[i]
<1>1. DOMAIN seq = 1 .. Len(seq) /\ Len(seq) \in Nat
  BY LenProperties
<1>2. Gen!ToSet(seq) = {seq[i] : i \in 1 .. Len(seq)}
  BY <1>1 DEF Gen!ToSet
<1>3. \A i \in 1 .. Len(seq) : seq[i] \in T
  BY <1>1, ElementOfSeq
<1>4. seq \in [1 .. Len(seq) -> Gen!ToSet(seq)]
  <2>1. seq \in [1 .. Len(seq) -> T]
    BY LenProperties
  <2>. QED
    BY <1>2, <2>1
<1>5. seq \in Seq(Gen!ToSet(seq))
  BY <1>1, <1>4, SeqDef
<1>. QED
  BY <1>1, <1>2, <1>3, <1>5

\* A function on the positions of a list is a list of its values.
LEMMA MadeList ==
  ASSUME NEW n \in Nat, NEW f, f = [i \in 1 .. n |-> f[i]]
  PROVE  f \in Seq(Gen!ToSet(f)) /\ Gen!ToSet(f) = {f[i] : i \in 1 .. n}
<1>1. DOMAIN f = 1 .. n
  OBVIOUS
<1>2. Gen!ToSet(f) = {f[i] : i \in 1 .. n}
  BY <1>1 DEF Gen!ToSet
<1>3. f \in [1 .. n -> Gen!ToSet(f)]
  BY <1>2
<1>. QED
  BY <1>2, <1>3, SeqDef

\* Two lists, one after the other.
LEMMA BothLists ==
  ASSUME NEW a, NEW b, a \in Seq(Gen!ToSet(a)), b \in Seq(Gen!ToSet(b))
  PROVE  a \o b \in Seq(Gen!ToSet(a \o b)) /\ Gen!ToSet(a \o b) = Gen!ToSet(a) \union Gen!ToSet(b)
<1> DEFINE T == Gen!ToSet(a) \union Gen!ToSet(b)
<1>1. a \in Seq(T) /\ b \in Seq(T)
  <2>1. Gen!ToSet(a) \subseteq T /\ Gen!ToSet(b) \subseteq T
    OBVIOUS
  <2>. HIDE DEF T
  <2>. QED
    BY <2>1, SeqMonotonic
<1>2. Len(a) \in Nat /\ Len(b) \in Nat /\ DOMAIN a = 1 .. Len(a) /\ DOMAIN b = 1 .. Len(b)
  BY LenProperties
<1>. HIDE DEF T
<1>3. /\ a \o b \in Seq(T) /\ Len(a \o b) = Len(a) + Len(b)
      /\ \A i \in 1 .. Len(a) + Len(b) : (a \o b)[i] = IF i <= Len(a) THEN a[i] ELSE b[i - Len(a)]
  BY <1>1, ConcatProperties
<1>4. a \o b \in Seq(Gen!ToSet(a \o b)) /\ Gen!ToSet(a \o b) \subseteq T
  BY <1>3, InList
<1>5. \A i \in 1 .. Len(a) : (a \o b)[i] = a[i] /\ i \in 1 .. Len(a \o b)
  BY <1>2, <1>3
<1>6. \A i \in 1 .. Len(b) : (a \o b)[i + Len(a)] = b[i] /\ i + Len(a) \in 1 .. Len(a \o b)
  BY <1>2, <1>3
<1>7. DOMAIN (a \o b) = 1 .. Len(a \o b)
  BY <1>3, LenProperties
<1>8. Gen!ToSet(a) \subseteq Gen!ToSet(a \o b)
  BY <1>2, <1>5, <1>7 DEF Gen!ToSet
<1>9. Gen!ToSet(b) \subseteq Gen!ToSet(a \o b)
  BY <1>2, <1>6, <1>7 DEF Gen!ToSet
<1>. QED
  BY <1>4, <1>8, <1>9 DEF T

\* Some numbers have a least.
LEMMA LeastOf ==
  ASSUME NEW S \in SUBSET Nat, IsFiniteSet(S), S # {}
  PROVE  \E m \in S : \A j \in S : m <= j
<1> DEFINE x == Gen!Nth(S, 1)
           B == {i \in S : i < x}
<1>1. Cardinality(S) \in Nat /\ Cardinality(S) # 0
  BY FS_CardinalityType, FS_EmptySet
<1>2. x \in S /\ Cardinality(B) = 1 - 1
  <2>1. 1 \in 1 .. Cardinality(S)
    BY <1>1
  <2>. QED
    BY <2>1, NthThere
<1>. HIDE DEF x
<1>3. IsFiniteSet(B)
  BY FS_Subset
<1>4. B = {}
  BY <1>2, <1>3, FS_EmptySet
<1>5. \A y \in S : x <= y
  BY <1>2, <1>4
<1>. QED
  BY <1>2, <1>5

\* What is unique by a key: something is left for every key.
LEMMA UniquesAre ==
  ASSUME NEW seq, seq \in Seq(Gen!ToSet(seq)), NEW key
  PROVE  /\ Gen!UniqueBy(seq, key) \in Seq(Gen!ToSet(Gen!UniqueBy(seq, key)))
         /\ Gen!ToSet(Gen!UniqueBy(seq, key)) \subseteq Gen!ToSet(seq)
         /\ \A i \in DOMAIN seq : \E j \in DOMAIN seq : key[j] = key[i] /\ seq[j] \in Gen!ToSet(Gen!UniqueBy(seq, key))
<1> DEFINE S == {i \in DOMAIN seq : \A j \in 1..(i - 1) : key[j] # key[i]}
           kept == Gen!ItemsAt(seq, S)
<1>1. Gen!UniqueBy(seq, key) = kept
  BY DEF Gen!UniqueBy
<1>2. kept \in Seq(Gen!ToSet(seq)) /\ Gen!ToSet(kept) = {seq[i] : i \in S}
  <2>1. S \in SUBSET DOMAIN seq
    OBVIOUS
  <2>. HIDE DEF S
  <2>. QED
    BY <2>1, ItemsAre
<1>3. kept \in Seq(Gen!ToSet(kept)) /\ Gen!ToSet(kept) \subseteq Gen!ToSet(seq)
  <2>. HIDE DEF kept
  <2>. QED
    BY <1>2, InList
<1>4. DOMAIN seq = 1 .. Len(seq) /\ Len(seq) \in Nat
  BY LenProperties
<1>5. ASSUME NEW i \in DOMAIN seq PROVE \E j \in S : key[j] = key[i]
  <2> DEFINE K == {j \in DOMAIN seq : key[j] = key[i]}
  <2>1. K \in SUBSET DOMAIN seq /\ i \in K
    BY <1>5
  <2>2. K \in SUBSET Nat /\ IsFiniteSet(K) /\ K # {}
    <3>. HIDE DEF K
    <3>. QED
      BY <2>1, PositionsAre
  <2>3. PICK m \in K : \A j \in K : m <= j
    <3>. HIDE DEF K
    <3>. QED
      BY <2>2, LeastOf
  <2>4. m \in 1 .. Len(seq) /\ key[m] = key[i]
    BY <1>4, <2>3
  <2>5. \A j \in 1 .. m - 1 : key[j] # key[m]
    BY <1>4, <2>3, <2>4
  <2>. QED
    BY <1>4, <2>4, <2>5
<1>. QED
  BY <1>1, <1>2, <1>3, <1>5

\* The first items of a list.
LEMMA FirstIs ==
  ASSUME NEW seq, seq \in Seq(Gen!ToSet(seq)), NEW n \in Nat
  PROVE  /\ Gen!First(seq, n) \in Seq(Gen!ToSet(Gen!First(seq, n)))
         /\ Gen!ToSet(Gen!First(seq, n)) \subseteq Gen!ToSet(seq)
         /\ n > 0 /\ seq # <<>> => Gen!First(seq, n) # <<>>
<1> DEFINE k == Gen!Min({n, Len(seq)})
           T == Gen!ToSet(seq)
<1>1. Len(seq) \in Nat /\ \A i \in 1 .. Len(seq) : seq[i] \in T
  <2>. HIDE DEF T
  <2>. QED
    BY LenProperties, ElementOfSeq DEF T
<1>2. k \in 0 .. Len(seq) /\ (n > 0 /\ Len(seq) > 0 => k > 0)
  BY <1>1 DEF Gen!Min
<1>. HIDE DEF k, T
<1>3. SubSeq(seq, 1, k) \in Seq(T) /\ Len(SubSeq(seq, 1, k)) = k
  <2>1. 1 \in Int /\ k \in Int /\ \A i \in 1 .. k : seq[i] \in T
    BY <1>1, <1>2
  <2>2. SubSeq(seq, 1, k) \in Seq(T) /\ Len(SubSeq(seq, 1, k)) = IF 1 <= k THEN k - 1 + 1 ELSE 0
    BY <2>1, SubSeqProperties
  <2>. QED
    BY <1>1, <1>2, <2>2
<1>4. Gen!First(seq, n) = SubSeq(seq, 1, k)
  BY DEF Gen!First, k
<1>5. n > 0 /\ seq # <<>> => Gen!First(seq, n) # <<>>
  <2>1. seq # <<>> => Len(seq) > 0
    BY <1>1, EmptySeq
  <2>2. Len(<<>>) = 0
    BY EmptySeq
  <2>. QED
    BY <1>2, <1>3, <1>4, <2>1, <2>2
<1>. QED
  BY <1>3, <1>4, <1>5, InList DEF T

-----------------------------------------------------------------------------
(* Tests and their identities                                              *)

\* Tests with the identity, or the slug, of an API test are of its operation.
LEMMA SameOperation ==
  ASSUME NEW t, t.category = "api_tests", NEW u,
         \/ Gen!generate_test_identity_hash(u) = Gen!generate_test_identity_hash(t)
         \/ Gen!generate_test_slug(u) = Gen!generate_test_slug(t)
  PROVE  Gen!ApiKey(u) = Gen!ApiKey(t)
<1>1. CASE Gen!generate_test_identity_hash(u) = Gen!generate_test_identity_hash(t)
  <2>1. Gen!generate_test_identity_hash(t) =
          <<t.method, Gen!normalize_endpoint(t.path), t.status, t.intent, Gen!Counts(t.steps)>>
    BY DEF Gen!generate_test_identity_hash, Gen!IsApi
  <2>2. Gen!IsApi(u)
    BY <1>1, <2>1 DEF Gen!generate_test_identity_hash
  <2>3. Gen!generate_test_identity_hash(u) =
          <<u.method, Gen!normalize_endpoint(u.path), u.status, u.intent, Gen!Counts(u.steps)>>
    BY <2>2 DEF Gen!generate_test_identity_hash
  <2>. QED
    BY <1>1, <2>1, <2>3 DEF Gen!ApiKey
<1>2. CASE Gen!generate_test_slug(u) = Gen!generate_test_slug(t)
  <2>1. Gen!generate_test_slug(t) = <<"api", t.method, Gen!normalize_endpoint(t.path), t.intent>>
    BY DEF Gen!generate_test_slug, Gen!IsApi
  <2>2. Gen!IsApi(u)
    BY <1>2, <2>1 DEF Gen!generate_test_slug
  <2>3. Gen!generate_test_slug(u) = <<"api", u.method, Gen!normalize_endpoint(u.path), u.intent>>
    BY <2>2 DEF Gen!generate_test_slug
  <2>. QED
    BY <1>2, <2>1, <2>3 DEF Gen!ApiKey
<1>. QED
  BY <1>1, <1>2

\* A test that is filed under a suite is otherwise the same.
LEMMA FiledIs ==
  ASSUME NEW t, Gen!IsTest(t), NEW s
  PROVE  /\ Gen!IsTest(Gen!Filed(t, s)) /\ Gen!Filed(t, s).category = s /\ Gen!ApiKey(Gen!Filed(t, s)) = Gen!ApiKey(t)
         /\ Gen!Filed(t, s).path = t.path /\ Gen!Filed(t, s).rank = t.rank
         /\ Gen!Backed(Gen!Filed(t, s)) <=> Gen!Backed(t)
         /\ Gen!Original(Gen!Filed(t, s)) <=> Gen!Original(t)
         /\ Gen!Sourced(Gen!Filed(t, s)) <=> Gen!Sourced(t)
<1> DEFINE u == Gen!Filed(t, s)
<1>1. t = [f \in Gen!Fields |-> t[f]] /\ t.rank \in 0 .. 3
  BY DEF Gen!IsTest
<1>2. u = [f \in Gen!Fields |-> IF f = "category" THEN s ELSE t[f]]
  BY <1>1 DEF Gen!Filed, Gen!Fields
<1>3. /\ u.category = s /\ u.method = t.method /\ u.path = t.path /\ u.rank = t.rank /\ u.claims = t.claims
      /\ u.intent = t.intent /\ u.words = t.words
  BY <1>2 DEF Gen!Fields
<1>4. Gen!IsTest(u)
  BY <1>1, <1>2, <1>3 DEF Gen!IsTest
<1>. HIDE DEF u
<1>5. Gen!ApiKey(u) = Gen!ApiKey(t)
  BY <1>3 DEF Gen!ApiKey
<1>6. (Gen!Backed(u) <=> Gen!Backed(t)) /\ (Gen!Original(u) <=> Gen!Original(t)) /\ (Gen!Sourced(u) <=> Gen!Sourced(t))
  <2>1. Gen!lineage_token_set(u) = Gen!lineage_token_set(t)
    BY <1>3 DEF Gen!lineage_token_set
  <2>. QED
    BY <1>3, <2>1 DEF Gen!Backed, Gen!Original, Gen!Sourced
<1>. QED
  BY <1>3, <1>4, <1>5, <1>6 DEF u

-----------------------------------------------------------------------------
(* Lists of tests                                                          *)

\* The tests at some positions.
LEMMA SomeTests ==
  ASSUME NEW seq, Gen!Tests(seq), NEW S \in SUBSET DOMAIN seq
  PROVE  Gen!Tests(Gen!ItemsAt(seq, S)) /\ Gen!ToSet(Gen!ItemsAt(seq, S)) = {seq[i] : i \in S}
<1>1. seq \in Seq(Gen!ToSet(seq)) /\ \A t \in Gen!ToSet(seq) : Gen!IsTest(t)
  BY DEF Gen!Tests
<1>2. Gen!ItemsAt(seq, S) \in Seq(Gen!ToSet(seq)) /\ Gen!ToSet(Gen!ItemsAt(seq, S)) = {seq[i] : i \in S}
  BY <1>1, ItemsAre
<1>3. Gen!ItemsAt(seq, S) \in Seq(Gen!ToSet(Gen!ItemsAt(seq, S))) /\ Gen!ToSet(Gen!ItemsAt(seq, S)) \subseteq Gen!ToSet(seq)
  BY <1>2, InList
<1>. QED
  BY <1>1, <1>2, <1>3 DEF Gen!Tests

\* Tests, and then others.
LEMMA MoreTests ==
  ASSUME NEW a, NEW b, Gen!Tests(a), Gen!Tests(b)
  PROVE  Gen!Tests(a \o b) /\ Gen!ToSet(a \o b) = Gen!ToSet(a) \union Gen!ToSet(b)
BY BothLists DEF Gen!Tests

\* No tests.
LEMMA NoTestsThere == Gen!Tests(<<>>) /\ Gen!ToSet(<<>>) = {}
<1>1. Gen!ToSet(<<>>) = {}
  BY DEF Gen!ToSet
<1>2. <<>> \in Seq(Gen!ToSet(<<>>))
  BY EmptySeq
<1>. QED
  BY <1>1, <1>2 DEF Gen!Tests

\* What is in a list of tests is a test.
LEMMA TestsThere ==
  ASSUME NEW seq, Gen!Tests(seq)
  PROVE  /\ DOMAIN seq = 1 .. Len(seq) /\ Len(seq) \in Nat /\ seq \in Seq(Gen!ToSet(seq))
         /\ \A i \in DOMAIN seq : seq[i] \in Gen!ToSet(seq) /\ Gen!IsTest(seq[i])
         /\ \A t \in Gen!ToSet(seq) : Gen!IsTest(t) /\ \E i \in DOMAIN seq : t = seq[i]
<1>1. seq \in Seq(Gen!ToSet(seq)) /\ \A t \in Gen!ToSet(seq) : Gen!IsTest(t)
  BY DEF Gen!Tests
<1>. QED
  BY <1>1, InList

\* To order tests by rank loses none.
LEMMA RanksAre ==
  ASSUME NEW seq, Gen!Tests(seq)
  PROVE  Gen!Tests(Gen!ByRank(seq)) /\ Gen!ToSet(Gen!ByRank(seq)) = Gen!ToSet(seq)
<1> DEFINE S(r) == {i \in DOMAIN seq : seq[i].rank = r}
           of(r) == Gen!Ranked(seq, r)
<1>1. \A r : Gen!Tests(of(r)) /\ Gen!ToSet(of(r)) = {seq[i] : i \in S(r)}
  <2>1. \A r : S(r) \in SUBSET DOMAIN seq
    OBVIOUS
  <2>2. \A r : of(r) = Gen!ItemsAt(seq, S(r))
    BY DEF Gen!Ranked, Gen!Where
  <2>. HIDE DEF S, of
  <2>. QED
    BY <2>1, <2>2, SomeTests
<1>2. Gen!ToSet(seq) = {seq[i] : i \in S(0)} \union {seq[i] : i \in S(1)} \union {seq[i] : i \in S(2)} \union {seq[i] : i \in S(3)}
  <2>1. \A i \in DOMAIN seq : seq[i].rank \in 0 .. 3
    BY TestsThere DEF Gen!IsTest
  <2>2. \A i \in DOMAIN seq : seq[i].rank \in {0, 1, 2, 3}
    BY <2>1
  <2>. QED
    BY <2>2 DEF Gen!ToSet
<1>. HIDE DEF of, S
<1>3. Gen!Tests(of(0) \o of(1)) /\ Gen!ToSet(of(0) \o of(1)) = Gen!ToSet(of(0)) \union Gen!ToSet(of(1))
  BY <1>1, MoreTests
<1>4. Gen!Tests(of(0) \o of(1) \o of(2))
      /\ Gen!ToSet(of(0) \o of(1) \o of(2)) = Gen!ToSet(of(0)) \union Gen!ToSet(of(1)) \union Gen!ToSet(of(2))
  BY <1>1, <1>3, MoreTests
<1>5. Gen!Tests(of(0) \o of(1) \o of(2) \o of(3))
      /\ Gen!ToSet(of(0) \o of(1) \o of(2) \o of(3)) =
             Gen!ToSet(of(0)) \union Gen!ToSet(of(1)) \union Gen!ToSet(of(2)) \union Gen!ToSet(of(3))
  BY <1>1, <1>4, MoreTests
<1>6. Gen!ByRank(seq) = of(0) \o of(1) \o of(2) \o of(3)
  BY DEF Gen!ByRank, of
<1>. QED
  BY <1>1, <1>2, <1>5, <1>6

\* All tests of a list, filed under a suite.
LEMMA AllFiled ==
  ASSUME NEW tests, Gen!Tests(tests), NEW s, NEW filed, filed = [i \in DOMAIN tests |-> Gen!Filed(tests[i], s)]
  PROVE  Gen!Tests(filed) /\ Gen!ToSet(filed) = {Gen!Filed(u, s) : u \in Gen!ToSet(tests)} /\ DOMAIN filed = DOMAIN tests
<1>1. DOMAIN tests = 1 .. Len(tests) /\ Len(tests) \in Nat
  BY TestsThere
<1>2. filed = [i \in 1 .. Len(tests) |-> filed[i]]
  BY <1>1
<1>3. filed \in Seq(Gen!ToSet(filed)) /\ Gen!ToSet(filed) = {filed[i] : i \in 1 .. Len(tests)}
  BY <1>1, <1>2, MadeList
<1>4. Gen!ToSet(filed) = {Gen!Filed(u, s) : u \in Gen!ToSet(tests)}
  <2>1. Gen!ToSet(tests) = {tests[i] : i \in DOMAIN tests}
    BY DEF Gen!ToSet
  <2>2. \A i \in 1 .. Len(tests) : filed[i] = Gen!Filed(tests[i], s)
    BY <1>1
  <2>. QED
    BY <1>1, <1>3, <2>1, <2>2
<1>5. \A t \in Gen!ToSet(filed) : Gen!IsTest(t)
  <2>1. \A u \in Gen!ToSet(tests) : Gen!IsTest(u)
    BY TestsThere
  <2>2. \A u \in Gen!ToSet(tests) : Gen!IsTest(Gen!Filed(u, s))
    BY <2>1, FiledIs
  <2>. QED
    BY <1>4, <2>2
<1>. QED
  BY <1>3, <1>4, <1>5 DEF Gen!Tests

\* _deduplicate: what is left is filed under the suite, and an API test with a
\* path gives way only to one of the same operation.
LEMMA DedupIs ==
  ASSUME NEW tests, Gen!Tests(tests), NEW s
  PROVE  /\ Gen!Tests(Gen!_deduplicate(tests, s))
         /\ \A t \in Gen!ToSet(Gen!_deduplicate(tests, s)) : \E u \in Gen!ToSet(tests) : t = Gen!Filed(u, s)
         /\ s = "api_tests" => {Gen!ApiKey(t) : t \in Gen!ToSet(Gen!_deduplicate(tests, s))}
                                 = {Gen!ApiKey(u) : u \in {v \in Gen!ToSet(tests) : v.path # <<>>}}
<1> DEFINE filed == [i \in DOMAIN tests |-> Gen!Filed(tests[i], s)]
           S == {i \in DOMAIN filed : s = "api_tests" => filed[i].path # <<>>}
           kept == Gen!ItemsAt(filed, S)
           key == [i \in DOMAIN kept |-> Gen!generate_test_identity_hash(kept[i])]
           some == Gen!UniqueBy(kept, key)
<1>1. Gen!Tests(filed) /\ Gen!ToSet(filed) = {Gen!Filed(u, s) : u \in Gen!ToSet(tests)}
  <2>. HIDE DEF filed
  <2>. QED
    BY AllFiled DEF filed
<1>2. Gen!_deduplicate(tests, s) = Gen!ByRank(some)
  BY DEF Gen!_deduplicate, Gen!Where, Gen!Uniques
<1>3. Gen!Tests(kept) /\ Gen!ToSet(kept) = {filed[i] : i \in S}
  <2>1. S \in SUBSET DOMAIN filed
    OBVIOUS
  <2>. HIDE DEF S, filed
  <2>. QED
    BY <1>1, <2>1, SomeTests
<1>4. Gen!ToSet(kept) = {t \in Gen!ToSet(filed) : s = "api_tests" => t.path # <<>>}
  <2>. HIDE DEF filed, kept
  <2>. QED
    BY <1>3 DEF Gen!ToSet
<1>. HIDE DEF filed, S, kept
<1>5. /\ some \in Seq(Gen!ToSet(some)) /\ Gen!ToSet(some) \subseteq Gen!ToSet(kept)
      /\ \A i \in DOMAIN kept : \E j \in DOMAIN kept : key[j] = key[i] /\ kept[j] \in Gen!ToSet(some)
  <2>1. kept \in Seq(Gen!ToSet(kept))
    BY <1>3, TestsThere
  <2>. HIDE DEF key
  <2>. QED
    BY <2>1, UniquesAre
<1>6. Gen!Tests(some)
  <2>. HIDE DEF some
  <2>. QED
    BY <1>3, <1>5, TestsThere DEF Gen!Tests
<1>7. \A i \in DOMAIN kept : \E j \in DOMAIN kept :
         /\ Gen!generate_test_identity_hash(kept[j]) = Gen!generate_test_identity_hash(kept[i])
         /\ kept[j] \in Gen!ToSet(some)
  <2>1. \A i \in DOMAIN kept : key[i] = Gen!generate_test_identity_hash(kept[i])
    OBVIOUS
  <2>. HIDE DEF key, some
  <2>. QED
    BY <1>5, <2>1
<1>8. Gen!Tests(Gen!ByRank(some)) /\ Gen!ToSet(Gen!ByRank(some)) = Gen!ToSet(some)
  <2>. HIDE DEF some
  <2>. QED
    BY <1>6, RanksAre
<1>. HIDE DEF key, some
<1>9. \A u \in Gen!ToSet(tests) :
         /\ Gen!Filed(u, s).path = u.path /\ Gen!Filed(u, s).category = s
         /\ Gen!ApiKey(Gen!Filed(u, s)) = Gen!ApiKey(u)
  BY TestsThere, FiledIs
<1>10. ASSUME s = "api_tests"
       PROVE  {Gen!ApiKey(t) : t \in Gen!ToSet(some)} = {Gen!ApiKey(u) : u \in {v \in Gen!ToSet(tests) : v.path # <<>>}}
  <2>1. ASSUME NEW t \in Gen!ToSet(some)
        PROVE  \E u \in {v \in Gen!ToSet(tests) : v.path # <<>>} : Gen!ApiKey(t) = Gen!ApiKey(u)
    <3>1. t \in Gen!ToSet(filed) /\ t.path # <<>>
      BY <1>4, <1>5, <1>10, <2>1
    <3>2. PICK u \in Gen!ToSet(tests) : t = Gen!Filed(u, s)
      BY <1>1, <3>1
    <3>. QED
      BY <1>9, <3>1, <3>2
  <2>2. ASSUME NEW u \in Gen!ToSet(tests), u.path # <<>>
        PROVE  \E t \in Gen!ToSet(some) : Gen!ApiKey(t) = Gen!ApiKey(u)
    <3>1. Gen!Filed(u, s) \in Gen!ToSet(kept)
      BY <1>1, <1>4, <1>9, <2>2
    <3>2. PICK i \in DOMAIN kept : kept[i] = Gen!Filed(u, s)
      BY <1>3, <3>1, TestsThere
    <3>3. PICK j \in DOMAIN kept : /\ Gen!generate_test_identity_hash(kept[j]) = Gen!generate_test_identity_hash(kept[i])
                                   /\ kept[j] \in Gen!ToSet(some)
      BY <1>7
    <3>4. kept[i].category = "api_tests"
      BY <1>9, <1>10, <3>2
    <3>5. Gen!ApiKey(kept[j]) = Gen!ApiKey(kept[i])
      BY <3>3, <3>4, SameOperation
    <3>. QED
      BY <1>9, <3>2, <3>3, <3>5
  <2>. QED
    BY <2>1, <2>2
<1>11. \A t \in Gen!ToSet(some) : \E u \in Gen!ToSet(tests) : t = Gen!Filed(u, s)
  BY <1>1, <1>4, <1>5
<1>. QED
  BY <1>2, <1>8, <1>10, <1>11

-----------------------------------------------------------------------------
(* The API suite and the operations                                        *)

\* The operations that the documents name, and the tests of them.
LEMMA Operated ==
  ASSUME surface \in Seq(DOMAIN Baseline)
  PROVE  /\ Keys = {Gen!ApiKey(Gen!OfOperation(surface[i])) : i \in DOMAIN surface}
         /\ \A t : Gen!Discovered(t) <=> Gen!ApiKey(t) \in Keys
         /\ \A t : Gen!ApiKey(t) \in Keys => t.path # <<>>
         /\ \A i \in DOMAIN surface : surface[i] \in DOMAIN Baseline
<1>1. DOMAIN surface = 1 .. Len(surface) /\ \A i \in DOMAIN surface : surface[i] \in DOMAIN Baseline
  BY LenProperties, ElementOfSeq
<1>2. Keys = {Gen!ApiKey(Gen!OfOperation(surface[i])) : i \in DOMAIN surface}
  BY DEF Keys, Gen!ToSet
<1>3. ASSUME NEW t, Gen!ApiKey(t) \in Keys PROVE t.path # <<>>
  <2>1. PICK i \in DOMAIN surface : Gen!ApiKey(t) = Gen!ApiKey(Gen!OfOperation(surface[i]))
    BY <1>2, <1>3
  <2> DEFINE op == surface[i]
  <2>2. DOMAIN op[2] # {}
    BY <1>1, GeneratorAssumption DEF Gen!GenerationAssumption
  <2>3. Gen!normalize_endpoint(t.path) = Gen!normalize_endpoint(op[2])
    BY <2>1 DEF Gen!ApiKey, Gen!OfOperation
  <2>4. DOMAIN Gen!normalize_endpoint(t.path) = DOMAIN t.path /\ DOMAIN Gen!normalize_endpoint(op[2]) = DOMAIN op[2]
    BY DEF Gen!normalize_endpoint
  <2>5. DOMAIN t.path # {}
    BY <2>2, <2>3, <2>4
  <2>6. DOMAIN <<>> = {}
    OBVIOUS
  <2>. QED
    BY <2>5, <2>6
<1>4. \A t : Gen!Discovered(t) <=> Gen!ApiKey(t) \in Keys
  BY <1>2 DEF Gen!Discovered
<1>. QED
  BY <1>1, <1>2, <1>3, <1>4

\* _filter_api_tests leaves the tests of operations that are named.
LEMMA FilterIs ==
  ASSUME NEW tests, Gen!Tests(tests), surface \in Seq(DOMAIN Baseline)
  PROVE  /\ Gen!Tests(Gen!_filter_api_tests(tests))
         /\ Gen!ToSet(Gen!_filter_api_tests(tests)) = {t \in Gen!ToSet(tests) : Gen!ApiKey(t) \in Keys}
<1> DEFINE S == {i \in DOMAIN tests : Gen!Discovered(tests[i])}
<1>1. Gen!_filter_api_tests(tests) = Gen!ItemsAt(tests, S)
  BY DEF Gen!_filter_api_tests, Gen!Where
<1>2. Gen!Tests(Gen!ItemsAt(tests, S)) /\ Gen!ToSet(Gen!ItemsAt(tests, S)) = {tests[i] : i \in S}
  <2>1. S \in SUBSET DOMAIN tests
    OBVIOUS
  <2>. HIDE DEF S
  <2>. QED
    BY <2>1, SomeTests
<1>3. {tests[i] : i \in S} = {t \in Gen!ToSet(tests) : Gen!ApiKey(t) \in Keys}
  <2>1. \A t : Gen!Discovered(t) <=> Gen!ApiKey(t) \in Keys
    BY Operated
  <2>. QED
    BY <2>1 DEF Gen!ToSet
<1>. HIDE DEF S
<1>. QED
  BY <1>1, <1>2, <1>3

\* _filter_ui_tests only takes tests away.
LEMMA ScreensAre ==
  ASSUME NEW tests, Gen!Tests(tests)
  PROVE  Gen!Tests(Gen!_filter_ui_tests(tests))
<1> DEFINE S == {i \in DOMAIN tests : tests[i].field # None /\ (Gen!Written(doc, tests[i].field) \/ tests[i].field \in components)}
<1>1. Gen!_filter_ui_tests(tests) = Gen!ItemsAt(tests, S)
  BY DEF Gen!_filter_ui_tests, Gen!Where
<1>2. S \in SUBSET DOMAIN tests
  OBVIOUS
<1>. HIDE DEF S
<1>. QED
  BY <1>1, <1>2, SomeTests

\* _ensure_api_endpoint_coverage: a test for each operation, none is lost, and
\* what it adds is of an operation that is named.
LEMMA EnsureIs ==
  ASSUME NEW tests, Gen!Tests(tests), surface \in Seq(DOMAIN Baseline)
  PROVE  /\ Gen!Tests(Gen!_ensure_api_endpoint_coverage(tests))
         /\ {Gen!ApiKey(t) : t \in Gen!ToSet(Gen!_ensure_api_endpoint_coverage(tests))}
              = {Gen!ApiKey(t) : t \in Gen!ToSet(tests)} \union Keys
<1> DEFINE S == {i \in DOMAIN surface : \A j \in DOMAIN tests : Gen!ApiKey(tests[j]) # Gen!ApiKey(Gen!OfOperation(surface[i]))}
           untested == Gen!ItemsAt(surface, S)
           more == [i \in DOMAIN untested |-> Baseline[untested[i]]]
<1>1. Gen!_ensure_api_endpoint_coverage(tests) = tests \o more
  BY DEF Gen!_ensure_api_endpoint_coverage, Gen!Where
<1>2. untested \in Seq(DOMAIN Baseline) /\ Gen!ToSet(untested) = {surface[i] : i \in S}
  <2>1. S \in SUBSET DOMAIN surface
    OBVIOUS
  <2>. HIDE DEF S
  <2>. QED
    BY <2>1, ItemsAre
<1>. HIDE DEF untested
<1>3. /\ DOMAIN untested = 1 .. Len(untested) /\ Len(untested) \in Nat
      /\ \A i \in 1 .. Len(untested) : untested[i] \in DOMAIN Baseline
  BY <1>2, LenProperties, ElementOfSeq
<1>4. more \in Seq(Gen!ToSet(more)) /\ Gen!ToSet(more) = {more[i] : i \in 1 .. Len(untested)}
  <2>1. more = [i \in 1 .. Len(untested) |-> more[i]]
    BY <1>3
  <2>. HIDE DEF more
  <2>. QED
    BY <1>3, <2>1, MadeList
<1>5. Gen!ToSet(more) = {Baseline[op] : op \in {surface[i] : i \in S}}
  <2>1. Gen!ToSet(more) = {Baseline[untested[i]] : i \in 1 .. Len(untested)}
    BY <1>3, <1>4
  <2>2. Gen!ToSet(untested) = {untested[i] : i \in 1 .. Len(untested)}
    BY <1>3 DEF Gen!ToSet
  <2>. HIDE DEF more, S
  <2>. QED
    BY <1>2, <2>1, <2>2
<1>6. \A op \in DOMAIN Baseline : Gen!IsTest(Baseline[op]) /\ Gen!ApiKey(Baseline[op]) = Gen!ApiKey(Gen!OfOperation(op))
  BY GeneratorAssumption DEF Gen!GenerationAssumption
<1>7. \A i \in DOMAIN surface : surface[i] \in DOMAIN Baseline
  BY Operated
<1>8. Gen!Tests(more)
  <2>1. \A t \in Gen!ToSet(more) : Gen!IsTest(t)
    <3>. HIDE DEF more
    <3>. QED
      BY <1>5, <1>6, <1>7
  <2>. HIDE DEF more
  <2>. QED
    BY <1>4, <2>1 DEF Gen!Tests
<1>. HIDE DEF more
<1>9. Gen!Tests(tests \o more) /\ Gen!ToSet(tests \o more) = Gen!ToSet(tests) \union Gen!ToSet(more)
  BY <1>8, MoreTests
<1>10. Keys = {Gen!ApiKey(Gen!OfOperation(surface[i])) : i \in DOMAIN surface}
  BY Operated
<1>11. \A t \in Gen!ToSet(more) : \E i \in DOMAIN surface : Gen!ApiKey(t) = Gen!ApiKey(Gen!OfOperation(surface[i]))
  BY <1>5, <1>6, <1>7
<1>12. ASSUME NEW i \in DOMAIN surface
       PROVE  \E t \in Gen!ToSet(tests) \union Gen!ToSet(more) : Gen!ApiKey(t) = Gen!ApiKey(Gen!OfOperation(surface[i]))
  <2>1. CASE i \in S
    <3>1. Baseline[surface[i]] \in Gen!ToSet(more)
      <4>. HIDE DEF S
      <4>. QED
        BY <1>5, <2>1
    <3>. QED
      BY <1>6, <1>7, <3>1
  <2>2. CASE i \notin S
    <3>1. PICK j \in DOMAIN tests : Gen!ApiKey(tests[j]) = Gen!ApiKey(Gen!OfOperation(surface[i]))
      BY <2>2
    <3>2. tests[j] \in Gen!ToSet(tests)
      BY TestsThere
    <3>. QED
      BY <3>1, <3>2
  <2>. QED
    BY <2>1, <2>2
<1>13. {Gen!ApiKey(t) : t \in Gen!ToSet(tests) \union Gen!ToSet(more)} = {Gen!ApiKey(t) : t \in Gen!ToSet(tests)} \union Keys
  BY <1>10, <1>11, <1>12
<1>. QED
  BY <1>1, <1>9, <1>13

\* After _filter_api_tests and _ensure_api_endpoint_coverage the suite has tests
\* of all operations and of no other.
LEMMA CoveredIs ==
  ASSUME NEW tests, Gen!Tests(tests), surface \in Seq(DOMAIN Baseline),
         NEW all, all = Gen!_ensure_api_endpoint_coverage(Gen!_filter_api_tests(tests))
  PROVE  Gen!Tests(all) /\ {Gen!ApiKey(t) : t \in Gen!ToSet(all)} = Keys
<1> DEFINE some == Gen!_filter_api_tests(tests)
<1>1. Gen!Tests(some) /\ Gen!ToSet(some) = {t \in Gen!ToSet(tests) : Gen!ApiKey(t) \in Keys}
  BY FilterIs
<1>. HIDE DEF some
<1>2. Gen!Tests(all) /\ {Gen!ApiKey(t) : t \in Gen!ToSet(all)} = {Gen!ApiKey(t) : t \in Gen!ToSet(some)} \union Keys
  BY <1>1, EnsureIs DEF some
<1>. QED
  BY <1>1, <1>2

\* And it keeps one for each when what is the same goes.
LEMMA StillCovered ==
  ASSUME NEW tests, Gen!Tests(tests), surface \in Seq(DOMAIN Baseline), {Gen!ApiKey(t) : t \in Gen!ToSet(tests)} = Keys
  PROVE  {Gen!ApiKey(t) : t \in Gen!ToSet(Gen!_deduplicate(tests, "api_tests"))} = Keys
<1>1. \A t \in Gen!ToSet(tests) : t.path # <<>>
  BY Operated
<1>2. {v \in Gen!ToSet(tests) : v.path # <<>>} = Gen!ToSet(tests)
  BY <1>1
<1>. QED
  BY <1>2, DedupIs

-----------------------------------------------------------------------------
(* Storing a test                                                          *)

\* The suites, by their type.
LEMMA SuitesAre ==
  /\ Gen!ToSet(Gen!Suites) = Names
  /\ \A s \in Names : Gen!SuiteOf(Gen!TypeOf[s]) = s
  /\ Gen!TypeOf["api_tests"] = "api"
<1>1. Gen!ToSet(Gen!Suites) = Names
  <2>1. DOMAIN Gen!Suites = 1 .. 5
    BY DEF Gen!Suites
  <2>2. DOMAIN Gen!Suites = {1, 2, 3, 4, 5}
    BY <2>1
  <2>3. Gen!ToSet(Gen!Suites) = {Gen!Suites[1], Gen!Suites[2], Gen!Suites[3], Gen!Suites[4], Gen!Suites[5]}
    BY <2>2, Zenon DEF Gen!ToSet
  <2>. QED
    BY <2>3 DEF Gen!Suites, Names
<1>2. /\ Gen!TypeOf["api_tests"] = "api" /\ Gen!TypeOf["ui_validations"] = "ui" /\ Gen!TypeOf["e2e_tests"] = "e2e"
      /\ Gen!TypeOf["edge_cases"] = "nfr" /\ Gen!TypeOf["business_tests"] = "functional"
  BY <1>1 DEF Gen!TypeOf, Names
<1>3. \A s, r \in Names : Gen!TypeOf[s] = Gen!TypeOf[r] => s = r
  BY <1>2 DEF Names
<1>4. ASSUME NEW s \in Names PROVE Gen!SuiteOf(Gen!TypeOf[s]) = s
  <2>1. Gen!SuiteOf(Gen!TypeOf[s]) = CHOOSE r \in Names : Gen!TypeOf[r] = Gen!TypeOf[s]
    BY <1>1 DEF Gen!SuiteOf
  <2>2. \A r \in Names : Gen!TypeOf[r] = Gen!TypeOf[s] => r = s
    BY <1>3
  <2>3. \E r \in Names : Gen!TypeOf[r] = Gen!TypeOf[s]
    OBVIOUS
  <2>. QED
    BY <2>1, <2>2, <2>3, Zenon
<1>. QED
  BY <1>1, <1>2, <1>4

\* A test filed again is as it was.
LEMMA FiledOnce ==
  ASSUME NEW t, Gen!IsTest(t), NEW s
  PROVE  Gen!Filed(Gen!Filed(t, s), s) = Gen!Filed(t, s)
<1>1. t = [f \in Gen!Fields |-> t[f]]
  BY DEF Gen!IsTest
<1> DEFINE u == [f \in Gen!Fields |-> IF f = "category" THEN s ELSE t[f]]
<1>2. Gen!Filed(t, s) = u
  BY <1>1 DEF Gen!Filed, Gen!Fields
<1>3. [u EXCEPT !.category = s] = u
  BY DEF Gen!Fields
<1>. QED
  BY <1>2, <1>3 DEF Gen!Filed

\* The least of some positions is one of them.
LEMMA LeastIs ==
  ASSUME NEW T, NEW seq \in Seq(T), NEW S \in SUBSET DOMAIN seq, S # {}
  PROVE  Gen!Min(S) \in S
<1>1. PICK m \in S : \A j \in S : m <= j
  <2>1. S \in SUBSET Nat /\ IsFiniteSet(S)
    BY PositionsAre
  <2>. QED
    BY <2>1, LeastOf
<1>. QED
  BY <1>1, Zenon DEF Gen!Min

\* The case that a test becomes is one of the library with the test or one that
\* may be reused for it, or a new one; for an API test it is of its operation.
LEMMA HomeIs ==
  ASSUME library \in Seq(Gen!ToSet(library)), \A c \in DOMAIN library : Gen!IsTest(library[c].test),
         Legacy \subseteq DOMAIN library, NEW t, NEW type
  PROVE  /\ Gen!Home(t, type) \notin DOMAIN library => Gen!Home(t, type) = Len(library) + 1 /\ Gen!Twins(t) = {}
         /\ t.category = "api_tests" /\ type = "api" /\ Gen!Home(t, type) \in DOMAIN library =>
               Gen!ApiKey(library[Gen!Home(t, type)].test) = Gen!ApiKey(t)
<1> DEFINE twins == Gen!Twins(t)
           others == Gen!Reusable(t, type)
<1>0. DOMAIN library = 1 .. Len(library) /\ Len(library) \in Nat
  BY LenProperties
<1>1. twins \in SUBSET DOMAIN library /\ others \in SUBSET DOMAIN library
  BY DEF Gen!Twins, Gen!Reusable
<1>2. Gen!Home(t, type) = IF twins # {} THEN Gen!Min(twins) ELSE IF others # {} THEN Gen!Min(others) ELSE Len(library) + 1
  BY DEF Gen!Home
<1>3. \A c \in twins : \/ Gen!generate_test_identity_hash(library[c].test) = Gen!generate_test_identity_hash(t)
                       \/ Gen!generate_test_slug(library[c].test) = Gen!generate_test_slug(t)
  BY DEF Gen!Twins, Gen!SameTest
<1>4. ASSUME type = "api", NEW c \in others PROVE Gen!ApiKey(library[c].test) = Gen!ApiKey(t)
  <2> DEFINE x == library[c].test
             y == Gen!Metadata(x)
  <2>1. y.method = t.method /\ Gen!normalize_endpoint(y.path) = Gen!normalize_endpoint(t.path)
    BY <1>4 DEF Gen!Reusable, Gen!_semantic_reuse_compatible
  <2>2. x = [f \in Gen!Fields |-> x[f]]
    BY <1>1, <1>4 DEF Gen!IsTest
  <2>3. y.method = x.method /\ y.path = x.path
    <3>. HIDE DEF x
    <3>. QED
      BY <2>2 DEF Gen!Metadata, Gen!Fields
  <2>. QED
    BY <2>1, <2>3 DEF Gen!ApiKey
<1>. HIDE DEF twins, others
<1>5. (twins # {} => Gen!Min(twins) \in twins) /\ (others # {} => Gen!Min(others) \in others)
  BY <1>1, LeastIs
<1>6. Gen!Home(t, type) \notin DOMAIN library => Gen!Home(t, type) = Len(library) + 1 /\ twins = {}
  BY <1>1, <1>2, <1>5
<1>7. ASSUME t.category = "api_tests", type = "api", Gen!Home(t, type) \in DOMAIN library
      PROVE  Gen!ApiKey(library[Gen!Home(t, type)].test) = Gen!ApiKey(t)
  <2>1. CASE twins # {}
    BY <1>2, <1>3, <1>5, <1>7, <2>1, SameOperation
  <2>2. CASE twins = {} /\ others # {}
    BY <1>2, <1>4, <1>5, <1>7, <2>2
  <2>3. CASE twins = {} /\ others = {}
    <3>1. Gen!Home(t, type) = Len(library) + 1
      BY <1>2, <2>3
    <3>. QED
      BY <1>0, <1>7, <3>1
  <2>. QED
    BY <2>1, <2>2, <2>3
<1>. QED
  BY <1>6, <1>7 DEF twins

\* _persist_case: what was there stays, and the test is there once.
LEMMA PersistIs ==
  ASSUME library \in Seq(Gen!ToSet(library)), Grown, doc' = doc, NEW t, NEW type, NEW u, u = Gen!Filed(t, Gen!SuiteOf(type)),
         Gen!IsTest(t), Gen!Backed(t), Gen!Original(t), Gen!_persist_case(t, type)
  PROVE  /\ library' \in Seq(Gen!ToSet(library)') /\ Grown'
         /\ DOMAIN library \subseteq DOMAIN library' /\ \A c \in DOMAIN library : library'[c] = library[c]
         /\ Gen!Home(u, type) \in DOMAIN library'
         /\ u.category = "api_tests" /\ type = "api" => Gen!ApiKey(library'[Gen!Home(u, type)].test) = Gen!ApiKey(u)
<1> DEFINE home == Gen!Home(u, type)
           n == Len(library) + 1
           x == [test |-> u, type |-> type]
<1>0. DOMAIN library = 1 .. Len(library) /\ Len(library) \in Nat /\ DOMAIN Old = 1 .. Len(Old) /\ Len(Old) \in Nat
      /\ Legacy \subseteq DOMAIN Old
  BY LenProperties, GeneratorAssumption DEF Gen!GenerationAssumption
<1>1. Legacy \subseteq DOMAIN library /\ DOMAIN Old \subseteq DOMAIN library /\ Len(Old) <= Len(library)
  BY <1>0 DEF Grown
<1>2. \A c \in DOMAIN library : Gen!IsTest(library[c].test)
  BY DEF Grown
<1>3. /\ home \notin DOMAIN library => home = n /\ Gen!Twins(u) = {}
      /\ u.category = "api_tests" /\ type = "api" /\ home \in DOMAIN library => Gen!ApiKey(library[home].test) = Gen!ApiKey(u)
  BY <1>1, <1>2, HomeIs
<1>4. Gen!IsTest(u) /\ Gen!Backed(u) /\ Gen!Original(u)
  BY FiledIs
<1>5. library' = IF home \in DOMAIN library THEN library ELSE Append(library, x)
  BY DEF Gen!_persist_case
<1>. HIDE DEF home
<1>6. CASE home \in DOMAIN library
  <2>1. library' = library
    BY <1>5, <1>6
  <2>2. Grown'
    BY <2>1 DEF Grown, Gen!Backed, Gen!Original, Gen!SameTest
  <2>3. Gen!ToSet(library)' = Gen!ToSet(library)
    BY <2>1 DEF Gen!ToSet
  <2>. QED
    BY <1>3, <1>6, <2>1, <2>2, <2>3 DEF home
<1>7. CASE home \notin DOMAIN library
  <2>1. library' = Append(library, x) /\ home = n /\ Gen!Twins(u) = {}
    BY <1>3, <1>5, <1>7
  <2>2. /\ Len(library') = n /\ DOMAIN library' = 1 .. n
        /\ library'[n] = x /\ \A c \in 1 .. Len(library) : library'[c] = library[c]
    <3> DEFINE T == Gen!ToSet(library) \union {x}
    <3>1. library \in Seq(T) /\ x \in T
      <4>1. Gen!ToSet(library) \subseteq T /\ x \in T
        OBVIOUS
      <4>. HIDE DEF T
      <4>. QED
        BY <4>1, SeqMonotonic
    <3>. HIDE DEF T, x
    <3>. QED
      BY <1>0, <2>1, <3>1, AppendProperties
  <2>3. library' \in Seq(Gen!ToSet(library)')
    <3>1. library' = [i \in 1 .. n |-> library'[i]]
      BY <2>1, <2>2, <1>0 DEF x
    <3>2. n \in Nat
      BY <1>0
    <3>3. library' \in [1 .. n -> Gen!ToSet(library)']
      <4>1. \A i \in 1 .. n : library'[i] \in Gen!ToSet(library)'
        BY <2>2 DEF Gen!ToSet
      <4>. HIDE DEF n
      <4>. QED
        BY <3>1, <4>1
    <3>. QED
      BY <3>2, <3>3, SeqDef
  <2>4. n \notin DOMAIN library /\ n \notin DOMAIN Old /\ DOMAIN library' = DOMAIN library \union {n} /\ n \in DOMAIN library'
    BY <1>0, <1>1, <2>2
  <2>5. Len(Old)' <= Len(library') /\ \A c \in DOMAIN Old : library'[c] = Old[c]
    BY <1>0, <1>1, <2>2 DEF Grown
  <2>6. \A c \in DOMAIN library' : Gen!IsTest(library'[c].test)
    <3>1. library'[n].test = u
      BY <2>2
    <3>. QED
      BY <1>0, <1>2, <1>4, <2>2, <2>4, <3>1
  <2>. HIDE DEF n
  <2>7. \A c \in DOMAIN library' \ DOMAIN Old : (c = n /\ library'[c].test = u) \/ (c \in DOMAIN library \ DOMAIN Old /\ library'[c] = library[c])
    <3>1. library'[n].test = u
      BY <2>2
    <3>2. \A c \in DOMAIN library : library'[c] = library[c]
      BY <1>0, <2>2
    <3>. QED
      BY <2>4, <3>1, <3>2
  <2>8. ASSUME NEW c \in DOMAIN library' \ DOMAIN Old PROVE (Gen!Backed(library[c].test) /\ Gen!Original(library[c].test))'
    BY <1>4, <2>7 DEF Grown, Gen!Backed, Gen!Original
  <2>9. \A c \in DOMAIN library \ Legacy : Gen!generate_test_identity_hash(library[c].test) # Gen!generate_test_identity_hash(u)
    BY <2>1 DEF Gen!Twins, Gen!SameTest
  <2>10. ASSUME NEW c \in DOMAIN library' \ DOMAIN Old, NEW d \in DOMAIN library' \ DOMAIN Old, c # d
         PROVE  Gen!generate_test_identity_hash(library'[d].test) # Gen!generate_test_identity_hash(library'[c].test)
    <3>1. c \notin Legacy /\ d \notin Legacy
      BY <1>0
    <3>2. CASE c = n
      <4>1. library'[c].test = u /\ d \in DOMAIN library \ Legacy /\ library'[d] = library[d]
        BY <2>4, <2>7, <2>10, <3>1, <3>2
      <4>. QED
        BY <2>9, <4>1, Zenon
    <3>3. CASE d = n
      <4>1. library'[d].test = u /\ c \in DOMAIN library \ Legacy /\ library'[c] = library[c]
        BY <2>4, <2>7, <2>10, <3>1, <3>3
      <4>. QED
        BY <2>9, <4>1, Zenon
    <3>4. CASE c # n /\ d # n
      <4>1. c \in DOMAIN library \ DOMAIN Old /\ d \in DOMAIN library \ DOMAIN Old /\ library'[c] = library[c] /\ library'[d] = library[d]
        BY <2>7, <3>4
      <4>2. ~Gen!SameTest(library[c].test, d)
        BY <2>10, <4>1 DEF Grown
      <4>. QED
        BY <3>1, <4>1, <4>2 DEF Gen!SameTest
    <3>. QED
      BY <3>2, <3>3, <3>4
  <2>11. Grown'
    <3>1. \A c, d \in DOMAIN library' \ DOMAIN Old : c # d => ~Gen!SameTest(library[c].test, d)'
      BY <2>10 DEF Gen!SameTest
    <3>. QED
      BY <2>5, <2>6, <2>8, <3>1 DEF Grown
  <2>12. library'[home].test = u /\ home \in DOMAIN library'
    BY <2>1, <2>2, <2>4 DEF n
  <2>. QED
    BY <1>0, <2>2, <2>3, <2>4, <2>11, <2>12 DEF home
<1>. QED
  BY <1>6, <1>7

-----------------------------------------------------------------------------
(* The steps of the generation                                             *)

\* A step that only adds evidence or asks the models stores nothing.
LEMMA Asking ==
  ASSUME Answered, pc # "persist", answered' = answered, pc' \notin {"layer2", "repair", "guard", "persist"}
  PROVE  Tested' /\ Planned' /\ Answered'
BY DEF Tested, Planned, Answered

\* The library as it is.
LEMMA LibraryKept ==
  ASSUME library \in Seq(Gen!ToSet(library)), Grown, library' = library, doc' = doc
  PROVE  library' \in Seq(Gen!ToSet(library)') /\ Grown'
<1>1. Grown'
  BY DEF Grown, Gen!Backed, Gen!Original, Gen!SameTest
<1>2. Gen!ToSet(library)' = Gen!ToSet(library)
  BY DEF Gen!ToSet
<1>. QED
  BY <1>1, <1>2

\* The suites as they are.
LEMMA SuitesKept ==
  ASSUME Shaped, suites' = suites
  PROVE  DOMAIN suites' = Names /\ \A s \in Names : Gen!Tests(suites'[s])
BY DEF Shaped

\* The tests to be stored as they are.
LEMMA TodoKept ==
  ASSUME todo \in Seq(Gen!ToSet(todo)), todo' = todo
  PROVE  todo' \in Seq(Gen!ToSet(todo)') /\ Gen!ToSet(todo)' = Gen!ToSet(todo)
<1>1. Gen!ToSet(todo)' = Gen!ToSet(todo)
  BY DEF Gen!ToSet
<1>. QED
  BY <1>1

\* No suites.
LEMMA NoneThere == DOMAIN Gen!NoTests = Names /\ \A s \in Names : Gen!Tests(Gen!NoTests[s]) /\ Gen!NoTests[s] = <<>>
BY SuitesAre, NoTestsThere DEF Gen!NoTests

\* The end of a run.
LEMMA EndKeeps ==
  ASSUME GenInv, NEW result, Gen!End(result)
  PROVE  GenInv'
<1>1. /\ pc' = "idle" /\ surface' = <<>> /\ suites' = Gen!NoTests /\ todo' = <<>> /\ answered' = {}
      /\ doc' = doc /\ focus' = focus /\ waiting' = waiting /\ library' = library
  BY DEF Gen!End, Gen!request
<1>2. Grown' /\ library' \in Seq(Gen!ToSet(library)')
  BY <1>1, LibraryKept DEF GenInv, Shaped
<1>3. todo' \in Seq(Gen!ToSet(todo)')
  <2>1. Gen!ToSet(todo)' = Gen!ToSet(<<>>)
    BY <1>1 DEF Gen!ToSet
  <2>2. <<>> \in Seq(Gen!ToSet(<<>>))
    BY EmptySeq
  <2>. QED
    BY <1>1, <2>1, <2>2
<1>4. DOMAIN suites' = Names /\ \A s \in Names : Gen!Tests(suites'[s])
  BY <1>1, NoneThere
<1>5. surface' \in Seq(DOMAIN Baseline)
  BY <1>1, EmptySeq
<1>6. Shaped'
  BY <1>1, <1>2, <1>3, <1>4, <1>5 DEF GenInv, Shaped
<1>7. Tested' /\ Planned' /\ Answered'
  BY <1>1 DEF Tested, Planned, Answered
<1>. QED
  BY <1>2, <1>6, <1>7 DEF GenInv

\* The end of a step that leaves the library alone and starts no storing.
LEMMA Prepared ==
  ASSUME GenInv, pc # "persist", pc' \notin {"layer2", "repair", "guard", "persist"},
         doc' = doc, focus' = focus, library' = library, answered' = answered, todo' = todo,
         surface' \in Seq(DOMAIN Baseline), DOMAIN suites' = Names, \A s \in Names : Gen!Tests(suites'[s]),
         \A job \in waiting' : job[1] \in {"happy", "negative", "chaos", "ui"}
  PROVE  GenInv'
<1>1. Tested' /\ Planned' /\ Answered'
  BY Asking DEF GenInv
<1>2. Grown' /\ library' \in Seq(Gen!ToSet(library)') /\ todo' \in Seq(Gen!ToSet(todo)')
  BY LibraryKept, TodoKept DEF GenInv, Shaped
<1>3. Shaped'
  BY <1>2 DEF GenInv, Shaped
<1>. QED
  BY <1>1, <1>2, <1>3 DEF GenInv

\* A run begins, or there is too little to begin with.
LEMMA StartKeeps ==
  ASSUME GenInv, Gen!Start
  PROVE  GenInv'
<1>1. /\ pc = "idle" /\ pc' \in {"idle", "extract"} /\ doc' = doc /\ focus' = focus /\ surface' = surface /\ suites' = suites
      /\ waiting' = waiting /\ todo' = todo /\ library' = library /\ answered' = answered
  BY DEF Gen!Start, Gen!evidence, Gen!stored
<1>2. DOMAIN suites' = Names /\ \A s \in Names : Gen!Tests(suites'[s])
  BY <1>1, SuitesKept DEF GenInv
<1>3. surface' \in Seq(DOMAIN Baseline) /\ \A job \in waiting' : job[1] \in {"happy", "negative", "chaos", "ui"}
  BY <1>1 DEF GenInv, Shaped
<1>. QED
  BY <1>1, <1>2, <1>3, Prepared

\* What some findings name are operations with a baseline test.
LEMMA NamedIs ==
  ASSUME NEW items, Gen!Findings(items), NEW S \in SUBSET DOMAIN items
  PROVE  Gen!Named(Gen!ItemsAt(items, S)) \in Seq(DOMAIN Baseline)
<1> DEFINE some == Gen!ItemsAt(items, S)
<1>1. items \in Seq(Gen!ToSet(items)) /\ \A x \in Gen!ToSet(items) : x.what \in DOMAIN Baseline
  BY DEF Gen!Findings
<1>2. some \in Seq(Gen!ToSet(items))
  BY <1>1, ItemsAre
<1>. HIDE DEF some
<1>3. DOMAIN some = 1 .. Len(some) /\ Len(some) \in Nat /\ \A i \in 1 .. Len(some) : some[i] \in Gen!ToSet(items)
  BY <1>2, LenProperties, ElementOfSeq
<1>4. Gen!Named(some) = [i \in 1 .. Len(some) |-> some[i].what]
  BY <1>3 DEF Gen!Named
<1>5. [i \in 1 .. Len(some) |-> some[i].what] \in [1 .. Len(some) -> DOMAIN Baseline]
  BY <1>1, <1>3
<1>6. [i \in 1 .. Len(some) |-> some[i].what] \in Seq(DOMAIN Baseline)
  BY <1>3, <1>5, SeqDef
<1>. QED
  BY <1>4, <1>6 DEF some

\* _merge_api_candidates keeps to what it is given.
LEMMA MergeIs ==
  ASSUME NEW T, NEW a \in Seq(T), NEW b \in Seq(T)
  PROVE  Gen!_merge_api_candidates(a, b) \in Seq(T)
<1> DEFINE both == a \o b
           key == [i \in DOMAIN both |-> Gen!Whole(both[i])]
           some == Gen!UniqueBy(both, key)
<1>1. Gen!_merge_api_candidates(a, b) = some
  BY DEF Gen!_merge_api_candidates, Gen!Uniques
<1>2. both \in Seq(T)
  BY ConcatProperties
<1>. HIDE DEF both
<1>3. both \in Seq(Gen!ToSet(both)) /\ Gen!ToSet(both) \subseteq T
  BY <1>2, InList
<1>. HIDE DEF key
<1>4. some \in Seq(Gen!ToSet(some)) /\ Gen!ToSet(some) \subseteq Gen!ToSet(both)
  BY <1>3, UniquesAre
<1>. HIDE DEF some
<1>5. Gen!ToSet(some) \subseteq T
  BY <1>3, <1>4
<1>6. some \in Seq(T)
  BY <1>4, <1>5, SeqMonotonic
<1>. QED
  BY <1>1, <1>6

\* The operations and controls that the documents name.
LEMMA ExtractKeeps ==
  ASSUME GenInv, Gen!Extract
  PROVE  GenInv'
<1>1. PICK answer \in Replies["extract"] :
          IF answer = Failed THEN Gen!End("failed")
          ELSE /\ surface' = Gen!_merge_api_candidates(Gen!Named(Gen!Supported(answer.apis)), Gen!build_raw_api_spec_from_documents(doc))
               /\ pc' \in {"infer", "fuse"}
               /\ doc' = doc /\ focus' = focus /\ suites' = suites /\ waiting' = waiting /\ todo' = todo
               /\ library' = library /\ answered' = answered
  BY DEF Gen!Extract, Gen!call_llm_json_with_repair, Gen!request, Gen!stored
<1>2. CASE answer = Failed
  BY <1>1, <1>2, EndKeeps
<1>3. CASE answer # Failed
  <2> DEFINE S == {i \in DOMAIN answer.apis : Gen!_grounded_item_supported(doc, answer.apis[i])}
  <2>1. Gen!Findings(answer.apis)
    BY <1>3, GeneratorAssumption DEF Gen!GenerationAssumption
  <2>2. Gen!Supported(answer.apis) = Gen!ItemsAt(answer.apis, S)
    BY DEF Gen!Supported, Gen!Where
  <2>3. Gen!Named(Gen!Supported(answer.apis)) \in Seq(DOMAIN Baseline)
    <3>1. S \in SUBSET DOMAIN answer.apis
      OBVIOUS
    <3>. HIDE DEF S
    <3>. QED
      BY <2>1, <2>2, <3>1, NamedIs
  <2>4. Gen!build_raw_api_spec_from_documents(doc) \in Seq(DOMAIN Baseline)
    BY GeneratorAssumption DEF Gen!GenerationAssumption, GenInv, Shaped
  <2>5. surface' \in Seq(DOMAIN Baseline)
    BY <1>1, <1>3, <2>3, <2>4, MergeIs
  <2>6. DOMAIN suites' = Names /\ \A s \in Names : Gen!Tests(suites'[s])
    BY <1>1, <1>3, SuitesKept DEF GenInv
  <2>7. \A job \in waiting' : job[1] \in {"happy", "negative", "chaos", "ui"}
    BY <1>1, <1>3 DEF GenInv, Shaped
  <2>8. pc # "persist"
    BY DEF Gen!Extract
  <2>. QED
    BY <1>1, <1>3, <2>5, <2>6, <2>7, <2>8, Prepared
<1>. QED
  BY <1>2, <1>3

\* Pass 2.
LEMMA InferKeeps ==
  ASSUME GenInv, Gen!Infer
  PROVE  GenInv'
<1>1. PICK answer \in Replies["infer"] :
          IF answer = Failed THEN Gen!End("failed")
          ELSE /\ surface' = Gen!_merge_api_candidates(surface, Gen!Named(Gen!ItemsAt(answer, {i \in DOMAIN answer : ~answer[i].leak})))
               /\ pc' = "fuse"
               /\ doc' = doc /\ focus' = focus /\ suites' = suites /\ waiting' = waiting /\ todo' = todo
               /\ library' = library /\ answered' = answered
  BY DEF Gen!Infer, Gen!call_llm_json_with_repair, Gen!request, Gen!stored, Gen!Where
<1>2. CASE answer = Failed
  BY <1>1, <1>2, EndKeeps
<1>3. CASE answer # Failed
  <2> DEFINE S == {i \in DOMAIN answer : ~answer[i].leak}
  <2>1. Gen!Findings(answer)
    BY <1>3, GeneratorAssumption DEF Gen!GenerationAssumption
  <2>2. Gen!Named(Gen!ItemsAt(answer, S)) \in Seq(DOMAIN Baseline)
    <3>1. S \in SUBSET DOMAIN answer
      OBVIOUS
    <3>. HIDE DEF S
    <3>. QED
      BY <2>1, <3>1, NamedIs
  <2>3. surface \in Seq(DOMAIN Baseline)
    BY DEF GenInv, Shaped
  <2>4. surface' \in Seq(DOMAIN Baseline)
    BY <1>1, <1>3, <2>2, <2>3, MergeIs
  <2>5. DOMAIN suites' = Names /\ \A s \in Names : Gen!Tests(suites'[s])
    BY <1>1, <1>3, SuitesKept DEF GenInv
  <2>6. \A job \in waiting' : job[1] \in {"happy", "negative", "chaos", "ui"}
    BY <1>1, <1>3 DEF GenInv, Shaped
  <2>7. pc # "persist"
    BY DEF Gen!Infer
  <2>. QED
    BY <1>1, <1>3, <2>4, <2>5, <2>6, <2>7, Prepared
<1>. QED
  BY <1>2, <1>3

\* What the model finds to inherit.
LEMMA FuseKeeps ==
  ASSUME GenInv, Gen!Fuse
  PROVE  GenInv'
<1>1. /\ pc = "fuse" /\ pc' = "inherit" /\ doc' = doc /\ focus' = focus /\ surface' = surface /\ suites' = suites
      /\ waiting' = waiting /\ todo' = todo /\ library' = library /\ answered' = answered
  BY DEF Gen!Fuse, Gen!request, Gen!evidence, Gen!stored
<1>2. DOMAIN suites' = Names /\ \A s \in Names : Gen!Tests(suites'[s])
  BY <1>1, SuitesKept DEF GenInv
<1>3. surface' \in Seq(DOMAIN Baseline) /\ \A job \in waiting' : job[1] \in {"happy", "negative", "chaos", "ui"}
  BY <1>1 DEF GenInv, Shaped
<1>. QED
  BY <1>1, <1>2, <1>3, Prepared

\* Inheriting stores a test that has been checked, or none.
LEMMA InheritKeeps ==
  ASSUME GenInv, Gen!Inherit
  PROVE  GenInv'
<1>1. /\ pc = "inherit" /\ pc' = pc /\ doc' = doc /\ focus' = focus /\ surface' = surface /\ suites' = suites
      /\ waiting' = waiting /\ todo' = todo /\ answered' = answered
  BY DEF Gen!Inherit, Gen!request, Gen!evidence
<1>2. DOMAIN suites' = Names /\ \A s \in Names : Gen!Tests(suites'[s])
  BY <1>1, SuitesKept DEF GenInv
<1>3. surface' \in Seq(DOMAIN Baseline) /\ \A job \in waiting' : job[1] \in {"happy", "negative", "chaos", "ui"}
  BY <1>1 DEF GenInv, Shaped
<1>4. CASE library' = library
  BY <1>1, <1>2, <1>3, <1>4, Prepared
<1>5. CASE library' # library
  <2> DEFINE r == Head(references)
  <2>1. PICK t \in Replies["adapt"] : t # Failed /\ Gen!Carried(t) /\ Gen!_persist_case(t, library[r.case].type)
    BY <1>5 DEF Gen!Inherit, Gen!call_llm_json_with_repair
  <2>2. Gen!IsTest(t) /\ Gen!Backed(t) /\ Gen!Original(t)
    BY <2>1, GeneratorAssumption DEF Gen!GenerationAssumption, Gen!Carried
  <2>3. library' \in Seq(Gen!ToSet(library)') /\ Grown'
    BY <1>1, <2>1, <2>2, PersistIs DEF GenInv, Shaped
  <2>4. todo' \in Seq(Gen!ToSet(todo)')
    BY <1>1, TodoKept DEF GenInv, Shaped
  <2>5. Tested' /\ Planned' /\ Answered'
    BY <1>1, Asking DEF GenInv
  <2>6. Shaped'
    BY <1>1, <1>2, <1>3, <2>3, <2>4 DEF GenInv, Shaped
  <2>. QED
    BY <2>3, <2>5, <2>6 DEF GenInv
<1>. QED
  BY <1>4, <1>5

\* A worker asks for one kind of tests.
LEMMA JobsAre == \A job \in Gen!Jobs : job[1] \in {"happy", "negative", "chaos", "ui"}
<1> DEFINE C == Gen!Chunks(surface)
           R == {d \in {Gen!Where(c, LAMBDA op : op \in Risky) : c \in C} : d # <<>>}
           U == IF components = {} THEN {} ELSE {<<"ui", Gen!SetToSeq(components)>>}
           api == (UNION {{<<"happy", c>>, <<"negative", c>>} : c \in C})
           chaos == {<<"chaos", c>> : c \in R}
           ui == IF ~Gen!Verdict.ui THEN {} ELSE {<<"ui", <<>>>>} \union U
<1>1. Gen!Jobs = api \union chaos \union ui
  BY DEF Gen!Jobs
<1>2. \A job \in api : job[1] \in {"happy", "negative"}
  <2>. HIDE DEF C
  <2>. QED
    OBVIOUS
<1>3. \A job \in chaos : job[1] = "chaos"
  <2>. HIDE DEF R
  <2>. QED
    OBVIOUS
<1>4. \A job \in ui : job[1] = "ui"
  OBVIOUS
<1>. HIDE DEF api, chaos, ui
<1>. QED
  BY <1>1, <1>2, <1>3, <1>4

\* The workers are of four kinds.
LEMMA DispatchKeeps ==
  ASSUME GenInv, Gen!Dispatch
  PROVE  GenInv'
<1>1. /\ pc = "inherit" /\ pc' = "layer1" /\ doc' = doc /\ focus' = focus /\ surface' = surface /\ suites' = suites
      /\ waiting' = Gen!Jobs /\ todo' = todo /\ library' = library /\ answered' = answered
  BY DEF Gen!Dispatch, Gen!request, Gen!evidence, Gen!stored
<1>2. DOMAIN suites' = Names /\ \A s \in Names : Gen!Tests(suites'[s])
  BY <1>1, SuitesKept DEF GenInv
<1>3. \A job \in Gen!Jobs : job[1] \in {"happy", "negative", "chaos", "ui"}
  BY JobsAre
<1>4. surface' \in Seq(DOMAIN Baseline)
  BY <1>1 DEF GenInv, Shaped
<1>. QED
  BY <1>1, <1>2, <1>3, <1>4, Prepared

\* The answer of a worker is tests, or none.
LEMMA CollectKeeps ==
  ASSUME GenInv, NEW job \in waiting, Gen!Collect(job)
  PROVE  GenInv'
<1> DEFINE suite == IF job[1] = "ui" THEN "ui_validations" ELSE "api_tests"
<1>1. /\ pc = "layer1" /\ pc' = pc /\ doc' = doc /\ focus' = focus /\ surface' = surface
      /\ waiting' = waiting \ {job} /\ todo' = todo /\ library' = library /\ answered' = answered
  BY DEF Gen!Collect, Gen!request, Gen!evidence, Gen!stored
<1>2. PICK answer \in Replies[job[1]] :
         suites' = IF answer = Failed THEN suites ELSE [suites EXCEPT ![suite] = @ \o answer]
  BY DEF Gen!Collect, Gen!call_llm_json_with_repair
<1>3. job[1] \in {"happy", "negative", "chaos", "ui"}
  BY DEF GenInv, Shaped
<1>4. answer # Failed => Gen!Tests(answer)
  BY <1>3, GeneratorAssumption DEF Gen!GenerationAssumption
<1>5. DOMAIN suites = Names /\ \A s \in Names : Gen!Tests(suites[s])
  BY DEF GenInv, Shaped
<1>6. suite \in Names
  BY DEF Names
<1>. HIDE DEF suite
<1>7. DOMAIN suites' = Names /\ \A s \in Names : Gen!Tests(suites'[s])
  <2>1. CASE answer = Failed
    BY <1>2, <1>5, <2>1
  <2>2. CASE answer # Failed
    <3>1. Gen!Tests(suites[suite] \o answer)
      BY <1>4, <1>5, <1>6, <2>2, MoreTests
    <3>. QED
      BY <1>2, <1>5, <1>6, <2>2, <3>1
  <2>. QED
    BY <2>1, <2>2
<1>8. surface' \in Seq(DOMAIN Baseline) /\ \A k \in waiting' : k[1] \in {"happy", "negative", "chaos", "ui"}
  BY <1>1 DEF GenInv, Shaped
<1>. QED
  BY <1>1, <1>7, <1>8, Prepared

\* The answers of the workers, filtered and made whole.
LEMMA GatherKeeps ==
  ASSUME GenInv, Gen!Gather
  PROVE  GenInv'
<1> DEFINE api == Gen!_ensure_api_endpoint_coverage(Gen!_filter_api_tests(Gen!_deduplicate(suites["api_tests"], "api_tests")))
           ui == Gen!_filter_ui_tests(Gen!_deduplicate(suites["ui_validations"], "ui_validations"))
<1>1. /\ pc = "layer1" /\ pc' = "layer2" /\ doc' = doc /\ focus' = focus /\ surface' = surface
      /\ waiting' = waiting /\ todo' = todo /\ library' = library /\ answered' = answered
      /\ suites' = [suites EXCEPT !["api_tests"] = api, !["ui_validations"] = ui]
  BY DEF Gen!Gather, Gen!request, Gen!evidence, Gen!stored
<1>2. /\ surface \in Seq(DOMAIN Baseline) /\ DOMAIN suites = Names /\ \A s \in Names : Gen!Tests(suites[s])
      /\ "api_tests" \in Names /\ "ui_validations" \in Names
  BY DEF GenInv, Shaped, Names
<1>3. Gen!Tests(api) /\ {Gen!ApiKey(t) : t \in Gen!ToSet(api)} = Keys
  <2> DEFINE tests == Gen!_deduplicate(suites["api_tests"], "api_tests")
  <2>1. Gen!Tests(tests)
    BY <1>2, DedupIs
  <2>. HIDE DEF tests
  <2>2. \A all : all = Gen!_ensure_api_endpoint_coverage(Gen!_filter_api_tests(tests)) =>
                    Gen!Tests(all) /\ {Gen!ApiKey(t) : t \in Gen!ToSet(all)} = Keys
    BY <1>2, <2>1, CoveredIs
  <2>. QED
    BY <2>2 DEF tests
<1>4. Gen!Tests(ui)
  <2> DEFINE tests == Gen!_deduplicate(suites["ui_validations"], "ui_validations")
  <2>1. Gen!Tests(tests)
    BY <1>2, DedupIs
  <2>. HIDE DEF tests
  <2>2. Gen!Tests(Gen!_filter_ui_tests(tests))
    BY <2>1, ScreensAre
  <2>. QED
    BY <2>2 DEF tests
<1>. HIDE DEF api, ui
<1>5. DOMAIN suites' = Names /\ suites'["api_tests"] = api /\ \A s \in Names : Gen!Tests(suites'[s])
  BY <1>1, <1>2, <1>3, <1>4
<1>6. Grown' /\ library' \in Seq(Gen!ToSet(library)') /\ todo' \in Seq(Gen!ToSet(todo)')
  BY <1>1, LibraryKept, TodoKept DEF GenInv, Shaped
<1>7. Shaped'
  BY <1>1, <1>2, <1>5, <1>6 DEF GenInv, Shaped
<1>8. Keys' = Keys
  BY <1>1 DEF Keys
<1>9. Tested'
  BY <1>3, <1>5, <1>8 DEF Tested
<1>10. Planned' /\ Answered'
  BY <1>1 DEF GenInv, Planned, Answered
<1>. QED
  BY <1>6, <1>7, <1>9, <1>10 DEF GenInv

\* The answer of a guarded call, or nothing.
LEMMA MoreIs ==
  ASSUME NEW call \in {"more_journeys", "more_business"}, NEW a \in Gen!Guarded(call) \union Gen!Skipped
  PROVE  Gen!Tests(a.tests)
<1>1. \A x \in Replies[call] \ {Failed} : Gen!Tests(x)
  BY GeneratorAssumption DEF Gen!GenerationAssumption
<1>2. CASE a \in Gen!Guarded(call)
  BY <1>1, <1>2, NoTestsThere DEF Gen!Guarded, Gen!call_llm_json_with_repair
<1>3. CASE a \in Gen!Skipped
  BY <1>3, NoTestsThere DEF Gen!Skipped
<1>. QED
  BY <1>2, <1>3

\* Journeys, edge cases and business rules; the API suite is only thinned out.
LEMMA Layer2Keeps ==
  ASSUME GenInv, Gen!Layer2
  PROVE  GenInv'
<1>1. /\ pc = "layer2" /\ pc' = "repair" /\ doc' = doc /\ focus' = focus /\ surface' = surface
      /\ waiting' = waiting /\ todo' = todo /\ library' = library /\ answered' = answered
  BY DEF Gen!Layer2, Gen!request, Gen!evidence, Gen!stored
<1>2. /\ surface \in Seq(DOMAIN Baseline) /\ DOMAIN suites = Names /\ \A s \in Names : Gen!Tests(suites[s])
      /\ "api_tests" \in Names /\ "ui_validations" \in Names
  BY DEF GenInv, Shaped, Names
<1> DEFINE Answer(a) == IF a = Failed THEN Gen!NoTests ELSE a
<1>3. PICK a \in Replies["journeys"],
           more \in Gen!Guarded("more_journeys") \union Gen!Skipped, rules \in Gen!Guarded("more_business") \union Gen!Skipped :
        /\ errors \subseteq errors'
        /\ suites' = [s \in Gen!ToSet(Gen!Suites) |->
                    CASE s = "ui_validations" -> suites[s]
                      [] s = "api_tests" -> Gen!_deduplicate(suites[s], s)
                      [] s = "e2e_tests" -> Gen!_deduplicate(Answer(a)[s] \o more.tests, s)
                      [] s = "business_tests" -> Gen!_deduplicate(Answer(a)[s] \o rules.tests, s)
                      [] OTHER -> Gen!_deduplicate(Answer(a)[s], s)]
  <2>1. PICK a \in Replies["journeys"] :
        LET answer == IF a = Failed THEN Gen!NoTests ELSE a
            few == Len(answer["e2e_tests"]) < MinJourneys /\ Len(surface) > ManyApis
            thin == Gen!Verdict.business /\ Len(answer["business_tests"]) < BusinessMin
        IN  \E more \in IF few THEN Gen!Guarded("more_journeys") ELSE Gen!Skipped,
               rules \in IF thin THEN Gen!Guarded("more_business") ELSE Gen!Skipped :
               /\ errors' = errors \union (IF a = Failed THEN {"journeys"} ELSE {})
                                   \union (IF more.failed THEN {"more_journeys"} ELSE {})
                                   \union (IF rules.failed THEN {"more_business"} ELSE {})
               /\ suites' = [s \in Gen!ToSet(Gen!Suites) |->
                    CASE s = "ui_validations" -> suites[s]
                      [] s = "api_tests" -> Gen!_deduplicate(suites[s], s)
                      [] s = "e2e_tests" -> Gen!_deduplicate(answer[s] \o more.tests, s)
                      [] s = "business_tests" -> Gen!_deduplicate(answer[s] \o rules.tests, s)
                      [] OTHER -> Gen!_deduplicate(answer[s], s)]
    BY DEF Gen!Layer2, Gen!call_llm_json_with_repair
  <2>2. PICK more \in Gen!Guarded("more_journeys") \union Gen!Skipped, rules \in Gen!Guarded("more_business") \union Gen!Skipped :
               /\ errors' = errors \union (IF a = Failed THEN {"journeys"} ELSE {})
                                   \union (IF more.failed THEN {"more_journeys"} ELSE {})
                                   \union (IF rules.failed THEN {"more_business"} ELSE {})
               /\ suites' = [s \in Gen!ToSet(Gen!Suites) |->
                    CASE s = "ui_validations" -> suites[s]
                      [] s = "api_tests" -> Gen!_deduplicate(suites[s], s)
                      [] s = "e2e_tests" -> Gen!_deduplicate(Answer(a)[s] \o more.tests, s)
                      [] s = "business_tests" -> Gen!_deduplicate(Answer(a)[s] \o rules.tests, s)
                      [] OTHER -> Gen!_deduplicate(Answer(a)[s], s)]
    BY <2>1
  <2>3. errors \subseteq errors'
    BY <2>2
  <2>. QED
    BY <2>2, <2>3
<1>4. \A s \in Names : Gen!Tests(Answer(a)[s])
  <2>1. CASE a = Failed
    BY <2>1, NoneThere
  <2>2. CASE a # Failed
    BY <2>2, SuitesAre, GeneratorAssumption DEF Gen!GenerationAssumption
  <2>. QED
    BY <2>1, <2>2
<1>. HIDE DEF Answer
<1>5. Gen!Tests(more.tests) /\ Gen!Tests(rules.tests)
  BY MoreIs
<1>6. ASSUME NEW s \in Names PROVE Gen!Tests(suites'[s])
  <2>1. \A x : Gen!Tests(x) => Gen!Tests(Gen!_deduplicate(x, s))
    BY DedupIs
  <2>2. Gen!Tests(suites[s]) /\ Gen!Tests(Answer(a)[s])
    BY <1>2, <1>4
  <2>3. Gen!Tests(Answer(a)[s] \o more.tests) /\ Gen!Tests(Answer(a)[s] \o rules.tests)
    BY <1>5, <2>2, MoreTests
  <2>4. \/ suites'[s] = suites[s]
        \/ suites'[s] = Gen!_deduplicate(suites[s], s)
        \/ suites'[s] = Gen!_deduplicate(Answer(a)[s] \o more.tests, s)
        \/ suites'[s] = Gen!_deduplicate(Answer(a)[s] \o rules.tests, s)
        \/ suites'[s] = Gen!_deduplicate(Answer(a)[s], s)
    BY <1>3, SuitesAre
  <2>. QED
    BY <2>1, <2>2, <2>3, <2>4
<1>7. DOMAIN suites' = Names /\ suites'["api_tests"] = Gen!_deduplicate(suites["api_tests"], "api_tests")
  BY <1>2, <1>3, SuitesAre
<1>8. Grown' /\ library' \in Seq(Gen!ToSet(library)') /\ todo' \in Seq(Gen!ToSet(todo)')
  BY <1>1, LibraryKept, TodoKept DEF GenInv, Shaped
<1>9. Shaped'
  BY <1>1, <1>6, <1>7, <1>8 DEF GenInv, Shaped
<1>10. Keys' = Keys
  BY <1>1 DEF Keys
<1>11. Tested'
  <2>1. SUFFICES ASSUME "repair" \notin errors' PROVE {Gen!ApiKey(t) : t \in Gen!ToSet(suites'["api_tests"])} = Keys'
    BY DEF Tested
  <2>2. {Gen!ApiKey(t) : t \in Gen!ToSet(suites["api_tests"])} = Keys
    BY <1>1, <1>3, <2>1 DEF GenInv, Tested
  <2>3. {Gen!ApiKey(t) : t \in Gen!ToSet(Gen!_deduplicate(suites["api_tests"], "api_tests"))} = Keys
    BY <1>2, <2>2, StillCovered
  <2>. QED
    BY <1>7, <1>10, <2>3
<1>12. Planned' /\ Answered'
  BY <1>1 DEF GenInv, Planned, Answered
<1>. QED
  BY <1>8, <1>9, <1>11, <1>12 DEF GenInv

\* A delta takes tests away and adds tests.
LEMMA DeltaIs ==
  ASSUME NEW tests, Gen!Tests(tests), NEW delta, Gen!Tests(delta.add), NEW s
  PROVE  Gen!Tests(Gen!_apply_delta(tests, delta, s))
<1> DEFINE S == {i \in DOMAIN tests : Gen!generate_test_identity_hash(tests[i]) \notin delta.remove}
           kept == Gen!ItemsAt(tests, S)
<1>1. Gen!_apply_delta(tests, delta, s) = Gen!_deduplicate(kept \o delta.add, s)
  BY DEF Gen!_apply_delta, Gen!Where
<1>2. S \in SUBSET DOMAIN tests
  OBVIOUS
<1>. HIDE DEF S
<1>3. Gen!Tests(kept)
  BY <1>2, SomeTests
<1>. HIDE DEF kept
<1>4. Gen!Tests(kept \o delta.add)
  BY <1>3, MoreTests
<1>. QED
  BY <1>1, <1>4, DedupIs

\* The suites after the deltas, the last of which may be none.
LEMMA PatchedIs ==
  ASSUME Shaped, NEW deltas \in Replies["repair"], deltas # Failed
  PROVE  DOMAIN Gen!Patched(deltas) = Names /\ \A s \in Names : Gen!Tests(Gen!Patched(deltas)[s])
<1>1. DOMAIN Gen!Patched(deltas) = Names
  BY SuitesAre DEF Gen!Patched
<1>2. ASSUME NEW s \in Names PROVE Gen!Tests(Gen!Patched(deltas)[s])
  <2>1. Gen!Tests(suites[s])
    BY DEF Shaped
  <2>2. CASE \E k \in DOMAIN Gen!Suites : Gen!Suites[k] = s /\ \A i \in 1 .. k : deltas[Gen!Suites[i]] # Failed
    <3>1. DOMAIN Gen!Suites = 1 .. 5
      BY DEF Gen!Suites
    <3>2. deltas[s] # Failed
      BY <2>2, <3>1
    <3>3. Gen!Tests(deltas[s].add)
      BY <3>2, SuitesAre, GeneratorAssumption DEF Gen!GenerationAssumption
    <3>4. Gen!Patched(deltas)[s] = Gen!_apply_delta(suites[s], deltas[s], s)
      BY <2>2, SuitesAre DEF Gen!Patched
    <3>. QED
      BY <2>1, <3>3, <3>4, DeltaIs
  <2>3. CASE ~\E k \in DOMAIN Gen!Suites : Gen!Suites[k] = s /\ \A i \in 1 .. k : deltas[Gen!Suites[i]] # Failed
    <3>1. Gen!Patched(deltas)[s] = suites[s]
      BY <2>3, SuitesAre DEF Gen!Patched
    <3>. QED
      BY <2>1, <3>1
  <2>. QED
    BY <2>2, <2>3
<1>. QED
  BY <1>1, <1>2

\* A repair leaves tests of all operations and of no other, or reports that it
\* failed.
LEMMA RepairKeeps ==
  ASSUME GenInv, Gen!Repair
  PROVE  GenInv'
<1>1. /\ pc = "repair" /\ pc' = "guard" /\ doc' = doc /\ focus' = focus /\ surface' = surface
      /\ waiting' = waiting /\ todo' = todo /\ library' = library /\ answered' = answered
  BY DEF Gen!Repair, Gen!request, Gen!evidence, Gen!stored
<1>2. surface \in Seq(DOMAIN Baseline) /\ DOMAIN suites = Names /\ (\A s \in Names : Gen!Tests(suites[s])) /\ "api_tests" \in Names
  BY DEF GenInv, Shaped, Names
<1> DEFINE Done(tests) == Gen!_deduplicate(Gen!_ensure_api_endpoint_coverage(Gen!_filter_api_tests(tests)), "api_tests")
<1>3. \/ UNCHANGED <<suites, errors>>
      \/ errors' = errors \union {"repair"} /\ suites' = suites
      \/ \E deltas \in Replies["repair"] : deltas # Failed /\ errors' = errors \union {"repair"} /\ suites' = Gen!Patched(deltas)
      \/ \E deltas \in Replies["repair"] :
            deltas # Failed /\ suites' = [Gen!Patched(deltas) EXCEPT !["api_tests"] = Done(@)] /\ errors' = errors
  BY DEF Gen!Repair, Gen!call_llm_json_with_repair
<1>4. ASSUME NEW tests, Gen!Tests(tests)
      PROVE  Gen!Tests(Done(tests)) /\ {Gen!ApiKey(t) : t \in Gen!ToSet(Done(tests))} = Keys
  <2> DEFINE all == Gen!_ensure_api_endpoint_coverage(Gen!_filter_api_tests(tests))
  <2>1. Gen!Tests(all) /\ {Gen!ApiKey(t) : t \in Gen!ToSet(all)} = Keys
    <3>. HIDE DEF all
    <3>. QED
      BY <1>2, <1>4, CoveredIs DEF all
  <2>. HIDE DEF all
  <2>2. Gen!Tests(Gen!_deduplicate(all, "api_tests"))
        /\ {Gen!ApiKey(t) : t \in Gen!ToSet(Gen!_deduplicate(all, "api_tests"))} = Keys
    BY <1>2, <2>1, DedupIs, StillCovered
  <2>. QED
    BY <2>2 DEF all
<1>. HIDE DEF Done
<1>5. /\ DOMAIN suites' = Names /\ \A s \in Names : Gen!Tests(suites'[s])
      /\ "repair" \notin errors' => {Gen!ApiKey(t) : t \in Gen!ToSet(suites'["api_tests"])} = Keys
  <2>1. CASE UNCHANGED <<suites, errors>>
    BY <1>1, <1>2, <2>1 DEF GenInv, Tested
  <2>2. CASE errors' = errors \union {"repair"} /\ suites' = suites
    BY <1>2, <2>2
  <2>3. ASSUME NEW deltas \in Replies["repair"], deltas # Failed, errors' = errors \union {"repair"}, suites' = Gen!Patched(deltas)
        PROVE  /\ DOMAIN suites' = Names /\ \A s \in Names : Gen!Tests(suites'[s])
               /\ "repair" \notin errors' => {Gen!ApiKey(t) : t \in Gen!ToSet(suites'["api_tests"])} = Keys
    BY <2>3, PatchedIs DEF GenInv
  <2>4. ASSUME NEW deltas \in Replies["repair"], deltas # Failed,
               suites' = [Gen!Patched(deltas) EXCEPT !["api_tests"] = Done(@)]
        PROVE  /\ DOMAIN suites' = Names /\ \A s \in Names : Gen!Tests(suites'[s])
               /\ "repair" \notin errors' => {Gen!ApiKey(t) : t \in Gen!ToSet(suites'["api_tests"])} = Keys
    <3> DEFINE before == Gen!Patched(deltas)
    <3>1. DOMAIN before = Names /\ \A s \in Names : Gen!Tests(before[s])
      BY <2>4, PatchedIs DEF GenInv
    <3>. HIDE DEF before
    <3>2. suites' = [before EXCEPT !["api_tests"] = Done(before["api_tests"])]
      BY <2>4 DEF before
    <3>3. Gen!Tests(Done(before["api_tests"])) /\ {Gen!ApiKey(t) : t \in Gen!ToSet(Done(before["api_tests"]))} = Keys
      BY <1>2, <1>4, <3>1
    <3>. QED
      BY <1>2, <3>1, <3>2, <3>3
  <2>. QED
    BY <1>3, <2>1, <2>2, <2>3, <2>4
<1>6. Grown' /\ library' \in Seq(Gen!ToSet(library)') /\ todo' \in Seq(Gen!ToSet(todo)')
  BY <1>1, LibraryKept, TodoKept DEF GenInv, Shaped
<1>7. Shaped'
  BY <1>1, <1>5, <1>6 DEF GenInv, Shaped
<1>8. Keys' = Keys
  BY <1>1 DEF Keys
<1>9. Tested'
  BY <1>5, <1>8 DEF Tested
<1>10. Planned' /\ Answered'
  BY <1>1 DEF GenInv, Planned, Answered
<1>. QED
  BY <1>6, <1>7, <1>9, <1>10 DEF GenInv

-----------------------------------------------------------------------------
(* The budget                                                              *)

\* The largest of two or three numbers.
LEMMA MostOf ==
  ASSUME NEW a \in Int, NEW b \in Int, NEW c \in Int, NEW S, S = {a, b} \/ S = {a, b, c}
  PROVE  Gen!Max(S) \in Int /\ \A x \in S : Gen!Max(S) >= x
<1>1. \E x \in S : \A y \in S : x >= y
  OBVIOUS
<1>2. Gen!Max(S) \in S /\ \A y \in S : Gen!Max(S) >= y
  BY <1>1, Zenon DEF Gen!Max
<1>. QED
  BY <1>2

\* A list with something in it.
LEMMA SomethingIn ==
  ASSUME NEW seq, seq \in Seq(Gen!ToSet(seq))
  PROVE  Gen!ToSet(seq) = {} <=> seq = <<>>
<1>1. Gen!ToSet(<<>>) = {}
  BY NoTestsThere
<1>2. seq # <<>> => Len(seq) > 0 /\ Len(seq) \in Nat
  BY EmptySeq, LenProperties
<1>3. seq # <<>> => seq[1] \in Gen!ToSet(seq)
  BY <1>2, InList
<1>. QED
  BY <1>1, <1>3

\* There are operations where there are tests.
LEMMA OperationsAre ==
  ASSUME NEW tests, Gen!Tests(tests)
  PROVE  Gen!Cardinality(Gen!Operations(tests)) \in Nat /\ (tests # <<>> => Gen!Cardinality(Gen!Operations(tests)) > 0)
<1> DEFINE O == {Gen!ApiKey(tests[i]) : i \in 1 .. Len(tests)}
<1>1. DOMAIN tests = 1 .. Len(tests) /\ Len(tests) \in Nat /\ tests \in Seq(Gen!ToSet(tests))
  BY TestsThere
<1>2. Gen!Operations(tests) = O
  BY <1>1 DEF Gen!Operations, Gen!ToSet
<1>3. IsFiniteSet(O)
  <2>1. IsFiniteSet(1 .. Len(tests))
    BY <1>1, FS_Interval
  <2> DEFINE f == [i \in 1 .. Len(tests) |-> Gen!ApiKey(tests[i])]
  <2>2. f \in Surjection(1 .. Len(tests), O)
    BY DEF Surjection
  <2>. HIDE DEF f, O
  <2>. QED
    BY <2>1, <2>2, FS_Surjection
<1>4. tests # <<>> => O # {}
  <2>1. tests # <<>> => 1 \in 1 .. Len(tests)
    BY <1>1, EmptySeq
  <2>. QED
    BY <2>1
<1>. HIDE DEF O
<1>5. Cardinality(O) \in Nat /\ (Cardinality(O) = 0 <=> O = {})
  BY <1>3, FS_CardinalityType, FS_EmptySet
<1>. QED
  BY <1>2, <1>4, <1>5, SameSizes

\* round() gives a number.
LEMMA RoundIs ==
  ASSUME NEW n \in Nat, NEW d \in Nat \ {0}
  PROVE  Gen!Round(n, d) \in Int
<1>1. n \div d \in Int
  OBVIOUS
<1>. QED
  BY <1>1 DEF Gen!Round

\* The focus of the suites.
LEMMA FocusIs ==
  ASSUME focus \in Focuses
  PROVE  (\A s \in Names : focus[s] \in Nat) /\ Gen!InAll(focus) \in Nat /\ MinKept \in Nat
<1>1. focus \in [Names -> Nat] /\ MinKept \in Nat
  BY SuitesAre, GeneratorAssumption DEF Gen!GenerationAssumption
<1>2. \A s \in Names : focus[s] \in Nat
  BY <1>1
<1>3. Gen!InAll(focus) \in Nat
  BY <1>2 DEF Gen!InAll, Names
<1>. QED
  BY <1>1, <1>2, <1>3

\* _budget_suites keeps some of each suite, and some of an API suite that has
\* tests and was asked for.
LEMMA BudgetIs ==
  ASSUME focus \in Focuses, NEW by, \A s \in Names : Gen!Tests(by[s])
  PROVE  /\ \A s \in Names : /\ Gen!Tests(Gen!_budget_suites(by)[s])
                             /\ Gen!ToSet(Gen!_budget_suites(by)[s]) \subseteq Gen!ToSet(by[s])
         /\ focus["api_tests"] # 0 /\ by["api_tests"] # <<>> => Gen!_budget_suites(by)["api_tests"] # <<>>
<1> DEFINE asked == [s \in Gen!ToSet(Gen!Suites) |-> IF focus[s] = 0 THEN <<>> ELSE by[s]]
           pool == Gen!InAll([s \in Gen!ToSet(Gen!Suites) |-> Len(asked[s])])
           weights == IF Gen!InAll(focus) = 0 THEN 100 ELSE Gen!InAll(focus)
           share(s) == Gen!Round(pool * focus[s], weights)
           least(s) == Gen!Min({Len(asked[s]), MinKept})
           ops(s) == Gen!Cardinality(Gen!Operations(asked[s]))
           some(s) == {share(s), least(s)} \union IF s = "api_tests" THEN {ops(s)} ELSE {}
           target(s) == Gen!Max(some(s))
<1>1. Gen!_budget_suites(by) = [s \in Gen!ToSet(Gen!Suites) |-> Gen!First(asked[s], target(s))]
  BY DEF Gen!_budget_suites
<1>2. ASSUME NEW s \in Names
      PROVE  /\ Gen!Tests(asked[s]) /\ Gen!ToSet(asked[s]) \subseteq Gen!ToSet(by[s]) /\ Len(asked[s]) \in Nat
             /\ focus[s] # 0 => asked[s] = by[s]
  <2>1. asked[s] = IF focus[s] = 0 THEN <<>> ELSE by[s]
    BY SuitesAre
  <2>2. Gen!Tests(asked[s]) /\ Gen!ToSet(asked[s]) \subseteq Gen!ToSet(by[s])
    BY <2>1, NoTestsThere
  <2>. HIDE DEF asked
  <2>. QED
    BY <2>1, <2>2, TestsThere
<1>3. pool \in Nat
  <2> DEFINE lens == [s \in Gen!ToSet(Gen!Suites) |-> Len(asked[s])]
  <2>1. \A s \in Names : lens[s] \in Nat
    <3>. HIDE DEF asked
    <3>. QED
      BY <1>2, SuitesAre
  <2>. HIDE DEF lens
  <2>2. Gen!InAll(lens) \in Nat
    BY <2>1 DEF Gen!InAll, Names
  <2>. QED
    BY <2>2 DEF lens
<1>4. (\A s \in Names : focus[s] \in Nat) /\ weights \in Nat \ {0} /\ MinKept \in Nat
  BY FocusIs
<1>. HIDE DEF asked, pool, weights
<1>5. ASSUME NEW s \in Names
      PROVE  target(s) \in Nat /\ (s = "api_tests" /\ asked[s] # <<>> => target(s) > 0)
  <2>1. share(s) \in Int
    <3>1. pool * focus[s] \in Nat
      BY <1>3, <1>4
    <3>. QED
      BY <1>4, <3>1, RoundIs
  <2>2. least(s) \in Nat
    BY <1>2, <1>4 DEF Gen!Min
  <2>3. ops(s) \in Nat /\ (asked[s] # <<>> => ops(s) > 0)
    BY <1>2, OperationsAre
  <2>. HIDE DEF share, least, ops
  <2>4. some(s) = IF s = "api_tests" THEN {share(s), least(s), ops(s)} ELSE {share(s), least(s)}
    OBVIOUS
  <2>5. least(s) \in some(s) /\ (s = "api_tests" => ops(s) \in some(s))
    OBVIOUS
  <2>6. target(s) \in Int /\ \A x \in some(s) : target(s) >= x
    <3>1. least(s) \in Int /\ ops(s) \in Int /\ (some(s) = {share(s), least(s)} \/ some(s) = {share(s), least(s), ops(s)})
      BY <2>2, <2>3, <2>4
    <3>. HIDE DEF some
    <3>. QED
      BY <2>1, <3>1, MostOf
  <2>. HIDE DEF some, target
  <2>. QED
    BY <2>2, <2>3, <2>5, <2>6
<1>. HIDE DEF target
<1>6. ASSUME NEW s \in Names
      PROVE  /\ Gen!_budget_suites(by)[s] = Gen!First(asked[s], target(s))
             /\ Gen!Tests(Gen!First(asked[s], target(s)))
             /\ Gen!ToSet(Gen!First(asked[s], target(s))) \subseteq Gen!ToSet(by[s])
             /\ target(s) > 0 /\ asked[s] # <<>> => Gen!First(asked[s], target(s)) # <<>>
  <2>1. Gen!_budget_suites(by)[s] = Gen!First(asked[s], target(s))
    BY <1>1, SuitesAre
  <2>2. asked[s] \in Seq(Gen!ToSet(asked[s])) /\ \A t \in Gen!ToSet(asked[s]) : Gen!IsTest(t)
    BY <1>2, TestsThere
  <2>3. target(s) \in Nat
    BY <1>5
  <2> DEFINE f == Gen!First(asked[s], target(s))
  <2>4. /\ f \in Seq(Gen!ToSet(f)) /\ Gen!ToSet(f) \subseteq Gen!ToSet(asked[s])
        /\ target(s) > 0 /\ asked[s] # <<>> => f # <<>>
    BY <2>2, <2>3, FirstIs
  <2>. HIDE DEF f
  <2>5. Gen!Tests(f)
    BY <2>2, <2>4 DEF Gen!Tests
  <2>. QED
    BY <1>2, <2>1, <2>4, <2>5 DEF f
<1>7. "api_tests" \in Names
  BY DEF Names
<1>. QED
  BY <1>2, <1>5, <1>6, <1>7

\* The tests of a suite with its type.
LEMMA TypedIs ==
  ASSUME NEW seq, Gen!Tests(seq), NEW type, NEW typed, typed = [i \in DOMAIN seq |-> [test |-> seq[i], type |-> type]]
  PROVE  /\ typed \in Seq(Gen!ToSet(typed))
         /\ \A x \in Gen!ToSet(typed) : \E t \in Gen!ToSet(seq) : x = [test |-> t, type |-> type]
         /\ Gen!ToSet(typed) = {} => Gen!ToSet(seq) = {}
<1>1. DOMAIN seq = 1 .. Len(seq) /\ Len(seq) \in Nat
  BY TestsThere
<1>2. typed = [i \in 1 .. Len(seq) |-> typed[i]] /\ \A i \in 1 .. Len(seq) : typed[i] = [test |-> seq[i], type |-> type]
  BY <1>1
<1>3. typed \in Seq(Gen!ToSet(typed)) /\ Gen!ToSet(typed) = {typed[i] : i \in 1 .. Len(seq)}
  BY <1>1, <1>2, MadeList
<1>4. Gen!ToSet(seq) = {seq[i] : i \in 1 .. Len(seq)}
  BY <1>1 DEF Gen!ToSet
<1>5. ASSUME NEW x \in Gen!ToSet(typed) PROVE \E t \in Gen!ToSet(seq) : x = [test |-> t, type |-> type]
  <2>1. PICK i \in 1 .. Len(seq) : x = typed[i]
    BY <1>3
  <2>2. seq[i] \in Gen!ToSet(seq)
    BY <1>4
  <2>. QED
    BY <1>2, <2>1, <2>2
<1>6. ASSUME Gen!ToSet(typed) = {} PROVE Gen!ToSet(seq) = {}
  <2>1. 1 .. Len(seq) = {}
    BY <1>3, <1>6
  <2>. QED
    BY <1>4, <2>1
<1>. QED
  BY <1>3, <1>5, <1>6

\* InOrder: what is to be stored are the tests of all suites with their types.
LEMMA OrderIs ==
  ASSUME NEW by, \A s \in Names : Gen!Tests(by[s])
  PROVE  /\ Gen!InOrder(by) \in Seq(Gen!ToSet(Gen!InOrder(by)))
         /\ \A x \in Gen!ToSet(Gen!InOrder(by)) :
               \E s \in Names : \E t \in Gen!ToSet(by[s]) : x = [test |-> t, type |-> Gen!TypeOf[s]]
         /\ Gen!InOrder(by) = <<>> => by["api_tests"] = <<>>
<1> DEFINE as(s) == [i \in DOMAIN by[s] |-> [test |-> by[s][i], type |-> Gen!TypeOf[s]]]
           a == as("api_tests")
           u == as("ui_validations")
           b == as("business_tests")
           e == as("e2e_tests")
           n == as("edge_cases")
<1>0. /\ "api_tests" \in Names /\ "ui_validations" \in Names /\ "business_tests" \in Names
      /\ "e2e_tests" \in Names /\ "edge_cases" \in Names
  BY DEF Names
<1>1. \A s \in Names : /\ as(s) \in Seq(Gen!ToSet(as(s)))
                       /\ \A x \in Gen!ToSet(as(s)) : \E t \in Gen!ToSet(by[s]) : x = [test |-> t, type |-> Gen!TypeOf[s]]
                       /\ Gen!ToSet(as(s)) = {} => Gen!ToSet(by[s]) = {}
  <2>1. TAKE s \in Names
  <2> DEFINE x == as(s)
             seq == by[s]
             type == Gen!TypeOf[s]
  <2>2. Gen!Tests(seq) /\ x = [i \in DOMAIN seq |-> [test |-> seq[i], type |-> type]]
    OBVIOUS
  <2>. HIDE DEF x, seq, type
  <2>3. /\ x \in Seq(Gen!ToSet(x))
        /\ \A y \in Gen!ToSet(x) : \E t \in Gen!ToSet(seq) : y = [test |-> t, type |-> type]
        /\ Gen!ToSet(x) = {} => Gen!ToSet(seq) = {}
    BY <2>2, TypedIs
  <2>. QED
    BY <2>3 DEF x, seq, type
<1>2. Gen!InOrder(by) = a \o u \o b \o e \o n
  BY DEF Gen!InOrder
<1>. HIDE DEF as
<1>9. /\ a \in Seq(Gen!ToSet(a)) /\ u \in Seq(Gen!ToSet(u)) /\ b \in Seq(Gen!ToSet(b))
      /\ e \in Seq(Gen!ToSet(e)) /\ n \in Seq(Gen!ToSet(n))
  BY <1>0, <1>1
<1>. HIDE DEF a, u, b, e, n
<1>3. a \o u \in Seq(Gen!ToSet(a \o u)) /\ Gen!ToSet(a \o u) = Gen!ToSet(a) \union Gen!ToSet(u)
  BY <1>9, BothLists
<1>4. a \o u \o b \in Seq(Gen!ToSet(a \o u \o b)) /\ Gen!ToSet(a \o u \o b) = Gen!ToSet(a) \union Gen!ToSet(u) \union Gen!ToSet(b)
  BY <1>9, <1>3, BothLists
<1>5. /\ a \o u \o b \o e \in Seq(Gen!ToSet(a \o u \o b \o e))
      /\ Gen!ToSet(a \o u \o b \o e) = Gen!ToSet(a) \union Gen!ToSet(u) \union Gen!ToSet(b) \union Gen!ToSet(e)
  BY <1>9, <1>4, BothLists
<1>6. /\ a \o u \o b \o e \o n \in Seq(Gen!ToSet(a \o u \o b \o e \o n))
      /\ Gen!ToSet(a \o u \o b \o e \o n) =
            Gen!ToSet(a) \union Gen!ToSet(u) \union Gen!ToSet(b) \union Gen!ToSet(e) \union Gen!ToSet(n)
  BY <1>9, <1>5, BothLists
<1>7. \A x \in Gen!ToSet(Gen!InOrder(by)) : \E s \in Names : x \in Gen!ToSet(as(s))
  <2>1. TAKE x \in Gen!ToSet(Gen!InOrder(by))
  <2>2. x \in Gen!ToSet(a) \/ x \in Gen!ToSet(u) \/ x \in Gen!ToSet(b) \/ x \in Gen!ToSet(e) \/ x \in Gen!ToSet(n)
    BY <1>2, <1>6
  <2>3. /\ a = as("api_tests") /\ u = as("ui_validations") /\ b = as("business_tests")
        /\ e = as("e2e_tests") /\ n = as("edge_cases")
    BY DEF a, u, b, e, n
  <2>. QED
    BY <1>0, <2>2, <2>3
<1>8. ASSUME Gen!InOrder(by) = <<>> PROVE by["api_tests"] = <<>>
  <2>1. Gen!ToSet(a) = {}
    BY <1>2, <1>6, <1>8, NoTestsThere
  <2>2. Gen!ToSet(by["api_tests"]) = {}
    BY <1>0, <1>1, <2>1 DEF a
  <2>. QED
    BY <1>0, <2>2, SomethingIn, TestsThere
<1>. QED
  BY <1>1, <1>2, <1>6, <1>7, <1>8

\* What is left of the suites by the guards.
LEMMA GuardedAre ==
  ASSUME GenInv, pc = "guard", NEW kept,
         kept = Gen!_budget_suites([s \in Gen!ToSet(Gen!Suites) |-> Gen!Where(suites[s], LAMBDA t : Gen!Survives(t, s))])
  PROVE  /\ \A s \in Names : Gen!Tests(kept[s]) /\ \A t \in Gen!ToSet(kept[s]) : t \in Gen!ToSet(suites[s]) /\ Gen!Survives(t, s)
         /\ focus["api_tests"] # 0 /\ kept["api_tests"] = <<>> =>
               \A t \in Gen!ToSet(suites["api_tests"]) : ~Gen!Survives(t, "api_tests")
<1> DEFINE by == [s \in Gen!ToSet(Gen!Suites) |-> Gen!Where(suites[s], LAMBDA t : Gen!Survives(t, s))]
           S(s) == {i \in DOMAIN suites[s] : Gen!Survives(suites[s][i], s)}
<1>1. ASSUME NEW s \in Names PROVE Gen!Tests(by[s]) /\ Gen!ToSet(by[s]) = {t \in Gen!ToSet(suites[s]) : Gen!Survives(t, s)}
  <2>1. by[s] = Gen!ItemsAt(suites[s], S(s))
    BY SuitesAre DEF Gen!Where
  <2>2. Gen!Tests(suites[s])
    BY DEF GenInv, Shaped
  <2>3. S(s) \in SUBSET DOMAIN suites[s]
    OBVIOUS
  <2>4. {suites[s][i] : i \in S(s)} = {t \in Gen!ToSet(suites[s]) : Gen!Survives(t, s)}
    BY DEF Gen!ToSet
  <2>. HIDE DEF S, by
  <2>. QED
    BY <2>1, <2>2, <2>3, <2>4, SomeTests
<1>. HIDE DEF by
<1>2. /\ \A s \in Names : Gen!Tests(kept[s]) /\ Gen!ToSet(kept[s]) \subseteq Gen!ToSet(by[s])
      /\ focus["api_tests"] # 0 /\ by["api_tests"] # <<>> => kept["api_tests"] # <<>>
  <2>1. focus \in Focuses /\ kept = Gen!_budget_suites(by)
    BY DEF GenInv, Shaped, by
  <2>. QED
    BY <1>1, <2>1, BudgetIs
<1>3. ASSUME focus["api_tests"] # 0, kept["api_tests"] = <<>>, NEW t \in Gen!ToSet(suites["api_tests"])
      PROVE  ~Gen!Survives(t, "api_tests")
  <2>1. "api_tests" \in Names
    BY DEF Names
  <2>2. by["api_tests"] = <<>>
    BY <1>2, <1>3
  <2>3. Gen!ToSet(by["api_tests"]) = {}
    BY <2>2, NoTestsThere
  <2>. QED
    BY <1>1, <1>3, <2>1, <2>3
<1>4. \A s \in Names : \A t \in Gen!ToSet(kept[s]) : t \in Gen!ToSet(suites[s]) /\ Gen!Survives(t, s)
  BY <1>1, <1>2
<1>. QED
  BY <1>2, <1>3, <1>4

-----------------------------------------------------------------------------
(* Guarding and storing                                                    *)

\* What has gone through the guards has done so as long as the evidence stays.
LEMMA GuardedStays ==
  ASSUME doc' = doc, surface' = surface, components' = components, errors' = errors
  PROVE  Keys' = Keys /\ \A x : Guarded(x)' <=> Guarded(x)
<1>1. Keys' = Keys
  BY DEF Keys
<1>2. ASSUME NEW t, NEW s PROVE Gen!Survives(t, s)' <=> Gen!Survives(t, s)
  BY DEF Gen!Survives, Gen!Backed, Gen!Original, Gen!Sourced, Gen!Verdict
<1>3. ASSUME NEW x PROVE Guarded(x)' <=> Guarded(x)
  BY <1>1, <1>2 DEF Guarded
<1>. QED
  BY <1>1, <1>3

\* What the guards and the budget leave of the suites, in order.
LEMMA GuardStep ==
  ASSUME GenInv, Gen!Guard
  PROVE  \E kept :
           /\ kept = Gen!_budget_suites([s \in Gen!ToSet(Gen!Suites) |-> Gen!Where(suites[s], LAMBDA t : Gen!Survives(t, s))])
           /\ \/ Gen!InOrder(kept) = <<>> /\ Gen!End("empty")
              \/ /\ pc' = "persist" /\ todo' = Gen!InOrder(kept)
                 /\ UNCHANGED <<doc, focus, surface, components, suites, waiting, errors, library, answered, outcome>>
BY DEF Gen!Guard, Gen!request, Gen!evidence, Gen!stored

\* What is to be stored has gone through the guards.
LEMMA GuardKeeps ==
  ASSUME GenInv, Gen!Guard
  PROVE  GenInv'
<1>1. PICK kept :
           /\ kept = Gen!_budget_suites([s \in Gen!ToSet(Gen!Suites) |-> Gen!Where(suites[s], LAMBDA t : Gen!Survives(t, s))])
           /\ \/ Gen!InOrder(kept) = <<>> /\ Gen!End("empty")
              \/ /\ pc' = "persist" /\ todo' = Gen!InOrder(kept)
                 /\ UNCHANGED <<doc, focus, surface, components, suites, waiting, errors, library, answered, outcome>>
  BY GuardStep
<1>2. CASE Gen!End("empty")
  BY <1>2, EndKeeps
<1>3. CASE /\ pc' = "persist" /\ todo' = Gen!InOrder(kept)
           /\ UNCHANGED <<doc, focus, surface, components, suites, waiting, errors, library, answered, outcome>>
  <2>0. pc = "guard"
    BY DEF Gen!Guard
  <2>1. \A s \in Names : Gen!Tests(kept[s]) /\ \A t \in Gen!ToSet(kept[s]) : t \in Gen!ToSet(suites[s]) /\ Gen!Survives(t, s)
    BY <1>1, <2>0, GuardedAre
  <2>2. /\ todo' \in Seq(Gen!ToSet(todo'))
        /\ \A x \in Gen!ToSet(todo') : \E s \in Names : \E t \in Gen!ToSet(kept[s]) : x = [test |-> t, type |-> Gen!TypeOf[s]]
    BY <1>3, <2>1, OrderIs
  <2>3. Gen!ToSet(todo)' = Gen!ToSet(todo')
    BY DEF Gen!ToSet
  <2>4. \A x \in Gen!ToSet(todo') : Guarded(x)
    <3>0. TAKE x \in Gen!ToSet(todo')
    <3>1. PICK s \in Names : \E t \in Gen!ToSet(kept[s]) : x = [test |-> t, type |-> Gen!TypeOf[s]]
      BY <2>2
    <3>2. PICK t \in Gen!ToSet(kept[s]) : x = [test |-> t, type |-> Gen!TypeOf[s]]
      BY <3>1
    <3>3. t \in Gen!ToSet(suites[s]) /\ Gen!Survives(t, s) /\ x.test = t /\ x.type = Gen!TypeOf[s]
      BY <2>1, <3>2
    <3>4. Gen!IsTest(t)
      BY <3>3, TestsThere DEF GenInv, Shaped
    <3>5. s = "api_tests" /\ "repair" \notin errors => Gen!ApiKey(t) \in Keys
      BY <2>0, <3>3 DEF GenInv, Tested
    <3>. QED
      BY <3>3, <3>4, <3>5 DEF Guarded
  <2>5. Planned'
    <3>1. \A x : Guarded(x)' <=> Guarded(x)
      BY <1>3, GuardedStays
    <3>. QED
      BY <2>3, <2>4, <3>1 DEF Planned
  <2>6. Grown' /\ library' \in Seq(Gen!ToSet(library)')
    BY <1>3, LibraryKept DEF GenInv, Shaped
  <2>7. Shaped'
    BY <1>3, <2>2, <2>3, <2>6 DEF GenInv, Shaped
  <2>8. Tested' /\ Answered'
    BY <1>3, <2>0 DEF GenInv, Tested, Answered
  <2>. QED
    BY <2>5, <2>6, <2>7, <2>8 DEF GenInv
<1>. QED
  BY <1>1, <1>2, <1>3

\* Storing a test: what answers it is of its operation.
LEMMA PersistKeeps ==
  ASSUME GenInv, Gen!Persist
  PROVE  GenInv'
<1> DEFINE x == Head(todo)
           type == x.type
           t == Gen!Filed(x.test, Gen!SuiteOf(type))
           home == Gen!Home(t, type)
<1>1. /\ pc = "persist" /\ pc' = pc /\ todo # <<>> /\ todo' = Tail(todo)
      /\ Gen!_persist_case(t, type) /\ answered' = answered \union {[test |-> t, case |-> home]}
      /\ doc' = doc /\ focus' = focus /\ surface' = surface /\ components' = components /\ suites' = suites
      /\ waiting' = waiting /\ errors' = errors
  BY DEF Gen!Persist, Gen!request, Gen!evidence
<1>2. /\ x \in Gen!ToSet(todo) /\ todo' \in Seq(Gen!ToSet(todo)') /\ Gen!ToSet(todo)' \subseteq Gen!ToSet(todo)
  <2>1. todo \in Seq(Gen!ToSet(todo))
    BY DEF GenInv, Shaped
  <2>2. x \in Gen!ToSet(todo) /\ Tail(todo) \in Seq(Gen!ToSet(todo))
    BY <1>1, <2>1, HeadTailProperties
  <2>3. /\ Tail(todo) \in Seq(Gen!ToSet(Tail(todo))) /\ Gen!ToSet(Tail(todo)) \subseteq Gen!ToSet(todo)
    BY <2>2, InList
  <2>4. Gen!ToSet(todo)' = Gen!ToSet(Tail(todo))
    BY <1>1 DEF Gen!ToSet
  <2>. QED
    BY <1>1, <2>2, <2>3, <2>4
<1>3. PICK s \in Names : /\ type = Gen!TypeOf[s] /\ Gen!IsTest(x.test) /\ Gen!Survives(x.test, s)
                         /\ s = "api_tests" /\ "repair" \notin errors => Gen!ApiKey(x.test) \in Keys
  BY <1>1, <1>2 DEF GenInv, Planned, Guarded
<1>4. Gen!SuiteOf(type) = s /\ (s = "api_tests" => type = "api")
  BY <1>3, SuitesAre
<1>. HIDE DEF x, type
<1>5. /\ Gen!IsTest(t) /\ t.category = s /\ Gen!ApiKey(t) = Gen!ApiKey(x.test)
      /\ Gen!Backed(t) /\ Gen!Original(t) /\ (s \in {"e2e_tests", "edge_cases"} => Gen!Sourced(t))
      /\ t = Gen!Filed(t, Gen!SuiteOf(type))
  BY <1>3, <1>4, FiledIs, FiledOnce DEF Gen!Survives
<1>. HIDE DEF t
<1>6. /\ library' \in Seq(Gen!ToSet(library)') /\ Grown'
      /\ DOMAIN library \subseteq DOMAIN library' /\ \A c \in DOMAIN library : library'[c] = library[c]
      /\ home \in DOMAIN library'
      /\ t.category = "api_tests" /\ type = "api" => Gen!ApiKey(library'[home].test) = Gen!ApiKey(t)
  <2>1. library \in Seq(Gen!ToSet(library)) /\ Grown
    BY DEF GenInv, Shaped
  <2>. QED
    BY <1>1, <1>5, <2>1, PersistIs
<1>. HIDE DEF home
<1>7. Shaped'
  BY <1>1, <1>2, <1>6 DEF GenInv, Shaped
<1>8. Tested'
  BY <1>1 DEF Tested
<1>9. Keys' = Keys /\ \A y : Guarded(y)' <=> Guarded(y)
  BY <1>1, GuardedStays
<1>10. Planned'
  BY <1>1, <1>2, <1>9 DEF GenInv, Planned
<1>11. ASSUME NEW a \in answered'
       PROVE  /\ a.case \in DOMAIN library'
              /\ a.test.category \in {"e2e_tests", "edge_cases"} => Gen!Sourced(a.test)
              /\ a.test.category = "api_tests" => Gen!ApiKey(library'[a.case].test) = Gen!ApiKey(a.test)
              /\ a.test.category = "api_tests" /\ "repair" \notin errors => Gen!ApiKey(a.test) \in Keys
  <2>1. CASE a \in answered
    <3>1. /\ a.case \in DOMAIN library
          /\ a.test.category \in {"e2e_tests", "edge_cases"} => Gen!Sourced(a.test)
          /\ a.test.category = "api_tests" => Gen!ApiKey(library[a.case].test) = Gen!ApiKey(a.test)
          /\ a.test.category = "api_tests" /\ "repair" \notin errors => Gen!ApiKey(a.test) \in Keys
      BY <2>1 DEF GenInv, Answered
    <3>2. a.case \in DOMAIN library' /\ library'[a.case] = library[a.case]
      BY <1>6, <3>1
    <3>. QED
      BY <3>1, <3>2
  <2>2. CASE a \notin answered
    <3>1. a.test = t /\ a.case = home
      BY <1>1, <2>2
    <3>2. t.category = "api_tests" => type = "api"
      BY <1>4, <1>5
    <3>. QED
      BY <1>3, <1>5, <1>6, <3>1, <3>2
  <2>. QED
    BY <2>1, <2>2
<1>12. Answered'
  <2>1. \A a : Gen!Sourced(a.test)' <=> Gen!Sourced(a.test)
    BY <1>1 DEF Gen!Sourced
  <2>. QED
    BY <1>1, <1>9, <1>11, <2>1 DEF Answered
<1>. QED
  BY <1>6, <1>7, <1>8, <1>10, <1>12 DEF GenInv

\* Every step of the generation.
LEMMA GenerationKeeps ==
  ASSUME GenInv, [Gen!Next]_(Gen!vars)
  PROVE  GenInv'
<1>1. CASE Gen!Start
  BY <1>1, StartKeeps
<1>2. CASE Gen!Extract
  BY <1>2, ExtractKeeps
<1>3. CASE Gen!Infer
  BY <1>3, InferKeeps
<1>4. CASE Gen!Fuse
  BY <1>4, FuseKeeps
<1>5. CASE Gen!Inherit
  BY <1>5, InheritKeeps
<1>6. CASE Gen!Dispatch
  BY <1>6, DispatchKeeps
<1>7. CASE \E job \in waiting : Gen!Collect(job)
  BY <1>7, CollectKeeps
<1>8. CASE Gen!Gather
  BY <1>8, GatherKeeps
<1>9. CASE Gen!Layer2
  BY <1>9, Layer2Keeps
<1>10. CASE Gen!Repair
  BY <1>10, RepairKeeps
<1>11. CASE Gen!Guard
  BY <1>11, GuardKeeps
<1>12. CASE Gen!Persist
  BY <1>12, PersistKeeps
<1>13. CASE Gen!EmbedFails \/ Gen!Done
  BY <1>13, EndKeeps DEF Gen!EmbedFails, Gen!Done
<1>14. CASE UNCHANGED Gen!vars
  <2>1. /\ doc' = doc /\ focus' = focus /\ pc' = pc /\ surface' = surface /\ components' = components /\ suites' = suites
        /\ waiting' = waiting /\ todo' = todo /\ errors' = errors /\ library' = library /\ answered' = answered
    BY <1>14 DEF Gen!vars
  <2>2. Grown' /\ library' \in Seq(Gen!ToSet(library)') /\ todo' \in Seq(Gen!ToSet(todo)') /\ Gen!ToSet(todo)' = Gen!ToSet(todo)
    BY <2>1, LibraryKept, TodoKept DEF GenInv, Shaped
  <2>3. Keys' = Keys /\ \A x : Guarded(x)' <=> Guarded(x)
    BY <2>1, GuardedStays
  <2>4. Shaped'
    BY <2>1, <2>2 DEF GenInv, Shaped
  <2>5. Tested'
    BY <2>1, <2>3 DEF GenInv, Tested
  <2>6. Planned'
    BY <2>1, <2>2, <2>3 DEF GenInv, Planned
  <2>7. Answered'
    BY <2>1, <2>3 DEF GenInv, Answered, Gen!Sourced
  <2>. QED
    BY <2>2, <2>4, <2>5, <2>6, <2>7 DEF GenInv
<1>. QED
  BY <1>1, <1>2, <1>3, <1>4, <1>5, <1>6, <1>7, <1>8, <1>9, <1>10, <1>11, <1>12, <1>13, <1>14 DEF Gen!Next

\* It holds at the start.
LEMMA GenerationStarts ==
  ASSUME Gen!Init
  PROVE  GenInv
<1>1. /\ doc \in Docs /\ focus \in Focuses /\ pc = "idle" /\ surface = <<>> /\ suites = Gen!NoTests
      /\ waiting = {} /\ todo = <<>> /\ library = Old /\ answered = {}
  BY DEF Gen!Init
<1>2. Old \in Seq(Gen!ToSet(Old)) /\ \A c \in DOMAIN Old : Gen!IsTest(Old[c].test)
  BY GeneratorAssumption DEF Gen!GenerationAssumption
<1>3. todo \in Seq(Gen!ToSet(todo)) /\ surface \in Seq(DOMAIN Baseline)
  BY <1>1, EmptySeq
<1>4. Shaped
  BY <1>1, <1>2, <1>3, NoneThere DEF Shaped
<1>5. Len(Old) \in Nat
  BY <1>2, LenProperties
<1>6. Grown
  BY <1>1, <1>2, <1>5 DEF Grown
<1>7. Tested /\ Planned /\ Answered
  BY <1>1 DEF Tested, Planned, Answered
<1>. QED
  BY <1>4, <1>6, <1>7 DEF GenInv

-----------------------------------------------------------------------------
(* What generation promises                                                *)

(* The invariant of generation: from whatever the models answer, the       *)
(* suites are tests, the API suite is of the operations that the documents *)
(* name, and what is to be stored has gone through the guards.             *)
THEOREM GenerationInvariant == Gen!Spec => []GenInv
<1>1. Gen!Init => GenInv
  BY GenerationStarts
<1>2. GenInv /\ [Gen!Next]_(Gen!vars) => GenInv'
  BY GenerationKeeps
<1>. QED
  BY <1>1, <1>2, PTL DEF Gen!Spec

(* Whatever way a test takes into the library, it asserts no number that   *)
(* the documents do not back and copies no example, and a journey or an    *)
(* edge case has a source (the guards of testgen/service.py before it      *)
(* stores).                                                                *)
THEOREM StoredSupported == Gen!Spec => []PersistedSupported
<1>1. GenInv => PersistedSupported
  BY DEF GenInv, Grown, Answered, PersistedSupported, Gen!PersistedSupported
<1>. QED
  BY <1>1, GenerationInvariant, PTL

(* API tests are stored for discovered operations only, unless the run     *)
(* reports that its repair failed (_filter_api_tests after each step that  *)
(* may add any).                                                           *)
THEOREM ApiTestsOfOperations == Gen!Spec => []ApiTestsDiscovered
<1>1. GenInv => ApiTestsDiscovered
  <2>1. SUFFICES ASSUME GenInv, "repair" \notin errors, NEW a \in answered, a.test.category = "api_tests"
                 PROVE  Gen!Discovered(a.test)
    BY DEF ApiTestsDiscovered, Gen!ApiTestsDiscovered
  <2>2. Gen!ApiKey(a.test) \in Keys
    BY <2>1 DEF GenInv, Answered
  <2>. QED
    BY <2>1, <2>2, Operated DEF GenInv, Shaped
<1>. QED
  BY <1>1, GenerationInvariant, PTL

(* The case that answers an API test, found or reused, is of the same      *)
(* operation, and no run stores a test twice (find_case_by_identity and    *)
(* _semantic_reuse_compatible).                                            *)
THEOREM ReuseSound == Gen!Spec => []ReuseKeepsOperation
<1>1. GenInv => ReuseKeepsOperation
  BY DEF GenInv, Grown, Answered, ReuseKeepsOperation, Gen!ReuseKeepsOperation
<1>. QED
  BY <1>1, GenerationInvariant, PTL

(* A run is empty only where it had to be: each operation has tests, and   *)
(* none of them is supported (_ensure_api_endpoint_coverage, and the       *)
(* budget that never cuts a suite to nothing).                             *)
THEOREM EmptyEarned == Gen!Spec => EmptyIsEarned
<1> DEFINE Earned == outcome' = "empty" /\ outcome # "empty" /\ focus["api_tests"] # 0 /\ "repair" \notin errors =>
              /\ Gen!Operations(suites["api_tests"]) = {Gen!ApiKey(Gen!OfOperation(op)) : op \in Gen!ToSet(surface)}
              /\ \A t \in Gen!ToSet(suites["api_tests"]) : ~Gen!Survives(t, "api_tests")
<1>1. ASSUME GenInv, Gen!Next, outcome' = "empty", outcome # "empty", focus["api_tests"] # 0, "repair" \notin errors
      PROVE  /\ Gen!Operations(suites["api_tests"]) = {Gen!ApiKey(Gen!OfOperation(op)) : op \in Gen!ToSet(surface)}
             /\ \A t \in Gen!ToSet(suites["api_tests"]) : ~Gen!Survives(t, "api_tests")
  <2>1. None # "empty"
    BY GeneratorAssumption DEF Gen!GenerationAssumption
  <2>2. \A result : Gen!End(result) => outcome' = result
    BY DEF Gen!End
  <2>3. ~Gen!Start /\ ~Gen!Extract /\ ~Gen!Infer /\ ~Gen!EmbedFails /\ ~Gen!Done
    BY <1>1, <2>1, <2>2 DEF Gen!Start, Gen!Extract, Gen!Infer, Gen!EmbedFails, Gen!Done
  <2>4. ~Gen!Fuse /\ ~Gen!Inherit /\ ~Gen!Dispatch /\ ~Gen!Gather /\ ~Gen!Layer2 /\ ~Gen!Repair /\ ~Gen!Persist
    BY <1>1 DEF Gen!Fuse, Gen!Inherit, Gen!Dispatch, Gen!Gather, Gen!Layer2, Gen!Repair, Gen!Persist
  <2>5. \A job \in waiting : ~Gen!Collect(job)
    BY <1>1 DEF Gen!Collect
  <2>6. Gen!Guard
    BY <1>1, <2>3, <2>4, <2>5 DEF Gen!Next
  <2>7. PICK kept :
           /\ kept = Gen!_budget_suites([s \in Gen!ToSet(Gen!Suites) |-> Gen!Where(suites[s], LAMBDA t : Gen!Survives(t, s))])
           /\ \/ Gen!InOrder(kept) = <<>> /\ Gen!End("empty")
              \/ /\ pc' = "persist" /\ todo' = Gen!InOrder(kept)
                 /\ UNCHANGED <<doc, focus, surface, components, suites, waiting, errors, library, answered, outcome>>
    BY <1>1, <2>6, GuardStep
  <2>8. Gen!InOrder(kept) = <<>>
    BY <1>1, <2>7
  <2>9. pc = "guard"
    BY <2>6 DEF Gen!Guard
  <2>10. /\ \A s \in Names : Gen!Tests(kept[s])
         /\ focus["api_tests"] # 0 /\ kept["api_tests"] = <<>> =>
               \A t \in Gen!ToSet(suites["api_tests"]) : ~Gen!Survives(t, "api_tests")
    BY <1>1, <2>7, <2>9, GuardedAre
  <2>11. kept["api_tests"] = <<>>
    BY <2>8, <2>10, OrderIs
  <2>12. {Gen!ApiKey(t) : t \in Gen!ToSet(suites["api_tests"])} = Keys
    BY <1>1, <2>9 DEF GenInv, Tested
  <2>. QED
    BY <1>1, <2>10, <2>11, <2>12 DEF Keys, Gen!Operations
<1>2. GenInv /\ [Gen!Next]_(Gen!vars) => [Earned]_(Gen!vars)
  BY <1>1
<1>3. EmptyIsEarned <=> [][Earned]_(Gen!vars)
  BY DEF EmptyIsEarned, Gen!EmptyIsEarned
<1>. QED
  BY <1>2, <1>3, GenerationInvariant, PTL DEF Gen!Spec

-----------------------------------------------------------------------------
(* Reading                                                                 *)

\* A quotient and its remainder.
LEMMA QuotientIs ==
  ASSUME NEW n \in Nat, NEW d \in Nat \ {0}
  PROVE  n \div d \in Nat /\ d * (n \div d) <= n /\ n < d * (n \div d) + d
OBVIOUS

LEMMA TimesMonotone ==
  ASSUME NEW a \in Int, NEW b \in Int, NEW d \in Nat, a <= b
  PROVE  d * a <= d * b
OBVIOUS

\* The lower and the higher of two numbers.
LEMMA LowerIs == ASSUME NEW a \in Int, NEW b \in Int PROVE Gen!Min({a, b}) = IF a <= b THEN a ELSE b
BY DEF Gen!Min
LEMMA HigherIs == ASSUME NEW a \in Int, NEW b \in Int PROVE Gen!Max({a, b}) = IF a >= b THEN a ELSE b
BY DEF Gen!Max

\* What chunk k of the numbers up to n has, if they do not fit into one.
LEMMA ChunkIs ==
  ASSUME NEW n \in Nat, NEW max \in Nat \ {0}, NEW overlap \in 0 .. (max - 1), n > max,
         NEW k \in 1 .. ((n + (max - overlap) - 1) \div (max - overlap)), (k - 1) * (max - overlap) + 1 <= n
  PROVE  /\ k \in DOMAIN Gen!chunk([i \in 1 .. n |-> i], max, overlap)
         /\ \A y \in 1 .. n : (k - 1) * (max - overlap) + 1 <= y /\ y <= (k - 1) * (max - overlap) + max
                => y \in Gen!ToSet(Gen!chunk([i \in 1 .. n |-> i], max, overlap)[k])
<1> DEFINE text == [i \in 1 .. n |-> i]
           pace == max - overlap
           base == (k - 1) * pace
           rest == SubSeq(text, base + 1, n)
           m == Gen!Min({max, Len(rest)})
           N == (n + pace - 1) \div pace
<1>1. text \in Seq(Nat) /\ Len(text) = n /\ \A i \in 1 .. n : text[i] = i
  BY LenProperties, SeqDef
<1>2. base \in Nat /\ pace \in Nat
  OBVIOUS
<1>3. Gen!chunk(text, max, overlap) = [c \in 1 .. N |-> Gen!First(SubSeq(text, (c - 1) * pace + 1, n), max)]
  <2>. HIDE DEF text, N
  <2>. QED
    BY <1>1 DEF Gen!chunk, N
<1>4. k \in 1 .. N
  OBVIOUS
<1>. HIDE DEF N, text
<1>5. k \in DOMAIN Gen!chunk(text, max, overlap) /\ Gen!chunk(text, max, overlap)[k] = Gen!First(rest, max)
  <2>. HIDE DEF pace, rest
  <2>. QED
    BY <1>3, <1>4 DEF rest, base
<1>. HIDE DEF base, pace
<1>6. base + 1 <= n /\ base + 1 \in Int /\ n \in Int
  BY <1>2 DEF base, pace
<1>7. /\ rest \in Seq(Nat) /\ Len(rest) = n - base
      /\ \A i \in 1 .. n - base : rest[i] = base + i
  <2>1. \A i \in (base + 1) .. n : text[i] \in Nat
    BY <1>1, <1>2
  <2>2. /\ rest \in Seq(Nat) /\ Len(rest) = IF base + 1 <= n THEN n - (base + 1) + 1 ELSE 0
        /\ \A i \in 1 .. n - (base + 1) + 1 : rest[i] = text[base + 1 + i - 1]
    BY <1>6, <2>1, SubSeqProperties
  <2>3. n - (base + 1) + 1 = n - base /\ \A i \in 1 .. n - base : base + 1 + i - 1 = base + i /\ base + i \in 1 .. n
    BY <1>2, <1>6
  <2>. QED
    BY <1>1, <1>6, <2>2, <2>3
<1>. HIDE DEF rest
<1>8. m \in Nat /\ m <= Len(rest) /\ (m = max \/ m = Len(rest))
  <2>1. Len(rest) \in Nat
    BY <1>2, <1>6, <1>7
  <2>. QED
    BY <2>1, LowerIs
<1>. HIDE DEF m
<1>9. /\ Gen!First(rest, max) \in Seq(Nat) /\ Len(Gen!First(rest, max)) = m
      /\ \A i \in 1 .. m : Gen!First(rest, max)[i] = rest[i]
  <2>1. \A i \in 1 .. m : rest[i] \in Nat
    BY <1>2, <1>7, <1>8
  <2>2. /\ SubSeq(rest, 1, m) \in Seq(Nat) /\ Len(SubSeq(rest, 1, m)) = IF 1 <= m THEN m - 1 + 1 ELSE 0
        /\ \A i \in 1 .. m - 1 + 1 : SubSeq(rest, 1, m)[i] = rest[1 + i - 1]
    BY <1>8, <2>1, SubSeqProperties
  <2>3. Gen!First(rest, max) = SubSeq(rest, 1, m)
    BY DEF Gen!First, m
  <2>. QED
    BY <1>8, <2>2, <2>3
<1>10. ASSUME NEW y \in 1 .. n, base + 1 <= y, y <= base + max
       PROVE  y \in Gen!ToSet(Gen!First(rest, max))
  <2>1. y - base \in 1 .. m
    BY <1>2, <1>7, <1>8, <1>10
  <2>4. y - base \in 1 .. n - base /\ base + (y - base) = y
    BY <1>2, <1>7, <1>8, <2>1
  <2>5. rest[y - base] = base + (y - base)
    BY <1>7, <2>4
  <2>2. Gen!First(rest, max)[y - base] = y
    BY <1>9, <2>1, <2>4, <2>5
  <2>3. y - base \in DOMAIN Gen!First(rest, max)
    BY <1>9, <2>1, LenProperties
  <2>. QED
    BY <2>2, <2>3 DEF Gen!ToSet
<1>. QED
  BY <1>5, <1>10 DEF text, base, pace

\* chunk: what fits into the overlap is whole in a chunk.
LEMMA ChunksAreWhole ==
  ASSUME NEW n \in Nat, NEW max \in Nat \ {0}, NEW overlap \in 0 .. (max - 1)
  PROVE  Gen!ChunksWhole(n, max, overlap)
<1> DEFINE text == [i \in 1 .. n |-> i]
           pace == max - overlap
<1>1. text \in Seq(Nat) /\ Len(text) = n /\ \A i \in 1 .. n : text[i] = i
  BY LenProperties, SeqDef
<1>. SUFFICES ASSUME NEW from \in 1 .. n, NEW to \in from .. Gen!Min({n, from + overlap - 1})
              PROVE  \E k \in DOMAIN Gen!chunk(text, max, overlap) : from .. to \subseteq Gen!ToSet(Gen!chunk(text, max, overlap)[k])
  BY DEF Gen!ChunksWhole
<1>2. to \in Int /\ to <= n /\ to <= from + overlap - 1
  <2>1. Gen!Min({n, from + overlap - 1}) \in Int /\ Gen!Min({n, from + overlap - 1}) <= n
        /\ Gen!Min({n, from + overlap - 1}) <= from + overlap - 1
    BY DEF Gen!Min
  <2>. QED
    BY <2>1
<1>. HIDE DEF text
<1>3. CASE n <= max
  <2>1. Gen!chunk(text, max, overlap) = <<text>>
    <3>1. text # <<>>
      BY <1>1, EmptySeq
    <3>. QED
      BY <1>1, <1>3, <3>1 DEF Gen!chunk
  <2>2. Gen!ToSet(text) = 1 .. n
    <3>1. DOMAIN text = 1 .. n
      BY <1>1, LenProperties
    <3>. QED
      BY <1>1, <3>1 DEF Gen!ToSet
  <2>3. from .. to \subseteq Gen!ToSet(text)
    BY <1>2, <2>2
  <2>4. 1 \in DOMAIN <<text>> /\ <<text>>[1] = text
    OBVIOUS
  <2>. QED
    BY <2>1, <2>3, <2>4
<1>4. CASE n > max
  <2> DEFINE q == (from - 1) \div pace
             Q == (n + pace - 1) \div pace
  <2>1. pace \in Nat \ {0} /\ from - 1 \in Nat /\ n + pace - 1 \in Nat
    OBVIOUS
  <2>2. q \in Nat /\ pace * q <= from - 1 /\ from - 1 < pace * q + pace
    <3>. HIDE DEF pace
    <3>. QED
      BY <2>1, QuotientIs
  <2>3. Q \in Nat /\ n + pace - 1 < pace * Q + pace
    <3>. HIDE DEF pace
    <3>. QED
      BY <2>1, QuotientIs
  <2>. HIDE DEF q, Q
  <2>4. q < Q
    <3>1. SUFFICES ASSUME Q <= q PROVE FALSE
      BY <2>2, <2>3
    <3>2. pace * Q <= pace * q
      <4>. HIDE DEF pace
      <4>. QED
        BY <2>1, <2>2, <2>3, <3>1, TimesMonotone
    <3>3. pace * Q \in Int /\ pace * q \in Int
      BY <2>1, <2>2, <2>3
    <3>. QED
      BY <2>1, <2>2, <2>3, <3>2, <3>3
  <2> DEFINE k == q + 1
  <2>5. k \in 1 .. Q /\ (k - 1) * pace = pace * q /\ pace * q \in Int
    BY <2>1, <2>2, <2>3, <2>4
  <2>6. k \in 1 .. ((n + (max - overlap) - 1) \div (max - overlap)) /\ (k - 1) * (max - overlap) + 1 <= n
    <3>1. (k - 1) * pace + 1 <= n
      BY <2>2, <2>5
    <3>. QED
      BY <2>5, <3>1 DEF Q
  <2>. HIDE DEF k
  <2>7. /\ k \in DOMAIN Gen!chunk(text, max, overlap)
        /\ \A y \in 1 .. n : (k - 1) * pace + 1 <= y /\ y <= (k - 1) * pace + max
               => y \in Gen!ToSet(Gen!chunk(text, max, overlap)[k])
    BY <1>4, <2>6, ChunkIs DEF text
  <2>8. ASSUME NEW y \in from .. to PROVE y \in Gen!ToSet(Gen!chunk(text, max, overlap)[k])
    <3>1. y \in 1 .. n
      BY <1>2
    <3>2. pace * q + 1 <= y /\ y <= pace * q + max
      BY <1>2, <2>1, <2>2, <2>5
    <3>. QED
      BY <2>5, <2>7, <3>1, <3>2
  <2>. QED
    BY <2>7, <2>8
<1>. QED
  BY <1>3, <1>4

\* _number_claim_supported: a number and the word at most two tokens after it,
\* which is not a number, support what is claimed of them.
LEMMA NearIs ==
  ASSUME NEW T, NEW tokens \in Seq(T), NEW x \in 1 .. Len(tokens), NEW y \in {x + 1, x + 2}, y <= Len(tokens),
         tokens[y] \notin Numbers
  PROVE  Gen!_number_claim_supported(tokens[x], tokens[y], tokens)
<1> DEFINE L == Len(tokens)
           low == Gen!Max({1, x - 2})
           high == Gen!Min({L, x + 2})
           before == SubSeq(tokens, low, x - 1)
           after == SubSeq(tokens, x + 1, high)
<1>1. L \in Nat /\ DOMAIN tokens = 1 .. L /\ \A i \in 1 .. L : tokens[i] \in T
  BY LenProperties, ElementOfSeq
<1>2. low \in Int /\ 1 <= low
  BY <1>1, HigherIs
<1>3. high \in Int /\ high <= L /\ y <= high
  BY <1>1, LowerIs
<1>. HIDE DEF low, high
<1>4. before \in Seq(T)
  <2>1. \A i \in low .. (x - 1) : tokens[i] \in T
    BY <1>1, <1>2
  <2>. QED
    BY <1>1, <1>2, <2>1, SubSeqProperties
<1>5. after \in Seq(T) /\ Len(after) = high - x /\ \A i \in 1 .. high - x : after[i] = tokens[x + i]
  <2>1. \A i \in (x + 1) .. high : tokens[i] \in T
    BY <1>1, <1>3
  <2>2. /\ after \in Seq(T) /\ Len(after) = IF x + 1 <= high THEN high - (x + 1) + 1 ELSE 0
        /\ \A i \in 1 .. high - (x + 1) + 1 : after[i] = tokens[x + 1 + i - 1]
    BY <1>1, <1>3, <2>1, SubSeqProperties
  <2>3. high - (x + 1) + 1 = high - x /\ x + 1 <= high /\ \A i \in Int : x + 1 + i - 1 = x + i
    BY <1>1, <1>3
  <2>. QED
    BY <2>2, <2>3
<1>. HIDE DEF before, after
<1>6. tokens[y] \in Gen!ToSet(after)
  <2>1. y - x \in 1 .. high - x /\ x + (y - x) = y
    BY <1>1, <1>3
  <2>2. y - x \in DOMAIN after /\ after[y - x] = tokens[y]
    BY <1>5, <2>1, LenProperties
  <2>. QED
    BY <2>2 DEF Gen!ToSet
<1>7. Gen!ToSet(before \o after) = Gen!ToSet(before) \union Gen!ToSet(after)
  <2>1. before \in Seq(Gen!ToSet(before)) /\ after \in Seq(Gen!ToSet(after))
    BY <1>4, <1>5, InList
  <2>. QED
    BY <2>1, BothLists
<1>8. Gen!Near(tokens, x) = before \o after
  BY DEF Gen!Near, before, after, low, high
<1>9. tokens[y] \in Gen!ToSet(Gen!Near(tokens, x)) \ Numbers
  BY <1>6, <1>7, <1>8
<1>. QED
  BY <1>1, <1>9 DEF Gen!_number_claim_supported

\* A passage that is quoted claims nothing that the text does not support.
LEMMA QuotesAreSupported ==
  ASSUME NEW T, NEW tokens \in Seq(T)
  PROVE  Gen!QuotesSupported(tokens)
<1>1. Len(tokens) \in Nat /\ DOMAIN tokens = 1 .. Len(tokens) /\ \A i \in 1 .. Len(tokens) : tokens[i] \in T
  BY LenProperties, ElementOfSeq
<1>. SUFFICES ASSUME NEW i \in 1 .. Len(tokens), NEW j \in i .. Len(tokens),
                     NEW c \in Gen!ClaimsOf(SubSeq(tokens, i, j))
              PROVE  Gen!_number_claim_supported(c[1], c[2], tokens)
  BY <1>1 DEF Gen!QuotesSupported, Gen!_unsupported_numeric_claims
<1> DEFINE quote == SubSeq(tokens, i, j)
<1>2. /\ quote \in Seq(T) /\ Len(quote) = j - i + 1
      /\ \A k \in 1 .. j - i + 1 : quote[k] = tokens[i + k - 1]
  <2>1. \A k \in i .. j : tokens[k] \in T
    BY <1>1
  <2>. QED
    BY <1>1, <2>1, SubSeqProperties
<1>. HIDE DEF quote
<1>3. DOMAIN quote = 1 .. j - i + 1
  BY <1>2, LenProperties
<1>4. PICK p \in (DOMAIN quote) \X (DOMAIN quote) :
         /\ c = <<quote[p[1]], quote[p[2]]>>
         /\ p[2] \in {p[1] + 1, p[1] + 2} /\ quote[p[2]] \notin Numbers
  BY DEF Gen!ClaimsOf, quote
<1> DEFINE a == p[1]
           b == p[2]
           x == i + a - 1
           y == i + b - 1
<1>8. a \in 1 .. j - i + 1 /\ b \in 1 .. j - i + 1 /\ b \in {a + 1, a + 2}
  BY <1>3, <1>4
<1>5. /\ x \in 1 .. Len(tokens) /\ y \in {x + 1, x + 2} /\ y <= Len(tokens)
      /\ quote[p[1]] = tokens[x] /\ quote[p[2]] = tokens[y]
  <2>1. quote[p[1]] = tokens[x] /\ quote[p[2]] = tokens[y]
    BY <1>2, <1>8
  <2>. HIDE DEF a, b
  <2>2. x \in 1 .. Len(tokens) /\ y \in {x + 1, x + 2} /\ y <= Len(tokens)
    BY <1>1, <1>8
  <2>. QED
    BY <2>1, <2>2
<1>6. Gen!_number_claim_supported(tokens[x], tokens[y], tokens)
  <2>. HIDE DEF x, y
  <2>. QED
    BY <1>4, <1>5, NearIs
<1>7. c[1] = tokens[x] /\ c[2] = tokens[y]
  <2>1. c[1] = quote[p[1]] /\ c[2] = quote[p[2]]
    BY <1>4
  <2>. QED
    BY <1>5, <2>1
<1>. QED
  BY <1>6, <1>7

\* The first items of a list are none only if it has none.
LEMMA FirstOfNone ==
  ASSUME NEW seq, seq \in Seq(Gen!ToSet(seq)), NEW n \in Nat \ {0}
  PROVE  /\ Gen!First(seq, n) \in Seq(Gen!ToSet(Gen!First(seq, n)))
         /\ Gen!First(seq, n) = <<>> <=> seq = <<>>
<1>3. Gen!First(seq, n) \in Seq(Gen!ToSet(Gen!First(seq, n)))
  BY n \in Nat, FirstIs
<1>1. CASE seq = <<>>
  <2>1. Len(seq) = 0
    BY <1>1, EmptySeq
  <2>2. Gen!Min({n, Len(seq)}) = 0
    BY <2>1, LowerIs
  <2>3. Gen!First(seq, n) = <<>>
    BY <2>2, SubSeqEmpty DEF Gen!First
  <2>. QED
    BY <1>1, <1>3, <2>3
<1>2. CASE seq # <<>>
  BY <1>2, <1>3, n \in Nat, n > 0, FirstIs
<1>. QED
  BY <1>1, <1>2

\* Of three lists in a row none has an item only if the row has none.
LEMMA ThreeOfNone ==
  ASSUME NEW a, NEW b, NEW c, a \in Seq(Gen!ToSet(a)), b \in Seq(Gen!ToSet(b)), c \in Seq(Gen!ToSet(c))
  PROVE  (a \o b) \o c = <<>> <=> a = <<>> /\ b = <<>> /\ c = <<>>
<1>1. ASSUME NEW x, NEW y, x \in Seq(Gen!ToSet(x)), y \in Seq(Gen!ToSet(y))
      PROVE  x \o y \in Seq(Gen!ToSet(x \o y)) /\ (x \o y = <<>> <=> x = <<>> /\ y = <<>>)
  <2> DEFINE T == Gen!ToSet(x) \union Gen!ToSet(y)
  <2>1. x \in Seq(T) /\ y \in Seq(T)
    <3>1. Gen!ToSet(x) \subseteq T /\ Gen!ToSet(y) \subseteq T
      OBVIOUS
    <3>. HIDE DEF T
    <3>. QED
      BY <1>1, <3>1, SeqMonotonic
  <2>. HIDE DEF T
  <2>2. x \o y \in Seq(T) /\ Len(x \o y) = Len(x) + Len(y)
    BY <2>1, ConcatProperties
  <2>3. \A s \in Seq(T) : Len(s) \in Nat /\ (s = <<>> <=> Len(s) = 0)
    BY EmptySeq, LenProperties
  <2>. QED
    BY <1>1, <2>1, <2>2, <2>3, BothLists
<1>2. a \o b \in Seq(Gen!ToSet(a \o b)) /\ (a \o b = <<>> <=> a = <<>> /\ b = <<>>)
  BY <1>1
<1>. QED
  BY <1>1, <1>2

\* The business context is three lists.
LEMMA BusinessIs ==
  ASSUME NEW T, NEW text \in Seq(T), PrdLimit \in Nat, MaxRules \in Nat
  PROVE  LET b == Gen!extract_business_context(Gen!First(text, PrdLimit)) IN
         /\ b.requirements \in Seq(Gen!ToSet(b.requirements))
         /\ b.acceptanceCriteria \in Seq(Gen!ToSet(b.acceptanceCriteria))
         /\ b.userStories \in Seq(Gen!ToSet(b.userStories))
<1> DEFINE prd == Gen!First(text, PrdLimit)
           at(S) == Gen!ItemsAt(prd, S)
           rules == at({i \in DOMAIN prd : prd[i].rule})
           ids == [i \in DOMAIN rules |-> rules[i].id]
<1>1. prd \in Seq(Gen!ToSet(prd))
  BY InList, FirstIs
<1>. HIDE DEF prd
<1>2. ASSUME NEW S \in SUBSET DOMAIN prd PROVE at(S) \in Seq(Gen!ToSet(at(S)))
  <2>1. at(S) \in Seq(Gen!ToSet(prd))
    BY <1>1, ItemsAre
  <2>. HIDE DEF at
  <2>. QED
    BY <2>1, InList
<1>3. /\ rules \in Seq(Gen!ToSet(rules))
      /\ at({i \in DOMAIN prd : prd[i].criterion}) \in Seq(Gen!ToSet(at({i \in DOMAIN prd : prd[i].criterion})))
      /\ at({i \in DOMAIN prd : prd[i].story}) \in Seq(Gen!ToSet(at({i \in DOMAIN prd : prd[i].story})))
  <2>1. /\ {i \in DOMAIN prd : prd[i].rule} \in SUBSET DOMAIN prd /\ {i \in DOMAIN prd : prd[i].criterion} \in SUBSET DOMAIN prd
        /\ {i \in DOMAIN prd : prd[i].story} \in SUBSET DOMAIN prd
    OBVIOUS
  <2>. HIDE DEF at
  <2>. QED
    BY <1>2, <2>1
<1>4. Gen!First(Gen!UniqueBy(rules, ids), MaxRules) \in Seq(Gen!ToSet(Gen!First(Gen!UniqueBy(rules, ids), MaxRules)))
  <2>. HIDE DEF rules, ids
  <2>. QED
    BY <1>3, UniquesAre, FirstIs
<1>5. /\ Gen!extract_business_context(prd).requirements = Gen!First(Gen!UniqueBy(rules, ids), MaxRules)
      /\ Gen!extract_business_context(prd).acceptanceCriteria = at({i \in DOMAIN prd : prd[i].criterion})
      /\ Gen!extract_business_context(prd).userStories = at({i \in DOMAIN prd : prd[i].story})
  BY DEF Gen!extract_business_context, Gen!extract_requirement_lines, Gen!Uniques, Gen!Where
<1>. QED
  BY <1>3, <1>4, <1>5 DEF prd

\* _build_business_retrieval_query: there is something to ask by exactly if there
\* is evidence.
LEMMA EvidenceIsAsked ==
  ASSUME NEW T, NEW d, d.text \in Seq(T), NEW known, PrdLimit \in Nat, MaxRules \in Nat
  PROVE  Gen!EvidenceAsked(d, known)
<1> DEFINE b == Gen!extract_business_context(Gen!First(d.text, PrdLimit))
<1>1. /\ b.requirements \in Seq(Gen!ToSet(b.requirements))
      /\ b.acceptanceCriteria \in Seq(Gen!ToSet(b.acceptanceCriteria))
      /\ b.userStories \in Seq(Gen!ToSet(b.userStories))
  BY BusinessIs
<1>2. Gen!build_unified_context(d).business = b
  BY DEF Gen!build_unified_context
<1>. HIDE DEF b
<1>3. Gen!_business_narrative_lines(d) = <<>> <=>
         b.requirements = <<>> /\ b.acceptanceCriteria = <<>> /\ b.userStories = <<>>
  BY <1>1, <1>2, ThreeOfNone DEF Gen!_business_narrative_lines
<1>4. Gen!_build_business_retrieval_query(d) = <<>> <=>
         b.requirements = <<>> /\ b.acceptanceCriteria = <<>> /\ b.userStories = <<>>
  <2> DEFINE r == Gen!First(b.requirements, 15)
             a == Gen!First(b.acceptanceCriteria, 10)
             u == Gen!First(b.userStories, 10)
  <2>3. r \in Seq(Gen!ToSet(r)) /\ (r = <<>> <=> b.requirements = <<>>)
    BY <1>1, 15 \in Nat \ {0}, FirstOfNone
  <2>4. a \in Seq(Gen!ToSet(a)) /\ (a = <<>> <=> b.acceptanceCriteria = <<>>)
    BY <1>1, 10 \in Nat \ {0}, FirstOfNone
  <2>1. u \in Seq(Gen!ToSet(u)) /\ (u = <<>> <=> b.userStories = <<>>)
    BY <1>1, 10 \in Nat \ {0}, FirstOfNone
  <2>2. Gen!_build_business_retrieval_query(d) = (r \o a) \o u
    BY <1>2 DEF Gen!_build_business_retrieval_query
  <2>. HIDE DEF r, a, u
  <2>. QED
    BY <2>1, <2>2, <2>3, <2>4, ThreeOfNone
<1>5. /\ Gen!_category_evidence_sufficiency(d, known, {}).business = (Gen!_business_narrative_lines(d) # <<>>)
      /\ Gen!_category_evidence_sufficiency(d, known, {}).api = (known # <<>>)
  BY DEF Gen!_category_evidence_sufficiency
<1>6. known # <<>> => Gen!_build_api_retrieval_query(d, known)
  BY DEF Gen!_build_api_retrieval_query
<1>. QED
  BY <1>3, <1>4, <1>5, <1>6 DEF Gen!EvidenceAsked

\* extract.py, testgen/service.py: of any text, in chunks of any size and overlap,
\* whatever fits into the overlap is found whole in a chunk; a passage quoted from
\* it, of any vocabulary, claims nothing that is held to be unsupported; and there
\* is a query for every suite that there is evidence for.
THEOREM EvidenceIsSound == ReadingSpec => []EvidenceSound
<1> DEFINE Read == passage \in Seq(Vocabulary) /\ document \in Seq(Lines)
<1>1. ReadingInit => Read
  BY EmptySeq DEF ReadingInit
<1>2. Read /\ [GrowPassage \/ GrowDocument]_readingVars => Read'
  <2>1. ASSUME Read, GrowPassage PROVE Read'
    BY <2>1, AppendProperties DEF GrowPassage
  <2>2. ASSUME Read, GrowDocument PROVE Read'
    BY <2>2, AppendProperties DEF GrowDocument
  <2>3. ASSUME Read, UNCHANGED readingVars PROVE Read'
    BY <2>3 DEF readingVars
  <2>. QED
    BY <2>1, <2>2, <2>3
<1>3. Read => EvidenceSound
  <2>1. SUFFICES ASSUME Read PROVE EvidenceSound
    OBVIOUS
  <2>2. Gen!QuotesSupported(passage)
    BY <2>1, QuotesAreSupported
  <2>3. ASSUME NEW max \in ChunkSizes, NEW overlap \in 0 .. (max - 1) PROVE Gen!ChunksWhole(Len(passage), max, overlap)
    <3>1. Len(passage) \in Nat /\ max \in Nat \ {0}
      BY <2>1, ReadingAssumption, LenProperties
    <3>. QED
      BY <3>1, ChunksAreWhole
  <2>4. ASSUME NEW own \in 0 .. Len(document), NEW known
        PROVE  Gen!EvidenceAsked([lines |-> document, text |-> SubSeq(document, 1, own), stored |-> <<>>, tokens |-> <<>>], known)
    <3>1. Len(document) \in Nat /\ \A i \in 1 .. own : document[i] \in Lines
      BY <2>1, LenProperties, ElementOfSeq
    <3>2. SubSeq(document, 1, own) \in Seq(Lines)
      BY <3>1, SubSeqProperties
    <3> DEFINE d == [lines |-> document, text |-> SubSeq(document, 1, own), stored |-> <<>>, tokens |-> <<>>]
    <3>3. d.text \in Seq(Lines)
      BY <3>2
    <3>. HIDE DEF d
    <3>4. Gen!EvidenceAsked(d, known)
      BY <3>3, ReadingAssumption, EvidenceIsAsked
    <3>. QED
      BY <3>4 DEF d
  <2>. QED
    BY <2>2, <2>3, <2>4 DEF EvidenceSound
<1>. QED
  BY <1>1, <1>2, <1>3, PTL DEF ReadingSpec
=============================================================================
