--------------------------- MODULE Imports_proofs ---------------------------
(***************************************************************************)
(* An import that ends as completed has placed every row it kept, and a    *)
(* row once matched stays so until a removal or a late writer: for any     *)
(* sheets, features and scores, and any number of uploads, reviews,        *)
(* rescans, removals and crashes.                                          *)
(***************************************************************************)
EXTENDS Outside, FiniteSetTheorems, SequenceTheorems, WellFoundedInduction, TLAPS

-----------------------------------------------------------------------------
(* Finite sets, their numbering and their greatest element                 *)

LEMMA MaxIs ==
  ASSUME NEW S \in SUBSET Nat, IsFiniteSet(S), S # {}
  PROVE  Max(S) \in S
<1>. DEFINE Above(x) == {y \in S : x < y}
            T == {Above(x) : x \in S}
<1>1. T \subseteq FiniteSubsetsOf(S) /\ T # {}
  <2>1. \A x \in S : Above(x) \subseteq S
    OBVIOUS
  <2>2. \A x \in S : IsFiniteSet(Above(x))
    BY <2>1, FS_Subset
  <2>. QED
    BY <2>1, <2>2 DEF FiniteSubsetsOf
<1>2. PICK A \in T : \A B \in T : <<B, A>> \notin StrictSubsetOrdering(S)
  <2>. HIDE DEF T
  <2>1. IsWellFoundedOn(StrictSubsetOrdering(S), FiniteSubsetsOf(S))
    BY FS_StrictSubsetOrderingWellFounded
  <2>. QED
    BY <1>1, <2>1, WFMin, Zenon
<1>3. PICK x \in S : A = Above(x)
  OBVIOUS
<1>4. ASSUME NEW y \in S
      PROVE  x >= y
  <2>0. SUFFICES ASSUME x < y
                 PROVE  FALSE
    OBVIOUS
  <2>1. Above(y) \subseteq Above(x) /\ y \in Above(x) /\ y \notin Above(y)
    <3>1. x \in Nat /\ y \in Nat /\ \A z \in S : z \in Nat
      OBVIOUS
    <3>2. \A z \in S : y < z => x < z
      BY <2>0, <3>1
    <3>3. ~(y < y)
      BY <3>1
    <3>. QED
      BY <2>0, <3>2, <3>3
  <2>2. <<Above(y), Above(x)>> \in StrictSubsetOrdering(S)
    BY <2>1 DEF StrictSubsetOrdering
  <2>. QED
    BY <1>2, <1>3, <2>2
<1>. QED
  BY <1>4 DEF Max

LEMMA Numbering ==
  ASSUME NEW S, IsFiniteSet(S)
  PROVE  Cardinality(S) \in Nat /\ SetToSeq(S) \in [1 .. Cardinality(S) -> S]
<1>1. Cardinality(S) \in Nat /\ ExistsBijection(1 .. Cardinality(S), S)
  BY FS_CardinalityType
<1>2. PICK f \in Bijection(1 .. Cardinality(S), S) : TRUE
  BY <1>1 DEF ExistsBijection
<1>3. f \in [1 .. Cardinality(S) -> S] /\ IsInjective(f)
  BY <1>2 DEF Bijection, Injection, IsInjective
<1>. QED
  BY <1>1, <1>3, Zenon DEF SetToSeq

LEMMA SequenceIs ==
  ASSUME NEW S, NEW k \in Nat, NEW seq \in [1 .. k -> S]
  PROVE  seq \in Seq(S)
BY SeqDef

LEMMA Overwritten ==
  ASSUME NEW S, NEW seq \in Seq(S), NEW k \in DOMAIN seq, NEW e \in S
  PROVE  /\ [seq EXCEPT ![k] = e] \in Seq(S) /\ DOMAIN [seq EXCEPT ![k] = e] = DOMAIN seq
         /\ \A j \in DOMAIN seq : [seq EXCEPT ![k] = e][j] = IF j = k THEN e ELSE seq[j]
<1>1. Len(seq) \in Nat /\ DOMAIN seq = 1 .. Len(seq) /\ seq \in [1 .. Len(seq) -> S]
  OBVIOUS
<1>2. [seq EXCEPT ![k] = e] \in [1 .. Len(seq) -> S]
  BY <1>1
<1>. QED
  BY <1>1, <1>2, SequenceIs

-----------------------------------------------------------------------------
(* Types *)

Statuses == {"PENDING", "PROCESSING", "FAILED", "COMPLETED", "DELETED"}
Uploads == [feature : Features \union {None}, file : DOMAIN Content \union {None}, status : Statuses,
            kept : SUBSET Identities, signed : BOOLEAN, dup : Nat \union {None}]
Items == [row : Nat \union {None}, identity : Identities]
Points == {"start", "signed", "row", "store", "find", "write"}
Workers == [pc : Points, feature : Features, todo : Seq(Items), row : Nat \union {None},
            seen : {"matched_feature", "unmatched_pool", None}, case : Nat \union {None}]
Promotions == [row : Nat, feature : Features, case : Nat, at : Nat]

PoolOK ==
    /\ rows \in Seq(Entries \union {None}) /\ sources \subseteq (DOMAIN rows) \X (DOMAIN imports)
    /\ links \subseteq (DOMAIN rows) \X Features
    /\ promos \subseteq Promotions /\ IsFiniteSet(promos)
    /\ \A x \in promos : x.row \in DOMAIN rows /\ x.case \in DOMAIN imported
    /\ imported \in Seq(Identities \union {None})
    /\ assoc \subseteq Features \X (DOMAIN imported)
    /\ taken \subseteq Identities \X Features

TypeOK ==
    /\ PoolOK /\ imports \in Seq(Uploads) /\ events \in Nat
    /\ DOMAIN work \subseteq DOMAIN imports \union {Sweep}
    /\ work \in [DOMAIN work -> Workers]

-----------------------------------------------------------------------------
(* The invariant, in terms of what a step may change                       *)

\* Someone removed rows of this identity.
Gone(h, T) == \E f \in Features : <<h, f>> \in T

\* The row is that of the identity, or was and has been removed.
Holds(r, h, R, T) == r \in DOMAIN R /\ IF R[r] # None THEN R[r].identity = h ELSE Gone(h, T)

\* The test case is one for the row's identity h, or has been removed with it.
Serves(r, h, c, R, T, C) == c \in DOMAIN C /\ IF C[c] # None THEN Holds(r, C[c], R, T) ELSE Gone(h, T)

\* What a worker is at.
Held(w, R, T, C) ==
    LET h == Head(w.todo).identity IN
    /\ w.pc \in {"store", "find", "write"} => w.todo # <<>>
    /\ w.pc = "store" => w.row = None \/ Holds(w.row, h, R, T)
    /\ w.pc \in {"find", "write"} => Holds(w.row, h, R, T)
    /\ w.pc = "write" => w.case = None \/ Serves(w.row, h, w.case, R, T, C)

\* The rows it was given: a rescan and a reuse are.
Given(w, R, T) == \A n \in DOMAIN w.todo : Holds(w.todo[n].row, w.todo[n].identity, R, T)

\* A worker and its import.
Serving(i, d, w, S, T) ==
    /\ d.status # "COMPLETED" /\ d.feature \in {w.feature, None}
    /\ w.pc \in {"start", "signed"} => d.kept = {} /\ d.file # None /\ \A s \in S : s[2] # i
    /\ w.pc \in {"signed", "store"} => d.dup = None
    /\ w.pc \in {"find", "write"} => <<w.row, i>> \in S \/ Gone(Head(w.todo).identity, T)

Alive(r, f) == \E x \in promos : x.row = r /\ x.feature = f /\ imported[x.case] # None

\* A kept row is where ImportComplete wants it.
Placed(i, h, f) ==
    \/ Gone(h, taken)
    \/ \E r \in DOMAIN rows :
          /\ rows[r] # None /\ rows[r].identity = h /\ <<r, i>> \in sources
          /\ <<h, f>> \in Backed => <<r, f>> \in links /\ Alive(r, f)

Waits(w, h) == \E n \in DOMAIN w.todo : w.todo[n].identity = h

Working == \A p \in DOMAIN work :
    /\ Held(work[p], rows, taken, imported)
    /\ work[p].pc = "store" => p # Sweep
    /\ p = Sweep => work[p].pc \notin {"start", "signed"}
    /\ p = Sweep \/ imports[p].dup # None => Given(work[p], rows, taken)
Importing == \A i \in DOMAIN imports \intersect DOMAIN work : Serving(i, imports[i], work[i], sources, taken)
Made == \A x \in promos : imported[x.case] # None => Holds(x.row, imported[x.case], rows, taken)
Single == \A x, y \in promos : x.row = y.row /\ x.feature = y.feature => x = y
Progress == \A i \in DOMAIN imports : \A h \in imports[i].kept :
    imports[i].dup = None /\ (i \in DOMAIN work \/ imports[i].status = "COMPLETED") =>
        Placed(i, h, imports[i].feature) \/ (i \in DOMAIN work /\ Waits(work[i], h))

Inv == Working /\ Importing /\ Made /\ Single /\ Progress
IInv == TypeOK /\ Inv

-----------------------------------------------------------------------------
(* What every step leaves of the pool and of what was made from it         *)

\* A row keeps its identity; what disappears has its identity removed.
Keeps ==
    /\ taken \subseteq taken'
    /\ \A r \in DOMAIN rows :
          /\ r \in DOMAIN rows' /\ (rows[r] = None => rows'[r] = None)
          /\ rows[r] # None => IF rows'[r] # None THEN rows'[r].identity = rows[r].identity
                               ELSE Gone(rows[r].identity, taken')
    /\ \A s \in sources : s \in sources' \/ rows'[s[1]] = None
    /\ \A l \in links : rows[l[1]] # None => l \in links' \/ Gone(rows[l[1]].identity, taken')
    /\ \A r \in DOMAIN rows : rows[r] # None =>
          \A f \in Features : Alive(r, f) => Alive(r, f)' \/ Gone(rows[r].identity, taken')
    /\ \A c \in DOMAIN imported :
          /\ c \in DOMAIN imported'
          /\ imported'[c] # imported[c] => imported[c] # None /\ imported'[c] = None /\ Gone(imported[c], taken')

LEMMA GoneKept ==
  ASSUME Keeps
  PROVE  \A h : Gone(h, taken) => Gone(h, taken')
BY DEF Keeps, Gone

LEMMA HoldsKept ==
  ASSUME Keeps
  PROVE  \A r, h : Holds(r, h, rows, taken) => Holds(r, h, rows', taken')
BY GoneKept DEF Keeps, Holds

LEMMA ServesKept ==
  ASSUME Keeps
  PROVE  \A r, h, c : Holds(r, h, rows, taken) /\ Serves(r, h, c, rows, taken, imported)
                         => Serves(r, h, c, rows', taken', imported')
<1> SUFFICES ASSUME NEW r, NEW h, NEW c, Holds(r, h, rows, taken), Serves(r, h, c, rows, taken, imported)
             PROVE  Serves(r, h, c, rows', taken', imported')
  OBVIOUS
<1>1. c \in DOMAIN imported /\ c \in DOMAIN imported'
  BY DEF Serves, Keeps
<1>2. CASE imported[c] = None
  BY <1>1, <1>2, GoneKept DEF Serves, Keeps
<1>3. CASE imported[c] # None /\ imported'[c] = imported[c]
  BY <1>1, <1>3, HoldsKept DEF Serves
<1>4. CASE imported[c] # None /\ imported'[c] # imported[c]
  <2>1. imported'[c] = None /\ Gone(imported[c], taken') /\ Holds(r, imported[c], rows, taken)
    BY <1>1, <1>4 DEF Serves, Keeps
  <2>2. Gone(h, taken')
    BY <2>1, GoneKept DEF Holds
  <2>. QED
    BY <1>1, <2>1, <2>2 DEF Serves
<1>. QED
  BY <1>2, <1>3, <1>4

LEMMA WorkKept ==
  ASSUME Keeps
  PROVE  /\ \A w : Held(w, rows, taken, imported) => Held(w, rows', taken', imported')
         /\ \A w : Given(w, rows, taken) => Given(w, rows', taken')
<1>1. ASSUME NEW w, Held(w, rows, taken, imported) PROVE Held(w, rows', taken', imported')
  <2>. DEFINE h == Head(w.todo).identity
  <2>1. w.pc = "store" => w.row = None \/ Holds(w.row, h, rows', taken')
    BY <1>1, HoldsKept DEF Held
  <2>2. w.pc \in {"find", "write"} => Holds(w.row, h, rows, taken) /\ Holds(w.row, h, rows', taken')
    BY <1>1, HoldsKept DEF Held
  <2>3. w.pc = "write" => w.case = None \/ Serves(w.row, h, w.case, rows', taken', imported')
    BY <1>1, <2>2, ServesKept DEF Held
  <2>. QED
    BY <1>1, <2>1, <2>2, <2>3 DEF Held
<1>. QED
  BY <1>1, HoldsKept DEF Given

LEMMA PlacedKept ==
  ASSUME TypeOK, Keeps, NEW i, NEW h, NEW f, NEW g, g = f \/ g = None,
         Placed(i, h, f)
  PROVE  Placed(i, h, g)'
<1>1. CASE Gone(h, taken)
  BY <1>1, GoneKept DEF Placed
<1>2. ASSUME ~Gone(h, taken'), NEW r \in DOMAIN rows, rows[r] # None, rows[r].identity = h, <<r, i>> \in sources,
             <<h, f>> \in Backed => <<r, f>> \in links /\ Alive(r, f)
      PROVE  Placed(i, h, g)'
  <2>1. r \in DOMAIN rows' /\ rows'[r] # None /\ rows'[r].identity = h
    BY <1>2 DEF Keeps
  <2>2. <<r, i>> \in sources'
    BY <1>2, <2>1 DEF Keeps
  <2>3. ASSUME <<h, g>> \in Backed PROVE <<r, g>> \in links' /\ Alive(r, g)'
    <3>1. g = f /\ g \in Features
      BY <2>3, ImportsAssumption
    <3>2. <<r, f>> \in links /\ Alive(r, f)
      BY <1>2, <2>3, <3>1
    <3>3. <<r, f>> \in links'
      BY <1>2, <3>2 DEF Keeps
    <3>4. Alive(r, f)'
      BY <1>2, <3>1, <3>2 DEF Keeps
    <3>. QED
      BY <3>1, <3>3, <3>4
  <2>. QED
    BY <2>1, <2>2, <2>3 DEF Placed
<1>. QED
  BY <1>1, <1>2 DEF Placed

-----------------------------------------------------------------------------
(* What a step leaves of the workers and imports that are not its own      *)

\* An import left alone, or deleted with the last row it was a source of.
Kin(i) ==
    \/ imports'[i] = imports[i]
    \/ /\ imports'[i].kept = imports[i].kept /\ imports'[i].dup = imports[i].dup
       /\ imports'[i].status = "DELETED" /\ imports'[i].feature = None /\ \E s \in sources : s[2] = i

\* All but p go on as they were, or end.
Apart(p) ==
    /\ DOMAIN imports' \ {p} \subseteq DOMAIN imports /\ \A i \in DOMAIN imports \ {p} : Kin(i)
    /\ \A q \in DOMAIN work' \ {p} : q \in DOMAIN work /\ work'[q] = work[q]
    /\ \A s \in sources' : s \in sources \/ s[2] = p

WorkingAt(q) ==
    /\ Held(work[q], rows, taken, imported)
    /\ work[q].pc = "store" => q # Sweep
    /\ q = Sweep => work[q].pc \notin {"start", "signed"}
    /\ q = Sweep \/ imports[q].dup # None => Given(work[q], rows, taken)
ProgressAt(i) == \A h \in imports[i].kept :
    imports[i].dup = None /\ (i \in DOMAIN work \/ imports[i].status = "COMPLETED") =>
        Placed(i, h, imports[i].feature) \/ (i \in DOMAIN work /\ Waits(work[i], h))

LEMMA OthersWork ==
  ASSUME TypeOK, Inv, Keeps, NEW p, Apart(p), DOMAIN work' \subseteq DOMAIN imports' \union {Sweep},
         NEW q \in DOMAIN work' \ {p}
  PROVE  WorkingAt(q)'
<1>1. q \in DOMAIN work /\ work'[q] = work[q]
  BY DEF Apart
<1>2. WorkingAt(q)
  BY <1>1 DEF Inv, Working, WorkingAt
<1>3. Held(work'[q], rows', taken', imported')
  BY <1>1, <1>2, WorkKept DEF WorkingAt
<1>4. q # Sweep => imports'[q].dup = imports[q].dup
  BY DEF Apart, Kin
<1>5. q = Sweep \/ imports'[q].dup # None => Given(work'[q], rows', taken')
  BY <1>1, <1>2, <1>4, WorkKept DEF WorkingAt
<1>. QED
  BY <1>1, <1>2, <1>3, <1>5 DEF WorkingAt

LEMMA OthersServe ==
  ASSUME TypeOK, Inv, Keeps, NEW p, Apart(p), NEW i \in DOMAIN imports' \intersect DOMAIN work', i # p
  PROVE  Serving(i, imports'[i], work'[i], sources', taken')
<1>1. i \in DOMAIN imports /\ i \in DOMAIN work /\ work'[i] = work[i] /\ Kin(i)
  BY DEF Apart
<1>2. Serving(i, imports[i], work[i], sources, taken) /\ Held(work[i], rows, taken, imported)
  BY <1>1 DEF Inv, Importing, Working
<1>3. /\ imports'[i].kept = imports[i].kept /\ imports'[i].dup = imports[i].dup
      /\ imports'[i].status # "COMPLETED" /\ imports'[i].feature \in {imports[i].feature, None}
      /\ work[i].pc \in {"start", "signed"} => imports'[i] = imports[i]
  BY <1>1, <1>2 DEF Kin, Serving
<1>4. work[i].pc \in {"start", "signed"} => \A s \in sources' : s[2] # i
  BY <1>2 DEF Serving, Apart
<1>5. work[i].pc \in {"find", "write"} => <<work[i].row, i>> \in sources' \/ Gone(Head(work[i].todo).identity, taken')
  <2>1. SUFFICES ASSUME work[i].pc \in {"find", "write"}, <<work[i].row, i>> \in sources, <<work[i].row, i>> \notin sources'
                 PROVE  Gone(Head(work[i].todo).identity, taken')
    BY <1>2, GoneKept DEF Serving
  <2>2. rows'[work[i].row] = None
    BY <2>1 DEF Keeps
  <2>3. Holds(work[i].row, Head(work[i].todo).identity, rows', taken')
    BY <1>2, <2>1, HoldsKept DEF Held
  <2>. QED
    BY <2>2, <2>3 DEF Holds
<1>. QED
  BY <1>1, <1>2, <1>3, <1>4, <1>5 DEF Serving

LEMMA OthersProgress ==
  ASSUME TypeOK, Inv, Keeps, NEW p, Apart(p), NEW i \in DOMAIN imports', i # p
  PROVE  ProgressAt(i)'
<1>1. i \in DOMAIN imports /\ Kin(i)
  BY DEF Apart
<1>2. SUFFICES ASSUME NEW h \in imports'[i].kept, imports'[i].dup = None,
                      i \in DOMAIN work' \/ imports'[i].status = "COMPLETED"
               PROVE  Placed(i, h, imports[i].feature)' \/ (i \in DOMAIN work' /\ Waits(work'[i], h))
  BY DEF ProgressAt
<1>3. h \in imports[i].kept /\ imports[i].dup = None
  BY <1>1, <1>2 DEF Kin
<1>4. CASE i \in DOMAIN work'
  <2>1. i \in DOMAIN work /\ work'[i] = work[i]
    BY <1>4 DEF Apart
  <2>2. CASE Placed(i, h, imports[i].feature)
    <3>1. imports'[i].feature = imports[i].feature \/ imports'[i].feature = None
      BY <1>1 DEF Kin
    <3>2. PICK f, g : f = imports[i].feature /\ g = imports'[i].feature
      OBVIOUS
    <3>3. Placed(i, h, g)'
      BY <2>2, <3>1, <3>2, PlacedKept
    <3>. QED
      BY <3>2, <3>3 DEF Placed
  <2>. QED
    BY <1>1, <1>3, <1>4, <2>1, <2>2 DEF Inv, Progress
<1>5. CASE i \notin DOMAIN work'
  <2>1. imports'[i] = imports[i] /\ imports[i].status = "COMPLETED"
    BY <1>1, <1>2, <1>5 DEF Kin
  <2>2. i \notin DOMAIN work
    BY <1>1, <2>1 DEF Inv, Importing, Serving
  <2>3. Placed(i, h, imports[i].feature)
    BY <1>1, <1>3, <2>1, <2>2 DEF Inv, Progress
  <2>4. PICK f : f = imports[i].feature
    OBVIOUS
  <2>5. Placed(i, h, f)'
    BY <2>3, <2>4, PlacedKept
  <2>. QED
    BY <2>1, <2>4, <2>5 DEF Placed
<1>. QED
  BY <1>4, <1>5

LEMMA Stepped ==
  ASSUME TypeOK, Inv, TypeOK', Keeps, Made', Single', NEW p, Apart(p),
         p \in DOMAIN work' => WorkingAt(p)',
         p \in DOMAIN imports' \intersect DOMAIN work' => Serving(p, imports'[p], work'[p], sources', taken'),
         p \in DOMAIN imports' => ProgressAt(p)'
  PROVE  Inv'
<1>1. DOMAIN work' \subseteq DOMAIN imports' \union {Sweep}
  BY DEF TypeOK, PoolOK
<1>2. Working'
  <2>1. \A q \in DOMAIN work' : WorkingAt(q)'
    BY <1>1, OthersWork
  <2>. QED
    BY <2>1 DEF Working, WorkingAt
<1>3. Importing'
  BY OthersServe DEF Importing
<1>4. Progress'
  <2>1. \A i \in DOMAIN imports' : ProgressAt(i)'
    BY OthersProgress
  <2>. QED
    BY <2>1 DEF Progress, ProgressAt
<1>. QED
  BY <1>2, <1>3, <1>4 DEF Inv

-----------------------------------------------------------------------------
(* What a step does to the pool and the library                            *)

LEMMA RowsKeep ==
  ASSUME TypeOK, Inv, UNCHANGED <<links, promos, imported, taken>>, sources \subseteq sources',
         \A r \in DOMAIN rows :
            /\ r \in DOMAIN rows' /\ (rows[r] = None => rows'[r] = None)
            /\ rows[r] # None => rows'[r] # None /\ rows'[r].identity = rows[r].identity
  PROVE  Keeps /\ Made' /\ Single'
<1>1. Keeps
  BY DEF Keeps, Alive
<1>2. Made'
  BY <1>1, HoldsKept DEF Inv, Made
<1>3. Single'
  BY DEF Inv, Single
<1>. QED
  BY <1>1, <1>2, <1>3

\* A row has one promotion to a feature.
LEMMA PromotedIs ==
  ASSUME Single
  PROVE  \A r, f : IsPromoted(r, f) <=> Alive(r, f) /\ \E x \in promos : x.row = r /\ x.feature = f /\ x.case \in Cases
<1> SUFFICES ASSUME NEW r, NEW f
             PROVE  IsPromoted(r, f) <=> Alive(r, f) /\ \E x \in promos : x.row = r /\ x.feature = f /\ x.case \in Cases
  OBVIOUS
<1>1. ASSUME IsPromoted(r, f) PROVE Alive(r, f) /\ \E x \in promos : x.row = r /\ x.feature = f /\ x.case \in Cases
  BY <1>1 DEF IsPromoted, Latest, Of, Alive, Cases
<1>2. ASSUME NEW x \in promos, x.row = r, x.feature = f, x.case \in Cases PROVE IsPromoted(r, f)
  <2>1. x \in Of(r, {f}) /\ Of(r, {f}) \ {x} = {}
    BY <1>2 DEF Of, Single
  <2>2. x \in Latest(r, {f})
    BY <2>1 DEF Latest
  <2>. QED
    BY <1>2, <2>2 DEF IsPromoted
<1>. QED
  BY <1>1, <1>2

LEMMA FoundServes ==
  ASSUME TypeOK, Inv, NEW r, NEW f, NEW h, Holds(r, h, rows, taken), NEW found \in Found(r, f, h)
  PROVE  found \in Nat \union {None} /\ (found = None \/ Serves(r, h, found, rows, taken, imported))
<1>1. ASSUME found # None
      PROVE  found \in Cases /\ Holds(r, imported[found], rows, taken)
  <2>1. CASE \E fs : found \in {x.case : x \in Latest(r, fs)} \intersect Cases
    BY <2>1 DEF Latest, Of, Inv, Made, Cases
  <2>2. CASE found \in {c \in Cases : imported[c] = h}
    BY <2>2
  <2>. QED
    BY <1>1, <2>1, <2>2 DEF Found
<1>2. found \in Cases => found \in DOMAIN imported /\ found \in Nat /\ imported[found] # None
  BY DEF Cases, TypeOK, PoolOK
<1>. QED
  BY <1>1, <1>2 DEF Serves

LEMMA NewestIs ==
  ASSUME TypeOK, NEW xs \in SUBSET promos
  PROVE  Max({0} \union {x.at : x \in xs}) \in Nat
<1>. DEFINE S == {x.at : x \in xs}
<1>1. IsFiniteSet(xs)
  BY FS_Subset DEF TypeOK, PoolOK
<1>2. IsFiniteSet(S)
  <2>1. PICK at : at = [x \in xs |-> x.at]
    OBVIOUS
  <2>2. at \in [xs -> S] /\ \A y \in S : \E x \in xs : at[x] = y
    BY <2>1
  <2>3. at \in Surjection(xs, S)
    BY <2>2, Zenon DEF Surjection
  <2>. QED
    BY <1>1, <2>3, FS_Surjection
<1>3. S \subseteq Nat
  BY DEF TypeOK, PoolOK, Promotions
<1>4. IsFiniteSet(S \union {0})
  BY <1>2, FS_AddElement
<1>5. {0} \union S = S \union {0} /\ S \union {0} \in SUBSET Nat /\ S \union {0} # {}
  BY <1>3
<1>. HIDE DEF S
<1>6. Max(S \union {0}) \in S \union {0}
  BY <1>4, <1>5, MaxIs
<1>. QED
  BY <1>5, <1>6 DEF S

\* Promotion, by what it changes.
Promotion(row, f, h, found) ==
    /\ imported' \in Seq(Identities \union {None}) /\ DOMAIN imported \subseteq DOMAIN imported'
    /\ \A c \in DOMAIN imported : imported'[c] = imported[c]
    /\ assoc' \subseteq Features \X (DOMAIN imported')
    /\ rows' \in Seq(Entries \union {None}) /\ DOMAIN rows' = DOMAIN rows
    /\ rows' = IF rows[row] # None THEN [rows EXCEPT ![row] = Row(h, TRUE)] ELSE rows
    /\ links' = links \union {<<row, f>>}
    /\ IsFiniteSet(promos') /\ promos' \subseteq Promotions
    /\ \E x \in promos' :
          /\ x.row = row /\ x.feature = f /\ x.case \in DOMAIN imported'
          /\ IF found = None THEN imported'[x.case] = h ELSE x.case = found
          /\ promos' = {y \in promos : ~(y.row = row /\ y.feature = f)} \union {x}

LEMMA PromotedTypes ==
  ASSUME TypeOK, NEW row \in DOMAIN rows, NEW f \in Features, NEW h \in Identities,
         NEW found \in (DOMAIN imported) \union {None}, Promoted(row, f, h, found)
  PROVE  Promotion(row, f, h, found)
<1>. DEFINE case == IF found = None THEN Len(imported) + 1 ELSE found
            at == 1 + Max({0} \union {x.at : x \in Of(row, Features \ {f})})
            x == [row |-> row, feature |-> f, case |-> case, at |-> at]
            rest == {y \in promos : ~(y.row = row /\ y.feature = f)}
<1>1. /\ imported' \in Seq(Identities \union {None}) /\ DOMAIN imported \subseteq DOMAIN imported'
      /\ \A c \in DOMAIN imported : imported'[c] = imported[c]
      /\ case \in DOMAIN imported' /\ case \in Nat /\ (found = None => imported'[case] = h)
  <2>1. CASE found = None
    <3>1. imported' = Append(imported, h)
      BY <2>1 DEF Promoted
    <3>. QED
      BY <2>1, <3>1 DEF TypeOK, PoolOK
  <2>2. CASE found # None
    <3>1. imported' = imported
      BY <2>2 DEF Promoted
    <3>. QED
      BY <2>2, <3>1 DEF TypeOK, PoolOK
  <2>. QED
    BY <2>1, <2>2
<1>2. assoc' = assoc \union {<<f, case>>} /\ links' = links \union {<<row, f>>}
  BY DEF Promoted
<1>3. assoc' \subseteq Features \X (DOMAIN imported')
  BY <1>1, <1>2 DEF TypeOK, PoolOK
<1>4. Row(h, TRUE) \in Entries
  BY DEF Row, Entries
<1>5. rows' = IF rows[row] # None THEN [rows EXCEPT ![row] = Row(h, TRUE)] ELSE rows
  BY DEF Promoted, Rows
<1>6. rows' \in Seq(Entries \union {None}) /\ DOMAIN rows' = DOMAIN rows
  <2>1. rows \in Seq(Entries \union {None})
    BY DEF TypeOK, PoolOK
  <2>2. /\ [rows EXCEPT ![row] = Row(h, TRUE)] \in Seq(Entries \union {None})
        /\ DOMAIN [rows EXCEPT ![row] = Row(h, TRUE)] = DOMAIN rows
    BY <1>4, <2>1, Overwritten
  <2>. QED
    BY <1>5, <2>1, <2>2
<1>7. at \in Nat
  <2>1. Of(row, Features \ {f}) \in SUBSET promos
    BY DEF Of
  <2>2. Max({0} \union {y.at : y \in Of(row, Features \ {f})}) \in Nat
    BY <2>1, NewestIs
  <2>. QED
    BY <2>2
<1>8. x \in Promotions
  <2>. HIDE DEF at, case
  <2>. QED
    BY <1>1, <1>7 DEF Promotions, TypeOK, PoolOK
<1>9. promos' = rest \union {x}
  <2>1. promos' = (promos \ Of(row, {f})) \union {x}
    BY DEF Promoted
  <2>2. promos \ Of(row, {f}) = rest
    BY DEF Of
  <2>. QED
    BY <2>1, <2>2
<1>10. IsFiniteSet(promos')
  <2>1. IsFiniteSet(rest)
    BY FS_Subset DEF TypeOK, PoolOK
  <2>. HIDE DEF rest, x
  <2>. QED
    BY <1>9, <2>1, FS_AddElement
<1>11. promos' \subseteq Promotions
  BY <1>8, <1>9 DEF TypeOK, PoolOK
<1>12. x.row = row /\ x.feature = f /\ x.case = case
  OBVIOUS
<1>. HIDE DEF x, at
<1>. QED
  BY <1>1, <1>2, <1>3, <1>5, <1>6, <1>9, <1>10, <1>11, <1>12 DEF Promotion

LEMMA PromotedPool ==
  ASSUME TypeOK, NEW row \in DOMAIN rows, NEW f \in Features, NEW h, NEW found, Promotion(row, f, h, found),
         UNCHANGED <<imports, sources, taken>>
  PROVE  PoolOK'
<1>1. \A x \in promos' : x.row \in DOMAIN rows' /\ x.case \in DOMAIN imported'
  BY DEF Promotion, TypeOK, PoolOK
<1>2. sources' \subseteq (DOMAIN rows') \X (DOMAIN imports') /\ links' \subseteq (DOMAIN rows') \X Features
  BY DEF Promotion, TypeOK, PoolOK
<1>. QED
  BY <1>1, <1>2 DEF Promotion, TypeOK, PoolOK

LEMMA PromotedKeeps ==
  ASSUME TypeOK, Inv, NEW row \in DOMAIN rows, NEW f \in Features, NEW h \in Identities,
         NEW found \in (DOMAIN imported) \union {None}, Promoted(row, f, h, found), UNCHANGED <<sources, taken>>,
         Holds(row, h, rows, taken), found = None \/ Serves(row, h, found, rows, taken, imported)
  PROVE  Keeps /\ Made' /\ Single' /\ <<row, f>> \in links' /\ (Gone(h, taken') \/ Alive(row, f)')
<1>0. Promotion(row, f, h, found)
  BY PromotedTypes
<1>1. PICK x \in promos' :
         /\ x.row = row /\ x.feature = f /\ x.case \in DOMAIN imported'
         /\ IF found = None THEN imported'[x.case] = h ELSE x.case = found
         /\ promos' = {y \in promos : ~(y.row = row /\ y.feature = f)} \union {x}
  BY <1>0 DEF Promotion
<1>2. /\ DOMAIN imported \subseteq DOMAIN imported' /\ \A c \in DOMAIN imported : imported'[c] = imported[c]
      /\ DOMAIN rows' = DOMAIN rows /\ links' = links \union {<<row, f>>}
      /\ rows' = IF rows[row] # None THEN [rows EXCEPT ![row] = Row(h, TRUE)] ELSE rows
  BY <1>0 DEF Promotion
<1>3. Row(h, TRUE) # None /\ Row(h, TRUE).identity = h
  <2>1. Row(h, TRUE) \in Entries /\ Row(h, TRUE).identity = h
    BY DEF Row, Entries
  <2>. QED
    BY <2>1, ImportsAssumption
<1>4. \A r \in DOMAIN rows : /\ rows[r] = None => rows'[r] = None
                             /\ rows[r] # None => rows'[r] # None /\ rows'[r].identity = rows[r].identity
  BY <1>2, <1>3 DEF Holds
<1>5. Gone(h, taken') \/ Alive(row, f)'
  <2>1. CASE found = None
    <3>1. imported'[x.case] # None
      BY <1>1, <2>1, ImportsAssumption
    <3>. QED
      BY <1>1, <3>1 DEF Alive
  <2>2. CASE found # None
    <3>1. imported'[x.case] = imported[found]
      BY <1>1, <1>2, <2>2
    <3>2. imported[found] # None \/ Gone(h, taken)
      BY <2>2 DEF Serves
    <3>. QED
      BY <1>1, <3>1, <3>2 DEF Alive
  <2>. QED
    BY <2>1, <2>2
<1>6. \A y \in promos : y.case \in DOMAIN imported
  BY DEF TypeOK, PoolOK
<1>7. ASSUME NEW r \in DOMAIN rows, rows[r] # None, NEW g, Alive(r, g)
      PROVE  Alive(r, g)' \/ Gone(rows[r].identity, taken')
  <2>1. CASE r = row /\ g = f
    BY <1>5, <1>7, <2>1 DEF Holds
  <2>2. CASE ~(r = row /\ g = f)
    <3>1. PICK y \in promos : y.row = r /\ y.feature = g /\ imported[y.case] # None
      BY <1>7 DEF Alive
    <3>2. y \in promos' /\ imported'[y.case] # None
      BY <1>1, <1>2, <1>6, <2>2, <3>1
    <3>. QED
      BY <3>1, <3>2 DEF Alive
  <2>. QED
    BY <2>1, <2>2
<1>8. Keeps
  BY <1>2, <1>4, <1>7 DEF Keeps
<1>9. Made'
  <2>1. ASSUME NEW y \in promos', imported'[y.case] # None, y # x
        PROVE  Holds(y.row, imported'[y.case], rows', taken')
    <3>1. y \in promos /\ imported'[y.case] = imported[y.case]
      BY <1>1, <1>2, <1>6, <2>1
    <3>2. Holds(y.row, imported[y.case], rows, taken)
      BY <2>1, <3>1 DEF Inv, Made
    <3>. QED
      BY <1>8, <3>1, <3>2, HoldsKept
  <2>2. ASSUME imported'[x.case] # None
        PROVE  Holds(row, imported'[x.case], rows', taken')
    <3>1. CASE found = None
      BY <1>1, <1>8, <3>1, HoldsKept
    <3>2. CASE found # None
      <4>1. imported'[x.case] = imported[found]
        BY <1>1, <1>2, <3>2
      <4>2. Holds(row, imported[found], rows, taken)
        BY <2>2, <3>2, <4>1 DEF Serves
      <4>. QED
        BY <1>8, <4>1, <4>2, HoldsKept
    <3>. QED
      BY <3>1, <3>2
  <2>. QED
    BY <1>1, <2>1, <2>2 DEF Made
<1>10. Single'
  BY <1>1 DEF Inv, Single
<1>. QED
  BY <1>2, <1>5, <1>8, <1>9, <1>10

LEMMA UnlinkedKeeps ==
  ASSUME TypeOK, Inv, NEW row \in DOMAIN rows, rows[row] # None, NEW fs \in SUBSET Features, fs # {}, Unlinked(row, fs),
         \/ UNCHANGED <<rows, sources>>
         \/ rows' = [rows EXCEPT ![row] = None] /\ sources' = {s \in sources : s[1] # row}
  PROVE  /\ Keeps /\ Made' /\ Single'
         /\ imported' \in Seq(Identities \union {None}) /\ DOMAIN imported' = DOMAIN imported
         /\ promos' \subseteq promos /\ IsFiniteSet(promos')
         /\ assoc' \subseteq assoc /\ links' \subseteq links /\ taken' \subseteq Identities \X Features
<1>. DEFINE h == rows[row].identity
<1>1. h \in Identities
  BY DEF TypeOK, PoolOK, Entries
<1>2. taken' = taken \union {<<h, f>> : f \in fs}
  BY DEF Unlinked
<1>3. Gone(h, taken')
  BY <1>2 DEF Gone
<1>4. taken' \subseteq Identities \X Features
  BY <1>1, <1>2 DEF TypeOK, PoolOK
<1>. HIDE DEF h
<1>5. promos' = promos \ Of(row, fs) /\ promos' \subseteq promos
  BY DEF Unlinked
<1>6. IsFiniteSet(promos')
  BY <1>5, FS_Subset DEF TypeOK, PoolOK
<1>7. assoc' \subseteq assoc /\ links' \subseteq links /\ \A l \in links \ links' : l[1] = row
  BY DEF Unlinked
<1>8. /\ DOMAIN imported' = DOMAIN imported
      /\ \A c \in DOMAIN imported : \/ imported'[c] = imported[c]
                                    \/ imported'[c] = None /\ \E x \in Of(row, fs) : x.case = c
  <2>1. imported' = [c \in DOMAIN imported |->
            IF /\ \E f \in fs : <<f, c>> \in assoc \intersect {<<x.feature, x.case>> : x \in Of(row, fs)}
               /\ \A f \in Features : <<f, c>> \notin assoc'
            THEN None ELSE imported[c]]
    BY DEF Unlinked
  <2>2. ASSUME NEW c, NEW f, <<f, c>> \in {<<x.feature, x.case>> : x \in Of(row, fs)}
        PROVE  \E x \in Of(row, fs) : x.case = c
    BY <2>2
  <2>. QED
    BY <2>1, <2>2
<1>9. imported' \in Seq(Identities \union {None})
  <2>1. \A c \in DOMAIN imported : imported'[c] \in Identities \union {None}
    BY <1>8 DEF TypeOK, PoolOK
  <2>2. imported' = [c \in DOMAIN imported |-> imported'[c]]
    BY <1>8 DEF Unlinked
  <2>3. Len(imported) \in Nat /\ DOMAIN imported = 1 .. Len(imported)
    BY DEF TypeOK, PoolOK
  <2>4. imported' \in [1 .. Len(imported) -> Identities \union {None}]
    BY <2>1, <2>2, <2>3
  <2>. QED
    BY <2>3, <2>4, SequenceIs
<1>10. \A c \in DOMAIN imported : imported'[c] # imported[c] => imported[c] = h /\ imported'[c] = None
  <2>1. SUFFICES ASSUME NEW c \in DOMAIN imported, imported'[c] # imported[c]
                 PROVE  imported[c] = h /\ imported'[c] = None
    OBVIOUS
  <2>2. PICK x \in Of(row, fs) : x.case = c /\ imported'[c] = None
    BY <1>8, <2>1
  <2>3. x \in promos /\ x.row = row /\ imported[c] # None
    BY <2>1, <2>2 DEF Of
  <2>4. Holds(row, imported[c], rows, taken)
    BY <2>2, <2>3 DEF Inv, Made
  <2>. QED
    BY <2>2, <2>4 DEF Holds, h
<1>11. \A r \in DOMAIN rows : /\ r \in DOMAIN rows' /\ (rows[r] = None => rows'[r] = None)
                              /\ rows'[r] # None => rows'[r] = rows[r]
                              /\ rows[r] # None /\ rows'[r] = None => r = row
  OBVIOUS
<1>12. \A s \in sources : s \in sources' \/ rows'[s[1]] = None
  OBVIOUS
<1>13. ASSUME NEW r \in DOMAIN rows, rows[r] # None, NEW g, Alive(r, g)
       PROVE  Alive(r, g)' \/ Gone(rows[r].identity, taken')
  <2>1. PICK x \in promos : x.row = r /\ x.feature = g /\ imported[x.case] # None
    BY <1>13 DEF Alive
  <2>2. x.case \in DOMAIN imported
    BY DEF TypeOK, PoolOK
  <2>3. CASE x \in Of(row, fs)
    BY <1>3, <2>1, <2>3 DEF Of, h
  <2>4. CASE x \notin Of(row, fs) /\ imported'[x.case] = imported[x.case]
    BY <1>5, <2>1, <2>4 DEF Alive
  <2>5. CASE imported'[x.case] # imported[x.case]
    <3>1. imported[x.case] = h
      BY <1>10, <2>2, <2>5
    <3>2. Holds(r, imported[x.case], rows, taken)
      BY <2>1 DEF Inv, Made
    <3>. QED
      BY <1>3, <1>13, <3>1, <3>2 DEF Holds
  <2>. QED
    BY <2>3, <2>4, <2>5
<1>14. Keeps
  BY <1>2, <1>3, <1>7, <1>8, <1>10, <1>11, <1>12, <1>13, ImportsAssumption, ZenonT(30) DEF Keeps, h
<1>15. Made'
  <2>1. SUFFICES ASSUME NEW x \in promos', imported'[x.case] # None
                 PROVE  Holds(x.row, imported'[x.case], rows', taken')
    BY DEF Made
  <2>2. x \in promos /\ x.case \in DOMAIN imported
    BY <1>5 DEF TypeOK, PoolOK
  <2>3. imported'[x.case] = imported[x.case]
    BY <1>8, <2>1, <2>2
  <2>. QED
    BY <1>14, <2>1, <2>2, <2>3, HoldsKept DEF Inv, Made
<1>16. Single'
  BY <1>5 DEF Inv, Single
<1>. QED
  BY <1>4, <1>5, <1>6, <1>7, <1>8, <1>9, <1>14, <1>15, <1>16

-----------------------------------------------------------------------------
(* A worker goes on to its next point                                      *)

LEMMA WorkIs ==
  ASSUME TypeOK, NEW p \in DOMAIN work, NEW y \in Workers, work' = [work EXCEPT ![p] = y]
  PROVE  /\ DOMAIN work' = DOMAIN work /\ work' \in [DOMAIN work' -> Workers]
         /\ work'[p] = y /\ \A q \in DOMAIN work \ {p} : work'[q] = work[q]
BY DEF TypeOK

LEMMA TailIs ==
  ASSUME NEW S, NEW todo \in Seq(S), todo # <<>>
  PROVE  /\ Head(todo) \in S /\ Tail(todo) \in Seq(S) /\ 1 \in DOMAIN todo /\ Head(todo) = todo[1]
         /\ \A n \in DOMAIN Tail(todo) : n + 1 \in DOMAIN todo /\ Tail(todo)[n] = todo[n + 1]
         /\ \A n \in DOMAIN todo : n = 1 \/ (n - 1 \in DOMAIN Tail(todo) /\ Tail(todo)[n - 1] = todo[n])
<1>1. Len(todo) \in Nat \ {0} /\ DOMAIN todo = 1 .. Len(todo)
  BY EmptySeq
<1>2. Head(todo) = todo[1] /\ Head(todo) \in S
  BY <1>1
<1>3. /\ Tail(todo) \in Seq(S) /\ Len(Tail(todo)) = Len(todo) - 1
      /\ \A n \in 1 .. Len(Tail(todo)) : Tail(todo)[n] = todo[n + 1]
  BY HeadTailProperties
<1>4. DOMAIN Tail(todo) = 1 .. (Len(todo) - 1)
  BY <1>3
<1>. QED
  BY <1>1, <1>2, <1>3, <1>4

LEMMA Turn ==
  ASSUME TypeOK, Inv, PoolOK', Keeps, Made', Single', UNCHANGED <<imports, events>>,
         NEW p \in DOMAIN work, NEW y \in Workers, work' = [work EXCEPT ![p] = y],
         NEW k, k = Head(work[p].todo).identity,
         y.feature = work[p].feature, y.pc \in {"row", "store", "find", "write"},
         y.pc = "store" => p # Sweep /\ imports[p].dup = None,
         Held(y, rows', taken', imported'),
         p # Sweep /\ y.pc \in {"find", "write"} => <<y.row, p>> \in sources' \/ Gone(Head(y.todo).identity, taken'),
         \/ y.todo = work[p].todo
         \/ /\ work[p].todo # <<>> /\ y.todo = Tail(work[p].todo)
            /\ p # Sweep /\ imports[p].dup = None => Placed(p, k, imports[p].feature)',
         \A s \in sources' : s \in sources \/ s[2] = p
  PROVE  TypeOK' /\ Inv'
<1>1. /\ DOMAIN work' = DOMAIN work /\ work' \in [DOMAIN work' -> Workers]
      /\ work'[p] = y /\ \A q \in DOMAIN work \ {p} : work'[q] = work[q]
  BY WorkIs
<1>2. TypeOK'
  BY <1>1 DEF TypeOK
<1>3. Apart(p)
  BY <1>1 DEF Apart, Kin
<1>4. WorkingAt(p) /\ (p # Sweep => p \in DOMAIN imports /\ Serving(p, imports[p], work[p], sources, taken) /\ ProgressAt(p))
  BY DEF Inv, Working, WorkingAt, Importing, Progress, ProgressAt, TypeOK
<1>5. work[p].todo \in Seq(Items) /\ y.todo \in Seq(Items)
  BY DEF TypeOK, Workers
<1>6. Given(work[p], rows, taken) => Given(y, rows', taken')
  <2>1. SUFFICES ASSUME Given(work[p], rows, taken) PROVE Given(y, rows', taken')
    OBVIOUS
  <2>2. Given(work[p], rows', taken')
    BY <2>1, WorkKept
  <2>3. CASE y.todo = work[p].todo
    BY <2>2, <2>3 DEF Given
  <2>4. CASE work[p].todo # <<>> /\ y.todo = Tail(work[p].todo)
    <3>1. \A n \in DOMAIN y.todo : n + 1 \in DOMAIN work[p].todo /\ y.todo[n] = work[p].todo[n + 1]
      BY <1>5, <2>4, TailIs
    <3>. QED
      BY <2>2, <3>1 DEF Given
  <2>. QED
    BY <2>3, <2>4
<1>7. WorkingAt(p)'
  BY <1>1, <1>4, <1>6 DEF WorkingAt
<1>8. p # Sweep => Serving(p, imports'[p], work'[p], sources', taken')
  BY <1>1, <1>4 DEF Serving
<1>9. ASSUME p # Sweep PROVE ProgressAt(p)'
  <2>1. SUFFICES ASSUME NEW h \in imports[p].kept, imports[p].dup = None
                 PROVE  Placed(p, h, imports[p].feature)' \/ Waits(y, h)
    BY <1>1 DEF ProgressAt
  <2>2. CASE Placed(p, h, imports[p].feature)
    <3>1. PICK f : f = imports[p].feature
      OBVIOUS
    <3>2. Placed(p, h, f)'
      BY <2>2, <3>1, PlacedKept
    <3>. QED
      BY <3>1, <3>2 DEF Placed
  <2>3. CASE Waits(work[p], h)
    <3>1. CASE y.todo = work[p].todo
      BY <2>3, <3>1 DEF Waits
    <3>2. CASE /\ work[p].todo # <<>> /\ y.todo = Tail(work[p].todo)
               /\ Placed(p, k, imports[p].feature)'
      <4>1. PICK n \in DOMAIN work[p].todo : work[p].todo[n].identity = h
        BY <2>3 DEF Waits
      <4>2. CASE n = 1
        <5>1. h = k
          BY <1>5, <3>2, <4>1, <4>2, TailIs
        <5>. QED
          BY <3>2, <5>1
      <4>3. CASE n # 1
        <5>1. n - 1 \in DOMAIN y.todo /\ y.todo[n - 1] = work[p].todo[n]
          BY <1>5, <3>2, <4>3, TailIs
        <5>. QED
          BY <4>1, <5>1 DEF Waits
      <4>. QED
        BY <4>2, <4>3
    <3>. QED
      BY <1>9, <2>1, <3>1, <3>2
  <2>. QED
    BY <1>4, <1>9, <2>1, <2>2, <2>3 DEF ProgressAt
<1>10. Sweep \notin DOMAIN imports'
  BY ImportsAssumption DEF TypeOK
<1>. QED
  BY <1>2, <1>3, <1>4, <1>7, <1>8, <1>9, <1>10, Stepped DEF TypeOK

\* Whoever has found or stored its row promotes it or has done with it.
LEMMA GoesOn ==
  ASSUME TypeOK, Inv, PoolOK', Keeps, Made', Single', UNCHANGED <<imports, events>>,
         NEW p \in DOMAIN work, work[p].todo # <<>>, NEW k, k = Head(work[p].todo).identity,
         NEW row \in Nat, Goes(p, row), Holds(row, k, rows', taken'),
         p # Sweep => <<row, p>> \in sources', \A s \in sources' : s \in sources \/ s[2] = p
  PROVE  TypeOK' /\ Inv'
<1>1. PICK w \in Workers : w = work[p]
  BY DEF TypeOK
<1>2. w.todo \in Seq(Items) /\ Head(w.todo) \in Items /\ Tail(w.todo) \in Seq(Items)
  BY <1>1, TailIs DEF Workers
<1>3. CASE Promotes(p, k)
  <2>. DEFINE y == [w EXCEPT !.pc = "find", !.row = row, !.seen = None]
  <2>1. /\ y \in Workers /\ y.pc = "find" /\ y.row = row /\ y.feature = w.feature /\ y.todo = w.todo
    BY DEF Workers, Points
  <2>2. work' = [work EXCEPT ![p] = y]
    BY <1>1, <1>3 DEF Goes
  <2>. HIDE DEF y
  <2>3. Held(y, rows', taken', imported')
    BY <1>1, <2>1 DEF Held
  <2>. QED
    BY <1>1, <2>1, <2>2, <2>3, Turn
<1>4. CASE ~Promotes(p, k)
  <2>. DEFINE y == Next_(w)
  <2>1. /\ y \in Workers /\ y.pc = "row" /\ y.feature = w.feature /\ y.todo = Tail(w.todo)
    BY <1>2 DEF Next_, Workers, Points
  <2>2. work' = [work EXCEPT ![p] = y]
    BY <1>1, <1>4 DEF Goes
  <2>. HIDE DEF y
  <2>3. Held(y, rows', taken', imported')
    BY <2>1 DEF Held
  <2>4. ASSUME p # Sweep, imports[p].dup = None
        PROVE  Placed(p, k, imports[p].feature)'
    <3>1. imports[p].feature \in {w.feature, None}
      BY <1>1, <2>4 DEF Inv, Importing, Serving, TypeOK
    <3>2. <<k, imports[p].feature>> \notin Backed
      BY <1>1, <1>4, <3>1, ImportsAssumption DEF Promotes
    <3>. QED
      BY <2>4, <3>2 DEF Placed, Holds
  <2>. QED
    BY <1>1, <2>1, <2>2, <2>3, <2>4, Turn
<1>. QED
  BY <1>3, <1>4

LEMMA FindStep ==
  ASSUME TypeOK, Inv, NEW p, Find(p)
  PROVE  TypeOK' /\ Inv'
<1>1. PICK w \in Workers : p \in DOMAIN work /\ w = work[p] /\ w.pc = "find"
  BY DEF TypeOK, Find
<1>2. PICK k : k = Head(w.todo).identity
  OBVIOUS
<1>3. PICK found \in Found(w.row, w.feature, k) :
         /\ work' = [work EXCEPT ![p].pc = "write", ![p].case = found]
         /\ UNCHANGED <<imports, rows, sources, library, taken, events>>
  BY <1>1, <1>2 DEF Find
<1>4. Holds(w.row, k, rows, taken) /\ Held(w, rows, taken, imported)
  BY <1>1, <1>2 DEF Inv, Working, Held
<1>5. found \in Nat \union {None} /\ (found = None \/ Serves(w.row, k, found, rows, taken, imported))
  BY <1>4, FoundServes
<1>. DEFINE y == [w EXCEPT !.pc = "write", !.case = found]
<1>6. /\ y \in Workers /\ y.pc = "write" /\ y.case = found /\ y.row = w.row
      /\ y.feature = w.feature /\ y.todo = w.todo
  BY <1>5 DEF Workers, Points
<1>7. work' = [work EXCEPT ![p] = y]
  BY <1>1, <1>3
<1>. HIDE DEF y
<1>8. UNCHANGED <<rows, sources, links, promos, imported, assoc, taken, imports, events>>
  BY <1>3 DEF library
<1>9. Keeps /\ Made' /\ Single' /\ PoolOK'
  BY <1>8, RowsKeep DEF TypeOK, PoolOK
<1>10. Held(y, rows', taken', imported')
  BY <1>1, <1>2, <1>4, <1>5, <1>6, <1>8 DEF Held
<1>11. p # Sweep => <<y.row, p>> \in sources' \/ Gone(Head(y.todo).identity, taken')
  BY <1>1, <1>6, <1>8 DEF Inv, Importing, Serving, TypeOK
<1>. QED
  BY <1>1, <1>2, <1>6, <1>7, <1>8, <1>9, <1>10, <1>11, Turn

LEMMA WriteStep ==
  ASSUME TypeOK, Inv, NEW p, Write(p)
  PROVE  TypeOK' /\ Inv'
<1>1. PICK w \in Workers : p \in DOMAIN work /\ w = work[p] /\ w.pc = "write"
  BY DEF TypeOK, Write
<1>2. PICK k : k = Head(w.todo).identity
  OBVIOUS
<1>3. /\ Promoted(w.row, w.feature, k, w.case) /\ work' = [work EXCEPT ![p] = Next_(w)]
      /\ UNCHANGED <<imports, sources, taken, events>>
  BY <1>1, <1>2 DEF Write
<1>4. /\ Held(w, rows, taken, imported) /\ Holds(w.row, k, rows, taken) /\ w.todo # <<>>
      /\ w.case = None \/ Serves(w.row, k, w.case, rows, taken, imported)
  BY <1>1, <1>2 DEF Inv, Working, Held
<1>5. w.todo \in Seq(Items) /\ Tail(w.todo) \in Seq(Items) /\ k \in Identities
  <2>1. w.todo \in Seq(Items)
    BY DEF Workers
  <2>2. Head(w.todo) \in Items /\ Tail(w.todo) \in Seq(Items)
    BY <1>4, <2>1, TailIs
  <2>. QED
    BY <1>2, <2>1, <2>2 DEF Items
<1>6. w.row \in DOMAIN rows /\ w.feature \in Features /\ w.case \in (DOMAIN imported) \union {None}
  BY <1>4 DEF Holds, Serves, Workers
<1>7. PICK r, f, c : r = w.row /\ f = w.feature /\ c = w.case
  OBVIOUS
<1>8. Keeps /\ Made' /\ Single' /\ <<r, f>> \in links' /\ (Gone(k, taken') \/ Alive(r, f)')
  BY <1>3, <1>4, <1>5, <1>6, <1>7, PromotedKeeps
<1>9. Promotion(r, f, k, c)
  BY <1>3, <1>5, <1>6, <1>7, PromotedTypes
<1>10. PoolOK'
  BY <1>3, <1>6, <1>7, <1>9, PromotedPool
<1>. DEFINE y == Next_(w)
<1>11. y \in Workers /\ y.pc = "row" /\ y.feature = w.feature /\ y.todo = Tail(w.todo)
  BY <1>5 DEF Next_, Workers, Points
<1>. HIDE DEF y
<1>12. Held(y, rows', taken', imported')
  BY <1>11 DEF Held
<1>13. ASSUME p # Sweep, imports[p].dup = None
       PROVE  Placed(p, k, imports[p].feature)'
  <2>1. /\ imports[p].feature \in {f, None}
        /\ <<r, p>> \in sources \/ Gone(k, taken)
    BY <1>1, <1>2, <1>7, <1>13 DEF Inv, Importing, Serving, TypeOK
  <2>2. Holds(r, k, rows', taken')
    BY <1>4, <1>7, <1>8, HoldsKept
  <2>3. <<k, imports[p].feature>> \in Backed => imports[p].feature = f
    BY <2>1, ImportsAssumption
  <2>. QED
    BY <1>3, <1>8, <2>1, <2>2, <2>3 DEF Placed, Holds
<1>14. work' = [work EXCEPT ![p] = y]
  BY <1>3 DEF y
<1>. QED
  BY <1>1, <1>2, <1>3, <1>4, <1>8, <1>10, <1>11, <1>12, <1>13, <1>14, Turn

LEMMA LookStep ==
  ASSUME TypeOK, Inv, NEW p, Look(p)
  PROVE  TypeOK' /\ Inv'
<1>1. PICK w \in Workers : p \in DOMAIN work /\ w = work[p] /\ w.pc = "row" /\ w.todo # <<>>
  BY DEF TypeOK, Look
<1>2. PICK item \in Items : item = Head(w.todo) /\ item = w.todo[1] /\ 1 \in DOMAIN w.todo
  BY <1>1, TailIs DEF Workers
<1>3. UNCHANGED <<links, promos, imported, assoc, taken, imports, events>>
  BY DEF Look, library
<1>4. CASE p # Sweep /\ imports[p].dup = None
  <2>. DEFINE old == RowOf(Head(work[p].todo).identity)
              there == IF old = {} THEN None ELSE CHOOSE r \in old : TRUE
              seen == IF there = None THEN None ELSE rows[there].status
              y == [w EXCEPT !.pc = "store", !.row = there, !.seen = seen]
  <2>1. work' = [work EXCEPT ![p] = y] /\ UNCHANGED <<rows, sources>>
    <3>1. /\ work' = [work EXCEPT ![p].pc = "store", ![p].row = there, ![p].seen = seen]
          /\ UNCHANGED <<rows, sources>>
      BY <1>4 DEF Look
    <3>. HIDE DEF there, seen
    <3>. QED
      BY <1>1, <3>1
  <2>2. there = None \/ there \in RowOf(item.identity)
    BY <1>1, <1>2
  <2>. HIDE DEF there
  <2>3. there = None \/ (there \in DOMAIN rows /\ there \in Nat /\ rows[there] \in Entries /\ rows[there].identity = item.identity)
    BY <2>2 DEF RowOf, Rows, TypeOK, PoolOK
  <2>4. there \in Nat \union {None} /\ seen \in {"matched_feature", "unmatched_pool", None}
    BY <2>3 DEF Entries
  <2>. HIDE DEF seen
  <2>5. /\ y \in Workers /\ y.pc = "store" /\ y.row = there /\ y.feature = w.feature /\ y.todo = w.todo
    BY <2>4 DEF Workers, Points
  <2>. HIDE DEF y
  <2>6. Keeps /\ Made' /\ Single' /\ PoolOK'
    BY <1>3, <2>1, RowsKeep DEF TypeOK, PoolOK
  <2>7. there = None \/ Holds(there, item.identity, rows', taken')
    BY <2>1, <2>2 DEF RowOf, Rows, Holds
  <2>8. Held(y, rows', taken', imported')
    BY <1>1, <1>2, <2>5, <2>7 DEF Held
  <2>9. PICK k : k = item.identity
    OBVIOUS
  <2>. QED
    BY <1>1, <1>2, <1>3, <1>4, <2>1, <2>5, <2>6, <2>8, <2>9, Turn
<1>5. CASE p = Sweep \/ imports[p].dup # None
  <2>. DEFINE r == item.row
  <2>1. Holds(r, item.identity, rows, taken)
    BY <1>1, <1>2, <1>5 DEF Inv, Working, Given
  <2>2. /\ rows' = IF p = Sweep /\ r \in Rows THEN [rows EXCEPT ![r].needs = FALSE] ELSE rows
        /\ sources' = IF p = Sweep THEN sources ELSE sources \union {<<r, p>>}
        /\ Goes(p, r)
    BY <1>1, <1>2, <1>5 DEF Look
  <2>3. r \in DOMAIN rows /\ r \in Nat
    BY <2>1 DEF Holds, TypeOK, PoolOK
  <2>4. /\ rows' \in Seq(Entries \union {None}) /\ DOMAIN rows' = DOMAIN rows
        /\ \A q \in DOMAIN rows : /\ rows[q] = None => rows'[q] = None
                                  /\ rows[q] # None => rows'[q] # None /\ rows'[q].identity = rows[q].identity
    <3>1. CASE rows' = rows
      BY <3>1 DEF TypeOK, PoolOK
    <3>2. CASE r \in Rows /\ rows' = [rows EXCEPT ![r].needs = FALSE]
      <4>1. rows[r] \in Entries /\ rows \in Seq(Entries \union {None})
        BY <2>3, <3>2 DEF Rows, TypeOK, PoolOK
      <4>2. PICK e : e = [rows[r] EXCEPT !.needs = FALSE]
        OBVIOUS
      <4>3. e \in Entries /\ e.identity = rows[r].identity
        BY <4>1, <4>2 DEF Entries
      <4>4. rows' = [rows EXCEPT ![r] = e]
        BY <3>2, <4>2
      <4>5. e # None
        BY <4>3, ImportsAssumption
      <4>6. /\ rows' \in Seq(Entries \union {None}) /\ DOMAIN rows' = DOMAIN rows
            /\ \A q \in DOMAIN rows : rows'[q] = IF q = r THEN e ELSE rows[q]
        BY <2>3, <4>1, <4>3, <4>4, Overwritten
      <4>. QED
        BY <3>2, <4>3, <4>5, <4>6 DEF Rows
    <3>. QED
      BY <2>2, <3>1, <3>2
  <2>5. sources' \subseteq (DOMAIN rows') \X (DOMAIN imports') /\ sources \subseteq sources'
    BY <1>1, <1>3, <2>2, <2>3, <2>4 DEF TypeOK, PoolOK
  <2>6. PoolOK'
    BY <1>3, <2>4, <2>5 DEF TypeOK, PoolOK
  <2>7. Keeps /\ Made' /\ Single'
    BY <1>3, <2>4, <2>5, RowsKeep
  <2>8. Holds(r, item.identity, rows', taken')
    BY <2>1, <2>7, HoldsKept
  <2>9. PICK k, row : k = item.identity /\ row = r
    OBVIOUS
  <2>10. (p # Sweep => <<row, p>> \in sources') /\ \A s \in sources' : s \in sources \/ s[2] = p
    BY <2>2, <2>9
  <2>11. p \in DOMAIN work /\ work[p].todo # <<>> /\ k = Head(work[p].todo).identity
    BY <1>1, <1>2, <2>9
  <2>12. row \in Nat /\ Goes(p, row) /\ Holds(row, k, rows', taken')
    BY <2>2, <2>3, <2>8, <2>9
  <2>. QED
    BY <1>3, <2>6, <2>7, <2>10, <2>11, <2>12, GoesOn
<1>. QED
  BY <1>4, <1>5

LEMMA StoreStep ==
  ASSUME TypeOK, Inv, NEW p, Store(p)
  PROVE  (TypeOK' /\ Inv') \/ (work' = Without(p) /\ UNCHANGED <<rows, sources>>)
<1>1. PICK w \in Workers : p \in DOMAIN work /\ w = work[p] /\ w.pc = "store"
  BY DEF TypeOK, Store
<1>2. p # Sweep /\ w.todo # <<>> /\ (w.row = None \/ Holds(w.row, Head(w.todo).identity, rows, taken))
  BY <1>1 DEF Inv, Working, Held
<1>3. PICK k \in Identities : k = Head(w.todo).identity
  <2>1. w.todo \in Seq(Items)
    BY DEF Workers
  <2>2. Head(w.todo) \in Items
    BY <1>2, <2>1, TailIs
  <2>. QED
    BY <2>2 DEF Items
<1>4. UNCHANGED <<links, promos, imported, assoc, taken, imports, events>>
  BY DEF Store, library
<1>5. rows \in Seq(Entries \union {None}) /\ p \in DOMAIN imports
  BY <1>1, <1>2 DEF TypeOK, PoolOK
<1>6. ASSUME NEW e, e = Row(k, Promotes(p, k)) PROVE e \in Entries /\ e.identity = k
  BY <1>6 DEF Row, Entries
<1>7. ASSUME NEW r \in Nat, r \in DOMAIN rows', sources' = sources \union {<<r, p>>}, Goes(p, r),
             rows' \in Seq(Entries \union {None}), Holds(r, k, rows', taken'),
             \A q \in DOMAIN rows : /\ q \in DOMAIN rows' /\ (rows[q] = None => rows'[q] = None)
                                    /\ rows[q] # None => rows'[q] # None /\ rows'[q].identity = rows[q].identity
      PROVE  TypeOK' /\ Inv'
  <2>1. Keeps /\ Made' /\ Single'
    BY <1>4, <1>7, RowsKeep
  <2>2. PoolOK'
    BY <1>4, <1>5, <1>7 DEF TypeOK, PoolOK
  <2>3. (p # Sweep => <<r, p>> \in sources') /\ \A s \in sources' : s \in sources \/ s[2] = p
    BY <1>7
  <2>. QED
    BY <1>1, <1>2, <1>3, <1>4, <1>7, <2>1, <2>2, <2>3, GoesOn
<1>8. CASE /\ w.row = None /\ rows' = Append(rows, Row(k, Promotes(p, k)))
           /\ sources' = sources \union {<<Len(rows) + 1, p>>} /\ Goes(p, Len(rows) + 1)
  <2>1. PICK e, r : e = Row(k, Promotes(p, k)) /\ r = Len(rows) + 1
    OBVIOUS
  <2>2. e \in Entries /\ e.identity = k /\ e # None
    BY <1>6, <2>1, ImportsAssumption
  <2>3. rows' = Append(rows, e)
    BY <1>8, <2>1
  <2>4. /\ rows' \in Seq(Entries \union {None}) /\ r \in Nat /\ r \in DOMAIN rows' /\ rows'[r] = e
        /\ \A q \in DOMAIN rows : q \in DOMAIN rows' /\ rows'[q] = rows[q]
    BY <1>5, <2>1, <2>2, <2>3
  <2>5. Holds(r, k, rows', taken')
    BY <2>2, <2>4 DEF Holds
  <2>. QED
    BY <1>7, <1>8, <2>1, <2>4, <2>5
<1>9. CASE /\ w.row # None /\ sources' = sources \union {<<w.row, p>>} /\ Goes(p, w.row)
           /\ rows' = IF w.row \in Rows
                      THEN [rows EXCEPT ![w.row] = [Row(k, Promotes(p, k)) EXCEPT !.status = Status(w.seen, @)]] ELSE rows
  <2>1. PICK e, r : e = [Row(k, Promotes(p, k)) EXCEPT !.status = Status(w.seen, @)] /\ r = w.row
    OBVIOUS
  <2>2. e \in Entries /\ e.identity = k /\ e # None
    <3>1. e \in Entries /\ e.identity = k
      BY <2>1 DEF Row, Entries, Status
    <3>. QED
      BY <3>1, ImportsAssumption
  <2>3. Holds(r, k, rows, taken) /\ r \in DOMAIN rows /\ r \in Nat
    BY <1>2, <1>3, <1>5, <1>9, <2>1 DEF Holds
  <2>4. rows' = IF rows[r] # None THEN [rows EXCEPT ![r] = e] ELSE rows
    BY <1>9, <2>1, <2>3 DEF Rows
  <2>5. /\ rows' \in Seq(Entries \union {None}) /\ DOMAIN rows' = DOMAIN rows
        /\ \A q \in DOMAIN rows : rows'[q] = IF q = r /\ rows[r] # None THEN e ELSE rows[q]
    <3>1. CASE rows[r] # None
      BY <1>5, <2>2, <2>3, <2>4, <3>1, Overwritten
    <3>2. CASE rows[r] = None
      BY <1>5, <2>4, <3>2
    <3>. QED
      BY <3>1, <3>2
  <2>6. /\ Holds(r, k, rows', taken')
        /\ \A q \in DOMAIN rows : /\ rows[q] = None => rows'[q] = None
                                  /\ rows[q] # None => rows'[q] # None /\ rows'[q].identity = rows[q].identity
    BY <1>4, <2>2, <2>3, <2>5 DEF Holds
  <2>. QED
    BY <1>7, <1>9, <2>1, <2>3, <2>5, <2>6
<1>10. w.row = None /\ RowOf(k) # {} => work' = Without(p) /\ UNCHANGED <<rows, sources>>
  BY <1>1, <1>3 DEF Store
<1>. QED
  BY <1>1, <1>3, <1>8, <1>9, <1>10 DEF Store

-----------------------------------------------------------------------------
(* A worker ends                                                           *)

LEMMA Ends ==
  ASSUME TypeOK, Inv, NEW p \in DOMAIN work, work' = Without(p),
         UNCHANGED <<rows, sources, links, promos, imported, assoc, taken, events>>,
         \/ UNCHANGED imports
         \/ /\ p # Sweep
            /\ \E s \in Statuses : /\ imports' = [imports EXCEPT ![p].status = s]
                                   /\ s = "COMPLETED" => imports[p].kept = {} \/ work[p].todo = <<>>
  PROVE  TypeOK' /\ Inv'
<1>1. DOMAIN work' = DOMAIN work \ {p} /\ \A q \in DOMAIN work' : work'[q] = work[q]
  BY DEF Without
<1>2. work' \in [DOMAIN work' -> Workers]
  BY <1>1 DEF Without, TypeOK
<1>3. Keeps /\ Made' /\ Single'
  BY RowsKeep
<1>4. p \in DOMAIN imports \union {Sweep} /\ imports \in Seq(Uploads) /\ Sweep \notin DOMAIN imports
  BY ImportsAssumption DEF TypeOK
<1>5. CASE UNCHANGED imports
  <2>1. TypeOK'
    BY <1>1, <1>2, <1>5 DEF TypeOK, PoolOK
  <2>2. Apart(p)
    BY <1>1, <1>5 DEF Apart, Kin
  <2>3. p \in DOMAIN imports => imports[p].status # "COMPLETED"
    BY DEF Inv, Importing, Serving
  <2>4. p \in DOMAIN imports' => ProgressAt(p)'
    BY <1>1, <1>5, <2>3 DEF ProgressAt
  <2>. QED
    BY <1>1, <1>3, <2>1, <2>2, <2>4, Stepped
<1>6. ASSUME p # Sweep, NEW s \in Statuses, imports' = [imports EXCEPT ![p].status = s],
             s = "COMPLETED" => imports[p].kept = {} \/ work[p].todo = <<>>
      PROVE  TypeOK' /\ Inv'
  <2>0. PICK u \in Uploads : p \in DOMAIN imports /\ u = imports[p]
    BY <1>4, <1>6
  <2>1. PICK d : d = [u EXCEPT !.status = s]
    OBVIOUS
  <2>2. /\ d \in Uploads /\ p \in DOMAIN imports /\ d.kept = imports[p].kept /\ d.feature = imports[p].feature
        /\ d.status = s /\ d.dup = imports[p].dup
    BY <2>0, <2>1 DEF Uploads
  <2>3. imports' = [imports EXCEPT ![p] = d]
    BY <1>6, <2>0, <2>1
  <2>4. /\ imports' \in Seq(Uploads) /\ DOMAIN imports' = DOMAIN imports
        /\ imports'[p] = d /\ \A j \in DOMAIN imports \ {p} : imports'[j] = imports[j]
    BY <1>4, <2>2, <2>3, Overwritten
  <2>5. TypeOK'
    BY <1>1, <1>2, <2>4 DEF TypeOK, PoolOK
  <2>6. Apart(p)
    BY <1>1, <2>4 DEF Apart, Kin
  <2>8. s = "COMPLETED" => \A h \in d.kept : ~Waits(work[p], h)
    BY <1>6, <2>2 DEF Waits
  <2>9. ASSUME s = "COMPLETED", NEW h \in d.kept, d.dup = None
        PROVE  Placed(p, h, d.feature)'
    <3>1. Placed(p, h, imports[p].feature)
      BY <2>2, <2>8, <2>9 DEF Inv, Progress
    <3>2. PICK f : f = imports[p].feature /\ f = d.feature
      BY <2>2
    <3>3. Placed(p, h, f)'
      BY <1>3, <3>1, <3>2, PlacedKept
    <3>. QED
      BY <3>2, <3>3 DEF Placed
  <2>10. ProgressAt(p)'
    BY <1>1, <2>2, <2>4, <2>9 DEF ProgressAt, Placed
  <2>. QED
    BY <1>1, <1>3, <2>5, <2>6, <2>10, Stepped
<1>. QED
  BY <1>5, <1>6

LEMMA FinishStep ==
  ASSUME TypeOK, Inv, NEW p, Finish(p)
  PROVE  TypeOK' /\ Inv'
<1>1. /\ p \in DOMAIN work /\ work[p].todo = <<>> /\ work' = Without(p)
      /\ UNCHANGED <<rows, sources, links, promos, imported, assoc, taken, events>>
      /\ UNCHANGED imports \/ (p # Sweep /\ imports' = [imports EXCEPT ![p].status = "COMPLETED"])
  BY DEF Finish, library
<1>. QED
  BY <1>1, Ends DEF Statuses

LEMMA StoreKeeps ==
  ASSUME TypeOK, Inv, NEW p, Store(p)
  PROVE  TypeOK' /\ Inv'
<1>1. p \in DOMAIN work /\ UNCHANGED <<links, promos, imported, assoc, taken, imports, events>>
  BY DEF Store, library
<1>2. CASE work' = Without(p) /\ UNCHANGED <<rows, sources>>
  BY <1>1, <1>2, Ends
<1>. QED
  BY <1>2, StoreStep

-----------------------------------------------------------------------------
(* A worker starts on rows                                                 *)

LEMMA Starts ==
  ASSUME TypeOK, Inv, UNCHANGED <<rows, sources, links, promos, imported, assoc, taken, events>>,
         NEW p \in DOMAIN work, p # Sweep, NEW d \in Uploads, imports' = [imports EXCEPT ![p] = d],
         NEW y \in Workers, work' = [work EXCEPT ![p] = y],
         y.feature = work[p].feature, d.feature = imports[p].feature, d.status # "COMPLETED", y.pc \in {"signed", "row"},
         y.pc = "signed" => d.kept = {} /\ d.dup = None /\ d.file # None /\ \A s \in sources : s[2] # p,
         d.dup # None => Given(y, rows, taken),
         d.dup = None => \A h \in d.kept : Waits(y, h)
  PROVE  TypeOK' /\ Inv'
<1>1. /\ DOMAIN work' = DOMAIN work /\ work' \in [DOMAIN work' -> Workers]
      /\ work'[p] = y /\ \A q \in DOMAIN work \ {p} : work'[q] = work[q]
  BY WorkIs
<1>2. p \in DOMAIN imports /\ imports \in Seq(Uploads)
  BY DEF TypeOK
<1>3. /\ imports' \in Seq(Uploads) /\ DOMAIN imports' = DOMAIN imports
      /\ imports'[p] = d /\ \A j \in DOMAIN imports \ {p} : imports'[j] = imports[j]
  BY <1>2, Overwritten
<1>4. TypeOK'
  BY <1>1, <1>3 DEF TypeOK, PoolOK
<1>5. Keeps /\ Made' /\ Single'
  BY RowsKeep
<1>6. Apart(p)
  BY <1>1, <1>3 DEF Apart, Kin
<1>7. WorkingAt(p)'
  <2>1. Held(y, rows', taken', imported')
    BY DEF Held
  <2>2. d.dup # None => Given(y, rows', taken')
    BY DEF Given, Holds, Gone
  <2>. QED
    BY <1>1, <1>3, <2>1, <2>2 DEF WorkingAt
<1>8. imports[p].feature \in {work[p].feature, None}
  BY <1>2 DEF Inv, Importing, Serving
<1>9. Serving(p, imports'[p], work'[p], sources', taken')
  BY <1>1, <1>3, <1>8 DEF Serving
<1>10. ProgressAt(p)'
  BY <1>1, <1>3 DEF ProgressAt, Waits
<1>. QED
  BY <1>4, <1>5, <1>6, <1>7, <1>9, <1>10, Stepped

\* The list of some rows of the pool.
LEMMA ListedIs ==
  ASSUME TypeOK, NEW S \in SUBSET Rows, NEW list, list = SetToSeq(S),
         NEW todo, todo = [n \in DOMAIN list |-> Item(list[n], rows[list[n]].identity)]
  PROVE  todo \in Seq(Items) /\ \A n \in DOMAIN todo : Holds(todo[n].row, todo[n].identity, rows, taken)
<1>1. rows \in Seq(Entries \union {None}) /\ S \subseteq 1 .. Len(rows) /\ Len(rows) \in Nat
  BY DEF TypeOK, PoolOK, Rows
<1>2. IsFiniteSet(S)
  <2>1. IsFiniteSet(1 .. Len(rows))
    BY <1>1, FS_Interval
  <2>. QED
    BY <1>1, <2>1, FS_Subset
<1>3. PICK k \in Nat : list \in [1 .. k -> S]
  BY <1>2, Numbering
<1>4. \A r \in S : r \in Nat /\ r \in DOMAIN rows /\ rows[r] # None /\ rows[r] \in Entries
  BY <1>1 DEF Rows
<1>5. \A r \in S : Item(r, rows[r].identity) \in Items
  BY <1>4 DEF Item, Items, Entries
<1>6. todo \in [1 .. k -> Items]
  BY <1>3, <1>5
<1>7. todo \in Seq(Items)
  BY <1>6, SequenceIs
<1>8. \A n \in DOMAIN todo : Holds(todo[n].row, todo[n].identity, rows, taken)
  BY <1>3, <1>4 DEF Holds, Item
<1>. QED
  BY <1>7, <1>8

LEMMA ReuseStep ==
  ASSUME TypeOK, Inv, NEW i \in DOMAIN work, i # Sweep, NEW other \in Nat, Reuse(i, other),
         UNCHANGED <<rows, sources, links, promos, imported, assoc, taken, events>>
  PROVE  TypeOK' /\ Inv'
<1>1. PICK u \in Uploads : i \in DOMAIN imports /\ u = imports[i]
  BY DEF TypeOK
<1>2. PICK w \in Workers : w = work[i]
  BY DEF TypeOK
<1>. DEFINE list == RowsFrom(other)
            todo == [n \in DOMAIN list |-> Item(list[n], rows[list[n]].identity)]
<1>4. /\ imports' = [imports EXCEPT ![i] = [u EXCEPT !.status = "PROCESSING", !.dup = other]]
      /\ work' = [work EXCEPT ![i] = [w EXCEPT !.pc = "row", !.todo = todo]]
  <2>1. /\ imports' = [imports EXCEPT ![i].status = "PROCESSING", ![i].dup = other]
        /\ work' = [work EXCEPT ![i].pc = "row", ![i].todo = todo]
    BY Zenon DEF Reuse
  <2>. HIDE DEF todo
  <2>. QED
    BY <1>1, <1>2, <2>1
<1>5. todo \in Seq(Items) /\ \A n \in DOMAIN todo : Holds(todo[n].row, todo[n].identity, rows, taken)
  <2>1. {r \in Rows : <<r, other>> \in sources} \in SUBSET Rows
    OBVIOUS
  <2>. QED
    BY <2>1, ListedIs, Zenon DEF RowsFrom
<1>. HIDE DEF todo
<1>6. PICK d, y : d = [u EXCEPT !.status = "PROCESSING", !.dup = other] /\ y = [w EXCEPT !.pc = "row", !.todo = todo]
  OBVIOUS
<1>7. d \in Uploads /\ d.feature = u.feature /\ d.status # "COMPLETED" /\ d.dup # None
  BY <1>6, ImportsAssumption DEF Uploads, Statuses
<1>8. y \in Workers /\ y.feature = w.feature /\ y.pc = "row" /\ y.todo = todo
  BY <1>5, <1>6 DEF Workers, Points
<1>9. Given(y, rows, taken)
  BY <1>5, <1>8 DEF Given
<1>. QED
  BY <1>1, <1>2, <1>4, <1>6, <1>7, <1>8, <1>9, Starts

LEMMA SimilarIs ==
  ASSUME TypeOK, NEW S \in SUBSET DOMAIN imports
  PROVE  Similar(S) \in Nat \union {None}
<1>1. Len(imports) \in Nat /\ S \subseteq 1 .. Len(imports)
  BY DEF TypeOK
<1>2. IsFiniteSet(S) /\ S \in SUBSET Nat
  <2>1. IsFiniteSet(1 .. Len(imports))
    BY <1>1, FS_Interval
  <2>. QED
    BY <1>1, <2>1, FS_Subset
<1>. QED
  BY <1>2, MaxIs DEF Similar

LEMMA StartStep ==
  ASSUME TypeOK, Inv, NEW i, StartImport(i)
  PROVE  TypeOK' /\ Inv'
<1>1. i \in DOMAIN work /\ i # Sweep /\ UNCHANGED <<rows, sources, links, promos, imported, assoc, taken, events>>
  BY DEF StartImport, library
<1>2. PICK u \in Uploads, w \in Workers : i \in DOMAIN imports /\ u = imports[i] /\ w = work[i] /\ w.pc = "start"
  BY <1>1 DEF TypeOK, StartImport
<1>3. CASE u.dup # None /\ Reuse(i, u.dup)
  <2>1. PICK other : other = u.dup
    OBVIOUS
  <2>2. other \in Nat /\ Reuse(i, other)
    BY <1>3, <2>1 DEF Uploads
  <2>. QED
    BY <1>1, <2>2, ReuseStep
<1>4. CASE /\ u.dup = None /\ work' = [work EXCEPT ![i].pc = "signed"]
           /\ imports' = [imports EXCEPT ![i].status = "PROCESSING", ![i].signed = TRUE]
  <2>1. PICK d, y : d = [u EXCEPT !.status = "PROCESSING", !.signed = TRUE] /\ y = [w EXCEPT !.pc = "signed"]
    OBVIOUS
  <2>2. /\ d \in Uploads /\ d.feature = u.feature /\ d.file = u.file /\ d.kept = u.kept /\ d.dup = u.dup
        /\ d.status # "COMPLETED"
    BY <2>1 DEF Uploads, Statuses
  <2>3. y \in Workers /\ y.pc = "signed" /\ y.feature = w.feature
    BY <2>1 DEF Workers, Points
  <2>4. imports' = [imports EXCEPT ![i] = d] /\ work' = [work EXCEPT ![i] = y]
    BY <1>2, <1>4, <2>1
  <2>5. d.kept = {} /\ d.file # None /\ d.dup = None /\ \A s \in sources : s[2] # i
    <3>1. Serving(i, u, w, sources, taken)
      BY <1>1, <1>2 DEF Inv, Importing
    <3>. QED
      BY <1>2, <1>4, <2>2, <3>1 DEF Serving
  <2>. QED
    BY <1>1, <1>2, <2>2, <2>3, <2>4, <2>5, Starts
<1>5. CASE imports' = [imports EXCEPT ![i].status = "FAILED"] /\ work' = Without(i)
  <2>1. PICK s \in Statuses : s = "FAILED"
    BY DEF Statuses
  <2>2. imports' = [imports EXCEPT ![i].status = s] /\ s # "COMPLETED"
    BY <1>5, <2>1
  <2>. QED
    BY <1>1, <1>5, <2>2, Ends
<1>. QED
  BY <1>2, <1>3, <1>4, <1>5 DEF StartImport

LEMMA ClassifyStep ==
  ASSUME TypeOK, Inv, NEW i, Classify(i)
  PROVE  TypeOK' /\ Inv'
<1>1. i \in DOMAIN work /\ i # Sweep /\ UNCHANGED <<rows, sources, links, promos, imported, assoc, taken, events>>
  BY ZenonT(30) DEF Classify, library
<1>2. PICK u \in Uploads, w \in Workers : i \in DOMAIN imports /\ u = imports[i] /\ w = work[i] /\ w.pc = "signed"
  <2>1. work[i].pc = "signed"
    BY Zenon DEF Classify
  <2>. QED
    BY <1>1, <2>1 DEF TypeOK
<1>3. u.kept = {} /\ u.dup = None /\ u.file # None
  BY <1>1, <1>2 DEF Inv, Importing, Serving
<1>. DEFINE content == Content[imports[i].file]
            other == Similar({j \in DOMAIN imports \ {i} : imports[j].signed /\ Content[imports[j].file] = content})
<1>4. content \in Seq(Identities)
  BY <1>2, <1>3, ImportsAssumption DEF Uploads
<1>5. /\ other \in Nat \union {None}
      /\ IF other # None THEN Reuse(i, other)
         ELSE \/ imports' = [imports EXCEPT ![i].status = "COMPLETED"] /\ work' = Without(i)
              \/ \E n \in 0 .. Len(content) : \E at \in [1 .. n -> DOMAIN content] :
                    /\ imports' = [imports EXCEPT ![i].kept = {content[at[k]] : k \in 1 .. n}]
                    /\ work' = [work EXCEPT ![i].pc = "row", ![i].todo = [k \in 1 .. n |-> Item(None, content[at[k]])]]
  BY SimilarIs, ZenonT(30) DEF Classify
<1>. HIDE DEF content, other
<1>6. CASE imports' = [imports EXCEPT ![i].status = "COMPLETED"] /\ work' = Without(i)
  BY <1>1, <1>2, <1>3, <1>6, Ends DEF Statuses
<1>7. ASSUME NEW n \in 0 .. Len(content), NEW at \in [1 .. n -> DOMAIN content],
             imports' = [imports EXCEPT ![i].kept = {content[at[k]] : k \in 1 .. n}],
             work' = [work EXCEPT ![i].pc = "row", ![i].todo = [k \in 1 .. n |-> Item(None, content[at[k]])]]
      PROVE  TypeOK' /\ Inv'
  <2>1. PICK kept, todo : kept = {content[at[k]] : k \in 1 .. n} /\ todo = [k \in 1 .. n |-> Item(None, content[at[k]])]
    OBVIOUS
  <2>2. PICK d, y : d = [u EXCEPT !.kept = kept] /\ y = [w EXCEPT !.pc = "row", !.todo = todo]
    OBVIOUS
  <2>3. imports' = [imports EXCEPT ![i] = d] /\ work' = [work EXCEPT ![i] = y]
    BY <1>2, <1>7, <2>1, <2>2
  <2>4. n \in Nat /\ \A k \in 1 .. n : content[at[k]] \in Identities
    BY <1>4
  <2>5. kept \subseteq Identities
    BY <2>1, <2>4
  <2>6. \A k \in 1 .. n : Item(None, content[at[k]]) \in Items
    BY <2>4 DEF Item, Items
  <2>7. todo \in Seq(Items)
    BY <2>1, <2>4, <2>6, SequenceIs
  <2>8. \A h \in kept : \E k \in DOMAIN todo : todo[k].identity = h
    BY <2>1 DEF Item
  <2>9. /\ d \in Uploads /\ d.kept = kept /\ d.feature = u.feature /\ d.dup = None /\ d.status = u.status
    BY <1>3, <2>2, <2>5 DEF Uploads
  <2>10. y \in Workers /\ y.pc = "row" /\ y.todo = todo /\ y.feature = w.feature
    BY <2>2, <2>7 DEF Workers, Points
  <2>11. u.status # "COMPLETED"
    BY <1>1, <1>2 DEF Inv, Importing, Serving
  <2>12. \A h \in d.kept : Waits(y, h)
    BY <2>8, <2>9, <2>10 DEF Waits
  <2>. QED
    BY <1>1, <1>2, <2>3, <2>9, <2>10, <2>11, <2>12, Starts
<1>8. CASE other # None
  BY <1>1, <1>5, <1>8, ReuseStep
<1>. QED
  BY <1>5, <1>6, <1>7, <1>8

LEMMA RescanStep ==
  ASSUME TypeOK, Inv, NEW f \in Features, _rescan_pool_for_feature(f)
  PROVE  TypeOK' /\ Inv'
<1>. DEFINE S == {r \in Rows : <<r, f>> \notin links}
            list == SetToSeq(S)
            todo == [n \in DOMAIN list |-> Item(list[n], rows[list[n]].identity)]
            y == Worker("row", f, todo)
<1>1. /\ Sweep \notin DOMAIN work /\ UNCHANGED <<imports, rows, sources, links, promos, imported, assoc, taken>>
      /\ events' = events + 1
      /\ work' = [p \in DOMAIN work \union {Sweep} |-> IF p = Sweep THEN y ELSE work[p]]
  BY ZenonT(30) DEF _rescan_pool_for_feature, library, Event
<1>2. todo \in Seq(Items) /\ \A n \in DOMAIN todo : Holds(todo[n].row, todo[n].identity, rows, taken)
  BY ListedIs, Zenon
<1>. HIDE DEF todo
<1>3. y \in Workers /\ y.pc = "row" /\ y.todo = todo
  BY <1>2 DEF Worker, Workers, Points
<1>. HIDE DEF y
<1>4. /\ DOMAIN work' = DOMAIN work \union {Sweep} /\ work' \in [DOMAIN work' -> Workers]
      /\ work'[Sweep] = y /\ \A q \in DOMAIN work : work'[q] = work[q]
  BY <1>1, <1>3 DEF TypeOK
<1>5. TypeOK'
  BY <1>1, <1>4 DEF TypeOK, PoolOK
<1>6. Keeps /\ Made' /\ Single'
  BY <1>1, RowsKeep
<1>7. Apart(Sweep)
  BY <1>1, <1>4 DEF Apart, Kin
<1>8. Held(y, rows', taken', imported') /\ Given(y, rows', taken')
  BY <1>1, <1>2, <1>3 DEF Held, Given
<1>9. WorkingAt(Sweep)'
  BY <1>3, <1>4, <1>8 DEF WorkingAt
<1>10. Sweep \notin DOMAIN imports'
  BY <1>5, ImportsAssumption DEF TypeOK
<1>. QED
  BY <1>5, <1>6, <1>7, <1>9, <1>10, Stepped

LEMMA UploadStep ==
  ASSUME TypeOK, Inv, NEW f \in Features, NEW file \in DOMAIN Content, upload_test_sheet(f, file)
  PROVE  TypeOK' /\ Inv'
<1>1. PICK p, d, y :
         /\ p = Len(imports) + 1 /\ y = Worker("start", f, <<>>)
         /\ d = [feature |-> f, file |-> file, status |-> "PENDING", kept |-> {}, signed |-> FALSE,
                 dup |-> Similar({i \in DOMAIN imports : imports[i].file = file})]
  OBVIOUS
<1>2. /\ imports' = Append(imports, d)
      /\ work' = [q \in DOMAIN work \union {p} |-> IF q = p THEN y ELSE work[q]]
      /\ UNCHANGED <<rows, sources, links, promos, imported, assoc, taken, events>>
  BY <1>1, ZenonT(30) DEF upload_test_sheet, library
<1>3. Similar({i \in DOMAIN imports : imports[i].file = file}) \in Nat \union {None}
  BY SimilarIs
<1>4. /\ d \in Uploads /\ d.kept = {} /\ d.feature = f /\ d.file = file /\ d.status = "PENDING"
  BY <1>1, <1>3 DEF Uploads, Statuses
<1>5. y \in Workers /\ y.pc = "start" /\ y.feature = f /\ y.todo = <<>>
  BY <1>1 DEF Worker, Workers, Points
<1>6. /\ imports' \in Seq(Uploads) /\ DOMAIN imports' = DOMAIN imports \union {p} /\ imports'[p] = d
      /\ \A i \in DOMAIN imports : imports'[i] = imports[i]
      /\ p \in Nat /\ p \notin DOMAIN imports /\ p # Sweep
  BY <1>1, <1>2, <1>4, ImportsAssumption DEF TypeOK
<1>7. /\ DOMAIN work' = DOMAIN work \union {p} /\ work' \in [DOMAIN work' -> Workers]
      /\ work'[p] = y /\ \A q \in DOMAIN work \ {p} : work'[q] = work[q]
  BY <1>2, <1>5 DEF TypeOK
<1>8. TypeOK'
  BY <1>2, <1>6, <1>7 DEF TypeOK, PoolOK
<1>9. Keeps /\ Made' /\ Single'
  BY <1>2, RowsKeep
<1>10. Apart(p)
  BY <1>2, <1>6, <1>7 DEF Apart, Kin
<1>11. Held(y, rows', taken', imported') /\ Given(y, rows', taken')
  BY <1>5 DEF Held, Given
<1>12. WorkingAt(p)'
  BY <1>5, <1>6, <1>7, <1>11 DEF WorkingAt
<1>13. \A s \in sources : s[2] # p
  BY <1>6 DEF TypeOK, PoolOK
<1>14. file # None
  BY ImportsAssumption
<1>15. Serving(p, imports'[p], work'[p], sources', taken')
  BY <1>2, <1>4, <1>5, <1>6, <1>7, <1>13, <1>14 DEF Serving
<1>16. ProgressAt(p)'
  BY <1>4, <1>6 DEF ProgressAt
<1>. QED
  BY <1>8, <1>9, <1>10, <1>12, <1>15, <1>16, Stepped

-----------------------------------------------------------------------------
(* Requests, and the end of the process                                    *)

LEMMA Requested ==
  ASSUME TypeOK, Inv, PoolOK', Keeps, Made', Single', imports' \in Seq(Uploads), events' \in Nat,
         DOMAIN imports' = DOMAIN imports, \A i \in DOMAIN imports : Kin(i), sources' \subseteq sources,
         UNCHANGED work \/ work' = [p \in {} |-> None]
  PROVE  TypeOK' /\ Inv'
<1>1. /\ DOMAIN work' \subseteq DOMAIN work /\ \A q \in DOMAIN work' : work'[q] = work[q]
      /\ work' \in [DOMAIN work' -> Workers]
  BY DEF TypeOK
<1>2. TypeOK'
  BY <1>1 DEF TypeOK
<1>3. None \notin DOMAIN imports' /\ None \notin DOMAIN work'
  BY <1>2, ImportsAssumption DEF TypeOK
<1>4. Apart(None)
  BY <1>1 DEF Apart
<1>. QED
  BY <1>2, <1>3, <1>4, Stepped

LEMMA CrashStep ==
  ASSUME TypeOK, Inv, Crash
  PROVE  TypeOK' /\ Inv'
<1>1. /\ UNCHANGED <<imports, rows, sources, links, promos, imported, assoc, taken>>
      /\ work' = [p \in {} |-> None] /\ events' = events + 1
  BY DEF Crash, library, Event
<1>2. Keeps /\ Made' /\ Single'
  BY <1>1, RowsKeep
<1>3. PoolOK' /\ events' \in Nat /\ imports' \in Seq(Uploads) /\ \A i \in DOMAIN imports : Kin(i)
  BY <1>1 DEF TypeOK, PoolOK, Kin
<1>. QED
  BY <1>1, <1>2, <1>3, Requested

LEMMA AddStep ==
  ASSUME TypeOK, Inv, NEW row \in Rows, NEW f \in Features, events' = events + 1,
         \E found \in Found(row, f, rows[row].identity) : Promoted(row, f, rows[row].identity, found),
         UNCHANGED <<imports, sources, work, taken>>
  PROVE  TypeOK' /\ Inv'
<1>1. row \in DOMAIN rows /\ rows[row] # None /\ rows[row] \in Entries
  BY DEF Rows, TypeOK, PoolOK
<1>2. PICK h \in Identities : h = rows[row].identity
  BY <1>1 DEF Entries
<1>3. PICK found \in Found(row, f, h) : Promoted(row, f, h, found)
  BY <1>2
<1>4. Holds(row, h, rows, taken)
  BY <1>1, <1>2 DEF Holds
<1>5. found \in (DOMAIN imported) \union {None} /\ (found = None \/ Serves(row, h, found, rows, taken, imported))
  BY <1>4, FoundServes DEF Serves
<1>6. Keeps /\ Made' /\ Single'
  BY <1>1, <1>3, <1>4, <1>5, PromotedKeeps
<1>7. Promotion(row, f, h, found)
  BY <1>1, <1>3, <1>5, PromotedTypes
<1>8. PoolOK'
  BY <1>1, <1>7, PromotedPool
<1>9. events' \in Nat /\ imports' \in Seq(Uploads) /\ \A i \in DOMAIN imports : Kin(i)
  BY DEF TypeOK, Kin
<1>. QED
  BY <1>6, <1>8, <1>9, Requested

LEMMA UnlinkStep ==
  ASSUME TypeOK, Inv, NEW row \in Rows, NEW f \in Features, events' = events + 1, Unlinked(row, {f}),
         UNCHANGED <<imports, rows, sources, work>>
  PROVE  TypeOK' /\ Inv'
<1>1. row \in DOMAIN rows /\ rows[row] # None /\ {f} \in SUBSET Features /\ {f} # {}
  BY DEF Rows
<1>2. /\ Keeps /\ Made' /\ Single'
      /\ imported' \in Seq(Identities \union {None}) /\ DOMAIN imported' = DOMAIN imported
      /\ promos' \subseteq promos /\ IsFiniteSet(promos')
      /\ assoc' \subseteq assoc /\ links' \subseteq links /\ taken' \subseteq Identities \X Features
  BY <1>1, UnlinkedKeeps
<1>3. PoolOK'
  BY <1>2 DEF TypeOK, PoolOK
<1>4. events' \in Nat /\ imports' \in Seq(Uploads) /\ \A i \in DOMAIN imports : Kin(i)
  BY DEF TypeOK, Kin
<1>. QED
  BY <1>2, <1>3, <1>4, Requested

LEMMA DeleteStep ==
  ASSUME TypeOK, Inv, NEW row \in Rows, delete_imported_row_from_project(row)
  PROVE  TypeOK' /\ Inv'
<1>. DEFINE Lost(i) == <<row, i>> \in sources /\ (\A s \in sources' : s[2] # i)
            Deleted(d) == [d EXCEPT !.status = "DELETED", !.feature = None, !.file = None, !.signed = FALSE]
<1>0. imports' = [i \in DOMAIN imports |-> IF Lost(i) THEN Deleted(imports[i]) ELSE imports[i]]
  BY ZenonT(30) DEF delete_imported_row_from_project
<1>1. /\ events' = events + 1 /\ Unlinked(row, Features) /\ rows' = [rows EXCEPT ![row] = None]
      /\ sources' = {s \in sources : s[1] # row} /\ UNCHANGED work
  BY ZenonT(30) DEF delete_imported_row_from_project, Event
<1>. HIDE DEF Lost, Deleted
<1>2. row \in DOMAIN rows /\ rows[row] # None /\ Features \in SUBSET Features /\ Features # {}
  BY ImportsAssumption DEF Rows
<1>3. /\ Keeps /\ Made' /\ Single'
      /\ imported' \in Seq(Identities \union {None}) /\ DOMAIN imported' = DOMAIN imported
      /\ promos' \subseteq promos /\ IsFiniteSet(promos')
      /\ assoc' \subseteq assoc /\ links' \subseteq links /\ taken' \subseteq Identities \X Features
  BY <1>1, <1>2, UnlinkedKeeps
<1>4. rows' \in Seq(Entries \union {None}) /\ DOMAIN rows' = DOMAIN rows
  BY <1>1, <1>2, Overwritten DEF TypeOK, PoolOK
<1>5. sources' \subseteq sources
  BY <1>1
<1>6. ASSUME NEW u \in Uploads, NEW d, d = Deleted(u)
      PROVE  d \in Uploads /\ d.kept = u.kept /\ d.dup = u.dup /\ d.status = "DELETED" /\ d.feature = None
  BY <1>6 DEF Deleted, Uploads, Statuses
<1>7. DOMAIN imports = 1 .. Len(imports) /\ Len(imports) \in Nat /\ \A i \in DOMAIN imports : imports[i] \in Uploads
  BY DEF TypeOK
<1>8. ASSUME NEW i \in DOMAIN imports
      PROVE  imports'[i] \in Uploads /\ Kin(i)
  <2>1. CASE Lost(i)
    <3>1. imports'[i] = Deleted(imports[i])
      BY <1>0, <2>1
    <3>2. PICK u, d : u \in Uploads /\ u = imports[i] /\ d = imports'[i]
      BY <1>7
    <3>3. /\ d \in Uploads /\ d.kept = u.kept /\ d.dup = u.dup /\ d.status = "DELETED" /\ d.feature = None
      BY <1>6, <3>1, <3>2
    <3>4. \E s \in sources : s[2] = i
      BY <2>1 DEF Lost
    <3>. QED
      BY <3>2, <3>3, <3>4 DEF Kin
  <2>2. CASE ~Lost(i)
    BY <1>0, <1>7, <2>2 DEF Kin
  <2>. QED
    BY <2>1, <2>2
<1>9. DOMAIN imports' = DOMAIN imports /\ imports' \in Seq(Uploads)
  <2>1. imports' \in [1 .. Len(imports) -> Uploads]
    BY <1>0, <1>7, <1>8
  <2>. QED
    BY <1>7, <2>1, SequenceIs
<1>10. PoolOK'
  BY <1>3, <1>4, <1>5, <1>9 DEF TypeOK, PoolOK
<1>11. events' \in Nat
  BY <1>1 DEF TypeOK
<1>. QED
  BY <1>0, <1>1, <1>3, <1>5, <1>8, <1>9, <1>10, <1>11, Requested

-----------------------------------------------------------------------------
(* The invariant is inductive                                              *)

LEMMA InitOK ==
  ASSUME Init
  PROVE  TypeOK /\ Inv
<1>1. IsFiniteSet({}) /\ {} \in SUBSET Nat
  BY FS_EmptySet
<1>2. TypeOK
  BY <1>1 DEF Init, TypeOK, PoolOK
<1>3. DOMAIN work = {} /\ DOMAIN imports = {} /\ promos = {}
  BY DEF Init
<1>. QED
  BY <1>2, <1>3 DEF Inv, Working, Importing, Made, Single, Progress

\* Every step of a worker keeps the invariant.
LEMMA WorkerStep ==
  ASSUME TypeOK, Inv,
         \/ \E i \in DOMAIN imports : StartImport(i) \/ Classify(i)
         \/ \E p \in DOMAIN imports \union {Sweep} : Look(p) \/ Store(p) \/ Find(p) \/ Write(p) \/ Finish(p)
  PROVE  TypeOK' /\ Inv'
BY StartStep, ClassifyStep, LookStep, StoreKeeps, FindStep, WriteStep, FinishStep

\* So does every request.
LEMMA RequestStep ==
  ASSUME TypeOK, Inv,
         \/ \E f \in Features, file \in DOMAIN Content : upload_test_sheet(f, file)
         \/ \E f \in Features : _rescan_pool_for_feature(f)
         \/ \E row \in Rows : \/ delete_imported_row_from_project(row)
                              \/ \E f \in Features : add_imported_sheet_rows(row, f) \/ unlink_imported_row_from_feature(row, f)
                              \/ \E i \in DOMAIN imports, a \in {"include", "exclude"} : submit_import_review(i, row, a)
  PROVE  TypeOK' /\ Inv'
<1>1. ASSUME NEW row \in Rows, NEW f \in Features, add_imported_sheet_rows(row, f)
      PROVE  TypeOK' /\ Inv'
  BY <1>1, AddStep DEF add_imported_sheet_rows, Event
<1>2. ASSUME NEW row \in Rows, NEW f \in Features, unlink_imported_row_from_feature(row, f)
      PROVE  TypeOK' /\ Inv'
  BY <1>2, UnlinkStep DEF unlink_imported_row_from_feature, Event
<1>3. ASSUME NEW row \in Rows, NEW i \in DOMAIN imports, NEW a, submit_import_review(i, row, a)
      PROVE  TypeOK' /\ Inv'
  <2>1. PICK f : f = imports[i].feature
    OBVIOUS
  <2>2. f # None /\ events' = events + 1 /\ UNCHANGED <<imports, sources, work>>
    BY <1>3, <2>1 DEF submit_import_review, Event
  <2>3. f \in Features
    <3>1. imports[i] \in Uploads
      BY DEF TypeOK
    <3>. QED
      BY <2>1, <2>2, <3>1 DEF Uploads
  <2>4. CASE UNCHANGED taken /\ \E found \in Found(row, f, rows[row].identity) : Promoted(row, f, rows[row].identity, found)
    BY <2>2, <2>3, <2>4, AddStep
  <2>5. CASE Unlinked(row, {f}) /\ UNCHANGED rows
    BY <2>2, <2>3, <2>5, UnlinkStep
  <2>. QED
    BY <1>3, <2>1, <2>4, <2>5 DEF submit_import_review
<1>. QED
  BY <1>1, <1>2, <1>3, UploadStep, RescanStep, DeleteStep

LEMMA NextOK ==
  ASSUME TypeOK, Inv, [Next]_vars
  PROVE  TypeOK' /\ Inv'
<1>1. CASE UNCHANGED vars
  <2>1. UNCHANGED <<imports, rows, sources, links, promos, imported, assoc, work, taken, events>>
    BY <1>1 DEF vars
  <2>2. Keeps /\ Made' /\ Single'
    BY <2>1, RowsKeep
  <2>3. PoolOK' /\ events' \in Nat /\ imports' \in Seq(Uploads) /\ \A i \in DOMAIN imports : Kin(i)
    BY <2>1 DEF TypeOK, PoolOK, Kin
  <2>. QED
    BY <2>1, <2>2, <2>3, Requested
<1>2. CASE Crash
  BY <1>2, CrashStep
<1>. QED
  BY <1>1, <1>2, WorkerStep, RequestStep DEF Next

\* The invariant holds throughout.
THEOREM SpecIInv == Spec => []IInv
<1>1. Init => IInv
  BY InitOK DEF IInv
<1>2. IInv /\ [Next]_vars => IInv'
  BY NextOK DEF IInv
<1>. QED
  BY <1>1, <1>2, PTL DEF Spec

\* Every table, and what every worker is at, stays within its type.
THEOREM TypeCorrect == Spec => []TypeOK
<1>1. IInv => TypeOK
  BY DEF IInv
<1>. QED
  BY <1>1, SpecIInv, PTL

LEMMA CompletePlaced ==
  ASSUME IInv
  PROVE  ImportComplete
<1> SUFFICES ASSUME NEW i \in DOMAIN imports, imports[i].status = "COMPLETED", imports[i].dup = None,
                    NEW h \in imports[i].kept, ~Gone(h, taken)
             PROVE  \E r \in RowOf(h) :
                       /\ <<r, i>> \in sources
                       /\ <<h, imports[i].feature>> \in Backed => <<r, imports[i].feature>> \in links /\ IsPromoted(r, imports[i].feature)
  BY DEF ImportComplete, Gone
<1>1. i \notin DOMAIN work
  BY DEF IInv, Inv, Importing, Serving
<1>2. Placed(i, h, imports[i].feature)
  BY <1>1 DEF IInv, Inv, Progress
<1>3. PICK f : f = imports[i].feature
  OBVIOUS
<1>4. PICK r \in DOMAIN rows : /\ rows[r] # None /\ rows[r].identity = h /\ <<r, i>> \in sources
                               /\ <<h, f>> \in Backed => <<r, f>> \in links /\ Alive(r, f)
  BY <1>2, <1>3 DEF Placed
<1>5. Alive(r, f) => IsPromoted(r, f)
  <2>1. \A x \in promos : imported[x.case] # None => x.case \in Cases
    BY DEF IInv, TypeOK, PoolOK, Cases
  <2>. QED
    BY <2>1, PromotedIs DEF IInv, Inv, Alive
<1>. QED
  BY <1>3, <1>4, <1>5 DEF RowOf, Rows

\* A completed import that was parsed here lost no row it kept: each is in the
\* pool with the import as its source and, if it matches and its endpoint is
\* there, promoted to the feature (_test_import_worker, upsert_project_imported_row,
\* _promote_imported_row_to_feature), unless someone removed its like.
THEOREM ImportsPlaced == Spec => []ImportComplete
BY SpecIInv, CompletePlaced, PTL

-----------------------------------------------------------------------------
(* What is matched stays                                                   *)

Keeper(r) ==
    \/ rows'[r] = None \/ rows'[r].status = "matched_feature"
    \/ \E p \in DOMAIN work : work[p].pc = "store" /\ work[p].row = r /\ work[p].seen # "matched_feature"

LEMMA PromotedMatches ==
  ASSUME TypeOK, NEW row, NEW f, NEW h, NEW found, Promoted(row, f, h, found),
         NEW r \in DOMAIN rows, rows[r] # None, rows[r].status = "matched_feature"
  PROVE  Keeper(r)
<1>1. rows' = IF row \in Rows THEN [rows EXCEPT ![row] = Row(h, TRUE)] ELSE rows
  BY DEF Promoted
<1>2. Row(h, TRUE).status = "matched_feature"
  BY DEF Row
<1>3. rows'[r] = rows[r] \/ rows'[r] = Row(h, TRUE)
  BY <1>1
<1>. QED
  BY <1>2, <1>3 DEF Keeper

LEMMA StoreMatches ==
  ASSUME TypeOK, NEW p, Store(p), NEW r \in DOMAIN rows, rows[r] # None, rows[r].status = "matched_feature"
  PROVE  Keeper(r)
<1>1. PICK k, w : k = Head(work[p].todo).identity /\ w = work[p] /\ p \in DOMAIN work /\ w.pc = "store"
  BY DEF Store
<1>2. PICK e, c : e = Row(k, Promotes(p, k)) /\ c = [e EXCEPT !.status = Status(w.seen, @)]
  OBVIOUS
<1>3. \/ rows' = Append(rows, e) \/ rows' = rows
      \/ w.row # None /\ rows' = IF w.row \in Rows THEN [rows EXCEPT ![w.row] = c] ELSE rows
  BY <1>1, <1>2 DEF Store
<1>4. w.seen = "matched_feature" => c.status = "matched_feature"
  BY <1>2 DEF Row, Status
<1>5. rows'[r] = rows[r] \/ (r = w.row /\ rows'[r] = c)
  <2>1. rows \in Seq(Entries \union {None})
    BY DEF TypeOK, PoolOK
  <2>2. rows' = Append(rows, e) => rows'[r] = rows[r]
    BY <2>1
  <2>. QED
    BY <1>3, <2>2
<1>. QED
  BY <1>1, <1>4, <1>5 DEF Keeper

LEMMA LookMatches ==
  ASSUME TypeOK, NEW p, Look(p), NEW r \in DOMAIN rows, rows[r] # None, rows[r].status = "matched_feature"
  PROVE  Keeper(r)
<1>1. PICK k : rows' = rows \/ (k \in Rows /\ rows' = [rows EXCEPT ![k].needs = FALSE])
  BY DEF Look
<1>2. rows[r] \in Entries
  BY DEF TypeOK, PoolOK
<1>3. [rows[r] EXCEPT !.needs = FALSE].status = rows[r].status
  BY <1>2 DEF Entries
<1>4. rows'[r] = rows[r] \/ rows'[r] = [rows[r] EXCEPT !.needs = FALSE]
  BY <1>1
<1>. QED
  BY <1>3, <1>4 DEF Keeper

LEMMA MatchedStep ==
  ASSUME IInv, [Next]_vars, NEW r \in DOMAIN rows, rows[r] # None, rows[r].status = "matched_feature"
  PROVE  Keeper(r)
<1>1. TypeOK
  BY DEF IInv
<1>2. CASE UNCHANGED rows
  BY <1>2 DEF Keeper
<1>3. ASSUME NEW p, Write(p) PROVE Keeper(r)
  BY <1>1, <1>3, PromotedMatches DEF Write
<1>4. ASSUME NEW row, NEW f, add_imported_sheet_rows(row, f) PROVE Keeper(r)
  BY <1>1, <1>4, PromotedMatches DEF add_imported_sheet_rows
<1>5. ASSUME NEW i, NEW row, NEW a, submit_import_review(i, row, a) PROVE Keeper(r)
  BY <1>1, <1>2, <1>5, PromotedMatches DEF submit_import_review
<1>6. ASSUME NEW row, delete_imported_row_from_project(row) PROVE Keeper(r)
  <2>1. rows' = [rows EXCEPT ![row] = None]
    BY <1>6, Zenon DEF delete_imported_row_from_project
  <2>2. rows'[r] = rows[r] \/ rows'[r] = None
    BY <2>1
  <2>. QED
    BY <2>2 DEF Keeper
<1>7. ASSUME NEW f, NEW file, upload_test_sheet(f, file) PROVE UNCHANGED rows
  BY <1>7, Zenon DEF upload_test_sheet
<1>8. ASSUME NEW f, _rescan_pool_for_feature(f) PROVE UNCHANGED rows
  BY <1>8, Zenon DEF _rescan_pool_for_feature
<1>9. ASSUME NEW i, StartImport(i) \/ Classify(i) PROVE UNCHANGED rows
  BY <1>9, Zenon DEF StartImport, Classify
<1>10. ASSUME NEW p, Find(p) \/ Finish(p) PROVE UNCHANGED rows
  BY <1>10, Zenon DEF Find, Finish
<1>11. ASSUME NEW row, NEW f, unlink_imported_row_from_feature(row, f) PROVE UNCHANGED rows
  BY <1>11 DEF unlink_imported_row_from_feature
<1>12. Crash \/ UNCHANGED vars => UNCHANGED rows
  BY DEF Crash, vars
<1>. QED
  BY <1>1, <1>2, <1>3, <1>4, <1>5, <1>6, <1>7, <1>8, <1>9, <1>10, <1>11, <1>12, StoreMatches, LookMatches DEF Next

\* A row stays marked as matched while it is in the pool, except by the write
\* of an import that looked at it before it was matched (upsert_project_imported_row).
THEOREM MatchedKept == Spec => MatchedStays
<1>1. IInv /\ [Next]_vars =>
        \A r \in DOMAIN rows : rows[r] # None /\ rows[r].status = "matched_feature" =>
           \/ rows'[r] = None \/ rows'[r].status = "matched_feature"
           \/ \E p \in DOMAIN work : work[p].pc = "store" /\ work[p].row = r
                                     /\ work[p].seen # "matched_feature"
  BY MatchedStep DEF Keeper
<1>. QED
  BY <1>1, SpecIInv, PTL DEF Spec, MatchedStays

-----------------------------------------------------------------------------
(* The scans of test repositories, which share no state with imports       *)
(* (RepoScan).  What an archive holds is a list, which ScanAssumption      *)
(* says: Extracted puts lists together by recursion, of which nothing can  *)
(* be proved here.                                                         *)

\* A scan that has begun.
Active(t) == scan[t] # Scan!Idle /\ scan[t].pc # "start"

\* The rows an archive may give, and what a worker may have in hand.
ScanRow ==
    UNION {UNION {{Scan!RowsIn(r, Archives[r][v])[i] : i \in DOMAIN Scan!RowsIn(r, Archives[r][v])} : v \in DOMAIN Archives[r]} : r \in Repos}
ArchivesHeld == {<<>>} \union UNION {{Archives[r][v] : v \in DOMAIN Archives[r]} : r \in Repos}
Scopes == Features \union {None}
Stages == {"start", "fetch", "drop", "insert", "list", "match"}
Scans == [pc : Stages, repo : Repos, scope : Scopes, archive : ArchivesHeld, rows : Seq(ScanRow), todo : SUBSET Features,
          alone : BOOLEAN]
ScanStatuses == {"never", "running", "done", "failed"}

ScansTyped ==
    /\ live \in SUBSET Repos
    /\ head \in [Repos -> Nat] /\ \A r \in Repos : head[r] \in DOMAIN Archives[r]
    /\ status \in [Repos -> ScanStatuses]
    /\ tests \in Seq(ScanRow)
    /\ results = [f \in Features |-> results[f]]
    /\ scan \in [Threads -> Scans \union {Scan!Idle}]
    /\ apart \in SUBSET Features /\ torn \in SUBSET Repos /\ stuck \in SUBSET Repos

\* A scan that is alone is the only one that has begun.
AloneAre == \A t, s \in Threads : Active(t) /\ scan[t].alone /\ s # t => ~Active(s)

\* While rows are being replaced nothing is current.
ReplacingApart == \A t \in Threads : Scan!At(t, "insert") => apart = Features

\* A scan that is alone matches with the rows there are.
RowsAreRead == \A t \in Threads : Scan!At(t, "match") /\ scan[t].alone => scan[t].rows = tests

MatchedNow == \A f \in Features \ apart : CasesOf[f] # <<>> => results[f] = Scan!Coverage(f, tests)

\* Two scans of a repository tear its rows, which otherwise are gone between
\* the two calls.
OverlapTorn == \A s, t \in Threads : s # t /\ Active(s) /\ Active(t) /\ scan[s].repo = scan[t].repo => scan[t].repo \in torn
BetweenCalls == \A t \in Threads : Scan!At(t, "insert") /\ (scan[t].alone \/ scan[t].repo \notin torn) => Scan!RowsOf(scan[t].repo, tests) = <<>>
Downloaded ==
    \A t \in Threads : Scan!At(t, "drop") \/ Scan!At(t, "insert") => \E v \in 1 .. head[scan[t].repo] : scan[t].archive = Archives[scan[t].repo][v]

\* Who is shown as scanned is, by a scan that has begun.
ShownRuns == \A r \in Repos \ stuck : status[r] = "running" => \E t \in Threads : Active(t) /\ scan[t].repo = r

ScansInv == ScansTyped /\ AloneAre /\ ReplacingApart /\ RowsAreRead /\ MatchedNow /\ OverlapTorn /\ BetweenCalls /\ Downloaded
            /\ Scan!RowsOfOneScan /\ ShownRuns

-----------------------------------------------------------------------------
(* The items at some positions                                              *)

\* The operators of FiniteSets that the instance brings are those of this module.
LEMMA ScanSizes ==
  /\ \A S : Scan!IsFiniteSet(S) <=> IsFiniteSet(S)
  /\ \A S : Scan!Cardinality(S) = Cardinality(S)
<1>1. \A S : Scan!IsFiniteSet(S) <=> IsFiniteSet(S)
  BY DEF Scan!IsFiniteSet, IsFiniteSet
<1>2. \A S : Scan!Cardinality(S) = Cardinality(S)
  BY Zenon DEF Scan!Cardinality, Cardinality
<1>. QED
  BY <1>1, <1>2

\* Fewer positions come before an earlier one.
LEMMA Ranks ==
  ASSUME NEW S \in SUBSET Nat, IsFiniteSet(S), NEW i \in S, NEW j \in S, i < j
  PROVE  Cardinality({k \in S : k < i}) < Cardinality({k \in S : k < j})
<1> DEFINE Before(x) == {k \in S : k < x}
<1>0. \A x \in S : x \in Nat
  OBVIOUS
<1>1. IsFiniteSet(Before(i)) /\ IsFiniteSet(Before(j)) /\ i \notin Before(i)
  BY <1>0, FS_Subset
<1>2. Before(i) \union {i} \subseteq Before(j)
  <2>1. \A k \in S : k < i => k < j
    BY <1>0
  <2>. QED
    BY <2>1
<1>3. Cardinality(Before(i) \union {i}) = Cardinality(Before(i)) + 1
  BY <1>1, FS_AddElement
<1>4. Cardinality(Before(i) \union {i}) <= Cardinality(Before(j))
  BY <1>1, <1>2, FS_Subset
<1>5. Cardinality(Before(i)) \in Nat /\ Cardinality(Before(j)) \in Nat
  BY <1>1, FS_CardinalityType
<1>. HIDE DEF Before
<1>6. Cardinality(Before(i)) < Cardinality(Before(j))
  BY <1>3, <1>4, <1>5
<1>. QED
  BY <1>6 DEF Before

\* The n-th position is the one with n - 1 before it.
LEMMA NthOnly ==
  ASSUME NEW S \in SUBSET Nat, IsFiniteSet(S), NEW n, NEW i \in S, Cardinality({k \in S : k < i}) = n - 1
  PROVE  Scan!Nth(S, n) = i
<1> DEFINE rank(x) == Cardinality({k \in S : k < x})
<1>1. \A x \in S : rank(x) = n - 1 => x = i
  <2>1. TAKE x \in S
  <2>2. x < i => rank(x) < rank(i)
    BY Ranks
  <2>3. i < x => rank(i) < rank(x)
    BY Ranks
  <2>4. rank(x) \in Nat /\ rank(i) \in Nat
    <3>1. IsFiniteSet({k \in S : k < x}) /\ IsFiniteSet({k \in S : k < i})
      BY FS_Subset
    <3>. QED
      BY <3>1, FS_CardinalityType
  <2>. QED
    BY <2>2, <2>3, <2>4
<1>2. Scan!Nth(S, n) = CHOOSE x \in S : rank(x) = n - 1
  BY ScanSizes DEF Scan!Nth
<1>3. rank(i) = n - 1
  OBVIOUS
<1>. HIDE DEF rank
<1>. QED
  BY <1>1, <1>2, <1>3

\* There is an n-th position for every n up to their number.
LEMMA NthThere ==
  ASSUME NEW S \in SUBSET Nat, IsFiniteSet(S), NEW n \in 1 .. Cardinality(S)
  PROVE  Scan!Nth(S, n) \in S /\ Cardinality({i \in S : i < Scan!Nth(S, n)}) = n - 1
<1> DEFINE N == Cardinality(S)
           Before(i) == {j \in S : j < i}
           rank(i) == Cardinality(Before(i))
           R == {rank(i) : i \in S}
           f == [i \in S |-> rank(i)]
<1>0. N \in Nat /\ \A i \in S : i \in Nat
  BY FS_CardinalityType
<1>1. ASSUME NEW i \in S PROVE IsFiniteSet(Before(i)) /\ rank(i) \in 0 .. N - 1 /\ i \notin Before(i)
  <2>1. i \notin Before(i) /\ Before(i) \subseteq S \ {i}
    BY <1>0
  <2>2. IsFiniteSet(S \ {i}) /\ Cardinality(S \ {i}) = N - 1
    BY FS_RemoveElement
  <2>3. IsFiniteSet(Before(i)) /\ rank(i) <= N - 1
    BY <2>1, <2>2, FS_Subset
  <2>. QED
    BY <1>0, <2>1, <2>3, FS_CardinalityType
<1>3. ASSUME NEW i \in S, NEW j \in S, rank(i) = rank(j) PROVE i = j
  <2>1. rank(i) \in Nat /\ rank(j) \in Nat
    BY <1>0, <1>1
  <2>2. (i < j => rank(i) < rank(j)) /\ (j < i => rank(j) < rank(i))
    BY Ranks
  <2>. HIDE DEF rank
  <2>. QED
    BY <1>0, <1>3, <2>1, <2>2
<1>4. f \in Bijection(S, R)
  <2>. HIDE DEF rank
  <2>. QED
    BY <1>3 DEF Bijection, Injection, Surjection, IsInjective
<1>5. Cardinality(R) = N
  <2>. HIDE DEF f, R
  <2>. QED
    BY <1>4, FS_Bijection DEF ExistsBijection
<1>6. IsFiniteSet(0 .. N - 1) /\ Cardinality(0 .. N - 1) = N
  <2>1. 0 \in Int /\ N - 1 \in Int /\ N # 0
    BY <1>0, FS_EmptySet
  <2>. HIDE DEF N
  <2>2. IsFiniteSet(0 .. N - 1) /\ Cardinality(0 .. N - 1) = IF 0 > N - 1 THEN 0 ELSE N - 1 - 0 + 1
    BY <2>1, FS_Interval
  <2>. QED
    BY <1>0, <2>1, <2>2
<1>7. R \subseteq 0 .. N - 1
  BY <1>1
<1>8. R = 0 .. N - 1
  BY <1>5, <1>6, <1>7, FS_Subset
<1>9. n - 1 \in R
  <2>. HIDE DEF R
  <2>. QED
    BY <1>0, <1>8
<1>10. PICK i \in S : rank(i) = n - 1
  BY <1>9
<1>. QED
  BY <1>10, NthOnly

\* Positions in a list are finitely many numbers.
LEMMA PositionsAre ==
  ASSUME NEW T, NEW seq \in Seq(T), NEW S \in SUBSET DOMAIN seq
  PROVE  S \in SUBSET Nat /\ IsFiniteSet(S) /\ Cardinality(S) \in Nat
<1>1. IsFiniteSet(1 .. Len(seq)) /\ 1 .. Len(seq) \subseteq Nat /\ DOMAIN seq = 1 .. Len(seq)
  BY FS_Interval, LenProperties
<1>2. S \in SUBSET Nat /\ IsFiniteSet(S)
  BY <1>1, FS_Subset
<1>. QED
  BY <1>2, FS_CardinalityType

\* The items at some positions are items that are at them.
LEMMA ItemsAre ==
  ASSUME NEW T, NEW seq \in Seq(T), NEW S \in SUBSET DOMAIN seq
  PROVE  Scan!ItemsAt(seq, S) \in Seq(T) /\ Len(Scan!ItemsAt(seq, S)) = Cardinality(S)
         /\ \A n \in 1 .. Cardinality(S) : Scan!ItemsAt(seq, S)[n] = seq[Scan!Nth(S, n)] /\ Scan!Nth(S, n) \in S
<1>1. S \in SUBSET Nat /\ IsFiniteSet(S) /\ Cardinality(S) \in Nat
  BY PositionsAre
<1>2. \A n \in 1 .. Cardinality(S) : Scan!Nth(S, n) \in S
  BY <1>1, NthThere
<1>3. Scan!ItemsAt(seq, S) = [n \in 1 .. Cardinality(S) |-> seq[Scan!Nth(S, n)]]
  BY ScanSizes DEF Scan!ItemsAt
<1>4. \A n \in 1 .. Cardinality(S) : seq[Scan!Nth(S, n)] \in T
  BY <1>2, ElementOfSeq, LenProperties
<1>5. Scan!ItemsAt(seq, S) \in [1 .. Cardinality(S) -> T]
  BY <1>3, <1>4
<1>6. Scan!ItemsAt(seq, S) \in Seq(T)
  BY <1>1, <1>5, SeqDef
<1>7. Len(Scan!ItemsAt(seq, S)) = Cardinality(S)
  BY <1>1, <1>5, <1>6, LenProperties
<1>. QED
  BY <1>2, <1>3, <1>6, <1>7

\* Positions that are mapped to others in their order are as many, the n-th to
\* the n-th.
LEMMA InOrder ==
  ASSUME NEW A \in SUBSET Nat, IsFiniteSet(A), NEW B \in SUBSET Nat, NEW g \in [A -> B],
         \A b \in B : \E a \in A : g[a] = b, \A a, c \in A : a < c => g[a] < g[c]
  PROVE  IsFiniteSet(B) /\ Cardinality(B) = Cardinality(A) /\ \A n \in 1 .. Cardinality(A) : Scan!Nth(B, n) = g[Scan!Nth(A, n)]
<1>0. (\A a \in A : a \in Nat) /\ (\A b \in B : b \in Nat) /\ \A a \in A : g[a] \in B
  OBVIOUS
<1>1. ASSUME NEW a \in A, NEW c \in A, g[a] = g[c] PROVE a = c
  <2>1. a \in Nat /\ c \in Nat /\ g[a] \in Nat /\ g[c] \in Nat
    BY <1>0
  <2>2. (a < c => g[a] < g[c]) /\ (c < a => g[c] < g[a])
    OBVIOUS
  <2>. QED
    BY <1>1, <2>1, <2>2
<1>2. ASSUME NEW a \in A, NEW c \in A, g[a] < g[c] PROVE a < c
  <2>1. a \in Nat /\ c \in Nat /\ g[a] \in Nat /\ g[c] \in Nat
    BY <1>0
  <2>2. c < a => g[c] < g[a]
    OBVIOUS
  <2>. QED
    BY <1>2, <2>1, <2>2
<1>3. g \in Bijection(A, B)
  BY <1>1 DEF Bijection, Injection, Surjection, IsInjective
<1>4. IsFiniteSet(B) /\ Cardinality(B) = Cardinality(A)
  BY <1>3, FS_Bijection DEF ExistsBijection
<1>5. ASSUME NEW n \in 1 .. Cardinality(A) PROVE Scan!Nth(B, n) = g[Scan!Nth(A, n)]
  <2> DEFINE k == Scan!Nth(A, n)
             C == {a \in A : a < k}
             D == {b \in B : b < g[k]}
             h == [a \in C |-> g[a]]
  <2>1. k \in A /\ Cardinality(C) = n - 1
    BY NthThere
  <2>. HIDE DEF k
  <2>2. h \in Bijection(C, D)
    <3>1. \A a \in C : g[a] \in D
      BY <1>0, <2>1
    <3>2. \A b \in D : \E a \in C : g[a] = b
      BY <1>0, <1>2, <2>1
    <3>. HIDE DEF C, D
    <3>3. h \in [C -> D]
      BY <3>1
    <3>4. \A a \in C : a \in A
      BY DEF C
    <3>. QED
      BY <1>1, <3>2, <3>3, <3>4 DEF Bijection, Injection, Surjection, IsInjective
  <2>3. IsFiniteSet(C)
    BY FS_Subset
  <2>4. Cardinality(D) = n - 1
    <3>. HIDE DEF h, C, D
    <3>. QED
      BY <2>1, <2>2, <2>3, FS_Bijection DEF ExistsBijection
  <2>5. g[k] \in B
    BY <2>1
  <2>6. Scan!Nth(B, n) = g[k]
    <3> DEFINE i == g[k]
    <3>1. IsFiniteSet(B) /\ i \in B /\ Cardinality({b \in B : b < i}) = n - 1
      BY <1>4, <2>4, <2>5
    <3>. HIDE DEF C, D, h, i
    <3>2. ASSUME NEW j \in B, Cardinality({b \in B : b < j}) = n - 1 PROVE Scan!Nth(B, n) = j
      BY <1>4, <3>2, NthOnly
    <3>3. Scan!Nth(B, n) = i
      BY <3>1, <3>2
    <3>. QED
      BY <3>3 DEF i
  <2>. QED
    BY <2>6 DEF k
<1>. QED
  BY <1>4, <1>5

-----------------------------------------------------------------------------
(* The rows of a repository                                                 *)

Positions(r, seq) == {i \in DOMAIN seq : seq[i].repo = r}
Others(r, seq) == {i \in DOMAIN seq : seq[i].repo # r}

\* extract_tests: what an archive gives is a list of rows of its repository.
LEMMA RowsAre ==
  ASSUME Scan!ScanAssumption, NEW r \in Repos, NEW v \in DOMAIN Archives[r]
  PROVE  Scan!RowsIn(r, Archives[r][v]) \in Seq(ScanRow)
         /\ \A i \in DOMAIN Scan!RowsIn(r, Archives[r][v]) : Scan!RowsIn(r, Archives[r][v])[i].repo = r
<1> DEFINE found == Scan!Extracted(Archives[r][v])
           given == Scan!RowsIn(r, Archives[r][v])
<1>1. Len(found) \in Nat /\ DOMAIN found = 1 .. Len(found)
  BY DEF Scan!ScanAssumption, Scan!IsList
<1>2. given = [i \in DOMAIN found |-> [repo |-> r, path |-> found[i].path, title |-> found[i].title]]
  BY DEF Scan!RowsIn
<1>. HIDE DEF found, given
<1>3. \A i \in DOMAIN given : given[i].repo = r
  BY <1>2
<1>4. \A i \in DOMAIN given : given[i] \in ScanRow
  <2>1. \A i \in DOMAIN Scan!RowsIn(r, Archives[r][v]) : Scan!RowsIn(r, Archives[r][v])[i] \in ScanRow
    BY DEF ScanRow
  <2>. QED
    BY <2>1 DEF given
<1>5. given \in [1 .. Len(found) -> ScanRow]
  BY <1>1, <1>2, <1>4
<1>6. given \in Seq(ScanRow)
  BY <1>1, <1>5, SeqDef
<1>. QED
  BY <1>3, <1>6 DEF given

\* list_test_repo_cases of one repository.
LEMMA RowsOfIs ==
  ASSUME NEW T, NEW seq \in Seq(T), NEW r
  PROVE  Scan!RowsOf(r, seq) = Scan!ItemsAt(seq, Positions(r, seq)) /\ Positions(r, seq) \in SUBSET DOMAIN seq
BY DEF Scan!RowsOf, Positions

\* Lists of the same length with the same items are the same.
LEMMA SameLists ==
  ASSUME NEW T, NEW a \in Seq(T), NEW U, NEW b \in Seq(U), Len(a) = Len(b), \A n \in 1 .. Len(a) : a[n] = b[n]
  PROVE  a = b
<1>1. a \in [1 .. Len(a) -> T] /\ b \in [1 .. Len(b) -> U]
  BY LenProperties
<1>. QED
  BY <1>1

\* Rows that are dropped are gone,
LEMMA RowsGone ==
  ASSUME NEW T, NEW seq \in Seq(T), NEW r
  PROVE  Scan!ItemsAt(seq, Others(r, seq)) \in Seq(T) /\ Scan!RowsOf(r, Scan!ItemsAt(seq, Others(r, seq))) = <<>>
<1> DEFINE A == Others(r, seq)
           left == Scan!ItemsAt(seq, A)
<1>1. A \in SUBSET DOMAIN seq /\ \A i \in A : seq[i].repo # r
  BY DEF Others
<1>2. left \in Seq(T) /\ Len(left) = Cardinality(A) /\ \A n \in 1 .. Cardinality(A) : left[n] = seq[Scan!Nth(A, n)] /\ Scan!Nth(A, n) \in A
  <2>. HIDE DEF A
  <2>. QED
    BY <1>1, ItemsAre
<1>. HIDE DEF A, left
<1>3. DOMAIN left = 1 .. Cardinality(A)
  BY <1>2, LenProperties
<1>4. Positions(r, left) = {}
  BY <1>1, <1>2, <1>3 DEF Positions
<1>5. Cardinality({}) = 0
  BY FS_EmptySet
<1>6. Scan!RowsOf(r, left) = Scan!ItemsAt(left, {})
  BY <1>2, <1>4, RowsOfIs
<1>7. Scan!ItemsAt(left, {}) \in Seq(T) /\ Len(Scan!ItemsAt(left, {})) = 0
  BY <1>2, <1>5, ItemsAre
<1>8. Scan!ItemsAt(left, {}) = <<>>
  BY <1>7, EmptySeq
<1>. QED
  BY <1>2, <1>6, <1>8 DEF left, A

\* and those of other repositories stay, in their order.
LEMMA RowsStay ==
  ASSUME NEW T, NEW seq \in Seq(T), NEW r, NEW q, q # r
  PROVE  Scan!RowsOf(q, Scan!ItemsAt(seq, Others(r, seq))) = Scan!RowsOf(q, seq)
<1> DEFINE A == Others(r, seq)
           left == Scan!ItemsAt(seq, A)
           P == Positions(q, left)
           Q == Positions(q, seq)
           g == [k \in P |-> Scan!Nth(A, k)]
<1>1. A \in SUBSET DOMAIN seq /\ Q \in SUBSET A /\ \A i \in A : (i \in Q <=> seq[i].repo = q)
  BY DEF Others, Positions
<1>2. A \in SUBSET Nat /\ IsFiniteSet(A) /\ Cardinality(A) \in Nat
  <2>. HIDE DEF A
  <2>. QED
    BY <1>1, PositionsAre
<1>3. left \in Seq(T) /\ Len(left) = Cardinality(A) /\ \A n \in 1 .. Cardinality(A) : left[n] = seq[Scan!Nth(A, n)] /\ Scan!Nth(A, n) \in A
  <2>. HIDE DEF A
  <2>. QED
    BY <1>1, ItemsAre
<1>4. P = {k \in DOMAIN left : left[k].repo = q}
  BY DEF Positions
<1>5. Scan!RowsOf(q, left) = Scan!ItemsAt(left, P) /\ Scan!RowsOf(q, seq) = Scan!ItemsAt(seq, Q)
  BY <1>3, RowsOfIs
<1>. HIDE DEF A, left, P, Q
<1>6. DOMAIN left = 1 .. Cardinality(A)
  BY <1>3, LenProperties
<1>7. P \in SUBSET DOMAIN left /\ \A k \in P : Scan!Nth(A, k) \in Q
  BY <1>1, <1>3, <1>4, <1>6
<1>8. P \in SUBSET Nat /\ IsFiniteSet(P) /\ Cardinality(P) \in Nat
  BY <1>3, <1>7, PositionsAre
<1>9. \A i \in Q : \E k \in P : Scan!Nth(A, k) = i
  <2>1. SUFFICES ASSUME NEW i \in Q PROVE \E k \in P : Scan!Nth(A, k) = i
    OBVIOUS
  <2> DEFINE B == {j \in A : j < i}
             m == Cardinality(B) + 1
  <2>2. i \in A /\ i \in Nat
    BY <1>1, <1>2
  <2>3. B \subseteq A \ {i} /\ IsFiniteSet(A \ {i}) /\ Cardinality(A \ {i}) = Cardinality(A) - 1
    BY <1>2, <2>2, FS_RemoveElement
  <2>4. IsFiniteSet(B) /\ Cardinality(B) <= Cardinality(A) - 1 /\ Cardinality(B) \in Nat
    BY <2>3, FS_Subset, FS_CardinalityType
  <2>5. Cardinality(B) = m - 1 /\ m \in 1 .. Cardinality(A)
    BY <1>2, <2>4
  <2>6. Scan!Nth(A, m) = i
    <3>. HIDE DEF m
    <3>1. Cardinality({j \in A : j < i}) = m - 1
      BY <2>5
    <3>. QED
      BY <1>2, <2>2, <3>1, NthOnly
  <2>. HIDE DEF m, B
  <2>7. m \in P
    BY <1>1, <1>3, <1>4, <1>6, <2>5, <2>6
  <2>. QED
    BY <2>6, <2>7
<1>10. \A k, m \in P : k < m => Scan!Nth(A, k) < Scan!Nth(A, m)
  <2>1. SUFFICES ASSUME NEW k \in P, NEW m \in P, k < m PROVE Scan!Nth(A, k) < Scan!Nth(A, m)
    OBVIOUS
  <2> DEFINE i == Scan!Nth(A, k)
             j == Scan!Nth(A, m)
  <2>2. k \in 1 .. Cardinality(A) /\ m \in 1 .. Cardinality(A)
    BY <1>6, <1>7
  <2>3. i \in A /\ j \in A /\ Cardinality({x \in A : x < i}) = k - 1 /\ Cardinality({x \in A : x < j}) = m - 1
    BY <1>2, <2>2, NthThere
  <2>. HIDE DEF i, j
  <2>4. i # j
    <3>. SUFFICES ASSUME i = j PROVE FALSE
      OBVIOUS
    <3>1. k - 1 = m - 1
      BY <2>3
    <3>. QED
      BY <1>2, <2>1, <2>2, <3>1
  <2>5. ASSUME j < i PROVE FALSE
    <3>1. Cardinality({x \in A : x < j}) < Cardinality({x \in A : x < i})
      BY <1>2, <2>3, <2>5, Ranks
    <3>. QED
      BY <2>1, <2>2, <2>3, <3>1
  <2>6. i \in Nat /\ j \in Nat
    BY <1>2, <2>3
  <2>7. i < j
    BY <2>4, <2>5, <2>6
  <2>. QED
    BY <2>7 DEF i, j
<1>11. Q \in SUBSET Nat
  BY <1>1, <1>2
<1>12. g \in [P -> Q]
  BY <1>7
<1>13. \A i \in Q : \E k \in P : g[k] = i
  BY <1>9
<1>14. \A k, m \in P : k < m => g[k] < g[m]
  BY <1>10
<1>15. IsFiniteSet(Q) /\ Cardinality(Q) = Cardinality(P) /\ \A n \in 1 .. Cardinality(P) : Scan!Nth(Q, n) = g[Scan!Nth(P, n)]
  <2>. HIDE DEF g
  <2>. QED
    BY <1>8, <1>11, <1>12, <1>13, <1>14, InOrder
<1>16. Scan!ItemsAt(left, P) \in Seq(T) /\ Len(Scan!ItemsAt(left, P)) = Cardinality(P)
       /\ \A n \in 1 .. Cardinality(P) : Scan!ItemsAt(left, P)[n] = left[Scan!Nth(P, n)] /\ Scan!Nth(P, n) \in P
  BY <1>3, <1>7, ItemsAre
<1>17. Q \in SUBSET DOMAIN seq
  BY <1>1
<1>18. Scan!ItemsAt(seq, Q) \in Seq(T) /\ Len(Scan!ItemsAt(seq, Q)) = Cardinality(Q)
       /\ \A n \in 1 .. Cardinality(Q) : Scan!ItemsAt(seq, Q)[n] = seq[Scan!Nth(Q, n)] /\ Scan!Nth(Q, n) \in Q
  BY <1>17, ItemsAre
<1>19. \A n \in 1 .. Cardinality(P) : Scan!ItemsAt(left, P)[n] = Scan!ItemsAt(seq, Q)[n]
  <2>1. SUFFICES ASSUME NEW n \in 1 .. Cardinality(P) PROVE Scan!ItemsAt(left, P)[n] = Scan!ItemsAt(seq, Q)[n]
    OBVIOUS
  <2>2. Scan!Nth(P, n) \in P /\ Scan!Nth(Q, n) = Scan!Nth(A, Scan!Nth(P, n))
    BY <1>15, <1>16
  <2>3. left[Scan!Nth(P, n)] = seq[Scan!Nth(A, Scan!Nth(P, n))]
    BY <1>3, <1>6, <1>7, <2>2
  <2>. QED
    BY <1>15, <1>16, <1>18, <2>2, <2>3
<1>20. Scan!ItemsAt(left, P) = Scan!ItemsAt(seq, Q)
  BY <1>15, <1>16, <1>18, <1>19, SameLists
<1>. QED
  BY <1>5, <1>20 DEF left, A

\* Rows of another repository are no rows of this one,
LEMMA RowsAside ==
  ASSUME NEW T, NEW seq \in Seq(T), NEW more \in Seq(T), NEW r, \A i \in DOMAIN more : more[i].repo # r
  PROVE  Scan!RowsOf(r, seq \o more) = Scan!RowsOf(r, seq)
<1> DEFINE both == seq \o more
           P == Positions(r, seq)
           Q == Positions(r, both)
<1>1. both \in Seq(T) /\ Len(both) = Len(seq) + Len(more) /\ (\A i \in 1 .. Len(seq) : both[i] = seq[i])
      /\ \A i \in 1 .. Len(more) : both[Len(seq) + i] = more[i]
  BY ConcatProperties
<1>2. Len(seq) \in Nat /\ Len(more) \in Nat /\ DOMAIN seq = 1 .. Len(seq) /\ DOMAIN more = 1 .. Len(more)
      /\ DOMAIN both = 1 .. Len(both)
  BY <1>1, LenProperties
<1>. HIDE DEF both
<1>3. Q = P
  <2>1. \A i \in P : i \in Q
    BY <1>1, <1>2 DEF Positions
  <2>2. ASSUME NEW i \in Q, i \notin P PROVE FALSE
    <3>1. i \in 1 .. Len(both) /\ both[i].repo = r
      BY <1>2 DEF Positions
    <3>2. i > Len(seq)
      BY <1>1, <1>2, <2>2, <3>1 DEF Positions
    <3>3. i - Len(seq) \in 1 .. Len(more) /\ Len(seq) + (i - Len(seq)) = i
      BY <1>1, <1>2, <3>1, <3>2
    <3>4. both[i] = more[i - Len(seq)]
      BY <1>1, <3>3
    <3>. QED
      BY <1>2, <3>1, <3>3, <3>4
  <2>. HIDE DEF P, Q
  <2>. QED
    BY <2>1, <2>2
<1>4. P \in SUBSET DOMAIN seq /\ P \in SUBSET DOMAIN both
  BY <1>3 DEF Positions
<1>5. Scan!RowsOf(r, both) = Scan!ItemsAt(both, P) /\ Scan!RowsOf(r, seq) = Scan!ItemsAt(seq, P)
  BY <1>1, <1>3, RowsOfIs
<1>. HIDE DEF P, Q
<1>6. Scan!ItemsAt(both, P) \in Seq(T) /\ Len(Scan!ItemsAt(both, P)) = Cardinality(P)
       /\ \A n \in 1 .. Cardinality(P) : Scan!ItemsAt(both, P)[n] = both[Scan!Nth(P, n)] /\ Scan!Nth(P, n) \in P
  BY <1>1, <1>4, ItemsAre
<1>7. Scan!ItemsAt(seq, P) \in Seq(T) /\ Len(Scan!ItemsAt(seq, P)) = Cardinality(P)
       /\ \A n \in 1 .. Cardinality(P) : Scan!ItemsAt(seq, P)[n] = seq[Scan!Nth(P, n)] /\ Scan!Nth(P, n) \in P
  BY <1>4, ItemsAre
<1>8. \A n \in 1 .. Cardinality(P) : Scan!ItemsAt(both, P)[n] = Scan!ItemsAt(seq, P)[n]
  BY <1>1, <1>2, <1>4, <1>6, <1>7
<1>9. Scan!ItemsAt(both, P) = Scan!ItemsAt(seq, P)
  BY <1>6, <1>7, <1>8, SameLists
<1>. QED
  BY <1>5, <1>9 DEF both

\* and rows inserted where there are none are all there are.
LEMMA RowsCome ==
  ASSUME NEW T, NEW seq \in Seq(T), NEW more \in Seq(T), NEW r, \A i \in DOMAIN more : more[i].repo = r,
         Scan!RowsOf(r, seq) = <<>>
  PROVE  Scan!RowsOf(r, seq \o more) = more
<1> DEFINE both == seq \o more
           P == Positions(r, seq)
           Q == Positions(r, both)
           D == DOMAIN more
           g == [i \in D |-> Len(seq) + i]
<1>1. both \in Seq(T) /\ Len(both) = Len(seq) + Len(more) /\ (\A i \in 1 .. Len(seq) : both[i] = seq[i])
      /\ \A i \in 1 .. Len(more) : both[Len(seq) + i] = more[i]
  BY ConcatProperties
<1>2. Len(seq) \in Nat /\ Len(more) \in Nat /\ DOMAIN seq = 1 .. Len(seq) /\ D = 1 .. Len(more)
      /\ DOMAIN both = 1 .. Len(both)
  BY <1>1, LenProperties
<1>3. P = {}
  <2>1. P \in SUBSET DOMAIN seq /\ Scan!RowsOf(r, seq) = Scan!ItemsAt(seq, P)
    BY RowsOfIs
  <2>. HIDE DEF P
  <2>2. IsFiniteSet(P) /\ Len(Scan!ItemsAt(seq, P)) = Cardinality(P)
    BY <2>1, ItemsAre, PositionsAre
  <2>3. Cardinality(P) = 0
    BY <2>1, <2>2, EmptySeq
  <2>. QED
    BY <2>2, <2>3, FS_EmptySet
<1>4. Scan!RowsOf(r, both) = Scan!ItemsAt(both, Q) /\ Q \in SUBSET DOMAIN both
  BY <1>1, RowsOfIs
<1>. HIDE DEF both
<1>5. \A i \in D : g[i] \in Q
  BY <1>1, <1>2 DEF Positions
<1>6. \A j \in Q : \E i \in D : g[i] = j
  <2>1. SUFFICES ASSUME NEW j \in Q PROVE \E i \in D : g[i] = j
    OBVIOUS
  <2>2. j \in 1 .. Len(both) /\ both[j].repo = r
    BY <1>2 DEF Positions
  <2>3. j > Len(seq)
    BY <1>1, <1>2, <1>3, <2>2 DEF Positions
  <2>4. j - Len(seq) \in D /\ Len(seq) + (j - Len(seq)) = j
    BY <1>1, <1>2, <2>2, <2>3
  <2>. QED
    BY <2>4
<1>. HIDE DEF P, Q
<1>7. Q \in SUBSET Nat
  BY <1>1, <1>4, PositionsAre
<1>8. D \in SUBSET Nat /\ IsFiniteSet(D)
  BY PositionsAre
<1>9. \A i, k \in D : i < k => g[i] < g[k]
  BY <1>2
<1>10. g \in [D -> Q]
  BY <1>5
<1>11. Cardinality(Q) = Cardinality(D) /\ \A n \in 1 .. Cardinality(D) : Scan!Nth(Q, n) = g[Scan!Nth(D, n)]
  <2>. HIDE DEF g, D
  <2>. QED
    BY <1>6, <1>7, <1>8, <1>9, <1>10, InOrder
<1>12. Cardinality(D) = Len(more)
  <2>1. Cardinality(1 .. Len(more)) = IF 1 > Len(more) THEN 0 ELSE Len(more) - 1 + 1
    <3>1. 1 \in Int /\ Len(more) \in Int
      BY <1>2
    <3>. QED
      BY <3>1, FS_Interval
  <2>. QED
    BY <1>2, <2>1
<1>13. \A n \in 1 .. Len(more) : Scan!Nth(D, n) = n
  <2>1. SUFFICES ASSUME NEW n \in 1 .. Len(more) PROVE Scan!Nth(D, n) = n
    OBVIOUS
  <2>2. {i \in D : i < n} = 1 .. n - 1
    BY <1>2
  <2>3. Cardinality(1 .. n - 1) = IF 1 > n - 1 THEN 0 ELSE n - 1 - 1 + 1
    <3>1. 1 \in Int /\ n - 1 \in Int
      BY <1>2
    <3>. QED
      BY <3>1, FS_Interval
  <2>4. Cardinality({i \in D : i < n}) = n - 1
    <3>1. n \in Nat /\ n >= 1
      BY <1>2
    <3>2. Cardinality(1 .. n - 1) = n - 1
      BY <2>3, <3>1
    <3>. QED
      BY <2>2, <3>2
  <2>5. n \in D
    BY <1>2
  <2>. HIDE DEF D
  <2>. QED
    BY <1>8, <2>4, <2>5, NthOnly
<1>14. Scan!ItemsAt(both, Q) \in Seq(T) /\ Len(Scan!ItemsAt(both, Q)) = Cardinality(Q)
       /\ \A n \in 1 .. Cardinality(Q) : Scan!ItemsAt(both, Q)[n] = both[Scan!Nth(Q, n)] /\ Scan!Nth(Q, n) \in Q
  BY <1>1, <1>4, ItemsAre
<1>15. \A n \in 1 .. Len(more) : Scan!ItemsAt(both, Q)[n] = more[n]
  <2>1. SUFFICES ASSUME NEW n \in 1 .. Len(more) PROVE Scan!ItemsAt(both, Q)[n] = more[n]
    OBVIOUS
  <2>2. Scan!ItemsAt(both, Q)[n] = both[g[n]]
    BY <1>11, <1>12, <1>13, <1>14
  <2>3. g[n] = Len(seq) + n
    BY <1>2
  <2>. QED
    BY <1>1, <2>2, <2>3
<1>16. Scan!ItemsAt(both, Q) = more
  BY <1>11, <1>12, <1>14, <1>15, SameLists
<1>. QED
  BY <1>4, <1>16 DEF both

-----------------------------------------------------------------------------
(* What a worker has in hand                                                *)

\* A scan with some fields of their types is a scan, whose other fields are
\* what they were.
LEMMA IdleScan == Scan!Idle \notin Scans /\ \A x \in Scans : x # Scan!Idle /\ x.pc # "idle"
BY DEF Scan!Idle, Scans, Stages

\* A scan with a field of its type is a scan, whose other fields are what they
\* were.
LEMMA PcSet ==
  ASSUME NEW x \in Scans, NEW p \in Stages
  PROVE  LET y == [x EXCEPT !.pc = p] IN
         y \in Scans /\ y.pc = p /\ y.repo = x.repo /\ y.alone = x.alone /\ y.archive = x.archive /\ y.rows = x.rows
BY DEF Scans

\* The same for its archive,
LEMMA ArchiveSet ==
  ASSUME NEW x \in Scans, NEW a \in ArchivesHeld
  PROVE  LET y == [x EXCEPT !.archive = a] IN
         y \in Scans /\ y.pc = x.pc /\ y.repo = x.repo /\ y.alone = x.alone /\ y.archive = a /\ y.rows = x.rows
BY DEF Scans

\* its rows,
LEMMA RowsSet ==
  ASSUME NEW x \in Scans, NEW a \in Seq(ScanRow)
  PROVE  LET y == [x EXCEPT !.rows = a] IN
         y \in Scans /\ y.pc = x.pc /\ y.repo = x.repo /\ y.alone = x.alone /\ y.archive = x.archive /\ y.rows = a
BY DEF Scans

\* the features it has to match,
LEMMA TodoSet ==
  ASSUME NEW x \in Scans, NEW a \in SUBSET Features
  PROVE  LET y == [x EXCEPT !.todo = a] IN
         y \in Scans /\ y.pc = x.pc /\ y.repo = x.repo /\ y.alone = x.alone /\ y.archive = x.archive /\ y.rows = x.rows
BY DEF Scans

\* and whether it is alone.
LEMMA AloneSet ==
  ASSUME NEW x \in Scans, NEW b \in BOOLEAN
  PROVE  LET y == [x EXCEPT !.alone = b] IN
         y \in Scans /\ y.pc = x.pc /\ y.repo = x.repo /\ y.alone = b /\ y.archive = x.archive /\ y.rows = x.rows
BY DEF Scans

\* The worker of a scan goes on, and matches a feature.
LEMMA ScanGoes ==
  ASSUME ScansTyped, NEW t \in Threads, scan[t] \in Scans, NEW p \in Stages, scan' = [scan EXCEPT ![t].pc = p]
  PROVE  \E y \in Scans :
            /\ scan' = [scan EXCEPT ![t] = y]
            /\ y.pc = p /\ y.repo = scan[t].repo /\ y.alone = scan[t].alone /\ y.archive = scan[t].archive
            /\ y.rows = scan[t].rows
<1> DEFINE x == scan[t]
           y == [x EXCEPT !.pc = p]
<1>1. scan' = [scan EXCEPT ![t] = y]
  BY DEF ScansTyped
<1>2. y \in Scans /\ y.pc = p /\ y.repo = x.repo /\ y.alone = x.alone /\ y.archive = x.archive /\ y.rows = x.rows
  BY PcSet
<1>. HIDE DEF y
<1>. QED
  BY <1>1, <1>2

\* A feature is taken from those it has to match.
LEMMA ScanMatches ==
  ASSUME ScansTyped, NEW t \in Threads, scan[t] \in Scans, NEW f, scan' = [scan EXCEPT ![t].todo = @ \ {f}]
  PROVE  \E y \in Scans :
            /\ scan' = [scan EXCEPT ![t] = y]
            /\ y.pc = scan[t].pc /\ y.repo = scan[t].repo /\ y.alone = scan[t].alone /\ y.archive = scan[t].archive
            /\ y.rows = scan[t].rows
<1> DEFINE x == scan[t]
           b == x.todo \ {f}
           y == [x EXCEPT !.todo = b]
<1>1. scan' = [scan EXCEPT ![t] = y]
  BY DEF ScansTyped
<1>2. b \in SUBSET Features
  BY DEF Scans
<1>. HIDE DEF b
<1>3. y \in Scans /\ y.pc = x.pc /\ y.repo = x.repo /\ y.alone = x.alone /\ y.archive = x.archive /\ y.rows = x.rows
  BY <1>2, TodoSet
<1>. HIDE DEF y
<1>. QED
  BY <1>1, <1>3

\* One worker changes, the others stay as they were.
LEMMA OneMoves ==
  ASSUME ScansTyped, NEW t \in Threads, NEW y \in Scans \union {Scan!Idle}, scan' = [scan EXCEPT ![t] = y]
  PROVE  scan' \in [Threads -> Scans \union {Scan!Idle}] /\ scan'[t] = y /\ \A s \in Threads : s # t => scan'[s] = scan[s]
BY DEF ScansTyped

\* A scan that has begun goes on.
LEMMA BegunGoes ==
  ASSUME ScansInv, NEW t \in Threads, scan[t] \in Scans, scan[t].pc # "start", NEW y \in Scans, y.pc # "start",
         y.repo = scan[t].repo, y.alone = scan[t].alone, scan' = [scan EXCEPT ![t] = y]
  PROVE  /\ \A s \in Threads : /\ Active(s)' <=> Active(s)
                               /\ scan[s] # Scan!Idle => scan'[s].repo = scan[s].repo /\ scan'[s].alone = scan[s].alone
         /\ AloneAre'
         /\ torn \subseteq torn' => OverlapTorn'
         /\ status' = status /\ stuck' = stuck => ShownRuns'
<1>1. scan' \in [Threads -> Scans \union {Scan!Idle}] /\ scan'[t] = y /\ \A s \in Threads : s # t => scan'[s] = scan[s]
  BY OneMoves DEF ScansInv
<1>2. \A s \in Threads : /\ Active(s)' <=> Active(s)
                         /\ scan[s] # Scan!Idle => scan'[s].repo = scan[s].repo /\ scan'[s].alone = scan[s].alone
  BY <1>1, IdleScan DEF Active
<1>3. \A s \in Threads : Active(s) => scan[s] # Scan!Idle
  BY DEF Active
<1>4. AloneAre'
  BY <1>2, <1>3 DEF ScansInv, AloneAre
<1>5. ASSUME torn \subseteq torn' PROVE OverlapTorn'
  BY <1>2, <1>3, <1>5 DEF ScansInv, OverlapTorn
<1>6. ASSUME status' = status, stuck' = stuck PROVE ShownRuns'
  BY <1>2, <1>3, <1>6 DEF ScansInv, ShownRuns
<1>. QED
  BY <1>2, <1>4, <1>5, <1>6

\* A step of a worker that has begun, which leaves rows, coverage and what is
\* torn alone.
LEMMA BegunKeeps ==
  ASSUME ScansInv, NEW t \in Threads, scan[t] \in Scans, scan[t].pc # "start", NEW y \in Scans, y.pc # "start",
         y.repo = scan[t].repo, y.alone = scan[t].alone, scan' = [scan EXCEPT ![t] = y],
         UNCHANGED <<live, head, status, tests, results, apart, torn, stuck>>,
         y.pc # "insert", y.pc = "match" /\ y.alone => y.rows = tests,
         y.pc = "drop" => \E v \in 1 .. head[y.repo] : y.archive = Archives[y.repo][v]
  PROVE  ScansInv'
<1>1. scan' \in [Threads -> Scans \union {Scan!Idle}] /\ scan'[t] = y /\ \A s \in Threads : s # t => scan'[s] = scan[s]
  BY OneMoves DEF ScansInv
<1>2. ScansTyped'
  BY <1>1 DEF ScansInv, ScansTyped
<1>3. AloneAre' /\ OverlapTorn' /\ ShownRuns'
  BY BegunGoes
<1>4. ReplacingApart'
  BY <1>1 DEF ScansInv, ReplacingApart, Scan!At
<1>5. RowsAreRead'
  BY <1>1 DEF ScansInv, RowsAreRead, Scan!At
<1>6. MatchedNow'
  BY DEF ScansInv, MatchedNow
<1>7. BetweenCalls'
  BY <1>1 DEF ScansInv, BetweenCalls, Scan!At
<1>8. Downloaded'
  BY <1>1 DEF ScansInv, Downloaded, Scan!At
<1>9. Scan!RowsOfOneScan'
  BY DEF ScansInv, Scan!RowsOfOneScan
<1>. QED
  BY <1>2, <1>3, <1>4, <1>5, <1>6, <1>7, <1>8, <1>9 DEF ScansInv

\* A worker is idle or has a scan in hand.
LEMMA ScanIs ==
  ASSUME ScansInv, NEW t \in Threads
  PROVE  /\ scan[t] \in Scans \union {Scan!Idle} /\ (scan[t] # Scan!Idle => scan[t] \in Scans)
         /\ \A p \in Stages : Scan!At(t, p) => scan[t] \in Scans
BY DEF ScansInv, ScansTyped, Scan!At, Scan!Idle, Stages

\* The finally of the worker: the repository is not shown as scanned any more.
LEMMA EndsKeeps ==
  ASSUME ScansInv, NEW t \in Threads, scan[t] \in Scans, NEW outcome \in {"done", "failed"},
         Scan!Ends(t, outcome), UNCHANGED <<live, head, tests, results, apart, torn>>
  PROVE  ScansInv'
<1> DEFINE r == scan[t].repo
<1>0. r \in Repos /\ status' = [status EXCEPT ![r] = outcome] /\ scan' = [scan EXCEPT ![t] = Scan!Idle] /\ stuck' = stuck \ {r}
  BY DEF Scan!Ends, Scans
<1>1. scan' \in [Threads -> Scans \union {Scan!Idle}] /\ scan'[t] = Scan!Idle /\ \A s \in Threads : s # t => scan'[s] = scan[s]
  BY <1>0, OneMoves DEF ScansInv
<1>2. status' \in [Repos -> ScanStatuses] /\ status'[r] # "running" /\ \A q \in Repos : q # r => status'[q] = status[q]
  BY <1>0 DEF ScansInv, ScansTyped, ScanStatuses
<1>3. ScansTyped'
  BY <1>0, <1>1, <1>2 DEF ScansInv, ScansTyped
<1>4. \A s \in Threads : /\ Active(s)' => s # t /\ Active(s) /\ scan'[s] = scan[s]
                         /\ s # t => (Active(s)' <=> Active(s))
                         /\ \A p \in Stages : Scan!At(s, p)' => s # t /\ Scan!At(s, p) /\ scan'[s] = scan[s]
  BY <1>1 DEF Active, Scan!At, Scan!Idle, Stages
<1>5. AloneAre'
  BY <1>4 DEF ScansInv, AloneAre
<1>6. ReplacingApart'
  BY <1>4 DEF ScansInv, ReplacingApart, Stages
<1>7. RowsAreRead'
  BY <1>4 DEF ScansInv, RowsAreRead, Stages
<1>8. MatchedNow'
  BY DEF ScansInv, MatchedNow
<1>9. OverlapTorn'
  BY <1>4 DEF ScansInv, OverlapTorn
<1>10. BetweenCalls'
  BY <1>4 DEF ScansInv, BetweenCalls, Stages
<1>11. Downloaded'
  BY <1>4 DEF ScansInv, Downloaded, Stages
<1>12. Scan!RowsOfOneScan'
  BY DEF ScansInv, Scan!RowsOfOneScan
<1>13. ShownRuns'
  <2>1. SUFFICES ASSUME NEW q \in Repos, q \notin stuck', status'[q] = "running"
                 PROVE  \E s \in Threads : Active(s)' /\ scan'[s].repo = q
    BY DEF ShownRuns
  <2>2. q # r /\ q \notin stuck /\ status[q] = "running"
    BY <1>0, <1>2, <2>1
  <2>3. PICK s \in Threads : Active(s) /\ scan[s].repo = q
    BY <2>2 DEF ScansInv, ShownRuns
  <2>. QED
    BY <1>1, <1>4, <2>2, <2>3
<1>. QED
  BY <1>3, <1>5, <1>6, <1>7, <1>8, <1>9, <1>10, <1>11, <1>12, <1>13 DEF ScansInv

-----------------------------------------------------------------------------
(* The steps                                                                *)

\* A request starts nothing but a worker that has not begun.
LEMMA RequestKeeps ==
  ASSUME ScansInv, NEW t \in Threads, NEW r \in Repos, NEW scope \in Scopes, Scan!Request(t, r, scope)
  PROVE  ScansInv'
<1> DEFINE b == \A s \in Threads : scan[s] = Scan!Idle
           y == [pc |-> "start", repo |-> r, scope |-> scope, archive |-> <<>>, rows |-> <<>>, todo |-> {}, alone |-> b]
<1>0. /\ scan[t] = Scan!Idle /\ scan' = [scan EXCEPT ![t] = y]
      /\ UNCHANGED <<live, head, status, tests, results, apart, torn, stuck>>
  BY DEF Scan!Request, Scan!repoVars, Scan!history
<1>1. y \in Scans /\ y.pc = "start"
  <2>1. b \in BOOLEAN /\ <<>> \in Seq(ScanRow) /\ <<>> \in ArchivesHeld /\ "start" \in Stages /\ {} \in SUBSET Features
    BY EmptySeq DEF ArchivesHeld, Stages
  <2>. HIDE DEF b
  <2>. QED
    BY <2>1 DEF Scans
<1>. HIDE DEF y
<1>2. scan' \in [Threads -> Scans \union {Scan!Idle}] /\ scan'[t] = y /\ \A s \in Threads : s # t => scan'[s] = scan[s]
  BY <1>0, <1>1, OneMoves DEF ScansInv
<1>3. ScansTyped'
  BY <1>0, <1>2 DEF ScansInv, ScansTyped
<1>4. \A s \in Threads : /\ (Active(s)' <=> Active(s)) /\ (Active(s) => scan'[s] = scan[s])
                         /\ \A p \in {"drop", "insert", "match"} : Scan!At(s, p)' => Scan!At(s, p) /\ scan'[s] = scan[s]
  BY <1>0, <1>1, <1>2 DEF Active, Scan!At
<1>5. AloneAre'
  BY <1>4 DEF ScansInv, AloneAre
<1>6. ReplacingApart'
  BY <1>0, <1>4 DEF ScansInv, ReplacingApart
<1>7. RowsAreRead'
  BY <1>0, <1>4 DEF ScansInv, RowsAreRead
<1>8. MatchedNow'
  BY <1>0 DEF ScansInv, MatchedNow
<1>9. OverlapTorn'
  BY <1>0, <1>4 DEF ScansInv, OverlapTorn
<1>10. BetweenCalls'
  BY <1>0, <1>4 DEF ScansInv, BetweenCalls
<1>11. Downloaded'
  BY <1>0, <1>4 DEF ScansInv, Downloaded
<1>12. Scan!RowsOfOneScan'
  BY <1>0 DEF ScansInv, Scan!RowsOfOneScan
<1>13. ShownRuns'
  BY <1>0, <1>4 DEF ScansInv, ShownRuns
<1>. QED
  BY <1>3, <1>5, <1>6, <1>7, <1>8, <1>9, <1>10, <1>11, <1>12, <1>13 DEF ScansInv

\* _test_repo_scan_worker begins: it is alone if no other worker is there, and
\* whoever is there is no longer alone.
LEMMA BeginKeeps ==
  ASSUME ScansInv, NEW t \in Threads, Scan!Begin(t)
  PROVE  ScansInv'
<1> DEFINE r == scan[t].repo
<1>1. scan[t] \in Scans /\ scan[t].pc = "start" /\ scan[t] # Scan!Idle /\ r \in Repos
  <2>1. Scan!At(t, "start") /\ "start" \in Stages
    BY DEF Scan!Begin, Stages
  <2>. QED
    BY <2>1, ScanIs, IdleScan DEF Scan!At, Scans
<1>2. UNCHANGED <<live, head, tests, results, apart, stuck>>
  BY DEF Scan!Begin, Scan!repoVars
<1>3. CASE r \in live
  <2>1. /\ status' = [status EXCEPT ![r] = "running"] /\ scan' = Scan!Meet(t)
        /\ torn' = IF \E s \in Threads \ {t} : scan[s] # Scan!Idle /\ scan[s].repo = r THEN torn \union {r} ELSE torn
    BY <1>3 DEF Scan!Begin
  <2>2. ASSUME NEW s \in Threads
        PROVE  /\ scan[s] = Scan!Idle => scan'[s] = Scan!Idle
               /\ scan[s] # Scan!Idle =>
                     /\ scan'[s] \in Scans /\ scan'[s].pc = (IF s = t THEN "fetch" ELSE scan[s].pc)
                     /\ scan'[s].repo = scan[s].repo /\ scan'[s].archive = scan[s].archive /\ scan'[s].rows = scan[s].rows
                     /\ scan'[s].alone => scan[s].alone /\ \A u \in Threads : u # s => scan[u] = Scan!Idle
    <3> DEFINE b == scan[s].alone /\ \A u \in Threads \ {s} : scan[u] = Scan!Idle
               p == IF s = t THEN "fetch" ELSE scan[s].pc
               z == [scan[s] EXCEPT !.alone = b]
               y == [z EXCEPT !.pc = p]
    <3>1. scan'[s] = IF scan[s] = Scan!Idle THEN Scan!Idle ELSE y
      BY <2>1 DEF Scan!Meet
    <3>2. CASE scan[s] # Scan!Idle
      <4>1. scan[s] \in Scans /\ b \in BOOLEAN /\ p \in Stages
        <5>1. scan[s] \in Scans
          BY <3>2, ScanIs
        <5>2. b \in BOOLEAN
          BY <5>1 DEF Scans
        <5>3. p \in Stages
          BY <5>1 DEF Scans, Stages
        <5>. QED
          BY <5>1, <5>2, <5>3
      <4>2. b => scan[s].alone /\ \A u \in Threads : u # s => scan[u] = Scan!Idle
        OBVIOUS
      <4>3. scan'[s] = y
        BY <3>1, <3>2
      <4>. HIDE DEF b, p
      <4>4. z \in Scans /\ z.pc = scan[s].pc /\ z.repo = scan[s].repo /\ z.alone = b /\ z.archive = scan[s].archive
            /\ z.rows = scan[s].rows
        BY <4>1, AloneSet
      <4>. HIDE DEF z
      <4>5. y \in Scans /\ y.pc = p /\ y.repo = scan[s].repo /\ y.alone = b /\ y.archive = scan[s].archive
            /\ y.rows = scan[s].rows
        BY <4>1, <4>4, PcSet
      <4>. HIDE DEF y
      <4>6. scan'[s] \in Scans /\ scan'[s].pc = p
            /\ scan'[s].repo = scan[s].repo /\ scan'[s].archive = scan[s].archive /\ scan'[s].rows = scan[s].rows
            /\ (scan'[s].alone => scan[s].alone /\ \A u \in Threads : u # s => scan[u] = Scan!Idle)
        BY <4>2, <4>3, <4>5
      <4>. QED
        BY <3>2, <4>6 DEF p
    <3>3. CASE scan[s] = Scan!Idle
      BY <3>1, <3>3
    <3>. QED
      BY <3>2, <3>3
  <2>3. scan' \in [Threads -> Scans \union {Scan!Idle}]
    <3>1. \A s \in Threads : scan'[s] \in Scans \union {Scan!Idle}
      BY <2>2
    <3>2. scan' = [s \in Threads |-> scan'[s]]
      BY <2>1 DEF Scan!Meet
    <3>. QED
      BY <3>1, <3>2
  <2>4. status' \in [Repos -> ScanStatuses] /\ \A q \in Repos : q # r => status'[q] = status[q]
    BY <1>1, <2>1 DEF ScansInv, ScansTyped, ScanStatuses
  <2>5. torn' \in SUBSET Repos /\ torn \subseteq torn'
    BY <1>1, <2>1 DEF ScansInv, ScansTyped
  <2>6. ScansTyped'
    BY <1>2, <2>3, <2>4, <2>5 DEF ScansInv, ScansTyped
  <2>7. \A s \in Threads : /\ Active(s)' <=> Active(s) \/ s = t
                           /\ Active(s)' => scan[s] # Scan!Idle
                           /\ \A p \in {"drop", "insert", "match"} : Scan!At(s, p)' => Scan!At(s, p) /\ scan[s] # Scan!Idle
    BY <1>1, <2>2, IdleScan DEF Active, Scan!At, Scan!Idle
  <2>8. AloneAre'
    BY <2>2, <2>7 DEF AloneAre
  <2>9. ReplacingApart'
    BY <1>2, <2>7 DEF ScansInv, ReplacingApart
  <2>10. RowsAreRead'
    BY <1>2, <2>2, <2>7 DEF ScansInv, RowsAreRead
  <2>11. MatchedNow'
    BY <1>2 DEF ScansInv, MatchedNow
  <2>12. OverlapTorn'
    <3>1. SUFFICES ASSUME NEW s \in Threads, NEW u \in Threads, s # u, Active(s)', Active(u)', scan'[s].repo = scan'[u].repo
                   PROVE  scan'[u].repo \in torn'
      BY DEF OverlapTorn
    <3>2. scan[s] # Scan!Idle /\ scan[u] # Scan!Idle /\ scan[s].repo = scan[u].repo /\ scan'[u].repo = scan[u].repo
      BY <2>2, <2>7, <3>1
    <3>3. CASE s = t \/ u = t
      BY <2>1, <3>1, <3>2, <3>3
    <3>4. CASE s # t /\ u # t
      <4>1. Active(s) /\ Active(u)
        BY <2>7, <3>1, <3>4
      <4>2. scan[u].repo \in torn
        BY <3>1, <3>2, <4>1 DEF ScansInv, OverlapTorn
      <4>. QED
        BY <2>5, <3>2, <4>2
    <3>. QED
      BY <3>3, <3>4
  <2>13. BetweenCalls'
    <3>1. SUFFICES ASSUME NEW s \in Threads, Scan!At(s, "insert")', scan'[s].alone \/ scan'[s].repo \notin torn'
                   PROVE  Scan!RowsOf(scan'[s].repo, tests') = <<>>
      BY DEF BetweenCalls
    <3>2. Scan!At(s, "insert") /\ scan'[s].repo = scan[s].repo /\ (scan[s].alone \/ scan[s].repo \notin torn)
      BY <2>2, <2>5, <2>7, <3>1
    <3>. QED
      BY <1>2, <3>2 DEF ScansInv, BetweenCalls
  <2>14. Downloaded'
    BY <1>2, <2>2, <2>7 DEF ScansInv, Downloaded
  <2>15. Scan!RowsOfOneScan'
    BY <1>2, <2>5 DEF ScansInv, Scan!RowsOfOneScan
  <2>16. ShownRuns'
    <3>1. SUFFICES ASSUME NEW q \in Repos, q \notin stuck, status'[q] = "running"
                   PROVE  \E s \in Threads : Active(s)' /\ scan'[s].repo = q
      BY <1>2 DEF ShownRuns
    <3>2. CASE q = r
      <4>1. Active(t)' /\ scan'[t].repo = q
        BY <1>1, <2>2, <2>7, <3>2
      <4>. QED
        BY <4>1
    <3>3. CASE q # r
      <4>1. PICK s \in Threads : Active(s) /\ scan[s].repo = q
        BY <2>4, <3>1, <3>3 DEF ScansInv, ShownRuns
      <4>2. Active(s)' /\ scan'[s].repo = q
        BY <2>2, <2>7, <4>1
      <4>. QED
        BY <4>2
    <3>. QED
      BY <3>2, <3>3
  <2>. QED
    BY <2>6, <2>8, <2>9, <2>10, <2>11, <2>12, <2>13, <2>14, <2>15, <2>16 DEF ScansInv
<1>4. CASE r \notin live
  <2>1. scan' = [scan EXCEPT ![t] = Scan!Idle] /\ UNCHANGED <<status, torn>>
    BY <1>4 DEF Scan!Begin
  <2>2. scan' \in [Threads -> Scans \union {Scan!Idle}] /\ scan'[t] = Scan!Idle /\ \A s \in Threads : s # t => scan'[s] = scan[s]
    BY <2>1, OneMoves DEF ScansInv
  <2>3. ScansTyped'
    BY <1>2, <2>1, <2>2 DEF ScansInv, ScansTyped
  <2>4. \A s \in Threads : /\ (Active(s)' <=> Active(s)) /\ (Active(s) => scan'[s] = scan[s])
                           /\ \A p \in {"drop", "insert", "match"} : Scan!At(s, p)' => Scan!At(s, p) /\ scan'[s] = scan[s]
    BY <1>1, <2>2 DEF Active, Scan!At, Scan!Idle
  <2>5. AloneAre'
    BY <2>4 DEF ScansInv, AloneAre
  <2>6. ReplacingApart'
    BY <1>2, <2>4 DEF ScansInv, ReplacingApart
  <2>7. RowsAreRead'
    BY <1>2, <2>4 DEF ScansInv, RowsAreRead
  <2>8. MatchedNow'
    BY <1>2 DEF ScansInv, MatchedNow
  <2>9. OverlapTorn'
    BY <2>1, <2>4 DEF ScansInv, OverlapTorn
  <2>10. BetweenCalls'
    BY <1>2, <2>1, <2>4 DEF ScansInv, BetweenCalls
  <2>11. Downloaded'
    BY <1>2, <2>4 DEF ScansInv, Downloaded
  <2>12. Scan!RowsOfOneScan'
    BY <1>2, <2>1 DEF ScansInv, Scan!RowsOfOneScan
  <2>13. ShownRuns'
    BY <1>2, <2>1, <2>4 DEF ScansInv, ShownRuns
  <2>. QED
    BY <2>3, <2>5, <2>6, <2>7, <2>8, <2>9, <2>10, <2>11, <2>12, <2>13 DEF ScansInv
<1>. QED
  BY <1>3, <1>4

\* The archive of the repository as it is now, or a failure.
LEMMA DownloadKeeps ==
  ASSUME Scan!ScanAssumption, ScansInv, NEW t \in Threads, Scan!Download(t)
  PROVE  ScansInv'
<1> DEFINE r == scan[t].repo
           a == Archives[r][head[r]]
<1>1. scan[t] \in Scans /\ scan[t].pc = "fetch" /\ r \in Repos
  <2>1. Scan!At(t, "fetch") /\ "fetch" \in Stages
    BY DEF Scan!Download, Stages
  <2>. QED
    BY <2>1, ScanIs DEF Scan!At, Scans
<1>2. CASE scan' = [scan EXCEPT ![t].pc = "drop", ![t].archive = Archives[scan[t].repo][head[scan[t].repo]]] /\ UNCHANGED <<status, stuck>>
  <2>0. UNCHANGED <<live, head, status, tests, results, apart, torn, stuck>>
    BY <1>2 DEF Scan!Download, Scan!repoVars
  <2>1. head[r] \in DOMAIN Archives[r] /\ head[r] \in 1 .. head[r]
    BY <1>1 DEF ScansInv, ScansTyped, Scan!ScanAssumption, Scan!IsList
  <2>2. a \in ArchivesHeld /\ "drop" \in Stages /\ ScansTyped
    BY <1>1, <2>1 DEF ArchivesHeld, Stages, ScansInv
  <2>3. scan' = [scan EXCEPT ![t] = [[scan[t] EXCEPT !.pc = "drop"] EXCEPT !.archive = a]]
    BY <1>2 DEF ScansInv, ScansTyped
  <2>. HIDE DEF a
  <2>4. PICK y \in Scans : /\ scan' = [scan EXCEPT ![t] = y]
                           /\ y.pc = "drop" /\ y.repo = r /\ y.alone = scan[t].alone /\ y.archive = a
    <3> DEFINE z == [scan[t] EXCEPT !.pc = "drop"]
               y == [z EXCEPT !.archive = a]
    <3>1. y \in Scans /\ y.pc = "drop" /\ y.repo = r /\ y.alone = scan[t].alone /\ y.archive = a
      <4>1. z \in Scans /\ z.pc = "drop" /\ z.repo = r /\ z.alone = scan[t].alone
        BY <1>1, <2>2, PcSet
      <4>. HIDE DEF z
      <4>. QED
        BY <2>2, <4>1, ArchiveSet
    <3>2. scan' = [scan EXCEPT ![t] = y]
      BY <2>3
    <3>. HIDE DEF y
    <3>. QED
      BY <3>1, <3>2
  <2>5. \E v \in 1 .. head[y.repo] : y.archive = Archives[y.repo][v]
    BY <2>1, <2>4 DEF a
  <2>. QED
    BY <1>1, <2>0, <2>4, <2>5, BegunKeeps
<1>3. CASE Scan!Ends(t, "failed")
  BY <1>1, <1>3, EndsKeeps DEF Scan!Download, Scan!repoVars
<1>. QED
  BY <1>2, <1>3 DEF Scan!Download

\* replace_test_repo_cases deletes the rows of the repository.
LEMMA DropKeeps ==
  ASSUME ScansInv, NEW t \in Threads, Scan!DropRows(t)
  PROVE  ScansInv'
<1> DEFINE r == scan[t].repo
<1>1. scan[t] \in Scans /\ scan[t].pc = "drop" /\ r \in Repos
  <2>1. Scan!At(t, "drop") /\ "drop" \in Stages
    BY DEF Scan!DropRows, Stages
  <2>. QED
    BY <2>1, ScanIs DEF Scan!At, Scans
<1>2. /\ tests' = Scan!ItemsAt(tests, Others(r, tests)) /\ scan' = [scan EXCEPT ![t].pc = "insert"] /\ apart' = Features
      /\ UNCHANGED <<live, head, status, results, torn, stuck>>
  BY DEF Scan!DropRows, Scan!Goto, Scan!repoVars, Others
<1>3. PICK y \in Scans : /\ scan' = [scan EXCEPT ![t] = y]
                         /\ y.pc = "insert" /\ y.repo = r /\ y.alone = scan[t].alone /\ y.archive = scan[t].archive
  <2>1. "insert" \in Stages /\ ScansTyped /\ scan[t] \in Scans /\ scan' = [scan EXCEPT ![t].pc = "insert"]
    BY <1>1, <1>2 DEF Stages, ScansInv
  <2>2. \E y \in Scans :
            /\ scan' = [scan EXCEPT ![t] = y]
            /\ y.pc = "insert" /\ y.repo = scan[t].repo /\ y.alone = scan[t].alone /\ y.archive = scan[t].archive
            /\ y.rows = scan[t].rows
    BY <2>1, ScanGoes, Zenon
  <2>. QED
    BY <2>2
<1>4. scan' \in [Threads -> Scans \union {Scan!Idle}] /\ scan'[t] = y /\ \A s \in Threads : s # t => scan'[s] = scan[s]
  BY <1>3, OneMoves DEF ScansInv
<1>5. tests \in Seq(ScanRow)
  BY DEF ScansInv, ScansTyped
<1>6. tests' \in Seq(ScanRow) /\ Scan!RowsOf(r, tests') = <<>> /\ \A q : q # r => Scan!RowsOf(q, tests') = Scan!RowsOf(q, tests)
  BY <1>2, <1>5, RowsGone, RowsStay
<1>7. ScansTyped'
  BY <1>2, <1>4, <1>6 DEF ScansInv, ScansTyped
<1>8. AloneAre' /\ OverlapTorn' /\ ShownRuns'
  BY <1>1, <1>2, <1>3, BegunGoes
<1>9. ReplacingApart'
  BY <1>2 DEF ReplacingApart
<1>10. RowsAreRead'
  <2>1. SUFFICES ASSUME NEW s \in Threads, Scan!At(s, "match")', scan'[s].alone
                 PROVE  FALSE
    BY DEF RowsAreRead
  <2>2. s # t /\ scan[s] = scan'[s]
    BY <1>3, <1>4, <2>1 DEF Scan!At
  <2>3. Active(s) /\ Active(t) /\ scan[s].alone
    BY <1>1, <2>1, <2>2, IdleScan DEF Scan!At, Active, Scan!Idle
  <2>. QED
    BY <2>2, <2>3 DEF ScansInv, AloneAre
<1>11. MatchedNow'
  BY <1>2 DEF MatchedNow
<1>12. BetweenCalls'
  <2>1. SUFFICES ASSUME NEW s \in Threads, Scan!At(s, "insert")', scan'[s].alone \/ scan'[s].repo \notin torn
                 PROVE  Scan!RowsOf(scan'[s].repo, tests') = <<>>
    BY <1>2 DEF BetweenCalls
  <2>2. CASE s = t \/ scan'[s].repo = r
    BY <1>3, <1>4, <1>6, <2>2
  <2>3. CASE s # t /\ scan'[s].repo # r
    <3>1. scan[s] = scan'[s] /\ Scan!At(s, "insert")
      BY <1>4, <2>1, <2>3 DEF Scan!At
    <3>2. Scan!RowsOf(scan[s].repo, tests) = <<>>
      BY <2>1, <3>1 DEF ScansInv, BetweenCalls
    <3>. QED
      BY <1>6, <2>3, <3>1, <3>2
  <2>. QED
    BY <2>2, <2>3
<1>13. Downloaded'
  <2>1. \E v \in 1 .. head[r] : scan[t].archive = Archives[r][v]
    BY <1>1 DEF ScansInv, Downloaded, Scan!At
  <2>. QED
    BY <1>2, <1>3, <1>4, <2>1 DEF ScansInv, Downloaded, Scan!At
<1>14. Scan!RowsOfOneScan'
  BY <1>2, <1>6 DEF ScansInv, Scan!RowsOfOneScan
<1>. QED
  BY <1>7, <1>8, <1>9, <1>10, <1>11, <1>12, <1>13, <1>14 DEF ScansInv

\* and inserts those of the archive.
LEMMA InsertKeeps ==
  ASSUME Scan!ScanAssumption, ScansInv, NEW t \in Threads, Scan!InsertRows(t)
  PROVE  ScansInv'
<1> DEFINE r == scan[t].repo
           new == Scan!RowsIn(r, scan[t].archive)
<1>1. scan[t] \in Scans /\ scan[t].pc = "insert" /\ r \in Repos /\ Scan!At(t, "insert") /\ scan[t].alone \in BOOLEAN
  <2>1. Scan!At(t, "insert") /\ "insert" \in Stages
    BY DEF Scan!InsertRows, Stages
  <2>. QED
    BY <2>1, ScanIs DEF Scan!At, Scans
<1>2. /\ tests' = tests \o new /\ scan' = [scan EXCEPT ![t].pc = "list"]
      /\ torn' = IF scan[t].alone THEN torn \ {r} ELSE torn
      /\ UNCHANGED <<live, head, status, results, apart, stuck>>
  BY DEF Scan!InsertRows, Scan!Goto, Scan!repoVars
<1>3. PICK y \in Scans : /\ scan' = [scan EXCEPT ![t] = y]
                         /\ y.pc = "list" /\ y.repo = r /\ y.alone = scan[t].alone
  <2>1. "list" \in Stages /\ ScansTyped /\ scan[t] \in Scans /\ scan' = [scan EXCEPT ![t].pc = "list"]
    BY <1>1, <1>2 DEF Stages, ScansInv
  <2>2. \E y \in Scans :
            /\ scan' = [scan EXCEPT ![t] = y]
            /\ y.pc = "list" /\ y.repo = scan[t].repo /\ y.alone = scan[t].alone /\ y.archive = scan[t].archive
            /\ y.rows = scan[t].rows
    BY <2>1, ScanGoes, Zenon
  <2>. QED
    BY <2>2
<1>4. scan' \in [Threads -> Scans \union {Scan!Idle}] /\ scan'[t] = y /\ \A s \in Threads : s # t => scan'[s] = scan[s]
  BY <1>3, OneMoves DEF ScansInv
<1>5. PICK v \in 1 .. head[r] : scan[t].archive = Archives[r][v]
  BY <1>1 DEF ScansInv, Downloaded
<1>6. v \in DOMAIN Archives[r]
  <2>1. head[r] \in DOMAIN Archives[r] /\ DOMAIN Archives[r] = 1 .. Len(Archives[r]) /\ Len(Archives[r]) \in Nat /\ head[r] \in Nat
    BY <1>1 DEF ScansInv, ScansTyped, Scan!ScanAssumption, Scan!IsList
  <2>. QED
    BY <1>5, <2>1
<1>7. tests \in Seq(ScanRow) /\ new \in Seq(ScanRow) /\ \A i \in DOMAIN new : new[i].repo = r
  <2>1. tests \in Seq(ScanRow)
    BY DEF ScansInv, ScansTyped
  <2>2. new = Scan!RowsIn(r, Archives[r][v])
    BY <1>5
  <2> DEFINE given == Scan!RowsIn(r, Archives[r][v])
  <2>3. given \in Seq(ScanRow) /\ \A i \in DOMAIN given : given[i].repo = r
    BY <1>1, <1>6, RowsAre
  <2>. HIDE DEF new, given
  <2>. QED
    BY <2>1, <2>2, <2>3 DEF given
<1>. HIDE DEF new
<1>8. tests' \in Seq(ScanRow) /\ \A q : q # r => Scan!RowsOf(q, tests') = Scan!RowsOf(q, tests)
  <2>1. tests' \in Seq(ScanRow)
    BY <1>2, <1>7, ConcatProperties
  <2>2. ASSUME NEW q, q # r PROVE Scan!RowsOf(q, tests') = Scan!RowsOf(q, tests)
    BY <1>2, <1>7, <2>2, RowsAside
  <2>. QED
    BY <2>1, <2>2
<1>9. Scan!RowsOf(r, tests) = <<>> => Scan!RowsOf(r, tests') = new
  <2>1. ASSUME Scan!RowsOf(r, tests) = <<>> PROVE Scan!RowsOf(r, tests \o new) = new
    <3> DEFINE q == r
    <3>1. tests \in Seq(ScanRow) /\ new \in Seq(ScanRow) /\ (\A i \in DOMAIN new : new[i].repo = q) /\ Scan!RowsOf(q, tests) = <<>>
      BY <1>7, <2>1
    <3>. HIDE DEF q
    <3>2. Scan!RowsOf(q, tests \o new) = new
      BY <3>1, RowsCome
    <3>. QED
      BY <3>2 DEF q
  <2>. QED
    BY <1>2, <2>1
<1>10. ScansTyped'
  <2>1. torn' \in SUBSET Repos
    BY <1>2 DEF ScansInv, ScansTyped
  <2>. QED
    BY <1>2, <1>4, <1>8, <2>1 DEF ScansInv, ScansTyped
<1>11. AloneAre' /\ ShownRuns'
       /\ \A s \in Threads : /\ Active(s)' <=> Active(s)
                             /\ scan[s] # Scan!Idle => scan'[s].repo = scan[s].repo /\ scan'[s].alone = scan[s].alone
  BY <1>1, <1>2, <1>3, BegunGoes
<1>12. Active(t) /\ (scan[t].alone => \A s \in Threads : s # t => ~Active(s))
  <2>1. Active(t)
    BY <1>1, IdleScan DEF Active
  <2>. QED
    BY <2>1 DEF ScansInv, AloneAre
<1>13. ReplacingApart'
  BY <1>2, <1>3, <1>4 DEF ScansInv, ReplacingApart, Scan!At
<1>14. RowsAreRead'
  <2>1. SUFFICES ASSUME NEW s \in Threads, Scan!At(s, "match")', scan'[s].alone
                 PROVE  FALSE
    BY DEF RowsAreRead
  <2>2. s # t /\ scan[s] = scan'[s]
    BY <1>3, <1>4, <2>1 DEF Scan!At
  <2>3. Active(s) /\ scan[s].alone
    BY <2>1, <2>2, IdleScan DEF Scan!At, Active, Scan!Idle
  <2>. QED
    BY <1>12, <2>2, <2>3 DEF ScansInv, AloneAre
<1>15. MatchedNow'
  BY <1>1, <1>2 DEF ScansInv, MatchedNow, ReplacingApart
<1>16. OverlapTorn'
  <2>1. SUFFICES ASSUME NEW s \in Threads, NEW u \in Threads, s # u, Active(s)', Active(u)', scan'[s].repo = scan'[u].repo
                 PROVE  scan'[u].repo \in torn'
    BY DEF OverlapTorn
  <2>2. Active(s) /\ Active(u) /\ scan[s].repo = scan[u].repo /\ scan'[u].repo = scan[u].repo
    <3>1. Active(s) /\ Active(u)
      BY <1>11, <2>1
    <3>2. scan[s] # Scan!Idle /\ scan[u] # Scan!Idle
      BY <3>1 DEF Active
    <3>. QED
      BY <1>11, <2>1, <3>1, <3>2
  <2>3. ~scan[t].alone
    BY <1>12, <2>1, <2>2
  <2>4. scan[u].repo \in torn
    BY <2>1, <2>2 DEF ScansInv, OverlapTorn
  <2>. QED
    BY <1>2, <2>2, <2>3, <2>4
<1>17. BetweenCalls'
  <2>1. SUFFICES ASSUME NEW s \in Threads, Scan!At(s, "insert")', scan'[s].alone \/ scan'[s].repo \notin torn'
                 PROVE  Scan!RowsOf(scan'[s].repo, tests') = <<>>
    BY DEF BetweenCalls
  <2>2. s # t /\ scan[s] = scan'[s] /\ Scan!At(s, "insert")
    BY <1>3, <1>4, <2>1 DEF Scan!At
  <2>3. Active(s)
    BY <2>2 DEF Active, Scan!At, Scan!Idle
  <2>4. ~scan[t].alone /\ torn' = torn
    BY <1>2, <1>12, <2>2, <2>3
  <2>5. Scan!RowsOf(scan[s].repo, tests) = <<>>
    BY <2>1, <2>2, <2>4 DEF ScansInv, BetweenCalls
  <2>6. ~scan[s].alone
    BY <1>12, <2>2, <2>3 DEF ScansInv, AloneAre
  <2>7. scan[s].repo # r
    <3>1. SUFFICES ASSUME scan[s].repo = r PROVE FALSE
      OBVIOUS
    <3>2. r \in torn
      BY <1>12, <2>2, <2>3, <3>1 DEF ScansInv, OverlapTorn
    <3>. QED
      BY <2>1, <2>2, <2>4, <2>6, <3>1, <3>2
  <2>. QED
    BY <1>8, <2>2, <2>5, <2>7
<1>18. Downloaded'
  BY <1>2, <1>3, <1>4 DEF ScansInv, Downloaded, Scan!At
<1>19. Scan!RowsOfOneScan'
  <2>1. SUFFICES ASSUME NEW q \in Repos, q \notin torn'
                 PROVE  \/ Scan!RowsOf(q, tests') = <<>>
                        \/ \E n \in 1 .. head[q] : Scan!RowsOf(q, tests') = Scan!RowsIn(q, Archives[q][n])
    BY <1>2 DEF Scan!RowsOfOneScan
  <2>2. CASE q = r
    <3>1. scan[t].alone \/ r \notin torn
      BY <1>2, <2>1, <2>2
    <3>2. Scan!RowsOf(r, tests) = <<>>
      BY <1>1, <3>1 DEF ScansInv, BetweenCalls
    <3>3. Scan!RowsOf(q, tests') = Scan!RowsIn(q, Archives[q][v])
      BY <1>5, <1>9, <2>2, <3>2 DEF new
    <3>. QED
      BY <1>5, <2>2, <3>3
  <2>3. CASE q # r
    <3>1. q \notin torn
      BY <1>2, <2>1, <2>3
    <3>. QED
      BY <1>8, <2>3, <3>1 DEF ScansInv, Scan!RowsOfOneScan
  <2>. QED
    BY <2>2, <2>3
<1>. QED
  BY <1>10, <1>11, <1>13, <1>14, <1>15, <1>16, <1>17, <1>18, <1>19 DEF ScansInv

\* list_test_repo_cases: the rows of the project are read.
LEMMA ListKeeps ==
  ASSUME ScansInv, NEW t \in Threads, Scan!List(t)
  PROVE  ScansInv'
<1> DEFINE todo == IF scan[t].scope = None THEN Features ELSE {scan[t].scope}
<1>1. scan[t] \in Scans /\ scan[t].pc = "list" /\ scan[t].scope \in Scopes
  <2>1. Scan!At(t, "list") /\ "list" \in Stages
    BY DEF Scan!List, Stages
  <2>. QED
    BY <2>1, ScanIs DEF Scan!At, Scans
<1>2. scan' = [scan EXCEPT ![t].pc = "match", ![t].rows = tests, ![t].todo = todo]
      /\ UNCHANGED <<live, head, status, tests, results, apart, torn, stuck>>
  BY DEF Scan!List, Scan!Listed, Scan!repoVars, Scan!history
<1>5. scan' = [scan EXCEPT ![t] = [[[scan[t] EXCEPT !.pc = "match"] EXCEPT !.rows = tests] EXCEPT !.todo = todo]]
  BY <1>2 DEF ScansInv, ScansTyped
<1>3. todo \in SUBSET Features /\ tests \in Seq(ScanRow) /\ "match" \in Stages /\ ScansTyped
  BY <1>1 DEF Scopes, ScansInv, ScansTyped, Stages
<1>. HIDE DEF todo
<1>4. PICK y \in Scans : /\ scan' = [scan EXCEPT ![t] = y]
                         /\ y.pc = "match" /\ y.repo = scan[t].repo /\ y.alone = scan[t].alone /\ y.rows = tests
  <2> DEFINE u == [scan[t] EXCEPT !.pc = "match"]
             z == [u EXCEPT !.rows = tests]
             y == [z EXCEPT !.todo = todo]
  <2>1. y \in Scans /\ y.pc = "match" /\ y.repo = scan[t].repo /\ y.alone = scan[t].alone /\ y.rows = tests
    <3>1. u \in Scans /\ u.pc = "match" /\ u.repo = scan[t].repo /\ u.alone = scan[t].alone
      BY <1>1, <1>3, PcSet
    <3>. HIDE DEF u
    <3>2. z \in Scans /\ z.pc = "match" /\ z.repo = scan[t].repo /\ z.alone = scan[t].alone /\ z.rows = tests
      BY <1>3, <3>1, RowsSet
    <3>. HIDE DEF z
    <3>. QED
      BY <1>3, <3>2, TodoSet
  <2>2. scan' = [scan EXCEPT ![t] = y]
    BY <1>5
  <2>. HIDE DEF y
  <2>. QED
    BY <2>1, <2>2
<1>. QED
  BY <1>1, <1>2, <1>4, BegunKeeps

\* A feature is matched: what a scan that is alone saves is current.
LEMMA MatchKeeps ==
  ASSUME ScansInv, NEW t \in Threads, NEW f \in Features, Scan!MatchFeature(t, f)
  PROVE  ScansInv'
<1>1. scan[t] \in Scans /\ scan[t].pc = "match" /\ Scan!At(t, "match") /\ scan[t].alone \in BOOLEAN
  <2>1. Scan!At(t, "match") /\ "match" \in Stages
    BY DEF Scan!MatchFeature, Stages
  <2>. QED
    BY <2>1, ScanIs DEF Scan!At, Scans
<1>2. scan' = [scan EXCEPT ![t].todo = @ \ {f}] /\ UNCHANGED <<live, head, status, tests, torn, stuck>>
  BY DEF Scan!MatchFeature, Scan!repoVars
<1>3. PICK y \in Scans : /\ scan' = [scan EXCEPT ![t] = y]
                         /\ y.pc = "match" /\ y.repo = scan[t].repo /\ y.alone = scan[t].alone /\ y.rows = scan[t].rows
  <2>1. ScansTyped
    BY DEF ScansInv
  <2>. QED
    <3>1. \E y \in Scans :
              /\ scan' = [scan EXCEPT ![t] = y]
              /\ y.pc = scan[t].pc /\ y.repo = scan[t].repo /\ y.alone = scan[t].alone /\ y.archive = scan[t].archive
              /\ y.rows = scan[t].rows
      BY <1>1, <1>2, <2>1, ScanMatches, Zenon
    <3>. QED
      BY <1>1, <3>1
<1>4. scan' \in [Threads -> Scans \union {Scan!Idle}] /\ scan'[t] = y /\ \A s \in Threads : s # t => scan'[s] = scan[s]
  BY <1>3, OneMoves DEF ScansInv
<1>5. CASE CasesOf[f] = <<>>
  <2>1. UNCHANGED <<live, head, status, tests, results, apart, torn, stuck>>
    BY <1>2, <1>5 DEF Scan!MatchFeature
  <2>2. y.alone => y.rows = tests
    BY <1>1, <1>3 DEF ScansInv, RowsAreRead
  <2>. QED
    BY <1>1, <1>3, <2>1, <2>2, BegunKeeps
<1>6. CASE CasesOf[f] # <<>>
  <2>1. /\ results' = [results EXCEPT ![f] = Scan!Coverage(f, scan[t].rows)]
        /\ apart' = IF scan[t].alone THEN apart \ {f} ELSE apart \union {f}
    BY <1>6 DEF Scan!MatchFeature
  <2>2. Active(t) /\ (scan[t].alone => \A s \in Threads : s # t => ~Active(s))
    <3>1. Active(t)
      BY <1>1, IdleScan DEF Active
    <3>. QED
      BY <3>1 DEF ScansInv, AloneAre
  <2>3. results' = [g \in Features |-> results'[g]] /\ results'[f] = Scan!Coverage(f, scan[t].rows)
        /\ \A g \in Features : g # f => results'[g] = results[g]
    BY <2>1 DEF ScansInv, ScansTyped
  <2>4. apart' \in SUBSET Features /\ (~scan[t].alone => apart \subseteq apart' /\ f \in apart')
        /\ (scan[t].alone => apart' = apart \ {f})
    BY <2>1 DEF ScansInv, ScansTyped
  <2>5. ScansTyped'
    BY <1>2, <1>4, <2>3, <2>4 DEF ScansInv, ScansTyped
  <2>6. AloneAre' /\ OverlapTorn' /\ ShownRuns'
    BY <1>1, <1>2, <1>3, BegunGoes
  <2>7. ReplacingApart'
    <3>1. SUFFICES ASSUME NEW s \in Threads, Scan!At(s, "insert")' PROVE apart' = Features
      BY DEF ReplacingApart
    <3>2. s # t /\ Scan!At(s, "insert")
      BY <1>3, <1>4, <3>1 DEF Scan!At
    <3>3. Active(s) /\ apart = Features
      BY <3>2 DEF Active, Scan!At, Scan!Idle, ScansInv, ReplacingApart
    <3>4. ~scan[t].alone
      BY <2>2, <3>2, <3>3
    <3>. QED
      BY <2>4, <3>3, <3>4
  <2>8. RowsAreRead'
    BY <1>1, <1>2, <1>3, <1>4 DEF ScansInv, RowsAreRead, Scan!At
  <2>9. MatchedNow'
    <3>1. SUFFICES ASSUME NEW g \in Features, g \notin apart', CasesOf[g] # <<>> PROVE results'[g] = Scan!Coverage(g, tests)
      BY <1>2 DEF MatchedNow
    <3>2. CASE g = f
      <4>1. scan[t].alone
        BY <2>4, <3>1, <3>2
      <4>2. scan[t].rows = tests
        BY <1>1, <4>1 DEF ScansInv, RowsAreRead
      <4>. QED
        BY <2>3, <3>2, <4>2
    <3>3. CASE g # f
      <4>1. g \notin apart
        BY <1>1, <2>4, <3>1, <3>3
      <4>. QED
        BY <2>3, <3>1, <3>3, <4>1 DEF ScansInv, MatchedNow
    <3>. QED
      BY <3>2, <3>3
  <2>10. BetweenCalls'
    BY <1>2, <1>3, <1>4 DEF ScansInv, BetweenCalls, Scan!At
  <2>11. Downloaded'
    BY <1>2, <1>3, <1>4 DEF ScansInv, Downloaded, Scan!At
  <2>12. Scan!RowsOfOneScan'
    BY <1>2 DEF ScansInv, Scan!RowsOfOneScan
  <2>. QED
    BY <2>5, <2>6, <2>7, <2>8, <2>9, <2>10, <2>11, <2>12 DEF ScansInv
<1>. QED
  BY <1>5, <1>6

\* A scan ends, or fails.
LEMMA FinishKeeps ==
  ASSUME ScansInv, NEW t \in Threads, Scan!Finish(t) \/ Scan!Fail(t)
  PROVE  ScansInv'
<1>1. scan[t] \in Scans
  <2>1. scan[t].pc \in Stages
    BY DEF Scan!Finish, Scan!Fail, Scan!At, Stages
  <2>. QED
    BY <2>1, ScanIs DEF Scan!At
<1>2. CASE Scan!Finish(t)
  BY <1>1, <1>2, EndsKeeps DEF Scan!Finish, Scan!repoVars
<1>3. CASE Scan!Fail(t)
  BY <1>1, <1>3, EndsKeeps DEF Scan!Fail, Scan!repoVars
<1>. QED
  BY <1>2, <1>3

\* A push only adds a state the rows may be of.
LEMMA PushKeeps ==
  ASSUME Scan!ScanAssumption, ScansInv, NEW r \in Repos, Scan!Push(r)
  PROVE  ScansInv'
<1>1. head' = [head EXCEPT ![r] = @ + 1] /\ head[r] < Len(Archives[r])
      /\ UNCHANGED <<live, status, tests, results, scan, apart, torn, stuck>>
  BY DEF Scan!Push, Scan!history
<1>2. head' \in [Repos -> Nat] /\ \A q \in Repos : head'[q] \in DOMAIN Archives[q] /\ head[q] <= head'[q] /\ head[q] \in Nat
  <2>1. head \in [Repos -> Nat] /\ \A q \in Repos : head[q] \in DOMAIN Archives[q]
    BY DEF ScansInv, ScansTyped
  <2>2. Len(Archives[r]) \in Nat /\ DOMAIN Archives[r] = 1 .. Len(Archives[r])
    BY DEF Scan!ScanAssumption, Scan!IsList
  <2>3. head'[r] = head[r] + 1 /\ \A q \in Repos : q # r => head'[q] = head[q]
    BY <1>1, <2>1
  <2>4. head[r] \in Nat /\ head'[r] \in DOMAIN Archives[r] /\ head[r] <= head'[r] /\ head'[r] \in Nat
    BY <1>1, <2>1, <2>2, <2>3
  <2>5. \A q \in Repos : head'[q] \in Nat /\ head'[q] \in DOMAIN Archives[q] /\ head[q] <= head'[q] /\ head[q] \in Nat
    BY <2>1, <2>3, <2>4
  <2>6. head' = [q \in Repos |-> head'[q]]
    BY <1>1, <2>1
  <2>. QED
    BY <2>5, <2>6
<1>3. \A q \in Repos : \A v \in 1 .. head[q] : v \in 1 .. head'[q]
  <2>1. SUFFICES ASSUME NEW q \in Repos, NEW v \in 1 .. head[q] PROVE v \in 1 .. head'[q]
    OBVIOUS
  <2>2. head[q] \in Nat /\ head'[q] \in Nat /\ head[q] <= head'[q]
    BY <1>2
  <2>. QED
    BY <2>2
<1>4. ScansTyped'
  BY <1>1, <1>2 DEF ScansInv, ScansTyped
<1>5. AloneAre' /\ ReplacingApart' /\ RowsAreRead' /\ MatchedNow' /\ OverlapTorn' /\ BetweenCalls' /\ ShownRuns'
  BY <1>1 DEF ScansInv, AloneAre, ReplacingApart, RowsAreRead, MatchedNow, OverlapTorn, BetweenCalls, ShownRuns, Active, Scan!At
<1>6. Downloaded'
  <2>1. SUFFICES ASSUME NEW t \in Threads, Scan!At(t, "drop") \/ Scan!At(t, "insert")
                 PROVE  \E v \in 1 .. head'[scan[t].repo] : scan[t].archive = Archives[scan[t].repo][v]
    BY <1>1 DEF Downloaded, Scan!At
  <2>2. scan[t].repo \in Repos
    BY <2>1, ScanIs DEF Stages, Scans
  <2>3. PICK v \in 1 .. head[scan[t].repo] : scan[t].archive = Archives[scan[t].repo][v]
    BY <2>1 DEF ScansInv, Downloaded
  <2>. QED
    BY <1>3, <2>2, <2>3
<1>7. Scan!RowsOfOneScan'
  <2>1. SUFFICES ASSUME NEW q \in Repos, q \notin torn, Scan!RowsOf(q, tests) # <<>>
                 PROVE  \E v \in 1 .. head'[q] : Scan!RowsOf(q, tests) = Scan!RowsIn(q, Archives[q][v])
    BY <1>1 DEF Scan!RowsOfOneScan
  <2>2. PICK v \in 1 .. head[q] : Scan!RowsOf(q, tests) = Scan!RowsIn(q, Archives[q][v])
    BY <2>1 DEF ScansInv, Scan!RowsOfOneScan
  <2>. QED
    BY <1>3, <2>2
<1>. QED
  BY <1>4, <1>5, <1>6, <1>7 DEF ScansInv

\* A repository that is disconnected keeps its rows.
LEMMA DisconnectKeeps ==
  ASSUME ScansInv, NEW r \in Repos, Scan!Disconnect(r)
  PROVE  ScansInv'
<1>1. live' = live \ {r} /\ UNCHANGED <<head, status, tests, results, scan, apart, torn, stuck>>
  BY DEF Scan!Disconnect, Scan!history
<1>2. ScansTyped'
  BY <1>1 DEF ScansInv, ScansTyped
<1>3. AloneAre' /\ ReplacingApart' /\ RowsAreRead' /\ MatchedNow' /\ OverlapTorn' /\ BetweenCalls' /\ ShownRuns' /\ Downloaded'
      /\ Scan!RowsOfOneScan'
  BY <1>1 DEF ScansInv, AloneAre, ReplacingApart, RowsAreRead, MatchedNow, OverlapTorn, BetweenCalls, ShownRuns, Downloaded,
              Scan!RowsOfOneScan, Active, Scan!At
<1>. QED
  BY <1>2, <1>3 DEF ScansInv

\* scan/reset changes what is shown alone.
LEMMA ResetKeeps ==
  ASSUME ScansInv, NEW r \in Repos, Scan!Reset(r)
  PROVE  ScansInv'
<1>1. status' = [status EXCEPT ![r] = "failed"] /\ stuck' = stuck \ {r}
      /\ UNCHANGED <<live, head, tests, results, scan, apart, torn>>
  BY DEF Scan!Reset, Scan!repoVars
<1>2. status' \in [Repos -> ScanStatuses] /\ status'[r] # "running" /\ \A q \in Repos : q # r => status'[q] = status[q]
  BY <1>1 DEF ScansInv, ScansTyped, ScanStatuses
<1>3. ScansTyped'
  BY <1>1, <1>2 DEF ScansInv, ScansTyped
<1>4. AloneAre' /\ ReplacingApart' /\ RowsAreRead' /\ MatchedNow' /\ OverlapTorn' /\ BetweenCalls' /\ Downloaded' /\ Scan!RowsOfOneScan'
  BY <1>1 DEF ScansInv, AloneAre, ReplacingApart, RowsAreRead, MatchedNow, OverlapTorn, BetweenCalls, Downloaded,
              Scan!RowsOfOneScan, Active, Scan!At
<1>5. ShownRuns'
  <2>1. SUFFICES ASSUME NEW q \in Repos, q \notin stuck', status'[q] = "running"
                 PROVE  \E t \in Threads : Active(t) /\ scan[t].repo = q
    BY <1>1 DEF ShownRuns, Active
  <2>2. q \notin stuck /\ status[q] = "running"
    BY <1>1, <1>2, <2>1
  <2>. QED
    BY <2>2 DEF ScansInv, ShownRuns
<1>. QED
  BY <1>3, <1>4, <1>5 DEF ScansInv

\* A crash leaves the repositories under a scan shown as scanned.
LEMMA CrashKeeps ==
  ASSUME ScansInv, Scan!Crash
  PROVE  ScansInv'
<1>1. scan' = [t \in Threads |-> Scan!Idle] /\ stuck' = stuck \union {r \in Repos : Scan!Busy(r)}
      /\ UNCHANGED <<live, head, status, tests, results, apart, torn>>
  BY DEF Scan!Crash, Scan!repoVars
<1>2. \A t \in Threads : scan'[t] = Scan!Idle /\ ~(Active(t)') /\ \A p \in Stages : ~(Scan!At(t, p)')
  BY <1>1 DEF Active, Scan!At, Scan!Idle, Stages
<1>3. ScansTyped'
  BY <1>1 DEF ScansInv, ScansTyped
<1>4. AloneAre' /\ ReplacingApart' /\ RowsAreRead' /\ OverlapTorn' /\ BetweenCalls' /\ Downloaded'
  BY <1>2 DEF AloneAre, ReplacingApart, RowsAreRead, OverlapTorn, BetweenCalls, Downloaded, Stages
<1>5. MatchedNow' /\ Scan!RowsOfOneScan'
  BY <1>1 DEF ScansInv, MatchedNow, Scan!RowsOfOneScan
<1>6. ShownRuns'
  <2>1. SUFFICES ASSUME NEW q \in Repos, q \notin stuck', status[q] = "running" PROVE FALSE
    BY <1>1 DEF ShownRuns
  <2>2. q \notin stuck /\ ~Scan!Busy(q)
    BY <1>1, <2>1
  <2>. QED
    BY <2>1, <2>2 DEF ScansInv, ShownRuns, Active, Scan!Busy
<1>. QED
  BY <1>3, <1>4, <1>5, <1>6 DEF ScansInv

-----------------------------------------------------------------------------
(* The theorems                                                             *)

\* The invariant holds at first,
LEMMA ScansInit ==
  ASSUME Scan!ScanAssumption, Scan!Init
  PROVE  ScansInv
<1>1. /\ live = Repos /\ head = [r \in Repos |-> 1] /\ status = [r \in Repos |-> "never"] /\ tests = <<>>
      /\ results = [f \in Features |-> None] /\ scan = [t \in Threads |-> Scan!Idle]
      /\ apart = Features /\ torn = {} /\ stuck = {}
  BY DEF Scan!Init
<1>2. \A t \in Threads : scan[t] = Scan!Idle /\ ~Active(t) /\ \A p \in Stages : ~Scan!At(t, p)
  BY <1>1 DEF Active, Scan!At, Scan!Idle, Stages
<1>3. \A r \in Repos : head[r] \in DOMAIN Archives[r]
  BY <1>1 DEF Scan!ScanAssumption, Scan!IsList
<1>4. tests \in Seq(ScanRow) /\ \A r : Scan!RowsOf(r, tests) = <<>>
  <2>1. tests \in Seq(ScanRow)
    BY <1>1, EmptySeq
  <2>2. ASSUME NEW r PROVE Scan!RowsOf(r, tests) = <<>>
    <3> DEFINE P == Positions(r, tests)
    <3>1. Scan!RowsOf(r, tests) = Scan!ItemsAt(tests, P) /\ P \in SUBSET DOMAIN tests
      BY <2>1, RowsOfIs
    <3>. HIDE DEF P
    <3>2. P = {}
      BY <1>1, <2>1, <3>1, EmptySeq, LenProperties
    <3>3. Scan!ItemsAt(tests, P) \in Seq(ScanRow) /\ Len(Scan!ItemsAt(tests, P)) = Cardinality(P)
      BY <2>1, <3>1, ItemsAre
    <3>. QED
      BY <3>1, <3>2, <3>3, FS_EmptySet, EmptySeq
  <2>. QED
    BY <2>1, <2>2
<1>5. ScansTyped
  BY <1>1, <1>3, <1>4 DEF ScansTyped, ScanStatuses
<1>6. AloneAre /\ ReplacingApart /\ RowsAreRead /\ OverlapTorn /\ BetweenCalls /\ Downloaded
  BY <1>2 DEF AloneAre, ReplacingApart, RowsAreRead, OverlapTorn, BetweenCalls, Downloaded, Stages
<1>7. MatchedNow /\ Scan!RowsOfOneScan /\ ShownRuns
  BY <1>1, <1>4 DEF MatchedNow, Scan!RowsOfOneScan, ShownRuns
<1>. QED
  BY <1>5, <1>6, <1>7 DEF ScansInv

\* and a step keeps it.
LEMMA ScansStep ==
  ASSUME Scan!ScanAssumption, ScansInv, [Scan!Next]_(Scan!vars)
  PROVE  ScansInv'
<1>1. ASSUME NEW t \in Threads, Scan!Worker(t) PROVE ScansInv'
  <2>1. CASE Scan!Begin(t)
    BY <2>1, BeginKeeps
  <2>2. CASE Scan!Download(t)
    BY <2>2, DownloadKeeps
  <2>3. CASE Scan!DropRows(t)
    BY <2>3, DropKeeps
  <2>4. CASE Scan!InsertRows(t)
    BY <2>4, InsertKeeps
  <2>5. CASE Scan!List(t)
    BY <2>5, ListKeeps
  <2>6. CASE \E f \in Features : Scan!MatchFeature(t, f)
    BY <2>6, MatchKeeps
  <2>7. CASE Scan!Finish(t) \/ Scan!Fail(t)
    BY <2>7, FinishKeeps
  <2>. QED
    BY <1>1, <2>1, <2>2, <2>3, <2>4, <2>5, <2>6, <2>7 DEF Scan!Worker
<1>2. ASSUME NEW t \in Threads, NEW r \in Repos, NEW scope \in Features \union {None}, Scan!Request(t, r, scope) PROVE ScansInv'
  BY <1>2, RequestKeeps DEF Scopes
<1>3. ASSUME NEW r \in Repos, Scan!Push(r) \/ Scan!Disconnect(r) \/ Scan!Reset(r) PROVE ScansInv'
  BY <1>3, PushKeeps, DisconnectKeeps, ResetKeeps
<1>4. CASE Scan!Crash
  BY <1>4, CrashKeeps
<1>5. CASE UNCHANGED Scan!vars
  <2>1. UNCHANGED <<live, head, status, tests, results, scan, apart, torn, stuck>>
    BY <1>5 DEF Scan!vars, Scan!repoVars, Scan!history
  <2>. QED
    BY <2>1 DEF ScansInv, ScansTyped, AloneAre, ReplacingApart, RowsAreRead, MatchedNow, OverlapTorn, BetweenCalls, Downloaded,
              Scan!RowsOfOneScan, ShownRuns, Active, Scan!At
<1>. QED
  BY <1>1, <1>2, <1>3, <1>4, <1>5 DEF Scan!Next

\* repo_scan_worker.py: the invariant of scans, for any repositories, archives,
\* cases and threads.
THEOREM ScansInvariant == Scan!Spec => []ScansInv
<1>1. Scan!Init => ScansInv
  BY ArchivesAssumption, ScansInit
<1>2. ScansInv /\ [Scan!Next]_(Scan!vars) => ScansInv'
  BY ArchivesAssumption, ScansStep
<1>. QED
  BY <1>1, <1>2, PTL DEF Scan!Spec

\* repo_scan_worker.py, replace_test_repo_cases: at rest a feature's coverage is
\* that of the rows there are unless its last scan was disturbed; the rows of a
\* repository are those of one of its states unless scans of it overlapped; and a
\* repository is shown as scanned only while it is, or after a crash.
THEOREM ScansAreSound == Scan!Spec => []ScansSound
<1>1. ScansInv => ScansSound
  <2>1. SUFFICES ASSUME ScansInv PROVE Scan!ScansSound
    BY DEF ScansSound
  <2>2. Scan!CoverageCurrent
    BY <2>1 DEF ScansInv, MatchedNow, Scan!CoverageCurrent
  <2>3. Scan!NeverStuck
    BY <2>1 DEF ScansInv, ShownRuns, Active, Scan!Busy, Scan!NeverStuck
  <2>. QED
    BY <2>1, <2>2, <2>3 DEF ScansInv, Scan!ScansSound
<1>. QED
  BY <1>1, ScansInvariant, PTL
=============================================================================
