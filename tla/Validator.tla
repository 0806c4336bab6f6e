------------------------------ MODULE Validator ------------------------------
(***************************************************************************)
(* The questions that test how clear a feature's documents are             *)
(* (src/app/validator.py, src/app/store/validator_runs.py,                 *)
(* src/app/api/routes/validator.py, src/app/workers/validator_worker.py).  *)
(*                                                                         *)
(* A start answers with the run there is or creates one, for which a job   *)
(* asks a model; answers are submitted to a run, saved one by one, and     *)
(* scored.  Nothing locks a run.                                           *)
(***************************************************************************)
EXTENDS Naturals, Sequences, SequencesExt, FiniteSetsExt, Functions, Selection

CONSTANTS Clients, Replies, Lower, Orders, Selections,
          Failed, None, MinQuestions, MaxSeen, MaxQuestions, Options,
          MaxRuns, MaxSubmits, MaxCrashes

(* What is assumed of the constants: a reply that did not fail is a list of *)
(* questions, each with a list of options, and orders are permutations.    *)
ValidatorAssumption ==
    /\ MinQuestions \in Nat \ {0} /\ MaxQuestions \in Nat /\ MinQuestions <= MaxQuestions
    /\ MaxSeen \in Nat /\ Options \in Nat
    /\ \A p \in Orders : p \in [1..Options -> 1..Options] /\ \A i \in 1..Options : \E k \in 1..Options : p[k] = i
    /\ \A reply \in Replies \ {Failed} :
          reply \in Seq(ToSet(reply)) /\ \A q \in ToSet(reply) : q.options \in Seq(ToSet(q.options))
    /\ Selections \subseteq Seq(Nat \X Nat)

VARIABLES runs,       \* [number, status, questions, score] in order of creation
          answers,    \* run -> question -> what was selected
          client,     \* what each request is doing
          jobs,       \* jobs at work: [run, at, questions]
          submits, crashes,
          forked,     \* history: a start was forced or overlapped another
          crossed     \* history: runs scored from answers that were no longer all

vars == <<runs, answers, client, jobs, submits, crashes, forked, crossed>>
Idle == [at |-> "idle", run |-> 0, number |-> 0, questions |-> <<>>, todo |-> <<>>, score |-> None, stale |-> FALSE]
Fresh == [number |-> 0, status |-> "generating", questions |-> <<>>, score |-> None]

Init == /\ runs = <<>> /\ answers = <<>> /\ client = [c \in Clients |-> Idle] /\ jobs = {}
        /\ submits = 0 /\ crashes = 0 /\ forked = FALSE /\ crossed = {}

-----------------------------------------------------------------------------
(* What the model answers, made questions.  An item is [category, key,     *)
(* long, options, correct]: key is what normalize_question_key leaves.     *)

Take(seq, n) == SubSeq(seq, 1, Min({n, Len(seq)}))

normalize_unique_options(options) ==
    LET given == ItemsAt(options, {i \in DOMAIN options : options[i] # None})
    IN  Take(UniqueBy(given, [i \in DOMAIN given |-> Lower[given[i]]]), Options)

\* Mutant: the index is that of before the options were shuffled.
shuffle_question_options_Before(options, correct) ==
    LET at == {i \in DOMAIN options : Lower[options[i]] = Lower[correct]} IN
    IF at = {} THEN {<<options, 1>>} ELSE {<<[i \in DOMAIN options |-> options[p[i]]], Min(at)>> : p \in Orders}

\* Shuffled in any order; what matches no option makes the first one correct.
shuffle_question_options(options, correct) ==
    LET at == {i \in DOMAIN options : Lower[options[i]] = Lower[correct]} IN
    IF at = {} THEN {<<options, 1>>}
    ELSE {<<[i \in DOMAIN options |-> options[p[i]]], CHOOSE i \in DOMAIN p : p[i] = Min(at)>> : p \in Orders}

Usable(q) == /\ q.category /\ q.long /\ q.key # None /\ q.correct # None
             /\ Len(normalize_unique_options(q.options)) = Options

\* The questions that may come of a reply, none if they are too few.
normalize_and_filter_questions(parsed) ==
    LET usable == ItemsAt(parsed, {i \in DOMAIN parsed : Usable(parsed[i])})
        good == Take(UniqueBy(usable, [i \in DOMAIN usable |-> usable[i].key]), MaxSeen)
        kept == Take(good, MaxQuestions)
        made(q) == {[options |-> s[1], correct |-> s[2], named |-> Lower[q.correct]]
                        : s \in shuffle_question_options(normalize_unique_options(q.options), q.correct)}
    IN  IF Len(good) < MinQuestions THEN {}
        ELSE {qs \in [DOMAIN kept -> UNION {made(kept[i]) : i \in DOMAIN kept}] : \A i \in DOMAIN kept : qs[i] \in made(kept[i])}

-----------------------------------------------------------------------------
(* Scores *)

Round(n, d) == LET r == 2 * (n % d) IN (n \div d) + (IF r > d \/ (r = d /\ (n \div d) % 2 = 1) THEN 1 ELSE 0)

\* An answer to what is no question of the run counts as an answer.
compute_validator_score(questions, given) ==
    LET correct == {q \in DOMAIN given : q \in DOMAIN questions /\ given[q] = questions[q].correct}
        n == Cardinality(DOMAIN given)
    IN  [answered |-> n, correct |-> Cardinality(correct),
         clarity |-> IF n = 0 THEN 0 ELSE Round(100 * Cardinality(correct), n)]

-----------------------------------------------------------------------------
(* Starting *)

Latest == CHOOSE r \in DOMAIN runs : \A s \in DOMAIN runs : runs[s].number <= runs[r].number
Open == {r \in DOMAIN runs : runs[r].status \in {"generating", "ready"}}

\* Mutant: a run whose questions are being made is not found.
get_existing_validator_Made == runs # <<>> /\ runs[Latest].status \in {"completed", "ready"}

\* The latest run answers, unless it failed.
get_existing_validator == runs # <<>> /\ runs[Latest].status # "failed"

Goes(c, at) == client' = [client EXCEPT ![c].at = at]
End(c) == client' = [client EXCEPT ![c] = Idle]

Look(c, force) ==
    /\ client[c].at = "idle" /\ Len(runs) < MaxRuns
    /\ force \/ ~get_existing_validator
    /\ client' = [client EXCEPT ![c].at = "looked"]
    /\ forked' = (forked \/ force \/ \E d \in Clients : client[d].at \in {"looked", "numbered"})
    /\ UNCHANGED <<runs, answers, jobs, submits, crashes, crossed>>

\* create_validator_run: the highest number, then the row.
Number(c) ==
    /\ client[c].at = "looked"
    /\ client' = [client EXCEPT ![c].at = "numbered", ![c].number = Max({runs[r].number : r \in DOMAIN runs} \union {0}) + 1]
    /\ UNCHANGED <<runs, answers, jobs, submits, crashes, forked, crossed>>

create_validator_run(c) ==
    /\ client[c].at = "numbered" /\ Len(runs) < MaxRuns
    /\ runs' = Append(runs, [Fresh EXCEPT !.number = client[c].number]) /\ answers' = Append(answers, <<>>)
    /\ client' = [client EXCEPT ![c].at = "launch", ![c].run = Len(runs) + 1]
    /\ UNCHANGED <<jobs, submits, crashes, forked, crossed>>

\* The job is admitted, or refused and the run stays as it is.
Launch(c) ==
    /\ client[c].at = "launch"
    /\ \/ jobs' = jobs \union {[run |-> client[c].run, at |-> "ask", questions |-> <<>>]}
       \/ UNCHANGED jobs
    /\ End(c)
    /\ UNCHANGED <<runs, answers, submits, crashes, forked, crossed>>

-----------------------------------------------------------------------------
(* The job *)

Becomes(r, status) == runs' = [runs EXCEPT ![r].status = status]
Only(j, next) == jobs' = (jobs \ {j}) \union next

\* Up to the questions; a reply that is none or too little fails the run.
Ask(j) ==
    /\ j.at = "ask"
    /\ \E reply \in Replies :
          LET made == IF reply = Failed THEN {} ELSE normalize_and_filter_questions(reply) IN
          IF made = {} THEN Becomes(j.run, "failed") /\ Only(j, {})
          ELSE /\ \E qs \in made : Only(j, {[j EXCEPT !.at = "insert", !.questions = qs]})
               /\ Becomes(j.run, "generating")
    /\ UNCHANGED <<answers, client, submits, crashes, forked, crossed>>

insert_validator_questions(j) == runs' = [runs EXCEPT ![j.run].questions = j.questions]

InsertQuestions(j) ==
    /\ j.at = "insert" /\ insert_validator_questions(j)
    /\ Only(j, {[j EXCEPT !.at = "ready"]})
    /\ UNCHANGED <<answers, client, submits, crashes, forked, crossed>>

Ready(j) ==
    /\ j.at = "ready" /\ Becomes(j.run, "ready") /\ Only(j, {})
    /\ UNCHANGED <<answers, client, submits, crashes, forked, crossed>>

\* The documents cannot be read: before the guard, so the run stays as it is.
ContextFails(j) ==
    /\ j.at = "ask" /\ Only(j, {})
    /\ UNCHANGED <<runs, answers, client, submits, crashes, forked, crossed>>

-----------------------------------------------------------------------------
(* Submitting *)

Submitting == {"save", "score", "write"}

Submit(c, r, given) ==
    /\ client[c].at = "idle" /\ submits < MaxSubmits /\ runs[r].questions # <<>>
    /\ client' = [client EXCEPT ![c] = [Idle EXCEPT !.at = "save", !.run = r, !.questions = runs[r].questions, !.todo = given]]
    /\ submits' = submits + 1
    /\ UNCHANGED <<runs, answers, jobs, crashes, forked, crossed>>

\* save_validator_answers: one by one, each new or in place of one before.
Save(c) ==
    /\ client[c].at = "save" /\ client[c].todo # <<>>
    /\ LET a == Head(client[c].todo)  r == client[c].run IN
       /\ answers' = [answers EXCEPT ![r] = [q \in DOMAIN @ \union {a[1]} |-> IF q = a[1] THEN a[2] ELSE @[q]]]
       /\ client' = [d \in Clients |-> IF d = c THEN [client[c] EXCEPT !.todo = Tail(@)]
                                       ELSE IF client[d].run = r /\ client[d].at = "write" THEN [client[d] EXCEPT !.stale = TRUE]
                                       ELSE client[d]]
    /\ UNCHANGED <<runs, jobs, submits, crashes, forked, crossed>>

\* Mutant: the first submission that was scored stays the score.
Result_First(c) == IF runs[client[c].run].score # None THEN runs[client[c].run].score ELSE client[c].score

Result(c) == client[c].score

Score(c) ==
    /\ client[c].at = "save" /\ client[c].todo = <<>>
    /\ client' = [client EXCEPT ![c].at = "write", ![c].score = compute_validator_score(client[c].questions, answers[client[c].run])]
    /\ UNCHANGED <<runs, answers, jobs, submits, crashes, forked, crossed>>

update_validator_run_results(c) ==
    /\ client[c].at = "write"
    /\ runs' = [runs EXCEPT ![client[c].run].status = "completed", ![client[c].run].score = Result(c)]
    /\ crossed' = IF client[c].stale THEN crossed \union {client[c].run} ELSE crossed \ {client[c].run}
    /\ End(c)
    /\ UNCHANGED <<answers, jobs, submits, crashes, forked>>

Crash ==
    /\ crashes < MaxCrashes /\ (jobs # {} \/ \E c \in Clients : client[c].at # "idle")
    /\ crashes' = crashes + 1 /\ jobs' = {} /\ client' = [c \in Clients |-> Idle]
    /\ crossed' = crossed \union {client[c].run : c \in {d \in Clients : client[d].at \in Submitting}}
    /\ UNCHANGED <<runs, answers, submits, forked>>

Next ==
    \/ \E c \in Clients :
          \/ \E force \in BOOLEAN : Look(c, force)
          \/ Number(c) \/ create_validator_run(c) \/ Launch(c)
          \/ \E r \in DOMAIN runs, given \in Selections : Submit(c, r, given)
          \/ Save(c) \/ Score(c) \/ update_validator_run_results(c)
    \/ \E j \in jobs : Ask(j) \/ InsertQuestions(j) \/ Ready(j) \/ ContextFails(j)
    \/ Crash

Spec == Init /\ [][Next]_vars

-----------------------------------------------------------------------------
(* Properties *)

\* What can be answered has all its questions, whatever failed or crashed on
\* the way: as many as promised at least, and none with another correct
\* option than the one the model named, if it named one of the options.
AnswerableWhole ==
    \A r \in DOMAIN runs : runs[r].status \in {"ready", "completed"} =>
       /\ Len(runs[r].questions) \in MinQuestions..MaxQuestions
       /\ \A q \in ToSet(runs[r].questions) :
             q.named \in {Lower[o] : o \in ToSet(q.options)} => Lower[q.options[q.correct]] = q.named

\* However many starts, answers and crashes, a feature has one run at most
\* that is being made or waits for answers, unless a start was forced or two
\* overlapped.
OneOpenRun == forked \/ Cardinality(Open) <= 1

\* The score of a completed run is the score of the answers it has, those of
\* every submission together, once no submission is under way, unless one
\* crashed or was scored while another saved.
ScoreOfAnswers ==
    \A r \in DOMAIN runs \ crossed :
       runs[r].status = "completed" /\ (\A c \in Clients : client[c].run # r \/ client[c].at \notin Submitting) =>
       runs[r].score = compute_validator_score(runs[r].questions, answers[r])
=============================================================================
