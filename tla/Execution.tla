------------------------------ MODULE Execution ------------------------------
(***************************************************************************)
(* A test cycle being executed and the questions about a feature being     *)
(* answered.  They share no state, so their behaviours stand side by side  *)
(* and are not interleaved: scene says which of them moves.                *)
(***************************************************************************)
EXTENDS TestCycles

CONSTANTS Replies, Lower, Orders, Selections, Failed, None, MinQuestions, MaxSeen, MaxQuestions, Options,
          MaxRuns, MaxSubmits, MaxCrashes

VARIABLES scene, runs, answers, client, jobs, submits, crashes, forked, crossed

Questions == INSTANCE Validator WITH Clients <- Threads
questionVars == <<runs, answers, client, jobs, submits, crashes, forked, crossed>>

ASSUME QuestionsAssumption == Questions!ValidatorAssumption

ExecutionInit == scene \in {"cycle", "questions"} /\ Init /\ Questions!Init
ExecutionNext == \/ scene = "cycle" /\ Next /\ UNCHANGED <<scene, questionVars>>
                 \/ scene = "questions" /\ Questions!Next /\ UNCHANGED <<scene, vars>>
ExecutionSpec == ExecutionInit /\ [][ExecutionNext]_<<scene, vars, questionVars>>

\* Those of Validator, here; app/validator.py, store/validator_runs.py: what can be
\* answered is whole, one run is open, and a score is that of the run's answers.
AnswerableWhole == Questions!AnswerableWhole
OneOpenRun == Questions!OneOpenRun
ScoreOfAnswers == Questions!ScoreOfAnswers
=============================================================================
