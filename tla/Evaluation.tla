------------------------------ MODULE Evaluation ------------------------------
(***************************************************************************)
(* The evaluation of evaluation/eval.py with its calls to the judge in     *)
(* detail: EvalScores, whose one step CallJudge is replaced by the         *)
(* coroutines, retries and collection of EvalApiCall.  Each dimension      *)
(* makes a call of its own, with one key and a semaphore of its own; a     *)
(* kill ends it wherever it is.                                            *)
(*                                                                         *)
(* Prompts are numbered from 0 and examples from 1.  Every example has a   *)
(* response here, so that prompt k is about example k + 1.                 *)
(***************************************************************************)
EXTENDS EvalScores

CONSTANTS EvalBatchSize, \* eval_batch_size, the permits of the one client
          MaxRetry,
          IsGpt5

ASSUME EvaluationAssumption ==
  /\ EvalBatchSize \in Nat \ {0} /\ MaxRetry \in Nat \ {0} /\ IsGpt5 \in BOOLEAN
  /\ Responses = {"text"} /\ JudgeMayFail

VARIABLES
  coroutine, tries, reply, free,    \* the coroutines of the call under way
  completed, list, returned          \* and api_call_async

callVars == <<coroutine, tries, reply, free, completed, list, returned>>
allVars  == <<scoresVars, callVars>>

Call == INSTANCE EvalApiCall WITH
          NumPrompts <- NumExamples, NumKeys <- 1, ApiCallLimit <- EvalBatchSize,
          pc <- coroutine, attempt <- tries, permits <- free, results <- list

EInit == ScoresInit /\ Call!Init

\* The next call makes new tasks, semaphores and results.
NoCall ==
  /\ coroutine' = [i \in Call!Prompts |-> "unborn"]
  /\ tries' = [i \in Call!Prompts |-> 0]
  /\ reply' = [i \in Call!Prompts |-> None]
  /\ free' = [c \in Call!Keys |-> EvalBatchSize]
  /\ completed' = {} /\ returned' = FALSE
  /\ list' = [i \in Call!Prompts |-> None]

--------------------------------------------------------------------------------
\* What is done outside the call.
Outside(A) == A /\ UNCHANGED callVars

\* A step of the call.
Judge == evalPc = "calling" /\ Call!Next /\ UNCHANGED scoresVars

\* The call has returned: what the texts say is seen now.
JudgeReturns ==
  /\ evalPc = "calling" /\ returned
  /\ \E texts \in [Examples -> Texts] :
       results' = [k \in DOMAIN Prompted |->
                    IF list[k - 1] = None THEN None
                    ELSE Judgement(Prompted[list[k - 1].prompt + 1], dimension, texts[k])]
  /\ evalPc' = "parsing"
  /\ UNCHANGED <<response, saved, run, dimension, total>>
  /\ NoCall

\* A kill ends the call's coroutines too.
Killed == Crash /\ NoCall

ENext ==
  \/ Outside(Start) \/ Outside(Record) \/ Outside(RaiseUnparsed)
  \/ Outside(OpenSave) \/ Outside(WriteSave)
  \/ Judge \/ JudgeReturns \/ Killed

ESpec == EInit /\ [][ENext]_allVars

\* The process goes on, and the loop resumes every ready task; requests end by the
\* client's 600 s timeout.
EFairness ==
  /\ \A i \in Call!Prompts :
       /\ WF_allVars(Judge /\ Call!Acquire(i)) /\ WF_allVars(Judge /\ Call!Respond(i))
       /\ WF_allVars(Judge /\ Call!Wake(i))
       /\ WF_allVars(Judge /\ Call!Begin(i)) /\ WF_allVars(Judge /\ Call!Collect(i))
  /\ WF_allVars(Judge /\ Call!Return)
  /\ WF_allVars(JudgeReturns)
  /\ WF_allVars(Outside(Record \/ RaiseUnparsed \/ OpenSave \/ WriteSave))

EFairSpec == ESpec /\ EFairness

--------------------------------------------------------------------------------
\* The evaluation can be read as if the batch call were one step: whatever order the
\* coroutines end and are collected in, each prompt's own answer or None comes back at
\* its index, and the call returns, so that a run that is not killed ends.
ImplementsEvalScores == ScoresFairSpec
================================================================================
