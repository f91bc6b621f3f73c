------------------------------- MODULE EvalScores -------------------------------
(***************************************************************************)
(* eval of evaluation/eval.py: for each dimension, a judge prompt for the  *)
(* examples that have a response, one batch API call, the scores parsed    *)
(* from its results, written into total_results, and the whole of it saved *)
(* over the result file.  The process may be killed between any two steps  *)
(* and started again.                                                      *)
(*                                                                         *)
(* An example is its position in processed_data.  A judge's text names the *)
(* example and dimension it is about, and how its \boxed{...} parses:      *)
(* "score", "unscored" (no box), or "garbled" ([\d.]+ that float refuses). *)
(***************************************************************************)
EXTENDS Naturals, Lists

CONSTANTS
  NumExamples,    \* len(processed_data), after the cut to eval_num
  Responses,      \* what the prediction file may have: of "text", "empty"
  Texts,          \* what the judge's text may parse as
  JudgeMayFail,   \* whether the batch call may return None for a prompt
  MaxRuns,        \* bound: processes started
  None

Examples       == 1 .. NumExamples
EvalDimensions == <<"resonation", "expression", "reception">>

ASSUME EvalScoresAssumption ==
  /\ NumExamples \in Nat /\ MaxRuns \in Nat
  /\ Responses \subseteq {"text", "empty"}
  /\ Texts \subseteq {"score", "unscored", "garbled"}
  /\ JudgeMayFail \in BOOLEAN

VARIABLES
  response,     \* the response of each example
  saved,        \* the result file
  evalPc, run,  \* what the process is doing, and how many were started
  dimension,    \* the dimension it is at
  results,      \* all_results
  total         \* total_results: example -> dimension -> judge's text

scoresVars == <<response, saved, evalPc, run, dimension, results, total>>

\* total_results before any judgement: {} in each dimension.
Blank == [i \in Examples |-> [n \in DOMAIN EvalDimensions |-> None]]

Ended == evalPc \in {"idle", "done", "raised", "crashed"}

ScoresInit ==
  /\ response \in [Examples -> Responses]
  /\ saved = [state |-> "absent", total |-> Blank]
  /\ evalPc = "idle" /\ run = 0
  /\ dimension = 1 /\ results = <<>> /\ total = Blank

--------------------------------------------------------------------------------
\* all_prompts: an example without a response has no prompt.
Prompted == Those([i \in Examples |-> i], {i \in Examples : response[i] = "text"})

Judgement(i, n, text) == [example |-> i, dimension |-> n, run |-> run, text |-> text]

\* extract_boxed_score: None, like the tuple of a reasoning model, is no string
\* (TypeError), and a garbled number no float (ValueError).
Parses(result) == result # None /\ (result # None => result.text # "garbled")

\* Faulty: the results are those of the first dimension each time.
RecordedOnce ==
  [i \in Examples |-> [n \in DOMAIN EvalDimensions |->
    IF n >= dimension /\ i <= Len(results) THEN results[i] ELSE total[i][n]]]

\* Faulty: examples whose judge gave no score are left out of the zip.
RecordedScoredOnly ==
  LET scored == SelectSeq(results, LAMBDA r : r.text = "score")
  IN  [i \in Examples |->
        IF i <= Len(scored) THEN [total[i] EXCEPT ![dimension] = scored[i]] ELSE total[i]]

\* zip(all_results, eval_scores, total_results): by position, to the shortest.
Recorded ==
  [i \in Examples |->
    IF i <= Len(results) THEN [total[i] EXCEPT ![dimension] = results[i]] ELSE total[i]]

\* A process reads the predictions and starts from blank results.
Start ==
  /\ Ended /\ run < MaxRuns
  /\ run' = run + 1
  /\ evalPc' = "calling" /\ dimension' = 1 /\ results' = <<>> /\ total' = Blank
  /\ UNCHANGED <<response, saved>>

\* The batch API call (BatchCall): a text about the prompt, or None, in order.
CallJudge ==
  /\ evalPc = "calling"
  /\ \E texts \in [DOMAIN Prompted -> Texts \cup (IF JudgeMayFail THEN {"none"} ELSE {})] :
       results' = [k \in DOMAIN Prompted |->
                    IF texts[k] = "none" THEN None
                    ELSE Judgement(Prompted[k], dimension, texts[k])]
  /\ evalPc' = "parsing"
  /\ UNCHANGED <<response, saved, run, dimension, total>>

Record ==
  /\ evalPc = "parsing" /\ \A k \in DOMAIN results : Parses(results[k])
  /\ total' = Recorded
  /\ evalPc' = "saving"
  /\ UNCHANGED <<response, saved, run, dimension, results>>

\* One result that does not parse is an exception, and the end of the run.
RaiseUnparsed ==
  /\ evalPc = "parsing" /\ \E k \in DOMAIN results : ~Parses(results[k])
  /\ evalPc' = "raised"
  /\ UNCHANGED <<response, saved, run, dimension, results, total>>

\* save_json empties the file, ...
OpenSave ==
  /\ evalPc = "saving"
  /\ saved' = [state |-> "torn", total |-> Blank]
  /\ evalPc' = "writing"
  /\ UNCHANGED <<response, run, dimension, results, total>>

\* ... and writes it; on to the next dimension.
WriteSave ==
  /\ evalPc = "writing"
  /\ saved' = [state |-> "whole", total |-> total]
  /\ IF dimension = Len(EvalDimensions) THEN evalPc' = "done" /\ dimension' = dimension
                                     ELSE evalPc' = "calling" /\ dimension' = dimension + 1
  /\ UNCHANGED <<response, run, results, total>>

Crash ==
  /\ ~Ended
  /\ evalPc' = "crashed" /\ dimension' = 1 /\ results' = <<>> /\ total' = Blank
  /\ UNCHANGED <<response, saved, run>>

ScoresNext == Start \/ CallJudge \/ Record \/ RaiseUnparsed \/ OpenSave \/ WriteSave \/ Crash

ScoresSpec == ScoresInit /\ [][ScoresNext]_scoresVars

\* A process that is not killed goes on; whether one is started is not its affair.
Process == CallJudge \/ Record \/ RaiseUnparsed \/ OpenSave \/ WriteSave
ScoresFairSpec == ScoresSpec /\ WF_scoresVars(Process)

--------------------------------------------------------------------------------
\* Every judgement on file is about the example and the dimension it stands at
\* ("responses aligned to each query", evaluation/README.md:45).
ScoresBelong ==
  \A i \in Examples : \A n \in DOMAIN EvalDimensions :
    LET j == saved.total[i][n] IN j # None => j.example = i /\ j.dimension = n

\* The file a run leaves is of that run alone and of whole dimensions: whatever
\* stopped it, all examples with a response have been judged in the dimensions
\* that are on file, and those are the first ones.  Judgements are paid for, so a
\* run that raises in one dimension leaves the dimensions before it on file.
SavedInStep ==
  /\ saved.state = "whole" =>
       \E m \in DOMAIN EvalDimensions, r \in 1 .. run :
         \A i \in Examples : \A n \in DOMAIN EvalDimensions :
           IF response[i] = "text" /\ n <= m
             THEN saved.total[i][n] # None /\ saved.total[i][n].run = r
             ELSE saved.total[i][n] = None
  /\ evalPc = "raised" /\ dimension > 1 =>
       /\ saved.state = "whole"
       /\ \A i \in Examples : \A n \in 1 .. dimension - 1 : saved.total[i][n] = total[i][n]
================================================================================
