------------------------------- MODULE PermReward -------------------------------
(***************************************************************************)
(* compute_score of train/verl/utils/reward_score/peregrm_reward.py, the   *)
(* reward of the training run: the reward loop scores many samples at      *)
(* once, each by a dozen judge calls, and all of them, training and        *)
(* validation alike, share one module-level semaphore.                     *)
(*                                                                         *)
(* A judge's answer is what the code makes of it.  For a dimension:        *)
(* "boxed" with the number in the box, or "plain" text without one; and    *)
(* "garbled" for what the pattern [\d.]+ admits and float() refuses.  For  *)
(* standby: "boxed" stands for a JSON object with that sum, "plain" for    *)
(* anything else.  Scores are exact: a dimension is counted in fifths.     *)
(***************************************************************************)
EXTENDS Integers, FiniteSets, Sequences

CONSTANTS
  TrainSamples, ValSamples,  \* the samples the reward loop scores at a time
  Permits,                   \* asyncio.Semaphore(64)
  JudgeRetries,              \* max_retries
  GrmTrial,                  \* GRM_TRIAL
  DimAnswers,                \* what the judge may answer about a sample's dimension,
  StandbyAnswers             \* and on standby: [kind, value]

ASSUME PermRewardAssumption ==
  /\ TrainSamples \cap ValSamples = {}
  /\ {Permits, JudgeRetries, GrmTrial} \subseteq Nat \ {0}
  /\ \A s \in TrainSamples \cup ValSamples : \A a \in DimAnswers[s] :
       a.kind \in {"boxed", "plain", "garbled"} /\ a.value \in Nat
  /\ \A a \in StandbyAnswers : a.kind \in {"boxed", "plain"} /\ a.value \in Int

JudgedSamples == TrainSamples \cup ValSamples
Dimensions    == {"resonation", "expression", "reception"}

\* prompts: GRM_TRIAL judges for each dimension and a standby judge in training,
\* one judge for each dimension in validation.
Trials(s)  == IF s \in TrainSamples THEN GrmTrial ELSE 1
Calls == {<<s, dim, t>> : s \in JudgedSamples, dim \in Dimensions, t \in 1 .. GrmTrial}
CallsOf(s) == {c \in Calls : c[1] = s /\ c[3] <= Trials(s)} \cup
              (IF s \in TrainSamples THEN {<<s, "standby", 1>>} ELSE {})
AllCalls   == UNION {CallsOf(s) : s \in JudgedSamples}

VARIABLES
  callPc,       \* where each get_api_response is
  callAttempt,  \* its attempt, 0 before the first and after the last
  answer,       \* what it returned
  callPermits,  \* the semaphore's value
  outcome,      \* compute_score of each sample
  score,        \* what it returned, as <<numerator, denominator>>
  log           \* the samples that LOG_PATH has a line of, in order

jvars       == <<callPc, callAttempt, answer, callPermits>>
judgingVars == <<jvars, outcome, score, log>>

\* "" after the last attempt, which no parser finds a score in.
Plain == [kind |-> "plain", value |-> 0]

JudgingInit ==
  /\ callPc = [c \in AllCalls |-> "queued"]
  /\ callAttempt = [c \in AllCalls |-> 0]
  /\ answer = [c \in AllCalls |-> Plain]
  /\ callPermits = Permits
  /\ outcome = [s \in JudgedSamples |-> "judging"]
  /\ score = [s \in JudgedSamples |-> <<0, 1>>]
  /\ log = <<>>

--------------------------------------------------------------------------------
AtMost(n, limit) == IF n > limit THEN limit ELSE n

\* min(extract_boxed_score(...), 1.) in fifths: 0.6 where there is no box.
DimScore(c) == IF answer[c].kind = "boxed" THEN AtMost(answer[c].value, 5) ELSE 3

\* min(calculate_standby_reward(...), 1.) in hundredths: 0.8 for what is no JSON.
Standby(s) == LET c == <<s, "standby", 1>>
              IN  IF answer[c].kind = "boxed" THEN AtMost(answer[c].value, 100) ELSE 80

\* sum() of the first n numbers of a list.
SumOf(list, n) ==
  LET sum[t \in 0 .. n] == IF t = 0 THEN 0 ELSE sum[t - 1] + list[t]
  IN  sum[n]

\* sum(scores) of a dimension's trials; the mean divides it by the trials.
TrialSum(s, dim) ==
  SumOf([t \in 1 .. Trials(s) |-> DimScore(<<s, dim, t>>)], Trials(s))

\* Faulty: the arithmetic mean.
RewardArithmetic(s) ==
  LET sum  == TrialSum(s, "resonation") + TrialSum(s, "expression") + TrialSum(s, "reception")
      mean == <<sum, 15 * Trials(s)>>
  IN  IF s \in TrainSamples
        THEN <<200 * mean[1] + (Standby(s) - 100) * mean[2], 200 * mean[2]>>
        ELSE mean

\* The harmonic mean of the three, 0.0 unless all are positive, and in training
\* STANDBY_COEFF (0.5) times standby - 1 added to it.
Reward(s) ==
  LET a == TrialSum(s, "resonation")
      b == TrialSum(s, "expression")
      c == TrialSum(s, "reception")
      whole == 5 * Trials(s)               \* a, b, c are in units of 1/whole
      spread == a * b + b * c + c * a
      mean == IF a > 0 /\ b > 0 /\ c > 0 THEN <<3 * a * b * c, spread * whole>> ELSE <<0, 1>>
  IN  IF s \in TrainSamples
        THEN <<200 * mean[1] + (Standby(s) - 100) * mean[2], 200 * mean[2]>>
        ELSE mean

--------------------------------------------------------------------------------
\* Faulty: a call waits outside the semaphore between attempts, and keeps the
\* permit it then has when it wakes up.
SleepOutside(c) ==
  /\ callPc[c] = "calling"
  /\ callPc' = [callPc EXCEPT ![c] = "sleeping"]
  /\ callPermits' = callPermits + 1
  /\ UNCHANGED <<callAttempt, answer, outcome, score, log>>

\* Faulty: the permit is not given back after the last sleep.
GiveUpLeaking(c) ==
  /\ callPc[c] = "sleeping" /\ callAttempt[c] = JudgeRetries
  /\ callPc' = [callPc EXCEPT ![c] = "done"]
  /\ callAttempt' = [callAttempt EXCEPT ![c] = 0]
  /\ UNCHANGED <<answer, callPermits, outcome, score, log>>

\* async with _semaphore, and the first attempt.
Acquire(c) ==
  /\ callPc[c] = "queued" /\ callPermits > 0
  /\ callPc' = [callPc EXCEPT ![c] = "calling"]
  /\ callAttempt' = [callAttempt EXCEPT ![c] = 1]
  /\ callPermits' = callPermits - 1
  /\ UNCHANGED <<answer, outcome, score, log>>

\* The judge's text is returned, and the permit.
Answer(c) ==
  /\ callPc[c] = "calling"
  /\ \E a \in IF c[2] = "standby" THEN StandbyAnswers ELSE DimAnswers[c[1]] :
       answer' = [answer EXCEPT ![c] = a]
  /\ callPc' = [callPc EXCEPT ![c] = "done"]
  /\ callAttempt' = [callAttempt EXCEPT ![c] = 0]
  /\ callPermits' = callPermits + 1
  /\ UNCHANGED <<outcome, score, log>>

\* An exception: sleep with the permit, after the last attempt too (10 s).
SleepCall(c) ==
  /\ callPc[c] = "calling"
  /\ callPc' = [callPc EXCEPT ![c] = "sleeping"]
  /\ UNCHANGED <<callAttempt, answer, callPermits, outcome, score, log>>

RetryCall(c) ==
  /\ callPc[c] = "sleeping" /\ callAttempt[c] < JudgeRetries
  /\ callPc' = [callPc EXCEPT ![c] = "calling"]
  /\ callAttempt' = [callAttempt EXCEPT ![c] = @ + 1]
  /\ UNCHANGED <<answer, callPermits, outcome, score, log>>

\* return "" after the last sleep.
GiveUp(c) ==
  /\ callPc[c] = "sleeping" /\ callAttempt[c] = JudgeRetries
  /\ callPc' = [callPc EXCEPT ![c] = "done"]
  /\ callAttempt' = [callAttempt EXCEPT ![c] = 0]
  /\ callPermits' = callPermits + 1
  /\ UNCHANGED <<answer, outcome, score, log>>

Gathered(s) == outcome[s] = "judging" /\ \A c \in CallsOf(s) : callPc[c] = "done"
Garbled(s)  == \E c \in CallsOf(s) : answer[c].kind = "garbled"

\* After asyncio.gather: a train sample's judge_score is logged, and the reward
\* returned.
ScoreSample(s) ==
  /\ Gathered(s) /\ ~Garbled(s)
  /\ outcome' = [outcome EXCEPT ![s] = "scored"]
  /\ score' = [score EXCEPT ![s] = Reward(s)]
  /\ log' = IF s \in TrainSamples THEN Append(log, s) ELSE log
  /\ UNCHANGED jvars

\* A ValueError of float(num_str) leaves compute_score.
Raise(s) ==
  /\ Gathered(s) /\ Garbled(s)
  /\ outcome' = [outcome EXCEPT ![s] = "raised"]
  /\ UNCHANGED <<jvars, score, log>>

Respond(c) == Answer(c) \/ SleepCall(c)
Wake(c)    == RetryCall(c) \/ GiveUp(c)
Finish(s)  == ScoreSample(s) \/ Raise(s)

JudgingNext ==
  \/ \E c \in AllCalls : Acquire(c) \/ Respond(c) \/ Wake(c)
  \/ \E s \in JudgedSamples : Finish(s)

JudgingSpec == JudgingInit /\ [][JudgingNext]_judgingVars

\* Requests end (the SDK's timeout), sleeps elapse, and the loop resumes the ready.
JudgingFairSpec ==
  /\ JudgingSpec
  /\ \A c \in AllCalls : /\ WF_judgingVars(Acquire(c))
                         /\ WF_judgingVars(Respond(c)) /\ WF_judgingVars(Wake(c))
  /\ \A s \in JudgedSamples : WF_judgingVars(Finish(s))

--------------------------------------------------------------------------------
\* However many samples of both splits a process scores at once, it has at most 64
\* requests to the judges in flight, retries included.
JudgeConcurrency == Cardinality({c \in AllCalls : callPc[c] = "calling"}) <= Permits

\* A reward is penalised for the worst dimension: it is never more than three
\* times the lowest dimension's mean, the best others notwithstanding.
WorstDimensionCounts ==
  \A s \in JudgedSamples : outcome[s] = "scored" =>
    \A dim \in Dimensions :
      score[s][1] * 5 * Trials(s) <= 3 * TrialSum(s, dim) * score[s][2]

\* Scoring ends for every sample: no distribution of the permits among calls that
\* sleep, retry and wait starves one.
RewardReturns == \A s \in JudgedSamples : <>(outcome[s] # "judging")
================================================================================
