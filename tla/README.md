# PersonalizedEmpathy: specifications, model checks and proofs

TLA+ models of the program in this repository: the pipeline that builds the dialogue dataset
(`src/prepare_dataset`), the one that evaluates responses (`src/evaluation`), the reward with which
the policy is trained (`src/train/verl/utils/reward_score`), and the parts of the training framework
the repository carries (`src/train/verl`) that balance, schedule, interrupt, save and resume.  Every
definition is translated from the code at the lines `PROJECT.json` gives under "map".

## 1. The system

| Component | Code | State | Operations |
|---|---|---|---|
| Batch API caller, dataset side | `prepare_dataset/api_call.py` | one semaphore per client, attempts, pending tasks, the result list | acquire, request, backoff, retry, give up; a manager task per client; gather and scatter |
| Batch API caller, judge side | `evaluation/api_call.py` | the same | the same coroutine, results taken with `as_completed` |
| Query generation | `prepare_dataset/query_generation.py` | index tables between three stages, usage, debug slots | persona, situation and query stage |
| Query inspection | `prepare_dataset/query_inspection.py` | verdicts | a batch of judgements |
| Pipeline driver | `prepare_dataset/query.py` | `generated_queries.json`, `inspection_results.json` | batch loops, re-aggregation per record, saves |
| Final filter | `prepare_dataset/final_filter.py` | `final_data/<language>.json` | join, gates, removal of old files, a file per language |
| Raw record filter | `prepare_dataset/filter.py` | `raw_filtered.json` | keyword filter over the source corpus |
| Criteria preparation | `evaluation/prepare_criteria.py` | the criteria sidecar | resume, job list, batch call, atomic save |
| Response evaluation | `evaluation/eval.py` | the result file, `total_results` | per dimension: prompts, batch call, parse, record, save |
| PERM reward | `train/verl/utils/reward_score/peregrm_reward.py` | one semaphore for all samples, the score log | judge calls with retries, score arithmetic, log |
| Baseline reward | `rlpa_reward.py` | a semaphore of its own | two judge calls per sample, with the same retries |
| Reward loop | `verl/experimental/reward_loop` | token buckets, semaphore and executor threads of each worker, the results | rate limiting, computing, timeouts, retries, collection |
| Asynchronous training | `verl/experimental/fully_async_policy` | bounded sample queue, active tasks, staleness count, pause flag, lock | feed, generate, put, drop, get, pause, resume, synchronise, save, shut down |
| Checkpoints | `verl/trainer/ppo/ray_trainer.py`, `verl/utils/checkpoint` | checkpoint directories, tracker file, retention list | save, retain, resume |
| Agent loops and rollout servers | `verl/experimental/agent_loop`, `fully_async_policy/agent_loop`, `verl/workers/rollout/vllm_rollout`, `verl/checkpoint_engine` | in-flight counts, routing cache, weights and version of each server | acquire, generate, release, turns; abort, update weights, resume |
| Batch dispatch and balancing | `verl/utils/seqlen_balancing.py`, `verl/protocol.py`, `single_controller/base/decorator.py`, `workers/actor/dp_actor.py`, `workers/engine/utils.py` | the order of the batch, each rank's mini- and micro-batches | balance, pad, chunk, dispatch, split, forward, restore, collect |
| Numerical core, infrastructure | rest of `verl` | | see section 7 |

How they interact.  Generation, inspection, criteria preparation and evaluation each issue batch API
calls and rely on one promise only: a list comes back, once, with an answer to prompt *i* or None at
position *i*.  That promise is the module `BatchCall`, which the dataset side's caller is shown to
keep, and the modules above it (`GenerateBatch`, `DatasetPipeline`, `Criteria`) take a batch call as
one step that answers each prompt or not.  `EvalScores` does so too, and `Evaluation` shows that
this is justified by putting the judge side's caller in the place of that step.  Between the stages
the components talk through JSON files only: `filter.py` -> `raw_filtered.json` -> `query.py` -> two
files joined by position -> `final_filter.py` -> `final_data/`; the dataset -> `prepare_criteria.py`
-> sidecar -> `eval.py`.  Everything after a kill is decided by what those files hold.  The reward
function is called for many samples at once, and all of them share one semaphore; the reward loop
calls it, or another, under rate limits of its own.  In asynchronous training the rollouter's agent
loops keep generating while the trainer trains: samples pass through the message queue, and every
few batches the trainer sends new weights, which interrupts all servers, and resets the staleness
count.  Each training step sends the batch to ranks that compute in step with each other, and puts
what comes back beside the batch by position.

What is hard here: coroutines that hold a permit across retries and backoff; answers that arrive in
any order and with holes; three levels of flattening and re-aggregation by parallel index lists;
files that are truncated before they are written, so that a kill leaves a torn file or a pair of
files of different runs; resumed runs over data that has changed; coroutines that share a lock
across awaits; requests interrupted and sent again while servers change weights one by one.
`PROJECT.json` "hazards" lists each at its line with the properties that watch it.

## 2. Modules

| Module | Models | Correspondence |
|---|---|---|
| `BatchCall` | what callers may assume | `fate[i]`: open, an answer to *i*, or None; `Return` copies all fates at once |
| `Completion` | `get_completion_async` | `pc[i]` is where the coroutine of prompt *i* stands; `Acquire` is the entry to `async with semaphore`, `Succeed` / `Sleep` / `GiveUp` the ways a request ends, `Wake` the end of `asyncio.sleep`; `permits` is the semaphore's value |
| `ApiCall` | `api_call_async` and `manage_client_tasks`, dataset side | `manager[c]` is a client's task, `gathered[c]` its `(index, result)` pairs, `Return` the outer gather with the scatter into `results` |
| `EvalApiCall` | `api_call_async`, judge side | `Collect(i)` is one turn of the `as_completed` loop |
| `Evaluation` | `eval` with the calls it makes | `EvalScores` and an instance of `EvalApiCall`: `Judge` is a step of the call, `JudgeReturns` its end, `Killed` ends both |
| `GenerateBatch` | `generate_batch` | three actions, one per stage; `RecordOfAnswer` is `situation_target_indices`, `TaskList` stands for `task_to_record`, `task_to_query_slot` and the prompts |
| `DatasetPipeline` | `query.py`, `inspect_batch`, `final_filter.py` | one action per batch, and two per file written (open and write); `Crash` anywhere in between |
| `Criteria` | `prepare_criteria.py` | `Start` is `main` up to the call, then `CallApi`, `OpenTmp`, `WriteTmp`, `ReplaceOutput` |
| `EvalScores` | `eval` | `CallJudge`, `Record` or `RaiseUnparsed`, `OpenSave`, `WriteSave`, for each dimension |
| `PermReward` | `compute_score`, `get_api_response` | a call's `callPc` is as `pc` in `Completion`; `ScoreSample` is everything after the gather |
| `RewardLoop` | `compute_rm_score`, `run_single`, `AsyncTokenBucket.acquire`, `_post_request` | `pc[i]` is where the coroutine of sample *i* stands; `Take`, `Defer`, `Overdraw` are the ways through a bucket's lock, `Enter` / `Leave` the semaphore, `RunThread` / `StrayEnds` the executor |
| `FullyAsync` | the rollouter's coroutines, `MessageQueue`, the trainer's `fit` | `proc`, `monitor`, `main`, `trainer` are program counters; one action per stretch between two awaits; `lock` and `want` are `self.lock` and its waiters |
| `Checkpoints` | `_save_checkpoint`, `_load_checkpoint`, `BaseCheckpointManager`, `FSDPCheckpointManager` | `pc` walks through a save; every file has two writes, opening and filling; `Crash` anywhere |
| `Rollout` | `GlobalRequestLoadBalancer`, `FullyAsyncLLMServerManager`, the agent loop's turns, `CheckpointEngineManager.update_weights` | `pc[r]` is where the agent loop of request *r* stands; a response is the sequence of the weight versions of its tokens; `phase` walks through `update_weights` |
| `SeqlenBalancing` | the pure functions of `seqlen_balancing.py` | operators: Karmarkar and Karp's differencing method, balanced partitions, micro-batches, the way back |
| `DpCall` | a training step's or a validation's calls: `_balance_batch`, `pad_dataproto_to_divisor`, dispatch and collect, `compute_log_prob`, `update_policy` and their engine counterparts | `call` is what the driver is at, `worker[w]` a rank's part; a row is a number, and the result for a row is the row; `Forward` is one step of all ranks, as the collective operations in it are |
| `Lists` | comprehensions with a condition | `Those`: the members of a list at some of its positions, used by `GenerateBatch`, `DatasetPipeline` and `EvalScores` |
| `MCDatasetPipeline`, `MCCriteria`, `MCPermReward`, `MCRewardLoop`, `MCCheckpoints` | | instances for TLC |
| `ApiCallProofs`, `CriteriaProofs`, `CheckpointsProofs`, `SeqlenBalancingProofs`, `DpCallProofs` | | theorems about the module of that name |
| `DatasetPipelineProofs` | | theorems about `DatasetPipeline`, and about `GenerateBatch`, the call its generating step stands for |
| `JudgingProofs` | | theorems about the programs that have responses judged, `PermReward` and `Evaluation`, and about `RewardLoop`, which calls the first |
| `RolloutProofs` | | theorems about `Rollout` and `FullyAsync`, the servers and the coroutines of asynchronous training |

`ApiCall` and `EvalApiCall` extend `Completion`, whose actions they compose with the tasks around
it.  Modules whose theorems share a proof module are extended by it together; this is why
`GenerateBatch`, `PermReward`, `EvalScores` and `FullyAsync` name their specification, next-state
relation and some actions after themselves (`GenSpec`, `JudgingNext`, `ScoresInit`, `AsyncSpec`).
Definitions marked "Faulty" are variants with a bug such code could have; no specification
uses them.  They serve to show that each property fails when its bug is put in.

Abstractions that matter for reading the results:

- An answer of the API is a full text, a short one (which the gpt-5 branch asserts against), or an
  exception.  Prompt texts, wording and logging are left out.  A query, verdict, criterion or
  judgement names what it was made for, and that is what the alignment properties compare.
- Waiters of a semaphore may be served in any order, and completed coroutines yielded in any
  order: a superset of asyncio's FIFO queues, so the safety results cover it.
- A file is absent, torn or whole.  Opening for writing makes it torn.  `raw_filtered.json` is
  always whole, because the pipeline is not started beside its filter.  Debug and usage files are
  written and never read back; they are left out.
- Criteria: an empty text counts as no criterion, as the code's truth test has it.  `Limits` uses 0
  for "no --limit".
- PERM reward: a dimension's score is counted in fifths and the harmonic mean kept as an exact
  fraction; rounding of doubles is not modelled.  The standby judge's numbers are taken to be
  non-negative, as its prompt asks.  The semaphore is that of one process: reward workers in other
  processes have their own.
- Reward loop: time is counted in ticks that pass only when nothing else can happen at once, and
  rates are whole tokens per tick.  The limits are those of one worker process: the code builds them
  per process, although `limited.py:190` says they are shared across all workers.
- Asynchronous training: a sample is a number; a generation is one step that may raise.  Between two
  awaits the processor coroutine runs alone (`Busy`); the trainer and the queue, other actors, step at
  any time.
- Checkpoints: the model, optimizer and extra-state files of a rank are one shard, and actor and
  critic keep the same number of checkpoints.  A process writes
  its number into it, so a mixture of two saves can be told from one.
- Pipeline: a judge's language is one whose file name is valid, or one that is no string
  (`Unhashable`); opening a language's file may fail all the same.
- Rollout: what an interaction says is a number of tokens, at most `MaxAnswer` (0 when none is
  configured).  The engine is vLLM 0.12 or later, whose `pause_generation` keeps new requests out; for
  older ones, which `setup.py` also admits, `abort_all_requests` does not.  A worker's calls of the
  load balancer arrive in the order it makes them (Ray's promise for one caller).
- Dispatch: the mini-batches of an update are taken in order (`data.shuffle` off).  Three modes
  stand for the engine workers, the legacy FSDP workers with `use_dynamic_bsz`, and these with fixed
  micro-batches, which is what `train_llm.sh` uses.  `ppo_epochs` is 1: an update passes over its
  mini-batches once.  Two ranks that hold different tokens of what should be one micro-batch are
  taken to fail.
- The preview mode `situation_only` and the debugging filters of `query.py` are left out.

## 3. Properties

What each says in full stands above its definition.

- **Batch callers.**  `ConcurrencyBound`: at most `api_call_limit` requests of one client, under
  any interleaving.  `NoneOnlyWhenExhausted`: no prompt is given up before its last attempt failed.
  `BatchAligned`: results stand at their prompts.  `ImplementsBatchCall`: the
  caller refines `BatchCall`, liveness included: the call returns.
- **Generation.**  `QueriesBelong`: the index tables bring each query, and each call's usage, to the
  record and situation it came from.
- **Pipeline.**  `OutputsPassedInspection`: each query that a full pipeline publishes was passed by a
  verdict on that very query.  `StoredCompletely`: every kept record is stored once, under a session
  id of its own.  `OutputsOfOneRun`: neither a kill nor an exception leaves a mixture of two
  datasets.  `UnreadableInputsKeepDataset`: a run that cannot read its two inputs, or evaluate an
  inspection in them, leaves the dataset alone (a language it cannot group by costs it, section 5).
- **Criteria.**  `SidecarNeverTorn`; `ResumeKeeps`: nothing is lost or paid for twice;
  `CriteriaBelong`; `CompleteRunFills`: an unlimited run in which no call fails leaves nothing to do.
- **Evaluation.**  `ScoresBelong`: each judgement stands at its example and dimension.
  `SavedInStep`: the file holds whole dimensions of one run, those before an exception included.
  `ImplementsEvalScores`: with its coroutines in detail the evaluation still is `EvalScores`, each
  answer at its prompt's index whatever order they end in, and one that is not killed ends.
- **Reward.**  `JudgeConcurrency`, `WorstDimensionCounts`, `RewardReturns`: the limit holds over all
  samples, the worst dimension caps the reward, and scoring ends.
- **Reward loop.**  `RateBound`: a bucket lets through no more than it held at first and has gained
  since, also when each request is larger than the bucket.  `ConcurrencyLimit`: no more than
  `max_concurrent` are awaited, and no more threads run than there are, those of timed-out rewards
  included.  `RewardsBelong`: each score at its sample, whatever worker computed it, and a batch is
  lost only for a request that failed for good or results with different keys.  `BatchEnds`: it
  ends, unless a request to the router hangs.
- **Asynchronous training.**  `RolloutBound`: at most `max_required_samples` + 1 samples are held,
  queued, being generated or consumed for a parameter version.  `TrainedOnce`: no sample is trained
  on twice or overtaken by the end signal.  `CheckpointLag`: the last checkpoint lacks less than one
  version's batches.  `TrainerEnds`, and `FitEnds` unless a generation raised.
- **Checkpoints.**  `TrackedLoadable`: what the tracker names is whole and of one save, wherever the
  process is killed.  `WeightsKept`: no group's weights are lost, whatever is kept.
  `RetentionBound`.  `ResumesLatestSave`: no mixture of two saves is trained on, and a crash costs at
  most the steps since the last save but one.
- **Rollout.**  `LabelsBracketTokens`: the range of versions a response is labelled with holds the
  version of each token.  `OneVersionRuns`: no two requests run on different weights.
  `InflightCounts`: interruptions neither lose nor double a request in the load balancer's counts.
  `RoomLeft`: a request that is sent has room for a token, unless the model's context is shorter
  than the configured lengths or an interaction's answer came last.  `LoopsEnd`: every loop ends, if only because it is refused.
- **Balancing and dispatch.**  `PartitionsFair`: the ranks' chunks of a batch differ in
  work by no more than two rows do (two groups, where those of a uid must stay together), a rank's
  micro-batches by no more than one row's work, and none is empty.  `RowsReturn`: a
  result stands at its row through reordering, chunks, micro-batches, replicas and padding, and an
  update trains each row once.  `CallsMeet`: no rank waits for a pass that others do not make, but
  for legacy workers with dynamic batches.

`PermitsConserved` (Completion), `NeverCutShort` (Rollout) and the type invariants of `ApiCall`,
`Rollout` and `Checkpoints` are parts of the proofs' inductive invariants and proved (section 6);
no run repeats them.

## 4. Runs

| Run | Instance | Question |
|---|---|---|
| `api_call` | 4 prompts, 3 keys, 2 URLs, 1 permit, 2 attempts | limits, alignment and refinement; one client has two prompts that compete, one key has no URL |
| `generate_batch` | 3 records, up to 2 situations each | all patterns of failed, shallow, empty and good answers |
| `dataset_pipeline` | 2 records of one source file, up to 2 and 1 queries, 3 runs, `final_filter.py` also by itself | alignment, completeness and isolation over generation, full and filter runs with crashes, torn files, a corpus that grows by a file listed first, and a language no dict takes |
| `criteria` | a dataset that grows from one query to three, 2 dimensions, limits none and 1, 3 runs | resume and crash |
| `eval_scores` | `Evaluation`: 2 examples, 3 dimensions, 2 runs, 2 permits, 2 attempts, gpt-5 assertion on | the result file; the composition of evaluation and batch caller |
| `perm_reward` | a training sample with all kinds of answers, a validation sample, 1 permit, 2 attempts | score arithmetic, log, shared limit, liveness |
| `fully_async` | 9 samples, batches of 1, 2 batches per version, staleness threshold 0.5 (3 samples), 2 concurrent, failures | staleness, loss, shutdown |
| `checkpoints` | 2 ranks, actor with or without critic, keep all, 1 or 2, 5 steps, save every second, 3 processes | crash, resume, retention |
| `reward_loop` | 2 workers with 2 samples each, 1 permit, 1 thread, 2 attempts, 8 ticks | limits, timeouts, collection |
| `rollout` | 2 loops, 2 workers, 2 servers, 1 cache entry, prompt 1, response 3, context 5, interaction's answers up to 2, one weight update | labels, routing, room, interruption |
| `dp_call` | 8 rows of length 1 or 3 in groups of 2; 2 data parallel by 2 sequence parallel ranks; mini-batches of 2; validation of 1 to 7 rows on 5 workers | every length pattern in each mode: rows return, work is shared out evenly, calls meet |
| `empty_response` | an example without a response | expected violation, section 5 |

Why the bounds are enough.  The caller's hazards need a client with more prompts than permits (two
prompts, one permit), a client that ends at another time than its neighbour, a retry, and a last
failed attempt; each bound is the smallest that has these, and the theorems lift the limit
altogether.  The index tables go wrong when a record in the middle drops out or contributes two
entries: three records with up to two situations have every such shape.  A file can be stale by one
run and torn by another: two and three runs have both.  Cleaning two language files has an
intermediate state.  The reward's grades 0, default 3 and one off the scale (9, cut to 5) are the
points where the code branches.  Nine samples are three parameter versions and the beginning of
another, so that a pause, a reset in the middle of everything, and an end within a version occur.
Three processes are one that is killed, one that is killed while it saves over what the first left,
and one that resumes from that.  In `reward_loop` the bucket is smaller than a request or as large,
and a thread outlives its timeout while another waits for it.  One weight update can hit both loops
at every point of two turns; one cache entry for two requests evicts at once; an interaction's
answer of two tokens can use up the response.  The context is longer than prompt and response, as a
model's is when `max_model_len` is not set; a shorter one is left to the theorem.  The theorems
about `Rollout` lift all these bounds.  Eight rows on two ranks are two mini-batches of two rows
each: the chunks of two ranks may need one and two micro-batches; the validation batches are smaller
than, equal to and larger than the number of workers, and the smallest is repeated more than once.
`MaxAnswer`, `MaxRuns`, `MaxSituations`, `GenerationLimit`, `MaxTime`, `MaxVersion` and `MaxValRows`
are the only bounds on otherwise unbounded counters and inputs; the rest are the program's own
parameters.  Deadlock is checked where the final state stutters (`fully_async`, `dp_call`) and not
elsewhere: every other program ends, and the liveness properties say that it ends well.

Fairness.  Weak fairness of each coroutine's steps: asyncio resumes every ready task and wakes every
sleeper.  That a request ends (`Respond`) is the SDK client's timeout, set where the client is made.
Weak fairness of `Acquire` holds for asyncio's FIFO semaphore, which is stronger.  No fairness is
assumed of the answer's kind: a service that fails for ever is a behaviour.  In `RewardLoop` time
passes and a thread ends some day, but no score function is assumed to answer: its timeout comes.
Nor is the reward router: a request to it has no timeout, and `Hang`, after which the sample takes
no further step, may happen to each.  In `FullyAsync` the loop resumes what is ready, a generation
ends or raises, the lock is handed on, and the trainer goes on while it has samples.  In
`Evaluation` a process that is not killed goes on, while nobody has to start one.  In `Rollout`
loops, servers and releases go on, while starting a weight update is the trainer's affair and not
assumed.  `DpCall` has no fairness: every action but the final stutter brings the call nearer its
end, so that the absence of deadlock and `CallsMeet` say that it ends.

## 5. Disagreements between code and documentation

One is a run that TLC ends with a counterexample, `empty_response`: an example with an empty
response gets no prompt, and the results are then zipped with *all* examples: every later one is
recorded with its successor's judgement.

The passing run `eval_scores` is read with this in mind: it has a response for each example.  Other
limits of the code show in the models without a run of their own:

- `final_filter.py`, started by itself after a new generation or after a run killed before its
  inspection was saved, publishes new queries on the strength of verdicts about older ones: the join
  compares positions and source files only.  `dataset_pipeline` has such runs (`filter_only`);
  `OutputsPassedInspection` speaks of what the full pipeline stored.
- `--resume` keeps sidecar entries by position and never compares the `query_id`: criteria move to
  other queries when the dataset was regenerated in another order.  In `criteria` it grows only.
- Two languages with one file name (`SafeName`: a blank one and "Other", say) overwrite each other's
  file; the instances use languages of the inspection prompt's list, whose names are distinct.
- `store_in_language` removes the old dataset before it groups the records by language.  A judge's
  language that is a list or an object passes all gates and then raises (`GroupingFails`,
  `final_filter.py:137`), and so may opening a file named after a language (`OpenFails`, line 165):
  the dataset of the run before is gone, and the new one not there, or not whole.
- A None or an unparsable number among the judge's results raises and ends an evaluation
  (`RaiseUnparsed`) or one sample's reward (`Raise` of `PermReward`); the properties say what
  survives it.
- The `zip` of keys and URLs in `api_call.py:156` drops keys without a URL, and with them their
  prompts; with `--overwrite` a failed call replaces a criterion by None; the parquet converter
  requires a `criteria` key that the dataset has only once a sidecar is merged into it.
- Reward loop: the limits of `limited.py` are per worker process, though line 190 says they are
  shared; tokens of the rate limiters are spent before the wait for the semaphore; `max_rpm: 0`
  divides by zero; results with different keys lose the whole batch to a KeyError.
- Reward loop: `_post_request` says that it is "safer to have a timeout instead of None, which can
  hang indefinitely" (`reward_loop.py:158`) and passes `ClientTimeout(total=None)`.  A router that
  accepts the request and never answers holds its reward, and so the batch, for ever (`Hang`); the
  retries never begin.  `BatchEnds` excepts this, and nothing else.
- Asynchronous training: an exception in the generation leaves `running` set, so that the
  rollouter's `fit` never returns (`FitEnds` excepts it, `TrainerEnds` does not); one sample more
  than `fully_async_policy/README.md:138` computes may be under way; batches after the last saved
  version are not saved; without `partial_rollout` an interrupted response is cut short, though
  `fully_async_policy/README.md:211` to 218 has the update wait for it.
- Checkpoints: with `max_ckpt_to_keep: 1` the folder the tracker names is removed before the next
  save (`TrackedLoadable` excepts it); an emptied tracker file makes every later start fail; a
  restarted process never removes its predecessors' folders; a finished run that is started again
  with `resume_mode: auto` trains one step more.
- Rollout: an interaction's answer joins the response whatever its length (`Interact`,
  `tool_agent_loop.py:384` to 419), while a tool's is measured first; the request that follows may
  have no room, which the engine refuses with an exception that costs the sample (`Refuse`).
- Rollout: `routed_experts` of an interrupted response are concatenated with their prefix repeated.
- Dispatch: `rearrange_micro_batches` documents `max_token_len` as the largest sum of a micro-batch
  (`seqlen_balancing.py:363`), but uses it only to fix how many there are (line 398): rows of lengths
  2, 3 and 3 with a limit of 4 become two micro-batches, one of which has at least 5.
- Dispatch: a legacy FSDP worker with `use_dynamic_bsz` passes no `dp_group` (`dp_actor.py:468` and
  `560`), so that ranks may find different numbers of micro-batches and wait for each other until
  `nccl_timeout`; this is the exception in `CallsMeet`.  No caller sets the `keep_minibatch` of
  `_balance_batch`, whose order the sort that follows would undo.

## 6. Proofs

Every theorem holds for all values of the module's constants that satisfy its named assumptions,
and the assumptions are what the code takes for granted: positive sizes, limits and counts, and
values for "none" that differ from others.  TLC was given every inductive invariant, or its parts,
before they were proved.

### The batch caller

`ApiCallProofs`, from `CompletionAssumption` and `ApiCallAssumption` (positive numbers of keys,
permits and attempts; None and the abstract "open" differ from answers):

| Theorem | Says |
|---|---|
| `TypeCorrect` | `Spec => []TypeOK` |
| `PermitsAreConserved` | `Spec => []PermitsConserved` |
| `Concurrency` | `Spec => []ConcurrencyBound` |
| `NoneIsExhaustion` | `Spec => []NoneOnlyWhenExhausted` |
| `Alignment` | `Spec => []BatchAligned` |
| `Refinement` | `Spec => Batch!Safety`, the safety part of the abstract batch call |

None of the invariants is inductive alone.  `IInv` adds `AttemptsInv` (a sleeper has
an attempt left; a coroutine that has not ended has no reply; one that ended without a reply has
spent its attempts), `ManagersInv` (coroutines exist exactly from their manager's start; a manager
that returned has only ended ones, and what it gathered is what they returned and still is) and
`ReturnInv` (after the return all managers are through, and the list equals the replies).  A
wake-up stays within `max_retry` by the first; the scatter finds for each index the one pair of
that prompt by the second; alignment then follows from the third.  Permits are counted: entering
adds one holder and takes one permit, leaving does the reverse, and every other step leaves the
set of holders as it is; `Concurrency` follows since requests in flight are among the holders.
For the refinement, the coroutine's last step maps to `Settle`, the outer gather to `Return`, every
other step to a stutter.

### The other modules

| Module | Theorem | Says |
|---|---|---|
| `DatasetPipelineProofs` | `OneRun` | `Spec => []OutputsOfOneRun` |
| | `UnreadableCostNothing` | `Spec => UnreadableInputsKeepDataset` |
| | `OnlyPassedQueries` | `Spec => []OutputsPassedInspection` |
| | `AllIsStored` | `SafeNamesDiffer => (Spec => []StoredCompletely)` |
| | `AnswersComeHome` | `GenSpec => []QueriesBelong` |
| `CriteriaProofs` | `NeverTorn` | `Spec => []SidecarNeverTorn` |
| | `RunsFill`, `NothingIsLost` | `Spec => []CompleteRunFills`, `Spec => ResumeKeeps` |
| | `CriteriaInPlace` | `OnlyGrows => (Spec => []CriteriaBelong)` |
| `JudgingProofs` | `WithinLimits`, `BoundedRewards`, `EachItsReward` | `Spec => []` of `RateBound`, `ConcurrencyLimit`, `RewardsBelong` (`RewardLoop`) |
| | `BoundedJudges`, `WorstDimensionBounds` | `JudgingSpec => []` of `JudgeConcurrency`, `WorstDimensionCounts` (`PermReward`) |
| | `ScoresOnFile`, `WholeDimensionsOnFile` | `ScoresSpec => []` of `ScoresBelong`, `SavedInStep` (`EvalScores`) |
| | `EvaluationRefines` | `ESpec => ScoresSpec`, the safety part of `ImplementsEvalScores` |
| `RolloutProofs` | `TypeCorrect`, `LabelsCorrect`, `VersionsAgree`, `RoomForOne`, `WholeResponses`, `CountsAreRight` | `Spec => []` of `TypeOK`, `LabelsBracketTokens`, `OneVersionRuns`, `RoomLeft`, `NeverCutShort`, `InflightCounts` |
| | `TrainedOnceAlways`, `RolloutBounded`, `CheckpointLagBounded` | `AsyncSpec => []` of `TrainedOnce`, `RolloutBound`, `CheckpointLag` (`FullyAsync`) |
| `CheckpointsProofs` | `TypeCorrect`, `TrackedIsLoadable`, `WeightsAreKept`, `RetentionIsBounded` | `Spec => []` of `TypeOK`, `TrackedLoadable`, `WeightsKept`, `RetentionBound` |
| | `ResumesTheLatest` | `Spec => ResumesLatestSave` |
| `SeqlenBalancingProofs` | `KarmarkarKarpFair` | `Fair(KarmarkarKarp(f, k, equal_size), ...)` |
| | `GroupPartitionsFair`, `MicroBatchesFair` | the same of partitions of whole groups, and of micro-batches |
| | `RestoreIs` | `Restore` undoes any sharing out of rows |
| `DpCallProofs` | `InvHolds` | `Spec => []IInv`, the inductive invariant |
| | `RowsReturnHolds`, `PartitionsFairHolds`, `CallsMeetHolds` | `Spec => []` of `RowsReturn`, `PartitionsFair`, `CallsMeet` |

Two theorems (`AllIsStored`, `CriteriaInPlace`) have a hypothesis on the constants, which is there
because the code does not keep the property without it:

- `SafeNamesDiffer`: two languages of the inspection prompt's list have different file names and id
  prefixes.  Languages that `store_in_language` writes under one name overwrite each other's file.
- `OnlyGrows`: a regenerated dataset keeps the query of every position it had.  The resume goes by
  position and never compares a `query_id`.  Regenerating a language's file numbers its sessions anew.

`ScoresOnFile`, `WholeDimensionsOnFile` and `EvaluationRefines` rest on `EvaluationAssumption`,
which has a response for each example.  Section 5 and the run `empty_response` show what an example
without a response does.

What each adds to become inductive:

- **DatasetPipeline.**  `InputsInv`: while files are replaced, the two inputs are usable, as they
  were when the filter read them.  `OwnFilesInv`: once the old files are removed, what is there is
  of this run.  `JudgedInv` follows a verdict: after each batch the verdicts are as many as the
  queries sent and each names its own (`Aligned`); until the filter reads them, the two files of a
  full run are what this run wrote; so what is kept passed by its own verdict.  `StoreInv`: of the
  kept records' languages, those not in `todo` have their whole file, and no other file is there.
  `SlotsCounted` then turns files, positions and items into one place for each kept record.
- **GenerateBatch.**  `GenInv`, by stage: a record whose persona passed was charged for it; one that
  has situations passed, was charged for both calls, and its situations answer its own prompt.
  `Tasks` says that the flattened task list has each record's tasks together, in the order of its
  situations; what is taken from it for a record is then its own, in order, and none twice.
- **Criteria.**  `TmpInv`: the temporary file is whole when it replaces the sidecar.  `RunInv`
  follows the output through a run: it has a place for every query of the dataset (`Covers`), the
  jobs are exactly what is missing in it (`JobsOK`), it keeps what a resumed run found (`Keeps`), and
  after a call that answered everything nothing is missing (`Filled`).  `BelongInv`: sidecar and
  output have each criterion in its place.
- **PermReward.**  `PermitInv`: calls that hold a permit and free permits add up to `Permits`, and
  requests in flight are among the holders.  `RewardInv`: a sample is scored when its calls are done,
  with what these answered, and no dimension's score is negative or above 5; the bound is then one on
  the harmonic mean of three fractions (`HarmonicBound`, multiplied out).
- **Evaluation.**  `ScoresInv`: what is saved and what is being filled are the first dimensions of
  one run, whole; what a batch call returned is about the examples in order, since every one has a
  prompt (`PromptedAll`).  `OwnAnswers`: each coroutine's reply, and each entry of the list, answers
  its own index, whatever was collected before it.  The return of the call maps to `CallJudge`, a
  kill to `Crash`, every other step of the call to a stutter.
- **RewardLoop.**  `BucketInv` has two cases.  A solvent bucket's content and what it granted add up
  to at most its capacity and gains.  A request larger than the bucket leaves a debt; those it was
  granted to are counted only when they have slept it off (`PaidInTime`), and those who still sleep
  account for the debt (`DebtCounted`).  `GateInv` keeps stages, sleepers and clock in order;
  `PoolInv` counts permits and threads, those of timed-out rewards included.  `BelongInv`: what a
  worker returned and what is collected is each sample's own; the workers' outputs one after the
  other are the samples in order (`OutputsInOrder`).
- **FullyAsync.**  `RollInv` says which samples are waiting, active and finished at each place of the
  processor; `QueueInv` that queue, batch and trained samples are disjoint and the end signal comes
  last, behind everything generated.  The bound needs `CoverInv`: the staleness count covers all
  samples under way but the one the processor may hold, over the two moments at which
  `reset_staleness` reads its numbers.  `LagInv`: a checkpoint has at least the batches of the
  versions before its own, and the last one is of the last version.
- **Checkpoints.** `SavedInv`, `OrderInv`: the managers' lists increase and hold nothing between the
  tracked step and the one being saved, so that what is dropped (`KeptLast`) is never the tracked
  folder; `ProgressInv`: what a save has passed is whole and of this process.  On top of these:
  `UnmixedInv`, the tracked folder never holds files of two processes, and `BehindInv`, no save due
  lies between the tracked step and those trained since; `WeightsInv`, until a group is saved anew
  its shards at the tracked step are whole; `RetentionInv`, the folders of a group that this process
  wrote are those its manager remembers and the one being written.
- **Rollout.**  `PhaseInv` orders the weights of the servers around an update, `ServerInv` says
  where requests may be, `LabelInv` that the label so far covers the tokens so far and no token is
  newer than any server's weights, `RoomInv` that prompt, tokens and room stay within the lengths
  until an interaction's answer comes last.  A request leaves its server in three ways, by `Return`,
  `Interact` and `Refuse`, which `LeaveStep` and `LeaveCounts` treat as one.
  `CountInv`: a server's count is the requests there and the releases on their way, both finite;
  a step moves one from the first set to the second or takes one out of it.

### Batch dispatch

`PartitionsFair`, `RowsReturn` and `CallsMeet` rest on what the functions of `seqlen_balancing.py`
compute, so the proof begins with these (`SeqlenBalancingProofs`):

- *Sorting.*  `Sort` puts at each place what has so many ahead of it.  For an order without cycles
  in which ties are transitive (`WeakOrder`), what is ahead of one position is a smaller set than what
  is ahead of the next (`AheadGrows`), so the counts are the places, and a sorted list is the list in
  another order (`SortIs`).
- *The differencing method.* `Filled` says of a state that its sets have the sums of their rows, no
  row twice, and sums no further apart than `gap`; `Shape`, that its sets are of one size, or that
  none is empty next to one with two rows.  A state is sorted, so that its sums fall; of the other,
  turned round, they rise; joined set by set, what one adds to a difference the other takes away
  (`BesideFilled`), and so `Merge` keeps both (`MergeSound`).  States in the heap have different
  rows, which makes their order total and the first one unique (`FirstIn`).  From N states N - 1
  mergers leave one with all rows (`MergesCover`, `LastState`): `KarmarkarKarpFair`.
- *What is built on it.*  Sorting within a partition, and taking every second row from each end,
  keep rows and sums (`AlikeFair`, `InwardFair`); partitions of groups become partitions of their
  rows (`GroupedFair`); micro-batches in another order are the same (`FairReordered`); the reverse
  index undoes the order (`RestoreIs`).  `GroupPartitionsFair` has the uids as `_balance_batch` finds
  them, each repeated `rollout.n` times.

`DpCallProofs` then shows `IInv` inductive.  Its parts are `Types`; `Batches` (before balancing the
batch is the rows in order, afterwards its slices are fair); `Working`: a rank's mini-batches are
what is left of its chunk, its micro-batches what is left of its plan for the current one, and its
results with those to come are the chunk's, in the order of the plan or, in an update, each once
(`Works`); `Together`: two ranks have equally many mini-batches left, none is a pass ahead of
another, and peers hold the same (`Level`); `AllMicrosFair`; `Results`; `Validating`, that padding
only adds rows behind those of the batch; and `CallsMeet` itself.  A timeout needs one rank with
passes left and one without, or peers with different rows: by `Together` they are equally far, so
that their plans differ in length, and plans of fixed micro-batches or agreed numbers do not
(`PlansMeet`, `ApartMeets`). `RowsReturn` follows since what the first rank of each sequence
parallel group sends, joined, is the list that was cut (`GatheredIs`).  Nothing is assumed of the
sizes beyond `SizesAssumption`: rows divide evenly into groups and ranks and these into mini- and
micro-batches, and no row is longer than a micro-batch may be.  The code checks the division of the
batch over the ranks and of mini- into micro-batches.  That a rank's rows divide into mini-batches
is checked by the engine workers (`tensordict_utils.py:556`) but not by the legacy ones, which would
go on with a smaller last one (`dp_actor.py:548`): such configurations are outside the model.

### Lists

Induction over data in the library's form is out of reach, because its theorems have an operator as
parameter.  Where a proof needs what a recursive function computes, it argues from the least number
for which the claim would fail: `NatLessThanWellFounded` and `WFMin` give that number (`SomeLeast`),
the definition's equation leads to a smaller one.  `InductTo` states this once, for the set of
numbers that have a property.  That the function exists, which the CHOOSE behind a recursive
definition leaves open, is shown by exhibiting the values.  This gives `FlattenedBySteps` and
`ThoseTake` (what flattening and a conditional comprehension return: which members, each once, in
order), `TasksAre`, `Flattened` of `CriteriaProofs`, `OutputsInOrder`, `SumIsNat` and
`FlattenedSingles` of `JudgingProofs`, `SumTotals`, `SumPermuted` (a sum does not depend on the
order), `SumFlatten` and `MergesExist` of `SeqlenBalancingProofs`.  The models say `Those`, a
flattening, where the code has a comprehension with a condition: `SelectSeq`, which is recursive
inside the library, stays opaque to the prover.

### Only model-checked

Liveness (`RewardReturns`, `BatchEnds`, `TrainerEnds`, `FitEnds`, `LoopsEnd` and the fairness parts
of `ImplementsBatchCall` and `ImplementsEvalScores`) and the absence of deadlock, which is a
statement about ENABLED, are out of TLAPS's reach.  Every safety property of the runs is a theorem:
each invariant, the action properties `UnreadableInputsKeepDataset`, `ResumeKeeps` and
`ResumesLatestSave`, and the safety part of the two refinements.

## 7. What is not modelled

The modules cover the repository's own programs and the parts of `verl` in which order,
interruption, limits or crashes decide what happens.  Most of the 111 000 lines of `verl` are
kernels, model definitions, numerical code and adapters, which have no such behaviour or none that a
finite state machine could say something about; the modelled lines are a small share of the whole.

- Prompt texts, response parsing below its outcome, keyword lists, the parquet converter
  (`src/train/prepare_dataset.py`): stateless or wording.  The baseline reward repeats the call
  pattern of the PERM reward with two calls, and the training script does not use it.
- Evaluation: the join of dataset, predictions and criteria, whose lengths are asserted, and the mean.
- Reward loop: where a score lands in the reward tensor, the naive manager, the synchronous call.
- Asynchronous training: validation, the save before an expiring server, restart, tear-down.
- Checkpoints: asynchronous saves, the Megatron manager, HDFS, a changed number of ranks.
- Rollout: the `max_tokens` a caller may put into the sampling parameters (no agent loop does; the
  distillation's scoring asks for one token, `agent_loop.py:853`), padding, teacher servers,
  multi-modal data, SGLang and TensorRT-LLM, vLLM before 0.12.
- Dispatch: `balance_batch` off, `ppo_epochs` other than 1, `force_group_size`, shuffled mini-batches,
  pipeline parallelism, the critic.
- The numerical core of `verl` (advantages, losses, sharding, kernels, models): floating point on
  GPUs.
- `verl`'s infrastructure (Ray worker groups, weight transfer, engine adapters) and the Docker,
  script and test directories: external or generic.

## 8. Plan

Done, in this order: `Completion`, `BatchCall`, `ApiCall` with `ApiCallProofs`, `EvalApiCall`,
`GenerateBatch`, `DatasetPipeline`, `Criteria`, `EvalScores`, `PermReward`; then `RewardLoop`,
`FullyAsync`, `Checkpoints`, `Rollout`, `SeqlenBalancing`, `DpCall`, `Evaluation`; then the theorems
of section 6, those of batch dispatch last.

Next:

1. **Composition**: `FullyAsync` with `Rollout` in place of its one-step generation, so that a pause
   and a weight update meet half-finished samples.
2. **Checkpoints**: asynchronous saves and the Megatron manager, whose tracker is written by a
   callback.
3. **DpCall**: critic and reference model, pipeline parallel schedules.
