------------------------------ MODULE RewardLoop ------------------------------
(***************************************************************************)
(* compute_rm_score of experimental/reward_loop: a batch is cut into       *)
(* chunks, one for each reward loop worker, a process of its own; a worker *)
(* computes the rewards of its chunk concurrently and the manager puts the *)
(* chunks together again.  A reward is computed by the rate-limited reward *)
(* manager (limited.py) from an async or a sync score function, or, with a *)
(* discriminative reward model, asked of its router with retries.          *)
(*                                                                         *)
(* Time is counted in ticks: a limiter refills at "rate" tokens a tick.    *)
(* An answer, a failure or a timeout may come at any time, and an answer   *)
(* of the router, which is awaited without a timeout, never; how long a    *)
(* retry backs off, and the order in which asyncio serves the waiters of   *)
(* the semaphore and of the thread pool, are left open.                    *)
(***************************************************************************)
EXTENDS Integers, FiniteSets, SequencesExt

CONSTANTS
  NumWorkers, ChunkSize,  \* reward.num_workers, and samples for each
  LimiterLists,   \* the token buckets a request passes: lists of [rate, cap, need]
  MaxConcurrent,  \* reward.max_concurrent
  Threads,        \* threads of the event loop's executor
  MaxRetries,     \* max_retries of _post_request
  Kinds,          \* of "async", "sync" (score functions) and "disrm"
  AnswerKeys,     \* keys an answer may have: {"acc"} for a number, else a dict's
  MaxTime         \* bound: ticks

Workers == 1 .. NumWorkers
Samples == 1 .. NumWorkers * ChunkSize

ASSUME RewardLoopAssumption ==
  /\ {NumWorkers, ChunkSize, MaxConcurrent, Threads, MaxRetries} \subseteq Nat \ {0}
  /\ MaxTime \in Nat
  /\ LimiterLists \subseteq Seq([rate : Nat \ {0}, cap : Nat \ {0}, need : Nat \ {0}])
  /\ Kinds \subseteq {"async", "sync", "disrm"}

VARIABLES
  kind, limiters,  \* the configuration
  now,
  pc,           \* where the coroutine of each sample is
  stage,        \* the limiter it is at
  wake,         \* when its sleep ends
  attempt,      \* requests posted for it
  result,       \* "answer", "timeout", "error" or "none"
  tokens, last, \* each worker's buckets: tokens and last_update
  granted,      \* tokens that acquire has returned with so far
  permits,      \* the semaphore of each worker
  stray,        \* threads still busy with a reward that timed out
  batch,        \* what compute_rm_score has done
  scores        \* rm_scores

config == <<kind, limiters>>
bucket == <<tokens, last, granted>>
pool   == <<permits, stray>>
manager == <<batch, scores>>
vars == <<config, now, pc, stage, wake, attempt, result, bucket, pool, manager>>

\* Faulty: dealt out in turn.
ChunkInTurn(w) == [k \in 1 .. ChunkSize |-> (k - 1) * NumWorkers + w]

\* DataProto.chunk: consecutive samples.
Chunk(w) == [k \in 1 .. ChunkSize |-> (w - 1) * ChunkSize + k]
WorkerOf(i) == ((i - 1) \div ChunkSize) + 1

Init ==
  /\ kind \in Kinds /\ limiters \in LimiterLists
  /\ now = 0
  /\ pc = [i \in Samples |-> IF kind = "disrm" THEN "post" ELSE "decode"]
  /\ stage = [i \in Samples |-> 1]
  /\ wake = [i \in Samples |-> 0]
  /\ attempt = [i \in Samples |-> 0]
  /\ result = [i \in Samples |-> "none"]
  /\ tokens = [w \in Workers |-> [l \in DOMAIN limiters |-> limiters[l].cap]]
  /\ last = [w \in Workers |-> [l \in DOMAIN limiters |-> 0]]
  /\ granted = [w \in Workers |-> [l \in DOMAIN limiters |-> 0]]
  /\ permits = [w \in Workers |-> MaxConcurrent]
  /\ stray = [w \in Workers |-> 0]
  /\ batch = "running" /\ scores = <<>>

--------------------------------------------------------------------------------
Computing(w) == {i \in Samples : WorkerOf(i) = w /\ pc[i] = "compute"}

ThreadFree(w) ==
  stray[w] + (IF kind = "sync" THEN Cardinality(Computing(w)) ELSE 0) < Threads

\* The response is decoded in the executor.
Decode(i) ==
  /\ pc[i] = "decode" /\ ThreadFree(WorkerOf(i))
  /\ pc' = [pc EXCEPT ![i] = IF limiters = <<>> THEN "permit" ELSE "acquire"]
  /\ UNCHANGED <<config, now, stage, wake, attempt, result, bucket, pool, manager>>

Limiter(i) == limiters[stage[i]]

Refill(i) ==
  LET w    == WorkerOf(i)
      full == tokens[w][stage[i]] + (now - last[w][stage[i]]) * Limiter(i).rate
  IN  IF full > Limiter(i).cap THEN Limiter(i).cap ELSE full

\* tokens_needed / rate_limit, in whole ticks.
WaitFor(i, missing) == (missing + Limiter(i).rate - 1) \div Limiter(i).rate

SetBucket(i, left) ==
  /\ tokens' = [tokens EXCEPT ![WorkerOf(i)][stage[i]] = left]
  /\ last' = [last EXCEPT ![WorkerOf(i)][stage[i]] = now]

Sleep(i, where, ticks) ==
  /\ pc' = [pc EXCEPT ![i] = where]
  /\ wake' = [wake EXCEPT ![i] = now + ticks]

\* acquire returns: on to the next limiter, or to the semaphore.
Granted(i) ==
  /\ granted' = [granted EXCEPT ![WorkerOf(i)][stage[i]] = @ + Limiter(i).need]
  /\ IF stage[i] < Len(limiters)
       THEN stage' = [stage EXCEPT ![i] = @ + 1] /\ pc' = [pc EXCEPT ![i] = "acquire"]
       ELSE stage' = [stage EXCEPT ![i] = 1] /\ pc' = [pc EXCEPT ![i] = "permit"]

\* Faulty: a request larger than the bucket takes what there is.
OverdrawCut(i) ==
  /\ pc[i] = "acquire" /\ Limiter(i).need > Limiter(i).cap
  /\ SetBucket(i, 0)
  /\ Sleep(i, "pay", WaitFor(i, Limiter(i).need - Refill(i)))
  /\ UNCHANGED <<config, now, stage, attempt, result, granted, pool, manager>>

\* A request larger than the bucket leaves it in debt, and sleeps the debt off.
Overdraw(i) ==
  /\ pc[i] = "acquire" /\ Limiter(i).need > Limiter(i).cap
  /\ SetBucket(i, Refill(i) - Limiter(i).need)
  /\ Sleep(i, "pay", WaitFor(i, Limiter(i).need - Refill(i)))
  /\ UNCHANGED <<config, now, stage, attempt, result, granted, pool, manager>>

Paid(i) ==
  /\ pc[i] = "pay" /\ now >= wake[i]
  /\ Granted(i) /\ wake' = [wake EXCEPT ![i] = 0]
  /\ UNCHANGED <<config, now, attempt, result, tokens, last, pool, manager>>

Take(i) ==
  /\ pc[i] = "acquire" /\ Limiter(i).need <= Limiter(i).cap
  /\ Refill(i) >= Limiter(i).need
  /\ SetBucket(i, Refill(i) - Limiter(i).need)
  /\ Granted(i)
  /\ UNCHANGED <<config, now, wake, attempt, result, pool, manager>>

Defer(i) ==
  /\ pc[i] = "acquire" /\ Limiter(i).need <= Limiter(i).cap
  /\ Refill(i) < Limiter(i).need
  /\ SetBucket(i, Refill(i))
  /\ Sleep(i, "sleep", WaitFor(i, Limiter(i).need - Refill(i)))
  /\ UNCHANGED <<config, now, stage, attempt, result, granted, pool, manager>>

Retry(i) ==
  /\ pc[i] = "sleep" /\ now >= wake[i]
  /\ pc' = [pc EXCEPT ![i] = "acquire"] /\ wake' = [wake EXCEPT ![i] = 0]
  /\ UNCHANGED <<config, now, stage, attempt, result, bucket, pool, manager>>

--------------------------------------------------------------------------------
\* The semaphore is entered; a sync score function is handed to the executor.
Enter(i) ==
  /\ pc[i] = "permit" /\ permits[WorkerOf(i)] > 0
  /\ permits' = [permits EXCEPT ![WorkerOf(i)] = @ - 1]
  /\ pc' = [pc EXCEPT ![i] = IF kind = "sync" THEN "queued" ELSE "compute"]
  /\ UNCHANGED <<config, now, stage, wake, attempt, result, bucket, stray, manager>>

\* Faulty: a thread is started for every job.
RunThreadUnpooled(i) ==
  /\ pc[i] = "queued"
  /\ pc' = [pc EXCEPT ![i] = "compute"]
  /\ UNCHANGED <<config, now, stage, wake, attempt, result, bucket, pool, manager>>

RunThread(i) ==
  /\ pc[i] = "queued" /\ ThreadFree(WorkerOf(i))
  /\ pc' = [pc EXCEPT ![i] = "compute"]
  /\ UNCHANGED <<config, now, stage, wake, attempt, result, bucket, pool, manager>>

\* Faulty: only an answer returns the permit.
LeaveLeaking(i, r) ==
  /\ pc' = [pc EXCEPT ![i] = "done"]
  /\ result' = [result EXCEPT ![i] = r]
  /\ permits' = IF r = "answer" THEN [permits EXCEPT ![WorkerOf(i)] = @ + 1] ELSE permits
  /\ UNCHANGED <<config, now, stage, wake, attempt, bucket, manager>>

\* The semaphore is left, whatever the end.
Leave(i, r) ==
  /\ pc' = [pc EXCEPT ![i] = "done"]
  /\ result' = [result EXCEPT ![i] = r]
  /\ permits' = [permits EXCEPT ![WorkerOf(i)] = @ + 1]
  /\ UNCHANGED <<config, now, stage, wake, attempt, bucket, manager>>

Computed(i) ==
  /\ pc[i] = "compute"
  /\ \E r \in {"answer", "error"} : Leave(i, r)
  /\ UNCHANGED stray

\* wait_for cancels a coroutine, and a job the executor has not begun; a running thread
\* goes on.
Timeout(i) ==
  /\ pc[i] \in {"queued", "compute"}
  /\ Leave(i, "timeout")
  /\ stray' = IF kind = "sync" /\ pc[i] = "compute"
                THEN [stray EXCEPT ![WorkerOf(i)] = @ + 1] ELSE stray

StrayEnds(w) ==
  /\ stray[w] > 0
  /\ stray' = [stray EXCEPT ![w] = @ - 1]
  /\ UNCHANGED <<config, now, pc, stage, wake, attempt, result, bucket, permits, manager>>

--------------------------------------------------------------------------------
\* _post_request to the router of the reward model: an HTTP 4xx is raised at once,
\* anything else is tried again until the retries are used up.
Post(i) ==
  /\ pc[i] = "post"
  /\ \/ /\ pc' = [pc EXCEPT ![i] = "done"]
        /\ result' = [result EXCEPT ![i] = "answer"]
     \/ pc' = [pc EXCEPT ![i] = "raised"] /\ UNCHANGED result
     \/ /\ attempt[i] + 1 < MaxRetries
        /\ UNCHANGED <<pc, result>>
  /\ attempt' = [attempt EXCEPT ![i] = @ + 1]
  /\ UNCHANGED <<config, now, stage, wake, bucket, pool, manager>>

\* The request is sent with ClientTimeout(total=None): if the router accepts it and never
\* answers, nothing ends the wait.
Hang(i) ==
  /\ pc[i] = "post"
  /\ pc' = [pc EXCEPT ![i] = "hung"]
  /\ attempt' = [attempt EXCEPT ![i] = @ + 1]
  /\ UNCHANGED <<config, now, stage, wake, result, bucket, pool, manager>>

\* Time passes, in the model, while some coroutine sleeps.
Tick ==
  /\ now < MaxTime
  /\ \E i \in Samples : wake[i] > now
  /\ now' = now + 1
  /\ UNCHANGED <<config, pc, stage, wake, attempt, result, bucket, pool, manager>>

\* The chunks' results one after the other: whose they are.
Outputs == FlattenSeq([w \in Workers |-> Chunk(w)])

\* The keys of reward_extra_info (a disrm result has none), those of an answer being
\* what the score function returns.
KeysOf(i, keys) ==
  IF kind = "disrm" THEN {}
  ELSE CASE result[i] = "answer"  -> keys
         [] result[i] = "timeout" -> {"timeout", "acc"}
         [] OTHER                 -> {"error", "acc"}

Score(i) == IF result[i] = "answer" THEN [sample |-> i] ELSE [sample |-> 0]

\* "info[key] for info in reward_extra_infos", the keys being the first result's.
HasKeysOfFirst(i, keys) == KeysOf(Outputs[1], keys) \subseteq KeysOf(i, keys)

Gather ==
  /\ batch = "running"
  /\ \A i \in Samples : pc[i] = "done"
  /\ \E keys \in AnswerKeys :
       IF \A i \in Samples : HasKeysOfFirst(i, keys)
         THEN /\ batch' = "returned"
              /\ scores' = [n \in DOMAIN Outputs |-> Score(Outputs[n])]
         ELSE batch' = "raised" /\ UNCHANGED scores
  /\ UNCHANGED <<config, now, pc, stage, wake, attempt, result, bucket, pool>>

\* The first exception of a worker ends the batch; the others' rewards go on.
GatherRaises ==
  /\ batch = "running"
  /\ \E i \in Samples : pc[i] = "raised"
  /\ batch' = "raised"
  /\ UNCHANGED <<config, now, pc, stage, wake, attempt, result, bucket, pool, scores>>

Step(i) ==
  \/ Decode(i) \/ Overdraw(i) \/ Paid(i) \/ Take(i) \/ Defer(i) \/ Retry(i)
  \/ Enter(i) \/ RunThread(i) \/ Timeout(i) \/ Post(i)

Next ==
  \/ \E i \in Samples : Step(i) \/ Computed(i) \/ Hang(i)
  \/ \E w \in Workers : StrayEnds(w)
  \/ Tick \/ Gather \/ GatherRaises

Spec == Init /\ [][Next]_vars

\* Time passes, coroutines run, and a thread ends some day.  That a score function
\* answers is not assumed: its timeout comes.  Nor that the router does: a request to
\* it may hang, and one that hangs takes no further step.
Fairness ==
  /\ \A i \in Samples : WF_vars(Step(i))
  /\ \A w \in Workers : WF_vars(StrayEnds(w))
  /\ WF_vars(Tick) /\ WF_vars(Gather) /\ WF_vars(GatherRaises)

FairSpec == Spec /\ Fairness

--------------------------------------------------------------------------------
\* A worker never lets more requests through a limiter than its bucket held at first
\* and has gained since, also when each request is larger than the bucket.
RateBound ==
  \A w \in Workers : \A l \in DOMAIN limiters :
    granted[w][l] <= limiters[l].cap + now * limiters[l].rate

\* Each worker awaits at most max_concurrent rewards; what it runs besides, rewards that
\* timed out in their threads, is bounded by the executor's threads alone.
ConcurrencyLimit ==
  \A w \in Workers :
    /\ Cardinality(Computing(w)) <= MaxConcurrent
    /\ kind = "sync" => Cardinality(Computing(w)) + stray[w] <= Threads

\* A returned batch has the sample's own reward at every position, or 0 for one that
\* timed out or failed.  A batch is lost only if some reward was given up by
\* _post_request, or the rewards did not all end the same way: then the first result
\* has a key that another lacks.
RewardsBelong ==
  /\ batch = "returned" => scores = [i \in Samples |-> Score(i)]
  /\ batch = "raised" =>
       \/ \E i \in Samples : pc[i] = "raised"
       \/ \E i, j \in Samples : result[i] # result[j]

\* Every batch ends, even if no score function ever answers and however the rewards
\* share permits, threads and buckets; only a router that never answers can hold it up.
BatchEnds == <>(batch # "running" \/ \E i \in Samples : pc[i] = "hung")
===============================================================================
