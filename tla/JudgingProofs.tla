------------------------------ MODULE JudgingProofs ------------------------------
(***************************************************************************)
(* Theorems about the three programs that have responses judged.           *)
(* RewardLoop for any workers, limiters, score functions, threads and      *)
(* time: the rate limit, the limit on concurrent rewards, and that each    *)
(* reward of a batch stands at its sample.  PermReward for any samples,    *)
(* answers, number of trials, retries and permits: how many requests to    *)
(* the judges are in flight, and what a reward is worth beside the worst   *)
(* dimension's mean.  Evaluation for any number of examples, texts and     *)
(* processes: that it implements EvalScores, and that the file holds the   *)
(* judgements of the examples it names.                                    *)
(***************************************************************************)
EXTENDS RewardLoop, PermReward, Evaluation, FiniteSetTheorems, WellFoundedInduction, TLAPS

--------------------------------------------------------------------------------
(* The inductive invariant. *)

Places == {"decode", "acquire", "pay", "sleep", "permit", "queued", "compute",
           "post", "hung", "done", "raised"}

LimiterInv == limiters \in LimiterLists
ClockInv   == now \in Nat
PcInv      == pc \in [Samples -> Places]
WakeInv    == wake \in [Samples -> Int]

\* A coroutine at the gate is at a limiter there is.
StageInv ==
  /\ stage \in [Samples -> Int]
  /\ \A i \in Samples :
       /\ pc[i] = "decode" => stage[i] = 1
       /\ pc[i] \in {"acquire", "pay", "sleep"} => stage[i] \in DOMAIN limiters

\* Only a request larger than the bucket sleeps its debt off.
DebtorInv ==
  \A i \in Samples : pc[i] = "pay" => Limiter(i).need > Limiter(i).cap

BucketTypes ==
  /\ tokens \in [Workers -> [DOMAIN limiters -> Int]]
  /\ last \in [Workers -> [DOMAIN limiters -> Int]]
  /\ granted \in [Workers -> [DOMAIN limiters -> Int]]
  /\ \A w \in Workers : \A l \in DOMAIN limiters : last[w][l] <= now

GateInv ==
  LimiterInv /\ ClockInv /\ PcInv /\ WakeInv /\ StageInv /\ DebtorInv /\ BucketTypes

\* RateBound is not inductive alone.  A bucket that holds whole requests is never in
\* debt, and what it has granted and still has is what it had and has gained.
Solvent(w, l) ==
  /\ 0 <= tokens[w][l]
  /\ granted[w][l] + tokens[w][l] <= limiters[l].cap + last[w][l] * limiters[l].rate

\* A bucket smaller than a request is in debt by the requests that sleep the debt off;
\* and by the time one of them wakes, the bucket has gained what it and all that wake
\* no later will have been granted.
Paying(w, l) == {i \in Samples : WorkerOf(i) = w /\ pc[i] = "pay" /\ stage[i] = l}

NoLater(i, w, l) == {j \in Paying(w, l) : wake[j] <= wake[i]}

Due(i) == IF wake[i] > now THEN wake[i] ELSE now

DebtCounted(w, l) ==
  granted[w][l] + limiters[l].need * Cardinality(Paying(w, l)) + tokens[w][l]
    <= limiters[l].cap + last[w][l] * limiters[l].rate

PaidInTime(w, l) ==
  \A i \in Paying(w, l) :
    granted[w][l] + limiters[l].need * Cardinality(NoLater(i, w, l))
      <= limiters[l].cap + Due(i) * limiters[l].rate

WithinRate(w, l) == granted[w][l] <= limiters[l].cap + now * limiters[l].rate

Sound(w, l) ==
  /\ WithinRate(w, l)
  /\ limiters[l].need <= limiters[l].cap => Solvent(w, l)
  /\ limiters[l].need > limiters[l].cap => DebtCounted(w, l) /\ PaidInTime(w, l)

BucketInv == \A w \in Workers : \A l \in DOMAIN limiters : Sound(w, l)

\* The permits left and the rewards that hold one are together max_concurrent; and
\* the jobs that run in the executor, abandoned or not, have a thread each.
Holders(w) == {i \in Samples : WorkerOf(i) = w /\ pc[i] \in {"queued", "compute"}}

PermitInv(w) ==
  permits[w] \in Nat /\ permits[w] + Cardinality(Holders(w)) = MaxConcurrent

ThreadInv(w) ==
  stray[w] \in Nat /\ (kind = "sync" => Cardinality(Computing(w)) + stray[w] <= Threads)

PoolInv ==
  /\ DOMAIN permits = Workers /\ DOMAIN stray = Workers
  /\ \A w \in Workers : PermitInv(w) /\ ThreadInv(w)

--------------------------------------------------------------------------------
(* Arithmetic. *)

\* As many whole ticks as a wait is rounded up to refill what was missing.
LEMMA Ceiling ==
  ASSUME NEW r \in Nat \ {0}, NEW m \in Nat
  PROVE  (m + r - 1) \div r \in Nat /\ m <= ((m + r - 1) \div r) * r
OBVIOUS

LEMMA Monotone ==
  ASSUME NEW r \in Nat, NEW a \in Int, NEW b \in Int, a <= b
  PROVE  a * r \in Int /\ b * r \in Int /\ a * r <= b * r
OBVIOUS

LEMMA Later ==
  ASSUME NEW r \in Int, NEW a \in Int, NEW b \in Int
  PROVE  a * r + (b - a) * r = b * r /\ (a + b) * r = a * r + b * r
OBVIOUS

LEMMA OneMore ==
  ASSUME NEW n \in Nat, NEW k \in Int
  PROVE  n * (k + 1) = n * k + n /\ n * k \in Int /\ n * (k + 1) \in Int
OBVIOUS

LEMMA WorkerType == ASSUME NEW i \in Samples PROVE WorkerOf(i) \in Workers
<1>1. NumWorkers \in Nat \ {0} /\ ChunkSize \in Nat \ {0}
  BY RewardLoopAssumption
<1>2. i \in Int /\ 1 <= i /\ i <= NumWorkers * ChunkSize
  BY <1>1 DEF Samples
<1>3. ASSUME NEW n \in Nat \ {0}, NEW c \in Nat \ {0}, NEW m \in Int, 1 <= m, m <= n * c
      PROVE  ((m - 1) \div c) \in Int /\ 0 <= (m - 1) \div c /\ (m - 1) \div c < n
  <2>1. (m - 1) \div c \in Int /\ ((m - 1) \div c) * c <= m - 1 /\ 0 <= (m - 1) \div c
    BY <1>3
  <2>2. PICK d \in Int : d = (m - 1) \div c
    BY <2>1
  <2>3. d * c < n * c
    BY <2>1, <2>2, <1>3
  <2>4. d < n
    <3>1. SUFFICES ASSUME n <= d PROVE FALSE
      BY <1>3, <2>2
    <3>. QED BY <3>1, <2>3, Monotone
  <2>. QED BY <2>1, <2>2, <2>4
<1>4. ((i - 1) \div ChunkSize) \in Int /\ 0 <= (i - 1) \div ChunkSize
      /\ (i - 1) \div ChunkSize < NumWorkers
  BY <1>1, <1>2, <1>3
<1>. QED BY <1>1, <1>4 DEF WorkerOf, Workers

LEMMA SubsetsFinite ==
  ASSUME NEW S \in SUBSET Samples
  PROVE  IsFiniteSet(S) /\ Cardinality(S) \in Nat
<1>1. NumWorkers * ChunkSize \in Int
  BY RewardLoopAssumption
<1>2. IsFiniteSet(Samples)
  BY <1>1, FS_Interval DEF Samples
<1>. QED BY <1>2, FS_Subset, FS_CardinalityType

LEMMA LimiterType ==
  ASSUME LimiterInv, NEW l \in DOMAIN limiters
  PROVE  /\ limiters[l].rate \in Nat \ {0} /\ limiters[l].cap \in Nat \ {0}
         /\ limiters[l].need \in Nat \ {0}
<1>1. limiters \in Seq([rate : Nat \ {0}, cap : Nat \ {0}, need : Nat \ {0}])
  BY RewardLoopAssumption DEF LimiterInv
<1>2. ASSUME NEW T, limiters \in Seq(T) PROVE limiters[l] \in T
  BY <1>2
<1>3. limiters[l] \in [rate : Nat \ {0}, cap : Nat \ {0}, need : Nat \ {0}]
  BY <1>1, <1>2
<1>. QED BY <1>3

\* What a bucket is refilled to.
LEMMA RefillBound ==
  ASSUME GateInv, NEW i \in Samples, pc[i] = "acquire"
  PROVE  /\ Refill(i) \in Int /\ Refill(i) <= Limiter(i).cap
         /\ Refill(i) <= tokens[WorkerOf(i)][stage[i]]
                         + (now - last[WorkerOf(i)][stage[i]]) * Limiter(i).rate
         /\ tokens[WorkerOf(i)][stage[i]] >= 0 => Refill(i) >= 0
<1>1. WorkerOf(i) \in Workers /\ stage[i] \in DOMAIN limiters
  BY WorkerType DEF GateInv, StageInv
<1>2. PICK w \in Workers, l \in DOMAIN limiters : w = WorkerOf(i) /\ l = stage[i]
  BY <1>1
<1>3. limiters[l].rate \in Nat /\ limiters[l].cap \in Nat
  BY LimiterType DEF GateInv
<1>4. tokens[w][l] \in Int /\ last[w][l] \in Int /\ now \in Int /\ last[w][l] <= now
  BY DEF GateInv, BucketTypes, ClockInv
<1>5. (now - last[w][l]) * limiters[l].rate \in Nat
  BY <1>3, <1>4
<1>6. PICK gain \in Nat : gain = (now - last[w][l]) * limiters[l].rate
  BY <1>5
<1>7. Refill(i) = IF tokens[w][l] + gain > limiters[l].cap THEN limiters[l].cap
                  ELSE tokens[w][l] + gain
  BY <1>2, <1>6 DEF Refill, Limiter
<1>. QED BY <1>2, <1>3, <1>4, <1>6, <1>7 DEF Limiter

--------------------------------------------------------------------------------
(* The gate: where coroutines and buckets are. *)

LEMMA GateStep ==
  ASSUME GateInv, limiters' = limiters, now' \in {now, now + 1},
         UNCHANGED <<stage, tokens, last, granted>>,
         pc' \in [Samples -> Places], wake' \in [Samples -> Int],
         \A i \in Samples : pc'[i] \in {"decode", "acquire", "pay", "sleep"} =>
           \/ pc'[i] = pc[i]
           \/ pc'[i] \in {"acquire", "sleep"} /\ stage[i] \in DOMAIN limiters
  PROVE  GateInv'
<1>. USE DEF GateInv
<1>1. LimiterInv' /\ PcInv' /\ WakeInv'
  BY DEF LimiterInv, PcInv, WakeInv
<1>2. ClockInv' /\ now <= now'
  BY DEF ClockInv
<1>3. StageInv'
  BY DEF StageInv
<1>4. BucketTypes'
  BY <1>2 DEF BucketTypes, ClockInv
<1>5. DebtorInv'
  BY DEF DebtorInv, Limiter
<1>. QED BY <1>1, <1>2, <1>3, <1>4, <1>5

LEMMA GrantedStages ==
  ASSUME GateInv, NEW i \in Samples, pc[i] \in {"acquire", "pay"},
         Granted(i), limiters' = limiters
  PROVE  PcInv' /\ StageInv' /\ DebtorInv'
<1>. USE DEF GateInv
<1>1. stage[i] \in DOMAIN limiters /\ DOMAIN limiters = 1 .. Len(limiters)
      /\ Len(limiters) \in Nat
  BY RewardLoopAssumption DEF StageInv, LimiterInv
<1>2. CASE stage[i] < Len(limiters)
  <2>1. stage[i] + 1 \in DOMAIN limiters /\ stage[i] + 1 \in Int
    BY <1>1, <1>2
  <2>. QED BY <1>2, <2>1 DEF Granted, PcInv, StageInv, DebtorInv, Limiter, Places
<1>3. CASE ~(stage[i] < Len(limiters))
  BY <1>1, <1>3 DEF Granted, PcInv, StageInv, DebtorInv, Limiter, Places
<1>. QED BY <1>2, <1>3

\* A bucket that an action leaves alone stays sound, as time passes.
LEMMA OtherBucket ==
  ASSUME GateInv, NEW w \in Workers, NEW l \in DOMAIN limiters, Sound(w, l),
         limiters' = limiters, now' \in Int, now <= now',
         tokens'[w][l] = tokens[w][l], last'[w][l] = last[w][l],
         granted'[w][l] = granted[w][l],
         Paying(w, l)' = Paying(w, l),
         \A i \in Paying(w, l) : wake'[i] = wake[i]
  PROVE  Sound(w, l)'
<1>1. PICK r \in Nat, c \in Nat, n \in Nat :
        r = limiters[l].rate /\ c = limiters[l].cap /\ n = limiters[l].need
  BY LimiterType DEF GateInv
<1>2. granted[w][l] \in Int /\ now \in Int /\ wake \in [Samples -> Int]
  BY DEF GateInv, BucketTypes, ClockInv, WakeInv
<1>3. WithinRate(w, l)'
  <2>1. now * r \in Int /\ now' * r \in Int /\ now * r <= now' * r
    BY <1>2, Monotone
  <2>2. granted[w][l] <= c + now * r
    BY <1>1 DEF Sound, WithinRate
  <2>. QED BY <1>1, <1>2, <2>1, <2>2 DEF WithinRate
<1>4. Solvent(w, l) => Solvent(w, l)'
  BY DEF Solvent
<1>5. DebtCounted(w, l) => DebtCounted(w, l)'
  BY DEF DebtCounted
<1>6. ASSUME PaidInTime(w, l) PROVE PaidInTime(w, l)'
  <2>1. SUFFICES ASSUME NEW i \in Paying(w, l)
                 PROVE  granted[w][l] + n * Cardinality(NoLater(i, w, l)')
                          <= c + Due(i)' * r
    BY <1>1 DEF PaidInTime
  <2>2. NoLater(i, w, l)' = NoLater(i, w, l)
    BY DEF NoLater
  <2>3. Cardinality(NoLater(i, w, l)) \in Nat
    BY SubsetsFinite DEF NoLater, Paying
  <2>4. PICK k \in Nat : k = n * Cardinality(NoLater(i, w, l))
    BY <2>3
  <2>5. i \in Samples /\ wake[i] \in Int /\ wake'[i] = wake[i]
    BY <1>2 DEF Paying
  <2>6. Due(i) \in Int /\ Due(i)' \in Int /\ Due(i) <= Due(i)'
    BY <1>2, <2>5 DEF Due
  <2>7. granted[w][l] + k <= c + Due(i) * r
    BY <1>1, <1>6, <2>4 DEF PaidInTime
  <2>. QED BY <1>2, <2>2, <2>4, <2>6, <2>7, Monotone
<1>. QED BY <1>3, <1>4, <1>5, <1>6 DEF Sound

LEMMA SameBuckets ==
  ASSUME GateInv, BucketInv, limiters' = limiters, now' \in {now, now + 1},
         UNCHANGED <<stage, tokens, last, granted>>,
         \A i \in Samples : pc'[i] = "pay" <=> pc[i] = "pay",
         \A i \in Samples : pc[i] = "pay" => wake'[i] = wake[i]
  PROVE  BucketInv'
<1>1. now' \in Int /\ now <= now'
  BY DEF GateInv, ClockInv
<1>2. ASSUME NEW w \in Workers, NEW l \in DOMAIN limiters PROVE Sound(w, l)'
  <2>1. Paying(w, l)' = Paying(w, l)
    BY DEF Paying, WorkerOf
  <2>. QED BY <1>1, <2>1, OtherBucket DEF BucketInv, Paying
<1>. QED BY <1>2 DEF BucketInv

\* What acquire writes to a bucket, and to that bucket alone.
LEMMA BucketSet ==
  ASSUME GateInv, NEW w \in Workers, NEW l \in DOMAIN limiters, NEW left \in Int,
         tokens' = [tokens EXCEPT ![w][l] = left],
         last' = [last EXCEPT ![w][l] = now],
         limiters' = limiters, now' = now
  PROVE  /\ tokens' \in [Workers -> [DOMAIN limiters -> Int]]
         /\ last' \in [Workers -> [DOMAIN limiters -> Int]]
         /\ \A v \in Workers : \A m \in DOMAIN limiters : last'[v][m] <= now'
         /\ tokens'[w][l] = left /\ last'[w][l] = now
         /\ \A v \in Workers : \A m \in DOMAIN limiters : v # w \/ m # l =>
              tokens'[v][m] = tokens[v][m] /\ last'[v][m] = last[v][m]
<1>. USE DEF GateInv, BucketTypes, ClockInv
<1>1. /\ tokens' \in [Workers -> [DOMAIN limiters -> Int]]
      /\ tokens'[w][l] = left
      /\ \A v \in Workers : \A m \in DOMAIN limiters : v # w \/ m # l =>
           tokens'[v][m] = tokens[v][m]
  OBVIOUS
<1>2. /\ last' \in [Workers -> [DOMAIN limiters -> Int]]
      /\ last'[w][l] = now
      /\ \A v \in Workers : \A m \in DOMAIN limiters : v # w \/ m # l =>
           last'[v][m] = last[v][m]
  OBVIOUS
<1>3. \A v \in Workers : \A m \in DOMAIN limiters : last'[v][m] <= now'
  BY <1>2
<1>. QED BY <1>1, <1>2, <1>3

LEMMA GrantSet ==
  ASSUME GateInv, NEW w \in Workers, NEW l \in DOMAIN limiters, NEW sum \in Int,
         granted' = [granted EXCEPT ![w][l] = sum]
  PROVE  /\ granted' \in [Workers -> [DOMAIN limiters -> Int]]
         /\ granted'[w][l] = sum
         /\ \A v \in Workers : \A m \in DOMAIN limiters : v # w \/ m # l =>
              granted'[v][m] = granted[v][m]
BY DEF GateInv, BucketTypes

\* A request that fits into the bucket and finds its tokens there.
LEMMA TakeStep ==
  ASSUME GateInv, BucketInv, NEW i \in Samples, Take(i)
  PROVE  GateInv' /\ BucketInv'
<1>1. pc[i] = "acquire" /\ WorkerOf(i) \in Workers /\ stage[i] \in DOMAIN limiters
  BY WorkerType DEF Take, GateInv, StageInv
<1>2. PICK w \in Workers, l \in DOMAIN limiters : w = WorkerOf(i) /\ l = stage[i]
  BY <1>1
<1>3. PICK r \in Nat, c \in Nat, n \in Nat :
        r = limiters[l].rate /\ c = limiters[l].cap /\ n = limiters[l].need
  BY LimiterType DEF GateInv
<1>4. PICK full \in Int :
        /\ full = Refill(i) /\ full <= c
        /\ full <= tokens[w][l] + (now - last[w][l]) * r
  BY <1>1, <1>2, <1>3, RefillBound DEF Limiter
<1>. PICK left \in Int, sum \in Int : left = full - n /\ sum = granted[w][l] + n
  BY DEF GateInv, BucketTypes
<1>5. /\ n <= c /\ 0 <= left
      /\ tokens' = [tokens EXCEPT ![w][l] = left]
      /\ last' = [last EXCEPT ![w][l] = now]
      /\ granted' = [granted EXCEPT ![w][l] = sum]
      /\ limiters' = limiters /\ now' = now /\ wake' = wake
  BY <1>2, <1>3, <1>4 DEF Take, SetBucket, Granted, Limiter, config
<1>6. PcInv' /\ StageInv' /\ DebtorInv'
  BY <1>1, <1>5, GrantedStages DEF Take
<1>7. GateInv'
  <2>1. BucketTypes'
    <3>1. /\ tokens' \in [Workers -> [DOMAIN limiters -> Int]]
          /\ last' \in [Workers -> [DOMAIN limiters -> Int]]
          /\ \A v \in Workers : \A m \in DOMAIN limiters : last'[v][m] <= now'
      BY <1>5, BucketSet
    <3>2. granted' \in [Workers -> [DOMAIN limiters -> Int]]
      BY <1>5, GrantSet
    <3>. QED BY <1>5, <3>1, <3>2 DEF BucketTypes
  <2>2. LimiterInv' /\ ClockInv' /\ WakeInv'
    BY <1>5 DEF GateInv, LimiterInv, ClockInv, WakeInv
  <2>. QED BY <1>6, <2>1, <2>2 DEF GateInv
<1>8. \A v \in Workers : \A m \in DOMAIN limiters : Paying(v, m)' = Paying(v, m)
  <2>1. \A j \in Samples : j # i => pc'[j] = pc[j] /\ stage'[j] = stage[j]
    BY DEF Take, Granted, GateInv, PcInv, StageInv
  <2>2. pc'[i] # "pay"
    BY DEF Take, Granted, GateInv, PcInv
  <2>. QED BY <1>1, <2>1, <2>2 DEF Paying, WorkerOf
<1>9. ASSUME NEW v \in Workers, NEW m \in DOMAIN limiters, v # w \/ m # l
      PROVE  Sound(v, m)'
  <2>1. /\ tokens'[v][m] = tokens[v][m] /\ last'[v][m] = last[v][m]
        /\ granted'[v][m] = granted[v][m]
    BY <1>5, <1>9, BucketSet, GrantSet
  <2>2. now' \in Int /\ now <= now'
    BY <1>5 DEF GateInv, ClockInv
  <2>. QED BY <1>5, <1>8, <2>1, <2>2, OtherBucket DEF BucketInv
<1>10. Sound(w, l)'
  <2>1. /\ tokens'[w][l] = left /\ last'[w][l] = now
        /\ granted'[w][l] = sum
    <3>1. tokens'[w][l] = left /\ last'[w][l] = now
      BY <1>5, BucketSet
    <3>2. granted'[w][l] = sum
      BY <1>5, GrantSet
    <3>. QED BY <3>1, <3>2
  <2>2. /\ granted[w][l] \in Int /\ tokens[w][l] \in Int /\ last[w][l] \in Int
        /\ now \in Int
    BY DEF GateInv, BucketTypes, ClockInv
  <2>3. granted[w][l] + tokens[w][l] <= c + last[w][l] * r
    BY <1>3, <1>5 DEF BucketInv, Sound, Solvent
  <2>4. last[w][l] * r + (now - last[w][l]) * r = now * r
        /\ last[w][l] * r \in Int /\ (now - last[w][l]) * r \in Int /\ now * r \in Int
    <3>1. PICK a \in Int, b \in Int : a = last[w][l] /\ b = now
      BY <2>2
    <3>2. a * r + (b - a) * r = b * r
      BY Later
    <3>3. a * r \in Int /\ (b - a) * r \in Int /\ b * r \in Int
      OBVIOUS
    <3>. QED BY <3>1, <3>2, <3>3
  <2>5. granted[w][l] + full <= c + now * r
    BY <1>4, <2>2, <2>3, <2>4
  <2>6. Solvent(w, l)'
    BY <1>3, <1>5, <2>1, <2>2, <2>4, <2>5 DEF Solvent
  <2>7. WithinRate(w, l)'
    BY <1>3, <1>5, <2>1, <2>2, <2>4, <2>5 DEF WithinRate
  <2>8. ~(limiters'[l].need > limiters'[l].cap)
    BY <1>3, <1>5
  <2>. QED BY <2>6, <2>7, <2>8 DEF Sound
<1>11. BucketInv'
  BY <1>5, <1>9, <1>10 DEF BucketInv
<1>. QED BY <1>7, <1>11

\* One that does not find them there.
LEMMA DeferStep ==
  ASSUME GateInv, BucketInv, NEW i \in Samples, Defer(i)
  PROVE  GateInv' /\ BucketInv'
<1>1. pc[i] = "acquire" /\ WorkerOf(i) \in Workers /\ stage[i] \in DOMAIN limiters
  BY WorkerType DEF Defer, GateInv, StageInv
<1>2. PICK w \in Workers, l \in DOMAIN limiters : w = WorkerOf(i) /\ l = stage[i]
  BY <1>1
<1>3. PICK r \in Nat, c \in Nat, n \in Nat :
        r # 0 /\ r = limiters[l].rate /\ c = limiters[l].cap /\ n = limiters[l].need
  BY LimiterType DEF GateInv
<1>4. PICK full \in Int :
        /\ full = Refill(i) /\ full <= c
        /\ full <= tokens[w][l] + (now - last[w][l]) * r
        /\ tokens[w][l] >= 0 => full >= 0
  BY <1>1, <1>2, <1>3, RefillBound DEF Limiter
<1>5. /\ n <= c /\ full < n
      /\ tokens' = [tokens EXCEPT ![w][l] = full]
      /\ last' = [last EXCEPT ![w][l] = now]
      /\ granted' = granted /\ limiters' = limiters /\ now' = now /\ stage' = stage
      /\ pc' = [pc EXCEPT ![i] = "sleep"]
      /\ wake' = [wake EXCEPT ![i] = now + WaitFor(i, n - full)]
  BY <1>2, <1>3, <1>4 DEF Defer, SetBucket, Sleep, Limiter, config
<1>6. WaitFor(i, n - full) \in Int
  <2>1. n - full \in Nat
    BY <1>5
  <2>. QED BY <1>2, <1>3, <2>1, Ceiling DEF WaitFor, Limiter
<1>7. GateInv'
  <2>1. BucketTypes'
    <3>1. /\ tokens' \in [Workers -> [DOMAIN limiters -> Int]]
          /\ last' \in [Workers -> [DOMAIN limiters -> Int]]
          /\ \A v \in Workers : \A m \in DOMAIN limiters : last'[v][m] <= now'
      BY <1>5, BucketSet
    <3>. QED BY <1>5, <3>1 DEF BucketTypes, GateInv
  <2>2. LimiterInv' /\ ClockInv' /\ WakeInv' /\ PcInv' /\ StageInv'
    BY <1>1, <1>5, <1>6
       DEF GateInv, LimiterInv, ClockInv, WakeInv, PcInv, StageInv, Places
  <2>3. DebtorInv'
    BY <1>5 DEF GateInv, DebtorInv, Limiter, PcInv
  <2>. QED BY <2>1, <2>2, <2>3 DEF GateInv
<1>8. \A v \in Workers : \A m \in DOMAIN limiters :
        /\ Paying(v, m)' = Paying(v, m)
        /\ \A j \in Paying(v, m) : wake'[j] = wake[j]
  BY <1>1, <1>5 DEF Paying, WorkerOf, GateInv, PcInv, WakeInv
<1>9. ASSUME NEW v \in Workers, NEW m \in DOMAIN limiters, v # w \/ m # l
      PROVE  Sound(v, m)'
  <2>1. tokens'[v][m] = tokens[v][m] /\ last'[v][m] = last[v][m]
    BY <1>5, <1>9, BucketSet
  <2>2. now' \in Int /\ now <= now'
    BY <1>5 DEF GateInv, ClockInv
  <2>. QED BY <1>5, <1>8, <2>1, <2>2, OtherBucket DEF BucketInv
<1>10. Sound(w, l)'
  <2>1. tokens'[w][l] = full /\ last'[w][l] = now /\ granted'[w][l] = granted[w][l]
    BY <1>5, BucketSet
  <2>2. /\ granted[w][l] \in Int /\ tokens[w][l] \in Int /\ last[w][l] \in Int
        /\ now \in Int
    BY DEF GateInv, BucketTypes, ClockInv
  <2>3. granted[w][l] + tokens[w][l] <= c + last[w][l] * r /\ 0 <= tokens[w][l]
    BY <1>3, <1>5 DEF BucketInv, Sound, Solvent
  <2>4. last[w][l] * r + (now - last[w][l]) * r = now * r
        /\ last[w][l] * r \in Int /\ (now - last[w][l]) * r \in Int /\ now * r \in Int
    <3>1. PICK a \in Int, b \in Int : a = last[w][l] /\ b = now
      BY <2>2
    <3>2. a * r + (b - a) * r = b * r
      BY Later
    <3>3. a * r \in Int /\ (b - a) * r \in Int /\ b * r \in Int
      OBVIOUS
    <3>. QED BY <3>1, <3>2, <3>3
  <2>5. granted[w][l] + full <= c + now * r /\ 0 <= full
    BY <1>4, <2>2, <2>3, <2>4
  <2>6. Solvent(w, l)'
    BY <1>3, <1>5, <2>1, <2>2, <2>4, <2>5 DEF Solvent
  <2>7. WithinRate(w, l)'
    BY <1>3, <1>5, <2>1, <2>2, <2>4, <2>5 DEF WithinRate
  <2>8. ~(limiters'[l].need > limiters'[l].cap)
    BY <1>3, <1>5
  <2>. QED BY <2>6, <2>7, <2>8 DEF Sound
<1>11. BucketInv'
  BY <1>5, <1>9, <1>10 DEF BucketInv
<1>. QED BY <1>7, <1>11

\* A request larger than the bucket: it joins those that sleep a debt off.
LEMMA OverdrawStep ==
  ASSUME GateInv, BucketInv, NEW i \in Samples, Overdraw(i)
  PROVE  GateInv' /\ BucketInv'
<1>1. pc[i] = "acquire" /\ WorkerOf(i) \in Workers /\ stage[i] \in DOMAIN limiters
  BY WorkerType DEF Overdraw, GateInv, StageInv
<1>2. PICK w \in Workers, l \in DOMAIN limiters : w = WorkerOf(i) /\ l = stage[i]
  BY <1>1
<1>3. PICK r \in Nat, c \in Nat, n \in Nat :
        r # 0 /\ r = limiters[l].rate /\ c = limiters[l].cap /\ n = limiters[l].need
  BY LimiterType DEF GateInv
<1>4. PICK full \in Int :
        /\ full = Refill(i) /\ full <= c
        /\ full <= tokens[w][l] + (now - last[w][l]) * r
  BY <1>1, <1>2, <1>3, RefillBound DEF Limiter
<1>5. c < n
  BY <1>2, <1>3 DEF Overdraw, Limiter
<1>6. PICK left \in Int, wait \in Nat :
        left = full - n /\ wait = WaitFor(i, n - full) /\ n - full <= wait * r
  <2>1. PICK miss \in Nat : miss = n - full
    BY <1>4, <1>5
  <2>2. WaitFor(i, n - full) = (miss + r - 1) \div r
    BY <1>2, <1>3, <2>1 DEF WaitFor, Limiter
  <2>3. PICK wait \in Nat : wait = (miss + r - 1) \div r /\ miss <= wait * r
    BY <1>3, Ceiling
  <2>4. PICK left \in Int : left = full - n
    OBVIOUS
  <2>. QED BY <2>1, <2>2, <2>3, <2>4
<1>7. PICK t \in Int : t = now + wait
  BY DEF GateInv, ClockInv
<1>8. /\ tokens' = [tokens EXCEPT ![w][l] = left]
      /\ last' = [last EXCEPT ![w][l] = now]
      /\ granted' = granted /\ limiters' = limiters /\ now' = now /\ stage' = stage
      /\ pc' = [pc EXCEPT ![i] = "pay"]
      /\ wake' = [wake EXCEPT ![i] = t]
  BY <1>2, <1>3, <1>4, <1>6, <1>7 DEF Overdraw, SetBucket, Sleep, Limiter, config
<1>9. GateInv'
  <2>1. BucketTypes'
    <3>1. /\ tokens' \in [Workers -> [DOMAIN limiters -> Int]]
          /\ last' \in [Workers -> [DOMAIN limiters -> Int]]
          /\ \A v \in Workers : \A m \in DOMAIN limiters : last'[v][m] <= now'
      BY <1>8, BucketSet
    <3>. QED BY <1>8, <3>1 DEF BucketTypes, GateInv
  <2>2. LimiterInv' /\ ClockInv' /\ WakeInv' /\ PcInv' /\ StageInv'
    BY <1>1, <1>8
       DEF GateInv, LimiterInv, ClockInv, WakeInv, PcInv, StageInv, Places
  <2>3. DebtorInv'
    BY <1>2, <1>3, <1>5, <1>8 DEF GateInv, DebtorInv, Limiter, PcInv
  <2>. QED BY <2>1, <2>2, <2>3 DEF GateInv
<1>10. \A v \in Workers : \A m \in DOMAIN limiters : v # w \/ m # l =>
        /\ Paying(v, m)' = Paying(v, m)
        /\ \A j \in Paying(v, m) : wake'[j] = wake[j]
  BY <1>1, <1>2, <1>8 DEF Paying, WorkerOf, GateInv, PcInv, WakeInv
<1>11. ASSUME NEW v \in Workers, NEW m \in DOMAIN limiters, v # w \/ m # l
      PROVE  Sound(v, m)'
  <2>1. tokens'[v][m] = tokens[v][m] /\ last'[v][m] = last[v][m]
    BY <1>8, <1>11, BucketSet
  <2>2. now' \in Int /\ now <= now'
    BY <1>8 DEF GateInv, ClockInv
  <2>. QED BY <1>8, <1>10, <1>11, <2>1, <2>2, OtherBucket DEF BucketInv
<1>12. /\ Paying(w, l)' = Paying(w, l) \cup {i} /\ i \notin Paying(w, l)
       /\ wake'[i] = t /\ \A j \in Samples \ {i} : wake'[j] = wake[j]
  BY <1>1, <1>2, <1>8 DEF Paying, WorkerOf, GateInv, PcInv, WakeInv
<1>13. PICK g \in Int, a \in Int, b \in Int, had \in Int :
         g = granted[w][l] /\ a = last[w][l] /\ b = now /\ had = tokens[w][l]
  BY DEF GateInv, BucketTypes, ClockInv
<1>14. PICK p \in Nat : /\ p = Cardinality(Paying(w, l))
                        /\ p + 1 = Cardinality(Paying(w, l)')
  <2>1. Paying(w, l) \in SUBSET Samples
    BY DEF Paying
  <2>. QED BY <1>12, <2>1, SubsetsFinite, FS_AddElement
<1>15. g + n * (p + 1) + left <= c + b * r
  <2>1. g + n * p + had <= c + a * r
    BY <1>3, <1>5, <1>13, <1>14 DEF BucketInv, Sound, DebtCounted
  <2>2. a * r + (b - a) * r = b * r
    BY Later
  <2>3. a * r \in Int /\ (b - a) * r \in Int /\ b * r \in Int /\ n * p \in Int
    OBVIOUS
  <2>4. n * (p + 1) = n * p + n
    BY OneMore
  <2>5. full <= had + (b - a) * r
    BY <1>4, <1>13
  <2>. QED BY <1>6, <2>1, <2>2, <2>3, <2>4, <2>5
<1>16. g + n * (p + 1) <= c + t * r
  <2>1. t = b + wait
    BY <1>7, <1>13
  <2>2. t * r = b * r + wait * r
    BY <2>1, Later
  <2>3. b * r \in Int /\ wait * r \in Int /\ n * (p + 1) \in Int
    OBVIOUS
  <2>4. n - full <= wait * r /\ left = full - n
    BY <1>6
  <2>. QED BY <1>15, <2>2, <2>3, <2>4
<1>17. DebtCounted(w, l)'
  <2>1. tokens'[w][l] = left /\ last'[w][l] = b /\ granted'[w][l] = g
    BY <1>8, <1>13, BucketSet
  <2>. QED BY <1>3, <1>8, <1>14, <1>15, <2>1 DEF DebtCounted
<1>18. PaidInTime(w, l)'
  <2>1. SUFFICES ASSUME NEW k \in Samples, k \in Paying(w, l)'
                 PROVE  g + n * Cardinality(NoLater(k, w, l)') <= c + Due(k)' * r
    BY <1>3, <1>8, <1>13, <1>12 DEF PaidInTime, Paying
  <2>2. wake[k] \in Int /\ wake'[k] \in Int /\ b \in Int /\ now' = b /\ now = b
    BY <1>8, <1>9, <1>13 DEF GateInv, WakeInv
  <2>3. CASE t <= wake'[k]
    <3>1. NoLater(k, w, l)' \subseteq Paying(w, l)' /\ Paying(w, l)' \subseteq Samples
      BY DEF NoLater, Paying
    <3>2. PICK q \in Nat : q = Cardinality(NoLater(k, w, l)') /\ q <= p + 1
      BY <3>1, <1>14, SubsetsFinite, FS_Subset
    <3>3. n * q <= n * (p + 1) /\ n * q \in Int /\ n * (p + 1) \in Int
      BY <3>2
    <3>4. PICK d \in Int : d = Due(k)' /\ t <= d
      BY <2>2, <2>3 DEF Due
    <3>5. t * r <= d * r /\ t * r \in Int /\ d * r \in Int
      BY <3>4, Monotone
    <3>. QED BY <1>16, <3>2, <3>3, <3>4, <3>5
  <2>4. CASE wake'[k] < t
    <3>1. k # i /\ k \in Paying(w, l) /\ wake'[k] = wake[k]
      BY <1>12, <2>1, <2>2, <2>4
    <3>2. NoLater(k, w, l)' = NoLater(k, w, l)
      <4>1. \A j \in Paying(w, l) : wake'[j] = wake[j]
        BY <1>12 DEF Paying
      <4>2. ~(wake'[i] <= wake'[k])
        BY <1>12, <2>2, <2>4
      <4>. QED BY <1>12, <3>1, <4>1, <4>2 DEF NoLater
    <3>3. Due(k)' = Due(k)
      BY <1>8, <3>1 DEF Due
    <3>4. PaidInTime(w, l)
      BY <1>3, <1>5 DEF BucketInv, Sound
    <3>. QED BY <1>3, <1>13, <3>1, <3>2, <3>3, <3>4 DEF PaidInTime
  <2>5. t \in Int /\ wake'[k] \in Int
    BY <2>2
  <2>. QED BY <2>3, <2>4, <2>5
<1>19. Sound(w, l)'
  <2>1. WithinRate(w, l)'
    BY <1>8 DEF BucketInv, Sound, WithinRate
  <2>2. ~(limiters'[l].need <= limiters'[l].cap)
    BY <1>3, <1>5, <1>8
  <2>. QED BY <1>17, <1>18, <2>1, <2>2 DEF Sound
<1>20. BucketInv'
  BY <1>8, <1>11, <1>19 DEF BucketInv
<1>. QED BY <1>9, <1>20

\* One that wakes: the bucket has gained what it is granted.
LEMMA PaidStep ==
  ASSUME GateInv, BucketInv, NEW i \in Samples, Paid(i)
  PROVE  GateInv' /\ BucketInv'
<1>1. pc[i] = "pay" /\ WorkerOf(i) \in Workers /\ stage[i] \in DOMAIN limiters
  BY WorkerType DEF Paid, GateInv, StageInv
<1>2. PICK w \in Workers, l \in DOMAIN limiters : w = WorkerOf(i) /\ l = stage[i]
  BY <1>1
<1>3. PICK r \in Nat, c \in Nat, n \in Nat :
        r = limiters[l].rate /\ c = limiters[l].cap /\ n = limiters[l].need
  BY LimiterType DEF GateInv
<1>4. c < n
  BY <1>1, <1>2, <1>3 DEF GateInv, DebtorInv, Limiter
<1>5. PICK g \in Int, b \in Int, sum \in Int :
        g = granted[w][l] /\ b = now /\ sum = g + n
  BY DEF GateInv, BucketTypes, ClockInv
<1>6. /\ granted' = [granted EXCEPT ![w][l] = sum]
      /\ tokens' = tokens /\ last' = last
      /\ limiters' = limiters /\ now' = now
      /\ wake' = [wake EXCEPT ![i] = 0]
      /\ wake[i] <= b
  BY <1>2, <1>3, <1>5 DEF Paid, Granted, Limiter, config, GateInv, ClockInv, WakeInv
<1>7. GateInv'
  <2>1. PcInv' /\ StageInv' /\ DebtorInv'
    BY <1>1, <1>6, GrantedStages DEF Paid
  <2>2. granted' \in [Workers -> [DOMAIN limiters -> Int]]
    BY <1>6, GrantSet
  <2>3. BucketTypes'
    BY <1>6, <2>2 DEF BucketTypes, GateInv
  <2>4. LimiterInv' /\ ClockInv' /\ WakeInv'
    BY <1>6 DEF GateInv, LimiterInv, ClockInv, WakeInv
  <2>. QED BY <2>1, <2>3, <2>4 DEF GateInv
<1>8. /\ \A j \in Samples : j # i =>
           pc'[j] = pc[j] /\ stage'[j] = stage[j] /\ wake'[j] = wake[j]
      /\ pc'[i] # "pay"
  BY <1>6 DEF Paid, Granted, GateInv, PcInv, StageInv, WakeInv
<1>9. ASSUME NEW v \in Workers, NEW m \in DOMAIN limiters, v # w \/ m # l
      PROVE  Sound(v, m)'
  <2>1. /\ Paying(v, m)' = Paying(v, m)
        /\ \A j \in Paying(v, m) : wake'[j] = wake[j]
    BY <1>1, <1>2, <1>8, <1>9 DEF Paying, WorkerOf
  <2>2. granted'[v][m] = granted[v][m]
    BY <1>6, <1>9, GrantSet
  <2>3. now' \in Int /\ now <= now'
    BY <1>6 DEF GateInv, ClockInv
  <2>. QED BY <1>6, <2>1, <2>2, <2>3, OtherBucket DEF BucketInv
<1>10. Paying(w, l)' = Paying(w, l) \ {i} /\ i \in Paying(w, l)
  BY <1>1, <1>2, <1>8 DEF Paying, WorkerOf
<1>11. PICK p \in Nat : /\ p = Cardinality(Paying(w, l)')
                        /\ p + 1 = Cardinality(Paying(w, l))
  <2>1. Paying(w, l) \in SUBSET Samples /\ Paying(w, l)' \in SUBSET Samples
    BY <1>10 DEF Paying
  <2>2. IsFiniteSet(Paying(w, l)) /\ Cardinality(Paying(w, l)) \in Nat
        /\ Cardinality(Paying(w, l)') \in Nat
    BY <2>1, SubsetsFinite
  <2>3. Cardinality(Paying(w, l)') = Cardinality(Paying(w, l)) - 1
    BY <1>10, <2>2, FS_RemoveElement
  <2>. QED BY <2>2, <2>3
<1>12. DebtCounted(w, l) /\ PaidInTime(w, l)
  BY <1>3, <1>4 DEF BucketInv, Sound
<1>13. granted'[w][l] = sum
  BY <1>6, GrantSet
<1>14. DebtCounted(w, l)'
  <2>1. PICK have \in Int, full \in Int :
          have = tokens[w][l] /\ full = c + last[w][l] * r
    BY DEF GateInv, BucketTypes
  <2>2. g + n * (p + 1) + have <= full
    BY <1>3, <1>5, <1>11, <1>12, <2>1 DEF DebtCounted
  <2>3. n * (p + 1) = n * p + n /\ n * p \in Int
    BY OneMore
  <2>4. sum + n * p + have <= full
    BY <1>5, <2>2, <2>3
  <2>. QED BY <1>3, <1>6, <1>11, <1>13, <2>1, <2>4 DEF DebtCounted
\* Those that wake no later than i.
<1>15. PICK e \in Nat : /\ e + 1 = Cardinality(NoLater(i, w, l))
                        /\ e = Cardinality(NoLater(i, w, l) \ {i})
  <2>1. NoLater(i, w, l) \in SUBSET Samples /\ i \in NoLater(i, w, l)
    BY <1>10 DEF NoLater, Paying, GateInv, WakeInv
  <2>2. NoLater(i, w, l) \ {i} \in SUBSET Samples
    BY <2>1
  <2>3. IsFiniteSet(NoLater(i, w, l)) /\ Cardinality(NoLater(i, w, l)) \in Nat
        /\ Cardinality(NoLater(i, w, l) \ {i}) \in Nat
    BY <2>1, <2>2, SubsetsFinite
  <2>4. Cardinality(NoLater(i, w, l) \ {i}) = Cardinality(NoLater(i, w, l)) - 1
    BY <2>1, <2>3, FS_RemoveElement
  <2>. QED BY <2>3, <2>4
<1>16. sum + n * e <= c + b * r
  <2>1. Due(i) = b
    BY <1>5, <1>6 DEF Due, GateInv, WakeInv
  <2>2. g + n * (e + 1) <= c + b * r
    BY <1>3, <1>5, <1>10, <1>12, <1>15, <2>1 DEF PaidInTime
  <2>3. n * (e + 1) = n * e + n /\ n * e \in Int
    BY OneMore
  <2>4. b * r \in Int
    OBVIOUS
  <2>. QED BY <1>5, <2>2, <2>3, <2>4
<1>17. PaidInTime(w, l)'
  <2>1. SUFFICES ASSUME NEW k \in Samples, k \in Paying(w, l)'
                 PROVE  sum + n * Cardinality(NoLater(k, w, l)') <= c + Due(k)' * r
    BY <1>3, <1>6, <1>10, <1>13 DEF PaidInTime, Paying
  <2>2. k \in Paying(w, l) /\ k # i /\ wake'[k] = wake[k]
    BY <1>8, <1>10, <2>1
  <2>3. wake[k] \in Int /\ wake[i] \in Int /\ now = b /\ now' = b
    BY <1>5, <1>6 DEF GateInv, WakeInv
  <2>4. NoLater(k, w, l)' = NoLater(k, w, l) \ {i}
    BY <1>8, <1>10, <2>2 DEF NoLater, Paying
  <2>5. NoLater(k, w, l) \in SUBSET Samples /\ NoLater(i, w, l) \in SUBSET Samples
    BY DEF NoLater, Paying
  <2>6. CASE wake[i] <= wake[k]
    <3>1. i \in NoLater(k, w, l)
      BY <1>10, <2>6 DEF NoLater
    <3>2. PICK q \in Nat : q = Cardinality(NoLater(k, w, l)')
                           /\ q + 1 = Cardinality(NoLater(k, w, l))
      <4>1. IsFiniteSet(NoLater(k, w, l)) /\ Cardinality(NoLater(k, w, l)) \in Nat
        BY <2>5, SubsetsFinite
      <4>2. Cardinality(NoLater(k, w, l)') \in Nat
        BY <2>4, <2>5, SubsetsFinite
      <4>3. Cardinality(NoLater(k, w, l)') = Cardinality(NoLater(k, w, l)) - 1
        BY <2>4, <3>1, <4>1, FS_RemoveElement
      <4>. QED BY <4>1, <4>2, <4>3
    <3>3. PICK d \in Int : d = Due(k) /\ d = Due(k)'
      BY <2>2, <2>3 DEF Due
    <3>4. g + n * (q + 1) <= c + d * r
      BY <1>3, <1>5, <1>12, <2>2, <3>2, <3>3 DEF PaidInTime
    <3>5. n * (q + 1) = n * q + n /\ n * q \in Int
      BY OneMore
    <3>6. d * r \in Int
      OBVIOUS
    <3>7. sum + n * q <= c + d * r
      BY <1>5, <3>4, <3>5, <3>6
    <3>. QED BY <3>2, <3>3, <3>7
  <2>7. CASE wake[k] < wake[i]
    <3>1. NoLater(k, w, l)' \subseteq NoLater(i, w, l) \ {i}
      BY <2>3, <2>4, <2>7 DEF NoLater, Paying, GateInv, WakeInv
    <3>2. PICK q \in Nat : q = Cardinality(NoLater(k, w, l)') /\ q <= e
      <4>1. NoLater(i, w, l) \ {i} \in SUBSET Samples
        BY <2>5
      <4>2. IsFiniteSet(NoLater(i, w, l) \ {i})
        BY <4>1, SubsetsFinite
      <4>3. Cardinality(NoLater(k, w, l)') \in Nat
        BY <2>4, <2>5, SubsetsFinite
      <4>. QED BY <1>15, <3>1, <4>2, <4>3, FS_Subset
    <3>3. n * q <= n * e /\ n * q \in Int /\ n * e \in Int
      BY <3>2
    <3>4. Due(k)' = b
      BY <1>6, <2>2, <2>3, <2>7 DEF Due
    <3>5. b * r \in Int
      OBVIOUS
    <3>. QED BY <1>16, <3>2, <3>3, <3>4, <3>5
  <2>. QED BY <2>3, <2>6, <2>7
<1>18. WithinRate(w, l)'
  <2>1. n * e \in Nat
    OBVIOUS
  <2>2. b * r \in Int
    OBVIOUS
  <2>3. sum <= c + b * r
    BY <1>16, <2>1, <2>2
  <2>. QED BY <1>3, <1>5, <1>6, <1>13, <2>3 DEF WithinRate
<1>19. Sound(w, l)'
  <2>1. ~(limiters'[l].need <= limiters'[l].cap)
    BY <1>3, <1>4, <1>6
  <2>. QED BY <1>14, <1>17, <1>18, <2>1 DEF Sound
<1>20. BucketInv'
  BY <1>6, <1>9, <1>19 DEF BucketInv
<1>. QED BY <1>7, <1>20

--------------------------------------------------------------------------------
(* The pool: the semaphores and the threads. *)

LEMMA SubsetTypes ==
  ASSUME NEW w \in Workers
  PROVE  /\ IsFiniteSet(Holders(w)) /\ Cardinality(Holders(w)) \in Nat
         /\ IsFiniteSet(Computing(w)) /\ Cardinality(Computing(w)) \in Nat
         /\ IsFiniteSet(Holders(w)') /\ Cardinality(Holders(w)') \in Nat
         /\ IsFiniteSet(Computing(w)') /\ Cardinality(Computing(w)') \in Nat
BY SubsetsFinite DEF Holders, Computing

LEMMA SamePool ==
  ASSUME PoolInv, UNCHANGED <<kind, permits, stray>>,
         \A i \in Samples : pc'[i] = "queued" <=> pc[i] = "queued",
         \A i \in Samples : pc'[i] = "compute" <=> pc[i] = "compute"
  PROVE  PoolInv'
<1>1. ASSUME NEW w \in Workers PROVE PermitInv(w)' /\ ThreadInv(w)'
  <2>1. Holders(w)' = Holders(w) /\ Computing(w)' = Computing(w)
    BY DEF Holders, Computing, WorkerOf
  <2>. QED BY <2>1 DEF PoolInv, PermitInv, ThreadInv
<1>. QED BY <1>1 DEF PoolInv

LEMMA EnterPool ==
  ASSUME GateInv, PoolInv, NEW i \in Samples, Enter(i) PROVE PoolInv'
<1>1. WorkerOf(i) \in Workers
  BY WorkerType
<1>2. ASSUME NEW w \in Workers, w # WorkerOf(i) PROVE PermitInv(w)' /\ ThreadInv(w)'
  <2>1. Holders(w)' = Holders(w) /\ Computing(w)' = Computing(w)
    BY <1>2 DEF Holders, Computing, WorkerOf, Enter, GateInv, PcInv
  <2>2. permits'[w] = permits[w] /\ stray'[w] = stray[w] /\ kind' = kind
    BY <1>2 DEF Enter, PoolInv, config
  <2>. QED BY <2>1, <2>2 DEF PoolInv, PermitInv, ThreadInv
<1>3. PICK w \in Workers : w = WorkerOf(i)
  BY <1>1
<1>4. /\ permits[w] > 0 /\ permits'[w] = permits[w] - 1
      /\ stray'[w] = stray[w] /\ kind' = kind
  BY <1>3 DEF Enter, PoolInv, config
<1>5. PermitInv(w)'
  <2>1. Holders(w)' = Holders(w) \cup {i} /\ i \notin Holders(w)
    BY <1>3 DEF Holders, WorkerOf, Enter, GateInv, PcInv
  <2>2. Cardinality(Holders(w)') = Cardinality(Holders(w)) + 1
    BY <2>1, SubsetTypes, FS_AddElement
  <2>. QED BY <1>4, <2>2, SubsetTypes, RewardLoopAssumption DEF PoolInv, PermitInv
<1>6. ThreadInv(w)'
  <2>1. kind = "sync" => Computing(w)' = Computing(w)
    BY DEF Computing, WorkerOf, Enter, GateInv, PcInv
  <2>. QED BY <1>4, <2>1 DEF PoolInv, ThreadInv
<1>. QED BY <1>2, <1>3, <1>5, <1>6 DEF PoolInv, Enter

LEMMA RunThreadPool ==
  ASSUME GateInv, PoolInv, NEW i \in Samples, RunThread(i) PROVE PoolInv'
<1>1. WorkerOf(i) \in Workers
  BY WorkerType
<1>2. ASSUME NEW w \in Workers PROVE PermitInv(w)'
  <2>1. Holders(w)' = Holders(w)
    BY DEF Holders, WorkerOf, RunThread, GateInv, PcInv
  <2>. QED BY <2>1 DEF PoolInv, PermitInv, RunThread, pool
<1>3. kind' = kind /\ stray' = stray /\ permits' = permits
  BY DEF RunThread, config, pool
<1>4. ASSUME NEW w \in Workers, w # WorkerOf(i) PROVE ThreadInv(w)'
  <2>1. Computing(w)' = Computing(w)
    BY <1>4 DEF Computing, WorkerOf, RunThread, GateInv, PcInv
  <2>. QED BY <1>3, <2>1 DEF PoolInv, ThreadInv
<1>5. PICK w \in Workers : w = WorkerOf(i)
  BY <1>1
<1>6. ThreadInv(w)'
  <2>1. Computing(w)' = Computing(w) \cup {i} /\ i \notin Computing(w)
    BY <1>5 DEF Computing, WorkerOf, RunThread, GateInv, PcInv
  <2>2. Cardinality(Computing(w)') = Cardinality(Computing(w)) + 1
    BY <2>1, SubsetTypes, FS_AddElement
  <2>3. kind = "sync" => stray[w] + Cardinality(Computing(w)) < Threads
    BY <1>5 DEF RunThread, ThreadFree
  <2>. QED BY <1>3, <2>2, <2>3, SubsetTypes, RewardLoopAssumption DEF PoolInv, ThreadInv
<1>. QED BY <1>2, <1>3, <1>4, <1>5, <1>6 DEF PoolInv

\* The semaphore is left: by a reward that is computed, or by one that timed out and,
\* if it has a thread, leaves it to run on.
LEMMA LeavePool ==
  ASSUME GateInv, PoolInv, NEW i \in Samples, NEW r,
         pc[i] \in {"queued", "compute"}, Leave(i, r),
         \/ stray' = stray
         \/ pc[i] = "compute" /\ stray' = [stray EXCEPT ![WorkerOf(i)] = @ + 1]
  PROVE  PoolInv'
<1>1. WorkerOf(i) \in Workers
  BY WorkerType
<1>2. kind' = kind /\ pc' = [pc EXCEPT ![i] = "done"]
      /\ permits' = [permits EXCEPT ![WorkerOf(i)] = @ + 1]
  BY DEF Leave, config
<1>3. ASSUME NEW w \in Workers, w # WorkerOf(i) PROVE PermitInv(w)' /\ ThreadInv(w)'
  <2>1. Holders(w)' = Holders(w) /\ Computing(w)' = Computing(w)
    BY <1>2, <1>3 DEF Holders, Computing, WorkerOf, GateInv, PcInv
  <2>2. permits'[w] = permits[w] /\ stray'[w] = stray[w]
    BY <1>2, <1>3 DEF PoolInv
  <2>. QED BY <1>2, <2>1, <2>2 DEF PoolInv, PermitInv, ThreadInv
<1>4. PICK w \in Workers : w = WorkerOf(i)
  BY <1>1
<1>5. PermitInv(w)'
  <2>1. Holders(w)' = Holders(w) \ {i} /\ i \in Holders(w)
    BY <1>2, <1>4 DEF Holders, WorkerOf, GateInv, PcInv
  <2>2. Cardinality(Holders(w)') = Cardinality(Holders(w)) - 1
    BY <2>1, SubsetTypes, FS_RemoveElement
  <2>3. permits'[w] = permits[w] + 1
    BY <1>2, <1>4 DEF PoolInv
  <2>4. permits[w] \in Nat /\ permits[w] + Cardinality(Holders(w)) = MaxConcurrent
    BY DEF PoolInv, PermitInv
  <2>5. Cardinality(Holders(w)) \in Nat
    BY SubsetTypes
  <2>6. permits'[w] \in Nat /\ permits'[w] + Cardinality(Holders(w)') = MaxConcurrent
    BY <2>2, <2>3, <2>4, <2>5
  <2>. QED BY <2>6 DEF PermitInv
<1>6. ThreadInv(w)'
  <2>1. Computing(w)' = Computing(w) \ {i}
    BY <1>2, <1>4 DEF Computing, WorkerOf, GateInv, PcInv
  <2>2. Cardinality(Computing(w)') =
          IF i \in Computing(w) THEN Cardinality(Computing(w)) - 1
          ELSE Cardinality(Computing(w))
    BY <2>1, SubsetTypes, FS_RemoveElement
  <2>3. pc[i] = "compute" => i \in Computing(w)
    BY <1>4 DEF Computing
  <2>4. \/ stray'[w] = stray[w]
        \/ pc[i] = "compute" /\ stray'[w] = stray[w] + 1
    BY <1>4 DEF PoolInv
  <2>5. Cardinality(Computing(w)) \in Nat /\ Threads \in Nat
    BY SubsetTypes, RewardLoopAssumption
  <2>6. ThreadInv(w)
    BY DEF PoolInv
  <2>. QED BY <1>2, <2>2, <2>3, <2>4, <2>5, <2>6 DEF ThreadInv
<1>. QED BY <1>2, <1>3, <1>4, <1>5, <1>6 DEF PoolInv

LEMMA StrayEndsPool ==
  ASSUME PoolInv, NEW w \in Workers, StrayEnds(w) PROVE PoolInv'
<1>1. ASSUME NEW v \in Workers PROVE PermitInv(v)' /\ ThreadInv(v)'
  <2>1. Holders(v)' = Holders(v) /\ Computing(v)' = Computing(v)
    BY DEF Holders, Computing, WorkerOf, StrayEnds
  <2>2. stray'[v] \in Nat /\ stray'[v] <= stray[v]
    BY DEF StrayEnds, PoolInv, ThreadInv
  <2>. QED BY <2>1, <2>2, SubsetTypes, RewardLoopAssumption
           DEF PoolInv, PermitInv, ThreadInv, StrayEnds, config
<1>. QED BY <1>1 DEF PoolInv, StrayEnds

--------------------------------------------------------------------------------
IInv == GateInv /\ BucketInv /\ PoolInv

LEMMA InitIInv == Init => IInv
<1>. SUFFICES ASSUME Init PROVE IInv
  OBVIOUS
<1>1. GateInv
  <2>1. LimiterInv /\ ClockInv /\ PcInv /\ WakeInv /\ StageInv /\ DebtorInv
    BY DEF Init, LimiterInv, ClockInv, PcInv, WakeInv, StageInv, DebtorInv, Places
  <2>2. \A l \in DOMAIN limiters : limiters[l].cap \in Int
    BY <2>1, LimiterType
  <2>3. BucketTypes
    BY <2>2 DEF Init, BucketTypes
  <2>. QED BY <2>1, <2>3 DEF GateInv
<1>2. ASSUME NEW w \in Workers, NEW l \in DOMAIN limiters PROVE Sound(w, l)
  <2>1. limiters[l].rate \in Nat /\ limiters[l].cap \in Nat /\ limiters[l].need \in Nat
    BY <1>1, LimiterType DEF GateInv
  <2>2. Paying(w, l) = {}
    BY DEF Init, Paying
  <2>3. now = 0 /\ granted[w][l] = 0 /\ tokens[w][l] = limiters[l].cap /\ last[w][l] = 0
    BY DEF Init
  <2>4. WithinRate(w, l) /\ Solvent(w, l)
    BY <2>1, <2>3 DEF WithinRate, Solvent
  <2>5. DebtCounted(w, l) /\ PaidInTime(w, l)
    BY <2>1, <2>2, <2>3, FS_EmptySet DEF DebtCounted, PaidInTime
  <2>. QED BY <2>4, <2>5 DEF Sound
<1>3. ASSUME NEW w \in Workers PROVE PermitInv(w) /\ ThreadInv(w)
  <2>1. Holders(w) = {} /\ Computing(w) = {}
    BY DEF Init, Holders, Computing
  <2>. QED BY <2>1, FS_EmptySet, RewardLoopAssumption DEF Init, PermitInv, ThreadInv
<1>4. PoolInv
  BY <1>3 DEF Init, PoolInv
<1>. QED BY <1>1, <1>2, <1>4 DEF IInv, BucketInv

\* The gate goes on as it was: nothing is granted, and no debtor sleeps or wakes.
LEMMA QuietStep ==
  ASSUME IInv, UNCHANGED <<config, stage, bucket>>, now' \in {now, now + 1},
         pc' \in [Samples -> Places], wake' \in [Samples -> Int],
         \A i \in Samples : pc'[i] \in {"decode", "acquire", "pay", "sleep"} =>
           \/ pc'[i] = pc[i]
           \/ pc'[i] \in {"acquire", "sleep"} /\ stage[i] \in DOMAIN limiters,
         \A i \in Samples : pc'[i] = "pay" <=> pc[i] = "pay",
         \A i \in Samples : pc[i] = "pay" => wake'[i] = wake[i]
  PROVE  GateInv' /\ BucketInv'
<1>1. limiters' = limiters /\ UNCHANGED <<stage, tokens, last, granted>>
  BY DEF config, bucket
<1>2. GateInv'
  BY <1>1, GateStep DEF IInv
<1>3. BucketInv'
  BY <1>1, SameBuckets DEF IInv
<1>. QED BY <1>2, <1>3

\* A coroutine that moves on outside the gate.
LEMMA MoveStep ==
  ASSUME IInv, UNCHANGED <<config, now, stage, wake, bucket>>,
         NEW i \in Samples, NEW p \in Places \ {"decode", "acquire", "pay", "sleep"},
         pc[i] # "pay", pc' = [pc EXCEPT ![i] = p]
  PROVE  GateInv' /\ BucketInv'
<1>1. /\ pc' \in [Samples -> Places] /\ wake' \in [Samples -> Int]
      /\ now' \in {now, now + 1}
  BY DEF IInv, GateInv, PcInv, WakeInv
<1>2. \A j \in Samples : pc'[j] = IF j = i THEN p ELSE pc[j]
  BY DEF IInv, GateInv, PcInv
<1>. QED BY <1>1, <1>2, QuietStep

LEMMA DecodeStep == ASSUME IInv, NEW i \in Samples, Decode(i) PROVE IInv'
<1>1. /\ pc' \in [Samples -> Places] /\ wake' \in [Samples -> Int]
      /\ now' \in {now, now + 1}
  BY DEF IInv, GateInv, PcInv, WakeInv, Decode, Places
<1>2. \A j \in Samples : j # i => pc'[j] = pc[j]
  BY DEF IInv, GateInv, PcInv, Decode
<1>3. pc[i] = "decode" /\ pc'[i] \in {"permit", "acquire"}
      /\ (pc'[i] = "acquire" => limiters # <<>>)
  BY DEF IInv, GateInv, PcInv, Decode
<1>4. pc'[i] = "acquire" => stage[i] \in DOMAIN limiters
  <2>1. limiters \in Seq([rate : Nat \ {0}, cap : Nat \ {0}, need : Nat \ {0}])
    BY RewardLoopAssumption DEF IInv, GateInv, LimiterInv
  <2>2. ASSUME NEW T, limiters \in Seq(T), limiters # <<>> PROVE 1 \in DOMAIN limiters
    BY <2>2
  <2>. QED BY <1>3, <2>1, <2>2 DEF IInv, GateInv, StageInv
<1>5. GateInv' /\ BucketInv'
  BY <1>1, <1>2, <1>3, <1>4, QuietStep DEF Decode
<1>6. PoolInv'
  BY <1>2, <1>3, SamePool DEF Decode, IInv, config, pool
<1>. QED BY <1>5, <1>6 DEF IInv

LEMMA RetryStep == ASSUME IInv, NEW i \in Samples, Retry(i) PROVE IInv'
<1>1. /\ pc' \in [Samples -> Places] /\ wake' \in [Samples -> Int]
      /\ now' \in {now, now + 1}
  BY DEF IInv, GateInv, PcInv, WakeInv, Retry, Places
<1>2. \A j \in Samples : j # i => pc'[j] = pc[j] /\ wake'[j] = wake[j]
  BY DEF IInv, GateInv, PcInv, WakeInv, Retry
<1>3. pc[i] = "sleep" /\ pc'[i] = "acquire" /\ stage[i] \in DOMAIN limiters
  BY DEF IInv, GateInv, PcInv, StageInv, Retry
<1>4. GateInv' /\ BucketInv'
  BY <1>1, <1>2, <1>3, QuietStep DEF Retry
<1>5. PoolInv'
  BY <1>2, <1>3, SamePool DEF Retry, IInv, config, pool
<1>. QED BY <1>4, <1>5 DEF IInv

\* An acquire neither takes nor returns a permit.
LEMMA AcquirePool ==
  ASSUME IInv, NEW i \in Samples,
         Overdraw(i) \/ Paid(i) \/ Take(i) \/ Defer(i)
  PROVE  PoolInv'
<1>1. UNCHANGED <<kind, permits, stray>>
  BY DEF Overdraw, Paid, Take, Defer, config, pool
<1>2. \A j \in Samples : j # i => pc'[j] = pc[j]
  BY DEF Overdraw, Paid, Take, Defer, Sleep, Granted, IInv, GateInv, PcInv
<1>3. pc[i] \notin {"queued", "compute"} /\ pc'[i] \notin {"queued", "compute"}
  BY DEF Overdraw, Paid, Take, Defer, Sleep, Granted, IInv, GateInv, PcInv
<1>. QED BY <1>1, <1>2, <1>3, SamePool DEF IInv

LEMMA PostStep == ASSUME IInv, NEW i \in Samples, Post(i) PROVE IInv'
<1>1. /\ pc' \in [Samples -> Places] /\ wake' \in [Samples -> Int]
      /\ now' \in {now, now + 1}
  BY DEF IInv, GateInv, PcInv, WakeInv, Post, Places
<1>2. \A j \in Samples : j # i => pc'[j] = pc[j]
  BY DEF IInv, GateInv, PcInv, Post
<1>3. pc[i] = "post" /\ pc'[i] \in {"post", "done", "raised"} /\ wake' = wake
  BY DEF IInv, GateInv, PcInv, Post
<1>4. GateInv' /\ BucketInv'
  BY <1>1, <1>2, <1>3, QuietStep DEF Post
<1>5. PoolInv'
  BY <1>2, <1>3, SamePool DEF Post, IInv, config, pool
<1>. QED BY <1>4, <1>5 DEF IInv

LEMMA HangStep == ASSUME IInv, NEW i \in Samples, Hang(i) PROVE IInv'
<1>1. "hung" \in Places \ {"decode", "acquire", "pay", "sleep"}
  BY DEF Places
<1>2. /\ pc[i] = "post" /\ pc' = [pc EXCEPT ![i] = "hung"]
      /\ UNCHANGED <<config, now, stage, wake, bucket, pool>>
  BY DEF Hang
<1>3. GateInv' /\ BucketInv'
  BY <1>1, <1>2, MoveStep
<1>4. \A j \in Samples : pc'[j] = IF j = i THEN "hung" ELSE pc[j]
  BY <1>2 DEF IInv, GateInv, PcInv
<1>5. PoolInv'
  BY <1>2, <1>4, SamePool DEF IInv, config, pool
<1>. QED BY <1>3, <1>5 DEF IInv

\* Steps of no coroutine.
LEMMA StillStep ==
  ASSUME IInv, UNCHANGED <<config, pc, stage, wake, bucket>>, now' \in {now, now + 1}
  PROVE  GateInv' /\ BucketInv'
<1>1. pc' \in [Samples -> Places] /\ wake' \in [Samples -> Int]
  BY DEF IInv, GateInv, PcInv, WakeInv
<1>. QED BY <1>1, QuietStep

LEMMA NextIInv == IInv /\ [Next]_vars => IInv'
<1>. SUFFICES ASSUME IInv, [Next]_vars PROVE IInv'
  OBVIOUS
<1>1. ASSUME NEW i \in Samples, Overdraw(i) PROVE IInv'
  BY <1>1, OverdrawStep, AcquirePool DEF IInv
<1>2. ASSUME NEW i \in Samples, Paid(i) PROVE IInv'
  BY <1>2, PaidStep, AcquirePool DEF IInv
<1>3. ASSUME NEW i \in Samples, Take(i) PROVE IInv'
  BY <1>3, TakeStep, AcquirePool DEF IInv
<1>4. ASSUME NEW i \in Samples, Defer(i) PROVE IInv'
  BY <1>4, DeferStep, AcquirePool DEF IInv
<1>5. ASSUME NEW i \in Samples, Enter(i) PROVE IInv'
  <2>1. PICK p \in {"queued", "compute"} : pc' = [pc EXCEPT ![i] = p]
    BY <1>5 DEF Enter
  <2>2. p \in Places \ {"decode", "acquire", "pay", "sleep"}
    BY DEF Places
  <2>3. GateInv' /\ BucketInv'
    BY <1>5, <2>1, <2>2, MoveStep DEF Enter
  <2>. QED BY <1>5, <2>3, EnterPool DEF IInv
<1>6. ASSUME NEW i \in Samples, RunThread(i) PROVE IInv'
  <2>1. "compute" \in Places \ {"decode", "acquire", "pay", "sleep"}
    BY DEF Places
  <2>2. GateInv' /\ BucketInv'
    BY <1>6, <2>1, MoveStep DEF RunThread
  <2>. QED BY <1>6, <2>2, RunThreadPool DEF IInv
<1>7. ASSUME NEW i \in Samples, NEW r, pc[i] \in {"queued", "compute"}, Leave(i, r)
      PROVE  GateInv' /\ BucketInv'
  <2>1. "done" \in Places \ {"decode", "acquire", "pay", "sleep"}
    BY DEF Places
  <2>. QED BY <1>7, <2>1, MoveStep DEF Leave
<1>8. ASSUME NEW i \in Samples, Computed(i) PROVE IInv'
  <2>1. PICK r \in {"answer", "error"} : Leave(i, r)
    BY <1>8 DEF Computed
  <2>2. pc[i] = "compute" /\ stray' = stray
    BY <1>8 DEF Computed
  <2>. QED BY <1>7, <2>1, <2>2, LeavePool DEF IInv
<1>9. ASSUME NEW i \in Samples, Timeout(i) PROVE IInv'
  <2>1. /\ pc[i] \in {"queued", "compute"} /\ Leave(i, "timeout")
        /\ \/ stray' = stray
           \/ pc[i] = "compute" /\ stray' = [stray EXCEPT ![WorkerOf(i)] = @ + 1]
    BY <1>9 DEF Timeout
  <2>. QED BY <1>7, <2>1, LeavePool DEF IInv
<1>10. ASSUME NEW w \in Workers, StrayEnds(w) PROVE IInv'
  BY <1>10, StillStep, StrayEndsPool DEF IInv, StrayEnds
<1>11. CASE Tick
  BY <1>11, StillStep, SamePool DEF IInv, Tick, config, pool
<1>12. CASE Gather
  BY <1>12, StillStep, SamePool DEF IInv, Gather, config, pool
<1>13. CASE GatherRaises
  BY <1>13, StillStep, SamePool DEF IInv, GatherRaises, config, pool
<1>14. CASE UNCHANGED vars
  BY <1>14, StillStep, SamePool DEF IInv, vars, config, pool
<1>15. ASSUME NEW i \in Samples, Step(i) PROVE IInv'
  BY <1>15, <1>1, <1>2, <1>3, <1>4, <1>5, <1>6, <1>9, DecodeStep, RetryStep, PostStep
     DEF Step
<1>. QED BY <1>8, <1>10, <1>11, <1>12, <1>13, <1>14, <1>15, HangStep DEF Next

\* The strengthened invariant: gate, buckets and pools.
THEOREM Invariance == Spec => []IInv
BY InitIInv, NextIInv, PTL DEF Spec

\* For any rates, bucket sizes and request sizes, larger than the bucket or not, no
\* worker lets more through a limiter than the bucket held and has gained.
THEOREM WithinLimits == Spec => []RateBound
<1>1. IInv => RateBound
  BY DEF IInv, BucketInv, Sound, WithinRate, RateBound
<1>. QED BY <1>1, Invariance, PTL

\* For any number of samples, however many time out, a worker awaits at most
\* max_concurrent rewards, and a sync reward that runs, awaited or not, has a thread.
THEOREM BoundedRewards == Spec => []ConcurrencyLimit
<1>1. ASSUME IInv, NEW w \in Workers
      PROVE  /\ Cardinality(Computing(w)) <= MaxConcurrent
             /\ kind = "sync" => Cardinality(Computing(w)) + stray[w] <= Threads
  <2>1. Computing(w) \subseteq Holders(w)
    BY DEF Computing, Holders
  <2>2. Cardinality(Computing(w)) <= Cardinality(Holders(w))
    BY <2>1, SubsetTypes, FS_Subset
  <2>. QED BY <1>1, <2>2, SubsetTypes, RewardLoopAssumption
           DEF IInv, PoolInv, PermitInv, ThreadInv
<1>2. IInv => ConcurrencyLimit
  BY <1>1 DEF ConcurrencyLimit
<1>. QED BY <1>2, Invariance, PTL
--------------------------------------------------------------------------------
(***************************************************************************)
(* What compute_rm_score puts together (RewardsBelong).  The workers'      *)
(* outputs one after the other are the samples in their order, by          *)
(* induction on the workers, as the argument that no worker is the first   *)
(* to break it.                                                            *)
(***************************************************************************)

\* Some natural number of a set of them is the least.
LEMMA SomeLeast ==
  ASSUME NEW T, T \subseteq Nat, T # {}
  PROVE  \E x \in T : \A y \in T : x <= y
<1>1. PICK x \in T : \A y \in T : ~(<<y, x>> \in OpToRel(<, Nat))
  BY NatLessThanWellFounded, WFMin
<1>2. ASSUME NEW y \in T PROVE x <= y
  <2>1. <<y, x>> \in Nat \X Nat
    OBVIOUS
  <2>2. ~(y < x)
    BY <1>1, <2>1, Zenon DEF OpToRel
  <2>. QED BY <2>2
<1>. QED BY <1>2

\* The numbers to a, and the next c.
LEMMA UpTo ==
  ASSUME NEW a \in Nat, NEW c \in Nat
  PROVE  [m \in 1 .. a |-> m] \o [k \in 1 .. c |-> a + k] = [m \in 1 .. a + c |-> m]
<1>. DEFINE s == [m \in 1 .. a |-> m]
            t == [k \in 1 .. c |-> a + k]
            u == [m \in 1 .. a + c |-> m]
<1>1. s \in Seq(Int) /\ Len(s) = a /\ t \in Seq(Int) /\ Len(t) = c
  OBVIOUS
<1>2. u \in Seq(Int) /\ Len(u) = a + c
  OBVIOUS
<1>3. s \o t \in Seq(Int) /\ Len(s \o t) = a + c
  BY <1>1
<1>4. ASSUME NEW m \in 1 .. a + c PROVE (s \o t)[m] = m
  <2>1. (s \o t)[m] = IF m <= a THEN s[m] ELSE t[m - a]
    BY <1>1
  <2>2. CASE m <= a
    BY <2>1, <2>2
  <2>3. CASE m > a
    <3>1. m - a \in 1 .. c
      BY <2>3
    <3>2. t[m - a] = a + (m - a)
      BY <3>1
    <3>. QED BY <2>1, <2>3, <3>2
  <2>. QED BY <2>2, <2>3
<1>. QED BY <1>2, <1>3, <1>4

LEMMA ChunkType ==
  ASSUME NEW w \in Workers
  PROVE  Chunk(w) \in Seq(Int) /\ Len(Chunk(w)) = ChunkSize
<1>1. ChunkSize \in Nat /\ w \in Int
  BY RewardLoopAssumption DEF Workers
<1>. QED BY <1>1 DEF Chunk

LEMMA OutputsInOrder == Outputs = [i \in Samples |-> i]
<1>. DEFINE chunks    == [w \in Workers |-> Chunk(w)]
            before(w) == [m \in 1 .. w * ChunkSize |-> m]
            Eqn(g)    == g = [i \in 1 .. Len(chunks) |->
                               IF i = 1 THEN chunks[i] ELSE g[i - 1] \o chunks[i]]
            flatten   == CHOOSE g : Eqn(g)
            goal      == [w \in Workers |-> before(w)]
<1>1. NumWorkers \in Nat \ {0} /\ ChunkSize \in Nat \ {0} /\ Workers = 1 .. NumWorkers
  BY RewardLoopAssumption DEF Workers
<1>2. chunks \in Seq(Seq(Int)) /\ Len(chunks) = NumWorkers
  BY <1>1, ChunkType
<1>3. Outputs = flatten[NumWorkers]
  BY <1>1, <1>2 DEF Outputs, FlattenSeq
<1>4. ASSUME NEW w \in Workers
      PROVE  IF w = 1 THEN chunks[w] = before(w) ELSE before(w - 1) \o chunks[w] = before(w)
  <2>1. CASE w = 1
    BY <1>1, <2>1 DEF Chunk
  <2>2. CASE w # 1
    <3>. DEFINE a == (w - 1) * ChunkSize
    <3>1. w \in Nat /\ w - 1 \in Nat /\ a \in Nat /\ w * ChunkSize = a + ChunkSize
      BY <1>1, OneMore
    <3>2. chunks[w] = [k \in 1 .. ChunkSize |-> a + k]
      BY DEF Chunk
    <3>. HIDE DEF a
    <3>3. [m \in 1 .. a |-> m] \o [k \in 1 .. ChunkSize |-> a + k] = [m \in 1 .. a + ChunkSize |-> m]
      BY <1>1, <3>1, UpTo
    <3>. QED BY <2>2, <3>1, <3>2, <3>3 DEF a
  <2>. QED BY <2>1, <2>2
<1>. HIDE DEF chunks, before
<1>5. Eqn(goal)
  <2>1. ASSUME NEW i \in Workers, i # 1 PROVE i - 1 \in Workers
    BY <1>1, <2>1
  <2>. QED BY <1>1, <1>2, <1>4, <2>1
<1>6. Eqn(flatten)
  <2>. HIDE DEF Eqn
  <2>. QED BY <1>5
<1>. HIDE DEF flatten
<1>7. ASSUME NEW w \in Workers PROVE flatten[w] = before(w)
  <2>. DEFINE T == {n \in Workers : flatten[n] # before(n)}
  <2>1. SUFFICES ASSUME T # {} PROVE FALSE
    OBVIOUS
  <2>2. PICK n \in T : \A m \in T : n <= m
    BY <1>1, <2>1, SomeLeast, T \subseteq Nat
  <2>3. flatten[n] = IF n = 1 THEN chunks[n] ELSE flatten[n - 1] \o chunks[n]
    BY <1>1, <1>2, <1>6
  <2>4. CASE n = 1
    BY <1>4, <2>2, <2>3, <2>4
  <2>5. CASE n # 1
    <3>1. n - 1 \in Workers /\ n - 1 \notin T
      BY <1>1, <2>2, <2>5
    <3>2. flatten[n - 1] = before(n - 1)
      BY <3>1
    <3>. QED BY <1>4, <2>2, <2>3, <2>5, <3>2
  <2>. QED BY <2>4, <2>5
<1>8. flatten[NumWorkers] = before(NumWorkers)
  BY <1>1, <1>7
<1>. QED BY <1>3, <1>8 DEF before, Samples

\* What a batch that ended has of its samples, whose results are final.
AllDone == \A i \in Samples : pc[i] = "done"

BelongInv ==
  /\ batch = "returned" => AllDone /\ scores = [i \in Samples |-> Score(i)]
  /\ batch = "raised" =>
       \/ \E i \in Samples : pc[i] = "raised"
       \/ AllDone /\ \E i, j \in Samples : result[i] # result[j]

LEMMA FirstSample == Outputs[1] = 1 /\ 1 \in Samples
<1>1. NumWorkers \in Nat \ {0} /\ ChunkSize \in Nat \ {0}
  BY RewardLoopAssumption
<1>2. PICK p \in Int : p = NumWorkers * ChunkSize /\ p >= 1
  BY <1>1
<1>3. 1 \in Samples
  BY <1>2 DEF Samples
<1>. QED BY <1>3, OutputsInOrder

\* The results are put together in the samples' order, and no key is missing if they all
\* ended the same way.
LEMMA GatherBelongs ==
  ASSUME IInv, BelongInv, Gather
  PROVE  BelongInv'
<1>1. AllDone /\ UNCHANGED <<pc, result, kind>>
  BY DEF Gather, AllDone, config
<1>2. CASE batch' = "returned" /\ scores' = [n \in DOMAIN Outputs |-> Score(Outputs[n])]
  <2>1. scores' = [i \in Samples |-> Score(i)]
    BY <1>2, OutputsInOrder
  <2>2. \A i \in Samples : Score(i)' = Score(i)
    BY <1>1 DEF Score
  <2>. QED BY <1>1, <1>2, <2>1, <2>2 DEF BelongInv, AllDone
<1>3. ASSUME batch' = "raised",
             \E keys \in AnswerKeys : ~(\A i \in Samples : HasKeysOfFirst(i, keys))
      PROVE  BelongInv'
  <2>1. PICK keys \in AnswerKeys, i \in Samples : ~(KeysOf(1, keys) \subseteq KeysOf(i, keys))
    BY <1>3, FirstSample DEF HasKeysOfFirst
  <2>2. result[1] # result[i]
    BY <2>1 DEF KeysOf
  <2>. QED BY <1>1, <1>3, <2>2, FirstSample DEF BelongInv, AllDone
<1>. QED BY <1>2, <1>3 DEF Gather

LEMMA BelongStep ==
  ASSUME IInv, BelongInv, [Next]_vars
  PROVE  BelongInv'
<1>1. CASE Gather
  BY <1>1, GatherBelongs
<1>2. CASE GatherRaises
  <2>1. batch' = "raised" /\ pc' = pc /\ \E i \in Samples : pc[i] = "raised"
    BY <1>2 DEF GatherRaises
  <2>. QED BY <2>1 DEF BelongInv
<1>3. ASSUME NEW i \in Samples, Step(i) \/ Computed(i) \/ Hang(i)
      PROVE  BelongInv'
  <2>1. pc[i] \notin {"done", "raised"} /\ UNCHANGED <<batch, scores>>
    BY <1>3 DEF Step, Decode, Overdraw, Paid, Take, Defer, Retry, Enter, RunThread, Timeout, Post,
                Hang, Computed, Leave, manager
  <2>2. \A j \in Samples : j # i => pc'[j] = pc[j]
    BY <1>3 DEF Step, Decode, Overdraw, Paid, Take, Defer, Retry, Enter, RunThread, Timeout, Post,
                Hang, Computed, Leave, Granted, Sleep, IInv, GateInv, PcInv
  <2>3. ~AllDone
    BY <2>1 DEF AllDone
  <2>. QED BY <2>1, <2>2, <2>3 DEF BelongInv
<1>4. CASE (\E w \in Workers : StrayEnds(w)) \/ Tick \/ UNCHANGED vars
  <2>1. UNCHANGED <<pc, result, batch, scores>>
    BY <1>4 DEF StrayEnds, Tick, vars, manager
  <2>2. \A i \in Samples : Score(i)' = Score(i)
    BY <2>1 DEF Score
  <2>. QED BY <2>1, <2>2 DEF BelongInv, AllDone
<1>. QED BY <1>1, <1>2, <1>3, <1>4 DEF Next

\* For any workers, chunk size and order of the rewards: a returned batch has each
\* sample's own reward at its position, and one is lost only if a reward was given up or
\* the rewards did not all end the same way.
THEOREM EachItsReward == Spec => []RewardsBelong
<1>1. Init => BelongInv
  BY DEF Init, BelongInv
<1>2. BelongInv => RewardsBelong
  BY DEF BelongInv, RewardsBelong
<1>3. IInv /\ BelongInv /\ [Next]_vars => BelongInv'
  BY BelongStep
<1>. QED BY <1>1, <1>2, <1>3, Invariance, PTL DEF Spec

--------------------------------------------------------------------------------
(***************************************************************************)
(* PermReward: the judges' calls share one semaphore.                      *)
(***************************************************************************)
\* The calls inside "async with _semaphore": those that sleep hold a permit too.
CallHolders == {c \in AllCalls : callPc[c] \in {"calling", "sleeping"}}

CallPcInv == callPc \in [AllCalls -> {"queued", "calling", "sleeping", "done"}]

\* JudgeConcurrency is not inductive alone: the permits left and the calls that hold
\* one are together those there were at first.
CallPermitInv ==
  /\ callPermits \in Nat
  /\ IsFiniteSet(CallHolders)
  /\ callPermits + Cardinality(CallHolders) = Permits

JudgesInv == CallPcInv /\ CallPermitInv

LEMMA InitJudges == JudgingInit => JudgesInv
<1>. SUFFICES ASSUME JudgingInit PROVE JudgesInv
  OBVIOUS
<1>1. CallPcInv
  BY DEF JudgingInit, CallPcInv
<1>2. CallHolders = {}
  BY DEF JudgingInit, CallHolders
<1>. QED BY <1>1, <1>2, PermRewardAssumption, FS_EmptySet DEF JudgesInv, CallPermitInv, JudgingInit

\* Where the permits and the calls' places stay, so does the invariant.
LEMMA SameCalls ==
  ASSUME JudgesInv, UNCHANGED <<callPc, callPermits>> PROVE JudgesInv'
BY DEF JudgesInv, CallPcInv, CallPermitInv, CallHolders

\* A call that enters takes the permit that it then holds.
LEMMA EnterIInv ==
  ASSUME JudgesInv, NEW c \in AllCalls, Acquire(c) PROVE JudgesInv'
<1>. USE DEF JudgesInv
<1>1. CallPcInv'
  BY DEF CallPcInv, Acquire
<1>2. CallHolders' = CallHolders \cup {c} /\ c \notin CallHolders
  BY DEF CallHolders, CallPcInv, Acquire
<1>3. IsFiniteSet(CallHolders') /\ Cardinality(CallHolders') = Cardinality(CallHolders) + 1
  BY <1>2, FS_AddElement DEF CallPermitInv
<1>4. Cardinality(CallHolders) \in Nat
  BY FS_CardinalityType DEF CallPermitInv
<1>5. callPermits \in Nat /\ callPermits > 0 /\ callPermits' = callPermits - 1
  BY DEF CallPermitInv, Acquire
<1>6. CallPermitInv'
  BY <1>3, <1>4, <1>5, PermRewardAssumption DEF CallPermitInv
<1>. QED BY <1>1, <1>6

\* A call that leaves returns the one it held.
LEMMA LeaveIInv ==
  ASSUME JudgesInv, NEW c \in AllCalls,
         callPc[c] \in {"calling", "sleeping"}, callPc' = [callPc EXCEPT ![c] = "done"],
         callPermits' = callPermits + 1
  PROVE  JudgesInv'
<1>. USE DEF JudgesInv
<1>1. CallPcInv'
  BY DEF CallPcInv
<1>2. CallHolders' = CallHolders \ {c} /\ c \in CallHolders
  BY DEF CallHolders, CallPcInv
<1>3. IsFiniteSet(CallHolders') /\ Cardinality(CallHolders') = Cardinality(CallHolders) - 1
  BY <1>2, FS_RemoveElement DEF CallPermitInv
<1>4. Cardinality(CallHolders) \in Nat
  BY FS_CardinalityType DEF CallPermitInv
<1>5. callPermits \in Nat /\ callPermits' = callPermits + 1
  BY DEF CallPermitInv
<1>6. CallPermitInv'
  BY <1>3, <1>4, <1>5, PermRewardAssumption DEF CallPermitInv
<1>. QED BY <1>1, <1>6

\* A call that fails, or tries again, keeps its permit.
LEMMA StayIInv ==
  ASSUME JudgesInv, NEW c \in AllCalls, NEW p \in {"calling", "sleeping"},
         callPc[c] \in {"calling", "sleeping"}, callPc' = [callPc EXCEPT ![c] = p],
         callPermits' = callPermits
  PROVE  JudgesInv'
<1>. USE DEF JudgesInv
<1>1. CallPcInv'
  BY DEF CallPcInv
<1>2. CallHolders' = CallHolders
  BY DEF CallHolders, CallPcInv
<1>. QED BY <1>1, <1>2 DEF CallPermitInv

LEMMA NextJudges == JudgesInv /\ [JudgingNext]_judgingVars => JudgesInv'
<1>. SUFFICES ASSUME JudgesInv, [JudgingNext]_judgingVars PROVE JudgesInv'
  OBVIOUS
<1>1. ASSUME NEW c \in AllCalls, Acquire(c) PROVE JudgesInv'
  BY <1>1, EnterIInv
<1>2. ASSUME NEW c \in AllCalls, Answer(c) PROVE JudgesInv'
  BY <1>2, LeaveIInv DEF Answer
<1>3. ASSUME NEW c \in AllCalls, SleepCall(c) PROVE JudgesInv'
  BY <1>3, StayIInv DEF SleepCall
<1>4. ASSUME NEW c \in AllCalls, RetryCall(c) PROVE JudgesInv'
  BY <1>4, StayIInv DEF RetryCall
<1>5. ASSUME NEW c \in AllCalls, GiveUp(c) PROVE JudgesInv'
  BY <1>5, LeaveIInv DEF GiveUp
<1>6. ASSUME NEW s \in JudgedSamples, ScoreSample(s) PROVE JudgesInv'
  BY <1>6, SameCalls DEF ScoreSample, jvars
<1>7. ASSUME NEW s \in JudgedSamples, Raise(s) PROVE JudgesInv'
  BY <1>7, SameCalls DEF Raise, jvars
<1>8. CASE UNCHANGED judgingVars
  BY <1>8, SameCalls DEF judgingVars, jvars
<1>. QED
  BY <1>1, <1>2, <1>3, <1>4, <1>5, <1>6, <1>7, <1>8 DEF JudgingNext, Respond, Wake, Finish

\* However many samples of both splits a process scores at once, and however its calls
\* fail and retry, at most Permits requests to the judges are in flight.
THEOREM BoundedJudges == JudgingSpec => []JudgeConcurrency
<1>1. ASSUME JudgesInv PROVE JudgeConcurrency
  <2>1. {c \in AllCalls : callPc[c] = "calling"} \subseteq CallHolders
    BY DEF CallHolders
  <2>2. /\ Cardinality({c \in AllCalls : callPc[c] = "calling"}) \in Nat
        /\ Cardinality({c \in AllCalls : callPc[c] = "calling"}) <= Cardinality(CallHolders)
    BY <1>1, <2>1, FS_Subset, FS_CardinalityType DEF JudgesInv, CallPermitInv
  <2>3. Cardinality(CallHolders) \in Nat /\ callPermits \in Nat
        /\ callPermits + Cardinality(CallHolders) = Permits
    BY <1>1, FS_CardinalityType DEF JudgesInv, CallPermitInv
  <2>. QED BY <2>2, <2>3, PermRewardAssumption DEF JudgeConcurrency
<1>. QED BY <1>1, InitJudges, NextJudges, PTL DEF JudgingSpec

--------------------------------------------------------------------------------
(***************************************************************************)
(* What a reward is worth: it is computed once, from answers that no later *)
(* step changes, and the harmonic mean of three numbers is at most three   *)
(* times any of them.                                                      *)
(***************************************************************************)
\* The sum of natural numbers is one: a function as SumOf describes it exists for every
\* prefix of the list, so that the one it chooses has the values it describes.
LEMMA SumIsNat ==
  ASSUME NEW N \in Nat, NEW numbers \in [1 .. N -> Nat]
  PROVE  SumOf(numbers, N) \in Nat
<1>. DEFINE Upto(n, g) == g = [t \in 0 .. n |-> IF t = 0 THEN 0 ELSE g[t - 1] + numbers[t]]
            Defined(n) == \E g : Upto(n, g) /\ g \in [0 .. n -> Nat]
            sum == CHOOSE g : Upto(N, g)
<1>1. Defined(0)
  <2>1. Upto(0, [t \in 0 .. 0 |-> 0]) /\ [t \in 0 .. 0 |-> 0] \in [0 .. 0 -> Nat]
    OBVIOUS
  <2>. HIDE DEF Upto
  <2>. QED BY <2>1
<1>2. ASSUME NEW n \in 1 .. N, Defined(n - 1) PROVE Defined(n)
  <2>1. PICK g : Upto(n - 1, g) /\ g \in [0 .. n - 1 -> Nat]
    BY <1>2
  <2>. DEFINE h == [t \in 0 .. n |-> IF t < n THEN g[t] ELSE g[n - 1] + numbers[n]]
  <2>2. h \in [0 .. n -> Nat]
    <3>1. n - 1 \in 0 .. n - 1 /\ g[n - 1] \in Nat /\ numbers[n] \in Nat
      BY <2>1
    <3>2. \A t \in 0 .. n : t < n => g[t] \in Nat
      BY <2>1
    <3>. QED BY <3>1, <3>2
  <2>3. ASSUME NEW t \in 0 .. n
        PROVE  h[t] = IF t = 0 THEN 0 ELSE h[t - 1] + numbers[t]
    <3>1. CASE t < n
      <4>1. t \in 0 .. n - 1 /\ (t # 0 => t - 1 \in 0 .. n /\ t - 1 < n)
        BY <3>1
      <4>2. h[t] = g[t] /\ (t # 0 => h[t - 1] = g[t - 1])
        BY <3>1, <4>1
      <4>. QED BY <2>1, <4>1, <4>2
    <3>2. CASE t = n
      <4>1. n # 0 /\ n - 1 \in 0 .. n /\ n - 1 < n
        OBVIOUS
      <4>. QED BY <3>2, <4>1
    <3>. QED BY <3>1, <3>2
  <2>4. h = [t \in 0 .. n |-> h[t]]
    OBVIOUS
  <2>. HIDE DEF h
  <2>5. Upto(n, h)
    BY <2>3, <2>4
  <2>. HIDE DEF Upto
  <2>. QED BY <2>2, <2>5
<1>3. Defined(N)
  <2>. HIDE DEF Defined
  <2>. DEFINE T == {n \in 0 .. N : ~Defined(n)}
  <2>1. ASSUME T # {} PROVE FALSE
    <3>1. T \subseteq Nat
      OBVIOUS
    <3>2. PICK n \in T : \A m \in T : n <= m
      BY <2>1, <3>1, SomeLeast
    <3>3. n \in 1 .. N /\ n - 1 \in 0 .. N
      BY <1>1, <3>2
    <3>4. Defined(n - 1)
      BY <3>2, <3>3
    <3>. QED BY <1>2, <3>2, <3>3, <3>4
  <2>. QED BY <2>1
<1>4. Upto(N, sum)
  <2>. HIDE DEF Upto
  <2>. QED BY <1>3
<1>. HIDE DEF sum
<1>5. \A t \in 0 .. N : sum[t] = IF t = 0 THEN 0 ELSE sum[t - 1] + numbers[t]
  BY <1>4
<1>6. \A t \in 0 .. N : sum[t] \in Nat
  <2>. DEFINE T == {t \in 0 .. N : sum[t] \notin Nat}
  <2>1. ASSUME T # {} PROVE FALSE
    <3>1. T \subseteq Nat
      OBVIOUS
    <3>2. PICK t \in T : \A u \in T : t <= u
      BY <2>1, <3>1, SomeLeast
    <3>3. t # 0 /\ t \in 1 .. N /\ t - 1 \in 0 .. N
      BY <1>5, <3>2
    <3>4. sum[t - 1] \in Nat /\ numbers[t] \in Nat
      BY <3>2, <3>3
    <3>5. sum[t] = sum[t - 1] + numbers[t]
      BY <1>5, <3>3
    <3>. QED BY <3>2, <3>4, <3>5
  <2>. QED BY <2>1
<1>7. SumOf(numbers, N) = sum[N]
  BY DEF SumOf, sum
<1>. QED BY <1>6, <1>7

\* Multiplying keeps an order.
LEMMA TimesKeepsOrder ==
  ASSUME NEW a \in Int, NEW b \in Int, NEW c \in Nat, a <= b
  PROVE  a * c \in Int /\ b * c \in Int /\ a * c <= b * c
OBVIOUS

\* 3abc / (ab + bc + ca) is at most 3a: the denominator is at least bc.
LEMMA HarmonicBound ==
  ASSUME NEW a \in Nat, NEW b \in Nat, NEW c \in Nat, NEW w \in Nat, NEW p \in Nat,
         p = a * b + b * c + c * a
  PROVE  3 * a * b * c * w <= 3 * a * (p * w)
<1>1. /\ a * b \in Nat /\ b * c \in Nat /\ c * a \in Nat /\ p * w \in Nat
      /\ b * c <= p
  OBVIOUS
<1>2. (b * c) * w <= p * w /\ (b * c) * w \in Nat
  BY <1>1
<1>3. ((b * c) * w) * a <= (p * w) * a
  BY <1>1, <1>2
<1>4. 3 * a * b * c * w = 3 * (((b * c) * w) * a) /\ 3 * a * (p * w) = 3 * ((p * w) * a)
  BY <1>1
<1>. QED BY <1>1, <1>2, <1>3, <1>4

\* The judge's answers are numbers, and a sample's reward is the one its answers make.
AnswersInv ==
  /\ DOMAIN answer = AllCalls
  /\ \A c \in AllCalls : /\ answer[c].value \in Int
                         /\ c[2] # "standby" => answer[c].value \in Nat

ScoredInv ==
  /\ DOMAIN outcome = JudgedSamples /\ DOMAIN score = JudgedSamples
  /\ \A s \in JudgedSamples : outcome[s] = "scored" =>
       /\ \A c \in CallsOf(s) : callPc[c] = "done"
       /\ score[s] = Reward(s)

RewardInv == CallPcInv /\ AnswersInv /\ ScoredInv

LEMMA TheCalls ==
  /\ \A s \in JudgedSamples : CallsOf(s) \subseteq AllCalls
  /\ \A s \in JudgedSamples : \A dim \in Dimensions : \A t \in 1 .. Trials(s) :
       <<s, dim, t>> \in CallsOf(s)
  /\ \A s \in TrainSamples : <<s, "standby", 1>> \in CallsOf(s)
  /\ \A c \in AllCalls : c[2] # "standby" => c[1] \in JudgedSamples
  /\ \A s \in JudgedSamples : Trials(s) \in Nat
<1>1. \A s \in JudgedSamples : CallsOf(s) \subseteq AllCalls
  BY DEF AllCalls
<1>2. GrmTrial \in Nat /\ GrmTrial >= 1
  BY PermRewardAssumption
<1>3. \A s \in JudgedSamples : Trials(s) \in Nat /\ Trials(s) <= GrmTrial
  BY <1>2 DEF Trials
<1>4. ASSUME NEW s \in JudgedSamples, NEW dim \in Dimensions, NEW t \in 1 .. Trials(s)
      PROVE  <<s, dim, t>> \in CallsOf(s)
  <2>1. t \in 1 .. GrmTrial /\ t <= Trials(s)
    BY <1>2, <1>3
  <2>2. <<s, dim, t>> \in Calls
    BY <2>1 DEF Calls
  <2>. QED BY <2>1, <2>2 DEF CallsOf
<1>5. \A s \in TrainSamples : <<s, "standby", 1>> \in CallsOf(s)
  BY DEF CallsOf
<1>6. ASSUME NEW c \in AllCalls, c[2] # "standby" PROVE c[1] \in JudgedSamples
  BY <1>6 DEF AllCalls, CallsOf, Calls
<1>. QED BY <1>1, <1>3, <1>4, <1>5, <1>6

\* The answers of a sample's calls are all its reward depends on.
LEMMA SameReward ==
  ASSUME NEW s \in JudgedSamples, \A c \in CallsOf(s) : answer'[c] = answer[c]
  PROVE  Reward(s)' = Reward(s)
<1>1. ASSUME NEW dim \in Dimensions PROVE TrialSum(s, dim)' = TrialSum(s, dim)
  <2>1. \A t \in 1 .. Trials(s) : DimScore(<<s, dim, t>>)' = DimScore(<<s, dim, t>>)
    BY TheCalls DEF DimScore
  <2>2. [t \in 1 .. Trials(s) |-> DimScore(<<s, dim, t>>)']
          = [t \in 1 .. Trials(s) |-> DimScore(<<s, dim, t>>)]
    BY <2>1
  <2>. QED BY <2>2 DEF TrialSum
<1>2. s \in TrainSamples => Standby(s)' = Standby(s)
  BY TheCalls DEF Standby
<1>3. /\ TrialSum(s, "resonation")' = TrialSum(s, "resonation")
      /\ TrialSum(s, "expression")' = TrialSum(s, "expression")
      /\ TrialSum(s, "reception")' = TrialSum(s, "reception")
  BY <1>1 DEF Dimensions
<1>. QED BY <1>2, <1>3 DEF Reward

LEMMA InitRewardInv == JudgingInit => RewardInv
<1>. SUFFICES ASSUME JudgingInit PROVE RewardInv
  OBVIOUS
<1>1. CallPcInv
  BY InitJudges DEF JudgesInv
<1>2. AnswersInv
  BY DEF JudgingInit, AnswersInv, Plain
<1>3. ScoredInv
  BY DEF JudgingInit, ScoredInv
<1>. QED BY <1>1, <1>2, <1>3 DEF RewardInv

\* A step of a call leaves the rewards of the samples that are scored: their calls are done.
LEMMA CallKeepsScores ==
  ASSUME RewardInv, NEW c \in AllCalls, Acquire(c) \/ Respond(c) \/ Wake(c)
  PROVE  ScoredInv'
<1>1. callPc[c] # "done" /\ outcome' = outcome /\ score' = score
  BY DEF Acquire, Respond, Answer, SleepCall, Wake, RetryCall, GiveUp
<1>2. \A d \in AllCalls : d # c => callPc'[d] = callPc[d] /\ answer'[d] = answer[d]
  BY DEF RewardInv, CallPcInv, AnswersInv, Acquire, Respond, Answer, SleepCall, Wake, RetryCall, GiveUp
<1>3. ASSUME NEW s \in JudgedSamples, outcome[s] = "scored"
      PROVE  (\A d \in CallsOf(s) : callPc'[d] = "done") /\ score[s] = Reward(s)'
  <2>1. (\A d \in CallsOf(s) : callPc[d] = "done") /\ score[s] = Reward(s)
    BY <1>3 DEF RewardInv, ScoredInv
  <2>2. \A d \in CallsOf(s) : callPc'[d] = callPc[d] /\ answer'[d] = answer[d]
    BY <1>1, <1>2, <2>1, TheCalls
  <2>3. Reward(s)' = Reward(s)
    BY <2>2, SameReward
  <2>. QED BY <2>1, <2>2, <2>3
<1>. QED BY <1>1, <1>3 DEF RewardInv, ScoredInv

LEMMA CallKeepsAnswers ==
  ASSUME RewardInv, NEW c \in AllCalls, Acquire(c) \/ Respond(c) \/ Wake(c)
  PROVE  AnswersInv'
<1>1. CASE answer' = answer
  BY <1>1 DEF RewardInv, AnswersInv
<1>2. CASE Answer(c)
  <2>1. PICK a \in IF c[2] = "standby" THEN StandbyAnswers ELSE DimAnswers[c[1]] :
          answer' = [answer EXCEPT ![c] = a]
    BY <1>2 DEF Answer
  <2>2. a.value \in Int /\ (c[2] # "standby" => a.value \in Nat)
    <3>1. CASE c[2] = "standby"
      BY <2>1, <3>1, PermRewardAssumption
    <3>2. CASE c[2] # "standby"
      <4>1. c[1] \in JudgedSamples /\ a \in DimAnswers[c[1]]
        BY <2>1, <3>2, TheCalls
      <4>2. a.value \in Nat
        BY <4>1, PermRewardAssumption DEF JudgedSamples
      <4>. QED BY <4>2
    <3>. QED BY <3>1, <3>2
  <2>. QED BY <2>1, <2>2 DEF RewardInv, AnswersInv
<1>. QED BY <1>1, <1>2 DEF Acquire, Respond, SleepCall, Wake, RetryCall, GiveUp

LEMMA SampleKeepsReward ==
  ASSUME RewardInv, NEW s \in JudgedSamples, Finish(s)
  PROVE  RewardInv'
<1>1. callPc' = callPc /\ answer' = answer
  BY DEF Finish, ScoreSample, Raise, jvars
<1>2. CallPcInv' /\ AnswersInv'
  BY <1>1 DEF RewardInv, CallPcInv, AnswersInv
<1>3. \A r \in JudgedSamples : Reward(r)' = Reward(r)
  BY <1>1, SameReward
<1>4. /\ DOMAIN outcome' = JudgedSamples /\ DOMAIN score' = JudgedSamples
      /\ \A r \in JudgedSamples : r # s => outcome'[r] = outcome[r] /\ score'[r] = score[r]
      /\ outcome'[s] = "scored" => score'[s] = Reward(s) /\ \A c \in CallsOf(s) : callPc[c] = "done"
  BY DEF Finish, ScoreSample, Raise, Gathered, RewardInv, ScoredInv
<1>5. ASSUME NEW r \in JudgedSamples, outcome'[r] = "scored"
      PROVE  (\A c \in CallsOf(r) : callPc'[c] = "done") /\ score'[r] = Reward(r)'
  <2>1. CASE r = s
    BY <1>1, <1>3, <1>4, <1>5, <2>1
  <2>2. CASE r # s
    BY <1>1, <1>3, <1>4, <1>5, <2>2 DEF RewardInv, ScoredInv
  <2>. QED BY <2>1, <2>2
<1>6. ScoredInv'
  BY <1>4, <1>5 DEF ScoredInv
<1>. QED BY <1>2, <1>6 DEF RewardInv

LEMMA NextRewardInv == JudgesInv /\ RewardInv /\ [JudgingNext]_judgingVars => RewardInv'
<1>. SUFFICES ASSUME JudgesInv, RewardInv, [JudgingNext]_judgingVars PROVE RewardInv'
  OBVIOUS
<1>1. CallPcInv'
  BY NextJudges DEF JudgesInv
<1>2. ASSUME NEW c \in AllCalls, Acquire(c) \/ Respond(c) \/ Wake(c) PROVE RewardInv'
  BY <1>1, <1>2, CallKeepsScores, CallKeepsAnswers DEF RewardInv
<1>3. ASSUME NEW s \in JudgedSamples, Finish(s) PROVE RewardInv'
  BY <1>3, SampleKeepsReward
<1>4. CASE UNCHANGED judgingVars
  <2>1. callPc' = callPc /\ answer' = answer /\ outcome' = outcome /\ score' = score
    BY <1>4 DEF judgingVars, jvars
  <2>2. \A s \in JudgedSamples : Reward(s)' = Reward(s)
    BY <2>1, SameReward
  <2>. QED BY <1>1, <2>1, <2>2 DEF RewardInv, AnswersInv, ScoredInv
<1>. QED BY <1>2, <1>3, <1>4 DEF JudgingNext

LEMMA SumsAreNat ==
  ASSUME AnswersInv, NEW s \in JudgedSamples, NEW dim \in Dimensions
  PROVE  TrialSum(s, dim) \in Nat
<1>1. Trials(s) \in Nat
  BY TheCalls
<1>2. ASSUME NEW t \in 1 .. Trials(s) PROVE DimScore(<<s, dim, t>>) \in Nat
  <2>1. <<s, dim, t>> \in AllCalls /\ <<s, dim, t>>[2] # "standby"
    BY TheCalls DEF Dimensions
  <2>2. answer[<<s, dim, t>>].value \in Nat
    BY <2>1 DEF AnswersInv
  <2>. QED BY <2>2 DEF DimScore, AtMost
<1>3. [t \in 1 .. Trials(s) |-> DimScore(<<s, dim, t>>)] \in [1 .. Trials(s) -> Nat]
  BY <1>2
<1>. QED BY <1>1, <1>3, SumIsNat DEF TrialSum

LEMMA StandbyAtMostOne ==
  ASSUME AnswersInv, NEW s \in TrainSamples
  PROVE  Standby(s) \in Int /\ Standby(s) <= 100
<1>1. <<s, "standby", 1>> \in AllCalls
  BY TheCalls DEF JudgedSamples
<1>2. answer[<<s, "standby", 1>>].value \in Int
  BY <1>1 DEF AnswersInv
<1>. QED BY <1>2 DEF Standby, AtMost

\* What is added for standby only lowers a reward: it is half of standby - 1.
LEMMA StandbyOnlyLowers ==
  ASSUME NEW m \in Nat, NEW q \in Nat, NEW st \in Int, st <= 100, NEW w \in Nat,
         NEW a \in Nat, m * w <= 3 * a * q
  PROVE  (200 * m + (st - 100) * q) * w <= 3 * a * (200 * q)
<1>1. (st - 100) * q \in Int /\ (st - 100) * q <= 0
  <2>1. (st - 100) * q <= 0 * q
    BY TimesKeepsOrder
  <2>. QED BY <2>1
<1>2. 200 * m + (st - 100) * q <= 200 * m
  BY <1>1
<1>3. (200 * m + (st - 100) * q) * w <= (200 * m) * w
  BY <1>1, <1>2, TimesKeepsOrder
<1>4. m * w \in Nat /\ a * q \in Nat /\ (200 * m) * w = 200 * (m * w)
      /\ 3 * a * (200 * q) = 600 * (a * q) /\ 3 * a * q = 3 * (a * q)
  OBVIOUS
<1>5. (200 * m + (st - 100) * q) * w \in Int
  BY <1>1
<1>. QED BY <1>3, <1>4, <1>5

\* The reward of three sums, one of which is x.
LEMMA MeanBound ==
  ASSUME NEW a \in Nat, NEW b \in Nat, NEW c \in Nat, NEW w \in Nat,
         NEW x \in {a, b, c},
         NEW p, p = a * b + b * c + c * a,
         NEW mean, mean = IF a > 0 /\ b > 0 /\ c > 0 THEN <<3 * a * b * c, p * w>> ELSE <<0, 1>>
  PROVE  mean[1] \in Nat /\ mean[2] \in Nat /\ mean[1] * w <= 3 * x * mean[2]
<1>0. p \in Nat /\ p * w \in Nat /\ 3 * a * b * c \in Nat
  OBVIOUS
<1>1. CASE mean = <<0, 1>>
  <2>1. mean[1] = 0 /\ mean[2] = 1 /\ x \in Nat
    BY <1>1
  <2>. QED BY <2>1
<1>2. CASE mean = <<3 * a * b * c, p * w>>
  <2>1. mean[1] = 3 * a * b * c /\ mean[2] = p * w
    BY <1>2
  <2>2. 3 * a * b * c * w <= 3 * a * (p * w)
    BY <1>0, HarmonicBound
  <2>3. 3 * b * c * a * w <= 3 * b * (p * w)
    <3>1. p = b * c + c * a + a * b
      OBVIOUS
    <3>. QED BY <1>0, <3>1, HarmonicBound
  <2>4. 3 * c * a * b * w <= 3 * c * (p * w)
    <3>1. p = c * a + a * b + b * c
      OBVIOUS
    <3>. QED BY <1>0, <3>1, HarmonicBound
  <2>5. 3 * b * c * a * w = 3 * a * b * c * w /\ 3 * c * a * b * w = 3 * a * b * c * w
    OBVIOUS
  <2>6. 3 * a * b * c * w <= 3 * x * (p * w)
    BY <2>2, <2>3, <2>4, <2>5
  <2>. QED BY <1>0, <2>1, <2>6
<1>. QED BY <1>1, <1>2

\* A reward that was returned is at most three times the mean of the worst dimension,
\* whatever the judges answered, in however many trials.
THEOREM WorstDimensionBounds == JudgingSpec => []WorstDimensionCounts
<1>1. ASSUME RewardInv PROVE WorstDimensionCounts
  <2>. SUFFICES ASSUME NEW s \in JudgedSamples, outcome[s] = "scored", NEW dim \in Dimensions
                PROVE  score[s][1] * 5 * Trials(s) <= 3 * TrialSum(s, dim) * score[s][2]
    BY DEF WorstDimensionCounts
  <2>. DEFINE T == Trials(s)
  <2>1. PICK a \in Nat : a = TrialSum(s, "resonation")
    BY <1>1, SumsAreNat DEF RewardInv, Dimensions
  <2>2. PICK b \in Nat : b = TrialSum(s, "expression")
    BY <1>1, SumsAreNat DEF RewardInv, Dimensions
  <2>3. PICK c \in Nat : c = TrialSum(s, "reception")
    BY <1>1, SumsAreNat DEF RewardInv, Dimensions
  <2>4. T \in Nat /\ 5 * T \in Nat
    BY TheCalls
  <2>5. PICK x \in {a, b, c} : x = TrialSum(s, dim)
    BY <2>1, <2>2, <2>3 DEF Dimensions
  <2>6. PICK p : p = a * b + b * c + c * a
    OBVIOUS
  <2>7. PICK mean : mean = IF a > 0 /\ b > 0 /\ c > 0
                             THEN <<3 * a * b * c, p * (5 * T)>> ELSE <<0, 1>>
    OBVIOUS
  <2>8. mean[1] \in Nat /\ mean[2] \in Nat /\ mean[1] * (5 * T) <= 3 * x * mean[2]
    BY <2>4, <2>6, <2>7, MeanBound
  <2>9. score[s] = IF s \in TrainSamples
                     THEN <<200 * mean[1] + (Standby(s) - 100) * mean[2], 200 * mean[2]>>
                     ELSE mean
    <3>1. score[s] = Reward(s)
      BY <1>1 DEF RewardInv, ScoredInv
    <3>. QED BY <2>1, <2>2, <2>3, <2>6, <2>7, <3>1 DEF Reward
  <2>. HIDE DEF T
  <2>10. score[s][1] \in Int /\ score[s][1] * (5 * T) <= 3 * x * score[s][2]
    <3>1. CASE s \in TrainSamples
      <4>1. PICK st \in Int : st = Standby(s) /\ st <= 100
        BY <1>1, <3>1, StandbyAtMostOne DEF RewardInv
      <4>2. PICK m \in Nat : m = mean[1]
        BY <2>8
      <4>3. PICK q \in Nat : q = mean[2]
        BY <2>8
      <4>4. (200 * m + (st - 100) * q) * (5 * T) <= 3 * x * (200 * q)
        <5>1. PICK w \in Nat : w = 5 * T
          BY <2>4
        <5>2. m * w <= 3 * x * q /\ x \in Nat
          BY <2>8, <4>2, <4>3, <5>1
        <5>3. (200 * m + (st - 100) * q) * w <= 3 * x * (200 * q)
          BY <4>1, <5>2, StandbyOnlyLowers
        <5>. QED BY <5>1, <5>3
      <4>5. score[s][1] = 200 * m + (st - 100) * q /\ score[s][2] = 200 * q
        BY <2>9, <3>1, <4>1, <4>2, <4>3
      <4>6. 200 * m + (st - 100) * q \in Int
        OBVIOUS
      <4>. QED BY <4>4, <4>5, <4>6, Zenon
    <3>2. CASE s \notin TrainSamples
      <4>1. score[s] = mean
        BY <2>9, <3>2
      <4>. QED BY <2>8, <4>1
    <3>. QED BY <3>1, <3>2
  <2>11. score[s][1] * 5 * T = score[s][1] * (5 * T)
    BY <2>4, <2>10
  <2>. QED BY <2>5, <2>10, <2>11, Zenon DEF T
<1>. QED BY <1>1, InitJudges, NextJudges, InitRewardInv, NextRewardInv, PTL DEF JudgingSpec

--------------------------------------------------------------------------------
(***************************************************************************)
(* Evaluation: the calls in detail and the evaluation they are made for,   *)
(* when every example has a response.  (Run empty_response shows what is   *)
(* recorded when one has none.)                                            *)
(***************************************************************************)
\* What EvaluationAssumption adds to the constants' types: all examples have a response.
EvalConstants ==
  /\ NumExamples \in Nat /\ Responses = {"text"} /\ JudgeMayFail
  /\ Texts \subseteq {"score", "unscored", "garbled"}

LEMMA TheConstants == EvalConstants
BY EvalScoresAssumption, EvaluationAssumption DEF EvalConstants

LEMMA ListOf ==
  ASSUME NEW S, NEW n \in Nat, NEW f \in [1 .. n -> S]
  PROVE  f \in Seq(S) /\ Len(f) = n
OBVIOUS

\* A list of single numbers flattens to these numbers: with a prompt for every example,
\* prompt k is about example k.
LEMMA FlattenedSingles ==
  ASSUME NEW N \in Nat, NEW ss, ss = [i \in 1 .. N |-> <<i>>]
  PROVE  FlattenSeq(ss) = [i \in 1 .. N |-> i]
<1>. DEFINE Upto(n, g) == g = [i \in 1 .. n |-> IF i = 1 THEN ss[i] ELSE g[i - 1] \o ss[i]]
            flatten == CHOOSE g : Upto(N, g)
            f == [n \in 1 .. N |-> [i \in 1 .. n |-> i]]
<1>1. ss \in Seq(Seq(Nat)) /\ Len(ss) = N
  OBVIOUS
<1>2. CASE N = 0
  <2>1. ss = <<>> /\ [i \in 1 .. N |-> i] = <<>>
    BY <1>2
  <2>. QED BY <1>1, <1>2, <2>1 DEF FlattenSeq
<1>3. CASE N # 0
  <2>1. ASSUME NEW n \in 1 .. N
        PROVE  f[n] = IF n = 1 THEN ss[n] ELSE f[n - 1] \o ss[n]
    <3>1. CASE n = 1
      <4>1. [i \in 1 .. 1 |-> i] = <<1>>
        OBVIOUS
      <4>. QED BY <3>1, <4>1
    <3>2. CASE n # 1
      <4>1. n - 1 \in 1 .. N /\ f[n - 1] = [i \in 1 .. n - 1 |-> i] /\ ss[n] = <<n>>
        BY <3>2
      <4>2. [i \in 1 .. n - 1 |-> i] \o <<n>> = [i \in 1 .. n |-> i]
        <5>1. PICK a \in Seq(Nat) : a = [i \in 1 .. n - 1 |-> i]
          <6>1. [i \in 1 .. n - 1 |-> i] \in [1 .. n - 1 -> Nat] /\ n - 1 \in Nat
            OBVIOUS
          <6>. QED BY <6>1, ListOf
        <5>2. Len(a) = n - 1 /\ \A i \in 1 .. n - 1 : a[i] = i
          BY <5>1
        <5>3. PICK c \in Seq(Nat) : c = a \o <<n>>
          <6>1. <<n>> \in Seq(Nat)
            OBVIOUS
          <6>2. a \o <<n>> \in Seq(Nat)
            BY <6>1
          <6>. QED BY <6>2
        <5>4. Len(c) = n /\ \A i \in 1 .. n : c[i] = i
          BY <5>2, <5>3
        <5>5. c = [i \in 1 .. n |-> i]
          BY <5>4
        <5>. QED BY <5>1, <5>3, <5>5
      <4>. QED BY <3>2, <4>1, <4>2
    <3>. QED BY <3>1, <3>2
  <2>2. Upto(N, f)
    <3>. HIDE DEF f
    <3>1. f = [n \in 1 .. N |-> f[n]]
      BY DEF f
    <3>. QED BY <2>1, <3>1
  <2>3. Upto(N, flatten)
    <3>. HIDE DEF Upto, f
    <3>. QED BY <2>2
  <2>4. \A n \in 1 .. N : flatten[n] = IF n = 1 THEN ss[n] ELSE flatten[n - 1] \o ss[n]
    BY <2>3
  <2>. HIDE DEF flatten, f
  <2>5. \A n \in 1 .. N : flatten[n] = f[n]
    <3>. DEFINE T == {n \in 1 .. N : flatten[n] # f[n]}
    <3>1. ASSUME T # {} PROVE FALSE
      <4>1. T \subseteq Nat
        OBVIOUS
      <4>2. PICK n \in T : \A m \in T : n <= m
        BY <3>1, <4>1, SomeLeast
      <4>3. n # 1 => n - 1 \in 1 .. N /\ n - 1 \notin T
        BY <4>2
      <4>4. n # 1 => flatten[n - 1] = f[n - 1]
        BY <4>3
      <4>. QED BY <2>1, <2>4, <4>2, <4>4
    <3>. QED BY <3>1
  <2>6. FlattenSeq(ss) = flatten[N]
    BY <1>1, <1>3 DEF FlattenSeq, flatten
  <2>. QED BY <1>3, <2>5, <2>6 DEF f
<1>. QED BY <1>2, <1>3

AllRespond == \A i \in 1 .. NumExamples : response[i] = "text"

LEMMA PromptedAll ==
  ASSUME EvalConstants, AllRespond
  PROVE  /\ Prompted = [i \in 1 .. NumExamples |-> i]
         /\ DOMAIN Prompted = 1 .. NumExamples
<1>. DEFINE all == [i \in Examples |-> i]
            text == {i \in Examples : response[i] = "text"}
<1>1. [i \in DOMAIN all |-> IF i \in text THEN <<all[i]>> ELSE <<>>]
        = [i \in 1 .. NumExamples |-> <<i>>]
  BY DEF AllRespond, Examples
<1>2. PICK ss : ss = [i \in 1 .. NumExamples |-> <<i>>]
  OBVIOUS
<1>3. FlattenSeq(ss) = [i \in 1 .. NumExamples |-> i]
  BY <1>2, FlattenedSingles DEF EvalConstants
<1>4. Prompted = Those(all, text)
  BY DEF Prompted
<1>. HIDE DEF all, text
<1>5. Those(all, text) = FlattenSeq(ss)
  BY <1>1, <1>2 DEF Those
<1>6. Prompted = [i \in 1 .. NumExamples |-> i]
  BY <1>3, <1>4, <1>5
<1>. QED BY <1>6

\* The judgements of a run in its first m dimensions, and none beyond.
FilledTo(t, m, r) ==
  \A i \in 1 .. NumExamples :
    /\ t[i] = [n \in 1 .. 3 |-> t[i][n]]
    /\ \A n \in 1 .. 3 :
         IF n <= m
           THEN t[i][n] # None /\ t[i][n].example = i /\ t[i][n].dimension = n /\ t[i][n].run = r
           ELSE t[i][n] = None

\* What is on file is a whole number of dimensions of one run; what the process has in
\* memory is complete up to the dimension it is at, and was saved up to the one before.
SavedInv ==
  IF saved.state = "whole"
    THEN \E m \in 1 .. 3 : \E r \in 1 .. run : FilledTo(saved.total, m, r)
    ELSE saved.total = Blank

WorkInv ==
  /\ evalPc \in {"calling", "parsing", "raised", "saving", "writing"} => run >= 1
  /\ evalPc \in {"calling", "parsing", "raised"} =>
       /\ FilledTo(total, dimension - 1, run)
       /\ dimension > 1 => saved.state = "whole" /\ saved.total = total
  /\ evalPc \in {"saving", "writing"} => FilledTo(total, dimension, run)
  /\ evalPc = "parsing" =>
       /\ DOMAIN results = 1 .. NumExamples /\ Len(results) = NumExamples
       /\ \A i \in 1 .. NumExamples : results[i] # None =>
            results[i].example = i /\ results[i].dimension = dimension /\ results[i].run = run

ScoresInv == AllRespond /\ run \in Nat /\ dimension \in 1 .. 3 /\ SavedInv /\ WorkInv

LEMMA ThreeDimensions == DOMAIN EvalDimensions = 1 .. 3 /\ Len(EvalDimensions) = 3
BY DEF EvalDimensions

LEMMA BlankFilled == ASSUME NEW r PROVE FilledTo(Blank, 0, r)
BY ThreeDimensions DEF FilledTo, Blank, Examples

LEMMA InitScores ==
  ASSUME EvalConstants, ScoresInit PROVE ScoresInv
<1>1. AllRespond
  BY DEF AllRespond, EvalConstants, ScoresInit, Examples
<1>2. SavedInv
  BY DEF ScoresInit, SavedInv
<1>3. WorkInv /\ run \in Nat /\ dimension \in 1 .. 3
  BY DEF ScoresInit, WorkInv
<1>. QED BY <1>1, <1>2, <1>3 DEF ScoresInv

LEMMA SameFile ==
  ASSUME ScoresInv, UNCHANGED <<response, saved, run>>
  PROVE  AllRespond' /\ SavedInv'
<1>1. response' = response /\ saved' = saved /\ run' = run /\ Blank' = Blank
  BY DEF Blank
<1>2. AllRespond'
  BY <1>1 DEF ScoresInv, AllRespond
<1>3. SavedInv'
  BY <1>1 DEF ScoresInv, SavedInv
<1>. QED BY <1>2, <1>3

LEMMA StartScores ==
  ASSUME EvalConstants, ScoresInv, Start PROVE ScoresInv'
<1>1. /\ response' = response /\ saved' = saved /\ run' = run + 1 /\ run \in Nat
      /\ evalPc' = "calling" /\ dimension' = 1 /\ total' = Blank
  BY DEF Start, ScoresInv
<1>2. AllRespond'
  BY <1>1 DEF ScoresInv, AllRespond
<1>3. SavedInv'
  <2>1. CASE saved.state = "whole"
    <3>1. PICK m \in 1 .. 3 : \E r \in 1 .. run : FilledTo(saved.total, m, r)
      BY <2>1 DEF ScoresInv, SavedInv
    <3>2. PICK r \in 1 .. run : FilledTo(saved.total, m, r)
      BY <3>1
    <3>3. r \in 1 .. run'
      BY <1>1
    <3>. QED BY <1>1, <2>1, <3>2, <3>3 DEF SavedInv
  <2>2. CASE saved.state # "whole"
    BY <1>1, <2>2 DEF ScoresInv, SavedInv, Blank
  <2>. QED BY <2>1, <2>2
<1>4. WorkInv'
  <2>1. FilledTo(total', 0, run')
    BY <1>1, BlankFilled
  <2>2. dimension' - 1 = 0 /\ ~(dimension' > 1) /\ run' >= 1
    BY <1>1
  <2>3. FilledTo(total', dimension' - 1, run')
    BY <2>1, <2>2
  <2>. QED BY <1>1, <2>2, <2>3 DEF WorkInv, FilledTo
<1>. QED BY <1>1, <1>2, <1>3, <1>4 DEF ScoresInv

LEMMA CallScores ==
  ASSUME EvalConstants, ScoresInv, CallJudge PROVE ScoresInv'
<1>1. /\ response' = response /\ saved' = saved /\ run' = run /\ dimension' = dimension /\ total' = total
      /\ evalPc = "calling" /\ evalPc' = "parsing"
  BY DEF CallJudge
<1>2. AllRespond' /\ SavedInv' /\ AllRespond
  BY <1>1, SameFile DEF ScoresInv
<1>3. PICK p : p = Prompted
  OBVIOUS
<1>4. p = [i \in 1 .. NumExamples |-> i] /\ DOMAIN p = 1 .. NumExamples
  BY <1>2, <1>3, PromptedAll
<1>5. PICK texts : results' = [k \in DOMAIN p |->
               IF texts[k] = "none" THEN None ELSE Judgement(p[k], dimension, texts[k])]
  BY <1>3 DEF CallJudge
<1>6. /\ DOMAIN results' = 1 .. NumExamples
      /\ \A i \in 1 .. NumExamples : results'[i] # None =>
           results'[i].example = i /\ results'[i].dimension = dimension /\ results'[i].run = run
  BY <1>4, <1>5 DEF Judgement
<1>7. Len(results') = NumExamples
  <2>. DEFINE S == {results'[k] : k \in 1 .. NumExamples}
  <2>1. results' \in [1 .. NumExamples -> S]
    BY <1>4, <1>5, <1>6
  <2>. QED BY <2>1, ListOf DEF EvalConstants
<1>8. WorkInv'
  <2>1. FilledTo(total, dimension - 1, run) /\ run >= 1
        /\ (dimension > 1 => saved.state = "whole" /\ saved.total = total)
    BY <1>1 DEF ScoresInv, WorkInv
  <2>. QED BY <1>1, <1>6, <1>7, <2>1 DEF WorkInv, FilledTo
<1>. QED BY <1>1, <1>2, <1>8 DEF ScoresInv

LEMMA RecordScores ==
  ASSUME EvalConstants, ScoresInv, Record PROVE ScoresInv'
<1>1. /\ response' = response /\ saved' = saved /\ run' = run /\ dimension' = dimension
      /\ evalPc = "parsing" /\ evalPc' = "saving" /\ total' = Recorded
      /\ \A k \in DOMAIN results : results[k] # None
  BY DEF Record, Parses
<1>2. AllRespond' /\ SavedInv'
  BY <1>1, SameFile
<1>3. /\ FilledTo(total, dimension - 1, run) /\ run >= 1
      /\ DOMAIN results = 1 .. NumExamples /\ Len(results) = NumExamples
      /\ \A i \in 1 .. NumExamples : results[i] # None =>
           results[i].example = i /\ results[i].dimension = dimension /\ results[i].run = run
  BY <1>1 DEF ScoresInv, WorkInv
<1>4. dimension \in 1 .. 3 /\ NumExamples \in Nat
  BY DEF ScoresInv, EvalConstants
<1>5. \A i \in 1 .. NumExamples : total'[i] = [total[i] EXCEPT ![dimension] = results[i]]
  BY <1>1, <1>3, <1>4 DEF Recorded, Examples
<1>6. FilledTo(total', dimension, run)
  <2>. SUFFICES ASSUME NEW i \in 1 .. NumExamples
                PROVE  /\ total'[i] = [n \in 1 .. 3 |-> total'[i][n]]
                       /\ \A n \in 1 .. 3 :
                            IF n <= dimension
                              THEN /\ total'[i][n] # None /\ total'[i][n].example = i
                                   /\ total'[i][n].dimension = n /\ total'[i][n].run = run
                              ELSE total'[i][n] = None
    BY DEF FilledTo
  <2>1. PICK t : t = total[i]
    OBVIOUS
  <2>2. PICK u : u = total'[i]
    OBVIOUS
  <2>3. /\ t = [n \in 1 .. 3 |-> t[n]]
        /\ \A n \in 1 .. 3 :
             IF n <= dimension - 1
               THEN t[n] # None /\ t[n].example = i /\ t[n].dimension = n /\ t[n].run = run
               ELSE t[n] = None
    BY <1>3, <2>1 DEF FilledTo
  <2>4. u = [t EXCEPT ![dimension] = results[i]]
    BY <1>5, <2>1, <2>2
  <2>5. DOMAIN t = 1 .. 3
    BY <2>3
  <2>6. DOMAIN u = 1 .. 3 /\ u = [n \in 1 .. 3 |-> u[n]]
    BY <2>4, <2>5
  <2>7. u[dimension] = results[i] /\ \A n \in 1 .. 3 : n # dimension => u[n] = t[n]
    BY <1>4, <2>4, <2>5
  <2>8. /\ results[i] # None /\ results[i].example = i /\ results[i].dimension = dimension
        /\ results[i].run = run
    BY <1>1, <1>3
  <2>9. ASSUME NEW n \in 1 .. 3
        PROVE  IF n <= dimension
                 THEN u[n] # None /\ u[n].example = i /\ u[n].dimension = n /\ u[n].run = run
                 ELSE u[n] = None
    <3>1. CASE n = dimension
      BY <1>4, <2>7, <2>8, <3>1
    <3>2. CASE n # dimension
      <4>1. u[n] = t[n] /\ (n <= dimension <=> n <= dimension - 1)
        BY <1>4, <2>7, <3>2
      <4>. QED BY <2>3, <4>1
    <3>. QED BY <3>1, <3>2
  <2>. QED BY <2>2, <2>6, <2>9
<1>7. WorkInv'
  BY <1>1, <1>3, <1>6 DEF WorkInv, FilledTo
<1>. QED BY <1>1, <1>2, <1>4, <1>7 DEF ScoresInv

LEMMA RaiseScores ==
  ASSUME ScoresInv, RaiseUnparsed PROVE ScoresInv'
<1>1. /\ response' = response /\ saved' = saved /\ run' = run /\ dimension' = dimension /\ total' = total
      /\ evalPc = "parsing" /\ evalPc' = "raised"
  BY DEF RaiseUnparsed
<1>2. AllRespond' /\ SavedInv'
  BY <1>1, SameFile
<1>3. WorkInv'
  BY <1>1 DEF ScoresInv, WorkInv, FilledTo
<1>. QED BY <1>1, <1>2, <1>3 DEF ScoresInv

LEMMA OpenScores ==
  ASSUME ScoresInv, OpenSave PROVE ScoresInv'
<1>1. /\ response' = response /\ run' = run /\ dimension' = dimension /\ total' = total
      /\ saved'.state = "torn" /\ saved'.total = Blank
      /\ evalPc = "saving" /\ evalPc' = "writing"
  BY DEF OpenSave
<1>2. AllRespond'
  BY <1>1 DEF ScoresInv, AllRespond
<1>3. SavedInv'
  BY <1>1 DEF SavedInv, Blank
<1>4. WorkInv'
  BY <1>1 DEF ScoresInv, WorkInv, FilledTo
<1>. QED BY <1>1, <1>2, <1>3, <1>4 DEF ScoresInv

LEMMA WriteScores ==
  ASSUME ScoresInv, WriteSave PROVE ScoresInv'
<1>1. /\ response' = response /\ run' = run /\ total' = total
      /\ saved'.state = "whole" /\ saved'.total = total
      /\ evalPc = "writing"
      /\ \/ evalPc' = "done" /\ dimension' = dimension
         \/ evalPc' = "calling" /\ dimension' = dimension + 1 /\ dimension # 3
  BY ThreeDimensions DEF WriteSave
<1>2. FilledTo(total, dimension, run) /\ run \in Nat /\ run >= 1 /\ dimension \in 1 .. 3
  BY <1>1 DEF ScoresInv, WorkInv
<1>3. AllRespond' /\ dimension' \in 1 .. 3
  BY <1>1, <1>2 DEF ScoresInv, AllRespond
<1>4. SavedInv'
  <2>1. run \in 1 .. run
    BY <1>2
  <2>2. FilledTo(saved'.total, dimension, run)
    BY <1>1, <1>2
  <2>. QED BY <1>1, <1>2, <2>1, <2>2 DEF SavedInv
<1>5. WorkInv'
  <2>1. CASE evalPc' = "done"
    BY <2>1 DEF WorkInv
  <2>2. CASE evalPc' = "calling" /\ dimension' = dimension + 1
    <3>1. dimension' - 1 = dimension
      BY <1>2, <2>2
    <3>2. FilledTo(total', dimension' - 1, run')
      BY <1>1, <1>2, <3>1
    <3>. QED BY <1>1, <1>2, <2>2, <3>2 DEF WorkInv
  <2>. QED BY <1>1, <2>1, <2>2
<1>. QED BY <1>1, <1>2, <1>3, <1>4, <1>5 DEF ScoresInv

LEMMA CrashScores ==
  ASSUME ScoresInv, Crash PROVE ScoresInv'
<1>1. response' = response /\ saved' = saved /\ run' = run /\ dimension' = 1 /\ evalPc' = "crashed"
  BY DEF Crash
<1>2. AllRespond' /\ SavedInv'
  BY <1>1, SameFile
<1>3. WorkInv'
  BY <1>1 DEF WorkInv
<1>. QED BY <1>1, <1>2, <1>3 DEF ScoresInv

LEMMA NextScores == EvalConstants /\ ScoresInv /\ [ScoresNext]_scoresVars => ScoresInv'
<1>. SUFFICES ASSUME EvalConstants, ScoresInv, [ScoresNext]_scoresVars PROVE ScoresInv'
  OBVIOUS
<1>1. CASE UNCHANGED scoresVars
  <2>1. /\ response' = response /\ saved' = saved /\ run' = run /\ dimension' = dimension /\ total' = total
        /\ evalPc' = evalPc /\ results' = results
    BY <1>1 DEF scoresVars
  <2>2. AllRespond' /\ SavedInv'
    BY <2>1, SameFile
  <2>3. WorkInv'
    BY <2>1 DEF ScoresInv, WorkInv, FilledTo
  <2>. QED BY <2>1, <2>2, <2>3 DEF ScoresInv
<1>. QED BY <1>1, StartScores, CallScores, RecordScores, RaiseScores, OpenScores, WriteScores,
            CrashScores DEF ScoresNext

LEMMA ScoresInPlace ==
  ASSUME EvalConstants, ScoresInv
  PROVE  ScoresBelong /\ SavedInStep
<1>1. ScoresBelong
  <2>1. CASE saved.state = "whole"
    <3>1. PICK m \in 1 .. 3 : \E r \in 1 .. run : FilledTo(saved.total, m, r)
      BY <2>1 DEF ScoresInv, SavedInv
    <3>. QED BY <3>1, ThreeDimensions DEF FilledTo, ScoresBelong, Examples
  <2>2. CASE saved.state # "whole"
    <3>1. saved.total = Blank
      BY <2>2 DEF ScoresInv, SavedInv
    <3>2. \A i \in Examples : \A n \in DOMAIN EvalDimensions : saved.total[i][n] = None
      BY <3>1, ThreeDimensions DEF Blank
    <3>. QED BY <3>2 DEF ScoresBelong
  <2>. QED BY <2>1, <2>2
<1>2. ASSUME saved.state = "whole"
      PROVE  \E m \in DOMAIN EvalDimensions, r \in 1 .. run :
               \A i \in Examples : \A n \in DOMAIN EvalDimensions :
                 IF response[i] = "text" /\ n <= m
                   THEN saved.total[i][n] # None /\ saved.total[i][n].run = r
                   ELSE saved.total[i][n] = None
  <2>1. PICK m \in 1 .. 3 : \E r \in 1 .. run : FilledTo(saved.total, m, r)
    BY <1>2 DEF ScoresInv, SavedInv
  <2>2. PICK r \in 1 .. run : FilledTo(saved.total, m, r)
    BY <2>1
  <2>3. \A i \in Examples : \A n \in DOMAIN EvalDimensions :
          IF response[i] = "text" /\ n <= m
            THEN saved.total[i][n] # None /\ saved.total[i][n].run = r
            ELSE saved.total[i][n] = None
    BY <2>2, ThreeDimensions DEF FilledTo, ScoresInv, AllRespond, Examples
  <2>. QED BY <2>3, ThreeDimensions
<1>3. evalPc = "raised" /\ dimension > 1 =>
        /\ saved.state = "whole"
        /\ \A i \in Examples : \A n \in 1 .. dimension - 1 : saved.total[i][n] = total[i][n]
  BY DEF ScoresInv, WorkInv
<1>. QED BY <1>1, <1>2, <1>3 DEF SavedInStep

LEMMA ScoresInvariance == ScoresSpec => []ScoresInv
<1>1. ScoresInit => ScoresInv
  BY InitScores, TheConstants
<1>2. ScoresInv /\ [ScoresNext]_scoresVars => ScoresInv'
  BY NextScores, TheConstants
<1>. QED BY <1>1, <1>2, PTL DEF ScoresSpec

\* If every example has a response (EvaluationAssumption), every judgement on file is
\* about the example and the dimension it stands at, whatever the judge's texts, for any
\* number of examples and runs.
THEOREM ScoresOnFile == ScoresSpec => []ScoresBelong
<1>1. ScoresInv => ScoresBelong
  BY ScoresInPlace, TheConstants
<1>. QED BY <1>1, ScoresInvariance, PTL

\* And what a run leaves on file, wherever it was stopped, are the first dimensions of
\* that run, each of them whole; a run that raises leaves those before the one it raised in.
THEOREM WholeDimensionsOnFile == ScoresSpec => []SavedInStep
<1>1. ScoresInv => SavedInStep
  BY ScoresInPlace, TheConstants
<1>. QED BY <1>1, ScoresInvariance, PTL

(***************************************************************************)
(* The refinement.  The batch call's own invariant is that what stands at  *)
(* an index, as a reply or in the list, is an answer to that prompt or     *)
(* None; with it the return of the call is the one step CallJudge, every   *)
(* other step of the call a stutter.                                       *)
(***************************************************************************)
Numbered == 0 .. NumExamples - 1

OwnAnswers ==
  /\ DOMAIN reply = Numbered /\ DOMAIN list = Numbered
  /\ \A i \in Numbered : /\ reply[i] # None => reply[i].prompt = i
                         /\ list[i] # None => list[i].prompt = i

LEMMA InitAnswers == EInit => OwnAnswers
BY DEF EInit, Call!Init, Call!CompletionInit, Call!Prompts, OwnAnswers, Numbered

LEMMA NewCall == ASSUME NoCall PROVE OwnAnswers'
BY DEF NoCall, Call!Prompts, OwnAnswers, Numbered

LEMMA CallAnswers ==
  ASSUME OwnAnswers, Call!Next PROVE OwnAnswers'
<1>1. ASSUME NEW i \in Numbered, Call!CompletionStep(i),
             UNCHANGED <<completed, list, returned>>
      PROVE  OwnAnswers'
  <2>1. CASE reply' = reply
    BY <1>1, <2>1 DEF OwnAnswers
  <2>2. ASSUME NEW text, Call!Succeed(i, text) PROVE OwnAnswers'
    <3>1. reply' = [reply EXCEPT ![i] = [prompt |-> i, text |-> text]]
      BY <2>2 DEF Call!Succeed, Call!Reply
    <3>. QED BY <1>1, <3>1 DEF OwnAnswers
  <2>. QED
    BY <1>1, <2>1, <2>2 DEF Call!CompletionStep, Call!Acquire, Call!Respond,
       Call!Sleep, Call!GiveUp, Call!Wake
<1>2. ASSUME NEW i \in Numbered, Call!Collect(i) PROVE OwnAnswers'
  <2>1. reply' = reply /\ list' = [list EXCEPT ![i] = reply[i]]
    BY <1>2 DEF Call!Collect, Call!cvars
  <2>. QED BY <2>1 DEF OwnAnswers
<1>3. CASE reply' = reply /\ list' = list
  BY <1>3 DEF OwnAnswers
<1>4. Call!Prompts = Numbered
  BY DEF Call!Prompts, Numbered
<1>. QED BY <1>1, <1>2, <1>3, <1>4 DEF Call!Next, Call!Begin, Call!Return,
       Call!cvars

LEMMA NextAnswers == OwnAnswers /\ [ENext]_allVars => OwnAnswers'
<1>. SUFFICES ASSUME OwnAnswers, [ENext]_allVars PROVE OwnAnswers'
  OBVIOUS
<1>1. CASE reply' = reply /\ list' = list
  BY <1>1 DEF OwnAnswers
<1>2. CASE Judge
  BY <1>2, CallAnswers DEF Judge
<1>3. CASE JudgeReturns \/ Killed
  BY <1>3, NewCall DEF JudgeReturns, Killed
<1>. QED BY <1>1, <1>2, <1>3 DEF ENext, Outside, allVars, callVars

\* The texts that the one step gives are what the calls answered.
LEMMA ReturnIsCall ==
  ASSUME EvalConstants, AllRespond, OwnAnswers, JudgeReturns
  PROVE  CallJudge
<1>1. PICK p : p = Prompted
  OBVIOUS
<1>2. p = [i \in 1 .. NumExamples |-> i] /\ DOMAIN p = 1 .. NumExamples
  BY <1>1, PromptedAll
<1>3. PICK texts \in [1 .. NumExamples -> Texts] :
        results' = [k \in DOMAIN p |->
                     IF list[k - 1] = None THEN None
                     ELSE Judgement(p[list[k - 1].prompt + 1], dimension, texts[k])]
  BY <1>1 DEF JudgeReturns, Examples
<1>. DEFINE given == [k \in 1 .. NumExamples |-> IF list[k - 1] = None THEN "none" ELSE texts[k]]
<1>4. given \in [DOMAIN p -> Texts \cup (IF JudgeMayFail THEN {"none"} ELSE {})]
  BY <1>2, <1>3 DEF EvalConstants
<1>5. ASSUME NEW k \in 1 .. NumExamples
      PROVE  (IF list[k - 1] = None THEN None
              ELSE Judgement(p[list[k - 1].prompt + 1], dimension, texts[k]))
             = IF given[k] = "none" THEN None ELSE Judgement(p[k], dimension, given[k])
  <2>1. k - 1 \in Numbered /\ (k - 1) + 1 = k
    BY DEF Numbered, EvalConstants
  <2>2. CASE list[k - 1] = None
    BY <2>2
  <2>3. CASE list[k - 1] # None
    <3>1. list[k - 1].prompt = k - 1
      BY <2>1, <2>3 DEF OwnAnswers
    <3>2. given[k] = texts[k] /\ texts[k] # "none"
      BY <1>3, <2>3 DEF EvalConstants
    <3>. QED BY <2>1, <2>3, <3>1, <3>2
  <2>. QED BY <2>2, <2>3
<1>6. results' = [k \in DOMAIN p |->
        IF given[k] = "none" THEN None ELSE Judgement(p[k], dimension, given[k])]
  BY <1>2, <1>3, <1>5
<1>7. /\ evalPc = "calling" /\ evalPc' = "parsing"
      /\ UNCHANGED <<response, saved, run, dimension, total>>
  BY DEF JudgeReturns
<1>. HIDE DEF given
<1>. QED BY <1>1, <1>4, <1>6, <1>7 DEF CallJudge

LEMMA EvalStep ==
  EvalConstants /\ ScoresInv /\ OwnAnswers /\ [ENext]_allVars => [ScoresNext]_scoresVars
<1>. SUFFICES ASSUME EvalConstants, ScoresInv, OwnAnswers, [ENext]_allVars
              PROVE  [ScoresNext]_scoresVars
  OBVIOUS
<1>1. CASE JudgeReturns
  BY <1>1, ReturnIsCall DEF ScoresInv, ScoresNext
<1>2. CASE Judge \/ UNCHANGED allVars
  BY <1>2 DEF Judge, allVars
<1>3. CASE Killed
  BY <1>3 DEF Killed, ScoresNext
<1>. QED BY <1>1, <1>2, <1>3 DEF ENext, Outside, ScoresNext

\* An evaluation whose calls run coroutine by coroutine, in any order and with any
\* retries, is one whose calls take one step: the safety part of ImplementsEvalScores.
THEOREM EvaluationRefines == ESpec => ScoresSpec
<1>1. EInit => ScoresInit /\ ScoresInv /\ OwnAnswers
  BY InitScores, InitAnswers, TheConstants DEF EInit
<1>2. ScoresInv /\ OwnAnswers /\ [ENext]_allVars =>
        ScoresInv' /\ OwnAnswers' /\ [ScoresNext]_scoresVars
  BY EvalStep, NextScores, NextAnswers, TheConstants
<1>. QED BY <1>1, <1>2, PTL DEF ESpec, ScoresSpec
================================================================================
