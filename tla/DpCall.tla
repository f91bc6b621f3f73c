------------------------------- MODULE DpCall --------------------------------
(******************************************************************************)
(* What becomes of a batch between the driver and its workers.  A training     *)
(* step (trainer/ppo/ray_trainer.py) orders the batch so that every data       *)
(* parallel rank gets the same work, sends each rank its chunk to compute log  *)
(* probabilities, joins what comes back to the batch by position, and sends    *)
(* the chunks again to update the actor.  The ranks cut their chunks into      *)
(* mini- and micro-batches on their own, but every forward pass and every      *)
(* optimizer step is one of all of them, for each holds a shard of the model.  *)
(* Validation pads its batch instead, for agent loop workers that are          *)
(* independent of each other.                                                  *)
(*                                                                             *)
(* A row is a number, its place in the batch before anything is reordered, and *)
(* the result computed for a row is the row: a result in another's place       *)
(* shows.  Mini-batches are taken in order (data.shuffle of the actor is off). *)
(******************************************************************************)
EXTENDS SeqlenBalancing, FiniteSets

CONSTANTS NumRows,        \* rows of a training batch
          Lengths,        \* how long a row may be, in tokens
          GroupSize,      \* rollout.n: rows of the same uid
          DpSize, SpSize, \* the device mesh: data by sequence parallel
          MaxTokenLen,    \* max_token_len_per_gpu
          MiniSize,       \* ppo_mini_batch_size of a rank
          MicroSize,      \* micro-batch size of an update without dynamic_bsz
          LogProbSize,    \* and of a log probability
          NumWorkers,     \* agent loop workers
          MaxValRows      \* bound: rows of a validation batch

\* The engine workers check that a rank's rows divide evenly into mini-batches; the legacy
\* ones do not, and would train on a smaller last one, which is left out.
ASSUME SizesAssumption ==
  /\ {NumRows, GroupSize, DpSize, SpSize, MaxTokenLen, MiniSize, MicroSize,
      LogProbSize, NumWorkers, MaxValRows} \subseteq Nat \ {0}
  /\ Lengths \subseteq 1 .. MaxTokenLen * SpSize
  /\ NumRows % (DpSize * GroupSize) = 0
  /\ (NumRows \div DpSize) % MiniSize = 0 /\ MiniSize % MicroSize = 0

VARIABLES mode,      \* how the ranks make micro-batches, or "validate"
          grouped,   \* use_prefix_grouper
          lens,      \* the length of each row
          batch,     \* the driver's batch, a sequence of rows
          call,      \* what the driver is at
          result,    \* what the last call returned
          worker     \* each worker's part of the call
vars == <<mode, grouped, lens, batch, call, result, worker>>
config == <<mode, grouped, lens>>

\* "engine": the engine workers, whose data parallel group agrees on a number of
\* micro-batches. "legacy": the FSDP workers with use_dynamic_bsz, and "fixed": without.
Modes == {"engine", "legacy", "fixed"}
Train == mode # "validate"

Ranks == 0 .. DpSize * SpSize - 1
Workers == IF Train THEN Ranks ELSE 0 .. NumWorkers - 1

\* The place of a rank in the mesh ("dp", "sp"); an agent loop worker is its own.
DpRank(w) == IF Train THEN w \div SpSize ELSE w
Collects(w) == Train => w % SpSize = 0

DpGroup(r) == {q \in Ranks : q % SpSize = r % SpSize}

Idle == [at |-> "idle", todo |-> <<>>, idx |-> <<>>, micro |-> <<>>, out |-> <<>>]

LensOf(rows) == [i \in DOMAIN rows |-> lens[rows[i]]]
At(w) == worker[w].at

Init ==
  /\ \/ /\ mode \in Modes /\ grouped \in BOOLEAN
        /\ lens \in [1 .. NumRows -> Lengths]
        /\ batch = [i \in 1 .. NumRows |-> i]
        /\ call = "balance"
     \/ /\ mode = "validate" /\ grouped = FALSE
        /\ \E n \in 1 .. MaxValRows :
             /\ lens = [i \in 1 .. n |-> Min(Lengths)]
             /\ batch = [i \in 1 .. n |-> i]
        /\ call = "pad"
  /\ result = <<>>
  /\ worker = [w \in Workers |-> Idle]

--------------------------------------------------------------------------------
(* The driver                                                                  *)

\* _balance_batch: partitions of equal size, in each the small rows at both ends;
\* with prefix_grouper whole groups of a uid, in their order.
Balanced ==
  LET uids  == [i \in DOMAIN batch |-> (i - 1) \div GroupSize]
      w     == Workloads(LensOf(batch))
      parts == IF grouped THEN GroupPartitions(LensOf(batch), uids, DpSize)
               ELSE LET equal == BalancedPartitions(w, DpSize, TRUE)
                        Ordered(d) == SortBy(equal[d], [i \in DOMAIN equal[d] |-> w[equal[d][i]]])
                    IN  [d \in 1 .. DpSize |-> Evens(Ordered(d)) \o Reverse(Odds(Ordered(d)))]
      idx   == FlattenSeq(parts)
  IN  [i \in DOMAIN batch |-> batch[idx[i]]]

Balance ==
  /\ call = "balance"
  /\ batch' = Balanced /\ call' = "log_prob"
  /\ UNCHANGED <<config, result, worker>>

\* pad_dataproto_to_divisor: the rows again from the first, as often as it takes.
Padded ==
  LET n == Len(batch)
  IN  [i \in 1 .. NumWorkers * CeilDiv(n, NumWorkers) |-> batch[((i - 1) % n) + 1]]

Pad ==
  /\ call = "pad"
  /\ batch' = Padded /\ call' = "generate"
  /\ UNCHANGED <<config, result, worker>>

\* chunk and dispatch: a worker gets the chunk of its data parallel rank. An update is
\* cut into mini-batches there.
Chunk(w) ==
  LET dps == {DpRank(v) : v \in Workers}
  IN  Slices(batch, Len(batch) \div Cardinality(dps))[DpRank(w) + 1]

Dispatch ==
  /\ call \in {"log_prob", "update", "generate"}
  /\ \A w \in Workers : At(w) = "idle"
  /\ worker' = [w \in Workers |->
       [Idle EXCEPT !.at = "split",
                    !.todo = Slices(Chunk(w), IF call = "update" THEN MiniSize ELSE Len(Chunk(w)))]]
  /\ UNCHANGED <<config, batch, call, result>>

\* collect and concat, in the order of the ranks.
Collected ==
  FlattenSeq([i \in 1 .. Cardinality(Workers) |->
                IF Collects(i - 1) THEN worker[i - 1].out ELSE <<>>])

\* A call returns when every worker has. The log probabilities join the batch by
\* position; validation drops the padding.
Collect ==
  /\ \A w \in Workers : At(w) = "sent"
  /\ \/ call = "log_prob" /\ result' = Collected /\ call' = "update"
     \/ call = "update" /\ call' = "done" /\ UNCHANGED result
     \/ call = "generate" /\ result' = SubSeq(Collected, 1, Len(lens)) /\ call' = "done"
  /\ worker' = IF call = "log_prob" THEN [w \in Workers |-> Idle] ELSE worker
  /\ UNCHANGED <<config, batch>>

--------------------------------------------------------------------------------
(* The workers                                                                 *)

\* The rows of a mini-batch in micro-batches, as positions in it.
MicroIdx(mini, count) ==
  IF mode = "fixed"
    THEN Slices([i \in DOMAIN mini |-> i], IF call = "update" THEN MicroSize ELSE LogProbSize)
    ELSE MicroBatches(LensOf(mini), count)

CountOf(w) == NumMicroBatches(LensOf(Head(worker[w].todo)), MaxTokenLen * SpSize)

\* A worker with its mini-batch in count micro-batches.
Split(w, count) ==
  LET mini == Head(worker[w].todo)
      idx  == MicroIdx(mini, count)
  IN  [worker[w] EXCEPT !.at = "forward", !.idx = idx,
         !.micro = [i \in DOMAIN idx |-> [j \in DOMAIN idx[i] |-> mini[idx[i][j]]]]]

\* The worker starts on a mini-batch; an engine worker proposes its number of micro-batches.
Begin(w) ==
  /\ call \in {"log_prob", "update"} /\ At(w) = "split"
  /\ worker' = [worker EXCEPT ![w] = IF mode = "engine" THEN [@ EXCEPT !.at = "reduce"]
                                     ELSE Split(w, CountOf(w))]
  /\ UNCHANGED <<config, batch, call, result>>

\* Faulty: everyone takes its own number.
ReduceToOwn(r) ==
  /\ \A q \in DpGroup(r) : At(q) = "reduce"
  /\ worker' = [q \in Workers |-> IF q \in DpGroup(r) THEN Split(q, CountOf(q)) ELSE worker[q]]
  /\ UNCHANGED <<config, batch, call, result>>

\* all_reduce(MAX) over the data parallel group of r.
Reduce(r) ==
  /\ \A q \in DpGroup(r) : At(q) = "reduce"
  /\ LET most == Max({CountOf(q) : q \in DpGroup(r)})
     IN  worker' = [q \in Workers |-> IF q \in DpGroup(r) THEN Split(q, most) ELSE worker[q]]
  /\ UNCHANGED <<config, batch, call, result>>

\* The ranks of a sequence parallel group share the tokens of one micro-batch.
PeersAgree ==
  \A r, q \in Ranks : r \div SpSize = q \div SpSize => Head(worker[r].micro) = Head(worker[q].micro)

\* A forward pass (and backward, in an update): the ranks gather each other's shards.
Forward ==
  /\ Train /\ \A r \in Ranks : At(r) = "forward" /\ worker[r].micro # <<>>
  /\ PeersAgree
  /\ worker' = [r \in Ranks |-> [worker[r] EXCEPT !.micro = Tail(@), !.out = @ \o Head(worker[r].micro)]]
  /\ UNCHANGED <<config, batch, call, result>>

\* The gradients are clipped by their global norm and the optimizer makes a step.
OptimizerStep ==
  /\ call = "update" /\ \A r \in Ranks : At(r) = "forward" /\ worker[r].micro = <<>>
  /\ worker' = [r \in Ranks |->
       [worker[r] EXCEPT !.at = IF Len(worker[r].todo) = 1 THEN "sent" ELSE "split",
                         !.todo = Tail(@)]]
  /\ UNCHANGED <<config, batch, call, result>>

\* compute_log_prob has all its outputs and puts them into the order of its rows.
Finish(r) ==
  /\ call = "log_prob" /\ At(r) = "forward" /\ worker[r].micro = <<>>
  /\ worker' = [worker EXCEPT ![r] =
       [worker[r] EXCEPT !.at = "sent", !.out = IF mode = "fixed" THEN @ ELSE Restore(@, worker[r].idx)]]
  /\ UNCHANGED <<config, batch, call, result>>

\* An agent loop worker gathers its responses in order.
Generate(w) ==
  /\ call = "generate" /\ At(w) = "split"
  /\ worker' = [worker EXCEPT ![w] = [@ EXCEPT !.at = "sent", !.out = Head(worker[w].todo)]]
  /\ UNCHANGED <<config, batch, call, result>>

\* A rank waits in a forward pass for one that has no more, and after nccl_timeout the
\* group is torn down; or peers come with different tokens.
TimedOut ==
  /\ call \in {"log_prob", "update"}
  /\ \/ /\ \E r \in Ranks : At(r) = "forward" /\ worker[r].micro # <<>>
        /\ \E q \in Ranks : At(q) \in {"forward", "sent"} /\ worker[q].micro = <<>>
     \/ (\A r \in Ranks : At(r) = "forward" /\ worker[r].micro # <<>>) /\ ~PeersAgree
  /\ call' = "failed"
  /\ UNCHANGED <<config, batch, result, worker>>

--------------------------------------------------------------------------------
Ended == call \in {"done", "failed"} /\ UNCHANGED vars

Next ==
  \/ Balance \/ Pad \/ Dispatch \/ Collect
  \/ \E w \in Workers : Begin(w) \/ Generate(w)
  \/ \E r \in Ranks : Train /\ (Reduce(r) \/ Finish(r))
  \/ Forward \/ OptimizerStep \/ TimedOut
  \/ Ended

Spec == Init /\ [][Next]_vars

--------------------------------------------------------------------------------
\* What a call returns for a row stands where the row is in the batch, whatever order
\* chunks, micro-batches, replicas and padding brought it through; and an update trains
\* each row once on each rank of the group it was sent to.
RowsReturn ==
  /\ Train /\ call \in {"update", "done"} => result = batch
  /\ ~Train /\ call = "done" => result = [i \in DOMAIN lens |-> i]
  /\ Train /\ call = "done" =>
       \A row \in 1 .. NumRows :
         LET computed == [r \in Ranks |-> Cardinality({i \in DOMAIN worker[r].out : worker[r].out[i] = row})]
         IN  \E d \in 0 .. DpSize - 1 :
               \A r \in Ranks : computed[r] = IF DpRank(r) = d THEN 1 ELSE 0

\* No two of some lists of rows differ in their work by more than gap.
Apart(lists, gap) ==
  \A p, q \in lists : SumOf(Workloads(lens), p) - SumOf(Workloads(lens), q) <= gap

\* The work is shared out evenly wherever it is shared: the ranks' chunks differ by no
\* more than two rows do, or two groups where those of a uid must stay together; and the
\* micro-batches of a rank, none of which is empty, by no more than one row's work.
PartitionsFair ==
  Train =>
    LET w == Workloads(lens)
        largest  == Max(Range(w))
        smallest == Min(Range(w))
        Uid(row) == (row - 1) \div GroupSize
        chunks   == {Chunk(r) : r \in Ranks}
        micros(r) == {[j \in DOMAIN p |-> Head(worker[r].todo)[p[j]]] : p \in Range(worker[r].idx)}
    IN  /\ call # "balance" =>
             /\ Apart(chunks, (largest - smallest) * (IF grouped THEN GroupSize ELSE 1))
             /\ grouped => \A c, d \in chunks : c # d =>
                  {Uid(c[i]) : i \in DOMAIN c} \cap {Uid(d[i]) : i \in DOMAIN d} = {}
        /\ mode # "fixed" => \A r \in Ranks : At(r) = "forward" =>
             /\ \A p \in micros(r) : p # <<>>
             /\ Apart(micros(r), largest)

\* No rank is left waiting in a pass of all: ranks always have passes to make together
\* and peers the same rows, but for legacy workers with dynamic batches that found
\* different numbers of micro-batches for their chunks.  With no deadlock, and nothing
\* to do for ever, every step and every validation ends.
CallsMeet ==
  call = "failed" =>
    mode = "legacy" /\ \E r, q \in Ranks : Len(worker[r].idx) # Len(worker[q].idx)
================================================================================
