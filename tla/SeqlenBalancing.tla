--------------------------- MODULE SeqlenBalancing ---------------------------
(******************************************************************************)
(* How rows are shared out by their length (utils/seqlen_balancing.py): over   *)
(* ranks, and within a rank over micro-batches, and how results computed in    *)
(* that order find back to their rows.  Rows are numbered from 1; a list of    *)
(* lengths or workloads is a sequence over the rows, a partition a sequence of *)
(* sequences of rows.                                                          *)
(******************************************************************************)
EXTENDS Integers, FiniteSets, Lists

\* The list itself, as a value that TLC computes once.
Listed(list) == SubSeq(list, 1, Len(list))

\* Op(v), for which TLC computes v once, however often Op uses it.
With(v, Op(_)) == CHOOSE r \in {Op(x) : x \in {v}} : TRUE

\* calculate_workload
Workload(l) == 24576 * l + l * l
Workloads(lens) == Listed([i \in DOMAIN lens |-> Workload(lens[i])])

\* The sum of the values f of some rows.
SumOf(f, rows) ==
  LET sum[n \in 0 .. Len(rows)] == IF n = 0 THEN 0 ELSE sum[n - 1] + f[rows[n]]
  IN  sum[Len(rows)]

Pairs(list) == (DOMAIN list) \X (DOMAIN list)

\* sorted, which is stable: "before" has the pairs of positions in a list whose first must
\* come first.  What stands at position n is what has n - 1 ahead of it.
Sort(list, before) ==
  LET Ahead(i) == Cardinality({j \in DOMAIN list :
                     <<j, i>> \in before \/ (<<i, j>> \notin before /\ j < i)})
  IN  With(Listed([i \in DOMAIN list |-> Ahead(i)]), LAMBDA ahead :
        Listed([n \in DOMAIN list |-> list[CHOOSE i \in DOMAIN list : ahead[i] = n - 1]]))

\* ... by a key for each position.
SortBy(list, key) == Sort(list, {p \in Pairs(list) : key[p[1]] < key[p[2]]})

CeilDiv(a, b) == (a + b - 1) \div b

\* The slices seq[::2] and seq[1::2].
Evens(seq) == [i \in 1 .. CeilDiv(Len(seq), 2) |-> seq[2 * i - 1]]
Odds(seq) == [i \in 1 .. Len(seq) \div 2 |-> seq[2 * i]]

\* seq cut into pieces of n, the last one perhaps shorter.
Slices(seq, n) ==
  [i \in 1 .. CeilDiv(Len(seq), n) |->
     SubSeq(seq, n * (i - 1) + 1, IF n * i < Len(seq) THEN n * i ELSE Len(seq))]

--------------------------------------------------------------------------------
(* The differencing method. A set has rows and their sum; a state is k sets,   *)
(* the largest first.                                                          *)

Sets(f, rows, k) ==
  [j \in 1 .. k |-> IF j <= Len(rows) THEN [sum |-> f[rows[j]], items |-> <<rows[j]>>]
                                      ELSE [sum |-> 0, items |-> <<>>]]

\* Set.__lt__, turned round: items are compared by their first row, which no two
\* sets share.
Larger(a, b) ==
  \/ a.sum > b.sum
  \/ a.sum = b.sum /\ Len(a.items) > Len(b.items)
  \/ /\ a.sum = b.sum /\ Len(a.items) = Len(b.items) /\ a.items # <<>>
     /\ Head(a.items) > Head(b.items)

Descending(sets) ==
  With(Listed(sets), LAMBDA list :
    Sort(list, {p \in Pairs(list) : Larger(list[p[1]], list[p[2]])}))

Spread(state) == Head(state).sum - Last(state).sum

\* State.__lt__: what the heap gives first.
Wider(s, t) ==
  \/ Spread(s) > Spread(t)
  \/ Spread(s) = Spread(t) /\ Larger(Head(s), Head(t))

\* Faulty: the largest sets are joined with the largest.
MergeAlike(s, t) ==
  Descending([j \in DOMAIN s |-> [sum   |-> s[j].sum + t[j].sum,
                                  items |-> s[j].items \o t[j].items]])

\* State.merge: the largest set of one takes the smallest of the other.
Merge(s, t) ==
  Descending([j \in DOMAIN s |-> [sum   |-> s[j].sum + t[Len(s) + 1 - j].sum,
                                  items |-> s[j].items \o t[Len(s) + 1 - j].items]])

First(pool) == CHOOSE s \in pool : \A t \in pool \ {s} : Wider(s, t)

MergeTwo(pool) ==
  With(pool, LAMBDA heap :
    LET s == First(heap)
        t == First(heap \ {s})
    IN  (heap \ {s, t}) \union {Merge(s, t)})

\* karmarkar_karp: the heap starts with a state per row, or per k rows that are
\* next to each other in size, and ends with one.
KarmarkarKarp(f, k, equal_size) ==
  LET order == SortBy([i \in DOMAIN f |-> i], f)
      items == Slices(order, IF equal_size THEN k ELSE 1)
      pool[n \in 1 .. Len(items)] ==
        IF n = 1 THEN {Descending(Sets(f, items[m], k)) : m \in DOMAIN items}
                 ELSE MergeTwo(pool[n - 1])
  IN  With(First(pool[Len(items)]), LAMBDA final : [j \in 1 .. k |-> final[j].items])

\* get_seqlen_balanced_partitions
BalancedPartitions(f, k, equal_size) ==
  With(KarmarkarKarp(f, k, equal_size), LAMBDA parts :
    [j \in 1 .. k |-> SortBy(parts[j], parts[j])])

\* get_group_balanced_partitions: rows of a uid are contiguous, and whole groups of
\* them are shared out.
Groups(uids) ==
  LET rows   == [i \in DOMAIN uids |-> i]
      starts == Those(rows, {i \in DOMAIN uids : i = 1 \/ uids[i] # uids[i - 1]})
  IN  [g \in DOMAIN starts |->
         SubSeq(rows, starts[g], IF g < Len(starts) THEN starts[g + 1] - 1 ELSE Len(rows))]

GroupPartitions(lens, uids, k) ==
  LET groups == Groups(uids)
      sums   == [g \in DOMAIN groups |-> SumOf(Workloads(lens), groups[g])]
      parts  == BalancedPartitions(sums, k, TRUE)
      rows   == [j \in 1 .. k |-> FlattenSeq([n \in DOMAIN parts[j] |-> groups[parts[j][n]]])]
  IN  [j \in 1 .. k |-> SortBy(rows[j], rows[j])]

--------------------------------------------------------------------------------
(* Micro-batches                                                               *)

\* rearrange_micro_batches, up to the agreement with other ranks.
NumMicroBatches(lens, max_token_len) ==
  LET count == CeilDiv(SumOf(lens, [i \in DOMAIN lens |-> i]), max_token_len)
  IN  IF count < Len(lens) THEN count ELSE Len(lens)

\* Index 0 stands for the first row of an empty micro-batch, which is row 1 here.
FirstRow(p) == IF p = <<>> THEN 1 ELSE Head(p)

\* ... and from there: the smaller micro-batches go to both ends.
MicroBatches(lens, num_micro_batches) ==
  LET w      == Workloads(lens)
      parts  == BalancedPartitions(w, num_micro_batches, FALSE)
      Comes(p, q) == \/ SumOf(w, p) > SumOf(w, q)
                     \/ SumOf(w, p) = SumOf(w, q) /\ FirstRow(p) > FirstRow(q)
      sorted == Sort(parts, {n \in Pairs(parts) : Comes(parts[n[1]], parts[n[2]])})
  IN  Reverse(Evens(sorted)) \o Odds(sorted)

\* get_reverse_idx
ReverseIdx(idx_map) == [j \in DOMAIN idx_map |-> CHOOSE i \in DOMAIN idx_map : idx_map[i] = j]

\* Faulty: the rows are selected by the indices themselves.
RestoreUnreversed(data, batch_idx_list) ==
  LET indices == FlattenSeq(batch_idx_list)
  IN  [j \in DOMAIN data |-> data[indices[j]]]

\* restore_dynamic_batch
Restore(data, batch_idx_list) ==
  LET revert_indices == ReverseIdx(FlattenSeq(batch_idx_list))
  IN  [j \in DOMAIN data |-> data[revert_indices[j]]]
================================================================================
