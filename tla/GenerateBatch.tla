----------------------------- MODULE GenerateBatch -----------------------------
(***************************************************************************)
(* generate_batch of prepare_dataset/query_generation.py.  Three batch API *)
(* calls in a row, each over a list flattened from what passed the one     *)
(* before: a persona for every record, situations for the records whose    *)
(* persona passes the gate, a query for every situation.  The index tables *)
(* must bring every answer, and every token spent, back to its record.     *)
(*                                                                         *)
(* A call is named by the stage and what it asks about; its answer names   *)
(* the call.  A batch call returns an answer or None for each prompt, in   *)
(* order (BatchCall).                                                      *)
(***************************************************************************)
EXTENDS Naturals, Lists

CONSTANTS
  NumRecords,     \* len(records)
  MaxSituations   \* bound: situations the model answers for one persona

Records == 1 .. NumRecords

ASSUME GenerateBatchAssumption == NumRecords \in Nat /\ MaxSituations \in Nat

VARIABLES
  stage,       \* the next API call
  passed,      \* persona_pass
  situations,  \* situations_per_record: the answer each came from, and its rank
  queries,     \* queries_per_record
  usages,      \* usage_parts: the calls whose usage each record was charged
  tasks        \* stage_debug_per_record: each record's query_tasks

genVars == <<stage, passed, situations, queries, usages, tasks>>

GenInit ==
  /\ stage = "persona"
  /\ passed = [r \in Records |-> FALSE]
  /\ situations = [r \in Records |-> <<>>]
  /\ queries = [r \in Records |-> <<>>]
  /\ usages = [r \in Records |-> <<>>]
  /\ tasks = [r \in Records |-> <<>>]

PersonaOf(r)      == [stage |-> "persona", record |-> r, situation |-> 0]
SituationsOf(r)   == [stage |-> "situation", record |-> r, situation |-> 0]
QueryFor(r, s)    == [stage |-> "query", record |-> r, situation |-> s]

\* The usage of a call is charged if the call was answered ("None" is not valid
\* to _merge_usage, which adds up the others).
Charge(answered, call) == IF answered THEN <<call>> ELSE <<>>

\* situation_target_indices, the prompts made from it, ...
Targets == Those([r \in Records |-> r], {r \in Records : passed[r]})
SituationPrompts == [j \in DOMAIN Targets |-> SituationsOf(Targets[j])]

\* Faulty: the answer's index is taken for the record's.
RecordOfAnswerDirect(j) == j

\* ... and the way back: rec_idx = situation_target_indices[j].
RecordOfAnswer(j) == Targets[j]

\* task_to_record, task_to_query_slot and the prompts: one task per situation.
TaskList ==
  FlattenSeq([r \in Records |->
    [s \in DOMAIN situations[r] |->
       [record |-> r, slot |-> s, asked |-> QueryFor(r, s)]]])

\* Stage 1.  The gate: is_deep_persona and a persona_profile.
PersonaStage ==
  /\ stage = "persona"
  /\ \E answer \in [Records -> {"none", "shallow", "deep"}] :
       /\ passed' = [r \in Records |-> answer[r] = "deep"]
       /\ usages' = [r \in Records |-> Charge(answer[r] # "none", PersonaOf(r))]
  /\ stage' = "situation"
  /\ UNCHANGED <<situations, queries, tasks>>

\* Stage 2, over the passing records only; not called when there are none.  An
\* answer may hold no situation, or not be answered at all (0).
SituationStage ==
  /\ stage = "situation"
  /\ \E answered \in [DOMAIN Targets -> BOOLEAN],
        n \in [DOMAIN Targets -> 0 .. MaxSituations] :
       LET For(r) == {j \in DOMAIN Targets : RecordOfAnswer(j) = r}
           j(r)   == CHOOSE k \in For(r) : TRUE
       IN  /\ \A k \in DOMAIN Targets : ~answered[k] => n[k] = 0
           /\ situations' = [r \in Records |->
                IF For(r) = {} THEN <<>>
                ELSE [s \in 1 .. n[j(r)] |-> [from |-> SituationPrompts[j(r)], rank |-> s]]]
           /\ usages' = [r \in Records |->
                IF For(r) = {} THEN usages[r]
                ELSE usages[r] \o Charge(answered[j(r)], SituationPrompts[j(r)])]
  /\ stage' = "query"
  /\ UNCHANGED <<passed, queries, tasks>>

\* Stage 3, over all the tasks: the answers go back through the index tables.  A
\* task may be unanswered, or its answer hold no query.
QueryStage ==
  /\ stage = "query"
  /\ LET list == TaskList
         Own(r, ks) ==
           LET own == Those(list, {k \in ks : list[k].record = r})
           IN  [n \in DOMAIN own |-> own[n].asked]
     IN  \E answer \in [DOMAIN list -> {"none", "unusable", "query"}] :
           /\ queries' = [r \in Records |->
                Own(r, {k \in DOMAIN list : answer[k] = "query"})]
           /\ usages' = [r \in Records |->
                usages[r] \o Own(r, {k \in DOMAIN list : answer[k] # "none"})]
           /\ tasks' = [r \in Records |->
                [s \in DOMAIN situations[r] |->
                  [asked  |-> QueryFor(r, s),
                   filled |-> {list[k].asked : k \in {k \in DOMAIN list :
                                 list[k].record = r /\ list[k].slot = s}}]]]
  /\ stage' = "done"
  /\ UNCHANGED <<passed, situations>>

GenNext == PersonaStage \/ SituationStage \/ QueryStage

GenSpec == GenInit /\ [][GenNext]_genVars

--------------------------------------------------------------------------------

\* A record's situations answer the prompt made from its own persona, and its
\* queries answer prompts about these situations, each at most once
\* and in their order, and only if its persona passed the gate; so the fields the
\* code fills in from task_meta are those of the situation that was asked about.
\* And its merged usage counts its own calls, each once, and every call that
\* led to one of its queries: what the usage summary adds up is what was spent.
QueriesBelong ==
  \A r \in Records :
    /\ \A s \in DOMAIN situations[r] : situations[r][s].from = SituationsOf(r)
    /\ \A k \in DOMAIN queries[r] :
         /\ passed[r] /\ queries[r][k].record = r
         /\ queries[r][k].situation \in DOMAIN situations[r]
         /\ {PersonaOf(r), SituationsOf(r), queries[r][k]} \subseteq Range(usages[r])
    /\ \A j, k \in DOMAIN queries[r] :
         j < k => queries[r][j].situation < queries[r][k].situation
    /\ \A k \in DOMAIN usages[r] : usages[r][k].record = r
    /\ \A j, k \in DOMAIN usages[r] : usages[r][j] = usages[r][k] => j = k
================================================================================
