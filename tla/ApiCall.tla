-------------------------------- MODULE ApiCall --------------------------------
(***************************************************************************)
(* api_call_async of prepare_dataset/api_call.py: the prompts of a batch   *)
(* are dealt out to the clients, each client's manager runs its coroutines *)
(* and gathers their (index, result) pairs, and when every manager has     *)
(* returned the results are put back at the positions of their prompts.    *)
(***************************************************************************)
EXTENDS Completion

CONSTANTS
  NumUrls,     \* len(base_url_list)
  IsDeepseek,  \* model_name in deepseek_model_names: base_url_list is ignored
  Open         \* "not settled yet" of the abstract batch call

ASSUME ApiCallAssumption ==
  /\ NumUrls \in Nat
  /\ IsDeepseek \in BOOLEAN
  /\ Open # None
  /\ \A i \in Prompts : Open \notin Replies(i)

VARIABLES
  manager,   \* the manager_task of each client
  gathered,  \* the (index, result) pairs each manager returned
  results,   \* the list returned to the caller
  returned   \* whether api_call_async has returned

vars == <<pc, attempt, reply, permits, manager, gathered, results, returned>>

\* zip(client_params_list, ...) stops at the shorter list: a key beyond the last
\* URL gets no client, unless the model is a DeepSeek one.
HasClient(c) == IsDeepseek \/ c < NumUrls
Managers     == {c \in Keys : HasClient(c) /\ PromptsOf(c) # {}}
Served(i)    == ClientOf(i) \in Managers

\* api_call_async up to its first await: one task per client with prompts.
Init ==
  /\ CompletionInit
  /\ manager = [c \in Keys |-> IF c \in Managers THEN "created" ELSE "absent"]
  /\ gathered = [c \in Keys |-> {}]
  /\ results = [i \in Prompts |-> None]
  /\ returned = FALSE

--------------------------------------------------------------------------------
(***************************************************************************)
(* Faulty variants.                                                        *)
(***************************************************************************)
\* a result is filed at its position within its client's list
PairsByPosition(c) ==
  {<<Cardinality({j \in PromptsOf(c) : j < i}), reply[i]>> : i \in PromptsOf(c)}

\* the manager returns when its first coroutine does
ManagerReturnFirst(c) ==
  /\ manager[c] = "gathering"
  /\ \E i \in PromptsOf(c) : pc[i] = "done"
  /\ manager' = [manager EXCEPT ![c] = "returned"]
  /\ gathered' = [gathered EXCEPT ![c] = {<<i, reply[i]>> : i \in PromptsOf(c)}]
  /\ UNCHANGED <<cvars, results, returned>>

--------------------------------------------------------------------------------
\* manage_client_tasks: a task for each of the client's prompts, in one go.
StartManager(c) ==
  /\ manager[c] = "created"
  /\ manager' = [manager EXCEPT ![c] = "gathering"]
  /\ pc' = [i \in Prompts |-> IF ClientOf(i) = c THEN "queued" ELSE pc[i]]
  /\ UNCHANGED <<attempt, reply, permits, gathered, results, returned>>

\* call_with_index keeps each result with the index of its prompt.
Pairs(c) == {<<i, reply[i]>> : i \in PromptsOf(c)}

\* asyncio.gather(*tasks) completes when the client's last coroutine does.
ManagerReturn(c) ==
  /\ manager[c] = "gathering"
  /\ \A i \in PromptsOf(c) : pc[i] = "done"
  /\ manager' = [manager EXCEPT ![c] = "returned"]
  /\ gathered' = [gathered EXCEPT ![c] = Pairs(c)]
  /\ UNCHANGED <<cvars, results, returned>>

\* results = [None] * n, then results[index] = result for every gathered pair.
Scatter ==
  LET final == UNION {gathered[c] : c \in Keys}
  IN  [i \in Prompts |->
         IF \E pair \in final : pair[1] = i
           THEN (CHOOSE pair \in final : pair[1] = i)[2]
           ELSE None]

\* asyncio.gather(*manager_tasks), and the return of api_call_async.
Return ==
  /\ ~returned
  /\ \A c \in Keys : manager[c] \in {"absent", "returned"}
  /\ results' = Scatter
  /\ returned' = TRUE
  /\ UNCHANGED <<cvars, manager, gathered>>

ManagerStep(c) == StartManager(c) \/ ManagerReturn(c)

Step(i) == CompletionStep(i) /\ UNCHANGED <<manager, gathered, results, returned>>

Next ==
  \/ \E i \in Prompts : Step(i)
  \/ \E c \in Keys : ManagerStep(c)
  \/ Return

Spec == Init /\ [][Next]_vars

\* asyncio resumes every ready task, and each request ends by the SDK's timeout.
Fairness ==
  /\ \A i \in Prompts : CompletionFairness(i)
  /\ \A c \in Keys : WF_vars(ManagerStep(c))
  /\ WF_vars(Return)

FairSpec == Spec /\ Fairness

--------------------------------------------------------------------------------
TypeOK ==
  /\ CompletionTypeOK
  /\ manager \in [Keys -> {"absent", "created", "gathering", "returned"}]
  /\ DOMAIN gathered = Keys
  /\ \A c \in Keys : gathered[c] \in {{}, Pairs(c)}
  /\ DOMAIN results = Prompts
  /\ \A i \in Prompts : results[i] \in Replies(i) \cup {None}
  /\ returned \in BOOLEAN

\* The caller's results[i] is what the coroutine of prompt i returned, whatever
\* client served it and in whatever order the coroutines ended ("Keep batch
\* outputs aligned with their original prompt indices", call_with_index); every
\* prompt that has an endpoint has been settled by then.
BatchAligned ==
  returned =>
    \A i \in Prompts : /\ results[i] = reply[i]
                       /\ Served(i) => pc[i] = "done"
                       /\ ~Served(i) => results[i] = None

\* The batch call implements BatchCall.
Batch == INSTANCE BatchCall WITH
           Answers <- Replies,
           fate    <- [i \in Prompts |-> IF pc[i] = "done" THEN reply[i]
                                         ELSE IF Served(i) THEN Open ELSE None],
           vector  <- results

\* Callers may rely on the abstract batch call: settled once, by an answer to
\* the very prompt or None, and returned once and in order.
ImplementsBatchCall == Batch!Spec
================================================================================
