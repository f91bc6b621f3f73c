------------------------------ MODULE EvalApiCall ------------------------------
(***************************************************************************)
(* api_call_async of evaluation/api_call.py, the judge's batch caller: all *)
(* coroutines are created at once over a cycle of (client, semaphore), and *)
(* each result is put at its index as its coroutine completes.  Its        *)
(* get_completion_async is that of Completion.                             *)
(***************************************************************************)
EXTENDS Completion

VARIABLES
  completed,  \* the prompts whose result as_completed has yielded
  results,    \* the list under construction
  returned    \* whether api_call_async has returned it

vars == <<pc, attempt, reply, permits, completed, results, returned>>

\* Up to the first await: every task exists.  (An empty key list and a URL list
\* of another length were refused with a ValueError.)
Init ==
  /\ CompletionInit
  /\ completed = {}
  /\ results = [i \in Prompts |-> None]
  /\ returned = FALSE

--------------------------------------------------------------------------------
\* The event loop runs a created task up to its semaphore.
Begin(i) ==
  /\ pc[i] = "unborn"
  /\ pc' = [pc EXCEPT ![i] = "queued"]
  /\ UNCHANGED <<attempt, reply, permits, completed, results, returned>>

\* Faulty: a result is put behind those that came before it.
CollectInTurn(i) ==
  /\ ~returned /\ pc[i] = "done" /\ i \notin completed
  /\ completed' = completed \cup {i}
  /\ results' = [results EXCEPT ![Cardinality(completed)] = reply[i]]
  /\ UNCHANGED <<cvars, returned>>

\* "index, result = await finished; results[index] = result"
Collect(i) ==
  /\ ~returned /\ pc[i] = "done" /\ i \notin completed
  /\ completed' = completed \cup {i}
  /\ results' = [results EXCEPT ![i] = reply[i]]
  /\ UNCHANGED <<cvars, returned>>

Return ==
  /\ ~returned /\ completed = Prompts
  /\ returned' = TRUE
  /\ UNCHANGED <<cvars, completed, results>>

Next ==
  \/ \E i \in Prompts : \/ CompletionStep(i) /\ UNCHANGED <<completed, results, returned>>
                        \/ Begin(i)
                        \/ Collect(i)
  \/ Return

Spec == Init /\ [][Next]_vars
================================================================================
