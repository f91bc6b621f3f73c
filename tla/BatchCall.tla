------------------------------- MODULE BatchCall -------------------------------
(***************************************************************************)
(* What a batch API call promises its callers (generate_batch, query_      *)
(* inspection, run_generation, eval): each prompt is settled once, by an   *)
(* answer to that prompt or by None, and the call returns once, with every *)
(* settled value at the position of its prompt.                            *)
(***************************************************************************)
EXTENDS Naturals

CONSTANTS
  NumPrompts,
  Answers(_),  \* the values that answer prompt i
  None,
  Open         \* the fate of a prompt not settled yet

Prompts == 0 .. NumPrompts - 1

VARIABLES
  fate,      \* what each prompt was settled with
  vector,    \* the returned list
  returned   \* whether the call has returned

vars == <<fate, vector, returned>>

\* Prompts may be refused from the start: those of a client with no endpoint.
Init ==
  /\ fate \in [Prompts -> {Open, None}]
  /\ vector = [i \in Prompts |-> None]
  /\ returned = FALSE

Settle(i) ==
  /\ fate[i] = Open
  /\ \E r \in Answers(i) \cup {None} : fate' = [fate EXCEPT ![i] = r]
  /\ UNCHANGED <<vector, returned>>

Return ==
  /\ ~returned
  /\ \A i \in Prompts : fate[i] # Open
  /\ vector' = fate
  /\ returned' = TRUE
  /\ UNCHANGED fate

Next == Return \/ \E i \in Prompts : Settle(i)

Safety == Init /\ [][Next]_vars

Spec == Safety /\ WF_vars(Next)
================================================================================
