------------------------------ MODULE Completion ------------------------------
(***************************************************************************)
(* get_completion_async of prepare_dataset/api_call.py (evaluation/        *)
(* api_call.py has the same body): one coroutine per prompt, which holds a *)
(* permit of its client's semaphore from its first attempt to its return,  *)
(* the backoff sleeps between attempts included.                           *)
(*                                                                         *)
(* A prompt is its index in user_prompt_list and a client the index of its *)
(* API key.  What the service answers is abstracted to the one distinction *)
(* the code makes: a "full" text, a "short" one (empty, or at most ten     *)
(* characters, which the gpt-5 branch asserts against) or an exception     *)
(* (HTTP error, SDK timeout, a malformed response).                        *)
(***************************************************************************)
EXTENDS Naturals, FiniteSets

CONSTANTS
  NumPrompts,     \* len(user_prompt_list)
  NumKeys,        \* len(api_list)
  ApiCallLimit,   \* api_call_limit, the permits of each client's semaphore
  MaxRetry,       \* max_retry
  IsGpt5,         \* model_name.startswith("gpt-5")
  None            \* Python's None

Prompts == 0 .. NumPrompts - 1
Keys    == 0 .. NumKeys - 1

\* What the caller receives for prompt i when the service answered text.
Reply(i, text) == [prompt |-> i, text |-> text]
Replies(i)     == {Reply(i, text) : text \in {"full", "short"}}

ASSUME CompletionAssumption ==
  /\ NumPrompts \in Nat
  /\ NumKeys \in Nat \ {0}
  /\ ApiCallLimit \in Nat \ {0}
  /\ MaxRetry \in Nat \ {0}
  /\ IsGpt5 \in BOOLEAN
  /\ \A i \in Prompts : None \notin Replies(i)

VARIABLES
  pc,       \* where the coroutine of each prompt is
  attempt,  \* the attempt it is in, 0 before the first
  reply,    \* what it returned
  permits   \* the value of each client's semaphore

cvars == <<pc, attempt, reply, permits>>

\* client_index = i % len(api_list)
ClientOf(i) == i % NumKeys
PromptsOf(c) == {i \in Prompts : ClientOf(i) = c}

\* The coroutines inside "async with semaphore", and those with a request out.
Holders(c)  == {i \in PromptsOf(c) : pc[i] \in {"calling", "sleeping"}}
InFlight(c) == {i \in PromptsOf(c) : pc[i] = "calling"}

CompletionInit ==
  /\ pc = [i \in Prompts |-> "unborn"]
  /\ attempt = [i \in Prompts |-> 0]
  /\ reply = [i \in Prompts |-> None]
  /\ permits = [c \in Keys |-> ApiCallLimit]

-------------------------------------------------------------------------------
(***************************************************************************)
(* Faulty variants of the definitions below, with which the properties are *)
(* tested.                                                                 *)
(***************************************************************************)
\* the permit is given back for the sleep and not taken again
SleepWithoutPermit(i) ==
  /\ pc[i] = "calling" /\ attempt[i] < MaxRetry
  /\ pc' = [pc EXCEPT ![i] = "sleeping"]
  /\ permits' = [permits EXCEPT ![ClientOf(i)] = @ + 1]
  /\ UNCHANGED <<attempt, reply>>

\* a coroutine that finds no permit returns instead of waiting
AcquireOrSkip(i) ==
  /\ pc[i] = "queued"
  /\ IF permits[ClientOf(i)] > 0
       THEN /\ pc' = [pc EXCEPT ![i] = "calling"]
            /\ attempt' = [attempt EXCEPT ![i] = 1]
            /\ permits' = [permits EXCEPT ![ClientOf(i)] = @ - 1]
       ELSE /\ pc' = [pc EXCEPT ![i] = "done"]
            /\ UNCHANGED <<attempt, permits>>
  /\ UNCHANGED reply

-------------------------------------------------------------------------------
\* "async with semaphore": enter when a permit is free, and send attempt 1.
Acquire(i) ==
  /\ pc[i] = "queued"
  /\ permits[ClientOf(i)] > 0
  /\ pc' = [pc EXCEPT ![i] = "calling"]
  /\ attempt' = [attempt EXCEPT ![i] = 1]
  /\ permits' = [permits EXCEPT ![ClientOf(i)] = @ - 1]
  /\ UNCHANGED reply

\* The service's answer is returned; leaving the block releases the permit.
\* A short text fails the gpt-5 branch's assertion and is not a success there.
Succeed(i, text) ==
  /\ pc[i] = "calling"
  /\ IsGpt5 => text = "full"
  /\ pc' = [pc EXCEPT ![i] = "done"]
  /\ reply' = [reply EXCEPT ![i] = Reply(i, text)]
  /\ permits' = [permits EXCEPT ![ClientOf(i)] = @ + 1]
  /\ UNCHANGED attempt

\* An exception before the last attempt: sleep, inside the semaphore.
Sleep(i) ==
  /\ pc[i] = "calling" /\ attempt[i] < MaxRetry
  /\ pc' = [pc EXCEPT ![i] = "sleeping"]
  /\ UNCHANGED <<attempt, reply, permits>>

\* The backoff has elapsed: the next attempt is sent.
Wake(i) ==
  /\ pc[i] = "sleeping"
  /\ pc' = [pc EXCEPT ![i] = "calling"]
  /\ attempt' = [attempt EXCEPT ![i] = @ + 1]
  /\ UNCHANGED <<reply, permits>>

\* An exception in the last attempt: "continue" ends the loop, None is returned.
GiveUp(i) ==
  /\ pc[i] = "calling" /\ attempt[i] = MaxRetry
  /\ pc' = [pc EXCEPT ![i] = "done"]
  /\ permits' = [permits EXCEPT ![ClientOf(i)] = @ + 1]
  /\ UNCHANGED <<attempt, reply>>

\* A request in flight ends: an answer, a failure, or the SDK's timeout.
Respond(i) ==
  \/ \E text \in {"full", "short"} : Succeed(i, text)
  \/ Sleep(i)
  \/ GiveUp(i)

CompletionStep(i) == Acquire(i) \/ Respond(i) \/ Wake(i)

\* Every coroutine is resumed, and every request ends because the SDK times out.
CompletionFairness(i) ==
  WF_cvars(Acquire(i)) /\ WF_cvars(Respond(i)) /\ WF_cvars(Wake(i))

-------------------------------------------------------------------------------
CompletionTypeOK ==
  /\ pc \in [Prompts -> {"unborn", "queued", "calling", "sleeping", "done"}]
  /\ attempt \in [Prompts -> 0 .. MaxRetry]
  /\ \A i \in Prompts : reply[i] \in Replies(i) \cup {None}
  /\ DOMAIN reply = Prompts
  /\ permits \in [Keys -> 0 .. ApiCallLimit]

\* Never more than api_call_limit requests of one client are in flight, however
\* retries, sleeps and new prompts interleave ("under a per-client concurrency
\* limit", get_completion_async).
ConcurrencyBound == \A c \in Keys : Cardinality(InFlight(c)) <= ApiCallLimit

\* No permit is lost or forged on any way out of the semaphore block: those free
\* and those held add up to api_call_limit, so all of them are free at the end.
PermitsConserved ==
  \A c \in Keys : permits[c] + Cardinality(Holders(c)) = ApiCallLimit

\* A prompt comes back as None only after the service failed it max_retry
\* times: neither contention nor an early failure of its own loses it.
NoneOnlyWhenExhausted ==
  \A i \in Prompts : pc[i] = "done" /\ reply[i] = None => attempt[i] = MaxRetry
===============================================================================
