-------------------------------- MODULE Rollout --------------------------------
(***************************************************************************)
(* Generation across weight updates: agent loops on several workers send   *)
(* their requests to LLM servers that a global load balancer picks, while  *)
(* the checkpoint engine interrupts every server, gives all of them the    *)
(* trainer's new weights and lets them go on.  With partial_rollout an     *)
(* interrupted request is sent again with the tokens it has               *)
(* (FullyAsyncLLMServerManager), so that the agent loop sees nothing.      *)
(*                                                                         *)
(* A response is the sequence of the weight versions its tokens come from, *)
(* a token of a tool's answer being Tool, one of an interaction's (what a  *)
(* simulated user says to the response so far) being User.  The engine is  *)
(* vLLM 0.12 or later: pause_generation aborts what runs and keeps new     *)
(* requests out until resume_generation.                                   *)
(***************************************************************************)
EXTENDS Integers, FiniteSets, SequencesExt

CONSTANTS
  NumWorkers, NumServers, NumRequests,
  CacheSize,       \* max_cache_size of the load balancer
  PromptLength, ResponseLength,
  MaxModelLen,     \* max_model_len: the context of the model, whatever is configured
  MaxAnswer,       \* bound: an interaction's answer; 0 when none is configured
  MaxVersion       \* bound: weight updates

ASSUME RolloutAssumption ==
  /\ {NumWorkers, NumServers, NumRequests, CacheSize} \subseteq Nat \ {0}
  /\ {PromptLength, ResponseLength, MaxModelLen} \subseteq Nat \ {0}
  /\ {MaxAnswer, MaxVersion} \subseteq Nat

Workers == 1 .. NumWorkers
Servers == 1 .. NumServers
Requests == 1 .. NumRequests
Versions == 0 .. MaxVersion
Tool == -1
User == -2
None == -1

VARIABLES
  partial,       \* async_training.partial_rollout
  prompt,        \* the length of each request's prompt
  pc,            \* where each agent loop is
  tokens,        \* its response
  room,          \* tokens its request at the server may still yield
  stop,          \* how that request ended: "none", "completed", "aborted"
  label,         \* min_global_steps and max_global_steps
  server,        \* the server its request was last sent to, 0 before
  pending,       \* each worker's releases on their way to the load balancer
  inflight,      \* _inflight_requests
  cache,         \* _request_id_to_server: the requests, least recently used first
  phase,         \* update_weights: "idle", "abort", "update", "resume"
  global_steps,  \* the trainer's global_steps
  weights,       \* what each server generates with
  steps,         \* each server's global_steps
  is_paused

request  == <<pc, tokens, room, stop, label>>
balancer == <<server, pending, inflight, cache>>
engine   == <<phase, global_steps, weights, steps, is_paused>>
vars == <<partial, prompt, request, balancer, engine>>

Init ==
  /\ partial \in BOOLEAN
  /\ prompt \in [Requests -> 1 .. PromptLength]
  /\ pc = [r \in Requests |-> "start"]
  /\ tokens = [r \in Requests |-> <<>>]
  /\ room = [r \in Requests |-> 0]
  /\ stop = [r \in Requests |-> "none"]
  /\ label = [r \in Requests |-> [min |-> None, max |-> None]]
  /\ server = [r \in Requests |-> 0]
  /\ pending = [w \in Workers |-> [s \in Servers |-> 0]]
  /\ inflight = [s \in Servers |-> 0]
  /\ cache = <<>>
  /\ phase = "idle" /\ global_steps = 0
  /\ weights = [s \in Servers |-> 0]
  /\ steps = [s \in Servers |-> 0]
  /\ is_paused = [s \in Servers |-> FALSE]

\* _select_best_worker: in turn.
WorkerOf(r) == ((r - 1) % NumWorkers) + 1

Least(a, b) == IF a < b THEN a ELSE b

--------------------------------------------------------------------------------
\* min over the dict: the first server that has the fewest.
LeastLoaded ==
  CHOOSE s \in Servers :
    \A t \in Servers : inflight[s] < inflight[t] \/ (inflight[s] = inflight[t] /\ s <= t)

\* The cache without r.
Others(r) ==
  IF Contains(cache, r)
    THEN RemoveAt(cache, CHOOSE i \in 1 .. Len(cache) : cache[i] = r) ELSE cache

\* The LRU cache after r was looked up or inserted.
Used(r) ==
  Append(IF Len(Others(r)) = CacheSize THEN Tail(Others(r)) ELSE Others(r), r)

\* acquire_server: a request that the cache knows goes where it went before.  A worker's
\* calls arrive in their order, so its earlier releases have.
Acquire(r) ==
  /\ pc[r] = "start"
  /\ \A s \in Servers : pending[WorkerOf(r)][s] = 0
  /\ LET s == IF Contains(cache, r) THEN server[r] ELSE LeastLoaded
     IN  /\ server' = [server EXCEPT ![r] = s]
         /\ inflight' = [inflight EXCEPT ![s] = @ + 1]
         /\ cache' = Used(r)
  /\ pc' = [pc EXCEPT ![r] = "sent"]
  /\ UNCHANGED <<partial, prompt, tokens, room, stop, label, pending, engine>>

\* release_server refuses to count below zero; nobody waits for its answer.
Release(w) ==
  /\ \E s \in Servers :
       /\ pending[w][s] > 0
       /\ pending' = [pending EXCEPT ![w][s] = @ - 1]
       /\ inflight' = [inflight EXCEPT ![s] = IF @ > 0 THEN @ - 1 ELSE @]
  /\ UNCHANGED <<partial, prompt, request, server, cache, engine>>

--------------------------------------------------------------------------------
\* The prompt that a request is sent with ends with the tokens it has.
Sent(r) == prompt[r] + Len(tokens[r])

\* max_tokens of the request; the agent loops give none of their own.  With less than
\* one the request is refused: by the server, or by vLLM, which takes no max_tokens of 0.
MaxTokens(r) ==
  Least(Least(ResponseLength, PromptLength + ResponseLength - Sent(r)),
        MaxModelLen - Sent(r))

\* engine.generate: a paused engine keeps the request out.
Admit(r) ==
  /\ pc[r] = "sent" /\ MaxTokens(r) >= 1 /\ ~is_paused[server[r]]
  /\ pc' = [pc EXCEPT ![r] = "running"]
  /\ room' = [room EXCEPT ![r] = MaxTokens(r)]
  /\ UNCHANGED <<partial, prompt, tokens, stop, label, balancer, engine>>

\* Faulty: every part of the response starts its range of versions anew.
EndedAnew(r, reason) ==
  [stop |-> reason, label |-> [min |-> steps[server[r]], max |-> steps[server[r]]]]

\* How the server's generate ends: it reads global_steps, min_global_steps being what the
\* first part of the response was given and max_global_steps what the last was.
Ended(r, reason) ==
  [stop  |-> reason,
   label |-> [min |-> IF label[r].min = None THEN steps[server[r]] ELSE label[r].min,
              max |-> steps[server[r]]]]

\* The engine's next token; the last if it is the end of the text or max_tokens is met.
Token(r) ==
  /\ pc[r] = "running" /\ room[r] > 0
  /\ tokens' = [tokens EXCEPT ![r] = Append(@, weights[server[r]])]
  /\ room' = [room EXCEPT ![r] = @ - 1]
  /\ \/ room[r] > 1 /\ UNCHANGED <<pc, stop, label>>
     \/ /\ pc' = [pc EXCEPT ![r] = "return"]
        /\ stop' = [stop EXCEPT ![r] = Ended(r, "completed").stop]
        /\ label' = [label EXCEPT ![r] = Ended(r, "completed").label]
  /\ UNCHANGED <<partial, prompt, balancer, engine>>

\* Faulty: nothing but a request that completed is released.
ReleasedIfCompleted(r) ==
  [pending EXCEPT ![WorkerOf(r)][server[r]] = IF stop[r] = "completed" THEN @ + 1 ELSE @]

\* The finally clause of generate: fire and forget.
Released(r) == [pending EXCEPT ![WorkerOf(r)][server[r]] = @ + 1]

\* The exception of a refused request passes the finally clause and ends the agent loop.
Refuse(r) ==
  /\ pc[r] = "sent" /\ MaxTokens(r) < 1
  /\ pc' = [pc EXCEPT ![r] = "raised"]
  /\ pending' = Released(r)
  /\ UNCHANGED <<partial, prompt, tokens, room, stop, label, server, inflight, cache, engine>>

SentAgain(r) == stop[r] = "aborted" /\ partial

\* Faulty: an answer that fills the response is kept and generation goes on.
FitsExactly(r, n) == Len(tokens[r]) + n <= ResponseLength

\* The tool's answer joins the response if some room is left after it.
Fits(r, n) == Len(tokens[r]) + n < ResponseLength

Answered(r, n, whose) == [tokens EXCEPT ![r] = @ \o [k \in 1 .. n |-> whose]]

\* The request is sent again, with the tokens it has; else the agent loop ends, when the
\* response is long enough, nobody is to answer, the turns are used up, or the tool's
\* answer does not fit; or it goes on with a tool's answer.
Return(r) ==
  /\ pc[r] = "return"
  /\ pending' = Released(r)
  /\ room' = [room EXCEPT ![r] = 0]
  /\ \/ SentAgain(r) /\ pc' = [pc EXCEPT ![r] = "start"] /\ UNCHANGED tokens
     \/ ~SentAgain(r) /\ pc' = [pc EXCEPT ![r] = "done"] /\ UNCHANGED tokens
     \/ /\ ~SentAgain(r) /\ Len(tokens[r]) < ResponseLength
        /\ \E n \in 1 .. ResponseLength :
             /\ Fits(r, n)
             /\ tokens' = Answered(r, n, Tool)
        /\ pc' = [pc EXCEPT ![r] = "start"]
  /\ UNCHANGED <<partial, prompt, stop, label, server, inflight, cache, engine>>

\* INTERACTING: without a tool call a configured interaction is asked.  Its answer joins
\* the response however long it is, and ends the agent loop or lets it go on.
Interact(r) ==
  /\ pc[r] = "return" /\ ~SentAgain(r) /\ Len(tokens[r]) < ResponseLength
  /\ \E n \in 1 .. MaxAnswer : tokens' = Answered(r, n, User)
  /\ \E next \in {"start", "done"} : pc' = [pc EXCEPT ![r] = next]
  /\ pending' = Released(r)
  /\ room' = [room EXCEPT ![r] = 0]
  /\ UNCHANGED <<partial, prompt, stop, label, server, inflight, cache, engine>>

--------------------------------------------------------------------------------
\* The trainer calls update_weights.
Update ==
  /\ phase = "idle" /\ global_steps < MaxVersion
  /\ phase' = "abort" /\ global_steps' = global_steps + 1
  /\ UNCHANGED <<partial, prompt, request, balancer, weights, steps, is_paused>>

RunningAt(s) == {r \in Requests : pc[r] = "running" /\ server[r] = s}

\* abort_all_requests: what runs comes back with the tokens it has.
Abort(s) ==
  /\ phase = "abort" /\ ~is_paused[s]
  /\ pc' = [r \in Requests |-> IF r \in RunningAt(s) THEN "return" ELSE pc[r]]
  /\ stop' = [r \in Requests |->
                IF r \in RunningAt(s) THEN Ended(r, "aborted").stop ELSE stop[r]]
  /\ label' = [r \in Requests |->
                IF r \in RunningAt(s) THEN Ended(r, "aborted").label ELSE label[r]]
  /\ is_paused' = [is_paused EXCEPT ![s] = TRUE]
  /\ phase' = IF \A t \in Servers : is_paused'[t] THEN "update" ELSE "abort"
  /\ UNCHANGED <<partial, prompt, tokens, room, balancer, global_steps, weights, steps>>

\* Faulty: the update is not awaited before the servers go on.
LoadUnawaited(s) ==
  /\ phase = "update" /\ weights[s] # global_steps
  /\ weights' = [weights EXCEPT ![s] = global_steps]
  /\ steps' = [steps EXCEPT ![s] = global_steps]
  /\ phase' = "resume"
  /\ UNCHANGED <<partial, prompt, request, balancer, global_steps, is_paused>>

\* A server has its new weights and is told their version.
Load(s) ==
  /\ phase = "update" /\ weights[s] # global_steps
  /\ weights' = [weights EXCEPT ![s] = global_steps]
  /\ steps' = [steps EXCEPT ![s] = global_steps]
  /\ phase' = IF \A t \in Servers : weights'[t] = global_steps THEN "resume" ELSE "update"
  /\ UNCHANGED <<partial, prompt, request, balancer, global_steps, is_paused>>

\* Faulty: the first answer of a server is taken for all.
ResumeServerFirst(s) ==
  /\ phase = "resume" /\ is_paused[s]
  /\ is_paused' = [is_paused EXCEPT ![s] = FALSE]
  /\ phase' = "idle"
  /\ UNCHANGED <<partial, prompt, request, balancer, global_steps, weights, steps>>

ResumeServer(s) ==
  /\ phase = "resume" /\ is_paused[s]
  /\ is_paused' = [is_paused EXCEPT ![s] = FALSE]
  /\ phase' = IF \A t \in Servers : ~is_paused'[t] THEN "idle" ELSE "resume"
  /\ UNCHANGED <<partial, prompt, request, balancer, global_steps, weights, steps>>

Loop(r) ==
  Acquire(r) \/ Admit(r) \/ Refuse(r) \/ Token(r) \/ Return(r) \/ Interact(r)
Synchronise(s) == Abort(s) \/ Load(s) \/ ResumeServer(s)

Next ==
  \/ \E r \in Requests : Loop(r)
  \/ \E w \in Workers : Release(w)
  \/ \E s \in Servers : Synchronise(s)
  \/ Update

Spec == Init /\ [][Next]_vars

\* Every process goes on; whether the trainer updates the weights is its own affair.
Fairness ==
  /\ \A r \in Requests : WF_vars(Loop(r))
  /\ \A w \in Workers : WF_vars(Release(w))
  /\ \A s \in Servers : WF_vars(Synchronise(s))

FairSpec == Spec /\ Fairness

--------------------------------------------------------------------------------
RequestTypes ==
  /\ partial \in BOOLEAN /\ prompt \in [Requests -> 1 .. PromptLength]
  /\ pc \in [Requests -> {"start", "sent", "running", "return", "done", "raised"}]
  /\ tokens \in [Requests -> Seq(Versions \cup {Tool, User})]
  /\ room \in [Requests -> 0 .. ResponseLength]
  /\ stop \in [Requests -> {"none", "completed", "aborted"}]
  /\ label \in [Requests -> [min : Versions \cup {None}, max : Versions \cup {None}]]

BalancerTypes ==
  /\ server \in [Requests -> Servers \cup {0}]
  /\ pending \in [Workers -> [Servers -> Nat]] /\ inflight \in [Servers -> Nat]
  /\ cache \in Seq(Requests) /\ Len(cache) <= CacheSize

EngineTypes ==
  /\ phase \in {"idle", "abort", "update", "resume"} /\ global_steps \in Versions
  /\ weights \in [Servers -> Versions] /\ steps \in [Servers -> Versions]
  /\ is_paused \in [Servers -> BOOLEAN]

TypeOK == RequestTypes /\ BalancerTypes /\ EngineTypes

\* A finished response's range of versions holds the version of every token, and later
\* tokens come from weights as new as those of earlier ones: the staleness that the
\* trainer reads off the range is right whatever interrupted the request, and wherever.
LabelsBracketTokens ==
  \A r \in Requests : pc[r] = "done" =>
    \A k \in DOMAIN tokens[r] : tokens[r][k] \in Versions =>
      /\ label[r].min <= tokens[r][k] /\ tokens[r][k] <= label[r].max
      /\ \A j \in 1 .. k : tokens[r][j] <= tokens[r][k]

\* At no moment do two requests run on different weights, nor does any run on a server
\* whose weights are being exchanged.
OneVersionRuns ==
  /\ \A q, r \in Requests :
       pc[q] = "running" /\ pc[r] = "running" => weights[server[q]] = weights[server[r]]
  /\ phase = "update" => \A r \in Requests : pc[r] # "running"

\* The requests at server s, and the releases on their way to it, numbered by worker.
At(s) == {r \in Requests : pc[r] \in {"sent", "running", "return"} /\ server[r] = s}
OnTheirWay(s) == UNION {{w} \X (1 .. pending[w][s]) : w \in Workers}

\* The load balancer's count of a server is the number of requests there, those included
\* whose release is still on its way; so none is lost by an interruption, and no release
\* is refused.
InflightCounts ==
  \A s \in Servers : inflight[s] = Cardinality(At(s)) + Cardinality(OnTheirWay(s))

\* However often a request was interrupted and went on after a tool's answer, there is
\* room for a token when it is sent; the engine refuses one without.  Only two things take
\* the room: a model's context smaller than the configured lengths, and an interaction's
\* answer, which nobody measures.
RoomLeft ==
  \A r \in Requests : pc[r] = "sent" /\ MaxTokens(r) < 1 =>
    \/ Sent(r) \in MaxModelLen .. PromptLength + ResponseLength - 1
    \/ Last(tokens[r]) = User

\* With partial_rollout the agent loop never sees an interruption: a response ends
\* because the text ended or the room was used up.
NeverCutShort ==
  partial => \A r \in Requests : pc[r] = "done" => stop[r] = "completed"

\* Every agent loop ends, whatever updates interrupt it: no update, no interrupted and no
\* refused request leaves a server paused or a request waiting.
LoopsEnd == <>(\A r \in Requests : pc[r] \in {"done", "raised"})
================================================================================
