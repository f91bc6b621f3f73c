----------------------------- MODULE RolloutProofs -----------------------------
(***************************************************************************)
(* Theorems about how responses are made while the weights change.         *)
(* Rollout for any number of workers, servers, requests, weight updates    *)
(* and lengths: labels, versions, room and the load balancer's counts.     *)
(* FullyAsync for any number of samples, batch and version sizes,          *)
(* staleness threshold and concurrency: no sample is trained twice or lost *)
(* to the end signal, how many are under way in a version, and what the    *)
(* last checkpoint may lack.                                               *)
(***************************************************************************)
EXTENDS Rollout, FullyAsync, FiniteSetTheorems, WellFoundedInduction, TLAPS

--------------------------------------------------------------------------------
(***************************************************************************)
(* The inductive invariant.  That a range of versions brackets its tokens  *)
(* rests on where tokens may come from: those the range does not cover yet *)
(* come from the weights of the server the request runs on, and no server  *)
(* is ever behind a token that exists.  For that the phases of an update   *)
(* must be known to keep the servers together.                             *)
(***************************************************************************)
PhaseInv ==
  /\ \A s \in Servers : steps[s] = weights[s]
  /\ phase = "idle" => \A s \in Servers : weights[s] = global_steps /\ ~is_paused[s]
  /\ phase = "abort" => \A s \in Servers : weights[s] = global_steps - 1
  /\ phase = "update" => \A s \in Servers : is_paused[s] /\ weights[s] \in {global_steps - 1, global_steps}
  /\ phase = "resume" => \A s \in Servers : weights[s] = global_steps

ServerInv ==
  /\ \A k \in DOMAIN cache : server[cache[k]] \in Servers
  /\ \A r \in Requests : pc[r] \in {"sent", "running", "return", "done"} => server[r] \in Servers
  /\ \A r \in Requests : pc[r] = "running" => ~is_paused[server[r]]

Covered(r, k) ==
  /\ label[r].min # None
  /\ label[r].min <= tokens[r][k] /\ tokens[r][k] <= label[r].max

\* What label and tokens say of request r.
LabelOK(r) ==
  /\ \A s \in Servers : label[r].max <= weights[s]
  /\ label[r].min # None => label[r].min <= label[r].max
  /\ \A k \in DOMAIN tokens[r] : tokens[r][k] \in Versions =>
       /\ \A s \in Servers : tokens[r][k] <= weights[s]
       /\ Covered(r, k) \/ (pc[r] = "running" /\ tokens[r][k] = weights[server[r]])
       /\ \A j \in 1 .. k : tokens[r][j] <= tokens[r][k]

LabelInv == \A r \in Requests : LabelOK(r)

\* That a token of r's budget is left, but after an interaction's answer.
RoomOK(r) ==
  /\ pc[r] \in {"start", "sent"} =>
       \/ prompt[r] + Len(tokens[r]) < PromptLength + ResponseLength
       \/ tokens[r][Len(tokens[r])] = User
  /\ pc[r] = "running" =>
       /\ room[r] >= 1
       /\ prompt[r] + Len(tokens[r]) + room[r] <= PromptLength + ResponseLength
  /\ pc[r] = "return" /\ stop[r] = "aborted" =>
       prompt[r] + Len(tokens[r]) < PromptLength + ResponseLength

RoomInv == \A r \in Requests : RoomOK(r)

StopInv ==
  \A r \in Requests :
    /\ pc[r] = "return" => stop[r] # "none"
    /\ pc[r] = "done" /\ partial => stop[r] = "completed"

IInv == TypeOK /\ PhaseInv /\ ServerInv /\ LabelInv /\ RoomInv /\ StopInv

--------------------------------------------------------------------------------
LEMMA Lengths ==
  /\ PromptLength \in Nat \ {0} /\ ResponseLength \in Nat \ {0}
  /\ CacheSize \in Nat \ {0} /\ MaxVersion \in Nat
  /\ MaxModelLen \in Nat \ {0} /\ MaxAnswer \in Nat
  /\ NumWorkers \in Nat \ {0} /\ NumServers \in Nat \ {0} /\ NumRequests \in Nat \ {0}
BY RolloutAssumption DEF RolloutAssumption

LEMMA InitInv == Init => IInv
<1>. SUFFICES ASSUME Init PROVE IInv
  OBVIOUS
<1>. USE Lengths DEF Init
<1>1. TypeOK
  BY DEF TypeOK, RequestTypes, BalancerTypes, EngineTypes, Versions, None, Tool, User
<1>2. PhaseInv /\ ServerInv
  BY DEF PhaseInv, ServerInv
<1>3. LabelInv
  BY DEF LabelInv, LabelOK, None
<1>4. RoomInv
  BY DEF RoomInv, RoomOK
<1>5. StopInv
  BY DEF StopInv
<1>. QED BY <1>1, <1>2, <1>3, <1>4, <1>5 DEF IInv

\* Some natural number of a set of them is the least.
LEMMA SomeLeast ==
  ASSUME NEW T, T \subseteq Nat, T # {}
  PROVE  \E x \in T : \A y \in T : x <= y
<1>1. PICK x \in T : \A y \in T : ~(<<y, x>> \in OpToRel(<, Nat))
  BY NatLessThanWellFounded, WFMin
<1>2. ASSUME NEW y \in T PROVE x <= y
  <2>1. <<y, x>> \in Nat \X Nat
    OBVIOUS
  <2>2. ~(y < x)
    BY <1>1, <2>1, Zenon DEF OpToRel
  <2>. QED BY <2>2
<1>. QED BY <1>2

\* So the load balancer always finds a server.
LEMMA LeastLoadedType ==
  ASSUME inflight \in [Servers -> Nat]
  PROVE  LeastLoaded \in Servers
<1>. DEFINE counts == {inflight[s] : s \in Servers}
            Fewest(n) == {s \in Servers : inflight[s] = n}
<1>1. Servers \subseteq Nat /\ 1 \in Servers
  BY Lengths DEF Servers
<1>2. PICK n \in counts : \A m \in counts : n <= m
  BY <1>1, SomeLeast, counts \subseteq Nat, counts # {}
<1>3. Fewest(n) \subseteq Nat /\ Fewest(n) # {}
  BY <1>1, <1>2
<1>4. PICK s \in Fewest(n) : \A t \in Fewest(n) : s <= t
  BY <1>3, SomeLeast
<1>5. \A t \in Servers : inflight[s] < inflight[t] \/ (inflight[s] = inflight[t] /\ s <= t)
  BY <1>1, <1>2, <1>4
<1>. QED BY <1>4, <1>5 DEF LeastLoaded

\* What the cache holds without r it held before, and it holds no more.
LEMMA OthersType ==
  ASSUME NEW r, cache \in Seq(Requests)
  PROVE  /\ Others(r) \in Seq(Requests) /\ Len(Others(r)) <= Len(cache)
         /\ \A k \in DOMAIN Others(r) : \E j \in DOMAIN cache : Others(r)[k] = cache[j]
<1>1. CASE ~Contains(cache, r)
  BY <1>1 DEF Others
<1>2. CASE Contains(cache, r)
  <2>. DEFINE i == CHOOSE k \in 1 .. Len(cache) : cache[k] = r
              left == SubSeq(cache, 1, i - 1)
              right == SubSeq(cache, i + 1, Len(cache))
  <2>1. i \in 1 .. Len(cache)
    BY <1>2 DEF Contains
  <2>2. Others(r) = left \o right
    BY <1>2 DEF Others, RemoveAt
  <2>. HIDE DEF i
  <2>3. left \in Seq(Requests) /\ Len(left) = i - 1
    BY <2>1
  <2>4. right \in Seq(Requests) /\ Len(right) = Len(cache) - i
    BY <2>1
  <2>5. ASSUME NEW k \in 1 .. i - 1 PROVE left[k] = cache[k] /\ k \in DOMAIN cache
    BY <2>1
  <2>6. ASSUME NEW k \in 1 .. Len(cache) - i
        PROVE  right[k] = cache[i + k] /\ i + k \in DOMAIN cache
    BY <2>1
  <2>. HIDE DEF left, right
  <2>7. ASSUME NEW k \in DOMAIN (left \o right)
        PROVE  \E j \in DOMAIN cache : (left \o right)[k] = cache[j]
    <3>1. CASE k <= Len(left)
      BY <2>1, <2>3, <2>4, <2>5, <3>1
    <3>2. CASE k > Len(left)
      <4>1. k - Len(left) \in 1 .. Len(cache) - i
        BY <2>1, <2>3, <2>4, <3>2
      <4>2. (left \o right)[k] = right[k - Len(left)]
        BY <2>1, <2>3, <2>4, <3>2
      <4>. QED BY <2>6, <4>1, <4>2
    <3>. QED BY <2>1, <2>3, <2>4, <3>1, <3>2
  <2>. QED BY <2>1, <2>2, <2>3, <2>4, <2>7
<1>. QED BY <1>1, <1>2

\* The cache stays within its size, and holds r and requests it held before.
LEMMA UsedType ==
  ASSUME NEW r \in Requests, cache \in Seq(Requests), Len(cache) <= CacheSize
  PROVE  /\ Used(r) \in Seq(Requests) /\ Len(Used(r)) <= CacheSize
         /\ \A k \in DOMAIN Used(r) :
              Used(r)[k] = r \/ \E j \in DOMAIN cache : Used(r)[k] = cache[j]
<1>. DEFINE rest == IF Len(Others(r)) = CacheSize THEN Tail(Others(r)) ELSE Others(r)
<1>1. /\ rest \in Seq(Requests) /\ Len(rest) < CacheSize
      /\ \A k \in DOMAIN rest : \E j \in DOMAIN cache : rest[k] = cache[j]
  <2>1. CASE Len(Others(r)) = CacheSize
    <3>1. Others(r) # <<>>
      BY <2>1, Lengths
    <3>2. Others(r) \in Seq(Requests)
      BY OthersType
    <3>3. rest \in Seq(Requests) /\ Len(rest) = Len(Others(r)) - 1
      BY <2>1, <3>1, <3>2
    <3>4. ASSUME NEW k \in DOMAIN rest
          PROVE  rest[k] = Others(r)[k + 1] /\ k + 1 \in DOMAIN Others(r)
      BY <2>1, <3>1, <3>2, <3>3
    <3>5. \A k \in DOMAIN rest : \E j \in DOMAIN cache : rest[k] = cache[j]
      <4>. SUFFICES ASSUME NEW k \in DOMAIN rest
                    PROVE  \E j \in DOMAIN cache : rest[k] = cache[j]
        OBVIOUS
      <4>1. \E j \in DOMAIN cache : Others(r)[k + 1] = cache[j]
        BY <3>4, OthersType
      <4>. QED BY <3>4, <4>1
    <3>. QED BY <2>1, <3>3, <3>5, Lengths
  <2>2. CASE Len(Others(r)) # CacheSize
    BY <2>2, OthersType, Lengths
  <2>. QED BY <2>1, <2>2
<1>2. Used(r) = Append(rest, r)
  BY DEF Used
<1>. HIDE DEF rest
<1>. QED BY <1>1, <1>2, Lengths

\* A request is routed.
LEMMA AcquireStep ==
  ASSUME IInv, NEW r \in Requests, Acquire(r)
  PROVE  IInv'
<1>. USE Lengths DEF IInv, TypeOK, Acquire, engine
<1>. DEFINE s == IF Contains(cache, r) THEN server[r] ELSE LeastLoaded
<1>1. s \in Servers
  <2>1. CASE Contains(cache, r)
    BY <2>1 DEF Contains, BalancerTypes, ServerInv
  <2>2. CASE ~Contains(cache, r)
    BY <2>2, LeastLoadedType DEF BalancerTypes
  <2>. QED BY <2>1, <2>2
<1>2. /\ server' = [server EXCEPT ![r] = s] /\ inflight' = [inflight EXCEPT ![s] = @ + 1]
      /\ cache' = Used(r)
  OBVIOUS
<1>. HIDE DEF s
<1>3. RequestTypes' /\ EngineTypes'
  BY DEF RequestTypes, EngineTypes
<1>4. BalancerTypes'
  BY <1>1, <1>2, UsedType DEF BalancerTypes
<1>5. PhaseInv'
  BY DEF PhaseInv
<1>6. ServerInv'
  <2>1. ASSUME NEW k \in DOMAIN cache' PROVE server'[cache'[k]] \in Servers
    <3>1. cache'[k] = r \/ \E j \in DOMAIN cache : cache'[k] = cache[j]
      BY <1>2, UsedType DEF BalancerTypes
    <3>2. CASE cache'[k] = r
      BY <1>1, <1>2, <3>2 DEF BalancerTypes
    <3>3. CASE \E j \in DOMAIN cache : cache'[k] = cache[j]
      BY <1>1, <1>2, <3>3 DEF BalancerTypes, ServerInv
    <3>. QED BY <3>1, <3>2, <3>3
  <2>2. ASSUME NEW q \in Requests
        PROVE  /\ pc'[q] \in {"sent", "running", "return", "done"} => server'[q] \in Servers
               /\ pc'[q] = "running" => ~is_paused'[server'[q]]
    BY <1>1, <1>2 DEF RequestTypes, BalancerTypes, ServerInv
  <2>. QED BY <2>1, <2>2 DEF ServerInv
<1>7. LabelInv'
  <2>1. UNCHANGED <<tokens, label, weights>>
    OBVIOUS
  <2>2. ASSUME NEW q \in Requests PROVE LabelOK(q)'
    <3>1. LabelOK(q) /\ pc[r] = "start"
      BY DEF LabelInv
    <3>2. CASE q = r
      BY <2>1, <3>1, <3>2 DEF LabelOK, Covered
    <3>3. CASE q # r
      <4>1. pc'[q] = pc[q] /\ server'[q] = server[q]
        BY <1>1, <3>3 DEF RequestTypes, BalancerTypes
      <4>. QED BY <2>1, <3>1, <4>1 DEF LabelOK, Covered
    <3>. QED BY <3>2, <3>3
  <2>. QED BY <2>2 DEF LabelInv
<1>8. RoomInv' /\ StopInv'
  BY DEF RequestTypes, RoomInv, RoomOK, StopInv
<1>. QED BY <1>3, <1>4, <1>5, <1>6, <1>7, <1>8

\* A release arrives.
LEMMA ReleaseStep ==
  ASSUME IInv, NEW w \in Workers, Release(w)
  PROVE  IInv'
<1>. USE DEF IInv, TypeOK, Release, request, engine
<1>1. BalancerTypes'
  <2>. PICK s \in Servers :
         /\ pending[w][s] > 0
         /\ pending' = [pending EXCEPT ![w][s] = @ - 1]
         /\ inflight' = [inflight EXCEPT ![s] = IF @ > 0 THEN @ - 1 ELSE @]
    OBVIOUS
  <2>1. pending' \in [Workers -> [Servers -> Nat]]
    BY DEF BalancerTypes
  <2>2. inflight' \in [Servers -> Nat]
    BY DEF BalancerTypes
  <2>. QED BY <2>1, <2>2 DEF BalancerTypes
<1>2. RequestTypes' /\ EngineTypes' /\ PhaseInv'
  BY DEF RequestTypes, EngineTypes, PhaseInv
<1>3. ServerInv' /\ LabelInv' /\ RoomInv' /\ StopInv'
  BY DEF ServerInv, LabelInv, LabelOK, Covered, RoomInv, RoomOK, StopInv
<1>. QED BY <1>1, <1>2, <1>3

\* What a request is given never exceeds its budget.
LEMMA BudgetLeft ==
  ASSUME NEW r \in Requests, RequestTypes, MaxTokens(r) >= 1
  PROVE  /\ MaxTokens(r) \in 1 .. ResponseLength
         /\ prompt[r] + Len(tokens[r]) + MaxTokens(r) <= PromptLength + ResponseLength
<1>. DEFINE n == prompt[r] + Len(tokens[r])
<1>1. n \in Nat
  BY DEF RequestTypes
<1>2. MaxTokens(r) =
        Least(Least(ResponseLength, PromptLength + ResponseLength - n), MaxModelLen - n)
  BY DEF MaxTokens, Sent
<1>. HIDE DEF n
<1>3. /\ MaxTokens(r) \in 1 .. ResponseLength
      /\ n + MaxTokens(r) <= PromptLength + ResponseLength
  BY <1>1, <1>2, Lengths DEF Least
<1>. QED BY <1>3 DEF n

\* The engine takes a request.
LEMMA AdmitStep ==
  ASSUME IInv, NEW r \in Requests, Admit(r)
  PROVE  IInv'
<1>. USE Lengths DEF IInv, TypeOK, Admit, balancer, engine
<1>1. /\ MaxTokens(r) \in 1 .. ResponseLength
      /\ prompt[r] + Len(tokens[r]) + MaxTokens(r) <= PromptLength + ResponseLength
  BY BudgetLeft
<1>2. RequestTypes'
  BY <1>1 DEF RequestTypes
<1>3. BalancerTypes' /\ EngineTypes' /\ PhaseInv'
  BY DEF BalancerTypes, EngineTypes, PhaseInv
<1>4. ServerInv'
  BY DEF RequestTypes, ServerInv
<1>5. LabelInv'
  BY DEF RequestTypes, LabelInv, LabelOK, Covered
<1>6. RoomInv'
  <2>1. pc'[r] = "running" /\ room'[r] = MaxTokens(r)
    BY DEF RequestTypes
  <2>2. \A q \in Requests \ {r} : pc'[q] = pc[q] /\ room'[q] = room[q]
    BY DEF RequestTypes
  <2>3. UNCHANGED <<prompt, tokens, stop>>
    OBVIOUS
  <2>4. RoomOK(r)'
    BY <1>1, <2>1, <2>3 DEF RoomOK
  <2>5. ASSUME NEW q \in Requests \ {r} PROVE RoomOK(q)'
    BY <2>2, <2>3 DEF RoomInv, RoomOK
  <2>. QED BY <2>4, <2>5 DEF RoomInv
<1>7. StopInv'
  BY DEF RequestTypes, StopInv
<1>. QED BY <1>2, <1>3, <1>4, <1>5, <1>6, <1>7

\* The engine yields a token.
LEMMA TokenStep ==
  ASSUME IInv, NEW r \in Requests, Token(r)
  PROVE  IInv'
<1>. USE Lengths DEF IInv, TypeOK, balancer, engine
<1>. DEFINE s == server[r]
<1>1. /\ pc[r] = "running" /\ room[r] > 0 /\ s \in Servers
      /\ weights[s] \in Versions /\ steps[s] = weights[s]
  BY DEF Token, ServerInv, EngineTypes, PhaseInv
<1>2. /\ tokens' = [tokens EXCEPT ![r] = Append(@, weights[s])]
      /\ room' = [room EXCEPT ![r] = @ - 1]
      /\ UNCHANGED <<partial, prompt, server, pending, inflight, cache,
                     phase, global_steps, weights, steps, is_paused>>
  BY DEF Token
<1>3. \/ room[r] > 1 /\ UNCHANGED <<pc, stop, label>>
      \/ /\ pc' = [pc EXCEPT ![r] = "return"]
         /\ stop' = [stop EXCEPT ![r] = "completed"]
         /\ label' = [label EXCEPT ![r] =
                        [min |-> IF label[r].min = None THEN weights[s] ELSE label[r].min,
                         max |-> weights[s]]]
  BY <1>1 DEF Token, Ended
<1>. HIDE DEF s
<1>4. label' \in [Requests -> [min : Versions \cup {None}, max : Versions \cup {None}]]
  <2>. DEFINE both == [min : Versions \cup {None}, max : Versions \cup {None}]
  <2>1. label \in [Requests -> both] /\ label[r].min \in Versions \cup {None}
    BY DEF RequestTypes
  <2>2. [min |-> IF label[r].min = None THEN weights[s] ELSE label[r].min,
         max |-> weights[s]] \in both
    BY <1>1, <2>1
  <2>. HIDE DEF both
  <2>3. label' \in [Requests -> both]
    BY <1>3, <2>1, <2>2
  <2>. QED BY <2>3 DEF both
<1>5. tokens' \in [Requests -> Seq(Versions \cup {Tool, User})]
  BY <1>1, <1>2 DEF RequestTypes
<1>6. RequestTypes'
  <2>1. room' \in [Requests -> 0 .. ResponseLength]
    BY <1>1, <1>2 DEF RequestTypes
  <2>2. /\ pc' \in [Requests -> {"start", "sent", "running", "return", "done", "raised"}]
        /\ stop' \in [Requests -> {"none", "completed", "aborted"}]
    BY <1>3 DEF RequestTypes
  <2>. QED BY <1>2, <1>4, <1>5, <2>1, <2>2 DEF RequestTypes
<1>7. BalancerTypes' /\ EngineTypes' /\ PhaseInv'
  BY <1>2 DEF BalancerTypes, EngineTypes, PhaseInv
<1>8. ServerInv'
  BY <1>1, <1>2, <1>3 DEF RequestTypes, ServerInv
<1>9. LabelInv'
  <2>1. \A q \in Requests \ {r} :
          pc'[q] = pc[q] /\ tokens'[q] = tokens[q] /\ label'[q] = label[q]
    BY <1>2, <1>3 DEF RequestTypes
  <2>2. /\ Len(tokens'[r]) = Len(tokens[r]) + 1 /\ tokens'[r][Len(tokens[r]) + 1] = weights[s]
        /\ \A k \in 1 .. Len(tokens[r]) : tokens'[r][k] = tokens[r][k]
        /\ DOMAIN tokens'[r] = 1 .. Len(tokens[r]) + 1
    BY <1>1, <1>2 DEF RequestTypes
  <2>3. \A t \in Servers : weights[t] = weights[s]
    BY <1>1 DEF ServerInv, PhaseInv, EngineTypes
  <2>4. \/ /\ label'[r].min \in Versions /\ label'[r].max = weights[s]
           /\ label[r].min = None => label'[r].min = weights[s]
           /\ label[r].min # None => label'[r].min = label[r].min
        \/ pc'[r] = "running" /\ label'[r] = label[r]
    BY <1>1, <1>3 DEF RequestTypes
  <2>5. label[r].max <= weights[s] /\ LabelOK(r)
    BY <1>1 DEF LabelInv, LabelOK
  <2>6. label'[r].min # None => label'[r].min <= label'[r].max
    <3>1. label[r].max \in Versions \cup {None} /\ label[r].min \in Versions \cup {None}
      BY DEF RequestTypes
    <3>. QED BY <1>1, <2>4, <2>5, <3>1 DEF LabelOK, Versions, None
  <2>7. LabelOK(r)'
    <3>. DEFINE n == Len(tokens[r])
    <3>1. n \in Nat /\ \A k \in 1 .. n : tokens[r][k] \in Versions \cup {Tool, User}
      BY DEF RequestTypes
    <3>2. label[r].max \in Versions \cup {None} /\ label[r].min \in Versions \cup {None}
      BY DEF RequestTypes
    <3>. HIDE DEF n
    <3>3. \A k \in 1 .. n : tokens[r][k] <= weights[s]
      <4>. SUFFICES ASSUME NEW k \in 1 .. n PROVE tokens[r][k] <= weights[s]
        OBVIOUS
      <4>1. CASE tokens[r][k] \in {Tool, User}
        BY <1>1, <4>1 DEF Tool, User, Versions
      <4>2. CASE tokens[r][k] \in Versions
        <5>1. k \in DOMAIN tokens[r]
          BY DEF RequestTypes, n
        <5>. QED BY <1>1, <2>5, <4>2, <5>1 DEF LabelOK
      <4>. QED BY <3>1, <4>1, <4>2
    <3>4. \A t \in Servers : label'[r].max <= weights'[t]
      <4>1. CASE label'[r].max = weights[s]
        BY <1>1, <1>2, <2>3, <4>1 DEF Versions
      <4>2. CASE label'[r] = label[r]
        BY <1>2, <2>5, <4>2 DEF LabelOK
      <4>. QED BY <2>4, <4>1, <4>2
    <3>5. ASSUME NEW k \in DOMAIN tokens'[r], tokens'[r][k] \in Versions
          PROVE  /\ \A t \in Servers : tokens'[r][k] <= weights'[t]
                 /\ \A j \in 1 .. k : tokens'[r][j] <= tokens'[r][k]
                 /\ \/ Covered(r, k)'
                    \/ pc'[r] = "running" /\ tokens'[r][k] = weights'[server'[r]]
      <4>1. CASE k = n + 1
        <5>1. tokens'[r][k] = weights[s] /\ weights[s] <= weights[s]
          BY <1>1, <2>2, <4>1 DEF n, Versions
        <5>2. \A j \in 1 .. k : tokens'[r][j] <= tokens'[r][k]
          BY <2>2, <3>1, <3>3, <4>1, <5>1 DEF n
        <5>3. Covered(r, k)' \/ (pc'[r] = "running" /\ tokens'[r][k] = weights'[server'[r]])
          <6>1. CASE pc'[r] = "running" /\ label'[r] = label[r]
            BY <1>2, <5>1, <6>1 DEF s
          <6>2. CASE ~(pc'[r] = "running" /\ label'[r] = label[r])
            BY <1>1, <2>4, <2>5, <2>6, <3>2, <5>1, <6>2 DEF Covered, LabelOK, Versions, None
          <6>. QED BY <6>1, <6>2
        <5>. QED BY <1>2, <2>3, <5>1, <5>2, <5>3
      <4>2. CASE k \in 1 .. n
        <5>1. tokens'[r][k] = tokens[r][k] /\ \A j \in 1 .. k : tokens'[r][j] = tokens[r][j]
          BY <2>2, <3>1, <4>2 DEF n
        <5>2. k \in DOMAIN tokens[r] /\ tokens[r][k] \in Versions
          BY <3>5, <4>2, <5>1 DEF n, RequestTypes
        <5>3. /\ \A t \in Servers : tokens[r][k] <= weights[t]
              /\ \A j \in 1 .. k : tokens[r][j] <= tokens[r][k]
              /\ Covered(r, k) \/ tokens[r][k] = weights[s]
          BY <2>5, <5>2 DEF LabelOK, s
        <5>4. Covered(r, k)' \/ (pc'[r] = "running" /\ tokens'[r][k] = weights'[server'[r]])
          <6>1. CASE pc'[r] = "running" /\ label'[r] = label[r]
            BY <1>1, <1>2, <2>5, <5>1, <5>2, <6>1 DEF LabelOK, Covered
          <6>2. CASE ~(pc'[r] = "running" /\ label'[r] = label[r])
            <7>1. tokens[r][k] \in Versions
              BY <3>1, <4>2, <5>2
            <7>. QED BY <1>1, <2>4, <2>5, <2>6, <3>2, <3>3, <4>2, <5>1, <5>3, <6>2, <7>1
                     DEF Covered, LabelOK, Versions, None
          <6>. QED BY <6>1, <6>2
        <5>. QED BY <1>2, <5>1, <5>3, <5>4
      <4>. QED BY <2>2, <3>1, <4>1, <4>2 DEF n
    <3>. QED BY <2>6, <3>4, <3>5 DEF LabelOK
  <2>8. ASSUME NEW q \in Requests \ {r} PROVE LabelOK(q)'
    BY <1>2, <2>1 DEF LabelInv, LabelOK, Covered
  <2>. QED BY <2>7, <2>8 DEF LabelInv
<1>10. RoomInv'
  <2>1. Len(tokens'[r]) = Len(tokens[r]) + 1 /\ room'[r] = room[r] - 1
    BY <1>1, <1>2 DEF RequestTypes
  <2>2. \A q \in Requests \ {r} :
          /\ pc'[q] = pc[q] /\ tokens'[q] = tokens[q]
          /\ room'[q] = room[q] /\ stop'[q] = stop[q]
    BY <1>2, <1>3 DEF RequestTypes
  <2>3. \/ room[r] > 1 /\ pc'[r] = "running"
        \/ pc'[r] = "return" /\ stop'[r] = "completed"
    BY <1>1, <1>3 DEF RequestTypes
  <2>4. prompt[r] \in Nat /\ Len(tokens[r]) \in Nat /\ room[r] \in Nat /\ prompt' = prompt
    BY <1>2 DEF RequestTypes
  <2>5. RoomOK(r)'
    <3>. DEFINE n == Len(tokens[r])
                all == PromptLength + ResponseLength
    <3>1. n \in Nat /\ all \in Nat /\ prompt[r] + n + room[r] <= all
      BY <1>1, <2>4, Lengths DEF RoomInv, RoomOK
    <3>. HIDE DEF all, n
    <3>2. CASE room[r] > 1 /\ pc'[r] = "running"
      <4>1. room'[r] >= 1 /\ prompt'[r] + Len(tokens'[r]) + room'[r] <= all
        BY <2>1, <2>4, <3>1, <3>2 DEF n
      <4>. QED BY <3>2, <4>1 DEF RoomOK, all
    <3>3. CASE pc'[r] = "return" /\ stop'[r] = "completed"
      BY <3>3 DEF RoomOK
    <3>. QED BY <2>3, <3>2, <3>3
  <2>6. ASSUME NEW q \in Requests \ {r} PROVE RoomOK(q)'
    BY <2>2, <2>4 DEF RoomInv, RoomOK
  <2>. QED BY <2>5, <2>6 DEF RoomInv
<1>11. StopInv'
  BY <1>2, <1>3 DEF RequestTypes, StopInv
<1>. QED BY <1>6, <1>7, <1>8, <1>9, <1>10, <1>11

\* Each request has a worker.
LEMMA WorkerOfType == \A r \in Requests : WorkerOf(r) \in Workers
BY Lengths DEF Requests, Workers, WorkerOf

\* Request r's response is longer by n tokens of someone's answer.
Grown(r, n, whose) ==
  /\ tokens'[r] \in Seq(Versions \cup {Tool, User})
  /\ tokens' = [tokens EXCEPT ![r] = tokens'[r]]
  /\ Len(tokens'[r]) = Len(tokens[r]) + n
  /\ \A k \in 1 .. Len(tokens[r]) : tokens'[r][k] = tokens[r][k]
  /\ \A k \in Len(tokens[r]) + 1 .. Len(tokens[r]) + n : tokens'[r][k] = whose

LEMMA Joined ==
  ASSUME NEW S, NEW a \in Seq(S), NEW b \in Seq(S)
  PROVE  /\ a \o b \in Seq(S) /\ Len(a \o b) = Len(a) + Len(b)
         /\ \A k \in 1 .. Len(a) : (a \o b)[k] = a[k]
OBVIOUS

LEMMA AnswerGrows ==
  ASSUME RequestTypes, NEW r \in Requests, NEW n \in Nat, NEW whose \in {Tool, User},
         tokens' = Answered(r, n, whose)
  PROVE  Grown(r, n, whose)
<1>. DEFINE answer == [k \in 1 .. n |-> whose]
            old == tokens[r]
            all == Versions \cup {Tool, User}
<1>1. answer \in Seq(all) /\ Len(answer) = n
  OBVIOUS
<1>2. \A k \in 1 .. n : answer[k] = whose
  OBVIOUS
<1>3. old \in Seq(all) /\ tokens \in [Requests -> Seq(all)]
  BY DEF RequestTypes
<1>4. tokens'[r] = old \o answer /\ tokens' = [tokens EXCEPT ![r] = old \o answer]
  BY <1>3 DEF Answered
<1>. HIDE DEF answer, old
<1>5. /\ old \o answer \in Seq(all) /\ Len(old \o answer) = Len(old) + n
      /\ \A k \in 1 .. Len(old) : (old \o answer)[k] = old[k]
  <2>. HIDE DEF all
  <2>. QED BY <1>1, <1>3, Joined
<1>6. ASSUME NEW k \in Len(old) + 1 .. Len(old) + n PROVE (old \o answer)[k] = whose
  <2>1. (old \o answer)[k] = answer[k - Len(old)] /\ k - Len(old) \in 1 .. n
    BY <1>1, <1>3
  <2>. QED BY <1>2, <2>1
<1>. QED BY <1>4, <1>5, <1>6 DEF Grown, old

LEMMA NothingGrows ==
  ASSUME RequestTypes, NEW r \in Requests, UNCHANGED tokens
  PROVE  Grown(r, 0, Tool)
BY DEF RequestTypes, Grown

\* Request r is no longer at its server, and the release is on its way.
Leaves(r) ==
  /\ pc[r] \in {"sent", "return"}
  /\ \E next \in {"start", "done", "raised"} : pc' = [pc EXCEPT ![r] = next]
  /\ pending' = Released(r)
  /\ room' \in {room, [room EXCEPT ![r] = 0]}
  /\ UNCHANGED <<partial, prompt, stop, label, server, inflight, cache, engine>>

\* A request that leaves its server keeps the invariant, if it has the room it needs.
LEMMA LeaveStep ==
  ASSUME IInv, NEW r \in Requests, Leaves(r),
         NEW n \in Nat, NEW whose \in {Tool, User}, Grown(r, n, whose),
         RoomOK(r)', pc'[r] = "done" /\ partial => stop[r] = "completed"
  PROVE  IInv'
<1>. USE Lengths DEF IInv, TypeOK, engine
<1>1. /\ pc[r] \in {"sent", "return"} /\ server[r] \in Servers
      /\ UNCHANGED <<partial, prompt, stop, label, server, inflight, cache,
                     phase, global_steps, weights, steps, is_paused>>
      /\ pending' = [pending EXCEPT ![WorkerOf(r)][server[r]] = @ + 1]
  BY DEF Leaves, Released, ServerInv
<1>2. /\ tokens'[r] \in Seq(Versions \cup {Tool, User})
      /\ tokens' = [tokens EXCEPT ![r] = tokens'[r]]
      /\ Len(tokens'[r]) = Len(tokens[r]) + n
      /\ \A k \in 1 .. Len(tokens[r]) : tokens'[r][k] = tokens[r][k]
      /\ \A k \in Len(tokens[r]) + 1 .. Len(tokens[r]) + n : tokens'[r][k] \notin Versions
  BY DEF Grown, Tool, User, Versions
<1>3. /\ pc \in [Requests -> {"start", "sent", "running", "return", "done", "raised"}]
      /\ tokens \in [Requests -> Seq(Versions \cup {Tool, User})]
      /\ room \in [Requests -> 0 .. ResponseLength]
  BY DEF RequestTypes
<1>4. /\ pc' = [pc EXCEPT ![r] = pc'[r]] /\ pc'[r] \in {"start", "done", "raised"}
      /\ room' \in {room, [room EXCEPT ![r] = 0]}
  <2>1. PICK next \in {"start", "done", "raised"} : pc' = [pc EXCEPT ![r] = next]
    BY DEF Leaves
  <2>2. pc'[r] = next
    BY <1>3, <2>1
  <2>. QED BY <2>1, <2>2 DEF Leaves
<1>5. \A q \in Requests \ {r} : pc'[q] = pc[q] /\ tokens'[q] = tokens[q] /\ room'[q] = room[q]
  BY <1>2, <1>3, <1>4
<1>6. RequestTypes'
  <2>1. tokens' \in [Requests -> Seq(Versions \cup {Tool, User})]
    BY <1>2, <1>3
  <2>2. pc' \in [Requests -> {"start", "sent", "running", "return", "done", "raised"}]
    BY <1>3, <1>4
  <2>3. room' \in [Requests -> 0 .. ResponseLength]
    <3>1. [room EXCEPT ![r] = 0] \in [Requests -> 0 .. ResponseLength]
      BY <1>3
    <3>. QED BY <1>3, <1>4, <3>1
  <2>. QED BY <1>1, <2>1, <2>2, <2>3 DEF RequestTypes
<1>7. BalancerTypes'
  <2>1. pending' \in [Workers -> [Servers -> Nat]]
    BY <1>1, WorkerOfType DEF BalancerTypes
  <2>. QED BY <1>1, <2>1 DEF BalancerTypes
<1>8. EngineTypes' /\ PhaseInv'
  BY <1>1 DEF EngineTypes, PhaseInv
<1>9. ServerInv'
  BY <1>1, <1>4, <1>5 DEF RequestTypes, ServerInv
<1>10. LabelInv'
  <2>1. LabelOK(r)'
    <3>1. LabelOK(r)
      BY DEF LabelInv
    <3>2. ASSUME NEW k \in DOMAIN tokens'[r], tokens'[r][k] \in Versions
          PROVE  /\ k \in DOMAIN tokens[r] /\ tokens[r][k] = tokens'[r][k]
                 /\ \A j \in 1 .. k : tokens'[r][j] = tokens[r][j]
      <4>1. k \in 1 .. Len(tokens[r]) + n /\ Len(tokens[r]) \in Nat
        BY <1>2, <1>3
      <4>2. k \in 1 .. Len(tokens[r])
        BY <1>2, <3>2, <4>1
      <4>3. DOMAIN tokens[r] = 1 .. Len(tokens[r])
        BY <1>3
      <4>. QED BY <1>2, <4>1, <4>2, <4>3
    <3>3. \A k \in DOMAIN tokens[r] : tokens[r][k] \in Versions => Covered(r, k)
      BY <1>1, <3>1 DEF LabelOK
    <3>. QED BY <1>1, <3>1, <3>2, <3>3 DEF LabelOK, Covered
  <2>2. ASSUME NEW q \in Requests \ {r} PROVE LabelOK(q)'
    BY <1>1, <1>5 DEF LabelInv, LabelOK, Covered
  <2>. QED BY <2>1, <2>2 DEF LabelInv
<1>11. RoomInv'
  <2>1. ASSUME NEW q \in Requests \ {r} PROVE RoomOK(q)'
    BY <1>1, <1>5 DEF RoomInv, RoomOK
  <2>. QED BY <2>1 DEF RoomInv
<1>12. StopInv'
  BY <1>1, <1>3, <1>4, <1>5 DEF StopInv
<1>. QED BY <1>6, <1>7, <1>8, <1>9, <1>10, <1>11, <1>12

\* The engine refuses a request.
LEMMA RefuseStep ==
  ASSUME IInv, NEW r \in Requests, Refuse(r)
  PROVE  IInv'
<1>. USE DEF IInv, TypeOK
<1>1. Leaves(r)
  BY DEF Refuse, Leaves
<1>2. pc'[r] = "raised"
  BY DEF Refuse, RequestTypes
<1>3. Grown(r, 0, Tool)
  BY NothingGrows DEF Refuse
<1>4. RoomOK(r)'
  BY <1>2 DEF RoomOK
<1>. QED BY <1>1, <1>2, <1>3, <1>4, LeaveStep

\* The output is merged.
LEMMA ReturnStep ==
  ASSUME IInv, NEW r \in Requests, Return(r)
  PROVE  IInv'
<1>. USE Lengths DEF IInv, TypeOK
<1>1. /\ Leaves(r) /\ pc[r] = "return" /\ stop[r] # "none"
      /\ UNCHANGED <<partial, prompt, stop>>
  BY DEF Return, Leaves, StopInv
<1>2. pc \in [Requests -> {"start", "sent", "running", "return", "done", "raised"}]
  BY DEF RequestTypes
<1>3. CASE UNCHANGED tokens /\ SentAgain(r) /\ pc' = [pc EXCEPT ![r] = "start"]
  <2>1. Grown(r, 0, Tool) /\ pc'[r] = "start"
    BY <1>2, <1>3, NothingGrows
  <2>2. RoomOK(r)'
    BY <1>1, <1>3, <2>1 DEF RoomInv, RoomOK, SentAgain
  <2>. QED BY <1>1, <2>1, <2>2, LeaveStep
<1>4. CASE UNCHANGED tokens /\ ~SentAgain(r) /\ pc' = [pc EXCEPT ![r] = "done"]
  <2>1. Grown(r, 0, Tool) /\ pc'[r] = "done"
    BY <1>2, <1>4, NothingGrows
  <2>2. RoomOK(r)'
    BY <2>1 DEF RoomOK
  <2>3. partial => stop[r] = "completed"
    BY <1>1, <1>4 DEF RequestTypes, SentAgain
  <2>. QED BY <1>1, <2>1, <2>2, <2>3, LeaveStep
<1>5. ASSUME NEW n \in 1 .. ResponseLength, Fits(r, n), tokens' = Answered(r, n, Tool),
             pc' = [pc EXCEPT ![r] = "start"]
      PROVE  IInv'
  <2>1. Grown(r, n, Tool) /\ pc'[r] = "start"
    BY <1>2, <1>5, AnswerGrows
  <2>2. RoomOK(r)'
    <3>1. Len(tokens'[r]) < ResponseLength /\ Len(tokens'[r]) \in Nat
      BY <1>5, <2>1 DEF Fits, Grown
    <3>2. prompt'[r] \in 1 .. PromptLength
      BY <1>1 DEF RequestTypes
    <3>. QED BY <2>1, <3>1, <3>2 DEF RoomOK
  <2>. QED BY <1>1, <2>1, <2>2, LeaveStep
<1>. QED BY <1>3, <1>4, <1>5 DEF Return

\* An interaction answers: no room may be left, and the last token tells why.
LEMMA InteractStep ==
  ASSUME IInv, NEW r \in Requests, Interact(r)
  PROVE  IInv'
<1>. USE Lengths DEF IInv, TypeOK
<1>1. /\ Leaves(r) /\ pc[r] = "return" /\ stop[r] # "none" /\ ~SentAgain(r)
      /\ pc' \in {[pc EXCEPT ![r] = "start"], [pc EXCEPT ![r] = "done"]}
  BY DEF Interact, Leaves, StopInv
<1>2. pc'[r] \in {"start", "done"}
  BY <1>1 DEF RequestTypes
<1>3. PICK n \in 1 .. MaxAnswer : tokens' = Answered(r, n, User)
  BY DEF Interact
<1>4. Grown(r, n, User)
  BY <1>3, AnswerGrows
<1>5. RoomOK(r)'
  <2>1. Len(tokens[r]) \in Nat
    BY DEF RequestTypes
  <2>2. tokens'[r][Len(tokens'[r])] = User
    BY <1>4, <2>1 DEF Grown
  <2>. QED BY <1>2, <2>2 DEF RoomOK
<1>6. partial => stop[r] = "completed"
  BY <1>1 DEF RequestTypes, SentAgain
<1>. QED BY <1>1, <1>4, <1>5, <1>6, LeaveStep

\* An update begins.
LEMMA UpdateStep ==
  ASSUME IInv, Update
  PROVE  IInv'
<1>. USE Lengths DEF IInv, TypeOK, Update, request, balancer
<1>1. RequestTypes' /\ BalancerTypes' /\ EngineTypes'
  BY DEF RequestTypes, BalancerTypes, EngineTypes, Versions
<1>2. PhaseInv'
  BY DEF EngineTypes, PhaseInv, Versions
<1>3. ServerInv' /\ LabelInv'
  BY DEF ServerInv, LabelInv, LabelOK, Covered
<1>4. RoomInv' /\ StopInv'
  BY DEF RoomInv, RoomOK, StopInv
<1>. QED BY <1>1, <1>2, <1>3, <1>4

\* A server has its new weights: they are no older than those before, and nothing runs.
LEMMA LoadStep ==
  ASSUME IInv, NEW s \in Servers, Load(s)
  PROVE  IInv'
<1>. USE Lengths DEF IInv, TypeOK, request, balancer
<1>1. /\ phase = "update" /\ global_steps \in Versions
      /\ weights' = [weights EXCEPT ![s] = global_steps]
      /\ steps' = [steps EXCEPT ![s] = global_steps]
      /\ phase' = IF \A t \in Servers : weights'[t] = global_steps THEN "resume" ELSE "update"
      /\ UNCHANGED <<partial, prompt, request, balancer, global_steps, is_paused>>
  BY DEF Load, EngineTypes
<1>2. RequestTypes' /\ BalancerTypes'
  BY <1>1 DEF RequestTypes, BalancerTypes
<1>3. EngineTypes'
  BY <1>1 DEF EngineTypes
<1>4. PhaseInv'
  BY <1>1 DEF EngineTypes, PhaseInv
<1>5. ServerInv'
  BY <1>1 DEF ServerInv
<1>6. \A t \in Servers : weights[t] <= weights'[t] /\ weights'[t] \in Int /\ weights[t] \in Int
  BY <1>1 DEF EngineTypes, PhaseInv, Versions
<1>7. \A r \in Requests : pc[r] # "running"
  BY <1>1 DEF ServerInv, PhaseInv
<1>8. LabelInv'
  <2>. SUFFICES ASSUME NEW r \in Requests PROVE LabelOK(r)'
    BY DEF LabelInv
  <2>1. LabelOK(r)
    BY DEF LabelInv
  <2>2. label[r].max \in Int /\ \A k \in DOMAIN tokens[r] : tokens[r][k] \in Versions => tokens[r][k] \in Int
    <3>1. label[r].max \in Versions \cup {None}
      BY DEF RequestTypes
    <3>. QED BY <3>1 DEF Versions, None
  <2>3. UNCHANGED <<tokens, label, pc>>
    BY <1>1
  <2>. QED BY <1>6, <1>7, <2>1, <2>2, <2>3 DEF LabelOK, Covered
<1>9. RoomInv' /\ StopInv'
  BY <1>1 DEF RoomInv, RoomOK, StopInv
<1>. QED BY <1>2, <1>3, <1>4, <1>5, <1>8, <1>9

\* A server goes on.
LEMMA ResumeStep ==
  ASSUME IInv, NEW s \in Servers, ResumeServer(s)
  PROVE  IInv'
<1>. USE Lengths DEF IInv, TypeOK, ResumeServer, request, balancer
<1>1. RequestTypes' /\ BalancerTypes'
  BY DEF RequestTypes, BalancerTypes
<1>2. EngineTypes'
  BY DEF EngineTypes
<1>3. PhaseInv'
  BY DEF EngineTypes, PhaseInv
<1>4. ServerInv'
  BY DEF EngineTypes, ServerInv
<1>5. LabelInv'
  BY DEF LabelInv, LabelOK, Covered
<1>6. RoomInv' /\ StopInv'
  BY DEF RoomInv, RoomOK, StopInv
<1>. QED BY <1>1, <1>2, <1>3, <1>4, <1>5, <1>6

\* A server is paused: what runs there ends, and the label read covers all of it.
LEMMA AbortStep ==
  ASSUME IInv, NEW s \in Servers, Abort(s)
  PROVE  IInv'
<1>. USE Lengths DEF IInv, TypeOK, balancer
<1>1. /\ phase = "abort" /\ ~is_paused[s]
      /\ is_paused' = [is_paused EXCEPT ![s] = TRUE]
      /\ phase' = IF \A t \in Servers : is_paused'[t] THEN "update" ELSE "abort"
      /\ UNCHANGED <<partial, prompt, tokens, room, balancer, global_steps, weights, steps>>
  BY DEF Abort
<1>2. weights[s] \in Versions /\ steps[s] = weights[s] /\ \A t \in Servers : weights[t] = weights[s]
  BY <1>1 DEF EngineTypes, PhaseInv
<1>3. ASSUME NEW r \in RunningAt(s)
      PROVE  /\ r \in Requests /\ pc[r] = "running" /\ server[r] = s
             /\ pc'[r] = "return" /\ stop'[r] = "aborted"
             /\ label'[r] = [min |-> IF label[r].min = None THEN weights[s] ELSE label[r].min,
                             max |-> weights[s]]
  BY <1>2 DEF Abort, RunningAt, Ended
<1>4. ASSUME NEW r \in Requests \ RunningAt(s)
      PROVE  pc'[r] = pc[r] /\ stop'[r] = stop[r] /\ label'[r] = label[r]
  BY DEF Abort
<1>5. RequestTypes'
  <2>1. ASSUME NEW r \in Requests
        PROVE  label'[r] \in [min : Versions \cup {None}, max : Versions \cup {None}]
    <3>1. label[r] \in [min : Versions \cup {None}, max : Versions \cup {None}]
      BY DEF RequestTypes
    <3>2. CASE r \in RunningAt(s)
      <4>1. label[r].min \in Versions \cup {None}
        BY <3>1
      <4>2. (IF label[r].min = None THEN weights[s] ELSE label[r].min) \in Versions \cup {None}
        BY <1>2, <4>1
      <4>3. label'[r] = [min |-> IF label[r].min = None THEN weights[s] ELSE label[r].min,
                         max |-> weights[s]]
        BY <1>3, <3>2
      <4>4. weights[s] \in Versions \cup {None}
        BY <1>2
      <4>. QED BY <4>2, <4>3, <4>4
    <3>3. CASE r \notin RunningAt(s)
      BY <1>4, <3>1, <3>3
    <3>. QED BY <3>2, <3>3
  <2>2. label' \in [Requests -> [min : Versions \cup {None}, max : Versions \cup {None}]]
    BY <2>1 DEF Abort
  <2>3. /\ pc' \in [Requests -> {"start", "sent", "running", "return", "done", "raised"}]
        /\ stop' \in [Requests -> {"none", "completed", "aborted"}]
    <3>1. \A r \in Requests :
            /\ pc'[r] \in {"start", "sent", "running", "return", "done", "raised"}
            /\ stop'[r] \in {"none", "completed", "aborted"}
      BY <1>3, <1>4 DEF RequestTypes
    <3>. QED BY <3>1 DEF Abort
  <2>. QED BY <1>1, <2>2, <2>3 DEF RequestTypes
<1>6. BalancerTypes' /\ EngineTypes'
  BY <1>1 DEF BalancerTypes, EngineTypes
<1>7. PhaseInv'
  BY <1>1 DEF EngineTypes, PhaseInv
<1>8. ServerInv'
  <2>1. ASSUME NEW r \in Requests
        PROVE  /\ pc'[r] \in {"sent", "running", "return", "done"} => server'[r] \in Servers
               /\ pc'[r] = "running" => ~is_paused'[server'[r]]
    <3>1. CASE r \in RunningAt(s)
      BY <1>1, <1>3, <3>1
    <3>2. CASE r \notin RunningAt(s)
      <4>1. pc'[r] = pc[r] /\ server'[r] = server[r]
        BY <1>1, <1>4, <3>2
      <4>2. pc[r] = "running" => server[r] # s
        BY <3>2 DEF RunningAt
      <4>. QED BY <1>1, <4>1, <4>2 DEF ServerInv, EngineTypes
    <3>. QED BY <3>1, <3>2
  <2>. QED BY <1>1, <2>1 DEF ServerInv
<1>9. LabelInv'
  <2>1. ASSUME NEW r \in RunningAt(s) PROVE LabelOK(r)'
    <3>1. LabelOK(r) /\ r \in Requests
      BY <1>3 DEF LabelInv
    <3>2. label[r].max \in Versions \cup {None} /\ label[r].min \in Versions \cup {None}
      BY <3>1 DEF RequestTypes
    <3>3. label[r].max <= weights[s]
      BY <3>1 DEF LabelOK
    <3>4. /\ label'[r].max = weights[s] /\ label'[r].min # None
          /\ label'[r].min <= label'[r].max
          /\ label[r].min # None => label'[r].min = label[r].min
          /\ label[r].min = None => label'[r].min = weights[s]
      <4>1. /\ label'[r].max = weights[s]
            /\ label'[r].min = IF label[r].min = None THEN weights[s] ELSE label[r].min
        <5>1. label'[r] = [min |-> IF label[r].min = None THEN weights[s] ELSE label[r].min,
                           max |-> weights[s]]
          BY <1>3
        <5>. QED BY <5>1
      <4>2. weights[s] \in Nat /\ weights[s] # None /\ weights[s] <= weights[s]
        BY <1>2 DEF Versions, None
      <4>3. label[r].min # None => label[r].min <= weights[s]
        <5>1. label[r].min # None => label[r].min <= label[r].max
          BY <3>1 DEF LabelOK
        <5>2. label[r].min \in Int /\ label[r].max \in Int
          BY <3>2 DEF Versions, None
        <5>. QED BY <3>3, <4>2, <5>1, <5>2
      <4>. QED BY <4>1, <4>2, <4>3
    <3>5. ASSUME NEW k \in DOMAIN tokens[r], tokens[r][k] \in Versions PROVE Covered(r, k)'
      <4>1. tokens[r][k] \in Versions /\ tokens[r][k] <= weights[s]
        BY <3>1, <3>5 DEF RequestTypes, LabelOK
      <4>2. Covered(r, k) \/ tokens[r][k] = weights[s]
        BY <1>3, <3>1, <3>5 DEF LabelOK
      <4>3. tokens' = tokens
        BY <1>1
      <4>4. CASE label[r].min # None
        BY <3>1, <3>2, <3>4, <4>1, <4>2, <4>3, <4>4 DEF Covered, LabelOK, Versions, None
      <4>5. CASE label[r].min = None
        BY <3>4, <4>1, <4>2, <4>3, <4>5 DEF Covered, Versions
      <4>. QED BY <4>4, <4>5
    <3>6. \A t \in Servers : label'[r].max <= weights'[t]
      BY <1>1, <1>2, <3>4 DEF Versions
    <3>. QED BY <1>1, <3>1, <3>4, <3>5, <3>6 DEF LabelOK
  <2>2. ASSUME NEW r \in Requests \ RunningAt(s) PROVE LabelOK(r)'
    BY <1>1, <1>4, <2>2 DEF LabelInv, LabelOK, Covered
  <2>. QED BY <2>1, <2>2 DEF LabelInv
<1>10. RoomInv'
  <2>1. ASSUME NEW r \in RunningAt(s) PROVE RoomOK(r)'
    <3>1. room[r] >= 1 /\ prompt[r] + Len(tokens[r]) + room[r] <= PromptLength + ResponseLength
      BY <1>3 DEF RoomInv, RoomOK
    <3>2. prompt[r] \in Nat /\ Len(tokens[r]) \in Nat /\ room[r] \in Nat
      <4>1. r \in Requests
        BY <1>3
      <4>2. prompt[r] \in 1 .. PromptLength /\ room[r] \in 0 .. ResponseLength
        BY <4>1 DEF RequestTypes
      <4>3. tokens[r] \in Seq(Versions \cup {Tool, User})
        BY <4>1 DEF RequestTypes
      <4>. QED BY <4>2, <4>3
    <3>3. prompt[r] + Len(tokens[r]) < PromptLength + ResponseLength
      BY <3>1, <3>2
    <3>. QED BY <1>1, <1>3, <3>3 DEF RoomOK
  <2>2. ASSUME NEW r \in Requests \ RunningAt(s) PROVE RoomOK(r)'
    BY <1>1, <1>4 DEF RoomInv, RoomOK
  <2>. QED BY <2>1, <2>2 DEF RoomInv
<1>11. StopInv'
  <2>1. \A r \in Requests :
          /\ pc'[r] = "return" => stop'[r] # "none"
          /\ pc'[r] = "done" /\ partial => stop'[r] = "completed"
    BY <1>3, <1>4 DEF StopInv
  <2>. QED BY <1>1, <2>1 DEF StopInv
<1>. QED BY <1>5, <1>6, <1>7, <1>8, <1>9, <1>10, <1>11

--------------------------------------------------------------------------------
LEMMA StutterStep ==
  ASSUME IInv, UNCHANGED vars
  PROVE  IInv'
<1>. USE DEF vars, request, balancer, engine
<1>1. TypeOK'
  BY DEF IInv, TypeOK, RequestTypes, BalancerTypes, EngineTypes
<1>2. PhaseInv' /\ ServerInv'
  BY DEF IInv, PhaseInv, ServerInv
<1>3. LabelInv'
  BY DEF IInv, LabelInv, LabelOK, Covered
<1>4. RoomInv' /\ StopInv'
  BY DEF IInv, RoomInv, RoomOK, StopInv
<1>. QED BY <1>1, <1>2, <1>3, <1>4 DEF IInv

LEMMA StepInv ==
  ASSUME IInv, [Next]_vars
  PROVE  IInv'
<1>1. ASSUME NEW r \in Requests, Loop(r) PROVE IInv'
  BY <1>1, AcquireStep, AdmitStep, RefuseStep, TokenStep, ReturnStep, InteractStep DEF Loop
<1>2. ASSUME NEW w \in Workers, Release(w) PROVE IInv'
  BY <1>2, ReleaseStep
<1>3. ASSUME NEW s \in Servers, Synchronise(s) PROVE IInv'
  BY <1>3, AbortStep, LoadStep, ResumeStep DEF Synchronise
<1>4. ASSUME Update PROVE IInv'
  BY <1>4, UpdateStep
<1>5. ASSUME UNCHANGED vars PROVE IInv'
  BY <1>5, StutterStep
<1>. QED BY <1>1, <1>2, <1>3, <1>4, <1>5 DEF Next

\* The inductive invariant holds of every behaviour of the code that Rollout describes.
THEOREM Invariance == Spec => []IInv
BY InitInv, StepInv, PTL DEF Spec

\* Types: lengths, budgets and versions stay in range, and the load balancer's cache never
\* outgrows its size (agent_loop.py, GlobalRequestLoadBalancer).
THEOREM TypeCorrect == Spec => []TypeOK
<1>1. IInv => TypeOK
  BY DEF IInv
<1>. QED BY <1>1, Invariance, PTL

\* A finished response's range of versions brackets its tokens', which never decrease:
\* what min_global_steps and max_global_steps of FullyAsyncLLMServerManager.generate tell
\* the trainer is right.
THEOREM LabelsCorrect == Spec => []LabelsBracketTokens
<1>1. IInv => LabelsBracketTokens
  BY DEF IInv, LabelInv, LabelOK, Covered, LabelsBracketTokens
<1>. QED BY <1>1, Invariance, PTL

\* What runs at a time runs on the same weights, and nothing runs while weights are
\* exchanged: CheckpointEngineManager.update_weights awaits each of its steps.
THEOREM VersionsAgree == Spec => []OneVersionRuns
<1>1. ASSUME IInv PROVE OneVersionRuns
  <2>1. ASSUME NEW q \in Requests, NEW r \in Requests, pc[q] = "running", pc[r] = "running"
        PROVE  weights[server[q]] = weights[server[r]]
    <3>1. /\ server[q] \in Servers /\ ~is_paused[server[q]]
          /\ server[r] \in Servers /\ ~is_paused[server[r]]
      BY <1>1, <2>1 DEF IInv, ServerInv
    <3>2. phase \in {"idle", "abort", "resume"}
      BY <1>1, <3>1 DEF IInv, TypeOK, EngineTypes, PhaseInv
    <3>. QED BY <1>1, <3>1, <3>2 DEF IInv, PhaseInv
  <2>2. ASSUME NEW r \in Requests, phase = "update" PROVE pc[r] # "running"
    BY <1>1, <2>2 DEF IInv, PhaseInv, ServerInv
  <2>. QED BY <2>1, <2>2 DEF OneVersionRuns
<1>. QED BY <1>1, Invariance, PTL

\* A request that is sent, for the first time, after a tool's answer or after an
\* interruption, has room for a token: max_tokens in vLLMHttpServer.generate is smaller
\* than one only if max_model_len is below the configured lengths, or after the answer of
\* an interaction (ToolAgentLoop._handle_interacting_state).
THEOREM RoomForOne == Spec => []RoomLeft
<1>1. ASSUME IInv PROVE RoomLeft
  <2>. SUFFICES ASSUME NEW r \in Requests, pc[r] = "sent", MaxTokens(r) < 1,
                       Sent(r) \notin MaxModelLen .. PromptLength + ResponseLength - 1
                PROVE  Last(tokens[r]) = User
    BY DEF RoomLeft
  <2>1. Sent(r) \in Nat
    BY <1>1 DEF IInv, TypeOK, RequestTypes, Sent
  <2>2. PromptLength + ResponseLength - Sent(r) < 1
    BY <2>1, Lengths DEF MaxTokens, Least
  <2>3. ~(prompt[r] + Len(tokens[r]) < PromptLength + ResponseLength)
    BY <2>1, <2>2, Lengths DEF Sent
  <2>4. tokens[r][Len(tokens[r])] = User
    BY <1>1, <2>3 DEF IInv, RoomInv, RoomOK
  <2>. QED BY <2>4 DEF Last
<1>. QED BY <1>1, Invariance, PTL

\* With partial_rollout no agent loop ends with an interrupted response
\* (FullyAsyncLLMServerManager.generate sends it again).
THEOREM WholeResponses == Spec => []NeverCutShort
<1>1. IInv => NeverCutShort
  BY DEF IInv, StopInv, NeverCutShort
<1>. QED BY <1>1, Invariance, PTL

--------------------------------------------------------------------------------
(***************************************************************************)
(* The load balancer's counts.  A request counts at its server from the    *)
(* acquire until its release arrives: a step moves it from the requests    *)
(* there to the releases on their way, or takes a release away, and the    *)
(* sum stays what inflight says.  So no release finds a count of zero.     *)
(***************************************************************************)
CountOK(s) ==
  /\ IsFiniteSet(OnTheirWay(s))
  /\ inflight[s] = Cardinality(At(s)) + Cardinality(OnTheirWay(s))

CountInv == \A s \in Servers : CountOK(s)

LEMMA InitCounts == Init => CountInv
<1>. SUFFICES ASSUME Init, NEW s \in Servers PROVE CountOK(s)
  BY DEF CountInv
<1>1. At(s) = {}
  BY DEF Init, At
<1>2. OnTheirWay(s) = {}
  <2>1. \A w \in Workers : 1 .. pending[w][s] = {}
    BY DEF Init
  <2>. QED BY <2>1 DEF OnTheirWay
<1>3. inflight[s] = 0
  BY DEF Init
<1>. QED BY <1>1, <1>2, <1>3, FS_EmptySet DEF CountOK

\* How many requests are at a server is a natural number.
LEMMA AtFinite ==
  ASSUME NEW s
  PROVE  IsFiniteSet(At(s)) /\ Cardinality(At(s)) \in Nat
<1>1. IsFiniteSet(Requests)
  BY Lengths, FS_Interval DEF Requests
<1>2. At(s) \in SUBSET Requests
  BY DEF At
<1>. QED BY <1>1, <1>2, FS_Subset, FS_CardinalityType

LEMMA OneMore ==
  ASSUME NEW n \in Nat
  PROVE  1 .. n + 1 = (1 .. n) \cup {n + 1}
<1>1. ASSUME NEW x \in 1 .. n + 1 PROVE x \in 1 .. n \/ x = n + 1
  OBVIOUS
<1>2. ASSUME NEW x \in 1 .. n PROVE x \in 1 .. n + 1
  OBVIOUS
<1>3. n + 1 \in 1 .. n + 1
  OBVIOUS
<1>. QED BY <1>1, <1>2, <1>3, Zenon

\* One more release, or one less, of a worker.
LEMMA MoreOnTheirWay ==
  ASSUME NEW w \in Workers, NEW s \in Servers, pending \in [Workers -> [Servers -> Nat]],
         pending' = [pending EXCEPT ![w][s] = @ + 1], IsFiniteSet(OnTheirWay(s))
  PROVE  /\ IsFiniteSet(OnTheirWay(s)')
         /\ Cardinality(OnTheirWay(s)') = Cardinality(OnTheirWay(s)) + 1
<1>. DEFINE n == pending[w][s]
            new == <<w, n + 1>>
<1>1. n \in Nat /\ pending'[w][s] = n + 1
  OBVIOUS
<1>2. \A v \in Workers \ {w} : pending'[v][s] = pending[v][s]
  OBVIOUS
<1>3. {w} \X (1 .. n + 1) = ({w} \X (1 .. n)) \cup {new}
  <2>1. 1 .. n + 1 = (1 .. n) \cup {n + 1}
    BY <1>1, OneMore
  <2>. HIDE DEF n
  <2>. QED BY <2>1
<1>4. new \notin OnTheirWay(s)
  <2>1. ASSUME NEW v \in Workers, new \in {v} \X (1 .. pending[v][s]) PROVE FALSE
    <3>1. v = w /\ n + 1 \in 1 .. n
      BY <2>1
    <3>. QED BY <1>1, <3>1
  <2>. QED BY <2>1 DEF OnTheirWay
<1>5. OnTheirWay(s)' = OnTheirWay(s) \cup {new}
  <2>. HIDE DEF new
  <2>. DEFINE now == [v \in Workers |-> {v} \X (1 .. pending'[v][s])]
              old == [v \in Workers |-> {v} \X (1 .. pending[v][s])]
  <2>1. now[w] = old[w] \cup {new}
    BY <1>1, <1>3
  <2>2. \A v \in Workers \ {w} : now[v] = old[v]
    BY <1>2
  <2>3. OnTheirWay(s)' = UNION {now[v] : v \in Workers}
    BY DEF OnTheirWay
  <2>4. OnTheirWay(s) = UNION {old[v] : v \in Workers}
    BY DEF OnTheirWay
  <2>. HIDE DEF now, old
  <2>. QED BY <2>1, <2>2, <2>3, <2>4
<1>. HIDE DEF new
<1>. QED BY <1>4, <1>5, FS_AddElement

LEMMA FewerOnTheirWay ==
  ASSUME NEW w \in Workers, NEW s \in Servers, pending \in [Workers -> [Servers -> Nat]],
         pending[w][s] > 0,
         pending' = [pending EXCEPT ![w][s] = @ - 1], IsFiniteSet(OnTheirWay(s))
  PROVE  /\ IsFiniteSet(OnTheirWay(s)')
         /\ Cardinality(OnTheirWay(s)) > 0
         /\ Cardinality(OnTheirWay(s)') = Cardinality(OnTheirWay(s)) - 1
<1>. DEFINE n == pending[w][s]
            gone == <<w, n>>
<1>1. n \in Nat \ {0} /\ pending'[w][s] = n - 1
  OBVIOUS
<1>2. \A v \in Workers \ {w} : pending'[v][s] = pending[v][s]
  OBVIOUS
<1>3. {w} \X (1 .. n - 1) = ({w} \X (1 .. n)) \ {gone}
  BY <1>1
<1>4. gone \in OnTheirWay(s)
  <2>1. gone \in {w} \X (1 .. pending[w][s])
    BY <1>1
  <2>. QED BY <2>1 DEF OnTheirWay
<1>5. OnTheirWay(s)' = OnTheirWay(s) \ {gone}
  <2>. DEFINE now == [v \in Workers |-> {v} \X (1 .. pending'[v][s])]
              old == [v \in Workers |-> {v} \X (1 .. pending[v][s])]
  <2>1. now[w] = old[w] \ {gone}
    BY <1>1, <1>3
  <2>2. \A v \in Workers \ {w} : now[v] = old[v] /\ gone \notin old[v]
    BY <1>2
  <2>3. OnTheirWay(s)' = UNION {now[v] : v \in Workers}
    BY DEF OnTheirWay
  <2>4. OnTheirWay(s) = UNION {old[v] : v \in Workers}
    BY DEF OnTheirWay
  <2>. HIDE DEF now, old, gone
  <2>. QED BY <2>1, <2>2, <2>3, <2>4
<1>. HIDE DEF gone
<1>6. Cardinality(OnTheirWay(s)) \in Nat /\ Cardinality(OnTheirWay(s)) # 0
  BY <1>4, FS_CardinalityType, FS_EmptySet
<1>. QED BY <1>4, <1>5, <1>6, FS_RemoveElement

\* Releases to the other servers are not touched.
LEMMA SameOnTheirWay ==
  ASSUME NEW t, \A v \in Workers : pending'[v][t] = pending[v][t]
  PROVE  OnTheirWay(t)' = OnTheirWay(t)
BY DEF OnTheirWay

\* A step that moves no request to another place, and touches no count, keeps them right.
LEMMA SamePlaces ==
  ASSUME CountInv, UNCHANGED <<server, pending, inflight>>,
         \A r \in Requests : pc'[r] \in {"sent", "running", "return"}
                               <=> pc[r] \in {"sent", "running", "return"}
  PROVE  CountInv'
<1>. SUFFICES ASSUME NEW s \in Servers PROVE CountOK(s)'
  BY DEF CountInv
<1>1. At(s)' = At(s)
  BY DEF At
<1>2. OnTheirWay(s)' = OnTheirWay(s)
  BY SameOnTheirWay
<1>. QED BY <1>1, <1>2 DEF CountInv, CountOK

\* The balancer counts a request where it sends it.
LEMMA AcquireCounts ==
  ASSUME IInv, CountInv, NEW r \in Requests, Acquire(r)
  PROVE  CountInv'
<1>. DEFINE s == IF Contains(cache, r) THEN server[r] ELSE LeastLoaded
<1>1. /\ server' = [server EXCEPT ![r] = s] /\ inflight' = [inflight EXCEPT ![s] = @ + 1]
      /\ pc[r] = "start" /\ pc' = [pc EXCEPT ![r] = "sent"] /\ UNCHANGED pending
  BY DEF Acquire
<1>2. s \in Servers
  <2>1. CASE Contains(cache, r)
    BY <2>1 DEF Contains, IInv, TypeOK, BalancerTypes, ServerInv
  <2>2. CASE ~Contains(cache, r)
    BY <2>2, LeastLoadedType DEF IInv, TypeOK, BalancerTypes
  <2>. QED BY <2>1, <2>2
<1>. HIDE DEF s
<1>3. /\ pc \in [Requests -> {"start", "sent", "running", "return", "done", "raised"}]
      /\ server \in [Requests -> Servers \cup {0}] /\ inflight \in [Servers -> Nat]
  BY DEF IInv, TypeOK, RequestTypes, BalancerTypes
<1>. SUFFICES ASSUME NEW t \in Servers PROVE CountOK(t)'
  BY DEF CountInv
<1>4. OnTheirWay(t)' = OnTheirWay(t)
  BY <1>1, SameOnTheirWay
<1>5. CASE t = s
  <2>1. At(t)' = At(t) \cup {r} /\ r \notin At(t)
    BY <1>1, <1>3, <1>5 DEF At
  <2>2. Cardinality(At(t)') = Cardinality(At(t)) + 1
    BY <2>1, AtFinite, FS_AddElement
  <2>3. inflight'[t] = inflight[t] + 1
    BY <1>1, <1>3, <1>5
  <2>4. CountOK(t) /\ Cardinality(OnTheirWay(t)) \in Nat
    BY FS_CardinalityType DEF CountInv, CountOK
  <2>. QED BY <1>4, <2>2, <2>3, <2>4, AtFinite DEF CountOK
<1>6. CASE t # s
  <2>1. At(t)' = At(t)
    BY <1>1, <1>3, <1>6 DEF At
  <2>2. inflight'[t] = inflight[t]
    BY <1>1, <1>3, <1>6
  <2>. QED BY <1>4, <2>1, <2>2 DEF CountInv, CountOK
<1>. QED BY <1>5, <1>6

\* A request that leaves its server becomes a release on its way.
LEMMA LeaveCounts ==
  ASSUME IInv, CountInv, NEW r \in Requests, pc[r] \in {"sent", "return"},
         NEW next \in {"start", "done", "raised"}, pc' = [pc EXCEPT ![r] = next],
         pending' = Released(r), UNCHANGED <<server, inflight>>
  PROVE  CountInv'
<1>. DEFINE s == server[r]
            w == WorkerOf(r)
<1>1. /\ pc[r] \in {"sent", "return"} /\ pending' = [pending EXCEPT ![w][s] = @ + 1]
      /\ pc' = [pc EXCEPT ![r] = next] /\ next \notin {"sent", "running", "return"}
      /\ UNCHANGED <<server, inflight>>
  BY DEF Released
<1>2. s \in Servers
  BY <1>1 DEF IInv, ServerInv
<1>3. w \in Workers
  BY Lengths DEF WorkerOf, Workers, Requests
<1>4. /\ pc \in [Requests -> {"start", "sent", "running", "return", "done", "raised"}]
      /\ pending \in [Workers -> [Servers -> Nat]]
  BY DEF IInv, TypeOK, RequestTypes, BalancerTypes
<1>. HIDE DEF w
<1>. SUFFICES ASSUME NEW t \in Servers PROVE CountOK(t)'
  BY DEF CountInv
<1>5. CASE t = s
  <2>1. At(t)' = At(t) \ {r} /\ r \in At(t)
    BY <1>1, <1>4, <1>5 DEF At
  <2>2. Cardinality(At(t)') = Cardinality(At(t)) - 1
    BY <2>1, AtFinite, FS_RemoveElement
  <2>3. CountOK(t)
    BY DEF CountInv
  <2>4. /\ IsFiniteSet(OnTheirWay(t)')
        /\ Cardinality(OnTheirWay(t)') = Cardinality(OnTheirWay(t)) + 1
    <3>1. pending' = [pending EXCEPT ![w][t] = @ + 1]
      BY <1>1, <1>5
    <3>. QED BY <1>3, <1>4, <2>3, <3>1, MoreOnTheirWay DEF CountOK
  <2>5. inflight'[t] = inflight[t] /\ Cardinality(OnTheirWay(t)) \in Nat
    BY <1>1, <2>3, FS_CardinalityType DEF CountOK
  <2>. QED BY <2>2, <2>3, <2>4, <2>5, AtFinite DEF CountOK
<1>6. CASE t # s
  <2>1. At(t)' = At(t)
    BY <1>1, <1>4, <1>6 DEF At
  <2>2. \A v \in Workers : pending'[v][t] = pending[v][t]
    BY <1>1, <1>2, <1>3, <1>4, <1>6
  <2>3. OnTheirWay(t)' = OnTheirWay(t) /\ inflight'[t] = inflight[t]
    BY <1>1, <2>2, SameOnTheirWay
  <2>. QED BY <2>1, <2>3 DEF CountInv, CountOK
<1>. QED BY <1>5, <1>6

\* A release that arrives finds a count to take it from.
LEMMA ReleaseCounts ==
  ASSUME IInv, CountInv, NEW w \in Workers, Release(w)
  PROVE  CountInv'
<1>. PICK s \in Servers :
       /\ pending[w][s] > 0
       /\ pending' = [pending EXCEPT ![w][s] = @ - 1]
       /\ inflight' = [inflight EXCEPT ![s] = IF @ > 0 THEN @ - 1 ELSE @]
  BY DEF Release
<1>1. UNCHANGED <<pc, server>>
  BY DEF Release, request
<1>2. pending \in [Workers -> [Servers -> Nat]] /\ inflight \in [Servers -> Nat]
  BY DEF IInv, TypeOK, BalancerTypes
<1>. SUFFICES ASSUME NEW t \in Servers PROVE CountOK(t)'
  BY DEF CountInv
<1>3. At(t)' = At(t)
  BY <1>1 DEF At
<1>4. CASE t = s
  <2>1. CountOK(t)
    BY DEF CountInv
  <2>2. /\ IsFiniteSet(OnTheirWay(t)') /\ Cardinality(OnTheirWay(t)) > 0
        /\ Cardinality(OnTheirWay(t)') = Cardinality(OnTheirWay(t)) - 1
    <3>1. pending[w][t] > 0 /\ pending' = [pending EXCEPT ![w][t] = @ - 1]
      BY <1>4
    <3>. QED BY <1>2, <2>1, <3>1, FewerOnTheirWay DEF CountOK
  <2>3. Cardinality(At(t)) \in Nat /\ Cardinality(OnTheirWay(t)) \in Nat
    BY <2>1, AtFinite, FS_CardinalityType DEF CountOK
  <2>4. inflight[t] > 0
    BY <2>1, <2>2, <2>3 DEF CountOK
  <2>5. inflight'[t] = inflight[t] - 1
    BY <1>2, <1>4, <2>4
  <2>. QED BY <1>3, <2>1, <2>2, <2>3, <2>5 DEF CountOK
<1>5. CASE t # s
  <2>1. (\A v \in Workers : pending'[v][t] = pending[v][t]) /\ inflight'[t] = inflight[t]
    BY <1>2, <1>5
  <2>2. OnTheirWay(t)' = OnTheirWay(t)
    BY <2>1, SameOnTheirWay
  <2>. QED BY <1>3, <2>1, <2>2 DEF CountInv, CountOK
<1>. QED BY <1>4, <1>5

LEMMA StepCounts == IInv /\ CountInv /\ [Next]_vars => CountInv'
<1>. SUFFICES ASSUME IInv, CountInv, [Next]_vars PROVE CountInv'
  OBVIOUS
<1>1. pc \in [Requests -> {"start", "sent", "running", "return", "done", "raised"}]
  BY DEF IInv, TypeOK, RequestTypes
<1>2. ASSUME NEW r \in Requests, Acquire(r) PROVE CountInv'
  BY <1>2, AcquireCounts
<1>3. ASSUME NEW r \in Requests, Admit(r) PROVE CountInv'
  BY <1>1, <1>3, SamePlaces DEF Admit, balancer
<1>4. ASSUME NEW r \in Requests, Token(r) PROVE CountInv'
  BY <1>1, <1>4, SamePlaces DEF Token, balancer
<1>5. ASSUME NEW r \in Requests, Refuse(r) \/ Return(r) \/ Interact(r) PROVE CountInv'
  BY <1>5, LeaveCounts DEF Refuse, Return, Interact
<1>6. ASSUME NEW w \in Workers, Release(w) PROVE CountInv'
  BY <1>6, ReleaseCounts
<1>7. ASSUME NEW s \in Servers, Abort(s) PROVE CountInv'
  BY <1>7, SamePlaces DEF Abort, RunningAt, balancer
<1>8. ASSUME NEW s \in Servers, Load(s) \/ ResumeServer(s) PROVE CountInv'
  BY <1>8, SamePlaces DEF Load, ResumeServer, request, balancer
<1>9. ASSUME Update \/ UNCHANGED vars PROVE CountInv'
  BY <1>9, SamePlaces DEF Update, vars, request, balancer
<1>. QED BY <1>2, <1>3, <1>4, <1>5, <1>6, <1>7, <1>8, <1>9 DEF Next, Loop, Synchronise

\* The load balancer's count of a server is the number of requests there and of releases on
\* their way to it, whatever was interrupted and sent again: GlobalRequestLoadBalancer's
\* acquire_server and release_server balance, and no release is refused.
THEOREM CountsAreRight == Spec => []InflightCounts
<1>1. CountInv => InflightCounts
  BY DEF CountInv, CountOK, InflightCounts
<1>. QED BY <1>1, Invariance, InitCounts, StepCounts, PTL DEF Spec

--------------------------------------------------------------------------------
(***************************************************************************)
(* FullyAsync: the rollouter, the message queue and the trainer.           *)
(***************************************************************************)

ProcPlaces == {"check", "get", "pause", "drain", "draining", "idle", "limit", "limiting",
               "submit", "last_drain", "last_draining", "done", "failed"}
Statuses   == {"pending", "generating", "put", "finished", "failed"}
Stopped    == {"stopping", "last_sync", "last_resetting", "last_save", "done"}
TrainerPlaces == Stopped \cup {"collect", "train", "sync", "resetting", "save"}

RollTypes ==
  /\ taken \in 0 .. End /\ proc \in ProcPlaces
  /\ status \in [Samples -> Statuses] /\ active \in SUBSET Samples
  /\ main \in {"streaming", "signalled", "failed", "done"}

\* A sample is pending until the processor has submitted it.
FedInv ==
  /\ \A s \in Samples : s > taken => status[s] = "pending"
  /\ \A s \in Samples : status[s] = "pending" =>
       s > taken \/ (s = taken /\ proc \in {"limit", "limiting", "submit", "failed"})
  /\ proc \in {"limit", "limiting", "submit"} =>
       taken \in Samples /\ status[taken] = "pending"
  /\ proc \in {"last_drain", "last_draining", "done"} => taken = End
  /\ proc \notin {"last_drain", "last_draining", "done", "failed"} => taken \in 0 .. Total

\* active_tasks loses a task only when it is over, and a failure only to an exception.
ActiveInv ==
  /\ \A s \in Samples : status[s] \in {"generating", "put"} => s \in active
  /\ \A s \in Samples : status[s] = "failed" => s \in active \/ proc = "failed"
  /\ proc = "done" => active = {}

\* The end signal is put after the processor is done, or failed.
MainInv ==
  /\ main \in {"signalled", "done"} => proc = "done"
  /\ main = "failed" => proc = "failed"

RollInv == RollTypes /\ FedInv /\ ActiveInv /\ MainInv

QueueTypes ==
  /\ queue \in Seq(Samples \cup {End}) /\ batch \in Seq(Samples)
  /\ trainer \in TrainerPlaces /\ trained \in SUBSET Samples

\* A sample is in one place: the queue, the batch, or trained; and a sample that was
\* put is in one of them, or dropped.
PlaceInv ==
  /\ IsInjective(queue) /\ IsInjective(batch)
  /\ ToSet(queue) \cap ToSet(batch) = {}
  /\ (ToSet(queue) \cup ToSet(batch)) \cap trained = {}
  /\ \A s \in Samples : s \in ToSet(queue) \cup ToSet(batch) \cup trained =>
       status[s] \in {"put", "finished"}
  /\ \A s \in Samples : status[s] \in {"put", "finished"} =>
       s \in ToSet(queue) \cup ToSet(batch) \cup trained \cup dropped

\* The end signal of a processor that was done is the last of the queue.
EndInv ==
  /\ main = "streaming" => End \notin ToSet(queue)
  /\ main \in {"signalled", "done"} =>
       \A n \in DOMAIN queue : queue[n] = End => n = Len(queue)

AsyncStopInv ==
  /\ trainer # "train" => Len(batch) < Required
  /\ trainer \in {"sync", "resetting", "save"} => batch = <<>>
  /\ trainer \in Stopped => main # "streaming" /\ (main # "failed" => queue = <<>>)
  /\ "reset" \in want => trainer \in {"sync", "last_sync"}
  /\ lock = "reset" => trainer \in {"resetting", "last_resetting"}

QueueInv == QueueTypes /\ PlaceInv /\ EndInv /\ AsyncStopInv

NumberInv == staleness \in Nat /\ count \in Nat /\ step \in 1 .. Trigger

\* A version is trained on whole batches, and has none when its weights are sent.
AsyncStepInv ==
  /\ trainer = "train" => Len(batch) = Required
  /\ trainer \in {"sync", "resetting"} => step = 1

\* The processor asks for an entry only below the limit, and no reset is then under way.
LockInv ==
  /\ proc \in {"draining", "limiting", "last_draining"} => lock = "processor"
  /\ lock = "reset" => proc \notin {"check", "get"}
  /\ proc = "get" => staleness < MaxRequired

\* RolloutBound is not inductive alone: staleness counts what is in the version, but for
\* one sample; and what a reset has counted so far covers the tasks that end before it
\* asks for the queue's size.
CoverInv ==
  /\ proc \notin {"done", "failed"} => InVersion <= staleness + 1
  /\ lock = "reset" =>
       Cardinality(Generating) + Cardinality(Queued) + Held <= count + Len(queue) + 1

BoundInv == NumberInv /\ AsyncStepInv /\ LockInv /\ CoverInv /\ RolloutBound

--------------------------------------------------------------------------------
(* Sequences. *)

LEMMA AppendFacts ==
  ASSUME NEW T, NEW q \in Seq(T), NEW x \in T, IsInjective(q), x \notin ToSet(q)
  PROVE  /\ Append(q, x) \in Seq(T) /\ IsInjective(Append(q, x))
         /\ ToSet(Append(q, x)) = ToSet(q) \cup {x}
         /\ Len(Append(q, x)) = Len(q) + 1 /\ Append(q, x)[Len(q) + 1] = x
<1>1. /\ Append(q, x) \in Seq(T) /\ Len(Append(q, x)) = Len(q) + 1
      /\ Append(q, x)[Len(q) + 1] = x
      /\ \A n \in 1 .. Len(q) : Append(q, x)[n] = q[n]
      /\ DOMAIN q = 1 .. Len(q) /\ DOMAIN Append(q, x) = 1 .. Len(q) + 1
      /\ Len(q) \in Nat
  OBVIOUS
<1>2. IsInjective(Append(q, x))
  <2>1. SUFFICES ASSUME NEW a \in 1 .. Len(q) + 1, NEW b \in 1 .. Len(q) + 1,
                        Append(q, x)[a] = Append(q, x)[b]
                 PROVE  a = b
    BY <1>1 DEF IsInjective
  <2>2. \A n \in 1 .. Len(q) : q[n] # x
    BY <1>1 DEF ToSet
  <2>3. a \in 1 .. Len(q) \/ a = Len(q) + 1
    BY <1>1
  <2>4. b \in 1 .. Len(q) \/ b = Len(q) + 1
    BY <1>1
  <2>. QED BY <1>1, <2>1, <2>2, <2>3, <2>4 DEF IsInjective
<1>3. ToSet(Append(q, x)) = ToSet(q) \cup {x}
  BY <1>1 DEF ToSet
<1>. QED BY <1>1, <1>2, <1>3

LEMMA TailFacts ==
  ASSUME NEW T, NEW q \in Seq(T), q # <<>>, IsInjective(q)
  PROVE  /\ Tail(q) \in Seq(T) /\ IsInjective(Tail(q))
         /\ Head(q) \in T /\ Head(q) \in ToSet(q)
         /\ ToSet(Tail(q)) = ToSet(q) \ {Head(q)}
         /\ Len(Tail(q)) = Len(q) - 1 /\ Len(q) \in Nat \ {0}
<1>1. /\ Len(q) \in Nat \ {0} /\ DOMAIN q = 1 .. Len(q) /\ Head(q) = q[1]
      /\ Tail(q) \in Seq(T) /\ Len(Tail(q)) = Len(q) - 1
      /\ DOMAIN Tail(q) = 1 .. Len(q) - 1
      /\ \A n \in 1 .. Len(q) - 1 : Tail(q)[n] = q[n + 1]
  OBVIOUS
<1>2. Head(q) \in T /\ Head(q) \in ToSet(q)
  BY <1>1 DEF ToSet
<1>3. IsInjective(Tail(q))
  BY <1>1 DEF IsInjective
<1>4. ToSet(Tail(q)) = ToSet(q) \ {Head(q)}
  <2>1. ASSUME NEW y \in ToSet(Tail(q)) PROVE y \in ToSet(q) \ {Head(q)}
    <3>1. PICK n \in 1 .. Len(q) - 1 : y = Tail(q)[n]
      BY <1>1 DEF ToSet
    <3>2. y = q[n + 1] /\ n + 1 \in 1 .. Len(q) /\ 1 \in 1 .. Len(q) /\ n + 1 # 1
      BY <1>1, <3>1
    <3>. QED BY <1>1, <3>2 DEF ToSet, IsInjective
  <2>2. ASSUME NEW y \in ToSet(q) \ {Head(q)} PROVE y \in ToSet(Tail(q))
    <3>1. PICK n \in 1 .. Len(q) : y = q[n] /\ n # 1
      BY <1>1 DEF ToSet
    <3>2. n - 1 \in 1 .. Len(q) - 1 /\ Tail(q)[n - 1] = q[n]
      BY <1>1, <3>1
    <3>. QED BY <1>1, <3>1, <3>2 DEF ToSet
  <2>. QED BY <2>1, <2>2
<1>. QED BY <1>1, <1>2, <1>3, <1>4

LEMMA ConcatFacts ==
  ASSUME NEW T, NEW p \in Seq(T), NEW q \in Seq(T), IsInjective(p), IsInjective(q),
         ToSet(q) \cap ToSet(p) = {}
  PROVE  IsInjective(p \o q)
<1>1. /\ DOMAIN p = 1 .. Len(p) /\ DOMAIN q = 1 .. Len(q)
      /\ Len(p) \in Nat /\ Len(q) \in Nat
      /\ DOMAIN (p \o q) = 1 .. Len(p) + Len(q)
      /\ \A n \in 1 .. Len(p) : (p \o q)[n] = p[n]
      /\ \A n \in Len(p) + 1 .. Len(p) + Len(q) : (p \o q)[n] = q[n - Len(p)]
  OBVIOUS
<1>2. \A m \in 1 .. Len(p), n \in 1 .. Len(q) : p[m] # q[n]
  BY <1>1 DEF ToSet
<1>3. SUFFICES ASSUME NEW a \in 1 .. Len(p) + Len(q), NEW b \in 1 .. Len(p) + Len(q),
                      (p \o q)[a] = (p \o q)[b]
               PROVE  a = b
  BY <1>1 DEF IsInjective
<1>4. CASE a <= Len(p) /\ b <= Len(p)
  BY <1>1, <1>3, <1>4 DEF IsInjective
<1>5. CASE a > Len(p) /\ b > Len(p)
  <2>1. q[a - Len(p)] = q[b - Len(p)] /\ a - Len(p) \in 1 .. Len(q)
        /\ b - Len(p) \in 1 .. Len(q)
    BY <1>1, <1>3, <1>5
  <2>2. a - Len(p) = b - Len(p)
    BY <1>1, <2>1 DEF IsInjective
  <2>. QED BY <1>1, <2>2
<1>6. CASE a <= Len(p) /\ b > Len(p)
  <2>1. p[a] = q[b - Len(p)] /\ a \in 1 .. Len(p) /\ b - Len(p) \in 1 .. Len(q)
    BY <1>1, <1>3, <1>6
  <2>. QED BY <1>2, <2>1
<1>7. CASE a > Len(p) /\ b <= Len(p)
  <2>1. p[b] = q[a - Len(p)] /\ b \in 1 .. Len(p) /\ a - Len(p) \in 1 .. Len(q)
    BY <1>1, <1>3, <1>7
  <2>. QED BY <1>2, <2>1
<1>. QED BY <1>1, <1>4, <1>5, <1>6, <1>7

\* put_sample: the item is last in the queue, and what leaves the queue is dropped.
LEMMA PutFacts ==
  ASSUME queue \in Seq(Samples \cup {End}), IsInjective(queue),
         NEW x \in Samples \cup {End}, x \notin ToSet(queue), Put(x)
  PROVE  /\ queue' \in Seq(Samples \cup {End}) /\ IsInjective(queue')
         /\ queue' # <<>> /\ queue'[Len(queue')] = x
         /\ dropped \subseteq dropped'
         /\ \/ ToSet(queue') = ToSet(queue) \cup {x}
            \/ \E h \in dropped' \cap ToSet(queue) :
                 ToSet(queue') = (ToSet(queue) \ {h}) \cup {x}
<1>1. MaxRequired \in Nat /\ MaxRequired > 0
  BY FullyAsyncAssumption
<1>2. CASE Len(queue) >= MaxRequired
  <2>1. queue # <<>>
    BY <1>1, <1>2
  <2>2. PICK t \in Seq(Samples \cup {End}) : t = Tail(queue)
    BY <2>1, TailFacts
  <2>3. /\ IsInjective(t) /\ ToSet(t) = ToSet(queue) \ {Head(queue)}
        /\ Head(queue) \in ToSet(queue)
    BY <2>1, <2>2, TailFacts
  <2>4. queue' = Append(t, x) /\ dropped' = dropped \cup {Head(queue)}
    BY <1>2, <2>2 DEF Put
  <2>5. x \notin ToSet(t)
    BY <2>3
  <2>6. /\ queue' \in Seq(Samples \cup {End}) /\ IsInjective(queue')
        /\ ToSet(queue') = ToSet(t) \cup {x}
        /\ Len(queue') = Len(t) + 1 /\ queue'[Len(t) + 1] = x
    <3>1. /\ Append(t, x) \in Seq(Samples \cup {End}) /\ IsInjective(Append(t, x))
          /\ ToSet(Append(t, x)) = ToSet(t) \cup {x}
          /\ Len(Append(t, x)) = Len(t) + 1 /\ Append(t, x)[Len(t) + 1] = x
      BY <2>3, <2>5, AppendFacts
    <3>. QED BY <2>4, <3>1
  <2>7. queue' # <<>>
    BY <2>4
  <2>8. /\ Head(queue) \in dropped' \cap ToSet(queue)
        /\ ToSet(queue') = (ToSet(queue) \ {Head(queue)}) \cup {x}
    BY <2>3, <2>4, <2>6
  <2>9. dropped \subseteq dropped' /\ queue'[Len(queue')] = x
    BY <2>4, <2>6
  <2>. QED BY <2>6, <2>7, <2>8, <2>9
<1>3. CASE ~(Len(queue) >= MaxRequired)
  <2>1. queue' = Append(queue, x) /\ dropped' = dropped
    BY <1>3 DEF Put
  <2>2. /\ queue' \in Seq(Samples \cup {End}) /\ IsInjective(queue')
        /\ ToSet(queue') = ToSet(queue) \cup {x}
        /\ Len(queue') = Len(queue) + 1 /\ queue'[Len(queue) + 1] = x
    BY <2>1, AppendFacts
  <2>3. queue' # <<>>
    BY <2>1
  <2>. QED BY <2>1, <2>2, <2>3
<1>. QED BY <1>2, <1>3

LEMMA PutLen ==
  ASSUME queue \in Seq(Samples \cup {End}), NEW x \in Samples \cup {End}, Put(x)
  PROVE  Len(queue') >= Len(queue)
<1>1. MaxRequired > 0
  BY FullyAsyncAssumption
<1>2. CASE Len(queue) >= MaxRequired
  <2>1. queue # <<>> /\ queue' = Append(Tail(queue), x)
    BY <1>1, <1>2, FullyAsyncAssumption DEF Put
  <2>. QED BY <2>1
<1>3. CASE ~(Len(queue) >= MaxRequired)
  BY <1>3 DEF Put
<1>. QED BY <1>2, <1>3

LEMMA SampleTypes ==
  /\ Total \in Nat \ {0} /\ Samples = 1 .. Total /\ End = Total + 1 /\ End \notin Samples
  /\ Required \in Nat \ {0} /\ Trigger \in Nat \ {0}
  /\ MaxRequired \in Nat \ {0} /\ Samples \subseteq Nat
BY FullyAsyncAssumption DEF Samples, End

--------------------------------------------------------------------------------
(* The rollouter. *)

\* Steps that leave the processor and the tasks alone.
LEMMA SameRoll ==
  ASSUME RollInv, UNCHANGED <<taken, proc, status, active>>,
         \/ main' = main
         \/ main' \in {"signalled", "done"} /\ proc = "done"
         \/ main' = "failed" /\ proc = "failed"
  PROVE  RollInv'
BY DEF RollInv, RollTypes, FedInv, ActiveInv, MainInv

LEMMA ProcessorRoll == ASSUME RollInv, Processor PROVE RollInv'
<1>. USE SampleTypes DEF RollInv, RollTypes, ProcUnchanged
<1>1. CASE Check
  BY <1>1 DEF Check, FedInv, ActiveInv, MainInv, ProcPlaces
<1>2. CASE Pause
  BY <1>2 DEF Pause, FedInv, ActiveInv, MainInv, ProcPlaces
<1>3. CASE Wait
  BY <1>3 DEF Wait, FedInv, ActiveInv, MainInv, ProcPlaces
<1>4. CASE WaitReturns
  <2>1. /\ active' = active \ Over /\ status' = status /\ taken' = taken /\ main' = main
        /\ proc \in {"draining", "limiting", "last_draining"}
    BY <1>4 DEF WaitReturns
  <2>2. \/ proc' = "failed"
        \/ /\ \A s \in Over : status[s] # "failed"
           /\ \/ proc = "draining" /\ proc' \in {"idle", "drain"}
              \/ proc = "limiting" /\ proc' = "submit"
              \/ /\ proc = "last_draining"
                 /\ proc' = "last_drain" \/ (proc' = "done" /\ active' = {})
    BY <1>4 DEF WaitReturns
  <2>3. RollTypes'
    BY <2>1, <2>2 DEF ProcPlaces
  <2>4. FedInv'
    BY <2>1, <2>2 DEF FedInv
  <2>5. ActiveInv'
    BY <2>1, <2>2 DEF ActiveInv, Over
  <2>6. MainInv'
    BY <2>1, <2>2 DEF MainInv
  <2>. QED BY <2>3, <2>4, <2>5, <2>6
<1>5. CASE Resume
  BY <1>5 DEF Resume, FedInv, ActiveInv, MainInv, ProcPlaces
<1>6. CASE Get
  <2>1. /\ taken' = taken + 1 /\ status' = status /\ active' = active /\ main' = main
        /\ proc = "get" /\ taken \in 0 .. Total
    BY <1>6 DEF Get, FedInv
  <2>2. \/ taken' = End /\ active = {} /\ proc' = "done"
        \/ taken' = End /\ proc' = "last_drain"
        \/ taken' # End /\ proc' \in {"limit", "submit"}
    BY <1>6 DEF Get, NextSubmission
  <2>3. RollTypes'
    BY <2>1, <2>2 DEF ProcPlaces
  <2>4. FedInv'
    <3>1. taken' \in 1 .. End /\ (taken' # End => taken' \in Samples)
      BY <2>1
    <3>2. \A s \in Samples : s > taken' => status'[s] = "pending"
      BY <2>1 DEF FedInv
    <3>3. ASSUME NEW s \in Samples, status'[s] = "pending", ~(s > taken')
          PROVE  s = taken' /\ proc' \in {"limit", "submit"}
      <4>1. s > taken
        BY <2>1, <3>3 DEF FedInv
      <4>2. s = taken' /\ taken' # End
        BY <2>1, <3>3, <4>1
      <4>. QED BY <2>2, <4>2
    <3>4. taken' # End => status'[taken'] = "pending"
      BY <2>1, <3>1 DEF FedInv
    <3>5. taken' # End => taken' \in 0 .. Total
      BY <3>1
    <3>. QED BY <2>2, <3>1, <3>2, <3>3, <3>4, <3>5 DEF FedInv
  <2>5. ActiveInv' /\ MainInv'
    BY <2>1, <2>2 DEF ActiveInv, MainInv
  <2>. QED BY <2>3, <2>4, <2>5
<1>7. CASE Submit
  <2>1. /\ taken \in Samples /\ status[taken] = "pending" /\ proc = "submit"
        /\ taken' = taken /\ main' = main /\ proc' = "check"
        /\ active' = active \cup {taken}
        /\ status' = [status EXCEPT ![taken] = "generating"]
    BY <1>7 DEF Submit, FedInv
  <2>2. RollTypes'
    BY <2>1 DEF ProcPlaces, Statuses
  <2>3. FedInv'
    BY <2>1 DEF FedInv
  <2>4. ActiveInv' /\ MainInv'
    BY <2>1 DEF ActiveInv, MainInv
  <2>. QED BY <2>2, <2>3, <2>4
<1>. QED BY <1>1, <1>2, <1>3, <1>4, <1>5, <1>6, <1>7 DEF Processor

LEMMA TaskRoll == ASSUME RollInv, NEW s \in Samples, Task(s) PROVE RollInv'
<1>1. /\ taken' = taken /\ proc' = proc /\ active' = active /\ main' = main
      /\ \/ status[s] = "generating" /\ status' = [status EXCEPT ![s] = "put"]
         \/ status[s] = "put" /\ status' = [status EXCEPT ![s] = "finished"]
         \/ status[s] = "generating" /\ status' = [status EXCEPT ![s] = "failed"]
  BY DEF Task, TaskPut, TaskEnds, TaskFails, TaskUnchanged
<1>2. RollTypes'
  BY <1>1 DEF RollInv, RollTypes, Statuses
<1>3. FedInv'
  BY <1>1 DEF RollInv, RollTypes, FedInv
<1>4. ActiveInv'
  BY <1>1 DEF RollInv, RollTypes, ActiveInv
<1>5. MainInv'
  BY <1>1 DEF RollInv, MainInv
<1>. QED BY <1>2, <1>3, <1>4, <1>5 DEF RollInv

\* When the processor is done, every sample's task is finished.
LEMMA AllFinished ==
  ASSUME RollInv, proc = "done", NEW s \in Samples PROVE status[s] = "finished"
BY SampleTypes DEF RollInv, RollTypes, FedInv, ActiveInv, Statuses

--------------------------------------------------------------------------------
(* The queue and the trainer. *)

\* Steps that neither put nor take a sample.
LEMMA SameQueue ==
  ASSUME QueueInv, UNCHANGED <<queue, dropped, trainer, batch, trained>>,
         \A s \in Samples :
           status'[s] \in {"put", "finished"} <=> status[s] \in {"put", "finished"},
         \/ main' = main
         \/ main = "signalled" /\ main' = "done",
         want' \subseteq want \cup {"monitor"},
         lock' = "reset" => lock = "reset"
  PROVE  QueueInv'
<1>1. QueueTypes'
  BY DEF QueueInv, QueueTypes
<1>2. PlaceInv'
  BY DEF QueueInv, PlaceInv
<1>3. EndInv'
  BY DEF QueueInv, EndInv
<1>4. AsyncStopInv'
  BY DEF QueueInv, AsyncStopInv
<1>. QED BY <1>1, <1>2, <1>3, <1>4 DEF QueueInv

LEMMA ProcessorQueue == ASSUME RollInv, QueueInv, Processor PROVE QueueInv'
<1>1. UNCHANGED <<queue, dropped, trainer, batch, trained, main, want>>
  BY DEF Processor, Check, Pause, Wait, WaitReturns, Resume, Get, Submit, ProcUnchanged,
         qvars, tvars
<1>2. lock' \in {lock, "processor", "free"}
  BY DEF Processor, Check, Pause, Wait, WaitReturns, Resume, Get, Submit
<1>3. \/ status' = status
      \/ /\ taken \in Samples /\ status[taken] = "pending"
         /\ status' = [status EXCEPT ![taken] = "generating"]
  BY DEF Processor, Check, Pause, Wait, WaitReturns, Resume, Get, Submit, ProcUnchanged,
         RollInv, FedInv
<1>4. \A s \in Samples :
        status'[s] \in {"put", "finished"} <=> status[s] \in {"put", "finished"}
  BY <1>3 DEF RollInv, RollTypes
<1>. QED BY <1>1, <1>2, <1>4, SameQueue

\* A sample is put into the queue while its task generates: it was nowhere before, and
\* the end signal of a processor that was done cannot be there yet.
LEMMA TaskPutQueue == ASSUME RollInv, QueueInv, NEW s \in Samples, TaskPut(s) PROVE QueueInv'
<1>1. /\ status[s] = "generating" /\ status' = [status EXCEPT ![s] = "put"] /\ Put(s)
      /\ UNCHANGED <<main, want, lock, trainer, batch, trained>>
  BY DEF TaskPut, TaskUnchanged, tvars
<1>2. main \notin {"signalled", "done"}
  BY <1>1, AllFinished DEF RollInv, MainInv
<1>3. s \notin ToSet(queue) /\ s \notin ToSet(batch) /\ s \notin trained
  BY <1>1 DEF QueueInv, PlaceInv
<1>4. /\ queue' \in Seq(Samples \cup {End}) /\ IsInjective(queue')
      /\ dropped \subseteq dropped'
      /\ \/ ToSet(queue') = ToSet(queue) \cup {s}
         \/ \E h \in dropped' \cap ToSet(queue) :
              ToSet(queue') = (ToSet(queue) \ {h}) \cup {s}
  <2>1. queue \in Seq(Samples \cup {End}) /\ IsInjective(queue)
    BY DEF QueueInv, QueueTypes, PlaceInv
  <2>. QED BY <1>1, <1>3, <2>1, PutFacts
<1>5. /\ ToSet(queue') \subseteq ToSet(queue) \cup {s} /\ s \in ToSet(queue')
      /\ ToSet(queue) \subseteq ToSet(queue') \cup dropped'
  BY <1>4
<1>6. QueueTypes'
  BY <1>1, <1>4 DEF QueueInv, QueueTypes
<1>7. PlaceInv'
  <2>1. IsInjective(queue') /\ IsInjective(batch')
    BY <1>1, <1>4 DEF QueueInv, PlaceInv
  <2>2. /\ ToSet(queue') \cap ToSet(batch') = {}
        /\ (ToSet(queue') \cup ToSet(batch')) \cap trained' = {}
    BY <1>1, <1>3, <1>5 DEF QueueInv, PlaceInv
  <2>3. \A u \in Samples : status'[u] = IF u = s THEN "put" ELSE status[u]
    BY <1>1 DEF RollInv, RollTypes
  <2>4. ASSUME NEW u \in Samples, u \in ToSet(queue') \cup ToSet(batch') \cup trained'
        PROVE  status'[u] \in {"put", "finished"}
    BY <1>1, <1>5, <2>3, <2>4 DEF QueueInv, PlaceInv
  <2>5. ASSUME NEW u \in Samples, status'[u] \in {"put", "finished"}
        PROVE  u \in ToSet(queue') \cup ToSet(batch') \cup trained' \cup dropped'
    BY <1>1, <1>4, <1>5, <2>3, <2>5 DEF QueueInv, PlaceInv
  <2>. QED BY <2>1, <2>2, <2>4, <2>5 DEF PlaceInv
<1>8. EndInv'
  BY <1>1, <1>2, <1>5, SampleTypes DEF QueueInv, EndInv
<1>9. AsyncStopInv'
  BY <1>1, <1>2 DEF QueueInv, AsyncStopInv, RollInv, RollTypes
<1>. QED BY <1>6, <1>7, <1>8, <1>9 DEF QueueInv

LEMMA TaskQueue == ASSUME RollInv, QueueInv, NEW s \in Samples, Task(s) PROVE QueueInv'
<1>1. ASSUME TaskEnds(s) \/ TaskFails(s) PROVE QueueInv'
  <2>1. UNCHANGED <<queue, dropped, trainer, batch, trained, main, want, lock>>
    BY <1>1 DEF TaskEnds, TaskFails, TaskUnchanged, qvars, tvars
  <2>2. \/ status[s] = "put" /\ status' = [status EXCEPT ![s] = "finished"]
        \/ status[s] = "generating" /\ status' = [status EXCEPT ![s] = "failed"]
    BY <1>1 DEF TaskEnds, TaskFails
  <2>3. \A u \in Samples :
          status'[u] \in {"put", "finished"} <=> status[u] \in {"put", "finished"}
    BY <2>2 DEF RollInv, RollTypes
  <2>. QED BY <2>1, <2>3, SameQueue
<1>. QED BY <1>1, TaskPutQueue DEF Task

LEMMA SignalQueue == ASSUME RollInv, QueueInv, Signal PROVE QueueInv'
<1>1. /\ main = "streaming" /\ Put(End)
      /\ main' \in {"signalled", "failed"}
      /\ UNCHANGED <<status, want, lock, trainer, batch, trained>>
  BY DEF Signal, LoopUnchanged, tvars
<1>2. End \notin ToSet(queue)
  BY <1>1 DEF QueueInv, EndInv
<1>3. /\ queue' \in Seq(Samples \cup {End}) /\ IsInjective(queue')
      /\ queue' # <<>> /\ queue'[Len(queue')] = End
      /\ dropped \subseteq dropped'
      /\ \/ ToSet(queue') = ToSet(queue) \cup {End}
         \/ \E h \in dropped' \cap ToSet(queue) :
              ToSet(queue') = (ToSet(queue) \ {h}) \cup {End}
  <2>1. queue \in Seq(Samples \cup {End}) /\ IsInjective(queue)
    BY DEF QueueInv, QueueTypes, PlaceInv
  <2>. QED BY <1>1, <1>2, <2>1, PutFacts
<1>4. /\ ToSet(queue') \subseteq ToSet(queue) \cup {End}
      /\ ToSet(queue) \subseteq ToSet(queue') \cup dropped'
  BY <1>3
<1>5. ToSet(batch) \subseteq Samples
  BY DEF QueueInv, QueueTypes, ToSet
<1>6. QueueTypes'
  BY <1>1, <1>3 DEF QueueInv, QueueTypes
<1>7. PlaceInv'
  <2>1. trained \subseteq Samples
    BY DEF QueueInv, QueueTypes
  <2>2. /\ IsInjective(queue') /\ IsInjective(batch')
        /\ ToSet(queue') \cap ToSet(batch') = {}
        /\ (ToSet(queue') \cup ToSet(batch')) \cap trained' = {}
    BY <1>1, <1>3, <1>4, <1>5, <2>1, SampleTypes DEF QueueInv, PlaceInv
  <2>3. ASSUME NEW u \in Samples
        PROVE  /\ u \in ToSet(queue') \cup ToSet(batch') \cup trained' =>
                    status'[u] \in {"put", "finished"}
               /\ status'[u] \in {"put", "finished"} =>
                    u \in ToSet(queue') \cup ToSet(batch') \cup trained' \cup dropped'
    BY <1>1, <1>3, <1>4, SampleTypes DEF QueueInv, PlaceInv
  <2>. QED BY <2>2, <2>3 DEF PlaceInv
<1>8. EndInv'
  <2>1. Len(queue') \in DOMAIN queue'
    BY <1>3
  <2>2. \A n \in DOMAIN queue' : queue'[n] = End => n = Len(queue')
    BY <1>3, <2>1 DEF IsInjective
  <2>. QED BY <1>1, <2>2 DEF EndInv
<1>9. AsyncStopInv'
  BY <1>1 DEF QueueInv, AsyncStopInv
<1>. QED BY <1>6, <1>7, <1>8, <1>9 DEF QueueInv

LEMMA LoopQueue == ASSUME QueueInv, Stop \/ Monitor PROVE QueueInv'
<1>1. UNCHANGED <<queue, dropped, trainer, batch, trained, status, lock>>
  BY DEF Stop, Monitor, MonitorAsks, MonitorPolls, MonitorWakes, MonitorResumes,
         LoopUnchanged, qvars, tvars
<1>2. main' = main \/ (main = "signalled" /\ main' = "done")
  BY DEF Stop, Monitor, MonitorAsks, MonitorPolls, MonitorWakes, MonitorResumes
<1>3. want' \subseteq want \cup {"monitor"}
  BY DEF Stop, Monitor, MonitorAsks, MonitorPolls, MonitorWakes, MonitorResumes
<1>. QED BY <1>1, <1>2, <1>3, SameQueue

\* The trainer takes the head of the queue: a sample into its batch, or the end signal.
LEMMA CollectQueue == ASSUME RollInv, QueueInv, Collect PROVE QueueInv'
<1>1. /\ trainer = "collect" /\ queue # <<>> /\ queue' = Tail(queue)
      /\ UNCHANGED <<status, main, want, lock, dropped, trained>>
  BY DEF Collect, rvars
<1>2. queue \in Seq(Samples \cup {End}) /\ IsInjective(queue)
  BY DEF QueueInv, QueueTypes, PlaceInv
<1>3. PICK h \in Samples \cup {End} :
        /\ h = Head(queue) /\ h \in ToSet(queue)
        /\ ToSet(queue') = ToSet(queue) \ {h}
  BY <1>1, <1>2, TailFacts
<1>4. /\ queue' \in Seq(Samples \cup {End}) /\ IsInjective(queue')
      /\ Len(queue) \in Nat \ {0} /\ Len(queue') = Len(queue) - 1
      /\ \A n \in DOMAIN queue' : n + 1 \in DOMAIN queue /\ queue'[n] = queue[n + 1]
      /\ 1 \in DOMAIN queue /\ queue[1] = h
  <2>1. /\ queue' \in Seq(Samples \cup {End}) /\ IsInjective(queue')
        /\ Len(queue) \in Nat \ {0} /\ Len(queue') = Len(queue) - 1
    BY <1>1, <1>2, TailFacts
  <2>2. \A n \in DOMAIN queue' : n + 1 \in DOMAIN queue /\ queue'[n] = queue[n + 1]
    BY <1>1, <1>2
  <2>3. 1 \in DOMAIN queue /\ queue[1] = h
    BY <1>1, <1>2, <1>3
  <2>. QED BY <2>1, <2>2, <2>3
<1>5. EndInv'
  <2>1. main' = "streaming" => End \notin ToSet(queue')
    BY <1>1, <1>3 DEF QueueInv, EndInv
  <2>2. ASSUME main' \in {"signalled", "done"}, NEW n \in DOMAIN queue', queue'[n] = End
        PROVE  n = Len(queue')
    <3>1. n + 1 \in DOMAIN queue /\ queue[n + 1] = End
      BY <1>4, <2>2
    <3>2. n + 1 = Len(queue)
      BY <1>1, <2>2, <3>1 DEF QueueInv, EndInv
    <3>3. n \in Int
      BY <1>4, <2>2
    <3>. QED BY <1>4, <3>2, <3>3
  <2>. QED BY <2>1, <2>2 DEF EndInv
<1>6. CASE h = End
  <2>1. trainer' = "stopping" /\ batch' = batch
    BY <1>3, <1>6 DEF Collect
  <2>2. QueueTypes'
    BY <1>1, <1>4, <2>1 DEF QueueInv, QueueTypes, TrainerPlaces, Stopped
  <2>3. PlaceInv'
    BY <1>1, <1>3, <1>4, <1>6, <2>1, SampleTypes DEF QueueInv, PlaceInv
  <2>4. main # "streaming"
    BY <1>3, <1>6 DEF QueueInv, EndInv
  <2>5. main # "failed" => queue' = <<>>
    <3>1. SUFFICES ASSUME main \in {"signalled", "done"} PROVE queue' = <<>>
      BY <2>4 DEF RollInv, RollTypes
    <3>2. Len(queue) = 1
      BY <1>4, <1>6, <3>1 DEF QueueInv, EndInv
    <3>3. Len(queue') = 0
      BY <1>4, <3>2
    <3>. QED BY <1>4, <3>3
  <2>6. AsyncStopInv'
    BY <1>1, <2>1, <2>4, <2>5 DEF QueueInv, AsyncStopInv, Stopped
  <2>. QED BY <1>5, <2>2, <2>3, <2>6 DEF QueueInv
<1>7. CASE h # End
  <2>1. /\ batch' = Append(batch, h) /\ h \in Samples
        /\ trainer' = IF Len(batch') = Required THEN "train" ELSE "collect"
    BY <1>3, <1>7 DEF Collect
  <2>2. batch \in Seq(Samples) /\ IsInjective(batch) /\ h \notin ToSet(batch)
    BY <1>3 DEF QueueInv, QueueTypes, PlaceInv
  <2>3. /\ batch' \in Seq(Samples) /\ IsInjective(batch')
        /\ ToSet(batch') = ToSet(batch) \cup {h}
        /\ Len(batch') = Len(batch) + 1
    BY <2>1, <2>2, AppendFacts
  <2>4. QueueTypes'
    BY <1>1, <1>4, <2>1, <2>3 DEF QueueInv, QueueTypes, TrainerPlaces
  <2>5. PlaceInv'
    BY <1>1, <1>3, <1>4, <2>3 DEF QueueInv, PlaceInv
  <2>6. Len(batch) \in Nat /\ Len(batch) < Required
    BY <1>1, <2>2 DEF QueueInv, AsyncStopInv
  <2>7. AsyncStopInv'
    BY <1>1, <2>1, <2>3, <2>6, SampleTypes DEF QueueInv, AsyncStopInv, Stopped
  <2>. QED BY <1>5, <2>4, <2>5, <2>7 DEF QueueInv
<1>. QED BY <1>6, <1>7

LEMMA TrainQueue == ASSUME QueueInv, Train PROVE QueueInv'
<1>1. /\ trainer = "train" /\ trained' = trained \cup ToSet(batch) /\ batch' = <<>>
      /\ trainer' \in {"collect", "sync"}
      /\ UNCHANGED <<queue, dropped, status, main, want, lock>>
  BY DEF Train, rvars, qvars
<1>2. ToSet(batch') = {} /\ IsInjective(batch') /\ Len(batch') = 0
      /\ batch' \in Seq(Samples)
  BY <1>1 DEF ToSet, IsInjective
<1>3. ToSet(batch) \subseteq Samples
  BY DEF QueueInv, QueueTypes, ToSet
<1>4. QueueTypes'
  BY <1>1, <1>2, <1>3 DEF QueueInv, QueueTypes, TrainerPlaces
<1>5. PlaceInv'
  BY <1>1, <1>2 DEF QueueInv, PlaceInv
<1>6. EndInv'
  BY <1>1 DEF QueueInv, EndInv
<1>7. AsyncStopInv'
  BY <1>1, <1>2, SampleTypes DEF QueueInv, AsyncStopInv, Stopped
<1>. QED BY <1>4, <1>5, <1>6, <1>7 DEF QueueInv

\* The steps of the trainer that handle no sample.
LEMMA UpdateQueue ==
  ASSUME QueueInv, ResetAsks \/ ResetBegins \/ ResetEnds \/ Save \/ LastUpdate
  PROVE  QueueInv'
<1>1. UNCHANGED <<queue, dropped, status, main, batch, trained>>
  BY DEF ResetAsks, ResetBegins, ResetEnds, Save, LastUpdate, rvars, qvars, tvars
<1>2. PlaceInv' /\ EndInv'
  BY <1>1 DEF QueueInv, PlaceInv, EndInv
<1>3. trainer' \in TrainerPlaces => QueueTypes'
  BY <1>1 DEF QueueInv, QueueTypes
<1>4. CASE ResetAsks
  <2>1. trainer' = trainer /\ want' = want \cup {"reset"} /\ lock' = lock
        /\ trainer \in {"sync", "last_sync"}
    BY <1>4 DEF ResetAsks, tvars
  <2>2. AsyncStopInv'
    BY <1>1, <2>1 DEF QueueInv, AsyncStopInv
  <2>. QED BY <1>2, <1>3, <2>1, <2>2 DEF QueueInv, QueueTypes
<1>5. CASE ResetBegins
  <2>1. /\ "reset" \in want /\ want' = want \ {"reset"} /\ lock' = "reset"
        /\ trainer' = IF trainer = "sync" THEN "resetting" ELSE "last_resetting"
    BY <1>5 DEF ResetBegins
  <2>2. trainer \in {"sync", "last_sync"}
    BY <2>1 DEF QueueInv, AsyncStopInv
  <2>3. AsyncStopInv' /\ trainer' \in TrainerPlaces
    BY <1>1, <2>1, <2>2 DEF QueueInv, AsyncStopInv, Stopped, TrainerPlaces
  <2>. QED BY <1>2, <1>3, <2>3 DEF QueueInv
<1>6. CASE ResetEnds
  <2>1. /\ lock = "reset" /\ lock' = "free" /\ want' = want
        /\ trainer' = IF trainer = "resetting" THEN "save" ELSE "last_save"
    BY <1>6 DEF ResetEnds
  <2>2. trainer \in {"resetting", "last_resetting"}
    BY <2>1 DEF QueueInv, AsyncStopInv
  <2>3. AsyncStopInv' /\ trainer' \in TrainerPlaces
    BY <1>1, <2>1, <2>2 DEF QueueInv, AsyncStopInv, Stopped, TrainerPlaces
  <2>. QED BY <1>2, <1>3, <2>3 DEF QueueInv
<1>7. CASE Save
  <2>1. /\ trainer \in {"save", "last_save"} /\ want' = want /\ lock' = lock
        /\ trainer' = IF trainer = "save" THEN "collect" ELSE "done"
    BY <1>7 DEF Save, rvars
  <2>2. AsyncStopInv' /\ trainer' \in TrainerPlaces
    BY <1>1, <2>1 DEF QueueInv, AsyncStopInv, Stopped, TrainerPlaces
  <2>. QED BY <1>2, <1>3, <2>2 DEF QueueInv
<1>8. CASE LastUpdate
  <2>1. /\ trainer = "stopping" /\ want' = want /\ lock' = lock
        /\ trainer' \in {"last_sync", "last_save"}
    BY <1>8 DEF LastUpdate, rvars
  <2>2. AsyncStopInv' /\ trainer' \in TrainerPlaces
    BY <1>1, <2>1 DEF QueueInv, AsyncStopInv, Stopped, TrainerPlaces
  <2>. QED BY <1>2, <1>3, <2>2 DEF QueueInv
<1>. QED BY <1>4, <1>5, <1>6, <1>7, <1>8

--------------------------------------------------------------------------------
(* The numbers. *)

LEMMA SubsetCount ==
  ASSUME NEW S \in SUBSET Samples
  PROVE  IsFiniteSet(S) /\ Cardinality(S) \in Nat
<1>1. IsFiniteSet(Samples)
  BY SampleTypes, FS_Interval
<1>. QED BY <1>1, FS_Subset, FS_CardinalityType

LEMMA EntryCount ==
  ASSUME NEW q \in Seq(Samples \cup {End})
  PROVE  /\ Cardinality(ToSet(q) \ {End}) \in Nat /\ Len(q) \in Nat
         /\ IsFiniteSet(ToSet(q) \ {End})
         /\ Cardinality(ToSet(q) \ {End}) <= Len(q)
<1>1. PICK n \in Nat : n = Len(q) /\ DOMAIN q = 1 .. n
  OBVIOUS
<1>2. IsFiniteSet(1 .. n) /\ Cardinality(1 .. n) = n
  <2>1. IsFiniteSet(1 .. n) /\ Cardinality(1 .. n) = IF 1 > n THEN 0 ELSE n - 1 + 1
    BY FS_Interval
  <2>. QED BY <2>1
<1>3. q \in Surjection(1 .. n, ToSet(q))
  <2>1. \A k \in 1 .. n : q[k] \in ToSet(q)
    BY <1>1 DEF ToSet
  <2>2. \A t \in ToSet(q) : \E k \in 1 .. n : q[k] = t
    BY <1>1 DEF ToSet
  <2>3. q \in [1 .. n -> ToSet(q)]
    BY <1>1, <2>1
  <2>. QED BY <2>2, <2>3 DEF Surjection
<1>4. IsFiniteSet(ToSet(q)) /\ Cardinality(ToSet(q)) <= n
  BY <1>2, <1>3, FS_Surjection
<1>5. ToSet(q) \ {End} \in SUBSET Samples
  BY DEF ToSet
<1>6. /\ IsFiniteSet(ToSet(q) \ {End}) /\ Cardinality(ToSet(q) \ {End}) \in Nat
      /\ Cardinality(ToSet(q) \ {End}) <= Cardinality(ToSet(q))
      /\ Cardinality(ToSet(q)) \in Nat
  BY <1>4, <1>5, SubsetCount, FS_Subset, FS_CardinalityType
<1>. QED BY <1>1, <1>4, <1>6

\* The part of the version's samples that the rollouter and the queue have, and the
\* part that the trainer has.
Ahead    == Cardinality(Generating) + Cardinality(Queued) + Held
Consumed == Len(batch) + (step - 1) * Required

LEMMA Counts ==
  ASSUME QueueTypes, NumberInv
  PROVE  /\ IsFiniteSet(Generating) /\ Cardinality(Generating) \in Nat
         /\ IsFiniteSet(Queued) /\ Cardinality(Queued) \in Nat /\ Held \in 0 .. 1
         /\ Ahead \in Nat /\ Consumed \in Nat /\ InVersion = Ahead + Consumed
         /\ Cardinality(Queued) <= Len(queue) /\ Len(queue) \in Nat
<1>1. Cardinality(Generating) \in Nat /\ IsFiniteSet(Generating)
  BY SubsetCount DEF Generating
<1>2. /\ Cardinality(Queued) \in Nat /\ Cardinality(Queued) <= Len(queue)
      /\ Len(queue) \in Nat /\ IsFiniteSet(Queued)
  BY EntryCount DEF Queued, QueueTypes
<1>3. Held \in 0 .. 1
  BY DEF Held
<1>4. Len(batch) \in Nat /\ step - 1 \in Nat /\ Required \in Nat
  BY SampleTypes DEF QueueTypes, NumberInv
<1>5. PICK m \in Nat : m = (step - 1) * Required
  BY <1>4
<1>. QED BY <1>1, <1>2, <1>3, <1>4, <1>5 DEF Ahead, Consumed, InVersion

\* The same of the next state.
LEMMA CountsNext ==
  ASSUME QueueTypes', NumberInv'
  PROVE  /\ IsFiniteSet(Generating') /\ Cardinality(Generating') \in Nat
         /\ IsFiniteSet(Queued') /\ Cardinality(Queued') \in Nat /\ Held' \in 0 .. 1
         /\ Ahead' \in Nat /\ Consumed' \in Nat /\ InVersion' = Ahead' + Consumed'
         /\ Cardinality(Queued') <= Len(queue') /\ Len(queue') \in Nat
<1>1. Cardinality(Generating') \in Nat /\ IsFiniteSet(Generating')
  BY SubsetCount DEF Generating
<1>2. /\ Cardinality(Queued') \in Nat /\ Cardinality(Queued') <= Len(queue')
      /\ Len(queue') \in Nat /\ IsFiniteSet(Queued')
  BY EntryCount DEF Queued, QueueTypes
<1>3. Held' \in 0 .. 1
  BY DEF Held
<1>4. Len(batch') \in Nat
  BY DEF QueueTypes
<1>5. PICK t \in 1 .. Trigger : t = step'
  BY DEF NumberInv
<1>6. PICK m \in Nat : m = (t - 1) * Required
  <2>1. t - 1 \in Nat /\ Required \in Nat
    BY SampleTypes
  <2>. QED BY <2>1
<1>7. PICK g \in Nat, q \in Nat, h \in 0 .. 1, b \in Nat :
        /\ g = Cardinality(Generating') /\ q = Cardinality(Queued') /\ h = Held'
        /\ b = Len(batch')
  BY <1>1, <1>2, <1>3, <1>4
<1>8. Ahead' = g + q + h /\ Consumed' = b + m /\ InVersion' = g + q + h + b + m
  BY <1>5, <1>6, <1>7 DEF Ahead, Consumed, InVersion
<1>9. g + q + h \in Nat /\ b + m \in Nat /\ g + q + h + b + m = (g + q + h) + (b + m)
  OBVIOUS
<1>. QED BY <1>1, <1>2, <1>3, <1>8, <1>9

\* A step that moves samples on, or loses them, keeps the bound.
LEMMA MovesOn ==
  ASSUME QueueInv, BoundInv, QueueInv', NumberInv', AsyncStepInv', LockInv',
         staleness' = staleness,
         Ahead' + Consumed' <= Ahead + Consumed,
         proc \in {"done", "failed"} => proc' \in {"done", "failed"},
         lock' = "reset" =>
           /\ lock = "reset" /\ count' = count /\ Len(queue') >= Len(queue)
           /\ Ahead' <= Ahead
  PROVE  BoundInv'
<1>1. PICK a \in Nat, c \in Nat, n \in Nat :
        a = Ahead /\ c = Consumed /\ n = Len(queue) /\ InVersion = a + c
  BY Counts DEF QueueInv, BoundInv
<1>2. PICK b \in Nat, d \in Nat, m \in Nat :
        b = Ahead' /\ d = Consumed' /\ m = Len(queue') /\ InVersion' = b + d
  BY CountsNext DEF QueueInv
<1>3. b + d <= a + c
  BY <1>1, <1>2
<1>4. RolloutBound'
  <2>1. a + c <= MaxRequired + 1
    BY <1>1 DEF BoundInv, RolloutBound
  <2>2. b + d <= MaxRequired + 1
    BY <1>3, <2>1, SampleTypes
  <2>. QED BY <1>2, <2>2 DEF RolloutBound
<1>5. ASSUME proc' \notin {"done", "failed"} PROVE InVersion' <= staleness' + 1
  <2>1. a + c <= staleness + 1 /\ staleness \in Nat
    BY <1>1, <1>5 DEF BoundInv, CoverInv, NumberInv
  <2>2. b + d <= staleness + 1
    BY <1>3, <2>1
  <2>. QED BY <1>2, <2>2
<1>6. ASSUME lock' = "reset" PROVE Ahead' <= count' + Len(queue') + 1
  <2>1. a <= count + n + 1 /\ count \in Nat
    BY <1>1, <1>6 DEF BoundInv, CoverInv, NumberInv, Ahead
  <2>2. b <= a /\ m >= n /\ count' = count
    BY <1>1, <1>2, <1>6
  <2>. QED BY <1>2, <2>1, <2>2
<1>7. CoverInv'
  BY <1>5, <1>6 DEF CoverInv, Ahead
<1>. QED BY <1>4, <1>7 DEF BoundInv

LEMMA SameNumbers ==
  ASSUME NumberInv, UNCHANGED <<staleness, count, step>> PROVE NumberInv'
BY DEF NumberInv

\* The processor's steps but for Get hold no new sample.
LEMMA ProcessorBound ==
  ASSUME RollInv, QueueInv, BoundInv, QueueInv', Processor, ~Get PROVE BoundInv'
<1>1. /\ UNCHANGED <<staleness, count, step, queue, batch, trainer>>
      /\ proc \notin {"done", "failed"} /\ proc # "get"
  BY DEF Processor, Check, Pause, Wait, WaitReturns, Resume, Submit, ProcUnchanged,
         qvars, tvars, Get
<1>2. NumberInv' /\ AsyncStepInv'
  BY <1>1, SameNumbers DEF BoundInv, AsyncStepInv
<1>3. lock' # "reset" /\ LockInv'
  <2>1. CASE Check
    BY <2>1, SampleTypes DEF Check, BoundInv, LockInv, ShouldPause, NumberInv
  <2>2. CASE Pause \/ Wait \/ Resume \/ Submit
    BY <2>2 DEF Pause, Wait, Resume, Submit, BoundInv, LockInv, LockFree
  <2>3. CASE WaitReturns
    BY <2>3 DEF WaitReturns, LockInv
  <2>. QED BY <2>1, <2>2, <2>3, <1>1 DEF Processor
<1>4. Queued' = Queued /\ Consumed' = Consumed
  BY <1>1 DEF Queued, Consumed
<1>5. Ahead' <= Ahead
  <2>1. CASE status' = status /\ Held' <= Held
    <3>1. Generating' = Generating
      BY <2>1 DEF Generating
    <3>2. PICK g \in Nat, q \in Nat, h \in 0 .. 1, k \in 0 .. 1 :
            /\ g = Cardinality(Generating) /\ q = Cardinality(Queued)
            /\ h = Held /\ k = Held' /\ k <= h
      BY <2>1, Counts DEF QueueInv, BoundInv, Held
    <3>3. Ahead = g + q + h /\ Ahead' = g + q + k
      BY <1>4, <3>1, <3>2 DEF Ahead
    <3>. QED BY <3>2, <3>3
  <2>2. CASE Submit
    <3>1. /\ status' = [status EXCEPT ![taken] = "generating"]
          /\ proc = "submit" /\ proc' = "check"
          /\ taken \in Samples /\ status[taken] = "pending"
      BY <2>2 DEF Submit, RollInv, FedInv
    <3>2. Generating' = Generating \cup {taken} /\ taken \notin Generating
      BY <3>1 DEF Generating, RollInv, RollTypes
    <3>3. Cardinality(Generating') = Cardinality(Generating) + 1
      BY <3>2, Counts, FS_AddElement DEF QueueInv, BoundInv
    <3>4. Held = 1 /\ Held' = 0
      BY <3>1 DEF Held
    <3>5. PICK g \in Nat, q \in Nat : g = Cardinality(Generating) /\ q = Cardinality(Queued)
      BY Counts DEF QueueInv, BoundInv
    <3>6. Ahead = g + q + 1 /\ Ahead' = g + 1 + q + 0
      BY <1>4, <3>3, <3>4, <3>5 DEF Ahead
    <3>. QED BY <3>5, <3>6
  <2>3. CASE Check \/ Pause \/ Wait \/ Resume
    BY <2>1, <2>3 DEF Check, Pause, Wait, Resume, ProcUnchanged, Held
  <2>4. CASE WaitReturns
    BY <2>1, <2>4 DEF WaitReturns, ProcUnchanged, Held
  <2>. QED BY <2>2, <2>3, <2>4, <1>1 DEF Processor
<1>6. Ahead' + Consumed' <= Ahead + Consumed
  <2>1. PICK a \in Nat, c \in Nat, b \in Nat :
          a = Ahead /\ c = Consumed /\ b = Ahead' /\ c = Consumed'
    BY <1>2, <1>4, Counts, CountsNext DEF QueueInv, BoundInv
  <2>2. b <= a
    BY <1>5, <2>1
  <2>3. b + c <= a + c
    BY <2>2
  <2>. QED BY <2>1, <2>3
<1>. QED BY <1>1, <1>2, <1>3, <1>6, MovesOn

\* The processor takes an entry only while staleness is below the limit, and counts it.
LEMMA GetBound ==
  ASSUME RollInv, QueueInv, BoundInv, QueueInv', Get PROVE BoundInv'
<1>1. /\ UNCHANGED <<count, step, queue, batch, trainer, status, lock>>
      /\ staleness' = staleness + 1 /\ proc = "get"
      /\ proc' \in {"done", "last_drain", "limit", "submit"}
  BY DEF Get, NextSubmission, ProcUnchanged, qvars, tvars
<1>2. PICK n \in Nat : n = staleness /\ n < MaxRequired
  BY <1>1 DEF BoundInv, NumberInv, LockInv
<1>3. NumberInv' /\ AsyncStepInv'
  BY <1>1, <1>2 DEF BoundInv, AsyncStepInv, NumberInv
<1>4. LockInv' /\ lock' # "reset"
  BY <1>1 DEF BoundInv, LockInv
<1>5. Generating' = Generating /\ Queued' = Queued /\ Consumed' = Consumed
  BY <1>1 DEF Generating, Queued, Consumed
<1>6. PICK g \in Nat, q \in Nat, c \in Nat, k \in 0 .. 1 :
        /\ g = Cardinality(Generating) /\ q = Cardinality(Queued) /\ c = Consumed
        /\ k = Held' /\ Held = 0
  BY <1>1, Counts DEF QueueInv, BoundInv, Held
<1>7. Ahead = g + q /\ Ahead' = g + q + k
  BY <1>5, <1>6 DEF Ahead
<1>8. g + q + c <= n + 1
  <2>1. InVersion = g + q + c
    BY <1>6, <1>7, Counts DEF QueueInv, BoundInv
  <2>. QED BY <1>1, <1>2, <2>1 DEF BoundInv, CoverInv
<1>9. InVersion' = g + q + k + c
  BY <1>3, <1>5, <1>6, <1>7, CountsNext DEF QueueInv
<1>10. g + q + k + c <= n + 1 + 1 /\ g + q + k + c <= MaxRequired + 1
  <2>1. n + 1 <= MaxRequired /\ MaxRequired \in Nat
    BY <1>2, SampleTypes
  <2>2. g + q + k + c <= (g + q + c) + 1
    OBVIOUS
  <2>. QED BY <1>8, <2>1, <2>2
<1>11. RolloutBound'
  BY <1>9, <1>10 DEF RolloutBound
<1>12. CoverInv'
  BY <1>1, <1>2, <1>4, <1>9, <1>10 DEF CoverInv
<1>. QED BY <1>3, <1>4, <1>11, <1>12 DEF BoundInv

\* A task that puts its sample moves it on, and one that fails loses it.
LEMMA TaskBound ==
  ASSUME RollInv, QueueInv, BoundInv, QueueInv', NEW s \in Samples, Task(s)
  PROVE  BoundInv'
<1>1. UNCHANGED <<staleness, count, step, batch, trainer, proc, lock>>
  BY DEF Task, TaskPut, TaskEnds, TaskFails, TaskUnchanged, tvars
<1>2. NumberInv' /\ AsyncStepInv' /\ LockInv'
  BY <1>1, SameNumbers DEF BoundInv, AsyncStepInv, LockInv
<1>3. Consumed' = Consumed /\ Held' = Held
  BY <1>1 DEF Consumed, Held
<1>4. PICK g \in Nat, q \in Nat, h \in 0 .. 1, c \in Nat, len \in Nat :
        /\ g = Cardinality(Generating) /\ q = Cardinality(Queued) /\ h = Held
        /\ c = Consumed /\ len = Len(queue)
  BY Counts DEF QueueInv, BoundInv
<1>5. PICK g2 \in Nat, q2 \in Nat, len2 \in Nat :
        /\ g2 = Cardinality(Generating') /\ q2 = Cardinality(Queued') /\ len2 = Len(queue')
  BY <1>2, CountsNext DEF QueueInv
<1>6. g2 + q2 <= g + q /\ len2 >= len
  <2>1. CASE TaskPut(s)
    <3>1. /\ status[s] = "generating" /\ status' = [status EXCEPT ![s] = "put"] /\ Put(s)
      BY <2>1 DEF TaskPut
    <3>2. Generating' = Generating \ {s} /\ s \in Generating
      BY <3>1 DEF Generating, RollInv, RollTypes
    <3>3. g2 = g - 1
      BY <1>4, <1>5, <3>2, Counts, FS_RemoveElement DEF QueueInv, BoundInv
    <3>4. s \notin ToSet(queue) /\ queue \in Seq(Samples \cup {End}) /\ IsInjective(queue)
      BY <3>1 DEF QueueInv, PlaceInv, QueueTypes
    <3>5. ToSet(queue') \subseteq ToSet(queue) \cup {s}
      BY <3>1, <3>4, PutFacts
    <3>6. Queued' \subseteq Queued \cup {s} /\ s \notin Queued
      BY <3>4, <3>5 DEF Queued
    <3>7. IsFiniteSet(Queued \cup {s}) /\ Cardinality(Queued \cup {s}) = q + 1
      BY <1>4, <3>6, Counts, FS_AddElement DEF QueueInv, BoundInv
    <3>8. q2 <= q + 1
      BY <1>5, <3>6, <3>7, FS_Subset
    <3>9. len2 >= len
      BY <1>4, <1>5, <3>1, PutLen DEF QueueInv, QueueTypes
    <3>. QED BY <3>3, <3>8, <3>9
  <2>2. CASE TaskEnds(s) \/ TaskFails(s)
    <3>1. queue' = queue
      BY <2>2 DEF TaskEnds, TaskFails, qvars
    <3>2. Generating' \subseteq Generating
      BY <2>2 DEF TaskEnds, TaskFails, Generating, RollInv, RollTypes
    <3>3. g2 <= g
      BY <1>4, <1>5, <3>2, Counts, FS_Subset DEF QueueInv, BoundInv
    <3>4. q2 = q /\ len2 = len
      BY <1>4, <1>5, <3>1 DEF Queued
    <3>. QED BY <3>3, <3>4
  <2>. QED BY <2>1, <2>2 DEF Task
<1>7. Ahead = g + q + h /\ Ahead' = g2 + q2 + h /\ Consumed' = c
  BY <1>3, <1>4, <1>5 DEF Ahead
<1>8. Ahead' <= Ahead /\ Ahead' + Consumed' <= Ahead + Consumed
  <2>1. g2 + q2 + h <= g + q + h /\ g2 + q2 + h + c <= g + q + h + c
    BY <1>6
  <2>. QED BY <1>4, <1>7, <2>1
<1>9. Len(queue') >= Len(queue)
  BY <1>4, <1>5, <1>6
<1>. QED BY <1>1, <1>2, <1>8, <1>9, MovesOn

LEMMA SignalBound ==
  ASSUME RollInv, QueueInv, BoundInv, QueueInv', Signal PROVE BoundInv'
<1>1. /\ UNCHANGED <<staleness, count, step, batch, trainer, proc, lock, status>>
      /\ main = "streaming" /\ Put(End)
  BY DEF Signal, LoopUnchanged, tvars
<1>2. NumberInv' /\ AsyncStepInv' /\ LockInv'
  BY <1>1, SameNumbers DEF BoundInv, AsyncStepInv, LockInv
<1>3. Consumed' = Consumed /\ Held' = Held /\ Generating' = Generating
  BY <1>1 DEF Consumed, Held, Generating
<1>4. End \notin ToSet(queue) /\ queue \in Seq(Samples \cup {End}) /\ IsInjective(queue)
  BY <1>1 DEF QueueInv, EndInv, PlaceInv, QueueTypes
<1>5. ToSet(queue') \subseteq ToSet(queue) \cup {End}
  BY <1>1, <1>4, PutFacts
<1>6. Queued' \subseteq Queued
  BY <1>5 DEF Queued
<1>7. PICK g \in Nat, q \in Nat, h \in 0 .. 1, c \in Nat, q2 \in Nat :
        /\ g = Cardinality(Generating) /\ q = Cardinality(Queued) /\ h = Held
        /\ c = Consumed /\ q2 = Cardinality(Queued') /\ q2 <= q
  BY <1>2, <1>6, Counts, CountsNext, FS_Subset DEF QueueInv, BoundInv
<1>8. Ahead = g + q + h /\ Ahead' = g + q2 + h /\ Consumed' = c
  BY <1>3, <1>7 DEF Ahead
<1>9. Ahead' <= Ahead /\ Ahead' + Consumed' <= Ahead + Consumed
  <2>1. g + q2 + h <= g + q + h /\ g + q2 + h + c <= g + q + h + c
    BY <1>7
  <2>. QED BY <1>7, <1>8, <2>1
<1>10. Len(queue') >= Len(queue)
  BY <1>1, <1>4, PutLen
<1>. QED BY <1>1, <1>2, <1>9, <1>10, MovesOn

\* Steps that leave the samples where they are, and start no reset.
LEMMA StaysBound ==
  ASSUME RollInv, QueueInv, BoundInv, QueueInv',
         UNCHANGED <<staleness, count, step, batch, queue, status, proc>>,
         \/ UNCHANGED <<trainer, lock>>
         \/ lock' = lock /\ lock # "reset" /\ trainer' \notin {"train", "sync", "resetting"}
  PROVE  BoundInv'
<1>1. NumberInv' /\ AsyncStepInv' /\ LockInv'
  BY SameNumbers DEF BoundInv, AsyncStepInv, LockInv
<1>2. Consumed' = Consumed /\ Ahead' = Ahead
  BY DEF Consumed, Ahead, Held, Generating, Queued
<1>3. Ahead' <= Ahead /\ Ahead' + Consumed' <= Ahead + Consumed
  <2>1. PICK a \in Nat, c \in Nat : a = Ahead /\ c = Consumed
    BY Counts DEF QueueInv, BoundInv
  <2>. QED BY <1>2, <2>1
<1>4. Len(queue') >= Len(queue)
  BY DEF QueueInv, QueueTypes
<1>. QED BY <1>1, <1>3, <1>4, MovesOn

LEMMA LoopBound ==
  ASSUME RollInv, QueueInv, BoundInv, QueueInv', Stop \/ Monitor PROVE BoundInv'
<1>1. UNCHANGED <<staleness, count, step, batch, queue, status, proc, trainer, lock>>
  BY DEF Stop, Monitor, MonitorAsks, MonitorPolls, MonitorWakes, MonitorResumes,
         LoopUnchanged, qvars, tvars
<1>. QED BY <1>1, StaysBound

LEMMA CollectBound ==
  ASSUME RollInv, QueueInv, BoundInv, QueueInv', Collect PROVE BoundInv'
<1>1. /\ trainer = "collect" /\ queue # <<>> /\ queue' = Tail(queue)
      /\ UNCHANGED <<staleness, count, step, status, proc, lock>>
  BY DEF Collect, rvars
<1>2. lock' # "reset"
  BY <1>1 DEF QueueInv, AsyncStopInv
<1>3. NumberInv' /\ LockInv'
  BY <1>1, SameNumbers DEF BoundInv, LockInv
<1>4. AsyncStepInv'
  BY DEF Collect, AsyncStepInv
<1>5. queue \in Seq(Samples \cup {End}) /\ IsInjective(queue)
  BY DEF QueueInv, QueueTypes, PlaceInv
<1>6. PICK x \in Samples \cup {End} :
        x = Head(queue) /\ x \in ToSet(queue) /\ ToSet(queue') = ToSet(queue) \ {x}
  BY <1>1, <1>5, TailFacts
<1>7. PICK g \in Nat, q \in Nat, h \in 0 .. 1, q2 \in Nat :
        /\ g = Cardinality(Generating) /\ q = Cardinality(Queued) /\ h = Held
        /\ q2 = Cardinality(Queued')
  BY <1>3, Counts, CountsNext DEF QueueInv, BoundInv
<1>8. Generating' = Generating /\ Held' = Held
  BY <1>1 DEF Generating, Held
<1>9. PICK b \in Nat, m \in Nat : b = Len(batch) /\ m = (step - 1) * Required
  <2>1. Len(batch) \in Nat /\ step - 1 \in Nat /\ Required \in Nat
    BY SampleTypes DEF QueueInv, QueueTypes, BoundInv, NumberInv
  <2>. QED BY <2>1
<1>10. \/ q2 = q /\ Len(batch') = b
       \/ q2 = q - 1 /\ Len(batch') = b + 1
  <2>1. CASE x = End
    BY <1>6, <1>7, <1>9, <2>1 DEF Collect, Queued
  <2>2. CASE x # End
    <3>1. Queued' = Queued \ {x} /\ x \in Queued
      BY <1>6, <2>2 DEF Queued
    <3>2. q2 = q - 1
      BY <1>7, <3>1, Counts, FS_RemoveElement DEF QueueInv, BoundInv
    <3>3. batch' = Append(batch, x) /\ batch \in Seq(Samples)
      BY <1>6, <2>2 DEF Collect, QueueInv, QueueTypes
    <3>. QED BY <1>9, <3>2, <3>3
  <2>. QED BY <2>1, <2>2
<1>11. PICK b2 \in Nat : b2 = Len(batch')
  BY <1>9, <1>10
<1>12. /\ Ahead = g + q + h /\ Ahead' = g + q2 + h
       /\ Consumed = b + m /\ Consumed' = b2 + m
  BY <1>1, <1>7, <1>8, <1>9, <1>11 DEF Ahead, Consumed
<1>13. Ahead' + Consumed' <= Ahead + Consumed
  <2>1. g + q2 + h + (b2 + m) <= g + q + h + (b + m)
    BY <1>10, <1>11
  <2>. QED BY <1>12, <2>1
<1>. QED BY <1>1, <1>2, <1>3, <1>4, <1>13, MovesOn

LEMMA TrainBound ==
  ASSUME RollInv, QueueInv, BoundInv, QueueInv', Train PROVE BoundInv'
<1>1. /\ trainer = "train" /\ batch' = <<>>
      /\ UNCHANGED <<staleness, count, status, proc, lock, queue>>
  BY DEF Train, rvars, qvars
<1>2. lock' # "reset"
  BY <1>1 DEF QueueInv, AsyncStopInv
<1>3. PICK t \in 1 .. Trigger, u \in 1 .. Trigger :
        /\ t = step /\ u = step'
        /\ \/ u = t + 1 /\ trainer' = "collect"
           \/ u = 1 /\ trainer' = "sync"
  BY SampleTypes DEF Train, BoundInv, NumberInv
<1>4. NumberInv' /\ LockInv' /\ AsyncStepInv'
  BY <1>1, <1>3 DEF BoundInv, LockInv, NumberInv, AsyncStepInv
<1>5. Ahead' = Ahead
  BY <1>1 DEF Ahead, Generating, Queued, Held
<1>6. Len(batch) = Required /\ Len(batch') = 0 /\ Required \in Nat
  BY <1>1, SampleTypes DEF BoundInv, AsyncStepInv
<1>7. Consumed = Required + (t - 1) * Required /\ Consumed' = 0 + (u - 1) * Required
  BY <1>3, <1>6 DEF Consumed
<1>8. 0 + (u - 1) * Required <= Required + (t - 1) * Required
  <2>1. PICK k \in Nat : k = t - 1
    BY SampleTypes
  <2>2. k * Required \in Nat /\ Required + k * Required = (k + 1) * Required
    BY <1>6
  <2>3. CASE u = t + 1
    BY <1>6, <2>1, <2>2, <2>3
  <2>4. CASE u = 1
    BY <1>6, <2>1, <2>2, <2>4
  <2>. QED BY <1>3, <2>3, <2>4
<1>9. Ahead' + Consumed' <= Ahead + Consumed
  <2>1. PICK a \in Nat, c \in Nat, d \in Nat :
          a = Ahead /\ c = Consumed /\ d = Consumed' /\ a = Ahead'
    BY <1>4, <1>5, Counts, CountsNext DEF QueueInv, BoundInv
  <2>2. d <= c
    BY <1>7, <1>8, <2>1
  <2>3. a + d <= a + c
    BY <2>2
  <2>. QED BY <2>1, <2>3
<1>. QED BY <1>1, <1>2, <1>4, <1>9, MovesOn

\* A reset counts the tasks that may still put a sample, ...
LEMMA ResetBeginsBound ==
  ASSUME RollInv, QueueInv, BoundInv, QueueInv', ResetBegins PROVE BoundInv'
<1>1. /\ UNCHANGED <<staleness, step, batch, queue, status, proc, active>>
      /\ lock' = "reset" /\ count' = Cardinality(active) /\ ~Busy
      /\ trainer' = IF trainer = "sync" THEN "resetting" ELSE "last_resetting"
      /\ lock = "free"
  BY DEF ResetBegins, qvars
<1>2. active \in SUBSET Samples /\ Generating \subseteq active
  BY DEF RollInv, RollTypes, ActiveInv, Generating
<1>3. IsFiniteSet(active) /\ Cardinality(active) \in Nat
  BY <1>2, SubsetCount
<1>4. NumberInv' /\ AsyncStepInv' /\ LockInv'
  BY <1>1, <1>3 DEF BoundInv, NumberInv, AsyncStepInv, LockInv, Busy
<1>5. /\ Generating' = Generating /\ Queued' = Queued /\ Held' = Held
      /\ InVersion' = InVersion
  BY <1>1 DEF Generating, Queued, Held, InVersion
<1>6. PICK g \in Nat, q \in Nat, h \in 0 .. 1, len \in Nat, n \in Nat :
        /\ g = Cardinality(Generating) /\ q = Cardinality(Queued) /\ h = Held
        /\ len = Len(queue) /\ n = Cardinality(active) /\ q <= len /\ g <= n
  BY <1>2, <1>3, Counts, FS_Subset DEF QueueInv, BoundInv
<1>7. g + q + h <= n + len + 1
  <2>1. g <= n /\ q <= len /\ h <= 1
    BY <1>6
  <2>. QED BY <2>1
<1>8. CoverInv'
  BY <1>1, <1>5, <1>6, <1>7 DEF BoundInv, CoverInv
<1>9. RolloutBound'
  BY <1>5 DEF BoundInv, RolloutBound
<1>. QED BY <1>4, <1>8, <1>9 DEF BoundInv

\* ... which covers the version it begins.
LEMMA ResetEndsBound ==
  ASSUME RollInv, QueueInv, BoundInv, QueueInv', ResetEnds PROVE BoundInv'
<1>1. /\ UNCHANGED <<step, batch, queue, status, proc, main>>
      /\ lock = "reset" /\ lock' = "free" /\ staleness' = count + Len(queue) /\ count' = 0
      /\ trainer' = IF trainer = "resetting" THEN "save" ELSE "last_save"
  BY DEF ResetEnds, qvars
<1>2. PICK a \in Nat, c \in Nat, n \in Nat, len \in Nat :
        a = Ahead /\ c = Consumed /\ n = count /\ len = Len(queue) /\ InVersion = a + c
  BY Counts DEF QueueInv, BoundInv, NumberInv
<1>3. NumberInv' /\ AsyncStepInv'
  <2>1. n + len \in Nat
    OBVIOUS
  <2>. QED BY <1>1, <1>2, <2>1 DEF BoundInv, NumberInv, AsyncStepInv
<1>4. LockInv'
  BY <1>1 DEF BoundInv, LockInv
<1>5. InVersion' = a + c
  BY <1>1, <1>2 DEF InVersion, Generating, Queued, Held
<1>6. ASSUME proc' \notin {"done", "failed"} PROVE a + c <= n + len + 1
  <2>1. main = "streaming"
    BY <1>1, <1>6 DEF RollInv, RollTypes, MainInv
  <2>2. trainer = "resetting"
    BY <1>1, <2>1 DEF QueueInv, AsyncStopInv, Stopped
  <2>3. step = 1 /\ Len(batch) = 0
    BY <2>2 DEF QueueInv, AsyncStopInv, BoundInv, AsyncStepInv
  <2>4. c = 0
    BY <1>2, <2>3, SampleTypes DEF Consumed
  <2>5. a <= n + len + 1
    BY <1>1, <1>2 DEF BoundInv, CoverInv, Ahead
  <2>. QED BY <2>4, <2>5
<1>7. CoverInv'
  BY <1>1, <1>2, <1>5, <1>6 DEF CoverInv
<1>8. RolloutBound'
  BY <1>2, <1>5 DEF BoundInv, RolloutBound
<1>. QED BY <1>3, <1>4, <1>7, <1>8 DEF BoundInv

LEMMA UpdateBound ==
  ASSUME RollInv, QueueInv, BoundInv, QueueInv', ResetAsks \/ Save \/ LastUpdate
  PROVE  BoundInv'
<1>1. UNCHANGED <<staleness, count, step, batch, queue, status, proc, lock>>
  BY DEF ResetAsks, Save, LastUpdate, rvars, qvars, tvars
<1>2. ResetAsks => trainer' = trainer
  BY DEF ResetAsks, tvars
<1>3. Save \/ LastUpdate =>
        lock # "reset" /\ trainer' \notin {"train", "sync", "resetting"}
  BY DEF Save, LastUpdate, QueueInv, AsyncStopInv
<1>. QED BY <1>1, <1>2, <1>3, StaysBound

--------------------------------------------------------------------------------
AsyncInv == RollInv /\ QueueInv /\ BoundInv

LEMMA InitAsync == AsyncInit => AsyncInv
<1>. SUFFICES ASSUME AsyncInit PROVE AsyncInv
  OBVIOUS
<1>. USE SampleTypes DEF AsyncInit
<1>1. RollInv
  BY DEF RollInv, RollTypes, FedInv, ActiveInv, MainInv, ProcPlaces, Statuses
<1>2. ToSet(queue) = {} /\ ToSet(batch) = {} /\ IsInjective(queue) /\ IsInjective(batch)
      /\ Len(batch) = 0 /\ Len(queue) = 0
  BY DEF ToSet, IsInjective
<1>3. QueueInv
  BY <1>2 DEF QueueInv, QueueTypes, PlaceInv, EndInv, AsyncStopInv, Stopped, TrainerPlaces
<1>4. NumberInv /\ AsyncStepInv /\ LockInv
  BY DEF NumberInv, AsyncStepInv, LockInv
<1>5. Generating = {} /\ Queued = {} /\ Held = 0 /\ Consumed = 0
  BY <1>2 DEF Generating, Queued, Held, Consumed
<1>6. InVersion = 0
  BY <1>3, <1>4, <1>5, Counts, FS_EmptySet DEF Ahead, QueueInv
<1>7. CoverInv /\ RolloutBound
  BY <1>6 DEF CoverInv, RolloutBound
<1>. QED BY <1>1, <1>3, <1>4, <1>7 DEF AsyncInv, BoundInv

LEMMA NextAsync == AsyncInv /\ [AsyncNext]_asyncVars => AsyncInv'
<1>. SUFFICES ASSUME AsyncInv, [AsyncNext]_asyncVars PROVE AsyncInv'
  OBVIOUS
<1>. USE DEF AsyncInv
<1>1. CASE Processor
  BY <1>1, ProcessorRoll, ProcessorQueue, ProcessorBound, GetBound
<1>2. ASSUME NEW s \in Samples, Task(s) PROVE AsyncInv'
  BY <1>2, TaskRoll, TaskQueue, TaskBound
<1>3. CASE Signal
  <2>1. RollInv'
    BY <1>3, SameRoll DEF Signal, LoopUnchanged
  <2>. QED BY <1>3, <2>1, SignalQueue, SignalBound
<1>4. CASE Stop \/ Monitor
  <2>1. UNCHANGED <<taken, proc, status, active>>
    BY <1>4 DEF Stop, Monitor, MonitorAsks, MonitorPolls, MonitorWakes, MonitorResumes,
                LoopUnchanged
  <2>2. \/ main' = main
        \/ main' = "done" /\ proc = "done"
    BY <1>4 DEF Stop, Monitor, MonitorAsks, MonitorPolls, MonitorWakes, MonitorResumes,
                RollInv, MainInv
  <2>3. RollInv'
    BY <2>1, <2>2, SameRoll
  <2>. QED BY <1>4, <2>3, LoopQueue, LoopBound
<1>5. CASE Trainer
  <2>1. RollInv'
    BY <1>5, SameRoll DEF Trainer, Collect, Train, ResetAsks, ResetBegins, ResetEnds,
                          Save, LastUpdate, rvars
  <2>. QED BY <1>5, <2>1, CollectQueue, TrainQueue, UpdateQueue, CollectBound, TrainBound,
              ResetBeginsBound, ResetEndsBound, UpdateBound DEF Trainer
<1>6. CASE UNCHANGED asyncVars
  <2>1. UNCHANGED <<taken, proc, status, active, main, queue, dropped, trainer, batch,
                    trained, want, lock, staleness, count, step>>
    BY <1>6 DEF asyncVars, rvars, qvars, tvars
  <2>2. RollInv'
    BY <2>1, SameRoll
  <2>3. QueueInv'
    BY <2>1, SameQueue
  <2>. QED BY <2>1, <2>2, <2>3, StaysBound
<1>7. CASE Finished
  BY <1>6, <1>7 DEF Finished
<1>. QED BY <1>1, <1>2, <1>3, <1>4, <1>5, <1>6, <1>7 DEF AsyncNext

\* The strengthened invariant: rollouter, queue and numbers.
THEOREM AsyncInvariance == AsyncSpec => []AsyncInv
BY InitAsync, NextAsync, PTL DEF AsyncSpec

\* For any sizes and schedules of the two actors: no sample is trained on twice, and none
\* is overtaken by the end signal of a rollouter that did not fail.
THEOREM TrainedOnceAlways == AsyncSpec => []TrainedOnce
<1>1. ASSUME AsyncInv PROVE TrainedOnce
  <2>1. IsInjective(batch \o queue)
    <3>1. /\ batch \in Seq(Samples \cup {End}) /\ queue \in Seq(Samples \cup {End})
          /\ IsInjective(batch) /\ IsInjective(queue) /\ ToSet(queue) \cap ToSet(batch) = {}
      BY <1>1 DEF AsyncInv, QueueInv, QueueTypes, PlaceInv
    <3>. QED BY <3>1, ConcatFacts
  <2>2. (ToSet(batch) \cup ToSet(queue)) \cap trained = {}
    BY <1>1 DEF AsyncInv, QueueInv, PlaceInv
  <2>3. ASSUME trainer = "done", main # "failed"
        PROVE  /\ Samples \subseteq trained \cup ToSet(batch) \cup dropped
               /\ Len(batch) < Required
    <3>1. main \in {"signalled", "done"} /\ queue = <<>> /\ Len(batch) < Required
      BY <1>1, <2>3 DEF AsyncInv, QueueInv, AsyncStopInv, Stopped, RollInv, RollTypes
    <3>2. ToSet(queue) = {}
      BY <3>1 DEF ToSet
    <3>3. ASSUME NEW s \in Samples PROVE s \in trained \cup ToSet(batch) \cup dropped
      <4>1. status[s] = "finished"
        BY <1>1, <3>1, AllFinished DEF AsyncInv, RollInv, MainInv
      <4>. QED BY <1>1, <3>2, <4>1 DEF AsyncInv, QueueInv, PlaceInv
    <3>. QED BY <3>1, <3>3
  <2>. QED BY <2>1, <2>2, <2>3 DEF TrainedOnce
<1>. QED BY <1>1, AsyncInvariance, PTL

\* For any staleness threshold, concurrency and interleaving of the resets: at most one
\* sample more than MaxRequired is under way in a version.
THEOREM RolloutBounded == AsyncSpec => []RolloutBound
<1>1. AsyncInv => RolloutBound
  BY DEF AsyncInv, BoundInv
<1>. QED BY <1>1, AsyncInvariance, PTL
--------------------------------------------------------------------------------
\* What a checkpoint lacks is what was trained in the version it was saved in, and the
\* one that is there at the end is of the last version.
LagInv ==
  /\ version \in Nat /\ ckpt.version \in Nat /\ ckpt.batches \in Int
  /\ ckpt.batches >= ckpt.version * Trigger
  /\ trainer = "done" => ckpt.version = version

LEMMA SameLag ==
  ASSUME LagInv, UNCHANGED <<version, ckpt>>, trainer' # "done" \/ trainer' = trainer
  PROVE  LagInv'
BY DEF LagInv

LEMMA SaveLag ==
  ASSUME AsyncInv, LagInv, Save
  PROVE  LagInv'
<1>1. /\ version \in Nat /\ version * Trigger \in Int /\ step \in 1 .. Trigger
      /\ version' = version
  BY FullyAsyncAssumption DEF AsyncInv, BoundInv, NumberInv, LagInv, Save
<1>2. CASE ckpt' = [version |-> version, batches |-> Batches]
  <2>1. ckpt'.version = version /\ ckpt'.batches = version * Trigger + step - 1
    BY <1>2 DEF Batches
  <2>. QED BY <1>1, <2>1 DEF LagInv
<1>3. CASE ckpt' = ckpt /\ (trainer' = "done" => ckpt.version = version)
  BY <1>1, <1>3 DEF LagInv
<1>4. \/ ckpt' = [version |-> version, batches |-> Batches]
      \/ ckpt' = ckpt /\ (trainer' = "done" => ckpt.version = version)
  <2>1. trainer' = "done" => trainer = "last_save"
    BY DEF Save
  <2>. QED BY <2>1 DEF Save
<1>. QED BY <1>2, <1>3, <1>4

LEMMA LagStep ==
  ASSUME AsyncInv, LagInv, [AsyncNext]_asyncVars
  PROVE  LagInv'
<1>1. CASE Processor \/ (\E s \in Samples : Task(s)) \/ Signal \/ Stop \/ Monitor
  <2>1. UNCHANGED tvars
    BY <1>1 DEF Processor, Check, Pause, Wait, WaitReturns, Resume, Get, Submit, ProcUnchanged,
                Task, TaskPut, TaskEnds, TaskFails, TaskUnchanged, Signal, Stop, Monitor,
                MonitorAsks, MonitorPolls, MonitorWakes, MonitorResumes, LoopUnchanged
  <2>. QED BY <2>1, SameLag DEF tvars
<1>2. CASE Save
  BY <1>2, SaveLag
<1>3. CASE Train
  <2>1. /\ trainer' # "done" /\ ckpt' = ckpt
        /\ version' = version \/ version' = version + 1
        /\ trainer = "train"
    BY <1>3 DEF Train
  <2>. QED BY <2>1 DEF LagInv
<1>4. CASE Collect \/ ResetAsks \/ ResetBegins \/ ResetEnds \/ LastUpdate
  BY <1>4, SameLag DEF Collect, ResetAsks, ResetBegins, ResetEnds, LastUpdate, tvars
<1>5. CASE Finished \/ UNCHANGED asyncVars
  BY <1>5, SameLag DEF Finished, asyncVars, tvars
<1>. QED BY <1>1, <1>2, <1>3, <1>4, <1>5 DEF AsyncNext, Trainer

\* The last checkpoint of a training that ended lacks less than one version's batches, for
\* any save frequency and length of a version.
THEOREM CheckpointLagBounded == AsyncSpec => []CheckpointLag
<1>1. AsyncInit => LagInv
  BY FullyAsyncAssumption DEF AsyncInit, LagInv
<1>2. AsyncInv /\ LagInv => CheckpointLag
  <2>. SUFFICES ASSUME AsyncInv, LagInv, trainer = "done" PROVE Batches - ckpt.batches < Trigger
    BY DEF CheckpointLag
  <2>1. /\ version * Trigger \in Int /\ ckpt.batches >= version * Trigger
        /\ step \in 1 .. Trigger /\ ckpt.batches \in Int /\ Trigger \in Int
    BY FullyAsyncAssumption DEF LagInv, AsyncInv, BoundInv, NumberInv
  <2>. QED BY <2>1 DEF Batches
<1>3. AsyncInv /\ LagInv /\ [AsyncNext]_asyncVars => LagInv'
  BY LagStep
<1>. QED BY <1>1, <1>2, <1>3, AsyncInvariance, PTL DEF AsyncSpec
================================================================================
