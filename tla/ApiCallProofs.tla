----------------------------- MODULE ApiCallProofs -----------------------------
(***************************************************************************)
(* Theorems about ApiCall for any number of prompts, keys, URLs, permits   *)
(* and attempts.                                                           *)
(***************************************************************************)
EXTENDS ApiCall, FiniteSetTheorems, TLAPS

(***************************************************************************)
(* The inductive invariant.  TypeOK and PermitsConserved are not inductive *)
(* alone: a wake-up must know that an attempt is left, a manager's return  *)
(* that its coroutines no longer change, the final scatter that every pair *)
(* it meets is the reply of the prompt it names.                           *)
(***************************************************************************)
AttemptsInv ==
  \A i \in Prompts :
    /\ pc[i] \in {"unborn", "queued", "calling", "sleeping"} => reply[i] = None
    /\ pc[i] = "sleeping" => attempt[i] < MaxRetry
    /\ pc[i] = "done" /\ reply[i] = None => attempt[i] = MaxRetry

ManagersInv ==
  \A c \in Keys :
    /\ manager[c] = "absent" <=> c \notin Managers
    /\ \A i \in PromptsOf(c) :
         /\ pc[i] = "unborn" <=> manager[c] \in {"absent", "created"}
         /\ manager[c] = "returned" => pc[i] = "done"
    /\ gathered[c] = IF manager[c] = "returned" THEN Pairs(c) ELSE {}

ReturnInv ==
  /\ returned => /\ \A c \in Keys : manager[c] \in {"absent", "returned"}
                 /\ \A i \in Prompts : results[i] = reply[i]
  /\ ~returned => \A i \in Prompts : results[i] = None

IInv == TypeOK /\ PermitsConserved /\ AttemptsInv /\ ManagersInv /\ ReturnInv

--------------------------------------------------------------------------------
\* Each prompt is dealt to a client.
LEMMA ClientOfType == \A i \in Prompts : ClientOf(i) \in Keys
BY CompletionAssumption DEF Prompts, Keys, ClientOf

\* The coroutines of a client are finitely many, and so are those in any state.
LEMMA PromptsFinite ==
  ASSUME NEW c \in Keys, NEW S \in SUBSET PromptsOf(c)
  PROVE  IsFiniteSet(S) /\ Cardinality(S) \in Nat
<1>1. IsFiniteSet(0 .. NumPrompts - 1)
  BY CompletionAssumption, FS_Interval
<1>2. S \in SUBSET (0 .. NumPrompts - 1)
  BY DEF PromptsOf, Prompts
<1>3. IsFiniteSet(S)
  BY <1>1, <1>2, FS_Subset
<1>. QED BY <1>3, FS_CardinalityType

\* Permits are counted by holders: one taken as its coroutine enters the block...
LEMMA PermitTaken ==
  ASSUME IInv, NEW i \in Prompts, pc[i] = "queued",
         pc' = [pc EXCEPT ![i] = "calling"],
         permits' = [permits EXCEPT ![ClientOf(i)] = @ - 1]
  PROVE  PermitsConserved'
<1>. SUFFICES ASSUME NEW c \in Keys
              PROVE  permits'[c] + Cardinality(Holders(c)') = ApiCallLimit
  BY DEF PermitsConserved
<1>1. pc \in [Prompts -> {"unborn", "queued", "calling", "sleeping", "done"}]
      /\ permits \in [Keys -> 0 .. ApiCallLimit]
  BY DEF IInv, TypeOK, CompletionTypeOK
<1>2. permits[c] + Cardinality(Holders(c)) = ApiCallLimit
  BY DEF IInv, PermitsConserved
<1>3. IsFiniteSet(Holders(c)) /\ Cardinality(Holders(c)) \in Nat
  BY PromptsFinite DEF Holders
<1>4. CASE ClientOf(i) = c
  <2>1. Holders(c)' = Holders(c) \cup {i} /\ i \notin Holders(c)
    BY <1>1, <1>4 DEF Holders, PromptsOf
  <2>2. Cardinality(Holders(c)') = Cardinality(Holders(c)) + 1
    BY <2>1, <1>3, FS_AddElement
  <2>. QED BY <2>2, <1>1, <1>2, <1>3, <1>4, CompletionAssumption
<1>5. CASE ClientOf(i) # c
  <2>1. Holders(c)' = Holders(c)
    BY <1>1, <1>5 DEF Holders, PromptsOf
  <2>. QED BY <2>1, <1>1, <1>2, <1>5
<1>. QED BY <1>4, <1>5

\* ... and one given back as it leaves, which never makes them too many.
LEMMA PermitReleased ==
  ASSUME IInv, NEW i \in Prompts, pc[i] = "calling",
         pc' = [pc EXCEPT ![i] = "done"],
         permits' = [permits EXCEPT ![ClientOf(i)] = @ + 1]
  PROVE  PermitsConserved' /\ permits' \in [Keys -> 0 .. ApiCallLimit]
<1>1. pc \in [Prompts -> {"unborn", "queued", "calling", "sleeping", "done"}]
      /\ permits \in [Keys -> 0 .. ApiCallLimit]
  BY DEF IInv, TypeOK, CompletionTypeOK
<1>2. ASSUME NEW c \in Keys
      PROVE  /\ permits'[c] + Cardinality(Holders(c)') = ApiCallLimit
             /\ permits'[c] \in 0 .. ApiCallLimit
  <2>1. permits[c] + Cardinality(Holders(c)) = ApiCallLimit
    BY DEF IInv, PermitsConserved
  <2>2. IsFiniteSet(Holders(c)) /\ Cardinality(Holders(c)) \in Nat
    BY PromptsFinite DEF Holders
  <2>3. CASE ClientOf(i) = c
    <3>1. Holders(c)' = Holders(c) \ {i} /\ i \in Holders(c)
      BY <1>1, <2>3 DEF Holders, PromptsOf
    <3>2. /\ Cardinality(Holders(c)') = Cardinality(Holders(c)) - 1
          /\ IsFiniteSet(Holders(c)')
      BY <3>1, <2>2, FS_RemoveElement
    <3>3. Cardinality(Holders(c)') \in Nat
      BY <3>2, FS_CardinalityType
    <3>. QED BY <3>2, <3>3, <1>1, <2>1, <2>2, <2>3, CompletionAssumption
  <2>4. CASE ClientOf(i) # c
    <3>1. Holders(c)' = Holders(c)
      BY <1>1, <2>4 DEF Holders, PromptsOf
    <3>. QED BY <3>1, <1>1, <2>1, <2>4
  <2>. QED BY <2>3, <2>4
<1>. QED BY <1>1, <1>2 DEF PermitsConserved

\* A step that moves no coroutine into or out of the block keeps the count.
LEMMA PermitsUntouched ==
  ASSUME IInv, permits' = permits, \A c \in Keys : Holders(c)' = Holders(c)
  PROVE  PermitsConserved'
BY DEF IInv, PermitsConserved

--------------------------------------------------------------------------------
LEMMA InitIInv == Init => IInv
<1>. SUFFICES ASSUME Init PROVE IInv
  OBVIOUS
<1>. USE DEF Init, CompletionInit
<1>1. TypeOK
  <2>1. CompletionTypeOK
    BY CompletionAssumption DEF CompletionTypeOK
  <2>2. manager \in [Keys -> {"absent", "created", "gathering", "returned"}]
    OBVIOUS
  <2>. QED BY <2>1, <2>2 DEF TypeOK
<1>2. PermitsConserved
  <2>1. \A c \in Keys : Holders(c) = {}
    BY DEF Holders, PromptsOf
  <2>. QED BY <2>1, FS_EmptySet, CompletionAssumption DEF PermitsConserved
<1>3. AttemptsInv
  BY DEF AttemptsInv
<1>4. ManagersInv
  <2>1. \A c \in Keys : manager[c] = IF c \in Managers THEN "created" ELSE "absent"
    OBVIOUS
  <2>2. \A c \in Keys : \A i \in PromptsOf(c) : pc[i] = "unborn"
    BY DEF PromptsOf
  <2>3. \A c \in Keys : gathered[c] = {}
    OBVIOUS
  <2>. QED BY ONLY <2>1, <2>2, <2>3 DEF ManagersInv
<1>5. ReturnInv
  BY DEF ReturnInv
<1>. QED BY <1>1, <1>2, <1>3, <1>4, <1>5 DEF IInv

\* While a coroutine is between its birth and its return, its manager gathers.
LEMMA LiveManager ==
  ASSUME IInv, NEW i \in Prompts, pc[i] \in {"queued", "calling", "sleeping"}
  PROVE  /\ ClientOf(i) \in Keys
         /\ manager[ClientOf(i)] = "gathering"
         /\ gathered[ClientOf(i)] = {}
         /\ ~returned
<1>1. ClientOf(i) \in Keys /\ i \in PromptsOf(ClientOf(i))
  BY ClientOfType DEF PromptsOf
<1>2. manager[ClientOf(i)] = "gathering"
  BY <1>1 DEF IInv, TypeOK, ManagersInv
<1>. QED BY <1>1, <1>2 DEF IInv, TypeOK, ManagersInv, ReturnInv

\* A step of one coroutine leaves the managers' part of the invariant alone.
LEMMA CoroutineManagers ==
  ASSUME IInv, NEW i \in Prompts, pc[i] \in {"queued", "calling", "sleeping"},
         NEW s \in {"calling", "sleeping", "done"},
         pc' = [pc EXCEPT ![i] = s],
         \A j \in Prompts \ {i} : reply'[j] = reply[j],
         UNCHANGED <<manager, gathered, results, returned>>
  PROVE  ManagersInv' /\ ReturnInv'
<1>1. /\ ClientOf(i) \in Keys
      /\ manager[ClientOf(i)] = "gathering"
      /\ ~returned
  BY LiveManager
<1>2. pc \in [Prompts -> {"unborn", "queued", "calling", "sleeping", "done"}]
  BY DEF IInv, TypeOK, CompletionTypeOK
<1>3. ManagersInv'
  <2>. SUFFICES ASSUME NEW c \in Keys
                PROVE  /\ manager[c] = "absent" <=> c \notin Managers
                       /\ \A j \in PromptsOf(c) :
                            /\ pc'[j] = "unborn" <=> manager[c] \in {"absent", "created"}
                            /\ manager[c] = "returned" => pc'[j] = "done"
                       /\ gathered[c] = IF manager[c] = "returned" THEN Pairs(c)' ELSE {}
    BY DEF ManagersInv, Managers, HasClient, PromptsOf
  <2>1. CASE c = ClientOf(i)
    BY <2>1, <1>1, <1>2 DEF IInv, ManagersInv, PromptsOf
  <2>2. CASE c # ClientOf(i)
    <3>1. \A j \in PromptsOf(c) : pc'[j] = pc[j] /\ reply'[j] = reply[j]
      BY <2>2, <1>2 DEF PromptsOf
    <3>2. Pairs(c)' = Pairs(c)
      BY <3>1 DEF Pairs, PromptsOf
    <3>. QED BY <3>1, <3>2 DEF IInv, ManagersInv
  <2>. QED BY <2>1, <2>2
<1>4. ReturnInv'
  BY <1>1 DEF IInv, ReturnInv
<1>. QED BY <1>3, <1>4

\* The type invariant of a coroutine's step, from that of its own variables.
LEMMA CoroutineTypeOK ==
  ASSUME IInv, CompletionTypeOK', ManagersInv',
         UNCHANGED <<manager, gathered, results, returned>>
  PROVE  TypeOK'
<1>1. \A c \in Keys : gathered'[c] \in {{}, Pairs(c)'}
  BY DEF ManagersInv
<1>. QED BY <1>1 DEF IInv, TypeOK

--------------------------------------------------------------------------------
LEMMA AcquireIInv ==
  ASSUME IInv, NEW i \in Prompts, Acquire(i),
         UNCHANGED <<manager, gathered, results, returned>>
  PROVE  IInv'
<1>. USE DEF Acquire
<1>1. ManagersInv' /\ ReturnInv'
  BY CoroutineManagers
<1>2. PermitsConserved'
  BY PermitTaken
<1>3. CompletionTypeOK'
  BY CompletionAssumption, ClientOfType DEF IInv, TypeOK, CompletionTypeOK
<1>4. AttemptsInv'
  BY DEF IInv, AttemptsInv, TypeOK, CompletionTypeOK
<1>5. TypeOK'
  BY <1>1, <1>3, CoroutineTypeOK
<1>. QED BY <1>1, <1>2, <1>4, <1>5 DEF IInv

LEMMA SucceedIInv ==
  ASSUME IInv, NEW i \in Prompts, NEW text \in {"full", "short"}, Succeed(i, text),
         UNCHANGED <<manager, gathered, results, returned>>
  PROVE  IInv'
<1>. USE DEF Succeed
<1>1. ManagersInv' /\ ReturnInv'
  BY CoroutineManagers DEF IInv, TypeOK, CompletionTypeOK
<1>2. PermitsConserved' /\ permits' \in [Keys -> 0 .. ApiCallLimit]
  BY PermitReleased
<1>3. Reply(i, text) \in Replies(i)
  BY DEF Replies
<1>4. CompletionTypeOK'
  BY <1>2, <1>3 DEF IInv, TypeOK, CompletionTypeOK
<1>5. AttemptsInv'
  BY <1>3, CompletionAssumption DEF IInv, AttemptsInv, TypeOK, CompletionTypeOK
<1>6. TypeOK'
  BY <1>1, <1>4, CoroutineTypeOK
<1>. QED BY <1>1, <1>2, <1>5, <1>6 DEF IInv

LEMMA SleepIInv ==
  ASSUME IInv, NEW i \in Prompts, Sleep(i),
         UNCHANGED <<manager, gathered, results, returned>>
  PROVE  IInv'
<1>. USE DEF Sleep
<1>1. ManagersInv' /\ ReturnInv'
  BY CoroutineManagers
<1>2. \A c \in Keys : Holders(c)' = Holders(c)
  BY DEF Holders, PromptsOf, IInv, TypeOK, CompletionTypeOK
<1>3. PermitsConserved'
  BY <1>2, PermitsUntouched
<1>4. CompletionTypeOK'
  BY DEF IInv, TypeOK, CompletionTypeOK
<1>5. AttemptsInv'
  BY DEF IInv, AttemptsInv, TypeOK, CompletionTypeOK
<1>6. TypeOK'
  BY <1>1, <1>4, CoroutineTypeOK
<1>. QED BY <1>1, <1>3, <1>5, <1>6 DEF IInv

LEMMA WakeIInv ==
  ASSUME IInv, NEW i \in Prompts, Wake(i),
         UNCHANGED <<manager, gathered, results, returned>>
  PROVE  IInv'
<1>. USE DEF Wake
<1>1. ManagersInv' /\ ReturnInv'
  BY CoroutineManagers
<1>2. \A c \in Keys : Holders(c)' = Holders(c)
  BY DEF Holders, PromptsOf, IInv, TypeOK, CompletionTypeOK
<1>3. PermitsConserved'
  BY <1>2, PermitsUntouched
<1>4. CompletionTypeOK'
  BY CompletionAssumption DEF IInv, AttemptsInv, TypeOK, CompletionTypeOK
<1>5. AttemptsInv'
  BY DEF IInv, AttemptsInv, TypeOK, CompletionTypeOK
<1>6. TypeOK'
  BY <1>1, <1>4, CoroutineTypeOK
<1>. QED BY <1>1, <1>3, <1>5, <1>6 DEF IInv

LEMMA GiveUpIInv ==
  ASSUME IInv, NEW i \in Prompts, GiveUp(i),
         UNCHANGED <<manager, gathered, results, returned>>
  PROVE  IInv'
<1>. USE DEF GiveUp
<1>1. ManagersInv' /\ ReturnInv'
  BY CoroutineManagers
<1>2. PermitsConserved' /\ permits' \in [Keys -> 0 .. ApiCallLimit]
  BY PermitReleased
<1>3. CompletionTypeOK'
  BY <1>2 DEF IInv, TypeOK, CompletionTypeOK
<1>4. AttemptsInv'
  BY DEF IInv, AttemptsInv, TypeOK, CompletionTypeOK
<1>5. TypeOK'
  BY <1>1, <1>3, CoroutineTypeOK
<1>. QED BY <1>1, <1>2, <1>4, <1>5 DEF IInv

LEMMA StartManagerIInv ==
  ASSUME IInv, NEW c \in Keys, StartManager(c)
  PROVE  IInv'
<1>. USE DEF StartManager
<1>1. /\ pc \in [Prompts -> {"unborn", "queued", "calling", "sleeping", "done"}]
      /\ manager \in [Keys -> {"absent", "created", "gathering", "returned"}]
  BY DEF IInv, TypeOK, CompletionTypeOK
<1>2. \A i \in PromptsOf(c) : pc[i] = "unborn"
  BY DEF IInv, ManagersInv
<1>3. ManagersInv'
  <2>. SUFFICES ASSUME NEW d \in Keys
                PROVE  /\ manager'[d] = "absent" <=> d \notin Managers
                       /\ \A i \in PromptsOf(d) :
                            /\ pc'[i] = "unborn" <=> manager'[d] \in {"absent", "created"}
                            /\ manager'[d] = "returned" => pc'[i] = "done"
                       /\ gathered[d] = IF manager'[d] = "returned" THEN Pairs(d)' ELSE {}
    BY DEF ManagersInv, Managers, HasClient, PromptsOf
  <2>. Pairs(d)' = Pairs(d)
    BY DEF Pairs
  <2>1. CASE d = c
    BY <2>1, <1>1 DEF IInv, ManagersInv, PromptsOf
  <2>2. CASE d # c
    <3>1. \A i \in PromptsOf(d) : pc'[i] = pc[i]
      BY <2>2, <1>1 DEF PromptsOf
    <3>. QED BY <2>2, <3>1, <1>1 DEF IInv, ManagersInv
  <2>. QED BY <2>1, <2>2
<1>4. \A d \in Keys : Holders(d)' = Holders(d)
  BY <1>1, <1>2 DEF Holders, PromptsOf
<1>5. PermitsConserved'
  BY <1>4, PermitsUntouched
<1>6. AttemptsInv'
  BY <1>1, <1>2 DEF IInv, AttemptsInv, PromptsOf
<1>7. CompletionTypeOK'
  BY DEF IInv, TypeOK, CompletionTypeOK
<1>8. TypeOK'
  <2>1. \A d \in Keys : gathered'[d] \in {{}, Pairs(d)'}
    BY <1>3 DEF ManagersInv
  <2>. QED BY <2>1, <1>7 DEF IInv, TypeOK
<1>9. ReturnInv'
  BY <1>1 DEF IInv, ReturnInv
<1>. QED BY <1>3, <1>5, <1>6, <1>8, <1>9 DEF IInv

LEMMA ManagerReturnIInv ==
  ASSUME IInv, NEW c \in Keys, ManagerReturn(c)
  PROVE  IInv'
<1>. USE DEF ManagerReturn, cvars
<1>1. /\ manager \in [Keys -> {"absent", "created", "gathering", "returned"}]
      /\ DOMAIN gathered = Keys
  BY DEF IInv, TypeOK
<1>2. ManagersInv'
  <2>. SUFFICES ASSUME NEW d \in Keys
                PROVE  /\ manager'[d] = "absent" <=> d \notin Managers
                       /\ \A i \in PromptsOf(d) :
                            /\ pc[i] = "unborn" <=> manager'[d] \in {"absent", "created"}
                            /\ manager'[d] = "returned" => pc[i] = "done"
                       /\ gathered'[d] = IF manager'[d] = "returned" THEN Pairs(d)' ELSE {}
    BY DEF ManagersInv, Managers, HasClient, PromptsOf
  <2>. Pairs(d)' = Pairs(d)
    BY DEF Pairs
  <2>. QED BY <1>1 DEF IInv, ManagersInv
<1>3. \A d \in Keys : Holders(d)' = Holders(d)
  BY DEF Holders, PromptsOf
<1>4. PermitsConserved'
  BY <1>3, PermitsUntouched
<1>5. AttemptsInv'
  BY DEF IInv, AttemptsInv
<1>6. CompletionTypeOK'
  BY DEF IInv, TypeOK, CompletionTypeOK
<1>7. TypeOK'
  <2>1. \A d \in Keys : gathered'[d] \in {{}, Pairs(d)'}
    BY <1>2 DEF ManagersInv
  <2>. QED BY <2>1, <1>6 DEF IInv, TypeOK
<1>8. ReturnInv'
  BY <1>1 DEF IInv, ReturnInv
<1>. QED BY <1>2, <1>4, <1>5, <1>7, <1>8 DEF IInv

\* The core of the alignment: once every manager has returned, scattering the
\* gathered pairs by index restores the reply of every prompt.
LEMMA ScatterRestores ==
  ASSUME IInv, \A c \in Keys : manager[c] \in {"absent", "returned"}, NEW i \in Prompts
  PROVE  Scatter[i] = reply[i]
<1>. DEFINE final == UNION {gathered[c] : c \in Keys}
<1>1. ASSUME NEW pair \in final, pair[1] = i
      PROVE  pair = <<i, reply[i]>>
  <2>1. PICK c \in Keys : pair \in gathered[c]
    OBVIOUS
  <2>2. pair \in Pairs(c)
    BY <2>1 DEF IInv, ManagersInv
  <2>3. PICK j \in PromptsOf(c) : pair = <<j, reply[j]>>
    BY <2>2 DEF Pairs
  <2>. QED BY <2>3, <1>1
<1>2. ClientOf(i) \in Keys /\ i \in PromptsOf(ClientOf(i))
  BY ClientOfType DEF PromptsOf
<1>3. CASE manager[ClientOf(i)] = "returned"
  <2>1. <<i, reply[i]>> \in gathered[ClientOf(i)]
    BY <1>2, <1>3 DEF IInv, ManagersInv, Pairs
  <2>2. <<i, reply[i]>> \in final
    BY <1>2, <2>1
  <2>3. Scatter[i] = (CHOOSE pair \in final : pair[1] = i)[2]
    BY <2>2 DEF Scatter
  <2>4. (CHOOSE pair \in final : pair[1] = i) = <<i, reply[i]>>
    BY <2>2, <1>1
  <2>5. <<i, reply[i]>>[2] = reply[i]
    OBVIOUS
  <2>. QED BY <2>3, <2>4, <2>5
<1>4. CASE manager[ClientOf(i)] = "absent"
  <2>1. reply[i] = None
    BY <1>2, <1>4 DEF IInv, ManagersInv, AttemptsInv
  <2>2. ~ \E pair \in final : pair[1] = i
    <3>. SUFFICES ASSUME NEW c \in Keys, NEW pair \in gathered[c], pair[1] = i
                  PROVE  FALSE
      OBVIOUS
    <3>1. manager[c] = "returned" /\ pair \in Pairs(c)
      BY DEF IInv, ManagersInv
    <3>2. i \in PromptsOf(c)
      BY <3>1 DEF Pairs
    <3>. QED BY <3>1, <3>2, <1>4 DEF PromptsOf
  <2>. QED BY <2>1, <2>2 DEF Scatter
<1>. QED BY <1>2, <1>3, <1>4

LEMMA ReturnIInv ==
  ASSUME IInv, Return
  PROVE  IInv'
<1>. USE DEF Return, cvars
<1>1. /\ DOMAIN Scatter = Prompts
      /\ \A i \in Prompts : Scatter[i] = reply[i]
  BY ScatterRestores DEF Scatter
<1>2. ManagersInv'
  <2>. /\ Managers' = Managers
       /\ \A c \in Keys : PromptsOf(c)' = PromptsOf(c) /\ Pairs(c)' = Pairs(c)
    BY DEF Managers, HasClient, PromptsOf, Pairs
  <2>. QED BY DEF IInv, ManagersInv
<1>3. \A c \in Keys : Holders(c)' = Holders(c)
  BY DEF Holders, PromptsOf
<1>4. PermitsConserved'
  BY <1>3, PermitsUntouched
<1>5. AttemptsInv'
  BY DEF IInv, AttemptsInv
<1>6. CompletionTypeOK'
  BY DEF IInv, TypeOK, CompletionTypeOK
<1>7. TypeOK'
  <2>1. \A c \in Keys : gathered'[c] \in {{}, Pairs(c)'}
    BY <1>2 DEF ManagersInv
  <2>. QED BY <2>1, <1>1, <1>6 DEF IInv, TypeOK, CompletionTypeOK
<1>8. ReturnInv'
  BY <1>1 DEF IInv, ReturnInv
<1>. QED BY <1>2, <1>4, <1>5, <1>7, <1>8 DEF IInv

LEMMA StutterIInv ==
  ASSUME IInv, UNCHANGED vars
  PROVE  IInv'
BY DEF vars, IInv, TypeOK, CompletionTypeOK, PermitsConserved, Holders, PromptsOf,
       AttemptsInv, ManagersInv, ReturnInv, Managers, HasClient, Pairs

LEMMA NextIInv == IInv /\ [Next]_vars => IInv'
<1>. SUFFICES ASSUME IInv, [Next]_vars PROVE IInv'
  OBVIOUS
<1>1. ASSUME NEW i \in Prompts, Step(i) PROVE IInv'
  <2>1. UNCHANGED <<manager, gathered, results, returned>>
    BY <1>1 DEF Step
  <2>2. \/ Acquire(i)
        \/ \E text \in {"full", "short"} : Succeed(i, text)
        \/ Sleep(i) \/ GiveUp(i) \/ Wake(i)
    BY <1>1 DEF Step, CompletionStep, Respond
  <2>. QED BY <2>1, <2>2, AcquireIInv, SucceedIInv, SleepIInv, GiveUpIInv, WakeIInv
<1>2. ASSUME NEW c \in Keys, ManagerStep(c) PROVE IInv'
  BY <1>2, StartManagerIInv, ManagerReturnIInv DEF ManagerStep
<1>3. CASE Return
  BY <1>3, ReturnIInv
<1>4. CASE UNCHANGED vars
  BY <1>4, StutterIInv
<1>. QED BY <1>1, <1>2, <1>3, <1>4 DEF Next

LEMMA Invariance == Spec => []IInv
<1>. QED BY InitIInv, NextIInv, PTL DEF Spec

--------------------------------------------------------------------------------
\* Every reachable state of a batch is well typed, whatever its size.
THEOREM TypeCorrect == Spec => []TypeOK
<1>1. IInv => TypeOK
  BY DEF IInv
<1>. QED BY <1>1, Invariance, PTL

\* No permit of a client's semaphore is lost or forged.
THEOREM PermitsAreConserved == Spec => []PermitsConserved
<1>1. IInv => PermitsConserved
  BY DEF IInv
<1>. QED BY <1>1, Invariance, PTL

\* At most api_call_limit requests of one client are in flight at any time.
THEOREM Concurrency == Spec => []ConcurrencyBound
<1>1. IInv => ConcurrencyBound
  <2>. SUFFICES ASSUME IInv, NEW c \in Keys
                PROVE  Cardinality(InFlight(c)) <= ApiCallLimit
    BY DEF ConcurrencyBound
  <2>1. permits[c] \in Nat /\ permits[c] + Cardinality(Holders(c)) = ApiCallLimit
    BY DEF IInv, PermitsConserved, TypeOK, CompletionTypeOK
  <2>2. IsFiniteSet(Holders(c)) /\ Cardinality(Holders(c)) \in Nat
    BY PromptsFinite DEF Holders
  <2>3. Cardinality(InFlight(c)) \in Nat
    BY PromptsFinite DEF InFlight
  <2>4. Cardinality(InFlight(c)) <= Cardinality(Holders(c))
    BY <2>2, FS_Subset DEF InFlight, Holders
  <2>. QED BY <2>1, <2>2, <2>3, <2>4, CompletionAssumption
<1>. QED BY <1>1, Invariance, PTL

\* A prompt is given up only after max_retry failed attempts.
THEOREM NoneIsExhaustion == Spec => []NoneOnlyWhenExhausted
<1>1. IInv => NoneOnlyWhenExhausted
  BY DEF IInv, AttemptsInv, NoneOnlyWhenExhausted
<1>. QED BY <1>1, Invariance, PTL

\* The returned list holds every coroutine's result at the index of its prompt.
THEOREM Alignment == Spec => []BatchAligned
<1>1. IInv => BatchAligned
  <2>. SUFFICES ASSUME IInv, returned, NEW i \in Prompts
                PROVE  /\ results[i] = reply[i]
                       /\ Served(i) => pc[i] = "done"
                       /\ ~Served(i) => results[i] = None
    BY DEF BatchAligned
  <2>1. ClientOf(i) \in Keys /\ i \in PromptsOf(ClientOf(i))
    BY ClientOfType DEF PromptsOf
  <2>2. results[i] = reply[i] /\ manager[ClientOf(i)] \in {"absent", "returned"}
    BY <2>1 DEF IInv, ReturnInv
  <2>. QED BY <2>1, <2>2 DEF IInv, ManagersInv, AttemptsInv, Served
<1>. QED BY <1>1, Invariance, PTL

--------------------------------------------------------------------------------
\* Every step of the batch call is a step of BatchCall, or invisible in it: a
\* coroutine's return settles its prompt once, by its own answer or None, and the
\* final gather returns the settled values in order.
THEOREM Refinement == Spec => Batch!Safety
<1>. DEFINE fate == [i \in Prompts |-> IF pc[i] = "done" THEN reply[i]
                                       ELSE IF Served(i) THEN Open ELSE None]
<1>. USE DEF Batch!Prompts, Prompts
<1>1. Init => Batch!Init
  BY DEF Init, CompletionInit, Batch!Init
<1>2. IInv /\ [Next]_vars => [Batch!Next]_Batch!vars
  <2>. SUFFICES ASSUME IInv, [Next]_vars
                PROVE  Batch!Next \/ UNCHANGED Batch!vars
    OBVIOUS
  <2>. /\ \A i \in Prompts : Served(i)' = Served(i)
       /\ pc \in [Prompts -> {"unborn", "queued", "calling", "sleeping", "done"}]
       /\ DOMAIN reply = Prompts
    BY DEF Served, Managers, HasClient, PromptsOf, IInv, TypeOK, CompletionTypeOK
  <2>1. ASSUME NEW i \in Prompts, Step(i), Acquire(i) \/ Sleep(i) \/ Wake(i)
        PROVE  UNCHANGED Batch!vars
    <3>1. fate' = fate
      BY <2>1 DEF Acquire, Sleep, Wake
    <3>. QED BY <2>1, <3>1 DEF Step, Batch!vars
  <2>2. ASSUME NEW i \in Prompts, Step(i),
               GiveUp(i) \/ \E text \in {"full", "short"} : Succeed(i, text)
        PROVE  Batch!Settle(i)
    <3>1. pc[i] = "calling" /\ pc' = [pc EXCEPT ![i] = "done"]
      BY <2>2 DEF GiveUp, Succeed
    <3>2. Served(i)
      BY <3>1, LiveManager DEF Served, IInv, ManagersInv
    <3>3. fate[i] = Open
      BY <3>1, <3>2
    <3>4. reply'[i] \in Replies(i) \cup {None}
      BY <2>2 DEF GiveUp, Succeed, Replies, IInv, AttemptsInv
    <3>5. \A j \in Prompts \ {i} : reply'[j] = reply[j] /\ pc'[j] = pc[j]
      BY <2>2 DEF GiveUp, Succeed
    <3>6. fate' = [fate EXCEPT ![i] = reply'[i]]
      BY <3>1, <3>5
    <3>. QED BY <2>2, <3>3, <3>4, <3>6 DEF Step, Batch!Settle
  <2>3. ASSUME NEW c \in Keys, ManagerStep(c)
        PROVE  UNCHANGED Batch!vars
    <3>1. \A i \in Prompts : pc'[i] = "done" <=> pc[i] = "done"
      <4>1. CASE StartManager(c)
        <5>1. \A i \in Prompts : ClientOf(i) = c => pc[i] = "unborn"
          BY <4>1 DEF StartManager, IInv, ManagersInv, PromptsOf
        <5>. QED BY <4>1, <5>1 DEF StartManager
      <4>2. CASE ManagerReturn(c)
        BY <4>2 DEF ManagerReturn, cvars
      <4>. QED BY <2>3, <4>1, <4>2 DEF ManagerStep
    <3>2. fate' = fate
      BY <2>3, <3>1 DEF ManagerStep, StartManager, ManagerReturn, cvars
    <3>. QED BY <2>3, <3>2 DEF ManagerStep, StartManager, ManagerReturn, Batch!vars
  <2>4. ASSUME Return PROVE Batch!Return
    <3>1. \A i \in Prompts : ClientOf(i) \in Keys /\ i \in PromptsOf(ClientOf(i))
      BY ClientOfType DEF PromptsOf
    <3>2. \A i \in Prompts : fate[i] = reply[i] /\ fate[i] # Open
      BY <2>4, <3>1, ApiCallAssumption
         DEF Return, Served, IInv, ManagersInv, AttemptsInv, TypeOK, CompletionTypeOK
    <3>3. \A i \in Prompts : Scatter[i] = reply[i]
      BY <2>4, ScatterRestores DEF Return
    <3>4. results' = fate
      BY <2>4, <3>2, <3>3 DEF Return, Scatter
    <3>5. fate' = fate
      BY <2>4 DEF Return, cvars
    <3>. QED BY <2>4, <3>2, <3>4, <3>5 DEF Return, Batch!Return
  <2>5. CASE UNCHANGED vars
    BY <2>5 DEF vars, Batch!vars
  <2>. QED BY <2>1, <2>2, <2>3, <2>4, <2>5
       DEF Next, Batch!Next, Step, CompletionStep, Respond
<1>. QED BY <1>1, <1>2, Invariance, PTL DEF Spec, Batch!Safety
================================================================================
