----------------------------- MODULE CriteriaProofs -----------------------------
(***************************************************************************)
(* Theorems about Criteria for any dataset, dimensions, command lines and  *)
(* number of runs: what a kill may do to the sidecar file (NeverTorn),     *)
(* what a resumed run keeps of it (NothingIsLost), what a run that was     *)
(* answered leaves to do (RunsFill), and where each criterion stands       *)
(* (CriteriaInPlace).                                                      *)
(***************************************************************************)
EXTENDS Criteria, FiniteSetTheorems, FunctionTheorems, WellFoundedInduction, TLAPS

\* SidecarNeverTorn is not inductive alone: what is renamed over the sidecar must be
\* known to be whole, although a killed run leaves a torn .tmp file behind.
TmpInv == pc = "replacing" => tmp.state = "whole"

IInv == SidecarNeverTorn /\ TmpInv

LEMMA InitIInv == Init => IInv
BY DEF Init, IInv, SidecarNeverTorn, TmpInv, Absent

LEMMA NextIInv == IInv /\ [Next]_vars => IInv'
<1>. SUFFICES ASSUME IInv, [Next]_vars PROVE IInv'
  OBVIOUS
<1>. USE DEF IInv, SidecarNeverTorn, TmpInv
<1>1. CASE Regenerate
  BY <1>1 DEF Regenerate, Ended
<1>2. CASE \E opts \in Options, n \in Limits, wanted \in SUBSET Dimensions \ {{}} :
             Start(opts, n, wanted)
  <2>1. PICK opts \in Options, n \in Limits, wanted \in SUBSET Dimensions \ {{}} :
          Start(opts, n, wanted)
    BY <1>2
  <2>2. pc' = "calling" /\ sidecar' = sidecar
    BY <2>1 DEF Start
  <2>. QED BY <2>2
<1>3. CASE CallApi
  <2>1. pc' = "saving" /\ sidecar' = sidecar
    BY <1>3 DEF CallApi
  <2>. QED BY <2>1
<1>4. CASE OpenTmp
  BY <1>4 DEF OpenTmp
<1>5. CASE WriteTmp
  BY <1>5 DEF WriteTmp, Whole
<1>6. CASE ReplaceOutput
  BY <1>6 DEF ReplaceOutput
<1>7. CASE Crash
  BY <1>7 DEF Crash
<1>8. CASE UNCHANGED vars
  BY <1>8 DEF vars
<1>. QED BY <1>1, <1>2, <1>3, <1>4, <1>5, <1>6, <1>7, <1>8 DEF Next

\* However many runs are killed, and wherever, the sidecar is whole or absent ("to
\* avoid partial outputs", save_json_atomic).
THEOREM NeverTorn == Spec => []SidecarNeverTorn
<1>1. IInv => SidecarNeverTorn
  BY DEF IInv
<1>. QED BY <1>1, InitIInv, NextIInv, PTL DEF Spec

--------------------------------------------------------------------------------
(***************************************************************************)
(* What the sidecar holds.  The jobs of a run are exactly the criteria it  *)
(* is to ask for, so what the file had is kept and what it lacked is       *)
(* filled; of a run between its start and its end the process knows that   *)
(* its output covers the dataset, and what it kept of the file.            *)
(***************************************************************************)
Entries == [query : QueryIds, criteria : [Dimensions -> Criterion \cup {None}]]
Outputs == Seq(Seq(Entries))

Running == pc \in {"calling", "saving", "writing", "replacing"}

Overwriting == "overwrite" \in options

JobSet == [session : Nat, index : Nat, query : QueryIds, dim : Dimensions]

TypeInv ==
  /\ data \in DOMAIN Successors
  /\ pc \in {"idle", "calling", "saving", "writing", "replacing", "saved", "crashed"}
  /\ sidecar.content \in Outputs
  /\ run \in Nat /\ dims \subseteq Dimensions
  /\ out \in Outputs /\ jobs \in Seq(JobSet) /\ failed \in BOOLEAN

\* There is an entry for every query.
Covers(output) ==
  \A s \in DOMAIN data :
    s \in DOMAIN output /\ \A q \in DOMAIN data[s] : q \in DOMAIN output[s]

\* Every criterion of the file is in the output.
Keeps(file, output) ==
  \A s \in DOMAIN file : s \in DOMAIN output /\ \A q \in DOMAIN file[s] :
    q \in DOMAIN output[s] /\ \A d \in Dimensions :
      file[s][q].criteria[d] # None => output[s][q].criteria[d] = file[s][q].criteria[d]

\* The jobs that may be listed: a pending criterion of one of the wanted dimensions.
Job(sessions, s, q, d) == [session |-> s, index |-> q, query |-> sessions[s][q], dim |-> d]

Asked(sessions, output, D, opts) ==
  {j \in JobSet : /\ j.session \in DOMAIN sessions /\ j.index \in DOMAIN sessions[j.session]
                  /\ j.query = sessions[j.session][j.index] /\ j.dim \in D
                  /\ Pending(output, j.session, j.index, j.dim, "overwrite" \in opts)}

\* A run asks for nothing else, and without --limit for all of them.
JobsOK ==
  /\ jobs \in Seq(Asked(data, out, dims, options))
  /\ limit = 0 => \A s \in DOMAIN data : \A q \in DOMAIN data[s] : \A d \in dims :
       Pending(out, s, q, d, Overwriting) => \E n \in DOMAIN jobs : jobs[n] = Job(data, s, q, d)

Filled(output) ==
  \A s \in DOMAIN data : \A q \in DOMAIN data[s] : \A d \in dims :
    output[s][q].criteria[d] # None

RunInv ==
  /\ Running => Covers(out)
  /\ pc = "calling" => JobsOK
  /\ pc \in {"saving", "writing", "replacing"} /\ limit = 0 /\ ~failed => Filled(out)
  /\ Running /\ "resume" \in options /\ ~Overwriting => Keeps(sidecar.content, out)
  /\ pc = "replacing" => tmp = Whole(out)
  /\ pc = "saved" => sidecar.content = out /\ Covers(out)
  /\ pc = "saved" /\ limit = 0 /\ ~failed => Filled(out)

\* A dataset that only grows: what was a position's query stays it.
Extends(old, new) ==
  \A s \in DOMAIN old : s \in DOMAIN new /\ \A q \in DOMAIN old[s] :
    q \in DOMAIN new[s] /\ new[s][q] = old[s][q]

OnlyGrows == \A v \in DOMAIN Successors : \A w \in Successors[v] : Extends(v, w)

\* Each criterion of an output names the query at its position, and its dimension.
Belongs(output) ==
  \A s \in DOMAIN output : \A q \in DOMAIN output[s] :
    s \in DOMAIN data /\ q \in DOMAIN data[s] /\ \A d \in Dimensions :
      LET c == output[s][q].criteria[d]
      IN  c # None => c.query = data[s][q] /\ c.dim = d

BelongInv ==
  /\ Belongs(sidecar.content)
  /\ Running => Belongs(out)

--------------------------------------------------------------------------------
LEMMA SomeLeast ==
  ASSUME NEW T, T \subseteq Nat, T # {}
  PROVE  \E x \in T : \A y \in T : x <= y
<1>1. PICK x \in T : \A y \in T : ~(<<y, x>> \in OpToRel(<, Nat))
  BY NatLessThanWellFounded, WFMin
<1>2. ASSUME NEW y \in T PROVE x <= y
  <2>1. <<y, x>> \in Nat \X Nat
    OBVIOUS
  <2>2. ~(y < x)
    BY <1>1, <2>1, Zenon DEF OpToRel
  <2>. QED BY <2>2
<1>. QED BY <1>2

\* Flattening a list of lists: what the result holds, and that it holds all of it.  A
\* function as FlattenSeq describes it exists for every prefix of the list, so that the one
\* it chooses has the values it describes.
LEMMA Flattened ==
  ASSUME NEW S, NEW ss \in Seq(Seq(S))
  PROVE  /\ FlattenSeq(ss) \in Seq(S)
         /\ \A k \in DOMAIN ss : \A i \in DOMAIN ss[k] :
              \E n \in DOMAIN FlattenSeq(ss) : FlattenSeq(ss)[n] = ss[k][i]
<1>. DEFINE Upto(n, g) == g = [i \in 1 .. n |-> IF i = 1 THEN ss[i] ELSE g[i - 1] \o ss[i]]
            Defined(n) == \E g : Upto(n, g)
            flatten == CHOOSE g : Upto(Len(ss), g)
            Good(k) == /\ flatten[k] \in Seq(S)
                       /\ \A j \in 1 .. k : \A i \in DOMAIN ss[j] :
                            \E n \in DOMAIN flatten[k] : flatten[k][n] = ss[j][i]
<1>1. Len(ss) \in Nat /\ DOMAIN ss = 1 .. Len(ss) /\ \A k \in 1 .. Len(ss) : ss[k] \in Seq(S)
  OBVIOUS
<1>2. Defined(0)
  <2>1. Upto(0, [i \in 1 .. 0 |-> <<>>])
    OBVIOUS
  <2>. HIDE DEF Upto
  <2>. QED BY <2>1
<1>3. ASSUME NEW n \in 1 .. Len(ss), Defined(n - 1) PROVE Defined(n)
  <2>1. PICK g : Upto(n - 1, g)
    BY <1>3
  <2>. DEFINE h == [i \in 1 .. n |-> IF i < n THEN g[i]
                                     ELSE IF n = 1 THEN ss[n] ELSE g[n - 1] \o ss[n]]
  <2>2. ASSUME NEW i \in 1 .. n
        PROVE  h[i] = IF i = 1 THEN ss[i] ELSE h[i - 1] \o ss[i]
    <3>1. CASE i < n
      <4>1. i \in 1 .. n - 1 /\ (i # 1 => i - 1 \in 1 .. n /\ i - 1 < n)
        BY <1>1, <3>1
      <4>2. h[i] = g[i] /\ (i # 1 => h[i - 1] = g[i - 1])
        BY <3>1, <4>1
      <4>. QED BY <2>1, <4>1, <4>2
    <3>2. CASE i = n
      <4>1. n # 1 => n - 1 \in 1 .. n /\ n - 1 < n
        BY <1>1
      <4>. QED BY <3>2, <4>1
    <3>. QED BY <1>1, <3>1, <3>2
  <2>3. h = [i \in 1 .. n |-> h[i]]
    OBVIOUS
  <2>. HIDE DEF h
  <2>4. Upto(n, h)
    BY <2>2, <2>3
  <2>. HIDE DEF Upto
  <2>. QED BY <2>4
<1>4. Upto(Len(ss), flatten)
  <2>. HIDE DEF Defined
  <2>. DEFINE T == {n \in 0 .. Len(ss) : ~Defined(n)}
  <2>1. ASSUME T # {} PROVE FALSE
    <3>1. T \subseteq Nat
      BY <1>1
    <3>2. PICK n \in T : \A m \in T : n <= m
      BY <2>1, <3>1, SomeLeast
    <3>3. n \in 1 .. Len(ss) /\ n - 1 \in 0 .. Len(ss)
      BY <1>1, <1>2, <3>2
    <3>4. Defined(n - 1)
      BY <3>2, <3>3
    <3>. QED BY <1>3, <3>2, <3>3, <3>4
  <2>2. Defined(Len(ss))
    BY <1>1, <2>1
  <2>. HIDE DEF Upto
  <2>. QED BY <2>2 DEF Defined
<1>5. ASSUME NEW k \in 1 .. Len(ss)
      PROVE  flatten[k] = IF k = 1 THEN ss[k] ELSE flatten[k - 1] \o ss[k]
  BY <1>4
<1>. HIDE DEF flatten
<1>6. 1 \in 1 .. Len(ss) => Good(1)
  <2>. SUFFICES ASSUME 1 \in 1 .. Len(ss) PROVE Good(1)
    OBVIOUS
  <2>1. flatten[1] = ss[1] /\ ss[1] \in Seq(S)
    BY <1>1, <1>5
  <2>2. \A j \in 1 .. 1 : j = 1
    OBVIOUS
  <2>. QED BY <2>1, <2>2
<1>7. ASSUME NEW n \in 1 .. Len(ss), n # 1, Good(n - 1) PROVE Good(n)
  <2>1. flatten[n] = flatten[n - 1] \o ss[n] /\ ss[n] \in Seq(S) /\ flatten[n - 1] \in Seq(S)
    BY <1>1, <1>5, <1>7
  <2>2. /\ flatten[n] \in Seq(S)
        /\ \A i \in DOMAIN flatten[n - 1] :
             i \in DOMAIN flatten[n] /\ flatten[n][i] = flatten[n - 1][i]
        /\ \A i \in DOMAIN ss[n] : \E m \in DOMAIN flatten[n] : flatten[n][m] = ss[n][i]
    <3>1. PICK a \in Seq(S) : a = flatten[n - 1]
      BY <2>1
    <3>2. PICK b \in Seq(S) : b = ss[n]
      BY <2>1
    <3>3. PICK c : c = flatten[n]
      OBVIOUS
    <3>4. c = a \o b
      BY <2>1, <3>1, <3>2, <3>3
    <3>5. c \in Seq(S) /\ \A i \in DOMAIN a : i \in DOMAIN c /\ c[i] = a[i]
      BY <3>4
    <3>6. \A i \in DOMAIN b : Len(a) + i \in DOMAIN c /\ c[Len(a) + i] = b[i]
      BY <3>4
    <3>. QED BY <3>1, <3>2, <3>3, <3>5, <3>6, Zenon
  <2>3. ASSUME NEW j \in 1 .. n, NEW i \in DOMAIN ss[j]
        PROVE  \E m \in DOMAIN flatten[n] : flatten[n][m] = ss[j][i]
    <3>1. CASE j = n
      BY <2>2, <3>1
    <3>2. CASE j # n
      <4>1. j \in 1 .. n - 1
        BY <1>1, <3>2
      <4>2. PICK m \in DOMAIN flatten[n - 1] : flatten[n - 1][m] = ss[j][i]
        BY <1>7, <4>1
      <4>. QED BY <2>2, <4>2
    <3>. QED BY <3>1, <3>2
  <2>. QED BY <2>2, <2>3
<1>8. ASSUME NEW k \in 1 .. Len(ss) PROVE Good(k)
  <2>. HIDE DEF Good
  <2>. DEFINE T == {n \in 1 .. Len(ss) : ~Good(n)}
  <2>1. ASSUME T # {} PROVE FALSE
    <3>1. T \subseteq Nat
      BY <1>1
    <3>2. PICK n \in T : \A m \in T : n <= m
      BY <2>1, <3>1, SomeLeast
    <3>3. n # 1 /\ n - 1 \in 1 .. Len(ss)
      BY <1>1, <1>6, <3>2
    <3>4. Good(n - 1)
      BY <3>2, <3>3
    <3>. QED BY <1>7, <3>2, <3>3, <3>4
  <2>. QED BY <2>1
<1>9. CASE ss = <<>>
  <2>1. FlattenSeq(ss) = <<>>
    BY <1>9 DEF FlattenSeq
  <2>2. <<>> \in Seq(S) /\ DOMAIN ss = {}
    BY <1>9
  <2>. QED BY <2>1, <2>2
<1>10. CASE ss # <<>>
  <2>1. Len(ss) \in 1 .. Len(ss) /\ Len(ss) # 0
    BY <1>1, <1>10
  <2>2. FlattenSeq(ss) = flatten[Len(ss)]
    BY <2>1 DEF FlattenSeq, flatten
  <2>. QED BY <1>1, <1>8, <2>1, <2>2
<1>. QED BY <1>9, <1>10

\* The dimensions in an order: each of them is there.
LEMMA Ordered ==
  ASSUME NEW D, IsFiniteSet(D)
  PROVE  /\ SetToSeq(D) \in Seq(D)
         /\ \A d \in D : \E n \in DOMAIN SetToSeq(D) : SetToSeq(D)[n] = d
<1>. DEFINE N == Cardinality(D)
            order == SetToSeq(D)
<1>1. N \in Nat /\ ExistsBijection(1 .. N, D)
  BY FS_CardinalityType
<1>2. order \in [1 .. N -> D] /\ IsInjective(order)
  <2>1. \E f \in [1 .. N -> D] : IsInjective(f)
    BY <1>1 DEF ExistsBijection, Bijection, Injection, IsInjective
  <2>. QED BY <2>1 DEF SetToSeq
<1>3. order \in Injection(1 .. N, D)
  BY <1>2 DEF Injection, IsInjective
<1>4. Cardinality(1 .. N) = N /\ IsFiniteSet(1 .. N)
  BY <1>1, FS_Interval
<1>5. order \in Surjection(1 .. N, D)
  BY <1>3, <1>4, FS_Injection
<1>. HIDE DEF order, N
<1>6. \A d \in D : \E n \in 1 .. N : order[n] = d
  BY <1>5 DEF Surjection
<1>7. order \in Seq(D) /\ DOMAIN order = 1 .. N
  BY <1>1, <1>2
<1>. QED BY <1>6, <1>7 DEF order

LEMMA ListOf ==
  ASSUME NEW S, NEW n \in Nat, NEW f \in [1 .. n -> S]
  PROVE  f \in Seq(S)
OBVIOUS

\* build_generation_jobs lists jobs that may be listed, and every one of them.
LEMMA JobsAre ==
  ASSUME NEW sessions \in Seq(Seq(QueryIds)), NEW output, NEW D \in SUBSET Dimensions,
         NEW opts
  PROVE  /\ Jobs(sessions, output, D, "overwrite" \in opts) \in Seq(Asked(sessions, output, D, opts))
         /\ \A s \in DOMAIN sessions : \A q \in DOMAIN sessions[s] : \A d \in D :
              Pending(output, s, q, d, "overwrite" \in opts) =>
                \E n \in DOMAIN Jobs(sessions, output, D, "overwrite" \in opts) :
                  Jobs(sessions, output, D, "overwrite" \in opts)[n] = Job(sessions, s, q, d)
<1>. DEFINE A == Asked(sessions, output, D, opts)
            over == "overwrite" \in opts
            order == SetToSeq(D)
            one(s, q, d) == IF Pending(output, s, q, d, over)
                            THEN <<Job(sessions, s, q, d)>> ELSE <<>>
            each(s, q) == [n \in DOMAIN order |-> one(s, q, order[n])]
            at(s, q) == FlattenSeq(each(s, q))
            every(s) == [q \in DOMAIN sessions[s] |-> at(s, q)]
            of(s) == FlattenSeq(every(s))
            all == [s \in DOMAIN sessions |-> of(s)]
            list == Jobs(sessions, output, D, over)
<1>1. order \in Seq(D) /\ \A d \in D : \E n \in DOMAIN order : order[n] = d
  BY CriteriaAssumption, FS_Subset, Ordered
<1>2. list = FlattenSeq(all)
  BY DEF Jobs, Job
<1>. HIDE DEF order, list
<1>3. \A s \in DOMAIN sessions : s \in Nat /\ sessions[s] \in Seq(QueryIds)
  OBVIOUS
<1>4. ASSUME NEW s \in DOMAIN sessions, NEW q \in DOMAIN sessions[s], NEW d \in D
      PROVE  one(s, q, d) \in Seq(A)
  <2>1. sessions[s][q] \in QueryIds /\ s \in Nat /\ q \in Nat
    BY <1>3
  <2>2. Pending(output, s, q, d, over) => Job(sessions, s, q, d) \in A
    BY <2>1 DEF Job, Asked, JobSet
  <2>. HIDE DEF A
  <2>. QED BY <2>2
<1>5. ASSUME NEW s \in DOMAIN sessions, NEW q \in DOMAIN sessions[s]
      PROVE  /\ at(s, q) \in Seq(A)
             /\ \A d \in D : Pending(output, s, q, d, over) =>
                  \E n \in DOMAIN at(s, q) : at(s, q)[n] = Job(sessions, s, q, d)
  <2>. HIDE DEF A, one
  <2>1. each(s, q) \in Seq(Seq(A))
    <3>1. order \in [1 .. Len(order) -> D] /\ Len(order) \in Nat /\ DOMAIN order = 1 .. Len(order)
      BY <1>1
    <3>2. \A n \in 1 .. Len(order) : one(s, q, order[n]) \in Seq(A)
      BY <1>4, <3>1
    <3>3. each(s, q) \in [1 .. Len(order) -> Seq(A)]
      BY <3>1, <3>2
    <3>. HIDE DEF each
    <3>. QED BY <3>1, <3>3, ListOf
  <2>. DEFINE ss == each(s, q)
              flat == at(s, q)
  <2>2. DOMAIN ss = DOMAIN order /\ \A n \in DOMAIN order : ss[n] = one(s, q, order[n])
    OBVIOUS
  <2>3. flat = FlattenSeq(ss)
    OBVIOUS
  <2>. HIDE DEF ss, flat
  <2>4. /\ flat \in Seq(A)
        /\ \A k \in DOMAIN ss : \A i \in DOMAIN ss[k] : \E n \in DOMAIN flat : flat[n] = ss[k][i]
    <3>1. ss \in Seq(Seq(A))
      BY <2>1 DEF ss
    <3>. QED BY <2>3, <3>1, Flattened
  <2>5. ASSUME NEW d \in D, Pending(output, s, q, d, over)
        PROVE  \E n \in DOMAIN flat : flat[n] = Job(sessions, s, q, d)
    <3>1. PICK k \in DOMAIN order : order[k] = d
      BY <1>1
    <3>2. ss[k] = <<Job(sessions, s, q, d)>>
      BY <2>2, <2>5, <3>1 DEF one
    <3>3. 1 \in DOMAIN ss[k] /\ ss[k][1] = Job(sessions, s, q, d)
      BY <3>2
    <3>. QED BY <2>2, <2>4, <3>3
  <2>. QED BY <2>4, <2>5 DEF flat
<1>. HIDE DEF at
<1>6. ASSUME NEW s \in DOMAIN sessions
      PROVE  /\ of(s) \in Seq(A)
             /\ \A q \in DOMAIN sessions[s] : \A i \in DOMAIN at(s, q) :
                  \E n \in DOMAIN of(s) : of(s)[n] = at(s, q)[i]
  <2>. HIDE DEF A
  <2>. DEFINE ss == every(s)
              flat == of(s)
  <2>1. ss \in Seq(Seq(A))
    BY <1>3, <1>5
  <2>2. DOMAIN ss = DOMAIN sessions[s] /\ \A q \in DOMAIN sessions[s] : ss[q] = at(s, q)
    OBVIOUS
  <2>3. flat = FlattenSeq(ss)
    OBVIOUS
  <2>. HIDE DEF ss, flat
  <2>4. /\ flat \in Seq(A)
        /\ \A k \in DOMAIN ss : \A i \in DOMAIN ss[k] : \E n \in DOMAIN flat : flat[n] = ss[k][i]
    BY <2>1, <2>3, Flattened
  <2>5. ASSUME NEW q \in DOMAIN sessions[s], NEW i \in DOMAIN at(s, q)
        PROVE  \E n \in DOMAIN flat : flat[n] = at(s, q)[i]
    <3>1. q \in DOMAIN ss /\ ss[q] = at(s, q)
      BY <2>2
    <3>. QED BY <2>4, <3>1
  <2>. QED BY <2>4, <2>5 DEF flat
<1>. HIDE DEF of
<1>7. /\ list \in Seq(A)
      /\ \A s \in DOMAIN sessions : \A i \in DOMAIN of(s) :
           \E n \in DOMAIN list : list[n] = of(s)[i]
  <2>. HIDE DEF A
  <2>1. all \in Seq(Seq(A))
    <3>1. Len(sessions) \in Nat /\ DOMAIN sessions = 1 .. Len(sessions)
      OBVIOUS
    <3>2. \A s \in DOMAIN sessions : of(s) \in Seq(A)
      BY <1>6
    <3>3. all \in [1 .. Len(sessions) -> Seq(A)]
      BY <3>1, <3>2
    <3>. HIDE DEF all
    <3>. QED BY <3>1, <3>3, ListOf
  <2>2. DOMAIN all = DOMAIN sessions /\ \A s \in DOMAIN sessions : all[s] = of(s)
    OBVIOUS
  <2>. HIDE DEF all
  <2>3. /\ list \in Seq(A)
        /\ \A k \in DOMAIN all : \A i \in DOMAIN all[k] : \E n \in DOMAIN list : list[n] = all[k][i]
    BY <1>2, <2>1, Flattened
  <2>4. ASSUME NEW s \in DOMAIN sessions, NEW i \in DOMAIN of(s)
        PROVE  \E n \in DOMAIN list : list[n] = of(s)[i]
    <3>1. s \in DOMAIN all /\ all[s] = of(s)
      BY <2>2
    <3>. QED BY <2>3, <3>1
  <2>. QED BY <2>3, <2>4
<1>8. ASSUME NEW s \in DOMAIN sessions, NEW q \in DOMAIN sessions[s], NEW d \in D,
             Pending(output, s, q, d, over)
      PROVE  \E n \in DOMAIN list : list[n] = Job(sessions, s, q, d)
  <2>1. PICK i \in DOMAIN at(s, q) : at(s, q)[i] = Job(sessions, s, q, d)
    BY <1>5, <1>8
  <2>2. PICK m \in DOMAIN of(s) : of(s)[m] = at(s, q)[i]
    BY <1>6
  <2>3. PICK n \in DOMAIN list : list[n] = of(s)[m]
    BY <1>7
  <2>. QED BY <2>1, <2>2, <2>3
<1>. QED BY <1>7, <1>8 DEF list

\* init_output_data keeps what there is and has an entry for every query.
LEMMA OutputStarts ==
  ASSUME NEW sessions \in Seq(Seq(QueryIds)), NEW existing \in Outputs,
         NEW o, o = InitOutput(sessions, existing)
  PROVE  /\ o \in Outputs
         /\ \A s \in DOMAIN sessions : s \in DOMAIN o /\ \A q \in DOMAIN sessions[s] : q \in DOMAIN o[s]
         /\ \A s \in DOMAIN existing : s \in DOMAIN o /\ \A q \in DOMAIN existing[s] :
              q \in DOMAIN o[s] /\ o[s][q] = existing[s][q]
         /\ \A s \in DOMAIN o : \A q \in DOMAIN o[s] :
              \/ /\ s \in DOMAIN existing /\ q \in DOMAIN existing[s]
              \/ /\ s \in DOMAIN sessions /\ q \in DOMAIN sessions[s]
                 /\ \A d \in Dimensions : o[s][q].criteria[d] = None
<1>. DEFINE upto(a, b) == IF a > b THEN a ELSE b
            old(s) == IF s <= Len(existing) THEN existing[s] ELSE <<>>
            queries(s) == IF s <= Len(sessions) THEN sessions[s] ELSE <<>>
            width(s) == upto(Len(old(s)), Len(queries(s)))
            height == upto(Len(existing), Len(sessions))
            entry(s, q) == IF q <= Len(old(s)) THEN old(s)[q] ELSE NewEntry(queries(s)[q])
            row(s) == [q \in 1 .. width(s) |-> entry(s, q)]
<1>1. o = [s \in 1 .. height |-> row(s)]
  BY DEF InitOutput
<1>2. /\ Len(existing) \in Nat /\ DOMAIN existing = 1 .. Len(existing)
      /\ Len(sessions) \in Nat /\ DOMAIN sessions = 1 .. Len(sessions)
      /\ \A s \in DOMAIN existing : existing[s] \in Seq(Entries)
      /\ \A s \in DOMAIN sessions : sessions[s] \in Seq(QueryIds)
  BY DEF Outputs
<1>3. height \in Nat /\ Len(existing) <= height /\ Len(sessions) <= height
  BY <1>2
<1>. HIDE DEF height
<1>4. ASSUME NEW s \in 1 .. height
      PROVE  /\ old(s) \in Seq(Entries) /\ queries(s) \in Seq(QueryIds)
             /\ s \in DOMAIN existing => old(s) = existing[s]
             /\ s \notin DOMAIN existing => old(s) = <<>>
             /\ s \in DOMAIN sessions => queries(s) = sessions[s]
             /\ s \notin DOMAIN sessions => queries(s) = <<>>
  BY <1>2, <1>3
<1>5. \A query \in QueryIds : NewEntry(query) \in Entries /\ \A d \in Dimensions :
                                NewEntry(query).criteria[d] = None
  BY DEF NewEntry, Entries
<1>. HIDE DEF old, queries
<1>6. ASSUME NEW s \in 1 .. height
      PROVE  /\ width(s) \in Nat /\ Len(old(s)) <= width(s) /\ Len(queries(s)) <= width(s)
             /\ Len(old(s)) \in Nat /\ Len(queries(s)) \in Nat
             /\ width(s) = Len(old(s)) \/ width(s) = Len(queries(s))
             /\ DOMAIN old(s) = 1 .. Len(old(s)) /\ DOMAIN queries(s) = 1 .. Len(queries(s))
  BY <1>4
<1>. HIDE DEF width
<1>7. ASSUME NEW s \in 1 .. height, NEW q \in 1 .. width(s)
      PROVE  /\ entry(s, q) \in Entries
             /\ q \in DOMAIN old(s) => entry(s, q) = old(s)[q]
             /\ q \notin DOMAIN old(s) =>
                  /\ q \in DOMAIN queries(s)
                  /\ \A d \in Dimensions : entry(s, q).criteria[d] = None
  <2>1. CASE q <= Len(old(s))
    <3>1. q \in DOMAIN old(s) /\ entry(s, q) = old(s)[q]
      BY <1>6, <2>1
    <3>. QED BY <1>4, <3>1
  <2>2. CASE ~(q <= Len(old(s)))
    <3>1. q \in DOMAIN queries(s) /\ q \notin DOMAIN old(s)
      BY <1>6, <2>2
    <3>2. queries(s)[q] \in QueryIds /\ entry(s, q) = NewEntry(queries(s)[q])
      BY <1>4, <2>2, <3>1
    <3>. QED BY <1>5, <3>1, <3>2
  <2>. QED BY <2>1, <2>2
<1>. HIDE DEF entry
<1>8. ASSUME NEW s \in 1 .. height PROVE row(s) \in Seq(Entries)
  <2>1. row(s) \in [1 .. width(s) -> Entries]
    BY <1>7
  <2>. HIDE DEF row
  <2>. QED BY <1>6, <2>1, ListOf
<1>9. \A s \in 1 .. height : DOMAIN row(s) = 1 .. width(s) /\ \A q \in 1 .. width(s) :
                               row(s)[q] = entry(s, q)
  OBVIOUS
<1>. HIDE DEF row
<1>10. o \in Outputs
  <2>1. o \in [1 .. height -> Seq(Entries)]
    BY <1>1, <1>8
  <2>. QED BY <1>3, <2>1, ListOf DEF Outputs
<1>11. DOMAIN o = 1 .. height /\ \A s \in 1 .. height : o[s] = row(s)
  BY <1>1
<1>12. ASSUME NEW s \in DOMAIN sessions
       PROVE  s \in DOMAIN o /\ \A q \in DOMAIN sessions[s] : q \in DOMAIN o[s]
  <2>1. s \in 1 .. height /\ queries(s) = sessions[s]
    BY <1>2, <1>3, <1>4
  <2>2. \A q \in DOMAIN queries(s) : q \in 1 .. width(s)
    BY <1>6, <2>1
  <2>. QED BY <1>9, <1>11, <2>1, <2>2
<1>13. ASSUME NEW s \in DOMAIN existing
       PROVE  s \in DOMAIN o /\ \A q \in DOMAIN existing[s] :
                q \in DOMAIN o[s] /\ o[s][q] = existing[s][q]
  <2>1. s \in 1 .. height /\ old(s) = existing[s]
    BY <1>2, <1>3, <1>4
  <2>2. \A q \in DOMAIN old(s) : q \in 1 .. width(s)
    BY <1>6, <2>1
  <2>3. \A q \in DOMAIN old(s) : entry(s, q) = old(s)[q]
    BY <1>7, <2>1, <2>2
  <2>. QED BY <1>9, <1>11, <2>1, <2>2, <2>3
<1>14. ASSUME NEW s \in DOMAIN o, NEW q \in DOMAIN o[s]
       PROVE  \/ /\ s \in DOMAIN existing /\ q \in DOMAIN existing[s]
              \/ /\ s \in DOMAIN sessions /\ q \in DOMAIN sessions[s]
                 /\ \A d \in Dimensions : o[s][q].criteria[d] = None
  <2>1. s \in 1 .. height /\ q \in 1 .. width(s) /\ o[s][q] = entry(s, q)
    BY <1>9, <1>11
  <2>2. CASE q \in DOMAIN old(s)
    <3>1. old(s) # <<>>
      BY <2>2
    <3>. QED BY <1>4, <2>1, <2>2, <3>1
  <2>3. CASE q \notin DOMAIN old(s)
    <3>1. q \in DOMAIN queries(s) /\ \A d \in Dimensions : entry(s, q).criteria[d] = None
      BY <1>7, <2>1, <2>3
    <3>2. queries(s) # <<>>
      BY <3>1
    <3>. QED BY <1>4, <2>1, <3>1, <3>2
  <2>. QED BY <2>2, <2>3
<1>. QED BY <1>10, <1>12, <1>13, <1>14

\* What a call's results make of the output: a criterion some job asked for is that
\* job's result, every other stays.
LEMMA Applied ==
  ASSUME out \in Outputs, jobs \in Seq(JobSet),
         NEW results \in [DOMAIN jobs -> Criterion \cup {None}],
         NEW o, o = Apply(results)
  PROVE  /\ o \in Outputs /\ DOMAIN o = DOMAIN out
         /\ \A s \in DOMAIN out : DOMAIN o[s] = DOMAIN out[s] /\ \A q \in DOMAIN out[s] :
              \A d \in Dimensions :
                \/ /\ o[s][q].criteria[d] = out[s][q].criteria[d]
                   /\ ~\E n \in DOMAIN jobs :
                        jobs[n].session = s /\ jobs[n].index = q /\ jobs[n].dim = d
                \/ \E n \in DOMAIN jobs :
                     /\ jobs[n].session = s /\ jobs[n].index = q /\ jobs[n].dim = d
                     /\ o[s][q].criteria[d] = results[n]
<1>. DEFINE at(s, q, d) == {n \in DOMAIN jobs :
                             jobs[n].session = s /\ jobs[n].index = q /\ jobs[n].dim = d}
            new(s, q, d) == IF at(s, q, d) = {} THEN out[s][q].criteria[d]
                            ELSE results[CHOOSE n \in at(s, q, d) : TRUE]
            entry(s, q) == [query |-> out[s][q].query, criteria |-> [d \in Dimensions |-> new(s, q, d)]]
            row(s) == [q \in DOMAIN out[s] |-> entry(s, q)]
<1>1. o = [s \in DOMAIN out |-> row(s)]
  BY DEF Apply, EntryWith
<1>2. /\ Len(out) \in Nat /\ DOMAIN out = 1 .. Len(out)
      /\ \A s \in DOMAIN out : out[s] \in Seq(Entries)
  BY DEF Outputs
<1>3. ASSUME NEW s \in DOMAIN out, NEW q \in DOMAIN out[s], NEW d \in Dimensions
      PROVE  /\ new(s, q, d) \in Criterion \cup {None}
             /\ \/ at(s, q, d) = {} /\ new(s, q, d) = out[s][q].criteria[d]
                \/ \E n \in at(s, q, d) : new(s, q, d) = results[n]
  <2>1. out[s][q] \in Entries
    BY <1>2
  <2>2. CASE at(s, q, d) = {}
    BY <2>1, <2>2 DEF Entries
  <2>3. CASE at(s, q, d) # {}
    <3>1. PICK n \in at(s, q, d) : n = CHOOSE m \in at(s, q, d) : TRUE
      BY <2>3
    <3>2. new(s, q, d) = results[n]
      BY <2>3, <3>1
    <3>. HIDE DEF new
    <3>. QED BY <3>1, <3>2
  <2>. QED BY <2>2, <2>3
<1>. HIDE DEF new
<1>4. ASSUME NEW s \in DOMAIN out, NEW q \in DOMAIN out[s] PROVE entry(s, q) \in Entries
  <2>1. out[s][q] \in Entries
    BY <1>2
  <2>2. out[s][q].query \in QueryIds
    BY <2>1 DEF Entries
  <2>3. [d \in Dimensions |-> new(s, q, d)] \in [Dimensions -> Criterion \cup {None}]
    BY <1>3
  <2>. QED BY <2>2, <2>3 DEF Entries
<1>5. \A s \in DOMAIN out : \A q \in DOMAIN out[s] : \A d \in Dimensions :
        entry(s, q).criteria[d] = new(s, q, d)
  OBVIOUS
<1>. HIDE DEF entry
<1>6. ASSUME NEW s \in DOMAIN out PROVE row(s) \in Seq(Entries)
  <2>1. out[s] \in Seq(Entries) /\ Len(out[s]) \in Nat /\ DOMAIN out[s] = 1 .. Len(out[s])
    BY <1>2
  <2>2. row(s) \in [1 .. Len(out[s]) -> Entries]
    BY <1>4, <2>1
  <2>. HIDE DEF row
  <2>. QED BY <2>1, <2>2, ListOf
<1>7. \A s \in DOMAIN out : DOMAIN row(s) = DOMAIN out[s] /\ \A q \in DOMAIN out[s] :
                              row(s)[q] = entry(s, q)
  OBVIOUS
<1>. HIDE DEF row
<1>8. o \in Outputs
  <2>1. o \in [1 .. Len(out) -> Seq(Entries)]
    BY <1>1, <1>2, <1>6
  <2>. QED BY <1>2, <2>1, ListOf DEF Outputs
<1>9. DOMAIN o = DOMAIN out /\ \A s \in DOMAIN out : o[s] = row(s)
  BY <1>1
<1>10. ASSUME NEW s \in DOMAIN out, NEW q \in DOMAIN out[s], NEW d \in Dimensions
       PROVE  o[s][q].criteria[d] = new(s, q, d)
  BY <1>5, <1>7, <1>9
<1>11. ASSUME NEW s \in DOMAIN out, NEW q \in DOMAIN out[s], NEW d \in Dimensions
       PROVE  \/ /\ o[s][q].criteria[d] = out[s][q].criteria[d]
                 /\ ~\E n \in DOMAIN jobs :
                      jobs[n].session = s /\ jobs[n].index = q /\ jobs[n].dim = d
              \/ \E n \in DOMAIN jobs :
                   /\ jobs[n].session = s /\ jobs[n].index = q /\ jobs[n].dim = d
                   /\ o[s][q].criteria[d] = results[n]
  BY <1>3, <1>10
<1>. QED BY <1>7, <1>8, <1>9, <1>11

LEMMA LimitedOf ==
  ASSUME NEW S, NEW list \in Seq(S), NEW n \in Nat
  PROVE  Limited(list, n) \in Seq(S)
<1>1. CASE n = 0 \/ n > Len(list)
  BY <1>1 DEF Limited
<1>2. CASE ~(n = 0 \/ n > Len(list))
  <2>1. Limited(list, n) = SubSeq(list, 1, n) /\ n \in 1 .. Len(list)
    BY <1>2 DEF Limited
  <2>2. SubSeq(list, 1, n) \in Seq(S)
    BY <2>1
  <2>. QED BY <2>1, <2>2
<1>. QED BY <1>1, <1>2

\* What holds when a run has started, whatever it was started with.
LEMMA Started ==
  ASSUME TypeInv, NEW opts \in Options, NEW n \in Limits, NEW wanted \in SUBSET Dimensions,
         Start(opts, n, wanted)
  PROVE  TypeInv' /\ RunInv'
<1>. DEFINE existing == IF "resume" \in opts THEN sidecar.content ELSE <<>>
            o == InitOutput(data, existing)
            over == "overwrite" \in opts
            list == Jobs(data, o, wanted, over)
<1>1. /\ pc' = "calling" /\ run' = run + 1 /\ options' = opts /\ limit' = n /\ dims' = wanted
      /\ data' = data /\ sidecar' = sidecar /\ tmp' = tmp
      /\ out' = o /\ jobs' = Limited(list, n) /\ failed' = FALSE
  BY DEF Start
<1>2. data \in Seq(Seq(QueryIds)) /\ existing \in Outputs
  <2>1. <<>> \in Outputs
    BY DEF Outputs
  <2>. QED BY <2>1, CriteriaAssumption DEF TypeInv
<1>. HIDE DEF existing
<1>3. /\ o \in Outputs
      /\ \A s \in DOMAIN data : s \in DOMAIN o /\ \A q \in DOMAIN data[s] : q \in DOMAIN o[s]
      /\ \A s \in DOMAIN existing : s \in DOMAIN o /\ \A q \in DOMAIN existing[s] :
           q \in DOMAIN o[s] /\ o[s][q] = existing[s][q]
  BY <1>2, OutputStarts
<1>. HIDE DEF o
<1>4. /\ list \in Seq(Asked(data, o, wanted, opts))
      /\ \A s \in DOMAIN data : \A q \in DOMAIN data[s] : \A d \in wanted :
           Pending(o, s, q, d, over) => \E m \in DOMAIN list : list[m] = Job(data, s, q, d)
  BY <1>2, JobsAre
<1>. HIDE DEF list
<1>5. n \in Nat /\ (n = 0 => Limited(list, n) = list)
  BY CriteriaAssumption DEF Limited
<1>6. Limited(list, n) \in Seq(Asked(data, o, wanted, opts))
  BY <1>4, <1>5, LimitedOf
<1>7. Limited(list, n) \in Seq(JobSet)
  <2>1. Asked(data, o, wanted, opts) \subseteq JobSet
    BY DEF Asked
  <2>. QED BY <1>6, <2>1
<1>8. TypeInv'
  <2>1. sidecar'.content = sidecar.content
    BY <1>1
  <2>2. run' \in Nat /\ dims' \subseteq Dimensions
    <3>1. run \in Nat
      BY DEF TypeInv
    <3>. QED BY <1>1, <3>1
  <2>3. data' \in DOMAIN Successors /\ sidecar'.content \in Outputs
    BY <1>1, <2>1 DEF TypeInv
  <2>4. out' \in Outputs /\ jobs' \in Seq(JobSet)
    BY <1>1, <1>3, <1>7
  <2>5. failed' \in BOOLEAN
    BY <1>1, Zenon
  <2>. QED BY <1>1, <2>2, <2>3, <2>4, <2>5 DEF TypeInv
<1>9. JobsOK'
  <2>1. Overwriting' = over
    BY <1>1 DEF Overwriting
  <2>2. jobs' \in Seq(Asked(data', out', dims', options'))
    BY <1>1, <1>6, <2>1
  <2>3. ASSUME limit' = 0, NEW s \in DOMAIN data', NEW q \in DOMAIN data'[s], NEW d \in dims',
               Pending(out', s, q, d, Overwriting')
        PROVE  \E m \in DOMAIN jobs' : jobs'[m] = Job(data', s, q, d)
    <3>1. jobs' = list /\ Pending(o, s, q, d, over)
      BY <1>1, <1>5, <2>1, <2>3
    <3>. QED BY <1>1, <1>4, <2>3, <3>1
  <2>. QED BY <2>2, <2>3 DEF JobsOK
<1>10. Covers(out)'
  BY <1>1, <1>3 DEF Covers
<1>11. (Running /\ "resume" \in options /\ ~Overwriting => Keeps(sidecar.content, out))'
  <2>. SUFFICES ASSUME "resume" \in options' PROVE Keeps(sidecar'.content, out')
    OBVIOUS
  <2>1. existing = sidecar.content
    BY <1>1 DEF existing
  <2>. QED BY <1>1, <1>3, <2>1 DEF Keeps
<1>. QED BY <1>1, <1>8, <1>9, <1>10, <1>11 DEF RunInv, Running

\* What holds when the batch call has returned, whichever jobs it answered.
LEMMA Called ==
  ASSUME TypeInv, RunInv, CallApi
  PROVE  TypeInv' /\ RunInv'
<1>1. PICK answered \in [DOMAIN jobs -> BOOLEAN] :
        /\ out' = Apply([n \in DOMAIN jobs |->
                    IF answered[n]
                    THEN [query |-> jobs[n].query, dim |-> jobs[n].dim, run |-> run]
                    ELSE None])
        /\ failed' = \E n \in DOMAIN jobs : ~answered[n]
  BY DEF CallApi
<1>. DEFINE results == [n \in DOMAIN jobs |->
                         IF answered[n]
                         THEN [query |-> jobs[n].query, dim |-> jobs[n].dim, run |-> run]
                         ELSE None]
            asks(n, s, q, d) == jobs[n].session = s /\ jobs[n].index = q /\ jobs[n].dim = d
<1>2. /\ pc = "calling" /\ pc' = "saving" /\ run' = run /\ options' = options /\ limit' = limit
      /\ dims' = dims /\ data' = data /\ sidecar' = sidecar /\ tmp' = tmp /\ jobs' = jobs
  BY DEF CallApi
<1>3. /\ out \in Outputs /\ jobs \in Seq(JobSet) /\ run \in Nat /\ Covers(out)
      /\ jobs \in Seq(Asked(data, out, dims, options))
      /\ limit = 0 => \A s \in DOMAIN data : \A q \in DOMAIN data[s] : \A d \in dims :
           Pending(out, s, q, d, Overwriting) =>
             \E n \in DOMAIN jobs : jobs[n] = Job(data, s, q, d)
  BY <1>2 DEF TypeInv, RunInv, Running, JobsOK
<1>4. ASSUME NEW n \in DOMAIN jobs
      PROVE  /\ jobs[n] \in JobSet
             /\ jobs[n] \in Asked(data, out, dims, options)
             /\ answered[n] => results[n] \in Criterion
             /\ ~answered[n] => results[n] = None
  <2>1. jobs[n] \in JobSet /\ jobs[n] \in Asked(data, out, dims, options)
    BY <1>3
  <2>2. [query |-> jobs[n].query, dim |-> jobs[n].dim, run |-> run] \in Criterion
    BY <1>3, <2>1 DEF JobSet, Criterion
  <2>. QED BY <2>1, <2>2
<1>5. results \in [DOMAIN jobs -> Criterion \cup {None}]
  BY <1>4
<1>6. out' = Apply(results)
  BY <1>1
<1>. HIDE DEF results
<1>7. /\ out' \in Outputs /\ DOMAIN out' = DOMAIN out
      /\ \A s \in DOMAIN out : DOMAIN out'[s] = DOMAIN out[s] /\ \A q \in DOMAIN out[s] :
           \A d \in Dimensions :
             \/ /\ out'[s][q].criteria[d] = out[s][q].criteria[d]
                /\ ~\E n \in DOMAIN jobs : asks(n, s, q, d)
             \/ \E n \in DOMAIN jobs :
                  asks(n, s, q, d) /\ out'[s][q].criteria[d] = results[n]
  BY <1>3, <1>5, <1>6, Applied
<1>8. TypeInv'
  <2>1. failed' \in BOOLEAN
    BY <1>1, Zenon
  <2>2. sidecar'.content = sidecar.content
    BY <1>2
  <2>. QED BY <1>2, <1>7, <2>1, <2>2 DEF TypeInv
<1>9. Covers(out)'
  BY <1>2, <1>3, <1>7 DEF Covers
<1>10. ASSUME limit = 0, ~failed',
              NEW s \in DOMAIN data, NEW q \in DOMAIN data[s], NEW d \in dims
       PROVE  out'[s][q].criteria[d] # None
  <2>1. d \in Dimensions /\ s \in DOMAIN out /\ q \in DOMAIN out[s]
    BY <1>3 DEF TypeInv, Covers
  <2>2. \A n \in DOMAIN jobs : answered[n]
    BY <1>1, <1>10, Zenon
  <2>3. \A n \in DOMAIN jobs : results[n] # None
    BY <1>4, <2>2, CriteriaAssumption
  <2>4. CASE Pending(out, s, q, d, Overwriting)
    <3>1. PICK n \in DOMAIN jobs : jobs[n] = Job(data, s, q, d)
      BY <1>3, <1>10, <2>4
    <3>2. asks(n, s, q, d)
      BY <3>1 DEF Job
    <3>. QED BY <1>7, <2>1, <2>3, <3>2
  <2>5. CASE ~Pending(out, s, q, d, Overwriting)
    <3>1. out[s][q].criteria[d] # None
      BY <2>5 DEF Pending
    <3>. QED BY <1>7, <2>1, <2>3, <3>1
  <2>. QED BY <2>4, <2>5
<1>11. (pc \in {"saving", "writing", "replacing"} /\ limit = 0 /\ ~failed => Filled(out))'
  BY <1>2, <1>10 DEF Filled
<1>12. ASSUME "resume" \in options, ~Overwriting PROVE Keeps(sidecar.content, out')
  <2>1. Keeps(sidecar.content, out)
    BY <1>2, <1>12 DEF RunInv, Running
  <2>2. ASSUME NEW s \in DOMAIN sidecar.content, NEW q \in DOMAIN sidecar.content[s]
        PROVE  /\ s \in DOMAIN out' /\ q \in DOMAIN out'[s]
               /\ \A d \in Dimensions :
                    sidecar.content[s][q].criteria[d] # None =>
                      out'[s][q].criteria[d] = sidecar.content[s][q].criteria[d]
    <3>1. /\ s \in DOMAIN out /\ q \in DOMAIN out[s]
          /\ \A d \in Dimensions : sidecar.content[s][q].criteria[d] # None =>
               out[s][q].criteria[d] = sidecar.content[s][q].criteria[d]
      BY <2>1, <2>2 DEF Keeps
    <3>2. ASSUME NEW d \in Dimensions, sidecar.content[s][q].criteria[d] # None
          PROVE  out'[s][q].criteria[d] = out[s][q].criteria[d]
      <4>1. ASSUME NEW n \in DOMAIN jobs, asks(n, s, q, d) PROVE FALSE
        <5>1. Pending(out, s, q, d, "overwrite" \in options)
          BY <1>4, <4>1 DEF Asked
        <5>. QED BY <1>12, <3>1, <3>2, <5>1 DEF Pending, Overwriting
      <4>. QED BY <1>7, <3>1, <4>1
    <3>. QED BY <1>7, <3>1, <3>2
  <2>3. \A s \in DOMAIN sidecar.content : s \in DOMAIN out'
    BY <1>7, <2>1 DEF Keeps
  <2>. QED BY <2>2, <2>3 DEF Keeps
<1>13. (Running /\ "resume" \in options /\ ~Overwriting => Keeps(sidecar.content, out))'
  BY <1>2, <1>12 DEF Overwriting
<1>. QED BY <1>2, <1>8, <1>9, <1>11, <1>13 DEF RunInv, Running

\* Under a dataset that only grows, the answers belong too.
LEMMA CalledBelongs ==
  ASSUME TypeInv, RunInv, BelongInv, CallApi
  PROVE  BelongInv'
<1>1. PICK answered \in [DOMAIN jobs -> BOOLEAN] :
        /\ out' = Apply([n \in DOMAIN jobs |->
                    IF answered[n]
                    THEN [query |-> jobs[n].query, dim |-> jobs[n].dim, run |-> run]
                    ELSE None])
  BY DEF CallApi
<1>. DEFINE results == [n \in DOMAIN jobs |->
                         IF answered[n]
                         THEN [query |-> jobs[n].query, dim |-> jobs[n].dim, run |-> run]
                         ELSE None]
            asks(n, s, q, d) == jobs[n].session = s /\ jobs[n].index = q /\ jobs[n].dim = d
<1>2. pc = "calling" /\ data' = data /\ sidecar' = sidecar
  BY DEF CallApi
<1>3. /\ out \in Outputs /\ jobs \in Seq(JobSet) /\ run \in Nat
      /\ jobs \in Seq(Asked(data, out, dims, options)) /\ Belongs(out)
  BY <1>2 DEF TypeInv, RunInv, BelongInv, Running, JobsOK
<1>4. ASSUME NEW n \in DOMAIN jobs
      PROVE  /\ jobs[n] \in Asked(data, out, dims, options)
             /\ results[n] \in Criterion \cup {None}
             /\ results[n] # None =>
                  results[n].query = jobs[n].query /\ results[n].dim = jobs[n].dim
  <2>1. jobs[n] \in JobSet /\ jobs[n] \in Asked(data, out, dims, options)
    BY <1>3
  <2>2. [query |-> jobs[n].query, dim |-> jobs[n].dim, run |-> run] \in Criterion
    BY <1>3, <2>1 DEF JobSet, Criterion
  <2>. QED BY <2>1, <2>2
<1>5. results \in [DOMAIN jobs -> Criterion \cup {None}]
  BY <1>4
<1>6. out' = Apply(results)
  BY <1>1
<1>. HIDE DEF results
<1>7. /\ DOMAIN out' = DOMAIN out
      /\ \A s \in DOMAIN out : DOMAIN out'[s] = DOMAIN out[s] /\ \A q \in DOMAIN out[s] :
           \A d \in Dimensions :
             \/ out'[s][q].criteria[d] = out[s][q].criteria[d]
             \/ \E n \in DOMAIN jobs :
                  asks(n, s, q, d) /\ out'[s][q].criteria[d] = results[n]
  <2>1. /\ DOMAIN out' = DOMAIN out
        /\ \A s \in DOMAIN out : DOMAIN out'[s] = DOMAIN out[s] /\ \A q \in DOMAIN out[s] :
             \A d \in Dimensions :
               \/ /\ out'[s][q].criteria[d] = out[s][q].criteria[d]
                  /\ ~\E n \in DOMAIN jobs : asks(n, s, q, d)
               \/ \E n \in DOMAIN jobs :
                    asks(n, s, q, d) /\ out'[s][q].criteria[d] = results[n]
    BY <1>3, <1>5, <1>6, Applied
  <2>. QED BY <2>1
<1>8. ASSUME NEW s \in DOMAIN out, NEW q \in DOMAIN out[s], NEW d \in Dimensions,
             out'[s][q].criteria[d] # None
      PROVE  /\ out'[s][q].criteria[d].query = data[s][q]
             /\ out'[s][q].criteria[d].dim = d
  <2>1. CASE out'[s][q].criteria[d] = out[s][q].criteria[d]
    BY <1>3, <1>8, <2>1 DEF Belongs
  <2>2. CASE \E n \in DOMAIN jobs : asks(n, s, q, d) /\ out'[s][q].criteria[d] = results[n]
    <3>1. PICK n \in DOMAIN jobs : asks(n, s, q, d) /\ out'[s][q].criteria[d] = results[n]
      BY <2>2
    <3>2. jobs[n].query = data[s][q] /\ jobs[n].dim = d
      BY <1>4, <3>1 DEF Asked
    <3>. QED BY <1>4, <1>8, <3>1, <3>2
  <2>. QED BY <1>7, <2>1, <2>2
<1>9. Belongs(out)'
  BY <1>2, <1>3, <1>7, <1>8 DEF Belongs
<1>10. Belongs(sidecar.content)'
  BY <1>2 DEF BelongInv, Belongs
<1>. QED BY <1>9, <1>10 DEF BelongInv

LEMMA InitRun == Init => TypeInv /\ RunInv /\ BelongInv
<1>. SUFFICES ASSUME Init PROVE TypeInv /\ RunInv /\ BelongInv
  OBVIOUS
<1>1. sidecar.content = <<>> /\ <<>> \in Outputs /\ out = <<>> /\ jobs = <<>> /\ pc = "idle"
  BY DEF Init, Absent, Outputs
<1>2. TypeInv
  <2>1. data \in DOMAIN Successors /\ run \in Nat /\ dims \subseteq Dimensions
    BY CriteriaAssumption DEF Init
  <2>2. failed \in BOOLEAN
    BY Zenon DEF Init
  <2>3. jobs \in Seq(JobSet)
    BY <1>1
  <2>. QED BY <1>1, <2>1, <2>2, <2>3 DEF TypeInv
<1>3. RunInv
  BY <1>1 DEF RunInv, Running
<1>4. BelongInv
  BY <1>1 DEF BelongInv, Belongs, Running
<1>. QED BY <1>2, <1>3, <1>4

LEMMA NextRun == TypeInv /\ RunInv /\ [Next]_vars => (TypeInv /\ RunInv)'
<1>. SUFFICES ASSUME TypeInv, RunInv, [Next]_vars PROVE TypeInv' /\ RunInv'
  OBVIOUS
<1>1. CASE Regenerate
  <2>1. /\ data' \in DOMAIN Successors
        /\ pc' = "idle" /\ sidecar' = sidecar /\ run' = run /\ dims' = dims /\ out' = out
        /\ jobs' = jobs /\ failed' = failed
    BY <1>1, CriteriaAssumption DEF Regenerate, TypeInv
  <2>2. sidecar'.content = sidecar.content
    BY <2>1
  <2>. QED BY <2>1, <2>2 DEF TypeInv, RunInv, Running
<1>2. CASE \E opts \in Options, n \in Limits, wanted \in SUBSET Dimensions \ {{}} :
             Start(opts, n, wanted)
  BY <1>2, Started
<1>3. CASE CallApi
  BY <1>3, Called
<1>4. CASE OpenTmp
  <2>1. /\ pc = "saving" /\ pc' = "writing"
        /\ data' = data /\ sidecar' = sidecar /\ run' = run /\ dims' = dims /\ out' = out
        /\ jobs' = jobs /\ failed' = failed /\ options' = options /\ limit' = limit
    BY <1>4 DEF OpenTmp
  <2>. QED BY <2>1 DEF TypeInv, RunInv, Running, Covers, Filled, Keeps, Overwriting
<1>5. CASE WriteTmp
  <2>1. /\ pc = "writing" /\ pc' = "replacing" /\ tmp' = Whole(out)
        /\ data' = data /\ sidecar' = sidecar /\ run' = run /\ dims' = dims /\ out' = out
        /\ jobs' = jobs /\ failed' = failed /\ options' = options /\ limit' = limit
    BY <1>5 DEF WriteTmp
  <2>2. tmp' = Whole(out')
    BY <2>1
  <2>. QED BY <2>1, <2>2 DEF TypeInv, RunInv, Running, Covers, Filled, Keeps, Overwriting
<1>6. CASE ReplaceOutput
  <2>1. /\ pc = "replacing" /\ pc' = "saved" /\ sidecar' = tmp
        /\ data' = data /\ run' = run /\ dims' = dims /\ out' = out
        /\ jobs' = jobs /\ failed' = failed /\ options' = options /\ limit' = limit
    BY <1>6 DEF ReplaceOutput
  <2>2. sidecar'.content = out
    BY <2>1 DEF RunInv, Whole
  <2>. QED BY <2>1, <2>2 DEF TypeInv, RunInv, Running, Covers, Filled
<1>7. CASE Crash
  <2>1. /\ pc' = "crashed" /\ data' = data /\ sidecar' = sidecar /\ run' = run /\ dims' = dims
        /\ out' = <<>> /\ jobs' = <<>> /\ failed' = FALSE
    BY <1>7 DEF Crash
  <2>2. sidecar'.content = sidecar.content
    BY <2>1
  <2>3. out' \in Outputs /\ jobs' \in Seq(JobSet)
    BY <2>1 DEF Outputs
  <2>4. failed' \in BOOLEAN
    BY <2>1, Zenon
  <2>. QED BY <2>1, <2>2, <2>3, <2>4 DEF TypeInv, RunInv, Running
<1>8. CASE UNCHANGED vars
  <2>1. /\ pc' = pc /\ data' = data /\ sidecar' = sidecar /\ run' = run /\ dims' = dims
        /\ out' = out /\ jobs' = jobs /\ failed' = failed /\ options' = options
        /\ limit' = limit /\ tmp' = tmp
    BY <1>8 DEF vars
  <2>2. JobsOK <=> JobsOK'
    BY <2>1 DEF JobsOK, Overwriting, Asked, Pending, Job
  <2>. QED BY <2>1, <2>2 DEF TypeInv, RunInv, Running, Covers, Filled, Keeps, Overwriting
<1>. QED BY <1>1, <1>2, <1>3, <1>4, <1>5, <1>6, <1>7, <1>8 DEF Next

LEMMA NextBelongs ==
  OnlyGrows /\ TypeInv /\ RunInv /\ BelongInv /\ [Next]_vars => BelongInv'
<1>. SUFFICES ASSUME OnlyGrows, TypeInv, RunInv, BelongInv, [Next]_vars PROVE BelongInv'
  OBVIOUS
<1>1. CASE Regenerate
  <2>1. /\ pc' = "idle" /\ sidecar' = sidecar /\ Extends(data, data')
    BY <1>1 DEF Regenerate, OnlyGrows, TypeInv
  <2>2. Belongs(sidecar.content)'
    BY <2>1 DEF BelongInv, Belongs, Extends
  <2>. QED BY <2>1, <2>2 DEF BelongInv, Running
<1>2. CASE \E opts \in Options, n \in Limits, wanted \in SUBSET Dimensions \ {{}} :
             Start(opts, n, wanted)
  <2>1. PICK opts \in Options, n \in Limits, wanted \in SUBSET Dimensions \ {{}} :
          Start(opts, n, wanted)
    BY <1>2
  <2>. DEFINE existing == IF "resume" \in opts THEN sidecar.content ELSE <<>>
  <2>2. data' = data /\ sidecar' = sidecar /\ out' = InitOutput(data, existing)
    BY <2>1 DEF Start
  <2>3. data \in Seq(Seq(QueryIds)) /\ existing \in Outputs
    <3>1. <<>> \in Outputs
      BY DEF Outputs
    <3>. QED BY <3>1, CriteriaAssumption DEF TypeInv
  <2>4. Belongs(existing)
    BY DEF BelongInv, Belongs
  <2>. HIDE DEF existing
  <2>5. /\ \A s \in DOMAIN data : s \in DOMAIN out'
        /\ \A s \in DOMAIN existing : \A q \in DOMAIN existing[s] : out'[s][q] = existing[s][q]
        /\ \A s \in DOMAIN out' : \A q \in DOMAIN out'[s] :
             \/ /\ s \in DOMAIN existing /\ q \in DOMAIN existing[s]
             \/ /\ s \in DOMAIN data /\ q \in DOMAIN data[s]
                /\ \A d \in Dimensions : out'[s][q].criteria[d] = None
    BY <2>2, <2>3, OutputStarts
  <2>6. ASSUME NEW s \in DOMAIN out', NEW q \in DOMAIN out'[s]
        PROVE  /\ s \in DOMAIN data /\ q \in DOMAIN data[s]
               /\ \A d \in Dimensions : LET c == out'[s][q].criteria[d]
                                        IN  c # None => c.query = data[s][q] /\ c.dim = d
    BY <2>4, <2>5 DEF Belongs
  <2>. QED BY <2>2, <2>6 DEF BelongInv, Belongs
<1>3. CASE CallApi
  BY <1>3, CalledBelongs
<1>4. CASE OpenTmp \/ WriteTmp
  <2>1. pc \in {"saving", "writing"} /\ data' = data /\ sidecar' = sidecar /\ out' = out
    BY <1>4 DEF OpenTmp, WriteTmp
  <2>. QED BY <2>1 DEF BelongInv, Belongs, Running
<1>5. CASE ReplaceOutput
  <2>1. pc = "replacing" /\ pc' = "saved" /\ data' = data /\ sidecar' = tmp
    BY <1>5 DEF ReplaceOutput
  <2>2. sidecar'.content = out
    BY <2>1 DEF RunInv, Whole
  <2>. QED BY <2>1, <2>2 DEF BelongInv, Belongs, Running
<1>6. CASE Crash
  <2>1. pc' = "crashed" /\ data' = data /\ sidecar' = sidecar
    BY <1>6 DEF Crash
  <2>. QED BY <2>1 DEF BelongInv, Belongs, Running
<1>7. CASE UNCHANGED vars
  <2>1. pc' = pc /\ data' = data /\ sidecar' = sidecar /\ out' = out
    BY <1>7 DEF vars
  <2>. QED BY <2>1 DEF BelongInv, Belongs, Running
<1>. QED BY <1>1, <1>2, <1>3, <1>4, <1>5, <1>6, <1>7 DEF Next

\* A run without --limit of which no call failed leaves nothing to do in its dimensions,
\* whatever earlier runs were limited to, failed at, or lost (build_generation_jobs lists a
\* job for every criterion that init_output_data left missing).
THEOREM RunsFill == Spec => []CompleteRunFills
<1>1. RunInv => CompleteRunFills
  BY DEF RunInv, CompleteRunFills, Filled
<1>2. Init => TypeInv /\ RunInv
  BY InitRun
<1>. QED BY <1>1, <1>2, NextRun, PTL DEF Spec

\* Resuming without --overwrite loses no criterion and pays for none twice: what
\* init_output_data kept, build_generation_jobs does not list and run_generation's results
\* leave alone, is what the save at the end puts back.
THEOREM NothingIsLost == Spec => ResumeKeeps
<1>. DEFINE Kept == sidecar' # sidecar /\ "resume" \in options /\ "overwrite" \notin options =>
                      \A s \in DOMAIN sidecar.content : \A q \in DOMAIN sidecar.content[s] :
                        \A d \in Dimensions :
                          LET c == sidecar.content[s][q].criteria[d]
                          IN  c # None => sidecar'.content[s][q].criteria[d] = c
<1>1. TypeInv /\ RunInv /\ [Next]_vars => [Kept]_vars
  <2>. SUFFICES ASSUME TypeInv, RunInv, Next, sidecar' # sidecar,
                       "resume" \in options, "overwrite" \notin options
                PROVE  Kept
    OBVIOUS
  <2>1. CASE ReplaceOutput
    <3>1. pc = "replacing" /\ sidecar'.content = out
      BY <2>1 DEF ReplaceOutput, RunInv, Whole
    <3>2. Keeps(sidecar.content, out)
      BY <3>1 DEF RunInv, Running, Overwriting
    <3>. QED BY <3>1, <3>2 DEF Keeps
  <2>2. CASE ~ReplaceOutput
    <3>1. \A opts \in Options, n \in Limits, wanted \in SUBSET Dimensions \ {{}} :
            ~Start(opts, n, wanted)
      BY DEF Start
    <3>. QED BY <2>2, <3>1 DEF Next, Regenerate, CallApi, OpenTmp, WriteTmp, Crash
  <2>. QED BY <2>1, <2>2
<1>2. Init => TypeInv /\ RunInv
  BY InitRun
<1>. QED BY <1>1, <1>2, NextRun, PTL DEF Spec, ResumeKeeps

\* Each criterion stands at the query and dimension it was generated for, as long as the
\* dataset only grows: a sidecar is kept by position, and query.py renumbers every session
\* when the dataset is generated anew.
THEOREM CriteriaInPlace == OnlyGrows => (Spec => []CriteriaBelong)
<1>. SUFFICES ASSUME OnlyGrows PROVE Spec => []CriteriaBelong
  OBVIOUS
<1>1. RunInv /\ BelongInv => CriteriaBelong
  BY DEF RunInv, BelongInv, Belongs, Covers, CriteriaBelong
<1>2. TypeInv /\ RunInv /\ BelongInv /\ [Next]_vars => (TypeInv /\ RunInv /\ BelongInv)'
  BY NextRun, NextBelongs
<1>. QED BY <1>1, <1>2, InitRun, PTL DEF Spec
================================================================================
