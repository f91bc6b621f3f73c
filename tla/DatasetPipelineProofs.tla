-------------------------- MODULE DatasetPipelineProofs --------------------------
(***************************************************************************)
(* Theorems about DatasetPipeline for any corpus, verdicts, file names,    *)
(* batch sizes and number of runs: what a process may do to the public     *)
(* dataset, whatever crashed before it; that a query a full pipeline       *)
(* stores is one the judge passed; and that nothing it kept is left out.   *)
(* And about GenerateBatch, the call its generating step stands for.       *)
(***************************************************************************)
EXTENDS DatasetPipeline, GenerateBatch, FiniteSetTheorems, FunctionTheorems,
        WellFoundedInduction, TLAPS

\* A process that replaces the dataset found inputs it could evaluate, and they are
\* still there; from the moment the old files are gone, every file is its own.
Replacing == pc \in {"cleaning", "storing", "writing language"}

InputsInv == Replacing => Filterable

OwnFilesInv ==
  pc \in {"storing", "writing language"} => \A f \in DOMAIN outputs : outputs[f].run = run

IInv == InputsInv /\ OwnFilesInv /\ OutputsOfOneRun

--------------------------------------------------------------------------------
LEMMA InitIInv == Init => IInv
BY DEF Init, IInv, InputsInv, Replacing, OwnFilesInv, OutputsOfOneRun

LEMMA InputsKept ==
  ASSUME Filterable, generated' = generated, inspection' = inspection
  PROVE  Filterable'
BY DEF Filterable

\* Removing a file and opening or writing one of the process's own keep the dataset
\* of one run.
LEMMA OneFileLess ==
  ASSUME IInv, RemoveOutput
  PROVE  IInv'
<1>1. PICK f \in DOMAIN outputs : outputs' = [g \in DOMAIN outputs \ {f} |-> outputs[g]]
  BY DEF RemoveOutput
<1>2. OutputsOfOneRun'
  BY <1>1 DEF IInv, OutputsOfOneRun
<1>3. InputsInv'
  BY InputsKept DEF IInv, InputsInv, Replacing, RemoveOutput
<1>4. OwnFilesInv'
  BY DEF OwnFilesInv, RemoveOutput
<1>. QED BY <1>2, <1>3, <1>4 DEF IInv

LEMMA OneFileOpened ==
  ASSUME IInv, OpenLanguage
  PROVE  IInv'
<1>. DEFINE f == SafeName[Head(todo)]
<1>1. \A g \in DOMAIN outputs' : g = f \/ g \in DOMAIN outputs
  BY DEF OpenLanguage
<1>2. \A g \in DOMAIN outputs' : outputs'[g].run = IF g = f THEN run ELSE outputs[g].run
  BY <1>1 DEF OpenLanguage
<1>3. \A g \in DOMAIN outputs : outputs[g].run = run
  BY DEF IInv, OwnFilesInv, OpenLanguage
<1>4. \A g \in DOMAIN outputs' : outputs'[g].run = run
  BY <1>1, <1>2, <1>3
<1>5. run' = run /\ pc' = "writing language"
  BY DEF OpenLanguage
<1>6. InputsInv'
  BY InputsKept DEF IInv, InputsInv, Replacing, OpenLanguage
<1>. QED BY <1>4, <1>5, <1>6 DEF IInv, OwnFilesInv, OutputsOfOneRun

LEMMA OneFileWritten ==
  ASSUME IInv, WriteLanguage
  PROVE  IInv'
<1>. DEFINE f == SafeName[Head(todo)]
<1>1. DOMAIN outputs' = DOMAIN outputs
  BY DEF WriteLanguage
<1>2. \A g \in DOMAIN outputs : outputs'[g].run = IF g = f THEN run ELSE outputs[g].run
  BY DEF WriteLanguage
<1>3. \A g \in DOMAIN outputs : outputs[g].run = run
  BY DEF IInv, OwnFilesInv, WriteLanguage
<1>4. \A g \in DOMAIN outputs' : outputs'[g].run = run
  BY <1>1, <1>2, <1>3
<1>5. run' = run /\ pc' = "storing"
  BY DEF WriteLanguage
<1>6. InputsInv'
  BY InputsKept DEF IInv, InputsInv, Replacing, WriteLanguage
<1>. QED BY <1>4, <1>5, <1>6 DEF IInv, OwnFilesInv, OutputsOfOneRun

\* The steps before the dataset is touched, and the end of a process.
LEMMA DatasetUntouched ==
  ASSUME IInv, outputs' = outputs, pc' \notin {"cleaning", "storing", "writing language"}
  PROVE  IInv'
BY DEF IInv, InputsInv, Replacing, OwnFilesInv, OutputsOfOneRun

LEMMA NextIInv == IInv /\ [Next]_vars => IInv'
<1>. SUFFICES ASSUME IInv, [Next]_vars PROVE IInv'
  OBVIOUS
<1>1. CASE Refilter
  BY <1>1, DatasetUntouched DEF Refilter, Ended
<1>2. CASE \E m \in Modes : Start(m)
  BY <1>2, DatasetUntouched DEF Start, files
<1>3. CASE GenerateBatch
  BY <1>3, DatasetUntouched DEF GenerateBatch, files
<1>4. CASE OpenGenerated \/ WriteGenerated
  BY <1>4, DatasetUntouched DEF OpenGenerated, WriteGenerated
<1>5. CASE InspectBatch
  BY <1>5, DatasetUntouched DEF InspectBatch, files
<1>6. CASE OpenInspection \/ WriteInspection
  BY <1>6, DatasetUntouched DEF OpenInspection, WriteInspection
<1>7. CASE Filter
  <2>1. Filterable'
    BY <1>7, InputsKept DEF Filter, files
  <2>2. outputs' = outputs /\ pc' = "cleaning"
    BY <1>7 DEF Filter, files
  <2>. QED BY <2>1, <2>2 DEF IInv, InputsInv, OwnFilesInv, OutputsOfOneRun
<1>8. CASE FilterFails
  BY <1>8, DatasetUntouched DEF FilterFails, files
<1>9. CASE RemoveOutput
  BY <1>9, OneFileLess
<1>10. CASE Cleaned
  <2>1. Filterable'
    BY <1>10, InputsKept DEF Cleaned, files, IInv, InputsInv, Replacing
  <2>2. outputs' = outputs /\ DOMAIN outputs = {}
    BY <1>10 DEF Cleaned, files
  <2>. QED BY <2>1, <2>2 DEF IInv, InputsInv, OwnFilesInv, OutputsOfOneRun
<1>11. CASE OpenLanguage
  BY <1>11, OneFileOpened
<1>12. CASE WriteLanguage
  BY <1>12, OneFileWritten
<1>13. CASE Stored \/ GroupingFails \/ OpenFails
  BY <1>13, DatasetUntouched DEF Stored, GroupingFails, OpenFails, files
<1>14. CASE Crash
  BY <1>14, DatasetUntouched DEF Crash, files
<1>15. CASE UNCHANGED vars
  BY <1>15, InputsKept DEF vars, files, IInv, InputsInv, Replacing, OwnFilesInv,
                           OutputsOfOneRun
<1>. QED BY <1>1, <1>2, <1>3, <1>4, <1>5, <1>6, <1>7, <1>8, <1>9, <1>10, <1>11, <1>12,
            <1>13, <1>14, <1>15 DEF Next

\* The strengthened invariant: usable inputs, and files of one run while they are replaced.
THEOREM Invariance == Spec => []IInv
BY InitIInv, NextIInv, PTL DEF Spec

--------------------------------------------------------------------------------
\* The language files on disk all come from one run of the pipeline, also while they
\* are being replaced and after a kill at any point of that (store_in_language).
THEOREM OneRun == Spec => []OutputsOfOneRun
BY Invariance, PTL DEF IInv

\* Only a process that found both of its input files whole, and every joined inspection
\* an object, removes or writes a file of the dataset: of all that final_filter can fail
\* on, nothing costs the dataset.  What store_in_language can fail on may.
THEOREM UnreadableCostNothing == Spec => UnreadableInputsKeepDataset
<1>1. IInv /\ [Next]_vars =>
        [outputs' # outputs =>
           /\ generated.state = "whole" /\ inspection.state = "whole"
           /\ \A k \in Joined(generated.data, inspection.data) :
                \A n \in DOMAIN inspection.data[k].inspected :
                  inspection.data[k].inspected[n].result.kind # "odd"]_vars
  <2>. SUFFICES ASSUME IInv, Next, outputs' # outputs PROVE Filterable
    BY DEF Filterable
  <2>1. RemoveOutput \/ OpenLanguage \/ WriteLanguage
    BY DEF Next, Refilter, Start, GenerateBatch, OpenGenerated, WriteGenerated, InspectBatch,
           OpenInspection, WriteInspection, Filter, FilterFails, Cleaned, GroupingFails, OpenFails,
           Stored, Crash, files
  <2>. QED BY <2>1 DEF IInv, InputsInv, Replacing, RemoveOutput, OpenLanguage, WriteLanguage
<1>. QED BY <1>1, Invariance, PTL DEF Spec, UnreadableInputsKeepDataset

--------------------------------------------------------------------------------
(***************************************************************************)
(* What the list helpers return.  FlattenSeq is a recursive function; that *)
(* there is one, and what it gives, is shown for every prefix of its list  *)
(* from the least prefix for which it would fail.                          *)
(***************************************************************************)
LEMMA SomeLeast ==
  ASSUME NEW T, T \subseteq Nat, T # {}
  PROVE  \E x \in T : \A y \in T : x <= y
<1>1. PICK x \in T : \A y \in T : ~(<<y, x>> \in OpToRel(<, Nat))
  BY NatLessThanWellFounded, WFMin
<1>2. ASSUME NEW y \in T PROVE x <= y
  <2>1. <<y, x>> \in Nat \X Nat
    OBVIOUS
  <2>2. ~(y < x)
    BY <1>1, <2>1, Zenon DEF OpToRel
  <2>. QED BY <2>2
<1>. QED BY <1>1, <1>2

LEMMA ListOf ==
  ASSUME NEW S, NEW n \in Nat, NEW f \in [1 .. n -> S]
  PROVE  f \in Seq(S) /\ Len(f) = n
OBVIOUS

Steps(ss, f) ==
  \A k \in 1 .. Len(ss) : f[k] = IF k = 1 THEN ss[k] ELSE f[k - 1] \o ss[k]

LEMMA FlattenedBySteps ==
  ASSUME NEW S, NEW ss \in Seq(Seq(S))
  PROVE  \E f : Steps(ss, f) /\ FlattenSeq(ss) = IF ss = <<>> THEN <<>> ELSE f[Len(ss)]
<1>. DEFINE Upto(n, g) == g = [i \in 1 .. n |-> IF i = 1 THEN ss[i] ELSE g[i - 1] \o ss[i]]
            Defined(n) == \E g : Upto(n, g)
            flatten == CHOOSE g : Upto(Len(ss), g)
<1>1. Len(ss) \in Nat
  OBVIOUS
<1>2. Defined(0)
  <2>1. Upto(0, [i \in 1 .. 0 |-> <<>>])
    OBVIOUS
  <2>. HIDE DEF Upto
  <2>. QED BY <2>1
<1>3. ASSUME NEW n \in 1 .. Len(ss), Defined(n - 1) PROVE Defined(n)
  <2>1. PICK g : Upto(n - 1, g)
    BY <1>3
  <2>. DEFINE h == [i \in 1 .. n |-> IF i < n THEN g[i]
                                     ELSE IF n = 1 THEN ss[n] ELSE g[n - 1] \o ss[n]]
  <2>2. ASSUME NEW i \in 1 .. n
        PROVE  h[i] = IF i = 1 THEN ss[i] ELSE h[i - 1] \o ss[i]
    <3>1. CASE i < n
      <4>1. i \in 1 .. n - 1 /\ (i # 1 => i - 1 \in 1 .. n /\ i - 1 < n)
        BY <1>1, <3>1
      <4>2. h[i] = g[i] /\ (i # 1 => h[i - 1] = g[i - 1])
        BY <3>1, <4>1
      <4>. QED BY <2>1, <4>1, <4>2
    <3>2. CASE i = n
      <4>1. n # 1 => n - 1 \in 1 .. n /\ n - 1 < n
        BY <1>1
      <4>. QED BY <3>2, <4>1
    <3>. QED BY <1>1, <3>1, <3>2
  <2>3. h = [i \in 1 .. n |-> h[i]]
    OBVIOUS
  <2>. HIDE DEF h
  <2>4. Upto(n, h)
    BY <2>2, <2>3
  <2>. HIDE DEF Upto
  <2>. QED BY <2>4
<1>4. Upto(Len(ss), flatten)
  <2>. HIDE DEF Defined
  <2>. DEFINE T == {n \in 0 .. Len(ss) : ~Defined(n)}
  <2>1. ASSUME T # {} PROVE FALSE
    <3>1. T \subseteq Nat
      BY <1>1
    <3>2. PICK n \in T : \A m \in T : n <= m
      BY <2>1, <3>1, SomeLeast
    <3>3. n \in 1 .. Len(ss) /\ n - 1 \in 0 .. Len(ss)
      BY <1>1, <1>2, <3>2
    <3>4. Defined(n - 1)
      BY <3>2, <3>3
    <3>. QED BY <1>3, <3>2, <3>3, <3>4
  <2>2. Defined(Len(ss))
    BY <1>1, <2>1
  <2>. HIDE DEF Upto
  <2>. QED BY <2>2 DEF Defined
<1>5. Steps(ss, flatten)
  <2>1. ASSUME NEW k \in 1 .. Len(ss)
        PROVE  flatten[k] = IF k = 1 THEN ss[k] ELSE flatten[k - 1] \o ss[k]
    BY <1>4
  <2>. HIDE DEF flatten
  <2>. QED BY <2>1 DEF Steps
<1>6. FlattenSeq(ss) = IF ss = <<>> THEN <<>> ELSE flatten[Len(ss)]
  <2>1. CASE ss = <<>>
    BY <2>1 DEF FlattenSeq
  <2>2. CASE ss # <<>>
    BY <2>2 DEF FlattenSeq, flatten
  <2>. QED BY <2>1, <2>2
<1>. HIDE DEF flatten
<1>. QED BY <1>5, <1>6

LEMMA FlattenedType ==
  ASSUME NEW S, NEW ss \in Seq(Seq(S))
  PROVE  FlattenSeq(ss) \in Seq(S)
<1>1. PICK f : Steps(ss, f) /\ FlattenSeq(ss) = IF ss = <<>> THEN <<>> ELSE f[Len(ss)]
  BY FlattenedBySteps
<1>2. Len(ss) \in Nat /\ \A k \in 1 .. Len(ss) : ss[k] \in Seq(S)
  OBVIOUS
<1>3. ASSUME NEW k \in 1 .. Len(ss) PROVE f[k] \in Seq(S)
  <2>. DEFINE T == {n \in 1 .. Len(ss) : f[n] \notin Seq(S)}
  <2>1. ASSUME T # {} PROVE FALSE
    <3>1. T \subseteq Nat
      BY <1>2
    <3>2. PICK n \in T : \A m \in T : n <= m
      BY <2>1, <3>1, SomeLeast
    <3>3. n = 1 \/ (n - 1 \in 1 .. Len(ss) /\ n - 1 < n)
      BY <1>2, <3>2
    <3>4. n # 1 => f[n - 1] \in Seq(S)
      BY <1>2, <3>2, <3>3
    <3>5. ss[n] \in Seq(S) /\ f[n] = IF n = 1 THEN ss[n] ELSE f[n - 1] \o ss[n]
      BY <1>1, <1>2, <3>2 DEF Steps
    <3>6. f[n] \in Seq(S)
      BY <3>4, <3>5
    <3>. QED BY <3>2, <3>6
  <2>. QED BY <2>1
<1>4. CASE ss = <<>>
  BY <1>1, <1>4
<1>5. CASE ss # <<>>
  <2>1. Len(ss) \in 1 .. Len(ss)
    BY <1>2, <1>5
  <2>. QED BY <1>1, <1>3, <1>5, <2>1
<1>. QED BY <1>4, <1>5

\* A list o takes the members of another at some of its positions, each once and in order.
Takes(o, list, positions) ==
  /\ Len(o) \in Nat /\ DOMAIN o = 1 .. Len(o)
  /\ \E p \in [1 .. Len(o) -> positions] :
       /\ \A m \in 1 .. Len(o) : o[m] = list[p[m]]
       /\ \A i \in positions : \E m \in 1 .. Len(o) : p[m] = i
       /\ \A m, n \in 1 .. Len(o) : p[m] = p[n] => m = n
       /\ \A m, n \in 1 .. Len(o) : m < n => p[m] < p[n]

\* Of a longer prefix, one member more is taken, or none.
LEMMA TakesOneMore ==
  ASSUME NEW S, NEW o \in Seq(S), NEW list, NEW P \in SUBSET Nat, NEW k \in Nat \ P,
         \A i \in P : i < k, list[k] \in S, Takes(o, list, P)
  PROVE  Takes(o \o <<list[k]>>, list, P \cup {k})
<1>1. PICK p \in [1 .. Len(o) -> P] :
        /\ \A m \in 1 .. Len(o) : o[m] = list[p[m]]
        /\ \A i \in P : \E m \in 1 .. Len(o) : p[m] = i
        /\ \A m, n \in 1 .. Len(o) : p[m] = p[n] => m = n
        /\ \A m, n \in 1 .. Len(o) : m < n => p[m] < p[n]
  BY DEF Takes
<1>2. PICK r \in Seq(S) : r = o \o <<list[k]>>
  <2>1. PICK e \in S : e = list[k]
    OBVIOUS
  <2>2. o \o <<e>> \in Seq(S)
    OBVIOUS
  <2>. QED BY <2>1, <2>2
<1>3. /\ Len(r) = Len(o) + 1 /\ DOMAIN r = 1 .. Len(o) + 1 /\ Len(o) \in Nat
      /\ r[Len(o) + 1] = list[k] /\ \A m \in 1 .. Len(o) : r[m] = o[m]
  BY <1>2
<1>. DEFINE L == Len(o)
            new == [m \in 1 .. L + 1 |-> IF m = L + 1 THEN k ELSE p[m]]
<1>. HIDE DEF L
<1>4. L \in Nat /\ L = Len(o)
  BY <1>3 DEF L
<1>5. \A m \in 1 .. L + 1 : m = L + 1 \/ (m \in 1 .. L /\ m # L + 1)
  BY <1>4
<1>6. \A m \in 1 .. L : m \in 1 .. L + 1 /\ m # L + 1
  BY <1>4
<1>7. L + 1 \in 1 .. L + 1 /\ new[L + 1] = k /\ \A m \in 1 .. L : new[m] = p[m] /\ p[m] \in P
  <2>1. L + 1 \in 1 .. L + 1
    BY <1>4
  <2>2. new[L + 1] = k
    BY <2>1
  <2>3. ASSUME NEW m \in 1 .. L PROVE new[m] = p[m]
    BY <1>6
  <2>. QED BY <1>1, <1>4, <2>1, <2>2, <2>3
<1>8. new \in [1 .. L + 1 -> P \cup {k}]
  BY <1>1, <1>4, <1>5
<1>. HIDE DEF new
<1>9. \A m \in 1 .. L + 1 : r[m] = list[new[m]]
  BY <1>1, <1>3, <1>4, <1>5, <1>7
<1>10. \A i \in P \cup {k} : \E m \in 1 .. L + 1 : new[m] = i
  BY <1>1, <1>4, <1>6, <1>7
<1>11. ASSUME NEW m \in 1 .. L + 1, NEW n \in 1 .. L + 1, new[m] = new[n] PROVE m = n
  BY <1>1, <1>4, <1>5, <1>7, <1>11
<1>12. ASSUME NEW m \in 1 .. L + 1, NEW n \in 1 .. L + 1, m < n PROVE new[m] < new[n]
  <2>1. m \in 1 .. L /\ p[m] \in P /\ new[m] = p[m]
    BY <1>4, <1>7, <1>12
  <2>2. CASE n = L + 1
    BY <1>7, <2>1, <2>2
  <2>3. CASE n # L + 1
    BY <1>1, <1>4, <1>5, <1>7, <1>12, <2>1, <2>3
  <2>. QED BY <2>2, <2>3
<1>13. Len(r) = L + 1
  BY <1>3, <1>4
<1>14. Takes(r, list, P \cup {k})
  <2>1. new \in [1 .. Len(r) -> P \cup {k}]
    BY <1>8, <1>13
  <2>2. \A m \in 1 .. Len(r) : r[m] = list[new[m]]
    BY <1>9, <1>13
  <2>3. \A i \in P \cup {k} : \E m \in 1 .. Len(r) : new[m] = i
    BY <1>10, <1>13
  <2>4. \A m, n \in 1 .. Len(r) : new[m] = new[n] => m = n
    BY <1>11, <1>13
  <2>5. \A m, n \in 1 .. Len(r) : m < n => new[m] < new[n]
    BY <1>12, <1>13
  <2>6. Len(r) \in Nat /\ DOMAIN r = 1 .. Len(r)
    OBVIOUS
  <2>. QED BY <2>1, <2>2, <2>3, <2>4, <2>5, <2>6, Zenon DEF Takes
<1>. QED BY <1>2, <1>14

LEMMA ThoseTake ==
  ASSUME NEW list, NEW N \in Nat, DOMAIN list = 1 .. N, Len(list) = N,
         NEW positions \in SUBSET (1 .. N)
  PROVE  Takes(Those(list, positions), list, positions)
<1>. DEFINE S == {list[i] : i \in 1 .. N}
            one(n) == IF n \in positions THEN <<list[n]>> ELSE <<>>
            ss == [n \in 1 .. N |-> one(n)]
            P(k) == {i \in positions : i <= k}
<1>0. \A i \in positions : i \in 1 .. N
  OBVIOUS
<1>1. Those(list, positions) = FlattenSeq(ss)
  BY DEF Those
<1>2. \A n \in 1 .. N : list[n] \in S
  OBVIOUS
<1>. HIDE DEF S
<1>3. \A n \in 1 .. N : one(n) \in Seq(S)
  BY <1>2
<1>4. /\ ss \in Seq(Seq(S)) /\ Len(ss) = N
      /\ \A n \in 1 .. N : ss[n] = one(n)
  <2>1. ss \in [1 .. N -> Seq(S)] /\ \A n \in 1 .. N : ss[n] = one(n)
    BY <1>3
  <2>. HIDE DEF ss
  <2>. QED BY <2>1, ListOf
<1>. HIDE DEF ss
<1>5. PICK f : Steps(ss, f) /\ FlattenSeq(ss) = IF ss = <<>> THEN <<>> ELSE f[Len(ss)]
  BY <1>4, FlattenedBySteps
<1>. DEFINE Good(k) == f[k] \in Seq(S) /\ Takes(f[k], list, P(k))
<1>6. ASSUME NEW k \in 1 .. N PROVE f[k] = IF k = 1 THEN one(k) ELSE f[k - 1] \o one(k)
  BY <1>4, <1>5 DEF Steps
<1>7. <<>> \in Seq(S) /\ Takes(<<>>, list, {})
  <2>1. Len(<<>>) = 0 /\ DOMAIN <<>> = {} /\ 1 .. 0 = {} /\ <<>> \in Seq(S)
    OBVIOUS
  <2>2. [m \in 1 .. 0 |-> 0] \in [1 .. 0 -> {}]
    OBVIOUS
  <2>3. \A m \in 1 .. 0 : FALSE
    OBVIOUS
  <2>4. Len(<<>>) \in Nat /\ DOMAIN <<>> = 1 .. Len(<<>>)
    OBVIOUS
  <2>5. \E p \in [1 .. 0 -> {}] :
          /\ \A m \in 1 .. 0 : <<>>[m] = list[p[m]]
          /\ \A i \in {} : \E m \in 1 .. 0 : p[m] = i
          /\ \A m, n \in 1 .. 0 : p[m] = p[n] => m = n
          /\ \A m, n \in 1 .. 0 : m < n => p[m] < p[n]
    BY <2>2, <2>3, Zenon
  <2>. QED BY <2>1, <2>4, <2>5, Zenon DEF Takes
<1>8. ASSUME NEW k \in 1 .. N, NEW o \in Seq(S), Takes(o, list, P(k - 1)), f[k] = o \o one(k)
      PROVE  Good(k)
  <2>1. P(k - 1) \in SUBSET Nat /\ k \in Nat \ P(k - 1) /\ \A i \in P(k - 1) : i < k
    <3>1. \A i \in P(k - 1) : i \in Nat /\ i # k /\ i < k
      BY <1>0
    <3>. HIDE DEF P
    <3>. QED BY <3>1
  <2>2. CASE k \in positions
    <3>1. f[k] = o \o <<list[k]>> /\ list[k] \in S
      BY <1>2, <1>8, <2>2
    <3>2. P(k) = P(k - 1) \cup {k}
      <4>1. \A i \in positions : i <= k <=> i <= k - 1 \/ i = k
        BY <1>0
      <4>. QED BY <2>2, <4>1
    <3>. HIDE DEF P
    <3>3. Takes(f[k], list, P(k))
      <4>1. Takes(o \o <<list[k]>>, list, P(k - 1) \cup {k})
        BY <1>8, <2>1, <3>1, TakesOneMore
      <4>. QED BY <3>1, <3>2, <4>1
    <3>4. f[k] \in Seq(S)
      BY <3>1
    <3>. QED BY <3>3, <3>4
  <2>3. CASE k \notin positions
    <3>1. f[k] = o
      BY <1>8, <2>3
    <3>2. P(k) = P(k - 1)
      <4>1. \A i \in positions : i <= k <=> i <= k - 1
        BY <1>0, <2>3
      <4>. QED BY <4>1
    <3>. HIDE DEF P
    <3>. QED BY <1>8, <3>1, <3>2
  <2>. QED BY <2>2, <2>3
<1>9. ASSUME 1 \in 1 .. N PROVE Good(1)
  <2>1. f[1] = <<>> \o one(1)
    <3>1. PICK a \in Seq(S) : a = one(1)
      BY <1>3, <1>9
    <3>2. f[1] = a
      BY <1>6, <1>9, <3>1
    <3>3. a = <<>> \o a
      OBVIOUS
    <3>. QED BY <3>1, <3>2, <3>3
  <2>2. P(1 - 1) = {}
    <3>1. \A i \in positions : ~(i <= 1 - 1)
      BY <1>0
    <3>. QED BY <3>1
  <2>. HIDE DEF Good, P, one
  <2>. QED BY <1>7, <1>8, <1>9, <2>1, <2>2
<1>10. ASSUME NEW k \in 1 .. N, k # 1, Good(k - 1) PROVE Good(k)
  <2>1. f[k] = f[k - 1] \o one(k)
    BY <1>6, <1>10
  <2>2. f[k - 1] \in Seq(S) /\ Takes(f[k - 1], list, P(k - 1))
    BY <1>10
  <2>. HIDE DEF Good, P, one
  <2>. QED BY <1>8, <2>1, <2>2
<1>11. ASSUME NEW k \in 1 .. N PROVE Good(k)
  <2>. HIDE DEF Good
  <2>. DEFINE T == {n \in 1 .. N : ~Good(n)}
  <2>1. ASSUME T # {} PROVE FALSE
    <3>1. T \subseteq Nat
      OBVIOUS
    <3>2. PICK n \in T : \A m \in T : n <= m
      BY <2>1, <3>1, SomeLeast
    <3>3. n # 1 /\ n - 1 \in 1 .. N
      BY <1>9, <3>2
    <3>4. Good(n - 1)
      BY <3>2, <3>3
    <3>. QED BY <1>10, <3>2, <3>3, <3>4
  <2>. QED BY <2>1
<1>12. CASE N = 0
  <2>1. ss = <<>> /\ positions = {}
    BY <1>4, <1>12
  <2>. QED BY <1>1, <1>5, <1>7, <2>1
<1>13. CASE N # 0
  <2>1. ss # <<>> /\ N \in 1 .. N /\ P(N) = positions
    <3>1. \A i \in positions : i <= N
      BY <1>0
    <3>2. P(N) = positions
      BY <3>1
    <3>. QED BY <1>4, <1>13, <3>2
  <2>2. Takes(f[N], list, P(N))
    BY <1>11, <2>1
  <2>. HIDE DEF P
  <2>. QED BY <1>1, <1>4, <1>5, <2>1, <2>2
<1>. QED BY <1>12, <1>13

\* What is taken of a list has the type of what is taken.
LEMMA TakesType ==
  ASSUME NEW o, NEW list, NEW positions, Takes(o, list, positions),
         NEW T, \A i \in positions : list[i] \in T,
         NEW S, o \in Seq(S)
  PROVE  o \in Seq(T)
<1>1. \A m \in 1 .. Len(o) : o[m] \in T
  BY DEF Takes
<1>2. Len(o) \in Nat
  OBVIOUS
<1>. QED BY <1>1, <1>2

LEMMA ThoseType ==
  ASSUME NEW S, NEW list \in Seq(S), NEW positions
  PROVE  Those(list, positions) \in Seq(S)
<1>. DEFINE one(n) == IF n \in positions THEN <<list[n]>> ELSE <<>>
            ss == [n \in DOMAIN list |-> one(n)]
<1>1. Len(list) \in Nat /\ DOMAIN list = 1 .. Len(list)
  OBVIOUS
<1>2. \A n \in 1 .. Len(list) : one(n) \in Seq(S)
  OBVIOUS
<1>. HIDE DEF one
<1>3. ss \in [1 .. Len(list) -> Seq(S)]
  BY <1>1, <1>2
<1>. HIDE DEF ss
<1>4. ss \in Seq(Seq(S))
  BY <1>1, <1>3, ListOf
<1>5. Those(list, positions) = FlattenSeq(ss)
  BY DEF Those, ss, one
<1>. QED BY <1>4, <1>5, FlattenedType

--------------------------------------------------------------------------------
(***************************************************************************)
(* What the files and lists hold, and what the pipeline's functions make   *)
(* of them: an inspection stays with the query it judged from the batch    *)
(* call to the stored record.                                              *)
(***************************************************************************)
RecordNos == DOMAIN SourceFile
Sources == {SourceFile[r] : r \in RecordNos}
Query   == Nat \X RecordNos \X Nat

GenRec    == [record : RecordNos, source : Sources, queries : Seq(Query)]
Language  == DOMAIN SafeName \cup Unhashable
Judged    == [kind : {"none", "fail", "pass", "odd"}, language : Language, query : Query]
Inspected == [index : Nat, result : Judged]
InspRec   == [source : Sources, inspected : Seq(Inspected)]
Item      == [query : Query, judged : Judged]
KeptRec   == [language : Language, record : RecordNos, items : Seq(Item)]

\* The queries of a list of generated records, each with where it stands.
FlatOf(gens) ==
  {e \in [at : Nat, index : Nat, query : Query] :
     /\ e.at \in DOMAIN gens /\ e.index \in DOMAIN gens[e.at].queries
     /\ e.query = gens[e.at].queries[e.index]}

LEMMA FlatIs ==
  ASSUME NEW gens \in Seq(GenRec)
  PROVE  Flat(gens) \in Seq(FlatOf(gens))
<1>. DEFINE S == FlatOf(gens)
            entry(k, q) == [at |-> k, index |-> q, query |-> gens[k].queries[q]]
            row(k) == [q \in DOMAIN gens[k].queries |-> entry(k, q)]
            ss == [k \in DOMAIN gens |-> row(k)]
<1>1. Flat(gens) = FlattenSeq(ss)
  BY DEF Flat
<1>2. /\ Len(gens) \in Nat /\ DOMAIN gens = 1 .. Len(gens)
      /\ \A k \in DOMAIN gens : k \in Nat /\ gens[k].queries \in Seq(Query)
  <2>1. \A k \in DOMAIN gens : gens[k] \in GenRec /\ k \in Nat
    OBVIOUS
  <2>. QED BY <2>1 DEF GenRec
<1>3. ASSUME NEW k \in DOMAIN gens PROVE row(k) \in Seq(S)
  <2>1. gens[k].queries \in Seq(Query) /\ k \in Nat
    BY <1>2
  <2>. DEFINE L == Len(gens[k].queries)
  <2>2. L \in Nat /\ DOMAIN gens[k].queries = 1 .. L
    BY <2>1
  <2>3. ASSUME NEW q \in 1 .. L PROVE entry(k, q) \in S
    <3>1. gens[k].queries[q] \in Query /\ q \in Nat
      BY <2>1, <2>2
    <3>. QED BY <2>1, <2>2, <3>1 DEF FlatOf
  <2>. HIDE DEF L, S, entry
  <2>4. row(k) \in [1 .. L -> S]
    BY <2>2, <2>3
  <2>. HIDE DEF row
  <2>. QED BY <2>2, <2>4, ListOf
<1>. HIDE DEF S, row
<1>4. ss \in [1 .. Len(gens) -> Seq(S)]
  BY <1>2, <1>3
<1>. HIDE DEF ss
<1>5. ss \in Seq(Seq(S))
  BY <1>2, <1>4, ListOf
<1>. QED BY <1>1, <1>5, FlattenedType DEF S

\* The per-record results hold each verdict under the query it is about.
LEMMA PerRecordIs ==
  ASSUME NEW gens \in Seq(GenRec), NEW results \in Seq(Judged),
         Len(results) = Len(Flat(gens)),
         \A n \in DOMAIN results : results[n].query = Flat(gens)[n].query,
         NEW o, o = PerRecord(gens, results)
  PROVE  /\ o \in Seq(InspRec) /\ DOMAIN o = DOMAIN gens
         /\ \A k \in DOMAIN o : \A n \in DOMAIN o[k].inspected :
              /\ o[k].inspected[n].index \in DOMAIN gens[k].queries
              /\ o[k].inspected[n].result.query = gens[k].queries[o[k].inspected[n].index]
<1>. DEFINE flat == Flat(gens)
            entries == [n \in DOMAIN flat |-> [index |-> flat[n].index, result |-> results[n]]]
            where(k) == {n \in DOMAIN flat : flat[n].at = k /\ results[n].kind # "none"}
            insp(k) == Those(entries, where(k))
            Of(k) == {e \in Inspected : /\ e.index \in DOMAIN gens[k].queries
                                        /\ e.result.query = gens[k].queries[e.index]}
            N == Len(flat)
<1>1. o = [k \in DOMAIN gens |-> [source |-> gens[k].source, inspected |-> insp(k)]]
  BY DEF PerRecord
<1>2. /\ N \in Nat /\ DOMAIN flat = 1 .. N /\ \A n \in 1 .. N : flat[n] \in FlatOf(gens)
  <2>. DEFINE S == FlatOf(gens)
  <2>1. flat \in Seq(S)
    BY FlatIs
  <2>. HIDE DEF flat, S
  <2>2. Len(flat) \in Nat /\ DOMAIN flat = 1 .. Len(flat) /\ \A n \in 1 .. Len(flat) : flat[n] \in S
    BY <2>1
  <2>. QED BY <2>2 DEF S
<1>3. DOMAIN results = 1 .. N
  BY <1>2
<1>. HIDE DEF flat, N
<1>4. ASSUME NEW n \in 1 .. N
      PROVE  /\ flat[n].index \in Nat /\ flat[n].at \in DOMAIN gens
             /\ flat[n].index \in DOMAIN gens[flat[n].at].queries
             /\ results[n] \in Judged
             /\ results[n].query = gens[flat[n].at].queries[flat[n].index]
  <2>1. results[n] \in Judged
    <3>1. \A m \in DOMAIN results : results[m] \in Judged
      OBVIOUS
    <3>. QED BY <1>3, <3>1
  <2>2. results[n].query = flat[n].query
    BY <1>3 DEF flat
  <2>. QED BY <1>2, <2>1, <2>2 DEF FlatOf
<1>5. DOMAIN entries = 1 .. N /\ \A n \in 1 .. N :
        entries[n] = [index |-> flat[n].index, result |-> results[n]]
  BY <1>2
<1>6. \A n \in 1 .. N : entries[n] \in Inspected
  BY <1>4, <1>5 DEF Inspected
<1>7. entries \in Seq(Inspected) /\ Len(entries) = N
  <2>1. entries \in [1 .. N -> Inspected]
    BY <1>2, <1>4 DEF Inspected
  <2>. HIDE DEF entries
  <2>. QED BY <1>2, <2>1, ListOf
<1>. HIDE DEF entries
<1>8. ASSUME NEW k \in DOMAIN gens PROVE insp(k) \in Seq(Inspected) /\ insp(k) \in Seq(Of(k))
  <2>1. where(k) \in SUBSET (1 .. N)
    BY <1>2
  <2>2. \A n \in where(k) : entries[n] \in Of(k)
    BY <1>2, <1>4, <1>5, <1>6
  <2>. HIDE DEF where, Of
  <2>3. Takes(insp(k), entries, where(k))
    BY <1>2, <1>5, <1>7, <2>1, ThoseTake
  <2>4. insp(k) \in Seq(Inspected)
    BY <1>7, ThoseType
  <2>. HIDE DEF insp
  <2>5. insp(k) \in Seq(Of(k))
    BY <2>2, <2>3, <2>4, TakesType
  <2>. QED BY <2>4, <2>5
<1>. HIDE DEF insp
<1>9. DOMAIN o = DOMAIN gens /\ \A k \in DOMAIN gens : o[k].inspected = insp(k) /\
                                  o[k] = [source |-> gens[k].source, inspected |-> insp(k)]
  BY <1>1
<1>10. o \in Seq(InspRec)
  <2>1. Len(gens) \in Nat /\ DOMAIN gens = 1 .. Len(gens)
    OBVIOUS
  <2>2. \A k \in DOMAIN gens : gens[k].source \in Sources
    <3>1. \A k \in DOMAIN gens : gens[k] \in GenRec
      OBVIOUS
    <3>. QED BY <3>1 DEF GenRec
  <2>3. ASSUME NEW k \in DOMAIN gens
        PROVE  [source |-> gens[k].source, inspected |-> insp(k)] \in InspRec
    BY <1>8, <2>2 DEF InspRec
  <2>4. o \in [1 .. Len(gens) -> InspRec]
    BY <1>1, <2>1, <2>3
  <2>. QED BY <2>1, <2>4, ListOf
<1>11. ASSUME NEW k \in DOMAIN gens, NEW n \in DOMAIN insp(k)
       PROVE  /\ insp(k)[n].index \in DOMAIN gens[k].queries
              /\ insp(k)[n].result.query = gens[k].queries[insp(k)[n].index]
  <2>. HIDE DEF Of
  <2>1. insp(k)[n] \in Of(k)
    BY <1>8
  <2>. QED BY <2>1 DEF Of
<1>. QED BY <1>9, <1>10, <1>11

\* build_record takes queries by the index their inspection names, if it passed.
LEMMA RecordIs ==
  ASSUME NEW g \in GenRec, NEW i \in InspRec, Passing(i.inspected) # {},
         NEW o, o = BuildRecord(g, i)
  PROVE  /\ o \in KeptRec
         /\ \A m \in DOMAIN o.items :
              /\ o.items[m].judged.kind = "pass"
              /\ \E n \in DOMAIN i.inspected :
                   /\ i.inspected[n].index \in DOMAIN g.queries
                   /\ o.items[m] = [query |-> g.queries[i.inspected[n].index],
                                    judged |-> i.inspected[n].result]
<1>. DEFINE list == i.inspected
            where == {n \in Passing(list) : list[n].index \in DOMAIN g.queries}
            hits == Those(list, where)
            Hit == {e \in Inspected : /\ e.result.kind = "pass" /\ e.index \in DOMAIN g.queries
                                      /\ \E n \in DOMAIN list : e = list[n]}
            item(m) == [query |-> g.queries[hits[m].index], judged |-> hits[m].result]
            items == [m \in DOMAIN hits |-> item(m)]
<1>1. o = [language |-> list[1].result.language, record |-> g.record, items |-> items]
  BY DEF BuildRecord
<1>2. list \in Seq(Inspected)
  BY DEF InspRec
<1>3. g.record \in RecordNos /\ g.queries \in Seq(Query)
  BY DEF GenRec
<1>. HIDE DEF list
<1>4. Len(list) \in Nat /\ DOMAIN list = 1 .. Len(list) /\ \A n \in 1 .. Len(list) : list[n] \in Inspected
  BY <1>2
<1>5. where \in SUBSET (1 .. Len(list)) /\ \A n \in where : list[n] \in Hit
  BY <1>4 DEF Passing
<1>6. hits \in Seq(Hit)
  <2>. HIDE DEF where, Hit
  <2>1. Takes(hits, list, where)
    BY <1>4, <1>5, ThoseTake
  <2>2. hits \in Seq(Inspected)
    BY <1>2, ThoseType
  <2>. HIDE DEF hits
  <2>. QED BY <1>5, <2>1, <2>2, TakesType
<1>. HIDE DEF hits
<1>7. Len(hits) \in Nat /\ DOMAIN hits = 1 .. Len(hits) /\ \A m \in 1 .. Len(hits) : hits[m] \in Hit
  <2>. HIDE DEF Hit
  <2>. QED BY <1>6
<1>8. ASSUME NEW m \in 1 .. Len(hits)
      PROVE  /\ item(m) \in Item /\ item(m).judged.kind = "pass"
             /\ \E n \in DOMAIN list : /\ list[n].index \in DOMAIN g.queries
                                       /\ item(m) = [query |-> g.queries[list[n].index],
                                                     judged |-> list[n].result]
  <2>1. hits[m] \in Inspected /\ hits[m].index \in DOMAIN g.queries /\ hits[m].result.kind = "pass"
    BY <1>7
  <2>2. g.queries[hits[m].index] \in Query /\ hits[m].result \in Judged
    BY <1>3, <2>1 DEF Inspected
  <2>3. PICK n \in DOMAIN list : hits[m] = list[n]
    BY <1>7
  <2>. QED BY <2>1, <2>2, <2>3 DEF Item
<1>9. items \in Seq(Item) /\ DOMAIN items = 1 .. Len(hits)
      /\ \A m \in 1 .. Len(hits) : items[m] = item(m)
  <2>1. /\ items \in [1 .. Len(hits) -> Item] /\ DOMAIN items = 1 .. Len(hits)
        /\ \A m \in 1 .. Len(hits) : items[m] = item(m)
    BY <1>7, <1>8
  <2>. HIDE DEF items
  <2>. QED BY <1>7, <2>1, ListOf
<1>. HIDE DEF items
<1>10. list[1].result.language \in Language
  <2>1. 1 \in 1 .. Len(list)
    BY <1>4 DEF Passing, list
  <2>2. list[1].result \in Judged
    BY <1>4, <2>1 DEF Inspected
  <2>. QED BY <2>2 DEF Judged
<1>11. o \in KeptRec
  BY <1>1, <1>3, <1>9, <1>10 DEF KeptRec
<1>12. o.items = items
  BY <1>1
<1>13. ASSUME NEW m \in DOMAIN o.items
       PROVE  /\ o.items[m].judged.kind = "pass"
              /\ \E n \in DOMAIN list :
                   /\ list[n].index \in DOMAIN g.queries
                   /\ o.items[m] = [query |-> g.queries[list[n].index], judged |-> list[n].result]
  <2>1. m \in 1 .. Len(hits) /\ o.items[m] = item(m)
    BY <1>9, <1>12
  <2>. HIDE DEF item
  <2>. QED BY <1>8, <2>1
<1>. QED BY <1>11, <1>13 DEF list

Built(o, gens, insps) ==
  \A n \in DOMAIN o : \E k \in DOMAIN gens :
    /\ k \in DOMAIN insps /\ Passing(insps[k].inspected) # {}
    /\ o[n] = BuildRecord(gens[k], insps[k])

LEMMA KeptIs ==
  ASSUME NEW gens \in Seq(GenRec), NEW insps \in Seq(InspRec), NEW o, o = Kept(gens, insps)
  PROVE  o \in Seq(KeptRec) /\ Built(o, gens, insps)
<1>. DEFINE where == {k \in Joined(gens, insps) : Passing(insps[k].inspected) # {}}
            all == [k \in DOMAIN gens |-> k]
            chosen == Those(all, where)
            record(n) == BuildRecord(gens[chosen[n]], insps[chosen[n]])
<1>1. o = [n \in DOMAIN chosen |-> record(n)]
  BY DEF Kept
<1>2. /\ Len(gens) \in Nat /\ DOMAIN gens = 1 .. Len(gens)
      /\ Len(insps) \in Nat /\ DOMAIN insps = 1 .. Len(insps)
  OBVIOUS
<1>3. where \in SUBSET (1 .. Len(gens)) /\ \A k \in where : k \in DOMAIN insps
  BY <1>2 DEF Joined
<1>4. all \in Seq(Nat) /\ DOMAIN all = 1 .. Len(gens) /\ Len(all) = Len(gens)
      /\ \A k \in 1 .. Len(gens) : all[k] = k
  <2>1. all \in [1 .. Len(gens) -> Nat] /\ \A k \in 1 .. Len(gens) : all[k] = k
    BY <1>2
  <2>. HIDE DEF all
  <2>. QED BY <1>2, <2>1, ListOf
<1>. HIDE DEF all
<1>5. chosen \in Seq(where)
  <2>1. \A k \in where : all[k] \in where
    BY <1>3, <1>4
  <2>. HIDE DEF where
  <2>2. Takes(chosen, all, where)
    BY <1>2, <1>3, <1>4, ThoseTake
  <2>3. chosen \in Seq(Nat)
    BY <1>4, ThoseType
  <2>. HIDE DEF chosen
  <2>. QED BY <2>1, <2>2, <2>3, TakesType
<1>. HIDE DEF chosen
<1>6. Len(chosen) \in Nat /\ DOMAIN chosen = 1 .. Len(chosen) /\ \A n \in 1 .. Len(chosen) : chosen[n] \in where
  <2>. HIDE DEF where
  <2>. QED BY <1>5
<1>7. ASSUME NEW n \in 1 .. Len(chosen)
      PROVE  /\ chosen[n] \in DOMAIN gens /\ chosen[n] \in DOMAIN insps
             /\ Passing(insps[chosen[n]].inspected) # {}
             /\ record(n) \in KeptRec
  <2>1. /\ chosen[n] \in DOMAIN gens /\ chosen[n] \in DOMAIN insps
        /\ Passing(insps[chosen[n]].inspected) # {}
    BY <1>2, <1>3, <1>6
  <2>2. PICK g \in GenRec : g = gens[chosen[n]]
    BY <2>1
  <2>3. PICK i \in InspRec : i = insps[chosen[n]]
    BY <2>1
  <2>4. BuildRecord(g, i) \in KeptRec
    BY <2>1, <2>3, RecordIs
  <2>. QED BY <2>1, <2>2, <2>3, <2>4
<1>. HIDE DEF record
<1>8. o \in [1 .. Len(chosen) -> KeptRec] /\ \A n \in 1 .. Len(chosen) : o[n] = record(n)
  BY <1>1, <1>6, <1>7
<1>9. o \in Seq(KeptRec)
  BY <1>6, <1>8, ListOf
<1>. QED BY <1>7, <1>8, <1>9 DEF record, Built

\* Of a record's queries in these lists, each was passed by the verdict on itself.
PassedItself(record) ==
  \A m \in DOMAIN record.items :
    record.items[m].judged.kind = "pass" /\ record.items[m].judged.query = record.items[m].query

LEMMA KeptPassed ==
  ASSUME NEW gens \in Seq(GenRec), NEW results \in Seq(Judged),
         Len(results) = Len(Flat(gens)),
         \A n \in DOMAIN results : results[n].query = Flat(gens)[n].query,
         NEW insps, insps = PerRecord(gens, results), NEW o, o = Kept(gens, insps)
  PROVE  \A n \in DOMAIN o : PassedItself(o[n])
<1>1. /\ insps \in Seq(InspRec) /\ DOMAIN insps = DOMAIN gens
      /\ \A k \in DOMAIN insps : \A n \in DOMAIN insps[k].inspected :
           /\ insps[k].inspected[n].index \in DOMAIN gens[k].queries
           /\ insps[k].inspected[n].result.query = gens[k].queries[insps[k].inspected[n].index]
  BY PerRecordIs
<1>2. insps \in Seq(InspRec)
  BY <1>1
<1>3. Built(o, gens, insps)
  BY <1>2, KeptIs
<1>4. ASSUME NEW n \in DOMAIN o PROVE PassedItself(o[n])
  <2>1. PICK k \in DOMAIN gens :
          /\ k \in DOMAIN insps /\ Passing(insps[k].inspected) # {}
          /\ o[n] = BuildRecord(gens[k], insps[k])
    BY <1>3 DEF Built
  <2>2. PICK g \in GenRec : g = gens[k]
    OBVIOUS
  <2>3. PICK i \in InspRec : i = insps[k]
    BY <1>1, <2>1
  <2>4. PICK r : r = BuildRecord(g, i)
    OBVIOUS
  <2>5. /\ r \in KeptRec
        /\ \A m \in DOMAIN r.items :
             /\ r.items[m].judged.kind = "pass"
             /\ \E j \in DOMAIN i.inspected :
                  /\ i.inspected[j].index \in DOMAIN g.queries
                  /\ r.items[m] = [query |-> g.queries[i.inspected[j].index],
                                   judged |-> i.inspected[j].result]
    <3>1. Passing(i.inspected) # {}
      BY <2>1, <2>3
    <3>. QED BY <2>4, <3>1, RecordIs
  <2>6. \A j \in DOMAIN i.inspected : i.inspected[j].result.query = g.queries[i.inspected[j].index]
    BY <1>1, <2>1, <2>2, <2>3
  <2>7. o[n] = r
    BY <2>1, <2>2, <2>3, <2>4
  <2>8. ASSUME NEW m \in DOMAIN r.items
        PROVE  r.items[m].judged.kind = "pass" /\ r.items[m].judged.query = r.items[m].query
    <3>1. PICK j \in DOMAIN i.inspected :
            r.items[m] = [query |-> g.queries[i.inspected[j].index],
                          judged |-> i.inspected[j].result]
      BY <2>5
    <3>2. /\ r.items[m].judged = i.inspected[j].result
          /\ r.items[m].query = g.queries[i.inspected[j].index]
      BY <3>1
    <3>. QED BY <2>5, <2>6, <3>2
  <2>. QED BY <2>7, <2>8 DEF PassedItself
<1>. QED BY <1>4

--------------------------------------------------------------------------------
(***************************************************************************)
(* The invariants of a process: its files and lists have their types; from *)
(* the first verdict on, every verdict is the one on the query at its      *)
(* place; and while the dataset is stored, every language that is no       *)
(* longer to do has its file.                                              *)
(***************************************************************************)
TypeInv ==
  /\ raw \in Seq(RecordNos) /\ run \in Nat /\ taken \in Nat
  /\ generated.data \in Seq(GenRec) /\ inspection.data \in Seq(InspRec)
  /\ gen \in Seq(GenRec) /\ verdicts \in Seq(Judged) /\ kept \in Seq(KeptRec)

Aligned ==
  /\ Len(verdicts) <= Len(Flat(gen))
  /\ \A n \in DOMAIN verdicts : verdicts[n].query = Flat(gen)[n].query

JudgedInv ==
  /\ pc \in {"generating", "writing generated"} => verdicts = <<>>
  /\ pc \in {"inspecting", "writing inspection"} => Aligned /\ generated.data = gen
  /\ pc = "writing inspection" => Len(verdicts) = Len(Flat(gen))
  /\ pc = "filter" /\ mode = "full_pipeline" =>
       /\ Aligned /\ Len(verdicts) = Len(Flat(gen))
       /\ generated.data = gen /\ inspection.data = PerRecord(gen, verdicts)
  /\ Replacing /\ mode = "full_pipeline" => \A n \in DOMAIN kept : PassedItself(kept[n])

LanguagesOf(records) == {records[n].language : n \in DOMAIN records}

Done == LanguagesOf(kept) \ {todo[n] : n \in DOMAIN todo}

StoreInv ==
  /\ pc \in {"storing", "writing language", "stored"} =>
       /\ Groupable
       /\ todo \in Seq(LanguagesOf(kept))
       /\ \A m, n \in DOMAIN todo : todo[m] = todo[n] => m = n
       /\ \A l \in Done : /\ SafeName[l] \in DOMAIN outputs
                          /\ outputs[SafeName[l]].data = Numbered(l, kept)
       /\ \A f \in DOMAIN outputs : \/ \E l \in Done : f = SafeName[l]
                                    \/ pc = "writing language" /\ f = SafeName[Head(todo)]
  /\ pc = "writing language" => todo # <<>> /\ SafeName[Head(todo)] \in DOMAIN outputs
  /\ pc = "stored" => todo = <<>>

LEMMA PartOf ==
  ASSUME NEW S, NEW s \in Seq(S), NEW m \in Nat \ {0}, NEW n \in Nat, n <= Len(s)
  PROVE  SubSeq(s, m, n) \in Seq(S)
<1>1. Len(s) \in Nat /\ DOMAIN s = 1 .. Len(s) /\ \A i \in 1 .. Len(s) : s[i] \in S
  OBVIOUS
<1>. DEFINE t == SubSeq(s, m, n)
            L == IF m <= n THEN n - m + 1 ELSE 0
<1>2. L \in Nat /\ \A i \in 1 .. L : m + i - 1 \in 1 .. Len(s)
  BY <1>1
<1>3. t = [i \in 1 .. L |-> s[m + i - 1]]
  <2>1. t = [i \in 1 .. 1 + n - m |-> s[i + m - 1]]
    OBVIOUS
  <2>2. 1 .. 1 + n - m = 1 .. L /\ \A i \in 1 .. L : i + m - 1 = m + i - 1
    OBVIOUS
  <2>. QED BY <2>1, <2>2
<1>. HIDE DEF t
<1>4. t \in [1 .. L -> S]
  BY <1>1, <1>2, <1>3
<1>. HIDE DEF L
<1>. QED BY <1>2, <1>4, ListOf DEF t

LEMMA GeneratedIs ==
  ASSUME run \in Nat, NEW batch \in Seq(RecordNos), NEW n \in [DOMAIN batch -> Nat]
  PROVE  Generated(batch, n) \in Seq(GenRec)
<1>. DEFINE entry(i) == [record |-> batch[i], source |-> SourceFile[batch[i]],
                         queries |-> Queries(batch[i], n[i])]
            list == [i \in DOMAIN batch |-> entry(i)]
<1>1. Len(batch) \in Nat /\ DOMAIN batch = 1 .. Len(batch)
  OBVIOUS
<1>2. ASSUME NEW i \in 1 .. Len(batch) PROVE entry(i) \in GenRec
  <2>1. batch[i] \in RecordNos /\ n[i] \in Nat
    BY <1>1
  <2>2. \A q \in 1 .. n[i] : <<run, batch[i], q>> \in Query
    BY <2>1 DEF Query
  <2>3. Queries(batch[i], n[i]) \in [1 .. n[i] -> Query]
    BY <2>2 DEF Queries
  <2>4. Queries(batch[i], n[i]) \in Seq(Query)
    BY <2>1, <2>3, ListOf
  <2>. QED BY <2>1, <2>4 DEF GenRec, Sources
<1>. HIDE DEF entry
<1>3. list \in [1 .. Len(batch) -> GenRec]
  BY <1>1, <1>2
<1>4. Generated(batch, n) = Those(list, {i \in DOMAIN batch : n[i] # 0})
  BY DEF Generated, entry
<1>. HIDE DEF list
<1>5. list \in Seq(GenRec)
  BY <1>1, <1>3, ListOf
<1>. QED BY <1>4, <1>5, ThoseType

\* One round of the batch loop.
LEMMA BatchIs ==
  ASSUME TypeInv, GenerateBatch
  PROVE  gen' \in Seq(GenRec) /\ taken' \in Nat
<1>. DEFINE upto == IF taken + GenerationBatch < Len(Slice)
                    THEN taken + GenerationBatch ELSE Len(Slice)
            batch == SubSeq(Slice, taken + 1, upto)
            Counts == UNION {0 .. MaxQueries[r] : r \in DOMAIN MaxQueries}
<1>1. Slice \in Seq(RecordNos)
  <2>. DEFINE k == IF mode = "generation" /\ GenerationLimit < Len(raw)
                   THEN GenerationLimit ELSE Len(raw)
  <2>1. raw \in Seq(RecordNos) /\ Len(raw) \in Nat
    BY DEF TypeInv
  <2>2. k \in Nat /\ k <= Len(raw)
    BY <2>1, PipelineAssumption
  <2>3. Slice = SubSeq(raw, 1, k)
    BY DEF Slice
  <2>. HIDE DEF k
  <2>. QED BY <2>1, <2>2, <2>3, PartOf
<1>2. taken \in Nat /\ GenerationBatch \in Nat /\ Len(Slice) \in Nat /\ run \in Nat
      /\ gen \in Seq(GenRec)
  BY <1>1, PipelineAssumption DEF TypeInv
<1>3. upto \in Nat /\ upto <= Len(Slice) /\ taken + 1 \in Nat \ {0}
  BY <1>2
<1>4. PICK n \in [DOMAIN batch -> Counts] : gen' = gen \o Generated(batch, n)
  BY DEF GenerateBatch
<1>5. taken' = upto
  BY DEF GenerateBatch
<1>. HIDE DEF upto
<1>6. batch \in Seq(RecordNos)
  BY <1>1, <1>3, PartOf
<1>7. Counts \subseteq Nat
  <2>1. ASSUME NEW r \in DOMAIN MaxQueries, NEW c \in 0 .. MaxQueries[r] PROVE c \in Nat
    <3>1. MaxQueries[r] \in Nat
      BY PipelineAssumption
    <3>. QED BY <3>1
  <2>. QED BY <2>1
<1>. HIDE DEF batch, Counts
<1>8. n \in [DOMAIN batch -> Nat]
  BY <1>4, <1>7
<1>9. Generated(batch, n) \in Seq(GenRec)
  BY <1>2, <1>6, <1>8, GeneratedIs
<1>10. gen' \in Seq(GenRec)
  BY <1>2, <1>4, <1>9
<1>. QED BY <1>3, <1>5, <1>10

\* A batch of inspections: each verdict is on the query at its place.
LEMMA BatchJudged ==
  ASSUME TypeInv, Aligned, InspectBatch
  PROVE  verdicts' \in Seq(Judged) /\ Aligned'
<1>. DEFINE from == Len(verdicts)
            N == Len(Flat(gen))
            size == IF from + InspectionBatch < N THEN InspectionBatch ELSE N - from
<1>1. PICK vs \in [1 .. size -> Verdicts] :
        verdicts' = verdicts \o
          [n \in 1 .. size |-> [kind     |-> vs[n].kind,
                                language |-> vs[n].language,
                                query    |-> Flat(gen)[from + n].query]]
  BY DEF InspectBatch
<1>. DEFINE new == [n \in 1 .. size |-> [kind     |-> vs[n].kind,
                                         language |-> vs[n].language,
                                         query    |-> Flat(gen)[from + n].query]]
<1>2. /\ verdicts \in Seq(Judged) /\ gen \in Seq(GenRec) /\ from \in Nat /\ from <= N
      /\ InspectionBatch \in Nat /\ gen' = gen
  BY PipelineAssumption DEF TypeInv, Aligned, InspectBatch
<1>3. N \in Nat /\ \A n \in 1 .. N : Flat(gen)[n].query \in Query
  <2>. DEFINE S == FlatOf(gen)
              flat == Flat(gen)
  <2>1. flat \in Seq(S)
    BY <1>2, FlatIs
  <2>2. \A e \in S : e.query \in Query
    BY DEF FlatOf
  <2>. HIDE DEF S, flat
  <2>3. Len(flat) \in Nat /\ \A n \in 1 .. Len(flat) : flat[n].query \in Query
    BY <2>1, <2>2
  <2>. QED BY <2>3 DEF flat
<1>. HIDE DEF N
<1>4. size \in Nat /\ from + size <= N
  BY <1>2, <1>3
<1>. HIDE DEF size
<1>5. ASSUME NEW n \in 1 .. size
      PROVE  /\ from + n \in 1 .. N
             /\ [kind |-> vs[n].kind, language |-> vs[n].language,
                 query |-> Flat(gen)[from + n].query] \in Judged
  <2>1. from + n \in 1 .. N
    BY <1>2, <1>3, <1>4
  <2>2. vs[n].kind \in {"none", "fail", "pass", "odd"} /\ vs[n].language \in Language
    BY <1>1, PipelineAssumption DEF Language
  <2>3. Flat(gen)[from + n].query \in Query
    BY <1>3, <2>1
  <2>. QED BY <2>1, <2>2, <2>3 DEF Judged
<1>6. new \in [1 .. size -> Judged] /\ \A n \in 1 .. size : new[n].query = Flat(gen)[from + n].query
  BY <1>5
<1>7. verdicts' = verdicts \o new
  BY <1>1
<1>. HIDE DEF new
<1>8. new \in Seq(Judged) /\ Len(new) = size
  BY <1>4, <1>6, ListOf
<1>9. PICK a \in Seq(Judged) : a = verdicts
  BY <1>2
<1>10. PICK b \in Seq(Judged) : b = new
  BY <1>8
<1>11. verdicts' = a \o b /\ from = Len(a) /\ Len(b) = size
  BY <1>7, <1>8, <1>9, <1>10
<1>. HIDE DEF from
<1>12. /\ a \o b \in Seq(Judged) /\ Len(a \o b) = from + size /\ DOMAIN (a \o b) = 1 .. from + size
       /\ \A n \in 1 .. from : (a \o b)[n] = a[n]
       /\ \A n \in 1 .. size : (a \o b)[from + n] = b[n]
  <2>1. a \o b \in Seq(Judged) /\ Len(a \o b) = Len(a) + Len(b)
    OBVIOUS
  <2>2. DOMAIN (a \o b) = 1 .. Len(a) + Len(b)
    OBVIOUS
  <2>3. \A n \in 1 .. Len(a) : (a \o b)[n] = a[n]
    OBVIOUS
  <2>4. \A n \in 1 .. Len(b) : (a \o b)[Len(a) + n] = b[n]
    OBVIOUS
  <2>. QED BY <1>11, <2>1, <2>2, <2>3, <2>4
<1>13. ASSUME NEW n \in 1 .. from + size PROVE (a \o b)[n].query = Flat(gen)[n].query
  <2>1. CASE n \in 1 .. from
    <3>1. (a \o b)[n] = verdicts[n] /\ n \in DOMAIN verdicts
      BY <1>9, <1>11, <1>12, <2>1
    <3>. QED BY <3>1 DEF Aligned
  <2>2. CASE n \notin 1 .. from
    <3>1. n - from \in 1 .. size /\ from + (n - from) = n
      BY <1>2, <1>4, <2>2
    <3>2. (a \o b)[n] = new[n - from]
      BY <1>10, <1>12, <3>1
    <3>. QED BY <1>6, <3>1, <3>2
  <2>. QED BY <2>1, <2>2
<1>14. Len(verdicts') <= N /\ \A n \in DOMAIN verdicts' : verdicts'[n].query = Flat(gen)[n].query
  BY <1>4, <1>11, <1>12, <1>13
<1>15. Aligned'
  BY <1>2, <1>14 DEF Aligned, N
<1>. QED BY <1>11, <1>12, <1>15

\* A language's file has the records of that language, each once, numbered from 1.
Numbers(o, language, records) ==
  /\ Len(o) \in Nat /\ DOMAIN o = 1 .. Len(o)
  /\ \E p \in [1 .. Len(o) -> {n \in DOMAIN records : records[n].language = language}] :
       /\ \A m \in 1 .. Len(o) : o[m] = [session_id |-> <<LowerCase[SafeName[language]], m>>,
                                         record |-> records[p[m]].record,
                                         items |-> records[p[m]].items]
       /\ \A n \in {i \in DOMAIN records : records[i].language = language} :
            \E m \in 1 .. Len(o) : p[m] = n
       /\ \A m, n \in 1 .. Len(o) : p[m] = p[n] => m = n

LEMMA NumberedIs ==
  ASSUME NEW records \in Seq(KeptRec), NEW l, NEW o, o = Numbered(l, records)
  PROVE  Numbers(o, l, records)
<1>. DEFINE where == {n \in DOMAIN records : records[n].language = l}
            own == Own(l, records)
            entry(n) == [session_id |-> <<LowerCase[SafeName[l]], n>>,
                         record |-> own[n].record, items |-> own[n].items]
            S == {entry(n) : n \in DOMAIN own}
<1>1. Len(records) \in Nat /\ DOMAIN records = 1 .. Len(records)
  OBVIOUS
<1>2. own = Those(records, where)
  BY DEF Own
<1>3. where \in SUBSET (1 .. Len(records))
  BY <1>1
<1>4. Takes(own, records, where)
  <2>. HIDE DEF where, own
  <2>. QED BY <1>1, <1>2, <1>3, ThoseTake
<1>5. o = [n \in DOMAIN own |-> entry(n)]
  BY DEF Numbered
<1>. HIDE DEF where, own
<1>6. PICK p \in [1 .. Len(own) -> where] :
        /\ \A m \in 1 .. Len(own) : own[m] = records[p[m]]
        /\ \A i \in where : \E m \in 1 .. Len(own) : p[m] = i
        /\ \A m, n \in 1 .. Len(own) : p[m] = p[n] => m = n
  BY <1>4 DEF Takes
<1>7. Len(own) \in Nat /\ DOMAIN own = 1 .. Len(own)
  BY <1>4 DEF Takes
<1>8. DOMAIN o = 1 .. Len(own) /\ \A m \in 1 .. Len(own) : o[m] = entry(m)
  BY <1>5, <1>7
<1>9. Len(o) = Len(own)
  <2>1. o \in [1 .. Len(own) -> S]
    BY <1>5, <1>7
  <2>. HIDE DEF S
  <2>. QED BY <1>7, <2>1, ListOf
<1>10. \A m \in 1 .. Len(o) : o[m] = [session_id |-> <<LowerCase[SafeName[l]], m>>,
                                      record |-> records[p[m]].record,
                                      items |-> records[p[m]].items]
  BY <1>6, <1>8, <1>9
<1>. HIDE DEF entry, S
<1>11. /\ p \in [1 .. Len(o) -> where]
       /\ \A i \in where : \E m \in 1 .. Len(o) : p[m] = i
       /\ \A m, n \in 1 .. Len(o) : p[m] = p[n] => m = n
  BY <1>6, <1>9
<1>12. Len(o) \in Nat /\ DOMAIN o = 1 .. Len(o)
  BY <1>7, <1>8, <1>9
<1>. QED BY <1>10, <1>11, <1>12, Zenon DEF Numbers, where

PassedInv == TypeInv /\ JudgedInv /\ OutputsPassedInspection

LEMMA InitPassed == Init => PassedInv
<1>. SUFFICES ASSUME Init PROVE PassedInv
  OBVIOUS
<1>1. <<>> \in Seq(GenRec) /\ <<>> \in Seq(InspRec) /\ <<>> \in Seq(Judged) /\ <<>> \in Seq(KeptRec)
  OBVIOUS
<1>2. generated.data = <<>> /\ inspection.data = <<>>
  BY DEF Init, Absent
<1>3. TypeInv
  BY <1>1, <1>2, PipelineAssumption DEF Init, TypeInv, RecordNos
<1>4. JudgedInv
  BY DEF Init, JudgedInv, Replacing
<1>5. OutputsPassedInspection
  BY DEF Init, OutputsPassedInspection
<1>. QED BY <1>3, <1>4, <1>5 DEF PassedInv

\* The files and lists keep their types.
LEMMA NextTypes == TypeInv /\ JudgedInv /\ [Next]_vars => TypeInv'
<1>. SUFFICES ASSUME TypeInv, JudgedInv, [Next]_vars PROVE TypeInv'
  OBVIOUS
<1>0. <<>> \in Seq(GenRec) /\ <<>> \in Seq(InspRec) /\ <<>> \in Seq(Judged) /\ <<>> \in Seq(KeptRec)
  OBVIOUS
<1>1. CASE Refilter
  <2>1. raw' \in Seq(RecordNos) /\ run' = run /\ taken' = taken /\ generated' = generated
        /\ inspection' = inspection /\ gen' = gen /\ verdicts' = verdicts /\ kept' = kept
    BY <1>1, PipelineAssumption DEF Refilter, memory, RecordNos
  <2>. QED BY <2>1 DEF TypeInv
<1>2. CASE \E m \in Modes : Start(m)
  <2>1. /\ raw' = raw /\ run' = run + 1 /\ taken' = 0 /\ generated' = generated
        /\ inspection' = inspection /\ gen' = <<>> /\ verdicts' = <<>> /\ kept' = <<>>
    BY <1>2 DEF Start, files
  <2>. QED BY <1>0, <2>1 DEF TypeInv
<1>3. CASE GenerateBatch
  <2>1. /\ raw' = raw /\ run' = run /\ generated' = generated
        /\ inspection' = inspection /\ verdicts' = verdicts /\ kept' = kept
    BY <1>3 DEF GenerateBatch, files
  <2>. QED BY <1>3, <2>1, BatchIs DEF TypeInv
<1>4. CASE OpenGenerated \/ WriteGenerated
  <2>1. /\ raw' = raw /\ run' = run /\ taken' = taken /\ (generated' = Torn \/ generated' = Whole(gen))
        /\ inspection' = inspection /\ gen' = gen /\ verdicts' = verdicts /\ kept' = kept
    BY <1>4 DEF OpenGenerated, WriteGenerated, memory
  <2>2. generated'.data = <<>> \/ generated'.data = gen
    BY <2>1 DEF Torn, Whole
  <2>. QED BY <1>0, <2>1, <2>2 DEF TypeInv
<1>5. CASE InspectBatch
  <2>1. /\ raw' = raw /\ run' = run /\ taken' = taken /\ generated' = generated
        /\ inspection' = inspection /\ gen' = gen /\ kept' = kept
    BY <1>5 DEF InspectBatch, files
  <2>2. Aligned
    BY <1>5 DEF InspectBatch, JudgedInv
  <2>3. verdicts' \in Seq(Judged)
    BY <1>5, <2>2, BatchJudged
  <2>. QED BY <2>1, <2>3 DEF TypeInv
<1>6. CASE OpenInspection
  <2>1. /\ raw' = raw /\ run' = run /\ taken' = taken /\ generated' = generated
        /\ inspection' = Torn /\ gen' = gen /\ verdicts' = verdicts /\ kept' = kept
    BY <1>6 DEF OpenInspection, memory
  <2>2. inspection'.data = <<>>
    BY <2>1 DEF Torn
  <2>. QED BY <1>0, <2>1, <2>2 DEF TypeInv
<1>7. CASE WriteInspection
  <2>1. /\ raw' = raw /\ run' = run /\ taken' = taken /\ generated' = generated
        /\ inspection' = Whole(PerRecord(gen, verdicts))
        /\ gen' = gen /\ verdicts' = verdicts /\ kept' = kept
    BY <1>7 DEF WriteInspection, memory
  <2>2. PICK o : o = PerRecord(gen, verdicts)
    OBVIOUS
  <2>3. o \in Seq(InspRec)
    <3>1. /\ gen \in Seq(GenRec) /\ verdicts \in Seq(Judged) /\ Len(verdicts) = Len(Flat(gen))
          /\ \A n \in DOMAIN verdicts : verdicts[n].query = Flat(gen)[n].query
      BY <1>7 DEF WriteInspection, JudgedInv, TypeInv, Aligned
    <3>. QED BY <2>2, <3>1, PerRecordIs
  <2>4. inspection'.data = o
    BY <2>1, <2>2 DEF Whole
  <2>. QED BY <2>1, <2>3, <2>4 DEF TypeInv
<1>8. CASE Filter
  <2>1. /\ raw' = raw /\ run' = run /\ taken' = taken /\ generated' = generated
        /\ inspection' = inspection /\ gen' = gen /\ verdicts' = verdicts
        /\ kept' = Kept(generated.data, inspection.data)
    BY <1>8 DEF Filter, files
  <2>2. kept' \in Seq(KeptRec)
    <3>1. generated.data \in Seq(GenRec) /\ inspection.data \in Seq(InspRec)
      BY DEF TypeInv
    <3>. QED BY <2>1, <3>1, KeptIs
  <2>. QED BY <2>1, <2>2 DEF TypeInv
<1>9. CASE FilterFails \/ RemoveOutput \/ Cleaned \/ GroupingFails \/ OpenLanguage
           \/ OpenFails \/ WriteLanguage \/ Stored \/ UNCHANGED vars
  <2>1. /\ raw' = raw /\ run' = run /\ taken' = taken /\ generated' = generated
        /\ inspection' = inspection /\ gen' = gen /\ verdicts' = verdicts /\ kept' = kept
    BY <1>9 DEF FilterFails, RemoveOutput, Cleaned, GroupingFails, OpenLanguage, OpenFails,
                WriteLanguage, Stored, vars, files, memory
  <2>. QED BY <2>1 DEF TypeInv
<1>10. CASE Crash
  <2>1. /\ raw' = raw /\ run' = run /\ taken' = 0 /\ generated' = generated
        /\ inspection' = inspection /\ gen' = <<>> /\ verdicts' = <<>> /\ kept' = <<>>
    BY <1>10 DEF Crash, files
  <2>. QED BY <1>0, <2>1 DEF TypeInv
<1>. QED BY <1>1, <1>2, <1>3, <1>4, <1>5, <1>6, <1>7, <1>8, <1>9, <1>10 DEF Next

\* The verdicts stay with their queries up to the records that are kept.
LEMMA NextJudged == TypeInv /\ JudgedInv /\ [Next]_vars => JudgedInv'
<1>. SUFFICES ASSUME TypeInv, JudgedInv, [Next]_vars PROVE JudgedInv'
  OBVIOUS
<1>1. CASE Refilter
  BY <1>1 DEF Refilter, Ended, memory, JudgedInv, Replacing
<1>2. CASE \E m \in Modes : Start(m)
  <2>1. PICK m \in Modes : Start(m)
    BY <1>2
  <2>2. /\ pc' \in {"filter", "finished", "generating"} /\ verdicts' = <<>> /\ mode' = m
        /\ pc' = "filter" => m = "filter_only"
    BY <2>1 DEF Start
  <2>. QED BY <2>2 DEF JudgedInv, Replacing
<1>3. CASE GenerateBatch
  <2>1. pc' = "generating" /\ pc = "generating" /\ verdicts' = verdicts
    BY <1>3 DEF GenerateBatch
  <2>. QED BY <2>1 DEF JudgedInv, Replacing
<1>4. CASE OpenGenerated
  <2>1. pc' = "writing generated" /\ pc = "generating" /\ verdicts' = verdicts
    BY <1>4 DEF OpenGenerated, memory
  <2>. QED BY <2>1 DEF JudgedInv, Replacing
<1>5. CASE WriteGenerated
  <2>1. /\ pc' \in {"inspecting", "finished"} /\ verdicts' = <<>> /\ gen' = gen
        /\ generated' = Whole(gen)
    BY <1>5 DEF WriteGenerated, memory, JudgedInv
  <2>2. generated'.data = gen'
    BY <2>1 DEF Whole
  <2>3. Aligned'
    <3>1. Len(Flat(gen)) \in Nat
      <4>. DEFINE S == FlatOf(gen)
      <4>1. Flat(gen) \in Seq(S)
        BY FlatIs DEF TypeInv
      <4>. HIDE DEF S
      <4>. QED BY <4>1
    <3>2. Len(verdicts') = 0 /\ DOMAIN verdicts' = {}
      BY <2>1
    <3>. QED BY <2>1, <3>1, <3>2 DEF Aligned
  <2>. QED BY <2>1, <2>2, <2>3 DEF JudgedInv, Replacing
<1>6. CASE InspectBatch
  <2>1. pc' = "inspecting" /\ pc = "inspecting" /\ gen' = gen /\ generated' = generated
    BY <1>6 DEF InspectBatch, files
  <2>2. Aligned'
    BY <1>6, <2>1, BatchJudged DEF JudgedInv
  <2>. QED BY <2>1, <2>2 DEF JudgedInv, Replacing
<1>7. CASE OpenInspection
  <2>1. /\ pc' = "writing inspection" /\ pc = "inspecting" /\ gen' = gen /\ verdicts' = verdicts
        /\ generated' = generated /\ Len(verdicts) = Len(Flat(gen))
    BY <1>7 DEF OpenInspection, memory
  <2>. QED BY <2>1 DEF JudgedInv, Replacing, Aligned
<1>8. CASE WriteInspection
  <2>1. /\ pc' = "filter" /\ pc = "writing inspection" /\ gen' = gen /\ verdicts' = verdicts
        /\ generated' = generated /\ inspection' = Whole(PerRecord(gen, verdicts))
    BY <1>8 DEF WriteInspection, memory
  <2>2. inspection'.data = PerRecord(gen', verdicts')
    BY <2>1 DEF Whole
  <2>3. Aligned' /\ Len(verdicts') = Len(Flat(gen')) /\ generated'.data = gen'
    BY <2>1 DEF JudgedInv, Aligned
  <2>. QED BY <2>1, <2>2, <2>3 DEF JudgedInv, Replacing
<1>9. CASE Filter
  <2>1. /\ pc' = "cleaning" /\ pc = "filter" /\ mode' = mode
        /\ kept' = Kept(generated.data, inspection.data)
    BY <1>9 DEF Filter
  <2>2. ASSUME mode = "full_pipeline" PROVE \A n \in DOMAIN kept' : PassedItself(kept'[n])
    <3>1. PICK insps : insps = PerRecord(gen, verdicts)
      OBVIOUS
    <3>2. kept' = Kept(gen, insps)
      BY <2>1, <2>2, <3>1 DEF JudgedInv
    <3>3. /\ gen \in Seq(GenRec) /\ verdicts \in Seq(Judged) /\ Len(verdicts) = Len(Flat(gen))
          /\ \A n \in DOMAIN verdicts : verdicts[n].query = Flat(gen)[n].query
      BY <2>1, <2>2 DEF JudgedInv, TypeInv, Aligned
    <3>. QED BY <3>1, <3>2, <3>3, KeptPassed
  <2>. QED BY <2>1, <2>2 DEF JudgedInv, Replacing
<1>10. CASE RemoveOutput \/ Cleaned \/ OpenLanguage \/ WriteLanguage
  <2>1. /\ pc \in {"cleaning", "storing", "writing language"} /\ mode' = mode /\ kept' = kept
        /\ pc' \in {"cleaning", "storing", "writing language"}
    BY <1>10 DEF RemoveOutput, Cleaned, OpenLanguage, WriteLanguage, memory
  <2>. QED BY <2>1 DEF JudgedInv, Replacing
<1>11. CASE FilterFails \/ GroupingFails \/ OpenFails \/ Stored \/ Crash
  <2>1. pc' \in {"failed", "stored", "crashed"}
    BY <1>11 DEF FilterFails, GroupingFails, OpenFails, Stored, Crash
  <2>. QED BY <2>1 DEF JudgedInv, Replacing
<1>12. CASE UNCHANGED vars
  <2>1. /\ pc' = pc /\ mode' = mode /\ gen' = gen /\ verdicts' = verdicts /\ kept' = kept
        /\ generated' = generated /\ inspection' = inspection
    BY <1>12 DEF vars, files, memory
  <2>. QED BY <2>1 DEF JudgedInv, Replacing, Aligned
<1>. QED BY <1>1, <1>2, <1>3, <1>4, <1>5, <1>6, <1>7, <1>8, <1>9, <1>10, <1>11, <1>12 DEF Next

\* A file gets new contents when it is opened, which empties it, and when the kept
\* records of its language are written.
LEMMA NextOutputs ==
  TypeInv /\ JudgedInv /\ OutputsPassedInspection /\ [Next]_vars => OutputsPassedInspection'
<1>. SUFFICES ASSUME TypeInv, JudgedInv, OutputsPassedInspection, [Next]_vars
              PROVE  OutputsPassedInspection'
  OBVIOUS
<1>. DEFINE Fine(file) == \A n \in DOMAIN file.data : PassedItself(file.data[n])
<1>1. \A f \in DOMAIN outputs : outputs[f].mode = "full_pipeline" => Fine(outputs[f])
  BY DEF OutputsPassedInspection, PassedItself
<1>2. SUFFICES ASSUME NEW f \in DOMAIN outputs', outputs'[f].mode = "full_pipeline"
               PROVE  Fine(outputs'[f])
  BY DEF OutputsPassedInspection, PassedItself
<1>3. CASE outputs' = outputs
  BY <1>1, <1>2, <1>3
<1>4. CASE RemoveOutput
  <2>1. f \in DOMAIN outputs /\ outputs'[f] = outputs[f]
    BY <1>2, <1>4 DEF RemoveOutput
  <2>. QED BY <1>1, <1>2, <2>1
<1>5. CASE OpenLanguage
  <2>1. CASE f = SafeName[Head(todo)]
    <3>1. outputs'[f].data = <<>>
      BY <1>2, <1>5, <2>1 DEF OpenLanguage
    <3>. QED BY <3>1
  <2>2. CASE f # SafeName[Head(todo)]
    <3>1. f \in DOMAIN outputs /\ outputs'[f] = outputs[f]
      BY <1>2, <1>5, <2>2 DEF OpenLanguage
    <3>. QED BY <1>1, <1>2, <3>1
  <2>. QED BY <2>1, <2>2
<1>6. CASE WriteLanguage
  <2>1. f \in DOMAIN outputs
    BY <1>2, <1>6 DEF WriteLanguage
  <2>2. CASE f = SafeName[Head(todo)]
    <3>1. outputs'[f] = [state |-> "whole", run |-> run, mode |-> mode,
                         data |-> Numbered(Head(todo), kept)]
      BY <1>6, <2>1, <2>2 DEF WriteLanguage
    <3>2. PICK o : o = Numbered(Head(todo), kept)
      OBVIOUS
    <3>3. outputs'[f].data = o /\ mode = "full_pipeline"
      BY <1>2, <3>1, <3>2
    <3>4. \A n \in DOMAIN kept : PassedItself(kept[n])
      BY <1>6, <3>3 DEF JudgedInv, Replacing, WriteLanguage
    <3>5. Numbers(o, Head(todo), kept)
      BY <3>2, NumberedIs DEF TypeInv
    <3>6. \A n \in DOMAIN o : \E m \in DOMAIN kept : o[n].items = kept[m].items
      BY <3>5 DEF Numbers
    <3>. QED BY <3>3, <3>4, <3>6 DEF PassedItself
  <2>3. CASE f # SafeName[Head(todo)]
    <3>1. outputs'[f] = outputs[f]
      BY <1>6, <2>1, <2>3 DEF WriteLanguage
    <3>. QED BY <1>1, <1>2, <2>1, <3>1
  <2>. QED BY <2>2, <2>3
<1>. QED BY <1>3, <1>4, <1>5, <1>6 DEF Next, vars, files, Refilter, Start, GenerateBatch,
          OpenGenerated, WriteGenerated, InspectBatch, OpenInspection, WriteInspection, Filter,
          FilterFails, Cleaned, GroupingFails, OpenFails, Stored, Crash

\* Every query in a file that a full pipeline stored was passed by the judge's verdict on
\* that very query, over any history of runs, kills and refilterings before it.
THEOREM OnlyPassedQueries == Spec => []OutputsPassedInspection
<1>1. PassedInv /\ [Next]_vars => PassedInv'
  BY NextTypes, NextJudged, NextOutputs DEF PassedInv
<1>2. PassedInv => OutputsPassedInspection
  BY DEF PassedInv
<1>. QED BY <1>1, <1>2, InitPassed, PTL DEF Spec

--------------------------------------------------------------------------------
(***************************************************************************)
(* What store_in_language leaves, for languages whose file names differ in *)
(* more than case: two that sanitise to one name ("a b", "a/b") would      *)
(* share a file, and the later would replace the earlier.                  *)
(***************************************************************************)
SafeNamesDiffer ==
  \A l, m \in DOMAIN SafeName : LowerCase[SafeName[l]] = LowerCase[SafeName[m]] => l = m

LEMMA LanguagesIs ==
  ASSUME NEW records \in Seq(KeptRec), NEW o, o = Languages(records)
  PROVE  /\ o \in Seq(LanguagesOf(records))
         /\ \A m, n \in DOMAIN o : o[m] = o[n] => m = n
         /\ \A l \in LanguagesOf(records) : \E n \in DOMAIN o : o[n] = l
<1>. DEFINE N == Len(records)
            list == [n \in DOMAIN records |-> records[n].language]
            where == {n \in DOMAIN records :
                       \A m \in 1 .. n - 1 : records[m].language # records[n].language}
            Ls == LanguagesOf(records)
<1>1. N \in Nat /\ DOMAIN records = 1 .. N
  OBVIOUS
<1>2. \A n \in 1 .. N : list[n] = records[n].language /\ list[n] \in Ls
  BY <1>1 DEF LanguagesOf
<1>3. list \in [1 .. N -> Ls]
  BY <1>1, <1>2
<1>4. o = Those(list, where)
  BY DEF Languages
<1>5. where \in SUBSET (1 .. N)
  BY <1>1
<1>6. DOMAIN list = 1 .. N
  BY <1>1
<1>7. ASSUME NEW i \in where, NEW j \in where, list[i] = list[j] PROVE i = j
  <2>1. i \in 1 .. N /\ j \in 1 .. N /\ records[i].language = records[j].language
    BY <1>2, <1>5, <1>7
  <2>2. ~(i < j) /\ ~(j < i)
    <3>1. i < j => i \in 1 .. j - 1
      BY <1>1, <2>1
    <3>2. j < i => j \in 1 .. i - 1
      BY <1>1, <2>1
    <3>. QED BY <2>1, <3>1, <3>2
  <2>. QED BY <2>1, <2>2
<1>8. ASSUME NEW l \in Ls PROVE \E i \in where : list[i] = l
  <2>. DEFINE T == {n \in DOMAIN records : records[n].language = l}
  <2>1. T \subseteq Nat /\ T # {}
    BY <1>1 DEF LanguagesOf
  <2>2. PICK n \in T : \A m \in T : n <= m
    BY <2>1, SomeLeast
  <2>3. ASSUME NEW m \in 1 .. n - 1 PROVE records[m].language # records[n].language
    <3>1. m \in DOMAIN records /\ ~(n <= m)
      BY <1>1
    <3>. QED BY <2>2, <3>1
  <2>. QED BY <1>2, <2>2, <2>3
<1>. HIDE DEF list, where, Ls, N
<1>9. list \in Seq(Ls) /\ Len(list) = N
  BY <1>1, <1>3, ListOf
<1>10. Takes(o, list, where)
  BY <1>1, <1>4, <1>5, <1>6, <1>9, ThoseTake
<1>11. PICK p \in [1 .. Len(o) -> where] :
         /\ \A m \in 1 .. Len(o) : o[m] = list[p[m]]
         /\ \A i \in where : \E m \in 1 .. Len(o) : p[m] = i
         /\ \A m, n \in 1 .. Len(o) : p[m] = p[n] => m = n
  BY <1>10 DEF Takes
<1>12. DOMAIN o = 1 .. Len(o)
  BY <1>10 DEF Takes
<1>13. ASSUME NEW m \in DOMAIN o, NEW n \in DOMAIN o, o[m] = o[n] PROVE m = n
  <2>1. p[m] \in where /\ p[n] \in where /\ list[p[m]] = list[p[n]]
    BY <1>11, <1>12, <1>13
  <2>2. p[m] = p[n]
    BY <1>7, <2>1
  <2>. QED BY <1>11, <1>12, <2>2
<1>14. ASSUME NEW l \in Ls PROVE \E n \in DOMAIN o : o[n] = l
  <2>1. PICK i \in where : list[i] = l
    BY <1>8
  <2>. QED BY <1>11, <1>12, <2>1
<1>15. o \in Seq(Ls)
  BY <1>4, <1>9, ThoseType
<1>. QED BY <1>13, <1>14, <1>15 DEF Ls

\* Of the languages to do the first is written, the others stay to do.
LEMMA HeadAndTail ==
  ASSUME NEW S, NEW t \in Seq(S), t # <<>>, \A m, n \in DOMAIN t : t[m] = t[n] => m = n
  PROVE  /\ Head(t) \in S /\ Tail(t) \in Seq(S)
         /\ \A m, n \in DOMAIN Tail(t) : Tail(t)[m] = Tail(t)[n] => m = n
         /\ {t[n] : n \in DOMAIN t} = {Tail(t)[n] : n \in DOMAIN Tail(t)} \cup {Head(t)}
         /\ Head(t) \notin {Tail(t)[n] : n \in DOMAIN Tail(t)}
<1>1. Len(t) \in Nat /\ DOMAIN t = 1 .. Len(t) /\ 1 \in 1 .. Len(t) /\ Head(t) = t[1]
  OBVIOUS
<1>2. PICK r \in Seq(S) : r = Tail(t)
  <2>1. Tail(t) \in Seq(S)
    BY <1>1
  <2>. QED BY <2>1
<1>3. /\ Len(r) = Len(t) - 1 /\ DOMAIN r = 1 .. Len(t) - 1
      /\ \A n \in 1 .. Len(t) - 1 : r[n] = t[n + 1]
  BY <1>1, <1>2
<1>4. \A n \in 1 .. Len(t) - 1 : n + 1 \in 1 .. Len(t) /\ n + 1 # 1
  BY <1>1
<1>5. \A n \in 1 .. Len(t) : n = 1 \/ (n - 1 \in 1 .. Len(t) - 1 /\ (n - 1) + 1 = n)
  BY <1>1
<1>6. ASSUME NEW m \in DOMAIN r, NEW n \in DOMAIN r, r[m] = r[n] PROVE m = n
  <2>1. m + 1 = n + 1
    BY <1>1, <1>3, <1>4, <1>6
  <2>2. m \in Int /\ n \in Int
    BY <1>3
  <2>. QED BY <2>1, <2>2
<1>7. ASSUME NEW n \in DOMAIN r PROVE r[n] # Head(t) /\ r[n] \in {t[i] : i \in DOMAIN t}
  BY <1>1, <1>3, <1>4
<1>8. ASSUME NEW n \in DOMAIN t PROVE t[n] = Head(t) \/ t[n] \in {r[i] : i \in DOMAIN r}
  <2>1. CASE n = 1
    BY <1>1, <2>1
  <2>2. CASE n # 1
    <3>1. n - 1 \in DOMAIN r /\ r[n - 1] = t[n]
      BY <1>1, <1>3, <1>5, <2>2
    <3>. QED BY <3>1
  <2>. QED BY <2>1, <2>2
<1>9. {t[n] : n \in DOMAIN t} = {r[n] : n \in DOMAIN r} \cup {Head(t)}
  <2>1. Head(t) \in {t[n] : n \in DOMAIN t}
    BY <1>1
  <2>. QED BY <1>7, <1>8, <2>1
<1>10. Head(t) \in S
  BY <1>1
<1>. QED BY <1>2, <1>6, <1>7, <1>9, <1>10

LEMMA KeptLanguages ==
  ASSUME TypeInv, Groupable, NEW l \in LanguagesOf(kept)
  PROVE  l \in DOMAIN SafeName
<1>1. \A n \in DOMAIN kept : kept[n] \in KeptRec
  BY DEF TypeInv
<1>. QED BY <1>1 DEF LanguagesOf, KeptRec, Groupable, Language

Storing == pc \in {"storing", "writing language", "stored"}

LEMMA NextStore == SafeNamesDiffer /\ TypeInv /\ StoreInv /\ [Next]_vars => StoreInv'
<1>. SUFFICES ASSUME SafeNamesDiffer, TypeInv, StoreInv, [Next]_vars PROVE StoreInv'
  OBVIOUS
<1>. DEFINE Ls == LanguagesOf(kept)
<1>1. CASE Cleaned
  <2>1. /\ pc' = "storing" /\ kept' = kept /\ todo' = Languages(kept) /\ outputs' = outputs
        /\ DOMAIN outputs = {} /\ Groupable'
    BY <1>1 DEF Cleaned, files, Groupable
  <2>2. /\ todo' \in Seq(Ls)
        /\ \A m, n \in DOMAIN todo' : todo'[m] = todo'[n] => m = n
        /\ \A l \in Ls : \E n \in DOMAIN todo' : todo'[n] = l
    <3>1. kept \in Seq(KeptRec)
      BY DEF TypeInv
    <3>. QED BY <2>1, <3>1, LanguagesIs
  <2>3. Done' = {}
    BY <2>1, <2>2 DEF Done
  <2>. QED BY <2>1, <2>2, <2>3 DEF StoreInv
<1>2. CASE OpenLanguage
  <2>. DEFINE l == Head(todo)
              f == SafeName[l]
  <2>1. /\ pc = "storing" /\ pc' = "writing language" /\ kept' = kept /\ todo' = todo
        /\ todo # <<>>
        /\ DOMAIN outputs' = DOMAIN outputs \cup {f}
        /\ \A g \in DOMAIN outputs : g # f => outputs'[g] = outputs[g]
    BY <1>2 DEF OpenLanguage, memory
  <2>2. /\ todo \in Seq(Ls) /\ Groupable /\ Groupable'
        /\ \A m, n \in DOMAIN todo : todo[m] = todo[n] => m = n
    BY <2>1 DEF StoreInv, Groupable
  <2>3. l \in Ls /\ l \in {todo[n] : n \in DOMAIN todo}
    <3>1. PICK t \in Seq(Ls) : t = todo
      BY <2>2
    <3>2. t # <<>> /\ \A m, n \in DOMAIN t : t[m] = t[n] => m = n
      BY <2>1, <2>2, <3>1
    <3>3. /\ Head(t) \in Ls
          /\ {t[n] : n \in DOMAIN t} = {Tail(t)[n] : n \in DOMAIN Tail(t)} \cup {Head(t)}
      <4>. HIDE DEF Ls
      <4>. QED BY <3>2, HeadAndTail
    <3>4. l = Head(t) /\ {todo[n] : n \in DOMAIN todo} = {t[n] : n \in DOMAIN t}
      BY <3>1
    <3>. QED BY <3>3, <3>4
  <2>4. Done' = Done
    BY <2>1 DEF Done
  <2>5. ASSUME NEW m \in Done PROVE SafeName[m] # f
    BY <2>2, <2>3, KeptLanguages DEF Done, SafeNamesDiffer
  <2>6. ASSUME NEW m \in Done
        PROVE  SafeName[m] \in DOMAIN outputs' /\ outputs'[SafeName[m]].data = Numbered(m, kept')
    BY <2>1, <2>5 DEF StoreInv
  <2>7. \A g \in DOMAIN outputs' : g = f \/ \E m \in Done : g = SafeName[m]
    BY <2>1 DEF StoreInv
  <2>8. SafeName[Head(todo')] = f
    BY <2>1
  <2>. QED BY <2>1, <2>2, <2>4, <2>6, <2>7, <2>8 DEF StoreInv
<1>3. CASE WriteLanguage
  <2>. DEFINE l == Head(todo)
              f == SafeName[l]
  <2>1. /\ pc = "writing language" /\ pc' = "storing" /\ kept' = kept /\ todo' = Tail(todo)
        /\ DOMAIN outputs' = DOMAIN outputs
        /\ \A g \in DOMAIN outputs : g # f => outputs'[g] = outputs[g]
        /\ f \in DOMAIN outputs => outputs'[f].data = Numbered(l, kept)
    BY <1>3 DEF WriteLanguage
  <2>2. /\ todo \in Seq(Ls) /\ todo # <<>> /\ f \in DOMAIN outputs
        /\ \A m, n \in DOMAIN todo : todo[m] = todo[n] => m = n
        /\ Groupable /\ Groupable'
    BY <2>1 DEF StoreInv, Groupable
  <2>3. PICK t \in Seq(Ls) : t = todo
    BY <2>2
  <2>4. PICK r : r = Tail(t)
    OBVIOUS
  <2>5. /\ Head(t) \in Ls /\ r \in Seq(Ls)
        /\ \A m, n \in DOMAIN r : r[m] = r[n] => m = n
        /\ {t[n] : n \in DOMAIN t} = {r[n] : n \in DOMAIN r} \cup {Head(t)}
        /\ Head(t) \notin {r[n] : n \in DOMAIN r}
    <3>1. /\ t # <<>> /\ \A m, n \in DOMAIN t : t[m] = t[n] => m = n
      BY <2>2, <2>3
    <3>2. /\ Head(t) \in Ls /\ Tail(t) \in Seq(Ls)
          /\ \A m, n \in DOMAIN Tail(t) : Tail(t)[m] = Tail(t)[n] => m = n
          /\ {t[n] : n \in DOMAIN t} = {Tail(t)[n] : n \in DOMAIN Tail(t)} \cup {Head(t)}
          /\ Head(t) \notin {Tail(t)[n] : n \in DOMAIN Tail(t)}
      BY <3>1, HeadAndTail
    <3>. QED BY <2>4, <3>2
  <2>6. Done' = Done \cup {l}
    <3>1. Done = Ls \ {t[n] : n \in DOMAIN t}
      BY <2>3 DEF Done
    <3>2. Done' = Ls \ {r[n] : n \in DOMAIN r}
      BY <2>1, <2>3, <2>4 DEF Done
    <3>3. l = Head(t)
      BY <2>3
    <3>. QED BY <2>5, <3>1, <3>2, <3>3
  <2>7. l \in Ls /\ l \in {todo[n] : n \in DOMAIN todo}
    BY <2>3, <2>5
  <2>8. ASSUME NEW m \in Done PROVE SafeName[m] # f
    BY <2>2, <2>7, KeptLanguages DEF Done, SafeNamesDiffer
  <2>9. ASSUME NEW m \in Done'
        PROVE  SafeName[m] \in DOMAIN outputs' /\ outputs'[SafeName[m]].data = Numbered(m, kept')
    <3>1. CASE m = l
      BY <2>1, <2>2, <3>1
    <3>2. CASE m \in Done
      BY <2>1, <2>8, <3>2 DEF StoreInv
    <3>. QED BY <2>6, <3>1, <3>2
  <2>10. \A g \in DOMAIN outputs' : \E m \in Done' : g = SafeName[m]
    <3>1. \A g \in DOMAIN outputs : g = f \/ \E m \in Done : g = SafeName[m]
      BY <2>1 DEF StoreInv
    <3>. QED BY <2>1, <2>6, <3>1
  <2>11. todo' \in Seq(LanguagesOf(kept')) /\ \A m, n \in DOMAIN todo' : todo'[m] = todo'[n] => m = n
    BY <2>1, <2>3, <2>4, <2>5
  <2>. QED BY <2>1, <2>2, <2>9, <2>10, <2>11 DEF StoreInv
<1>4. CASE Stored
  <2>1. /\ pc = "storing" /\ pc' = "stored" /\ kept' = kept /\ todo' = todo /\ outputs' = outputs
        /\ todo = <<>>
    BY <1>4 DEF Stored, files, memory
  <2>. QED BY <2>1 DEF StoreInv, Done, Groupable
<1>5. CASE Refilter \/ UNCHANGED vars
  <2>1. pc' = pc /\ kept' = kept /\ todo' = todo /\ outputs' = outputs
    BY <1>5 DEF Refilter, vars, files, memory
  <2>2. Done' = Done /\ (Groupable' <=> Groupable) /\ LanguagesOf(kept') = LanguagesOf(kept)
    BY <2>1 DEF Done, Groupable
  <2>. QED BY <2>1, <2>2 DEF StoreInv
<1>6. CASE ~Storing'
  BY <1>6 DEF StoreInv, Storing
<1>7. CASE RemoveOutput
  <2>1. pc' = "cleaning"
    BY <1>7 DEF RemoveOutput
  <2>. QED BY <2>1 DEF StoreInv
<1>8. (\E m \in Modes : Start(m)) => ~Storing'
  BY DEF Start, Storing
<1>. QED BY <1>1, <1>2, <1>3, <1>4, <1>5, <1>6, <1>7, <1>8 DEF Next, Storing, GenerateBatch,
          OpenGenerated, WriteGenerated, InspectBatch, OpenInspection, WriteInspection, Filter,
          FilterFails, GroupingFails, OpenFails, Crash

\* When every language is done, the slots of the files are the kept records: the slot of a
\* record is in its language's file, where the file's numbering puts it.
LEMMA SlotsCounted ==
  ASSUME SafeNamesDiffer, TypeInv, StoreInv, pc = "stored"
  PROVE  /\ Cardinality(OutputSlots) = Len(kept)
         /\ \A n \in DOMAIN kept : \E slot \in OutputSlots :
              /\ StoredAt(slot).record = kept[n].record
              /\ StoredAt(slot).items = kept[n].items
         /\ \A s, t \in OutputSlots :
              StoredAt(s).session_id = StoredAt(t).session_id => s = t
<1>. DEFINE Ls == LanguagesOf(kept)
            file(l) == outputs[SafeName[l]].data
            where(l) == {n \in DOMAIN kept : kept[n].language = l}
            Places(l, p) ==
              /\ p \in [1 .. Len(file(l)) -> where(l)]
              /\ \A m \in 1 .. Len(file(l)) :
                   file(l)[m] = [session_id |-> <<LowerCase[SafeName[l]], m>>,
                                 record |-> kept[p[m]].record, items |-> kept[p[m]].items]
              /\ \A n \in where(l) : \E m \in 1 .. Len(file(l)) : p[m] = n
              /\ \A m, n \in 1 .. Len(file(l)) : p[m] = p[n] => m = n
            place(l) == CHOOSE p : Places(l, p)
            number(n) == CHOOSE m \in 1 .. Len(file(kept[n].language)) :
                           place(kept[n].language)[m] = n
            slot(n) == <<SafeName[kept[n].language], number(n)>>
            N == Len(kept)
<1>1. /\ kept \in Seq(KeptRec) /\ N \in Nat /\ DOMAIN kept = 1 .. N
      /\ \A n \in 1 .. N : kept[n].language \in Ls
  BY DEF TypeInv, LanguagesOf
<1>2. Done = Ls
  <2>1. todo = <<>>
    BY DEF StoreInv
  <2>. QED BY <2>1 DEF Done
<1>3. \A l, m \in Ls : LowerCase[SafeName[l]] = LowerCase[SafeName[m]] => l = m
  BY KeptLanguages DEF SafeNamesDiffer, StoreInv
<1>4. ASSUME NEW l \in Ls
      PROVE  /\ SafeName[l] \in DOMAIN outputs /\ DOMAIN file(l) = 1 .. Len(file(l))
             /\ Len(file(l)) \in Nat /\ Places(l, place(l))
  <2>1. SafeName[l] \in DOMAIN outputs /\ file(l) = Numbered(l, kept)
    BY <1>2 DEF StoreInv
  <2>2. Numbers(file(l), l, kept)
    BY <1>1, <2>1, NumberedIs
  <2>3. \E p : Places(l, p)
    BY <2>2, Zenon DEF Numbers
  <2>4. Places(l, place(l))
    <3>. HIDE DEF Places
    <3>. QED BY <2>3
  <2>5. DOMAIN file(l) = 1 .. Len(file(l)) /\ Len(file(l)) \in Nat
    BY <2>2 DEF Numbers
  <2>. HIDE DEF Places, place
  <2>. QED BY <2>1, <2>4, <2>5
<1>. HIDE DEF place
<1>5. \A f \in DOMAIN outputs : \E l \in Ls : f = SafeName[l]
  BY <1>2 DEF StoreInv
<1>6. ASSUME NEW s \in OutputSlots
      PROVE  \E l \in Ls : \E m \in 1 .. Len(file(l)) :
               s = <<SafeName[l], m>> /\ StoredAt(s) = file(l)[m]
  <2>0. PICK f \in DOMAIN outputs : \E m \in DOMAIN outputs[f].data : s = <<f, m>>
    BY DEF OutputSlots
  <2>1. PICK m \in DOMAIN outputs[f].data : s = <<f, m>>
    BY <2>0
  <2>2. PICK l \in Ls : f = SafeName[l]
    BY <1>5
  <2>3. m \in 1 .. Len(file(l))
    BY <1>4, <2>2
  <2>4. StoredAt(s) = file(l)[m]
    BY <2>1, <2>2 DEF StoredAt
  <2>. QED BY <2>1, <2>2, <2>3, <2>4
<1>7. ASSUME NEW l \in Ls, NEW m \in 1 .. Len(file(l))
      PROVE  <<SafeName[l], m>> \in OutputSlots /\ StoredAt(<<SafeName[l], m>>) = file(l)[m]
  BY <1>4 DEF OutputSlots, StoredAt
<1>8. ASSUME NEW n \in 1 .. N
      PROVE  /\ number(n) \in 1 .. Len(file(kept[n].language))
             /\ place(kept[n].language)[number(n)] = n
  <2>1. kept[n].language \in Ls /\ n \in where(kept[n].language)
    BY <1>1
  <2>2. \E m \in 1 .. Len(file(kept[n].language)) : place(kept[n].language)[m] = n
    BY <1>4, <2>1
  <2>. QED BY <2>2
<1>. HIDE DEF number
<1>9. ASSUME NEW n \in 1 .. N
      PROVE  /\ slot(n) \in OutputSlots
             /\ StoredAt(slot(n)).record = kept[n].record
             /\ StoredAt(slot(n)).items = kept[n].items
  <2>. DEFINE l == kept[n].language
  <2>1. l \in Ls
    BY <1>1
  <2>2. slot(n) \in OutputSlots /\ StoredAt(slot(n)) = file(l)[number(n)]
    BY <1>7, <1>8, <2>1
  <2>3. number(n) \in 1 .. Len(file(l)) /\ place(l)[number(n)] = n
    BY <1>8
  <2>4. \A m \in 1 .. Len(file(l)) :
          file(l)[m] = [session_id |-> <<LowerCase[SafeName[l]], m>>,
                        record |-> kept[place(l)[m]].record, items |-> kept[place(l)[m]].items]
    BY <1>4, <2>1
  <2>5. \A m \in 1 .. Len(file(l)) :
          /\ file(l)[m].record = kept[place(l)[m]].record
          /\ file(l)[m].items = kept[place(l)[m]].items
    <3>. HIDE DEF l, file
    <3>. SUFFICES ASSUME NEW m \in 1 .. Len(file(l))
                  PROVE  /\ file(l)[m].record = kept[place(l)[m]].record
                         /\ file(l)[m].items = kept[place(l)[m]].items
      OBVIOUS
    <3>1. file(l)[m] = [session_id |-> <<LowerCase[SafeName[l]], m>>,
                        record |-> kept[place(l)[m]].record, items |-> kept[place(l)[m]].items]
      BY <2>4
    <3>. QED BY <3>1
  <2>. HIDE DEF l, file, slot
  <2>6. /\ file(l)[number(n)].record = kept[n].record
        /\ file(l)[number(n)].items = kept[n].items
    BY <2>3, <2>5, Zenon
  <2>. QED BY <2>2, <2>6
<1>10. ASSUME NEW m \in 1 .. N, NEW n \in 1 .. N, slot(m) = slot(n) PROVE m = n
  <2>1. SafeName[kept[m].language] = SafeName[kept[n].language] /\ number(m) = number(n)
    BY <1>10
  <2>2. kept[m].language = kept[n].language
    BY <1>1, <1>3, <2>1
  <2>. QED BY <1>8, <2>1, <2>2
<1>11. ASSUME NEW s \in OutputSlots PROVE \E n \in 1 .. N : slot(n) = s
  <2>0. PICK l \in Ls : \E m \in 1 .. Len(file(l)) : s = <<SafeName[l], m>>
    BY <1>6
  <2>1. PICK m \in 1 .. Len(file(l)) : s = <<SafeName[l], m>>
    BY <2>0
  <2>2. PICK n \in where(l) : n = place(l)[m]
    BY <1>4, <2>1
  <2>3. n \in 1 .. N /\ kept[n].language = l
    BY <1>1, <2>2
  <2>4. number(n) \in 1 .. Len(file(l)) /\ place(l)[number(n)] = n
    BY <1>8, <2>3
  <2>5. number(n) = m
    BY <1>4, <2>1, <2>2, <2>4
  <2>. QED BY <2>1, <2>3, <2>5
<1>. HIDE DEF slot
<1>12. Cardinality(OutputSlots) = N
  <2>. DEFINE g == [n \in 1 .. N |-> slot(n)]
  <2>1. g \in [1 .. N -> OutputSlots] /\ \A n \in 1 .. N : g[n] = slot(n)
    BY <1>9
  <2>. HIDE DEF g
  <2>2. \A m, n \in 1 .. N : g[m] = g[n] => m = n
    BY <1>10, <2>1
  <2>3. \A s \in OutputSlots : \E n \in 1 .. N : g[n] = s
    BY <1>11, <2>1
  <2>4. g \in Bijection(1 .. N, OutputSlots)
    BY <2>1, <2>2, <2>3 DEF Bijection, Injection, Surjection, IsInjective
  <2>5. ExistsBijection(1 .. N, OutputSlots)
    BY <2>4 DEF ExistsBijection
  <2>. QED BY <1>1, <2>5, FS_CountingElements
<1>13. ASSUME NEW l \in Ls, NEW m \in 1 .. Len(file(l))
       PROVE  file(l)[m].session_id = <<LowerCase[SafeName[l]], m>>
  <2>1. file(l)[m] = [session_id |-> <<LowerCase[SafeName[l]], m>>,
                      record |-> kept[place(l)[m]].record, items |-> kept[place(l)[m]].items]
    BY <1>4
  <2>. QED BY <2>1
<1>14. ASSUME NEW s \in OutputSlots, NEW t \in OutputSlots,
              StoredAt(s).session_id = StoredAt(t).session_id
       PROVE  s = t
  <2>a. PICK l \in Ls : \E m \in 1 .. Len(file(l)) :
          s = <<SafeName[l], m>> /\ StoredAt(s) = file(l)[m]
    BY <1>6
  <2>1. PICK m \in 1 .. Len(file(l)) : s = <<SafeName[l], m>> /\ StoredAt(s) = file(l)[m]
    BY <2>a
  <2>b. PICK k \in Ls : \E n \in 1 .. Len(file(k)) :
          t = <<SafeName[k], n>> /\ StoredAt(t) = file(k)[n]
    BY <1>6
  <2>2. PICK n \in 1 .. Len(file(k)) : t = <<SafeName[k], n>> /\ StoredAt(t) = file(k)[n]
    BY <2>b
  <2>3. /\ StoredAt(s).session_id = <<LowerCase[SafeName[l]], m>>
        /\ StoredAt(t).session_id = <<LowerCase[SafeName[k]], n>>
    BY <1>13, <2>1, <2>2
  <2>4. <<LowerCase[SafeName[l]], m>> = <<LowerCase[SafeName[k]], n>>
    BY <1>14, <2>3, Zenon
  <2>5. LowerCase[SafeName[l]] = LowerCase[SafeName[k]] /\ m = n
    BY <2>4
  <2>. QED BY <1>3, <2>1, <2>2, <2>5
<1>15. \A n \in DOMAIN kept : \E s \in OutputSlots :
         /\ StoredAt(s).record = kept[n].record
         /\ StoredAt(s).items = kept[n].items
  BY <1>1, <1>9
<1>. QED BY <1>12, <1>14, <1>15

LEMMA InitStore == Init => StoreInv
BY DEF Init, StoreInv

\* When a run has stored its dataset every record it kept is in a language file, once, under
\* a session id of its own, if no two languages of the corpus share a file name.
THEOREM AllIsStored == SafeNamesDiffer => (Spec => []StoredCompletely)
<1>. SUFFICES ASSUME SafeNamesDiffer PROVE Spec => []StoredCompletely
  OBVIOUS
<1>. DEFINE Inv == TypeInv /\ JudgedInv /\ StoreInv
<1>1. Init => Inv
  BY InitPassed, InitStore DEF PassedInv
<1>2. Inv /\ [Next]_vars => Inv'
  BY NextTypes, NextJudged, NextStore
<1>3. Inv => StoredCompletely
  BY SlotsCounted DEF StoredCompletely
<1>. QED BY <1>1, <1>2, <1>3, PTL DEF Spec

--------------------------------------------------------------------------------
(***************************************************************************)
(* GenerateBatch, the call that the pipeline's generating step stands for: *)
(* its three stages bring every answer and every token spent back to the   *)
(* record they are for.                                                    *)
(***************************************************************************)
\* Tasks of the first k records, of which record r has n[r]: those of a record stand
\* together, in the order of its situations, and those of an earlier record before them.
Tasks(o, n, k) ==
  /\ \A i \in DOMAIN o : /\ o[i].record \in 1 .. k /\ o[i].slot \in 1 .. n[o[i].record]
                         /\ o[i].asked = QueryFor(o[i].record, o[i].slot)
  /\ \A i, j \in DOMAIN o : i < j =>
       \/ o[i].record < o[j].record
       \/ o[i].record = o[j].record /\ o[i].slot < o[j].slot

TaskRec == [record : Nat, slot : Nat, asked : {QueryFor(r, s) : r \in Nat, s \in Nat}]

LEMMA ConcatIs ==
  ASSUME NEW S, NEW a \in Seq(S), NEW b \in Seq(S)
  PROVE  /\ a \o b \in Seq(S) /\ Len(a) \in Nat /\ Len(b) \in Nat
         /\ DOMAIN (a \o b) = 1 .. Len(a) + Len(b)
         /\ \A i \in 1 .. Len(a) : (a \o b)[i] = a[i]
         /\ \A i \in 1 .. Len(b) : (a \o b)[Len(a) + i] = b[i]
OBVIOUS

LEMMA MoreTasks ==
  ASSUME NEW n, NEW k \in Nat \ {0}, n[k] \in Nat, NEW a \in Seq(TaskRec), Tasks(a, n, k - 1),
         NEW b \in Seq(TaskRec), Len(b) = n[k],
         \A s \in 1 .. n[k] : b[s] = [record |-> k, slot |-> s, asked |-> QueryFor(k, s)]
  PROVE  Tasks(a \o b, n, k)
<1>1. PICK o : o = a \o b
  OBVIOUS
<1>. DEFINE A == Len(a)  B == Len(b)
<1>2. /\ A \in Nat /\ B \in Nat /\ DOMAIN o = 1 .. A + B /\ DOMAIN a = 1 .. A
      /\ \A i \in 1 .. A : o[i] = a[i]
      /\ \A i \in 1 .. B : o[A + i] = b[i]
  <2>. HIDE DEF TaskRec
  <2>. QED BY <1>1, ConcatIs
<1>. HIDE DEF A, B
<1>3. A \in Nat /\ B \in Nat /\ B = n[k] /\ DOMAIN o = 1 .. A + B /\ DOMAIN a = 1 .. A
  BY <1>2 DEF A, B
<1>4. \A i \in 1 .. A : o[i] = a[i]
  BY <1>2
<1>5. ASSUME NEW i \in 1 .. A + B, ~(i <= A)
      PROVE  i - A \in 1 .. B /\ o[i] = [record |-> k, slot |-> i - A, asked |-> QueryFor(k, i - A)]
  <2>1. i - A \in 1 .. B /\ A + (i - A) = i
    BY <1>3, <1>5
  <2>2. o[i] = b[i - A]
    BY <1>2, <2>1
  <2>3. b[i - A] = [record |-> k, slot |-> i - A, asked |-> QueryFor(k, i - A)]
    BY <1>3, <2>1
  <2>. QED BY <2>1, <2>2, <2>3
<1>6. ASSUME NEW i \in 1 .. A
      PROVE  /\ a[i].record \in 1 .. k - 1 /\ a[i].slot \in 1 .. n[a[i].record]
             /\ a[i].asked = QueryFor(a[i].record, a[i].slot)
  BY <1>3 DEF Tasks
<1>7. ASSUME NEW i \in 1 .. A + B
      PROVE  /\ o[i].record \in 1 .. k /\ o[i].slot \in 1 .. n[o[i].record]
             /\ o[i].asked = QueryFor(o[i].record, o[i].slot)
  <2>1. CASE i <= A
    <3>1. i \in 1 .. A /\ \A r \in 1 .. k - 1 : r \in 1 .. k
      BY <1>3, <2>1
    <3>. QED BY <1>4, <1>6, <3>1
  <2>2. CASE ~(i <= A)
    <3>1. i - A \in 1 .. B /\ o[i] = [record |-> k, slot |-> i - A, asked |-> QueryFor(k, i - A)]
      BY <1>5, <2>2
    <3>2. o[i].record = k /\ o[i].slot = i - A /\ o[i].asked = QueryFor(k, i - A)
      BY <3>1
    <3>3. k \in 1 .. k
      OBVIOUS
    <3>. QED BY <1>3, <3>1, <3>2, <3>3
  <2>. QED BY <2>1, <2>2
<1>8. ASSUME NEW i \in 1 .. A + B, NEW j \in 1 .. A + B, i < j
      PROVE  \/ o[i].record < o[j].record
             \/ o[i].record = o[j].record /\ o[i].slot < o[j].slot
  <2>1. CASE j <= A
    <3>1. i \in 1 .. A /\ j \in 1 .. A
      BY <1>3, <1>8, <2>1
    <3>2. \A p, q \in 1 .. A : p < q =>
            \/ a[p].record < a[q].record
            \/ a[p].record = a[q].record /\ a[p].slot < a[q].slot
      BY <1>3 DEF Tasks
    <3>3. o[i] = a[i] /\ o[j] = a[j]
      BY <1>4, <3>1
    <3>. QED BY <1>8, <3>1, <3>2, <3>3
  <2>2. CASE i <= A /\ ~(j <= A)
    <3>1. i \in 1 .. A /\ \A r \in 1 .. k - 1 : r < k
      BY <1>3, <2>2
    <3>2. o[j] = [record |-> k, slot |-> j - A, asked |-> QueryFor(k, j - A)]
      BY <1>5, <2>2
    <3>3. o[j].record = k
      BY <3>2
    <3>. QED BY <1>4, <1>6, <3>1, <3>3
  <2>3. CASE ~(i <= A) /\ ~(j <= A)
    <3>1. i - A < j - A
      BY <1>3, <1>8
    <3>2. /\ o[i] = [record |-> k, slot |-> i - A, asked |-> QueryFor(k, i - A)]
          /\ o[j] = [record |-> k, slot |-> j - A, asked |-> QueryFor(k, j - A)]
      BY <1>5, <2>3
    <3>3. o[i].record = k /\ o[i].slot = i - A /\ o[j].record = k /\ o[j].slot = j - A
      BY <3>2
    <3>. QED BY <3>1, <3>3
  <2>4. i <= A \/ ~(j <= A)
    BY <1>3, <1>8
  <2>. QED BY <2>1, <2>2, <2>3, <2>4
<1>. QED BY <1>1, <1>3, <1>7, <1>8 DEF Tasks

LEMMA TasksAre ==
  ASSUME NEW N \in Nat, NEW n \in [1 .. N -> Nat],
         NEW ss, ss = [r \in 1 .. N |-> [s \in 1 .. n[r] |->
                         [record |-> r, slot |-> s, asked |-> QueryFor(r, s)]]]
  PROVE  FlattenSeq(ss) \in Seq(TaskRec) /\ Tasks(FlattenSeq(ss), n, N)
<1>. DEFINE T(r, s) == [record |-> r, slot |-> s, asked |-> QueryFor(r, s)]
<1>1. ASSUME NEW r \in 1 .. N
      PROVE  /\ ss[r] \in Seq(TaskRec) /\ Len(ss[r]) = n[r]
             /\ \A s \in 1 .. n[r] : ss[r][s] = T(r, s)
  <2>1. n[r] \in Nat
    OBVIOUS
  <2>2. \A s \in 1 .. n[r] : T(r, s) \in TaskRec
    <3>1. \A s \in 1 .. n[r] : r \in Nat /\ s \in Nat
      BY <2>1
    <3>. QED BY <3>1 DEF TaskRec
  <2>. HIDE DEF T
  <2>3. ss[r] = [s \in 1 .. n[r] |-> T(r, s)]
    BY DEF T
  <2>4. ss[r] \in [1 .. n[r] -> TaskRec]
    BY <2>2, <2>3
  <2>. QED BY <2>1, <2>3, <2>4, ListOf
<1>2. ss \in Seq(Seq(TaskRec)) /\ Len(ss) = N
  <2>1. ss \in [1 .. N -> Seq(TaskRec)]
    BY <1>1
  <2>. QED BY <2>1, ListOf
<1>3. PICK f : Steps(ss, f) /\ FlattenSeq(ss) = IF ss = <<>> THEN <<>> ELSE f[Len(ss)]
  BY <1>2, FlattenedBySteps
<1>4. ASSUME NEW k \in 1 .. N PROVE f[k] = IF k = 1 THEN ss[k] ELSE f[k - 1] \o ss[k]
  BY <1>2, <1>3 DEF Steps
<1>. DEFINE Good(k) == f[k] \in Seq(TaskRec) /\ Tasks(f[k], n, k)
<1>5. <<>> \in Seq(TaskRec) /\ \A k \in Nat : Tasks(<<>>, n, k)
  BY DEF Tasks
<1>6. ASSUME NEW k \in 1 .. N, NEW a \in Seq(TaskRec), Tasks(a, n, k - 1), f[k] = a \o ss[k]
      PROVE  Good(k)
  <2>1. PICK b \in Seq(TaskRec) : b = ss[k]
    BY <1>1
  <2>2. Len(b) = n[k] /\ n[k] \in Nat /\ \A s \in 1 .. n[k] : b[s] = T(k, s)
    BY <1>1, <2>1
  <2>3. k \in Nat \ {0}
    OBVIOUS
  <2>4. Tasks(a \o b, n, k)
    BY <1>6, <2>2, <2>3, MoreTasks
  <2>5. a \o b \in Seq(TaskRec)
    OBVIOUS
  <2>. QED BY <1>6, <2>1, <2>4, <2>5
<1>7. ASSUME 1 \in 1 .. N PROVE Good(1)
  <2>1. f[1] = <<>> \o ss[1]
    <3>1. PICK b \in Seq(TaskRec) : b = ss[1]
      BY <1>1, <1>7
    <3>2. f[1] = b /\ b = <<>> \o b
      BY <1>4, <1>7, <3>1
    <3>. QED BY <3>1, <3>2
  <2>2. Tasks(<<>>, n, 1 - 1)
    BY <1>5
  <2>. HIDE DEF Good
  <2>. QED BY <1>5, <1>6, <1>7, <2>1, <2>2
<1>8. ASSUME NEW k \in 1 .. N, k # 1, Good(k - 1) PROVE Good(k)
  <2>1. f[k] = f[k - 1] \o ss[k]
    BY <1>4, <1>8
  <2>2. f[k - 1] \in Seq(TaskRec) /\ Tasks(f[k - 1], n, k - 1)
    BY <1>8
  <2>. HIDE DEF Good
  <2>. QED BY <1>6, <2>1, <2>2
<1>9. ASSUME NEW k \in 1 .. N PROVE Good(k)
  <2>. HIDE DEF Good
  <2>. DEFINE U == {m \in 1 .. N : ~Good(m)}
  <2>1. ASSUME U # {} PROVE FALSE
    <3>1. U \subseteq Nat
      OBVIOUS
    <3>2. PICK m \in U : \A y \in U : m <= y
      BY <2>1, <3>1, SomeLeast
    <3>3. m # 1 /\ m - 1 \in 1 .. N
      BY <1>7, <3>2
    <3>4. Good(m - 1)
      BY <3>2, <3>3
    <3>. QED BY <1>8, <3>2, <3>3, <3>4
  <2>. QED BY <2>1
<1>10. CASE N = 0
  <2>1. ss = <<>>
    BY <1>2, <1>10
  <2>. QED BY <1>3, <1>5, <1>10, <2>1
<1>11. CASE N # 0
  <2>1. N \in 1 .. N
    BY <1>11
  <2>2. ss # <<>>
    <3>1. PICK z : z = ss
      OBVIOUS
    <3>2. Len(z) = N
      BY <1>2, <3>1
    <3>3. z # <<>>
      BY <1>11, <3>2
    <3>. QED BY <3>1, <3>3
  <2>. QED BY <1>2, <1>3, <1>9, <2>1, <2>2
<1>. QED BY <1>10, <1>11

\* What a record has of the tasks: its own queries, each once and in order.
Slots(L, n) == {s \in [1 .. L -> 1 .. n] : \A j, k \in 1 .. L : j < k => s[j] < s[k]}

\* Opaque to the provers where the lemmas below are used.
OwnOf(list, ks, r)  == Those(list, {k \in ks : list[k].record = r})
AskedBy(list, ks, r) ==
  [m \in DOMAIN OwnOf(list, ks, r) |-> OwnOf(list, ks, r)[m].asked]
QueriesAt(r, L, s)  == [m \in 1 .. L |-> QueryFor(r, s[m])]

OwnAsked(list, n, ks, r, o) ==
  /\ \E L \in Nat : \E s \in Slots(L, n[r]) : o = QueriesAt(r, L, s)
  /\ \A m \in DOMAIN o : \E k \in ks : list[k].record = r /\ o[m] = list[k].asked
  /\ \A k \in ks : list[k].record = r => \E m \in DOMAIN o : o[m] = list[k].asked

LEMMA OwnTasks ==
  ASSUME NEW N \in Nat, NEW n \in [1 .. N -> Nat], NEW list \in Seq(TaskRec), Tasks(list, n, N),
         NEW ks \in SUBSET (DOMAIN list), NEW r \in 1 .. N
  PROVE  OwnAsked(list, n, ks, r, AskedBy(list, ks, r))
<1>. DEFINE o == AskedBy(list, ks, r)
<1>. HIDE DEF o
<1>. DEFINE mine == {k \in ks : list[k].record = r}
<1>0. PICK own : own = OwnOf(list, ks, r)
  OBVIOUS
<1>0a. own = Those(list, mine) /\ o = [m \in DOMAIN own |-> own[m].asked]
  BY <1>0 DEF OwnOf, AskedBy, o
<1>1. Len(list) \in Nat /\ DOMAIN list = 1 .. Len(list)
  OBVIOUS
<1>2. mine \in SUBSET (1 .. Len(list))
  BY <1>1
<1>3. Takes(own, list, mine)
  <2>. HIDE DEF mine
  <2>1. Takes(Those(list, mine), list, mine)
    BY <1>1, <1>2, ThoseTake
  <2>. QED BY <1>0a, <2>1
<1>. DEFINE L == Len(own)
<1>4. L \in Nat /\ DOMAIN own = 1 .. L
  BY <1>3 DEF Takes
<1>5. PICK p \in [1 .. L -> mine] :
        /\ \A m \in 1 .. L : own[m] = list[p[m]]
        /\ \A i \in mine : \E m \in 1 .. L : p[m] = i
        /\ \A j, k \in 1 .. L : j < k => p[j] < p[k]
  BY <1>3 DEF Takes
<1>. HIDE DEF L
<1>6. ASSUME NEW m \in 1 .. L
      PROVE  /\ p[m] \in ks /\ p[m] \in DOMAIN list /\ list[p[m]].record = r
             /\ list[p[m]].slot \in 1 .. n[r] /\ o[m] = list[p[m]].asked
             /\ list[p[m]].asked = QueryFor(r, list[p[m]].slot)
  <2>1. p[m] \in mine
    BY <1>5
  <2>2. p[m] \in ks /\ p[m] \in DOMAIN list /\ list[p[m]].record = r
    BY <2>1
  <2>3. o[m] = own[m].asked /\ own[m] = list[p[m]]
    BY <1>0a, <1>4, <1>5
  <2>. QED BY <2>2, <2>3 DEF Tasks
<1>. DEFINE s == [m \in 1 .. L |-> list[p[m]].slot]
<1>7. ASSUME NEW j \in 1 .. L, NEW k \in 1 .. L, j < k PROVE s[j] < s[k]
  <2>1. p[j] < p[k] /\ p[j] \in DOMAIN list /\ p[k] \in DOMAIN list
    BY <1>5, <1>6, <1>7
  <2>2. \/ list[p[j]].record < list[p[k]].record
        \/ list[p[j]].record = list[p[k]].record /\ list[p[j]].slot < list[p[k]].slot
    BY <2>1 DEF Tasks
  <2>3. list[p[j]].record = r /\ list[p[k]].record = r /\ r \in Nat
    BY <1>6
  <2>. QED BY <2>2, <2>3
<1>8. s \in Slots(L, n[r])
  <2>1. s \in [1 .. L -> 1 .. n[r]]
    BY <1>6
  <2>. HIDE DEF s
  <2>. QED BY <1>7, <2>1 DEF Slots
<1>9. DOMAIN o = 1 .. L
  BY <1>0a, <1>4
<1>10. o = [m \in 1 .. L |-> QueryFor(r, s[m])]
  <2>1. \A m \in 1 .. L : o[m] = QueryFor(r, s[m])
    BY <1>6
  <2>2. o = [m \in 1 .. L |-> o[m]]
    BY <1>0a, <1>4
  <2>. HIDE DEF s
  <2>. QED BY <2>1, <2>2
<1>11. ASSUME NEW k \in ks, list[k].record = r PROVE \E m \in 1 .. L : o[m] = list[k].asked
  <2>1. k \in mine
    BY <1>11
  <2>2. PICK m \in 1 .. L : p[m] = k
    BY <1>5, <2>1
  <2>. QED BY <1>6, <2>2
<1>. HIDE DEF s
<1>12. \E l \in Nat : \E t \in Slots(l, n[r]) : o = QueriesAt(r, l, t)
  <2>1. o = QueriesAt(r, L, s)
    BY <1>10 DEF QueriesAt
  <2>. QED BY <1>4, <1>8, <2>1
<1>13. \A m \in DOMAIN o : \E k \in ks : list[k].record = r /\ o[m] = list[k].asked
  BY <1>6, <1>9
<1>14. \A k \in ks : list[k].record = r => \E m \in DOMAIN o : o[m] = list[k].asked
  BY <1>9, <1>11
<1>. HIDE DEF L
<1>15. OwnAsked(list, n, ks, r, o)
  BY <1>12, <1>13, <1>14, Zenon DEF OwnAsked
<1>. QED BY <1>15 DEF o

\* A record's usage before the last stage, and what that stage adds.
Spent(r) == {<<>>, <<PersonaOf(r)>>, <<PersonaOf(r), SituationsOf(r)>>}

Distinct(w, r) ==
  /\ \A k \in DOMAIN w : w[k].record = r
  /\ \A j, k \in DOMAIN w : w[j] = w[k] => j = k

LEMMA SpentDistinct == ASSUME NEW r, NEW u \in Spent(r) PROVE Distinct(u, r)
<1>1. CASE u = <<>>
  BY <1>1 DEF Distinct
<1>2. CASE u = <<PersonaOf(r)>>
  BY <1>2 DEF Distinct, PersonaOf
<1>3. CASE u = <<PersonaOf(r), SituationsOf(r)>>
  <2>1. DOMAIN u = {1, 2} /\ u[1] = PersonaOf(r) /\ u[2] = SituationsOf(r)
    BY <1>3
  <2>. QED BY <2>1 DEF Distinct, PersonaOf, SituationsOf
<1>. QED BY <1>1, <1>2, <1>3 DEF Spent

LEMMA QueryForIs ==
  ASSUME NEW r, NEW a
  PROVE  /\ QueryFor(r, a).stage = "query" /\ QueryFor(r, a).record = r
         /\ QueryFor(r, a).situation = a
BY DEF QueryFor

LEMMA MoreSpent ==
  ASSUME NEW r, NEW u \in Spent(r), NEW L \in Nat, NEW N \in Nat, NEW s \in Slots(L, N),
         NEW o, o = QueriesAt(r, L, s)
  PROVE  /\ Distinct(u \o o, r)
         /\ \A m \in 1 .. L : o[m] \in Range(u \o o)
         /\ u = <<PersonaOf(r), SituationsOf(r)>> =>
              {PersonaOf(r), SituationsOf(r)} \subseteq Range(u \o o)
<1>. DEFINE P == PersonaOf(r)  S == SituationsOf(r)
            Q == {QueryFor(r, k) : k \in Nat}
            C == {P, S} \cup Q
<1>1. u \in Seq(C) /\ \A k \in DOMAIN u : u[k] \in {P, S}
  <2>. HIDE DEF P, S, Q
  <2>1. u = <<>> \/ u = <<P>> \/ u = <<P, S>>
    BY DEF Spent, P, S
  <2>2. CASE u = <<>>
    BY <2>2
  <2>3. CASE u = <<P>>
    <3>1. u \in Seq(C) /\ DOMAIN u = {1} /\ u[1] = P
      BY <2>3
    <3>. QED BY <3>1
  <2>4. CASE u = <<P, S>>
    <3>1. u \in Seq(C) /\ DOMAIN u = {1, 2} /\ u[1] = P /\ u[2] = S
      BY <2>4
    <3>. QED BY <3>1
  <2>. QED BY <2>1, <2>2, <2>3, <2>4
<1>2. \A m \in 1 .. L : s[m] \in Nat /\ o[m] = QueryFor(r, s[m])
  BY DEF Slots, QueriesAt
<1>3. o \in Seq(C) /\ Len(o) = L /\ DOMAIN o = 1 .. L
  <2>1. \A m \in 1 .. L : QueryFor(r, s[m]) \in C
    BY <1>2
  <2>. HIDE DEF C
  <2>2. o \in [1 .. L -> C]
    BY <2>1 DEF QueriesAt
  <2>. QED BY <2>2, ListOf
<1>4. PICK w : w = u \o o
  OBVIOUS
<1>. DEFINE A == Len(u)
<1>5. /\ A \in Nat /\ DOMAIN u = 1 .. A /\ DOMAIN w = 1 .. A + L
      /\ \A k \in 1 .. A : w[k] = u[k]
      /\ \A m \in 1 .. L : w[A + m] = o[m]
  <2>1. PICK D : D = C
    OBVIOUS
  <2>2. u \in Seq(D) /\ o \in Seq(D)
    BY <1>1, <1>3, <2>1
  <2>. HIDE DEF C
  <2>3. /\ Len(u) \in Nat /\ DOMAIN u = 1 .. Len(u) /\ DOMAIN w = 1 .. Len(u) + Len(o)
        /\ \A k \in 1 .. Len(u) : w[k] = u[k]
        /\ \A m \in 1 .. Len(o) : w[Len(u) + m] = o[m]
    BY <1>4, <2>2, ConcatIs
  <2>. QED BY <1>3, <2>3
<1>. HIDE DEF A
<1>6. ASSUME NEW k \in 1 .. A + L, ~(k <= A)
      PROVE  k - A \in 1 .. L /\ w[k] = QueryFor(r, s[k - A]) /\ s[k - A] \in Nat
  <2>1. k - A \in 1 .. L /\ A + (k - A) = k
    BY <1>5, <1>6
  <2>. QED BY <1>2, <1>5, <2>1
<1>7. ASSUME NEW k \in 1 .. A + L, k <= A PROVE k \in 1 .. A /\ w[k] = u[k] /\ u[k] \in {P, S}
  <2>1. k \in 1 .. A
    BY <1>5, <1>7
  <2>. QED BY <1>1, <1>5, <2>1
<1>8. Distinct(u, r)
  BY SpentDistinct
<1>9. ASSUME NEW k \in 1 .. A + L PROVE w[k].record = r
  <2>1. CASE k <= A
    BY <1>5, <1>7, <1>8, <2>1 DEF Distinct
  <2>2. CASE ~(k <= A)
    BY <1>6, <2>2, QueryForIs
  <2>. QED BY <2>1, <2>2
<1>10. ASSUME NEW j \in 1 .. A + L, NEW k \in 1 .. A + L, w[j] = w[k] PROVE j = k
  <2>1. CASE j <= A /\ k <= A
    BY <1>5, <1>7, <1>8, <1>10, <2>1 DEF Distinct
  <2>2. CASE ~(j <= A) /\ ~(k <= A)
    <3>1. s[j - A] = s[k - A] /\ j - A \in 1 .. L /\ k - A \in 1 .. L
      <4>1. w[j].situation = s[j - A] /\ j - A \in 1 .. L
        BY <1>6, <2>2, QueryForIs
      <4>2. w[k].situation = s[k - A] /\ k - A \in 1 .. L
        BY <1>6, <2>2, QueryForIs
      <4>. QED BY <1>10, <4>1, <4>2
    <3>2. \A a, b \in 1 .. L : a < b => s[a] < s[b]
      BY DEF Slots
    <3>3. \A a, b \in 1 .. L : s[a] = s[b] => a = b
      BY <1>2, <3>2
    <3>4. j - A = k - A
      BY <3>1, <3>3
    <3>. QED BY <1>5, <3>4
  <2>3. ASSUME NEW a \in 1 .. A + L, NEW b \in 1 .. A + L, a <= A, ~(b <= A) PROVE w[a] # w[b]
    <3>1. w[a] \in {P, S}
      BY <1>7, <2>3
    <3>2. w[a].stage # "query"
      BY <3>1 DEF PersonaOf, SituationsOf
    <3>3. w[b].stage = "query"
      BY <1>6, <2>3, QueryForIs
    <3>. QED BY <3>2, <3>3
  <2>. QED BY <1>10, <2>1, <2>2, <2>3
<1>11. ASSUME NEW m \in 1 .. L PROVE o[m] \in Range(w)
  <2>1. A + m \in 1 .. A + L /\ w[A + m] = o[m]
    BY <1>5
  <2>. QED BY <1>5, <2>1 DEF Range
<1>12. ASSUME u = <<P, S>> PROVE P \in Range(w) /\ S \in Range(w)
  <2>. HIDE DEF P, S
  <2>1. A = 2 /\ u[1] = P /\ u[2] = S
    BY <1>12 DEF A
  <2>2. 1 \in DOMAIN w /\ 2 \in DOMAIN w /\ w[1] = P /\ w[2] = S
    BY <1>5, <2>1
  <2>. QED BY <2>2 DEF Range
<1>13. Distinct(w, r)
  BY <1>5, <1>9, <1>10 DEF Distinct
<1>. QED BY <1>4, <1>11, <1>12, <1>13

(***************************************************************************)
(* The invariant, stage by stage: before the last there are no queries; a  *)
(* record has situations only if it passed and both its calls were         *)
(* charged, and they answer its own prompt.                                *)
(***************************************************************************)
SituationsFrom(r, n) == [s \in 1 .. n |-> [from |-> SituationsOf(r), rank |-> s]]

Asked(r) ==
  \E n \in Nat :
    /\ situations[r] = SituationsFrom(r, n)
    /\ n # 0 => passed[r] /\ usages[r] = <<PersonaOf(r), SituationsOf(r)>>

BeforeSituations(r) ==
  /\ situations[r] = <<>> /\ usages[r] \in {<<>>, <<PersonaOf(r)>>}
  /\ passed[r] => usages[r] = <<PersonaOf(r)>>

BeforeQueries == \A r \in Records : queries[r] = <<>> /\ usages[r] \in Spent(r)

GenInv ==
  /\ stage \in {"persona", "situation", "query", "done"}
  /\ stage # "done" => BeforeQueries
  /\ stage \in {"persona", "situation"} => \A r \in Records : BeforeSituations(r)
  /\ stage = "query" => \A r \in Records : Asked(r)
  /\ QueriesBelong

\* Without queries, it is enough that the situations are the record's own.
LEMMA NoQueriesYet ==
  ASSUME \A r \in Records : queries[r] = <<>> /\ usages[r] \in Spent(r),
         \A r \in Records : \E n \in Nat : situations[r] = SituationsFrom(r, n)
  PROVE  QueriesBelong
<1>. SUFFICES ASSUME NEW r \in Records
     PROVE  /\ \A s \in DOMAIN situations[r] : situations[r][s].from = SituationsOf(r)
            /\ \A k \in DOMAIN queries[r] : FALSE
            /\ Distinct(usages[r], r)
  BY DEF QueriesBelong, Distinct
<1>1. PICK n \in Nat : situations[r] = SituationsFrom(r, n)
  OBVIOUS
<1>2. \A s \in DOMAIN situations[r] : situations[r][s].from = SituationsOf(r)
  BY <1>1 DEF SituationsFrom
<1>3. Distinct(usages[r], r)
  BY SpentDistinct
<1>. QED BY <1>2, <1>3

LEMMA NoSituations == ASSUME NEW r PROVE SituationsFrom(r, 0) = <<>>
BY DEF SituationsFrom

LEMMA InitGen == GenInit => GenInv
<1>. SUFFICES ASSUME GenInit PROVE GenInv
  OBVIOUS
<1>1. stage = "persona" /\ \A r \in Records : /\ situations[r] = <<>> /\ queries[r] = <<>>
                                                   /\ usages[r] = <<>> /\ ~passed[r]
  BY DEF GenInit
<1>2. BeforeQueries /\ \A r \in Records : BeforeSituations(r)
  BY <1>1 DEF BeforeQueries, BeforeSituations, Spent
<1>3. QueriesBelong
  <2>1. \A r \in Records : situations[r] = SituationsFrom(r, 0)
    BY <1>1, NoSituations
  <2>. QED BY <1>2, <2>1, NoQueriesYet DEF BeforeQueries
<1>. QED BY <1>1, <1>2, <1>3 DEF GenInv

LEMMA PersonaGen == GenInv /\ PersonaStage => GenInv'
<1>. SUFFICES ASSUME GenInv, PersonaStage PROVE GenInv'
  OBVIOUS
<1>1. PICK answer \in [Records -> {"none", "shallow", "deep"}] :
        /\ passed' = [r \in Records |-> answer[r] = "deep"]
        /\ usages' = [r \in Records |->
                        Charge(answer[r] # "none", PersonaOf(r))]
  BY DEF PersonaStage
<1>2. stage = "persona" /\ stage' = "situation" /\ situations' = situations /\ queries' = queries
  BY DEF PersonaStage
<1>3. \A r \in Records : situations[r] = <<>> /\ queries[r] = <<>>
  BY <1>2 DEF GenInv, BeforeSituations, BeforeQueries
<1>4. ASSUME NEW r \in Records
      PROVE  /\ usages'[r] \in {<<>>, <<PersonaOf(r)>>}
             /\ passed'[r] => usages'[r] = <<PersonaOf(r)>>
  <2>1. usages'[r] = IF answer[r] # "none" THEN <<PersonaOf(r)>> ELSE <<>>
    BY <1>1 DEF Charge
  <2>2. passed'[r] => answer[r] = "deep"
    BY <1>1
  <2>3. usages'[r] \in {<<>>, <<PersonaOf(r)>>}
    BY <2>1
  <2>4. answer[r] = "deep" => usages'[r] = <<PersonaOf(r)>>
    BY <2>1
  <2>. QED BY <2>2, <2>3, <2>4, Zenon
<1>5. \A r \in Records : /\ situations'[r] = <<>> /\ queries'[r] = <<>>
                             /\ situations'[r] = SituationsFrom(r, 0)
  BY <1>2, <1>3, NoSituations
<1>6. \A r \in Records : BeforeSituations(r)'
  BY <1>4, <1>5, Zenon DEF BeforeSituations
<1>7. \A r \in Records : usages'[r] \in Spent(r)
  BY <1>4 DEF Spent
<1>8. QueriesBelong'
  <2>1. (/\ \A r \in Records : queries[r] = <<>> /\ usages[r] \in Spent(r)
         /\ \A r \in Records : \E n \in Nat : situations[r] = SituationsFrom(r, n)
         => QueriesBelong)'
    BY NoQueriesYet, PTL
  <2>. QED BY <1>5, <1>7, <2>1
<1>. QED BY <1>2, <1>5, <1>6, <1>7, <1>8 DEF GenInv, BeforeQueries

LEMMA TargetsPassed ==
  ASSUME NumRecords \in Nat, NEW j \in DOMAIN Targets
  PROVE  Targets[j] \in Records /\ passed[Targets[j]]
<1>. DEFINE list == [r \in Records |-> r]
            deep == {r \in Records : passed[r]}
<1>1. DOMAIN list = 1 .. NumRecords /\ list \in Seq(Nat) /\ Len(list) = NumRecords
  <2>1. list \in [1 .. NumRecords -> Nat]
    BY DEF Records
  <2>. HIDE DEF list
  <2>. QED BY <2>1, ListOf
<1>2. deep \in SUBSET (1 .. NumRecords)
  BY DEF Records
<1>3. Targets = Those(list, deep)
  BY DEF Targets
<1>4. Takes(Targets, list, deep)
  <2>. HIDE DEF list, deep
  <2>. QED BY <1>1, <1>2, <1>3, ThoseTake
<1>5. DOMAIN Targets = 1 .. Len(Targets)
  BY <1>4 DEF Takes
<1>6. PICK p \in [1 .. Len(Targets) -> deep] : \A m \in 1 .. Len(Targets) :
          Targets[m] = list[p[m]]
  BY <1>4 DEF Takes
<1>7. p[j] \in deep /\ Targets[j] = list[p[j]]
  BY <1>5, <1>6
<1>8. p[j] \in Records /\ Targets[j] = p[j]
  BY <1>7
<1>9. passed[p[j]]
  BY <1>7, Zenon
<1>. QED BY <1>8, <1>9, Zenon

LEMMA Pair == ASSUME NEW a, NEW b PROVE <<a>> \o <<b>> = <<a, b>> /\ <<a>> \o <<>> = <<a>>
<1>1. PICK S : S = {a, b}
  OBVIOUS
<1>2. <<a>> \in Seq(S) /\ <<b>> \in Seq(S) /\ <<>> \in Seq(S) /\ a \in S /\ b \in S
  BY <1>1
<1>3. <<a>> \o <<b>> = <<a, b>>
  <2>1. PICK x \in Seq(S) : x = <<a>>
    BY <1>2
  <2>2. PICK y \in Seq(S) : y = <<b>>
    BY <1>2
  <2>3. PICK w : w = x \o y
    OBVIOUS
  <2>4. Len(x) = 1 /\ Len(y) = 1 /\ x[1] = a /\ y[1] = b
    BY <2>1, <2>2
  <2>5. w \in Seq(S) /\ DOMAIN w = 1 .. 2 /\ w[1] = a /\ w[2] = b
    BY <2>3, <2>4, ConcatIs
  <2>6. w = <<a, b>>
    BY <2>5
  <2>. QED BY <2>1, <2>2, <2>3, <2>6
<1>4. <<a>> \o <<>> = <<a>>
  BY <1>2
<1>. QED BY <1>3, <1>4

\* What the second call brings a record: nothing, or what its own prompt was answered.
LEMMA SituationsOfOne ==
  ASSUME NumRecords \in Nat, SituationStage, NEW r \in Records
  PROVE  \/ situations'[r] = <<>> /\ usages'[r] = usages[r]
         \/ /\ passed[r]
            /\ \E m \in Nat :
                 /\ situations'[r] = SituationsFrom(r, m)
                 /\ \/ usages'[r] = usages[r] \o <<SituationsOf(r)>>
                    \/ m = 0 /\ usages'[r] = usages[r] \o <<>>
<1>. DEFINE For(x) == {j \in DOMAIN Targets : Targets[j] = x}
            j(x) == CHOOSE k \in For(x) : TRUE
<1>1. PICK answered \in [DOMAIN Targets -> BOOLEAN],
           n \in [DOMAIN Targets -> 0 .. MaxSituations] :
        /\ \A k \in DOMAIN Targets : ~answered[k] => n[k] = 0
        /\ situations' = [x \in Records |->
             IF For(x) = {} THEN <<>>
             ELSE [s \in 1 .. n[j(x)] |->
                     [from |-> SituationPrompts[j(x)], rank |-> s]]]
        /\ usages' = [x \in Records |->
             IF For(x) = {} THEN usages[x]
             ELSE usages[x] \o Charge(answered[j(x)], SituationPrompts[j(x)])]
  BY DEF SituationStage, RecordOfAnswer
<1>2. CASE For(r) = {}
  BY <1>1, <1>2
<1>3. CASE For(r) # {}
  <2>1. PICK i : i = j(r)
    OBVIOUS
  <2>2. i \in DOMAIN Targets /\ Targets[i] = r
    <3>1. i \in For(r)
      BY <1>3, <2>1
    <3>. QED BY <3>1
  <2>3. SituationPrompts[i] = SituationsOf(r)
    BY <2>2 DEF SituationPrompts
  <2>4. passed[r]
    BY <2>2, TargetsPassed
  <2>5. /\ situations'[r] = [s \in 1 .. n[j(r)] |->
                              [from |-> SituationPrompts[j(r)], rank |-> s]]
        /\ usages'[r] = usages[r] \o Charge(answered[j(r)], SituationPrompts[j(r)])
    <3>. HIDE DEF For, j
    <3>. QED BY <1>1, <1>3
  <2>. HIDE DEF For, j
  <2>6. /\ situations'[r] = SituationsFrom(r, n[i])
        /\ usages'[r] = usages[r] \o Charge(answered[i], SituationsOf(r))
    BY <2>1, <2>3, <2>5 DEF SituationsFrom
  <2>7. n[i] \in Nat
    BY <1>1, <2>2
  <2>8. CASE answered[i]
    <3>1. Charge(answered[i], SituationsOf(r)) = <<SituationsOf(r)>>
      BY <2>8 DEF Charge
    <3>. QED BY <2>4, <2>6, <2>7, <3>1, Zenon
  <2>9. CASE ~answered[i]
    <3>1. Charge(answered[i], SituationsOf(r)) = <<>>
      BY <2>9 DEF Charge
    <3>2. n[i] = 0
      BY <1>1, <2>2, <2>9
    <3>. QED BY <2>4, <2>6, <2>7, <3>1, <3>2, Zenon
  <2>. QED BY <2>8, <2>9
<1>. QED BY <1>2, <1>3

LEMMA SituationGen == NumRecords \in Nat /\ GenInv /\ SituationStage => GenInv'
<1>. SUFFICES ASSUME NumRecords \in Nat, GenInv, SituationStage PROVE GenInv'
  OBVIOUS
<1>1. stage = "situation" /\ stage' = "query" /\ passed' = passed /\ queries' = queries
  BY DEF SituationStage
<1>2. ASSUME NEW r \in Records
      PROVE  Asked(r)' /\ usages'[r] \in Spent(r)
  <2>1. /\ usages[r] \in {<<>>, <<PersonaOf(r)>>}
        /\ passed[r] => usages[r] = <<PersonaOf(r)>>
    BY <1>1 DEF GenInv, BeforeSituations
  <2>2. CASE situations'[r] = <<>> /\ usages'[r] = usages[r]
    <3>1. situations'[r] = SituationsFrom(r, 0)
      BY <2>2, NoSituations
    <3>2. Asked(r)'
      BY <3>1 DEF Asked
    <3>3. usages'[r] \in Spent(r)
      BY <2>1, <2>2 DEF Spent
    <3>. QED BY <3>2, <3>3
  <2>3. CASE /\ passed[r]
             /\ \E m \in Nat :
                  /\ situations'[r] = SituationsFrom(r, m)
                  /\ \/ usages'[r] = usages[r] \o <<SituationsOf(r)>>
                     \/ m = 0 /\ usages'[r] = usages[r] \o <<>>
    <3>1. PICK m \in Nat :
            /\ situations'[r] = SituationsFrom(r, m)
            /\ \/ usages'[r] = usages[r] \o <<SituationsOf(r)>>
               \/ m = 0 /\ usages'[r] = usages[r] \o <<>>
      BY <2>3
    <3>2. usages[r] = <<PersonaOf(r)>> /\ passed'[r]
      BY <1>1, <2>1, <2>3, Zenon
    <3>3. PICK a, b : a = PersonaOf(r) /\ b = SituationsOf(r)
      OBVIOUS
    <3>4. <<a>> \o <<b>> = <<a, b>> /\ <<a>> \o <<>> = <<a>>
      BY Pair
    <3>5. \/ usages'[r] = <<PersonaOf(r), SituationsOf(r)>>
          \/ m = 0 /\ usages'[r] = <<PersonaOf(r)>>
      BY <3>1, <3>2, <3>3, <3>4
    <3>6. usages'[r] \in Spent(r)
      BY <3>5 DEF Spent
    <3>7. m # 0 => passed'[r] /\ usages'[r] = <<PersonaOf(r), SituationsOf(r)>>
      BY <3>2, <3>5, Zenon
    <3>8. Asked(r)'
      BY <3>1, <3>7, Zenon DEF Asked
    <3>. QED BY <3>6, <3>8
  <2>. QED BY <2>2, <2>3, SituationsOfOne
<1>3. \A r \in Records : queries'[r] = <<>>
  BY <1>1 DEF GenInv, BeforeQueries
<1>4. \A r \in Records : \E n \in Nat : situations'[r] = SituationsFrom(r, n)
  BY <1>2 DEF Asked
<1>5. QueriesBelong'
  <2>1. (/\ \A r \in Records : queries[r] = <<>> /\ usages[r] \in Spent(r)
         /\ \A r \in Records : \E n \in Nat : situations[r] = SituationsFrom(r, n)
         => QueriesBelong)'
    BY NoQueriesYet, PTL
  <2>. QED BY <1>2, <1>3, <1>4, <2>1
<1>. QED BY <1>1, <1>2, <1>3, <1>5 DEF GenInv, BeforeQueries

LEMMA QueryGen == NumRecords \in Nat /\ GenInv /\ QueryStage => GenInv'
<1>. SUFFICES ASSUME NumRecords \in Nat, GenInv, QueryStage PROVE GenInv'
  OBVIOUS
<1>. DEFINE N == NumRecords
            own(r, ks) == Those(TaskList, {k \in ks : TaskList[k].record = r})
            Asks(r, ks) == [m \in DOMAIN own(r, ks) |-> own(r, ks)[m].asked]
<1>1. PICK answer \in [DOMAIN TaskList -> {"none", "unusable", "query"}] :
        /\ queries' = [r \in Records |->
             Asks(r, {k \in DOMAIN TaskList : answer[k] = "query"})]
        /\ usages' = [r \in Records |->
             usages[r] \o Asks(r, {k \in DOMAIN TaskList : answer[k] # "none"})]
  BY DEF QueryStage
<1>2. stage = "query" /\ stage' = "done" /\ passed' = passed /\ situations' = situations
  BY DEF QueryStage
<1>3. Records = 1 .. N
  BY DEF Records
<1>4. ASSUME NEW r \in 1 .. N PROVE Asked(r) /\ usages[r] \in Spent(r)
  BY <1>2, <1>3 DEF GenInv, BeforeQueries
<1>5. PICK n \in [1 .. N -> Nat] : \A r \in 1 .. N :
        /\ situations[r] = SituationsFrom(r, n[r])
        /\ n[r] # 0 => passed[r] /\ usages[r] = <<PersonaOf(r), SituationsOf(r)>>
  <2>. DEFINE num(r) == CHOOSE n \in Nat :
                /\ situations[r] = SituationsFrom(r, n)
                /\ n # 0 => passed[r] /\ usages[r] = <<PersonaOf(r), SituationsOf(r)>>
  <2>1. ASSUME NEW r \in 1 .. N
        PROVE  /\ num(r) \in Nat /\ situations[r] = SituationsFrom(r, num(r))
               /\ num(r) # 0 =>
                    passed[r] /\ usages[r] = <<PersonaOf(r), SituationsOf(r)>>
    BY <1>4, Zenon DEF Asked
  <2>2. [r \in 1 .. N |-> num(r)] \in [1 .. N -> Nat]
    BY <2>1
  <2>. HIDE DEF num
  <2>. WITNESS [r \in 1 .. N |-> num(r)] \in [1 .. N -> Nat]
  <2>. QED BY <2>1
<1>6. ASSUME NEW r \in 1 .. N
      PROVE  /\ DOMAIN situations[r] = 1 .. n[r]
             /\ \A i \in DOMAIN situations[r] : situations[r][i].from = SituationsOf(r)
  <2>1. PICK z, m : z = situations[r] /\ m = n[r] /\ z = SituationsFrom(r, m)
    BY <1>5
  <2>2. DOMAIN z = 1 .. m /\ \A i \in DOMAIN z : z[i].from = SituationsOf(r)
    BY <2>1 DEF SituationsFrom
  <2>. QED BY <2>1, <2>2
<1>7. PICK list : list = TaskList
  OBVIOUS
<1>8. list \in Seq(TaskRec) /\ Tasks(list, n, N)
  <2>1. PICK ss : ss = [r \in 1 .. N |-> [s \in 1 .. n[r] |->
                          [record |-> r, slot |-> s, asked |-> QueryFor(r, s)]]]
    OBVIOUS
  <2>2. TaskList = FlattenSeq(ss)
    BY <1>3, <1>6, <2>1 DEF TaskList
  <2>. QED BY <1>7, <2>1, <2>2, TasksAre
<1>9. ASSUME NEW r \in 1 .. N, NEW ks \in SUBSET (DOMAIN list)
      PROVE  /\ \E L \in Nat : \E s \in Slots(L, n[r]) :
                  Asks(r, ks) = QueriesAt(r, L, s)
             /\ \A m \in DOMAIN Asks(r, ks) :
                  \E k \in ks : list[k].record = r /\ Asks(r, ks)[m] = list[k].asked
             /\ \A k \in ks : list[k].record = r =>
                  \E m \in DOMAIN Asks(r, ks) : Asks(r, ks)[m] = list[k].asked
  <2>1. own(r, ks) = OwnOf(list, ks, r)
    BY <1>7 DEF OwnOf
  <2>2. PICK o : o = Asks(r, ks)
    OBVIOUS
  <2>3. o = AskedBy(list, ks, r)
    BY <2>1, <2>2 DEF AskedBy
  <2>. HIDE DEF own, Asks, N
  <2>4. /\ \E L \in Nat : \E s \in Slots(L, n[r]) : o = QueriesAt(r, L, s)
        /\ \A m \in DOMAIN o : \E k \in ks : list[k].record = r /\ o[m] = list[k].asked
        /\ \A k \in ks : list[k].record = r => \E m \in DOMAIN o : o[m] = list[k].asked
    <3>1. N \in Nat
      BY DEF N
    <3>2. n \in [1 .. N -> Nat] /\ r \in 1 .. N
      BY DEF N
    <3>3. OwnAsked(list, n, ks, r, AskedBy(list, ks, r))
      BY <1>8, <3>1, <3>2, OwnTasks
    <3>. QED BY <2>3, <3>3 DEF OwnAsked
  <2>. QED BY <2>2, <2>4
<1>. HIDE DEF own, Asks
<1>. DEFINE asked == {k \in DOMAIN list : answer[k] = "query"}
            answered == {k \in DOMAIN list : answer[k] # "none"}
<1>10. ASSUME NEW r \in 1 .. N
       PROVE  queries'[r] = Asks(r, asked) /\ usages'[r] = usages[r] \o Asks(r, answered)
  BY <1>1, <1>3, <1>7
<1>11. asked \subseteq answered /\ asked \in SUBSET (DOMAIN list)
       /\ answered \in SUBSET (DOMAIN list)
  OBVIOUS
<1>. HIDE DEF asked, answered
<1>12. ASSUME NEW r \in 1 .. N
       PROVE  /\ \A s \in DOMAIN situations'[r] : situations'[r][s].from = SituationsOf(r)
              /\ \A k \in DOMAIN queries'[r] :
                   /\ passed'[r] /\ queries'[r][k].record = r
                   /\ queries'[r][k].situation \in DOMAIN situations'[r]
                   /\ {PersonaOf(r), SituationsOf(r), queries'[r][k]}
                        \subseteq Range(usages'[r])
              /\ \A j, k \in DOMAIN queries'[r] :
                   j < k => queries'[r][j].situation < queries'[r][k].situation
              /\ Distinct(usages'[r], r)
  <2>1. PICK q : q = Asks(r, asked)
    OBVIOUS
  <2>2. PICK o : o = Asks(r, answered)
    OBVIOUS
  <2>3. PICK w : w = usages[r] \o o
    OBVIOUS
  <2>4. queries'[r] = q /\ usages'[r] = w
    BY <1>10, <2>1, <2>2, <2>3
  <2>5a. PICK L \in Nat :
           \E s \in Slots(L, n[r]) : q = QueriesAt(r, L, s)
    BY <1>9, <1>11, <2>1
  <2>5. PICK s \in Slots(L, n[r]) : q = QueriesAt(r, L, s)
    BY <2>5a
  <2>6a. PICK M \in Nat :
           \E t \in Slots(M, n[r]) : o = QueriesAt(r, M, t)
    BY <1>9, <1>11, <2>2
  <2>6. PICK t \in Slots(M, n[r]) : o = QueriesAt(r, M, t)
    BY <2>6a
  <2>7. /\ Distinct(w, r) /\ \A m \in 1 .. M : o[m] \in Range(w)
        /\ usages[r] = <<PersonaOf(r), SituationsOf(r)>> =>
             {PersonaOf(r), SituationsOf(r)} \subseteq Range(w)
    <3>1. PICK u \in Spent(r) : u = usages[r]
      BY <1>4
    <3>2. PICK num \in Nat : num = n[r]
      OBVIOUS
    <3>3. t \in Slots(M, num)
      BY <3>2
    <3>4. /\ Distinct(u \o o, r) /\ \A m \in 1 .. M : o[m] \in Range(u \o o)
          /\ u = <<PersonaOf(r), SituationsOf(r)>> =>
               {PersonaOf(r), SituationsOf(r)} \subseteq Range(u \o o)
      BY <2>6, <3>3, MoreSpent
    <3>. QED BY <2>3, <3>1, <3>4
  <2>8. ASSUME NEW k \in DOMAIN q PROVE q[k] \in Range(w)
    <3>1. PICK i \in asked : list[i].record = r /\ q[k] = list[i].asked
      BY <1>9, <1>11, <2>1
    <3>2. PICK m \in DOMAIN o : o[m] = list[i].asked
      BY <1>9, <1>11, <2>2, <3>1
    <3>3. m \in 1 .. M
      BY <2>6 DEF QueriesAt
    <3>. QED BY <2>7, <3>1, <3>2, <3>3
  <2>9. /\ DOMAIN q = 1 .. L
        /\ \A k \in 1 .. L : /\ q[k] = QueryFor(r, s[k]) /\ s[k] \in 1 .. n[r]
        /\ \A j, k \in 1 .. L : j < k => s[j] < s[k]
    BY <2>5 DEF Slots, QueriesAt
  <2>10. ASSUME NEW k \in 1 .. L
         PROVE  q[k].record = r /\ q[k].situation = s[k] /\ s[k] \in 1 .. n[r]
    BY <2>9, QueryForIs
  <2>11. ASSUME NEW k \in 1 .. L
         PROVE  passed[r] /\ {PersonaOf(r), SituationsOf(r)} \subseteq Range(w)
    <3>1. n[r] # 0 /\ n[r] \in Nat
      BY <1>5, <2>10
    <3>2. passed[r] /\ usages[r] = <<PersonaOf(r), SituationsOf(r)>>
      BY <1>5, <3>1, Zenon
    <3>. QED BY <2>7, <3>2, Zenon
  <2>12. \A i \in DOMAIN situations[r] : situations[r][i].from = SituationsOf(r)
    BY <1>6
  <2>13. \A k \in DOMAIN q : passed'[r]
    BY <1>2, <2>9, <2>11, Zenon
  <2>14. \A k \in DOMAIN q : /\ q[k].record = r /\ q[k].situation \in DOMAIN situations[r]
                             /\ {PersonaOf(r), SituationsOf(r), q[k]} \subseteq Range(w)
    BY <1>6, <2>8, <2>9, <2>10, <2>11
  <2>15. \A j, k \in DOMAIN q : j < k => q[j].situation < q[k].situation
    BY <2>9, <2>10
  <2>. QED BY <1>2, <2>4, <2>7, <2>12, <2>13, <2>14, <2>15, Zenon
<1>13. QueriesBelong'
  BY <1>3, <1>12, Zenon DEF QueriesBelong, Distinct
<1>. QED BY <1>2, <1>13 DEF GenInv

\* Whatever the three stages are answered, and for any number of records: a record's
\* queries come from its own situations, these from its own persona, in order and
\* none twice, and its usage counts each call made for it once (generate_batch's
\* index tables situation_target_indices, task_to_record, task_to_query_slot).
THEOREM AnswersComeHome == GenSpec => []QueriesBelong
<1>1. GenInv /\ [GenNext]_genVars => GenInv'
  <2>. SUFFICES ASSUME GenInv, [GenNext]_genVars PROVE GenInv'
    OBVIOUS
  <2>1. CASE UNCHANGED genVars
    <3>1. QueriesBelong => QueriesBelong'
      BY <2>1 DEF QueriesBelong, genVars
    <3>. QED BY <2>1, <3>1 DEF GenInv, BeforeQueries, BeforeSituations, Asked, genVars
  <2>. QED BY <2>1, PersonaGen, SituationGen, QueryGen, GenerateBatchAssumption DEF GenNext
<1>2. GenInv => QueriesBelong
  BY DEF GenInv
<1>. QED BY <1>1, <1>2, InitGen, PTL DEF GenSpec
================================================================================
