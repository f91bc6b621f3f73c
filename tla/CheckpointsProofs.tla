---------------------------- MODULE CheckpointsProofs ----------------------------
(***************************************************************************)
(* Theorems about Checkpoints for any number of ranks, processes, steps,   *)
(* frequencies and checkpoints to keep: what the tracker file names can be *)
(* resumed from, wherever the processes before were killed; what a resumed *)
(* process trains on; that no weights are lost; how many folders are kept. *)
(***************************************************************************)
EXTENDS Checkpoints, SequenceTheorems, FiniteSetTheorems, TLAPS

(***************************************************************************)
(* The inductive invariant.  TrackedLoadable asks what a save may touch:   *)
(* it writes at a step beyond the tracked one (OrderInv), and a manager    *)
(* that remembers the tracked step remembers it last, so that keeping one  *)
(* path besides the new one keeps it (SavedInv).  When the tracker moves   *)
(* on, every file of the new step is this process's (ProgressInv).         *)
(***************************************************************************)
Saving == pc \in {"make_room", "write", "data", "open_tracker", "write_tracker"}

Increasing(paths) == \A i, j \in DOMAIN paths : i < j => paths[i] < paths[j]

GroupWhole(s, g) == \A f \in Shards(groups[g]) : disk[s][f] = Whole(run)

ProgressInv ==
  Saving =>
    /\ step \in Steps
    /\ \A g \in 1 .. part - 1 : GroupWhole(step, g)
    /\ pc \in {"data", "open_tracker", "write_tracker"} =>
         \A g \in DOMAIN groups : GroupWhole(step, g)
    /\ pc \in {"open_tracker", "write_tracker"} => disk[step][DataFile] = Whole(run)

SavedInv ==
  \A g \in {"actor", "critic"} :
    /\ Increasing(saved[g])
    /\ \A i \in DOMAIN saved[g] :
         /\ pc = "load" => FALSE
         /\ pc = "train" \/ Saving => saved[g][i] <= step
         /\ pc = "train" => saved[g][i] <= tracker
         /\ pc \in {"make_room", "write", "data", "open_tracker"} =>
              saved[g][i] <= tracker \/ saved[g][i] = step
         /\ pc \in {"make_room", "write"} /\ (\E n \in part .. Len(groups) : groups[n] = g) =>
              saved[g][i] < step

OrderInv ==
  /\ Running => run > 0
  /\ run = 0 => tracker = None
  /\ ~forced /\ mode # "auto" /\ pc = "load" => tracker = None
  /\ ~forced /\ tracker \in Steps =>
       /\ pc = "train" => tracker <= step
       /\ pc \in {"make_room", "write", "data", "open_tracker"} => tracker < step

IInv == TypeOK /\ ProgressInv /\ SavedInv /\ OrderInv /\ TrackedLoadable

--------------------------------------------------------------------------------
\* The two parts a list is cut into, by position.
LEMMA FirstPart ==
  ASSUME NEW S, NEW list \in Seq(S), NEW cut \in 0 .. Len(list)
  PROVE  /\ SubSeq(list, 1, cut) \in Seq(S)
         /\ Len(SubSeq(list, 1, cut)) = cut
         /\ \A i \in 1 .. cut : SubSeq(list, 1, cut)[i] = list[i]
OBVIOUS

LEMMA LastPart ==
  ASSUME NEW S, NEW list \in Seq(S), NEW cut \in 0 .. Len(list)
  PROVE  /\ SubSeq(list, cut + 1, Len(list)) \in Seq(S)
         /\ Len(SubSeq(list, cut + 1, Len(list))) = Len(list) - cut
         /\ \A i \in 1 .. Len(list) - cut : SubSeq(list, cut + 1, Len(list))[i] = list[i + cut]
OBVIOUS

LEMMA CutPoint ==
  ASSUME NEW length \in Nat, NEW n \in Nat
  PROVE  \E cut \in 0 .. length :
           /\ cut = IF length > n THEN length - n ELSE 0
           /\ \A i \in 1 .. cut : i \in 1 .. length /\ i <= length - n
OBVIOUS

LEMMA GroupsFacts ==
  ASSUME TypeOK
  PROVE  /\ Len(groups) \in {1, 2} /\ DOMAIN groups = 1 .. Len(groups)
         /\ \A g \in DOMAIN groups : groups[g] \in {"actor", "critic"}
         /\ \A g, h \in DOMAIN groups : groups[g] = groups[h] => g = h
         /\ part \in DOMAIN groups
<1>1. groups = <<"actor">> \/ groups = <<"actor", "critic">>
  BY CheckpointsAssumption DEF TypeOK, ConfigTypes
<1>2. part \in 1 .. Len(groups)
  BY DEF TypeOK, ConfigTypes
<1>3. CASE groups = <<"actor">>
  BY <1>2, <1>3
<1>4. CASE groups = <<"actor", "critic">>
  BY <1>2, <1>4
<1>. QED BY <1>1, <1>3, <1>4

\* The managers' lists after the first are dropped: the rest in the same order, and
\* only folders of dropped steps are gone.
LEMMA KeptLast ==
  ASSUME TypeOK, NEW group \in {"actor", "critic"}, NEW paths \in Seq(Steps), NEW n \in Nat,
         Increasing(paths), KeepLast(group, paths, n)
  PROVE  /\ saved' \in [{"actor", "critic"} -> Seq(Steps)]
         /\ \A h \in {"actor", "critic"} : h # group => saved'[h] = saved[h]
         /\ Increasing(saved'[group])
         /\ \A i \in DOMAIN saved'[group] : \E j \in DOMAIN paths : saved'[group][i] = paths[j]
         /\ disk' \in [Steps -> [Files -> [by : 0 .. MaxRuns, whole : BOOLEAN]]]
         /\ \A s \in Steps :
              (\A i \in DOMAIN paths : i <= Len(paths) - n => paths[i] # s) => disk'[s] = disk[s]
<1>1. Len(paths) \in Nat /\ DOMAIN paths = 1 .. Len(paths)
  OBVIOUS
<1>0. PICK cut \in 0 .. Len(paths) :
        /\ cut = IF Len(paths) > n THEN Len(paths) - n ELSE 0
        /\ \A i \in 1 .. cut : i \in 1 .. Len(paths) /\ i <= Len(paths) - n
  BY <1>1, CutPoint
<1>. DEFINE rest == SubSeq(paths, cut + 1, Len(paths))
            gone == SubSeq(paths, 1, cut)
<1>2. \A i \in 1 .. Len(paths) : paths[i] \in Steps
  OBVIOUS
<1>3. /\ rest \in Seq(Steps) /\ Len(rest) = Len(paths) - cut
      /\ \A i \in 1 .. Len(paths) - cut : rest[i] = paths[i + cut]
  BY <1>1, LastPart
<1>4. /\ gone \in Seq(Steps) /\ Len(gone) = cut
      /\ \A i \in 1 .. cut : gone[i] = paths[i]
  BY <1>1, FirstPart
<1>5. saved' = [saved EXCEPT ![group] = rest] /\ disk' = Removed(group, ToSet(gone))
  BY <1>0 DEF KeepLast
<1>. HIDE DEF rest, gone
<1>6. saved \in [{"actor", "critic"} -> Seq(Steps)]
  BY DEF TypeOK, SavedType
<1>7. /\ saved' \in [{"actor", "critic"} -> Seq(Steps)]
      /\ \A h \in {"actor", "critic"} : h # group => saved'[h] = saved[h]
      /\ saved'[group] = rest
  BY <1>3, <1>5, <1>6
<1>8. DOMAIN rest = 1 .. Len(paths) - cut
  BY <1>3
<1>9. Increasing(rest)
  <2>. SUFFICES ASSUME NEW i \in DOMAIN rest, NEW j \in DOMAIN rest, i < j
                PROVE  rest[i] < rest[j]
    BY DEF Increasing
  <2>1. i \in 1 .. Len(paths) - cut /\ j \in 1 .. Len(paths) - cut
    BY <1>8
  <2>2. i + cut \in DOMAIN paths /\ j + cut \in DOMAIN paths /\ i + cut < j + cut
    BY <1>1, <2>1
  <2>3. paths[i + cut] < paths[j + cut]
    BY <2>2 DEF Increasing
  <2>4. rest[i] = paths[i + cut] /\ rest[j] = paths[j + cut]
    BY <1>3, <2>1
  <2>. QED BY <2>3, <2>4
<1>10. \A i \in DOMAIN rest : \E j \in DOMAIN paths : rest[i] = paths[j]
  <2>. SUFFICES ASSUME NEW i \in DOMAIN rest PROVE \E j \in DOMAIN paths : rest[i] = paths[j]
    OBVIOUS
  <2>1. i \in 1 .. Len(paths) - cut
    BY <1>8
  <2>2. rest[i] = paths[i + cut]
    BY <1>3, <2>1
  <2>3. i + cut \in DOMAIN paths
    BY <1>1, <2>1
  <2>. QED BY <2>2, <2>3
<1>11. disk' \in [Steps -> [Files -> [by : 0 .. MaxRuns, whole : BOOLEAN]]]
  <2>1. Absent \in [by : 0 .. MaxRuns, whole : BOOLEAN]
    BY CheckpointsAssumption DEF Absent
  <2>. QED BY <1>5, <2>1 DEF TypeOK, DiskType, Removed
<1>12. ASSUME NEW s \in Steps, \A i \in DOMAIN paths : i <= Len(paths) - n => paths[i] # s
       PROVE  disk'[s] = disk[s]
  <2>1. s \notin ToSet(gone)
    <3>. SUFFICES ASSUME NEW i \in DOMAIN gone PROVE gone[i] # s
      BY DEF ToSet
    <3>1. i \in 1 .. cut
      BY <1>4
    <3>3. i \in DOMAIN paths /\ i <= Len(paths) - n
      BY <1>0, <1>1, <3>1
    <3>. QED BY <1>12, <3>1, <3>3, <1>4
  <2>. QED BY <2>1, <1>5 DEF Removed
<1>. QED BY <1>7, <1>9, <1>10, <1>11, <1>12

\* What the tracker names stays whole while its folder is not touched.
LEMMA TrackedKept ==
  ASSUME TrackedLoadable, config' = config, tracker' = tracker, forced' = forced,
         tracker \in Steps /\ keep # 1 /\ ~forced => disk'[tracker] = disk[tracker]
  PROVE  TrackedLoadable'
BY DEF TrackedLoadable, OneSave, Groups, Shards, config

LEMMA TypeFacts ==
  ASSUME TypeOK
  PROVE  /\ step \in 0 .. DataSteps /\ DataSteps \in Nat /\ tracker \in Int
         /\ \A g \in {"actor", "critic"} :
              /\ saved[g] \in Seq(Steps) /\ Len(saved[g]) \in Nat
              /\ DOMAIN saved[g] = 1 .. Len(saved[g])
              /\ \A i \in DOMAIN saved[g] : saved[g][i] \in Steps /\ saved[g][i] \in Int
<1>1. step \in 0 .. DataSteps /\ DataSteps \in Nat /\ tracker \in Int
  BY CheckpointsAssumption DEF TypeOK, ProcessTypes, Steps, None, TornFile
<1>2. ASSUME NEW g \in {"actor", "critic"}
      PROVE  saved[g] \in Seq(Steps)
  BY DEF TypeOK, SavedType
<1>3. ASSUME NEW g \in {"actor", "critic"}
      PROVE  /\ Len(saved[g]) \in Nat /\ DOMAIN saved[g] = 1 .. Len(saved[g])
             /\ \A i \in DOMAIN saved[g] : saved[g][i] \in Steps
  BY <1>2, LenProperties, ElementOfSeq
<1>4. \A s \in Steps : s \in Int
  BY DEF Steps
<1>. QED BY <1>1, <1>2, <1>3, <1>4

\* A manager's last path is the tracked step or an earlier one while the others, if
\* the tracked step is among them, come before it.
LEMMA DroppedUntracked ==
  ASSUME TypeOK, SavedInv, pc \in {"make_room", "write"}, NEW n \in DOMAIN groups, part <= n,
         NEW i \in DOMAIN saved[groups[n]], i < Len(saved[groups[n]])
  PROVE  tracker # saved[groups[n]][i]
<1>. DEFINE paths == saved[groups[n]]
            last == Len(paths)
<1>1. groups[n] \in {"actor", "critic"} /\ n \in part .. Len(groups)
  BY GroupsFacts
<1>3. last \in DOMAIN paths /\ i \in DOMAIN paths /\ last \in Nat
  BY <1>1, TypeFacts
<1>4. paths[i] < paths[last]
  BY <1>1, <1>3 DEF SavedInv, Increasing
<1>5. paths[last] < step /\ (paths[last] <= tracker \/ paths[last] = step)
  BY <1>1, <1>3 DEF SavedInv
<1>6. paths[i] \in Int /\ paths[last] \in Int /\ tracker \in Int /\ step \in Int
  BY <1>1, <1>3, TypeFacts
<1>. QED BY <1>4, <1>5, <1>6

--------------------------------------------------------------------------------
LEMMA InitIInv == Init => IInv
<1>. SUFFICES ASSUME Init PROVE IInv
  OBVIOUS
<1>1. TypeOK
  <2>1. ConfigTypes
    <3>1. groups = <<"actor">> \/ groups = <<"actor", "critic">>
      BY CheckpointsAssumption DEF Init
    <3>2. 1 \in 1 .. Len(groups)
      BY <3>1
    <3>. QED BY <3>2 DEF Init, ConfigTypes
  <2>2. DiskType
    <3>1. Absent \in [by : 0 .. MaxRuns, whole : BOOLEAN]
      BY CheckpointsAssumption DEF Absent
    <3>. QED BY <3>1 DEF Init, DiskType
  <2>3. SavedType
    <3>1. <<>> \in Seq(Steps)
      OBVIOUS
    <3>. QED BY <3>1 DEF Init, SavedType
  <2>4. ProcessTypes
    <3>1. MaxRuns \in Nat /\ DataSteps \in Nat
      BY CheckpointsAssumption
    <3>2. forced \in BOOLEAN
      BY DEF Init
    <3>. QED BY <3>1, <3>2 DEF Init, ProcessTypes
  <2>. QED BY <2>1, <2>2, <2>3, <2>4 DEF TypeOK
<1>2. ProgressInv
  BY DEF Init, ProgressInv, Saving
<1>3. SavedInv
  BY DEF Init, SavedInv, Increasing
<1>4. OrderInv
  BY DEF Init, OrderInv, Running
<1>5. TrackedLoadable
  BY DEF Init, TrackedLoadable, None, Steps
<1>. QED BY <1>1, <1>2, <1>3, <1>4, <1>5 DEF IInv

\* A process that begins or ends keeps the files, and nothing in memory.
LEMMA MemoryGone ==
  ASSUME IInv, NoMemory, UNCHANGED <<config, files>>
  PROVE  ConfigTypes' /\ DiskType' /\ SavedType' /\ SavedInv'
<1>1. ConfigTypes'
  BY GroupsFacts DEF IInv, TypeOK, ConfigTypes, NoMemory, config
<1>2. DiskType'
  BY DEF IInv, TypeOK, DiskType, files
<1>3. SavedType'
  <2>1. <<>> \in Seq(Steps)
    OBVIOUS
  <2>. QED BY <2>1 DEF NoMemory, SavedType
<1>4. SavedInv'
  BY DEF NoMemory, SavedInv, Increasing
<1>. QED BY <1>1, <1>2, <1>3, <1>4

LEMMA StartIInv ==
  ASSUME IInv, Start
  PROVE  IInv'
<1>1. TypeOK'
  <2>1. ProcessTypes'
    BY TypeFacts, CheckpointsAssumption DEF IInv, TypeOK, ProcessTypes, Start, NoMemory, files
  <2>. QED BY <2>1, MemoryGone DEF Start, TypeOK
<1>2. ProgressInv'
  BY DEF Start, ProgressInv, Saving
<1>3. SavedInv'
  BY MemoryGone DEF Start
<1>4. OrderInv'
  <2>1. run \in Nat /\ run' = run + 1
    BY CheckpointsAssumption DEF IInv, TypeOK, ProcessTypes, Start
  <2>2. ~forced' /\ mode' # "auto" => tracker = None
    <3>. SUFFICES ASSUME ~forced', mode' # "auto" PROVE tracker = None
      OBVIOUS
    <3>1. ~(run > 0)
      BY Zenon DEF Start
    <3>. QED BY <2>1, <3>1 DEF IInv, OrderInv
  <2>. QED BY <2>1, <2>2 DEF Start, OrderInv, files
<1>5. TrackedLoadable'
  BY DEF IInv, Start, files, config, TrackedLoadable, OneSave, Groups, Shards
<1>. QED BY <1>1, <1>2, <1>3, <1>4, <1>5 DEF IInv

LEMMA CrashIInv ==
  ASSUME IInv, Crash
  PROVE  IInv'
<1>1. TypeOK'
  <2>1. ProcessTypes'
    BY TypeFacts DEF IInv, TypeOK, ProcessTypes, Crash, NoMemory, files
  <2>. QED BY <2>1, MemoryGone DEF Crash, TypeOK
<1>2. ProgressInv'
  BY DEF Crash, ProgressInv, Saving
<1>3. SavedInv'
  BY MemoryGone DEF Crash
<1>4. OrderInv'
  BY DEF IInv, Crash, NoMemory, OrderInv, Running, files
<1>5. TrackedLoadable'
  BY TrackedKept DEF IInv, Crash, files
<1>. QED BY <1>1, <1>2, <1>3, <1>4, <1>5 DEF IInv

\* A process that resumes follows the tracker, or there is none.
LEMMA LoadIInv ==
  ASSUME IInv, Load
  PROVE  IInv'
<1>1. /\ pc = "load" /\ pc' \in {"train", "failed"}
      /\ step' = step \/ step' \in Steps
      /\ UNCHANGED <<config, files, run, mode, part, saved, furthest, forced>>
  BY DEF Load, LoadAt
<1>2. \A g \in {"actor", "critic"} : DOMAIN saved[g] = {}
  BY <1>1 DEF IInv, SavedInv
<1>3. TypeOK'
  <2>1. ProcessTypes'
    BY <1>1, CheckpointsAssumption DEF IInv, TypeOK, ProcessTypes, files, Steps
  <2>. QED BY <1>1, <2>1 DEF IInv, TypeOK, ConfigTypes, DiskType, SavedType, config, files
<1>4. ProgressInv'
  BY <1>1 DEF ProgressInv, Saving
<1>5. SavedInv'
  BY <1>1, <1>2 DEF SavedInv, Increasing
<1>6. OrderInv'
  <2>1. ~forced /\ tracker \in Steps => step' = tracker \/ pc' = "failed"
    BY DEF Load, LoadAt, IInv, OrderInv, Steps, None
  <2>2. tracker \in Int
    BY TypeFacts DEF IInv
  <2>. QED BY <1>1, <2>1, <2>2 DEF IInv, OrderInv, Running, files
<1>7. TrackedLoadable'
  BY <1>1, TrackedKept DEF IInv, files
<1>. QED BY <1>3, <1>4, <1>5, <1>6, <1>7 DEF IInv

LEMMA TrainIInv ==
  ASSUME IInv, Train
  PROVE  IInv'
<1>1. /\ pc = "train" /\ step < DataSteps /\ step' = step + 1 /\ part' = 1
      /\ pc' \in {"make_room", "done", "train"}
      /\ UNCHANGED <<config, files, run, mode, saved, forced>>
  BY DEF Train, AfterStep
<1>2. step \in Nat /\ step' \in Steps /\ step' \in Int /\ tracker \in Int
  BY <1>1, TypeFacts DEF IInv, Steps
<1>3. TypeOK'
  <2>1. furthest' \in 0 .. DataSteps
    BY <1>1, <1>2, TypeFacts DEF IInv, Train, TypeOK, ProcessTypes
  <2>2. ProcessTypes'
    BY <1>1, <1>2, <2>1, TypeFacts DEF IInv, TypeOK, ProcessTypes, files, Steps
  <2>3. ConfigTypes'
    BY <1>1, GroupsFacts DEF IInv, TypeOK, ConfigTypes, config
  <2>. QED BY <1>1, <2>2, <2>3 DEF IInv, TypeOK, DiskType, SavedType, files
<1>4. ProgressInv'
  BY <1>1, <1>2 DEF ProgressInv, Saving
<1>5. \A g \in {"actor", "critic"} : \A i \in DOMAIN saved[g] :
        saved[g][i] \in Int /\ saved[g][i] <= step /\ saved[g][i] <= tracker
  BY <1>1, TypeFacts DEF IInv, SavedInv
<1>6. \A g \in {"actor", "critic"} : \A i \in DOMAIN saved[g] :
        saved[g][i] < step' /\ saved[g][i] <= step'
  BY <1>1, <1>2, <1>5
<1>7. SavedInv'
  BY <1>1, <1>5, <1>6 DEF IInv, SavedInv, Increasing, files, Saving
<1>8. OrderInv'
  BY <1>1, <1>2 DEF IInv, OrderInv, Running, files
<1>9. TrackedLoadable'
  BY <1>1, TrackedKept DEF IInv, files
<1>. QED BY <1>3, <1>4, <1>7, <1>8, <1>9 DEF IInv

LEMMA NoDataLeftIInv ==
  ASSUME IInv, NoDataLeft
  PROVE  IInv'
<1>1. pc = "train" /\ pc' = "done" /\
      UNCHANGED <<config, files, run, mode, step, part, saved, furthest, forced>>
  BY DEF NoDataLeft
<1>2. TypeOK'
  BY <1>1 DEF IInv, TypeOK, ConfigTypes, DiskType, SavedType, ProcessTypes, config, files
<1>3. ProgressInv'
  BY <1>1 DEF ProgressInv, Saving
<1>4. SavedInv'
  BY <1>1 DEF IInv, SavedInv, Increasing, Saving, files
<1>5. OrderInv'
  BY <1>1 DEF IInv, OrderInv, Running, files
<1>6. TrackedLoadable'
  BY <1>1, TrackedKept DEF IInv, files
<1>. QED BY <1>2, <1>3, <1>4, <1>5, <1>6 DEF IInv

--------------------------------------------------------------------------------
\* Room is made among folders of steps before the one to be saved, and not in the
\* tracked one's.
LEMMA MakeRoomIInv ==
  ASSUME IInv, MakeRoom
  PROVE  IInv'
<1>. DEFINE group == groups[part]
            paths == saved[group]
            Removing == keep > 1 /\ Len(paths) >= keep
<1>1. /\ pc = "make_room" /\ pc' = "write"
      /\ UNCHANGED <<config, tracker, run, mode, step, part, furthest, forced>>
      /\ UNCHANGED <<groups, keep>>
  BY DEF MakeRoom, config
<1>2. /\ group \in {"actor", "critic"} /\ part \in DOMAIN groups /\ part \in part .. Len(groups)
      /\ DOMAIN groups = 1 .. Len(groups)
      /\ step \in Steps /\ keep \in Nat
  BY <1>1, GroupsFacts, CheckpointsAssumption DEF IInv, TypeOK, ConfigTypes, ProgressInv, Saving
<1>3. /\ paths \in Seq(Steps) /\ Len(paths) \in Nat /\ DOMAIN paths = 1 .. Len(paths)
      /\ Increasing(paths) /\ \A i \in DOMAIN paths : paths[i] \in Int /\ paths[i] < step
  BY <1>1, <1>2, TypeFacts DEF IInv, SavedInv
<1>4. CASE ~Removing
  <2>1. disk' = disk /\ saved' = saved
    BY <1>4 DEF MakeRoom
  <2>2. TypeOK'
    BY <1>1, <2>1 DEF IInv, TypeOK, ConfigTypes, DiskType, SavedType, ProcessTypes
  <2>3. ProgressInv'
    BY <1>1, <2>1 DEF IInv, ProgressInv, Saving, GroupWhole, Shards
  <2>4. SavedInv'
    BY <1>1, <2>1 DEF IInv, SavedInv, Increasing, Saving
  <2>5. OrderInv'
    BY <1>1 DEF IInv, OrderInv, Running
  <2>6. TrackedLoadable'
    BY <1>1, <2>1, TrackedKept DEF IInv
  <2>. QED BY <2>2, <2>3, <2>4, <2>5, <2>6 DEF IInv
<1>5. CASE Removing
  <2>1. KeepLast(group, paths, keep - 1) /\ keep - 1 \in Nat
    BY <1>2, <1>5 DEF MakeRoom
  <2>2. /\ saved' \in [{"actor", "critic"} -> Seq(Steps)]
        /\ \A h \in {"actor", "critic"} : h # group => saved'[h] = saved[h]
        /\ Increasing(saved'[group])
        /\ \A i \in DOMAIN saved'[group] : \E j \in DOMAIN paths : saved'[group][i] = paths[j]
        /\ disk' \in [Steps -> [Files -> [by : 0 .. MaxRuns, whole : BOOLEAN]]]
        /\ \A s \in Steps :
             (\A i \in DOMAIN paths : i <= Len(paths) - (keep - 1) => paths[i] # s)
               => disk'[s] = disk[s]
    BY <1>2, <1>3, <2>1, KeptLast DEF IInv
  <2>3. TypeOK'
    BY <1>1, <2>2 DEF IInv, TypeOK, ConfigTypes, DiskType, SavedType, ProcessTypes
  <2>4. disk'[step] = disk[step]
    <3>1. \A i \in DOMAIN paths : paths[i] # step
      BY <1>2, <1>3 DEF Steps
    <3>. QED BY <3>1, <1>2, <2>2
  <2>5. ProgressInv'
    BY <1>1, <2>4 DEF IInv, ProgressInv, Saving, GroupWhole, Shards
  <2>6. SavedInv'
    <3>. SUFFICES ASSUME NEW g \in {"actor", "critic"}
                  PROVE  /\ Increasing(saved'[g])
                         /\ \A i \in DOMAIN saved'[g] :
                              /\ saved'[g][i] <= step
                              /\ saved'[g][i] <= tracker \/ saved'[g][i] = step
                              /\ (\E n \in part .. Len(groups) : groups[n] = g)
                                   => saved'[g][i] < step
      BY <1>1 DEF SavedInv, Increasing, Saving
    <3>1. CASE g = group
      BY <1>1, <1>2, <2>2, <3>1 DEF IInv, SavedInv, Saving
    <3>2. CASE g # group
      BY <1>1, <2>2, <3>2 DEF IInv, SavedInv, Saving
    <3>. QED BY <3>1, <3>2
  <2>7. OrderInv'
    BY <1>1 DEF IInv, OrderInv, Running
  <2>8. tracker \in Steps => disk'[tracker] = disk[tracker]
    <3>1. \A i \in DOMAIN paths : i <= Len(paths) - (keep - 1) => i < Len(paths)
      BY <1>2, <1>3, <1>5
    <3>2. \A i \in DOMAIN paths : i <= Len(paths) - (keep - 1) => paths[i] # tracker
      BY <1>1, <1>2, <3>1, DroppedUntracked DEF IInv
    <3>. QED BY <2>2, <3>2
  <2>9. TrackedLoadable'
    BY <1>1, <2>8, TrackedKept DEF IInv
  <2>. QED BY <2>3, <2>5, <2>6, <2>7, <2>9 DEF IInv
<1>. QED BY <1>4, <1>5

\* Writing a file touches no other, at this step or another.
LEMMA FileWritten ==
  ASSUME TypeOK, step \in Steps, NEW f \in Files, WriteFile(step, f)
  PROVE  /\ DiskType'
         /\ \A s \in Steps : s # step => disk'[s] = disk[s]
         /\ \A h \in Files : h # f => disk'[step][h] = disk[step][h]
         /\ disk[step][f] = Half(run) => disk'[step][f] = Whole(run)
<1>1. /\ Half(run) \in [by : 0 .. MaxRuns, whole : BOOLEAN]
      /\ Whole(run) \in [by : 0 .. MaxRuns, whole : BOOLEAN]
  BY DEF TypeOK, ProcessTypes, Half, Whole
<1>. DEFINE content == IF disk[step][f] = Half(run) THEN Whole(run) ELSE Half(run)
<1>2. disk' = [disk EXCEPT ![step] = [disk[step] EXCEPT ![f] = content]]
  BY DEF WriteFile
<1>3. content \in [by : 0 .. MaxRuns, whole : BOOLEAN]
  BY <1>1
<1>4. disk[step][f] = Half(run) => content = Whole(run)
  OBVIOUS
<1>5. disk \in [Steps -> [Files -> [by : 0 .. MaxRuns, whole : BOOLEAN]]]
  BY DEF TypeOK, DiskType
<1>. HIDE DEF content
<1>. QED BY <1>2, <1>3, <1>4, <1>5 DEF DiskType

LEMMA ShardFacts ==
  ASSUME TypeOK, NEW g \in DOMAIN groups, NEW f \in Shards(groups[g])
  PROVE  /\ f \in Files /\ f # DataFile
         /\ \A h \in DOMAIN groups : h # g => f \notin Shards(groups[h])
<1>1. groups[g] \in {"actor", "critic"} /\ f[1] = groups[g]
  BY GroupsFacts DEF Shards
<1>2. f \in Files
  BY <1>1 DEF Shards, Files
<1>3. f # DataFile
  BY <1>1 DEF DataFile
<1>4. \A h \in DOMAIN groups : f \in Shards(groups[h]) => groups[h] = groups[g]
  BY <1>1 DEF Shards
<1>. QED BY <1>2, <1>3, <1>4, GroupsFacts

LEMMA WriteShardIInv ==
  ASSUME IInv, NEW rank \in Ranks, WriteShard(rank)
  PROVE  IInv'
<1>. DEFINE f == <<groups[part], rank>>
<1>1. /\ pc = "write" /\ WriteFile(step, f)
      /\ UNCHANGED <<config, tracker, pc, run, mode, step, part, saved, furthest, forced>>
      /\ UNCHANGED <<groups, keep>>
  BY DEF WriteShard, config
<1>2. part \in DOMAIN groups /\ DOMAIN groups = 1 .. Len(groups) /\ step \in Steps
  BY <1>1, GroupsFacts DEF IInv, ProgressInv, Saving
<1>3. f \in Shards(groups[part])
  BY DEF Shards
<1>4. f \in Files /\ \A h \in DOMAIN groups : h # part => f \notin Shards(groups[h])
  BY <1>2, <1>3, ShardFacts DEF IInv
<1>5. /\ DiskType'
      /\ \A s \in Steps : s # step => disk'[s] = disk[s]
      /\ \A h \in Files : h # f => disk'[step][h] = disk[step][h]
  BY <1>1, <1>2, <1>4, FileWritten DEF IInv
<1>6. TypeOK'
  BY <1>1, <1>5 DEF IInv, TypeOK, ConfigTypes, SavedType, ProcessTypes
<1>7. ProgressInv'
  <2>. SUFFICES ASSUME NEW g \in 1 .. part - 1, NEW h \in Shards(groups[g])
                PROVE  disk'[step][h] = Whole(run)
    BY <1>1, <1>2 DEF ProgressInv, Saving, GroupWhole, Shards
  <2>1. g \in DOMAIN groups /\ g # part
    BY <1>2
  <2>2. h \in Files /\ h # f
    BY <2>1, <1>4, ShardFacts DEF IInv
  <2>3. disk[step][h] = Whole(run)
    BY <1>1 DEF IInv, ProgressInv, Saving, GroupWhole
  <2>. QED BY <1>5, <2>2, <2>3
<1>8. SavedInv'
  BY <1>1 DEF IInv, SavedInv, Increasing, Saving
<1>9. OrderInv'
  BY <1>1 DEF IInv, OrderInv, Running
<1>10. TrackedLoadable'
  <2>1. tracker \in Steps /\ ~forced => tracker # step
    BY <1>1, TypeFacts DEF IInv, OrderInv
  <2>. QED BY <1>1, <1>5, <2>1, TrackedKept DEF IInv
<1>. QED BY <1>6, <1>7, <1>8, <1>9, <1>10 DEF IInv

\* Registering the new path drops earlier ones, but never the last two.
LEMMA RegisterIInv ==
  ASSUME IInv, Register
  PROVE  IInv'
<1>. DEFINE group == groups[part]
            old   == saved[group]
            paths == Append(old, step)
<1>1. /\ pc = "write" /\ Written /\ RegisterPath(group)
      /\ \/ part < Len(groups) /\ part' = part + 1 /\ pc' = "make_room"
         \/ part >= Len(groups) /\ part' = part /\ pc' = "data"
      /\ UNCHANGED <<config, tracker, run, mode, step, furthest, forced>>
      /\ UNCHANGED <<groups, keep>>
  <2>1. part \in Int /\ Len(groups) \in Int
    BY GroupsFacts DEF IInv
  <2>. QED BY <2>1 DEF Register, config
<1>2. /\ group \in {"actor", "critic"} /\ part \in DOMAIN groups /\ part \in part .. Len(groups)
      /\ DOMAIN groups = 1 .. Len(groups) /\ Len(groups) \in Nat
      /\ step \in Steps /\ step \in Int /\ keep \in Nat
  BY <1>1, GroupsFacts, TypeFacts, CheckpointsAssumption
     DEF IInv, TypeOK, ConfigTypes, ProgressInv, Saving
<1>3. /\ old \in Seq(Steps) /\ Len(old) \in Nat /\ DOMAIN old = 1 .. Len(old)
      /\ Increasing(old) /\ \A i \in DOMAIN old : old[i] \in Int /\ old[i] < step
  BY <1>1, <1>2, TypeFacts DEF IInv, SavedInv
<1>4. /\ paths \in Seq(Steps) /\ Len(paths) = Len(old) + 1 /\ DOMAIN paths = 1 .. Len(old) + 1
      /\ \A i \in DOMAIN old : paths[i] = old[i]
      /\ paths[Len(old) + 1] = step
  BY <1>2, <1>3, AppendProperties
<1>. HIDE DEF paths
<1>5. Increasing(paths)
  <2>. SUFFICES ASSUME NEW i \in DOMAIN paths, NEW j \in DOMAIN paths, i < j
                PROVE  paths[i] < paths[j]
    BY DEF Increasing
  <2>1. i \in DOMAIN old
    BY <1>3, <1>4
  <2>2. CASE j = Len(old) + 1
    BY <1>3, <1>4, <2>1, <2>2
  <2>3. CASE j # Len(old) + 1
    <3>1. j \in DOMAIN old
      BY <1>3, <1>4, <2>3
    <3>. QED BY <1>3, <1>4, <2>1, <3>1 DEF Increasing
  <2>. QED BY <2>2, <2>3
<1>6. \A i \in DOMAIN paths : (paths[i] = step /\ i = Len(paths)) \/ (i \in DOMAIN old /\ paths[i] = old[i])
  BY <1>3, <1>4
\* Whatever is kept, the outcome has these in common.
<1>7. /\ saved' \in [{"actor", "critic"} -> Seq(Steps)]
      /\ \A h \in {"actor", "critic"} : h # group => saved'[h] = saved[h]
      /\ Increasing(saved'[group])
      /\ \A i \in DOMAIN saved'[group] : \E j \in DOMAIN paths : saved'[group][i] = paths[j]
      /\ DiskType'
      /\ disk'[step] = disk[step]
      /\ keep # 1 /\ tracker \in Steps => disk'[tracker] = disk[tracker]
  <2>1. CASE keep = 0
    <3>1. saved' = [saved EXCEPT ![group] = paths] /\ disk' = disk
      BY <1>1, <2>1 DEF RegisterPath, paths
    <3>2. saved \in [{"actor", "critic"} -> Seq(Steps)]
      BY DEF IInv, TypeOK, SavedType
    <3>3. saved'[group] = paths
      BY <1>2, <3>1, <3>2
    <3>4. DiskType'
      BY <3>1 DEF IInv, TypeOK, DiskType
    <3>. QED BY <1>2, <1>4, <1>5, <3>1, <3>2, <3>3, <3>4
  <2>2. CASE keep # 0
    <3>1. KeepLast(group, paths, keep)
      BY <1>1, <1>2, <2>2 DEF RegisterPath, paths
    <3>2. /\ saved' \in [{"actor", "critic"} -> Seq(Steps)]
          /\ \A h \in {"actor", "critic"} : h # group => saved'[h] = saved[h]
          /\ Increasing(saved'[group])
          /\ \A i \in DOMAIN saved'[group] : \E j \in DOMAIN paths : saved'[group][i] = paths[j]
          /\ disk' \in [Steps -> [Files -> [by : 0 .. MaxRuns, whole : BOOLEAN]]]
          /\ \A s \in Steps :
               (\A i \in DOMAIN paths : i <= Len(paths) - keep => paths[i] # s)
                 => disk'[s] = disk[s]
      BY <1>2, <1>4, <1>5, <3>1, KeptLast DEF IInv
    <3>3. \A i \in DOMAIN paths : i <= Len(paths) - keep => i \in DOMAIN old /\ paths[i] = old[i]
      BY <1>2, <1>3, <1>4, <2>2
    <3>4. \A i \in DOMAIN paths : i <= Len(paths) - keep => paths[i] # step
      BY <1>2, <1>3, <3>3
    <3>5. disk'[step] = disk[step]
      BY <1>2, <3>2, <3>4
    <3>6. ASSUME keep # 1, tracker \in Steps
          PROVE  disk'[tracker] = disk[tracker]
      <4>1. \A i \in DOMAIN paths : i <= Len(paths) - keep => i < Len(old)
        BY <1>2, <1>3, <1>4, <2>2, <3>6
      <4>2. \A i \in DOMAIN paths : i <= Len(paths) - keep => paths[i] # tracker
        BY <1>1, <1>2, <3>3, <4>1, DroppedUntracked DEF IInv
      <4>. QED BY <3>2, <3>6, <4>2
    <3>. QED BY <3>2, <3>5, <3>6 DEF DiskType
  <2>. QED BY <2>1, <2>2
<1>8. TypeOK'
  <2>1. ConfigTypes'
    BY <1>1, <1>2 DEF IInv, TypeOK, ConfigTypes
  <2>2. ProcessTypes'
    BY <1>1 DEF IInv, TypeOK, ProcessTypes
  <2>. QED BY <1>7, <2>1, <2>2 DEF TypeOK, SavedType
<1>9. ProgressInv'
  <2>1. \A g \in 1 .. part : \A h \in Shards(groups[g]) : disk'[step][h] = Whole(run)
    <3>. SUFFICES ASSUME NEW g \in 1 .. part, NEW h \in Shards(groups[g])
                  PROVE  disk[step][h] = Whole(run)
      BY <1>7
    <3>1. CASE g = part
      BY <1>1, <3>1 DEF Written
    <3>2. CASE g # part
      <4>1. g \in 1 .. part - 1
        BY <1>2, <3>2
      <4>. QED BY <1>1, <4>1 DEF IInv, ProgressInv, Saving, GroupWhole
    <3>. QED BY <3>1, <3>2
  <2>2. CASE part' = part + 1 /\ pc' = "make_room"
    <3>1. \A g \in 1 .. part' - 1 : g \in 1 .. part
      BY <1>2, <2>2
    <3>. QED BY <1>1, <1>2, <2>1, <2>2, <3>1 DEF ProgressInv, Saving, GroupWhole, Shards
  <2>3. CASE part >= Len(groups) /\ part' = part /\ pc' = "data"
    <3>1. \A g \in DOMAIN groups : g \in 1 .. part
      BY <1>2, <2>3
    <3>2. \A g \in 1 .. part - 1 : g \in 1 .. part
      BY <1>2
    <3>. QED BY <1>1, <1>2, <2>1, <2>3, <3>1, <3>2 DEF ProgressInv, Saving, GroupWhole, Shards
  <2>. QED BY <1>1, <2>2, <2>3
<1>10. SavedInv'
  <2>. SUFFICES ASSUME NEW g \in {"actor", "critic"}
                PROVE  /\ Increasing(saved'[g])
                       /\ \A i \in DOMAIN saved'[g] :
                            /\ saved'[g][i] <= step
                            /\ saved'[g][i] <= tracker \/ saved'[g][i] = step
                            /\ pc' = "make_room" /\ (\E n \in part' .. Len(groups) : groups[n] = g)
                                 => saved'[g][i] < step
    BY <1>1 DEF SavedInv, Increasing, Saving
  <2>1. CASE g = group
    <3>1. \A i \in DOMAIN saved'[g] :
            \/ saved'[g][i] = step
            \/ \E j \in DOMAIN old : saved'[g][i] = old[j]
      BY <1>6, <1>7, <2>1
    <3>2. \A j \in DOMAIN old : old[j] <= step /\ (old[j] <= tracker \/ old[j] = step)
      BY <1>1, <1>2 DEF IInv, SavedInv, Saving
    <3>3. pc' = "make_room" => ~ \E n \in part' .. Len(groups) : groups[n] = g
      <4>. SUFFICES ASSUME part' = part + 1, NEW n \in part' .. Len(groups), groups[n] = g
                    PROVE  FALSE
        BY <1>1
      <4>1. n \in DOMAIN groups /\ n # part
        BY <1>2
      <4>. QED BY <4>1, <1>2, <2>1, GroupsFacts DEF IInv
    <3>. QED BY <1>2, <1>7, <2>1, <3>1, <3>2, <3>3
  <2>2. CASE g # group
    <3>1. saved'[g] = saved[g]
      BY <1>7, <2>2
    <3>2. \A n \in part' .. Len(groups) : n \in part .. Len(groups)
      BY <1>1, <1>2
    <3>. QED BY <1>1, <3>1, <3>2 DEF IInv, SavedInv, Saving
  <2>. QED BY <2>1, <2>2
<1>11. OrderInv'
  BY <1>1 DEF IInv, OrderInv, Running
<1>12. TrackedLoadable'
  BY <1>1, <1>7, TrackedKept DEF IInv
<1>. QED BY <1>8, <1>9, <1>10, <1>11, <1>12 DEF IInv

LEMMA WriteDataIInv ==
  ASSUME IInv, WriteData
  PROVE  IInv'
<1>1. /\ pc = "data" /\ WriteFile(step, DataFile)
      /\ pc' = IF disk[step][DataFile] = Half(run) THEN "open_tracker" ELSE "data"
      /\ UNCHANGED <<config, tracker, run, mode, step, part, saved, furthest, forced>>
      /\ UNCHANGED <<groups, keep>>
  BY DEF WriteData, config
<1>2. step \in Steps /\ DataFile \in Files
  BY <1>1 DEF IInv, ProgressInv, Saving, Files
<1>3. /\ DiskType'
      /\ \A s \in Steps : s # step => disk'[s] = disk[s]
      /\ \A h \in Files : h # DataFile => disk'[step][h] = disk[step][h]
      /\ disk[step][DataFile] = Half(run) => disk'[step][DataFile] = Whole(run)
  BY <1>1, <1>2, FileWritten DEF IInv
<1>4. TypeOK'
  BY <1>1, <1>3 DEF IInv, TypeOK, ConfigTypes, SavedType, ProcessTypes
<1>5. ProgressInv'
  <2>1. \A g \in DOMAIN groups : \A h \in Shards(groups[g]) : disk'[step][h] = Whole(run)
    <3>. SUFFICES ASSUME NEW g \in DOMAIN groups, NEW h \in Shards(groups[g])
                  PROVE  disk'[step][h] = Whole(run)
      OBVIOUS
    <3>1. h \in Files /\ h # DataFile
      BY ShardFacts DEF IInv
    <3>2. disk[step][h] = Whole(run)
      BY <1>1 DEF IInv, ProgressInv, Saving, GroupWhole
    <3>. QED BY <1>3, <3>1, <3>2
  <2>2. \A g \in 1 .. part - 1 : g \in DOMAIN groups
    BY GroupsFacts DEF IInv
  <2>. QED BY <1>1, <1>2, <1>3, <2>1, <2>2 DEF ProgressInv, Saving, GroupWhole, Shards
<1>6. SavedInv'
  BY <1>1 DEF IInv, SavedInv, Increasing, Saving
<1>7. OrderInv'
  BY <1>1 DEF IInv, OrderInv, Running
<1>8. TrackedLoadable'
  <2>1. tracker \in Steps /\ ~forced => tracker # step
    BY <1>1, TypeFacts DEF IInv, OrderInv
  <2>. QED BY <1>1, <1>3, <2>1, TrackedKept DEF IInv
<1>. QED BY <1>4, <1>5, <1>6, <1>7, <1>8 DEF IInv

LEMMA OpenTrackerIInv ==
  ASSUME IInv, OpenTracker
  PROVE  IInv'
<1>1. /\ pc = "open_tracker" /\ pc' = "write_tracker" /\ tracker' = TornFile
      /\ UNCHANGED <<config, disk, run, mode, step, part, saved, furthest, forced>>
      /\ UNCHANGED <<groups, keep>>
  BY DEF OpenTracker, config
<1>2. TypeOK'
  BY <1>1 DEF IInv, TypeOK, ConfigTypes, DiskType, SavedType, ProcessTypes
<1>3. ProgressInv'
  BY <1>1 DEF IInv, ProgressInv, Saving, GroupWhole, Shards
<1>4. SavedInv'
  BY <1>1 DEF IInv, SavedInv, Increasing, Saving
<1>5. TornFile \notin Steps
  BY DEF TornFile, Steps
<1>6. OrderInv'
  BY <1>1, <1>5 DEF IInv, OrderInv, Running
<1>7. TrackedLoadable'
  BY <1>1, <1>5 DEF TrackedLoadable
<1>. QED BY <1>2, <1>3, <1>4, <1>6, <1>7 DEF IInv

\* The tracker names the new step once every file of it is this process's.
LEMMA WriteTrackerIInv ==
  ASSUME IInv, WriteTracker
  PROVE  IInv'
<1>1. /\ pc = "write_tracker" /\ pc' \in {"done", "train"} /\ tracker' = step
      /\ UNCHANGED <<config, disk, run, mode, step, part, saved, furthest, forced>>
      /\ UNCHANGED <<groups, keep>>
  BY DEF WriteTracker, AfterStep, config
<1>2. step \in Steps /\ step \in Int
  BY <1>1, TypeFacts DEF IInv, ProgressInv, Saving
<1>3. TypeOK'
  BY <1>1, <1>2 DEF IInv, TypeOK, ConfigTypes, DiskType, SavedType, ProcessTypes
<1>4. ProgressInv'
  BY <1>1 DEF ProgressInv, Saving
<1>5. SavedInv'
  BY <1>1 DEF IInv, SavedInv, Increasing, Saving
<1>6. run \in 1 .. MaxRuns
  BY <1>1 DEF IInv, OrderInv, Running, TypeOK, ProcessTypes
<1>7. OrderInv'
  BY <1>1, <1>2, <1>6 DEF IInv, OrderInv, Running
<1>8. TrackedLoadable'
  <2>1. \A group \in Groups : \A f \in Shards(group) : disk[step][f] = Whole(run)
    BY <1>1 DEF IInv, ProgressInv, Saving, GroupWhole, Groups
  <2>2. disk[step][DataFile] = Whole(run)
    BY <1>1 DEF IInv, ProgressInv, Saving
  <2>3. OneSave(step)
    BY <1>6, <2>1, <2>2 DEF OneSave
  <2>4. OneSave(step)'
    BY <1>1, <2>3 DEF OneSave, Groups, Shards
  <2>. QED BY <1>1, <2>4 DEF TrackedLoadable
<1>. QED BY <1>3, <1>4, <1>5, <1>7, <1>8 DEF IInv

--------------------------------------------------------------------------------
LEMMA NextIInv == IInv /\ [Next]_vars => IInv'
<1>. SUFFICES ASSUME IInv, [Next]_vars PROVE IInv'
  OBVIOUS
<1>1. CASE Start \/ Load \/ Train \/ NoDataLeft
  BY <1>1, StartIInv, LoadIInv, TrainIInv, NoDataLeftIInv
<1>2. CASE MakeRoom \/ (\E rank \in Ranks : WriteShard(rank)) \/ Register
  BY <1>2, MakeRoomIInv, WriteShardIInv, RegisterIInv
<1>3. CASE WriteData \/ OpenTracker \/ WriteTracker
  BY <1>3, WriteDataIInv, OpenTrackerIInv, WriteTrackerIInv
<1>4. CASE Crash
  BY <1>4, CrashIInv
<1>5. CASE UNCHANGED vars
  <2>1. UNCHANGED <<config, files, pc, run, mode, step, part, saved, furthest, forced>>
        /\ UNCHANGED <<groups, keep, disk, tracker>>
    BY <1>5 DEF vars, config, files
  <2>2. TypeOK'
    BY <2>1 DEF IInv, TypeOK, ConfigTypes, DiskType, SavedType, ProcessTypes
  <2>3. ProgressInv'
    BY <2>1 DEF IInv, ProgressInv, Saving, GroupWhole, Shards
  <2>4. SavedInv'
    BY <2>1 DEF IInv, SavedInv, Increasing, Saving
  <2>5. OrderInv'
    BY <2>1 DEF IInv, OrderInv, Running
  <2>6. TrackedLoadable'
    BY <2>1, TrackedKept DEF IInv
  <2>. QED BY <2>2, <2>3, <2>4, <2>5, <2>6 DEF IInv
<1>. QED BY <1>1, <1>2, <1>3, <1>4, <1>5 DEF Next

\* The inductive invariant holds throughout every run of the trainer, its crashes included.
THEOREM Invariance == Spec => []IInv
BY InitIInv, NextIInv, PTL DEF Spec

--------------------------------------------------------------------------------
\* Types of the configuration, the files and the process's state.
THEOREM TypeCorrect == Spec => []TypeOK
BY Invariance, PTL DEF IInv

\* What the tracker file names is one whole checkpoint at every point at which the
\* training may be killed, if restarts follow it and more than one is kept.
THEOREM TrackedIsLoadable == Spec => []TrackedLoadable
BY Invariance, PTL DEF IInv
--------------------------------------------------------------------------------
(***************************************************************************)
(* What a resumed process trains on (ResumesLatestSave) needs two more     *)
(* facts, inductive on top of IInv: the tracked folder never holds files   *)
(* of two processes, whatever was removed from it (UnmixedInv), and no     *)
(* save due by frequency lies between the tracked step and the steps       *)
(* trained since (BehindInv).                                              *)
(***************************************************************************)
Due(s) == s >= CriticWarmup /\ s % SaveFreq = 0

DueBehind(reached, named) == \A s \in 1 .. reached : Due(s) => s <= named

UnmixedInv ==
  ~forced /\ tracker \in Steps =>
    \E by \in 1 .. MaxRuns :
      /\ \A group \in Groups : \A f \in Shards(group) : disk[tracker][f] \in {Whole(by), Absent}
      /\ disk[tracker][DataFile] = Whole(by)

BehindInv ==
  /\ pc = "load" => step = 0
  /\ pc = "load" /\ ~forced => mode # "resume_path"
  /\ run = 0 => \A s \in Steps : ~HasFolder(s)
  /\ pc = "write_tracker" => tracker = TornFile
  /\ ~forced =>
       /\ tracker # TornFile => DueBehind(furthest - 1, tracker)
       /\ pc = "write_tracker" => DueBehind(furthest - 1, step)
       /\ pc \in {"make_room", "write", "data", "open_tracker"} =>
            tracker # TornFile /\ DueBehind(step - 1, tracker)
       /\ pc = "train" => tracker # TornFile /\ DueBehind(step, tracker)

ResumeStep ==
  pc = "load" /\ pc' = "train" /\ ~forced =>
    /\ step' # 0 => OneSave(step')
    /\ \A s \in 1 .. furthest - 1 : s >= CriticWarmup /\ s % SaveFreq = 0 => s <= step'

\* What a manager's cut does to the files: those of the group, of the steps cut off and of
\* no others, are gone.
LEMMA CutFiles ==
  ASSUME TypeOK, NEW group \in {"actor", "critic"}, NEW paths \in Seq(Steps), NEW n \in Nat,
         KeepLast(group, paths, n)
  PROVE  /\ \A s \in Steps : \A f \in Files :
              /\ f[1] # group => disk'[s][f] = disk[s][f]
              /\ disk'[s][f] \in {disk[s][f], Absent}
         /\ \A s \in ToSet(paths) :
              s \in ToSet(saved'[group]) \/ \A f \in Shards(group) : disk'[s][f] = Absent
         /\ saved'[group] \in Seq(Steps) /\ Len(saved'[group]) <= n
<1>1. Len(paths) \in Nat /\ DOMAIN paths = 1 .. Len(paths)
  OBVIOUS
<1>2. PICK cut \in 0 .. Len(paths) :
        /\ cut = IF Len(paths) > n THEN Len(paths) - n ELSE 0
        /\ \A i \in 1 .. cut : i \in 1 .. Len(paths) /\ i <= Len(paths) - n
  BY <1>1, CutPoint
<1>. DEFINE rest == SubSeq(paths, cut + 1, Len(paths))
            gone == SubSeq(paths, 1, cut)
<1>3. /\ rest \in Seq(Steps) /\ Len(rest) = Len(paths) - cut
      /\ \A i \in 1 .. Len(paths) - cut : rest[i] = paths[i + cut]
  BY <1>1, LastPart
<1>4. /\ gone \in Seq(Steps) /\ Len(gone) = cut
      /\ \A i \in 1 .. cut : gone[i] = paths[i]
  BY <1>1, FirstPart
<1>5. saved' = [saved EXCEPT ![group] = rest] /\ disk' = Removed(group, ToSet(gone))
  BY <1>2 DEF KeepLast
<1>. HIDE DEF rest, gone
<1>6. saved'[group] = rest
  BY <1>5 DEF TypeOK, SavedType
<1>7. Len(rest) <= n
  BY <1>1, <1>2, <1>3
<1>8. \A s \in Steps : \A f \in Files :
        disk'[s][f] = IF s \in ToSet(gone) /\ f[1] = group THEN Absent ELSE disk[s][f]
  BY <1>5 DEF Removed
<1>9. ASSUME NEW s \in ToSet(paths)
      PROVE  s \in ToSet(rest) \/ \A f \in Shards(group) : disk'[s][f] = Absent
  <2>1. PICK i \in DOMAIN paths : s = paths[i]
    BY <1>9 DEF ToSet
  <2>2. CASE i <= cut
    <3>1. i \in DOMAIN gone /\ gone[i] = s
      BY <1>1, <1>4, <2>1, <2>2
    <3>2. s \in ToSet(gone) /\ s \in Steps
      BY <2>1, <3>1, ElementOfSeq, <1>1 DEF ToSet
    <3>3. \A f \in Shards(group) : f \in Files /\ f[1] = group
      BY DEF Shards, Files
    <3>. QED BY <1>8, <3>2, <3>3
  <2>3. CASE i > cut
    <3>1. i - cut \in DOMAIN rest /\ rest[i - cut] = paths[i - cut + cut]
      BY <1>1, <1>3, <2>1, <2>3
    <3>2. i - cut + cut = i
      BY <1>1, <2>1
    <3>. QED BY <2>1, <3>1, <3>2 DEF ToSet
  <2>. QED BY <1>1, <2>1, <2>2, <2>3
<1>. QED BY <1>3, <1>6, <1>7, <1>8, <1>9

\* A step changes the files of the step being saved, or removes some of a group's.
LEMMA FilesStep ==
  ASSUME IInv, [Next]_vars
  PROVE  /\ pc \notin {"make_room", "write", "data"} => disk' = disk
         /\ \A s \in Steps : \A f \in Files :
              \/ disk'[s][f] = disk[s][f]
              \/ disk'[s][f] = Absent /\ f # DataFile
              \/ s = step /\ disk'[s][f].by = run
         /\ disk' = disk \/ (tracker' = tracker /\ UNCHANGED config /\ step' = step /\ run' = run)
<1>1. CASE MakeRoom \/ Register
  <2>1. /\ pc \in {"make_room", "write"} /\ keep \in Nat
        /\ tracker' = tracker /\ UNCHANGED config /\ step' = step /\ run' = run
    BY <1>1, CheckpointsAssumption DEF MakeRoom, Register, IInv, TypeOK, ConfigTypes
  <2>2. \/ disk' = disk
        \/ \E group \in {"actor", "critic"}, paths \in Seq(Steps), n \in Nat :
             KeepLast(group, paths, n)
    <3>. DEFINE group == groups[part]
    <3>1. group \in {"actor", "critic"} /\ saved[group] \in Seq(Steps) /\ step \in Steps
      BY <2>1, GroupsFacts, TypeFacts DEF IInv, ProgressInv, Saving
    <3>2. Append(saved[group], step) \in Seq(Steps)
      BY <3>1
    <3>3. CASE MakeRoom
      <4>1. disk' = disk \/ (keep - 1 \in Nat /\ KeepLast(group, saved[group], keep - 1))
        BY <2>1, <3>3 DEF MakeRoom
      <4>. QED BY <3>1, <4>1
    <3>4. CASE Register
      <4>1. disk' = disk \/ KeepLast(group, Append(saved[group], step), keep)
        BY <3>4 DEF Register, RegisterPath
      <4>. QED BY <2>1, <3>1, <3>2, <4>1
    <3>. QED BY <1>1, <3>3, <3>4
  <2>3. ASSUME NEW group \in {"actor", "critic"}, NEW paths \in Seq(Steps), NEW n \in Nat,
               KeepLast(group, paths, n)
        PROVE  \A s \in Steps : \A f \in Files :
                 disk'[s][f] = disk[s][f] \/ (disk'[s][f] = Absent /\ f # DataFile)
    <3>1. DataFile[1] # group
      BY DEF DataFile
    <3>. QED BY <2>3, <3>1, CutFiles DEF IInv
  <2>. QED BY <2>1, <2>2, <2>3
<1>2. CASE (\E rank \in Ranks : WriteShard(rank)) \/ WriteData
  <2>1. PICK f : f \in Files /\ WriteFile(step, f)
    <3>1. CASE WriteData
      BY <3>1 DEF WriteData, Files
    <3>2. ASSUME NEW rank \in Ranks, WriteShard(rank)
          PROVE  <<groups[part], rank>> \in Files /\ WriteFile(step, <<groups[part], rank>>)
      BY <3>2, GroupsFacts DEF IInv, WriteShard, Files
    <3>. QED BY <1>2, <3>1, <3>2
  <2>2. /\ pc \in {"write", "data"} /\ step \in Steps
        /\ tracker' = tracker /\ UNCHANGED config /\ step' = step /\ run' = run
    BY <1>2 DEF WriteShard, WriteData, IInv, ProgressInv, Saving
  <2>3. /\ \A s \in Steps : s # step => disk'[s] = disk[s]
        /\ \A h \in Files : h # f => disk'[step][h] = disk[step][h]
    BY <2>1, <2>2, FileWritten DEF IInv
  <2>4. disk'[step][f].by = run
    BY <2>1, <2>2 DEF WriteFile, IInv, TypeOK, DiskType, Half, Whole
  <2>. QED BY <2>2, <2>3, <2>4
<1>3. CASE Start \/ Load \/ Train \/ NoDataLeft \/ OpenTracker \/ WriteTracker \/ Crash
           \/ UNCHANGED vars
  <2>1. disk' = disk
    BY <1>3 DEF Start, Load, Train, NoDataLeft, OpenTracker, WriteTracker, Crash, vars, files
  <2>. QED BY <2>1
<1>. QED BY <1>1, <1>2, <1>3 DEF Next
--------------------------------------------------------------------------------
LEMMA InitResume == Init => UnmixedInv /\ BehindInv
<1>. SUFFICES ASSUME Init PROVE UnmixedInv /\ BehindInv
  OBVIOUS
<1>1. UnmixedInv
  BY DEF Init, UnmixedInv, None, Steps
<1>2. BehindInv
  <2>1. \A s \in Steps : ~HasFolder(s)
    BY DEF Init, HasFolder
  <2>. QED BY <2>1 DEF Init, BehindInv, DueBehind
<1>. QED BY <1>1, <1>2

\* The tracked folder's files are removed at most, or the tracker moves to one save.
LEMMA UnmixedStep ==
  ASSUME IInv, UnmixedInv, [Next]_vars
  PROVE  UnmixedInv'
<1>. SUFFICES ASSUME ~forced', tracker' \in Steps
              PROVE  \E by \in 1 .. MaxRuns :
                       /\ \A group \in Groups' : \A f \in Shards(group) :
                            disk'[tracker'][f] \in {Whole(by), Absent}
                       /\ disk'[tracker'][DataFile] = Whole(by)
  BY DEF UnmixedInv, Shards
<1>1. ~forced /\ UNCHANGED config
  <2>1. CASE Start
    BY <2>1, Zenon DEF Start
  <2>2. ASSUME ~Start PROVE forced' = forced /\ config' = config
    <3>1. CASE Load \/ Train \/ NoDataLeft \/ Crash \/ UNCHANGED vars
      BY <3>1 DEF Load, Train, NoDataLeft, Crash, vars
    <3>2. CASE MakeRoom
      BY <3>2 DEF MakeRoom
    <3>3. CASE \E rank \in Ranks : WriteShard(rank)
      BY <3>3 DEF WriteShard
    <3>4. CASE Register
      BY <3>4 DEF Register
    <3>5. CASE WriteData \/ OpenTracker \/ WriteTracker
      BY <3>5 DEF WriteData, OpenTracker, WriteTracker
    <3>. QED BY <2>2, <3>1, <3>2, <3>3, <3>4, <3>5 DEF Next
  <2>. QED BY <2>1, <2>2
<1>2. Groups' = Groups
  BY <1>1 DEF config, Groups
<1>3. CASE WriteTracker
  <2>1. pc = "write_tracker" /\ tracker' = step /\ disk' = disk
    BY <1>3 DEF WriteTracker
  <2>2. \A group \in Groups : \A f \in Shards(group) : disk[step][f] = Whole(run)
    BY <2>1 DEF IInv, ProgressInv, Saving, GroupWhole, Groups
  <2>3. disk[step][DataFile] = Whole(run)
    BY <2>1 DEF IInv, ProgressInv, Saving
  <2>4. run \in 1 .. MaxRuns
    BY <2>1 DEF IInv, OrderInv, Running, TypeOK, ProcessTypes
  <2>. QED BY <1>2, <2>1, <2>2, <2>3, <2>4
<1>4. CASE ~WriteTracker
  <2>1. tracker' = tracker
    <3>1. tracker' = tracker \/ tracker' = TornFile
      BY <1>4 DEF Next, Start, Load, LoadAt, Train, NoDataLeft, MakeRoom, WriteShard, Register,
                  WriteData, OpenTracker, Crash, vars, files
    <3>. QED BY <3>1 DEF TornFile, Steps
  <2>2. PICK by \in 1 .. MaxRuns :
          /\ \A group \in Groups : \A f \in Shards(group) :
               disk[tracker][f] \in {Whole(by), Absent}
          /\ disk[tracker][DataFile] = Whole(by)
    BY <1>1, <2>1 DEF UnmixedInv
  <2>3. disk' = disk \/ tracker # step
    BY <1>1, <2>1, FilesStep, TypeFacts DEF IInv, OrderInv
  <2>4. \A f \in Files : \/ disk'[tracker][f] = disk[tracker][f]
                         \/ disk'[tracker][f] = Absent /\ f # DataFile
    BY <2>1, <2>3, FilesStep
  <2>5. DataFile \in Files /\ \A group \in Groups : \A f \in Shards(group) : f \in Files
    BY ShardFacts DEF IInv, Groups, Files
  <2>. QED BY <1>2, <2>1, <2>2, <2>4, <2>5
<1>. QED BY <1>3, <1>4

LEMMA BehindTypes ==
  ASSUME TypeOK
  PROVE  /\ step \in Nat /\ furthest \in Nat /\ tracker \in Int /\ None = 0 /\ TornFile = -1
         /\ SaveFreq \in Nat /\ CriticWarmup \in Nat /\ DataSteps \in Nat
         /\ tracker = None \/ tracker = TornFile \/ tracker \in Steps
BY TypeFacts, CheckpointsAssumption DEF TypeOK, ProcessTypes, None, TornFile

LEMMA BehindMono ==
  ASSUME NEW r \in Int, NEW n \in Int, NEW reached \in Int, NEW named \in Int,
         DueBehind(r, n), reached <= r, n <= named
  PROVE  DueBehind(reached, named)
BY DEF DueBehind

\* A process that has not begun has no folder, and one that has begun keeps its number.
LEMMA NoFolderYet ==
  ASSUME IInv, BehindInv, [Next]_vars, run' = 0
  PROVE  \A s \in Steps : ~HasFolder(s)'
<1>1. run = 0 /\ ~Running
  <2>1. run \in Nat /\ (Running => run > 0)
    BY DEF IInv, OrderInv, TypeOK, ProcessTypes
  <2>2. run' = run + 1 \/ run' = run
    BY DEF Next, Start, Load, Train, NoDataLeft, MakeRoom, WriteShard, Register, WriteData,
           OpenTracker, WriteTracker, Crash, vars
  <2>. QED BY <2>1, <2>2
<1>2. disk' = disk
  BY <1>1, FilesStep DEF Running
<1>. QED BY <1>1, <1>2 DEF BehindInv, HasFolder

\* A step that is trained and not saved is not due by frequency.
LEMMA TrainBehind ==
  ASSUME IInv, BehindInv, Train
  PROVE  BehindInv'
<1>1. /\ pc = "train" /\ step' = step + 1 /\ forced' = forced /\ tracker' = tracker
      /\ pc' \in {"make_room", "train", "done"}
      /\ furthest' = IF step' > furthest THEN step' ELSE furthest
  BY DEF Train, AfterStep, files
<1>2. step \in Nat /\ furthest \in Nat /\ tracker \in Int
  BY BehindTypes DEF IInv
<1>0. run' = 0 => \A s \in Steps : ~HasFolder(s)'
  BY NoFolderYet DEF Next
<1>. SUFFICES ASSUME ~forced
              PROVE  /\ DueBehind(furthest' - 1, tracker)
                     /\ tracker # TornFile /\ DueBehind(step, tracker)
                     /\ pc' = "train" => DueBehind(step + 1, tracker)
  BY <1>0, <1>1, <1>2 DEF BehindInv, HasFolder
<1>3. tracker # TornFile /\ DueBehind(step, tracker) /\ DueBehind(furthest - 1, tracker)
  BY <1>1 DEF BehindInv
<1>4. DueBehind(furthest' - 1, tracker)
  BY <1>1, <1>2, <1>3
<1>5. ASSUME pc' = "train" PROVE DueBehind(step + 1, tracker)
  <2>1. ~Due(step + 1)
    <3>1. PICK esi \in EsiClose :
            pc' = IF SaveDue(step', esi) THEN "make_room" ELSE AfterStep(step')
      BY DEF Train
    <3>2. ~SaveDue(step', esi)
      BY <1>5, <3>1
    <3>. QED BY <1>1, <3>2 DEF SaveDue, Due
  <2>. QED BY <1>2, <1>3, <2>1 DEF DueBehind
<1>. QED BY <1>3, <1>4, <1>5

\* A process that trains again starts from the tracked step, or from none.
LEMMA LoadFrom ==
  ASSUME IInv, BehindInv, Load, ~forced, pc' = "train"
  PROVE  /\ tracker # TornFile
         /\ step' = tracker
         /\ step' # 0 => tracker \in Steps /\ Loads(tracker)
<1>1. pc = "load" /\ step = 0 /\ mode # "resume_path"
  BY DEF Load, BehindInv
<1>2. mode # "auto" => tracker = None
  BY <1>1 DEF IInv, OrderInv
<1>3. None \notin Steps /\ TornFile \notin Steps /\ TornFile # None /\ None = 0
  BY DEF None, TornFile, Steps
<1>4. CASE mode = "auto"
  <2>1. tracker # TornFile /\ (tracker = None \/ tracker \in Steps)
    <3>1. tracker = TornFile => pc' = "failed"
      BY <1>3, <1>4 DEF Load
    <3>. QED BY <3>1, BehindTypes DEF IInv
  <2>2. CASE tracker = None
    BY <1>1, <1>3, <1>4, <2>2 DEF Load
  <2>3. CASE tracker \in Steps
    <3>1. LoadAt(tracker)
      BY <1>3, <1>4, <2>3 DEF Load
    <3>. QED BY <2>1, <2>3, <3>1 DEF LoadAt
  <2>. QED BY <2>1, <2>2, <2>3
<1>5. CASE mode # "auto"
  BY <1>1, <1>2, <1>3, <1>5 DEF Load
<1>. QED BY <1>4, <1>5

LEMMA LoadBehind ==
  ASSUME IInv, BehindInv, Load
  PROVE  BehindInv'
<1>1. /\ pc = "load" /\ pc' \in {"train", "failed"}
      /\ UNCHANGED <<config, files, run, mode, part, saved, furthest, forced>>
      /\ UNCHANGED <<tracker, disk>>
  BY DEF Load, LoadAt, files
<1>2. ASSUME ~forced, pc' = "train"
      PROVE  tracker # TornFile /\ DueBehind(step', tracker)
  <2>1. tracker # TornFile /\ step' = tracker
    BY <1>2, LoadFrom
  <2>. QED BY <2>1 DEF DueBehind
<1>. QED BY <1>1, <1>2 DEF BehindInv, HasFolder

LEMMA StartBehind ==
  ASSUME IInv, BehindInv, Start
  PROVE  BehindInv'
<1>1. /\ pc' = "load" /\ step' = 0 /\ run' = run + 1
      /\ UNCHANGED <<config, files, furthest>> /\ UNCHANGED <<tracker, disk>>
      /\ ~forced' => ~forced /\ (mode' # "auto" => ~(run > 0))
      /\ mode' = "resume_path" => \E s \in Steps : HasFolder(s)
  BY Zenon DEF Start, NoMemory, files
<1>2. run \in Nat
  BY CheckpointsAssumption DEF IInv, TypeOK, ProcessTypes
<1>3. ~forced' => mode' # "resume_path"
  BY <1>1, <1>2 DEF BehindInv
<1>. QED BY <1>1, <1>2, <1>3 DEF BehindInv

LEMMA BehindStep ==
  ASSUME IInv, BehindInv, [Next]_vars
  PROVE  BehindInv'
<1>0. run' = 0 => \A s \in Steps : ~HasFolder(s)'
  BY NoFolderYet
<1>. USE <1>0 DEF HasFolder
<1>1. CASE Start
  BY <1>1, StartBehind
<1>2. CASE Load \/ Train
  BY <1>2, LoadBehind, TrainBehind
<1>3. CASE NoDataLeft \/ Crash
  BY <1>3 DEF NoDataLeft, Crash, NoMemory, BehindInv, files
<1>4. CASE MakeRoom
  BY <1>4 DEF MakeRoom, BehindInv
<1>5. CASE (\E rank \in Ranks : WriteShard(rank)) \/ Register
  BY <1>5 DEF WriteShard, Register, BehindInv
<1>6. CASE WriteData
  BY <1>6 DEF WriteData, BehindInv
<1>7. CASE OpenTracker
  <2>1. /\ pc = "open_tracker" /\ pc' = "write_tracker" /\ tracker' = TornFile
        /\ UNCHANGED <<step, furthest, forced>>
    BY <1>7 DEF OpenTracker
  <2>2. ASSUME ~forced PROVE DueBehind(furthest - 1, step)
    <3>1. tracker # TornFile /\ DueBehind(furthest - 1, tracker)
      BY <2>1, <2>2 DEF BehindInv
    <3>2. tracker <= step
      BY <2>1, <2>2, <3>1, BehindTypes DEF IInv, OrderInv
    <3>. QED BY <3>1, <3>2, BehindTypes DEF IInv, DueBehind
  <2>. QED BY <2>1, <2>2 DEF BehindInv
<1>8. CASE WriteTracker
  <2>1. /\ pc = "write_tracker" /\ pc' \in {"train", "done"} /\ tracker' = step
        /\ UNCHANGED <<step, furthest, forced>>
    BY <1>8 DEF WriteTracker, AfterStep
  <2>2. step # TornFile /\ DueBehind(step, step)
    BY BehindTypes DEF IInv, DueBehind
  <2>3. ~forced => DueBehind(furthest - 1, step)
    BY <2>1 DEF BehindInv
  <2>. QED BY <2>1, <2>2, <2>3 DEF BehindInv
<1>9. CASE UNCHANGED vars
  BY <1>9 DEF vars, files, BehindInv
<1>. QED BY <1>1, <1>2, <1>3, <1>4, <1>5, <1>6, <1>7, <1>8, <1>9 DEF Next

\* A checkpoint that loads has every shard, hence those of its one writer.
LEMMA ResumeHolds ==
  ASSUME IInv, UnmixedInv, BehindInv, [Next]_vars
  PROVE  ResumeStep
<1>. SUFFICES ASSUME pc = "load", pc' = "train", ~forced
              PROVE  /\ step' # 0 => OneSave(step')
                     /\ \A s \in 1 .. furthest - 1 :
                          s >= CriticWarmup /\ s % SaveFreq = 0 => s <= step'
  BY DEF ResumeStep
<1>1. Load
  BY DEF Next, Start, Train, NoDataLeft, MakeRoom, WriteShard, Register, WriteData, OpenTracker,
         WriteTracker, Crash, vars
<1>2. /\ tracker # TornFile /\ step' = tracker
      /\ step' # 0 => tracker \in Steps /\ Loads(tracker)
  BY <1>1, LoadFrom
<1>3. ASSUME step' # 0 PROVE OneSave(tracker)
  <2>1. tracker \in Steps /\ Loads(tracker)
    BY <1>2, <1>3
  <2>2. PICK by \in 1 .. MaxRuns :
          /\ \A group \in Groups : \A f \in Shards(group) :
               disk[tracker][f] \in {Whole(by), Absent}
          /\ disk[tracker][DataFile] = Whole(by)
    BY <2>1 DEF UnmixedInv
  <2>3. ASSUME NEW group \in Groups, NEW f \in Shards(group)
        PROVE  disk[tracker][f] = Whole(by)
    BY <2>1, <2>2 DEF Loads, GroupLoads, Absent
  <2>. QED BY <2>2, <2>3 DEF OneSave
<1>4. DueBehind(furthest - 1, tracker)
  BY <1>2 DEF BehindInv
<1>. QED BY <1>2, <1>3, <1>4 DEF DueBehind, Due

\* A resumed process trains on one save and no mixture, and every save due by frequency
\* before the furthest step is behind the step it resumes from.
THEOREM ResumesTheLatest == Spec => ResumesLatestSave
<1>1. IInv /\ UnmixedInv /\ BehindInv /\ [Next]_vars => UnmixedInv' /\ BehindInv' /\ ResumeStep
  BY UnmixedStep, BehindStep, ResumeHolds
<1>. QED BY <1>1, Invariance, InitResume, PTL DEF Spec, ResumesLatestSave, ResumeStep
--------------------------------------------------------------------------------
(***************************************************************************)
(* WeightsKept: until a group has been saved at the new step its shards    *)
(* at the tracked one are whole (WeightsInv), and from then on those of    *)
(* the new step are (ProgressInv).                                         *)
(***************************************************************************)
WeightsInv ==
  ~forced /\ tracker \in Steps =>
    \A g \in DOMAIN groups :
      pc = "train" \/ (pc \in {"make_room", "write"} /\ part <= g) =>
        GroupLoads(tracker, groups[g])

\* A cut that spares the tracked step, or is another group's, keeps a group's shards there.
LEMMA LoadsKept ==
  ASSUME TypeOK, NEW group \in {"actor", "critic"}, NEW s \in Steps,
         GroupLoads(s, group),
         \A f \in Files : f[1] = group => disk'[s][f] = disk[s][f]
  PROVE  \A f \in Shards(group) : disk'[s][f].whole
<1>1. \A f \in Shards(group) : f \in Files /\ f[1] = group
  BY DEF Shards, Files
<1>. QED BY <1>1 DEF GroupLoads

\* Making room spares the tracked step in the group's own list.
LEMMA MakeRoomWeights ==
  ASSUME IInv, WeightsInv, MakeRoom
  PROVE  WeightsInv'
<1>1. /\ pc = "make_room" /\ pc' = "write" /\ tracker' = tracker /\ part' = part
      /\ forced' = forced /\ groups' = groups /\ keep' = keep
  BY DEF MakeRoom, config
<1>. SUFFICES ASSUME ~forced, tracker \in Steps, NEW g \in DOMAIN groups, part <= g
              PROVE  \A f \in Shards(groups[g]) : disk'[tracker][f].whole
  BY <1>1 DEF WeightsInv, GroupLoads, Shards
<1>. DEFINE group == groups[part]
            paths == saved[group]
<1>2. /\ GroupLoads(tracker, groups[g]) /\ groups[g] \in {"actor", "critic"}
      /\ group \in {"actor", "critic"} /\ part \in DOMAIN groups
      /\ groups[g] = group => g = part
  BY <1>1, GroupsFacts DEF IInv, WeightsInv
<1>3. CASE keep > 1 /\ Len(paths) >= keep
  <2>1. keep - 1 \in Nat /\ keep \in Nat /\ KeepLast(group, paths, keep - 1)
    BY <1>3, CheckpointsAssumption DEF MakeRoom, IInv, TypeOK, ConfigTypes
  <2>2. CASE g = part
    <3>1. /\ paths \in Seq(Steps) /\ Len(paths) \in Nat /\ DOMAIN paths = 1 .. Len(paths)
          /\ Increasing(paths)
      BY <1>2, TypeFacts DEF IInv, SavedInv
    <3>2. \A i \in DOMAIN paths : i <= Len(paths) - (keep - 1) => paths[i] # tracker
      <4>. SUFFICES ASSUME NEW i \in DOMAIN paths, i <= Len(paths) - (keep - 1)
                    PROVE  paths[i] # tracker
        OBVIOUS
      <4>1. i < Len(paths)
        BY <1>3, <2>1, <3>1
      <4>. QED BY <1>1, <1>2, <4>1, GroupsFacts, DroppedUntracked DEF IInv
    <3>3. disk'[tracker] = disk[tracker]
      BY <1>2, <2>1, <3>1, <3>2, KeptLast DEF IInv
    <3>. QED BY <1>2, <3>3, LoadsKept DEF IInv
  <2>3. CASE g # part
    <3>1. paths \in Seq(Steps)
      BY <1>2, TypeFacts DEF IInv
    <3>2. \A f \in Files : f[1] = groups[g] => disk'[tracker][f] = disk[tracker][f]
      BY <1>2, <2>1, <2>3, <3>1, CutFiles DEF IInv
    <3>. QED BY <1>2, <3>2, LoadsKept DEF IInv
  <2>. QED BY <2>2, <2>3
<1>4. CASE ~(keep > 1 /\ Len(paths) >= keep)
  BY <1>2, <1>4, LoadsKept DEF MakeRoom, IInv
<1>. QED BY <1>3, <1>4

\* Registering a group's save may remove its tracked files, but no other group's.
LEMMA RegisterWeights ==
  ASSUME IInv, WeightsInv, Register
  PROVE  WeightsInv'
<1>1. /\ pc = "write" /\ tracker' = tracker /\ forced' = forced
      /\ groups' = groups /\ keep' = keep
      /\ part' = part + 1 \/ pc' = "data"
      /\ pc' \in {"make_room", "data"}
      /\ RegisterPath(groups[part])
  BY DEF Register, config
<1>2. part \in DOMAIN groups /\ part \in Int /\ keep \in Nat
      /\ \A g \in DOMAIN groups : g \in Int
  BY GroupsFacts, CheckpointsAssumption DEF IInv, TypeOK, ConfigTypes
<1>. SUFFICES ASSUME ~forced, tracker \in Steps, NEW g \in DOMAIN groups, part + 1 <= g
              PROVE  \A f \in Shards(groups[g]) : disk'[tracker][f].whole
  BY <1>1 DEF WeightsInv, GroupLoads, Shards
<1>3. g # part /\ part <= g
  BY <1>2
<1>4. /\ GroupLoads(tracker, groups[g]) /\ groups[g] \in {"actor", "critic"}
      /\ groups[part] \in {"actor", "critic"} /\ groups[g] # groups[part]
  BY <1>1, <1>2, <1>3, GroupsFacts DEF IInv, WeightsInv
<1>5. \A f \in Files : f[1] = groups[g] => disk'[tracker][f] = disk[tracker][f]
  <2>1. CASE keep = 0
    <3>1. disk' = disk
      BY <1>1, <2>1 DEF RegisterPath
    <3>. QED BY <3>1
  <2>2. CASE keep # 0
    <3>1. KeepLast(groups[part], Append(saved[groups[part]], step), keep)
      BY <1>1, <1>2, <2>2 DEF RegisterPath
    <3>2. saved[groups[part]] \in Seq(Steps) /\ step \in Steps
      BY <1>1, <1>4, TypeFacts DEF IInv, ProgressInv, Saving
    <3>3. Append(saved[groups[part]], step) \in Seq(Steps)
      BY <3>2
    <3>. QED BY <1>2, <1>4, <3>1, <3>3, CutFiles DEF IInv
  <2>. QED BY <2>1, <2>2
<1>. QED BY <1>4, <1>5, LoadsKept DEF IInv

LEMMA WeightsStep ==
  ASSUME IInv, WeightsInv, UnmixedInv, BehindInv, [Next]_vars
  PROVE  WeightsInv'
<1>1. CASE Start \/ Crash \/ NoDataLeft
  BY <1>1 DEF Start, Crash, NoDataLeft, WeightsInv
<1>2. CASE Load
  <2>1. /\ pc' \in {"train", "failed"} /\ UNCHANGED <<tracker, disk, groups, forced>>
    BY <1>2 DEF Load, LoadAt, config, files
  <2>2. ASSUME ~forced, pc' = "train", tracker \in Steps PROVE Loads(tracker)
    <3>1. step' = tracker /\ tracker # 0
      BY <1>2, <2>2, LoadFrom DEF Steps
    <3>. QED BY <1>2, <2>2, <3>1, LoadFrom
  <2>3. \A g \in DOMAIN groups : groups[g] \in Groups
    BY DEF Groups
  <2>. QED BY <2>1, <2>2, <2>3 DEF WeightsInv, Loads, GroupLoads, Shards
<1>3. CASE Train
  <2>1. pc = "train" /\ UNCHANGED <<tracker, disk, groups, forced>>
    BY <1>3 DEF Train, config, files
  <2>. QED BY <2>1 DEF WeightsInv, GroupLoads, Shards
<1>4. CASE MakeRoom \/ Register
  BY <1>4, MakeRoomWeights, RegisterWeights
<1>5. ASSUME NEW rank \in Ranks, WriteShard(rank) PROVE WeightsInv'
  <2>1. pc = "write" /\ UNCHANGED <<config, tracker, pc, part, forced>> /\ groups' = groups
    BY <1>5 DEF WriteShard, config
  <2>2. ~forced /\ tracker \in Steps => tracker # step
    BY <2>1, TypeFacts DEF IInv, OrderInv
  <2>3. step \in Steps /\ <<groups[part], rank>> \in Files
    BY <2>1, GroupsFacts DEF IInv, ProgressInv, Saving, Files
  <2>4. \A s \in Steps : s # step => disk'[s] = disk[s]
    BY <1>5, <2>3, FileWritten DEF WriteShard, IInv
  <2>. QED BY <2>1, <2>2, <2>4 DEF WeightsInv, GroupLoads, Shards
<1>6. CASE WriteData \/ OpenTracker
  BY <1>6 DEF WriteData, OpenTracker, WeightsInv
<1>7. CASE WriteTracker
  <2>1. pc = "write_tracker" /\ tracker' = step /\ UNCHANGED <<disk, groups, forced>>
    BY <1>7 DEF WriteTracker, config
  <2>2. \A g \in DOMAIN groups : \A f \in Shards(groups[g]) : disk[step][f].whole
    BY <2>1 DEF IInv, ProgressInv, Saving, GroupWhole, Whole
  <2>. QED BY <2>1, <2>2 DEF WeightsInv, GroupLoads, Shards
<1>8. CASE UNCHANGED vars
  BY <1>8 DEF vars, files, config, WeightsInv, GroupLoads, Shards
<1>. QED BY <1>1, <1>2, <1>3, <1>4, <1>5, <1>6, <1>7, <1>8 DEF Next

\* While a process trains or saves, a group's weights are at the tracked step or the new.
LEMMA WeightsWhileRunning ==
  IInv /\ BehindInv /\ WeightsInv /\ (pc = "train" \/ Saving) => WeightsKept
<1>. SUFFICES ASSUME IInv, BehindInv, WeightsInv, pc = "train" \/ Saving,
                     tracker \in Steps, ~forced, NEW g \in DOMAIN groups
              PROVE  \E s \in tracker .. DataSteps : GroupLoads(s, groups[g])
  BY DEF WeightsKept, Groups
<1>1. tracker \in tracker .. DataSteps /\ DataSteps \in Nat
  BY TypeFacts DEF Steps, IInv
<1>2. CASE GroupLoads(tracker, groups[g])
  BY <1>1, <1>2
<1>3. CASE ~GroupLoads(tracker, groups[g])
  <2>1. pc \in {"make_room", "write", "data", "open_tracker"}
    <3>1. pc # "write_tracker"
      BY DEF BehindInv, TornFile, Steps
    <3>. QED BY <1>3, <3>1 DEF WeightsInv, Saving
  <2>2. step \in tracker .. DataSteps
    BY <2>1, TypeFacts DEF Steps, IInv, OrderInv
  <2>3. GroupWhole(step, g)
    <3>1. part \in Int /\ g \in Int /\ (pc \in {"make_room", "write"} => part > g)
      BY <1>3, <2>1, GroupsFacts DEF IInv, WeightsInv
    <3>2. pc \in {"make_room", "write"} => g \in 1 .. part - 1
      BY <3>1, GroupsFacts DEF IInv
    <3>. QED BY <2>1, <3>2 DEF IInv, ProgressInv, Saving
  <2>4. GroupLoads(step, groups[g])
    BY <2>3 DEF GroupWhole, GroupLoads, Whole
  <2>. QED BY <2>2, <2>4
<1>. QED BY <1>2, <1>3

\* ... and when it ends it leaves them there.
LEMMA WeightsKeptStep ==
  ASSUME IInv, IInv', BehindInv', WeightsInv', WeightsKept, [Next]_vars
  PROVE  WeightsKept'
<1>1. CASE pc' = "train" \/ Saving'
  <2>1. (IInv /\ BehindInv /\ WeightsInv /\ (pc = "train" \/ Saving))' => WeightsKept'
    BY WeightsWhileRunning, PTL
  <2>. QED BY <1>1, <2>1
<1>2. CASE ~(pc' = "train" \/ Saving')
  <2>1. CASE Start
    <3>1. ~forced' => ~forced
      BY <2>1, Zenon DEF Start
    <3>. QED BY <2>1, <3>1 DEF Start, config, files, WeightsKept, Groups, GroupLoads, Shards
  <2>2. CASE Load \/ Train \/ NoDataLeft \/ Crash
    <3>1. UNCHANGED <<groups, disk, tracker, forced>>
      BY <2>2 DEF Load, Train, NoDataLeft, Crash, config, files
    <3>. QED BY <3>1 DEF WeightsKept, Groups, GroupLoads, Shards
  <2>3. CASE WriteTracker
    <3>1. pc = "write_tracker" /\ tracker' = step /\ UNCHANGED <<groups, disk, forced>>
      BY <2>3 DEF WriteTracker, config
    <3>2. \A group \in Groups : \A f \in Shards(group) : disk[step][f].whole
      BY <3>1 DEF IInv, ProgressInv, Saving, GroupWhole, Groups, Whole
    <3>3. step \in step .. DataSteps
      BY <3>1, TypeFacts DEF IInv, ProgressInv, Saving, Steps
    <3>. QED BY <3>1, <3>2, <3>3 DEF WeightsKept, Groups, GroupLoads, Shards
  <2>4. CASE MakeRoom \/ (\E rank \in Ranks : WriteShard(rank)) \/ Register \/ WriteData
             \/ OpenTracker
    BY <1>2, <2>4 DEF Saving, MakeRoom, WriteShard, Register, WriteData, OpenTracker
  <2>5. CASE UNCHANGED vars
    BY <2>5 DEF vars, config, files, WeightsKept, Groups, GroupLoads, Shards
  <2>. QED BY <2>1, <2>2, <2>3, <2>4, <2>5 DEF Next
<1>. QED BY <1>1, <1>2

\* No group's weights are lost: those of the tracked step or newer ones are whole in some
\* folder, wherever the processes were killed and whatever is kept.
THEOREM WeightsAreKept == Spec => []WeightsKept
<1>1. Init => WeightsInv /\ WeightsKept
  BY DEF Init, WeightsInv, WeightsKept, None, Steps
<1>2. /\ IInv /\ UnmixedInv /\ BehindInv /\ WeightsInv /\ [Next]_vars
           => UnmixedInv' /\ BehindInv' /\ WeightsInv'
      /\ IInv /\ IInv' /\ BehindInv' /\ WeightsInv' /\ WeightsKept /\ [Next]_vars => WeightsKept'
  BY UnmixedStep, BehindStep, WeightsStep, WeightsKeptStep
<1>. QED BY <1>1, <1>2, Invariance, InitResume, PTL DEF Spec
--------------------------------------------------------------------------------
(***************************************************************************)
(* RetentionBound counts folders on disk, the managers count paths: while  *)
(* a process runs, the folders of a group it wrote are those its manager   *)
(* remembers and the one being written (RetentionInv).                     *)
(***************************************************************************)
Remembered(g) == ToSet(saved[groups[g]]) \cup (IF pc = "write" /\ g = part THEN {step} ELSE {})

RetentionInv ==
  /\ \A s \in Steps : \A f \in Files : disk[s][f].by <= run
  /\ Running => \A g \in DOMAIN groups : OwnFolders(groups[g]) \subseteq Remembered(g)
  /\ keep > 0 => \A g \in DOMAIN groups :
       /\ Len(saved[groups[g]]) <= keep
       /\ pc = "write" /\ g = part /\ keep > 1 => Len(saved[groups[g]]) < keep

\* The elements of a list are at most as many as its positions.
LEMMA ListCardinality ==
  ASSUME NEW S, NEW list \in Seq(S)
  PROVE  IsFiniteSet(ToSet(list)) /\ Cardinality(ToSet(list)) <= Len(list)
<1>1. Len(list) \in Nat /\ DOMAIN list = 1 .. Len(list)
  OBVIOUS
<1>2. list \in Surjection(1 .. Len(list), ToSet(list))
  BY <1>1 DEF ToSet, Surjection
<1>3. ExistsSurjection(1 .. Len(list), ToSet(list))
  BY <1>2 DEF ExistsSurjection
<1>. QED BY <1>1, <1>3, FS_SurjCardinalityBound, FS_NatSurjection

LEMMA RetentionTypes ==
  ASSUME TypeOK, NEW g \in DOMAIN groups
  PROVE  /\ groups[g] \in {"actor", "critic"} /\ saved[groups[g]] \in Seq(Steps)
         /\ Len(saved[groups[g]]) \in Nat /\ keep \in Nat
         /\ \A h \in DOMAIN groups : h # g => groups[h] # groups[g]
         /\ \A f \in Shards(groups[g]) : f \in Files /\ f[1] = groups[g] /\ f # DataFile
BY GroupsFacts, TypeFacts, CheckpointsAssumption
   DEF TypeOK, ConfigTypes, Shards, Files, DataFile

\* While a process runs, its managers' counts bound the folders.
LEMMA BoundWhileRunning == IInv /\ RetentionInv /\ Running => RetentionBound
<1>. SUFFICES ASSUME IInv, RetentionInv, Running, keep > 0, NEW g \in DOMAIN groups
              PROVE  Cardinality(OwnFolders(groups[g])) <= (IF keep = 1 THEN 2 ELSE keep)
  BY DEF RetentionBound, Groups
<1>. DEFINE paths == saved[groups[g]]
            own   == OwnFolders(groups[g])
<1>1. paths \in Seq(Steps) /\ Len(paths) \in Nat /\ keep \in Nat
  BY RetentionTypes DEF IInv
<1>2. own \subseteq Remembered(g) /\ Len(paths) <= keep
      /\ (pc = "write" /\ g = part /\ keep > 1 => Len(paths) < keep)
  BY DEF RetentionInv
<1>3. IsFiniteSet(ToSet(paths)) /\ Cardinality(ToSet(paths)) <= Len(paths)
      /\ Cardinality(ToSet(paths)) \in Nat
  BY <1>1, ListCardinality, FS_CardinalityType
<1>. HIDE DEF own
<1>4. CASE pc = "write" /\ g = part
  <2>1. IsFiniteSet(Remembered(g))
        /\ Cardinality(Remembered(g)) <= Cardinality(ToSet(paths)) + 1
        /\ Cardinality(Remembered(g)) \in Nat
    BY <1>3, <1>4, FS_AddElement, FS_CardinalityType DEF Remembered
  <2>2. Cardinality(own) <= Cardinality(Remembered(g)) /\ Cardinality(own) \in Nat
    BY <1>2, <2>1, FS_Subset, FS_CardinalityType
  <2>. QED BY <1>1, <1>2, <1>3, <1>4, <2>1, <2>2 DEF own
<1>5. CASE ~(pc = "write" /\ g = part)
  <2>1. own \subseteq ToSet(paths)
    BY <1>2, <1>5 DEF Remembered
  <2>2. Cardinality(own) <= Cardinality(ToSet(paths)) /\ Cardinality(own) \in Nat
    BY <1>3, <2>1, FS_Subset, FS_CardinalityType
  <2>. QED BY <1>1, <1>2, <1>3, <2>2 DEF own
<1>. QED BY <1>4, <1>5

\* Nothing on disk is by a process to come, and only while one runs is a file written.
LEMMA NoFutureFiles ==
  ASSUME IInv, RetentionInv, [Next]_vars
  PROVE  \A s \in Steps : \A f \in Files : disk'[s][f].by <= run'
<1>. SUFFICES ASSUME NEW s \in Steps, NEW f \in Files PROVE disk'[s][f].by <= run'
  OBVIOUS
<1>1. run \in Nat /\ disk[s][f].by \in Nat /\ disk[s][f].by <= run
  BY CheckpointsAssumption DEF IInv, TypeOK, ProcessTypes, DiskType, RetentionInv
<1>2. run' = run + 1 \/ run' = run
  BY DEF Next, Start, Load, Train, NoDataLeft, MakeRoom, WriteShard, Register, WriteData,
         OpenTracker, WriteTracker, Crash, vars
<1>. QED BY <1>1, <1>2, FilesStep DEF Absent

\* What a cut leaves on disk of a group's folders is remembered or another's.
LEMMA CutRetention ==
  ASSUME TypeOK, NEW c \in DOMAIN groups, NEW paths \in Seq(Steps), NEW n \in Nat,
         KeepLast(groups[c], paths, n), OwnFolders(groups[c]) \subseteq ToSet(paths),
         groups' = groups, run' = run
  PROVE  /\ OwnFolders(groups[c])' \subseteq ToSet(saved'[groups[c]])
         /\ \A g \in DOMAIN groups : g # c =>
              /\ OwnFolders(groups[g])' = OwnFolders(groups[g])
              /\ saved'[groups[g]] = saved[groups[g]]
         /\ Len(saved'[groups[c]]) <= n
<1>1. groups[c] \in {"actor", "critic"}
  BY RetentionTypes
<1>2. OwnFolders(groups[c])' \subseteq ToSet(saved'[groups[c]])
  <2>. SUFFICES ASSUME NEW s \in Steps, NEW f \in Shards(groups[c]), run > 0, disk'[s][f].by = run
                PROVE  s \in ToSet(saved'[groups[c]])
    BY DEF OwnFolders, Shards
  <2>1. disk'[s][f] # Absent
    BY DEF Absent
  <2>2. disk'[s][f] = disk[s][f]
    BY <1>1, <2>1, CutFiles, RetentionTypes
  <2>3. s \in ToSet(paths)
    BY <2>2 DEF OwnFolders
  <2>. QED BY <1>1, <2>1, <2>3, CutFiles
<1>3. ASSUME NEW g \in DOMAIN groups, g # c
      PROVE  /\ OwnFolders(groups[g])' = OwnFolders(groups[g])
             /\ saved'[groups[g]] = saved[groups[g]]
  <2>1. \A s \in Steps : \A f \in Shards(groups[g]) : disk'[s][f] = disk[s][f]
    BY <1>1, <1>3, CutFiles, RetentionTypes
  <2>2. saved'[groups[g]] = saved[groups[g]]
    BY <1>1, <1>3, RetentionTypes DEF KeepLast, TypeOK, SavedType
  <2>. QED BY <2>1, <2>2 DEF OwnFolders, Shards
<1>. QED BY <1>1, <1>2, <1>3, CutFiles

LEMMA MakeRoomRetention ==
  ASSUME IInv, RetentionInv, MakeRoom
  PROVE  RetentionInv'
<1>1. /\ pc = "make_room" /\ pc' = "write" /\ part' = part /\ run' = run /\ step' = step
      /\ groups' = groups /\ keep' = keep
  BY DEF MakeRoom, config
<1>2. part \in DOMAIN groups /\ keep \in Nat
  BY GroupsFacts, CheckpointsAssumption DEF IInv, TypeOK, ConfigTypes
<1>0. PICK c \in DOMAIN groups : c = part
  BY <1>2
<1>. DEFINE group == groups[c]
            paths == saved[group]
<1>3. /\ paths \in Seq(Steps) /\ Len(paths) \in Nat /\ Running
      /\ \A g \in DOMAIN groups : OwnFolders(groups[g]) \subseteq ToSet(saved[groups[g]])
      /\ keep > 0 => \A g \in DOMAIN groups : Len(saved[groups[g]]) <= keep
  BY <1>1, <1>2, RetentionTypes DEF IInv, RetentionInv, Remembered, Running
<1>4. \A s \in Steps : \A f \in Files : disk'[s][f].by <= run'
  BY NoFutureFiles DEF Next
<1>5. /\ \A g \in DOMAIN groups : OwnFolders(groups[g])' \subseteq ToSet(saved'[groups[g]])
      /\ keep > 0 => \A g \in DOMAIN groups :
           Len(saved'[groups[g]]) <= keep /\ (g = c /\ keep > 1 => Len(saved'[groups[g]]) < keep)
  <2>1. CASE keep > 1 /\ Len(paths) >= keep
    <3>1. KeepLast(group, paths, keep - 1) /\ keep - 1 \in Nat
      BY <1>0, <1>2, <2>1 DEF MakeRoom
    <3>2. OwnFolders(group)' \subseteq ToSet(saved'[group]) /\ Len(saved'[group]) <= keep - 1
      BY <1>1, <1>2, <1>3, <3>1, CutRetention DEF IInv
    <3>3. ASSUME NEW g \in DOMAIN groups, g # c
          PROVE  /\ OwnFolders(groups[g])' = OwnFolders(groups[g])
                 /\ saved'[groups[g]] = saved[groups[g]]
      BY <1>1, <1>2, <1>3, <3>1, <3>3, CutRetention DEF IInv
    <3>4. Len(saved'[group]) \in Nat
      BY <1>2, <1>3, <3>1, CutFiles, RetentionTypes DEF IInv
    <3>. SUFFICES ASSUME NEW g \in DOMAIN groups
                  PROVE  /\ OwnFolders(groups[g])' \subseteq ToSet(saved'[groups[g]])
                         /\ Len(saved'[groups[g]]) <= keep
                         /\ g = c => Len(saved'[groups[g]]) < keep
      OBVIOUS
    <3>5. CASE g = c
      BY <1>2, <3>2, <3>4, <3>5
    <3>6. CASE g # c
      <4>1. OwnFolders(groups[g]) \subseteq ToSet(saved[groups[g]]) /\ Len(saved[groups[g]]) <= keep
        BY <1>2, <1>3, <2>1
      <4>2. /\ OwnFolders(groups[g])' = OwnFolders(groups[g])
            /\ saved'[groups[g]] = saved[groups[g]]
        BY <3>3, <3>6
      <4>. QED BY <3>6, <4>1, <4>2
    <3>. QED BY <3>5, <3>6
  <2>2. CASE ~(keep > 1 /\ Len(paths) >= keep)
    <3>1. disk' = disk /\ saved' = saved
      BY <1>0, <2>2 DEF MakeRoom
    <3>. QED BY <1>1, <1>2, <1>3, <2>2, <3>1 DEF OwnFolders, Shards
  <2>. QED BY <2>1, <2>2
<1>. QED BY <1>0, <1>1, <1>4, <1>5 DEF RetentionInv, Remembered, OwnFolders, Shards

LEMMA WriteShardRetention ==
  ASSUME IInv, RetentionInv, NEW rank \in Ranks, WriteShard(rank)
  PROVE  RetentionInv'
<1>. DEFINE f == <<groups[part], rank>>
<1>1. /\ pc = "write" /\ Running /\ WriteFile(step, f)
      /\ UNCHANGED <<pc, part, run, step, saved, groups, keep>>
  BY DEF WriteShard, Running, config
<1>2. /\ part \in DOMAIN groups /\ step \in Steps /\ f \in Shards(groups[part]) /\ f \in Files
      /\ \A h \in DOMAIN groups : h # part => f \notin Shards(groups[h])
  BY <1>1, GroupsFacts, ShardFacts DEF IInv, ProgressInv, Saving, Shards
<1>3. /\ \A s \in Steps : s # step => disk'[s] = disk[s]
      /\ \A h \in Files : h # f => disk'[step][h] = disk[step][h]
  BY <1>1, <1>2, FileWritten DEF IInv
<1>4. \A s \in Steps : \A h \in Files : disk'[s][h].by <= run'
  BY NoFutureFiles DEF Next
<1>. HIDE DEF f
<1>5. ASSUME NEW g \in DOMAIN groups
      PROVE  OwnFolders(groups[g])' \subseteq Remembered(g)
  <2>. SUFFICES ASSUME NEW s \in Steps, NEW h \in Shards(groups[g]), run > 0, disk'[s][h].by = run
                PROVE  s \in Remembered(g)
    BY <1>1 DEF OwnFolders, Shards
  <2>1. CASE s = step /\ g = part
    BY <1>1, <2>1 DEF Remembered
  <2>2. CASE ~(s = step /\ g = part)
    <3>1. disk'[s][h] = disk[s][h]
      BY <1>2, <1>3, <2>2, ShardFacts DEF IInv
    <3>2. s \in OwnFolders(groups[g])
      BY <3>1 DEF OwnFolders
    <3>. QED BY <1>1, <3>2 DEF RetentionInv
  <2>. QED BY <2>1, <2>2
<1>. QED BY <1>1, <1>4, <1>5 DEF RetentionInv, Remembered, Running

LEMMA RegisterRetention ==
  ASSUME IInv, RetentionInv, Register
  PROVE  RetentionInv'
<1>0. PICK c \in DOMAIN groups : c = part
  BY GroupsFacts DEF IInv
<1>. DEFINE group == groups[c]
            paths == Append(saved[group], step)
<1>1. /\ pc = "write" /\ Running /\ pc' \in {"make_room", "data"} /\ run' = run /\ step' = step
      /\ groups' = groups /\ keep' = keep /\ RegisterPath(group)
  BY <1>0 DEF Register, Running, config
<1>2. /\ keep \in Nat /\ step \in Steps
      /\ saved[group] \in Seq(Steps) /\ group \in {"actor", "critic"}
  BY <1>1, GroupsFacts, RetentionTypes DEF IInv, ProgressInv, Saving
<1>3. paths \in Seq(Steps) /\ ToSet(paths) = ToSet(saved[group]) \cup {step}
  <2>1. /\ Len(paths) = Len(saved[group]) + 1 /\ Len(saved[group]) \in Nat
        /\ \A i \in 1 .. Len(saved[group]) : paths[i] = saved[group][i]
        /\ paths[Len(saved[group]) + 1] = step
        /\ DOMAIN paths = 1 .. Len(saved[group]) + 1
        /\ DOMAIN saved[group] = 1 .. Len(saved[group])
    BY <1>2
  <2>2. paths \in Seq(Steps)
    BY <1>2
  <2>. HIDE DEF paths
  <2>3. ToSet(paths) = {paths[i] : i \in 1 .. Len(saved[group]) + 1}
    BY <2>1 DEF ToSet
  <2>4. 1 .. Len(saved[group]) + 1 = (1 .. Len(saved[group])) \cup {Len(saved[group]) + 1}
    BY <2>1
  <2>5. ToSet(paths) = {paths[i] : i \in 1 .. Len(saved[group])} \cup {step}
    BY <2>1, <2>3, <2>4
  <2>6. ToSet(saved[group]) = {saved[group][i] : i \in 1 .. Len(saved[group])}
    BY <2>1 DEF ToSet
  <2>. QED BY <2>1, <2>2, <2>5, <2>6
<1>. HIDE DEF paths
<1>4. /\ OwnFolders(group) \subseteq ToSet(paths)
      /\ \A g \in DOMAIN groups : g # c => OwnFolders(groups[g]) \subseteq ToSet(saved[groups[g]])
      /\ keep > 0 => \A g \in DOMAIN groups : Len(saved[groups[g]]) <= keep
  BY <1>0, <1>1, <1>2, <1>3 DEF RetentionInv, Remembered
<1>5. /\ \A g \in DOMAIN groups : OwnFolders(groups[g])' \subseteq ToSet(saved'[groups[g]])
      /\ keep > 0 => \A g \in DOMAIN groups : Len(saved'[groups[g]]) <= keep
  <2>1. CASE keep = 0
    <3>1. saved' = [saved EXCEPT ![group] = paths] /\ disk' = disk
      BY <1>1, <2>1 DEF RegisterPath, paths
    <3>2. saved'[group] = paths /\ \A g \in DOMAIN groups : g # c => saved'[groups[g]] = saved[groups[g]]
      BY <1>2, <3>1, RetentionTypes DEF IInv, TypeOK, SavedType
    <3>3. \A g \in DOMAIN groups : OwnFolders(groups[g])' = OwnFolders(groups[g])
      BY <1>1, <3>1 DEF OwnFolders, Shards
    <3>. QED BY <1>4, <2>1, <3>2, <3>3
  <2>2. CASE keep # 0
    <3>1. KeepLast(group, paths, keep)
      BY <1>1, <1>2, <2>2 DEF RegisterPath, paths
    <3>2. OwnFolders(group)' \subseteq ToSet(saved'[group]) /\ Len(saved'[group]) <= keep
      BY <1>1, <1>2, <1>3, <1>4, <3>1, CutRetention DEF IInv
    <3>3. ASSUME NEW g \in DOMAIN groups, g # c
          PROVE  /\ OwnFolders(groups[g])' = OwnFolders(groups[g])
                 /\ saved'[groups[g]] = saved[groups[g]]
      BY <1>1, <1>2, <1>3, <1>4, <3>1, <3>3, CutRetention DEF IInv
    <3>. SUFFICES ASSUME NEW g \in DOMAIN groups
                  PROVE  /\ OwnFolders(groups[g])' \subseteq ToSet(saved'[groups[g]])
                         /\ Len(saved'[groups[g]]) <= keep
      OBVIOUS
    <3>4. CASE g = c
      BY <3>2, <3>4
    <3>5. CASE g # c
      <4>1. OwnFolders(groups[g]) \subseteq ToSet(saved[groups[g]]) /\ Len(saved[groups[g]]) <= keep
        BY <1>2, <1>4, <2>2, <3>5
      <4>2. /\ OwnFolders(groups[g])' = OwnFolders(groups[g])
            /\ saved'[groups[g]] = saved[groups[g]]
        BY <3>3, <3>5
      <4>. QED BY <4>1, <4>2
    <3>. QED BY <3>4, <3>5
  <2>. QED BY <1>2, <2>1, <2>2
<1>6. \A s \in Steps : \A f \in Files : disk'[s][f].by <= run'
  BY NoFutureFiles DEF Next
<1>. QED BY <1>1, <1>5, <1>6 DEF RetentionInv, Remembered, OwnFolders, Shards

LEMMA RetentionStep ==
  ASSUME IInv, RetentionInv, [Next]_vars
  PROVE  RetentionInv'
<1>0. \A s \in Steps : \A f \in Files : disk'[s][f].by <= run'
  BY NoFutureFiles
<1>1. CASE Start
  <2>1. /\ run' = run + 1 /\ pc' = "load" /\ groups' = groups /\ keep' = keep /\ disk' = disk
        /\ saved' = [g \in {"actor", "critic"} |-> <<>>]
    BY <1>1 DEF Start, NoMemory, config, files
  <2>2. ASSUME NEW g \in DOMAIN groups
        PROVE  OwnFolders(groups[g])' = {} /\ Len(saved'[groups[g]]) = 0
    <3>1. \A s \in Steps : \A f \in Shards(groups[g]) :
            disk[s][f].by \in Nat /\ disk[s][f].by <= run /\ run \in Nat
      BY CheckpointsAssumption, RetentionTypes DEF IInv, TypeOK, ProcessTypes, DiskType, RetentionInv
    <3>2. OwnFolders(groups[g])' = {}
      BY <2>1, <3>1 DEF OwnFolders, Shards
    <3>. QED BY <2>1, <3>2, RetentionTypes DEF IInv
  <2>3. keep \in Nat
    BY CheckpointsAssumption DEF IInv, TypeOK, ConfigTypes
  <2>. QED BY <1>0, <2>1, <2>2, <2>3 DEF RetentionInv
<1>2. CASE Crash
  <2>1. /\ pc' = "off" /\ groups' = groups /\ keep' = keep
        /\ saved' = [g \in {"actor", "critic"} |-> <<>>]
    BY <1>2 DEF Crash, NoMemory, config
  <2>2. \A g \in DOMAIN groups : Len(saved'[groups[g]]) = 0
    BY <2>1, RetentionTypes DEF IInv
  <2>3. keep \in Nat
    BY CheckpointsAssumption DEF IInv, TypeOK, ConfigTypes
  <2>. QED BY <1>0, <2>1, <2>2, <2>3 DEF RetentionInv, Running
<1>3. CASE Load \/ Train \/ NoDataLeft \/ OpenTracker \/ WriteTracker
  <2>1. /\ pc # "write" /\ pc' # "write" /\ Running
        /\ UNCHANGED <<groups, keep, disk, saved, run>>
    BY <1>3 DEF Load, LoadAt, Train, AfterStep, NoDataLeft, OpenTracker, WriteTracker, config, files,
                Running
  <2>. QED BY <1>0, <2>1 DEF RetentionInv, Remembered, OwnFolders, Shards
<1>4. CASE MakeRoom \/ Register
  BY <1>4, MakeRoomRetention, RegisterRetention
<1>5. CASE \E rank \in Ranks : WriteShard(rank)
  BY <1>5, WriteShardRetention
<1>6. CASE WriteData
  <2>1. /\ pc = "data" /\ pc' # "write" /\ Running /\ WriteFile(step, DataFile)
        /\ UNCHANGED <<groups, keep, saved, run>>
    BY <1>6 DEF WriteData, config, Running
  <2>2. step \in Steps /\ DataFile \in Files
    BY <2>1 DEF IInv, ProgressInv, Saving, Files
  <2>3. \A s \in Steps : \A f \in Files : f # DataFile => disk'[s][f] = disk[s][f]
    BY <2>1, <2>2, FileWritten DEF IInv
  <2>4. \A g \in DOMAIN groups : OwnFolders(groups[g])' = OwnFolders(groups[g])
    BY <2>1, <2>3, RetentionTypes DEF OwnFolders, Shards, IInv
  <2>. QED BY <1>0, <2>1, <2>4 DEF RetentionInv, Remembered
<1>7. CASE UNCHANGED vars
  BY <1>7 DEF vars, config, files, RetentionInv, Remembered, Running, OwnFolders, Shards
<1>. QED BY <1>1, <1>2, <1>3, <1>4, <1>5, <1>6, <1>7 DEF Next

\* A process that has ended leaves its folders as they were.
LEMMA BoundStep ==
  ASSUME IInv, IInv', RetentionInv, RetentionInv', RetentionBound, [Next]_vars
  PROVE  RetentionBound'
<1>1. CASE Running'
  <2>1. (IInv /\ RetentionInv /\ Running)' => RetentionBound'
    BY BoundWhileRunning, PTL
  <2>. QED BY <1>1, <2>1
<1>2. CASE ~Running'
  <2>1. UNCHANGED <<groups, keep, disk, run>>
    BY <1>2 DEF Running, Next, Start, Load, LoadAt, Train, NoDataLeft, MakeRoom, WriteShard, Register,
                WriteData, OpenTracker, WriteTracker, Crash, vars, config, files
  <2>2. Groups' = Groups
    BY <2>1 DEF Groups
  <2>3. \A group \in Groups : OwnFolders(group)' = OwnFolders(group)
    BY <2>1 DEF OwnFolders, Shards
  <2>. QED BY <2>1, <2>2, <2>3 DEF RetentionBound
<1>. QED BY <1>1, <1>2

\* The folders of a group that a process wrote are at most those to keep, and the one
\* being written if one is to be kept.
THEOREM RetentionIsBounded == Spec => []RetentionBound
<1>1. Init => RetentionInv /\ RetentionBound
  <2>. SUFFICES ASSUME Init PROVE RetentionInv /\ RetentionBound
    OBVIOUS
  <2>1. keep \in Nat /\ run = 0 /\ ~Running /\ pc # "write"
    BY CheckpointsAssumption DEF Init, Running
  <2>2. \A g \in DOMAIN groups : saved[groups[g]] = <<>> /\ Len(saved[groups[g]]) = 0
    BY InitIInv, RetentionTypes DEF Init, IInv
  <2>3. \A s \in Steps : \A f \in Files : disk[s][f].by <= run
    BY DEF Init, Absent
  <2>4. \A group \in Groups : OwnFolders(group) = {}
    BY <2>1 DEF OwnFolders
  <2>5. \A group \in Groups : Cardinality(OwnFolders(group)) = 0
    BY <2>4, FS_EmptySet
  <2>6. RetentionInv
    BY <2>1, <2>2, <2>3 DEF RetentionInv
  <2>7. RetentionBound
    BY <2>1, <2>5 DEF RetentionBound
  <2>. QED BY <2>6, <2>7
<1>2. /\ IInv /\ RetentionInv /\ [Next]_vars => RetentionInv'
      /\ IInv /\ IInv' /\ RetentionInv /\ RetentionInv' /\ RetentionBound /\ [Next]_vars
           => RetentionBound'
  BY RetentionStep, BoundStep
<1>. QED BY <1>1, <1>2, Invariance, PTL DEF Spec
================================================================================
