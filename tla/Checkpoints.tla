------------------------------ MODULE Checkpoints ------------------------------
(***************************************************************************)
(* The checkpoints of trainer/ppo/ray_trainer.py and their FSDP manager    *)
(* (utils/checkpoint).  The ranks of the actor's worker group, then those  *)
(* of the critic's, write their shards side by side; the driver writes the *)
(* dataloader's state, and last the tracker file that names the newest     *)
(* step.  The training may be killed between any two steps and started     *)
(* again with any resume_mode; what a manager remembers of its saves       *)
(* (previous_saved_paths) dies with it.                                    *)
(*                                                                         *)
(* The model, optimizer and extra-state files of a rank are one shard,     *)
(* half written between the first byte and the last; its content is the    *)
(* number of the process that wrote it.  Files kept under                  *)
(* global_step_N/huggingface are left out: a resume does not read them.    *)
(***************************************************************************)
EXTENDS Integers, FiniteSets, SequencesExt

CONSTANTS
  Ranks,        \* ranks of a worker group, 0 among them
  Groupings,    \* values of <<"actor">> and <<"actor", "critic">> (use_critic)
  Keeps,        \* values of max_{actor,critic}_ckpt_to_keep, 0 standing for null
  ResumeModes,  \* values of resume_mode: of "auto", "disable", "resume_path"
  EsiClose,     \* what should_save_ckpt_esi may answer
  SaveFreq, CriticWarmup,
  TotalSteps,   \* total_training_steps
  DataSteps,    \* len(train_dataloader) * total_epochs
  MaxRuns       \* bound: processes started

ASSUME CheckpointsAssumption ==
  /\ Ranks \subseteq Nat /\ 0 \in Ranks /\ IsFiniteSet(Ranks)
  /\ Groupings \subseteq {<<"actor">>, <<"actor", "critic">>}
  /\ Keeps \subseteq Nat
  /\ ResumeModes \subseteq {"auto", "disable", "resume_path"}
  /\ EsiClose \subseteq BOOLEAN
  /\ SaveFreq \in Nat \ {0} /\ CriticWarmup \in Nat
  /\ TotalSteps \in Nat /\ DataSteps \in Nat /\ TotalSteps <= DataSteps
  /\ MaxRuns \in Nat

Steps == 1 .. DataSteps

VARIABLES
  groups, keep,  \* the configuration, the same in every process
  disk,          \* global_step_N: its files
  tracker,       \* latest_checkpointed_iteration.txt
  pc, run, mode, \* what the process is doing, its number, its resume_mode
  step,          \* global_steps: the last step trained
  part,          \* the part of the checkpoint being saved: a group's position
  saved,         \* previous_saved_paths of each group's manager
  furthest,      \* the furthest step trained by any process
  forced         \* whether a process was started otherwise than by "auto"

config == <<groups, keep>>
files  == <<disk, tracker>>
vars   == <<config, files, pc, run, mode, step, part, saved, furthest, forced>>

None     == 0    \* no tracker file
TornFile == -1   \* an empty one

Absent    == [by |-> 0, whole |-> FALSE]
Half(by)  == [by |-> by, whole |-> FALSE]
Whole(by) == [by |-> by, whole |-> TRUE]

DataFile       == <<"data", 0>>
Shards(group)  == {group} \X Ranks
Groups         == {groups[g] : g \in DOMAIN groups}
Files          == ({"actor", "critic"} \X Ranks) \cup {DataFile}

HasFolder(s) == \E f \in Files : disk[s][f] # Absent

Running == pc \notin {"off", "failed", "done"}

Init ==
  /\ groups \in Groupings /\ keep \in Keeps
  /\ disk = [s \in Steps |-> [f \in Files |-> Absent]]
  /\ tracker = None
  /\ pc = "off" /\ run = 0 /\ mode = "auto" /\ step = 0 /\ part = 1
  /\ saved = [g \in {"actor", "critic"} |-> <<>>]
  /\ furthest = 0 /\ forced = FALSE

--------------------------------------------------------------------------------
NoMemory == step' = 0 /\ part' = 1 /\ saved' = [g \in {"actor", "critic"} |-> <<>>]

\* A process starts, with a step of its own choice if resume_mode is resume_path; the
\* managers it builds remember no save.
Start ==
  /\ ~Running /\ run < MaxRuns
  /\ run' = run + 1
  /\ mode' \in ResumeModes
  /\ mode' = "resume_path" => \E s \in Steps : HasFolder(s)
  /\ forced' = (forced \/ (mode' # "auto" /\ run > 0))
  /\ pc' = "load" /\ NoMemory
  /\ UNCHANGED <<config, files, furthest>>

Crash ==
  /\ Running
  /\ pc' = "off" /\ NoMemory
  /\ UNCHANGED <<config, files, run, mode, furthest, forced>>

\* load_checkpoint of every rank of every group: each reads its own shard.
GroupLoads(s, group) == \A f \in Shards(group) : disk[s][f].whole

\* ... and the driver the dataloader's state, if there is such a file.
Loads(s) ==
  /\ \A group \in Groups : GroupLoads(s, group)
  /\ disk[s][DataFile].whole \/ disk[s][DataFile] = Absent

\* _load_checkpoint raises on a missing or torn shard.
LoadAt(s) ==
  /\ pc' = IF Loads(s) THEN "train" ELSE "failed"
  /\ step' = s

\* find_latest_ckpt_path is called before resume_path is looked at, and chokes on an empty
\* tracker file in either mode.
Load ==
  /\ pc = "load"
  /\ \/ /\ mode = "disable" \/ (mode = "auto" /\ tracker = None)
        /\ pc' = "train" /\ UNCHANGED step
     \/ /\ mode # "disable" /\ tracker = TornFile
        /\ pc' = "failed" /\ UNCHANGED step
     \/ mode = "auto" /\ tracker \in Steps /\ LoadAt(tracker)
     \/ /\ mode = "resume_path" /\ tracker # TornFile
        /\ \E s \in Steps : HasFolder(s) /\ LoadAt(s)
  /\ UNCHANGED <<config, files, run, mode, part, saved, furthest, forced>>

--------------------------------------------------------------------------------

SaveDue(s, esi) ==
  s >= CriticWarmup /\ (s >= TotalSteps \/ s % SaveFreq = 0 \/ esi)

\* After the last step fit returns.
AfterStep(s) == IF s >= TotalSteps THEN "done" ELSE "train"

Train ==
  /\ pc = "train" /\ step < DataSteps
  /\ step' = step + 1
  /\ furthest' = IF step' > furthest THEN step' ELSE furthest
  /\ \E esi \in EsiClose :
       pc' = IF SaveDue(step', esi) THEN "make_room" ELSE AfterStep(step')
  /\ part' = 1
  /\ UNCHANGED <<config, files, run, mode, saved, forced>>

\* The epochs are over already when the process resumes at their end.
NoDataLeft ==
  /\ pc = "train" /\ step = DataSteps
  /\ pc' = "done"
  /\ UNCHANGED <<config, files, run, mode, step, part, saved, furthest, forced>>

--------------------------------------------------------------------------------
\* remove_previous_save_local_path: the group's folder of each of these steps.
Removed(group, steps) ==
  [s \in Steps |-> IF s \in steps
                     THEN [f \in Files |-> IF f[1] = group THEN Absent ELSE disk[s][f]]
                     ELSE disk[s]]

\* The managers' path lists keep their last n entries, the others' folders go.
KeepLast(group, paths, n) ==
  LET cut == IF Len(paths) > n THEN Len(paths) - n ELSE 0
  IN  /\ disk' = Removed(group, ToSet(SubSeq(paths, 1, cut)))
      /\ saved' = [saved EXCEPT ![group] = SubSeq(paths, cut + 1, Len(paths))]

\* Faulty: room is made for max_ckpt_to_keep = 1 too, before the new save.
MakeRoomAlways ==
  /\ pc = "make_room"
  /\ LET group == groups[part]
     IN  IF keep > 0 /\ Len(saved[group]) >= keep
           THEN KeepLast(group, saved[group], keep - 1)
           ELSE UNCHANGED <<disk, saved>>
  /\ pc' = "write"
  /\ UNCHANGED <<config, tracker, run, mode, step, part, furthest, forced>>

\* Faulty: room for one more than the new save.
MakeRoomForTwo ==
  /\ pc = "make_room"
  /\ LET group == groups[part]
     IN  IF keep > 1 /\ Len(saved[group]) >= keep - 1
           THEN KeepLast(group, saved[group], keep - 2)
           ELSE UNCHANGED <<disk, saved>>
  /\ pc' = "write"
  /\ UNCHANGED <<config, tracker, run, mode, step, part, furthest, forced>>

\* ensure_checkpoint_capacity, by rank 0, before the barrier.
MakeRoom ==
  /\ pc = "make_room"
  /\ LET group == groups[part]
     IN  IF keep > 1 /\ Len(saved[group]) >= keep
           THEN KeepLast(group, saved[group], keep - 1)
           ELSE UNCHANGED <<disk, saved>>
  /\ pc' = "write"
  /\ UNCHANGED <<config, tracker, run, mode, step, part, furthest, forced>>

\* A file is opened, which empties it, and then written.
WriteFile(s, f) ==
  disk' = [disk EXCEPT ![s][f] = IF @ = Half(run) THEN Whole(run) ELSE Half(run)]

WriteShard(rank) ==
  /\ pc = "write"
  /\ LET f == <<groups[part], rank>>
     IN  disk[step][f] # Whole(run) /\ WriteFile(step, f)
  /\ UNCHANGED <<config, tracker, pc, run, mode, step, part, saved, furthest, forced>>

\* Faulty: rank 0 does not wait for the others.
WrittenByRank0 == disk[step][<<groups[part], 0>>] = Whole(run)

\* Every rank has reached the barrier after its writes.
Written == \A f \in Shards(groups[part]) : disk[step][f] = Whole(run)

\* Faulty: as if one more were to be kept.
RegisterSpare(group) ==
  LET paths == Append(saved[group], step)
  IN  IF keep > 0
        THEN KeepLast(group, paths, keep + 1)
        ELSE saved' = [saved EXCEPT ![group] = paths] /\ UNCHANGED disk

\* register_checkpoint
RegisterPath(group) ==
  LET paths == Append(saved[group], step)
  IN  IF keep > 0
        THEN KeepLast(group, paths, keep)
        ELSE saved' = [saved EXCEPT ![group] = paths] /\ UNCHANGED disk

\* Rank 0 registers the save; the driver turns to the next group, or to its own files.
Register ==
  /\ pc = "write" /\ Written
  /\ RegisterPath(groups[part])
  /\ IF part < Len(groups)
       THEN part' = part + 1 /\ pc' = "make_room"
       ELSE pc' = "data" /\ UNCHANGED part
  /\ UNCHANGED <<config, tracker, run, mode, step, furthest, forced>>

WriteData ==
  /\ pc = "data"
  /\ WriteFile(step, DataFile)
  /\ pc' = IF disk[step][DataFile] = Half(run) THEN "open_tracker" ELSE "data"
  /\ UNCHANGED <<config, tracker, run, mode, step, part, saved, furthest, forced>>

\* open(..., "w") empties the tracker file, ...
OpenTracker ==
  /\ pc = "open_tracker"
  /\ tracker' = TornFile
  /\ pc' = "write_tracker"
  /\ UNCHANGED <<config, disk, run, mode, step, part, saved, furthest, forced>>

\* ... write fills it.
WriteTracker ==
  /\ pc = "write_tracker"
  /\ tracker' = step
  /\ pc' = AfterStep(step)
  /\ UNCHANGED <<config, disk, run, mode, step, part, saved, furthest, forced>>

Next ==
  \/ Start \/ Load \/ Train \/ NoDataLeft
  \/ MakeRoom \/ (\E rank \in Ranks : WriteShard(rank)) \/ Register
  \/ WriteData \/ OpenTracker \/ WriteTracker
  \/ Crash

Spec == Init /\ [][Next]_vars

--------------------------------------------------------------------------------
ConfigTypes == groups \in Groupings /\ part \in 1 .. Len(groups) /\ keep \in Keeps

DiskType == disk \in [Steps -> [Files -> [by : 0 .. MaxRuns, whole : BOOLEAN]]]

SavedType == saved \in [{"actor", "critic"} -> Seq(Steps)]

ProcessTypes ==
  /\ tracker \in Steps \cup {None, TornFile}
  /\ pc \in {"off", "load", "failed", "train", "make_room", "write", "data",
             "open_tracker", "write_tracker", "done"}
  /\ run \in 0 .. MaxRuns /\ mode \in ResumeModes \cup {"auto"}
  /\ step \in 0 .. DataSteps /\ furthest \in 0 .. DataSteps /\ forced \in BOOLEAN

TypeOK == ConfigTypes /\ DiskType /\ SavedType /\ ProcessTypes

\* Every file of the checkpoint, the dataloader's state too, is whole and was written
\* by one process.
OneSave(s) ==
  \E by \in 1 .. MaxRuns :
    /\ \A group \in Groups : \A f \in Shards(group) : disk[s][f] = Whole(by)
    /\ disk[s][DataFile] = Whole(by)

\* What the tracker names is one whole checkpoint, at every point a crash may hit, as
\* long as every restart follows the tracker and more than one checkpoint is kept.
\* (With max_ckpt_to_keep = 1 the named one is removed before the tracker moves on.)
TrackedLoadable ==
  tracker \in Steps /\ keep # 1 /\ ~forced => OneSave(tracker)

\* Whatever is kept, no group's weights are ever lost: those of the step the tracker
\* names, or newer ones, are whole on disk, if only in another checkpoint's folder.
WeightsKept ==
  tracker \in Steps /\ ~forced =>
    \A group \in Groups : \E s \in tracker .. DataSteps : GroupLoads(s, group)

\* The folders of a group that this process wrote are at most max_ckpt_to_keep, and
\* the one being written if that is 1.
OwnFolders(group) ==
  {s \in Steps : \E f \in Shards(group) : run > 0 /\ disk[s][f].by = run}
RetentionBound ==
  keep > 0 => \A group \in Groups :
    Cardinality(OwnFolders(group)) <= (IF keep = 1 THEN 2 ELSE keep)

\* A resumed process does not train on a mixture: the shards of all ranks, the critic's
\* and the dataloader's state were saved together, even if an interrupted save of the
\* same step lay in the folder.  And a crash costs at most the steps since the last save
\* but one: every save due by frequency before the furthest step trained is behind the
\* step a process resumes from.
ResumesLatestSave ==
  [][pc = "load" /\ pc' = "train" /\ ~forced =>
       /\ step' # 0 => OneSave(step')
       /\ \A s \in 1 .. furthest - 1 :
            s >= CriticWarmup /\ s % SaveFreq = 0 => s <= step']_vars
===============================================================================
