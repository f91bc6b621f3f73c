------------------------------- MODULE FullyAsync -------------------------------
(***************************************************************************)
(* verl/experimental/fully_async_policy: a rollouter and a trainer, two    *)
(* Ray actors, joined by a third, the message queue.  The rollouter's      *)
(* coroutines (feed, processor, one task per sample, monitor, main, and    *)
(* the trainer's call of reset_staleness) share one event loop: between    *)
(* two of its awaits the processor runs alone.  The trainer and the queue  *)
(* take their steps at any time.                                           *)
(*                                                                         *)
(* Samples are numbered in the order they are fed; the feed is ahead of    *)
(* the processor, since what it can put into pending_queue it puts before  *)
(* any other coroutine runs.  A generation is one step, successful or not; *)
(* its text and reward are left out, as are validation and statistics.     *)
(***************************************************************************)
EXTENDS Integers, FiniteSets, SequencesExt

CONSTANTS
  Total,          \* total_rollout_steps
  Required,       \* required_samples: a training batch
  Trigger,        \* trigger_parameter_sync_step: batches per parameter version
  MaxRequired,    \* int(required * (staleness_threshold + 1) * trigger)
  MaxConcurrent,  \* max_concurrent_samples
  MayFail,        \* whether a generation may raise
  SaveFreq        \* trainer.save_freq

ASSUME FullyAsyncAssumption ==
  /\ {Total, Required, Trigger, MaxConcurrent, SaveFreq} \subseteq Nat \ {0}
  /\ MaxRequired \in Nat /\ MaxRequired >= Required * Trigger
  /\ MaxConcurrent <= MaxRequired
  /\ MayFail \in BOOLEAN

Samples == 1 .. Total
End     == Total + 1     \* the None that follows the last sample

VARIABLES
  \* the rollouter
  taken,        \* the entries the processor got from pending_queue
  proc,         \* where the processor is
  status,       \* the task of each sample
  active,       \* active_tasks; finished ones stay in it until a wait returns
  staleness,    \* staleness_samples
  paused, running,
  lock, want,   \* self.lock, and who waits for it besides the processor
  monitor,      \* where the monitor loop is
  main,         \* where _streaming_generation_main is
  \* the message queue
  queue, dropped,
  \* the trainer
  trainer,      \* where fit is
  batch,        \* queue_samples
  trained,      \* samples trained on
  step,         \* local_trigger_step
  version,      \* current_param_version
  count,        \* len(self.active_tasks), as reset_staleness read it
  ckpt          \* newest checkpoint: its name, and the batches trained then

rvars == <<taken, proc, status, active, staleness, paused, running, lock, want,
           monitor, main>>
qvars == <<queue, dropped>>
tvars == <<trainer, batch, trained, step, version, count, ckpt>>
asyncVars  == <<rvars, qvars, tvars>>

AsyncInit ==
  /\ taken = 0 /\ proc = "check"
  /\ status = [s \in Samples |-> "pending"]
  /\ active = {} /\ staleness = 0
  /\ paused = FALSE /\ running = TRUE
  /\ lock = "free" /\ want = {}
  /\ monitor = "poll" /\ main = "streaming"
  /\ queue = <<>> /\ dropped = {}
  /\ trainer = "collect" /\ batch = <<>> /\ trained = {}
  /\ step = 1 /\ version = 0 /\ count = 0
  /\ ckpt = [version |-> 0, batches |-> 0]

--------------------------------------------------------------------------------
\* put_sample: a full queue loses its oldest entry.
Put(item) ==
  IF Len(queue) >= MaxRequired
    THEN /\ queue' = Append(Tail(queue), item)
         /\ dropped' = dropped \cup {Head(queue)}
    ELSE /\ queue' = Append(queue, item)
         /\ UNCHANGED dropped

\* _should_pause_generation
ShouldPause == Len(queue) >= MaxRequired \/ staleness >= MaxRequired

LockFree == lock = "free" /\ want = {}

\* The processor runs until it awaits something that is not there.
Busy ==
  \/ proc \in {"check", "get"}
  \/ proc \in {"pause", "drain", "limit", "submit", "last_drain"} /\ LockFree

--------------------------------------------------------------------------------
ProcUnchanged ==
  UNCHANGED <<status, running, want, monitor, main, qvars, tvars>>

\* The top of the processor's loop.
Check ==
  /\ proc = "check"
  /\ proc' = IF paused \/ ShouldPause THEN "pause" ELSE "get"
  /\ UNCHANGED <<taken, active, staleness, paused, lock>> /\ ProcUnchanged

Pause ==
  /\ proc = "pause" /\ LockFree
  /\ paused' = TRUE
  /\ proc' = IF active = {} THEN "idle" ELSE "drain"
  /\ UNCHANGED <<taken, active, staleness, lock>> /\ ProcUnchanged

\* asyncio.wait on the active tasks, the lock held: to empty the rollouter before a
\* pause or at the end, or to get below the limit.
Wait ==
  /\ proc \in {"drain", "limit", "last_drain"} /\ LockFree
  /\ lock' = "processor"
  /\ proc' = CASE proc = "drain" -> "draining"
               [] proc = "limit" -> "limiting"
               [] OTHER          -> "last_draining"
  /\ UNCHANGED <<taken, active, staleness, paused>> /\ ProcUnchanged

Over == {s \in active : status[s] \in {"finished", "failed"}}

\* It returns with the tasks that are over; the exception of one ends the processor.
WaitReturns ==
  /\ proc \in {"draining", "limiting", "last_draining"} /\ Over # {}
  /\ lock' = "free"
  /\ active' = active \ Over
  /\ proc' = IF \E s \in Over : status[s] = "failed" THEN "failed"
             ELSE CASE proc = "draining"      -> IF active' = {} THEN "idle" ELSE "drain"
                    [] proc = "limiting"      -> "submit"
                    [] proc = "last_draining" ->
                         IF active' = {} THEN "done" ELSE "last_drain"
  /\ UNCHANGED <<taken, staleness, paused>> /\ ProcUnchanged

\* condition.wait, until a reset or the monitor has cleared paused.
Resume ==
  /\ proc = "idle" /\ ~paused /\ lock = "free"
  /\ proc' = "check"
  /\ UNCHANGED <<taken, active, staleness, paused, lock>> /\ ProcUnchanged

\* A sample waits for a task to end while there are too many.
NextSubmission == IF Cardinality(active) >= MaxConcurrent THEN "limit" ELSE "submit"

\* Faulty: the end signal is acted on while tasks are still generating.
GetEndAtOnce ==
  /\ proc = "get"
  /\ taken' = taken + 1
  /\ staleness' = staleness + 1
  /\ proc' = IF taken' = End THEN "done" ELSE NextSubmission
  /\ UNCHANGED <<active, paused, lock>> /\ ProcUnchanged

\* _feed_samples and pending_queue.get; every entry counts as stale from here, the end
\* signal too.
Get ==
  /\ proc = "get"
  /\ taken' = taken + 1
  /\ staleness' = staleness + 1
  /\ proc' = IF taken' # End THEN NextSubmission
             ELSE IF active = {} THEN "done" ELSE "last_drain"
  /\ UNCHANGED <<active, paused, lock>> /\ ProcUnchanged

Submit ==
  /\ proc = "submit" /\ LockFree /\ ~paused
  /\ active' = active \cup {taken}
  /\ status' = [status EXCEPT ![taken] = "generating"]
  /\ proc' = "check"
  /\ UNCHANGED <<taken, staleness, paused, running, lock, want, monitor, main,
                 qvars, tvars>>

Processor == Check \/ Pause \/ Wait \/ WaitReturns \/ Resume \/ Get \/ Submit

--------------------------------------------------------------------------------
TaskUnchanged ==
  UNCHANGED <<taken, proc, active, staleness, paused, running, lock, want,
              monitor, main, tvars>>

\* _process_single_sample_streaming: the sample reaches the queue before its task
\* knows ...
TaskPut(s) ==
  /\ status[s] = "generating"
  /\ status' = [status EXCEPT ![s] = "put"]
  /\ Put(s)
  /\ TaskUnchanged

\* ... and is over.
TaskEnds(s) ==
  /\ status[s] = "put" /\ ~Busy
  /\ status' = [status EXCEPT ![s] = "finished"]
  /\ UNCHANGED qvars /\ TaskUnchanged

TaskFails(s) ==
  /\ MayFail /\ status[s] = "generating" /\ ~Busy
  /\ status' = [status EXCEPT ![s] = "failed"]
  /\ UNCHANGED qvars /\ TaskUnchanged

Task(s) == TaskPut(s) \/ TaskEnds(s) \/ TaskFails(s)

--------------------------------------------------------------------------------
LoopUnchanged == UNCHANGED <<taken, proc, status, active, staleness, tvars>>

\* Faulty: no end signal after an exception.
SignalSuccess ==
  /\ main = "streaming" /\ proc = "done"
  /\ Put(End)
  /\ main' = "signalled"
  /\ UNCHANGED <<paused, running, lock, want, monitor>> /\ LoopUnchanged

\* Faulty: running is cleared by the exception path only.
StopAfterFailure ==
  /\ main = "failed" /\ lock = "free" /\ running
  /\ running' = FALSE
  /\ UNCHANGED <<paused, lock, want, monitor, main, qvars>> /\ LoopUnchanged

\* The end signal, after the processor or because it failed; the exception leaves
\* main without the rest.
Signal ==
  /\ main = "streaming" /\ proc \in {"done", "failed"}
  /\ Put(End)
  /\ main' = IF proc = "done" THEN "signalled" ELSE "failed"
  /\ UNCHANGED <<paused, running, lock, want, monitor>> /\ LoopUnchanged

Stop ==
  /\ main = "signalled" /\ lock = "free"
  /\ running' = FALSE /\ main' = "done"
  /\ UNCHANGED <<paused, lock, want, monitor, qvars>> /\ LoopUnchanged

\* _async_monitor_loop: under the lock, is the rollouter still running?  Every ten
\* seconds, should a pause end (which then waits for the lock)?
MonitorAsks ==
  /\ monitor \in {"poll", "resume"} /\ "monitor" \notin want /\ lock # "free" /\ ~Busy
  /\ want' = want \cup {"monitor"}
  /\ UNCHANGED <<paused, running, lock, monitor, main, qvars>> /\ LoopUnchanged

MonitorPolls ==
  /\ monitor = "poll" /\ lock = "free" /\ ~Busy
  /\ monitor' = IF running THEN "sleep" ELSE "done"
  /\ want' = want \ {"monitor"}
  /\ UNCHANGED <<paused, running, lock, main, qvars>> /\ LoopUnchanged

MonitorWakes ==
  /\ monitor = "sleep" /\ ~Busy
  /\ monitor' = IF paused /\ ~ShouldPause THEN "resume" ELSE "poll"
  /\ UNCHANGED <<paused, running, lock, want, main, qvars>> /\ LoopUnchanged

MonitorResumes ==
  /\ monitor = "resume" /\ lock = "free" /\ ~Busy
  /\ paused' = FALSE
  /\ monitor' = "poll" /\ want' = want \ {"monitor"}
  /\ UNCHANGED <<running, lock, main, qvars>> /\ LoopUnchanged

Monitor == MonitorAsks \/ MonitorPolls \/ MonitorWakes \/ MonitorResumes

--------------------------------------------------------------------------------

\* _get_samples_from_queue, a sample at a time; a None ends the training, and the
\* samples collected with it are not trained on.
Collect ==
  /\ trainer = "collect" /\ queue # <<>>
  /\ queue' = Tail(queue)
  /\ IF Head(queue) = End
       THEN /\ trainer' = "stopping" /\ UNCHANGED batch
       ELSE /\ batch' = Append(batch, Head(queue))
            /\ trainer' = IF Len(batch') = Required THEN "train" ELSE "collect"
  /\ UNCHANGED <<rvars, dropped, trained, step, version, count, ckpt>>

\* The rest of fit_step up to _fit_update_local_step.
Train ==
  /\ trainer = "train"
  /\ trained' = trained \cup ToSet(batch)
  /\ batch' = <<>>
  /\ IF step < Trigger
       THEN step' = step + 1 /\ UNCHANGED version /\ trainer' = "collect"
       ELSE step' = 1 /\ version' = version + 1 /\ trainer' = "sync"
  /\ UNCHANGED <<rvars, qvars, count, ckpt>>

\* _fit_update_weights has sent the weights and calls reset_staleness, ...
ResetAsks ==
  /\ trainer \in {"sync", "last_sync"} /\ "reset" \notin want /\ ~Busy
  /\ want' = want \cup {"reset"}
  /\ UNCHANGED <<taken, proc, status, active, staleness, paused, running, lock,
                 monitor, main, qvars, tvars>>

\* ... which holds the lock while it asks for the queue's size ...
ResetBegins ==
  /\ "reset" \in want /\ lock = "free" /\ ~Busy
  /\ lock' = "reset" /\ want' = want \ {"reset"}
  /\ paused' = FALSE
  /\ count' = Cardinality(active)
  /\ trainer' = IF trainer = "sync" THEN "resetting" ELSE "last_resetting"
  /\ UNCHANGED <<taken, proc, status, active, staleness, running, monitor, main,
                 qvars, batch, trained, step, version, ckpt>>

\* Faulty: only the queue is counted.
ResetEndsByQueue ==
  /\ lock = "reset" /\ ~Busy
  /\ lock' = "free"
  /\ staleness' = Len(queue)
  /\ count' = 0
  /\ trainer' = IF trainer = "resetting" THEN "save" ELSE "last_save"
  /\ UNCHANGED <<taken, proc, status, active, paused, running, want, monitor, main,
                 qvars, batch, trained, step, version, ckpt>>

\* ... and adds it to the tasks it found before.
ResetEnds ==
  /\ lock = "reset" /\ ~Busy
  /\ lock' = "free"
  /\ staleness' = count + Len(queue)
  /\ count' = 0
  /\ trainer' = IF trainer = "resetting" THEN "save" ELSE "last_save"
  /\ UNCHANGED <<taken, proc, status, active, paused, running, want, monitor, main,
                 qvars, batch, trained, step, version, ckpt>>

Batches == version * Trigger + step - 1

\* Faulty: no save at the end.
SaveUnforced ==
  /\ trainer \in {"save", "last_save"}
  /\ ckpt' = IF version # ckpt.version /\ version % SaveFreq = 0
             THEN [version |-> version, batches |-> Batches] ELSE ckpt
  /\ trainer' = IF trainer = "save" THEN "collect" ELSE "done"
  /\ UNCHANGED <<rvars, qvars, batch, trained, step, version, count>>

\* _fit_save_checkpoint: not twice for one version; every SaveFreq versions, and at
\* the end.
Save ==
  /\ trainer \in {"save", "last_save"}
  /\ ckpt' = IF version # ckpt.version
                /\ (trainer = "last_save" \/ version % SaveFreq = 0)
             THEN [version |-> version, batches |-> Batches] ELSE ckpt
  /\ trainer' = IF trainer = "save" THEN "collect" ELSE "done"
  /\ UNCHANGED <<rvars, qvars, batch, trained, step, version, count>>

\* After the loop: _fit_update_weights does nothing in the middle of a version, and
\* whether it is called depends on test_freq.
LastUpdate ==
  /\ trainer = "stopping"
  /\ trainer' \in IF step = 1 THEN {"last_sync", "last_save"} ELSE {"last_save"}
  /\ UNCHANGED <<rvars, qvars, batch, trained, step, version, count, ckpt>>

Trainer == Collect \/ Train \/ ResetAsks \/ ResetBegins \/ ResetEnds \/ Save \/ LastUpdate

--------------------------------------------------------------------------------
\* Both fits have returned, or, after an exception in the rollouter, one of them.
Finished ==
  /\ trainer = "done" /\ \A s \in active : status[s] \notin {"generating", "put"}
  /\ monitor = "done"
  /\ UNCHANGED asyncVars

AsyncNext ==
  \/ Processor \/ \E s \in Samples : Task(s)
  \/ Signal \/ Stop \/ Monitor
  \/ Trainer
  \/ Finished

\* The loop resumes what is ready, generations and training steps end, and a lock is
\* handed on.
AsyncSpec ==
  /\ AsyncInit /\ [][AsyncNext]_asyncVars
  /\ WF_asyncVars(Processor) /\ \A s \in Samples : WF_asyncVars(Task(s))
  /\ WF_asyncVars(Signal) /\ WF_asyncVars(Stop) /\ WF_asyncVars(Monitor)
  /\ WF_asyncVars(Collect) /\ WF_asyncVars(Train) /\ WF_asyncVars(ResetAsks \/ ResetBegins \/ ResetEnds)
  /\ WF_asyncVars(Save) /\ WF_asyncVars(LastUpdate)

--------------------------------------------------------------------------------
Generating == {s \in Samples : status[s] = "generating"}
Queued     == ToSet(queue) \ {End}
Held       == IF proc \in {"limit", "limiting", "submit"} THEN 1 ELSE 0

\* Samples of the version being trained: waiting, under way, or consumed for it.
InVersion == Cardinality(Generating) + Cardinality(Queued) + Held + Len(batch) +
             (step - 1) * Required

\* Between two parameter updates at most (1 + staleness_threshold) * trigger *
\* required samples are under way, with those left over from before (README.md:138 of
\* fully_async_policy), and one more: the sample the processor holds while it waits
\* for the lock is in neither of the numbers reset_staleness adds up.
RolloutBound == InVersion <= MaxRequired + 1

\* No sample is trained on twice, or while a copy of it is still queued; and when the
\* end signal has stopped the trainer, every sample has been trained on but for the
\* last, incomplete batch and what a full queue dropped: the signal overtakes no
\* sample still being generated.
TrainedOnce ==
  /\ IsInjective(batch \o queue)
  /\ (ToSet(batch) \cup ToSet(queue)) \cap trained = {}
  /\ trainer = "done" /\ main # "failed" =>
       /\ Samples \subseteq trained \cup ToSet(batch) \cup dropped
       /\ Len(batch) < Required

\* The last checkpoint of a training that ended lacks less than one version's batches
\* ("It's the last training step", fully_async_trainer.py:613; batches after the last
\* update of a version already saved are not saved).
CheckpointLag == trainer = "done" => Batches - ckpt.batches < Trigger

\* The trainer's fit returns, also when a generation raises: the end signal comes, and
\* no pause outlasts the samples the trainer waits for.
TrainerEnds == <>(trainer = "done")

\* The rollouter's fit returns unless a generation raised: then running stays set, and
\* fit waits for the monitor loop without end.
FitEnds == <>(monitor = "done" \/ main = "failed")
================================================================================
