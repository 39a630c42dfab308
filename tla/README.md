# A formal model of mlx-smolvla

TLA+ specifications of `mlx-smolvla`, checked with TLC and proved with TLAPS.
The repository runs the SmolVLA robot policy on Apple's MLX: a library that
predicts chunks of robot actions, a gRPC server that serves them to LeRobot
clients, a supervised client for a real arm, and a LoRA trainer.

`PROJECT.json` lists components, runs, mutants, the source lines each definition
stands for, findings, hazards and theorems.

## The system

| component | state it keeps | operations | what is hard |
| --- | --- | --- | --- |
| policy server (`mlx_smolvla/server.py`) | served policy, session generation, one-item observation queue, receipts, predicted timesteps, last processed observation, prediction index, two locks, latency log | `Ready`, `SendPolicyInstructions`, `SendObservations`, `GetActions`, `stop` | worker threads; a queue read outside the lock; cancellation in every wait; sessions that change under a call; shutdown |
| hardware safety (`mlx_smolvla/hardware_safety.py`) | start pose, counters, stop reason | `evaluate`, `__enter__`, `process_chunk`, `record_timeout`, `__exit__` | any I/O may fail; cleanup of cleanup; caps |
| robot client (`mlx_smolvla/hiwonder_client.py`) | armed flag, last write time, servo registers | `prepare_motion`, `write_positions`, `disable_torque`, `close`, `run_control_loop` | stale servo registers; interrupts between statements |
| policy facade (`mlx_smolvla/policy.py`) | action FIFO, converted-weights cache on disk | `from_pretrained`, `select_action`, `reset` | processes that fill and read one cache without a lock |
| conversion, cache clean-up (`convert.py`, `cache_cleanup.py`) | a tensor file and a name map | `convert_checkpoint`, `validate_converted_checkpoint`, clean-up | two files replaced one after the other, read by their names |
| state files (`training/finetune.py`) | one JSON document per name, hidden staged and previous generations | `write_run_state`, restore, quarantine | a name is free between two renames; failures of cleanups |
| checkpoint store (`training/finetune.py`) | checkpoint directories, `latest.json` | save, load, prune, recover | crashes between any two renames; replaced, damaged and unrecorded checkpoints |
| launched LoRA loop (`training/finetune.py`) | optimizer and RNG state, run document, metrics, process identity, log, adapter, lock | run, resume, reconcile, export | resume after a crash between any two of its renames, with one unrecorded checkpoint allowed |
| frozen inputs (`training/finetune.py`, `runtime_provenance.py`) | `launch.json`; in the process: views of files, imported modules, held artifacts | prepare a launch, collect evidence, hash the implementation, bind a run | files that change between two reads; modules that are imported late |
| managed runs (`training/ux.py`) | run directory, metrics file | `run_training`, resume, final export | metrics and checkpoint may disagree after a crash; interrupts inside a save |
| merged export (`training/export.py`) | staged directory, manifest, export | build, publish, quarantine, validate | directories and bytes that others put in the way |
| self-consistency floor (`training/self_consistency.py`) | variants, input hashes, floor report | floor run, worker, assembly | racing and killed runs; variants that are taken over; inputs that change |
| comparison and verdict (`training/evaluation.py`, `trained_parity.py`) | start marker, outcome, comparison, verdict | mark, score, judge | four commands in a prescribed order, on a clock that may be set back |
| training data artifacts (`training/data.py`) | staged files | publish | partial publication |
| datasets (`training/dataset.py`) | none | split, batch order | off-by-one |
| optimizer, LoRA, inference core, native kernels | none that is shared | tensor arithmetic | floating point |
| stage parity, lockstep training | none | compare | numerical |
| command line, benchmarks, scripts, references | none | one-shot tools | - |

The robot client calls the server's four RPCs; the server calls the policy facade
under its inference lock; the facade converts checkpoints that the trainer
exported.  Both training loops keep their documents in state files and their
checkpoints in the checkpoint store.  A launch is prepared once and bound by every
process of its run; the export is what the run leaves.  The floor is measured on that
export, the comparison scores it (natively through the conversion cache, and with
the reference policy), and the verdict joins both.  Nothing else is shared at run time.

What makes each correct:

- *server*: a client gets chunks of its own session and policy only; the newest
  observation wins and none is predicted twice; receipts and log lines belong to
  the chunks they describe; a cancelled call or a shutdown ends every wait;
- *session and client*: energized motors never move farther than one step at a
  time nor beyond the caps; every end leaves the torque off or says that it could
  not; a no-motion session writes nothing; a session ends;
- *state files*: for a reader that restores first, publishing is atomic, and no
  crash leaves it two generations to choose from;
- *checkpoint store*: nothing saved is lost before something newer is in place, the
  pointer names what is there, and at most the retained checkpoints accumulate;
- *frozen inputs, export*: what a launch commits to existed at one moment; what is
  trained and exported was computed from that and nothing else; a change is refused,
  and nothing the process does itself is taken for one;
- *floor, comparison, verdict*: a verdict compares scores with a floor of the very same
  inputs, measured before the first inference; the scores are of the validated weights;
- *training runs*: after a crash anywhere, the run resumes from its recorded
  checkpoint, on the same trajectory, with the metrics of exactly the steps before it.

## Modules

| module | what it is |
| --- | --- |
| `PolicyServer` | the server's handlers, one action per statement that reads or writes shared state |
| `ObservationMailbox` | what the server promises, without threads, locks or queues |
| `PolicyServerRefinement` | the refinement mapping between them |
| `PolicyServer_proofs` | the inductive invariant; sessions, locks, queues, seeds and the log; that the server implements the mailbox |
| `MCPolicyServer` | constants for TLC |
| `HardwareSession` | one session of the robot client, with every failure point |
| `HardwareSession_proofs` | torque, travel and return, for any caps, ranges and failures |
| `MCHardwareSession` | constants for TLC |
| `StateFiles` | how one document is published: every rename, and what an exception leaves; no `Next` |
| `StateFileRecovery` | a launched run's documents over killed processes: restore, quarantine, publish |
| `StateRegister` | what that promises: a register per name |
| `StateFileRecovery_proofs` | the inductive invariant, the refinement, and their proofs |
| `CheckpointStore` | saving, loading and pruning checkpoints, on `StateFiles`; no `Next` |
| `CheckpointCalls` | the store under any caller that saves in order |
| `CheckpointCalls_proofs` | that the store keeps what was saved and what its pointer names |
| `PublicTraining` | a managed run over the processes that start and resume it, on `CheckpointStore` |
| `PublicTraining_proofs` | the record, the trajectory, and that the run implements `ResumableRun` |
| `ResumableRun` | what a resumable run promises of its record |
| `LaunchStartup` | how a process of a launched run takes over its directory, on `CheckpointStore`; no `Next` |
| `LaunchedRun` | the launched run over its processes, to the final document |
| `RestartableRun` | what a resumable run promises that may start over from its first checkpoint |
| `LaunchedRun_proofs` | record, identities, trajectory, metrics and evidence, and that the run implements `RestartableRun` |
| `FrozenInputs` | collecting the inputs and hashing the code, read by read; no `Next` |
| `MergedExport` | the export's directories; no `Next` |
| `LaunchBinding` | `launch.json` and the processes that bind it, on both |
| `LaunchBinding_proofs` | that collected evidence is of one moment, and what a completed run was made of |
| `ConversionCache` | processes that convert, load and validate; no `Next` |
| `SelfConsistencyFloor` | floor runs and their workers; no `Next` |
| `ParityEvidence` | marker, comparison and verdict, on both |
| `ParityEvidence_proofs` | what floor reports name, and what a verdict compared |
| `MCCheckpointCalls`, `MCPublicTraining`, `MCLaunchedRun`, `MCLaunchBinding`, `MCParityEvidence` | constants for TLC |

### PolicyServer

A worker thread runs one handler at a time.  `call[w]` is the handler's control
point and its locals: whether the RPC is still active, the observation in its
hands, the generation it captured, the queue object it read, the policy and the
seed.  A section under the state lock is one action, because nothing else reads or
writes what it protects - with one exception: a waiting `GetActions` takes from the
queue without the state lock.  So an enqueue is split at each of its queue calls
(`SendFilter`, `SendDrop`, `SendPut`), and holding the state lock across them is
explicit (`stateLock`).  The unlocked assignment of `last_processed_obs`
(`GetPrepare`) and the unlocked read of `self.observation_queue` (`GetPoll`) are
actions of their own.

`_clear_episode_state` increments the generation and replaces the queue in one
section, so `queue[g]` stands for the queue object created by generation `g`;
`call[w].source` is the reference a waiter holds, possibly stale.  Aborts raise, so
an abort is the end of the handler through its `finally`.  Validation of setups,
streams, pickles and features is an accept-or-reject choice: it happens before any
state changes.  A loader or a prediction may raise.  `accepted`, `newest` and
`delivered` are history variables; no guard reads them.

The refinement maps an observation that waits to a mailbox slot, one in a
worker's hands to the claim, and the session test after the prediction to the
commit.  The slot of an observation being put is filled when its sender has made
room for it, since nobody can come between.

### HardwareSession

The client is one thread.  Each bus, camera or RPC call may work or raise, with or
without its physical effect, up to `MaxFaults` times; `Interrupt` is a signal before
any statement in `InterruptPoints`.  An exception turns into the script of cleanup
attempts that the enclosing handlers make (`todo`); what fails is collected in
`errors`.  The servo keeps its goal register across sessions, may energize itself
on a goal write, and moves towards its goal when energized: to it (`exact`) or
anywhere on the way.  The envelope treats joints independently, so one joint
with integer positions stands for all.

### StateFiles, StateFileRecovery

A publication (`pub`) stages a hidden file, sets the present generation aside,
renames the staged file to the name and removes the old generation; each is one
action.  Hidden names are random, so `staged[n]` counts files and `previous[n]` is the
sequence of generations set aside.  A failing publication removes its staged file and
may or may not put the old generation back: the handler around the second rename does,
an interrupt just before it does not.  `StateFileRecovery` is a launched run: a process
restores, sweeps, then publishes what it is bound to (`persist_run_state` compares the
inode and bytes it last saw), and may stop at any moment.

### CheckpointStore, CheckpointCalls

`dirs` is the set of directories under the checkpoint root, known by kind (published,
staged, discarded, moved to recovery, being pruned), step and the process that built
them - two processes give a step different elapsed times, hence different hashes.
`op` is the call in progress.  A save checks the whole directory, stages, then
discards (an equal checkpoint is there), replaces (a different one is) or publishes;
then, like a load, it writes the pointer through `StateFiles` and prunes.  A load refuses
what the recorded checkpoint and the save cadence do not explain
(`Trajectories`), and moves a damaged unrecorded checkpoint aside when the caller
allows that step.  Reading back and hashing what was just written is not modelled; a
damaged checkpoint (`whole = FALSE`) appears only between calls.  `CheckpointCalls`
lets any process call with any arguments, except that it saves only into a directory
that was empty or that it has loaded from, and in order, as both loops do.

### PublicTraining

`pc` is the statement of `_run_training_impl`; at the `PersistPoints` the document `mem` is
being written to `run.json`.  `net` counts the updates each part of the trajectory has
seen (weights, optimizer, sampler, and what was drawn from the one random stream: `flow`
for the flow noise and `masks` for the dropout); a resume starts from a fresh
process and sets them from the checkpoint.  It draws the flow noise of the earlier updates again
(finetune.py:184-191), but no dropout mask (lora.py:87): `Loaded` leaves `masks` at 0.  `Dropout` says
whether the adapters have a dropout above zero, which `LoRATrainingConfig` allows; the default, and
the frozen value of launched runs (finetune.py:110), is 0.0.  The runs take it as `FALSE`, the
trajectory is claimed for that case alone, and everything else is proved for both.  `rows` is `metrics.csv`, each row known by the
process that wrote it (a row is appended whole).  Only the loop has a handler, so an
exception elsewhere ends the process as a kill does.  A refused resume changes nothing
and is no step.  The refinement reads `run.json` as a restoring reader would, because the
generation set aside is all a kill between two renames leaves; that a managed run does
not restore it is what `RunDocumentSurvives` says (below).

### LaunchStartup, LaunchedRun

`pc` is again the statement of the process, `build` its number; `mem` is `run_document`,
`bound` what `persist_run_state` compares `run.json` with.  The documents (`run.json`,
`training.pid`, the log, the budget, `metrics.csv`, `latest.json`) are published and restored as
in `StateFiles`.  Start-up follows the code's order: lock, restore what was set aside, the
log, then either clear what a process without `run.json` left, or find the process
identity, sweep the hidden leftovers, and load - or, if no checkpoint was recorded,
move everything aside and start over.  Leftovers are renamed into recovery
directories; of those only what is read again is kept (`pids`, `tails`, `moved`).  The
metrics file is a sequence of rows known by their writer; it is copied to a free
name before it is cut back.  The lock is exclusive, so there is one process.

After a checkpoint the process writes `run.json`, looks once more at the checkpoint it names
(finetune.py:9231-9247, 12272-12277), and only then takes the document over (12278).  What is raised
in between is handled by writing the older `last_checkpoint` back (12282-12299): the publication has been
bound, so the handler is let to, and `PublishingFails` at `done` has both outcomes.  `run.json`
then names a checkpoint older by one than it named before; the next load finds the newer one, whole
and published, and takes it.  `Continued`, what the next process continues from, is therefore the
newest published checkpoint of a run with a recorded one, and it is `Continued` that moves
forward.  Put back by the handler to no checkpoint at all, a run starts over from nothing; that
happens only after its first checkpoint, of step 1, which is what `RestartableRun` allows beyond
`ResumableRun`.

The last process is not killed and none of its calls raises, so that `Completes` can ask for
the end.  The frozen settings (checkpoints every 100 of 3000 steps, three
retained) are the assumption `LaunchConstants`: with an interval of one,
`_next_checkpoint_staging_step` would expect step 1 after step 1, and TLC finds
that no resume is accepted then - a setting no launch can have.

### FrozenInputs, MergedExport, LaunchBinding

A file or module is the number of times it was written, so bytes that were replaced
never come back: a dataset that is replaced and restored between two collections is
not covered.  One read of a file is one step; a collection reads them all, uses them,
and reads them all again.  `moment` is a history variable: what the files held when the
checks on the first view were done.  `Late` modules are imported only while the
implementation is hashed; `expected` is what the guarded loader found at the start.
The dataset, the source checkpoint, the native base, the tokenizer, the evaluation report
and the conversion are the files; the native tokenizer and the base report are
read like the tokenizer and the evaluation, and left out.  `Exact` are the
versions of the conversion that hold the same weights as the native base.

`live` is what the components were built from, `used` what the updates were, `private` the
copies the export reads, `held` the artifacts a process has bound and compares before
each publication of `run.json`; `foreign` those that another program has replaced.  The
checkpoints and documents are abstracted to one of each, because `LaunchedRun` has
their renames.  A run whose checkpoint, metrics or adapter was replaced is not taken up
again.

### ConversionCache, SelfConsistencyFloor, ParityEvidence

The export and the tokenizer snapshot are the two inputs that may change: cases and
dataset are pinned to digests in the code.  A tensor file of the cache is the version it
was made from, or nothing; `name_map.json` the pair of versions it names.  Each `Loaders` process runs
`from_pretrained`; `Scorer` is the one inside the comparison.  What the floor's workers and the
reference policy (`ScoreTorch`) read is the pinned snapshot and the export.  The native policy is loaded
without a `tokenizer_dir` (evaluation.py:1879, 1915) and takes its tokenizer from `native_cache/hf`
(policy.py:117-125): no floor, comparison or verdict hashes that directory, so `read` leaves it
out and no property speaks of it.  A floor run
hashes the inputs, starts a worker for each variant that is not there, reads what the
worker left, hashes again and writes the report; a killed run leaves its worker
behind.  Scores are what they were computed from.  `clock` is `time.time_ns`, which
goes on, stands still, and may be set back.  A file that is written again is known by
its content, time and writer (the inode the code compares).  `under` is a
history variable: the floor in place at the comparison's first inference.

## Runs

| run | question | bounds |
| --- | --- | --- |
| `ServerSafety` | the queue, sessions, policies, log lines and seeds under senders, waiters, cancellations and resets; refinement of the mailbox | 3 workers, 2 observations, 2 policies, 2 resets, log and seed on |
| `ServerLiveness` | ends of cancelled calls, the lock and the shutdown | 2 workers, 2 observations, 1 reset, no symmetry |
| `SessionSafety` | failures, limits, cleanup and termination | all 32 kinds of session, 3 chunks, 2 timeouts, 2 faults |
| `ServerEnqueueRace` | a statement of the repository that the server does not keep | 2 workers, 2 observations, 1 reset |
| `StateFiles` | two documents' publication over kills and failures; refinement of a register | 2 documents of 3 contents, any number of processes |
| `CheckpointCalls` | the checkpoint directory under kills, failures, damage | steps 1 to 4, a checkpoint each, 2 retained, 2 builders, 1 damaged checkpoint |
| `PublicSafety` | one managed run, killed and interrupted anywhere; refinement of a resumable run | 4 steps, checkpoints at 1, 2 and 4, 2 retained, 3 processes, no dropout |
| `PublicInterruptedSave` | a statement that managed runs do not keep | as `PublicSafety` |
| `LaunchedSafety` | one launched run, killed or raising anywhere, to its end; refinement of a resumable run | 4 steps, checkpoints at 1, 2 and 4, 2 retained, 4 processes |
| `LaunchBinding` | one launch and its run while others write inputs, code, artifacts and the export | 6 files, 2 modules (one late and installed), 2 updates, 2 changes, 1 kill, any number of restarts |
| `ParityEvidence` | floor, marker, comparison and verdict with races, kills, replaced inputs, a clock set back | 2 floor runs, 1 variant, 1 loader, clock to 2, two of the three troubles, once each |
| `EvaluationScores` | a statement that the evaluation does not keep | 1 floor run, 3 loaders, a trained export on top of an older one, 1 trouble |

Why the bounds are enough to be interesting: with two workers a sender and a
waiter interleave at every statement; the third adds a reset under both, or a
second waiter.  Two observations give one in a waiter's hand and a newer one in the
queue; they share a timestep and one is `must_go`, so the filter
says both yes and no.  Two resets give three generations:
a waiter may hold a queue two sessions old.  In the session the joint's range is
five steps long and three chunks are allowed, so both the cap and the inset are
reached; start poses lie outside the calibration, on its edge, in the margin and
inside; actions lie below, inside, in the margin and outside the public domain.
Two faults make a cleanup attempt fail after the failure that caused the cleanup.

In the training runs, 2 retained checkpoints (3 in the code) and 4 steps make pruning
happen twice; checkpoints at 1, 2 and 4 leave a step whose metrics row is not yet
covered; three processes allow a resume of a resume.  Two documents show that
recovering one does not disturb another.  A launched run gets a process more, so that a
replay that was killed is itself replayed, and a process is left to finish.

Two changes of an input are what it takes to disturb both views of one collection, or two
collections of one run; one kill is enough to have two processes share a launch, and
processes that raise are restarted without a bound.  Two floor runs race for one report.  The clock
needs two ticks, because the floor must be strictly older than the marker.

Worker symmetry is used where no liveness property is checked.  Deadlock checking
is off because the server may be stopped, a session ends, and a run is over or can no
longer be resumed.

### Fairness

`ServerLiveness`: each worker is weakly fair for its next statement, since threads
run; a stream that waits for its client's next message is fair only once cancelled,
because the client may never send it.  The deadline of the wait for an observation
passes, so `GetTimeout` is strongly fair: the poll's round trip disables and
enables it over and over.  The waits for locks are only weakly fair: a Python lock is
not a queue, so one worker may lose the race for ever; therefore no property says
that every call is answered.  Nothing is assumed of clients.  Shutdown's own
statements are weakly fair.

`SessionSafety`: only the client's thread is fair.  Time is not: the session has to end
by its caps.

`LaunchedSafety`: the one process runs on, or its handlers do; it need not be killed.

`LaunchBinding`: the process runs on, and a run that is not complete is started again.
Other programs need not stop; `QuietRunEnds` speaks of the behaviours in which they do.

### What the violations show

1. `ServerEnqueueRace`: between `full()` and `get_nowait()` a waiter empties the queue;
   `queue.Empty` escapes `SendObservations` and the newest observation is lost.
2. `PublicInterruptedSave`: an exception or Ctrl-C inside a checkpoint save is recorded as
   `interrupted`, but the staged directory, or the checkpoint `run.json` does not name yet,
   makes every resume fail.
3. `EvaluationScores`: the native policy is loaded from the shared cache before the
   conversion is validated.  One process that had read the older export of that path
   saves its tensors, the scorer loads them, another process saves the right ones, and
   the validation accepts: the outcome holds scores of weights its digests do not name.

Nine more statements of the repository are written down as definitions without a run of
their own.  TLC refutes each when it is added to the configuration named here:

- `ReceiptsFollowQueue` (`PolicyServer`, in `ServerEnqueueRace.cfg`): a cancelled waiter
  that may not put its observation back leaves its receipt behind until the next reset;
- `CancelledWaiterRestores` (`PolicyServer`, in `ServerEnqueueRace.cfg`): a cancellation
  between the two `is_active` tests of `_next_observation` loses the observation;
- `DurationStopIsClean` (`HardwareSession`, in `SessionSafety.cfg`): a motion session whose
  duration passes between the limit check and the chunk raises an error;
- `InterruptDisablesTorque` (`HardwareSession`, in `SessionSafety.cfg` with
  `InterruptPoints <- MCStarted`): an interrupt between the arming and the `with` block leaves
  the torque on;
- `AlwaysCloses` (`HardwareSession`, in `SessionSafety.cfg`): a failing first read leaves the
  adapter open;
- `RunDocumentSurvives` (`PublicTraining`, in `PublicSafety.cfg`): a kill between the
  two renames of `write_run_state` leaves no `run.json`; only launched runs restore the
  generation set aside;
- `ExportObserved` (`PublicTraining`, in `PublicSafety.cfg`): resuming a run whose last
  checkpoint is recorded trains nothing, so the export has no observation to validate
  with; it raises, and the status `exporting` rules out another resume;
- `ExactTrajectory` (`PublicTraining`, in `PublicSafety.cfg` with `Dropout = TRUE`): "exactly resume"
  (ux.py:861) is not so with a dropout above zero, because a resume draws no masks again and the
  generator is elsewhere than in an uninterrupted run;
- `RecordOnlyAdvances` (`LaunchedRun`, in `LaunchedSafety.cfg`): "Keep the exact
  saved checkpoint authoritative across its run-state CAS" (finetune.py:9186), but what is raised between
  the bound publication and finetune.py:12278 makes the handler write the older checkpoint over it.

The `TypeOK` of a module that has one, and `PutFindsRoom` of `PolicyServer`, hold in the
same configurations; they are kept out of the runs where they say no more than the others.
`LockDiscipline` and `CommittedInSession` are proved.

## Proofs

`PolicyServer_proofs` proves, for any finite set of workers, any observations and
policies and any number of resets, assuming only `ServerConstants`:

- `TypeCorrect`: `Spec => []TypeOK`;
- `LocksReleased`: `Spec => []LockDiscipline`;
- `ObservationsStayUnique`: `Spec => []OnePlace`;
- `ChunksStayInSession`: `Spec => []DeliveredFromOwnSession`;
- `CommitmentHolds`: `Spec => []CommittedInSession`.

All follow from one inductive invariant, `Inv`:

- `TypeInv` adds to `TypeOK` that the generation is paid for (`GenerationPaid`: resets
  started and not yet run, and the shutdown's, count against `MaxResets + 1`; this
  is where the finiteness of the set of workers is needed, as workers that still
  owe a reset are counted) and that control points that need an observation have
  one (`HandsFull`);
- `LockDiscipline` gives mutual exclusion, on which both others rest;
- `PlaceInv` strengthens `OnePlace` with where unsent observations are not, and with
  the observation a sender holds being nowhere else;
- `SessionInv` strengthens `DeliveredFromOwnSession`: what a queue holds was accepted
  in that queue's generation, what a worker holds was accepted in its `source`, the
  captured generation never exceeds the source, the source never exceeds the
  current generation, and an observation of the current session was queued under the
  policy that is served now unless an installation has still to clear the session.

The proof has one lemma per action and part of the invariant, grouped by handler,
then one that collects `Next`.

Three more theorems rest on `Inv` and on a second invariant, `Account`, inductive given `Inv`:

- `QueuesHoldTheNewest`: `Spec => []NewestWins`;
- `SeedsAreFresh`: `Spec => []SeedsNotReused`;
- `LinesIdentifyChunks`: `Spec => []LogIdentifiesChunks`.

`NewestWins` needs `TakenIsNewest`: what a cancelled waiter may put back is the newest of its
queue, unless something newer is there or a sender that has made room is about to put it.
`SeedInv` says that in a session seeds only grow: every seed delivered is below the one that is
next, and below the one a worker that has inferred holds - except while a newly installed policy,
whose session has not begun, restarts the count.  `LogInv` says that an observation a line may
still be written for has none yet, and that a number is passed on to the next line only if the
chunk of its own is never answered.

The refinement, assuming also `MailboxConstants` (`None` is neither a slot's content nor a claim):

- `MailboxRefined`: `Spec => ImplementsMailbox`.

Beside `Inv` the mapping needs `RefInv`: a sender that puts finds room, what it puts was never
queued before, and a waiter finds in its queue, even in one its session has left, only
observations of the policy it uses.  `ShowsState` reads the mailbox's state off the server's, and
then each action is one step of the mailbox or leaves all that is read unchanged.

`HardwareSession_proofs` proves, for any caps, delta, ranges, modes and budget of
faults, assuming only `SessionConstants`:

- `TypeCorrect`: `Spec => []TypeOK`;
- `TorqueReported`: `Spec => []TorqueOffOrReported`, if no interrupt lands between the arming and
  the `with` block or inside the cleanup;
- `ReturnsToStart`: `Spec => []CleanExitAtStart`, if none lands inside the cleanup;
- `ReturnIsLongEnough`: `Spec => []ReturnFits`;
- `TravelIsBounded`: `Spec => []TravelBounded`;
- `NeverJumps`: `Spec => NoJump`.

The hypotheses on interrupts are those under which the code keeps its word: with an interrupt after
the arming TLC finds the torque left on (`InterruptDisablesTorque`, above), and one
inside a cleanup ends it where it is.  The other four theorems hold wherever interrupts land.  The
inductive invariant `IInv` says what is left to clean up at each point (`Scripted`), when the motors
may be energized (`Powered`), where the joint and its goal are (`Placed`), and that the distance
from the start is at most delta times the valid actions (`Counting`), to which the capped
return is exactly long enough (`Fits`): each of its steps takes delta off the distance.

`CheckpointCalls_proofs` proves, for any steps, cadence, retention, builds and documents,
assuming only `StateFilesConstants` and `CheckpointConstants`:

- `StoreTyping`: `Spec => []TypeOK`;
- `SavedIsKept`: `Spec => []SavedSurvives`;
- `PointerIsKept`: `Spec => []PointerNamesKept`;
- `ReturnedIsDone`: `Spec => []ReturnMeansDone`;
- `OnlyOldArePruned`: `Spec => OnlyOldPruned`.

`CallsInv` is the inductive invariant.  A name is one directory's (`OneName`), the call's
checkpoint is the newest there is (`Newer`), and from the moment the pointer is being written it is
published (`Pointing`, `Named`), so that pruning, which takes the oldest of more than `KeepLast`,
never takes what the pointer names.  `Named` holds only while nothing has been moved aside under a
recovery name; where something has, no later call gets past the namespace check.  That the
directories are finitely many is part of the invariant: it is what gives them an oldest and a newest.

`PublicTraining_proofs` proves, for any steps, cadence and number of killed, interrupted and
resumed processes, assuming `RunConstants` and `KeepLast > 1`:

- `RunTyping`: `Spec => []TypeOK`;
- `RecordIsKept`: `Spec => []RecordedKept`;
- `TrajectoryIsExact`: `Spec => []ExactTrajectory`, if `~Dropout`;
- `RecordRefined`: `Spec => ImplementsRun`, the refinement of `ResumableRun`.

`KeepLast` is 3 in the code (finetune.py:8287), and `prune` accepts 1 (8299).  With 1 it is not
true: a save publishes its checkpoint and prunes the recorded one before `run.json` names the new one, and a
process killed between leaves a record of a checkpoint that is gone.  TLC shows it in a few
steps.  `RunInv` says of each control point which of the record, the document in memory and the
checkpoint of the call under way is the newest published (`Records`, `Calling`), that nothing
published lies between the recorded checkpoint and the next (so that of two at least the record is
kept), that the parts of the trajectory and the metrics are at the same step, but for dropout masks that
were not drawn again (`Reached`, `Trajectory`), and that the run ends only from the last checkpoint (`Closing`).

`LaunchedRun_proofs` proves, for any steps, cadence and number of killed, failing and resumed
processes, assuming `LaunchConstants`, `StateFilesConstants` and `CheckpointConstants`:

- `LaunchedProcessFound`: `Spec => []ProcessFound`;
- `LaunchedRecordedKept`: `Spec => []RecordedKept`;
- `LaunchedExactTrajectory`: `Spec => []ExactTrajectory`;
- `LaunchedRowsNeverLost`: `Spec => RowsNeverLost`;
- `LaunchedEvidenceStands`: `Spec => []EvidenceStands`;
- `LaunchedImplementsRun`: `Spec => ImplementsRun`, the refinement of `RestartableRun`;
- `LaunchedTypes`: `Spec => []TypeOK`, if what a launched run publishes (`LaunchDocuments`)
  is among the `Documents`, as in the run.

The frozen cadence and retention enter only as `Interval > 1` and `KeepLast > 1`; the other conjuncts of
`LaunchConstants` say that the six names differ and that `Absent` is none of the documents and no
metrics.  None of the four invariants is inductive.  `LaunchInv`, which is, has six layers, and each
is kept by every step that starts from the ones before it:

- `Shape`: which files a publication under way has created and taken away, and whose
  publication each control point may have (`PubFiles`, `Publisher`); what a process that resumes read
  from `run.json` (`Present`); that `metrics.csv` has at least the rows up to the
  checkpoint, and one per step once it has been cut (`Lengths`); that a process identity
  is written only where none is, so that none is ever set aside (`NameFiles`);
- `IdentityInv`: `training.pid` is of this or an earlier process, and what was moved aside is of an
  earlier one (`KnownPids`), so moving one never replaces another; and at each control
  point where the process of `run.json` is to be found, and what of it memory knows (`Identified`);
- `RecordsInv`: a step has one published checkpoint (`OneName`); which of the recorded checkpoint,
  the one in memory and the one of the call is the newest there is, point by point (`Records`), inside a
  load (`Loading`), a save (`Saving`) and the commit (`Committing`).  A kill between
  publishing a checkpoint and recording it leaves one that is newer than the record: it is the
  next process's load that decides it, and until then it counts against the retention, which is
  why `KeepLast` must exceed 1;
- `Paced`: checkpoints are published on the cadence, so a load never has one to set aside and the
  first is that of step 1; it is what says where a run can be that records no checkpoint (any more);
- `MetricsInv`: the row of its step tells which process built a checkpoint, also in the metrics that
  are about to replace the file (`Carries`), and what is cut has been copied before it is replaced;
- `EvidenceInv`: the final metrics in memory and in `run.json` are those of the file and of the last
  step, on every path by which a process takes them over, and what the export has made so far (`Made`).

`RowsNeverLost` and the refinement are facts of steps, so `LaunchNext`, the lemma that collects the
layers, states them too (`Progresses`).  Only two kinds of step change what the next process would continue
from.  In the store the newest checkpoint changes when one is published, never by a prune, which keeps
two (`ProgressInStore`).  A publication of `run.json` (`RecordMoves`) records the newest, or the
handler's older one while the newest stays (`ProgressRecords`), or ends the run.

`StateFileRecovery_proofs` proves, for any names and any documents, assuming only
`StateFilesConstants`:

- `Typing`: `Spec => []TypeOK`;
- `RestartNeverRefused`: `Spec => []RestartSucceeds`;
- `NoForeignLeftovers`: `Spec => []SweptBeforeUse`;
- `AtomicPublication`: `Spec => ImplementsRegister`, the refinement of `StateRegister`.

The inductive invariant `IInv` says of each name how many generations may be set aside,
depending on where the process and the publication are (`OnePrevious`, `PubFiles`,
`PreviousKnown`, `StagedKnown`), and ties the file to what the process is bound to
(`PubKnown`): a publication that failed and left its generation aside has changed the
file, so the binding no longer matches and the process cannot set a second one aside.
`RestartSucceeds` alone is not inductive, because it says nothing of the moments in
which a generation is aside and the name is taken.  The refinement maps every action but
`PublishStaged` to a stutter of the register.

`LaunchBinding_proofs` proves, for any files read in any order, any modules and any
number of changes and kills, assuming `FrozenInputsAssumption` and `LaunchBindingAssumption`:

- `EvidenceIsAtomic`: `Spec => []EvidenceAtomic`;
- `RunsTrainOnTheirLaunch`: `Spec => []TrainedOnLaunch`, if `NoneIsNoRun`;
- `ReturnsHoldTheirArtifacts`: `Spec => []ReturnedMeansHeld`, if `NoneIsNoRun` (`None`, a model value in
  the runs, is not the document of a completed run).

Versions only grow, so the invariant `EvidenceInv` orders them: what the first view saw is at
most what a file held at `moment`, and that is at most what the second view reads, file by
file as far as it has come.  When the views agree, all three are equal.  The
evidence of the other artifacts does not enter, and a step elsewhere keeps the invariant.

The other two rest on that and on `LaunchInv`, which follows a process through its stages: it is
bound to the launch document it read (`Committed`), the weights in its memory are those of the
evidence it compares (`ModelSeen`), and its private copies and export are made from those
(`Copied`, `Exported`).  Its frames are the exception (`FramesRead`): an update may read a
version of the dataset `launch.json` does not name.  But no version it read is newer than what is
on the disk, hence than the evidence collected before the export, and when that is
the launch's, so was every frame.  `Holding` says that whoever replaces an artifact the
process holds is noticed at the next check.

`ParityEvidence_proofs` proves, for any floor runs, perturbations, cache users and bounds,
assuming `ScorerAssumption`:

- `FloorIsMeasured`: `Spec => []FloorMeasured`;
- `VerdictIsOfItsFloor`: `Spec => []ComparedWhatFloorMeasured`;
- `FloorWasFirst`: `Spec => []FloorFirst`, if `NoneIsNoReport` (`None` is not a report).

`FloorMeasured` looks only at the report, and is not inductive.  `FloorInv` adds what each run
and each worker knows (`RunOK`, `WorkerOK`, `VariantOK`): every digest is at most the version it
names, an artifact was computed from inputs at least as new as its label, and what a run has
hashed again is at least as new as the artifacts it read before.  So a run whose two passes agree
has every version in between.  `OneWorker` says that a run that waits has one worker and that a
worker whose run is elsewhere belongs to no run, so the end of an orphan disturbs nobody.  Versions
only grow, here as in `LaunchBinding`: it is this that a replaced input put back would break (see
*Not modelled*), and it is all that the actions of the other three commands are asked to keep.

`ComparedWhatFloorMeasured` needs the order in which a verdict reads (`JudgingOK`): it hashes each
input after all that the comparison read, so a hash that is the floor's bounds what was read
from above, as `ScoringOK` bounds it from below.  `FloorFirst` needs that a report that has been
replaced never comes back (`UnderInv`): a floor run starts only where there is no
report, so each writes at most one.

Model-checked only:

- the liveness properties `CancelledCallEnds`, `LockReleased`, `StopDrains`, `MotionEnds`,
  `QuietRunEnds` and `Completes`: TLAPS proves no `WF` or `ENABLED` here, so that a launched run
  ends, as against that it never goes wrong, is shown on the instance only;
- the violations, which are traces.

## Plan

In this order, the most important behaviour first:

1. *done* `PolicyServer` with mailbox, runs and the proofs above; `HardwareSession` with runs.
2. *done* `StateFiles`, `StateFileRecovery` with proofs; `CheckpointStore`, `PublicTraining` with runs.
3. *done* `LaunchStartup`, `LaunchedRun`: a resume after a kill anywhere is accepted and the
   run completes.
4. *done* `FrozenInputs`, `MergedExport`, `LaunchBinding` with a run and a proof.
5. *done* `ConversionCache`, `SelfConsistencyFloor`, `ParityEvidence` with runs and a proof.
6. `RobotLoop`: the client's loop over the server's calls with lost and late answers;
   a chunk the robot executes was computed from the observation it just sent.
7. `ObservationStream`: framing against the client's chunker.
8. `ActionQueue`: `select_action` against a reference definition; splits and batch order.
9. *done* Proofs of `PolicyServer` and its mailbox, `HardwareSession`, `StateFileRecovery`,
   `CheckpointCalls`, `PublicTraining`, `LaunchedRun`, `LaunchBinding`, `ParityEvidence`: every
   invariant, action property and refinement that a run checks.

The number of runs stays small: a new module brings one passing run that holds all
its properties, and takes the place of a violation whose statement then joins the
definitions without a run.

## Not modelled

Tensor arithmetic (inference core, native kernels, optimizer, LoRA, quantization):
stateless and numerical, compared with golden values by the repository's tests.
Contents of messages and files except as far as a property depends on them; log
wording; the command line; benchmarks, reports and the reference producers.  gRPC is
modelled by what its calls may do: deliver, cancel at any statement, drop the answer
of a client that has gone.

Of the launched loop: the adaptive step budget, phase timings, and bytes that are
replaced and restored between two looks.  Of the evidence: the baseline evaluation,
the case builder, the score statistics; a variant whose inputs are changed and
changed back while its worker runs is labelled with digests it did not use.  The implementation hashes of a floor
name the files on disk, not what a worker imported.  The native policy also reads the export's
configuration and statistics, which are hashed with the export, and the tokenizer in `native_cache/hf`, which
is not hashed.  The clean-up of the conversion cache.
