---------------------------- MODULE LaunchStartup ----------------------------
(***************************************************************************)
(* How a process of a launched LoRA run takes over its output directory    *)
(* (training/finetune.py, run_lora_finetune and the first part of          *)
(* _run_lora_finetune_impl).  It holds the lock of the directory, restores *)
(* the documents an earlier process had set aside, and opens the log.      *)
(* Without a run.json it clears what a process that never wrote one left;  *)
(* with one it restores the process identity run.json refers to, moves     *)
(* every hidden leftover of the directory and of the checkpoints out of    *)
(* the way, and loads a checkpoint, or starts over if none was recorded.   *)
(*                                                                         *)
(* Nothing is removed: leftovers are renamed into recovery directories, of *)
(* which only what is read again is kept here.  Each rename is an action;  *)
(* the process may be killed between any two.                              *)
(***************************************************************************)
EXTENDS CheckpointStore

CONSTANTS Run, Pid, Metrics, Log, Budget    \* names of documents

OutputNames == {Run, Pid, Metrics, Log, Budget}
Statuses == {"running", "interrupted", "exporting", "trained_and_exported"}
Rows == UNION {[1..k -> Builds]: k \in 0..Horizon}

\* process: the build whose training.pid it refers to; log: the build that
\* made its log; metrics: the final metrics evidence; recovered: the process
\* identities among startup_recoveries.
RunDocuments ==
    [status: Statuses, completed: 0..Horizon, last: Checkpoints \cup {Absent},
     count: 0..Horizon, process: Builds, log: Builds, metrics: Rows \cup {Absent},
     recovered: SUBSET Builds]

PidOf(b) == [pid |-> b]
LogOf(b) == [log |-> b]
MetricsOf(rows) == [rows |-> rows]
FixedBudget == [steps |-> Horizon]

\* All that a launched run publishes.
LaunchDocuments ==
    RunDocuments \cup Checkpoints \cup [pid: Builds] \cup [log: Builds] \cup [rows: Rows]
        \cup {FixedBudget}

\* A launch saves every 100 updates and retains 3 (_T3B_FROZEN_SETTINGS, 103-114).
\* With an interval of one the recovery of an unrecorded checkpoint would refuse:
\* after step 1 it expects it at min(Interval, Horizon), which is 1 again (8251).
\* Absent is none of the documents and no metrics: it marks what is not there.
ASSUME LaunchConstants ==
    /\ Interval > 1 /\ KeepLast > 1
    /\ OutputNames \cup {Latest} \subseteq Names
    /\ Cardinality(OutputNames \cup {Latest}) = 6
    /\ Absent \notin LaunchDocuments \cup Rows

VARIABLES
    pc,         \* where the process is; "down": there is none
    build,      \* the number of the process, 0 before the first
    mem,        \* run_document in its memory
    n,          \* completed_step
    net,        \* how many updates each part of the trajectory has seen
    bound,      \* run.json is the generation the process knows
    pids,       \* process identities in process-identity-recoveries
    tails,      \* metrics.recovery-N.csv: copies of the metrics
    moved,      \* checkpoint-recoveries
    hidden      \* hidden directories of the export phase

memoryVars == <<mem, n, net, bound>>
recoveryVars == <<pids, tails, moved, hidden>>

NewRun(b) == [status |-> "running", completed |-> 0, last |-> Absent, count |-> 0,
              process |-> b, log |-> b, metrics |-> Absent,
              recovered |-> {}]

\* The trajectory after s updates: weights, AdamW state, sampler position and
\* flow draws taken from the generator.
After(s) == [weights |-> s, optimizer |-> s, sampler |-> s, flow |-> s]

HiddenDirs == {"adapter-stage", "source-checkpoint", "tokenizer-snapshot", "export"}

StartPoints == {"restore", "log", "prestart", "budget", "pid", "sweep", "replay",
                "load", "rotate", "identify", "announce"}

Goes(where) == pc' = where /\ UNCHANGED memoryVars

\* What is left when a process ends: nothing in memory.
Down ==
    /\ pc' = "down"
    /\ mem' = Absent
    /\ n' = 0
    /\ net' = After(0)
    /\ bound' = TRUE
    /\ op' = NoOp
    /\ pub' = NoPublication

\* A start that is refused ends the process; it changes nothing.
Refuse == Down /\ UNCHANGED <<diskVars, dirs, build, recoveryVars>>

Writes(name, doc) ==
    /\ pub.at = "idle"
    /\ pub' = Publication(name, doc)
    /\ UNCHANGED <<diskVars, dirs, op, pc, build, memoryVars, recoveryVars>>

Wrote(name) ==
    /\ pub.at = "done" /\ pub.name = name
    /\ pub' = NoPublication
    /\ UNCHANGED <<diskVars, dirs, op>>
-----------------------------------------------------------------------------
\* The lock is taken; a second process would be turned away here.
Start ==
    /\ pc = "down"
    /\ build + 1 \in Builds
    /\ build' = build + 1
    /\ pc' = "restore"
    /\ UNCHANGED <<storeVars, memoryVars, recoveryVars>>

Missing(name) == file[name] = Absent /\ previous[name] # <<>>

RestoreMissing(name) ==
    /\ pc = "restore"
    /\ Missing(name) /\ Len(previous[name]) = 1
    /\ file' = [file EXCEPT ![name] = previous[name][1]]
    /\ previous' = [previous EXCEPT ![name] = <<>>]
    /\ UNCHANGED <<staged, pub, dirs, op, pc, build, memoryVars, recoveryVars>>

RestoreRefused ==
    /\ pc = "restore"
    /\ \E name \in OutputNames: Missing(name) /\ Len(previous[name]) > 1
    /\ Refuse

Restored == pc = "restore" /\ \A name \in OutputNames: ~Missing(name)

\* _validate_recorded_t3b_recovery_inventories: what the document records as
\* recovered is there.
Live(doc) == doc.recovered \subseteq pids

\* Mutant: a run that has ended is resumed as well.
Continuable_Ended(doc) ==
    /\ file[Log] = LogOf(doc.log)
    /\ file[Budget] = FixedBudget
    /\ Live(doc)
    /\ doc.status \in Statuses

\* The log of a resumed run must be the one run.json is bound to; the state,
\* budget and checkpoint count are validated before anything is touched.
Continuable(doc) ==
    /\ file[Log] = LogOf(doc.log)
    /\ file[Budget] = FixedBudget
    /\ Live(doc)
    /\ doc.status \in {"running", "interrupted", "exporting"}
    /\ doc.status = "exporting" => doc.metrics # Absent
    /\ IF doc.last = Absent
       THEN doc.count = 0 /\ doc.metrics = Absent
       ELSE /\ OnCadence(doc.last.step)
            /\ doc.count = Cardinality({s \in 1..doc.last.step: OnCadence(s)})
            /\ doc.metrics # Absent => doc.last.step = Horizon /\ doc.completed = Horizon

Resume ==
    /\ Restored
    /\ file[Run] # Absent
    /\ IF Continuable(file[Run])
       THEN /\ mem' = file[Run]
            /\ pc' = "pid"
            /\ UNCHANGED <<storeVars, build, n, net, bound, recoveryVars>>
       ELSE Refuse

\* Without run.json the log of an earlier attempt is moved away.
StartFresh ==
    /\ Restored
    /\ file[Run] = Absent
    /\ file' = [file EXCEPT ![Log] = Absent]
    /\ mem' = NewRun(build)
    /\ pc' = "log"
    /\ UNCHANGED <<staged, previous, pub, dirs, op, build, n, net, bound, recoveryVars>>

WriteLog == pc = "log" /\ Writes(Log, LogOf(build))

LogWritten ==
    /\ pc = "log"
    /\ Wrote(Log)
    /\ Goes("prestart")
    /\ UNCHANGED <<build, recoveryVars>>

\* _reconcile_t3b_prestart_output: what a process left before its run.json.
Prestart == {Budget, Run, Pid, Log}

PrestartLeft(name) == staged[name] > 0 \/ (name = Pid /\ file[Pid] # Absent)

PrestartMove(name) ==
    /\ pc = "prestart"
    /\ PrestartLeft(name)
    /\ IF staged[name] > 0
       THEN staged' = [staged EXCEPT ![name] = @ - 1] /\ UNCHANGED file
       ELSE file' = [file EXCEPT ![name] = Absent] /\ UNCHANGED staged
    /\ UNCHANGED <<previous, pub, dirs, op, pc, build, memoryVars, recoveryVars>>

PrestartRefused ==
    \/ file[Metrics] # Absent \/ Leftovers(Metrics)
    \/ file[Latest] # Absent \/ dirs # {} \/ hidden # {}
    \/ file[Budget] \notin {Absent, FixedBudget}

Prestarted ==
    /\ pc = "prestart"
    /\ IF PrestartRefused
       THEN Refuse
       ELSE /\ \A name \in Prestart: ~PrestartLeft(name)
            /\ Goes(IF file[Budget] = Absent THEN "budget" ELSE "identify")
            /\ UNCHANGED <<storeVars, build, recoveryVars>>

WriteBudget == pc = "budget" /\ Writes(Budget, FixedBudget)

BudgetWritten ==
    /\ pc = "budget"
    /\ Wrote(Budget)
    /\ Goes("identify")
    /\ UNCHANGED <<build, recoveryVars>>
-----------------------------------------------------------------------------
\* _reconcile_resume_process_identity: the training.pid that run.json refers
\* to comes back if a process was killed between writing the two; the entry
\* moved aside then is recorded as a startup recovery.
PidUnmatched == file[Pid] # PidOf(mem.process)

MovePid ==
    /\ pc = "pid"
    /\ PidUnmatched /\ mem.process \in pids
    /\ file[Pid] # Absent
    /\ pids' = pids \cup {file[Pid].pid}
    /\ file' = [file EXCEPT ![Pid] = Absent]
    /\ mem' = [mem EXCEPT !.recovered = @ \cup {file[Pid].pid}]
    /\ UNCHANGED <<staged, previous, pub, dirs, op, pc, build, n, net, bound, tails, moved, hidden>>

RestorePid ==
    /\ pc = "pid"
    /\ PidUnmatched /\ mem.process \in pids
    /\ file[Pid] = Absent
    /\ pids' = pids \ {mem.process}
    /\ file' = [file EXCEPT ![Pid] = PidOf(mem.process)]
    /\ UNCHANGED <<staged, previous, pub, dirs, op, pc, build, memoryVars, tails, moved, hidden>>

PidMatched ==
    /\ pc = "pid"
    /\ PidUnmatched => mem.process \notin pids
    /\ IF PidUnmatched
       THEN Refuse
       ELSE /\ Goes("sweep")
            /\ UNCHANGED <<storeVars, build, recoveryVars>>

\* _reconcile_t3b_resume_output_staging: one hidden leftover is renamed into
\* resume-recoveries.
Sweep ==
    /\ pc = "sweep"
    /\ \/ \E name \in OutputNames:
             /\ staged[name] > 0 /\ staged' = [staged EXCEPT ![name] = @ - 1]
             /\ UNCHANGED <<previous, hidden>>
       \/ \E name \in OutputNames:
             /\ previous[name] # <<>> /\ previous' = [previous EXCEPT ![name] = Tail(@)]
             /\ UNCHANGED <<staged, hidden>>
       \/ \E dir \in hidden: hidden' = hidden \ {dir} /\ UNCHANGED <<staged, previous>>
    /\ UNCHANGED <<file, pub, dirs, op, pc, build, memoryVars, pids, tails, moved>>

Swept ==
    /\ pc = "sweep"
    /\ \A name \in OutputNames: ~Leftovers(name)
    /\ hidden = {}
    /\ Goes("replay")
    /\ UNCHANGED <<storeVars, build, recoveryVars>>
-----------------------------------------------------------------------------
\* _next_checkpoint_staging_step: the one step a save of the recorded process
\* can have been at; 0 stands for None.
NextStaging(doc) ==
    IF doc.last = Absent THEN 1
    ELSE IF doc.last.step = Horizon THEN 0
    ELSE LET next == IF doc.last.step = 1 THEN Interval ELSE doc.last.step + Interval
         IN  IF next < Horizon THEN next ELSE Horizon

\* _allowed_t3b_published_checkpoint_steps
AllowedPublished(doc) ==
    IF doc.last = Absent THEN {}
    ELSE Retained(doc.last.step) \cup ({NextStaging(doc)} \ {0})

\* The start-over case: nothing is recorded.
ZeroStep ==
    /\ mem.status \in {"running", "interrupted"}
    /\ mem.completed \in {0, 1}
    /\ mem.last = Absent

Expected == IF NextStaging(mem) = 0 THEN Horizon ELSE NextStaging(mem)

\* Mutant: a published checkpoint of the expected step is moved although the
\* run does not start over.
Movable_Published(e) ==
    \/ e.kind \in {"stage", "discarded", "recovery", "step"} /\ e.ckpt.step = Expected
    \/ e.kind = "pruned" /\ e.ckpt.step < Expected

\* _prepare_zero_step_checkpoint_replay: the entries that are moved to
\* checkpoint-recoveries, and those that make it give up.
Movable(e) ==
    \/ e.kind \in {"stage", "discarded", "recovery"} /\ e.ckpt.step = Expected
    \/ e.kind = "pruned" /\ e.ckpt.step < Expected
    \/ e.kind = "step" /\ ZeroStep /\ e.ckpt.step = Expected

Unrecognized ==
    \/ \E e \in dirs: ~Movable(e) /\ (e.kind = "step" => ZeroStep)
    \/ ~ZeroStep /\ ~(StepsOf(Published) \subseteq AllowedPublished(mem))
    \/ /\ ZeroStep /\ file[Latest] # Absent
       /\ ~\E e \in dirs \cup moved: e.kind = "step" /\ e.ckpt.step = Expected

\* Mutant: published checkpoints are not moved when the run starts over.
Replay_KeepsPublished ==
    /\ pc = "replay"
    /\ ~Unrecognized
    /\ \E e \in dirs:
          /\ Movable(e) /\ e.kind # "step"
          /\ dirs' = dirs \ {e}
          /\ moved' = moved \cup {e}
    /\ UNCHANGED <<fileVars, op, pc, build, memoryVars, pids, tails, hidden>>

Replay ==
    /\ pc = "replay"
    /\ ~Unrecognized
    /\ \E e \in dirs:
          /\ Movable(e)
          /\ dirs' = dirs \ {e}
          /\ moved' = moved \cup {e}
    /\ UNCHANGED <<fileVars, op, pc, build, memoryVars, pids, tails, hidden>>

\* The pointer's hidden files, and the pointer itself once the checkpoint it
\* names was moved.
ReplayPointer ==
    /\ pc = "replay"
    /\ ~Unrecognized
    /\ \/ /\ staged[Latest] > 0
          /\ staged' = [staged EXCEPT ![Latest] = @ - 1]
          /\ UNCHANGED <<file, previous>>
       \/ /\ previous[Latest] # <<>>
          /\ previous' = [previous EXCEPT ![Latest] = Tail(@)]
          /\ UNCHANGED <<file, staged>>
       \/ /\ ZeroStep /\ file[Latest] # Absent
          /\ Published = {}
          /\ file' = [file EXCEPT ![Latest] = Absent]
          /\ UNCHANGED <<staged, previous>>
    /\ UNCHANGED <<pub, dirs, op, pc, build, memoryVars, recoveryVars>>

\* What could not be told apart is left where it is, and the load decides.
Replayed ==
    /\ pc = "replay"
    /\ IF Unrecognized
       THEN IF ZeroStep
            THEN Goes("load") /\ UNCHANGED <<storeVars, build, recoveryVars>>
            ELSE Refuse
       ELSE /\ \A e \in dirs: ~Movable(e)
            /\ ~Leftovers(Latest)
            /\ ZeroStep => file[Latest] = Absent
            /\ Goes(IF ZeroStep THEN "rotate" ELSE "load")
            /\ UNCHANGED <<storeVars, build, recoveryVars>>

BeginLoad ==
    /\ pc = "load"
    /\ op = NoOp
    /\ Load(mem.last, NextStaging(mem)) \/ LoadRefused(mem.last, NextStaging(mem))
    /\ UNCHANGED <<pc, build, memoryVars, recoveryVars>>

\* The load may have set a damaged checkpoint aside: it is moved as well.
ReplayAfterLoad ==
    /\ pc = "load"
    /\ op.at = "returned"
    /\ \E e \in dirs: Movable(e) /\ dirs' = dirs \ {e} /\ moved' = moved \cup {e}
    /\ UNCHANGED <<fileVars, op, pc, build, memoryVars, pids, tails, hidden>>

\* Mutant: the generator of the flow noise is not advanced to the checkpoint.
Loaded_FlowFromStart ==
    /\ pc = "load"
    /\ op.at = "returned"
    /\ Published = dirs
    /\ op' = NoOp
    /\ n' = op.ckpt.step
    /\ net' = [After(op.ckpt.step) EXCEPT !.flow = 0]
    /\ mem' = [mem EXCEPT !.last = op.ckpt,
                          !.count = Cardinality({s \in 1..op.ckpt.step: OnCadence(s)})]
    /\ pc' = "rotate"
    /\ UNCHANGED <<fileVars, dirs, build, bound, recoveryVars>>

\* Everything continues from the checkpoint; the run document catches up with
\* it when a process was killed before recording it.
Loaded ==
    /\ pc = "load"
    /\ op.at = "returned"
    /\ Published = dirs
    /\ LET c == op.ckpt
           rows == file[Metrics].rows
       IN  IF Len(rows) < c.step \/ rows[c.step] # c.build
              \/ mem.metrics \notin {Absent, rows}
           THEN Refuse
           ELSE /\ op' = NoOp
                /\ n' = c.step
                /\ net' = After(c.step)
                /\ mem' = [mem EXCEPT
                              !.last = c,
                              !.count = Cardinality({s \in 1..c.step: OnCadence(s)})]
                /\ pc' = "rotate"
                /\ UNCHANGED <<fileVars, dirs, build, bound, recoveryVars>>

LoadRaised ==
    /\ pc = "load"
    /\ op.at = "raised"
    /\ Refuse
-----------------------------------------------------------------------------
\* Mutant: the identity of the last process is not kept.
RotatePid_Overwrites ==
    /\ pc = "rotate"
    /\ file' = [file EXCEPT ![Pid] = Absent]
    /\ pc' = "identify"
    /\ UNCHANGED <<staged, previous, pub, dirs, op, build, memoryVars, recoveryVars>>

\* _backup_resume_process_identity
RotatePid ==
    /\ pc = "rotate"
    /\ pids' = pids \cup {file[Pid].pid}
    /\ file' = [file EXCEPT ![Pid] = Absent]
    /\ mem' = [mem EXCEPT !.recovered = @ \cup {file[Pid].pid}]
    /\ pc' = "identify"
    /\ UNCHANGED <<staged, previous, pub, dirs, op, build, n, net, bound, tails, moved, hidden>>

WritePid ==
    /\ pc = "identify"
    /\ IF file[Pid] = Absent \/ pub.at # "idle" THEN Writes(Pid, PidOf(build)) ELSE Refuse

PidWritten ==
    /\ pc = "identify"
    /\ Wrote(Pid)
    /\ mem' = [mem EXCEPT !.status = "running", !.process = build]
    /\ pc' = "announce"
    /\ UNCHANGED <<build, n, net, bound, recoveryVars>>

StartUp ==
    \/ Start
    \/ \E name \in OutputNames: RestoreMissing(name)
    \/ RestoreRefused \/ Resume \/ StartFresh
    \/ WriteLog \/ LogWritten
    \/ \E name \in Prestart: PrestartMove(name)
    \/ Prestarted \/ WriteBudget \/ BudgetWritten
    \/ MovePid \/ RestorePid \/ PidMatched
    \/ Sweep \/ Swept
    \/ Replay \/ ReplayPointer \/ Replayed
    \/ BeginLoad \/ ReplayAfterLoad \/ Loaded \/ LoadRaised
    \/ RotatePid \/ WritePid \/ PidWritten
=============================================================================
