--------------------------- MODULE PublicTraining ---------------------------
(***************************************************************************)
(* One managed training run in its output directory, over the processes    *)
(* that start and resume it (training/ux.py, _run_training_impl): the run  *)
(* document run.json, the metrics, the checkpoints and the final export.   *)
(*                                                                         *)
(* The process writes run.json when it starts, after every checkpoint,     *)
(* when the loop is interrupted, and around the export; a resume trusts    *)
(* the checkpoint that run.json names.  Any step may raise (an interrupt   *)
(* of the user, a full disk) or be the process's last.  Two processes on   *)
(* one directory are not modelled; nothing in the code excludes them.      *)
(***************************************************************************)
EXTENDS CheckpointStore

CONSTANTS
    Run,        \* the name of the run document
    Dropout     \* the adapters have a dropout above zero

Statuses == {"running", "interrupted", "exporting", "exported"}
RunDocuments == [status: Statuses, completed: 0..Horizon,
                 last: Checkpoints \cup {Absent}]

ASSUME RunConstants ==
    /\ Run \in Names
    /\ Run # Latest
    /\ Dropout \in BOOLEAN
    /\ RunDocuments \subseteq Documents
    /\ Builds \subseteq Nat \ {0}

VARIABLES
    pc,         \* where the process is; "down": there is none
    mem,        \* run_document in its memory
    n,          \* completed_step
    net,        \* how many updates each part of the trajectory has seen
    observed,   \* last_observation is not None
    rows,       \* metrics.csv: the process that wrote each row
    exported,   \* the export directory is there
    build       \* the number of the process, 0 before the first

processVars == <<pc, mem, n, net, observed>>
vars == <<storeVars, processVars, rows, exported, build>>

\* at these points write_run_state(run.json, run_document) is under way
PersistPoints == {"announce", "commit", "handle", "export", "final"}
Points == PersistPoints \cup
    {"down", "load", "trim", "loop", "append", "save", "saving", "finalize", "validate"}

NewRun == [status |-> "running", completed |-> 0, last |-> Absent]

\* The trajectory after s updates: weights, AdamW state, sampler position, and
\* the flow draws and dropout masks taken from the one global generator.
After(s) == [weights |-> s, optimizer |-> s, sampler |-> s, flow |-> s,
             masks |-> IF Dropout THEN s ELSE 0]

TypeOK ==
    /\ StoreTypeOK
    /\ pc \in Points
    /\ mem \in RunDocuments
    /\ n \in 0..Horizon
    /\ DOMAIN net = DOMAIN After(0) /\ \A part \in DOMAIN net: net[part] \in 0..Horizon
    /\ observed \in BOOLEAN
    /\ rows \in Seq(Builds) /\ Len(rows) <= Horizon
    /\ exported \in BOOLEAN
    /\ build \in Builds \cup {0}

Init ==
    /\ StoreInit
    /\ pc = "down"
    /\ mem = NewRun
    /\ n = 0
    /\ net = After(0)
    /\ observed = FALSE
    /\ rows = <<>>
    /\ exported = FALSE
    /\ build = 0
-----------------------------------------------------------------------------
\* What is left when a process ends: nothing in memory.
Down ==
    /\ pc' = "down"
    /\ mem' = NewRun
    /\ n' = 0
    /\ net' = After(0)
    /\ observed' = FALSE

Goes(where) == pc' = where /\ UNCHANGED <<mem, n, net, observed>>

\* run_training without resume: the directory is made, the metrics get their
\* header, the run document is prepared.
StartFresh ==
    /\ pc = "down"
    /\ build = 0
    /\ 1 \in Builds
    /\ build' = 1
    /\ Goes("announce")
    /\ UNCHANGED <<storeVars, rows, exported>>

\* run_training with resume; one that is refused has changed nothing.
Resumable ==
    /\ file[Run] # Absent
    /\ file[Run].status \in {"running", "interrupted"}
    /\ LoadAccepts(file[Run].last, 0)

StartResume ==
    /\ pc = "down"
    /\ build > 0
    /\ build + 1 \in Builds
    /\ Resumable
    /\ Load(file[Run].last, 0)
    /\ build' = build + 1
    /\ mem' = file[Run]
    /\ pc' = "load"
    /\ UNCHANGED <<n, net, observed, rows, exported>>

\* A step of the save or load the process is in.
InStore ==
    /\ pc \in {"load", "saving"}
    /\ StoreStep \/ StoreFails
    /\ UNCHANGED <<processVars, rows, exported, build>>

\* Mutant: the generator is not advanced.
Loaded_NoDraws ==
    /\ pc = "load"
    /\ op.at = "returned"
    /\ op' = NoOp
    /\ n' = op.ckpt.step
    /\ net' = [After(op.ckpt.step) EXCEPT !.flow = 0, !.masks = 0]
    /\ pc' = "trim"
    /\ UNCHANGED <<fileVars, dirs, mem, observed, rows, exported, build>>

\* The checkpoint is restored into the fresh model, optimizer and sampler, and
\* the generator is advanced over the flow draws of the earlier updates.  It is
\* not advanced over their dropout masks, which no checkpoint counts: with
\* dropout, what it yields next is not what an uninterrupted run would draw.
Loaded ==
    /\ pc = "load"
    /\ op.at = "returned"
    /\ op' = NoOp
    /\ n' = op.ckpt.step
    /\ net' = [After(op.ckpt.step) EXCEPT !.masks = 0]
    /\ pc' = "trim"
    /\ UNCHANGED <<fileVars, dirs, mem, observed, rows, exported, build>>

LoadRaised ==
    /\ pc = "load"
    /\ op.at = "raised"
    /\ op' = NoOp
    /\ pub' = NoPublication
    /\ Down
    /\ UNCHANGED <<diskVars, dirs, rows, exported, build>>

\* _prepare_metrics: rows after the checkpoint are dropped in one replace.
Trim ==
    /\ pc = "trim"
    /\ IF Len(rows) < n
       THEN Down /\ UNCHANGED rows
       ELSE /\ rows' = SubSeq(rows, 1, n)
            /\ mem' = [mem EXCEPT !.status = "running"]
            /\ pc' = "announce"
            /\ UNCHANGED <<n, net, observed>>
    /\ UNCHANGED <<storeVars, exported, build>>
-----------------------------------------------------------------------------
\* write_run_state(run.json, mem) at one of the persist points.
Persist ==
    /\ pc \in PersistPoints
    /\ pub.at = "idle"
    /\ pub' = Publication(Run, mem)
    /\ UNCHANGED <<diskVars, dirs, op, processVars, rows, exported, build>>

Persisting ==
    /\ pc \in PersistPoints
    /\ PublishStep \/ PublicationFails
    /\ UNCHANGED <<dirs, op, processVars, rows, exported, build>>

Persisted ==
    /\ pc \in PersistPoints
    /\ pub.at = "done"
    /\ pub' = NoPublication
    /\ \/ pc \in {"announce", "commit"} /\ Goes("loop")
       \/ pc = "export" /\ Goes("finalize")
       \/ pc \in {"handle", "final"} /\ Down
    /\ UNCHANGED <<diskVars, dirs, op, rows, exported, build>>

\* Only the loop has a handler.
PersistRaised ==
    /\ pc \in PersistPoints \ {"commit"}
    /\ pub.at = "failed"
    /\ pub' = NoPublication
    /\ Down
    /\ UNCHANGED <<diskVars, dirs, op, rows, exported, build>>
-----------------------------------------------------------------------------
\* _perform_update
Update ==
    /\ pc = "loop"
    /\ n < Horizon
    /\ n' = n + 1
    /\ net' = [part \in DOMAIN net |-> net[part] + After(1)[part]]
    /\ observed' = TRUE
    /\ pc' = "append"
    /\ UNCHANGED <<storeVars, mem, rows, exported, build>>

AppendMetric ==
    /\ pc = "append"
    /\ rows' = Append(rows, build)
    /\ Goes(IF OnCadence(n) THEN "save" ELSE "loop")
    /\ UNCHANGED <<storeVars, exported, build>>

\* Mutant: the run document names the checkpoint before it is saved.
SaveCheckpoint_BindsFirst ==
    /\ pc = "save"
    /\ LET c == [step |-> n, build |-> build] IN
          /\ Save(c) \/ SaveRefused(c)
          /\ mem' = [mem EXCEPT !.last = c]
    /\ pc' = "saving"
    /\ UNCHANGED <<n, net, observed, rows, exported, build>>

SaveCheckpoint ==
    /\ pc = "save"
    /\ LET c == [step |-> n, build |-> build] IN Save(c) \/ SaveRefused(c)
    /\ Goes("saving")
    /\ UNCHANGED <<rows, exported, build>>

\* The run document names the checkpoint from here on, in memory.
Saved ==
    /\ pc = "saving"
    /\ op.at = "returned"
    /\ op' = NoOp
    /\ mem' = [mem EXCEPT !.completed = n, !.last = op.ckpt]
    /\ pc' = "commit"
    /\ UNCHANGED <<fileVars, dirs, n, net, observed, rows, exported, build>>

\* Mutant: the handler writes the document the run began with.
Interrupted_Stale ==
    /\ \/ pc \in {"loop", "append", "save"}
       \/ pc = "saving" /\ op.at \in {"returned", "raised"}
       \/ pc = "commit" /\ pub.at \in {"idle", "done", "failed"}
    /\ op' = NoOp
    /\ pub' = NoPublication
    /\ mem' = [NewRun EXCEPT !.status = "interrupted", !.completed = n]
    /\ pc' = "handle"
    /\ UNCHANGED <<diskVars, dirs, n, net, observed, rows, exported, build>>

\* The loop's handler: whatever was raised in it, the run document as it is in
\* memory is written once more, as interrupted.
Interrupted ==
    /\ \/ pc \in {"loop", "append", "save"}
       \/ pc = "saving" /\ op.at \in {"returned", "raised"}
       \/ pc = "commit" /\ pub.at \in {"idle", "done", "failed"}
    /\ op' = NoOp
    /\ pub' = NoPublication
    /\ mem' = [mem EXCEPT !.status = "interrupted", !.completed = n]
    /\ pc' = "handle"
    /\ UNCHANGED <<diskVars, dirs, n, net, observed, rows, exported, build>>
-----------------------------------------------------------------------------
\* The loop is over: the export begins.
BeginExport ==
    /\ pc = "loop"
    /\ n = Horizon
    /\ mem' = [mem EXCEPT !.status = "exporting", !.completed = Horizon]
    /\ pc' = "export"
    /\ UNCHANGED <<storeVars, n, net, observed, rows, exported, build>>

\* _finalize_export writes the export, then runs it on the last observation.
WriteExport ==
    /\ pc = "finalize"
    /\ exported' = TRUE
    /\ Goes("validate")
    /\ UNCHANGED <<storeVars, rows, build>>

ValidateExport ==
    /\ pc = "validate"
    /\ IF observed
       THEN /\ mem' = [mem EXCEPT !.status = "exported"]
            /\ pc' = "final"
            /\ UNCHANGED <<n, net, observed>>
       ELSE Down
    /\ UNCHANGED <<storeVars, rows, exported, build>>

\* Killed, or an exception where nothing handles it.
Kill ==
    /\ pc # "down"
    /\ op' = NoOp
    /\ pub' = NoPublication
    /\ Down
    /\ UNCHANGED <<diskVars, dirs, rows, exported, build>>

Next ==
    \/ StartFresh \/ StartResume
    \/ InStore \/ Loaded \/ LoadRaised \/ Trim
    \/ Persist \/ Persisting \/ Persisted \/ PersistRaised
    \/ Update \/ AppendMetric \/ SaveCheckpoint \/ Saved \/ Interrupted
    \/ BeginExport \/ WriteExport \/ ValidateExport
    \/ Kill

Spec == Init /\ [][Next]_vars
-----------------------------------------------------------------------------
\* What run.json says, the generation set aside included.
Document == Generation(Run)
Recorded == IF Document = Absent THEN Absent ELSE Document.last

\* The checkpoint that run.json names is published and whole, at every moment:
\* pruning and the failures of later saves never take it away (10036, ux 990).
RecordedKept ==
    Recorded # Absent => \E e \in Published: e.whole /\ e.ckpt = Recorded

\* An update continues the very trajectory: weights, optimizer, sampler and
\* generator are all at completed_step, and the metrics have one row per step.
\* It is claimed without dropout only (the default, ux.py:149).
ExactTrajectory ==
    pc \in {"loop", "save"} => net = After(n) /\ Len(rows) = n

\* To its user the run keeps one checkpoint, replaces it only by a later one,
\* and ends once, exported from the last.
Ended == Document # Absent /\ Document.status = "exported"
Progress == INSTANCE ResumableRun WITH kept <- Recorded, ended <- Ended
ImplementsRun == Progress!Spec
-----------------------------------------------------------------------------
\* What the documentation says of resuming (each is violated by the code).

\* "Resume the exact output directory with the same arguments" (README.md:152):
\* a run whose interruption was handled and written down, and which has a
\* recorded checkpoint, can be resumed.
InterruptedResumable ==
    pc = "handle" /\ pub.at = "done" /\ mem.last # Absent => Resumable

\* "Atomically publish one complete JSON document" (finetune.py:1517): once the
\* run has metrics, its directory has a run.json whenever no process is there.
RunDocumentSurvives == pc = "down" /\ rows # <<>> => file[Run] # Absent

\* "Train, checkpoint, exactly resume, export, and validate one MLX run"
\* (ux.py:861): when the export is validated there is an observation for it.
ExportObserved == pc = "validate" => observed
=============================================================================
