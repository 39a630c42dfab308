----------------------------- MODULE LaunchedRun -----------------------------
(***************************************************************************)
(* One launched LoRA run over the processes that start and resume it       *)
(* (training/finetune.py, _run_lora_finetune_impl): the run document, the  *)
(* metrics, the checkpoints, the adapter and the export.                   *)
(*                                                                         *)
(* A process may be killed between any two renames, writes or removals,    *)
(* and any publication or checkpoint call may raise; the last process is   *)
(* spared, so that the run can be asked to come to its end.                *)
(***************************************************************************)
EXTENDS LaunchStartup

VARIABLES
    adapter,    \* the trajectory adapter.safetensors was saved from, or Absent
    metadata,   \* adapter.json is there
    export      \* the trajectory the export was merged from, or Absent

exportVars == <<adapter, metadata, export>>
vars == <<storeVars, pc, build, memoryVars, recoveryVars, exportVars>>

\* at these points run.json is being replaced by run_document
PersistPoints == {"announce", "recopied", "handle", "exporting", "final"}
LoopPoints == {"metrics", "prefix", "recopied", "loop", "append", "save", "saving", "commit"}
ExportPoints == {"exporting", "adapter", "adapter-stage", "adapter-json", "adapter-clean",
                 "sources", "export", "publish", "close", "final"}
Points == {"down", "handle"} \cup StartPoints \cup LoopPoints \cup ExportPoints
TrajectoryStates == [{"weights", "optimizer", "sampler", "flow"} -> 0..Horizon]

TypeOK ==
    /\ StoreTypeOK
    /\ pc \in Points
    /\ build \in Builds \cup {0}
    /\ mem \in RunDocuments \cup {Absent}
    /\ n \in 0..Horizon
    /\ net \in TrajectoryStates
    /\ bound \in BOOLEAN
    /\ pids \subseteq Builds
    /\ tails \subseteq Rows
    /\ moved \subseteq Entries
    /\ hidden \subseteq HiddenDirs
    /\ adapter \in TrajectoryStates \cup {Absent}
    /\ metadata \in BOOLEAN
    /\ export \in TrajectoryStates \cup {Absent}

Init ==
    /\ StoreInit
    /\ pc = "down"
    /\ build = 0
    /\ mem = Absent
    /\ n = 0
    /\ net = After(0)
    /\ bound = TRUE
    /\ pids = {} /\ tails = {} /\ moved = {} /\ hidden = {}
    /\ adapter = Absent /\ metadata = FALSE /\ export = Absent
-----------------------------------------------------------------------------
\* persist_run_state(run.json, mem): it refuses to replace a generation the
\* process does not know.
Persist ==
    /\ pc \in PersistPoints
    /\ bound
    /\ Live(mem)
    /\ Writes(Run, mem)
    /\ UNCHANGED exportVars

Following == [announce |-> "metrics", recopied |-> "loop", exporting |-> "adapter"]

Persisted ==
    /\ pc \in PersistPoints
    /\ pub.at = "done"
    /\ IF pc \in {"handle", "final"}
       THEN Down /\ UNCHANGED <<diskVars, dirs>>
       ELSE Wrote(Run) /\ Goes(Following[pc])
    /\ UNCHANGED <<build, recoveryVars, exportVars>>

\* A step of the publication under way; a failing one may leave run.json in a
\* generation the process does not know.  What is raised at "done" is raised
\* before or after the new generation is known: the lease, the checkpoint and
\* the namespaces are looked at again before the call's caller goes on.
Publishing ==
    /\ pub.at # "idle" /\ op.at # "pointing"
    /\ PublishStep
    /\ UNCHANGED <<dirs, op, pc, build, memoryVars, recoveryVars, exportVars>>

PublishingFails ==
    /\ build + 1 \in Builds
    /\ op.at # "pointing"
    /\ PublicationFails
    /\ LET known == \/ pub.name # Run
                    \/ pub.at \in {"stage", "aside", "fresh"}
                    \/ pub.at = "swap" /\ file'[Run] # Absent
       IN  bound' \in {known, known \/ pub.at = "done"}
    /\ UNCHANGED <<dirs, op, pc, build, mem, n, net, recoveryVars, exportVars>>
-----------------------------------------------------------------------------
\* MetricsWriter: a fresh file, or a copy of the present one and then its
\* prefix up to the checkpoint under the name.
CreateMetrics ==
    /\ pc = "metrics"
    /\ n = 0 /\ file[Metrics] = Absent
    /\ file' = [file EXCEPT ![Metrics] = MetricsOf(<<>>)]
    /\ Goes("loop")
    /\ UNCHANGED <<staged, previous, pub, dirs, op, build, recoveryVars, exportVars>>

\* Mutant: metrics that will be emptied are not copied first.
CopyMetrics_NonZero ==
    /\ pc = "metrics"
    /\ file[Metrics] # Absent
    /\ tails' = IF n = 0 THEN tails ELSE tails \cup {file[Metrics].rows}
    /\ Goes("prefix")
    /\ UNCHANGED <<storeVars, build, pids, moved, hidden, exportVars>>

CopyMetrics ==
    /\ pc = "metrics"
    /\ file[Metrics] # Absent
    /\ tails' = tails \cup {file[Metrics].rows}
    /\ Goes("prefix")
    /\ UNCHANGED <<storeVars, build, pids, moved, hidden, exportVars>>

WritePrefix ==
    /\ pc = "prefix"
    /\ Writes(Metrics, MetricsOf(SubSeq(file[Metrics].rows, 1, n)))
    /\ UNCHANGED exportVars

PrefixWritten ==
    /\ pc = "prefix"
    /\ Wrote(Metrics)
    /\ Goes("recopied")
    /\ UNCHANGED <<build, recoveryVars, exportVars>>
-----------------------------------------------------------------------------
\* _optimizer_update
Update ==
    /\ pc = "loop"
    /\ n < Horizon
    /\ n' = n + 1
    /\ net' = [part \in DOMAIN net |-> net[part] + 1]
    /\ pc' = "append"
    /\ UNCHANGED <<storeVars, build, mem, bound, recoveryVars, exportVars>>

AppendMetric ==
    /\ pc = "append"
    /\ file' = [file EXCEPT ![Metrics].rows = Append(@, build)]
    /\ Goes(IF OnCadence(n) THEN "save" ELSE "loop")
    /\ UNCHANGED <<staged, previous, pub, dirs, op, build, recoveryVars, exportVars>>

\* The published steps must be those the recorded run would have.
ExpectedSteps == StepsOf(Published) = AllowedPublished(mem) \ {n}

SaveCheckpoint ==
    /\ pc = "save"
    /\ LET c == [step |-> n, build |-> build] IN
          IF ExpectedSteps
          THEN Save(c) \/ SaveRefused(c)
          ELSE At("raised") /\ UNCHANGED <<fileVars, dirs>>
    /\ Goes("saving")
    /\ UNCHANGED <<build, recoveryVars, exportVars>>

InStore ==
    /\ pc \in {"load", "saving"}
    /\ StoreStep
    /\ UNCHANGED <<pc, build, memoryVars, recoveryVars, exportVars>>

InStoreFails ==
    /\ build + 1 \in Builds
    /\ pc \in {"load", "saving"}
    /\ StoreFails
    /\ UNCHANGED <<pc, build, memoryVars, recoveryVars, exportVars>>

\* next_run_document; it takes run_document's place in memory only when it has
\* been written and all that is looked at again has been found as it was.  When
\* something is raised before that, the handler writes the older run_document
\* over it: run.json then names a checkpoint older than the one just saved.
Saved ==
    /\ pc = "saving"
    /\ op.at = "returned"
    /\ op' = NoOp
    /\ pub' = Publication(Run, [mem EXCEPT !.completed = n, !.last = op.ckpt, !.count = @ + 1])
    /\ Goes("commit")
    /\ UNCHANGED <<diskVars, dirs, build, recoveryVars, exportVars>>

Committed ==
    /\ pc = "commit"
    /\ pub.at = "done"
    /\ mem' = pub.doc
    /\ pub' = NoPublication
    /\ pc' = "loop"
    /\ UNCHANGED <<diskVars, dirs, op, build, n, net, bound, recoveryVars, exportVars>>

\* Whatever is raised in the loop, run_document as it is in memory is written
\* once more, as interrupted.
Interrupted ==
    /\ \/ pc \in LoopPoints \ {"saving", "commit"} /\ pub.at = "idle" /\ build + 1 \in Builds
       \/ pc \in LoopPoints /\ pub.at = "failed"
       \/ pc = "saving" /\ op.at = "raised"
    /\ op' = NoOp
    /\ pub' = NoPublication
    /\ mem' = [mem EXCEPT !.status = "interrupted", !.completed = n]
    /\ pc' = "handle"
    /\ UNCHANGED <<diskVars, dirs, build, n, net, bound, recoveryVars, exportVars>>

\* An exception that nothing handles: a publication outside the loop failed, or
\* run.json is not the known generation.
Raised ==
    /\ \/ pub.at = "failed" /\ pc \notin LoopPoints
       \/ pub.at = "idle" /\ pc \in ExportPoints /\ build + 1 \in Builds
       \/ pc \in PersistPoints \ LoopPoints /\ pub.at = "idle" /\ ~(bound /\ Live(mem))
    /\ Down
    /\ hidden' = {}
    /\ UNCHANGED <<diskVars, dirs, build, pids, tails, moved, exportVars>>
-----------------------------------------------------------------------------
BeginExport ==
    /\ pc = "loop"
    /\ n = Horizon
    /\ mem.last # Absent /\ mem.last.step = Horizon
    /\ mem' = [mem EXCEPT !.status = "exporting", !.completed = Horizon,
                          !.metrics = file[Metrics].rows]
    /\ pc' = "exporting"
    /\ UNCHANGED <<storeVars, build, n, net, bound, recoveryVars, exportVars>>

\* Mutant: an adapter that is there is taken for a finished one.
ReuseAdapter_Unfinished ==
    /\ pc = "adapter"
    /\ adapter # Absent
    /\ IF adapter # net
       THEN Refuse
       ELSE Goes("sources") /\ UNCHANGED <<storeVars, build, recoveryVars>>
    /\ UNCHANGED exportVars

\* _save_adapter_checkpoint: the adapter and then its metadata; one that is
\* there must be the trained one.
ReuseAdapter ==
    /\ pc = "adapter"
    /\ adapter # Absent \/ metadata
    /\ IF adapter # net
       THEN Refuse
       ELSE /\ Goes(IF metadata THEN "sources" ELSE "adapter-stage")
            /\ hidden' = IF metadata THEN hidden ELSE hidden \cup {"adapter-stage"}
            /\ UNCHANGED <<storeVars, build, pids, tails, moved>>
    /\ UNCHANGED exportVars

StageAdapter ==
    /\ pc = "adapter"
    /\ adapter = Absent /\ ~metadata
    /\ hidden' = hidden \cup {"adapter-stage"}
    /\ Goes("adapter-stage")
    /\ UNCHANGED <<storeVars, build, pids, tails, moved, exportVars>>

PublishAdapter ==
    /\ pc = "adapter-stage"
    /\ adapter' = net
    /\ Goes("adapter-json")
    /\ UNCHANGED <<storeVars, build, recoveryVars, metadata, export>>

PublishMetadata ==
    /\ pc = "adapter-json"
    /\ metadata' = TRUE
    /\ Goes("adapter-clean")
    /\ UNCHANGED <<storeVars, build, recoveryVars, adapter, export>>

CleanAdapterStage ==
    /\ pc = "adapter-clean"
    /\ hidden' = hidden \ {"adapter-stage"}
    /\ Goes("sources")
    /\ UNCHANGED <<storeVars, build, pids, tails, moved, exportVars>>

\* Private copies of the source checkpoint and the tokenizer.
CopySources ==
    /\ pc = "sources"
    /\ \/ /\ "source-checkpoint" \notin hidden
          /\ hidden' = hidden \cup {"source-checkpoint"}
          /\ Goes("sources")
       \/ /\ "source-checkpoint" \in hidden
          /\ hidden' = hidden \cup {"tokenizer-snapshot"}
          /\ Goes("export")
    /\ UNCHANGED <<storeVars, build, pids, tails, moved, exportVars>>

\* An export that is there is validated against the merged model.
StageExport ==
    /\ pc = "export"
    /\ IF export \notin {Absent, net}
       THEN Refuse
       ELSE /\ hidden' = IF export = Absent THEN hidden \cup {"export"} ELSE hidden
            /\ Goes(IF export = Absent THEN "publish" ELSE "close")
            /\ UNCHANGED <<storeVars, build, pids, tails, moved>>
    /\ UNCHANGED exportVars

PublishExport ==
    /\ pc = "publish"
    /\ export' = net
    /\ hidden' = hidden \ {"export"}
    /\ Goes("close")
    /\ UNCHANGED <<storeVars, build, pids, tails, moved, adapter, metadata>>

\* The private copies are removed; the last document is prepared.
CloseSources ==
    /\ pc = "close"
    /\ \/ \E dir \in hidden: hidden' = hidden \ {dir} /\ Goes("close")
       \/ /\ hidden = {}
          /\ mem' = [mem EXCEPT !.status = "trained_and_exported"]
          /\ pc' = "final"
          /\ UNCHANGED <<n, net, bound, hidden>>
    /\ UNCHANGED <<storeVars, build, pids, tails, moved, exportVars>>

\* Killed, as long as there will be another process.
Kill ==
    /\ pc # "down"
    /\ build + 1 \in Builds
    /\ Down
    /\ UNCHANGED <<diskVars, dirs, build, recoveryVars, exportVars>>

Work ==
    \/ StartUp /\ UNCHANGED exportVars
    \/ Persist \/ Persisted \/ Publishing
    \/ CreateMetrics \/ CopyMetrics \/ WritePrefix \/ PrefixWritten
    \/ Update \/ AppendMetric \/ SaveCheckpoint \/ InStore \/ Saved \/ Committed
    \/ BeginExport \/ ReuseAdapter \/ StageAdapter \/ PublishAdapter
    \/ PublishMetadata \/ CleanAdapterStage \/ CopySources
    \/ StageExport \/ PublishExport \/ CloseSources

Next == Work \/ PublishingFails \/ InStoreFails \/ Interrupted \/ Raised \/ Kill

Spec == Init /\ [][Next]_vars

FairSpec == Spec /\ WF_vars(Work \/ Interrupted \/ Raised)
-----------------------------------------------------------------------------
\* What a process that restores first would read.
Document == Generation(Run)
Recorded == IF Document = Absent THEN Absent ELSE Document.last
Ended == Document # Absent /\ Document.status = "trained_and_exported"

RowsOf(doc) == IF doc = Absent THEN {} ELSE {<<i, doc.rows[i]>>: i \in DOMAIN doc.rows}
AllRows ==
    RowsOf(Generation(Metrics)) \cup UNION {RowsOf(MetricsOf(rows)): rows \in tails}

\* The checkpoint run.json names (12232-12271) is published and whole at every
\* moment, kills, failing removals and replays included: pruning and the
\* replay of leftovers never touch it.
RecordedKept ==
    Recorded # Absent => \E e \in Published: e.whole /\ e.ckpt = Recorded

\* Resuming cuts metrics.csv back to the checkpoint (MetricsWriter, 350-465),
\* and starting over empties it: every row ever written is still in it or in a
\* metrics.recovery-N.csv.
RowsNeverLost == [][AllRows \subseteq AllRows']_vars

\* However often the run was killed and resumed (11838-11966), the next update
\* starts from weights, optimizer, sampler and flow noise that have all seen
\* exactly the updates metrics.csv has rows for, and each checkpoint was built
\* by the process whose row stands at its step.
ExactTrajectory ==
    pc \in {"loop", "save"} =>
        /\ net = After(n)
        /\ Len(file[Metrics].rows) = n
        /\ \A e \in Published: e.ckpt.step <= n /\ file[Metrics].rows[e.ckpt.step] = e.ckpt.build

\* The process identity run.json refers to can be found (7655-7761): it is
\* training.pid or was moved aside, between all the renames that rotate it, and
\* every recovery run.json records is there (7517-7604).
ProcessFound ==
    Document # Absent =>
        /\ Generation(Pid) = PidOf(Document.process) \/ Document.process \in pids
        /\ Document.recovered \subseteq pids

\* The final metrics evidence in run.json (12320-12344) matches metrics.csv ever
\* after, and a run that is recorded as trained and exported has its adapter,
\* the adapter's metadata and an export of the whole trajectory.
EvidenceStands ==
    Document # Absent /\ Document.metrics # Absent =>
        /\ Generation(Metrics) = MetricsOf(Document.metrics)
        /\ Ended => metadata /\ adapter = After(Horizon) /\ export = After(Horizon)

\* The checkpoint the next process continues from: the newest that is published,
\* which may be one newer than the recorded one, if any is recorded at all.
Continued == IF Recorded = Absent THEN Absent ELSE Newest(Published).ckpt

\* Over any kills, failures and restarts the run moves from checkpoint to
\* checkpoint and ends once.  run.json itself may be put back by one checkpoint
\* (the handler of an exception, 12282-12299, after 12253-12278), but what the
\* next process continues from is not: only a run that has no more than its
\* first checkpoint can be made to start over.
Progress == INSTANCE RestartableRun WITH kept <- Continued, ended <- Ended
ImplementsRun == Progress!RestartableSpec

\* "Keep the exact saved checkpoint authoritative across its run-state CAS"
\* (finetune.py:9186): run.json never names an older checkpoint than it did.  The
\* code does not keep this: the handler writes the older one back.
RecordOnlyAdvances ==
    [][Recorded # Absent /\ Recorded' # Absent => Recorded.step <= Recorded'.step]_vars

\* If the last process is spared and runs on, the run ends: no state an earlier
\* process can have left makes a restart refuse (11231-12566).
Completes == <>Ended
=============================================================================
