---------------------------- MODULE LaunchBinding ----------------------------
(***************************************************************************)
(* prepare_lora_finetune_launch writes launch.json, the commitment of a    *)
(* run to its inputs; run_lora_finetune, started as often as it takes,     *)
(* compares it with what it finds before it trains and before it exports,  *)
(* and holds what it made until run.json names it (training/finetune.py).  *)
(***************************************************************************)
EXTENDS FrozenInputs

CONSTANTS Horizon, MaxKills

ASSUME LaunchBindingAssumption == Horizon \in Nat /\ MaxKills \in Nat

VARIABLES
    prepared,   \* the output directory is there
    launch,     \* launch.json, or None
    committed,  \* launch.json as the process read it, or None
    base,       \* the conversion as the process hashed it for its base artifact
    n, used,    \* the updates made, and the versions they were computed from
    checkpoint, \* the last checkpoint, or None
    private,    \* the private copies the export reads
    held,       \* the artifacts the process has bound
    staged, swapped, entry, report,     \* those of MergedExport
    foreign,    \* the artifacts another program has replaced
    complete,   \* run.json of the completed run, or None
    returned,   \* run_lora_finetune has returned
    kills

INSTANCE MergedExport

progress == <<base, n, used>>
stageVars == <<staged, swapped, report>>
runVars == <<progress, private, held, stageVars>>
storeVars == <<prepared, launch, checkpoint, foreign, entry, complete, returned>>
processVars == <<role, stage, pc, unread, inputVars, codeVars, live, committed, runVars>>
vars == <<diskVars, processVars, storeVars, kills>>

NoCopies == [source |-> None, tokenizer |-> None]

Init ==
    /\ disk = [f \in Files \cup Modules |-> Original] /\ changes = 0 /\ unrecorded = {}
    /\ role = None /\ stage = None /\ pc = "down" /\ unread = {}
    /\ view = Nothing /\ initial = None /\ moment = None /\ evidence = None
    /\ expected = NoModules /\ loaded = {} /\ hashed = NotHashed
    /\ live = Unbuilt
    /\ prepared = FALSE /\ launch = None /\ committed = None
    /\ base = None /\ n = 0 /\ used = {} /\ private = NoCopies /\ held = {}
    /\ staged = None /\ swapped = FALSE /\ entry = None /\ report = None
    /\ checkpoint = None /\ foreign = {} /\ complete = None
    /\ returned = FALSE /\ kills = 0

\* The process ends and its memory is gone; a stage it leaves is swept.
End ==
    /\ role' = None /\ stage' = None /\ pc' = "down" /\ unread' = {}
    /\ view' = Nothing /\ initial' = None /\ moment' = None /\ evidence' = None
    /\ expected' = NoModules /\ loaded' = {} /\ hashed' = NotHashed
    /\ live' = Unbuilt
    /\ committed' = None
    /\ base' = None /\ n' = 0 /\ used' = {} /\ private' = NoCopies /\ held' = {}
    /\ staged' = None /\ swapped' = FALSE /\ report' = None
    /\ UNCHANGED diskVars

Refuse == Raise /\ UNCHANGED <<committed, runVars, storeVars, kills>>

Goes(point) ==
    /\ pc' = point
    /\ UNCHANGED <<diskVars, role, stage, unread, inputVars, codeVars, storeVars, kills>>

Collects(why) ==
    /\ Collect(why)
    /\ UNCHANGED <<diskVars, role, evidence, codeVars, storeVars, kills>>

Hashes ==
    /\ pc' = "hash"
    /\ unread' = Modules
    /\ hashed' = NotHashed
    /\ UNCHANGED <<diskVars, role, stage, inputVars, expected, loaded, storeVars, kills>>
-----------------------------------------------------------------------------
\* A process is started for one of the two; a launch is prepared into a
\* directory that is not there, and trained from one that is.  (A run whose
\* checkpoints, metrics or adapter were replaced is not taken up again.)
Start(what) ==
    /\ pc = "down"
    /\ foreign \subseteq {"export"}
    /\ what = "prepare" => ~prepared
    /\ what = "train" => prepared /\ complete = None
    /\ role' = what
    /\ pc' = "bootstrap"
    /\ unread' = Modules
    /\ UNCHANGED <<diskVars, stage, inputVars, codeVars, live, committed, runVars, storeVars, kills>>

\* _audit_preloaded_modules: whatever is loaded at the start was captured.
Booted ==
    /\ pc = "bootstrap"
    /\ unread = {}
    /\ IF ImportRefused(Modules \ Late)
       THEN Refuse
       ELSE /\ Import(Modules \ Late)
            /\ pc' = IF role = "prepare" THEN "begin" ELSE "launch"
            /\ UNCHANGED <<diskVars, role, stage, unread, inputVars, expected, hashed, live,
                           committed, runVars, storeVars, kills>>

\* launch.json is read once, and the latest checkpoint taken.
ReadLaunch ==
    /\ pc = "launch"
    /\ IF launch = None
       THEN Refuse
       ELSE /\ committed' = launch
            /\ Goes("begin")
            /\ UNCHANGED <<live, runVars>>

Prebuild ==
    /\ pc = "begin"
    /\ Collects("prebuild")
    /\ UNCHANGED <<live, committed, runVars>>

\* _build_training_components: statistics, model and bridge, in this order
BuildStatistics ==
    /\ pc = "collected" /\ stage = "prebuild"
    /\ live' = [live EXCEPT !.statistics = disk[Dataset]]
    /\ Goes("model")
    /\ UNCHANGED <<committed, runVars>>

BuildModel ==
    /\ pc = "model"
    /\ live' = [live EXCEPT !.model = disk[Converted]]
    /\ Goes("bridge")
    /\ UNCHANGED <<committed, runVars>>

BuildBridge ==
    /\ pc = "bridge"
    /\ live' = [live EXCEPT !.dataset = disk[Dataset], !.tokenizer = disk[Tokenizer]]
    /\ Goes(IF role = "prepare" THEN "built" ELSE "base")
    /\ UNCHANGED <<committed, runVars>>

\* training_base_artifact_identity
HashBase ==
    /\ pc = "base"
    /\ base' = disk[Converted]
    /\ IF role = "prepare"
       THEN Hashes
       ELSE Goes("built")
    /\ UNCHANGED <<live, committed, n, used, private, held, stageVars>>

Built ==
    /\ pc = "built"
    /\ Collects("built")
    /\ UNCHANGED <<live, committed, runVars>>

\* _validate_t3b_training_bridge_semantics: a second bridge is built and has
\* the same evidence; then the inputs are collected again.
AuditBridge ==
    /\ pc = "collected" /\ stage = "built"
    /\ IF disk[Dataset] = live.dataset /\ disk[Tokenizer] = live.tokenizer
       THEN Collects("bridge") /\ UNCHANGED <<live, committed, runVars>>
       ELSE Refuse

Audited ==
    /\ pc = "collected" /\ stage = "bridge"
    /\ IF role = "prepare"
       THEN Goes("base")
       ELSE Hashes
    /\ UNCHANGED <<live, committed, runVars>>
-----------------------------------------------------------------------------
\* training_run_config_sha256, without the settings, which never change
RunConfig(document) == <<document.base, document.statistics>>

\* _validate_training_bridge_evidence: what the bridge reads
Bridge == <<live.dataset, live.tokenizer>>

\* assemble_finetune_launch_config, of the last evidence
Document ==
    [frozen |-> evidence, base |-> base, statistics |-> live.statistics,
     bridge |-> Bridge, code |-> Implementation]

\* validate_finetune_launch_config
ValidDocument(doc) ==
    /\ ValidEvidence(doc.frozen)
    /\ doc.base = doc.frozen[Converted]
    /\ doc.statistics = doc.frozen[Dataset]

\* the document that will be launch.json
Assemble ==
    /\ pc = "frozen" /\ role = "prepare"
    /\ IF ValidDocument(Document)
       THEN committed' = Document /\ Goes("mkdir") /\ UNCHANGED <<live, runVars>>
       ELSE Refuse

\* _create_safe_directory_no_clobber
MakeDirectory ==
    /\ pc = "mkdir"
    /\ ~prepared
    /\ prepared' = TRUE
    /\ pc' = "install"
    /\ UNCHANGED <<diskVars, role, stage, unread, inputVars, codeVars, live, committed, runVars,
                   launch, checkpoint, foreign, entry, complete, returned, kills>>

\* write_finetune_launch_config
Install ==
    /\ pc = "install"
    /\ launch = None
    /\ launch' = committed
    /\ End
    /\ UNCHANGED <<prepared, checkpoint, foreign, entry, complete, returned, kills>>
-----------------------------------------------------------------------------
\* validate_finetune_launch_runtime_binding
Bound == ValidDocument(Document) /\ committed = Document

\* What the process computes from is what its modules and its base weights hold.
Own == {<<Converted, live.model>>} \cup {<<m, expected[m]>>: m \in loaded}

\* Before the run begins; the updates go on from the last checkpoint, which must
\* be of the same configuration.
BindRun ==
    /\ pc = "frozen" /\ role = "train" /\ stage = "bridge"
    /\ IF Bound /\ (checkpoint # None => checkpoint.config = RunConfig(committed))
       THEN /\ n' = IF checkpoint = None THEN 0 ELSE checkpoint.n
            /\ used' = Own \cup (IF checkpoint = None THEN {} ELSE checkpoint.used)
            /\ Goes("begun")
            /\ UNCHANGED <<live, committed, base, private, held, stageVars>>
       ELSE Refuse

\* ... before its first update and before its export
BindAgain ==
    /\ pc = "frozen" /\ role = "train" /\ stage \in {"first", "export"}
    /\ IF Bound
       THEN Goes(IF stage = "first" THEN "loop" ELSE "source") /\ UNCHANGED <<live, committed, runVars>>
       ELSE Refuse

Begin ==
    /\ pc = "begun"
    /\ Collects("first")
    /\ UNCHANGED <<live, committed, runVars>>

\* launch.json is read again
Reread ==
    /\ pc = "collected" /\ stage = "first"
    /\ IF launch = committed
       THEN Hashes /\ UNCHANGED <<live, committed, runVars>>
       ELSE Refuse

\* An update decodes the frames of its batch from the dataset's files.
Update ==
    /\ pc = "loop"
    /\ n < Horizon
    /\ n' = n + 1
    /\ used' = used \cup {<<Dataset, disk[Dataset]>>}
    /\ Goes("loop")
    /\ UNCHANGED <<live, committed, base, private, held, stageVars>>

\* save_training_checkpoint; what it saved is held until run.json names it
Save ==
    /\ pc = "loop"
    /\ n > (IF checkpoint = None THEN 0 ELSE checkpoint.n)
    /\ checkpoint' = [n |-> n, used |-> used, config |-> RunConfig(committed)]
    /\ held' = {"checkpoints"}
    /\ pc' = "saved"
    /\ UNCHANGED <<diskVars, role, stage, unread, inputVars, codeVars, live, committed, progress, private,
                   stageVars, prepared, launch, foreign, entry, complete, returned, kills>>
-----------------------------------------------------------------------------
\* _revalidate_bound_regular_file_at: what is bound has its name, and its bytes.
StillOwn(artifact) == artifact \in held => artifact \notin foreign

HeldCheckpoints == StillOwn("checkpoints")
HeldMetrics == StillOwn("metrics")
HeldAdapter == StillOwn("adapter")
HeldExport == StillOwn("export")

\* require_output_lease
Held == HeldCheckpoints /\ HeldMetrics /\ HeldAdapter /\ HeldExport

\* _open_bound_regular_file_at: an artifact, as it was made, is kept open.
TakeHold(artifact) ==
    /\ held' = held \cup {artifact}
    /\ UNCHANGED <<committed, progress, private, stageVars>>

HoldMetrics == TakeHold("metrics")
HoldAdapter == TakeHold("adapter")
HoldExport == TakeHold("export")

\* _persist_run_state_with_checkpoint_binding
RecordSave ==
    /\ pc = "saved" /\ n < Horizon
    /\ IF Held
       THEN /\ held' = {}
            /\ Goes("loop")
            /\ UNCHANGED <<live, committed, progress, private, stageVars>>
       ELSE Refuse

\* The final save is recorded, or was when the run was resumed.
BindCheckpoints ==
    /\ pc \in {"loop", "saved"}
    /\ n = Horizon /\ checkpoint # None /\ checkpoint.n = n
    /\ IF Held
       THEN TakeHold("checkpoints") /\ Goes("metrics") /\ UNCHANGED live
       ELSE Refuse

BindMetrics ==
    /\ pc = "metrics"
    /\ IF Held
       THEN HoldMetrics /\ Goes("exporting") /\ UNCHANGED live
       ELSE Refuse

\* Mutant: the inputs are not collected again before the export.
BindAdapter_NoCollection ==
    /\ pc = "exporting"
    /\ Held
    /\ HoldAdapter
    /\ live' = [live EXCEPT !.model = None]
    /\ Goes("source")

\* run.json says that the run is exporting; the adapter is written and bound,
\* and merged into the model; the inputs are collected without looking at it.
BindAdapter ==
    /\ pc = "exporting"
    /\ IF Held
       THEN /\ HoldAdapter
            /\ live' = [live EXCEPT !.model = None]
            /\ Collects("export")
       ELSE Refuse

ExportCollected ==
    /\ pc = "collected" /\ stage = "export"
    /\ Hashes
    /\ UNCHANGED <<live, committed, runVars>>

\* A source is as launch.json says.
AsLaunched(f) == Snapshot(f) = committed.frozen[f]

\* The files are compared with launch.json, copied, and the copies compared.
CheckSource(at, f, next) ==
    /\ pc = at
    /\ IF AsLaunched(f)
       THEN Goes(next) /\ UNCHANGED <<live, committed, runVars>>
       ELSE Refuse

CopySource(at, file, f, next) ==
    /\ pc = at
    /\ IF AsLaunched(f)
       THEN /\ private' = [private EXCEPT ![file] = StableCopy(f)]
            /\ Goes(next)
            /\ UNCHANGED <<live, committed, progress, held, stageVars>>
       ELSE Refuse

\* _private_t3b_source_checkpoint, _private_t3b_tokenizer_snapshot
EnterSource ==
    \/ CheckSource("source", Source, "copy-source")
    \/ CopySource("copy-source", "source", Source, "tokenizer")

EnterTokenizer ==
    \/ CheckSource("tokenizer", Tokenizer, "copy-tokenizer")
    \/ CopySource("copy-tokenizer", "tokenizer", Tokenizer, "export")

\* The tensors after the last update, and the files generated from the copies.
MergedModel == <<"merged", used>>
SupportFiles == <<"support", private, live.statistics>>

\* An export a killed process has published is taken as it is.
EnterExport ==
    /\ pc = "export"
    /\ IF ~Held
       THEN Refuse
       ELSE \/ /\ entry = None
               /\ CreateStage
               /\ pc' = "stage-model"
               /\ UNCHANGED <<diskVars, role, stage, unread, inputVars, codeVars, live, committed, progress,
                              private, held, prepared, launch, checkpoint, foreign, complete, returned, kills>>
            \/ /\ entry # None
               /\ Goes("bind")
               /\ UNCHANGED <<live, committed, runVars>>

\* A step of _export_merged_checkpoint_under_bound_parent
Staging(at, next) ==
    /\ pc = at
    /\ pc' = next
    /\ UNCHANGED <<diskVars, role, stage, unread, inputVars, codeVars, live, committed, progress,
                   private, held, prepared, launch, checkpoint, foreign, complete, returned, kills>>

WriteModel == Staging("stage-model", "stage-support") /\ Write("model", MergedModel)
WriteSupport == Staging("stage-support", "stage-manifest") /\ Write("support", SupportFiles)
HashStage == Staging("stage-manifest", "check-stage") /\ WriteManifest

\* _publish_directory_no_clobber: a stage that was swapped is not published, and
\* one that was swapped while it was, is renamed away.
CheckStage ==
    /\ pc = "check-stage"
    /\ IF swapped
       THEN Refuse
       ELSE Goes("rename") /\ UNCHANGED <<live, committed, runVars>>

RenameStage == Staging("rename", "renamed") /\ Rename

CheckRenamed ==
    /\ pc = "renamed"
    /\ IF swapped
       THEN Staging("renamed", "raised") /\ Quarantine
       ELSE Goes("check-export") /\ UNCHANGED <<live, committed, runVars>>

\* What is published is validated only now; what is raised leaves it there.
ValidatePublished ==
    /\ pc = "check-export"
    /\ IF Consistent(entry) /\ Digests(entry) = report
       THEN Goes("bind") /\ UNCHANGED <<live, committed, runVars>>
       ELSE Refuse

ValidateBound ==
    /\ pc = "bind"
    /\ IF Held /\ Holds(entry, MergedModel, SupportFiles)
       THEN /\ report' = Digests(entry)
            /\ Goes("files")
            /\ UNCHANGED <<live, committed, progress, private, held, staged, swapped>>
       ELSE Refuse

\* Mutant: the files are bound whatever they hold since the validation.
BindExport_AsFound ==
    /\ pc = "files"
    /\ HoldExport /\ Goes("leave") /\ UNCHANGED live

BindExport ==
    /\ pc = "files"
    /\ IF Consistent(entry) /\ Digests(entry) = report
       THEN HoldExport /\ Goes("leave") /\ UNCHANGED live
       ELSE Refuse

\* the private copies are left: the originals are still those of launch.json
LeaveCopies ==
    /\ pc = "leave"
    /\ IF Held /\ AsLaunched(Tokenizer) /\ AsLaunched(Source)
       THEN Goes("publish") /\ UNCHANGED <<live, committed, runVars>>
       ELSE Refuse

Revalidate ==
    /\ pc = "publish"
    /\ IF Held
       THEN Goes("persist") /\ UNCHANGED <<live, committed, runVars>>
       ELSE Refuse

\* run.json of the completed run; `replaced' and `exported' are what was foreign
\* and what the export held at that moment
Publish ==
    /\ pc = "persist"
    /\ complete' = [used |-> used, private |-> private, report |-> report,
                    replaced |-> foreign, exported |-> Digests(entry)]
    /\ pc' = "published"
    /\ UNCHANGED <<diskVars, role, stage, unread, inputVars, codeVars, live, committed,
                   runVars, prepared, launch, checkpoint, foreign, entry, returned, kills>>

\* What was bound is looked at once more; what is raised leaves run.json.
Return ==
    /\ pc = "published"
    /\ IF Held
       THEN /\ returned' = TRUE
            /\ End
            /\ UNCHANGED <<prepared, launch, checkpoint, foreign, entry, complete, kills>>
       ELSE Refuse
-----------------------------------------------------------------------------
InputsCollected ==
    /\ Collecting
    /\ UNCHANGED <<committed, runVars, storeVars, kills>>

CodeHashed ==
    /\ Hashing
    /\ UNCHANGED <<committed, runVars, storeVars, kills>>

Booting ==
    /\ \E m \in Modules: CaptureModule(m)
    /\ UNCHANGED <<committed, runVars, storeVars, kills>>

\* Another program replaces an input, a file of code, or an artifact the
\* process holds; the process is killed.
ReplaceInput ==
    /\ \E f \in Files \cup Modules: Replace(f)
    /\ UNCHANGED <<committed, runVars, storeVars, kills>>

ReplaceArtifact ==
    /\ changes < MaxChanges
    /\ changes' = changes + 1
    /\ \E artifact \in held \ {"export"}: foreign' = foreign \cup {artifact}
    /\ UNCHANGED <<disk, unrecorded, processVars, prepared, launch, checkpoint, entry, complete,
                   returned, kills>>

TamperExport ==
    /\ changes < MaxChanges
    /\ changes' = changes + 1
    /\ Tamper
    /\ foreign' = foreign \cup (IF entry' # entry THEN held \cap {"export"} ELSE {})
    /\ UNCHANGED <<disk, unrecorded, role, stage, pc, unread, inputVars, codeVars, live, committed,
                   progress, private, held, prepared, launch, checkpoint, complete, returned, kills>>

\* the exception reaches the top
Raised ==
    /\ pc = "raised"
    /\ End
    /\ UNCHANGED <<storeVars, kills>>

Kill ==
    /\ pc \notin {"down", "raised"}
    /\ kills < MaxKills
    /\ kills' = kills + 1
    /\ End
    /\ UNCHANGED storeVars

Preparing ==
    \/ BuildStatistics \/ BuildModel \/ BuildBridge \/ HashBase \/ Built \/ AuditBridge \/ Audited
    \/ Assemble \/ MakeDirectory \/ Install

Training ==
    \/ ReadLaunch \/ BindRun \/ BindAgain \/ Begin \/ Reread \/ Update \/ Save \/ RecordSave
    \/ BindCheckpoints \/ BindMetrics \/ BindAdapter \/ ExportCollected \/ EnterSource \/ EnterTokenizer

Exporting ==
    \/ EnterExport \/ WriteModel \/ WriteSupport \/ HashStage \/ CheckStage \/ RenameStage
    \/ CheckRenamed \/ ValidatePublished \/ ValidateBound \/ BindExport \/ LeaveCopies
    \/ Revalidate \/ Publish \/ Return

Work ==
    \/ Booting \/ Booted \/ Prebuild \/ InputsCollected \/ CodeHashed
    \/ Preparing \/ Training \/ Exporting \/ Raised

Next ==
    \/ Start("prepare") \/ Start("train")
    \/ Work
    \/ ReplaceInput \/ ReplaceArtifact \/ TamperExport \/ Kill

Spec == Init /\ [][Next]_vars

FairSpec == Spec /\ WF_vars(Work) /\ WF_vars(Start("train"))
-----------------------------------------------------------------------------
\* What a collection returns is what the files held, all of them at once, when
\* the evaluation, the statistics, the conversion and the live tensors had been
\* checked against them, though no two files are read together and each may be
\* replaced between any two reads.
EvidenceAtomic == pc = "collected" => evidence = moment

\* The run that is complete was computed, by all its processes, from what
\* launch.json names and from nothing else: the frames of every update, the
\* base weights, the code, and what was copied into the export.
TrainedOnLaunch ==
    complete # None =>
        /\ complete.used \subseteq {<<f, launch.frozen[f]>>: f \in Files}
                               \cup {<<m, launch.code.loaded[m]>>: m \in DOMAIN launch.code.loaded}
        /\ complete.private = [source |-> launch.frozen[Source],
                              tokenizer |-> launch.frozen[Tokenizer]]

\* When run_lora_finetune returns, every artifact run.json names was still the
\* process's own at the moment run.json was published, and the export held the
\* model trained and the files generated from the inputs of launch.json.
ReturnedMeansHeld ==
    returned =>
        /\ complete.replaced = {}
        /\ complete.exported = [model |-> <<"merged", complete.used>>,
                                support |-> <<"support", complete.private, launch.statistics>>]

\* Nothing of what the process does itself is taken for a change: once nobody
\* touches what launch.json names, the run is completed, if it is started again
\* after every kill.
Undisturbed ==
    /\ launch # None
    /\ \A f \in Files: disk[f] = launch.frozen[f]
    /\ \A m \in Modules:
          /\ disk[m] = launch.code.loaded[m]
          /\ \A k \in DOMAIN launch.code.hashed[m]: disk[m] = launch.code.hashed[m][k]
    /\ unrecorded = {}
    /\ foreign = {}
    /\ entry # None => \A f \in Contents: Foreign \notin {entry[f], entry.manifest[f]}

QuietRunEnds == <>[]Undisturbed => <>(complete # None)
=============================================================================
