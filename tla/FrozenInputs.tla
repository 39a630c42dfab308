---------------------------- MODULE FrozenInputs ----------------------------
(***************************************************************************)
(* How a launched process commits to the files it computes from            *)
(* (training/finetune.py, collect_t3b_frozen_input_evidence and            *)
(* finetune_implementation_hashes; training/runtime_provenance.py).        *)
(*                                                                         *)
(* A file's bytes are a version number; whoever else writes the file gives *)
(* it a version it never had before.  One read of a file is one step (a    *)
(* file that changes while it is read raises); a collection of many files  *)
(* is not: it reads every file, uses them, and reads every file again.     *)
(***************************************************************************)
EXTENDS Naturals, Sequences

CONSTANTS
    Files,       \* the physical inputs
    Order,       \* the order in which a capture reads them
    Trees,       \* those of a pinned revision, read once more by every capture
    Source, Native, Dataset, Tokenizer, Evaluation, Converted,
    Modules,     \* the files of code a process may import
    Late,        \* those it imports only when it hashes its implementation
    Installed,   \* those of installed packages, which a RECORD lists
    Exact,       \* the versions of the conversion that hold the native weights
    MaxChanges,  \* how often other programs write a file
    None

ASSUME FrozenInputsAssumption ==
    /\ Order \in Seq(Files)
    /\ Files = {Order[k]: k \in DOMAIN Order}
    /\ {Source, Native, Dataset, Tokenizer, Evaluation, Converted} \subseteq Files
    /\ Trees \subseteq Files \ {Converted}
    /\ {Source, Native, Dataset, Tokenizer} \subseteq Trees
    /\ Late \subseteq Modules /\ Installed \subseteq Modules /\ Files \cap Modules = {}
    /\ MaxChanges \in Nat
    /\ None \notin Nat

Original == 0          \* the bytes the program's constants name

VARIABLES
    disk,       \* what every file and every module holds
    changes,    \* how often another program has written one
    unrecorded, \* the installed files that are not as their RECORD says
    role,       \* what the process was started for, or None
    stage,      \* why it collects its inputs
    pc,
    unread,     \* the files or modules the pass under way has not read yet
    view,       \* what the pass read
    initial,    \* the first view of the collection, or None
    moment,     \* what the files held when the checks on them were done (not in the code)
    evidence,   \* what the last collection returned, or None
    expected,   \* the modules as the process found them when it started
    loaded,     \* the modules it has imported
    hashed,     \* the modules as the passes of the last hashing read them
    live        \* what its components were built from

diskVars == <<disk, changes, unrecorded>>
inputVars == <<view, initial, moment, evidence>>
codeVars == <<expected, loaded, hashed>>

Nothing == [f \in Files |-> None]
NoModules == [m \in Modules |-> None]
NotHashed == [m \in Modules |-> <<>>]
Unbuilt == [statistics |-> None, model |-> None, dataset |-> None, tokenizer |-> None]

\* An exception: the process will end.
Raise ==
    /\ pc' = "raised"
    /\ UNCHANGED <<diskVars, role, stage, unread, inputVars, codeVars, live>>
-----------------------------------------------------------------------------
\* _snapshot_regular_file: what one read of a file returns; a file that changes
\* meanwhile raises, which is the same as reading it later and raising then.
Snapshot(f) == disk[f]

\* _copy_stable_file_no_clobber: a copy for another directory
StableCopy(f) == Snapshot(f)

\* _private_stable_file: a copy nobody else has a name for
PrivateCopy(f) == Snapshot(f)

\* Another program writes a file; the bytes are new. An installer writes the
\* RECORD with it.
Replace(f) ==
    /\ changes < MaxChanges
    /\ changes' = changes + 1
    /\ disk' = [disk EXCEPT ![f] = @ + 1]
    /\ unrecorded' \in {unrecorded \ {f}, unrecorded \cup ({f} \cap Installed)}
    /\ UNCHANGED <<role, stage, pc, unread, inputVars, codeVars, live>>

\* _capture_repository, _capture_installed: the digests of every module.
CaptureModule(m) ==
    /\ pc = "bootstrap"
    /\ m \in unread
    /\ expected' = [expected EXCEPT ![m] = disk[m]]
    /\ unread' = unread \ {m}
    /\ UNCHANGED <<diskVars, role, stage, pc, inputVars, loaded, hashed, live>>

\* prepare_digest: a module is executed only with the bytes found at the start.
Import(modules) ==
    /\ \A m \in modules: disk[m] = expected[m]
    /\ loaded' = loaded \cup modules

ImportRefused(modules) == \E m \in modules: disk[m] # expected[m]
-----------------------------------------------------------------------------
\* A collection starts: paths resolved, nothing read.
Collect(why) ==
    /\ stage' = why
    /\ pc' = "capture"
    /\ unread' = Files
    /\ view' = Nothing
    /\ initial' = None
    /\ moment' = None

\* the first in Order of those not read yet
NextFile(f) ==
    /\ f \in unread
    /\ \E k \in DOMAIN Order: Order[k] = f /\ \A j \in 1..k - 1: Order[j] \notin unread

\* _snapshot_tree_evidence, _snapshot_regular_file
ReadInput(f) ==
    /\ pc = "capture"
    /\ NextFile(f)
    /\ view' = [view EXCEPT ![f] = Snapshot(f)]
    /\ unread' = unread \ {f}
    /\ UNCHANGED <<diskVars, role, stage, pc, initial, moment, evidence, codeVars, live>>

\* _validate_t3b_revision_trees: the files of the trees are read once more.
\* Each is as it was read and as its revision, whose digest is a constant, says.
BeginTrees ==
    /\ pc = "capture"
    /\ unread = {}
    /\ pc' = "trees"
    /\ unread' = Trees
    /\ UNCHANGED <<diskVars, role, stage, inputVars, codeVars, live>>

\* _validate_tree_files_against_revision
OfRevision(f) == Snapshot(f) = view[f] /\ Snapshot(f) = Original

ReadTree(f) ==
    /\ pc = "trees"
    /\ NextFile(f)
    /\ IF OfRevision(f)
       THEN /\ unread' = unread \ {f}
            /\ UNCHANGED <<diskVars, role, stage, pc, inputVars, codeVars, live>>
       ELSE Raise

\* The first capture of the collection is complete.
Initially ==
    /\ pc = "trees"
    /\ unread = {} /\ initial = None
    /\ initial' = view
    /\ view' = Nothing
    /\ pc' = "evaluation"
    /\ UNCHANGED <<diskVars, role, stage, unread, moment, evidence, codeVars, live>>

\* The held-out evaluation is read again: the frozen one, as it was captured.
CheckEvaluation ==
    /\ pc = "evaluation"
    /\ IF disk[Evaluation] = Original /\ initial[Evaluation] = Original
       THEN /\ pc' = "statistics"
            /\ UNCHANGED <<diskVars, role, stage, unread, inputVars, codeVars, live>>
       ELSE Raise

\* The statistics are computed again: the frozen ones, and those of the
\* process where it has some.
ComputeStatistics ==
    /\ pc = "statistics"
    /\ IF /\ disk[Dataset] = Original
          /\ stage \in {"built", "first", "export"} => live.statistics = disk[Dataset]
       THEN /\ pc' = "copy-native"
            /\ UNCHANGED <<diskVars, role, stage, unread, inputVars, codeVars, live>>
       ELSE Raise

\* The conversion is validated on private copies of its source and of itself;
\* view holds the copies.
CopyForValidation(f) ==
    /\ \/ pc = "copy-native" /\ f = Native /\ pc' = "copy-converted"
       \/ pc = "copy-converted" /\ f = Converted /\ pc' = "validate"
    /\ view' = [view EXCEPT ![f] = PrivateCopy(f)]
    /\ UNCHANGED <<diskVars, role, stage, unread, initial, moment, evidence, codeVars, live>>

ConversionHolds ==
    /\ view[Native] = Original /\ view[Converted] \in Exact
    /\ \A f \in {Native, Converted}: disk[f] = view[f] /\ initial[f] = view[f]

\* Mutant: the merged model is compared with the conversion too.
ModelHolds_Merged == stage \in {"built", "first", "export"} => live.model = disk[Converted]

\* Only the collections around the first update look at the live tensors.
ModelHolds == stage \in {"built", "first"} => live.model = disk[Converted]

ValidateConversion ==
    /\ pc = "validate"
    /\ IF ConversionHolds /\ ModelHolds
       THEN /\ pc' = "capture"
            /\ unread' = Files
            /\ view' = Nothing
            /\ moment' = [f \in Files |-> disk[f]]
            /\ UNCHANGED <<diskVars, role, stage, initial, evidence, codeVars, live>>
       ELSE Raise

\* The collections whose evidence must be that of the collection before:
\* around the construction of the components and of the audit bridge.
Compared == {"built", "bridge"}

\* validate_t3b_frozen_input_evidence
ValidEvidence(seen) ==
    /\ \A f \in Files \ {Converted}: seen[f] = Original
    /\ seen[Converted] \in Exact

\* Mutant: the second view is not compared with the first.
Unchanged_OneView == stage \in Compared => initial = evidence

\* _require_unchanged_t3b_inputs: the two views of the collection are equal, and
\* so is, where it is compared, the evidence from before.
Unchanged ==
    /\ view = initial
    /\ stage \in Compared => initial = evidence

Collected ==
    /\ pc = "trees"
    /\ unread = {} /\ initial # None
    /\ IF Unchanged /\ ValidEvidence(initial)
       THEN /\ evidence' = initial
            /\ pc' = "collected"
            /\ UNCHANGED <<diskVars, role, stage, unread, view, initial, moment, codeVars, live>>
       ELSE Raise

Collecting ==
    \/ \E f \in Files: ReadInput(f) \/ ReadTree(f) \/ CopyForValidation(f)
    \/ BeginTrees \/ Initially \/ CheckEvaluation \/ ComputeStatistics
    \/ ValidateConversion \/ Collected
-----------------------------------------------------------------------------
\* finetune_implementation_hashes: every file of code is hashed; what is still
\* to be imported is; every installed file is hashed as its RECORD says, and
\* again with the inventory of its package; no module can be imported after that.
HashStep(m, at) ==
    /\ pc = at
    /\ m \in unread
    /\ hashed' = [hashed EXCEPT ![m] = Append(@, Snapshot(m))]
    /\ unread' = unread \ {m}
    /\ UNCHANGED <<diskVars, role, stage, pc, inputVars, expected, loaded, live>>

HashModule(m) == HashStep(m, "hash")

\* _hash_distribution_recorded_files
HashRecorded(m) ==
    IF pc = "recorded" /\ m \in unread /\ m \in unrecorded
    THEN Raise
    ELSE HashStep(m, "recorded")

\* _hash_distribution_package_inventory
HashInventory(m) == HashStep(m, "inventory")

ImportLate ==
    /\ pc = "hash"
    /\ unread = {}
    /\ IF ImportRefused(Late \ loaded)
       THEN Raise
       ELSE /\ Import(Late \ loaded)
            /\ pc' = "recorded"
            /\ unread' = Installed
            /\ UNCHANGED <<diskVars, role, stage, inputVars, expected, hashed, live>>

BeginInventory ==
    /\ pc = "recorded"
    /\ unread = {}
    /\ pc' = "inventory"
    /\ unread' = Installed
    /\ UNCHANGED <<diskVars, role, stage, inputVars, codeVars, live>>

Freeze ==
    /\ pc = "inventory"
    /\ unread = {}
    /\ pc' = "frozen"
    /\ UNCHANGED <<diskVars, role, stage, unread, inputVars, codeVars, live>>

Implementation ==
    [hashed |-> hashed, loaded |-> [m \in loaded |-> expected[m]]]

Hashing ==
    \/ \E m \in Modules: HashModule(m) \/ HashRecorded(m) \/ HashInventory(m)
    \/ ImportLate \/ BeginInventory \/ Freeze
=============================================================================
