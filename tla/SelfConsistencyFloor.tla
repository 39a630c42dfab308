------------------------ MODULE SelfConsistencyFloor ------------------------
(***************************************************************************)
(* The floor of a parity verdict (training/self_consistency.py): the       *)
(* reference policy's own spread, measured by one worker process for each  *)
(* perturbation.  A floor run names the inputs of its workers by hashing   *)
(* them before and after; the artifact a worker leaves is labelled with    *)
(* the hashes it was given and reused by later runs, so a run that is      *)
(* killed goes on where it stopped.                                        *)
(***************************************************************************)
EXTENDS ConversionCache, Sequences

CONSTANTS Runners, Variants

VARIABLES
    tokenizer,  \* the version of the other unpinned input, the tokenizer snapshot
    manifest,   \* input_sha256.json, or None
    variant,    \* the artifact of each perturbation, or None
    floor,      \* the floor report: its document, its time and its writer; or None
    runner,     \* what each floor run is doing
    workers,    \* the worker processes; a killed run leaves its worker behind
    clock       \* what time.time_ns returns

Inputs == {"export", "tokenizer"}
InOrder == <<"export", "tokenizer">>
Version(f) == IF f = "export" THEN export ELSE tokenizer

NotRead == [f \in Inputs |-> None]
NoActions == [v \in Variants |-> None]

Resting == [at |-> "idle", unread |-> << >>, hashes |-> NotRead, inputs |-> NotRead,
            assembles |-> FALSE, actions |-> NoActions, created |-> 0]

floorFiles == <<manifest, variant, floor>>

FloorInit ==
    /\ manifest = None /\ variant = NoActions /\ floor = None
    /\ runner = [r \in Runners |-> Resting] /\ workers = {}

Runs(r, from, to) ==
    /\ runner[r].at = from
    /\ runner' = [runner EXCEPT ![r] = to]
-----------------------------------------------------------------------------
\* collect_floor_input_hashes, file after file
Hashing(r) == [runner[r] EXCEPT !.unread = InOrder, !.hashes = NotRead]

HashInput(r) ==
    /\ runner[r].unread # << >>
    /\ LET f == Head(runner[r].unread) IN
          runner' = [runner EXCEPT ![r].unread = Tail(@), ![r].hashes[f] = Version(f)]
    /\ UNCHANGED <<floorFiles, workers>>

\* run_self_consistency_floor, and assemble_existing_floor with the inputs the
\* last run has written down
StartFloor(r) ==
    /\ floor = None
    /\ \E assembles \in BOOLEAN:
          /\ assembles => manifest # None
          /\ Runs(r, "idle", [Hashing(r) EXCEPT !.at = "inputs", !.assembles = assembles,
                                                !.inputs = IF assembles THEN manifest ELSE NotRead])
    /\ UNCHANGED <<floorFiles, workers>>

RunRaises(r) == Runs(r, runner[r].at, Resting) /\ UNCHANGED <<floorFiles, workers>>

InputsHashed(r) ==
    /\ runner[r].at = "inputs" /\ runner[r].unread = << >>
    /\ IF runner[r].assembles /\ runner[r].hashes # runner[r].inputs
       THEN RunRaises(r)
       ELSE /\ Runs(r, "inputs", [runner[r] EXCEPT !.at = "variants", !.inputs = runner[r].hashes])
            /\ manifest' = IF runner[r].assembles THEN manifest ELSE runner[r].hashes
            /\ UNCHANGED <<variant, floor, workers>>

\* A worker is started where there is no artifact, and given the hashes.
StartWorker(r, v) ==
    /\ runner[r].at = "variants"
    /\ runner[r].actions[v] = None
    /\ variant[v] = None
    /\ IF runner[r].assembles
       THEN RunRaises(r)
       ELSE /\ Runs(r, "variants", [runner[r] EXCEPT !.at = "waiting"])
            /\ workers' = workers \cup {[variant |-> v, label |-> runner[r].inputs,
                                        unread |-> InOrder, read |-> NotRead, run |-> r]}
            /\ UNCHANGED floorFiles

\* Mutant: an artifact is reused whatever its label says.
ReadVariant_Unlabelled(r, v) ==
    /\ runner[r].actions[v] = None
    /\ variant[v] # None
    /\ Runs(r, "variants", [runner[r] EXCEPT !.actions[v] = variant[v].of])
    /\ UNCHANGED <<floorFiles, workers>>

\* read_variant_artifact: an artifact that is there must be of these inputs.
ReadVariant(r, v) ==
    /\ runner[r].at = "variants"
    /\ runner[r].actions[v] = None
    /\ variant[v] # None
    /\ IF variant[v].label = runner[r].inputs
       THEN /\ Runs(r, "variants", [runner[r] EXCEPT !.actions[v] = variant[v].of])
            /\ UNCHANGED <<floorFiles, workers>>
       ELSE RunRaises(r)

HashAgain(r) ==
    /\ \A v \in Variants: runner[r].actions[v] # None
    /\ Runs(r, "variants", [Hashing(r) EXCEPT !.at = "again"])
    /\ UNCHANGED <<floorFiles, workers>>

\* the inputs are unchanged; assemble_floor_report
Assemble(r) ==
    /\ runner[r].at = "again" /\ runner[r].unread = << >>
    /\ IF runner[r].hashes = runner[r].inputs
       THEN /\ Runs(r, "again", [runner[r] EXCEPT !.at = "write", !.created = clock])
            /\ UNCHANGED <<floorFiles, workers>>
       ELSE RunRaises(r)

\* write_floor_report replaces whatever another run has written meanwhile.
WriteFloor(r) ==
    /\ Runs(r, "write", Resting)
    /\ floor' = [document |-> [inputs |-> runner[r].inputs, actions |-> runner[r].actions,
                               created |-> runner[r].created],
                 time |-> clock, by |-> r]
    /\ UNCHANGED <<manifest, variant, workers>>

FloorRun(r) ==
    \/ StartFloor(r) \/ HashInput(r) \/ InputsHashed(r)
    \/ \E v \in Variants: StartWorker(r, v) \/ ReadVariant(r, v)
    \/ HashAgain(r) \/ Assemble(r) \/ WriteFloor(r)

\* The run is killed, and its worker is not.
KillRun(r) ==
    /\ Runs(r, runner[r].at, Resting)
    /\ workers' = {[w EXCEPT !.run = IF w.run = r THEN None ELSE w.run]: w \in workers}
    /\ UNCHANGED floorFiles
-----------------------------------------------------------------------------
\* run_reference_variant: the worker reads the inputs and does not hash them.
ReadByWorker(w) ==
    /\ w.unread # << >>
    /\ LET f == Head(w.unread) IN
          workers' = (workers \ {w}) \cup {[w EXCEPT !.unread = Tail(@), !.read[f] = Version(f)]}
    /\ UNCHANGED <<floorFiles, runner>>

\* write_variant_artifact: one rename, which fails where another worker has
\* left an artifact; the run that waits learns of it.
EndWorker(w) ==
    /\ w.unread = << >>
    /\ workers' = workers \ {w}
    /\ variant' = IF variant[w.variant] = None
                  THEN [variant EXCEPT ![w.variant] = [label |-> w.label, of |-> w.read]]
                  ELSE variant
    /\ runner' = IF w.run = None
                 THEN runner
                 ELSE [runner EXCEPT ![w.run] = IF variant[w.variant] = None
                                                THEN [@ EXCEPT !.at = "variants"]
                                                ELSE Resting]
    /\ UNCHANGED <<manifest, floor>>

Worker == \E w \in workers: ReadByWorker(w) \/ EndWorker(w)
-----------------------------------------------------------------------------
\* The actions a floor is of were computed, by whichever run's workers, from the
\* inputs it names.
FloorMeasured ==
    floor # None => \A v \in Variants: floor.document.actions[v] = floor.document.inputs
=============================================================================
