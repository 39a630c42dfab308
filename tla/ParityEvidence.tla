--------------------------- MODULE ParityEvidence ---------------------------
(***************************************************************************)
(* How a trained checkpoint is judged: a floor is measured first; a start  *)
(* marker binds it; only then is the checkpoint scored in both frameworks, *)
(* from the native conversion and from the export (training/evaluation.py); *)
(* the comparison and the floor are joined in a verdict                    *)
(* (mlx_smolvla/training/trained_parity.py).  Four commands, each a process *)
(* of its own that may fail, be killed and be repeated, and a wall clock   *)
(* that may be set back.                                                   *)
(***************************************************************************)
EXTENDS SelfConsistencyFloor, FiniteSets

CONSTANTS Scorer, Trained, FirstExports, MaxClock, MaxTroubles

ASSUME ScorerAssumption == Scorer \in Loaders /\ FirstExports \subseteq Nat

VARIABLES
    marker, outcome, comparison, verdict,   \* the artifacts, or None
    marking,    \* what the command that makes the marker is doing
    scoring,    \* ... that makes the comparison
    judging,    \* ... that makes the verdict
    troubles    \* kills, replaced inputs and set-backs of the clock so far

artifacts == <<marker, outcome, comparison, verdict>>
floorVars == <<floorFiles, runner, workers>>
commandVars == <<marking, scoring, judging>>
worldVars == <<export, tokenizer, clock, troubles>>
conversionVars == <<cacheVars, loader, check>>
vars == <<artifacts, floorVars, commandVars, worldVars, conversionVars>>

NotMarking == [at |-> "idle", floor |-> None, created |-> 0]

NotScoring == [at |-> "idle", floor |-> None, marker |-> None, unread |-> << >>, hashes |-> NotRead,
               native |-> None, read |-> {}, mlx |-> None, again |-> None, under |-> None, created |-> 0]

NotJudging == [at |-> "idle", floor |-> None, unread |-> << >>, found |-> None, created |-> 0]

Init ==
    /\ export \in FirstExports /\ tokenizer = 0 /\ clock = 0
    /\ CacheInit /\ FloorInit
    /\ marker = None /\ outcome = None /\ comparison = None /\ verdict = None
    /\ marking = NotMarking /\ scoring = NotScoring /\ judging = NotJudging
    /\ troubles = {}
-----------------------------------------------------------------------------
\* _load_floor_bundle: the floor is the one its artifacts make.
Rebuilt(report) ==
    \A v \in Variants:
        /\ variant[v] # None
        /\ variant[v].label = report.document.inputs
        /\ variant[v].of = report.document.actions[v]

\* validate_comparison_start_marker
FollowsFloor(document) ==
    /\ document.floor.document.created <= document.floor.time
    /\ document.floor.time < document.created

MarkerStep(from, to) ==
    /\ marking.at = from
    /\ marking' = to
    /\ UNCHANGED <<floorVars, scoring, judging, worldVars, conversionVars>>

ReadFloorForMarker ==
    /\ comparison = None
    /\ floor # None /\ Rebuilt(floor)
    /\ MarkerStep("idle", [NotMarking EXCEPT !.at = "stamp", !.floor = floor])
    /\ UNCHANGED artifacts

\* the time of the marker, and a last look at the floor
StampMarker ==
    /\ marking.at = "stamp"
    /\ IF clock > marking.floor.time /\ clock > marking.floor.document.created
             /\ FollowsFloor([floor |-> marking.floor, created |-> clock])
             /\ floor = marking.floor /\ comparison = None
       THEN MarkerStep("stamp", [marking EXCEPT !.at = "install", !.created = clock])
       ELSE MarkerStep("stamp", NotMarking)
    /\ UNCHANGED artifacts

\* _atomic_json_no_clobber
InstallMarker ==
    /\ MarkerStep("install", NotMarking)
    /\ marker' = IF marker = None
                 THEN [floor |-> marking.floor, created |-> marking.created, time |-> clock]
                 ELSE marker
    /\ UNCHANGED <<outcome, comparison, verdict>>

Mark == ReadFloorForMarker \/ StampMarker \/ InstallMarker
-----------------------------------------------------------------------------
ScoreStep(from, to) ==
    /\ scoring.at = from
    /\ scoring' = to
    /\ UNCHANGED <<floorVars, marking, judging, worldVars>>

ScoringRaises ==
    /\ scoring' = NotScoring
    /\ loader' = [loader EXCEPT ![Scorer] = Idle]
    /\ check' = NoCheck
    /\ UNCHANGED <<artifacts, floorVars, marking, judging, worldVars, cacheVars>>

ScoreOr(condition, from, to) ==
    /\ scoring.at = from
    /\ IF condition
       THEN ScoreStep(from, to) /\ UNCHANGED <<artifacts, conversionVars>>
       ELSE ScoringRaises

\* a file is written again, or another is, under its name
Replaced(report) == floor # report

\* validate_trained_comparison_start_files
StartScoring ==
    /\ comparison = None /\ floor # None /\ marker # None
    /\ Rebuilt(floor)
    /\ marker.floor = floor /\ FollowsFloor(marker) /\ marker.created <= marker.time
    /\ ScoreStep("idle", [NotScoring EXCEPT !.at = "begun", !.floor = floor, !.marker = marker])
    /\ UNCHANGED <<artifacts, conversionVars>>

\* run_trained_comparison_evaluation: an outcome that is there is not replaced.
BeginScoring ==
    ScoreOr(~Replaced(scoring.floor) /\ comparison = None /\ outcome = None,
            "begun", [scoring EXCEPT !.at = "hash", !.unread = InOrder])

HashForScoring ==
    /\ scoring.unread # << >>
    /\ LET f == Head(scoring.unread) IN
          ScoreStep("hash", [scoring EXCEPT !.unread = Tail(@), !.hashes[f] = Version(f)])
    /\ UNCHANGED <<artifacts, conversionVars>>

\* The inputs are those of the floor, now.
BoundToFloor ==
    /\ scoring.unread = << >>
    /\ ScoreOr(scoring.hashes = scoring.floor.document.inputs /\ ~Replaced(scoring.floor),
               "hash", [scoring EXCEPT !.at = "export"])

\* run_finetune_outcome_evaluation: the export is the one run.json names.
ExportIsOfRun == ScoreOr(export = Trained, "export", [scoring EXCEPT !.at = "first load"])

\* load_stats_aware_policy without a tokenizer_dir: the native policy takes its
\* tokenizer from native_cache/hf, which is not the snapshot that is hashed.  Of
\* the inputs it reads the export alone, through the conversion.
NativeLoaded(at) ==
    /\ scoring.at = at
    /\ loader[Scorer].at = "loaded"
    /\ BeginCheck

FirstLoaded ==
    /\ NativeLoaded("first load")
    /\ ScoreStep("first load", [scoring EXCEPT !.at = "first check",
                                               !.mlx = loader[Scorer].weights])
    /\ UNCHANGED artifacts

\* _validate_native_conversion_for_export
NativeValid == check.at = "report" /\ check.source = Trained

\* The first inference: of the weights that were loaded before the validation.
\* (`under' is the floor in place by now, which no process looks at.)
ScoreNative ==
    /\ scoring.at = "first check"
    /\ NativeValid
    /\ ScoreStep("first check", [scoring EXCEPT !.at = "torch", !.native = Validated, !.under = floor])
    /\ loader' = [loader EXCEPT ![Scorer] = Idle]
    /\ UNCHANGED <<artifacts, cacheVars, check>>

\* TorchExportPolicy.load, evaluate_torch_export: what the reference policy reads
ScoreTorch ==
    /\ ScoreStep("torch", [scoring EXCEPT !.at = "second load",
                                       !.read = {<<"tokenizer", tokenizer>>, <<"export", export>>}])
    /\ UNCHANGED <<artifacts, conversionVars>>

SecondLoaded ==
    /\ NativeLoaded("second load")
    /\ ScoreStep("second load", [scoring EXCEPT !.at = "second check",
                                                !.again = loader[Scorer].weights])
    /\ UNCHANGED artifacts

\* run_stats_active_parity, the outcome is written
WriteOutcome ==
    /\ scoring.at = "second check"
    /\ NativeValid
    /\ IF Validated = scoring.native
       THEN /\ outcome' = [native |-> scoring.native, mlx |-> scoring.mlx,
                           again |-> scoring.again, read |-> scoring.read]
            /\ BeginCheck
            /\ ScoreStep("second check", [scoring EXCEPT !.at = "last check"])
            /\ UNCHANGED <<marker, comparison, verdict>>
       ELSE ScoringRaises

\* the digests of both files against the outcome's, assemble_trained_comparison_report
StampComparison ==
    /\ check.at = "report"
    /\ ScoreOr(check.model = scoring.native.model /\ check.map = scoring.native.map, "last check",
               [scoring EXCEPT !.at = "stamped", !.created = clock])

\* a last look at what the comparison started from
LookAgain == ScoreOr(~Replaced(scoring.floor), "stamped", [scoring EXCEPT !.at = "install"])

InstallComparison ==
    /\ ScoreStep("install", NotScoring)
    /\ comparison' = IF comparison = None
                     THEN [floor |-> scoring.floor, marker |-> scoring.marker, native |-> scoring.native,
                           read |-> scoring.read, under |-> scoring.under,
                           created |-> scoring.created, time |-> clock]
                     ELSE comparison
    /\ check' = NoCheck
    /\ UNCHANGED <<marker, outcome, verdict, cacheVars, loader>>

\* a validation that finds a difference
ScoringFails ==
    /\ \/ scoring.at \in {"first check", "second check", "last check"} /\ CheckFails
       \/ scoring.at \in {"first check", "second check"} /\ check.at = "report" /\ ~NativeValid
    /\ ScoringRaises

Score ==
    \/ StartScoring \/ BeginScoring \/ HashForScoring \/ BoundToFloor \/ ExportIsOfRun
    \/ FirstLoaded \/ ScoreNative \/ ScoreTorch \/ SecondLoaded \/ WriteOutcome
    \/ StampComparison \/ LookAgain \/ InstallComparison \/ ScoringFails
-----------------------------------------------------------------------------
Evidence == <<"model", "map", "export", "tokenizer">>
Found(f) == CASE f = "model" -> model [] f = "map" -> nameMap [] OTHER -> Version(f)

JudgeStep(from, to) ==
    /\ judging.at = from
    /\ judging' = to
    /\ UNCHANGED <<floorVars, marking, scoring, worldVars, conversionVars>>

\* evaluate_trained_parity_files reads what it judges, file after file, ...
StartJudging ==
    /\ verdict = None /\ floor # None /\ marker # None /\ comparison # None
    /\ Rebuilt(floor)
    /\ JudgeStep("idle", [NotJudging EXCEPT !.at = "read", !.floor = floor, !.unread = Evidence,
                                            !.found = [f \in Inputs \cup {"model", "map"} |-> None]])
    /\ UNCHANGED artifacts

ReadEvidence ==
    /\ judging.unread # << >>
    /\ LET f == Head(judging.unread) IN
          JudgeStep("read", [judging EXCEPT !.unread = Tail(@), !.found[f] = Found(f)])
    /\ UNCHANGED artifacts

\* Mutant: the inputs are not hashed again.
SameInputs_NotHashed(found) == found.map = comparison.native.map /\ found.model = comparison.native.model

\* ... the conversion and the floor's inputs as the comparison says they were, and
\* its private copies of the conversion validated again
SameInputs(found) ==
    /\ [f \in Inputs |-> found[f]] = judging.floor.document.inputs
    /\ found.model = comparison.native.model /\ found.map = comparison.native.map
    /\ found.model = found.export
    /\ found.map = [source |-> found.export, target |-> found.model]

\* Mutant: the floor is not compared with the one that was bound.
SameFloor_AnyFloor(report) == report.document.inputs = comparison.floor.document.inputs

\* evaluate_trained_parity_documents: what the marker and the comparison bind
SameFloor(report) ==
    /\ marker.floor = report
    /\ comparison.floor = report
    /\ comparison.marker = marker

\* ... in this order
Chronology(report, now) ==
    /\ report.document.created <= report.time /\ report.time < marker.created
    /\ marker.created <= marker.time /\ marker.time <= comparison.created
    /\ comparison.created <= comparison.time /\ comparison.time <= now

Judge ==
    /\ judging.at = "read" /\ judging.unread = << >>
    /\ IF SameInputs(judging.found) /\ SameFloor(judging.floor) /\ Chronology(judging.floor, clock)
       THEN JudgeStep("read", [judging EXCEPT !.at = "judged", !.unread = Evidence, !.created = clock])
       ELSE JudgeStep("read", NotJudging)
    /\ UNCHANGED artifacts

\* ... and reads it all again
Revalidate ==
    /\ judging.unread # << >>
    /\ LET f == Head(judging.unread) IN
          JudgeStep("judged", IF Found(f) = judging.found[f] /\ ~Replaced(judging.floor)
                              THEN [judging EXCEPT !.unread = Tail(@)]
                              ELSE NotJudging)
    /\ UNCHANGED artifacts

InstallVerdict ==
    /\ judging.unread = << >>
    /\ JudgeStep("judged", NotJudging)
    /\ verdict' = IF verdict = None
                  THEN [floor |-> judging.floor, read |-> comparison.read, created |-> judging.created]
                  ELSE verdict
    /\ UNCHANGED <<marker, outcome, comparison>>

Decide == StartJudging \/ ReadEvidence \/ Judge \/ Revalidate \/ InstallVerdict
-----------------------------------------------------------------------------
FloorRuns ==
    /\ (\E r \in Runners: FloorRun(r)) \/ Worker
    /\ UNCHANGED <<artifacts, commandVars, worldVars, conversionVars>>

\* The scorer loads only when it is to score.
Loads ==
    /\ \E p \in Loaders:
          /\ p = Scorer => scoring.at \in {"first load", "second load"}
          /\ Loading(p)
    /\ UNCHANGED <<artifacts, floorVars, commandVars, worldVars>>

Checks ==
    /\ Checking
    /\ UNCHANGED <<artifacts, floorVars, commandVars, worldVars>>

Trouble(kind) == kind \notin troubles /\ Cardinality(troubles) < MaxTroubles /\ troubles' = troubles \cup {kind}

\* A command is killed; one that is repeated starts from the beginning.
Kill ==
    /\ Trouble("kill")
    /\ \/ /\ \E r \in Runners: runner[r].at # "idle" /\ KillRun(r)
          /\ UNCHANGED <<commandVars, loader, check>>
       \/ /\ scoring.at # "idle"
          /\ scoring' = NotScoring
          /\ loader' = [loader EXCEPT ![Scorer] = Idle]
          /\ check' = NoCheck
          /\ UNCHANGED <<marking, judging, floorVars>>
       \/ /\ {marking.at, judging.at} # {"idle"}
          /\ marking' = NotMarking /\ judging' = NotJudging
          /\ UNCHANGED <<scoring, floorVars, loader, check>>
       \/ /\ \E p \in Loaders \ {Scorer}: Unload(p)
          /\ UNCHANGED <<commandVars, floorVars>>
    /\ UNCHANGED <<artifacts, export, tokenizer, clock, cacheVars>>

\* An input is replaced: the checkpoint by the next run's in its directory, or
\* the tokenizer snapshot.
ReplaceInput ==
    /\ Trouble("replace")
    /\ \/ export' = export + 1 /\ UNCHANGED tokenizer
       \/ tokenizer' = tokenizer + 1 /\ UNCHANGED export
    /\ UNCHANGED <<artifacts, floorVars, commandVars, conversionVars, clock>>

Tick ==
    /\ clock < MaxClock
    /\ clock' = clock + 1
    /\ UNCHANGED <<artifacts, floorVars, commandVars, conversionVars, export, tokenizer,
                   troubles>>

SetBack ==
    /\ clock > 0
    /\ Trouble("set back")
    /\ clock' = clock - 1
    /\ UNCHANGED <<artifacts, floorVars, commandVars, conversionVars, export, tokenizer>>

Next ==
    \/ FloorRuns \/ Mark \/ Score \/ Decide
    \/ Loads \/ Checks
    \/ Kill \/ ReplaceInput \/ Tick \/ SetBack

Spec == Init /\ [][Next]_vars
-----------------------------------------------------------------------------
\* Whoever has a verdict compared the scores with the floor of the same inputs:
\* everything the workers of the floor and the reference policy of the
\* comparison read, in processes long gone, was what the floor's hashes name.
\* (Of the native policy it says nothing: ScoredAsValidated is about its weights,
\* and its tokenizer is hashed by no command.)
ComparedWhatFloorMeasured ==
    verdict # None =>
        /\ \A v \in Variants: verdict.floor.document.actions[v] = verdict.floor.document.inputs
        /\ \A pair \in verdict.read: verdict.floor.document.inputs[pair[1]] = pair[2]

\* The floor of a verdict was the one in place when the comparison it judges made
\* its first inference, however the clock was set and whatever other floor runs
\* wrote in between.
FloorFirst == verdict # None => verdict.floor = comparison.under

\* _validate_native_conversion_for_export (evaluation.py:1545): "Bind the native
\* cached tensors used for scoring to the validated export."
ScoredAsValidated ==
    outcome # None => outcome.mlx = outcome.native.model /\ outcome.again = outcome.native.model
=============================================================================
