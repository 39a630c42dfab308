--------------------------- MODULE CheckpointStore ---------------------------
(***************************************************************************)
(* The checkpoint directory of a training run (training/finetune.py):      *)
(* save_training_checkpoint, load_latest_training_checkpoint,              *)
(* prune_training_checkpoints and the latest.json pointer.                 *)
(*                                                                         *)
(* A checkpoint is written into a hidden directory and renamed to its step *)
(* name; then the pointer is published and the oldest checkpoints are      *)
(* renamed to hidden names and removed.  Every rename and removal is an    *)
(* action, and the process may be killed or raise between two of them; it  *)
(* cleans nothing up.  Both entry points refuse a directory that holds     *)
(* anything but published checkpoints and the pointer.                     *)
(*                                                                         *)
(* A checkpoint is known by its step and the process that built it: two    *)
(* processes give the same step different elapsed times, hence hashes.     *)
(***************************************************************************)
EXTENDS StateFiles, FiniteSets

CONSTANTS
    Latest,     \* the name of the pointer document
    Builds,     \* the processes
    Horizon,    \* selected_steps
    Interval,   \* checkpoint_interval
    KeepLast    \* checkpoints retained (3 in the code)

ASSUME CheckpointConstants ==
    /\ Latest \in Names
    /\ Horizon \in Nat \ {0}
    /\ Interval \in Nat \ {0}
    /\ KeepLast \in Nat \ {0}
    /\ [step: 1..Horizon, build: Builds] \subseteq Documents

VARIABLES
    dirs,       \* the directories under the checkpoint root
    op          \* the call the running process is in

storeVars == <<fileVars, dirs, op>>

Steps == 1..Horizon
Checkpoints == [step: Steps, build: Builds]
Kinds == {"step", "stage", "discarded", "recovery", "pruned"}
Entries == [kind: Kinds, ckpt: Checkpoints, whole: BOOLEAN]

\* after a call, "returned" or "raised" stays until the caller takes note
OpPoints == {"idle", "staged", "discarded", "replaced", "recover", "pointer",
             "pointing", "prune", "pruning", "returned", "raised"}
NoOp == [at |-> "idle", ckpt |-> Absent, spare |-> Absent]

StoreTypeOK ==
    /\ FilesTypeOK
    /\ dirs \subseteq Entries
    /\ op \in [at: OpPoints,
              ckpt: Checkpoints \cup {Absent},
              spare: Checkpoints \cup {Absent}]

StoreInit ==
    /\ FilesInit
    /\ dirs = {}
    /\ op = NoOp
-----------------------------------------------------------------------------
Published == {e \in dirs: e.kind = "step"}
StepsOf(E) == {e.ckpt.step: e \in E}

\* Anything under a name that is neither a step's nor the pointer's.
Debris == Published # dirs \/ Leftovers(Latest)

Newest(E) == CHOOSE e \in E: \A f \in E: f.ckpt.step <= e.ckpt.step
Oldest(E) == CHOOSE e \in E: \A f \in E: e.ckpt.step <= f.ckpt.step

LastOf(S) == {s \in S: Cardinality({t \in S: t > s}) < KeepLast}

\* The steps that get a checkpoint, and those still there after step s.
OnCadence(s) == s = 1 \/ s % Interval = 0 \/ s = Horizon
Retained(s) == LastOf({t \in 1..s: t = s \/ t = 1 \/ t % Interval = 0})

At(where) == op' = [op EXCEPT !.at = where]
Renamed(e, kind) == dirs' = (dirs \ {e}) \cup {[e EXCEPT !.kind = kind]}
-----------------------------------------------------------------------------
\* save_training_checkpoint(c): the namespace is checked, then the hidden
\* directory is created and written.
SaveAccepts == ~Debris /\ \A e \in dirs: e.whole

SaveRefused(c) ==
    /\ op = NoOp
    /\ ~SaveAccepts
    /\ op' = [op EXCEPT !.at = "raised", !.ckpt = c]
    /\ UNCHANGED <<fileVars, dirs>>

Save(c) ==
    /\ op = NoOp
    /\ SaveAccepts
    /\ dirs' = dirs \cup {[kind |-> "stage", ckpt |-> c, whole |-> TRUE]}
    /\ op' = [op EXCEPT !.at = "staged", !.ckpt = c]
    /\ UNCHANGED fileVars

Staged == CHOOSE e \in dirs: e.kind = "stage"
Target == {e \in Published: e.ckpt.step = op.ckpt.step}

\* The same checkpoint is published already: the new copy is removed.
SaveDiscard ==
    /\ op.at = "staged"
    /\ \E e \in Target: e.ckpt = op.ckpt
    /\ Renamed(Staged, "discarded")
    /\ At("discarded")
    /\ UNCHANGED fileVars

SaveRemove ==
    /\ op.at = "discarded"
    /\ dirs' = {e \in dirs: e.kind # "discarded"}
    /\ At("pointer")
    /\ UNCHANGED fileVars

\* Mutant: the other checkpoint is removed before the new one is published.
SaveReplace_Removes ==
    /\ op.at = "staged"
    /\ \E e \in Target: e.ckpt # op.ckpt /\ dirs' = dirs \ {e}
    /\ At("replaced")
    /\ UNCHANGED fileVars

\* Another checkpoint has the step's name: it is moved out of the way, and the
\* call will raise when pruning finds it there.
SaveReplace ==
    /\ op.at = "staged"
    /\ \E e \in Target: e.ckpt # op.ckpt /\ Renamed(e, "recovery")
    /\ At("replaced")
    /\ UNCHANGED fileVars

\* Mutant: the pointer is not moved on.
SavePublish_NoPointer ==
    /\ op.at = "replaced" \/ (op.at = "staged" /\ Target = {})
    /\ Renamed(Staged, "step")
    /\ At("prune")
    /\ UNCHANGED fileVars

SavePublish ==
    /\ op.at = "replaced" \/ (op.at = "staged" /\ Target = {})
    /\ Renamed(Staged, "step")
    /\ At("pointer")
    /\ UNCHANGED fileVars
-----------------------------------------------------------------------------
\* load_latest_training_checkpoint(recorded, allowed): recorded is the
\* checkpoint run.json names or Absent, allowed the one step that may be newer
\* (0: none).
Fits(e, recorded, allowed) ==
    /\ e.whole
    /\ OnCadence(e.ckpt.step)
    /\ recorded # Absent =>
           /\ e.ckpt.step = recorded.step => e.ckpt = recorded
           /\ e.ckpt.step <= recorded.step \/ e.ckpt.step = allowed
    /\ recorded = Absent /\ allowed # 0 => e.ckpt.step = allowed

\* The unrecorded checkpoint that may be moved away when it is damaged.
Spare(recorded, allowed) ==
    {e \in Published: e.ckpt.step = allowed /\ ~Fits(e, recorded, allowed)}

Candidates(recorded, allowed) == Published \ Spare(recorded, allowed)

\* The steps a crash at any point of a save may have left.
Trajectories(recorded, allowed) ==
    IF recorded = Absent
    THEN {{allowed}}
    ELSE LET kept == Retained(recorded.step)
         IN  {kept} \cup IF allowed = 0 THEN {}
                         ELSE {kept \cup {allowed}, LastOf(kept \cup {allowed})}

LoadAccepts(recorded, allowed) ==
    LET steps == StepsOf(Candidates(recorded, allowed)) IN
    /\ recorded # Absent /\ allowed # 0 => allowed > recorded.step
    /\ ~Debris
    /\ \A e \in Candidates(recorded, allowed): Fits(e, recorded, allowed)
    /\ recorded # Absent \/ allowed # 0 => steps \in Trajectories(recorded, allowed)
    /\ recorded # Absent => recorded.step \in steps
    /\ steps # {}

LoadRefused(recorded, allowed) ==
    /\ op = NoOp
    /\ ~LoadAccepts(recorded, allowed)
    /\ At("raised")
    /\ UNCHANGED <<fileVars, dirs>>

Load(recorded, allowed) ==
    /\ op = NoOp
    /\ LoadAccepts(recorded, allowed)
    /\ \/ /\ Spare(recorded, allowed) = {}
          /\ op' = [at |-> "pointer", spare |-> Absent,
                    ckpt |-> Newest(Candidates(recorded, allowed)).ckpt]
       \/ \E e \in Spare(recorded, allowed):
             op' = [at |-> "recover", spare |-> e.ckpt,
                    ckpt |-> Newest(Candidates(recorded, allowed)).ckpt]
    /\ UNCHANGED <<fileVars, dirs>>

\* The damaged unrecorded checkpoint is moved aside, and pruning is told.
LoadRecover ==
    /\ op.at = "recover"
    /\ \E e \in Published: e.ckpt = op.spare /\ Renamed(e, "recovery")
    /\ At("pointer")
    /\ UNCHANGED fileVars
-----------------------------------------------------------------------------
\* Both calls: the pointer is published, then old checkpoints are pruned.
WritePointer ==
    /\ op.at = "pointer"
    /\ pub' = Publication(Latest, op.ckpt)
    /\ At("pointing")
    /\ UNCHANGED <<file, staged, previous, dirs>>

PublishPointer ==
    /\ op.at = "pointing"
    /\ PublishStep
    /\ UNCHANGED <<dirs, op>>

PointerWritten ==
    /\ op.at = "pointing"
    /\ pub.at = "done"
    /\ pub' = NoPublication
    /\ At("prune")
    /\ UNCHANGED <<file, staged, previous, dirs>>

PruneAccepts ==
    /\ ~Leftovers(Latest)
    /\ \A e \in dirs: IF e.kind = "step"
                     THEN e.whole
                     ELSE e.kind = "recovery" /\ e.ckpt = op.spare

PruneRefused ==
    /\ op.at = "prune"
    /\ ~PruneAccepts
    /\ At("raised")
    /\ UNCHANGED <<fileVars, dirs>>

\* Mutant: the slice that is removed holds the newest.
PruneMove_Newest ==
    /\ op.at = "prune"
    /\ PruneAccepts
    /\ Cardinality(Published) > KeepLast
    /\ Renamed(Newest(Published), "pruned")
    /\ At("pruning")
    /\ UNCHANGED fileVars

\* Mutant: old checkpoints are removed while the pointer is still on one.
PruneMove_BeforePointer ==
    /\ op.at = "pointer"
    /\ Cardinality(Published) > KeepLast
    /\ Renamed(Oldest(Published), "pruned")
    /\ At("pruning")
    /\ UNCHANGED fileVars

PruneMove ==
    /\ op.at = "prune"
    /\ PruneAccepts
    /\ Cardinality(Published) > KeepLast
    /\ Renamed(Oldest(Published), "pruned")
    /\ At("pruning")
    /\ UNCHANGED fileVars

\* (The tree is removed file by file; a part of it is as much debris as all.)
PruneRemove ==
    /\ op.at = "pruning"
    /\ dirs' = {e \in dirs: e.kind # "pruned"}
    /\ At("prune")
    /\ UNCHANGED fileVars

\* The call's own checkpoint is looked at once more: it is pruned, too, when
\* KeepLast newer ones are there.
Pruned ==
    /\ op.at = "prune"
    /\ PruneAccepts
    /\ Cardinality(Published) <= KeepLast
    /\ At(IF \E e \in Published: e.ckpt = op.ckpt THEN "returned" ELSE "raised")
    /\ UNCHANGED <<fileVars, dirs>>

StoreStep ==
    \/ SaveDiscard \/ SaveRemove \/ SaveReplace \/ SavePublish
    \/ LoadRecover
    \/ WritePointer \/ PublishPointer \/ PointerWritten
    \/ PruneRefused \/ PruneMove \/ PruneRemove \/ Pruned

\* An exception between two steps leaves everything where it is, the pointer's
\* own files apart.
StoreFails ==
    /\ op.at \notin {"idle", "returned", "raised"}
    /\ \/ op.at # "pointing" /\ UNCHANGED <<file, staged, previous, pub>>
       \/ op.at = "pointing" /\ PublicationFails
    /\ At("raised")
    /\ UNCHANGED dirs
=============================================================================
