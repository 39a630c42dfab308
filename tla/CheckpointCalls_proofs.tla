------------------------ MODULE CheckpointCalls_proofs ------------------------
(***************************************************************************)
(* What calls on the checkpoint directory leave behind, for every number   *)
(* of steps, cadence and retention and any processes: nothing a call saved *)
(* is lost, the pointer names a published checkpoint, only old checkpoints *)
(* are pruned and a call that returns has done what it promises.           *)
(***************************************************************************)
EXTENDS CheckpointCalls, SequenceTheorems, FiniteSetTheorems, WellFoundedInduction, TLAPS

\* what a checkpoint directory holds that no later call will accept
NothingAside == \A e \in dirs: e.kind # "recovery"

IsPublished(c) == \E e \in Published: e.ckpt = c

LastOfAll(s) == s[Len(s)]

\* A name is one directory's.
OneName == \A e, f \in Published: e.ckpt.step = f.ckpt.step => e = f

\* The hidden directory of the call that is under way.
Writing ==
    /\ op.at \in {"staged", "replaced"} =>
          /\ \E e \in dirs: e.kind = "stage"
          /\ \A e \in dirs: e.kind = "stage" => e.ckpt = op.ckpt /\ e.whole
    /\ op.at = "replaced" => Target = {}
    /\ op.at = "discarded" => IsPublished(op.ckpt)

OnDisk == {"staged", "discarded", "replaced", "pointer", "pointing", "prune", "pruning", "returned"}

\* A call saves or loads the newest checkpoint, ...
Newer ==
    /\ op.at \in OnDisk \cup {"recover"} => op.ckpt \in Checkpoints
    /\ op.at \in OnDisk => \A e \in Published: e.ckpt.step <= op.ckpt.step
    /\ op.at = "recover" => /\ op.spare \in Checkpoints
                            /\ \A e \in Published: e.ckpt.step <= op.ckpt.step \/ e.ckpt = op.spare

\* ... publishes the pointer to it and only then prunes others.
Pointing ==
    /\ op.at = "pointing" =>
          /\ pub.name = Latest /\ pub.doc = op.ckpt
          /\ pub.at \in {"stage", "aside", "fresh", "swap", "drop", "done"}
          /\ pub.at = "aside" => file[Latest] # Absent
          /\ pub.at \in {"aside", "fresh", "swap"} => staged[Latest] > 0
          /\ pub.at = "swap" =>
                /\ previous[Latest] # << >>
                /\ NothingAside => IsPublished(LastOfAll(previous[Latest]))
          /\ pub.at \in {"drop", "done"} => file[Latest] = op.ckpt
    /\ op.at \in {"prune", "pruning"} => file[Latest] = op.ckpt

Named ==
    NothingAside =>
        /\ op.at \in {"pointer", "pointing", "prune", "pruning"} => IsPublished(op.ckpt)
        /\ file[Latest] # Absent => IsPublished(file[Latest])

CallsInv ==
    /\ TypeOK /\ IsFiniteSet(dirs)
    /\ OneName /\ Writing /\ Newer /\ Pointing /\ Named
    /\ ReturnMeansDone /\ SavedSurvives
-----------------------------------------------------------------------------
\* A set of directories has one of the lowest step and one of the highest.
LEMMA LeastNumber ==
    ASSUME NEW T \in SUBSET Nat, T # {}
    PROVE  \E x \in T: \A y \in T: x <= y
<1> DEFINE R == {ss \in Nat \X Nat: ss[1] < ss[2]}
<1>1. IsWellFoundedOn(R, Nat)
  BY NatLessThanWellFounded DEF OpToRel
<1>2. PICK x \in T: \A y \in T: ~ (<<y, x>> \in R)
  BY <1>1, WFMin
<1>3. ASSUME NEW y \in T, y < x PROVE FALSE
  <2>1. y \in Nat /\ x \in Nat /\ <<y, x>> \in Nat \X Nat
    OBVIOUS
  <2>2. <<y, x>>[1] = y /\ <<y, x>>[2] = x
    OBVIOUS
  <2>3. <<y, x>> \in R
    BY <1>3, <2>1, <2>2
  <2> QED BY <1>2, <2>3
<1> QED BY <1>3

LEMMA LeastStep ==
    ASSUME CheckpointConstants, NEW E \in SUBSET Entries, E # {}
    PROVE  \E e \in E: \A f \in E: e.ckpt.step <= f.ckpt.step
<1> DEFINE T == {e.ckpt.step: e \in E}
<1>1. T \in SUBSET Nat /\ T # {}
  BY DEF Entries, Checkpoints, Steps, CheckpointConstants
<1>2. PICK x \in T: \A y \in T: x <= y
  BY <1>1, LeastNumber
<1> QED BY <1>2

LEMMA GreatestStep ==
    ASSUME CheckpointConstants, NEW E \in SUBSET Entries, E # {}
    PROVE  \E e \in E: \A f \in E: f.ckpt.step <= e.ckpt.step
<1> DEFINE T == {Horizon - e.ckpt.step: e \in E}
<1>0. \A e \in E: e.ckpt.step \in 1..Horizon
  BY DEF Entries, Checkpoints, Steps
<1>1. T \in SUBSET Nat /\ T # {}
  BY <1>0 DEF CheckpointConstants
<1>2. PICK x \in T: \A y \in T: x <= y
  BY <1>1, LeastNumber
<1>3. PICK e \in E: x = Horizon - e.ckpt.step
  BY <1>2
<1>4. \A f \in E: Horizon - e.ckpt.step <= Horizon - f.ckpt.step
  BY <1>2, <1>3
<1> QED BY <1>0, <1>4 DEF CheckpointConstants

LEMMA NewestIs ==
    ASSUME CheckpointConstants, NEW E \in SUBSET Entries, E # {}
    PROVE  Newest(E) \in E /\ \A f \in E: f.ckpt.step <= Newest(E).ckpt.step
BY GreatestStep DEF Newest

LEMMA OldestIs ==
    ASSUME CheckpointConstants, NEW E \in SUBSET Entries, E # {}
    PROVE  Oldest(E) \in E /\ \A f \in E: Oldest(E).ckpt.step <= f.ckpt.step
BY LeastStep DEF Oldest

\* More than KeepLast directories are more than one.
LEMMA SeveralAre ==
    ASSUME CheckpointConstants, NEW E, IsFiniteSet(E), Cardinality(E) > KeepLast, NEW e \in E
    PROVE  \E f \in E: f # e
<1>1. Cardinality({e}) = 1
  BY FS_Singleton
<1>2. E # {e}
  BY <1>1 DEF CheckpointConstants
<1> QED BY <1>2
-----------------------------------------------------------------------------
OpType == [at: OpPoints, ckpt: Checkpoints \cup {Absent}, spare: Checkpoints \cup {Absent}]

DirsOK == dirs \subseteq Entries /\ IsFiniteSet(dirs)

LEMMA AtIs ==
    ASSUME op \in OpType, NEW where \in OpPoints, At(where)
    PROVE  op' \in OpType /\ op'.at = where /\ op'.ckpt = op.ckpt /\ op'.spare = op.spare
BY DEF At, OpType

LEMMA RenamedIs ==
    ASSUME DirsOK, NEW e \in dirs, NEW kind \in Kinds, Renamed(e, kind)
    PROVE  /\ dirs' \subseteq Entries /\ IsFiniteSet(dirs')
           /\ \E g \in Entries: /\ g.kind = kind /\ g.ckpt = e.ckpt /\ g.whole = e.whole
                                /\ dirs' = (dirs \ {e}) \cup {g}
<1> DEFINE g == [e EXCEPT !.kind = kind]
<1>1. g \in Entries /\ g.kind = kind /\ g.ckpt = e.ckpt /\ g.whole = e.whole
  BY DEF DirsOK, Entries
<1>2. dirs' = (dirs \ {e}) \cup {g}
  BY DEF Renamed
<1>3. IsFiniteSet((dirs \ {e}) \cup {g})
  BY FS_RemoveElement, FS_AddElement DEF DirsOK
<1> HIDE DEF g
<1> QED BY <1>1, <1>2, <1>3 DEF DirsOK

LEMMA PublishedOK ==
    ASSUME DirsOK
    PROVE  /\ Published \in SUBSET Entries /\ IsFiniteSet(Published)
           /\ \A e \in Published: e \in dirs /\ e.kind = "step" /\ e.ckpt \in Checkpoints
           /\ \A e \in Published: e.ckpt.step \in Nat
<1>1. Published \in SUBSET dirs
  BY DEF Published
<1> QED BY <1>1, FS_Subset DEF DirsOK, Published, Entries, Checkpoints, Steps

\* the invariant, conjunct by conjunct
InvParts ==
    /\ op \in OpType /\ DirsOK /\ FilesTypeOK /\ saved \in Checkpoints \cup {Absent} /\ opened \in BOOLEAN
    /\ OneName /\ Writing /\ Newer /\ Pointing /\ Named /\ ReturnMeansDone /\ SavedSurvives

LEMMA Parts == CallsInv <=> InvParts
BY DEF CallsInv, InvParts, TypeOK, StoreTypeOK, OpType, DirsOK

\* A call that ends, by its return or not, leaves the directories alone, ...
LEMMA FailsKeeps ==
    ASSUME CallsInv, UNCHANGED <<dirs, saved>>, FilesTypeOK', Named', opened' \in BOOLEAN,
           op' \in OpType, op'.at \in {"idle", "raised"}
    PROVE  CallsInv'
<1> USE DEF Published, OnDisk
<1>1. InvParts
  BY Parts
<1>2. DirsOK' /\ OneName' /\ SavedSurvives'
  BY <1>1 DEF InvParts, DirsOK, OneName, SavedSurvives
<1>3. Writing' /\ Newer' /\ Pointing' /\ ReturnMeansDone'
  BY DEF Writing, Newer, Pointing, ReturnMeansDone
<1>4. InvParts'
  BY <1>1, <1>2, <1>3 DEF InvParts
<1> QED BY <1>4, Parts, PTL

\* ... and the pointer, too, where it was not being written.
LEMMA EndsKeeps ==
    ASSUME CallsInv, UNCHANGED <<dirs, file, saved>>, FilesTypeOK', opened' \in BOOLEAN,
           op' \in OpType, op'.at \in {"idle", "raised"}
    PROVE  CallsInv'
<1>1. Named
  BY Parts DEF InvParts
<1>2. Named'
  BY <1>1 DEF Named, Published, IsPublished, NothingAside
<1> QED BY <1>2, FailsKeeps
-----------------------------------------------------------------------------
\* save_training_checkpoint: the hidden directory, ...
LEMMA SaveKeeps ==
    ASSUME CheckpointConstants, CallsInv, NEW c \in Checkpoints, CallSave(c)
    PROVE  CallsInv'
<1>1. InvParts
  BY Parts
<1>2. CASE SaveRefused(c)
  <2>1. op' \in OpType /\ op'.at = "raised"
    BY <1>1, <1>2 DEF SaveRefused, InvParts, OpType, OpPoints
  <2> QED BY <1>1, <1>2, <2>1, EndsKeeps DEF CallSave, callerVars, SaveRefused, fileVars, InvParts, FilesTypeOK
<1>3. CASE Save(c)
  <2> DEFINE s == [kind |-> "stage", ckpt |-> c, whole |-> TRUE]
  <2>0. s \in Entries /\ s.kind = "stage" /\ s.ckpt = c /\ s.whole
    BY DEF Entries, Kinds
  <2>1. /\ dirs = Published /\ dirs' = dirs \cup {s} /\ UNCHANGED <<file, staged, previous, pub, saved, opened>>
        /\ op' = [op EXCEPT !.at = "staged", !.ckpt = c]
        /\ \A e \in Published: e.ckpt.step <= c.step
    BY <1>3 DEF CallSave, Save, SaveAccepts, Debris, fileVars, callerVars
  <2> HIDE DEF s
  <2>2. op' \in OpType /\ op'.at = "staged" /\ op'.ckpt = c
    BY <1>1, <2>1 DEF InvParts, OpType, OpPoints
  <2>3. DirsOK'
    BY <1>1, <2>0, <2>1, FS_AddElement DEF InvParts, DirsOK
  <2>4. Published' = Published
    BY <2>0, <2>1 DEF Published
  <2>5. NothingAside' => NothingAside
    BY <2>1 DEF NothingAside
  <2>6. OneName' /\ ReturnMeansDone'
    BY <1>1, <2>2, <2>4 DEF InvParts, OneName, ReturnMeansDone
  <2>7. SavedSurvives'
    BY <1>1, <2>1 DEF InvParts, SavedSurvives
  <2>8. Writing'
    BY <2>0, <2>1, <2>2 DEF Writing, Published
  <2>9. Newer'
    BY <2>1, <2>2, <2>4 DEF Newer
  <2>10. Pointing' /\ Named'
    BY <1>1, <2>1, <2>2, <2>4, <2>5 DEF InvParts, Pointing, Named, IsPublished
  <2>11. InvParts'
    BY <1>1, <2>1, <2>2, <2>3, <2>6, <2>7, <2>8, <2>9, <2>10 DEF InvParts, FilesTypeOK
  <2> QED BY <2>11, Parts, PTL
<1> QED BY <1>2, <1>3 DEF CallSave

\* ... which is known as such.
LEMMA StagedIs ==
    ASSUME InvParts, op.at \in {"staged", "replaced"}
    PROVE  Staged \in dirs /\ Staged.kind = "stage" /\ Staged.ckpt = op.ckpt /\ Staged.whole
BY DEF InvParts, Writing, Staged
-----------------------------------------------------------------------------
\* A step in a call that moves or removes directories.
LEMMA DirsMove ==
    ASSUME CallsInv, UNCHANGED <<fileVars, saved, opened>>, op' \in OpType, DirsOK',
           OneName', Writing', Newer', Pointing', Named', SavedSurvives', op'.at # "returned"
    PROVE  CallsInv'
<1>1. InvParts
  BY Parts
<1>2. ReturnMeansDone'
  BY DEF ReturnMeansDone
<1>3. FilesTypeOK' /\ saved' \in Checkpoints \cup {Absent} /\ opened' \in BOOLEAN
  BY <1>1 DEF InvParts, FilesTypeOK, fileVars
<1>4. InvParts'
  BY <1>2, <1>3 DEF InvParts
<1> QED BY <1>4, Parts, PTL

\* One that leaves the published ones and those set aside where they are.
LEMMA HiddenMove ==
    ASSUME CallsInv, UNCHANGED <<fileVars, saved, opened>>, op' \in OpType, DirsOK',
           op'.ckpt = op.ckpt, op'.spare = op.spare, Published' = Published,
           {e \in dirs': e.kind = "recovery"} = {e \in dirs: e.kind = "recovery"},
           \/ op.at = "staged" /\ op'.at = "discarded" /\ IsPublished(op.ckpt)
           \/ op.at = "discarded" /\ op'.at = "pointer"
           \/ op.at = "pruning" /\ op'.at = "prune"
    PROVE  CallsInv'
<1>1. InvParts
  BY Parts
<1>2. NothingAside' = NothingAside
  BY DEF NothingAside
<1>3. OneName' /\ Writing' /\ Newer'
  BY <1>1 DEF InvParts, OneName, Writing, Newer, IsPublished, OnDisk
<1>4. Pointing'
  BY <1>1 DEF InvParts, Pointing, fileVars
<1>5. Named'
  BY <1>1, <1>2 DEF InvParts, Named, Writing, IsPublished, fileVars
<1>6. SavedSurvives'
  <2> SUFFICES ASSUME saved # Absent
               PROVE  \E e \in dirs': e.kind \in {"step", "recovery"} /\ e.ckpt.step >= saved.step
    BY DEF SavedSurvives
  <2>1. PICK e \in dirs: e.kind \in {"step", "recovery"} /\ e.ckpt.step >= saved.step
    BY <1>1 DEF InvParts, SavedSurvives
  <2>2. e \in Published \/ e \in {d \in dirs: d.kind = "recovery"}
    BY <2>1 DEF Published
  <2>3. e \in dirs'
    BY <2>2 DEF Published
  <2> QED BY <2>1, <2>3
<1> QED BY <1>3, <1>4, <1>5, <1>6, DirsMove

LEMMA SaveDiscardKeeps ==
    ASSUME CallsInv, SaveDiscard, UNCHANGED callerVars
    PROVE  CallsInv' /\ Published' = Published
<1>1. InvParts
  BY Parts
<1>2. op.at = "staged" /\ IsPublished(op.ckpt) /\ UNCHANGED <<fileVars, saved, opened>>
  BY DEF SaveDiscard, Target, IsPublished, callerVars
<1>3. op' \in OpType /\ op'.at = "discarded" /\ op'.ckpt = op.ckpt /\ op'.spare = op.spare
  BY <1>1, AtIs DEF SaveDiscard, InvParts, OpPoints
<1>4. Staged \in dirs /\ Staged.kind = "stage"
  BY <1>1, <1>2, StagedIs
<1>5. /\ dirs' \subseteq Entries /\ IsFiniteSet(dirs')
      /\ \E g \in Entries: g.kind = "discarded" /\ dirs' = (dirs \ {Staged}) \cup {g}
  BY <1>1, <1>4, RenamedIs DEF SaveDiscard, Kinds, InvParts
<1>6. /\ Published' = Published
      /\ {e \in dirs': e.kind = "recovery"} = {e \in dirs: e.kind = "recovery"}
  BY <1>4, <1>5 DEF Published
<1> QED BY <1>2, <1>3, <1>5, <1>6, HiddenMove DEF DirsOK

LEMMA RemoveKeeps ==
    ASSUME CallsInv, SaveRemove \/ PruneRemove, UNCHANGED callerVars
    PROVE  CallsInv' /\ Published' = Published
<1>1. InvParts
  BY Parts
<1>2. /\ UNCHANGED <<fileVars, saved, opened>>
      /\ \/ op.at = "discarded" /\ At("pointer") /\ dirs' = {e \in dirs: e.kind # "discarded"}
         \/ op.at = "pruning" /\ At("prune") /\ dirs' = {e \in dirs: e.kind # "pruned"}
  BY DEF SaveRemove, PruneRemove, callerVars
<1>3. /\ op' \in OpType /\ op'.ckpt = op.ckpt /\ op'.spare = op.spare
      /\ \/ op.at = "discarded" /\ op'.at = "pointer"
         \/ op.at = "pruning" /\ op'.at = "prune"
  BY <1>1, <1>2, AtIs DEF InvParts, OpPoints
<1>4. dirs' \in SUBSET dirs
  BY <1>2
<1>5. dirs' \subseteq Entries /\ IsFiniteSet(dirs')
  BY <1>1, <1>4, FS_Subset DEF InvParts, DirsOK
<1>6. /\ Published' = Published
      /\ {e \in dirs': e.kind = "recovery"} = {e \in dirs: e.kind = "recovery"}
  BY <1>2 DEF Published
<1> QED BY <1>2, <1>3, <1>5, <1>6, HiddenMove DEF DirsOK

\* A published checkpoint becomes the recovery of its step.
LEMMA SetAsideIs ==
    ASSUME CallsInv, NEW e \in Published, Renamed(e, "recovery"), UNCHANGED saved
    PROVE  /\ DirsOK' /\ OneName' /\ ~NothingAside' /\ SavedSurvives'
           /\ Published' = Published \ {e}
           /\ [e EXCEPT !.kind = "recovery"] \in dirs'
<1>1. InvParts
  BY Parts
<1>2. e \in dirs /\ e.kind = "step"
  BY DEF Published
<1>3. /\ dirs' \subseteq Entries /\ IsFiniteSet(dirs')
      /\ \E g \in Entries: /\ g.kind = "recovery" /\ g.ckpt = e.ckpt
                           /\ dirs' = (dirs \ {e}) \cup {g}
  BY <1>1, <1>2, RenamedIs DEF Kinds, InvParts
<1>4. PICK g \in Entries: g.kind = "recovery" /\ g.ckpt = e.ckpt /\ dirs' = (dirs \ {e}) \cup {g}
  BY <1>3
<1>5. Published' = Published \ {e}
  BY <1>2, <1>4 DEF Published
<1>6. OneName'
  BY <1>1, <1>5 DEF InvParts, OneName
<1>7. ~NothingAside'
  BY <1>4 DEF NothingAside
<1>8. ASSUME saved # Absent
      PROVE  \E d \in dirs': d.kind \in {"step", "recovery"} /\ d.ckpt.step >= saved.step
  <2>1. PICK d \in dirs: d.kind \in {"step", "recovery"} /\ d.ckpt.step >= saved.step
    BY <1>1, <1>8 DEF InvParts, SavedSurvives
  <2> QED BY <1>4, <2>1
<1>9. [e EXCEPT !.kind = "recovery"] \in dirs'
  BY DEF Renamed
<1> QED BY <1>3, <1>5, <1>6, <1>7, <1>8, <1>9 DEF DirsOK, SavedSurvives

LEMMA SaveReplaceKeeps ==
    ASSUME CallsInv, SaveReplace, UNCHANGED callerVars
    PROVE  /\ CallsInv'
           /\ \A e \in Published: e \in Published' \/ [e EXCEPT !.kind = "recovery"] \in dirs'
<1>1. InvParts
  BY Parts
<1>2. PICK e \in Target: Renamed(e, "recovery")
  BY DEF SaveReplace
<1>3. e \in Published /\ e.ckpt.step = op.ckpt.step
  BY DEF Target
<1>4. op.at = "staged" /\ UNCHANGED <<fileVars, saved, opened>>
  BY DEF SaveReplace, callerVars
<1>5. op' \in OpType /\ op'.at = "replaced" /\ op'.ckpt = op.ckpt
  BY <1>1, AtIs DEF SaveReplace, InvParts, OpPoints
<1>6. /\ DirsOK' /\ OneName' /\ ~NothingAside' /\ SavedSurvives'
      /\ Published' = Published \ {e}
      /\ [e EXCEPT !.kind = "recovery"] \in dirs'
  BY <1>2, <1>3, <1>4, SetAsideIs
<1>7. Writing'
  <2>1. Target' = {}
    BY <1>1, <1>3, <1>5, <1>6 DEF Target, InvParts, OneName
  <2>2. /\ e.kind = "step" /\ [e EXCEPT !.kind = "recovery"].kind = "recovery"
        /\ dirs' = (dirs \ {e}) \cup {[e EXCEPT !.kind = "recovery"]}
    BY <1>1, <1>2, <1>3 DEF Published, Renamed, InvParts, DirsOK, Entries
  <2>3. /\ \E d \in dirs': d.kind = "stage"
        /\ \A d \in dirs': d.kind = "stage" => d.ckpt = op.ckpt /\ d.whole
    BY <1>1, <1>4, <2>2 DEF InvParts, Writing
  <2> QED BY <1>5, <2>1, <2>3 DEF Writing
<1>8. Newer' /\ Pointing' /\ Named'
  BY <1>1, <1>4, <1>5, <1>6 DEF InvParts, Newer, Pointing, Named, OnDisk
<1>9. CallsInv'
  BY <1>4, <1>5, <1>6, <1>7, <1>8, DirsMove
<1> QED BY <1>6, <1>9

LEMMA SavePublishKeeps ==
    ASSUME CallsInv, SavePublish, UNCHANGED callerVars
    PROVE  CallsInv' /\ Published \subseteq Published'
<1>1. InvParts
  BY Parts
<1>2. op.at \in {"staged", "replaced"} /\ Target = {} /\ UNCHANGED <<fileVars, saved, opened>>
  BY <1>1 DEF SavePublish, InvParts, Writing, callerVars
<1>3. op' \in OpType /\ op'.at = "pointer" /\ op'.ckpt = op.ckpt
  BY <1>1, AtIs DEF SavePublish, InvParts, OpPoints
<1>4. Staged \in dirs /\ Staged.kind = "stage" /\ Staged.ckpt = op.ckpt
  BY <1>1, <1>2, StagedIs
<1>5. /\ dirs' \subseteq Entries /\ IsFiniteSet(dirs')
      /\ \E g \in Entries: g.kind = "step" /\ g.ckpt = op.ckpt /\ dirs' = (dirs \ {Staged}) \cup {g}
  BY <1>1, <1>4, RenamedIs DEF SavePublish, Kinds, InvParts
<1>6. PICK g \in Entries: g.kind = "step" /\ g.ckpt = op.ckpt /\ dirs' = (dirs \ {Staged}) \cup {g}
  BY <1>5
<1>7. Published' = Published \cup {g}
  BY <1>4, <1>6 DEF Published
<1>8. \A e \in Published: e.ckpt.step # g.ckpt.step
  BY <1>2, <1>6 DEF Target
<1>9. OneName'
  BY <1>1, <1>7, <1>8 DEF InvParts, OneName
<1>10. NothingAside' => NothingAside
  BY <1>4, <1>6 DEF NothingAside
<1>11. Newer'
  <2>1. op.ckpt \in Checkpoints /\ \A e \in Published: e.ckpt.step <= op.ckpt.step
    BY <1>1, <1>2 DEF InvParts, Newer, OnDisk
  <2>2. op.ckpt.step \in Nat
    BY <2>1 DEF Checkpoints, Steps
  <2> QED BY <1>3, <1>6, <1>7, <2>1, <2>2 DEF Newer, OnDisk
<1>12. Writing' /\ Pointing' /\ Named'
  <2>1. IsPublished(op.ckpt)'
    BY <1>3, <1>6, <1>7 DEF IsPublished
  <2> QED BY <1>1, <1>2, <1>3, <1>7, <1>10, <2>1
          DEF InvParts, Writing, Pointing, Named, IsPublished, fileVars
<1>13. SavedSurvives'
  BY <1>1, <1>2, <1>4, <1>6 DEF InvParts, SavedSurvives
<1> QED BY <1>2, <1>3, <1>5, <1>7, <1>9, <1>11, <1>12, <1>13, DirsMove DEF DirsOK

LEMMA LoadRecoverKeeps ==
    ASSUME CallsInv, LoadRecover, UNCHANGED callerVars
    PROVE  /\ CallsInv'
           /\ \A e \in Published: e \in Published' \/ [e EXCEPT !.kind = "recovery"] \in dirs'
<1>1. InvParts
  BY Parts
<1>2. PICK e \in Published: e.ckpt = op.spare /\ Renamed(e, "recovery")
  BY DEF LoadRecover
<1>3. op.at = "recover" /\ UNCHANGED <<fileVars, saved, opened>>
  BY DEF LoadRecover, callerVars
<1>4. op' \in OpType /\ op'.at = "pointer" /\ op'.ckpt = op.ckpt
  BY <1>1, AtIs DEF LoadRecover, InvParts, OpPoints
<1>5. /\ DirsOK' /\ OneName' /\ ~NothingAside' /\ SavedSurvives'
      /\ Published' = Published \ {e}
      /\ [e EXCEPT !.kind = "recovery"] \in dirs'
  BY <1>2, <1>3, SetAsideIs
<1>6. Newer'
  BY <1>1, <1>2, <1>3, <1>4, <1>5 DEF InvParts, OneName, Newer, OnDisk
<1>7. Writing' /\ Pointing' /\ Named'
  BY <1>4, <1>5 DEF Writing, Pointing, Named
<1>8. CallsInv'
  BY <1>3, <1>4, <1>5, <1>6, <1>7, DirsMove
<1> QED BY <1>5, <1>8

\* Pruning moves away the oldest of more than KeepLast.
LEMMA OldestHasNewer ==
    ASSUME CheckpointConstants, InvParts, Cardinality(Published) > KeepLast
    PROVE  /\ Oldest(Published) \in Published
           /\ \A f \in Published \ {Oldest(Published)}: f.ckpt.step > Oldest(Published).ckpt.step
           /\ Published \ {Oldest(Published)} # {}
           /\ Cardinality(Published \ {Oldest(Published)}) >= KeepLast
<1>1. Published \in SUBSET Entries /\ IsFiniteSet(Published) /\ \A e \in Published: e.ckpt.step \in Nat
  BY PublishedOK DEF InvParts
<1>2. Published # {}
  BY <1>1, FS_EmptySet DEF CheckpointConstants
<1>3. Oldest(Published) \in Published /\ \A f \in Published: Oldest(Published).ckpt.step <= f.ckpt.step
  BY <1>1, <1>2, OldestIs
<1>4. \A f \in Published \ {Oldest(Published)}: f.ckpt.step > Oldest(Published).ckpt.step
  BY <1>1, <1>3 DEF InvParts, OneName
<1>5. Published \ {Oldest(Published)} # {}
  BY <1>1, <1>3, SeveralAre
<1>6. Cardinality(Published \ {Oldest(Published)}) = Cardinality(Published) - 1
  BY <1>1, <1>3, FS_RemoveElement
<1>7. Cardinality(Published) \in Nat /\ KeepLast \in Nat
  BY <1>1, FS_CardinalityType DEF CheckpointConstants
<1> QED BY <1>3, <1>4, <1>5, <1>6, <1>7

LEMMA PruneMoveKeeps ==
    ASSUME CheckpointConstants, CallsInv, PruneMove, UNCHANGED callerVars
    PROVE  /\ CallsInv'
           /\ \A e \in Published:
                 \/ e \in Published'
                 \/ Cardinality({f \in Published: f.ckpt.step > e.ckpt.step}) >= KeepLast
<1> DEFINE o == Oldest(Published)
<1>1. InvParts
  BY Parts
<1>2. op.at = "prune" /\ Renamed(o, "pruned") /\ UNCHANGED <<fileVars, saved, opened>>
  BY DEF PruneMove, callerVars
<1>3. op' \in OpType /\ op'.at = "pruning" /\ op'.ckpt = op.ckpt
  BY <1>1, AtIs DEF PruneMove, InvParts, OpPoints
<1>4. /\ o \in Published /\ \A f \in Published \ {o}: f.ckpt.step > o.ckpt.step
      /\ Published \ {o} # {} /\ Cardinality(Published \ {o}) >= KeepLast
  BY <1>1, OldestHasNewer DEF PruneMove
<1> HIDE DEF o
<1>5. o \in dirs /\ o.kind = "step"
  BY <1>4 DEF Published
<1>6. /\ dirs' \subseteq Entries /\ IsFiniteSet(dirs')
      /\ \E g \in Entries: g.kind = "pruned" /\ dirs' = (dirs \ {o}) \cup {g}
  BY <1>1, <1>2, <1>5, RenamedIs DEF Kinds, InvParts
<1>7. PICK g \in Entries: g.kind = "pruned" /\ dirs' = (dirs \ {o}) \cup {g}
  BY <1>6
<1>8. Published' = Published \ {o}
  BY <1>5, <1>7 DEF Published
<1>9. PICK f \in Published: f # o /\ f.ckpt.step > o.ckpt.step
  BY <1>4
<1>a. \A e \in Published: e.ckpt.step \in Nat
  BY <1>1, PublishedOK DEF InvParts
<1>b. op.ckpt \in Checkpoints /\ op.ckpt.step \in Nat /\ \A e \in Published: e.ckpt.step <= op.ckpt.step
  BY <1>1, <1>2 DEF InvParts, Newer, OnDisk, Checkpoints, Steps
<1>10. NothingAside' => IsPublished(op.ckpt)'
  <2> SUFFICES ASSUME NothingAside' PROVE \E e \in Published': e.ckpt = op.ckpt
    BY <1>3 DEF IsPublished
  <2>1. NothingAside
    BY <1>5, <1>7 DEF NothingAside
  <2>2. PICK e \in Published: e.ckpt = op.ckpt
    BY <1>1, <1>2, <2>1 DEF InvParts, Named, IsPublished
  <2>3. e # o
    BY <1>9, <1>a, <1>b, <2>2
  <2> QED BY <1>8, <2>2, <2>3
<1>11. OneName' /\ Writing' /\ Newer'
  BY <1>1, <1>2, <1>3, <1>8 DEF InvParts, OneName, Writing, Newer, OnDisk
<1>12. file[Latest] = op.ckpt /\ UNCHANGED file
  BY <1>1, <1>2 DEF InvParts, Pointing, fileVars
<1>13. Pointing' /\ Named'
  BY <1>3, <1>10, <1>12 DEF Pointing, Named, IsPublished
<1>14. SavedSurvives'
  <2> SUFFICES ASSUME saved # Absent
               PROVE  \E e \in dirs': e.kind \in {"step", "recovery"} /\ e.ckpt.step >= saved.step
    BY <1>2 DEF SavedSurvives
  <2>1. PICK e \in dirs: e.kind \in {"step", "recovery"} /\ e.ckpt.step >= saved.step
    BY <1>1 DEF InvParts, SavedSurvives
  <2>2. saved.step \in Nat
    BY <1>1 DEF InvParts, Checkpoints, Steps
  <2>3. CASE e # o
    BY <1>7, <2>1, <2>3
  <2>4. CASE e = o
    <3>1. f \in dirs' /\ f.kind = "step" /\ f.ckpt.step >= saved.step
      BY <1>7, <1>9, <1>a, <1>4, <2>1, <2>2, <2>4 DEF Published
    <3> QED BY <3>1
  <2> QED BY <2>3, <2>4
<1>15. CallsInv'
  BY <1>2, <1>3, <1>6, <1>11, <1>13, <1>14, DirsMove DEF DirsOK
<1>16. ASSUME NEW e \in Published, e \notin Published'
       PROVE  Cardinality({d \in Published: d.ckpt.step > e.ckpt.step}) >= KeepLast
  <2>1. e = o
    BY <1>8, <1>16
  <2>2. {d \in Published: d.ckpt.step > o.ckpt.step} = Published \ {o}
    BY <1>4, <1>a
  <2> QED BY <1>4, <2>1, <2>2
<1> QED BY <1>15, <1>16
-----------------------------------------------------------------------------
\* load_latest_training_checkpoint
LEMMA LoadKeeps ==
    ASSUME CheckpointConstants, CallsInv, NEW recorded, NEW allowed, CallLoad(recorded, allowed)
    PROVE  CallsInv'
<1>1. InvParts
  BY Parts
<1>2. UNCHANGED <<dirs, file, staged, previous, pub, saved, opened>> /\ FilesTypeOK'
  BY <1>1 DEF CallLoad, Load, LoadRefused, callerVars, fileVars, InvParts, FilesTypeOK
<1>3. CASE LoadRefused(recorded, allowed)
  <2>1. op' \in OpType /\ op'.at = "raised"
    BY <1>1, <1>3, AtIs DEF LoadRefused, InvParts, OpPoints
  <2> QED BY <1>1, <1>2, <2>1, EndsKeeps DEF InvParts
<1>4. CASE Load(recorded, allowed)
  <2> DEFINE c == Candidates(recorded, allowed)
             s == Spare(recorded, allowed)
             n == Newest(c)
  <2>1. Published \in SUBSET Entries /\ c = Published \ s /\ s \subseteq Published /\ c # {}
    BY <1>1, <1>4, PublishedOK DEF Load, LoadAccepts, StepsOf, Candidates, Spare, InvParts
  <2>2. n \in c /\ \A f \in c: f.ckpt.step <= n.ckpt.step
    BY <2>1, NewestIs
  <2>3. \A e, f \in s: e = f
    BY <1>1 DEF Spare, InvParts, OneName
  <2>4. \/ s = {} /\ op' = [at |-> "pointer", spare |-> Absent, ckpt |-> n.ckpt]
        \/ \E e \in s: op' = [at |-> "recover", spare |-> e.ckpt, ckpt |-> n.ckpt]
    BY <1>4 DEF Load
  <2> HIDE DEF c, s, n
  <2>5. n \in Published /\ n.ckpt \in Checkpoints
    BY <2>1, <2>2 DEF Entries
  <2>6. Published' = Published /\ NothingAside' = NothingAside /\ DirsOK'
    BY <1>1, <1>2 DEF Published, NothingAside, InvParts, DirsOK
  <2>7. op' \in OpType /\ op'.ckpt = n.ckpt /\ op'.at \in {"pointer", "recover"}
    BY <2>1, <2>4, <2>5 DEF OpType, OpPoints, Entries
  <2>8. OneName' /\ Writing' /\ Pointing' /\ SavedSurvives' /\ ReturnMeansDone'
    BY <1>1, <1>2, <2>6, <2>7 DEF InvParts, OneName, Writing, Pointing, SavedSurvives, ReturnMeansDone
  <2>9. Named'
    BY <1>1, <1>2, <2>5, <2>6, <2>7 DEF InvParts, Named, IsPublished
  <2>10. Newer'
    <3>1. CASE s = {} /\ op' = [at |-> "pointer", spare |-> Absent, ckpt |-> n.ckpt]
      BY <2>1, <2>2, <2>5, <2>6, <3>1 DEF Newer, OnDisk
    <3>2. ASSUME NEW e \in s, op' = [at |-> "recover", spare |-> e.ckpt, ckpt |-> n.ckpt]
          PROVE  Newer'
      <4>1. \A f \in Published: f.ckpt.step <= n.ckpt.step \/ f.ckpt = e.ckpt
        BY <2>1, <2>2, <2>3, <3>2
      <4>2. e.ckpt \in Checkpoints
        BY <2>1 DEF Entries
      <4> QED BY <2>5, <2>6, <3>2, <4>1, <4>2 DEF Newer, OnDisk
    <3> QED BY <2>4, <3>1, <3>2
  <2>11. InvParts'
    BY <1>1, <1>2, <2>6, <2>7, <2>8, <2>9, <2>10 DEF InvParts
  <2> QED BY <2>11, Parts, PTL
<1> QED BY <1>3, <1>4 DEF CallLoad

\* prune_training_checkpoints, when there is nothing to prune
LEMMA PrunedKeeps ==
    ASSUME CallsInv, PruneRefused \/ Pruned, UNCHANGED callerVars
    PROVE  CallsInv'
<1>1. InvParts
  BY Parts
<1>2. /\ op.at = "prune" /\ UNCHANGED <<dirs, file, staged, previous, pub, saved, opened>>
      /\ \/ At("raised")
         \/ /\ At("returned") /\ PruneAccepts /\ Cardinality(Published) <= KeepLast
            /\ IsPublished(op.ckpt)
  BY DEF PruneRefused, Pruned, fileVars, callerVars, IsPublished
<1>3. FilesTypeOK' /\ saved' \in Checkpoints \cup {Absent} /\ opened' \in BOOLEAN
  BY <1>1, <1>2 DEF InvParts, FilesTypeOK
<1>4. CASE At("raised")
  <2>1. op' \in OpType /\ op'.at = "raised"
    BY <1>1, <1>4, AtIs DEF InvParts, OpPoints
  <2> QED BY <1>2, <1>3, <2>1, EndsKeeps
<1>5. ASSUME At("returned"), PruneAccepts, Cardinality(Published) <= KeepLast, IsPublished(op.ckpt)
      PROVE  CallsInv'
  <2>1. op' \in OpType /\ op'.at = "returned" /\ op'.ckpt = op.ckpt
    BY <1>1, <1>5, AtIs DEF InvParts, OpPoints
  <2>2. Published' = Published /\ NothingAside' = NothingAside /\ DirsOK'
    BY <1>1, <1>2 DEF Published, NothingAside, InvParts, DirsOK
  <2>3. OneName' /\ Writing' /\ SavedSurvives'
    BY <1>1, <1>2, <2>1, <2>2 DEF InvParts, OneName, Writing, SavedSurvives
  <2>4. Newer' /\ Pointing' /\ Named'
    BY <1>1, <1>2, <2>1, <2>2 DEF InvParts, Newer, Pointing, Named, OnDisk, IsPublished
  <2>5. \A e \in Published: e.whole
    BY <1>5 DEF PruneAccepts, Published
  <2>6. file[Latest] = op.ckpt /\ \A e \in Published: e.ckpt.step <= op.ckpt.step
    BY <1>1, <1>2 DEF InvParts, Newer, Pointing, OnDisk
  <2>7. ReturnMeansDone'
    BY <1>2, <1>5, <2>1, <2>2, <2>5, <2>6 DEF ReturnMeansDone, IsPublished
  <2>8. InvParts'
    BY <1>3, <2>1, <2>2, <2>3, <2>4, <2>7 DEF InvParts
  <2> QED BY <2>8, Parts, PTL
<1> QED BY <1>2, <1>4, <1>5
-----------------------------------------------------------------------------
\* The publication of the pointer.
LEMMA PointerMoves ==
    ASSUME CallsInv, UNCHANGED <<dirs, saved, opened>>, FilesTypeOK', Pointing', Named',
           op' \in OpType, op'.ckpt = op.ckpt,
           op.at \in {"pointer", "pointing"}, op'.at \in {"pointing", "prune"}
    PROVE  CallsInv'
<1>1. InvParts
  BY Parts
<1>2. OneName' /\ Writing' /\ Newer' /\ ReturnMeansDone' /\ SavedSurvives' /\ DirsOK'
  BY <1>1 DEF InvParts, OneName, Writing, Newer, ReturnMeansDone, SavedSurvives, DirsOK, Published, OnDisk
<1>3. InvParts'
  BY <1>1, <1>2 DEF InvParts
<1> QED BY <1>3, Parts, PTL

LEMMA WritePointerKeeps ==
    ASSUME CheckpointConstants, CallsInv, WritePointer \/ PointerWritten, UNCHANGED callerVars
    PROVE  CallsInv'
<1>1. InvParts
  BY Parts
<1>2. UNCHANGED <<file, staged, previous, dirs, saved, opened>>
  BY DEF WritePointer, PointerWritten, callerVars
<1>3. op.ckpt \in Documents
  BY <1>1 DEF InvParts, Newer, OnDisk, WritePointer, PointerWritten, CheckpointConstants, Checkpoints, Steps
<1>4. CASE WritePointer
  <2>1. /\ op.at = "pointer" /\ op' \in OpType /\ op'.at = "pointing" /\ op'.ckpt = op.ckpt
        /\ pub' = [at |-> "stage", name |-> Latest, doc |-> op.ckpt]
    BY <1>1, <1>4, AtIs DEF WritePointer, InvParts, OpPoints, Publication
  <2>2. FilesTypeOK'
    BY <1>1, <1>2, <1>3, <2>1 DEF InvParts, FilesTypeOK, PublicationState, Point, CheckpointConstants
  <2>3. Pointing' /\ Named'
    BY <1>1, <1>2, <2>1 DEF InvParts, Pointing, Named, NothingAside, IsPublished, Published
  <2> QED BY <1>2, <2>1, <2>2, <2>3, PointerMoves
<1>5. CASE PointerWritten
  <2>1. /\ op.at = "pointing" /\ op' \in OpType /\ op'.at = "prune" /\ op'.ckpt = op.ckpt
        /\ pub.at = "done" /\ pub' = NoPublication
    BY <1>1, <1>5, AtIs DEF PointerWritten, InvParts, OpPoints
  <2>2. FilesTypeOK'
    BY <1>1, <1>2, <2>1 DEF InvParts, FilesTypeOK, PublicationState, Point, NoPublication
  <2>3. Pointing' /\ Named'
    BY <1>1, <1>2, <2>1 DEF InvParts, Pointing, Named, NothingAside, IsPublished, Published
  <2> QED BY <1>2, <2>1, <2>2, <2>3, PointerMoves
<1> QED BY <1>4, <1>5

\* a sequence of generations
LEMMA Generations ==
    ASSUME NEW s \in Seq(Documents)
    PROVE  /\ AllButLast(s) \in Seq(Documents)
           /\ s # << >> => LastOfAll(s) \in Documents
           /\ \A d \in Documents: /\ Append(s, d) \in Seq(Documents) /\ Append(s, d) # << >>
                                  /\ LastOfAll(Append(s, d)) = d
<1>1. /\ Len(s) \in Nat
      /\ \A i \in 1..Len(s): s[i] \in Documents
      /\ s # << >> => Len(s) >= 1
  BY LenProperties, EmptySeq
<1>2. AllButLast(s) \in Seq(Documents)
  <2>1. \A i \in 1..(Len(s) - 1): s[i] \in Documents
    BY <1>1
  <2> QED BY <1>1, <2>1, SubSeqProperties DEF AllButLast
<1>3. ASSUME NEW d \in Documents
      PROVE  Append(s, d) \in Seq(Documents) /\ Append(s, d) # << >> /\ LastOfAll(Append(s, d)) = d
  BY <1>1, AppendProperties DEF LastOfAll
<1> QED BY <1>1, <1>2, <1>3 DEF LastOfAll

LEMMA PublishPointerKeeps ==
    ASSUME CheckpointConstants, StateFilesConstants, CallsInv, PublishPointer, UNCHANGED callerVars
    PROVE  CallsInv'
<1>1. InvParts
  BY Parts
<1>2. /\ op.at = "pointing" /\ op' = op /\ op \in OpType /\ pub.name = Latest /\ Latest \in Names
      /\ UNCHANGED <<dirs, saved, opened>> /\ op.ckpt \in Documents /\ pub.doc = op.ckpt
  BY <1>1 DEF PublishPointer, InvParts, Pointing, Newer, OnDisk, callerVars, CheckpointConstants, Checkpoints, Steps
<1>3. /\ file \in [Names -> Documents \cup {Absent}] /\ staged \in [Names -> Nat]
      /\ previous \in [Names -> Seq(Documents)] /\ pub \in PublicationState
  BY <1>1 DEF InvParts, FilesTypeOK
<1>4. NothingAside' = NothingAside /\ \A c: IsPublished(c)' = IsPublished(c)
  BY <1>2 DEF NothingAside, IsPublished, Published
<1>5. /\ pub.at = "aside" => file[Latest] # Absent
      /\ pub.at \in {"aside", "fresh", "swap"} => staged[Latest] > 0
      /\ NothingAside => /\ IsPublished(op.ckpt)
                         /\ file[Latest] # Absent => IsPublished(file[Latest])
  BY <1>1, <1>2 DEF InvParts, Pointing, Named
<1>a. ASSUME NEW a \in Point, pub' = [pub EXCEPT !.at = a]
      PROVE  pub' \in PublicationState /\ pub'.at = a /\ pub'.name = Latest /\ pub'.doc = op.ckpt
  BY <1>2, <1>3, <1>a DEF PublicationState
<1>b. ASSUME FilesTypeOK', Pointing', Named' PROVE CallsInv'
  BY <1>2, <1>b, PointerMoves
<1>6. CASE WriteStaged
  <2> DEFINE a == IF file[pub.name] = Absent THEN "fresh" ELSE "aside"
  <2>1. a \in Point /\ (a = "aside" => file[Latest] # Absent) /\ a \in {"fresh", "aside"}
    BY <1>2 DEF Point
  <2>2. /\ staged' = [staged EXCEPT ![Latest] = @ + 1] /\ pub' = [pub EXCEPT !.at = a]
        /\ UNCHANGED <<file, previous>>
    BY <1>2, <1>6 DEF WriteStaged
  <2> HIDE DEF a
  <2>3. pub' \in PublicationState /\ pub'.at = a /\ pub'.name = Latest /\ pub'.doc = op.ckpt
    BY <1>a, <2>1, <2>2
  <2>4. staged' \in [Names -> Nat] /\ staged'[Latest] > 0
    BY <1>2, <1>3, <2>2
  <2>5. FilesTypeOK'
    BY <1>3, <2>2, <2>3, <2>4 DEF FilesTypeOK
  <2>6. Pointing' /\ Named'
    BY <1>2, <1>4, <1>5, <2>1, <2>2, <2>3, <2>4 DEF Pointing, Named
  <2> QED BY <1>b, <2>5, <2>6
<1>7. CASE SetAside
  <2>1. /\ pub.at = "aside" /\ pub' = [pub EXCEPT !.at = "swap"] /\ UNCHANGED staged
        /\ previous' = [previous EXCEPT ![Latest] = Append(@, file[Latest])]
        /\ file' = [file EXCEPT ![Latest] = Absent]
    BY <1>2, <1>7 DEF SetAside
  <2>2. pub' \in PublicationState /\ pub'.at = "swap" /\ pub'.name = Latest /\ pub'.doc = op.ckpt
    BY <1>a, <2>1 DEF Point
  <2>3. file[Latest] \in Documents /\ staged[Latest] > 0
    BY <1>2, <1>3, <1>5, <2>1
  <2>4. /\ previous' \in [Names -> Seq(Documents)] /\ previous'[Latest] # << >>
        /\ LastOfAll(previous'[Latest]) = file[Latest]
    <3> DEFINE s == Append(previous[Latest], file[Latest])
    <3>1. s \in Seq(Documents) /\ s # << >> /\ LastOfAll(s) = file[Latest]
      BY <1>2, <1>3, <2>3, Generations
    <3>2. previous' = [previous EXCEPT ![Latest] = s]
      BY <2>1
    <3> HIDE DEF s
    <3> QED BY <1>2, <1>3, <3>1, <3>2
  <2>5. FilesTypeOK'
    BY <1>3, <2>1, <2>2, <2>4 DEF FilesTypeOK
  <2>6. file'[Latest] = Absent
    BY <1>2, <1>3, <2>1
  <2>7. Pointing' /\ Named'
    <3>1. Named'
      BY <1>2, <1>4, <1>5, <2>6 DEF Named
    <3>2. NothingAside' => IsPublished(LastOfAll(previous[Latest]))'
      BY <1>4, <1>5, <2>1, <2>4 DEF IsPublished
    <3> QED BY <1>2, <2>1, <2>2, <2>3, <2>4, <3>1, <3>2 DEF Pointing
  <2> QED BY <1>b, <2>5, <2>7
<1>8. CASE PublishStaged
  <2> DEFINE a == IF pub.at = "swap" THEN "drop" ELSE "done"
  <2>1. /\ pub.at \in {"fresh", "swap"} /\ pub' = [pub EXCEPT !.at = a] /\ UNCHANGED previous
        /\ file' = [file EXCEPT ![Latest] = op.ckpt]
        /\ staged' = [staged EXCEPT ![Latest] = @ - 1]
    BY <1>2, <1>8 DEF PublishStaged
  <2>2. a \in Point /\ a \in {"drop", "done"}
    BY DEF Point
  <2> HIDE DEF a
  <2>3. pub' \in PublicationState /\ pub'.at = a /\ pub'.name = Latest /\ pub'.doc = op.ckpt
    BY <1>a, <2>1, <2>2
  <2>4. staged[Latest] \in Nat /\ staged[Latest] > 0
    BY <1>2, <1>3, <1>5, <2>1
  <2>5. staged' \in [Names -> Nat]
    BY <1>3, <2>1, <2>4
  <2>6. file' \in [Names -> Documents \cup {Absent}] /\ file'[Latest] = op.ckpt
    BY <1>2, <1>3, <2>1
  <2>7. FilesTypeOK'
    BY <1>3, <2>1, <2>3, <2>5, <2>6 DEF FilesTypeOK
  <2>8. Pointing' /\ Named'
    <3>1. Named'
      BY <1>2, <1>4, <1>5, <2>6 DEF Named, IsPublished
    <3> QED BY <1>2, <2>2, <2>3, <2>6, <3>1 DEF Pointing
  <2> QED BY <1>b, <2>7, <2>8
<1>9. CASE DropPrevious
  <2>1. /\ pub.at = "drop" /\ pub' = [pub EXCEPT !.at = "done"] /\ UNCHANGED <<file, staged>>
        /\ previous' = [previous EXCEPT ![Latest] = AllButLast(@)]
    BY <1>2, <1>9 DEF DropPrevious
  <2>2. pub' \in PublicationState /\ pub'.at = "done" /\ pub'.name = Latest /\ pub'.doc = op.ckpt
    BY <1>a, <2>1 DEF Point
  <2>3. previous' \in [Names -> Seq(Documents)]
    <3>1. AllButLast(previous[Latest]) \in Seq(Documents)
      BY <1>2, <1>3, Generations
    <3> QED BY <1>3, <2>1, <3>1
  <2>4. FilesTypeOK'
    BY <1>3, <2>1, <2>2, <2>3 DEF FilesTypeOK
  <2>5. file[Latest] = op.ckpt
    BY <1>1, <1>2, <2>1 DEF InvParts, Pointing
  <2>6. Pointing' /\ Named'
    BY <1>2, <1>4, <1>5, <2>1, <2>2, <2>5 DEF Pointing, Named
  <2> QED BY <1>b, <2>4, <2>6
<1> QED BY <1>6, <1>7, <1>8, <1>9 DEF PublishPointer, PublishStep

LEMMA StoreFailsKeeps ==
    ASSUME CheckpointConstants, CallsInv, StoreFails, UNCHANGED callerVars
    PROVE  CallsInv'
<1>1. InvParts
  BY Parts
<1>2. UNCHANGED <<dirs, saved, opened>> /\ op' \in OpType /\ op'.at = "raised" /\ opened' \in BOOLEAN
  BY <1>1, AtIs DEF StoreFails, InvParts, OpPoints, callerVars
<1>3. CASE op.at # "pointing" /\ UNCHANGED <<file, staged, previous, pub>>
  <2>1. FilesTypeOK'
    BY <1>1, <1>3 DEF InvParts, FilesTypeOK
  <2> QED BY <1>2, <1>3, <2>1, EndsKeeps
<1>4. CASE op.at = "pointing" /\ PublicationFails
  <2>1. /\ file \in [Names -> Documents \cup {Absent}] /\ staged \in [Names -> Nat]
        /\ previous \in [Names -> Seq(Documents)] /\ pub \in PublicationState
        /\ pub.name = Latest /\ Latest \in Names
    BY <1>1, <1>4 DEF InvParts, FilesTypeOK, Pointing, CheckpointConstants
  <2>2. pub' \in PublicationState
    BY <1>4, <2>1 DEF PublicationFails, PublicationState, Point
  <2>3. staged' \in [Names -> Nat]
    <3>1. pub.at \in {"aside", "fresh", "swap"} => staged[Latest] > 0
      BY <1>1, <1>4 DEF InvParts, Pointing
    <3>2. staged' = staged \/ (staged[Latest] > 0 /\ staged' = [staged EXCEPT ![Latest] = @ - 1])
      BY <1>4, <2>1, <3>1 DEF PublicationFails
    <3>3. staged[Latest] \in Nat
      BY <2>1
    <3>4. CASE staged[Latest] > 0 /\ staged' = [staged EXCEPT ![Latest] = @ - 1]
      <4>1. staged[Latest] - 1 \in Nat
        BY <3>3, <3>4
      <4> QED BY <2>1, <3>4, <4>1
    <3> QED BY <2>1, <3>2, <3>4
  <2>4. CASE UNCHANGED <<file, previous>>
    <3>1. FilesTypeOK'
      BY <2>1, <2>2, <2>3, <2>4 DEF FilesTypeOK
    <3> QED BY <1>2, <2>4, <3>1, EndsKeeps
  <2>5. CASE ~UNCHANGED <<file, previous>>
    <3> DEFINE g == Generation(Latest)
               s == AllButLast(previous[Latest])
    <3>1. /\ pub.at = "swap" /\ file' = [file EXCEPT ![Latest] = g]
          /\ previous' = [previous EXCEPT ![Latest] = s]
      BY <1>4, <2>1, <2>5 DEF PublicationFails
    <3>2. previous[Latest] # << >> /\ (NothingAside => IsPublished(LastOfAll(previous[Latest])))
      BY <1>1, <1>4, <3>1 DEF InvParts, Pointing
    <3>3. s \in Seq(Documents) /\ LastOfAll(previous[Latest]) \in Documents
      BY <2>1, <3>2, Generations
    <3>4. g = file[Latest] \/ g = LastOfAll(previous[Latest])
      BY DEF Generation, LastOfAll
    <3> HIDE DEF g, s
    <3>5. g \in Documents \cup {Absent}
      BY <2>1, <3>3, <3>4
    <3>6. FilesTypeOK'
      BY <2>1, <2>2, <2>3, <3>1, <3>3, <3>5 DEF FilesTypeOK
    <3>7. NothingAside /\ g # Absent => IsPublished(g)
      BY <1>1, <3>2, <3>4 DEF InvParts, Named
    <3>8. file'[Latest] = g
      BY <2>1, <3>1
    <3>9. Named'
      BY <1>2, <3>7, <3>8 DEF Named, NothingAside, IsPublished, Published
    <3> QED BY <1>2, <3>6, <3>9, FailsKeeps
  <2> QED BY <2>4, <2>5
<1> QED BY <1>3, <1>4 DEF StoreFails
-----------------------------------------------------------------------------
\* The caller, a kill, and damage done by something else.
LEMMA RestingIs == NoOp \in OpType /\ NoOp.at = "idle" /\ NoPublication \in PublicationState
BY DEF NoOp, OpType, OpPoints, NoPublication, PublicationState, Point

LEMMA CallEndsKeeps ==
    ASSUME CallsInv, CallEnds
    PROVE  CallsInv'
<1>1. InvParts
  BY Parts
<1>2. op' \in OpType /\ op'.at = "idle" /\ UNCHANGED <<file, staged, previous, dirs>> /\ opened' \in BOOLEAN
  BY RestingIs DEF CallEnds, diskVars
<1>3. FilesTypeOK'
  BY <1>1, <1>2, RestingIs DEF CallEnds, InvParts, FilesTypeOK
<1>4. CASE op.at = "raised"
  <2>1. saved' = saved
    BY <1>4 DEF CallEnds
  <2> QED BY <1>2, <1>3, <2>1, EndsKeeps
<1>5. CASE op.at = "returned"
  <2>1. saved' = op.ckpt
    BY <1>5 DEF CallEnds
  <2>2. PICK e \in Published: e.ckpt = op.ckpt
    BY <1>1, <1>5 DEF InvParts, ReturnMeansDone
  <2>3. e \in dirs /\ e.kind = "step" /\ op.ckpt \in Checkpoints /\ op.ckpt.step \in Nat
    BY <1>1, <2>2 DEF InvParts, DirsOK, Published, Entries, Checkpoints, Steps
  <2>4. SavedSurvives' /\ saved' \in Checkpoints
    BY <1>2, <2>1, <2>2, <2>3 DEF SavedSurvives
  <2>5. OneName' /\ Writing' /\ Newer' /\ Pointing' /\ ReturnMeansDone' /\ DirsOK'
    BY <1>1, <1>2 DEF InvParts, OneName, Writing, Newer, Pointing, ReturnMeansDone, DirsOK, Published, OnDisk
  <2>6. Named'
    BY <1>1, <1>2 DEF InvParts, Named, NothingAside, IsPublished, Published
  <2>7. InvParts'
    BY <1>2, <1>3, <2>4, <2>5, <2>6 DEF InvParts
  <2> QED BY <2>7, Parts, PTL
<1> QED BY <1>4, <1>5 DEF CallEnds

LEMMA KillKeeps ==
    ASSUME CallsInv, Kill
    PROVE  CallsInv'
<1>1. InvParts
  BY Parts
<1>2. /\ op' \in OpType /\ op'.at = "idle" /\ UNCHANGED <<file, staged, previous, dirs, saved>>
      /\ opened' \in BOOLEAN
  BY RestingIs DEF Kill, diskVars
<1>3. FilesTypeOK'
  BY <1>1, <1>2, RestingIs DEF Kill, InvParts, FilesTypeOK
<1> QED BY <1>2, <1>3, EndsKeeps

LEMMA DamageKeeps ==
    ASSUME CallsInv, NEW e \in Published, Damage(e)
    PROVE  /\ CallsInv'
           /\ \A f \in Published: \E g \in Published': g.ckpt = f.ckpt
<1> DEFINE d == [e EXCEPT !.whole = FALSE]
<1>1. InvParts
  BY Parts
<1>2. e \in dirs /\ e.kind = "step" /\ e \in Entries
  BY <1>1 DEF Published, InvParts, DirsOK
<1>3. d \in Entries /\ d.kind = "step" /\ d.ckpt = e.ckpt
  BY <1>2 DEF Entries
<1>4. dirs' = (dirs \ {e}) \cup {d} /\ op = NoOp /\ UNCHANGED <<fileVars, op, saved, opened>>
  BY DEF Damage, callerVars
<1> HIDE DEF d
<1>5. Published' = (Published \ {e}) \cup {d}
  BY <1>2, <1>3, <1>4 DEF Published
<1>6. DirsOK'
  BY <1>1, <1>3, <1>4, FS_RemoveElement, FS_AddElement DEF InvParts, DirsOK
<1>7. OneName'
  BY <1>1, <1>3, <1>5 DEF InvParts, OneName
<1>8. \A c: IsPublished(c)' = IsPublished(c)
  BY <1>3, <1>5 DEF IsPublished
<1>9. NothingAside' => NothingAside
  BY <1>2, <1>4 DEF NothingAside
<1>10. op'.at = "idle" /\ op' \in OpType
  BY <1>4, RestingIs
<1>11. Writing' /\ Newer' /\ Pointing' /\ ReturnMeansDone'
  BY <1>10 DEF Writing, Newer, Pointing, ReturnMeansDone, OnDisk
<1>12. UNCHANGED file
  BY <1>4 DEF fileVars
<1>13. Named'
  BY <1>1, <1>8, <1>9, <1>10, <1>12 DEF InvParts, Named, IsPublished
<1>14. SavedSurvives'
  BY <1>1, <1>2, <1>3, <1>4 DEF InvParts, SavedSurvives
<1>15. FilesTypeOK'
  BY <1>1, <1>4 DEF InvParts, FilesTypeOK, fileVars
<1>16. InvParts'
  BY <1>1, <1>4, <1>6, <1>7, <1>10, <1>11, <1>13, <1>14, <1>15 DEF InvParts
<1>17. CallsInv'
  BY <1>16, Parts, PTL
<1>18. \A f \in Published: \E g \in Published': g.ckpt = f.ckpt
  BY <1>3, <1>5
<1> QED BY <1>17, <1>18
-----------------------------------------------------------------------------
LEMMA CallsInitial == StateFilesConstants /\ CheckpointConstants /\ Init => CallsInv
<1> SUFFICES ASSUME Init PROVE CallsInv
  OBVIOUS
<1>1. /\ dirs = {} /\ op = NoOp /\ saved = Absent /\ opened = FALSE
      /\ file = [n \in Names |-> Absent] /\ staged = [n \in Names |-> 0]
      /\ previous = [n \in Names |-> << >>] /\ pub = NoPublication
  BY DEF Init, StoreInit, FilesInit
<1>2. FilesTypeOK
  BY <1>1, RestingIs DEF FilesTypeOK
<1>3. DirsOK /\ Published = {}
  BY <1>1, FS_EmptySet DEF DirsOK, Published
<1>4. op \in OpType /\ op.at = "idle"
  BY <1>1, RestingIs
<1>5. OneName /\ Writing /\ Newer /\ Pointing /\ ReturnMeansDone
  BY <1>3, <1>4 DEF OneName, Writing, Newer, Pointing, ReturnMeansDone, OnDisk
<1>6. Named
  <2>1. CheckpointConstants => file[Latest] = Absent
    BY <1>1 DEF CheckpointConstants
  <2> QED BY <1>4, <2>1, CheckpointConstants DEF Named
<1>7. SavedSurvives
  BY <1>1 DEF SavedSurvives
<1>8. InvParts
  BY <1>1, <1>2, <1>3, <1>4, <1>5, <1>6, <1>7 DEF InvParts
<1> QED BY <1>8, Parts

\* what a step may do to the published checkpoints
Prunes ==
    \A e \in Published:
       \/ \E f \in Published': f.ckpt = e.ckpt
       \/ [e EXCEPT !.kind = "recovery"] \in dirs'
       \/ Cardinality({f \in Published: f.ckpt.step > e.ckpt.step}) >= KeepLast

LEMMA CallsKept == CallsInv /\ [Next]_vars => CallsInv' /\ Prunes
<1> SUFFICES ASSUME CallsInv, [Next]_vars PROVE CallsInv' /\ Prunes
  OBVIOUS
<1>c. StateFilesConstants /\ CheckpointConstants
  BY StateFilesConstants, CheckpointConstants
<1>a. ASSUME UNCHANGED dirs PROVE Prunes
  BY <1>a DEF Prunes, Published
<1>1. CASE \E c \in Checkpoints: CallSave(c)
  <2>1. PICK c \in Checkpoints: CallSave(c)
    BY <1>1
  <2>2. Published \subseteq Published'
    BY <2>1 DEF CallSave, Save, SaveRefused, Published
  <2> QED BY <1>c, <2>1, <2>2, SaveKeeps DEF Prunes
<1>2. CASE \E recorded \in Checkpoints \cup {Absent}, allowed \in 0..Horizon: CallLoad(recorded, allowed)
  <2>1. UNCHANGED dirs
    BY <1>2 DEF CallLoad, Load, LoadRefused
  <2> QED BY <1>2, <1>a, <1>c, <2>1, LoadKeeps
<1>3. CASE InCall
  <2>0. UNCHANGED callerVars /\ StoreStep
    BY <1>3 DEF InCall
  <2>1. CASE SaveDiscard \/ SaveRemove \/ PruneRemove
    BY <2>0, <2>1, SaveDiscardKeeps, RemoveKeeps DEF Prunes
  <2>2. CASE SaveReplace \/ LoadRecover
    BY <2>0, <2>2, SaveReplaceKeeps, LoadRecoverKeeps DEF Prunes
  <2>3. CASE SavePublish
    BY <2>0, <2>3, SavePublishKeeps DEF Prunes
  <2>4. CASE WritePointer \/ PublishPointer \/ PointerWritten
    <3>1. UNCHANGED dirs
      BY <2>4 DEF WritePointer, PublishPointer, PointerWritten
    <3> QED BY <1>a, <1>c, <2>0, <2>4, <3>1, WritePointerKeeps, PublishPointerKeeps
  <2>5. CASE PruneRefused \/ Pruned
    <3>1. UNCHANGED dirs
      BY <2>5 DEF PruneRefused, Pruned
    <3> QED BY <1>a, <2>0, <2>5, <3>1, PrunedKeeps
  <2>6. CASE PruneMove
    BY <1>c, <2>0, <2>6, PruneMoveKeeps DEF Prunes
  <2> QED BY <2>0, <2>1, <2>2, <2>3, <2>4, <2>5, <2>6 DEF StoreStep
<1>4. CASE Raise
  <2>1. UNCHANGED dirs
    BY <1>4 DEF Raise, StoreFails
  <2> QED BY <1>4, <1>a, <1>c, <2>1, StoreFailsKeeps DEF Raise
<1>5. CASE CallEnds \/ Kill
  <2>1. UNCHANGED dirs
    BY <1>5 DEF CallEnds, Kill
  <2> QED BY <1>5, <1>a, <2>1, CallEndsKeeps, KillKeeps
<1>6. CASE \E e \in Published: Damage(e)
  BY <1>6, DamageKeeps DEF Prunes
<1>7. CASE UNCHANGED vars
  <2>1. InvParts
    BY Parts
  <2>2. UNCHANGED <<file, staged, previous, pub, dirs, op, saved, opened>>
    BY <1>7 DEF vars, storeVars, fileVars, callerVars
  <2>3. Published' = Published
    BY <2>2 DEF Published
  <2>4. FilesTypeOK' /\ DirsOK' /\ OneName' /\ SavedSurvives' /\ ReturnMeansDone'
    BY <2>1, <2>2, <2>3 DEF InvParts, FilesTypeOK, DirsOK, OneName, SavedSurvives, ReturnMeansDone
  <2>5. Writing' /\ Newer' /\ Pointing' /\ Named'
    BY <2>1, <2>2, <2>3 DEF InvParts, Writing, Newer, Pointing, Named, NothingAside, IsPublished, Target
  <2>6. InvParts'
    BY <2>1, <2>2, <2>4, <2>5 DEF InvParts
  <2>7. CallsInv'
    BY <2>6, Parts, PTL
  <2> QED BY <1>a, <2>2, <2>7
<1> QED BY <1>1, <1>2, <1>3, <1>4, <1>5, <1>6, <1>7 DEF Next

LEMMA CallsInvariance == Spec => []CallsInv
<1>1. Init => CallsInv
  BY CallsInitial, StateFilesConstants, CheckpointConstants
<1> QED BY <1>1, CallsKept, PTL DEF Spec

\* The directory, its files and the calls on it have their types.
THEOREM StoreTyping == Spec => []TypeOK
<1>1. CallsInv => TypeOK
  BY DEF CallsInv
<1> QED BY <1>1, CallsInvariance, PTL

\* What a call saved or loaded is there, or something at least as new is, after
\* any number of further calls, exceptions and kills (save_training_checkpoint,
\* prune_training_checkpoints).
THEOREM SavedIsKept == Spec => []SavedSurvives
<1>1. CallsInv => SavedSurvives
  BY DEF CallsInv
<1> QED BY <1>1, CallsInvariance, PTL

\* Between calls, after kills too, latest.json names a published checkpoint: the
\* pointer is written before the first of the old ones is moved away.
THEOREM PointerIsKept == Spec => []PointerNamesKept
<1>1. CallsInv => PointerNamesKept
  <2> SUFFICES ASSUME CallsInv, ~Debris, file[Latest] # Absent PROVE IsPublished(file[Latest])
    BY DEF PointerNamesKept, IsPublished
  <2>1. NothingAside
    BY DEF Debris, Published, NothingAside
  <2> QED BY <2>1 DEF CallsInv, Named
<1> QED BY <1>1, CallsInvariance, PTL

\* A call that returns leaves its checkpoint published, whole and newest, the
\* pointer on it and at most KeepLast checkpoints.
THEOREM ReturnedIsDone == Spec => []ReturnMeansDone
<1>1. CallsInv => ReturnMeansDone
  BY DEF CallsInv
<1> QED BY <1>1, CallsInvariance, PTL

\* No step takes a published checkpoint out of its name unless KeepLast newer
\* ones are published, or its step's recovery name gets it.
THEOREM OnlyOldArePruned == Spec => OnlyOldPruned
<1>1. CallsInv /\ [Next]_vars => [Prunes]_vars
  BY CallsKept
<1>2. Prunes <=> \A e \in Published:
                    \/ \E f \in Published': f.ckpt = e.ckpt
                    \/ [e EXCEPT !.kind = "recovery"] \in dirs'
                    \/ Cardinality({f \in Published: f.ckpt.step > e.ckpt.step}) >= KeepLast
  BY DEF Prunes
<1> QED BY <1>1, <1>2, CallsInvariance, PTL DEF Spec, OnlyOldPruned
=============================================================================
