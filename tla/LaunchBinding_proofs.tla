-------------------------- MODULE LaunchBinding_proofs --------------------------
(***************************************************************************)
(* What a collection of the inputs returns existed at one moment: for      *)
(* every set of files and modules, every order of reading and every number *)
(* of changes and of kills.                                                *)
(***************************************************************************)
EXTENDS LaunchBinding, TLAPS

ReadPoints == {"capture", "trees"}

\* Versions only grow: what the first view saw is at most what the files held
\* when the checks were done, which is at most what the second view sees.
EvidenceInv ==
    /\ disk \in [Files \cup Modules -> Nat]
    /\ view \in [Files -> Nat \cup {None}]
    /\ pc = "capture" => \A f \in Files \ unread: view[f] \in Nat /\ view[f] <= disk[f]
    /\ pc = "trees" => \A f \in Files: view[f] \in Nat /\ view[f] <= disk[f]
    /\ initial # None => /\ initial \in [Files -> Nat]
                         /\ \A f \in Files: initial[f] <= disk[f]
    /\ pc \in ReadPoints /\ initial # None =>
          /\ moment \in [Files -> Nat]
          /\ \A f \in Files: initial[f] <= moment[f] /\ moment[f] <= disk[f]
    /\ pc = "capture" /\ initial # None => \A f \in Files \ unread: moment[f] <= view[f]
    /\ pc = "trees" /\ initial # None => \A f \in Files: moment[f] <= view[f]
    /\ EvidenceAtomic

\* A step that leaves the files and the views alone and does not go on reading
\* disturbs nothing.
LEMMA ElsewhereKeeps ==
    ASSUME EvidenceInv, UNCHANGED <<disk, view, initial>>,
           pc' \notin {"capture", "trees", "collected"}
    PROVE  EvidenceInv'
BY DEF EvidenceInv, EvidenceAtomic, ReadPoints

\* Nor does one that is not about the collection at all.
LEMMA AsideKeeps ==
    ASSUME EvidenceInv, UNCHANGED <<disk, view, initial, moment, evidence, pc, unread>>
    PROVE  EvidenceInv'
BY DEF EvidenceInv, EvidenceAtomic, ReadPoints

\* A collection starts with nothing read.
LEMMA CollectKeeps ==
    ASSUME EvidenceInv, NEW why, Collect(why), UNCHANGED disk
    PROVE  EvidenceInv'
<1>1. /\ view' = [f \in Files |-> None]
      /\ initial' = None /\ unread' = Files /\ pc' = "capture"
  BY DEF Collect, Nothing
<1> QED BY <1>1 DEF EvidenceInv, EvidenceAtomic, ReadPoints

\* The end of the process forgets what it read.
LEMMA EndKeeps ==
    ASSUME EvidenceInv, End
    PROVE  EvidenceInv'
<1>1. /\ view' = [f \in Files |-> None]
      /\ initial' = None /\ pc' = "down" /\ disk' = disk
  BY DEF End, Nothing, diskVars
<1> QED BY <1>1 DEF EvidenceInv, EvidenceAtomic, ReadPoints

\* Another program's write only makes a version larger.
LEMMA ReplaceKeeps ==
    ASSUME EvidenceInv, NEW g \in Files \cup Modules, Replace(g)
    PROVE  EvidenceInv'
<1>1. /\ disk' = [disk EXCEPT ![g] = @ + 1]
      /\ UNCHANGED <<view, initial, moment, evidence, pc, unread>>
  BY DEF Replace, inputVars
<1>2. /\ disk' \in [Files \cup Modules -> Nat]
      /\ \A f \in Files: disk[f] \in Nat /\ disk'[f] \in Nat /\ disk[f] <= disk'[f]
  BY <1>1 DEF EvidenceInv
<1>3. (pc = "capture" => \A f \in Files \ unread: view[f] \in Nat /\ view[f] <= disk[f])'
  BY <1>1, <1>2 DEF EvidenceInv
<1>4. (pc = "trees" => \A f \in Files: view[f] \in Nat /\ view[f] <= disk[f])'
  BY <1>1, <1>2 DEF EvidenceInv
<1>5. (initial # None => /\ initial \in [Files -> Nat]
                         /\ \A f \in Files: initial[f] <= disk[f])'
  <2> SUFFICES ASSUME initial # None
               PROVE  initial \in [Files -> Nat] /\ \A f \in Files: initial[f] <= disk'[f]
    BY <1>1
  <2>1. initial \in [Files -> Nat] /\ \A f \in Files: initial[f] <= disk[f]
    BY DEF EvidenceInv
  <2> QED BY <2>1, <1>2
<1>6. (pc \in ReadPoints /\ initial # None =>
          /\ moment \in [Files -> Nat]
          /\ \A f \in Files: initial[f] <= moment[f] /\ moment[f] <= disk[f])'
  <2> SUFFICES ASSUME pc \in ReadPoints, initial # None
               PROVE  /\ moment \in [Files -> Nat]
                      /\ \A f \in Files: initial[f] <= moment[f] /\ moment[f] <= disk'[f]
    BY <1>1 DEF ReadPoints
  <2>1. /\ moment \in [Files -> Nat]
        /\ \A f \in Files: initial[f] <= moment[f] /\ moment[f] <= disk[f]
    BY DEF EvidenceInv
  <2> QED BY <2>1, <1>2
<1> QED BY <1>1, <1>2, <1>3, <1>4, <1>5, <1>6 DEF EvidenceInv, EvidenceAtomic

\* The steps of a collection, one by one.
LEMMA CollectingKeeps ==
    ASSUME FrozenInputsAssumption, EvidenceInv, Collecting
    PROVE  EvidenceInv'
<1> USE FrozenInputsAssumption DEF FrozenInputsAssumption
<1>1. ASSUME NEW f \in Files, ReadInput(f)
      PROVE  EvidenceInv'
  <2>1. /\ pc = "capture" /\ pc' = "capture" /\ disk' = disk
        /\ view' = [view EXCEPT ![f] = disk[f]]
        /\ unread' = unread \ {f}
        /\ UNCHANGED <<initial, moment, evidence>>
    BY <1>1 DEF ReadInput, Snapshot, diskVars
  <2>2. disk[f] \in Nat
    BY DEF EvidenceInv
  <2>3. view' \in [Files -> Nat \cup {None}]
    BY <2>1, <2>2 DEF EvidenceInv
  <2>4. \A g \in Files \ unread': g = f \/ g \in Files \ unread
    BY <2>1
  <2>5. \A g \in Files \ unread': view'[g] \in Nat /\ view'[g] <= disk'[g]
    BY <2>1, <2>2, <2>4 DEF EvidenceInv
  <2>6. initial # None => \A g \in Files \ unread': moment[g] <= view'[g]
    BY <2>1, <2>2, <2>4 DEF EvidenceInv, ReadPoints
  <2> QED BY <2>1, <2>3, <2>5, <2>6 DEF EvidenceInv, EvidenceAtomic, ReadPoints
<1>2. ASSUME NEW f \in Files, ReadTree(f)
      PROVE  EvidenceInv'
  <2>1. CASE OfRevision(f)
    BY <1>2, <2>1 DEF ReadTree, EvidenceInv, EvidenceAtomic, ReadPoints, diskVars, inputVars
  <2>2. CASE ~OfRevision(f)
    <3>1. UNCHANGED <<disk, view, initial>> /\ pc' = "raised"
      BY <1>2, <2>2 DEF ReadTree, Raise, diskVars, inputVars
    <3> QED BY <3>1, ElsewhereKeeps
  <2> QED BY <2>1, <2>2
<1>3. ASSUME NEW f \in Files, CopyForValidation(f)
      PROVE  EvidenceInv'
  <2>1. /\ view' = [view EXCEPT ![f] = disk[f]]
        /\ UNCHANGED <<disk, initial>>
        /\ pc' \in {"copy-converted", "validate"}
    BY <1>3 DEF CopyForValidation, PrivateCopy, Snapshot, diskVars
  <2>2. view' \in [Files -> Nat \cup {None}]
    BY <2>1 DEF EvidenceInv
  <2> QED BY <2>1, <2>2 DEF EvidenceInv, EvidenceAtomic, ReadPoints
<1>4. CASE BeginTrees
  <2>1. /\ pc = "capture" /\ unread = {} /\ pc' = "trees"
        /\ UNCHANGED <<disk, view, initial, moment, evidence>>
    BY <1>4 DEF BeginTrees, diskVars, inputVars
  <2> QED BY <2>1 DEF EvidenceInv, EvidenceAtomic, ReadPoints
<1>5. CASE Initially
  <2>1. /\ pc = "trees" /\ pc' = "evaluation" /\ disk' = disk
        /\ initial' = view /\ view' = [f \in Files |-> None]
    BY <1>5 DEF Initially, Nothing, diskVars
  <2>2. view \in [Files -> Nat] /\ \A f \in Files: view[f] <= disk[f]
    BY <2>1 DEF EvidenceInv
  <2> QED BY <2>1, <2>2 DEF EvidenceInv, EvidenceAtomic, ReadPoints
<1>6. CASE CheckEvaluation
  <2>1. UNCHANGED <<disk, view, initial>> /\ pc' \in {"statistics", "raised"}
    BY <1>6 DEF CheckEvaluation, Raise, diskVars, inputVars
  <2> QED BY <2>1, ElsewhereKeeps
<1>7. CASE ComputeStatistics
  <2>1. UNCHANGED <<disk, view, initial>> /\ pc' \in {"copy-native", "raised"}
    BY <1>7 DEF ComputeStatistics, Raise, diskVars, inputVars
  <2> QED BY <2>1, ElsewhereKeeps
<1>8. CASE ValidateConversion
  <2>1. CASE ConversionHolds /\ ModelHolds
    <3>1. /\ disk' = disk /\ initial' = initial /\ pc' = "capture" /\ unread' = Files
          /\ view' = [f \in Files |-> None]
          /\ moment' = [f \in Files |-> disk[f]]
      BY <1>8, <2>1 DEF ValidateConversion, Nothing, diskVars
    <3>2. moment' \in [Files -> Nat]
      BY <3>1 DEF EvidenceInv
    <3>3. initial # None => \A f \in Files: initial[f] <= moment'[f]
      BY <3>1 DEF EvidenceInv
    <3>4. \A f \in Files: moment'[f] <= disk'[f]
      BY <3>1 DEF EvidenceInv
    <3> QED BY <3>1, <3>2, <3>3, <3>4 DEF EvidenceInv, EvidenceAtomic, ReadPoints
  <2>2. CASE ~(ConversionHolds /\ ModelHolds)
    <3>1. UNCHANGED <<disk, view, initial>> /\ pc' = "raised"
      BY <1>8, <2>2 DEF ValidateConversion, Raise, diskVars, inputVars
    <3> QED BY <3>1, ElsewhereKeeps
  <2> QED BY <2>1, <2>2
<1>9. CASE Collected
  <2>1. CASE Unchanged /\ ValidEvidence(initial)
    <3>1. /\ pc = "trees" /\ initial # None /\ pc' = "collected"
          /\ UNCHANGED <<disk, view, initial, moment>> /\ evidence' = initial
          /\ view = initial
      BY <1>9, <2>1 DEF Collected, Unchanged, diskVars
    <3>2. /\ initial \in [Files -> Nat] /\ moment \in [Files -> Nat]
          /\ \A f \in Files: initial[f] <= moment[f] /\ moment[f] <= initial[f]
      BY <3>1 DEF EvidenceInv, ReadPoints
    <3>3. \A f \in Files: initial[f] = moment[f]
      <4> TAKE f \in Files
      <4>1. initial[f] \in Nat /\ moment[f] \in Nat
        BY <3>2
      <4>2. initial[f] <= moment[f] /\ moment[f] <= initial[f]
        BY <3>2
      <4> QED BY <4>1, <4>2
    <3>4. initial = moment
      BY <3>2, <3>3
    <3> QED BY <3>1, <3>4 DEF EvidenceInv, EvidenceAtomic, ReadPoints
  <2>2. CASE ~(Unchanged /\ ValidEvidence(initial))
    <3>1. UNCHANGED <<disk, view, initial>> /\ pc' = "raised"
      BY <1>9, <2>2 DEF Collected, Raise, diskVars, inputVars
    <3> QED BY <3>1, ElsewhereKeeps
  <2> QED BY <2>1, <2>2
<1> QED BY <1>1, <1>2, <1>3, <1>4, <1>5, <1>6, <1>7, <1>8, <1>9 DEF Collecting

\* Hashing the code looks at no input.
LEMMA HashingKeeps ==
    ASSUME EvidenceInv, Hashing
    PROVE  EvidenceInv'
<1>1. ASSUME NEW m \in Modules, NEW at \in {"hash", "recorded", "inventory"}, HashStep(m, at)
      PROVE  EvidenceInv'
  <2>1. UNCHANGED <<disk, view, initial, pc>> /\ pc = at
    BY <1>1 DEF HashStep, diskVars, inputVars
  <2> QED BY <2>1, ElsewhereKeeps
<1>2. ASSUME NEW m \in Modules, HashModule(m) \/ HashRecorded(m) \/ HashInventory(m)
      PROVE  EvidenceInv'
  <2>1. CASE Raise
    <3>1. UNCHANGED <<disk, view, initial>> /\ pc' = "raised"
      BY <2>1 DEF Raise, diskVars, inputVars
    <3> QED BY <3>1, ElsewhereKeeps
  <2> QED BY <1>1, <1>2, <2>1 DEF HashModule, HashRecorded, HashInventory
<1>3. ASSUME ImportLate \/ BeginInventory \/ Freeze
      PROVE  EvidenceInv'
  <2>1. UNCHANGED <<disk, view, initial>> /\ pc' \in {"raised", "recorded", "inventory", "frozen"}
    BY <1>3 DEF ImportLate, BeginInventory, Freeze, Raise, diskVars, inputVars
  <2> QED BY <2>1, ElsewhereKeeps
<1> QED BY <1>2, <1>3 DEF Hashing

\* Preparing a launch: every step goes on elsewhere, starts a collection, or ends.
LEMMA PreparingKeeps ==
    ASSUME EvidenceInv, Preparing
    PROVE  EvidenceInv'
<1>1. CASE BuildStatistics
  <2>1. UNCHANGED <<disk, view, initial>> /\ pc' \in {"model", "raised"}
    BY <1>1 DEF BuildStatistics, Goes, Refuse, Raise, diskVars, inputVars
  <2> QED BY <2>1, ElsewhereKeeps
<1>2. CASE BuildModel
  <2>1. UNCHANGED <<disk, view, initial>> /\ pc' \in {"bridge", "raised"}
    BY <1>2 DEF BuildModel, Goes, Refuse, Raise, diskVars, inputVars
  <2> QED BY <2>1, ElsewhereKeeps
<1>3. CASE BuildBridge
  <2>1. UNCHANGED <<disk, view, initial>> /\ pc' \in {"built", "base", "raised"}
    BY <1>3 DEF BuildBridge, Goes, Refuse, Raise, diskVars, inputVars
  <2> QED BY <2>1, ElsewhereKeeps
<1>4. CASE HashBase
  <2>1. UNCHANGED <<disk, view, initial>> /\ pc' \in {"hash", "built", "raised"}
    BY <1>4 DEF HashBase, Goes, Refuse, Raise, Hashes, diskVars, inputVars
  <2> QED BY <2>1, ElsewhereKeeps
<1>5. CASE Built
  <2>1. Collect("built") /\ UNCHANGED disk
    BY <1>5 DEF Built, Collects, diskVars
  <2> QED BY <2>1, CollectKeeps
<1>6. CASE AuditBridge
  <2>1. \/ Collect("bridge") /\ UNCHANGED disk
        \/ UNCHANGED <<disk, view, initial>> /\ pc' \in {"raised"}
    BY <1>6 DEF AuditBridge, Collects, Refuse, Raise, diskVars, inputVars
  <2> QED BY <2>1, CollectKeeps, ElsewhereKeeps
<1>7. CASE Audited
  <2>1. UNCHANGED <<disk, view, initial>> /\ pc' \in {"base", "hash"}
    BY <1>7 DEF Audited, Goes, Hashes, diskVars, inputVars
  <2> QED BY <2>1, ElsewhereKeeps
<1>8. CASE Assemble
  <2>1. UNCHANGED <<disk, view, initial>> /\ pc' \in {"mkdir", "raised"}
    BY <1>8 DEF Assemble, Goes, Refuse, Raise, diskVars, inputVars
  <2> QED BY <2>1, ElsewhereKeeps
<1>9. CASE MakeDirectory
  <2>1. UNCHANGED <<disk, view, initial>> /\ pc' \in {"install", "raised"}
    BY <1>9 DEF MakeDirectory, Goes, Refuse, Raise, diskVars, inputVars
  <2> QED BY <2>1, ElsewhereKeeps
<1>10. CASE Install
  BY <1>10, EndKeeps DEF Install
<1> QED BY <1>1, <1>2, <1>3, <1>4, <1>5, <1>6, <1>7, <1>8, <1>9, <1>10 DEF Preparing

\* Training: every step goes on elsewhere, starts a collection, or ends.
LEMMA TrainingKeeps ==
    ASSUME EvidenceInv, Training
    PROVE  EvidenceInv'
<1>1. CASE ReadLaunch
  <2>1. UNCHANGED <<disk, view, initial>> /\ pc' \in {"begin", "raised"}
    BY <1>1 DEF ReadLaunch, Goes, Refuse, Raise, diskVars, inputVars
  <2> QED BY <2>1, ElsewhereKeeps
<1>2. CASE BindRun
  <2>1. UNCHANGED <<disk, view, initial>> /\ pc' \in {"begun", "raised"}
    BY <1>2 DEF BindRun, Goes, Refuse, Raise, diskVars, inputVars
  <2> QED BY <2>1, ElsewhereKeeps
<1>3. CASE BindAgain
  <2>1. UNCHANGED <<disk, view, initial>> /\ pc' \in {"loop", "source", "raised"}
    BY <1>3 DEF BindAgain, Goes, Refuse, Raise, diskVars, inputVars
  <2> QED BY <2>1, ElsewhereKeeps
<1>4. CASE Begin
  <2>1. Collect("first") /\ UNCHANGED disk
    BY <1>4 DEF Begin, Collects, diskVars
  <2> QED BY <2>1, CollectKeeps
<1>5. CASE Reread
  <2>1. UNCHANGED <<disk, view, initial>> /\ pc' \in {"hash", "raised"}
    BY <1>5 DEF Reread, Goes, Refuse, Raise, Hashes, diskVars, inputVars
  <2> QED BY <2>1, ElsewhereKeeps
<1>6. CASE Update
  <2>1. UNCHANGED <<disk, view, initial>> /\ pc' \in {"loop", "raised"}
    BY <1>6 DEF Update, Goes, Refuse, Raise, diskVars, inputVars
  <2> QED BY <2>1, ElsewhereKeeps
<1>7. CASE Save
  <2>1. UNCHANGED <<disk, view, initial>> /\ pc' \in {"saved", "raised"}
    BY <1>7 DEF Save, Goes, Refuse, Raise, diskVars, inputVars
  <2> QED BY <2>1, ElsewhereKeeps
<1>8. CASE RecordSave
  <2>1. UNCHANGED <<disk, view, initial>> /\ pc' \in {"loop", "raised"}
    BY <1>8 DEF RecordSave, Goes, Refuse, Raise, diskVars, inputVars
  <2> QED BY <2>1, ElsewhereKeeps
<1>9. CASE BindCheckpoints
  <2>1. UNCHANGED <<disk, view, initial>> /\ pc' \in {"metrics", "raised"}
    BY <1>9 DEF BindCheckpoints, Goes, Refuse, Raise, diskVars, inputVars
  <2> QED BY <2>1, ElsewhereKeeps
<1>10. CASE BindMetrics
  <2>1. UNCHANGED <<disk, view, initial>> /\ pc' \in {"exporting", "raised"}
    BY <1>10 DEF BindMetrics, Goes, Refuse, Raise, diskVars, inputVars
  <2> QED BY <2>1, ElsewhereKeeps
<1>11. CASE BindAdapter
  <2>1. \/ Collect("export") /\ UNCHANGED disk
        \/ UNCHANGED <<disk, view, initial>> /\ pc' \in {"raised"}
    BY <1>11 DEF BindAdapter, Collects, Refuse, Raise, diskVars, inputVars
  <2> QED BY <2>1, CollectKeeps, ElsewhereKeeps
<1>12. CASE ExportCollected
  <2>1. UNCHANGED <<disk, view, initial>> /\ pc' \in {"hash", "raised"}
    BY <1>12 DEF ExportCollected, Goes, Refuse, Raise, Hashes, diskVars, inputVars
  <2> QED BY <2>1, ElsewhereKeeps
<1>13. CASE EnterSource
  <2>1. UNCHANGED <<disk, view, initial>> /\ pc' \in {"copy-source", "tokenizer", "raised"}
    BY <1>13 DEF EnterSource, Goes, Refuse, Raise, CheckSource, CopySource, diskVars, inputVars
  <2> QED BY <2>1, ElsewhereKeeps
<1>14. CASE EnterTokenizer
  <2>1. UNCHANGED <<disk, view, initial>> /\ pc' \in {"copy-tokenizer", "export", "raised"}
    BY <1>14 DEF EnterTokenizer, Goes, Refuse, Raise, CheckSource, CopySource, diskVars, inputVars
  <2> QED BY <2>1, ElsewhereKeeps
<1> QED BY <1>1, <1>2, <1>3, <1>4, <1>5, <1>6, <1>7, <1>8, <1>9, <1>10, <1>11, <1>12, <1>13, <1>14 DEF Training

\* Exporting: every step goes on elsewhere, starts a collection, or ends.
LEMMA ExportingKeeps ==
    ASSUME EvidenceInv, Exporting
    PROVE  EvidenceInv'
<1>1. CASE EnterExport
  <2>1. UNCHANGED <<disk, view, initial>> /\ pc' \in {"stage-model", "bind", "raised"}
    BY <1>1 DEF EnterExport, Goes, Refuse, Raise, diskVars, inputVars
  <2> QED BY <2>1, ElsewhereKeeps
<1>2. CASE WriteModel
  <2>1. UNCHANGED <<disk, view, initial>> /\ pc' \in {"stage-support", "raised"}
    BY <1>2 DEF WriteModel, Goes, Refuse, Raise, Staging, diskVars, inputVars
  <2> QED BY <2>1, ElsewhereKeeps
<1>3. CASE WriteSupport
  <2>1. UNCHANGED <<disk, view, initial>> /\ pc' \in {"stage-manifest", "raised"}
    BY <1>3 DEF WriteSupport, Goes, Refuse, Raise, Staging, diskVars, inputVars
  <2> QED BY <2>1, ElsewhereKeeps
<1>4. CASE HashStage
  <2>1. UNCHANGED <<disk, view, initial>> /\ pc' \in {"check-stage", "raised"}
    BY <1>4 DEF HashStage, Goes, Refuse, Raise, Staging, diskVars, inputVars
  <2> QED BY <2>1, ElsewhereKeeps
<1>5. CASE CheckStage
  <2>1. UNCHANGED <<disk, view, initial>> /\ pc' \in {"rename", "raised"}
    BY <1>5 DEF CheckStage, Goes, Refuse, Raise, diskVars, inputVars
  <2> QED BY <2>1, ElsewhereKeeps
<1>6. CASE RenameStage
  <2>1. UNCHANGED <<disk, view, initial>> /\ pc' \in {"renamed", "raised"}
    BY <1>6 DEF RenameStage, Goes, Refuse, Raise, Staging, diskVars, inputVars
  <2> QED BY <2>1, ElsewhereKeeps
<1>7. CASE CheckRenamed
  <2>1. UNCHANGED <<disk, view, initial>> /\ pc' \in {"raised", "check-export"}
    BY <1>7 DEF CheckRenamed, Goes, Refuse, Raise, Staging, diskVars, inputVars
  <2> QED BY <2>1, ElsewhereKeeps
<1>8. CASE ValidatePublished
  <2>1. UNCHANGED <<disk, view, initial>> /\ pc' \in {"bind", "raised"}
    BY <1>8 DEF ValidatePublished, Goes, Refuse, Raise, diskVars, inputVars
  <2> QED BY <2>1, ElsewhereKeeps
<1>9. CASE ValidateBound
  <2>1. UNCHANGED <<disk, view, initial>> /\ pc' \in {"files", "raised"}
    BY <1>9 DEF ValidateBound, Goes, Refuse, Raise, diskVars, inputVars
  <2> QED BY <2>1, ElsewhereKeeps
<1>10. CASE BindExport
  <2>1. UNCHANGED <<disk, view, initial>> /\ pc' \in {"leave", "raised"}
    BY <1>10 DEF BindExport, Goes, Refuse, Raise, diskVars, inputVars
  <2> QED BY <2>1, ElsewhereKeeps
<1>11. CASE LeaveCopies
  <2>1. UNCHANGED <<disk, view, initial>> /\ pc' \in {"publish", "raised"}
    BY <1>11 DEF LeaveCopies, Goes, Refuse, Raise, diskVars, inputVars
  <2> QED BY <2>1, ElsewhereKeeps
<1>12. CASE Revalidate
  <2>1. UNCHANGED <<disk, view, initial>> /\ pc' \in {"persist", "raised"}
    BY <1>12 DEF Revalidate, Goes, Refuse, Raise, diskVars, inputVars
  <2> QED BY <2>1, ElsewhereKeeps
<1>13. CASE Publish
  <2>1. UNCHANGED <<disk, view, initial>> /\ pc' \in {"published", "raised"}
    BY <1>13 DEF Publish, Goes, Refuse, Raise, diskVars, inputVars
  <2> QED BY <2>1, ElsewhereKeeps
<1>14. CASE Return
  <2>1. CASE Held
    BY <1>14, <2>1, EndKeeps DEF Return
  <2>2. CASE ~Held
    <3>1. UNCHANGED <<disk, view, initial>> /\ pc' = "raised"
      BY <1>14, <2>2 DEF Return, Refuse, Raise, diskVars, inputVars
    <3> QED BY <3>1, ElsewhereKeeps
  <2> QED BY <2>1, <2>2
<1> QED BY <1>1, <1>2, <1>3, <1>4, <1>5, <1>6, <1>7, <1>8, <1>9, <1>10, <1>11, <1>12, <1>13, <1>14 DEF Exporting

LEMMA EvidenceInit ==
    ASSUME FrozenInputsAssumption, Init
    PROVE  EvidenceInv
<1>1. /\ disk = [f \in Files \cup Modules |-> 0]
      /\ view = [f \in Files |-> None] /\ initial = None /\ pc = "down"
  BY DEF Init, Nothing, Original
<1> QED BY <1>1 DEF EvidenceInv, EvidenceAtomic, ReadPoints

LEMMA EvidenceStep ==
    ASSUME FrozenInputsAssumption, EvidenceInv, [Next]_vars
    PROVE  EvidenceInv'
<1>1. ASSUME NEW what \in {"prepare", "train"}, Start(what)
      PROVE  EvidenceInv'
  <2>1. UNCHANGED <<disk, view, initial>> /\ pc' = "bootstrap"
    BY <1>1 DEF Start, diskVars, inputVars
  <2> QED BY <2>1, ElsewhereKeeps
<1>2. CASE Booting
  <2>1. UNCHANGED <<disk, view, initial, pc>> /\ pc = "bootstrap"
    BY <1>2 DEF Booting, CaptureModule, diskVars, inputVars
  <2> QED BY <2>1, ElsewhereKeeps
<1>3. CASE Booted
  <2>1. UNCHANGED <<disk, view, initial>> /\ pc' \in {"begin", "launch", "raised"}
    BY <1>3 DEF Booted, Refuse, Raise, diskVars, inputVars
  <2> QED BY <2>1, ElsewhereKeeps
<1>4. CASE Prebuild
  <2>1. Collect("prebuild") /\ UNCHANGED disk
    BY <1>4 DEF Prebuild, Collects, diskVars
  <2> QED BY <2>1, CollectKeeps
<1>5. CASE InputsCollected
  BY <1>5, CollectingKeeps DEF InputsCollected
<1>6. CASE CodeHashed
  BY <1>6, HashingKeeps DEF CodeHashed
<1>7. CASE Preparing
  BY <1>7, PreparingKeeps
<1>8. CASE Training
  BY <1>8, TrainingKeeps
<1>9. CASE Exporting
  BY <1>9, ExportingKeeps
<1>10. CASE Raised \/ Kill
  BY <1>10, EndKeeps DEF Raised, Kill
<1>11. CASE ReplaceInput
  <2>1. PICK f \in Files \cup Modules: Replace(f)
    BY <1>11 DEF ReplaceInput
  <2> QED BY <2>1, ReplaceKeeps
<1>12. CASE ReplaceArtifact \/ TamperExport
  <2>1. UNCHANGED <<disk, view, initial, moment, evidence, pc, unread>>
    BY <1>12 DEF ReplaceArtifact, TamperExport, processVars, inputVars
  <2> QED BY <2>1, AsideKeeps
<1>13. CASE UNCHANGED vars
  <2>1. UNCHANGED <<disk, view, initial, moment, evidence, pc, unread>>
    BY <1>13 DEF vars, diskVars, processVars, inputVars
  <2> QED BY <2>1, AsideKeeps
<1> QED BY <1>1, <1>2, <1>3, <1>4, <1>5, <1>6, <1>7, <1>8, <1>9, <1>10, <1>11, <1>12, <1>13 DEF Next, Work

\* What a collection returns is what the files held at one moment, whatever the
\* files, the order of reading and the changes (collect_t3b_frozen_input_evidence).
THEOREM EvidenceIsAtomic ==
    ASSUME FrozenInputsAssumption
    PROVE  Spec => []EvidenceAtomic
<1>1. Init => EvidenceInv
  BY EvidenceInit
<1>2. EvidenceInv /\ [Next]_vars => EvidenceInv'
  BY EvidenceStep
<1>3. EvidenceInv => EvidenceAtomic
  BY DEF EvidenceInv
<1> QED BY <1>1, <1>2, <1>3, PTL DEF Spec

-----------------------------------------------------------------------------
(* From what launch.json names to what run.json names                      *)

\* The process is not there, has raised, or has not read launch.json.
EarlyPcs == {"down", "raised", "bootstrap", "launch"}
CollectPcs == {"capture", "trees", "evaluation", "statistics", "copy-native",
               "copy-converted", "validate", "collected"}
HashPcs == {"hash", "recorded", "inventory", "frozen"}
LoopPcs == {"loop", "saved", "metrics", "exporting"}
CopyPcs == {"source", "copy-source", "tokenizer", "copy-tokenizer"}
StagePcs == {"export", "stage-model", "stage-support", "stage-manifest",
             "check-stage", "rename", "renamed", "check-export", "bind"}
BoundPcs == {"leave", "publish", "persist"}
ExportPcs == CopyPcs \cup StagePcs \cup {"files"} \cup BoundPcs \cup {"published"}
RunPcs == {"begun"} \cup LoopPcs \cup ExportPcs

\* The process collects, or has collected, for one of these reasons.
Staged(stages) == stage \in stages /\ pc \notin EarlyPcs \cup {"begin"}

\* BindRun has succeeded.
Begun == pc \in RunPcs \/ Staged({"first", "export"})

\* What a process computes from beside the frames of the dataset, ...
Parts(document) ==
    {<<Converted, document.frozen[Converted]>>}
    \cup {<<m, document.code.loaded[m]>>: m \in DOMAIN document.code.loaded}

\* ... of which it has read versions up to v.
UpTo(document, u, v) ==
    \A p \in u: p \in Parts(document) \/ \E x \in 0..v: p = <<Dataset, x>>

Merged(u, copies, statistics) ==
    [model |-> <<"merged", u>>, support |-> <<"support", copies, statistics>>]

\* A process that trains goes by launch.json, which never changes.
Committed ==
    /\ role = "train" /\ pc \notin EarlyPcs => committed = launch /\ launch # None
    /\ pc = "bootstrap" => role \in {"prepare", "train"}
    /\ pc = "launch" => role = "train"
    /\ Begun => role = "train"
    /\ pc \in {"model", "bridge"} => stage = "prebuild"
    /\ pc = "base" => stage \in {"prebuild", "bridge"}
    /\ pc = "begun" => stage = "bridge"
    /\ pc \in LoopPcs => stage = "first"
    /\ pc \in ExportPcs => stage = "export"

\* The weights in memory are those of the evidence that BindRun compares.
ModelSeen ==
    /\ Staged({"built", "first"}) /\ pc \in ReadPoints /\ initial # None =>
          moment[Converted] = live.model
    /\ Staged({"built"}) /\ pc = "collected" => evidence[Converted] = live.model
    /\ Staged({"bridge"}) => evidence[Converted] = live.model
    /\ live = [statistics |-> live.statistics, model |-> live.model,
               dataset |-> live.dataset, tokenizer |-> live.tokenizer]

\* An update may read a frame of a version launch.json does not name: the
\* collection before the export finds it out, because versions only grow.
FramesRead ==
    /\ Begun => /\ live.statistics = launch.statistics
                /\ UpTo(launch, used, disk[Dataset])
    /\ checkpoint # None => launch # None /\ UpTo(launch, checkpoint.used, disk[Dataset])
    /\ Staged({"export"}) /\ pc \in ReadPoints /\ initial # None =>
          UpTo(launch, used, moment[Dataset])
    /\ Staged({"export"}) /\ pc \in {"collected"} \cup HashPcs =>
          UpTo(launch, used, evidence[Dataset])
    /\ pc \in ExportPcs => UpTo(launch, used, 0) /\ launch.frozen[Dataset] = 0

Copied ==
    /\ private = [source |-> private.source, tokenizer |-> private.tokenizer]
    /\ pc \in ExportPcs \ {"source", "copy-source"} =>
          private.source = launch.frozen[Source]
    /\ pc \in ExportPcs \ CopyPcs => private.tokenizer = launch.frozen[Tokenizer]

Completed ==
    /\ complete # None => launch # None
    /\ role = "train" /\ pc \notin {"down", "raised", "published"} => complete = None
    /\ TrainedOnLaunch

Artifacts == {"checkpoints", "metrics", "adapter", "export"}

\* Whoever replaces what the process holds is noticed.
Holding ==
    /\ held \subseteq Artifacts /\ foreign \subseteq Artifacts
    /\ pc = "metrics" => "checkpoints" \in held
    /\ pc = "exporting" => {"checkpoints", "metrics"} \subseteq held
    /\ Staged({"export"}) => {"checkpoints", "metrics", "adapter"} \subseteq held
    /\ pc \in BoundPcs \cup {"published"} => "export" \in held

Exported ==
    /\ pc = "files" => report = Merged(used, private, live.statistics)
    /\ pc \in BoundPcs /\ "export" \notin foreign =>
          Digests(entry) = Merged(used, private, live.statistics)
    /\ pc = "published" =>
          /\ complete # None
          /\ complete.replaced \subseteq foreign
          /\ complete.used = used /\ complete.private = private
          /\ "export" \notin foreign =>
                complete.exported = Merged(used, private, live.statistics)
    /\ returned => complete # None
    /\ ReturnedMeansHeld

LaunchInv ==
    Committed /\ ModelSeen /\ FramesRead /\ Copied /\ Completed /\ Holding /\ Exported

LEMMA UpToGrows ==
    ASSUME NEW document, NEW u, NEW v \in Nat, NEW w \in Nat, v <= w,
           UpTo(document, u, v)
    PROVE  UpTo(document, u, w)
<1>1. \A x \in 0..v: x \in 0..w
  OBVIOUS
<1> QED BY <1>1 DEF UpTo

LEMMA UpToAdds ==
    ASSUME NEW document, NEW u, NEW v \in Nat, UpTo(document, u, v)
    PROVE  UpTo(document, u \cup {<<Dataset, v>>}, v)
<1>1. v \in 0..v
  OBVIOUS
<1> QED BY <1>1 DEF UpTo

LEMMA UpToUnion ==
    ASSUME NEW document, NEW u, NEW t, NEW v,
           UpTo(document, u, v), UpTo(document, t, v)
    PROVE  UpTo(document, u \cup t, v)
BY DEF UpTo

\* What a process makes and binds, and what it leaves on the disk.
made == <<role, committed, live, used, private, held, report>>
left == <<launch, checkpoint, complete, foreign, entry, returned>>

\* A process that raises has nothing to answer for.
LEMMA RaiseKeeps ==
    ASSUME LaunchInv, Raise, UNCHANGED <<committed, runVars, storeVars>>
    PROVE  LaunchInv'
<1>1. UNCHANGED <<made, left, disk>> /\ pc' = "raised"
  BY DEF Raise, runVars, storeVars, progress, stageVars, diskVars, made, left
<1> QED
  BY <1>1
  DEF made, left, LaunchInv, Committed, ModelSeen, FramesRead, Copied, Completed, Holding,
      Exported, Begun, Staged, EarlyPcs, RunPcs, LoopPcs, ExportPcs, CopyPcs, StagePcs,
      BoundPcs, ReadPoints, HashPcs, TrainedOnLaunch, ReturnedMeansHeld

\* What a process leaves when it ends: launch.json once, and the completed run
\* if everything it names was still its own.
LEMMA EndedKeeps ==
    ASSUME LaunchInv, End, UNCHANGED <<checkpoint, complete, foreign>>,
           launch' = launch \/ launch = None,
           returned' = returned \/ (pc = "published" /\ Held)
    PROVE  LaunchInv'
<1>1. /\ pc' = "down" /\ private' = NoCopies /\ held' = {} /\ live' = Unbuilt
      /\ disk' = disk
  BY DEF End, diskVars
<1>2. checkpoint # None => launch' = launch
  BY DEF LaunchInv, FramesRead
<1>3. complete # None => launch' = launch
  BY DEF LaunchInv, Completed
<1>4. Committed' /\ ModelSeen' /\ FramesRead' /\ Copied' /\ Completed' /\ Holding'
  BY <1>1, <1>2, <1>3
  DEF NoCopies, Unbuilt, LaunchInv, Committed, ModelSeen, FramesRead, Copied,
      Completed, Holding, Begun, Staged, EarlyPcs, RunPcs, LoopPcs, ExportPcs,
      CopyPcs, StagePcs, BoundPcs, ReadPoints, HashPcs, TrainedOnLaunch
<1>5. returned' => complete # None /\ ReturnedMeansHeld'
  <2>1. CASE returned' = returned
    BY <1>3, <2>1 DEF LaunchInv, Exported, ReturnedMeansHeld
  <2>2. CASE pc = "published" /\ Held
    <3>1. foreign = {}
      <4>1. Staged({"export"})
        BY <2>2 DEF Staged, EarlyPcs, LaunchInv, Committed, ExportPcs
      <4>2. {"checkpoints", "metrics", "adapter", "export"} \subseteq held
        BY <2>2, <4>1 DEF LaunchInv, Holding
      <4>3. foreign \subseteq {"checkpoints", "metrics", "adapter", "export"}
        BY DEF LaunchInv, Holding, Artifacts
      <4> QED BY <2>2, <4>2, <4>3
              DEF Held, HeldCheckpoints, HeldMetrics, HeldAdapter, HeldExport, StillOwn
    <3>2. /\ complete # None /\ complete.replaced = {}
          /\ complete.exported = Merged(used, private, live.statistics)
          /\ complete.used = used /\ complete.private = private
      BY <2>2, <3>1 DEF LaunchInv, Exported
    <3>3. live.statistics = launch.statistics
      BY <2>2 DEF LaunchInv, FramesRead, Begun, RunPcs, ExportPcs
    <3> QED BY <1>3, <3>2, <3>3 DEF ReturnedMeansHeld, Merged
  <2> QED BY <2>1, <2>2
<1>6. Exported'
  BY <1>1, <1>5 DEF Exported, BoundPcs, ReturnedMeansHeld
<1> QED BY <1>4, <1>6 DEF LaunchInv

\* The collection of the inputs: the last evidence of each stage.
LEMMA CollectedKeeps ==
    ASSUME FrozenInputsAssumption, LaunchInv, EvidenceInv, EvidenceInv', Collecting,
           UNCHANGED <<committed, runVars, storeVars>>
    PROVE  LaunchInv'
<1> USE DEF made, left
<1>a. UNCHANGED <<committed, used, private, held, report, left>>
  BY DEF runVars, storeVars, progress, stageVars
<1>b. Dataset \in Files /\ Converted \in Files
  BY DEF FrozenInputsAssumption
<1>c. CASE Raise
  BY <1>c, RaiseKeeps
<1>1. CASE /\ ~Raise
           /\ \/ BeginTrees \/ Initially \/ CheckEvaluation \/ ComputeStatistics
              \/ \E f \in Files: ReadInput(f) \/ ReadTree(f) \/ CopyForValidation(f)
  <2>1. /\ pc \in CollectPcs \ {"collected"} /\ pc' \in CollectPcs \ {"collected"}
        /\ UNCHANGED <<disk, role, stage, evidence, live, moment>>
        /\ pc' \in ReadPoints /\ initial' # None => pc \in ReadPoints /\ initial # None
    BY <1>1
    DEF BeginTrees, Initially, CheckEvaluation, ComputeStatistics, ReadInput, ReadTree,
        CopyForValidation, diskVars, inputVars, CollectPcs, ReadPoints
  <2> QED
    BY <1>a, <2>1
    DEF LaunchInv, Committed, ModelSeen, FramesRead, Copied, Completed, Holding,
        Exported, Begun, Staged, EarlyPcs, RunPcs, LoopPcs, ExportPcs, CopyPcs, StagePcs,
        BoundPcs, HashPcs, CollectPcs, TrainedOnLaunch, ReturnedMeansHeld
<1>2. CASE ValidateConversion /\ ~Raise
  <2>1. /\ pc = "validate" /\ pc' = "capture" /\ moment' = [f \in Files |-> disk[f]]
        /\ UNCHANGED <<disk, role, stage, evidence, live>>
        /\ ModelHolds
    BY <1>2 DEF ValidateConversion, diskVars
  <2>2. moment'[Converted] = disk[Converted] /\ moment'[Dataset] = disk[Dataset]
    BY <1>b, <2>1
  <2>3. Staged({"built", "first"}) => live.model = disk[Converted]
    BY <2>1 DEF ModelHolds, Staged
  <2>4. Staged({"export"}) => UpTo(launch, used, disk[Dataset])
    BY DEF LaunchInv, FramesRead, Begun, Staged
  <2> QED
    BY <1>a, <2>1, <2>2, <2>3, <2>4
    DEF LaunchInv, Committed, ModelSeen, FramesRead, Copied, Completed, Holding,
        Exported, Begun, Staged, EarlyPcs, RunPcs, LoopPcs, ExportPcs, CopyPcs, StagePcs,
        BoundPcs, HashPcs, TrainedOnLaunch, ReturnedMeansHeld
<1>3. CASE Collected /\ ~Raise
  <2>1. /\ pc = "trees" /\ pc' = "collected" /\ initial # None
        /\ UNCHANGED <<disk, role, stage, moment, live>>
        /\ evidence' = initial
    BY <1>3 DEF Collected, Unchanged, diskVars
  <2>2. evidence' = moment
    BY <2>1 DEF EvidenceInv, EvidenceAtomic
  <2>3. Staged({"bridge"}) => evidence' = evidence
    BY <1>3 DEF Collected, Unchanged, Compared, Staged
  <2> QED
    BY <1>a, <2>1, <2>2, <2>3
    DEF LaunchInv, Committed, ModelSeen, FramesRead, Copied, Completed, Holding,
        Exported, Begun, Staged, EarlyPcs, RunPcs, LoopPcs, ExportPcs, CopyPcs, StagePcs,
        BoundPcs, ReadPoints, HashPcs, TrainedOnLaunch, ReturnedMeansHeld
<1> QED BY <1>c, <1>1, <1>2, <1>3 DEF Collecting

\* Hashing the code changes neither the inputs nor what was made of them.
LEMMA HashedKeeps ==
    ASSUME LaunchInv, Hashing, UNCHANGED <<committed, runVars, storeVars>>
    PROVE  LaunchInv'
<1>1. CASE Raise
  BY <1>1, RaiseKeeps
<1>2. CASE ~Raise
  <2>1. UNCHANGED <<made, left, disk, stage, evidence>> /\ pc \in HashPcs /\ pc' \in HashPcs
    BY <1>2
    DEF Hashing, HashModule, HashRecorded, HashInventory, HashStep, ImportLate,
        BeginInventory, Freeze, runVars, storeVars, progress, stageVars, diskVars,
        inputVars, HashPcs, made, left
  <2> QED
    BY <2>1
    DEF made, left, LaunchInv, Committed, ModelSeen, FramesRead, Copied, Completed, Holding,
        Exported, Begun, Staged, EarlyPcs, RunPcs, LoopPcs, ExportPcs, CopyPcs, StagePcs,
        BoundPcs, ReadPoints, HashPcs, TrainedOnLaunch, ReturnedMeansHeld
<1> QED BY <1>1, <1>2

\* A new process: to prepare, or to train a run that is not complete.
LEMMA StartedKeeps ==
    ASSUME LaunchInv, NEW what \in {"prepare", "train"}, Start(what)
    PROVE  LaunchInv'
<1>1. /\ pc = "down" /\ pc' = "bootstrap" /\ role' = what
      /\ what = "train" => complete = None
      /\ UNCHANGED <<committed, live, used, private, held, report, left, stage, disk, evidence>>
  BY DEF Start, left, runVars, storeVars, progress, stageVars, diskVars, inputVars
<1> QED
  BY <1>1
  DEF left, LaunchInv, Committed, ModelSeen, FramesRead, Copied, Completed, Holding,
      Exported, Begun, Staged, EarlyPcs, RunPcs, LoopPcs, ExportPcs, CopyPcs, StagePcs,
      BoundPcs, ReadPoints, HashPcs, TrainedOnLaunch, ReturnedMeansHeld

\* The steps that prepare a launch; a process that trains takes some of them.
LEMMA PreparedKeeps ==
    ASSUME LaunchInv, Preparing \/ Booted \/ Prebuild
    PROVE  LaunchInv'
<1> USE DEF made, left, LaunchInv, Committed, ModelSeen, FramesRead, Copied, Completed,
    Holding, Exported, Begun, Staged, EarlyPcs, RunPcs, LoopPcs, ExportPcs, CopyPcs,
    StagePcs, BoundPcs, ReadPoints, HashPcs, TrainedOnLaunch, ReturnedMeansHeld
<1>r. CASE Refuse
  BY <1>r, RaiseKeeps DEF Refuse
<1>1. CASE Booted /\ ~Refuse
  <2>1. /\ UNCHANGED <<made, left, disk, stage, evidence>>
        /\ pc = "bootstrap" /\ pc' = IF role = "prepare" THEN "begin" ELSE "launch"
    BY <1>1 DEF Booted, runVars, storeVars, progress, stageVars, diskVars, inputVars
  <2> QED BY <2>1
<1>2. CASE Prebuild
  <2>1. /\ UNCHANGED <<made, left, disk, evidence>>
        /\ pc = "begin" /\ pc' = "capture" /\ stage' = "prebuild" /\ initial' = None
    BY <1>2 DEF Prebuild, Collects, Collect, runVars, storeVars, progress, stageVars, diskVars
  <2> QED BY <2>1
<1>3. CASE BuildStatistics
  <2>1. /\ UNCHANGED <<role, committed, used, private, held, report, left, disk, stage, evidence>>
        /\ pc = "collected" /\ stage = "prebuild" /\ pc' = "model"
        /\ live' = [live EXCEPT !.statistics = disk[Dataset]]
    BY <1>3 DEF BuildStatistics, Goes, runVars, storeVars, progress, stageVars, diskVars, inputVars
  <2> QED BY <2>1
<1>4. CASE BuildModel
  <2>1. /\ UNCHANGED <<role, committed, used, private, held, report, left, disk, stage, evidence>>
        /\ pc = "model" /\ pc' = "bridge"
        /\ live' = [live EXCEPT !.model = disk[Converted]]
    BY <1>4 DEF BuildModel, Goes, runVars, storeVars, progress, stageVars, diskVars, inputVars
  <2> QED BY <2>1
<1>5. CASE BuildBridge
  <2>1. /\ UNCHANGED <<role, committed, used, private, held, report, left, disk, stage, evidence>>
        /\ pc = "bridge" /\ pc' \in {"built", "base"}
        /\ live' = [live EXCEPT !.dataset = disk[Dataset], !.tokenizer = disk[Tokenizer]]
    BY <1>5 DEF BuildBridge, Goes, runVars, storeVars, progress, stageVars, diskVars, inputVars
  <2> QED BY <2>1
<1>6. CASE HashBase \/ Audited
  <2>1. /\ UNCHANGED <<made, left, disk, stage, evidence>>
        /\ \/ pc = "base"
           \/ pc = "collected" /\ stage = "bridge"
        /\ pc' \in {"hash", "built", "base"}
    BY <1>6
    DEF HashBase, Audited, Hashes, Goes, runVars, storeVars, progress, stageVars, diskVars,
        inputVars
  <2> QED BY <2>1
<1>7. CASE Built
  <2>1. /\ UNCHANGED <<made, left, disk, evidence>>
        /\ pc = "built" /\ pc' = "capture" /\ stage' = "built" /\ initial' = None
    BY <1>7 DEF Built, Collects, Collect, runVars, storeVars, progress, stageVars, diskVars
  <2> QED BY <2>1
<1>8. CASE AuditBridge /\ ~Refuse
  <2>1. /\ UNCHANGED <<made, left, disk, evidence>>
        /\ pc = "collected" /\ stage = "built"
        /\ pc' = "capture" /\ stage' = "bridge" /\ initial' = None
    BY <1>8 DEF AuditBridge, Collects, Collect, runVars, storeVars, progress, stageVars, diskVars
  <2> QED BY <2>1
<1>9. CASE Assemble /\ ~Refuse
  <2>1. /\ UNCHANGED <<role, live, used, private, held, report, left, disk, stage, evidence>>
        /\ pc = "frozen" /\ role = "prepare" /\ pc' = "mkdir"
    BY <1>9 DEF Assemble, Goes, runVars, storeVars, progress, stageVars, diskVars, inputVars
  <2> QED BY <2>1
<1>10. CASE MakeDirectory
  <2>1. /\ UNCHANGED <<made, left, disk, stage, evidence>>
        /\ pc = "mkdir" /\ pc' = "install"
    BY <1>10 DEF MakeDirectory, runVars, storeVars, progress, stageVars, diskVars, inputVars
  <2> QED BY <2>1
<1>11. CASE Install
  BY <1>11, EndedKeeps DEF Install
<1> QED BY <1>r, <1>1, <1>2, <1>3, <1>4, <1>5, <1>6, <1>7, <1>8, <1>9, <1>10, <1>11
        DEF Preparing

\* What a process computes from beside the frames is named by the launch.json it
\* is bound to.
LEMMA OwnIsNamed ==
    ASSUME LaunchInv, pc = "frozen", stage = "bridge", Bound, NEW v
    PROVE  UpTo(committed, Own, v)
<1>1. committed = Document
  BY DEF Bound
<1>2. /\ committed.frozen = evidence
      /\ committed.code = [hashed |-> hashed, loaded |-> [m \in loaded |-> expected[m]]]
  BY <1>1, Zenon DEF Document, Implementation
<1>3. committed.code.loaded = [m \in loaded |-> expected[m]]
  BY <1>2
<1>4. live.model = committed.frozen[Converted]
  BY <1>2 DEF LaunchInv, ModelSeen, Staged, EarlyPcs
<1>5. ASSUME NEW p \in Own PROVE p \in Parts(committed)
  <2>1. CASE p = <<Converted, live.model>>
    BY <1>4, <2>1 DEF Parts
  <2>2. CASE p \in {<<m, expected[m]>>: m \in loaded}
    <3>1. PICK m \in loaded: p = <<m, expected[m]>>
      BY <2>2
    <3>2. m \in DOMAIN committed.code.loaded /\ committed.code.loaded[m] = expected[m]
      BY <1>3, <3>1
    <3> QED BY <3>1, <3>2 DEF Parts
  <2> QED BY <1>5, <2>1, <2>2 DEF Own
<1> QED BY <1>5 DEF UpTo

\* The updates, the checkpoints and the bindings of a run.
LEMMA TrainedKeeps ==
    ASSUME FrozenInputsAssumption, LaunchInv, EvidenceInv, Training
    PROVE  LaunchInv'
<1> USE DEF made, left, LaunchInv, Committed, ModelSeen, FramesRead, Copied, Completed,
    Holding, Exported, Begun, Staged, EarlyPcs, RunPcs, LoopPcs, ExportPcs, CopyPcs,
    StagePcs, BoundPcs, ReadPoints, HashPcs, TrainedOnLaunch, ReturnedMeansHeld
<1>a. /\ Dataset \in Files \ {Converted}
      /\ disk[Dataset] \in Nat
  BY DEF FrozenInputsAssumption, EvidenceInv
<1>r. CASE Refuse
  BY <1>r, RaiseKeeps DEF Refuse
<1>1. CASE ReadLaunch /\ ~Refuse
  <2>1. /\ UNCHANGED <<role, live, used, private, held, report, left, disk, stage, evidence>>
        /\ pc = "launch" /\ pc' = "begin" /\ committed' = launch /\ launch # None
    BY <1>1 DEF ReadLaunch, Goes, runVars, storeVars, progress, stageVars, diskVars, inputVars
  <2> QED BY <2>1
<1>2. CASE BindRun /\ ~Refuse
  <2>1. /\ UNCHANGED <<role, committed, live, private, held, report, left, disk, stage, evidence>>
        /\ pc = "frozen" /\ role = "train" /\ stage = "bridge" /\ pc' = "begun" /\ Bound
        /\ used' = Own \cup (IF checkpoint = None THEN {} ELSE checkpoint.used)
    BY <1>2 DEF BindRun, Goes, runVars, storeVars, progress, stageVars, diskVars, inputVars
  <2>2. committed = launch /\ live.statistics = launch.statistics
    BY <2>1 DEF Bound, Document
  <2>3. UpTo(launch, Own, disk[Dataset])
    BY <2>1, <2>2, OwnIsNamed
  <2>4. UpTo(launch, used', disk[Dataset])
    <3>1. CASE checkpoint = None
      BY <2>1, <2>3, <3>1
    <3>2. CASE checkpoint # None
      BY <2>1, <2>3, <3>2, UpToUnion
    <3> QED BY <3>1, <3>2
  <2> QED BY <2>1, <2>2, <2>4
<1>3. CASE BindAgain /\ ~Refuse
  <2>1. /\ UNCHANGED <<made, left, disk, stage, evidence>>
        /\ pc = "frozen" /\ role = "train" /\ Bound
        /\ \/ stage = "first" /\ pc' = "loop"
           \/ stage = "export" /\ pc' = "source"
    BY <1>3 DEF BindAgain, Goes, runVars, storeVars, progress, stageVars, diskVars, inputVars
  <2>2. CASE stage = "first" /\ pc' = "loop"
    BY <2>1, <2>2
  <2>3. CASE stage = "export" /\ pc' = "source"
    <3>1. committed = launch /\ launch.frozen = evidence /\ evidence[Dataset] = 0
      BY <1>a, <2>1 DEF Bound, Document, ValidDocument, ValidEvidence, Original
    <3>2. UpTo(launch, used, 0)
      BY <2>1, <2>3, <3>1
    <3> QED BY <2>1, <2>3, <3>1, <3>2
  <2> QED BY <2>1, <2>2, <2>3
<1>4. CASE Begin
  <2>1. /\ UNCHANGED <<made, left, disk, evidence>>
        /\ pc = "begun" /\ pc' = "capture" /\ stage' = "first" /\ initial' = None
    BY <1>4 DEF Begin, Collects, Collect, runVars, storeVars, progress, stageVars, diskVars
  <2> QED BY <2>1
<1>5. CASE Reread /\ ~Refuse
  <2>1. /\ UNCHANGED <<made, left, disk, stage, evidence>>
        /\ pc = "collected" /\ stage = "first" /\ pc' = "hash"
    BY <1>5 DEF Reread, Hashes, runVars, storeVars, progress, stageVars, diskVars, inputVars
  <2> QED BY <2>1
<1>6. CASE Update
  <2>1. /\ UNCHANGED <<role, committed, live, private, held, report, left, disk, stage, evidence>>
        /\ pc = "loop" /\ pc' = "loop" /\ used' = used \cup {<<Dataset, disk[Dataset]>>}
    BY <1>6 DEF Update, Goes, runVars, storeVars, progress, stageVars, diskVars, inputVars
  <2>2. UpTo(launch, used', disk[Dataset])
    BY <1>a, <2>1, UpToAdds
  <2> QED BY <2>1, <2>2
<1>7. CASE Save
  <2>1. /\ UNCHANGED <<role, committed, live, used, private, report, disk, stage, evidence>>
        /\ UNCHANGED <<launch, complete, foreign, entry, returned>>
        /\ pc = "loop" /\ pc' = "saved" /\ held' = {"checkpoints"}
        /\ checkpoint'.used = used
    BY <1>7 DEF Save, runVars, storeVars, progress, stageVars, diskVars, inputVars
  <2> QED BY <2>1 DEF Artifacts
<1>8. CASE RecordSave /\ ~Refuse
  <2>1. /\ UNCHANGED <<role, committed, live, used, private, report, left, disk, stage, evidence>>
        /\ pc = "saved" /\ pc' = "loop" /\ held' = {}
    BY <1>8 DEF RecordSave, Goes, runVars, storeVars, progress, stageVars, diskVars, inputVars
  <2> QED BY <2>1
<1>9. CASE BindCheckpoints /\ ~Refuse
  <2>1. /\ UNCHANGED <<role, committed, live, used, private, report, left, disk, stage, evidence>>
        /\ pc \in {"loop", "saved"} /\ pc' = "metrics" /\ held' = held \cup {"checkpoints"}
    BY <1>9 DEF BindCheckpoints, TakeHold, Goes, runVars, storeVars, progress, stageVars,
       diskVars, inputVars
  <2> QED BY <2>1 DEF Artifacts
<1>10. CASE BindMetrics /\ ~Refuse
  <2>1. /\ UNCHANGED <<role, committed, live, used, private, report, left, disk, stage, evidence>>
        /\ pc = "metrics" /\ pc' = "exporting" /\ held' = held \cup {"metrics"}
    BY <1>10 DEF BindMetrics, HoldMetrics, TakeHold, Goes, runVars, storeVars, progress,
       stageVars, diskVars, inputVars
  <2> QED BY <2>1 DEF Artifacts
<1>11. CASE BindAdapter /\ ~Refuse
  <2>1. /\ UNCHANGED <<role, committed, used, private, report, left, disk, evidence>>
        /\ pc = "exporting" /\ pc' = "capture" /\ stage' = "export" /\ initial' = None
        /\ held' = held \cup {"adapter"}
        /\ live' = [live EXCEPT !.model = None]
    BY <1>11 DEF BindAdapter, HoldAdapter, TakeHold, Collects, Collect, runVars, storeVars,
       progress, stageVars, diskVars, inputVars
  <2> QED BY <2>1 DEF Artifacts
<1>12. CASE ExportCollected
  <2>1. /\ UNCHANGED <<made, left, disk, stage, evidence>>
        /\ pc = "collected" /\ stage = "export" /\ pc' = "hash"
    BY <1>12 DEF ExportCollected, Hashes, runVars, storeVars, progress, stageVars, diskVars,
       inputVars
  <2> QED BY <2>1
<1>13. CASE \/ CheckSource("source", Source, "copy-source")
            \/ CheckSource("tokenizer", Tokenizer, "copy-tokenizer")
  <2>1. \/ Refuse
        \/ /\ UNCHANGED <<made, left, disk, stage, evidence>>
           /\ \/ pc = "source" /\ pc' = "copy-source"
              \/ pc = "tokenizer" /\ pc' = "copy-tokenizer"
    BY <1>13 DEF CheckSource, Goes, runVars, storeVars, progress, stageVars, diskVars, inputVars
  <2> QED BY <1>r, <2>1
<1>14. CASE CopySource("copy-source", "source", Source, "tokenizer") /\ ~Refuse
  <2>1. /\ UNCHANGED <<role, committed, live, used, held, report, left, disk, stage, evidence>>
        /\ pc = "copy-source" /\ pc' = "tokenizer"
        /\ disk[Source] = committed.frozen[Source]
        /\ private' = [private EXCEPT !["source"] = disk[Source]]
    BY <1>14 DEF CopySource, AsLaunched, StableCopy, Snapshot, Goes, runVars, storeVars,
       progress, stageVars, diskVars, inputVars
  <2> QED BY <2>1
<1>15. CASE CopySource("copy-tokenizer", "tokenizer", Tokenizer, "export") /\ ~Refuse
  <2>1. /\ UNCHANGED <<role, committed, live, used, held, report, left, disk, stage, evidence>>
        /\ pc = "copy-tokenizer" /\ pc' = "export"
        /\ disk[Tokenizer] = committed.frozen[Tokenizer]
        /\ private' = [private EXCEPT !["tokenizer"] = disk[Tokenizer]]
    BY <1>15 DEF CopySource, AsLaunched, StableCopy, Snapshot, Goes, runVars, storeVars,
       progress, stageVars, diskVars, inputVars
  <2> QED BY <2>1
<1> QED BY <1>r, <1>1, <1>2, <1>3, <1>4, <1>5, <1>6, <1>7, <1>8, <1>9, <1>10, <1>11, <1>12,
           <1>13, <1>14, <1>15
        DEF Training, EnterSource, EnterTokenizer

\* NoneIsNoRun: None is not the document of a completed run.
NoneIsNoRun ==
    \A u, copies, digests, replaced, exported:
        None # [used |-> u, private |-> copies, report |-> digests,
                replaced |-> replaced, exported |-> exported]

\* The export, its publication and run.json.
LEMMA ExportedKeeps ==
    ASSUME FrozenInputsAssumption, NoneIsNoRun, LaunchInv, Exporting
    PROVE  LaunchInv'
<1> USE DEF made, left, LaunchInv, Committed, ModelSeen, FramesRead, Copied, Completed,
    Holding, Exported, Begun, Staged, EarlyPcs, RunPcs, LoopPcs, ExportPcs, CopyPcs,
    StagePcs, BoundPcs, ReadPoints, HashPcs, TrainedOnLaunch, ReturnedMeansHeld
<1>r. CASE Refuse
  BY <1>r, RaiseKeeps DEF Refuse
<1>1. CASE /\ ~Refuse
           /\ \/ EnterExport \/ WriteModel \/ WriteSupport \/ HashStage \/ CheckStage
              \/ RenameStage \/ CheckRenamed \/ ValidatePublished
  <2>1. /\ UNCHANGED <<role, committed, live, used, private, held, disk, stage, evidence>>
        /\ UNCHANGED <<launch, checkpoint, complete, foreign, returned>>
        /\ pc \in StagePcs \ {"bind"} /\ pc' \in StagePcs \cup {"raised"}
    BY <1>1
    DEF EnterExport, WriteModel, WriteSupport, HashStage, CheckStage, RenameStage,
        CheckRenamed, ValidatePublished, Staging, Goes, runVars, storeVars, progress,
        stageVars, diskVars, inputVars
  <2> QED BY <2>1
<1>2. CASE ValidateBound /\ ~Refuse
  <2>1. /\ UNCHANGED <<role, committed, live, used, private, held, left, disk, stage, evidence>>
        /\ pc = "bind" /\ pc' = "files" /\ report' = Digests(entry)
        /\ entry.model = MergedModel /\ entry.support = SupportFiles
    BY <1>2 DEF ValidateBound, Holds, Goes, runVars, storeVars, progress, stageVars,
       diskVars, inputVars
  <2>2. report' = Merged(used, private, live.statistics)
    BY <2>1 DEF Digests, Contents, Merged, MergedModel, SupportFiles
  <2> QED BY <2>1, <2>2
<1>3. CASE BindExport /\ ~Refuse
  <2>1. /\ UNCHANGED <<role, committed, live, used, private, report, left, disk, stage, evidence>>
        /\ pc = "files" /\ pc' = "leave" /\ held' = held \cup {"export"}
        /\ Digests(entry) = report
    BY <1>3 DEF BindExport, HoldExport, TakeHold, Goes, runVars, storeVars, progress,
       stageVars, diskVars, inputVars
  <2>2. Digests(entry') = Merged(used', private', live'.statistics)
    BY <2>1
  <2> QED BY <2>1, <2>2 DEF Artifacts
<1>4. CASE (LeaveCopies \/ Revalidate) /\ ~Refuse
  <2>1. /\ UNCHANGED <<made, left, disk, stage, evidence>>
        /\ \/ pc = "leave" /\ pc' = "publish"
           \/ pc = "publish" /\ pc' = "persist"
    BY <1>4 DEF LeaveCopies, Revalidate, Goes, runVars, storeVars, progress, stageVars,
       diskVars, inputVars
  <2> QED BY <2>1
<1>5. CASE Publish
  <2>1. /\ UNCHANGED <<made, disk, stage, evidence>>
        /\ UNCHANGED <<launch, checkpoint, foreign, entry, returned>>
        /\ pc = "persist" /\ pc' = "published"
        /\ complete' = [used |-> used, private |-> private, report |-> report,
                        replaced |-> foreign, exported |-> Digests(entry)]
    BY <1>5 DEF Publish, runVars, storeVars, progress, stageVars, diskVars, inputVars
  <2>2. /\ complete' # None /\ complete'.used = used /\ complete'.private = private
        /\ complete'.replaced = foreign /\ complete'.exported = Digests(entry)
    BY <2>1 DEF NoneIsNoRun
  <2>3. role = "train" /\ launch # None /\ complete = None /\ ~returned
    BY <2>1
  <2>4. /\ used \subseteq {<<f, launch.frozen[f]>>: f \in Files}
                   \cup {<<m, launch.code.loaded[m]>>: m \in DOMAIN launch.code.loaded}
        /\ private = [source |-> launch.frozen[Source], tokenizer |-> launch.frozen[Tokenizer]]
    <3>1. UpTo(launch, used, 0) /\ launch.frozen[Dataset] = 0
      BY <2>1
    <3>2. Dataset \in Files /\ Converted \in Files
      BY DEF FrozenInputsAssumption
    <3>3. ASSUME NEW p \in used
          PROVE  p \in {<<f, launch.frozen[f]>>: f \in Files}
                   \cup {<<m, launch.code.loaded[m]>>: m \in DOMAIN launch.code.loaded}
      <4>1. CASE p \in Parts(launch)
        BY <3>2, <4>1 DEF Parts
      <4>2. CASE \E x \in 0..0: p = <<Dataset, x>>
        BY <3>1, <3>2, <4>2
      <4> QED BY <3>1, <3>3, <4>1, <4>2 DEF UpTo
    <3>4. private = [source |-> launch.frozen[Source], tokenizer |-> launch.frozen[Tokenizer]]
      BY <2>1
    <3> QED BY <3>3, <3>4
  <2>5. TrainedOnLaunch'
    BY <2>1, <2>2, <2>4
  <2>6. Exported'
    <3>1. "export" \notin foreign => Digests(entry) = Merged(used, private, live.statistics)
      BY <2>1
    <3> QED BY <2>1, <2>2, <2>3, <3>1
  <2> QED BY <2>1, <2>2, <2>3, <2>5, <2>6
<1>6. CASE Return /\ ~Refuse
  BY <1>6, EndedKeeps DEF Return
<1> QED BY <1>r, <1>1, <1>2, <1>3, <1>4, <1>5, <1>6 DEF Exporting

\* A replaced input is a later version of the frames, if it is one of them at all.
LEMMA FramesGrow ==
    ASSUME FrozenInputsAssumption, EvidenceInv, NEW f \in Files \cup Modules,
           disk' = [disk EXCEPT ![f] = @ + 1]
    PROVE  disk[Dataset] \in Nat /\ disk'[Dataset] \in Nat /\ disk[Dataset] <= disk'[Dataset]
<1>1. Dataset \in Files \cup Modules /\ disk \in [Files \cup Modules -> Nat]
  BY DEF EvidenceInv, FrozenInputsAssumption
<1>2. disk'[Dataset] = IF f = Dataset THEN disk[Dataset] + 1 ELSE disk[Dataset]
  BY <1>1
<1>3. disk[Dataset] \in Nat
  BY <1>1
<1> QED BY <1>2, <1>3

\* What other programs do: versions grow, and what is replaced becomes foreign.
LEMMA DisturbedKeeps ==
    ASSUME FrozenInputsAssumption, LaunchInv, EvidenceInv,
           ReplaceInput \/ ReplaceArtifact \/ TamperExport
    PROVE  LaunchInv'
<1> USE DEF made, left, LaunchInv, Committed, ModelSeen, FramesRead, Copied, Completed,
    Holding, Exported, Begun, Staged, EarlyPcs, RunPcs, LoopPcs, ExportPcs, CopyPcs,
    StagePcs, BoundPcs, ReadPoints, HashPcs, TrainedOnLaunch, ReturnedMeansHeld
<1>1. CASE ReplaceInput
  <2>1. PICK f \in Files \cup Modules: disk' = [disk EXCEPT ![f] = @ + 1]
    BY <1>1 DEF ReplaceInput, Replace
  <2>2. UNCHANGED <<made, left, stage, pc, initial, moment, evidence>>
    BY <1>1 DEF ReplaceInput, Replace, runVars, storeVars, progress, stageVars, inputVars
  <2>3. /\ disk[Dataset] \in Nat /\ disk'[Dataset] \in Nat
        /\ disk[Dataset] <= disk'[Dataset]
    BY <2>1, FramesGrow
  <2>4. Begun => UpTo(launch, used, disk'[Dataset])
    BY <2>3, UpToGrows
  <2>5. checkpoint # None => UpTo(launch, checkpoint.used, disk'[Dataset])
    BY <2>3, UpToGrows
  <2> QED BY <2>2, <2>4, <2>5
<1>2. CASE ReplaceArtifact
  <2>1. /\ UNCHANGED <<made, launch, checkpoint, complete, entry, returned>>
        /\ UNCHANGED <<disk, stage, pc, initial, moment, evidence>>
        /\ foreign \subseteq foreign' /\ foreign' \subseteq foreign \cup held
    BY <1>2 DEF ReplaceArtifact, processVars, runVars, progress, stageVars, inputVars
  <2> QED BY <2>1
<1>3. CASE TamperExport
  <2>1. /\ UNCHANGED <<role, committed, live, used, private, held>>
        /\ UNCHANGED <<launch, checkpoint, complete, returned>>
        /\ UNCHANGED <<disk, stage, pc, initial, moment, evidence>>
        /\ foreign \subseteq foreign' /\ foreign' \subseteq foreign \cup held
        /\ entry' # entry /\ "export" \in held => "export" \in foreign'
        /\ report' = report
    BY <1>3 DEF TamperExport, Tamper, progress, inputVars
  <2> QED BY <2>1
<1> QED BY <1>1, <1>2, <1>3

LEMMA LaunchInit ==
    ASSUME FrozenInputsAssumption, Init
    PROVE  LaunchInv
BY DEF Init, Unbuilt, NoCopies, LaunchInv, Committed, ModelSeen, FramesRead, Copied, Completed,
       Holding, Exported, Begun, Staged, EarlyPcs, RunPcs, LoopPcs, ExportPcs, CopyPcs,
       StagePcs, BoundPcs, ReadPoints, HashPcs, TrainedOnLaunch, ReturnedMeansHeld

LEMMA LaunchStep ==
    ASSUME FrozenInputsAssumption, NoneIsNoRun, EvidenceInv, EvidenceInv', LaunchInv,
           [Next]_vars
    PROVE  LaunchInv'
<1>1. CASE Start("prepare") \/ Start("train")
  BY <1>1, StartedKeeps
<1>2. CASE Booting \/ UNCHANGED vars
  <2>1. UNCHANGED <<made, left, disk, stage, pc, initial, moment, evidence>>
    BY <1>2 DEF Booting, CaptureModule, vars, diskVars, processVars, inputVars, storeVars,
       runVars, progress, stageVars, made, left
  <2> QED
    BY <2>1
    DEF made, left, LaunchInv, Committed, ModelSeen, FramesRead, Copied, Completed,
        Holding, Exported, Begun, Staged, TrainedOnLaunch, ReturnedMeansHeld
<1>3. CASE InputsCollected
  BY <1>3, CollectedKeeps DEF InputsCollected
<1>4. CASE CodeHashed
  BY <1>4, HashedKeeps DEF CodeHashed
<1>5. CASE Booted \/ Prebuild \/ Preparing
  BY <1>5, PreparedKeeps
<1>6. CASE Training
  BY <1>6, TrainedKeeps
<1>7. CASE Exporting
  BY <1>7, ExportedKeeps
<1>8. CASE Raised \/ Kill
  BY <1>8, EndedKeeps DEF Raised, Kill, storeVars
<1>9. CASE ReplaceInput \/ ReplaceArtifact \/ TamperExport
  BY <1>9, DisturbedKeeps
<1> QED BY <1>1, <1>2, <1>3, <1>4, <1>5, <1>6, <1>7, <1>8, <1>9 DEF Next, Work

LEMMA LaunchInvariance ==
    ASSUME FrozenInputsAssumption, NoneIsNoRun
    PROVE  Spec => []LaunchInv
<1>1. Init => EvidenceInv /\ LaunchInv
  BY EvidenceInit, LaunchInit
<1>2. EvidenceInv /\ LaunchInv /\ [Next]_vars => EvidenceInv' /\ LaunchInv'
  <2>1. EvidenceInv /\ [Next]_vars => EvidenceInv'
    BY EvidenceStep
  <2> QED BY <2>1, LaunchStep
<1> QED BY <1>1, <1>2, PTL DEF Spec

\* Whatever is replaced and whenever the process is killed and started again, a
\* completed run was computed from the weights, the code, the frames and the files
\* its launch.json names (run_lora_finetune).
THEOREM RunsTrainOnTheirLaunch ==
    ASSUME FrozenInputsAssumption, NoneIsNoRun
    PROVE  Spec => []TrainedOnLaunch
<1>1. LaunchInv => TrainedOnLaunch
  BY DEF LaunchInv, Completed
<1> QED BY <1>1, LaunchInvariance, PTL

\* When run_lora_finetune returns, what run.json names was the process's own when
\* run.json was published, and the export held what was trained.
THEOREM ReturnsHoldTheirArtifacts ==
    ASSUME FrozenInputsAssumption, NoneIsNoRun
    PROVE  Spec => []ReturnedMeansHeld
<1>1. LaunchInv => ReturnedMeansHeld
  BY DEF LaunchInv, Exported
<1> QED BY <1>1, LaunchInvariance, PTL
=================================================================================
