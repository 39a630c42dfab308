------------------------- MODULE PublicTraining_proofs -------------------------
(***************************************************************************)
(* A managed training run over any number of killed, interrupted and       *)
(* resumed processes, for every number of steps, cadence and retention:    *)
(* the checkpoint run.json names stays, training without dropout continues *)
(* the exact trajectory, and the record only moves forward (ResumableRun). *)
(***************************************************************************)
EXTENDS PublicTraining, SequenceTheorems, FiniteSetTheorems, WellFoundedInduction, TLAPS

IsPublished(c) == \E e \in Published: e.ckpt = c

\* The publication under way, and its name's files.
PubFiles ==
    /\ pub.at = "idle" => pub = NoPublication
    /\ pub.at # "idle" => pub.name \in Names /\ pub.doc \in Documents
    /\ pub.at = "aside" => file[pub.name] # Absent
    /\ pub.at \in {"aside", "fresh", "swap"} => staged[pub.name] > 0
    /\ pub.at = "swap" => file[pub.name] = Absent
    /\ pub.at \in {"swap", "drop"} => previous[pub.name] # << >>
    /\ pub.at \in {"drop", "done"} => file[pub.name] = pub.doc

RunFiles == file[Run] \in RunDocuments \cup {Absent} /\ previous[Run] \in Seq(RunDocuments)

\* Whose publication it is.
Publishing ==
    /\ pc \notin PersistPoints \cup {"load", "saving"} => pub = NoPublication
    /\ pc \in {"load", "saving"} =>
          /\ op.at \notin {"pointing", "raised"} => pub = NoPublication
          /\ pub.at # "idle" => pub.name = Latest
    /\ pc \in PersistPoints /\ pub.at # "idle" => pub.name = Run /\ pub.doc = mem

\* A name is one directory's, and nothing damages it.
OneName == \A e, f \in Published: e.ckpt.step = f.ckpt.step => e = f
Sound == IsFiniteSet(dirs) /\ OneName /\ \A e \in dirs: e.whole

OnDisk == {"pointer", "pointing", "prune", "pruning", "returned"}

\* The call under way saves a checkpoint newer than all, or loads the newest.
Calling ==
    /\ pc \notin {"load", "saving"} => op = NoOp
    /\ pc = "load" => op.at \in OnDisk \cup {"raised"}
    /\ pc = "saving" => /\ op.at \in OnDisk \cup {"staged", "raised"}
                        /\ op.ckpt = [step |-> n, build |-> build]
    /\ op.at = "staged" =>
          /\ \E e \in dirs: e.kind = "stage"
          /\ \A e \in dirs: e.kind = "stage" => e.ckpt = op.ckpt
          /\ \A e \in Published: e.ckpt.step < op.ckpt.step
    /\ op.at \in OnDisk =>
          /\ op.ckpt \in Checkpoints
          /\ IsPublished(op.ckpt)
          /\ \A e \in Published: e.ckpt.step <= op.ckpt.step

Working == {"trim", "announce", "loop", "append", "save"}

\* What run.json names and what it will name next are published, and nothing
\* that is published is between them.
Records ==
    /\ Recorded # Absent => IsPublished(Recorded)
    /\ mem.last # Absent => IsPublished(mem.last)
    /\ pc \notin {"down", "commit", "handle"} => Recorded = mem.last
    /\ pc \in {"commit", "handle"} =>
          Recorded = mem.last \/ (mem.last # Absent /\ (Recorded # Absent => Recorded.step < mem.last.step))
    /\ pc = "load" /\ op.at \in OnDisk /\ Recorded # Absent => op.ckpt = Recorded
    /\ pc = "commit" => mem.last # Absent /\ mem.last.step = n
    /\ pc \in {"trim", "announce", "loop", "commit"} => \A e \in Published: e.ckpt.step <= n
    /\ pc \in {"append", "save"} => \A e \in Published: e.ckpt.step < n
    /\ pc \in Working /\ Recorded # Absent => \A e \in Published: e.ckpt.step <= Recorded.step
    /\ pc = "saving" /\ Recorded # Absent =>
          /\ Recorded.step < n
          /\ \A e \in Published: e.ckpt.step <= Recorded.step \/ e.ckpt = op.ckpt

\* All parts of the trajectory are at step s, but for dropout masks that were
\* not drawn again.
Reached(parts, s) ==
    /\ \E m \in 0..s: parts = [After(s) EXCEPT !.masks = m]
    /\ ~Dropout => parts = After(s)

\* The parts of the trajectory move together, and the metrics with them.
Trajectory ==
    /\ Reached(net, n)
    /\ pc \in {"announce", "loop", "save", "saving", "commit"} => Len(rows) = n
    /\ pc = "append" => n > 0 /\ Len(rows) = n - 1
    /\ pc # "down" => build \in Builds
    /\ pc \in {"save", "saving"} => n > 0
    /\ build = 0 => /\ rows = << >> /\ dirs = {} /\ n = 0 /\ mem = NewRun
                    /\ file[Run] = Absent /\ previous[Run] = << >>

\* The run ends from the checkpoint of its last step.
Closing ==
    /\ Ended => pc = "down" \/ (pc = "final" /\ pub.at \in {"drop", "done", "failed"})
    /\ mem.status = "exported" => pc = "final"
    /\ pc \in {"down", "load", "trim", "announce"} => ~observed
    /\ pc \in {"export", "finalize", "validate"} => n = Horizon
    /\ pc = "final" \/ (pc \in {"loop", "export", "finalize", "validate"} /\ observed /\ n = Horizon)
          => mem.last # Absent /\ mem.last.step = Horizon

RunInv ==
    /\ TypeOK /\ PubFiles /\ RunFiles /\ Publishing
    /\ Sound /\ Calling /\ Records /\ Trajectory /\ Closing
-----------------------------------------------------------------------------
LastOfAll(s) == s[Len(s)]

\* The last of the generations set aside.
LEMMA Generations ==
    ASSUME NEW D, NEW s \in Seq(D)
    PROVE  /\ AllButLast(s) \in Seq(D)
           /\ s # << >> => LastOfAll(s) \in D
           /\ \A d \in D: /\ Append(s, d) \in Seq(D) /\ Append(s, d) # << >>
                          /\ LastOfAll(Append(s, d)) = d
<1>1. /\ Len(s) \in Nat
      /\ \A i \in 1..Len(s): s[i] \in D
      /\ s # << >> => Len(s) >= 1
  BY LenProperties, EmptySeq
<1>2. AllButLast(s) \in Seq(D)
  <2>1. \A i \in 1..(Len(s) - 1): s[i] \in D
    BY <1>1
  <2> QED BY <1>1, <2>1, SubSeqProperties DEF AllButLast
<1>3. ASSUME NEW d \in D
      PROVE  Append(s, d) \in Seq(D) /\ Append(s, d) # << >> /\ LastOfAll(Append(s, d)) = d
  BY <1>1, AppendProperties DEF LastOfAll
<1> QED BY <1>1, <1>2, <1>3 DEF LastOfAll

GenerationsAre ==
    \A k \in Names:
        /\ file[k] # Absent => Generation(k) = file[k]
        /\ previous[k] = << >> => Generation(k) = file[k]
        /\ file[k] = Absent /\ previous[k] # << >> => Generation(k) = LastOfAll(previous[k])

LEMMA GenerationIs == GenerationsAre
BY DEF GenerationsAre, Generation, LastOfAll

\* What a publication is about to do does not change while it is under way.
PubShape(a) == pub' = [pub EXCEPT !.at = a]

LEMMA PubShapeIs ==
    ASSUME pub \in PublicationState, NEW a \in Point, PubShape(a)
    PROVE  pub' \in PublicationState /\ pub'.at = a /\ pub'.name = pub.name /\ pub'.doc = pub.doc
BY DEF PubShape, PublicationState

\* A step of write_run_state(m, d): the generation of m stays, or becomes d.
LEMMA FileMoves ==
    ASSUME StateFilesConstants, FilesTypeOK, PubFiles, PublishStep \/ PublicationFails,
           NEW m \in Names, pub.name = m, NEW D \in SUBSET Documents, pub.doc \in D,
           file[m] \in D \cup {Absent}, previous[m] \in Seq(D)
    PROVE  /\ FilesTypeOK' /\ PubFiles'
           /\ pub.at # "idle" /\ pub'.name = m /\ pub'.doc = pub.doc /\ pub'.at # "idle"
           /\ pub.at \in {"drop", "done"} => pub'.at \in {"done", "failed"}
           /\ file'[m] \in D \cup {Absent} /\ previous'[m] \in Seq(D)
           /\ \A k \in Names \ {m}: file'[k] = file[k] /\ previous'[k] = previous[k]
           /\ \/ Generation(m)' = Generation(m)
              \/ /\ pub.at \in {"fresh", "swap"} /\ pub'.at \in {"drop", "done"}
                 /\ Generation(m)' = pub.doc
<1>1. /\ file \in [Names -> Documents \cup {Absent}] /\ staged \in [Names -> Nat]
      /\ previous \in [Names -> Seq(Documents)] /\ pub \in PublicationState
  BY DEF FilesTypeOK
<1>2. /\ staged[m] \in Nat /\ Absent \notin D /\ previous[m] \in Seq(Documents)
      /\ pub.at \in {"aside", "fresh", "swap"} => staged[m] > 0
  BY <1>1 DEF StateFilesConstants, PubFiles
<1>a. GenerationsAre'
  BY GenerationIs, PTL
<1>b. GenerationsAre
  BY GenerationIs
<1>3. CASE WriteStaged
  <2> DEFINE a == IF file[pub.name] = Absent THEN "fresh" ELSE "aside"
  <2>1. a \in Point /\ (a = "aside" => file[m] # Absent) /\ a \in {"fresh", "aside"} /\ pub.at = "stage"
    BY <1>3 DEF Point, WriteStaged
  <2>2. staged' = [staged EXCEPT ![m] = @ + 1] /\ PubShape(a) /\ UNCHANGED <<file, previous>>
    BY <1>3 DEF WriteStaged, PubShape
  <2> HIDE DEF a
  <2>3. pub' \in PublicationState /\ pub'.at = a /\ pub'.name = m /\ pub'.doc = pub.doc
    BY <1>1, <2>1, <2>2, PubShapeIs
  <2>4. staged' \in [Names -> Nat] /\ staged'[m] > 0
    BY <1>1, <1>2, <2>2
  <2>5. FilesTypeOK' /\ PubFiles'
    BY <1>1, <2>1, <2>2, <2>3, <2>4 DEF FilesTypeOK, PubFiles
  <2>6. Generation(m)' = Generation(m)
    BY <2>2 DEF Generation
  <2> QED BY <2>1, <2>2, <2>3, <2>5, <2>6
<1>4. CASE SetAside
  <2>1. /\ pub.at = "aside" /\ PubShape("swap") /\ UNCHANGED staged
        /\ previous' = [previous EXCEPT ![m] = Append(@, file[m])]
        /\ file' = [file EXCEPT ![m] = Absent]
    BY <1>4 DEF SetAside, PubShape
  <2>2. pub' \in PublicationState /\ pub'.at = "swap" /\ pub'.name = m /\ pub'.doc = pub.doc
    BY <1>1, <2>1, PubShapeIs DEF Point
  <2>3. file[m] \in D /\ file[m] # Absent
    BY <2>1 DEF PubFiles
  <2>4. /\ previous' \in [Names -> Seq(Documents)] /\ previous'[m] # << >> /\ previous'[m] \in Seq(D)
        /\ LastOfAll(previous'[m]) = file[m]
        /\ \A k \in Names \ {m}: previous'[k] = previous[k]
    <3> DEFINE s == Append(previous[m], file[m])
    <3>1. s \in Seq(D) /\ s # << >> /\ LastOfAll(s) = file[m]
      BY <2>3, Generations
    <3>2. s \in Seq(Documents)
      BY <1>2, <2>3, Generations
    <3>3. previous' = [previous EXCEPT ![m] = s]
      BY <2>1
    <3> HIDE DEF s
    <3> QED BY <1>1, <3>1, <3>2, <3>3
  <2>5. /\ file' \in [Names -> Documents \cup {Absent}] /\ file'[m] = Absent
        /\ \A k \in Names \ {m}: file'[k] = file[k]
    BY <1>1, <2>1
  <2>6. FilesTypeOK' /\ PubFiles'
    BY <1>1, <1>2, <2>1, <2>2, <2>4, <2>5 DEF FilesTypeOK, PubFiles
  <2>7. Generation(m)' = Generation(m)
    BY <1>a, <1>b, <2>3, <2>4, <2>5 DEF GenerationsAre
  <2> QED BY <2>1, <2>2, <2>4, <2>5, <2>6, <2>7
<1>5. CASE PublishStaged
  <2> DEFINE a == IF pub.at = "swap" THEN "drop" ELSE "done"
  <2>1. /\ pub.at \in {"fresh", "swap"} /\ PubShape(a) /\ UNCHANGED previous
        /\ file' = [file EXCEPT ![m] = pub.doc]
        /\ staged' = [staged EXCEPT ![m] = @ - 1]
    BY <1>5 DEF PublishStaged, PubShape
  <2>2. a \in Point /\ a \in {"drop", "done"} /\ (a = "drop" => previous[m] # << >>)
    BY DEF Point, PubFiles
  <2> HIDE DEF a
  <2>3. pub' \in PublicationState /\ pub'.at = a /\ pub'.name = m /\ pub'.doc = pub.doc
    BY <1>1, <2>1, <2>2, PubShapeIs
  <2>4. staged' \in [Names -> Nat]
    BY <1>1, <1>2, <2>1
  <2>5. /\ file' \in [Names -> Documents \cup {Absent}] /\ file'[m] = pub.doc
        /\ \A k \in Names \ {m}: file'[k] = file[k]
    BY <1>1, <2>1
  <2>6. FilesTypeOK' /\ PubFiles'
    BY <1>1, <2>1, <2>2, <2>3, <2>4, <2>5 DEF FilesTypeOK, PubFiles
  <2>7. Generation(m)' = pub.doc
    BY <1>2, <1>a, <2>5 DEF GenerationsAre
  <2> QED BY <2>1, <2>2, <2>3, <2>5, <2>6, <2>7
<1>6. CASE DropPrevious
  <2>1. /\ pub.at = "drop" /\ PubShape("done") /\ UNCHANGED <<file, staged>>
        /\ previous' = [previous EXCEPT ![m] = AllButLast(@)]
    BY <1>6 DEF DropPrevious, PubShape
  <2>2. pub' \in PublicationState /\ pub'.at = "done" /\ pub'.name = m /\ pub'.doc = pub.doc
    BY <1>1, <2>1, PubShapeIs DEF Point
  <2>3. /\ previous' \in [Names -> Seq(Documents)] /\ previous'[m] \in Seq(D)
        /\ \A k \in Names \ {m}: previous'[k] = previous[k]
    <3>1. AllButLast(previous[m]) \in Seq(D) /\ AllButLast(previous[m]) \in Seq(Documents)
      BY <1>2, Generations
    <3> QED BY <1>1, <2>1, <3>1
  <2>4. file[m] = pub.doc
    BY <2>1 DEF PubFiles
  <2>5. FilesTypeOK' /\ PubFiles'
    BY <1>1, <2>1, <2>2, <2>3, <2>4 DEF FilesTypeOK, PubFiles
  <2>6. Generation(m)' = Generation(m)
    BY <1>2, <1>a, <1>b, <2>1, <2>4 DEF GenerationsAre
  <2> QED BY <2>1, <2>2, <2>3, <2>5, <2>6
<1>7. CASE PublicationFails
  <2>1. /\ PubShape("failed") /\ pub.at \in {"stage", "aside", "fresh", "swap", "drop", "done"}
    BY <1>7 DEF PublicationFails, PubShape
  <2>2. pub' \in PublicationState /\ pub'.at = "failed" /\ pub'.name = m /\ pub'.doc = pub.doc
    BY <1>1, <2>1, PubShapeIs DEF Point
  <2>3. staged' \in [Names -> Nat]
    <3>1. staged' = staged \/ (staged[m] > 0 /\ staged' = [staged EXCEPT ![m] = @ - 1])
      BY <1>2, <1>7 DEF PublicationFails
    <3>2. CASE staged[m] > 0 /\ staged' = [staged EXCEPT ![m] = @ - 1]
      <4>1. staged[m] - 1 \in Nat
        BY <1>2, <3>2
      <4> QED BY <1>1, <3>2, <4>1
    <3> QED BY <1>1, <3>1, <3>2
  <2>4. PubFiles'
    BY <2>1, <2>2 DEF PubFiles
  <2>5. CASE UNCHANGED <<file, previous>>
    <3>1. FilesTypeOK'
      BY <1>1, <2>2, <2>3, <2>5 DEF FilesTypeOK
    <3>2. Generation(m)' = Generation(m)
      BY <2>5 DEF Generation
    <3> QED BY <2>1, <2>2, <2>4, <2>5, <3>1, <3>2
  <2>6. CASE ~UNCHANGED <<file, previous>>
    <3> DEFINE g == Generation(m)
               s == AllButLast(previous[m])
    <3>1. /\ pub.at = "swap" /\ file' = [file EXCEPT ![m] = g] /\ previous' = [previous EXCEPT ![m] = s]
      BY <1>7, <2>6 DEF PublicationFails
    <3>2. file[m] = Absent /\ previous[m] # << >>
      BY <3>1 DEF PubFiles
    <3>3. s \in Seq(D) /\ s \in Seq(Documents) /\ g \in D
      BY <1>2, <1>b, <3>2, Generations DEF GenerationsAre
    <3> HIDE DEF g, s
    <3>4. /\ file' \in [Names -> Documents \cup {Absent}] /\ file'[m] = g
          /\ previous' \in [Names -> Seq(Documents)] /\ previous'[m] = s
          /\ \A k \in Names \ {m}: file'[k] = file[k] /\ previous'[k] = previous[k]
      BY <1>1, <3>1, <3>3
    <3>5. FilesTypeOK'
      BY <1>1, <2>2, <2>3, <3>4 DEF FilesTypeOK
    <3>6. Generation(m)' = Generation(m)
      BY <1>2, <1>a, <3>3, <3>4 DEF g, GenerationsAre
    <3> QED BY <2>1, <2>2, <2>4, <3>3, <3>4, <3>5, <3>6
  <2> QED BY <2>5, <2>6
<1> QED BY <1>3, <1>4, <1>5, <1>6, <1>7 DEF PublishStep
-----------------------------------------------------------------------------
OpType == [at: OpPoints, ckpt: Checkpoints \cup {Absent}, spare: Checkpoints \cup {Absent}]

DirsOK == dirs \subseteq Entries /\ IsFiniteSet(dirs) /\ \A e \in dirs: e.whole

RunType ==
    /\ pc \in Points /\ mem \in RunDocuments /\ n \in 0..Horizon /\ observed \in BOOLEAN
    /\ rows \in Seq(Builds) /\ Len(rows) <= Horizon
    /\ exported \in BOOLEAN /\ build \in Builds \cup {0}

\* the invariant, conjunct by conjunct
RunParts ==
    /\ FilesTypeOK /\ PubFiles /\ RunFiles
    /\ op \in OpType /\ DirsOK /\ OneName /\ RunType
    /\ Publishing /\ Calling /\ Records /\ Trajectory /\ Closing

LEMMA ReachedIs ==
    ASSUME NEW s \in 0..Horizon, Horizon \in Nat, NEW parts, Reached(parts, s)
    PROVE  DOMAIN parts = DOMAIN After(0) /\ \A part \in DOMAIN parts: parts[part] \in 0..Horizon
<1>1. PICK m \in 0..s: parts = [After(s) EXCEPT !.masks = m]
  BY DEF Reached
<1> QED BY <1>1 DEF After

LEMMA StartReached == Reached(After(0), 0)
BY DEF Reached, After

LEMMA LoadReached ==
    ASSUME NEW s \in Nat
    PROVE  Reached([After(s) EXCEPT !.masks = 0], s)
BY DEF Reached, After

LEMMA UpdateReached ==
    ASSUME NEW s \in Nat, NEW parts, Reached(parts, s), Dropout \in BOOLEAN
    PROVE  Reached([part \in DOMAIN parts |-> parts[part] + After(1)[part]], s + 1)
<1> DEFINE next == [part \in DOMAIN parts |-> parts[part] + After(1)[part]]
<1>1. PICK m \in 0..s: parts = [After(s) EXCEPT !.masks = m]
  BY DEF Reached
<1>2. CASE Dropout
  <2>1. next = [After(s + 1) EXCEPT !.masks = m + 1]
    BY <1>1, <1>2 DEF After
  <2> QED BY <1>2, <2>1 DEF Reached
<1>3. CASE ~Dropout
  <2>1. parts = After(s)
    BY <1>3 DEF Reached
  <2>2. next = After(s + 1) /\ After(s + 1) = [After(s + 1) EXCEPT !.masks = 0]
    BY <1>3, <2>1 DEF After
  <2> QED BY <2>2 DEF Reached
<1> QED BY <1>2, <1>3

LEMMA Parts == RunInv <=> RunParts
<1>1. ASSUME RunInv PROVE RunParts
  BY <1>1 DEF RunInv, RunParts, TypeOK, StoreTypeOK, OpType, DirsOK, Sound, RunType
<1>2. ASSUME RunParts PROVE RunInv
  <2>1. DOMAIN net = DOMAIN After(0) /\ \A part \in DOMAIN net: net[part] \in 0..Horizon
    <3>1. n \in 0..Horizon /\ Reached(net, n) /\ Horizon \in Nat
      BY <1>2, CheckpointConstants DEF RunParts, RunType, Trajectory
    <3> QED BY <3>1, ReachedIs
  <2> QED BY <1>2, <2>1 DEF RunInv, RunParts, TypeOK, StoreTypeOK, OpType, DirsOK, Sound, RunType
<1> QED BY <1>1, <1>2

LEMMA Constants ==
    ASSUME StateFilesConstants, CheckpointConstants, RunConstants
    PROVE  /\ Absent \notin Documents /\ RunDocuments \subseteq Documents /\ Checkpoints \subseteq Documents
           /\ Absent \notin Checkpoints /\ Absent \notin RunDocuments
           /\ Run \in Names /\ Latest \in Names /\ Run # Latest
           /\ Horizon \in Nat \ {0} /\ Builds \subseteq Nat \ {0} /\ KeepLast \in Nat \ {0}
           /\ \A c \in Checkpoints: c.step \in 1..Horizon /\ c.step \in Nat /\ c.build \in Builds
BY DEF StateFilesConstants, CheckpointConstants, RunConstants, Checkpoints, Steps

LEMMA RecordedIs ==
    ASSUME StateFilesConstants, CheckpointConstants, RunConstants, RunFiles
    PROVE  /\ Document \in RunDocuments \cup {Absent}
           /\ Recorded \in Checkpoints \cup {Absent}
<1>1. Document \in RunDocuments \cup {Absent}
  <2>1. previous[Run] # << >> => previous[Run][Len(previous[Run])] \in RunDocuments
    BY Generations DEF RunFiles, LastOfAll
  <2> QED BY <2>1 DEF RunFiles, Document, Generation
<1>2. \A d \in RunDocuments: d.last \in Checkpoints \cup {Absent}
  BY DEF RunDocuments
<1> QED BY <1>1, <1>2 DEF Recorded

LEMMA SameDocument ==
    ASSUME Generation(Run)' = Generation(Run)
    PROVE  Document' = Document /\ Recorded' = Recorded /\ Ended' = Ended
BY DEF Document, Recorded, Ended

LEMMA SameDisk ==
    ASSUME UNCHANGED <<diskVars, dirs>>
    PROVE  /\ UNCHANGED <<file, staged, previous, dirs>>
           /\ Document' = Document /\ Recorded' = Recorded /\ Ended' = Ended
           /\ Published' = Published
<1>1. UNCHANGED <<file, staged, previous, dirs>>
  BY DEF diskVars
<1>2. Generation(Run)' = Generation(Run)
  BY <1>1 DEF Generation
<1> QED BY <1>1, <1>2, SameDocument DEF Published

LEMMA RestingIs == NoOp \in OpType /\ NoOp.at = "idle"
                   /\ NoPublication \in PublicationState /\ NoPublication.at = "idle"
BY DEF NoOp, OpType, OpPoints, NoPublication, PublicationState, Point

\* A step that leaves the disk alone and the process in no call.
LEMMA Rests ==
    ASSUME RunInv, UNCHANGED <<diskVars, dirs>>, op' = NoOp, pub' = NoPublication,
           pc' \notin {"load", "saving"}, RunType', Records', Trajectory', Closing'
    PROVE  RunInv'
<1>1. RunParts
  BY Parts
<1>2. UNCHANGED <<file, staged, previous, dirs>> /\ Published' = Published
  BY SameDisk
<1>3. FilesTypeOK' /\ PubFiles' /\ RunFiles'
  BY <1>1, <1>2, RestingIs DEF RunParts, FilesTypeOK, PubFiles, RunFiles
<1>4. op' \in OpType /\ DirsOK' /\ OneName'
  BY <1>1, <1>2, RestingIs DEF RunParts, DirsOK, OneName
<1>5. Publishing' /\ Calling'
  BY RestingIs DEF Publishing, Calling, OnDisk
<1>6. RunParts'
  BY <1>3, <1>4, <1>5 DEF RunParts
<1> QED BY <1>6, Parts, PTL

\* The end of a process, whatever ends it.
LEMMA DownKeeps ==
    ASSUME StateFilesConstants, CheckpointConstants, RunConstants, RunInv, pc # "down",
           UNCHANGED <<diskVars, dirs, rows, exported, build>>, op' = NoOp, pub' = NoPublication, Down
    PROVE  RunInv'
<1>1. RunParts
  BY Parts
<1>2. Document' = Document /\ Recorded' = Recorded /\ Ended' = Ended /\ Published' = Published
  BY SameDisk
<1>3. pc' = "down" /\ mem' = NewRun /\ n' = 0 /\ net' = After(0) /\ observed' = FALSE
  BY DEF Down
<1>4. NewRun \in RunDocuments /\ NewRun.last = Absent /\ NewRun.status = "running"
  BY Constants DEF NewRun, RunDocuments, Statuses
<1>5. build \in Builds /\ build # 0
  BY <1>1, Constants DEF RunParts, Trajectory
<1>6. RunType'
  <2>1. 0 \in 0..Horizon
    BY DEF CheckpointConstants
  <2>2. rows' \in Seq(Builds) /\ Len(rows') <= Horizon /\ exported' \in BOOLEAN /\ build' \in Builds \cup {0}
    BY <1>1 DEF RunParts, RunType
  <2>3. pc' \in Points /\ mem' \in RunDocuments /\ n' \in 0..Horizon /\ observed' \in BOOLEAN
    BY <1>3, <1>4, <2>1 DEF Points
  <2> QED BY <2>2, <2>3 DEF RunType
<1>7. Records'
  BY <1>1, <1>2, <1>3, <1>4 DEF RunParts, Records, IsPublished, Working
<1>8. Trajectory' /\ Closing'
  BY <1>2, <1>3, <1>4, <1>5, StartReached DEF Trajectory, Closing
<1> QED BY <1>3, <1>6, <1>7, <1>8, Rests

LEMMA InitRunInv ==
    ASSUME StateFilesConstants, CheckpointConstants, RunConstants, Init
    PROVE  RunInv
<1>1. /\ file = [k \in Names |-> Absent] /\ staged = [k \in Names |-> 0] /\ previous = [k \in Names |-> << >>]
      /\ pub = NoPublication /\ dirs = {} /\ op = NoOp
      /\ pc = "down" /\ mem = NewRun /\ n = 0 /\ net = After(0) /\ observed = FALSE
      /\ rows = << >> /\ exported = FALSE /\ build = 0
  BY DEF Init, StoreInit, FilesInit
<1>2. NewRun \in RunDocuments /\ NewRun.last = Absent /\ NewRun.status = "running"
  BY Constants DEF NewRun, RunDocuments, Statuses
<1>3. file[Run] = Absent /\ previous[Run] = << >>
  BY <1>1, Constants
<1>4. Document = Absent /\ Recorded = Absent /\ ~Ended
  BY <1>3 DEF Document, Recorded, Ended, Generation
<1>5. FilesTypeOK /\ PubFiles /\ RunFiles
  BY <1>1, <1>3, RestingIs DEF FilesTypeOK, PubFiles, RunFiles
<1>6. op \in OpType /\ DirsOK /\ OneName /\ Publishing /\ Calling
  BY <1>1, RestingIs, FS_EmptySet DEF DirsOK, OneName, Published, Publishing, Calling, OnDisk
<1>7. RunType
  <2>1. 0 \in 0..Horizon /\ 0 <= Horizon
    BY DEF CheckpointConstants
  <2>2. rows \in Seq(Builds) /\ Len(rows) = 0
    BY <1>1, EmptySeq
  <2> QED BY <1>1, <1>2, <2>1, <2>2 DEF RunType, Points
<1>8. Records /\ Trajectory /\ Closing
  BY <1>1, <1>2, <1>3, <1>4, StartReached DEF Records, Trajectory, Closing, Working
<1> QED BY <1>5, <1>6, <1>7, <1>8, Parts DEF RunParts
-----------------------------------------------------------------------------
\* Where no call and no publication is under way.
LEMMA IdleIs ==
    ASSUME RunParts, pc \notin PersistPoints \cup {"load", "saving"}
    PROVE  pub = NoPublication /\ op = NoOp
BY DEF RunParts, Publishing, Calling

LEMMA StoreStill ==
    ASSUME UNCHANGED storeVars
    PROVE  UNCHANGED <<diskVars, dirs>> /\ op' = op /\ pub' = pub
BY DEF storeVars, fileVars, diskVars

LEMMA DocumentIs ==
    ASSUME mem \in RunDocuments, NEW s \in Statuses, NEW c \in 0..Horizon
    PROVE  /\ [mem EXCEPT !.status = s] \in RunDocuments
           /\ [mem EXCEPT !.status = s].last = mem.last /\ [mem EXCEPT !.status = s].status = s
           /\ [mem EXCEPT !.status = s, !.completed = c] \in RunDocuments
           /\ [mem EXCEPT !.status = s, !.completed = c].last = mem.last
           /\ [mem EXCEPT !.status = s, !.completed = c].status = s
BY DEF RunDocuments

LEMMA BindingIs ==
    ASSUME mem \in RunDocuments, NEW c \in 0..Horizon, NEW k \in Checkpoints \cup {Absent}
    PROVE  /\ [mem EXCEPT !.completed = c, !.last = k] \in RunDocuments
           /\ [mem EXCEPT !.completed = c, !.last = k].last = k
           /\ [mem EXCEPT !.completed = c, !.last = k].status = mem.status
BY DEF RunDocuments

LEMMA StartFreshKeeps ==
    ASSUME StateFilesConstants, CheckpointConstants, RunConstants, RunInv, StartFresh
    PROVE  RunInv'
<1>1. RunParts
  BY Parts
<1>2. /\ pc = "down" /\ build = 0 /\ 1 \in Builds /\ build' = 1 /\ pc' = "announce"
      /\ UNCHANGED <<storeVars, mem, n, net, observed, rows, exported>>
  BY DEF StartFresh, Goes
<1>3. UNCHANGED <<diskVars, dirs>> /\ op' = NoOp /\ pub' = NoPublication
  BY <1>1, <1>2, StoreStill, IdleIs DEF PersistPoints
<1>4. /\ rows = << >> /\ dirs = {} /\ n = 0 /\ mem = NewRun /\ file[Run] = Absent /\ previous[Run] = << >>
      /\ Reached(net, n) /\ ~observed
  BY <1>1, <1>2 DEF RunParts, Trajectory, Closing
<1>5. Document = Absent /\ Recorded = Absent /\ ~Ended
  BY <1>4 DEF Document, Recorded, Ended, Generation
<1>6. Recorded' = Recorded /\ Ended' = Ended /\ Published' = Published /\ Published = {}
  BY <1>3, <1>4, SameDisk DEF Published
<1>7. RunType'
  BY <1>1, <1>2 DEF RunParts, RunType, Points, PersistPoints
<1>8. Records'
  BY <1>2, <1>4, <1>5, <1>6 DEF Records, NewRun
<1>9. Trajectory'
  BY <1>2, <1>4, EmptySeq DEF Trajectory
<1>10. Closing'
  BY <1>2, <1>4, <1>5, <1>6 DEF Closing, NewRun
<1> QED BY <1>2, <1>3, <1>7, <1>8, <1>9, <1>10, Rests

LEMMA LoadedKeeps ==
    ASSUME StateFilesConstants, CheckpointConstants, RunConstants, RunInv, Loaded
    PROVE  RunInv'
<1>1. RunParts
  BY Parts
<1>2. /\ pc = "load" /\ op.at = "returned" /\ op' = NoOp /\ n' = op.ckpt.step
      /\ net' = [After(n') EXCEPT !.masks = 0] /\ pc' = "trim" /\ UNCHANGED <<fileVars, dirs, mem, observed, rows, exported, build>>
  BY DEF Loaded
<1>3. UNCHANGED <<diskVars, dirs>> /\ pub' = pub /\ pub = NoPublication
  BY <1>1, <1>2 DEF fileVars, diskVars, RunParts, Publishing
<1>4. Recorded' = Recorded /\ Ended' = Ended /\ Published' = Published
  BY <1>3, SameDisk
<1>5. /\ op.ckpt \in Checkpoints /\ op.ckpt.step \in 1..Horizon
      /\ \A e \in Published: e.ckpt.step <= op.ckpt.step
      /\ Recorded # Absent => op.ckpt = Recorded
      /\ Recorded = mem.last /\ (mem.last # Absent => IsPublished(mem.last))
  BY <1>1, <1>2, Constants DEF RunParts, Calling, OnDisk, Records
<1>6. n' \in 0..Horizon /\ build \in Builds /\ build # 0
  BY <1>1, <1>2, <1>5, Constants DEF RunParts, Trajectory
<1>7. RunType'
  BY <1>1, <1>2, <1>6 DEF RunParts, RunType, Points
<1>8. Records'
  BY <1>2, <1>4, <1>5 DEF Records, IsPublished
<1>9. Trajectory' /\ Closing'
  BY <1>1, <1>2, <1>4, <1>6, LoadReached DEF RunParts, Trajectory, Closing
<1> QED BY <1>2, <1>3, <1>7, <1>8, <1>9, Rests

LEMMA TrimKeeps ==
    ASSUME StateFilesConstants, CheckpointConstants, RunConstants, RunInv, Trim
    PROVE  RunInv'
<1>1. RunParts
  BY Parts
<1>2. pc = "trim" /\ UNCHANGED <<storeVars, exported, build>>
  BY DEF Trim
<1>3. UNCHANGED <<diskVars, dirs>> /\ op' = NoOp /\ pub' = NoPublication
  BY <1>1, <1>2, StoreStill, IdleIs DEF PersistPoints
<1>4. CASE Len(rows) < n
  BY <1>2, <1>3, <1>4, DownKeeps DEF Trim
<1>5. CASE ~(Len(rows) < n)
  <2>1. /\ rows' = SubSeq(rows, 1, n) /\ mem' = [mem EXCEPT !.status = "running"] /\ pc' = "announce"
        /\ UNCHANGED <<n, net, observed>>
    BY <1>5 DEF Trim
  <2>2. /\ rows \in Seq(Builds) /\ n \in 0..Horizon /\ mem \in RunDocuments
        /\ observed \in BOOLEAN /\ exported \in BOOLEAN /\ build \in Builds \cup {0}
    BY <1>1 DEF RunParts, RunType
  <2>3. rows' \in Seq(Builds) /\ Len(rows') = n
    <3>1. Len(rows) \in Nat /\ n \in Nat /\ n <= Len(rows) /\ \A i \in 1..n: rows[i] \in Builds
      BY <1>5, <2>2, LenProperties, Constants
    <3> QED BY <2>1, <2>2, <3>1, SubSeqProperties
  <2>4. mem' \in RunDocuments /\ mem'.last = mem.last /\ mem'.status = "running"
    BY <2>1, <2>2, DocumentIs DEF Statuses
  <2>5. RunType'
    BY <1>2, <2>1, <2>2, <2>3, <2>4, Constants DEF RunType, Points, PersistPoints
  <2>6. Recorded' = Recorded /\ Ended' = Ended /\ Published' = Published
    BY <1>3, SameDisk
  <2>7. Records'
    BY <1>1, <1>2, <2>1, <2>4, <2>6 DEF RunParts, Records, IsPublished, Working
  <2>8. Trajectory'
    BY <1>1, <1>2, <2>1, <2>3, Constants DEF RunParts, Trajectory
  <2>9. Closing'
    BY <1>1, <1>2, <2>1, <2>4, <2>6 DEF RunParts, Closing
  <2> QED BY <1>3, <2>1, <2>5, <2>7, <2>8, <2>9, Rests
<1> QED BY <1>4, <1>5

LEMMA UpdateKeeps ==
    ASSUME StateFilesConstants, CheckpointConstants, RunConstants, RunInv, Update
    PROVE  RunInv'
<1>1. RunParts
  BY Parts
<1>2. /\ pc = "loop" /\ n < Horizon /\ n' = n + 1 /\ net' = [part \in DOMAIN net |-> net[part] + After(1)[part]]
      /\ observed' = TRUE /\ pc' = "append" /\ UNCHANGED <<storeVars, mem, rows, exported, build>>
  BY DEF Update
<1>3. UNCHANGED <<diskVars, dirs>> /\ op' = NoOp /\ pub' = NoPublication
  BY <1>1, <1>2, StoreStill, IdleIs DEF PersistPoints
<1>4. Recorded' = Recorded /\ Ended' = Ended /\ Published' = Published
  BY <1>3, SameDisk
<1>5. n \in Nat /\ n' \in 0..Horizon /\ n' > 0 /\ n = n' - 1
  BY <1>1, <1>2, Constants DEF RunParts, RunType
<1>6. Reached(net', n')
  BY <1>1, <1>2, <1>5, UpdateReached DEF RunParts, Trajectory, RunConstants
<1>7. RunType'
  BY <1>1, <1>2, <1>5 DEF RunParts, RunType, Points
<1>8. Records'
  <2>1. \A e \in Published: e.ckpt.step \in Nat /\ e.ckpt.step <= n
    BY <1>1, <1>2, Constants DEF RunParts, Records, DirsOK, Published, Entries
  <2>2. \A e \in Published: e.ckpt.step < n'
    BY <1>5, <2>1
  <2> QED BY <1>1, <1>2, <1>4, <2>2 DEF RunParts, Records, IsPublished, Working
<1>9. Trajectory' /\ Closing'
  BY <1>1, <1>2, <1>4, <1>5, <1>6, Constants DEF RunParts, Trajectory, Closing
<1> QED BY <1>2, <1>3, <1>7, <1>8, <1>9, Rests

LEMMA AppendKeeps ==
    ASSUME StateFilesConstants, CheckpointConstants, RunConstants, RunInv, AppendMetric
    PROVE  RunInv'
<1>1. RunParts
  BY Parts
<1>2. /\ pc = "append" /\ rows' = Append(rows, build) /\ pc' = (IF OnCadence(n) THEN "save" ELSE "loop")
      /\ UNCHANGED <<storeVars, mem, n, net, observed, exported, build>>
  BY DEF AppendMetric, Goes
<1>3. UNCHANGED <<diskVars, dirs>> /\ op' = NoOp /\ pub' = NoPublication
  BY <1>1, <1>2, StoreStill, IdleIs DEF PersistPoints
<1>4. Recorded' = Recorded /\ Ended' = Ended /\ Published' = Published
  BY <1>3, SameDisk
<1>5. pc' \in {"save", "loop"} /\ (pc' = "loop" => n # Horizon)
  BY <1>2 DEF OnCadence
<1>6. /\ rows \in Seq(Builds) /\ n \in 0..Horizon /\ n > 0 /\ n <= Horizon /\ n \in Nat /\ Len(rows) = n - 1
      /\ build \in Builds /\ build # 0
  BY <1>1, <1>2, Constants DEF RunParts, RunType, Trajectory
<1>7. rows' \in Seq(Builds) /\ Len(rows') = n
  BY <1>2, <1>6, AppendProperties, LenProperties
<1>8. RunType'
  BY <1>1, <1>2, <1>5, <1>6, <1>7 DEF RunParts, RunType, Points
<1>9. Records'
  <2>1. \A e \in Published: e.ckpt.step \in Nat /\ e.ckpt.step < n
    BY <1>1, <1>2, Constants DEF RunParts, Records, DirsOK, Published, Entries
  <2>2. \A e \in Published: e.ckpt.step <= n
    BY <1>6, <2>1
  <2> QED BY <1>1, <1>2, <1>4, <1>5, <2>1, <2>2 DEF RunParts, Records, IsPublished, Working
<1>10. Trajectory' /\ Closing'
  BY <1>1, <1>2, <1>4, <1>5, <1>6, <1>7 DEF RunParts, Trajectory, Closing
<1> QED BY <1>3, <1>5, <1>8, <1>9, <1>10, Rests

LEMMA SavedKeeps ==
    ASSUME StateFilesConstants, CheckpointConstants, RunConstants, RunInv, Saved
    PROVE  RunInv'
<1>1. RunParts
  BY Parts
<1>2. /\ pc = "saving" /\ op.at = "returned" /\ op' = NoOp /\ pc' = "commit"
      /\ mem' = [mem EXCEPT !.completed = n, !.last = op.ckpt]
      /\ UNCHANGED <<fileVars, dirs, n, net, observed, rows, exported, build>>
  BY DEF Saved
<1>3. UNCHANGED <<diskVars, dirs>> /\ pub' = pub /\ pub = NoPublication
  BY <1>1, <1>2 DEF fileVars, diskVars, RunParts, Publishing
<1>4. Recorded' = Recorded /\ Ended' = Ended /\ Published' = Published
  BY <1>3, SameDisk
<1>5. /\ op.ckpt \in Checkpoints /\ op.ckpt = [step |-> n, build |-> build] /\ op.ckpt.step = n
      /\ op.ckpt # Absent /\ IsPublished(op.ckpt)
      /\ \A e \in Published: e.ckpt.step <= n
  BY <1>1, <1>2, Constants DEF RunParts, Calling, OnDisk
<1>6. mem \in RunDocuments /\ n \in 0..Horizon
  BY <1>1 DEF RunParts, RunType
<1>7. mem' \in RunDocuments /\ mem'.last = op.ckpt /\ mem'.status = mem.status
  BY <1>2, <1>5, <1>6, BindingIs
<1>8. RunType'
  BY <1>1, <1>2, <1>7 DEF RunParts, RunType, Points, PersistPoints
<1>9. Records'
  BY <1>1, <1>2, <1>4, <1>5, <1>7 DEF RunParts, Records, IsPublished, Working
<1>10. Trajectory' /\ Closing'
  BY <1>1, <1>2, <1>4, <1>7, Constants DEF RunParts, Trajectory, Closing
<1> QED BY <1>2, <1>3, <1>8, <1>9, <1>10, Rests

LEMMA InterruptedKeeps ==
    ASSUME StateFilesConstants, CheckpointConstants, RunConstants, RunInv, Interrupted
    PROVE  RunInv'
<1>1. RunParts
  BY Parts
<1>2. /\ pc \in {"loop", "append", "save", "saving", "commit"} /\ op' = NoOp /\ pub' = NoPublication
      /\ pc' = "handle" /\ mem' = [mem EXCEPT !.status = "interrupted", !.completed = n]
      /\ UNCHANGED <<diskVars, dirs>> /\ UNCHANGED <<n, net, observed, rows, exported, build>>
  BY DEF Interrupted
<1>3. Recorded' = Recorded /\ Ended' = Ended /\ Published' = Published
  BY <1>2, SameDisk
<1>4. mem \in RunDocuments /\ n \in 0..Horizon
  BY <1>1 DEF RunParts, RunType
<1>5. mem' \in RunDocuments /\ mem'.last = mem.last /\ mem'.status = "interrupted"
  BY <1>2, <1>4, DocumentIs DEF Statuses
<1>6. RunType'
  BY <1>1, <1>2, <1>5 DEF RunParts, RunType, Points, PersistPoints
<1>7. Records'
  BY <1>1, <1>2, <1>3, <1>5 DEF RunParts, Records, IsPublished, Working
<1>8. Trajectory' /\ Closing'
  BY <1>1, <1>2, <1>3, <1>5, Constants DEF RunParts, Trajectory, Closing
<1> QED BY <1>2, <1>6, <1>7, <1>8, Rests

\* The export, from the loop's end to the validation.
LEMMA ExportKeeps ==
    ASSUME StateFilesConstants, CheckpointConstants, RunConstants, RunInv,
           BeginExport \/ WriteExport \/ ValidateExport
    PROVE  RunInv'
<1>1. RunParts
  BY Parts
<1>2. /\ pc \in {"loop", "finalize", "validate"} /\ UNCHANGED <<storeVars, rows, build>>
      /\ exported' \in BOOLEAN
  BY <1>1 DEF BeginExport, WriteExport, ValidateExport, Goes, RunParts, RunType
<1>3. UNCHANGED <<diskVars, dirs>> /\ op' = NoOp /\ pub' = NoPublication
  BY <1>1, <1>2, StoreStill, IdleIs DEF PersistPoints
<1>4. Recorded' = Recorded /\ Ended' = Ended /\ Published' = Published
  BY <1>3, SameDisk
<1>5. mem \in RunDocuments /\ n \in 0..Horizon /\ Horizon \in 0..Horizon
  BY <1>1, Constants DEF RunParts, RunType
<1>6. CASE pc' = "down"
  <2>1. Down /\ UNCHANGED exported
    BY <1>6 DEF BeginExport, WriteExport, ValidateExport, Goes
  <2> QED BY <1>2, <1>3, <2>1, DownKeeps
<1>7. CASE pc' # "down"
  <2>1. /\ UNCHANGED <<n, net, observed>> /\ mem' \in RunDocuments /\ mem'.last = mem.last
        /\ \/ pc = "loop" /\ pc' = "export" /\ n = Horizon /\ mem'.status = "exporting"
           \/ pc = "finalize" /\ pc' = "validate" /\ mem' = mem
           \/ pc = "validate" /\ pc' = "final" /\ observed
    <3>1. CASE BeginExport
      BY <1>5, <3>1, DocumentIs DEF BeginExport, Statuses
    <3>2. CASE WriteExport
      BY <1>5, <3>2 DEF WriteExport, Goes
    <3>3. CASE ValidateExport
      BY <1>5, <1>7, <3>3, DocumentIs DEF ValidateExport, Down, Statuses
    <3> QED BY <3>1, <3>2, <3>3
  <2>2. RunType'
    BY <1>1, <1>2, <2>1 DEF RunParts, RunType, Points, PersistPoints
  <2>3. Records'
    BY <1>1, <1>4, <2>1 DEF RunParts, Records, IsPublished, Working
  <2>4. Trajectory' /\ Closing'
    BY <1>1, <1>2, <1>4, <2>1, Constants DEF RunParts, Trajectory, Closing
  <2> QED BY <1>3, <2>1, <2>2, <2>3, <2>4, Rests
<1> QED BY <1>6, <1>7

LEMMA EndsKeeps ==
    ASSUME StateFilesConstants, CheckpointConstants, RunConstants, RunInv,
           LoadRaised \/ PersistRaised \/ Kill
    PROVE  RunInv'
<1>1. RunParts
  BY Parts
<1>2. /\ pc # "down" /\ UNCHANGED <<diskVars, dirs, rows, exported, build>> /\ op' = NoOp
      /\ pub' = NoPublication /\ Down
  BY <1>1 DEF LoadRaised, PersistRaised, Kill, PersistPoints, RunParts, Calling
<1> QED BY <1>2, DownKeeps
-----------------------------------------------------------------------------
\* write_run_state(run.json, mem): the document's name has no other publisher.
LEMMA DocumentMoves ==
    ASSUME StateFilesConstants, CheckpointConstants, RunConstants,
           RunInv, pc \in PersistPoints, UNCHANGED <<dirs, op, processVars, rows, exported, build>>,
           FilesTypeOK', PubFiles', RunFiles', Records', Closing',
           pub'.name = Run, pub'.doc = mem
    PROVE  RunInv'
<1>1. RunParts
  BY Parts
<1>2. UNCHANGED <<dirs, op, pc, mem, n, net, observed, rows, exported, build>>
  BY DEF processVars
<1>3. op' \in OpType /\ DirsOK' /\ OneName' /\ RunType'
  BY <1>1, <1>2 DEF RunParts, DirsOK, OneName, Published, RunType
<1>4. Publishing'
  BY <1>2 DEF Publishing, PersistPoints
<1>5. Calling'
  BY <1>1, <1>2 DEF RunParts, Calling, Published, IsPublished
<1>6. Trajectory'
  BY <1>1, <1>2, Constants DEF RunParts, Trajectory, PersistPoints
<1>7. RunParts'
  BY <1>3, <1>4, <1>5, <1>6 DEF RunParts
<1> QED BY <1>7, Parts, PTL

LEMMA PersistKeeps ==
    ASSUME StateFilesConstants, CheckpointConstants, RunConstants, RunInv, Persist
    PROVE  RunInv'
<1>1. RunParts
  BY Parts
<1>2. /\ pc \in PersistPoints /\ pub.at = "idle" /\ pub' = [at |-> "stage", name |-> Run, doc |-> mem]
      /\ UNCHANGED <<diskVars, dirs>> /\ UNCHANGED <<dirs, op, processVars, rows, exported, build>>
  BY DEF Persist, Publication
<1>3. UNCHANGED <<file, staged, previous, dirs, pc, mem, n, observed>>
  BY <1>2 DEF diskVars, processVars
<1>4. mem \in Documents /\ Run \in Names
  BY <1>1, Constants DEF RunParts, RunType
<1>5. pub' \in PublicationState /\ pub'.at = "stage" /\ pub'.name = Run /\ pub'.doc = mem
  BY <1>2, <1>4 DEF PublicationState, Point
<1>6. FilesTypeOK' /\ PubFiles' /\ RunFiles'
  BY <1>1, <1>3, <1>4, <1>5 DEF RunParts, FilesTypeOK, PubFiles, RunFiles
<1>7. Recorded' = Recorded /\ Ended' = Ended /\ Published' = Published
  BY <1>2, SameDisk
<1>8. Records' /\ Closing'
  BY <1>1, <1>2, <1>3, <1>7 DEF RunParts, Records, Closing, IsPublished, Working, PersistPoints
<1> QED BY <1>2, <1>5, <1>6, <1>8, DocumentMoves

LEMMA PersistingKeeps ==
    ASSUME StateFilesConstants, CheckpointConstants, RunConstants, RunInv, Persisting
    PROVE  /\ RunInv'
           /\ \/ Document' = Document
              \/ Document' = mem /\ ~Ended
<1>1. RunParts
  BY Parts
<1>2. /\ pc \in PersistPoints
      /\ PublishStep \/ PublicationFails
      /\ UNCHANGED <<dirs, op, processVars, rows, exported, build>>
      /\ UNCHANGED <<pc, mem, n, observed>>
  BY DEF Persisting, processVars
<1>3. pub.at \notin {"idle", "failed"}
  BY <1>2 DEF PublishStep, PublicationFails, WriteStaged, SetAside, PublishStaged, DropPrevious
<1>4. /\ pub.name = Run /\ pub.doc = mem /\ mem \in RunDocuments /\ mem # Absent
      /\ FilesTypeOK /\ PubFiles /\ file[Run] \in RunDocuments \cup {Absent} /\ previous[Run] \in Seq(RunDocuments)
  BY <1>1, <1>2, <1>3, Constants DEF RunParts, RunFiles, RunType, Publishing
<1>5. Run \in Names /\ RunDocuments \in SUBSET Documents
  BY Constants
<1>6. /\ FilesTypeOK' /\ PubFiles' /\ pub'.name = Run /\ pub'.doc = pub.doc
      /\ pub.at \in {"drop", "done"} => pub'.at \in {"done", "failed"}
      /\ file'[Run] \in RunDocuments \cup {Absent} /\ previous'[Run] \in Seq(RunDocuments)
      /\ \/ Generation(Run)' = Generation(Run)
         \/ /\ pub.at \in {"fresh", "swap"} /\ pub'.at \in {"drop", "done"}
            /\ Generation(Run)' = pub.doc
  BY <1>2, <1>4, <1>5, FileMoves
<1>7. RunFiles' /\ Published' = Published
  BY <1>2, <1>6 DEF RunFiles, Published
<1>8. CASE Generation(Run)' = Generation(Run)
  <2>1. Document' = Document /\ Recorded' = Recorded /\ Ended' = Ended
    BY <1>8, SameDocument
  <2>2. Records'
    BY <1>1, <1>2, <1>7, <2>1 DEF RunParts, Records, IsPublished, Working, PersistPoints
  <2>3. Closing'
    BY <1>1, <1>2, <1>3, <1>6, <2>1 DEF RunParts, Closing, PersistPoints
  <2> QED BY <1>2, <1>4, <1>6, <1>7, <2>1, <2>2, <2>3, DocumentMoves
<1>9. CASE /\ pub.at \in {"fresh", "swap"} /\ pub'.at \in {"drop", "done"}
           /\ Generation(Run)' = pub.doc
  <2>1. Document' = mem /\ Recorded' = mem.last /\ Ended' = (mem.status = "exported")
    <3>1. Document' = mem
      BY <1>4, <1>9 DEF Document
    <3> QED BY <1>4, <3>1 DEF Recorded, Ended
  <2>2. ~Ended
    BY <1>1, <1>2, <1>9 DEF RunParts, Closing, PersistPoints
  <2>3. Records'
    BY <1>1, <1>2, <1>7, <2>1 DEF RunParts, Records, IsPublished, Working, PersistPoints
  <2>4. Closing'
    BY <1>1, <1>2, <1>9, <2>1 DEF RunParts, Closing, PersistPoints
  <2> QED BY <1>2, <1>4, <1>6, <1>7, <2>1, <2>2, <2>3, <2>4, DocumentMoves
<1> QED BY <1>6, <1>8, <1>9

LEMMA PersistedKeeps ==
    ASSUME StateFilesConstants, CheckpointConstants, RunConstants, RunInv, Persisted
    PROVE  RunInv'
<1>1. RunParts
  BY Parts
<1>2. /\ pc \in PersistPoints /\ pub.at = "done" /\ pub' = NoPublication
      /\ UNCHANGED <<diskVars, dirs, op, rows, exported, build>>
      /\ \/ pc \in {"announce", "commit"} /\ Goes("loop")
         \/ pc = "export" /\ Goes("finalize")
         \/ pc \in {"handle", "final"} /\ Down
  BY DEF Persisted
<1>3. UNCHANGED <<diskVars, dirs>> /\ op' = NoOp
  BY <1>1, <1>2 DEF RunParts, Calling, PersistPoints
<1>4. CASE Down
  BY <1>2, <1>3, <1>4, DownKeeps DEF PersistPoints
<1>5. CASE ~Down
  <2>1. /\ UNCHANGED <<mem, n, net, observed, rows, exported, build>>
        /\ \/ pc \in {"announce", "commit"} /\ pc' = "loop"
           \/ pc = "export" /\ pc' = "finalize"
    BY <1>2, <1>5 DEF Goes
  <2>2. Recorded' = Recorded /\ Ended' = Ended /\ Published' = Published
    BY <1>2, SameDisk
  <2>3. Recorded = mem.last
    <3>1. file[Run] = mem /\ mem # Absent
      BY <1>1, <1>2, Constants DEF RunParts, PubFiles, Publishing, RunType
    <3> QED BY <3>1 DEF Recorded, Document, Generation
  <2>4. RunType'
    BY <1>1, <2>1 DEF RunParts, RunType, Points
  <2>5. Records'
    BY <1>1, <2>1, <2>2, <2>3 DEF RunParts, Records, IsPublished, Working
  <2>6. Trajectory' /\ Closing'
    BY <1>1, <1>2, <2>1, <2>2, Constants DEF RunParts, Records, Trajectory, Closing
  <2> QED BY <1>2, <1>3, <2>1, <2>4, <2>5, <2>6, Rests
<1> QED BY <1>4, <1>5
-----------------------------------------------------------------------------
\* A step of a call.  It may publish its own checkpoint, and keeps the recorded.
LEMMA CallMoves ==
    ASSUME StateFilesConstants, CheckpointConstants, RunConstants, RunInv,
           pc \in {"load", "saving"}, UNCHANGED <<processVars, rows, exported, build>>,
           FilesTypeOK', PubFiles', file'[Run] = file[Run], previous'[Run] = previous[Run],
           op' \in OpType, DirsOK', OneName', op'.ckpt = op.ckpt,
           op'.at \in OnDisk \cup {"raised"}, op'.at \in OnDisk => pc = "saving" \/ op.at \in OnDisk,
           op'.at \notin {"pointing", "raised"} => pub' = NoPublication,
           pub'.at # "idle" => pub'.name = Latest,
           op'.at \in OnDisk =>
               /\ op.ckpt \in Checkpoints
               /\ \E e \in Published': e.ckpt = op.ckpt
               /\ \A e \in Published': e.ckpt.step <= op.ckpt.step,
           \A e \in Published': (\E f \in Published: f.ckpt = e.ckpt) \/ (pc = "saving" /\ e.ckpt = op.ckpt),
           Recorded # Absent => \E e \in Published': e.ckpt = Recorded
    PROVE  RunInv'
<1>1. RunParts
  BY Parts
<1>2. UNCHANGED <<pc, mem, n, net, observed, rows, exported, build>>
  BY DEF processVars
<1>3. Document' = Document /\ Recorded' = Recorded /\ Ended' = Ended
  BY SameDocument DEF Generation
<1>4. RunFiles' /\ RunType'
  BY <1>1, <1>2 DEF RunParts, RunFiles, RunType
<1>5. Publishing'
  BY <1>1, <1>2 DEF RunParts, Publishing, PersistPoints
<1>6. Calling'
  <2>1. op'.at # "staged"
    BY DEF OnDisk
  <2> QED BY <1>1, <1>2, <2>1 DEF RunParts, Calling, IsPublished
<1>7. Records'
  <2>1. Recorded = mem.last
    BY <1>1 DEF RunParts, Records
  <2>2. pc = "saving" /\ Recorded # Absent =>
           /\ Recorded.step < n
           /\ \A e \in Published': e.ckpt.step <= Recorded.step \/ e.ckpt = op.ckpt
    <3>1. pc = "saving" /\ Recorded # Absent =>
             /\ Recorded.step < n
             /\ \A e \in Published: e.ckpt.step <= Recorded.step \/ e.ckpt = op.ckpt
      BY <1>1 DEF RunParts, Records
    <3> QED BY <3>1
  <2>3. pc = "load" /\ op'.at \in OnDisk /\ Recorded # Absent => op.ckpt = Recorded
    BY <1>1 DEF RunParts, Records
  <2> QED BY <1>2, <1>3, <2>1, <2>2, <2>3 DEF Records, IsPublished, Working
<1>8. Trajectory' /\ Closing'
  <2>1. build \in Builds /\ build # 0
    BY <1>1, Constants DEF RunParts, Trajectory
  <2>2. ~Ended
    BY <1>1 DEF RunParts, Closing
  <2> QED BY <1>1, <1>2, <1>3, <2>1, <2>2 DEF RunParts, Trajectory, Closing
<1>9. RunParts'
  BY <1>4, <1>5, <1>6, <1>7, <1>8 DEF RunParts
<1> QED BY <1>9, Parts, PTL

\* One that leaves the published checkpoints where they are.
LEMMA CallStays ==
    ASSUME StateFilesConstants, CheckpointConstants, RunConstants, RunInv,
           pc \in {"load", "saving"}, UNCHANGED <<processVars, rows, exported, build>>,
           FilesTypeOK', PubFiles', file'[Run] = file[Run], previous'[Run] = previous[Run],
           op' \in OpType, DirsOK', Published' = Published, op'.ckpt = op.ckpt,
           (op.at \in OnDisk /\ op'.at \in OnDisk) \/ op'.at = "raised",
           op'.at \notin {"pointing", "raised"} => pub' = NoPublication,
           pub'.at # "idle" => pub'.name = Latest
    PROVE  RunInv'
<1>1. RunParts
  BY Parts
<1>2. OneName'
  BY <1>1 DEF RunParts, OneName
<1>3. Recorded # Absent => \E e \in Published': e.ckpt = Recorded
  BY <1>1 DEF RunParts, Records, IsPublished
<1>4. op'.at \in OnDisk =>
               /\ op.ckpt \in Checkpoints
               /\ \E e \in Published': e.ckpt = op.ckpt
               /\ \A e \in Published': e.ckpt.step <= op.ckpt.step
  BY <1>1 DEF RunParts, Calling, OnDisk, IsPublished
<1>5. "raised" \notin OnDisk
  BY DEF OnDisk
<1> QED BY <1>2, <1>3, <1>4, <1>5, CallMoves

LEMMA AtIs ==
    ASSUME op \in OpType, NEW where \in OpPoints, At(where)
    PROVE  op' \in OpType /\ op'.at = where /\ op'.ckpt = op.ckpt /\ op'.spare = op.spare
BY DEF At, OpType

LEMMA RenamedIs ==
    ASSUME DirsOK, NEW e \in dirs, NEW kind \in Kinds, Renamed(e, kind)
    PROVE  /\ DirsOK'
           /\ \E g \in Entries: g.kind = kind /\ g.ckpt = e.ckpt /\ dirs' = (dirs \ {e}) \cup {g}
<1> DEFINE g == [e EXCEPT !.kind = kind]
<1>1. g \in Entries /\ g.kind = kind /\ g.ckpt = e.ckpt /\ g.whole = e.whole
  BY DEF DirsOK, Entries
<1>2. dirs' = (dirs \ {e}) \cup {g}
  BY DEF Renamed
<1>3. IsFiniteSet((dirs \ {e}) \cup {g})
  BY FS_RemoveElement, FS_AddElement DEF DirsOK
<1> HIDE DEF g
<1> QED BY <1>1, <1>2, <1>3 DEF DirsOK

LEMMA PublishedOK ==
    ASSUME CheckpointConstants, DirsOK
    PROVE  /\ Published \in SUBSET Entries /\ IsFiniteSet(Published)
           /\ \A e \in Published: e \in dirs /\ e.kind = "step" /\ e.ckpt \in Checkpoints
           /\ \A e \in Published: e.ckpt.step \in Nat
<1>1. Published \in SUBSET dirs
  BY DEF Published
<1> QED BY <1>1, FS_Subset DEF DirsOK, Published, Entries, Checkpoints, Steps

LEMMA PointerKeeps ==
    ASSUME StateFilesConstants, CheckpointConstants, RunConstants, RunInv,
           pc \in {"load", "saving"}, UNCHANGED <<processVars, rows, exported, build>>,
           WritePointer \/ PointerWritten
    PROVE  RunInv'
<1>1. RunParts
  BY Parts
<1>2. UNCHANGED <<file, staged, previous, dirs>> /\ op.at \in {"pointer", "pointing"} /\ op \in OpType
  BY <1>1 DEF WritePointer, PointerWritten, RunParts
<1>3. Published' = Published /\ DirsOK'
  BY <1>1, <1>2 DEF Published, RunParts, DirsOK
<1>4. CASE WritePointer
  <2>1. op' \in OpType /\ op'.at = "pointing" /\ op'.ckpt = op.ckpt
    BY <1>2, <1>4, AtIs DEF WritePointer, OpPoints
  <2>2. op.ckpt \in Documents /\ Latest \in Names
    BY <1>1, <1>2, Constants DEF RunParts, Calling, OnDisk
  <2>3. pub' = [at |-> "stage", name |-> Latest, doc |-> op.ckpt]
    BY <1>4 DEF WritePointer, Publication
  <2>4. pub' \in PublicationState /\ pub'.at = "stage" /\ pub'.name = Latest /\ pub'.doc = op.ckpt
    BY <2>2, <2>3 DEF PublicationState, Point
  <2>5. FilesTypeOK' /\ PubFiles'
    BY <1>1, <1>2, <2>2, <2>4 DEF RunParts, FilesTypeOK, PubFiles
  <2> QED BY <1>2, <1>3, <2>1, <2>4, <2>5, CallStays DEF OnDisk
<1>5. CASE PointerWritten
  <2>1. op' \in OpType /\ op'.at = "prune" /\ op'.ckpt = op.ckpt /\ pub' = NoPublication
    BY <1>2, <1>5, AtIs DEF PointerWritten, OpPoints
  <2>2. FilesTypeOK' /\ PubFiles'
    BY <1>1, <1>2, <2>1, RestingIs DEF RunParts, FilesTypeOK, PubFiles
  <2> QED BY <1>2, <1>3, <2>1, <2>2, RestingIs, CallStays DEF OnDisk
<1> QED BY <1>4, <1>5

\* The pointer is published under its own name, which is not run.json's.
LEMMA PublishPointerKeeps ==
    ASSUME StateFilesConstants, CheckpointConstants, RunConstants, RunInv,
           pc \in {"load", "saving"}, UNCHANGED <<processVars, rows, exported, build>>,
           \/ PublishPointer
           \/ op.at = "pointing" /\ PublicationFails /\ At("raised") /\ UNCHANGED dirs
    PROVE  RunInv'
<1>1. RunParts
  BY Parts
<1>2. /\ op.at = "pointing" /\ UNCHANGED dirs /\ op \in OpType
      /\ PublishStep \/ PublicationFails
  BY <1>1 DEF PublishPointer, RunParts
<1>3. op' \in OpType /\ op'.at \in {"pointing", "raised"} /\ op'.ckpt = op.ckpt
  BY <1>2, AtIs DEF PublishPointer, OpPoints
<1>4. Published' = Published /\ DirsOK'
  BY <1>1, <1>2 DEF Published, RunParts, DirsOK
<1>5. pub.at # "idle"
  BY <1>2 DEF PublishStep, PublicationFails, WriteStaged, SetAside, PublishStaged, DropPrevious
<1>6. /\ pub.name = Latest /\ pub.doc \in Documents /\ FilesTypeOK /\ PubFiles
      /\ Latest \in Names /\ Run \in Names /\ Run # Latest
  BY <1>1, <1>5, Constants DEF RunParts, Publishing, PubFiles
<1>7. file[Latest] \in Documents \cup {Absent} /\ previous[Latest] \in Seq(Documents)
  BY <1>6 DEF FilesTypeOK
<1>8. /\ FilesTypeOK' /\ PubFiles' /\ pub'.name = Latest
      /\ \A k \in Names \ {Latest}: file'[k] = file[k] /\ previous'[k] = previous[k]
  BY <1>2, <1>6, <1>7, FileMoves
<1>9. file'[Run] = file[Run] /\ previous'[Run] = previous[Run]
  BY <1>6, <1>8
<1> QED BY <1>2, <1>3, <1>4, <1>8, <1>9, CallStays DEF OnDisk

\* Pruning that moves nothing, and exceptions.
LEMMA StandsKeeps ==
    ASSUME StateFilesConstants, CheckpointConstants, RunConstants, RunInv,
           pc \in {"load", "saving"}, UNCHANGED <<processVars, rows, exported, build>>,
           \/ PruneRefused \/ PruneRemove \/ Pruned
           \/ op.at # "pointing" /\ UNCHANGED fileVars /\ At("raised") /\ UNCHANGED dirs
    PROVE  RunInv'
<1>1. RunParts
  BY Parts
<1>2. UNCHANGED <<file, staged, previous, pub>> /\ op.at # "pointing" /\ op \in OpType
  BY <1>1 DEF PruneRefused, PruneRemove, Pruned, fileVars, RunParts
<1>3. op' \in OpType /\ op'.ckpt = op.ckpt
      /\ (op'.at = "raised" \/ (op.at \in OnDisk /\ op'.at \in {"prune", "returned"}))
  BY <1>2, AtIs DEF PruneRefused, PruneRemove, Pruned, OpPoints, OnDisk
<1>4. dirs' \in SUBSET dirs /\ Published' = Published
  BY DEF PruneRefused, PruneRemove, Pruned, Published
<1>5. DirsOK'
  BY <1>1, <1>4, FS_Subset DEF RunParts, DirsOK
<1>6. FilesTypeOK' /\ PubFiles'
  BY <1>1, <1>2 DEF RunParts, FilesTypeOK, PubFiles
<1>7. /\ op'.at \notin {"pointing", "raised"} => pub' = NoPublication
      /\ pub'.at # "idle" => pub'.name = Latest
  BY <1>1, <1>2, <1>3 DEF RunParts, Publishing, OnDisk
<1>8. (op.at \in OnDisk /\ op'.at \in OnDisk) \/ op'.at = "raised"
  BY <1>3 DEF OnDisk
<1> QED BY <1>2, <1>3, <1>4, <1>5, <1>6, <1>7, <1>8, CallStays
-----------------------------------------------------------------------------
\* A set of directories has one of the lowest step and one of the highest.
LEMMA LeastNumber ==
    ASSUME NEW T \in SUBSET Nat, T # {}
    PROVE  \E x \in T: \A y \in T: x <= y
<1> DEFINE R == {ss \in Nat \X Nat: ss[1] < ss[2]}
<1>1. IsWellFoundedOn(R, Nat)
  BY NatLessThanWellFounded DEF OpToRel
<1>2. PICK x \in T: \A y \in T: ~ (<<y, x>> \in R)
  BY <1>1, WFMin
<1>3. ASSUME NEW y \in T, y < x PROVE FALSE
  <2>1. y \in Nat /\ x \in Nat /\ <<y, x>> \in Nat \X Nat
    OBVIOUS
  <2>2. <<y, x>>[1] = y /\ <<y, x>>[2] = x
    OBVIOUS
  <2>3. <<y, x>> \in R
    BY <1>3, <2>1, <2>2
  <2> QED BY <1>2, <2>3
<1> QED BY <1>3

LEMMA LeastStep ==
    ASSUME CheckpointConstants, NEW E \in SUBSET Entries, E # {}
    PROVE  \E e \in E: \A f \in E: e.ckpt.step <= f.ckpt.step
<1> DEFINE T == {e.ckpt.step: e \in E}
<1>1. T \in SUBSET Nat /\ T # {}
  BY DEF Entries, Checkpoints, Steps, CheckpointConstants
<1>2. PICK x \in T: \A y \in T: x <= y
  BY <1>1, LeastNumber
<1> QED BY <1>2

LEMMA GreatestStep ==
    ASSUME CheckpointConstants, NEW E \in SUBSET Entries, E # {}
    PROVE  \E e \in E: \A f \in E: f.ckpt.step <= e.ckpt.step
<1> DEFINE T == {Horizon - e.ckpt.step: e \in E}
<1>0. \A e \in E: e.ckpt.step \in 1..Horizon
  BY DEF Entries, Checkpoints, Steps
<1>1. T \in SUBSET Nat /\ T # {}
  BY <1>0 DEF CheckpointConstants
<1>2. PICK x \in T: \A y \in T: x <= y
  BY <1>1, LeastNumber
<1>3. PICK e \in E: x = Horizon - e.ckpt.step
  BY <1>2
<1>4. \A f \in E: Horizon - e.ckpt.step <= Horizon - f.ckpt.step
  BY <1>2, <1>3
<1> QED BY <1>0, <1>4 DEF CheckpointConstants

LEMMA NewestIs ==
    ASSUME CheckpointConstants, NEW E \in SUBSET Entries, E # {}
    PROVE  Newest(E) \in E /\ \A f \in E: f.ckpt.step <= Newest(E).ckpt.step
BY GreatestStep DEF Newest

LEMMA OldestIs ==
    ASSUME CheckpointConstants, NEW E \in SUBSET Entries, E # {}
    PROVE  Oldest(E) \in E /\ \A f \in E: Oldest(E).ckpt.step <= f.ckpt.step
BY LeastStep DEF Oldest

\* More than two directories are two besides any one.
LEMMA TwoOthers ==
    ASSUME CheckpointConstants, KeepLast > 1,
           NEW E, IsFiniteSet(E), Cardinality(E) > KeepLast, NEW o \in E
    PROVE  \E f, g \in E \ {o}: f # g
<1>1. Cardinality(E) \in Nat /\ KeepLast \in Nat
  BY FS_CardinalityType DEF CheckpointConstants
<1>2. IsFiniteSet(E \ {o}) /\ Cardinality(E \ {o}) = Cardinality(E) - 1
  BY FS_RemoveElement
<1>3. Cardinality(E \ {o}) > 1
  BY <1>1, <1>2
<1>4. PICK f \in E \ {o}: TRUE
  <2>1. E \ {o} # {}
    BY <1>3, FS_EmptySet
  <2> QED BY <2>1
<1>5. Cardinality({f}) = 1
  BY FS_Singleton
<1>6. E \ {o} # {f}
  BY <1>3, <1>5
<1> QED BY <1>4, <1>6
-----------------------------------------------------------------------------
\* The hidden directory gets its name.
LEMMA SavePublishKeeps ==
    ASSUME StateFilesConstants, CheckpointConstants, RunConstants, RunInv,
           pc \in {"load", "saving"}, UNCHANGED <<processVars, rows, exported, build>>, SavePublish
    PROVE  RunInv'
<1>1. RunParts
  BY Parts
<1>2. op.at = "staged" /\ pc = "saving" /\ UNCHANGED <<file, staged, previous, pub>> /\ Renamed(Staged, "step")
  BY <1>1 DEF SavePublish, fileVars, RunParts, Calling, OnDisk
<1>3. op' \in OpType /\ op'.at = "pointer" /\ op'.ckpt = op.ckpt
  BY <1>1, AtIs DEF SavePublish, RunParts, OpPoints
<1>4. /\ op.ckpt = [step |-> n, build |-> build] /\ op.ckpt.step = n
      /\ \E e \in dirs: e.kind = "stage"
      /\ \A e \in dirs: e.kind = "stage" => e.ckpt = op.ckpt
      /\ \A e \in Published: e.ckpt.step < n
  BY <1>1, <1>2 DEF RunParts, Calling
<1>5. Staged \in dirs /\ Staged.kind = "stage" /\ Staged.ckpt = op.ckpt
  BY <1>4 DEF Staged
<1>6. /\ DirsOK' /\ op.ckpt \in Checkpoints
      /\ \E g \in Entries: g.kind = "step" /\ g.ckpt = op.ckpt /\ dirs' = (dirs \ {Staged}) \cup {g}
  BY <1>1, <1>2, <1>5, RenamedIs DEF Kinds, RunParts, DirsOK, Entries
<1>7. PICK g \in Entries: g.kind = "step" /\ g.ckpt = op.ckpt /\ dirs' = (dirs \ {Staged}) \cup {g}
  BY <1>6
<1>8. Published' = Published \cup {g}
  BY <1>5, <1>7 DEF Published
<1>9. n \in Nat /\ \A e \in Published: e.ckpt.step \in Nat
  BY <1>1, PublishedOK, Constants DEF RunParts, RunType
<1>10. OneName'
  BY <1>1, <1>4, <1>7, <1>8, <1>9 DEF RunParts, OneName
<1>11. \A e \in Published': e.ckpt.step <= op.ckpt.step
  BY <1>4, <1>7, <1>8, <1>9
<1>12. FilesTypeOK' /\ PubFiles' /\ pub' = NoPublication
  BY <1>1, <1>2 DEF RunParts, FilesTypeOK, PubFiles, Publishing
<1>13. /\ Recorded # Absent => \E e \in Published': e.ckpt = Recorded
       /\ \A e \in Published': (\E f \in Published: f.ckpt = e.ckpt) \/ (pc = "saving" /\ e.ckpt = op.ckpt)
       /\ \E e \in Published': e.ckpt = op.ckpt
  BY <1>1, <1>2, <1>7, <1>8 DEF RunParts, Records, IsPublished
<1> QED BY <1>2, <1>3, <1>6, <1>10, <1>11, <1>12, <1>13, RestingIs, CallMoves DEF OnDisk

\* Pruning takes neither the newest nor, before it, the recorded checkpoint.
LEMMA PruneMoveKeeps ==
    ASSUME StateFilesConstants, CheckpointConstants, RunConstants, KeepLast > 1, RunInv,
           pc \in {"load", "saving"}, UNCHANGED <<processVars, rows, exported, build>>, PruneMove
    PROVE  RunInv'
<1> DEFINE o == Oldest(Published)
<1>1. RunParts
  BY Parts
<1>2. /\ op.at = "prune" /\ UNCHANGED <<file, staged, previous, pub>> /\ Renamed(o, "pruned")
      /\ Cardinality(Published) > KeepLast
  BY DEF PruneMove, fileVars
<1>3. op' \in OpType /\ op'.at = "pruning" /\ op'.ckpt = op.ckpt
  BY <1>1, AtIs DEF PruneMove, RunParts, OpPoints
<1>4. /\ Published \in SUBSET Entries /\ IsFiniteSet(Published)
      /\ \A e \in Published: e \in dirs /\ e.kind = "step" /\ e.ckpt \in Checkpoints /\ e.ckpt.step \in Nat
  BY <1>1, PublishedOK DEF RunParts
<1>5. Published # {}
  <2>1. Cardinality(Published) # 0
    BY <1>2 DEF CheckpointConstants
  <2> QED BY <2>1, FS_EmptySet
<1>6. o \in Published /\ \A f \in Published: o.ckpt.step <= f.ckpt.step
  BY <1>4, <1>5, OldestIs
<1> HIDE DEF o
<1>7. PICK f \in Published \ {o}, g \in Published \ {o}: f # g
  BY <1>2, <1>4, <1>6, TwoOthers
<1>8. \A e \in Published \ {o}: e.ckpt.step > o.ckpt.step
  BY <1>1, <1>4, <1>6 DEF RunParts, OneName
<1>9. /\ op.ckpt \in Checkpoints /\ op.ckpt.step \in Nat /\ IsPublished(op.ckpt)
      /\ \A e \in Published: e.ckpt.step <= op.ckpt.step
  BY <1>1, <1>2, Constants DEF RunParts, Calling, OnDisk
<1>10. o.ckpt # op.ckpt
  BY <1>4, <1>6, <1>7, <1>8, <1>9
<1>11. o.ckpt # Recorded
  <2>1. CASE pc = "load" /\ Recorded # Absent
    BY <1>1, <1>2, <1>10, <2>1 DEF RunParts, Records, OnDisk
  <2>2. CASE pc = "saving" /\ Recorded # Absent
    <3> SUFFICES ASSUME o.ckpt = Recorded PROVE FALSE
      OBVIOUS
    <3>1. \A e \in Published: e.ckpt.step <= o.ckpt.step \/ e.ckpt = op.ckpt
      BY <1>1, <2>2 DEF RunParts, Records
    <3>2. f.ckpt = op.ckpt /\ g.ckpt = op.ckpt
      BY <1>4, <1>6, <1>7, <1>8, <3>1
    <3> QED BY <1>1, <1>7, <3>2 DEF RunParts, OneName
  <2>3. CASE Recorded = Absent
    BY <1>4, <1>6, <2>3, Constants
  <2> QED BY <2>1, <2>2, <2>3
<1>12. /\ DirsOK'
       /\ \E h \in Entries: h.kind = "pruned" /\ dirs' = (dirs \ {o}) \cup {h}
  BY <1>1, <1>2, <1>4, <1>6, RenamedIs DEF Kinds, RunParts
<1>13. Published' = Published \ {o}
  BY <1>4, <1>6, <1>12 DEF Published
<1>14. OneName'
  BY <1>1, <1>13 DEF RunParts, OneName
<1>15. FilesTypeOK' /\ PubFiles' /\ pub' = NoPublication
  BY <1>1, <1>2 DEF RunParts, FilesTypeOK, PubFiles, Publishing
<1>16. /\ Recorded # Absent => \E e \in Published': e.ckpt = Recorded
       /\ \A e \in Published': \E d \in Published: d.ckpt = e.ckpt
       /\ \E e \in Published': e.ckpt = op.ckpt
       /\ \A e \in Published': e.ckpt.step <= op.ckpt.step
  BY <1>1, <1>9, <1>10, <1>11, <1>13 DEF RunParts, Records, IsPublished
<1> QED BY <1>2, <1>3, <1>9, <1>12, <1>14, <1>15, <1>16, RestingIs, CallMoves DEF OnDisk

LEMMA InStoreKeeps ==
    ASSUME StateFilesConstants, CheckpointConstants, RunConstants, KeepLast > 1, RunInv, InStore
    PROVE  RunInv' /\ Document' = Document
<1>1. RunParts
  BY Parts
<1>2. /\ pc \in {"load", "saving"} /\ UNCHANGED <<processVars, rows, exported, build>>
      /\ StoreStep \/ StoreFails
  BY DEF InStore
<1>3. op.at \notin {"discarded", "replaced", "recover"}
  BY <1>1, <1>2 DEF RunParts, Calling, OnDisk
<1>4. ~SaveDiscard /\ ~SaveReplace
  <2> SUFFICES ASSUME op.at = "staged", NEW e \in Target PROVE FALSE
    BY DEF SaveDiscard, SaveReplace
  <2>1. e \in Published /\ e.ckpt.step = op.ckpt.step /\ e.ckpt.step \in Nat
    BY <1>1, PublishedOK DEF Target, RunParts
  <2>2. e.ckpt.step < op.ckpt.step
    BY <1>1, <2>1 DEF RunParts, Calling
  <2> QED BY <2>1, <2>2
<1>5. ~SaveRemove /\ ~LoadRecover
  BY <1>3 DEF SaveRemove, LoadRecover
<1>6. \/ SavePublish \/ PruneMove \/ WritePointer \/ PointerWritten \/ PublishPointer
      \/ PruneRefused \/ PruneRemove \/ Pruned \/ StoreFails
  BY <1>2, <1>4, <1>5 DEF StoreStep
<1>7. StoreFails => /\ At("raised") /\ UNCHANGED dirs
                    /\ \/ op.at # "pointing" /\ UNCHANGED fileVars
                       \/ op.at = "pointing" /\ PublicationFails
  BY DEF StoreFails, fileVars
<1>8. RunInv'
  BY <1>2, <1>6, <1>7, SavePublishKeeps, PruneMoveKeeps, PointerKeeps, PublishPointerKeeps, StandsKeeps
<1>9. Document' = Document
  <2>1. CASE UNCHANGED <<file, previous>>
    BY <2>1 DEF Document, Generation
  <2>2. CASE op.at = "pointing" /\ (PublishStep \/ PublicationFails)
    <3>1. pub.at # "idle"
      BY <2>2 DEF PublishStep, PublicationFails, WriteStaged, SetAside, PublishStaged, DropPrevious
    <3>2. /\ pub.name = Latest /\ pub.doc \in Documents /\ FilesTypeOK /\ PubFiles
          /\ Latest \in Names /\ Run \in Names /\ Run # Latest
      BY <1>1, <1>2, <3>1, Constants DEF RunParts, Publishing, PubFiles
    <3>3. file[Latest] \in Documents \cup {Absent} /\ previous[Latest] \in Seq(Documents)
      BY <3>2 DEF FilesTypeOK
    <3>4. \A k \in Names \ {Latest}: file'[k] = file[k] /\ previous'[k] = previous[k]
      BY <2>2, <3>2, <3>3, FileMoves
    <3> QED BY <3>2, <3>4 DEF Document, Generation
  <2> QED BY <1>6, <1>7, <2>1, <2>2
          DEF SavePublish, PruneMove, WritePointer, PointerWritten, PublishPointer,
              PruneRefused, PruneRemove, Pruned, fileVars
<1> QED BY <1>8, <1>9
-----------------------------------------------------------------------------
\* A call begins; what is published was published before.
LEMMA CallStarts ==
    ASSUME StateFilesConstants, CheckpointConstants, RunConstants, RunInv,
           UNCHANGED fileVars, pub = NoPublication, Published' = Published, DirsOK', op' \in OpType,
           pc' \in {"load", "saving"}, RunType', Calling', Records', Trajectory', Closing'
    PROVE  RunInv'
<1>1. RunParts
  BY Parts
<1>2. UNCHANGED <<file, staged, previous, pub>>
  BY DEF fileVars
<1>3. FilesTypeOK' /\ PubFiles' /\ RunFiles' /\ OneName'
  BY <1>1, <1>2 DEF RunParts, FilesTypeOK, PubFiles, RunFiles, OneName
<1>4. Publishing'
  BY <1>2, RestingIs DEF Publishing, PersistPoints
<1>5. RunParts'
  BY <1>3, <1>4 DEF RunParts
<1> QED BY <1>5, Parts, PTL

LEMMA SaveCheckpointKeeps ==
    ASSUME StateFilesConstants, CheckpointConstants, RunConstants, RunInv, SaveCheckpoint
    PROVE  RunInv' /\ Document' = Document
<1> DEFINE c == [step |-> n, build |-> build]
<1>1. RunParts
  BY Parts
<1>2. /\ pc = "save" /\ pc' = "saving" /\ UNCHANGED <<mem, n, net, observed, rows, exported, build>>
      /\ Save(c) \/ SaveRefused(c)
  BY DEF SaveCheckpoint, Goes
<1>3. UNCHANGED fileVars /\ pub = NoPublication /\ op = NoOp /\ op \in OpType
  BY <1>1, <1>2, IdleIs DEF Save, SaveRefused, PersistPoints, RunParts
<1>4. UNCHANGED <<file, staged, previous, pub>>
  BY <1>3 DEF fileVars
<1>5. Document' = Document /\ Recorded' = Recorded /\ Ended' = Ended
  BY <1>4, SameDocument DEF Generation
<1>6. /\ n \in 1..Horizon /\ build \in Builds /\ build # 0 /\ n > 0 /\ c \in Checkpoints /\ c.step = n
      /\ Reached(net, n) /\ Len(rows) = n
  BY <1>1, <1>2, Constants DEF RunParts, RunType, Trajectory, Checkpoints, Steps
<1>7. \A e \in Published: e.ckpt.step < n
  BY <1>1, <1>2 DEF RunParts, Records
<1> HIDE DEF c
<1>8. op' \in OpType /\ op'.ckpt = c /\ op'.at \in {"staged", "raised"}
  BY <1>2, <1>3, <1>6 DEF Save, SaveRefused, OpType, OpPoints
<1>9. /\ DirsOK' /\ Published' = Published
      /\ op'.at = "staged" => /\ \E e \in dirs': e.kind = "stage"
                              /\ \A e \in dirs': e.kind = "stage" => e.ckpt = c
  <2>1. CASE SaveRefused(c)
    <3>1. dirs' = dirs /\ op'.at = "raised"
      BY <1>3, <2>1 DEF SaveRefused, OpType
    <3> QED BY <1>1, <3>1 DEF RunParts, DirsOK, Published
  <2>2. CASE Save(c)
    <3> DEFINE s == [kind |-> "stage", ckpt |-> c, whole |-> TRUE]
    <3>1. s \in Entries /\ s.kind = "stage" /\ s.ckpt = c /\ s.whole
      BY <1>6 DEF Entries, Kinds
    <3>2. dirs = Published /\ dirs' = dirs \cup {s}
      BY <2>2 DEF Save, SaveAccepts, Debris
    <3> HIDE DEF s
    <3>3. DirsOK'
      BY <1>1, <3>1, <3>2, FS_AddElement DEF RunParts, DirsOK
    <3> QED BY <3>1, <3>2, <3>3 DEF Published
  <2> QED BY <1>2, <2>1, <2>2
<1>10. RunType'
  BY <1>1, <1>2 DEF RunParts, RunType, Points
<1>11. Calling'
  <2>1. op'.ckpt = [step |-> n, build |-> build]
    BY <1>8 DEF c
  <2>2. op'.ckpt.step = n
    BY <1>6, <1>8
  <2> QED BY <1>2, <1>7, <1>8, <1>9, <2>1, <2>2 DEF Calling, OnDisk
<1>12. Records'
  <2>1. /\ Recorded = mem.last /\ (mem.last # Absent => IsPublished(mem.last))
        /\ Recorded # Absent => \A e \in Published: e.ckpt.step <= Recorded.step
    BY <1>1, <1>2 DEF RunParts, Records, Working
  <2>2. Recorded # Absent => Recorded.step < n
    BY <1>7, <2>1 DEF IsPublished
  <2> QED BY <1>2, <1>5, <1>9, <2>1, <2>2 DEF Records, IsPublished, Working
<1>13. Trajectory' /\ Closing'
  BY <1>1, <1>2, <1>5, <1>6 DEF RunParts, Trajectory, Closing
<1> QED BY <1>2, <1>3, <1>5, <1>8, <1>9, <1>10, <1>11, <1>12, <1>13, CallStarts

LEMMA StartResumeKeeps ==
    ASSUME StateFilesConstants, CheckpointConstants, RunConstants, RunInv, StartResume
    PROVE  RunInv' /\ Document' = Document
<1> DEFINE r == file[Run].last
           x == Newest(Published)
<1>1. RunParts
  BY Parts
<1>2. /\ pc = "down" /\ build + 1 \in Builds /\ build' = build + 1 /\ mem' = file[Run] /\ pc' = "load"
      /\ file[Run] # Absent /\ file[Run].status \in {"running", "interrupted"}
      /\ Load(r, 0) /\ LoadAccepts(r, 0) /\ UNCHANGED <<n, net, observed, rows, exported>>
  BY DEF StartResume, Resumable
<1>3. UNCHANGED fileVars /\ pub = NoPublication /\ UNCHANGED dirs
  BY <1>1, <1>2, IdleIs DEF Load, PersistPoints
<1>4. UNCHANGED <<file, staged, previous, pub>> /\ Published' = Published /\ DirsOK'
  BY <1>1, <1>3 DEF fileVars, Published, RunParts, DirsOK
<1>5. Document' = Document /\ Recorded' = Recorded /\ Ended' = Ended
  BY <1>4, SameDocument DEF Generation
<1>6. Document = file[Run] /\ Recorded = r /\ ~Ended
  BY <1>2 DEF Document, Recorded, Ended, Generation
<1>7. file[Run] \in RunDocuments /\ r \in Checkpoints \cup {Absent}
  BY <1>1, <1>2 DEF RunParts, RunFiles, RunDocuments
<1>8. /\ Published \in SUBSET Entries
      /\ \A e \in Published: e.ckpt \in Checkpoints /\ e.ckpt.step \in Nat /\ e.ckpt.step # 0
  BY <1>1, PublishedOK, Constants DEF RunParts
<1>9. Spare(r, 0) = {} /\ Candidates(r, 0) = Published
  BY <1>8 DEF Spare, Candidates
<1>10. /\ Published # {} /\ \A e \in Published: Fits(e, r, 0)
       /\ r # Absent => r.step \in StepsOf(Published)
  BY <1>2, <1>9 DEF LoadAccepts, StepsOf
<1>11. x \in Published /\ \A e \in Published: e.ckpt.step <= x.ckpt.step
  BY <1>8, <1>10, NewestIs
<1>12. op' = [at |-> "pointer", spare |-> Absent, ckpt |-> x.ckpt]
  BY <1>2, <1>9 DEF Load
<1> HIDE DEF x, r
<1>13. r # Absent => x.ckpt = r
  <2> SUFFICES ASSUME r # Absent PROVE x.ckpt = r
    OBVIOUS
  <2>1. PICK e \in Published: e.ckpt.step = r.step
    BY <1>10 DEF StepsOf
  <2>2. r.step \in Nat
    BY <1>7, Constants
  <2>3. x.ckpt.step <= r.step \/ x.ckpt.step = 0
    BY <1>10, <1>11 DEF Fits
  <2>4. x.ckpt.step = r.step
    BY <1>8, <1>11, <2>1, <2>2, <2>3
  <2> QED BY <1>10, <1>11, <2>4 DEF Fits
<1>14. op' \in OpType /\ op'.at = "pointer" /\ op'.ckpt = x.ckpt
  BY <1>8, <1>11, <1>12 DEF OpType, OpPoints
<1>15. build' \in Builds /\ build' # 0
  BY <1>2, Constants
<1>16. RunType'
  BY <1>1, <1>2, <1>7, <1>15 DEF RunParts, RunType, Points
<1>17. Calling'
  BY <1>2, <1>4, <1>8, <1>11, <1>14 DEF Calling, OnDisk, IsPublished
<1>18. Records'
  <2>1. r # Absent => IsPublished(r)
    BY <1>1, <1>6 DEF RunParts, Records
  <2>2. mem'.last = r
    BY <1>2 DEF r
  <2> QED BY <1>2, <1>4, <1>5, <1>6, <1>13, <1>14, <2>1, <2>2 DEF Records, IsPublished, Working
<1>19. Trajectory' /\ Closing'
  BY <1>1, <1>2, <1>5, <1>6, <1>15 DEF RunParts, Trajectory, Closing
<1> QED BY <1>2, <1>3, <1>4, <1>5, <1>14, <1>16, <1>17, <1>18, <1>19, CallStarts
-----------------------------------------------------------------------------
\* The record changes only by a publication of run.json.
LEMMA RunKept ==
    ASSUME StateFilesConstants, CheckpointConstants, RunConstants, KeepLast > 1, RunInv, [Next]_vars
    PROVE  /\ RunInv'
           /\ \/ Document' = Document
              \/ Document' = mem /\ ~Ended /\ pc \in PersistPoints
<1>1. CASE UNCHANGED vars
  <2>1. UNCHANGED <<file, staged, previous, pub, dirs, op, pc, mem, n, net, observed, rows, exported, build>>
    BY <1>1 DEF vars, storeVars, fileVars, processVars
  <2>2. Generation(Run)' = Generation(Run) /\ Published' = Published
    BY <2>1 DEF Generation, Published
  <2>3. Document' = Document /\ Recorded' = Recorded /\ Ended' = Ended
    BY <2>2, SameDocument
  <2>4. RunParts
    BY Parts
  <2>5. /\ FilesTypeOK' /\ PubFiles' /\ RunFiles' /\ op' \in OpType /\ DirsOK' /\ OneName' /\ RunType'
    BY <2>1, <2>2, <2>4 DEF RunParts, FilesTypeOK, PubFiles, RunFiles, DirsOK, OneName, RunType
  <2>6. Publishing' /\ Calling' /\ Records' /\ Trajectory' /\ Closing'
    BY <2>1, <2>2, <2>3, <2>4 DEF RunParts, Publishing, Calling, Records, Trajectory, Closing, IsPublished
  <2>7. RunParts'
    BY <2>5, <2>6 DEF RunParts
  <2>8. RunInv'
    BY <2>7, Parts, PTL
  <2> QED BY <2>3, <2>8
<1>2. CASE InStore \/ SaveCheckpoint \/ StartResume
  BY <1>2, InStoreKeeps, SaveCheckpointKeeps, StartResumeKeeps
<1>3. CASE Persisting
  BY <1>3, PersistingKeeps DEF Persisting
<1>4. CASE \/ StartFresh \/ Loaded \/ LoadRaised \/ Trim \/ Persist \/ Persisted \/ PersistRaised
           \/ Update \/ AppendMetric \/ Saved \/ Interrupted
           \/ BeginExport \/ WriteExport \/ ValidateExport \/ Kill
  <2>1. RunInv'
    BY <1>4, StartFreshKeeps, LoadedKeeps, TrimKeeps, PersistKeeps, PersistedKeeps, EndsKeeps,
       UpdateKeeps, AppendKeeps, SavedKeeps, InterruptedKeeps, ExportKeeps
  <2>2. UNCHANGED <<file, previous>>
    BY <1>4 DEF StartFresh, Loaded, LoadRaised, Trim, Persist, Persisted, PersistRaised, Update,
       AppendMetric, Saved, Interrupted, BeginExport, WriteExport, ValidateExport, Kill,
       storeVars, fileVars, diskVars
  <2>3. Document' = Document
    BY <2>2 DEF Document, Generation
  <2> QED BY <2>1, <2>3
<1> QED BY <1>1, <1>2, <1>3, <1>4 DEF Next

LEMMA RunInvariance ==
    ASSUME KeepLast > 1
    PROVE  Spec => []RunInv
<1>1. Init => RunInv
  BY StateFilesConstants, CheckpointConstants, RunConstants, InitRunInv
<1>2. RunInv /\ [Next]_vars => RunInv'
  BY StateFilesConstants, CheckpointConstants, RunConstants, RunKept
<1> QED BY <1>1, <1>2, PTL DEF Spec

\* Every reachable state of the run is type-correct.
THEOREM RunTyping == ASSUME KeepLast > 1 PROVE Spec => []TypeOK
<1>1. RunInv => TypeOK
  BY DEF RunInv
<1> QED BY <1>1, RunInvariance, PTL

\* The checkpoint that run.json names, or the generation of it that is set
\* aside, is published and whole at every moment, over kills and interrupts:
\* the pruning of a later save keeps two (KeepLast is 3 in the code).
THEOREM RecordIsKept == ASSUME KeepLast > 1 PROVE Spec => []RecordedKept
<1>1. RunInv => RecordedKept
  <2> SUFFICES ASSUME RunInv, Recorded # Absent PROVE \E e \in Published: e.whole /\ e.ckpt = Recorded
    BY DEF RecordedKept
  <2>1. PICK e \in Published: e.ckpt = Recorded
    BY DEF RunInv, Records, IsPublished
  <2>2. e.whole
    BY DEF RunInv, Sound, Published
  <2> QED BY <2>1, <2>2
<1> QED BY <1>1, RunInvariance, PTL

\* An update continues the very trajectory: weights, optimizer, sampler and
\* generator are at completed_step, and the metrics have one row per step.  With
\* dropout it is not true: a resume draws no masks again.
THEOREM TrajectoryIsExact == ASSUME KeepLast > 1, ~Dropout PROVE Spec => []ExactTrajectory
<1>1. RunInv => ExactTrajectory
  BY DEF RunInv, Trajectory, Reached, ExactTrajectory
<1> QED BY <1>1, RunInvariance, PTL

\* To its user the run keeps one checkpoint, replaces it only by a later one,
\* and ends once, exported from the last step.
THEOREM RecordRefined == ASSUME KeepLast > 1 PROVE Spec => ImplementsRun
<1>1. Init => Progress!Init
  <2> SUFFICES ASSUME Init PROVE Progress!Init
    OBVIOUS
  <2>1. file[Run] = Absent /\ previous[Run] = << >>
    BY RunConstants DEF Init, StoreInit, FilesInit
  <2> QED BY <2>1 DEF Progress!Init, Recorded, Ended, Document, Generation
<1>2. RunInv /\ [Next]_vars => [Progress!Next]_<<Recorded, Ended>>
  <2> SUFFICES ASSUME RunInv, [Next]_vars PROVE [Progress!Next]_<<Recorded, Ended>>
    OBVIOUS
  <2>1. RunParts
    BY Parts
  <2>2. \/ Document' = Document
        \/ Document' = mem /\ ~Ended /\ pc \in PersistPoints
    BY StateFilesConstants, CheckpointConstants, RunConstants, RunKept
  <2>3. CASE Document' = Document
    BY <2>3 DEF Recorded, Ended
  <2>4. CASE Document' = mem /\ ~Ended /\ pc \in PersistPoints
    <3>1. mem # Absent /\ mem \in RunDocuments /\ mem.last \in Checkpoints \cup {Absent}
      BY <2>1, StateFilesConstants, CheckpointConstants, RunConstants, Constants
         DEF RunParts, RunType, RunDocuments
    <3>2. Recorded' = mem.last /\ Ended' = (mem.status = "exported")
      BY <2>4, <3>1 DEF Recorded, Ended
    <3>3. Ended = FALSE
      BY <2>4 DEF Ended
    <3>4. CASE Recorded' = Recorded /\ ~Ended'
      BY <3>3, <3>4 DEF Ended
    <3>5. CASE Recorded' = Recorded /\ Ended'
      <4>1. Recorded # Absent /\ Recorded.step = Horizon
        BY <2>1, <3>2, <3>5 DEF RunParts, Closing
      <4>2. Ended' = TRUE
        BY <3>2, <3>5
      <4> QED BY <3>5, <4>1, <4>2 DEF Progress!Next, Progress!End
    <3>6. CASE Recorded' # Recorded
      <4>1. /\ pc \in {"commit", "handle"} /\ mem.last # Absent
            /\ Recorded # Absent => Recorded.step < mem.last.step
        BY <2>1, <2>4, <3>2, <3>6 DEF RunParts, Records, PersistPoints
      <4>2. Ended' = Ended
        BY <2>1, <3>2, <3>3, <4>1 DEF RunParts, Closing
      <4>3. /\ mem.last = [step |-> mem.last.step, build |-> mem.last.build]
            /\ mem.last.step \in 1..Horizon /\ mem.last.build \in Builds
        BY <3>1, <4>1 DEF Checkpoints, Steps
      <4> QED BY <3>2, <3>3, <4>1, <4>2, <4>3 DEF Progress!Next, Progress!Record
    <3> QED BY <3>4, <3>5, <3>6
  <2> QED BY <2>2, <2>3, <2>4
<1> QED BY <1>1, <1>2, RunInvariance, PTL DEF Spec, ImplementsRun, Progress!Spec
=============================================================================
