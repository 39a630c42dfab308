------------------------- MODULE LaunchedRun_proofs -------------------------
(***************************************************************************)
(* A launched run over any number of killed, interrupted and resumed       *)
(* processes, for every number of steps, cadence and retention: what       *)
(* run.json names can be found, training continues the exact trajectory,   *)
(* and no row of the metrics is ever lost.                                 *)
(*                                                                         *)
(* The invariant comes in layers, each inductive given those before it:    *)
(* the shape of files and calls, the process identities, the checkpoints,  *)
(* their pace (run.json is behind them by at most one), the metrics, and   *)
(* the evidence of the export.                                             *)
(***************************************************************************)
EXTENDS LaunchedRun, SequenceTheorems, FiniteSetTheorems, WellFoundedInduction, TLAPS

IsPublished(c) == \E e \in Published: e.ckpt = c

MetricsDocs == [rows: Rows]
PidDocs == [pid: Builds]

Early == {"log", "prestart", "budget"}
Resuming == {"pid", "sweep", "replay", "load", "rotate"}
Running == LoopPoints \cup ExportPoints
-----------------------------------------------------------------------------
(* The shape of the files, the publication and the call.                   *)

PubTypes == [at: Point, name: Names \cup {Absent}, doc: LaunchDocuments \cup {Absent}]

FilesType ==
    /\ file \in [Names -> LaunchDocuments \cup {Absent}]
    /\ staged \in [Names -> Nat]
    /\ previous \in [Names -> Seq(LaunchDocuments)]
    /\ pub \in PubTypes

\* The publication under way, and its name's files.
PubFiles ==
    /\ pub.at = "idle" => pub = NoPublication
    /\ pub.at # "idle" => pub.name \in Names /\ pub.doc \in LaunchDocuments
    /\ pub.at = "aside" => file[pub.name] # Absent
    /\ pub.at \in {"aside", "fresh", "swap"} => staged[pub.name] > 0
    /\ pub.at = "swap" => file[pub.name] = Absent
    /\ pub.at \in {"swap", "drop"} => previous[pub.name] # << >>
    /\ pub.at \in {"drop", "done"} => file[pub.name] = pub.doc

\* A process identity is written where none is, so none is ever set aside.
NameFiles ==
    /\ file[Run] \in RunDocuments \cup {Absent} /\ previous[Run] \in Seq(RunDocuments)
    /\ file[Metrics] \in MetricsDocs \cup {Absent} /\ previous[Metrics] \in Seq(MetricsDocs)
    /\ file[Pid] \in PidDocs \cup {Absent} /\ previous[Pid] = << >>

NewDocument ==
    [mem EXCEPT !.completed = n, !.last = [step |-> n, build |-> build], !.count = @ + 1]

WritingPoints == {"log", "budget", "identify", "prefix", "commit", "load", "saving"}

\* Whose publication it is.
Publisher ==
    /\ pc \notin PersistPoints \cup WritingPoints => pub = NoPublication
    /\ pc \in {"load", "saving"} =>
          /\ op.at \notin {"pointing", "raised"} => pub = NoPublication
          /\ op.at = "raised" => pub.at \in {"idle", "failed"}
          /\ pub.at # "idle" => pub.name = Latest
    /\ pub.at # "idle" =>
          /\ pc = "log" => pub.name = Log
          /\ pc = "budget" => pub.name = Budget
          /\ pc = "identify" => /\ pub.name = Pid /\ pub.doc = PidOf(build)
                                /\ pub.at \notin {"aside", "swap", "drop"}
                                /\ pub.at \in {"stage", "fresh"} => file[Pid] = Absent
          /\ pc \in PersistPoints => pub.name = Run /\ pub.doc = mem
          /\ pc = "prefix" => pub.name = Metrics /\ pub.doc \in MetricsDocs /\ Len(pub.doc.rows) = n
    /\ pc = "commit" => pub.at # "idle" /\ pub.name = Run /\ pub.doc = NewDocument

\* What is not missing, and what a resumed process takes from run.json.
Present ==
    /\ pc \notin {"down", "restore", "prefix", "handle"} => ~Missing(Metrics)
    /\ pc = "prefix" /\ pub.at = "idle" => file[Metrics] # Absent
    /\ pc \in Early => Document = Absent
    /\ pc \in Resuming => /\ file[Run] # Absent
                          /\ mem.process = file[Run].process /\ mem.metrics = file[Run].metrics
                          /\ mem.status = file[Run].status
                          /\ file[Run].status # "trained_and_exported"
                          /\ pc # "rotate" => mem.last = file[Run].last

BeforeLoad == {"down", "restore", "pid", "sweep", "replay", "load"} \cup Early

ProcessOK ==
    /\ pc \in Points /\ build \in Nat /\ build \in Builds \cup {0}
    /\ n \in 0..Horizon /\ bound \in BOOLEAN /\ net = After(n)
    /\ pc # "down" => build \in Builds /\ build > 0
    /\ pc \in {"down", "restore"} => mem = Absent
    /\ pc \notin {"down", "restore"} => mem \in RunDocuments
    /\ pc \in BeforeLoad => n = 0
    /\ bound \/ pub.at = "failed" \/ pc = "handle"

\* A run has no more checkpoints than steps.
Counted ==
    mem # Absent =>
        /\ mem.last = Absent => mem.count = 0
        /\ mem.last # Absent => mem.count <= mem.last.step
        /\ pc \notin {"pid", "sweep", "replay", "load"} /\ mem.last # Absent => mem.last.step <= n
        /\ pc \in {"append", "save", "saving", "commit"} => n > 0 /\ (mem.last # Absent => mem.last.step < n)

Counting == {"recopied", "loop", "save", "saving", "commit"} \cup ExportPoints

\* metrics.csv has at least the rows up to the checkpoint, and then a row per step.
Lengths ==
    /\ pc \in {"rotate", "identify", "announce", "metrics"} /\ file[Metrics] # Absent =>
          n <= Len(file[Metrics].rows)
    /\ pc = "prefix" /\ pub.at = "idle" => n <= Len(file[Metrics].rows)
    /\ pc \in Counting => file[Metrics] # Absent /\ Len(file[Metrics].rows) = n
    /\ pc = "append" => file[Metrics] # Absent /\ n = Len(file[Metrics].rows) + 1

OpType == [at: OpPoints, ckpt: Checkpoints \cup {Absent}, spare: Checkpoints \cup {Absent}]

OnDisk == {"pointer", "pointing", "prune", "pruning", "returned"}

StoreShape ==
    /\ op \in OpType
    /\ dirs \subseteq Entries /\ IsFiniteSet(dirs) /\ \A e \in dirs: e.whole
    /\ op.at \notin {"idle", "raised"} => op.ckpt \in Checkpoints
    /\ op.at \in {"staged", "replaced"} => \E e \in dirs: e.kind = "stage"
    /\ op.at = "idle" => op = NoOp
    /\ pc \notin {"load", "saving"} => op = NoOp
    /\ pc = "load" => op.at \in {"idle", "recover", "raised"} \cup OnDisk
    /\ pc = "saving" => /\ op.at \in {"staged", "discarded", "replaced", "raised"} \cup OnDisk
                        /\ op.at # "raised" => op.ckpt = [step |-> n, build |-> build]

OthersType ==
    /\ pids \subseteq Builds /\ tails \subseteq Rows /\ moved \subseteq Entries /\ hidden \subseteq HiddenDirs
    /\ adapter \in TrajectoryStates \cup {Absent} /\ metadata \in BOOLEAN
    /\ export \in TrajectoryStates \cup {Absent}

Files == FilesType /\ PubFiles /\ NameFiles
Control == Publisher /\ Present /\ ProcessOK /\ Counted /\ Lengths /\ StoreShape /\ OthersType
Shape == Files /\ Control
-----------------------------------------------------------------------------
(* Constants.                                                              *)

LEMMA FiveNames ==
    ASSUME NEW S, NEW a, NEW b, NEW c, NEW d, NEW e, S = {a, b, c, d, e}
    PROVE  Cardinality(S) # 6
<1>1. IsFiniteSet({a}) /\ Cardinality({a}) = 1
  BY FS_Singleton
<1>2. IsFiniteSet({a} \cup {b}) /\ Cardinality({a} \cup {b}) \in {1, 2}
  BY <1>1, FS_AddElement
<1>3. IsFiniteSet({a} \cup {b} \cup {c}) /\ Cardinality({a} \cup {b} \cup {c}) \in 1..3
  BY <1>2, FS_AddElement
<1>4. /\ IsFiniteSet({a} \cup {b} \cup {c} \cup {d})
      /\ Cardinality({a} \cup {b} \cup {c} \cup {d}) \in 1..4
  BY <1>3, FS_AddElement
<1>5. Cardinality({a} \cup {b} \cup {c} \cup {d} \cup {e}) \in 1..5
  BY <1>4, FS_AddElement
<1>6. S = {a} \cup {b} \cup {c} \cup {d} \cup {e}
  OBVIOUS
<1> QED BY <1>5, <1>6

LEMMA SixNames ==
    ASSUME NEW a, NEW b, NEW c, NEW d, NEW e, NEW f, Cardinality({a, b, c, d, e, f}) = 6
    PROVE  /\ a \notin {b, c, d, e, f} /\ b \notin {c, d, e, f}
           /\ c \notin {d, e, f} /\ d \notin {e, f} /\ e # f
<1> DEFINE S == {a, b, c, d, e, f}
<1>1. a \in {b, c, d, e, f} => S = {b, c, d, e, f}
  OBVIOUS
<1>2. b \in {c, d, e, f} => S = {a, c, d, e, f}
  OBVIOUS
<1>3. c \in {d, e, f} => S = {a, b, d, e, f}
  OBVIOUS
<1>4. d \in {e, f} => S = {a, b, c, e, f}
  OBVIOUS
<1>5. e = f => S = {a, b, c, d, f}
  OBVIOUS
<1>6. Cardinality(S) = 6
  OBVIOUS
<1> HIDE DEF S
<1> QED BY <1>1, <1>2, <1>3, <1>4, <1>5, <1>6, FiveNames

LEMMA LaunchFacts ==
    /\ Absent \notin LaunchDocuments
    /\ RunDocuments \subseteq LaunchDocuments /\ Checkpoints \subseteq LaunchDocuments
    /\ MetricsDocs \subseteq LaunchDocuments /\ PidDocs \subseteq LaunchDocuments
    /\ FixedBudget \in LaunchDocuments /\ \A b \in Builds: LogOf(b) \in LaunchDocuments
    /\ Absent \notin RunDocuments /\ Absent \notin Checkpoints
    /\ Absent \notin MetricsDocs /\ Absent \notin PidDocs /\ Absent \notin Rows
    /\ Horizon \in Nat \ {0} /\ Interval \in Nat \ {0} /\ KeepLast \in Nat \ {0} /\ KeepLast > 1
BY LaunchConstants, CheckpointConstants
   DEF LaunchDocuments, MetricsDocs, PidDocs, LogOf, FixedBudget

LEMMA NameFacts ==
    /\ Run \in Names /\ Pid \in Names /\ Metrics \in Names /\ Log \in Names /\ Budget \in Names
    /\ Latest \in Names
    /\ Run \notin {Pid, Metrics, Log, Budget, Latest} /\ Pid \notin {Run, Metrics, Log, Budget, Latest}
    /\ Metrics \notin {Run, Pid, Log, Budget, Latest} /\ Log \notin {Run, Pid, Metrics, Budget, Latest}
    /\ Budget \notin {Run, Pid, Metrics, Log, Latest} /\ Latest \notin {Run, Pid, Metrics, Log, Budget}
<1>1. OutputNames \cup {Latest} = {Run, Pid, Metrics, Log, Budget, Latest}
  BY DEF OutputNames
<1>2. Cardinality({Run, Pid, Metrics, Log, Budget, Latest}) = 6
  BY <1>1, LaunchConstants
<1>3. {Run, Pid, Metrics, Log, Budget, Latest} \subseteq Names
  BY <1>1, LaunchConstants
<1>4. /\ Run \notin {Pid, Metrics, Log, Budget, Latest} /\ Pid \notin {Metrics, Log, Budget, Latest}
      /\ Metrics \notin {Log, Budget, Latest} /\ Log \notin {Budget, Latest} /\ Budget # Latest
  BY <1>2, SixNames
<1> QED BY <1>3, <1>4

LEMMA HorizonIs == Horizon \in Nat /\ Horizon > 0
BY CheckpointConstants

LEMMA CheckpointFacts ==
    \A c \in Checkpoints: c.step \in 1..Horizon /\ c.step \in Nat /\ c.step > 0 /\ c.build \in Builds
BY LaunchFacts DEF Checkpoints, Steps

LEMMA RunDocumentFacts ==
    \A d \in RunDocuments:
        /\ d.status \in Statuses /\ d.completed \in 0..Horizon /\ d.last \in Checkpoints \cup {Absent}
        /\ d.count \in 0..Horizon /\ d.process \in Builds /\ d.log \in Builds
        /\ d.metrics \in Rows \cup {Absent} /\ d.recovered \subseteq Builds
BY DEF RunDocuments

\* The metrics of at most Horizon steps are sequences of builds.
LEMMA RowsAre == \A r: r \in Rows <=> (r \in Seq(Builds) /\ Len(r) <= Horizon)
<1>1. ASSUME NEW r, r \in Rows PROVE r \in Seq(Builds) /\ Len(r) <= Horizon
  <2>1. PICK k \in 0..Horizon: r \in [1..k -> Builds]
    BY <1>1 DEF Rows
  <2>2. k \in Nat /\ k <= Horizon
    BY LaunchFacts
  <2>3. r \in Seq(Builds)
    BY <2>1, <2>2, SeqDef
  <2>4. Len(r) = k
    BY <2>1, <2>2, <2>3, LenProperties
  <2> QED BY <2>2, <2>3, <2>4
<1>2. ASSUME NEW r, r \in Seq(Builds), Len(r) <= Horizon PROVE r \in Rows
  <2>1. Len(r) \in 0..Horizon /\ r \in [1..Len(r) -> Builds]
    BY <1>2, LenProperties, LaunchFacts
  <2> QED BY <2>1 DEF Rows
<1> QED BY <1>1, <1>2

LEMMA MetricsDocsAre ==
    /\ \A r \in Rows: MetricsOf(r) \in MetricsDocs /\ MetricsOf(r).rows = r
    /\ \A d \in MetricsDocs: d.rows \in Rows /\ d = MetricsOf(d.rows)
BY DEF MetricsDocs, MetricsOf

LEMMA EmptyRows == << >> \in Rows /\ Len(<< >>) = 0
<1>1. << >> \in Seq(Builds) /\ Len(<< >>) = 0
  BY EmptySeq
<1>2. ASSUME NEW e \in Seq(Builds), Len(e) = 0 PROVE e \in Rows
  <2>1. Len(e) <= Horizon
    BY <1>2, HorizonIs
  <2> QED BY <2>1, RowsAre
<1> QED BY <1>1, <1>2

LEMMA RowsGrow ==
    ASSUME NEW r \in Rows, NEW b \in Builds, Len(r) < Horizon
    PROVE  /\ Append(r, b) \in Rows /\ Len(Append(r, b)) = Len(r) + 1 /\ Len(r) \in Nat
           /\ Append(r, b)[Len(r) + 1] = b
           /\ \A i \in 1..Len(r): Append(r, b)[i] = r[i]
<1>1. r \in Seq(Builds) /\ Len(r) \in Nat
  BY RowsAre, LenProperties
<1>2. Append(r, b) \in Seq(Builds) /\ Len(Append(r, b)) = Len(r) + 1
      /\ Append(r, b)[Len(r) + 1] = b /\ \A i \in 1..Len(r): Append(r, b)[i] = r[i]
  BY <1>1, AppendProperties
<1>3. Len(Append(r, b)) <= Horizon
  BY <1>1, <1>2, HorizonIs
<1> QED BY <1>1, <1>2, <1>3, RowsAre

LEMMA RowsCut ==
    ASSUME NEW r \in Rows, NEW k \in Nat, k <= Len(r)
    PROVE  /\ SubSeq(r, 1, k) \in Rows /\ Len(SubSeq(r, 1, k)) = k
           /\ \A i \in 1..k: SubSeq(r, 1, k)[i] = r[i]
<1>1. r \in Seq(Builds) /\ Len(r) \in Nat /\ Len(r) <= Horizon
  BY RowsAre, LenProperties
<1>2. \A i \in 1..k: r[i] \in Builds
  BY <1>1, LenProperties
<1>3. SubSeq(r, 1, k) \in Seq(Builds) /\ Len(SubSeq(r, 1, k)) = k
      /\ \A i \in 1..k: SubSeq(r, 1, k)[i] = r[i]
  BY <1>1, <1>2, SubSeqProperties
<1>4. Len(SubSeq(r, 1, k)) <= Horizon
  BY <1>1, <1>3, HorizonIs
<1> QED BY <1>3, <1>4, RowsAre

\* At most every step has a checkpoint.
LEMMA CadenceCount ==
    ASSUME NEW k \in 0..Horizon
    PROVE  /\ Cardinality({s \in 1..k: OnCadence(s)}) \in 0..k
           /\ Cardinality({s \in 1..k: OnCadence(s)}) \in 0..Horizon
<1> DEFINE C == {s \in 1..k: OnCadence(s)}
<1>1. IsFiniteSet(1..k) /\ Cardinality(1..k) = k /\ k \in Nat
  <2>1. k \in Int /\ 1 \in Int /\ k \in Nat
    BY LaunchFacts
  <2>2. IsFiniteSet(1..k) /\ Cardinality(1..k) = (IF 1 > k THEN 0 ELSE k - 1 + 1)
    BY <2>1, FS_Interval
  <2> QED BY <2>1, <2>2
<1>2. C \in SUBSET (1..k)
  OBVIOUS
<1>3. Cardinality(C) \in Nat /\ Cardinality(C) <= k
  BY <1>1, <1>2, FS_Subset, FS_CardinalityType
<1>4. k <= Horizon /\ k \in Nat
  BY <1>1, HorizonIs
<1> HIDE DEF C
<1>5. Cardinality(C) \in 0..k /\ Cardinality(C) \in 0..Horizon
  BY <1>3, <1>4, HorizonIs
<1> QED BY <1>5 DEF C
-----------------------------------------------------------------------------
(* The steps of a publication.                                            *)

LastOfAll(s) == s[Len(s)]

\* The last of the generations set aside.
LEMMA Generations ==
    ASSUME NEW D, NEW s \in Seq(D)
    PROVE  /\ AllButLast(s) \in Seq(D)
           /\ s # << >> => LastOfAll(s) \in D
           /\ \A d \in D: /\ Append(s, d) \in Seq(D) /\ Append(s, d) # << >>
                          /\ LastOfAll(Append(s, d)) = d
<1>1. /\ Len(s) \in Nat
      /\ \A i \in 1..Len(s): s[i] \in D
      /\ s # << >> => Len(s) >= 1
  BY LenProperties, EmptySeq
<1>2. AllButLast(s) \in Seq(D)
  <2>1. \A i \in 1..(Len(s) - 1): s[i] \in D
    BY <1>1
  <2> QED BY <1>1, <2>1, SubSeqProperties DEF AllButLast
<1>3. ASSUME NEW d \in D
      PROVE  Append(s, d) \in Seq(D) /\ Append(s, d) # << >> /\ LastOfAll(Append(s, d)) = d
  BY <1>1, AppendProperties DEF LastOfAll
<1> QED BY <1>1, <1>2, <1>3 DEF LastOfAll

GenerationsAre ==
    \A k \in Names:
        /\ file[k] # Absent => Generation(k) = file[k]
        /\ previous[k] = << >> => Generation(k) = file[k]
        /\ file[k] = Absent /\ previous[k] # << >> => Generation(k) = LastOfAll(previous[k])

LEMMA GenerationIs == GenerationsAre
BY DEF GenerationsAre, Generation, LastOfAll

\* What a publication is about to do does not change while it is under way.
PubShape(a) == pub' = [pub EXCEPT !.at = a]

LEMMA PubShapeIs ==
    ASSUME pub \in PubTypes, NEW a \in Point, PubShape(a)
    PROVE  pub' \in PubTypes /\ pub'.at = a /\ pub'.name = pub.name /\ pub'.doc = pub.doc
BY DEF PubShape, PubTypes

\* A step of write_run_state(m, d): the generation of m stays, or becomes d.
LEMMA FileMoves ==
    ASSUME FilesType, PubFiles, PublishStep \/ PublicationFails,
           NEW m \in Names, pub.name = m, NEW D \in SUBSET LaunchDocuments, pub.doc \in D,
           file[m] \in D \cup {Absent}, previous[m] \in Seq(D)
    PROVE  /\ FilesType' /\ PubFiles'
           /\ pub.at # "idle" /\ pub'.name = m /\ pub'.doc = pub.doc /\ pub'.at # "idle"
           /\ pub.at \in {"drop", "done"} => pub'.at \in {"done", "failed"}
           /\ file'[m] \in D \cup {Absent} /\ previous'[m] \in Seq(D)
           /\ \A k \in Names \ {m}: file'[k] = file[k] /\ previous'[k] = previous[k]
           /\ \/ Generation(m)' = Generation(m)
              \/ /\ pub.at \in {"fresh", "swap"} /\ pub'.at \in {"drop", "done"}
                 /\ Generation(m)' = pub.doc
<1>1. /\ file \in [Names -> LaunchDocuments \cup {Absent}] /\ staged \in [Names -> Nat]
      /\ previous \in [Names -> Seq(LaunchDocuments)] /\ pub \in PubTypes
  BY DEF FilesType
<1>2. /\ staged[m] \in Nat /\ Absent \notin D /\ previous[m] \in Seq(LaunchDocuments)
      /\ pub.at \in {"aside", "fresh", "swap"} => staged[m] > 0
  BY <1>1, LaunchFacts DEF PubFiles
<1>a. GenerationsAre'
  BY GenerationIs, PTL
<1>b. GenerationsAre
  BY GenerationIs
<1>3. CASE WriteStaged
  <2> DEFINE a == IF file[pub.name] = Absent THEN "fresh" ELSE "aside"
  <2>1. a \in Point /\ (a = "aside" => file[m] # Absent) /\ a \in {"fresh", "aside"} /\ pub.at = "stage"
    BY <1>3 DEF Point, WriteStaged
  <2>2. staged' = [staged EXCEPT ![m] = @ + 1] /\ PubShape(a) /\ UNCHANGED <<file, previous>>
    BY <1>3 DEF WriteStaged, PubShape
  <2> HIDE DEF a
  <2>3. pub' \in PubTypes /\ pub'.at = a /\ pub'.name = m /\ pub'.doc = pub.doc
    BY <1>1, <2>1, <2>2, PubShapeIs
  <2>4. staged' \in [Names -> Nat] /\ staged'[m] > 0
    BY <1>1, <1>2, <2>2
  <2>5. FilesType' /\ PubFiles'
    BY <1>1, <2>1, <2>2, <2>3, <2>4 DEF FilesType, PubFiles
  <2>6. Generation(m)' = Generation(m)
    BY <2>2 DEF Generation
  <2> QED BY <2>1, <2>2, <2>3, <2>5, <2>6
<1>4. CASE SetAside
  <2>1. /\ pub.at = "aside" /\ PubShape("swap") /\ UNCHANGED staged
        /\ previous' = [previous EXCEPT ![m] = Append(@, file[m])]
        /\ file' = [file EXCEPT ![m] = Absent]
    BY <1>4 DEF SetAside, PubShape
  <2>2. pub' \in PubTypes /\ pub'.at = "swap" /\ pub'.name = m /\ pub'.doc = pub.doc
    BY <1>1, <2>1, PubShapeIs DEF Point
  <2>3. file[m] \in D /\ file[m] # Absent
    BY <2>1 DEF PubFiles
  <2>4. /\ previous' \in [Names -> Seq(LaunchDocuments)] /\ previous'[m] # << >> /\ previous'[m] \in Seq(D)
        /\ LastOfAll(previous'[m]) = file[m]
        /\ \A k \in Names \ {m}: previous'[k] = previous[k]
    <3> DEFINE s == Append(previous[m], file[m])
    <3>1. s \in Seq(D) /\ s # << >> /\ LastOfAll(s) = file[m]
      BY <2>3, Generations
    <3>2. s \in Seq(LaunchDocuments)
      BY <1>2, <2>3, Generations
    <3>3. previous' = [previous EXCEPT ![m] = s]
      BY <2>1
    <3> HIDE DEF s
    <3> QED BY <1>1, <3>1, <3>2, <3>3
  <2>5. /\ file' \in [Names -> LaunchDocuments \cup {Absent}] /\ file'[m] = Absent
        /\ \A k \in Names \ {m}: file'[k] = file[k]
    BY <1>1, <2>1
  <2>6. FilesType' /\ PubFiles'
    BY <1>1, <1>2, <2>1, <2>2, <2>4, <2>5 DEF FilesType, PubFiles
  <2>7. Generation(m)' = Generation(m)
    BY <1>a, <1>b, <2>3, <2>4, <2>5 DEF GenerationsAre
  <2> QED BY <2>1, <2>2, <2>4, <2>5, <2>6, <2>7
<1>5. CASE PublishStaged
  <2> DEFINE a == IF pub.at = "swap" THEN "drop" ELSE "done"
  <2>1. /\ pub.at \in {"fresh", "swap"} /\ PubShape(a) /\ UNCHANGED previous
        /\ file' = [file EXCEPT ![m] = pub.doc]
        /\ staged' = [staged EXCEPT ![m] = @ - 1]
    BY <1>5 DEF PublishStaged, PubShape
  <2>2. a \in Point /\ a \in {"drop", "done"} /\ (a = "drop" => previous[m] # << >>)
    BY DEF Point, PubFiles
  <2> HIDE DEF a
  <2>3. pub' \in PubTypes /\ pub'.at = a /\ pub'.name = m /\ pub'.doc = pub.doc
    BY <1>1, <2>1, <2>2, PubShapeIs
  <2>4. staged' \in [Names -> Nat]
    BY <1>1, <1>2, <2>1
  <2>5. /\ file' \in [Names -> LaunchDocuments \cup {Absent}] /\ file'[m] = pub.doc
        /\ \A k \in Names \ {m}: file'[k] = file[k]
    BY <1>1, <2>1
  <2>6. FilesType' /\ PubFiles'
    BY <1>1, <2>1, <2>2, <2>3, <2>4, <2>5 DEF FilesType, PubFiles
  <2>7. Generation(m)' = pub.doc
    BY <1>2, <1>a, <2>5 DEF GenerationsAre
  <2> QED BY <2>1, <2>2, <2>3, <2>5, <2>6, <2>7
<1>6. CASE DropPrevious
  <2>1. /\ pub.at = "drop" /\ PubShape("done") /\ UNCHANGED <<file, staged>>
        /\ previous' = [previous EXCEPT ![m] = AllButLast(@)]
    BY <1>6 DEF DropPrevious, PubShape
  <2>2. pub' \in PubTypes /\ pub'.at = "done" /\ pub'.name = m /\ pub'.doc = pub.doc
    BY <1>1, <2>1, PubShapeIs DEF Point
  <2>3. /\ previous' \in [Names -> Seq(LaunchDocuments)] /\ previous'[m] \in Seq(D)
        /\ \A k \in Names \ {m}: previous'[k] = previous[k]
    <3>1. AllButLast(previous[m]) \in Seq(D) /\ AllButLast(previous[m]) \in Seq(LaunchDocuments)
      BY <1>2, Generations
    <3> QED BY <1>1, <2>1, <3>1
  <2>4. file[m] = pub.doc
    BY <2>1 DEF PubFiles
  <2>5. FilesType' /\ PubFiles'
    BY <1>1, <2>1, <2>2, <2>3, <2>4 DEF FilesType, PubFiles
  <2>6. Generation(m)' = Generation(m)
    BY <1>2, <1>a, <1>b, <2>1, <2>4 DEF GenerationsAre
  <2> QED BY <2>1, <2>2, <2>3, <2>5, <2>6
<1>7. CASE PublicationFails
  <2>1. /\ PubShape("failed") /\ pub.at \in {"stage", "aside", "fresh", "swap", "drop", "done"}
    BY <1>7 DEF PublicationFails, PubShape
  <2>2. pub' \in PubTypes /\ pub'.at = "failed" /\ pub'.name = m /\ pub'.doc = pub.doc
    BY <1>1, <2>1, PubShapeIs DEF Point
  <2>3. staged' \in [Names -> Nat]
    <3>1. staged' = staged \/ (staged[m] > 0 /\ staged' = [staged EXCEPT ![m] = @ - 1])
      BY <1>2, <1>7 DEF PublicationFails
    <3>2. CASE staged[m] > 0 /\ staged' = [staged EXCEPT ![m] = @ - 1]
      <4>1. staged[m] - 1 \in Nat
        BY <1>2, <3>2
      <4> QED BY <1>1, <3>2, <4>1
    <3> QED BY <1>1, <3>1, <3>2
  <2>4. PubFiles'
    BY <2>1, <2>2 DEF PubFiles
  <2>5. CASE UNCHANGED <<file, previous>>
    <3>1. FilesType'
      BY <1>1, <2>2, <2>3, <2>5 DEF FilesType
    <3>2. Generation(m)' = Generation(m)
      BY <2>5 DEF Generation
    <3> QED BY <2>1, <2>2, <2>4, <2>5, <3>1, <3>2
  <2>6. CASE ~UNCHANGED <<file, previous>>
    <3> DEFINE g == Generation(m)
               s == AllButLast(previous[m])
    <3>1. /\ pub.at = "swap" /\ file' = [file EXCEPT ![m] = g] /\ previous' = [previous EXCEPT ![m] = s]
      BY <1>7, <2>6 DEF PublicationFails
    <3>2. file[m] = Absent /\ previous[m] # << >>
      BY <3>1 DEF PubFiles
    <3>3. s \in Seq(D) /\ s \in Seq(LaunchDocuments) /\ g \in D
      BY <1>2, <1>b, <3>2, Generations DEF GenerationsAre
    <3> HIDE DEF g, s
    <3>4. /\ file' \in [Names -> LaunchDocuments \cup {Absent}] /\ file'[m] = g
          /\ previous' \in [Names -> Seq(LaunchDocuments)] /\ previous'[m] = s
          /\ \A k \in Names \ {m}: file'[k] = file[k] /\ previous'[k] = previous[k]
      BY <1>1, <3>1, <3>3
    <3>5. FilesType'
      BY <1>1, <2>2, <2>3, <3>4 DEF FilesType
    <3>6. Generation(m)' = Generation(m)
      BY <1>2, <1>a, <3>3, <3>4 DEF g, GenerationsAre
    <3> QED BY <2>1, <2>2, <2>4, <3>3, <3>4, <3>5, <3>6
  <2> QED BY <2>5, <2>6
<1> QED BY <1>3, <1>4, <1>5, <1>6, <1>7 DEF PublishStep
-----------------------------------------------------------------------------
(* What the documents are.                                                 *)

LEMMA DocumentsAre ==
    ASSUME NameFiles
    PROVE  /\ Document \in RunDocuments \cup {Absent} /\ Recorded \in Checkpoints \cup {Absent}
           /\ Generation(Metrics) \in MetricsDocs \cup {Absent}
           /\ file[Run] # Absent => Document = file[Run]
           /\ file[Metrics] # Absent => Generation(Metrics) = file[Metrics]
           /\ ~Missing(Metrics) => Generation(Metrics) = file[Metrics]
           /\ ~Missing(Run) => Document = file[Run]
           /\ Generation(Pid) = file[Pid]
<1>1. GenerationsAre
  BY GenerationIs
<1>2. Run \in Names /\ Metrics \in Names /\ Pid \in Names
  BY NameFacts
<1>3. /\ previous[Run] # << >> => LastOfAll(previous[Run]) \in RunDocuments
      /\ previous[Metrics] # << >> => LastOfAll(previous[Metrics]) \in MetricsDocs
  BY Generations DEF NameFiles
<1>4. Document \in RunDocuments \cup {Absent} /\ Generation(Metrics) \in MetricsDocs \cup {Absent}
  BY <1>1, <1>2, <1>3 DEF GenerationsAre, NameFiles, Document
<1>5. Recorded \in Checkpoints \cup {Absent}
  BY <1>4, RunDocumentFacts DEF Recorded
<1> QED BY <1>1, <1>2, <1>4, <1>5 DEF GenerationsAre, NameFiles, Document, Missing

\* What the next process would read of run.json, metrics.csv and training.pid.
SameView ==
    /\ Document' = Document /\ Generation(Metrics)' = Generation(Metrics) /\ file'[Pid] = file[Pid]

LEMMA SameDocument ==
    ASSUME Document' = Document
    PROVE  Recorded' = Recorded /\ Ended' = Ended
BY DEF Recorded, Ended

LEMMA SameFiles ==
    ASSUME \A m \in {Run, Metrics, Pid}: file'[m] = file[m] /\ previous'[m] = previous[m]
    PROVE  /\ SameView /\ Recorded' = Recorded /\ Ended' = Ended
           /\ Missing(Metrics)' = Missing(Metrics) /\ Missing(Run)' = Missing(Run)
<1>1. /\ file'[Run] = file[Run] /\ previous'[Run] = previous[Run]
      /\ file'[Metrics] = file[Metrics] /\ previous'[Metrics] = previous[Metrics]
      /\ file'[Pid] = file[Pid]
  OBVIOUS
<1>2. Document' = Document /\ Generation(Metrics)' = Generation(Metrics)
  BY <1>1 DEF Document, Generation
<1>3. Missing(Metrics)' = Missing(Metrics) /\ Missing(Run)' = Missing(Run)
  BY <1>1 DEF Missing
<1> QED BY <1>1, <1>2, <1>3, SameDocument DEF SameView

LEMMA SameDisk ==
    ASSUME UNCHANGED <<file, previous>>
    PROVE  /\ SameView /\ Recorded' = Recorded /\ Ended' = Ended
           /\ Missing(Metrics)' = Missing(Metrics) /\ Missing(Run)' = Missing(Run)
BY SameFiles

\* What may be published under the names that are read again.
Publishable(m, d) ==
    /\ m \in Names /\ d \in LaunchDocuments
    /\ m = Run => d \in RunDocuments
    /\ m = Metrics => d \in MetricsDocs
    /\ m = Pid => d \in PidDocs

LEMMA FilesStay ==
    ASSUME Files, UNCHANGED <<file, staged, previous, pub>>
    PROVE  Files'
BY DEF Files, FilesType, PubFiles, NameFiles

LEMMA FilesBegin ==
    ASSUME Files, UNCHANGED <<file, staged, previous>>, NEW m, NEW d, Publishable(m, d),
           pub' = Publication(m, d)
    PROVE  Files' /\ pub'.at = "stage" /\ pub'.name = m /\ pub'.doc = d
<1>1. pub'.at = "stage" /\ pub'.name = m /\ pub'.doc = d /\ pub' \in PubTypes
  BY DEF Publication, PubTypes, Point, Publishable
<1> QED BY <1>1 DEF Files, FilesType, PubFiles, NameFiles, Publishable

LEMMA FilesEnd ==
    ASSUME Files, UNCHANGED <<file, staged, previous>>, pub' = NoPublication
    PROVE  Files' /\ pub'.at = "idle"
<1>1. pub'.at = "idle" /\ pub' \in PubTypes
  BY DEF NoPublication, PubTypes, Point
<1> QED BY <1>1 DEF Files, FilesType, PubFiles, NameFiles

\* One name's files change while nothing is published.
LEMMA FilesSet ==
    ASSUME Files, pub = NoPublication, UNCHANGED pub, NEW m \in Names,
           NEW x \in LaunchDocuments \cup {Absent}, NEW s \in Nat, NEW q \in Seq(LaunchDocuments),
           file' = [file EXCEPT ![m] = x], staged' = [staged EXCEPT ![m] = s],
           previous' = [previous EXCEPT ![m] = q],
           m = Run => x \in RunDocuments \cup {Absent} /\ q \in Seq(RunDocuments),
           m = Metrics => x \in MetricsDocs \cup {Absent} /\ q \in Seq(MetricsDocs),
           m = Pid => x \in PidDocs \cup {Absent} /\ q = << >>
    PROVE  /\ Files'
           /\ file'[m] = x /\ previous'[m] = q
           /\ \A k \in Names \ {m}: file'[k] = file[k] /\ previous'[k] = previous[k]
<1>1. /\ file \in [Names -> LaunchDocuments \cup {Absent}] /\ staged \in [Names -> Nat]
      /\ previous \in [Names -> Seq(LaunchDocuments)] /\ pub \in PubTypes
  BY DEF Files, FilesType
<1>2. /\ file' \in [Names -> LaunchDocuments \cup {Absent}] /\ staged' \in [Names -> Nat]
      /\ previous' \in [Names -> Seq(LaunchDocuments)]
      /\ file'[m] = x /\ previous'[m] = q
      /\ \A k \in Names \ {m}: file'[k] = file[k] /\ previous'[k] = previous[k]
  BY <1>1
<1>3. FilesType'
  BY <1>1, <1>2 DEF FilesType
<1>4. pub.at = "idle"
  BY DEF NoPublication
<1>5. PubFiles'
  BY <1>4 DEF PubFiles
<1>6. Run \in Names /\ Metrics \in Names /\ Pid \in Names
  BY NameFacts
<1>7. NameFiles'
  <2>1. file'[Run] \in RunDocuments \cup {Absent} /\ previous'[Run] \in Seq(RunDocuments)
    BY <1>2, <1>6 DEF Files, NameFiles
  <2>2. file'[Metrics] \in MetricsDocs \cup {Absent} /\ previous'[Metrics] \in Seq(MetricsDocs)
    BY <1>2, <1>6 DEF Files, NameFiles
  <2>3. file'[Pid] \in PidDocs \cup {Absent} /\ previous'[Pid] = << >>
    BY <1>2, <1>6 DEF Files, NameFiles
  <2> QED BY <2>1, <2>2, <2>3 DEF NameFiles
<1> QED BY <1>2, <1>3, <1>5, <1>7 DEF Files

\* A step of a publication: the generation stays, or becomes the new document.
LEMMA FilesMove ==
    ASSUME Files, PublishStep \/ PublicationFails, Publishable(pub.name, pub.doc),
           pub.name = Pid => pub.at \notin {"aside", "swap", "drop"}
    PROVE  /\ Files' /\ pub.at # "idle" /\ pub'.at # "idle" /\ pub'.name = pub.name /\ pub'.doc = pub.doc
           /\ pub.at \in {"drop", "done"} => pub'.at \in {"done", "failed"}
           /\ PublicationFails => pub'.at = "failed"
           /\ PublishStep => pub.at # "failed" /\ pub'.at # "failed"
           /\ \A k \in Names \ {pub.name}: file'[k] = file[k] /\ previous'[k] = previous[k]
           /\ \/ Generation(pub.name)' = Generation(pub.name)
              \/ /\ pub.at \in {"fresh", "swap"} /\ pub'.at \in {"drop", "done"} /\ PublishStep
                 /\ Generation(pub.name)' = pub.doc
           /\ pub.name = Pid => /\ file'[Pid] = file[Pid] \/ (pub.at = "fresh" /\ file'[Pid] = pub.doc)
                                /\ pub.at = "stage" /\ file[Pid] = Absent => pub'.at \in {"fresh", "failed"}
                                /\ pub.at = "fresh" => pub'.at \in {"done", "failed"}
                                /\ pub.at = "done" => pub'.at = "failed"
<1> DEFINE m == pub.name
<1>1. FilesType /\ PubFiles /\ NameFiles /\ m \in Names /\ pub.doc \in LaunchDocuments
  BY DEF Files, Publishable
<1>2. Run \in Names /\ Metrics \in Names /\ Pid \in Names /\ Run # Metrics /\ Run # Pid /\ Metrics # Pid
  BY NameFacts
<1>3. PublicationFails => pub'.at = "failed" /\ pub.at \in {"stage", "aside", "fresh", "swap", "drop", "done"}
  BY <1>1 DEF PublicationFails, FilesType, PubTypes
<1>4. PublishStep => pub.at \in {"stage", "aside", "fresh", "swap", "drop"} /\ pub'.at # "failed"
  BY <1>1 DEF PublishStep, WriteStaged, SetAside, PublishStaged, DropPrevious, FilesType, PubTypes
<1>5. \A D \in SUBSET LaunchDocuments:
          pub.doc \in D /\ file[m] \in D \cup {Absent} /\ previous[m] \in Seq(D) =>
              /\ FilesType' /\ PubFiles'
              /\ pub.at # "idle" /\ pub'.name = m /\ pub'.doc = pub.doc /\ pub'.at # "idle"
              /\ pub.at \in {"drop", "done"} => pub'.at \in {"done", "failed"}
              /\ file'[m] \in D \cup {Absent} /\ previous'[m] \in Seq(D)
              /\ \A k \in Names \ {m}: file'[k] = file[k] /\ previous'[k] = previous[k]
              /\ \/ Generation(m)' = Generation(m)
                 \/ /\ pub.at \in {"fresh", "swap"} /\ pub'.at \in {"drop", "done"}
                    /\ Generation(m)' = pub.doc
  BY <1>1, FileMoves
<1>6. /\ FilesType' /\ PubFiles'
      /\ pub.at # "idle" /\ pub'.name = m /\ pub'.doc = pub.doc /\ pub'.at # "idle"
      /\ pub.at \in {"drop", "done"} => pub'.at \in {"done", "failed"}
      /\ \A k \in Names \ {m}: file'[k] = file[k] /\ previous'[k] = previous[k]
      /\ \/ Generation(m)' = Generation(m)
         \/ /\ pub.at \in {"fresh", "swap"} /\ pub'.at \in {"drop", "done"}
            /\ Generation(m)' = pub.doc
  <2>1. file[m] \in LaunchDocuments \cup {Absent} /\ previous[m] \in Seq(LaunchDocuments)
    BY <1>1 DEF FilesType
  <2>2. LaunchDocuments \in SUBSET LaunchDocuments
    OBVIOUS
  <2> QED BY <1>1, <1>5, <2>1, <2>2
<1>7. m = Run => file'[Run] \in RunDocuments \cup {Absent} /\ previous'[Run] \in Seq(RunDocuments)
  <2>1. RunDocuments \in SUBSET LaunchDocuments
    BY LaunchFacts
  <2> QED BY <1>1, <1>5, <2>1 DEF NameFiles, Publishable
<1>8. m = Metrics => file'[Metrics] \in MetricsDocs \cup {Absent} /\ previous'[Metrics] \in Seq(MetricsDocs)
  <2>1. MetricsDocs \in SUBSET LaunchDocuments
    BY LaunchFacts
  <2> QED BY <1>1, <1>5, <2>1 DEF NameFiles, Publishable
<1>9. m = Pid => /\ previous'[Pid] = << >> /\ pub.doc \in PidDocs
                 /\ file'[Pid] = file[Pid] \/ (pub.at = "fresh" /\ file'[Pid] = pub.doc)
                 /\ pub.at = "stage" /\ file[Pid] = Absent => pub'.at \in {"fresh", "failed"}
                 /\ pub.at = "fresh" => pub'.at \in {"done", "failed"}
                 /\ pub.at = "done" => pub'.at = "failed"
  <2> SUFFICES ASSUME m = Pid
               PROVE  /\ previous'[Pid] = << >> /\ pub.doc \in PidDocs
                      /\ file'[Pid] = file[Pid] \/ (pub.at = "fresh" /\ file'[Pid] = pub.doc)
                      /\ pub.at = "stage" /\ file[Pid] = Absent => pub'.at \in {"fresh", "failed"}
                      /\ pub.at = "fresh" => pub'.at \in {"done", "failed"}
                      /\ pub.at = "done" => pub'.at = "failed"
    OBVIOUS
  <2>1. pub.at \notin {"aside", "swap", "drop"} /\ pub.doc \in PidDocs /\ pub.name = Pid
    BY DEF Publishable
  <2>2. /\ file \in [Names -> LaunchDocuments \cup {Absent}] /\ pub \in PubTypes /\ previous[Pid] = << >>
    BY <1>1 DEF FilesType, NameFiles
  <2>3. CASE WriteStaged
    BY <2>1, <2>2, <2>3 DEF WriteStaged, PubTypes
  <2>4. CASE PublishStaged
    BY <1>2, <2>1, <2>2, <2>4 DEF PublishStaged, PubTypes
  <2>5. CASE PublicationFails
    BY <1>3, <2>1, <2>2, <2>5 DEF PublicationFails
  <2>6. ~SetAside /\ ~DropPrevious
    BY <2>1 DEF SetAside, DropPrevious
  <2> QED BY <2>3, <2>4, <2>5, <2>6 DEF PublishStep
<1>10. NameFiles'
  <2>1. /\ m # Run => file'[Run] = file[Run] /\ previous'[Run] = previous[Run]
        /\ m # Metrics => file'[Metrics] = file[Metrics] /\ previous'[Metrics] = previous[Metrics]
        /\ m # Pid => file'[Pid] = file[Pid] /\ previous'[Pid] = previous[Pid]
    BY <1>2, <1>6
  <2> HIDE DEF m
  <2> QED BY <1>1, <1>7, <1>8, <1>9, <2>1 DEF NameFiles
<1> QED BY <1>3, <1>4, <1>6, <1>9, <1>10 DEF Files
-----------------------------------------------------------------------------
(* How the parts of the shape follow.                                      *)

Shapes == Files /\ Publisher /\ Present /\ ProcessOK /\ Counted /\ Lengths /\ StoreShape /\ OthersType

LEMMA ShapeIs == Shape <=> Shapes
BY DEF Shape, Shapes, Control

LEMMA RestingIs ==
    /\ NoPublication.at = "idle" /\ NoOp.at = "idle" /\ NoOp.ckpt = Absent
    /\ NoOp \in OpType
BY DEF NoPublication, NoOp, OpType, OpPoints

LEMMA AfterIs ==
    ASSUME NEW s \in 0..Horizon
    PROVE  After(s) \in TrajectoryStates
BY DEF After, TrajectoryStates

\* The changes that are made to the run document in memory.
LEMMA EditsOf ==
    ASSUME NEW d \in RunDocuments, NEW s \in Statuses, NEW k \in 0..Horizon, NEW b \in Builds,
           NEW c \in Checkpoints, NEW m \in 0..Horizon, NEW r \in Rows
    PROVE  /\ LET e == [d EXCEPT !.status = s] IN
                  /\ e \in RunDocuments /\ e.last = d.last /\ e.count = d.count
                  /\ e.process = d.process /\ e.recovered = d.recovered /\ e.metrics = d.metrics
                  /\ e.status = s
           /\ LET e == [d EXCEPT !.status = s, !.process = b] IN
                  /\ e \in RunDocuments /\ e.last = d.last /\ e.count = d.count
                  /\ e.process = b /\ e.recovered = d.recovered /\ e.metrics = d.metrics
                  /\ e.status = s
           /\ LET e == [d EXCEPT !.status = s, !.completed = k] IN
                  /\ e \in RunDocuments /\ e.last = d.last /\ e.count = d.count
                  /\ e.process = d.process /\ e.recovered = d.recovered /\ e.metrics = d.metrics
                  /\ e.status = s
           /\ LET e == [d EXCEPT !.status = s, !.completed = k, !.metrics = r] IN
                  /\ e \in RunDocuments /\ e.last = d.last /\ e.count = d.count
                  /\ e.process = d.process /\ e.recovered = d.recovered /\ e.metrics = r
                  /\ e.status = s
           /\ LET e == [d EXCEPT !.last = c, !.count = m] IN
                  /\ e \in RunDocuments /\ e.last = c /\ e.count = m
                  /\ e.process = d.process /\ e.recovered = d.recovered /\ e.metrics = d.metrics
                  /\ e.status = d.status
           /\ LET e == [d EXCEPT !.completed = k, !.last = c, !.count = m] IN
                  /\ e \in RunDocuments /\ e.last = c /\ e.count = m
                  /\ e.process = d.process /\ e.recovered = d.recovered /\ e.metrics = d.metrics
                  /\ e.status = d.status
           /\ LET e == [d EXCEPT !.recovered = @ \cup {b}] IN
                  /\ e \in RunDocuments /\ e.last = d.last /\ e.count = d.count
                  /\ e.process = d.process /\ e.recovered = d.recovered \cup {b}
                  /\ e.metrics = d.metrics /\ e.status = d.status
BY DEF RunDocuments

LEMMA NewRunIs ==
    ASSUME NEW b \in Builds
    PROVE  /\ NewRun(b) \in RunDocuments /\ NewRun(b).last = Absent /\ NewRun(b).count = 0
           /\ NewRun(b).status = "running" /\ NewRun(b).process = b /\ NewRun(b).metrics = Absent
           /\ NewRun(b).recovered = {} /\ NewRun(b).completed = 0
BY HorizonIs DEF NewRun, RunDocuments, Statuses

\* A publication writes what its reader expects.
LEMMA PublishableIs ==
    ASSUME Shape, pub.at # "idle"
    PROVE  /\ Publishable(pub.name, pub.doc)
           /\ pub.name = Run <=> pc \in PersistPoints \cup {"commit"}
           /\ pub.name = Metrics <=> pc = "prefix"
           /\ pub.name = Pid <=> pc = "identify"
           /\ pub.name = Latest <=> pc \in {"load", "saving"}
           /\ pc \in PersistPoints \cup WritingPoints
           /\ pub.name = Pid => pub.at \notin {"aside", "swap", "drop"} /\ pub.doc = PidOf(build)
           /\ pc = "commit" => /\ pub.doc = NewDocument /\ pub.doc.last = [step |-> n, build |-> build]
                               /\ pub.doc.process = mem.process /\ pub.doc.recovered = mem.recovered
                               /\ pub.doc.metrics = mem.metrics /\ pub.doc.status = mem.status
                               /\ pub.doc.last \in Checkpoints /\ pub.doc.count <= n
           /\ pc \in PersistPoints => pub.doc = mem
<1>1. Shapes /\ pub.name \in Names /\ pub.doc \in LaunchDocuments
  BY ShapeIs DEF Shapes, Files, PubFiles
<1>2. pc \in PersistPoints \cup WritingPoints
  BY <1>1, RestingIs DEF Shapes, Publisher
<1>3. /\ pc \in PersistPoints => pub.name = Run /\ pub.doc = mem /\ mem \in RunDocuments
      /\ pc = "log" => pub.name = Log
      /\ pc = "budget" => pub.name = Budget
      /\ pc \in {"load", "saving"} => pub.name = Latest
      /\ pc = "identify" => pub.name = Pid /\ pub.doc = PidOf(build) /\ build \in Builds
                            /\ pub.at \notin {"aside", "swap", "drop"}
      /\ pc = "prefix" => pub.name = Metrics /\ pub.doc \in MetricsDocs
      /\ pc = "commit" => pub.name = Run /\ pub.doc = NewDocument
  BY <1>1 DEF Shapes, Publisher, ProcessOK, PersistPoints
<1>4. pc = "commit" => /\ pub.doc.last = [step |-> n, build |-> build]
                       /\ pub.doc.process = mem.process /\ pub.doc.recovered = mem.recovered
                       /\ pub.doc.metrics = mem.metrics /\ pub.doc.status = mem.status
                       /\ pub.doc.last \in Checkpoints /\ pub.doc.count <= n /\ pub.doc \in RunDocuments
  <2> SUFFICES ASSUME pc = "commit"
               PROVE  /\ pub.doc.last = [step |-> n, build |-> build]
                      /\ pub.doc.process = mem.process /\ pub.doc.recovered = mem.recovered
                      /\ pub.doc.metrics = mem.metrics /\ pub.doc.status = mem.status
                      /\ pub.doc.last \in Checkpoints /\ pub.doc.count <= n /\ pub.doc \in RunDocuments
    OBVIOUS
  <2>1. /\ mem \in RunDocuments /\ n \in 0..Horizon /\ build \in Builds /\ mem # Absent
    BY <1>1, LaunchFacts DEF Shapes, ProcessOK
  <2>2. /\ n > 0 /\ (mem.last # Absent => mem.last.step < n)
        /\ mem.last = Absent => mem.count = 0
        /\ mem.last # Absent => mem.count <= mem.last.step
    BY <1>1, <2>1 DEF Shapes, Counted
  <2>3. mem.last \in Checkpoints \cup {Absent} /\ mem.count \in 0..Horizon /\ mem.status \in Statuses
    BY <2>1, RunDocumentFacts
  <2>4. mem.count + 1 \in 0..Horizon /\ mem.count + 1 <= n /\ n \in 1..Horizon
    BY <2>1, <2>2, <2>3, CheckpointFacts, HorizonIs
  <2>5. [step |-> n, build |-> build] \in Checkpoints
    BY <2>1, <2>4 DEF Checkpoints, Steps
  <2>6. NewDocument = [mem EXCEPT !.completed = n, !.last = [step |-> n, build |-> build],
                                  !.count = mem.count + 1]
    BY <2>1 DEF NewDocument, RunDocuments
  <2> QED BY <1>3, <2>1, <2>4, <2>5, <2>6 DEF RunDocuments
<1>5. /\ Run \notin {Pid, Metrics, Log, Budget, Latest} /\ Pid \notin {Run, Metrics, Log, Budget, Latest}
      /\ Metrics \notin {Run, Pid, Log, Budget, Latest} /\ Latest \notin {Run, Pid, Metrics, Log, Budget}
  BY NameFacts
<1>6. /\ pub.name = Run <=> pc \in PersistPoints \cup {"commit"}
      /\ pub.name = Metrics <=> pc = "prefix"
      /\ pub.name = Pid <=> pc = "identify"
      /\ pub.name = Latest <=> pc \in {"load", "saving"}
  BY <1>2, <1>3, <1>5 DEF PersistPoints, WritingPoints
<1>7. Publishable(pub.name, pub.doc)
  BY <1>1, <1>3, <1>4, <1>6 DEF Publishable, PersistPoints, PidDocs, PidOf
<1> QED BY <1>2, <1>3, <1>4, <1>6, <1>7
-----------------------------------------------------------------------------
(* A process ends.                                                         *)

Ends ==
    /\ pc # "down"
    /\ Down
    /\ hidden' \in SUBSET hidden
    /\ UNCHANGED <<diskVars, dirs, build, pids, tails, moved, exportVars>>

LEMMA EndsShape ==
    ASSUME Shape, Ends
    PROVE  Shape' /\ SameView /\ Recorded' = Recorded /\ Ended' = Ended
<1>1. Shapes
  BY ShapeIs
<1>2. /\ UNCHANGED <<file, staged, previous, dirs, build, pids, tails, moved, adapter, metadata, export>>
      /\ pc' = "down" /\ mem' = Absent /\ n' = 0 /\ net' = After(0) /\ bound' = TRUE /\ op' = NoOp
      /\ pub' = NoPublication /\ hidden' \in SUBSET hidden
  BY DEF Ends, Down, diskVars, exportVars
<1>3. Files' /\ pub'.at = "idle"
  BY <1>1, <1>2, FilesEnd DEF Shapes
<1>4. SameView /\ Recorded' = Recorded /\ Ended' = Ended
  BY <1>2, SameDisk
<1>5. Publisher'
  BY <1>2, <1>3, RestingIs DEF Publisher, PersistPoints, WritingPoints
<1>6. Present' /\ Counted' /\ Lengths'
  BY <1>2 DEF Present, Counted, Lengths, Early, Resuming, Counting, ExportPoints
<1>7. ProcessOK'
  BY <1>1, <1>2, HorizonIs DEF Shapes, ProcessOK, Points
<1>8. StoreShape'
  BY <1>1, <1>2, RestingIs DEF Shapes, StoreShape
<1>9. OthersType'
  BY <1>1, <1>2 DEF Shapes, OthersType
<1>10. Shapes'
  BY <1>3, <1>5, <1>6, <1>7, <1>8, <1>9 DEF Shapes
<1>11. Shape'
  BY <1>10, ShapeIs, PTL
<1> QED BY <1>4, <1>11
-----------------------------------------------------------------------------
(* Steps that leave the files, the publication and the checkpoints.        *)

LEMMA Rests ==
    ASSUME Shape, UNCHANGED storeVars, pc \notin PersistPoints \cup WritingPoints,
           pc' \notin {"saving", "commit"}
    PROVE  /\ Files' /\ Publisher' /\ StoreShape'
           /\ SameView /\ Recorded' = Recorded /\ Ended' = Ended
           /\ Missing(Metrics)' = Missing(Metrics) /\ Missing(Run)' = Missing(Run)
           /\ UNCHANGED <<file, staged, previous, pub, dirs, op>>
           /\ pub = NoPublication /\ pub.at = "idle" /\ op = NoOp
<1>1. Shapes
  BY ShapeIs
<1>2. UNCHANGED <<file, staged, previous, pub, dirs, op>>
  BY DEF storeVars, fileVars
<1>3. Files'
  BY <1>1, <1>2, FilesStay DEF Shapes
<1>4. pub = NoPublication /\ op = NoOp /\ pub.at = "idle" /\ op.at = "idle"
  BY <1>1, RestingIs DEF Shapes, Publisher, StoreShape, WritingPoints
<1>5. Publisher'
  BY <1>2, <1>4 DEF Publisher
<1>6. StoreShape'
  BY <1>1, <1>2, <1>4 DEF Shapes, StoreShape
<1> QED BY <1>2, <1>3, <1>4, <1>5, <1>6, SameDisk

\* The export's steps before its last document.
Exports ==
    \/ ReuseAdapter /\ pc' # "down"
    \/ StageAdapter \/ PublishAdapter \/ PublishMetadata \/ CleanAdapterStage \/ CopySources
    \/ StageExport /\ pc' # "down"
    \/ PublishExport
    \/ CloseSources

LEMMA ExportsAre ==
    ASSUME Shape, Exports
    PROVE  /\ UNCHANGED storeVars /\ UNCHANGED <<n, net, bound, build, pids, tails, moved>>
           /\ pc \in ExportPoints \ {"exporting", "final"}
           /\ pc' \in ExportPoints \ {"exporting", "adapter"}
           /\ \/ pc' # "final" /\ mem' = mem
              \/ pc = "close" /\ pc' = "final" /\ mem' = [mem EXCEPT !.status = "trained_and_exported"]
<1>1. CASE ReuseAdapter /\ pc' # "down"
  BY <1>1 DEF ReuseAdapter, Refuse, Down, Goes, memoryVars, recoveryVars, ExportPoints
<1>2. CASE StageAdapter \/ PublishAdapter \/ PublishMetadata \/ CleanAdapterStage
  BY <1>2 DEF StageAdapter, PublishAdapter, PublishMetadata, CleanAdapterStage, Goes, memoryVars,
     recoveryVars, ExportPoints
<1>3. CASE CopySources
  BY <1>3 DEF CopySources, Goes, memoryVars, recoveryVars, ExportPoints
<1>4. CASE StageExport /\ pc' # "down"
  BY <1>4 DEF StageExport, Refuse, Down, Goes, memoryVars, recoveryVars, ExportPoints
<1>5. CASE PublishExport
  BY <1>5 DEF PublishExport, Goes, memoryVars, recoveryVars, ExportPoints
<1>6. CASE CloseSources
  BY <1>6 DEF CloseSources, Goes, memoryVars, recoveryVars, ExportPoints
<1> QED BY <1>1, <1>2, <1>3, <1>4, <1>5, <1>6 DEF Exports

LEMMA ExportsShape ==
    ASSUME Shape, Exports
    PROVE  Shape' /\ SameView /\ Recorded' = Recorded /\ Ended' = Ended
<1>1. Shapes
  BY ShapeIs
<1>2. /\ UNCHANGED storeVars /\ UNCHANGED <<n, net, bound, build, pids, tails, moved>>
      /\ pc \in ExportPoints \ {"exporting", "final"}
      /\ pc' \in ExportPoints \ {"exporting", "adapter"}
      /\ \/ pc' # "final" /\ mem' = mem
         \/ pc = "close" /\ pc' = "final" /\ mem' = [mem EXCEPT !.status = "trained_and_exported"]
  BY ExportsAre
<1>3. /\ pc \notin PersistPoints \cup WritingPoints /\ pc' \notin {"saving", "commit"} /\ pc' # "down"
  BY <1>2 DEF ExportPoints, PersistPoints, WritingPoints
<1>4. /\ Files' /\ Publisher' /\ StoreShape' /\ SameView /\ Recorded' = Recorded /\ Ended' = Ended
      /\ Missing(Metrics)' = Missing(Metrics) /\ UNCHANGED <<file, pub>> /\ pub.at = "idle"
  BY <1>2, <1>3, Rests
<1>5. mem \in RunDocuments /\ n \in 0..Horizon /\ net = After(n) /\ bound \in BOOLEAN
  BY <1>1, <1>2 DEF Shapes, ProcessOK, ExportPoints
<1>6. mem' \in RunDocuments /\ mem'.last = mem.last /\ mem'.count = mem.count /\ mem' # Absent /\ mem # Absent
  BY <1>2, <1>5, LaunchFacts DEF RunDocuments, Statuses
<1>7. Present'
  BY <1>1, <1>2, <1>4 DEF Shapes, Present, ExportPoints, Early, Resuming
<1>8. ProcessOK'
  BY <1>1, <1>2, <1>4, <1>5, <1>6 DEF Shapes, ProcessOK, ExportPoints, BeforeLoad, Early, Points
<1>9. Counted'
  BY <1>1, <1>2, <1>5, <1>6 DEF Shapes, Counted, ExportPoints
<1>10. Lengths'
  BY <1>1, <1>2, <1>4 DEF Shapes, Lengths, ExportPoints, Counting
<1>11. /\ hidden' \subseteq HiddenDirs /\ adapter' \in {adapter, net}
       /\ metadata' \in BOOLEAN /\ export' \in {export, net}
  BY <1>1, <1>3 DEF Shapes, OthersType, Exports, ReuseAdapter, Refuse, Down, StageAdapter, PublishAdapter, PublishMetadata,
     CleanAdapterStage, CopySources, StageExport, PublishExport, CloseSources, exportVars, recoveryVars,
     HiddenDirs
<1>12. OthersType'
  BY <1>1, <1>2, <1>5, <1>11, AfterIs DEF Shapes, OthersType
<1>13. Shapes'
  BY <1>4, <1>7, <1>8, <1>9, <1>10, <1>12 DEF Shapes
<1>14. Shape'
  BY <1>13, ShapeIs, PTL
<1> QED BY <1>4, <1>14

\* The start-up's steps that only move on.
Moves ==
    \/ Prestarted /\ pc' # "down"
    \/ PidMatched /\ pc' # "down"
    \/ Swept
    \/ Replayed /\ pc' # "down"

LEMMA MovesAre ==
    ASSUME Moves, UNCHANGED exportVars
    PROVE  /\ UNCHANGED <<storeVars, memoryVars, build, recoveryVars, exportVars>>
           /\ \/ pc = "prestart" /\ pc' = "budget" /\ file[Budget] = Absent /\ dirs = {}
              \/ pc = "prestart" /\ pc' = "identify" /\ file[Pid] = Absent /\ dirs = {}
                 /\ file[Metrics] = Absent /\ ~Leftovers(Metrics)
              \/ pc = "pid" /\ pc' = "sweep" /\ ~PidUnmatched
              \/ pc = "sweep" /\ pc' = "replay"
              \/ /\ pc = "replay" /\ pc' = "load"
                 /\ ZeroStep => Unrecognized
                 /\ ~ZeroStep => ~Unrecognized /\ \A e \in dirs: ~Movable(e)
              \/ /\ pc = "replay" /\ pc' = "rotate" /\ ZeroStep
                 /\ ~Unrecognized /\ \A e \in dirs: ~Movable(e)
<1>1. CASE Prestarted /\ pc' # "down"
  BY <1>1 DEF Prestarted, Refuse, Down, Goes, Prestart, PrestartLeft, PrestartRefused
<1>2. CASE PidMatched /\ pc' # "down"
  BY <1>2 DEF PidMatched, Refuse, Down, Goes
<1>3. CASE Swept
  BY <1>3 DEF Swept, Goes
<1>4. CASE Replayed /\ pc' # "down"
  BY <1>4 DEF Replayed, Refuse, Down, Goes
<1> QED BY <1>1, <1>2, <1>3, <1>4 DEF Moves

LEMMA MovesShape ==
    ASSUME Shape, Moves, UNCHANGED exportVars
    PROVE  Shape' /\ SameView /\ Recorded' = Recorded /\ Ended' = Ended
<1>1. Shapes
  BY ShapeIs
<1>2. /\ UNCHANGED storeVars
      /\ UNCHANGED <<mem, n, net, bound, build, pids, tails, moved, hidden, adapter, metadata, export>>
      /\ \/ pc = "prestart" /\ pc' = "budget"
         \/ pc = "prestart" /\ pc' = "identify"
         \/ pc = "pid" /\ pc' = "sweep"
         \/ pc = "sweep" /\ pc' = "replay"
         \/ pc = "replay" /\ pc' = "load"
         \/ pc = "replay" /\ pc' = "rotate" /\ ZeroStep
  BY MovesAre DEF memoryVars, recoveryVars, exportVars
<1>3. pc \notin PersistPoints \cup WritingPoints /\ pc' \notin {"saving", "commit"}
  BY <1>2 DEF PersistPoints, WritingPoints
<1>4. /\ Files' /\ Publisher' /\ StoreShape' /\ SameView /\ Recorded' = Recorded /\ Ended' = Ended
      /\ Missing(Metrics)' = Missing(Metrics) /\ UNCHANGED <<file, pub>> /\ pub.at = "idle"
  BY <1>2, <1>3, Rests
<1>5. Document' = Document
  BY <1>4 DEF SameView
<1>6. mem \in RunDocuments /\ mem # Absent /\ n = 0
  BY <1>1, <1>2, LaunchFacts DEF Shapes, ProcessOK, BeforeLoad, Early
<1>7. Present'
  BY <1>1, <1>2, <1>4, <1>5 DEF Shapes, Present, Early, Resuming
<1>8. ProcessOK'
  BY <1>1, <1>2, <1>4, <1>6 DEF Shapes, ProcessOK, BeforeLoad, Early, Points, StartPoints
<1>9. Counted'
  BY <1>1, <1>2, <1>6 DEF Shapes, Counted, ZeroStep
<1>10. Lengths'
  <2>1. file[Metrics] # Absent => Len(file[Metrics].rows) \in Nat
    BY <1>1, MetricsDocsAre, RowsAre, LenProperties DEF Shapes, Files, NameFiles
  <2> QED BY <1>2, <1>4, <1>6, <2>1 DEF Lengths, ExportPoints, Counting
<1>11. OthersType'
  BY <1>1, <1>2 DEF Shapes, OthersType
<1>12. Shapes'
  BY <1>4, <1>7, <1>8, <1>9, <1>10, <1>11 DEF Shapes
<1>13. Shape'
  BY <1>12, ShapeIs, PTL
<1> QED BY <1>4, <1>13

LEMMA StartShape ==
    ASSUME Shape, Start, UNCHANGED exportVars
    PROVE  Shape' /\ SameView /\ Recorded' = Recorded /\ Ended' = Ended
<1>1. Shapes
  BY ShapeIs
<1>2. /\ UNCHANGED storeVars /\ UNCHANGED <<mem, n, net, bound, pids, tails, moved, hidden, adapter, metadata, export>>
      /\ pc = "down" /\ pc' = "restore" /\ build + 1 \in Builds /\ build' = build + 1
  BY DEF Start, memoryVars, recoveryVars, exportVars
<1>3. pc \notin PersistPoints \cup WritingPoints /\ pc' \notin {"saving", "commit"}
  BY <1>2 DEF PersistPoints, WritingPoints
<1>4. Files' /\ Publisher' /\ StoreShape' /\ SameView /\ Recorded' = Recorded /\ Ended' = Ended
      /\ UNCHANGED <<file, pub>>
  BY <1>2, <1>3, Rests
<1>5. mem = Absent
  BY <1>1, <1>2 DEF Shapes, ProcessOK
<1>6. Present' /\ Counted' /\ Lengths'
  BY <1>2, <1>5 DEF Present, Counted, Lengths, Early, Resuming, ExportPoints, Counting
<1>7. ProcessOK'
  BY <1>1, <1>2, <1>4 DEF Shapes, ProcessOK, BeforeLoad, Early, Points, StartPoints
<1>8. OthersType'
  BY <1>1, <1>2 DEF Shapes, OthersType
<1>9. Shapes'
  BY <1>4, <1>6, <1>7, <1>8 DEF Shapes
<1>10. Shape'
  BY <1>9, ShapeIs, PTL
<1> QED BY <1>4, <1>10

LEMMA ResumeShape ==
    ASSUME Shape, Resume, pc' # "down", UNCHANGED exportVars
    PROVE  Shape' /\ SameView /\ Recorded' = Recorded /\ Ended' = Ended
<1>1. Shapes
  BY ShapeIs
<1>2. /\ UNCHANGED storeVars /\ UNCHANGED <<build, n, net, bound, pids, tails, moved, hidden, adapter, metadata, export>>
      /\ pc = "restore" /\ pc' = "pid" /\ Restored /\ file[Run] # Absent /\ Continuable(file[Run])
      /\ mem' = file[Run]
  BY DEF Resume, Restored, Refuse, Down, recoveryVars, exportVars
<1>3. pc \notin PersistPoints \cup WritingPoints /\ pc' \notin {"saving", "commit"}
  BY <1>2 DEF PersistPoints, WritingPoints
<1>4. /\ Files' /\ Publisher' /\ StoreShape' /\ SameView /\ Recorded' = Recorded /\ Ended' = Ended
      /\ Missing(Metrics)' = Missing(Metrics) /\ UNCHANGED <<file, pub>> /\ pub.at = "idle"
  BY <1>2, <1>3, Rests
<1>5. ~Missing(Metrics)
  BY <1>2 DEF Restored, OutputNames
<1>6. file[Run] \in RunDocuments
  BY <1>1, <1>2 DEF Shapes, Files, NameFiles
<1>7. Present'
  BY <1>2, <1>4, <1>5 DEF Present, Early, Continuable
<1>8. ProcessOK'
  BY <1>1, <1>2, <1>4, <1>6 DEF Shapes, ProcessOK, BeforeLoad, Early, Points, StartPoints
<1>9. /\ mem'.last = Absent => mem'.count = 0
      /\ mem'.last # Absent => mem'.count <= mem'.last.step
  <2>1. mem'.last = Absent => mem'.count = 0
    BY <1>2 DEF Continuable
  <2>2. mem'.last # Absent => mem'.last \in Checkpoints
                              /\ mem'.count = Cardinality({s \in 1..mem'.last.step: OnCadence(s)})
    BY <1>2, <1>6 DEF Continuable, RunDocuments
  <2>3. ASSUME mem'.last # Absent PROVE mem'.count <= mem'.last.step
    <3>1. mem'.last.step \in 0..Horizon
      BY <2>2, <2>3, CheckpointFacts, HorizonIs
    <3> QED BY <2>2, <2>3, <3>1, CadenceCount
  <2> QED BY <2>1, <2>3
<1>10. Counted' /\ Lengths'
  BY <1>2, <1>9 DEF Counted, Lengths, ExportPoints, Counting
<1>11. OthersType'
  BY <1>1, <1>2 DEF Shapes, OthersType
<1>12. Shapes'
  BY <1>4, <1>7, <1>8, <1>10, <1>11 DEF Shapes
<1>13. Shape'
  BY <1>12, ShapeIs, PTL
<1> QED BY <1>4, <1>13

LEMMA CopyMetricsShape ==
    ASSUME Shape, CopyMetrics
    PROVE  Shape' /\ SameView /\ Recorded' = Recorded /\ Ended' = Ended
<1>1. Shapes
  BY ShapeIs
<1>2. /\ UNCHANGED storeVars /\ UNCHANGED <<build, mem, n, net, bound, pids, moved, hidden, adapter, metadata, export>>
      /\ pc = "metrics" /\ pc' = "prefix" /\ file[Metrics] # Absent
      /\ tails' = tails \cup {file[Metrics].rows}
  BY DEF CopyMetrics, Goes, memoryVars, exportVars
<1>3. pc \notin PersistPoints \cup WritingPoints /\ pc' \notin {"saving", "commit"}
  BY <1>2 DEF PersistPoints, WritingPoints
<1>4. /\ Files' /\ Publisher' /\ StoreShape' /\ SameView /\ Recorded' = Recorded /\ Ended' = Ended
      /\ Missing(Metrics)' = Missing(Metrics) /\ UNCHANGED <<file, pub>> /\ pub.at = "idle"
  BY <1>2, <1>3, Rests
<1>5. file[Metrics].rows \in Rows
  BY <1>1, <1>2, MetricsDocsAre DEF Shapes, Files, NameFiles
<1>6. Present' /\ Lengths'
  BY <1>1, <1>2, <1>4 DEF Shapes, Present, Lengths, Early, Resuming, ExportPoints, Counting
<1>7. ProcessOK' /\ Counted'
  BY <1>1, <1>2, <1>4 DEF Shapes, ProcessOK, Counted, BeforeLoad, Early, Points, LoopPoints
<1>8. OthersType'
  <2>1. tails' \subseteq Rows
    BY <1>1, <1>2, <1>5 DEF Shapes, OthersType
  <2> QED BY <1>1, <1>2, <2>1 DEF Shapes, OthersType
<1>9. Shapes'
  BY <1>4, <1>6, <1>7, <1>8 DEF Shapes
<1>10. Shape'
  BY <1>9, ShapeIs, PTL
<1> QED BY <1>4, <1>10

LEMMA UpdateShape ==
    ASSUME Shape, Update
    PROVE  Shape' /\ SameView /\ Recorded' = Recorded /\ Ended' = Ended
<1>1. Shapes
  BY ShapeIs
<1>2. /\ UNCHANGED storeVars
      /\ UNCHANGED <<build, mem, bound, pids, tails, moved, hidden, adapter, metadata, export>>
      /\ pc = "loop" /\ pc' = "append" /\ n < Horizon /\ n' = n + 1
      /\ net' = [part \in DOMAIN net |-> net[part] + 1]
  BY DEF Update, recoveryVars, exportVars
<1>3. pc \notin PersistPoints \cup WritingPoints /\ pc' \notin {"saving", "commit"}
  BY <1>2 DEF PersistPoints, WritingPoints
<1>4. /\ Files' /\ Publisher' /\ StoreShape' /\ SameView /\ Recorded' = Recorded /\ Ended' = Ended
      /\ Missing(Metrics)' = Missing(Metrics) /\ UNCHANGED <<file, pub>> /\ pub.at = "idle"
  BY <1>2, <1>3, Rests
<1>5. /\ n \in 0..Horizon /\ n \in Nat /\ n' \in 0..Horizon /\ n' > 0 /\ net = After(n)
      /\ mem \in RunDocuments /\ mem # Absent
  BY <1>1, <1>2, HorizonIs, LaunchFacts DEF Shapes, ProcessOK
<1>6. net' = After(n')
  BY <1>2, <1>5 DEF After
<1>7. Present'
  BY <1>1, <1>2, <1>4 DEF Shapes, Present, Early, Resuming
<1>8. Lengths'
  BY <1>1, <1>2, <1>4 DEF Shapes, Lengths, ExportPoints, Counting
<1>9. ProcessOK'
  BY <1>1, <1>2, <1>4, <1>5, <1>6 DEF Shapes, ProcessOK, BeforeLoad, Early, Points, LoopPoints
<1>10. Counted'
  <2>1. mem.last # Absent => mem.last.step <= n /\ mem.last.step \in Nat
    BY <1>1, <1>2, <1>5, RunDocumentFacts, CheckpointFacts DEF Shapes, Counted
  <2>2. mem.last # Absent => mem.last.step < n' /\ mem.last.step <= n'
    BY <1>2, <1>5, <2>1
  <2> QED BY <1>1, <1>2, <1>5, <2>2 DEF Shapes, Counted
<1>11. OthersType'
  BY <1>1, <1>2 DEF Shapes, OthersType
<1>12. Shapes'
  BY <1>4, <1>7, <1>8, <1>9, <1>10, <1>11 DEF Shapes
<1>13. Shape'
  BY <1>12, ShapeIs, PTL
<1> QED BY <1>4, <1>13

LEMMA BeginExportShape ==
    ASSUME Shape, BeginExport
    PROVE  Shape' /\ SameView /\ Recorded' = Recorded /\ Ended' = Ended
<1>1. Shapes
  BY ShapeIs
<1>2. /\ UNCHANGED storeVars
      /\ UNCHANGED <<build, n, net, bound, pids, tails, moved, hidden, adapter, metadata, export>>
      /\ pc = "loop" /\ pc' = "exporting" /\ n = Horizon
      /\ mem' = [mem EXCEPT !.status = "exporting", !.completed = Horizon, !.metrics = file[Metrics].rows]
  BY DEF BeginExport, recoveryVars, exportVars
<1>3. pc \notin PersistPoints \cup WritingPoints /\ pc' \notin {"saving", "commit"}
  BY <1>2 DEF PersistPoints, WritingPoints
<1>4. /\ Files' /\ Publisher' /\ StoreShape' /\ SameView /\ Recorded' = Recorded /\ Ended' = Ended
      /\ Missing(Metrics)' = Missing(Metrics) /\ UNCHANGED <<file, pub>> /\ pub.at = "idle"
  BY <1>2, <1>3, Rests
<1>5. file[Metrics].rows \in Rows
  BY <1>1, <1>2, MetricsDocsAre DEF Shapes, Files, NameFiles, Lengths, Counting
<1>6. mem \in RunDocuments /\ mem # Absent
  BY <1>1, <1>2, LaunchFacts DEF Shapes, ProcessOK
<1>7. mem' \in RunDocuments /\ mem'.last = mem.last /\ mem'.count = mem.count
  <2> DEFINE r == file[Metrics].rows
  <2>1. r \in Rows /\ Horizon \in 0..Horizon /\ "exporting" \in Statuses
    BY <1>5, HorizonIs DEF Statuses
  <2>2. mem' = [mem EXCEPT !.status = "exporting", !.completed = Horizon, !.metrics = r]
    BY <1>2
  <2> HIDE DEF r
  <2> QED BY <1>6, <2>1, <2>2 DEF RunDocuments
<1>8. Present'
  BY <1>1, <1>2, <1>4 DEF Shapes, Present, Early, Resuming
<1>9. Lengths'
  BY <1>1, <1>2, <1>4 DEF Shapes, Lengths, ExportPoints, Counting
<1>10. ProcessOK' /\ Counted'
  BY <1>1, <1>2, <1>4, <1>6, <1>7 DEF Shapes, ProcessOK, Counted, BeforeLoad, Early, Points, ExportPoints
<1>11. OthersType'
  BY <1>1, <1>2 DEF Shapes, OthersType
<1>12. Shapes'
  BY <1>4, <1>8, <1>9, <1>10, <1>11 DEF Shapes
<1>13. Shape'
  BY <1>12, ShapeIs, PTL
<1> QED BY <1>4, <1>13
-----------------------------------------------------------------------------
(* A process takes over the files.                                         *)

LEMMA RestoreMissingShape ==
    ASSUME Shape, NEW name \in OutputNames, RestoreMissing(name), UNCHANGED exportVars
    PROVE  Shape' /\ SameView /\ Recorded' = Recorded /\ Ended' = Ended
<1>1. Shapes
  BY ShapeIs
<1>2. /\ UNCHANGED <<staged, pub, dirs, op, pc, build, mem, n, net, bound, pids, tails, moved, hidden,
                     adapter, metadata, export>>
      /\ pc = "restore" /\ file[name] = Absent /\ previous[name] # << >> /\ Len(previous[name]) = 1
      /\ file' = [file EXCEPT ![name] = previous[name][1]]
      /\ previous' = [previous EXCEPT ![name] = << >>]
  BY DEF RestoreMissing, Missing, memoryVars, recoveryVars, exportVars
<1>3. pub = NoPublication /\ op = NoOp
  BY <1>1, <1>2 DEF Shapes, Publisher, StoreShape, PersistPoints, WritingPoints
<1>4. /\ name \in Names /\ previous[name] \in Seq(LaunchDocuments) /\ previous[name][1] \in LaunchDocuments
      /\ name = Run => previous[name][1] \in RunDocuments
      /\ name = Metrics => previous[name][1] \in MetricsDocs
      /\ name # Pid
      /\ LastOfAll(previous[name]) = previous[name][1]
  <2>1. name \in Names
    BY NameFacts DEF OutputNames
  <2>2. previous[name] \in Seq(LaunchDocuments)
    BY <1>1, <2>1 DEF Shapes, Files, FilesType
  <2>3. LastOfAll(previous[name]) = previous[name][1]
    BY <1>2 DEF LastOfAll
  <2>4. LastOfAll(previous[name]) \in LaunchDocuments
    BY <1>2, <2>2, Generations
  <2>5. name = Run => LastOfAll(previous[name]) \in RunDocuments
    BY <1>1, <1>2, Generations DEF Shapes, Files, NameFiles
  <2>6. name = Metrics => LastOfAll(previous[name]) \in MetricsDocs
    BY <1>1, <1>2, Generations DEF Shapes, Files, NameFiles
  <2>7. name # Pid
    BY <1>1, <1>2 DEF Shapes, Files, NameFiles
  <2> QED BY <2>1, <2>2, <2>3, <2>4, <2>5, <2>6, <2>7
<1> DEFINE x == previous[name][1]
<1>5. /\ staged' = [staged EXCEPT ![name] = staged[name]] /\ staged[name] \in Nat
      /\ << >> \in Seq(LaunchDocuments) /\ << >> \in Seq(RunDocuments) /\ << >> \in Seq(MetricsDocs)
  BY <1>1, <1>2, <1>4 DEF Shapes, Files, FilesType
<1>6. /\ x \in LaunchDocuments \cup {Absent} /\ file' = [file EXCEPT ![name] = x] /\ Files
      /\ name = Run => x \in RunDocuments \cup {Absent}
      /\ name = Metrics => x \in MetricsDocs \cup {Absent}
  BY <1>1, <1>2, <1>4 DEF Shapes
<1>7. /\ Files' /\ file'[name] = x /\ previous'[name] = << >>
      /\ \A k \in Names \ {name}: file'[k] = file[k] /\ previous'[k] = previous[k]
  <2>1. PICK y \in LaunchDocuments: y = x
    BY <1>4
  <2>2. PICK s \in Nat: s = staged[name]
    BY <1>5
  <2>3. PICK q \in Seq(LaunchDocuments): q = << >> /\ q \in Seq(RunDocuments) /\ q \in Seq(MetricsDocs)
    BY <1>5
  <2>4. /\ name = Run => y \in RunDocuments \cup {Absent} /\ q \in Seq(RunDocuments)
        /\ name = Metrics => y \in MetricsDocs \cup {Absent} /\ q \in Seq(MetricsDocs)
        /\ name = Pid => y \in PidDocs \cup {Absent} /\ q = << >>
        /\ y \in LaunchDocuments \cup {Absent}
    <3>1. (name = Run => x \in RunDocuments) /\ (name = Metrics => x \in MetricsDocs) /\ name # Pid
      BY <1>4
    <3> HIDE DEF x
    <3> QED BY <2>1, <2>3, <3>1
  <2>7. Files /\ pub = NoPublication /\ name \in Names
    BY <1>1, <1>3, <1>4 DEF Shapes
  <2>8. UNCHANGED pub
    BY <1>2
  <2>5. /\ file' = [file EXCEPT ![name] = y] /\ staged' = [staged EXCEPT ![name] = s]
        /\ previous' = [previous EXCEPT ![name] = q]
    BY <1>2, <1>5, <2>1, <2>2, <2>3
  <2>6. /\ Files' /\ file'[name] = y /\ previous'[name] = q
        /\ \A k \in Names \ {name}: file'[k] = file[k] /\ previous'[k] = previous[k]
    BY <2>4, <2>5, <2>7, <2>8, FilesSet
  <2> QED BY <2>1, <2>3, <2>6
<1>8. Generation(name)' = Generation(name)
  <2>1. GenerationsAre
    BY GenerationIs
  <2>2. GenerationsAre'
    BY GenerationIs, PTL
  <2> QED BY <1>2, <1>4, <1>7, <2>1, <2>2, LaunchFacts DEF GenerationsAre
<1>9. /\ SameView /\ Recorded' = Recorded /\ Ended' = Ended
  <2>1. Run \in Names /\ Metrics \in Names /\ Pid \in Names
    BY NameFacts
  <2>2. \A k \in Names: Generation(k)' = Generation(k)
    BY <1>7, <1>8 DEF Generation
  <2>3. file'[Pid] = file[Pid]
    BY <1>4, <1>7, <2>1
  <2>4. SameView
    BY <2>1, <2>2, <2>3 DEF SameView, Document
  <2> QED BY <2>4, SameDocument DEF SameView
<1>10. Publisher' /\ StoreShape'
  BY <1>1, <1>2, <1>3, RestingIs DEF Shapes, Publisher, StoreShape, PersistPoints, WritingPoints
<1>11. Present' /\ Counted' /\ Lengths' /\ ProcessOK'
  BY <1>1, <1>2 DEF Shapes, Present, Counted, Lengths, ProcessOK, Early, Resuming, ExportPoints, Counting
<1>12. OthersType'
  BY <1>1, <1>2 DEF Shapes, OthersType
<1>13. Shapes'
  BY <1>7, <1>10, <1>11, <1>12 DEF Shapes
<1>14. Shape'
  BY <1>13, ShapeIs, PTL
<1> QED BY <1>9, <1>14

\* One file changes while nothing is published.
LEMMA FileSet ==
    ASSUME Files, pub = NoPublication, UNCHANGED <<staged, previous, pub>>, NEW m \in Names,
           NEW x \in LaunchDocuments \cup {Absent}, file' = [file EXCEPT ![m] = x],
           m = Run => x \in RunDocuments \cup {Absent},
           m = Metrics => x \in MetricsDocs \cup {Absent},
           m = Pid => x \in PidDocs \cup {Absent}
    PROVE  /\ Files' /\ file'[m] = x
           /\ \A k \in Names \ {m}: file'[k] = file[k] /\ previous'[k] = previous[k]
<1>1. file \in [Names -> LaunchDocuments \cup {Absent}] /\ pub.at = "idle"
  BY RestingIs DEF Files, FilesType
<1>2. /\ file' \in [Names -> LaunchDocuments \cup {Absent}] /\ file'[m] = x
      /\ \A k \in Names \ {m}: file'[k] = file[k]
  BY <1>1
<1>3. FilesType' /\ PubFiles'
  BY <1>1, <1>2 DEF Files, FilesType, PubFiles
<1>4. NameFiles'
  <2>1. \A k \in Names: k = m \/ file'[k] = file[k]
    BY <1>2
  <2> QED BY <1>2, <2>1, NameFacts DEF Files, NameFiles
<1> QED BY <1>2, <1>3, <1>4 DEF Files

\* A hidden file is renamed away.
LEMMA HiddenMoves ==
    ASSUME Files, pub = NoPublication, UNCHANGED <<file, previous, pub>>, NEW m \in Names,
           staged[m] > 0, staged' = [staged EXCEPT ![m] = @ - 1]
    PROVE  Files'
<1>1. staged \in [Names -> Nat] /\ pub.at = "idle" /\ staged[m] - 1 \in Nat
  BY RestingIs DEF Files, FilesType
<1>2. staged' \in [Names -> Nat]
  BY <1>1
<1> QED BY <1>1, <1>2 DEF Files, FilesType, PubFiles, NameFiles

\* So is a generation set aside.
LEMMA AsideMoves ==
    ASSUME Files, pub = NoPublication, UNCHANGED <<file, staged, pub>>, NEW m \in Names,
           previous[m] # << >>, previous' = [previous EXCEPT ![m] = Tail(@)]
    PROVE  Files' /\ \A k \in Names \ {m}: previous'[k] = previous[k]
<1>1. /\ previous \in [Names -> Seq(LaunchDocuments)] /\ pub.at = "idle"
      /\ Tail(previous[m]) \in Seq(LaunchDocuments)
  BY RestingIs, HeadTailProperties DEF Files, FilesType
<1>2. /\ m = Run => Tail(previous[m]) \in Seq(RunDocuments)
      /\ m = Metrics => Tail(previous[m]) \in Seq(MetricsDocs)
      /\ m # Pid
  BY HeadTailProperties DEF Files, NameFiles
<1>3. /\ previous' \in [Names -> Seq(LaunchDocuments)] /\ previous'[m] = Tail(previous[m])
      /\ \A k \in Names \ {m}: previous'[k] = previous[k]
  BY <1>1
<1>4. FilesType' /\ PubFiles'
  BY <1>1, <1>3 DEF Files, FilesType, PubFiles
<1>5. NameFiles'
  <2>1. \A k \in Names: k = m \/ previous'[k] = previous[k]
    BY <1>3
  <2> QED BY <1>2, <1>3, <2>1, NameFacts DEF Files, NameFiles
<1> QED BY <1>3, <1>4, <1>5 DEF Files

LEMMA StartFreshShape ==
    ASSUME Shape, StartFresh, UNCHANGED exportVars
    PROVE  Shape' /\ SameView /\ Recorded' = Recorded /\ Ended' = Ended
<1>1. Shapes
  BY ShapeIs
<1>2. /\ UNCHANGED <<staged, previous, pub, dirs, op, build, n, net, bound, pids, tails, moved, hidden,
                     adapter, metadata, export>>
      /\ pc = "restore" /\ pc' = "log" /\ Restored /\ file[Run] = Absent
      /\ file' = [file EXCEPT ![Log] = Absent] /\ mem' = NewRun(build)
  BY DEF StartFresh, Restored, recoveryVars, exportVars
<1>3. pub = NoPublication /\ op = NoOp
  BY <1>1, <1>2 DEF Shapes, Publisher, StoreShape, PersistPoints, WritingPoints
<1>4. /\ Files' /\ SameView /\ Recorded' = Recorded /\ Ended' = Ended
      /\ Missing(Metrics)' = Missing(Metrics) /\ Missing(Run)' = Missing(Run)
      /\ file'[Metrics] = file[Metrics] /\ file'[Run] = file[Run]
  <2>1. Log \in Names /\ Log \notin {Run, Metrics, Pid} /\ Files /\ Absent \in LaunchDocuments \cup {Absent}
    BY <1>1, NameFacts DEF Shapes
  <2>2. Files' /\ \A k \in Names \ {Log}: file'[k] = file[k] /\ previous'[k] = previous[k]
    BY <1>2, <1>3, <2>1, FileSet
  <2>3. \A k \in {Run, Metrics, Pid}: file'[k] = file[k] /\ previous'[k] = previous[k]
    BY <2>1, <2>2, NameFacts
  <2> QED BY <2>2, <2>3, SameFiles
<1>5. ~Missing(Metrics)' /\ Document' = Absent
  <2>1. ~Missing(Metrics) /\ ~Missing(Run)
    BY <1>2 DEF Restored, OutputNames
  <2>2. Document = Absent
    BY <1>1, <1>2, <2>1, DocumentsAre DEF Shapes, Files
  <2> QED BY <1>4, <2>1, <2>2 DEF SameView
<1>6. build \in Builds
  BY <1>1, <1>2 DEF Shapes, ProcessOK
<1>7. /\ mem' \in RunDocuments /\ mem'.last = Absent /\ mem'.count = 0
  BY <1>2, <1>6, NewRunIs
<1>8. Publisher' /\ StoreShape'
  BY <1>1, <1>2, <1>3, RestingIs DEF Shapes, Publisher, StoreShape, PersistPoints, WritingPoints
<1>9. Present' /\ Counted' /\ Lengths'
  BY <1>1, <1>2, <1>5, <1>7 DEF Present, Counted, Lengths, Early, Resuming, ExportPoints, Counting
<1>10. ProcessOK'
  BY <1>1, <1>2, <1>7 DEF Shapes, ProcessOK, BeforeLoad, Early, Points, StartPoints
<1>11. OthersType'
  BY <1>1, <1>2 DEF Shapes, OthersType
<1>12. Shapes'
  BY <1>4, <1>8, <1>9, <1>10, <1>11 DEF Shapes
<1>13. Shape'
  BY <1>12, ShapeIs, PTL
<1> QED BY <1>4, <1>13

\* A start-up step that changes one file, and of the memory only what it records.
LEMMA TakesShape ==
    ASSUME Shape, Files', pc' = pc, UNCHANGED <<pub, dirs, op, build, n, net, bound, tails, hidden, exportVars>>,
           pc \in {"restore", "prestart", "pid", "sweep", "replay"}, moved' = moved, pids' \subseteq Builds,
           pub = NoPublication,
           pc # "restore" => mem' \in RunDocuments, pc = "restore" => mem' = mem,
           mem # Absent => mem'.last = mem.last /\ mem'.count = mem.count /\ mem'.process = mem.process
                           /\ mem'.metrics = mem.metrics /\ mem'.status = mem.status,
           Missing(Metrics)' = Missing(Metrics), Document' = Document, file'[Run] = file[Run]
    PROVE  Shape'
<1>1. Shapes
  BY ShapeIs
<1>2. /\ UNCHANGED <<adapter, metadata, export>>
      /\ pc \in {"prestart", "pid", "sweep", "replay"} => mem \in RunDocuments /\ mem # Absent
  BY <1>1, LaunchFacts DEF exportVars, Shapes, ProcessOK
<1>3. op = NoOp /\ Publisher' /\ StoreShape'
  BY <1>1, RestingIs DEF Shapes, Publisher, StoreShape
<1>4. Present'
  BY <1>1, <1>2 DEF Shapes, Present, Early, Resuming
<1>5. ProcessOK'
  BY <1>1, <1>2 DEF Shapes, ProcessOK
<1>6. Counted' /\ Lengths'
  BY <1>1, <1>2, LaunchFacts DEF Shapes, Counted, Lengths, ExportPoints, Counting
<1>7. OthersType'
  BY <1>1, <1>2 DEF Shapes, OthersType
<1>8. Shapes'
  BY <1>3, <1>4, <1>5, <1>6, <1>7 DEF Shapes
<1> QED BY <1>8, ShapeIs, PTL

LEMMA PrestartMoveShape ==
    ASSUME Shape, NEW name \in Prestart, PrestartMove(name), UNCHANGED exportVars
    PROVE  /\ Shape'
           /\ Document' = Absent /\ Document = Absent /\ Generation(Metrics)' = Generation(Metrics)
           /\ file'[Pid] \in {file[Pid], Absent}
<1>1. Shapes /\ Files
  BY ShapeIs DEF Shapes
<1>2. /\ UNCHANGED <<previous, pub, dirs, op, pc, build, mem, n, net, bound, pids, tails, moved, hidden>>
      /\ pc = "prestart"
      /\ \/ staged[name] > 0 /\ staged' = [staged EXCEPT ![name] = @ - 1] /\ UNCHANGED file
         \/ name = Pid /\ file' = [file EXCEPT ![name] = Absent] /\ UNCHANGED staged
  BY DEF PrestartMove, PrestartLeft, memoryVars, recoveryVars
<1>3. pub = NoPublication /\ mem \in RunDocuments /\ pids \subseteq Builds /\ Document = Absent
  BY <1>1, <1>2 DEF Shapes, Publisher, ProcessOK, OthersType, Present, Early, PersistPoints, WritingPoints
<1>4. name \in Names /\ Run \in Names /\ Metrics \in Names /\ Run # Pid /\ Metrics # Pid
  BY NameFacts DEF Prestart
<1>5. /\ Files' /\ file'[Run] = file[Run] /\ Document' = Document /\ Missing(Metrics)' = Missing(Metrics)
      /\ Generation(Metrics)' = Generation(Metrics) /\ file'[Pid] \in {file[Pid], Absent}
  <2>1. CASE staged[name] > 0 /\ staged' = [staged EXCEPT ![name] = @ - 1] /\ UNCHANGED file
    <3>1. Files'
      BY <1>1, <1>2, <1>3, <1>4, <2>1, HiddenMoves
    <3>2. SameView /\ Missing(Metrics)' = Missing(Metrics)
      BY <1>2, <2>1, SameDisk
    <3> QED BY <2>1, <3>1, <3>2 DEF SameView
  <2>2. CASE name = Pid /\ file' = [file EXCEPT ![name] = Absent] /\ UNCHANGED staged
    <3>1. /\ Files' /\ file'[Pid] = Absent
          /\ \A k \in Names \ {Pid}: file'[k] = file[k] /\ previous'[k] = previous[k]
      BY <1>1, <1>2, <1>3, <1>4, <2>2, FileSet
    <3>2. /\ file'[Run] = file[Run] /\ previous'[Run] = previous[Run]
          /\ file'[Metrics] = file[Metrics] /\ previous'[Metrics] = previous[Metrics]
      BY <1>4, <3>1
    <3> QED BY <3>1, <3>2 DEF Document, Generation, Missing
  <2> QED BY <1>2, <2>1, <2>2
<1>6. Shape'
  BY <1>2, <1>3, <1>5, TakesShape
<1> QED BY <1>3, <1>5, <1>6

\* The identity in training.pid is moved aside or comes back.
PidMoves == MovePid \/ RestorePid

LEMMA PidMovesShape ==
    ASSUME Shape, PidMoves, UNCHANGED exportVars
    PROVE  /\ Shape' /\ Document' = Document /\ Generation(Metrics)' = Generation(Metrics)
           /\ \/ /\ MovePid /\ file[Pid] \in PidDocs /\ file'[Pid] = Absent
                 /\ mem' \in RunDocuments /\ mem'.recovered = mem.recovered \cup {file[Pid].pid}
                 /\ mem'.last = mem.last /\ mem'.count = mem.count /\ mem'.process = mem.process
                 /\ mem'.metrics = mem.metrics /\ mem'.status = mem.status /\ mem'.completed = mem.completed
              \/ /\ RestorePid /\ file'[Pid] = PidOf(mem.process) /\ UNCHANGED mem
<1>1. Shapes /\ Files
  BY ShapeIs DEF Shapes
<1>2. /\ UNCHANGED <<staged, previous, pub, dirs, op, pc, build, n, net, bound, tails, moved, hidden>>
      /\ pc = "pid" /\ mem.process \in pids
      /\ \/ /\ MovePid /\ file[Pid] # Absent /\ pids' = pids \cup {file[Pid].pid}
            /\ file' = [file EXCEPT ![Pid] = Absent]
            /\ mem' = [mem EXCEPT !.recovered = @ \cup {file[Pid].pid}]
         \/ /\ RestorePid /\ pids' = pids \ {mem.process} /\ file' = [file EXCEPT ![Pid] = PidOf(mem.process)]
            /\ UNCHANGED mem
  BY DEF PidMoves, MovePid, RestorePid, memoryVars
<1>3. /\ pub = NoPublication /\ mem \in RunDocuments /\ mem # Absent /\ pids \subseteq Builds
      /\ file[Pid] \in PidDocs \cup {Absent}
  BY <1>1, <1>2, LaunchFacts DEF Shapes, Publisher, ProcessOK, OthersType, PersistPoints, WritingPoints, Files, NameFiles
<1>4. Pid \in Names /\ Run \in Names /\ Metrics \in Names /\ Run # Pid /\ Metrics # Pid
  BY NameFacts
<1>5. PICK x \in PidDocs \cup {Absent}: file' = [file EXCEPT ![Pid] = x]
  <2>1. PidOf(mem.process) \in PidDocs
    BY <1>3, RunDocumentFacts DEF PidOf, PidDocs
  <2> QED BY <1>2, <2>1
<1>6. /\ Files' /\ file'[Pid] = x
      /\ \A k \in Names \ {Pid}: file'[k] = file[k] /\ previous'[k] = previous[k]
  <2>1. x \in LaunchDocuments \cup {Absent} /\ (Pid = Run => x \in RunDocuments \cup {Absent})
        /\ (Pid = Metrics => x \in MetricsDocs \cup {Absent})
    BY <1>4, LaunchFacts
  <2> QED BY <1>1, <1>2, <1>3, <1>4, <1>5, <2>1, FileSet
<1>7. /\ file'[Run] = file[Run] /\ previous'[Run] = previous[Run]
      /\ file'[Metrics] = file[Metrics] /\ previous'[Metrics] = previous[Metrics]
  BY <1>4, <1>6
<1>8. Document' = Document /\ Generation(Metrics)' = Generation(Metrics) /\ Missing(Metrics)' = Missing(Metrics)
  BY <1>7 DEF Document, Generation, Missing
<1>9. file \in [Names -> LaunchDocuments \cup {Absent}]
  BY <1>1 DEF Files, FilesType
<1>10. \/ /\ MovePid /\ file[Pid] \in PidDocs /\ file'[Pid] = Absent
          /\ mem' \in RunDocuments /\ mem'.recovered = mem.recovered \cup {file[Pid].pid}
          /\ mem'.last = mem.last /\ mem'.count = mem.count /\ mem'.process = mem.process
          /\ mem'.metrics = mem.metrics /\ mem'.status = mem.status /\ mem'.completed = mem.completed
       \/ /\ RestorePid /\ file'[Pid] = PidOf(mem.process) /\ UNCHANGED mem
  <2>1. CASE /\ MovePid /\ file[Pid] # Absent /\ pids' = pids \cup {file[Pid].pid}
             /\ file' = [file EXCEPT ![Pid] = Absent]
             /\ mem' = [mem EXCEPT !.recovered = @ \cup {file[Pid].pid}]
    <3>1. file[Pid] \in PidDocs /\ file[Pid].pid \in Builds
      BY <1>3, <2>1 DEF PidDocs
    <3>2. file'[Pid] = Absent
      BY <1>4, <1>9, <2>1
    <3> DEFINE b == file[Pid].pid
    <3>3. b \in Builds /\ mem' = [mem EXCEPT !.recovered = @ \cup {b}]
      BY <2>1, <3>1
    <3> HIDE DEF b
    <3>4. /\ mem' \in RunDocuments /\ mem'.recovered = mem.recovered \cup {b}
          /\ mem'.last = mem.last /\ mem'.count = mem.count /\ mem'.process = mem.process
          /\ mem'.metrics = mem.metrics /\ mem'.status = mem.status /\ mem'.completed = mem.completed
      BY <1>3, <3>3 DEF RunDocuments
    <3> QED BY <2>1, <3>1, <3>2, <3>4 DEF b
  <2>2. CASE /\ RestorePid /\ file' = [file EXCEPT ![Pid] = PidOf(mem.process)] /\ UNCHANGED mem
    BY <1>4, <1>9, <2>2
  <2> QED BY <1>2, <2>1, <2>2
<1>11. pids' \subseteq Builds
  BY <1>2, <1>3 DEF PidDocs
<1>12. mem' \in RunDocuments /\ mem'.last = mem.last /\ mem'.count = mem.count /\ mem'.process = mem.process
       /\ mem'.metrics = mem.metrics /\ mem'.status = mem.status
  BY <1>3, <1>10
<1>13. Shape'
  BY <1>2, <1>3, <1>6, <1>7, <1>8, <1>11, <1>12, TakesShape
<1> QED BY <1>8, <1>10, <1>13

LEMMA SweepShape ==
    ASSUME Shape, Sweep, UNCHANGED exportVars
    PROVE  Shape' /\ SameView /\ Recorded' = Recorded /\ Ended' = Ended
<1>1. Shapes /\ Files
  BY ShapeIs DEF Shapes
<1>2. /\ UNCHANGED <<file, pub, dirs, op, pc, build, mem, n, net, bound, pids, tails, moved,
                     adapter, metadata, export>>
      /\ pc = "sweep"
      /\ \/ \E name \in OutputNames: staged[name] > 0 /\ staged' = [staged EXCEPT ![name] = @ - 1]
                                     /\ UNCHANGED <<previous, hidden>>
         \/ \E name \in OutputNames: previous[name] # << >> /\ previous' = [previous EXCEPT ![name] = Tail(@)]
                                     /\ UNCHANGED <<staged, hidden>>
         \/ \E dir \in hidden: hidden' = hidden \ {dir} /\ UNCHANGED <<staged, previous>>
  BY DEF Sweep, memoryVars, exportVars
<1>3. /\ pub = NoPublication /\ op = NoOp /\ mem \in RunDocuments /\ ~Missing(Metrics) /\ file[Run] # Absent
      /\ mem # Absent /\ hidden \subseteq HiddenDirs /\ Document = file[Run] /\ Generation(Metrics) = file[Metrics]
  BY <1>1, <1>2, LaunchFacts, DocumentsAre
     DEF Shapes, Files, Publisher, StoreShape, ProcessOK, Present, OthersType, Resuming, PersistPoints, WritingPoints
<1>4. OutputNames \subseteq Names
  BY NameFacts DEF OutputNames
<1>5. Files' /\ ~Missing(Metrics)' /\ hidden' \subseteq HiddenDirs
  <2>1. CASE \E name \in OutputNames: staged[name] > 0 /\ staged' = [staged EXCEPT ![name] = @ - 1]
                                     /\ UNCHANGED <<previous, hidden>>
    <3>1. Files'
      BY <1>1, <1>2, <1>3, <1>4, <2>1, HiddenMoves
    <3> QED BY <1>2, <1>3, <2>1, <3>1 DEF Missing
  <2>2. CASE \E name \in OutputNames: previous[name] # << >> /\ previous' = [previous EXCEPT ![name] = Tail(@)]
                                     /\ UNCHANGED <<staged, hidden>>
    <3>1. PICK name \in OutputNames: previous[name] # << >> /\ previous' = [previous EXCEPT ![name] = Tail(@)]
      BY <2>2
    <3>2. Files' /\ \A k \in Names \ {name}: previous'[k] = previous[k]
      BY <1>1, <1>2, <1>3, <1>4, <2>2, <3>1, AsideMoves
    <3>3. previous[Metrics] = << >> \/ file[Metrics] # Absent
      BY <1>3 DEF Missing
    <3>4. previous'[Metrics] = << >> \/ file[Metrics] # Absent
      BY <3>1, <3>2, <3>3, NameFacts
    <3> QED BY <1>2, <1>3, <2>2, <3>2, <3>4 DEF Missing
  <2>3. CASE \E dir \in hidden: hidden' = hidden \ {dir} /\ UNCHANGED <<staged, previous>>
    <3>1. Files'
      BY <1>1, <1>2, <2>3, FilesStay
    <3> QED BY <1>2, <1>3, <2>3, <3>1 DEF Missing
  <2> QED BY <1>2, <2>1, <2>2, <2>3
<1>6. SameView /\ Recorded' = Recorded /\ Ended' = Ended
  <2>1. Document' = file'[Run] /\ Generation(Metrics)' = file'[Metrics]
    <3>1. (file[Run] # Absent => Document = file[Run]) /\ (~Missing(Metrics) => Generation(Metrics) = file[Metrics])
      BY DEF Document, Generation, Missing
    <3>2. ((file[Run] # Absent => Document = file[Run]) /\ (~Missing(Metrics) => Generation(Metrics) = file[Metrics]))'
      BY DEF Document, Generation, Missing
    <3> QED BY <1>2, <1>3, <1>5, <3>2
  <2> QED BY <1>2, <1>3, <2>1, SameDocument DEF SameView
<1>7. Publisher' /\ StoreShape'
  BY <1>1, <1>2, <1>3 DEF Shapes, Publisher, StoreShape
<1>8. Present'
  BY <1>1, <1>2, <1>3, <1>5 DEF Shapes, Present, Early, Resuming
<1>9. ProcessOK' /\ Counted' /\ Lengths'
  BY <1>1, <1>2 DEF Shapes, ProcessOK, Counted, Lengths
<1>10. OthersType'
  BY <1>1, <1>2, <1>5 DEF Shapes, OthersType
<1>11. Shapes'
  BY <1>5, <1>7, <1>8, <1>9, <1>10 DEF Shapes
<1>12. Shape'
  BY <1>11, ShapeIs, PTL
<1> QED BY <1>6, <1>12

LEMMA ReplayPointerShape ==
    ASSUME Shape, ReplayPointer, UNCHANGED exportVars
    PROVE  Shape' /\ SameView /\ Recorded' = Recorded /\ Ended' = Ended
<1>1. Shapes /\ Files
  BY ShapeIs DEF Shapes
<1>2. /\ UNCHANGED <<pub, dirs, op, pc, build, mem, n, net, bound, pids, tails, moved, hidden>>
      /\ pc = "replay"
      /\ \/ /\ staged[Latest] > 0 /\ staged' = [staged EXCEPT ![Latest] = @ - 1]
            /\ UNCHANGED <<file, previous>>
         \/ /\ previous[Latest] # << >> /\ previous' = [previous EXCEPT ![Latest] = Tail(@)]
            /\ UNCHANGED <<file, staged>>
         \/ /\ file' = [file EXCEPT ![Latest] = Absent]
            /\ UNCHANGED <<staged, previous>>
  BY DEF ReplayPointer, memoryVars, recoveryVars
<1>3. pub = NoPublication /\ mem \in RunDocuments /\ pids \subseteq Builds
  BY <1>1, <1>2 DEF Shapes, Publisher, ProcessOK, OthersType, PersistPoints, WritingPoints
<1>4. Latest \in Names /\ Latest \notin {Run, Metrics, Pid} /\ {Run, Metrics, Pid} \subseteq Names
  BY NameFacts
<1>5. Files' /\ \A k \in Names \ {Latest}: file'[k] = file[k] /\ previous'[k] = previous[k]
  <2>1. CASE /\ staged[Latest] > 0 /\ staged' = [staged EXCEPT ![Latest] = @ - 1]
             /\ UNCHANGED <<file, previous>>
    BY <1>1, <1>2, <1>3, <1>4, <2>1, HiddenMoves
  <2>2. CASE /\ previous[Latest] # << >> /\ previous' = [previous EXCEPT ![Latest] = Tail(@)]
             /\ UNCHANGED <<file, staged>>
    BY <1>1, <1>2, <1>3, <1>4, <2>2, AsideMoves
  <2>3. CASE /\ file' = [file EXCEPT ![Latest] = Absent]
             /\ UNCHANGED <<staged, previous>>
    BY <1>1, <1>2, <1>3, <1>4, <2>3, FileSet
  <2> QED BY <1>2, <2>1, <2>2, <2>3
<1>6. \A k \in {Run, Metrics, Pid}: file'[k] = file[k] /\ previous'[k] = previous[k]
  BY <1>4, <1>5
<1>7. /\ SameView /\ Recorded' = Recorded /\ Ended' = Ended /\ Missing(Metrics)' = Missing(Metrics)
      /\ file'[Run] = file[Run]
  BY <1>6, SameFiles
<1>8. Shape'
  BY <1>2, <1>3, <1>5, <1>7, TakesShape DEF SameView
<1> QED BY <1>7, <1>8

\* Directories of the checkpoint root are moved away.
LEMMA ReplayShape ==
    ASSUME Shape, Replay \/ ReplayAfterLoad, UNCHANGED exportVars
    PROVE  /\ Shape' /\ SameView /\ Recorded' = Recorded /\ Ended' = Ended
           /\ \E e \in dirs: Movable(e) /\ dirs' = dirs \ {e}
           /\ Replay => pc = "replay" /\ ~Unrecognized
           /\ ReplayAfterLoad => pc = "load" /\ op.at = "returned"
           /\ UNCHANGED <<file, staged, previous, pub, op, pc, build, mem, n, net, bound, pids, tails, hidden>>
<1>1. Shapes /\ Files
  BY ShapeIs DEF Shapes
<1>2. UNCHANGED <<file, staged, previous, pub, op, pc, build, mem, n, net, bound, pids, tails, hidden,
                  adapter, metadata, export>>
  BY DEF Replay, ReplayAfterLoad, fileVars, memoryVars, exportVars
<1>3. /\ Replay => pc = "replay" /\ ~Unrecognized
      /\ ReplayAfterLoad => pc = "load" /\ op.at = "returned"
  BY DEF Replay, ReplayAfterLoad
<1>4. PICK e \in dirs: Movable(e) /\ dirs' = dirs \ {e} /\ moved' = moved \cup {e}
  BY DEF Replay, ReplayAfterLoad
<1>5. Files'
  BY <1>1, <1>2, FilesStay
<1>6. SameView /\ Recorded' = Recorded /\ Ended' = Ended /\ Missing(Metrics)' = Missing(Metrics)
  BY <1>2, SameDisk
<1>7. dirs' \subseteq Entries /\ IsFiniteSet(dirs') /\ \A f \in dirs': f.whole
  BY <1>1, <1>4, FS_RemoveElement DEF Shapes, StoreShape
<1>8. Publisher' /\ StoreShape'
  <2>1. NewDocument' = NewDocument
    BY <1>2 DEF NewDocument
  <2>2. Publisher'
    BY <1>1, <1>2, <2>1 DEF Shapes, Publisher
  <2>3. op.at \notin {"staged", "replaced"}
    BY <1>1, <1>3, RestingIs DEF Shapes, StoreShape
  <2> QED BY <1>1, <1>2, <1>7, <2>2, <2>3 DEF Shapes, StoreShape
<1>9. Present'
  BY <1>1, <1>2, <1>6 DEF Shapes, Present, SameView
<1>10. ProcessOK' /\ Counted' /\ Lengths'
  BY <1>1, <1>2 DEF Shapes, ProcessOK, Counted, Lengths
<1>11. moved' \subseteq Entries
  BY <1>1, <1>4 DEF Shapes, OthersType, StoreShape
<1>12. OthersType'
  BY <1>1, <1>2, <1>11 DEF Shapes, OthersType
<1>13. Shapes'
  BY <1>5, <1>8, <1>9, <1>10, <1>12 DEF Shapes
<1>14. Shape'
  BY <1>13, ShapeIs, PTL
<1> QED BY <1>2, <1>3, <1>4, <1>6, <1>14

LEMMA RotatePidShape ==
    ASSUME Shape, RotatePid, file[Pid] \in PidDocs, UNCHANGED exportVars
    PROVE  /\ Shape' /\ Document' = Document /\ Generation(Metrics)' = Generation(Metrics)
           /\ pc = "rotate" /\ pc' = "identify" /\ file'[Pid] = Absent /\ pids' = pids \cup {file[Pid].pid}
           /\ mem \in RunDocuments /\ mem' \in RunDocuments
           /\ mem'.recovered = mem.recovered \cup {file[Pid].pid}
           /\ mem'.last = mem.last /\ mem'.count = mem.count /\ mem'.process = mem.process
           /\ mem'.metrics = mem.metrics /\ mem'.status = mem.status /\ mem'.completed = mem.completed
           /\ UNCHANGED <<pub, dirs, op, build, n, net, bound, tails, moved, hidden>>
           /\ pub = NoPublication /\ op = NoOp
<1>1. Shapes /\ Files
  BY ShapeIs DEF Shapes
<1>2. /\ UNCHANGED <<staged, previous, pub, dirs, op, build, n, net, bound, tails, moved, hidden,
                     adapter, metadata, export>>
      /\ pc = "rotate" /\ pc' = "identify" /\ pids' = pids \cup {file[Pid].pid}
      /\ file' = [file EXCEPT ![Pid] = Absent] /\ mem' = [mem EXCEPT !.recovered = @ \cup {file[Pid].pid}]
  BY DEF RotatePid, memoryVars, exportVars
<1>3. /\ pub = NoPublication /\ op = NoOp /\ mem \in RunDocuments /\ mem # Absent /\ pids \subseteq Builds
      /\ file[Pid].pid \in Builds /\ file[Run] # Absent /\ ~Missing(Metrics) /\ Document = file[Run]
  BY <1>1, <1>2, LaunchFacts, DocumentsAre
     DEF Shapes, Files, Publisher, StoreShape, ProcessOK, OthersType, Present, Resuming, PersistPoints,
         WritingPoints, PidDocs
<1>4. /\ Files' /\ file'[Pid] = Absent
      /\ \A k \in Names \ {Pid}: file'[k] = file[k] /\ previous'[k] = previous[k]
  <2>1. Pid \in Names /\ Absent \in LaunchDocuments \cup {Absent} /\ Pid # Run /\ Pid # Metrics
    BY NameFacts
  <2> QED BY <1>1, <1>2, <1>3, <2>1, FileSet
<1>5. /\ file'[Run] = file[Run] /\ previous'[Run] = previous[Run]
      /\ file'[Metrics] = file[Metrics] /\ previous'[Metrics] = previous[Metrics]
  BY <1>4, NameFacts
<1>6. Document' = Document /\ Generation(Metrics)' = Generation(Metrics) /\ Missing(Metrics)' = Missing(Metrics)
  BY <1>5 DEF Document, Generation, Missing
<1>7. /\ mem' \in RunDocuments /\ mem'.recovered = mem.recovered \cup {file[Pid].pid}
      /\ mem'.last = mem.last /\ mem'.count = mem.count /\ mem'.process = mem.process
      /\ mem'.metrics = mem.metrics /\ mem'.status = mem.status /\ mem'.completed = mem.completed
  <2> DEFINE b == file[Pid].pid
  <2>1. b \in Builds /\ mem' = [mem EXCEPT !.recovered = @ \cup {b}]
    BY <1>2, <1>3
  <2> HIDE DEF b
  <2>2. /\ mem' \in RunDocuments /\ mem'.recovered = mem.recovered \cup {b}
        /\ mem'.last = mem.last /\ mem'.count = mem.count /\ mem'.process = mem.process
        /\ mem'.metrics = mem.metrics /\ mem'.status = mem.status /\ mem'.completed = mem.completed
    BY <1>3, <2>1 DEF RunDocuments
  <2> QED BY <2>2 DEF b
<1>8. Publisher' /\ StoreShape'
  BY <1>1, <1>2, <1>3, RestingIs DEF Shapes, Publisher, StoreShape
<1>9. Present'
  BY <1>1, <1>2, <1>3, <1>6, <1>7 DEF Shapes, Present, Early, Resuming
<1>10. ProcessOK' /\ Counted'
  BY <1>1, <1>2, <1>3, <1>7 DEF Shapes, ProcessOK, Counted, BeforeLoad, Early, Points, StartPoints
<1>11. Lengths'
  BY <1>1, <1>2, <1>5 DEF Shapes, Lengths, ExportPoints, Counting
<1>12. OthersType'
  <2>1. pids' \subseteq Builds
    BY <1>2, <1>3
  <2> QED BY <1>1, <1>2, <2>1 DEF Shapes, OthersType
<1>13. Shapes'
  BY <1>4, <1>8, <1>9, <1>10, <1>11, <1>12 DEF Shapes
<1>14. Shape'
  BY <1>13, ShapeIs, PTL
<1> QED BY <1>2, <1>3, <1>4, <1>6, <1>7, <1>14
-----------------------------------------------------------------------------
(* The metrics.                                                            *)

LEMMA CreateMetricsShape ==
    ASSUME Shape, CreateMetrics
    PROVE  /\ Shape' /\ Document' = Document /\ file'[Pid] = file[Pid]
           /\ Generation(Metrics)' = MetricsOf(<< >>)
           /\ Generation(Metrics) = Absent /\ n = 0 /\ pc = "metrics" /\ pc' = "loop"
           /\ UNCHANGED <<pub, dirs, op, build, mem, n, net, bound, pids, tails, moved, hidden, exportVars>>
<1>1. Shapes /\ Files
  BY ShapeIs DEF Shapes
<1>2. /\ UNCHANGED <<staged, previous, pub, dirs, op, build, mem, n, net, bound, pids, tails, moved, hidden,
                     adapter, metadata, export>>
      /\ pc = "metrics" /\ pc' = "loop" /\ n = 0 /\ file[Metrics] = Absent
      /\ file' = [file EXCEPT ![Metrics] = MetricsOf(<< >>)]
  BY DEF CreateMetrics, Goes, memoryVars, recoveryVars, exportVars
<1>3. /\ pub = NoPublication /\ op = NoOp /\ mem \in RunDocuments /\ ~Missing(Metrics)
      /\ Generation(Metrics) = Absent
  BY <1>1, <1>2, DocumentsAre
     DEF Shapes, Files, Publisher, StoreShape, ProcessOK, Present, PersistPoints, WritingPoints
<1>4. PICK x \in MetricsDocs: x = MetricsOf(<< >>) /\ x \in LaunchDocuments /\ Len(x.rows) = 0
  BY EmptyRows, MetricsDocsAre, LaunchFacts
<1>5. /\ Files' /\ file'[Metrics] = x
      /\ \A k \in Names \ {Metrics}: file'[k] = file[k] /\ previous'[k] = previous[k]
  <2>1. Metrics \in Names /\ x \in LaunchDocuments \cup {Absent} /\ Metrics # Run /\ Metrics # Pid
        /\ file' = [file EXCEPT ![Metrics] = x]
    BY <1>2, <1>4, NameFacts
  <2> QED BY <1>1, <1>2, <1>3, <1>4, <2>1, FileSet
<1>6. /\ file'[Run] = file[Run] /\ previous'[Run] = previous[Run] /\ file'[Pid] = file[Pid]
  BY <1>5, NameFacts
<1>7. /\ Document' = Document /\ file'[Metrics] # Absent /\ Generation(Metrics)' = x /\ ~Missing(Metrics)'
  BY <1>4, <1>5, <1>6, LaunchFacts DEF Document, Generation, Missing
<1>8. Publisher' /\ StoreShape'
  BY <1>1, <1>2, <1>3, RestingIs DEF Shapes, Publisher, StoreShape
<1>9. Present'
  BY <1>1, <1>2, <1>7 DEF Shapes, Present, Early, Resuming
<1>10. ProcessOK' /\ Counted'
  BY <1>1, <1>2, <1>3 DEF Shapes, ProcessOK, Counted, BeforeLoad, Early, Points, LoopPoints
<1>11. Lengths'
  BY <1>2, <1>4, <1>5, <1>7 DEF Lengths, ExportPoints, Counting
<1>12. OthersType'
  BY <1>1, <1>2 DEF Shapes, OthersType
<1>13. Shapes'
  BY <1>5, <1>8, <1>9, <1>10, <1>11, <1>12 DEF Shapes
<1>14. Shape'
  BY <1>13, ShapeIs, PTL
<1> QED BY <1>2, <1>3, <1>4, <1>6, <1>7, <1>14 DEF exportVars

LEMMA AppendMetricShape ==
    ASSUME Shape, AppendMetric
    PROVE  /\ Shape' /\ Document' = Document /\ file'[Pid] = file[Pid]
           /\ Generation(Metrics) = file[Metrics] /\ file[Metrics] \in MetricsDocs
           /\ file'[Metrics] \in MetricsDocs /\ Generation(Metrics)' = file'[Metrics]
           /\ Len(file[Metrics].rows) = n - 1 /\ n \in Nat /\ Len(file'[Metrics].rows) = n
           /\ file'[Metrics].rows[n] = build
           /\ \A i \in 1..(n - 1): file'[Metrics].rows[i] = file[Metrics].rows[i]
           /\ pc = "append" /\ pc' \in {"save", "loop"}
           /\ UNCHANGED <<pub, dirs, op, build, mem, n, net, bound, pids, tails, moved, hidden, exportVars>>
<1>1. Shapes /\ Files
  BY ShapeIs DEF Shapes
<1>2. /\ UNCHANGED <<staged, previous, pub, dirs, op, build, mem, n, net, bound, pids, tails, moved, hidden,
                     adapter, metadata, export>>
      /\ pc = "append" /\ pc' \in {"save", "loop"}
      /\ file' = [file EXCEPT ![Metrics].rows = Append(@, build)]
  BY DEF AppendMetric, Goes, memoryVars, recoveryVars, exportVars
<1>3. /\ pub = NoPublication /\ op = NoOp /\ mem \in RunDocuments /\ mem # Absent /\ ~Missing(Metrics)
      /\ file[Metrics] \in MetricsDocs /\ build \in Builds /\ n \in 0..Horizon /\ n \in Nat
      /\ n = Len(file[Metrics].rows) + 1 /\ Generation(Metrics) = file[Metrics]
      /\ file \in [Names -> LaunchDocuments \cup {Absent}]
  BY <1>1, <1>2, DocumentsAre, HorizonIs, LaunchFacts
     DEF Shapes, Files, FilesType, NameFiles, Publisher, StoreShape, ProcessOK, Present, Lengths,
         PersistPoints, WritingPoints
<1>4. PICK r \in Rows: r = file[Metrics].rows /\ file[Metrics] = MetricsOf(r)
  BY <1>3, MetricsDocsAre
<1>5. /\ Append(r, build) \in Rows /\ Len(Append(r, build)) = Len(r) + 1 /\ Len(r) \in Nat
      /\ Append(r, build)[Len(r) + 1] = build
      /\ \A i \in 1..Len(r): Append(r, build)[i] = r[i]
  <2>1. Len(r) \in Nat
    BY <1>4, RowsAre, LenProperties
  <2>2. Len(r) < Horizon
    BY <1>3, <1>4, <2>1, HorizonIs
  <2> QED BY <1>3, <2>2, RowsGrow
<1>6. PICK x \in MetricsDocs: /\ x = MetricsOf(Append(r, build)) /\ x.rows = Append(r, build)
                              /\ x \in LaunchDocuments
  BY <1>5, MetricsDocsAre, LaunchFacts
<1>7. file' = [file EXCEPT ![Metrics] = x]
  <2>1. [MetricsOf(r) EXCEPT !.rows = Append(@, build)] = MetricsOf(Append(r, build))
    BY DEF MetricsOf
  <2>2. file' = [file EXCEPT ![Metrics] = [file[Metrics] EXCEPT !.rows = Append(@, build)]]
    BY <1>2
  <2> QED BY <1>4, <1>6, <2>1, <2>2
<1>8. /\ Files' /\ file'[Metrics] = x
      /\ \A k \in Names \ {Metrics}: file'[k] = file[k] /\ previous'[k] = previous[k]
  <2>1. Metrics \in Names /\ x \in LaunchDocuments \cup {Absent} /\ Metrics # Run /\ Metrics # Pid
    BY <1>6, NameFacts
  <2> QED BY <1>1, <1>2, <1>3, <1>6, <1>7, <2>1, FileSet
<1>9. /\ file'[Run] = file[Run] /\ previous'[Run] = previous[Run] /\ file'[Pid] = file[Pid]
  BY <1>8, NameFacts
<1>10. /\ Document' = Document /\ file'[Metrics] # Absent /\ Generation(Metrics)' = x /\ ~Missing(Metrics)'
  BY <1>6, <1>8, <1>9, LaunchFacts DEF Document, Generation, Missing
<1>11. /\ Len(file[Metrics].rows) = n - 1 /\ Len(x.rows) = n /\ x.rows[n] = build
       /\ \A i \in 1..(n - 1): x.rows[i] = file[Metrics].rows[i]
  <2>1. Len(r) = n - 1 /\ Len(r) + 1 = n
    BY <1>3, <1>4, <1>5
  <2>2. Len(file[Metrics].rows) = n - 1 /\ Len(x.rows) = n
    BY <1>4, <1>5, <1>6, <2>1
  <2>3. x.rows[n] = build
    BY <1>5, <1>6, <2>1
  <2>4. \A i \in 1..(n - 1): x.rows[i] = file[Metrics].rows[i]
    <3>1. \A i \in 1..(n - 1): Append(r, build)[i] = r[i]
      BY <1>5, <2>1
    <3> QED BY <1>4, <1>6, <3>1
  <2> QED BY <2>2, <2>3, <2>4
<1>12. Publisher' /\ StoreShape'
  BY <1>1, <1>2, <1>3, RestingIs DEF Shapes, Publisher, StoreShape
<1>13. Present'
  BY <1>1, <1>2, <1>10 DEF Shapes, Present, Early, Resuming
<1>14. ProcessOK'
  BY <1>1, <1>2, <1>3 DEF Shapes, ProcessOK, BeforeLoad, Early, Points, LoopPoints
<1>15. Counted'
  BY <1>1, <1>2, <1>3 DEF Shapes, Counted
<1>16. Lengths'
  BY <1>2, <1>8, <1>10, <1>11 DEF Lengths, ExportPoints, Counting
<1>17. OthersType'
  BY <1>1, <1>2 DEF Shapes, OthersType
<1>18. Shapes'
  BY <1>8, <1>12, <1>13, <1>14, <1>15, <1>16, <1>17 DEF Shapes
<1>19. Shape'
  BY <1>18, ShapeIs, PTL
<1>20. UNCHANGED <<pub, dirs, op, build, mem, n, net, bound, pids, tails, moved, hidden, exportVars>>
  BY <1>2 DEF exportVars
<1> QED BY <1>2, <1>3, <1>6, <1>8, <1>9, <1>10, <1>11, <1>19, <1>20
-----------------------------------------------------------------------------
(* Publications begin and end.                                             *)

Begins == WriteLog \/ WriteBudget \/ (WritePid /\ pc' # "down") \/ WritePrefix \/ Persist

LEMMA BeginsAre ==
    ASSUME Shape, Begins, UNCHANGED exportVars
    PROVE  /\ UNCHANGED <<file, staged, previous, dirs, op, pc, build, mem, n, net, bound,
                          pids, tails, moved, hidden, adapter, metadata, export>>
           /\ pub.at = "idle" /\ pc \in PersistPoints \cup {"log", "budget", "identify", "prefix"}
           /\ Publishable(pub'.name, pub'.doc) /\ pub' = Publication(pub'.name, pub'.doc)
           /\ pc = "log" => pub'.name = Log
           /\ pc = "budget" => pub'.name = Budget
           /\ pc = "identify" => pub'.name = Pid /\ pub'.doc = PidOf(build) /\ file[Pid] = Absent
           /\ pc \in PersistPoints => pub'.name = Run /\ pub'.doc = mem /\ bound
           /\ pc = "prefix" => /\ pub'.name = Metrics /\ file[Metrics] \in MetricsDocs
                               /\ pub'.doc = MetricsOf(SubSeq(file[Metrics].rows, 1, n))
                               /\ pub'.doc \in MetricsDocs /\ Len(pub'.doc.rows) = n
                               /\ n <= Len(file[Metrics].rows)
<1>1. Shapes
  BY ShapeIs
<1>a. /\ Run \in Names /\ Pid \in Names /\ Metrics \in Names /\ Log \in Names /\ Budget \in Names
      /\ Run \notin {Pid, Metrics, Log, Budget} /\ Pid \notin {Run, Metrics, Log, Budget}
      /\ Metrics \notin {Run, Pid, Log, Budget}
  BY NameFacts
<1>b. \A m, d: LET p == Publication(m, d) IN p.name = m /\ p.doc = d
  BY DEF Publication
<1>2. CASE WriteLog
  <2>1. build \in Builds /\ pc = "log" /\ Writes(Log, LogOf(build))
    BY <1>1, <1>2 DEF WriteLog, Shapes, ProcessOK
  <2>2. Publishable(Log, LogOf(build)) /\ pc \notin PersistPoints
    BY <1>a, <2>1, LaunchFacts DEF Publishable, PersistPoints
  <2> QED BY <1>b, <2>1, <2>2 DEF Writes, diskVars, memoryVars, recoveryVars, exportVars
<1>3. CASE WriteBudget
  <2>1. pc = "budget" /\ Writes(Budget, FixedBudget)
    BY <1>3 DEF WriteBudget
  <2>2. Publishable(Budget, FixedBudget) /\ pc \notin PersistPoints
    BY <1>a, <2>1, LaunchFacts DEF Publishable, PersistPoints
  <2> QED BY <1>b, <2>1, <2>2 DEF Writes, diskVars, memoryVars, recoveryVars, exportVars
<1>4. CASE WritePid /\ pc' # "down"
  <2>1. build \in Builds /\ pc = "identify" /\ Writes(Pid, PidOf(build)) /\ file[Pid] = Absent
    BY <1>1, <1>4 DEF WritePid, Refuse, Down, Writes, Shapes, ProcessOK
  <2>2. PidOf(build) \in PidDocs
    BY <2>1 DEF PidOf, PidDocs
  <2>3. Publishable(Pid, PidOf(build)) /\ pc \notin PersistPoints
    BY <1>a, <2>1, <2>2, LaunchFacts DEF Publishable, PersistPoints
  <2> QED BY <1>b, <2>1, <2>3 DEF Writes, diskVars, memoryVars, recoveryVars, exportVars
<1>5. CASE WritePrefix
  <2> DEFINE r == SubSeq(file[Metrics].rows, 1, n)
  <2>1. pc = "prefix" /\ pub.at = "idle" /\ Writes(Metrics, MetricsOf(r))
    BY <1>5 DEF WritePrefix, Writes
  <2>2. file[Metrics] \in MetricsDocs /\ n <= Len(file[Metrics].rows) /\ n \in Nat
    BY <1>1, <2>1, HorizonIs DEF Shapes, Files, NameFiles, Present, Lengths, ProcessOK
  <2>3. r \in Rows /\ Len(r) = n
    BY <2>2, RowsCut, MetricsDocsAre
  <2> HIDE DEF r
  <2>4. MetricsOf(r) \in MetricsDocs /\ MetricsOf(r).rows = r
    BY <2>3, MetricsDocsAre
  <2>5. Publishable(Metrics, MetricsOf(r)) /\ pc \notin PersistPoints
    BY <1>a, <2>1, <2>4, LaunchFacts DEF Publishable, PersistPoints
  <2>6. pub' = Publication(Metrics, MetricsOf(r)) /\ pub'.name = Metrics /\ pub'.doc = MetricsOf(r)
    BY <1>b, <2>1 DEF Writes
  <2>7. pub'.doc \in MetricsDocs /\ Len(pub'.doc.rows) = n
    BY <2>3, <2>4, <2>6
  <2> QED BY <2>1, <2>2, <2>5, <2>6, <2>7 DEF r, Writes, diskVars, memoryVars, recoveryVars, exportVars
<1>6. CASE Persist
  <2>1. mem \in RunDocuments /\ pc \in PersistPoints /\ Writes(Run, mem) /\ bound
    BY <1>1, <1>6 DEF Persist, PersistPoints, Shapes, ProcessOK
  <2>2. Publishable(Run, mem) /\ pc \notin {"log", "budget", "identify", "prefix"}
    BY <1>a, <2>1, LaunchFacts DEF Publishable, PersistPoints
  <2> QED BY <1>b, <2>1, <2>2 DEF Writes, diskVars, memoryVars, recoveryVars, exportVars
<1> QED BY <1>2, <1>3, <1>4, <1>5, <1>6 DEF Begins

LEMMA BeginsShape ==
    ASSUME Shape, Begins, UNCHANGED exportVars
    PROVE  Shape' /\ SameView /\ Recorded' = Recorded /\ Ended' = Ended
<1>1. Shapes
  BY ShapeIs
<1>2. /\ UNCHANGED <<file, staged, previous, dirs, op, pc, build, mem, n, net, bound,
                     pids, tails, moved, hidden, adapter, metadata, export>>
      /\ pub.at = "idle" /\ pc \in PersistPoints \cup {"log", "budget", "identify", "prefix"}
      /\ Publishable(pub'.name, pub'.doc) /\ pub' = Publication(pub'.name, pub'.doc)
      /\ pc = "log" => pub'.name = Log
      /\ pc = "budget" => pub'.name = Budget
      /\ pc = "identify" => pub'.name = Pid /\ pub'.doc = PidOf(build) /\ file[Pid] = Absent
      /\ pc \in PersistPoints => pub'.name = Run /\ pub'.doc = mem
      /\ pc = "prefix" => /\ pub'.name = Metrics /\ pub'.doc \in MetricsDocs /\ Len(pub'.doc.rows) = n
  BY BeginsAre
<1>3. Files' /\ pub'.at = "stage"
  BY <1>1, <1>2, FilesBegin DEF Shapes
<1>4. SameView /\ Recorded' = Recorded /\ Ended' = Ended /\ Missing(Metrics)' = Missing(Metrics)
  BY <1>2, SameDisk
<1>5. Document' = Document
  BY <1>4 DEF SameView
<1>6. Publisher'
  BY <1>2, <1>3 DEF Publisher, PersistPoints, WritingPoints
<1>7. Present'
  BY <1>1, <1>2, <1>3, <1>4, <1>5 DEF Shapes, Present
<1>8. ProcessOK'
  BY <1>1, <1>2, <1>3 DEF Shapes, ProcessOK
<1>9. Counted' /\ OthersType'
  BY <1>1, <1>2 DEF Shapes, Counted, OthersType
<1>10. Lengths'
  BY <1>1, <1>2, <1>3 DEF Shapes, Lengths
<1>11. StoreShape'
  BY <1>1, <1>2 DEF Shapes, StoreShape
<1>12. Shapes'
  BY <1>3, <1>6, <1>7, <1>8, <1>9, <1>10, <1>11 DEF Shapes
<1>13. Shape'
  BY <1>12, ShapeIs, PTL
<1> QED BY <1>4, <1>13

\* The checkpoint is saved: run.json is to name it.
LEMMA SavedShape ==
    ASSUME Shape, Saved
    PROVE  /\ Shape' /\ SameView /\ Recorded' = Recorded /\ Ended' = Ended
           /\ pc = "saving" /\ op.at = "returned" /\ op' = NoOp /\ pc' = "commit"
           /\ op.ckpt = [step |-> n, build |-> build]
           /\ pub'.at = "stage" /\ pub'.doc.last = op.ckpt
           /\ UNCHANGED <<dirs, build, mem, n, bound, pids, tails, moved, adapter, metadata, export>>
<1>1. Shapes
  BY ShapeIs
<1>2. /\ UNCHANGED <<file, staged, previous, dirs, build, mem, n, net, bound,
                     pids, tails, moved, hidden, adapter, metadata, export>>
      /\ pc = "saving" /\ op.at = "returned" /\ op' = NoOp /\ pc' = "commit"
      /\ pub' = Publication(Run, [mem EXCEPT !.completed = n, !.last = op.ckpt, !.count = @ + 1])
  BY DEF Saved, Goes, diskVars, memoryVars, recoveryVars, exportVars
<1>3. op.ckpt = [step |-> n, build |-> build] /\ op.ckpt \in Checkpoints /\ op.ckpt.step = n
  BY <1>1, <1>2 DEF Shapes, StoreShape
<1>4. pub' = Publication(Run, NewDocument)
  BY <1>2, <1>3 DEF NewDocument
<1>5. /\ mem \in RunDocuments /\ mem # Absent /\ n \in 1..Horizon /\ n \in 0..Horizon /\ build \in Builds
      /\ mem.count \in 0..Horizon /\ mem.last \in Checkpoints \cup {Absent}
  BY <1>1, <1>2, <1>3, CheckpointFacts, LaunchFacts, RunDocumentFacts DEF Shapes, ProcessOK
<1>6. mem.count + 1 \in 0..Horizon
  <2>1. mem.count < n
    BY <1>1, <1>2, <1>5, CheckpointFacts DEF Shapes, Counted
  <2> QED BY <1>5, <2>1, HorizonIs
<1>7. NewDocument \in RunDocuments /\ NewDocument.last = op.ckpt
  <2>1. NewDocument = [mem EXCEPT !.completed = n, !.last = op.ckpt, !.count = mem.count + 1]
    BY <1>3, <1>5 DEF NewDocument, RunDocuments
  <2> QED BY <1>3, <1>5, <1>6, <2>1 DEF RunDocuments
<1>8. Publishable(Run, NewDocument)
  BY <1>7, LaunchFacts, NameFacts DEF Publishable
<1>9. Files' /\ pub'.at = "stage" /\ pub'.name = Run /\ pub'.doc = NewDocument
  BY <1>1, <1>2, <1>4, <1>8, FilesBegin DEF Shapes
<1>10. NewDocument' = NewDocument
  BY <1>2 DEF NewDocument
<1>11. SameView /\ Recorded' = Recorded /\ Ended' = Ended /\ Missing(Metrics)' = Missing(Metrics)
  BY <1>2, SameDisk
<1>12. Publisher'
  BY <1>2, <1>9, <1>10 DEF Publisher, PersistPoints, WritingPoints
<1>13. Present'
  BY <1>1, <1>2, <1>11 DEF Shapes, Present, Early, Resuming
<1>14. ProcessOK'
  <2>1. bound
    BY <1>1, <1>2, RestingIs DEF Shapes, Publisher, ProcessOK
  <2> QED BY <1>1, <1>2, <1>9, <2>1 DEF Shapes, ProcessOK, BeforeLoad, Early, Points, LoopPoints
<1>15. Counted'
  BY <1>1, <1>2, <1>5 DEF Shapes, Counted
<1>16. Lengths'
  BY <1>1, <1>2 DEF Shapes, Lengths, ExportPoints, Counting
<1>17. StoreShape' /\ OthersType'
  BY <1>1, <1>2, RestingIs DEF Shapes, StoreShape, OthersType
<1>18. Shapes'
  BY <1>9, <1>12, <1>13, <1>14, <1>15, <1>16, <1>17 DEF Shapes
<1>19. Shape'
  BY <1>18, ShapeIs, PTL
<1> QED BY <1>2, <1>3, <1>7, <1>9, <1>11, <1>19
-----------------------------------------------------------------------------
\* A document was written and the process goes on.
Written ==
    \/ LogWritten /\ UNCHANGED exportVars
    \/ BudgetWritten /\ UNCHANGED exportVars
    \/ PidWritten /\ UNCHANGED exportVars
    \/ PrefixWritten
    \/ Persisted /\ pc' # "down"
    \/ Committed

LEMMA WrittenIs ==
    ASSUME Shape, Written
    PROVE  /\ UNCHANGED <<file, staged, previous, dirs, op, build, n, net, bound,
                          pids, tails, moved, hidden, adapter, metadata, export>>
           /\ pub.at = "done" /\ file[pub.name] = pub.doc /\ pub' = NoPublication /\ op = NoOp /\ bound
           /\ mem \in RunDocuments /\ mem' \in RunDocuments
           /\ \/ pc = "log" /\ pc' = "prestart" /\ mem' = mem
              \/ pc = "budget" /\ pc' = "identify" /\ mem' = mem
              \/ /\ pc = "identify" /\ pc' = "announce" /\ mem' = [mem EXCEPT !.status = "running", !.process = build]
                 /\ file[Pid] = PidOf(build)
                 /\ mem'.last = mem.last /\ mem'.count = mem.count /\ mem'.process = build
                 /\ mem'.recovered = mem.recovered /\ mem'.metrics = mem.metrics /\ mem'.status = "running"
              \/ pc = "prefix" /\ pc' = "recopied" /\ mem' = mem /\ file[Metrics] = pub.doc
              \/ pc = "announce" /\ pc' = "metrics" /\ mem' = mem /\ file[Run] = mem
              \/ pc = "recopied" /\ pc' = "loop" /\ mem' = mem /\ file[Run] = mem
              \/ pc = "exporting" /\ pc' = "adapter" /\ mem' = mem /\ file[Run] = mem
              \/ pc = "commit" /\ pc' = "loop" /\ mem' = pub.doc /\ file[Run] = pub.doc
<1>1. Shapes
  BY ShapeIs
<1>2. pub.at = "done" /\ pc \notin {"down", "restore", "handle", "load", "saving"}
  BY DEF Written, LogWritten, BudgetWritten, PidWritten, PrefixWritten, Persisted, Committed, Wrote, Down,
     PersistPoints
<1>3. pub.at # "idle" /\ file[pub.name] = pub.doc
  BY <1>1, <1>2 DEF Shapes, Files, PubFiles
<1>4. /\ op = NoOp /\ bound /\ mem \in RunDocuments /\ build \in Builds /\ mem # Absent
  BY <1>1, <1>2, LaunchFacts DEF Shapes, StoreShape, ProcessOK
<1>5. /\ pc = "identify" => pub.name = Pid /\ pub.doc = PidOf(build)
      /\ pc = "prefix" => pub.name = Metrics
      /\ pc \in PersistPoints => pub.name = Run /\ pub.doc = mem
      /\ pc = "commit" => pub.name = Run /\ pub.doc \in RunDocuments
  BY <1>3, PublishableIs DEF PersistPoints, Publishable
<1>6. CASE LogWritten /\ UNCHANGED exportVars
  BY <1>2, <1>3, <1>4, <1>6 DEF LogWritten, Wrote, Goes, memoryVars, recoveryVars, exportVars, diskVars
<1>7. CASE BudgetWritten /\ UNCHANGED exportVars
  BY <1>2, <1>3, <1>4, <1>7 DEF BudgetWritten, Wrote, Goes, memoryVars, recoveryVars, exportVars, diskVars
<1>8. CASE PidWritten /\ UNCHANGED exportVars
  <2>1. /\ UNCHANGED <<file, staged, previous, dirs, op, build, n, net, bound,
                       pids, tails, moved, hidden, adapter, metadata, export>>
        /\ pub' = NoPublication /\ pc = "identify" /\ pc' = "announce"
        /\ mem' = [mem EXCEPT !.status = "running", !.process = build]
    BY <1>8 DEF PidWritten, Wrote, recoveryVars, exportVars, diskVars
  <2>2. /\ mem' \in RunDocuments /\ mem'.last = mem.last /\ mem'.count = mem.count /\ mem'.process = build
        /\ mem'.recovered = mem.recovered /\ mem'.metrics = mem.metrics /\ mem'.status = "running"
    <3>1. "running" \in Statuses
      BY DEF Statuses
    <3> QED BY <1>4, <2>1, <3>1 DEF RunDocuments
  <2>3. file[Pid] = PidOf(build)
    BY <1>3, <1>5, <2>1
  <2> QED BY <1>2, <1>3, <1>4, <2>1, <2>2, <2>3
<1>9. CASE PrefixWritten
  BY <1>2, <1>3, <1>4, <1>5, <1>9 DEF PrefixWritten, Wrote, Goes, memoryVars, recoveryVars, exportVars, diskVars
<1>10. CASE Persisted /\ pc' # "down"
  <2>1. pc \in {"announce", "recopied", "exporting"} /\ Wrote(Run) /\ Goes(Following[pc])
        /\ UNCHANGED <<build, recoveryVars, exportVars>>
    BY <1>10 DEF Persisted, PersistPoints, Down
  <2>2. /\ pc = "announce" => Following[pc] = "metrics"
        /\ pc = "recopied" => Following[pc] = "loop"
        /\ pc = "exporting" => Following[pc] = "adapter"
    BY DEF Following
  <2>3. file[Run] = mem
    BY <1>3, <1>5, <2>1 DEF PersistPoints
  <2> QED BY <1>2, <1>3, <1>4, <2>1, <2>2, <2>3 DEF Wrote, Goes, memoryVars, recoveryVars, exportVars, diskVars
<1>11. CASE Committed
  <2>1. /\ UNCHANGED <<file, staged, previous, dirs, op, build, n, net, bound,
                       pids, tails, moved, hidden, adapter, metadata, export>>
        /\ pub' = NoPublication /\ pc = "commit" /\ pc' = "loop" /\ mem' = pub.doc
    BY <1>11 DEF Committed, recoveryVars, exportVars, diskVars
  <2> QED BY <1>2, <1>3, <1>4, <1>5, <2>1
<1> QED BY <1>6, <1>7, <1>8, <1>9, <1>10, <1>11 DEF Written

LEMMA WrittenShape ==
    ASSUME Shape, Written
    PROVE  Shape' /\ SameView /\ Recorded' = Recorded /\ Ended' = Ended
<1>1. Shapes
  BY ShapeIs
<1>2. /\ UNCHANGED <<file, staged, previous, dirs, op, build, n, net, bound,
                     pids, tails, moved, hidden, adapter, metadata, export>>
      /\ pub.at = "done" /\ pub' = NoPublication /\ op = NoOp /\ bound
      /\ mem \in RunDocuments /\ mem' \in RunDocuments
      /\ \/ pc = "log" /\ pc' = "prestart" /\ mem' = mem
         \/ pc = "budget" /\ pc' = "identify" /\ mem' = mem
         \/ /\ pc = "identify" /\ pc' = "announce"
            /\ mem'.last = mem.last /\ mem'.count = mem.count
         \/ pc = "prefix" /\ pc' = "recopied" /\ mem' = mem
         \/ pc = "announce" /\ pc' = "metrics" /\ mem' = mem
         \/ pc = "recopied" /\ pc' = "loop" /\ mem' = mem
         \/ pc = "exporting" /\ pc' = "adapter" /\ mem' = mem
         \/ pc = "commit" /\ pc' = "loop" /\ mem' = pub.doc
  BY WrittenIs
<1>3. pc = "prefix" => file[Metrics] = pub.doc /\ pub.doc \in MetricsDocs /\ Len(pub.doc.rows) = n
  <2>1. pub.at # "idle"
    BY <1>2
  <2>2. pc = "prefix" => file[Metrics] = pub.doc
    BY WrittenIs
  <2> QED BY <1>1, <2>1, <2>2 DEF Shapes, Publisher
<1>4. Files' /\ pub'.at = "idle"
  BY <1>1, <1>2, FilesEnd DEF Shapes
<1>5. SameView /\ Recorded' = Recorded /\ Ended' = Ended /\ Missing(Metrics)' = Missing(Metrics)
  BY <1>2, SameDisk
<1>6. Document' = Document
  BY <1>5 DEF SameView
<1>7. Publisher'
  <2>1. op'.at = "idle" /\ pc' \notin {"load", "saving", "commit"}
    BY <1>2, RestingIs
  <2> QED BY <1>2, <1>4, <2>1 DEF Publisher
<1>8. Present'
  <2>1. ~Missing(Metrics)
    BY <1>1, <1>2, <1>3, LaunchFacts DEF Shapes, Present, Missing
  <2> QED BY <1>1, <1>2, <1>5, <1>6, <2>1 DEF Shapes, Present, Early, Resuming
<1>9. ProcessOK'
  BY <1>1, <1>2, <1>4 DEF Shapes, ProcessOK, BeforeLoad, Early, Points, StartPoints, LoopPoints, ExportPoints
<1>10. Counted'
  <2>1. mem # Absent
    BY <1>2, LaunchFacts
  <2>2. CASE pc # "commit"
    BY <1>1, <1>2, <2>1, <2>2 DEF Shapes, Counted
  <2>3. CASE pc = "commit"
    <3>1. pub.at # "idle"
      BY <1>2
    <3>2. pub.doc.last.step = n /\ pub.doc.last \in Checkpoints /\ pub.doc.count <= n
      BY <2>3, <3>1, PublishableIs
    <3>3. mem' = pub.doc /\ pc' = "loop"
      BY <1>2, <2>3
    <3>4. mem'.last.step = n /\ mem'.last # Absent /\ mem'.count <= n /\ n \in Nat /\ n' = n
      BY <1>1, <1>2, <3>2, <3>3, LaunchFacts, HorizonIs DEF Shapes, ProcessOK
    <3> QED BY <3>3, <3>4 DEF Counted
  <2> QED BY <2>2, <2>3
<1>11. Lengths'
  <2>1. file[Metrics] # Absent => Len(file[Metrics].rows) \in Nat
    BY <1>1, MetricsDocsAre, RowsAre, LenProperties DEF Shapes, Files, NameFiles
  <2>2. pc = "budget" => n = 0
    BY <1>1 DEF Shapes, ProcessOK, BeforeLoad, Early
  <2>3. pc = "prefix" => file[Metrics] # Absent /\ Len(file[Metrics].rows) = n
    BY <1>3, LaunchFacts
  <2>4. pc' \in {"identify", "announce", "metrics"} /\ file[Metrics] # Absent => n <= Len(file[Metrics].rows)
    BY <1>1, <1>2, <2>1, <2>2 DEF Shapes, Lengths
  <2>5. pc' \in {"recopied", "loop", "adapter"} => file[Metrics] # Absent /\ Len(file[Metrics].rows) = n
    BY <1>1, <1>2, <2>3 DEF Shapes, Lengths, Counting, ExportPoints
  <2>6. pc' \in {"prestart", "identify", "announce", "metrics", "recopied", "loop", "adapter"}
    BY <1>2
  <2> QED BY <1>2, <2>4, <2>5, <2>6 DEF Lengths, Counting, ExportPoints
<1>12. StoreShape' /\ OthersType'
  BY <1>1, <1>2, RestingIs DEF Shapes, StoreShape, OthersType
<1>13. Shapes'
  BY <1>4, <1>7, <1>8, <1>9, <1>10, <1>11, <1>12 DEF Shapes
<1>14. Shape'
  BY <1>13, ShapeIs, PTL
<1> QED BY <1>5, <1>14

LEMMA InterruptedShape ==
    ASSUME Shape, Interrupted
    PROVE  /\ Shape' /\ SameView /\ Recorded' = Recorded /\ Ended' = Ended
           /\ pc \in LoopPoints /\ pc' = "handle" /\ op' = NoOp /\ pub' = NoPublication
           /\ mem \in RunDocuments /\ mem' \in RunDocuments /\ mem'.last = mem.last
           /\ mem'.process = mem.process /\ mem'.recovered = mem.recovered
           /\ mem'.metrics = mem.metrics /\ mem'.status = "interrupted"
           /\ UNCHANGED <<file, staged, previous, dirs, build, n, net, bound,
                          pids, tails, moved, hidden, adapter, metadata, export>>
           /\ \/ pub.at = "idle" \/ pub.at = "failed" \/ pc = "saving"
<1>1. Shapes
  BY ShapeIs
<1>2. /\ UNCHANGED <<file, staged, previous, dirs, build, n, net, bound,
                     pids, tails, moved, hidden, adapter, metadata, export>>
      /\ pc \in LoopPoints /\ pc' = "handle" /\ op' = NoOp /\ pub' = NoPublication
      /\ mem' = [mem EXCEPT !.status = "interrupted", !.completed = n]
      /\ pub.at = "idle" \/ pub.at = "failed" \/ pc = "saving"
  BY DEF Interrupted, diskVars, recoveryVars, exportVars, LoopPoints
<1>3. Files' /\ pub'.at = "idle"
  BY <1>1, <1>2, FilesEnd DEF Shapes
<1>4. SameView /\ Recorded' = Recorded /\ Ended' = Ended
  BY <1>2, SameDisk
<1>5. mem \in RunDocuments /\ n \in 0..Horizon /\ mem # Absent
  BY <1>1, <1>2, LaunchFacts DEF Shapes, ProcessOK, LoopPoints
<1>6. /\ mem' \in RunDocuments /\ mem'.last = mem.last /\ mem'.count = mem.count
      /\ mem'.process = mem.process /\ mem'.recovered = mem.recovered
      /\ mem'.metrics = mem.metrics /\ mem'.status = "interrupted"
  <2>1. "interrupted" \in Statuses
    BY DEF Statuses
  <2> QED BY <1>2, <1>5, <2>1 DEF RunDocuments
<1>7. Publisher'
  BY <1>2, <1>3, RestingIs DEF Publisher, PersistPoints, WritingPoints
<1>8. Present' /\ Lengths'
  BY <1>2, <1>3 DEF Present, Lengths, Early, Resuming, ExportPoints, Counting
<1>9. ProcessOK'
  BY <1>1, <1>2, <1>3, <1>5, <1>6 DEF Shapes, ProcessOK, BeforeLoad, Early, Points, LoopPoints
<1>10. Counted'
  BY <1>1, <1>2, <1>5, <1>6 DEF Shapes, Counted, LoopPoints
<1>11. StoreShape' /\ OthersType'
  BY <1>1, <1>2, RestingIs DEF Shapes, StoreShape, OthersType
<1>12. Shapes'
  BY <1>3, <1>7, <1>8, <1>9, <1>10, <1>11 DEF Shapes
<1>13. Shape'
  BY <1>12, ShapeIs, PTL
<1> QED BY <1>2, <1>4, <1>5, <1>6, <1>13
-----------------------------------------------------------------------------
(* A publication under way.                                                *)

PubMove == PublishStep \/ PublicationFails

\* What the next process reads changes with the rename to the name only.
PubMoved ==
    /\ pub.name # Run => /\ file'[Run] = file[Run] /\ previous'[Run] = previous[Run]
                         /\ Document' = Document
    /\ pub.name # Metrics => /\ file'[Metrics] = file[Metrics] /\ previous'[Metrics] = previous[Metrics]
                             /\ Generation(Metrics)' = Generation(Metrics)
    /\ pub.name # Pid => file'[Pid] = file[Pid]
    /\ pub.name = Run =>
          \/ Document' = Document
          \/ /\ pub.at \in {"fresh", "swap"} /\ pub'.at \in {"drop", "done"} /\ PublishStep
             /\ Document' = pub.doc
    /\ pub.name = Metrics =>
          \/ Generation(Metrics)' = Generation(Metrics)
          \/ /\ pub.at \in {"fresh", "swap"} /\ pub'.at \in {"drop", "done"} /\ PublishStep
             /\ Generation(Metrics)' = pub.doc
    /\ pub.name = Pid => file'[Pid] = file[Pid] \/ (pub.at = "fresh" /\ file'[Pid] = pub.doc)

LEMMA PubMoveIs ==
    ASSUME Shape, PubMove
    PROVE  /\ Files' /\ PubMoved
           /\ pub.at \notin {"idle", "failed"} /\ pub'.at # "idle" /\ pub'.name = pub.name /\ pub'.doc = pub.doc
           /\ pub.at \in {"drop", "done"} => pub'.at \in {"done", "failed"}
           /\ PublicationFails => pub'.at = "failed"
           /\ PublishStep => pub'.at # "failed"
           /\ pc = "identify" => /\ pub'.at \notin {"aside", "swap", "drop", "stage"}
                                 /\ pub'.at = "fresh" => file'[Pid] = Absent
<1>1. Shapes /\ Files
  BY ShapeIs DEF Shapes
<1>2. pub.at \notin {"idle", "failed"}
  BY DEF PubMove, PublishStep, PublicationFails, WriteStaged, SetAside, PublishStaged, DropPrevious
<1>3. /\ Publishable(pub.name, pub.doc) /\ (pub.name = Pid => pub.at \notin {"aside", "swap", "drop"})
      /\ pub.name = Pid <=> pc = "identify"
  BY <1>2, PublishableIs
<1>4. /\ Files' /\ pub'.at # "idle" /\ pub'.name = pub.name /\ pub'.doc = pub.doc
      /\ pub.at \in {"drop", "done"} => pub'.at \in {"done", "failed"}
      /\ PublicationFails => pub'.at = "failed"
      /\ PublishStep => pub'.at # "failed"
      /\ \A k \in Names \ {pub.name}: file'[k] = file[k] /\ previous'[k] = previous[k]
      /\ \/ Generation(pub.name)' = Generation(pub.name)
         \/ /\ pub.at \in {"fresh", "swap"} /\ pub'.at \in {"drop", "done"} /\ PublishStep
            /\ Generation(pub.name)' = pub.doc
      /\ pub.name = Pid => /\ file'[Pid] = file[Pid] \/ (pub.at = "fresh" /\ file'[Pid] = pub.doc)
                           /\ pub.at = "stage" /\ file[Pid] = Absent => pub'.at \in {"fresh", "failed"}
                           /\ pub.at = "fresh" => pub'.at \in {"done", "failed"}
                           /\ pub.at = "done" => pub'.at = "failed"
  BY <1>1, <1>3, FilesMove DEF PubMove
<1>5. /\ Run \in Names /\ Metrics \in Names /\ Pid \in Names
  BY NameFacts
<1>6. /\ pub.name # Run => file'[Run] = file[Run] /\ previous'[Run] = previous[Run]
      /\ pub.name # Metrics => file'[Metrics] = file[Metrics] /\ previous'[Metrics] = previous[Metrics]
      /\ pub.name # Pid => file'[Pid] = file[Pid]
  BY <1>4, <1>5
<1>7. /\ pub.name # Run => Document' = Document
      /\ pub.name # Metrics => Generation(Metrics)' = Generation(Metrics)
  BY <1>6 DEF Document, Generation
<1>8. /\ pub.name = Run => Document = Generation(pub.name)
      /\ pub.name = Run => Document' = Generation(pub.name)'
      /\ pub.name = Metrics => Generation(Metrics) = Generation(pub.name)
      /\ pub.name = Metrics => Generation(Metrics)' = Generation(pub.name)'
  BY <1>4 DEF Document, Generation
<1>9. PubMoved
  BY <1>4, <1>6, <1>7, <1>8 DEF PubMoved
<1>10. ASSUME pc = "identify"
       PROVE  /\ pub'.at \notin {"aside", "swap", "drop", "stage"}
              /\ pub'.at = "fresh" => file'[Pid] = Absent
  <2>1. /\ pub.name = Pid /\ pub.at \in {"stage", "fresh", "done"}
        /\ pub.at \in {"stage", "fresh"} => file[Pid] = Absent
    <3>1. pub.at \in Point /\ pub.at # "idle"
      BY <1>1, <1>2 DEF Files, FilesType, PubTypes
    <3>2. pub.at \in {"stage", "fresh"} => file[Pid] = Absent
      BY <1>1, <1>10, <3>1 DEF Shapes, Publisher
    <3> QED BY <1>2, <1>3, <1>10, <3>1, <3>2 DEF Point
  <2> QED BY <1>4, <2>1
<1> QED BY <1>2, <1>4, <1>9, <1>10

LEMMA PublishingShape ==
    ASSUME Shape, Publishing \/ PublishingFails
    PROVE  /\ Shape' /\ PubMoved
           /\ pub.at \notin {"idle", "failed"} /\ pub'.at # "idle" /\ pub'.name = pub.name /\ pub'.doc = pub.doc
           /\ pub.at \in {"drop", "done"} => pub'.at \in {"done", "failed"}
           /\ UNCHANGED <<dirs, op, pc, build, mem, n, net, pids, tails, moved, hidden, adapter, metadata, export>>
           /\ pc \in (PersistPoints \cup WritingPoints) \ {"load", "saving"} /\ op = NoOp
           /\ \/ PublishStep /\ bound' = bound /\ pub'.at # "failed"
              \/ /\ PublicationFails /\ pub'.at = "failed" /\ Document' = Document
<1>1. Shapes
  BY ShapeIs
<1>2. /\ UNCHANGED <<dirs, op, pc, build, mem, n, net, pids, tails, moved, hidden, adapter, metadata, export>>
      /\ PubMove /\ op.at # "pointing"
      /\ \/ PublishStep /\ bound' = bound
         \/ PublicationFails /\ bound' \in BOOLEAN
  BY DEF Publishing, PublishingFails, PubMove, memoryVars, recoveryVars, exportVars
<1>3. /\ Files' /\ PubMoved
      /\ pub.at \notin {"idle", "failed"} /\ pub'.at # "idle" /\ pub'.name = pub.name /\ pub'.doc = pub.doc
      /\ pub.at \in {"drop", "done"} => pub'.at \in {"done", "failed"}
      /\ PublicationFails => pub'.at = "failed"
      /\ PublishStep => pub'.at # "failed"
      /\ pc = "identify" => /\ pub'.at \notin {"aside", "swap", "drop", "stage"}
                            /\ pub'.at = "fresh" => file'[Pid] = Absent
  BY <1>2, PubMoveIs
<1>4. pc \notin {"load", "saving"}
  BY <1>1, <1>2, <1>3, RestingIs DEF Shapes, Publisher
<1>5. /\ pc \in PersistPoints \cup WritingPoints
      /\ pub.name = Run <=> pc \in PersistPoints \cup {"commit"}
      /\ pub.name = Metrics <=> pc = "prefix"
      /\ pub.name = Pid <=> pc = "identify"
  BY <1>3, PublishableIs
<1>6. op = NoOp
  BY <1>1, <1>4 DEF Shapes, StoreShape
<1>7. PublicationFails => Document' = Document
  BY <1>3 DEF PubMoved
<1>8. NewDocument' = NewDocument
  BY <1>2 DEF NewDocument
<1>9. Publisher'
  BY <1>1, <1>2, <1>3, <1>4, <1>5, <1>8 DEF Shapes, Publisher
<1>10. Present'
  <2>1. pc # "prefix" => Missing(Metrics)' = Missing(Metrics)
    BY <1>3, <1>5 DEF PubMoved, Missing
  <2>2. pc \in Early => Document' = Document
    BY <1>3, <1>5 DEF PubMoved, Early, PersistPoints
  <2>3. pc \notin Resuming
    BY <1>4, <1>5 DEF Resuming, PersistPoints, WritingPoints
  <2> QED BY <1>1, <1>2, <1>3, <2>1, <2>2, <2>3 DEF Shapes, Present
<1>11. ProcessOK'
  BY <1>1, <1>2, <1>3 DEF Shapes, ProcessOK
<1>12. Counted' /\ OthersType'
  BY <1>1, <1>2 DEF Shapes, Counted, OthersType
<1>13. Lengths'
  <2>1. pc # "prefix" => file'[Metrics] = file[Metrics]
    BY <1>3, <1>5 DEF PubMoved
  <2> QED BY <1>1, <1>2, <1>3, <2>1 DEF Shapes, Lengths, Counting, ExportPoints
<1>14. StoreShape'
  BY <1>1, <1>2 DEF Shapes, StoreShape
<1>15. Shapes'
  BY <1>3, <1>9, <1>10, <1>11, <1>12, <1>13, <1>14 DEF Shapes
<1>16. Shape'
  BY <1>15, ShapeIs, PTL
<1> QED BY <1>2, <1>3, <1>4, <1>5, <1>6, <1>7, <1>16
-----------------------------------------------------------------------------
(* The calls of the checkpoint store.                                      *)

LEMMA AtIs ==
    ASSUME op \in OpType, NEW where \in OpPoints, At(where)
    PROVE  op' \in OpType /\ op'.at = where /\ op'.ckpt = op.ckpt /\ op'.spare = op.spare
BY DEF At, OpType

DirsOK == dirs \subseteq Entries /\ IsFiniteSet(dirs) /\ \A e \in dirs: e.whole

LEMMA RenamedIs ==
    ASSUME DirsOK, NEW e \in dirs, NEW kind \in Kinds, Renamed(e, kind)
    PROVE  /\ DirsOK'
           /\ \E g \in Entries: g.kind = kind /\ g.ckpt = e.ckpt /\ dirs' = (dirs \ {e}) \cup {g}
<1> DEFINE g == [e EXCEPT !.kind = kind]
<1>1. g \in Entries /\ g.kind = kind /\ g.ckpt = e.ckpt /\ g.whole = e.whole
  BY DEF DirsOK, Entries
<1>2. dirs' = (dirs \ {e}) \cup {g}
  BY DEF Renamed
<1>3. IsFiniteSet((dirs \ {e}) \cup {g})
  BY FS_RemoveElement, FS_AddElement DEF DirsOK
<1> HIDE DEF g
<1> QED BY <1>1, <1>2, <1>3 DEF DirsOK

LEMMA PublishedOK ==
    ASSUME DirsOK
    PROVE  /\ Published \in SUBSET Entries /\ IsFiniteSet(Published)
           /\ \A e \in Published: e \in dirs /\ e.kind = "step" /\ e.whole /\ e.ckpt \in Checkpoints
           /\ \A e \in Published: e.ckpt.step \in Nat /\ e.ckpt.step \in 1..Horizon /\ e.ckpt.build \in Builds
<1>1. Published \in SUBSET dirs
  BY DEF Published
<1>2. \A e \in Published: e \in dirs /\ e.kind = "step" /\ e.whole /\ e.ckpt \in Checkpoints
  BY <1>1 DEF DirsOK, Published, Entries
<1> QED BY <1>1, <1>2, FS_Subset, CheckpointFacts DEF DirsOK

\* A set of directories has one of the lowest step and one of the highest.
LEMMA LeastNumber ==
    ASSUME NEW T \in SUBSET Nat, T # {}
    PROVE  \E x \in T: \A y \in T: x <= y
<1> DEFINE R == {ss \in Nat \X Nat: ss[1] < ss[2]}
<1>1. IsWellFoundedOn(R, Nat)
  BY NatLessThanWellFounded DEF OpToRel
<1>2. PICK x \in T: \A y \in T: ~ (<<y, x>> \in R)
  BY <1>1, WFMin
<1>3. ASSUME NEW y \in T, y < x PROVE FALSE
  <2>1. y \in Nat /\ x \in Nat /\ <<y, x>> \in Nat \X Nat
    OBVIOUS
  <2>2. <<y, x>>[1] = y /\ <<y, x>>[2] = x
    OBVIOUS
  <2>3. <<y, x>> \in R
    BY <1>3, <2>1, <2>2
  <2> QED BY <1>2, <2>3
<1> QED BY <1>3

LEMMA LeastStep ==
    ASSUME NEW E \in SUBSET Entries, E # {}
    PROVE  \E e \in E: \A f \in E: e.ckpt.step <= f.ckpt.step
<1> DEFINE T == {e.ckpt.step: e \in E}
<1>1. T \in SUBSET Nat /\ T # {}
  BY CheckpointFacts DEF Entries
<1>2. PICK x \in T: \A y \in T: x <= y
  BY <1>1, LeastNumber
<1> QED BY <1>2

LEMMA GreatestStep ==
    ASSUME NEW E \in SUBSET Entries, E # {}
    PROVE  \E e \in E: \A f \in E: f.ckpt.step <= e.ckpt.step
<1> DEFINE T == {Horizon - e.ckpt.step: e \in E}
<1>0. \A e \in E: e.ckpt.step \in 1..Horizon
  BY CheckpointFacts DEF Entries
<1>1. T \in SUBSET Nat /\ T # {}
  BY <1>0, HorizonIs
<1>2. PICK x \in T: \A y \in T: x <= y
  BY <1>1, LeastNumber
<1>3. PICK e \in E: x = Horizon - e.ckpt.step
  BY <1>2
<1>4. \A f \in E: Horizon - e.ckpt.step <= Horizon - f.ckpt.step
  BY <1>2, <1>3
<1> QED BY <1>0, <1>4, HorizonIs

LEMMA NewestIs ==
    ASSUME NEW E \in SUBSET Entries, E # {}
    PROVE  Newest(E) \in E /\ \A f \in E: f.ckpt.step <= Newest(E).ckpt.step
BY GreatestStep DEF Newest

LEMMA OldestIs ==
    ASSUME NEW E \in SUBSET Entries, E # {}
    PROVE  Oldest(E) \in E /\ \A f \in E: Oldest(E).ckpt.step <= f.ckpt.step
BY LeastStep DEF Oldest

\* More than two directories are two besides any one.
LEMMA TwoOthers ==
    ASSUME NEW E, IsFiniteSet(E), Cardinality(E) > KeepLast, NEW o \in E
    PROVE  \E f, g \in E \ {o}: f # g
<1>1. Cardinality(E) \in Nat /\ KeepLast \in Nat /\ KeepLast > 1
  BY FS_CardinalityType, LaunchFacts
<1>2. IsFiniteSet(E \ {o}) /\ Cardinality(E \ {o}) = Cardinality(E) - 1
  BY FS_RemoveElement
<1>3. Cardinality(E \ {o}) > 1
  BY <1>1, <1>2
<1>4. PICK f \in E \ {o}: TRUE
  <2>1. E \ {o} # {}
    BY <1>3, FS_EmptySet
  <2> QED BY <2>1
<1>5. Cardinality({f}) = 1
  BY FS_Singleton
<1>6. E \ {o} # {f}
  BY <1>3, <1>5
<1> QED BY <1>4, <1>6

\* What pruning takes is neither the newest nor next to it in age.
LEMMA PruneTakes ==
    ASSUME DirsOK, Cardinality(Published) > KeepLast
    PROVE  LET o == Oldest(Published) IN
              /\ o \in Published /\ \A f \in Published: o.ckpt.step <= f.ckpt.step
              /\ \E f, g \in Published \ {o}: f # g
<1> DEFINE o == Oldest(Published)
<1>1. Published \in SUBSET Entries /\ IsFiniteSet(Published)
  BY PublishedOK
<1>2. Published # {}
  <2>1. Cardinality(Published) # 0
    BY LaunchFacts
  <2> QED BY <2>1, FS_EmptySet
<1>3. o \in Published /\ \A f \in Published: o.ckpt.step <= f.ckpt.step
  BY <1>1, <1>2, OldestIs
<1> HIDE DEF o
<1>4. \E f, g \in Published \ {o}: f # g
  BY <1>1, <1>3, TwoOthers
<1> QED BY <1>3, <1>4 DEF o
-----------------------------------------------------------------------------
\* Where the steps of a call lead.
StoreMoved ==
    /\ op' \in OpType /\ op'.ckpt = op.ckpt /\ op'.spare = op.spare
    /\ \/ op.at = "staged" /\ op'.at \in {"discarded", "replaced", "pointer"}
       \/ op.at \in {"discarded", "replaced", "recover"} /\ op'.at = "pointer"
       \/ op.at \in OnDisk \ {"returned"} /\ op'.at \in OnDisk
       \/ op.at \notin {"idle", "returned", "raised"} /\ op'.at = "raised"

LEMMA StoreMovesIs ==
    ASSUME op \in OpType, StoreStep \/ StoreFails
    PROVE  StoreMoved
<1>1. CASE SaveDiscard \/ SaveReplace \/ SavePublish \/ SaveRemove \/ LoadRecover
  BY <1>1, AtIs DEF SaveDiscard, SaveReplace, SavePublish, SaveRemove, LoadRecover, OpPoints, StoreMoved
<1>2. CASE WritePointer \/ PointerWritten \/ PublishPointer \/ PruneRefused \/ PruneMove \/ PruneRemove
  BY <1>2, AtIs DEF WritePointer, PointerWritten, PublishPointer, PruneRefused, PruneMove, PruneRemove,
     OpPoints, OnDisk, StoreMoved
<1>3. CASE Pruned
  <2>1. PICK a \in {"returned", "raised"}: At(a)
    BY <1>3 DEF Pruned
  <2>2. op' \in OpType /\ op'.at = a /\ op'.ckpt = op.ckpt /\ op'.spare = op.spare
    BY <2>1, AtIs DEF OpPoints
  <2> QED BY <1>3, <2>1, <2>2 DEF Pruned, OnDisk, StoreMoved
<1>4. CASE StoreFails
  BY <1>4, AtIs DEF StoreFails, OpPoints, StoreMoved
<1> QED BY <1>1, <1>2, <1>3, <1>4 DEF StoreStep

\* What the steps of a call do to the directories.
DirsMoved ==
    \/ UNCHANGED dirs
    \/ op.at = "discarded" /\ dirs' = {e \in dirs: e.kind # "discarded"}
    \/ op.at = "pruning" /\ dirs' = {e \in dirs: e.kind # "pruned"}
    \/ \E e \in dirs, g \in Entries:
          /\ dirs' = (dirs \ {e}) \cup {g} /\ g.ckpt = e.ckpt
          /\ \/ op.at = "staged" /\ op'.at = "discarded" /\ e.kind = "stage" /\ g.kind = "discarded"
                /\ Target # {}
             \/ op.at = "staged" /\ op'.at = "replaced" /\ e.kind = "step" /\ g.kind = "recovery"
                /\ Target # {}
             \/ op.at \in {"staged", "replaced"} /\ op'.at = "pointer" /\ e.kind = "stage" /\ g.kind = "step"
             \/ op.at = "recover" /\ op'.at = "pointer" /\ e.kind = "step" /\ g.kind = "recovery"
                /\ e.ckpt = op.spare
             \/ op.at = "prune" /\ op'.at = "pruning" /\ e = Oldest(Published) /\ e \in Published
                /\ g.kind = "pruned" /\ Cardinality(Published) > KeepLast

LEMMA DirsMovesIs ==
    ASSUME op \in OpType, DirsOK, op.at \in {"staged", "replaced"} => \E e \in dirs: e.kind = "stage",
           StoreStep \/ StoreFails
    PROVE  DirsOK' /\ DirsMoved
<1>a. Published \in SUBSET dirs /\ \A e \in Published: e.kind = "step"
  BY DEF Published
<1>b. ASSUME NEW e \in dirs, NEW kind \in Kinds, Renamed(e, kind)
      PROVE  DirsOK' /\ \E g \in Entries: g.kind = kind /\ g.ckpt = e.ckpt /\ dirs' = (dirs \ {e}) \cup {g}
  BY <1>b, RenamedIs
<1>c. op.at \in {"staged", "replaced"} => Staged \in dirs /\ Staged.kind = "stage"
  BY DEF Staged
<1>d. /\ "step" \in Kinds /\ "discarded" \in Kinds /\ "recovery" \in Kinds /\ "pruned" \in Kinds
  BY DEF Kinds
<1>e. ASSUME dirs' \in SUBSET dirs PROVE DirsOK'
  BY <1>e, FS_Subset DEF DirsOK
<1>1. CASE SaveDiscard
  <2>1. op.at = "staged" /\ op'.at = "discarded" /\ Renamed(Staged, "discarded") /\ Target # {}
    BY <1>1, AtIs DEF SaveDiscard, OpPoints
  <2> QED BY <1>b, <1>c, <1>d, <2>1 DEF DirsMoved
<1>2. CASE SaveRemove
  <2>1. op.at = "discarded" /\ dirs' = {e \in dirs: e.kind # "discarded"}
    BY <1>2 DEF SaveRemove
  <2> QED BY <1>e, <2>1 DEF DirsMoved
<1>3. CASE SaveReplace
  <2>1. op.at = "staged" /\ op'.at = "replaced" /\ \E e \in Target: Renamed(e, "recovery")
    BY <1>3, AtIs DEF SaveReplace, OpPoints
  <2>2. PICK e \in Target: Renamed(e, "recovery")
    BY <2>1
  <2>3. e \in dirs /\ e.kind = "step" /\ Target # {}
    BY <1>a, <2>2 DEF Target
  <2> QED BY <1>b, <1>d, <2>1, <2>2, <2>3 DEF DirsMoved
<1>4. CASE SavePublish
  <2>1. op.at \in {"staged", "replaced"} /\ op'.at = "pointer" /\ Renamed(Staged, "step")
    BY <1>4, AtIs DEF SavePublish, OpPoints
  <2> QED BY <1>b, <1>c, <1>d, <2>1 DEF DirsMoved
<1>5. CASE LoadRecover
  <2>1. op.at = "recover" /\ op'.at = "pointer" /\ \E e \in Published: e.ckpt = op.spare /\ Renamed(e, "recovery")
    BY <1>5, AtIs DEF LoadRecover, OpPoints
  <2>2. PICK e \in Published: e.ckpt = op.spare /\ Renamed(e, "recovery")
    BY <2>1
  <2>3. e \in dirs /\ e.kind = "step"
    BY <1>a
  <2> QED BY <1>b, <1>d, <2>1, <2>2, <2>3 DEF DirsMoved
<1>6. CASE PruneMove
  <2>1. /\ op.at = "prune" /\ op'.at = "pruning" /\ Renamed(Oldest(Published), "pruned")
        /\ Cardinality(Published) > KeepLast
    BY <1>6, AtIs DEF PruneMove, OpPoints
  <2>2. PICK e \in Published: e = Oldest(Published)
    BY <2>1, PruneTakes
  <2>3. e \in dirs /\ Renamed(e, "pruned")
    BY <1>a, <2>1, <2>2
  <2>4. DirsOK' /\ \E g \in Entries: g.kind = "pruned" /\ g.ckpt = e.ckpt /\ dirs' = (dirs \ {e}) \cup {g}
    BY <1>b, <1>d, <2>3
  <2> QED BY <2>1, <2>2, <2>3, <2>4 DEF DirsMoved
<1>7. CASE PruneRemove
  <2>1. op.at = "pruning" /\ dirs' = {e \in dirs: e.kind # "pruned"}
    BY <1>7 DEF PruneRemove
  <2> QED BY <1>e, <2>1 DEF DirsMoved
<1>8. CASE WritePointer \/ PublishPointer \/ PointerWritten \/ PruneRefused \/ Pruned \/ StoreFails
  <2>1. UNCHANGED dirs
    BY <1>8 DEF WritePointer, PublishPointer, PointerWritten, PruneRefused, Pruned, StoreFails
  <2> QED BY <1>e, <2>1 DEF DirsMoved
<1> QED BY <1>1, <1>2, <1>3, <1>4, <1>5, <1>6, <1>7, <1>8 DEF StoreStep
-----------------------------------------------------------------------------
LEMMA StoreFilesIs ==
    ASSUME Shape, pc \in {"load", "saving"}, StoreStep \/ StoreFails
    PROVE  /\ Files'
           /\ \A m \in {Run, Metrics, Pid}: file'[m] = file[m] /\ previous'[m] = previous[m]
           /\ op'.at \notin {"pointing", "raised"} => pub' = NoPublication
           /\ op'.at = "raised" => pub'.at \in {"idle", "failed"}
           /\ pub'.at # "idle" => pub'.name = Latest
           /\ pub.at = "failed" => pub'.at = "failed"
<1>1. Shapes /\ Files
  BY ShapeIs DEF Shapes
<1>2. /\ op \in OpType
      /\ op.at \notin {"idle", "raised"} => op.ckpt \in Checkpoints
      /\ op.at \notin {"pointing", "raised"} => pub = NoPublication
      /\ op.at = "raised" => pub.at \in {"idle", "failed"}
      /\ pub.at # "idle" => pub.name = Latest
  BY <1>1 DEF Shapes, StoreShape, Publisher
<1>3. StoreMoved
  BY <1>2, StoreMovesIs
<1>4. Run # Latest /\ Metrics # Latest /\ Pid # Latest /\ Latest \in Names
  BY NameFacts
<1>5. CASE op.at # "pointing" /\ UNCHANGED <<file, staged, previous, pub>>
  <2>1. Files'
    BY <1>1, <1>5, FilesStay
  <2>2. op.at # "raised"
    BY <1>3 DEF StoreMoved, OnDisk
  <2>3. pub' = NoPublication /\ pub.at = "idle"
    BY <1>2, <1>5, <2>2, RestingIs
  <2> QED BY <1>5, <2>1, <2>3
<1>6. CASE WritePointer
  <2>1. pub.at = "idle" /\ op.ckpt \in Checkpoints /\ op'.at = "pointing"
    BY <1>2, <1>6, RestingIs, AtIs DEF WritePointer, OpPoints
  <2>2. UNCHANGED <<file, staged, previous>> /\ pub' = Publication(Latest, op.ckpt)
    BY <1>6 DEF WritePointer
  <2>3. Publishable(Latest, op.ckpt)
    BY <1>4, <2>1, LaunchFacts DEF Publishable
  <2>4. Files' /\ pub'.at = "stage" /\ pub'.name = Latest
    BY <1>1, <2>2, <2>3, FilesBegin
  <2> QED BY <2>1, <2>2, <2>4
<1>7. CASE PublishPointer \/ (StoreFails /\ op.at = "pointing")
  <2>1. PubMove /\ op.at = "pointing"
    BY <1>7 DEF PublishPointer, StoreFails, PubMove
  <2>2. /\ Files' /\ PubMoved /\ pub.at \notin {"idle", "failed"} /\ pub'.name = pub.name
        /\ PublicationFails => pub'.at = "failed"
    BY <2>1, PubMoveIs
  <2>3. pub.name = Latest
    BY <1>2, <2>2
  <2>4. /\ file'[Run] = file[Run] /\ previous'[Run] = previous[Run]
        /\ file'[Metrics] = file[Metrics] /\ previous'[Metrics] = previous[Metrics]
        /\ file'[Pid] = file[Pid]
    BY <1>4, <2>2, <2>3 DEF PubMoved
  <2>5. previous'[Pid] = previous[Pid]
    BY <1>1, <2>2 DEF Files, NameFiles
  <2>6. \/ PublishPointer /\ op'.at = "pointing"
        \/ PublicationFails /\ op'.at = "raised"
    BY <1>2, <1>7, AtIs DEF PublishPointer, StoreFails, OpPoints
  <2> QED BY <2>2, <2>3, <2>4, <2>5, <2>6
<1>8. CASE PointerWritten
  <2>1. pub.at = "done" /\ op'.at = "prune"
    BY <1>2, <1>8, AtIs DEF PointerWritten, OpPoints
  <2>2. UNCHANGED <<file, staged, previous>> /\ pub' = NoPublication
    BY <1>8 DEF PointerWritten
  <2>3. Files'
    BY <1>1, <2>2, FilesEnd
  <2> QED BY <2>1, <2>2, <2>3, RestingIs
<1> QED BY <1>5, <1>6, <1>7, <1>8
        DEF StoreStep, StoreFails, SaveDiscard, SaveRemove, SaveReplace, SavePublish, LoadRecover,
            PruneRefused, PruneMove, PruneRemove, Pruned, fileVars

LEMMA InStoreShape ==
    ASSUME Shape, InStore \/ InStoreFails
    PROVE  /\ Shape' /\ SameView /\ Recorded' = Recorded /\ Ended' = Ended
           /\ UNCHANGED <<pc, build, mem, n, net, bound, pids, tails, moved, hidden, adapter, metadata, export>>
           /\ UNCHANGED <<file[Run], file[Metrics]>>
           /\ pc \in {"load", "saving"} /\ StoreMoved /\ DirsMoved /\ DirsOK
           /\ StoreStep \/ StoreFails
<1>1. Shapes
  BY ShapeIs
<1>2. /\ UNCHANGED <<pc, build, mem, n, net, bound, pids, tails, moved, hidden, adapter, metadata, export>>
      /\ pc \in {"load", "saving"} /\ (StoreStep \/ StoreFails)
  BY DEF InStore, InStoreFails, memoryVars, recoveryVars, exportVars
<1>3. /\ Files'
      /\ \A m \in {Run, Metrics, Pid}: file'[m] = file[m] /\ previous'[m] = previous[m]
      /\ op'.at \notin {"pointing", "raised"} => pub' = NoPublication
      /\ op'.at = "raised" => pub'.at \in {"idle", "failed"}
      /\ pub'.at # "idle" => pub'.name = Latest
      /\ pub.at = "failed" => pub'.at = "failed"
  BY <1>2, StoreFilesIs
<1>4. SameView /\ Recorded' = Recorded /\ Ended' = Ended /\ Missing(Metrics)' = Missing(Metrics)
  BY <1>3, SameFiles
<1>5. /\ DirsOK /\ op \in OpType
      /\ op.at \in {"staged", "replaced"} => \E e \in dirs: e.kind = "stage"
      /\ op.at \notin {"idle", "raised"} => op.ckpt \in Checkpoints
  BY <1>1 DEF Shapes, StoreShape, DirsOK
<1>6. StoreMoved /\ DirsOK' /\ DirsMoved
  BY <1>2, <1>5, StoreMovesIs, DirsMovesIs
<1>7. Document' = Document /\ file'[Run] = file[Run] /\ file'[Metrics] = file[Metrics]
  BY <1>3, <1>4 DEF SameView
<1>8. Publisher'
  <2>1. pc \notin PersistPoints
    BY <1>2 DEF PersistPoints
  <2> QED BY <1>1, <1>2, <1>3, <2>1 DEF Shapes, Publisher, WritingPoints
<1>9. Present'
  BY <1>1, <1>2, <1>4, <1>7 DEF Shapes, Present, Early, Resuming
<1>10. ProcessOK'
  BY <1>1, <1>2, <1>3 DEF Shapes, ProcessOK
<1>11. Counted' /\ OthersType'
  BY <1>1, <1>2 DEF Shapes, Counted, OthersType
<1>12. Lengths'
  BY <1>1, <1>2, <1>7 DEF Shapes, Lengths
<1>13. StoreShape'
  <2>1. op.at = "staged" /\ op'.at = "replaced" => \E e \in dirs': e.kind = "stage"
    <3> SUFFICES ASSUME op.at = "staged", op'.at = "replaced" PROVE \E e \in dirs': e.kind = "stage"
      OBVIOUS
    <3>1. PICK x \in dirs: x.kind = "stage"
      BY <1>5
    <3>2. UNCHANGED dirs \/ \E e \in dirs, g \in Entries: dirs' = (dirs \ {e}) \cup {g} /\ e.kind = "step"
      BY <1>6 DEF DirsMoved
    <3> QED BY <3>1, <3>2
  <2>2. op'.at \in {"staged", "replaced"} => op.at = "staged" /\ op'.at = "replaced"
    BY <1>6 DEF StoreMoved, OnDisk
  <2>3. op'.at # "idle"
    BY <1>6 DEF StoreMoved, OnDisk
  <2>4. op'.at \notin {"idle", "raised"} => op'.ckpt \in Checkpoints
    BY <1>5, <1>6 DEF StoreMoved, OnDisk
  <2>5. pc = "load" => op'.at \in {"idle", "recover", "raised"} \cup OnDisk
    BY <1>1, <1>6 DEF Shapes, StoreShape, StoreMoved, OnDisk
  <2>6. pc = "saving" => /\ op'.at \in {"staged", "discarded", "replaced", "raised"} \cup OnDisk
                         /\ op'.at # "raised" => op'.ckpt = [step |-> n, build |-> build]
    BY <1>1, <1>6 DEF Shapes, StoreShape, StoreMoved, OnDisk
  <2>7. op' \in OpType /\ dirs' \subseteq Entries /\ IsFiniteSet(dirs') /\ \A e \in dirs': e.whole
    BY <1>6 DEF StoreMoved, DirsOK
  <2> QED BY <1>2, <2>1, <2>2, <2>3, <2>4, <2>5, <2>6, <2>7 DEF StoreShape
<1>14. Shapes'
  BY <1>3, <1>8, <1>9, <1>10, <1>11, <1>12, <1>13 DEF Shapes
<1>15. Shape'
  BY <1>14, ShapeIs, PTL
<1> QED BY <1>2, <1>4, <1>5, <1>6, <1>7, <1>15
-----------------------------------------------------------------------------
(* The calls begin; a load ends.                                           *)

LEMMA BeginLoadShape ==
    ASSUME Shape, BeginLoad, UNCHANGED exportVars
    PROVE  /\ Shape' /\ SameView /\ Recorded' = Recorded /\ Ended' = Ended
           /\ UNCHANGED <<file, staged, previous, pub, dirs, pc, build, mem, n, net, bound, pids, tails,
                          moved, hidden, adapter, metadata, export>>
           /\ pc = "load" /\ op = NoOp
           /\ \/ op'.at = "raised"
              \/ /\ op'.at \in {"pointer", "recover"}
                 /\ LoadAccepts(mem.last, NextStaging(mem))
                 /\ Candidates(mem.last, NextStaging(mem)) # {}
                 /\ op'.ckpt = Newest(Candidates(mem.last, NextStaging(mem))).ckpt
                 /\ op'.at = "pointer" => Spare(mem.last, NextStaging(mem)) = {}
                 /\ op'.at = "recover" => \E e \in Spare(mem.last, NextStaging(mem)): op'.spare = e.ckpt
<1> DEFINE a == NextStaging(mem)
           C == Candidates(mem.last, a)
           S == Spare(mem.last, a)
<1>1. Shapes
  BY ShapeIs
<1>2. /\ UNCHANGED <<file, staged, previous, pub, dirs, pc, build, mem, n, net, bound, pids, tails,
                     moved, hidden, adapter, metadata, export>>
      /\ pc = "load" /\ op = NoOp
      /\ Load(mem.last, a) \/ LoadRefused(mem.last, a)
  BY DEF BeginLoad, Load, LoadRefused, fileVars, memoryVars, recoveryVars, exportVars
<1>3. DirsOK
  BY <1>1 DEF Shapes, StoreShape, DirsOK
<1>4. C \subseteq Published /\ S \subseteq Published
  BY DEF Candidates, Spare
<1>5. Load(mem.last, a) => /\ LoadAccepts(mem.last, a) /\ C # {}
                           /\ \/ S = {} /\ op' = [at |-> "pointer", spare |-> Absent, ckpt |-> Newest(C).ckpt]
                              \/ \E e \in S: op' = [at |-> "recover", spare |-> e.ckpt, ckpt |-> Newest(C).ckpt]
  <2>1. LoadAccepts(mem.last, a) => C # {}
    BY DEF LoadAccepts, StepsOf
  <2> QED BY <2>1 DEF Load
<1> HIDE DEF C, S
<1>6. C # {} => Newest(C) \in C /\ Newest(C).ckpt \in Checkpoints
  BY <1>3, <1>4, PublishedOK, NewestIs
<1>7. /\ op' \in OpType /\ op'.at \in {"pointer", "recover", "raised"}
      /\ op'.at # "raised" => op'.ckpt \in Checkpoints
      /\ \/ op'.at = "raised"
         \/ /\ op'.at \in {"pointer", "recover"} /\ LoadAccepts(mem.last, a) /\ C # {}
            /\ op'.ckpt = Newest(C).ckpt
            /\ op'.at = "pointer" => S = {}
            /\ op'.at = "recover" => \E e \in S: op'.spare = e.ckpt
  <2>1. CASE LoadRefused(mem.last, a)
    <3>1. op' \in OpType /\ op'.at = "raised"
      BY <1>2, <2>1, AtIs, RestingIs DEF LoadRefused, OpPoints
    <3> QED BY <3>1
  <2>2. CASE Load(mem.last, a) /\ S = {} /\ op' = [at |-> "pointer", spare |-> Absent, ckpt |-> Newest(C).ckpt]
    BY <1>5, <1>6, <2>2 DEF OpType, OpPoints
  <2>3. CASE Load(mem.last, a) /\ \E e \in S: op' = [at |-> "recover", spare |-> e.ckpt, ckpt |-> Newest(C).ckpt]
    <3>1. PICK e \in S: op' = [at |-> "recover", spare |-> e.ckpt, ckpt |-> Newest(C).ckpt]
      BY <2>3
    <3>2. e.ckpt \in Checkpoints
      BY <1>3, <1>4, PublishedOK
    <3> QED BY <1>5, <1>6, <2>3, <3>1, <3>2 DEF OpType, OpPoints
  <2> QED BY <1>2, <1>5, <2>1, <2>2, <2>3
<1>8. Files'
  BY <1>1, <1>2, FilesStay DEF Shapes
<1>9. SameView /\ Recorded' = Recorded /\ Ended' = Ended /\ Missing(Metrics)' = Missing(Metrics)
  BY <1>2, SameDisk
<1>10. Document' = Document
  BY <1>9 DEF SameView
<1>11. pub = NoPublication /\ pub.at = "idle"
  BY <1>1, <1>2, RestingIs DEF Shapes, Publisher
<1>12. Publisher'
  BY <1>2, <1>11 DEF Publisher
<1>13. Present'
  BY <1>1, <1>2, <1>9, <1>10 DEF Shapes, Present
<1>14. ProcessOK' /\ Counted' /\ Lengths' /\ OthersType'
  BY <1>1, <1>2 DEF Shapes, ProcessOK, Counted, Lengths, OthersType
<1>15. StoreShape'
  <2>1. dirs' \subseteq Entries /\ IsFiniteSet(dirs') /\ \A e \in dirs': e.whole
    BY <1>1, <1>2 DEF Shapes, StoreShape
  <2> QED BY <1>2, <1>7, <2>1 DEF StoreShape, OnDisk
<1>16. Shapes'
  BY <1>8, <1>12, <1>13, <1>14, <1>15 DEF Shapes
<1>17. Shape'
  BY <1>16, ShapeIs, PTL
<1> QED BY <1>2, <1>7, <1>9, <1>17 DEF C, S

LEMMA SaveCheckpointShape ==
    ASSUME Shape, SaveCheckpoint
    PROVE  /\ Shape' /\ SameView /\ Recorded' = Recorded /\ Ended' = Ended
           /\ UNCHANGED <<file, staged, previous, pub, build, mem, n, net, bound, pids, tails,
                          moved, hidden, adapter, metadata, export>>
           /\ pc = "save" /\ pc' = "saving" /\ op = NoOp
           /\ \/ op'.at = "raised" /\ UNCHANGED dirs
              \/ /\ op'.at = "staged" /\ op'.ckpt = [step |-> n, build |-> build]
                 /\ dirs' = dirs \cup {[kind |-> "stage", ckpt |-> op'.ckpt, whole |-> TRUE]}
                 /\ ~Debris /\ op'.ckpt \in Checkpoints
<1> DEFINE c == [step |-> n, build |-> build]
           g == [kind |-> "stage", ckpt |-> c, whole |-> TRUE]
<1>1. Shapes
  BY ShapeIs
<1>2. /\ UNCHANGED <<file, staged, previous, pub, build, mem, n, net, bound, pids, tails,
                     moved, hidden, adapter, metadata, export>>
      /\ pc = "save" /\ pc' = "saving"
      /\ \/ /\ SaveAccepts /\ dirs' = dirs \cup {g} /\ op' = [op EXCEPT !.at = "staged", !.ckpt = c]
         \/ op' = [op EXCEPT !.at = "raised", !.ckpt = c] /\ UNCHANGED dirs
         \/ op' = [op EXCEPT !.at = "raised"] /\ UNCHANGED dirs
  BY DEF SaveCheckpoint, Save, SaveRefused, At, Goes, fileVars, memoryVars, recoveryVars, exportVars
<1>3. op = NoOp /\ op \in OpType /\ pub = NoPublication /\ pub.at = "idle" /\ bound
  BY <1>1, <1>2, RestingIs DEF Shapes, StoreShape, Publisher, ProcessOK, PersistPoints, WritingPoints
<1>4. /\ c \in Checkpoints /\ mem \in RunDocuments /\ mem # Absent
  <2>1. n \in 0..Horizon /\ build \in Builds /\ mem \in RunDocuments /\ mem # Absent
    BY <1>1, <1>2, LaunchFacts DEF Shapes, ProcessOK
  <2>2. n > 0
    BY <1>1, <1>2, <2>1 DEF Shapes, Counted
  <2>3. n \in 1..Horizon
    BY <2>1, <2>2, HorizonIs
  <2> QED BY <2>1, <2>3 DEF Checkpoints, Steps
<1>5. g \in Entries /\ g.kind = "stage" /\ g.whole /\ g.ckpt = c
  BY <1>4 DEF Entries, Kinds
<1> HIDE DEF c
<1>6. op' \in OpType /\ op'.at \in {"staged", "raised"} /\ (op'.at = "staged" => op'.ckpt = c)
  BY <1>2, <1>3, <1>4 DEF OpType, OpPoints
<1>7. \/ op'.at = "raised" /\ UNCHANGED dirs
      \/ op'.at = "staged" /\ op'.ckpt = c /\ dirs' = dirs \cup {g} /\ SaveAccepts
  BY <1>2, <1>3, <1>4 DEF OpType
<1> HIDE DEF g
<1>8. /\ dirs' \subseteq Entries /\ IsFiniteSet(dirs') /\ \A e \in dirs': e.whole
      /\ op'.at = "staged" => \E e \in dirs': e.kind = "stage"
  BY <1>1, <1>5, <1>7, FS_AddElement DEF Shapes, StoreShape
<1>9. Files'
  BY <1>1, <1>2, FilesStay DEF Shapes
<1>10. SameView /\ Recorded' = Recorded /\ Ended' = Ended /\ Missing(Metrics)' = Missing(Metrics)
  BY <1>2, SameDisk
<1>11. Publisher'
  BY <1>2, <1>3 DEF Publisher, PersistPoints
<1>12. Present' /\ Lengths'
  BY <1>1, <1>2, <1>10 DEF Shapes, Present, Lengths, Early, Resuming, Counting, ExportPoints
<1>13. ProcessOK'
  BY <1>1, <1>2, <1>3, <1>4 DEF Shapes, ProcessOK, BeforeLoad, Early, Points, LoopPoints
<1>14. Counted' /\ OthersType'
  BY <1>1, <1>2 DEF Shapes, Counted, OthersType
<1>15. StoreShape'
  BY <1>2, <1>4, <1>6, <1>8 DEF StoreShape, c
<1>16. Shapes'
  BY <1>9, <1>11, <1>12, <1>13, <1>14, <1>15 DEF Shapes
<1>17. Shape'
  BY <1>16, ShapeIs, PTL
<1>18. SaveAccepts => ~Debris
  BY DEF SaveAccepts
<1> QED BY <1>2, <1>3, <1>4, <1>7, <1>10, <1>17, <1>18 DEF c, g

LEMMA LoadedShape ==
    ASSUME Shape, Loaded, pc' # "down", UNCHANGED exportVars
    PROVE  /\ Shape' /\ SameView /\ Recorded' = Recorded /\ Ended' = Ended
           /\ UNCHANGED <<file, staged, previous, pub, dirs, build, bound, pids, tails, moved, hidden,
                          adapter, metadata, export>>
           /\ pc = "load" /\ pc' = "rotate" /\ op.at = "returned" /\ op' = NoOp /\ Published = dirs
           /\ op.ckpt \in Checkpoints /\ n' = op.ckpt.step /\ mem \in RunDocuments /\ mem' \in RunDocuments
           /\ mem'.last = op.ckpt /\ mem'.process = mem.process /\ mem'.recovered = mem.recovered
           /\ mem'.metrics = mem.metrics /\ mem'.status = mem.status
           /\ file[Metrics].rows[op.ckpt.step] = op.ckpt.build
           /\ mem.metrics \in {Absent, file[Metrics].rows}
<1>1. Shapes
  BY ShapeIs
<1> DEFINE k == Cardinality({s \in 1..op.ckpt.step: OnCadence(s)})
<1>2. /\ UNCHANGED <<file, staged, previous, pub, dirs, build, bound, pids, tails, moved, hidden,
                     adapter, metadata, export>>
      /\ pc = "load" /\ pc' = "rotate" /\ op.at = "returned" /\ op' = NoOp /\ Published = dirs
      /\ n' = op.ckpt.step /\ net' = After(op.ckpt.step)
      /\ mem' = [mem EXCEPT !.last = op.ckpt, !.count = k]
      /\ ~(Len(file[Metrics].rows) < op.ckpt.step) /\ file[Metrics].rows[op.ckpt.step] = op.ckpt.build
      /\ mem.metrics \in {Absent, file[Metrics].rows}
  BY DEF Loaded, Refuse, Down, fileVars, recoveryVars, exportVars
<1>3. op.ckpt \in Checkpoints /\ op.ckpt.step \in 1..Horizon /\ op.ckpt.step \in 0..Horizon
  BY <1>1, <1>2, CheckpointFacts, HorizonIs DEF Shapes, StoreShape
<1>4. k \in 0..op.ckpt.step /\ k \in 0..Horizon
  BY <1>3, CadenceCount
<1> HIDE DEF k
<1>5. mem \in RunDocuments /\ pub = NoPublication /\ pub.at = "idle" /\ bound
  BY <1>1, <1>2, RestingIs DEF Shapes, Publisher, ProcessOK
<1>6. /\ mem' \in RunDocuments /\ mem'.last = op.ckpt /\ mem'.count = k
      /\ mem'.process = mem.process /\ mem'.recovered = mem.recovered
      /\ mem'.metrics = mem.metrics /\ mem'.status = mem.status
  BY <1>2, <1>3, <1>4, <1>5 DEF RunDocuments
<1>7. Files'
  BY <1>1, <1>2, FilesStay DEF Shapes
<1>8. SameView /\ Recorded' = Recorded /\ Ended' = Ended /\ Missing(Metrics)' = Missing(Metrics)
  BY <1>2, SameDisk
<1>9. Publisher'
  BY <1>2, <1>5 DEF Publisher
<1>10. Present'
  BY <1>1, <1>2, <1>6, <1>8 DEF Shapes, Present, Early, Resuming
<1>11. ProcessOK'
  BY <1>1, <1>2, <1>3, <1>5, <1>6 DEF Shapes, ProcessOK, BeforeLoad, Early, Points, StartPoints
<1>12. Counted'
  <2>1. op.ckpt # Absent /\ k <= op.ckpt.step /\ op.ckpt.step <= op.ckpt.step
    BY <1>3, <1>4, LaunchFacts
  <2> QED BY <1>2, <1>6, <2>1 DEF Counted
<1>13. Lengths'
  <2>1. file[Metrics] # Absent => Len(file[Metrics].rows) \in Nat
    BY <1>1, MetricsDocsAre, RowsAre, LenProperties DEF Shapes, Files, NameFiles
  <2>2. file[Metrics] # Absent => op.ckpt.step <= Len(file[Metrics].rows)
    BY <1>2, <1>3, <2>1
  <2> QED BY <1>2, <2>2 DEF Lengths, Counting, ExportPoints
<1>14. StoreShape' /\ OthersType'
  BY <1>1, <1>2, RestingIs DEF Shapes, StoreShape, OthersType
<1>15. Shapes'
  BY <1>7, <1>9, <1>10, <1>11, <1>12, <1>13, <1>14 DEF Shapes
<1>16. Shape'
  BY <1>15, ShapeIs, PTL
<1> QED BY <1>2, <1>3, <1>5, <1>6, <1>8, <1>16
-----------------------------------------------------------------------------
(* The steps of the run, by what they do.                                  *)

StartSteps ==
    /\ UNCHANGED exportVars
    /\ \/ Start \/ StartFresh
       \/ Resume /\ pc' # "down"
       \/ \E name \in OutputNames: RestoreMissing(name)
       \/ Moves \/ Sweep \/ ReplayPointer

IdentitySteps ==
    /\ UNCHANGED exportVars
    /\ \/ \E name \in Prestart: PrestartMove(name)
       \/ PidMoves \/ RotatePid

ReplaySteps == (Replay \/ ReplayAfterLoad) /\ UNCHANGED exportVars

CallSteps ==
    \/ BeginLoad /\ UNCHANGED exportVars
    \/ Loaded /\ pc' # "down" /\ UNCHANGED exportVars
    \/ SaveCheckpoint \/ InStore \/ InStoreFails \/ Saved

PublicationSteps ==
    \/ Begins /\ UNCHANGED exportVars
    \/ Publishing \/ PublishingFails \/ Written \/ Interrupted

MetricsSteps == CreateMetrics \/ CopyMetrics \/ AppendMetric \/ Update

ExportSteps == BeginExport \/ Exports

NextSteps ==
    Ends \/ StartSteps \/ IdentitySteps \/ ReplaySteps \/ CallSteps \/ PublicationSteps \/ MetricsSteps
         \/ ExportSteps

LEMMA RefuseEnds ==
    ASSUME Refuse, pc # "down", UNCHANGED exportVars
    PROVE  Ends
BY DEF Refuse, Ends, recoveryVars

LEMMA StartUpCases ==
    ASSUME Shape, StartUp, UNCHANGED exportVars
    PROVE  NextSteps
<1>1. CASE Start \/ StartFresh \/ Sweep \/ Swept \/ ReplayPointer \/ (\E name \in OutputNames: RestoreMissing(name))
  BY <1>1 DEF NextSteps, StartSteps, Moves
<1>2. CASE RestoreRefused
  <2>1. Refuse /\ pc # "down"
    BY <1>2 DEF RestoreRefused
  <2> QED BY <2>1, RefuseEnds DEF NextSteps
<1>3. CASE Resume
  <2>1. CASE pc' = "down"
    <3>1. Refuse /\ pc # "down"
      BY <1>3, <2>1 DEF Resume, Restored
    <3> QED BY <3>1, RefuseEnds DEF NextSteps
  <2> QED BY <1>3, <2>1 DEF NextSteps, StartSteps
<1>4. CASE WriteLog \/ WriteBudget
  BY <1>4 DEF NextSteps, PublicationSteps, Begins
<1>5. CASE WritePid
  <2>1. CASE pc' = "down"
    <3>1. Refuse /\ pc # "down"
      BY <1>5, <2>1 DEF WritePid, Writes
    <3> QED BY <3>1, RefuseEnds DEF NextSteps
  <2> QED BY <1>5, <2>1 DEF NextSteps, PublicationSteps, Begins
<1>6. CASE LogWritten \/ BudgetWritten \/ PidWritten
  BY <1>6 DEF NextSteps, PublicationSteps, Written
<1>7. CASE (\E name \in Prestart: PrestartMove(name)) \/ MovePid \/ RestorePid \/ RotatePid
  BY <1>7 DEF NextSteps, IdentitySteps, PidMoves
<1>8. CASE Prestarted
  <2>1. CASE pc' = "down"
    <3>1. Refuse /\ pc # "down"
      BY <1>8, <2>1 DEF Prestarted, Goes
    <3> QED BY <3>1, RefuseEnds DEF NextSteps
  <2> QED BY <1>8, <2>1 DEF NextSteps, StartSteps, Moves
<1>9. CASE PidMatched
  <2>1. CASE pc' = "down"
    <3>1. Refuse /\ pc # "down"
      BY <1>9, <2>1 DEF PidMatched, Goes
    <3> QED BY <3>1, RefuseEnds DEF NextSteps
  <2> QED BY <1>9, <2>1 DEF NextSteps, StartSteps, Moves
<1>10. CASE Replay \/ ReplayAfterLoad
  BY <1>10 DEF NextSteps, ReplaySteps
<1>11. CASE Replayed
  <2>1. CASE pc' = "down"
    <3>1. Refuse /\ pc # "down"
      BY <1>11, <2>1 DEF Replayed, Goes
    <3> QED BY <3>1, RefuseEnds DEF NextSteps
  <2> QED BY <1>11, <2>1 DEF NextSteps, StartSteps, Moves
<1>12. CASE BeginLoad
  BY <1>12 DEF NextSteps, CallSteps
<1>13. CASE Loaded
  <2>1. CASE pc' = "down"
    <3>1. Refuse /\ pc # "down"
      BY <1>13, <2>1 DEF Loaded
    <3> QED BY <3>1, RefuseEnds DEF NextSteps
  <2> QED BY <1>13, <2>1 DEF NextSteps, CallSteps
<1>14. CASE LoadRaised
  <2>1. Refuse /\ pc # "down"
    BY <1>14 DEF LoadRaised
  <2> QED BY <2>1, RefuseEnds DEF NextSteps
<1> QED BY <1>1, <1>2, <1>3, <1>4, <1>5, <1>6, <1>7, <1>8, <1>9, <1>10, <1>11, <1>12, <1>13, <1>14
        DEF StartUp

LEMMA NextCases ==
    ASSUME Shape, Next
    PROVE  NextSteps
<1>1. CASE StartUp /\ UNCHANGED exportVars
  BY <1>1, StartUpCases
<1>2. CASE Persist
  <2>1. UNCHANGED exportVars
    BY <1>2 DEF Persist
  <2> QED BY <1>2, <2>1 DEF NextSteps, PublicationSteps, Begins
<1>3. CASE Persisted
  <2>1. CASE pc' = "down"
    <3>1. pc # "down" /\ Down /\ UNCHANGED <<diskVars, dirs, build, recoveryVars, exportVars>>
      BY <1>3, <2>1 DEF Persisted, Goes, Following, PersistPoints
    <3> QED BY <3>1 DEF Ends, NextSteps, recoveryVars
  <2> QED BY <1>3, <2>1 DEF NextSteps, PublicationSteps, Written
<1>4. CASE WritePrefix
  <2>1. UNCHANGED exportVars
    BY <1>4 DEF WritePrefix
  <2> QED BY <1>4, <2>1 DEF NextSteps, PublicationSteps, Begins
<1>5. CASE Publishing \/ PublishingFails \/ PrefixWritten \/ Committed \/ Interrupted
  BY <1>5 DEF NextSteps, PublicationSteps, Written
<1>6. CASE CreateMetrics \/ CopyMetrics \/ Update \/ AppendMetric
  BY <1>6 DEF NextSteps, MetricsSteps
<1>7. CASE SaveCheckpoint \/ InStore \/ InStoreFails \/ Saved
  BY <1>7 DEF NextSteps, CallSteps
<1>8. CASE BeginExport \/ StageAdapter \/ PublishAdapter \/ PublishMetadata \/ CleanAdapterStage
             \/ CopySources \/ PublishExport \/ CloseSources
  BY <1>8 DEF NextSteps, ExportSteps, Exports
<1>9. CASE ReuseAdapter
  <2>1. CASE pc' = "down"
    <3>1. Refuse /\ pc # "down" /\ UNCHANGED exportVars
      BY <1>9, <2>1 DEF ReuseAdapter, Goes
    <3> QED BY <3>1, RefuseEnds DEF NextSteps
  <2> QED BY <1>9, <2>1 DEF NextSteps, ExportSteps, Exports
<1>10. CASE StageExport
  <2>1. CASE pc' = "down"
    <3>1. Refuse /\ pc # "down" /\ UNCHANGED exportVars
      BY <1>10, <2>1 DEF StageExport, Goes
    <3> QED BY <3>1, RefuseEnds DEF NextSteps
  <2> QED BY <1>10, <2>1 DEF NextSteps, ExportSteps, Exports
<1>11. CASE Raised
  <2>1. pc # "down"
    <3>1. Shapes
      BY ShapeIs
    <3>2. pc = "down" => pub.at = "idle"
      BY <3>1, RestingIs DEF Shapes, Publisher, PersistPoints, WritingPoints
    <3> QED BY <1>11, <3>2 DEF Raised, ExportPoints, PersistPoints
  <2>2. Down /\ hidden' = {} /\ UNCHANGED <<diskVars, dirs, build, pids, tails, moved, exportVars>>
    BY <1>11 DEF Raised
  <2> QED BY <2>1, <2>2 DEF Ends, NextSteps
<1>12. CASE Kill
  BY <1>12 DEF Kill, Ends, NextSteps, recoveryVars
<1> QED BY <1>1, <1>2, <1>3, <1>4, <1>5, <1>6, <1>7, <1>8, <1>9, <1>10, <1>11, <1>12 DEF Next, Work

\* Everything but the rotation of the process identity keeps the shape.
LEMMA ShapeNext ==
    ASSUME Shape, NextSteps, pc = "rotate" => file[Pid] \in PidDocs
    PROVE  Shape'
<1>1. CASE Ends
  BY <1>1, EndsShape
<1>2. CASE StartSteps
  BY <1>2, StartShape, StartFreshShape, ResumeShape, RestoreMissingShape, MovesShape, SweepShape,
     ReplayPointerShape DEF StartSteps
<1>3. CASE IdentitySteps
  <2>1. RotatePid => pc = "rotate"
    BY DEF RotatePid
  <2> QED BY <1>3, <2>1, PrestartMoveShape, PidMovesShape, RotatePidShape DEF IdentitySteps
<1>4. CASE ReplaySteps
  BY <1>4, ReplayShape DEF ReplaySteps
<1>5. CASE CallSteps
  BY <1>5, BeginLoadShape, LoadedShape, SaveCheckpointShape, InStoreShape, SavedShape DEF CallSteps
<1>6. CASE PublicationSteps
  BY <1>6, BeginsShape, PublishingShape, WrittenShape, InterruptedShape DEF PublicationSteps
<1>7. CASE MetricsSteps
  BY <1>7, CreateMetricsShape, CopyMetricsShape, AppendMetricShape, UpdateShape DEF MetricsSteps
<1>8. CASE ExportSteps
  BY <1>8, BeginExportShape, ExportsShape DEF ExportSteps
<1> QED BY <1>1, <1>2, <1>3, <1>4, <1>5, <1>6, <1>7, <1>8 DEF NextSteps

LEMMA ShapeInit ==
    ASSUME Init
    PROVE  Shape
<1>1. /\ file = [k \in Names |-> Absent] /\ staged = [k \in Names |-> 0]
      /\ previous = [k \in Names |-> << >>] /\ pub = NoPublication
      /\ dirs = {} /\ op = NoOp /\ pc = "down" /\ build = 0 /\ mem = Absent /\ n = 0 /\ net = After(0)
      /\ bound = TRUE /\ pids = {} /\ tails = {} /\ moved = {} /\ hidden = {}
      /\ adapter = Absent /\ metadata = FALSE /\ export = Absent
  BY DEF Init, StoreInit, FilesInit
<1>2. Run \in Names /\ Metrics \in Names /\ Pid \in Names
  BY NameFacts
<1>3. << >> \in Seq(LaunchDocuments) /\ << >> \in Seq(RunDocuments) /\ << >> \in Seq(MetricsDocs)
  BY EmptySeq
<1>4. pub.at = "idle" /\ pub \in PubTypes /\ op.at = "idle" /\ op \in OpType
  BY <1>1, RestingIs DEF NoPublication, PubTypes, Point
<1>5. Files
  BY <1>1, <1>2, <1>3, <1>4 DEF Files, FilesType, PubFiles, NameFiles
<1>6. Publisher /\ Present /\ Counted /\ Lengths
  BY <1>1, <1>4 DEF Publisher, Present, Counted, Lengths, PersistPoints, WritingPoints, Early, Resuming,
     Counting, ExportPoints
<1>7. ProcessOK
  BY <1>1, HorizonIs DEF ProcessOK, Points
<1>8. StoreShape
  BY <1>1, <1>4, FS_EmptySet DEF StoreShape
<1>9. OthersType
  BY <1>1 DEF OthersType
<1> QED BY <1>5, <1>6, <1>7, <1>8, <1>9 DEF Shape, Control
-----------------------------------------------------------------------------
(* The process identities.                                                 *)

\* Every identity on the disk is of this or an earlier process.
KnownPids ==
    /\ \A p \in pids: p \in Nat /\ p <= build /\ (pc # "down" => p < build)
    /\ file[Pid] # Absent =>
          /\ file[Pid].pid \in Nat /\ file[Pid].pid <= build
          /\ pc \in {"restore"} \cup Early \cup Resuming => file[Pid].pid < build

Identified ==
    /\ mem # Absent => mem.recovered \subseteq pids
    /\ mem # Absent /\ pc # "identify" => mem.process \notin mem.recovered
    /\ Document # Absent =>
          /\ Document.process \notin Document.recovered /\ Document.recovered \subseteq pids
          /\ file[Pid] = PidOf(Document.process) \/ Document.process \in pids
    /\ pc \in {"sweep", "replay", "load", "rotate"} => file[Pid] = PidOf(mem.process)
    /\ pc = "identify" => Document = Absent \/ Document.process \in pids
    /\ pc \in {"announce", "handle"} \cup Running => file[Pid] = PidOf(build) /\ mem.process = build
    /\ pc = "announce" => Document = Absent \/ Document.process \in pids \/ Document.process = build
    /\ pc \in {"handle"} \cup Running => Document # Absent /\ Document.process = build

IdentityInv == KnownPids /\ Identified

\* Where a process may go without looking at the identities.
Onwards ==
    \/ pc' = "down" /\ mem' = Absent
    \/ pc' = pc
    \/ pc \in Early /\ pc' \in Early \cup {"identify"}
    \/ pc \in {"sweep", "replay", "load"} /\ pc' \in {"replay", "load", "rotate"}
    \/ pc \in Running /\ pc' \in Running \cup {"handle"}

LEMMA PointsApart ==
    /\ Early \cap (Resuming \cup Running \cup {"down", "restore", "identify", "announce", "handle"}) = {}
    /\ Resuming \cap (Running \cup {"down", "restore", "identify", "announce", "handle"}) = {}
    /\ Running \cap {"down", "restore", "identify", "announce", "handle"} = {}
BY DEF Early, Resuming, Running, LoopPoints, ExportPoints

LEMMA IdentityStays ==
    ASSUME Shape, Shape', IdentityInv, Onwards, Document' = Document, file'[Pid] = file[Pid], pids' = pids,
           build' = build,
           mem' # Absent => mem # Absent /\ mem'.process = mem.process /\ mem'.recovered = mem.recovered
    PROVE  IdentityInv'
<1>1. KnownPids /\ Identified /\ Shapes
  BY ShapeIs DEF IdentityInv
<1>2. KnownPids'
  <2>1. pc' \in {"restore"} \cup Early \cup Resuming => pc \in {"restore"} \cup Early \cup Resuming
    BY PointsApart DEF Onwards, Early, Resuming
  <2>2. pc' # "down" => pc # "down"
    BY PointsApart DEF Onwards
  <2> QED BY <1>1, <2>1, <2>2 DEF KnownPids
<1>3. Document' # Absent =>
          /\ Document'.process \notin Document'.recovered /\ Document'.recovered \subseteq pids'
          /\ file'[Pid] = PidOf(Document'.process) \/ Document'.process \in pids'
  BY <1>1 DEF Identified
<1>4. Identified'
  <2>1. Shapes'
    BY ShapeIs, PTL
  <2>2. pc' \notin {"down", "restore"} => mem' # Absent
    BY <2>1, LaunchFacts DEF Shapes, ProcessOK
  <2>3. CASE pc' = "down" /\ mem' = Absent
    BY <1>3, <2>3, PointsApart DEF Identified
  <2>4. CASE pc' = pc
    <3>1. pc \in {"down", "restore"} => mem' = Absent
      BY <2>1, <2>4 DEF Shapes, ProcessOK
    <3> QED BY <1>1, <1>3, <2>2, <2>4, <3>1, PointsApart DEF Identified, Resuming
  <2>5. CASE pc \in Early /\ pc' \in Early \cup {"identify"}
    <3>1. Document = Absent /\ pc # "identify"
      BY <1>1, <2>5, PointsApart DEF Shapes, Present
    <3> QED BY <1>1, <1>3, <2>5, <3>1, PointsApart DEF Identified, Resuming
  <2>6. CASE pc \in {"sweep", "replay", "load"} /\ pc' \in {"replay", "load", "rotate"}
    <3>1. mem' # Absent
      BY <2>2, <2>6
    <3> QED BY <1>1, <1>3, <2>6, <3>1, PointsApart DEF Identified, Resuming
  <2>7. CASE pc \in Running /\ pc' \in Running \cup {"handle"}
    <3>1. mem' # Absent
      BY <2>2, <2>7, PointsApart
    <3> QED BY <1>1, <1>3, <2>7, <3>1, PointsApart DEF Identified, Resuming
  <2> QED BY <2>3, <2>4, <2>5, <2>6, <2>7 DEF Onwards
<1> QED BY <1>2, <1>4 DEF IdentityInv

LEMMA IdentityStarts ==
    ASSUME Shape, Shape', IdentityInv, StartSteps
    PROVE  IdentityInv'
<1>1. KnownPids /\ Identified /\ Shapes
  BY ShapeIs DEF IdentityInv
<1>a. NameFiles
  BY <1>1 DEF Shapes, Files
<1>2. CASE Start
  <2>1. /\ UNCHANGED <<mem, pids>> /\ pc = "down" /\ pc' = "restore" /\ build' = build + 1
    BY <1>2 DEF Start, memoryVars, recoveryVars
  <2>2. SameView
    BY <1>2, StartShape DEF StartSteps
  <2>3. build \in Nat /\ mem' = Absent
    BY <1>1, <2>1 DEF Shapes, ProcessOK
  <2>4. KnownPids'
    BY <1>1, <2>1, <2>2, <2>3 DEF KnownPids, SameView
  <2>5. Identified'
    BY <1>1, <2>1, <2>2, <2>3, PointsApart DEF Identified, SameView
  <2> QED BY <2>4, <2>5 DEF IdentityInv
<1>3. CASE StartFresh
  <2>1. UNCHANGED <<pids, build>> /\ pc = "restore" /\ pc' = "log" /\ mem' = NewRun(build) /\ build \in Builds
    BY <1>1, <1>3 DEF StartFresh, Restored, recoveryVars, Shapes, ProcessOK
  <2>2. SameView
    BY <1>3, StartFreshShape DEF StartSteps
  <2>3. mem'.recovered = {} /\ mem'.process = build
    BY <2>1, NewRunIs
  <2>4. KnownPids'
    BY <1>1, <2>1, <2>2 DEF KnownPids, SameView
  <2>5. Identified'
    BY <1>1, <2>1, <2>2, <2>3, PointsApart DEF Identified, SameView, Early
  <2> QED BY <2>4, <2>5 DEF IdentityInv
<1>4. CASE Resume /\ pc' # "down"
  <2>1. UNCHANGED <<pids, build>> /\ pc = "restore" /\ pc' = "pid" /\ mem' = file[Run] /\ file[Run] # Absent
    BY <1>4 DEF Resume, Refuse, Down, Restored, recoveryVars
  <2>2. SameView
    BY <1>4, ResumeShape DEF StartSteps
  <2>3. Document = file[Run]
    BY <1>a, <2>1, DocumentsAre
  <2>4. KnownPids'
    BY <1>1, <2>1, <2>2 DEF KnownPids, SameView
  <2>5. Identified'
    BY <1>1, <2>1, <2>2, <2>3, PointsApart DEF Identified, SameView, Resuming
  <2> QED BY <2>4, <2>5 DEF IdentityInv
<1>5. CASE \E name \in OutputNames: RestoreMissing(name)
  <2>1. PICK name \in OutputNames: RestoreMissing(name)
    BY <1>5
  <2>2. UNCHANGED <<mem, pids, pc, build>>
    BY <2>1 DEF RestoreMissing, memoryVars, recoveryVars
  <2>3. SameView
    BY <2>1, RestoreMissingShape DEF StartSteps
  <2> QED BY <2>2, <2>3, IdentityStays DEF Onwards, SameView
<1>6. CASE Moves
  <2>1. UNCHANGED exportVars
    BY DEF StartSteps
  <2>2. SameView
    BY <1>6, <2>1, MovesShape
  <2>3. /\ UNCHANGED <<mem, pids, build>>
        /\ \/ pc = "prestart" /\ pc' \in {"budget", "identify"}
           \/ pc = "pid" /\ pc' = "sweep" /\ ~PidUnmatched
           \/ pc \in {"sweep", "replay"} /\ pc' \in {"replay", "load", "rotate"}
    BY <1>6, <2>1, MovesAre DEF memoryVars, recoveryVars
  <2>4. CASE pc = "pid" /\ pc' = "sweep" /\ ~PidUnmatched
    <3>1. KnownPids'
      BY <1>1, <2>2, <2>3, <2>4 DEF KnownPids, SameView, Resuming
    <3>2. Identified'
      BY <1>1, <2>2, <2>3, <2>4, PointsApart DEF Identified, SameView, PidUnmatched, Resuming
    <3> QED BY <3>1, <3>2 DEF IdentityInv
  <2> QED BY <2>2, <2>3, <2>4, IdentityStays DEF Onwards, SameView, Early
<1>7. CASE Sweep \/ ReplayPointer
  <2>1. UNCHANGED <<mem, pids, pc, build>>
    BY <1>7 DEF Sweep, ReplayPointer, memoryVars, recoveryVars
  <2>2. SameView
    BY <1>7, SweepShape, ReplayPointerShape DEF StartSteps
  <2> QED BY <2>1, <2>2, IdentityStays DEF Onwards, SameView
<1> QED BY <1>2, <1>3, <1>4, <1>5, <1>6, <1>7 DEF StartSteps

LEMMA IdentityMoves ==
    ASSUME Shape, Shape', IdentityInv, IdentitySteps
    PROVE  IdentityInv'
<1>1. KnownPids /\ Identified /\ Shapes /\ NameFiles
  BY ShapeIs DEF IdentityInv, Shapes, Files
<1>2. UNCHANGED exportVars
  BY DEF IdentitySteps
<1>3. CASE \E name \in Prestart: PrestartMove(name)
  <2>1. PICK name \in Prestart: PrestartMove(name)
    BY <1>3
  <2>2. UNCHANGED <<mem, pids, pc, build>> /\ pc = "prestart"
    BY <2>1 DEF PrestartMove, memoryVars, recoveryVars
  <2>3. Document' = Absent /\ Document = Absent /\ file'[Pid] \in {file[Pid], Absent}
    BY <1>2, <2>1, PrestartMoveShape
  <2>4. KnownPids'
    BY <1>1, <2>2, <2>3 DEF KnownPids
  <2>5. Identified'
    BY <1>1, <2>2, <2>3, PointsApart DEF Identified, Early
  <2> QED BY <2>4, <2>5 DEF IdentityInv
<1>4. CASE MovePid
  <2>1. /\ UNCHANGED <<pc, build>> /\ pc = "pid" /\ mem.process \in pids
        /\ pids' = pids \cup {file[Pid].pid} /\ file[Pid] # PidOf(mem.process)
    BY <1>4 DEF MovePid, PidUnmatched
  <2>2. /\ Document' = Document /\ file[Pid] \in PidDocs /\ file'[Pid] = Absent
        /\ mem' \in RunDocuments /\ mem'.recovered = mem.recovered \cup {file[Pid].pid}
        /\ mem'.process = mem.process
    <3>1. ~RestorePid
      BY <1>4 DEF MovePid, RestorePid
    <3> QED BY <1>2, <1>4, <3>1, PidMovesShape DEF PidMoves
  <2>3. mem # Absent /\ file[Run] # Absent /\ mem.process = file[Run].process /\ mem \in RunDocuments
    BY <1>1, <2>1, LaunchFacts DEF Shapes, Present, ProcessOK, Resuming
  <2>4. Document = file[Run]
    BY <1>1, <2>3, DocumentsAre
  <2>5. file[Pid].pid # mem.process /\ file[Pid] # Absent
    BY <2>1, <2>2, LaunchFacts DEF PidDocs, PidOf
  <2>6. KnownPids'
    BY <1>1, <2>1, <2>2, <2>5 DEF KnownPids, Resuming
  <2>7. Identified'
    BY <1>1, <2>1, <2>2, <2>3, <2>4, <2>5, PointsApart DEF Identified, Resuming
  <2> QED BY <2>6, <2>7 DEF IdentityInv
<1>5. CASE RestorePid
  <2>1. /\ UNCHANGED <<pc, build>> /\ pc = "pid" /\ mem.process \in pids /\ file[Pid] = Absent
        /\ pids' = pids \ {mem.process} /\ UNCHANGED mem
    BY <1>5 DEF RestorePid, memoryVars
  <2>2. Document' = Document /\ file'[Pid] = PidOf(mem.process)
    <3>1. ~MovePid
      BY <1>5 DEF MovePid, RestorePid
    <3> QED BY <1>2, <1>5, <3>1, PidMovesShape DEF PidMoves
  <2>3. mem # Absent /\ file[Run] # Absent /\ mem.process = file[Run].process /\ mem \in RunDocuments
    BY <1>1, <2>1, LaunchFacts DEF Shapes, Present, ProcessOK, Resuming
  <2>4. Document = file[Run]
    BY <1>1, <2>3, DocumentsAre
  <2>5. file'[Pid].pid = mem.process
    BY <2>2 DEF PidOf
  <2>6. KnownPids'
    BY <1>1, <2>1, <2>5 DEF KnownPids
  <2>7. Identified'
    BY <1>1, <2>1, <2>2, <2>3, <2>4, PointsApart DEF Identified, Resuming
  <2> QED BY <2>6, <2>7 DEF IdentityInv
<1>6. CASE RotatePid
  <2>1. /\ UNCHANGED build /\ pc = "rotate" /\ pids' = pids \cup {file[Pid].pid}
        /\ mem' = [mem EXCEPT !.recovered = @ \cup {file[Pid].pid}]
    BY <1>6 DEF RotatePid
  <2>2. /\ mem # Absent /\ file[Run] # Absent /\ mem.process = file[Run].process /\ mem \in RunDocuments
        /\ file[Pid] = PidOf(mem.process) /\ mem.process \in Builds
    BY <1>1, <2>1, LaunchFacts, RunDocumentFacts DEF Shapes, Present, ProcessOK, Resuming, Identified
  <2>3. Document = file[Run] /\ file[Pid] \in PidDocs /\ file[Pid].pid = mem.process /\ file[Pid] # Absent
    BY <1>1, <2>2, DocumentsAre, LaunchFacts DEF PidDocs, PidOf
  <2>4. Document' = Document /\ pc' = "identify" /\ file'[Pid] = Absent
    BY <1>2, <1>6, <2>3, RotatePidShape
  <2>5. mem'.recovered = mem.recovered \cup {mem.process}
    BY <2>1, <2>2, <2>3 DEF RunDocuments
  <2>6. KnownPids'
    BY <1>1, <2>1, <2>3, <2>4 DEF KnownPids, Resuming
  <2>7. Identified'
    BY <1>1, <2>1, <2>2, <2>3, <2>4, <2>5, PointsApart DEF Identified, Resuming
  <2> QED BY <2>6, <2>7 DEF IdentityInv
<1> QED BY <1>3, <1>4, <1>5, <1>6 DEF IdentitySteps, PidMoves

\* What the steps of the publications do to the documents of the next process.
LEMMA IdentityPublishes ==
    ASSUME Shape, Shape', IdentityInv, PublicationSteps
    PROVE  IdentityInv'
<1>1. KnownPids /\ Identified /\ Shapes /\ NameFiles
  BY ShapeIs DEF IdentityInv, Shapes, Files
<1>2. CASE Begins /\ UNCHANGED exportVars
  <2>1. SameView /\ UNCHANGED <<pc, build, mem, pids>>
    BY <1>2, BeginsShape, BeginsAre
  <2> QED BY <2>1, IdentityStays DEF Onwards, SameView
<1>3. CASE Publishing \/ PublishingFails
  <2>1. /\ PubMoved /\ UNCHANGED <<pc, build, mem, pids>> /\ pub.at # "idle"
        /\ pc \in (PersistPoints \cup WritingPoints) \ {"load", "saving"}
    BY <1>3, PublishingShape
  <2>2. /\ pub.name = Run <=> pc \in PersistPoints \cup {"commit"}
        /\ pub.name = Pid <=> pc = "identify"
        /\ pub.name = Pid => pub.doc = PidOf(build)
        /\ pc = "commit" => pub.doc.process = mem.process /\ pub.doc.recovered = mem.recovered
        /\ pc \in PersistPoints => pub.doc = mem
    BY <2>1, PublishableIs
  <2>3. CASE Document' = Document /\ file'[Pid] = file[Pid]
    BY <2>1, <2>3, IdentityStays DEF Onwards
  <2>4. CASE pub.name = Run /\ Document' = pub.doc /\ file'[Pid] = file[Pid]
    <3>1. /\ pc \in {"announce", "handle"} \cup Running /\ pc # "identify"
          /\ pub.doc.process = mem.process /\ pub.doc.recovered = mem.recovered
      BY <2>2, <2>4 DEF PersistPoints, Running, LoopPoints, ExportPoints
    <3>2. mem # Absent /\ mem.process = build /\ file[Pid] = PidOf(build)
      BY <1>1, <3>1, PointsApart, LaunchFacts DEF Identified, Shapes, ProcessOK
    <3>3. KnownPids'
      BY <1>1, <2>1, <2>4 DEF KnownPids
    <3>4. mem.recovered \subseteq pids /\ mem.process \notin mem.recovered
      BY <1>1, <3>1, <3>2 DEF Identified
    <3>5. Document'.process = build /\ Document'.recovered = mem.recovered /\ build \notin mem.recovered
      BY <2>4, <3>1, <3>2, <3>4
    <3>6. mem' # Absent => mem'.recovered \subseteq pids' /\ mem'.process \notin mem'.recovered
      BY <2>1, <3>4
    <3>7. /\ Document'.process \notin Document'.recovered /\ Document'.recovered \subseteq pids'
          /\ file'[Pid] = PidOf(Document'.process) /\ file'[Pid] = PidOf(build)
      BY <2>1, <2>4, <3>2, <3>4, <3>5
    <3>8. pc' \notin {"identify"} \cup Resuming /\ pc' \in {"announce", "handle"} \cup Running /\ mem'.process = build'
          /\ build' = build
      BY <2>1, <3>1, <3>2, PointsApart
    <3>9. Document' # Absent
      BY <1>1, <2>1, <2>4, LaunchFacts DEF Shapes, Files, PubFiles
    <3>10. Identified'
      BY <3>5, <3>6, <3>7, <3>8, <3>9 DEF Identified, Resuming
    <3> QED BY <3>3, <3>10 DEF IdentityInv
  <2>5. CASE pub.name = Pid /\ pub.at = "fresh" /\ file'[Pid] = pub.doc /\ Document' = Document
    <3>1. pc = "identify" /\ file'[Pid] = PidOf(build) /\ file'[Pid].pid = build /\ build \in Nat
      BY <1>1, <2>2, <2>5 DEF PidOf, Shapes, ProcessOK
    <3>2. file[Pid] = Absent
      BY <1>1, <2>1, <2>5, <3>1 DEF Shapes, Publisher
    <3>3. Absent # PidOf(Document.process) \/ Document = Absent
      BY <1>1, DocumentsAre, RunDocumentFacts, LaunchFacts DEF PidOf, PidDocs
    <3>4. KnownPids'
      BY <1>1, <2>1, <3>1, PointsApart DEF KnownPids, Early, Resuming
    <3>5. Identified'
      BY <1>1, <2>1, <2>5, <3>1, <3>2, <3>3, PointsApart DEF Identified
    <3> QED BY <3>4, <3>5 DEF IdentityInv
  <2>6. Run # Pid
    BY NameFacts
  <2> QED BY <2>1, <2>3, <2>4, <2>5, <2>6 DEF PubMoved
<1>4. CASE Written
  <2>1. SameView
    BY <1>4, WrittenShape
  <2>2. /\ UNCHANGED <<file, build, pids>> /\ mem \in RunDocuments /\ mem' \in RunDocuments
        /\ \/ pc = "log" /\ pc' = "prestart" /\ mem' = mem
           \/ pc = "budget" /\ pc' = "identify" /\ mem' = mem
           \/ /\ pc = "identify" /\ pc' = "announce" /\ file[Pid] = PidOf(build)
              /\ mem'.process = build /\ mem'.recovered = mem.recovered
           \/ pc = "announce" /\ pc' = "metrics" /\ mem' = mem /\ file[Run] = mem
           \/ pc = "prefix" /\ pc' = "recopied" /\ mem' = mem
           \/ pc = "recopied" /\ pc' = "loop" /\ mem' = mem
           \/ pc = "exporting" /\ pc' = "adapter" /\ mem' = mem
           \/ pc = "commit" /\ pc' = "loop" /\ mem' = pub.doc
    BY <1>4, WrittenIs
  <2>3. mem # Absent /\ mem' # Absent
    BY <2>2, LaunchFacts
  <2>4. CASE pc = "identify" /\ pc' = "announce" /\ file[Pid] = PidOf(build)
              /\ mem'.process = build /\ mem'.recovered = mem.recovered
    <3>1. build \notin pids /\ build \in Nat
      BY <1>1, <2>4 DEF KnownPids, Shapes, ProcessOK
    <3>2. KnownPids'
      BY <1>1, <2>1, <2>2, <2>4, PointsApart DEF KnownPids, SameView, Early, Resuming
    <3>3. Identified'
      BY <1>1, <2>1, <2>2, <2>3, <2>4, <3>1, PointsApart DEF Identified, SameView
    <3> QED BY <3>2, <3>3 DEF IdentityInv
  <2>5. CASE pc = "announce" /\ pc' = "metrics" /\ mem' = mem /\ file[Run] = mem
    <3>1. Document = mem
      BY <1>1, <2>3, <2>5, DocumentsAre
    <3>2. KnownPids'
      BY <1>1, <2>1, <2>2, <2>5, PointsApart DEF KnownPids, SameView, Early, Resuming
    <3>3. mem.process = build /\ file[Pid] = PidOf(build)
      BY <1>1, <2>5 DEF Identified
    <3>4. Identified'
      BY <1>1, <2>1, <2>2, <2>3, <2>5, <3>1, <3>3, PointsApart DEF Identified, SameView, Running, LoopPoints
    <3> QED BY <3>2, <3>4 DEF IdentityInv
  <2>6. CASE pc = "commit" /\ pc' = "loop" /\ mem' = pub.doc
    <3>1. mem'.process = mem.process /\ mem'.recovered = mem.recovered
      <4>1. pub.at # "idle"
        BY <1>4, WrittenIs
      <4> QED BY <2>6, <4>1, PublishableIs
    <3> QED BY <2>1, <2>2, <2>3, <2>6, <3>1, IdentityStays DEF Onwards, SameView, Running, LoopPoints
  <2>7. CASE \/ pc = "log" /\ pc' = "prestart" /\ mem' = mem
             \/ pc = "budget" /\ pc' = "identify" /\ mem' = mem
    BY <2>1, <2>2, <2>7, IdentityStays DEF Onwards, SameView, Early
  <2>8. CASE \/ pc = "prefix" /\ pc' = "recopied" /\ mem' = mem
             \/ pc = "recopied" /\ pc' = "loop" /\ mem' = mem
             \/ pc = "exporting" /\ pc' = "adapter" /\ mem' = mem
    BY <2>1, <2>2, <2>8, IdentityStays DEF Onwards, SameView, Running, LoopPoints, ExportPoints
  <2> QED BY <2>2, <2>4, <2>5, <2>6, <2>7, <2>8
<1>5. CASE Interrupted
  <2>1. /\ SameView /\ UNCHANGED <<build, pids>> /\ pc \in LoopPoints /\ pc' = "handle"
        /\ mem \in RunDocuments /\ mem'.process = mem.process /\ mem'.recovered = mem.recovered
    BY <1>5, InterruptedShape
  <2> QED BY <2>1, IdentityStays, LaunchFacts DEF Onwards, SameView, Running
<1> QED BY <1>2, <1>3, <1>4, <1>5 DEF PublicationSteps

LEMMA IdentityNext ==
    ASSUME Shape, IdentityInv, NextSteps
    PROVE  Shape' /\ IdentityInv'
<1>1. Shapes /\ NameFiles
  BY ShapeIs DEF Shapes, Files
<1>2. pc = "rotate" => file[Pid] \in PidDocs
  BY <1>1, RunDocumentFacts DEF Shapes, ProcessOK, IdentityInv, Identified, PidOf, PidDocs
<1>3. Shape'
  BY <1>2, ShapeNext
<1>4. CASE Ends
  <2>1. SameView /\ UNCHANGED <<build, pids>> /\ pc' = "down" /\ mem' = Absent
    BY <1>4, EndsShape DEF Ends, Down
  <2> QED BY <1>3, <2>1, IdentityStays DEF Onwards, SameView
<1>5. CASE StartSteps
  BY <1>3, <1>5, IdentityStarts
<1>6. CASE IdentitySteps
  BY <1>3, <1>6, IdentityMoves
<1>7. CASE ReplaySteps
  <2>1. SameView /\ UNCHANGED <<pc, build, mem, pids>>
    BY <1>7, ReplayShape DEF ReplaySteps
  <2> QED BY <1>3, <2>1, IdentityStays DEF Onwards, SameView
<1>8. CASE CallSteps
  <2>1. CASE BeginLoad /\ UNCHANGED exportVars
    <3>1. SameView /\ UNCHANGED <<pc, build, mem, pids>>
      BY <2>1, BeginLoadShape
    <3> QED BY <1>3, <3>1, IdentityStays DEF Onwards, SameView
  <2>2. CASE Loaded /\ pc' # "down" /\ UNCHANGED exportVars
    <3>1. /\ SameView /\ UNCHANGED <<build, pids>> /\ pc = "load" /\ pc' = "rotate"
          /\ mem'.process = mem.process /\ mem'.recovered = mem.recovered /\ mem \in RunDocuments
      BY <2>2, LoadedShape
    <3> QED BY <1>3, <3>1, IdentityStays, LaunchFacts DEF Onwards, SameView
  <2>3. CASE SaveCheckpoint
    <3>1. SameView /\ UNCHANGED <<build, mem, pids>> /\ pc = "save" /\ pc' = "saving"
      BY <2>3, SaveCheckpointShape
    <3> QED BY <1>3, <3>1, IdentityStays DEF Onwards, SameView, Running, LoopPoints
  <2>4. CASE InStore \/ InStoreFails
    <3>1. SameView /\ UNCHANGED <<pc, build, mem, pids>>
      BY <2>4, InStoreShape
    <3> QED BY <1>3, <3>1, IdentityStays DEF Onwards, SameView
  <2>5. CASE Saved
    <3>1. SameView /\ UNCHANGED <<build, mem, pids>> /\ pc = "saving" /\ pc' = "commit"
      BY <2>5, SavedShape
    <3> QED BY <1>3, <3>1, IdentityStays DEF Onwards, SameView, Running, LoopPoints
  <2> QED BY <1>8, <2>1, <2>2, <2>3, <2>4, <2>5 DEF CallSteps
<1>9. CASE PublicationSteps
  BY <1>3, <1>9, IdentityPublishes
<1>10. CASE MetricsSteps
  <2>1. /\ Document' = Document /\ file'[Pid] = file[Pid] /\ UNCHANGED <<build, mem, pids>>
        /\ pc \in Running /\ pc' \in Running
    <3>1. CASE CreateMetrics
      BY <3>1, CreateMetricsShape DEF Running, LoopPoints
    <3>2. CASE CopyMetrics
      BY <3>2, CopyMetricsShape DEF CopyMetrics, Goes, memoryVars, SameView, Running, LoopPoints
    <3>3. CASE AppendMetric
      BY <3>3, AppendMetricShape DEF Running, LoopPoints
    <3>4. CASE Update
      BY <3>4, UpdateShape DEF Update, recoveryVars, SameView, Running, LoopPoints
    <3> QED BY <1>10, <3>1, <3>2, <3>3, <3>4 DEF MetricsSteps
  <2> QED BY <1>3, <2>1, IdentityStays DEF Onwards
<1>11. CASE ExportSteps
  <2>1. CASE BeginExport
    <3>1. /\ SameView /\ UNCHANGED <<build, pids>> /\ pc = "loop" /\ pc' = "exporting"
          /\ mem' = [mem EXCEPT !.status = "exporting", !.completed = Horizon, !.metrics = file[Metrics].rows]
      BY <2>1, BeginExportShape DEF BeginExport, recoveryVars
    <3>2. mem \in RunDocuments
      BY <1>1, <3>1 DEF Shapes, ProcessOK
    <3>3. mem # Absent /\ mem'.process = mem.process /\ mem'.recovered = mem.recovered
      BY <3>1, <3>2, LaunchFacts DEF RunDocuments
    <3> QED BY <1>3, <3>1, <3>3, IdentityStays DEF Onwards, SameView, Running, LoopPoints, ExportPoints
  <2>2. CASE Exports
    <3>1. /\ SameView /\ UNCHANGED <<build, pids>>
          /\ pc \in ExportPoints /\ pc' \in ExportPoints
          /\ mem' = mem \/ mem' = [mem EXCEPT !.status = "trained_and_exported"]
      BY <2>2, ExportsShape, ExportsAre
    <3>2. mem \in RunDocuments
      BY <1>1, <3>1 DEF Shapes, ProcessOK, ExportPoints
    <3>3. mem # Absent /\ mem'.process = mem.process /\ mem'.recovered = mem.recovered
      BY <3>1, <3>2, LaunchFacts DEF RunDocuments
    <3> QED BY <1>3, <3>1, <3>3, IdentityStays DEF Onwards, SameView, Running
  <2> QED BY <1>11, <2>1, <2>2 DEF ExportSteps
<1> QED BY <1>3, <1>4, <1>5, <1>6, <1>7, <1>8, <1>9, <1>10, <1>11 DEF NextSteps

LEMMA IdentityInit ==
    ASSUME Init
    PROVE  IdentityInv
<1>1. pc = "down" /\ mem = Absent /\ pids = {} /\ file = [k \in Names |-> Absent] /\ previous = [k \in Names |-> << >>]
  BY DEF Init, StoreInit, FilesInit
<1>2. file[Pid] = Absent /\ file[Run] = Absent /\ previous[Run] = << >>
  BY <1>1, NameFacts
<1>3. Document = Absent
  BY <1>2 DEF Document, Generation
<1> QED BY <1>1, <1>2, <1>3, PointsApart DEF IdentityInv, KnownPids, Identified
-----------------------------------------------------------------------------
(* The checkpoints.                                                        *)

OneName == \A e, f \in Published: e.ckpt.step = f.ckpt.step => e = f

\* c is a, or the checkpoint of a later step.
AsNew(a, c) == a = c \/ (c # Absent /\ (a # Absent => a.step < c.step))

\* Nothing published is newer than c.
UpTo(c) == IF c = Absent THEN Published = {} ELSE \A e \in Published: e.ckpt.step <= c.step

Before == {"rotate", "identify", "announce"}
Between == {"metrics", "prefix", "recopied", "loop", "append", "save"}

\* A load continues from the newest checkpoint, which is the recorded one or
\* the one a killed save published without recording it.
Loading ==
    /\ op.at = "idle" /\ ZeroStep => Unrecognized
    /\ op.at \notin {"idle", "raised"} => ~ZeroStep
    /\ op.at \in OnDisk \cup {"recover"} =>
          /\ IsPublished(op.ckpt) /\ AsNew(Recorded, op.ckpt)
          /\ Recorded # Absent =>
                \A e \in Published: \/ e.ckpt.step <= Recorded.step \/ e.ckpt = op.ckpt
                                    \/ op.at = "recover" /\ e.ckpt = op.spare
          /\ \A e \in Published: \/ e.ckpt.step <= op.ckpt.step
                                 \/ op.at = "recover" /\ e.ckpt = op.spare
    /\ op.at = "recover" => op.spare \in Checkpoints \ {op.ckpt, Recorded}

\* A save finds only older checkpoints, so it never replaces one.
Saving ==
    /\ Recorded = mem.last
    /\ op.at \notin {"discarded", "replaced"}
    /\ op.at = "staged" =>
          /\ \A e \in dirs: e.kind = "stage" => e.ckpt = op.ckpt
          /\ \A e \in Published: e.ckpt.step < n
    /\ op.at \in OnDisk => IsPublished(op.ckpt)
    /\ \A e \in Published:
          /\ e.ckpt.step <= n
          /\ Recorded # Absent => e.ckpt.step <= Recorded.step \/ e.ckpt.step = n

\* run.json names the checkpoint before or the one just saved, and the former
\* until the rename to its name.
Committing ==
    /\ IsPublished(pub.doc.last)
    /\ Recorded \in {mem.last, pub.doc.last}
    /\ pub.at \notin {"drop", "done", "failed"} => Recorded = mem.last
    /\ \A e \in Published: e.ckpt.step <= n

Records ==
    /\ Recorded # Absent => IsPublished(Recorded)
    /\ mem # Absent /\ mem.last # Absent => IsPublished(mem.last)
    /\ pc \in Early => mem.last = Absent
    /\ pc = "budget" => Published = {}
    /\ pc \in Before => AsNew(Recorded, mem.last) /\ UpTo(mem.last)
    /\ pc \in Between => Recorded = mem.last /\ UpTo(mem.last)
    /\ pc \in ExportPoints => Recorded = mem.last
    /\ pc = "handle" => /\ pub.at \notin {"idle", "failed"} => bound
                        /\ mem.last = Absent /\ Recorded # Absent => \A e \in Published: e.ckpt.step = 1
    /\ pc = "load" => Loading
    /\ pc = "saving" => Saving
    /\ pc = "commit" => Committing

RecordsInv == OneName /\ Records

Numbered == {"append", "save", "saving", "commit"}

\* Checkpoints are saved on the cadence, so a load finds none to set aside; and
\* the first of a run is that of its first step.
Paced ==
    /\ \A e \in Published: OnCadence(e.ckpt.step)
    /\ pc \in {"save", "saving"} => OnCadence(n)
    /\ pc # "handle" /\ mem # Absent /\ mem.last = Absent => n = IF pc \in Numbered THEN 1 ELSE 0
    /\ op.at # "recover"
-----------------------------------------------------------------------------
LEMMA PointGroups ==
    /\ \A x \in Before: x \notin Early \cup Between \cup ExportPoints
    /\ \A x \in Between: x \notin Early \cup Before \cup ExportPoints
    /\ \A x \in ExportPoints: x \notin Early \cup Between \cup Before
    /\ \A x \in Early: x \notin Before \cup Between \cup ExportPoints
    /\ \A x \in {"down", "restore", "handle", "load", "saving", "commit"}:
          x \notin Early \cup Before \cup Between \cup ExportPoints
    /\ Running = Between \cup ExportPoints \cup {"saving", "commit"}
    /\ LoopPoints = Between \cup {"saving", "commit"}
    /\ "budget" \notin Before \cup Between \cup ExportPoints
BY DEF Before, Between, Early, ExportPoints, Running, LoopPoints

\* What the invariants know of the directories and the call.
LEMMA StoreFacts ==
    ASSUME Shape
    PROVE  /\ Shapes /\ DirsOK /\ op \in OpType
           /\ op.at \notin {"idle", "raised"} => op.ckpt \in Checkpoints
           /\ pc \notin {"load", "saving"} => op = NoOp
           /\ Recorded \in Checkpoints \cup {Absent}
           /\ mem # Absent => mem \in RunDocuments /\ mem.last \in Checkpoints \cup {Absent}
           /\ pc \notin {"down", "restore"} => mem # Absent
           /\ pc \in {"down", "restore"} => mem = Absent
           /\ n \in Nat
<1>1. Shapes
  BY ShapeIs
<1>2. Recorded \in Checkpoints \cup {Absent}
  BY <1>1, DocumentsAre DEF Shapes, Files
<1>3. mem # Absent => mem \in RunDocuments /\ mem.last \in Checkpoints \cup {Absent}
  BY <1>1, RunDocumentFacts DEF Shapes, ProcessOK
<1>4. n \in Nat
  BY <1>1, HorizonIs DEF Shapes, ProcessOK
<1> QED BY <1>1, <1>2, <1>3, <1>4, LaunchFacts DEF Shapes, StoreShape, DirsOK, ProcessOK

\* While it resumes, the process has the recorded checkpoint in memory.
LEMMA ResumingRecorded ==
    ASSUME Shape, pc \in {"pid", "sweep", "replay", "load"}
    PROVE  mem # Absent /\ mem.last = Recorded /\ Document = file[Run] /\ file[Run] # Absent
<1>1. Shapes /\ mem # Absent
  BY StoreFacts
<1>2. file[Run] # Absent /\ mem.last = file[Run].last
  BY <1>1 DEF Shapes, Present, Resuming
<1>3. Document = file[Run]
  BY <1>1, <1>2, DocumentsAre DEF Shapes, Files
<1> QED BY <1>1, <1>2, <1>3 DEF Recorded

\* Where a process may go without looking at the checkpoints.
Leads ==
    \/ pc' = "down" /\ mem' = Absent
    \/ pc' \in {"restore", "pid", "sweep", "replay"}
    \/ pc' = pc /\ pc \notin {"load", "saving", "commit", "handle"}
    \/ pc \in Early /\ pc' \in {"log", "prestart"}
    \/ pc \in Before /\ pc' \in Before
    \/ pc \in Between /\ pc' \in Between \cup ExportPoints
    \/ pc \in ExportPoints /\ pc' \in ExportPoints

LEMMA RecordsStay ==
    ASSUME Shape', RecordsInv, Leads, Published' = Published, Recorded' = Recorded,
           mem' # Absent => mem # Absent /\ mem'.last = mem.last
    PROVE  RecordsInv'
<1>1. OneName /\ Records
  BY DEF RecordsInv
<1>2. OneName' /\ (IsPublished(Recorded) => IsPublished(Recorded)')
  BY <1>1 DEF OneName, IsPublished
<1>3. /\ Recorded' # Absent => IsPublished(Recorded)'
      /\ mem' # Absent /\ mem'.last # Absent => IsPublished(mem.last)'
  BY <1>1, <1>2 DEF Records, IsPublished
<1>4. pc' \notin {"down", "restore"} => mem' # Absent
  <2>1. Shapes'
    BY ShapeIs, PTL
  <2> QED BY <2>1, LaunchFacts DEF Shapes, ProcessOK
<1>5. CASE pc' = "down" /\ mem' = Absent
  BY <1>2, <1>3, <1>5, PointGroups DEF RecordsInv, Records
<1>6. CASE pc' \in {"restore", "pid", "sweep", "replay"}
  BY <1>2, <1>3, <1>6 DEF RecordsInv, Records, Before, Between, Early, ExportPoints
<1>7. CASE pc' = pc /\ pc \notin {"load", "saving", "commit", "handle"}
  BY <1>1, <1>2, <1>3, <1>4, <1>7 DEF RecordsInv, Records, UpTo, IsPublished, Before, Between, Early, ExportPoints
<1>8. CASE pc \in Early /\ pc' \in {"log", "prestart"}
  BY <1>1, <1>2, <1>3, <1>4, <1>8 DEF RecordsInv, Records, Before, Between, Early, ExportPoints
<1>9. CASE pc \in Before /\ pc' \in Before
  <2>1. pc' \notin Early \cup {"budget", "handle", "load", "saving", "commit"} \cup Between \cup ExportPoints
    BY <1>9, PointGroups
  <2>2. mem # Absent /\ mem' # Absent /\ mem'.last = mem.last
    BY <1>9, <1>4, PointGroups
  <2> QED BY <1>1, <1>2, <1>3, <1>9, <2>1, <2>2, PointGroups DEF RecordsInv, Records, UpTo
<1>10. CASE pc \in Between /\ pc' \in Between \cup ExportPoints
  <2>1. pc' \notin Early \cup {"budget", "handle", "load", "saving", "commit"} \cup Before
    BY <1>10, PointGroups
  <2>2. mem # Absent /\ mem' # Absent /\ mem'.last = mem.last
    BY <1>10, <1>4, PointGroups
  <2> QED BY <1>1, <1>2, <1>3, <1>10, <2>1, <2>2, PointGroups DEF RecordsInv, Records, UpTo
<1>11. CASE pc \in ExportPoints /\ pc' \in ExportPoints
  <2>1. pc' \notin Early \cup {"budget", "handle", "load", "saving", "commit"} \cup Before \cup Between
    BY <1>11, PointGroups
  <2>2. mem # Absent /\ mem' # Absent /\ mem'.last = mem.last
    BY <1>11, <1>4, PointGroups
  <2> QED BY <1>1, <1>2, <1>3, <1>11, <2>1, <2>2, PointGroups DEF RecordsInv, Records
<1> QED BY <1>5, <1>6, <1>7, <1>8, <1>9, <1>10, <1>11 DEF Leads
LEMMA RecordsStarts ==
    ASSUME Shape, Shape', RecordsInv, StartSteps
    PROVE  RecordsInv'
<1>1. OneName /\ Records /\ DirsOK
  BY StoreFacts DEF RecordsInv
<1>2. CASE Start
  <2>1. UNCHANGED <<mem, dirs>> /\ pc = "down" /\ pc' = "restore"
    BY <1>2 DEF Start, memoryVars, storeVars
  <2>2. Recorded' = Recorded
    BY <1>2, StartShape DEF StartSteps
  <2>3. mem = Absent
    BY <2>1, StoreFacts
  <2> QED BY <2>1, <2>2, <2>3, RecordsStay DEF Leads, Published
<1>3. CASE StartFresh
  <2>1. /\ UNCHANGED dirs /\ pc' = "log" /\ mem' = NewRun(build) /\ pc = "restore"
    BY <1>3 DEF StartFresh, Restored
  <2>2. Recorded' = Recorded
    BY <1>3, StartFreshShape DEF StartSteps
  <2>3. mem'.last = Absent
    <3>1. build \in Builds
      BY <2>1, StoreFacts DEF Shapes, ProcessOK
    <3> QED BY <2>1, <3>1, NewRunIs
  <2>4. Published' = Published /\ (Recorded # Absent => IsPublished(Recorded))
    BY <1>1, <2>1 DEF Published, Records
  <2> QED BY <1>1, <2>1, <2>2, <2>3, <2>4 DEF RecordsInv, Records, OneName, IsPublished, Before, Between,
          ExportPoints
<1>4. CASE Resume /\ pc' # "down"
  <2>1. /\ UNCHANGED dirs /\ pc' = "pid" /\ mem' = file[Run] /\ file[Run] # Absent
    BY <1>4 DEF Resume, Refuse, Down, storeVars
  <2>2. Recorded' = Recorded
    BY <1>4, ResumeShape DEF StartSteps
  <2>3. Document = file[Run]
    BY <2>1, StoreFacts, DocumentsAre DEF Shapes, Files
  <2>4. mem'.last = Recorded
    BY <2>1, <2>3 DEF Recorded
  <2>5. Published' = Published /\ (Recorded # Absent => IsPublished(Recorded))
    BY <1>1, <2>1 DEF Published, Records
  <2> QED BY <1>1, <2>1, <2>2, <2>4, <2>5 DEF RecordsInv, Records, OneName, IsPublished, Before, Between, Early,
          ExportPoints
<1>5. CASE \E name \in OutputNames: RestoreMissing(name)
  <2>1. PICK name \in OutputNames: RestoreMissing(name)
    BY <1>5
  <2>2. UNCHANGED <<mem, dirs, pc>> /\ pc = "restore"
    BY <2>1 DEF RestoreMissing, memoryVars
  <2>3. Recorded' = Recorded
    BY <2>1, RestoreMissingShape DEF StartSteps
  <2>4. mem = Absent
    BY <2>2, StoreFacts
  <2> QED BY <2>2, <2>3, <2>4, RecordsStay DEF Leads, Published
<1>6. CASE Moves
  <2>1. UNCHANGED exportVars
    BY DEF StartSteps
  <2>2. Recorded' = Recorded
    BY <1>6, <2>1, MovesShape
  <2>3. /\ UNCHANGED <<mem, dirs, file, op, moved>>
        /\ \/ pc = "prestart" /\ pc' \in {"budget", "identify"} /\ dirs = {}
           \/ pc = "pid" /\ pc' = "sweep"
           \/ pc = "sweep" /\ pc' = "replay"
           \/ pc = "replay" /\ pc' = "load" /\ (ZeroStep => Unrecognized)
           \/ pc = "replay" /\ pc' = "rotate" /\ ZeroStep /\ ~Unrecognized /\ \A e \in dirs: ~Movable(e)
    <3>1. /\ UNCHANGED <<storeVars, memoryVars, build, recoveryVars, exportVars>>
          /\ \/ pc = "prestart" /\ pc' = "budget" /\ dirs = {}
             \/ pc = "prestart" /\ pc' = "identify" /\ dirs = {}
             \/ pc = "pid" /\ pc' = "sweep"
             \/ pc = "sweep" /\ pc' = "replay"
             \/ pc = "replay" /\ pc' = "load" /\ (ZeroStep => Unrecognized)
             \/ pc = "replay" /\ pc' = "rotate" /\ ZeroStep /\ ~Unrecognized /\ \A e \in dirs: ~Movable(e)
      BY <1>6, <2>1, MovesAre
    <3>2. UNCHANGED <<mem, dirs, file, op, moved>>
      BY <3>1 DEF memoryVars, recoveryVars, storeVars, fileVars
    <3> QED BY <3>1, <3>2
  <2>4. mem # Absent /\ mem'.last = mem.last /\ Published' = Published /\ op = NoOp
    BY <2>3, StoreFacts DEF Published
  <2>5. /\ OneName' /\ (Recorded' # Absent => IsPublished(Recorded)')
        /\ mem' # Absent /\ mem'.last # Absent => IsPublished(mem.last)'
    BY <1>1, <2>2, <2>4 DEF OneName, Records, IsPublished
  <2>6. CASE pc = "prestart" /\ pc' \in {"budget", "identify"} /\ dirs = {}
    <3>1. mem.last = Absent /\ Document = Absent
      BY <1>1, <2>4, <2>6, StoreFacts DEF Records, Shapes, Present, Early
    <3>2. Recorded = Absent /\ Published = {}
      BY <2>6, <3>1 DEF Recorded, Published
    <3> QED BY <2>2, <2>4, <2>5, <2>6, <3>1, <3>2
            DEF RecordsInv, Records, UpTo, AsNew, Before, Between, Early, ExportPoints
  <2>7. CASE pc' \in {"sweep", "replay"}
    BY <2>2, <2>4, <2>7, RecordsStay DEF Leads
  <2>8. CASE pc = "replay" /\ pc' = "load" /\ (ZeroStep => Unrecognized)
    <3>1. ZeroStep' = ZeroStep /\ Unrecognized' = Unrecognized
      BY <2>3, <2>4 DEF ZeroStep, Unrecognized, Movable, Expected, Published, NextStaging
    <3>2. op'.at = "idle"
      BY <2>3, <2>4, RestingIs
    <3>3. Loading'
      BY <2>8, <3>1, <3>2 DEF Loading, OnDisk
    <3> QED BY <2>5, <2>8, <3>3 DEF RecordsInv, Records, Before, Between, Early, ExportPoints
  <2>9. CASE pc = "replay" /\ pc' = "rotate" /\ ZeroStep /\ ~Unrecognized /\ \A e \in dirs: ~Movable(e)
    <3>1. dirs = {}
      BY <2>9 DEF Unrecognized
    <3>2. mem.last = Absent /\ Recorded = Absent /\ Published = {}
      BY <2>9, <3>1, ResumingRecorded DEF ZeroStep, Published
    <3> QED BY <2>2, <2>4, <2>5, <2>9, <3>2
            DEF RecordsInv, Records, UpTo, AsNew, Before, Between, Early, ExportPoints
  <2> QED BY <2>3, <2>6, <2>7, <2>8, <2>9
<1>7. CASE Sweep \/ ReplayPointer
  <2>1. UNCHANGED <<mem, dirs, pc>> /\ pc \in {"sweep", "replay"}
    BY <1>7 DEF Sweep, ReplayPointer, memoryVars
  <2>2. Recorded' = Recorded
    BY <1>7, SweepShape, ReplayPointerShape DEF StartSteps
  <2> QED BY <2>1, <2>2, RecordsStay DEF Leads, Published
<1> QED BY <1>2, <1>3, <1>4, <1>5, <1>6, <1>7 DEF StartSteps

LEMMA RecordsMoves ==
    ASSUME Shape, Shape', RecordsInv, IdentitySteps
    PROVE  RecordsInv'
<1>1. UNCHANGED exportVars
  BY DEF IdentitySteps
<1>2. CASE \E name \in Prestart: PrestartMove(name)
  <2>1. PICK name \in Prestart: PrestartMove(name)
    BY <1>2
  <2>2. UNCHANGED <<mem, dirs, pc>> /\ pc = "prestart"
    BY <2>1 DEF PrestartMove, memoryVars
  <2>3. Document' = Document
    BY <1>1, <2>1, PrestartMoveShape
  <2>4. Recorded' = Recorded /\ mem # Absent
    BY <2>2, <2>3, SameDocument, StoreFacts
  <2> QED BY <2>2, <2>4, RecordsStay DEF Leads, Published
<1>3. CASE PidMoves
  <2>1. UNCHANGED <<dirs, pc>> /\ pc = "pid"
    BY <1>3 DEF PidMoves, MovePid, RestorePid
  <2>2. Document' = Document /\ mem'.last = mem.last
    BY <1>1, <1>3, PidMovesShape
  <2>3. Recorded' = Recorded /\ mem # Absent
    BY <2>1, <2>2, SameDocument, StoreFacts
  <2> QED BY <2>1, <2>2, <2>3, RecordsStay DEF Leads, Published
<1>4. CASE RotatePid
  <2>2. pc = "rotate" /\ pc' = "identify" /\ dirs' = dirs /\ mem'.last = mem.last /\ Document' = Document
    <3>1. /\ pc = "rotate" /\ pc' = "identify" /\ dirs' = dirs
          /\ mem' = [mem EXCEPT !.recovered = @ \cup {file[Pid].pid}]
          /\ UNCHANGED previous /\ file' = [file EXCEPT ![Pid] = Absent]
      BY <1>4 DEF RotatePid
    <3>2. mem'.last = mem.last
      BY <3>1, StoreFacts DEF RunDocuments
    <3>3. file'[Run] = file[Run]
      BY <3>1, NameFacts, StoreFacts DEF Shapes, Files, FilesType
    <3> QED BY <3>1, <3>2, <3>3 DEF Document, Generation
  <2>3. Recorded' = Recorded /\ mem # Absent
    BY <2>2, SameDocument, StoreFacts
  <2> QED BY <2>2, <2>3, RecordsStay DEF Leads, Published, Before
<1> QED BY <1>2, <1>3, <1>4 DEF IdentitySteps

\* What the replay moves is a leftover, unless no checkpoint was ever recorded.
LEMMA RecordsReplays ==
    ASSUME Shape, Shape', RecordsInv, ReplaySteps
    PROVE  RecordsInv' /\ Published' \subseteq Published
<1>1. OneName /\ Records
  BY DEF RecordsInv
<1>2. /\ Recorded' = Recorded
      /\ \E e \in dirs: Movable(e) /\ dirs' = dirs \ {e}
      /\ Replay => pc = "replay"
      /\ ReplayAfterLoad => pc = "load" /\ op.at = "returned"
      /\ UNCHANGED <<op, pc, mem>> /\ (Replay \/ ReplayAfterLoad)
  BY ReplayShape DEF ReplaySteps
<1>3. PICK e \in dirs: Movable(e) /\ dirs' = dirs \ {e}
  BY <1>2
<1>4. mem # Absent /\ mem.last = Recorded
  BY <1>2, ResumingRecorded
<1>5. Published' \subseteq Published
  BY <1>3 DEF Published
<1>6. CASE ~ZeroStep
  <2>1. e.kind # "step"
    BY <1>3, <1>6 DEF Movable
  <2>2. Published' = Published
    BY <1>3, <2>1 DEF Published
  <2>3. CASE Replay
    BY <1>2, <1>4, <2>2, <2>3, RecordsStay DEF Leads
  <2>4. CASE ReplayAfterLoad
    <3>1. /\ Loading /\ op'.at = "returned" /\ op' = op /\ pc' = "load" /\ pc = "load" /\ mem' = mem
      BY <1>1, <1>2, <2>4 DEF Records
    <3>2. ~ZeroStep' 
      BY <1>6, <3>1 DEF ZeroStep
    <3>3. Loading'
      BY <1>2, <2>2, <3>1, <3>2 DEF Loading, IsPublished
    <3> QED BY <1>1, <1>2, <1>4, <2>2, <3>1, <3>3
            DEF RecordsInv, Records, OneName, IsPublished, Before, Between, Early, ExportPoints
  <2> QED BY <1>2, <1>5, <2>3, <2>4
<1>7. CASE ZeroStep
  <2>1. Replay
    BY <1>1, <1>2, <1>7 DEF Records, Loading
  <2>2. Recorded = Absent /\ mem.last = Absent /\ pc' = "replay"
    BY <1>2, <1>4, <1>7, <2>1 DEF ZeroStep
  <2> QED BY <1>1, <1>2, <1>4, <1>5, <2>2 DEF RecordsInv, Records, OneName, Before, Between, Early, ExportPoints
<1> QED BY <1>6, <1>7
-----------------------------------------------------------------------------
(* The calls keep the recorded checkpoint and the newest.                  *)

\* The recorded checkpoint and the next step of a load.
LEMMA LoadFinds ==
    ASSUME DirsOK, OneName, NEW r \in Checkpoints \cup {Absent}, NEW a, LoadAccepts(r, a)
    PROVE  LET C == Candidates(r, a)
               x == Newest(C)
           IN  /\ x \in Published /\ x \in C /\ \A f \in C: f.ckpt.step <= x.ckpt.step
               /\ AsNew(r, x.ckpt)
               /\ r # Absent => \A e \in C: e.ckpt.step <= r.step \/ e.ckpt = x.ckpt
               /\ \A e \in Spare(r, a): /\ e \in Published /\ e.ckpt # x.ckpt /\ e.ckpt # r
                                        /\ \A f \in Published \ C: f = e
<1> DEFINE C == Candidates(r, a)
           x == Newest(C)
<1>1. C \in SUBSET Entries /\ C \subseteq Published /\ C # {}
  BY PublishedOK DEF LoadAccepts, StepsOf, Candidates
<1>2. \A e \in Published: e.ckpt \in Checkpoints /\ e.ckpt.step \in Nat
  BY PublishedOK
<1>3. x \in C /\ \A f \in C: f.ckpt.step <= x.ckpt.step
  BY <1>1, NewestIs
<1>4. \A e \in C: Fits(e, r, a)
  BY DEF LoadAccepts
<1>5. \A e \in Published \ C: e.ckpt.step = a /\ e \in Spare(r, a)
  BY DEF Candidates, Spare
<1>6. \A e \in Spare(r, a): e \in Published \ C /\ e.ckpt.step = a
  BY DEF Candidates, Spare
<1>7. r # Absent => /\ r \in Checkpoints /\ r.step \in Nat /\ \E e \in C: e.ckpt.step = r.step
                    /\ a # 0 => a > r.step
  BY CheckpointFacts DEF LoadAccepts, StepsOf
<1> HIDE DEF C, x
<1>8. x \in Published /\ x.ckpt \in Checkpoints /\ x.ckpt # Absent /\ x.ckpt.step \in Nat
  BY <1>1, <1>2, <1>3, LaunchFacts
<1>9. AsNew(r, x.ckpt)
  <2>1. CASE r = Absent
    BY <1>8, <2>1 DEF AsNew
  <2>2. CASE r # Absent
    <3>1. r.step <= x.ckpt.step
      BY <1>3, <1>7, <2>2
    <3>2. x.ckpt.step = r.step => x.ckpt = r
      BY <1>3, <1>4, <2>2 DEF Fits
    <3> QED BY <1>7, <1>8, <2>2, <3>1, <3>2 DEF AsNew
  <2> QED BY <2>1, <2>2
<1>10. ASSUME r # Absent, NEW e \in C, ~(e.ckpt.step <= r.step)
       PROVE  e.ckpt = x.ckpt
  <2>1. e.ckpt.step = a
    BY <1>4, <1>10 DEF Fits
  <2>2. e.ckpt.step <= x.ckpt.step /\ e.ckpt.step \in Nat /\ r.step \in Nat
    BY <1>1, <1>2, <1>3, <1>7, <1>10
  <2>3. x.ckpt.step = a
    <3>1. x.ckpt.step <= r.step \/ x.ckpt.step = a
      BY <1>3, <1>4, <1>10 DEF Fits
    <3> QED BY <1>8, <1>10, <2>2, <3>1
  <2> QED BY <1>1, <1>3, <2>1, <2>3 DEF OneName
<1>11. ASSUME NEW e \in Spare(r, a)
       PROVE  /\ e \in Published /\ e.ckpt # x.ckpt /\ e.ckpt # r
              /\ \A f \in Published \ C: f = e
  <2>1. e \in Published \ C /\ e.ckpt.step = a
    BY <1>6
  <2>2. e.ckpt # x.ckpt
    BY <1>3, <1>8, <2>1 DEF OneName
  <2>3. e.ckpt # r
    <3>1. a \in Nat /\ a # 0
      BY <2>1, PublishedOK
    <3>2. r # Absent => r.step # a
      BY <1>7, <3>1
    <3> QED BY <1>2, <2>1, <3>2, LaunchFacts
  <2> QED BY <1>5, <1>6, <2>1, <2>2, <2>3 DEF OneName
<1> QED BY <1>3, <1>8, <1>9, <1>10, <1>11 DEF C, x

LEMMA RecordsBeginLoad ==
    ASSUME Shape, Shape', RecordsInv, BeginLoad, UNCHANGED exportVars
    PROVE  RecordsInv' /\ Published' = Published
<1> DEFINE a == NextStaging(mem)
           x == Newest(Candidates(mem.last, a))
<1>1. OneName /\ Records /\ DirsOK
  BY StoreFacts DEF RecordsInv
<1>2. /\ Recorded' = Recorded /\ UNCHANGED <<dirs, pc, mem, moved, file>> /\ pc = "load" /\ op = NoOp
      /\ \/ op'.at = "raised"
         \/ /\ op'.at \in {"pointer", "recover"} /\ LoadAccepts(mem.last, a)
            /\ op'.ckpt = x.ckpt
            /\ op'.at = "pointer" => Spare(mem.last, a) = {}
            /\ op'.at = "recover" => \E e \in Spare(mem.last, a): op'.spare = e.ckpt
  BY BeginLoadShape
<1>3. mem.last = Recorded /\ Recorded \in Checkpoints \cup {Absent} /\ op.at = "idle"
  BY <1>2, ResumingRecorded, StoreFacts, RestingIs
<1>4. Published' = Published
  BY <1>2 DEF Published
<1>5. Loading'
  <2>1. CASE op'.at = "raised"
    BY <2>1 DEF Loading, OnDisk
  <2>2. CASE op'.at \in {"pointer", "recover"} /\ LoadAccepts(mem.last, a)
    <3>1. ~ZeroStep
      <4> SUFFICES ASSUME ZeroStep PROVE FALSE
        OBVIOUS
      <4>1. mem.last = Absent /\ a = 1 /\ Expected = 1 /\ Unrecognized
        BY <1>1, <1>2, <1>3 DEF ZeroStep, NextStaging, Expected, Records, Loading
      <4>2. Published = dirs
        BY <2>2 DEF LoadAccepts, Debris
      <4>3. \A e \in Published: e.ckpt.step = 1
        BY <2>2, <4>1 DEF LoadAccepts, Candidates, Spare, Fits
      <4>4. \E e \in dirs: TRUE
        BY <2>2, <4>2 DEF LoadAccepts, StepsOf, Candidates
      <4>5. \A e \in dirs: e.kind = "step" /\ Movable(e)
        BY <4>1, <4>2, <4>3 DEF Movable, Published
      <4> QED BY <4>1, <4>2, <4>3, <4>4, <4>5 DEF Unrecognized
    <3>2. ~ZeroStep'
      BY <1>2, <3>1 DEF ZeroStep
    <3>3. /\ x \in Published /\ \A f \in Candidates(mem.last, a): f.ckpt.step <= x.ckpt.step
          /\ AsNew(Recorded, x.ckpt)
          /\ Recorded # Absent => \A e \in Candidates(mem.last, a): e.ckpt.step <= Recorded.step \/ e.ckpt = x.ckpt
          /\ \A e \in Spare(mem.last, a): /\ e \in Published /\ e.ckpt # x.ckpt /\ e.ckpt # Recorded
                                          /\ \A f \in Published \ Candidates(mem.last, a): f = e
      BY <1>1, <1>3, <2>2, LoadFinds
    <3> HIDE DEF x, a
    <3>4. op'.ckpt = x.ckpt /\ IsPublished(op.ckpt)'
      BY <1>2, <1>4, <2>2, <3>3 DEF IsPublished
    <3>5. CASE op'.at = "pointer"
      <4>1. Candidates(mem.last, a) = Published
        BY <1>2, <3>5 DEF Candidates
      <4> QED BY <1>2, <1>4, <3>2, <3>3, <3>4, <3>5, <4>1 DEF Loading, OnDisk
    <3>6. CASE op'.at = "recover"
      <4>1. PICK e \in Spare(mem.last, a): op'.spare = e.ckpt
        BY <1>2, <3>6
      <4>2. /\ e.ckpt # x.ckpt /\ e.ckpt # Recorded /\ e.ckpt \in Checkpoints
            /\ \A f \in Published \ Candidates(mem.last, a): f = e
        BY <1>1, <3>3, <4>1, PublishedOK
      <4>3. \A f \in Published: f.ckpt.step <= x.ckpt.step \/ f.ckpt = op'.spare
        BY <3>3, <4>1, <4>2
      <4>4. Recorded # Absent => \A f \in Published: f.ckpt.step <= Recorded.step \/ f.ckpt = x.ckpt \/ f.ckpt = op'.spare
        BY <3>3, <4>1, <4>2
      <4> QED BY <1>2, <1>4, <3>2, <3>3, <3>4, <3>6, <4>1, <4>2, <4>3, <4>4 DEF Loading, OnDisk
    <3> QED BY <2>2, <3>5, <3>6
  <2> QED BY <1>2, <2>1, <2>2
<1> QED BY <1>1, <1>2, <1>3, <1>4, <1>5
        DEF RecordsInv, Records, OneName, IsPublished, Before, Between, Early, ExportPoints

LEMMA RecordsLoaded ==
    ASSUME Shape, Shape', RecordsInv, Loaded, pc' # "down", UNCHANGED exportVars
    PROVE  RecordsInv' /\ Published' = Published
<1>1. OneName /\ Records
  BY DEF RecordsInv
<1>2. /\ Recorded' = Recorded /\ UNCHANGED dirs /\ pc = "load" /\ pc' = "rotate" /\ op.at = "returned"
      /\ mem'.last = op.ckpt /\ op.ckpt \in Checkpoints
  BY LoadedShape
<1>3. /\ IsPublished(op.ckpt) /\ AsNew(Recorded, op.ckpt) /\ \A e \in Published: e.ckpt.step <= op.ckpt.step
  BY <1>1, <1>2 DEF Records, Loading, OnDisk
<1>4. Published' = Published /\ op.ckpt # Absent
  BY <1>2, LaunchFacts DEF Published
<1>5. /\ OneName' /\ (Recorded' # Absent => IsPublished(Recorded)')
      /\ IsPublished(mem.last)' /\ AsNew(Recorded, mem.last)' /\ UpTo(mem.last)'
  BY <1>1, <1>2, <1>3, <1>4 DEF Records, OneName, IsPublished, AsNew, UpTo
<1> QED BY <1>2, <1>4, <1>5 DEF RecordsInv, Records, Before, Between, Early, ExportPoints
\* The recorded checkpoint is older than the one a save builds.
LEMMA OlderThan ==
    ASSUME Shape, Records, pc \in {"append", "save"}
    PROVE  \A e \in Published: /\ e.ckpt.step \in Nat /\ e.ckpt.step < n
                               /\ Recorded # Absent /\ e.ckpt.step <= Recorded.step
<1>1. Shapes /\ DirsOK /\ n \in Nat /\ mem # Absent
  BY StoreFacts
<1>2. Recorded = mem.last /\ UpTo(mem.last)
  BY DEF Records, Between
<1>3. mem.last # Absent => mem.last.step < n /\ mem.last.step \in Nat
  <2>1. mem.last # Absent => mem.last.step < n
    BY <1>1 DEF Shapes, Counted
  <2> QED BY <2>1, StoreFacts, CheckpointFacts, <1>1
<1>4. \A e \in Published: e.ckpt.step \in Nat
  BY <1>1, PublishedOK
<1> QED BY <1>1, <1>2, <1>3, <1>4 DEF UpTo

LEMMA RecordsSaveCheckpoint ==
    ASSUME Shape, Shape', RecordsInv, SaveCheckpoint
    PROVE  RecordsInv' /\ Published' = Published
<1>1. OneName /\ Records /\ n \in Nat
  BY StoreFacts DEF RecordsInv
<1>2. /\ Recorded' = Recorded /\ UNCHANGED <<mem, n>> /\ pc = "save" /\ pc' = "saving"
      /\ \/ op'.at = "raised" /\ UNCHANGED dirs
         \/ /\ op'.at = "staged" /\ op'.ckpt = [step |-> n, build |-> build]
            /\ dirs' = dirs \cup {[kind |-> "stage", ckpt |-> op'.ckpt, whole |-> TRUE]}
            /\ ~Debris
  BY SaveCheckpointShape
<1>3. Published' = Published
  BY <1>2 DEF Published
<1>4. op'.at = "staged" => \A e \in dirs': e.kind = "stage" => e.ckpt = op'.ckpt
  BY <1>2 DEF Debris, Published
<1>5. \A e \in Published: e.ckpt.step \in Nat /\ e.ckpt.step < n /\ Recorded # Absent /\ e.ckpt.step <= Recorded.step
  BY <1>1, <1>2, OlderThan
<1>6. Recorded = mem.last
  BY <1>1, <1>2 DEF Records, Between
<1>7. \A e \in Published': e.ckpt.step <= n
  BY <1>1, <1>3, <1>5
<1>8. Saving'
  BY <1>2, <1>3, <1>4, <1>5, <1>6, <1>7 DEF Saving, OnDisk
<1> QED BY <1>1, <1>2, <1>3, <1>8 DEF RecordsInv, Records, OneName, IsPublished, Before, Between, Early, ExportPoints

LEMMA RecordsSaved ==
    ASSUME Shape, Shape', RecordsInv, Saved
    PROVE  RecordsInv' /\ Published' = Published
<1>1. OneName /\ Records
  BY DEF RecordsInv
<1>2. /\ Recorded' = Recorded /\ UNCHANGED <<dirs, mem, n>> /\ pc = "saving" /\ op.at = "returned"
      /\ pc' = "commit" /\ pub'.at = "stage" /\ pub'.doc.last = op.ckpt
  BY SavedShape
<1>3. /\ IsPublished(op.ckpt) /\ Recorded = mem.last /\ \A e \in Published: e.ckpt.step <= n
  BY <1>1, <1>2 DEF Records, Saving, OnDisk
<1>4. Published' = Published
  BY <1>2 DEF Published
<1>5. Committing'
  BY <1>2, <1>3, <1>4 DEF Committing, IsPublished
<1> QED BY <1>1, <1>2, <1>4, <1>5 DEF RecordsInv, Records, OneName, IsPublished, Before, Between, Early, ExportPoints

\* Pruning takes neither the newest nor the recorded checkpoint.
LEMMA PruneKeeps ==
    ASSUME Shape, RecordsInv, pc \in {"load", "saving"}, op.at = "prune", Cardinality(Published) > KeepLast
    PROVE  LET o == Oldest(Published) IN o.ckpt # op.ckpt /\ o.ckpt # Recorded
<1> DEFINE o == Oldest(Published)
<1>1. OneName /\ Records /\ DirsOK /\ op.ckpt \in Checkpoints /\ Recorded \in Checkpoints \cup {Absent} /\ Shapes
  BY StoreFacts DEF RecordsInv
<1>2. o \in Published /\ (\A f \in Published: o.ckpt.step <= f.ckpt.step) /\ \E f, g \in Published \ {o}: f # g
  BY <1>1, PruneTakes
<1> HIDE DEF o
<1>3. PICK f \in Published \ {o}, g \in Published \ {o}: f # g
  BY <1>2
<1>4. \A e \in Published: e.ckpt.step \in Nat /\ e.ckpt \in Checkpoints
  BY <1>1, PublishedOK
<1>5. f.ckpt.step > o.ckpt.step /\ g.ckpt.step > o.ckpt.step /\ f.ckpt.step # g.ckpt.step
  BY <1>1, <1>2, <1>3, <1>4 DEF OneName
<1>6. /\ \A e \in Published: e.ckpt.step <= op.ckpt.step
      /\ Recorded # Absent => \A e \in Published: e.ckpt.step <= Recorded.step \/ e.ckpt.step = op.ckpt.step
  <2>1. CASE pc = "load"
    BY <1>1, <2>1 DEF Records, Loading, OnDisk
  <2>2. CASE pc = "saving"
    <3>1. op.ckpt.step = n
      BY <1>1, <2>2 DEF Shapes, StoreShape
    <3> QED BY <1>1, <2>2, <3>1 DEF Records, Saving
  <2> QED BY <2>1, <2>2
<1>7. op.ckpt.step \in Nat
  BY <1>1, CheckpointFacts
<1>8. o.ckpt # op.ckpt
  BY <1>2, <1>3, <1>4, <1>5, <1>6
<1>9. o.ckpt # Recorded
  <2> SUFFICES ASSUME o.ckpt = Recorded PROVE FALSE
    OBVIOUS
  <2>1. Recorded # Absent
    BY <1>2, <1>4, LaunchFacts
  <2>2. f.ckpt.step = op.ckpt.step /\ g.ckpt.step = op.ckpt.step
    BY <1>2, <1>3, <1>4, <1>5, <1>6, <2>1
  <2> QED BY <1>5, <2>2
<1> QED BY <1>8, <1>9 DEF o

\* What a step of a call does to the published checkpoints.
LEMMA StorePublishes ==
    ASSUME Shape, RecordsInv, InStore \/ InStoreFails
    PROVE  /\ StoreMoved /\ pc \in {"load", "saving"}
           /\ \/ /\ Published' = Published
                 /\ (op.at # "staged" /\ op'.at \notin {"discarded", "replaced"}) \/ op'.at = "raised"
                 /\ op.at # "recover" \/ op'.at = "raised"
              \/ \E g \in Entries: /\ Published' = Published \cup {g} /\ g.kind = "step" /\ g.ckpt = op.ckpt
                                   /\ op.at = "staged" /\ op'.at = "pointer" /\ pc = "saving"
              \/ \E e \in Published: /\ Published' = Published \ {e}
                                     /\ op.at = "recover" /\ op'.at = "pointer" /\ pc = "load"
                                     /\ e.ckpt = op.spare
              \/ \E e \in Published: /\ Published' = Published \ {e}
                                     /\ op.at = "prune" /\ op'.at = "pruning"
                                     /\ e.ckpt # op.ckpt /\ e.ckpt # Recorded
<1>1. OneName /\ Records /\ DirsOK /\ Shapes
  BY StoreFacts DEF RecordsInv
<1>2. StoreMoved /\ DirsMoved /\ pc \in {"load", "saving"} /\ (StoreStep \/ StoreFails)
  BY InStoreShape
<1>3. /\ pc = "saving" => op.at \notin {"discarded", "replaced", "recover"}
      /\ pc = "load" => op.at \notin {"discarded", "replaced", "staged"}
      /\ pc = "saving" => op.ckpt.step = n \/ op.at = "raised"
  BY <1>1, <1>2 DEF Records, Saving, Shapes, StoreShape, OnDisk
<1>4. op.at = "staged" => Target = {} /\ \A e \in dirs: e.kind = "stage" => e.ckpt = op.ckpt
  <2> SUFFICES ASSUME op.at = "staged" PROVE Target = {} /\ \A e \in dirs: e.kind = "stage" => e.ckpt = op.ckpt
    OBVIOUS
  <2>1. pc = "saving" /\ op.ckpt.step = n /\ n \in Nat
    BY <1>2, <1>3, StoreFacts
  <2>2. \A e \in Published: e.ckpt.step < n /\ e.ckpt.step \in Nat
    BY <1>1, <2>1, PublishedOK DEF Records, Saving
  <2>3. Target = {}
    BY <2>1, <2>2 DEF Target
  <2> QED BY <1>1, <2>1, <2>3 DEF Records, Saving
<1>5. CASE UNCHANGED dirs
  <2>1. Published' = Published
    BY <1>5 DEF Published
  <2>2. op.at = "recover" => op'.at = "raised"
    <3> SUFFICES ASSUME op.at = "recover", LoadRecover PROVE FALSE
      BY <1>2, AtIs, StoreFacts
         DEF StoreStep, StoreFails, SaveDiscard, SaveRemove, SaveReplace, SavePublish, WritePointer,
             PublishPointer, PointerWritten, PruneRefused, PruneMove, PruneRemove, Pruned, OpPoints
    <3>1. PICK e \in Published: Renamed(e, "recovery")
      BY DEF LoadRecover
    <3>2. e \in dirs /\ e.kind = "step"
      BY DEF Published
    <3>3. PICK g \in Entries: g.kind = "recovery" /\ dirs' = (dirs \ {e}) \cup {g}
      BY <1>1, <3>1, <3>2, RenamedIs DEF Kinds
    <3> QED BY <1>5, <3>2, <3>3
  <2>3. op.at = "staged" => op'.at = "raised"
    <3> SUFFICES ASSUME op.at = "staged", SavePublish PROVE FALSE
      BY <1>2, <1>4, AtIs, StoreFacts
         DEF StoreStep, StoreFails, SaveDiscard, SaveRemove, SaveReplace, LoadRecover, WritePointer,
             PublishPointer, PointerWritten, PruneRefused, PruneMove, PruneRemove, Pruned, OpPoints
    <3>1. Renamed(Staged, "step") /\ Staged \in dirs /\ Staged.kind = "stage"
      BY <1>1 DEF SavePublish, Staged, Shapes, StoreShape
    <3>2. PICK g \in Entries: g.kind = "step" /\ dirs' = (dirs \ {Staged}) \cup {g}
      BY <1>1, <3>1, RenamedIs DEF Kinds
    <3> QED BY <1>5, <3>1, <3>2
  <2>4. op'.at \notin {"discarded", "replaced"}
    BY <1>2, <2>3 DEF StoreMoved, OnDisk
  <2> QED BY <1>2, <2>1, <2>2, <2>3, <2>4
<1>6. CASE op.at \in {"discarded", "pruning"} /\ \E kind \in {"discarded", "pruned"}: dirs' = {e \in dirs: e.kind # kind}
  <2>1. Published' = Published
    BY <1>6 DEF Published
  <2>2. op'.at \notin {"discarded", "replaced"}
    BY <1>2, <1>6 DEF StoreMoved, OnDisk
  <2> QED BY <1>2, <1>6, <2>1, <2>2
<1>7. CASE \E e \in dirs, g \in Entries:
              /\ dirs' = (dirs \ {e}) \cup {g} /\ g.ckpt = e.ckpt
              /\ op.at \in {"staged", "replaced"} /\ op'.at = "pointer" /\ e.kind = "stage" /\ g.kind = "step"
  <2>1. PICK e \in dirs, g \in Entries:
              /\ dirs' = (dirs \ {e}) \cup {g} /\ g.ckpt = e.ckpt
              /\ op.at \in {"staged", "replaced"} /\ op'.at = "pointer" /\ e.kind = "stage" /\ g.kind = "step"
    BY <1>7
  <2>2. op.at = "staged" /\ pc = "saving" /\ g.ckpt = op.ckpt
    BY <1>2, <1>3, <1>4, <2>1
  <2>3. Published' = Published \cup {g}
    BY <2>1 DEF Published
  <2> QED BY <1>2, <2>1, <2>2, <2>3
<1>8. CASE \E e \in dirs, g \in Entries:
              /\ dirs' = (dirs \ {e}) \cup {g} /\ g.ckpt = e.ckpt
              /\ op.at = "recover" /\ op'.at = "pointer" /\ e.kind = "step" /\ g.kind = "recovery"
              /\ e.ckpt = op.spare
  <2>1. PICK e \in dirs, g \in Entries:
              /\ dirs' = (dirs \ {e}) \cup {g}
              /\ op.at = "recover" /\ op'.at = "pointer" /\ e.kind = "step" /\ g.kind = "recovery"
              /\ e.ckpt = op.spare
    BY <1>8
  <2>2. pc = "load" /\ e \in Published /\ Published' = Published \ {e}
    BY <1>2, <1>3, <2>1 DEF Published
  <2> QED BY <1>2, <2>1, <2>2
<1>9. CASE \E e \in dirs, g \in Entries:
              /\ dirs' = (dirs \ {e}) \cup {g} /\ g.ckpt = e.ckpt
              /\ op.at = "prune" /\ op'.at = "pruning" /\ e = Oldest(Published) /\ e \in Published
              /\ g.kind = "pruned" /\ Cardinality(Published) > KeepLast
  <2>1. PICK e \in dirs, g \in Entries:
              /\ dirs' = (dirs \ {e}) \cup {g}
              /\ op.at = "prune" /\ op'.at = "pruning" /\ e = Oldest(Published) /\ e \in Published
              /\ g.kind = "pruned" /\ Cardinality(Published) > KeepLast
    BY <1>9
  <2>2. e.ckpt # op.ckpt /\ e.ckpt # Recorded
    BY <1>2, <2>1, PruneKeeps
  <2>3. Published' = Published \ {e}
    BY <2>1 DEF Published
  <2> QED BY <1>2, <2>1, <2>2, <2>3
<1>10. ~(op.at = "staged" /\ Target # {})
  BY <1>4
<1> QED BY <1>2, <1>5, <1>6, <1>7, <1>8, <1>9, <1>10 DEF DirsMoved
LEMMA RecordsInStore ==
    ASSUME Shape, Shape', RecordsInv, InStore \/ InStoreFails
    PROVE  RecordsInv'
<1>1. OneName /\ Records /\ DirsOK /\ Shapes /\ n \in Nat /\ Recorded \in Checkpoints \cup {Absent} /\ mem # Absent
  <2>1. pc \in {"load", "saving"}
    BY InStoreShape
  <2> QED BY <2>1, StoreFacts DEF RecordsInv
<1>2. /\ Recorded' = Recorded /\ UNCHANGED <<pc, mem, n>> /\ pc \in {"load", "saving"}
      /\ op'.ckpt = op.ckpt /\ op'.spare = op.spare /\ op.at \notin {"idle", "returned", "raised"} /\ op'.at # "idle"
      /\ op'.at \in {"discarded", "replaced", "pointer", "raised"} \cup OnDisk
  BY InStoreShape DEF StoreMoved, OnDisk
<1>3. op.ckpt \in Checkpoints /\ op.ckpt.step \in Nat
  BY <1>1, <1>2, StoreFacts, CheckpointFacts
<1>4. \A e \in Published: e.ckpt \in Checkpoints /\ e.ckpt.step \in Nat
  BY <1>1, PublishedOK
<1>5. pc = "load" => mem.last = Recorded
  BY ResumingRecorded
<1>6. pc = "saving" => mem.last = Recorded /\ op.ckpt.step = n
  BY <1>1, <1>2 DEF Records, Saving, Shapes, StoreShape
<1>7. ASSUME OneName', \A c \in {Recorded}: IsPublished(c) => IsPublished(c)',
             pc = "load" => Loading', pc = "saving" => Saving'
      PROVE  RecordsInv'
  <2>1. /\ Recorded' # Absent => IsPublished(Recorded)'
        /\ mem' # Absent /\ mem'.last # Absent => IsPublished(mem.last)'
    BY <1>1, <1>2, <1>5, <1>6, <1>7 DEF Records, IsPublished
  <2> QED BY <1>1, <1>2, <1>7, <2>1 DEF RecordsInv, Records, Before, Between, Early, ExportPoints
<1>8. pc = "load" => ~ZeroStep /\ ~ZeroStep'
  BY <1>1, <1>2 DEF Records, Loading, ZeroStep
<1>9. CASE Published' = Published /\ op'.at = "raised"
  <2>1. pc = "load" => Loading'
    BY <1>9 DEF Loading, OnDisk
  <2>2. pc = "saving" => Saving'
    <3> SUFFICES ASSUME pc = "saving" PROVE Saving'
      OBVIOUS
    <3>1. Saving
      BY <1>1 DEF Records
    <3> QED BY <1>2, <1>9, <3>1 DEF Saving, OnDisk
  <2> QED BY <1>1, <1>7, <1>9, <2>1, <2>2 DEF OneName, IsPublished
<1>10. CASE Published' = Published /\ op.at \notin {"staged", "recover"} /\ op'.at \notin {"discarded", "replaced", "raised"}
  <2>0. op'.at \in OnDisk /\ (op.at \in OnDisk \/ op.at \in {"discarded", "replaced"})
    BY <1>2, <1>10, InStoreShape DEF StoreMoved, OnDisk
  <2>1. pc = "load" => Loading'
    <3> SUFFICES ASSUME pc = "load" PROVE Loading'
      OBVIOUS
    <3>1. op.at \in OnDisk /\ Loading
      BY <1>1, <1>2, <2>0 DEF Records, Shapes, StoreShape, OnDisk
    <3> QED BY <1>2, <1>8, <1>10, <2>0, <3>1 DEF Loading, OnDisk, IsPublished
  <2>2. pc = "saving" => Saving'
    <3> SUFFICES ASSUME pc = "saving" PROVE Saving'
      OBVIOUS
    <3>1. op.at \in OnDisk /\ Saving
      BY <1>1, <2>0 DEF Records, Saving
    <3> QED BY <1>2, <1>10, <2>0, <3>1 DEF Saving, OnDisk, IsPublished
  <2> QED BY <1>1, <1>7, <1>10, <2>1, <2>2 DEF OneName, IsPublished
<1>11. CASE \E g \in Entries: /\ Published' = Published \cup {g} /\ g.kind = "step" /\ g.ckpt = op.ckpt
                              /\ op.at = "staged" /\ op'.at = "pointer" /\ pc = "saving"
  <2>1. PICK g \in Entries: /\ Published' = Published \cup {g} /\ g.kind = "step" /\ g.ckpt = op.ckpt
                            /\ op.at = "staged" /\ op'.at = "pointer" /\ pc = "saving"
    BY <1>11
  <2>2. Saving /\ \A e \in Published: e.ckpt.step < n
    BY <1>1, <2>1 DEF Records, Saving
  <2>3. OneName'
    BY <1>1, <1>4, <1>6, <2>1, <2>2 DEF OneName
  <2>4. \A e \in Published': /\ e.ckpt.step <= n
                             /\ Recorded # Absent => e.ckpt.step <= Recorded.step \/ e.ckpt.step = n
    BY <1>1, <1>6, <2>1, <2>2 DEF Saving
  <2>5. IsPublished(op.ckpt)' /\ (IsPublished(Recorded) => IsPublished(Recorded)')
    BY <1>2, <2>1 DEF IsPublished
  <2>6. Saving'
    BY <1>2, <1>6, <2>1, <2>4, <2>5 DEF Saving
  <2> QED BY <1>2, <1>7, <2>1, <2>3, <2>5, <2>6 DEF IsPublished
<1>12. CASE \E e \in Published: /\ Published' = Published \ {e} /\ op.at = "recover" /\ op'.at = "pointer"
                                /\ pc = "load" /\ e.ckpt = op.spare
  <2>1. PICK e \in Published: /\ Published' = Published \ {e} /\ op.at = "recover" /\ op'.at = "pointer"
                              /\ pc = "load" /\ e.ckpt = op.spare
    BY <1>12
  <2>2. Loading /\ op.spare \in Checkpoints \ {op.ckpt, Recorded} /\ IsPublished(op.ckpt) /\ AsNew(Recorded, op.ckpt)
    BY <1>1, <2>1 DEF Records, Loading
  <2>3. \A f \in Published': f.ckpt # op.spare
    BY <1>1, <2>1 DEF OneName
  <2>4. /\ \A f \in Published': f.ckpt.step <= op.ckpt.step
        /\ Recorded # Absent => \A f \in Published': f.ckpt.step <= Recorded.step \/ f.ckpt = op.ckpt
    BY <2>1, <2>2, <2>3 DEF Loading
  <2>5. OneName' /\ IsPublished(op.ckpt)' /\ (IsPublished(Recorded) => IsPublished(Recorded)')
    BY <1>1, <1>2, <2>1, <2>2 DEF OneName, IsPublished
  <2>6. AsNew(Recorded', op'.ckpt)
    BY <1>2, <2>2
  <2>7. Loading'
    BY <1>2, <1>8, <2>1, <2>4, <2>5, <2>6 DEF Loading, OnDisk
  <2> QED BY <1>2, <1>7, <2>1, <2>5, <2>7 DEF IsPublished
<1>13. CASE \E e \in Published: /\ Published' = Published \ {e} /\ op.at = "prune" /\ op'.at = "pruning"
                                /\ e.ckpt # op.ckpt /\ e.ckpt # Recorded
  <2>1. PICK e \in Published: /\ Published' = Published \ {e} /\ op.at = "prune" /\ op'.at = "pruning"
                              /\ e.ckpt # op.ckpt /\ e.ckpt # Recorded
    BY <1>13
  <2>2. OneName' /\ (IsPublished(Recorded) => IsPublished(Recorded)')
    BY <1>1, <1>2, <2>1 DEF OneName, IsPublished
  <2>3. pc = "load" => Loading'
    <3> SUFFICES ASSUME pc = "load" PROVE Loading'
      OBVIOUS
    <3>1. Loading
      BY <1>1 DEF Records
    <3>2. IsPublished(op.ckpt)' /\ AsNew(Recorded', op'.ckpt)
      BY <1>2, <2>1, <3>1 DEF Loading, OnDisk, IsPublished
    <3> QED BY <1>2, <1>8, <2>1, <3>1, <3>2 DEF Loading, OnDisk
  <2>4. pc = "saving" => Saving'
    <3> SUFFICES ASSUME pc = "saving" PROVE Saving'
      OBVIOUS
    <3>1. Saving
      BY <1>1 DEF Records
    <3>2. IsPublished(op.ckpt)'
      BY <1>2, <2>1, <3>1 DEF Saving, OnDisk, IsPublished
    <3> QED BY <1>2, <2>1, <3>1, <3>2 DEF Saving, OnDisk
  <2> QED BY <1>2, <1>7, <2>1, <2>2, <2>3, <2>4 DEF IsPublished
<1>14. /\ StoreMoved
       /\ \/ Published' = Published /\ op'.at = "raised"
          \/ Published' = Published /\ op.at \notin {"staged", "recover"} /\ op'.at \notin {"discarded", "replaced", "raised"}
          \/ \E g \in Entries: /\ Published' = Published \cup {g} /\ g.kind = "step" /\ g.ckpt = op.ckpt
                               /\ op.at = "staged" /\ op'.at = "pointer" /\ pc = "saving"
          \/ \E e \in Published: /\ Published' = Published \ {e} /\ op.at = "recover" /\ op'.at = "pointer"
                                 /\ pc = "load" /\ e.ckpt = op.spare
          \/ \E e \in Published: /\ Published' = Published \ {e} /\ op.at = "prune" /\ op'.at = "pruning"
                                 /\ e.ckpt # op.ckpt /\ e.ckpt # Recorded
  BY StorePublishes
<1> QED BY <1>9, <1>10, <1>11, <1>12, <1>13, <1>14
-----------------------------------------------------------------------------
LEMMA RecordsPublishing ==
    ASSUME Shape, Shape', RecordsInv, Publishing \/ PublishingFails
    PROVE  /\ RecordsInv' /\ Published' = Published
           /\ \/ Document' = Document
              \/ /\ Document' = pub.doc /\ bound
                 /\ pc \in PersistPoints \cup {"commit"} /\ Recorded' = pub.doc.last
                 /\ pc # "handle" => AsNew(Recorded, pub.doc.last)
                 /\ pc \in {"recopied"} \cup ExportPoints => Recorded = pub.doc.last
<1>1. OneName /\ Records /\ Shapes
  BY StoreFacts DEF RecordsInv
<1>2. /\ PubMoved /\ pub.at \notin {"idle", "failed"}
      /\ pub.at \in {"drop", "done"} => pub'.at \in {"done", "failed"}
      /\ pub'.doc = pub.doc /\ UNCHANGED <<dirs, op, pc, mem, n>>
      /\ pc \in (PersistPoints \cup WritingPoints) \ {"load", "saving"}
      /\ \/ PublishStep /\ bound' = bound /\ pub'.at # "failed"
         \/ PublicationFails /\ pub'.at = "failed" /\ Document' = Document
  BY PublishingShape
<1>3. /\ pub.name = Run <=> pc \in PersistPoints \cup {"commit"}
      /\ Publishable(pub.name, pub.doc)
      /\ pc \in PersistPoints => pub.doc = mem
      /\ pc = "commit" => pub.doc.last = [step |-> n, build |-> build] /\ pub.doc.last \in Checkpoints
  BY <1>2, PublishableIs
<1>4. Published' = Published /\ mem # Absent /\ bound
  <2>1. pc \notin {"down", "restore"}
    BY <1>2 DEF PersistPoints, WritingPoints
  <2>2. bound
    BY <1>1, <1>2 DEF Shapes, ProcessOK, Records
  <2> QED BY <1>2, <2>1, <2>2, StoreFacts DEF Published
<1>5. \/ Document' = Document
      \/ /\ Document' = pub.doc /\ pub.name = Run /\ pub.doc \in RunDocuments /\ pub.at \in {"fresh", "swap"}
         /\ pub'.at \in {"drop", "done"}
  BY <1>2, <1>3 DEF PubMoved, Publishable
<1>6. CASE Document' = Document
  <2>1. Recorded' = Recorded
    BY <1>6, SameDocument
  <2>2. CASE pc \notin {"commit", "handle"}
    <3>1. pc \notin {"load", "saving", "commit", "handle"}
      BY <1>2, <2>2 DEF PersistPoints
    <3> QED BY <1>2, <1>4, <1>6, <2>1, <3>1, RecordsStay DEF Leads
  <2>3. CASE pc = "handle"
    <3>1. mem.last = Absent /\ Recorded # Absent => \A e \in Published: e.ckpt.step = 1
      BY <1>1, <2>3 DEF Records
    <3>2. pub'.at \notin {"idle", "failed"} => bound'
      BY <1>2, <1>4
    <3> QED BY <1>1, <1>2, <1>4, <1>6, <2>1, <2>3, <3>1, <3>2
            DEF RecordsInv, Records, OneName, IsPublished, Before, Between, Early, ExportPoints
  <2>4. CASE pc = "commit"
    <3>1. Committing /\ pub.name = Run
      BY <1>1, <1>3, <2>4 DEF Records
    <3>2. pub.at \in {"stage", "aside", "fresh", "swap"} => Recorded = mem.last
      BY <1>2, <3>1 DEF Committing
    <3>3. pub.at \in {"drop", "done", "stage", "aside", "fresh", "swap"}
      BY <1>1, <1>2 DEF Shapes, Files, FilesType, PubTypes, Point
    <3>4. pub'.at \notin {"drop", "done", "failed"} => Recorded = mem.last
      BY <1>2, <3>1, <3>2, <3>3
    <3>5. Committing'
      BY <1>2, <1>4, <2>1, <3>1, <3>4 DEF Committing, IsPublished
    <3> QED BY <1>1, <1>2, <1>4, <1>6, <2>1, <2>4, <3>5
            DEF RecordsInv, Records, OneName, IsPublished, Before, Between, Early, ExportPoints
  <2> QED BY <1>4, <1>6, <2>2, <2>3, <2>4
<1>7. CASE /\ Document' = pub.doc /\ pub.name = Run /\ pub.doc \in RunDocuments /\ pub.at \in {"fresh", "swap"}
           /\ pub'.at \in {"drop", "done"}
  <2>1. Recorded' = pub.doc.last /\ bound'= bound /\ pub.doc.last \in Checkpoints \cup {Absent}
    BY <1>2, <1>7, LaunchFacts, RunDocumentFacts DEF Recorded
  <2>2. CASE pc = "announce"
    <3>1. pub.doc.last = mem.last /\ AsNew(Recorded, mem.last) /\ UpTo(mem.last) /\ (mem.last # Absent => IsPublished(mem.last))
      BY <1>1, <1>3, <1>4, <2>2 DEF Records, Before, PersistPoints
    <3>2. RecordsInv'
      BY <1>1, <1>2, <1>4, <2>1, <2>2, <3>1
         DEF RecordsInv, Records, OneName, IsPublished, AsNew, UpTo, Before, Between, Early, ExportPoints
    <3> QED BY <1>4, <1>7, <2>1, <2>2, <3>1, <3>2 DEF PersistPoints, ExportPoints
  <2>3. CASE pc \in {"recopied"} \cup ExportPoints
    <3>1. pc \in PersistPoints /\ pc \notin {"commit", "handle"}
      BY <1>3, <1>7, <2>3, PointGroups DEF ExportPoints
    <3>2. Recorded = mem.last /\ pub.doc = mem
      BY <1>1, <1>3, <1>4, <2>3, <3>1 DEF Records, Between
    <3>3. Recorded' = Recorded
      BY <2>1, <3>2
    <3>4. RecordsInv'
      BY <1>2, <1>4, <2>3, <3>1, <3>3, PointGroups, RecordsStay DEF Leads
    <3> QED BY <1>4, <1>7, <2>1, <3>1, <3>2, <3>4 DEF AsNew
  <2>6. CASE pc = "handle"
    <3>1. pub.doc = mem /\ (mem.last # Absent => IsPublished(mem.last))
      BY <1>1, <1>3, <1>4, <2>6 DEF Records, PersistPoints
    <3>2. RecordsInv'
      BY <1>1, <1>2, <1>4, <2>1, <2>6, <3>1
         DEF RecordsInv, Records, OneName, IsPublished, Before, Between, Early, ExportPoints
    <3> QED BY <1>4, <1>7, <2>1, <2>6, <3>1, <3>2 DEF PersistPoints, ExportPoints
  <2>4. CASE pc = "commit"
    <3>1. Committing /\ Recorded = mem.last
      BY <1>1, <1>7, <2>4 DEF Records, Committing
    <3>2. mem.last # Absent => mem.last.step < n
      BY <1>1, <1>4, <2>4 DEF Shapes, Counted
    <3>3. AsNew(Recorded, pub.doc.last)
      BY <1>3, <2>4, <3>1, <3>2, LaunchFacts DEF AsNew
    <3>4. Committing'
      BY <1>2, <1>4, <1>7, <2>1, <3>1 DEF Committing, IsPublished
    <3>5. RecordsInv'
      BY <1>1, <1>2, <1>4, <2>1, <2>4, <3>1, <3>4
         DEF RecordsInv, Records, Committing, OneName, IsPublished, Before, Between, Early, ExportPoints
    <3> QED BY <1>4, <1>7, <2>1, <2>4, <3>1, <3>3, <3>5, PointGroups
  <2>5. pc \in {"announce", "recopied", "handle", "commit"} \cup ExportPoints
    BY <1>3, <1>7 DEF PersistPoints, ExportPoints
  <2> QED BY <2>2, <2>3, <2>4, <2>5, <2>6
<1> QED BY <1>5, <1>6, <1>7

LEMMA RecordsWritten ==
    ASSUME Shape, Shape', RecordsInv, Written
    PROVE  RecordsInv' /\ Published' = Published
<1>1. OneName /\ Records /\ Shapes
  BY StoreFacts DEF RecordsInv
<1>2. Recorded' = Recorded /\ Document' = Document
  BY WrittenShape DEF SameView
<1>3. /\ UNCHANGED <<file, dirs, n>> /\ pub.at # "idle"
      /\ mem \in RunDocuments /\ mem' \in RunDocuments
      /\ \/ pc = "log" /\ pc' = "prestart" /\ mem'.last = mem.last
         \/ pc = "budget" /\ pc' = "identify" /\ mem'.last = mem.last
         \/ pc = "identify" /\ pc' = "announce" /\ mem'.last = mem.last
         \/ pc = "prefix" /\ pc' = "recopied" /\ mem'.last = mem.last
         \/ pc = "announce" /\ pc' = "metrics" /\ mem' = mem /\ file[Run] = mem
         \/ pc = "recopied" /\ pc' = "loop" /\ mem'.last = mem.last
         \/ pc = "exporting" /\ pc' = "adapter" /\ mem'.last = mem.last
         \/ pc = "commit" /\ pc' = "loop" /\ mem' = pub.doc /\ file[Run] = pub.doc
  BY WrittenIs
<1>4. Published' = Published /\ mem # Absent /\ mem' # Absent
  BY <1>3, LaunchFacts DEF Published
<1>5. CASE pc = "budget" /\ pc' = "identify" /\ mem'.last = mem.last
  <2>1. mem.last = Absent /\ Published = {} /\ Document = Absent
    BY <1>1, <1>5 DEF Records, Shapes, Present, Early
  <2>2. Recorded = Absent
    BY <2>1 DEF Recorded
  <2> QED BY <1>1, <1>2, <1>4, <1>5, <2>1, <2>2
          DEF RecordsInv, Records, OneName, AsNew, UpTo, Before, Between, Early, ExportPoints
<1>6. CASE pc = "announce" /\ pc' = "metrics" /\ mem' = mem /\ file[Run] = mem
  <2>1. Document = mem
    BY <1>1, <1>4, <1>6, DocumentsAre DEF Shapes, Files
  <2>2. Recorded = mem.last /\ UpTo(mem.last)
    BY <1>1, <1>4, <1>6, <2>1 DEF Recorded, Records, Before
  <2> QED BY <1>1, <1>2, <1>4, <1>6, <2>2
          DEF RecordsInv, Records, OneName, IsPublished, UpTo, Before, Between, Early, ExportPoints
<1>7. CASE pc = "commit" /\ pc' = "loop" /\ mem' = pub.doc /\ file[Run] = pub.doc
  <2>1. Document = pub.doc
    BY <1>1, <1>4, <1>7, DocumentsAre DEF Shapes, Files
  <2>2. Recorded = pub.doc.last /\ pub.doc.last.step = n /\ pub.doc.last # Absent
    BY <1>3, <1>4, <1>7, <2>1, PublishableIs, LaunchFacts DEF Recorded
  <2>3. IsPublished(pub.doc.last) /\ UpTo(pub.doc.last)
    BY <1>1, <1>7, <2>2 DEF Records, Committing, UpTo
  <2>4. OneName' /\ IsPublished(mem.last)' /\ UpTo(mem.last)' /\ Recorded' = mem'.last
    BY <1>1, <1>2, <1>4, <1>7, <2>2, <2>3 DEF OneName, IsPublished, UpTo
  <2> QED BY <1>4, <1>7, <2>4 DEF RecordsInv, Records, Before, Between, Early, ExportPoints
<1>8. CASE \/ pc = "log" /\ pc' = "prestart" /\ mem'.last = mem.last
           \/ pc = "identify" /\ pc' = "announce" /\ mem'.last = mem.last
           \/ pc = "prefix" /\ pc' = "recopied" /\ mem'.last = mem.last
           \/ pc = "recopied" /\ pc' = "loop" /\ mem'.last = mem.last
           \/ pc = "exporting" /\ pc' = "adapter" /\ mem'.last = mem.last
  BY <1>2, <1>4, <1>8, RecordsStay DEF Leads, Early, Before, Between, ExportPoints
<1> QED BY <1>3, <1>4, <1>5, <1>6, <1>7, <1>8

LEMMA RecordsInterrupted ==
    ASSUME Shape, Shape', RecordsInv, Paced, Interrupted
    PROVE  RecordsInv' /\ Published' = Published
<1>1. OneName /\ Records /\ Shapes
  BY StoreFacts DEF RecordsInv
<1>2. /\ Recorded' = Recorded /\ UNCHANGED <<dirs, bound>> /\ pc \in LoopPoints /\ pc' = "handle"
      /\ pub' = NoPublication /\ mem \in RunDocuments /\ mem'.last = mem.last
      /\ pub.at \in {"idle", "failed"} \/ pc = "saving"
  BY InterruptedShape
<1>3. Published' = Published /\ mem # Absent /\ pub'.at = "idle"
  BY <1>2, LaunchFacts, RestingIs DEF Published
<1>4. mem.last = Absent /\ Recorded # Absent => \A e \in Published: e.ckpt.step = 1
  <2>1. CASE pc \in Between
    BY <1>1, <2>1 DEF Records
  <2>2. CASE pc = "saving"
    BY <1>1, <2>2 DEF Records, Saving
  <2>3. CASE pc = "commit"
    <3>1. mem.last = Absent => n = 1
      BY <1>3, <2>3 DEF Paced, Numbered
    <3>2. \A e \in Published: e.ckpt.step <= n /\ e.ckpt.step \in Nat /\ e.ckpt.step >= 1
      BY <1>1, <2>3, StoreFacts, PublishedOK DEF Records, Committing
    <3> QED BY <3>1, <3>2
  <2> QED BY <1>2, <2>1, <2>2, <2>3, PointGroups
<1> QED BY <1>1, <1>2, <1>3, <1>4
        DEF RecordsInv, Records, OneName, IsPublished, Before, Between, Early, ExportPoints
LEMMA RecordsNext ==
    ASSUME Shape, Shape', RecordsInv, Paced, NextSteps
    PROVE  RecordsInv'
<1>1. CASE Ends
  <2>1. Recorded' = Recorded
    BY <1>1, EndsShape
  <2>2. UNCHANGED dirs /\ pc' = "down" /\ mem' = Absent
    BY <1>1 DEF Ends, Down
  <2> QED BY <2>1, <2>2, RecordsStay DEF Leads, Published
<1>2. CASE StartSteps \/ IdentitySteps \/ ReplaySteps
  BY <1>2, RecordsStarts, RecordsMoves, RecordsReplays
<1>3. CASE CallSteps
  BY <1>3, RecordsBeginLoad, RecordsLoaded, RecordsSaveCheckpoint, RecordsInStore, RecordsSaved DEF CallSteps
<1>4. CASE PublicationSteps
  <2>1. CASE Begins /\ UNCHANGED exportVars
    <3>1. Recorded' = Recorded
      BY <2>1, BeginsShape
    <3>2. /\ UNCHANGED <<dirs, pc, mem, bound>> /\ pc \in PersistPoints \cup {"log", "budget", "identify", "prefix"}
          /\ pc = "handle" => bound
      BY <2>1, BeginsAre DEF PersistPoints
    <3>3. Published' = Published /\ mem # Absent
      <4>1. pc \notin {"down", "restore"}
        BY <3>2 DEF PersistPoints
      <4> QED BY <3>2, <4>1, StoreFacts DEF Published
    <3>4. CASE pc # "handle"
      <4>1. pc \notin {"load", "saving", "commit", "handle"}
        BY <3>2, <3>4 DEF PersistPoints
      <4> QED BY <3>1, <3>2, <3>3, <4>1, RecordsStay DEF Leads
    <3>5. CASE pc = "handle"
      BY <3>1, <3>2, <3>3, <3>5
         DEF RecordsInv, Records, OneName, IsPublished, Before, Between, Early, ExportPoints
    <3> QED BY <3>4, <3>5
  <2> QED BY <1>4, <2>1, RecordsPublishing, RecordsWritten, RecordsInterrupted DEF PublicationSteps
<1>5. CASE MetricsSteps
  <2>1. /\ Document' = Document /\ UNCHANGED <<dirs, mem>> /\ pc \in Between /\ pc' \in Between
    <3>1. CASE CreateMetrics
      BY <3>1, CreateMetricsShape DEF Between
    <3>2. CASE CopyMetrics
      BY <3>2, CopyMetricsShape DEF CopyMetrics, Goes, memoryVars, storeVars, SameView, Between
    <3>3. CASE AppendMetric
      BY <3>3, AppendMetricShape DEF Between
    <3>4. CASE Update
      BY <3>4, UpdateShape DEF Update, storeVars, SameView, Between
    <3> QED BY <1>5, <3>1, <3>2, <3>3, <3>4 DEF MetricsSteps
  <2>2. Recorded' = Recorded /\ mem # Absent
    <3>1. pc \notin {"down", "restore"}
      BY <2>1, PointGroups
    <3> QED BY <2>1, <3>1, SameDocument, StoreFacts
  <2> QED BY <2>1, <2>2, RecordsStay DEF Leads, Published
<1>6. CASE ExportSteps
  <2>1. CASE BeginExport
    <3>1. /\ Recorded' = Recorded /\ UNCHANGED dirs /\ pc = "loop" /\ pc' = "exporting"
          /\ mem' = [mem EXCEPT !.status = "exporting", !.completed = Horizon, !.metrics = file[Metrics].rows]
      BY <2>1, BeginExportShape DEF BeginExport, storeVars
    <3>2. mem # Absent /\ mem \in RunDocuments
      BY <3>1, StoreFacts
    <3>3. mem'.last = mem.last
      BY <3>1, <3>2 DEF RunDocuments
    <3> QED BY <3>1, <3>2, <3>3, RecordsStay DEF Leads, Published, Between, ExportPoints
  <2>2. CASE Exports
    <3>1. /\ Recorded' = Recorded /\ UNCHANGED dirs /\ pc \in ExportPoints /\ pc' \in ExportPoints
          /\ mem' = mem \/ mem' = [mem EXCEPT !.status = "trained_and_exported"]
      BY <2>2, ExportsShape, ExportsAre DEF storeVars
    <3>2. mem # Absent /\ mem \in RunDocuments
      BY <3>1, StoreFacts, PointGroups
    <3>3. mem'.last = mem.last
      BY <3>1, <3>2 DEF RunDocuments
    <3> QED BY <3>1, <3>2, <3>3, RecordsStay DEF Leads, Published
  <2> QED BY <1>6, <2>1, <2>2 DEF ExportSteps
<1> QED BY <1>1, <1>2, <1>3, <1>4, <1>5, <1>6 DEF NextSteps

LEMMA RecordsInit ==
    ASSUME Init
    PROVE  RecordsInv
<1>1. pc = "down" /\ mem = Absent /\ dirs = {} /\ file = [k \in Names |-> Absent] /\ previous = [k \in Names |-> << >>]
  BY DEF Init, StoreInit, FilesInit
<1>2. Document = Absent
  BY <1>1, NameFacts DEF Document, Generation
<1> QED BY <1>1, <1>2, PointGroups DEF RecordsInv, Records, OneName, Published, Recorded
-----------------------------------------------------------------------------
(* The metrics.                                                            *)

\* The row of its step tells which process built a checkpoint.
Carries(doc) ==
    \A e \in Published: /\ doc # Absent /\ e.ckpt.step <= Len(doc.rows)
                        /\ doc.rows[e.ckpt.step] = e.ckpt.build

TailRows == UNION {RowsOf(MetricsOf(rows)): rows \in tails}

MetricsInv ==
    /\ Carries(Generation(Metrics))
    /\ pc = "prefix" /\ pub.at # "idle" => Carries(pub.doc)
    /\ pc \in {"save", "saving"} => file[Metrics].rows[n] = build
    /\ pc = "prefix" /\ pub.at \in {"idle", "stage", "aside", "fresh", "swap"} =>
          RowsOf(Generation(Metrics)) \subseteq TailRows
-----------------------------------------------------------------------------
RowsKept == AllRows \subseteq AllRows'

LEMMA TailsGrow ==
    ASSUME tails \subseteq tails'
    PROVE  TailRows \subseteq TailRows' /\ (RowsOf(Generation(Metrics)) \subseteq AllRows' => RowsKept)
<1>1. TailRows \subseteq TailRows'
  BY DEF TailRows
<1> QED BY <1>1 DEF RowsKept, AllRows, TailRows

LEMMA MetricsStay ==
    ASSUME MetricsInv, Published' \subseteq Published, Generation(Metrics)' = Generation(Metrics), tails' = tails,
           \/ pc' \notin {"prefix", "save", "saving"}
           \/ /\ pc \in {"save", "saving"} /\ pc' = "saving"
              /\ UNCHANGED <<file[Metrics], n, build>>
    PROVE  MetricsInv' /\ RowsKept
<1>1. Carries(Generation(Metrics))'
  BY DEF MetricsInv, Carries
<1>2. MetricsInv'
  BY <1>1 DEF MetricsInv
<1>3. AllRows' = AllRows
  BY DEF AllRows
<1> QED BY <1>2, <1>3 DEF RowsKept

\* What the process reads of its metrics is what is there.
LEMMA MetricsFacts ==
    ASSUME Shape
    PROVE  /\ Generation(Metrics) \in MetricsDocs \cup {Absent}
           /\ file[Metrics] # Absent => Generation(Metrics) = file[Metrics] /\ file[Metrics] \in MetricsDocs
           /\ pc \notin {"down", "restore", "prefix", "handle"} => Generation(Metrics) = file[Metrics]
           /\ \A d \in MetricsDocs: /\ d # Absent /\ d.rows \in Rows /\ d = MetricsOf(d.rows)
                                    /\ Len(d.rows) \in Nat /\ DOMAIN d.rows = 1..Len(d.rows)
           /\ \A e \in Published: e.ckpt.step \in Nat /\ e.ckpt.step > 0
<1>1. Shapes /\ DirsOK
  BY StoreFacts
<1>2. \A d \in MetricsDocs: /\ d # Absent /\ d.rows \in Rows /\ d = MetricsOf(d.rows)
                            /\ Len(d.rows) \in Nat /\ DOMAIN d.rows = 1..Len(d.rows)
  BY MetricsDocsAre, RowsAre, LenProperties, LaunchFacts
<1>3. \A e \in Published: e.ckpt.step \in Nat /\ e.ckpt.step > 0
  BY <1>1, PublishedOK, CheckpointFacts
<1> QED BY <1>1, <1>2, <1>3, DocumentsAre DEF Shapes, Files, NameFiles, Present

LEMMA MetricsCopies ==
    ASSUME Shape, Shape', MetricsInv, CopyMetrics
    PROVE  MetricsInv' /\ RowsKept
<1>1. /\ pc = "metrics" /\ pc' = "prefix" /\ file[Metrics] # Absent /\ UNCHANGED <<dirs, pub>>
      /\ tails' = tails \cup {file[Metrics].rows}
  BY DEF CopyMetrics, Goes, storeVars, fileVars
<1>2. Generation(Metrics)' = Generation(Metrics) /\ Published' = Published
  BY <1>1, CopyMetricsShape DEF SameView, Published
<1>3. Generation(Metrics) = file[Metrics] /\ file[Metrics] = MetricsOf(file[Metrics].rows)
  BY <1>1, MetricsFacts
<1>4. pub.at = "idle" /\ pub' = pub
  BY <1>1, StoreFacts, RestingIs DEF Shapes, Publisher, PersistPoints, WritingPoints
<1>5. RowsOf(Generation(Metrics)) \subseteq TailRows'
  BY <1>1, <1>3 DEF TailRows
<1>6. MetricsInv'
  BY <1>1, <1>2, <1>4, <1>5 DEF MetricsInv, Carries
<1>7. RowsKept
  BY <1>1, <1>5, TailsGrow DEF AllRows, TailRows
<1> QED BY <1>6, <1>7

LEMMA MetricsCreates ==
    ASSUME Shape, Shape', MetricsInv, CreateMetrics
    PROVE  MetricsInv' /\ RowsKept
<1>1. /\ Generation(Metrics) = Absent /\ pc' = "loop" /\ UNCHANGED <<dirs, tails>>
  BY CreateMetricsShape
<1>2. Published = {} /\ Published' = Published
  BY <1>1 DEF MetricsInv, Carries, Published
<1>3. MetricsInv'
  BY <1>1, <1>2 DEF MetricsInv, Carries
<1>4. RowsOf(Generation(Metrics)) = {}
  BY <1>1 DEF RowsOf
<1> QED BY <1>1, <1>3, <1>4, TailsGrow

LEMMA MetricsAppends ==
    ASSUME Shape, Shape', MetricsInv, AppendMetric
    PROVE  MetricsInv' /\ RowsKept
<1>1. /\ Generation(Metrics) = file[Metrics] /\ file[Metrics] \in MetricsDocs
      /\ file'[Metrics] \in MetricsDocs /\ Generation(Metrics)' = file'[Metrics]
      /\ Len(file[Metrics].rows) = n - 1 /\ n \in Nat /\ Len(file'[Metrics].rows) = n
      /\ file'[Metrics].rows[n] = build
      /\ \A i \in 1..(n - 1): file'[Metrics].rows[i] = file[Metrics].rows[i]
      /\ pc' \in {"save", "loop"} /\ UNCHANGED <<dirs, build, n, tails>>
  BY AppendMetricShape
<1>2. Published' = Published /\ \A e \in Published: e.ckpt.step \in Nat /\ e.ckpt.step > 0
  BY <1>1, MetricsFacts DEF Published
<1>3. DOMAIN file[Metrics].rows = 1..(n - 1) /\ DOMAIN file'[Metrics].rows = 1..n
      /\ file'[Metrics] # Absent /\ file[Metrics] # Absent
  BY <1>1, MetricsFacts
<1>4. \A e \in Published: e.ckpt.step \in 1..(n - 1) /\ file[Metrics].rows[e.ckpt.step] = e.ckpt.build
  BY <1>1, <1>2 DEF MetricsInv, Carries
<1>5. Carries(Generation(Metrics))'
  BY <1>1, <1>2, <1>3, <1>4 DEF Carries
<1>6. MetricsInv'
  BY <1>1, <1>5 DEF MetricsInv
<1>7. RowsOf(Generation(Metrics)) \subseteq RowsOf(Generation(Metrics)')
  BY <1>1, <1>3 DEF RowsOf
<1>8. RowsKept
  BY <1>1, <1>7, TailsGrow DEF AllRows, RowsOf
<1> QED BY <1>6, <1>8

\* The prefix still carries every published checkpoint.
LEMMA MetricsBegins ==
    ASSUME Shape, Shape', RecordsInv, MetricsInv, Begins, UNCHANGED exportVars
    PROVE  MetricsInv' /\ RowsKept
<1>1. /\ UNCHANGED <<dirs, pc, tails>> /\ pub.at = "idle"
      /\ pc \in PersistPoints \cup {"log", "budget", "identify", "prefix"}
      /\ pc = "prefix" => /\ file[Metrics] \in MetricsDocs
                          /\ pub'.doc = MetricsOf(SubSeq(file[Metrics].rows, 1, n))
                          /\ n <= Len(file[Metrics].rows)
  BY BeginsAre
<1>2. Generation(Metrics)' = Generation(Metrics) /\ Published' = Published
  BY <1>1, BeginsShape DEF SameView, Published
<1>3. CASE pc # "prefix"
  <2>1. pc' \notin {"prefix", "save", "saving"}
    BY <1>1, <1>3 DEF PersistPoints
  <2> QED BY <1>1, <1>2, <2>1, MetricsStay
<1>4. CASE pc = "prefix"
  <2> DEFINE r == file[Metrics].rows
             q == SubSeq(r, 1, n)
  <2>1. r \in Rows /\ n \in Nat /\ n <= Len(r) /\ Generation(Metrics) = file[Metrics]
    BY <1>1, <1>4, MetricsFacts, StoreFacts
  <2>2. q \in Rows /\ Len(q) = n /\ \A i \in 1..n: q[i] = r[i]
    BY <2>1, RowsCut
  <2>3. pub'.doc # Absent /\ pub'.doc.rows = q
    <3>1. MetricsOf(q) \in MetricsDocs /\ MetricsOf(q).rows = q
      BY <2>2, MetricsDocsAre
    <3> QED BY <1>1, <1>4, <3>1, LaunchFacts
  <2>4. \A e \in Published: e.ckpt.step <= n /\ e.ckpt.step \in 1..n
    <3>1. mem # Absent /\ UpTo(mem.last) /\ (mem.last # Absent => mem.last.step <= n)
      BY <1>4, StoreFacts DEF RecordsInv, Records, Between, Shapes, Counted
    <3>2. mem.last # Absent => mem.last.step \in Nat
      BY <3>1, StoreFacts, CheckpointFacts
    <3> QED BY <2>1, <3>1, <3>2, MetricsFacts DEF UpTo
  <2>5. Carries(pub.doc)'
    BY <1>2, <2>1, <2>2, <2>3, <2>4 DEF MetricsInv, Carries
  <2>6. Carries(Generation(Metrics))'
    BY <1>2 DEF MetricsInv, Carries
  <2>7. TailRows' = TailRows /\ AllRows' = AllRows
    BY <1>1, <1>2 DEF TailRows, AllRows
  <2>8. RowsOf(Generation(Metrics)) \subseteq TailRows
    BY <1>1, <1>4 DEF MetricsInv
  <2>9. MetricsInv'
    BY <1>1, <1>2, <1>4, <2>5, <2>6, <2>7, <2>8 DEF MetricsInv
  <2> QED BY <2>7, <2>9 DEF RowsKept
<1> QED BY <1>3, <1>4

LEMMA MetricsPublishes ==
    ASSUME Shape, Shape', MetricsInv, Publishing \/ PublishingFails
    PROVE  MetricsInv' /\ RowsKept
<1>1. /\ PubMoved /\ pub.at \notin {"idle", "failed"} /\ pub'.at # "idle" /\ pub'.doc = pub.doc
      /\ pub.at \in {"drop", "done"} => pub'.at \in {"done", "failed"}
      /\ UNCHANGED <<dirs, pc, tails>>
      /\ pc \in (PersistPoints \cup WritingPoints) \ {"load", "saving"}
  BY PublishingShape
<1>2. pub.name = Metrics <=> pc = "prefix"
  BY <1>1, PublishableIs
<1>3. Published' = Published /\ TailRows' = TailRows /\ tails \subseteq tails'
  BY <1>1 DEF Published, TailRows
<1>4. CASE pc # "prefix"
  <2>1. pc' \notin {"prefix", "save", "saving"} /\ Generation(Metrics)' = Generation(Metrics)
    BY <1>1, <1>2, <1>4 DEF PersistPoints, WritingPoints, PubMoved
  <2> QED BY <1>1, <1>3, <2>1, MetricsStay
<1>5. CASE pc = "prefix" /\ Generation(Metrics)' = Generation(Metrics)
  <2>1. Carries(pub.doc)' /\ Carries(Generation(Metrics))'
    BY <1>1, <1>3, <1>5 DEF MetricsInv, Carries
  <2>2. pub.at \in {"stage", "aside", "fresh", "swap", "drop", "done"}
    BY <1>1, StoreFacts DEF Shapes, Files, FilesType, PubTypes, Point
  <2>3. pub'.at \in {"idle", "stage", "aside", "fresh", "swap"} => RowsOf(Generation(Metrics)) \subseteq TailRows
    BY <1>1, <1>5, <2>2 DEF MetricsInv
  <2>4. MetricsInv'
    BY <1>1, <1>3, <1>5, <2>1, <2>3 DEF MetricsInv
  <2>5. AllRows' = AllRows
    BY <1>1, <1>5 DEF AllRows
  <2> QED BY <2>4, <2>5 DEF RowsKept
<1>6. CASE pc = "prefix" /\ Generation(Metrics)' = pub.doc /\ pub.at \in {"fresh", "swap"} /\ pub'.at \in {"drop", "done"}
  <2>1. Carries(pub.doc)' /\ Carries(Generation(Metrics))'
    BY <1>1, <1>3, <1>6 DEF MetricsInv, Carries
  <2>2. MetricsInv'
    BY <1>1, <1>6, <2>1 DEF MetricsInv
  <2>3. RowsOf(Generation(Metrics)) \subseteq TailRows'
    BY <1>3, <1>6 DEF MetricsInv
  <2>4. RowsKept
    BY <1>3, <2>3, TailsGrow DEF AllRows, TailRows
  <2> QED BY <2>2, <2>4
<1> QED BY <1>1, <1>2, <1>4, <1>5, <1>6 DEF PubMoved

\* A checkpoint is built by the process that wrote the last row.
LEMMA MetricsInStore ==
    ASSUME Shape, Shape', RecordsInv, MetricsInv, InStore \/ InStoreFails
    PROVE  MetricsInv' /\ RowsKept
<1>1. /\ UNCHANGED <<pc, build, n, tails, file[Metrics]>> /\ Generation(Metrics)' = Generation(Metrics)
      /\ pc \in {"load", "saving"}
  BY InStoreShape DEF SameView
<1>2. CASE Published' \subseteq Published
  BY <1>1, <1>2, MetricsStay
<1>3. CASE \E g \in Entries: /\ Published' = Published \cup {g} /\ g.kind = "step" /\ g.ckpt = op.ckpt
                             /\ op.at = "staged" /\ op'.at = "pointer" /\ pc = "saving"
  <2>1. PICK g \in Entries: /\ Published' = Published \cup {g} /\ g.ckpt = op.ckpt /\ op.at = "staged" /\ pc = "saving"
    BY <1>3
  <2>2. op.ckpt = [step |-> n, build |-> build] /\ file[Metrics] # Absent /\ Len(file[Metrics].rows) = n
    BY <2>1, StoreFacts DEF Shapes, StoreShape, Lengths, Counting
  <2>3. Generation(Metrics) = file[Metrics] /\ file[Metrics].rows[n] = build /\ n \in Nat
    BY <2>1, <2>2, MetricsFacts, StoreFacts DEF MetricsInv
  <2>4. Carries(Generation(Metrics))'
    BY <1>1, <2>1, <2>2, <2>3 DEF MetricsInv, Carries
  <2>5. MetricsInv' /\ AllRows' = AllRows
    BY <1>1, <2>1, <2>4 DEF MetricsInv, AllRows
  <2> QED BY <2>5 DEF RowsKept
<1> QED BY <1>2, <1>3, StorePublishes
-----------------------------------------------------------------------------
\* The start-up reads; what it does to a document in memory is to take it.
LEMMA StartsAre ==
    ASSUME Shape, StartSteps
    PROVE  /\ SameView /\ Recorded' = Recorded /\ Ended' = Ended
           /\ UNCHANGED <<dirs, pub, n, tails, adapter, metadata, export>>
           /\ \/ pc = "down" /\ pc' = "restore" /\ mem' = mem
              \/ pc \in {"restore", "sweep", "replay"} /\ pc' = pc /\ mem' = mem
              \/ pc = "restore" /\ pc' = "log" /\ mem' = NewRun(build)
              \/ pc = "restore" /\ pc' = "pid" /\ mem' = file[Run] /\ file[Run] # Absent
                 /\ file[Run].status # "trained_and_exported"
              \/ pc \in {"prestart"} /\ pc' \in {"budget", "identify"} /\ mem' = mem
              \/ pc \in {"pid", "sweep", "replay"} /\ pc' \in {"sweep", "replay", "load"} /\ mem' = mem
              \/ pc = "replay" /\ pc' = "rotate" /\ mem' = mem /\ ZeroStep
<1>1. UNCHANGED <<adapter, metadata, export>> /\ UNCHANGED exportVars
  BY DEF StartSteps, exportVars
<1>2. CASE Start
  BY <1>1, <1>2, StartShape DEF Start, storeVars, fileVars, memoryVars, recoveryVars
<1>3. CASE StartFresh
  BY <1>1, <1>3, StartFreshShape DEF StartFresh, Restored, recoveryVars
<1>4. CASE Resume /\ pc' # "down"
  <2>1. /\ pc = "restore" /\ pc' = "pid" /\ mem' = file[Run] /\ file[Run] # Absent
        /\ file[Run].status # "trained_and_exported" /\ UNCHANGED <<dirs, pub, n, tails>>
    BY <1>4 DEF Resume, Restored, Refuse, Down, Continuable, storeVars, fileVars, recoveryVars
  <2> QED BY <1>1, <1>4, <2>1, ResumeShape
<1>5. CASE \E name \in OutputNames: RestoreMissing(name)
  <2>1. PICK name \in OutputNames: RestoreMissing(name)
    BY <1>5
  <2>2. pc = "restore" /\ UNCHANGED <<pc, mem, dirs, pub, n, tails>>
    BY <2>1 DEF RestoreMissing, memoryVars, recoveryVars
  <2> QED BY <1>1, <2>1, <2>2, RestoreMissingShape
<1>6. CASE Moves
  <2>1. UNCHANGED <<dirs, pub, mem, n, tails>>
    BY <1>1, <1>6, MovesAre DEF storeVars, fileVars, memoryVars, recoveryVars
  <2> QED BY <1>1, <1>6, <2>1, MovesShape, MovesAre
<1>7. CASE Sweep
  BY <1>1, <1>7, SweepShape DEF Sweep, memoryVars
<1>8. CASE ReplayPointer
  BY <1>1, <1>8, ReplayPointerShape DEF ReplayPointer, memoryVars, recoveryVars
<1> QED BY <1>2, <1>3, <1>4, <1>5, <1>6, <1>7, <1>8 DEF StartSteps

\* The identity steps leave everything else of the documents.
LEMMA IdentitiesAre ==
    ASSUME Shape, IdentityInv, IdentitySteps
    PROVE  /\ Document' = Document /\ Generation(Metrics)' = Generation(Metrics)
           /\ UNCHANGED <<dirs, pub, n, tails, adapter, metadata, export>>
           /\ mem # Absent /\ mem'.last = mem.last /\ mem'.metrics = mem.metrics /\ mem'.status = mem.status
           /\ \/ pc \in {"prestart", "pid"} /\ pc' = pc
              \/ pc = "rotate" /\ pc' = "identify"
<1>1. UNCHANGED exportVars /\ UNCHANGED <<adapter, metadata, export>>
  BY DEF IdentitySteps, exportVars
<1>2. pc \notin {"down", "restore"} => mem # Absent
  BY StoreFacts
<1>3. CASE \E name \in Prestart: PrestartMove(name)
  <2>1. PICK name \in Prestart: PrestartMove(name)
    BY <1>3
  <2>2. UNCHANGED <<mem, dirs, pc, pub, n, tails>> /\ pc = "prestart"
    BY <2>1 DEF PrestartMove, memoryVars, recoveryVars
  <2> QED BY <1>1, <1>2, <2>1, <2>2, PrestartMoveShape
<1>4. CASE PidMoves
  <2>1. UNCHANGED <<dirs, pc, pub, n, tails>> /\ pc = "pid"
    BY <1>4 DEF PidMoves, MovePid, RestorePid, memoryVars
  <2> QED BY <1>1, <1>2, <1>4, <2>1, PidMovesShape
<1>5. CASE RotatePid
  <2>1. pc = "rotate"
    BY <1>5 DEF RotatePid
  <2>2. file[Pid] \in PidDocs
    BY <2>1, StoreFacts, RunDocumentFacts DEF IdentityInv, Identified, PidOf, PidDocs
  <2> QED BY <1>1, <1>2, <1>5, <2>1, <2>2, RotatePidShape
<1> QED BY <1>3, <1>4, <1>5 DEF IdentitySteps

LEMMA MetricsNext ==
    ASSUME Shape, Shape', IdentityInv, RecordsInv, Paced, MetricsInv, NextSteps
    PROVE  MetricsInv' /\ RowsKept
<1>1. CASE Ends
  <2>1. Generation(Metrics)' = Generation(Metrics) /\ Published' = Published /\ tails' = tails /\ pc' = "down"
    BY <1>1, EndsShape DEF Ends, Down, SameView, Published
  <2> QED BY <2>1, MetricsStay
<1>2. CASE StartSteps
  <2>1. Generation(Metrics)' = Generation(Metrics) /\ Published' = Published /\ tails' = tails
        /\ pc' \notin {"prefix", "save", "saving"}
    BY <1>2, StartsAre DEF SameView, Published
  <2> QED BY <2>1, MetricsStay
<1>3. CASE IdentitySteps
  <2>1. Generation(Metrics)' = Generation(Metrics) /\ Published' = Published /\ tails' = tails
        /\ pc' \notin {"prefix", "save", "saving"}
    BY <1>3, IdentitiesAre DEF Published
  <2> QED BY <2>1, MetricsStay
<1>4. CASE ReplaySteps
  <2>1. Generation(Metrics)' = Generation(Metrics) /\ tails' = tails /\ pc' \in {"replay", "load"}
    BY <1>4, ReplayShape DEF ReplaySteps, SameView
  <2>2. Published' \subseteq Published
    BY <1>4, RecordsReplays
  <2> QED BY <2>1, <2>2, MetricsStay
<1>5. CASE CallSteps
  <2>1. CASE BeginLoad /\ UNCHANGED exportVars
    <3>1. Generation(Metrics)' = Generation(Metrics) /\ Published' = Published /\ tails' = tails /\ pc' = "load"
      BY <2>1, BeginLoadShape DEF SameView, Published
    <3> QED BY <3>1, MetricsStay
  <2>2. CASE Loaded /\ pc' # "down" /\ UNCHANGED exportVars
    <3>1. Generation(Metrics)' = Generation(Metrics) /\ Published' = Published /\ tails' = tails /\ pc' = "rotate"
      BY <2>2, LoadedShape DEF SameView, Published
    <3> QED BY <3>1, MetricsStay
  <2>3. CASE SaveCheckpoint
    <3>1. /\ Generation(Metrics)' = Generation(Metrics) /\ tails' = tails
          /\ pc = "save" /\ pc' = "saving" /\ UNCHANGED <<file[Metrics], n, build>>
      BY <2>3, SaveCheckpointShape DEF SameView
    <3>2. Published' = Published
      BY <2>3, RecordsSaveCheckpoint
    <3> QED BY <3>1, <3>2, MetricsStay
  <2>4. CASE Saved
    <3>1. Generation(Metrics)' = Generation(Metrics) /\ Published' = Published /\ tails' = tails /\ pc' = "commit"
      BY <2>4, SavedShape DEF SameView, Published
    <3> QED BY <3>1, MetricsStay
  <2> QED BY <1>5, <2>1, <2>2, <2>3, <2>4, MetricsInStore DEF CallSteps
<1>6. CASE PublicationSteps
  <2>1. CASE Written
    <3>1. /\ Generation(Metrics)' = Generation(Metrics) /\ tails' = tails
          /\ pc' \notin {"prefix", "save", "saving"}
      BY <2>1, WrittenShape, WrittenIs DEF SameView
    <3> QED BY <2>1, <3>1, RecordsWritten, MetricsStay
  <2>2. CASE Interrupted
    <3>1. Generation(Metrics)' = Generation(Metrics) /\ tails' = tails /\ pc' = "handle"
      BY <2>2, InterruptedShape DEF SameView
    <3> QED BY <2>2, <3>1, RecordsInterrupted, MetricsStay
  <2> QED BY <1>6, <2>1, <2>2, MetricsBegins, MetricsPublishes DEF PublicationSteps, Begins
<1>7. CASE MetricsSteps
  <2>1. CASE Update
    <3>1. /\ Generation(Metrics)' = Generation(Metrics) /\ tails' = tails /\ pc' = "append" /\ Published' = Published
      BY <2>1, UpdateShape DEF Update, storeVars, recoveryVars, SameView, Published
    <3> QED BY <3>1, MetricsStay
  <2> QED BY <1>7, <2>1, MetricsCreates, MetricsCopies, MetricsAppends DEF MetricsSteps
<1>8. CASE ExportSteps
  <2>1. CASE BeginExport
    <3>1. /\ Generation(Metrics)' = Generation(Metrics) /\ tails' = tails /\ pc' = "exporting"
          /\ Published' = Published
      BY <2>1, BeginExportShape DEF BeginExport, storeVars, recoveryVars, SameView, Published
    <3> QED BY <3>1, MetricsStay
  <2>2. CASE Exports
    <3>1. /\ Generation(Metrics)' = Generation(Metrics) /\ tails' = tails /\ pc' \in ExportPoints
          /\ Published' = Published
      BY <2>2, ExportsShape, ExportsAre DEF storeVars, SameView, Published
    <3> QED BY <3>1, MetricsStay DEF ExportPoints
  <2> QED BY <1>8, <2>1, <2>2 DEF ExportSteps
<1> QED BY <1>1, <1>2, <1>3, <1>4, <1>5, <1>6, <1>7, <1>8 DEF NextSteps

LEMMA MetricsInit ==
    ASSUME Init
    PROVE  MetricsInv
<1>1. pc = "down" /\ dirs = {}
  BY DEF Init, StoreInit
<1> QED BY <1>1 DEF MetricsInv, Carries, Published
-----------------------------------------------------------------------------
(* The evidence.                                                           *)

\* Final metrics are those of the last step, and the file's.
Evidence(doc) ==
    doc # Absent /\ doc.metrics # Absent =>
        /\ doc.last # Absent /\ doc.last.step = Horizon
        /\ Generation(Metrics) = MetricsOf(doc.metrics)
        /\ Len(doc.metrics) = Horizon

Known == {"identify", "announce", "handle"} \cup LoopPoints

\* What the export has made.
Made ==
    /\ pc \in ExportPoints => n = Horizon /\ mem.metrics # Absent
    /\ pc \in {"adapter-json", "adapter-clean", "sources", "export", "publish", "close", "final"} =>
          adapter = After(Horizon)
    /\ pc \in {"adapter-clean", "sources", "export", "publish", "close", "final"} => metadata
    /\ pc \in {"close", "final"} => export = After(Horizon)
    /\ mem # Absent /\ mem.status = "trained_and_exported" => pc = "final"
    /\ pc = "final" => mem.status = "trained_and_exported"
    /\ Ended => /\ pc \in {"down", "restore", "final"}
                /\ metadata /\ adapter = After(Horizon) /\ export = After(Horizon)

EvidenceInv ==
    /\ Evidence(Document) /\ Evidence(mem)
    /\ pc = "prefix" /\ pub.at # "idle" /\ mem.metrics # Absent => pub.doc = MetricsOf(mem.metrics)
    /\ pc \in Early => mem.metrics = Absent
    /\ pc \in Known => IF Document = Absent THEN mem.metrics = Absent ELSE mem.metrics = Document.metrics
    /\ pc \in Before \cup {"handle"} \cup Running /\ mem.metrics # Absent => n = Horizon
    /\ Made
-----------------------------------------------------------------------------
\* Nothing is recorded as final.
NoEvidence == (Document = Absent \/ Document.metrics = Absent) /\ (mem = Absent \/ mem.metrics = Absent)

EvidenceLeads ==
    \/ pc' = "down" /\ mem' = Absent
    \/ pc' = "restore" /\ mem' = Absent
    \/ pc' = pc /\ pc # "prefix" /\ UNCHANGED <<n, mem>>
    \/ pc' \in {"pid", "sweep", "replay", "load"} /\ pc \notin {"down", "restore", "final"}
    \/ pc \in Early /\ pc' \in Early \cup {"identify"}
    \/ pc = "replay" /\ pc' = "rotate" /\ mem.metrics = Absent
    \/ pc = "rotate" /\ pc' = "identify" /\ n' = n
    \/ /\ pc \in Known /\ pc' \in Known /\ (n' = n \/ NoEvidence)
       /\ pc' = "prefix" => pub'.at = "idle"

LEMMA KnownIs ==
    /\ \A x \in Known: x \notin Early \cup ExportPoints \cup {"down", "restore", "rotate", "final"}
    /\ Known \subseteq Before \cup {"handle"} \cup Running
    /\ Early \cap (ExportPoints \cup Before \cup Running \cup {"handle", "down", "restore"}) = {}
    /\ Before \cap ExportPoints = {} /\ "identify" \in Before \cap Known
    /\ \A x \in {"down", "restore", "pid", "sweep", "replay", "load"}:
          x \notin Early \cup Known \cup Before \cup ExportPoints \cup Running \cup {"handle"}
BY DEF Known, Early, ExportPoints, Before, Running, LoopPoints

\* What the evidence says of the documents that are read and written.
LEMMA EvidenceFacts ==
    ASSUME Shape, EvidenceInv
    PROVE  /\ Evidence(Document) /\ Evidence(mem) /\ Made
           /\ Document \in RunDocuments \cup {Absent}
           /\ file[Run] # Absent => Document = file[Run]
           /\ pc \in Known /\ mem.metrics = Absent => NoEvidence
           /\ pc \in Early => Document = Absent /\ mem.metrics = Absent /\ NoEvidence
           /\ pc \in Known \cup ExportPoints \cup Early \cup Before => mem # Absent
           /\ mem # Absent => mem \in RunDocuments
<1>1. Document \in RunDocuments \cup {Absent} /\ (file[Run] # Absent => Document = file[Run])
  BY StoreFacts, DocumentsAre DEF Shapes, Files
<1>2. pc \in Early => Document = Absent
  BY StoreFacts DEF Shapes, Present
<1>3. pc \in Known \cup ExportPoints \cup Early \cup Before => mem # Absent
  BY StoreFacts DEF Known, ExportPoints, Early, Before, LoopPoints
<1> QED BY <1>1, <1>2, <1>3, StoreFacts DEF EvidenceInv, NoEvidence

LEMMA EvidenceStay ==
    ASSUME Shape, Shape', EvidenceInv, EvidenceLeads, Document' = Document,
           Generation(Metrics)' = Generation(Metrics) \/ (NoEvidence /\ pc \in Known),
           UNCHANGED <<adapter, metadata, export>>,
           mem' # Absent => /\ mem # Absent /\ mem'.metrics = mem.metrics
                            /\ mem'.last = mem.last \/ mem.metrics = Absent
                            /\ mem'.status # "trained_and_exported" \/ (mem' = mem /\ pc' = pc)
    PROVE  EvidenceInv'
<1>1. Ended' = Ended
  BY SameDocument
<1>2. Evidence(Document)' /\ Evidence(mem)'
  BY DEF EvidenceInv, Evidence, NoEvidence
<1>3. Made /\ Shapes'
  BY StoreFacts, ShapeIs, PTL DEF EvidenceInv
<1>4. CASE pc' \in {"down", "restore"} /\ mem' = Absent
  <2>1. Made'
    BY <1>1, <1>3, <1>4, KnownIs DEF Made
  <2> QED BY <1>2, <1>4, <2>1, KnownIs DEF EvidenceInv
<1>5. CASE pc' = pc /\ pc # "prefix" /\ UNCHANGED <<n, mem>>
  <2>1. Made'
    BY <1>1, <1>3, <1>5 DEF Made
  <2>2. pc \in Known => mem # Absent
    BY EvidenceFacts
  <2> QED BY <1>2, <1>5, <2>1, <2>2, KnownIs DEF EvidenceInv, NoEvidence
<1>6. CASE pc' \in {"pid", "sweep", "replay", "load"} /\ pc \notin {"down", "restore", "final"}
  <2>1. Made'
    BY <1>1, <1>3, <1>6, KnownIs DEF Made
  <2> QED BY <1>2, <1>6, <2>1, KnownIs DEF EvidenceInv
<1>7. CASE pc \in Early /\ pc' \in Early \cup {"identify"}
  <2>1. mem.metrics = Absent /\ mem # Absent /\ Document = Absent
    BY <1>7, EvidenceFacts
  <2>2. mem' # Absent /\ mem'.metrics = Absent
    BY <1>7, <2>1, <1>3, LaunchFacts DEF Shapes, ProcessOK, Early
  <2>3. pc \in {"log", "prestart", "budget"} /\ pc' \in {"log", "prestart", "budget", "identify"}
    BY <1>7 DEF Early
  <2>4. ~Ended /\ ~Ended'
    BY <1>1, <2>1 DEF Ended
  <2>5. mem'.status # "trained_and_exported"
    BY <1>3, <2>1, <2>2, <2>3 DEF Made
  <2>6. Made'
    BY <2>3, <2>4, <2>5 DEF Made, ExportPoints
  <2> QED BY <1>2, <1>7, <2>1, <2>2, <2>6, KnownIs DEF EvidenceInv
<1>8. CASE pc = "replay" /\ pc' = "rotate" /\ mem.metrics = Absent
  <2>1. mem' # Absent /\ mem'.metrics = Absent
    BY <1>3, <1>8, LaunchFacts DEF Shapes, ProcessOK
  <2>2. Made'
    BY <1>1, <1>3, <1>8, <2>1 DEF Made, ExportPoints
  <2> QED BY <1>2, <1>8, <2>1, <2>2, KnownIs DEF EvidenceInv, Before, Early, Known, LoopPoints
<1>9. CASE pc = "rotate" /\ pc' = "identify" /\ n' = n
  <2>1. mem' # Absent /\ mem'.metrics = mem.metrics
    BY <1>3, <1>9, LaunchFacts DEF Shapes, ProcessOK
  <2>2. Document = file[Run] /\ mem.metrics = file[Run].metrics /\ file[Run] # Absent
    BY <1>9, StoreFacts, EvidenceFacts DEF Shapes, Present, Resuming
  <2>3. Made'
    BY <1>1, <1>3, <1>9, <2>1 DEF Made, ExportPoints
  <2>4. mem'.metrics # Absent => n' = Horizon
    BY <1>9, <2>1 DEF EvidenceInv, Before
  <2>5. IF Document' = Absent THEN mem'.metrics = Absent ELSE mem'.metrics = Document'.metrics
    BY <2>1, <2>2
  <2> QED BY <1>2, <1>9, <2>3, <2>4, <2>5, KnownIs DEF EvidenceInv
<1>10. CASE /\ pc \in Known /\ pc' \in Known /\ (n' = n \/ NoEvidence)
            /\ pc' = "prefix" => pub'.at = "idle"
  <2>1. mem # Absent /\ mem' # Absent /\ mem'.metrics = mem.metrics
    <3>1. pc' \notin {"down", "restore"}
      BY <1>10, KnownIs
    <3> QED BY <1>3, <1>10, <3>1, EvidenceFacts, LaunchFacts DEF Shapes, ProcessOK
  <2>2. ~Ended /\ ~Ended' /\ pc \notin {"down", "restore", "final"} \cup ExportPoints \cup Early
        /\ pc' \notin {"down", "restore", "final"} \cup ExportPoints \cup Early
    BY <1>1, <1>3, <1>10, KnownIs DEF Made
  <2>3. mem'.status # "trained_and_exported"
    BY <1>3, <2>1, <2>2 DEF Made
  <2>4. Made'
    BY <2>2, <2>3 DEF Made, ExportPoints
  <2>5. mem'.metrics # Absent => n' = Horizon
    BY <1>10, <2>1, KnownIs DEF EvidenceInv, NoEvidence
  <2>6. IF Document' = Absent THEN mem'.metrics = Absent ELSE mem'.metrics = Document'.metrics
    BY <1>10, <2>1 DEF EvidenceInv
  <2> QED BY <1>2, <1>10, <2>2, <2>4, <2>5, <2>6 DEF EvidenceInv
<1> QED BY <1>4, <1>5, <1>6, <1>7, <1>8, <1>9, <1>10 DEF EvidenceLeads
-----------------------------------------------------------------------------
\* A document that is taken in a start has no evidence, or run.json's own.
LEMMA EvidenceStarts ==
    ASSUME Shape, Shape', EvidenceInv, StartSteps
    PROVE  EvidenceInv'
<1>1. /\ Document' = Document /\ Generation(Metrics)' = Generation(Metrics) /\ Ended' = Ended
      /\ UNCHANGED <<n, adapter, metadata, export>>
  BY StartsAre DEF SameView
<1>2. pc' \in {"down", "restore"} => mem' = Absent
  <2>1. Shapes'
    BY ShapeIs, PTL
  <2> QED BY <2>1 DEF Shapes, ProcessOK
<1>3. CASE pc = "restore" /\ pc' = "log" /\ mem' = NewRun(build)
  <2>1. mem' # Absent /\ mem'.metrics = Absent /\ mem'.status = "running"
    <3>1. build \in Builds
      BY <1>3, StoreFacts DEF Shapes, ProcessOK
    <3> QED BY <1>3, <3>1, NewRunIs, LaunchFacts
  <2>2. Document' = Absent
    <3>1. Shapes'
      BY ShapeIs, PTL
    <3> QED BY <1>3, <3>1 DEF Shapes, Present, Early
  <2>3. Made'
    BY <1>3, <2>1, <2>2 DEF Made, ExportPoints, Ended
  <2> QED BY <1>3, <2>1, <2>2, <2>3 DEF EvidenceInv, Evidence, Known, LoopPoints, ExportPoints, Before, Running
<1>4. CASE pc = "restore" /\ pc' = "pid" /\ mem' = file[Run] /\ file[Run] # Absent
           /\ file[Run].status # "trained_and_exported"
  <2>1. Document = file[Run] /\ ~Ended /\ Evidence(Document)
    BY <1>4, EvidenceFacts DEF Ended
  <2>2. Evidence(Document)' /\ Evidence(mem)'
    BY <1>1, <1>4, <2>1 DEF Evidence
  <2>3. Made'
    BY <1>1, <1>4, <2>1 DEF Made, ExportPoints
  <2> QED BY <1>4, <2>2, <2>3, KnownIs DEF EvidenceInv
<1>5. CASE mem' = mem /\ EvidenceLeads
  <2>1. mem' # Absent => mem'.status # "trained_and_exported" \/ pc' = pc
    <3>1. mem # Absent /\ mem.status = "trained_and_exported" => pc = "final"
      BY EvidenceFacts DEF Made
    <3> QED BY <1>5, <3>1, StartsAre
  <2> QED BY <1>1, <1>5, <2>1, EvidenceStay
<1>6. pc = "replay" /\ ZeroStep => mem.metrics = Absent
  <2>1. pc = "replay" => mem # Absent
    BY StoreFacts
  <2> QED BY <2>1, EvidenceFacts DEF ZeroStep, Evidence
<1>7. \/ pc = "restore" /\ pc' = "log" /\ mem' = NewRun(build)
      \/ pc = "restore" /\ pc' = "pid" /\ mem' = file[Run] /\ file[Run] # Absent
         /\ file[Run].status # "trained_and_exported"
      \/ mem' = mem /\ EvidenceLeads
  BY <1>1, <1>2, <1>6, StartsAre DEF EvidenceLeads, Early
<1> QED BY <1>3, <1>4, <1>5, <1>7

LEMMA EvidenceMoves ==
    ASSUME Shape, Shape', IdentityInv, EvidenceInv, IdentitySteps
    PROVE  EvidenceInv'
<1>1. /\ Document' = Document /\ Generation(Metrics)' = Generation(Metrics)
      /\ UNCHANGED <<n, adapter, metadata, export>>
      /\ mem # Absent /\ mem'.last = mem.last /\ mem'.metrics = mem.metrics /\ mem'.status = mem.status
      /\ \/ pc \in {"prestart", "pid"} /\ pc' = pc
         \/ pc = "rotate" /\ pc' = "identify"
  BY IdentitiesAre
<1>2. EvidenceLeads
  BY <1>1 DEF EvidenceLeads, Early
<1>3. mem.status # "trained_and_exported"
  BY <1>1, EvidenceFacts DEF Made
<1> QED BY <1>1, <1>2, <1>3, EvidenceStay

\* A load continues from the recorded checkpoint or a later one, so it does not
\* take final metrics back.
LEMMA EvidenceLoaded ==
    ASSUME Shape, Shape', RecordsInv, EvidenceInv, Loaded, pc' # "down", UNCHANGED exportVars
    PROVE  EvidenceInv'
<1>1. /\ Document' = Document /\ Generation(Metrics)' = Generation(Metrics) /\ Ended' = Ended
      /\ UNCHANGED <<adapter, metadata, export>>
      /\ pc = "load" /\ pc' = "rotate" /\ op.at = "returned" /\ op.ckpt \in Checkpoints
      /\ n' = op.ckpt.step /\ mem \in RunDocuments /\ mem' \in RunDocuments
      /\ mem'.last = op.ckpt /\ mem'.metrics = mem.metrics /\ mem'.status = mem.status
  BY LoadedShape DEF SameView
<1>2. mem # Absent /\ mem' # Absent /\ mem.last = Recorded /\ op.ckpt # Absent
  BY <1>1, ResumingRecorded, LaunchFacts
<1>3. AsNew(Recorded, op.ckpt)
  BY <1>1 DEF RecordsInv, Records, Loading, OnDisk
<1>4. mem.metrics # Absent => op.ckpt.step = Horizon
  <2>1. SUFFICES ASSUME mem.metrics # Absent PROVE op.ckpt.step = Horizon
    OBVIOUS
  <2>2. Recorded # Absent /\ Recorded.step = Horizon
    BY <1>2, <2>1, EvidenceFacts DEF Evidence
  <2>3. op.ckpt.step \in Nat /\ op.ckpt.step <= Horizon
    BY <1>1, CheckpointFacts, HorizonIs
  <2> QED BY <1>3, <2>2, <2>3, HorizonIs DEF AsNew
<1>5. Evidence(Document)' /\ Evidence(mem)'
  BY <1>1, <1>2, <1>4, EvidenceFacts DEF Evidence
<1>6. Made'
  BY <1>1, <1>2, EvidenceFacts DEF Made, ExportPoints
<1> QED BY <1>1, <1>4, <1>5, <1>6 DEF EvidenceInv, Early, Known, LoopPoints

\* A save or a commit is never of the last step a second time.
LEMMA NoEvidenceYet ==
    ASSUME Shape, EvidenceInv, pc \in {"append", "save", "saving", "commit"}
    PROVE  mem # Absent /\ mem.metrics = Absent /\ NoEvidence
<1>1. mem # Absent /\ pc \in Known
  BY StoreFacts DEF Known, LoopPoints
<1>2. n > 0 /\ n \in 0..Horizon /\ (mem.last # Absent => mem.last.step < n)
  BY <1>1, StoreFacts DEF Shapes, Counted, ProcessOK
<1>3. mem.last # Absent => mem.last.step \in Nat
  BY <1>1, StoreFacts, CheckpointFacts
<1>4. mem.metrics = Absent
  BY <1>1, <1>2, <1>3, EvidenceFacts, HorizonIs DEF Evidence
<1> QED BY <1>1, <1>4, EvidenceFacts

LEMMA EvidenceCalls ==
    ASSUME Shape, Shape', RecordsInv, EvidenceInv, ReplaySteps \/ CallSteps
    PROVE  EvidenceInv'
<1>1. CASE Loaded /\ pc' # "down" /\ UNCHANGED exportVars
  BY <1>1, EvidenceLoaded
<1>2. CASE ReplaySteps \/ (BeginLoad /\ UNCHANGED exportVars) \/ InStore \/ InStoreFails
  <2>1. /\ SameView /\ UNCHANGED <<pc, mem, n, adapter, metadata, export>> /\ pc \in {"replay", "load", "saving"}
    BY <1>2, ReplayShape, BeginLoadShape, InStoreShape DEF ReplaySteps, exportVars
  <2>2. EvidenceLeads
    BY <2>1 DEF EvidenceLeads
  <2> QED BY <2>1, <2>2, EvidenceStay DEF SameView
<1>3. CASE SaveCheckpoint \/ Saved
  <2>1. /\ SameView /\ UNCHANGED <<mem, n, adapter, metadata, export>>
        /\ pc \in {"save", "saving"} /\ pc' \in {"saving", "commit"}
    BY <1>3, SaveCheckpointShape, SavedShape DEF Saved, Goes, memoryVars
  <2>2. EvidenceLeads
    BY <2>1 DEF EvidenceLeads, Known, LoopPoints
  <2>3. mem # Absent => mem.status # "trained_and_exported"
    BY <2>1, EvidenceFacts DEF Made
  <2> QED BY <2>1, <2>2, <2>3, EvidenceStay DEF SameView
<1> QED BY <1>1, <1>2, <1>3 DEF CallSteps
-----------------------------------------------------------------------------
\* The prefix of all the rows is all the rows.
LEMMA EvidenceBegins ==
    ASSUME Shape, Shape', EvidenceInv, Begins, UNCHANGED exportVars
    PROVE  EvidenceInv'
<1>1. /\ SameView /\ UNCHANGED <<file, pc, mem, n, adapter, metadata, export>> /\ pub.at = "idle"
      /\ pc = "prefix" => /\ file[Metrics] \in MetricsDocs
                          /\ pub'.doc = MetricsOf(SubSeq(file[Metrics].rows, 1, n))
  BY BeginsAre, BeginsShape
<1>2. CASE pc # "prefix"
  <2>1. EvidenceLeads
    BY <1>1, <1>2 DEF EvidenceLeads
  <2> QED BY <1>1, <2>1, EvidenceStay DEF SameView
<1>3. CASE pc = "prefix"
  <2>1. mem # Absent /\ Ended' = Ended
    BY <1>1, <1>3, StoreFacts, SameDocument DEF SameView
  <2>2. mem.metrics # Absent => pub'.doc = MetricsOf(mem.metrics)
    <3>1. SUFFICES ASSUME mem.metrics # Absent PROVE pub'.doc = MetricsOf(mem.metrics)
      OBVIOUS
    <3>2. n = Horizon
      BY <1>3, <3>1 DEF EvidenceInv, Running, LoopPoints
    <3>3. Generation(Metrics) = file[Metrics] /\ file[Metrics] # Absent
      BY <1>1, <1>3, MetricsFacts
    <3>4. file[Metrics] = MetricsOf(mem.metrics) /\ Len(mem.metrics) = Horizon
      BY <2>1, <3>1, <3>3, EvidenceFacts DEF Evidence
    <3>5. file[Metrics].rows = mem.metrics /\ mem.metrics \in Seq(Builds)
      BY <1>1, <1>3, <3>4, MetricsFacts, RowsAre DEF MetricsOf
    <3>6. SubSeq(mem.metrics, 1, Len(mem.metrics)) = mem.metrics
      BY <3>5, SubSeqFull
    <3> QED BY <1>1, <1>3, <3>2, <3>4, <3>5, <3>6
  <2>3. Evidence(Document)' /\ Evidence(mem)'
    BY <1>1, EvidenceFacts DEF Evidence, SameView
  <2>4. Made'
    BY <1>1, <2>1, EvidenceFacts DEF Made
  <2> QED BY <1>1, <1>3, <2>2, <2>3, <2>4 DEF EvidenceInv, SameView
<1> QED BY <1>2, <1>3

\* What run.json gets is what the process knows, and the metrics do not change
\* under it.
LEMMA EvidencePublishing ==
    ASSUME Shape, Shape', RecordsInv, EvidenceInv, Publishing \/ PublishingFails
    PROVE  EvidenceInv'
<1>1. /\ PubMoved /\ pub.at \notin {"idle", "failed"} /\ pub'.at # "idle" /\ pub'.doc = pub.doc
      /\ UNCHANGED <<pc, mem, n, adapter, metadata, export>>
      /\ pc \in (PersistPoints \cup WritingPoints) \ {"load", "saving"}
  BY PublishingShape
<1>2. /\ pub.name = Run <=> pc \in PersistPoints \cup {"commit"}
      /\ pub.name = Metrics <=> pc = "prefix"
      /\ pc \in PersistPoints => pub.doc = mem
      /\ pc = "commit" => /\ pub.doc.metrics = mem.metrics /\ pub.doc.status = mem.status
                          /\ pub.doc \in RunDocuments
  BY <1>1, PublishableIs, NameFacts DEF Publishable
<1>3. mem # Absent /\ Run # Metrics
  <2>1. pc \notin {"down", "restore"}
    BY <1>1 DEF PersistPoints, WritingPoints
  <2> QED BY <2>1, StoreFacts, NameFacts
<1>4. CASE Document' = Document /\ Generation(Metrics)' = Generation(Metrics)
  <2>1. CASE pc # "prefix"
    <3>1. EvidenceLeads
      BY <1>1, <2>1 DEF EvidenceLeads
    <3> QED BY <1>1, <1>4, <3>1, EvidenceStay
  <2>2. CASE pc = "prefix"
    <3>1. Ended' = Ended
      BY <1>4, SameDocument
    <3>2. Evidence(Document)' /\ Evidence(mem)' /\ Made'
      BY <1>1, <1>4, <3>1, EvidenceFacts DEF Evidence, Made
    <3> QED BY <1>1, <1>4, <2>2, <3>2 DEF EvidenceInv
  <2> QED BY <2>1, <2>2
<1>5. CASE pc \in PersistPoints \cup {"commit"} /\ Document' = pub.doc
  <2>1. Generation(Metrics)' = Generation(Metrics)
    BY <1>1, <1>2, <1>3, <1>5 DEF PubMoved
  <2>2. Document' # Absent /\ Document'.metrics = mem.metrics /\ Document'.status = mem.status
    BY <1>2, <1>3, <1>5, LaunchFacts
  <2>3. Evidence(Document)' /\ Evidence(mem)'
    <3>1. pc = "commit" => mem.metrics = Absent
      BY NoEvidenceYet
    <3> QED BY <1>1, <1>2, <1>5, <2>1, <2>2, <3>1, EvidenceFacts DEF Evidence
  <2>4. Ended' => pc = "final"
    BY <1>3, <2>2, EvidenceFacts DEF Ended, Made
  <2>5. Made'
    BY <1>1, <2>4, EvidenceFacts DEF Made
  <2> QED BY <1>1, <1>5, <2>2, <2>3, <2>5 DEF EvidenceInv, PersistPoints
<1>6. CASE pc = "prefix" /\ Generation(Metrics)' = pub.doc /\ Document' = Document
  <2>1. mem.metrics # Absent => pub.doc = MetricsOf(mem.metrics)
    BY <1>1, <1>6 DEF EvidenceInv
  <2>2. IF Document = Absent THEN mem.metrics = Absent ELSE mem.metrics = Document.metrics
    BY <1>6 DEF EvidenceInv, Known, LoopPoints
  <2>3. Ended' = Ended
    BY <1>6, SameDocument
  <2>4. Evidence(Document)' /\ Evidence(mem)' /\ Made'
    BY <1>1, <1>6, <2>1, <2>2, <2>3, EvidenceFacts DEF Evidence, Made
  <2> QED BY <1>1, <1>6, <2>4 DEF EvidenceInv
<1>7. \/ Document' = Document /\ Generation(Metrics)' = Generation(Metrics)
      \/ pc \in PersistPoints \cup {"commit"} /\ Document' = pub.doc
      \/ pc = "prefix" /\ Generation(Metrics)' = pub.doc /\ Document' = Document
  BY <1>1, <1>2, <1>3 DEF PubMoved
<1> QED BY <1>4, <1>5, <1>6, <1>7

LEMMA EvidenceWritten ==
    ASSUME Shape, Shape', EvidenceInv, Written
    PROVE  EvidenceInv'
<1>1. /\ SameView /\ Ended' = Ended /\ UNCHANGED <<file, n, adapter, metadata, export>>
      /\ pub' = NoPublication /\ pub'.at = "idle" /\ mem \in RunDocuments /\ mem # Absent
  BY WrittenShape, WrittenIs, LaunchFacts, RestingIs
<1>2. CASE pc = "exporting" /\ pc' = "adapter" /\ mem' = mem /\ file[Run] = mem
  <2>1. Evidence(Document)' /\ Evidence(mem)' /\ Made'
    BY <1>1, <1>2, EvidenceFacts DEF Evidence, SameView, Made, ExportPoints
  <2> QED BY <1>1, <1>2, <2>1 DEF EvidenceInv, Early, Known, LoopPoints, ExportPoints, Running
<1>3. CASE ~(pc = "exporting" /\ pc' = "adapter")
  <2>1. /\ pc' # "prefix"
        /\ \/ pc \in Early /\ pc' \in Early \cup {"identify"} /\ mem' = mem
           \/ pc \in Known /\ pc' \in Known /\ mem' = mem
           \/ pc \in Known /\ pc' \in Known /\ mem'.metrics = mem.metrics /\ mem'.last = mem.last
              /\ mem'.status = "running"
           \/ pc = "commit" /\ pc \in Known /\ pc' \in Known /\ mem' = pub.doc
    BY <1>3, WrittenIs DEF Early, Known, LoopPoints
  <2>2. EvidenceLeads
    BY <1>1, <2>1 DEF EvidenceLeads
  <2>3. mem.status # "trained_and_exported"
    <3>1. pc # "final"
      BY <2>1 DEF Early, Known, LoopPoints
    <3> QED BY <1>1, <3>1, EvidenceFacts DEF Made
  <2>4. pc = "commit" => /\ mem.metrics = Absent /\ pub.doc.metrics = mem.metrics
                         /\ pub.doc.status = mem.status
    <3>1. pc = "commit" => pub.at # "idle"
      BY WrittenIs
    <3> QED BY <3>1, NoEvidenceYet, PublishableIs
  <2>5. /\ mem'.metrics = mem.metrics /\ (mem'.last = mem.last \/ mem.metrics = Absent)
        /\ mem'.status # "trained_and_exported"
    BY <2>1, <2>3, <2>4
  <2> QED BY <1>1, <2>2, <2>5, EvidenceStay DEF SameView
<1> QED BY <1>2, <1>3, WrittenIs

LEMMA EvidenceInterrupted ==
    ASSUME Shape, Shape', EvidenceInv, Interrupted
    PROVE  EvidenceInv'
<1>1. /\ SameView /\ UNCHANGED <<n, adapter, metadata, export>> /\ pc \in LoopPoints /\ pc' = "handle"
      /\ mem \in RunDocuments /\ mem'.last = mem.last /\ mem'.metrics = mem.metrics
      /\ mem'.status = "interrupted"
  BY InterruptedShape
<1>2. EvidenceLeads
  BY <1>1 DEF EvidenceLeads, Known
<1> QED BY <1>1, <1>2, EvidenceStay, LaunchFacts DEF SameView
-----------------------------------------------------------------------------
\* No row is added to final metrics.
LEMMA EvidenceMetrics ==
    ASSUME Shape, Shape', EvidenceInv, MetricsSteps
    PROVE  EvidenceInv'
<1>1. CASE CreateMetrics
  <2>1. /\ Document' = Document /\ Generation(Metrics) = Absent /\ pc = "metrics" /\ pc' = "loop"
        /\ UNCHANGED <<mem, n, adapter, metadata, export>>
    BY <1>1, CreateMetricsShape DEF exportVars
  <2>2. \A r \in Rows: MetricsOf(r) # Absent
    BY MetricsDocsAre, LaunchFacts
  <2>3. NoEvidence
    BY <2>1, <2>2, EvidenceFacts, RunDocumentFacts DEF Evidence, NoEvidence
  <2>4. EvidenceLeads /\ pc \in Known
    BY <2>1 DEF EvidenceLeads, Known, LoopPoints
  <2>5. mem # Absent => mem.status # "trained_and_exported"
    BY <2>1, EvidenceFacts DEF Made
  <2> QED BY <2>1, <2>3, <2>4, <2>5, EvidenceStay
<1>2. CASE CopyMetrics
  <2>1. /\ SameView /\ pc = "metrics" /\ pc' = "prefix" /\ pub' = pub
        /\ UNCHANGED <<mem, n, adapter, metadata, export>>
    BY <1>2, CopyMetricsShape DEF CopyMetrics, Goes, memoryVars, storeVars, fileVars, exportVars
  <2>2. pub'.at = "idle"
    BY <2>1, StoreFacts, RestingIs DEF Shapes, Publisher, PersistPoints, WritingPoints
  <2>3. EvidenceLeads
    BY <2>1, <2>2 DEF EvidenceLeads, Known, LoopPoints
  <2>4. mem # Absent => mem.status # "trained_and_exported"
    BY <2>1, EvidenceFacts DEF Made
  <2> QED BY <2>1, <2>3, <2>4, EvidenceStay DEF SameView
<1>3. CASE AppendMetric
  <2>1. /\ Document' = Document /\ pc = "append" /\ pc' \in {"save", "loop"}
        /\ UNCHANGED <<mem, n, adapter, metadata, export>>
    BY <1>3, AppendMetricShape DEF exportVars
  <2>2. NoEvidence
    BY <2>1, NoEvidenceYet
  <2>3. EvidenceLeads /\ pc \in Known
    BY <2>1 DEF EvidenceLeads, Known, LoopPoints
  <2>4. mem # Absent => mem.status # "trained_and_exported"
    BY <2>1, EvidenceFacts DEF Made
  <2> QED BY <2>1, <2>2, <2>3, <2>4, EvidenceStay
<1>4. CASE Update
  <2>1. /\ SameView /\ pc = "loop" /\ pc' = "append" /\ n < Horizon /\ n \in Nat
        /\ UNCHANGED <<mem, adapter, metadata, export>>
    BY <1>4, UpdateShape, StoreFacts DEF Update, exportVars
  <2>2. mem.metrics = Absent
    BY <2>1, HorizonIs DEF EvidenceInv, Running, LoopPoints
  <2>3. EvidenceLeads
    BY <2>1, <2>2, EvidenceFacts DEF EvidenceLeads, Known, LoopPoints
  <2>4. mem # Absent => mem.status # "trained_and_exported"
    BY <2>1, EvidenceFacts DEF Made
  <2> QED BY <2>1, <2>3, <2>4, EvidenceStay DEF SameView
<1> QED BY <1>1, <1>2, <1>3, <1>4 DEF MetricsSteps

LEMMA EvidenceExports ==
    ASSUME Shape, Shape', EvidenceInv, ExportSteps
    PROVE  EvidenceInv'
<1>1. CASE BeginExport
  <2>1. /\ SameView /\ Ended' = Ended /\ pc = "loop" /\ pc' = "exporting" /\ n = Horizon
        /\ mem.last # Absent /\ mem.last.step = Horizon
        /\ mem' = [mem EXCEPT !.status = "exporting", !.completed = Horizon, !.metrics = file[Metrics].rows]
        /\ UNCHANGED <<n, adapter, metadata, export>>
    BY <1>1, BeginExportShape DEF BeginExport, exportVars
  <2>2. mem \in RunDocuments /\ mem # Absent
    BY <2>1, StoreFacts
  <2>3. mem'.last = mem.last /\ mem'.metrics = file[Metrics].rows /\ mem'.status = "exporting"
    BY <2>1, <2>2 DEF RunDocuments
  <2>4. /\ Generation(Metrics) = file[Metrics] /\ file[Metrics] # Absent /\ Len(file[Metrics].rows) = Horizon
        /\ file[Metrics].rows \in Rows /\ file[Metrics] = MetricsOf(file[Metrics].rows)
    BY <2>1, StoreFacts, MetricsFacts DEF Shapes, Lengths, Counting
  <2>5. Evidence(Document)' /\ Evidence(mem)'
    BY <2>1, <2>2, <2>3, <2>4, EvidenceFacts DEF Evidence, SameView
  <2>6. mem'.metrics # Absent
    BY <2>3, <2>4, LaunchFacts
  <2>7. ~Ended
    BY <2>1, EvidenceFacts DEF Made
  <2>8. Made'
    BY <2>1, <2>2, <2>3, <2>6, <2>7 DEF Made
  <2> QED BY <2>1, <2>5, <2>8 DEF EvidenceInv, Early, Known, LoopPoints
<1>2. CASE Exports
  <2>1. /\ SameView /\ Ended' = Ended /\ n' = n
        /\ pc \in ExportPoints \ {"exporting", "final"} /\ pc' \in ExportPoints \ {"exporting", "adapter"}
        /\ \/ pc' # "final" /\ mem' = mem
           \/ pc = "close" /\ pc' = "final" /\ mem' = [mem EXCEPT !.status = "trained_and_exported"]
    BY <1>2, ExportsShape, ExportsAre
  <2>2. mem \in RunDocuments /\ mem # Absent /\ n = Horizon /\ net = After(Horizon) /\ mem.metrics # Absent
    <3>1. mem # Absent /\ mem \in RunDocuments
      BY <2>1, EvidenceFacts
    <3> QED BY <2>1, <3>1, EvidenceFacts, StoreFacts DEF Made, Shapes, ProcessOK
  <2>3. mem'.last = mem.last /\ mem'.metrics = mem.metrics /\ mem' # Absent
    <3>1. mem' = mem \/ mem' = [mem EXCEPT !.status = "trained_and_exported"]
      BY <2>1
    <3>2. mem' \in RunDocuments /\ mem'.last = mem.last /\ mem'.metrics = mem.metrics
      BY <2>2, <3>1 DEF RunDocuments, Statuses
    <3> QED BY <3>2, LaunchFacts
  <2>4. Evidence(Document)' /\ Evidence(mem)'
    BY <2>1, <2>2, <2>3, EvidenceFacts DEF Evidence, SameView
  <2>5. ~Ended
    BY <2>1, EvidenceFacts DEF Made, ExportPoints
  <2>6. /\ pc' \in {"adapter-json", "adapter-clean", "sources", "export", "publish", "close", "final"} =>
              adapter' = After(Horizon)
        /\ pc' \in {"adapter-clean", "sources", "export", "publish", "close", "final"} => metadata'
        /\ pc' \in {"close", "final"} => export' = After(Horizon)
    BY <2>2, <1>2, EvidenceFacts
       DEF Exports, ReuseAdapter, Refuse, Down, Goes, StageAdapter, PublishAdapter, PublishMetadata,
           CleanAdapterStage, CopySources, StageExport, PublishExport, CloseSources, exportVars, Made
  <2>7. mem'.status = "trained_and_exported" <=> pc' = "final"
    BY <2>1, <2>2, EvidenceFacts DEF Made, RunDocuments
  <2>8. Made'
    BY <2>1, <2>2, <2>3, <2>5, <2>6, <2>7 DEF Made
  <2> QED BY <2>1, <2>2, <2>4, <2>8 DEF EvidenceInv, ExportPoints, Early, Known, LoopPoints
<1> QED BY <1>1, <1>2 DEF ExportSteps

LEMMA EvidenceNext ==
    ASSUME Shape, Shape', IdentityInv, RecordsInv, EvidenceInv, NextSteps
    PROVE  EvidenceInv'
<1>1. CASE Ends
  <2>1. SameView /\ UNCHANGED <<adapter, metadata, export>> /\ pc' = "down" /\ mem' = Absent
    BY <1>1, EndsShape DEF Ends, Down, exportVars
  <2> QED BY <2>1, EvidenceStay DEF EvidenceLeads, SameView
<1>2. CASE PublicationSteps
  BY <1>2, EvidenceBegins, EvidencePublishing, EvidenceWritten, EvidenceInterrupted DEF PublicationSteps
<1> QED BY <1>1, <1>2, EvidenceStarts, EvidenceMoves, EvidenceCalls, EvidenceMetrics, EvidenceExports DEF NextSteps

LEMMA EvidenceInit ==
    ASSUME Init
    PROVE  EvidenceInv
<1>1. pc = "down" /\ mem = Absent /\ file = [k \in Names |-> Absent] /\ previous = [k \in Names |-> << >>]
  BY DEF Init, StoreInit, FilesInit
<1>2. Document = Absent
  BY <1>1, NameFacts DEF Document, Generation
<1> QED BY <1>1, <1>2, KnownIs DEF EvidenceInv, Evidence, Made, Ended
-----------------------------------------------------------------------------
(* The pace of the checkpoints.                                            *)

LEMMA PacedStays ==
    ASSUME Paced, Published' = Published, op'.at # "recover", n' = n,
           \/ pc' = "handle"
           \/ /\ pc # "handle" /\ mem # Absent /\ mem'.last = mem.last
              /\ pc' \in Numbered <=> pc \in Numbered
              /\ pc' \in {"save", "saving"} => pc \in {"save", "saving"} \/ OnCadence(n)
    PROVE  Paced'
BY DEF Paced, Numbered

LEMMA PacedStarts ==
    ASSUME Paced, Published' \subseteq Published, op'.at # "recover", n' = 0, pc' \notin Numbered
    PROVE  Paced'
BY DEF Paced, Numbered

\* No published checkpoint is set aside: each fits what a save would have built.
LEMMA NoneSpare ==
    ASSUME Shape, Paced, pc = "load", LoadAccepts(mem.last, NextStaging(mem))
    PROVE  Spare(mem.last, NextStaging(mem)) = {}
<1> DEFINE a == NextStaging(mem)
<1>1. \A e \in Published: e.whole /\ OnCadence(e.ckpt.step) /\ e.ckpt.step \in Nat /\ e.ckpt.step # 0
  BY StoreFacts, PublishedOK DEF Paced
<1>2. mem.last # Absent /\ a # 0 => a > mem.last.step /\ mem.last.step \in Nat
  BY StoreFacts, CheckpointFacts DEF LoadAccepts
<1> HIDE DEF a
<1>3. ASSUME NEW e \in Published, e.ckpt.step = a PROVE Fits(e, mem.last, a)
  BY <1>1, <1>2, <1>3 DEF Fits
<1> QED BY <1>3 DEF Spare, a

\* Only the replay of leftovers and the calls of the store change what is
\* published.
LEMMA PacedNext ==
    ASSUME Shape, Shape', IdentityInv, RecordsInv, Paced, NextSteps
    PROVE  Paced' /\ (Published' = Published \/ ReplaySteps \/ InStore \/ InStoreFails)
<1>1. /\ pc' \notin {"load", "saving"} => op'.at # "recover"
      /\ pc \in BeforeLoad => n = 0
      /\ pc \notin {"down", "restore"} => mem # Absent
  <2>1. Shapes'
    BY ShapeIs, PTL
  <2> QED BY <2>1, StoreFacts, RestingIs DEF Shapes, StoreShape, ProcessOK
<1>2. CASE Ends
  <2>1. n' = 0 /\ pc' = "down" /\ dirs' = dirs
    BY <1>2 DEF Ends, Down
  <2> QED BY <1>1, <2>1, PacedStarts DEF Published, Numbered
<1>3. CASE StartSteps
  <2>1. /\ UNCHANGED <<dirs, n>> /\ pc \in BeforeLoad
        /\ pc' \in BeforeLoad \cup {"identify", "rotate"}
    BY <1>3, StartsAre DEF BeforeLoad, Early
  <2>2. op' = op
    <3>1. CASE \E name \in OutputNames: RestoreMissing(name)
      BY <3>1 DEF RestoreMissing
    <3>2. CASE Moves
      <4>1. UNCHANGED exportVars
        BY <1>3 DEF StartSteps
      <4> QED BY <3>2, <4>1, MovesAre DEF storeVars
    <3> QED BY <1>3, <3>1, <3>2 DEF StartSteps, Start, StartFresh, Resume, Refuse, Down, Sweep, ReplayPointer, storeVars
  <2>3. pc' \notin Numbered /\ n' = 0 /\ Published' = Published
    BY <1>1, <2>1 DEF BeforeLoad, Early, Numbered, Published
  <2> QED BY <2>2, <2>3, PacedStarts DEF Paced
<1>4. CASE IdentitySteps
  <2>1. /\ UNCHANGED <<dirs, n>> /\ mem # Absent /\ mem'.last = mem.last
        /\ pc \in {"prestart", "pid", "rotate"} /\ pc' \in {"prestart", "pid", "identify"}
    BY <1>4, IdentitiesAre
  <2> QED BY <1>1, <2>1, PacedStays DEF Published, Numbered
<1>5. CASE ReplaySteps
  <2>1. Published' \subseteq Published /\ UNCHANGED <<op, pc, n>> /\ pc \in {"replay", "load"}
    BY <1>5, RecordsReplays, ReplayShape DEF ReplaySteps
  <2> QED BY <1>1, <1>5, <2>1, PacedStarts DEF Paced, Numbered, BeforeLoad
<1>6. CASE BeginLoad /\ UNCHANGED exportVars
  <2>1. /\ Published' = Published /\ UNCHANGED <<pc, n>> /\ pc = "load" /\ op'.at # "recover"
    BY <1>6, BeginLoadShape, NoneSpare DEF Published
  <2> QED BY <1>1, <2>1, PacedStarts DEF Numbered, BeforeLoad
<1>7. CASE Loaded /\ pc' # "down" /\ UNCHANGED exportVars
  <2>1. Published' = Published /\ pc' = "rotate" /\ mem'.last # Absent
    BY <1>7, LoadedShape, LaunchFacts DEF Published
  <2> QED BY <1>1, <2>1 DEF Paced
<1>8. CASE SaveCheckpoint
  <2>1. /\ Published' = Published /\ UNCHANGED <<mem, n>> /\ pc = "save" /\ pc' = "saving"
        /\ op'.at # "recover"
    BY <1>8, SaveCheckpointShape, RecordsSaveCheckpoint
  <2> QED BY <1>1, <2>1, PacedStays DEF Numbered
<1>9. CASE InStore \/ InStoreFails
  <2>1. UNCHANGED <<pc, mem, n>> /\ op'.at # "recover"
    BY <1>9, InStoreShape DEF StoreMoved, OnDisk
  <2>2. \/ Published' \subseteq Published
        \/ \E g \in Entries: Published' = Published \cup {g} /\ g.ckpt = op.ckpt /\ op.at = "staged" /\ pc = "saving"
    BY <1>9, StorePublishes
  <2>3. pc = "saving" /\ op.at = "staged" => op.ckpt.step = n
    BY StoreFacts DEF Shapes, StoreShape
  <2>4. \A e \in Published': OnCadence(e.ckpt.step)
    BY <2>2, <2>3 DEF Paced
  <2> QED BY <1>9, <2>1, <2>4 DEF Paced
<1>10. CASE Saved
  <2>1. UNCHANGED <<dirs, mem, n>> /\ pc = "saving" /\ pc' = "commit"
    BY <1>10, SavedShape
  <2> QED BY <1>1, <2>1, PacedStays DEF Published, Numbered
<1>11. CASE (Begins /\ UNCHANGED exportVars) \/ Publishing \/ PublishingFails
  <2>1. UNCHANGED <<dirs, op, pc, mem, n>>
    BY <1>11, BeginsAre, PublishingShape
  <2> QED BY <2>1 DEF Paced, Published
<1>12. CASE Written
  <2>1. /\ UNCHANGED <<dirs, n, op>> /\ mem # Absent
        /\ \/ pc \notin Numbered \cup {"handle"} /\ pc' \notin Numbered /\ mem'.last = mem.last
           \/ pc = "commit" /\ pc' = "loop" /\ mem' = pub.doc
    BY <1>12, WrittenIs, LaunchFacts DEF Numbered
  <2>2. CASE pc \notin Numbered \cup {"handle"} /\ pc' \notin Numbered /\ mem'.last = mem.last
    BY <2>1, <2>2, PacedStays DEF Paced, Published, Numbered
  <2>3. CASE pc = "commit" /\ pc' = "loop" /\ mem' = pub.doc
    <3>1. pub.at # "idle"
      BY <2>3, StoreFacts DEF Shapes, Publisher
    <3>2. mem'.last # Absent
      BY <2>3, <3>1, PublishableIs, LaunchFacts
    <3> QED BY <2>1, <2>3, <3>2 DEF Paced, Published
  <2> QED BY <2>1, <2>2, <2>3 DEF Published
<1>13. CASE Interrupted
  <2>1. UNCHANGED <<dirs, n>> /\ pc' = "handle"
    BY <1>13, InterruptedShape
  <2> QED BY <1>1, <2>1, PacedStays DEF Published
<1>14. CASE MetricsSteps
  <2>1. CASE CreateMetrics \/ CopyMetrics
    <3>1. UNCHANGED <<dirs, op, mem, n>> /\ pc = "metrics" /\ pc' \in {"loop", "prefix"}
      BY <2>1 DEF CreateMetrics, CopyMetrics, Goes, memoryVars, storeVars
    <3> QED BY <1>1, <3>1, PacedStays DEF Published, Numbered
  <2>2. CASE AppendMetric
    <3>1. UNCHANGED <<dirs, op, mem, n>> /\ pc = "append" /\ pc' = IF OnCadence(n) THEN "save" ELSE "loop"
      BY <2>2 DEF AppendMetric, Goes, memoryVars
    <3>2. mem.last = Absent => OnCadence(n)
      BY <1>1, <3>1 DEF Paced, Numbered, OnCadence
    <3> QED BY <1>1, <3>1, <3>2 DEF Paced, Published, Numbered
  <2>3. CASE Update
    <3>1. UNCHANGED <<dirs, op, mem>> /\ pc = "loop" /\ pc' = "append" /\ n' = n + 1
      BY <2>3 DEF Update, storeVars
    <3> QED BY <1>1, <3>1 DEF Paced, Published, Numbered
  <2> QED BY <1>14, <2>1, <2>2, <2>3 DEF MetricsSteps, CreateMetrics, CopyMetrics, AppendMetric, Update, storeVars, Published
<1>15. CASE ExportSteps
  <2>1. CASE BeginExport
    <3>1. /\ UNCHANGED <<dirs, op, n>> /\ pc = "loop" /\ pc' = "exporting" /\ mem.last # Absent
          /\ mem' = [mem EXCEPT !.status = "exporting", !.completed = Horizon, !.metrics = file[Metrics].rows]
      BY <2>1 DEF BeginExport, storeVars
    <3>2. mem'.last = mem.last
      BY <1>1, <3>1, StoreFacts DEF RunDocuments
    <3> QED BY <1>1, <3>1, <3>2, PacedStays DEF Published, Numbered
  <2>2. CASE Exports
    <3>1. /\ UNCHANGED <<storeVars, n>> /\ pc \in ExportPoints /\ pc' \in ExportPoints
          /\ mem' = mem \/ mem' = [mem EXCEPT !.status = "trained_and_exported"]
      BY <2>2, ExportsAre
    <3>2. /\ pc \notin Numbered \cup {"handle", "down", "restore", "load", "saving"}
          /\ pc' \notin Numbered \cup {"handle", "load", "saving"}
      BY <3>1 DEF ExportPoints, Numbered
    <3>3. mem # Absent /\ mem'.last = mem.last
      BY <1>1, <3>1, <3>2, StoreFacts DEF RunDocuments
    <3> QED BY <1>1, <3>1, <3>2, <3>3, PacedStays DEF Published, Numbered, storeVars
  <2> QED BY <1>15, <2>1, <2>2 DEF ExportSteps
<1> QED BY <1>2, <1>3, <1>4, <1>5, <1>6, <1>7, <1>8, <1>9, <1>10, <1>11, <1>12, <1>13, <1>14, <1>15
        DEF NextSteps, CallSteps, PublicationSteps

LEMMA PacedInit ==
    ASSUME Init
    PROVE  Paced
BY RestingIs DEF Init, StoreInit, Published, Paced
-----------------------------------------------------------------------------
(* The whole invariant.                                                    *)

LaunchInv == Shape /\ IdentityInv /\ RecordsInv /\ Paced /\ MetricsInv /\ EvidenceInv

LEMMA LaunchInit ==
    ASSUME Init
    PROVE  LaunchInv
BY ShapeInit, IdentityInit, RecordsInit, PacedInit, MetricsInit, EvidenceInit DEF LaunchInv

\* What the next process would read changes by one publication only.
LEMMA RecordMoves ==
    ASSUME Shape, IdentityInv, NextSteps, Document' # Document
    PROVE  Publishing \/ PublishingFails
<1>2. CASE Ends \/ StartSteps \/ IdentitySteps \/ ReplaySteps
  BY <1>2, EndsShape, StartsAre, IdentitiesAre, ReplayShape DEF SameView, ReplaySteps
<1>3. CASE CallSteps
  BY <1>3, BeginLoadShape, LoadedShape, SaveCheckpointShape, InStoreShape, SavedShape DEF SameView, CallSteps
<1>4. CASE PublicationSteps
  BY <1>4, BeginsShape, WrittenShape, InterruptedShape DEF SameView, PublicationSteps
<1>5. CASE MetricsSteps
  BY <1>5, CreateMetricsShape, CopyMetricsShape, AppendMetricShape, UpdateShape DEF SameView, MetricsSteps
<1>6. CASE ExportSteps
  BY <1>6, BeginExportShape, ExportsShape DEF SameView, ExportSteps
<1> QED BY <1>2, <1>3, <1>4, <1>5, <1>6 DEF NextSteps

\* The newest of a set of checkpoints with different steps is the one no other
\* is newer than.
LEMMA TheNewest ==
    ASSUME NEW E \in SUBSET Entries, NEW x \in E, \A f \in E: f.ckpt.step <= x.ckpt.step,
           \A e, f \in E: e.ckpt.step = f.ckpt.step => e = f
    PROVE  Newest(E) = x
<1>1. Newest(E) \in E /\ x.ckpt.step <= Newest(E).ckpt.step /\ Newest(E).ckpt.step <= x.ckpt.step
  BY NewestIs
<1>2. x.ckpt.step \in Nat /\ Newest(E).ckpt.step \in Nat
  BY <1>1, CheckpointFacts DEF Entries
<1> QED BY <1>1, <1>2

\* A recorded run continues from a published checkpoint, no older than the
\* recorded one.
LEMMA ContinuedIs ==
    ASSUME Shape, RecordsInv
    PROVE  /\ Recorded = Absent <=> Continued = Absent
           /\ Recorded # Absent => /\ Continued \in Checkpoints /\ IsPublished(Continued)
                                   /\ \A e \in Published: e.ckpt.step <= Continued.step
                                   /\ Recorded.step <= Continued.step
<1>1. DirsOK /\ (Recorded # Absent => IsPublished(Recorded))
  BY StoreFacts DEF RecordsInv, Records
<1>2. ASSUME Recorded # Absent
      PROVE  /\ Newest(Published) \in Published /\ Newest(Published).ckpt \in Checkpoints
             /\ \A e \in Published: e.ckpt.step <= Newest(Published).ckpt.step
  BY <1>1, <1>2, PublishedOK, NewestIs DEF IsPublished
<1> QED BY <1>1, <1>2, LaunchFacts DEF Continued, IsPublished

\* A step of the abstract run to a later checkpoint.
LEMMA Advances ==
    ASSUME ~Ended, ~Ended', Continued' \in Checkpoints, Continued # Absent => Continued.step < Continued'.step
    PROVE  Progress!Record
<1>1. PICK s \in 1..Horizon, b \in Builds: Continued' = [step |-> s, build |-> b]
  BY DEF Checkpoints, Steps
<1>2. Continued # Absent => Continued.step < s
  BY <1>1
<1> QED BY <1>1, <1>2 DEF Progress!Record, Ended

Progresses == Progress!Next \/ Progress!StartOver \/ (Continued' = Continued /\ Ended' = Ended)

\* Publishing another document: a commit or the announcement records the first
\* checkpoint, the last document ends the run, and what an exception's handler
\* writes can at most take the first checkpoint off the record again.
LEMMA ProgressRecords ==
    ASSUME Shape, Shape', RecordsInv, RecordsInv', EvidenceInv, Publishing \/ PublishingFails
    PROVE  Progresses
<1>1. /\ Made /\ Published' = Published
      /\ \/ Document' = Document
         \/ /\ Document' = pub.doc
            /\ pc \in PersistPoints \cup {"commit"} /\ Recorded' = pub.doc.last
            /\ pc # "handle" => AsNew(Recorded, pub.doc.last)
            /\ pc \in {"recopied"} \cup ExportPoints => Recorded = pub.doc.last
  BY RecordsPublishing DEF EvidenceInv
<1>2. CASE Document' = Document
  BY <1>1, <1>2, SameDocument DEF Progresses, Continued
<1>3. CASE /\ Document' = pub.doc
           /\ pc \in PersistPoints \cup {"commit"} /\ Recorded' = pub.doc.last
           /\ pc # "handle" => AsNew(Recorded, pub.doc.last)
           /\ pc \in {"recopied"} \cup ExportPoints => Recorded = pub.doc.last
  <2>1. /\ pc \in PersistPoints => pub.doc = mem
        /\ pc = "commit" => pub.doc.status = mem.status
        /\ pub.doc \in RunDocuments /\ Recorded' \in Checkpoints \cup {Absent}
    <3>1. pub.at # "idle"
      BY PublishingShape
    <3>2. pub.doc \in RunDocuments
      BY <1>3, <3>1, PublishableIs DEF Publishable
    <3> QED BY <1>3, <3>1, <3>2, PublishableIs, RunDocumentFacts
  <2>2. mem # Absent /\ pc \notin {"down", "restore"} /\ Document' # Absent
    <3>1. pc \notin {"down", "restore"}
      BY <1>3 DEF PersistPoints
    <3> QED BY <1>3, <2>1, <3>1, StoreFacts, LaunchFacts
  <2>3. Ended' <=> pc = "final"
    BY <1>1, <1>3, <2>1, <2>2 DEF Ended, Made, PersistPoints
  <2>4. Ended => pc = "final"
    BY <1>1, <2>2 DEF Made
  <2>5. CASE pc = "final"
    <3>1. Recorded' = Recorded /\ Recorded = mem.last
      BY <1>3, <2>1, <2>5 DEF RecordsInv, Records, ExportPoints, PersistPoints
    <3>2. Recorded # Absent /\ Recorded.step = Horizon
      BY <1>1, <2>2, <2>5, <3>1, EvidenceFacts DEF Evidence, Made, ExportPoints
    <3>3. Continued' = Continued /\ Continued # Absent /\ Continued.step = Horizon
      <4>1. Continued \in Checkpoints /\ Horizon <= Continued.step
        BY <3>2, ContinuedIs
      <4> QED BY <1>1, <3>1, <3>2, <4>1, CheckpointFacts, LaunchFacts, HorizonIs DEF Continued
    <3> QED BY <2>3, <2>5, <3>3 DEF Progresses, Progress!Next, Progress!End
  <2>6. CASE pc # "final"
    <3>1. ~Ended /\ ~Ended' /\ Ended' = Ended
      BY <2>3, <2>4, <2>6 DEF Ended
    <3>2. CASE (Recorded = Absent) <=> (Recorded' = Absent)
      BY <1>1, <3>1, <3>2 DEF Progresses, Continued
    <3>3. CASE Recorded = Absent /\ Recorded' # Absent
      <4>1. Continued = Absent
        BY <3>3 DEF Continued
      <4>2. Continued' \in Checkpoints
        <5>1. PICK e \in Published': e.ckpt = Recorded'
          BY <3>3 DEF RecordsInv, Records, IsPublished
        <5>2. Newest(Published) \in Published /\ \A d \in Published: d.ckpt \in Checkpoints
          BY <1>1, <5>1, StoreFacts, PublishedOK, NewestIs
        <5> QED BY <1>1, <3>3, <5>2 DEF Continued
      <4> QED BY <3>1, <4>1, <4>2, Advances DEF Progresses, Progress!Next
    <3>4. CASE Recorded # Absent /\ Recorded' = Absent
      <4>1. pc = "handle"
        BY <1>3, <3>4 DEF AsNew
      <4>2. mem.last = Absent
        BY <1>3, <2>1, <3>4, <4>1 DEF PersistPoints
      <4>3. \A e \in Published: e.ckpt.step = 1
        BY <3>4, <4>1, <4>2 DEF RecordsInv, Records
      <4>4. Continued # Absent /\ Continued.step = 1 /\ Continued' = Absent
        BY <3>4, <4>3, ContinuedIs, LaunchFacts DEF IsPublished, Continued
      <4> QED BY <3>1, <4>4 DEF Progresses, Progress!StartOver
    <3> QED BY <3>2, <3>3, <3>4
  <2> QED BY <2>5, <2>6
<1> QED BY <1>1, <1>2, <1>3

\* A call of the store publishes a newer checkpoint, or removes one that is not
\* the newest.
LEMMA ProgressInStore ==
    ASSUME Shape, Shape', RecordsInv, RecordsInv', Paced, EvidenceInv, InStore \/ InStoreFails
    PROVE  Progresses
<1>1. OneName /\ OneName' /\ DirsOK /\ DirsOK' /\ mem # Absent /\ Records
  <2>1. pc \in {"load", "saving"}
    BY InStoreShape
  <2>2. Shapes'
    BY ShapeIs, PTL
  <2> QED BY <2>1, <2>2, StoreFacts DEF RecordsInv, Shapes, StoreShape, DirsOK
<1>2. Recorded' = Recorded /\ Ended' = Ended /\ pc \in {"load", "saving"}
  BY InStoreShape
<1>3. ~Ended
  BY <1>1, <1>2 DEF EvidenceInv, Made
<1>4. /\ Published' \in SUBSET Entries /\ Published \in SUBSET Entries
      /\ \A e \in Published: e.ckpt \in Checkpoints /\ e.ckpt.step \in Nat
  <2>1. Published' \subseteq dirs' /\ dirs' \subseteq Entries
    BY <1>1 DEF Published, DirsOK
  <2> QED BY <1>1, <2>1, PublishedOK
<1>5. CASE Recorded = Absent \/ Published' = Published
  BY <1>2, <1>5 DEF Progresses, Continued
<1>6. ASSUME Recorded # Absent,
             NEW g \in Entries, Published' = Published \cup {g}, g.ckpt = op.ckpt, op.at = "staged", pc = "saving"
      PROVE  Progresses
  <2>1. op.ckpt.step = n /\ op.ckpt \in Checkpoints /\ n \in Nat
    BY <1>6, StoreFacts DEF Shapes, StoreShape
  <2>2. \A e \in Published: e.ckpt.step < n
    BY <1>1, <1>6 DEF Records, Saving
  <2>3. \A f \in Published': f.ckpt.step <= g.ckpt.step
    BY <1>4, <1>6, <2>1, <2>2
  <2>4. \A e, f \in Published': e.ckpt.step = f.ckpt.step => e = f
    BY <1>1 DEF OneName
  <2>5. g \in Published'
    BY <1>6
  <2>6. Newest(Published)' = g
    BY <1>4, <2>3, <2>4, <2>5, TheNewest
  <2>7. Continued' = op.ckpt
    BY <1>2, <1>6, <2>6 DEF Continued
  <2>8. Continued # Absent => Continued.step < n
    BY <1>6, <2>2, ContinuedIs DEF IsPublished
  <2>9. Progress!Record
    BY <1>2, <1>3, <2>1, <2>7, <2>8, Advances
  <2> QED BY <2>9 DEF Progresses, Progress!Next
<1>7. ASSUME Recorded # Absent,
             NEW e \in Published, Published' = Published \ {e}, op.at = "prune", e.ckpt # op.ckpt
      PROVE  Progresses
  <2>1. IsPublished(op.ckpt) /\ \A f \in Published: f.ckpt.step <= op.ckpt.step
    <3>1. CASE pc = "load"
      BY <1>1, <1>7, <3>1 DEF Records, Loading, OnDisk
    <3>2. CASE pc = "saving"
      <4>1. op.ckpt.step = n
        BY <1>7, <3>2, StoreFacts DEF Shapes, StoreShape
      <4> QED BY <1>1, <1>7, <3>2, <4>1 DEF Records, Saving, OnDisk
    <3> QED BY <1>2, <3>1, <3>2
  <2>2. PICK x \in Published: x.ckpt = op.ckpt
    BY <2>1 DEF IsPublished
  <2>3. x \in Published' /\ \A f \in Published': f.ckpt.step <= x.ckpt.step
    BY <1>7, <2>1, <2>2
  <2>4. Newest(Published) = x
    BY <1>1, <1>4, <2>1, <2>2, TheNewest DEF OneName
  <2>5. \A d, f \in Published': d.ckpt.step = f.ckpt.step => d = f
    BY <1>1 DEF OneName
  <2>6. Newest(Published)' = x
    BY <1>4, <2>3, <2>5, TheNewest
  <2> QED BY <1>2, <2>4, <2>6 DEF Progresses, Continued
<1> QED BY <1>5, <1>6, <1>7, StorePublishes DEF Paced

\* Every step of a launched run is one of the abstract run, or leaves what it
\* continues from.
LEMMA ProgressNext ==
    ASSUME Shape, Shape', IdentityInv, RecordsInv, RecordsInv', Paced, EvidenceInv, NextSteps
    PROVE  Progresses
<1>1. CASE Publishing \/ PublishingFails
  BY <1>1, ProgressRecords
<1>2. CASE InStore \/ InStoreFails
  BY <1>2, ProgressInStore
<1>3. CASE ReplaySteps
  <2>1. Recorded' = Recorded /\ Ended' = Ended
    BY <1>3, ReplayShape DEF ReplaySteps
  <2>2. PICK e \in dirs: Movable(e) /\ dirs' = dirs \ {e}
    BY <1>3, ReplayShape DEF ReplaySteps
  <2>3. mem.last = Recorded
    BY <1>3, ReplayShape, ResumingRecorded DEF ReplaySteps
  <2>4. CASE ZeroStep
    BY <2>1, <2>3, <2>4 DEF ZeroStep, Progresses, Continued
  <2>5. CASE ~ZeroStep
    <3>1. Published' = Published
      BY <2>2, <2>5 DEF Movable, Published
    <3> QED BY <2>1, <3>1 DEF Progresses, Continued
  <2> QED BY <2>4, <2>5
<1>4. CASE Document' = Document /\ Published' = Published
  BY <1>4, SameDocument DEF Progresses, Continued
<1> QED BY <1>1, <1>2, <1>3, <1>4, RecordMoves, PacedNext

LEMMA LaunchNext ==
    ASSUME LaunchInv, [Next]_vars
    PROVE  LaunchInv' /\ RowsKept /\ Progresses
<1>1. CASE Next
  <2>1. NextSteps
    BY <1>1, NextCases DEF LaunchInv
  <2>2. Shape' /\ IdentityInv'
    BY <2>1, IdentityNext DEF LaunchInv
  <2>3. RecordsInv'
    BY <2>1, <2>2, RecordsNext DEF LaunchInv
  <2>4. MetricsInv' /\ RowsKept
    BY <2>1, <2>2, MetricsNext DEF LaunchInv
  <2>5. EvidenceInv'
    BY <2>1, <2>2, EvidenceNext DEF LaunchInv
  <2>6. Paced'
    BY <2>1, <2>2, PacedNext DEF LaunchInv
  <2>7. Progresses
    BY <2>1, <2>2, <2>3, ProgressNext DEF LaunchInv
  <2> QED BY <2>2, <2>3, <2>4, <2>5, <2>6, <2>7 DEF LaunchInv
<1>2. CASE UNCHANGED vars
  <2>1. UNCHANGED <<file, staged, previous, pub, dirs, op, pc, build, mem, n, net, bound, pids, tails, moved,
                    hidden, adapter, metadata, export>>
    BY <1>2 DEF vars, storeVars, fileVars, memoryVars, recoveryVars, exportVars
  <2>2. /\ Document' = Document /\ Generation(Metrics)' = Generation(Metrics) /\ Published' = Published
        /\ Recorded' = Recorded /\ Ended' = Ended /\ AllRows' = AllRows
    BY <2>1 DEF Document, Generation, Published, Recorded, Ended, AllRows
  <2>3. Files' /\ Publisher' /\ Present'
    BY <2>1, <2>2 DEF LaunchInv, Shape, Control, Files, FilesType, PubFiles, NameFiles, Publisher, NewDocument,
                      Present, Missing
  <2>4. ProcessOK' /\ Counted' /\ Lengths' /\ StoreShape' /\ OthersType'
    BY <2>1 DEF LaunchInv, Shape, Control, ProcessOK, Counted, Lengths, StoreShape, OthersType
  <2>5. IdentityInv' /\ MetricsInv' /\ EvidenceInv'
    BY <2>1, <2>2 DEF LaunchInv, IdentityInv, KnownPids, Identified, MetricsInv, Carries, TailRows,
                      EvidenceInv, Evidence, Made
  <2>6. RecordsInv'
    BY <2>1, <2>2 DEF LaunchInv, RecordsInv, OneName, Records, IsPublished, UpTo, Loading, Saving, Committing,
                      ZeroStep, Unrecognized, Movable, Expected, AllowedPublished, NextStaging
  <2>7. Paced'
    BY <2>1, <2>2 DEF LaunchInv, Paced
  <2>8. Progresses
    BY <2>2 DEF Progresses, Continued
  <2> QED BY <2>2, <2>3, <2>4, <2>5, <2>6, <2>7, <2>8 DEF LaunchInv, Shape, Control, RowsKept
<1> QED BY <1>1, <1>2

\* The layers together hold of every process, from an empty directory on.
THEOREM LaunchedInvariant == Spec => []LaunchInv
<1>1. LaunchInv /\ [Next]_vars => LaunchInv'
  BY LaunchNext
<1> QED BY LaunchInit, <1>1, PTL DEF Spec
-----------------------------------------------------------------------------
\* Whenever a process is killed, run.json refers to a process identity that can
\* be found: training.pid, or one that was moved aside (7655-7761); and every
\* recovery it records is there (7517-7604).
THEOREM LaunchedProcessFound == Spec => []ProcessFound
<1>1. LaunchInv => ProcessFound
  BY StoreFacts, DocumentsAre DEF LaunchInv, IdentityInv, Identified, ProcessFound, Shapes, Files
<1> QED BY LaunchedInvariant, <1>1, PTL

\* Neither pruning (8389-8475) nor a load that sets a checkpoint aside nor the
\* replay of leftovers takes the checkpoint that run.json names.
THEOREM LaunchedRecordedKept == Spec => []RecordedKept
<1>1. ASSUME LaunchInv PROVE RecordedKept
  <2>1. \A e \in Published: e.whole
    BY <1>1, StoreFacts, PublishedOK DEF LaunchInv
  <2> QED BY <1>1, <2>1 DEF LaunchInv, RecordsInv, Records, IsPublished, RecordedKept
<1> QED BY LaunchedInvariant, <1>1, PTL

\* Each update continues the exact trajectory: every part of it has seen the
\* updates metrics.csv has rows for, and each checkpoint was built by the
\* process whose row stands at its step (11838-11966).
THEOREM LaunchedExactTrajectory == Spec => []ExactTrajectory
<1>1. ASSUME LaunchInv, pc \in {"loop", "save"}
      PROVE  /\ net = After(n)
             /\ Len(file[Metrics].rows) = n
             /\ \A e \in Published: e.ckpt.step <= n /\ file[Metrics].rows[e.ckpt.step] = e.ckpt.build
  <2>1. Shape /\ Shapes /\ MetricsInv
    BY <1>1, StoreFacts DEF LaunchInv
  <2>2. net = After(n) /\ Len(file[Metrics].rows) = n
    BY <1>1, <2>1 DEF Shapes, ProcessOK, Lengths, Counting
  <2>3. Generation(Metrics) = file[Metrics]
    BY <1>1, <2>1, MetricsFacts
  <2> QED BY <2>1, <2>2, <2>3 DEF MetricsInv, Carries
<1>2. LaunchInv => ExactTrajectory
  BY <1>1 DEF ExactTrajectory
<1> QED BY LaunchedInvariant, <1>2, PTL

\* Cutting metrics.csv back to the checkpoint keeps a copy of what is cut
\* (350-465): no row that was ever written is lost.
THEOREM LaunchedRowsNeverLost == Spec => RowsNeverLost
<1>1. LaunchInv /\ [Next]_vars => [AllRows \subseteq AllRows']_vars
  BY LaunchNext DEF RowsKept
<1> QED BY LaunchedInvariant, <1>1, PTL DEF Spec, RowsNeverLost

\* The final metrics evidence in run.json stays that of metrics.csv, and a run
\* recorded as trained and exported has its adapter, the metadata and an export
\* of the whole trajectory (12320-12566).
THEOREM LaunchedEvidenceStands == Spec => []EvidenceStands
<1>1. LaunchInv => EvidenceStands
  BY DEF LaunchInv, EvidenceInv, Evidence, Made, EvidenceStands
<1> QED BY LaunchedInvariant, <1>1, PTL

\* Over all kills, failures and restarts, the checkpoint the next process
\* continues from is only ever replaced by one of a later step, also where the
\* handler of an exception puts run.json back (12253-12299); a run with only its
\* first checkpoint may start over; and the run ends once, at the last step.
THEOREM LaunchedImplementsRun == Spec => ImplementsRun
<1>1. Init => Progress!Init
  <2>1. SUFFICES ASSUME Init PROVE Progress!Init
    OBVIOUS
  <2>2. file = [k \in Names |-> Absent] /\ previous = [k \in Names |-> << >>]
    BY <2>1 DEF Init, StoreInit, FilesInit
  <2>3. Document = Absent
    BY <2>2, NameFacts DEF Document, Generation
  <2> QED BY <2>3 DEF Progress!Init, Continued, Recorded, Ended
<1>2. LaunchInv /\ [Next]_vars => [Progress!Next \/ Progress!StartOver]_<<Continued, Ended>>
  BY LaunchNext DEF Progresses
<1> QED BY LaunchedInvariant, <1>1, <1>2, PTL DEF Spec, ImplementsRun, Progress!RestartableSpec

\* Every part of the state stays of its type, whatever else Documents holds.
THEOREM LaunchedTypes ==
    ASSUME LaunchDocuments \subseteq Documents
    PROVE  Spec => []TypeOK
<1>1. ASSUME LaunchInv PROVE TypeOK
  <2>1. Shape /\ Shapes
    BY <1>1, StoreFacts DEF LaunchInv
  <2>2. ASSUME NEW k \in Names PROVE previous[k] \in Seq(Documents)
    <3>1. previous[k] \in Seq(LaunchDocuments)
      BY <2>1, <2>2 DEF Shapes, Files, FilesType
    <3>2. Len(previous[k]) \in Nat /\ previous[k] \in [1..Len(previous[k]) -> LaunchDocuments]
      BY <3>1, LenProperties
    <3>3. previous[k] \in [1..Len(previous[k]) -> Documents]
      BY <3>2
    <3> QED BY <3>2, <3>3, SeqDef
  <2>3. file \in [Names -> Documents \cup {Absent}] /\ staged \in [Names -> Nat]
        /\ previous \in [Names -> Seq(Documents)]
    BY <2>1, <2>2 DEF Shapes, Files, FilesType
  <2>4. pub \in PublicationState
    BY <2>1 DEF Shapes, Files, FilesType, PubTypes, PublicationState
  <2>5. StoreTypeOK
    BY <2>1, <2>3, <2>4 DEF StoreTypeOK, FilesTypeOK, Shapes, StoreShape, OpType
  <2>6. net \in TrajectoryStates
    BY <2>1, AfterIs DEF Shapes, ProcessOK
  <2>7. mem \in RunDocuments \cup {Absent}
    BY <2>1, StoreFacts
  <2> QED BY <2>1, <2>5, <2>6, <2>7 DEF TypeOK, Shapes, ProcessOK, OthersType
<1> QED BY LaunchedInvariant, <1>1, PTL
=============================================================================
