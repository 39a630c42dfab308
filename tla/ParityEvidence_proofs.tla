------------------------ MODULE ParityEvidence_proofs ------------------------
(***************************************************************************)
(* A floor report names the inputs its scores were computed from: for      *)
(* every set of floor runs, perturbations and cache users, however runs    *)
(* are killed, race and take over each other's artifacts, and however      *)
(* often the inputs are replaced.                                          *)
(***************************************************************************)
EXTENDS ParityEvidence, TLAPS

Unreads == {InOrder, <<"tokenizer">>, << >>}

\* the inputs a pass has read
Seen(unread) == IF unread = << >> THEN Inputs
                ELSE IF unread = InOrder THEN {} ELSE {"export"}

Stages == {"idle", "inputs", "variants", "waiting", "again", "write"}
Digests == [Inputs -> Nat]
Partial == [Inputs -> Nat \cup {None}]

RunnerType ==
    [at: Stages, unread: Unreads, hashes: Partial, inputs: Partial, assembles: BOOLEAN,
     actions: [Variants -> Partial \cup {None}], created: Nat]
WorkerType ==
    [variant: Variants, label: Digests, unread: Unreads, read: Partial,
     run: Runners \cup {None}]

FloorTypes ==
    /\ export \in Nat /\ tokenizer \in Nat /\ clock \in Nat
    /\ manifest \in Partial \cup {None}
    /\ variant \in [Variants -> [label: Digests, of: Digests] \cup {None}]
    /\ runner \in [Runners -> RunnerType]
    /\ workers \subseteq WorkerType

AtMost(h, g) == \A f \in Inputs: h[f] <= g[f]
NoNewer(h) == \A f \in Inputs: h[f] <= Version(f)

\* Versions only grow.  A run hashes its inputs before its workers read them, and
\* again after it has read what they left: a digest that is the same both times
\* is the version that was read in between.
RunOK(c) ==
    /\ c.at \in {"idle", "inputs"} => c.actions = NoActions
    /\ c.at \in {"inputs", "again"} =>
          \A f \in Seen(c.unread): c.hashes[f] \in Nat /\ c.hashes[f] <= Version(f)
    /\ c.at \in {"variants", "waiting", "again"} =>
          /\ c.inputs \in Digests /\ NoNewer(c.inputs)
          /\ \A v \in Variants: c.actions[v] # None =>
                /\ c.actions[v] \in Digests
                /\ AtMost(c.inputs, c.actions[v]) /\ NoNewer(c.actions[v])
    /\ c.at = "again" =>
          \A v \in Variants:
             /\ c.actions[v] # None
             /\ \A f \in Seen(c.unread): c.actions[v][f] <= c.hashes[f]
    /\ c.at = "write" => \A v \in Variants: c.actions[v] = c.inputs

WorkerOK(w) ==
    /\ NoNewer(w.label)
    /\ \A f \in Seen(w.unread):
          w.read[f] \in Nat /\ w.label[f] <= w.read[f] /\ w.read[f] <= Version(f)

VariantOK(a) == a # None => AtMost(a.label, a.of) /\ NoNewer(a.of)

\* A run that has a worker waits for it, and has no other.
OneWorker ==
    \A w \in workers: w.run # None =>
        /\ runner[w.run].at = "waiting"
        /\ \A x \in workers: x.run = w.run => x = w

FloorInv ==
    /\ FloorTypes
    /\ \A r \in Runners: RunOK(runner[r])
    /\ \A w \in workers: WorkerOK(w)
    /\ \A v \in Variants: VariantOK(variant[v])
    /\ OneWorker
    /\ FloorMeasured

-----------------------------------------------------------------------------
\* A pass reads the inputs in order.
LEMMA SeenGrows ==
    ASSUME NEW unread \in Unreads, unread # << >>
    PROVE  /\ Tail(unread) \in Unreads /\ Head(unread) \in Inputs
           /\ Seen(Tail(unread)) = Seen(unread) \cup {Head(unread)}
<1>1. CASE unread = InOrder
  BY <1>1 DEF Unreads, InOrder, Seen, Inputs
<1>2. CASE unread = <<"tokenizer">>
  BY <1>2 DEF Unreads, InOrder, Seen, Inputs
<1> QED BY <1>1, <1>2 DEF Unreads

LEMMA SeenEnds == Seen(<< >>) = Inputs /\ Seen(InOrder) = {} /\ InOrder \in Unreads /\ << >> \in Unreads
BY DEF Seen, InOrder, Unreads

LEMMA VersionIsNat == ASSUME FloorTypes PROVE \A f \in Inputs: Version(f) \in Nat
BY DEF FloorTypes, Version

LEMMA RestingOK == Resting \in RunnerType /\ RunOK(Resting)
<1>1. Resting \in RunnerType
  <2>1. NotRead \in Partial
    BY DEF NotRead, Partial
  <2>2. NoActions \in [Variants -> Partial \cup {None}]
    BY DEF NoActions
  <2> QED BY <2>1, <2>2, SeenEnds DEF Resting, RunnerType, Stages
<1>2. RunOK(Resting)
  BY DEF Resting, RunOK, NoActions
<1> QED BY <1>1, <1>2

\* Whatever happens elsewhere, the inputs included, only makes versions larger.
LEMMA AsideKeeps ==
    ASSUME FloorInv, UNCHANGED floorVars, clock' \in Nat,
           export' \in Nat, export <= export', tokenizer' \in Nat, tokenizer <= tokenizer'
    PROVE  FloorInv'
<1> DEFINE Later == \A f \in Inputs: Version(f) \in Nat /\ Version(f)' \in Nat /\ Version(f) <= Version(f)'
<1>1. Later
  BY DEF FloorInv, FloorTypes, Version
<1>2. UNCHANGED <<manifest, variant, floor, runner, workers>>
  BY DEF floorVars, floorFiles
<1>3. FloorTypes' /\ OneWorker' /\ FloorMeasured'
  BY <1>2 DEF FloorInv, FloorTypes, OneWorker, FloorMeasured
<1>4. ASSUME NEW h \in Digests, NoNewer(h) PROVE NoNewer(h)'
  BY <1>1, <1>4 DEF NoNewer, Digests
<1>5. ASSUME NEW r \in Runners PROVE RunOK(runner[r])'
  <2>1. runner[r] \in RunnerType /\ RunOK(runner[r])
    BY DEF FloorInv, FloorTypes
  <2>2. \A f \in Seen(runner[r].unread): f \in Inputs
    BY DEF Seen, Inputs
  <2> QED BY <1>1, <1>2, <1>4, <2>1, <2>2 DEF RunOK, NoNewer
<1>6. ASSUME NEW w \in workers PROVE WorkerOK(w)'
  <2>1. w \in WorkerType /\ WorkerOK(w)
    BY DEF FloorInv, FloorTypes
  <2>2. w.label \in Digests /\ \A f \in Seen(w.unread): f \in Inputs
    BY <2>1 DEF WorkerType, Seen, Inputs
  <2> QED BY <1>1, <1>4, <2>1, <2>2 DEF WorkerOK, NoNewer
<1>7. ASSUME NEW v \in Variants PROVE VariantOK(variant[v])'
  <2>1. variant[v] \in [label: Digests, of: Digests] \cup {None} /\ VariantOK(variant[v])
    BY DEF FloorInv, FloorTypes
  <2> QED BY <1>2, <1>4, <2>1 DEF VariantOK
<1> QED BY <1>2, <1>3, <1>5, <1>6, <1>7 DEF FloorInv

\* A step of one run that starts no worker and does not leave one alone.
LEMMA RunKeeps ==
    ASSUME FloorInv, NEW r \in Runners, NEW c \in RunnerType, RunOK(c),
           runner' = [runner EXCEPT ![r] = c],
           c.at = "waiting" \/ runner[r].at # "waiting",
           manifest' \in Partial \cup {None},
           UNCHANGED <<variant, workers, export, tokenizer, clock>>,
           FloorMeasured'
    PROVE  FloorInv'
<1>1. FloorTypes'
  BY DEF FloorInv, FloorTypes
<1>2. \A f: Version(f)' = Version(f)
  BY DEF Version
<1>3. ASSUME NEW q \in Runners PROVE RunOK(runner[q])'
  <2>1. runner'[q] = IF q = r THEN c ELSE runner[q]
    BY DEF FloorInv, FloorTypes
  <2>2. RunOK(runner'[q])
    BY <2>1 DEF FloorInv
  <2> QED BY <1>2, <2>2 DEF RunOK, NoNewer
<1>4. \A w \in workers': WorkerOK(w)'
  BY <1>2 DEF FloorInv, WorkerOK, NoNewer
<1>5. \A v \in Variants: VariantOK(variant[v])'
  BY <1>2 DEF FloorInv, VariantOK, NoNewer
<1>6. OneWorker'
  <2> SUFFICES ASSUME NEW w \in workers', w.run # None
               PROVE  runner'[w.run].at = "waiting" /\ \A x \in workers': x.run = w.run => x = w
    BY DEF OneWorker
  <2>1. w \in WorkerType /\ runner[w.run].at = "waiting" /\ \A x \in workers: x.run = w.run => x = w
    BY DEF FloorInv, FloorTypes, OneWorker
  <2>2. w.run \in Runners
    BY <2>1 DEF WorkerType
  <2> QED BY <2>1, <2>2 DEF FloorInv, FloorTypes
<1> QED BY <1>1, <1>3, <1>4, <1>5, <1>6 DEF FloorInv
-----------------------------------------------------------------------------
\* The steps of a floor run, one by one.

LEMMA HashInputKeeps ==
    ASSUME FloorInv, NEW r \in Runners, HashInput(r), UNCHANGED worldVars
    PROVE  FloorInv'
<1> DEFINE f == Head(runner[r].unread)
           c == [runner[r] EXCEPT !.unread = Tail(@), !.hashes[f] = Version(f)]
<1>1. /\ runner[r].unread # << >>
      /\ runner' = [runner EXCEPT ![r] = c]
      /\ UNCHANGED <<manifest, variant, floor, workers, export, tokenizer, clock>>
  BY DEF HashInput, floorFiles, worldVars, FloorInv, FloorTypes
<1>2. runner[r] \in RunnerType /\ RunOK(runner[r])
  BY DEF FloorInv, FloorTypes
<1>3. runner[r].unread \in Unreads /\ runner[r].hashes \in Partial
  BY <1>2 DEF RunnerType
<1>4. /\ f \in Inputs /\ Tail(runner[r].unread) \in Unreads
      /\ Seen(Tail(runner[r].unread)) = Seen(runner[r].unread) \cup {f}
  BY <1>1, <1>3, SeenGrows
<1>5. Version(f) \in Nat
  BY <1>4, VersionIsNat DEF FloorInv
<1>6. c \in RunnerType
  BY <1>2, <1>3, <1>4, <1>5 DEF RunnerType, Partial
<1>7. /\ c.at = runner[r].at /\ c.inputs = runner[r].inputs /\ c.actions = runner[r].actions
      /\ Seen(c.unread) = Seen(runner[r].unread) \cup {f}
      /\ c.hashes[f] = Version(f)
      /\ \A g \in Inputs: g # f => c.hashes[g] = runner[r].hashes[g]
  BY <1>2, <1>3, <1>4 DEF RunnerType, Partial
<1>8. Seen(runner[r].unread) \subseteq Inputs
  BY DEF Seen, Inputs
<1>9. RunOK(c)
  <2> HIDE DEF c, f
  <2>1. ASSUME c.at \in {"inputs", "again"}, NEW g \in Seen(c.unread)
        PROVE  c.hashes[g] \in Nat /\ c.hashes[g] <= Version(g)
    BY <1>2, <1>5, <1>7, <1>8, <2>1 DEF RunOK
  <2>2. ASSUME c.at = "again", NEW v \in Variants, NEW g \in Seen(c.unread)
        PROVE  c.actions[v][g] <= c.hashes[g]
    BY <1>2, <1>4, <1>7, <1>8, <2>2 DEF RunOK, NoNewer
  <2> QED BY <1>2, <1>7, <2>1, <2>2 DEF RunOK
<1>10. c.at = "waiting" \/ runner[r].at # "waiting"
  BY <1>7
<1>11. FloorMeasured' /\ manifest' \in Partial \cup {None}
  BY <1>1 DEF FloorInv, FloorTypes, FloorMeasured
<1> HIDE DEF c
<1> QED BY <1>1, <1>6, <1>9, <1>10, <1>11, RunKeeps

\* An exception ends a run that has no worker.
LEMMA RaiseKeeps ==
    ASSUME FloorInv, NEW r \in Runners, RunRaises(r), runner[r].at # "waiting", UNCHANGED worldVars
    PROVE  FloorInv'
<1>1. /\ runner' = [runner EXCEPT ![r] = Resting]
      /\ UNCHANGED <<manifest, variant, floor, workers, export, tokenizer, clock>>
  BY DEF RunRaises, Runs, floorFiles, worldVars
<1>2. FloorMeasured' /\ manifest' \in Partial \cup {None}
  BY <1>1 DEF FloorInv, FloorTypes, FloorMeasured
<1> QED BY <1>1, <1>2, RestingOK, RunKeeps

LEMMA StartFloorKeeps ==
    ASSUME FloorInv, NEW r \in Runners, StartFloor(r), UNCHANGED worldVars
    PROVE  FloorInv'
<1>1. PICK assembles \in BOOLEAN:
         /\ assembles => manifest # None
         /\ Runs(r, "idle", [Hashing(r) EXCEPT !.at = "inputs", !.assembles = assembles,
                                !.inputs = IF assembles THEN manifest ELSE NotRead])
  BY DEF StartFloor
<1> DEFINE c == [Hashing(r) EXCEPT !.at = "inputs", !.assembles = assembles,
                                   !.inputs = IF assembles THEN manifest ELSE NotRead]
<1>2. /\ runner[r].at = "idle" /\ runner' = [runner EXCEPT ![r] = c]
      /\ UNCHANGED <<manifest, variant, floor, workers, export, tokenizer, clock>>
  BY <1>1 DEF StartFloor, Runs, floorFiles, worldVars
<1>3. NotRead \in Partial
  BY DEF NotRead, Partial
<1>4. Hashing(r) \in RunnerType /\ Hashing(r).unread = InOrder
  BY <1>3, SeenEnds DEF Hashing, FloorInv, FloorTypes, RunnerType, Stages
<1>5. c \in RunnerType /\ c.at = "inputs" /\ c.unread = InOrder
  BY <1>1, <1>3, <1>4 DEF RunnerType, FloorInv, FloorTypes, Stages
<1> HIDE DEF c
<1>6. RunOK(c)
  <2>1. c.actions = NoActions
    BY <1>2 DEF c, Hashing, FloorInv, FloorTypes, RunnerType, RunOK
  <2> QED BY <1>5, <2>1, SeenEnds DEF RunOK
<1>7. FloorMeasured' /\ manifest' \in Partial \cup {None}
  BY <1>2 DEF FloorInv, FloorTypes, FloorMeasured
<1> QED BY <1>2, <1>5, <1>6, <1>7, RunKeeps

LEMMA InputsHashedKeeps ==
    ASSUME FloorInv, NEW r \in Runners, InputsHashed(r), UNCHANGED worldVars
    PROVE  FloorInv'
<1>1. CASE RunRaises(r)
  BY <1>1, RaiseKeeps DEF InputsHashed
<1>2. CASE ~(runner[r].assembles /\ runner[r].hashes # runner[r].inputs)
  <2> DEFINE c == [runner[r] EXCEPT !.at = "variants", !.inputs = runner[r].hashes]
  <2>1. /\ runner[r].at = "inputs" /\ runner[r].unread = << >>
        /\ runner' = [runner EXCEPT ![r] = c]
        /\ manifest' = manifest \/ manifest' = runner[r].hashes
        /\ UNCHANGED <<variant, floor, workers, export, tokenizer, clock>>
    BY <1>2 DEF InputsHashed, Runs, worldVars
  <2>2. runner[r] \in RunnerType /\ RunOK(runner[r])
    BY DEF FloorInv, FloorTypes
  <2>3. runner[r].hashes \in Digests /\ NoNewer(runner[r].hashes) /\ runner[r].hashes \in Partial
    BY <2>1, <2>2, SeenEnds DEF RunOK, RunnerType, Partial, Digests, NoNewer
  <2>4. c \in RunnerType
    BY <2>2, <2>3 DEF RunnerType, Stages
  <2>5. c.at = "variants" /\ c.inputs = runner[r].hashes /\ c.actions = NoActions
    BY <2>1, <2>2 DEF RunnerType, RunOK
  <2> HIDE DEF c
  <2>6. RunOK(c)
    BY <2>3, <2>5 DEF RunOK, NoActions
  <2>7. FloorMeasured' /\ manifest' \in Partial \cup {None}
    BY <2>1, <2>3 DEF FloorInv, FloorTypes, FloorMeasured
  <2> QED BY <2>1, <2>4, <2>6, <2>7, RunKeeps
<1> QED BY <1>1, <1>2 DEF InputsHashed

LEMMA StartWorkerKeeps ==
    ASSUME FloorInv, NEW r \in Runners, NEW v \in Variants, StartWorker(r, v), UNCHANGED worldVars
    PROVE  FloorInv'
<1>0. runner[r].at = "variants"
  BY DEF StartWorker
<1>1. CASE RunRaises(r)
  BY <1>0, <1>1, RaiseKeeps
<1>2. CASE ~runner[r].assembles
  <2> DEFINE c == [runner[r] EXCEPT !.at = "waiting"]
             w == [variant |-> v, label |-> runner[r].inputs, unread |-> InOrder,
                   read |-> NotRead, run |-> r]
  <2>1. /\ runner' = [runner EXCEPT ![r] = c] /\ workers' = workers \cup {w}
        /\ UNCHANGED <<manifest, variant, floor, export, tokenizer, clock>>
    BY <1>2 DEF StartWorker, Runs, floorFiles, worldVars
  <2>2. runner[r] \in RunnerType /\ RunOK(runner[r])
    BY DEF FloorInv, FloorTypes
  <2>3. runner[r].inputs \in Digests /\ NoNewer(runner[r].inputs)
    BY <1>0, <2>2 DEF RunOK
  <2>4. c \in RunnerType /\ c.at = "waiting" /\ c.inputs = runner[r].inputs /\ c.actions = runner[r].actions
    BY <2>2 DEF RunnerType, Stages
  <2>5. w \in WorkerType /\ w.run = r /\ w.unread = InOrder /\ w.label = runner[r].inputs
    <3>1. NotRead \in Partial
      BY DEF NotRead, Partial
    <3> QED BY <2>3, <3>1, SeenEnds DEF WorkerType
  <2> HIDE DEF c, w
  <2>6. RunOK(c)
    BY <1>0, <2>2, <2>4 DEF RunOK
  <2>7. WorkerOK(w)
    BY <2>3, <2>5, SeenEnds DEF WorkerOK
  <2>8. FloorTypes'
    BY <2>1, <2>4, <2>5 DEF FloorInv, FloorTypes
  <2>9. \A f: Version(f)' = Version(f)
    BY <2>1 DEF Version
  <2>10. \A q \in Runners: RunOK(runner'[q])
    BY <2>1, <2>6 DEF FloorInv, FloorTypes
  <2>11. \A q \in Runners: RunOK(runner[q])'
    BY <2>9, <2>10 DEF RunOK, NoNewer
  <2>12. \A x \in workers': WorkerOK(x)
    BY <2>1, <2>7 DEF FloorInv
  <2>13. \A x \in workers': WorkerOK(x)'
    BY <2>9, <2>12 DEF WorkerOK, NoNewer
  <2>14. \A u \in Variants: VariantOK(variant[u])'
    BY <2>1, <2>9 DEF FloorInv, VariantOK, NoNewer
  <2>15. OneWorker'
    <3> SUFFICES ASSUME NEW x \in workers', x.run # None
                 PROVE  runner'[x.run].at = "waiting" /\ \A y \in workers': y.run = x.run => y = x
      BY DEF OneWorker
    <3>1. \A y \in workers: y.run # r \/ r = None
      BY <1>0 DEF FloorInv, OneWorker
    <3>2. CASE x = w
      BY <2>1, <2>4, <2>5, <3>1, <3>2 DEF FloorInv, FloorTypes
    <3>3. CASE x \in workers
      <4>1. x.run \in Runners /\ runner[x.run].at = "waiting" /\ \A y \in workers: y.run = x.run => y = x
        BY <3>3 DEF FloorInv, FloorTypes, WorkerType, OneWorker
      <4>2. x.run # r
        BY <1>0, <4>1
      <4> QED BY <2>1, <2>5, <4>1, <4>2 DEF FloorInv, FloorTypes
    <3> QED BY <2>1, <3>2, <3>3
  <2>16. FloorMeasured'
    BY <2>1 DEF FloorInv, FloorMeasured
  <2> QED BY <2>8, <2>11, <2>13, <2>14, <2>15, <2>16 DEF FloorInv
<1> QED BY <1>1, <1>2 DEF StartWorker

LEMMA ReadVariantKeeps ==
    ASSUME FloorInv, NEW r \in Runners, NEW v \in Variants, ReadVariant(r, v), UNCHANGED worldVars
    PROVE  FloorInv'
<1>0. runner[r].at = "variants" /\ variant[v] # None
  BY DEF ReadVariant
<1>1. CASE RunRaises(r)
  BY <1>0, <1>1, RaiseKeeps
<1>2. CASE variant[v].label = runner[r].inputs
  <2> DEFINE c == [runner[r] EXCEPT !.actions[v] = variant[v].of]
  <2>1. /\ runner' = [runner EXCEPT ![r] = c]
        /\ UNCHANGED <<manifest, variant, floor, workers, export, tokenizer, clock>>
    BY <1>2 DEF ReadVariant, Runs, floorFiles, worldVars
  <2>2. runner[r] \in RunnerType /\ RunOK(runner[r])
    BY DEF FloorInv, FloorTypes
  <2>3. variant[v] \in [label: Digests, of: Digests] /\ VariantOK(variant[v])
    BY <1>0 DEF FloorInv, FloorTypes
  <2>4. /\ variant[v].of \in Digests /\ variant[v].of \in Partial
        /\ AtMost(runner[r].inputs, variant[v].of) /\ NoNewer(variant[v].of)
    BY <1>0, <1>2, <2>3 DEF VariantOK, Digests, Partial
  <2>5. /\ c \in RunnerType /\ c.at = "variants" /\ c.inputs = runner[r].inputs
        /\ c.actions = [runner[r].actions EXCEPT ![v] = variant[v].of]
    BY <1>0, <2>2, <2>4 DEF RunnerType
  <2>6. \A u \in Variants: c.actions[u] = IF u = v THEN variant[v].of ELSE runner[r].actions[u]
    BY <2>2, <2>5 DEF RunnerType
  <2> HIDE DEF c
  <2>7. RunOK(c)
    BY <1>0, <2>2, <2>4, <2>5, <2>6 DEF RunOK
  <2>8. FloorMeasured' /\ manifest' \in Partial \cup {None}
    BY <2>1 DEF FloorInv, FloorTypes, FloorMeasured
  <2> QED BY <1>0, <2>1, <2>5, <2>7, <2>8, RunKeeps
<1> QED BY <1>1, <1>2 DEF ReadVariant

LEMMA HashAgainKeeps ==
    ASSUME FloorInv, NEW r \in Runners, HashAgain(r), UNCHANGED worldVars
    PROVE  FloorInv'
<1> DEFINE c == [Hashing(r) EXCEPT !.at = "again"]
<1>1. /\ runner[r].at = "variants" /\ runner' = [runner EXCEPT ![r] = c]
      /\ \A v \in Variants: runner[r].actions[v] # None
      /\ UNCHANGED <<manifest, variant, floor, workers, export, tokenizer, clock>>
  BY DEF HashAgain, Runs, floorFiles, worldVars
<1>2. runner[r] \in RunnerType /\ RunOK(runner[r])
  BY DEF FloorInv, FloorTypes
<1>3. NotRead \in Partial
  BY DEF NotRead, Partial
<1>4. /\ c \in RunnerType /\ c.at = "again" /\ c.unread = InOrder
      /\ c.inputs = runner[r].inputs /\ c.actions = runner[r].actions
  BY <1>2, <1>3, SeenEnds DEF Hashing, RunnerType, Stages
<1> HIDE DEF c
<1>5. RunOK(c)
  BY <1>1, <1>2, <1>4, SeenEnds DEF RunOK
<1>6. FloorMeasured' /\ manifest' \in Partial \cup {None}
  BY <1>1 DEF FloorInv, FloorTypes, FloorMeasured
<1> QED BY <1>1, <1>4, <1>5, <1>6, RunKeeps

\* The digests are the same as before: what was read in between is theirs.
LEMMA AssembleKeeps ==
    ASSUME FloorInv, NEW r \in Runners, Assemble(r), UNCHANGED worldVars
    PROVE  FloorInv'
<1>0. runner[r].at = "again" /\ runner[r].unread = << >>
  BY DEF Assemble
<1>1. CASE RunRaises(r)
  BY <1>0, <1>1, RaiseKeeps
<1>2. CASE runner[r].hashes = runner[r].inputs
  <2> DEFINE c == [runner[r] EXCEPT !.at = "write", !.created = clock]
  <2>1. /\ runner' = [runner EXCEPT ![r] = c]
        /\ UNCHANGED <<manifest, variant, floor, workers, export, tokenizer, clock>>
    BY <1>2 DEF Assemble, Runs, floorFiles, worldVars
  <2>2. runner[r] \in RunnerType /\ RunOK(runner[r])
    BY DEF FloorInv, FloorTypes
  <2>3. /\ c \in RunnerType /\ c.at = "write"
        /\ c.inputs = runner[r].inputs /\ c.actions = runner[r].actions
    BY <2>2 DEF RunnerType, FloorInv, FloorTypes, Stages
  <2>4. ASSUME NEW v \in Variants PROVE runner[r].actions[v] = runner[r].inputs
    <3>1. /\ runner[r].actions[v] \in Digests /\ runner[r].inputs \in Digests
          /\ AtMost(runner[r].inputs, runner[r].actions[v])
          /\ AtMost(runner[r].actions[v], runner[r].hashes)
      BY <1>0, <2>2, SeenEnds DEF RunOK, AtMost
    <3>2. \A f \in Inputs: runner[r].actions[v][f] = runner[r].inputs[f]
      BY <1>2, <3>1 DEF AtMost, Digests
    <3> QED BY <3>1, <3>2 DEF Digests
  <2> HIDE DEF c
  <2>5. RunOK(c)
    BY <2>3, <2>4 DEF RunOK
  <2>6. FloorMeasured' /\ manifest' \in Partial \cup {None}
    BY <2>1 DEF FloorInv, FloorTypes, FloorMeasured
  <2> QED BY <1>0, <2>1, <2>3, <2>5, <2>6, RunKeeps
<1> QED BY <1>1, <1>2 DEF Assemble

LEMMA WriteFloorKeeps ==
    ASSUME FloorInv, NEW r \in Runners, WriteFloor(r), UNCHANGED worldVars
    PROVE  FloorInv'
<1>1. /\ runner[r].at = "write" /\ runner' = [runner EXCEPT ![r] = Resting]
      /\ UNCHANGED <<manifest, variant, workers, export, tokenizer, clock>>
  BY DEF WriteFloor, Runs, worldVars
<1>2. floor'.document.actions = runner[r].actions /\ floor'.document.inputs = runner[r].inputs
  BY DEF WriteFloor
<1>3. \A v \in Variants: runner[r].actions[v] = runner[r].inputs
  BY <1>1 DEF FloorInv, RunOK
<1>4. FloorMeasured' /\ manifest' \in Partial \cup {None}
  BY <1>1, <1>2, <1>3 DEF FloorInv, FloorTypes, FloorMeasured
<1> QED BY <1>1, <1>4, RestingOK, RunKeeps

-----------------------------------------------------------------------------
\* The workers, and the kill that separates a worker from its run.

LEMMA ReadByWorkerKeeps ==
    ASSUME FloorInv, NEW w \in workers, ReadByWorker(w), UNCHANGED worldVars
    PROVE  FloorInv'
<1> DEFINE f == Head(w.unread)
           n == [w EXCEPT !.unread = Tail(@), !.read[f] = Version(f)]
<1>1. /\ w.unread # << >> /\ workers' = (workers \ {w}) \cup {n}
      /\ UNCHANGED <<manifest, variant, floor, runner, export, tokenizer, clock>>
  BY DEF ReadByWorker, floorFiles, worldVars
<1>2. w \in WorkerType /\ WorkerOK(w)
  BY DEF FloorInv, FloorTypes
<1>3. w.unread \in Unreads /\ w.read \in Partial /\ w.label \in Digests
  BY <1>2 DEF WorkerType
<1>4. /\ f \in Inputs /\ Tail(w.unread) \in Unreads
      /\ Seen(Tail(w.unread)) = Seen(w.unread) \cup {f}
  BY <1>1, <1>3, SeenGrows
<1>5. Version(f) \in Nat
  BY <1>4, VersionIsNat DEF FloorInv
<1>6. n \in WorkerType
  BY <1>2, <1>3, <1>4, <1>5 DEF WorkerType, Partial
<1>7. /\ n.label = w.label /\ n.run = w.run
      /\ Seen(n.unread) = Seen(w.unread) \cup {f}
      /\ n.read[f] = Version(f)
      /\ \A g \in Inputs: g # f => n.read[g] = w.read[g]
  BY <1>2, <1>3, <1>4 DEF WorkerType, Partial
<1>8. Seen(w.unread) \subseteq Inputs
  BY DEF Seen, Inputs
<1>9. \A g: Version(g)' = Version(g)
  BY <1>1 DEF Version
<1> HIDE DEF n, f
<1>10. WorkerOK(n)
  BY <1>2, <1>3, <1>4, <1>5, <1>7, <1>8 DEF WorkerOK, NoNewer, Digests
<1>11. FloorTypes' /\ FloorMeasured'
  BY <1>1, <1>6 DEF FloorInv, FloorTypes, FloorMeasured
<1>12. \A q \in Runners: RunOK(runner[q])'
  BY <1>1, <1>9 DEF FloorInv, RunOK, NoNewer
<1>13. \A x \in workers': WorkerOK(x)
  BY <1>1, <1>10 DEF FloorInv
<1>14. \A x \in workers': WorkerOK(x)'
  BY <1>9, <1>13 DEF WorkerOK, NoNewer
<1>15. \A v \in Variants: VariantOK(variant[v])'
  BY <1>1, <1>9 DEF FloorInv, VariantOK, NoNewer
<1>16. OneWorker'
  BY <1>1, <1>7 DEF FloorInv, OneWorker
<1> QED BY <1>11, <1>12, <1>14, <1>15, <1>16 DEF FloorInv

LEMMA EndWorkerKeeps ==
    ASSUME FloorInv, NEW w \in workers, EndWorker(w), UNCHANGED worldVars
    PROVE  FloorInv'
<1> DEFINE a == [label |-> w.label, of |-> w.read]
<1>1. /\ w.unread = << >> /\ workers' = workers \ {w}
      /\ variant' = variant \/ variant' = [variant EXCEPT ![w.variant] = a]
      /\ UNCHANGED <<manifest, floor, export, tokenizer, clock>>
  BY DEF EndWorker, worldVars
<1>2. w \in WorkerType /\ WorkerOK(w)
  BY DEF FloorInv, FloorTypes
<1>3. w.label \in Digests /\ w.read \in Partial /\ w.variant \in Variants /\ w.run \in Runners \cup {None}
  BY <1>2 DEF WorkerType
<1>4. w.read \in Digests /\ AtMost(w.label, w.read) /\ NoNewer(w.read)
  BY <1>1, <1>2, <1>3, SeenEnds DEF WorkerOK, Partial, Digests, AtMost, NoNewer
<1>5. a \in [label: Digests, of: Digests] /\ VariantOK(a)
  BY <1>3, <1>4 DEF VariantOK
<1> HIDE DEF a
<1>6. \A f: Version(f)' = Version(f)
  BY <1>1 DEF Version
<1>7. /\ variant' \in [Variants -> [label: Digests, of: Digests] \cup {None}]
      /\ \A v \in Variants: VariantOK(variant'[v])
  BY <1>1, <1>3, <1>5 DEF FloorInv, FloorTypes
<1>8. \A v \in Variants: VariantOK(variant[v])'
  BY <1>6, <1>7 DEF VariantOK, NoNewer
<1>9. /\ runner' \in [Runners -> RunnerType]
      /\ \A q \in Runners: RunOK(runner'[q]) /\ (q # w.run \/ w.run = None => runner'[q] = runner[q])
  <2>1. CASE w.run = None
    BY <2>1 DEF EndWorker, FloorInv, FloorTypes
  <2>2. CASE w.run # None
    <3> DEFINE r == w.run
               c == [runner[r] EXCEPT !.at = "variants"]
    <3>1. r \in Runners /\ runner[r].at = "waiting"
      BY <1>3, <2>2 DEF FloorInv, OneWorker
    <3>2. runner' = [runner EXCEPT ![r] = c] \/ runner' = [runner EXCEPT ![r] = Resting]
      BY <2>2, <3>1 DEF EndWorker, FloorInv, FloorTypes
    <3>3. runner[r] \in RunnerType /\ RunOK(runner[r])
      BY <3>1 DEF FloorInv, FloorTypes
    <3>4. /\ c \in RunnerType /\ c.at = "variants"
          /\ c.inputs = runner[r].inputs /\ c.actions = runner[r].actions
      BY <3>3 DEF RunnerType, Stages
    <3> HIDE DEF c
    <3>5. RunOK(c)
      BY <3>1, <3>3, <3>4 DEF RunOK
    <3> QED BY <2>2, <3>1, <3>2, <3>4, <3>5, RestingOK DEF FloorInv, FloorTypes
  <2> QED BY <2>1, <2>2
<1>10. \A q \in Runners: RunOK(runner[q])'
  BY <1>6, <1>9 DEF RunOK, NoNewer
<1>11. \A x \in workers': WorkerOK(x)'
  BY <1>1, <1>6 DEF FloorInv, WorkerOK, NoNewer
<1>12. FloorTypes' /\ FloorMeasured'
  BY <1>1, <1>7, <1>9 DEF FloorInv, FloorTypes, FloorMeasured
<1>13. OneWorker'
  <2> SUFFICES ASSUME NEW x \in workers', x.run # None
               PROVE  runner'[x.run].at = "waiting" /\ \A y \in workers': y.run = x.run => y = x
    BY DEF OneWorker
  <2>1. x \in workers /\ x # w /\ x.run \in Runners
    BY <1>1 DEF FloorInv, FloorTypes, WorkerType
  <2>2. runner[x.run].at = "waiting" /\ \A y \in workers: y.run = x.run => y = x
    BY <2>1 DEF FloorInv, OneWorker
  <2>3. x.run # w.run
    BY <2>1, <2>2
  <2> QED BY <1>1, <1>9, <2>1, <2>2, <2>3
<1> QED BY <1>8, <1>10, <1>11, <1>12, <1>13 DEF FloorInv

LEMMA KillRunKeeps ==
    ASSUME FloorInv, NEW r \in Runners, KillRun(r), UNCHANGED <<export, tokenizer, clock>>
    PROVE  FloorInv'
<1> DEFINE left(w) == [w EXCEPT !.run = IF w.run = r THEN None ELSE w.run]
<1>1. /\ runner' = [runner EXCEPT ![r] = Resting]
      /\ workers' = {left(w): w \in workers}
      /\ UNCHANGED <<manifest, variant, floor, export, tokenizer, clock>>
  BY DEF KillRun, Runs, floorFiles
<1>2. ASSUME NEW w \in workers
      PROVE  /\ left(w) \in WorkerType /\ WorkerOK(left(w))
             /\ left(w).run # None => left(w) = w /\ w.run # r
  <2>1. w \in WorkerType /\ WorkerOK(w)
    BY DEF FloorInv, FloorTypes
  <2>2. /\ left(w) \in WorkerType
        /\ left(w).label = w.label /\ left(w).unread = w.unread /\ left(w).read = w.read
        /\ left(w).run = IF w.run = r THEN None ELSE w.run
    BY <2>1 DEF WorkerType
  <2>3. left(w).run # None => left(w) = w /\ w.run # r
    BY <2>1, <2>2 DEF WorkerType
  <2>4. WorkerOK(left(w))
    BY <2>1, <2>2 DEF WorkerOK
  <2> QED BY <2>2, <2>3, <2>4
<1> HIDE DEF left
<1>3. \A f: Version(f)' = Version(f)
  BY <1>1 DEF Version
<1>4. FloorTypes' /\ FloorMeasured'
  BY <1>1, <1>2, RestingOK DEF FloorInv, FloorTypes, FloorMeasured
<1>5. \A q \in Runners: RunOK(runner'[q])
  BY <1>1, RestingOK DEF FloorInv, FloorTypes
<1>6. \A q \in Runners: RunOK(runner[q])'
  BY <1>3, <1>5 DEF RunOK, NoNewer
<1>7. \A w \in workers': WorkerOK(w)'
  BY <1>1, <1>2, <1>3 DEF WorkerOK, NoNewer
<1>8. \A v \in Variants: VariantOK(variant[v])'
  BY <1>1, <1>3 DEF FloorInv, VariantOK, NoNewer
<1>9. OneWorker'
  <2> SUFFICES ASSUME NEW x \in workers', x.run # None
               PROVE  runner'[x.run].at = "waiting" /\ \A y \in workers': y.run = x.run => y = x
    BY DEF OneWorker
  <2>1. x \in workers /\ x.run # r /\ x.run \in Runners
    BY <1>1, <1>2 DEF FloorInv, FloorTypes, WorkerType
  <2>2. \A y \in workers': y.run = x.run => y \in workers
    BY <1>1, <1>2
  <2> QED BY <1>1, <2>1, <2>2 DEF FloorInv, FloorTypes, OneWorker
<1> QED BY <1>4, <1>6, <1>7, <1>8, <1>9 DEF FloorInv
-----------------------------------------------------------------------------
LEMMA FloorInitial == Init => FloorInv
<1> SUFFICES ASSUME Init PROVE FloorInv
  OBVIOUS
<1>1. /\ export \in Nat /\ tokenizer = 0 /\ clock = 0 /\ manifest = None /\ floor = None
      /\ variant = NoActions /\ runner = [r \in Runners |-> Resting] /\ workers = {}
  BY ScorerAssumption DEF Init, FloorInit
<1>2. FloorTypes
  BY <1>1, RestingOK DEF FloorTypes, NoActions
<1>3. \A v \in Variants: VariantOK(variant[v])
  BY <1>1 DEF VariantOK, NoActions
<1>4. OneWorker /\ FloorMeasured
  BY <1>1 DEF OneWorker, FloorMeasured
<1>5. \A r \in Runners: RunOK(runner[r])
  BY <1>1, RestingOK
<1> QED BY <1>1, <1>2, <1>3, <1>4, <1>5 DEF FloorInv

LEMMA FloorRunsKeeps == FloorInv /\ FloorRuns => FloorInv'
<1> SUFFICES ASSUME FloorInv, FloorRuns PROVE FloorInv'
  OBVIOUS
<1>1. UNCHANGED worldVars /\ ((\E r \in Runners: FloorRun(r)) \/ Worker)
  BY DEF FloorRuns
<1>2. ASSUME NEW r \in Runners, FloorRun(r) PROVE FloorInv'
  BY <1>1, <1>2, StartFloorKeeps, HashInputKeeps, InputsHashedKeeps, StartWorkerKeeps, ReadVariantKeeps,
     HashAgainKeeps, AssembleKeeps, WriteFloorKeeps DEF FloorRun
<1>3. ASSUME Worker PROVE FloorInv'
  BY <1>1, <1>3, ReadByWorkerKeeps, EndWorkerKeeps DEF Worker
<1> QED BY <1>1, <1>2, <1>3

LEMMA ScoreLeavesFloor == Score => UNCHANGED <<floorVars, worldVars>>
<1>1. ASSUME NEW from, NEW to, ScoreStep(from, to) PROVE UNCHANGED <<floorVars, worldVars>>
  BY <1>1 DEF ScoreStep
<1>2. ASSUME ScoringRaises PROVE UNCHANGED <<floorVars, worldVars>>
  BY <1>2 DEF ScoringRaises
<1>3. ASSUME NEW condition, NEW from, NEW to, ScoreOr(condition, from, to)
      PROVE  UNCHANGED <<floorVars, worldVars>>
  BY <1>1, <1>2, <1>3 DEF ScoreOr
<1> QED BY <1>1, <1>2, <1>3
        DEF Score, StartScoring, BeginScoring, HashForScoring, BoundToFloor, ExportIsOfRun, FirstLoaded,
            ScoreNative, ScoreTorch, SecondLoaded, WriteOutcome, StampComparison, LookAgain,
            InstallComparison, ScoringFails

LEMMA FloorKept == FloorInv /\ [Next]_vars => FloorInv'
<1> SUFFICES ASSUME FloorInv, [Next]_vars PROVE FloorInv'
  OBVIOUS
<1>0. export \in Nat /\ tokenizer \in Nat /\ clock \in Nat
  BY DEF FloorInv, FloorTypes
<1> DEFINE Aside == /\ UNCHANGED floorVars /\ clock' \in Nat
                    /\ export' \in Nat /\ export <= export'
                    /\ tokenizer' \in Nat /\ tokenizer <= tokenizer'
<1>1. ASSUME Aside PROVE FloorInv'
  BY <1>1, AsideKeeps
<1>2. ASSUME UNCHANGED <<floorVars, worldVars>> PROVE Aside
  BY <1>0, <1>2 DEF worldVars
<1> HIDE DEF Aside
<1>3. CASE FloorRuns
  BY <1>3, FloorRunsKeeps
<1>4. CASE Mark
  BY <1>1, <1>2, <1>4 DEF Mark, ReadFloorForMarker, StampMarker, InstallMarker, MarkerStep
<1>5. CASE Score
  BY <1>1, <1>2, <1>5, ScoreLeavesFloor
<1>6. CASE Decide
  BY <1>1, <1>2, <1>6
  DEF Decide, StartJudging, ReadEvidence, Judge, Revalidate, InstallVerdict, JudgeStep
<1>7. CASE Loads \/ Checks
  BY <1>1, <1>2, <1>7 DEF Loads, Checks
<1>8. CASE Kill
  <2>1. UNCHANGED <<export, tokenizer, clock>>
    BY <1>8 DEF Kill
  <2>2. (\E r \in Runners: KillRun(r)) \/ UNCHANGED floorVars
    BY <1>8 DEF Kill
  <2>3. ASSUME UNCHANGED floorVars PROVE FloorInv'
    BY <1>0, <1>1, <2>1, <2>3 DEF Aside
  <2> QED BY <2>1, <2>2, <2>3, KillRunKeeps
<1>9. CASE ReplaceInput
  BY <1>0, <1>1, <1>9 DEF ReplaceInput, Aside
<1>10. CASE Tick \/ SetBack
  <2>1. UNCHANGED <<floorVars, export, tokenizer>>
    BY <1>10 DEF Tick, SetBack
  <2>2. clock' \in Nat
    <3>1. clock' = clock + 1 \/ (clock > 0 /\ clock' = clock - 1)
      BY <1>10, Zenon DEF Tick, SetBack
    <3> QED BY <1>0, <3>1
  <2>3. Aside
    BY <1>0, <2>1, <2>2 DEF Aside
  <2> QED BY <1>1, <2>3
<1>11. CASE UNCHANGED vars
  BY <1>1, <1>2, <1>11 DEF vars
<1> QED BY <1>3, <1>4, <1>5, <1>6, <1>7, <1>8, <1>9, <1>10, <1>11 DEF Next

\* The actions a floor report is of were computed from the inputs it names: no
\* reuse of an earlier run's artifacts, no orphaned worker, no other run in the
\* same directory and no replacement of an input in between mixes two inputs.
THEOREM FloorIsMeasured == Spec => []FloorMeasured
<1>1. FloorInv => FloorMeasured
  BY DEF FloorInv
<1> QED BY <1>1, FloorInitial, FloorKept, PTL DEF Spec
-----------------------------------------------------------------------------
(* From the floor a comparison starts with to the verdict                   *)

\* the fields that are there
ScoringShape ==
    scoring = [at |-> scoring.at, floor |-> scoring.floor, marker |-> scoring.marker,
               unread |-> scoring.unread, hashes |-> scoring.hashes, native |-> scoring.native,
               read |-> scoring.read, mlx |-> scoring.mlx, again |-> scoring.again,
               under |-> scoring.under, created |-> scoring.created]

JudgingShape ==
    judging = [at |-> judging.at, floor |-> judging.floor, unread |-> judging.unread,
               found |-> judging.found, created |-> judging.created]

\* What was read of the inputs was read after they were found to be the floor's.
Within(inputs, read) ==
    \A pair \in read: /\ pair[1] \in Inputs /\ pair[2] \in Nat
                      /\ inputs[pair[1]] <= pair[2] /\ pair[2] <= Version(pair[1])

Bound(inputs) == inputs \in Digests /\ NoNewer(inputs)

Scored == {"torch", "second load", "second check", "last check", "stamped"}
Reading == {"first check", "install"} \cup Scored

ScoringOK ==
    /\ scoring.at = "begun" => scoring.hashes = NotRead
    /\ scoring.at = "hash" =>
          /\ scoring.unread \in Unreads /\ scoring.hashes \in Partial
          /\ \A f \in Seen(scoring.unread): scoring.hashes[f] \in Nat /\ scoring.hashes[f] <= Version(f)
    /\ scoring.at \in {"export", "first load"} \cup Reading => Bound(scoring.floor.document.inputs)
    /\ scoring.at \in {"begun", "hash", "export", "first load"} => scoring.read = {}
    /\ scoring.at \in Reading => Within(scoring.floor.document.inputs, scoring.read)

ComparisonOK ==
    comparison # None => /\ Bound(comparison.floor.document.inputs)
                         /\ Within(comparison.floor.document.inputs, comparison.read)

\* the evidence a verdict has read so far
Judged == {"model", "map"} \cup Inputs
Rest == {Evidence, <<"map", "export", "tokenizer">>, InOrder, <<"tokenizer">>, << >>}
ReadOf(unread) ==
    IF unread = << >> THEN Inputs ELSE IF unread = <<"tokenizer">> THEN {"export"} ELSE {}

Measured(report) == \A v \in Variants: report.document.actions[v] = report.document.inputs

\* A verdict is about a comparison that is there and hashes the inputs once more,
\* after all that the comparison read: versions only grow, so that hashes which
\* are the floor's are those of everything that was read in between.
JudgingOK ==
    /\ judging.at \in {"read", "judged"} => comparison # None /\ Measured(judging.floor)
    /\ judging.at = "read" =>
          /\ judging.unread \in Rest
          /\ judging.found = [f \in Judged |-> judging.found[f]]
          /\ \A pair \in comparison.read: pair[1] \in ReadOf(judging.unread) =>
                judging.found[pair[1]] \in Nat /\ pair[2] <= judging.found[pair[1]]
    /\ judging.at = "judged" =>
          /\ judging.floor = comparison.floor
          /\ \A pair \in comparison.read: judging.floor.document.inputs[pair[1]] = pair[2]

VerdictOK == ComparedWhatFloorMeasured /\ (verdict # None => comparison # None)

EvidenceInv ==
    ScoringShape /\ JudgingShape /\ ScoringOK /\ ComparisonOK /\ JudgingOK /\ VerdictOK

\* A run starts only where there is no report, so each writes one at most: a
\* report that was in place comes back no more once another has its name.
Gone(report) ==
    /\ floor # None
    /\ report.by \in Runners /\ runner[report.by].at = "idle"
    /\ floor.by = report.by => floor = report

UnderInv ==
    /\ floor # None => Gone(floor)
    /\ scoring.at # "idle" => Gone(scoring.floor)
    /\ scoring.at \in Scored /\ floor = scoring.floor => scoring.under = floor
    /\ scoring.at = "install" => scoring.under = scoring.floor
    /\ comparison # None => comparison.under = comparison.floor
    /\ FloorFirst

-----------------------------------------------------------------------------
\* Versions do not get smaller.
Later ==
    /\ export \in Nat /\ tokenizer \in Nat /\ export' \in Nat /\ tokenizer' \in Nat
    /\ export <= export' /\ tokenizer <= tokenizer'

LEMMA VersionsGrow == FloorInv /\ [Next]_vars => Later
<1> SUFFICES ASSUME FloorInv, [Next]_vars PROVE Later
  OBVIOUS
<1>0. export \in Nat /\ tokenizer \in Nat
  BY DEF FloorInv, FloorTypes
<1>1. \/ UNCHANGED <<export, tokenizer>>
      \/ export' = export + 1 /\ tokenizer' = tokenizer
      \/ tokenizer' = tokenizer + 1 /\ export' = export
  <2>1. CASE FloorRuns \/ Mark \/ Decide
    BY <2>1 DEF FloorRuns, Mark, ReadFloorForMarker, StampMarker, InstallMarker, MarkerStep, Decide,
        StartJudging, ReadEvidence, Judge, Revalidate, InstallVerdict, JudgeStep, worldVars
  <2>2. CASE Score
    BY <2>2, ScoreLeavesFloor DEF worldVars
  <2>3. CASE Loads \/ Checks \/ Kill \/ Tick \/ SetBack \/ UNCHANGED vars
    BY <2>3 DEF Loads, Checks, Kill, Tick, SetBack, vars, worldVars
  <2>4. CASE ReplaceInput
    BY <2>4 DEF ReplaceInput
  <2> QED BY <2>1, <2>2, <2>3, <2>4 DEF Next
<1> QED BY <1>0, <1>1 DEF Later

LEMMA LaterVersions ==
    ASSUME Later, NEW f
    PROVE  Version(f) \in Nat /\ Version(f)' \in Nat /\ Version(f) <= Version(f)'
BY DEF Later, Version

LEMMA RestShrinks ==
    ASSUME NEW unread \in Rest, unread # << >>
    PROVE  /\ Tail(unread) \in Rest /\ Head(unread) \in Judged
           /\ ReadOf(Tail(unread)) \subseteq ReadOf(unread) \cup ({Head(unread)} \cap Inputs)
           /\ Head(unread) \notin ReadOf(unread)
<1> DEFINE e == <<"model", "map", "export", "tokenizer">>
           m == <<"map", "export", "tokenizer">>
           o == <<"export", "tokenizer">>
           t == <<"tokenizer">>
<1>1. /\ Head(e) = "model" /\ Tail(e) = m /\ Head(m) = "map" /\ Tail(m) = o
      /\ Head(o) = "export" /\ Tail(o) = t /\ Head(t) = "tokenizer" /\ Tail(t) = << >>
  OBVIOUS
<1>2. ReadOf(e) = {} /\ ReadOf(m) = {} /\ ReadOf(o) = {} /\ ReadOf(t) = {"export"}
  BY DEF ReadOf
<1>3. ReadOf(<< >>) = {"export", "tokenizer"}
  BY DEF ReadOf, Inputs
<1>4. Rest = {e, m, o, t, << >>}
  BY DEF Rest, Evidence, InOrder
<1> HIDE DEF e, m, o, t
<1> QED BY <1>1, <1>2, <1>3, <1>4 DEF Judged, Inputs

LEMMA RestEnds == Evidence \in Rest /\ ReadOf(Evidence) = {} /\ ReadOf(<< >>) = Inputs
BY DEF Rest, ReadOf, Evidence

-----------------------------------------------------------------------------
\* What no version was older than stays so.
LEMMA BoundLater ==
    ASSUME Later, NEW h, Bound(h)
    PROVE  h \in Digests /\ \A f \in Inputs: h[f] <= Version(f)'
<1>1. h \in Digests /\ NoNewer(h)
  BY DEF Bound
<1>2. ASSUME NEW f \in Inputs PROVE h[f] <= Version(f)'
  <2>1. h[f] \in Nat /\ h[f] <= Version(f)
    BY <1>1, <1>2 DEF NoNewer, Digests
  <2> QED BY <2>1, LaterVersions
<1> QED BY <1>1, <1>2

LEMMA WithinLater ==
    ASSUME Later, NEW inputs, NEW read, Within(inputs, read), NEW pair \in read
    PROVE  /\ pair[1] \in Inputs /\ pair[2] \in Nat
           /\ inputs[pair[1]] <= pair[2] /\ pair[2] <= Version(pair[1])'
<1>1. /\ pair[1] \in Inputs /\ pair[2] \in Nat
      /\ inputs[pair[1]] <= pair[2] /\ pair[2] <= Version(pair[1])
  BY DEF Within
<1>2. /\ Version(pair[1]) \in Nat /\ Version(pair[1])' \in Nat
      /\ Version(pair[1]) <= Version(pair[1])'
  BY LaterVersions
<1> QED BY <1>1, <1>2

\* What none of the commands does, the replacement of an input included.
LEMMA ElsewhereKeeps ==
    ASSUME EvidenceInv, Later, UNCHANGED <<scoring, judging, comparison, verdict>>
    PROVE  EvidenceInv'
<1>1. ScoringShape' /\ JudgingShape' /\ JudgingOK' /\ VerdictOK'
  BY DEF EvidenceInv, ScoringShape, JudgingShape, JudgingOK, VerdictOK, ComparedWhatFloorMeasured
<1>2. ScoringOK'
  <2>1. scoring.at = "hash" => scoring.hashes \in Partial /\ \A f \in Seen(scoring.unread): f \in Inputs
    BY DEF EvidenceInv, ScoringOK, Seen, Inputs
  <2>2. scoring.at = "hash" =>
           \A f \in Seen(scoring.unread): scoring.hashes[f] \in Nat /\ scoring.hashes[f] <= Version(f)'
    BY LaterVersions DEF EvidenceInv, ScoringOK
  <2>3. scoring.at \in {"export", "first load"} \cup Reading => Bound(scoring.floor.document.inputs)'
    BY BoundLater DEF EvidenceInv, ScoringOK, Bound, NoNewer
  <2>4. scoring.at \in Reading => Within(scoring.floor.document.inputs, scoring.read)'
    <3> SUFFICES ASSUME scoring.at \in Reading, NEW pair \in scoring.read
                 PROVE  /\ pair[1] \in Inputs /\ pair[2] \in Nat
                        /\ scoring.floor.document.inputs[pair[1]] <= pair[2]
                        /\ pair[2] <= Version(pair[1])'
      BY DEF Within
    <3>1. Within(scoring.floor.document.inputs, scoring.read)
      BY DEF EvidenceInv, ScoringOK
    <3> QED BY <3>1, WithinLater
  <2> QED BY <2>1, <2>2, <2>3, <2>4 DEF EvidenceInv, ScoringOK
<1>3. ComparisonOK'
  <2> SUFFICES ASSUME comparison # None
               PROVE  /\ Bound(comparison.floor.document.inputs)'
                      /\ Within(comparison.floor.document.inputs, comparison.read)'
    BY DEF ComparisonOK
  <2>1. /\ Bound(comparison.floor.document.inputs)
        /\ Within(comparison.floor.document.inputs, comparison.read)
    BY DEF EvidenceInv, ComparisonOK
  <2>2. Bound(comparison.floor.document.inputs)'
    BY <2>1, BoundLater DEF Bound, NoNewer
  <2>3. Within(comparison.floor.document.inputs, comparison.read)'
    <3> SUFFICES ASSUME NEW pair \in comparison.read
                 PROVE  /\ pair[1] \in Inputs /\ pair[2] \in Nat
                        /\ comparison.floor.document.inputs[pair[1]] <= pair[2]
                        /\ pair[2] <= Version(pair[1])'
      BY DEF Within
    <3> QED BY <2>1, WithinLater
  <2> QED BY <2>2, <2>3
<1> QED BY <1>1, <1>2, <1>3 DEF EvidenceInv

\* What the command that scores does before it installs a comparison.
LEMMA ScoringKeeps ==
    ASSUME EvidenceInv, UNCHANGED <<judging, comparison, verdict, export, tokenizer>>,
           ScoringShape', ScoringOK'
    PROVE  EvidenceInv'
<1>1. JudgingShape' /\ JudgingOK' /\ VerdictOK'
  BY DEF EvidenceInv, JudgingShape, JudgingOK, VerdictOK, ComparedWhatFloorMeasured
<1>2. ComparisonOK'
  BY DEF EvidenceInv, ComparisonOK, Bound, NoNewer, Within, Version
<1> QED BY <1>1, <1>2 DEF EvidenceInv

LEMMA NotScoringOK ==
    ASSUME EvidenceInv, UNCHANGED <<judging, comparison, verdict, export, tokenizer>>,
           scoring' = NotScoring
    PROVE  EvidenceInv'
<1>1. ScoringShape' /\ ScoringOK'
  BY DEF ScoringShape, ScoringOK, NotScoring, Scored, Reading
<1> QED BY <1>1, ScoringKeeps

\* The step of a command that goes on from one stage to another.
LEMMA ScoreOrCases ==
    ASSUME NEW condition \in BOOLEAN, NEW from, NEW to, ScoreOr(condition, from, to)
    PROVE  /\ scoring.at = from
           /\ UNCHANGED <<judging, artifacts, export, tokenizer, floorVars, marking>>
           /\ \/ condition /\ scoring' = to
              \/ scoring' = NotScoring
BY DEF ScoreOr, ScoreStep, ScoringRaises, worldVars

LEMMA ScoreKeeps ==
    ASSUME FloorInv, EvidenceInv, Score
    PROVE  EvidenceInv'
<1> USE DEF Scored, Reading
<1>0. ScoringShape /\ ScoringOK
  BY DEF EvidenceInv
<1>a. ASSUME NEW from, NEW to, ScoreStep(from, to)
      PROVE  /\ scoring.at = from /\ scoring' = to /\ UNCHANGED <<judging, export, tokenizer>>
  BY <1>a DEF ScoreStep, worldVars
<1>b. \A f \in Inputs: Version(f) \in Nat /\ Version(f)' = IF f = "export" THEN export' ELSE tokenizer'
  BY VersionIsNat DEF FloorInv, Version
<1>c. /\ Version("export") = export /\ Version("tokenizer") = tokenizer
      /\ "export" \in Inputs /\ "tokenizer" \in Inputs /\ export \in Nat /\ tokenizer \in Nat
  BY DEF Version, Inputs, FloorInv, FloorTypes
<1>1. CASE StartScoring
  <2>1. scoring' = [NotScoring EXCEPT !.at = "begun", !.floor = floor, !.marker = marker]
    BY <1>1, <1>a DEF StartScoring
  <2>2. UNCHANGED <<judging, comparison, verdict, export, tokenizer>>
    BY <1>1, <1>a DEF StartScoring, artifacts
  <2>3. ScoringShape' /\ ScoringOK'
    BY <2>1 DEF ScoringShape, ScoringOK, NotScoring
  <2> QED BY <2>2, <2>3, ScoringKeeps
<1>2. CASE BeginScoring
  <2>1. /\ scoring.at = "begun" /\ UNCHANGED <<judging, comparison, verdict, export, tokenizer>>
        /\ \/ scoring' = [scoring EXCEPT !.at = "hash", !.unread = InOrder]
           \/ scoring' = NotScoring
    BY <1>2, ScoreOrCases DEF BeginScoring, artifacts
  <2>2. CASE scoring' = [scoring EXCEPT !.at = "hash", !.unread = InOrder]
    <3>1. /\ scoring'.at = "hash" /\ scoring'.unread = InOrder /\ scoring'.hashes = NotRead /\ ScoringShape'
          /\ scoring'.read = {}
      BY <1>0, <2>1, <2>2 DEF ScoringShape, ScoringOK
    <3>2. ScoringOK'
      BY <3>1, SeenEnds DEF ScoringOK, NotRead, Partial
    <3> QED BY <2>1, <3>1, <3>2, ScoringKeeps
  <2> QED BY <2>1, <2>2, NotScoringOK
<1>3. CASE HashForScoring
  <2> DEFINE f == Head(scoring.unread)
  <2>1. /\ scoring.at = "hash" /\ scoring.unread # << >>
        /\ scoring' = [scoring EXCEPT !.unread = Tail(@), !.hashes[f] = Version(f)]
        /\ UNCHANGED <<judging, comparison, verdict, export, tokenizer>>
    BY <1>3, <1>a DEF HashForScoring, artifacts
  <2>2. /\ f \in Inputs /\ Tail(scoring.unread) \in Unreads
        /\ Seen(Tail(scoring.unread)) = Seen(scoring.unread) \cup {f}
    BY <1>0, <2>1, SeenGrows DEF ScoringOK
  <2> HIDE DEF f
  <2>3. /\ scoring'.at = "hash" /\ scoring'.unread = Tail(scoring.unread) /\ ScoringShape'
        /\ scoring'.hashes = [scoring.hashes EXCEPT ![f] = Version(f)]
        /\ scoring'.read = {}
    BY <1>0, <2>1 DEF ScoringShape, ScoringOK
  <2>4. scoring.hashes \in Partial /\ Version(f) \in Nat
    BY <1>0, <1>b, <2>1, <2>2 DEF ScoringOK
  <2>5. scoring'.hashes \in Partial /\ \A g \in Inputs: scoring'.hashes[g] = IF g = f THEN Version(f) ELSE scoring.hashes[g]
    BY <2>2, <2>3, <2>4 DEF Partial
  <2>6. \A g \in Seen(scoring.unread): g \in Inputs
    BY DEF Seen, Inputs
  <2>7. \A g: Version(g)' = Version(g)
    BY <2>1 DEF Version
  <2>8. \A g \in Seen(scoring'.unread): scoring'.hashes[g] \in Nat /\ scoring'.hashes[g] <= Version(g)'
    BY <1>0, <2>1, <2>2, <2>3, <2>4, <2>5, <2>6, <2>7 DEF ScoringOK
  <2>9. ScoringOK'
    BY <2>2, <2>3, <2>5, <2>8 DEF ScoringOK
  <2> QED BY <2>1, <2>3, <2>9, ScoringKeeps
<1>4. CASE BoundToFloor
  <2>1. /\ scoring.at = "hash" /\ scoring.unread = << >>
        /\ UNCHANGED <<judging, comparison, verdict, export, tokenizer>>
        /\ \/ /\ scoring.hashes = scoring.floor.document.inputs
              /\ scoring' = [scoring EXCEPT !.at = "export"]
           \/ scoring' = NotScoring
    BY <1>4, ScoreOrCases DEF BoundToFloor, artifacts
  <2>2. ASSUME scoring.hashes = scoring.floor.document.inputs, scoring' = [scoring EXCEPT !.at = "export"]
        PROVE  EvidenceInv'
    <3>1. scoring'.at = "export" /\ scoring'.floor = scoring.floor /\ ScoringShape' /\ scoring'.read = {}
      BY <1>0, <2>1, <2>2 DEF ScoringShape, ScoringOK
    <3>2. scoring.hashes \in Partial /\ \A f \in Inputs: scoring.hashes[f] \in Nat /\ scoring.hashes[f] <= Version(f)
      BY <1>0, <2>1, SeenEnds DEF ScoringOK
    <3>3. Bound(scoring.floor.document.inputs)
      BY <2>2, <3>2 DEF Bound, NoNewer, Digests, Partial
    <3>4. ScoringOK'
      BY <2>1, <3>1, <3>3 DEF ScoringOK, Bound, NoNewer, Version
    <3> QED BY <2>1, <3>1, <3>4, ScoringKeeps
  <2> QED BY <2>1, <2>2, NotScoringOK
<1>5. CASE ExportIsOfRun
  <2>1. /\ scoring.at = "export"
        /\ UNCHANGED <<judging, comparison, verdict, export, tokenizer>>
        /\ \/ scoring' = [scoring EXCEPT !.at = "first load"]
           \/ scoring' = NotScoring
    BY <1>5, ScoreOrCases DEF ExportIsOfRun, artifacts
  <2>2. ASSUME scoring' = [scoring EXCEPT !.at = "first load"] PROVE EvidenceInv'
    <3>1. scoring'.at = "first load" /\ scoring'.floor = scoring.floor /\ ScoringShape' /\ scoring'.read = {}
      BY <1>0, <2>1, <2>2 DEF ScoringShape, ScoringOK
    <3>2. ScoringOK'
      BY <1>0, <2>1, <3>1 DEF ScoringOK, Bound, NoNewer, Version
    <3> QED BY <2>1, <3>1, <3>2, ScoringKeeps
  <2> QED BY <2>1, <2>2, NotScoringOK
\* a read of an input, after the hashes
<1>d. ASSUME scoring.at \in {"export", "first load"} \cup Reading, UNCHANGED <<export, tokenizer>>,
             scoring'.floor = scoring.floor, ScoringShape', scoring'.at \in Reading,
             \A pair \in scoring'.read: \/ pair \in scoring.read
                                        \/ pair = <<"tokenizer", tokenizer>>
                                        \/ pair = <<"export", export>>
      PROVE  ScoringOK'
  <2>1. Bound(scoring.floor.document.inputs) /\ Bound(scoring.floor.document.inputs)'
    BY <1>0, <1>d DEF ScoringOK, Bound, NoNewer, Version
  <2>2. Within(scoring.floor.document.inputs, scoring.read)'
    <3> SUFFICES ASSUME NEW pair \in scoring'.read
                 PROVE  /\ pair[1] \in Inputs /\ pair[2] \in Nat
                        /\ scoring.floor.document.inputs[pair[1]] <= pair[2] /\ pair[2] <= Version(pair[1])
      BY <1>d DEF Within, Version
    <3>1. CASE pair \in scoring.read
      <4>1. scoring.at \in Reading
        BY <1>0, <1>d, <3>1 DEF ScoringOK
      <4> QED BY <1>0, <3>1, <4>1 DEF ScoringOK, Within
    <3>2. CASE pair = <<"tokenizer", tokenizer>> \/ pair = <<"export", export>>
      BY <1>c, <2>1, <3>2 DEF Bound, NoNewer
    <3> QED BY <1>d, <3>1, <3>2
  <2> QED BY <1>d, <2>1, <2>2 DEF ScoringOK
<1>6. CASE FirstLoaded
  <2>1. /\ scoring.at = "first load"
        /\ scoring' = [scoring EXCEPT !.at = "first check", !.mlx = loader[Scorer].weights]
        /\ UNCHANGED <<judging, comparison, verdict, export, tokenizer>>
    BY <1>6, <1>a DEF FirstLoaded, artifacts
  <2>2. /\ scoring'.at = "first check" /\ scoring'.floor = scoring.floor /\ ScoringShape'
        /\ scoring'.read = scoring.read
    BY <1>0, <2>1 DEF ScoringShape
  <2>3. ScoringOK'
    BY <1>d, <2>1, <2>2
  <2> QED BY <2>1, <2>2, <2>3, ScoringKeeps
<1>7. CASE ScoreNative
  <2>1. /\ scoring.at = "first check"
        /\ scoring' = [scoring EXCEPT !.at = "torch", !.native = Validated, !.under = floor]
        /\ UNCHANGED <<judging, comparison, verdict, export, tokenizer>>
    BY <1>7, <1>a DEF ScoreNative, artifacts
  <2>2. scoring'.at = "torch" /\ scoring'.floor = scoring.floor /\ ScoringShape' /\ scoring'.read = scoring.read
    BY <1>0, <2>1 DEF ScoringShape
  <2>3. ScoringOK'
    BY <1>d, <2>1, <2>2
  <2> QED BY <2>1, <2>2, <2>3, ScoringKeeps
<1>8. CASE ScoreTorch
  <2>1. /\ scoring.at = "torch"
        /\ scoring' = [scoring EXCEPT !.at = "second load",
                                      !.read = {<<"tokenizer", tokenizer>>, <<"export", export>>}]
        /\ UNCHANGED <<judging, comparison, verdict, export, tokenizer>>
    BY <1>8, <1>a DEF ScoreTorch, artifacts
  <2>2. /\ scoring'.at = "second load" /\ scoring'.floor = scoring.floor /\ ScoringShape'
        /\ scoring'.read = {<<"tokenizer", tokenizer>>, <<"export", export>>}
    BY <1>0, <2>1 DEF ScoringShape
  <2>3. ScoringOK'
    BY <1>d, <2>1, <2>2
  <2> QED BY <2>1, <2>2, <2>3, ScoringKeeps
<1>9. CASE SecondLoaded
  <2>1. /\ scoring.at = "second load"
        /\ scoring' = [scoring EXCEPT !.at = "second check", !.again = loader[Scorer].weights]
        /\ UNCHANGED <<judging, comparison, verdict, export, tokenizer>>
    BY <1>9, <1>a DEF SecondLoaded, artifacts
  <2>2. /\ scoring'.at = "second check" /\ scoring'.floor = scoring.floor /\ ScoringShape'
        /\ scoring'.read = scoring.read
    BY <1>0, <2>1 DEF ScoringShape
  <2>3. ScoringOK'
    BY <1>d, <2>1, <2>2
  <2> QED BY <2>1, <2>2, <2>3, ScoringKeeps
<1>10. CASE WriteOutcome
  <2>1. /\ scoring.at = "second check"
        /\ scoring' = [scoring EXCEPT !.at = "last check"] \/ scoring' = NotScoring
        /\ UNCHANGED <<judging, comparison, verdict, export, tokenizer>>
    BY <1>10, <1>a DEF WriteOutcome, ScoringRaises, artifacts, worldVars
  <2>2. ASSUME scoring' = [scoring EXCEPT !.at = "last check"] PROVE EvidenceInv'
    <3>1. /\ scoring'.at = "last check" /\ scoring'.floor = scoring.floor /\ ScoringShape'
          /\ scoring'.read = scoring.read
      BY <1>0, <2>2 DEF ScoringShape
    <3>2. ScoringOK'
      BY <1>d, <2>1, <3>1
    <3> QED BY <2>1, <3>1, <3>2, ScoringKeeps
  <2> QED BY <2>1, <2>2, NotScoringOK
<1>11. CASE StampComparison
  <2>1. /\ scoring.at = "last check"
        /\ \/ scoring' = [scoring EXCEPT !.at = "stamped", !.created = clock]
           \/ scoring' = NotScoring
        /\ UNCHANGED <<judging, comparison, verdict, export, tokenizer>>
    BY <1>11, ScoreOrCases DEF StampComparison, artifacts
  <2>2. ASSUME scoring' = [scoring EXCEPT !.at = "stamped", !.created = clock] PROVE EvidenceInv'
    <3>1. /\ scoring'.at = "stamped" /\ scoring'.floor = scoring.floor /\ ScoringShape'
          /\ scoring'.read = scoring.read
      BY <1>0, <2>2 DEF ScoringShape
    <3>2. ScoringOK'
      BY <1>d, <2>1, <3>1
    <3> QED BY <2>1, <3>1, <3>2, ScoringKeeps
  <2> QED BY <2>1, <2>2, NotScoringOK
<1>12. CASE LookAgain
  <2>1. /\ scoring.at = "stamped"
        /\ scoring' = [scoring EXCEPT !.at = "install"] \/ scoring' = NotScoring
        /\ UNCHANGED <<judging, comparison, verdict, export, tokenizer>>
    BY <1>12, ScoreOrCases DEF LookAgain, artifacts
  <2>2. ASSUME scoring' = [scoring EXCEPT !.at = "install"] PROVE EvidenceInv'
    <3>1. /\ scoring'.at = "install" /\ scoring'.floor = scoring.floor /\ ScoringShape'
          /\ scoring'.read = scoring.read
      BY <1>0, <2>2 DEF ScoringShape
    <3>2. ScoringOK'
      BY <1>d, <2>1, <3>1
    <3> QED BY <2>1, <3>1, <3>2, ScoringKeeps
  <2> QED BY <2>1, <2>2, NotScoringOK
<1>13. CASE InstallComparison
  <2>1. /\ scoring.at = "install" /\ scoring' = NotScoring
        /\ UNCHANGED <<judging, verdict, export, tokenizer>>
        /\ \/ comparison # None /\ comparison' = comparison
           \/ /\ comparison = None
              /\ comparison' = [floor |-> scoring.floor, marker |-> scoring.marker, native |-> scoring.native,
                                read |-> scoring.read, under |-> scoring.under,
                                created |-> scoring.created, time |-> clock]
    BY <1>13, <1>a DEF InstallComparison
  <2>2. CASE comparison # None /\ comparison' = comparison
    BY <2>1, <2>2, NotScoringOK
  <2>3. ASSUME comparison = None,
               comparison' = [floor |-> scoring.floor, marker |-> scoring.marker, native |-> scoring.native,
                              read |-> scoring.read, under |-> scoring.under,
                              created |-> scoring.created, time |-> clock]
        PROVE  EvidenceInv'
    <3>1. comparison'.floor = scoring.floor /\ comparison'.read = scoring.read
      BY <2>3
    <3>2. ComparisonOK'
      BY <1>0, <2>1, <3>1 DEF ComparisonOK, ScoringOK, Bound, NoNewer, Within, Version
    <3>3. verdict = None /\ judging.at \notin {"read", "judged"}
      BY <2>3 DEF EvidenceInv, JudgingOK, VerdictOK
    <3>4. JudgingShape' /\ JudgingOK' /\ VerdictOK'
      BY <2>1, <3>3 DEF EvidenceInv, JudgingShape, JudgingOK, VerdictOK, ComparedWhatFloorMeasured
    <3>5. ScoringShape' /\ ScoringOK'
      BY <2>1 DEF ScoringShape, ScoringOK, NotScoring
    <3> QED BY <3>2, <3>4, <3>5 DEF EvidenceInv
  <2> QED BY <2>1, <2>2, <2>3
<1>14. CASE ScoringFails
  <2>1. scoring' = NotScoring /\ UNCHANGED <<judging, comparison, verdict, export, tokenizer>>
    BY <1>14 DEF ScoringFails, ScoringRaises, artifacts, worldVars
  <2> QED BY <2>1, NotScoringOK
<1> QED BY <1>1, <1>2, <1>3, <1>4, <1>5, <1>6, <1>7, <1>8, <1>9, <1>10, <1>11, <1>12, <1>13, <1>14
        DEF Score

-----------------------------------------------------------------------------
\* The command that makes the verdict; the others leave it alone.
LEMMA JudgingKeeps ==
    ASSUME EvidenceInv, UNCHANGED <<scoring, comparison, export, tokenizer>>,
           JudgingShape', JudgingOK', VerdictOK'
    PROVE  EvidenceInv'
<1>1. ScoringShape' /\ ScoringOK' /\ ComparisonOK'
  BY DEF EvidenceInv, ScoringShape, ScoringOK, ComparisonOK, Bound, NoNewer, Within, Version
<1> QED BY <1>1 DEF EvidenceInv

LEMMA DecideKeeps ==
    ASSUME FloorInv, EvidenceInv, Decide
    PROVE  EvidenceInv'
<1>0. JudgingShape /\ JudgingOK /\ ComparisonOK /\ VerdictOK
  BY DEF EvidenceInv
<1>a. ASSUME NEW from, NEW to, JudgeStep(from, to)
      PROVE  judging.at = from /\ judging' = to /\ UNCHANGED <<scoring, export, tokenizer>>
  BY <1>a DEF JudgeStep, worldVars
<1>b. ASSUME UNCHANGED <<comparison, verdict>> PROVE VerdictOK'
  BY <1>0, <1>b DEF VerdictOK, ComparedWhatFloorMeasured
<1>c. ASSUME judging' = NotJudging PROVE JudgingShape' /\ JudgingOK'
  BY <1>c DEF JudgingShape, JudgingOK, NotJudging
<1>1. CASE StartJudging
  <2>1. /\ comparison # None /\ floor # None /\ UNCHANGED <<scoring, comparison, verdict, export, tokenizer>>
        /\ judging' = [NotJudging EXCEPT !.at = "read", !.floor = floor, !.unread = Evidence,
                                         !.found = [f \in Inputs \cup {"model", "map"} |-> None]]
    BY <1>1, <1>a DEF StartJudging, artifacts
  <2>2. /\ judging'.at = "read" /\ judging'.floor = floor /\ judging'.unread = Evidence
        /\ judging'.found = [f \in Judged |-> None] /\ JudgingShape'
    BY <2>1 DEF JudgingShape, NotJudging, Judged
  <2>3. Measured(floor)
    BY <2>1 DEF FloorInv, FloorMeasured, Measured
  <2>4. judging'.found = [f \in Judged |-> judging'.found[f]]
    BY <2>2
  <2>5. JudgingOK'
    BY <2>1, <2>2, <2>3, <2>4, RestEnds DEF JudgingOK, Measured
  <2> QED BY <1>b, <2>1, <2>2, <2>5, JudgingKeeps
<1>2. CASE ReadEvidence
  <2> DEFINE f == Head(judging.unread)
  <2>1. /\ judging.at = "read" /\ judging.unread # << >>
        /\ judging' = [judging EXCEPT !.unread = Tail(@), !.found[f] = Found(f)]
        /\ UNCHANGED <<scoring, comparison, verdict, export, tokenizer>>
    BY <1>2, <1>a DEF ReadEvidence, artifacts
  <2>2. /\ Tail(judging.unread) \in Rest /\ f \in Judged
        /\ ReadOf(Tail(judging.unread)) \subseteq ReadOf(judging.unread) \cup ({f} \cap Inputs)
        /\ f \notin ReadOf(judging.unread)
    BY <1>0, <2>1, RestShrinks DEF JudgingOK
  <2> HIDE DEF f
  <2>3. /\ judging'.at = "read" /\ judging'.unread = Tail(judging.unread) /\ JudgingShape'
        /\ judging'.floor = judging.floor
        /\ judging'.found = [judging.found EXCEPT ![f] = Found(f)]
    BY <1>0, <2>1 DEF JudgingShape
  <2>4. judging.found = [g \in Judged |-> judging.found[g]]
    BY <1>0, <2>1 DEF JudgingOK
  <2>5. /\ judging'.found = [g \in Judged |-> IF g = f THEN Found(f) ELSE judging.found[g]]
        /\ judging'.found[f] = Found(f)
        /\ \A g \in Judged: g # f => judging'.found[g] = judging.found[g]
    BY <2>2, <2>3, <2>4
  <2>6. judging'.found = [g \in Judged |-> judging'.found[g]]
    BY <2>5
  <2>7. f \in Inputs => Found(f) = Version(f) /\ Version(f) \in Nat
    <3>1. f \in Inputs => Found(f) = Version(f)
      BY DEF Inputs, Found
    <3> QED BY <3>1, VersionIsNat DEF FloorInv
  <2>8. ASSUME NEW pair \in comparison.read, pair[1] \in ReadOf(judging'.unread)
        PROVE  judging'.found[pair[1]] \in Nat /\ pair[2] <= judging'.found[pair[1]]
    <3>1. pair[1] \in Inputs /\ pair[2] \in Nat /\ pair[2] <= Version(pair[1])
      BY <1>0, <2>1 DEF JudgingOK, ComparisonOK, Within
    <3>2. CASE pair[1] = f
      BY <2>5, <2>7, <3>1, <3>2
    <3>3. CASE pair[1] # f
      <4>1. pair[1] \in ReadOf(judging.unread) /\ pair[1] \in Judged
        BY <2>2, <2>3, <2>8, <3>1, <3>3 DEF Judged
      <4> QED BY <1>0, <2>1, <2>5, <3>3, <4>1 DEF JudgingOK
    <3> QED BY <3>2, <3>3
  <2>9. JudgingOK'
    <3>1. comparison # None /\ Measured(judging.floor)
      BY <1>0, <2>1 DEF JudgingOK
    <3> QED BY <2>1, <2>2, <2>3, <2>6, <2>8, <3>1 DEF JudgingOK, Measured
  <2> QED BY <1>b, <2>1, <2>3, <2>9, JudgingKeeps
<1>3. CASE Judge
  <2>1. /\ judging.at = "read" /\ judging.unread = << >>
        /\ UNCHANGED <<scoring, comparison, verdict, export, tokenizer>>
        /\ \/ /\ SameInputs(judging.found) /\ SameFloor(judging.floor)
              /\ judging' = [judging EXCEPT !.at = "judged", !.unread = Evidence, !.created = clock]
           \/ judging' = NotJudging
    BY <1>3, <1>a DEF Judge, artifacts
  <2>2. ASSUME SameInputs(judging.found), SameFloor(judging.floor),
               judging' = [judging EXCEPT !.at = "judged", !.unread = Evidence, !.created = clock]
        PROVE  EvidenceInv'
    <3>1. judging'.at = "judged" /\ judging'.floor = judging.floor /\ JudgingShape'
      BY <1>0, <2>2 DEF JudgingShape
    <3>2. comparison.floor = judging.floor /\ comparison # None /\ Measured(judging.floor)
      BY <1>0, <2>1, <2>2 DEF SameFloor, JudgingOK
    <3>3. \A f \in Inputs: judging.found[f] = judging.floor.document.inputs[f]
      BY <2>2 DEF SameInputs
    <3>4. ASSUME NEW pair \in comparison.read
          PROVE  judging.floor.document.inputs[pair[1]] = pair[2]
      <4>1. /\ pair[1] \in Inputs /\ pair[2] \in Nat
            /\ judging.floor.document.inputs[pair[1]] <= pair[2]
        BY <1>0, <3>2 DEF ComparisonOK, Within
      <4>2. judging.found[pair[1]] \in Nat /\ pair[2] <= judging.found[pair[1]]
        BY <1>0, <2>1, <4>1, RestEnds DEF JudgingOK
      <4> QED BY <3>3, <4>1, <4>2
    <3>5. JudgingOK'
      BY <2>1, <3>1, <3>2, <3>4 DEF JudgingOK, Measured
    <3> QED BY <1>b, <2>1, <3>1, <3>5, JudgingKeeps
  <2> QED BY <1>b, <1>c, <2>1, <2>2, JudgingKeeps
<1>4. CASE Revalidate
  <2>1. /\ judging.at = "judged" /\ UNCHANGED <<scoring, comparison, verdict, export, tokenizer>>
        /\ judging' = [judging EXCEPT !.unread = Tail(@)] \/ judging' = NotJudging
    BY <1>4, <1>a DEF Revalidate, artifacts
  <2>2. ASSUME judging' = [judging EXCEPT !.unread = Tail(@)] PROVE EvidenceInv'
    <3>1. judging'.at = "judged" /\ judging'.floor = judging.floor /\ JudgingShape'
      BY <1>0, <2>1, <2>2 DEF JudgingShape
    <3>2. JudgingOK'
      BY <1>0, <2>1, <3>1 DEF JudgingOK, Measured
    <3> QED BY <1>b, <2>1, <3>1, <3>2, JudgingKeeps
  <2> QED BY <1>b, <1>c, <2>1, <2>2, JudgingKeeps
<1>5. CASE InstallVerdict
  <2>1. /\ judging.at = "judged" /\ judging' = NotJudging
        /\ UNCHANGED <<scoring, comparison, export, tokenizer>>
        /\ verdict' \in {verdict, [floor |-> judging.floor, read |-> comparison.read, created |-> judging.created]}
    BY <1>5, <1>a DEF InstallVerdict
  <2>2. comparison # None /\ Measured(judging.floor)
    BY <1>0, <2>1 DEF JudgingOK
  <2>3. CASE verdict' = verdict
    BY <1>b, <1>c, <2>1, <2>3, JudgingKeeps
  <2>4. ASSUME verdict' = [floor |-> judging.floor, read |-> comparison.read, created |-> judging.created]
        PROVE  EvidenceInv'
    <3>1. verdict'.floor = judging.floor /\ verdict'.read = comparison.read
      BY <2>4
    <3>2. VerdictOK'
      BY <1>0, <2>1, <2>2, <3>1 DEF VerdictOK, ComparedWhatFloorMeasured, JudgingOK, Measured
    <3> QED BY <1>c, <2>1, <3>2, JudgingKeeps
  <2> QED BY <2>1, <2>3, <2>4
<1> QED BY <1>1, <1>2, <1>3, <1>4, <1>5 DEF Decide

LEMMA KillKeeps ==
    ASSUME EvidenceInv, Later, Kill
    PROVE  EvidenceInv'
<1>1. UNCHANGED <<comparison, verdict, export, tokenizer>>
  BY DEF Kill, artifacts
<1>2. \/ UNCHANGED <<scoring, judging>>
      \/ scoring' = NotScoring /\ judging' = judging
      \/ judging' = NotJudging /\ scoring' = scoring
  BY DEF Kill, commandVars
<1>3. ASSUME judging' = NotJudging, scoring' = scoring PROVE EvidenceInv'
  <2>1. JudgingShape' /\ JudgingOK'
    BY <1>3 DEF JudgingShape, JudgingOK, NotJudging
  <2>2. VerdictOK'
    BY <1>1 DEF EvidenceInv, VerdictOK, ComparedWhatFloorMeasured
  <2> QED BY <1>1, <1>3, <2>1, <2>2, JudgingKeeps
<1> QED BY <1>1, <1>2, <1>3, ElsewhereKeeps, NotScoringOK

LEMMA EvidenceInitial == Init => EvidenceInv
<1> SUFFICES ASSUME Init PROVE EvidenceInv
  OBVIOUS
<1>1. scoring = NotScoring /\ judging = NotJudging /\ comparison = None /\ verdict = None
  BY DEF Init
<1>2. ScoringShape /\ ScoringOK
  BY <1>1 DEF ScoringShape, ScoringOK, NotScoring, Scored, Reading
<1>3. JudgingShape /\ JudgingOK
  BY <1>1 DEF JudgingShape, JudgingOK, NotJudging
<1>4. ComparisonOK /\ VerdictOK
  BY <1>1 DEF ComparisonOK, VerdictOK, ComparedWhatFloorMeasured
<1> QED BY <1>2, <1>3, <1>4 DEF EvidenceInv

LEMMA EvidenceKept == FloorInv /\ EvidenceInv /\ [Next]_vars => EvidenceInv'
<1> SUFFICES ASSUME FloorInv, EvidenceInv, [Next]_vars PROVE EvidenceInv'
  OBVIOUS
<1>0. Later
  BY VersionsGrow
<1>1. CASE Score
  BY <1>1, ScoreKeeps
<1>2. CASE Decide
  BY <1>2, DecideKeeps
<1>3. CASE Kill
  BY <1>0, <1>3, KillKeeps
<1>4. CASE FloorRuns \/ Loads \/ Checks \/ ReplaceInput \/ Tick \/ SetBack \/ UNCHANGED vars
  <2>1. UNCHANGED <<scoring, judging, comparison, verdict>>
    BY <1>4 DEF FloorRuns, Loads, Checks, ReplaceInput, Tick, SetBack, vars, artifacts, commandVars
  <2> QED BY <1>0, <2>1, ElsewhereKeeps
<1>5. CASE Mark
  <2>1. UNCHANGED <<scoring, judging, comparison, verdict>>
    BY <1>5 DEF Mark, ReadFloorForMarker, StampMarker, InstallMarker, MarkerStep, artifacts
  <2> QED BY <1>0, <2>1, ElsewhereKeeps
<1> QED BY <1>1, <1>2, <1>3, <1>4, <1>5 DEF Next

\* Whoever has a verdict compared the scores with the floor of the same inputs:
\* all that the floor's workers and the comparison's reference policy read, in
\* processes long gone and with inputs replaced in between, is what the floor's
\* hashes name (evaluate_trained_parity_files).  The native policy's tokenizer, which
\* no command hashes, is not among it.
THEOREM VerdictIsOfItsFloor == Spec => []ComparedWhatFloorMeasured
<1>1. Init => FloorInv /\ EvidenceInv
  BY FloorInitial, EvidenceInitial
<1>2. FloorInv /\ EvidenceInv /\ [Next]_vars => FloorInv' /\ EvidenceInv'
  BY FloorKept, EvidenceKept
<1>3. EvidenceInv => ComparedWhatFloorMeasured
  BY DEF EvidenceInv, VerdictOK
<1> QED BY <1>1, <1>2, <1>3, PTL DEF Spec

-----------------------------------------------------------------------------
\* None is not a report.
NoneIsNoReport ==
    \A document, time, r: None # [document |-> document, time |-> time, by |-> r]

LEMMA IdleStays ==
    ASSUME FloorInv, [Next]_vars, floor # None, NEW r \in Runners, runner[r].at = "idle"
    PROVE  runner'[r].at = "idle"
<1>0. /\ runner \in [Runners -> RunnerType]
      /\ \A w \in workers: w.run # None => w.run \in Runners /\ runner[w.run].at = "waiting"
  BY DEF FloorInv, FloorTypes, OneWorker, WorkerType
<1>a. Resting.at = "idle"
  BY DEF Resting
<1>b. ASSUME NEW q \in Runners, NEW from, NEW to, Runs(q, from, to)
      PROVE  runner[q].at = from /\ runner' = [runner EXCEPT ![q] = to]
  BY <1>b DEF Runs
<1>1. ASSUME NEW q \in Runners, FloorRun(q) PROVE runner'[r].at = "idle"
  <2>1. CASE HashInput(q)
    BY <1>0, <2>1 DEF HashInput, RunnerType
  <2>2. CASE ~HashInput(q)
    <3>1. runner[q].at # "idle" /\ (\E to: runner' = [runner EXCEPT ![q] = to])
      <4>1. CASE InputsHashed(q)
        BY <1>b, <4>1 DEF InputsHashed, RunRaises
      <4>2. CASE (\E v \in Variants: StartWorker(q, v) \/ ReadVariant(q, v))
        BY <1>b, <4>2 DEF StartWorker, ReadVariant, RunRaises
      <4>3. CASE HashAgain(q) \/ Assemble(q) \/ WriteFloor(q)
        BY <1>b, <4>3 DEF HashAgain, Assemble, WriteFloor, RunRaises
      <4> QED BY <1>1, <2>2, <4>1, <4>2, <4>3 DEF FloorRun, StartFloor
    <3> QED BY <1>0, <3>1
  <2> QED BY <2>1, <2>2
<1>2. ASSUME Worker PROVE runner'[r].at = "idle"
  <2>1. PICK w \in workers: ReadByWorker(w) \/ EndWorker(w)
    BY <1>2 DEF Worker
  <2>2. CASE ReadByWorker(w)
    BY <2>2 DEF ReadByWorker
  <2>3. CASE EndWorker(w)
    <3>1. runner' = runner \/ (w.run # None /\ \E to: runner' = [runner EXCEPT ![w.run] = to])
      BY <2>3 DEF EndWorker
    <3> QED BY <1>0, <3>1
  <2> QED BY <2>1, <2>2, <2>3
<1>3. ASSUME NEW q \in Runners, KillRun(q) PROVE runner'[r].at = "idle"
  BY <1>0, <1>a, <1>3 DEF KillRun, Runs
<1>4. CASE FloorRuns
  BY <1>1, <1>2, <1>4 DEF FloorRuns
<1>5. CASE Kill
  <2>1. (\E q \in Runners: KillRun(q)) \/ UNCHANGED floorVars
    BY <1>5 DEF Kill
  <2> QED BY <1>3, <2>1 DEF floorVars
<1>6. CASE Score
  BY <1>6, ScoreLeavesFloor DEF floorVars
<1>7. CASE Mark \/ Decide \/ Loads \/ Checks \/ ReplaceInput \/ Tick \/ SetBack \/ UNCHANGED vars
  BY <1>7 DEF Mark, ReadFloorForMarker, StampMarker, InstallMarker, MarkerStep, Decide, StartJudging,
     ReadEvidence, Judge, Revalidate, InstallVerdict, JudgeStep, Loads, Checks, ReplaceInput, Tick, SetBack,
     vars, floorVars
<1> QED BY <1>4, <1>5, <1>6, <1>7 DEF Next

\* Only write_floor_report replaces the report.
LEMMA FloorWritten ==
    ASSUME FloorInv, NoneIsNoReport, [Next]_vars, floor' # floor
    PROVE  /\ UNCHANGED <<scoring, judging, comparison, verdict>> /\ floor' # None
           /\ \E r \in Runners: runner[r].at = "write" /\ runner'[r].at = "idle" /\ floor'.by = r
<1>1. FloorRuns
  <2>1. CASE Score
    BY <2>1, ScoreLeavesFloor DEF floorVars, floorFiles
  <2>2. CASE Kill
    BY <2>2 DEF Kill, KillRun, floorVars, floorFiles
  <2>3. CASE Mark \/ Decide \/ Loads \/ Checks \/ ReplaceInput \/ Tick \/ SetBack \/ UNCHANGED vars
    BY <2>3 DEF Mark, ReadFloorForMarker, StampMarker, InstallMarker, MarkerStep, Decide, StartJudging,
       ReadEvidence, Judge, Revalidate, InstallVerdict, JudgeStep, Loads, Checks, ReplaceInput, Tick, SetBack,
       vars, floorVars, floorFiles
  <2> QED BY <2>1, <2>2, <2>3 DEF Next
<1>2. PICK r \in Runners: WriteFloor(r)
  <2>1. ASSUME NEW r \in Runners, StartFloor(r) \/ HashInput(r) \/ HashAgain(r) \/ Assemble(r)
        PROVE  FALSE
    BY <2>1 DEF StartFloor, HashInput, HashAgain, Assemble, RunRaises, floorFiles
  <2>2. ASSUME NEW r \in Runners, InputsHashed(r) PROVE FALSE
    BY <2>2 DEF InputsHashed, RunRaises, floorFiles
  <2>3. ASSUME NEW r \in Runners, NEW v \in Variants, StartWorker(r, v) \/ ReadVariant(r, v)
        PROVE  FALSE
    BY <2>3 DEF StartWorker, ReadVariant, RunRaises, floorFiles
  <2>4. ~Worker
    BY DEF Worker, ReadByWorker, EndWorker, floorFiles
  <2> QED BY <1>1, <2>1, <2>2, <2>3, <2>4 DEF FloorRuns, FloorRun
<1>3. runner[r].at = "write" /\ runner'[r].at = "idle"
  BY <1>2 DEF WriteFloor, Runs, Resting, FloorInv, FloorTypes
<1>4. floor' # None /\ floor'.by = r
  BY <1>2 DEF WriteFloor, NoneIsNoReport
<1> QED BY <1>1, <1>3, <1>4 DEF FloorRuns, artifacts, commandVars

\* Once replaced, a report does not come back.
LEMMA GoneStays ==
    ASSUME FloorInv, NoneIsNoReport, [Next]_vars, NEW report, Gone(report)
    PROVE  /\ floor' # None /\ runner'[report.by].at = "idle"
           /\ floor'.by = report.by => floor' = report
           /\ floor' # floor => floor' # report
<1>1. runner'[report.by].at = "idle"
  BY IdleStays DEF Gone
<1>2. CASE floor' = floor
  BY <1>1, <1>2 DEF Gone
<1>3. CASE floor' # floor
  BY <1>1, <1>3, FloorWritten DEF Gone
<1> QED BY <1>2, <1>3

\* What holds of the report in place, and of the one a comparison is bound to.
LEMMA GoneKept ==
    ASSUME FloorInv, NoneIsNoReport, UnderInv, [Next]_vars
    PROVE  /\ floor # None => floor' # None
           /\ floor' # None => Gone(floor)'
           /\ scoring.at # "idle" /\ scoring'.floor = scoring.floor => Gone(scoring.floor)'
<1>1. floor # None => floor' # None
  BY GoneStays DEF UnderInv
<1>2. floor' # None => Gone(floor)'
  <2>1. CASE floor' = floor
    BY <2>1, GoneStays DEF UnderInv, Gone
  <2>2. CASE floor' # floor
    BY <2>2, FloorWritten DEF Gone
  <2> QED BY <2>1, <2>2
<1>3. scoring.at # "idle" /\ scoring'.floor = scoring.floor => Gone(scoring.floor)'
  BY GoneStays DEF UnderInv, Gone
<1> QED BY <1>1, <1>2, <1>3

LEMMA UnderKept ==
    ASSUME FloorInv, EvidenceInv, UnderInv, NoneIsNoReport, [Next]_vars
    PROVE  UnderInv'
<1> USE DEF Scored
<1>0. /\ floor # None => floor' # None
      /\ floor' # None => Gone(floor)'
      /\ scoring.at # "idle" /\ scoring'.floor = scoring.floor => Gone(scoring.floor)'
  BY GoneKept
<1>a. UNCHANGED <<comparison, verdict>> => FloorFirst' /\ (comparison' # None => comparison'.under = comparison'.floor)
  BY DEF UnderInv, FloorFirst
<1>b. ASSUME UNCHANGED <<comparison, verdict>>, scoring' = scoring PROVE UnderInv'
  <2>1. scoring.at # "idle" => Gone(scoring.floor)'
    BY <1>0, <1>b
  <2>2. ASSUME scoring.at \in Scored, floor' = scoring.floor PROVE scoring.under = floor'
    <3>1. Gone(scoring.floor)
      BY <2>2 DEF UnderInv
    <3>2. floor' = floor
      BY <2>2, <3>1, GoneStays
    <3> QED BY <2>2, <3>2 DEF UnderInv
  <2>3. scoring'.at = "install" => scoring'.under = scoring'.floor
    BY <1>b DEF UnderInv
  <2> QED BY <1>0, <1>a, <1>b, <2>1, <2>2, <2>3 DEF UnderInv
<1>c. ASSUME UNCHANGED <<comparison, verdict>>, scoring' = NotScoring PROVE UnderInv'
  <2>1. scoring'.at = "idle"
    BY <1>c DEF NotScoring
  <2> QED BY <1>0, <1>a, <1>c, <2>1 DEF UnderInv
\* a step of the command that scores
<1>d. ASSUME UNCHANGED <<comparison, verdict, floor>>, scoring.at # "idle", scoring'.floor = scoring.floor,
             scoring'.at \in Scored => \/ scoring'.under = floor
                                       \/ scoring.at \in Scored /\ scoring'.under = scoring.under,
             scoring'.at = "install" => scoring'.under = scoring'.floor
      PROVE  UnderInv'
  <2>1. Gone(scoring.floor)'
    BY <1>0, <1>d
  <2>2. scoring'.at \in Scored /\ floor' = scoring'.floor => scoring'.under = floor'
    BY <1>d DEF UnderInv
  <2> QED BY <1>0, <1>a, <1>d, <2>1, <2>2 DEF UnderInv
<1>1. CASE Score
  <2>0. ScoringShape /\ UNCHANGED floor
    BY <1>1, ScoreLeavesFloor DEF EvidenceInv, floorVars, floorFiles
  <2>a. ASSUME NEW from, NEW to, ScoreStep(from, to) PROVE scoring.at = from /\ scoring' = to
    BY <2>a DEF ScoreStep
  <2>1. CASE StartScoring
    <3>1. /\ scoring' = [NotScoring EXCEPT !.at = "begun", !.floor = floor, !.marker = marker]
          /\ floor # None /\ UNCHANGED <<comparison, verdict>>
      BY <2>1, <2>a DEF StartScoring, artifacts
    <3>2. scoring'.at = "begun" /\ scoring'.floor = floor
      BY <3>1 DEF NotScoring
    <3>3. Gone(floor)'
      BY <1>0, <2>0, <3>1
    <3>4. Gone(scoring.floor)'
      BY <2>0, <3>2, <3>3 DEF Gone
    <3> QED BY <1>0, <1>a, <3>1, <3>2, <3>4 DEF UnderInv
  <2>2. CASE BeginScoring \/ BoundToFloor \/ ExportIsOfRun
    <3>1. /\ scoring.at \in {"begun", "hash", "export"} /\ UNCHANGED <<comparison, verdict>>
          /\ \/ scoring' = NotScoring
             \/ scoring' = [scoring EXCEPT !.at = "hash", !.unread = InOrder]
             \/ scoring' = [scoring EXCEPT !.at = "export"]
             \/ scoring' = [scoring EXCEPT !.at = "first load"]
      BY <2>2, ScoreOrCases DEF BeginScoring, BoundToFloor, ExportIsOfRun, artifacts
    <3>2. \/ scoring' = NotScoring
          \/ scoring'.at \in {"hash", "export", "first load"} /\ scoring'.floor = scoring.floor
      BY <2>0, <3>1 DEF ScoringShape
    <3> QED BY <1>c, <1>d, <2>0, <3>1, <3>2
  <2>3. CASE HashForScoring
    <3>1. /\ scoring.at = "hash" /\ UNCHANGED <<comparison, verdict>>
          /\ \E f: scoring' = [scoring EXCEPT !.unread = Tail(@), !.hashes[f] = Version(f)]
      BY <2>3, <2>a DEF HashForScoring, artifacts
    <3>2. scoring'.at = "hash" /\ scoring'.floor = scoring.floor
      BY <2>0, <3>1 DEF ScoringShape
    <3> QED BY <1>d, <2>0, <3>1, <3>2
  <2>4. CASE FirstLoaded
    <3>1. /\ scoring.at = "first load" /\ UNCHANGED <<comparison, verdict>>
          /\ scoring' = [scoring EXCEPT !.at = "first check", !.mlx = loader[Scorer].weights]
      BY <2>4, <2>a DEF FirstLoaded, artifacts
    <3>2. scoring'.at = "first check" /\ scoring'.floor = scoring.floor
      BY <2>0, <3>1 DEF ScoringShape
    <3> QED BY <1>d, <2>0, <3>1, <3>2
  <2>5. CASE ScoreNative
    <3>1. /\ scoring.at = "first check" /\ UNCHANGED <<comparison, verdict>>
          /\ scoring' = [scoring EXCEPT !.at = "torch", !.native = Validated, !.under = floor]
      BY <2>5, <2>a DEF ScoreNative, artifacts
    <3>2. scoring'.at = "torch" /\ scoring'.floor = scoring.floor /\ scoring'.under = floor
      BY <2>0, <3>1 DEF ScoringShape
    <3> QED BY <1>d, <2>0, <3>1, <3>2
  <2>6. CASE ScoreTorch \/ SecondLoaded \/ StampComparison
    <3>1. /\ scoring.at \in Scored /\ UNCHANGED <<comparison, verdict>>
          /\ \/ scoring' = NotScoring
             \/ scoring' = [scoring EXCEPT !.at = "second load",
                                           !.read = {<<"tokenizer", tokenizer>>, <<"export", export>>}]
             \/ scoring' = [scoring EXCEPT !.at = "second check", !.again = loader[Scorer].weights]
             \/ scoring' = [scoring EXCEPT !.at = "stamped", !.created = clock]
      <4>1. CASE ScoreTorch
        BY <2>a, <4>1 DEF ScoreTorch, artifacts
      <4>2. CASE SecondLoaded
        BY <2>a, <4>2 DEF SecondLoaded, artifacts
      <4>3. CASE StampComparison
        BY <4>3, ScoreOrCases DEF StampComparison, artifacts
      <4> QED BY <2>6, <4>1, <4>2, <4>3
    <3>2. \/ scoring' = NotScoring
          \/ scoring'.at # "install" /\ scoring'.floor = scoring.floor /\ scoring'.under = scoring.under
      BY <2>0, <3>1 DEF ScoringShape
    <3> QED BY <1>c, <1>d, <2>0, <3>1, <3>2
  <2>7. CASE WriteOutcome
    <3>1. /\ scoring.at = "second check" /\ UNCHANGED <<comparison, verdict>>
          /\ scoring' = [scoring EXCEPT !.at = "last check"] \/ scoring' = NotScoring
      BY <2>7, <2>a DEF WriteOutcome, ScoringRaises, artifacts
    <3>2. \/ scoring' = NotScoring
          \/ /\ scoring'.at = "last check" /\ scoring'.floor = scoring.floor
             /\ scoring'.under = scoring.under
      BY <2>0, <3>1 DEF ScoringShape
    <3> QED BY <1>c, <1>d, <2>0, <3>1, <3>2
  <2>8. CASE LookAgain
    <3>1. /\ scoring.at = "stamped" /\ UNCHANGED <<comparison, verdict>>
          /\ \/ scoring' = [scoring EXCEPT !.at = "install"] /\ floor = scoring.floor
             \/ scoring' = NotScoring
      BY <2>8, ScoreOrCases DEF LookAgain, Replaced, artifacts
    <3>2. \/ scoring' = NotScoring
          \/ /\ scoring'.at = "install" /\ scoring'.floor = scoring.floor /\ floor = scoring.floor
             /\ scoring'.under = scoring.under
      BY <2>0, <3>1 DEF ScoringShape
    <3>3. floor = scoring.floor => scoring.under = scoring.floor
      BY <3>1 DEF UnderInv
    <3> QED BY <1>c, <1>d, <2>0, <3>1, <3>2, <3>3
  <2>9. CASE InstallComparison
    <3>1. /\ scoring.at = "install" /\ scoring' = NotScoring /\ UNCHANGED verdict
          /\ \/ comparison' = comparison
             \/ /\ comparison = None
                /\ comparison' = [floor |-> scoring.floor, marker |-> scoring.marker, native |-> scoring.native,
                                  read |-> scoring.read, under |-> scoring.under,
                                  created |-> scoring.created, time |-> clock]
      BY <2>9, <2>a DEF InstallComparison
    <3>2. ASSUME comparison = None, comparison'.floor = scoring.floor, comparison'.under = scoring.under
          PROVE  UnderInv'
      <4>1. scoring'.at = "idle" /\ verdict' = None
        BY <3>1, <3>2 DEF NotScoring, EvidenceInv, VerdictOK
      <4>2. comparison'.under = comparison'.floor
        BY <3>1, <3>2 DEF UnderInv
      <4> QED BY <1>0, <4>1, <4>2 DEF UnderInv, FloorFirst
    <3> QED BY <1>c, <3>1, <3>2
  <2>10. CASE ScoringFails
    BY <1>c, <2>10 DEF ScoringFails, ScoringRaises, artifacts
  <2> QED BY <1>1, <2>1, <2>2, <2>3, <2>4, <2>5, <2>6, <2>7, <2>8, <2>9, <2>10 DEF Score
<1>2. CASE Decide
  <2>1. UNCHANGED <<scoring, comparison>>
    BY <1>2 DEF Decide, StartJudging, ReadEvidence, Judge, Revalidate, InstallVerdict, JudgeStep, artifacts
  <2>2. CASE verdict' = verdict
    BY <1>b, <2>1, <2>2
  <2>3. CASE verdict' # verdict
    <3>1. /\ judging.at = "judged"
          /\ verdict' = [floor |-> judging.floor, read |-> comparison.read, created |-> judging.created]
      BY <1>2, <2>3 DEF Decide, StartJudging, ReadEvidence, Judge, Revalidate, InstallVerdict, JudgeStep,
          artifacts
    <3>2. verdict'.floor = comparison.floor /\ comparison.under = comparison.floor
      BY <3>1 DEF EvidenceInv, JudgingOK, UnderInv
    <3>3. UNCHANGED floor
      BY <1>2 DEF Decide, StartJudging, ReadEvidence, Judge, Revalidate, InstallVerdict, JudgeStep,
          floorVars, floorFiles
    <3>4. scoring.at # "idle" => Gone(scoring.floor)'
      BY <1>0, <2>1
    <3> QED BY <1>0, <2>1, <3>2, <3>3, <3>4 DEF UnderInv, FloorFirst
  <2> QED BY <2>2, <2>3
<1>3. CASE Kill
  <2>1. UNCHANGED <<comparison, verdict>> /\ (scoring' = scoring \/ scoring' = NotScoring)
    BY <1>3 DEF Kill, commandVars, artifacts
  <2> QED BY <1>b, <1>c, <2>1
<1>4. CASE FloorRuns \/ Mark \/ Loads \/ Checks \/ ReplaceInput \/ Tick \/ SetBack \/ UNCHANGED vars
  <2>1. UNCHANGED <<scoring, comparison, verdict>>
    BY <1>4 DEF FloorRuns, Mark, ReadFloorForMarker, StampMarker, InstallMarker, MarkerStep, Loads, Checks,
        ReplaceInput, Tick, SetBack, vars, artifacts, commandVars
  <2> QED BY <1>b, <2>1
<1> QED BY <1>1, <1>2, <1>3, <1>4 DEF Next

\* The floor of a verdict was in place when the comparison it judges made its
\* first inference, however the clock was set and whatever other floor runs wrote
\* in between (run_trained_comparison_evaluation).
THEOREM FloorWasFirst == ASSUME NoneIsNoReport PROVE Spec => []FloorFirst
<1>1. Init => FloorInv /\ EvidenceInv /\ UnderInv
  <2>1. ASSUME Init PROVE UnderInv
    BY <2>1 DEF Init, FloorInit, UnderInv, FloorFirst, NotScoring, Scored
  <2> QED BY <2>1, FloorInitial, EvidenceInitial
<1>2. FloorInv /\ EvidenceInv /\ UnderInv /\ [Next]_vars => FloorInv' /\ EvidenceInv' /\ UnderInv'
  BY FloorKept, EvidenceKept, UnderKept
<1>3. UnderInv => FloorFirst
  BY DEF UnderInv
<1> QED BY <1>1, <1>2, <1>3, PTL DEF Spec
=============================================================================
