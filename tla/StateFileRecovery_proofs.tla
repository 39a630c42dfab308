---------------------- MODULE StateFileRecovery_proofs ----------------------
(***************************************************************************)
(* Proofs about the state files of a run, for any set of names and any set *)
(* of documents: restarts are never refused, a process starts publishing   *)
(* in a swept directory, and write_run_state implements the atomic         *)
(* register for every reader that restores first.                          *)
(***************************************************************************)
EXTENDS StateFileRecovery, SequenceTheorems, TLAPS

\* Where a publication has its hidden file on disk.
HasStaged == pub.at \in {"aside", "fresh", "swap"}

\* Where a publication has set a generation aside and not removed it.
HasPrevious == pub.at \in {"swap", "drop"}

\* The names of a publication are real, and a process that does not publish
\* is in no publication.
PubKnown ==
    /\ pub.at # "idle" => pub.name \in Names /\ pub.doc \in Documents
    /\ phase # "up" => pub = NoPublication

\* What the directory looks like at each point of a publication.
PubFiles ==
    /\ pub.at \in {"stage", "aside", "fresh"} => file[pub.name] = bound[pub.name]
    /\ pub.at \in {"stage", "aside", "fresh", "swap", "drop"} =>
           pub.doc # bound[pub.name]
    /\ pub.at = "aside" => file[pub.name] # Absent
    /\ pub.at = "fresh" => file[pub.name] = Absent
    /\ pub.at = "swap" => file[pub.name] = Absent /\ bound[pub.name] # Absent
    /\ pub.at \in {"drop", "done"} => file[pub.name] = pub.doc
    /\ HasPrevious => Len(previous[pub.name]) = 1
    /\ pub.at = "done" => previous[pub.name] = <<>>

\* A running process sees a generation set aside only for the document it is
\* publishing, or for one whose file is no longer the bound one: of that name
\* it will not publish again.
PreviousKnown ==
    phase = "up" =>
        \A n \in Names: previous[n] # <<>> =>
            (HasPrevious /\ n = pub.name) \/ file[n] # bound[n]

\* ... and a hidden file only of its own publication.
StagedKnown ==
    phase = "up" =>
        \A n \in Names: staged[n] = IF HasStaged /\ n = pub.name THEN 1 ELSE 0

\* Never two generations set aside, and none missing once restored.
OnePrevious ==
    /\ \A n \in Names: Len(previous[n]) <= 1
    /\ phase = "sweeping" => \A n \in Names: ~Missing(n)

IInv ==
    /\ TypeOK
    /\ PubKnown
    /\ PubFiles
    /\ PreviousKnown
    /\ StagedKnown
    /\ OnePrevious
-----------------------------------------------------------------------------
USE StateFilesConstants

\* A sequence of one generation: appending to none, dropping it.
LEMMA OneGeneration ==
  ASSUME NEW s \in Seq(Documents)
  PROVE  /\ AllButLast(s) \in Seq(Documents)
         /\ s # <<>> => Tail(s) \in Seq(Documents) /\ Len(s) >= 1
         /\ Len(s) \in Nat
         /\ Len(s) = 1 => /\ s # <<>> /\ AllButLast(s) = <<>> /\ Tail(s) = <<>>
                         /\ s[1] \in Documents
<1>1. /\ Len(s) \in Nat
      /\ \A i \in 1..Len(s): s[i] \in Documents
      /\ s # <<>> => Len(s) >= 1
      /\ s = <<>> => Len(s) = 0
  BY LenProperties, EmptySeq
<1>2. AllButLast(s) \in Seq(Documents)
  <2>1. \A i \in 1..(Len(s) - 1): s[i] \in Documents
    BY <1>1
  <2>. QED BY <1>1, <2>1, SubSeqProperties DEF AllButLast
<1>3. s # <<>> => Tail(s) \in Seq(Documents)
  BY HeadTailProperties
<1>4. ASSUME Len(s) = 1
      PROVE  AllButLast(s) = <<>> /\ Tail(s) = <<>>
  <2>1. AllButLast(s) = <<>>
    BY <1>4, SubSeqEmpty DEF AllButLast
  <2>2. s # <<>> /\ Tail(s) \in Seq(Documents) /\ Len(Tail(s)) = 0
    BY <1>1, <1>4, HeadTailProperties
  <2>3. Tail(s) = <<>>
    BY <2>2, EmptySeq
  <2>. QED BY <2>1, <2>3
<1>. QED BY <1>1, <1>2, <1>3, <1>4

\* A publication that moves on stays one.
LEMMA MovedPublication ==
  ASSUME NEW p \in PublicationState, NEW a \in Point
  PROVE  [p EXCEPT !.at = a] \in PublicationState
  BY DEF PublicationState

LEMMA InitIInv == Init => IInv
  BY
    DEF Init, FilesInit, IInv, TypeOK, FilesTypeOK, PublicationState, Point,
        Phase, PubKnown, PubFiles, PreviousKnown, StagedKnown, OnePrevious,
        HasStaged, HasPrevious, NoPublication, Missing

LEMMA StartIInv ==
  ASSUME IInv, Start PROVE IInv'
  BY SMTT(30)
    DEF IInv, TypeOK, FilesTypeOK, PublicationState, Point, Phase, PubKnown,
        PubFiles, PreviousKnown, StagedKnown, OnePrevious, HasStaged,
        HasPrevious, NoPublication, Missing, Start

LEMMA RestoreMissingIInv ==
  ASSUME NEW n \in Names, IInv, RestoreMissing(n) PROVE IInv'
  BY SMTT(30)
    DEF IInv, TypeOK, FilesTypeOK, PublicationState, Point, Phase, PubKnown,
        PubFiles, PreviousKnown, StagedKnown, OnePrevious, HasStaged,
        HasPrevious, NoPublication, Missing, RestoreMissing, RestartRefused

LEMMA RestoredIInv ==
  ASSUME IInv, Restored PROVE IInv'
  BY SMTT(30)
    DEF IInv, TypeOK, FilesTypeOK, PublicationState, Point, Phase, PubKnown,
        PubFiles, PreviousKnown, StagedKnown, OnePrevious, HasStaged,
        HasPrevious, NoPublication, Missing, Restored

LEMMA QuarantineIInv ==
  ASSUME NEW n \in Names, IInv, Quarantine(n) PROVE IInv'
<1>1. TypeOK'
  <2>1. previous[n] \in Seq(Documents) /\ staged[n] \in Nat
    BY DEF IInv, TypeOK, FilesTypeOK
  <2>2. staged' \in [Names -> Nat]
    BY <2>1, SMT DEF IInv, TypeOK, FilesTypeOK, Quarantine
  <2>3. previous[n] # <<>> => Tail(previous[n]) \in Seq(Documents)
    BY <2>1, OneGeneration
  <2>4. previous' \in [Names -> Seq(Documents)]
    <3>. DEFINE t == Tail(previous[n])
    <3>1. previous[n] # <<>> => t \in Seq(Documents)
      BY <2>3
    <3>2. \/ previous' = previous
          \/ previous[n] # <<>> /\ previous' = [previous EXCEPT ![n] = t]
      BY DEF Quarantine
    <3>. HIDE DEF t
    <3>. QED BY <3>1, <3>2 DEF IInv, TypeOK, FilesTypeOK
  <2>. QED BY <2>2, <2>4
    DEF IInv, TypeOK, FilesTypeOK, Quarantine, PublicationState, Point, Phase
<1>2. PubKnown'
  BY SMTT(20)
    DEF IInv, TypeOK, FilesTypeOK, PublicationState, PubKnown, NoPublication,
        Quarantine
<1>3. PubFiles'
  BY SMTT(20)
    DEF IInv, TypeOK, FilesTypeOK, PublicationState, PubKnown, PubFiles,
        HasPrevious, NoPublication, Quarantine
<1>4. PreviousKnown'
  BY SMTT(20)
    DEF IInv, TypeOK, FilesTypeOK, PublicationState, PubKnown, PubFiles,
        PreviousKnown, HasPrevious, NoPublication, Quarantine
<1>5. StagedKnown'
  BY SMTT(20)
    DEF IInv, TypeOK, FilesTypeOK, PublicationState, PubKnown, StagedKnown,
        HasStaged, NoPublication, Quarantine
<1>6. OnePrevious'
  <2>1. previous[n] \in Seq(Documents) /\ Len(previous[n]) <= 1
    BY DEF IInv, TypeOK, FilesTypeOK, OnePrevious
  <2>. DEFINE t == Tail(previous[n])
  <2>2. previous[n] # <<>> => Len(t) <= 1
    BY <2>1, HeadTailProperties, LenProperties
  <2>3. \/ previous' = previous
        \/ previous[n] # <<>> /\ previous' = [previous EXCEPT ![n] = t]
    BY DEF Quarantine
  <2>. HIDE DEF t
  <2>4. ASSUME NEW m \in Names PROVE Len(previous'[m]) <= 1
    <3>1. \/ previous'[m] = previous[m]
          \/ previous[n] # <<>> /\ previous'[m] = t
      BY <2>3 DEF IInv, TypeOK, FilesTypeOK
    <3>2. Len(previous[m]) <= 1
      BY DEF IInv, OnePrevious
    <3>. QED BY <2>2, <3>1, <3>2
  <2>5. \A m \in Names: previous'[m] # <<>> => previous[m] # <<>>
    BY <2>1, <2>3, SMT DEF IInv, TypeOK, FilesTypeOK
  <2>6. phase' = phase /\ file' = file /\ phase = "sweeping"
    BY DEF Quarantine
  <2>. QED BY <2>4, <2>5, <2>6 DEF IInv, OnePrevious, Missing
<1>. QED BY <1>1, <1>2, <1>3, <1>4, <1>5, <1>6 DEF IInv

LEMMA SweptIInv ==
  ASSUME IInv, Swept PROVE IInv'
  BY SMTT(30)
    DEF IInv, TypeOK, FilesTypeOK, PublicationState, Point, Phase, PubKnown,
        PubFiles, PreviousKnown, StagedKnown, OnePrevious, HasStaged,
        HasPrevious, NoPublication, Missing, Swept, Leftovers

LEMMA PersistIInv ==
  ASSUME NEW n \in Names, NEW d \in Documents, IInv, Persist(n, d) PROVE IInv'
  BY SMTT(30)
    DEF IInv, TypeOK, FilesTypeOK, PublicationState, Point, Phase, PubKnown,
        PubFiles, PreviousKnown, StagedKnown, OnePrevious, HasStaged,
        HasPrevious, NoPublication, Missing, Persist, Publication

LEMMA PersistedIInv ==
  ASSUME IInv, Persisted PROVE IInv'
  BY SMTT(30)
    DEF IInv, TypeOK, FilesTypeOK, PublicationState, Point, Phase, PubKnown,
        PubFiles, PreviousKnown, StagedKnown, OnePrevious, HasStaged,
        HasPrevious, NoPublication, Missing, Persisted

LEMMA PersistFailedIInv ==
  ASSUME IInv, PersistFailed PROVE IInv'
  BY SMTT(30)
    DEF IInv, TypeOK, FilesTypeOK, PublicationState, Point, Phase, PubKnown,
        PubFiles, PreviousKnown, StagedKnown, OnePrevious, HasStaged,
        HasPrevious, NoPublication, Missing, PersistFailed

LEMMA StopIInv ==
  ASSUME IInv, Stop PROVE IInv'
  BY SMTT(30)
    DEF IInv, TypeOK, FilesTypeOK, PublicationState, Point, Phase, PubKnown,
        PubFiles, PreviousKnown, StagedKnown, OnePrevious, HasStaged,
        HasPrevious, NoPublication, Missing, Stop

LEMMA WriteStagedIInv ==
  ASSUME IInv, WriteStaged, UNCHANGED <<phase, bound>> PROVE IInv'
<1>1. TypeOK'
  <2>1. /\ pub.name \in Names
        /\ previous[pub.name] \in Seq(Documents)
        /\ staged[pub.name] \in Nat
    BY DEF IInv, TypeOK, FilesTypeOK, PubKnown, WriteStaged
  <2>2. file' \in [Names -> Documents \cup {Absent}]
    BY <2>1, OneGeneration, SMT
      DEF IInv, TypeOK, FilesTypeOK, PubKnown, PubFiles, HasPrevious,
          WriteStaged, Generation
  <2>3. staged' \in [Names -> Nat]
    BY <2>1, SMT
      DEF IInv, TypeOK, FilesTypeOK, PubKnown, StagedKnown, HasStaged,
          NoPublication, WriteStaged
  <2>4. previous' \in [Names -> Seq(Documents)]
    BY <2>1, OneGeneration, AppendProperties, SMT
      DEF IInv, TypeOK, FilesTypeOK, PubKnown, PubFiles, WriteStaged
  <2>5. pub' \in PublicationState
    <3>1. (IF file[pub.name] = Absent THEN "fresh" ELSE "aside") \in Point
      BY DEF Point
    <3>2. pub \in PublicationState
      BY DEF IInv, TypeOK, FilesTypeOK
    <3>. QED BY <3>1, <3>2, MovedPublication DEF WriteStaged
  <2>. QED BY <2>2, <2>3, <2>4, <2>5
    DEF IInv, TypeOK, FilesTypeOK, PublicationState, Point, Phase
<1>2. PubKnown'
  BY SMTT(20)
    DEF IInv, TypeOK, FilesTypeOK, PublicationState, PubKnown, NoPublication,
        WriteStaged
<1>3. PubFiles'
  BY SMTT(20)
    DEF IInv, TypeOK, FilesTypeOK, PublicationState, PubKnown, PubFiles,
        HasPrevious, NoPublication, WriteStaged
<1>4. PreviousKnown'
  BY SMTT(20)
    DEF IInv, TypeOK, FilesTypeOK, PublicationState, PubKnown, PubFiles,
        PreviousKnown, HasPrevious, NoPublication, WriteStaged
<1>5. StagedKnown'
  BY SMTT(20)
    DEF IInv, TypeOK, FilesTypeOK, PublicationState, PubKnown, StagedKnown,
        HasStaged, NoPublication, WriteStaged
<1>6. OnePrevious'
  BY SMTT(20)
    DEF IInv, TypeOK, FilesTypeOK, PublicationState, PubKnown, PubFiles,
        PreviousKnown, OnePrevious, HasPrevious, NoPublication, Missing,
        WriteStaged
<1>. QED BY <1>1, <1>2, <1>3, <1>4, <1>5, <1>6 DEF IInv

LEMMA SetAsideIInv ==
  ASSUME IInv, SetAside, UNCHANGED <<phase, bound>> PROVE IInv'
<1>1. TypeOK'
  <2>1. /\ pub.name \in Names
        /\ previous[pub.name] \in Seq(Documents)
        /\ staged[pub.name] \in Nat
    BY DEF IInv, TypeOK, FilesTypeOK, PubKnown, SetAside
  <2>2. file' \in [Names -> Documents \cup {Absent}]
    BY <2>1, OneGeneration, SMT
      DEF IInv, TypeOK, FilesTypeOK, PubKnown, PubFiles, HasPrevious, SetAside,
          Generation
  <2>3. staged' \in [Names -> Nat]
    BY <2>1, SMT
      DEF IInv, TypeOK, FilesTypeOK, PubKnown, StagedKnown, HasStaged,
          NoPublication, SetAside
  <2>4. previous' \in [Names -> Seq(Documents)]
    BY <2>1, OneGeneration, AppendProperties, SMT
      DEF IInv, TypeOK, FilesTypeOK, PubKnown, PubFiles, SetAside
  <2>5. pub' \in PublicationState
    <3>1. ("swap") \in Point
      BY DEF Point
    <3>2. pub \in PublicationState
      BY DEF IInv, TypeOK, FilesTypeOK
    <3>. QED BY <3>1, <3>2, MovedPublication DEF SetAside
  <2>. QED BY <2>2, <2>3, <2>4, <2>5
    DEF IInv, TypeOK, FilesTypeOK, PublicationState, Point, Phase
<1>2. PubKnown'
  BY SMTT(20)
    DEF IInv, TypeOK, FilesTypeOK, PublicationState, PubKnown, NoPublication,
        SetAside
<1>3. PubFiles'
  BY SMTT(20)
    DEF IInv, TypeOK, FilesTypeOK, PublicationState, PubKnown, PubFiles,
        PreviousKnown, HasPrevious, NoPublication, SetAside
<1>4. PreviousKnown'
  BY SMTT(20)
    DEF IInv, TypeOK, FilesTypeOK, PublicationState, PubKnown, PubFiles,
        PreviousKnown, HasPrevious, NoPublication, SetAside
<1>5. StagedKnown'
  BY SMTT(20)
    DEF IInv, TypeOK, FilesTypeOK, PublicationState, PubKnown, StagedKnown,
        HasStaged, NoPublication, SetAside
<1>6. OnePrevious'
  BY SMTT(20)
    DEF IInv, TypeOK, FilesTypeOK, PublicationState, PubKnown, PubFiles,
        PreviousKnown, OnePrevious, HasPrevious, NoPublication, Missing,
        SetAside
<1>. QED BY <1>1, <1>2, <1>3, <1>4, <1>5, <1>6 DEF IInv

LEMMA PublishStagedIInv ==
  ASSUME IInv, PublishStaged, UNCHANGED <<phase, bound>> PROVE IInv'
<1>1. TypeOK'
  <2>1. /\ pub.name \in Names
        /\ previous[pub.name] \in Seq(Documents)
        /\ staged[pub.name] \in Nat
    BY DEF IInv, TypeOK, FilesTypeOK, PubKnown, PublishStaged
  <2>2. file' \in [Names -> Documents \cup {Absent}]
    BY <2>1, OneGeneration, SMT
      DEF IInv, TypeOK, FilesTypeOK, PubKnown, PubFiles, HasPrevious,
          PublishStaged, Generation
  <2>3. staged' \in [Names -> Nat]
    BY <2>1, SMT
      DEF IInv, TypeOK, FilesTypeOK, PubKnown, StagedKnown, HasStaged,
          NoPublication, PublishStaged
  <2>4. previous' \in [Names -> Seq(Documents)]
    BY <2>1, OneGeneration, AppendProperties, SMT
      DEF IInv, TypeOK, FilesTypeOK, PubKnown, PubFiles, PublishStaged
  <2>5. pub' \in PublicationState
    <3>1. (IF pub.at = "swap" THEN "drop" ELSE "done") \in Point
      BY DEF Point
    <3>2. pub \in PublicationState
      BY DEF IInv, TypeOK, FilesTypeOK
    <3>. QED BY <3>1, <3>2, MovedPublication DEF PublishStaged
  <2>. QED BY <2>2, <2>3, <2>4, <2>5
    DEF IInv, TypeOK, FilesTypeOK, PublicationState, Point, Phase
<1>2. PubKnown'
  BY SMTT(20)
    DEF IInv, TypeOK, FilesTypeOK, PublicationState, PubKnown, NoPublication,
        PublishStaged
<1>3. PubFiles'
  BY SMTT(20)
    DEF IInv, TypeOK, FilesTypeOK, PublicationState, PubKnown, PubFiles,
        PreviousKnown, HasPrevious, NoPublication, PublishStaged
<1>4. PreviousKnown'
  BY SMTT(20)
    DEF IInv, TypeOK, FilesTypeOK, PublicationState, PubKnown, PubFiles,
        PreviousKnown, HasPrevious, NoPublication, PublishStaged
<1>5. StagedKnown'
  BY SMTT(20)
    DEF IInv, TypeOK, FilesTypeOK, PublicationState, PubKnown, StagedKnown,
        HasStaged, NoPublication, PublishStaged
<1>6. OnePrevious'
  BY SMTT(20)
    DEF IInv, TypeOK, FilesTypeOK, PublicationState, PubKnown, PubFiles,
        PreviousKnown, OnePrevious, HasPrevious, NoPublication, Missing,
        PublishStaged
<1>. QED BY <1>1, <1>2, <1>3, <1>4, <1>5, <1>6 DEF IInv

LEMMA DropPreviousIInv ==
  ASSUME IInv, DropPrevious, UNCHANGED <<phase, bound>> PROVE IInv'
<1>1. TypeOK'
  <2>1. /\ pub.name \in Names
        /\ previous[pub.name] \in Seq(Documents)
        /\ staged[pub.name] \in Nat
    BY DEF IInv, TypeOK, FilesTypeOK, PubKnown, DropPrevious
  <2>2. file' \in [Names -> Documents \cup {Absent}]
    BY <2>1, OneGeneration, SMT
      DEF IInv, TypeOK, FilesTypeOK, PubKnown, PubFiles, HasPrevious,
          DropPrevious, Generation
  <2>3. staged' \in [Names -> Nat]
    BY <2>1, SMT
      DEF IInv, TypeOK, FilesTypeOK, PubKnown, StagedKnown, HasStaged,
          NoPublication, DropPrevious
  <2>4. previous' \in [Names -> Seq(Documents)]
    BY <2>1, OneGeneration, AppendProperties, SMT
      DEF IInv, TypeOK, FilesTypeOK, PubKnown, PubFiles, DropPrevious
  <2>5. pub' \in PublicationState
    <3>1. ("done") \in Point
      BY DEF Point
    <3>2. pub \in PublicationState
      BY DEF IInv, TypeOK, FilesTypeOK
    <3>. QED BY <3>1, <3>2, MovedPublication DEF DropPrevious
  <2>. QED BY <2>2, <2>3, <2>4, <2>5
    DEF IInv, TypeOK, FilesTypeOK, PublicationState, Point, Phase
<1>2. PubKnown'
  BY SMTT(20)
    DEF IInv, TypeOK, FilesTypeOK, PublicationState, PubKnown, NoPublication,
        DropPrevious
<1>3. PubFiles'
  BY OneGeneration, SMTT(20)
    DEF IInv, TypeOK, FilesTypeOK, PublicationState, PubKnown, PubFiles,
        HasPrevious, NoPublication, DropPrevious
<1>4. PreviousKnown'
  BY SMTT(20)
    DEF IInv, TypeOK, FilesTypeOK, PublicationState, PubKnown, PubFiles,
        PreviousKnown, HasPrevious, NoPublication, DropPrevious
<1>5. StagedKnown'
  BY SMTT(20)
    DEF IInv, TypeOK, FilesTypeOK, PublicationState, PubKnown, StagedKnown,
        HasStaged, NoPublication, DropPrevious
<1>6. OnePrevious'
  BY OneGeneration, SMTT(20)
    DEF IInv, TypeOK, FilesTypeOK, PublicationState, PubKnown, PubFiles,
        PreviousKnown, OnePrevious, HasPrevious, NoPublication, Missing,
        DropPrevious
<1>. QED BY <1>1, <1>2, <1>3, <1>4, <1>5, <1>6 DEF IInv

LEMMA PublicationFailsIInv ==
  ASSUME IInv, PublicationFails, UNCHANGED <<phase, bound>> PROVE IInv'
<1>1. TypeOK'
  <2>1. /\ pub.name \in Names
        /\ previous[pub.name] \in Seq(Documents)
        /\ staged[pub.name] \in Nat
    BY DEF IInv, TypeOK, FilesTypeOK, PubKnown, PublicationFails
  <2>2. pub.at = "swap" => Len(previous[pub.name]) = 1
    BY DEF IInv, PubFiles, HasPrevious
  <2>3. pub.at = "swap" => Generation(pub.name) \in Documents \cup {Absent}
    BY <2>1, <2>2, OneGeneration DEF IInv, TypeOK, FilesTypeOK, Generation
  <2>4. AllButLast(previous[pub.name]) \in Seq(Documents)
    BY <2>1, OneGeneration
  <2>6. file' \in [Names -> Documents \cup {Absent}]
    <3>. DEFINE g == Generation(pub.name)
    <3>1. \/ file' = file
          \/ g \in Documents \cup {Absent} /\ file' = [file EXCEPT ![pub.name] = g]
      BY <2>3 DEF PublicationFails
    <3>. HIDE DEF g
    <3>. QED BY <3>1 DEF IInv, TypeOK, FilesTypeOK
  <2>7. HasStaged => staged[pub.name] = 1
    BY <2>1 DEF IInv, StagedKnown, PubKnown, NoPublication, HasStaged
  <2>8. staged' \in [Names -> Nat]
    BY <2>1, <2>7, SMT
      DEF IInv, TypeOK, FilesTypeOK, HasStaged, PublicationFails
  <2>9. previous' \in [Names -> Seq(Documents)]
    <3>. DEFINE t == AllButLast(previous[pub.name])
    <3>1. previous' = previous \/ previous' = [previous EXCEPT ![pub.name] = t]
      BY DEF PublicationFails
    <3>2. t \in Seq(Documents)
      BY <2>4
    <3>. HIDE DEF t
    <3>. QED BY <3>1, <3>2 DEF IInv, TypeOK, FilesTypeOK
  <2>5. pub' \in PublicationState
    <3>1. ("failed") \in Point
      BY DEF Point
    <3>2. pub \in PublicationState
      BY DEF IInv, TypeOK, FilesTypeOK
    <3>. QED BY <3>1, <3>2, MovedPublication DEF PublicationFails
  <2>. QED BY <2>5, <2>6, <2>8, <2>9
    DEF IInv, TypeOK, FilesTypeOK, PublicationState, Point, Phase
<1>2. PubKnown'
  BY SMTT(20)
    DEF IInv, TypeOK, FilesTypeOK, PublicationState, PubKnown, NoPublication,
        PublicationFails, Generation
<1>3. PubFiles'
  BY SMTT(20)
    DEF IInv, TypeOK, FilesTypeOK, PublicationState, PubKnown, PubFiles,
        HasPrevious, NoPublication, PublicationFails, Generation
<1>4. PreviousKnown'
  BY OneGeneration, SMTT(20)
    DEF IInv, TypeOK, FilesTypeOK, PublicationState, PubKnown, PubFiles,
        PreviousKnown, OnePrevious, HasPrevious, NoPublication,
        PublicationFails, Generation
<1>5. StagedKnown'
  BY SMTT(20)
    DEF IInv, TypeOK, FilesTypeOK, PublicationState, PubKnown, StagedKnown,
        HasStaged, NoPublication, PublicationFails, Generation
<1>6. OnePrevious'
  <2>1. pub.name \in Names /\ phase = "up" /\ previous[pub.name] \in Seq(Documents)
    BY DEF IInv, TypeOK, FilesTypeOK, PubKnown, NoPublication, PublicationFails
  <2>2. pub.at = "swap" => Len(AllButLast(previous[pub.name])) = 0
    BY <2>1, OneGeneration, EmptySeq DEF IInv, PubFiles, HasPrevious
  <2>. DEFINE t == AllButLast(previous[pub.name])
  <2>3. \/ previous' = previous
        \/ Len(t) = 0 /\ previous' = [previous EXCEPT ![pub.name] = t]
    BY <2>2 DEF PublicationFails
  <2>. HIDE DEF t
  <2>4. ASSUME NEW m \in Names PROVE Len(previous'[m]) <= 1
    <3>1. previous'[m] = previous[m] \/ (Len(t) = 0 /\ previous'[m] = t)
      BY <2>3 DEF IInv, TypeOK, FilesTypeOK
    <3>2. Len(previous[m]) <= 1
      BY DEF IInv, OnePrevious
    <3>. QED BY <3>1, <3>2
  <2>. QED BY <2>1, <2>4 DEF OnePrevious
<1>. QED BY <1>1, <1>2, <1>3, <1>4, <1>5, <1>6 DEF IInv
-----------------------------------------------------------------------------
LEMMA NextIInv == IInv /\ [Next]_vars => IInv'
<1>. SUFFICES ASSUME IInv, [Next]_vars PROVE IInv'
  OBVIOUS
<1>1. CASE Start BY <1>1, StartIInv
<1>2. CASE \E n \in Names: RestoreMissing(n) BY <1>2, RestoreMissingIInv
<1>3. CASE Restored BY <1>3, RestoredIInv
<1>4. CASE \E n \in Names: Quarantine(n) BY <1>4, QuarantineIInv
<1>5. CASE Swept BY <1>5, SweptIInv
<1>6. CASE \E n \in Names, d \in Documents: Persist(n, d) BY <1>6, PersistIInv
<1>7. CASE Persisted BY <1>7, PersistedIInv
<1>8. CASE PersistFailed BY <1>8, PersistFailedIInv
<1>9. CASE Publish
  BY <1>9, WriteStagedIInv, SetAsideIInv, PublishStagedIInv, DropPreviousIInv
  DEF Publish, PublishStep
<1>10. CASE Fail BY <1>10, PublicationFailsIInv DEF Fail
<1>11. CASE Stop BY <1>11, StopIInv
<1>12. CASE UNCHANGED vars
  BY <1>12
  DEF vars, IInv, TypeOK, FilesTypeOK, PublicationState, Point, Phase, PubKnown,
      PubFiles, PreviousKnown, StagedKnown, OnePrevious, HasStaged, HasPrevious,
      NoPublication, Missing
<1>. QED
  BY <1>1, <1>2, <1>3, <1>4, <1>5, <1>6, <1>7, <1>8, <1>9, <1>10, <1>11, <1>12
  DEF Next

\* The strengthening of all the safety properties holds in every state.
THEOREM Strengthening == Spec => []IInv
  BY InitIInv, NextIInv, PTL DEF Spec

\* Type correctness, for any names and documents.
THEOREM Typing == Spec => []TypeOK
<1>1. IInv => TypeOK BY DEF IInv
<1>. QED BY <1>1, Strengthening, PTL

\* No kill or failure of any process makes the next restart give up on two
\* generations of one missing document.
THEOREM RestartNeverRefused == Spec => []RestartSucceeds
<1>1. IInv => RestartSucceeds
  <2>. SUFFICES ASSUME IInv, NEW n \in Names, Len(previous[n]) > 1 PROVE FALSE
    BY DEF RestartSucceeds, RestartRefused
  <2>1. Len(previous[n]) \in Nat
    BY LenProperties DEF IInv, TypeOK, FilesTypeOK
  <2>. QED BY <2>1 DEF IInv, OnePrevious
<1>. QED BY <1>1, Strengthening, PTL

\* A running process never meets the leftovers of an earlier one.
THEOREM NoForeignLeftovers == Spec => []SweptBeforeUse
<1>1. IInv => SweptBeforeUse
  BY
    DEF IInv, TypeOK, FilesTypeOK, PreviousKnown, StagedKnown, SweptBeforeUse,
        Leftovers
<1>. QED BY <1>1, Strengthening, PTL
-----------------------------------------------------------------------------
\* Before its own rename a publication changes nothing a reader can see; the
\* rename is the write; the cleaning after it is invisible again.
LEMMA PublishingWrites ==
  ASSUME IInv, PublishStaged
  PROVE  /\ pub.name \in Names /\ pub.doc \in Documents
         /\ \A n \in Names: Generation(n)' = IF n = pub.name THEN pub.doc ELSE Generation(n)
  BY SMT DEF IInv, TypeOK, FilesTypeOK, PubKnown, PublishStaged, Generation

LEMMA InvisibleSteps ==
  ASSUME IInv, NEW n \in Names,
         \/ WriteStaged \/ SetAside \/ DropPrevious \/ PublicationFails
  PROVE  Generation(n)' = Generation(n)
<1>1. CASE WriteStaged
  BY <1>1 DEF WriteStaged, Generation
<1>2. CASE SetAside
  <2>1. pub.name \in Names /\ previous[pub.name] \in Seq(Documents)
        /\ file[pub.name] \in Documents
    BY <1>2 DEF IInv, TypeOK, FilesTypeOK, PubKnown, PubFiles, SetAside
  <2>2. CASE n # pub.name
    BY <1>2, <2>1, <2>2 DEF IInv, TypeOK, FilesTypeOK, SetAside, Generation
  <2>3. CASE n = pub.name
    <3>. DEFINE q == Append(previous[n], file[n])
    <3>1. q # <<>> /\ q[Len(q)] = file[n]
      BY <2>1, <2>3, AppendProperties, LenProperties
    <3>2. file'[n] = Absent /\ previous'[n] = q
      BY <1>2, <2>1, <2>3 DEF IInv, TypeOK, FilesTypeOK, SetAside
    <3>3. file[n] # Absent
      BY <2>1, <2>3
    <3>. HIDE DEF q
    <3>. QED BY <3>1, <3>2, <3>3 DEF Generation
  <2>. QED BY <2>2, <2>3
<1>3. CASE DropPrevious
  <2>1. n = pub.name => file[n] # Absent
    BY <1>3 DEF IInv, PubKnown, PubFiles, DropPrevious
  <2>2. file' = file /\ (n # pub.name => previous'[n] = previous[n])
    BY <1>3 DEF IInv, TypeOK, FilesTypeOK, DropPrevious
  <2>. QED BY <2>1, <2>2 DEF Generation
<1>4. CASE PublicationFails
  <2>1. CASE UNCHANGED <<file, previous>>
    BY <2>1 DEF Generation
  <2>2. CASE ~UNCHANGED <<file, previous>>
    <3>1. /\ pub.at = "swap"
          /\ file' = [file EXCEPT ![pub.name] = Generation(pub.name)]
          /\ previous' = [previous EXCEPT ![pub.name] = AllButLast(previous[pub.name])]
      BY <1>4, <2>2 DEF PublicationFails
    <3>2. /\ pub.name \in Names
          /\ file[pub.name] = Absent
          /\ Len(previous[pub.name]) = 1
          /\ previous[pub.name] \in Seq(Documents)
      BY <3>1 DEF IInv, TypeOK, FilesTypeOK, PubKnown, PubFiles, HasPrevious
    <3>3. Generation(pub.name) # Absent
      BY <3>2, OneGeneration DEF Generation
    <3>4. CASE n = pub.name
      <4>1. file'[n] = Generation(n)
        BY <3>1, <3>2, <3>4 DEF IInv, TypeOK, FilesTypeOK
      <4>. QED BY <4>1, <3>3, <3>4 DEF Generation
    <3>5. CASE n # pub.name
      BY <3>1, <3>5 DEF IInv, TypeOK, FilesTypeOK, Generation
    <3>. QED BY <3>4, <3>5
  <2>. QED BY <2>1, <2>2
<1>. QED BY <1>1, <1>2, <1>3, <1>4

\* The recovery of a restart changes nothing a restoring reader can see.
LEMMA InvisibleRecovery ==
  ASSUME IInv, NEW n \in Names, NEW m \in Names, RestoreMissing(m) \/ Quarantine(m)
  PROVE  Generation(n)' = Generation(n)
<1>1. CASE RestoreMissing(m)
  <2>1. /\ file[m] = Absent /\ previous[m] # <<>>
        /\ file' = [file EXCEPT ![m] = previous[m][1]]
        /\ previous' = [previous EXCEPT ![m] = <<>>]
    BY <1>1 DEF RestoreMissing, Missing
  <2>2. previous[m] \in Seq(Documents) /\ Len(previous[m]) = 1
    <3>1. previous[m] \in Seq(Documents) /\ Len(previous[m]) <= 1
      BY DEF IInv, TypeOK, FilesTypeOK, OnePrevious
    <3>2. Len(previous[m]) \in Nat \ {0}
      BY <2>1, <3>1, EmptySeq
    <3>. DEFINE k == Len(previous[m])
    <3>3. k \in Nat \ {0} /\ k <= 1
      BY <3>1, <3>2
    <3>. HIDE DEF k
    <3>4. k = 1
      BY <3>3
    <3>. QED BY <3>1, <3>4 DEF k
  <2>3. CASE n = m
    BY <2>1, <2>2, <2>3 DEF IInv, TypeOK, FilesTypeOK, Generation
  <2>4. CASE n # m
    BY <2>1, <2>4 DEF IInv, TypeOK, FilesTypeOK, Generation
  <2>. QED BY <2>3, <2>4
<1>2. CASE Quarantine(m)
  <2>1. file' = file /\ (previous[n] # <<>> => file[n] # Absent)
    BY <1>2 DEF IInv, OnePrevious, Missing, Quarantine
  <2>2. previous'[n] # previous[n] => previous[n] # <<>>
    BY <1>2 DEF IInv, TypeOK, FilesTypeOK, Quarantine
  <2>. QED BY <2>1, <2>2 DEF Generation
<1>. QED BY <1>1, <1>2

\* write_run_state is atomic: a reader that restores first sees each document
\* change only by one whole write, over kills and failures between any two
\* steps, for any names and documents.
THEOREM AtomicPublication == Spec => ImplementsRegister
<1>. DEFINE value == [n \in Names |-> Generation(n)]
<1>1. Init => Register!Init
  BY DEF Init, FilesInit, Register!Init, Generation
<1>2. ASSUME IInv, [Next]_vars PROVE [Register!Next]_value
  <2>1. ASSUME \A n \in Names: Generation(n)' = Generation(n) PROVE UNCHANGED value
    BY <2>1
  <2>2. CASE Publish
    <3>1. CASE PublishStaged
      <4>1. value' = [value EXCEPT ![pub.name] = pub.doc]
        BY <1>2, <3>1, PublishingWrites
      <4>. QED BY <1>2, <3>1, <4>1, PublishingWrites
        DEF Register!Next, Register!Write
    <3>2. CASE ~PublishStaged
      BY <1>2, <2>1, <2>2, <3>2, InvisibleSteps DEF Publish, PublishStep
    <3>. QED BY <3>1, <3>2
  <2>3. CASE Fail
    BY <1>2, <2>1, <2>3, InvisibleSteps DEF Fail
  <2>4. CASE \E n \in Names: RestoreMissing(n) \/ Quarantine(n)
    BY <1>2, <2>1, <2>4, InvisibleRecovery
  <2>5. CASE UNCHANGED <<file, previous>>
    BY <2>1, <2>5 DEF Generation
  <2>6. \/ Publish \/ Fail \/ UNCHANGED <<file, previous>>
        \/ \E n \in Names: RestoreMissing(n) \/ Quarantine(n)
    BY <1>2
      DEF Next, vars, Start, Restored, Swept, Persist, Persisted,
          PersistFailed, Stop
  <2>. QED BY <2>2, <2>3, <2>4, <2>5, <2>6
<1>. QED BY <1>1, <1>2, Strengthening, PTL
  DEF Spec, ImplementsRegister, Register!Spec
=============================================================================
