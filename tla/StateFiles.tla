----------------------------- MODULE StateFiles -----------------------------
(***************************************************************************)
(* How the training programs publish a JSON document under a fixed name    *)
(* (training/finetune.py, write_run_state and _publish_staged_file_at):    *)
(* write a hidden file, set the present generation aside under a hidden    *)
(* name, rename the new file to the name, remove the old generation.       *)
(*                                                                         *)
(* Each rename is atomic and everything between two of them may be the     *)
(* last thing a process does.  Hidden names are random, so leftovers of    *)
(* earlier processes never collide: they are counted (staged) or kept in   *)
(* the order they were set aside (previous).  There is no Next here: the   *)
(* modules that extend this one say who publishes, and what a restart      *)
(* does with the leftovers.                                                *)
(***************************************************************************)
EXTENDS Naturals, Sequences

CONSTANTS
    Names,      \* the documents' names
    Documents,  \* what may be published
    Absent      \* no file of that name

ASSUME StateFilesConstants == Absent \notin Documents

VARIABLES
    file,       \* file[n]: the document of that name, or Absent
    staged,     \* staged[n]: hidden files holding an unpublished document
    previous,   \* previous[n]: generations set aside and not removed
    pub         \* the publication the running process is in

diskVars == <<file, staged, previous>>
fileVars == <<file, staged, previous, pub>>

Point == {"idle", "stage", "aside", "fresh", "swap", "drop", "done", "failed"}

PublicationState ==
    [at: Point, name: Names \cup {Absent}, doc: Documents \cup {Absent}]

NoPublication == [at |-> "idle", name |-> Absent, doc |-> Absent]

\* write_run_state(n, d) has been called.
Publication(n, d) == [at |-> "stage", name |-> n, doc |-> d]

FilesTypeOK ==
    /\ file \in [Names -> Documents \cup {Absent}]
    /\ staged \in [Names -> Nat]
    /\ previous \in [Names -> Seq(Documents)]
    /\ pub \in PublicationState

FilesInit ==
    /\ file = [n \in Names |-> Absent]
    /\ staged = [n \in Names |-> 0]
    /\ previous = [n \in Names |-> <<>>]
    /\ pub = NoPublication

\* What a reader that repairs the namespace first would read.
Generation(n) ==
    IF file[n] # Absent \/ previous[n] = <<>>
    THEN file[n]
    ELSE previous[n][Len(previous[n])]

Leftovers(n) == staged[n] > 0 \/ previous[n] # <<>>

AllButLast(s) == SubSeq(s, 1, Len(s) - 1)
-----------------------------------------------------------------------------
\* The hidden file is written and synced; the destination is read once more.
WriteStaged ==
    /\ pub.at = "stage"
    /\ staged' = [staged EXCEPT ![pub.name] = @ + 1]
    /\ pub' = [pub EXCEPT !.at = IF file[pub.name] = Absent THEN "fresh" ELSE "aside"]
    /\ UNCHANGED <<file, previous>>

\* Mutant: the present generation is unlinked instead of set aside.
SetAside_Unlink ==
    /\ pub.at = "aside"
    /\ file' = [file EXCEPT ![pub.name] = Absent]
    /\ pub' = [pub EXCEPT !.at = "fresh"]
    /\ UNCHANGED <<staged, previous>>

SetAside ==
    /\ pub.at = "aside"
    /\ previous' = [previous EXCEPT ![pub.name] = Append(@, file[pub.name])]
    /\ file' = [file EXCEPT ![pub.name] = Absent]
    /\ pub' = [pub EXCEPT !.at = "swap"]
    /\ UNCHANGED staged

\* The exclusive rename of the hidden file to the name.
PublishStaged ==
    /\ pub.at \in {"fresh", "swap"}
    /\ file' = [file EXCEPT ![pub.name] = pub.doc]
    /\ staged' = [staged EXCEPT ![pub.name] = @ - 1]
    /\ pub' = [pub EXCEPT !.at = IF @ = "swap" THEN "drop" ELSE "done"]
    /\ UNCHANGED previous

DropPrevious ==
    /\ pub.at = "drop"
    /\ previous' = [previous EXCEPT ![pub.name] = AllButLast(@)]
    /\ pub' = [pub EXCEPT !.at = "done"]
    /\ UNCHANGED <<file, staged>>

\* An exception ends the publication: the hidden file is removed on the way
\* out.  If the rename itself failed the old generation is put back; a signal
\* before the rename's handler leaves it set aside.  After the rename the new
\* document stays, but the caller does not learn that it is there.
PublicationFails ==
    /\ pub.at \in {"stage", "aside", "fresh", "swap", "drop", "done"}
    /\ pub' = [pub EXCEPT !.at = "failed"]
    /\ staged' = IF pub.at \in {"aside", "fresh", "swap"}
                 THEN [staged EXCEPT ![pub.name] = @ - 1] ELSE staged
    /\ \/ UNCHANGED <<file, previous>>
       \/ /\ pub.at = "swap"
          /\ file' = [file EXCEPT ![pub.name] = Generation(pub.name)]
          /\ previous' = [previous EXCEPT ![pub.name] = AllButLast(@)]

PublishStep == WriteStaged \/ SetAside \/ PublishStaged \/ DropPrevious
=============================================================================
