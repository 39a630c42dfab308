-------------------------- MODULE StateFileRecovery --------------------------
(***************************************************************************)
(* The state files of a launched LoRA run (run.json, metrics.csv,          *)
(* training.pid, ...) across killed and failing processes                  *)
(* (training/finetune.py).  A process that starts first restores each      *)
(* document whose name is missing from the one generation set aside        *)
(* (_restore_missing_t3b_previous_generations), then moves every hidden    *)
(* leftover out of the way (_reconcile_t3b_resume_output_staging), and     *)
(* only then publishes.  persist_run_state compares the file with the      *)
(* generation the process last read or published before it replaces it.    *)
(***************************************************************************)
EXTENDS StateFiles

VARIABLES
    phase,      \* of the process: down, restoring, sweeping, or up
    bound       \* state_bindings: the generation of each name the process knows

vars == <<file, staged, previous, pub, phase, bound>>

Phase == {"down", "restoring", "sweeping", "up"}

TypeOK ==
    /\ FilesTypeOK
    /\ phase \in Phase
    /\ bound \in [Names -> Documents \cup {Absent}]

Init ==
    /\ FilesInit
    /\ phase = "down"
    /\ bound = [n \in Names |-> Absent]
-----------------------------------------------------------------------------
Start ==
    /\ phase = "down"
    /\ phase' = "restoring"
    /\ UNCHANGED <<file, staged, previous, pub, bound>>

Missing(n) == file[n] = Absent /\ previous[n] # <<>>

\* Two generations of a missing document: the restart gives up.
RestartRefused == \E n \in Names: Missing(n) /\ Len(previous[n]) > 1

RestoreMissing(n) ==
    /\ phase = "restoring"
    /\ ~RestartRefused
    /\ Missing(n)
    /\ file' = [file EXCEPT ![n] = previous[n][1]]
    /\ previous' = [previous EXCEPT ![n] = <<>>]
    /\ UNCHANGED <<staged, pub, phase, bound>>

Restored ==
    /\ phase = "restoring"
    /\ \A n \in Names: ~Missing(n)
    /\ phase' = "sweeping"
    /\ UNCHANGED <<file, staged, previous, pub, bound>>

\* One leftover is renamed into resume-recoveries.
Quarantine(n) ==
    /\ phase = "sweeping"
    /\ \/ /\ staged[n] > 0
          /\ staged' = [staged EXCEPT ![n] = @ - 1]
          /\ UNCHANGED previous
       \/ /\ previous[n] # <<>>
          /\ previous' = [previous EXCEPT ![n] = Tail(@)]
          /\ UNCHANGED staged
    /\ UNCHANGED <<file, pub, phase, bound>>

\* Mutant: unpublished hidden files are not looked for.
Swept_PreviousOnly ==
    /\ phase = "sweeping"
    /\ \A n \in Names: previous[n] = <<>>
    /\ phase' = "up"
    /\ bound' = file
    /\ UNCHANGED <<file, staged, previous, pub>>

Swept ==
    /\ phase = "sweeping"
    /\ \A n \in Names: ~Leftovers(n)
    /\ phase' = "up"
    /\ bound' = file
    /\ UNCHANGED <<file, staged, previous, pub>>

\* Mutant: the file on disk is not compared with the bound generation.
Persist_Unbound(n, d) ==
    /\ phase = "up"
    /\ pub.at = "idle"
    /\ d # file[n]
    /\ pub' = Publication(n, d)
    /\ UNCHANGED <<file, staged, previous, phase, bound>>

\* persist_run_state(n, d), which refuses a file it is not bound to: the file
\* is compared by inode and bytes, so every generation is a document of its own.
Persist(n, d) ==
    /\ phase = "up"
    /\ pub.at = "idle"
    /\ file[n] = bound[n]
    /\ d # file[n]
    /\ pub' = Publication(n, d)
    /\ UNCHANGED <<file, staged, previous, phase, bound>>

Persisted ==
    /\ pub.at = "done"
    /\ bound' = [bound EXCEPT ![pub.name] = pub.doc]
    /\ pub' = NoPublication
    /\ UNCHANGED <<file, staged, previous, phase>>

\* The exception is handled: the handler may persist again.
PersistFailed ==
    /\ pub.at = "failed"
    /\ pub' = NoPublication
    /\ UNCHANGED <<file, staged, previous, phase, bound>>

\* Ends, is killed, or gives up: the memory is gone, the files stay.
Stop ==
    /\ phase # "down"
    /\ phase' = "down"
    /\ pub' = NoPublication
    /\ bound' = [n \in Names |-> Absent]
    /\ UNCHANGED <<file, staged, previous>>

Publish == PublishStep /\ UNCHANGED <<phase, bound>>

Fail == PublicationFails /\ UNCHANGED <<phase, bound>>

Next ==
    \/ Start
    \/ \E n \in Names: RestoreMissing(n)
    \/ Restored
    \/ \E n \in Names: Quarantine(n)
    \/ Swept
    \/ \E n \in Names, d \in Documents: Persist(n, d)
    \/ Persisted \/ PersistFailed
    \/ Publish \/ Fail
    \/ Stop

Spec == Init /\ [][Next]_vars
-----------------------------------------------------------------------------
\* A restart is never refused for two generations of a missing document: a
\* process that left one aside never sets another aside, and the next process
\* clears the first before it publishes (7113-7121, 7279-7416).
RestartSucceeds == ~RestartRefused

\* While a process publishes, no name but the one it publishes has leftovers:
\* the sweep left none (7296-7327).
SweptBeforeUse ==
    phase = "up" =>
        \A n \in Names:
            Leftovers(n) => n = pub.name \/ file[n] # bound[n]

\* write_run_state is atomic for every reader that restores first, over kills
\* and failures between any two renames.
Register == INSTANCE StateRegister WITH value <- [n \in Names |-> Generation(n)]
ImplementsRegister == Register!Spec
=============================================================================
