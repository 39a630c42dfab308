---------------------------- MODULE RestartableRun ----------------------------
(***************************************************************************)
(* A resumable run that may once more start over, from nothing, as long as *)
(* it has come no further than its first checkpoint.                       *)
(***************************************************************************)
EXTENDS ResumableRun

StartOver ==
    /\ ~ended
    /\ kept # Absent /\ kept.step = 1
    /\ kept' = Absent
    /\ UNCHANGED ended

RestartableSpec == Init /\ [][Next \/ StartOver]_<<kept, ended>>
=============================================================================
