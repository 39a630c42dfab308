----------------------------- MODULE ResumableRun -----------------------------
(***************************************************************************)
(* What a resumable training run promises of its record: the checkpoint it *)
(* would continue from only moves forward, over any crashes, and the run   *)
(* ends only from the checkpoint of the last step, and for good.           *)
(***************************************************************************)
EXTENDS Naturals

CONSTANTS Horizon, Builds, Absent

VARIABLES kept, ended

Init == kept = Absent /\ ended = FALSE

Record ==
    /\ ~ended
    /\ \E step \in 1..Horizon, build \in Builds:
          /\ kept # Absent => kept.step < step
          /\ kept' = [step |-> step, build |-> build]
    /\ UNCHANGED ended

End ==
    /\ kept # Absent /\ kept.step = Horizon
    /\ ended' = TRUE
    /\ UNCHANGED kept

Next == Record \/ End

Spec == Init /\ [][Next]_<<kept, ended>>
=============================================================================
