--------------------------- MODULE CheckpointCalls ---------------------------
(***************************************************************************)
(* The checkpoint directory under any caller that saves its steps in       *)
(* order, as both training programs do: a process saves only into a        *)
(* directory it found empty or has loaded from.  It saves and loads with   *)
(* any arguments, is killed or raises anywhere (an exception ends it), and *)
(* published checkpoints are damaged by something else.                    *)
(***************************************************************************)
EXTENDS CheckpointStore

CONSTANT MaxDamage  \* bounds the damaged checkpoints on the disk

VARIABLES
    saved,      \* what the last call that returned saved or loaded
    opened      \* the running process has had a call return

callerVars == <<saved, opened>>
vars == <<storeVars, callerVars>>

TypeOK ==
    /\ StoreTypeOK
    /\ saved \in Checkpoints \cup {Absent}
    /\ opened \in BOOLEAN

Init ==
    /\ StoreInit
    /\ saved = Absent
    /\ opened = FALSE

CallSave(c) ==
    /\ opened \/ (dirs = {} /\ file[Latest] = Absent)
    /\ \A e \in Published: e.ckpt.step <= c.step
    /\ Save(c) \/ SaveRefused(c)
    /\ UNCHANGED callerVars

CallLoad(recorded, allowed) ==
    /\ ~opened
    /\ Load(recorded, allowed) \/ LoadRefused(recorded, allowed)
    /\ UNCHANGED callerVars

InCall == StoreStep /\ UNCHANGED callerVars

Raise == StoreFails /\ UNCHANGED callerVars

CallEnds ==
    /\ op.at \in {"returned", "raised"}
    /\ saved' = IF op.at = "returned" THEN op.ckpt ELSE saved
    /\ opened' = (op.at = "returned")
    /\ op' = NoOp
    /\ pub' = NoPublication
    /\ UNCHANGED <<diskVars, dirs>>

Kill ==
    /\ op # NoOp \/ opened
    /\ op' = NoOp
    /\ pub' = NoPublication
    /\ opened' = FALSE
    /\ UNCHANGED <<diskVars, dirs, saved>>

Damage(e) ==
    /\ op = NoOp
    /\ e.whole
    /\ Cardinality({d \in dirs: ~d.whole}) < MaxDamage
    /\ dirs' = (dirs \ {e}) \cup {[e EXCEPT !.whole = FALSE]}
    /\ UNCHANGED <<fileVars, op, callerVars>>

Next ==
    \/ \E c \in Checkpoints: CallSave(c)
    \/ \E recorded \in Checkpoints \cup {Absent}, allowed \in 0..Horizon:
          CallLoad(recorded, allowed)
    \/ InCall \/ Raise \/ CallEnds \/ Kill
    \/ \E e \in Published: Damage(e)

Spec == Init /\ [][Next]_vars
-----------------------------------------------------------------------------
\* What a call saved or loaded is not lost before something at least as new
\* took its place, whatever later calls, kills and exceptions do: pruning and
\* replacing move, and remove, only what is superseded (8411-8468, 9936-9955).
SavedSurvives ==
    saved # Absent =>
        \E e \in dirs: e.kind \in {"step", "recovery"} /\ e.ckpt.step >= saved.step

\* Between calls latest.json names a published checkpoint, after kills too:
\* the pointer moves on before pruning starts (10022-10036).
PointerNamesKept ==
    op = NoOp /\ ~Debris /\ file[Latest] # Absent =>
        \E e \in Published: e.ckpt = file[Latest]

\* A published checkpoint leaves its name only when KeepLast newer ones are
\* published, or into the recovery name of its step.
OnlyOldPruned ==
    [][\A e \in Published:
          \/ \E f \in Published': f.ckpt = e.ckpt
          \/ [e EXCEPT !.kind = "recovery"] \in dirs'
          \/ Cardinality({f \in Published: f.ckpt.step > e.ckpt.step}) >= KeepLast]_vars

\* A call that returns leaves its checkpoint published, whole and newest, the
\* pointer on it, and at most KeepLast checkpoints.
ReturnMeansDone ==
    op.at = "returned" =>
        /\ \E e \in Published: e.whole /\ e.ckpt = op.ckpt
        /\ \A e \in Published: e.ckpt.step <= op.ckpt.step
        /\ file[Latest] = op.ckpt
        /\ Cardinality(Published) <= KeepLast
=============================================================================
