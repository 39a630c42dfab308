---------------------------- MODULE MergedExport ----------------------------
(***************************************************************************)
(* The merged checkpoint of a run (training/export.py): built file by file *)
(* in a staged directory, published under its name by one rename that      *)
(* replaces nothing, and validated only then.  Any other program may write *)
(* into either directory, or put another in the stage's place.             *)
(***************************************************************************)

CONSTANT None

VARIABLES
    staged,     \* the directory the process builds in, or None
    swapped,    \* its name leads to another directory
    entry,      \* the directory named export, or None
    report      \* what the process takes the export to hold, or None

exportVars == <<staged, swapped, entry, report>>

Foreign == <<"foreign">>
Contents == {"model", "support"}

\* _create_staged_export_directory_at
CreateStage ==
    /\ staged' = [f \in Contents \cup {"manifest"} |-> None]
    /\ swapped' = FALSE
    /\ UNCHANGED <<entry, report>>

\* _save_export_safetensors_at, _save_processors, into the directory held open
Write(f, content) ==
    /\ staged' = [staged EXCEPT ![f] = content]
    /\ UNCHANGED <<swapped, entry, report>>

\* the digests of the files of a directory
Digests(directory) == [f \in Contents |-> directory[f]]

\* The manifest names what the staged files hold by now.
WriteManifest ==
    /\ staged' = [staged EXCEPT !.manifest = Digests(staged)]
    /\ report' = Digests(staged)
    /\ UNCHANGED <<swapped, entry>>

\* what somebody else's directory may hold
Stranger == [model |-> Foreign, support |-> Foreign, manifest |-> [f \in Contents |-> Foreign]]

\* renameatx_np, exclusive: whatever has the stage's name gets that of the export.
Rename ==
    /\ entry = None
    /\ entry' = IF swapped THEN Stranger ELSE staged
    /\ staged' = None
    /\ UNCHANGED <<swapped, report>>

\* A stranger that was published is renamed away.
Quarantine ==
    /\ entry' = None
    /\ UNCHANGED <<staged, swapped, report>>

\* validate_merged_checkpoint_export: the manifest names what the files hold.
Consistent(directory) == directory.manifest = Digests(directory)

\* validate_bound_merged_checkpoint_export: moreover every tensor is the live
\* model's and every other file is as it is generated from the inputs.
Holds(directory, model, support) ==
    /\ Consistent(directory)
    /\ directory.model = model /\ directory.support = support

\* Another program writes a file that is there, or swaps the stage.
Tamper ==
    \/ \E f \in Contents:
          \/ /\ staged # None /\ staged[f] # None
             /\ staged' = [staged EXCEPT ![f] = Foreign]
             /\ UNCHANGED <<swapped, entry, report>>
          \/ /\ entry # None
             /\ entry' = [entry EXCEPT ![f] = Foreign]
             /\ UNCHANGED <<staged, swapped, report>>
    \/ /\ staged # None /\ ~swapped
       /\ swapped' = TRUE
       /\ UNCHANGED <<staged, entry, report>>
=============================================================================
