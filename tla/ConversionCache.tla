-------------------------- MODULE ConversionCache --------------------------
(***************************************************************************)
(* The cache of converted checkpoints (mlx_smolvla/policy.py, convert.py). *)
(* It is keyed by the path of the checkpoint and not by what the path      *)
(* holds; any number of processes fill it and read it without a lock.      *)
(* A file is the version of the checkpoint's tensors it was made from.     *)
(***************************************************************************)
EXTENDS Naturals

CONSTANTS Loaders, None

VARIABLES
    export,     \* the version of the checkpoint's tensors
    model,      \* the version the converted tensors were made from, or None
    nameMap,    \* what name_map.json says of both, or None
    loader,     \* what each process is doing
    check       \* the validation of the pair under way

cacheVars == <<model, nameMap>>

Idle == [at |-> "idle", values |-> None, source |-> None, target |-> None,
         weights |-> None]

NoCheck == [at |-> "none", map |-> None, source |-> None, model |-> None]

CacheInit == model = None /\ nameMap = None /\ loader = [p \in Loaders |-> Idle] /\ check = NoCheck

Moves(p, from, to) ==
    /\ loader[p].at = from
    /\ loader' = [loader EXCEPT ![p] = to]
    /\ UNCHANGED check
-----------------------------------------------------------------------------
\* Whoever finds both files takes them for the conversion of this checkpoint.
TestCache(p) ==
    /\ Moves(p, "idle", [Idle EXCEPT !.at = IF model = None \/ nameMap = None THEN "convert" ELSE "load"])
    /\ UNCHANGED cacheVars

\* convert_checkpoint: the tensors are read from the checkpoint, and then once
\* more, by its path, for their checksums.
ReadTensors(p) ==
    /\ Moves(p, "convert", [loader[p] EXCEPT !.at = "checksum", !.values = export])
    /\ UNCHANGED cacheVars

ReadChecksums(p) ==
    /\ Moves(p, "checksum", [loader[p] EXCEPT !.at = "save", !.source = export])
    /\ UNCHANGED cacheVars

\* _atomic_save_safetensors
SaveModel(p) ==
    /\ Moves(p, "save", [loader[p] EXCEPT !.at = "reread"])
    /\ model' = loader[p].values
    /\ UNCHANGED nameMap

\* The checksums of the converted tensors are those of whatever has the name now.
RereadModel(p) ==
    /\ Moves(p, "reread", [loader[p] EXCEPT !.at = "map", !.target = model])
    /\ UNCHANGED cacheVars

\* _atomic_write_json
SaveMap(p) ==
    /\ Moves(p, "map", [loader[p] EXCEPT !.at = "load"])
    /\ nameMap' = [source |-> loader[p].source, target |-> loader[p].target]
    /\ UNCHANGED model

LoadWeights(p) ==
    /\ Moves(p, "load", [loader[p] EXCEPT !.at = "loaded", !.weights = model])
    /\ UNCHANGED cacheVars

Loading(p) ==
    \/ TestCache(p) \/ ReadTensors(p) \/ ReadChecksums(p) \/ SaveModel(p) \/ RereadModel(p)
    \/ SaveMap(p) \/ LoadWeights(p)

\* The process ends, whatever it was doing.
Unload(p) ==
    /\ loader[p].at # "idle"
    /\ loader' = [loader EXCEPT ![p] = Idle]
    /\ UNCHANGED check
-----------------------------------------------------------------------------
\* validate_converted_checkpoint: one pass over the files after the other, each
\* by their paths; a pass that finds a difference raises.
BeginCheck ==
    /\ check' = [NoCheck EXCEPT !.at = "values", !.map = nameMap]
    /\ UNCHANGED <<cacheVars, loader>>

\* the values of both, each in their file's order
CompareTensors == check.at = "tensors" /\ check.source = model

\* the checksums of both are those of the map
CompareChecksums ==
    check.at = "checksums" /\ check.map = [source |-> export, target |-> model]

Checking ==
    /\ \/ check.at = "values" /\ check' = [check EXCEPT !.at = "tensors", !.source = export]
       \/ CompareTensors /\ check' = [check EXCEPT !.at = "checksums"]
       \/ CompareChecksums /\ check' = [check EXCEPT !.at = "source"]
       \/ check.at = "source" /\ check' = [check EXCEPT !.at = "model", !.source = export]
       \/ check.at = "model" /\ check' = [check EXCEPT !.at = "report", !.model = model]
    /\ UNCHANGED <<cacheVars, loader>>

CheckFails ==
    \/ check.at = "tensors" /\ ~CompareTensors
    \/ check.at = "checksums" /\ ~CompareChecksums

\* its report: the digests of the files and of the map
Validated == [source |-> check.source, model |-> check.model, map |-> check.map]
=============================================================================
