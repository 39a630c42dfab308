--------------------------- MODULE MCPolicyServer ---------------------------
(* Small instances of PolicyServer, and of the mailbox it implements, for TLC.*)
EXTENDS PolicyServerRefinement, TLC

CONSTANTS o1, o2, o3

\* o1 and o2 carry the same timestep (a client that repeats itself); o2 and o3
\* look alike; only o1 is a must_go observation.
MCTimestepOf == [o \in Observations |-> IF o = o3 THEN 2 ELSE 1]
MCMustGo == {o1}
MCSimilar == {<<o2, o3>>, <<o3, o2>>} \cap (Observations \X Observations)

WorkerSymmetry == Permutations(Workers)
=============================================================================
