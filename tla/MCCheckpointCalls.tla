------------------------- MODULE MCCheckpointCalls -------------------------
EXTENDS CheckpointCalls

MCDocuments == [step: 1..Horizon, build: Builds]
=============================================================================
