-------------------------- MODULE MCPublicTraining --------------------------
EXTENDS PublicTraining

MCDocuments == RunDocuments \cup Checkpoints
=============================================================================
