---------------------------- MODULE MCLaunchedRun ----------------------------
EXTENDS LaunchedRun

MCDocuments == LaunchDocuments
=============================================================================
