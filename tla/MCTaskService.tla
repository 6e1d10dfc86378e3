--------------------------- MODULE MCTaskService ---------------------------
EXTENDS TaskService, TLC

Processes == Permutations(Runs)
=============================================================================
