------------------------- MODULE MCWorkerSupervisor -------------------------
EXTENDS WorkerSupervisor
=============================================================================
