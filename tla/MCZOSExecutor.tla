--------------------------- MODULE MCZOSExecutor ---------------------------
(* Instances of ZOSExecutor for TLC. *)
EXTENDS ZOSExecutor

CONSTANTS c1, c2, w1, w2

TwoCallers == {c1, c2}
TwoWorkers == {w1, w2}
OneWorker == {w1}
\* A caller and the callables on the worker may shut the executor down.
CallerAndWorkerClose == {c1} \cup Workers
CallerCloses == {c1}
=============================================================================
