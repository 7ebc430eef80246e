------------------------------- MODULE Worker -------------------------------
(***************************************************************************)
(* What the worker thread of ZOSExecutor does with OpticStudio: it serves  *)
(* one operation after another, each of them either one that opens a tool  *)
(* or one that opens an analysis window (RealZOSBackend._operations).      *)
(***************************************************************************)
EXTENDS SystemTools, AnalysisWindows

vars == <<toolVars, windowVars>>

Init == ToolInit /\ WindowInit

\* One operation at a time: the other kind has nothing under way.
ToolStep(A) == A /\ Reached("idle") /\ UNCHANGED windowVars
WindowStep(A) == A /\ At("idle") /\ UNCHANGED toolVars

Next == ToolStep(ToolNext) \/ WindowStep(WindowNext)

\* An operation that has been called works on until it ends; of OpticStudio it is
\* assumed only that a tool stops once it is cancelled.
Fairness == /\ WF_vars(ToolStep(ToolWork))
            /\ WF_vars(ToolStep(tool = "cancelled" /\ ToolStops))
            /\ WF_vars(WindowStep(WindowWork))

Spec == Init /\ [][Next]_vars
FairSpec == Spec /\ Fairness

-----------------------------------------------------------------------------
\* The state of both kinds of operations is well formed: in particular a source
\* never has its ray count reduced to nothing (nsc.py:269).
TypeOK == ToolTypeOK /\ WindowTypeOK
=============================================================================
