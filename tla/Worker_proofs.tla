--------------------------- MODULE Worker_proofs ---------------------------
(***************************************************************************)
(* Proofs about Worker: since the worker serves one operation at a time,   *)
(* what is proved of the operations with tools and of those with analysis  *)
(* windows holds of any sequence of both.                                  *)
(***************************************************************************)
EXTENDS Worker, SystemTools_proofs, AnalysisWindows_proofs

\* Every step of the worker is one of the operations with tools or leaves them alone, and
\* the same of the operations with windows.
LEMMA OneAtATime == [Next]_vars => [ToolNext]_toolVars /\ [WindowNext]_windowVars
BY DEF Next, ToolStep, WindowStep, vars

LEMMA ToolInvStays == Spec => []ToolInv
<1>1. Init => ToolInv
  BY InitToolInv DEF Init
<1>2. ToolInv /\ [Next]_vars => ToolInv'
  BY OneAtATime, StepToolInv
<1> QED BY <1>1, <1>2, PTL DEF Spec

LEMMA LimitInvStays == Spec => []LimitInv
<1>1. Init => LimitInv
  BY InitLimitInv DEF Init
<1>2. ToolInv /\ LimitInv /\ [Next]_vars => LimitInv'
  BY OneAtATime, StepLimitInv
<1> QED BY <1>1, <1>2, ToolInvStays, PTL DEF Spec

LEMMA WindowInvStays == Spec => [](WindowInv /\ SeriesKeepsEnds)
<1>1. Init => WindowInv /\ SeriesKeepsEnds
  BY InitWindowInv, SeriesInitially DEF Init
<1>2. WindowInv /\ SeriesKeepsEnds /\ [Next]_vars => (WindowInv /\ SeriesKeepsEnds)'
  BY OneAtATime, StepWindowInv, SeriesStays
<1> QED BY <1>1, <1>2, PTL DEF Spec

\* Whatever operations the worker serves, in whatever order, its state keeps its ranges;
\* in particular no source is ever left without rays (nsc.py:269).
THEOREM WorkerTypeCorrect == Spec => []TypeOK
<1>1. ToolInv /\ WindowInv => TypeOK
  BY DEF ToolInv, WindowInv, TypeOK
<1> QED BY <1>1, ToolInvStays, WindowInvStays, PTL

\* Of any sequence of operations with tools and with windows: tools are stopped before they
\* are closed, traces stay within their limits, an untruncated scan is whole, ray counts
\* and lens are set back, windows are closed, and data are taken from finished analyses only.
THEOREM WorkerCleansUp ==
  Spec => []( /\ ClosedWhenStopped /\ CountsRestored
              /\ TraceWithinLimit /\ UntruncatedIsWhole
              /\ EverythingClosed /\ OnlyFinishedData /\ LensRestored /\ SeriesKeepsEnds)
<1>1. ToolInv => ClosedWhenStopped /\ CountsRestored
  BY DEF ToolInv, ToolFollows, SavedAreTheUsers, ClosedWhenStopped, CountsRestored, At
<1>2. WindowInv => EverythingClosed /\ OnlyFinishedData /\ LensRestored
  BY DEF WindowInv, HeldWhileInUse, ReadWhenDone, ChangedForNow, EverythingClosed,
         OnlyFinishedData, LensRestored, Reached
<1> QED BY <1>1, <1>2, TraceStaysWithin, UntruncatedHasAll, ToolInvStays, LimitInvStays,
           WindowInvStays, PTL

\* Whatever operations come in between, a tool stays open only after the failures that may
\* leave one behind, and only one does.
THEOREM WorkerLeavesOnlyThere == Spec => LeftBehind
<1>1. ToolInv /\ [Next]_vars => [LeavesOnlyThere]_toolVars
  BY OneAtATime, LeavingSteps
<1>2. Spec => [][Next]_vars
  BY PTL DEF Spec
<1> QED BY <1>1, <1>2, ToolInvStays, PTL DEF LeftBehind, LeavesOnlyThere
=============================================================================
