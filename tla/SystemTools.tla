---------------------------- MODULE SystemTools ----------------------------
(***************************************************************************)
(* The operations that drive a tool of OpticStudio: optimization.py,       *)
(* general_tools.py, zrd.py, nsc.py (traces) and the ray traces of         *)
(* real_backend.py and analysis.py.  Each opens a tool, sets it up, runs   *)
(* it, cleans up and closes it; they differ in what may be refused when,   *)
(* in their time limits and in what the cleanup does.  OpticStudio lets    *)
(* one tool be open at a time, so a tool that is never closed refuses all  *)
(* later ones.  The operations run on the worker thread, one at a time;    *)
(* the tool itself runs in OpticStudio.                                    *)
(***************************************************************************)
EXTENDS RayDatabase, SourceRays

(* How each operation handles its tool.                                    *)
(*   refuses:   some arguments are refused before the tool is opened       *)
(*   returns:   some are refused afterwards, with a Close of their own     *)
(*   guarded:   the tool is set up inside the try that cleans up           *)
(*   runs:      the tool is run, and not only asked to clear detectors     *)
(*   limits:    whether a run may have a time limit, and no limit          *)
(*   strict:    a run that did not succeed raises                          *)
(*   cleanup:   what the finally clause does before it closes the tool     *)
(*   quiet:     exceptions of the cleanup are suppressed                   *)

\* A bug: the tool is set up before the try.
SetUpOutside(refuses, limits) ==
  [refuses |-> refuses, returns |-> FALSE, guarded |-> FALSE, runs |-> TRUE,
   limits |-> limits, strict |-> FALSE, cleanup |-> "cancel_wait", quiet |-> TRUE]
Optimization(refuses, limits) ==
  [refuses |-> refuses, returns |-> FALSE, guarded |-> TRUE, runs |-> TRUE,
   limits |-> limits, strict |-> FALSE, cleanup |-> "cancel_wait", quiet |-> TRUE]
General(returns) ==
  [refuses |-> TRUE, returns |-> returns, guarded |-> FALSE, runs |-> TRUE,
   limits |-> BOOLEAN, strict |-> TRUE, cleanup |-> "cancel", quiet |-> TRUE]
Trace(refuses, runs, strict, cleanup, quiet) ==
  [refuses |-> refuses, returns |-> FALSE, guarded |-> TRUE, runs |-> runs,
   limits |-> {FALSE}, strict |-> strict, cleanup |-> cleanup, quiet |-> quiet]

quick_focus     == Optimization(FALSE, {FALSE})
optimize        == Optimization(TRUE, {FALSE})
global_search   == Optimization(TRUE, BOOLEAN)
hammer          == Optimization(TRUE, {TRUE})
run_tolerancing == Optimization(TRUE, {TRUE})
scale_lens      == General(TRUE)
design_lockdown == General(FALSE)
zrd_read            == Trace(TRUE, TRUE, TRUE, "none", FALSE)
nsc_clear_detectors == Trace(TRUE, FALSE, FALSE, "none", FALSE)
nsc_ray_trace       == Trace(TRUE, TRUE, TRUE, "restore", FALSE)
ray_trace           == Trace(FALSE, TRUE, FALSE, "data", FALSE)
batch_ray_trace     == Trace(TRUE, TRUE, FALSE, "none", TRUE)

Handling ==
  [quick_focus |-> quick_focus, optimize |-> optimize, global_search |-> global_search,
   hammer |-> hammer, run_tolerancing |-> run_tolerancing, scale_lens |-> scale_lens,
   design_lockdown |-> design_lockdown, zrd_read |-> zrd_read,
   nsc_clear_detectors |-> nsc_clear_detectors, nsc_ray_trace |-> nsc_ray_trace,
   ray_trace |-> ray_trace, batch_ray_trace |-> batch_ray_trace]

Tools == DOMAIN Handling

VARIABLES call, \* the operation on the worker: what it is, how far, how it went
          tool, \* the tool it opened: "none", "open", "running", "cancelled", "stopped"
          left  \* the step at which a call ended with its tool still open

toolVars == <<call, tool, left, scan, sourceVars>>

Steps == {"idle", "open", "bound", "setup", "run", "read", "finish", "wait", "close", "done"}

NoCall == [op |-> "optimize", step |-> "idle", timed |-> FALSE, limit |-> 1,
           result |-> "none", ignored |-> {}]

ToolInit == /\ call = NoCall
            /\ tool = "none"
            /\ left = {}
            /\ scan = NoScan
            /\ SourceInit

How == Handling[call.op]
At(step) == call.step = step
Go(step) == call' = [call EXCEPT !.step = step]
Fail(step) == call' = [call EXCEPT !.step = step, !.result = "error"]
Succeed == call' = [call EXCEPT !.step = "finish", !.result = "ok"]

Begin(op) ==
  /\ At("idle")
  /\ \/ \E timed \in Handling[op].limits,
          limit \in IF op = "nsc_ray_trace" THEN TraceLimits ELSE {NoCall.limit} :
          call' = [NoCall EXCEPT !.op = op, !.step = "open", !.timed = timed, !.limit = limit]
     \/ /\ Handling[op].refuses
        /\ call' = [NoCall EXCEPT !.op = op, !.step = "done", !.result = "error"]
  /\ UNCHANGED <<tool, left, scan, sourceVars>>

\* A tool that was left open, and not only that, makes Open... answer None.
OpenTool ==
  /\ At("open")
  /\ \/ Fail("done") /\ UNCHANGED tool
     \/ /\ left = {}
        /\ tool' = "open"
        /\ Go(IF How.cleanup = "restore" THEN "bound" ELSE "setup")
  /\ UNCHANGED <<left, scan, sourceVars>>

\* The tool stays open when the worker leaves at this step.
Leave == /\ left' = left \cup {call.step}
         /\ tool' = "none"
         /\ Fail("done")

BoundRays ==
  /\ At("bound")
  /\ \/ Go("setup") /\ BoundSources(call.limit)
     \/ Fail("finish") /\ BoundingRaises(call.limit)
  /\ UNCHANGED <<tool, left, scan>>

\* Assignments to the tool; one of them may raise.
SetUp ==
  /\ At("setup")
  /\ \/ How.runs /\ tool' = "running" /\ Go("run") /\ UNCHANGED left
     \/ ~How.runs /\ Succeed /\ UNCHANGED <<tool, left>>
     \/ How.returns /\ tool' = "none" /\ Fail("done") /\ UNCHANGED left
     \/ How.guarded /\ Fail("finish") /\ UNCHANGED <<tool, left>>
     \/ ~How.guarded /\ Leave
  /\ UNCHANGED <<scan, sourceVars>>

\* In OpticStudio: a tool completes, or stops after a Cancel.
ToolStops == /\ tool \in {"running", "cancelled"}
             /\ tool' = "stopped"
             /\ UNCHANGED <<call, left, scan, sourceVars>>

\* RunAndWaitForCompletion() or RunAndWaitWithTimeout() returns with the tool
\* stopped, or at the time limit ...
RunReturns == /\ At("run")
              /\ tool = "stopped" \/ (tool = "running" /\ call.timed)
              /\ \/ IF call.op = "zrd_read" THEN Go("read") ELSE Succeed
                 \/ How.strict /\ Fail("finish")
              /\ UNCHANGED <<tool, left, scan, sourceVars>>
\* ... or raises.
RunRaises == /\ At("run")
             /\ Fail("finish")
             /\ UNCHANGED <<tool, left, scan, sourceVars>>

\* zrd_read: the loop that reads the results; an unexpected tuple raises.
ReadDatabase ==
  /\ At("read")
  /\ \/ scan = NoScan /\ StartScan /\ UNCHANGED call
     \/ scan # NoScan /\ ReadRay /\ UNCHANGED call
     \/ scan # NoScan /\ EndScan /\ Succeed
     \/ Fail("finish") /\ UNCHANGED scan
  /\ UNCHANGED <<tool, left, sourceVars>>

\* Exceptions of Cancel, WaitForCompletion and Close that are suppressed.
Ignore(what, step) == call' = [call EXCEPT !.step = step, !.ignored = @ \cup {what}]

\* A bug: a tool that was cancelled is closed without waiting for it.
CloseAtOnce(h) == "close"
AfterCancel(h) == IF h.cleanup = "cancel_wait" THEN "wait" ELSE "close"

\* A bug: the tool is waited for, but not cancelled.
NeverCancels(h) == FALSE
Cancels(h) == h.cleanup \in {"cancel", "cancel_wait"}

\* The finally clause, up to Close.
CleanUpTool ==
  /\ At("finish")
  /\ \/ /\ Cancels(How) /\ tool = "running"
        /\ \/ tool' = "cancelled" /\ Go(AfterCancel(How))
           \/ Ignore("cancel", AfterCancel(How)) /\ UNCHANGED tool
        /\ UNCHANGED <<left, sourceVars>>
     \/ /\ How.cleanup = "restore"
        /\ \/ RestoreSources /\ Go("close") /\ UNCHANGED <<tool, left>>
           \/ RestoringRaises /\ Leave
     \/ /\ How.cleanup = "data"
        /\ (Go("close") /\ UNCHANGED <<tool, left>>) \/ Leave
        /\ UNCHANGED sourceVars
     \/ /\ How.cleanup \notin {"restore", "data"} /\ ~(Cancels(How) /\ tool = "running")
        /\ Go(IF tool = "running" THEN AfterCancel(How) ELSE "close")
        /\ UNCHANGED <<tool, left, sourceVars>>
  /\ UNCHANGED scan

\* WaitForCompletion() returns with the tool stopped, or raises.
AwaitStop == /\ At("wait")
             /\ tool = "stopped"
             /\ Go("close")
             /\ UNCHANGED <<tool, left, scan, sourceVars>>
AwaitRaises == /\ At("wait")
               /\ Ignore("wait", "close")
               /\ UNCHANGED <<tool, left, scan, sourceVars>>

CloseTool ==
  /\ At("close")
  /\ \/ Go("done") /\ UNCHANGED left
     \/ /\ IF How.quiet THEN Ignore("close", "done") ELSE Fail("done")
        /\ left' = left \cup {"close"}
  /\ tool' = "none"
  /\ UNCHANGED <<scan, sourceVars>>

\* The result, or the exception, goes to the caller.
Return == /\ At("done")
          /\ call' = NoCall
          /\ scan' = NoScan
          /\ Forget
          /\ UNCHANGED <<tool, left>>

ToolWork == \/ OpenTool \/ BoundRays \/ SetUp \/ RunReturns \/ ReadDatabase
            \/ CleanUpTool \/ AwaitStop \/ CloseTool \/ Return
ToolNext == (\E op \in Tools : Begin(op)) \/ ToolWork \/ RunRaises \/ AwaitRaises \/ ToolStops

\* Once called an operation works until it ends, but a call that blocks need not
\* return; what a tool promises is only that it stops when it is cancelled.
ToolFairness == /\ WF_toolVars(ToolWork)
                /\ WF_toolVars(tool = "cancelled" /\ ToolStops)
ToolSpec == ToolInit /\ [][ToolNext]_toolVars /\ ToolFairness

-----------------------------------------------------------------------------
Calls == [op : Tools, step : Steps, timed : BOOLEAN, limit : TraceLimits \cup {1},
          result : {"none", "ok", "error"}, ignored : SUBSET {"cancel", "wait", "close"}]

\* No source is ever left without rays, whatever the limit and the number of sources.
ToolTypeOK ==
  /\ call \in Calls
  /\ tool \in {"none", "open", "running", "cancelled", "stopped"}
  /\ left \subseteq Steps
  /\ scan = NoScan \/ scan \in Counted
  /\ counts \in [Sources -> Nat \ {0}]
  /\ user \in [Sources -> Nat \ {0}]
  /\ saved = NoCounts \/ saved \in [Sources -> Nat \ {0}]

\* Only what the set-up of scale_lens and design_lockdown, the cleanup of the two
\* ray traces and a failing Close may leave a tool behind; and none does after it,
\* since no tool opens any more.
LeftBehind ==
  [][left' # left =>
       /\ left = {}
       /\ \/ At("close")
          \/ At("setup") /\ call.op \in {"scale_lens", "design_lockdown"}
          \/ At("finish") /\ call.op \in {"ray_trace", "nsc_ray_trace"}]_toolVars

\* optimization.py:4: a tool that is still running is cancelled before it is closed,
\* and waited for, unless Cancel or WaitForCompletion raised.
ClosedWhenStopped ==
  At("close") /\ How.cleanup = "cancel_wait" => tool \in {"open", "stopped"} \/ call.ignored # {}

\* nsc.py:256: a trace runs with the limit divided among the sources, which is
\* exceeded only when it is smaller than their number.
TraceWithinLimit ==
  At("run") /\ call.op = "nsc_ray_trace" =>
    /\ Traced <= call.limit \/ Traced <= Cardinality(Sources)
    /\ \A s \in Sources : counts[s] <= user[s]

\* nsc.py:256, "Temporarily": the ray counts are the user's again when the tool is
\* closed, if they had all been reduced, and after every trace that succeeded.
CountsRestored ==
  /\ At("close") /\ saved # NoCounts => counts = user
  /\ At("done") /\ call.result = "ok" => counts = user

\* zrd.py:73: an answer that is not marked as truncated holds the whole file, and no
\* answer exceeds its limits.
UntruncatedIsWhole ==
  scan # NoScan => /\ WithinLimits
                   /\ call.result = "ok" /\ ~scan.truncated => WholeFile

\* optimization.py:5, "hard timeouts": an operation with a time limit ends, unless
\* its tool could not be cancelled: then WaitForCompletion has no limit.
TimedToolEnds ==
  call.timed ~> At("idle") \/ (At("wait") /\ "cancel" \in call.ignored)
=============================================================================
