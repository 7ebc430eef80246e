------------------------- MODULE SystemTools_proofs -------------------------
(***************************************************************************)
(* Proofs about SystemTools, for any sources and ray counts, any limits    *)
(* and any ray databases: which operations may leave a tool behind, that a *)
(* tool is stopped when it is closed, that the ray counts are the user's   *)
(* again and that a scan keeps within its limits.                          *)
(***************************************************************************)
EXTENDS SystemTools, Sampling_proofs, FiniteSetTheorems, SequenceTheorems

-----------------------------------------------------------------------------
(* The inductive invariant, in named parts. *)

\* What the tool of an operation may be doing at each of its steps.
ToolFollows ==
  /\ call.step \in {"idle", "open", "done"} => tool = "none"
  /\ call.step \in {"bound", "setup"} => tool = "open"
  /\ call.step \in {"run", "read"} => tool \in {"running", "stopped"}
  /\ call.step = "finish" => tool \in {"open", "running", "stopped"}
  /\ call.step = "wait" => How.cleanup = "cancel_wait"
  /\ call.step = "close" => ClosedWhenStopped

\* A tool that was left behind lets no operation pass its opening.
BlockedOnceLeft == call.step \notin {"idle", "open", "done"} => left = {}

\* The ray counts differ from the user's only while a trace that bounds them is on, and
\* what it saved is what it found.
SavedAreTheUsers ==
  /\ saved = NoCounts \/ saved = user
  /\ How.cleanup # "restore" \/ call.step \in {"idle", "open", "bound"} => counts = user
  /\ call.step \in {"setup", "run"} => How.cleanup # "restore" \/ saved = user
  /\ call.step = "bound" => How.cleanup = "restore"
  /\ call.step = "read" => How.cleanup = "none"
  /\ call.result = "ok" => (call.step = "finish" /\ saved = user) \/ counts = user
  /\ call.step = "close" => saved # user \/ counts = user
  /\ call.step \in {"idle", "open", "bound"} => call.result = "none"

ScanInLimits == scan # NoScan => WithinLimits

ToolInv == ToolTypeOK /\ ToolFollows /\ BlockedOnceLeft /\ SavedAreTheUsers /\ ScanInLimits

-----------------------------------------------------------------------------
\* What the invariant needs to know of the table of operations.
LEMMA TableOfTools ==
  /\ "optimize" \in Tools
  /\ \A op \in Tools :
       LET h == Handling[op]
       IN  /\ h.cleanup \in {"none", "cancel", "cancel_wait", "restore", "data"}
           /\ h.limits \subseteq BOOLEAN
           /\ ~h.guarded => op \in {"scale_lens", "design_lockdown"}
           /\ h.cleanup = "restore" => op = "nsc_ray_trace"
           /\ h.cleanup = "data" => op = "ray_trace"
           /\ op = "zrd_read" => h.cleanup = "none"
<1> DEFINE Good(op, h) ==
      /\ h.cleanup \in {"none", "cancel", "cancel_wait", "restore", "data"}
      /\ h.limits \subseteq BOOLEAN
      /\ ~h.guarded => op \in {"scale_lens", "design_lockdown"}
      /\ h.cleanup = "restore" => op = "nsc_ray_trace"
      /\ h.cleanup = "data" => op = "ray_trace"
      /\ op = "zrd_read" => h.cleanup = "none"
<1>1. /\ Good("quick_focus", quick_focus) /\ Good("optimize", optimize)
      /\ Good("global_search", global_search) /\ Good("hammer", hammer)
      /\ Good("run_tolerancing", run_tolerancing)
  BY DEF quick_focus, optimize, global_search, hammer, run_tolerancing, Optimization
<1>2. Good("scale_lens", scale_lens) /\ Good("design_lockdown", design_lockdown)
  BY DEF scale_lens, design_lockdown, General
<1>3. /\ Good("zrd_read", zrd_read) /\ Good("nsc_clear_detectors", nsc_clear_detectors)
      /\ Good("nsc_ray_trace", nsc_ray_trace) /\ Good("ray_trace", ray_trace)
      /\ Good("batch_ray_trace", batch_ray_trace)
  BY DEF zrd_read, nsc_clear_detectors, nsc_ray_trace, ray_trace, batch_ray_trace, Trace
<1>4. Tools = {"quick_focus", "optimize", "global_search", "hammer", "run_tolerancing",
               "scale_lens", "design_lockdown", "zrd_read", "nsc_clear_detectors",
               "nsc_ray_trace", "ray_trace", "batch_ray_trace"}
  BY DEF Tools, Handling
<1> HIDE DEF Good
<1>5. \A op \in Tools : Good(op, Handling[op])
  BY <1>1, <1>2, <1>3, <1>4 DEF Handling
<1> QED BY <1>4, <1>5 DEF Good

\* What the changes of its record do to the call.
LEMMA Gone ==
  ASSUME call \in Calls, NEW step \in Steps, NEW result \in {"none", "ok", "error"},
         \/ call' = [call EXCEPT !.step = step] /\ result = call.result
         \/ call' = [call EXCEPT !.step = step, !.result = result]
  PROVE  /\ call' \in Calls
         /\ call'.op = call.op /\ call'.step = step /\ call'.result = result
         /\ call'.ignored = call.ignored
<1>1. call' \in Calls
  BY Zenon DEF Calls
<1> QED BY <1>1 DEF Calls

LEMMA Ignored ==
  ASSUME call \in Calls, NEW step \in Steps, NEW ignored \in SUBSET {"cancel", "wait", "close"},
         call' = [call EXCEPT !.step = step, !.ignored = ignored]
  PROVE  /\ call' \in Calls
         /\ call'.op = call.op /\ call'.step = step /\ call'.result = call.result
         /\ call'.ignored = ignored
<1>1. call' \in Calls
  BY Zenon DEF Calls
<1> QED BY <1>1 DEF Calls

LEMMA InitToolInv == ToolInit => ToolInv
<1> SUFFICES ASSUME ToolInit PROVE ToolInv
  OBVIOUS
<1>1. call \in Calls /\ call.step = "idle" /\ call.result = "none" /\ How.cleanup = "cancel_wait"
  <2>1. NoCall.op = "optimize" /\ optimize.cleanup = "cancel_wait"
    BY DEF NoCall, optimize, Optimization
  <2> QED BY <2>1, TableOfTools DEF ToolInit, NoCall, Calls, Steps, How, Handling
<1>2. /\ tool = "none" /\ left = {} /\ scan = NoScan
      /\ counts \in [Sources -> RayCounts] /\ saved = NoCounts /\ user = counts
  BY DEF ToolInit, SourceInit
<1>3. counts \in [Sources -> Nat \ {0}]
  BY <1>2, SourceAssumption
<1> QED BY <1>1, <1>2, <1>3
        DEF ToolInv, ToolTypeOK, ToolFollows, BlockedOnceLeft, SavedAreTheUsers, ScanInLimits

\* The steps that leave the sources and the scan alone.  An operation that is called, ...
LEMMA BeginKeepsToolInv == ASSUME ToolInv, NEW op \in Tools, Begin(op) PROVE ToolInv'
<1>1. /\ call.step = "idle" /\ tool = "none" /\ counts = user
      /\ UNCHANGED <<tool, left, scan, counts, saved, user>>
  BY DEF Begin, At, ToolInv, ToolFollows, SavedAreTheUsers, sourceVars
<1>2. call' \in Calls /\ call'.step \in {"open", "done"} /\ call'.result \in {"none", "error"}
      /\ (call'.step = "open" => call'.result = "none")
  <2>1. NoCall \in Calls /\ NoCall.result = "none"
    BY TableOfTools DEF NoCall, Calls, Steps
  <2>2. ASSUME NEW timed \in Handling[op].limits, NEW limit \in TraceLimits \cup {1},
               call' = [NoCall EXCEPT !.op = op, !.step = "open", !.timed = timed, !.limit = limit]
        PROVE  call' \in Calls /\ call'.step = "open" /\ call'.result = "none"
    <3>1. timed \in BOOLEAN /\ "open" \in Steps
      BY TableOfTools DEF Steps
    <3>2. call' \in Calls
      BY <2>1, <2>2, <3>1, Zenon DEF Calls
    <3> QED BY <2>2, <3>2 DEF NoCall
  <2>3. ASSUME call' = [NoCall EXCEPT !.op = op, !.step = "done", !.result = "error"]
        PROVE  call' \in Calls /\ call'.step = "done" /\ call'.result = "error"
    <3>1. "done" \in Steps /\ "error" \in {"none", "ok", "error"}
      BY DEF Steps
    <3>2. call' \in Calls
      BY <2>1, <2>3, <3>1, Zenon DEF Calls
    <3> QED BY <2>3, <3>2 DEF NoCall
  <2>4. NoCall.limit = 1
    BY DEF NoCall
  <2> QED BY <2>2, <2>3, <2>4 DEF Begin
<1> QED BY <1>1, <1>2
        DEF ToolInv, ToolTypeOK, ToolFollows, BlockedOnceLeft, SavedAreTheUsers, ScanInLimits,
            WithinLimits

\* ... the ways in which a call may go on, ...
LEMMA Moves ==
  ASSUME call \in Calls, NEW step \in Steps
  PROVE  /\ Go(step) => /\ call' \in Calls /\ call'.op = call.op /\ call'.step = step
                        /\ call'.result = call.result /\ call'.ignored = call.ignored
         /\ Fail(step) => /\ call' \in Calls /\ call'.op = call.op /\ call'.step = step
                          /\ call'.result = "error" /\ call'.ignored = call.ignored
         /\ \A what \in {"cancel", "wait", "close"} : Ignore(what, step) =>
              /\ call' \in Calls /\ call'.op = call.op /\ call'.step = step
              /\ call'.result = call.result /\ call'.ignored = call.ignored \cup {what}
<1>1. call.result \in {"none", "ok", "error"} /\ call.ignored \in SUBSET {"cancel", "wait", "close"}
  BY DEF Calls
<1>2. ASSUME Go(step)
      PROVE  /\ call' \in Calls /\ call'.op = call.op /\ call'.step = step
             /\ call'.result = call.result /\ call'.ignored = call.ignored
  BY <1>1, <1>2, Gone DEF Go
<1>3. ASSUME Fail(step)
      PROVE  /\ call' \in Calls /\ call'.op = call.op /\ call'.step = step
             /\ call'.result = "error" /\ call'.ignored = call.ignored
  BY <1>1, <1>3, Gone DEF Fail
<1>4. ASSUME NEW what \in {"cancel", "wait", "close"}, Ignore(what, step)
      PROVE  /\ call' \in Calls /\ call'.op = call.op /\ call'.step = step
             /\ call'.result = call.result /\ call'.ignored = call.ignored \cup {what}
  <2> DEFINE ignored == call.ignored \cup {what}
  <2>1. ignored \in SUBSET {"cancel", "wait", "close"}
    BY <1>1
  <2>2. call' = [call EXCEPT !.step = step, !.ignored = ignored]
    BY <1>4 DEF Ignore
  <2> HIDE DEF ignored
  <2> QED BY <2>1, <2>2, Ignored DEF ignored
<1> QED BY <1>2, <1>3, <1>4

LEMMA Succeeds ==
  ASSUME call \in Calls, Succeed
  PROVE  /\ call' \in Calls /\ call'.op = call.op /\ call'.step = "finish"
         /\ call'.result = "ok" /\ call'.ignored = call.ignored
<1>1. call.ignored \in SUBSET {"cancel", "wait", "close"} /\ "finish" \in Steps
  BY DEF Calls, Steps
<1> QED BY <1>1, Gone DEF Succeed

\* ... the opening and the set-up of the tool, ...
LEMMA OpenKeepsToolInv == ASSUME ToolInv, OpenTool PROVE ToolInv'
<1>1. /\ call \in Calls /\ call.step = "open" /\ tool = "none" /\ counts = user
      /\ call.result = "none"
      /\ UNCHANGED <<left, scan, counts, saved, user>>
  BY DEF OpenTool, At, ToolInv, ToolTypeOK, ToolFollows, SavedAreTheUsers, sourceVars
<1>2. call' \in Calls /\ call'.op = call.op
      /\ \/ call'.step = "done" /\ tool' = "none" /\ call'.result = "error"
         \/ /\ call'.step = IF How.cleanup = "restore" THEN "bound" ELSE "setup"
            /\ tool' = "open" /\ left = {} /\ call'.result = "none"
  <2>1. {"done", "bound", "setup"} \subseteq Steps
    BY DEF Steps
  <2> QED BY <1>1, <2>1, Moves DEF OpenTool
<1> QED BY <1>1, <1>2
        DEF ToolInv, ToolTypeOK, ToolFollows, BlockedOnceLeft, SavedAreTheUsers, ScanInLimits,
            WithinLimits, How

\* The share of a source is a ray at least, so no source is left without rays.
LEMMA LoweredType ==
  ASSUME counts \in [Sources -> Nat \ {0}], NEW S, NEW limit \in Nat \ {0}
  PROVE  Lowered(S, limit) \in [Sources -> Nat \ {0}]
<1> SUFFICES ASSUME NEW s \in Sources
             PROVE  Smaller(counts[s], PerSource(limit, Cardinality(Sources))) \in Nat \ {0}
  BY DEF Lowered
<1>1. Cardinality(Sources) \in Nat \ {0}
  BY SourceAssumption, FS_CardinalityType, FS_EmptySet
<1>2. PerSource(limit, Cardinality(Sources)) \in Nat \ {0}
  BY <1>1, ShareOfLimit
<1> QED BY <1>2 DEF Smaller

LEMMA BoundKeepsToolInv == ASSUME ToolInv, BoundRays PROVE ToolInv'
<1>1. /\ call \in Calls /\ call.step = "bound" /\ tool = "open" /\ counts = user /\ left = {}
      /\ call.result = "none" /\ How.cleanup = "restore" /\ counts \in [Sources -> Nat \ {0}]
  BY DEF BoundRays, At, ToolInv, ToolTypeOK, ToolFollows, SavedAreTheUsers, BlockedOnceLeft
<1>2. UNCHANGED <<tool, left, scan, user>>
  BY DEF BoundRays, BoundSources, BoundingRaises
<1>3. call.limit \in Nat \ {0}
  <2>1. call.limit \in TraceLimits \cup {1}
    BY <1>1 DEF Calls
  <2>2. TraceLimits \subseteq Nat \ {0}
    BY SourceAssumption
  <2>3. CASE call.limit \in TraceLimits
    BY <2>2, <2>3
  <2>4. CASE call.limit = 1
    BY <2>4
  <2> QED BY <2>1, <2>3, <2>4
<1>4. /\ call' \in Calls /\ call'.op = call.op
      /\ \/ call'.step = "setup" /\ call'.result = "none" /\ saved' = counts
         \/ call'.step = "finish" /\ call'.result = "error" /\ saved' = saved
  BY <1>1, Moves DEF BoundRays, BoundSources, BoundingRaises, Steps
<1>5. counts' \in [Sources -> Nat \ {0}]
  BY <1>1, <1>3, LoweredType DEF BoundRays, BoundSources, BoundingRaises
<1> QED BY <1>1, <1>2, <1>4, <1>5
        DEF ToolInv, ToolTypeOK, ToolFollows, BlockedOnceLeft, SavedAreTheUsers, ScanInLimits,
            WithinLimits, How

LEMMA SetUpKeepsToolInv == ASSUME ToolInv, SetUp PROVE ToolInv'
<1>1. /\ call \in Calls /\ call.step = "setup" /\ tool = "open" /\ left = {}
      /\ UNCHANGED <<scan, counts, saved, user>>
  BY DEF SetUp, At, ToolInv, ToolTypeOK, ToolFollows, BlockedOnceLeft, sourceVars
<1>2. /\ call' \in Calls /\ call'.op = call.op /\ left' \subseteq Steps
      /\ \/ call'.step = "run" /\ tool' = "running" /\ call'.result = call.result /\ left' = left
         \/ call'.step = "finish" /\ tool' = "open" /\ left' = left
         \/ call'.step = "done" /\ tool' = "none" /\ call'.result = "error"
  BY <1>1, Moves, Succeeds DEF SetUp, Leave, Steps
<1>3. How.cleanup # "restore" => counts = user
  BY DEF ToolInv, SavedAreTheUsers
<1>4. How.cleanup = "restore" => saved = user
  BY <1>1 DEF ToolInv, SavedAreTheUsers
<1> QED BY <1>1, <1>2, <1>3, <1>4
        DEF ToolInv, ToolTypeOK, ToolFollows, BlockedOnceLeft, SavedAreTheUsers, ScanInLimits,
            WithinLimits, How

\* ... the run, ...
LEMMA StopKeepsToolInv == ASSUME ToolInv, ToolStops PROVE ToolInv'
BY DEF ToolStops, ToolInv, ToolTypeOK, ToolFollows, BlockedOnceLeft, SavedAreTheUsers,
       ScanInLimits, WithinLimits, How, ClosedWhenStopped, At, sourceVars

LEMMA RunKeepsToolInv == ASSUME ToolInv, RunReturns \/ RunRaises PROVE ToolInv'
<1>1. /\ call \in Calls /\ call.step = "run" /\ tool \in {"running", "stopped"} /\ left = {}
      /\ UNCHANGED <<tool, left, scan, counts, saved, user>>
      /\ How.cleanup # "restore" => counts = user
      /\ How.cleanup = "restore" => saved = user
      /\ call.op = "zrd_read" => How.cleanup = "none"
  BY TableOfTools
  DEF RunReturns, RunRaises, At, ToolInv, ToolTypeOK, ToolFollows, BlockedOnceLeft,
      SavedAreTheUsers, sourceVars, How, Calls
<1>2. /\ call' \in Calls /\ call'.op = call.op
      /\ \/ call.op = "zrd_read" /\ call'.step = "read" /\ call'.result = call.result
         \/ call'.step = "finish"
  BY <1>1, Moves, Succeeds DEF RunReturns, RunRaises, Steps
<1> QED BY <1>1, <1>2
        DEF ToolInv, ToolTypeOK, ToolFollows, BlockedOnceLeft, SavedAreTheUsers, ScanInLimits,
            WithinLimits, How

\* ... the scan of a ray database, ...
LEMMA ScanType ==
  ASSUME scan = NoScan \/ scan \in Counted, ScanInLimits,
         StartScan \/ (scan # NoScan /\ ReadRay) \/ (scan # NoScan /\ EndScan)
  PROVE  scan' \in Counted /\ ScanInLimits'
<1>1. CASE StartScan
  <2>1. PICK f \in Databases, r \in RayLimits, s \in SegmentLimits :
          scan' = [file |-> f, maxRays |-> r, maxSegments |-> s,
                   rays |-> 0, segments |-> 0, truncated |-> FALSE]
    BY <1>1 DEF StartScan
  <2>2. r \in Nat /\ s \in Nat
    BY DatabaseAssumption
  <2> QED BY <2>1, <2>2 DEF Counted, ScanInLimits, WithinLimits
<1>2. ASSUME scan \in Counted, WithinLimits, ReadRay PROVE scan' \in Counted /\ WithinLimits'
  <2> DEFINE ray == scan.file[scan.rays + 1]
             room == scan.maxSegments - scan.segments
             read == Smaller(room, Smaller(ray.declared, ray.held))
  <2>1. /\ scan.file \in Seq([declared : Nat, held : Nat])
        /\ scan.rays \in Nat /\ scan.segments \in Nat
        /\ scan.maxRays \in Nat /\ scan.maxSegments \in Nat
        /\ scan.rays < scan.maxRays /\ scan.rays < Len(scan.file)
        /\ scan.segments <= scan.maxSegments
    BY <1>2, DatabaseAssumption DEF Counted, ReadRay, Unread, WithinLimits
  <2>2. ray \in [declared : Nat, held : Nat]
    <3>1. scan.rays + 1 \in 1..Len(scan.file)
      BY <2>1
    <3> QED BY <2>1, <3>1, ElementOfSeq
  <2>3. read \in Nat /\ scan.segments + read <= scan.maxSegments
    <3>1. ray.declared \in Nat /\ ray.held \in Nat /\ room \in Nat
      BY <2>1, <2>2
    <3>2. read \in Nat /\ read <= room
      <4> HIDE DEF ray, room
      <4> QED BY <3>1, SmallerOfTwo
    <3> HIDE DEF read
    <3> QED BY <2>1, <3>2
  <2>4. scan' = [scan EXCEPT !.rays = @ + 1, !.segments = @ + read,
                             !.truncated = CutShort(room, ray)]
    BY <1>2 DEF ReadRay
  <2>5. CutShort(room, ray) \in BOOLEAN
    BY DEF CutShort
  <2> HIDE DEF ray, room, read
  <2>6. scan.rays + 1 \in Nat /\ scan.segments + read \in Nat
    BY <2>1, <2>3
  <2>7. scan' \in Counted
    BY <1>2, <2>4, <2>5, <2>6, Zenon DEF Counted
  <2>8. /\ scan'.rays = scan.rays + 1 /\ scan'.segments = scan.segments + read
        /\ scan'.maxRays = scan.maxRays /\ scan'.maxSegments = scan.maxSegments
    BY <1>2, <2>4 DEF Counted
  <2> QED BY <2>1, <2>3, <2>7, <2>8 DEF WithinLimits
<1>3. ASSUME scan \in Counted, WithinLimits, EndScan PROVE scan' \in Counted /\ WithinLimits'
  <2>1. scan' = [scan EXCEPT !.truncated = scan.truncated \/ scan.rays >= scan.maxRays]
    BY <1>3 DEF EndScan
  <2>2. (scan.truncated \/ scan.rays >= scan.maxRays) \in BOOLEAN
    OBVIOUS
  <2>3. scan' \in Counted
    BY <1>3, <2>1, <2>2, Zenon DEF Counted
  <2>4. /\ scan'.rays = scan.rays /\ scan'.segments = scan.segments
        /\ scan'.maxRays = scan.maxRays /\ scan'.maxSegments = scan.maxSegments
    BY <1>3, <2>1 DEF Counted
  <2> QED BY <1>3, <2>3, <2>4 DEF WithinLimits
<1> QED BY <1>1, <1>2, <1>3 DEF ScanInLimits

LEMMA ReadKeepsToolInv == ASSUME ToolInv, ReadDatabase PROVE ToolInv'
<1>1. /\ call \in Calls /\ call.step = "read" /\ tool \in {"running", "stopped"} /\ left = {}
      /\ UNCHANGED <<tool, left, counts, saved, user>>
  BY DEF ReadDatabase, At, ToolInv, ToolTypeOK, ToolFollows, BlockedOnceLeft, sourceVars
<1>2. (scan' = NoScan \/ scan' \in Counted) /\ ScanInLimits'
  <2>1. CASE UNCHANGED scan
    BY <2>1 DEF ToolInv, ToolTypeOK, ScanInLimits, WithinLimits
  <2> QED BY <2>1, ScanType DEF ReadDatabase, ToolInv, ToolTypeOK
<1>3. /\ call' \in Calls /\ call'.op = call.op
      /\ call'.step \in {"read", "finish"}
      /\ call'.step = "read" => call'.result = call.result
  BY <1>1, Moves, Succeeds DEF ReadDatabase, Steps
<1>4. counts = user /\ How.cleanup = "none"
  BY <1>1 DEF ToolInv, SavedAreTheUsers
<1> QED BY <1>1, <1>2, <1>3, <1>4
        DEF ToolInv, ToolTypeOK, ToolFollows, BlockedOnceLeft, SavedAreTheUsers, How

\* ... the cleanup ...
LEMMA RestoredType ==
  ASSUME counts \in [Sources -> Nat \ {0}], saved = NoCounts \/ saved \in [Sources -> Nat \ {0}],
         NEW S \in SUBSET DOMAIN saved, Reset(S)
  PROVE  /\ counts' \in [Sources -> Nat \ {0}]
         /\ S = DOMAIN saved /\ saved \in [Sources -> Nat \ {0}] => counts' = saved
BY DEF Reset, NoCounts

LEMMA CleanUpKeepsToolInv == ASSUME ToolInv, CleanUpTool PROVE ToolInv'
<1>1. /\ call \in Calls /\ call.step = "finish" /\ tool \in {"open", "running", "stopped"}
      /\ left = {} /\ UNCHANGED <<scan, saved, user>>
      /\ counts \in [Sources -> Nat \ {0}] /\ user \in [Sources -> Nat \ {0}]
      /\ saved = NoCounts \/ saved \in [Sources -> Nat \ {0}]
      /\ How.cleanup # "restore" => counts = user
      /\ call.result = "ok" => saved = user \/ counts = user
  BY DEF CleanUpTool, RestoreSources, RestoringRaises, At, ToolInv, ToolTypeOK, ToolFollows,
         BlockedOnceLeft, SavedAreTheUsers, sourceVars
<1>2. {"close", "wait", "done"} \subseteq Steps
  BY DEF Steps
<1>3. AfterCancel(How) = IF How.cleanup = "cancel_wait" THEN "wait" ELSE "close"
  BY DEF AfterCancel
<1>4. ASSUME Cancels(How), tool = "running", UNCHANGED <<left, sourceVars>>,
             \/ tool' = "cancelled" /\ Go(AfterCancel(How))
             \/ Ignore("cancel", AfterCancel(How)) /\ UNCHANGED tool
      PROVE  ToolInv'
  <2>1. /\ call' \in Calls /\ call'.op = call.op /\ call'.result = call.result
        /\ call'.step = AfterCancel(How) /\ tool' \in {"running", "cancelled"}
        /\ counts' = counts
    BY <1>1, <1>2, <1>3, <1>4, Moves DEF sourceVars
  <2>2. How.cleanup # "restore" /\ (call'.step = "close" => How.cleanup # "cancel_wait")
    BY <1>3, <1>4, <2>1 DEF Cancels
  <2> QED BY <1>1, <1>3, <1>4, <2>1, <2>2
          DEF ToolInv, ToolTypeOK, ToolFollows, BlockedOnceLeft, SavedAreTheUsers, ScanInLimits,
              WithinLimits, ClosedWhenStopped, At, How
<1>5. ASSUME How.cleanup = "restore", RestoreSources, Go("close"), UNCHANGED <<tool, left>>
      PROVE  ToolInv'
  <2>1. call' \in Calls /\ call'.op = call.op /\ call'.result = call.result /\ call'.step = "close"
    BY <1>1, <1>2, <1>5, Moves
  <2>2. counts' \in [Sources -> Nat \ {0}] /\ (saved = user => counts' = user)
    BY <1>1, <1>5, RestoredType DEF RestoreSources
  <2>3. saved # user /\ call.result = "ok" => counts' = user
    <3> SUFFICES ASSUME saved = NoCounts, counts = user PROVE counts' = user
      BY <1>1, <2>2 DEF ToolInv, SavedAreTheUsers
    <3> QED BY <1>1, <1>5 DEF RestoreSources, Reset, NoCounts
  <2> QED BY <1>1, <1>5, <2>1, <2>2, <2>3
          DEF ToolInv, ToolTypeOK, ToolFollows, BlockedOnceLeft, SavedAreTheUsers, ScanInLimits,
              WithinLimits, ClosedWhenStopped, At, How
<1>6. ASSUME Leave,
             \/ How.cleanup = "restore" /\ RestoringRaises
             \/ How.cleanup = "data" /\ UNCHANGED sourceVars
      PROVE  ToolInv'
  <2>1. /\ call' \in Calls /\ call'.op = call.op /\ call'.result = "error"
        /\ call'.step = "done" /\ tool' = "none" /\ left' \subseteq Steps
    BY <1>1, <1>2, <1>6, Moves DEF Leave, ToolInv, ToolTypeOK, Calls
  <2>2. counts' \in [Sources -> Nat \ {0}] /\ (How.cleanup # "restore" => counts' = user)
    BY <1>1, <1>6, RestoredType DEF RestoringRaises, sourceVars
  <2> QED BY <1>1, <2>1, <2>2
          DEF ToolInv, ToolTypeOK, ToolFollows, BlockedOnceLeft, SavedAreTheUsers, ScanInLimits,
              WithinLimits, How
<1>7. ASSUME How.cleanup # "restore", UNCHANGED <<tool, left, sourceVars>>,
             Go("close") \/ Go(AfterCancel(How)),
             Go("close") => How.cleanup # "cancel_wait" \/ tool # "running"
      PROVE  ToolInv'
  <2>1. /\ call' \in Calls /\ call'.op = call.op /\ call'.result = call.result
        /\ call'.step \in {"close", AfterCancel(How)} /\ counts' = counts
        /\ call'.step = "close" => How.cleanup # "cancel_wait" \/ tool # "running"
    BY <1>1, <1>2, <1>3, <1>7, Moves DEF sourceVars
  <2> QED BY <1>1, <1>3, <1>7, <2>1
          DEF ToolInv, ToolTypeOK, ToolFollows, BlockedOnceLeft, SavedAreTheUsers, ScanInLimits,
              WithinLimits, ClosedWhenStopped, At, How
<1>8. How.cleanup \notin {"restore", "data"} /\ ~(Cancels(How) /\ tool = "running")
        => (tool = "running" => How.cleanup # "cancel_wait")
  BY DEF Cancels
<1> QED BY <1>4, <1>5, <1>6, <1>7, <1>8 DEF CleanUpTool

\* ... and the end.
LEMMA AwaitKeepsToolInv == ASSUME ToolInv, AwaitStop \/ AwaitRaises PROVE ToolInv'
<1>1. /\ call \in Calls /\ call.step = "wait" /\ How.cleanup = "cancel_wait" /\ left = {}
      /\ counts = user /\ UNCHANGED <<tool, left, scan, counts, saved, user>>
  BY DEF AwaitStop, AwaitRaises, At, ToolInv, ToolTypeOK, ToolFollows, BlockedOnceLeft,
         SavedAreTheUsers, sourceVars
<1>2. /\ call' \in Calls /\ call'.op = call.op /\ call'.result = call.result
      /\ call'.step = "close" /\ (tool = "stopped" \/ call'.ignored # {})
  BY <1>1, Moves DEF AwaitStop, AwaitRaises, Steps
<1> QED BY <1>1, <1>2
        DEF ToolInv, ToolTypeOK, ToolFollows, BlockedOnceLeft, SavedAreTheUsers, ScanInLimits,
            WithinLimits, ClosedWhenStopped, At, How

LEMMA CloseKeepsToolInv == ASSUME ToolInv, CloseTool PROVE ToolInv'
<1>1. /\ call \in Calls /\ call.step = "close"
      /\ tool' = "none" /\ UNCHANGED <<scan, counts, saved, user>>
  BY DEF CloseTool, At, ToolInv, ToolTypeOK, sourceVars
<1>2. /\ call' \in Calls /\ call'.op = call.op /\ call'.result \in {call.result, "error"}
      /\ call'.step = "done" /\ left' \in {left, left \cup {"close"}}
  BY <1>1, Moves DEF CloseTool, Steps
<1>3. left' \subseteq Steps
  BY <1>2 DEF ToolInv, ToolTypeOK, Steps
<1> QED BY <1>1, <1>2, <1>3
        DEF ToolInv, ToolTypeOK, ToolFollows, BlockedOnceLeft, SavedAreTheUsers, ScanInLimits,
            WithinLimits, How

LEMMA ReturnKeepsToolInv == ASSUME ToolInv, Return PROVE ToolInv'
<1>1. /\ call' = NoCall /\ scan' = NoScan /\ saved' = NoCounts /\ user' = counts
      /\ UNCHANGED <<counts, tool, left>> /\ tool = "none" /\ counts \in [Sources -> Nat \ {0}]
  BY DEF Return, Forget, At, ToolInv, ToolTypeOK, ToolFollows
<1>2. NoCall \in Calls /\ NoCall.step = "idle" /\ NoCall.result = "none"
  BY TableOfTools DEF NoCall, Calls, Steps
<1> QED BY <1>1, <1>2
        DEF ToolInv, ToolTypeOK, ToolFollows, BlockedOnceLeft, SavedAreTheUsers, ScanInLimits

LEMMA StepToolInv == ToolInv /\ [ToolNext]_toolVars => ToolInv'
<1> SUFFICES ASSUME ToolInv, [ToolNext]_toolVars PROVE ToolInv'
  OBVIOUS
<1>1. CASE UNCHANGED toolVars
  BY <1>1 DEF toolVars, sourceVars, ToolInv, ToolTypeOK, ToolFollows, BlockedOnceLeft,
              SavedAreTheUsers, ScanInLimits, WithinLimits, ClosedWhenStopped, At, How
<1> QED BY <1>1, BeginKeepsToolInv, OpenKeepsToolInv, BoundKeepsToolInv, SetUpKeepsToolInv, RunKeepsToolInv,
           ReadKeepsToolInv, CleanUpKeepsToolInv, AwaitKeepsToolInv, CloseKeepsToolInv, ReturnKeepsToolInv,
           StopKeepsToolInv DEF ToolNext, ToolWork

LEMMA ToolInvariance == ToolSpec => []ToolInv
BY InitToolInv, StepToolInv, PTL DEF ToolSpec

-----------------------------------------------------------------------------
\* What the limits of a trace and of a scan need: how far the ray counts are reduced
\* while a trace is on, and what has been counted of the rays read so far.
TraceBounded ==
  call.step \in {"setup", "run"} /\ How.cleanup = "restore" =>
    \A s \in Sources : /\ counts[s] <= PerSource(call.limit, Cardinality(Sources))
                       /\ counts[s] <= user[s]

ReadOf(file, rays) == [i \in 1..rays |-> Smaller(file[i].declared, file[i].held)]
Early == {"idle", "open", "bound", "setup", "run"}
ScanFollows ==
  /\ call.step \in Early => scan = NoScan
  /\ call.step \in Early \cup {"read"} => call.result # "ok"
  /\ scan # NoScan =>
       /\ scan.rays <= Len(scan.file)
       /\ ~scan.truncated => scan.segments = SumFunction(ReadOf(scan.file, scan.rays))
       /\ call.result = "ok" => scan.truncated \/ scan.rays = Len(scan.file)

LimitInv == TraceBounded /\ ScanFollows

LEMMA InitLimitInv == ToolInit => LimitInv
BY DEF ToolInit, NoCall, LimitInv, TraceBounded, ScanFollows, Early

\* A step that leads past the run and does not succeed leaves both as they are.
LEMMA LaterKeepsLimitInv ==
  ASSUME ToolInv, LimitInv, UNCHANGED scan, call'.step \notin Early \cup {"read"},
         call'.result \in {call.result, "error"}
  PROVE  LimitInv'
BY DEF LimitInv, TraceBounded, ScanFollows, Early

\* So does any step before a scan has begun, if the ray counts stay within the limit.
LEMMA EarlyKeepsLimitInv ==
  ASSUME LimitInv, call.step \in Early, UNCHANGED scan, TraceBounded',
         call'.result \in {call.result, "error"} \/ call'.step = "finish"
  PROVE  LimitInv'
BY DEF LimitInv, ScanFollows, Early

LEMMA LimitIsPositive == ASSUME call \in Calls PROVE call.limit \in Nat \ {0}
<1>1. call.limit \in TraceLimits \cup {1}
  BY DEF Calls
<1>2. TraceLimits \subseteq Nat \ {0} /\ 1 \in Nat \ {0}
  BY SourceAssumption
<1> QED BY <1>1, <1>2

LEMMA BoundKeepsLimitInv == ASSUME ToolInv, LimitInv, BoundRays PROVE LimitInv'
<1>1. /\ call \in Calls /\ call.step = "bound" /\ counts = user
      /\ counts \in [Sources -> Nat \ {0}] /\ UNCHANGED <<scan, user>>
  BY DEF BoundRays, BoundSources, BoundingRaises, At, ToolInv, ToolTypeOK, SavedAreTheUsers
<1>2. CASE Go("setup") /\ BoundSources(call.limit)
  <2> DEFINE share == PerSource(call.limit, Cardinality(Sources))
  <2>1. call'.limit = call.limit
    BY <1>1, <1>2 DEF Go, Calls
  <2>2. share \in Nat \/ Sources = {}
    <3>1. call.limit \in Nat \ {0}
      BY <1>1, LimitIsPositive
    <3>2. Sources = {} \/ Cardinality(Sources) \in Nat \ {0}
      BY SourceAssumption, FS_CardinalityType, FS_EmptySet
    <3> QED BY <3>1, <3>2, ShareOfLimit
  <2>3. counts' = [s \in Sources |-> Smaller(counts[s], share)]
    BY <1>2 DEF BoundSources, Lowered
  <2> HIDE DEF share
  <2>4. \A s \in Sources : counts'[s] <= share /\ counts'[s] <= user[s]
    <3> TAKE s \in Sources
    <3>1. counts[s] \in Nat /\ counts[s] = user[s] /\ share \in Nat
      BY <1>1, <2>2
    <3> QED BY <2>3, <3>1, SmallerOfTwo
  <2>5. TraceBounded'
    BY <1>1, <2>1, <2>4 DEF TraceBounded, share
  <2>6. call'.result = call.result
    BY <1>1, <1>2, Moves DEF Steps
  <2> QED BY <1>1, <2>5, <2>6, EarlyKeepsLimitInv DEF Early
<1>3. CASE Fail("finish") /\ BoundingRaises(call.limit)
  <2>1. call'.step = "finish"
    BY <1>1, <1>3, Moves DEF Steps
  <2> QED BY <1>1, <2>1, EarlyKeepsLimitInv DEF Early, TraceBounded
<1> QED BY <1>2, <1>3 DEF BoundRays

LEMMA SetUpKeepsLimitInv ==
  ASSUME ToolInv, LimitInv, SetUp \/ RunReturns \/ RunRaises PROVE LimitInv'
<1>1. /\ call \in Calls /\ call.step \in {"setup", "run"}
      /\ UNCHANGED <<scan, counts, user>>
  BY DEF SetUp, RunReturns, RunRaises, At, ToolInv, ToolTypeOK, sourceVars
<1>2. {"run", "read", "finish", "done"} \subseteq Steps
  BY DEF Steps
<1>3. (call'.op = call.op /\ call'.limit = call.limit) \/ call'.step \notin {"setup", "run"}
  <2>1. \A step : Go(step) => call'.op = call.op /\ call'.limit = call.limit
    BY <1>1 DEF Go, Calls
  <2>2. \A step \in {"finish", "done"} : Fail(step) => call'.step = step
    BY <1>1, <1>2, Moves
  <2> QED BY <1>1, <2>1, <2>2, Succeeds DEF SetUp, RunReturns, RunRaises, Leave
<1>4. TraceBounded'
  BY <1>1, <1>3 DEF LimitInv, TraceBounded, How
<1>5. call'.result \in {call.result, "error"} \/ call'.step = "finish"
  BY <1>1, <1>2, Moves, Succeeds DEF SetUp, RunReturns, RunRaises, Leave
<1> QED BY <1>1, <1>4, <1>5, EarlyKeepsLimitInv DEF Early

\* One more ray: if the limit does not cut it short, all of it is counted.
LEMMA OneMoreRay ==
  ASSUME NEW file \in Seq([declared : Nat, held : Nat]), NEW rays \in 0..(Len(file) - 1)
  PROVE  /\ SumFunction(ReadOf(file, rays)) \in Nat
         /\ SumFunction(ReadOf(file, rays + 1)) =
              Smaller(file[rays + 1].declared, file[rays + 1].held)
                + SumFunction(ReadOf(file, rays))
<1> DEFINE f == ReadOf(file, rays + 1)
           S == 1..(rays + 1)
<1>1. \A i \in S : Smaller(file[i].declared, file[i].held) \in Nat
  <2> TAKE i \in S
  <2>1. i \in 1..Len(file)
    OBVIOUS
  <2>2. file[i] \in [declared : Nat, held : Nat]
    BY <2>1, ElementOfSeq
  <2> QED BY <2>2, SmallerOfTwo
<1>2. f \in [S -> Nat] /\ ReadOf(file, rays) \in [1..rays -> Nat]
  BY <1>1 DEF ReadOf
<1>3. IsFiniteSet(S) /\ IsFiniteSet(1..rays)
  BY FS_Interval
<1>4. SumFunction(ReadOf(file, rays)) \in Nat
  <2> DEFINE g == ReadOf(file, rays)
  <2> HIDE DEF g
  <2> QED BY <1>2, <1>3, SumOfRest DEF g
<1>5. [s \in S \ {rays + 1} |-> f[s]] = ReadOf(file, rays)
  <2>1. S \ {rays + 1} = 1..rays
    OBVIOUS
  <2>2. \A s \in 1..rays : f[s] = Smaller(file[s].declared, file[s].held)
    BY DEF ReadOf
  <2> HIDE DEF f, S
  <2> QED BY <2>1, <2>2 DEF ReadOf
<1>6. rays + 1 \in S /\ f[rays + 1] = Smaller(file[rays + 1].declared, file[rays + 1].held)
  BY DEF ReadOf
<1>7. SumFunction(f) = f[rays + 1] + SumFunction([s \in S \ {rays + 1} |-> f[s]])
  <2> HIDE DEF f, S
  <2>1. \A x \in S : SumFunction(f) = f[x] + SumFunction([s \in S \ {x} |-> f[s]])
    BY <1>2, <1>3, SumOfRest
  <2> QED BY <1>6, <2>1
<1> QED BY <1>4, <1>5, <1>6, <1>7

LEMMA ScanGoesOn ==
  ASSUME scan \in Counted, WithinLimits, scan.rays <= Len(scan.file),
         ~scan.truncated => scan.segments = SumFunction(ReadOf(scan.file, scan.rays)),
         ReadRay
  PROVE  /\ scan'.rays <= Len(scan'.file)
         /\ ~scan'.truncated => scan'.segments = SumFunction(ReadOf(scan'.file, scan'.rays))
<1> DEFINE ray == scan.file[scan.rays + 1]
           room == scan.maxSegments - scan.segments
           kept == Smaller(ray.declared, ray.held)
<1>1. /\ scan.file \in Seq([declared : Nat, held : Nat]) /\ scan.rays \in Nat
      /\ scan.segments \in Nat /\ scan.maxSegments \in Nat
      /\ scan.rays < Len(scan.file) /\ ~scan.truncated /\ room \in Nat
  BY DatabaseAssumption DEF Counted, ReadRay, Unread, WithinLimits
<1>2. ray \in [declared : Nat, held : Nat]
  <2>1. scan.rays + 1 \in 1..Len(scan.file)
    BY <1>1
  <2> QED BY <1>1, <2>1, ElementOfSeq
<1>3. /\ scan'.file = scan.file /\ scan'.rays = scan.rays + 1
      /\ scan'.segments = scan.segments + Smaller(room, kept)
      /\ scan'.truncated = CutShort(room, ray)
  BY DEF ReadRay, Counted
<1>4. ray.declared \in Nat /\ ray.held \in Nat
  BY <1>2
<1>5. ~CutShort(room, ray) => Smaller(room, kept) = kept
  <2> HIDE DEF room, ray
  <2> QED BY <1>1, <1>4 DEF CutShort, Smaller
<1>6. SumFunction(ReadOf(scan.file, scan.rays + 1)) = kept + SumFunction(ReadOf(scan.file, scan.rays))
  <2>1. scan.rays \in 0..(Len(scan.file) - 1)
    BY <1>1
  <2> QED BY <1>1, <2>1, OneMoreRay
<1>7. kept \in Nat
  <2> HIDE DEF ray
  <2> QED BY <1>4, SmallerOfTwo
<1> HIDE DEF ray, room, kept
<1> QED BY <1>1, <1>3, <1>5, <1>6, <1>7

LEMMA ReadKeepsLimitInv == ASSUME ToolInv, LimitInv, ReadDatabase PROVE LimitInv'
<1>1. /\ call \in Calls /\ call.step = "read" /\ (scan = NoScan \/ scan \in Counted)
      /\ ScanInLimits /\ call.result # "ok"
  BY DEF ReadDatabase, At, ToolInv, ToolTypeOK, LimitInv, ScanFollows
<1>2. CASE StartScan /\ UNCHANGED call
  <2>1. PICK f \in Databases, r \in RayLimits, s \in SegmentLimits :
          scan' = [file |-> f, maxRays |-> r, maxSegments |-> s,
                   rays |-> 0, segments |-> 0, truncated |-> FALSE]
    BY <1>2 DEF StartScan
  <2>2. SumFunction(ReadOf(f, 0)) = 0
    <3> DEFINE g == ReadOf(f, 0)
    <3>1. g \in [{} -> Nat] /\ IsFiniteSet({})
      BY FS_EmptySet DEF ReadOf
    <3> HIDE DEF g
    <3>2. SumFunction(g) = 0
      BY <3>1, SumOfRest
    <3> QED BY <3>2 DEF g
  <2>3. Len(f) \in Nat
    BY DatabaseAssumption
  <2>4. /\ scan'.rays = 0 /\ scan'.segments = 0 /\ scan'.file = f
    BY <2>1
  <2>5. scan'.rays <= Len(scan'.file)
        /\ scan'.segments = SumFunction(ReadOf(scan'.file, scan'.rays))
    BY <2>2, <2>3, <2>4
  <2> QED BY <1>1, <1>2, <2>5 DEF LimitInv, TraceBounded, ScanFollows, Early
<1>3. CASE scan # NoScan /\ ReadRay /\ UNCHANGED call
  <2>1. /\ scan'.rays <= Len(scan'.file)
        /\ ~scan'.truncated => scan'.segments = SumFunction(ReadOf(scan'.file, scan'.rays))
    BY <1>1, <1>3, ScanGoesOn DEF LimitInv, ScanFollows, ScanInLimits
  <2>2. TraceBounded' /\ call'.result # "ok" /\ call'.step = "read"
    BY <1>1, <1>3 DEF TraceBounded
  <2>3. ScanFollows'
    BY <2>1, <2>2 DEF ScanFollows, Early
  <2> QED BY <2>2, <2>3 DEF LimitInv
<1>4. CASE scan # NoScan /\ EndScan /\ Succeed
  <2>1. /\ scan'.rays = scan.rays /\ scan'.segments = scan.segments /\ scan'.file = scan.file
        /\ scan'.truncated = (scan.truncated \/ scan.rays >= scan.maxRays)
    BY <1>1, <1>4 DEF EndScan, Counted
  <2>2. /\ scan.rays <= Len(scan.file)
        /\ ~scan.truncated => scan.segments = SumFunction(ReadOf(scan.file, scan.rays))
    BY <1>4 DEF LimitInv, ScanFollows
  <2>3. scan'.truncated \/ scan.rays = Len(scan.file)
    <3>0. scan.rays \in Nat /\ scan.maxRays \in RayLimits /\ scan.file \in Databases
      BY <1>1, <1>4 DEF Counted
    <3>1. /\ scan.rays \in Nat /\ scan.maxRays \in Nat
          /\ scan.file \in Seq([declared : Nat, held : Nat])
      BY <3>0, DatabaseAssumption
    <3>2. Len(scan.file) \in Nat
      BY <3>1
    <3>3. scan.truncated \/ scan.rays >= scan.maxRays \/ scan.rays >= Len(scan.file)
      <4>1. ~(scan.rays < scan.maxRays /\ scan.rays < Len(scan.file) /\ ~scan.truncated)
        BY <1>4 DEF EndScan, Unread
      <4> QED BY <3>1, <3>2, <4>1
    <3>4. scan.rays >= Len(scan.file) => scan.rays = Len(scan.file)
      BY <2>2, <3>1, <3>2
    <3> QED BY <2>1, <3>3, <3>4
  <2>4. call'.step = "finish"
    BY <1>1, <1>4, Succeeds
  <2> QED BY <2>1, <2>2, <2>3, <2>4 DEF LimitInv, TraceBounded, ScanFollows, Early
<1>5. CASE Fail("finish") /\ UNCHANGED scan
  <2>1. call'.step = "finish" /\ call'.result = "error"
    BY <1>1, <1>5, Moves DEF Steps
  <2> QED BY <1>5, <2>1, LaterKeepsLimitInv DEF Early
<1> QED BY <1>2, <1>3, <1>4, <1>5 DEF ReadDatabase

LEMMA StepLimitInv == ToolInv /\ LimitInv /\ [ToolNext]_toolVars => LimitInv'
<1> SUFFICES ASSUME ToolInv, LimitInv, [ToolNext]_toolVars PROVE LimitInv'
  OBVIOUS
<1>0. call \in Calls /\ {"done", "bound", "setup", "wait", "close"} \subseteq Steps
  BY DEF ToolInv, ToolTypeOK, Steps
<1>1. CASE UNCHANGED toolVars \/ ToolStops
  BY <1>1 DEF toolVars, sourceVars, ToolStops, LimitInv, TraceBounded, ScanFollows, How
<1>2. ASSUME NEW op \in Tools, Begin(op) PROVE LimitInv'
  <2>1. call'.step \in {"open", "done"} /\ call'.result # "ok" /\ call.step = "idle" /\ scan' = scan
    BY <1>2 DEF Begin, NoCall, At
  <2> QED BY <2>1 DEF LimitInv, TraceBounded, ScanFollows, Early
<1>3. CASE OpenTool
  <2>1. /\ call.step = "open" /\ UNCHANGED <<scan, counts, user>> /\ call'.op = call.op
        /\ call'.result \in {call.result, "error"}
        /\ call'.step = "setup" => How.cleanup # "restore"
        /\ call'.step \in {"done", "bound", "setup"}
    BY <1>0, <1>3, Moves DEF OpenTool, At, sourceVars
  <2>2. TraceBounded'
    BY <2>1 DEF TraceBounded, How
  <2> QED BY <2>1, <2>2, EarlyKeepsLimitInv DEF Early
<1>4. CASE CleanUpTool
  <2>1. call'.step \in {"wait", "close", "done"} /\ call'.result \in {call.result, "error"}
    BY <1>0, <1>4, Moves DEF CleanUpTool, AfterCancel, Leave
  <2>2. UNCHANGED scan
    BY <1>4 DEF CleanUpTool
  <2> QED BY <2>1, <2>2, LaterKeepsLimitInv DEF Early
<1>5. CASE AwaitStop \/ AwaitRaises \/ CloseTool
  <2>1. call'.step \in {"close", "done"} /\ call'.result \in {call.result, "error"}
    BY <1>0, <1>5, Moves DEF AwaitStop, AwaitRaises, CloseTool
  <2>2. UNCHANGED scan
    BY <1>5 DEF AwaitStop, AwaitRaises, CloseTool
  <2> QED BY <2>1, <2>2, LaterKeepsLimitInv DEF Early
<1>6. CASE Return
  BY <1>6 DEF Return, NoCall, LimitInv, TraceBounded, ScanFollows, Early
<1> QED BY <1>1, <1>2, <1>3, <1>4, <1>5, <1>6, BoundKeepsLimitInv, SetUpKeepsLimitInv,
           ReadKeepsLimitInv DEF ToolNext, ToolWork

LEMMA LimitInvariance == ToolSpec => []LimitInv
BY InitLimitInv, StepLimitInv, ToolInvariance, PTL DEF ToolSpec

LEMMA TraceStaysWithin == ToolInv /\ LimitInv => TraceWithinLimit
<1> SUFFICES ASSUME ToolInv, LimitInv, call.step = "run", call.op = "nsc_ray_trace"
             PROVE  /\ Traced <= call.limit \/ Traced <= Cardinality(Sources)
                    /\ \A s \in Sources : counts[s] <= user[s]
  BY DEF TraceWithinLimit, At
<1>1. How.cleanup = "restore"
  BY DEF How, Handling, nsc_ray_trace, Trace
<1> DEFINE share == PerSource(call.limit, Cardinality(Sources))
<1>2. \A s \in Sources : counts[s] <= share /\ counts[s] <= user[s]
  BY <1>1 DEF LimitInv, TraceBounded
<1>3. /\ IsFiniteSet(Sources) /\ counts \in [Sources -> Nat] /\ call.limit \in Nat \ {0}
      /\ Cardinality(Sources) \in Nat
  BY SourceAssumption, FS_CardinalityType, LimitIsPositive DEF ToolInv, ToolTypeOK
<1>4. CASE Sources = {}
  <2>1. SumFunction(counts) = 0
    BY <1>3, <1>4, SumOfRest
  <2> QED BY <1>2, <1>3, <2>1 DEF Traced
<1>5. CASE Sources # {}
  <2>1. Cardinality(Sources) \in Nat \ {0}
    BY <1>3, <1>5, FS_EmptySet
  <2>2. share \in Nat \ {0} /\ Cardinality(Sources) * share <= Greater(call.limit, Cardinality(Sources))
    BY <1>3, <2>1, ShareOfLimit
  <2> HIDE DEF share
  <2>3. SumFunction(counts) <= share * Cardinality(Sources) /\ SumFunction(counts) \in Nat
    BY <1>2, <1>3, <2>2, SumBounded, SumOfRest
  <2>4. share * Cardinality(Sources) = Cardinality(Sources) * share
    BY <2>1, <2>2
  <2> QED BY <1>2, <1>3, <2>1, <2>2, <2>3, <2>4 DEF Traced, Greater
<1> QED BY <1>4, <1>5

LEMMA UntruncatedHasAll == ToolInv /\ LimitInv => UntruncatedIsWhole
<1> SUFFICES ASSUME ToolInv, LimitInv, scan # NoScan
             PROVE  WithinLimits /\ (call.result = "ok" /\ ~scan.truncated => WholeFile)
  BY DEF UntruncatedIsWhole
<1>1. WithinLimits
  BY DEF ToolInv, ScanInLimits
<1>2. scan.file \in Seq([declared : Nat, held : Nat])
  BY DatabaseAssumption DEF ToolInv, ToolTypeOK, Counted
<1>3. ReadOf(scan.file, Len(scan.file)) =
        [i \in DOMAIN scan.file |-> Smaller(scan.file[i].declared, scan.file[i].held)]
  BY <1>2 DEF ReadOf
<1> QED BY <1>1, <1>3 DEF LimitInv, ScanFollows, WholeFile, Held

-----------------------------------------------------------------------------
\* The steps after which a tool is left open.
LeavesOnlyThere ==
  left' # left =>
    /\ left = {}
    /\ \/ At("close")
       \/ At("setup") /\ call.op \in {"scale_lens", "design_lockdown"}
       \/ At("finish") /\ call.op \in {"ray_trace", "nsc_ray_trace"}

LEMMA LeavingSteps == ToolInv /\ [ToolNext]_toolVars => [LeavesOnlyThere]_toolVars
<1> SUFFICES ASSUME ToolInv, ToolNext, left' # left PROVE LeavesOnlyThere
  BY DEF LeavesOnlyThere
<1>1. SetUp \/ CleanUpTool \/ CloseTool
  BY DEF ToolNext, ToolWork, Begin, OpenTool, BoundRays, RunReturns, RunRaises, ReadDatabase,
         AwaitStop, AwaitRaises, Return, ToolStops
<1>2. call.op \in Tools
  BY DEF ToolInv, ToolTypeOK, Calls
<1>3. CASE SetUp
  <2>1. At("setup") /\ ~How.guarded
    BY <1>3 DEF SetUp
  <2> QED BY <1>2, <2>1, TableOfTools DEF How, At, ToolInv, BlockedOnceLeft, LeavesOnlyThere
<1>4. CASE CleanUpTool
  <2>1. At("finish") /\ How.cleanup \in {"restore", "data"}
    BY <1>4 DEF CleanUpTool
  <2> QED BY <1>2, <2>1, TableOfTools DEF How, At, ToolInv, BlockedOnceLeft, LeavesOnlyThere
<1>5. CASE CloseTool
  BY <1>5 DEF CloseTool, At, ToolInv, BlockedOnceLeft, LeavesOnlyThere
<1> QED BY <1>1, <1>3, <1>4, <1>5

-----------------------------------------------------------------------------
\* In every behaviour of the tool operations their state keeps its ranges: in particular
\* no source is ever left without rays (nsc.py:269).
THEOREM ToolTypeCorrect == ToolSpec => []ToolTypeOK
<1>1. ToolInv => ToolTypeOK
  BY DEF ToolInv
<1> QED BY ToolInvariance, <1>1, PTL

\* optimization.py:4: a tool that is still running is cancelled and waited for before it
\* is closed, unless OpticStudio refuses either.
THEOREM StopsBeforeClosing == ToolSpec => []ClosedWhenStopped
<1>1. ToolInv => ClosedWhenStopped
  BY DEF ToolInv, ToolFollows, ClosedWhenStopped, At
<1> QED BY ToolInvariance, <1>1, PTL

\* nsc.py:256: the ray counts of the sources are the user's again when the tool of a
\* trace is closed and when a trace has succeeded.
THEOREM SetsCountsBack == ToolSpec => []CountsRestored
<1>1. ToolInv => CountsRestored
  BY DEF ToolInv, SavedAreTheUsers, CountsRestored, At
<1> QED BY ToolInvariance, <1>1, PTL

\* A tool stays open only where the cleanup or the Close fails, or after a set-up
\* outside the try that cleans up; and never a second one.
THEOREM LeavesBehindOnlyThere == ToolSpec => LeftBehind
<1>1. ToolSpec => [][ToolNext]_toolVars
  BY PTL DEF ToolSpec
<1> QED BY <1>1, LeavingSteps, ToolInvariance, PTL DEF LeftBehind, LeavesOnlyThere

\* nsc.py:256: however many sources there are and whatever the user gave them, the rays of
\* a trace exceed its limit only where one ray a source does.
THEOREM TracesWithinLimit == ToolSpec => []TraceWithinLimit
BY ToolInvariance, LimitInvariance, TraceStaysWithin, PTL

\* zrd.py:73: an answer that is not marked as truncated holds every segment of the file,
\* whatever the file and the limits.
THEOREM UntruncatedHoldsAll == ToolSpec => []UntruncatedIsWhole
BY ToolInvariance, LimitInvariance, UntruncatedHasAll, PTL
=============================================================================
