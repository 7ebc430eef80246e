----------------------------- MODULE SourceRays -----------------------------
(***************************************************************************)
(* zos/subsystems/nsc.py: the ray counts of the non-sequential sources,    *)
(* reduced while a trace runs and set back afterwards.                     *)
(***************************************************************************)
EXTENDS Sampling, FiniteSetsExt

CONSTANTS Sources,    \* sources of the system with a NumberOfAnalysisRays
          RayCounts,  \* bound: counts a user gives a source
          TraceLimits \* bound: values of the argument rays

ASSUME SourceAssumption ==
  /\ IsFiniteSet(Sources)
  /\ RayCounts \subseteq Nat \ {0}
  /\ TraceLimits \subseteq Nat \ {0}

VARIABLES counts, \* NumberOfAnalysisRays of each source
          saved,  \* source_rays: the counts found, once all of them are reduced
          user    \* the counts when the call began

NoCounts == << >>
sourceVars == <<counts, saved, user>>

SourceInit == /\ counts \in [Sources -> RayCounts]
              /\ saved = NoCounts
              /\ user = counts

Lowered(S, limit) ==
  [s \in Sources |-> IF s \in S THEN Smaller(counts[s], PerSource(limit, Cardinality(Sources)))
                                ELSE counts[s]]

\* _bound_source_rays(): all sources are reduced and the originals returned ...
BoundSources(limit) == /\ counts' = Lowered(Sources, limit)
                       /\ saved' = counts
                       /\ UNCHANGED user
\* ... or an assignment raises, and the originals of those already reduced are lost.
BoundingRaises(limit) == /\ \E S \in (SUBSET Sources) \ {Sources} : counts' = Lowered(S, limit)
                         /\ UNCHANGED <<saved, user>>

Reset(S) == counts' = [s \in Sources |-> IF s \in S THEN saved[s] ELSE counts[s]]
\* A bug: the counts are not set back.
KeepReduced == UNCHANGED sourceVars
\* The loop of the finally clause of ray_trace() ...
RestoreSources == Reset(DOMAIN saved) /\ UNCHANGED <<saved, user>>
\* ... which an assignment that raises leaves half way.
RestoringRaises == /\ \E S \in (SUBSET DOMAIN saved) \ {DOMAIN saved} : Reset(S)
                   /\ UNCHANGED <<saved, user>>
\* The call returns: the next one starts from the counts as they are now.
Forget == saved' = NoCounts /\ user' = counts /\ UNCHANGED counts

Traced == SumFunction(counts)
=============================================================================
