---------------------------- MODULE RayDatabase ----------------------------
(***************************************************************************)
(* zos/subsystems/zrd.py: the loop that reads a ray database within two    *)
(* limits.  A database is a sequence of rays; each declares a number of    *)
(* segments and holds some.                                                *)
(***************************************************************************)
EXTENDS Sampling, Sequences, FiniteSetsExt

CONSTANTS Databases,     \* bound: sequences of [declared, held] records
          RayLimits,     \* bound: values of max_rays
          SegmentLimits, \* bound: values of max_segments
          NoScan         \* no database is being read

ASSUME DatabaseAssumption ==
  /\ \A f \in Databases : f \in Seq([declared : Nat, held : Nat])
  /\ RayLimits \subseteq Nat
  /\ SegmentLimits \subseteq Nat

VARIABLE scan \* what _read() has counted, with its arguments

Counted == [file : Databases, maxRays : RayLimits, maxSegments : SegmentLimits,
            rays : Nat, segments : Nat, truncated : BOOLEAN]

StartScan == \E f \in Databases, r \in RayLimits, s \in SegmentLimits :
  scan' = [file |-> f, maxRays |-> r, maxSegments |-> s,
           rays |-> 0, segments |-> 0, truncated |-> FALSE]

\* A bug: reaching the segment limit with a ray half read goes unreported.
CutSilently(room, ray) == FALSE
\* The limit is tested before each declared segment, the end of the file after.
CutShort(room, ray) == room < ray.declared /\ room <= ray.held

Unread == scan.rays < scan.maxRays /\ scan.rays < Len(scan.file) /\ ~scan.truncated

\* One round of the loop: a header and its segments, until one of them is missing
\* or the limit is reached.
ReadRay ==
  LET ray == scan.file[scan.rays + 1]
      room == scan.maxSegments - scan.segments
  IN  /\ Unread
      /\ scan' = [scan EXCEPT !.rays = @ + 1,
                              !.segments = @ + Smaller(room, Smaller(ray.declared, ray.held)),
                              !.truncated = CutShort(room, ray)]

\* Leaving the loop: a scan that used up max_rays counts as truncated.
EndScan == /\ ~Unread
           /\ scan' = [scan EXCEPT !.truncated = @ \/ scan.rays >= scan.maxRays]

Held(file) == SumFunction([i \in DOMAIN file |-> Smaller(file[i].declared, file[i].held)])
WholeFile == scan.rays = Len(scan.file) /\ scan.segments = Held(scan.file)
WithinLimits == scan.rays <= scan.maxRays /\ scan.segments <= scan.maxSegments
=============================================================================
