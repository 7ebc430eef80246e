------------------------------ MODULE Sampling ------------------------------
(***************************************************************************)
(* The arithmetic that keeps answers bounded: how analysis_runner.py thins *)
(* out series and grids, how nsc.py divides a ray limit, and how mce_mfe.py *)
(* turns two row numbers into a range.                                     *)
(***************************************************************************)
EXTENDS Integers

Smaller(a, b) == IF a <= b THEN a ELSE b
Greater(a, b) == IF a >= b THEN a ELSE b
CeilDiv(a, b) == (a + b - 1) \div b

\* Python's round() of a fraction: to the nearest, halves to the even neighbour.
RoundHalfEven(a, b) ==
  LET q == a \div b
      twice == 2 * (a % b)
  IN  IF twice < b \/ (twice = b /\ q % 2 = 0) THEN q ELSE q + 1

\* A bug: one interval too many, so the last point is never reached.
Spacing(length, limit) == [i \in 1..limit |-> RoundHalfEven((i - 1) * (length - 1), limit)]
\* _sample_indices(): every index while they fit, else limit of them, spread
\* evenly from the first to the last.
SampleIndices(length, limit) ==
  IF length <= limit THEN [i \in 1..length |-> i - 1]
  ELSE IF limit = 1 THEN <<0>>
  ELSE [i \in 1..limit |-> RoundHalfEven((i - 1) * (length - 1), limit - 1)]

\* extract_grids(): one step for both axes, the square root of the excess rounded
\* up.  (The source rounds a float up with a tolerance of 1e-6, which shows only
\* from 625 times the cap on.)
GridStep(rows, columns, cap) ==
  IF rows * columns <= cap THEN 1
  ELSE CHOOSE s \in 2..(rows * columns) :
         /\ s * s * cap >= rows * columns
         /\ (s - 1) * (s - 1) * cap < rows * columns

\* Cells that the slices [::step] of both axes keep.
GridCells(rows, columns, cap) ==
  LET s == GridStep(rows, columns, cap)
  IN  CeilDiv(rows, s) * CeilDiv(columns, s)

\* A bug: an equal share, which is nothing when there are more sources than rays.
BareShare(limit, sources) == limit \div sources
\* A bug: every source gets the whole limit.
WholeLimit(limit, sources) == limit
\* _bound_source_rays(): an equal share, but one ray at least.
PerSource(limit, sources) == Greater(1, limit \div sources)

\* _row_bounds(): the rows first..last, where last = 0 stands for the final row and
\* the empty range last = first - 1 is allowed.
LastRow(last, count) == IF last = 0 THEN count ELSE last
\* A bug: the end is not compared with the number of rows.
AnyEnd(first, last, count) == first >= 1 /\ LastRow(last, count) >= first - 1
RangeAccepted(first, last, count) ==
  /\ first >= 1
  /\ LastRow(last, count) \in (first - 1)..count
RowRange(first, last, count) == first..LastRow(last, count)
=============================================================================
