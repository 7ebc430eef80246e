------------------------------ MODULE MCWorker ------------------------------
(* Instances of Worker for TLC. *)
EXTENDS Worker

CONSTANTS s1, s2

TwoSources == {s1, s2}

\* The segments each ray declares; a database may end before it has them all.
Ray(declared, heldBack) == [declared |-> declared, held |-> declared - heldBack]
SmallDatabases == {<< >>, <<Ray(1, 0), Ray(2, 0)>>, <<Ray(2, 1)>>}

\* A square and an elongated grid within and above a cap of 6.
SmallShapes == {<<2, 3>>, <<5, 5>>}
\* With the cap of the source.
RealShapes == {<<100, 200>>, <<283, 282>>}
=============================================================================
