----------------------------- MODULE MCEditors -----------------------------
(* Instances of Prescription for TLC. *)
EXTENDS Prescription

CONSTANTS c1, c2, lower, upper

Name(c, s) == [catalog |-> c, spelling |-> s]
Found == {Name(c1, upper)}
\* The lens spells the first in its own way; the second is not to be found.
OfTheLens == {Name(c1, lower), Name(c2, lower)}
=============================================================================
