--------------------------- MODULE MCRealBackend ---------------------------
(* Instances of RealBackend for TLC. *)
EXTENDS RealBackend

CONSTANTS p1, p2, p3, g1, g2

ThreeProcesses == {p1, p2, p3}
TwoInstances == {g1, g2}
AllFaults == FaultKinds
OneOfEach == {p1, g1}
None == {}
NoFault == {}
=============================================================================
