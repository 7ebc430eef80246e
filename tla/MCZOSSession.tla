---------------------------- MODULE MCZOSSession ----------------------------
(* Instances of ZOSSession for TLC. *)
EXTENDS ZOSSession

CONSTANTS p1, p2, g1, g2, c1, c2

OneProcess == {p1}
OneInstance == {g1}
TwoProcesses == {p1, p2}
TwoInstances == {g1, g2}
OneCaller == {c1}
TwoCallers == {c1, c2}
Nobody == {}
OneOfEach == {p1, g1}
AllFaults == {"start", "refuse", "file"}
NoFault == {}
SaveOrNot == BOOLEAN
NoSave == {FALSE}
=============================================================================
