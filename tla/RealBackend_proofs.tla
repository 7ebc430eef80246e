------------------------- MODULE RealBackend_proofs -------------------------
(***************************************************************************)
(* Proofs about RealBackend: its references stay typed and in agreement,   *)
(* and success is never reported for an application that was lost, for any *)
(* number of processes and instances and any combination of failures.      *)
(***************************************************************************)
EXTENDS RealBackend, TLAPS

IInv == TypeOK /\ ReferencesAgree

LEMMA InitIInv == Init => IInv
BY BackendAssumption DEF Init, IInv, TypeOK, ReferencesAgree, Modes

\* What every method but connect() and disconnect() does: it only changes the
\* system, which needs an application.
LEMMA DispatchKeepsReferences ==
  ASSUME IInv, Dispatch
  PROVE  /\ UNCHANGED <<app, ownership, mode, live>>
         /\ system' \in {"none", "unnamed", "named"} /\ result' \in {"ok", "error"}
         /\ app = NoApp => system' = "none"
<1> USE DEF IInv, TypeOK, ReferencesAgree, refs, Unconnected, Fails
<1>1. CASE CloseFile
  BY <1>1 DEF CloseFile
<1>2. CASE OpenFile
  BY <1>2 DEF OpenFile
<1>3. CASE NewSystem
  BY <1>3 DEF NewSystem
<1>4. CASE Operate
  BY <1>4 DEF Operate
<1>5. CASE \E withPath \in BOOLEAN : SaveFile(withPath)
  BY <1>5 DEF SaveFile, SaveMayFail, SaveMaySucceed
<1> QED BY <1>1, <1>2, <1>3, <1>4, <1>5 DEF Dispatch

\* connect() leaves all references as they were, or drops them all, or sets them
\* all to an application it has just obtained.
LEMMA ConnectMovesTogether ==
  ASSUME IInv, NEW m \in Modes, NEW i \in Instances, Connect(m, i)
  PROVE  /\ live' \subseteq Processes \cup Instances
         /\ result' \in {"ok", "error"}
         /\ \/ UNCHANGED <<refs, live>>
            \/ app = NoApp /\ ForgetAll
            \/ /\ app = NoApp
               /\ app' \in IF m = "standalone" THEN Processes ELSE Instances
               /\ system' \in {"unnamed", "named"}
               /\ ownership' = Owner[m] /\ mode' = m
               /\ app' \in live'
BY BackendAssumption
DEF IInv, TypeOK, ReferencesAgree, Connect, Obtainable, CleanUp, Fails, refs, Modes

\* disconnect() leaves all references as they were or drops them all.
LEMMA DisconnectMovesTogether ==
  ASSUME IInv, NEW save \in BOOLEAN, NEW keepOpen \in BOOLEAN, Disconnect(save, keepOpen)
  PROVE  /\ live' \subseteq live
         /\ result' \in {"ok", "error"}
         /\ \/ UNCHANGED <<refs, live>>
            \/ ForgetAll /\ (result' = "ok" => app \notin live')
BY DEF IInv, TypeOK, ReferencesAgree, Disconnect, ForgetAlways, CloseApplication,
       SaveMayFail, SaveMaySucceed, Fails

LEMMA StepIInv == IInv /\ [Next]_vars => IInv'
<1> SUFFICES ASSUME IInv, [Next]_vars PROVE IInv'
  OBVIOUS
<1> USE DEF IInv, TypeOK, ReferencesAgree, refs
<1>1. ASSUME NEW m \in Modes, NEW i \in Instances, Connect(m, i) PROVE IInv'
  BY <1>1, ConnectMovesTogether, BackendAssumption DEF ForgetAll, Owner, Modes
<1>2. ASSUME NEW save \in BOOLEAN, NEW keepOpen \in BOOLEAN, Disconnect(save, keepOpen)
      PROVE IInv'
  BY <1>2, DisconnectMovesTogether, BackendAssumption DEF ForgetAll
<1>3. CASE Dispatch
  BY <1>3, DispatchKeepsReferences
<1>4. CASE UNCHANGED vars
  BY <1>4 DEF vars
<1> QED BY <1>1, <1>2, <1>3, <1>4 DEF Next

\* In every behaviour the state of RealZOSBackend keeps its ranges.
THEOREM TypeCorrect == Spec => []TypeOK
<1>1. IInv => TypeOK
  BY DEF IInv
<1> QED BY InitIInv, StepIInv, <1>1, PTL DEF Spec

\* Through every failure of OpticStudio, mode, ownership, system and application
\* agree with each other and the application referred to is open.
THEOREM ReferencesAlwaysAgree == Spec => []ReferencesAgree
<1>1. IInv => ReferencesAgree
  BY DEF IInv
<1> QED BY InitIInv, StepIInv, <1>1, PTL DEF Spec

\* A method that reports success and drops its application has closed it.
THEOREM SuccessAlwaysReleases == Spec => SuccessReleases
<1> DEFINE Released == (result' = "ok" /\ app' # app /\ app # NoApp) => app \notin live'
<1>1. IInv /\ [Next]_vars => [Released]_vars
  <2> SUFFICES ASSUME IInv, Next PROVE Released
    OBVIOUS
  <2>1. ASSUME NEW m \in Modes, NEW i \in Instances, Connect(m, i) PROVE Released
    BY <2>1, ConnectMovesTogether DEF refs
  <2>2. ASSUME NEW save \in BOOLEAN, NEW keepOpen \in BOOLEAN, Disconnect(save, keepOpen)
        PROVE Released
    BY <2>2, DisconnectMovesTogether DEF refs
  <2>3. CASE Dispatch
    BY <2>3, DispatchKeepsReferences
  <2> QED BY <2>1, <2>2, <2>3 DEF Next
<1>2. Spec => []IInv
  BY InitIInv, StepIInv, PTL DEF Spec
<1> QED BY <1>1, <1>2, PTL DEF Spec, SuccessReleases

\* Whatever fails, an application that can be closed is left open and unreferenced
\* only by a disconnect that reports an error.
THEOREM OnlyFailedDisconnectOrphans == Spec => OrphanedOnlyByFailedDisconnect
<1> DEFINE Kept == \/ Orphans' \subseteq Orphans \cup Unclosable
                   \/ app # NoApp /\ app' = NoApp /\ result' = "error"
<1>1. IInv /\ [Next]_vars => [Kept]_vars
  <2> SUFFICES ASSUME IInv, Next PROVE Kept
    OBVIOUS
  <2>1. ASSUME NEW m \in Modes, NEW i \in Instances, Connect(m, i) PROVE Kept
    <3>1. CASE app # NoApp
      BY <2>1, <3>1 DEF Connect, Orphans, refs
    <3>2. CASE app = NoApp
      BY <2>1, <3>2, BackendAssumption
      DEF Connect, CleanUp, Obtainable, ForgetAll, Fails, Orphans, refs, IInv, TypeOK
    <3> QED BY <3>1, <3>2
  <2>2. ASSUME NEW save \in BOOLEAN, NEW keepOpen \in BOOLEAN, Disconnect(save, keepOpen)
        PROVE Kept
    BY <2>2, DisconnectMovesTogether, BackendAssumption
    DEF Orphans, refs, ForgetAll, IInv, TypeOK
  <2>3. CASE Dispatch
    BY <2>3, DispatchKeepsReferences DEF Orphans
  <2> QED BY <2>1, <2>2, <2>3 DEF Next
<1>2. Spec => []IInv
  BY InitIInv, StepIInv, PTL DEF Spec
<1> QED BY <1>1, <1>2, PTL DEF Spec, OrphanedOnlyByFailedDisconnect
=============================================================================
