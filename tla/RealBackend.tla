---------------------------- MODULE RealBackend ----------------------------
(***************************************************************************)
(* zos/real_backend.py: how RealZOSBackend obtains, uses and gives back an *)
(* OpticStudio application.  All its methods run on the one worker thread  *)
(* (ZOSExecutor), so each is one action.  The variables name what the      *)
(* object refers to; live is the environment: the applications that are    *)
(* really open, whether the object still refers to them or not.            *)
(***************************************************************************)
EXTENDS Naturals, FiniteSets

CONSTANTS Processes,  \* bound: OpticStudio processes that can be launched
          Instances,  \* instance ids of user-owned GUIs, for extension mode
          NoApp,      \* no application (None)
          Unclosable, \* applications whose CloseApplication may raise
          Faults      \* other failures OpticStudio may show: subset of FaultKinds

\* "start": discovery, loading or creation fails before an application exists;
\* "refuse": an application without a licence or a PrimarySystem; "file": Save,
\* SaveAs, Close, LoadFile and the like fail or return False.
FaultKinds == {"start", "refuse", "file"}

ASSUME BackendAssumption ==
  /\ Processes \cap Instances = {}
  /\ NoApp \notin Processes \cup Instances
  /\ Unclosable \subseteq Processes \cup Instances
  /\ Faults \subseteq FaultKinds

Modes == {"standalone", "extension"}
Owner == [standalone |-> "owned", extension |-> "borrowed"]

VARIABLES app,        \* _application
          system,     \* _system: "none", or whether its SystemFile is set
          ownership,  \* _ownership
          mode,       \* _mode
          live,       \* applications launched, or attached to, and not closed
          result      \* "ok" or "error", how the last method ended

refs == <<app, system, ownership, mode>>
vars == <<refs, live, result>>

Init == /\ app = NoApp
        /\ system = "none"
        /\ ownership = "none"
        /\ mode = "none"
        /\ live = {}
        /\ result = "ok"

Unconnected == app = NoApp /\ result' = "error"
Fails(kind) == kind \in Faults /\ result' = "error"

ForgetAll == /\ app' = NoApp
             /\ system' = "none"
             /\ ownership' = "none"
             /\ mode' = "none"

\* A bug: the answer None is taken for an application.
ObtainableOrNone(m, i) == {NoApp} \cup IF m = "standalone" THEN Processes \ live ELSE {i}
\* CreateNewApplication starts a process, ConnectAsExtension attaches to a GUI.
Obtainable(m, i) == IF m = "standalone" THEN Processes \ live ELSE {i}

\* A bug: the failed attempt is not closed.
LeaveOpen(a) == live' = live \cup {a}
\* The except clause of connect() closes what it obtained, ignoring failures.
CleanUp(a) == \/ live' = live \ {a}
              \/ a \in Unclosable /\ live' = live \cup {a}

\* connect(): an open application is kept when the mode agrees, whatever the
\* instance id.
Connect(m, i) ==
  \/ /\ app # NoApp
     /\ result' = IF m = mode THEN "ok" ELSE "error"
     /\ UNCHANGED <<refs, live>>
  \/ app = NoApp /\ Fails("start") /\ UNCHANGED <<refs, live>>
  \/ /\ app = NoApp
     /\ \E a \in Obtainable(m, i) :
          \/ Fails("refuse") /\ CleanUp(a) /\ ForgetAll
          \/ /\ app' = a /\ live' = live \cup {a}
             /\ system' \in {"unnamed", "named"}
             /\ ownership' = Owner[m] /\ mode' = m
             /\ result' = "ok"

\* A save without a path needs a SystemFile, and may fail.
SaveMayFail == system = "unnamed" \/ (system = "named" /\ "file" \in Faults)
SaveMaySucceed == system # "unnamed"

\* A bug: the system is not dropped with its application.
ForgetButSystem == app' = NoApp /\ ownership' = "none" /\ mode' = "none" /\ UNCHANGED system
\* The finally clause of disconnect().
ForgetAlways == ForgetAll

\* A bug: the error of CloseApplication is suppressed, as connect() does it.
CloseQuietly == /\ result' = "ok"
                /\ live' = live \ {app} \/ (app \in Unclosable /\ UNCHANGED live)
\* CloseApplication ends an owned application and lets go of a borrowed one.
CloseApplication == \/ result' = "ok" /\ live' = live \ {app}
                    \/ app \in Unclosable /\ result' = "error" /\ UNCHANGED live

\* disconnect(save=, close_application=): an owned application must be closed;
\* save, then close; the finally clause drops every reference in any case.
Disconnect(save, keepOpen) ==
  \/ /\ keepOpen /\ ownership = "owned"
     /\ result' = "error"
     /\ UNCHANGED <<refs, live>>
  \/ /\ ~keepOpen \/ ownership # "owned"
     /\ \/ save /\ SaveMayFail /\ result' = "error" /\ UNCHANGED live
        \/ (~save \/ SaveMaySucceed) /\ CloseApplication
     /\ ForgetAlways

\* close_file(): the finally clause drops the system although Close failed; without a
\* system, or a Close that can be called, it raises before.
CloseFile == \/ /\ system # "none" /\ system' = "none"
                /\ result' = "ok" \/ Fails("file")
                /\ UNCHANGED <<app, ownership, mode, live>>
             \/ /\ (system = "none" /\ result' = "error") \/ Fails("file")
                /\ UNCHANGED <<refs, live>>

\* open_file(): LoadNewSystem without a system, LoadFile into the current one.
OpenFile == \/ /\ app # NoApp
               /\ result' = "ok" /\ system' = "named"
               /\ UNCHANGED <<app, ownership, mode, live>>
            \/ /\ Unconnected \/ Fails("file")
               /\ UNCHANGED <<refs, live>>

\* save_file(), with a path (SaveAs) or without.
SaveFile(withPath) ==
  \/ /\ system # "none" /\ (withPath \/ SaveMaySucceed)
     /\ result' = "ok" /\ system' = "named"
     /\ UNCHANGED <<app, ownership, mode, live>>
  \/ /\ \/ system = "none" /\ result' = "error"
        \/ ~withPath /\ SaveMayFail /\ result' = "error"
        \/ Fails("file")
     /\ UNCHANGED <<refs, live>>

\* new_system(): CreateNewSystem, else New on the current system; reading the
\* new system for the answer may fail after it has replaced the old one.
NewSystem == \/ /\ app # NoApp
                /\ system' = "unnamed"
                /\ result' = "ok" \/ Fails("file")
                /\ UNCHANGED <<app, ownership, mode, live>>
             \/ /\ Unconnected \/ Fails("file")
                /\ UNCHANGED <<refs, live>>

\* Any other operation, an unknown name and arguments the handler does not take:
\* an answer or an error, and the references are left alone.
Operate == result' \in {"ok", "error"} /\ UNCHANGED <<refs, live>>

\* dispatch() reaches every method but connect and disconnect.
Dispatch == \/ CloseFile \/ OpenFile \/ NewSystem \/ Operate
            \/ \E withPath \in BOOLEAN : SaveFile(withPath)

Next == \/ \E m \in Modes, i \in Instances : Connect(m, i)
        \/ \E save, keepOpen \in BOOLEAN : Disconnect(save, keepOpen)
        \/ Dispatch

Spec == Init /\ [][Next]_vars

-----------------------------------------------------------------------------
(* Properties *)

\* The ranges of the references of RealZOSBackend.
TypeOK == /\ app \in Processes \cup Instances \cup {NoApp}
          /\ system \in {"none", "unnamed", "named"}
          /\ ownership \in {"none", "owned", "borrowed"}
          /\ mode \in Modes \cup {"none"}
          /\ live \subseteq Processes \cup Instances
          /\ result \in {"ok", "error"}

\* Through every failure the references agree with each other: mode, ownership
\* and application are set together, a system has an application, and what is
\* referred to is open.
ReferencesAgree ==
  /\ app = NoApp <=> mode = "none"
  /\ ownership = IF app = NoApp THEN "none" ELSE Owner[mode]
  /\ mode = "standalone" <=> app \in Processes
  /\ app = NoApp => system = "none"
  /\ app # NoApp => app \in live

\* A call that reports success never loses an application: when the reference
\* goes, the application has been closed.
SuccessReleases ==
  [][(result' = "ok" /\ app' # app /\ app # NoApp) => app \notin live']_vars

\* No application is open that nothing refers to ("close an owned OpticStudio
\* application" is what the disconnect tool promises).
Orphans == live \ {app}
NoOrphan == Orphans = {}

\* An application that can be closed is orphaned only by a disconnect that reports
\* an error: never by an attempt to connect that fails half way, by a file
\* operation, or silently.
OrphanedOnlyByFailedDisconnect ==
  [][Orphans' \subseteq Orphans \cup Unclosable \/ (app # NoApp /\ app' = NoApp /\ result' = "error")]_vars
=============================================================================
