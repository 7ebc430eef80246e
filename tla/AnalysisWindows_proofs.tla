----------------------- MODULE AnalysisWindows_proofs -----------------------
(***************************************************************************)
(* Proofs about AnalysisWindows, for any time limit, any limits on points, *)
(* series and grids of any size and any number of wavelengths: whatever    *)
(* fails and however long an analysis takes, only finished data are read,  *)
(* everything is closed and the lens is set back.                          *)
(***************************************************************************)
EXTENDS AnalysisWindows, Sampling_proofs

-----------------------------------------------------------------------------
(* The inductive invariant, in named parts. *)

\* Nothing is obtained before the window is opened, and once the closing is over only
\* what could not be closed is left.
HeldWhileInUse ==
  /\ held \subseteq {Use.holds[i] : i \in DOMAIN Use.holds}
  /\ task.step \in {"idle", "change", "measure", "open"} => held = {}
  /\ task.step \in {"restore", "write", "done"} => held \subseteq task.refused

\* Results are looked at when the analysis is done, and it stays so.
ReadWhenDone ==
  /\ task.step \in {"results", "extract"} => engine = "done"
  /\ output # NoOutput =>
       engine = "done" /\ task.step \in {"close", "restore", "write", "done"}

\* Only what the operation changes for the time being differs from what it found, and
\* that only until it is set back.
ChangedForNow ==
  /\ task.step \in {"idle", "change"} \/ Use.changes = "nothing" => lens = original
  /\ Use.changes = "primary" => lens.field = original.field
  /\ Use.changes = "field" => lens.primary = original.primary
  /\ task.step = "done" /\ "lens" \notin task.refused => lens = original
  /\ task.step \in {"change", "measure", "restore"} => Use.changes # "nothing"
  /\ task.step = "write" => Use.changes = "nothing"

WindowInv == WindowTypeOK /\ HeldWhileInUse /\ ReadWhenDone /\ ChangedForNow

-----------------------------------------------------------------------------
\* What the invariant needs to know of the table of operations.
LEMMA TableOfAnalyses ==
  /\ fan \in Analyses
  /\ \A use \in Analyses :
       /\ use.changes \in {"nothing", "primary", "field"}
       /\ {use.holds[i] : i \in DOMAIN use.holds} \subseteq {"window", "settings", "results"}
<1> DEFINE Good(use) ==
      /\ use.changes \in {"nothing", "primary", "field"}
      /\ {use.holds[i] : i \in DOMAIN use.holds} \subseteq {"window", "settings", "results"}
<1>1. \A r \in BOOLEAN, c \in BOOLEAN, x \in SUBSET {"series", "grids"} :
        Good(Analysis(r, c, x))
  BY DEF Analysis
<1>2. \A r \in BOOLEAN : Good(Spot(r))
  BY DEF Analysis, Spot
<1>3. Good(cardinal_points) /\ Good(rms_spot)
  BY DEF cardinal_points, rms_spot, Analysis
<1>4. Good(geometric_image_analysis) /\ Good(export_data)
  BY DEF geometric_image_analysis, export_data, Analysis
<1>5. Good(export_text) /\ Good(detector_viewer)
  BY DEF export_text, detector_viewer, Analysis
<1>6. Good(spot_diagram) /\ Good(spot_rms)
  BY <1>2 DEF spot_diagram, spot_rms
<1>7. /\ Good(fft_mtf) /\ Good(huygens_mtf) /\ Good(fan) /\ Good(chromatic_focal_shift)
      /\ Good(lateral_color) /\ Good(longitudinal_aberration) /\ Good(seidel_coefficients)
      /\ Good(field_curvature_distortion) /\ Good(relative_illumination)
      /\ Good(mtf_vs_field) /\ Good(geometric_mtf) /\ Good(diffraction_encircled_energy)
      /\ Good(geometric_encircled_energy) /\ Good(fft_psf) /\ Good(huygens_psf) /\ Good(pop)
      /\ Good(run_analysis) /\ Good(analysis_series)
  <2> HIDE DEF Good
  <2> QED BY <1>1
      DEF fft_mtf, huygens_mtf, fan, chromatic_focal_shift, lateral_color,
          longitudinal_aberration, seidel_coefficients, field_curvature_distortion,
          relative_illumination, mtf_vs_field, geometric_mtf, diffraction_encircled_energy,
          geometric_encircled_energy, fft_psf, huygens_psf, pop, run_analysis,
          analysis_series
<1> HIDE DEF Good
<1>8. \A use \in Analyses : Good(use)
  BY <1>3, <1>4, <1>5, <1>6, <1>7 DEF Analyses
<1> QED BY <1>8 DEF Good, Analyses

\* What Proceed, Raise and other changes do to the record of the operation.
LEMMA Moved ==
  ASSUME task \in Tasks, NEW step \in WindowSteps, Proceed(step) \/ Raise(step)
  PROVE  /\ task' \in Tasks
         /\ task'.use = task.use /\ task'.step = step /\ task'.refused = task.refused
<1>1. 0 \in 0..MaxRuntime
  BY WindowAssumption
<1>2. CASE Proceed(step)
  <2>1. task' \in Tasks
    BY <1>1, <1>2, Zenon DEF Proceed, Tasks
  <2> QED BY <1>2, <2>1 DEF Proceed, Tasks
<1>3. CASE Raise(step)
  <2>1. task' \in Tasks
    BY <1>1, <1>3, Zenon DEF Raise, Tasks
  <2> QED BY <1>3, <2>1 DEF Raise, Tasks
<1> QED BY <1>2, <1>3

LEMMA Noted ==
  ASSUME task \in Tasks, NEW step \in WindowSteps, NEW result \in {"none", "ok", "error"},
         NEW refused \in SUBSET {"window", "settings", "results", "lens"},
         \/ task' = [task EXCEPT !.step = step, !.result = result] /\ refused = task.refused
         \/ task' = [task EXCEPT !.step = step, !.result = result, !.refused = refused]
  PROVE  /\ task' \in Tasks
         /\ task'.use = task.use /\ task'.step = step /\ task'.refused = refused
<1>1. task' \in Tasks
  BY Zenon DEF Tasks
<1> QED BY <1>1 DEF Tasks

LEMMA Refused ==
  ASSUME task \in Tasks, NEW result \in {"none", "ok", "error"},
         NEW refused \in SUBSET {"window", "settings", "results", "lens"},
         task' = [task EXCEPT !.refused = refused, !.result = result]
  PROVE  /\ task' \in Tasks
         /\ task'.use = task.use /\ task'.step = task.step /\ task'.refused = refused
<1>1. task' \in Tasks
  BY Zenon DEF Tasks
<1> QED BY <1>1 DEF Tasks

LEMMA InitWindowInv == WindowInit => WindowInv
<1> SUFFICES ASSUME WindowInit PROVE WindowInv
  OBVIOUS
<1> USE DEF WindowInit, NoTask
<1>1. WindowTypeOK
  BY TableOfAnalyses, WindowAssumption DEF WindowTypeOK, WindowSteps, Tasks, Lenses
<1>2. HeldWhileInUse /\ ReadWhenDone /\ ChangedForNow
  BY DEF HeldWhileInUse, ReadWhenDone, ChangedForNow, Use
<1> QED BY <1>1, <1>2 DEF WindowInv

\* The steps, one lemma for those of a kind: the beginning and the end of an operation ...
LEMMA Called ==
  ASSUME NEW use \in Analyses, NEW step \in WindowSteps,
         \/ task' = [NoTask EXCEPT !.use = use, !.step = step]
         \/ task' = [NoTask EXCEPT !.use = use, !.step = step, !.result = "error"]
  PROVE  task' \in Tasks /\ task'.use = use /\ task'.step = step /\ task'.refused = {}
<1>1. NoTask \in Tasks
  BY TableOfAnalyses, WindowAssumption DEF NoTask, Tasks, WindowSteps
<1>2. task' \in Tasks
  BY <1>1, Zenon DEF Tasks
<1> QED BY <1>2 DEF NoTask

LEMMA CallKeepsWindowInv == ASSUME WindowInv, NEW use \in Analyses, Call(use) PROVE WindowInv'
<1>1. /\ task' \in Tasks /\ task'.use = use /\ task'.refused = {}
      /\ task'.step \in {"open", "change", "done"}
      /\ task'.step = "open" => use.changes = "nothing"
      /\ task'.step = "change" => use.changes # "nothing"
  <2>1. CASE task' = [NoTask EXCEPT !.use = use,
                        !.step = IF use.changes = "nothing" THEN "open" ELSE "change"]
    <3>1. CASE use.changes = "nothing"
      BY <2>1, <3>1, Called DEF WindowSteps
    <3>2. CASE use.changes # "nothing"
      BY <2>1, <3>2, Called DEF WindowSteps
    <3> QED BY <3>1, <3>2
  <2>2. CASE task' = [NoTask EXCEPT !.use = use, !.step = "done", !.result = "error"]
    BY <2>2, Called DEF WindowSteps
  <2> QED BY <2>1, <2>2 DEF Call
<1>2. /\ task.step = "idle" /\ UNCHANGED <<held, engine, lens, original, output>>
      /\ held = {} /\ output = NoOutput /\ lens = original
  BY DEF Call, Reached, WindowInv, HeldWhileInUse, ReadWhenDone, ChangedForNow
<1>3. WindowTypeOK'
  BY <1>1, <1>2 DEF WindowInv, WindowTypeOK
<1>4. HeldWhileInUse' /\ ReadWhenDone' /\ ChangedForNow'
  BY <1>1, <1>2 DEF HeldWhileInUse, ReadWhenDone, ChangedForNow, Use
<1> QED BY <1>3, <1>4 DEF WindowInv

LEMMA FinishKeepsWindowInv == ASSUME WindowInv, Finish PROVE WindowInv'
<1>1. NoTask \in Tasks
  BY TableOfAnalyses, WindowAssumption DEF NoTask, Tasks, WindowSteps
<1>2. WindowTypeOK'
  BY <1>1 DEF Finish, WindowInv, WindowTypeOK
<1>3. HeldWhileInUse' /\ ReadWhenDone' /\ ChangedForNow'
  BY DEF Finish, NoTask, HeldWhileInUse, ReadWhenDone, ChangedForNow, Use
<1> QED BY <1>2, <1>3 DEF WindowInv

\* ... those that change the lens and set it back ...
LEMMA LensParts ==
  ASSUME NEW l \in Lenses
  PROVE  /\ l.primary \in Wavelengths /\ l.field \in {0, 1} \X {0, 1} /\ l.field[1] \in {0, 1}
         /\ \A m \in Lenses : l.primary = m.primary /\ l.field = m.field => l = m
BY DEF Lenses

LEMMA SetPrimary ==
  ASSUME NEW l \in Lenses, NEW w \in Wavelengths
  PROVE  LET m == [l EXCEPT !.primary = w]
         IN  m \in Lenses /\ m.primary = w /\ m.field = l.field
BY DEF Lenses

LEMMA SetField ==
  ASSUME NEW l \in Lenses, NEW f \in {0, 1} \X {0, 1}
  PROVE  LET m == [l EXCEPT !.field = f]
         IN  m \in Lenses /\ m.primary = l.primary /\ m.field = f
BY DEF Lenses

LEMMA SetFirst ==
  ASSUME NEW l \in Lenses, NEW x \in {0, 1}
  PROVE  LET m == [l EXCEPT !.field[1] = x]
         IN  m \in Lenses /\ m.primary = l.primary
BY DEF Lenses

LEMMA ChangeKeepsWindowInv == ASSUME WindowInv, Change PROVE WindowInv'
<1>1. /\ task \in Tasks /\ task.use \in Analyses /\ lens \in Lenses
      /\ task.step = "change" /\ lens = original /\ held = {} /\ output = NoOutput
      /\ UNCHANGED <<held, engine, original, output>>
  BY DEF WindowInv, WindowTypeOK, Tasks, HeldWhileInUse, ReadWhenDone, ChangedForNow, Change, Reached
<1>2. /\ task' \in Tasks /\ task'.use = task.use /\ task'.refused = task.refused
      /\ lens' \in Lenses
      /\ \/ /\ Use.changes = "primary" /\ task'.step \in {"open", "done"}
            /\ lens'.field = lens.field /\ (task'.step = "done" => lens' = lens)
         \/ /\ Use.changes = "field" /\ task'.step \in {"measure", "restore"}
            /\ lens'.primary = lens.primary
  <2>1. ASSUME Use.changes = "primary", Proceed("open"),
               NEW w \in Wavelengths, lens' = [lens EXCEPT !.primary = w]
        PROVE  task'.step = "open" /\ lens' \in Lenses /\ lens'.field = lens.field
    BY <1>1, <2>1, Moved, SetPrimary DEF WindowSteps
  <2>2. ASSUME Use.changes = "field", Proceed("measure"), lens' = [lens EXCEPT !.field = <<1, 1>>]
        PROVE  task'.step = "measure" /\ lens' \in Lenses /\ lens'.primary = lens.primary
    BY <1>1, <2>2, Moved, SetField DEF WindowSteps
  <2>3. ASSUME Use.changes = "field", Raise("restore"),
               lens' \in {lens, [lens EXCEPT !.field[1] = 1]}
        PROVE  task'.step = "restore" /\ lens' \in Lenses /\ lens'.primary = lens.primary
    BY <1>1, <2>3, Moved, SetFirst DEF WindowSteps
  <2>4. ASSUME Raise("done") PROVE task'.step = "done"
    BY <1>1, <2>4, Moved DEF WindowSteps
  <2>5. task' \in Tasks /\ task'.use = task.use /\ task'.refused = task.refused
    BY <1>1, Moved DEF Change, WindowSteps
  <2> QED BY <1>1, <2>1, <2>2, <2>3, <2>4, <2>5 DEF Change
<1>3. WindowTypeOK'
  BY <1>1, <1>2 DEF WindowInv, WindowTypeOK
<1>4. HeldWhileInUse' /\ ReadWhenDone'
  BY <1>1, <1>2 DEF WindowInv, HeldWhileInUse, ReadWhenDone
<1>5. ChangedForNow'
  BY <1>1, <1>2 DEF ChangedForNow, Use
<1> QED BY <1>3, <1>4, <1>5 DEF WindowInv

LEMMA MeasureKeepsWindowInv == ASSUME WindowInv, Measure PROVE WindowInv'
<1>1. /\ task \in Tasks /\ task.step = "measure" /\ held = {} /\ output = NoOutput
      /\ UNCHANGED <<held, engine, lens, original, output>>
  BY DEF WindowInv, WindowTypeOK, HeldWhileInUse, ReadWhenDone, Measure, Reached
<1>2. task' \in Tasks /\ task'.use = task.use /\ task'.step = "restore"
      /\ task'.refused = task.refused
  <2>1. CASE Raise("restore")
    BY <1>1, <2>1, Moved DEF WindowSteps
  <2>2. CASE task' = [task EXCEPT !.step = "restore", !.result = "ok"]
    <3>1. task.refused \in SUBSET {"window", "settings", "results", "lens"}
      BY <1>1 DEF Tasks
    <3> QED BY <1>1, <2>2, <3>1, Noted DEF WindowSteps
  <2> QED BY <2>1, <2>2 DEF Measure
<1>3. WindowTypeOK'
  BY <1>1, <1>2 DEF WindowInv, WindowTypeOK
<1>4. HeldWhileInUse' /\ ReadWhenDone' /\ ChangedForNow'
  BY <1>1, <1>2 DEF WindowInv, HeldWhileInUse, ReadWhenDone, ChangedForNow, Use
<1> QED BY <1>3, <1>4 DEF WindowInv

LEMMA RestoreKeepsWindowInv == ASSUME WindowInv, Restore PROVE WindowInv'
<1>1. /\ task \in Tasks /\ task.use \in Analyses /\ lens \in Lenses /\ original \in Lenses
      /\ task.step = "restore" /\ task.use.changes \in {"primary", "field"}
      /\ UNCHANGED <<held, engine, original, output>>
  BY TableOfAnalyses DEF WindowInv, WindowTypeOK, Tasks, ChangedForNow, Restore, Reached, Use
<1>2. /\ task' \in Tasks /\ task'.use = task.use /\ task'.step = "done"
      /\ task.refused \subseteq task'.refused
      /\ lens' \in Lenses
      /\ task.use.changes = "primary" => lens'.field = lens.field
      /\ task.use.changes = "field" => lens'.primary = lens.primary
      /\ \/ lens' = original
         \/ "lens" \in task'.refused
  <2>1. ASSUME Proceed("done"),
               lens' = IF Use.changes = "primary" THEN [lens EXCEPT !.primary = original.primary]
                       ELSE [lens EXCEPT !.field = RestoreField(@)]
        PROVE  /\ lens' \in Lenses /\ lens' = original
               /\ task.use.changes = "primary" => lens'.field = lens.field
               /\ task.use.changes = "field" => lens'.primary = lens.primary
    <3>1. CASE task.use.changes = "primary"
      <4>1. lens' = [lens EXCEPT !.primary = original.primary] /\ lens.field = original.field
        BY <2>1, <3>1 DEF Use, WindowInv, ChangedForNow
      <4>2. lens' \in Lenses /\ lens'.primary = original.primary /\ lens'.field = lens.field
        BY <1>1, <4>1, LensParts, SetPrimary
      <4> QED BY <1>1, <3>1, <4>1, <4>2, LensParts
    <3>2. CASE task.use.changes = "field"
      <4>1. lens' = [lens EXCEPT !.field = original.field] /\ lens.primary = original.primary
        BY <2>1, <3>2 DEF Use, WindowInv, ChangedForNow, RestoreField
      <4>2. lens' \in Lenses /\ lens'.field = original.field /\ lens'.primary = lens.primary
        BY <1>1, <4>1, LensParts, SetField
      <4> QED BY <1>1, <3>2, <4>1, <4>2, LensParts
    <3> QED BY <1>1, <3>1, <3>2
  <2>2. ASSUME task' = [task EXCEPT !.step = "done", !.result = "error",
                                    !.refused = @ \cup {"lens"}],
               \/ UNCHANGED lens
               \/ Use.changes = "field" /\ lens' = [lens EXCEPT !.field[1] = original.field[1]]
        PROVE  /\ lens' \in Lenses
               /\ task.use.changes = "primary" => lens'.field = lens.field
               /\ task.use.changes = "field" => lens'.primary = lens.primary
    <3>1. original.field[1] \in {0, 1}
      BY <1>1, LensParts
    <3>2. LET m == [lens EXCEPT !.field[1] = original.field[1]]
          IN  m \in Lenses /\ m.primary = lens.primary
      BY <1>1, <3>1, SetFirst
    <3> QED BY <1>1, <2>2, <3>2 DEF Use
  <2>3. ASSUME Proceed("done")
        PROVE  task' \in Tasks /\ task'.use = task.use /\ task'.step = "done"
               /\ task'.refused = task.refused
    BY <1>1, <2>3, Moved DEF WindowSteps
  <2>4. ASSUME task' = [task EXCEPT !.step = "done", !.result = "error",
                                    !.refused = @ \cup {"lens"}]
        PROVE  task' \in Tasks /\ task'.use = task.use /\ task'.step = "done"
               /\ task'.refused = task.refused \cup {"lens"}
    <3>1. task.refused \cup {"lens"} \in SUBSET {"window", "settings", "results", "lens"}
      BY <1>1 DEF Tasks
    <3> QED BY <1>1, <2>4, <3>1, Noted DEF WindowSteps
  <2> QED BY <2>1, <2>2, <2>3, <2>4 DEF Restore
<1>3. WindowTypeOK'
  BY <1>1, <1>2 DEF WindowInv, WindowTypeOK
<1>4. HeldWhileInUse' /\ ReadWhenDone'
  BY <1>1, <1>2 DEF WindowInv, HeldWhileInUse, ReadWhenDone, Use
<1>5. ChangedForNow'
  BY <1>1, <1>2 DEF WindowInv, ChangedForNow, Use
<1> QED BY <1>3, <1>4, <1>5 DEF WindowInv

\* ... those that obtain something, and those that wait for the analysis ...
LEMMA ObtainKeepsWindowInv == ASSUME WindowInv, Open \/ SetUpWindow \/ Results PROVE WindowInv'
<1>1. /\ task \in Tasks /\ task.use \in Analyses
      /\ task.step \in {"open", "settings", "results"}
      /\ lens' = lens /\ original' = original /\ output' = output /\ engine' = engine
      /\ output = NoOutput
      /\ {task.use.holds[i] : i \in DOMAIN task.use.holds}
           \subseteq {"window", "settings", "results"}
  BY TableOfAnalyses
  DEF WindowInv, WindowTypeOK, Tasks, ReadWhenDone, Open, SetUpWindow, Results, Reached
<1>2. held \subseteq held' /\ held' \subseteq held \cup {Use.holds[i] : i \in DOMAIN Use.holds}
  BY DEF Open, SetUpWindow, Results, Obtained
<1>3. /\ task' \in Tasks /\ task'.use = task.use /\ task'.refused = task.refused
      /\ task'.step \in {"settings", "apply", "close", "extract"}
      /\ task'.step = "extract" => task.step = "results"
  <2>1. \A step \in {"settings", "apply", "close", "extract"} : Proceed(step) \/ Raise(step) =>
          /\ task' \in Tasks /\ task'.use = task.use /\ task'.refused = task.refused
          /\ task'.step = step
    BY <1>1, Moved DEF WindowSteps
  <2>2. CASE Open
    BY <2>1, <2>2 DEF Open
  <2>3. CASE SetUpWindow
    BY <2>1, <2>3 DEF SetUpWindow
  <2>4. CASE Results
    BY <2>1, <2>4 DEF Results, Reached
  <2> QED BY <2>2, <2>3, <2>4
<1>4. WindowTypeOK'
  BY <1>1, <1>2, <1>3 DEF WindowInv, WindowTypeOK, Use
<1>5. HeldWhileInUse' /\ ReadWhenDone' /\ ChangedForNow'
  BY <1>1, <1>2, <1>3 DEF WindowInv, HeldWhileInUse, ReadWhenDone, ChangedForNow, Use
<1> QED BY <1>4, <1>5 DEF WindowInv

LEMMA WaitKeepsWindowInv == ASSUME WindowInv, Apply \/ Poll \/ Wait \/ WaitRaises PROVE WindowInv'
<1>1. /\ task \in Tasks /\ task.step \in {"apply", "poll", "wait"} /\ output = NoOutput
      /\ UNCHANGED <<held, lens, original, output>>
      /\ engine' \in {engine, "busy", "stopped"}
  BY DEF WindowInv, WindowTypeOK, ReadWhenDone, Apply, Poll, Wait, WaitRaises, Reached
<1>2. /\ task' \in Tasks /\ task'.use = task.use /\ task'.refused = task.refused
      /\ task'.step \in {"wait", "poll", "close", "results"}
      /\ task'.step = "results" => engine' = "done"
  <2>1. \A step \in {"wait", "poll", "close", "results"} : Proceed(step) \/ Raise(step) =>
          /\ task' \in Tasks /\ task'.use = task.use /\ task'.refused = task.refused
          /\ task'.step = step
    BY <1>1, Moved DEF WindowSteps
  <2>2. CASE task.step = "poll" /\ task.clock < MaxRuntime
             /\ task' = [task EXCEPT !.clock = Later(@)]
    BY <2>2, <1>1, WindowAssumption DEF Tasks, Later
  <2> QED BY <2>1, <2>2 DEF Apply, Poll, Wait, WaitRaises, Reached, GiveUp
<1>3. WindowTypeOK'
  BY <1>1, <1>2 DEF WindowInv, WindowTypeOK
<1>4. HeldWhileInUse' /\ ReadWhenDone' /\ ChangedForNow'
  BY <1>1, <1>2 DEF WindowInv, HeldWhileInUse, ReadWhenDone, ChangedForNow, Use
<1> QED BY <1>3, <1>4 DEF WindowInv

\* ... those that take and write the data, and the end of the analysis itself ...
LEMMA DataKeepsWindowInv == ASSUME WindowInv, Extract \/ Write \/ AnalysisEnds PROVE WindowInv'
<1>1. task \in Tasks /\ UNCHANGED <<held, lens, original>>
  BY DEF WindowInv, WindowTypeOK, Extract, Write, AnalysisEnds
<1>2. CASE Extract
  <2>1. /\ task' \in Tasks /\ task'.use = task.use /\ task'.refused = task.refused
        /\ task'.step = "close"
    <3>1. CASE Raise("close")
      BY <1>1, <3>1, Moved DEF WindowSteps
    <3>2. CASE task' = [task EXCEPT !.step = "close", !.result = "ok"]
      <4>1. task.refused \in SUBSET {"window", "settings", "results", "lens"}
        BY <1>1 DEF Tasks
      <4> QED BY <1>1, <3>2, <4>1, Noted DEF WindowSteps
    <3> QED BY <1>2, <3>1, <3>2 DEF Extract
  <2>2. task.step = "extract" /\ engine' = engine
    BY <1>2 DEF Extract, Reached
  <2>3. WindowTypeOK'
    BY <1>1, <2>1, <2>2 DEF WindowInv, WindowTypeOK
  <2>4. HeldWhileInUse' /\ ReadWhenDone' /\ ChangedForNow'
    BY <1>1, <2>1, <2>2 DEF WindowInv, HeldWhileInUse, ReadWhenDone, ChangedForNow, Use
  <2> QED BY <2>3, <2>4 DEF WindowInv
<1>3. CASE Write
  <2>1. /\ task' \in Tasks /\ task'.use = task.use /\ task'.refused = task.refused
        /\ task'.step = "done" /\ task.step = "write" /\ UNCHANGED <<engine, output>>
    BY <1>1, <1>3, Moved DEF Write, Reached, WindowSteps
  <2>2. WindowTypeOK'
    BY <1>1, <2>1 DEF WindowInv, WindowTypeOK
  <2>3. HeldWhileInUse' /\ ReadWhenDone' /\ ChangedForNow'
    BY <1>1, <2>1 DEF WindowInv, HeldWhileInUse, ReadWhenDone, ChangedForNow, Use
  <2> QED BY <2>2, <2>3 DEF WindowInv
<1>4. CASE AnalysisEnds
  BY <1>4 DEF AnalysisEnds, WindowInv, WindowTypeOK, HeldWhileInUse, ReadWhenDone, ChangedForNow, Use
<1> QED BY <1>2, <1>3, <1>4

\* ... and the closing.
LEMMA CloseKeepsWindowInv == ASSUME WindowInv, Close PROVE WindowInv'
<1>1. /\ task \in Tasks /\ task.step = "close" /\ held \subseteq {"window", "settings", "results"}
      /\ task.use.changes \in {"nothing", "primary", "field"}
      /\ UNCHANGED <<engine, lens, original, output>>
  BY TableOfAnalyses DEF WindowInv, WindowTypeOK, Tasks, Close, Reached
<1>2. CASE Unclosed = {} /\ Proceed(AfterClose) /\ UNCHANGED held
  <2>1. /\ task' \in Tasks /\ task'.use = task.use /\ task'.refused = task.refused
        /\ task'.step \in {"restore", "write", "done"}
        /\ task'.step = "restore" <=> task.use.changes # "nothing"
    BY <1>1, <1>2, Moved DEF AfterClose, WindowSteps, Use
  <2>2. held' \subseteq task'.refused
    BY <1>2, <2>1 DEF Unclosed
  <2>3. WindowTypeOK'
    BY <1>1, <1>2, <2>1 DEF WindowInv, WindowTypeOK
  <2>4. HeldWhileInUse' /\ ReadWhenDone' /\ ChangedForNow'
    BY <1>1, <1>2, <2>1, <2>2 DEF WindowInv, HeldWhileInUse, ReadWhenDone, ChangedForNow, Use
  <2> QED BY <2>3, <2>4 DEF WindowInv
<1>3. ASSUME NEW r \in Unclosed, held' = held \ {r}, UNCHANGED task PROVE WindowInv'
  BY <1>1, <1>3 DEF WindowInv, WindowTypeOK, HeldWhileInUse, ReadWhenDone, ChangedForNow, Use
<1>4. ASSUME NEW r \in Unclosed, UNCHANGED held,
             task' = [task EXCEPT !.refused = @ \cup {r},
                                  !.result = IF Use.quiet THEN @ ELSE "error"]
      PROVE  WindowInv'
  <2>1. task' \in Tasks /\ task'.use = task.use /\ task'.step = "close"
    <3>1. task.refused \cup {r} \in SUBSET {"window", "settings", "results", "lens"}
      BY <1>1 DEF Tasks, Unclosed
    <3> DEFINE result == IF Use.quiet THEN task.result ELSE "error"
               refused == task.refused \cup {r}
    <3>2. result \in {"none", "ok", "error"}
      BY <1>1 DEF Tasks
    <3>3. task' = [task EXCEPT !.refused = refused, !.result = result]
      BY <1>4
    <3> HIDE DEF result, refused
    <3> QED BY <1>1, <3>1, <3>2, <3>3, Refused DEF refused
  <2>2. WindowTypeOK'
    BY <1>1, <1>4, <2>1 DEF WindowInv, WindowTypeOK
  <2>3. HeldWhileInUse' /\ ReadWhenDone' /\ ChangedForNow'
    BY <1>1, <1>4, <2>1 DEF WindowInv, HeldWhileInUse, ReadWhenDone, ChangedForNow, Use
  <2> QED BY <2>2, <2>3 DEF WindowInv
<1> QED BY <1>2, <1>3, <1>4 DEF Close

LEMMA StepWindowInv == WindowInv /\ [WindowNext]_windowVars => WindowInv'
<1> SUFFICES ASSUME WindowInv, [WindowNext]_windowVars PROVE WindowInv'
  OBVIOUS
<1>1. CASE UNCHANGED windowVars
  BY <1>1 DEF windowVars, WindowInv, WindowTypeOK, HeldWhileInUse, ReadWhenDone, ChangedForNow, Use
<1> QED BY <1>1, CallKeepsWindowInv, FinishKeepsWindowInv, ChangeKeepsWindowInv, MeasureKeepsWindowInv,
           RestoreKeepsWindowInv, ObtainKeepsWindowInv, WaitKeepsWindowInv, DataKeepsWindowInv, CloseKeepsWindowInv
        DEF WindowNext, WindowWork

LEMMA WindowInvariance == WindowSpec => []WindowInv
BY InitWindowInv, StepWindowInv, PTL DEF WindowSpec

-----------------------------------------------------------------------------
\* In every behaviour of the analysis operations their state keeps its ranges.
THEOREM WindowTypeCorrect == WindowSpec => []WindowTypeOK
<1>1. WindowInv => WindowTypeOK
  BY DEF WindowInv
<1> QED BY WindowInvariance, <1>1, PTL

\* analysis_runner.py:290: whatever fails, only what could not be closed is open when an
\* operation returns.
THEOREM ClosesEverything == WindowSpec => []EverythingClosed
<1>1. WindowInv => EverythingClosed
  BY DEF WindowInv, HeldWhileInUse, EverythingClosed, Reached
<1> QED BY WindowInvariance, <1>1, PTL

\* analysis_runner.py:188: no data are taken from an analysis that ran out of time.
THEOREM ReadsFinishedData == WindowSpec => []OnlyFinishedData
<1>1. WindowInv => OnlyFinishedData
  BY DEF WindowInv, ReadWhenDone, OnlyFinishedData, Reached
<1> QED BY WindowInvariance, <1>1, PTL

\* analysis.py:293, real_backend.py:638: the lens is set back, unless that itself fails.
THEOREM RestoresLens == WindowSpec => []LensRestored
<1>1. WindowInv => LensRestored
  BY DEF WindowInv, ChangedForNow, LensRestored, Reached
<1> QED BY WindowInvariance, <1>1, PTL

\* What is taken from a series keeps its order and its ends.
LEMMA NothingTaken ==
  ASSUME output' = NoOutput \/ GridTaken
  PROVE  SeriesKeepsEnds'
BY DEF NoOutput, GridTaken, SeriesKeepsEnds

LEMMA SeriesTakenKeepsEnds == ASSUME SeriesTaken PROVE SeriesKeepsEnds'
<1>1. PICK n \in SeriesLengths, k \in PointLimits :
        output' = [NoOutput EXCEPT !.series = SampleIndices(n, k), !.length = n, !.limit = k]
  BY DEF SeriesTaken
<1> DEFINE s == SampleIndices(n, k)
<1>2. output'.series = s /\ output'.length = n /\ output'.limit = k
  BY <1>1 DEF NoOutput
<1>3. /\ Len(s) \in Nat /\ DOMAIN s = 1..Len(s)
      /\ Len(s) <= k
      /\ Len(s) > 0 => s[1] = 0
      /\ Len(s) > 1 => s[Len(s)] = n - 1
      /\ \A i, j \in DOMAIN s : i < j => s[i] < s[j]
  BY SampleKeepsEnds, WindowAssumption
<1> HIDE DEF s
<1>4. s # << >> => Len(s) > 0
  BY <1>3
<1> QED BY <1>2, <1>3, <1>4 DEF SeriesKeepsEnds

LEMMA SeriesInitially == WindowInit => SeriesKeepsEnds
BY DEF WindowInit, NoOutput, SeriesKeepsEnds

LEMMA SeriesStays == SeriesKeepsEnds /\ [WindowNext]_windowVars => SeriesKeepsEnds'
<1> SUFFICES ASSUME SeriesKeepsEnds, [WindowNext]_windowVars PROVE SeriesKeepsEnds'
  OBVIOUS
<1>1. output' = output \/ output' = NoOutput \/ GridTaken \/ SeriesTaken
  BY DEF WindowNext, WindowWork, windowVars, Call, Change, Measure, Open, SetUpWindow, Apply,
         Poll, Wait, WaitRaises, AnalysisEnds, Results, Extract, Close, Restore, Write, Finish
<1>2. CASE output' = output
  BY <1>2 DEF SeriesKeepsEnds
<1> QED BY <1>1, <1>2, NothingTaken, SeriesTakenKeepsEnds

\* analysis_runner.py:373: a series of any length is thinned out in order, between its
\* ends and to any number of points.
THEOREM KeepsEndsOfSeries == WindowSpec => []SeriesKeepsEnds
BY SeriesInitially, SeriesStays, PTL DEF WindowSpec
=============================================================================
