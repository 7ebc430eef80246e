-------------------------- MODULE AnalysisWindows --------------------------
(***************************************************************************)
(* The operations that open an analysis window: analysis.py on top of      *)
(* AnalysisRunner (adapters/analysis_runner.py), the Detector Viewer of    *)
(* nsc.py, and rms_spot() of real_backend.py, which opens no window but    *)
(* changes the lens for a moment as cardinal_points() does.  The analysis  *)
(* is computed by OpticStudio while the worker polls it with a time limit, *)
(* or waits for it without one.                                            *)
(***************************************************************************)
EXTENDS Sampling, Sequences, FiniteSets

CONSTANTS MaxRuntime,    \* MAX_RUNTIME_SECONDS, in rounds of polling
          PointLimits,   \* values of max_points (MAX_POINTS_PER_CURVE by default)
          SeriesLengths, \* bound: points of a data series
          GridShapes,    \* bound: <<rows, columns>> of a data grid
          MaxGridCells,  \* MAX_GRID_CELLS
          Wavelengths    \* the wavelengths 1..n of the system

ASSUME WindowAssumption ==
  /\ MaxRuntime \in Nat
  /\ PointLimits \subseteq Nat \ {0}
  /\ Wavelengths \subseteq Nat \ {0}
  /\ SeriesLengths \subseteq Nat

(* How each operation uses its window.                                     *)
(*   refuses:    some arguments are refused before the window is opened    *)
(*   configures: it sets up the window's settings, which may be refused    *)
(*   waits:      it always uses ApplyAndWaitForCompletion                  *)
(*   holds:      what it closes at the end, in this order                  *)
(*   extracts:   "series", "grids": what it takes from the results         *)
(*   changes:    what it changes in the lens for the time being            *)
(*   writes:     it writes a file at the end, which may fail               *)
(*   quiet:      a resource that cannot be closed does not fail it         *)
Analysis(refuses, configures, extracts) ==
  [refuses |-> refuses, configures |-> configures, waits |-> FALSE,
   holds |-> <<"window", "settings", "results">>, extracts |-> extracts,
   changes |-> "nothing", writes |-> FALSE, quiet |-> TRUE]
Spot(refuses) == [Analysis(refuses, TRUE, {}) EXCEPT !.waits = TRUE]

fft_mtf == Analysis(TRUE, TRUE, {"series"})
huygens_mtf == Analysis(TRUE, TRUE, {"series"})
fan == Analysis(FALSE, TRUE, {"series"})
cardinal_points == [Analysis(TRUE, FALSE, {"series"}) EXCEPT !.changes = "primary"]
chromatic_focal_shift == Analysis(FALSE, FALSE, {"series"})
lateral_color == Analysis(FALSE, TRUE, {"series"})
longitudinal_aberration == Analysis(FALSE, FALSE, {"series"})
seidel_coefficients == Analysis(FALSE, TRUE, {"series", "grids"})
field_curvature_distortion == Analysis(TRUE, TRUE, {"series"})
relative_illumination == Analysis(FALSE, TRUE, {"series"})
spot_diagram == Spot(TRUE)
spot_rms == Spot(FALSE)
mtf_vs_field == Analysis(TRUE, TRUE, {"series"})
geometric_mtf == Analysis(TRUE, TRUE, {"series"})
diffraction_encircled_energy == Analysis(FALSE, TRUE, {"series"})
geometric_encircled_energy == Analysis(FALSE, TRUE, {"series"})
fft_psf == Analysis(FALSE, TRUE, {"grids"})
huygens_psf == Analysis(FALSE, TRUE, {"grids"})
geometric_image_analysis == [Analysis(TRUE, TRUE, {"grids"}) EXCEPT !.writes = TRUE]
pop == Analysis(TRUE, TRUE, {"grids"})
export_text == [Analysis(TRUE, FALSE, {}) EXCEPT !.holds = <<"window", "settings">>]
export_data == [Analysis(TRUE, FALSE, {"series", "grids"}) EXCEPT !.writes = TRUE]
run_analysis == Analysis(TRUE, FALSE, {"series", "grids"})
analysis_series == Analysis(TRUE, FALSE, {"series"})
detector_viewer == [Analysis(TRUE, TRUE, {}) EXCEPT !.waits = TRUE, !.quiet = FALSE,
                                                    !.holds = <<"window">>]
rms_spot == [Analysis(TRUE, FALSE, {}) EXCEPT !.changes = "field", !.holds = << >>]

Analyses ==
  {fft_mtf, huygens_mtf, fan, cardinal_points, chromatic_focal_shift, lateral_color,
   longitudinal_aberration, seidel_coefficients, field_curvature_distortion,
   relative_illumination, spot_diagram, spot_rms, mtf_vs_field, geometric_mtf,
   diffraction_encircled_energy, geometric_encircled_energy, fft_psf, huygens_psf,
   geometric_image_analysis, pop, export_text, export_data, run_analysis,
   analysis_series, detector_viewer, rms_spot}

VARIABLES task,     \* the operation on the worker: its kind, how far, how it went
          held,     \* what it obtained and has not closed
          engine,   \* the analysis in OpticStudio: "idle", "busy", "done" or "stopped"
          lens,     \* the primary wavelength, and x and y of field 1 (0: the user's)
          original, \* lens when the operation began
          output    \* the indices kept of a series, and the cells kept of a grid

windowVars == <<task, held, engine, lens, original, output>>

NoTask == [use |-> fan, step |-> "idle", clock |-> 0, result |-> "none", refused |-> {}]
NoOutput == [series |-> << >>, length |-> 0, limit |-> 1, cells |-> 0]

WindowInit == /\ task = NoTask
              /\ held = {}
              /\ engine = "idle"
              /\ lens \in [primary : Wavelengths, field : {<<0, 0>>}]
              /\ original = lens
              /\ output = NoOutput

Use == task.use
Reached(step) == task.step = step
Proceed(step) == task' = [task EXCEPT !.step = step, !.clock = 0]
Raise(step) == task' = [task EXCEPT !.step = step, !.clock = 0, !.result = "error"]

Call(use) ==
  /\ Reached("idle")
  /\ \/ task' = [NoTask EXCEPT !.use = use,
                   !.step = IF use.changes = "nothing" THEN "open" ELSE "change"]
     \/ /\ use.refuses
        /\ task' = [NoTask EXCEPT !.use = use, !.step = "done", !.result = "error"]
  /\ UNCHANGED <<held, engine, lens, original, output>>

\* _set_primary_wavelength() raises before it changes anything; of the two
\* coordinates of field 1 the first may be set when the second is refused.
Change ==
  /\ Reached("change")
  /\ \/ /\ Use.changes = "primary"
        /\ \/ Proceed("open") /\ \E w \in Wavelengths : lens' = [lens EXCEPT !.primary = w]
           \/ Raise("done") /\ UNCHANGED lens
     \/ /\ Use.changes = "field"
        /\ \/ Proceed("measure") /\ lens' = [lens EXCEPT !.field = <<1, 1>>]
           \/ Raise("restore") /\ lens' \in {lens, [lens EXCEPT !.field[1] = 1]}
  /\ UNCHANGED <<held, engine, original, output>>

\* rms_spot(): GetOperandValue.
Measure == /\ Reached("measure")
           /\ task' = [task EXCEPT !.step = "restore", !.result = "ok"] \/ Raise("restore")
           /\ UNCHANGED <<held, engine, lens, original, output>>

Obtained(r) == held' = held \cup ({r} \cap {Use.holds[i] : i \in DOMAIN Use.holds})

Open == /\ Reached("open")
        /\ (Proceed("settings") /\ Obtained("window")) \/ (Raise("close") /\ UNCHANGED held)
        /\ UNCHANGED <<engine, lens, original, output>>

\* GetSettings, then configure(settings).
SetUpWindow ==
  /\ Reached("settings")
  /\ \/ Raise("close") /\ UNCHANGED held
     \/ Obtained("settings") /\ (Proceed("apply") \/ (Use.configures /\ Raise("close")))
  /\ UNCHANGED <<engine, lens, original, output>>

\* Apply and IsRunning, when the window has them and the operation asks for them.
Apply == /\ Reached("apply")
         /\ \/ engine' = "busy" /\ (Proceed("wait") \/ (~Use.waits /\ Proceed("poll")))
            \/ Raise("close") /\ UNCHANGED engine
         /\ UNCHANGED <<held, lens, original, output>>

\* In OpticStudio.
AnalysisEnds == /\ engine = "busy"
                /\ engine' = "done"
                /\ UNCHANGED <<task, held, lens, original, output>>

\* A bug: after Terminate the results are read all the same.
ReadAnyway == Proceed("results")
GiveUp == Raise("close")

\* A bug: a clock that wraps around at the limit.
Wrapped(clock) == (clock + 1) % MaxRuntime
Later(clock) == clock + 1

\* One round of _apply_with_timeout(); Terminate may fail, and nobody waits for it.
Poll == /\ Reached("poll")
        /\ \/ engine = "done" /\ Proceed("results") /\ UNCHANGED engine
           \/ /\ engine = "busy" /\ task.clock < MaxRuntime
              /\ task' = [task EXCEPT !.clock = Later(@)] /\ UNCHANGED engine
           \/ /\ engine = "busy" /\ task.clock >= MaxRuntime
              /\ GiveUp /\ engine' \in {"busy", "stopped"}
           \/ Raise("close") /\ UNCHANGED engine
        /\ UNCHANGED <<held, lens, original, output>>

\* ApplyAndWaitForCompletion has no limit.
Wait == /\ Reached("wait")
        /\ engine = "done"
        /\ Proceed("results")
        /\ UNCHANGED <<held, engine, lens, original, output>>
WaitRaises == /\ Reached("wait")
              /\ Raise("close")
              /\ UNCHANGED <<held, engine, lens, original, output>>

\* GetResults; for a text export ToFile, and looking for the file.
Results == /\ Reached("results")
           /\ (Proceed("extract") /\ Obtained("results")) \/ (Raise("close") /\ UNCHANGED held)
           /\ UNCHANGED <<engine, lens, original, output>>

SeriesTaken == \E n \in SeriesLengths, k \in PointLimits :
  output' = [NoOutput EXCEPT !.series = SampleIndices(n, k), !.length = n, !.limit = k]
GridTaken == \E g \in GridShapes :
  output' = [NoOutput EXCEPT !.cells = GridCells(g[1], g[2], MaxGridCells)]

\* What the results hold is an input: either, both or neither kind of data.
Extract == /\ Reached("extract")
           /\ \/ /\ task' = [task EXCEPT !.step = "close", !.result = "ok"]
                 /\ \/ "series" \in Use.extracts /\ SeriesTaken
                    \/ "grids" \in Use.extracts /\ GridTaken
                    \/ UNCHANGED output
              \/ Raise("close") /\ UNCHANGED output
           /\ UNCHANGED <<held, engine, lens, original>>

\* A bug: the first resource that cannot be closed ends the loop.
UnclosedUntilRefused == IF task.refused = {} THEN held ELSE {}
\* close_resources() goes on after a failure.
Unclosed == held \ task.refused
IsNext(r) == \E i \in DOMAIN Use.holds :
  Use.holds[i] = r /\ \A j \in 1..(i - 1) : Use.holds[j] \notin Unclosed

AfterClose == IF Use.changes # "nothing" THEN "restore"
              ELSE IF Use.writes /\ task.result = "ok" THEN "write" ELSE "done"

\* The Detector Viewer is closed by a Close whose failure is the operation's.
Close ==
  /\ Reached("close")
  /\ \/ Unclosed = {} /\ Proceed(AfterClose) /\ UNCHANGED held
     \/ \E r \in Unclosed :
          /\ IsNext(r)
          /\ \/ held' = held \ {r} /\ UNCHANGED task
             \/ /\ task' = [task EXCEPT !.refused = @ \cup {r},
                              !.result = IF Use.quiet THEN @ ELSE "error"]
                /\ UNCHANGED held
  /\ UNCHANGED <<engine, lens, original, output>>

\* A bug: rms_spot() sets the first coordinate back only.
RestoreFirst(field) == <<original.field[1], field[2]>>
RestoreField(field) == original.field

\* The finally clause that sets the lens back may itself fail.
Restore ==
  /\ Reached("restore")
  /\ \/ /\ Proceed("done")
        /\ lens' = IF Use.changes = "primary" THEN [lens EXCEPT !.primary = original.primary]
                   ELSE [lens EXCEPT !.field = RestoreField(@)]
     \/ /\ task' = [task EXCEPT !.step = "done", !.result = "error",
                                !.refused = @ \cup {"lens"}]
        /\ \/ UNCHANGED lens
           \/ /\ Use.changes = "field"
              /\ lens' = [lens EXCEPT !.field[1] = original.field[1]]
  /\ UNCHANGED <<held, engine, original, output>>

\* write_detached().
Write == /\ Reached("write")
         /\ Proceed("done") \/ Raise("done")
         /\ UNCHANGED <<held, engine, lens, original, output>>

\* The result, or the exception, goes to the caller.
Finish == /\ Reached("done")
          /\ task' = NoTask
          /\ held' = {}
          /\ engine' = "idle"
          /\ original' = lens
          /\ output' = NoOutput
          /\ UNCHANGED lens

WindowWork == \/ Change \/ Measure \/ Open \/ SetUpWindow \/ Apply \/ Poll \/ Wait
              \/ Results \/ Extract \/ Close \/ Restore \/ Write \/ Finish
WindowNext == (\E use \in Analyses : Call(use)) \/ WindowWork \/ WaitRaises \/ AnalysisEnds

\* An operation works on until it ends, but a call that blocks need not return: that
\* an analysis ends is not assumed.
WindowFairness == WF_windowVars(WindowWork)
WindowSpec == WindowInit /\ [][WindowNext]_windowVars /\ WindowFairness

-----------------------------------------------------------------------------
WindowSteps == {"idle", "change", "measure", "open", "settings", "apply", "poll", "wait",
                "results", "extract", "close", "restore", "write", "done"}

Tasks == [use : Analyses, step : WindowSteps, clock : 0..MaxRuntime,
          result : {"none", "ok", "error"},
          refused : SUBSET {"window", "settings", "results", "lens"}]
Lenses == [primary : Wavelengths, field : {0, 1} \X {0, 1}]

WindowTypeOK ==
  /\ task \in Tasks
  /\ held \subseteq {"window", "settings", "results"}
  /\ engine \in {"idle", "busy", "done", "stopped"}
  /\ lens \in Lenses
  /\ original \in Lenses

\* analysis_runner.py:290, "once per acquired object": whatever failed on the way,
\* only what could not be closed is still open when the operation returns.
EverythingClosed == Reached("done") => held \subseteq task.refused

\* analysis_runner.py:188: data are taken from an analysis that has finished, never
\* from one that ran out of time.
OnlyFinishedData == Reached("extract") \/ output # NoOutput => engine = "done"

\* analysis.py:293 and real_backend.py:638: the lens is as it was found when the
\* operation returns, failed or not, unless setting it back failed.
LensRestored == Reached("done") /\ "lens" \notin task.refused => lens = original

\* analysis_runner.py:373: a thinned-out series keeps its order, its first and its
\* last point and not more than max_points of them.
SeriesKeepsEnds ==
  LET s == output.series
  IN  s # << >> => /\ Len(s) <= output.limit /\ Head(s) = 0
                   /\ Len(s) > 1 => s[Len(s)] = output.length - 1
                   /\ \A i, j \in DOMAIN s : i < j => s[i] < s[j]

\* analysis_runner.py:270, "keep the sampled product below the cap".
GridFits == output.cells <= MaxGridCells

\* analysis_runner.py:188, "bounded": an operation whose analysis is polled ends,
\* whether the analysis does or not.
PolledAnalysisEnds == Reached("poll") ~> Reached("idle")
=============================================================================
