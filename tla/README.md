# Verification of the Zemax MCP server

TLA+ models of `zemax-mcp`, a Python server that drives one OpticStudio
application for MCP clients. Paths below are relative to the repository.

## 1. Inventory

| Component | State | Operations | Hard behaviour | Correct when |
|---|---|---|---|---|
| Executor (`src/zemax_mcp/zos/executor.py`) | queue, thread, thread id, `_closed`, start lock, futures | `start`, `submit`, `call`, `shutdown`, `_run` | threads, reentrant calls, shutdown racing a submission | one worker, FIFO, every call answered, shutdown drains and returns |
| Session (`zos/session.py`, `zos/state.py`) | lifecycle, mode, ownership, instance, reentrant lock | `connect`, `dispatch`, `status`, `disconnect`, `restart`, `close` | several callers, tests outside the lock, failing worker calls, interrupts | the state tells the truth about the backend; closed is final; nothing left attached |
| Real backend, lifecycle (`zos/real_backend.py`) | application, system, ownership, mode, handles | `connect`, `disconnect`, `open_file`, `close_file`, `save_file`, `new_system`, `dispatch` | failures between obtaining and recording, or saving and closing | references agree, no application is lost |
| Real backend, lens and rays (`zos/real_backend.py`) | the lens in OpticStudio | `set_surface`, `add_surface`, `ray_trace`, `rms_spot` | attributes set one by one, temporary changes | rollback or report; tools closed |
| Native tools (`zos/subsystems/{optimization,general_tools,zrd}.py`) | the one open tool | open, run, cancel, close | time limits, failure before the `try` | a tool is stopped before it is closed, and left open only where the code has no `try` |
| Analysis runner (`zos/adapters/analysis_runner.py`) | window, settings, results | `run`, `run_to_file`, extraction | time limit, cleanup, sampling arithmetic | closed on every path; caps respected |
| Editors (`zos/subsystems/{mce_mfe,settings_lde,nsc}.py`) | rows, configurations, surfaces, objects, catalogs | insert, delete, set, resize, trace | several steps, one failing; row ranges; loops that ask OpticStudio | indices valid; partial changes known; success complete |
| Analysis operations (`zos/subsystems/analysis.py`) | primary wavelength, fields (temporarily) | about thirty analyses | restore after failure | the system is as before |
| Glass (`zos/subsystems/glass.py`) | catalog files | parse, filter, export | text formats | pure |
| Loader, discovery (`zos/loader.py`, `zos/discovery.py`) | process-wide cache | load, search | order of candidates, stale cache | the configured installation is used |
| Handles (`zos/handles.py`) | id to object | `put`, `get`, `release`, `clear` | none: nothing calls `put` | - |
| Cells, enums, interop (`zos/adapters/{cells,enums}.py`, `zos/interop.py`) | none | conversions | - | - |
| Server, wrappers (`server.py`, `tools/wrappers.py`) | the session | one session call per tool | runs on the event loop | reaches the right session method |
| Registry, capabilities, reporting, resources, prompts, CLI, config | static data | read, print | end of the server process | - |

Interaction: a tool wrapper calls one method of `ZOSSession`; the session takes
its `RLock`, moves `SessionState` and calls `ZOSExecutor.call`, which queues the
callable and blocks on its future; the worker thread runs a `RealZOSBackend`
method, the only code that touches OpticStudio.

The wrappers call the session synchronously on the event loop, so a stock server
has one caller at a time. The session and the executor are written for several
threads (an `RLock`, a queue, "Serialize backend access"), and used as a library
they may have them; this is what the models with two callers show.

## 2. Modules

| Module | Models | Correspondence |
|---|---|---|
| `SerialExecutor` | what the executor promises | queue, calls in service, futures, whether it has stopped; no threads or locks |
| `ZOSExecutor` | `executor.py` | one variable per attribute (`queue`, `thread`, `threadId` = `_thread_id` and `_started`, `startLock`, `closed`), `pc` = where a thread is inside a method, `worker` and `stack` = the loop `_run` and the callables it is in, `future` per item. One action per step other threads can see between |
| `RealBackend` | lifecycle of `real_backend.py` | `app`, `system`, `ownership`, `mode` = the attributes; `live` = the applications really open. One action per method, since all run on the worker |
| `ZOSSession` | `session.py`, `state.py` | `state` = `SessionState`, `lock` = `_lock`, `pc`/`args`/`next` = where a caller is, its arguments, and which method its operation calls after this one; `queue`, `reply`, `open` = the executor reduced to a FIFO queue, its submission to the test of `_closed` (`Submit`) and the put (`Put`); `built` = `_backend` exists. Uses the actions of `RealBackend` (INSTANCE) when the worker serves a call |
| `Sampling` | the arithmetic of `analysis_runner.py`, `nsc.py`, `mce_mfe.py` that keeps answers bounded | `SampleIndices` = `_sample_indices`, `GridStep`/`GridCells` = the decimation in `extract_grids`, `PerSource` = the share in `_bound_source_rays`, `RangeAccepted`/`RowRange` = `_row_bounds`. Operators without state |
| `RayDatabase` | the reading loop of `zrd.py` | `scan` = the counters of `_read` with its arguments; a database is a sequence of rays, each with declared and held segments |
| `SourceRays` | the temporary ray counts of `nsc.py` | `counts` = `NumberOfAnalysisRays` of each source, `saved` = `source_rays` |
| `SystemTools` | every operation that opens a tool: `optimization.py`, `general_tools.py`, `zrd.py`, the traces of `nsc.py`, `real_backend.py` and `analysis.py` | `Handling` says, per operation, what may be refused when, its time limits and its cleanup; `call` = how far the operation is, `tool` = the tool in OpticStudio, `left` = where a tool was left open |
| `AnalysisWindows` | every operation that opens an analysis window (`analysis.py` on `AnalysisRunner`, the Detector Viewer of `nsc.py`) and `rms_spot` | one record per operation says how it uses its window; `task` = how far, `held` = what was acquired, `engine` = the analysis in OpticStudio, `lens` = what an operation changes for the time being |
| `Worker` | the worker thread serving operations of the two modules above | interleaves them one operation at a time (`ToolStep`, `WindowStep`) |
| `Editors` | every operation of `mce_mfe.py`, `settings_lde.py`, the object editor of `nsc.py`, and `set_surface`/`add_surface`/`get_surface` of `real_backend.py`, except the getters | a document is a sequence of rows; `job.todo` = the edits an operation has still to make, one step each, any of which OpticStudio may refuse; `missed` = it has done nothing at a call whose answer the code drops; `fieldType` = the type of all fields, which `set_fields` sets first |
| `Catalogs` | material catalogs in `settings_lde.py` | `inUse` = `GetCatalogsInUse()`; `Canonical` = `_catalog_name` |
| `Prescription` | `Editors` with `Catalogs` | catalog operations are operations on the settings |
| `MC*` | constants for TLC | |
| `*_proofs` | theorems | |

Composition: `ZOSSession` uses `RealBackend` and stands on `SerialExecutor`'s
behaviour, which `ZOSExecutor` implements; `Worker` and `Prescription` are what
`dispatch()` reaches on the worker thread. Since the worker serves one callable
after the other (`OneWorkerThread`), those two need no second actor besides
OpticStudio itself, whose tools and analyses run while the worker waits.

Definitions commented "A bug:" are variants of the definition after them that a
plausible mistake in the code would produce. No behaviour of the model uses
them; they are there to be substituted for it, to see the properties fail.

Abstractions.

* Callables of the executor are opaque: they return, raise or use the executor
  again. Item `<<t, n>>` is the n-th operation of thread t. The ten seconds of
  `start()` and a user's `Future.cancel` may happen at any time.
* OpticStudio is an environment that fails in the ways listed in `Faults`
  (lifecycle), or at any call at all (tools, windows, editors), and whose
  applications in `Unclosable` may refuse to close. A system either has a
  `SystemFile` ("named") or not; which file does not matter. Reading a plain
  property (`IsRunning`, a count) is assumed not to raise.
* In `ZOSSession` a submission tests `_closed` and then puts, with `close()` free to
  run in between; a call put after that is `"lost"` and its caller waits for ever. The
  start of the worker thread is in `ZOSExecutor` alone. A `KeyboardInterrupt` is
  modelled in the wait for a future only, and only for callers in
  `Interruptible`; a Python main thread is one, the server's worker is not.
* OpticStudio refuses an edit by an exception or by answering `False`. Where the code
  looks at the answer both end the operation (`EditRaises`); where it drops the answer
  the operation goes on and reports success (`EditMissed`). `AnswerDropped` lists those
  calls: `RemoveOperandAt` and `ChangeType` of operands (`mce_mfe.py:255`, `:127`),
  the configuration calls and pickups of `mce_mfe.py`, solves and `MakePrimary` of
  `settings_lde.py`, and the insertion of a surface without values. Removing a field or
  wavelength without effect is the loop of the resize going round once more.
* In `Editors` a row is its kind (object surface, image surface, any other) and how
  much of what was requested it holds; what a cell holds is left out, and so is
  reading. `AddField` and `AddWavelength` beyond `Capacity` add nothing, and
  OpticStudio selects another wavelength or configuration when the selected one
  goes. The documents share no rows, so a behaviour edits one of them.
* The clock of a polled analysis counts rounds, not seconds. The numbers, labels and
  text of a result are left out; which indices are kept is not.
* `rms_spot` writes the weight of field 1 back with its coordinates
  (`real_backend.py:638`); since it never changes the weight, `LensRestored` speaks of
  the coordinates only.
* `batch_ray_trace` with an empty list of rays returns at once; it is not told
  apart from a refusal, as both touch nothing.

## 3. Runs

| Run | Result | States | Shows |
|---|---|---|---|
| `ExecutorSafety` | pass | 436 000 | one worker thread; the worker never waits for itself; implements `SerialExecutor` |
| `ExecutorShutdown` | pass | 218 000 | calls accepted before a shutdown complete, also when callables raise; `shutdown()` returns, also from inside a callable |
| `ExecutorLostCall` | **violated** | | a call queued behind the sentinel never returns |
| `BackendSafety` | pass | 544 | references agree; success never loses an application; only a disconnect that reports an error orphans an application that can be closed |
| `BackendOrphan` | **violated** | | `disconnect(save=True)` of a new system orphans an owned application |
| `SessionSafety` | pass | 757 000 | connected is true; settled when unlocked; nothing attached after close; a call that close overtakes holds no lock |
| `SessionCalls` | pass | 131 000 | every operation ends, interrupted ones too, unless `close()` overtook its call on the way to the queue |
| `SessionRestart` | **violated** | | a failed disconnect forgets the instance but not the mode |
| `SessionReopen` | **violated** | | a waiting connect reopens a closed session |
| `WorkerSafety` | pass | 945 000 | a running tool is stopped before it is closed and left open only where the code does that; ray counts, primary wavelength and field are set back; no data of an unfinished analysis; every window closed; truncated answers say so; time limits hold |
| `GridCap` | **violated** | | a decimated grid of 283 x 282 keeps 20022 cells, above the cap of 20000 |
| `EditorsSafety` | pass | 48 000 | object and image stay; what is selected exists; success is whole unless OpticStudio did nothing at a call whose answer is dropped, such a success and every failure local, refusal without effect; ranges are exact; no catalog twice; answers true; operations end |

The violated runs each check one statement of the repository's documentation,
comments or docstrings that the code does not keep; `findings` in `PROJECT.json`
quote it.

What the properties of the last three leave open is as telling as what they say:
`LeftBehind` names the places where a tool does stay open (and every later one is
then refused), `LateChecks` the operations that look at an argument only after
they have changed something, `CallsEnd` that a request for more fields or
wavelengths than OpticStudio holds never returns, nor one whose fields or wavelengths
OpticStudio does not remove, `SuccessIsWhole` that the operations of `AnswerDropped`
report success when nothing was done (`remove_operand`, `add_operand` and
`delete_configuration_operand` among them, where `nsc.py:155` and `:183`
would raise), `FailureIsLocal` that a failed `set_fields` keeps the new field type,
`OperationsReturn` and `LostHoldsNothing` that a `dispatch` or `status` which `close()`
overtakes between `executor.py:61` and `:72` waits for ever, though no one else waits
for it, `TimedToolEnds` that a tool
which cannot be cancelled is waited for without limit, and `CountsRestored` that
a failure while ray counts are being reduced loses the originals.

Bounds. Two callers are enough for every race between two operations, two
possible worker threads for a second one to be created if the code allowed it,
two operations per thread for one to be in progress when the other begins (three
threads submit when a callable does too). Two instance ids and both modes make
every disagreement of target possible; two processes allow an orphan and a
successor, three in the runs of the backend alone. `MaxOps` bounds what each
thread begins.

In `WorkerSafety` two sources with a ray limit of 1 make the minimum of one ray per
source exceed the limit, and with 4 the limit bind; the databases are empty,
complete, or end within a ray, with limits below, at and above their size; the
series are empty, shorter and longer than the limits 1 and 3, the grids below
and above a cap of 6; two rounds of polling let an analysis end before, at and
after the limit. Operations are unbounded in number. In `EditorsSafety` up to
three rows may be added and up to three fields, wavelengths or configurations
asked for with room for two, so both loops of a resize run, end, and fail to
end; two catalogs in two spellings, one of them available and both used by the
lens in other spellings. `GridCap` uses the cap of the source.

Deadlock checking is off where threads that have used up `MaxOps` stop; in the
runs of `RealBackend`, `Worker` and `Prescription` an operation is always
possible and it is on.

Fairness. Executor and session: weak fairness of every started method step and of
the worker loop: the operating system schedules running threads, and `Queue.get`,
`Event.wait`, `Future.result` and `join` return when they can. It includes that
callables, that is OpticStudio calls, terminate: `call()` has no time limit and a
hanging one hangs its caller. Nothing obliges a client to begin an operation, to
cancel a future or to be interrupted. Because each caller begins finitely many
operations, weak fairness is enough for the lock although Python's `RLock`
promises no order.

`Worker`: weak fairness of the steps of an operation in progress, where a call
that blocks (a run, a wait) has a step only once it can return. Nothing obliges a
tool or an analysis to end, except that a tool stops after a `Cancel` that
succeeded; nothing obliges a call to raise. `Prescription`: weak fairness of the
edits of an operation and of its reply, which is the worker going on, except of the
rounds of a loop that removes fields or wavelengths: whether OpticStudio ever removes
one is not assumed (`Removing`).

## 4. Proofs

All are for any values of the constants within the stated assumptions.

`ZOSExecutor_proofs`: `TypeCorrect`, `SingleWorker`, `NoSelfWait`, for any sets
of callers, workers and closers and any bound, from `ExecutorAssumption` and
`StopAssumption`. `OneWorkerThread` is not inductive: that no second thread is
created depends on `thread` being set under the lock by the step that creates
it, on the identity of the thread in `_run` being the recorded one
(`WorkerIdentity`), on which `pc` a worker can have in each phase of its loop
(`WorkerActivity`) and on items existing only for operations begun (`Begun`).
`IInv` is their conjunction with `TypeOK`; `StepIInv` shows each action keeps
it. `NoSelfWait` follows since a worker inside a method has
`threadId` equal to itself, so `Put` and the join are not for it.

`Implements`: the executor implements `SerialExecutor`. The refinement needs
`OrderInv`, which adds to `IInv` that an item not put yet has an untouched future
(`Fresh`), that what a worker has on its stack is running and is there once
(`Executing`), and that at most one shutdown puts at most one sentinel, before
which the loop does not end (`OneShutdown`). `StepImplements`
maps each action to a step of the abstract executor or to none.

`RealBackend_proofs`: `TypeCorrect`, `ReferencesAlwaysAgree`,
`SuccessAlwaysReleases`, `OnlyFailedDisconnectOrphans`, for any processes,
instances, unclosable applications and faults, from
`BackendAssumption`. `TypeOK /\ ReferencesAgree` is inductive; three lemmas say
what `connect`, `disconnect` and all other methods may do to the references.

`ZOSSession_proofs`: `SessionTypeCorrect` always; `ConnectedTellsTruth`,
`UnlockedIsSettled`, `NothingStaysAttached` and `LostCallsHoldNothing` under
`Interruptible = {}`. The
invariant `SessionInv` says who holds the lock at which point of which method
(`Exclusion`), that a call on the queue is the one its caller waits for
(`Sending`), that the lifecycle is unsettled exactly between the two transitions
of the caller holding the lock, and what it was answered is what became of the
application (`Transitions`), when an application is attached at all
(`Attachment`), and which calls a shutdown can overtake: only a caller with the lock
shuts the executor down, so a lost call is never one made under the lock
(`Overtaken`). An interrupted wait leaves "connecting" with the call still at the
worker, and then none of these holds: what remains true after an interrupt is that
operations return (`SessionCalls`).

`SystemTools_proofs`, `AnalysisWindows_proofs`: `ToolInv` and `WindowInv` tie the
step an operation has reached to the state of the tool or analysis, to what it has
acquired and to what it still has to set back. From them follow
`StopsBeforeClosing`, `SetsCountsBack` and `LeavesBehindOnlyThere` for any number of
sources and any limits, and `ClosesEverything`, `ReadsFinishedData`, `RestoresLens`,
`KeepsEndsOfSeries` for any time limit and any lengths. `TableOfTools` and
`TableOfAnalyses` reduce the per-operation records to the few facts the proofs use.

`TracesWithinLimit` and `UntruncatedHoldsAll` are about sums, over the sources and over
the rays of a database, and need `LimitInv` besides: from the reduction of the ray
counts to the end of the run no source has more than its share or than the user's count
(`TraceBounded`); while a scan goes on without having been truncated, the segments
counted are the sum over exactly the rays read so far, and a scan ends well only
truncated or at the last ray (`ScanFollows`). The property alone is not inductive: it
says nothing of a scan in the middle of the file.

`Worker_proofs` carries all of these over to the worker, where both kinds of operation
alternate (`OneAtATime`): `WorkerTypeCorrect`, `WorkerCleansUp`, `WorkerLeavesOnlyThere`.

`Sampling_proofs`: `SampleKeepsEnds`, for any length and limit: strictly increasing
from the first index to the last, in spite of rounding halves to even
(`RoundingSeparates`); `ShareOfLimit`; and what proofs need to know of sums
(`SumOfRest`, `SumBounded`). The sum of a function is a recursion over
subsets, and the library's induction theorems have an operator as a parameter, which
the provers cannot instantiate: so `NatSetInduction` and `SubsetInduction` state
induction of a set of numbers and a set of subsets, from well-foundedness, and the
recursion is shown from them to have a solution (`SumsExist`) and to add up one value
after the other.

`Prescription_proofs`: `NeverTwice` and `AnswersAreTrue` for any catalogs, spellings
and lens, from `CatalogInv`. For the editors, `EditTypeCorrect`, `EndsStayInPlace`,
`SelectionAlwaysExists`, `FailsLocally`, `RefusesFirst` and `ReadsItsRange`, for any
`MaxRows`, `MaxSize` and `Capacity`, from `EditInv`. None of these properties is
inductive, because they do not say what an operation halfway through will still do.
`EditInv` adds `Plan`: which edits an operation of each kind may have left and where
they stand (an addition inserts first and then writes only to its row; a removal,
choice, load or conversion is one edit; a resize grows within its first two edits and
chooses last; nothing is looked at late outside `LateChecks`), and `LocalSoFar`, which
is `OnlyItsRows` at every point before success, and after it for the operations of
several edits. Each request is shown to begin such a plan (`Start`) and each edit to
continue it (`MovedOn`); a call that was missed changes nothing (`EditMissedKeepsInv`).
`Flags` ties `missed` and `fieldType` to the operation: one of a single edit that was
missed has left everything as it was, and only `set_fields` that has begun its edits has
set the type of the fields.

`SucceedsWhole`: an operation that succeeds has made exactly the document that it was
asked for, unless a call was missed; `set_fields`, and no other, has set the field type.
`WholeInv` says of every operation that is not going to be refused and
has missed nothing what it
has done and what it has still to do (`WholePlan`): a row that is half done, or is to
be, is completed by a later edit (`Mended`, `Pending`); the rows to be written hold the
requested values or are still to get them, and no other row is touched (`WriteWhole`);
an addition differs from the document before by one row, which is being filled
(`AddWhole`); an operation of one edit has only wanted outcomes (`SingleWhole`); a
resize of the configurations ends with the number asked for, and keeps the current one
unless it goes (`ConfigureWhole`); one of fields or wavelengths has its loops first, and
then either keeps the rows that stay (`KeepWhole`) or writes every row anew
(`RefillWhole`). Each request begins such a plan (`WriteBegins` to `WavelengthsBegin`), each edit continues it
(`PlanGoesOn`), each round of a loop leaves it as it is (`PlanLoopsOn`), and
with nothing left to do the document is one of those wanted (`WholeAtTheEnd`).

Every safety property of a passing run is proved, those of the session where no wait is
interrupted. Only model-checked is liveness
(`AcceptedBeforeShutdownCompletes`, `ShutdownReturns`, `OperationsReturn`,
`TimedToolEnds`, `PolledAnalysisEnds`, `CallsEnd`), since fairness and ENABLED are out
of the prover's reach. The statements of the violated runs are false of the code.

## 5. Not modelled

* `HandleStore`: nothing in the source calls `put`, so it is always empty.
* Glass catalogs: text parsed and filtered, without state shared with the rest.
* Cells, enumerations, interop: conversions by name lookup.
* Loader and discovery: the order of candidates and the process-wide cache. One
  process asks for one installation, the first that discovery finds, and the .NET
  runtime cannot load a second one; that they may fail is the fault "start".
* Registry, capabilities, reporting, resources, prompts: static data.
* Argument cleaning, schemas, logging, command line.
* The getters of the editors and detectors, which change nothing.
* The end of the process: daemon threads die with it, and `cli.py` does not close
  the session; the source promises nothing about it.

See `components` in `PROJECT.json` for each part.

## 6. What could follow

1. Abstract specifications of a tool operation and of an editor operation, each shown
   to be implemented as the executor is shown to implement `SerialExecutor`, and the
   safety half of the liveness properties: which step a waiting call waits for.
2. An end-of-process model, once `cli.py` promises something about the application
   it leaves behind.
3. The loader's cache, if a process ever asks for a second installation.
