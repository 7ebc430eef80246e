------------------------------ MODULE Editors ------------------------------
(***************************************************************************)
(* The operations that edit a system's documents: mce_mfe.py (merit        *)
(* function and multi-configuration editors), settings_lde.py (lens data,  *)
(* fields, wavelengths, settings), nsc.py (non-sequential objects) and     *)
(* set_surface() and add_surface() of real_backend.py.  A document is a    *)
(* sequence of rows; the rows of the settings are their cells.  An         *)
(* operation refuses some arguments at once, and then makes one edit after *)
(* the other; each of them OpticStudio may refuse, by an exception or by   *)
(* an answer that the code may ignore, and there is no undo.               *)
(* Documents share no rows, so a behaviour edits one of them.              *)
(***************************************************************************)
EXTENDS Sampling, SequencesExt

CONSTANTS MaxRows,  \* bound: rows a caller adds to a document
          MaxSize,  \* bound: fields, wavelengths or configurations asked for
          Capacity  \* fields or wavelengths that OpticStudio can hold

ASSUME EditorAssumption == MaxRows \in Nat /\ MaxSize \in Nat \ {0} /\ Capacity \in Nat \ {0}

VARIABLES doc,    \* the document edited
          p,      \* its rows, the configurations, what is selected, and the mode
          job,    \* the operation on the worker
          before, \* p when the operation began
          missed, \* OpticStudio has done nothing at a call whose answer is dropped
          fieldType \* of the system: as it was, due to be set, or as requested

editVars == <<doc, p, job, before, missed, fieldType>>

\* kind: the object surface, the image surface, or any other row.  fill: untouched by
\* this operation, just added, not all of it as requested, or as requested.
Row(kind, fill) == [kind |-> kind, fill |-> fill]
Fills == {"old", "blank", "part", "new"}
Kinds == {"object", "image", "row"}
Old == Row("row", "old")
New == Row("row", "new")
Olds(n) == [i \in 1..n |-> Old]
News(n) == [i \in 1..n |-> New]

Cells == <<"AFocalImageSpace", "ApertureType", "ApertureValue", "ApodizationType",
           "ApodizationFactor", "SemiDiameterMargin", "RayAiming", "MTFUnits", "LensUnits",
           "Title", "Notes", "Author", "PolarizationMethod", "Polarization">>

Documents == {"MFE", "MCE", "LDE", "NCE", "Fields", "Wavelengths", "Settings"}

InitialRows(d) == CASE d = "LDE" -> <<Row("object", "old"), Old, Row("image", "old")>>
                    [] d = "Settings" -> Olds(Len(Cells))
                    [] OTHER -> Olds(1)

\* What a caller asked for.  row: the row that the answer reports; rows: those it is
\* about; want: the outcomes it would accept; final: how the last edit ends it.
NoJob == [op |-> "none", kind |-> "none", row |-> 0, rows |-> {}, size |-> 1, todo |-> << >>,
          want |-> {}, final |-> "ok", result |-> "none"]

EditInit == /\ doc \in Documents
            /\ p = [rows |-> InitialRows(doc), configurations |-> 1, chosen |-> 1,
                    mode |-> "nonsequential"]
            /\ job = NoJob
            /\ before = p
            /\ missed = FALSE
            /\ fieldType = "old"

n == Len(p.rows)
Idle == job = NoJob
Ended == job.result # "none"

-----------------------------------------------------------------------------
\* The edits an operation is made of.

Edit(act, at, fill) == <<[act |-> act, at |-> at, fill |-> fill]>>
Insert(at, fill) == Edit("insert", at, fill)
Write(at, fill) == Edit("write", at, fill)
Drop(at) == Edit("remove", at, "old")
Resize(size) == Edit("shrink", size, "old") \o Edit("grow", size, "new")
Choose(number) == Edit("choose", number, "old")
Configure(number) == Edit("configure", number, "old")
Load(rows) == Edit("load", rows, "old")
Convert(mode) == Edit("convert", 0, mode)
\* An argument that is looked at only now.
Check == Edit("check", 0, "old")
\* A bug: the type is changed before it is looked at.
SetThenCheck(at) == Write(at, "part") \o Check
Retype(at) == Check \o Write(at, "part")
Typed(at) == Retype(at) \o Write(at, "new")

\* The two loops of a resize ask OpticStudio for the number of rows in every round.
\* A bug: <= for <.
NotMore(length, size) == length <= size
Fewer(length, size) == length < size
Looping(e) == \/ e.act = "shrink" /\ n > e.at
              \/ e.act = "grow" /\ Fewer(n, e.at)

\* OpticStudio selects another row, or configuration, when the selected one goes.
Selected(chosen, number) == IF chosen <= number THEN {chosen} ELSE 1..number
Sized(rows) == {[p EXCEPT !.rows = rows, !.chosen = c] :
                  c \in IF doc = "Wavelengths" THEN Selected(p.chosen, Len(rows)) ELSE {p.chosen}}

\* What a write leaves: a row whose type was not changed is never as requested.
Held(fill) == IF missed /\ fill = "new" THEN "part" ELSE fill

\* mce_mfe.py:337: the configurations are counted and not asked for, so that an added
\* or deleted one that was missed is missing in the end.
Reached(k) ==
  LET c == p.configurations
  IN  IF missed /\ k > c THEN c + 1 ELSE IF missed /\ k < c THEN c - 1 ELSE k

Solves == {"_make_pickup", "set_variable", "set_surface_solve", "set_aspheric_surface"}

\* What one edit may do to the document.
Outcomes(e) ==
  CASE e.act = "insert" -> {[p EXCEPT !.rows = InsertAt(@, e.at, Row("row", e.fill))]}
    [] e.act = "write" -> {[p EXCEPT !.rows[e.at].fill = Held(e.fill)]}
    [] e.act = "remove" -> {[p EXCEPT !.rows = RemoveAt(@, e.at)]}
    [] e.act = "shrink" -> Sized(SubSeq(p.rows, 1, n - 1))
    [] e.act = "grow" -> {IF n < Capacity THEN [p EXCEPT !.rows = Append(@, New)] ELSE p}
    [] e.act = "choose" -> {[p EXCEPT !.chosen = e.at]}
    [] e.act = "configure" -> {[p EXCEPT !.configurations = Reached(e.at), !.chosen = c] :
                                 c \in IF p.chosen <= e.at THEN {p.chosen} ELSE 1..Reached(e.at)}
    [] e.act = "load" -> {[p EXCEPT !.rows = Olds(e.at)]}
    [] e.act = "convert" -> {[p EXCEPT !.mode = e.fill, !.rows = Olds(k)] :
                               k \in IF e.fill = "sequential" THEN {0} ELSE 0..MaxRows}
    [] OTHER -> {p}

GoesOn == job' = [job EXCEPT !.todo = Tail(@),
                    !.result = IF Len(job.todo) = 1 THEN job.final ELSE @]

\* set_fields() sets the type of all fields before it touches one of them.
SetFieldType ==
  /\ fieldType = "due"
  /\ fieldType' = "new"
  /\ UNCHANGED <<doc, p, job, before, missed>>

EditStep ==
  /\ job.todo # << >> /\ fieldType # "due"
  /\ LET e == Head(job.todo)
     IN  \/ /\ Looping(e)
            /\ p' \in Outcomes(e)
            /\ UNCHANGED job
         \/ /\ ~Looping(e)
            /\ IF e.act \in {"shrink", "grow"} THEN UNCHANGED p ELSE p' \in Outcomes(e)
            /\ GoesOn
  /\ UNCHANGED <<doc, before, missed, fieldType>>

\* Calls whose answer the code does not look at: the type of an operand, a solve, a
\* pickup, the removal of an operand, the configurations, the primary wavelength, and
\* the insertion of a surface that gets no values.
AnswerDropped(e) ==
  \/ e.act \in {"choose", "configure"}
  \/ doc \in {"MFE", "MCE"} /\ e.act = "remove"
  \/ doc \in {"MFE", "MCE"} /\ e.act = "write" /\ e.fill = "part"
  \/ job.op \in Solves /\ e.act = "write" /\ e.fill = "new"
  \/ e.act = "insert" /\ Len(job.todo) = 1

\* OpticStudio answers that it has done nothing, and the operation goes on.
EditMissed ==
  /\ job.todo # << >> /\ fieldType # "due" /\ AnswerDropped(Head(job.todo))
  /\ GoesOn
  /\ missed' = TRUE
  /\ UNCHANGED <<doc, p, before, fieldType>>

\* OpticStudio refuses an edit, or an argument turns out to be wrong: the operation
\* raises, and what it has changed stays.
EditRaises ==
  /\ job.todo # << >>
  /\ job' = [job EXCEPT !.todo = << >>,
               !.result = IF Head(job.todo).act = "check" THEN "refused" ELSE "error"]
  /\ fieldType' = IF fieldType = "due" THEN "old" ELSE fieldType
  /\ UNCHANGED <<doc, p, before, missed>>

Settle(row) == [row EXCEPT !.fill = IF @ = "new" THEN "old" ELSE @]
Reply == /\ Ended
         /\ job' = NoJob
         /\ p' = [p EXCEPT !.rows = [i \in DOMAIN @ |-> Settle(@[i])]]
         /\ before' = p'
         /\ missed' = FALSE
         /\ fieldType' = "old"
         /\ UNCHANGED doc

-----------------------------------------------------------------------------
\* The operations.  Any of them may be refused for an argument of the wrong kind.

Request(op, kind, row, todo, want) ==
  [op |-> op, kind |-> kind, row |-> row, rows |-> {row}, size |-> 1, todo |-> todo,
   want |-> want, final |-> "ok", result |-> IF todo = << >> THEN "ok" ELSE "none"]

Ask(op, accepted, request) ==
  /\ Idle
  /\ \/ accepted /\ job' = request
     \/ job' = [NoJob EXCEPT !.op = op, !.result = "refused"]
  /\ before' = p
  /\ fieldType' = IF job'.op = "set_fields" /\ job'.todo # << >> THEN "due" ELSE "old"
  /\ UNCHANGED <<doc, p, missed>>

\* AddOperand() appends, InsertNewOperandAt() inserts.
Place(insert_at) == IF insert_at = 0 THEN n + 1 ELSE insert_at
\* A bug: the row reported is the last one found, not the one added.
CountFound(insert_at) == IF insert_at = 0 THEN n ELSE insert_at
\* _append_or_insert()
ReportedRow(insert_at) == IF insert_at = 0 THEN n + 1 ELSE insert_at

Added(op, insert_at, todo) ==
  Request(op, "add", ReportedRow(insert_at), todo,
          {[p EXCEPT !.rows = InsertAt(@, Place(insert_at), New)]})
NewOperand(insert_at) == Insert(Place(insert_at), "blank") \o Typed(Place(insert_at))
AddRow(op, accepted, insert_at) ==
  n < MaxRows /\ Ask(op, accepted, Added(op, insert_at, NewOperand(insert_at)))

\* _remove_operand()
RemoveRow(op, row, last) ==
  Ask(op, row \in 1..last,
      Request(op, "remove", row, Drop(row), {[p EXCEPT !.rows = RemoveAt(@, row)]}))

Whole(row) == Write(row, "new")
WriteRow(op, row, accepted, todo) ==
  Ask(op, row \in 1..n /\ accepted,
      Request(op, "write", row, todo, {[p EXCEPT !.rows[row].fill = "new"]}))

\* Answers about rows start..end, the last of them for 0 (_row_bounds()).
ReadRows(op, start, end) ==
  Ask(op, RangeAccepted(start, end, n),
      [Request(op, "read", start, << >>, {p}) EXCEPT !.size = end,
                                                     !.rows = RowRange(start, end, n)])
Nothing(op, accepted) == Ask(op, accepted, Request(op, "none", 0, << >>, {p}))

\* The merit function editor.
get_merit_function == doc = "MFE" /\ \E start, end \in 0..(MaxRows + 1) :
  ReadRows("get_merit_function", start, end)
add_operand == doc = "MFE" /\ \E at \in 0..(MaxRows + 1) :
  AddRow("add_operand", at <= n + 1, at)
remove_operand == doc = "MFE" /\ \E row \in 0..(MaxRows + 1) :
  RemoveRow("remove_operand", row, n)
load_merit_function_file == doc = "MFE" /\ \E k \in 0..MaxRows :
  Ask("load_merit_function_file", TRUE,
      Request("load_merit_function_file", "load", 0, Load(k), {[p EXCEPT !.rows = Olds(k)]}))

\* The multi-configuration editor.
Configured(k) == {[p EXCEPT !.configurations = k, !.chosen = c] : c \in Selected(p.chosen, k)}
\* A bug: the last one is not deleted.
OneShort(k) ==
  LET c == p.configurations
  IN  IF k > c THEN [i \in 1..(k - c) |-> Configure(c + i)[1]]
               ELSE [i \in 1..(c - k - 1) |-> Configure(c - i)[1]]
OneByOne(k) ==
  LET c == p.configurations
  IN  IF k > c THEN [i \in 1..(k - c) |-> Configure(c + i)[1]]
               ELSE [i \in 1..(c - k) |-> Configure(c - i)[1]]
set_number_of_configurations == doc = "MCE" /\ \E k \in 0..MaxSize :
  \E todo \in {Configure(k), OneByOne(k)} :
    Ask("set_number_of_configurations", k >= 1,
        Request("set_number_of_configurations", "size", 0, todo, Configured(k)))
mce_add_config ==
  /\ doc = "MCE" /\ p.configurations < MaxSize
  /\ LET k == p.configurations + 1
     IN  Ask("mce_add_config", TRUE,
             Request("mce_add_config", "size", 0, Configure(k), Configured(k)))
set_current_configuration == doc = "MCE" /\ \E k \in 0..(MaxSize + 1) :
  Ask("set_current_configuration", k \in 1..p.configurations,
      Request("set_current_configuration", "choose", 0, Choose(k), {[p EXCEPT !.chosen = k]}))
get_configuration_operands == doc = "MCE" /\ \E start, end \in 0..(MaxRows + 1) :
  ReadRows("get_configuration_operands", start, end)
add_configuration_operand == doc = "MCE" /\ \E at \in 0..(MaxRows + 1) :
  AddRow("add_configuration_operand", at <= n + 1, at)
delete_configuration_operand == doc = "MCE" /\ \E row \in 0..(MaxRows + 1) :
  RemoveRow("delete_configuration_operand", row, n)
\* A value, or a pickup from another configuration.
set_configuration_operand_value ==
  doc = "MCE" /\ \E row \in 0..(MaxRows + 1), k \in 0..(MaxSize + 1) :
    LET accepted == k \in 1..p.configurations
    IN  \/ WriteRow("set_configuration_operand_value", row, accepted, Whole(row))
        \/ \E source \in 0..(MaxSize + 1) :
             WriteRow("_make_pickup", row,
                      accepted /\ source \in (1..p.configurations) \ {k}, Whole(row))
\* More values than configurations are noticed when the row has been added.
mce_add_operand == doc = "MCE" /\ n < MaxRows /\ \E values \in 0..(MaxSize + 1) :
  LET few == values <= p.configurations
      cells == IF few THEN [i \in 1..values |-> Whole(ReportedRow(0))[1]] ELSE << >>
  IN  Ask("mce_add_operand", TRUE,
          [Added("mce_add_operand", 0, NewOperand(0) \o cells)
             EXCEPT !.final = IF few THEN "ok" ELSE "refused"])

\* The lens data editor: surfaces are numbered from 0, and -1 is the last.
SurfaceRow(surface) == IF surface = -1 THEN n ELSE surface + 1
SurfaceNumbers == -1..(MaxRows + 3)
SurfaceRows == {SurfaceRow(surface) : surface \in SurfaceNumbers}
\* A bug: > for >=.
UpToCount(position) == position \in 1..n
InsertAccepted(position) == position \in 1..(n - 1)
InsertSurface(op, position, todo) ==
  /\ n < MaxRows + 2
  /\ Ask(op, InsertAccepted(position), Added(op, position + 1, todo))
insert_surface == doc = "LDE" /\ \E position \in SurfaceNumbers :
  InsertSurface("lde_insert_surface", position, Insert(position + 1, "new"))
\* real_backend.py: 0 stands for the place before the image surface.
add_surface == doc = "LDE" /\ \E insert_at \in SurfaceNumbers :
  LET index == IF insert_at = 0 THEN n - 1 ELSE insert_at
  IN  InsertSurface("add_surface", index, Insert(index + 1, "part") \o Whole(index + 1))
\* OpticStudio may leave the surface: the answer says so and does not fail.
remove_surface == doc = "LDE" /\ \E surface \in SurfaceNumbers :
  \/ /\ surface \in 1..(n - 2)
     /\ RemoveRow("remove_surface", surface + 1, n)
  \/ Nothing("remove_surface", surface \in 1..(n - 2))
OnSurface(op, row, todo) == doc = "LDE" /\ WriteRow(op, row, TRUE, todo)
\* One attribute after the other.
Several(row) == Write(row, "part") \o Whole(row)
get_surface == doc = "LDE" /\ \E surface \in SurfaceNumbers :
  Nothing("get_surface", SurfaceRow(surface) \in 1..n)
set_surface == \E row \in SurfaceRows : OnSurface("set_surface", row, Several(row))
set_surface_common == \E row \in SurfaceRows : OnSurface("lde_set_surface", row, Several(row))
set_surface_variable == \E row \in SurfaceRows : OnSurface("set_variable", row, Whole(row))
set_surface_type == \E row \in SurfaceRows : OnSurface("set_surface_type", row, Whole(row))
set_surface_parameter == \E row \in SurfaceRows : OnSurface("set_surface_parameter", row, Whole(row))
\* All arguments go into the solve, and only then the solve into the cell.
set_surface_solve == \E row \in SurfaceRows : OnSurface("set_surface_solve", row, Whole(row))
\* The type, or the colour model, is set before the values are looked at.
CheckedLate(row) == Write(row, "part") \o Check \o Whole(row)
set_aspheric_surface == \E row \in SurfaceRows : OnSurface("set_aspheric_surface", row, CheckedLate(row))
\* Each item is looked at and written before the next.
ItemByItem(row) == Retype(row) \o Check \o Whole(row)
set_extra_data == \E row \in SurfaceRows : OnSurface("set_extra_data", row, ItemByItem(row))

\* Fields and wavelengths.
Kept(k) == SubSeq(p.rows, 1, Smaller(n, k)) \o News(Greater(0, k - n))
\* ItemByItem(1) to ItemByItem(k), four edits each.
Values(k) == [i \in 1..(4 * k) |-> ItemByItem((i + 3) \div 4)[((i - 1) % 4) + 1]]
ResizeTo(op, k, accepted, todo, want) ==
  Ask(op, k >= 1 /\ accepted,
      [Request(op, "size", 0, Resize(k) \o todo, want) EXCEPT !.size = k])
set_number_of_fields == doc = "Fields" /\ \E k \in 0..MaxSize :
  ResizeTo("set_number_of_fields", k, TRUE, << >>, Sized(Kept(k)))
set_fields == doc = "Fields" /\ \E k \in 0..MaxSize :
  ResizeTo("set_fields", k, TRUE, Values(k), Sized(News(k)))
set_number_of_wavelengths == doc = "Wavelengths" /\ \E k \in 0..MaxSize :
  ResizeTo("set_number_of_wavelengths", k, TRUE, << >>, Sized(Kept(k)))
\* A bug: 0 is taken for a wavelength.
FromZero(primary, size) == primary \in 0..size
\* A bug: the primary is compared with the wavelengths there are.
WithinFound(primary, size) == primary \in 1..n
PrimaryAccepted(primary, size) == primary \in 1..size
set_wavelengths == doc = "Wavelengths" /\ \E k \in 0..MaxSize, primary \in 0..(MaxSize + 1) :
  ResizeTo("set_wavelengths", k, PrimaryAccepted(primary, k), Values(k) \o Choose(primary),
           {[p EXCEPT !.rows = News(k), !.chosen = primary]})

\* The settings: which cells each operation assigns, in this order.
Given(cells, cell) == IF cell \in cells THEN Whole(cell) ELSE << >>
GivenSeveral(cells, cell) == IF cell \in cells THEN Several(cell) ELSE << >>
Assign(op, cells, todo) ==
  /\ doc = "Settings"
  /\ Ask(op, cells # {},
         [Request(op, "write", 0, todo,
                  {[p EXCEPT !.rows = [i \in DOMAIN @ |-> IF i \in cells THEN New ELSE @[i]]]})
            EXCEPT !.rows = cells])
set_afocal_mode == Assign("set_afocal_mode", {1}, Whole(1))
set_aperture == Assign("set_aperture", {2, 3}, Whole(2) \o Whole(3))
set_apodization == Assign("set_apodization", {4, 5}, Whole(4) \o Check \o Whole(5))
set_clear_semi_diameter_margin ==
  Assign("set_clear_semi_diameter_margin", {6}, Whole(6))
set_ray_aiming == Assign("set_ray_aiming", {7}, Whole(7))
set_mtf_units == Assign("set_mtf_units", {8}, Whole(8))
set_system_units == Assign("set_system_units", {9}, Whole(9))
set_title_notes == \E cells \in SUBSET {10, 11, 12} :
  Assign("set_title_notes", cells, Given(cells, 10) \o Given(cells, 11) \o Given(cells, 12))
set_polarization == \E cells \in SUBSET {13, 14} :
  Assign("set_polarization", cells,
         Given(cells, 13) \o GivenSeveral(cells, 14))

\* The non-sequential objects.
Pure == p.mode = "nonsequential"
add_object == doc = "NCE" /\ AddRow("nsc_add_object", Pure, n + 1)
insert_object == doc = "NCE" /\ \E number \in 0..(MaxRows + 2) :
  AddRow("nsc_insert_object", Pure /\ number \in 1..(n + 1), number)
remove_object == doc = "NCE" /\ \E number \in 0..(MaxRows + 1) :
  RemoveRow("nsc_remove_object", number, IF Pure THEN n ELSE 0)
ObjectNumbers == 0..(MaxRows + 1)
OnObject(op, number, todo) == doc = "NCE" /\ WriteRow(op, number, Pure, todo)
set_object == \E row \in ObjectNumbers : OnObject("nsc_set_object", row, Typed(row))
set_object_parameter == \E row \in ObjectNumbers : OnObject("nsc_set_object_parameter", row, Whole(row))
set_source_spectrum == \E row \in ObjectNumbers : OnObject("nsc_set_source_spectrum", row, CheckedLate(row))
load_detector == \E row \in ObjectNumbers : OnObject("nsc_load_detector", row, Whole(row))
save_detector == doc = "NCE" /\ Nothing("nsc_save_detector", Pure /\ n > 0)
Converted(mode, size) == {[p EXCEPT !.mode = mode, !.rows = Olds(k)] : k \in size}
convert_to_nonsequential ==
  /\ doc = "NCE"
  /\ \/ Pure /\ Nothing("nsc_convert_to_nonsequential", TRUE)
     \/ ~Pure /\ Ask("nsc_convert_to_nonsequential", TRUE,
                     Request("nsc_convert_to_nonsequential", "convert", 0,
                             Convert("nonsequential"), Converted("nonsequential", 0..MaxRows)))
\* Only all objects together, and only if there are some.
convert_to_sequential == doc = "NCE" /\ \E first, last \in 0..(MaxRows + 1) :
  Ask("nsc_convert_to_sequential", Pure /\ n > 0 /\ first = 1 /\ last = n,
      Request("nsc_convert_to_sequential", "convert", 0, Convert("sequential"),
              Converted("sequential", {0})))

Operation ==
  \/ get_merit_function \/ add_operand \/ remove_operand \/ load_merit_function_file
  \/ set_number_of_configurations \/ mce_add_config \/ set_current_configuration
  \/ get_configuration_operands \/ add_configuration_operand \/ delete_configuration_operand
  \/ set_configuration_operand_value \/ mce_add_operand
  \/ insert_surface \/ add_surface \/ remove_surface \/ get_surface \/ set_surface
  \/ set_surface_common \/ set_surface_variable \/ set_surface_type \/ set_surface_parameter
  \/ set_surface_solve \/ set_aspheric_surface \/ set_extra_data
  \/ set_number_of_fields \/ set_fields \/ set_number_of_wavelengths \/ set_wavelengths
  \/ set_afocal_mode \/ set_aperture \/ set_apodization \/ set_clear_semi_diameter_margin
  \/ set_ray_aiming \/ set_mtf_units \/ set_system_units \/ set_title_notes \/ set_polarization
  \/ add_object \/ insert_object \/ remove_object \/ set_object \/ set_object_parameter
  \/ set_source_spectrum \/ load_detector \/ save_detector
  \/ convert_to_nonsequential \/ convert_to_sequential

EditNext == Operation \/ SetFieldType \/ EditStep \/ EditMissed \/ EditRaises \/ Reply

\* RemoveField() and RemoveWavelength() are called again and again until OpticStudio
\* has removed a row; that it ever does is not assumed.
Removing == job.todo # << >> /\ Head(job.todo).act = "shrink" /\ n > Head(job.todo).at

\* The worker goes on until the operation has ended.
EditFairness == WF_editVars(SetFieldType \/ (EditStep /\ ~Removing) \/ Reply)
EditSpec == EditInit /\ [][EditNext]_editVars /\ EditFairness

-----------------------------------------------------------------------------
EditTypeOK ==
  /\ doc \in Documents
  /\ p.rows \in Seq([kind : Kinds, fill : Fills])
  /\ p.configurations \in Nat \ {0}
  /\ p.chosen \in Nat \ {0}
  /\ p.mode \in {"sequential", "nonsequential"}
  /\ job.kind \in {"none", "add", "remove", "write", "size", "read", "choose", "load", "convert"}
  /\ job.result \in {"none", "ok", "refused", "error"}
  /\ Ended => job.todo = << >>
  /\ missed \in BOOLEAN
  /\ fieldType \in {"old", "due", "new"}

\* settings_lde.py:462 and 471, real_backend.py:525: whatever is inserted and removed,
\* the first surface is the object, the last one the image, and nothing else is.
EndsStay ==
  doc = "LDE" => /\ p.rows[1].kind = "object" /\ p.rows[n].kind = "image" /\ n > 1
                 /\ \A i \in 2..(n - 1) : p.rows[i].kind = "row"

\* settings_lde.py:377, mce_mfe.py:353: the primary wavelength is one of the
\* wavelengths and the current configuration one of the configurations, also while
\* they are being added and removed.
SelectionExists ==
  p.chosen \in 1..(IF doc = "Wavelengths" THEN n ELSE p.configurations)

\* mce_mfe.py:228, settings_lde.py:326: an operation that succeeds has done what it was
\* asked, all of it and nothing else, and the row that it reports is the one that it
\* added, unless OpticStudio did nothing at a call whose answer the code drops: then it
\* succeeds all the same (mce_mfe.py:127 and 255).
SuccessIsWhole ==
  job.result = "ok" =>
    /\ (fieldType = "new") = (job.op = "set_fields")
    /\ ~missed => /\ p \in job.want
                  /\ job.kind = "add" => p.rows[job.row].fill = "new"

\* The rows are those from before, but for those the operation is about.
OnlyItsRows ==
  \/ p = before
  \/ /\ job.kind = "add" /\ job.row \in DOMAIN p.rows
     /\ p = [before EXCEPT !.rows = InsertAt(@, job.row, p.rows[job.row])]
  \/ /\ job.kind = "write" /\ n = Len(before.rows)
     /\ \A i \in (1..n) \ job.rows : p.rows[i] = before.rows[i]
  \/ /\ job.kind = "size"
     /\ \/ n \in Len(before.rows)..job.size \cup job.size..Len(before.rows)
        \/ doc = "MCE" /\ p.rows = before.rows

\* One that fails, or that OpticStudio has partly ignored, leaves at most its own rows
\* half done (an added row that has not all of its values, attributes of the row it was
\* to change, a size in between) and, if it is set_fields(), the type of all fields.
FailureIsLocal ==
  \/ job.result \in {"refused", "error"}
  \/ job.result = "ok" /\ missed
  => OnlyItsRows /\ (fieldType = "new" => job.op = "set_fields")

\* Operations that look at some of their arguments only when they have changed
\* something already.
LateChecks == {"add_operand", "add_configuration_operand", "mce_add_operand",
               "nsc_add_object", "nsc_insert_object", "nsc_set_source_spectrum",
               "set_aspheric_surface", "set_apodization", "set_extra_data", "set_fields",
               "set_wavelengths"}
\* mce_mfe.py:534, nsc.py:158, settings_lde.py:115, 334, 386, 621 and 695: no other
\* operation changes anything when it refuses an argument.
RefusedUnchanged ==
  job.result = "refused" /\ (p # before \/ fieldType = "new") => job.op \in LateChecks

\* mce_mfe.py:115: what is reported of a range are its rows, no more and no less.
RangeIsRead ==
  job.result = "ok" /\ job.kind = "read" =>
    job.rows = {i \in DOMAIN p.rows : i >= job.row /\ (job.size = 0 \/ i <= job.size)}

\* settings_lde.py:328 and 384: an operation ends, unless it was asked for more fields
\* or wavelengths than OpticStudio holds, or OpticStudio removes none when it is asked
\* to: then its loop never does.
CallsEnd == \/ job.todo # << >> /\ job.size <= Capacity ~> Idle
            \/ <>[]Removing
=============================================================================
