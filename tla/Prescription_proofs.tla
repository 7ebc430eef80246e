------------------------ MODULE Prescription_proofs ------------------------
(***************************************************************************)
(* Proofs about a system that is being edited.  First its material         *)
(* catalogs: for any catalogs and spellings, any that are available and    *)
(* any that the lens names, none is ever in use twice and no answer is     *)
(* untrue.  Then its documents: for any number of rows, any sizes and any  *)
(* capacity, what holds of them whichever edit OpticStudio refuses.        *)
(***************************************************************************)
EXTENDS Prescription, TLAPS

\* AnswerIsTrue says what became of the last call, so that it is inductive together
\* with what the catalogs in use are.
CatalogInv == inUse \subseteq Names /\ CatalogOnce /\ AnswerIsTrue

\* _catalog_name() finds another spelling of the name, never another name.
LEMMA CanonicalIsSame ==
  ASSUME inUse \subseteq Names, NEW written \in Names
  PROVE  Canonical(written) \in Names /\ Canonical(written).catalog = written.catalog
<1> DEFINE known == {other \in Available : SameName(written, other)}
           used == {other \in inUse : SameName(written, other)}
<1>1. known \subseteq Names /\ used \subseteq Names
  BY CatalogAssumption
<1>2. ASSUME NEW S, S \subseteq known \cup used, S # {}
      PROVE  (CHOOSE other \in S : TRUE) \in known \cup used
  BY <1>2
<1>3. known # {} => (CHOOSE other \in known : TRUE) \in known \cup used
  BY <1>2
<1>4. used # {} => (CHOOSE other \in used : TRUE) \in known \cup used
  BY <1>2
<1>5. \A other \in known \cup used : other \in Names /\ other.catalog = written.catalog
  BY <1>1 DEF SameName
<1>6. Canonical(written) = IF known # {} THEN CHOOSE other \in known : TRUE
                           ELSE IF used # {} THEN CHOOSE other \in used : TRUE ELSE written
  BY DEF Canonical
<1> QED BY <1>3, <1>4, <1>5, <1>6

LEMMA InitCatalogInv == CatalogInit => CatalogInv
BY CatalogAssumption
DEF CatalogInit, CatalogInv, CatalogOnce, AnswerIsTrue, NoAnswer

\* The name that is added is in use in no other spelling.
LEMMA AddKeepsInv ==
  ASSUME CatalogInv, NEW written \in Names, add_material_catalog(written)
  PROVE  CatalogInv'
<1> USE DEF CatalogInv, SameName, Uses
<1> DEFINE name == Canonical(written)
<1>1. name \in Names
  BY CanonicalIsSame
<1>2. CASE ~Uses(Available \cup inUse, name)
  <2>1. answer' = [NoAnswer EXCEPT !.result = "refused"] /\ inUse' = inUse
    BY <1>2 DEF add_material_catalog
  <2>2. answer'.result # "ok"
    BY <2>1 DEF NoAnswer
  <2> QED BY <2>1, <2>2 DEF CatalogOnce, AnswerIsTrue
<1>3. CASE Uses(Available \cup inUse, name)
  <2> HIDE DEF name
  <2>1. /\ inUse' \in IF Uses(inUse, name) THEN {inUse} ELSE {inUse, inUse \cup {name}}
        /\ Answer("add", name, ~Uses(inUse, name), Uses(inUse', name))
    BY <1>3 DEF add_material_catalog, name
  <2>2. inUse' \subseteq Names /\ CatalogOnce'
    BY <1>1, <2>1 DEF CatalogOnce
  <2>3. answer'.result = "ok" => Uses(inUse', name)
    BY <2>1 DEF Answer, Verified
  <2>4. /\ answer'.call = "add" /\ answer'.name = name /\ answer'.was = inUse
        /\ answer'.changed = ~Uses(inUse, name)
    BY <2>1 DEF Answer
  <2>5. AnswerIsTrue'
    <3> SUFFICES ASSUME answer'.result = "ok" PROVE AnswerIsTrue'
      BY DEF AnswerIsTrue
    <3> DEFINE used == {other.catalog : other \in inUse}
               uses == {other.catalog : other \in inUse'}
    <3>1. Uses(inUse, name) <=> name.catalog \in used
      BY DEF used
    <3>2. uses = used \cup {name.catalog}
      BY <2>1, <2>3
    <3> QED BY <2>4, <3>1, <3>2 DEF AnswerIsTrue
  <2> QED BY <2>2, <2>5
<1> QED BY <1>2, <1>3

LEMMA RemoveKeepsInv ==
  ASSUME CatalogInv, NEW written \in Names, remove_material_catalog(written)
  PROVE  CatalogInv'
<1> USE DEF CatalogInv, SameName, Uses
<1> DEFINE name == Canonical(written)
<1>1. name \in Names
  BY CanonicalIsSame
<1> HIDE DEF name
<1>2. /\ inUse' \in IF Uses(inUse, name) THEN {inUse, inUse \ Active(name)} ELSE {inUse}
      /\ Answer("remove", name, Uses(inUse, name), ~Uses(inUse', name))
  BY DEF remove_material_catalog, name
<1>3. inUse' \subseteq inUse
  BY <1>2
<1>4. answer'.result = "ok" => ~Uses(inUse', name)
  BY <1>2 DEF Answer, Verified
<1>5. /\ answer'.call = "remove" /\ answer'.name = name /\ answer'.was = inUse
      /\ answer'.changed = Uses(inUse, name)
  BY <1>2 DEF Answer
<1>6. AnswerIsTrue'
  <2> SUFFICES ASSUME answer'.result = "ok" PROVE AnswerIsTrue'
    BY DEF AnswerIsTrue
  <2> DEFINE used == {other.catalog : other \in inUse}
             uses == {other.catalog : other \in inUse'}
  <2>1. Uses(inUse, name) <=> name.catalog \in used
    BY DEF used
  <2>2. uses = used \ {name.catalog}
    BY <1>2, <1>4 DEF Active
  <2> QED BY <1>5, <2>1, <2>2 DEF AnswerIsTrue
<1> QED BY <1>3, <1>6 DEF CatalogOnce

LEMMA StepCatalogInv == CatalogInv /\ [Next]_vars => CatalogInv'
<1> SUFFICES ASSUME CatalogInv, [Next]_vars PROVE CatalogInv'
  OBVIOUS
<1>1. CASE UNCHANGED catalogVars
  BY <1>1 DEF catalogVars, CatalogInv, CatalogOnce, AnswerIsTrue
<1>2. CASE CatalogNext
  BY <1>2, AddKeepsInv, RemoveKeepsInv DEF CatalogNext
<1> QED BY <1>1, <1>2 DEF Next, EditorStep, CatalogStep, vars

LEMMA SpecCatalogInv == Spec => []CatalogInv
<1>1. Init => CatalogInv
  BY InitCatalogInv DEF Init
<1> QED BY <1>1, StepCatalogInv, PTL DEF Spec

\* However its name is spelt, by callers, by OpticStudio and in the lens, no material
\* catalog is in use twice (settings_lde.py:263).
THEOREM NeverTwice == Spec => []CatalogOnce
<1>1. CatalogInv => CatalogOnce
  BY DEF CatalogInv
<1> QED BY <1>1, SpecCatalogInv, PTL

\* An answer that a catalog was added or removed, or was so already, is true whatever
\* OpticStudio did with the call (settings_lde.py:271 and 299).
THEOREM AnswersAreTrue == Spec => []AnswerIsTrue
<1>1. CatalogInv => AnswerIsTrue
  BY DEF CatalogInv
<1> QED BY <1>1, SpecCatalogInv, PTL

-----------------------------------------------------------------------------
\* What the documents and the operation on them look like.
Rows == [kind : Kinds, fill : Fills]
Acts == {"insert", "write", "remove", "shrink", "grow", "choose", "configure", "load",
         "convert", "check"}
Modes == {"sequential", "nonsequential"}
Edits == [act : Acts, at : Nat, fill : Fills \cup Modes]
Lenses == [rows : Seq(Rows), configurations : Nat \ {0}, chosen : Nat \ {0}, mode : Modes]
JobKinds == {"none", "add", "remove", "write", "size", "read", "choose", "load", "convert"}
IsJob(j) == j \in [op : {j.op}, kind : JobKinds, row : Nat, rows : SUBSET Nat, size : Nat,
                   todo : Seq(Edits), want : {j.want}, final : {"ok", "refused"},
                   result : {"none", "ok", "refused", "error"}]

Formed == /\ doc \in Documents /\ p \in Lenses /\ before \in Lenses /\ IsJob(job)
          /\ Ended => job.todo = << >>

Resizable == doc \in {"Fields", "Wavelengths"}

\* The edits that an operation j may have to make, by its kind.
Allowed(j, e) ==
  \/ j.kind = "add" /\ e.act \in {"insert", "write"} /\ e.at = j.row /\ e.fill \in Fills
  \/ j.kind \in {"add", "write", "size"} /\ e.act = "check"
  \/ j.kind = "write" /\ e.act = "write" /\ e.at \in j.rows /\ e.fill \in Fills
  \/ j.kind = "remove" /\ ~Resizable /\ e.act = "remove" /\ e.at = j.row
  \/ j.kind = "size" /\ doc = "MCE" /\ e.act = "configure" /\ e.at >= 1
  \/ j.kind = "size" /\ Resizable /\ e.act \in {"shrink", "grow"} /\ e.at = j.size
  \/ j.kind = "size" /\ Resizable /\ e.act = "write" /\ e.fill \in Fills
  \/ j.kind = "size" /\ doc = "Wavelengths" /\ e.act = "choose" /\ e.at \in 1..j.size
  \/ j.kind = "choose" /\ doc = "MCE" /\ e.act = "choose" /\ e.at \in 1..p.configurations
  \/ j.kind = "load" /\ doc = "MFE" /\ e.act = "load"
  \/ j.kind = "convert" /\ doc = "NCE" /\ e.act = "convert" /\ e.fill \in Modes

\* Where an operation stands that has edits left; fresh: it has changed nothing yet.
AddPlan(j, fresh) ==
  j.kind = "add" =>
    /\ \A i \in 2..Len(j.todo) : j.todo[i].act # "insert"
    /\ j.todo # << >> =>
         IF j.todo[1].act = "insert"
         THEN /\ fresh
              /\ j.row \in 1..(n + 1)
              /\ doc = "LDE" => j.row \in 2..n
         ELSE /\ j.row \in 1..n /\ n = Len(before.rows) + 1
              /\ p = [before EXCEPT !.rows = InsertAt(@, j.row, p.rows[j.row])]
RemovePlan(j) ==
  j.kind = "remove" /\ j.todo # << >> => /\ j.row \in 1..n
                                         /\ doc = "LDE" => j.row \in 2..(n - 1)
SizePlan(j) ==
  j.kind = "size" /\ Resizable =>
    /\ j.size >= 1
    /\ \A i \in 1..Len(j.todo) : /\ j.todo[i].act = "choose" => i = Len(j.todo)
                                 /\ j.todo[i].act = "grow" => i <= 2
    /\ n >= j.size \/ j.todo = << >> \/ \E i \in 1..Len(j.todo) : j.todo[i].act = "grow"
CheckPlan(j, fresh) ==
  j.op \notin LateChecks =>
    /\ j.final = "ok"
    /\ \A i \in 2..Len(j.todo) : j.todo[i].act # "check"
    /\ j.todo # << >> /\ j.todo[1].act = "check" => fresh
Single == {"remove", "choose", "load", "convert"}
Plan(j, fresh) ==
  /\ \A i \in 1..Len(j.todo) : Allowed(j, j.todo[i])
  /\ j.kind \in Single => Len(j.todo) <= 1
  /\ j.kind \in Single => j.final = "ok"
  /\ AddPlan(j, fresh) /\ RemovePlan(j) /\ SizePlan(j) /\ CheckPlan(j, fresh)

\* FailureIsLocal is of the end of an operation; any may fail, or be ignored, at any edit.
\* Of operations with one edit it holds until they have made it.
LocalSoFar == job.result # "ok" \/ job.kind \notin Single => OnlyItsRows
RefusedRows == job.result = "refused" /\ p # before => job.op \in LateChecks

EditInv == /\ Formed /\ Plan(job, p = before) /\ LocalSoFar
           /\ RefusedRows /\ RangeIsRead /\ EndsStay /\ SelectionExists

-----------------------------------------------------------------------------
LEMMA EmptySeq == ASSUME NEW S, NEW s \in Seq(S), Len(s) = 0 PROVE s = << >>
OBVIOUS

LEMMA ConcatParts ==
  ASSUME NEW S, NEW s \in Seq(S), NEW t \in Seq(S)
  PROVE  /\ s \o t \in Seq(S) /\ Len(s \o t) = Len(s) + Len(t)
         /\ \A k \in 1..Len(s) : (s \o t)[k] = s[k]
         /\ \A k \in (Len(s) + 1)..(Len(s) + Len(t)) : (s \o t)[k] = t[k - Len(s)]
OBVIOUS

LEMMA InsertAtParts ==
  ASSUME NEW S, NEW s \in Seq(S), NEW i \in 1..(Len(s) + 1), NEW e \in S
  PROVE  /\ InsertAt(s, i, e) \in Seq(S)
         /\ Len(InsertAt(s, i, e)) = Len(s) + 1
         /\ InsertAt(s, i, e)[i] = e
         /\ \A k \in 1..(i - 1) : InsertAt(s, i, e)[k] = s[k]
         /\ \A k \in (i + 1)..(Len(s) + 1) : InsertAt(s, i, e)[k] = s[k - 1]
<1>1. /\ SubSeq(s, 1, i - 1) \in Seq(S) /\ Len(SubSeq(s, 1, i - 1)) = i - 1
      /\ \A k \in 1..(i - 1) : SubSeq(s, 1, i - 1)[k] = s[k]
  OBVIOUS
<1>2. /\ SubSeq(s, i, Len(s)) \in Seq(S) /\ Len(SubSeq(s, i, Len(s))) = Len(s) - i + 1
      /\ \A k \in 1..(Len(s) - i + 1) : SubSeq(s, i, Len(s))[k] = s[i + k - 1]
  OBVIOUS
<1> DEFINE a == SubSeq(s, 1, i - 1)
           b == SubSeq(s, i, Len(s))
<1> HIDE DEF a, b
<1>3. /\ a \o <<e>> \in Seq(S) /\ Len(a \o <<e>>) = i
      /\ \A k \in 1..(i - 1) : (a \o <<e>>)[k] = a[k]
      /\ (a \o <<e>>)[i] = e
  BY <1>1 DEF a
<1> DEFINE c == a \o <<e>>
<1> HIDE DEF c
<1>4. /\ c \o b \in Seq(S) /\ Len(c \o b) = Len(s) + 1
      /\ \A k \in 1..i : (c \o b)[k] = c[k]
      /\ \A k \in (i + 1)..(Len(s) + 1) : (c \o b)[k] = b[k - i]
  <2>1. b \in Seq(S) /\ Len(b) = Len(s) - i + 1
    BY <1>2 DEF b
  <2>2. c \in Seq(S) /\ Len(c) = i
    BY <1>3 DEF c
  <2>3. /\ c \o b \in Seq(S) /\ Len(c \o b) = Len(c) + Len(b)
        /\ \A k \in 1..Len(c) : (c \o b)[k] = c[k]
        /\ \A k \in (Len(c) + 1)..(Len(c) + Len(b)) : (c \o b)[k] = b[k - Len(c)]
    <3>1. c \in Seq(S) /\ b \in Seq(S)
      BY <2>1, <2>2
    <3> QED BY <3>1, ConcatParts, Zenon
  <2> QED BY <2>1, <2>2, <2>3
<1>5. InsertAt(s, i, e) = c \o b
  BY DEF InsertAt, a, b, c
<1>6. \A k \in (i + 1)..(Len(s) + 1) : b[k - i] = s[k - 1]
  <2> TAKE k \in (i + 1)..(Len(s) + 1)
  <2>1. k - i \in 1..(Len(s) - i + 1) /\ i + (k - i) - 1 = k - 1
    OBVIOUS
  <2> QED BY <2>1, <1>2 DEF b
<1>7. \A k \in 1..i : c[k] = IF k = i THEN e ELSE s[k]
  BY <1>1, <1>3 DEF a, c
<1> QED BY <1>4, <1>5, <1>6, <1>7

LEMMA RemoveAtParts ==
  ASSUME NEW S, NEW s \in Seq(S), NEW i \in 1..Len(s)
  PROVE  /\ RemoveAt(s, i) \in Seq(S)
         /\ Len(RemoveAt(s, i)) = Len(s) - 1
         /\ \A k \in 1..(i - 1) : RemoveAt(s, i)[k] = s[k]
         /\ \A k \in i..(Len(s) - 1) : RemoveAt(s, i)[k] = s[k + 1]
<1>1. /\ SubSeq(s, 1, i - 1) \in Seq(S) /\ Len(SubSeq(s, 1, i - 1)) = i - 1
      /\ \A k \in 1..(i - 1) : SubSeq(s, 1, i - 1)[k] = s[k]
  OBVIOUS
<1>2. /\ SubSeq(s, i + 1, Len(s)) \in Seq(S) /\ Len(SubSeq(s, i + 1, Len(s))) = Len(s) - i
      /\ \A k \in 1..(Len(s) - i) : SubSeq(s, i + 1, Len(s))[k] = s[i + k]
  OBVIOUS
<1> DEFINE a == SubSeq(s, 1, i - 1)
           b == SubSeq(s, i + 1, Len(s))
<1> HIDE DEF a, b
<1>3. /\ a \o b \in Seq(S) /\ Len(a \o b) = Len(s) - 1
      /\ \A k \in 1..(i - 1) : (a \o b)[k] = a[k]
      /\ \A k \in i..(Len(s) - 1) : (a \o b)[k] = b[k - i + 1]
  <2>1. a \in Seq(S) /\ Len(a) = i - 1 /\ b \in Seq(S) /\ Len(b) = Len(s) - i
    BY <1>1, <1>2 DEF a, b
  <2>2. \A k \in i..(Len(s) - 1) : k - Len(a) = k - i + 1
    BY <2>1
  <2>3. /\ a \o b \in Seq(S) /\ Len(a \o b) = Len(a) + Len(b)
        /\ \A k \in 1..Len(a) : (a \o b)[k] = a[k]
        /\ \A k \in (Len(a) + 1)..(Len(a) + Len(b)) : (a \o b)[k] = b[k - Len(a)]
    BY <2>1, ConcatParts
  <2> QED BY <2>1, <2>2, <2>3
<1>4. \A k \in i..(Len(s) - 1) : b[k - i + 1] = s[k + 1]
  <2> TAKE k \in i..(Len(s) - 1)
  <2>1. k - i + 1 \in 1..(Len(s) - i) /\ i + (k - i + 1) = k + 1
    OBVIOUS
  <2> QED BY <2>1, <1>2 DEF b
<1> QED BY <1>1, <1>3, <1>4 DEF RemoveAt, a, b

Filled(row, fill) == [row EXCEPT !.fill = fill]
Written(s, at, fill) == [s EXCEPT ![at].fill = fill]

LEMMA FilledRow == ASSUME NEW row \in Rows, NEW fill \in Fills
                   PROVE  Filled(row, fill) \in Rows /\ Filled(row, fill).kind = row.kind
BY DEF Filled, Rows

\* What writing a row leaves alone; a row that is not there is not written.
LEMMA WriteParts ==
  ASSUME NEW s \in Seq(Rows), NEW at \in Nat, NEW fill \in Fills
  PROVE  /\ Written(s, at, fill) \in Seq(Rows) /\ Len(Written(s, at, fill)) = Len(s)
         /\ \A k \in 1..Len(s) : Written(s, at, fill)[k].kind = s[k].kind
         /\ \A k \in (1..Len(s)) \ {at} : Written(s, at, fill)[k] = s[k]
         /\ at \in 1..Len(s) => Written(s, at, fill)[at] = Filled(s[at], fill)
<1> DEFINE t == Written(s, at, fill)
<1>1. \A k \in 1..Len(s) : s[k] \in Rows
  OBVIOUS
<1>2. t = [k \in 1..Len(s) |-> IF k = at THEN Filled(s[at], fill) ELSE s[k]]
  BY DEF Written, Filled
<1>3. at \in 1..Len(s) => Filled(s[at], fill) \in Rows /\ Filled(s[at], fill).kind = s[at].kind
  BY <1>1, FilledRow
<1> HIDE DEF t
<1>4. t \in Seq(Rows) /\ Len(t) = Len(s)
  BY <1>1, <1>2, <1>3
<1>5. /\ \A k \in 1..Len(s) : t[k].kind = s[k].kind
      /\ \A k \in (1..Len(s)) \ {at} : t[k] = s[k]
      /\ at \in 1..Len(s) => t[at] = Filled(s[at], fill)
  BY <1>2, <1>3
<1> QED BY <1>4, <1>5 DEF t

LEMMA SameSeq ==
  ASSUME NEW S, NEW s \in Seq(S), NEW t \in Seq(S), Len(s) = Len(t),
         \A k \in 1..Len(s) : s[k] = t[k]
  PROVE  s = t
OBVIOUS

LEMMA InsertThenWrite ==
  ASSUME NEW s \in Seq(Rows), NEW i \in 1..(Len(s) + 1), NEW r \in Rows, NEW fill \in Fills
  PROVE  Written(InsertAt(s, i, r), i, fill) = InsertAt(s, i, Filled(r, fill))
<1> DEFINE a == InsertAt(s, i, r)
           b == Written(a, i, fill)
           q == Filled(r, fill)
           c == InsertAt(s, i, q)
<1>1. q \in Rows
  BY FilledRow
<1>2. /\ a \in Seq(Rows) /\ Len(a) = Len(s) + 1 /\ a[i] = r
      /\ \A k \in 1..(i - 1) : a[k] = s[k]
      /\ \A k \in (i + 1)..(Len(s) + 1) : a[k] = s[k - 1]
  BY InsertAtParts
<1> HIDE DEF q
<1>3. /\ c \in Seq(Rows) /\ Len(c) = Len(s) + 1 /\ c[i] = q
      /\ \A k \in 1..(i - 1) : c[k] = s[k]
      /\ \A k \in (i + 1)..(Len(s) + 1) : c[k] = s[k - 1]
  BY <1>1, InsertAtParts
<1> HIDE DEF a, c
<1>4. /\ b \in Seq(Rows) /\ Len(b) = Len(a) /\ \A k \in (1..Len(a)) \ {i} : b[k] = a[k]
      /\ b[i] = Filled(a[i], fill)
  <2>1. i \in Nat /\ i \in 1..Len(a)
    BY <1>2
  <2> QED BY <1>2, <2>1, WriteParts
<1> HIDE DEF b
<1>5. \A k \in 1..Len(b) : b[k] = c[k]
  <2> TAKE k \in 1..Len(b)
  <2>1. k = i \/ k \in 1..(i - 1) \/ k \in (i + 1)..(Len(s) + 1)
    BY <1>2, <1>4
  <2> QED BY <2>1, <1>2, <1>3, <1>4 DEF q
<1>6. b = c
  BY <1>2, <1>3, <1>4, <1>5, SameSeq
<1> QED BY <1>6 DEF a, b, c, q

-----------------------------------------------------------------------------
\* What one edit does to the document, act by act.
LEMMA InsertOutcome ==
  ASSUME NEW e, e.act = "insert", NEW q \in Outcomes(e)
  PROVE  q = [p EXCEPT !.rows = InsertAt(@, e.at, Row("row", e.fill))]
BY DEF Outcomes
LEMMA WriteOutcome ==
  ASSUME NEW e, e.act = "write", NEW q \in Outcomes(e)
  PROVE  q = [p EXCEPT !.rows[e.at].fill = Held(e.fill)]
BY DEF Outcomes
LEMMA DropOutcome ==
  ASSUME NEW e, e.act = "remove", NEW q \in Outcomes(e)
  PROVE  q = [p EXCEPT !.rows = RemoveAt(@, e.at)]
BY DEF Outcomes
LEMMA ShrinkOutcome ==
  ASSUME NEW e, e.act = "shrink", NEW q \in Outcomes(e)
  PROVE  q \in Sized(SubSeq(p.rows, 1, n - 1))
BY DEF Outcomes
LEMMA GrowOutcome ==
  ASSUME NEW e, e.act = "grow", NEW q \in Outcomes(e)
  PROVE  q = IF n < Capacity THEN [p EXCEPT !.rows = Append(@, New)] ELSE p
BY DEF Outcomes
LEMMA ChooseOutcome ==
  ASSUME NEW e, e.act = "choose", NEW q \in Outcomes(e)
  PROVE  q = [p EXCEPT !.chosen = e.at]
BY DEF Outcomes
LEMMA ConfigureOutcome ==
  ASSUME NEW e, e.act = "configure", NEW q \in Outcomes(e)
  PROVE  \E c \in IF p.chosen <= e.at THEN {p.chosen} ELSE 1..Reached(e.at) :
           q = [p EXCEPT !.configurations = Reached(e.at), !.chosen = c]
BY DEF Outcomes
\* Without a call that was missed.
ConfiguredTo(k, q) ==
  \E c \in Selected(p.chosen, k) : q = [p EXCEPT !.configurations = k, !.chosen = c]
LEMMA ExactOutcome ==
  ASSUME ~missed, NEW e, NEW q \in Outcomes(e)
  PROVE  /\ e.act = "write" => q = [p EXCEPT !.rows[e.at].fill = e.fill]
         /\ e.act = "configure" => ConfiguredTo(e.at, q)
<1>1. Held(e.fill) = e.fill /\ Reached(e.at) = e.at
  BY DEF Held, Reached
<1>2. e.act = "write" => q = [p EXCEPT !.rows[e.at].fill = e.fill]
  BY <1>1, WriteOutcome
<1>3. ASSUME e.act = "configure"
      PROVE  ConfiguredTo(e.at, q)
  <2>1. PICK c \in IF p.chosen <= e.at THEN {p.chosen} ELSE 1..Reached(e.at) :
           q = [p EXCEPT !.configurations = Reached(e.at), !.chosen = c]
    BY <1>3, ConfigureOutcome
  <2>2. c \in Selected(p.chosen, e.at)
    BY <1>1, <2>1 DEF Selected
  <2> QED BY <1>1, <2>1, <2>2 DEF ConfiguredTo
<1> QED BY <1>2, <1>3
LEMMA LoadOutcome ==
  ASSUME NEW e, e.act = "load", NEW q \in Outcomes(e)
  PROVE  q = [p EXCEPT !.rows = Olds(e.at)]
BY DEF Outcomes
LEMMA ConvertOutcome ==
  ASSUME NEW e, e.act = "convert", NEW q \in Outcomes(e)
  PROVE  \E k \in IF e.fill = "sequential" THEN {0} ELSE 0..MaxRows :
           q = [p EXCEPT !.mode = e.fill, !.rows = Olds(k)]
BY DEF Outcomes
LEMMA CheckOutcome ==
  ASSUME NEW e, e.act = "check", NEW q \in Outcomes(e)
  PROVE  q = p
BY DEF Outcomes

\* The operation has made its first edit.
Moves == LET e == Head(job.todo)
         IN  /\ job' = [job EXCEPT !.todo = Tail(@),
                          !.result = IF Len(job.todo) = 1 THEN job.final ELSE @]
             /\ doc' = doc /\ before' = before

\* An operation with edits left is of a kind that has edits, and has no result yet.
LEMMA FirstEdit ==
  ASSUME EditInv, job.todo # << >>
  PROVE  /\ Head(job.todo) = job.todo[1] /\ Head(job.todo) \in Edits
         /\ Len(job.todo) \in Nat \ {0} /\ Allowed(job, Head(job.todo))
         /\ job.result = "none" /\ job.kind \notin {"none", "read"} /\ OnlyItsRows
<1>1. job.todo \in Seq(Edits)
  BY DEF EditInv, Formed, IsJob
<1>2. /\ Head(job.todo) = job.todo[1] /\ Head(job.todo) \in Edits
      /\ Len(job.todo) \in Nat \ {0}
  BY <1>1
<1>3. Allowed(job, Head(job.todo))
  BY <1>2 DEF EditInv, Plan
<1>4. job.result = "none"
  BY DEF EditInv, Formed, Ended
<1>5. OnlyItsRows
  BY <1>4 DEF EditInv, LocalSoFar
<1> QED BY <1>2, <1>3, <1>4, <1>5 DEF Allowed

LEMMA NextEdit ==
  ASSUME EditInv, job.todo # << >>, Moves
  PROVE  /\ IsJob(job)' /\ (Ended => job.todo = << >>)'
         /\ job'.op = job.op /\ job'.kind = job.kind /\ job'.row = job.row /\ job'.rows = job.rows
         /\ job'.size = job.size /\ job'.final = job.final
         /\ job'.todo \in Seq(Edits) /\ Len(job'.todo) = Len(job.todo) - 1
         /\ \A i \in 1..Len(job'.todo) : job'.todo[i] = job.todo[i + 1]
         /\ job'.result = IF Len(job.todo) = 1 THEN job.final ELSE "none"
<1> DEFINE result == IF Len(job.todo) = 1 THEN job.final ELSE "none"
<1>1. job.todo \in Seq(Edits) /\ IsJob(job) /\ job.result = "none" /\ Len(job.todo) \in Nat \ {0}
  BY FirstEdit DEF EditInv, Formed, IsJob
<1>2. /\ Tail(job.todo) \in Seq(Edits) /\ Len(Tail(job.todo)) = Len(job.todo) - 1
      /\ \A i \in 1..(Len(job.todo) - 1) : Tail(job.todo)[i] = job.todo[i + 1]
  BY <1>1
<1>3. result \in {"ok", "refused", "none"}
  BY <1>1 DEF IsJob
<1>4. job' = [job EXCEPT !.todo = Tail(job.todo), !.result = result]
  BY <1>1 DEF Moves
<1> HIDE DEF result
<1>5. /\ job'.op = job.op /\ job'.kind = job.kind /\ job'.row = job.row /\ job'.rows = job.rows
      /\ job'.size = job.size /\ job'.final = job.final /\ job'.todo = Tail(job.todo)
      /\ job'.result = result /\ job'.want = job.want
  BY <1>1, <1>4 DEF IsJob
<1>6. IsJob(job)'
  <2>1. /\ job.kind \in JobKinds /\ job.row \in Nat /\ job.rows \in SUBSET Nat
        /\ job.size \in Nat /\ job.final \in {"ok", "refused"}
    BY <1>1 DEF IsJob
  <2>2. job' = [op |-> job.op, kind |-> job.kind, row |-> job.row, rows |-> job.rows,
                size |-> job.size, todo |-> Tail(job.todo), want |-> job.want,
                final |-> job.final, result |-> result]
    BY <1>1, <1>4 DEF IsJob
  <2>3. job' \in [op : {job.op}, kind : JobKinds, row : Nat, rows : SUBSET Nat, size : Nat,
                   todo : Seq(Edits), want : {job.want}, final : {"ok", "refused"},
                   result : {"none", "ok", "refused", "error"}]
    BY <1>2, <1>3, <2>1, <2>2
  <2> QED BY <2>3, <1>5 DEF IsJob
<1>7. Len(job.todo) # 1 => result = "none"
  BY DEF result
<1>8. Len(job.todo) = 1 => Tail(job.todo) = << >>
  <2> DEFINE rest == Tail(job.todo)
  <2>1. rest \in Seq(Edits) /\ Len(rest) = Len(job.todo) - 1
    BY <1>2
  <2> HIDE DEF rest
  <2>2. Len(job.todo) = 1 => rest = << >>
    BY <2>1, EmptySeq
  <2> QED BY <2>2 DEF rest
<1> QED BY <1>2, <1>5, <1>6, <1>7, <1>8 DEF result, Ended

\* What the next edit has to find is what this one leaves behind, where the kind of the
\* operation depends on it.
LEMMA MovedOn ==
  ASSUME EditInv, job.todo # << >>, Moves,
         p' \in Lenses, AddPlan(job, p = before)', SizePlan(job)',
         job'.result # "ok" \/ job.kind \notin Single => OnlyItsRows',
         EndsStay', SelectionExists'
  PROVE  EditInv'
<1>1. /\ Formed /\ Plan(job, p = before)
  BY DEF EditInv
<1>2. /\ Len(job.todo) \in Nat \ {0} /\ job.kind \notin {"none", "read"} /\ job.todo \in Seq(Edits)
  BY FirstEdit DEF EditInv, Formed, IsJob
<1>3. Formed'
  BY <1>1, NextEdit DEF Formed, Moves
<1>4. job.kind \in Single => job'.todo = << >>
  <2>1. job.kind \in Single => Len(job'.todo) = 0
    BY <1>1, <1>2, NextEdit DEF Plan
  <2> QED BY <2>1, NextEdit
<1>5. (\A i \in 1..Len(job.todo) : Allowed(job, job.todo[i]))'
  <2> SUFFICES ASSUME NEW i \in 1..Len(job'.todo) PROVE Allowed(job, job.todo[i])'
    OBVIOUS
  <2>1. job'.todo[i] = job.todo[i + 1] /\ i + 1 \in 1..Len(job.todo)
    BY <1>2, NextEdit
  <2>2. Allowed(job, job'.todo[i])
    BY <1>1, <2>1 DEF Plan
  <2>3. job.kind \notin Single
    BY <1>4
  <2>4. doc' = doc /\ job'.kind = job.kind /\ job'.row = job.row /\ job'.rows = job.rows /\ job'.size = job.size
    BY NextEdit DEF Moves
  <2> QED BY <2>2, <2>3, <2>4 DEF Allowed, Single, Resizable
<1>6. CheckPlan(job, p = before)'
  <2> SUFFICES ASSUME job.op \notin LateChecks PROVE CheckPlan(job, p = before)'
    BY NextEdit DEF CheckPlan
  <2>1. job.final = "ok" /\ \A i \in 2..Len(job.todo) : job.todo[i].act # "check"
    BY <1>1 DEF Plan, CheckPlan
  <2>2. \A i \in 1..Len(job'.todo) : job'.todo[i].act # "check"
    <3> TAKE i \in 1..Len(job'.todo)
    <3>1. i + 1 \in 2..Len(job.todo)
      BY <1>2, NextEdit
    <3> QED BY <2>1, <3>1, NextEdit
  <2>3. job'.todo # << >> => 1 \in 1..Len(job'.todo)
    BY NextEdit
  <2>4. \A i \in 2..Len(job'.todo) : i \in 1..Len(job'.todo)
    BY NextEdit
  <2> QED BY <2>1, <2>2, <2>3, <2>4, NextEdit DEF CheckPlan
<1>7. RemovePlan(job)'
  BY <1>4, NextEdit DEF RemovePlan, Single
<1>8. Plan(job, p = before)'
  <2>1. (job.kind \in Single => Len(job.todo) <= 1)' /\ (job.kind \in Single => job.final = "ok")'
    BY <1>1, <1>4, NextEdit DEF Plan
  <2> QED BY <1>5, <1>6, <1>7, <2>1 DEF Plan
<1>9. RefusedRows'
  BY <1>1, NextEdit DEF Plan, CheckPlan, RefusedRows
<1>10. RangeIsRead'
  BY <1>2, NextEdit DEF RangeIsRead
<1> QED BY <1>3, <1>8, <1>9, <1>10, NextEdit DEF EditInv, LocalSoFar

-----------------------------------------------------------------------------
LEMMA AddGoesOn ==
  ASSUME EditInv, job.todo # << >>, Moves,
         job.kind = "add" =>
           /\ job.row \in 1..Len(p'.rows) /\ Len(p'.rows) = Len(before.rows) + 1
           /\ p' = [before EXCEPT !.rows = InsertAt(@, job.row, p'.rows[job.row])]
  PROVE  AddPlan(job, p = before)'
<1>1. job.kind = "add" => \A i \in 2..Len(job.todo) : job.todo[i].act # "insert"
  BY DEF EditInv, Plan, AddPlan
<1>2. \A i \in 1..Len(job'.todo) : i + 1 \in 2..Len(job.todo)
  BY FirstEdit, NextEdit
<1>3. job.kind = "add" => \A i \in 1..Len(job'.todo) : job'.todo[i].act # "insert"
  BY <1>1, <1>2, NextEdit
<1>4. job'.todo # << >> => 1 \in 1..Len(job'.todo)
  BY NextEdit
<1>5. \A i \in 2..Len(job'.todo) : i \in 1..Len(job'.todo)
  BY NextEdit
<1> QED BY <1>3, <1>4, <1>5, NextEdit DEF AddPlan, n, Moves

LEMMA SizeGoesOn ==
  ASSUME EditInv, job.todo # << >>, Moves,
         job.kind = "size" /\ Resizable =>
           Len(p'.rows) >= job.size \/ \E i \in 2..Len(job.todo) : job.todo[i].act = "grow"
  PROVE  SizePlan(job)'
<1> SUFFICES ASSUME job.kind = "size", Resizable PROVE SizePlan(job)'
  BY NextEdit DEF SizePlan, Resizable, Moves
<1>1. /\ job.size >= 1
      /\ \A i \in 1..Len(job.todo) : /\ job.todo[i].act = "choose" => i = Len(job.todo)
                                     /\ job.todo[i].act = "grow" => i <= 2
  BY DEF EditInv, Plan, SizePlan
<1>2. Len(job.todo) \in Nat \ {0} /\ Len(job'.todo) = Len(job.todo) - 1
  BY FirstEdit, NextEdit
<1>3. \A i \in 1..Len(job'.todo) : i + 1 \in 1..Len(job.todo) /\ job'.todo[i] = job.todo[i + 1]
  BY <1>2, NextEdit
<1>4. \A i \in 1..Len(job'.todo) : /\ job'.todo[i].act = "choose" => i = Len(job'.todo)
                                   /\ job'.todo[i].act = "grow" => i <= 2
  <2> TAKE i \in 1..Len(job'.todo)
  <2>1. /\ job'.todo[i].act = "choose" => i + 1 = Len(job.todo)
        /\ job'.todo[i].act = "grow" => i + 1 <= 2
    BY <1>1, <1>3
  <2> QED BY <1>2, <2>1
<1>5. Len(p'.rows) >= job.size \/ \E i \in 1..Len(job'.todo) : job'.todo[i].act = "grow"
  <2>1. ASSUME NEW i \in 2..Len(job.todo), job.todo[i].act = "grow"
        PROVE  \E k \in 1..Len(job'.todo) : job'.todo[k].act = "grow"
    <3>1. i - 1 \in 1..Len(job'.todo) /\ (i - 1) + 1 = i
      BY <1>2
    <3>2. job'.todo[i - 1] = job.todo[i]
      BY <1>3, <3>1
    <3> QED BY <2>1, <3>1, <3>2
  <2> QED BY <2>1
<1> QED BY <1>1, <1>4, <1>5, NextEdit DEF SizePlan, n

\* Nothing but a growing resize shortens what is left of it.
LEMMA SizeSoFar ==
  ASSUME EditInv, job.todo # << >>, job.kind = "size", Resizable, Head(job.todo).act # "grow"
  PROVE  n >= job.size \/ \E i \in 2..Len(job.todo) : job.todo[i].act = "grow"
<1>1. n >= job.size \/ \E i \in 1..Len(job.todo) : job.todo[i].act = "grow"
  BY DEF EditInv, Plan, SizePlan
<1>2. \A i \in 1..Len(job.todo) : i = 1 \/ i \in 2..Len(job.todo)
  BY FirstEdit
<1> QED BY <1>1, <1>2, FirstEdit

LEMMA AddSoFar ==
  ASSUME EditInv, job.todo # << >>, job.kind = "add", Head(job.todo).act # "insert"
  PROVE  /\ job.row \in 1..n /\ n = Len(before.rows) + 1
         /\ p = [before EXCEPT !.rows = InsertAt(@, job.row, p.rows[job.row])]
BY FirstEdit DEF EditInv, Plan, AddPlan

\* An argument is looked at, or OpticStudio has missed an edit.
LEMMA SkipKeepsInv ==
  ASSUME EditInv, job.todo # << >>, Moves, Head(job.todo).act \notin {"insert", "grow"}, p' = p
  PROVE  EditInv'
<1>1. AddPlan(job, p = before)'
  BY AddSoFar, AddGoesOn DEF n
<1>2. SizePlan(job)'
  BY SizeSoFar, SizeGoesOn DEF n
<1>3. OnlyItsRows'
  BY FirstEdit, NextEdit DEF OnlyItsRows, Moves, n
<1>4. EndsStay' /\ SelectionExists' /\ p' \in Lenses
  BY DEF EditInv, Formed, EndsStay, SelectionExists, Moves, n
<1> QED BY <1>1, <1>2, <1>3, <1>4, MovedOn

\* The object and the image surface, as a property of any rows.
Ends(s) == /\ Len(s) > 1 /\ s[1].kind = "object" /\ s[Len(s)].kind = "image"
           /\ \A i \in 2..(Len(s) - 1) : s[i].kind = "row"
LEMMA EndsOfRows == /\ EndsStay <=> (doc = "LDE" => Ends(p.rows))
                    /\ EndsStay' <=> (doc' = "LDE" => Ends(p'.rows))
BY DEF EndsStay, Ends, n

\* A row is written.
LEMMA WriteKeepsInv ==
  ASSUME EditInv, job.todo # << >>, Moves, Head(job.todo).act = "write",
         NEW fill \in Fills, p' = [p EXCEPT !.rows[Head(job.todo).at].fill = fill]
  PROVE  EditInv'
<1> DEFINE e == Head(job.todo)
           s == p.rows
           t == p'.rows
<1>1. /\ e \in Edits /\ Allowed(job, e) /\ OnlyItsRows /\ p \in Lenses /\ before \in Lenses
  BY FirstEdit DEF EditInv, Formed
<1>2. e.at \in Nat /\ s \in Seq(Rows)
  BY <1>1 DEF Edits, Lenses
<1>3. t = Written(s, e.at, fill) /\ p' = [p EXCEPT !.rows = t]
  BY <1>1 DEF Lenses, Written
<1> HIDE DEF e, s, t
<1>4. /\ t \in Seq(Rows) /\ Len(t) = Len(s)
      /\ \A k \in 1..Len(s) : t[k].kind = s[k].kind
      /\ \A k \in (1..Len(s)) \ {e.at} : t[k] = s[k]
      /\ e.at \in 1..Len(s) => t[e.at] = Filled(s[e.at], fill)
  BY <1>2, <1>3, WriteParts
<1>5. p' \in Lenses
  BY <1>1, <1>3, <1>4 DEF Lenses
<1>6. p'.rows = t /\ p.rows = s /\ p'.configurations = p.configurations /\ p'.chosen = p.chosen
  BY <1>1, <1>3 DEF Lenses, s, t
<1>7. ASSUME job.kind = "add"
      PROVE  /\ job.row \in 1..Len(t) /\ Len(t) = Len(before.rows) + 1
             /\ p' = [before EXCEPT !.rows = InsertAt(@, job.row, t[job.row])]
  <2>1. /\ job.row \in 1..Len(s) /\ Len(s) = Len(before.rows) + 1
        /\ p = [before EXCEPT !.rows = InsertAt(@, job.row, s[job.row])]
    BY <1>7, AddSoFar DEF n, e, s
  <2>2. e.at = job.row
    BY <1>1, <1>7 DEF Allowed, e
  <2>3. before.rows \in Seq(Rows) /\ job.row \in 1..(Len(before.rows) + 1) /\ s[job.row] \in Rows
    BY <1>1, <1>2, <2>1 DEF Lenses
  <2>4. s = InsertAt(before.rows, job.row, s[job.row])
    BY <1>1, <2>1, <1>6 DEF Lenses
  <2>5. t = InsertAt(before.rows, job.row, t[job.row])
    <3> DEFINE r == s[job.row]
    <3>1. Written(InsertAt(before.rows, job.row, r), job.row, fill)
            = InsertAt(before.rows, job.row, Filled(r, fill))
      BY <1>2, <2>3, InsertThenWrite
    <3>2. t = Written(InsertAt(before.rows, job.row, r), job.row, fill)
      BY <1>3, <2>2, <2>4
    <3>3. t[job.row] = Filled(r, fill)
      BY <1>4, <2>1, <2>2
    <3> QED BY <3>1, <3>2, <3>3
  <2>6. p' = [before EXCEPT !.rows = InsertAt(@, job.row, t[job.row])]
    BY <1>1, <1>3, <2>1, <2>5 DEF Lenses
  <2> QED BY <2>1, <2>6, <1>4, <1>6
<1>8. AddPlan(job, p = before)'
  BY <1>6, <1>7, AddGoesOn
<1>9. SizePlan(job)'
  BY <1>4, <1>6, SizeSoFar, SizeGoesOn DEF n
<1>10. OnlyItsRows'
  <2>1. job.kind \in {"add", "write", "size"}
    BY <1>1 DEF Allowed, e
  <2>2. CASE job.kind = "add"
    <3>1. DOMAIN t = 1..Len(t)
      BY <1>4
    <3> QED BY <1>6, <1>7, <2>2, <3>1, NextEdit DEF OnlyItsRows, Moves
  <2>3. CASE job.kind = "write"
    <3>1. /\ e.at \in job.rows
      BY <1>1, <2>3 DEF Allowed, e
    <3>2. \/ p = before
          \/ Len(s) = Len(before.rows) /\ \A i \in (1..Len(s)) \ job.rows : s[i] = before.rows[i]
      BY <1>1, <1>6, <2>3 DEF OnlyItsRows, n
    <3>3. Len(t) = Len(before.rows) /\ \A i \in (1..Len(t)) \ job.rows : t[i] = before.rows[i]
      BY <1>4, <1>6, <3>1, <3>2
    <3> QED BY <1>6, <2>3, <3>3, NextEdit DEF OnlyItsRows, n, Moves
  <2>4. CASE job.kind = "size"
    <3>1. doc \in {"Fields", "Wavelengths"}
      BY <1>1, <2>4 DEF Allowed, e, Resizable
    <3>2. Len(s) \in Len(before.rows)..job.size \cup job.size..Len(before.rows)
      <4>1. IsJob(job) /\ before.rows \in Seq(Rows)
        BY <1>1 DEF EditInv, Formed, Lenses
      <4>2. job.size \in Nat /\ Len(before.rows) \in Nat
        BY <4>1 DEF IsJob
      <4> QED BY <1>1, <1>6, <2>4, <3>1, <4>2 DEF OnlyItsRows, n
    <3> QED BY <1>4, <1>6, <2>4, <3>2, NextEdit DEF OnlyItsRows, n, Moves
  <2> QED BY <2>1, <2>2, <2>3, <2>4
<1>11. EndsStay' /\ SelectionExists'
  <2>1. EndsStay /\ SelectionExists /\ doc' = doc
    BY DEF EditInv, Moves
  <2>2. Ends(s) => Ends(t)
    <3>1. Len(s) \in Nat
      BY <1>2
    <3>2. Ends(s) => 1 \in 1..Len(s) /\ Len(s) \in 1..Len(s) /\ 2..(Len(s) - 1) \subseteq 1..Len(s)
      BY <3>1 DEF Ends
    <3> QED BY <1>4, <3>2 DEF Ends
  <2> QED BY <2>1, <2>2, <1>4, <1>6, EndsOfRows DEF SelectionExists, n
<1> QED BY <1>5, <1>8, <1>9, <1>10, <1>11, MovedOn

\* A row is inserted: the first edit of an operation that adds one.
LEMMA InsertKeepsInv ==
  ASSUME EditInv, job.todo # << >>, Moves, Head(job.todo).act = "insert",
         p' = [p EXCEPT !.rows = InsertAt(@, Head(job.todo).at,
                                          Row("row", Head(job.todo).fill))]
  PROVE  EditInv'
<1> DEFINE e == Head(job.todo)
           r == Row("row", e.fill)
           s == p.rows
           t == InsertAt(s, job.row, r)
<1>1. /\ e \in Edits /\ Allowed(job, e) /\ p \in Lenses /\ before \in Lenses
  BY FirstEdit DEF EditInv, Formed
<1>2. job.kind = "add" /\ e.at = job.row /\ e.fill \in Fills
  BY <1>1 DEF Allowed
<1>3. p = before /\ job.row \in 1..(n + 1) /\ (doc = "LDE" => job.row \in 2..n)
  BY <1>2, FirstEdit DEF EditInv, Plan, AddPlan
<1>4. r \in Rows /\ r.kind = "row"
  BY <1>2 DEF Row, Rows, Kinds
<1>5. s \in Seq(Rows) /\ Len(s) = n /\ n \in Nat
  BY <1>1 DEF Lenses, n
<1>6. p' = [p EXCEPT !.rows = t]
  BY <1>1, <1>2 DEF Lenses
<1> HIDE DEF e, r, s
<1>7. /\ t \in Seq(Rows) /\ Len(t) = Len(s) + 1 /\ t[job.row] = r
      /\ \A k \in 1..(job.row - 1) : t[k] = s[k]
      /\ \A k \in (job.row + 1)..(Len(s) + 1) : t[k] = s[k - 1]
  <2>1. job.row \in 1..(Len(s) + 1)
    BY <1>3, <1>5
  <2> QED BY <1>4, <1>5, <2>1, InsertAtParts
<1>8. p' \in Lenses /\ p'.rows = t /\ p'.configurations = p.configurations /\ p'.chosen = p.chosen
  BY <1>1, <1>6, <1>7 DEF Lenses
<1>9. /\ job.row \in 1..Len(t) /\ Len(t) = Len(before.rows) + 1
      /\ p' = [before EXCEPT !.rows = InsertAt(@, job.row, t[job.row])]
  BY <1>1, <1>3, <1>5, <1>6, <1>7 DEF Lenses, s
<1> HIDE DEF t
<1>10. AddPlan(job, p = before)'
  BY <1>8, <1>9, AddGoesOn
<1>11. SizePlan(job)'
  BY <1>2, SizeGoesOn
<1>12. OnlyItsRows'
  <2>1. DOMAIN t = 1..Len(t)
    BY <1>7
  <2> QED BY <1>2, <1>8, <1>9, <2>1, NextEdit DEF OnlyItsRows, Moves
<1>13. ASSUME doc = "LDE", Ends(s) PROVE Ends(t)
  <2>1. job.row \in 2..n
    BY <1>3, <1>13
  <2>2. Len(t) > 1 /\ t[1] = s[1] /\ t[Len(t)] = s[Len(s)]
    BY <1>5, <1>7, <2>1
  <2>3. ASSUME NEW k \in 2..(Len(t) - 1) PROVE t[k].kind = "row"
    <3>1. k = job.row \/ k \in 1..(job.row - 1) \/ k \in (job.row + 1)..(Len(s) + 1)
      BY <1>5, <1>7, <2>1
    <3>2. k \in 1..(job.row - 1) => k \in 2..(Len(s) - 1) /\ t[k] = s[k]
      BY <1>5, <1>7, <2>1
    <3>3. k \in (job.row + 1)..(Len(s) + 1) => k - 1 \in 2..(Len(s) - 1) /\ t[k] = s[k - 1]
      BY <1>5, <1>7, <2>1
    <3> QED BY <1>4, <1>7, <1>13, <3>1, <3>2, <3>3 DEF Ends
  <2> QED BY <1>13, <2>2, <2>3 DEF Ends
<1>14. EndsStay'
  BY <1>8, <1>13, EndsOfRows DEF EditInv, Moves, s
<1>15. SelectionExists'
  <2>1. SelectionExists /\ doc' = doc
    BY DEF EditInv, Moves
  <2> QED BY <2>1, <1>5, <1>7, <1>8 DEF SelectionExists, n
<1> QED BY <1>8, <1>10, <1>11, <1>12, <1>14, <1>15, MovedOn

\* The only edit of its operation succeeds.
LEMMA OnlyEdit ==
  ASSUME EditInv, job.todo # << >>, Moves, job.kind \in Single
  PROVE  job'.result = "ok"
<1> DEFINE left == Len(job.todo)
<1>1. left <= 1 /\ left \in Nat \ {0} /\ job.final = "ok"
  BY FirstEdit DEF EditInv, Plan
<1> HIDE DEF left
<1>2. left = 1
  BY <1>1
<1> QED BY <1>1, <1>2, NextEdit DEF left

\* A row is removed.
LEMMA DropKeepsInv ==
  ASSUME EditInv, job.todo # << >>, Moves, Head(job.todo).act = "remove",
         p' = [p EXCEPT !.rows = RemoveAt(@, Head(job.todo).at)]
  PROVE  EditInv'
<1> DEFINE e == Head(job.todo)
           s == p.rows
           t == RemoveAt(s, job.row)
<1>1. /\ e \in Edits /\ Allowed(job, e) /\ p \in Lenses
  BY FirstEdit DEF EditInv, Formed
<1>2. job.kind = "remove" /\ e.at = job.row
  BY <1>1 DEF Allowed
<1>3. job.row \in 1..n /\ (doc = "LDE" => job.row \in 2..(n - 1))
  BY <1>2 DEF EditInv, Plan, RemovePlan
<1>4. s \in Seq(Rows) /\ Len(s) = n /\ n \in Nat
  BY <1>1 DEF Lenses, n
<1>5. p' = [p EXCEPT !.rows = t]
  BY <1>1, <1>2 DEF Lenses
<1> HIDE DEF e, s
<1>6. /\ t \in Seq(Rows) /\ Len(t) = Len(s) - 1
      /\ \A k \in 1..(job.row - 1) : t[k] = s[k]
      /\ \A k \in job.row..(Len(s) - 1) : t[k] = s[k + 1]
  BY <1>3, <1>4, RemoveAtParts
<1>7. p' \in Lenses /\ p'.rows = t /\ p'.configurations = p.configurations /\ p'.chosen = p.chosen
  BY <1>1, <1>5, <1>6 DEF Lenses
<1> HIDE DEF t
<1>8. AddPlan(job, p = before)' /\ SizePlan(job)' /\ job'.result = "ok"
  BY <1>2, AddGoesOn, SizeGoesOn, OnlyEdit DEF Single
<1>9. ASSUME doc = "LDE", Ends(s) PROVE Ends(t)
  <2>1. job.row \in 2..(n - 1)
    BY <1>3, <1>9
  <2>2. Len(t) > 1 /\ t[1] = s[1] /\ t[Len(t)] = s[Len(s)]
    BY <1>4, <1>6, <2>1
  <2>3. ASSUME NEW k \in 2..(Len(t) - 1) PROVE t[k].kind = "row"
    <3>1. \/ k \in 2..(Len(s) - 1) /\ t[k] = s[k]
          \/ k + 1 \in 2..(Len(s) - 1) /\ t[k] = s[k + 1]
      BY <1>4, <1>6, <2>1
    <3> QED BY <1>9, <3>1 DEF Ends
  <2> QED BY <1>9, <2>2, <2>3 DEF Ends
<1>10. EndsStay'
  BY <1>7, <1>9, EndsOfRows DEF EditInv, Moves, s
<1>11. SelectionExists'
  <2>1. SelectionExists /\ doc' = doc /\ doc # "Wavelengths"
    BY <1>1, <1>2 DEF EditInv, Moves, Allowed, Resizable
  <2> QED BY <2>1, <1>7 DEF SelectionExists
<1> QED BY <1>2, <1>7, <1>8, <1>10, <1>11, MovedOn DEF Single

\* What is selected when the number of configurations, or of wavelengths, changes.
LEMMA SelectedExists ==
  ASSUME NEW chosen \in Nat \ {0}, NEW number \in Nat \ {0}, NEW c \in Selected(chosen, number)
  PROVE  c \in 1..number
BY DEF Selected

\* One of the configurations is added or deleted.
LEMMA ConfigureKeepsInv ==
  ASSUME EditInv, job.todo # << >>, Moves, Head(job.todo).act = "configure",
         NEW k \in Nat \ {0}, NEW c \in 1..k,
         p' = [p EXCEPT !.configurations = k, !.chosen = c]
  PROVE  EditInv'
<1> DEFINE e == Head(job.todo)
<1>1. /\ e \in Edits /\ Allowed(job, e) /\ p \in Lenses /\ before \in Lenses
      /\ OnlyItsRows
  BY FirstEdit DEF EditInv, Formed
<1>2. job.kind = "size" /\ doc = "MCE"
  BY <1>1 DEF Allowed
<1>3. c \in Nat \ {0}
  OBVIOUS
<1> HIDE DEF e
<1>4. /\ p' \in Lenses /\ p'.rows = p.rows /\ p'.configurations = k /\ p'.chosen = c
  BY <1>1, <1>3 DEF Lenses
<1>5. AddPlan(job, p = before)' /\ SizePlan(job)'
  BY <1>2, AddGoesOn, SizeGoesOn DEF Resizable
<1>6. OnlyItsRows'
  <2>1. IsJob(job) /\ before.rows \in Seq(Rows)
    BY <1>1 DEF EditInv, Formed, Lenses
  <2>2. job.size \in Nat /\ Len(before.rows) \in Nat
    BY <2>1 DEF IsJob
  <2>3. \/ p.rows = before.rows
        \/ n \in Len(before.rows)..job.size \cup job.size..Len(before.rows)
    BY <1>1, <1>2 DEF OnlyItsRows
  <2> QED BY <1>2, <1>4, <2>3, NextEdit DEF OnlyItsRows, n, Moves
<1>7. EndsStay' /\ SelectionExists'
  BY <1>2, <1>4 DEF EndsStay, SelectionExists, Moves
<1> QED BY <1>4, <1>5, <1>6, <1>7, MovedOn

\* Another configuration is made the current one, or another wavelength the primary.
LEMMA ChooseKeepsInv ==
  ASSUME EditInv, job.todo # << >>, Moves, Head(job.todo).act = "choose",
         p' = [p EXCEPT !.chosen = Head(job.todo).at]
  PROVE  EditInv'
<1> DEFINE e == Head(job.todo)
<1>1. e \in Edits /\ Allowed(job, e) /\ p \in Lenses /\ before \in Lenses /\ OnlyItsRows
  BY FirstEdit DEF EditInv, Formed
<1>2. \/ job.kind = "choose" /\ doc = "MCE" /\ e.at \in 1..p.configurations
      \/ job.kind = "size" /\ doc = "Wavelengths" /\ e.at \in 1..job.size
  BY <1>1 DEF Allowed
<1>3. IsJob(job) /\ job.size \in Nat /\ p.configurations \in Nat /\ n \in Nat /\ e.at \in Nat \ {0}
  BY <1>1, <1>2 DEF EditInv, Formed, IsJob, Lenses, n
<1>4. job.kind = "size" => n >= job.size
  <2> SUFFICES ASSUME job.kind = "size" PROVE n >= job.size
    OBVIOUS
  <2>1. doc = "Wavelengths" /\ Resizable
    BY <1>2 DEF Resizable
  <2>2. \A i \in 1..Len(job.todo) : job.todo[i].act = "choose" => i = Len(job.todo)
    BY <2>1 DEF EditInv, Plan, SizePlan
  <2>3. Len(job.todo) = 1
    <3>1. 1 \in 1..Len(job.todo) /\ job.todo[1].act = "choose"
      BY FirstEdit
    <3> QED BY <2>2, <3>1
  <2> QED BY <2>1, <2>3, SizeSoFar, FirstEdit
<1> HIDE DEF e
<1>5. /\ p' \in Lenses /\ p'.rows = p.rows /\ p'.configurations = p.configurations
      /\ p'.chosen = e.at
  BY <1>1, <1>3 DEF Lenses, e
<1>6. AddPlan(job, p = before)' /\ SizePlan(job)'
  BY <1>2, <1>4, <1>5, AddGoesOn, SizeGoesOn DEF n
<1>7. job'.result # "ok" \/ job.kind \notin Single => OnlyItsRows'
  <2>1. CASE job.kind = "choose"
    BY <2>1, OnlyEdit DEF Single
  <2>2. CASE job.kind = "size"
    <3>1. before.rows \in Seq(Rows) /\ Len(before.rows) \in Nat
      BY <1>1 DEF Lenses
    <3>2. n \in Len(before.rows)..job.size \cup job.size..Len(before.rows)
      BY <1>1, <1>2, <1>3, <2>2, <3>1 DEF OnlyItsRows, n
    <3> QED BY <1>5, <2>2, <3>2, NextEdit DEF OnlyItsRows, n, Moves
  <2> QED BY <1>2, <2>1, <2>2
<1>8. EndsStay' /\ SelectionExists'
  BY <1>2, <1>3, <1>4, <1>5 DEF EndsStay, SelectionExists, Moves, n
<1> QED BY <1>5, <1>6, <1>7, <1>8, MovedOn

LEMMA OldRows == ASSUME NEW k \in Nat PROVE Olds(k) \in Seq(Rows) /\ Len(Olds(k)) = k
BY DEF Olds, Old, Row, Rows, Kinds, Fills

\* A merit function is loaded, or a system converted: all rows are others.
LEMMA ReplaceKeepsInv ==
  ASSUME EditInv, job.todo # << >>, Moves, Head(job.todo).act \in {"load", "convert"},
         NEW k \in Nat, NEW mode \in Modes,
         p' = [p EXCEPT !.mode = mode, !.rows = Olds(k)]
  PROVE  EditInv'
<1>1. Allowed(job, Head(job.todo)) /\ p \in Lenses
  BY FirstEdit DEF EditInv, Formed
<1>2. job.kind \in Single /\ job.kind \in {"load", "convert"} /\ doc \in {"MFE", "NCE"}
  BY <1>1 DEF Allowed, Single
<1>3. /\ p' \in Lenses /\ p'.configurations = p.configurations /\ p'.chosen = p.chosen
  BY <1>1, OldRows DEF Lenses
<1>4. AddPlan(job, p = before)' /\ SizePlan(job)' /\ job'.result = "ok"
  BY <1>2, AddGoesOn, SizeGoesOn, OnlyEdit
<1>5. EndsStay' /\ SelectionExists'
  BY <1>2, <1>3 DEF EditInv, EndsStay, SelectionExists, Moves
<1>6. job.kind \in Single /\ p' \in Lenses
  BY <1>2, <1>3
<1> QED BY <1>4, <1>5, <1>6, MovedOn DEF Single

\* One round of a loop that resizes: the operation stays where it is.
LEMMA Resized ==
  ASSUME EditInv, job.todo # << >>, UNCHANGED <<doc, job, before>>, Resizable,
         job.kind = "size", Head(job.todo).act \in {"shrink", "grow"},
         p' \in Lenses, p'.configurations = p.configurations,
         Head(job.todo).act = "shrink" => n > job.size /\ Len(p'.rows) \in job.size..n,
         Head(job.todo).act = "grow" => n < job.size /\ Len(p'.rows) \in n..job.size,
         SelectionExists'
  PROVE  EditInv'
<1>1. /\ Formed /\ Plan(job, p = before) /\ LocalSoFar /\ job.result = "none" /\ OnlyItsRows
      /\ before \in Lenses /\ job.size \in Nat /\ n \in Nat /\ Len(before.rows) \in Nat
  BY FirstEdit DEF EditInv, Formed, IsJob, Lenses, n
<1>2. Formed'
  BY <1>1 DEF Formed, Ended
<1>3. (\A i \in 1..Len(job.todo) : Allowed(job, job.todo[i]))'
  BY <1>1 DEF Plan, Allowed, Resizable
<1>4. AddPlan(job, p = before)' /\ RemovePlan(job)'
  BY DEF AddPlan, RemovePlan
<1>5. SizePlan(job)'
  <2>1. Len(p'.rows) >= job.size \/ \E i \in 1..Len(job.todo) : job.todo[i].act = "grow"
    <3>1. Head(job.todo) = job.todo[1] /\ 1 \in 1..Len(job.todo)
      BY FirstEdit
    <3> QED BY <1>1, <3>1
  <2> QED BY <1>1, <2>1 DEF Plan, SizePlan, Resizable, n
<1>6. CheckPlan(job, p = before)'
  BY <1>1, FirstEdit DEF Plan, CheckPlan
<1>7. Plan(job, p = before)'
  BY <1>1, <1>3, <1>4, <1>5, <1>6 DEF Plan
<1>8. OnlyItsRows'
  <2>1. n \in Len(before.rows)..job.size \cup job.size..Len(before.rows)
    BY <1>1 DEF OnlyItsRows, n, Resizable
  <2>2. Len(p'.rows) \in Len(before.rows)..job.size \cup job.size..Len(before.rows)
    BY <1>1, <2>1
  <2> QED BY <2>2 DEF OnlyItsRows, n
<1>9. RefusedRows' /\ RangeIsRead' /\ EndsStay'
  BY <1>1 DEF RefusedRows, RangeIsRead, EndsStay, Resizable
<1> QED BY <1>2, <1>7, <1>8, <1>9 DEF EditInv, LocalSoFar

LEMMA ShrinkOrGrow ==
  ASSUME EditInv, job.todo # << >>, UNCHANGED <<doc, job, before>>,
         Looping(Head(job.todo)), p' \in Outcomes(Head(job.todo))
  PROVE  EditInv'
<1> DEFINE e == Head(job.todo)
           s == p.rows
<1>1. e.act \in {"shrink", "grow"} /\ Allowed(job, e) /\ p \in Lenses
  BY FirstEdit DEF Looping, EditInv, Formed
<1>2. job.kind = "size" /\ Resizable /\ e.at = job.size
  BY <1>1 DEF Allowed
<1>3. job.size \in Nat \ {0} /\ s \in Seq(Rows) /\ Len(s) = n /\ n \in Nat
  BY <1>1, <1>2 DEF EditInv, Formed, IsJob, Plan, SizePlan, Lenses, n
<1>4. CASE e.act = "shrink"
  <2> DEFINE t == SubSeq(s, 1, n - 1)
  <2>1. n > job.size
    BY <1>2, <1>4 DEF Looping
  <2>2. t \in Seq(Rows) /\ Len(t) = n - 1
    BY <1>3, <2>1
  <2>3. p' \in Sized(t)
    BY <1>4, ShrinkOutcome
  <2> HIDE DEF t
  <2>4. PICK c \in IF doc = "Wavelengths" THEN Selected(p.chosen, Len(t)) ELSE {p.chosen} :
             p' = [p EXCEPT !.rows = t, !.chosen = c]
    BY <2>3 DEF Sized
  <2>5. Len(t) \in Nat \ {0} /\ p.chosen \in Nat \ {0}
    BY <1>1, <1>3, <2>1, <2>2 DEF Lenses
  <2>6. c \in Nat \ {0} /\ IF doc = "Wavelengths" THEN c \in 1..Len(t) ELSE c = p.chosen
    <3>1. CASE doc = "Wavelengths"
      <4>1. c \in 1..Len(t)
        BY <2>4, <2>5, <3>1, SelectedExists
      <4> QED BY <3>1, <4>1, <2>5
    <3>2. CASE doc # "Wavelengths"
      BY <2>4, <2>5, <3>2
    <3> QED BY <3>1, <3>2
  <2>7. p' \in Lenses /\ p'.rows = t /\ p'.chosen = c /\ p'.configurations = p.configurations
    BY <1>1, <2>2, <2>4, <2>6 DEF Lenses
  <2>8. SelectionExists'
    BY <2>6, <2>7 DEF EditInv, SelectionExists, n
  <2>9. Len(p'.rows) \in job.size..n
    BY <1>3, <2>1, <2>2, <2>7
  <2> QED BY <1>2, <1>4, <2>1, <2>7, <2>8, <2>9, Resized
<1>5. CASE e.act = "grow"
  <2> DEFINE t == p'.rows
  <2>1. n < job.size
    BY <1>2, <1>5 DEF Looping, Fewer
  <2>2. p' = IF n < Capacity THEN [p EXCEPT !.rows = Append(@, New)] ELSE p
    BY <1>5, GrowOutcome
  <2>3. /\ Append(s, New) \in Seq(Rows) /\ Len(Append(s, New)) = n + 1
    BY <1>3 DEF New, Row, Rows, Kinds, Fills
  <2>4. /\ p' \in Lenses /\ Len(t) \in {n, n + 1} /\ p'.chosen = p.chosen
        /\ p'.configurations = p.configurations
    BY <1>1, <1>3, <2>2, <2>3 DEF Lenses
  <2> HIDE DEF t
  <2>5. SelectionExists'
    BY <1>3, <2>4 DEF EditInv, SelectionExists, n, t
  <2>6. Len(t) \in n..job.size
    BY <1>3, <2>1, <2>4
  <2> QED BY <1>2, <1>5, <2>1, <2>4, <2>5, <2>6, Resized DEF t
<1> QED BY <1>1, <1>4, <1>5

\* A loop that resizes is over.
LEMMA LoopEnds ==
  ASSUME EditInv, job.todo # << >>, Moves, Head(job.todo).act \in {"shrink", "grow"},
         ~Looping(Head(job.todo)), p' = p
  PROVE  EditInv'
<1> DEFINE e == Head(job.todo)
<1>1. Allowed(job, e) /\ p \in Lenses /\ OnlyItsRows
  BY FirstEdit DEF EditInv, Formed
<1>2. job.kind = "size" /\ Resizable /\ e.at = job.size /\ job.size \in Nat /\ n \in Nat
  BY <1>1 DEF Allowed, EditInv, Formed, IsJob, Lenses, n
<1>3. AddPlan(job, p = before)'
  BY <1>2, AddGoesOn
<1>4. e.act = "grow" => n >= job.size
  BY <1>2 DEF Looping, Fewer
<1>5. SizePlan(job)'
  BY <1>4, SizeSoFar, SizeGoesOn DEF n
<1>6. OnlyItsRows'
  BY <1>1, NextEdit DEF OnlyItsRows, Moves, n
<1>7. EndsStay' /\ SelectionExists' /\ p' \in Lenses
  BY <1>1 DEF EditInv, EndsStay, SelectionExists, Moves, n
<1> QED BY <1>3, <1>5, <1>6, <1>7, MovedOn

LEMMA EditStepKeepsInv == ASSUME EditInv, EditStep PROVE EditInv'
<1> DEFINE e == Head(job.todo)
<1>1. job.todo # << >> /\ e \in Edits /\ Allowed(job, e) /\ doc' = doc /\ before' = before
  BY FirstEdit DEF EditStep
<1>2. CASE Looping(e)
  BY <1>1, <1>2, ShrinkOrGrow DEF EditStep
<1>3. CASE ~Looping(e)
  <2>1. /\ Moves
        /\ IF e.act \in {"shrink", "grow"} THEN p' = p ELSE p' \in Outcomes(e)
    BY <1>1, <1>3 DEF EditStep, GoesOn, Moves
  <2>2. CASE e.act \in {"shrink", "grow"}
    BY <1>1, <1>3, <2>1, <2>2, LoopEnds
  <2> SUFFICES ASSUME e.act \notin {"shrink", "grow"} PROVE EditInv'
    BY <2>2
  <2>3. p' \in Outcomes(e)
    BY <2>1
  <2>4. CASE e.act = "insert"
    <3>1. p' = [p EXCEPT !.rows = InsertAt(@, e.at, Row("row", e.fill))]
      BY <2>3, <2>4, InsertOutcome
    <3> QED BY <1>1, <2>1, <2>4, <3>1, InsertKeepsInv
  <2>5. CASE e.act = "write"
    <3>1. p' = [p EXCEPT !.rows[e.at].fill = Held(e.fill)]
      BY <2>3, <2>5, WriteOutcome
    <3>2. Held(e.fill) \in Fills
      BY <1>1, <2>5 DEF Allowed, Held, Fills
    <3> QED BY <1>1, <2>1, <2>5, <3>1, <3>2, WriteKeepsInv
  <2>6. CASE e.act = "remove"
    <3>1. p' = [p EXCEPT !.rows = RemoveAt(@, e.at)]
      BY <2>3, <2>6, DropOutcome
    <3> QED BY <1>1, <2>1, <2>6, <3>1, DropKeepsInv
  <2>7. CASE e.act = "choose"
    <3>1. p' = [p EXCEPT !.chosen = e.at]
      BY <2>3, <2>7, ChooseOutcome
    <3> QED BY <1>1, <2>1, <2>7, <3>1, ChooseKeepsInv
  <2>8. CASE e.act = "configure"
    <3>1. PICK c \in IF p.chosen <= e.at THEN {p.chosen} ELSE 1..Reached(e.at) :
               p' = [p EXCEPT !.configurations = Reached(e.at), !.chosen = c]
      BY <2>3, <2>8, ConfigureOutcome
    <3>2. /\ doc = "MCE" /\ e.at \in Nat \ {0} /\ p.chosen \in 1..p.configurations
          /\ p.configurations \in Nat \ {0}
      BY <1>1, <2>8 DEF Allowed, Edits, EditInv, Formed, Lenses, SelectionExists
    <3>3. Reached(e.at) \in Nat \ {0} /\ c \in 1..Reached(e.at)
      BY <3>1, <3>2 DEF Reached
    <3> QED BY <1>1, <2>1, <2>8, <3>1, <3>3, ConfigureKeepsInv
  <2>9. CASE e.act = "load"
    <3>1. p' = [p EXCEPT !.rows = Olds(e.at)]
      BY <2>3, <2>9, LoadOutcome
    <3>2. p \in Lenses /\ e.at \in Nat
      BY <1>1 DEF EditInv, Formed, Edits
    <3>3. p' = [p EXCEPT !.mode = p.mode, !.rows = Olds(e.at)] /\ p.mode \in Modes
      BY <3>1, <3>2 DEF Lenses
    <3> QED BY <1>1, <2>1, <2>9, <3>2, <3>3, ReplaceKeepsInv
  <2>10. CASE e.act = "convert"
    <3>1. PICK k \in IF e.fill = "sequential" THEN {0} ELSE 0..MaxRows :
               p' = [p EXCEPT !.mode = e.fill, !.rows = Olds(k)]
      BY <2>3, <2>10, ConvertOutcome
    <3>2. k \in Nat /\ e.fill \in Modes
      BY <1>1, <2>10, <3>1, EditorAssumption DEF Allowed
    <3> QED BY <1>1, <2>1, <2>10, <3>1, <3>2, ReplaceKeepsInv
  <2>11. CASE e.act = "check"
    <3>1. p' = p
      BY <2>3, <2>11, CheckOutcome
    <3> QED BY <1>1, <2>1, <2>11, <3>1, SkipKeepsInv
  <2>12. e.act \in Acts
    BY <1>1 DEF Edits
  <2> QED BY <2>4, <2>5, <2>6, <2>7, <2>8, <2>9, <2>10, <2>11, <2>12 DEF Acts
<1> QED BY <1>2, <1>3

\* OpticStudio has done nothing and the operation goes on.
LEMMA EditMissedKeepsInv == ASSUME EditInv, EditMissed PROVE EditInv'
<1> DEFINE e == Head(job.todo)
<1>1. Moves /\ job.todo # << >> /\ p' = p /\ AnswerDropped(e)
  BY DEF EditMissed, GoesOn, Moves
<1>2. /\ Allowed(job, e) /\ p \in Lenses /\ OnlyItsRows /\ doc' = doc /\ before' = before
      /\ Len(job.todo) \in Nat \ {0}
  BY <1>1, FirstEdit DEF EditInv, Formed, Moves
<1>3. CASE e.act = "insert"
  <2>1. job'.todo = << >>
    BY <1>1, <1>2, <1>3, NextEdit, EmptySeq DEF AnswerDropped
  <2>2. job.kind = "add"
    BY <1>2, <1>3 DEF Allowed
  <2>3. AddPlan(job, p = before)' /\ SizePlan(job)'
    BY <1>1, <2>1, <2>2, NextEdit DEF AddPlan, SizePlan
  <2>4. OnlyItsRows'
    BY <1>1, <1>2, NextEdit DEF OnlyItsRows, n
  <2>5. EndsStay' /\ SelectionExists' /\ p' \in Lenses
    BY <1>1, <1>2 DEF EditInv, EndsStay, SelectionExists, n
  <2> QED BY <1>1, <2>3, <2>4, <2>5, MovedOn
<1>4. CASE e.act # "insert"
  <2>1. e.act # "grow"
    BY <1>1, <1>4 DEF AnswerDropped
  <2> QED BY <1>1, <1>4, <2>1, SkipKeepsInv
<1> QED BY <1>3, <1>4

-----------------------------------------------------------------------------
LEMMA JobForm ==
  ASSUME NEW op, NEW kind \in JobKinds, NEW row \in Nat, NEW rows \in SUBSET Nat,
         NEW size \in Nat, NEW todo \in Seq(Edits), NEW want,
         NEW final \in {"ok", "refused"}, NEW result \in {"none", "ok", "refused", "error"}
  PROVE  IsJob([op |-> op, kind |-> kind, row |-> row, rows |-> rows, size |-> size,
                todo |-> todo, want |-> want, final |-> final, result |-> result])
<1> DEFINE j == [op |-> op, kind |-> kind, row |-> row, rows |-> rows, size |-> size,
                 todo |-> todo, want |-> want, final |-> final, result |-> result]
<1>1. j.want = want /\ j.op = op
  OBVIOUS
<1>2. j \in [op : {op}, kind : JobKinds, row : Nat, rows : SUBSET Nat, size : Nat,
             todo : Seq(Edits), want : {want}, final : {"ok", "refused"},
             result : {"none", "ok", "refused", "error"}]
  OBVIOUS
<1> QED BY <1>1, <1>2 DEF IsJob

LEMMA NoJobParts ==
  /\ IsJob(NoJob) /\ NoJob.todo = << >> /\ NoJob.kind = "none" /\ NoJob.op = "none"
  /\ NoJob.final = "ok" /\ NoJob.result = "none"
<1>1. << >> \in Seq(Edits) /\ "none" \in JobKinds /\ {} \in SUBSET Nat
  BY DEF JobKinds
<1>2. "ok" \in {"ok", "refused"} /\ "none" \in {"none", "ok", "refused", "error"}
  OBVIOUS
<1>3. IsJob(NoJob)
  BY <1>1, <1>2, JobForm DEF NoJob
<1> QED BY <1>3 DEF NoJob

LEMMA InitEditInv == EditInit => EditInv
<1> SUFFICES ASSUME EditInit PROVE EditInv
  OBVIOUS
<1>1. /\ doc \in Documents /\ before = p /\ job = NoJob
      /\ p = [rows |-> InitialRows(doc), configurations |-> 1, chosen |-> 1,
              mode |-> "nonsequential"]
  BY DEF EditInit
<1>2. /\ p.rows = InitialRows(doc) /\ p.configurations = 1 /\ p.chosen = 1
  BY <1>1
<1>3. /\ p.rows \in Seq(Rows) /\ Len(p.rows) >= 1 /\ (doc = "LDE" => Ends(p.rows))
  <2>1. CASE doc = "LDE"
    <3> DEFINE s == <<Row("object", "old"), Old, Row("image", "old")>>
    <3>1. p.rows = s
      BY <1>2, <2>1 DEF InitialRows
    <3>2. /\ Row("object", "old") \in Rows /\ Old \in Rows /\ Row("image", "old") \in Rows
          /\ Row("object", "old").kind = "object" /\ Old.kind = "row" /\ Row("image", "old").kind = "image"
      BY DEF Row, Old, Rows, Kinds, Fills
    <3>3. /\ s \in Seq(Rows) /\ Len(s) = 3
          /\ s[1].kind = "object" /\ s[2].kind = "row" /\ s[3].kind = "image"
      BY <3>2
    <3> QED BY <3>1, <3>3 DEF Ends
  <2>2. CASE doc = "Settings"
    <3>1. Len(Cells) = 14
      BY DEF Cells
    <3>2. p.rows = Olds(14)
      BY <1>2, <2>2, <3>1 DEF InitialRows
    <3> QED BY <2>2, <3>2, OldRows
  <2>3. CASE doc \notin {"LDE", "Settings"}
    <3>1. p.rows = Olds(1)
      BY <1>2, <2>3 DEF InitialRows
    <3> QED BY <2>3, <3>1, OldRows
  <2> QED BY <2>1, <2>2, <2>3
<1>4. p \in Lenses
  BY <1>1, <1>2, <1>3 DEF Lenses, Modes
<1>5. IsJob(job) /\ job.todo = << >> /\ job.kind = "none" /\ job.op = "none" /\ job.final = "ok"
      /\ job.result = "none"
  BY <1>1, NoJobParts
<1>6. Formed
  BY <1>1, <1>4, <1>5 DEF Formed
<1>7. Plan(job, p = before)
  <2>1. Len(job.todo) = 0 /\ 1..Len(job.todo) = {} /\ 2..Len(job.todo) = {}
    BY <1>5
  <2> QED BY <1>5, <2>1 DEF Plan, AddPlan, RemovePlan, SizePlan, CheckPlan, Single
<1>8. LocalSoFar /\ RefusedRows /\ RangeIsRead
  BY <1>1, <1>5 DEF LocalSoFar, OnlyItsRows, RefusedRows, RangeIsRead
<1>9. EndsStay /\ SelectionExists
  BY <1>2, <1>3, EndsOfRows DEF SelectionExists, n
<1> QED BY <1>6, <1>7, <1>8, <1>9 DEF EditInv

LEMMA EditRaisesKeepsInv == ASSUME EditInv, EditRaises PROVE EditInv'
<1> DEFINE result == IF Head(job.todo).act = "check" THEN "refused" ELSE "error"
<1>1. /\ job.todo # << >> /\ doc' = doc /\ p' = p /\ before' = before
      /\ job' = [job EXCEPT !.todo = << >>, !.result = result]
  BY DEF EditRaises
<1>2. /\ Formed /\ Plan(job, p = before) /\ IsJob(job) /\ OnlyItsRows /\ job.kind # "read"
      /\ Head(job.todo) = job.todo[1]
  BY <1>1, FirstEdit DEF EditInv, Formed
<1>3. result \in {"refused", "error"}
  OBVIOUS
<1> HIDE DEF result
<1>4. /\ job' = [op |-> job.op, kind |-> job.kind, row |-> job.row, rows |-> job.rows,
                 size |-> job.size, todo |-> << >>, want |-> job.want,
                 final |-> job.final, result |-> result]
      /\ job.kind \in JobKinds /\ job.row \in Nat
      /\ job.rows \in SUBSET Nat /\ job.size \in Nat /\ job.final \in {"ok", "refused"}
  BY <1>1, <1>2 DEF IsJob
<1>5. /\ job'.op = job.op /\ job'.kind = job.kind /\ job'.row = job.row /\ job'.rows = job.rows
      /\ job'.size = job.size /\ job'.todo = << >> /\ job'.final = job.final
      /\ job'.result = result
  BY <1>4
<1>6. IsJob(job)'
  <2>1. << >> \in Seq(Edits) /\ result \in {"none", "ok", "refused", "error"}
    BY <1>3
  <2> QED BY <2>1, <1>4, JobForm
<1>7. Formed'
  BY <1>1, <1>2, <1>5, <1>6 DEF Formed, IsJob
<1>8. Plan(job, p = before)'
  <2>1. /\ job'.kind \in Single => job'.final = "ok"
        /\ job'.kind = "size" /\ Resizable' => job'.size >= 1
        /\ job'.op \notin LateChecks => job'.final = "ok"
    BY <1>1, <1>2, <1>5 DEF Plan, SizePlan, CheckPlan, Resizable
  <2> QED BY <1>5, <2>1 DEF Plan, AddPlan, RemovePlan, SizePlan, CheckPlan
<1>9. OnlyItsRows'
  BY <1>1, <1>2, <1>5 DEF OnlyItsRows, n
<1>10. RefusedRows'
  <2> SUFFICES ASSUME job.op \notin LateChecks, result = "refused" PROVE p = before
    BY <1>1, <1>5 DEF RefusedRows
  <2>1. job.todo[1].act = "check"
    BY <1>2 DEF result
  <2> QED BY <1>1, <1>2, <2>1 DEF Plan, CheckPlan
<1>11. RangeIsRead'
  BY <1>2, <1>5 DEF RangeIsRead
<1>12. EndsStay' /\ SelectionExists'
  BY <1>1 DEF EditInv, EndsStay, SelectionExists, n
<1> QED BY <1>7, <1>8, <1>9, <1>10, <1>11, <1>12 DEF EditInv, LocalSoFar

\* The rows keep their kinds when they are no longer new.
LEMMA ReplyKeepsInv == ASSUME EditInv, Reply PROVE EditInv'
<1> DEFINE s == p.rows
           t == [i \in DOMAIN s |-> Settle(s[i])]
<1>1. p \in Lenses /\ doc \in Documents /\ s \in Seq(Rows)
  BY DEF EditInv, Formed, Lenses
<1>2. /\ job' = NoJob /\ doc' = doc /\ before' = p'
      /\ p' = [p EXCEPT !.rows = t]
  BY <1>1 DEF Reply, Lenses
<1>3. \A i \in 1..Len(s) : s[i] \in Rows
  BY <1>1
<1>4. \A row \in Rows : Settle(row) \in Rows /\ Settle(row).kind = row.kind
  BY DEF Settle, Rows, Fills
<1>5. DOMAIN s = 1..Len(s) /\ Len(s) \in Nat
  BY <1>1
<1> HIDE DEF s
<1>6. /\ t \in Seq(Rows) /\ Len(t) = Len(s)
      /\ \A k \in 1..Len(s) : t[k].kind = s[k].kind
  BY <1>3, <1>4, <1>5
<1> HIDE DEF t
<1>7. p' \in Lenses /\ p'.rows = t /\ p'.configurations = p.configurations /\ p'.chosen = p.chosen
  BY <1>1, <1>2, <1>6 DEF Lenses
<1>8. Formed'
  BY <1>1, <1>2, <1>7, NoJobParts DEF Formed
<1>9. Plan(job, p = before)'
  <2>1. /\ job'.todo = << >> /\ job'.kind = "none" /\ job'.final = "ok"
    BY <1>2, NoJobParts
  <2> QED BY <2>1 DEF Plan, AddPlan, RemovePlan, SizePlan, CheckPlan, Single
<1>10. (LocalSoFar /\ RefusedRows /\ RangeIsRead)'
  BY <1>2, NoJobParts DEF LocalSoFar, OnlyItsRows, RefusedRows, RangeIsRead
<1>11. EndsStay'
  <2>1. Ends(s) => Ends(t)
    <3>1. Ends(s) => 1 \in 1..Len(s) /\ Len(s) \in 1..Len(s) /\ 2..(Len(s) - 1) \subseteq 1..Len(s)
      BY <1>5 DEF Ends
    <3> QED BY <1>6, <3>1 DEF Ends
  <2> QED BY <2>1, <1>2, <1>7, EndsOfRows DEF EditInv, s
<1>12. SelectionExists'
  BY <1>2, <1>6, <1>7 DEF EditInv, SelectionExists, n, s
<1> QED BY <1>8, <1>9, <1>10, <1>11, <1>12 DEF EditInv

-----------------------------------------------------------------------------
\* What a caller may ask for: the plan is kept when the operation begins.
AddStart(j) ==
  j.kind = "add" =>
    /\ j.todo # << >> /\ j.todo[1].act = "insert"
    /\ \A i \in 2..Len(j.todo) : j.todo[i].act # "insert"
    /\ j.row \in 1..(n + 1)
    /\ doc = "LDE" => j.row \in 2..n
Start(j) ==
  /\ IsJob(j) /\ j.result = IF j.todo = << >> THEN "ok" ELSE "none"
  /\ \A i \in 1..Len(j.todo) : Allowed(j, j.todo[i])
  /\ j.kind \in Single => Len(j.todo) <= 1 /\ j.final = "ok"
  /\ AddStart(j) /\ RemovePlan(j) /\ SizePlan(j) /\ CheckPlan(j, TRUE)
  /\ j.kind = "read" =>
       j.rows = {i \in DOMAIN p.rows : i >= j.row /\ (j.size = 0 \/ i <= j.size)}

LEMMA AskedKeepsInv ==
  ASSUME EditInv, NEW j, Start(j), job' = j, before' = p, UNCHANGED <<doc, p>>
  PROVE  EditInv'
<1>1. p \in Lenses /\ doc \in Documents
  BY DEF EditInv, Formed
<1>2. Formed'
  BY <1>1 DEF Formed, Start, IsJob, Ended
<1>3. (\A i \in 1..Len(job.todo) : Allowed(job, job.todo[i]))'
  BY DEF Start, Allowed, Resizable
<1>4. AddPlan(job, p = before)' /\ RemovePlan(job)' /\ SizePlan(job)' /\ CheckPlan(job, p = before)'
  BY DEF Start, AddStart, AddPlan, RemovePlan, SizePlan, CheckPlan, Resizable, n
<1>5. Plan(job, p = before)'
  BY <1>3, <1>4 DEF Start, Plan
<1>6. LocalSoFar' /\ RefusedRows'
  BY DEF LocalSoFar, OnlyItsRows, RefusedRows
<1>7. RangeIsRead'
  BY DEF Start, RangeIsRead
<1>8. EndsStay' /\ SelectionExists'
  BY DEF EditInv, EndsStay, SelectionExists, n
<1> QED BY <1>2, <1>5, <1>6, <1>7, <1>8 DEF EditInv

Refusal(op) == [NoJob EXCEPT !.op = op, !.result = "refused"]
LEMMA RefusedKeepsInv ==
  ASSUME EditInv, NEW op, job' = Refusal(op), before' = p,
         UNCHANGED <<doc, p>>
  PROVE  EditInv'
<1> DEFINE result == "refused"
<1>1. p \in Lenses /\ doc \in Documents
  BY DEF EditInv, Formed
<1>2. /\ job' = [op |-> op, kind |-> NoJob.kind, row |-> NoJob.row, rows |-> NoJob.rows,
                 size |-> NoJob.size, todo |-> NoJob.todo, want |-> NoJob.want,
                 final |-> NoJob.final, result |-> result]
      /\ NoJob.kind \in JobKinds /\ NoJob.row \in Nat /\ NoJob.rows \in SUBSET Nat
      /\ NoJob.size \in Nat /\ NoJob.todo \in Seq(Edits) /\ NoJob.final \in {"ok", "refused"}
  BY NoJobParts DEF IsJob, Refusal
<1>3. /\ job'.kind = "none" /\ job'.todo = << >> /\ job'.final = "ok" /\ job'.result = "refused"
  BY <1>2, NoJobParts
<1>4. IsJob(job)'
  <2>1. result \in {"none", "ok", "refused", "error"}
    OBVIOUS
  <2> HIDE DEF result
  <2>2. IsJob([op |-> op, kind |-> NoJob.kind, row |-> NoJob.row, rows |-> NoJob.rows,
               size |-> NoJob.size, todo |-> NoJob.todo, want |-> NoJob.want,
               final |-> NoJob.final, result |-> result])
    BY <1>2, <2>1, JobForm
  <2>3. IsJob(job')
    BY <1>2, <2>2
  <2> QED BY <2>3 DEF IsJob
<1>5. Formed'
  BY <1>1, <1>3, <1>4 DEF Formed
<1>6. Plan(job, p = before)'
  BY <1>3 DEF Plan, AddPlan, RemovePlan, SizePlan, CheckPlan, Single
<1>7. (LocalSoFar /\ RefusedRows /\ RangeIsRead)'
  BY <1>3 DEF LocalSoFar, OnlyItsRows, RefusedRows, RangeIsRead
<1>8. EndsStay' /\ SelectionExists'
  BY DEF EditInv, EndsStay, SelectionExists, n
<1> QED BY <1>5, <1>6, <1>7, <1>8 DEF EditInv

LEMMA AskKeepsInv ==
  ASSUME EditInv, NEW op, NEW accepted, NEW j, Ask(op, accepted, j), accepted => Start(j)
  PROVE  EditInv'
<1>1. CASE accepted /\ job' = j
  BY <1>1, AskedKeepsInv DEF Ask
<1>2. CASE job' = Refusal(op)
  BY <1>2, RefusedKeepsInv DEF Ask
<1> QED BY <1>1, <1>2 DEF Ask, Refusal

LEMMA RequestIsJob ==
  ASSUME NEW op, NEW kind \in JobKinds, NEW row \in Nat, NEW todo \in Seq(Edits), NEW want
  PROVE  IsJob(Request(op, kind, row, todo, want))
<1> DEFINE result == IF todo = << >> THEN "ok" ELSE "none"
           rows == {row}
           size == 1
           final == "ok"
<1>1. /\ rows \in SUBSET Nat /\ size \in Nat /\ final \in {"ok", "refused"}
      /\ result \in {"none", "ok", "refused", "error"}
  OBVIOUS
<1>2. Request(op, kind, row, todo, want)
        = [op |-> op, kind |-> kind, row |-> row, rows |-> rows, size |-> size, todo |-> todo,
           want |-> want, final |-> final, result |-> result]
  BY DEF Request
<1> HIDE DEF result, rows, size, final
<1>3. IsJob([op |-> op, kind |-> kind, row |-> row, rows |-> rows, size |-> size,
             todo |-> todo, want |-> want, final |-> final, result |-> result])
  BY <1>1, JobForm
<1> QED BY <1>2, <1>3

\* A request with some of its fields changed.
WithSize(r, size) == [r EXCEPT !.size = size]
WithRows(r, rows) == [r EXCEPT !.rows = rows]
WithFinal(r, final) == [r EXCEPT !.final = final]
LEMMA SizeChanged ==
  ASSUME NEW r, IsJob(r), NEW size \in Nat
  PROVE  LET j == WithSize(r, size)
         IN  /\ IsJob(j) /\ j.result = r.result /\ j.op = r.op /\ j.kind = r.kind
             /\ j.row = r.row /\ j.rows = r.rows /\ j.size = size /\ j.todo = r.todo
             /\ j.final = r.final
<1> DEFINE j == WithSize(r, size)
<1>1. /\ r.kind \in JobKinds /\ r.row \in Nat /\ r.todo \in Seq(Edits) /\ r.size \in Nat
      /\ r.rows \in SUBSET Nat /\ r.final \in {"ok", "refused"}
      /\ r.result \in {"none", "ok", "refused", "error"}
  BY DEF IsJob
<1>2. j = [op |-> r.op, kind |-> r.kind, row |-> r.row, rows |-> r.rows, size |-> size,
           todo |-> r.todo, want |-> r.want, final |-> r.final, result |-> r.result]
  BY DEF IsJob, WithSize
<1> HIDE DEF j
<1>3. IsJob(j)
  <2>1. IsJob([op |-> r.op, kind |-> r.kind, row |-> r.row, rows |-> r.rows, size |-> size,
               todo |-> r.todo, want |-> r.want, final |-> r.final, result |-> r.result])
    BY <1>1, JobForm
  <2> QED BY <2>1, <1>2
<1>4. /\ j.result = r.result /\ j.op = r.op /\ j.kind = r.kind
      /\ j.row = r.row /\ j.rows = r.rows /\ j.size = size /\ j.todo = r.todo
      /\ j.final = r.final
  BY <1>2
<1> QED BY <1>3, <1>4 DEF j
LEMMA RowsChanged ==
  ASSUME NEW r, IsJob(r), NEW rows \in SUBSET Nat
  PROVE  LET j == WithRows(r, rows)
         IN  /\ IsJob(j) /\ j.result = r.result /\ j.op = r.op /\ j.kind = r.kind
             /\ j.row = r.row /\ j.rows = rows /\ j.size = r.size /\ j.todo = r.todo
             /\ j.final = r.final
<1> DEFINE j == WithRows(r, rows)
<1>1. /\ r.kind \in JobKinds /\ r.row \in Nat /\ r.todo \in Seq(Edits) /\ r.size \in Nat
      /\ r.rows \in SUBSET Nat /\ r.final \in {"ok", "refused"}
      /\ r.result \in {"none", "ok", "refused", "error"}
  BY DEF IsJob
<1>2. j = [op |-> r.op, kind |-> r.kind, row |-> r.row, rows |-> rows, size |-> r.size,
           todo |-> r.todo, want |-> r.want, final |-> r.final, result |-> r.result]
  BY DEF IsJob, WithRows
<1> HIDE DEF j
<1>3. IsJob(j)
  <2>1. IsJob([op |-> r.op, kind |-> r.kind, row |-> r.row, rows |-> rows, size |-> r.size,
               todo |-> r.todo, want |-> r.want, final |-> r.final, result |-> r.result])
    BY <1>1, JobForm
  <2> QED BY <2>1, <1>2
<1>4. /\ j.result = r.result /\ j.op = r.op /\ j.kind = r.kind
      /\ j.row = r.row /\ j.rows = rows /\ j.size = r.size /\ j.todo = r.todo
      /\ j.final = r.final
  BY <1>2
<1> QED BY <1>3, <1>4 DEF j
LEMMA FinalChanged ==
  ASSUME NEW r, IsJob(r), NEW final \in {"ok", "refused"}
  PROVE  LET j == WithFinal(r, final)
         IN  /\ IsJob(j) /\ j.result = r.result /\ j.op = r.op /\ j.kind = r.kind
             /\ j.row = r.row /\ j.rows = r.rows /\ j.size = r.size /\ j.todo = r.todo
             /\ j.final = final
<1> DEFINE j == WithFinal(r, final)
<1>1. /\ r.kind \in JobKinds /\ r.row \in Nat /\ r.todo \in Seq(Edits) /\ r.size \in Nat
      /\ r.rows \in SUBSET Nat /\ r.final \in {"ok", "refused"}
      /\ r.result \in {"none", "ok", "refused", "error"}
  BY DEF IsJob
<1>2. j = [op |-> r.op, kind |-> r.kind, row |-> r.row, rows |-> r.rows, size |-> r.size,
           todo |-> r.todo, want |-> r.want, final |-> final, result |-> r.result]
  BY DEF IsJob, WithFinal
<1> HIDE DEF j
<1>3. IsJob(j)
  <2>1. IsJob([op |-> r.op, kind |-> r.kind, row |-> r.row, rows |-> r.rows, size |-> r.size,
               todo |-> r.todo, want |-> r.want, final |-> final, result |-> r.result])
    BY <1>1, JobForm
  <2> QED BY <2>1, <1>2
<1>4. /\ j.result = r.result /\ j.op = r.op /\ j.kind = r.kind
      /\ j.row = r.row /\ j.rows = r.rows /\ j.size = r.size /\ j.todo = r.todo
      /\ j.final = final
  BY <1>2
<1> QED BY <1>3, <1>4 DEF j

LEMMA RequestParts ==
  ASSUME NEW op, NEW kind, NEW row, NEW todo, NEW want
  PROVE  LET j == Request(op, kind, row, todo, want)
         IN  /\ j.result = (IF todo = << >> THEN "ok" ELSE "none")
             /\ j.op = op /\ j.kind = kind /\ j.row = row /\ j.rows = {row} /\ j.size = 1
             /\ j.todo = todo /\ j.final = "ok"
BY DEF Request

\* The edits that operations are made of, by what they do.
WritesTo(S) == {e \in Edits : e.act = "write" /\ e.at \in S /\ e.fill \in Fills}
Checks == {e \in Edits : e.act = "check"}
LEMMA EditForm ==
  ASSUME NEW act \in Acts, NEW at \in Nat, NEW fill \in Fills \cup Modes
  PROVE  /\ Edit(act, at, fill) \in Seq(Edits) /\ Len(Edit(act, at, fill)) = 1
         /\ Edit(act, at, fill)[1].act = act /\ Edit(act, at, fill)[1].at = at
         /\ Edit(act, at, fill)[1].fill = fill /\ Edit(act, at, fill) # << >>
BY DEF Edit, Edits
LEMMA WriteForm ==
  ASSUME NEW at \in Nat, NEW fill \in Fills
  PROVE  Write(at, fill) \in Seq(WritesTo({at})) /\ Len(Write(at, fill)) = 1
<1> DEFINE e == [act |-> "write", at |-> at, fill |-> fill]
<1>1. e \in WritesTo({at})
  BY DEF WritesTo, Edits, Acts
<1> HIDE DEF e
<1>2. <<e>> \in Seq(WritesTo({at})) /\ Len(<<e>>) = 1
  BY <1>1
<1> QED BY <1>2 DEF Write, Edit, e
LEMMA CheckForm == Check \in Seq(Checks) /\ Len(Check) = 1
<1> DEFINE e == [act |-> "check", at |-> 0, fill |-> "old"]
<1>1. e \in Checks
  BY DEF Checks, Edits, Acts, Fills
<1> HIDE DEF e
<1>2. <<e>> \in Seq(Checks) /\ Len(<<e>>) = 1
  BY <1>1
<1> QED BY <1>2 DEF Check, Edit, e
LEMMA Wider == ASSUME NEW S, NEW T, S \subseteq T, NEW s \in Seq(S) PROVE s \in Seq(T)
OBVIOUS
LEMMA EditsAreEdits == ASSUME NEW S PROVE WritesTo(S) \subseteq Edits /\ Checks \subseteq Edits
BY DEF WritesTo, Checks

\* Requests that edit nothing.
LEMMA NothingStarts ==
  ASSUME NEW op, NEW want PROVE Start(Request(op, "none", 0, << >>, want))
<1> DEFINE kind == "none"
           todo == << >>
           row == 0
<1>1. kind \in JobKinds /\ todo \in Seq(Edits) /\ row \in Nat
  BY DEF JobKinds
<1> HIDE DEF kind, todo, row
<1> SUFFICES ASSUME NEW j, j = Request(op, kind, row, todo, want) PROVE Start(j)
  BY DEF kind, todo, row
<1>2. /\ IsJob(j) /\ j.result = (IF todo = << >> THEN "ok" ELSE "none") /\ j.kind = kind
      /\ j.todo = todo /\ j.final = "ok"
  BY <1>1, RequestIsJob, RequestParts
<1> QED BY <1>2 DEF Start, AddStart, RemovePlan, SizePlan, CheckPlan, Single, kind, todo
LEMMA NothingKeepsInv == ASSUME EditInv, NEW op, NEW accepted, Nothing(op, accepted)
                         PROVE  EditInv'
<1>1. Start(Request(op, "none", 0, << >>, {p}))
  BY NothingStarts
<1> QED BY <1>1, AskKeepsInv DEF Nothing

\* Rows that are read: those of the range that the caller named.
LEMMA ReadKeepsInv ==
  ASSUME EditInv, NEW op, NEW start \in Nat, NEW end \in Nat, ReadRows(op, start, end)
  PROVE  EditInv'
<1> DEFINE kind == "read"
           todo == << >>
           r == Request(op, kind, start, todo, {p})
           rows == RowRange(start, end, n)
           j == WithRows(WithSize(r, end), rows)
<1>1. p \in Lenses /\ n \in Nat /\ DOMAIN p.rows = 1..n
  BY DEF EditInv, Formed, Lenses, n
<1>2. SUFFICES ASSUME RangeAccepted(start, end, n) PROVE Start(j)
  BY AskKeepsInv DEF ReadRows, WithRows, WithSize
<1>3. rows = {i \in 1..n : i >= start /\ (end = 0 \/ i <= end)}
  BY <1>1, <1>2 DEF RowRange, RangeAccepted, LastRow
<1>4. rows \in SUBSET Nat
  BY <1>3
<1>5. kind \in JobKinds /\ todo \in Seq(Edits)
  BY DEF JobKinds
<1> HIDE DEF kind, todo, rows
<1>6. IsJob(r)
  BY <1>5, RequestIsJob
<1>7. /\ r.result = (IF todo = << >> THEN "ok" ELSE "none") /\ r.op = op /\ r.kind = kind
      /\ r.row = start /\ r.todo = todo /\ r.final = "ok"
  BY RequestParts
<1> HIDE DEF r
<1>8. /\ IsJob(j) /\ j.result = r.result /\ j.op = r.op /\ j.kind = r.kind /\ j.row = r.row
      /\ j.rows = rows /\ j.size = end /\ j.todo = r.todo /\ j.final = r.final
  <2> DEFINE q == WithSize(r, end)
  <2>1. /\ IsJob(q) /\ q.result = r.result /\ q.op = r.op /\ q.kind = r.kind /\ q.row = r.row
        /\ q.size = end /\ q.todo = r.todo /\ q.final = r.final
    BY <1>6, SizeChanged
  <2> HIDE DEF q
  <2>2. /\ IsJob(WithRows(q, rows))
        /\ WithRows(q, rows).result = q.result /\ WithRows(q, rows).op = q.op
        /\ WithRows(q, rows).kind = q.kind /\ WithRows(q, rows).row = q.row
        /\ WithRows(q, rows).rows = rows /\ WithRows(q, rows).size = q.size
        /\ WithRows(q, rows).todo = q.todo /\ WithRows(q, rows).final = q.final
    BY <1>4, <2>1, RowsChanged
  <2> QED BY <2>1, <2>2 DEF q
<1> HIDE DEF j
<1>9. /\ IsJob(j) /\ j.result = "ok" /\ j.kind = "read" /\ j.row = start
      /\ j.rows = rows /\ j.size = end /\ j.todo = << >> /\ j.final = "ok"
  BY <1>7, <1>8 DEF kind, todo
<1>10. j.rows = {i \in DOMAIN p.rows : i >= j.row /\ (j.size = 0 \/ i <= j.size)}
  BY <1>1, <1>3, <1>9
<1> QED BY <1>9, <1>10 DEF Start, AddStart, RemovePlan, SizePlan, CheckPlan, Single

\* A row that is added: it is inserted first, and then only written or looked at.
Edited(S) == WritesTo(S) \cup Checks
LEMMA AddStarts ==
  ASSUME EditInv, NEW op, NEW row \in 1..(n + 1), NEW fill \in Fills, NEW rest \in Seq(Edited({row})),
         NEW want, doc = "LDE" => row \in 2..n,
         op \in LateChecks \/ rest \in Seq(WritesTo({row}))
  PROVE  Start(Request(op, "add", row, Insert(row, fill) \o rest, want))
<1> DEFINE first == Insert(row, fill)
           todo == first \o rest
           kind == "add"
           j == Request(op, kind, row, todo, want)
<1>1. /\ first \in Seq(Edits) /\ Len(first) = 1
      /\ first[1].act = "insert" /\ first[1].at = row /\ first[1].fill = fill
  <2>1. "insert" \in Acts /\ row \in Nat /\ fill \in Fills \cup Modes
    BY DEF Acts, EditInv, Formed, Lenses, n
  <2> QED BY <2>1, EditForm DEF Insert
<1>2. rest \in Seq(Edits)
  BY Wider, EditsAreEdits DEF Edited
<1> HIDE DEF first
<1>3. /\ todo \in Seq(Edits) /\ Len(todo) = 1 + Len(rest) /\ todo[1] = first[1]
      /\ \A k \in 2..Len(todo) : todo[k] = rest[k - 1]
      /\ Len(rest) \in Nat
  <2>1. /\ todo \in Seq(Edits) /\ Len(todo) = Len(first) + Len(rest)
        /\ \A k \in 1..Len(first) : todo[k] = first[k]
        /\ \A k \in (Len(first) + 1)..(Len(first) + Len(rest)) : todo[k] = rest[k - Len(first)]
    BY <1>1, <1>2, ConcatParts
  <2>2. Len(rest) \in Nat
    BY <1>2
  <2> QED BY <1>1, <2>1, <2>2
<1>4. \A k \in 2..Len(todo) : k - 1 \in 1..Len(rest) /\ rest[k - 1] \in Edited({row})
  BY <1>3
<1> HIDE DEF todo
<1>5. kind \in JobKinds /\ row \in Nat
  BY DEF JobKinds, EditInv, Formed, Lenses, n
<1> HIDE DEF kind
<1>6. IsJob(j)
  BY <1>3, <1>5, RequestIsJob
<1>7. /\ j.result = (IF todo = << >> THEN "ok" ELSE "none") /\ j.op = op /\ j.kind = "add"
      /\ j.row = row /\ j.todo = todo /\ j.final = "ok"
  BY RequestParts DEF kind
<1>8. Start(j)
  <2> HIDE DEF j
  <2>1. \A i \in 1..Len(todo) : i = 1 \/ i \in 2..Len(todo)
    BY <1>3
  <2>2. \A i \in 1..Len(todo) : Allowed(j, todo[i])
    BY <1>1, <1>3, <1>4, <1>7, <2>1 DEF Allowed, Edited, WritesTo, Checks
  <2>3. AddStart(j)
    <3>1. \A i \in 2..Len(todo) : todo[i].act # "insert"
      BY <1>3, <1>4 DEF Edited, WritesTo, Checks
    <3>2. todo # << >>
      BY <1>3
    <3> QED BY <1>1, <1>3, <1>7, <3>1, <3>2 DEF AddStart
  <2>4. CheckPlan(j, TRUE)
    <3>1. op \notin LateChecks => \A i \in 2..Len(todo) : todo[i].act # "check"
      BY <1>3, <1>4 DEF WritesTo
    <3> QED BY <1>7, <3>1 DEF CheckPlan
  <2> QED BY <1>6, <1>7, <2>2, <2>3, <2>4 DEF Start, RemovePlan, SizePlan, Single
<1> QED BY <1>8 DEF j, todo, first, kind

\* A row that is removed.
LEMMA RemoveStarts ==
  ASSUME EditInv, NEW op, NEW row \in 1..n, NEW want, ~Resizable,
         doc = "LDE" => row \in 2..(n - 1)
  PROVE  Start(Request(op, "remove", row, Drop(row), want))
<1> DEFINE todo == Drop(row)
           kind == "remove"
           j == Request(op, kind, row, todo, want)
<1>1. /\ todo \in Seq(Edits) /\ Len(todo) = 1 /\ todo[1].act = "remove" /\ todo[1].at = row
      /\ todo # << >>
  <2>1. "remove" \in Acts /\ row \in Nat /\ "old" \in Fills \cup Modes
    BY DEF Acts, Fills, EditInv, Formed, Lenses, n
  <2> QED BY <2>1, EditForm DEF Drop
<1>2. kind \in JobKinds /\ row \in Nat
  BY DEF JobKinds, EditInv, Formed, Lenses, n
<1> HIDE DEF todo, kind
<1>3. IsJob(j)
  BY <1>1, <1>2, RequestIsJob
<1>4. /\ j.result = (IF todo = << >> THEN "ok" ELSE "none") /\ j.op = op /\ j.kind = "remove"
      /\ j.row = row /\ j.todo = todo /\ j.final = "ok"
  BY RequestParts DEF kind
<1> HIDE DEF j
<1>5. \A i \in 1..Len(todo) : Allowed(j, todo[i])
  BY <1>1, <1>4 DEF Allowed
<1>6. RemovePlan(j) /\ AddStart(j) /\ SizePlan(j)
  BY <1>4 DEF RemovePlan, AddStart, SizePlan
<1>7. CheckPlan(j, TRUE)
  <2>1. 2..Len(todo) = {}
    BY <1>1
  <2> QED BY <1>4, <2>1 DEF CheckPlan
<1>8. Start(j)
  <2>1. Len(todo) <= 1
    BY <1>1
  <2> QED BY <1>3, <1>4, <1>5, <1>6, <1>7, <2>1 DEF Start
<1> QED BY <1>8 DEF j, todo, kind

\* Rows, or cells, that are written.
LEMMA WriteStarts ==
  ASSUME EditInv, NEW j, IsJob(j), j.kind = "write", j.todo \in Seq(Edited(j.rows)),
         j.result = (IF j.todo = << >> THEN "ok" ELSE "none"), j.final = "ok",
         j.op \in LateChecks \/ \A i \in 2..Len(j.todo) : j.todo[i].act # "check"
  PROVE  Start(j)
<1>1. \A i \in 1..Len(j.todo) : j.todo[i] \in Edited(j.rows)
  OBVIOUS
<1>2. \A i \in 1..Len(j.todo) : Allowed(j, j.todo[i])
  BY <1>1 DEF Edited, WritesTo, Checks, Allowed
<1>3. AddStart(j) /\ RemovePlan(j) /\ SizePlan(j) /\ CheckPlan(j, TRUE)
  BY DEF AddStart, RemovePlan, SizePlan, CheckPlan
<1> QED BY <1>2, <1>3 DEF Start, Single

\* Whether an argument is still to be looked at after the first edit.
Late(s) == \E i \in 2..Len(s) : s[i].act = "check"
LEMMA WritesAreEarly == ASSUME NEW S, NEW s \in Seq(WritesTo(S)) PROVE ~Late(s)
<1>1. \A i \in 1..Len(s) : s[i] \in WritesTo(S)
  OBVIOUS
<1>2. \A i \in 2..Len(s) : i \in 1..Len(s)
  OBVIOUS
<1> QED BY <1>1, <1>2 DEF Late, WritesTo
LEMMA CheckIsEarly == ASSUME NEW S, NEW s \in Seq(WritesTo(S)) PROVE ~Late(Check \o s)
<1> DEFINE c == Check
<1>1. c \in Seq(Edits) /\ s \in Seq(Edits) /\ Len(c) = 1
  BY CheckForm, Wider, EditsAreEdits
<1> HIDE DEF c
<1>2. /\ c \o s \in Seq(Edits) /\ Len(c \o s) = Len(c) + Len(s)
      /\ \A k \in (Len(c) + 1)..(Len(c) + Len(s)) : (c \o s)[k] = s[k - Len(c)]
  BY <1>1, ConcatParts
<1>3. \A i \in 1..Len(s) : s[i].act # "check"
  BY DEF WritesTo
<1>4. \A i \in 2..Len(c \o s) : (c \o s)[i] = s[i - 1] /\ i - 1 \in 1..Len(s)
  BY <1>1, <1>2
<1> QED BY <1>3, <1>4 DEF Late, c

LEMMA WriteRowKeepsInv ==
  ASSUME EditInv, NEW op, NEW row \in Nat, NEW accepted, NEW todo \in Seq(Edited({row})),
         op \in LateChecks \/ ~Late(todo), WriteRow(op, row, accepted, todo)
  PROVE  EditInv'
<1> DEFINE kind == "write"
           want == {[p EXCEPT !.rows[row].fill = "new"]}
           j == Request(op, kind, row, todo, want)
<1>1. kind \in JobKinds /\ todo \in Seq(Edits)
  <2>1. Edited({row}) \subseteq Edits
    BY EditsAreEdits DEF Edited
  <2> QED BY <2>1, Wider DEF JobKinds
<1>2. Ask(op, row \in 1..n /\ accepted, j)
  BY DEF WriteRow
<1> HIDE DEF kind, want
<1>3. IsJob(j)
  BY <1>1, RequestIsJob
<1>4. /\ j.result = (IF todo = << >> THEN "ok" ELSE "none") /\ j.op = op /\ j.kind = kind
      /\ j.rows = {row} /\ j.todo = todo /\ j.final = "ok"
  BY RequestParts
<1> HIDE DEF j
<1>5. Start(j)
  BY <1>3, <1>4, WriteStarts DEF Late, kind
<1> QED BY <1>2, <1>5, AskKeepsInv

\* The edits of one row.
LEMMA RowEdits ==
  ASSUME NEW row \in Nat
  PROVE  /\ Whole(row) \in Seq(Edited({row})) /\ ~Late(Whole(row))
         /\ Several(row) \in Seq(Edited({row})) /\ ~Late(Several(row))
         /\ Typed(row) \in Seq(Edited({row})) /\ ~Late(Typed(row))
         /\ CheckedLate(row) \in Seq(Edited({row})) /\ ItemByItem(row) \in Seq(Edited({row}))
<1> DEFINE S == {row}
           W == WritesTo(S)
           E == Edited(S)
           typed == Write(row, "part")
           whole == Write(row, "new")
           check == Check
<1>1. typed \in Seq(W) /\ whole \in Seq(W) /\ check \in Seq(Checks)
  BY WriteForm, CheckForm DEF Fills
<1>2. W \subseteq E /\ Checks \subseteq E
  BY DEF Edited
<1>3. /\ Whole(row) = whole /\ Several(row) = typed \o whole
      /\ Typed(row) = (check \o typed) \o whole
      /\ CheckedLate(row) = (typed \o check) \o whole
      /\ ItemByItem(row) = ((check \o typed) \o check) \o whole
  BY DEF Whole, Several, Typed, Retype, CheckedLate, ItemByItem
<1> HIDE DEF typed, whole, check, E
<1>4. typed \in Seq(E) /\ whole \in Seq(E) /\ check \in Seq(E)
  BY <1>1, <1>2, Wider
<1> HIDE DEF W
<1>5. /\ typed \o whole \in Seq(W) /\ typed \o whole \in Seq(E)
      /\ (check \o typed) \o whole \in Seq(E) /\ (typed \o check) \o whole \in Seq(E)
      /\ ((check \o typed) \o check) \o whole \in Seq(E)
  BY <1>1, <1>4
<1>6. (check \o typed) \o whole = check \o (typed \o whole)
  BY <1>4
<1>7. ~Late(whole) /\ ~Late(typed \o whole) /\ ~Late(check \o (typed \o whole))
  BY <1>1, <1>5, WritesAreEarly, CheckIsEarly DEF W, check
<1> QED BY <1>3, <1>4, <1>5, <1>6, <1>7 DEF E

LEMMA SurfaceRowsAreRows == ASSUME EditInv, NEW row \in SurfaceRows PROVE row \in Nat
<1>1. n \in Nat /\ MaxRows \in Nat
  BY EditorAssumption DEF EditInv, Formed, Lenses, n
<1>2. PICK surface \in -1..(MaxRows + 3) : row = IF surface = -1 THEN n ELSE surface + 1
  BY DEF SurfaceRows, SurfaceNumbers, SurfaceRow
<1> QED BY <1>1, <1>2

LEMMA SurfaceKeepsInv ==
  ASSUME EditInv, NEW op, NEW row \in Nat, NEW todo \in Seq(Edited({row})),
         op \in LateChecks \/ ~Late(todo), OnSurface(op, row, todo)
  PROVE  EditInv'
BY WriteRowKeepsInv DEF OnSurface

LEMMA ObjectKeepsInv ==
  ASSUME EditInv, NEW op, NEW row \in Nat, NEW todo \in Seq(Edited({row})),
         op \in LateChecks \/ ~Late(todo), OnObject(op, row, todo)
  PROVE  EditInv'
BY WriteRowKeepsInv DEF OnObject

LEMMA SurfaceOperations ==
  ASSUME EditInv, \/ set_surface \/ set_surface_common \/ set_surface_variable
                  \/ set_surface_type \/ set_surface_parameter \/ set_surface_solve
                  \/ set_aspheric_surface \/ set_extra_data
  PROVE  EditInv'
<1>1. ASSUME NEW op, NEW row \in SurfaceRows,
             OnSurface(op, row, Several(row)) \/ OnSurface(op, row, Whole(row))
      PROVE  EditInv'
  BY <1>1, SurfaceRowsAreRows, SurfaceKeepsInv, RowEdits
<1>2. CASE set_extra_data
  <2>1. PICK row \in SurfaceRows : OnSurface("set_extra_data", row, ItemByItem(row))
    BY <1>2 DEF set_extra_data
  <2>2. "set_extra_data" \in LateChecks
    BY DEF LateChecks
  <2> QED BY <2>1, <2>2, SurfaceRowsAreRows, SurfaceKeepsInv, RowEdits
<1>3. CASE set_aspheric_surface
  <2>1. PICK row \in SurfaceRows : OnSurface("set_aspheric_surface", row, CheckedLate(row))
    BY <1>3 DEF set_aspheric_surface
  <2>2. "set_aspheric_surface" \in LateChecks
    BY DEF LateChecks
  <2> QED BY <2>1, <2>2, SurfaceRowsAreRows, SurfaceKeepsInv, RowEdits
<1> QED BY <1>1, <1>2, <1>3 DEF set_surface, set_surface_common, set_surface_variable,
    set_surface_type, set_surface_parameter, set_surface_solve

LEMMA ObjectOperations ==
  ASSUME EditInv, set_object \/ set_object_parameter \/ set_source_spectrum \/ load_detector
  PROVE  EditInv'
<1>1. \A row \in ObjectNumbers : row \in Nat
  BY EditorAssumption DEF ObjectNumbers
<1>2. ASSUME NEW op, NEW row \in ObjectNumbers,
             OnObject(op, row, Typed(row)) \/ OnObject(op, row, Whole(row))
      PROVE  EditInv'
  BY <1>1, <1>2, ObjectKeepsInv, RowEdits
<1>3. CASE set_source_spectrum
  <2>1. PICK row \in ObjectNumbers : OnObject("nsc_set_source_spectrum", row, CheckedLate(row))
    BY <1>3 DEF set_source_spectrum
  <2>2. "nsc_set_source_spectrum" \in LateChecks
    BY DEF LateChecks
  <2> QED BY <1>1, <2>1, <2>2, ObjectKeepsInv, RowEdits
<1> QED BY <1>2, <1>3 DEF set_object, set_object_parameter, load_detector

\* A configuration's value of an operand is a number or a pickup.
LEMMA OperandValues ==
  ASSUME set_configuration_operand_value
  PROVE  \E row, op, accepted : row \in Nat /\ WriteRow(op, row, accepted, Whole(row))
<1>1. PICK row \in 0..(MaxRows + 1), k \in 0..(MaxSize + 1) :
        LET accepted == k \in 1..p.configurations
        IN  \/ WriteRow("set_configuration_operand_value", row, accepted, Whole(row))
            \/ \E source \in 0..(MaxSize + 1) :
                 WriteRow("_make_pickup", row,
                          accepted /\ source \in (1..p.configurations) \ {k}, Whole(row))
  BY DEF set_configuration_operand_value
<1>2. row \in Nat
  BY <1>1, EditorAssumption
<1>3. \E op, accepted : WriteRow(op, row, accepted, Whole(row))
  BY <1>1
<1> QED BY <1>2, <1>3

LEMMA OperandValueKeepsInv == ASSUME EditInv, set_configuration_operand_value PROVE EditInv'
<1>1. PICK row, op, accepted : row \in Nat /\ WriteRow(op, row, accepted, Whole(row))
  BY OperandValues
<1> QED BY <1>1, WriteRowKeepsInv, RowEdits

\* The settings.
LEMMA AssignKeepsInv ==
  ASSUME EditInv, NEW op, NEW cells \in SUBSET Nat, NEW todo \in Seq(Edited(cells)),
         op \in LateChecks \/ ~Late(todo), Assign(op, cells, todo)
  PROVE  EditInv'
<1> DEFINE kind == "write"
           want == {[p EXCEPT !.rows = [i \in DOMAIN @ |-> IF i \in cells THEN New ELSE @[i]]]}
           r == Request(op, kind, 0, todo, want)
           j == WithRows(r, cells)
<1>1. Ask(op, cells # {}, j)
  BY DEF Assign, WithRows
<1>2. kind \in JobKinds /\ todo \in Seq(Edits)
  <2>1. Edited(cells) \subseteq Edits
    BY EditsAreEdits DEF Edited
  <2> QED BY <2>1, Wider DEF JobKinds
<1> HIDE DEF kind, want
<1>3. IsJob(r)
  BY <1>2, RequestIsJob
<1>4. /\ r.result = (IF todo = << >> THEN "ok" ELSE "none") /\ r.op = op /\ r.kind = kind
      /\ r.todo = todo /\ r.final = "ok"
  BY RequestParts
<1> HIDE DEF r
<1>5. /\ IsJob(j) /\ j.result = r.result /\ j.op = r.op /\ j.kind = r.kind
      /\ j.rows = cells /\ j.todo = r.todo /\ j.final = r.final
  BY <1>3, RowsChanged
<1> HIDE DEF j
<1>6. Start(j)
  BY <1>4, <1>5, WriteStarts DEF Late, kind
<1> QED BY <1>1, <1>6, AskKeepsInv

LEMMA AssignWritesKeepsInv ==
  ASSUME EditInv, NEW op, NEW cells \in SUBSET Nat, NEW todo \in Seq(WritesTo(cells)),
         Assign(op, cells, todo)
  PROVE  EditInv'
<1>1. WritesTo(cells) \subseteq Edited(cells)
  BY DEF Edited
<1>2. todo \in Seq(Edited(cells)) /\ ~Late(todo)
  BY <1>1, Wider, WritesAreEarly
<1> QED BY <1>2, AssignKeepsInv

LEMMA GivenCells ==
  ASSUME NEW cells \in SUBSET Nat, NEW cell \in Nat
  PROVE  /\ Given(cells, cell) \in Seq(WritesTo(cells))
         /\ GivenSeveral(cells, cell) \in Seq(WritesTo(cells))
<1>1. CASE cell \in cells
  <2> DEFINE part == Write(cell, "part")
             whole == Write(cell, "new")
             T == WritesTo(cells)
  <2>1. part \in Seq(WritesTo({cell})) /\ whole \in Seq(WritesTo({cell}))
    BY WriteForm DEF Fills
  <2>2. WritesTo({cell}) \subseteq T
    BY <1>1 DEF WritesTo
  <2>3. Given(cells, cell) = whole /\ GivenSeveral(cells, cell) = part \o whole
    BY <1>1 DEF Given, GivenSeveral, Several, Whole
  <2> HIDE DEF part, whole, T
  <2>4. part \in Seq(T) /\ whole \in Seq(T)
    BY <2>1, <2>2, Wider
  <2>5. part \o whole \in Seq(T)
    BY <2>4
  <2> QED BY <2>3, <2>4, <2>5 DEF T
<1>2. CASE cell \notin cells
  BY <1>2 DEF Given, GivenSeveral
<1> QED BY <1>1, <1>2

LEMMA SettingsOperations ==
  ASSUME EditInv, \/ set_afocal_mode \/ set_aperture \/ set_apodization
                  \/ set_clear_semi_diameter_margin \/ set_ray_aiming \/ set_mtf_units
                  \/ set_system_units \/ set_title_notes \/ set_polarization
  PROVE  EditInv'
<1>1. ASSUME NEW cell \in Nat, NEW op, Assign(op, {cell}, Whole(cell)) PROVE EditInv'
  <2>1. Whole(cell) \in Seq(WritesTo({cell}))
    BY WriteForm DEF Whole, Fills
  <2> QED BY <1>1, <2>1, AssignWritesKeepsInv
<1>2. CASE set_aperture
  <2> DEFINE S == {2, 3}
             T == WritesTo(S)
             first == Whole(2)
             second == Whole(3)
  <2>1. first = Given(S, 2) /\ second = Given(S, 3)
    BY DEF Given
  <2>2. first \in Seq(T) /\ second \in Seq(T)
    BY <2>1, GivenCells
  <2>3. Assign("set_aperture", S, first \o second) /\ S \in SUBSET Nat
    BY <1>2 DEF set_aperture
  <2> HIDE DEF T, first, second, S
  <2>4. first \o second \in Seq(T)
    BY <2>2
  <2> QED BY <2>3, <2>4, AssignWritesKeepsInv DEF T
<1>3. CASE set_apodization
  <2> DEFINE S == {4, 5}
             T == Edited(S)
             first == Whole(4)
             check == Check
             second == Whole(5)
  <2>1. first = Given(S, 4) /\ second = Given(S, 5)
    BY DEF Given
  <2>2. first \in Seq(WritesTo(S)) /\ second \in Seq(WritesTo(S)) /\ check \in Seq(Checks)
    BY <2>1, GivenCells, CheckForm
  <2>3. WritesTo(S) \subseteq T /\ Checks \subseteq T
    BY DEF Edited
  <2>4. Assign("set_apodization", S, first \o check \o second) /\ S \in SUBSET Nat
    BY <1>3 DEF set_apodization
  <2>5. "set_apodization" \in LateChecks
    BY DEF LateChecks
  <2> HIDE DEF T, first, second, check, S
  <2>6. first \in Seq(T) /\ second \in Seq(T) /\ check \in Seq(T)
    BY <2>2, <2>3, Wider
  <2>7. first \o check \o second \in Seq(T)
    BY <2>6
  <2> QED BY <2>4, <2>5, <2>7, AssignKeepsInv DEF T
<1>4. CASE set_title_notes
  <2>1. PICK cells \in SUBSET {10, 11, 12} :
          Assign("set_title_notes", cells,
                 Given(cells, 10) \o Given(cells, 11) \o Given(cells, 12))
    BY <1>4 DEF set_title_notes
  <2> DEFINE a == Given(cells, 10)
             b == Given(cells, 11)
             c == Given(cells, 12)
             T == WritesTo(cells)
  <2>2. a \in Seq(T) /\ b \in Seq(T) /\ c \in Seq(T)
    BY GivenCells
  <2> HIDE DEF a, b, c, T
  <2>3. a \o b \o c \in Seq(T)
    BY <2>2
  <2>4. cells \in SUBSET Nat
    OBVIOUS
  <2>5. Assign("set_title_notes", cells, a \o b \o c)
    BY <2>1 DEF a, b, c
  <2> QED BY <2>3, <2>4, <2>5, AssignWritesKeepsInv DEF T
<1>5. CASE set_polarization
  <2>1. PICK cells \in SUBSET {13, 14} :
          Assign("set_polarization", cells, Given(cells, 13) \o GivenSeveral(cells, 14))
    BY <1>5 DEF set_polarization
  <2> DEFINE a == Given(cells, 13)
             b == GivenSeveral(cells, 14)
             T == WritesTo(cells)
  <2>2. a \in Seq(T) /\ b \in Seq(T)
    BY GivenCells
  <2> HIDE DEF a, b, T
  <2>3. a \o b \in Seq(T)
    BY <2>2
  <2>4. cells \in SUBSET Nat
    OBVIOUS
  <2>5. Assign("set_polarization", cells, a \o b)
    BY <2>1 DEF a, b
  <2> QED BY <2>3, <2>4, <2>5, AssignWritesKeepsInv DEF T
<1> QED BY <1>1, <1>2, <1>3, <1>4, <1>5
        DEF set_afocal_mode, set_clear_semi_diameter_margin, set_ray_aiming, set_mtf_units,
            set_system_units

-----------------------------------------------------------------------------
\* Operations that add a row.
LEMMA AddRowKeepsInv ==
  ASSUME EditInv, NEW op \in LateChecks, NEW accepted, NEW insert_at \in Nat, doc # "LDE",
         accepted => insert_at <= n + 1, AddRow(op, accepted, insert_at)
  PROVE  EditInv'
<1> DEFINE row == ReportedRow(insert_at)
           rest == Typed(row)
           want == {[p EXCEPT !.rows = InsertAt(@, Place(insert_at), New)]}
<1>1. SUFFICES ASSUME accepted PROVE Start(Added(op, insert_at, NewOperand(insert_at)))
  BY AskKeepsInv DEF AddRow
<1>2. n \in Nat
  BY DEF EditInv, Formed, Lenses, n
<1>3. row \in 1..(n + 1) /\ Place(insert_at) = row
  BY <1>1, <1>2 DEF ReportedRow, Place
<1>4. rest \in Seq(Edited({row}))
  BY <1>2, <1>3, RowEdits
<1>5. "blank" \in Fills
  BY DEF Fills
<1>6. Added(op, insert_at, NewOperand(insert_at))
        = Request(op, "add", row, Insert(row, "blank") \o rest, want)
  BY <1>3 DEF Added, NewOperand
<1> HIDE DEF row, rest, want
<1>7. Start(Request(op, "add", row, Insert(row, "blank") \o rest, want))
  BY <1>3, <1>4, <1>5, AddStarts
<1> QED BY <1>6, <1>7

LEMMA AddOperations ==
  ASSUME EditInv, \/ add_operand \/ add_configuration_operand \/ add_object \/ insert_object
  PROVE  EditInv'
<1>1. n \in Nat /\ MaxRows \in Nat
  BY EditorAssumption DEF EditInv, Formed, Lenses, n
<1>2. ASSUME NEW op \in LateChecks, NEW at \in 0..(MaxRows + 1), doc # "LDE",
             AddRow(op, at <= n + 1, at)
      PROVE  EditInv'
  <2> DEFINE accepted == at <= n + 1
  <2>1. accepted => at <= n + 1
    OBVIOUS
  <2>2. AddRow(op, accepted, at) /\ at \in Nat
    BY <1>1, <1>2
  <2> HIDE DEF accepted
  <2> QED BY <1>2, <2>1, <2>2, AddRowKeepsInv
<1>3. CASE add_operand \/ add_configuration_operand
  BY <1>2, <1>3 DEF add_operand, add_configuration_operand, LateChecks
<1>4. CASE add_object
  BY <1>1, <1>4, AddRowKeepsInv DEF add_object, LateChecks
<1>5. CASE insert_object
  <2>1. PICK number \in 0..(MaxRows + 2) :
          doc = "NCE" /\ AddRow("nsc_insert_object", Pure /\ number \in 1..(n + 1), number)
    BY <1>5 DEF insert_object
  <2> DEFINE accepted == Pure /\ number \in 1..(n + 1)
             op == "nsc_insert_object"
  <2>2. accepted => number <= n + 1
    BY <1>1
  <2>3. AddRow(op, accepted, number) /\ number \in Nat /\ doc # "LDE" /\ op \in LateChecks
    BY <1>1, <2>1 DEF LateChecks
  <2> HIDE DEF accepted, op
  <2> QED BY <2>2, <2>3, AddRowKeepsInv
<1> QED BY <1>3, <1>4, <1>5

\* More values than configurations: the row has been added when that is noticed.
LEMMA AddOperandKeepsInv == ASSUME EditInv, mce_add_operand PROVE EditInv'
<1>1. PICK values \in 0..(MaxSize + 1) :
        LET few == values <= p.configurations
            cells == IF few THEN [i \in 1..values |-> Whole(ReportedRow(0))[1]] ELSE << >>
        IN  Ask("mce_add_operand", TRUE,
                [Added("mce_add_operand", 0, NewOperand(0) \o cells)
                   EXCEPT !.final = IF few THEN "ok" ELSE "refused"])
  BY DEF mce_add_operand
<1> DEFINE op == "mce_add_operand"
           row == ReportedRow(0)
           few == values <= p.configurations
           cells == IF few THEN [i \in 1..values |-> Whole(row)[1]] ELSE << >>
           final == IF few THEN "ok" ELSE "refused"
           rest == Typed(row) \o cells
           want == {[p EXCEPT !.rows = InsertAt(@, Place(0), New)]}
           r == Request(op, "add", row, Insert(row, "blank") \o rest, want)
<1>2. doc = "MCE" /\ values \in Nat /\ n \in Nat /\ op \in LateChecks /\ "blank" \in Fills
  BY EditorAssumption DEF mce_add_operand, EditInv, Formed, Lenses, n, LateChecks, Fills
<1>3. row \in 1..(n + 1) /\ row \in Nat /\ Place(0) = row
  BY <1>2 DEF ReportedRow, Place
<1>4. Typed(row) \in Seq(Edited({row})) /\ cells \in Seq(Edited({row}))
  <2>1. Whole(row) \in Seq(Edited({row})) /\ Len(Whole(row)) = 1
    BY <1>3, RowEdits, WriteForm DEF Whole, Fills
  <2>2. Whole(row)[1] \in Edited({row})
    BY <2>1
  <2> QED BY <1>2, <1>3, <2>2, RowEdits
<1>5. rest \in Seq(Edited({row}))
  BY <1>4
<1>6. Insert(row, "blank") \in Seq(Edits) /\ Edited({row}) \subseteq Edits
  <2>1. "insert" \in Acts /\ "blank" \in Fills \cup Modes
    BY DEF Acts, Fills
  <2> QED BY <1>3, <2>1, EditForm, EditsAreEdits DEF Insert, Edited
<1>7. NewOperand(0) \o cells = Insert(row, "blank") \o rest
  <2> DEFINE a == Insert(row, "blank")
             b == Typed(row)
  <2>1. a \in Seq(Edits) /\ b \in Seq(Edits) /\ cells \in Seq(Edits)
    BY <1>4, <1>6, Wider
  <2>2. NewOperand(0) = a \o b
    BY <1>3 DEF NewOperand
  <2> HIDE DEF a, b, cells
  <2>3. (a \o b) \o cells = a \o (b \o cells)
    BY <2>1
  <2> QED BY <2>2, <2>3 DEF a, b
<1>8. Ask(op, TRUE, WithFinal(r, final))
  BY <1>1, <1>7 DEF Added, WithFinal
<1> HIDE DEF rest, want, op, row, final
<1>9. Start(r)
  BY <1>2, <1>3, <1>5, AddStarts DEF row
<1>10. r.kind = "add" /\ r.op = op
  BY RequestParts
<1>11. IsJob(r) /\ final \in {"ok", "refused"}
  BY <1>9 DEF Start, final
<1> DEFINE j == WithFinal(r, final)
<1> HIDE DEF r
<1>12. /\ IsJob(j) /\ j.result = r.result /\ j.op = r.op /\ j.kind = r.kind
       /\ j.row = r.row /\ j.rows = r.rows /\ j.size = r.size /\ j.todo = r.todo
  BY <1>11, FinalChanged
<1> HIDE DEF j
<1>13. Start(j)
  <2>1. \A i \in 1..Len(j.todo) : Allowed(j, j.todo[i])
    BY <1>9, <1>12 DEF Start, Allowed
  <2>2. AddStart(j) /\ RemovePlan(j) /\ SizePlan(j) /\ CheckPlan(j, TRUE)
    BY <1>2, <1>9, <1>10, <1>12 DEF Start, AddStart, RemovePlan, SizePlan, CheckPlan
  <2> QED BY <1>9, <1>10, <1>12, <2>1, <2>2 DEF Start, Single
<1> QED BY <1>8, <1>13, AskKeepsInv DEF j

LEMMA InsertSurfaceKeepsInv ==
  ASSUME EditInv, NEW op, NEW position \in Int, NEW fill \in Fills, doc = "LDE",
         NEW rest \in Seq(WritesTo({position + 1})),
         InsertSurface(op, position, Insert(position + 1, fill) \o rest)
  PROVE  EditInv'
<1> DEFINE row == position + 1
           todo == Insert(row, fill) \o rest
           want == {[p EXCEPT !.rows = InsertAt(@, Place(row), New)]}
<1>1. SUFFICES ASSUME InsertAccepted(position) PROVE Start(Added(op, row, todo))
  BY AskKeepsInv DEF InsertSurface
<1>2. n \in Nat
  BY DEF EditInv, Formed, Lenses, n
<1>3. row \in 2..n /\ row \in 1..(n + 1) /\ ReportedRow(row) = row
  BY <1>1, <1>2 DEF InsertAccepted, ReportedRow
<1>4. Added(op, row, todo) = Request(op, "add", row, todo, want)
  BY <1>3 DEF Added
<1>5. rest \in Seq(Edited({row})) /\ rest \in Seq(WritesTo({row}))
  <2>1. WritesTo({row}) \subseteq Edited({row})
    BY DEF Edited
  <2> QED BY <2>1, Wider
<1> HIDE DEF row, want
<1>6. Start(Request(op, "add", row, todo, want))
  BY <1>3, <1>5, AddStarts
<1> QED BY <1>4, <1>6

LEMMA InsertOperations == ASSUME EditInv, insert_surface \/ add_surface PROVE EditInv'
<1>1. n \in Nat /\ \A surface \in SurfaceNumbers : surface \in Int
  BY EditorAssumption DEF EditInv, Formed, Lenses, n, SurfaceNumbers
<1>2. CASE insert_surface
  <2>1. PICK position \in SurfaceNumbers :
          doc = "LDE" /\ InsertSurface("lde_insert_surface", position, Insert(position + 1, "new"))
    BY <1>2 DEF insert_surface
  <2> DEFINE a == Insert(position + 1, "new")
  <2>2. a \in Seq({a[1]})
    BY DEF Insert, Edit
  <2> HIDE DEF a
  <2>3. a = a \o << >>
    BY <2>2
  <2>4. << >> \in Seq(WritesTo({position + 1})) /\ "new" \in Fills
    BY DEF Fills
  <2> QED BY <1>1, <2>1, <2>3, <2>4, InsertSurfaceKeepsInv DEF a
<1>3. CASE add_surface
  <2>1. PICK insert_at \in SurfaceNumbers :
          LET index == IF insert_at = 0 THEN n - 1 ELSE insert_at
          IN  doc = "LDE" /\ InsertSurface("add_surface", index,
                                           Insert(index + 1, "part") \o Whole(index + 1))
    BY <1>3 DEF add_surface
  <2> DEFINE index == IF insert_at = 0 THEN n - 1 ELSE insert_at
  <2>2. index \in Int
    BY <1>1
  <2>3. /\ doc = "LDE"
        /\ InsertSurface("add_surface", index, Insert(index + 1, "part") \o Whole(index + 1))
    BY <2>1
  <2> HIDE DEF index
  <2>4. "part" \in Fills
    BY DEF Fills
  <2>5. CASE index + 1 \in Nat
    <3>1. Whole(index + 1) \in Seq(WritesTo({index + 1}))
      BY <2>5, WriteForm DEF Whole, Fills
    <3> QED BY <2>2, <2>3, <2>4, <3>1, InsertSurfaceKeepsInv
  <2>6. CASE index + 1 \notin Nat
    <3>1. ~InsertAccepted(index)
      BY <1>1, <2>2, <2>6 DEF InsertAccepted
    <3> QED BY <2>3, <3>1, AskKeepsInv DEF InsertSurface
  <2> QED BY <2>5, <2>6
<1> QED BY <1>2, <1>3

-----------------------------------------------------------------------------
LEMMA RemoveRowKeepsInv ==
  ASSUME EditInv, NEW op, NEW row \in Int, NEW last, ~Resizable,
         row \in 1..last => row \in 1..n /\ (doc = "LDE" => row \in 2..(n - 1)),
         RemoveRow(op, row, last)
  PROVE  EditInv'
<1> DEFINE accepted == row \in 1..last
           j == Request(op, "remove", row, Drop(row), {[p EXCEPT !.rows = RemoveAt(@, row)]})
<1>1. accepted => Start(j)
  BY RemoveStarts
<1>2. Ask(op, accepted, j)
  BY DEF RemoveRow
<1> HIDE DEF accepted, j
<1> QED BY <1>1, <1>2, AskKeepsInv

LEMMA RemoveOperations ==
  ASSUME EditInv, \/ remove_operand \/ delete_configuration_operand \/ remove_object
                  \/ remove_surface
  PROVE  EditInv'
<1>1. n \in Nat /\ MaxRows \in Nat
  BY EditorAssumption DEF EditInv, Formed, Lenses, n
<1>2. CASE remove_operand
  BY <1>1, <1>2, RemoveRowKeepsInv DEF remove_operand, Resizable
<1>3. CASE delete_configuration_operand
  BY <1>1, <1>3, RemoveRowKeepsInv DEF delete_configuration_operand, Resizable
<1>4. CASE remove_object
  <2>1. PICK number \in 0..(MaxRows + 1) :
          doc = "NCE" /\ RemoveRow("nsc_remove_object", number, IF Pure THEN n ELSE 0)
    BY <1>4 DEF remove_object
  <2> DEFINE last == IF Pure THEN n ELSE 0
  <2>2. number \in Int /\ (number \in 1..last => number \in 1..n)
    BY <1>1
  <2>3. doc = "NCE" /\ RemoveRow("nsc_remove_object", number, last) /\ ~Resizable
    BY <2>1 DEF Resizable
  <2> HIDE DEF last
  <2> QED BY <2>2, <2>3, RemoveRowKeepsInv
<1>5. CASE remove_surface
  <2>1. PICK surface \in SurfaceNumbers :
          \/ surface \in 1..(n - 2) /\ RemoveRow("remove_surface", surface + 1, n)
          \/ Nothing("remove_surface", surface \in 1..(n - 2))
    BY <1>5 DEF remove_surface
  <2>2. CASE surface \in 1..(n - 2) /\ RemoveRow("remove_surface", surface + 1, n)
    <3> DEFINE row == surface + 1
    <3>1. row \in Int /\ row \in 1..n /\ row \in 2..(n - 1) /\ ~Resizable
      BY <1>1, <1>5, <2>2 DEF remove_surface, Resizable
    <3>2. RemoveRow("remove_surface", row, n)
      BY <2>2
    <3> HIDE DEF row
    <3> QED BY <3>1, <3>2, RemoveRowKeepsInv
  <2> QED BY <2>1, <2>2, NothingKeepsInv
<1> QED BY <1>2, <1>3, <1>4, <1>5

\* Requests with one edit, which has the fields that an operation of the kind may have.
LEMMA SingleStarts ==
  ASSUME NEW op, NEW kind \in {"choose", "load", "convert"}, NEW want,
         NEW act \in Acts \ {"check"}, NEW at \in Nat, NEW fill \in Fills \cup Modes,
         \/ kind = "choose" /\ doc = "MCE" /\ act = "choose" /\ at \in 1..p.configurations
         \/ kind = "load" /\ doc = "MFE" /\ act = "load"
         \/ kind = "convert" /\ doc = "NCE" /\ act = "convert" /\ fill \in Modes
  PROVE  Start(Request(op, kind, 0, Edit(act, at, fill), want))
<1> DEFINE todo == Edit(act, at, fill)
           row == 0
           j == Request(op, kind, row, todo, want)
<1>1. /\ todo \in Seq(Edits) /\ Len(todo) = 1 /\ todo[1].act = act /\ todo[1].at = at
      /\ todo[1].fill = fill /\ todo # << >>
  BY EditForm
<1>2. kind \in JobKinds /\ row \in Nat
  BY DEF JobKinds
<1> HIDE DEF todo, row
<1>3. IsJob(j)
  BY <1>1, <1>2, RequestIsJob
<1>4. /\ j.result = (IF todo = << >> THEN "ok" ELSE "none") /\ j.op = op /\ j.kind = kind
      /\ j.todo = todo /\ j.final = "ok"
  BY RequestParts
<1> HIDE DEF j
<1>5. \A i \in 1..Len(todo) : Allowed(j, todo[i])
  BY <1>1, <1>4 DEF Allowed
<1>6. RemovePlan(j) /\ AddStart(j) /\ SizePlan(j)
  BY <1>4 DEF RemovePlan, AddStart, SizePlan
<1>7. CheckPlan(j, TRUE)
  <2>1. 2..Len(todo) = {}
    BY <1>1
  <2> QED BY <1>1, <1>4, <2>1 DEF CheckPlan
<1>8. Start(j)
  <2>1. Len(todo) <= 1
    BY <1>1
  <2> QED BY <1>3, <1>4, <1>5, <1>6, <1>7, <2>1 DEF Start
<1> QED BY <1>8 DEF j, todo, row

LEMMA LoadKeepsInv == ASSUME EditInv, load_merit_function_file PROVE EditInv'
<1>1. PICK k \in 0..MaxRows :
        doc = "MFE" /\ Ask("load_merit_function_file", TRUE,
                           Request("load_merit_function_file", "load", 0, Load(k),
                                   {[p EXCEPT !.rows = Olds(k)]}))
  BY DEF load_merit_function_file
<1>2. k \in Nat /\ "load" \in Acts \ {"check"} /\ "old" \in Fills \cup Modes
  BY EditorAssumption DEF Acts, Fills
<1>3. ASSUME NEW op, NEW want PROVE Start(Request(op, "load", 0, Load(k), want))
  BY <1>1, <1>2, SingleStarts DEF Load
<1> QED BY <1>1, <1>3, AskKeepsInv

LEMMA CurrentKeepsInv == ASSUME EditInv, set_current_configuration PROVE EditInv'
<1>1. PICK k \in 0..(MaxSize + 1) :
        doc = "MCE" /\ Ask("set_current_configuration", k \in 1..p.configurations,
                           Request("set_current_configuration", "choose", 0, Choose(k),
                                   {[p EXCEPT !.chosen = k]}))
  BY DEF set_current_configuration
<1>2. k \in Nat /\ "choose" \in Acts \ {"check"} /\ "old" \in Fills \cup Modes
  BY EditorAssumption DEF Acts, Fills
<1>3. ASSUME NEW op, NEW want, k \in 1..p.configurations
      PROVE  Start(Request(op, "choose", 0, Choose(k), want))
  BY <1>1, <1>2, <1>3, SingleStarts DEF Choose
<1> QED BY <1>1, <1>3, AskKeepsInv

LEMMA ConvertOperations ==
  ASSUME EditInv, convert_to_nonsequential \/ convert_to_sequential PROVE EditInv'
<1>1. ASSUME NEW op, NEW want, NEW mode \in Modes, doc = "NCE"
      PROVE  Start(Request(op, "convert", 0, Convert(mode), want))
  <2>1. "convert" \in Acts \ {"check"} /\ 0 \in Nat /\ mode \in Fills \cup Modes
    BY DEF Acts
  <2> QED BY <1>1, <2>1, SingleStarts DEF Convert
<1>2. CASE convert_to_nonsequential
  <2>1. doc = "NCE" /\ "nonsequential" \in Modes
    BY <1>2 DEF convert_to_nonsequential, Modes
  <2>2. \/ Nothing("nsc_convert_to_nonsequential", TRUE)
        \/ Ask("nsc_convert_to_nonsequential", TRUE,
               Request("nsc_convert_to_nonsequential", "convert", 0, Convert("nonsequential"),
                       Converted("nonsequential", 0..MaxRows)))
    BY <1>2 DEF convert_to_nonsequential
  <2>3. Start(Request("nsc_convert_to_nonsequential", "convert", 0, Convert("nonsequential"),
                      Converted("nonsequential", 0..MaxRows)))
    BY <1>1, <2>1
  <2> QED BY <2>2, <2>3, NothingKeepsInv, AskKeepsInv
<1>3. CASE convert_to_sequential
  <2>1. doc = "NCE" /\ "sequential" \in Modes
    BY <1>3 DEF convert_to_sequential, Modes
  <2> DEFINE j == Request("nsc_convert_to_sequential", "convert", 0, Convert("sequential"),
                          Converted("sequential", {0}))
  <2>2. PICK first \in 0..(MaxRows + 1), last \in 0..(MaxRows + 1) :
          Ask("nsc_convert_to_sequential", Pure /\ n > 0 /\ first = 1 /\ last = n, j)
    BY <1>3 DEF convert_to_sequential
  <2>3. Start(j)
    BY <1>1, <2>1
  <2> HIDE DEF j
  <2> QED BY <2>2, <2>3, AskKeepsInv
<1> QED BY <1>2, <1>3

LEMMA OtherOperations ==
  ASSUME EditInv, \/ get_merit_function \/ get_configuration_operands
                  \/ get_surface \/ save_detector
  PROVE  EditInv'
<1>1. \A k \in 0..(MaxRows + 1) : k \in Nat
  BY EditorAssumption
<1>2. CASE get_merit_function \/ get_configuration_operands
  BY <1>1, <1>2, ReadKeepsInv DEF get_merit_function, get_configuration_operands
<1>3. CASE get_surface \/ save_detector
  BY <1>3, NothingKeepsInv DEF get_surface, save_detector
<1> QED BY <1>2, <1>3

-----------------------------------------------------------------------------
\* The number of configurations is changed, at once or one by one.
Configures == {e \in Edits : e.act = "configure" /\ e.at >= 1}
LEMMA ConfigureForm ==
  ASSUME NEW k \in Nat \ {0}
  PROVE  Configure(k) \in Seq(Configures) /\ Configure(k)[1] \in Configures
<1> DEFINE e == [act |-> "configure", at |-> k, fill |-> "old"]
<1>1. e \in Configures
  BY DEF Configures, Edits, Acts, Fills
<1> HIDE DEF e
<1>2. <<e>> \in Seq(Configures) /\ <<e>>[1] \in Configures
  BY <1>1
<1> QED BY <1>2 DEF Configure, Edit, e

LEMMA ConfigureStarts ==
  ASSUME EditInv, NEW op, NEW todo \in Seq(Configures), NEW want, doc = "MCE"
  PROVE  Start(Request(op, "size", 0, todo, want))
<1> DEFINE kind == "size"
           row == 0
           j == Request(op, kind, row, todo, want)
<1>1. kind \in JobKinds /\ row \in Nat /\ todo \in Seq(Edits)
  <2>1. Configures \subseteq Edits
    BY DEF Configures
  <2> QED BY <2>1, Wider DEF JobKinds
<1>2. \A i \in 1..Len(todo) : todo[i] \in Configures
  OBVIOUS
<1> HIDE DEF row, kind
<1>3. IsJob(j)
  BY <1>1, RequestIsJob
<1>4. /\ j.result = (IF todo = << >> THEN "ok" ELSE "none") /\ j.op = op /\ j.kind = "size"
      /\ j.todo = todo /\ j.final = "ok"
  BY RequestParts DEF kind
<1> HIDE DEF j
<1>5. \A i \in 1..Len(todo) : Allowed(j, todo[i])
  BY <1>2, <1>4 DEF Allowed, Configures
<1>6. RemovePlan(j) /\ AddStart(j) /\ SizePlan(j)
  BY <1>4 DEF RemovePlan, AddStart, SizePlan, Resizable
<1>7. CheckPlan(j, TRUE)
  <2>1. \A i \in 1..Len(todo) : todo[i].act # "check"
    BY <1>2 DEF Configures
  <2>2. /\ \A i \in 2..Len(todo) : i \in 1..Len(todo)
        /\ todo # << >> => 1 \in 1..Len(todo)
    BY <1>1
  <2> QED BY <1>4, <2>1, <2>2 DEF CheckPlan
<1>8. Start(j)
  BY <1>3, <1>4, <1>5, <1>6, <1>7 DEF Start, Single
<1> QED BY <1>8 DEF j, kind, row

LEMMA ConfigureOperations ==
  ASSUME EditInv, set_number_of_configurations \/ mce_add_config PROVE EditInv'
<1>1. p.configurations \in Nat \ {0}
  BY DEF EditInv, Formed, Lenses
<1>2. CASE set_number_of_configurations
  <2> PICK k \in 0..MaxSize : \E todo \in {Configure(k), OneByOne(k)} :
          Ask("set_number_of_configurations", k >= 1,
              Request("set_number_of_configurations", "size", 0, todo, Configured(k)))
    BY <1>2 DEF set_number_of_configurations
  <2>1. PICK todo \in {Configure(k), OneByOne(k)} :
          Ask("set_number_of_configurations", k >= 1,
              Request("set_number_of_configurations", "size", 0, todo, Configured(k)))
    OBVIOUS
  <2>2. doc = "MCE" /\ k \in Nat
    BY <1>2, EditorAssumption DEF set_number_of_configurations
  <2>3. ASSUME k >= 1 PROVE todo \in Seq(Configures)
    <3> DEFINE c == p.configurations
    <3>1. CASE todo = Configure(k)
      BY <2>2, <2>3, <3>1, ConfigureForm
    <3>2. CASE todo = OneByOne(k) /\ k > c
      <4>1. todo = [i \in 1..(k - c) |-> Configure(c + i)[1]]
        BY <3>2 DEF OneByOne
      <4>2. \A i \in 1..(k - c) : Configure(c + i)[1] \in Configures
        <5> TAKE i \in 1..(k - c)
        <5>1. c + i \in Nat \ {0}
          BY <1>1, <2>2
        <5> QED BY <5>1, ConfigureForm
      <4>3. k - c \in Nat
        BY <1>1, <2>2, <3>2
      <4> QED BY <4>1, <4>2, <4>3
    <3>3. CASE todo = OneByOne(k) /\ ~(k > c)
      <4>1. todo = [i \in 1..(c - k) |-> Configure(c - i)[1]]
        BY <3>3 DEF OneByOne
      <4>2. \A i \in 1..(c - k) : Configure(c - i)[1] \in Configures
        <5> TAKE i \in 1..(c - k)
        <5>1. c - i \in Nat \ {0}
          BY <1>1, <2>2, <2>3
        <5> QED BY <5>1, ConfigureForm
      <4>3. c - k \in Nat
        BY <1>1, <2>2, <3>3
      <4> QED BY <4>1, <4>2, <4>3
    <3> QED BY <2>1, <3>1, <3>2, <3>3
  <2> DEFINE accepted == k >= 1
             j == Request("set_number_of_configurations", "size", 0, todo, Configured(k))
  <2>4. accepted => Start(j)
    BY <2>2, <2>3, ConfigureStarts
  <2>5. Ask("set_number_of_configurations", accepted, j)
    BY <2>1
  <2> HIDE DEF accepted, j
  <2> QED BY <2>4, <2>5, AskKeepsInv
<1>3. CASE mce_add_config
  <2> DEFINE k == p.configurations + 1
             j == Request("mce_add_config", "size", 0, Configure(k), Configured(k))
  <2>1. doc = "MCE" /\ Ask("mce_add_config", TRUE, j)
    BY <1>3 DEF mce_add_config
  <2>2. k \in Nat \ {0}
    BY <1>1
  <2> HIDE DEF k
  <2>3. Start(j)
    BY <2>1, <2>2, ConfigureForm, ConfigureStarts
  <2> HIDE DEF j
  <2> QED BY <2>1, <2>3, AskKeepsInv
<1> QED BY <1>2, <1>3

\* The number of fields or wavelengths is changed, and then they are given their values.
ValueEdit(e) == \/ e.act = "check"
                \/ e.act = "write" /\ e.fill \in Fills
LEMMA ResizeStarts ==
  ASSUME EditInv, NEW op, NEW k \in Nat \ {0}, NEW rest \in Seq(Edits), NEW want, Resizable,
         \A i \in 1..Len(rest) :
           \/ ValueEdit(rest[i])
           \/ doc = "Wavelengths" /\ rest[i].act = "choose" /\ rest[i].at \in 1..k /\ i = Len(rest),
         op \in LateChecks \/ rest = << >>
  PROVE  Start([Request(op, "size", 0, Resize(k) \o rest, want) EXCEPT !.size = k])
<1> DEFINE sized == Resize(k)
           todo == sized \o rest
           kind == "size"
           row == 0
           r == Request(op, kind, row, todo, want)
           j == WithSize(r, k)
<1>1. /\ sized \in Seq(Edits) /\ Len(sized) = 2
      /\ sized[1].act = "shrink" /\ sized[1].at = k
      /\ sized[2].act = "grow" /\ sized[2].at = k
  <2> DEFINE a == Edit("shrink", k, "old")
             b == Edit("grow", k, "new")
  <2>1. a \in Seq(Edits) /\ Len(a) = 1 /\ a[1].act = "shrink" /\ a[1].at = k
    BY EditForm DEF Acts, Fills
  <2>2. b \in Seq(Edits) /\ Len(b) = 1 /\ b[1].act = "grow" /\ b[1].at = k
    BY EditForm DEF Acts, Fills
  <2>3. sized = a \o b
    BY DEF Resize
  <2> HIDE DEF a, b, sized
  <2>4. sized \in Seq(Edits) /\ Len(sized) = 2 /\ sized[1] = a[1] /\ sized[2] = b[1]
    <3>1. /\ a \o b \in Seq(Edits) /\ Len(a \o b) = Len(a) + Len(b)
          /\ \A i \in 1..Len(a) : (a \o b)[i] = a[i]
          /\ \A i \in (Len(a) + 1)..(Len(a) + Len(b)) : (a \o b)[i] = b[i - Len(a)]
      <4>1. a \in Seq(Edits) /\ b \in Seq(Edits)
        BY <2>1, <2>2
      <4> QED BY <4>1, ConcatParts, Zenon
    <3> QED BY <2>1, <2>2, <2>3, <3>1
  <2> QED BY <2>1, <2>2, <2>4
<1> HIDE DEF sized
<1>2. /\ todo \in Seq(Edits) /\ Len(todo) = 2 + Len(rest) /\ Len(rest) \in Nat
      /\ todo[1] = sized[1] /\ todo[2] = sized[2]
      /\ \A i \in 3..Len(todo) : todo[i] = rest[i - 2] /\ i - 2 \in 1..Len(rest)
  <2>1. /\ todo \in Seq(Edits) /\ Len(todo) = Len(sized) + Len(rest)
        /\ \A i \in 1..Len(sized) : todo[i] = sized[i]
        /\ \A i \in (Len(sized) + 1)..(Len(sized) + Len(rest)) : todo[i] = rest[i - Len(sized)]
    <3>1. sized \in Seq(Edits) /\ rest \in Seq(Edits)
      BY <1>1
    <3> QED BY <3>1, ConcatParts, Zenon
  <2>2. Len(rest) \in Nat
    OBVIOUS
  <2> QED BY <1>1, <2>1, <2>2
<1>3. kind \in JobKinds /\ row \in Nat
  BY DEF JobKinds
<1> HIDE DEF todo, row, kind
<1>4. IsJob(r)
  BY <1>2, <1>3, RequestIsJob
<1>5. /\ r.result = (IF todo = << >> THEN "ok" ELSE "none") /\ r.op = op /\ r.kind = "size"
      /\ r.todo = todo /\ r.final = "ok"
  BY RequestParts DEF kind
<1> HIDE DEF r
<1>6. /\ IsJob(j) /\ j.result = r.result /\ j.op = r.op /\ j.kind = r.kind
      /\ j.size = k /\ j.todo = r.todo /\ j.final = r.final
  BY <1>4, SizeChanged
<1> HIDE DEF j
<1>7. \A i \in 1..Len(todo) : i = 1 \/ i = 2 \/ i \in 3..Len(todo)
  BY <1>2
<1>8. \A i \in 1..Len(todo) : Allowed(j, todo[i])
  <2> TAKE i \in 1..Len(todo)
  <2>1. CASE i \in {1, 2}
    BY <1>1, <1>2, <1>5, <1>6, <2>1 DEF Allowed
  <2>2. CASE i \in 3..Len(todo)
    BY <1>2, <1>5, <1>6, <2>2 DEF Allowed, ValueEdit
  <2> QED BY <1>7, <2>1, <2>2
<1>9. SizePlan(j)
  <2>1. \A i \in 1..Len(todo) : /\ todo[i].act = "choose" => i = Len(todo)
                                /\ todo[i].act = "grow" => i <= 2
    <3> TAKE i \in 1..Len(todo)
    <3>1. CASE i \in {1, 2}
      <4>1. todo[i].act # "choose" /\ i <= 2
        BY <1>1, <1>2, <3>1
      <4> QED BY <4>1
    <3>2. CASE i \in 3..Len(todo)
      <4> DEFINE place == i - 2
      <4>1. place \in 1..Len(rest) /\ todo[i] = rest[place] /\ place + 2 = i
        BY <1>2, <3>2
      <4> HIDE DEF place
      <4>2. ValueEdit(rest[place]) \/ (rest[place].act = "choose" /\ place = Len(rest))
        BY <4>1
      <4> QED BY <1>2, <4>1, <4>2 DEF ValueEdit
    <3> QED BY <1>7, <3>1, <3>2
  <2>2. 2 \in 1..Len(todo) /\ todo[2].act = "grow"
    BY <1>1, <1>2
  <2> QED BY <1>5, <1>6, <2>1, <2>2 DEF SizePlan
<1>10. CheckPlan(j, TRUE)
  <2> SUFFICES ASSUME op \notin LateChecks PROVE CheckPlan(j, TRUE)
    BY <1>5, <1>6 DEF CheckPlan
  <2>1. Len(rest) = 0
    OBVIOUS
  <2>2. Len(todo) = 2
    BY <1>2, <2>1
  <2>3. \A i \in 2..Len(todo) : todo[i].act # "check"
    BY <1>1, <1>2, <2>2
  <2> QED BY <1>1, <1>2, <1>5, <1>6, <2>3 DEF CheckPlan
<1>11. Start(j)
  BY <1>5, <1>6, <1>8, <1>9, <1>10 DEF Start, AddStart, RemovePlan, Single
<1> QED BY <1>11 DEF j, r, todo, sized, kind, row, WithSize

\* Each value takes the same four edits.
LEMMA FourEdits ==
  ASSUME NEW row \in Nat
  PROVE  /\ ItemByItem(row) \in Seq(Edits) /\ Len(ItemByItem(row)) = 4
         /\ \A i \in 1..4 : ValueEdit(ItemByItem(row)[i])
<1> DEFINE a == Check
           b == Write(row, "part")
           c == Write(row, "new")
           s == ItemByItem(row)
<1>1. /\ a \in Seq(Edits) /\ b \in Seq(Edits) /\ c \in Seq(Edits)
      /\ Len(a) = 1 /\ Len(b) = 1 /\ Len(c) = 1
  <2>1. "part" \in Fills /\ "new" \in Fills
    BY DEF Fills
  <2> QED BY <2>1, CheckForm, WriteForm, Wider, EditsAreEdits
<1>2. s = ((a \o b) \o a) \o c
  BY DEF ItemByItem, Retype, Whole
<1> HIDE DEF a, b, c
<1>3. s \in Seq(Edited({row}))
  BY RowEdits
<1> HIDE DEF s
<1>4. Len(s) = 4 /\ s \in Seq(Edits)
  <2> DEFINE x == a \o b
             y == x \o a
             z == y \o c
  <2>1. a \in Seq(Edits) /\ b \in Seq(Edits) /\ c \in Seq(Edits)
    BY <1>1
  <2>2. x \in Seq(Edits) /\ Len(x) = Len(a) + Len(b)
    BY <2>1, ConcatParts, Zenon
  <2> HIDE DEF x
  <2>3. y \in Seq(Edits) /\ Len(y) = Len(x) + Len(a)
    BY <2>1, <2>2, ConcatParts, Zenon
  <2> HIDE DEF y
  <2>4. z \in Seq(Edits) /\ Len(z) = Len(y) + Len(c)
    BY <2>1, <2>3, ConcatParts, Zenon
  <2>5. s = z
    BY <1>2 DEF x, y
  <2> HIDE DEF z
  <2> QED BY <1>1, <2>2, <2>3, <2>4, <2>5
<1>5. \A i \in 1..4 : s[i] \in Edited({row})
  <2>1. \A i \in 1..Len(s) : s[i] \in Edited({row})
    BY <1>3
  <2> QED BY <1>4, <2>1
<1>6. ASSUME NEW e \in Edited({row}) PROVE ValueEdit(e)
  BY DEF Edited, WritesTo, Checks, ValueEdit
<1>7. \A i \in 1..4 : ValueEdit(s[i])
  BY <1>5, <1>6
<1> QED BY <1>4, <1>7 DEF s

LEMMA ValueEdits ==
  ASSUME NEW k \in Nat
  PROVE  /\ Values(k) \in Seq(Edits)
         /\ \A i \in 1..Len(Values(k)) : ValueEdit(Values(k)[i])
<1> DEFINE Edit4(i) == ItemByItem((i + 3) \div 4)[((i - 1) % 4) + 1]
<1>1. ASSUME NEW i \in 1..(4 * k) PROVE Edit4(i) \in Edits /\ ValueEdit(Edit4(i))
  <2> DEFINE row == (i + 3) \div 4
             which == ((i - 1) % 4) + 1
  <2>1. row \in Nat /\ which \in 1..4
    OBVIOUS
  <2> HIDE DEF row, which
  <2>2. ItemByItem(row)[which] \in Edits /\ ValueEdit(ItemByItem(row)[which])
    BY <2>1, FourEdits
  <2> QED BY <2>2 DEF row, which
<1>2. Values(k) = [i \in 1..(4 * k) |-> Edit4(i)] /\ 4 * k \in Nat
  BY DEF Values
<1> HIDE DEF Edit4
<1> QED BY <1>1, <1>2

LEMMA ResizeToKeepsInv ==
  ASSUME EditInv, NEW op, NEW k \in Nat, NEW accepted, NEW rest \in Seq(Edits), NEW want,
         Resizable, op \in LateChecks \/ rest = << >>,
         (k >= 1 /\ accepted) =>
           \A i \in 1..Len(rest) :
             \/ ValueEdit(rest[i])
             \/ doc = "Wavelengths" /\ rest[i].act = "choose" /\ rest[i].at \in 1..k /\ i = Len(rest),
         ResizeTo(op, k, accepted, rest, want)
  PROVE  EditInv'
<1> DEFINE may == k >= 1 /\ accepted
           j == [Request(op, "size", 0, Resize(k) \o rest, want) EXCEPT !.size = k]
<1>1. ASSUME may PROVE Start(j)
  <2>1. k \in Nat \ {0}
    BY <1>1
  <2>2. \A i \in 1..Len(rest) :
          \/ ValueEdit(rest[i])
          \/ doc = "Wavelengths" /\ rest[i].act = "choose" /\ rest[i].at \in 1..k /\ i = Len(rest)
    BY <1>1
  <2> QED BY <2>1, <2>2, ResizeStarts
<1>2. Ask(op, may, j)
  BY DEF ResizeTo
<1> HIDE DEF may, j
<1> QED BY <1>1, <1>2, AskKeepsInv

LEMMA ResizeOperations ==
  ASSUME EditInv, \/ set_number_of_fields \/ set_fields
                  \/ set_number_of_wavelengths \/ set_wavelengths
  PROVE  EditInv'
<1>1. \A k \in 0..MaxSize : k \in Nat
  BY EditorAssumption
<1>2. ASSUME NEW op, NEW k \in 0..MaxSize, NEW want, Resizable,
             ResizeTo(op, k, TRUE, << >>, want)
      PROVE  EditInv'
  <2> DEFINE rest == << >>
             accepted == k >= 1 /\ TRUE
             j == [Request(op, "size", 0, Resize(k) \o rest, want) EXCEPT !.size = k]
  <2>1. rest \in Seq(Edits) /\ rest = << >> /\ \A i \in 1..Len(rest) : ValueEdit(rest[i])
    OBVIOUS
  <2>2. Ask(op, accepted, j)
    BY <1>2 DEF ResizeTo
  <2>3. accepted => k \in Nat \ {0}
    BY <1>1
  <2> HIDE DEF rest, accepted
  <2>4. accepted => Start(j)
    BY <1>2, <2>1, <2>3, ResizeStarts
  <2> HIDE DEF j
  <2> QED BY <2>2, <2>4, AskKeepsInv
<1>3. CASE set_number_of_fields \/ set_number_of_wavelengths
  <2>1. PICK k \in 0..MaxSize :
          \/ ResizeTo("set_number_of_fields", k, TRUE, << >>, Sized(Kept(k)))
          \/ ResizeTo("set_number_of_wavelengths", k, TRUE, << >>, Sized(Kept(k)))
    BY <1>3 DEF set_number_of_fields, set_number_of_wavelengths
  <2>2. Resizable
    BY <1>3 DEF set_number_of_fields, set_number_of_wavelengths, Resizable
  <2> QED BY <1>2, <2>1, <2>2
<1>4. CASE set_fields
  <2>1. PICK k \in 0..MaxSize :
          doc = "Fields" /\ ResizeTo("set_fields", k, TRUE, Values(k), Sized(News(k)))
    BY <1>4 DEF set_fields
  <2>2. Resizable /\ "set_fields" \in LateChecks
    BY <2>1 DEF Resizable, LateChecks
  <2>3. /\ Values(k) \in Seq(Edits) /\ k \in Nat
        /\ \A i \in 1..Len(Values(k)) : ValueEdit(Values(k)[i])
    BY <1>1, ValueEdits
  <2> QED BY <2>1, <2>2, <2>3, ResizeToKeepsInv
<1>5. CASE set_wavelengths
  <2>1. PICK k \in 0..MaxSize, primary \in 0..(MaxSize + 1) :
          /\ doc = "Wavelengths"
          /\ ResizeTo("set_wavelengths", k, PrimaryAccepted(primary, k),
                      Values(k) \o Choose(primary),
                      {[p EXCEPT !.rows = News(k), !.chosen = primary]})
    BY <1>5 DEF set_wavelengths
  <2> DEFINE a == Values(k)
             b == Choose(primary)
             rest == a \o b
             want == {[p EXCEPT !.rows = News(k), !.chosen = primary]}
             accepted == PrimaryAccepted(primary, k)
             op == "set_wavelengths"
  <2>2. Resizable /\ op \in LateChecks /\ k \in Nat /\ primary \in Nat
    BY <1>1, <2>1, EditorAssumption DEF Resizable, LateChecks
  <2>3. /\ a \in Seq(Edits) /\ \A i \in 1..Len(a) : ValueEdit(a[i])
    BY <2>2, ValueEdits
  <2>4. /\ b \in Seq(Edits) /\ Len(b) = 1 /\ b[1].act = "choose" /\ b[1].at = primary
    <3>1. "choose" \in Acts /\ "old" \in Fills \cup Modes
      BY DEF Acts, Fills
    <3> QED BY <2>2, <3>1, EditForm DEF Choose
  <2>5. accepted => primary \in 1..k
    BY DEF PrimaryAccepted
  <2>6. ResizeTo(op, k, accepted, rest, want)
    BY <2>1
  <2> HIDE DEF a, b, want, accepted, op
  <2>7. /\ rest \in Seq(Edits) /\ Len(rest) = Len(a) + 1 /\ Len(a) \in Nat
        /\ \A i \in 1..Len(a) : rest[i] = a[i]
        /\ rest[Len(rest)] = b[1]
    <3>1. /\ rest \in Seq(Edits) /\ Len(rest) = Len(a) + Len(b)
          /\ \A i \in 1..Len(a) : rest[i] = a[i]
          /\ \A i \in (Len(a) + 1)..(Len(a) + Len(b)) : rest[i] = b[i - Len(a)]
      <4>1. a \in Seq(Edits) /\ b \in Seq(Edits)
        BY <2>3, <2>4
      <4> QED BY <4>1, ConcatParts, Zenon
    <3>2. Len(a) \in Nat
      BY <2>3
    <3> HIDE DEF rest
    <3> QED BY <2>4, <3>1, <3>2
  <2> HIDE DEF rest
  <2>8. ASSUME accepted, NEW i \in 1..Len(rest)
        PROVE  \/ ValueEdit(rest[i])
               \/ doc = "Wavelengths" /\ rest[i].act = "choose" /\ rest[i].at \in 1..k
                    /\ i = Len(rest)
    <3>1. i \in 1..Len(a) \/ i = Len(rest)
      BY <2>7
    <3> QED BY <2>1, <2>3, <2>4, <2>5, <2>7, <2>8, <3>1
  <2>9. (k >= 1 /\ accepted) =>
          \A i \in 1..Len(rest) :
            \/ ValueEdit(rest[i])
            \/ doc = "Wavelengths" /\ rest[i].act = "choose" /\ rest[i].at \in 1..k
                 /\ i = Len(rest)
    BY <2>8
  <2> QED BY <2>2, <2>6, <2>7, <2>9, ResizeToKeepsInv
<1> QED BY <1>3, <1>4, <1>5

-----------------------------------------------------------------------------
LEMMA OperationKeepsInv == ASSUME EditInv, Operation PROVE EditInv'
BY LoadKeepsInv, CurrentKeepsInv, ConvertOperations, OtherOperations, ConfigureOperations,
   ResizeOperations, SurfaceOperations, ObjectOperations, OperandValueKeepsInv,
   SettingsOperations, AddOperations, AddOperandKeepsInv, InsertOperations, RemoveOperations
DEF Operation

LEMMA StepEditInv == EditInv /\ [Next]_vars => EditInv'
<1> SUFFICES ASSUME EditInv, [Next]_vars PROVE EditInv'
  OBVIOUS
<1>1. CASE UNCHANGED <<doc, p, job, before>>
  <2>1. UNCHANGED <<doc, p, job, before>>
    BY <1>1
  <2>2. Formed' /\ LocalSoFar'
    BY <2>1 DEF EditInv, Formed, LocalSoFar, OnlyItsRows, Ended, n
  <2>3. Plan(job, p = before)'
    BY <2>1 DEF EditInv, Plan, AddPlan, RemovePlan, SizePlan, CheckPlan, Allowed, Resizable, n
  <2>4. (RefusedRows /\ RangeIsRead /\ EndsStay /\ SelectionExists)'
    BY <2>1 DEF EditInv, RefusedRows, RangeIsRead, EndsStay, SelectionExists, n
  <2> QED BY <2>2, <2>3, <2>4 DEF EditInv
<1>2. CASE EditNext
  BY <1>1, <1>2, OperationKeepsInv, EditStepKeepsInv, EditMissedKeepsInv, EditRaisesKeepsInv,
     ReplyKeepsInv
  DEF EditNext, SetFieldType
<1> QED BY <1>1, <1>2 DEF Next, EditorStep, CatalogStep, vars, editVars

LEMMA SpecEditInv == Spec => []EditInv
<1>1. Init => EditInv
  BY InitEditInv DEF Init
<1> QED BY <1>1, StepEditInv, PTL DEF Spec

-----------------------------------------------------------------------------
\* What a call that was missed, and the type of the fields, have to do with the operation.
Flags ==
  /\ missed \in BOOLEAN /\ fieldType \in {"old", "due", "new"}
  /\ missed => job.kind \notin {"none", "read"}
  /\ job.kind \in Single /\ (missed \/ job.todo # << >>) => p = before
  /\ job.kind \in Single /\ missed => job.todo = << >>
  /\ fieldType # "old" => job.op = "set_fields"
  /\ fieldType = "due" => job.todo # << >>
  /\ job.op = "set_fields" /\ fieldType = "old" => job.result \in {"refused", "error"}

\* An operation begins; set_fields() with something to do, or not at all.
Began ==
  /\ Idle /\ before' = p /\ UNCHANGED <<doc, p, missed>>
  /\ fieldType' = IF job'.op = "set_fields" /\ job'.todo # << >> THEN "due" ELSE "old"
  /\ job'.op = "set_fields" => job'.todo # << >> \/ job'.result = "refused"
LEMMA AskBegins ==
  ASSUME NEW op, NEW accepted, NEW j, Ask(op, accepted, j), j.op = op,
         op # "set_fields" \/ j.todo # << >>
  PROVE  Began
BY DEF Ask, Began, NoJob

LEMMA RowsBegin ==
  ASSUME NEW op, op # "set_fields", NEW row, NEW accepted, NEW todo,
         \/ WriteRow(op, row, accepted, todo) \/ RemoveRow(op, row, accepted)
         \/ AddRow(op, accepted, row) \/ InsertSurface(op, row, todo)
         \/ OnSurface(op, row, todo) \/ OnObject(op, row, todo)
         \/ ReadRows(op, row, todo) \/ Nothing(op, accepted) \/ Assign(op, row, todo)
  PROVE  Began
<1> DEFINE Begun == \E a, j : Ask(op, a, j) /\ j.op = op
<1>1. WriteRow(op, row, accepted, todo) => Begun
  BY DEF WriteRow, Request
<1>2. RemoveRow(op, row, accepted) => Begun
  BY DEF RemoveRow, Request
<1>3. AddRow(op, accepted, row) => Begun
  BY DEF AddRow, Added, Request
<1>4. InsertSurface(op, row, todo) => Begun
  BY DEF InsertSurface, Added, Request
<1>5. ASSUME ReadRows(op, row, todo) PROVE Begun
  <2> DEFINE j == [Request(op, "read", row, << >>, {p}) EXCEPT !.size = todo,
                                                               !.rows = RowRange(row, todo, n)]
  <2>1. Ask(op, RangeAccepted(row, todo, n), j)
    BY <1>5 DEF ReadRows
  <2>2. j.op = op
    BY DEF Request
  <2> QED BY <2>1, <2>2
<1>6. Nothing(op, accepted) => Begun
  BY DEF Nothing, Request
<1>7. ASSUME Assign(op, row, todo) PROVE Begun
  <2> DEFINE want == {[p EXCEPT !.rows = [i \in DOMAIN @ |-> IF i \in row THEN New ELSE @[i]]]}
             j == [Request(op, "write", 0, todo, want) EXCEPT !.rows = row]
  <2>1. Ask(op, row # {}, j)
    BY <1>7 DEF Assign
  <2>2. j.op = op
    BY DEF Request
  <2> QED BY <2>1, <2>2
<1>8. OnSurface(op, row, todo) \/ OnObject(op, row, todo) => Begun
  BY DEF OnSurface, OnObject, WriteRow, Request
<1>9. Begun
  BY <1>1, <1>2, <1>3, <1>4, <1>5, <1>6, <1>7, <1>8
<1> QED BY <1>9, AskBegins

LEMMA ResizeBegins ==
  ASSUME NEW op, NEW k \in Nat, NEW accepted, NEW todo \in Seq(Edits), NEW want,
         ResizeTo(op, k, accepted, todo, want)
  PROVE  Began
<1> DEFINE loops == Resize(k)
           j == [Request(op, "size", 0, loops \o todo, want) EXCEPT !.size = k]
<1>1. Ask(op, k >= 1 /\ accepted, j)
  BY DEF ResizeTo
<1>2. j.op = op /\ j.todo = loops \o todo
  BY DEF Request
<1>3. loops \in Seq(Edits) /\ Len(loops) = 2
  BY DEF Resize, Edit, Edits, Acts, Fills
<1> HIDE DEF j, loops
<1>4. loops \o todo # << >>
  BY <1>3
<1> QED BY <1>1, <1>2, <1>4, AskBegins

LEMMA OperationBegins == ASSUME Operation PROVE Began
<1>1. CASE \/ get_merit_function \/ add_operand \/ remove_operand
           \/ get_configuration_operands \/ add_configuration_operand
           \/ delete_configuration_operand \/ set_configuration_operand_value
  BY <1>1, RowsBegin DEF get_merit_function, add_operand, remove_operand,
     get_configuration_operands, add_configuration_operand, delete_configuration_operand,
     set_configuration_operand_value
<1>2. CASE \/ insert_surface \/ add_surface \/ remove_surface \/ get_surface
           \/ add_object \/ insert_object \/ remove_object \/ save_detector
  BY <1>2, RowsBegin DEF insert_surface, add_surface, remove_surface, get_surface,
     add_object, insert_object, remove_object, save_detector
<1>3. CASE \/ set_surface \/ set_surface_common \/ set_surface_variable \/ set_surface_type
           \/ set_surface_parameter \/ set_surface_solve \/ set_aspheric_surface
           \/ set_extra_data
  BY <1>3, RowsBegin DEF set_surface, set_surface_common, set_surface_variable,
     set_surface_type, set_surface_parameter, set_surface_solve, set_aspheric_surface,
     set_extra_data
<1>4. CASE \/ set_object \/ set_object_parameter \/ set_source_spectrum \/ load_detector
  BY <1>4, RowsBegin DEF set_object, set_object_parameter, set_source_spectrum, load_detector
<1>5. CASE \/ set_afocal_mode \/ set_aperture \/ set_apodization
           \/ set_clear_semi_diameter_margin \/ set_ray_aiming \/ set_mtf_units
           \/ set_system_units \/ set_title_notes \/ set_polarization
  BY <1>5, RowsBegin DEF set_afocal_mode, set_aperture, set_apodization,
     set_clear_semi_diameter_margin, set_ray_aiming, set_mtf_units, set_system_units,
     set_title_notes, set_polarization
<1>6. CASE \/ set_number_of_fields \/ set_fields \/ set_number_of_wavelengths
           \/ set_wavelengths
  <2>1. \A k \in 0..MaxSize : k \in Nat
    BY EditorAssumption
  <2>2. \A primary \in 0..(MaxSize + 1) : primary \in Nat
    BY EditorAssumption
  <2> DEFINE none == << >>
  <2>3. none \in Seq(Edits)
    OBVIOUS
  <2>4. CASE set_number_of_fields \/ set_number_of_wavelengths
    <3>1. PICK k \in 0..MaxSize, op \in {"set_number_of_fields", "set_number_of_wavelengths"} :
            ResizeTo(op, k, TRUE, none, Sized(Kept(k)))
      BY <2>4 DEF set_number_of_fields, set_number_of_wavelengths
    <3> HIDE DEF none
    <3> QED BY <2>1, <2>3, <3>1, ResizeBegins
  <2>5. CASE set_fields
    <3>1. PICK k \in 0..MaxSize : ResizeTo("set_fields", k, TRUE, Values(k), Sized(News(k)))
      BY <2>5 DEF set_fields
    <3>2. k \in Nat /\ Values(k) \in Seq(Edits)
      BY <2>1, ValueEdits
    <3> QED BY <3>1, <3>2, ResizeBegins
  <2>6. CASE set_wavelengths
    <3>1. PICK k \in 0..MaxSize, primary \in 0..(MaxSize + 1) :
            ResizeTo("set_wavelengths", k, PrimaryAccepted(primary, k),
                     Values(k) \o Choose(primary),
                     {[p EXCEPT !.rows = News(k), !.chosen = primary]})
      BY <2>6 DEF set_wavelengths
    <3> DEFINE a == Values(k)
               b == Choose(primary)
               want == {[p EXCEPT !.rows = News(k), !.chosen = primary]}
    <3>2. a \in Seq(Edits) /\ b \in Seq(Edits)
      <4>1. "choose" \in Acts /\ "old" \in Fills \cup Modes
        BY DEF Acts, Fills
      <4> QED BY <2>1, <2>2, <4>1, ValueEdits, EditForm DEF Choose
    <3>3. ResizeTo("set_wavelengths", k, PrimaryAccepted(primary, k), a \o b, want)
      BY <3>1
    <3> HIDE DEF a, b, want
    <3>4. k \in Nat /\ a \o b \in Seq(Edits)
      BY <2>1, <3>2
    <3> QED BY <3>3, <3>4, ResizeBegins
  <2> QED BY <1>6, <2>4, <2>5, <2>6
<1>7. CASE \/ load_merit_function_file \/ set_number_of_configurations \/ mce_add_config
           \/ set_current_configuration \/ mce_add_operand
  <2>1. ASSUME NEW op, op # "set_fields", NEW accepted, NEW kind, NEW todo, NEW want,
               Ask(op, accepted, Request(op, kind, 0, todo, want))
        PROVE  Began
    <3>1. Request(op, kind, 0, todo, want).op = op
      BY DEF Request
    <3> QED BY <2>1, <3>1, AskBegins
  <2>2. CASE load_merit_function_file
    BY <2>1, <2>2 DEF load_merit_function_file
  <2>3. CASE set_number_of_configurations
    BY <2>1, <2>3 DEF set_number_of_configurations
  <2>4. CASE mce_add_config
    BY <2>1, <2>4 DEF mce_add_config
  <2>5. CASE set_current_configuration
    BY <2>1, <2>5 DEF set_current_configuration
  <2>6. CASE mce_add_operand
    <3>1. PICK todo, final :
            Ask("mce_add_operand", TRUE, [Added("mce_add_operand", 0, todo) EXCEPT !.final = final])
      BY <2>6 DEF mce_add_operand
    <3> DEFINE j == [Added("mce_add_operand", 0, todo) EXCEPT !.final = final]
    <3>2. j.op = "mce_add_operand"
      BY DEF Added, Request
    <3>3. Ask("mce_add_operand", TRUE, j)
      BY <3>1
    <3> HIDE DEF j
    <3> QED BY <3>2, <3>3, AskBegins
  <2> QED BY <1>7, <2>2, <2>3, <2>4, <2>5, <2>6
<1>8. CASE convert_to_nonsequential \/ convert_to_sequential
  <2>1. \/ Nothing("nsc_convert_to_nonsequential", TRUE)
        \/ \E op, accepted, j : Ask(op, accepted, j) /\ j.op = op /\ op # "set_fields"
    BY <1>8 DEF convert_to_nonsequential, convert_to_sequential, Request
  <2> QED BY <2>1, AskBegins, RowsBegin
<1> QED BY <1>1, <1>2, <1>3, <1>4, <1>5, <1>6, <1>7, <1>8 DEF Operation

\* An operation of a single edit has none left.
LEMMA SingleIsOver ==
  ASSUME EditInv, job.todo # << >>, Moves, job.kind \in Single
  PROVE  job'.todo = << >>
<1>1. Len(job'.todo) = 0
  BY FirstEdit, NextEdit DEF EditInv, Plan
<1> QED BY <1>1, NextEdit, EmptySeq

LEMMA StepFlags == EditInv /\ Flags /\ [Next]_vars => Flags'
<1> SUFFICES ASSUME EditInv, Flags, [Next]_vars PROVE Flags'
  OBVIOUS
<1> USE DEF Flags
<1>1. CASE UNCHANGED editVars
  BY <1>1 DEF editVars
<1>2. CASE Operation
  <2>1. Began /\ job = NoJob
    BY <1>2, OperationBegins DEF Began, Idle
  <2>2. missed = FALSE /\ p' = before'
    BY <2>1, NoJobParts DEF Began
  <2>3. job'.todo = << >> => job'.op # "set_fields" \/ job'.result = "refused"
    BY <2>1 DEF Began
  <2> QED BY <2>1, <2>2, <2>3 DEF Began
<1>3. CASE SetFieldType
  <2>1. job.op = "set_fields" /\ job.todo # << >>
    BY <1>3 DEF SetFieldType
  <2> QED BY <1>3, <2>1 DEF SetFieldType
<1>4. CASE EditStep
  <2>1. /\ job.todo # << >> /\ fieldType # "due"
        /\ UNCHANGED <<doc, before, missed, fieldType>>
        /\ job.result = "none" /\ Allowed(job, Head(job.todo))
    BY <1>4, FirstEdit DEF EditStep
  <2>2. CASE Looping(Head(job.todo))
    <3>1. job' = job /\ job.kind \notin Single
      BY <1>4, <2>1, <2>2 DEF EditStep, Looping, Allowed, Single
    <3> QED BY <2>1, <3>1
  <2>3. CASE ~Looping(Head(job.todo))
    <3>1. Moves
      BY <1>4, <2>1, <2>3 DEF EditStep, GoesOn, Moves
    <3>2. job'.kind = job.kind /\ job'.op = job.op
      BY <2>1, <3>1, NextEdit
    <3>3. job.kind \in Single => ~missed /\ job'.todo = << >>
      BY <2>1, <3>1, SingleIsOver
    <3> QED BY <2>1, <3>2, <3>3
  <2> QED BY <2>2, <2>3
<1>5. CASE EditMissed
  <2>1. /\ job.todo # << >> /\ fieldType # "due" /\ Moves /\ missed' = TRUE
        /\ UNCHANGED <<p, before, fieldType>> /\ job.result = "none"
        /\ job.kind \notin {"none", "read"}
    BY <1>5, FirstEdit DEF EditMissed, GoesOn, Moves
  <2>2. job'.kind = job.kind /\ job'.op = job.op
    BY <2>1, NextEdit
  <2>3. job.kind \in Single => job'.todo = << >>
    BY <2>1, SingleIsOver
  <2> QED BY <2>1, <2>2, <2>3
<1>6. CASE EditRaises
  <2>1. /\ job.todo # << >> /\ UNCHANGED <<p, before, missed>>
        /\ fieldType' = IF fieldType = "due" THEN "old" ELSE fieldType
        /\ job'.kind = job.kind /\ job'.op = job.op /\ job'.todo = << >>
        /\ job'.result \in {"refused", "error"}
    BY <1>6 DEF EditRaises, EditInv, Formed, IsJob
  <2> QED BY <2>1
<1>7. CASE Reply
  <2>1. /\ job'.kind = "none" /\ job'.op = "none" /\ missed' = FALSE /\ fieldType' = "old"
    BY <1>7, NoJobParts DEF Reply
  <2> QED BY <2>1 DEF Single
<1> QED BY <1>1, <1>2, <1>3, <1>4, <1>5, <1>6, <1>7
        DEF Next, EditorStep, EditNext, CatalogStep, vars

LEMMA SpecFlags == Spec => []Flags
<1>1. Init => Flags
  BY NoJobParts DEF Init, EditInit, Flags, Single
<1> QED BY <1>1, StepFlags, SpecEditInv, PTL DEF Spec

\* A document has only rows of its kinds, there is always a configuration and a selected
\* one, and an operation that has ended makes no edit any more (mce_mfe.py:228).
THEOREM EditTypeCorrect == Spec => []EditTypeOK
<1>1. EditInv /\ Flags => EditTypeOK
  BY DEF EditInv, Formed, Lenses, Rows, Modes, IsJob, JobKinds, Flags, EditTypeOK
<1> QED BY <1>1, SpecEditInv, SpecFlags, PTL

\* Whatever is inserted and removed, and whichever edit OpticStudio refuses, the first
\* surface is the object and the last one the image (settings_lde.py:462 and 471).
THEOREM EndsStayInPlace == Spec => []EndsStay
<1>1. EditInv => EndsStay
  BY DEF EditInv
<1> QED BY <1>1, SpecEditInv, PTL

\* The primary wavelength and the current configuration exist, also half-way through a
\* change of their number (settings_lde.py:377, mce_mfe.py:353).
THEOREM SelectionAlwaysExists == Spec => []SelectionExists
<1>1. EditInv => SelectionExists
  BY DEF EditInv
<1> QED BY <1>1, SpecEditInv, PTL

\* Wherever an operation fails, or OpticStudio does nothing and the code does not look,
\* it leaves at most its own rows half done, and set_fields() the type of the fields: for
\* any number of edits before and after (mce_mfe.py:228, settings_lde.py:326).
THEOREM FailsLocally == Spec => []FailureIsLocal
<1>1. EditInv /\ Flags => FailureIsLocal
  <2> SUFFICES ASSUME EditInv, Flags,
                      \/ job.result \in {"refused", "error"}
                      \/ job.result = "ok" /\ missed
               PROVE  OnlyItsRows /\ (fieldType = "new" => job.op = "set_fields")
    BY DEF FailureIsLocal
  <2>1. job.result = "ok" /\ job.kind \in Single => p = before
    BY DEF Flags
  <2>2. OnlyItsRows
    BY <2>1 DEF EditInv, LocalSoFar, OnlyItsRows
  <2> QED BY <2>2 DEF Flags
<1> QED BY <1>1, SpecEditInv, SpecFlags, PTL

\* All but the operations in LateChecks refuse their arguments before they change
\* anything (mce_mfe.py:534, nsc.py:158, settings_lde.py:115, 334, 386, 621 and 695).
THEOREM RefusesFirst == Spec => []RefusedUnchanged
<1>1. EditInv /\ Flags => RefusedUnchanged
  BY DEF EditInv, RefusedRows, Flags, RefusedUnchanged, LateChecks
<1> QED BY <1>1, SpecEditInv, SpecFlags, PTL

\* What is reported of a range of rows are the rows of that range (mce_mfe.py:115).
THEOREM ReadsItsRange == Spec => []RangeIsRead
<1>1. EditInv => RangeIsRead
  BY DEF EditInv
<1> QED BY <1>1, SpecEditInv, PTL

-----------------------------------------------------------------------------
\* SuccessIsWhole says how an operation ends; WholeInv what it has done and has still to do
\* on its way there, for an operation that OpticStudio does not stop.

\* The last value of a row: what is half done to a row is completed later.
Completes(e, row) == e.act = "write" /\ e.at = row /\ e.fill = "new"
Pending(j, row) == \E i \in 1..Len(j.todo) : Completes(j.todo[i], row)
Mended(j) == \A i \in 1..Len(j.todo) :
  j.todo[i].act = "write" => \E k \in i..Len(j.todo) : Completes(j.todo[k], j.todo[i].at)
Filling(j, row) == p.rows[row].fill = "new" \/ Pending(j, row)

LastEdit(j) == j.todo[Len(j.todo)]
Renewed(s, rows) == [i \in 1..Len(s) |-> IF i \in rows THEN Filled(s[i], "new") ELSE s[i]]
WriteWhole(j) ==
  j.kind = "write" =>
    /\ [before EXCEPT !.rows = Renewed(@, j.rows)] \in j.want
    /\ p = [before EXCEPT !.rows = p.rows] /\ n = Len(before.rows)
    /\ \A i \in 1..n : IF i \in j.rows
                       THEN p.rows[i].kind = before.rows[i].kind /\ Filling(j, i)
                       ELSE p.rows[i] = before.rows[i]
AddWhole(j) ==
  j.kind = "add" =>
    /\ [before EXCEPT !.rows = InsertAt(@, j.row, New)] \in j.want
    /\ j.row \in 1..(Len(before.rows) + 1)
    /\ IF j.todo # << >> /\ j.todo[1].act = "insert"
       THEN j.todo[1].fill = "new" \/ Pending(j, j.row)
       ELSE /\ p = [before EXCEPT !.rows = InsertAt(@, j.row, p.rows[j.row])]
            /\ p.rows[j.row].kind = "row" /\ Filling(j, j.row)
SingleWhole(j) ==
  j.kind \in Single => IF j.todo = << >> THEN p \in j.want
                       ELSE Outcomes(j.todo[1]) \subseteq j.want
ReadWhole(j) == j.kind = "read" \/ (j.kind = "none" /\ j.result = "ok") => p \in j.want

\* The configurations: the number that is asked for comes last, and the current one stays
\* if there will be as many.
Asked(j, now) == IF j.todo = << >> THEN now ELSE LastEdit(j).at
ConfigureWhole(j) ==
  j.kind = "size" /\ doc = "MCE" =>
    LET k == Asked(j, p.configurations)
    IN  /\ \A c \in Selected(before.chosen, k) :
             [before EXCEPT !.configurations = k, !.chosen = c] \in j.want
        /\ p = [before EXCEPT !.configurations = p.configurations, !.chosen = p.chosen]
        /\ \A i \in 1..Len(j.todo) : j.todo[i].act = "configure"
        /\ before.chosen <= k =>
             /\ p.chosen = before.chosen
             /\ \A i \in 1..Len(j.todo) : before.chosen <= j.todo[i].at

\* Fields and wavelengths: the loops come first, and end with the number asked for.
Shrinks(e) == e.act = "shrink"
Grows(e) == e.act = "grow"
Loops(j) == j.todo # << >> /\ j.todo[1].act \in {"shrink", "grow"}
LoopsFirst(j) ==
  /\ \A i \in 1..Len(j.todo) : /\ Shrinks(j.todo[i]) => i = 1
                               /\ Grows(j.todo[i]) => i = 1 \/ (i = 2 /\ Shrinks(j.todo[1]))
  /\ n <= j.size \/ \E i \in 1..Len(j.todo) : Shrinks(j.todo[i])
  /\ n >= j.size \/ \E i \in 1..Len(j.todo) : Grows(j.todo[i])
Refills == {"set_fields", "set_wavelengths"}
KeptOf(s, k) == SubSeq(s, 1, Smaller(Len(s), k)) \o News(Greater(0, k - Len(s)))
KeepWhole(j) ==
  /\ \A c \in IF doc = "Wavelengths" THEN Selected(before.chosen, j.size) ELSE {before.chosen} :
       [before EXCEPT !.rows = KeptOf(@, j.size), !.chosen = c] \in j.want
  /\ \A i \in 1..Len(j.todo) : j.todo[i].act \in {"shrink", "grow"}
  /\ \A i \in 1..n : p.rows[i] = IF i <= Len(before.rows) THEN before.rows[i] ELSE New
  /\ doc = "Fields" \/ before.chosen <= j.size => p.chosen = before.chosen
RefillWhole(j) ==
  /\ LET c == IF doc = "Fields" THEN before.chosen ELSE Asked(j, p.chosen)
     IN  [before EXCEPT !.rows = News(j.size), !.chosen = c] \in j.want
  /\ doc = "Fields" => p.chosen = before.chosen
  /\ doc = "Wavelengths" /\ j.todo # << >> => LastEdit(j).act = "choose"
  /\ \A row \in 1..j.size : Pending(j, row) \/ (~Loops(j) /\ p.rows[row].fill = "new")
SizeWhole(j) ==
  j.kind = "size" /\ Resizable =>
    /\ p = [before EXCEPT !.rows = p.rows, !.chosen = p.chosen]
    /\ LoopsFirst(j)
    /\ IF j.op \in Refills THEN RefillWhole(j) ELSE KeepWhole(j)

WholePlan(j) == /\ Mended(j) /\ WriteWhole(j) /\ AddWhole(j) /\ SingleWhole(j) /\ ReadWhole(j)
                /\ ConfigureWhole(j) /\ SizeWhole(j)
                /\ j.kind = "size" => doc = "MCE" \/ Resizable
PlainRows == doc # "LDE" => \A i \in 1..n : p.rows[i].kind = "row"
WholeInv == /\ PlainRows
            /\ Idle => before = p
            /\ job.result = "ok" => job.final = "ok"
            /\ ~missed /\ job.result \in {"none", "ok"} /\ job.final = "ok" => WholePlan(job)

-----------------------------------------------------------------------------
LEMMA SameLens ==
  ASSUME NEW q \in Lenses, NEW r \in Lenses, q.rows = r.rows,
         q.configurations = r.configurations, q.chosen = r.chosen, q.mode = r.mode
  PROVE  q = r
BY DEF Lenses

\* What is left of an operation after its first edit: a row that was to be completed has
\* been, or still will be, and so will one that has been left half done.
LEMMA WhatIsLeft ==
  ASSUME EditInv, job.todo # << >>, Moves, Mended(job)
  PROVE  /\ Mended(job') /\ job'.want = job.want
         /\ \A row : Pending(job, row) => Completes(Head(job.todo), row) \/ Pending(job', row)
         /\ Head(job.todo).act = "write" =>
              Head(job.todo).fill = "new" \/ Pending(job', Head(job.todo).at)
         /\ job'.todo = << >> => /\ \A row : ~Pending(job', row)
                                 /\ LastEdit(job) = Head(job.todo)
         /\ job'.todo # << >> => LastEdit(job') = LastEdit(job)
<1> DEFINE s == job.todo
           t == job'.todo
<1>1. /\ s \in Seq(Edits) /\ Len(s) \in Nat \ {0} /\ Head(s) = s[1]
      /\ t \in Seq(Edits) /\ Len(t) = Len(s) - 1 /\ \A i \in 1..Len(t) : t[i] = s[i + 1]
  BY FirstEdit, NextEdit DEF EditInv, Formed, IsJob
<1>2. job'.want = job.want
  BY DEF Moves, EditInv, Formed, IsJob
<1> HIDE DEF s, t
<1>3. \A i \in 2..Len(s) : i - 1 \in 1..Len(t) /\ t[i - 1] = s[i]
  BY <1>1
<1>4. \A i \in 1..Len(s) : i = 1 \/ i \in 2..Len(s)
  BY <1>1
<1>5. \A row : Pending(job, row) => Completes(s[1], row) \/ Pending(job', row)
  <2> TAKE row
  <2> SUFFICES ASSUME NEW i \in 1..Len(s), Completes(s[i], row)
               PROVE  Completes(s[1], row) \/ \E k \in 1..Len(t) : Completes(t[k], row)
    BY DEF Pending, s, t
  <2> QED BY <1>3, <1>4
<1>6. ASSUME NEW i \in 2..Len(s), s[i].act = "write"
      PROVE  \E k \in (i - 1)..Len(t) : Completes(t[k], s[i].at)
  <2>1. PICK k \in i..Len(s) : Completes(s[k], s[i].at)
    BY <1>1, <1>6 DEF Mended, s
  <2>2. k \in 2..Len(s) /\ k - 1 \in (i - 1)..Len(t)
    BY <1>1
  <2> QED BY <1>3, <2>1, <2>2
<1>7. Mended(job')
  <2> SUFFICES ASSUME NEW i \in 1..Len(t), t[i].act = "write"
               PROVE  \E k \in i..Len(t) : Completes(t[k], t[i].at)
    BY DEF Mended, t
  <2>1. i + 1 \in 2..Len(s) /\ s[i + 1] = t[i] /\ (i + 1) - 1 = i
    BY <1>1
  <2>2. \E k \in ((i + 1) - 1)..Len(t) : Completes(t[k], s[i + 1].at)
    BY <1>6, <2>1
  <2> QED BY <2>1, <2>2
<1>8. s[1].act = "write" => s[1].fill = "new" \/ Pending(job', s[1].at)
  <2> SUFFICES ASSUME s[1].act = "write", s[1].fill # "new" PROVE Pending(job', s[1].at)
    OBVIOUS
  <2>1. PICK k \in 1..Len(s) : Completes(s[k], s[1].at)
    BY <1>1 DEF Mended, s
  <2>2. k \in 2..Len(s)
    BY <1>4, <2>1 DEF Completes
  <2> QED BY <1>3, <2>1, <2>2 DEF Pending, t
<1>9. t = << >> => (\A row : ~Pending(job', row)) /\ LastEdit(job) = s[1]
  <2> SUFFICES ASSUME t = << >> PROVE (\A row : ~Pending(job', row)) /\ LastEdit(job) = s[1]
    OBVIOUS
  <2>1. Len(t) = 0 /\ Len(s) = 1 /\ 1..Len(t) = {}
    BY <1>1
  <2> QED BY <2>1 DEF Pending, LastEdit, s, t
<1>10. t # << >> => LastEdit(job') = LastEdit(job)
  <2> SUFFICES ASSUME t # << >> PROVE t[Len(t)] = s[Len(s)]
    BY DEF LastEdit, s, t
  <2>1. Len(t) \in 1..Len(t)
    BY <1>1, EmptySeq
  <2> QED BY <1>1, <2>1
<1> QED BY <1>1, <1>2, <1>5, <1>7, <1>8, <1>9, <1>10 DEF s, t

\* Looking at an argument or writing a row, whichever operation does: a row that was to be
\* completed has been or will be.
LooksOrWrites(e) ==
  \/ e.act = "check" /\ p' = p
  \/ e.act = "write" /\ e.fill \in Fills /\ p' = [p EXCEPT !.rows[e.at].fill = e.fill]
LEMMA RowStep ==
  ASSUME EditInv, job.todo # << >>, Moves, Mended(job), LooksOrWrites(Head(job.todo))
  PROVE  /\ p' \in Lenses /\ p' = [p EXCEPT !.rows = p'.rows] /\ Len(p'.rows) = n
         /\ \A i \in 1..n : /\ p'.rows[i].kind = p.rows[i].kind
                            /\ Filling(job, i) => p'.rows[i].fill = "new" \/ Pending(job', i)
                            /\ i # Head(job.todo).at \/ Head(job.todo).act = "check" =>
                                 p'.rows[i] = p.rows[i]
<1> DEFINE e == Head(job.todo)
           s == p.rows
           t == p'.rows
<1>1. e \in Edits /\ p \in Lenses
  BY FirstEdit DEF EditInv, Formed
<1>2. \A row : Pending(job, row) => Completes(e, row) \/ Pending(job', row)
  BY WhatIsLeft
<1>3. e.act = "write" => e.fill = "new" \/ Pending(job', e.at)
  BY WhatIsLeft
<1>4. e.at \in Nat /\ s \in Seq(Rows) /\ Len(s) = n
  BY <1>1 DEF Edits, Lenses, n
<1>5. CASE e.act = "check" /\ p' = p
  <2>1. \A row : ~Completes(e, row)
    BY <1>5 DEF Completes
  <2>2. p' = [p EXCEPT !.rows = p'.rows] /\ p' \in Lenses /\ Len(p'.rows) = n
    BY <1>1, <1>5 DEF Lenses, n
  <2> HIDE DEF e
  <2> QED BY <1>2, <1>5, <2>1, <2>2 DEF Filling
<1>6. CASE e.act = "write" /\ e.fill \in Fills /\ p' = [p EXCEPT !.rows[e.at].fill = e.fill]
  <2>1. t = Written(s, e.at, e.fill) /\ p' = [p EXCEPT !.rows = t]
    BY <1>1, <1>6 DEF Lenses, Written
  <2> HIDE DEF e, s, t
  <2>2. /\ t \in Seq(Rows) /\ Len(t) = Len(s)
        /\ \A k \in 1..Len(s) : t[k].kind = s[k].kind
        /\ \A k \in (1..Len(s)) \ {e.at} : t[k] = s[k]
        /\ e.at \in 1..Len(s) => t[e.at] = Filled(s[e.at], e.fill)
    <3>1. e.at \in Nat /\ e.fill \in Fills /\ s \in Seq(Rows) /\ t = Written(s, e.at, e.fill)
      BY <1>4, <1>6, <2>1
    <3> QED BY <3>1, WriteParts
  <2>3. p' \in Lenses
    BY <1>1, <2>1, <2>2 DEF Lenses
  <2>4. ASSUME NEW i \in 1..n, Filling(job, i) PROVE t[i].fill = "new" \/ Pending(job', i)
    <3>1. CASE i = e.at
      <4>1. s[i] \in Rows /\ t[i] = Filled(s[i], e.fill)
        BY <1>4, <2>2, <3>1
      <4>2. t[i].fill = e.fill
        BY <1>6, <4>1 DEF Filled, Rows
      <4> QED BY <1>3, <1>6, <3>1, <4>2
    <3>2. CASE i # e.at
      <4>1. t[i] = s[i] /\ ~Completes(e, i)
        BY <1>4, <2>2, <3>2 DEF Completes
      <4> QED BY <1>2, <2>4, <4>1 DEF Filling, s
    <3> QED BY <3>1, <3>2
  <2>5. \A i \in 1..n : t[i].kind = s[i].kind /\ (i # e.at => t[i] = s[i])
    BY <1>4, <2>2
  <2> QED BY <1>4, <1>6, <2>1, <2>2, <2>3, <2>4, <2>5 DEF e, s, t
<1> QED BY <1>5, <1>6 DEF LooksOrWrites

\* The edits of a row do: nothing else is allowed where they are.
LEMMA FirstOfRow ==
  ASSUME EditInv, ~missed, job.todo # << >>, p' \in Outcomes(Head(job.todo)),
         job.kind \in {"write", "add", "size"}, Head(job.todo).act \in {"write", "check"}
  PROVE  LooksOrWrites(Head(job.todo))
<1>1. Head(job.todo).act = "write" => Head(job.todo).fill \in Fills
  BY FirstEdit DEF Allowed
<1> QED BY <1>1, ExactOutcome, CheckOutcome DEF LooksOrWrites

\* A write is completed, or goes on.
LEMMA WriteGoesOn ==
  ASSUME EditInv, ~missed, job.todo # << >>, Moves, p' \in Outcomes(Head(job.todo)), job.kind = "write",
         Mended(job), WriteWhole(job)
  PROVE  WriteWhole(job)'
<1> DEFINE e == Head(job.todo)
<1>1. Allowed(job, e) /\ p \in Lenses /\ before \in Lenses
  BY FirstEdit DEF EditInv, Formed
<1>2. e.act \in {"write", "check"} /\ (e.act = "write" => e.at \in job.rows)
  BY <1>1 DEF Allowed
<1>3. LooksOrWrites(e)
  BY <1>2, FirstOfRow
<1>4. /\ p' \in Lenses /\ p' = [p EXCEPT !.rows = p'.rows] /\ Len(p'.rows) = n
      /\ \A i \in 1..n : /\ p'.rows[i].kind = p.rows[i].kind
                         /\ Filling(job, i) => p'.rows[i].fill = "new" \/ Pending(job', i)
                         /\ i # e.at \/ e.act = "check" => p'.rows[i] = p.rows[i]
  BY <1>3, RowStep
<1>5. /\ job'.want = job.want /\ job'.rows = job.rows /\ job'.kind = job.kind /\ before' = before
  BY WhatIsLeft, NextEdit DEF Moves
<1> HIDE DEF e
<1>6. /\ [before EXCEPT !.rows = Renewed(@, job.rows)] \in job.want
      /\ p = [before EXCEPT !.rows = p.rows] /\ n = Len(before.rows)
      /\ \A i \in 1..n : IF i \in job.rows
                         THEN p.rows[i].kind = before.rows[i].kind /\ Filling(job, i)
                         ELSE p.rows[i] = before.rows[i]
  BY DEF WriteWhole
<1>7. p' = [before EXCEPT !.rows = p'.rows]
  BY <1>1, <1>4, <1>6 DEF Lenses
<1>8. \A i \in 1..n : IF i \in job.rows
                      THEN /\ p'.rows[i].kind = before.rows[i].kind
                           /\ p'.rows[i].fill = "new" \/ Pending(job', i)
                      ELSE p'.rows[i] = before.rows[i]
  BY <1>2, <1>4, <1>6
<1>9. [before EXCEPT !.rows = Renewed(@, job.rows)]' = [before EXCEPT !.rows = Renewed(@, job.rows)]
  BY <1>5 DEF Renewed
<1> QED BY <1>4, <1>5, <1>6, <1>7, <1>8, <1>9 DEF WriteWhole, Filling, n

\* The row that is added is where it was asked for, also when it is written.
LEMMA InsertedStays ==
  ASSUME NEW b \in Seq(Rows), NEW i \in 1..(Len(b) + 1), NEW s \in Seq(Rows), NEW t \in Seq(Rows),
         s[i] \in Rows, s = InsertAt(b, i, s[i]), Len(t) = Len(s),
         \A k \in 1..Len(s) : k # i => t[k] = s[k]
  PROVE  t = InsertAt(b, i, t[i])
<1> DEFINE r == s[i]
           q == t[i]
           c == InsertAt(b, i, q)
<1>0. r \in Rows
  OBVIOUS
<1>1. /\ Len(s) = Len(b) + 1
      /\ \A k \in 1..(i - 1) : s[k] = b[k]
      /\ \A k \in (i + 1)..(Len(b) + 1) : s[k] = b[k - 1]
  <2> DEFINE a == InsertAt(b, i, r)
  <2>1. /\ Len(a) = Len(b) + 1
        /\ \A k \in 1..(i - 1) : a[k] = b[k]
        /\ \A k \in (i + 1)..(Len(b) + 1) : a[k] = b[k - 1]
    <3> HIDE DEF r
    <3> QED BY <1>0, InsertAtParts
  <2> HIDE DEF a
  <2> QED BY <2>1 DEF a
<1>2. i \in 1..Len(t) /\ q \in Rows
  BY <1>1
<1> HIDE DEF q
<1>3. /\ c \in Seq(Rows) /\ Len(c) = Len(b) + 1 /\ c[i] = q
      /\ \A k \in 1..(i - 1) : c[k] = b[k]
      /\ \A k \in (i + 1)..(Len(b) + 1) : c[k] = b[k - 1]
  BY <1>2, InsertAtParts
<1> HIDE DEF c
<1>4. \A k \in 1..Len(t) : t[k] = c[k]
  <2> TAKE k \in 1..Len(t)
  <2>1. k = i \/ k \in 1..(i - 1) \/ k \in (i + 1)..(Len(b) + 1)
    BY <1>1
  <2> QED BY <1>1, <1>3, <2>1 DEF q
<1>5. t = c
  BY <1>1, <1>3, <1>4, SameSeq
<1> QED BY <1>5 DEF c, q

\* A row is added, or what is added of it goes on.
LEMMA AddGoesOnWhole ==
  ASSUME EditInv, ~missed, job.todo # << >>, Moves, p' \in Outcomes(Head(job.todo)), job.kind = "add",
         Mended(job), AddWhole(job)
  PROVE  AddWhole(job)'
<1> DEFINE e == Head(job.todo)
           row == job.row
<1>1. /\ Allowed(job, e) /\ p \in Lenses /\ before \in Lenses /\ e = job.todo[1] /\ e \in Edits
      /\ IsJob(job)
  BY FirstEdit DEF EditInv, Formed
<1>2. \/ e.act = "insert" /\ e.at = row /\ e.fill \in Fills
      \/ e.act = "write" /\ e.at = row
      \/ e.act = "check"
  BY <1>1 DEF Allowed
<1>3. /\ job'.want = job.want /\ job'.row = row /\ job'.kind = job.kind /\ before' = before
      /\ \A r : Pending(job, r) => Completes(e, r) \/ Pending(job', r)
  BY WhatIsLeft, NextEdit DEF Moves
<1>4. ~(job'.todo # << >> /\ job'.todo[1].act = "insert")
  <2> SUFFICES ASSUME job'.todo # << >> PROVE job'.todo[1].act # "insert"
    OBVIOUS
  <2>1. Len(job'.todo) >= 1 /\ Len(job'.todo) = Len(job.todo) - 1 /\ Len(job.todo) \in Nat
        /\ \A i \in 1..Len(job'.todo) : job'.todo[i] = job.todo[i + 1]
    BY FirstEdit, NextEdit
  <2>2. 2 \in 2..Len(job.todo) /\ job'.todo[1] = job.todo[2]
    BY <2>1
  <2> QED BY <2>2 DEF EditInv, Plan, AddPlan
<1>5. /\ [before EXCEPT !.rows = InsertAt(@, row, New)] \in job.want
      /\ row \in 1..(Len(before.rows) + 1)
  BY DEF AddWhole
<1>6. before.rows \in Seq(Rows)
  BY <1>1 DEF Lenses
<1>7. /\ p' = [before EXCEPT !.rows = InsertAt(@, row, p'.rows[row])]
      /\ p'.rows[row].kind = "row"
      /\ p'.rows[row].fill = "new" \/ Pending(job', row)
  <2>1. CASE e.act = "insert"
    <3> DEFINE r == Row("row", e.fill)
               t == InsertAt(before.rows, row, r)
    <3>1. p = before /\ e.at = row
      BY <1>1, <1>2, <2>1 DEF EditInv, Plan, AddPlan
    <3>2. p' = [before EXCEPT !.rows = InsertAt(@, row, r)]
      BY <1>1, <2>1, <3>1, InsertOutcome DEF Lenses
    <3>3. r \in Rows /\ r.kind = "row" /\ r.fill = e.fill
      BY <1>2, <2>1 DEF Row, Rows, Kinds
    <3>4. e.fill = "new" \/ Pending(job, row)
      BY <1>1, <2>1 DEF AddWhole
    <3>5. ~Completes(e, row)
      BY <2>1 DEF Completes
    <3> HIDE DEF e, r
    <3>6. t[row] = r
      BY <1>5, <1>6, <3>3, InsertAtParts
    <3>7. p'.rows = t
      BY <1>1, <3>2 DEF Lenses
    <3> QED BY <1>3, <3>2, <3>3, <3>4, <3>5, <3>6, <3>7
  <2>2. CASE e.act # "insert"
    <3>1. /\ p = [before EXCEPT !.rows = InsertAt(@, row, p.rows[row])]
          /\ p.rows[row].kind = "row" /\ Filling(job, row) /\ row \in 1..n
      BY <1>1, <2>2, AddSoFar DEF AddWhole
    <3>2. LooksOrWrites(e)
      BY <1>2, <2>2, FirstOfRow
    <3>3. /\ p' \in Lenses /\ p' = [p EXCEPT !.rows = p'.rows] /\ Len(p'.rows) = n
          /\ \A i \in 1..n : /\ p'.rows[i].kind = p.rows[i].kind
                             /\ Filling(job, i) => p'.rows[i].fill = "new" \/ Pending(job', i)
                             /\ i # e.at \/ e.act = "check" => p'.rows[i] = p.rows[i]
      BY <3>2, RowStep
    <3> DEFINE s == p.rows
               t == p'.rows
    <3>4. s \in Seq(Rows) /\ t \in Seq(Rows) /\ Len(s) = n /\ Len(t) = n
      BY <1>1, <3>3 DEF Lenses, n
    <3>5. s = InsertAt(before.rows, row, s[row]) /\ s[row] \in Rows
      BY <1>1, <3>1, <3>4 DEF Lenses
    <3>6. \A k \in 1..Len(s) : k # row => t[k] = s[k]
      BY <1>2, <2>2, <3>3, <3>4
    <3>7. t = InsertAt(before.rows, row, t[row])
      <4> HIDE DEF s, t
      <4>1. /\ row \in 1..(Len(before.rows) + 1) /\ before.rows \in Seq(Rows)
            /\ s \in Seq(Rows) /\ t \in Seq(Rows) /\ Len(t) = Len(s)
            /\ s[row] \in Rows /\ s = InsertAt(before.rows, row, s[row])
        BY <1>5, <1>6, <3>4, <3>5
      <4> HIDE DEF row
      <4> QED BY <3>6, <4>1, InsertedStays
    <3>8. p' = [before EXCEPT !.rows = InsertAt(@, row, p'.rows[row])]
      BY <1>1, <3>1, <3>3, <3>7 DEF Lenses
    <3> QED BY <3>1, <3>3, <3>8
  <2> QED BY <2>1, <2>2
<1> QED BY <1>3, <1>4, <1>5, <1>7 DEF AddWhole, Filling

\* The only edit of an operation does what was asked.
LEMMA SingleEnds ==
  ASSUME EditInv, job.todo # << >>, Moves, p' \in Outcomes(Head(job.todo)), job.kind \in Single,
         Mended(job), SingleWhole(job)
  PROVE  SingleWhole(job)'
<1>1. p' \in job.want
  BY FirstEdit DEF SingleWhole
<1>2. job'.todo = << >>
  <2>1. Len(job'.todo) = 0
    BY FirstEdit, NextEdit DEF EditInv, Plan
  <2> QED BY <2>1, NextEdit
<1> QED BY <1>1, <1>2, WhatIsLeft DEF SingleWhole

\* One more configuration, or one fewer: the current one goes only if it has to.
LEMMA ConfigureGoesOn ==
  ASSUME EditInv, ~missed, job.todo # << >>, Moves, p' \in Outcomes(Head(job.todo)), job.kind = "size",
         doc = "MCE", Mended(job), ConfigureWhole(job)
  PROVE  ConfigureWhole(job)'
<1> DEFINE e == Head(job.todo)
           k == Asked(job, p.configurations)
<1>1. /\ Allowed(job, e) /\ p \in Lenses /\ before \in Lenses /\ e = job.todo[1] /\ e \in Edits
      /\ Len(job.todo) \in Nat \ {0}
  BY FirstEdit DEF EditInv, Formed
<1>2. e.act = "configure"
  <2>1. 1 \in 1..Len(job.todo)
    BY <1>1
  <2> QED BY <1>1, <2>1 DEF ConfigureWhole
<1>3. /\ \A c \in Selected(before.chosen, k) :
           [before EXCEPT !.configurations = k, !.chosen = c] \in job.want
      /\ p = [before EXCEPT !.configurations = p.configurations, !.chosen = p.chosen]
      /\ before.chosen <= k =>
           /\ p.chosen = before.chosen
           /\ \A i \in 1..Len(job.todo) : before.chosen <= job.todo[i].at
  BY DEF ConfigureWhole
<1>4. /\ job'.want = job.want /\ job'.kind = job.kind /\ before' = before /\ doc' = doc
      /\ Len(job'.todo) = Len(job.todo) - 1
      /\ \A i \in 1..Len(job'.todo) : job'.todo[i] = job.todo[i + 1]
      /\ job'.todo = << >> => LastEdit(job) = e
      /\ job'.todo # << >> => LastEdit(job') = LastEdit(job)
  BY WhatIsLeft, NextEdit DEF Moves
<1>5. k = LastEdit(job).at
  BY DEF Asked
<1>6. PICK c \in Selected(p.chosen, e.at) :
           p' = [p EXCEPT !.configurations = e.at, !.chosen = c]
  <2>1. e.act = "configure" /\ p' \in Outcomes(e)
    BY <1>2
  <2> HIDE DEF e
  <2>2. ConfiguredTo(e.at, p')
    BY <2>1, ExactOutcome
  <2> QED BY <2>2 DEF ConfiguredTo
<1> HIDE DEF e, k
<1>7. /\ p'.configurations = e.at /\ p'.chosen = c
      /\ p' = [before EXCEPT !.configurations = p'.configurations, !.chosen = p'.chosen]
  BY <1>1, <1>3, <1>6 DEF Lenses
<1>8. Asked(job', p'.configurations) = k
  BY <1>4, <1>5, <1>7 DEF Asked
<1>9. ASSUME before.chosen <= k
      PROVE  /\ p'.chosen = before.chosen
             /\ \A i \in 1..Len(job'.todo) : before.chosen <= job'.todo[i].at
  <2>1. p.chosen <= e.at
    <3>1. 1 \in 1..Len(job.todo)
      BY <1>1
    <3> QED BY <1>1, <1>3, <1>9, <3>1
  <2>2. c = p.chosen
    BY <1>6, <2>1 DEF Selected
  <2>3. \A i \in 1..Len(job'.todo) : i + 1 \in 1..Len(job.todo)
    BY <1>1, <1>4
  <2> QED BY <1>3, <1>4, <1>7, <1>9, <2>2, <2>3
<1>10. \A i \in 1..Len(job'.todo) : job'.todo[i].act = "configure"
  <2>1. \A i \in 1..Len(job'.todo) : i + 1 \in 1..Len(job.todo)
    BY <1>1, <1>4
  <2> QED BY <1>4, <2>1 DEF ConfigureWhole
<1> QED BY <1>3, <1>4, <1>7, <1>8, <1>9, <1>10 DEF ConfigureWhole

\* A resize makes its loops, and then writes the rows there are.
LEMMA SizeHead ==
  ASSUME EditInv, job.todo # << >>, job.kind = "size", Resizable, LoopsFirst(job)
  PROVE  LET e == Head(job.todo)
         IN  /\ e.act \in {"shrink", "grow", "write", "check", "choose"}
             /\ e.act \in {"shrink", "grow"} => e.at = job.size
             /\ e.act \notin {"shrink", "grow"} =>
                  /\ n = job.size
                  /\ \A i \in 1..Len(job.todo) : job.todo[i].act \notin {"shrink", "grow"}
             /\ e.act = "choose" => doc = "Wavelengths" /\ Len(job.todo) = 1
<1> DEFINE e == Head(job.todo)
           s == job.todo
<1>1. /\ e = s[1] /\ Allowed(job, e) /\ Len(s) \in Nat \ {0} /\ 1 \in 1..Len(s)
      /\ n \in Nat /\ job.size \in Nat
  BY FirstEdit DEF EditInv, Formed, IsJob, Lenses, n
<1>2. /\ e.act \in {"shrink", "grow", "write", "check", "choose"}
      /\ e.act \in {"shrink", "grow"} => e.at = job.size
      /\ e.act = "choose" => doc = "Wavelengths"
  BY <1>1 DEF Allowed, Resizable
<1>3. e.act = "choose" => Len(s) = 1
  <2>1. \A i \in 1..Len(s) : s[i].act = "choose" => i = Len(s)
    BY DEF EditInv, Plan, SizePlan
  <2> QED BY <1>1, <2>1
<1>4. ASSUME e.act \notin {"shrink", "grow"}
      PROVE  n = job.size /\ \A i \in 1..Len(s) : s[i].act \notin {"shrink", "grow"}
  <2>1. \A i \in 1..Len(s) : ~Shrinks(s[i]) /\ ~Grows(s[i])
    BY <1>1, <1>4 DEF LoopsFirst, Shrinks, Grows
  <2>2. n <= job.size /\ n >= job.size
    BY <2>1 DEF LoopsFirst
  <2> QED BY <1>1, <2>1, <2>2 DEF Shrinks, Grows
<1> QED BY <1>2, <1>3, <1>4

\* A round of a loop: nothing that is kept is lost, what is added is new.
LEMMA RoundWhole ==
  ASSUME EditInv, job.todo # << >>, UNCHANGED <<doc, job, before>>, job.kind = "size", Resizable,
         Looping(Head(job.todo)), p' \in Outcomes(Head(job.todo)), SizeWhole(job)
  PROVE  SizeWhole(job)'
<1> DEFINE e == Head(job.todo)
           s == p.rows
           t == p'.rows
<1>1. /\ p = [before EXCEPT !.rows = p.rows, !.chosen = p.chosen]
      /\ LoopsFirst(job)
      /\ IF job.op \in Refills THEN RefillWhole(job) ELSE KeepWhole(job)
  BY DEF SizeWhole
<1>2. /\ e = job.todo[1] /\ e.act \in {"shrink", "grow"} /\ e.at = job.size /\ Loops(job)
      /\ 1 \in 1..Len(job.todo)
  BY <1>1, SizeHead, FirstEdit DEF Looping, Loops
<1>3. /\ p \in Lenses /\ before \in Lenses /\ s \in Seq(Rows) /\ Len(s) = n /\ n \in Nat
      /\ job.size \in Nat \ {0} /\ Len(before.rows) \in Nat
  BY DEF EditInv, Formed, IsJob, Plan, SizePlan, Lenses, n
<1>4. n < job.size => n >= Len(before.rows)
  <2>1. p = before \/ n \in Len(before.rows)..job.size \cup job.size..Len(before.rows)
    BY FirstEdit DEF OnlyItsRows, Resizable
  <2> QED BY <1>3, <2>1 DEF n
<1>5. /\ t \in Seq(Rows) /\ Len(t) \in Nat
      /\ p' = [before EXCEPT !.rows = p'.rows, !.chosen = p'.chosen]
      /\ IF e.act = "shrink"
         THEN n > job.size /\ Len(t) = n - 1
              /\ p'.chosen \in IF doc = "Wavelengths" THEN Selected(p.chosen, n - 1) ELSE {p.chosen}
         ELSE n < job.size /\ Len(t) \in {n, n + 1} /\ p'.chosen = p.chosen
      /\ \A i \in 1..Len(t) : t[i] = IF i <= n THEN s[i] ELSE New
  <2>1. CASE e.act = "shrink"
    <3> DEFINE u == SubSeq(s, 1, n - 1)
    <3>1. n > job.size
      BY <1>2, <2>1 DEF Looping
    <3>2. u \in Seq(Rows) /\ Len(u) = n - 1 /\ \A i \in 1..(n - 1) : u[i] = s[i]
      BY <1>3, <3>1
    <3>3. p' \in Sized(u)
      BY <2>1, ShrinkOutcome
    <3> HIDE DEF u
    <3>4. PICK c \in IF doc = "Wavelengths" THEN Selected(p.chosen, n - 1) ELSE {p.chosen} :
               p' = [p EXCEPT !.rows = u, !.chosen = c]
      BY <3>2, <3>3 DEF Sized
    <3>5. /\ p'.rows = u /\ p'.chosen = c
          /\ p' = [before EXCEPT !.rows = p'.rows, !.chosen = p'.chosen]
      BY <1>1, <1>3, <3>4 DEF Lenses
    <3> QED BY <1>3, <2>1, <3>1, <3>2, <3>4, <3>5
  <2>2. CASE e.act = "grow"
    <3> DEFINE u == Append(s, New)
    <3>1. n < job.size
      BY <1>2, <2>2 DEF Looping, Fewer
    <3>2. p' = IF n < Capacity THEN [p EXCEPT !.rows = u] ELSE p
      BY <2>2, GrowOutcome
    <3>3. /\ u \in Seq(Rows) /\ Len(u) = n + 1
          /\ \A i \in 1..(n + 1) : u[i] = IF i <= n THEN s[i] ELSE New
      BY <1>3 DEF New, Row, Rows, Kinds, Fills
    <3> HIDE DEF u
    <3>4. /\ t \in {u, s} /\ p'.chosen = p.chosen
          /\ p' = [before EXCEPT !.rows = p'.rows, !.chosen = p'.chosen]
      BY <1>1, <1>3, <3>2 DEF Lenses
    <3> HIDE DEF s, t
    <3>5. CASE t = u
      BY <1>3, <2>2, <3>1, <3>3, <3>4, <3>5 DEF t
    <3>6. CASE t = s
      BY <1>3, <2>2, <3>1, <3>4, <3>6 DEF t
    <3> QED BY <3>4, <3>5, <3>6
  <2> QED BY <1>2, <2>1, <2>2
<1> HIDE DEF e, s, t
<1>6. LoopsFirst(job)'
  <2>1. Len(t) <= job.size \/ \E i \in 1..Len(job.todo) : Shrinks(job.todo[i])
    BY <1>2, <1>3, <1>5 DEF Shrinks
  <2>2. Len(t) >= job.size \/ \E i \in 1..Len(job.todo) : Grows(job.todo[i])
    BY <1>2, <1>3, <1>5 DEF Grows
  <2> QED BY <1>1, <2>1, <2>2 DEF LoopsFirst, Shrinks, Grows, n, t
<1>7. CASE job.op \in Refills
  <2>1. \A row \in 1..job.size : Pending(job, row)
    BY <1>1, <1>2, <1>7 DEF RefillWhole
  <2>2. doc = "Fields" => p'.chosen = p.chosen
    BY <1>5
  <2>3. RefillWhole(job)'
    BY <1>1, <1>7, <2>1, <2>2 DEF RefillWhole, Pending, Asked, LastEdit, Loops
  <2> QED BY <1>5, <1>6, <1>7, <2>3 DEF SizeWhole
<1>8. CASE job.op \notin Refills
  <2>1. /\ \A i \in 1..n : s[i] = IF i <= Len(before.rows) THEN before.rows[i] ELSE New
        /\ doc = "Fields" \/ before.chosen <= job.size => p.chosen = before.chosen
        /\ before.chosen \in Nat /\ p.chosen \in Nat
    BY <1>1, <1>3, <1>8 DEF KeepWhole, s, Lenses
  <2>2. \A i \in 1..Len(t) : t[i] = IF i <= Len(before.rows) THEN before.rows[i] ELSE New
    <3> TAKE i \in 1..Len(t)
    <3>1. CASE i <= n
      <4>1. i \in 1..n
        BY <1>3, <1>5, <3>1
      <4> QED BY <1>5, <2>1, <4>1
    <3>2. CASE ~(i <= n)
      <4>1. n < job.size
        BY <1>2, <1>3, <1>5, <3>2
      <4>2. ~(i <= Len(before.rows))
        BY <1>3, <1>4, <1>5, <3>2, <4>1
      <4> QED BY <1>5, <3>2, <4>2
    <3> QED BY <3>1, <3>2
  <2>3. doc = "Fields" \/ before.chosen <= job.size => p'.chosen = before.chosen
    <3> SUFFICES ASSUME doc = "Fields" \/ before.chosen <= job.size
                 PROVE  p'.chosen = p.chosen
      BY <2>1
    <3>1. CASE e.act = "shrink"
      <4>1. doc = "Wavelengths" => p.chosen <= n - 1
        BY <1>3, <1>5, <2>1, <3>1
      <4> QED BY <1>5, <3>1, <4>1 DEF Selected
    <3> QED BY <1>2, <1>5, <3>1
  <2>4. KeepWhole(job)'
    BY <1>1, <1>8, <2>2, <2>3 DEF KeepWhole, n, t
  <2> QED BY <1>5, <1>6, <1>8, <2>4 DEF SizeWhole
<1> QED BY <1>7, <1>8

\* An edit of a resize is done: a loop has come to the number asked for, or a value is
\* another, or the primary wavelength.
LEMMA SizeGoesOnWhole ==
  ASSUME EditInv, ~missed, job.todo # << >>, Moves, job.kind = "size", Resizable, Mended(job),
         SizeWhole(job),
         IF Head(job.todo).act \in {"shrink", "grow"}
         THEN ~Looping(Head(job.todo)) /\ p' = p ELSE p' \in Outcomes(Head(job.todo))
  PROVE  SizeWhole(job)'
<1> DEFINE e == Head(job.todo)
           s == job.todo
           t == job'.todo
<1>1. /\ p = [before EXCEPT !.rows = p.rows, !.chosen = p.chosen]
      /\ LoopsFirst(job)
      /\ IF job.op \in Refills THEN RefillWhole(job) ELSE KeepWhole(job)
  BY DEF SizeWhole
<1>2. /\ e.act \in {"shrink", "grow", "write", "check", "choose"}
      /\ e.act \in {"shrink", "grow"} => e.at = job.size
      /\ e.act \notin {"shrink", "grow"} =>
           n = job.size /\ \A i \in 1..Len(s) : s[i].act \notin {"shrink", "grow"}
      /\ e.act = "choose" => doc = "Wavelengths" /\ Len(s) = 1
  BY <1>1, SizeHead
<1>3. /\ p \in Lenses /\ before \in Lenses /\ n \in Nat /\ e = s[1]
      /\ job.size \in Nat \ {0} /\ Len(s) \in Nat \ {0} /\ 1 \in 1..Len(s)
  BY FirstEdit DEF EditInv, Formed, IsJob, Plan, SizePlan, Lenses, n
<1>4. /\ Len(t) = Len(s) - 1
      /\ job'.size = job.size /\ job'.kind = job.kind /\ job'.op = job.op /\ job'.want = job.want
      /\ before' = before /\ doc' = doc
  BY NextEdit, WhatIsLeft DEF Moves
<1>5. \A i \in 1..Len(t) : i + 1 \in 1..Len(s) /\ t[i] = s[i + 1]
  <2>1. \A i \in 1..Len(t) : t[i] = s[i + 1]
    BY NextEdit
  <2> HIDE DEF s, t
  <2> QED BY <1>3, <1>4, <2>1
<1>6. /\ \A row : Pending(job, row) => Completes(e, row) \/ Pending(job', row)
      /\ t = << >> => LastEdit(job) = e
      /\ t # << >> => LastEdit(job') = LastEdit(job)
  BY WhatIsLeft
<1>7. /\ p' \in Lenses /\ Len(p'.rows) = n
      /\ p' = [p EXCEPT !.rows = p'.rows, !.chosen = p'.chosen]
      /\ IF e.act = "choose" THEN p'.chosen = e.at /\ p'.rows = p.rows ELSE p'.chosen = p.chosen
      /\ e.act \in {"shrink", "grow"} => p' = p
      /\ e.act \in {"write", "check"} =>
           \A i \in 1..n : Filling(job, i) => p'.rows[i].fill = "new" \/ Pending(job', i)
  <2>1. CASE e.act \in {"shrink", "grow"}
    BY <1>3, <2>1 DEF Lenses, n
  <2>2. CASE e.act \in {"write", "check"}
    <3>1. LooksOrWrites(e)
      BY <2>2, FirstOfRow
    <3>2. /\ p' \in Lenses /\ p' = [p EXCEPT !.rows = p'.rows] /\ Len(p'.rows) = n
          /\ \A i \in 1..n : Filling(job, i) => p'.rows[i].fill = "new" \/ Pending(job', i)
      BY <3>1, RowStep
    <3> QED BY <1>3, <2>2, <3>2 DEF Lenses
  <2>3. CASE e.act = "choose"
    <3>1. p' = [p EXCEPT !.chosen = e.at]
      BY <2>3, ChooseOutcome
    <3>2. e.at \in Nat \ {0}
      <4>1. Allowed(job, e)
        BY FirstEdit
      <4> QED BY <1>3, <2>3, <4>1 DEF Allowed
    <3> QED BY <1>3, <2>3, <3>1, <3>2 DEF Lenses, n
  <2> QED BY <1>2, <2>1, <2>2, <2>3
<1>8. p' = [before EXCEPT !.rows = p'.rows, !.chosen = p'.chosen]
  BY <1>1, <1>3, <1>7 DEF Lenses
<1> HIDE DEF e, s, t
<1>9. LoopsFirst(job)'
  <2>1. ASSUME NEW i \in 1..Len(t)
        PROVE  /\ ~Shrinks(t[i])
               /\ Grows(t[i]) => i = 1 /\ e.act = "shrink"
    <3>1. /\ Shrinks(s[i + 1]) => i + 1 = 1
          /\ Grows(s[i + 1]) => i + 1 = 1 \/ (i + 1 = 2 /\ Shrinks(s[1]))
      BY <1>1, <1>5, <2>1 DEF LoopsFirst, s
    <3> QED BY <1>3, <1>4, <1>5, <2>1, <3>1 DEF Shrinks
  <2>2. n <= job.size
    <3>1. CASE e.act = "shrink"
      BY <1>2, <1>3, <3>1 DEF Looping, e
    <3>2. CASE e.act # "shrink"
      <4>1. \A i \in 1..Len(s) : ~Shrinks(s[i])
        BY <1>1, <1>3, <3>2 DEF LoopsFirst, Shrinks, s
      <4> QED BY <1>1, <4>1 DEF LoopsFirst, s
    <3> QED BY <3>1, <3>2
  <2>3. n >= job.size \/ \E i \in 1..Len(t) : Grows(t[i])
    <3>1. CASE e.act = "grow"
      BY <1>2, <1>3, <3>1 DEF Looping, Fewer, e
    <3>2. CASE e.act # "grow"
      <4>1. n >= job.size \/ \E i \in 1..Len(s) : Grows(s[i])
        BY <1>1 DEF LoopsFirst, s
      <4>2. ASSUME NEW i \in 1..Len(s), Grows(s[i]) PROVE \E k \in 1..Len(t) : Grows(t[k])
        <5>1. i # 1
          BY <1>3, <3>2, <4>2 DEF Grows
        <5>2. i - 1 \in 1..Len(t) /\ (i - 1) + 1 = i
          BY <1>3, <1>4, <5>1
        <5>3. t[i - 1] = s[i]
          BY <1>5, <5>2
        <5> QED BY <4>2, <5>2, <5>3
      <4> QED BY <4>1, <4>2
    <3> QED BY <3>1, <3>2
  <2> QED BY <1>4, <1>7, <2>1, <2>2, <2>3 DEF LoopsFirst, Shrinks, Grows, n, t
<1>10. CASE job.op \in Refills
  <2>1. /\ LET c == IF doc = "Fields" THEN before.chosen ELSE Asked(job, p.chosen)
           IN  [before EXCEPT !.rows = News(job.size), !.chosen = c] \in job.want
        /\ doc = "Fields" => p.chosen = before.chosen
        /\ doc = "Wavelengths" => LastEdit(job).act = "choose"
        /\ \A row \in 1..job.size : Pending(job, row) \/ (~Loops(job) /\ p.rows[row].fill = "new")
    BY <1>1, <1>10 DEF RefillWhole
  <2>2. doc = "Fields" => p'.chosen = before.chosen
    BY <1>2, <1>7, <2>1
  <2>3. doc = "Wavelengths" /\ t # << >> => LastEdit(job').act = "choose"
    BY <1>6, <2>1
  <2>4. doc # "Fields" => Asked(job', p'.chosen) = Asked(job, p.chosen)
    <3> SUFFICES ASSUME doc = "Wavelengths" PROVE Asked(job', p'.chosen) = LastEdit(job).at
      BY DEF Asked, Resizable
    <3>1. CASE t = << >>
      BY <1>6, <1>7, <2>1, <3>1 DEF Asked, t
    <3>2. CASE t # << >>
      BY <1>6, <3>2 DEF Asked, t
    <3> QED BY <3>1, <3>2
  <2>5. ASSUME NEW row \in 1..job.size
        PROVE  Pending(job', row) \/ (~Loops(job') /\ p'.rows[row].fill = "new")
    <3>1. CASE e.act \in {"shrink", "grow"}
      <4>1. Loops(job) /\ ~Completes(e, row)
        BY <1>3, <3>1 DEF Loops, Completes, s
      <4> QED BY <1>6, <2>1, <4>1
    <3> SUFFICES ASSUME e.act \notin {"shrink", "grow"}, ~Pending(job', row)
                 PROVE  ~Loops(job') /\ p'.rows[row].fill = "new"
      BY <3>1
    <3>2. ~Loops(job')
      <4> SUFFICES ASSUME t # << >> PROVE t[1].act \notin {"shrink", "grow"}
        BY DEF Loops, t
      <4>1. 1 \in 1..Len(t)
        <5>1. t \in Seq(Edits)
          BY NextEdit DEF t
        <5> QED BY <5>1, EmptySeq
      <4> QED BY <1>2, <1>5, <4>1
    <3>3. row \in 1..n /\ Filling(job, row)
      BY <1>2, <2>1 DEF Filling
    <3>4. p'.rows[row].fill = "new"
      <4>1. CASE e.act \in {"write", "check"}
        BY <1>7, <3>3, <4>1
      <4>2. CASE e.act = "choose"
        <5>1. ~Completes(e, row)
          BY <4>2 DEF Completes
        <5> QED BY <1>6, <1>7, <2>1, <4>2, <5>1
      <4> QED BY <1>2, <4>1, <4>2
    <3> QED BY <3>2, <3>4
  <2>6. RefillWhole(job)'
    BY <1>4, <2>1, <2>2, <2>3, <2>4, <2>5 DEF RefillWhole, t
  <2> QED BY <1>4, <1>8, <1>9, <1>10, <2>6 DEF SizeWhole
<1>11. CASE job.op \notin Refills
  <2>1. KeepWhole(job) /\ e.act \in {"shrink", "grow"}
    BY <1>1, <1>3, <1>11 DEF KeepWhole, s
  <2>2. p' = p
    BY <1>7, <2>1
  <2>3. \A i \in 1..Len(t) : t[i].act \in {"shrink", "grow"}
    BY <1>5, <2>1 DEF KeepWhole, s
  <2>4. KeepWhole(job)'
    BY <1>4, <2>1, <2>2, <2>3 DEF KeepWhole, n, t
  <2> QED BY <1>4, <1>8, <1>9, <1>11, <2>4 DEF SizeWhole
<1> QED BY <1>10, <1>11

-----------------------------------------------------------------------------
\* Whatever the operation is, its next edit leads on to all that was asked for.
LEMMA PlanGoesOn ==
  ASSUME EditInv, ~missed, job.todo # << >>, Moves, WholePlan(job),
         IF Head(job.todo).act \in {"shrink", "grow"}
         THEN ~Looping(Head(job.todo)) /\ p' = p ELSE p' \in Outcomes(Head(job.todo))
  PROVE  WholePlan(job)'
<1> DEFINE e == Head(job.todo)
<1>1. /\ Mended(job) /\ WriteWhole(job) /\ AddWhole(job) /\ SingleWhole(job)
      /\ ConfigureWhole(job) /\ SizeWhole(job)
      /\ job.kind = "size" => doc = "MCE" \/ Resizable
  BY DEF WholePlan
<1>2. Allowed(job, e) /\ job.kind \notin {"none", "read"} /\ job'.kind = job.kind /\ doc' = doc
  BY FirstEdit, NextEdit DEF Moves
<1>3. (job.kind = "size" /\ Resizable) \/ p' \in Outcomes(e)
  BY <1>2 DEF Allowed
<1>4. Mended(job)'
  BY <1>1, WhatIsLeft DEF Mended
<1>5. WriteWhole(job)'
  <2>1. CASE job.kind = "write"
    BY <1>1, <1>3, <2>1, WriteGoesOn
  <2>2. CASE job.kind # "write"
    BY <1>2, <2>2 DEF WriteWhole
  <2> QED BY <2>1, <2>2
<1>6. AddWhole(job)'
  <2>1. CASE job.kind = "add"
    BY <1>1, <1>3, <2>1, AddGoesOnWhole
  <2>2. CASE job.kind # "add"
    BY <1>2, <2>2 DEF AddWhole
  <2> QED BY <2>1, <2>2
<1>7. SingleWhole(job)'
  <2>1. CASE job.kind \in Single
    <3>1. p' \in Outcomes(e)
      BY <1>3, <2>1 DEF Single
    <3> QED BY <1>1, <2>1, <3>1, SingleEnds
  <2>2. CASE job.kind \notin Single
    BY <1>2, <2>2 DEF SingleWhole
  <2> QED BY <2>1, <2>2
<1>8. ReadWhole(job)'
  BY <1>2 DEF ReadWhole
<1>9. ConfigureWhole(job)'
  <2>1. CASE job.kind = "size" /\ doc = "MCE"
    <3>1. p' \in Outcomes(e)
      BY <1>3, <2>1 DEF Resizable
    <3> QED BY <1>1, <2>1, <3>1, ConfigureGoesOn
  <2>2. CASE ~(job.kind = "size" /\ doc = "MCE")
    BY <1>2, <2>2 DEF ConfigureWhole
  <2> QED BY <2>1, <2>2
<1>10. SizeWhole(job)'
  <2>1. CASE job.kind = "size" /\ Resizable
    BY <1>1, <2>1, SizeGoesOnWhole
  <2>2. CASE ~(job.kind = "size" /\ Resizable)
    BY <1>2, <2>2 DEF SizeWhole, Resizable
  <2> QED BY <2>1, <2>2
<1>11. (job.kind = "size" => doc = "MCE" \/ Resizable)'
  BY <1>1, <1>2 DEF Resizable
<1> QED BY <1>4, <1>5, <1>6, <1>7, <1>8, <1>9, <1>10, <1>11 DEF WholePlan

\* A round of its loop leads there, too.
LEMMA PlanLoopsOn ==
  ASSUME EditInv, job.todo # << >>, UNCHANGED <<doc, job, before>>, WholePlan(job),
         Looping(Head(job.todo)), p' \in Outcomes(Head(job.todo))
  PROVE  WholePlan(job)'
<1>1. job.kind = "size" /\ Resizable
  BY FirstEdit DEF Looping, Allowed
<1>2. SizeWhole(job)'
  BY <1>1, RoundWhole DEF WholePlan
<1>3. /\ WriteWhole(job)' /\ AddWhole(job)' /\ SingleWhole(job)' /\ ReadWhole(job)'
  BY <1>1 DEF WriteWhole, AddWhole, SingleWhole, ReadWhole, Single
<1>4. ConfigureWhole(job)' /\ Mended(job)' /\ (job.kind = "size" => doc = "MCE" \/ Resizable)'
  BY <1>1 DEF ConfigureWhole, Resizable, WholePlan, Mended
<1> QED BY <1>2, <1>3, <1>4 DEF WholePlan

\* Only the lens data editor has rows of other kinds.
Plain(s) == \A i \in 1..Len(s) : s[i].kind = "row"
LEMMA RowsArePlain ==
  ASSUME EditInv, PlainRows, EditStep PROVE PlainRows'
<1> DEFINE e == Head(job.todo)
           s == p.rows
           t == p'.rows
<1>1. /\ job.todo # << >> /\ e \in Edits /\ Allowed(job, e) /\ doc' = doc
      /\ p \in Lenses /\ s \in Seq(Rows) /\ Len(s) = n /\ n \in Nat
  BY FirstEdit DEF EditStep, EditInv, Formed, Lenses, n
<1>2. p' = p \/ p' \in Outcomes(e)
  BY DEF EditStep
<1> SUFFICES ASSUME doc # "LDE", p' \in Outcomes(e), Plain(s) PROVE Plain(t)
  BY <1>1, <1>2 DEF PlainRows, Plain, n
<1>3. CASE e.act = "insert"
  <2> DEFINE r == Row("row", e.fill)
             u == InsertAt(s, e.at, r)
  <2>1. t = u
    BY <1>1, <1>3, InsertOutcome DEF Lenses
  <2>2. e.at \in 1..(Len(s) + 1) /\ r \in Rows /\ r.kind = "row"
    <3>1. job.kind = "add" /\ e.at = job.row /\ e.fill \in Fills
      BY <1>1, <1>3 DEF Allowed
    <3>2. job.row \in 1..(n + 1)
      BY <1>1, <1>3, <3>1, FirstEdit DEF EditInv, Plan, AddPlan
    <3> QED BY <1>1, <3>1, <3>2 DEF Row, Rows, Kinds
  <2> DEFINE at == e.at
             v == InsertAt(s, at, r)
  <2>3. at \in 1..(Len(s) + 1) /\ t = v
    BY <2>1, <2>2
  <2> HIDE DEF at, r, s
  <2>4. /\ Len(v) = Len(s) + 1 /\ v[at] = r
        /\ \A k \in 1..(at - 1) : v[k] = s[k]
        /\ \A k \in (at + 1)..(Len(s) + 1) : v[k] = s[k - 1]
    <3>1. s \in Seq(Rows) /\ at \in 1..(Len(s) + 1) /\ r \in Rows
      BY <1>1, <2>2, <2>3
    <3> QED BY <3>1, InsertAtParts
  <2> HIDE DEF v
  <2>5. ASSUME NEW k \in 1..Len(v) PROVE v[k].kind = "row"
    <3>1. k = at \/ k \in 1..(at - 1) \/ k \in (at + 1)..(Len(s) + 1)
      BY <2>3, <2>4
    <3>2. k \in 1..(at - 1) => k \in 1..Len(s)
      BY <1>1, <2>3
    <3>3. k \in (at + 1)..(Len(s) + 1) => k - 1 \in 1..Len(s)
      BY <1>1, <2>3
    <3> QED BY <2>2, <2>4, <3>1, <3>2, <3>3 DEF Plain
  <2> QED BY <2>3, <2>5 DEF Plain
<1>4. CASE e.act = "write"
  <2> DEFINE fill == Held(e.fill)
  <2>1. p' = [p EXCEPT !.rows[e.at].fill = fill]
    BY <1>4, WriteOutcome
  <2>2. fill \in Fills
    BY <1>1, <1>4 DEF Allowed, Held, Fills
  <2> HIDE DEF fill
  <2>3. t = Written(s, e.at, fill) /\ e.at \in Nat
    BY <1>1, <1>4, <2>1 DEF Lenses, Written, Edits
  <2> HIDE DEF e, s, t
  <2>4. Len(t) = Len(s) /\ \A k \in 1..Len(s) : t[k].kind = s[k].kind
    BY <1>1, <2>2, <2>3, WriteParts
  <2> QED BY <2>4 DEF Plain
<1>5. CASE e.act = "remove"
  <2> DEFINE u == RemoveAt(s, e.at)
  <2>1. t = u
    BY <1>1, <1>5, DropOutcome DEF Lenses
  <2>2. e.at \in 1..Len(s)
    <3>1. job.kind = "remove" /\ e.at = job.row
      BY <1>1, <1>5 DEF Allowed
    <3> QED BY <1>1, <3>1 DEF EditInv, Plan, RemovePlan
  <2> HIDE DEF e, s
  <2>3. /\ Len(u) = Len(s) - 1
        /\ \A k \in 1..(e.at - 1) : u[k] = s[k]
        /\ \A k \in e.at..(Len(s) - 1) : u[k] = s[k + 1]
    BY <1>1, <2>2, RemoveAtParts
  <2> HIDE DEF u
  <2>4. \A k \in 1..Len(u) : (k \in 1..Len(s) /\ u[k] = s[k]) \/ (k + 1 \in 1..Len(s) /\ u[k] = s[k + 1])
    BY <1>1, <2>2, <2>3
  <2> QED BY <2>1, <2>4 DEF Plain
<1>6. CASE e.act = "shrink"
  <2> DEFINE u == SubSeq(s, 1, n - 1)
  <2>1. p' \in Sized(u)
    BY <1>6, ShrinkOutcome
  <2>2. \A i \in 1..Len(u) : i \in 1..Len(s) /\ u[i] = s[i]
    BY <1>1
  <2> HIDE DEF u
  <2>3. t = u
    BY <1>1, <2>1 DEF Sized, Lenses
  <2> QED BY <2>2, <2>3 DEF Plain
<1>7. CASE e.act = "grow"
  <2> DEFINE u == Append(s, New)
  <2>1. t \in {s, u}
    BY <1>1, <1>7, GrowOutcome DEF Lenses
  <2>2. \A i \in 1..Len(u) : u[i] = New \/ (i \in 1..Len(s) /\ u[i] = s[i])
    BY <1>1
  <2>3. New.kind = "row"
    BY DEF New, Row
  <2> HIDE DEF u
  <2> QED BY <2>1, <2>2, <2>3 DEF Plain
<1>8. CASE e.act \in {"choose", "check", "configure"}
  <2>1. t = s
    <3>1. CASE e.act = "choose"
      BY <1>1, <3>1, ChooseOutcome DEF Lenses
    <3>2. CASE e.act = "check"
      BY <3>2, CheckOutcome
    <3>3. CASE e.act = "configure"
      <4>1. PICK c \in IF p.chosen <= e.at THEN {p.chosen} ELSE 1..Reached(e.at) :
                 p' = [p EXCEPT !.configurations = Reached(e.at), !.chosen = c]
        BY <3>3, ConfigureOutcome
      <4> QED BY <1>1, <4>1 DEF Lenses
    <3> QED BY <1>8, <3>1, <3>2, <3>3
  <2> QED BY <2>1
<1>9. CASE e.act \in {"load", "convert"}
  <2>1. \E k \in Nat : t = Olds(k)
    <3>1. CASE e.act = "load"
      <4>1. t = Olds(e.at)
        BY <1>1, <3>1, LoadOutcome DEF Lenses
      <4> QED BY <1>1, <4>1 DEF Edits
    <3>2. CASE e.act = "convert"
      <4>1. PICK k \in IF e.fill = "sequential" THEN {0} ELSE 0..MaxRows :
                 p' = [p EXCEPT !.mode = e.fill, !.rows = Olds(k)]
        BY <3>2, ConvertOutcome
      <4>2. t = Olds(k)
        BY <1>1, <4>1 DEF Lenses
      <4>3. k \in Nat
        BY <4>1, EditorAssumption
      <4> QED BY <4>2, <4>3
    <3> QED BY <1>9, <3>1, <3>2
  <2>2. \A k \in Nat : Plain(Olds(k))
    BY DEF Plain, Olds, Old, Row
  <2> QED BY <2>1, <2>2
<1> QED BY <1>1, <1>3, <1>4, <1>5, <1>6, <1>7, <1>8, <1>9 DEF Edits, Acts

-----------------------------------------------------------------------------
\* How an operation ends that has done all of it.
LEMMA WriteIsWhole ==
  ASSUME EditInv, job.kind = "write", job.todo = << >>, WriteWhole(job)
  PROVE  p \in job.want
<1> DEFINE b == before.rows
           s == p.rows
           t == Renewed(b, job.rows)
<1>1. /\ [before EXCEPT !.rows = t] \in job.want /\ p = [before EXCEPT !.rows = s] /\ n = Len(b)
      /\ \A i \in 1..n : IF i \in job.rows THEN s[i].kind = b[i].kind /\ Filling(job, i)
                                           ELSE s[i] = b[i]
  BY DEF WriteWhole
<1>2. \A i : ~Pending(job, i)
  BY DEF Pending
<1>3. s \in Seq(Rows) /\ b \in Seq(Rows) /\ Len(s) = n
  BY DEF EditInv, Formed, Lenses, n
<1>4. Len(t) = Len(b) /\ t \in Seq(Rows)
        /\ \A i \in 1..Len(b) : t[i] = IF i \in job.rows THEN Filled(b[i], "new") ELSE b[i]
  <2>1. \A i \in 1..Len(b) : b[i] \in Rows /\ Filled(b[i], "new") \in Rows
    BY <1>3, FilledRow DEF Fills
  <2> HIDE DEF b
  <2>2. Len(b) \in Nat
    BY <1>3
  <2> QED BY <2>1, <2>2 DEF Renewed
<1>5. \A i \in 1..Len(s) : s[i] = t[i]
  <2> TAKE i \in 1..Len(s)
  <2>1. s[i] \in Rows /\ b[i] \in Rows
    BY <1>1, <1>3
  <2>2. CASE i \in job.rows
    <3>1. s[i].kind = b[i].kind /\ s[i].fill = "new"
      BY <1>1, <1>2, <1>3, <2>2 DEF Filling
    <3> DEFINE q == s[i]
               r == b[i]
    <3>2. t[i] = Filled(r, "new")
      BY <1>1, <1>3, <1>4, <2>2
    <3> HIDE DEF q, r
    <3>3. q = Filled(r, "new")
      BY <2>1, <3>1 DEF Filled, Rows, q, r
    <3> QED BY <3>2, <3>3 DEF q
  <2>3. CASE i \notin job.rows
    BY <1>1, <1>3, <1>4, <2>3
  <2> QED BY <2>2, <2>3
<1> HIDE DEF s, t, b
<1>6. s = t
  BY <1>1, <1>3, <1>4, <1>5, SameSeq
<1> QED BY <1>1, <1>6

LEMMA ConfigureIsWhole ==
  ASSUME EditInv, job.kind = "size", doc = "MCE", job.todo = << >>, ConfigureWhole(job)
  PROVE  p \in job.want
<1> DEFINE k == p.configurations
<1>1. /\ \A c \in Selected(before.chosen, k) :
           [before EXCEPT !.configurations = k, !.chosen = c] \in job.want
      /\ p = [before EXCEPT !.configurations = k, !.chosen = p.chosen]
      /\ before.chosen <= k => p.chosen = before.chosen
  BY DEF ConfigureWhole, Asked
<1>2. p.chosen \in 1..k
  BY DEF EditInv, SelectionExists
<1>3. p.chosen \in Selected(before.chosen, k)
  BY <1>1, <1>2 DEF Selected
<1> QED BY <1>1, <1>3

\* The rows that are kept, followed by new ones.
LEMMA KeptRows ==
  ASSUME NEW b \in Seq(Rows), NEW k \in Nat \ {0}
  PROVE  LET t == KeptOf(b, k)
         IN  t \in Seq(Rows) /\ Len(t) = k /\ \A i \in 1..k : t[i] = IF i <= Len(b) THEN b[i] ELSE New
<1> DEFINE t == KeptOf(b, k)
           m == Smaller(Len(b), k)
           g == Greater(0, k - Len(b))
           x == SubSeq(b, 1, m)
           y == News(g)
<1>1. Len(b) \in Nat /\ m \in 0..Len(b) /\ g \in Nat /\ m + g = k /\ (m < Len(b) => g = 0)
  <2> DEFINE l == Len(b)
  <2>1. l \in Nat
    OBVIOUS
  <2> HIDE DEF l
  <2>2. /\ Smaller(l, k) \in 0..l /\ Greater(0, k - l) \in Nat
        /\ Smaller(l, k) + Greater(0, k - l) = k
        /\ Smaller(l, k) < l => Greater(0, k - l) = 0
    BY <2>1 DEF Smaller, Greater
  <2> QED BY <2>1, <2>2 DEF l
<1> HIDE DEF m, g
<1>2. x \in Seq(Rows) /\ Len(x) = m /\ \A i \in 1..m : x[i] = b[i]
  BY <1>1
<1>3. y \in Seq(Rows) /\ Len(y) = g /\ \A i \in 1..g : y[i] = New
  <2>1. New \in Rows
    BY DEF New, Row, Rows, Kinds, Fills
  <2> HIDE DEF New
  <2> QED BY <1>1, <2>1 DEF News
<1> HIDE DEF x, y
<1>4. /\ x \o y \in Seq(Rows) /\ Len(x \o y) = Len(x) + Len(y)
      /\ \A i \in 1..Len(x) : (x \o y)[i] = x[i]
      /\ \A i \in (Len(x) + 1)..(Len(x) + Len(y)) : (x \o y)[i] = y[i - Len(x)]
  BY <1>2, <1>3, ConcatParts, Zenon
<1>5. t = x \o y
  BY DEF KeptOf, x, y, m, g
<1> HIDE DEF t
<1>6. ASSUME NEW i \in 1..k PROVE t[i] = IF i <= Len(b) THEN b[i] ELSE New
  <2>1. CASE i <= m
    <3>1. i \in 1..m /\ i \in 1..Len(x) /\ i <= Len(b)
      BY <1>1, <1>2, <2>1
    <3> QED BY <1>2, <1>4, <1>5, <3>1
  <2>2. CASE ~(i <= m)
    <3>1. i - m \in 1..g /\ ~(i <= Len(b)) /\ i \in (Len(x) + 1)..(Len(x) + Len(y))
      BY <1>1, <1>2, <1>3, <2>2
    <3> QED BY <1>2, <1>3, <1>4, <1>5, <3>1
  <2> QED BY <2>1, <2>2
<1>7. t \in Seq(Rows) /\ Len(t) = k
  BY <1>1, <1>2, <1>3, <1>4, <1>5
<1> QED BY <1>6, <1>7 DEF t

LEMMA SizeIsWhole ==
  ASSUME EditInv, PlainRows, job.kind = "size", Resizable, job.todo = << >>, SizeWhole(job)
  PROVE  p \in job.want
<1> DEFINE k == job.size
           s == p.rows
           b == before.rows
<1>1. /\ p = [before EXCEPT !.rows = s, !.chosen = p.chosen]
      /\ LoopsFirst(job)
      /\ IF job.op \in Refills THEN RefillWhole(job) ELSE KeepWhole(job)
  BY DEF SizeWhole
<1>2. /\ s \in Seq(Rows) /\ b \in Seq(Rows) /\ Len(s) = n /\ n \in Nat /\ k \in Nat \ {0}
      /\ Len(b) \in Nat /\ New \in Rows
      /\ p.chosen \in Nat /\ before.chosen \in Nat
  BY DEF EditInv, Formed, IsJob, Plan, SizePlan, Lenses, n, New, Row, Rows, Kinds, Fills
<1>3. n = k
  BY <1>1, <1>2 DEF LoopsFirst
<1>4. \A row : ~Pending(job, row)
  BY DEF Pending
<1>5. doc = "Wavelengths" => p.chosen \in 1..k
  BY <1>3 DEF EditInv, SelectionExists
<1>6. CASE job.op \in Refills
  <2>1. \A i \in 1..k : s[i].fill = "new" /\ s[i].kind = "row" /\ s[i] \in Rows
    BY <1>1, <1>2, <1>3, <1>4, <1>6 DEF RefillWhole, PlainRows, Resizable
  <2>2. \A row \in Rows : row.fill = "new" /\ row.kind = "row" => row = New
    BY DEF Rows, New, Row
  <2>3. \A i \in 1..k : s[i] = New
    BY <2>1, <2>2
  <2>4. News(k) \in Seq(Rows) /\ Len(News(k)) = k /\ \A i \in 1..k : News(k)[i] = New
    BY <1>2 DEF News
  <2>5. s = News(k)
    <3> HIDE DEF s
    <3> DEFINE t == News(k)
    <3> HIDE DEF t
    <3>1. t \in Seq(Rows) /\ Len(s) = Len(t) /\ \A i \in 1..Len(s) : s[i] = t[i]
      BY <1>2, <1>3, <2>3, <2>4 DEF t
    <3>2. s = t
      BY <1>2, <3>1, SameSeq
    <3> QED BY <3>2 DEF t
  <2>6. [before EXCEPT !.rows = News(k), !.chosen = p.chosen] \in job.want
    BY <1>1, <1>6 DEF RefillWhole, Asked, Resizable
  <2> QED BY <1>1, <2>5, <2>6
<1>7. CASE job.op \notin Refills
  <2> DEFINE t == KeptOf(b, k)
  <2>1. /\ \A c \in IF doc = "Wavelengths" THEN Selected(before.chosen, k) ELSE {before.chosen} :
             [before EXCEPT !.rows = t, !.chosen = c] \in job.want
        /\ \A i \in 1..n : s[i] = IF i <= Len(b) THEN b[i] ELSE New
        /\ doc = "Fields" \/ before.chosen <= k => p.chosen = before.chosen
    BY <1>1, <1>7 DEF KeepWhole
  <2>2. p.chosen \in IF doc = "Wavelengths" THEN Selected(before.chosen, k) ELSE {before.chosen}
    BY <1>2, <1>5, <2>1 DEF Selected, Resizable
  <2>3. t \in Seq(Rows) /\ Len(t) = k /\ \A i \in 1..k : t[i] = IF i <= Len(b) THEN b[i] ELSE New
    BY <1>2, KeptRows
  <2>4. s = t
    <3> HIDE DEF s, t
    <3>1. Len(s) = Len(t) /\ \A i \in 1..Len(s) : s[i] = t[i]
      BY <1>2, <1>3, <2>1, <2>3
    <3> QED BY <1>2, <2>3, <3>1, SameSeq
  <2> QED BY <1>1, <2>1, <2>2, <2>4
<1> QED BY <1>6, <1>7

LEMMA WholeAtTheEnd ==
  ASSUME EditInv, WholeInv, job.result = "ok", ~missed
  PROVE  p \in job.want /\ (job.kind = "add" => p.rows[job.row].fill = "new")
<1>1. WholePlan(job) /\ PlainRows
  BY DEF WholeInv
<1>2. job.todo = << >> /\ IsJob(job)
  BY DEF EditInv, Formed, Ended
<1>3. \A row : ~Pending(job, row)
  BY <1>2 DEF Pending
<1>4. CASE job.kind \in {"none", "read"}
  BY <1>1, <1>4 DEF WholePlan, ReadWhole
<1>5. CASE job.kind \in Single
  BY <1>1, <1>2, <1>5 DEF WholePlan, SingleWhole, Single
<1>6. CASE job.kind = "write"
  BY <1>1, <1>2, <1>6, WriteIsWhole DEF WholePlan
<1>7. CASE job.kind = "size"
  BY <1>1, <1>2, <1>7, ConfigureIsWhole, SizeIsWhole DEF WholePlan
<1>8. CASE job.kind = "add"
  <2> DEFINE r == p.rows[job.row]
  <2>1. /\ [before EXCEPT !.rows = InsertAt(@, job.row, New)] \in job.want
        /\ p = [before EXCEPT !.rows = InsertAt(@, job.row, r)]
        /\ r.kind = "row" /\ r.fill = "new"
        /\ job.row \in 1..(Len(before.rows) + 1)
    BY <1>1, <1>2, <1>3, <1>8 DEF WholePlan, AddWhole, Filling
  <2>2. r \in Rows
    <3>1. p.rows \in Seq(Rows) /\ before.rows \in Seq(Rows) /\ before \in Lenses
      BY DEF EditInv, Formed, Lenses
    <3>2. Len(p.rows) = Len(before.rows) + 1
      <4> DEFINE b == before.rows
                 i == job.row
                 R == Rows \cup {r}
                 t == InsertAt(b, i, r)
      <4>1. p.rows = t
        BY <2>1, <3>1 DEF Lenses
      <4>2. i \in 1..(Len(b) + 1) /\ b \in Seq(R) /\ r \in R
        BY <2>1, <3>1
      <4> HIDE DEF b, i, r, R
      <4>3. Len(t) = Len(b) + 1
        BY <4>2, InsertAtParts
      <4> QED BY <4>1, <4>3 DEF b
    <3>3. job.row \in 1..Len(p.rows)
      BY <2>1, <3>2
    <3> QED BY <3>1, <3>3
  <2>3. r = New
    <3> HIDE DEF r
    <3> QED BY <2>1, <2>2 DEF Rows, New, Row
  <2> QED BY <1>8, <2>1, <2>3
<1> QED BY <1>2, <1>4, <1>5, <1>6, <1>7, <1>8 DEF IsJob, JobKinds, Single

-----------------------------------------------------------------------------
LEMMA EditStepKeepsWhole == ASSUME EditInv, WholeInv, EditStep PROVE WholeInv'
<1> DEFINE e == Head(job.todo)
<1>1. /\ job.todo # << >> /\ doc' = doc /\ before' = before /\ missed' = missed
      /\ job.result = "none" /\ job.kind \notin {"none", "read"}
  BY FirstEdit DEF EditStep
<1>2. PlainRows'
  BY RowsArePlain DEF WholeInv
<1>3. CASE Looping(e)
  <2>1. job' = job /\ p' \in Outcomes(e)
    BY <1>3 DEF EditStep
  <2>2. ~missed /\ job.final = "ok" => WholePlan(job)
    BY <1>1 DEF WholeInv
  <2>3. job # NoJob
    BY <1>1, NoJobParts
  <2>4. ~missed /\ job.final = "ok" => WholePlan(job)'
    BY <1>1, <1>3, <2>1, <2>2, PlanLoopsOn
  <2> QED BY <1>1, <1>2, <2>1, <2>3, <2>4 DEF WholeInv, Idle
<1>4. CASE ~Looping(e)
  <2>1. /\ Moves
        /\ IF e.act \in {"shrink", "grow"} THEN p' = p ELSE p' \in Outcomes(e)
    BY <1>1, <1>4 DEF EditStep, GoesOn, Moves
  <2>2. /\ job'.kind = job.kind /\ job'.final = job.final
        /\ job'.result \in {job.final, "none"}
    BY <1>1, <2>1, NextEdit
  <2>3. job' # NoJob
    BY <1>1, <2>2, NoJobParts
  <2>4. ~missed /\ job.final = "ok" => WholePlan(job)'
    BY <1>1, <1>4, <2>1, PlanGoesOn DEF WholeInv
  <2> QED BY <1>1, <1>2, <2>2, <2>3, <2>4 DEF WholeInv, Idle
<1> QED BY <1>3, <1>4

\* When OpticStudio has missed an edit, the operation no longer leads to what was asked
\* for; the rows are as they were.
LEMMA EditMissedKeepsWhole == ASSUME EditInv, WholeInv, EditMissed PROVE WholeInv'
<1>1. Moves /\ job.todo # << >> /\ p' = p /\ doc' = doc /\ missed' = TRUE
  BY DEF EditMissed, GoesOn, Moves
<1>2. /\ job'.kind = job.kind /\ job'.final = job.final /\ job'.result \in {job.final, "none"}
      /\ job.kind # "none"
  BY <1>1, FirstEdit, NextEdit
<1>3. job' # NoJob
  BY <1>2, NoJobParts
<1>4. PlainRows'
  BY <1>1 DEF WholeInv, PlainRows, n
<1> QED BY <1>1, <1>2, <1>3, <1>4 DEF WholeInv, Idle

LEMMA EditRaisesKeepsWhole == ASSUME EditInv, WholeInv, EditRaises PROVE WholeInv'
<1>1. job'.result \in {"refused", "error"}
  BY FirstEdit DEF EditRaises, EditInv, Formed, IsJob
<1>2. job' # NoJob
  BY <1>1, NoJobParts
<1>3. PlainRows'
  BY DEF WholeInv, PlainRows, EditRaises, n
<1> QED BY <1>1, <1>2, <1>3 DEF WholeInv, Idle

\* Nothing is left to do where nothing is asked for.
LEMMA NoJobIsWhole == ASSUME job = NoJob PROVE WholePlan(job)
<1>1. job.todo = << >> /\ job.kind = "none" /\ job.result = "none"
  BY NoJobParts
<1> QED BY <1>1 DEF WholePlan, Mended, WriteWhole, AddWhole, SingleWhole, ReadWhole, ConfigureWhole,
                    SizeWhole, Single

LEMMA ReplyKeepsWhole == ASSUME EditInv, WholeInv, Reply PROVE WholeInv'
<1> DEFINE s == p.rows
           t == [i \in DOMAIN s |-> Settle(s[i])]
<1>1. p \in Lenses /\ s \in Seq(Rows)
  BY DEF EditInv, Formed, Lenses
<1>2. /\ job' = NoJob /\ doc' = doc /\ before' = p'
      /\ p' = [p EXCEPT !.rows = t]
  BY <1>1 DEF Reply, Lenses
<1>3. WholePlan(job)'
  <2>1. job'.todo = << >> /\ job'.kind = "none" /\ job'.result = "none"
    BY <1>2, NoJobParts
  <2> QED BY <2>1 DEF WholePlan, Mended, WriteWhole, AddWhole, SingleWhole, ReadWhole,
                      ConfigureWhole, SizeWhole, Single
<1>4. p'.rows = t
  BY <1>1, <1>2 DEF Lenses
<1>5. \A i \in 1..Len(s) : s[i] \in Rows
  BY <1>1
<1>6. DOMAIN s = 1..Len(s) /\ Len(s) \in Nat
  BY <1>1
<1>7. PlainRows => PlainRows'
  <2> SUFFICES ASSUME \A i \in 1..Len(s) : s[i].kind = "row"
               PROVE  \A i \in 1..Len(t) : t[i].kind = "row"
    BY <1>2, <1>4 DEF PlainRows, n
  <2> HIDE DEF s
  <2>1. Len(t) = Len(s)
    BY <1>6
  <2>2. \A row \in Rows : Settle(row).kind = row.kind
    BY DEF Settle, Rows
  <2> QED BY <1>5, <1>6, <2>1, <2>2
<1> QED BY <1>2, <1>3, <1>7, NoJobParts DEF WholeInv

LEMMA InitWholeInv == EditInit => WholeInv
<1> SUFFICES ASSUME EditInit PROVE WholeInv
  OBVIOUS
<1>1. job = NoJob /\ before = p /\ p.rows = InitialRows(doc) /\ doc \in Documents
  BY DEF EditInit
<1>2. PlainRows
  <2> SUFFICES ASSUME doc # "LDE" PROVE \A i \in 1..Len(p.rows) : p.rows[i].kind = "row"
    BY DEF PlainRows, n
  <2>1. \E k \in Nat : p.rows = Olds(k)
    <3>1. Len(Cells) \in Nat
      BY DEF Cells
    <3> QED BY <1>1, <3>1 DEF InitialRows, Documents
  <2> QED BY <2>1 DEF Olds, Old, Row
<1>3. job.result = "none" /\ job.final = "ok"
  BY <1>1, NoJobParts
<1> QED BY <1>1, <1>2, <1>3, NoJobIsWhole DEF WholeInv

\* What an operation has to bring with it.
Begins(j) == /\ j.result = "ok" => j.final = "ok"
             /\ j.final = "ok" => WholePlan(j)
LEMMA AskKeepsWhole ==
  ASSUME EditInv, WholeInv, NEW op, NEW accepted, NEW j, Ask(op, accepted, j),
         accepted /\ before = p => Begins(j)
  PROVE  WholeInv'
<1>1. /\ before = p /\ PlainRows /\ before' = p /\ p' = p /\ doc' = doc
      /\ missed' = missed
  BY DEF Ask, WholeInv
<1>2. PlainRows'
  BY <1>1 DEF PlainRows, n
<1>3. CASE accepted /\ job' = j
  <2>1. Begins(j)
    BY <1>1, <1>3
  <2>2. ASSUME WholePlan(j) PROVE WholePlan(job)'
    <3>1. WriteWhole(job)'
      BY <1>1, <1>3, <2>2 DEF WholePlan, WriteWhole, Renewed, Filling, Pending, n
    <3>2. AddWhole(job)'
      BY <1>1, <1>3, <2>2 DEF WholePlan, AddWhole, Filling, Pending
    <3>3. SingleWhole(job)' /\ ReadWhole(job)'
      <4>1. \A e : Outcomes(e)' = Outcomes(e)
        BY <1>1 DEF Outcomes, Sized, Held, Reached, n
      <4> QED BY <1>1, <1>3, <2>2, <4>1 DEF WholePlan, SingleWhole, ReadWhole
    <3>4. ConfigureWhole(job)'
      BY <1>1, <1>3, <2>2 DEF WholePlan, ConfigureWhole, Asked, LastEdit
    <3>5. SizeWhole(job)'
      BY <1>1, <1>3, <2>2 DEF WholePlan, SizeWhole, LoopsFirst, RefillWhole, KeepWhole, Asked,
                              LastEdit, Loops, Pending, Resizable, n
    <3> QED BY <1>1, <1>3, <2>2, <3>1, <3>2, <3>3, <3>4, <3>5 DEF WholePlan, Mended, Resizable
  <2> QED BY <1>1, <1>2, <1>3, <2>1, <2>2 DEF WholeInv, Begins
<1>4. CASE job' = Refusal(op)
  <2>1. job'.result = "refused"
    BY <1>4, NoJobParts DEF Refusal, NoJob
  <2>2. job' # NoJob
    BY <2>1, NoJobParts
  <2> QED BY <1>1, <1>2, <2>1, <2>2 DEF WholeInv, Idle
<1> QED BY <1>3, <1>4 DEF Ask, Refusal

-----------------------------------------------------------------------------
\* What each kind of operation brings with it.
LEMMA WriteBegins ==
  ASSUME EditInv, before = p, NEW j, j.kind = "write", j.final = "ok", Mended(j),
         [p EXCEPT !.rows = Renewed(@, j.rows)] \in j.want,
         \A i \in j.rows : Pending(j, i)
  PROVE  Begins(j)
<1>1. WriteWhole(j)
  <2>1. p = [before EXCEPT !.rows = p.rows] /\ n = Len(before.rows)
    BY DEF EditInv, Formed, Lenses, n
  <2> QED BY <2>1 DEF WriteWhole, Filling
<1>2. AddWhole(j) /\ SingleWhole(j) /\ ReadWhole(j) /\ ConfigureWhole(j) /\ SizeWhole(j)
  BY DEF AddWhole, SingleWhole, ReadWhole, ConfigureWhole, SizeWhole, Single
<1> QED BY <1>1, <1>2 DEF Begins, WholePlan

LEMMA AddBegins ==
  ASSUME EditInv, before = p, NEW j, j.kind = "add", j.result = "none", Mended(j),
         [p EXCEPT !.rows = InsertAt(@, j.row, New)] \in j.want, j.row \in 1..(n + 1),
         j.todo # << >>, j.todo[1].act = "insert",
         j.todo[1].fill = "new" \/ Pending(j, j.row)
  PROVE  Begins(j)
<1>1. AddWhole(j)
  BY DEF AddWhole, n
<1>2. WriteWhole(j) /\ SingleWhole(j) /\ ReadWhole(j) /\ ConfigureWhole(j) /\ SizeWhole(j)
  BY DEF WriteWhole, SingleWhole, ReadWhole, ConfigureWhole, SizeWhole, Single
<1> QED BY <1>1, <1>2 DEF Begins, WholePlan

LEMMA SingleBegins ==
  ASSUME before = p, NEW j, j.kind \in Single, j.final = "ok", j.todo # << >>,
         \A i \in 1..Len(j.todo) : j.todo[i].act # "write",
         Outcomes(j.todo[1]) \subseteq j.want
  PROVE  Begins(j)
<1>1. Mended(j) /\ SingleWhole(j)
  BY DEF Mended, SingleWhole
<1>2. WriteWhole(j) /\ AddWhole(j) /\ ReadWhole(j) /\ ConfigureWhole(j) /\ SizeWhole(j)
  BY DEF WriteWhole, AddWhole, ReadWhole, ConfigureWhole, SizeWhole, Single
<1> QED BY <1>1, <1>2 DEF Begins, WholePlan, Single

LEMMA ReadBegins ==
  ASSUME NEW j, j.kind \in {"none", "read"}, j.final = "ok", j.todo = << >>, p \in j.want
  PROVE  Begins(j)
<1>1. Mended(j) /\ ReadWhole(j)
  BY DEF Mended, ReadWhole
<1>2. WriteWhole(j) /\ AddWhole(j) /\ SingleWhole(j) /\ ConfigureWhole(j) /\ SizeWhole(j)
  BY DEF WriteWhole, AddWhole, SingleWhole, ConfigureWhole, SizeWhole, Single
<1> QED BY <1>1, <1>2 DEF Begins, WholePlan

LEMMA SizeBegins ==
  ASSUME NEW j, j.kind = "size", j.final = "ok", Mended(j), doc = "MCE" \/ Resizable,
         ConfigureWhole(j), SizeWhole(j)
  PROVE  Begins(j)
BY DEF Begins, WholePlan, WriteWhole, AddWhole, SingleWhole, ReadWhole, Single

\* Edits of one row that end with its last value.
Finishes(s, row) == s # << >> /\ Completes(s[Len(s)], row)
LEMMA OneRowMends ==
  ASSUME NEW j, NEW row, j.todo \in Seq(Edits), Finishes(j.todo, row),
         \A i \in 1..Len(j.todo) : j.todo[i].act = "write" => j.todo[i].at = row
  PROVE  Mended(j) /\ Pending(j, row)
<1> DEFINE s == j.todo
<1>1. Len(s) \in 1..Len(s) /\ \A i \in 1..Len(s) : Len(s) \in i..Len(s)
  <2>1. Len(s) # 0 /\ Len(s) \in Nat
    BY EmptySeq DEF Finishes
  <2> QED BY <2>1
<1> QED BY <1>1 DEF Mended, Pending, Finishes

LEMMA LastOfConcat ==
  ASSUME NEW S, NEW s \in Seq(S), NEW t \in Seq(S), t # << >>
  PROVE  s \o t # << >> /\ (s \o t)[Len(s \o t)] = t[Len(t)]
<1>1. Len(s) \in Nat /\ Len(t) \in Nat \ {0}
  BY EmptySeq
<1>2. /\ s \o t \in Seq(S) /\ Len(s \o t) = Len(s) + Len(t)
      /\ \A k \in (Len(s) + 1)..(Len(s) + Len(t)) : (s \o t)[k] = t[k - Len(s)]
  BY ConcatParts
<1> DEFINE u == s \o t
<1> HIDE DEF u
<1>3. Len(u) \in (Len(s) + 1)..(Len(s) + Len(t)) /\ Len(u) - Len(s) = Len(t) /\ Len(u) # 0
  BY <1>1, <1>2 DEF u
<1>4. u # << >>
  BY <1>3
<1> QED BY <1>2, <1>3, <1>4 DEF u

LEMMA WholeFinishes ==
  ASSUME NEW row \in Nat
  PROVE  /\ Finishes(Whole(row), row) /\ Whole(row) \in Seq(Edits) /\ Len(Whole(row)) = 1
         /\ Whole(row)[1].at = row /\ Completes(Whole(row)[1], row) /\ Whole(row)[1] \in Edits
<1>1. "write" \in Acts /\ "new" \in Fills \cup Modes
  BY DEF Acts, Fills
<1> DEFINE s == Edit("write", row, "new")
<1>2. /\ s \in Seq(Edits) /\ Len(s) = 1 /\ s # << >>
      /\ s[1].act = "write" /\ s[1].at = row /\ s[1].fill = "new"
  BY <1>1, EditForm
<1>3. Whole(row) = s
  BY DEF Whole, Write
<1> HIDE DEF s
<1>4. s[1] \in Edits
  BY <1>2
<1> QED BY <1>2, <1>3, <1>4 DEF Finishes, Completes

LEMMA ThenWhole ==
  ASSUME NEW row \in Nat, NEW s \in Seq(Edits)
  PROVE  s \o Whole(row) \in Seq(Edits) /\ Finishes(s \o Whole(row), row)
<1> DEFINE t == Whole(row)
<1>1. t \in Seq(Edits) /\ Finishes(t, row)
  BY WholeFinishes
<1> HIDE DEF t
<1>2. s \o t # << >> /\ (s \o t)[Len(s \o t)] = t[Len(t)]
  BY <1>1, LastOfConcat DEF Finishes
<1>3. s \o t \in Seq(Edits)
  BY <1>1
<1> QED BY <1>1, <1>2, <1>3 DEF Finishes, t

LEMMA RowFinishes ==
  ASSUME NEW row \in Nat
  PROVE  /\ Finishes(Whole(row), row) /\ Finishes(Several(row), row) /\ Finishes(Typed(row), row)
         /\ Finishes(CheckedLate(row), row) /\ Finishes(ItemByItem(row), row)
<1> DEFINE typed == Write(row, "part")
           check == Check
<1>1. typed \in Seq(Edits) /\ check \in Seq(Edits)
  BY WriteForm, CheckForm, Wider, EditsAreEdits DEF Fills
<1>2. /\ Several(row) = typed \o Whole(row)
      /\ Typed(row) = (check \o typed) \o Whole(row)
      /\ CheckedLate(row) = (typed \o check) \o Whole(row)
      /\ ItemByItem(row) = ((check \o typed) \o check) \o Whole(row)
  BY DEF Whole, Several, Typed, Retype, CheckedLate, ItemByItem
<1> HIDE DEF typed, check
<1>3. check \o typed \in Seq(Edits) /\ typed \o check \in Seq(Edits)
      /\ (check \o typed) \o check \in Seq(Edits)
  BY <1>1
<1> QED BY <1>1, <1>2, <1>3, WholeFinishes, ThenWhole

\* A row is renewed by writing its last value.
LEMMA RenewedRow ==
  ASSUME NEW q \in Lenses, NEW row \in Nat
  PROVE  [q EXCEPT !.rows[row].fill = "new"] = [q EXCEPT !.rows = Renewed(@, {row})]
<1> DEFINE s == q.rows
           t == Written(s, row, "new")
           u == Renewed(s, {row})
<1>1. [q EXCEPT !.rows[row].fill = "new"] = [q EXCEPT !.rows = t]
  BY DEF Lenses, Written
<1>2. s \in Seq(Rows) /\ "new" \in Fills
  BY DEF Lenses, Fills
<1> HIDE DEF s
<1>3. /\ t \in Seq(Rows) /\ Len(t) = Len(s)
      /\ \A k \in (1..Len(s)) \ {row} : t[k] = s[k]
      /\ row \in 1..Len(s) => t[row] = Filled(s[row], "new")
  BY <1>2, WriteParts
<1>4. \A k \in 1..Len(s) : s[k] \in Rows /\ Filled(s[k], "new") \in Rows
  BY <1>2, FilledRow
<1>5. /\ u \in Seq(Rows) /\ Len(u) = Len(s)
      /\ \A k \in 1..Len(s) : u[k] = IF k = row THEN Filled(s[k], "new") ELSE s[k]
  BY <1>2, <1>4 DEF Renewed
<1> HIDE DEF t, u
<1>6. t = u
  BY <1>3, <1>5, SameSeq
<1> QED BY <1>1, <1>6 DEF s, u

LEMMA WriteRowKeepsWhole ==
  ASSUME EditInv, WholeInv, NEW op, NEW row \in Nat, NEW accepted,
         NEW todo \in Seq(Edited({row})), Finishes(todo, row), WriteRow(op, row, accepted, todo)
  PROVE  WholeInv'
<1> DEFINE may == row \in 1..n /\ accepted
           want == {[p EXCEPT !.rows[row].fill = "new"]}
           j == Request(op, "write", row, todo, want)
<1>1. Ask(op, may, j)
  BY DEF WriteRow
<1>2. /\ j.kind = "write" /\ j.rows = {row} /\ j.todo = todo /\ j.final = "ok" /\ j.want = want
  BY RequestParts DEF Request
<1>3. [p EXCEPT !.rows = Renewed(@, {row})] \in want
  BY RenewedRow DEF EditInv, Formed
<1>4. \A i \in 1..Len(todo) : todo[i].act = "write" => todo[i].at = row
  <2>1. \A i \in 1..Len(todo) : todo[i] \in Edited({row})
    OBVIOUS
  <2> QED BY <2>1 DEF Edited, WritesTo, Checks
<1>5. todo \in Seq(Edits)
  BY Wider, EditsAreEdits DEF Edited
<1> HIDE DEF may, j, want
<1>6. Mended(j) /\ Pending(j, row)
  BY <1>2, <1>4, <1>5, OneRowMends
<1>7. before = p => Begins(j)
  BY <1>2, <1>3, <1>6, WriteBegins
<1> QED BY <1>1, <1>7, AskKeepsWhole

LEMMA SurfacesStayWhole ==
  ASSUME EditInv, WholeInv, \/ set_surface \/ set_surface_common \/ set_surface_variable
                            \/ set_surface_type \/ set_surface_parameter \/ set_surface_solve
                            \/ set_aspheric_surface \/ set_extra_data
  PROVE  WholeInv'
<1>1. ASSUME NEW op, NEW row \in SurfaceRows,
             \/ OnSurface(op, row, Several(row)) \/ OnSurface(op, row, Whole(row))
             \/ OnSurface(op, row, ItemByItem(row)) \/ OnSurface(op, row, CheckedLate(row))
      PROVE  WholeInv'
  BY <1>1, SurfaceRowsAreRows, WriteRowKeepsWhole, RowEdits, RowFinishes DEF OnSurface
<1> QED BY <1>1 DEF set_surface, set_surface_common, set_surface_variable, set_surface_type,
                    set_surface_parameter, set_surface_solve, set_aspheric_surface, set_extra_data

LEMMA ObjectsStayWhole ==
  ASSUME EditInv, WholeInv, \/ set_object \/ set_object_parameter \/ set_source_spectrum
                            \/ load_detector \/ set_configuration_operand_value
  PROVE  WholeInv'
<1>1. \A row \in ObjectNumbers : row \in Nat
  BY EditorAssumption DEF ObjectNumbers
<1>2. ASSUME NEW op, NEW row \in ObjectNumbers,
             \/ OnObject(op, row, Typed(row)) \/ OnObject(op, row, Whole(row))
             \/ OnObject(op, row, CheckedLate(row))
      PROVE  WholeInv'
  BY <1>1, <1>2, WriteRowKeepsWhole, RowEdits, RowFinishes DEF OnObject
<1>3. CASE set_configuration_operand_value
  <2>1. PICK row, op, accepted : row \in Nat /\ WriteRow(op, row, accepted, Whole(row))
    BY <1>3, OperandValues
  <2> QED BY <2>1, WriteRowKeepsWhole, RowEdits, RowFinishes
<1> QED BY <1>2, <1>3 DEF set_object, set_object_parameter, set_source_spectrum, load_detector

\* The settings: every cell is left whole.
Mending(s) == \A i \in 1..Len(s) :
  s[i].act = "write" => \E k \in i..Len(s) : Completes(s[k], s[i].at)
CompletedIn(s, cell) == \E i \in 1..Len(s) : Completes(s[i], cell)
LEMMA GivenWhole ==
  ASSUME NEW cells \in SUBSET Nat, NEW cell \in Nat
  PROVE  /\ Given(cells, cell) \in Seq(Edited(cells)) /\ Mending(Given(cells, cell))
         /\ GivenSeveral(cells, cell) \in Seq(Edited(cells)) /\ Mending(GivenSeveral(cells, cell))
         /\ cell \in cells => /\ CompletedIn(Given(cells, cell), cell)
                              /\ CompletedIn(GivenSeveral(cells, cell), cell)
<1>1. WritesTo(cells) \subseteq Edited(cells)
  BY DEF Edited
<1>2. Given(cells, cell) \in Seq(Edited(cells)) /\ GivenSeveral(cells, cell) \in Seq(Edited(cells))
  BY <1>1, GivenCells, Wider
<1>3. ASSUME NEW s \in Seq(Edited({cell})), Finishes(s, cell)
      PROVE  Mending(s) /\ CompletedIn(s, cell)
  <2>1. \A i \in 1..Len(s) : s[i].act = "write" => s[i].at = cell
    <3>1. \A i \in 1..Len(s) : s[i] \in Edited({cell})
      OBVIOUS
    <3> QED BY <3>1 DEF Edited, WritesTo, Checks
  <2>2. Len(s) \in 1..Len(s) /\ \A i \in 1..Len(s) : Len(s) \in i..Len(s)
    <3>1. Len(s) # 0 /\ Len(s) \in Nat
      BY <1>3, EmptySeq DEF Finishes
    <3> QED BY <3>1
  <2> QED BY <1>3, <2>1, <2>2 DEF Mending, CompletedIn, Finishes
<1>4. CASE cell \in cells
  <2>1. Given(cells, cell) = Whole(cell) /\ GivenSeveral(cells, cell) = Several(cell)
    BY <1>4 DEF Given, GivenSeveral
  <2>2. /\ Mending(Whole(cell)) /\ CompletedIn(Whole(cell), cell)
        /\ Mending(Several(cell)) /\ CompletedIn(Several(cell), cell)
    BY <1>3, RowEdits, RowFinishes
  <2> QED BY <1>2, <2>1, <2>2
<1>5. CASE cell \notin cells
  <2>1. Given(cells, cell) = << >> /\ GivenSeveral(cells, cell) = << >>
    BY <1>5 DEF Given, GivenSeveral
  <2>2. Mending(<< >>)
    BY DEF Mending
  <2> QED BY <1>2, <1>5, <2>1, <2>2
<1> QED BY <1>4, <1>5

LEMMA InConcat ==
  ASSUME NEW S, NEW s \in Seq(S), NEW t \in Seq(S)
  PROVE  /\ \A i \in 1..Len(s) : \E k \in 1..Len(s \o t) : (s \o t)[k] = s[i]
         /\ \A i \in 1..Len(t) : \E k \in 1..Len(s \o t) : (s \o t)[k] = t[i]
<1> DEFINE u == s \o t
<1>1. Len(s) \in Nat /\ Len(t) \in Nat
  OBVIOUS
<1>2. /\ Len(u) = Len(s) + Len(t)
      /\ \A k \in 1..Len(s) : u[k] = s[k]
      /\ \A k \in (Len(s) + 1)..(Len(s) + Len(t)) : u[k] = t[k - Len(s)]
  BY ConcatParts
<1> HIDE DEF u
<1>3. ASSUME NEW i \in 1..Len(s) PROVE \E k \in 1..Len(u) : u[k] = s[i]
  <2>1. i \in 1..Len(u)
    BY <1>1, <1>2
  <2> QED BY <1>2, <2>1
<1>4. ASSUME NEW i \in 1..Len(t) PROVE \E k \in 1..Len(u) : u[k] = t[i]
  <2>1. /\ Len(s) + i \in (Len(s) + 1)..(Len(s) + Len(t)) /\ (Len(s) + i) - Len(s) = i
        /\ Len(s) + i \in 1..Len(u)
    BY <1>1, <1>2
  <2>2. u[Len(s) + i] = t[i]
    BY <1>2, <2>1
  <2> QED BY <2>1, <2>2
<1> QED BY <1>3, <1>4 DEF u

LEMMA CompletedInConcat ==
  ASSUME NEW S, NEW s \in Seq(S), NEW t \in Seq(S), NEW cell,
         CompletedIn(s, cell) \/ CompletedIn(t, cell)
  PROVE  CompletedIn(s \o t, cell)
<1>1. /\ \A i \in 1..Len(s) : \E k \in 1..Len(s \o t) : (s \o t)[k] = s[i]
      /\ \A i \in 1..Len(t) : \E k \in 1..Len(s \o t) : (s \o t)[k] = t[i]
  BY InConcat
<1> DEFINE u == s \o t
<1> HIDE DEF u
<1>2. CompletedIn(u, cell)
  BY <1>1 DEF CompletedIn, u
<1> QED BY <1>2 DEF u
LEMMA MendingConcat ==
  ASSUME NEW S, NEW s \in Seq(S), NEW t \in Seq(S), Mending(s), Mending(t)
  PROVE  s \o t \in Seq(S) /\ Mending(s \o t)
<1> DEFINE u == s \o t
<1>1. Len(s) \in Nat /\ Len(t) \in Nat
  OBVIOUS
<1>2. /\ u \in Seq(S) /\ Len(u) = Len(s) + Len(t)
      /\ \A k \in 1..Len(s) : u[k] = s[k]
      /\ \A k \in (Len(s) + 1)..(Len(s) + Len(t)) : u[k] = t[k - Len(s)]
  BY ConcatParts
<1> HIDE DEF u
<1>3. ASSUME NEW i \in 1..Len(u), u[i].act = "write"
      PROVE  \E k \in i..Len(u) : Completes(u[k], u[i].at)
  <2>1. CASE i \in 1..Len(s)
    <3>1. PICK k \in i..Len(s) : Completes(s[k], s[i].at)
      BY <1>2, <1>3, <2>1 DEF Mending
    <3>2. k \in 1..Len(s) /\ k \in i..Len(u)
      BY <1>1, <1>2, <2>1, <3>1
    <3> QED BY <1>2, <2>1, <3>1, <3>2
  <2>2. CASE i \notin 1..Len(s)
    <3> DEFINE m == i - Len(s)
    <3>1. m \in 1..Len(t) /\ i \in (Len(s) + 1)..(Len(s) + Len(t)) /\ u[i] = t[m]
      BY <1>1, <1>2, <2>2
    <3>2. PICK k \in m..Len(t) : Completes(t[k], t[m].at)
      BY <1>3, <3>1 DEF Mending
    <3> DEFINE l == Len(s) + k
    <3>3. /\ l \in i..Len(u) /\ l \in (Len(s) + 1)..(Len(s) + Len(t)) /\ l - Len(s) = k
      BY <1>1, <1>2, <3>1, <3>2
    <3>4. u[l] = t[k]
      BY <1>2, <3>3
    <3> QED BY <3>1, <3>2, <3>3, <3>4
  <2> QED BY <2>1, <2>2
<1> QED BY <1>2, <1>3 DEF Mending, u
LEMMA AssignKeepsWhole ==
  ASSUME EditInv, WholeInv, NEW op, NEW cells \in SUBSET Nat, NEW todo, Mending(todo),
         \A cell \in cells : CompletedIn(todo, cell), Assign(op, cells, todo)
  PROVE  WholeInv'
<1> DEFINE want == {[p EXCEPT !.rows = [i \in DOMAIN @ |-> IF i \in cells THEN New ELSE @[i]]]}
           r == Request(op, "write", 0, todo, want)
           j == WithRows(r, cells)
           may == cells # {}
<1>1. Ask(op, may, j) /\ doc = "Settings"
  BY DEF Assign, WithRows
<1>2. /\ j.kind = "write" /\ j.rows = cells /\ j.todo = todo /\ j.final = "ok" /\ j.want = want
  BY DEF Request, WithRows
<1>3. [p EXCEPT !.rows = Renewed(@, cells)] \in want
  <2> DEFINE s == p.rows
             t == [i \in DOMAIN s |-> IF i \in cells THEN New ELSE s[i]]
  <2>1. p \in Lenses /\ s \in Seq(Rows) /\ \A i \in 1..Len(s) : s[i].kind = "row"
    BY <1>1 DEF EditInv, Formed, Lenses, WholeInv, PlainRows, n
  <2>2. [p EXCEPT !.rows = t] \in want
    BY <2>1 DEF Lenses
  <2>3. \A row \in Rows : row.kind = "row" => Filled(row, "new") = New
    BY DEF Rows, Filled, New, Row
  <2> HIDE DEF s, want
  <2>4. DOMAIN s = 1..Len(s) /\ \A i \in 1..Len(s) : s[i] \in Rows
    BY <2>1
  <2>5. Renewed(s, cells) = t
    BY <2>1, <2>3, <2>4 DEF Renewed
  <2> QED BY <2>2, <2>5 DEF s
<1> HIDE DEF want, j, may
<1>4. Mended(j)
  BY <1>2 DEF Mended, Mending
<1>5. before = p => Begins(j)
  BY <1>2, <1>3, <1>4, WriteBegins DEF Pending, CompletedIn
<1> QED BY <1>1, <1>5, AskKeepsWhole

\* Two cells, one after the other.
LEMMA TwoParts ==
  ASSUME NEW S, NEW s \in Seq(S), NEW t \in Seq(S), Mending(s), Mending(t), NEW cells,
         \A cell \in cells : CompletedIn(s, cell) \/ CompletedIn(t, cell)
  PROVE  s \o t \in Seq(S) /\ Mending(s \o t) /\ \A cell \in cells : CompletedIn(s \o t, cell)
<1>1. s \o t \in Seq(S) /\ Mending(s \o t)
  BY MendingConcat
<1>2. ASSUME NEW cell \in cells PROVE CompletedIn(s \o t, cell)
  BY CompletedInConcat
<1> QED BY <1>1, <1>2

LEMMA SettingsStayWhole ==
  ASSUME EditInv, WholeInv, \/ set_afocal_mode \/ set_aperture \/ set_apodization
                            \/ set_clear_semi_diameter_margin \/ set_ray_aiming \/ set_mtf_units
                            \/ set_system_units \/ set_title_notes \/ set_polarization
  PROVE  WholeInv'
<1>1. ASSUME NEW cell \in Nat, NEW op, Assign(op, {cell}, Whole(cell)) PROVE WholeInv'
  <2> DEFINE S == {cell}
             s == Whole(cell)
  <2>1. s = Given(S, cell) /\ S \in SUBSET Nat /\ cell \in S
    BY DEF Given
  <2>2. Mending(s) /\ CompletedIn(s, cell)
    <3> HIDE DEF s, S
    <3> QED BY <2>1, GivenWhole
  <2>3. Assign(op, S, s) /\ \A c \in S : CompletedIn(s, c)
    BY <1>1, <2>2
  <2> HIDE DEF s, S
  <2> QED BY <2>1, <2>2, <2>3, AssignKeepsWhole
<1>2. CASE set_aperture
  <2> DEFINE cells == {2, 3}
             s == Given(cells, 2)
             t == Given(cells, 3)
             E == Edited(cells)
  <2>1. s = Whole(2) /\ t = Whole(3) /\ cells \in SUBSET Nat /\ 2 \in cells /\ 3 \in cells
    BY DEF Given
  <2>2. /\ s \in Seq(E) /\ Mending(s) /\ CompletedIn(s, 2)
        /\ t \in Seq(E) /\ Mending(t) /\ CompletedIn(t, 3)
    <3> HIDE DEF cells
    <3> QED BY <2>1, GivenWhole
  <2>3. Assign("set_aperture", cells, s \o t)
    BY <1>2, <2>1 DEF set_aperture
  <2> HIDE DEF s, t, E
  <2>4. \A cell \in cells : CompletedIn(s, cell) \/ CompletedIn(t, cell)
    BY <2>2
  <2> HIDE DEF cells
  <2>5. Mending(s \o t) /\ \A cell \in cells : CompletedIn(s \o t, cell)
    BY <2>2, <2>4, TwoParts
  <2> QED BY <2>1, <2>3, <2>5, AssignKeepsWhole
<1>3. CASE set_apodization
  <2> DEFINE cells == {4, 5}
             s == Given(cells, 4)
             c == Check
             t == Given(cells, 5)
             E == Edited(cells)
  <2>1. s = Whole(4) /\ t = Whole(5) /\ cells \in SUBSET Nat /\ 4 \in cells /\ 5 \in cells
    BY DEF Given
  <2>2. /\ s \in Seq(E) /\ Mending(s) /\ CompletedIn(s, 4)
        /\ t \in Seq(E) /\ Mending(t) /\ CompletedIn(t, 5)
    <3> HIDE DEF cells
    <3> QED BY <2>1, GivenWhole
  <2>3. c \in Seq(E) /\ Mending(c)
    <3>1. Checks \subseteq E
      BY DEF Edited
    <3>2. c \in Seq(Checks)
      BY CheckForm
    <3>3. \A i \in 1..Len(c) : c[i].act = "check"
      <4> HIDE DEF c
      <4>1. \A i \in 1..Len(c) : c[i] \in Checks
        BY <3>2
      <4> QED BY <4>1 DEF Checks
    <3> QED BY <3>1, <3>2, <3>3, Wider DEF Mending
  <2>4. Assign("set_apodization", cells, (s \o c) \o t)
    BY <1>3, <2>1 DEF set_apodization
  <2> DEFINE d == s \o c
  <2> HIDE DEF s, c, t, E
  <2>5. d \in Seq(E) /\ Mending(d) /\ CompletedIn(d, 4)
    <3>1. \A cell \in {4} : CompletedIn(s, cell) \/ CompletedIn(c, cell)
      BY <2>2
    <3>2. d \in Seq(E) /\ Mending(d) /\ \A cell \in {4} : CompletedIn(d, cell)
      BY <2>2, <2>3, <3>1, TwoParts
    <3> QED BY <3>2
  <2> HIDE DEF d
  <2>6. \A cell \in cells : CompletedIn(d, cell) \/ CompletedIn(t, cell)
    BY <2>2, <2>5
  <2> HIDE DEF cells
  <2>7. Mending(d \o t) /\ \A cell \in cells : CompletedIn(d \o t, cell)
    BY <2>2, <2>5, <2>6, TwoParts
  <2>8. Assign("set_apodization", cells, d \o t)
    BY <2>4 DEF d
  <2> QED BY <2>1, <2>7, <2>8, AssignKeepsWhole
<1>4. CASE set_title_notes
  <2>1. PICK cells \in SUBSET {10, 11, 12} :
          Assign("set_title_notes", cells,
                 Given(cells, 10) \o Given(cells, 11) \o Given(cells, 12))
    BY <1>4 DEF set_title_notes
  <2> DEFINE a == Given(cells, 10)
             b == Given(cells, 11)
             c == Given(cells, 12)
             E == Edited(cells)
  <2>2. cells \in SUBSET Nat
    OBVIOUS
  <2>3. /\ a \in Seq(E) /\ Mending(a) /\ (10 \in cells => CompletedIn(a, 10))
        /\ b \in Seq(E) /\ Mending(b) /\ (11 \in cells => CompletedIn(b, 11))
        /\ c \in Seq(E) /\ Mending(c) /\ (12 \in cells => CompletedIn(c, 12))
    BY <2>2, GivenWhole
  <2>4. Assign("set_title_notes", cells, (a \o b) \o c)
    BY <2>1
  <2> DEFINE d == a \o b
             S == cells \ {12}
  <2> HIDE DEF a, b, c, E
  <2>5. \A cell \in S : CompletedIn(a, cell) \/ CompletedIn(b, cell)
    BY <2>3
  <2>6. d \in Seq(E) /\ Mending(d) /\ \A cell \in S : CompletedIn(d, cell)
    <3> HIDE DEF S
    <3> QED BY <2>3, <2>5, TwoParts
  <2> HIDE DEF d
  <2>7. \A cell \in cells : CompletedIn(d, cell) \/ CompletedIn(c, cell)
    BY <2>3, <2>6
  <2>8. Mending(d \o c) /\ \A cell \in cells : CompletedIn(d \o c, cell)
    BY <2>3, <2>6, <2>7, TwoParts
  <2>9. Assign("set_title_notes", cells, d \o c)
    BY <2>4 DEF d
  <2> QED BY <2>2, <2>8, <2>9, AssignKeepsWhole
<1>5. CASE set_polarization
  <2>1. PICK cells \in SUBSET {13, 14} :
          Assign("set_polarization", cells, Given(cells, 13) \o GivenSeveral(cells, 14))
    BY <1>5 DEF set_polarization
  <2> DEFINE a == Given(cells, 13)
             b == GivenSeveral(cells, 14)
             E == Edited(cells)
  <2>2. cells \in SUBSET Nat
    OBVIOUS
  <2>3. /\ a \in Seq(E) /\ Mending(a) /\ (13 \in cells => CompletedIn(a, 13))
        /\ b \in Seq(E) /\ Mending(b) /\ (14 \in cells => CompletedIn(b, 14))
    BY <2>2, GivenWhole
  <2>4. Assign("set_polarization", cells, a \o b)
    BY <2>1
  <2> HIDE DEF a, b, E
  <2>5. \A cell \in cells : CompletedIn(a, cell) \/ CompletedIn(b, cell)
    BY <2>3
  <2>6. Mending(a \o b) /\ \A cell \in cells : CompletedIn(a \o b, cell)
    BY <2>3, <2>5, TwoParts
  <2> QED BY <2>2, <2>4, <2>6, AssignKeepsWhole
<1> QED BY <1>1, <1>2, <1>3, <1>4, <1>5
        DEF set_afocal_mode, set_clear_semi_diameter_margin, set_ray_aiming, set_mtf_units,
            set_system_units

\* A row that is added is inserted whole, or its last value is written later.
LEMMA AddedMends ==
  ASSUME NEW j, NEW row \in Nat, NEW fill \in Fills, NEW rest \in Seq(Edited({row})),
         j.todo = Insert(row, fill) \o rest, Finishes(rest, row) \/ (rest = << >> /\ fill = "new")
  PROVE  /\ Mended(j) /\ j.todo # << >> /\ j.todo[1].act = "insert"
         /\ j.todo[1].fill = "new" \/ Pending(j, row)
<1> DEFINE first == Insert(row, fill)
           s == j.todo
<1>1. /\ first \in Seq(Edits) /\ Len(first) = 1
      /\ first[1].act = "insert" /\ first[1].fill = fill
  <2>1. "insert" \in Acts /\ fill \in Fills \cup Modes
    BY DEF Acts
  <2> QED BY <2>1, EditForm DEF Insert
<1>2. rest \in Seq(Edits) /\ Len(rest) \in Nat
  BY Wider, EditsAreEdits DEF Edited
<1> HIDE DEF first
<1>3. s = first \o rest
  BY DEF first
<1> HIDE DEF s
<1>4. /\ s \in Seq(Edits) /\ Len(s) = 1 + Len(rest) /\ s[1] = first[1]
      /\ \A k \in 2..Len(s) : s[k] = rest[k - 1] /\ k - 1 \in 1..Len(rest)
  <2>1. /\ first \o rest \in Seq(Edits) /\ Len(first \o rest) = Len(first) + Len(rest)
        /\ \A k \in 1..Len(first) : (first \o rest)[k] = first[k]
        /\ \A k \in (Len(first) + 1)..(Len(first) + Len(rest)) :
             (first \o rest)[k] = rest[k - Len(first)]
    BY <1>1, <1>2, ConcatParts
  <2> QED BY <1>1, <1>2, <1>3, <2>1
<1>5. s # << >> /\ s[1].act = "insert" /\ s[1].fill = fill
  BY <1>1, <1>2, <1>4
<1>6. \A k \in 1..Len(s) : k = 1 \/ k \in 2..Len(s)
  BY <1>4
<1>7. \A i \in 1..Len(s) : s[i].act = "write" => s[i].at = row
  <2>1. \A i \in 1..Len(rest) : rest[i] \in Edited({row})
    OBVIOUS
  <2> QED BY <1>4, <1>5, <1>6, <2>1 DEF Edited, WritesTo, Checks
<1>8. CASE Finishes(rest, row)
  <2>1. Finishes(s, row)
    BY <1>1, <1>2, <1>3, <1>8, LastOfConcat DEF Finishes
  <2>2. Mended(j) /\ Pending(j, row)
    BY <1>4, <1>7, <2>1, OneRowMends DEF s
  <2> QED BY <1>5, <2>2 DEF s
<1>9. CASE rest = << >> /\ fill = "new"
  <2>1. \A i \in 1..Len(s) : s[i].act # "write"
    <3>1. Len(rest) = 0
      BY <1>9
    <3>2. \A i \in 1..Len(s) : i = 1
      BY <1>4, <3>1
    <3> QED BY <1>5, <3>2
  <2> QED BY <1>5, <1>9, <2>1 DEF Mended, s
<1> QED BY <1>8, <1>9

LEMMA AddedBegins ==
  ASSUME EditInv, before = p, NEW j, NEW row \in 1..(n + 1), NEW fill \in Fills,
         NEW rest \in Seq(Edited({row})), j.kind = "add", j.row = row, j.result = "none",
         j.todo = Insert(row, fill) \o rest, Finishes(rest, row) \/ (rest = << >> /\ fill = "new"),
         j.want = {[p EXCEPT !.rows = InsertAt(@, row, New)]}
  PROVE  Begins(j)
<1>1. row \in Nat
  BY DEF EditInv, Formed, Lenses, n
<1>2. /\ Mended(j) /\ j.todo # << >> /\ j.todo[1].act = "insert"
      /\ j.todo[1].fill = "new" \/ Pending(j, row)
  BY <1>1, AddedMends
<1> QED BY <1>2, AddBegins

LEMMA AddRowKeepsWhole ==
  ASSUME EditInv, WholeInv, NEW op, NEW accepted, NEW insert_at \in Nat,
         accepted => insert_at <= n + 1, AddRow(op, accepted, insert_at)
  PROVE  WholeInv'
<1> DEFINE row == ReportedRow(insert_at)
           rest == Typed(row)
           j == Added(op, insert_at, NewOperand(insert_at))
<1>1. SUFFICES ASSUME accepted, before = p PROVE Begins(j)
  BY AskKeepsWhole DEF AddRow
<1>2. n \in Nat
  BY DEF EditInv, Formed, Lenses, n
<1>3. row \in 1..(n + 1) /\ row \in Nat /\ Place(insert_at) = row
  BY <1>1, <1>2 DEF ReportedRow, Place
<1>4. rest \in Seq(Edited({row})) /\ Finishes(rest, row)
  BY <1>2, <1>3, RowEdits, RowFinishes
<1>5. "blank" \in Fills
  BY DEF Fills
<1>6. /\ j.kind = "add" /\ j.row = row /\ j.todo = Insert(row, "blank") \o rest
      /\ j.want = {[p EXCEPT !.rows = InsertAt(@, row, New)]}
  BY <1>3 DEF Added, NewOperand, Request
<1>7. j.result = "none"
  <2>1. j.todo # << >>
    BY <1>2, <1>3, <1>4, <1>5, <1>6, AddedMends
  <2> QED BY <2>1 DEF Added, Request
<1> HIDE DEF row, rest, j
<1> QED BY <1>1, <1>3, <1>4, <1>5, <1>6, <1>7, AddedBegins

LEMMA AddsStayWhole ==
  ASSUME EditInv, WholeInv,
         add_operand \/ add_configuration_operand \/ add_object \/ insert_object
  PROVE  WholeInv'
<1>1. n \in Nat /\ MaxRows \in Nat
  BY EditorAssumption DEF EditInv, Formed, Lenses, n
<1>2. ASSUME NEW op, NEW at \in 0..(MaxRows + 1), AddRow(op, at <= n + 1, at)
      PROVE  WholeInv'
  <2> DEFINE accepted == at <= n + 1
  <2>1. (accepted => at <= n + 1) /\ AddRow(op, accepted, at) /\ at \in Nat
    BY <1>1, <1>2
  <2> HIDE DEF accepted
  <2> QED BY <2>1, AddRowKeepsWhole
<1>3. CASE add_operand \/ add_configuration_operand
  BY <1>2, <1>3 DEF add_operand, add_configuration_operand
<1>4. CASE add_object
  BY <1>1, <1>4, AddRowKeepsWhole DEF add_object
<1>5. CASE insert_object
  <2>1. PICK number \in 0..(MaxRows + 2) :
          AddRow("nsc_insert_object", Pure /\ number \in 1..(n + 1), number)
    BY <1>5 DEF insert_object
  <2> DEFINE accepted == Pure /\ number \in 1..(n + 1)
  <2>2. (accepted => number <= n + 1) /\ number \in Nat
    BY <1>1
  <2>3. AddRow("nsc_insert_object", accepted, number)
    BY <2>1
  <2> HIDE DEF accepted
  <2> QED BY <2>2, <2>3, AddRowKeepsWhole
<1> QED BY <1>3, <1>4, <1>5

LEMMA OperandStaysWhole == ASSUME EditInv, WholeInv, mce_add_operand PROVE WholeInv'
<1>1. PICK values \in 0..(MaxSize + 1) :
        LET few == values <= p.configurations
            cells == IF few THEN [i \in 1..values |-> Whole(ReportedRow(0))[1]] ELSE << >>
        IN  Ask("mce_add_operand", TRUE,
                [Added("mce_add_operand", 0, NewOperand(0) \o cells)
                   EXCEPT !.final = IF few THEN "ok" ELSE "refused"])
  BY DEF mce_add_operand
<1> DEFINE row == ReportedRow(0)
           few == values <= p.configurations
           cells == IF few THEN [i \in 1..values |-> Whole(row)[1]] ELSE << >>
           final == IF few THEN "ok" ELSE "refused"
           rest == Typed(row) \o cells
           q == Added("mce_add_operand", 0, NewOperand(0) \o cells)
           j == WithFinal(q, final)
<1>2. n \in Nat /\ values \in Nat /\ "blank" \in Fills
  BY EditorAssumption DEF EditInv, Formed, Lenses, n, Fills
<1>3. row \in 1..(n + 1) /\ row \in Nat /\ Place(0) = row
  BY <1>2 DEF ReportedRow, Place
<1>4. /\ Typed(row) \in Seq(Edited({row})) /\ Finishes(Typed(row), row)
      /\ Whole(row)[1] \in Edited({row}) /\ Completes(Whole(row)[1], row)
  <2>1. /\ Whole(row) \in Seq(Edited({row})) /\ Len(Whole(row)) = 1
        /\ Completes(Whole(row)[1], row)
    BY <1>3, RowEdits, WholeFinishes
  <2>2. Whole(row)[1] \in Edited({row})
    BY <2>1
  <2> QED BY <1>3, <2>1, <2>2, RowEdits, RowFinishes
<1>5. /\ cells \in Seq(Edited({row}))
      /\ cells # << >> => Finishes(cells, row)
  <2> DEFINE w == Whole(row)[1]
  <2>1. CASE few
    <3>1. cells = [i \in 1..values |-> w]
      BY <2>1
    <3> HIDE DEF w, cells
    <3>2. cells \in Seq(Edited({row})) /\ Len(cells) = values /\ \A i \in 1..values : cells[i] = w
      BY <1>2, <1>4, <3>1 DEF w
    <3>3. cells # << >> => Len(cells) \in 1..values
      BY <1>2, <3>2, EmptySeq
    <3> QED BY <1>4, <3>2, <3>3 DEF Finishes, w
  <2>2. CASE ~few
    <3>1. cells = << >>
      BY <2>2
    <3> QED BY <3>1
  <2> QED BY <2>1, <2>2
<1> HIDE DEF cells
<1>6. rest \in Seq(Edited({row})) /\ Finishes(rest, row)
  <2> DEFINE a == Typed(row)
             E == Edited({row})
  <2>1. a \in Seq(E) /\ cells \in Seq(E) /\ Finishes(a, row)
    BY <1>4, <1>5
  <2> HIDE DEF a, E
  <2>2. a \o cells \in Seq(E)
    BY <2>1
  <2>3. CASE cells = << >>
    <3>1. a \o cells = a
      BY <2>1, <2>3
    <3> QED BY <2>1, <2>2, <3>1 DEF a, E
  <2>4. CASE cells # << >>
    <3>1. Finishes(a \o cells, row)
      BY <1>5, <2>1, <2>4, LastOfConcat DEF Finishes
    <3> QED BY <2>2, <3>1 DEF a, E
  <2> QED BY <2>3, <2>4
<1>7. NewOperand(0) \o cells = Insert(row, "blank") \o rest
  <2> DEFINE a == Insert(row, "blank")
             b == Typed(row)
  <2>1. a \in Seq(Edits) /\ b \in Seq(Edits) /\ cells \in Seq(Edits)
    <3>1. "insert" \in Acts /\ "blank" \in Fills \cup Modes
      BY DEF Acts, Fills
    <3> QED BY <1>3, <1>4, <1>5, <3>1, EditForm, EditsAreEdits, Wider DEF Insert, Edited
  <2>2. NewOperand(0) = a \o b
    BY <1>3 DEF NewOperand
  <2> HIDE DEF a, b
  <2>3. (a \o b) \o cells = a \o (b \o cells)
    BY <2>1
  <2> QED BY <2>2, <2>3 DEF a, b
<1>8. Ask("mce_add_operand", TRUE, j)
  BY <1>1 DEF WithFinal, cells
<1> HIDE DEF rest, final
<1>9. /\ j.kind = "add" /\ j.row = row /\ j.todo = Insert(row, "blank") \o rest
      /\ j.want = {[p EXCEPT !.rows = InsertAt(@, row, New)]}
  BY <1>3, <1>7 DEF Added, Request, WithFinal
<1>10. j.result = "none"
  <2>1. j.todo # << >>
    BY <1>2, <1>3, <1>6, <1>9, AddedMends
  <2> QED BY <2>1 DEF Added, Request, WithFinal
<1> HIDE DEF j, row
<1>11. before = p => Begins(j)
  BY <1>2, <1>3, <1>6, <1>9, <1>10, AddedBegins
<1> QED BY <1>8, <1>11, AskKeepsWhole

LEMMA InsertSurfaceKeepsWhole ==
  ASSUME EditInv, WholeInv, NEW op, NEW position \in Int, NEW fill \in Fills,
         NEW rest \in Seq(Edited({position + 1})),
         Finishes(rest, position + 1) \/ (rest = << >> /\ fill = "new"),
         InsertSurface(op, position, Insert(position + 1, fill) \o rest)
  PROVE  WholeInv'
<1> DEFINE row == position + 1
           todo == Insert(row, fill) \o rest
           j == Added(op, row, todo)
<1>1. SUFFICES ASSUME InsertAccepted(position), before = p PROVE Begins(j)
  BY AskKeepsWhole DEF InsertSurface
<1>2. n \in Nat
  BY DEF EditInv, Formed, Lenses, n
<1>3. row \in 2..n /\ row \in 1..(n + 1) /\ row \in Nat /\ ReportedRow(row) = row /\ Place(row) = row
  BY <1>1, <1>2 DEF InsertAccepted, ReportedRow, Place
<1> HIDE DEF row
<1>4. /\ j.kind = "add" /\ j.row = row /\ j.todo = Insert(row, fill) \o rest
      /\ j.want = {[p EXCEPT !.rows = InsertAt(@, row, New)]}
  BY <1>3 DEF Added, Request
<1>5. rest \in Seq(Edited({row})) /\ (Finishes(rest, row) \/ (rest = << >> /\ fill = "new"))
  BY DEF row
<1>6. j.result = "none"
  <2>1. j.todo # << >>
    BY <1>3, <1>4, <1>5, AddedMends
  <2> QED BY <2>1 DEF Added, Request
<1> HIDE DEF j
<1> QED BY <1>1, <1>3, <1>4, <1>5, <1>6, AddedBegins

LEMMA InsertsStayWhole ==
  ASSUME EditInv, WholeInv, insert_surface \/ add_surface PROVE WholeInv'
<1>1. n \in Nat /\ \A surface \in SurfaceNumbers : surface \in Int
  BY EditorAssumption DEF EditInv, Formed, Lenses, n, SurfaceNumbers
<1>2. CASE insert_surface
  <2>1. PICK position \in SurfaceNumbers :
          InsertSurface("lde_insert_surface", position, Insert(position + 1, "new"))
    BY <1>2 DEF insert_surface
  <2> DEFINE a == Insert(position + 1, "new")
  <2>2. a \in Seq({a[1]})
    BY DEF Insert, Edit
  <2> HIDE DEF a
  <2>3. a = a \o << >>
    BY <2>2
  <2>4. << >> \in Seq(Edited({position + 1})) /\ "new" \in Fills
    BY DEF Fills
  <2> QED BY <1>1, <2>1, <2>3, <2>4, InsertSurfaceKeepsWhole DEF a
<1>3. CASE add_surface
  <2>1. PICK insert_at \in SurfaceNumbers :
          LET index == IF insert_at = 0 THEN n - 1 ELSE insert_at
          IN  InsertSurface("add_surface", index, Insert(index + 1, "part") \o Whole(index + 1))
    BY <1>3 DEF add_surface
  <2> DEFINE index == IF insert_at = 0 THEN n - 1 ELSE insert_at
  <2>2. index \in Int
    BY <1>1
  <2>3. InsertSurface("add_surface", index, Insert(index + 1, "part") \o Whole(index + 1))
    BY <2>1
  <2> HIDE DEF index
  <2>4. "part" \in Fills
    BY DEF Fills
  <2>5. CASE index + 1 \in Nat
    BY <2>2, <2>3, <2>4, <2>5, RowEdits, RowFinishes, InsertSurfaceKeepsWhole
  <2>6. CASE index + 1 \notin Nat
    <3>1. ~InsertAccepted(index)
      BY <1>1, <2>2, <2>6 DEF InsertAccepted
    <3> QED BY <2>3, <3>1, AskKeepsWhole DEF InsertSurface
  <2> QED BY <2>5, <2>6
<1> QED BY <1>2, <1>3

-----------------------------------------------------------------------------
\* Operations with one edit: it does what was asked, whichever way OpticStudio does it.
LEMMA EditBegins ==
  ASSUME before = p, NEW op, NEW kind \in Single, NEW row, NEW want,
         NEW act \in Acts \ {"write"}, NEW at \in Nat, NEW fill \in Fills \cup Modes,
         \A e \in Edits : e.act = act /\ e.at = at /\ e.fill = fill => Outcomes(e) \subseteq want
  PROVE  Begins(Request(op, kind, row, Edit(act, at, fill), want))
<1> DEFINE todo == Edit(act, at, fill)
           j == Request(op, kind, row, todo, want)
<1>1. /\ todo \in Seq(Edits) /\ Len(todo) = 1 /\ todo # << >>
      /\ todo[1].act = act /\ todo[1].at = at /\ todo[1].fill = fill
  BY EditForm
<1>2. /\ j.kind = kind /\ j.final = "ok" /\ j.todo = todo /\ j.want = want
  BY DEF Request
<1> HIDE DEF j, todo
<1>3. todo[1] \in Edits /\ \A i \in 1..Len(todo) : i = 1
  BY <1>1
<1>4. \A i \in 1..Len(todo) : todo[i].act # "write"
  BY <1>1, <1>3
<1>5. Outcomes(todo[1]) \subseteq want
  BY <1>1, <1>3
<1>6. Begins(j)
  BY <1>1, <1>2, <1>4, <1>5, SingleBegins
<1> QED BY <1>6 DEF j, todo

LEMMA NothingKeepsWhole ==
  ASSUME EditInv, WholeInv, NEW op, NEW accepted, Nothing(op, accepted) PROVE WholeInv'
<1> DEFINE j == Request(op, "none", 0, << >>, {p})
<1>1. j.kind = "none" /\ j.final = "ok" /\ j.todo = << >> /\ p \in j.want
  BY DEF Request
<1>2. Ask(op, accepted, j)
  BY DEF Nothing
<1> HIDE DEF j
<1>3. Begins(j)
  BY <1>1, ReadBegins
<1> QED BY <1>2, <1>3, AskKeepsWhole

LEMMA ReadRowsKeepsWhole ==
  ASSUME EditInv, WholeInv, NEW op, NEW start, NEW end, ReadRows(op, start, end) PROVE WholeInv'
<1> DEFINE accepted == RangeAccepted(start, end, n)
           j == [Request(op, "read", start, << >>, {p})
                   EXCEPT !.size = end, !.rows = RowRange(start, end, n)]
<1>1. j.kind = "read" /\ j.final = "ok" /\ j.todo = << >> /\ p \in j.want
  BY DEF Request
<1>2. Ask(op, accepted, j)
  BY DEF ReadRows
<1> HIDE DEF j, accepted
<1>3. Begins(j)
  BY <1>1, ReadBegins
<1> QED BY <1>2, <1>3, AskKeepsWhole

LEMMA ReadsStayWhole ==
  ASSUME EditInv, WholeInv, \/ get_merit_function \/ get_configuration_operands
                            \/ get_surface \/ save_detector
  PROVE  WholeInv'
BY NothingKeepsWhole, ReadRowsKeepsWhole
DEF get_merit_function, get_configuration_operands, get_surface, save_detector

LEMMA RemoveRowKeepsWhole ==
  ASSUME EditInv, WholeInv, NEW op, NEW row \in Nat, NEW last, RemoveRow(op, row, last)
  PROVE  WholeInv'
<1> DEFINE want == {[p EXCEPT !.rows = RemoveAt(@, row)]}
           accepted == row \in 1..last
           j == Request(op, "remove", row, Drop(row), want)
<1>1. "remove" \in Acts \ {"write"} /\ "remove" \in Single /\ "old" \in Fills \cup Modes
  BY DEF Acts, Single, Fills
<1>2. ASSUME NEW e \in Edits, e.act = "remove", e.at = row PROVE Outcomes(e) \subseteq want
  BY <1>2, DropOutcome
<1>3. Ask(op, accepted, j)
  BY DEF RemoveRow
<1> HIDE DEF want, accepted
<1>4. before = p => Begins(j)
  BY <1>1, <1>2, EditBegins DEF Drop
<1> HIDE DEF j
<1> QED BY <1>3, <1>4, AskKeepsWhole

LEMMA RemovesStayWhole ==
  ASSUME EditInv, WholeInv, \/ remove_operand \/ delete_configuration_operand
                            \/ remove_object \/ remove_surface
  PROVE  WholeInv'
<1>1. \A row \in 0..(MaxRows + 1) : row \in Nat
  BY EditorAssumption
<1>2. CASE remove_operand \/ delete_configuration_operand \/ remove_object
  BY <1>1, <1>2, RemoveRowKeepsWhole
  DEF remove_operand, delete_configuration_operand, remove_object
<1>3. CASE remove_surface
  <2>1. PICK surface \in SurfaceNumbers :
          \/ surface \in 1..(n - 2) /\ RemoveRow("remove_surface", surface + 1, n)
          \/ Nothing("remove_surface", surface \in 1..(n - 2))
    BY <1>3 DEF remove_surface
  <2>2. CASE surface \in 1..(n - 2) /\ RemoveRow("remove_surface", surface + 1, n)
    <3> DEFINE row == surface + 1
    <3>1. row \in Nat /\ RemoveRow("remove_surface", row, n)
      BY <2>2
    <3> HIDE DEF row
    <3> QED BY <3>1, RemoveRowKeepsWhole
  <2> QED BY <2>1, <2>2, NothingKeepsWhole
<1> QED BY <1>2, <1>3

LEMMA ReplacesStayWhole ==
  ASSUME EditInv, WholeInv, load_merit_function_file \/ set_current_configuration
  PROVE  WholeInv'
<1>1. /\ "load" \in Acts \ {"write"} /\ "choose" \in Acts \ {"write"} /\ "old" \in Fills \cup Modes
      /\ "load" \in Single /\ "choose" \in Single
  BY DEF Acts, Fills, Single
<1>2. CASE load_merit_function_file
  <2>1. PICK k \in 0..MaxRows :
          Ask("load_merit_function_file", TRUE,
              Request("load_merit_function_file", "load", 0, Load(k), {[p EXCEPT !.rows = Olds(k)]}))
    BY <1>2 DEF load_merit_function_file
  <2> DEFINE want == {[p EXCEPT !.rows = Olds(k)]}
             j == Request("load_merit_function_file", "load", 0, Load(k), want)
  <2>2. k \in Nat
    BY EditorAssumption
  <2>3. ASSUME NEW e \in Edits, e.act = "load", e.at = k PROVE Outcomes(e) \subseteq want
    BY <2>3, LoadOutcome
  <2>4. Ask("load_merit_function_file", TRUE, j)
    BY <2>1
  <2> HIDE DEF want
  <2>5. before = p => Begins(j)
    BY <1>1, <2>2, <2>3, EditBegins DEF Load
  <2> HIDE DEF j
  <2> QED BY <2>4, <2>5, AskKeepsWhole
<1>3. CASE set_current_configuration
  <2>1. PICK k \in 0..(MaxSize + 1) :
          Ask("set_current_configuration", k \in 1..p.configurations,
              Request("set_current_configuration", "choose", 0, Choose(k), {[p EXCEPT !.chosen = k]}))
    BY <1>3 DEF set_current_configuration
  <2> DEFINE want == {[p EXCEPT !.chosen = k]}
             j == Request("set_current_configuration", "choose", 0, Choose(k), want)
  <2>2. k \in Nat
    BY EditorAssumption
  <2>3. ASSUME NEW e \in Edits, e.act = "choose", e.at = k PROVE Outcomes(e) \subseteq want
    BY <2>3, ChooseOutcome
  <2>4. Ask("set_current_configuration", k \in 1..p.configurations, j)
    BY <2>1
  <2> HIDE DEF want
  <2>5. before = p => Begins(j)
    BY <1>1, <2>2, <2>3, EditBegins DEF Choose
  <2> HIDE DEF j
  <2> QED BY <2>4, <2>5, AskKeepsWhole
<1> QED BY <1>2, <1>3

LEMMA ConvertsStayWhole ==
  ASSUME EditInv, WholeInv, convert_to_nonsequential \/ convert_to_sequential
  PROVE  WholeInv'
<1>1. ASSUME NEW op, NEW mode \in Modes, NEW size, before = p,
             IF mode = "sequential" THEN size = {0} ELSE size = 0..MaxRows
      PROVE  Begins(Request(op, "convert", 0, Convert(mode), Converted(mode, size)))
  <2> DEFINE want == Converted(mode, size)
  <2>1. "convert" \in Acts \ {"write"} /\ "convert" \in Single /\ mode \in Fills \cup Modes /\ 0 \in Nat
    BY DEF Acts, Single
  <2>2. ASSUME NEW e \in Edits, e.act = "convert", e.fill = mode PROVE Outcomes(e) \subseteq want
    <3> SUFFICES ASSUME NEW q \in Outcomes(e) PROVE q \in want
      OBVIOUS
    <3>1. PICK k \in IF e.fill = "sequential" THEN {0} ELSE 0..MaxRows :
               q = [p EXCEPT !.mode = e.fill, !.rows = Olds(k)]
      BY <2>2, ConvertOutcome
    <3>2. k \in size /\ q = [p EXCEPT !.mode = mode, !.rows = Olds(k)]
      BY <1>1, <2>2, <3>1
    <3> QED BY <3>2 DEF Converted
  <2> HIDE DEF want
  <2>3. Begins(Request(op, "convert", 0, Convert(mode), want))
    BY <1>1, <2>1, <2>2, EditBegins DEF Convert
  <2> QED BY <2>3 DEF want
<1>2. CASE convert_to_nonsequential
  <2> DEFINE j == Request("nsc_convert_to_nonsequential", "convert", 0, Convert("nonsequential"),
                          Converted("nonsequential", 0..MaxRows))
  <2>1. \/ Nothing("nsc_convert_to_nonsequential", TRUE)
        \/ Ask("nsc_convert_to_nonsequential", TRUE, j)
    BY <1>2 DEF convert_to_nonsequential
  <2>2. "nonsequential" \in Modes
    BY DEF Modes
  <2>3. before = p => Begins(j)
    BY <1>1, <2>2
  <2> HIDE DEF j
  <2> QED BY <2>1, <2>3, NothingKeepsWhole, AskKeepsWhole
<1>3. CASE convert_to_sequential
  <2> DEFINE j == Request("nsc_convert_to_sequential", "convert", 0, Convert("sequential"),
                          Converted("sequential", {0}))
  <2>1. PICK first \in 0..(MaxRows + 1), last \in 0..(MaxRows + 1) :
          Ask("nsc_convert_to_sequential", Pure /\ n > 0 /\ first = 1 /\ last = n, j)
    BY <1>3 DEF convert_to_sequential
  <2>2. "sequential" \in Modes
    BY DEF Modes
  <2>3. before = p => Begins(j)
    BY <1>1, <2>2
  <2> HIDE DEF j
  <2> QED BY <2>1, <2>3, AskKeepsWhole
<1> QED BY <1>2, <1>3

-----------------------------------------------------------------------------
\* The configurations are changed to the number asked for, which comes last; on the way
\* there are never fewer than at the end, or never fewer than at the beginning.
LEMMA ConfigureBegins ==
  ASSUME EditInv, before = p, doc = "MCE", NEW op, NEW k \in Nat \ {0}, NEW todo \in Seq(Configures),
         IF todo = << >> THEN k = p.configurations ELSE todo[Len(todo)].at = k,
         \A i \in 1..Len(todo) : todo[i].at >= k \/ todo[i].at >= p.configurations
  PROVE  Begins(Request(op, "size", 0, todo, Configured(k)))
<1> DEFINE want == Configured(k)
           j == Request(op, "size", 0, todo, want)
<1>1. j.kind = "size" /\ j.final = "ok" /\ j.todo = todo /\ j.want = want
  BY DEF Request
<1> HIDE DEF j
<1>2. \A i \in 1..Len(todo) : todo[i].act = "configure" /\ todo[i].at \in Nat
  <2>1. \A i \in 1..Len(todo) : todo[i] \in Configures
    OBVIOUS
  <2> QED BY <2>1 DEF Configures, Edits
<1>3. Mended(j)
  BY <1>1, <1>2 DEF Mended
<1>4. Asked(j, p.configurations) = k
  BY <1>1 DEF Asked, LastEdit
<1>5. p \in Lenses /\ p.chosen \in 1..p.configurations /\ p.configurations \in Nat
  BY DEF EditInv, SelectionExists, Formed, Lenses
<1>6. p.chosen <= k => \A i \in 1..Len(todo) : p.chosen <= todo[i].at
  BY <1>2, <1>5
<1>7. \A c \in Selected(p.chosen, k) : [p EXCEPT !.configurations = k, !.chosen = c] \in want
  BY DEF Configured
<1>8. p = [p EXCEPT !.configurations = p.configurations, !.chosen = p.chosen]
  BY <1>5 DEF Lenses
<1>9. ConfigureWhole(j)
  BY <1>1, <1>2, <1>4, <1>6, <1>7, <1>8 DEF ConfigureWhole
<1>10. SizeWhole(j)
  BY DEF SizeWhole, Resizable
<1>11. Begins(j)
  BY <1>1, <1>3, <1>9, <1>10, SizeBegins
<1> QED BY <1>11 DEF j, want

LEMMA ConfiguresStayWhole ==
  ASSUME EditInv, WholeInv, set_number_of_configurations \/ mce_add_config PROVE WholeInv'
<1>1. p.configurations \in Nat \ {0}
  BY DEF EditInv, Formed, Lenses
<1>2. ASSUME NEW k \in Nat \ {0}
      PROVE  Configure(k) \in Seq(Configures) /\ Len(Configure(k)) = 1 /\ Configure(k)[1].at = k
             /\ Configure(k)[1] \in Configures
  <2>1. Len(Configure(k)) = 1 /\ Configure(k)[1].at = k
    BY DEF Configure, Edit
  <2> QED BY <2>1, ConfigureForm
<1>3. ASSUME NEW op, NEW k \in Nat \ {0}, before = p, doc = "MCE"
      PROVE  Begins(Request(op, "size", 0, Configure(k), Configured(k)))
  <2> DEFINE todo == Configure(k)
  <2>1. todo \in Seq(Configures) /\ Len(todo) = 1 /\ todo[1].at = k
    BY <1>2
  <2> HIDE DEF todo
  <2>2. todo # << >> /\ \A i \in 1..Len(todo) : todo[i].at = k
    <3>1. \A i \in 1..Len(todo) : i = 1
      BY <2>1
    <3>2. todo # << >>
      BY <2>1
    <3> QED BY <2>1, <3>1, <3>2
  <2>3. /\ IF todo = << >> THEN k = p.configurations ELSE todo[Len(todo)].at = k
        /\ \A i \in 1..Len(todo) : todo[i].at >= k \/ todo[i].at >= p.configurations
    BY <2>1, <2>2
  <2>4. Begins(Request(op, "size", 0, todo, Configured(k)))
    BY <1>3, <2>1, <2>3, ConfigureBegins
  <2> QED BY <2>4 DEF todo
<1>4. ASSUME NEW op, NEW k \in Nat \ {0}, before = p, doc = "MCE"
      PROVE  Begins(Request(op, "size", 0, OneByOne(k), Configured(k)))
  <2> DEFINE todo == OneByOne(k)
             c == p.configurations
  <2>1. /\ todo \in Seq(Configures)
        /\ IF todo = << >> THEN k = c ELSE todo[Len(todo)].at = k
        /\ \A i \in 1..Len(todo) : todo[i].at >= k \/ todo[i].at >= c
    <3>1. CASE k > c
      <4> DEFINE m == k - c
                 f(i) == Configure(c + i)[1]
      <4>1. todo = [i \in 1..m |-> f(i)]
        BY <3>1 DEF OneByOne
      <4>2. m \in Nat \ {0} /\ c + m = k
        BY <1>1, <3>1
      <4>3. \A i \in 1..m : f(i) \in Configures /\ f(i).at = c + i /\ c + i >= c
        <5> TAKE i \in 1..m
        <5>1. c + i \in Nat \ {0} /\ c + i >= c
          BY <1>1, <4>2
        <5> QED BY <1>2, <5>1
      <4> HIDE DEF todo, f, m, c
      <4>4. todo \in Seq(Configures) /\ Len(todo) = m /\ \A i \in 1..m : todo[i] = f(i)
        BY <4>1, <4>2, <4>3
      <4>5. todo[Len(todo)].at = k /\ todo # << >>
        <5>1. m \in 1..m
          BY <4>2
        <5> QED BY <4>2, <4>3, <4>4, <5>1
      <4> QED BY <4>3, <4>4, <4>5
    <3>2. CASE ~(k > c)
      <4> DEFINE m == c - k
                 f(i) == Configure(c - i)[1]
      <4>1. todo = [i \in 1..m |-> f(i)]
        BY <3>2 DEF OneByOne
      <4>2. m \in Nat /\ c - m = k
        BY <1>1, <3>2
      <4>3. \A i \in 1..m : f(i) \in Configures /\ f(i).at = c - i /\ c - i >= k
        <5> TAKE i \in 1..m
        <5>1. c - i \in Nat \ {0} /\ c - i >= k
          BY <1>1, <4>2
        <5> QED BY <1>2, <5>1
      <4> HIDE DEF todo, f, m, c
      <4>4. todo \in Seq(Configures) /\ Len(todo) = m /\ \A i \in 1..m : todo[i] = f(i)
        BY <4>1, <4>2, <4>3
      <4>5. IF todo = << >> THEN k = c ELSE todo[Len(todo)].at = k
        <5>1. todo = << >> => m = 0
          BY <4>4
        <5>2. todo # << >> => m \in 1..m
          BY <4>2, <4>4, EmptySeq
        <5>3. c \in Nat
          BY <1>1 DEF c
        <5> QED BY <4>2, <4>3, <4>4, <5>1, <5>2, <5>3
      <4> QED BY <4>3, <4>4, <4>5
    <3> QED BY <3>1, <3>2
  <2> HIDE DEF todo
  <2>2. Begins(Request(op, "size", 0, todo, Configured(k)))
    BY <1>4, <2>1, ConfigureBegins
  <2> QED BY <2>2 DEF todo
<1>5. CASE set_number_of_configurations
  <2> PICK k \in 0..MaxSize : \E todo \in {Configure(k), OneByOne(k)} :
          Ask("set_number_of_configurations", k >= 1,
              Request("set_number_of_configurations", "size", 0, todo, Configured(k)))
    BY <1>5 DEF set_number_of_configurations
  <2>1. PICK todo \in {Configure(k), OneByOne(k)} :
          Ask("set_number_of_configurations", k >= 1,
              Request("set_number_of_configurations", "size", 0, todo, Configured(k)))
    OBVIOUS
  <2>2. doc = "MCE" /\ k \in Nat
    BY <1>5, EditorAssumption DEF set_number_of_configurations
  <2> DEFINE accepted == k >= 1
             j == Request("set_number_of_configurations", "size", 0, todo, Configured(k))
  <2>3. accepted /\ before = p => Begins(j)
    <3> SUFFICES ASSUME k >= 1, before = p PROVE Begins(j)
      OBVIOUS
    <3>1. k \in Nat \ {0}
      BY <2>2
    <3>2. CASE todo = Configure(k)
      BY <1>3, <2>2, <3>1, <3>2
    <3>3. CASE todo = OneByOne(k)
      BY <1>4, <2>2, <3>1, <3>3
    <3> QED BY <2>1, <3>2, <3>3
  <2>4. Ask("set_number_of_configurations", accepted, j)
    BY <2>1
  <2> HIDE DEF accepted, j
  <2> QED BY <2>3, <2>4, AskKeepsWhole
<1>6. CASE mce_add_config
  <2> DEFINE k == p.configurations + 1
             j == Request("mce_add_config", "size", 0, Configure(k), Configured(k))
  <2>1. doc = "MCE" /\ Ask("mce_add_config", TRUE, j)
    BY <1>6 DEF mce_add_config
  <2>2. k \in Nat \ {0}
    BY <1>1
  <2> HIDE DEF k
  <2>3. before = p => Begins(j)
    BY <1>3, <2>1, <2>2
  <2> HIDE DEF j
  <2> QED BY <2>1, <2>3, AskKeepsWhole
<1> QED BY <1>5, <1>6

-----------------------------------------------------------------------------
\* A resize: first the loops, and then the rest of it.
Resizes(j, op, k, rest, want) ==
  /\ j.op = op /\ j.kind = "size" /\ j.final = "ok" /\ j.size = k /\ j.want = want
  /\ j.todo \in Seq(Edits) /\ Len(j.todo) = 2 + Len(rest)
  /\ Shrinks(j.todo[1]) /\ Grows(j.todo[2])
  /\ \A i \in 3..Len(j.todo) : j.todo[i] = rest[i - 2]
LEMMA ResizeForm ==
  ASSUME NEW op, NEW k \in Nat \ {0}, NEW rest \in Seq(Edits), NEW want
  PROVE  Resizes([Request(op, "size", 0, Resize(k) \o rest, want) EXCEPT !.size = k],
                 op, k, rest, want)
<1> SUFFICES ASSUME NEW j,
                    j = [Request(op, "size", 0, Resize(k) \o rest, want) EXCEPT !.size = k]
             PROVE  Resizes(j, op, k, rest, want)
  OBVIOUS
<1> DEFINE a == Edit("shrink", k, "old")
           b == Edit("grow", k, "new")
           sized == a \o b
<1>1. /\ a \in Seq(Edits) /\ Len(a) = 1 /\ a[1].act = "shrink"
      /\ b \in Seq(Edits) /\ Len(b) = 1 /\ b[1].act = "grow"
  <2>1. /\ "shrink" \in Acts /\ "grow" \in Acts /\ "old" \in Fills \cup Modes
        /\ "new" \in Fills \cup Modes
    BY DEF Acts, Fills
  <2> QED BY <2>1, EditForm
<1>2. /\ j.op = op /\ j.kind = "size" /\ j.final = "ok" /\ j.size = k /\ j.want = want
      /\ j.todo = sized \o rest
  BY DEF Request, Resize
<1> HIDE DEF a, b
<1>3. sized \in Seq(Edits) /\ Len(sized) = 2 /\ sized[1] = a[1] /\ sized[2] = b[1]
  <2>1. /\ a \o b \in Seq(Edits) /\ Len(a \o b) = Len(a) + Len(b)
        /\ \A i \in 1..Len(a) : (a \o b)[i] = a[i]
        /\ \A i \in (Len(a) + 1)..(Len(a) + Len(b)) : (a \o b)[i] = b[i - Len(a)]
    <3>1. a \in Seq(Edits) /\ b \in Seq(Edits)
      BY <1>1
    <3> QED BY <3>1, ConcatParts, Zenon
  <2> QED BY <1>1, <2>1
<1> HIDE DEF sized
<1>4. /\ sized \o rest \in Seq(Edits) /\ Len(sized \o rest) = Len(sized) + Len(rest)
      /\ \A i \in 1..Len(sized) : (sized \o rest)[i] = sized[i]
      /\ \A i \in (Len(sized) + 1)..(Len(sized) + Len(rest)) :
           (sized \o rest)[i] = rest[i - Len(sized)]
  <2>1. sized \in Seq(Edits) /\ rest \in Seq(Edits)
    BY <1>3
  <2> QED BY <2>1, ConcatParts, Zenon
<1>5. /\ j.todo \in Seq(Edits) /\ Len(j.todo) = 2 + Len(rest)
      /\ j.todo[1] = a[1] /\ j.todo[2] = b[1]
  <2>1. 1 \in 1..Len(sized) /\ 2 \in 1..Len(sized)
    BY <1>3
  <2> QED BY <1>2, <1>3, <1>4, <2>1
<1>6. \A i \in 3..Len(j.todo) : j.todo[i] = rest[i - 2]
  <2> TAKE i \in 3..Len(j.todo)
  <2>1. Len(rest) \in Nat
    OBVIOUS
  <2>2. i \in (Len(sized) + 1)..(Len(sized) + Len(rest)) /\ i - Len(sized) = i - 2
    BY <1>3, <1>5, <2>1
  <2> QED BY <1>2, <1>4, <2>2
<1> QED BY <1>1, <1>2, <1>5, <1>6 DEF Resizes, Shrinks, Grows

LEMMA LoopsComeFirst ==
  ASSUME NEW j, NEW op, NEW k \in Nat \ {0}, NEW rest \in Seq(Edits), NEW want,
         Resizes(j, op, k, rest, want), \A i \in 1..Len(rest) : rest[i].act \notin {"shrink", "grow"}
  PROVE  LoopsFirst(j) /\ Loops(j)
<1> DEFINE s == j.todo
<1>0. /\ s \in Seq(Edits) /\ Len(s) = 2 + Len(rest) /\ Shrinks(s[1]) /\ Grows(s[2])
      /\ \A i \in 3..Len(s) : s[i] = rest[i - 2]
  BY DEF Resizes
<1> HIDE DEF s
<1>1. Len(rest) \in Nat /\ s # << >>
  <2>1. Len(rest) \in Nat
    OBVIOUS
  <2>2. Len(s) # 0
    BY <1>0, <2>1
  <2> QED BY <2>1, <2>2
<1>2. 1 \in 1..Len(s) /\ 2 \in 1..Len(s) /\ \A i \in 1..Len(s) : i \in {1, 2} \/ i \in 3..Len(s)
  BY <1>0, <1>1
<1>3. \A i \in 3..Len(s) : s[i].act \notin {"shrink", "grow"}
  <2> TAKE i \in 3..Len(s)
  <2>1. i - 2 \in 1..Len(rest) /\ s[i] = rest[i - 2]
    BY <1>0, <1>1
  <2> QED BY <2>1
<1>4. Shrinks(s[1]) /\ ~Grows(s[1]) /\ Grows(s[2]) /\ ~Shrinks(s[2])
  BY <1>0 DEF Shrinks, Grows
<1>5. \A i \in 1..Len(s) : /\ Shrinks(s[i]) => i = 1
                           /\ Grows(s[i]) => i = 1 \/ (i = 2 /\ Shrinks(s[1]))
  BY <1>2, <1>3, <1>4 DEF Shrinks, Grows
<1>6. (\E i \in 1..Len(s) : Shrinks(s[i])) /\ (\E i \in 1..Len(s) : Grows(s[i]))
  BY <1>2, <1>4
<1>7. LoopsFirst(j)
  BY <1>5, <1>6 DEF LoopsFirst, s
<1>8. Loops(j)
  BY <1>1, <1>4 DEF Loops, Shrinks, s
<1> QED BY <1>7, <1>8

\* Only the number of rows: those that are kept are kept.
LEMMA KeepBegins ==
  ASSUME EditInv, before = p, Resizable, NEW j, NEW op, op \notin Refills, NEW k \in Nat \ {0},
         Resizes(j, op, k, << >>, Sized(Kept(k)))
  PROVE  Begins(j)
<1> DEFINE rest == << >>
           want == Sized(Kept(k))
<1>0. Resizes(j, op, k, rest, want)
  OBVIOUS
<1>1. /\ rest \in Seq(Edits) /\ Len(rest) = 0
      /\ \A i \in 1..Len(rest) : rest[i].act \notin {"shrink", "grow"}
  OBVIOUS
<1>2. /\ p \in Lenses /\ p.rows \in Seq(Rows) /\ n = Len(p.rows) /\ n \in Nat
  BY DEF EditInv, Formed, Lenses, n
<1> HIDE DEF rest, want
<1>3. /\ j.op = op /\ j.kind = "size" /\ j.final = "ok" /\ j.size = k /\ j.want = want
      /\ j.todo \in Seq(Edits) /\ Len(j.todo) = 2 + Len(rest)
      /\ Shrinks(j.todo[1]) /\ Grows(j.todo[2])
  BY <1>0 DEF Resizes
<1>4. LoopsFirst(j)
  BY <1>0, <1>1, LoopsComeFirst
<1>5. \A i \in 1..Len(j.todo) : j.todo[i].act \in {"shrink", "grow"}
  <2>1. \A i \in 1..Len(j.todo) : i \in {1, 2}
    BY <1>1, <1>3
  <2> QED BY <1>3, <2>1 DEF Shrinks, Grows
<1>6. \A c \in IF doc = "Wavelengths" THEN Selected(p.chosen, k) ELSE {p.chosen} :
         [p EXCEPT !.rows = KeptOf(@, k), !.chosen = c] \in want
  <2> DEFINE t == KeptOf(p.rows, k)
  <2>1. Len(t) = k
    BY <1>2, KeptRows
  <2>2. Kept(k) = t
    BY <1>2 DEF Kept, KeptOf
  <2>3. want = Sized(t)
    BY <2>2 DEF want
  <2> HIDE DEF t
  <2>4. \A c \in IF doc = "Wavelengths" THEN Selected(p.chosen, k) ELSE {p.chosen} :
          [p EXCEPT !.rows = t, !.chosen = c] \in want
    BY <2>1, <2>3 DEF Sized
  <2> QED BY <1>2, <2>4 DEF t
<1>7. KeepWhole(j)
  <2>1. \A c \in IF doc = "Wavelengths" THEN Selected(before.chosen, j.size) ELSE {before.chosen} :
          [before EXCEPT !.rows = KeptOf(@, j.size), !.chosen = c] \in j.want
    BY <1>3, <1>6
  <2>2. \A i \in 1..n : i <= Len(before.rows)
    BY <1>2
  <2> QED BY <1>5, <2>1, <2>2 DEF KeepWhole
<1>8. p = [p EXCEPT !.rows = p.rows, !.chosen = p.chosen]
  BY <1>2 DEF Lenses
<1>9. SizeWhole(j)
  BY <1>3, <1>4, <1>7, <1>8 DEF SizeWhole
<1>10. Mended(j) /\ ConfigureWhole(j)
  BY <1>5 DEF Mended, ConfigureWhole, Resizable
<1> QED BY <1>3, <1>9, <1>10, SizeBegins

\* New values for all rows: every row gets its last one, after all that was half done to it.
LEMMA RefillBegins ==
  ASSUME EditInv, before = p, Resizable, NEW j, NEW op \in Refills, NEW k \in Nat \ {0},
         NEW rest \in Seq(Edits), NEW want, Resizes(j, op, k, rest, want), rest # << >>,
         \A i \in 1..Len(rest) : rest[i].act \notin {"shrink", "grow"},
         \A i \in 1..Len(rest) :
           rest[i].act = "write" => \E m \in i..Len(rest) : Completes(rest[m], rest[i].at),
         \A row \in 1..k : \E i \in 1..Len(rest) : Completes(rest[i], row),
         doc = "Wavelengths" => rest[Len(rest)].act = "choose",
         LET c == IF doc = "Fields" THEN p.chosen ELSE rest[Len(rest)].at
         IN  [p EXCEPT !.rows = News(k), !.chosen = c] \in want
  PROVE  Begins(j)
<1>1. p \in Lenses /\ n \in Nat
  BY DEF EditInv, Formed, Lenses, n
<1>2. Len(rest) \in Nat \ {0}
  BY EmptySeq
<1>3. /\ j.op = op /\ j.kind = "size" /\ j.final = "ok" /\ j.size = k /\ j.want = want
      /\ j.todo \in Seq(Edits) /\ Len(j.todo) = 2 + Len(rest)
      /\ Shrinks(j.todo[1]) /\ Grows(j.todo[2])
      /\ \A i \in 3..Len(j.todo) : j.todo[i] = rest[i - 2]
  BY DEF Resizes
<1>4. LoopsFirst(j) /\ Loops(j)
  BY LoopsComeFirst
<1> DEFINE s == j.todo
<1> HIDE DEF s
<1>5. \A i \in 1..Len(rest) : i + 2 \in 1..Len(s) /\ s[i + 2] = rest[i]
  <2> TAKE i \in 1..Len(rest)
  <2>1. i + 2 \in 3..Len(s) /\ i + 2 \in 1..Len(s) /\ (i + 2) - 2 = i
    BY <1>2, <1>3 DEF s
  <2> QED BY <1>3, <2>1 DEF s
<1>6. \A row \in 1..k : Pending(j, row)
  BY <1>5 DEF Pending, s
<1>7. LastEdit(j) = rest[Len(rest)] /\ s # << >>
  <2>1. Len(s) = Len(rest) + 2 /\ Len(rest) \in 1..Len(rest)
    BY <1>2, <1>3 DEF s
  <2>2. s # << >>
    BY <1>2, <2>1
  <2> QED BY <1>5, <2>1, <2>2 DEF LastEdit, s
<1>8. Mended(j)
  <2> SUFFICES ASSUME NEW i \in 1..Len(s), s[i].act = "write"
               PROVE  \E m \in i..Len(s) : Completes(s[m], s[i].at)
    BY DEF Mended, s
  <2>1. i # 1 /\ i # 2
    BY <1>3 DEF Shrinks, Grows, s
  <2>2. i - 2 \in 1..Len(rest) /\ s[i] = rest[i - 2]
    BY <1>2, <1>3, <2>1 DEF s
  <2>3. PICK m \in (i - 2)..Len(rest) : Completes(rest[m], rest[i - 2].at)
    BY <2>2
  <2>4. m \in 1..Len(rest) /\ m + 2 \in i..Len(s)
    BY <1>2, <1>3, <2>2 DEF s
  <2> QED BY <1>5, <2>2, <2>3, <2>4
<1>9. RefillWhole(j)
  <2>1. Asked(j, p.chosen) = rest[Len(rest)].at
    BY <1>7 DEF Asked, s
  <2> QED BY <1>3, <1>6, <1>7, <2>1 DEF RefillWhole
<1>10. p = [p EXCEPT !.rows = p.rows, !.chosen = p.chosen]
  BY <1>1 DEF Lenses
<1>11. SizeWhole(j) /\ ConfigureWhole(j)
  BY <1>3, <1>4, <1>9, <1>10 DEF SizeWhole, ConfigureWhole, Resizable
<1> QED BY <1>3, <1>8, <1>11, SizeBegins

\* Every row gets its last value with the last of its four edits.
LEMMA ValuesWhole ==
  ASSUME NEW k \in Nat \ {0}
  PROVE  /\ Values(k) \in Seq(Edits) /\ Len(Values(k)) = 4 * k
         /\ \A i \in 1..(4 * k) : Values(k)[i].act \in {"check", "write"}
         /\ \A i \in 1..(4 * k) : Values(k)[i].act = "write" =>
              \E m \in i..(4 * k) : Completes(Values(k)[m], Values(k)[i].at)
         /\ \A row \in 1..k : \E i \in 1..(4 * k) : Completes(Values(k)[i], row)
<1> DEFINE Row4(i) == (i + 3) \div 4
           Edit4(i) == ItemByItem((i + 3) \div 4)[((i - 1) % 4) + 1]
           s == Values(k)
<1>1. s = [i \in 1..(4 * k) |-> Edit4(i)] /\ 4 * k \in Nat
  BY DEF Values
<1>2. \A i \in 1..(4 * k) : /\ Row4(i) \in 1..k /\ 4 * Row4(i) \in i..(4 * k)
                            /\ ((i - 1) % 4) + 1 \in 1..4
  OBVIOUS
<1>3. \A row \in 1..k : /\ 4 * row \in 1..(4 * k) /\ Row4(4 * row) = row
                        /\ ((4 * row - 1) % 4) + 1 = 4
  OBVIOUS
<1>4. ASSUME NEW row \in Nat, NEW which \in 1..4
      PROVE  /\ ItemByItem(row)[which] \in Edits
             /\ ItemByItem(row)[which].act \in {"check", "write"}
             /\ ItemByItem(row)[which].act = "write" => ItemByItem(row)[which].at = row
             /\ Completes(ItemByItem(row)[4], row)
  <2> DEFINE t == ItemByItem(row)
             E == Edited({row})
  <2>1. t \in Seq(E) /\ t \in Seq(Edits) /\ Len(t) = 4 /\ Finishes(t, row)
    BY FourEdits, RowEdits, RowFinishes
  <2> HIDE DEF t, E
  <2>2. t[which] \in E /\ t[which] \in Edits
    BY <2>1
  <2>3. Completes(t[4], row)
    BY <2>1 DEF Finishes
  <2>4. /\ t[which].act \in {"check", "write"}
        /\ t[which].act = "write" => t[which].at = row
    BY <2>2 DEF E, Edited, WritesTo, Checks
  <2> QED BY <2>2, <2>3, <2>4 DEF t
<1>5. ASSUME NEW i \in 1..(4 * k)
      PROVE  /\ Edit4(i) \in Edits /\ Edit4(i).act \in {"check", "write"}
             /\ Edit4(i).act = "write" => Edit4(i).at = Row4(i)
  <2> DEFINE row == Row4(i)
             which == ((i - 1) % 4) + 1
  <2>1. row \in Nat /\ which \in 1..4
    BY <1>2
  <2>2. Edit4(i) = ItemByItem(row)[which]
    OBVIOUS
  <2> HIDE DEF row, which
  <2>3. /\ ItemByItem(row)[which] \in Edits
        /\ ItemByItem(row)[which].act \in {"check", "write"}
        /\ ItemByItem(row)[which].act = "write" => ItemByItem(row)[which].at = row
    BY <1>4, <2>1
  <2> QED BY <2>2, <2>3 DEF row
<1>6. ASSUME NEW row \in 1..k PROVE Completes(Edit4(4 * row), row)
  <2>1. Edit4(4 * row) = ItemByItem(row)[4]
    BY <1>3
  <2>2. row \in Nat /\ 4 \in 1..4
    OBVIOUS
  <2>3. Completes(ItemByItem(row)[4], row)
    BY <1>4, <2>2
  <2> QED BY <2>1, <2>3
<1> HIDE DEF Row4, Edit4, s
<1>7. s \in Seq(Edits) /\ Len(s) = 4 * k /\ \A i \in 1..(4 * k) : s[i] = Edit4(i)
  BY <1>1, <1>5
<1>8. \A row \in 1..k : 4 * row \in 1..(4 * k) /\ Completes(s[4 * row], row)
  BY <1>3, <1>6, <1>7
<1>9. ASSUME NEW i \in 1..(4 * k), s[i].act = "write"
      PROVE  \E m \in i..(4 * k) : Completes(s[m], s[i].at)
  <2>1. s[i].at = Row4(i) /\ Row4(i) \in 1..k /\ 4 * Row4(i) \in i..(4 * k)
    BY <1>2, <1>5, <1>7, <1>9
  <2>2. Completes(s[4 * Row4(i)], Row4(i))
    BY <1>8, <2>1
  <2> QED BY <2>1, <2>2
<1>10. \A i \in 1..(4 * k) : s[i].act \in {"check", "write"}
  BY <1>5, <1>7
<1> QED BY <1>7, <1>8, <1>9, <1>10 DEF s

LEMMA FieldsBegin ==
  ASSUME EditInv, before = p, doc = "Fields", NEW j, NEW k \in Nat \ {0},
         Resizes(j, "set_fields", k, Values(k), Sized(News(k)))
  PROVE  Begins(j)
<1> DEFINE rest == Values(k)
           want == Sized(News(k))
<1>1. /\ rest \in Seq(Edits) /\ Len(rest) = 4 * k
      /\ \A i \in 1..(4 * k) : rest[i].act \in {"check", "write"}
      /\ \A i \in 1..(4 * k) : rest[i].act = "write" =>
           \E m \in i..(4 * k) : Completes(rest[m], rest[i].at)
      /\ \A row \in 1..k : \E i \in 1..(4 * k) : Completes(rest[i], row)
  BY ValuesWhole
<1>2. [p EXCEPT !.rows = News(k), !.chosen = p.chosen] \in want
  BY DEF Sized
<1>3. Resizes(j, "set_fields", k, rest, want)
  OBVIOUS
<1> HIDE DEF rest, want
<1>4. rest # << >>
  <2>1. Len(rest) # 0
    BY <1>1
  <2> QED BY <2>1
<1>5. \A i \in 1..Len(rest) : rest[i].act \notin {"shrink", "grow"}
  BY <1>1
<1>6. \A i \in 1..Len(rest) :
         rest[i].act = "write" => \E m \in i..Len(rest) : Completes(rest[m], rest[i].at)
  BY <1>1
<1>7. \A row \in 1..k : \E i \in 1..Len(rest) : Completes(rest[i], row)
  BY <1>1
<1>8. LET c == IF doc = "Fields" THEN p.chosen ELSE rest[Len(rest)].at
      IN  [p EXCEPT !.rows = News(k), !.chosen = c] \in want
  BY <1>2
<1>9. Resizable /\ "set_fields" \in Refills /\ rest \in Seq(Edits)
  BY <1>1 DEF Resizable, Refills
<1>10. doc = "Wavelengths" => rest[Len(rest)].act = "choose"
  OBVIOUS
<1> QED BY <1>3, <1>4, <1>5, <1>6, <1>7, <1>8, <1>9, <1>10, RefillBegins

\* The primary wavelength is chosen when all wavelengths have their values.
LEMMA WavelengthsBegin ==
  ASSUME EditInv, before = p, doc = "Wavelengths", NEW j, NEW k \in Nat \ {0}, NEW primary \in 1..k,
         Resizes(j, "set_wavelengths", k, Values(k) \o Choose(primary),
                 {[p EXCEPT !.rows = News(k), !.chosen = primary]})
  PROVE  Begins(j)
<1> DEFINE a == Values(k)
           b == Choose(primary)
           rest == a \o b
           want == {[p EXCEPT !.rows = News(k), !.chosen = primary]}
<1>1. /\ a \in Seq(Edits) /\ Len(a) = 4 * k
      /\ \A i \in 1..(4 * k) : a[i].act \in {"check", "write"}
      /\ \A i \in 1..(4 * k) : a[i].act = "write" =>
           \E m \in i..(4 * k) : Completes(a[m], a[i].at)
      /\ \A row \in 1..k : \E i \in 1..(4 * k) : Completes(a[i], row)
  BY ValuesWhole
<1>2. b \in Seq(Edits) /\ Len(b) = 1 /\ b[1].act = "choose" /\ b[1].at = primary
  <2>1. "choose" \in Acts /\ "old" \in Fills \cup Modes /\ primary \in Nat
    BY DEF Acts, Fills
  <2> QED BY <2>1, EditForm DEF Choose
<1>3. [p EXCEPT !.rows = News(k), !.chosen = primary] \in want
  OBVIOUS
<1>4. Resizes(j, "set_wavelengths", k, rest, want)
  OBVIOUS
<1> HIDE DEF a, b, want
<1>5. /\ rest \in Seq(Edits) /\ Len(rest) = 4 * k + 1 /\ 4 * k \in Nat
      /\ \A i \in 1..(4 * k) : rest[i] = a[i]
      /\ rest[4 * k + 1] = b[1]
  <2>1. /\ rest \in Seq(Edits) /\ Len(rest) = Len(a) + Len(b)
        /\ \A i \in 1..Len(a) : rest[i] = a[i]
        /\ \A i \in (Len(a) + 1)..(Len(a) + Len(b)) : rest[i] = b[i - Len(a)]
    <3>1. a \in Seq(Edits) /\ b \in Seq(Edits)
      BY <1>1, <1>2
    <3> QED BY <3>1, ConcatParts, Zenon
  <2> HIDE DEF rest
  <2>2. 4 * k \in Nat /\ Len(a) = 4 * k /\ Len(b) = 1
    BY <1>1, <1>2
  <2>3. 4 * k + 1 \in (Len(a) + 1)..(Len(a) + Len(b)) /\ (4 * k + 1) - Len(a) = 1
    BY <2>2
  <2>4. rest[4 * k + 1] = b[1]
    BY <2>1, <2>3
  <2> QED BY <2>1, <2>2, <2>4
<1> HIDE DEF rest
<1>6. rest # << >>
  <2>1. Len(rest) # 0
    BY <1>5
  <2> QED BY <2>1
<1>7. \A i \in 1..Len(rest) : i \in 1..(4 * k) \/ i = 4 * k + 1
  BY <1>5
<1>8. \A i \in 1..Len(rest) : rest[i].act \notin {"shrink", "grow"}
  BY <1>1, <1>2, <1>5, <1>7
<1>9. ASSUME NEW i \in 1..Len(rest), rest[i].act = "write"
      PROVE  \E m \in i..Len(rest) : Completes(rest[m], rest[i].at)
  <2>1. i \in 1..(4 * k) /\ rest[i] = a[i]
    BY <1>2, <1>5, <1>7, <1>9
  <2>2. PICK m \in i..(4 * k) : Completes(a[m], a[i].at)
    BY <1>1, <1>9, <2>1
  <2>3. m \in i..Len(rest) /\ m \in 1..(4 * k)
    BY <1>5, <2>1
  <2> QED BY <1>5, <2>1, <2>2, <2>3
<1>10. ASSUME NEW row \in 1..k PROVE \E i \in 1..Len(rest) : Completes(rest[i], row)
  <2>1. PICK i \in 1..(4 * k) : Completes(a[i], row)
    BY <1>1
  <2>2. i \in 1..Len(rest)
    BY <1>5
  <2> QED BY <1>5, <2>1, <2>2
<1>11. rest[Len(rest)].act = "choose" /\ rest[Len(rest)].at = primary
  BY <1>2, <1>5
<1>12. LET c == IF doc = "Fields" THEN p.chosen ELSE rest[Len(rest)].at
       IN  [p EXCEPT !.rows = News(k), !.chosen = c] \in want
  BY <1>3, <1>11
<1>13. Resizable /\ "set_wavelengths" \in Refills /\ rest \in Seq(Edits)
  BY <1>5 DEF Resizable, Refills
<1> QED BY <1>4, <1>6, <1>8, <1>9, <1>10, <1>11, <1>12, <1>13, RefillBegins

LEMMA ResizeKeepsWhole ==
  ASSUME EditInv, WholeInv, NEW op, NEW k \in Nat, NEW accepted, NEW rest \in Seq(Edits), NEW want,
         ResizeTo(op, k, accepted, rest, want),
         \A j : k \in Nat \ {0} /\ accepted /\ before = p /\ Resizes(j, op, k, rest, want) => Begins(j)
  PROVE  WholeInv'
<1> DEFINE may == k >= 1 /\ accepted
           j == [Request(op, "size", 0, Resize(k) \o rest, want) EXCEPT !.size = k]
<1>1. Ask(op, may, j)
  BY DEF ResizeTo
<1>2. k \in Nat \ {0} => Resizes(j, op, k, rest, want)
  BY ResizeForm
<1> HIDE DEF j
<1>3. may /\ before = p => Begins(j)
  BY <1>2
<1> HIDE DEF may
<1> QED BY <1>1, <1>3, AskKeepsWhole

LEMMA ResizesStayWhole ==
  ASSUME EditInv, WholeInv, \/ set_number_of_fields \/ set_fields
                            \/ set_number_of_wavelengths \/ set_wavelengths
  PROVE  WholeInv'
<1>1. \A k \in 0..MaxSize : k \in Nat
  BY EditorAssumption
<1>2. ASSUME NEW op, op \notin Refills, NEW k \in 0..MaxSize, Resizable,
             ResizeTo(op, k, TRUE, << >>, Sized(Kept(k)))
      PROVE  WholeInv'
  <2> DEFINE rest == << >>
             want == Sized(Kept(k))
  <2>1. \A j : k \in Nat \ {0} /\ TRUE /\ before = p /\ Resizes(j, op, k, rest, want) => Begins(j)
    <3> SUFFICES ASSUME NEW j, k \in Nat \ {0}, before = p, Resizes(j, op, k, rest, want)
                 PROVE  Begins(j)
      OBVIOUS
    <3>1. Resizes(j, op, k, << >>, Sized(Kept(k)))
      OBVIOUS
    <3> HIDE DEF rest, want
    <3> QED BY <1>2, <3>1, KeepBegins, Zenon
  <2>2. rest \in Seq(Edits)
    OBVIOUS
  <2>3. k \in Nat
    BY <1>1
  <2>4. ResizeTo(op, k, TRUE, rest, want)
    BY <1>2
  <2> HIDE DEF rest, want
  <2> QED BY <2>1, <2>2, <2>3, <2>4, ResizeKeepsWhole
<1>3. CASE set_number_of_fields \/ set_number_of_wavelengths
  <2>1. PICK k \in 0..MaxSize :
          \/ ResizeTo("set_number_of_fields", k, TRUE, << >>, Sized(Kept(k)))
          \/ ResizeTo("set_number_of_wavelengths", k, TRUE, << >>, Sized(Kept(k)))
    BY <1>3 DEF set_number_of_fields, set_number_of_wavelengths
  <2>2. Resizable
    BY <1>3 DEF set_number_of_fields, set_number_of_wavelengths, Resizable
  <2>3. "set_number_of_fields" \notin Refills /\ "set_number_of_wavelengths" \notin Refills
    BY DEF Refills
  <2> QED BY <1>2, <2>1, <2>2, <2>3
<1>4. CASE set_fields
  <2>1. PICK k \in 0..MaxSize :
          doc = "Fields" /\ ResizeTo("set_fields", k, TRUE, Values(k), Sized(News(k)))
    BY <1>4 DEF set_fields
  <2> DEFINE rest == Values(k)
             want == Sized(News(k))
             op == "set_fields"
  <2>2. \A j : k \in Nat \ {0} /\ TRUE /\ before = p /\ Resizes(j, op, k, rest, want) => Begins(j)
    BY <2>1, FieldsBegin
  <2>3. rest \in Seq(Edits) /\ k \in Nat /\ ResizeTo(op, k, TRUE, rest, want)
    BY <1>1, <2>1, ValueEdits
  <2> HIDE DEF rest, want, op
  <2> QED BY <2>2, <2>3, ResizeKeepsWhole
<1>5. CASE set_wavelengths
  <2>1. PICK k \in 0..MaxSize, primary \in 0..(MaxSize + 1) :
          /\ doc = "Wavelengths"
          /\ ResizeTo("set_wavelengths", k, PrimaryAccepted(primary, k),
                      Values(k) \o Choose(primary),
                      {[p EXCEPT !.rows = News(k), !.chosen = primary]})
    BY <1>5 DEF set_wavelengths
  <2> DEFINE rest == Values(k) \o Choose(primary)
             want == {[p EXCEPT !.rows = News(k), !.chosen = primary]}
             accepted == PrimaryAccepted(primary, k)
             op == "set_wavelengths"
  <2>2. accepted => primary \in 1..k
    BY DEF PrimaryAccepted
  <2>3. \A j : k \in Nat \ {0} /\ accepted /\ before = p /\ Resizes(j, op, k, rest, want) => Begins(j)
    BY <2>1, <2>2, WavelengthsBegin
  <2>4. rest \in Seq(Edits) /\ k \in Nat
    <3> DEFINE a == Values(k)
               b == Choose(primary)
    <3>1. "choose" \in Acts /\ "old" \in Fills \cup Modes /\ primary \in Nat /\ k \in Nat
      BY <1>1, EditorAssumption DEF Acts, Fills
    <3>2. a \in Seq(Edits) /\ b \in Seq(Edits)
      BY <3>1, ValueEdits, EditForm DEF Choose
    <3> HIDE DEF a, b
    <3>3. a \o b \in Seq(Edits)
      BY <3>2
    <3> QED BY <3>1, <3>3 DEF a, b
  <2>5. ResizeTo(op, k, accepted, rest, want)
    BY <2>1
  <2> HIDE DEF rest, want, accepted, op
  <2> QED BY <2>3, <2>4, <2>5, ResizeKeepsWhole
<1> QED BY <1>3, <1>4, <1>5

-----------------------------------------------------------------------------
LEMMA OperationKeepsWhole == ASSUME EditInv, WholeInv, Operation PROVE WholeInv'
BY ReadsStayWhole, RemovesStayWhole, ReplacesStayWhole, ConvertsStayWhole, ConfiguresStayWhole,
   ResizesStayWhole, SurfacesStayWhole, ObjectsStayWhole, SettingsStayWhole, AddsStayWhole,
   OperandStaysWhole, InsertsStayWhole
DEF Operation

LEMMA StepWholeInv == EditInv /\ WholeInv /\ [Next]_vars => WholeInv'
<1> SUFFICES ASSUME EditInv, WholeInv, [Next]_vars PROVE WholeInv'
  OBVIOUS
<1>1. CASE UNCHANGED <<doc, p, job, before, missed>>
  <2>1. UNCHANGED <<doc, p, job, before, missed>>
    BY <1>1
  <2>2. (PlainRows /\ (Idle => before = p) /\ (job.result = "ok" => job.final = "ok"))'
    BY <2>1 DEF WholeInv, PlainRows, Idle, n
  <2>3. ASSUME WholePlan(job) PROVE WholePlan(job)'
    <3>1. (Mended(job) /\ WriteWhole(job) /\ AddWhole(job))'
      BY <2>1, <2>3 DEF WholePlan, Mended, WriteWhole, Renewed, AddWhole, Filling, Pending, n
    <3>2. (SingleWhole(job) /\ ReadWhole(job))'
      <4>1. \A e : Outcomes(e)' = Outcomes(e)
        BY <2>1 DEF Outcomes, Sized, Held, Reached, n
      <4> QED BY <2>1, <2>3, <4>1 DEF WholePlan, SingleWhole, ReadWhole
    <3>3. ConfigureWhole(job)'
      BY <2>1, <2>3 DEF WholePlan, ConfigureWhole, Asked, LastEdit
    <3>4. SizeWhole(job)'
      BY <2>1, <2>3 DEF WholePlan, SizeWhole, LoopsFirst, RefillWhole, KeepWhole, Asked, LastEdit,
                        Loops, Pending, Resizable, n
    <3> QED BY <2>1, <2>3, <3>1, <3>2, <3>3, <3>4 DEF WholePlan, Resizable
  <2> QED BY <2>1, <2>2, <2>3 DEF WholeInv
<1>2. CASE EditNext
  BY <1>1, <1>2, OperationKeepsWhole, EditStepKeepsWhole, EditMissedKeepsWhole,
     EditRaisesKeepsWhole, ReplyKeepsWhole
  DEF EditNext, SetFieldType
<1> QED BY <1>1, <1>2 DEF Next, EditorStep, CatalogStep, vars, editVars

LEMMA SpecWholeInv == Spec => []WholeInv
<1>1. Init => WholeInv
  BY InitWholeInv DEF Init
<1> QED BY <1>1, StepWholeInv, SpecEditInv, PTL DEF Spec

\* An operation that succeeds has done what it was asked, all of it and nothing else, and
\* reports the row that it added, unless OpticStudio did nothing at a call whose answer
\* the code drops (mce_mfe.py:127, 228 and 255, settings_lde.py:326): for any number of
\* rows, values and rounds of a loop, however many fields, wavelengths or configurations.
THEOREM SucceedsWhole == Spec => []SuccessIsWhole
<1>1. EditInv /\ WholeInv /\ Flags => SuccessIsWhole
  <2> SUFFICES ASSUME EditInv, WholeInv, Flags, job.result = "ok"
               PROVE  /\ (fieldType = "new") = (job.op = "set_fields")
                      /\ ~missed => /\ p \in job.want
                                    /\ job.kind = "add" => p.rows[job.row].fill = "new"
    BY DEF SuccessIsWhole
  <2>1. job.todo = << >>
    BY DEF EditInv, Formed, Ended
  <2>2. (fieldType = "new") = (job.op = "set_fields")
    BY <2>1 DEF Flags
  <2> QED BY <2>2, WholeAtTheEnd
<1> QED BY <1>1, SpecEditInv, SpecFlags, SpecWholeInv, PTL
=============================================================================
