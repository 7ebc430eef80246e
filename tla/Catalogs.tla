------------------------------ MODULE Catalogs ------------------------------
(***************************************************************************)
(* settings_lde.py: the material catalogs in use.  Callers name a catalog  *)
(* in any spelling; OpticStudio has one for each that it can find, and a   *)
(* lens file may name, in its own, catalogs that are not to be found.      *)
(***************************************************************************)
EXTENDS FiniteSets, TLC

CONSTANTS Catalog,    \* catalogs
          Spellings,  \* ways to write a name that differ in upper and lower case
          Available,  \* GetAvailableCatalogs()
          LensNames   \* GetCatalogsInUse() of the lens that is loaded

VARIABLES inUse,  \* GetCatalogsInUse()
          answer  \* of the last call, with inUse as it was before

catalogVars == <<inUse, answer>>

Names == [catalog : Catalog, spelling : Spellings]
SameName(name, other) == name.catalog = other.catalog \* casefold()

ASSUME CatalogAssumption ==
  \A S \in {Available, LensNames} :
    S \subseteq Names /\ \A name, other \in S : SameName(name, other) => name = other

NoAnswer == [result |-> "none"]
CatalogInit == inUse = LensNames /\ answer = NoAnswer

\* _catalog_name(): the spelling OpticStudio has for it, or else the one in use.
Canonical(name) ==
  LET known == {other \in Available : SameName(name, other)}
      used == {other \in inUse : SameName(name, other)}
  IN  IF known # {} THEN CHOOSE other \in known : TRUE
      ELSE IF used # {} THEN CHOOSE other \in used : TRUE
      ELSE name

\* A bug: upper and lower case are told apart.
HasExactly(S, name) == name \in S
Uses(S, name) == \E other \in S : SameName(name, other)

\* What an operation answers; it reads the catalogs again, and raises if OpticStudio
\* has not done what it said.
Trusting(kept) == "ok" \* a bug: OpticStudio is taken at its word
Verified(kept) == IF kept THEN "ok" ELSE "error"
Answer(call, name, changed, kept) ==
  answer' = [result |-> Verified(kept), call |-> call, name |-> name,
             changed |-> changed, was |-> inUse]

\* AddCatalog() may fail, or do nothing.
add_material_catalog(written) ==
  LET name == Canonical(written)
      found == Uses(inUse, name)
  IN  IF ~Uses(Available \cup inUse, name)
      THEN answer' = [NoAnswer EXCEPT !.result = "refused"] /\ UNCHANGED inUse
      ELSE /\ inUse' \in IF found THEN {inUse} ELSE {inUse, inUse \cup {name}}
           /\ Answer("add", name, ~found, Uses(inUse', name))

Active(name) == {other \in inUse : SameName(name, other)}
remove_material_catalog(written) ==
  LET name == Canonical(written)
      found == Uses(inUse, name)
  IN  /\ inUse' \in IF found THEN {inUse, inUse \ Active(name)} ELSE {inUse}
      /\ Answer("remove", name, found, ~Uses(inUse', name))

CatalogNext == \E written \in Names :
  add_material_catalog(written) \/ remove_material_catalog(written)
CatalogSpec == CatalogInit /\ [][CatalogNext]_catalogVars

-----------------------------------------------------------------------------
\* settings_lde.py:263: no catalog is in use twice, whatever spellings were used for it.
CatalogOnce == \A name, other \in inUse : SameName(name, other) => name = other

\* settings_lde.py:271 and 299: an answer that says that a catalog was added, or removed,
\* or was so already, is true, whatever OpticStudio did; and only that catalog is
\* concerned.
AnswerIsTrue ==
  answer.result = "ok" =>
    LET used == {other.catalog : other \in answer.was}
        uses == {other.catalog : other \in inUse}
        this == {answer.name.catalog}
    IN  /\ uses = IF answer.call = "add" THEN used \cup this ELSE used \ this
        /\ answer.changed <=> uses # used
=============================================================================
