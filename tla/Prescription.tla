---------------------------- MODULE Prescription ----------------------------
(***************************************************************************)
(* The documents of a system together with its material catalogs, which    *)
(* are part of the settings: one operation at a time on the worker thread. *)
(***************************************************************************)
EXTENDS Editors, Catalogs

vars == <<editVars, catalogVars>>

Init == EditInit /\ CatalogInit
CatalogStep == /\ doc = "Settings" /\ Idle
               /\ CatalogNext
               /\ UNCHANGED editVars
EditorStep(A) == A /\ UNCHANGED catalogVars
Next == EditorStep(EditNext) \/ CatalogStep
Fairness == WF_vars(EditorStep(SetFieldType \/ (EditStep /\ ~Removing) \/ Reply))
Spec == Init /\ [][Next]_vars /\ Fairness
=============================================================================
