----------------------------- MODULE MCPlanWizard -----------------------------
(***************************************************************************)
(* An instance with the paths d, d/s, d/s/f and e, two entries a page.  The *)
(* text "f" matches d/s/f only.                                             *)
(***************************************************************************)
EXTENDS PlanWizard, TLC

CONSTANTS d, s, f, e

PathsBelow == {<<s, d>>, <<f, d>>, <<f, s>>}
PathDepth == d :> 1 @@ s :> 3 @@ f :> 5 @@ e :> 1
PathOrder == <<d, s, f, e>>
TextMatches == "" :> {d, s, f, e} @@ "f" :> {f}

PlanScopes == {[mode |-> "FULL", directories |-> {}, files |-> {}],
               [mode |-> "CORE", directories |-> {}, files |-> {}],
               [mode |-> "CORE", directories |-> {}, files |-> {f}],
               [mode |-> "CUSTOM", directories |-> {d}, files |-> {}]}

================================================================================
