----------------------------- MODULE MCActionSystem -----------------------------
(***************************************************************************)
(* ActionSystem for TLC: restrictions of Next that separate the causes of  *)
(* what a run finds.                                                       *)
(***************************************************************************)
EXTENDS ActionSystem

\* The user never goes back: groups, cancelled drags and saving only.
ForwardSpec == Init /\ [][Edit \/ \E ok \in BOOLEAN : Save(ok)]_vars
=============================================================================
