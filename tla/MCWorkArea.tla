------------------------------- MODULE MCWorkArea -------------------------------
(***************************************************************************)
(* WorkArea for TLC: restrictions of its next-state relation that separate *)
(* the causes of what a run finds.                                         *)
(***************************************************************************)
EXTENDS WorkArea

Working == Sources \/ Handler \/ AreaRenderStep

\* While playing nothing is edited, no frame comes while a refresh is queued or
\* in the 50 ms in which a render is about to start, and the user stops it before
\* its end.
CalmFrame == done_connection # "start" /\ ~timer_id /\ PlayFrame

QuietNext == (~playing /\ EditInput) \/ Play \/ CalmFrame \/ PlayStop \/ Working

QuietSpec == AreaInit /\ [][QuietNext]_areaVars /\ AreaFairness

\* Editing, and closing the document.
CloseSpec == AreaInit /\ [][EditInput \/ Working \/ Close]_areaVars /\ AreaFairness
=============================================================================
