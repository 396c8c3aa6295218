-------------------------------- MODULE FileStore --------------------------------
(***************************************************************************)
(* What the files of an open document promise.  view is what can be read   *)
(* while it is open, saved what opening a stored container would show, and *)
(* backup what could be read when the document was last backed up.         *)
(*                                                                         *)
(* A save that reports success has stored the view, and left it alone.     *)
(* One that fails may lose files of the view and damage the container it   *)
(* writes, as may the death of the process while one is written; no other  *)
(* container is harmed.  Recovery makes nothing up.                        *)
(***************************************************************************)
EXTENDS Naturals

CONSTANTS Plain, Files, Contents, Absent, Lost,
          Closed,      \* no document is open
          NoStore,     \* nothing is stored there
          Damaged      \* what is stored cannot be opened

VARIABLES
    view,
    saved,
    backup,
    target,     \* the container that is being written, or NoStore
    ok,         \* no save since it was opened failed, or the last one did not
    dated       \* what is seen is an earlier version: a copy of the container shows another

vars == <<view, saved, backup, target, ok, dated>>

Nothing == [n \in Plain |-> Absent]
Open == view # Closed
Quiet == Open /\ target = NoStore
OnlyHarms(fs) == \A f \in Files \ fs : saved'[f] = saved[f] \/ saved[f] = Damaged
Kept == \A f \in Files : saved'[f] = saved[f]

Init ==
    /\ view = Closed
    /\ saved = [f \in Files |-> NoStore]
    /\ backup = Closed
    /\ target = NoStore
    /\ ok = TRUE
    /\ dated = FALSE

OpenNew == ~Open /\ view' = Nothing /\ target' = NoStore /\ Kept /\ UNCHANGED backup

OpenStored ==
    /\ ~Open
    /\ target' = NoStore
    /\ \/ ~dated' /\ \E f \in Files : saved[f] \notin {NoStore, Damaged} /\ view' = saved[f]
       \/ dated' /\ view' # Closed
    /\ Kept
    /\ UNCHANGED backup

Change ==
    /\ Quiet
    /\ view' # Closed
    /\ \E n \in Plain :
         /\ view'[n] \in Contents \union {Absent}
         /\ \A m \in Plain \ {n} : view'[m] = view[m]
    /\ dated' \in {dated, FALSE}
    /\ Kept
    /\ UNCHANGED <<backup, target, ok>>

Backup == Quiet /\ backup' \in {view, Closed} /\ Kept /\ UNCHANGED <<view, target, ok, dated>>

BeginSave ==
    /\ Quiet
    /\ target' \in Files
    /\ OnlyHarms({target'})
    /\ UNCHANGED <<view, backup, ok, dated>>

Write == Open /\ target \in Files /\ OnlyHarms({target}) /\ UNCHANGED <<view, backup, target, ok, dated>>

SaveDone ==
    /\ Open
    /\ target \in Files
    /\ ok'
    /\ saved'[target] = view'
    /\ view' = view \/ dated
    /\ OnlyHarms({target})
    /\ target' = NoStore
    /\ UNCHANGED backup

SaveFailed ==
    /\ Open
    /\ target \in Files
    /\ ~ok'
    /\ view' # Closed
    /\ \A n \in Plain : view'[n] \in {view[n], Lost}
    /\ OnlyHarms({target})
    /\ target' = NoStore
    /\ UNCHANGED backup

\* Of its own accord or not; an idle document that stops harms nothing.
Stop ==
    /\ Open
    /\ view' = Closed
    /\ OnlyHarms({target})
    /\ target' = NoStore
    /\ backup' \in {backup, Closed}
    /\ UNCHANGED ok

Recover ==
    /\ ~Open
    /\ backup # Closed
    /\ view' # Closed
    /\ \A n \in Plain : view'[n] \in {backup[n], Lost} \union {saved[f][n] : f \in {g \in Files : saved[g] \notin {NoStore, Damaged}}}
    /\ Kept
    /\ UNCHANGED <<backup, target>>

\* A backup that cannot be read is thrown away.
Discard == ~Open /\ backup' = Closed /\ Kept /\ UNCHANGED <<view, target, ok, dated>>

Next ==
    \/ OpenNew
    \/ OpenStored
    \/ Change
    \/ Backup
    \/ BeginSave
    \/ Write
    \/ SaveDone
    \/ SaveFailed
    \/ Stop
    \/ Recover
    \/ Discard

Spec == Init /\ [][Next]_vars

=============================================================================
