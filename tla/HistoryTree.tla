------------------------------- MODULE HistoryTree -------------------------------
(***************************************************************************)
(* studio::HistoryTreeStore, the model behind the history window, composed *)
(* with the action system it listens to.  The store rebuilds itself after  *)
(* an undo or a redo, and patches its rows after the other signals.        *)
(***************************************************************************)
EXTENDS ActionSystem

VARIABLES
    rows,      \* the top-level rows: an action and which stack it is taken to be on
    early      \* how many rows show actions of a group that had not ended

treeVars == <<rows, early>>

Row(e, undo) == [action |-> e, is_undo |-> undo]

Rows(s, undo) == [i \in 1..Len(s) |-> Row(s[i], undo)]

\* rebuild(): all of the undo stack, then all of the redo stack.
Rebuilt(undone, redone) == Rows(undone, TRUE) \o Rows(redone, FALSE)

\* The rows that are left when those of one stack are erased.
Without(r, undo) ==
    LET kept[i \in 0..Len(r)] ==
            IF i = 0 THEN <<>>
            ELSE IF r[i].is_undo = undo THEN kept[i - 1] ELSE Append(kept[i - 1], r[i])
    IN  kept[Len(r)]

\* on_new_action: before the first row of the redo stack, wherever that is.
FirstRedoRow(r) ==
    CHOOSE i \in 1..(Len(r) + 1) :
        /\ i <= Len(r) => ~r[i].is_undo
        /\ \A j \in 1..(i - 1) : r[j].is_undo

\* Fault: a new row always goes last.
InsertedLast(r, e) == Append(r, Row(e, TRUE))

Inserted(r, e) ==
    LET i == FirstRedoRow(r)
    IN  SubSeq(r, 1, i - 1) \o <<Row(e, TRUE)>> \o SubSeq(r, i, Len(r))

-----------------------------------------------------------------------------
\* on_undo, on_redo: the rows show the stacks, those of an open group too.
Refresh ==
    /\ rows' = Rebuilt(undo_action_stack_', redo_action_stack_')
    /\ early' = IF group_stack_' = <<>> THEN 0 ELSE group_stack_'[1].depth

TreeInit == Init /\ rows = <<>> /\ early = 0

TreePerform(d) ==
    /\ PerformAction(d)
    /\ rows' = IF Grouped THEN rows ELSE Inserted(rows, Done(doc, d))
    /\ UNCHANGED early

TreeTravel == Travel /\ Refresh

TreeBeginGroup == BeginGroup /\ UNCHANGED treeVars

TreeCancelGroup(k) ==
    /\ CancelGroup(k)
    /\ IF k > 0 THEN Refresh ELSE UNCHANGED treeVars

\* The outermost group announces its entry; the inner ones are silent.
TreeEndGroup ==
    /\ EndGroup
    /\ rows' = IF Len(group_stack_) = 1 /\ Front.depth > 0
               THEN Inserted(rows, undo_action_stack_'[Len(undo_action_stack_')])
               ELSE rows
    /\ UNCHANGED early

TreeToggle ==
    \/ (\E p \in 1..MaxStack : ToggleDone(p)) /\ Refresh
    \/ \E k \in 0..MaxStack : ToggleAborted(k) /\ IF k > 0 THEN Refresh ELSE UNCHANGED treeVars

\* on_action_status_changed: the i-th row of the redo stack is switched.
TreeToggleUndone(i) ==
    /\ ToggleUndone(i)
    /\ rows' = [rows EXCEPT ![FirstRedoRow(rows) + i - 1].action.active = ~@]
    /\ UNCHANGED early

\* on_undo_stack_cleared and on_redo_stack_cleared.
TreeClear ==
    \/ ClearUndoStack /\ rows' = Without(rows, TRUE) /\ early' = 0
    \/ ClearRedoStack /\ rows' = Without(rows, FALSE) /\ UNCHANGED early

TreeSave == (\E ok \in BOOLEAN : Save(ok)) /\ UNCHANGED treeVars

TreeNext ==
    \/ \E d \in Docs : TreePerform(d)
    \/ TreeTravel
    \/ TreeBeginGroup
    \/ \E k \in 0..MaxStack : TreeCancelGroup(k)
    \/ TreeEndGroup
    \/ TreeToggle
    \/ \E i \in 1..MaxStack : TreeToggleUndone(i)
    \/ TreeClear
    \/ TreeSave

TreeSpec == TreeInit /\ [][TreeNext]_<<vars, treeVars>>

-----------------------------------------------------------------------------
\* What can be redone is shown as it is and below all else: the window never
\* offers to redo an action that the redo stack does not hold.
RedoRowsExact == Without(rows, TRUE) = Rows(redo_action_stack_, FALSE)

(***************************************************************************)
(* The window shows the time line: every action of the undo stack and then *)
(* every action of the redo stack, in order and with its check mark, less  *)
(* the actions of a group that has not ended.  The store patches its rows  *)
(* after some signals and rebuilds them after others, and the two have to  *)
(* agree.  The exception is a group whose cancel() failed half way: the    *)
(* rebuild during it showed its actions, and its entry comes after them,   *)
(* until something is undone or redone; what can be redone is right even   *)
(* then.                                                                   *)
(***************************************************************************)
WindowShowsTimeline ==
    /\ RedoRowsExact
    /\ early = 0 =>
        rows = Rebuilt(IF Grouped THEN SubSeq(undo_action_stack_, 1, group_stack_[1].opened)
                       ELSE undo_action_stack_,
                       redo_action_stack_)
=============================================================================
