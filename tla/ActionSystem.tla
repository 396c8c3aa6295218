------------------------------ MODULE ActionSystem ------------------------------
(***************************************************************************)
(* synfigapp::Action::System and Action::PassiveGrouper: the undo history  *)
(* of one open document of Synfig Studio.                                  *)
(*                                                                         *)
(* The document is opaque, a member of Docs.  An action on a stack records *)
(* the document its perform() found (old) and the one it left (new), and   *)
(* its undo() puts old back: that is the contract an Undoable signs.  A    *)
(* perform() that finds the document it was recorded for leaves the same   *)
(* document again; in any other document the outcome is not known.  A      *)
(* perform() or undo() that throws leaves the document as it was (what     *)
(* Action::Super promises for a compound action).                          *)
(*                                                                         *)
(* undo_action_stack_ is kept oldest first, so that its front() is the     *)
(* last element, and redo_action_stack_ next first: the concatenation of   *)
(* the two is the time line the history window shows.  Signals are called  *)
(* synchronously in the one GUI thread, so an operation is one step; what  *)
(* the slots of studio::Instance and of CanvasView keep is in undo_status_,*)
(* redo_status_ and starred.                                               *)
(***************************************************************************)
EXTENDS Integers, Sequences

CONSTANTS
    Docs,         \* the documents the user can produce
    MaxStack,     \* bound: actions on the two stacks together
    MaxGroups,    \* bound: nested PassiveGroupers
    MaxCount      \* bound: |action_count_|

ASSUME ConstantsAssumption ==
    /\ Docs # {}
    /\ MaxStack \in Nat
    /\ MaxGroups \in Nat
    /\ MaxCount \in Nat \ {0}

VARIABLES
    doc,                 \* the document
    undo_action_stack_,  \* performed actions, oldest first
    redo_action_stack_,  \* undone actions, next to redo first
    group_stack_,        \* open PassiveGroupers, outermost first
    cancelled,           \* the outermost group has been cancelled and is about to end
    action_count_,       \* "number of actions performed since last save"
    undo_status_,        \* studio::Instance: is Undo sensitive
    redo_status_,        \* studio::Instance: is Redo sensitive
    starred,             \* the window titles show the '*' of a modified document
    saved_doc            \* the document as opened, created or last saved

stacks == <<undo_action_stack_, redo_action_stack_>>
status == <<undo_status_, redo_status_>>
counter == <<action_count_, starred>>
vars == <<doc, stacks, group_stack_, cancelled, counter, status, saved_doc>>

Undoable == [old : Docs, new : Docs, active : BOOLEAN]

\* A group's depth_, and two facts about the moment it was opened that the
\* code does not store: the height of the undo stack and the document.
Grouper == [depth : Nat, opened : Nat, found : Docs]

Depth == Len(undo_action_stack_)
Grouped == group_stack_ # <<>>
Front == group_stack_[Len(group_stack_)]

(***************************************************************************)
(* The document below position i of stack s: the one the lowest active     *)
(* action at or above i found; d when there is none.                       *)
(***************************************************************************)
ActiveFrom(s, i) == {q \in i..Len(s) : s[q].active}
Lowest(S) == CHOOSE q \in S : \A r \in S : q <= r
DocBelow(s, i, d) ==
    IF ActiveFrom(s, i) = {} THEN d ELSE s[Lowest(ActiveFrom(s, i))].old

\* Fault: nothing is signalled when the counter comes back to 0.
ToldNotAtZero(a, b, shown) ==
    CASE a < 1 /\ b >= 1    -> TRUE
      [] b < 0 /\ a > -1    -> FALSE
      [] OTHER              -> shown

(***************************************************************************)
(* inc_action_count and dec_action_count signal when the counter reaches   *)
(* 1, 0 or -1; the slot of that signal redraws the titles, with a '*' when *)
(* the counter is positive.  Told is what the titles show after the        *)
(* counter has gone one by one from a to b.                                *)
(***************************************************************************)
Told(a, b, shown) ==
    CASE a < 1 /\ b >= 1              -> TRUE
      [] a < 0 /\ b = 0               -> FALSE
      [] b < a /\ b <= 0 /\ a > -1    -> FALSE
      [] OTHER                        -> shown

CountTo(n) ==
    /\ n \in -MaxCount .. MaxCount
    /\ action_count_' = n
    /\ starred' = Told(action_count_, n, starred)

-----------------------------------------------------------------------------
Init ==
    /\ doc \in Docs
    /\ undo_action_stack_ = <<>>
    /\ redo_action_stack_ = <<>>
    /\ group_stack_ = <<>>
    /\ cancelled = FALSE
    /\ \/ action_count_ = 0 /\ saved_doc = doc       \* opened or created
       \/ action_count_ = 1 /\ saved_doc \in Docs    \* recovered, or rewritten by a plugin
    /\ undo_status_ = FALSE
    /\ redo_status_ = FALSE
    /\ starred = (action_count_ > 0)

\* What a newly performed action records.
Done(before, after) == [old |-> before, new |-> after, active |-> TRUE]

\* Fault: nothing done inside a group is counted in it.
AddedUncounted(outer) ==
    group_stack_' = outer /\ IF outer = <<>> THEN CountTo(action_count_ + 1) ELSE UNCHANGED counter

\* An action or a whole group has been added: it counts in the group around
\* it, or else as one change of the document.  outer is that group's stack.
Added(outer) ==
    IF outer = <<>>
    THEN group_stack_' = outer /\ CountTo(action_count_ + 1)
    ELSE /\ group_stack_' = [outer EXCEPT ![Len(outer)].depth = @ + 1]
         /\ UNCHANGED counter

\* perform_action of an action that leaves document d.  The redo stack stays:
\* clear_redo_stack_on_new_action_ is false and nothing sets it.
PerformAction(d) ==
    /\ ~cancelled
    /\ Len(undo_action_stack_ \o redo_action_stack_) < MaxStack
    /\ doc' = d
    /\ undo_action_stack_' = Append(undo_action_stack_, Done(doc, d))
    /\ Added(group_stack_)
    /\ undo_status_' = (undo_status_ \/ undo_action_stack_ = <<>>)
    /\ UNCHANGED <<redo_action_stack_, redo_status_, cancelled, saved_doc>>

\* Fault: undo() is called on inactive actions too.
MoveToRedoAll(k) ==
    LET kept == Depth - k
    IN  /\ doc' = IF k = 0 THEN doc ELSE undo_action_stack_[kept + 1].old
        /\ undo_action_stack_' = SubSeq(undo_action_stack_, 1, kept)
        /\ redo_action_stack_' = SubSeq(undo_action_stack_, kept + 1, Depth) \o redo_action_stack_
        /\ undo_status_' = (undo_status_ /\ (k = 0 \/ kept > 0))
        /\ redo_status_' = (redo_status_ \/ (k > 0 /\ redo_action_stack_ = <<>>))
        /\ CountTo(action_count_ - k)

\* Fault: the status of the undo stack is not signalled when it runs empty.
MoveToRedoSilent(k) ==
    LET kept == Depth - k
    IN  /\ doc' = DocBelow(undo_action_stack_, kept + 1, doc)
        /\ undo_action_stack_' = SubSeq(undo_action_stack_, 1, kept)
        /\ redo_action_stack_' = SubSeq(undo_action_stack_, kept + 1, Depth) \o redo_action_stack_
        /\ redo_status_' = (redo_status_ \/ (k > 0 /\ redo_action_stack_ = <<>>))
        /\ CountTo(action_count_ - k)
        /\ UNCHANGED undo_status_

(***************************************************************************)
(* k successful undo_() in a row.  undo_() skips undo() of an inactive     *)
(* action but moves it all the same.                                       *)
(***************************************************************************)
MoveToRedo(k) ==
    LET kept == Depth - k
    IN  /\ doc' = DocBelow(undo_action_stack_, kept + 1, doc)
        /\ undo_action_stack_' = SubSeq(undo_action_stack_, 1, kept)
        /\ redo_action_stack_' = SubSeq(undo_action_stack_, kept + 1, Depth) \o redo_action_stack_
        /\ undo_status_' = (undo_status_ /\ (k = 0 \/ kept > 0))
        /\ redo_status_' = (redo_status_ \/ (k > 0 /\ redo_action_stack_ = <<>>))
        /\ CountTo(action_count_ - k)

\* System::undo() called by the user.
Undo ==
    /\ ~Grouped
    /\ Depth > 0
    /\ MoveToRedo(1)
    /\ UNCHANGED <<group_stack_, cancelled, saved_doc>>

(***************************************************************************)
(* redo_() of entry e, active when a, takes document before to after: as   *)
(* recorded, to anything when the document is another one, nowhere when    *)
(* the action is inactive.  An action performed again records again.       *)
(***************************************************************************)
Redoes(e, a, before, after) ==
    IF a THEN before = e.old => after = e.new ELSE after = before

\* Fault: an action performed again keeps its first record.
RedoneStale(e, a, before, after) == [e EXCEPT !.active = a]

Redone(e, a, before, after) ==
    IF a THEN Done(before, after) ELSE [e EXCEPT !.active = FALSE]

Redo(d) ==
    /\ ~Grouped
    /\ redo_action_stack_ # <<>>
    /\ LET e == Head(redo_action_stack_)
       IN  /\ Redoes(e, e.active, doc, d)
           /\ undo_action_stack_' = Append(undo_action_stack_, Redone(e, e.active, doc, d))
    /\ redo_action_stack_' = Tail(redo_action_stack_)
    /\ doc' = d
    /\ undo_status_' = (undo_status_ \/ undo_action_stack_ = <<>>)
    /\ redo_status_' = (redo_status_ /\ Len(redo_action_stack_) > 1)
    /\ CountTo(action_count_ + 1)
    /\ UNCHANGED <<group_stack_, cancelled, saved_doc>>

-----------------------------------------------------------------------------
BeginGroup ==
    /\ ~cancelled
    /\ Len(group_stack_) < MaxGroups
    /\ action_count_ < MaxCount    \* bound: the group will be able to end
    /\ group_stack_' = Append(group_stack_, [depth |-> 0, opened |-> Depth, found |-> doc])
    /\ UNCHANGED <<doc, stacks, cancelled, counter, status, saved_doc>>

(***************************************************************************)
(* cancel() undoes actions until depth_ is 0 or one of them cannot be      *)
(* undone.  Its callers cancel an outermost group and leave its scope next.*)
(***************************************************************************)
CancelGroup(k) ==
    /\ ~cancelled
    /\ Len(group_stack_) = 1
    /\ k \in 0..Front.depth
    /\ k < Front.depth => undo_action_stack_[Depth - k].active
    /\ MoveToRedo(k)
    /\ group_stack_' = [group_stack_ EXCEPT ![1].depth = @ - k]
    /\ cancelled' = TRUE
    /\ UNCHANGED saved_doc

\* Fault: the actions are added to the Group at the wrong end.
MergedBackwards(s, i) ==
    Append(SubSeq(s, 1, i), Done(s[Len(s)].old, s[i + 1].new))

\* The entries above position i become one Group.
Merged(s, i) ==
    Append(SubSeq(s, 1, i), Done(s[i + 1].old, s[Len(s)].new))

\* ~PassiveGrouper
EndGroup ==
    /\ Grouped
    /\ LET outer == SubSeq(group_stack_, 1, Len(group_stack_) - 1)
       IN  /\ undo_action_stack_' = IF Front.depth > 1
                                    THEN Merged(undo_action_stack_, Depth - Front.depth)
                                    ELSE undo_action_stack_
           /\ IF Front.depth > 0
              THEN Added(outer)
              ELSE group_stack_' = outer /\ UNCHANGED counter
    /\ cancelled' = FALSE
    /\ UNCHANGED <<doc, redo_action_stack_, status, saved_doc>>

-----------------------------------------------------------------------------
(***************************************************************************)
(* set_action_status of an action that is on the undo stack, at position   *)
(* p: everything from the top down to it is undone, it is switched, and    *)
(* all of it is redone.  D[q] is the document before action q is redone    *)
(* and A[q] whether q is active then: an action that cannot be redone is   *)
(* switched off and moved back inactive.                                   *)
(***************************************************************************)
ToggleDone(p) ==
    /\ ~Grouped
    /\ p \in 1..Depth
    /\ action_count_ - (Depth - p + 1) >= -MaxCount
    /\ \E D \in [p..(Depth + 1) -> Docs], A \in [p..Depth -> BOOLEAN] :
        LET s == undo_action_stack_
        IN  /\ D[p] = DocBelow(s, p, doc)
            /\ s[p].active => ~A[p]
            /\ \A q \in (p + 1)..Depth : A[q] => s[q].active
            /\ \A q \in p..Depth : Redoes(s[q], A[q], D[q], D[q + 1])
            /\ undo_action_stack_' =
                 [q \in 1..Depth |-> IF q < p THEN s[q] ELSE Redone(s[q], A[q], D[q], D[q + 1])]
            /\ doc' = D[Depth + 1]
    /\ undo_status_' = (undo_status_ \/ p = 1)
    /\ redo_status_' = (redo_status_ /\ redo_action_stack_ # <<>>)
    /\ starred' = LET low == action_count_ - (Depth - p + 1)
                  IN  Told(low, action_count_, Told(action_count_, low, starred))
    /\ UNCHANGED <<redo_action_stack_, group_stack_, cancelled, action_count_, saved_doc>>

\* set_action_status gives up after k undo_(), at an action that cannot be undone.
ToggleAborted(k) ==
    /\ ~Grouped
    /\ k \in 0..(Depth - 1)
    /\ undo_action_stack_[Depth - k].active
    /\ MoveToRedo(k)
    /\ UNCHANGED <<group_stack_, cancelled, saved_doc>>

\* set_action_status of an action that is on the redo stack.  With nothing left to undo, the
\* code first copies the front of an empty list (471; so does the loop at 505 when the oldest
\* action fails to be redone), which is undefined.  The outcome modelled is that of the GNU
\* library, whose empty list has its length, 0, where the handle is read: a null handle.
ToggleUndone(i) ==
    /\ ~Grouped
    /\ i \in 1..Len(redo_action_stack_)
    /\ redo_action_stack_' = [redo_action_stack_ EXCEPT ![i].active = ~@]
    /\ UNCHANGED <<doc, undo_action_stack_, group_stack_, cancelled, counter, status, saved_doc>>

ClearUndoStack ==
    /\ ~Grouped
    /\ undo_action_stack_ # <<>>
    /\ undo_action_stack_' = <<>>
    /\ undo_status_' = FALSE
    /\ UNCHANGED <<doc, redo_action_stack_, group_stack_, cancelled, counter, redo_status_, saved_doc>>

ClearRedoStack ==
    /\ ~Grouped
    /\ redo_action_stack_ # <<>>
    /\ redo_action_stack_' = <<>>
    /\ redo_status_' = FALSE
    /\ UNCHANGED <<doc, undo_action_stack_, group_stack_, cancelled, counter, undo_status_, saved_doc>>

\* synfigapp::Instance::save_as: reset_action_count when it succeeds; the
\* file name signal redraws the titles either way.
Save(ok) ==
    /\ ~Grouped
    /\ action_count_' = IF ok THEN 0 ELSE action_count_
    /\ saved_doc' = IF ok THEN doc ELSE saved_doc
    /\ starred' = (action_count_' > 0)
    /\ UNCHANGED <<doc, stacks, group_stack_, cancelled, status>>

-----------------------------------------------------------------------------
\* New work, and what it is grouped in.
Edit ==
    \/ \E d \in Docs : PerformAction(d)
    \/ BeginGroup
    \/ \E k \in 0..MaxStack : CancelGroup(k)
    \/ EndGroup

\* Moving through the history.
Travel ==
    \/ Undo
    \/ \E d \in Docs : Redo(d)

\* Changing the history from its window.
Manage ==
    \/ \E p \in 1..MaxStack : ToggleDone(p)
    \/ \E k \in 0..MaxStack : ToggleAborted(k)
    \/ \E i \in 1..MaxStack : ToggleUndone(i)
    \/ ClearUndoStack
    \/ ClearRedoStack

Next == Edit \/ Travel \/ Manage \/ \E ok \in BOOLEAN : Save(ok)

Spec == Init /\ [][Next]_vars

-----------------------------------------------------------------------------
TypeOK ==
    /\ doc \in Docs
    /\ undo_action_stack_ \in Seq(Undoable)
    /\ redo_action_stack_ \in Seq(Undoable)
    /\ group_stack_ \in Seq(Grouper)
    /\ cancelled \in BOOLEAN
    /\ action_count_ \in -MaxCount .. MaxCount
    /\ undo_status_ \in BOOLEAN
    /\ redo_status_ \in BOOLEAN
    /\ starred \in BOOLEAN
    /\ saved_doc \in Docs

(***************************************************************************)
(* Undo always happens in the document its action was recorded for: what   *)
(* an active action left is what the next active action found, and what    *)
(* the last one left is the document.  Grouping, cancelling, redoing into  *)
(* another document and switching an action off and on below others must   *)
(* all keep it: undo() writes old values back without looking.             *)
(***************************************************************************)
UndoChain ==
    \A i \in 1..Depth :
        undo_action_stack_[i].active =>
            undo_action_stack_[i].new = DocBelow(undo_action_stack_, i + 1, doc)

(***************************************************************************)
(* depth_ of every open group is the number of entries above those it      *)
(* found, less those of the groups inside it: so ~PassiveGrouper and       *)
(* cancel() take their own actions off the undo stack and no other, and    *)
(* each of them is an active action.                                       *)
(***************************************************************************)
GroupDiscipline ==
    \A i \in 1..Len(group_stack_) :
        LET g == group_stack_[i]
            top == IF i = Len(group_stack_) THEN Depth ELSE group_stack_[i + 1].opened
        IN  /\ g.depth >= 0
            /\ g.opened + g.depth = top
            /\ \A q \in (g.opened + 1)..Depth : undo_action_stack_[q].active

\* A group that holds nothing, because nothing was done in it or because
\* cancel() undid it all, leaves the document it found.
CancelRestores ==
    Grouped /\ Front.depth = 0 => doc = Front.found

\* Undo and Redo are sensitive exactly when there is something to undo or redo:
\* the stacks are changed in nine places and each sends its own signals.
MenusAgree ==
    /\ undo_status_ = (undo_action_stack_ # <<>>)
    /\ redo_status_ = (redo_action_stack_ # <<>>)

\* The title has a '*' exactly when the counter is positive, though the titles
\* are only redrawn when the counter reaches 1, 0 or -1.
TitleFollowsCount == starred = (action_count_ > 0)

\* "If this is non-zero, then the changes have not yet been saved", and
\* safe_close and auto_backup take zero for their absence: between operations,
\* with the counter at 0 the document is the one last saved.
UnsavedFlagged == ~Grouped /\ action_count_ = 0 => doc = saved_doc

-----------------------------------------------------------------------------
(***************************************************************************)
(* The history as the user sees it (EditHistory): the documents Undo goes  *)
(* back to, and the documents Redo is known to go forward to again, which  *)
(* are those of the longest run of undone actions each of which would find *)
(* the document it was recorded for.                                       *)
(***************************************************************************)
Past == [i \in 1..Depth |-> DocBelow(undo_action_stack_, i, doc)]

DocAfter(k) ==   \* the document after the first k undone actions, as recorded
    LET A == {q \in 1..k : redo_action_stack_[q].active}
    IN  IF A = {} THEN doc
        ELSE redo_action_stack_[CHOOSE q \in A : \A r \in A : r <= q].new

Repeatable(k) ==
    \A q \in 1..k : redo_action_stack_[q].active => redo_action_stack_[q].old = DocAfter(q - 1)

Future ==
    LET K == {k \in 0..Len(redo_action_stack_) : Repeatable(k)}
    IN  [q \in 1..(CHOOSE k \in K : \A j \in K : j <= k) |-> DocAfter(q)]

History == INSTANCE EditHistory WITH
    past <- Past, present <- doc, future <- Future,
    redoable <- Len(redo_action_stack_), saved <- saved_doc

\* The two stacks of actions, with their inactive entries, their groups and
\* their records of old values, implement a history of documents: Undo returns
\* to the very documents that were left, however groups were merged or
\* cancelled since, and Redo after Undo comes back to the document left.
ImplementsHistory == History!Spec
=============================================================================
