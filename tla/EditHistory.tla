------------------------------ MODULE EditHistory -------------------------------
(***************************************************************************)
(* What the undo history of a document promises: a time line of documents. *)
(* past holds the documents Undo returns to, oldest first.  redoable is    *)
(* how many changes can be redone, and future the documents that the next  *)
(* of them are promised to return to.  The promise is void once the user   *)
(* does something else in between: the undone changes can still be redone, *)
(* with whatever result.                                                   *)
(***************************************************************************)
EXTENDS Integers, Sequences

CONSTANT Docs     \* the documents

VARIABLES past, present, future, redoable, saved

timeline == <<past, present, future, redoable>>

Init ==
    /\ past = <<>>
    /\ present \in Docs
    /\ future = <<>>
    /\ redoable = 0
    /\ saved \in Docs

\* To some document, remembering the one left; nothing is promised of Redo.
Venture ==
    /\ past' = Append(past, present)
    /\ present' \in Docs
    /\ future' \in Seq(Docs)
    /\ UNCHANGED saved

\* New work.
Do == Venture /\ UNCHANGED redoable

\* Back over k changes, each of which can then be redone.
Back(k) ==
    /\ k \in 1..Len(past)
    /\ LET kept == Len(past) - k
       IN  /\ past' = SubSeq(past, 1, kept)
           /\ present' = past[kept + 1]
           /\ future' = SubSeq(past, kept + 2, Len(past)) \o <<present>> \o future
    /\ redoable' = redoable + k
    /\ UNCHANGED saved

\* Forward to the document that was left, while there is a promise.
Forward ==
    /\ future # <<>>
    /\ past' = Append(past, present)
    /\ present' = Head(future)
    /\ future' = Tail(future)
    /\ redoable' = redoable - 1
    /\ UNCHANGED saved

\* Forward where nothing is promised: an action is redone in another document.
ForwardElsewhere ==
    /\ redoable > 0
    /\ future = <<>>
    /\ Venture
    /\ redoable' = redoable - 1

\* Several changes become one: the documents between them are forgotten.
Merge(kept) ==
    /\ kept \in 1..Len(past)
    /\ past' = SubSeq(past, 1, kept)
    /\ UNCHANGED <<present, future, redoable, saved>>

\* A change is taken out or put in again: the documents before it stay.
Rewrite(kept) ==
    /\ kept \in 0..Len(past)
    /\ past' \in Seq(Docs)
    /\ Len(past') = Len(past)
    /\ SubSeq(past', 1, kept) = SubSeq(past, 1, kept)
    /\ present' \in Docs
    /\ future' \in Seq(Docs)
    /\ UNCHANGED <<redoable, saved>>

ForgetPast == past' = <<>> /\ UNCHANGED <<present, future, redoable, saved>>

ForgetFuture == future' = <<>> /\ redoable' = 0 /\ UNCHANGED <<past, present, saved>>

Save == saved' = present /\ UNCHANGED timeline

Next ==
    \/ Do
    \/ \E k \in 1..Len(past) : Back(k)
    \/ Forward
    \/ ForwardElsewhere
    \/ \E kept \in 0..Len(past) : Merge(kept) \/ Rewrite(kept)
    \/ ForgetPast
    \/ ForgetFuture
    \/ Save

Spec == Init /\ [][Next]_<<timeline, saved>>
=============================================================================
