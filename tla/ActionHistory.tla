------------------------------ MODULE ActionHistory ------------------------------
(***************************************************************************)
(* Action::Super, which makes one action of several, and a history of      *)
(* actions done, undone and redone in the order ActionSystem allows.       *)
(*                                                                         *)
(* ActionSystem takes for granted that undo() puts back what perform()     *)
(* found, and that perform() repeats what it did where it finds the same   *)
(* again.  Here an action is a record of its parameters and of what it     *)
(* remembers between calls; performing or undoing it gives whether it went *)
(* well, the document, and what it then remembers.  The modules that say   *)
(* what single actions do give PerformOne and UndoOne.                     *)
(***************************************************************************)
EXTENDS Naturals, SequencesExt

CONSTANTS
    PerformOne(_, _),    \* a single action, performed in a document
    UndoOne(_, _),
    Supers,              \* names of those that are made of several
    Prepared(_, _),      \* with the list it makes for a document
    Settled(_, _),       \* what is left of a document, with the actions that are kept
    Visible(_),          \* what the user sees of it
    MaxActions           \* bound: actions on both stacks together

VARIABLES
    doc,
    done,       \* the undo stack, oldest first: an action, what was seen before it,
                \* and whether it was not redone in another document
    undone,     \* the redo stack, next first
    promise     \* what was seen after each of undone, while nothing else is done

-----------------------------------------------------------------------------
(* Action::Super: its list is made by prepare, and performed all or not    *)
(* at all.                                                                 *)

\* What came of the list so far, r, when s comes of its action i.
Went(r, s, i) == [ok |-> s.ok, doc |-> s.doc, act |-> [r.act EXCEPT ![i] = s.act], at |-> IF s.ok THEN i ELSE r.at]

\* As far as all go well; ok tells whether that is to the end.
PerformUpTo(list, d) ==
    LET to[i \in 0..Len(list)] ==
            IF i = 0 THEN [ok |-> TRUE, doc |-> d, act |-> list, at |-> 0]
            ELSE LET r == to[i - 1] IN IF r.ok THEN Went(r, PerformOne(list[i], r.doc), i) ELSE r
    IN  to[Len(list)]

\* Fault: in the order they were done in.
UndoUpTo(list, n, d) ==
    LET to[i \in 0..n] ==
            IF i = 0 THEN [ok |-> TRUE, doc |-> d, act |-> list, at |-> n + 1]
            ELSE LET r == to[i - 1]
                 IN  IF r.ok THEN [Went(r, UndoOne(list[i], r.doc), i) EXCEPT !.at = n + 1] ELSE r
    IN  to[n]

UndoDownFrom(list, n, d) ==
    LET from[i \in 1..(n + 1)] ==
            IF i = n + 1 THEN [ok |-> TRUE, doc |-> d, act |-> list, at |-> n + 1]
            ELSE LET r == from[i + 1] IN IF r.ok THEN Went(r, UndoOne(list[i], r.doc), i) ELSE r
    IN  from[1]

SuperResult(a, ok, r) == [ok |-> ok, doc |-> r.doc, act |-> [a EXCEPT !.list = r.act]]

\* Fault: what was done of the list stays.
SuperPerformHalf(a, d) == LET r == PerformUpTo(a.list, d) IN SuperResult(a, r.ok, r)

RolledBack(r) == IF r.ok THEN r ELSE UndoDownFrom(r.act, r.at, r.doc)
SuperPerform(a, d) == LET r == PerformUpTo(a.list, d) IN SuperResult(a, r.ok, RolledBack(r))

RedoneFrom(r) ==
    LET again == PerformUpTo(SubSeq(r.act, r.at, Len(r.act)), r.doc)
    IN  IF r.ok THEN r ELSE [again EXCEPT !.act = SubSeq(r.act, 1, r.at - 1) \o @]
SuperUndo(a, d) == LET r == UndoDownFrom(a.list, Len(a.list), d) IN SuperResult(a, r.ok, RedoneFrom(r))

PerformPrepared(p) == IF p.ok THEN SuperPerform(p.act, p.doc) ELSE p

Perform(a, d) == IF a.name \notin Supers THEN PerformOne(a, d) ELSE PerformPrepared(Prepared(a, d))

UndoAct(a, d) == IF a.name \in Supers THEN SuperUndo(a, d) ELSE UndoOne(a, d)

-----------------------------------------------------------------------------
(* The history.                                                            *)

Kept(before, after) == [i \in DOMAIN before |-> before[i].act] \o after

\* perform_action, from document d: what throws is not recorded.
Do(a, d) ==
    /\ Len(done) + Len(undone) < MaxActions
    /\ \E r \in {Perform(a, d)} :
         /\ r.ok
         /\ done' = Append(done, [act |-> r.act, before |-> Visible(doc), fresh |-> TRUE])
         /\ doc' = Settled(r.doc, Kept(done', undone))
    /\ promise' = <<>>
    /\ UNCHANGED undone

Undo ==
    /\ done # <<>>
    /\ \E r \in {UndoAct(Last(done).act, doc)} :
         /\ IF r.ok
              THEN /\ done' = Front(done)
                   /\ undone' = <<r.act>> \o undone
                   /\ promise' = <<Visible(doc)>> \o promise
              ELSE /\ done' = [done EXCEPT ![Len(done)].act = r.act]
                   /\ UNCHANGED <<undone, promise>>
         /\ doc' = Settled(r.doc, Kept(done', undone'))

Redo ==
    /\ undone # <<>>
    /\ \E r \in {Perform(Head(undone), doc)} :
         /\ IF r.ok
              THEN /\ done' = Append(done, [act |-> r.act, before |-> Visible(doc), fresh |-> promise # <<>>])
                   /\ undone' = Tail(undone)
                   /\ promise' = IF promise = <<>> THEN <<>> ELSE Tail(promise)
              ELSE /\ undone' = [undone EXCEPT ![1] = r.act]
                   /\ UNCHANGED <<done, promise>>
         /\ doc' = Settled(r.doc, Kept(done', undone'))

\* What the user has done, or redone where it was undone, can be undone.
UndoWorks == done # <<>> /\ Last(done).fresh => UndoAct(Last(done).act, doc).ok

=============================================================================
