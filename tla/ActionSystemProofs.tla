--------------------------- MODULE ActionSystemProofs ---------------------------
(***************************************************************************)
(* Theorems about ActionSystem and the history window, for every set of    *)
(* documents and every bound.                                              *)
(***************************************************************************)
EXTENDS HistoryTree, SequenceTheorems, WellFoundedInduction, TLAPS

\* The beginning and the end of a sequence.
LEMMA PartFacts ==
    ASSUME NEW S, NEW s \in Seq(S), NEW n \in 0..Len(s)
    PROVE  /\ SubSeq(s, 1, n) \in Seq(S)
           /\ Len(SubSeq(s, 1, n)) = n
           /\ \A i \in 1..n : SubSeq(s, 1, n)[i] = s[i]
           /\ SubSeq(s, n + 1, Len(s)) \in Seq(S)
           /\ Len(SubSeq(s, n + 1, Len(s))) = Len(s) - n
           /\ \A i \in 1..(Len(s) - n) : SubSeq(s, n + 1, Len(s))[i] = s[n + i]
<1>1. Len(s) \in Nat /\ n \in Nat /\ \A i \in 1..Len(s) : s[i] \in S
    BY ElementOfSeq
<1>2. /\ SubSeq(s, 1, n) \in Seq(S)
      /\ Len(SubSeq(s, 1, n)) = IF 1 <= n THEN n - 1 + 1 ELSE 0
      /\ \A i \in 1..(n - 1 + 1) : SubSeq(s, 1, n)[i] = s[1 + i - 1]
    <2>1. \A i \in 1..n : s[i] \in S
        BY <1>1
    <2>2. QED
        BY <1>1, <2>1, SubSeqProperties
<1> DEFINE l == Len(s)
<1>3. /\ SubSeq(s, n + 1, l) \in Seq(S)
      /\ Len(SubSeq(s, n + 1, l)) = IF n + 1 <= l THEN l - (n + 1) + 1 ELSE 0
      /\ \A i \in 1..(l - (n + 1) + 1) : SubSeq(s, n + 1, l)[i] = s[n + 1 + i - 1]
    <2>1. n + 1 \in Int /\ l \in Int /\ \A i \in (n + 1)..l : s[i] \in S
        BY <1>1
    <2> HIDE DEF l
    <2>2. QED
        BY <2>1, SubSeqProperties
<1>4. /\ n - 1 + 1 = n /\ \A i \in 1..n : 1 + i - 1 = i
      /\ l - (n + 1) + 1 = l - n /\ \A i \in 1..(l - n) : n + 1 + i - 1 = n + i
    BY <1>1
<1>40. l \in Nat /\ l = Len(s)
    BY <1>1
<1> HIDE DEF l
<1>5. /\ SubSeq(s, 1, n) \in Seq(S) /\ Len(SubSeq(s, 1, n)) = n
      /\ \A i \in 1..n : SubSeq(s, 1, n)[i] = s[i]
    BY <1>1, <1>2, <1>4
<1>6. /\ SubSeq(s, n + 1, l) \in Seq(S) /\ Len(SubSeq(s, n + 1, l)) = l - n
      /\ \A i \in 1..(l - n) : SubSeq(s, n + 1, l)[i] = s[n + i]
    <2>1. n \in 0..l
        BY <1>40
    <2>2. Len(SubSeq(s, n + 1, l)) = l - n
        <3> DEFINE m == Len(SubSeq(s, n + 1, l))
        <3>1. m = IF n + 1 <= l THEN l - (n + 1) + 1 ELSE 0
            BY <1>3
        <3> HIDE DEF m
        <3>2. n \in Nat /\ l \in Nat /\ n <= l
            BY <1>1, <1>40, <2>1
        <3>3. m = l - n
            BY ONLY <3>1, <3>2
        <3>4. QED
            BY <3>3 DEF m
    <2>3. \A i \in 1..(l - n) : SubSeq(s, n + 1, l)[i] = s[n + i]
        BY <1>3, <1>4
    <2>4. QED
        BY <1>3, <2>2, <2>3
<1>7. QED
    BY <1>5, <1>6, <1>40

-----------------------------------------------------------------------------
(* Facts about the lowest active action and the document below a position. *)

\* A nonempty set of naturals has a least element, and Lowest names it.
LEMMA LowestExists ==
    ASSUME NEW S \in SUBSET Nat, S # {}
    PROVE  /\ Lowest(S) \in S
           /\ \A r \in S : Lowest(S) <= r
<1>1. PICK x \in S : \A y \in S : ~ (<<y, x>> \in OpToRel(<, Nat))
    BY NatLessThanWellFounded, WFMin
<1>2. \A y \in S : ~ (y < x)
    BY <1>1, Zenon DEF OpToRel
<1>3. \A y \in S : x <= y
    BY <1>2
<1>4. QED
    BY <1>3 DEF Lowest

\* A member of S below all others is the one Lowest names.
LEMMA LowestIs ==
    ASSUME NEW S \in SUBSET Nat, NEW x \in S, \A r \in S : x <= r
    PROVE  Lowest(S) = x
<1>1. /\ Lowest(S) \in S
      /\ \A r \in S : Lowest(S) <= r
    BY LowestExists
<1>2. Lowest(S) \in Nat /\ x \in Nat
    BY <1>1
<1>3. Lowest(S) <= x /\ x <= Lowest(S)
    BY <1>1
<1>4. QED
    BY <1>2, <1>3

\* A nonempty set of naturals with an upper bound has a greatest element.
LEMMA HighestExists ==
    ASSUME NEW S \in SUBSET Nat, S # {}, NEW b \in Nat, \A r \in S : r <= b
    PROVE  \E x \in S : \A r \in S : r <= x
<1> DEFINE T == {b - r : r \in S}
<1>1. T \in SUBSET Nat /\ T # {}
    <2>1. \A r \in S : b - r \in Nat
        OBVIOUS
    <2>2. QED
        BY <2>1
<1>2. Lowest(T) \in T /\ \A t \in T : Lowest(T) <= t
    BY <1>1, LowestExists
<1>3. PICK x \in S : Lowest(T) = b - x
    BY <1>2
<1>4. \A r \in S : b - x <= b - r
    BY <1>2, <1>3
<1>5. QED
    BY <1>4

\* The document below a position is a document.
LEMMA DocBelowType ==
    ASSUME NEW s \in Seq(Undoable), NEW i \in Nat \ {0}, NEW d \in Docs
    PROVE  DocBelow(s, i, d) \in Docs
<1>1. CASE ActiveFrom(s, i) = {}
    BY <1>1 DEF DocBelow
<1>2. CASE ActiveFrom(s, i) # {}
    <2>1. Lowest(ActiveFrom(s, i)) \in i..Len(s)
        <3>1. ActiveFrom(s, i) \in SUBSET Nat /\ ActiveFrom(s, i) \subseteq i..Len(s)
            BY DEF ActiveFrom
        <3>2. QED
            BY <1>2, <3>1, LowestExists
    <2>2. s[Lowest(ActiveFrom(s, i))] \in Undoable
        BY <2>1, ElementOfSeq
    <2>3. QED
        BY <1>2, <2>2 DEF DocBelow, Undoable
<1>3. QED
    BY <1>1, <1>2

\* DocBelow, read downwards from the top of the stack.
LEMMA DocBelowTop ==
    ASSUME NEW s, Len(s) \in Nat, NEW d
    PROVE  DocBelow(s, Len(s) + 1, d) = d
BY DEF DocBelow, ActiveFrom

\* One position further down: an active action shows the document it found,
\* an inactive one what is above it.
LEMMA DocBelowStep ==
    ASSUME NEW s \in Seq(Undoable), NEW i \in 1..Len(s), NEW d
    PROVE  DocBelow(s, i, d) = IF s[i].active THEN s[i].old ELSE DocBelow(s, i + 1, d)
<1>1. CASE s[i].active
    <2>1. i \in ActiveFrom(s, i) /\ ActiveFrom(s, i) \in SUBSET Nat
        BY <1>1 DEF ActiveFrom
    <2>2. Lowest(ActiveFrom(s, i)) = i
        BY <2>1, LowestIs DEF ActiveFrom
    <2>3. QED
        BY <1>1, <2>1, <2>2 DEF DocBelow
<1>2. CASE ~s[i].active
    <2>1. ActiveFrom(s, i) = ActiveFrom(s, i + 1)
        BY <1>2 DEF ActiveFrom
    <2>2. QED
        BY <1>2, <2>1 DEF DocBelow
<1>3. QED
    BY <1>1, <1>2

\* Cutting the top off a stack, with the document below the cut as the document,
\* changes nothing below the cut.
LEMMA DocBelowCut ==
    ASSUME NEW s \in Seq(Undoable), NEW n \in 0..Len(s), NEW i \in 1..(n + 1),
           NEW t \in Seq(Undoable), Len(t) = n, \A q \in 1..n : t[q] = s[q],
           NEW d
    PROVE  DocBelow(t, i, DocBelow(s, n + 1, d)) = DocBelow(s, i, d)
<1> DEFINE LT == ActiveFrom(t, i)
           LS == ActiveFrom(s, i)
           HS == ActiveFrom(s, n + 1)
<1>1. LS = LT \cup HS /\ LS \in SUBSET Nat
    BY DEF ActiveFrom
<1>2. CASE LT = {}
    BY <1>1, <1>2 DEF DocBelow
<1>3. CASE LT # {}
    <2>1. Lowest(LT) \in LT /\ \A r \in LT : Lowest(LT) <= r
        BY <1>1, <1>3, LowestExists
    <2>2. Lowest(LT) \in 1..n
        BY <2>1 DEF ActiveFrom
    <2>3. \A r \in HS : Lowest(LT) <= r
        BY <2>2 DEF ActiveFrom
    <2>4. Lowest(LS) = Lowest(LT)
        BY <1>1, <2>1, <2>3, LowestIs
    <2>5. QED
        BY <1>1, <1>3, <2>2, <2>4 DEF DocBelow
<1>4. QED
    BY <1>2, <1>3

\* An action on top hides the document if it is active and shows it if not.
LEMMA DocBelowAppend ==
    ASSUME NEW s \in Seq(Undoable), NEW e \in Undoable, NEW i \in 1..(Len(s) + 1), NEW d
    PROVE  DocBelow(Append(s, e), i, d) = DocBelow(s, i, IF e.active THEN e.old ELSE d)
<1> DEFINE t == Append(s, e)
<1>1. t \in Seq(Undoable) /\ Len(t) = Len(s) + 1 /\ t[Len(s) + 1] = e
      /\ \A q \in 1..Len(s) : s[q] = t[q]
    BY AppendProperties
<1> HIDE DEF t
<1>2. DocBelow(t, Len(t) + 1, d) = d
    BY <1>1, DocBelowTop
<1>3. DocBelow(t, Len(s) + 1, d) = IF e.active THEN e.old ELSE d
    <2>1. Len(s) + 1 \in 1..Len(t)
        BY <1>1
    <2>2. QED
        BY <1>1, <1>2, <2>1, DocBelowStep
<1>4. DocBelow(s, i, DocBelow(t, Len(s) + 1, d)) = DocBelow(t, i, d)
    <2>1. Len(s) \in 0..Len(t)
        BY <1>1
    <2>2. QED
        BY <1>1, <2>1, DocBelowCut
<1>5. QED
    BY <1>3, <1>4 DEF t

-----------------------------------------------------------------------------
(* What the parts that several actions share do to the typed state.         *)

\* inc_action_count and dec_action_count keep the types of counter and mark.
LEMMA CountToType ==
    ASSUME starred \in BOOLEAN, NEW n, CountTo(n)
    PROVE  action_count_' \in -MaxCount .. MaxCount /\ starred' \in BOOLEAN
BY DEF CountTo, Told

\* undo_ keeps the types, and moves the top k actions to the redo stack.
LEMMA MoveToRedoType ==
    ASSUME TypeOK, NEW k \in 0..Depth, MoveToRedo(k)
    PROVE  /\ doc' \in Docs
           /\ undo_action_stack_' \in Seq(Undoable)
           /\ redo_action_stack_' \in Seq(Undoable)
           /\ Depth' = Depth - k
           /\ \A q \in 1..Depth' : undo_action_stack_'[q] = undo_action_stack_[q]
           /\ Len(redo_action_stack_') = Len(redo_action_stack_) + k
           /\ undo_status_' \in BOOLEAN /\ redo_status_' \in BOOLEAN
           /\ action_count_' \in -MaxCount .. MaxCount /\ starred' \in BOOLEAN
<1> DEFINE s == undo_action_stack_
           kept == Len(s) - k
           cut == SubSeq(s, 1, kept)
           top == SubSeq(s, kept + 1, Len(s))
<1>1. s \in Seq(Undoable) /\ Len(s) \in Nat /\ kept \in 0..Len(s) /\ k \in 0..Len(s)
    BY DEF TypeOK, Depth
<1>2. \A q \in 1..Len(s) : s[q] \in Undoable
    BY <1>1, ElementOfSeq
<1>3. cut \in Seq(Undoable) /\ Len(cut) = kept /\ \A q \in 1..kept : cut[q] = s[q]
    <2> HIDE DEF s
    <2>1. \A q \in 1..kept : s[q] \in Undoable
        BY <1>1, <1>2
    <2>2. /\ SubSeq(s, 1, kept) \in Seq(Undoable)
          /\ Len(SubSeq(s, 1, kept)) = IF 1 <= kept THEN kept - 1 + 1 ELSE 0
          /\ \A q \in 1 .. kept - 1 + 1 : SubSeq(s, 1, kept)[q] = s[1 + q - 1]
        BY <1>1, <2>1, SubSeqProperties
    <2>3. QED
        BY <1>1, <2>2
<1>4. top \in Seq(Undoable) /\ Len(top) = k
    <2> HIDE DEF s
    <2>1. \A q \in (kept + 1)..Len(s) : s[q] \in Undoable
        BY <1>1, <1>2
    <2>2. /\ SubSeq(s, kept + 1, Len(s)) \in Seq(Undoable)
          /\ Len(SubSeq(s, kept + 1, Len(s))) =
                IF kept + 1 <= Len(s) THEN Len(s) - (kept + 1) + 1 ELSE 0
        BY <1>1, <2>1, SubSeqProperties
    <2>3. QED
        BY <1>1, <2>2
<1>5. /\ top \o redo_action_stack_ \in Seq(Undoable)
      /\ Len(top \o redo_action_stack_) = k + Len(redo_action_stack_)
    BY <1>4, ConcatProperties DEF TypeOK
<1>6. DocBelow(s, kept + 1, doc) \in Docs
    BY <1>1, DocBelowType DEF TypeOK
<1>7. CountTo(action_count_ - k) /\ starred \in BOOLEAN
    BY DEF MoveToRedo, TypeOK
<1>8. action_count_' \in -MaxCount .. MaxCount /\ starred' \in BOOLEAN
    BY <1>7, CountToType
<1>9. undo_status_' \in BOOLEAN /\ redo_status_' \in BOOLEAN
    BY DEF MoveToRedo
<1>10. /\ doc' = DocBelow(s, kept + 1, doc)
       /\ undo_action_stack_' = cut
       /\ redo_action_stack_' = top \o redo_action_stack_
    BY DEF MoveToRedo, Depth
<1>11. Len(redo_action_stack_) \in Nat
    BY DEF TypeOK
<1> HIDE DEF s, kept, cut, top
<1>12. /\ Depth = Len(s) /\ Depth' = Len(undo_action_stack_') /\ kept = Len(s) - k
       /\ s = undo_action_stack_
    BY DEF Depth, s, kept
<1>13. QED
    BY <1>1, <1>3, <1>5, <1>6, <1>8, <1>9, <1>10, <1>11, <1>12

\* An action put on the undo stack is counted in the group around it, or in the
\* counter of unsaved changes when there is none.
LEMMA AddedType ==
    ASSUME TypeOK, NEW outer \in Seq(Grouper), Added(outer)
    PROVE  /\ group_stack_' \in Seq(Grouper)
           /\ Len(group_stack_') = Len(outer)
           /\ \A i \in 1..Len(outer) :
                group_stack_'[i] = IF i = Len(outer)
                                   THEN [outer[i] EXCEPT !.depth = @ + 1] ELSE outer[i]
           /\ action_count_' \in -MaxCount .. MaxCount
           /\ starred' \in BOOLEAN
<1>1. CASE outer = <<>>
    <2>1. CountTo(action_count_ + 1) /\ group_stack_' = outer
        BY <1>1 DEF Added
    <2>2. action_count_' \in -MaxCount .. MaxCount /\ starred' \in BOOLEAN
        BY <2>1, CountToType DEF TypeOK
    <2>3. QED
        BY <1>1, <2>1, <2>2
<1>2. CASE outer # <<>>
    <2>1. group_stack_' = [outer EXCEPT ![Len(outer)].depth = @ + 1] /\ UNCHANGED counter
        BY <1>2 DEF Added
    <2>2. Len(outer) \in 1..Len(outer) /\ Len(outer) \in Nat
        BY <1>2
    <2>3. outer[Len(outer)] \in Grouper
        BY <2>2, ElementOfSeq
    <2>4. [outer[Len(outer)] EXCEPT !.depth = @ + 1] \in Grouper
        BY <2>3 DEF Grouper
    <2>5. group_stack_' = [outer EXCEPT ![Len(outer)] = [outer[Len(outer)] EXCEPT !.depth = @ + 1]]
        BY <2>1
    <2>6. /\ group_stack_' \in Seq(Grouper)
          /\ Len(group_stack_') = Len(outer)
          /\ \A i \in 1..Len(outer) :
               group_stack_'[i] = IF i = Len(outer)
                                  THEN [outer[Len(outer)] EXCEPT !.depth = @ + 1] ELSE outer[i]
        BY <2>2, <2>4, <2>5, ExceptSeq
    <2>7. QED
        BY <2>1, <2>6 DEF counter, TypeOK
<1>3. QED
    BY <1>1, <1>2

-----------------------------------------------------------------------------
(***************************************************************************)
(* The state is typed and the open groups partition the top of the undo    *)
(* stack.  The two are proved together: ~PassiveGrouper takes depth_       *)
(* entries off the stack without looking whether they are there.           *)
(***************************************************************************)
Structure == TypeOK /\ GroupDiscipline

\* The facts about the innermost group that ending and cancelling it rest on.
LEMMA FrontFacts ==
    ASSUME Structure, Grouped
    PROVE  /\ Len(group_stack_) \in Nat \ {0}
           /\ Depth \in Nat
           /\ Front \in Grouper
           /\ Front.opened + Front.depth = Depth
           /\ \A q \in (Front.opened + 1)..Depth : undo_action_stack_[q].active
<1>1. Len(group_stack_) \in Nat /\ Len(group_stack_) # 0 /\ Depth \in Nat
    BY DEF Structure, TypeOK, Grouped, Depth
<1>2. Len(group_stack_) \in 1..Len(group_stack_)
    BY <1>1
<1>3. Front \in Grouper
    BY <1>2, ElementOfSeq DEF Structure, TypeOK, Front
<1>4. QED
    BY <1>1, <1>2, <1>3 DEF Structure, GroupDiscipline, Front

\* Where no group is open there is nothing to partition.
LEMMA UngroupedDiscipline ==
    ASSUME TypeOK, ~Grouped, UNCHANGED group_stack_
    PROVE  GroupDiscipline'
<1>1. Len(group_stack_') = 0
    BY DEF Grouped
<1>2. QED
    BY <1>1 DEF GroupDiscipline

\* perform_action keeps the groups the owners of the top of the undo stack.
LEMMA StructurePerform ==
    ASSUME Structure, NEW d \in Docs, PerformAction(d)
    PROVE  Structure'
<1> USE DEF Structure
<1>1. doc \in Docs /\ undo_action_stack_ \in Seq(Undoable) /\ group_stack_ \in Seq(Grouper)
    BY DEF TypeOK
<1>2. Done(doc, d) \in Undoable /\ Done(doc, d).active
    BY <1>1 DEF Done, Undoable
<1>3. undo_action_stack_' = Append(undo_action_stack_, Done(doc, d)) /\ Added(group_stack_)
    BY DEF PerformAction
<1>4. /\ undo_action_stack_' \in Seq(Undoable)
      /\ Depth' = Depth + 1
      /\ \A q \in 1..Depth : undo_action_stack_'[q] = undo_action_stack_[q]
      /\ undo_action_stack_'[Depth + 1] = Done(doc, d)
    BY <1>1, <1>2, <1>3, AppendProperties DEF Depth
<1>5. /\ group_stack_' \in Seq(Grouper)
      /\ Len(group_stack_') = Len(group_stack_)
      /\ \A i \in 1..Len(group_stack_) :
           group_stack_'[i] = IF i = Len(group_stack_)
                              THEN [group_stack_[i] EXCEPT !.depth = @ + 1] ELSE group_stack_[i]
      /\ action_count_' \in -MaxCount .. MaxCount
      /\ starred' \in BOOLEAN
    BY <1>1, <1>3, AddedType
<1>6. TypeOK'
    BY <1>4, <1>5 DEF PerformAction, TypeOK
<1>7. GroupDiscipline'
    <2> SUFFICES ASSUME NEW i \in 1..Len(group_stack_)
                 PROVE  LET g == group_stack_'[i]
                            top == IF i = Len(group_stack_) THEN Depth' ELSE group_stack_'[i + 1].opened
                        IN  /\ g.depth >= 0
                            /\ g.opened + g.depth = top
                            /\ \A q \in (g.opened + 1)..Depth' : undo_action_stack_'[q].active
        BY <1>5 DEF GroupDiscipline
    <2>1. group_stack_[i] \in Grouper /\ Depth \in Nat /\ Len(group_stack_) \in Nat
        BY <1>1, ElementOfSeq DEF Depth
    <2>2. /\ group_stack_[i].opened + group_stack_[i].depth =
               IF i = Len(group_stack_) THEN Depth ELSE group_stack_[i + 1].opened
          /\ \A q \in (group_stack_[i].opened + 1)..Depth : undo_action_stack_[q].active
        BY DEF GroupDiscipline
    <2>3. group_stack_'[i].opened = group_stack_[i].opened
        BY <1>5, <2>1 DEF Grouper
    <2>4. \A q \in (group_stack_[i].opened + 1)..(Depth + 1) : undo_action_stack_'[q].active
        BY <1>2, <1>4, <2>1, <2>2, SMTT(40) DEF Grouper
    <2> DEFINE g == group_stack_'[i]
    <2>5. \A q \in (g.opened + 1)..Depth' : undo_action_stack_'[q].active
        BY <1>4, <2>3, <2>4
    <2>6. CASE i = Len(group_stack_)
        <3>1. g.depth = group_stack_[i].depth + 1
            BY <1>5, <2>1, <2>6 DEF Grouper
        <3>2. g.depth >= 0 /\ g.opened + g.depth = Depth'
            BY <1>4, <2>1, <2>2, <2>3, <2>6, <3>1 DEF Grouper
        <3>3. QED
            BY <2>5, <2>6, <3>2
    <2>7. CASE i # Len(group_stack_)
        <3>1. i + 1 \in 1..Len(group_stack_)
            BY <2>1, <2>7
        <3>2. group_stack_[i + 1] \in Grouper
            BY <1>1, <3>1, ElementOfSeq
        <3>3. group_stack_'[i + 1].opened = group_stack_[i + 1].opened
            BY <1>5, <3>1, <3>2 DEF Grouper
        <3>4. g = group_stack_[i]
            BY <1>5, <2>7
        <3>5. g.depth >= 0 /\ g.opened + g.depth = group_stack_'[i + 1].opened
            BY <2>1, <2>2, <2>7, <3>3, <3>4 DEF Grouper
        <3>6. QED
            BY <2>5, <2>7, <3>5
    <2>8. QED
        BY <2>6, <2>7
<1>8. QED
    BY <1>6, <1>7

\* So does the constructor of PassiveGrouper: the new group owns nothing.
LEMMA StructureBegin ==
    ASSUME Structure, BeginGroup
    PROVE  Structure'
<1> USE DEF Structure
<1> DEFINE new == [depth |-> 0, opened |-> Depth, found |-> doc]
<1>1. new \in Grouper /\ Depth \in Nat /\ group_stack_ \in Seq(Grouper) /\ Len(group_stack_) \in Nat
    BY DEF TypeOK, Grouper, Depth
<1>2. group_stack_' = Append(group_stack_, new)
    BY DEF BeginGroup
<1>3. /\ group_stack_' \in Seq(Grouper)
      /\ Len(group_stack_') = Len(group_stack_) + 1
      /\ \A i \in 1..Len(group_stack_) : group_stack_'[i] = group_stack_[i]
      /\ group_stack_'[Len(group_stack_) + 1] = new
    BY <1>1, <1>2, AppendProperties
<1>4. Depth' = Depth /\ undo_action_stack_' = undo_action_stack_
    BY DEF BeginGroup, stacks, Depth
<1>5. TypeOK'
    BY <1>3 DEF BeginGroup, TypeOK, stacks, counter, status
<1>6. GroupDiscipline'
    <2> SUFFICES ASSUME NEW i \in 1..(Len(group_stack_) + 1)
                 PROVE  LET g == group_stack_'[i]
                            top == IF i = Len(group_stack_) + 1 THEN Depth
                                   ELSE group_stack_'[i + 1].opened
                        IN  /\ g.depth >= 0
                            /\ g.opened + g.depth = top
                            /\ \A q \in (g.opened + 1)..Depth : undo_action_stack_[q].active
        BY <1>3, <1>4 DEF GroupDiscipline
    <2>1. CASE i = Len(group_stack_) + 1
        BY <1>1, <1>3, <2>1
    <2>2. CASE i = Len(group_stack_)
        <3>1. i \in 1..Len(group_stack_) /\ group_stack_'[i + 1].opened = Depth
            BY <1>1, <1>3, <2>2
        <3>2. QED
            BY <1>1, <1>3, <2>2, <3>1 DEF GroupDiscipline
    <2>3. CASE i < Len(group_stack_)
        <3>1. i \in 1..Len(group_stack_) /\ i + 1 \in 1..Len(group_stack_)
            BY <1>1, <2>3
        <3>2. QED
            BY <1>1, <1>3, <2>3, <3>1, SMTT(40) DEF GroupDiscipline
    <2>4. QED
        BY <1>1, <2>1, <2>2, <2>3
<1>7. QED
    BY <1>5, <1>6

\* So does cancel(): the outermost group loses the k actions it has undone.
LEMMA StructureCancel ==
    ASSUME Structure, NEW k, CancelGroup(k)
    PROVE  Structure'
<1> USE DEF Structure
<1>1. Len(group_stack_) = 1 /\ k \in 0..Front.depth /\ MoveToRedo(k)
    BY DEF CancelGroup
<1>2. Grouped /\ group_stack_ \in Seq(Grouper)
    <2>1. Len(group_stack_) # Len(<<>>)
        BY <1>1
    <2>2. group_stack_ # <<>>
        BY <2>1, Zenon
    <2>3. QED
        BY <2>2 DEF Grouped, TypeOK
<1>3. /\ Front \in Grouper /\ Front = group_stack_[1] /\ Depth \in Nat
      /\ Front.opened + Front.depth = Depth
      /\ \A q \in (Front.opened + 1)..Depth : undo_action_stack_[q].active
    BY <1>1, <1>2, FrontFacts DEF Front
<1>4. k \in 0..Depth
    BY <1>1, <1>3 DEF Grouper
<1>5. /\ doc' \in Docs
      /\ undo_action_stack_' \in Seq(Undoable)
      /\ redo_action_stack_' \in Seq(Undoable)
      /\ Depth' = Depth - k
      /\ \A q \in 1..Depth' : undo_action_stack_'[q] = undo_action_stack_[q]
      /\ undo_status_' \in BOOLEAN /\ redo_status_' \in BOOLEAN
      /\ action_count_' \in -MaxCount .. MaxCount /\ starred' \in BOOLEAN
    BY <1>1, <1>4, MoveToRedoType
<1> DEFINE new == [Front EXCEPT !.depth = @ - k]
<1>6. new \in Grouper /\ new.opened = Front.opened /\ new.depth = Front.depth - k
    BY <1>1, <1>3 DEF Grouper
<1>7. group_stack_' = [group_stack_ EXCEPT ![1] = new]
    BY <1>3 DEF CancelGroup
<1>8. group_stack_' \in Seq(Grouper) /\ Len(group_stack_') = 1 /\ group_stack_'[1] = new
    <2>1. 1 \in 1..Len(group_stack_)
        BY <1>1
    <2> HIDE DEF new
    <2>2. QED
        BY <1>1, <1>2, <1>6, <1>7, <2>1, ExceptSeq
<1>9. TypeOK'
    BY <1>5, <1>8 DEF CancelGroup, TypeOK
<1>10. GroupDiscipline'
    <2>1. new.depth >= 0 /\ new.opened + new.depth = Depth'
        BY <1>1, <1>3, <1>5, <1>6 DEF Grouper
    <2> HIDE DEF new
    <2>2. ASSUME NEW q \in (new.opened + 1)..Depth'
          PROVE  undo_action_stack_'[q].active
        <3>1. q \in (Front.opened + 1)..Depth /\ q \in 1..Depth'
            BY <1>3, <1>4, <1>5, <1>6, SMTT(40) DEF Grouper
        <3>2. QED
            BY <1>3, <1>5, <3>1
    <2>3. QED
        BY <1>8, <2>1, <2>2 DEF GroupDiscipline
<1>11. QED
    BY <1>9, <1>10

\* The entries a group leaves on the undo stack: none of its own, its only one,
\* or one Group in place of them all.
LEMMA EndedStack ==
    ASSUME Structure, Grouped, EndGroup
    PROVE  LET n == Depth - Front.depth + (IF Front.depth > 0 THEN 1 ELSE 0)
           IN  /\ undo_action_stack_' \in Seq(Undoable)
               /\ Depth' = n
               /\ n \in Nat /\ n <= Depth
               /\ \A q \in 1..n : undo_action_stack_'[q].active = undo_action_stack_[q].active
<1> USE DEF Structure
<1> DEFINE s == undo_action_stack_
           i == Len(s) - Front.depth
<1>1. /\ s \in Seq(Undoable) /\ Len(s) \in Nat
      /\ Front \in Grouper /\ Front.opened + Front.depth = Len(s)
      /\ \A q \in (Front.opened + 1)..Len(s) : s[q].active
    BY FrontFacts DEF TypeOK, Depth
<1>2. Front.depth \in Nat /\ Front.opened \in Nat /\ i = Front.opened /\ i \in 0..Len(s)
    BY <1>1 DEF Grouper
<1>3. CASE Front.depth > 1
    <2>1. undo_action_stack_' = Merged(s, i)
        BY <1>3 DEF EndGroup, Depth
    <2>2. i + 1 \in 1..Len(s) /\ Len(s) \in 1..Len(s)
        BY <1>1, <1>2, <1>3
    <2>3. s[i + 1] \in Undoable /\ s[Len(s)] \in Undoable
        BY <1>1, <2>2, ElementOfSeq
    <2>4. Done(s[i + 1].old, s[Len(s)].new) \in Undoable
        BY <2>3 DEF Done, Undoable
    <2> DEFINE cut == SubSeq(s, 1, i)
    <2>5. cut \in Seq(Undoable) /\ Len(cut) = i /\ \A q \in 1..i : cut[q] = s[q]
        <3> HIDE DEF s, i
        <3>1. \A q \in 1..i : s[q] \in Undoable
            BY <1>1, <1>2, ElementOfSeq
        <3>2. /\ SubSeq(s, 1, i) \in Seq(Undoable)
              /\ Len(SubSeq(s, 1, i)) = IF 1 <= i THEN i - 1 + 1 ELSE 0
              /\ \A q \in 1 .. i - 1 + 1 : SubSeq(s, 1, i)[q] = s[1 + q - 1]
            BY <1>1, <1>2, <3>1, SubSeqProperties
        <3>3. QED
            BY <1>2, <3>2
    <2> DEFINE e == Done(s[i + 1].old, s[Len(s)].new)
    <2>6. undo_action_stack_' = Append(cut, e) /\ e.active
        BY <2>1 DEF Merged, Done
    <2>7. /\ Append(cut, e) \in Seq(Undoable)
          /\ Len(Append(cut, e)) = i + 1
          /\ \A q \in 1..i : Append(cut, e)[q] = s[q]
          /\ Append(cut, e)[i + 1] = e
        <3> HIDE DEF cut, e
        <3>1. e \in Undoable
            BY <2>4 DEF e
        <3>2. QED
            BY <2>5, <3>1, AppendProperties
    <2>8. s[i + 1].active = TRUE
        <3>1. i + 1 \in (Front.opened + 1)..Len(s)
            BY <1>1, <1>2, <2>2
        <3>2. s[i + 1].active
            BY <1>1, <3>1
        <3>3. QED
            BY <2>3, <3>2 DEF Undoable
    <2>9. e.active = TRUE
        BY DEF Done
    <2> HIDE DEF s, i, e, cut
    <2>10. ASSUME NEW q \in 1..(i + 1)
           PROVE  undo_action_stack_'[q].active = s[q].active
        <3>1. CASE q = i + 1
            BY <2>6, <2>7, <2>8, <2>9, <3>1
        <3>2. CASE q # i + 1
            <4>1. q \in 1..i
                BY <1>2, <3>2
            <4>2. QED
                BY <2>6, <2>7, <4>1
        <3>3. QED
            BY <3>1, <3>2
    <2>11. /\ Depth = Len(s) /\ Depth' = Len(undo_action_stack_')
           /\ s = undo_action_stack_ /\ i = Len(s) - Front.depth
        BY DEF s, i, Depth
    <2>12. QED
        BY <1>1, <1>2, <1>3, <2>6, <2>7, <2>10, <2>11, SMTT(40)
<1>4. CASE ~(Front.depth > 1)
    <2>1. undo_action_stack_' = s
        BY <1>4 DEF EndGroup
    <2>2. Front.depth \in {0, 1}
        BY <1>2, <1>4
    <2>3. QED
        BY <1>1, <1>2, <2>1, <2>2 DEF Depth
<1>5. QED
    BY <1>3, <1>4

\* So does ~PassiveGrouper: the merged entry belongs to the next group out.
LEMMA StructureEnd ==
    ASSUME Structure, EndGroup
    PROVE  Structure'
<1> USE DEF Structure
<1> DEFINE n == Len(group_stack_) - 1
           outer == SubSeq(group_stack_, 1, n)
           m == Depth - Front.depth + (IF Front.depth > 0 THEN 1 ELSE 0)
<1>1. Grouped
    BY DEF EndGroup
<1>2. /\ group_stack_ \in Seq(Grouper) /\ n \in Nat /\ Depth \in Nat
      /\ Front \in Grouper /\ Front = group_stack_[n + 1] /\ Len(group_stack_) = n + 1
      /\ Front.opened + Front.depth = Depth
    BY <1>1, FrontFacts DEF TypeOK, Front
<1>3. /\ undo_action_stack_' \in Seq(Undoable)
      /\ Depth' = m
      /\ m \in Nat /\ m <= Depth
      /\ \A q \in 1..m : undo_action_stack_'[q].active = undo_action_stack_[q].active
    BY <1>1, EndedStack
<1>4. outer \in Seq(Grouper) /\ Len(outer) = n /\ \A i \in 1..n : outer[i] = group_stack_[i]
    <2> HIDE DEF n
    <2>1. \A i \in 1..n : group_stack_[i] \in Grouper
        BY <1>2, ElementOfSeq
    <2>2. /\ SubSeq(group_stack_, 1, n) \in Seq(Grouper)
          /\ Len(SubSeq(group_stack_, 1, n)) = IF 1 <= n THEN n - 1 + 1 ELSE 0
          /\ \A i \in 1 .. n - 1 + 1 : SubSeq(group_stack_, 1, n)[i] = group_stack_[1 + i - 1]
        BY <1>2, <2>1, SubSeqProperties
    <2>3. QED
        BY <1>2, <2>2
<1>5. IF Front.depth > 0 THEN Added(outer) ELSE group_stack_' = outer /\ UNCHANGED counter
    BY DEF EndGroup
<1> DEFINE plus == IF Front.depth > 0 THEN 1 ELSE 0
<1>6. /\ group_stack_' \in Seq(Grouper)
      /\ Len(group_stack_') = n
      /\ \A i \in 1..n : /\ group_stack_'[i].opened = group_stack_[i].opened
                         /\ group_stack_'[i].depth =
                              group_stack_[i].depth + (IF i = n THEN plus ELSE 0)
      /\ action_count_' \in -MaxCount .. MaxCount
      /\ starred' \in BOOLEAN
    <2> HIDE DEF outer, n
    <2>1. \A i \in 1..n : group_stack_[i] \in Grouper
        BY <1>2, ElementOfSeq
    <2>2. CASE Front.depth > 0
        <3>1. /\ group_stack_' \in Seq(Grouper)
              /\ Len(group_stack_') = n
              /\ \A i \in 1..n : group_stack_'[i] = IF i = n
                                   THEN [outer[i] EXCEPT !.depth = @ + 1] ELSE outer[i]
              /\ action_count_' \in -MaxCount .. MaxCount
              /\ starred' \in BOOLEAN
            BY <1>4, <1>5, <2>2, AddedType
        <3>2. ASSUME NEW i \in 1..n
              PROVE  /\ group_stack_'[i].opened = group_stack_[i].opened
                     /\ group_stack_'[i].depth =
                          group_stack_[i].depth + (IF i = n THEN plus ELSE 0)
            <4>1. outer[i] = group_stack_[i] /\ group_stack_[i] \in Grouper
                BY <1>4, <2>1
            <4>2. CASE i = n
                BY <2>2, <3>1, <4>1, <4>2 DEF Grouper
            <4>3. CASE i # n
                BY <3>1, <4>1, <4>3 DEF Grouper
            <4>4. QED
                BY <4>2, <4>3
        <3>3. QED
            BY <3>1, <3>2
    <2>3. CASE ~(Front.depth > 0)
        <3>1. group_stack_' = outer /\ UNCHANGED counter
            BY <1>5, <2>3
        <3>2. \A i \in 1..n : group_stack_[i].depth \in Nat
            BY <2>1 DEF Grouper
        <3>3. QED
            BY <1>4, <2>3, <3>1, <3>2 DEF counter, TypeOK
    <2>4. QED
        BY <2>2, <2>3
<1>7. TypeOK'
    BY <1>3, <1>6 DEF EndGroup, TypeOK, status
<1>8. GroupDiscipline'
    <2> SUFFICES ASSUME NEW i \in 1..n
                 PROVE  /\ group_stack_'[i].depth >= 0
                        /\ group_stack_'[i].opened + group_stack_'[i].depth =
                             IF i = n THEN Depth' ELSE group_stack_'[i + 1].opened
                        /\ \A q \in (group_stack_'[i].opened + 1)..Depth' :
                             undo_action_stack_'[q].active
        BY <1>6 DEF GroupDiscipline
    <2> HIDE DEF n, m, outer, plus
    <2>1. i \in 1..Len(group_stack_) /\ i # Len(group_stack_) /\ i + 1 \in 1..Len(group_stack_)
        BY <1>2
    <2>2. group_stack_[i] \in Grouper /\ group_stack_[i + 1] \in Grouper
        BY <1>2, <2>1, ElementOfSeq
    <2>3. /\ group_stack_[i].opened + group_stack_[i].depth = group_stack_[i + 1].opened
          /\ \A q \in (group_stack_[i].opened + 1)..Depth : undo_action_stack_[q].active
        BY <2>1 DEF GroupDiscipline
    <2> DEFINE o == group_stack_[i].opened
               d == group_stack_[i].depth
    <2>kept. /\ group_stack_'[i].opened = o
          /\ group_stack_'[i].depth = d + (IF i = n THEN plus ELSE 0)
        BY <1>6
    <2>nats. o \in Nat /\ d \in Nat /\ plus \in {0, 1}
        BY <2>2 DEF Grouper, plus
    <2>4. \A q \in (group_stack_'[i].opened + 1)..Depth' : undo_action_stack_'[q].active
        <3> SUFFICES ASSUME NEW q \in (group_stack_'[i].opened + 1)..Depth'
                     PROVE  undo_action_stack_'[q].active
            OBVIOUS
        <3>1. q \in (group_stack_[i].opened + 1)..Depth /\ q \in 1..m
            BY <1>2, <1>3, <2>kept, <2>nats
        <3>2. QED
            BY <1>3, <2>3, <3>1
    <2>5. group_stack_'[i].depth >= 0
        BY <2>kept, <2>nats
    <2>6. CASE i = n
        <3>1. group_stack_[i + 1] = Front /\ Front.opened \in Nat /\ Front.depth \in Nat
            BY <1>2, <2>6 DEF Grouper
        <3>2. Depth' = Front.opened + plus
            BY <1>2, <1>3, <3>1 DEF m, plus
        <3>3. QED
            BY <2>kept, <2>nats, <2>3, <2>4, <2>5, <2>6, <3>1, <3>2
    <2>7. CASE i # n
        <3>1. i + 1 \in 1..n
            BY <1>2, <2>7
        <3>2. group_stack_'[i + 1].opened = group_stack_[i + 1].opened
            BY <1>6, <3>1
        <3>3. group_stack_'[i].opened + group_stack_'[i].depth = group_stack_'[i + 1].opened
            BY <2>kept, <2>nats, <2>3, <2>7, <3>2
        <3>4. QED
            BY <2>4, <2>5, <2>7, <3>3
    <2>8. QED
        BY <2>6, <2>7
<1>9. QED
    BY <1>7, <1>8

\* Without groups, undo_ of k actions keeps the structure.
LEMMA StructureMove ==
    ASSUME Structure, ~Grouped, NEW k \in 0..Depth, MoveToRedo(k),
           UNCHANGED <<group_stack_, cancelled, saved_doc>>
    PROVE  Structure'
<1>1. TypeOK'
    BY MoveToRedoType DEF Structure, TypeOK
<1>2. GroupDiscipline'
    BY UngroupedDiscipline DEF Structure
<1>3. QED
    BY <1>1, <1>2 DEF Structure

\* What redo_ puts on the undo stack is an action.
LEMMA RedoneType ==
    ASSUME NEW e \in Undoable, NEW a \in BOOLEAN, NEW before \in Docs, NEW after \in Docs
    PROVE  Redone(e, a, before, after) \in Undoable
BY DEF Redone, Done, Undoable

\* What redo() does to the two stacks, and that the moved action is well formed.
LEMMA RedoFacts ==
    ASSUME TypeOK, NEW d \in Docs, Redo(d)
    PROVE  LET e == Head(redo_action_stack_)
               r == Redone(e, e.active, doc, d)
           IN  /\ e \in Undoable /\ r \in Undoable
               /\ undo_action_stack_' = Append(undo_action_stack_, r)
               /\ undo_action_stack_' \in Seq(Undoable)
               /\ redo_action_stack_' \in Seq(Undoable)
               /\ Len(redo_action_stack_') = Len(redo_action_stack_) - 1
<1> DEFINE e == Head(redo_action_stack_)
           r == Redone(e, e.active, doc, d)
<1>1. redo_action_stack_ # <<>> /\ redo_action_stack_ \in Seq(Undoable)
    BY DEF Redo, TypeOK
<1>2. /\ e \in Undoable /\ Tail(redo_action_stack_) \in Seq(Undoable)
      /\ Len(Tail(redo_action_stack_)) = Len(redo_action_stack_) - 1
    BY <1>1, HeadTailProperties
<1>3. r \in Undoable
    BY <1>2, RedoneType DEF TypeOK, Undoable
<1>4. /\ undo_action_stack_' = Append(undo_action_stack_, r)
      /\ redo_action_stack_' = Tail(redo_action_stack_)
    BY DEF Redo
<1> HIDE DEF e, r
<1>5. Append(undo_action_stack_, r) \in Seq(Undoable)
    BY <1>3, AppendProperties DEF TypeOK
<1>6. QED
    BY <1>2, <1>3, <1>4, <1>5 DEF e, r

\* redo() keeps the structure.
LEMMA StructureRedo ==
    ASSUME Structure, NEW d \in Docs, Redo(d)
    PROVE  Structure'
<1>1. TypeOK /\ ~Grouped /\ UNCHANGED <<group_stack_, cancelled, saved_doc>>
    BY DEF Structure, Redo
<1>2. CountTo(action_count_ + 1) /\ starred \in BOOLEAN
    BY <1>1 DEF Redo, TypeOK
<1>3. action_count_' \in -MaxCount .. MaxCount /\ starred' \in BOOLEAN
    BY <1>2, CountToType
<1>4. undo_action_stack_' \in Seq(Undoable) /\ redo_action_stack_' \in Seq(Undoable)
    BY <1>1, RedoFacts
<1>5. TypeOK'
    BY <1>1, <1>3, <1>4 DEF Redo, TypeOK
<1>6. GroupDiscipline'
    BY <1>1, UngroupedDiscipline
<1>7. QED
    BY <1>5, <1>6 DEF Structure

\* set_action_status leaves as many entries as it found, each of them an action.
LEMMA ToggledStack ==
    ASSUME TypeOK, NEW p, ToggleDone(p),
           NEW D \in [p..(Depth + 1) -> Docs], NEW A \in [p..Depth -> BOOLEAN],
           undo_action_stack_' =
             [q \in 1..Depth |-> IF q < p THEN undo_action_stack_[q]
                                 ELSE Redone(undo_action_stack_[q], A[q], D[q], D[q + 1])]
    PROVE  /\ undo_action_stack_' \in Seq(Undoable)
           /\ Depth' = Depth
           /\ \A q \in 1..Depth :
                undo_action_stack_'[q] =
                  IF q < p THEN undo_action_stack_[q]
                  ELSE Redone(undo_action_stack_[q], A[q], D[q], D[q + 1])
<1>1. p \in 1..Depth /\ Depth \in Nat
    BY DEF ToggleDone, TypeOK, Depth
<1>2. ASSUME NEW q \in 1..Depth
      PROVE  (IF q < p THEN undo_action_stack_[q]
              ELSE Redone(undo_action_stack_[q], A[q], D[q], D[q + 1])) \in Undoable
    <2>1. undo_action_stack_[q] \in Undoable
        BY ElementOfSeq DEF TypeOK, Depth
    <2>2. CASE q < p
        BY <2>1, <2>2
    <2>3. CASE ~(q < p)
        <3>1. q \in p..Depth /\ q \in p..(Depth + 1) /\ q + 1 \in p..(Depth + 1)
            BY <1>1, <2>3
        <3>2. A[q] \in BOOLEAN /\ D[q] \in Docs /\ D[q + 1] \in Docs
            BY <3>1
        <3>3. QED
            BY <2>1, <2>3, <3>2, RedoneType
    <2>4. QED
        BY <2>2, <2>3
<1>3. undo_action_stack_' \in [1..Depth -> Undoable]
    BY <1>2
<1>4. undo_action_stack_' \in Seq(Undoable)
    BY <1>1, <1>3, SeqDef
<1>5. Len(undo_action_stack_') = Depth
    BY <1>1, <1>3, <1>4, LenProperties
<1>6. QED
    BY <1>4, <1>5 DEF Depth

\* set_action_status of a performed action keeps the structure.
LEMMA StructureToggleDone ==
    ASSUME Structure, NEW p, ToggleDone(p)
    PROVE  Structure'
<1>1. TypeOK /\ ~Grouped /\ UNCHANGED <<redo_action_stack_, group_stack_, cancelled, action_count_, saved_doc>>
    BY DEF Structure, ToggleDone
<1>2. PICK D \in [p..(Depth + 1) -> Docs], A \in [p..Depth -> BOOLEAN] :
        /\ doc' = D[Depth + 1]
        /\ undo_action_stack_' =
             [q \in 1..Depth |-> IF q < p THEN undo_action_stack_[q]
                                 ELSE Redone(undo_action_stack_[q], A[q], D[q], D[q + 1])]
    BY DEF ToggleDone
<1>3. undo_action_stack_' \in Seq(Undoable)
    <2>1. TypeOK
        BY <1>1
    <2>2. undo_action_stack_' =
             [q \in 1..Depth |-> IF q < p THEN undo_action_stack_[q]
                                 ELSE Redone(undo_action_stack_[q], A[q], D[q], D[q + 1])]
        BY <1>2
    <2>3. QED
        BY <2>1, <2>2, ToggledStack, ZenonT(60)
<1>4. doc' \in Docs
    <2>1. p \in 1..Depth /\ Depth \in Nat
        BY <1>1 DEF ToggleDone, TypeOK, Depth
    <2>2. Depth + 1 \in p..(Depth + 1)
        BY <2>1
    <2>3. QED
        BY <1>2, <2>2
<1>5. undo_status_' \in BOOLEAN /\ redo_status_' \in BOOLEAN /\ starred' \in BOOLEAN
    <2>1. undo_status_' \in BOOLEAN /\ redo_status_' \in BOOLEAN
        BY DEF ToggleDone
    <2>2. \A a, b, c : c \in BOOLEAN => Told(a, b, c) \in BOOLEAN
        BY DEF Told
    <2>3. QED
        BY <1>1, <2>1, <2>2 DEF ToggleDone, TypeOK
<1>6. TypeOK'
    BY <1>1, <1>3, <1>4, <1>5 DEF TypeOK
<1>7. GroupDiscipline'
    BY <1>1, UngroupedDiscipline
<1>8. QED
    BY <1>6, <1>7 DEF Structure

\* So does set_action_status of an undone one.
LEMMA StructureToggleUndone ==
    ASSUME Structure, NEW i, ToggleUndone(i)
    PROVE  Structure'
<1>1. /\ TypeOK /\ ~Grouped
      /\ UNCHANGED <<doc, undo_action_stack_, group_stack_, cancelled, counter, status, saved_doc>>
    BY DEF Structure, ToggleUndone
<1>2. i \in 1..Len(redo_action_stack_) /\ redo_action_stack_ \in Seq(Undoable)
    BY <1>1 DEF ToggleUndone, TypeOK
<1> DEFINE e == [redo_action_stack_[i] EXCEPT !.active = ~@]
<1>3. e \in Undoable
    <2>1. redo_action_stack_[i] \in Undoable
        BY <1>2, ElementOfSeq
    <2>2. QED
        BY <2>1 DEF Undoable
<1>4. redo_action_stack_' = [redo_action_stack_ EXCEPT ![i] = e]
    BY DEF ToggleUndone
<1>5. redo_action_stack_' \in Seq(Undoable)
    <2> HIDE DEF e
    <2>1. QED
        BY <1>2, <1>3, <1>4, ExceptSeq
<1>6. TypeOK'
    BY <1>1, <1>5 DEF TypeOK, counter, status
<1>7. GroupDiscipline'
    BY <1>1, UngroupedDiscipline
<1>8. QED
    BY <1>6, <1>7 DEF Structure

\* So do the clears of the stacks and saving.
LEMMA StructureRest ==
    ASSUME Structure,
           \/ ClearUndoStack
           \/ ClearRedoStack
           \/ \E ok \in BOOLEAN : Save(ok)
    PROVE  Structure'
<1>1. TypeOK /\ ~Grouped /\ UNCHANGED <<group_stack_, cancelled>>
    BY DEF Structure, ClearUndoStack, ClearRedoStack, Save
<1>2. <<>> \in Seq(Undoable)
    OBVIOUS
<1>3. 0 \in -MaxCount .. MaxCount
    BY ConstantsAssumption
<1>4. TypeOK'
    <2>1. CASE ClearUndoStack
        BY <1>1, <1>2, <2>1 DEF TypeOK, ClearUndoStack, counter
    <2>2. CASE ClearRedoStack
        BY <1>1, <1>2, <2>2 DEF TypeOK, ClearRedoStack, counter
    <2>3. ASSUME NEW ok \in BOOLEAN, Save(ok)
          PROVE  TypeOK'
        <3>1. starred' \in BOOLEAN
            BY <2>3 DEF Save
        <3>2. action_count_' \in -MaxCount .. MaxCount /\ saved_doc' \in Docs
            BY <1>1, <1>3, <2>3 DEF Save, TypeOK
        <3>3. QED
            BY <1>1, <2>3, <3>1, <3>2 DEF TypeOK, Save, stacks, status
    <2>4. QED
        BY <2>1, <2>2, <2>3
<1>5. GroupDiscipline'
    BY <1>1, UngroupedDiscipline
<1>6. QED
    BY <1>4, <1>5 DEF Structure

\* The structure holds in a new document.
LEMMA StructureInit == Init => Structure
<1> SUFFICES ASSUME Init
             PROVE  Structure
    OBVIOUS
<1>1. TypeOK
    <2>1. action_count_ \in -MaxCount .. MaxCount
        BY ConstantsAssumption DEF Init
    <2>2. starred \in BOOLEAN
        BY DEF Init
    <2>3. undo_action_stack_ \in Seq(Undoable) /\ redo_action_stack_ \in Seq(Undoable)
          /\ group_stack_ \in Seq(Grouper)
        BY DEF Init
    <2>4. QED
        BY <2>1, <2>2, <2>3 DEF Init, TypeOK
<1>2. GroupDiscipline
    BY DEF Init, GroupDiscipline
<1>3. QED
    BY <1>1, <1>2 DEF Structure

\* Every operation keeps the structure.
LEMMA StructureStep == Structure /\ [Next]_vars => Structure'
<1> SUFFICES ASSUME Structure, [Next]_vars
             PROVE  Structure'
    OBVIOUS
<1>1. ASSUME NEW d \in Docs, PerformAction(d)
      PROVE  Structure'
    BY <1>1, StructurePerform
<1>2. CASE BeginGroup
    BY <1>2, StructureBegin
<1>3. ASSUME NEW k \in 0..MaxStack, CancelGroup(k)
      PROVE  Structure'
    BY <1>3, StructureCancel
<1>4. CASE EndGroup
    BY <1>4, StructureEnd
<1>5. CASE Undo
    <2>1. ~Grouped /\ 1 \in 0..Depth /\ MoveToRedo(1)
          /\ UNCHANGED <<group_stack_, cancelled, saved_doc>>
        BY <1>5 DEF Undo, Structure, TypeOK, Depth
    <2>2. QED
        BY <2>1, StructureMove
<1>6. ASSUME NEW d \in Docs, Redo(d)
      PROVE  Structure'
    BY <1>6, StructureRedo
<1>7. ASSUME NEW p \in 1..MaxStack, ToggleDone(p)
      PROVE  Structure'
    BY <1>7, StructureToggleDone
<1>8. ASSUME NEW k \in 0..MaxStack, ToggleAborted(k)
      PROVE  Structure'
    <2>1. ~Grouped /\ k \in 0..Depth /\ MoveToRedo(k)
          /\ UNCHANGED <<group_stack_, cancelled, saved_doc>>
        BY <1>8 DEF ToggleAborted, Structure, TypeOK, Depth
    <2>2. QED
        BY <2>1, StructureMove
<1>9. ASSUME NEW i \in 1..MaxStack, ToggleUndone(i)
      PROVE  Structure'
    BY <1>9, StructureToggleUndone
<1>10. CASE ClearUndoStack \/ ClearRedoStack \/ \E ok \in BOOLEAN : Save(ok)
    BY <1>10, StructureRest
<1>11. CASE UNCHANGED vars
    BY <1>11 DEF vars, stacks, counter, status, Structure, TypeOK, GroupDiscipline, Depth
<1>12. QED
    BY <1>1, <1>2, <1>3, <1>4, <1>5, <1>6, <1>7, <1>8, <1>9, <1>10, <1>11
    DEF Next, Edit, Travel, Manage

-----------------------------------------------------------------------------
(***************************************************************************)
(* Undo finds the documents it recorded, and a group can be taken back to  *)
(* the document it found.  CancelRestores is about a group that is empty   *)
(* again; to get there every open group must know, at any time, that its   *)
(* document is still the one below its first entry (GroupFound), and that  *)
(* needs the groups to have been opened one above the other (GroupOrder).  *)
(***************************************************************************)
GroupFound ==
    \A i \in 1..Len(group_stack_) :
        DocBelow(undo_action_stack_, group_stack_[i].opened + 1, doc) = group_stack_[i].found

GroupOrder ==
    \A i \in 1..Len(group_stack_) :
        /\ group_stack_[i].opened <= Depth
        /\ \A j \in 1..Len(group_stack_) : i <= j => group_stack_[i].opened <= group_stack_[j].opened

Records == UndoChain /\ GroupFound /\ GroupOrder

\* The same open groups over a stack that still reads the same below them.
LEMMA GroupsOver ==
    ASSUME Structure, Records, Structure',
           Len(group_stack_') <= Len(group_stack_),
           \A i \in 1..Len(group_stack_') :
             /\ group_stack_'[i].opened = group_stack_[i].opened
             /\ group_stack_'[i].found = group_stack_[i].found
             /\ group_stack_[i].opened <= Depth'
             /\ DocBelow(undo_action_stack_', group_stack_[i].opened + 1, doc') =
                  DocBelow(undo_action_stack_, group_stack_[i].opened + 1, doc)
    PROVE  GroupFound' /\ GroupOrder'
<1>1. Len(group_stack_') \in Nat /\ Len(group_stack_) \in Nat
    BY DEF Structure, TypeOK
<1>2. \A i \in 1..Len(group_stack_') : i \in 1..Len(group_stack_)
    BY <1>1
<1>3. GroupFound'
    BY <1>2 DEF Records, GroupFound
<1>4. GroupOrder'
    BY <1>2 DEF Records, GroupOrder
<1>5. QED
    BY <1>3, <1>4

\* An action goes on top of the undo stack: one that has just been performed in
\* the document, or an inactive one that left the document alone.
LEMMA RecordsExtend ==
    ASSUME Structure, Records, NEW e \in Undoable,
           undo_action_stack_' = Append(undo_action_stack_, e),
           IF e.active THEN e.old = doc /\ e.new = doc' ELSE doc' = doc
    PROVE  /\ UndoChain'
           /\ Depth' = Depth + 1
           /\ \A i \in 1..(Depth + 1) :
                DocBelow(undo_action_stack_', i, doc') = DocBelow(undo_action_stack_, i, doc)
<1>1. undo_action_stack_ \in Seq(Undoable) /\ Depth \in Nat /\ Depth = Len(undo_action_stack_)
    BY DEF Structure, TypeOK, Depth
<1>2. /\ undo_action_stack_' \in Seq(Undoable)
      /\ Depth' = Depth + 1
      /\ \A q \in 1..Depth : undo_action_stack_'[q] = undo_action_stack_[q]
      /\ undo_action_stack_'[Depth + 1] = e
    BY <1>1, AppendProperties DEF Depth
<1>3. ASSUME NEW i \in 1..(Depth + 1)
      PROVE  DocBelow(undo_action_stack_', i, doc') = DocBelow(undo_action_stack_, i, doc)
    <2>1. DocBelow(Append(undo_action_stack_, e), i, doc') =
            DocBelow(undo_action_stack_, i, IF e.active THEN e.old ELSE doc')
        BY <1>1, DocBelowAppend
    <2>2. QED
        BY <2>1
<1>4. UndoChain'
    <2> SUFFICES ASSUME NEW i \in 1..(Depth + 1), undo_action_stack_'[i].active
                 PROVE  undo_action_stack_'[i].new = DocBelow(undo_action_stack_', i + 1, doc')
        BY <1>2 DEF UndoChain
    <2>1. CASE i = Depth + 1
        <3>1. Depth' = Len(undo_action_stack_') /\ Len(undo_action_stack_') \in Nat
            BY <1>2 DEF Depth
        <3>2. DocBelow(undo_action_stack_', Depth' + 1, doc') = doc'
            BY <3>1, DocBelowTop
        <3>3. QED
            BY <1>2, <2>1, <3>2
    <2>2. CASE i # Depth + 1
        <3>1. i \in 1..Depth /\ i + 1 \in 1..(Depth + 1)
            BY <1>1, <2>2
        <3>2. QED
            BY <1>2, <1>3, <3>1 DEF Records, UndoChain
    <2>3. QED
        BY <2>1, <2>2
<1>5. QED
    BY <1>2, <1>3, <1>4

\* perform_action keeps the records: its action found the document there was.
LEMMA RecordsPerform ==
    ASSUME Structure, Records, NEW d \in Docs, PerformAction(d)
    PROVE  Records'
<1>1. Structure' /\ doc \in Docs /\ group_stack_ \in Seq(Grouper)
    BY StructurePerform DEF Structure, TypeOK
<1>2. /\ undo_action_stack_' = Append(undo_action_stack_, Done(doc, d))
      /\ doc' = d /\ Added(group_stack_)
    BY DEF PerformAction
<1>3. Done(doc, d) \in Undoable /\ Done(doc, d).active /\ Done(doc, d).old = doc /\ Done(doc, d).new = d
    BY <1>1 DEF Done, Undoable
<1>4. /\ UndoChain'
      /\ Depth' = Depth + 1
      /\ \A i \in 1..(Depth + 1) :
           DocBelow(undo_action_stack_', i, doc') = DocBelow(undo_action_stack_, i, doc)
    <2> DEFINE e == Done(doc, d)
    <2>1. e \in Undoable /\ undo_action_stack_' = Append(undo_action_stack_, e)
          /\ (IF e.active THEN e.old = doc /\ e.new = doc' ELSE doc' = doc)
        BY <1>2, <1>3
    <2> HIDE DEF e
    <2>2. QED
        BY <2>1, RecordsExtend
<1>5. /\ Len(group_stack_') = Len(group_stack_)
      /\ \A i \in 1..Len(group_stack_) :
           group_stack_'[i] = IF i = Len(group_stack_)
                              THEN [group_stack_[i] EXCEPT !.depth = @ + 1] ELSE group_stack_[i]
    BY <1>1, <1>2, AddedType DEF Structure
<1>6. ASSUME NEW i \in 1..Len(group_stack_)
      PROVE  /\ group_stack_'[i].opened = group_stack_[i].opened
             /\ group_stack_'[i].found = group_stack_[i].found
             /\ group_stack_[i].opened <= Depth'
             /\ DocBelow(undo_action_stack_', group_stack_[i].opened + 1, doc') =
                  DocBelow(undo_action_stack_, group_stack_[i].opened + 1, doc)
    <2>1. group_stack_[i] \in Grouper
        BY <1>1, ElementOfSeq
    <2>2. group_stack_[i].opened \in 0..Depth /\ Depth \in Nat
        BY <2>1 DEF Records, GroupOrder, Grouper, Structure, TypeOK, Depth
    <2>3. group_stack_'[i].opened = group_stack_[i].opened /\ group_stack_'[i].found = group_stack_[i].found
        BY <1>5, <2>1 DEF Grouper
    <2>4. group_stack_[i].opened + 1 \in 1..(Depth + 1)
        BY <2>2
    <2>5. QED
        BY <1>4, <2>2, <2>3, <2>4
<1>7. GroupFound' /\ GroupOrder'
    <2>1. Len(group_stack_) \in Nat
        BY <1>1
    <2>2. QED
        BY <1>1, <1>5, <1>6, <2>1, GroupsOver
<1>8. QED
    BY <1>4, <1>7 DEF Records

\* undo_ of the top k actions keeps the chain of records, and the document
\* below every position that is left.
LEMMA RecordsMove ==
    ASSUME Structure, Records, NEW k \in 0..Depth, MoveToRedo(k)
    PROVE  /\ UndoChain'
           /\ Depth' = Depth - k
           /\ \A i \in 1..(Depth' + 1) :
                DocBelow(undo_action_stack_', i, doc') = DocBelow(undo_action_stack_, i, doc)
<1>1. undo_action_stack_ \in Seq(Undoable) /\ Depth \in Nat /\ Depth = Len(undo_action_stack_)
    BY DEF Structure, TypeOK, Depth
<1>2. /\ undo_action_stack_' \in Seq(Undoable)
      /\ Depth' = Depth - k
      /\ \A q \in 1..Depth' : undo_action_stack_'[q] = undo_action_stack_[q]
    BY MoveToRedoType DEF Structure
<1>3. Len(undo_action_stack_') = Depth' /\ Depth' \in 0..Depth
    BY <1>1, <1>2 DEF Depth
<1>4. doc' = DocBelow(undo_action_stack_, Depth' + 1, doc)
    BY <1>2 DEF MoveToRedo
<1>5. ASSUME NEW i \in 1..(Depth' + 1)
      PROVE  DocBelow(undo_action_stack_', i, doc') = DocBelow(undo_action_stack_, i, doc)
    BY <1>1, <1>2, <1>3, <1>4, DocBelowCut, ZenonT(60)
<1>6. UndoChain'
    <2> SUFFICES ASSUME NEW i \in 1..Depth', undo_action_stack_'[i].active
                 PROVE  undo_action_stack_'[i].new = DocBelow(undo_action_stack_', i + 1, doc')
        BY DEF UndoChain
    <2>1. Depth \in Nat /\ Depth' \in Nat /\ Depth' <= Depth
        BY <1>1, <1>2
    <2>2. i \in 1..Depth /\ i + 1 \in 1..(Depth' + 1)
        <3>1. \A n, m \in Nat : \A j \in 1..n : n <= m => j \in 1..m /\ j + 1 \in 1..(n + 1)
            OBVIOUS
        <3>2. QED
            BY <2>1, <3>1
    <2>3. QED
        BY <1>2, <1>5, <2>2 DEF Records, UndoChain
<1>7. QED
    BY <1>2, <1>5, <1>6

\* When it moves none, the two stacks and the document are the same.
LEMMA MoveNone ==
    ASSUME TypeOK, MoveToRedo(0)
    PROVE  UNCHANGED <<doc, undo_action_stack_, redo_action_stack_>>
<1> DEFINE s == undo_action_stack_
           r == redo_action_stack_
<1>1. s \in Seq(Undoable) /\ r \in Seq(Undoable) /\ Len(s) \in Nat /\ Depth = Len(s)
    BY DEF TypeOK, Depth
<1>2. /\ doc' = DocBelow(s, Depth - 0 + 1, doc)
      /\ undo_action_stack_' = SubSeq(s, 1, Depth - 0)
      /\ redo_action_stack_' = SubSeq(s, Depth - 0 + 1, Depth) \o r
    BY DEF MoveToRedo
<1>3. Depth - 0 = Len(s)
    BY <1>1
<1> HIDE DEF s, r
<1>4. doc' = doc
    BY <1>1, <1>2, <1>3, DocBelowTop
<1>5. undo_action_stack_' = s
    BY <1>1, <1>2, <1>3, SubSeqFull
<1>6. redo_action_stack_' = r
    <2>1. SubSeq(s, Len(s) + 1, Len(s)) = <<>>
        <3> DEFINE l == Len(s)
        <3>1. l + 1 \in Int /\ l \in Int /\ l < l + 1
            BY <1>1
        <3> HIDE DEF l
        <3>2. SubSeq(s, l + 1, l) = <<>>
            BY <3>1, SubSeqEmpty
        <3>3. QED
            BY <3>2 DEF l
    <2>2. <<>> \o r = r
        BY <1>1, ConcatEmptySeq
    <2>3. QED
        BY <1>1, <1>2, <1>3, <2>1, <2>2
<1>7. QED
    BY <1>4, <1>5, <1>6 DEF s, r

\* cancel() keeps the records, and brings back what its group found.
LEMMA RecordsCancel ==
    ASSUME Structure, Records, NEW k, CancelGroup(k)
    PROVE  Records'
<1>1. /\ Structure' /\ Len(group_stack_) = 1 /\ k \in 0..Front.depth /\ MoveToRedo(k)
      /\ group_stack_' = [group_stack_ EXCEPT ![1].depth = @ - k]
      /\ group_stack_ \in Seq(Grouper)
    BY StructureCancel DEF CancelGroup, Structure, TypeOK
<1>2. Grouped /\ Front = group_stack_[1]
    <2>1. Len(group_stack_) # Len(<<>>)
        BY <1>1
    <2>2. group_stack_ # <<>>
        BY <2>1, Zenon
    <2>3. QED
        BY <1>1, <2>2 DEF Grouped, Front
<1>3. Front \in Grouper /\ Depth \in Nat /\ Front.opened + Front.depth = Depth
    BY <1>2, FrontFacts
<1>4. k \in 0..Depth
    BY <1>1, <1>3 DEF Grouper
<1>5. /\ UndoChain'
      /\ Depth' = Depth - k
      /\ \A i \in 1..(Depth' + 1) :
           DocBelow(undo_action_stack_', i, doc') = DocBelow(undo_action_stack_, i, doc)
    BY <1>1, <1>4, RecordsMove
<1>6. Front.opened + 1 \in 1..(Depth' + 1) /\ Front.opened <= Depth'
    BY <1>1, <1>3, <1>5 DEF Grouper
<1>7. /\ Len(group_stack_') = 1
      /\ group_stack_'[1].opened = Front.opened
      /\ group_stack_'[1].found = Front.found
    BY <1>1, <1>2, <1>3 DEF Grouper
<1>8. GroupFound' /\ GroupOrder'
    <2>1. DocBelow(undo_action_stack_', Front.opened + 1, doc') =
            DocBelow(undo_action_stack_, Front.opened + 1, doc)
        BY <1>5, <1>6
    <2>2. ASSUME NEW i \in 1..Len(group_stack_')
          PROVE  /\ group_stack_'[i].opened = group_stack_[i].opened
                 /\ group_stack_'[i].found = group_stack_[i].found
                 /\ group_stack_[i].opened <= Depth'
                 /\ DocBelow(undo_action_stack_', group_stack_[i].opened + 1, doc') =
                      DocBelow(undo_action_stack_, group_stack_[i].opened + 1, doc)
        <3>1. i = 1
            BY <1>7
        <3>2. QED
            BY <1>2, <1>6, <1>7, <2>1, <3>1
    <2>3. Len(group_stack_') <= Len(group_stack_)
        <3>1. 1 <= 1
            OBVIOUS
        <3>2. QED
            BY <1>1, <1>7, <3>1, Zenon
    <2>4. QED
        BY <1>1, <2>2, <2>3, GroupsOver
<1>9. QED
    BY <1>5, <1>8 DEF Records

\* A new group has found the document there is.
LEMMA RecordsBegin ==
    ASSUME Structure, Records, BeginGroup
    PROVE  Records'
<1> DEFINE new == [depth |-> 0, opened |-> Depth, found |-> doc]
<1>1. new \in Grouper /\ Depth \in Nat /\ group_stack_ \in Seq(Grouper) /\ Len(group_stack_) \in Nat
    BY DEF Structure, TypeOK, Grouper, Depth
<1>2. /\ Len(group_stack_') = Len(group_stack_) + 1
      /\ \A i \in 1..Len(group_stack_) : group_stack_'[i] = group_stack_[i]
      /\ group_stack_'[Len(group_stack_) + 1] = new
    BY <1>1, AppendProperties DEF BeginGroup
<1>3. UNCHANGED <<doc, undo_action_stack_>> /\ Depth' = Depth
    BY DEF BeginGroup, stacks, Depth
<1>4. UndoChain'
    BY <1>3 DEF Records, UndoChain
<1>5. DocBelow(undo_action_stack_, Depth + 1, doc) = doc
    BY <1>1, DocBelowTop DEF Depth
<1>6. ASSUME NEW i \in 1..(Len(group_stack_) + 1)
      PROVE  /\ DocBelow(undo_action_stack_', group_stack_'[i].opened + 1, doc') = group_stack_'[i].found
             /\ group_stack_'[i].opened <= Depth'
             /\ \A j \in 1..(Len(group_stack_) + 1) :
                  i <= j => group_stack_'[i].opened <= group_stack_'[j].opened
    <2>1. CASE i = Len(group_stack_) + 1
        BY <1>1, <1>2, <1>3, <1>5, <2>1
    <2>2. CASE i # Len(group_stack_) + 1
        <3>1. i \in 1..Len(group_stack_)
            BY <1>1, <2>2
        <3>2. /\ group_stack_'[i] = group_stack_[i]
              /\ DocBelow(undo_action_stack_, group_stack_[i].opened + 1, doc) = group_stack_[i].found
              /\ group_stack_[i].opened <= Depth
            BY <1>2, <3>1 DEF Records, GroupFound, GroupOrder
        <3>3. ASSUME NEW j \in 1..(Len(group_stack_) + 1), i <= j
              PROVE  group_stack_'[i].opened <= group_stack_'[j].opened
            <4>1. CASE j = Len(group_stack_) + 1
                BY <1>2, <3>2, <4>1
            <4>2. CASE j # Len(group_stack_) + 1
                <5>1. j \in 1..Len(group_stack_)
                    BY <1>1, <4>2
                <5>2. QED
                    BY <1>2, <3>1, <3>3, <5>1 DEF Records, GroupOrder
            <4>3. QED
                BY <4>1, <4>2
        <3>4. QED
            BY <1>3, <3>2, <3>3
    <2>3. QED
        BY <2>1, <2>2
<1>7. GroupFound'
    BY <1>2, <1>6 DEF GroupFound
<1>8. GroupOrder'
    BY <1>2, <1>6 DEF GroupOrder
<1>9. QED
    BY <1>4, <1>7, <1>8 DEF Records

\* One Group in place of the entries above i, the lowest of them active: below
\* it the stack reads as it did.
LEMMA DocBelowMerged ==
    ASSUME NEW s \in Seq(Undoable), NEW i \in Nat, i < Len(s),
           s[i + 1].active, s[Len(s)].active,
           NEW d, s[Len(s)].new = d, NEW q \in 1..(i + 1)
    PROVE  /\ Merged(s, i) \in Seq(Undoable)
           /\ Len(Merged(s, i)) = i + 1
           /\ \A r \in 1..i : Merged(s, i)[r] = s[r]
           /\ Merged(s, i)[i + 1].new = d
           /\ DocBelow(Merged(s, i), q, d) = DocBelow(s, q, d)
<1> DEFINE cut == SubSeq(s, 1, i)
           e == Done(s[i + 1].old, s[Len(s)].new)
<1>1. \A r \in 1..Len(s) : s[r] \in Undoable
    BY ElementOfSeq
<1>2. s[i + 1] \in Undoable /\ s[Len(s)] \in Undoable
    BY <1>1
<1>3. e \in Undoable /\ e.active /\ e.old = s[i + 1].old /\ e.new = d
    BY <1>2 DEF Done, Undoable
<1>4. cut \in Seq(Undoable) /\ Len(cut) = i /\ \A r \in 1..i : cut[r] = s[r]
    <2>1. \A r \in 1..i : s[r] \in Undoable
        BY <1>1
    <2>2. /\ SubSeq(s, 1, i) \in Seq(Undoable)
          /\ Len(SubSeq(s, 1, i)) = IF 1 <= i THEN i - 1 + 1 ELSE 0
          /\ \A r \in 1 .. i - 1 + 1 : SubSeq(s, 1, i)[r] = s[1 + r - 1]
        BY <2>1, SubSeqProperties
    <2>3. QED
        BY <2>2
<1>5. Merged(s, i) = Append(cut, e)
    BY DEF Merged
<1> HIDE DEF cut, e
<1>6. /\ Merged(s, i) \in Seq(Undoable)
      /\ Len(Merged(s, i)) = i + 1
      /\ \A r \in 1..i : Merged(s, i)[r] = s[r]
      /\ Merged(s, i)[i + 1] = e
    BY <1>3, <1>4, <1>5, AppendProperties
<1>7. DocBelow(s, i + 1, d) = e.old
    <2>1. i + 1 \in 1..Len(s)
        OBVIOUS
    <2>2. DocBelow(s, i + 1, d) =
            IF s[i + 1].active THEN s[i + 1].old ELSE DocBelow(s, i + 1 + 1, d)
        BY <2>1, DocBelowStep
    <2>3. QED
        BY <1>3, <2>2
<1>8. DocBelow(Append(cut, e), q, d) = DocBelow(cut, q, e.old)
    <2>1. q \in 1..(Len(cut) + 1)
        BY <1>4
    <2>2. DocBelow(Append(cut, e), q, d) = DocBelow(cut, q, IF e.active THEN e.old ELSE d)
        BY <1>3, <1>4, <2>1, DocBelowAppend
    <2>3. QED
        BY <1>3, <2>2
<1>9. DocBelow(cut, q, DocBelow(s, i + 1, d)) = DocBelow(s, q, d)
    <2>1. i \in 0..Len(s)
        OBVIOUS
    <2>2. QED
        BY <1>4, <2>1, DocBelowCut
<1>10. QED
    BY <1>3, <1>5, <1>6, <1>7, <1>8, <1>9

\* ~PassiveGrouper leaves the undo stack reading the same below its own entry.
LEMMA EndedRecords ==
    ASSUME Structure, Records, EndGroup
    PROVE  /\ UndoChain'
           /\ Front.opened <= Depth'
           /\ \A q \in 1..(Front.opened + 1) :
                DocBelow(undo_action_stack_', q, doc') = DocBelow(undo_action_stack_, q, doc)
<1> DEFINE s == undo_action_stack_
           i == Front.opened
<1>1. /\ Grouped /\ doc' = doc /\ s \in Seq(Undoable) /\ Depth = Len(s) /\ Len(s) \in Nat
    BY DEF EndGroup, Structure, TypeOK, Depth
<1>2. /\ Front \in Grouper /\ i + Front.depth = Len(s)
      /\ \A q \in (i + 1)..Len(s) : s[q].active
    BY <1>1, FrontFacts
<1>3. i \in Nat /\ Front.depth \in Nat
    BY <1>2 DEF Grouper
<1>4. CASE Front.depth > 1
    <2>1. undo_action_stack_' = Merged(s, Len(s) - Front.depth)
        BY <1>4 DEF EndGroup, Depth
    <2> HIDE DEF s, i
    <2>2. Len(s) - Front.depth = i /\ i < Len(s) /\ i + 1 \in 1..Len(s)
        BY <1>1, <1>2, <1>3, <1>4
    <2>3. undo_action_stack_' = Merged(s, i)
        BY <2>1, <2>2
    <2>4. s[i + 1].active /\ s[Len(s)].active
        <3>1. i + 1 \in (i + 1)..Len(s) /\ Len(s) \in (i + 1)..Len(s)
            BY <1>1, <1>3, <2>2
        <3>2. QED
            BY <1>2, <3>1
    <2>5. s[Len(s)].new = doc
        <3>1. Len(s) \in 1..Depth /\ s[Len(s)].active
            BY <1>1, <1>3, <2>2, <2>4
        <3>2. s[Len(s)].new = DocBelow(s, Len(s) + 1, doc)
            BY <3>1 DEF Records, UndoChain, s
        <3>3. QED
            BY <1>1, <3>2, DocBelowTop
    <2>6. ASSUME NEW q \in 1..(i + 1)
          PROVE  /\ Len(undo_action_stack_') = i + 1
                 /\ \A r \in 1..i : undo_action_stack_'[r] = s[r]
                 /\ undo_action_stack_'[i + 1].new = doc
                 /\ DocBelow(undo_action_stack_', q, doc') = DocBelow(s, q, doc)
        BY <1>1, <1>3, <2>2, <2>3, <2>4, <2>5, DocBelowMerged
    <2>7. /\ Len(undo_action_stack_') = i + 1
          /\ \A r \in 1..i : undo_action_stack_'[r] = s[r]
          /\ undo_action_stack_'[i + 1].new = doc
        <3>1. 1 \in 1..(i + 1)
            BY <1>3
        <3>2. QED
            BY <2>6, <3>1
    <2>8. Depth' = i + 1
        BY <2>7 DEF Depth
    <2>9. UndoChain'
        <3> SUFFICES ASSUME NEW r \in 1..(i + 1), undo_action_stack_'[r].active
                     PROVE  undo_action_stack_'[r].new = DocBelow(undo_action_stack_', r + 1, doc')
            BY <2>8 DEF UndoChain
        <3>1. CASE r = i + 1
            <4>1. Len(undo_action_stack_') + 1 = r + 1 /\ Len(undo_action_stack_') \in Nat
                BY <1>3, <2>7, <3>1
            <4>2. DocBelow(undo_action_stack_', r + 1, doc') = doc'
                BY <4>1, DocBelowTop
            <4>3. QED
                BY <1>1, <2>7, <3>1, <4>2
        <3>2. CASE r # i + 1
            <4>1. r \in 1..i /\ r + 1 \in 1..(i + 1) /\ r \in 1..Depth
                BY <1>1, <1>3, <2>2, <3>2
            <4>2. s[r].active => s[r].new = DocBelow(s, r + 1, doc)
                BY <4>1 DEF Records, UndoChain, s
            <4>3. QED
                BY <2>6, <2>7, <4>1, <4>2
        <3>3. QED
            BY <3>1, <3>2
    <2>10. Front.opened <= Depth'
        BY <1>3, <2>8 DEF i
    <2>11. QED
        BY <2>6, <2>9, <2>10 DEF s, i
<1>5. CASE ~(Front.depth > 1)
    <2>1. undo_action_stack_' = undo_action_stack_
        BY <1>5 DEF EndGroup
    <2>2. Depth' = Depth
        BY <2>1 DEF Depth
    <2>3. UndoChain'
        BY <1>1, <2>1, <2>2 DEF Records, UndoChain
    <2>4. QED
        BY <1>1, <1>2, <1>3, <2>1, <2>2, <2>3
<1>6. QED
    BY <1>4, <1>5

\* ~PassiveGrouper keeps the records: the merged entry found what its first
\* action found and left what its last one left.
LEMMA RecordsEnd ==
    ASSUME Structure, Records, EndGroup
    PROVE  Records'
<1> DEFINE n == Len(group_stack_) - 1
           outer == SubSeq(group_stack_, 1, n)
<1>1. Structure' /\ Grouped /\ doc' = doc
    BY StructureEnd DEF EndGroup
<1>2. /\ group_stack_ \in Seq(Grouper) /\ n \in Nat /\ Len(group_stack_) = n + 1
      /\ Front = group_stack_[n + 1] /\ Front \in Grouper
    BY <1>1, FrontFacts DEF Structure, TypeOK, Front
<1>3. /\ UndoChain'
      /\ Front.opened <= Depth'
      /\ \A q \in 1..(Front.opened + 1) :
           DocBelow(undo_action_stack_', q, doc') = DocBelow(undo_action_stack_, q, doc)
    BY EndedRecords
<1>4. outer \in Seq(Grouper) /\ Len(outer) = n /\ \A i \in 1..n : outer[i] = group_stack_[i]
    <2> HIDE DEF n
    <2>1. \A i \in 1..n : group_stack_[i] \in Grouper
        BY <1>2, ElementOfSeq
    <2>2. /\ SubSeq(group_stack_, 1, n) \in Seq(Grouper)
          /\ Len(SubSeq(group_stack_, 1, n)) = IF 1 <= n THEN n - 1 + 1 ELSE 0
          /\ \A i \in 1 .. n - 1 + 1 : SubSeq(group_stack_, 1, n)[i] = group_stack_[1 + i - 1]
        BY <1>2, <2>1, SubSeqProperties
    <2>3. QED
        BY <1>2, <2>2
<1>5. Added(outer) \/ group_stack_' = outer
    BY DEF EndGroup
<1> HIDE DEF n, outer
<1>6. /\ Len(group_stack_') = n
      /\ \A i \in 1..n : /\ group_stack_'[i].opened = group_stack_[i].opened
                         /\ group_stack_'[i].found = group_stack_[i].found
    <2>1. CASE Added(outer)
        <3>1. /\ Len(group_stack_') = n
              /\ \A i \in 1..n : group_stack_'[i] = IF i = n
                                   THEN [outer[i] EXCEPT !.depth = @ + 1] ELSE outer[i]
            BY <1>4, <2>1, AddedType DEF Structure
        <3>2. ASSUME NEW i \in 1..n
              PROVE  /\ group_stack_'[i].opened = group_stack_[i].opened
                     /\ group_stack_'[i].found = group_stack_[i].found
            <4>1. i \in 1..Len(group_stack_)
                BY <1>2
            <4>2. outer[i] = group_stack_[i] /\ group_stack_[i] \in Grouper
                BY <1>2, <1>4, <4>1, ElementOfSeq
            <4>3. QED
                BY <3>1, <4>2 DEF Grouper
        <3>3. QED
            BY <3>1, <3>2
    <2>2. CASE group_stack_' = outer
        BY <1>4, <2>2
    <2>3. QED
        BY <1>5, <2>1, <2>2
<1>7. ASSUME NEW i \in 1..n
      PROVE  /\ group_stack_'[i].opened = group_stack_[i].opened
             /\ group_stack_'[i].found = group_stack_[i].found
             /\ group_stack_[i].opened <= Depth'
             /\ DocBelow(undo_action_stack_', group_stack_[i].opened + 1, doc') =
                  DocBelow(undo_action_stack_, group_stack_[i].opened + 1, doc)
    <2>1. i \in 1..Len(group_stack_) /\ n + 1 \in 1..Len(group_stack_) /\ i <= n + 1
        BY <1>2
    <2>2. group_stack_[i] \in Grouper
        BY <1>2, <2>1, ElementOfSeq
    <2>3. group_stack_[i].opened <= Front.opened
        BY <1>2, <2>1 DEF Records, GroupOrder
    <2>4. group_stack_[i].opened \in Nat /\ Front.opened \in Nat
        BY <1>2, <2>2 DEF Grouper
    <2>5. Depth' \in Nat
        BY <1>1 DEF Structure, TypeOK, Depth
    <2>6. group_stack_[i].opened + 1 \in 1..(Front.opened + 1) /\ group_stack_[i].opened <= Depth'
        BY <1>3, <2>3, <2>4, <2>5
    <2>7. QED
        BY <1>3, <1>6, <2>6
<1>8. GroupFound' /\ GroupOrder'
    <2>1. Len(group_stack_') <= Len(group_stack_)
        BY <1>2, <1>6
    <2>2. QED
        BY <1>1, <1>6, <1>7, <2>1, GroupsOver
<1>9. QED
    BY <1>3, <1>8 DEF Records

-----------------------------------------------------------------------------
(* The operations that only exist outside a group.                          *)

\* Without groups the records are the chain of the undo stack.
LEMMA RecordsUngrouped ==
    ASSUME ~Grouped, UNCHANGED group_stack_, UndoChain'
    PROVE  Records'
<1>1. Len(group_stack_') = 0
    BY DEF Grouped
<1>2. GroupFound' /\ GroupOrder'
    BY <1>1 DEF GroupFound, GroupOrder
<1>3. QED
    BY <1>2 DEF Records

\* redo() keeps the records: the action is recorded anew when it is performed.
LEMMA RecordsRedo ==
    ASSUME Structure, Records, NEW d \in Docs, Redo(d)
    PROVE  Records'
<1> DEFINE e == Head(redo_action_stack_)
           r == Redone(e, e.active, doc, d)
<1>1. TypeOK /\ ~Grouped /\ UNCHANGED group_stack_ /\ doc' = d
    BY DEF Structure, Redo
<1>2. e \in Undoable /\ r \in Undoable /\ undo_action_stack_' = Append(undo_action_stack_, r)
    BY <1>1, RedoFacts
<1>3. Redoes(e, e.active, doc, d)
    BY DEF Redo
<1>4. IF r.active THEN r.old = doc /\ r.new = doc' ELSE doc' = doc
    <2>1. CASE e.active
        BY <1>1, <2>1 DEF Redone, Done
    <2>2. CASE ~e.active
        BY <1>1, <1>2, <1>3, <2>2 DEF Redoes, Redone, Undoable
    <2>3. QED
        BY <2>1, <2>2
<1> HIDE DEF e, r
<1>5. UndoChain'
    BY <1>2, <1>4, RecordsExtend
<1>6. QED
    BY <1>1, <1>5, RecordsUngrouped

(***************************************************************************)
(* set_action_status: D[q] is the document before action q was redone.     *)
(* Reading the new stack down to q gives D[q]: at the highest position     *)
(* where it did not, an active action would have recorded D[q], and an     *)
(* inactive one would have left the document of the position above.        *)
(***************************************************************************)
LEMMA ToggledReads ==
    ASSUME NEW s \in Seq(Undoable), NEW p \in 1..Len(s), NEW d,
           NEW D \in [p..(Len(s) + 1) -> Docs], D[Len(s) + 1] = d,
           \A q \in p..Len(s) : /\ s[q].active => s[q].old = D[q]
                                /\ ~s[q].active => D[q + 1] = D[q],
           NEW i \in p..(Len(s) + 1)
    PROVE  DocBelow(s, i, d) = D[i]
<1> DEFINE Bad == {q \in p..(Len(s) + 1) : DocBelow(s, q, d) # D[q]}
<1>1. Len(s) \in Nat
    OBVIOUS
<1>2. CASE Bad = {}
    BY <1>2
<1>3. CASE Bad # {}
    <2> DEFINE n == Len(s) + 1
    <2>1. Bad \in SUBSET Nat /\ n \in Nat /\ \A q \in Bad : q <= n
        BY <1>1
    <2> HIDE DEF Bad, n
    <2>2. PICK q \in Bad : \A r \in Bad : r <= q
        BY <1>3, <2>1, HighestExists
    <2> USE DEF Bad
    <2>3. q # Len(s) + 1
        BY <1>1, DocBelowTop
    <2>4. q \in p..Len(s) /\ q \in 1..Len(s) /\ q + 1 \in p..(Len(s) + 1)
        <3>1. q \in p..(Len(s) + 1)
            OBVIOUS
        <3> HIDE DEF Bad
        <3>2. QED
            BY <1>1, <2>3, <3>1
    <2>5. DocBelow(s, q + 1, d) = D[q + 1]
        <3>1. q + 1 \notin Bad
            BY <2>1, <2>2
        <3>2. QED
            BY <2>4, <3>1
    <2>6. DocBelow(s, q, d) = IF s[q].active THEN s[q].old ELSE DocBelow(s, q + 1, d)
        BY <2>4, DocBelowStep
    <2>7. DocBelow(s, q, d) = D[q]
        BY <2>4, <2>5, <2>6
    <2>8. QED
        BY <2>7
<1>4. QED
    BY <1>2, <1>3

\* set_action_status keeps the chain: all that is redone is recorded anew, and
\* nothing changes below the action that is switched.
LEMMA ToggledRecords ==
    ASSUME Structure, Records, NEW p, ToggleDone(p)
    PROVE  /\ UndoChain'
           /\ \A i \in 1..p :
                DocBelow(undo_action_stack_', i, doc') = DocBelow(undo_action_stack_, i, doc)
<1>1. TypeOK /\ ~Grouped /\ UNCHANGED group_stack_ /\ undo_action_stack_ \in Seq(Undoable)
      /\ p \in 1..Depth /\ Depth \in Nat /\ Depth = Len(undo_action_stack_)
    BY DEF Structure, TypeOK, ToggleDone, Depth
<1>2. PICK D \in [p..(Depth + 1) -> Docs], A \in [p..Depth -> BOOLEAN] :
        /\ D[p] = DocBelow(undo_action_stack_, p, doc)
        /\ \A q \in p..Depth : Redoes(undo_action_stack_[q], A[q], D[q], D[q + 1])
        /\ undo_action_stack_' =
             [q \in 1..Depth |-> IF q < p THEN undo_action_stack_[q]
                                 ELSE Redone(undo_action_stack_[q], A[q], D[q], D[q + 1])]
        /\ doc' = D[Depth + 1]
    BY DEF ToggleDone
<1>3. undo_action_stack_' \in Seq(Undoable) /\ Depth' = Depth
    <2>1. undo_action_stack_' =
            [q \in 1..Depth |-> IF q < p THEN undo_action_stack_[q]
                                ELSE Redone(undo_action_stack_[q], A[q], D[q], D[q + 1])]
        BY <1>2
    <2>2. TypeOK
        BY <1>1
    <2>3. undo_action_stack_' \in Seq(Undoable)
        BY StructureToggleDone DEF Structure, TypeOK
    <2>4. Depth' = Depth
        BY <2>1, <2>2, ToggledStack
    <2>5. QED
        BY <2>3, <2>4
<1>3a. ASSUME NEW q \in 1..Depth
       PROVE  undo_action_stack_'[q] =
                IF q < p THEN undo_action_stack_[q]
                ELSE Redone(undo_action_stack_[q], A[q], D[q], D[q + 1])
    BY <1>2
<1> DEFINE s == undo_action_stack_
           t == undo_action_stack_'
<1>4. t \in Seq(Undoable) /\ s \in Seq(Undoable) /\ Len(s) = Depth /\ Len(t) = Depth
    BY <1>1, <1>3 DEF Depth
<1>4a. /\ D[p] = DocBelow(s, p, doc)
       /\ \A q \in p..Depth : Redoes(s[q], A[q], D[q], D[q + 1])
       /\ \A q \in 1..Depth : t[q] = IF q < p THEN s[q] ELSE Redone(s[q], A[q], D[q], D[q + 1])
    BY <1>2, <1>3a
<1> HIDE DEF s, t
<1>5. ASSUME NEW q \in p..Depth
      PROVE  /\ t[q].active => t[q].old = D[q] /\ t[q].new = D[q + 1]
             /\ ~t[q].active => D[q + 1] = D[q]
    <2>1. q \in 1..Depth /\ ~(q < p)
        BY <1>1
    <2>2. t[q] = Redone(s[q], A[q], D[q], D[q + 1]) /\ s[q] \in Undoable /\ A[q] \in BOOLEAN
        BY <1>4, <1>4a, <2>1, ElementOfSeq
    <2>3. Redoes(s[q], A[q], D[q], D[q + 1])
        BY <1>4a
    <2>4. CASE A[q]
        BY <2>2, <2>4 DEF Redone, Done
    <2>5. CASE ~A[q]
        BY <2>2, <2>3, <2>5 DEF Redone, Redoes, Undoable
    <2>6. QED
        BY <2>2, <2>4, <2>5
<1>6. ASSUME NEW i \in p..(Depth + 1)
      PROVE  DocBelow(t, i, doc') = D[i]
    <2>1. p \in 1..Len(t) /\ D[Len(t) + 1] = doc' /\ i \in p..(Len(t) + 1)
        BY <1>1, <1>2, <1>4
    <2>2. \A q \in p..Len(t) : /\ t[q].active => t[q].old = D[q]
                               /\ ~t[q].active => D[q + 1] = D[q]
        BY <1>4, <1>5
    <2>3. t \in Seq(Undoable) /\ D \in [p..(Len(t) + 1) -> Docs]
        BY <1>4
    <2>4. QED
        BY <2>1, <2>2, <2>3, ToggledReads
<1>7. ASSUME NEW i \in 1..p
      PROVE  DocBelow(t, i, doc') = DocBelow(s, i, doc)
    <2> DEFINE n == p - 1
               cut == SubSeq(s, 1, n)
    <2>1. n \in Nat /\ n + 1 = p /\ n \in 0..Len(s) /\ n \in 0..Len(t) /\ i \in 1..(n + 1)
        BY <1>1, <1>4
    <2>2. cut \in Seq(Undoable) /\ Len(cut) = n /\ \A q \in 1..n : cut[q] = s[q]
        <3> HIDE DEF n
        <3>1. \A q \in 1..n : s[q] \in Undoable
            BY <1>1, <1>4, <2>1, ElementOfSeq
        <3>2. /\ SubSeq(s, 1, n) \in Seq(Undoable)
              /\ Len(SubSeq(s, 1, n)) = IF 1 <= n THEN n - 1 + 1 ELSE 0
              /\ \A q \in 1 .. n - 1 + 1 : SubSeq(s, 1, n)[q] = s[1 + q - 1]
            BY <2>1, <3>1, SubSeqProperties
        <3>3. QED
            BY <2>1, <3>2
    <2>3. \A q \in 1..n : cut[q] = t[q]
        <3>1. n <= Depth /\ n < p
            BY <1>1, <2>1
        <3> HIDE DEF n, cut
        <3>2. \A q \in 1..n : q \in 1..Depth /\ q < p
            BY <1>1, <2>1, <3>1
        <3>3. \A q \in 1..n : t[q] = s[q]
            BY <1>4a, <3>2
        <3>4. QED
            BY <2>2, <3>3
    <2> HIDE DEF n, cut
    <2>4. DocBelow(cut, i, DocBelow(s, n + 1, doc)) = DocBelow(s, i, doc)
        BY <1>4, <2>1, <2>2, DocBelowCut, SMTT(40)
    <2>5. DocBelow(cut, i, DocBelow(t, n + 1, doc')) = DocBelow(t, i, doc')
        BY <1>4, <2>1, <2>2, <2>3, DocBelowCut, SMTT(40)
    <2>6. DocBelow(t, n + 1, doc') = DocBelow(s, n + 1, doc)
        BY <1>1, <1>4a, <1>6, <2>1
    <2>7. QED
        BY <2>4, <2>5, <2>6
<1>8. UndoChain'
    <2> SUFFICES ASSUME NEW i \in 1..Depth, t[i].active
                 PROVE  t[i].new = DocBelow(t, i + 1, doc')
        BY <1>3 DEF UndoChain, t
    <2>1. CASE i < p
        <3>1. i + 1 \in 1..p /\ t[i] = s[i]
            BY <1>1, <1>4a, <2>1
        <3>2. s[i].new = DocBelow(s, i + 1, doc)
            BY <3>1 DEF Records, UndoChain, s
        <3>3. QED
            BY <1>7, <3>1, <3>2
    <2>2. CASE ~(i < p)
        <3>1. i \in p..Depth /\ i + 1 \in p..(Depth + 1)
            BY <1>1, <2>2
        <3>2. QED
            BY <1>5, <1>6, <3>1
    <2>3. QED
        BY <2>1, <2>2
<1>9. QED
    BY <1>7, <1>8 DEF s, t

\* It keeps the records: there is no open group.
LEMMA RecordsToggleDone ==
    ASSUME Structure, Records, NEW p, ToggleDone(p)
    PROVE  Records'
<1>1. ~Grouped /\ UNCHANGED group_stack_
    BY DEF ToggleDone
<1>2. QED
    BY <1>1, ToggledRecords, RecordsUngrouped

\* The records hold in a new document.
LEMMA RecordsInit == Init => Records
<1> SUFFICES ASSUME Init
             PROVE  Records
    OBVIOUS
<1>1. Depth = 0 /\ Len(group_stack_) = 0
    BY DEF Init, Depth
<1>2. QED
    BY <1>1 DEF Records, UndoChain, GroupFound, GroupOrder

\* Every operation keeps the records.
LEMMA RecordsStep == Structure /\ Records /\ [Next]_vars => Records'
<1> SUFFICES ASSUME Structure, Records, [Next]_vars
             PROVE  Records'
    OBVIOUS
<1>1. ASSUME NEW d \in Docs, PerformAction(d)
      PROVE  Records'
    BY <1>1, RecordsPerform
<1>2. CASE BeginGroup
    BY <1>2, RecordsBegin
<1>3. ASSUME NEW k \in 0..MaxStack, CancelGroup(k)
      PROVE  Records'
    BY <1>3, RecordsCancel
<1>4. CASE EndGroup
    BY <1>4, RecordsEnd
<1>5. CASE Undo
    <2>1. ~Grouped /\ UNCHANGED group_stack_ /\ 1 \in 0..Depth /\ MoveToRedo(1)
        BY <1>5 DEF Undo, Structure, TypeOK, Depth
    <2>2. QED
        BY <2>1, RecordsMove, RecordsUngrouped
<1>6. ASSUME NEW d \in Docs, Redo(d)
      PROVE  Records'
    BY <1>6, RecordsRedo
<1>7. ASSUME NEW p \in 1..MaxStack, ToggleDone(p)
      PROVE  Records'
    BY <1>7, RecordsToggleDone
<1>8. ASSUME NEW k \in 0..MaxStack, ToggleAborted(k)
      PROVE  Records'
    <2>1. ~Grouped /\ UNCHANGED group_stack_ /\ k \in 0..Depth /\ MoveToRedo(k)
        BY <1>8 DEF ToggleAborted, Structure, TypeOK, Depth
    <2>2. QED
        BY <2>1, RecordsMove, RecordsUngrouped
<1>9. CASE ClearUndoStack
    <2>1. Depth' = 0 /\ ~Grouped /\ UNCHANGED group_stack_
        BY <1>9 DEF ClearUndoStack, Depth
    <2>2. UndoChain'
        BY <2>1 DEF UndoChain
    <2>3. QED
        BY <2>1, <2>2, RecordsUngrouped
<1>10. CASE \/ \E i \in 1..MaxStack : ToggleUndone(i)
            \/ ClearRedoStack
            \/ \E ok \in BOOLEAN : Save(ok)
            \/ UNCHANGED vars
    <2>1. UNCHANGED <<doc, undo_action_stack_, group_stack_>>
        BY <1>10 DEF ToggleUndone, ClearRedoStack, Save, vars, stacks
    <2>2. QED
        BY <2>1 DEF Records, UndoChain, GroupFound, GroupOrder, Depth
<1>11. QED
    BY <1>1, <1>2, <1>3, <1>4, <1>5, <1>6, <1>7, <1>8, <1>9, <1>10
    DEF Next, Edit, Travel, Manage

-----------------------------------------------------------------------------
(***************************************************************************)
(* What the rest of the program is told: the menus and the titles.         *)
(***************************************************************************)
\* However far the counter goes, the titles that were right are right again.
LEMMA ToldFollows ==
    ASSUME NEW a \in Int, NEW b \in Int
    PROVE  Told(a, b, (a > 0)) = (b > 0)
<1> DEFINE up == a < 1 /\ b >= 1
           back == a < 0 /\ b = 0
           down == b < a /\ b <= 0 /\ a > -1
<1>1. /\ up => ~back /\ ~down /\ (b > 0) = TRUE
      /\ back \/ down => ~up /\ (b > 0) = FALSE
      /\ back => ~down
      /\ ~up /\ ~back /\ ~down => (a > 0) = (b > 0)
    OBVIOUS
<1>2. Told(a, b, (a > 0)) =
        CASE up -> TRUE [] back -> FALSE [] down -> FALSE [] OTHER -> (a > 0)
    BY DEF Told
<1> HIDE DEF up, back, down
<1>3. CASE up
    BY <1>1, <1>2, <1>3, Zenon
<1>4. CASE back
    BY <1>1, <1>2, <1>4, Zenon
<1>5. CASE down
    BY <1>1, <1>2, <1>5, Zenon
<1>6. CASE ~up /\ ~back /\ ~down
    BY <1>1, <1>2, <1>6, Zenon
<1>7. QED
    BY <1>3, <1>4, <1>5, <1>6

\* The mark follows the counter through one move of it.
LEMMA CountToTitle ==
    ASSUME TypeOK, TitleFollowsCount, NEW n, CountTo(n)
    PROVE  TitleFollowsCount'
<1>1. action_count_ \in Int /\ n \in Int /\ action_count_' = n
    BY DEF TypeOK, CountTo, ConstantsAssumption
<1>2. starred' = Told(action_count_, n, (action_count_ > 0))
    BY DEF CountTo, TitleFollowsCount
<1>3. QED
    BY <1>1, <1>2, ToldFollows DEF TitleFollowsCount

\* The mark follows the counter through every operation.
LEMMA TitleStep == Structure /\ TitleFollowsCount /\ [Next]_vars => TitleFollowsCount'
<1> SUFFICES ASSUME TypeOK, TitleFollowsCount, [Next]_vars
             PROVE  TitleFollowsCount'
    BY DEF Structure
<1>1. ASSUME NEW n, CountTo(n)
      PROVE  TitleFollowsCount'
    BY <1>1, CountToTitle
<1>2. CASE UNCHANGED counter
    BY <1>2 DEF counter, TitleFollowsCount
<1>3. ASSUME NEW outer, Added(outer)
      PROVE  TitleFollowsCount'
    BY <1>1, <1>2, <1>3 DEF Added
<1>4. ASSUME NEW k, MoveToRedo(k)
      PROVE  TitleFollowsCount'
    BY <1>1, <1>4 DEF MoveToRedo
<1>5. CASE Edit
    <2>1. ASSUME NEW d \in Docs, PerformAction(d)
          PROVE  TitleFollowsCount'
        BY <1>3, <2>1 DEF PerformAction
    <2>2. CASE BeginGroup
        BY <1>2, <2>2 DEF BeginGroup
    <2>3. ASSUME NEW k \in 0..MaxStack, CancelGroup(k)
          PROVE  TitleFollowsCount'
        BY <1>4, <2>3 DEF CancelGroup
    <2>4. CASE EndGroup
        BY <1>2, <1>3, <2>4 DEF EndGroup
    <2>5. QED
        BY <1>5, <2>1, <2>2, <2>3, <2>4 DEF Edit
<1>6. CASE Travel
    BY <1>1, <1>4, <1>6 DEF Travel, Undo, Redo
<1>7. CASE Manage
    <2>1. ASSUME NEW p \in 1..MaxStack, ToggleDone(p)
          PROVE  TitleFollowsCount'
        <3> DEFINE low == action_count_ - (Depth - p + 1)
        <3>1. action_count_ \in Int /\ low \in Int
            BY DEF TypeOK, Depth, ConstantsAssumption
        <3>2. /\ starred' = Told(low, action_count_, Told(action_count_, low, (action_count_ > 0)))
              /\ action_count_' = action_count_
            BY <2>1 DEF ToggleDone, TitleFollowsCount
        <3> HIDE DEF low
        <3>3. QED
            BY <3>1, <3>2, ToldFollows DEF TitleFollowsCount
    <2>2. ASSUME NEW k \in 0..MaxStack, ToggleAborted(k)
          PROVE  TitleFollowsCount'
        BY <1>4, <2>2 DEF ToggleAborted
    <2>3. CASE (\E i \in 1..MaxStack : ToggleUndone(i)) \/ ClearUndoStack \/ ClearRedoStack
        BY <1>2, <2>3 DEF ToggleUndone, ClearUndoStack, ClearRedoStack
    <2>4. QED
        BY <1>7, <2>1, <2>2, <2>3 DEF Manage
<1>8. ASSUME NEW ok \in BOOLEAN, Save(ok)
      PROVE  TitleFollowsCount'
    BY <1>8 DEF Save, TitleFollowsCount
<1>9. CASE UNCHANGED vars
    BY <1>2, <1>9 DEF vars
<1>10. QED
    BY <1>5, <1>6, <1>7, <1>8, <1>9 DEF Next

\* A sequence is empty when its length is zero.
LEMMA EmptyIsZero ==
    ASSUME NEW T, NEW s \in Seq(T)
    PROVE  /\ Len(s) \in Nat
           /\ s = <<>> <=> Len(s) = 0
    BY EmptySeq, LenProperties

\* MenusAgree in terms of lengths.
LEMMA MenusByLength ==
    ASSUME TypeOK
    PROVE  /\ Depth \in Nat /\ Len(redo_action_stack_) \in Nat
           /\ MenusAgree <=> /\ undo_status_ <=> Depth # 0
                             /\ redo_status_ <=> Len(redo_action_stack_) # 0
<1>1. /\ undo_action_stack_ \in Seq(Undoable) /\ redo_action_stack_ \in Seq(Undoable)
      /\ undo_status_ \in BOOLEAN /\ redo_status_ \in BOOLEAN
    BY DEF TypeOK
<1>2. /\ Depth \in Nat /\ Len(redo_action_stack_) \in Nat
      /\ undo_action_stack_ = <<>> <=> Depth = 0
      /\ redo_action_stack_ = <<>> <=> Len(redo_action_stack_) = 0
    BY <1>1, EmptyIsZero DEF Depth
<1>3. QED
    BY <1>1, <1>2, Zenon DEF MenusAgree

\* k actions moved to the redo stack: an action is on it afterwards unless
\* none was moved, and one is left on the undo stack unless all of them were.
LEMMA MenusMove ==
    ASSUME TypeOK, TypeOK', MenusAgree, NEW k \in 0..Depth, MoveToRedo(k)
    PROVE  MenusAgree'
<1> DEFINE n == Depth
           m == Len(redo_action_stack_)
           n1 == Len(undo_action_stack_')
           m1 == Len(redo_action_stack_')
<1>1. n1 = n - k /\ m1 = m + k
    BY MoveToRedoType DEF Depth
<1>2. /\ undo_status_' <=> undo_status_ /\ (k = 0 \/ n - k > 0)
      /\ redo_status_' <=> redo_status_ \/ (k > 0 /\ redo_action_stack_ = <<>>)
    BY DEF MoveToRedo
<1>3. /\ n \in Nat /\ m \in Nat
      /\ undo_status_ <=> n # 0
      /\ redo_status_ <=> m # 0
      /\ redo_action_stack_ = <<>> <=> m = 0
    BY MenusByLength, EmptyIsZero DEF TypeOK
<1> HIDE DEF n, m, n1, m1
<1>4. k \in Nat /\ k <= n
    BY <1>3 DEF n
<1>5. /\ (n # 0 /\ (k = 0 \/ n - k > 0)) <=> n1 # 0
      /\ (m # 0 \/ (k > 0 /\ m = 0)) <=> m1 # 0
    BY <1>1, <1>3, <1>4
<1>6. (undo_status_' <=> n1 # 0) /\ (redo_status_' <=> m1 # 0)
    BY <1>2, <1>3, <1>5, Zenon
<1>7. (undo_status_ <=> Depth # 0)' /\ (redo_status_ <=> Len(redo_action_stack_) # 0)'
    BY <1>6 DEF n1, m1, Depth
<1>8. QED
    BY <1>7, MenusByLength, PTL

\* perform_action signals that there is something to undo.
LEMMA MenusPerform ==
    ASSUME TypeOK, MenusAgree, NEW d \in Docs, PerformAction(d)
    PROVE  MenusAgree'
<1>1. undo_action_stack_ \in Seq(Undoable) /\ Done(doc, d) \in Undoable
    BY DEF TypeOK, Done, Undoable
<1>2. undo_action_stack_' # <<>>
    <2>1. Append(undo_action_stack_, Done(doc, d)) # <<>>
        BY <1>1, AppendProperties
    <2>2. QED
        BY <2>1 DEF PerformAction
<1>3. undo_status_' <=> undo_status_ \/ undo_action_stack_ = <<>>
    BY DEF PerformAction
<1>4. undo_status_' \in BOOLEAN
    BY DEF PerformAction
<1>5. undo_status_' = TRUE
    BY <1>3, <1>4, Zenon DEF MenusAgree
<1>6. redo_status_' = redo_status_ /\ redo_action_stack_' = redo_action_stack_
    BY DEF PerformAction
<1>7. QED
    BY <1>2, <1>5, <1>6, Zenon DEF MenusAgree

\* ~PassiveGrouper signals nothing: the undo stack was not and is not empty.
LEMMA MenusEnd ==
    ASSUME Structure, MenusAgree, EndGroup
    PROVE  MenusAgree'
<1>1. Grouped /\ UNCHANGED <<redo_action_stack_, undo_status_, redo_status_>>
    BY DEF EndGroup, status
<1>2. /\ undo_action_stack_ \in Seq(Undoable) /\ undo_action_stack_' \in Seq(Undoable)
      /\ Depth' = Depth - Front.depth + (IF Front.depth > 0 THEN 1 ELSE 0)
    BY <1>1, EndedStack DEF Structure, TypeOK
<1>3. Depth \in Nat /\ Front.depth \in Nat /\ Front.opened \in Nat /\ Front.opened + Front.depth = Depth
    BY <1>1, FrontFacts DEF Grouper
<1>4. Depth = 0 <=> Depth' = 0
    BY <1>2, <1>3
<1>5. undo_action_stack_' = <<>> <=> undo_action_stack_ = <<>>
    BY <1>2, <1>4, EmptyIsZero DEF Depth
<1>6. QED
    BY <1>1, <1>5, Zenon DEF MenusAgree

\* redo() signals both stacks.
LEMMA MenusRedo ==
    ASSUME TypeOK, TypeOK', MenusAgree, NEW d \in Docs, Redo(d)
    PROVE  MenusAgree'
<1> DEFINE r == Redone(Head(redo_action_stack_), Head(redo_action_stack_).active, doc, d)
<1>1. /\ undo_action_stack_' = Append(undo_action_stack_, r) /\ r \in Undoable
      /\ undo_action_stack_ \in Seq(Undoable)
      /\ Len(redo_action_stack_') = Len(redo_action_stack_) - 1
    BY RedoFacts DEF TypeOK
<1>2. undo_action_stack_' # <<>>
    <2> HIDE DEF r
    <2>1. QED
        BY <1>1, AppendProperties
<1>3. /\ undo_status_' \in BOOLEAN /\ redo_status_' \in BOOLEAN
      /\ undo_status_' <=> undo_status_ \/ undo_action_stack_ = <<>>
      /\ redo_status_' <=> redo_status_ /\ Len(redo_action_stack_) > 1
      /\ redo_action_stack_ # <<>>
    BY DEF Redo
<1>4. undo_status_' = TRUE
    BY <1>3, Zenon DEF MenusAgree
<1>5. /\ Len(redo_action_stack_) \in Nat /\ Len(redo_action_stack_) # 0
      /\ redo_action_stack_' = <<>> <=> Len(redo_action_stack_') = 0
    BY <1>3, EmptyIsZero DEF TypeOK
<1>6. Len(redo_action_stack_) > 1 <=> redo_action_stack_' # <<>>
    BY <1>1, <1>5
<1>7. redo_status_' = (redo_action_stack_' # <<>>)
    BY <1>3, <1>6, Zenon DEF MenusAgree
<1>8. QED
    BY <1>2, <1>4, <1>7, Zenon DEF MenusAgree

\* set_action_status ends with the stacks as high as they were.
LEMMA MenusToggleDone ==
    ASSUME TypeOK, TypeOK', MenusAgree, NEW p, ToggleDone(p)
    PROVE  MenusAgree'
<1>1. PICK D \in [p..(Depth + 1) -> Docs], A \in [p..Depth -> BOOLEAN] :
        undo_action_stack_' =
            [q \in 1..Depth |-> IF q < p THEN undo_action_stack_[q]
                                ELSE Redone(undo_action_stack_[q], A[q], D[q], D[q + 1])]
    BY DEF ToggleDone
<1>2. Depth' = Depth
    BY <1>1, ToggledStack
<1>3. Depth \in Nat /\ p \in 1..Depth
    BY DEF ToggleDone, TypeOK, Depth
<1>4. undo_action_stack_ # <<>> /\ undo_action_stack_' # <<>>
    BY <1>2, <1>3, EmptyIsZero DEF Depth, TypeOK
<1>5. /\ undo_status_' \in BOOLEAN /\ redo_status_' \in BOOLEAN
      /\ undo_status_' <=> undo_status_ \/ p = 1
      /\ redo_status_' <=> redo_status_ /\ redo_action_stack_ # <<>>
      /\ redo_action_stack_' = redo_action_stack_
    BY DEF ToggleDone
<1>6. undo_status_' = TRUE
    BY <1>4, <1>5, Zenon DEF MenusAgree
<1>7. redo_status_' = (redo_action_stack_' # <<>>)
    BY <1>5, Zenon DEF MenusAgree
<1>8. QED
    BY <1>4, <1>6, <1>7, Zenon DEF MenusAgree

\* Every operation keeps the menus in agreement with the stacks.
LEMMA MenusStep == Structure /\ Structure' /\ MenusAgree /\ [Next]_vars => MenusAgree'
<1> SUFFICES ASSUME Structure, Structure', MenusAgree, [Next]_vars
             PROVE  MenusAgree'
    OBVIOUS
<1>1. TypeOK /\ TypeOK'
    BY DEF Structure
<1>2. ASSUME UNCHANGED <<undo_action_stack_, redo_action_stack_, undo_status_, redo_status_>>
      PROVE  MenusAgree'
    BY <1>2 DEF MenusAgree
<1>3. ASSUME NEW d \in Docs, PerformAction(d)
      PROVE  MenusAgree'
    BY <1>1, <1>3, MenusPerform
<1>4. CASE BeginGroup \/ (\E ok \in BOOLEAN : Save(ok)) \/ UNCHANGED vars
    BY <1>2, <1>4 DEF BeginGroup, Save, vars, stacks, status
<1>5. ASSUME NEW k \in 0..MaxStack, CancelGroup(k)
      PROVE  MenusAgree'
    <2>1. MoveToRedo(k) /\ k \in 0..Front.depth /\ Grouped
        BY <1>1, <1>5 DEF CancelGroup, Grouped, TypeOK
    <2>2. k \in 0..Depth
        BY <2>1, FrontFacts DEF Grouper
    <2>3. QED
        BY <1>1, <2>1, <2>2, MenusMove
<1>6. CASE EndGroup
    BY <1>6, MenusEnd
<1>7. CASE Undo
    <2>1. 1 \in 0..Depth /\ MoveToRedo(1)
        BY <1>1, <1>7 DEF Undo, TypeOK, Depth
    <2>2. QED
        BY <1>1, <2>1, MenusMove
<1>8. ASSUME NEW d \in Docs, Redo(d)
      PROVE  MenusAgree'
    BY <1>1, <1>8, MenusRedo
<1>9. ASSUME NEW p \in 1..MaxStack, ToggleDone(p)
      PROVE  MenusAgree'
    BY <1>1, <1>9, MenusToggleDone
<1>10. ASSUME NEW k \in 0..MaxStack, ToggleAborted(k)
       PROVE  MenusAgree'
    <2>1. k \in 0..Depth /\ MoveToRedo(k)
        BY <1>1, <1>10 DEF ToggleAborted, TypeOK, Depth
    <2>2. QED
        BY <1>1, <2>1, MenusMove
<1>11. ASSUME NEW i \in 1..MaxStack, ToggleUndone(i)
       PROVE  MenusAgree'
    <2> DEFINE r == redo_action_stack_
               e == [r[i] EXCEPT !.active = ~@]
    <2>1. /\ i \in 1..Len(r) /\ r \in Seq(Undoable)
          /\ redo_action_stack_' = [r EXCEPT ![i] = e]
          /\ UNCHANGED <<undo_action_stack_, undo_status_, redo_status_>>
        BY <1>1, <1>11 DEF ToggleUndone, TypeOK, status
    <2>2. r[i] \in Undoable
        BY <2>1, ElementOfSeq
    <2>3. e \in Undoable
        BY <2>2 DEF Undoable
    <2> HIDE DEF r, e
    <2>4. Len(redo_action_stack_') = Len(r)
        BY <2>1, <2>3, ExceptSeq
    <2>5. redo_action_stack_' = <<>> <=> r = <<>>
        BY <1>1, <2>1, <2>4, EmptyIsZero DEF TypeOK
    <2>6. QED
        BY <2>1, <2>5, Zenon DEF MenusAgree, r
<1>12. CASE ClearUndoStack \/ ClearRedoStack
    BY <1>12, Zenon DEF ClearUndoStack, ClearRedoStack, MenusAgree
<1>13. QED
    BY <1>3, <1>4, <1>5, <1>6, <1>7, <1>8, <1>9, <1>10, <1>11, <1>12
    DEF Next, Edit, Travel, Manage

-----------------------------------------------------------------------------
\* CancelRestores follows from what a group owns and what it found.
LEMMA RestoresFromRecords == Structure /\ Records => CancelRestores
<1> SUFFICES ASSUME Structure, Records, Grouped, Front.depth = 0
             PROVE  doc = Front.found
    BY DEF CancelRestores
<1>1. Len(group_stack_) \in 1..Len(group_stack_) /\ Depth \in Nat /\ Front.opened = Depth
    BY FrontFacts DEF Grouper
<1>2. Front.found = DocBelow(undo_action_stack_, Depth + 1, doc)
    BY <1>1 DEF Records, GroupFound, Front
<1>3. undo_action_stack_ \in Seq(Undoable) /\ Depth = Len(undo_action_stack_)
    BY DEF Structure, TypeOK, Depth
<1>4. QED
    BY <1>1, <1>2, <1>3, DocBelowTop

\* The inductive invariant.
IInv == Structure /\ Records /\ MenusAgree /\ TitleFollowsCount

\* The invariant holds in a new document.
LEMMA InitIInv == Init => IInv
<1> SUFFICES ASSUME Init
             PROVE  IInv
    OBVIOUS
<1>1. MenusAgree
    BY DEF Init, MenusAgree
<1>2. TitleFollowsCount
    BY DEF Init, TitleFollowsCount
<1>3. QED
    BY <1>1, <1>2, StructureInit, RecordsInit DEF IInv

\* Every operation keeps the invariant.
LEMMA StepIInv == IInv /\ [Next]_vars => IInv'
<1> SUFFICES ASSUME IInv, [Next]_vars
             PROVE  IInv'
    OBVIOUS
<1>1. Structure'
    BY StructureStep DEF IInv
<1>2. Records'
    BY RecordsStep DEF IInv
<1>3. MenusAgree'
    BY <1>1, MenusStep DEF IInv
<1>4. TitleFollowsCount'
    BY TitleStep DEF IInv
<1>5. QED
    BY <1>1, <1>2, <1>3, <1>4 DEF IInv

\* The inductive invariant: what the groups own, what the actions recorded, what
\* the menus and what the titles show.
THEOREM Invariance == Spec => []IInv
BY InitIInv, StepIInv, PTL DEF Spec

(***************************************************************************)
(* Every operation leaves well-formed stacks: whatever is undone, redone,  *)
(* grouped or switched, an entry keeps its record of two documents, and    *)
(* depth_ never goes below zero.                                           *)
(***************************************************************************)
THEOREM TypeCorrect == Spec => []TypeOK
<1>1. IInv => TypeOK
    BY DEF IInv, Structure
<1>2. QED
    BY <1>1, Invariance, PTL

(***************************************************************************)
(* Nested PassiveGroupers partition the top of the undo stack, so that     *)
(* ~PassiveGrouper and cancel() take their own actions and no others.      *)
(***************************************************************************)
THEOREM GroupsPartition == Spec => []GroupDiscipline
<1>1. IInv => GroupDiscipline
    BY DEF IInv, Structure
<1>2. QED
    BY <1>1, Invariance, PTL

(***************************************************************************)
(* Undo is only ever applied in the document its action was recorded for,  *)
(* through any nesting of groups, any redo in a document the redone action *)
(* was not recorded for, and any switching of earlier actions.             *)
(***************************************************************************)
THEOREM UndoInRecordedDocument == Spec => []UndoChain
<1>1. IInv => UndoChain
    BY DEF IInv, Records
<1>2. QED
    BY <1>1, Invariance, PTL

(***************************************************************************)
(* A group that was cancelled back to nothing leaves the document it       *)
(* found, whatever groups were opened, filled and merged inside it.        *)
(***************************************************************************)
THEOREM CancelRestoresDocument == Spec => []CancelRestores
<1>1. IInv => CancelRestores
    BY RestoresFromRecords DEF IInv
<1>2. QED
    BY <1>1, Invariance, PTL

(***************************************************************************)
(* The menu items of studio::Instance follow the two stacks although       *)
(* System signals the changes of each, not their states.                   *)
(***************************************************************************)
THEOREM MenusFollowStacks == Spec => []MenusAgree
<1>1. IInv => MenusAgree
    BY DEF IInv
<1>2. QED
    BY <1>1, Invariance, PTL

(***************************************************************************)
(* The '*' of the titles follows the sign of the counter although a title  *)
(* is only redrawn when the counter passes 1, 0 or -1.                     *)
(***************************************************************************)
THEOREM TitleFollowsCounter == Spec => []TitleFollowsCount
<1>1. IInv => TitleFollowsCount
    BY DEF IInv
<1>2. QED
    BY <1>1, Invariance, PTL

-----------------------------------------------------------------------------
(***************************************************************************)
(* That ActionSystem implements EditHistory, for every set of documents    *)
(* and every bound: what undo() and redo() do to two stacks of actions is, *)
(* as far as the user sees it, a walk along a time line of documents.      *)
(*                                                                         *)
(* The documents of the mapping are functions of a stack and a document    *)
(* here, so that one lemma serves the states before and after a step.      *)
(***************************************************************************)

\* The document after the first k of the undone actions r, redone from d.
After(r, d, k) ==
    LET A == {q \in 1..k : r[q].active}
    IN  IF A = {} THEN d ELSE r[CHOOSE q \in A : \A p \in A : p <= q].new

\* Each of them finds the document it was recorded for.
Repeats(r, d, k) == \A q \in 1..k : r[q].active => r[q].old = After(r, d, q - 1)

Promised(r, d) ==
    LET K == {k \in 0..Len(r) : Repeats(r, d, k)}
    IN  [q \in 1..(CHOOSE k \in K : \A j \in K : j <= k) |-> After(r, d, q)]

\* From its entry k + 1 on, t holds the first n of r.
Holds(t, k, r, n) == \A q \in 1..n : t[k + q] = r[q]

Left(s, d) == [i \in 1..Len(s) |-> DocBelow(s, i, d)]

\* They are those of the mapping.
LEMMA Mapped ==
    /\ Past = Left(undo_action_stack_, doc)
    /\ Future = Promised(redo_action_stack_, doc)
<1>1. Past = Left(undo_action_stack_, doc)
    BY DEF Past, Left, Depth
<1>2. \A k : DocAfter(k) = After(redo_action_stack_, doc, k)
    BY DEF DocAfter, After
<1>3. \A k : Repeatable(k) = Repeats(redo_action_stack_, doc, k)
    BY <1>2 DEF Repeatable, Repeats
<1>4. {k \in 0..Len(redo_action_stack_) : Repeatable(k)}
        = {k \in 0..Len(redo_action_stack_) : Repeats(redo_action_stack_, doc, k)}
    BY <1>3
<1>5. QED
    BY <1>1, <1>2, <1>4 DEF Future, Promised

\* The same after a step.
LEMMA MappedNext ==
    /\ Past' = Left(undo_action_stack_', doc')
    /\ Future' = Promised(redo_action_stack_', doc')
<1>1. (/\ Past = Left(undo_action_stack_, doc)
       /\ Future = Promised(redo_action_stack_, doc))'
    BY Mapped, PTL
<1>2. QED
    BY <1>1

-----------------------------------------------------------------------------
(***************************************************************************)
(* The document after some of the undone actions.                          *)
(***************************************************************************)

\* None of them is active, or one is the last that is.
LEMMA AfterCases ==
    ASSUME NEW r, NEW k \in Nat
    PROVE  \/ \A q \in 1..k : ~r[q].active
           \/ \E q \in 1..k : r[q].active /\ \A p \in 1..k : r[p].active => p <= q
<1> DEFINE A == {q \in 1..k : r[q].active}
<1>1. CASE A = {}
    BY <1>1
<1>2. CASE A # {}
    <2>1. A \in SUBSET Nat /\ \A q \in A : q <= k
        OBVIOUS
    <2> HIDE DEF A
    <2>2. PICK q \in A : \A p \in A : p <= q
        BY <1>2, <2>1, HighestExists
    <2> USE DEF A
    <2>3. QED
        BY <2>2
<1>3. QED
    BY <1>1, <1>2

\* Inactive actions change nothing.
LEMMA AfterNone ==
    ASSUME NEW r, NEW d, NEW k, \A q \in 1..k : ~r[q].active
    PROVE  After(r, d, k) = d
BY DEF After

\* The last active one leaves the document it recorded.
LEMMA AfterLast ==
    ASSUME NEW r, NEW d, NEW k \in Nat, NEW q \in 1..k, r[q].active,
           \A p \in 1..k : r[p].active => p <= q
    PROVE  After(r, d, k) = r[q].new
<1> DEFINE A == {p \in 1..k : r[p].active}
<1> DEFINE c == CHOOSE x \in A : \A p \in A : p <= x
<1>1. q \in A /\ \A p \in A : p <= q
    OBVIOUS
<1>2. c \in A /\ \A p \in A : p <= c
    BY <1>1
<1>3. c = q
    BY <1>1, <1>2
<1>4. After(r, d, k) = r[c].new
    BY <1>1 DEF After
<1>5. QED
    BY <1>3, <1>4

\* After some actions come others: these go on where those have come to.
LEMMA AfterShift ==
    ASSUME NEW r, NEW t, NEW d, NEW e, NEW k \in Nat, NEW m \in Nat,
           Holds(t, k, r, m),
           After(t, e, k) = d
    PROVE  After(t, e, k + m) = After(r, d, m)
<1>1. k + m \in Nat /\ \A q \in 1..k : q \in 1..(k + m)
    OBVIOUS
<1>2. \A q \in 1..m : k + q \in 1..(k + m) /\ t[k + q] = r[q]
    BY DEF Holds
<1>3. CASE \A q \in 1..(k + m) : ~t[q].active
    <2>1. After(t, e, k + m) = e /\ After(t, e, k) = e
        BY <1>1, <1>3, AfterNone
    <2>2. \A q \in 1..m : ~r[q].active
        BY <1>2, <1>3
    <2>3. QED
        BY <2>1, <2>2, AfterNone
<1>4. ASSUME NEW q \in 1..(k + m), t[q].active,
             \A p \in 1..(k + m) : t[p].active => p <= q
      PROVE  After(t, e, k + m) = After(r, d, m)
    <2>1. After(t, e, k + m) = t[q].new
        BY <1>1, <1>4, AfterLast
    <2>2. CASE q <= k
        <3>1. q \in 1..k /\ \A p \in 1..k : t[p].active => p <= q
            BY <1>1, <1>4, <2>2
        <3>2. d = t[q].new
            BY <1>4, <3>1, AfterLast
        <3>3. \A p \in 1..m : ~r[p].active
            BY <1>2, <1>4, <2>2
        <3>4. QED
            BY <2>1, <3>2, <3>3, AfterNone
    <2>3. CASE ~(q <= k)
        <3>1. PICK p \in 1..m : q = k + p
            <4>1. q - k \in 1..m /\ q = k + (q - k)
                BY <2>3
            <4>2. QED
                BY <4>1
        <3>2. r[p].active /\ r[p].new = t[q].new
            BY <1>2, <1>4, <3>1
        <3>3. \A x \in 1..m : r[x].active => x <= p
            BY <1>2, <1>4, <3>1
        <3>4. After(r, d, m) = r[p].new
            BY <3>2, <3>3, AfterLast
        <3>5. QED
            BY <2>1, <3>2, <3>4
    <2>4. QED
        BY <2>2, <2>3
<1>5. QED
    BY <1>1, <1>3, <1>4, AfterCases

\* All of them too.
LEMMA AfterShiftAll ==
    ASSUME NEW r, NEW t, NEW d, NEW e, NEW k \in Nat, NEW n \in Nat,
           Holds(t, k, r, n), After(t, e, k) = d
    PROVE  \A q \in 1..n : After(t, e, k + q) = After(r, d, q)
<1> SUFFICES ASSUME NEW m \in Nat, m <= n
             PROVE  After(t, e, k + m) = After(r, d, m)
    OBVIOUS
<1>1. Holds(t, k, r, m)
    BY DEF Holds
<1>2. QED
    BY <1>1, AfterShift

\* The actions that come after others repeat there exactly when they repeat on
\* their own.
LEMMA RepeatsShift ==
    ASSUME NEW r, NEW t, NEW d, NEW e, NEW k \in Nat, NEW m \in Nat,
           Holds(t, k, r, m),
           After(t, e, k) = d, Repeats(t, e, k)
    PROVE  Repeats(t, e, k + m) <=> Repeats(r, d, m)
<1>1. \A q \in 1..m : After(t, e, k + q - 1) = After(r, d, q - 1)
    <2> TAKE q \in 1..m
    <2> DEFINE n == q - 1
    <2>1. n \in Nat /\ k + q - 1 = k + n /\ Holds(t, k, r, n)
        BY DEF Holds
    <2> HIDE DEF n
    <2>2. After(t, e, k + n) = After(r, d, n)
        BY <2>1, AfterShift
    <2>3. QED
        BY <2>1, <2>2 DEF n
<1>2. ASSUME Repeats(t, e, k + m) PROVE Repeats(r, d, m)
    <2> SUFFICES ASSUME NEW q \in 1..m, r[q].active
                 PROVE  r[q].old = After(r, d, q - 1)
        BY DEF Repeats
    <2>1. k + q \in 1..(k + m) /\ t[k + q] = r[q]
        BY DEF Holds
    <2>2. t[k + q].old = After(t, e, k + q - 1)
        BY <1>2, <2>1 DEF Repeats
    <2>3. QED
        BY <1>1, <2>1, <2>2
<1>3. ASSUME Repeats(r, d, m) PROVE Repeats(t, e, k + m)
    <2> SUFFICES ASSUME NEW p \in 1..(k + m), t[p].active
                 PROVE  t[p].old = After(t, e, p - 1)
        BY DEF Repeats
    <2>1. CASE p <= k
        <3>1. p \in 1..k
            BY <2>1
        <3>2. QED
            BY <3>1 DEF Repeats
    <2>2. CASE ~(p <= k)
        <3>1. PICK q \in 1..m : p = k + q
            <4>1. p - k \in 1..m /\ p = k + (p - k)
                BY <2>2
            <4>2. QED
                BY <4>1
        <3>2. t[p] = r[q] /\ r[q].old = After(r, d, q - 1)
            BY <1>3, <3>1 DEF Repeats, Holds
        <3>3. QED
            BY <1>1, <3>1, <3>2
    <2>3. QED
        BY <2>1, <2>2
<1>4. QED
    BY <1>2, <1>3

-----------------------------------------------------------------------------
(***************************************************************************)
(* The longest run of undone actions that repeat what they did.            *)
(***************************************************************************)

\* A run that cannot be longer is the longest.
LEMMA PromisedIs ==
    ASSUME NEW r, NEW d, Len(r) \in Nat, NEW n \in 0..Len(r), Repeats(r, d, n),
           \A j \in 0..Len(r) : Repeats(r, d, j) => j <= n
    PROVE  Promised(r, d) = [q \in 1..n |-> After(r, d, q)]
<1> DEFINE K == {k \in 0..Len(r) : Repeats(r, d, k)}
<1> DEFINE c == CHOOSE k \in K : \A j \in K : j <= k
<1>1. n \in K /\ \A j \in K : j <= n
    OBVIOUS
<1>2. c \in K /\ \A j \in K : j <= c
    BY <1>1
<1>3. c = n
    <2>1. c \in Nat /\ n \in Nat
        BY <1>1, <1>2
    <2>2. c <= n /\ n <= c
        BY <1>1, <1>2
    <2>3. QED
        BY <2>1, <2>2
<1>4. Promised(r, d) = [q \in 1..c |-> After(r, d, q)]
    BY DEF Promised
<1>5. QED
    BY <1>3, <1>4

\* There is a longest one.
LEMMA PromisedLength ==
    ASSUME NEW r, NEW d, Len(r) \in Nat
    PROVE  \E n \in 0..Len(r) :
              /\ Repeats(r, d, n)
              /\ \A j \in 0..Len(r) : Repeats(r, d, j) => j <= n
<1> DEFINE K == {k \in 0..Len(r) : Repeats(r, d, k)}
<1>1. Repeats(r, d, 0)
    BY DEF Repeats
<1>2. 0 \in K /\ K \in SUBSET Nat /\ \A k \in K : k <= Len(r)
    BY <1>1
<1> HIDE DEF K
<1>3. PICK n \in K : \A j \in K : j <= n
    BY <1>2, HighestExists
<1> USE DEF K
<1>4. QED
    BY <1>3

\* What is promised are documents.
LEMMA PromisedType ==
    ASSUME NEW r \in Seq(Undoable), NEW d \in Docs
    PROVE  Promised(r, d) \in Seq(Docs)
<1>1. Len(r) \in Nat /\ \A q \in 1..Len(r) : r[q] \in Undoable
    BY ElementOfSeq
<1>2. PICK n \in 0..Len(r) :
         Repeats(r, d, n) /\ \A j \in 0..Len(r) : Repeats(r, d, j) => j <= n
    BY <1>1, PromisedLength
<1>3. Promised(r, d) = [q \in 1..n |-> After(r, d, q)]
    BY <1>1, <1>2, PromisedIs
<1>4. \A q \in 1..n : After(r, d, q) \in Docs
    <2> TAKE q \in 1..n
    <2>1. q \in Nat
        OBVIOUS
    <2>2. CASE \A p \in 1..q : ~r[p].active
        BY <2>2, AfterNone
    <2>3. ASSUME NEW p \in 1..q, r[p].active, \A x \in 1..q : r[x].active => x <= p
          PROVE  After(r, d, q) \in Docs
        <3>1. After(r, d, q) = r[p].new
            BY <2>1, <2>3, AfterLast
        <3>2. r[p] \in Undoable
            BY <1>1
        <3>3. QED
            BY <3>1, <3>2 DEF Undoable
    <2>4. QED
        BY <2>1, <2>2, <2>3, AfterCases
<1>5. n \in Nat
    BY <1>1
<1>6. QED
    BY <1>3, <1>4, <1>5

\* Actions that repeat, before others: the promise of all of them.
LEMMA PromisedShift ==
    ASSUME NEW r, NEW t, NEW d, NEW e, NEW k \in Nat,
           Len(r) \in Nat, Len(t) = k + Len(r),
           Holds(t, k, r, Len(r)),
           After(t, e, k) = d, Repeats(t, e, k)
    PROVE  \E n \in Nat :
              /\ Promised(r, d) = [q \in 1..n |-> After(r, d, q)]
              /\ Promised(t, e) = [q \in 1..(k + n) |-> After(t, e, q)]
              /\ \A q \in 1..n : After(t, e, k + q) = After(r, d, q)
<1>1. PICK n \in Nat :
         /\ n \in 0..Len(r) /\ Repeats(r, d, n)
         /\ \A j \in 0..Len(r) : Repeats(r, d, j) => j <= n
    <2>1. PICK n \in 0..Len(r) :
             Repeats(r, d, n) /\ \A j \in 0..Len(r) : Repeats(r, d, j) => j <= n
        BY PromisedLength
    <2>2. QED
        BY <2>1
<1>2. Promised(r, d) = [q \in 1..n |-> After(r, d, q)]
    BY <1>1, PromisedIs
<1>3. \A m \in 0..Len(r) : Repeats(t, e, k + m) <=> Repeats(r, d, m)
    <2> TAKE m \in 0..Len(r)
    <2>1. m \in Nat /\ Holds(t, k, r, m)
        BY DEF Holds
    <2>2. QED
        BY <2>1, RepeatsShift
<1>4. k + n \in 0..Len(t) /\ Repeats(t, e, k + n) /\ Len(t) \in Nat
    BY <1>1, <1>3
<1>5. \A j \in 0..Len(t) : Repeats(t, e, j) => j <= k + n
    <2> TAKE j \in 0..Len(t)
    <2>1. CASE j <= k
        BY <2>1
    <2>2. CASE ~(j <= k)
        <3>1. j - k \in 0..Len(r) /\ j = k + (j - k)
            BY <2>2
        <3>2. PICK m \in 0..Len(r) : j = k + m
            BY <3>1
        <3>3. Repeats(t, e, j) => m <= n
            BY <1>1, <1>3, <3>2
        <3>4. QED
            BY <3>2, <3>3
    <2>3. QED
        BY <2>1, <2>2
<1>6. Promised(t, e) = [q \in 1..(k + n) |-> After(t, e, q)]
    <2> DEFINE l == k + n
    <2>1. l \in 0..Len(t) /\ Repeats(t, e, l) /\ \A j \in 0..Len(t) : Repeats(t, e, j) => j <= l
        BY <1>4, <1>5
    <2> HIDE DEF l
    <2>2. Promised(t, e) = [q \in 1..l |-> After(t, e, q)]
        BY <1>4, <2>1, PromisedIs
    <2>3. QED
        BY <2>2 DEF l
<1>7. \A q \in 1..n : After(t, e, k + q) = After(r, d, q)
    <2>1. n \in Nat /\ k \in Nat /\ After(t, e, k) = d /\ Holds(t, k, r, n)
        BY <1>1 DEF Holds
    <2>2. QED
        BY ONLY <2>1, AfterShiftAll
<1>9. QED
    BY ONLY <1>2, <1>6, <1>7

-----------------------------------------------------------------------------
(***************************************************************************)
(* The documents Undo goes back to.                                        *)
(***************************************************************************)

\* What is on the left of the time line are documents.
LEMMA LeftType ==
    ASSUME NEW s \in Seq(Undoable), NEW d \in Docs
    PROVE  Left(s, d) \in Seq(Docs) /\ Len(Left(s, d)) = Len(s)
<1>1. Len(s) \in Nat /\ \A i \in 1..Len(s) : DocBelow(s, i, d) \in Docs
    <2>1. \A i \in 1..Len(s) : i \in Nat \ {0}
        OBVIOUS
    <2>2. QED
        BY <2>1, DocBelowType
<1>2. QED
    BY <1>1 DEF Left

\* An action more, that was done where the time line was.
LEMMA LeftAppend ==
    ASSUME NEW s \in Seq(Undoable), NEW x \in Undoable, NEW d \in Docs, NEW e \in Docs,
           IF x.active THEN x.old = d ELSE e = d
    PROVE  Left(Append(s, x), e) = Append(Left(s, d), d)
<1> DEFINE t == Append(s, x)
<1>1. t \in Seq(Undoable) /\ Len(t) = Len(s) + 1 /\ Len(s) \in Nat
    BY AppendProperties
<1>2. (IF x.active THEN x.old ELSE e) = d
    OBVIOUS
<1>3. \A i \in 1..(Len(s) + 1) : DocBelow(t, i, e) = DocBelow(s, i, d)
    BY <1>2, DocBelowAppend
<1>4. DocBelow(s, Len(s) + 1, d) = d
    BY <1>1, DocBelowTop
<1> HIDE DEF t
<1>5. Left(t, e) = [i \in 1..(Len(s) + 1) |-> DocBelow(s, i, d)]
    BY <1>1, <1>3 DEF Left
<1>6. Left(s, d) \in Seq(Docs) /\ Len(Left(s, d)) = Len(s)
    BY LeftType
<1> DEFINE u == Append(Left(s, d), d)
<1>7. /\ u \in Seq(Docs) /\ Len(u) = Len(s) + 1
      /\ \A i \in 1..Len(s) : u[i] = Left(s, d)[i]
      /\ u[Len(s) + 1] = d
    BY <1>6, AppendProperties
<1> HIDE DEF u
<1>8. \A i \in 1..Len(s) : Left(s, d)[i] = DocBelow(s, i, d)
    BY DEF Left
<1>9. \A i \in 1..(Len(s) + 1) : u[i] = DocBelow(s, i, d)
    <2> TAKE i \in 1..(Len(s) + 1)
    <2>1. i \in 1..Len(s) \/ i = Len(s) + 1
        BY <1>1
    <2>2. QED
        BY <1>4, <1>7, <1>8, <2>1
<1>10. Left(t, e) \in Seq(Docs) /\ Len(Left(t, e)) = Len(s) + 1
    BY <1>1, LeftType
<1>11. \A i \in 1..(Len(s) + 1) : Left(t, e)[i] = u[i]
    BY <1>5, <1>9
<1>12. Left(t, e) = u
    BY <1>7, <1>10, <1>11, SeqEqual
<1>13. QED
    BY <1>12 DEF t, u

\* A beginning of it, where two stacks read the same.
LEMMA LeftCut ==
    ASSUME NEW s \in Seq(Undoable), NEW t \in Seq(Undoable), NEW d \in Docs, NEW e \in Docs,
           NEW n \in 0..Len(s), Len(t) = n,
           \A i \in 1..n : DocBelow(t, i, e) = DocBelow(s, i, d)
    PROVE  Left(t, e) = SubSeq(Left(s, d), 1, n)
<1>1. Left(s, d) \in Seq(Docs) /\ Len(Left(s, d)) = Len(s) /\ Len(s) \in Nat /\ n \in Nat
    BY LeftType
<1>2. \A i \in 1..n : Left(s, d)[i] = DocBelow(s, i, d)
    BY <1>1 DEF Left
<1>3. Left(t, e) = [i \in 1..n |-> Left(s, d)[i]]
    BY <1>2 DEF Left
<1>4. /\ SubSeq(Left(s, d), 1, n) \in Seq(Docs) /\ Len(SubSeq(Left(s, d), 1, n)) = n
      /\ \A i \in 1..n : SubSeq(Left(s, d), 1, n)[i] = Left(s, d)[i]
    BY <1>1, PartFacts
<1>5. Left(t, e) \in Seq(Docs) /\ Len(Left(t, e)) = n
    BY LeftType
<1>6. \A i \in 1..n : Left(t, e)[i] = Left(s, d)[i]
    BY <1>3
<1>7. QED
    BY <1>4, <1>5, <1>6, SeqEqual

-----------------------------------------------------------------------------
(***************************************************************************)
(* What undo_ puts on the redo stack can be redone.                        *)
(***************************************************************************)

\* An active action left the document the one above it found (UndoChain).
Chain(s, d) == \A i \in 1..Len(s) : s[i].active => s[i].new = DocBelow(s, i + 1, d)

\* Inactive actions have the same document below and above them.
LEMMA DocBelowSkip ==
    ASSUME NEW s, NEW d, NEW i \in Nat, NEW m \in Nat, i <= m,
           \A q \in i..(m - 1) : ~s[q].active
    PROVE  DocBelow(s, i, d) = DocBelow(s, m, d)
<1>1. ActiveFrom(s, i) = ActiveFrom(s, m)
    <2>1. ASSUME NEW q \in i..Len(s), s[q].active PROVE q \in m..Len(s)
        <3>1. ~(q \in i..(m - 1))
            BY <2>1
        <3>2. QED
            BY <3>1
    <2>2. \A q \in m..Len(s) : q \in i..Len(s)
        OBVIOUS
    <2>3. QED
        BY <2>1, <2>2 DEF ActiveFrom
<1>2. QED
    BY <1>1 DEF DocBelow

\* After the first j of the undone ones the document is the one that was below
\* those above them.
LEMMA BackAfter ==
    ASSUME NEW s \in Seq(Undoable), NEW d \in Docs, Chain(s, d),
           NEW n \in Nat, NEW l \in Nat, n + l = Len(s),
           NEW t, Holds(s, n, t, l), NEW j \in 0..l
    PROVE  After(t, DocBelow(s, n + 1, d), j) = DocBelow(s, n + j + 1, d)
<1> DEFINE b == DocBelow(s, n + 1, d)
<1>1. j \in Nat /\ \A q \in 1..j : t[q] = s[n + q] /\ n + q \in 1..Len(s)
    BY DEF Holds
<1>2. CASE \A q \in 1..j : ~t[q].active
    <2>1. After(t, b, j) = b
        BY <1>2, AfterNone
    <2>2. \A x \in (n + 1)..(n + j + 1 - 1) : ~s[x].active
        <3> TAKE x \in (n + 1)..(n + j + 1 - 1)
        <3>1. x - n \in 1..j /\ n + (x - n) = x
            BY <1>1
        <3>2. t[x - n] = s[n + (x - n)] /\ ~t[x - n].active
            BY <1>1, <1>2, <3>1
        <3>3. QED
            BY <3>1, <3>2
    <2>3. n + 1 \in Nat /\ n + j + 1 \in Nat /\ n + 1 <= n + j + 1
        BY <1>1
    <2>4. b = DocBelow(s, n + j + 1, d)
        BY <2>2, <2>3, DocBelowSkip
    <2>5. QED
        BY <2>1, <2>4
<1>3. ASSUME NEW q \in 1..j, t[q].active, \A p \in 1..j : t[p].active => p <= q
      PROVE  After(t, b, j) = DocBelow(s, n + j + 1, d)
    <2>1. After(t, b, j) = t[q].new
        BY <1>1, <1>3, AfterLast
    <2>2. s[n + q].new = DocBelow(s, n + q + 1, d)
        BY <1>1, <1>3 DEF Chain
    <2>3. \A x \in (n + q + 1)..(n + j + 1 - 1) : ~s[x].active
        <3> TAKE x \in (n + q + 1)..(n + j + 1 - 1)
        <3>1. x - n \in 1..j /\ n + (x - n) = x /\ ~(x - n <= q)
            BY <1>1
        <3>2. t[x - n] = s[n + (x - n)] /\ ~t[x - n].active
            BY <1>1, <1>3, <3>1
        <3>3. QED
            BY <3>1, <3>2
    <2>4. n + q + 1 \in Nat /\ n + j + 1 \in Nat /\ n + q + 1 <= n + j + 1
        BY <1>1
    <2>5. DocBelow(s, n + q + 1, d) = DocBelow(s, n + j + 1, d)
        BY <2>3, <2>4, DocBelowSkip
    <2>6. QED
        BY <1>1, <2>1, <2>2, <2>5
<1>4. \/ \A q \in 1..j : ~t[q].active
      \/ \E q \in 1..j : t[q].active /\ \A p \in 1..j : t[p].active => p <= q
    <2>1. j \in Nat
        BY <1>1
    <2>2. QED
        BY ONLY <2>1, AfterCases
<1>5. QED
    BY ONLY <1>2, <1>3, <1>4

\* Each finds the document it was recorded for.
LEMMA BackRepeats ==
    ASSUME NEW s \in Seq(Undoable), NEW d \in Docs, Chain(s, d),
           NEW n \in Nat, NEW l \in Nat, n + l = Len(s),
           NEW t, Holds(s, n, t, l)
    PROVE  Repeats(t, DocBelow(s, n + 1, d), l)
<1> SUFFICES ASSUME NEW q \in 1..l, t[q].active
             PROVE  t[q].old = After(t, DocBelow(s, n + 1, d), q - 1)
    BY DEF Repeats
<1> DEFINE j == q - 1
<1>1. j \in 0..l /\ n + j + 1 = n + q /\ n + q \in 1..Len(s) /\ t[q] = s[n + q]
    BY DEF Holds
<1> HIDE DEF j
<1>2. After(t, DocBelow(s, n + 1, d), j) = DocBelow(s, n + j + 1, d)
    BY <1>1, BackAfter
<1>3. DocBelow(s, n + q, d) = s[n + q].old
    BY <1>1, DocBelowStep
<1>4. QED
    BY <1>1, <1>2, <1>3 DEF j

-----------------------------------------------------------------------------
(***************************************************************************)
(* Each operation is a step of the time line, or none.                     *)
(***************************************************************************)
HistoryStep ==
    \/ History!Next
    \/ UNCHANGED <<Past, doc, Future, Len(redo_action_stack_), saved_doc>>

\* What the mapping of the time line is before and after a step.
LEMMA TimelineType ==
    ASSUME Structure, Structure'
    PROVE  /\ doc \in Docs /\ doc' \in Docs
           /\ undo_action_stack_ \in Seq(Undoable) /\ undo_action_stack_' \in Seq(Undoable)
           /\ redo_action_stack_ \in Seq(Undoable) /\ redo_action_stack_' \in Seq(Undoable)
           /\ Depth = Len(undo_action_stack_) /\ Depth \in Nat
           /\ Len(redo_action_stack_) \in Nat
           /\ Past \in Seq(Docs) /\ Past' \in Seq(Docs)
           /\ Len(Past) = Depth /\ Len(Past') = Len(undo_action_stack_')
           /\ Future \in Seq(Docs) /\ Future' \in Seq(Docs)
<1>1. /\ doc \in Docs /\ doc' \in Docs
      /\ undo_action_stack_ \in Seq(Undoable) /\ undo_action_stack_' \in Seq(Undoable)
      /\ redo_action_stack_ \in Seq(Undoable) /\ redo_action_stack_' \in Seq(Undoable)
      /\ Depth = Len(undo_action_stack_)
    BY DEF Structure, TypeOK, Depth
<1>2. Past \in Seq(Docs) /\ Len(Past) = Depth
    BY <1>1, Mapped, LeftType
<1>3. Past' \in Seq(Docs) /\ Len(Past') = Len(undo_action_stack_')
    BY <1>1, MappedNext, LeftType
<1>4. Future \in Seq(Docs)
    BY <1>1, Mapped, PromisedType
<1>5. Future' \in Seq(Docs)
    BY <1>1, MappedNext, PromisedType
<1>6. QED
    BY <1>1, <1>2, <1>3, <1>4, <1>5

\* Nothing the user sees has changed.
LEMMA HistoryStays ==
    ASSUME UNCHANGED <<doc, stacks, saved_doc>>
    PROVE  HistoryStep
<1>1. UNCHANGED <<doc, undo_action_stack_, redo_action_stack_, saved_doc>>
    BY DEF stacks
<1>2. Past' = Past /\ Future' = Future
    BY <1>1, Mapped, MappedNext
<1>3. QED
    BY <1>1, <1>2 DEF HistoryStep

\* perform_action is new work, in a group or not.
LEMMA HistoryPerform ==
    ASSUME Structure, Structure', NEW d \in Docs, PerformAction(d)
    PROVE  HistoryStep
<1>1. /\ doc' = d /\ undo_action_stack_' = Append(undo_action_stack_, Done(doc, d))
      /\ UNCHANGED <<redo_action_stack_, saved_doc>>
    BY DEF PerformAction
<1>2. Done(doc, d) \in Undoable /\ Done(doc, d).active /\ Done(doc, d).old = doc
    BY TimelineType DEF Done, Undoable
<1>3. Past' = Append(Past, doc)
    <2> DEFINE x == Done(doc, d)
    <2>1. x \in Undoable /\ (IF x.active THEN x.old = doc ELSE d = doc)
        BY <1>2
    <2> HIDE DEF x
    <2>2. Left(Append(undo_action_stack_, x), d) = Append(Left(undo_action_stack_, doc), doc)
        BY <2>1, TimelineType, LeftAppend
    <2>3. QED
        BY <1>1, <2>2, Mapped, MappedNext DEF x
<1>4. History!Do
    BY <1>1, <1>3, TimelineType DEF History!Do, History!Venture
<1>5. QED
    BY <1>4 DEF HistoryStep, History!Next

\* undo_ of k actions: back over as many changes.
LEMMA HistoryMove ==
    ASSUME Structure, Structure', Records, NEW k \in 0..Depth, MoveToRedo(k), UNCHANGED saved_doc
    PROVE  HistoryStep
<1> DEFINE s == undo_action_stack_
           r == redo_action_stack_
           t == redo_action_stack_'
           n == Depth - k
           b == DocBelow(s, n + 1, doc)
<1>1. /\ s \in Seq(Undoable) /\ r \in Seq(Undoable) /\ t \in Seq(Undoable)
      /\ Depth = Len(s) /\ Len(s) \in Nat /\ Len(r) \in Nat
      /\ doc \in Docs /\ doc' \in Docs
    BY TimelineType
<1>2. n \in Nat /\ n + k = Len(s) /\ n \in 0..Len(s) /\ k \in Nat
    BY <1>1
<1>3. /\ doc' = b
      /\ undo_action_stack_' = SubSeq(s, 1, n)
      /\ t = SubSeq(s, n + 1, Len(s)) \o r
    BY DEF MoveToRedo, Depth
<1>4. Chain(s, doc)
    BY <1>1 DEF Records, UndoChain, Chain
<1>5. \A i \in 1..n : DocBelow(undo_action_stack_', i, doc') = DocBelow(s, i, doc)
    <2>1. Depth' = n
        BY RecordsMove
    <2>2. \A i \in 1..(n + 1) : DocBelow(undo_action_stack_', i, doc') = DocBelow(s, i, doc)
        BY <2>1, RecordsMove
    <2>3. QED
        BY <1>2, <2>2
<1> HIDE DEF n, s, r, t, b
<1>6. /\ SubSeq(s, 1, n) \in Seq(Undoable) /\ Len(SubSeq(s, 1, n)) = n
      /\ SubSeq(s, n + 1, Len(s)) \in Seq(Undoable)
      /\ Len(SubSeq(s, n + 1, Len(s))) = k
      /\ \A i \in 1..k : SubSeq(s, n + 1, Len(s))[i] = s[n + i]
    <2>1. Len(s) - n = k
        BY <1>1, <1>2
    <2>2. QED
        BY <1>1, <1>2, <2>1, PartFacts
<1>7. /\ Len(t) = k + Len(r)
      /\ \A i \in 1..k : t[i] = s[n + i]
      /\ \A i \in 1..Len(r) : t[k + i] = r[i]
    <2> DEFINE top == SubSeq(s, n + 1, Len(s))
    <2>1. top \in Seq(Undoable) /\ Len(top) = k /\ \A i \in 1..k : top[i] = s[n + i]
        BY <1>6
    <2>2. t = top \o r
        BY <1>3
    <2> HIDE DEF top
    <2>3. /\ Len(t) = k + Len(r)
          /\ \A i \in 1..(k + Len(r)) : t[i] = IF i <= k THEN top[i] ELSE r[i - k]
        BY <1>1, <2>1, <2>2, ConcatProperties
    <2> DEFINE m == Len(r)
    <2>4. m \in Nat /\ \A i \in 1..(k + m) : t[i] = IF i <= k THEN top[i] ELSE r[i - k]
        BY <1>1, <2>3
    <2> HIDE DEF m
    <2>5. \A i \in 1..k : t[i] = top[i]
        <3>1. \A i \in 1..k : i \in 1..(k + m) /\ i <= k
            BY <1>2, <2>4
        <3>2. QED
            BY <2>4, <3>1
    <2>6. \A i \in 1..m : t[k + i] = r[i]
        <3>1. \A i \in 1..m : k + i \in 1..(k + m) /\ ~(k + i <= k) /\ (k + i) - k = i
            BY <1>2, <2>4
        <3>2. QED
            BY <2>4, <3>1
    <2>7. QED
        BY <2>1, <2>3, <2>5, <2>6 DEF m
<1>8. Holds(s, n, t, k) /\ Holds(t, k, r, Len(r))
    BY <1>7 DEF Holds
<1>9. \A j \in 0..k : After(t, b, j) = DocBelow(s, n + j + 1, doc)
    BY <1>1, <1>2, <1>4, <1>8, BackAfter DEF b
<1>10. Repeats(t, b, k)
    BY <1>1, <1>2, <1>4, <1>8, BackRepeats DEF b
<1>11. After(t, b, k) = doc
    <2>1. k \in 0..k /\ n + k + 1 = Len(s) + 1
        BY <1>2
    <2>2. QED
        BY <1>1, <1>9, <2>1, DocBelowTop
<1>12. PICK m \in Nat :
          /\ Promised(r, doc) = [q \in 1..m |-> After(r, doc, q)]
          /\ Promised(t, b) = [q \in 1..(k + m) |-> After(t, b, q)]
          /\ \A q \in 1..m : After(t, b, k + q) = After(r, doc, q)
    <2>1. k \in Nat /\ Len(r) \in Nat /\ Len(t) = k + Len(r)
        BY <1>1, <1>2, <1>7
    <2>2. QED
        BY ONLY <2>1, <1>8, <1>10, <1>11, PromisedShift
<1>13. /\ Past = Left(s, doc) /\ Past' = Left(undo_action_stack_', b)
       /\ Future = Promised(r, doc) /\ Future' = Promised(t, b)
    BY <1>3, Mapped, MappedNext DEF s, r, t
<1>14. CASE k = 0
    <2>1. TypeOK /\ MoveToRedo(0)
        BY <1>14 DEF Structure
    <2>2. QED
        BY <2>1, MoveNone, HistoryStays DEF stacks
<1>15. CASE k > 0
    <2>1. Past \in Seq(Docs) /\ Len(Past) = Len(s) /\ Future \in Seq(Docs) /\ Future' \in Seq(Docs)
        BY <1>1, TimelineType
    <2>2. \A i \in 1..Len(s) : Past[i] = DocBelow(s, i, doc)
        BY <1>13 DEF Left
    <2>3. Past' = SubSeq(Past, 1, n)
        <3>1. undo_action_stack_' \in Seq(Undoable) /\ Len(undo_action_stack_') = n
            BY <1>3, <1>6
        <3>2. Left(undo_action_stack_', doc') = SubSeq(Left(s, doc), 1, n)
            BY <1>1, <1>2, <1>5, <3>1, LeftCut
        <3>3. QED
            BY <1>3, <1>13, <3>2
    <2>4. n + 1 \in 1..Len(s) /\ doc' = Past[n + 1]
        <3>1. n + 1 \in 1..Len(s)
            BY <1>2, <1>15
        <3>2. QED
            BY <1>3, <2>2, <3>1 DEF b
    <2>5. Future' = SubSeq(Past, n + 2, Len(Past)) \o <<doc>> \o Future
        <3> DEFINE between == SubSeq(Past, n + 2, Len(Past))
                   mid == between \o <<doc>>
                   l == k - 1
        <3>1. l \in Nat /\ l = Len(s) - (n + 1) /\ l + 1 = k
            BY <1>2, <1>15
        <3>2. between \in Seq(Docs) /\ Len(between) = l /\ \A i \in 1..l : between[i] = Past[(n + 1) + i]
            <4> DEFINE v == n + 1
            <4>1. v \in 0..Len(Past) /\ v + 1 = n + 2 /\ Len(Past) - v = l
                BY <1>1, <1>2, <2>1, <2>4, <3>1
            <4> HIDE DEF v, l
            <4>2. /\ SubSeq(Past, v + 1, Len(Past)) \in Seq(Docs)
                  /\ Len(SubSeq(Past, v + 1, Len(Past))) = Len(Past) - v
                  /\ \A i \in 1..(Len(Past) - v) : SubSeq(Past, v + 1, Len(Past))[i] = Past[v + i]
                BY <2>1, <4>1, PartFacts
            <4>3. QED
                BY <4>1, <4>2 DEF v
        <3> HIDE DEF between, l
        <3>3. <<doc>> \in Seq(Docs) /\ Len(<<doc>>) = 1 /\ <<doc>>[1] = doc
            BY <1>1
        <3>4. mid \in Seq(Docs) /\ Len(mid) = k
              /\ \A i \in 1..k : mid[i] = IF i <= l THEN between[i] ELSE doc
            <4> DEFINE one == <<doc>>
            <4> HIDE DEF one
            <4>1. one \in Seq(Docs) /\ Len(one) = 1 /\ one[1] = doc
                BY <3>3 DEF one
            <4>2. between \in Seq(Docs) /\ Len(between) = l
                BY <3>2
            <4>3. /\ between \o one \in Seq(Docs) /\ Len(between \o one) = Len(between) + Len(one)
                  /\ \A i \in 1..(Len(between) + Len(one)) : (between \o one)[i] =
                        IF i <= Len(between) THEN between[i] ELSE one[i - Len(between)]
                BY <4>1, <4>2, ConcatProperties
            <4>4. /\ between \o one \in Seq(Docs) /\ Len(between \o one) = l + 1
                  /\ \A i \in 1..(l + 1) : (between \o one)[i] = IF i <= l THEN between[i] ELSE one[i - l]
                BY <4>1, <4>2, <4>3
            <4>5. \A i \in 1..(l + 1) : ~(i <= l) => i - l = 1
                BY <3>1
            <4>6. QED
                BY <3>1, <4>1, <4>4, <4>5 DEF one
        <3> HIDE DEF mid
        <3>5. \A i \in 1..k : mid[i] = After(t, b, i)
            <4> TAKE i \in 1..k
            <4>1. i \in 0..k /\ After(t, b, i) = DocBelow(s, n + i + 1, doc)
                BY <1>2, <1>9
            <4>2. CASE i <= l
                <5>1. i \in 1..l /\ (n + 1) + i = n + i + 1 /\ n + i + 1 \in 1..Len(s)
                    BY <1>2, <3>1, <4>2
                <5>2. QED
                    BY <2>2, <3>2, <3>4, <4>1, <4>2, <5>1
            <4>3. CASE ~(i <= l)
                <5>1. i = k
                    BY <1>2, <3>1, <4>3
                <5>2. QED
                    BY <1>11, <3>4, <4>3, <5>1
            <4>4. QED
                BY <4>2, <4>3
        <3>6. Len(Future) = m /\ \A q \in 1..m : Future[q] = After(r, doc, q)
            BY <1>12, <1>13
        <3>7. Len(Future') = k + m /\ \A q \in 1..(k + m) : Future'[q] = After(t, b, q)
            BY <1>2, <1>12, <1>13
        <3> DEFINE f == Future
                   g == Future'
        <3>8. f \in Seq(Docs) /\ g \in Seq(Docs) /\ Len(f) = m /\ Len(g) = k + m
            BY <2>1, <3>6, <3>7
        <3>9. \A q \in 1..m : f[q] = After(r, doc, q)
            BY <3>6
        <3>10. \A q \in 1..(k + m) : g[q] = After(t, b, q)
            BY <3>7
        <3> HIDE DEF f, g
        <3>11. /\ mid \o f \in Seq(Docs) /\ Len(mid \o f) = k + m
               /\ \A i \in 1..(k + m) : (mid \o f)[i] = IF i <= k THEN mid[i] ELSE f[i - k]
            BY <3>4, <3>8, ConcatProperties
        <3> DEFINE w == mid \o f
        <3>12. /\ w \in Seq(Docs) /\ Len(w) = k + m
               /\ \A i \in 1..(k + m) : w[i] = IF i <= k THEN mid[i] ELSE f[i - k]
            BY <3>11
        <3> HIDE DEF w
        <3>13. \A i \in 1..(k + m) : w[i] = g[i]
            <4> TAKE i \in 1..(k + m)
            <4>1. CASE i <= k
                <5>1. i \in 1..k
                    BY <1>2, <4>1
                <5>2. QED
                    BY <3>5, <3>10, <3>12, <4>1, <5>1
            <4>2. CASE ~(i <= k)
                <5>1. i - k \in 1..m /\ k + (i - k) = i
                    BY <1>2, <4>2
                <5>2. After(t, b, k + (i - k)) = After(r, doc, i - k)
                    BY <1>12, <5>1
                <5>3. QED
                    BY <3>9, <3>10, <3>12, <4>2, <5>1, <5>2
            <4>3. QED
                BY <4>1, <4>2
        <3>14. w = g
            BY <3>8, <3>12, <3>13, SeqEqual
        <3>15. QED
            BY <3>14 DEF w, g, f, mid, between
    <2>6. Len(redo_action_stack_') = Len(redo_action_stack_) + k
        BY <1>1, <1>2, <1>7 DEF r, t
    <2>7. n = Len(Past) - k /\ k \in 1..Len(Past)
        BY <1>1, <1>2, <1>15, <2>1
    <2>8. History!Back(k)
        BY <2>3, <2>4, <2>5, <2>6, <2>7 DEF History!Back
    <2>9. QED
        BY <2>7, <2>8 DEF HistoryStep, History!Next
<1>16. QED
    BY <1>2, <1>14, <1>15

\* redo() goes forward, to the document promised if there is a promise.
LEMMA HistoryRedo ==
    ASSUME Structure, Structure', NEW d \in Docs, Redo(d)
    PROVE  HistoryStep
<1> DEFINE s == undo_action_stack_
           r == redo_action_stack_
           t == redo_action_stack_'
           e == Head(redo_action_stack_)
           x == Redone(e, e.active, doc, d)
<1>1. /\ s \in Seq(Undoable) /\ r \in Seq(Undoable) /\ t \in Seq(Undoable)
      /\ Len(r) \in Nat /\ Len(t) \in Nat /\ doc \in Docs
    BY TimelineType
<1>2. /\ e \in Undoable /\ x \in Undoable
      /\ undo_action_stack_' = Append(s, x)
      /\ Len(t) = Len(r) - 1
    BY RedoFacts DEF Structure
<1>3. r # <<>> /\ t = Tail(r) /\ doc' = d /\ Redoes(e, e.active, doc, d) /\ saved_doc' = saved_doc
    BY DEF Redo
<1>4. /\ r[1] = e /\ 1 \in 1..Len(r)
      /\ \A i \in 1..Len(t) : t[i] = r[i + 1]
    <2>1. Len(r) \in Nat \ {0}
        BY <1>1, <1>3, EmptySeq
    <2>2. \A i \in 1..Len(Tail(r)) : Tail(r)[i] = r[i + 1]
        BY <1>1, <1>3, HeadTailProperties
    <2>3. QED
        BY <1>1, <1>3, <2>1, <2>2
<1>5. /\ Past = Left(s, doc) /\ Past' = Left(Append(s, x), d)
      /\ Future = Promised(r, doc) /\ Future' = Promised(t, d)
    BY <1>2, <1>3, Mapped, MappedNext
<1>6. Past' = Append(Past, doc)
    <2>1. IF x.active THEN x.old = doc ELSE d = doc
        <3>1. CASE e.active
            BY <3>1 DEF Redone, Done
        <3>2. CASE ~e.active
            BY <1>2, <1>3, <3>2 DEF Redone, Redoes, Undoable
        <3>3. QED
            BY <3>1, <3>2
    <2> HIDE DEF x, s
    <2>2. QED
        BY <1>1, <1>2, <1>5, <2>1, LeftAppend
<1>7. Len(redo_action_stack_') = Len(redo_action_stack_) - 1 /\ Len(redo_action_stack_) > 0
    BY <1>1, <1>2
<1>8. CASE ~e.active \/ e.old = doc
    <2>1. After(r, doc, 1) = d
        <3>1. CASE e.active
            <4>1. 1 \in 1..1 /\ r[1].active /\ \A p \in 1..1 : r[p].active => p <= 1
                BY <1>4, <3>1
            <4>2. After(r, doc, 1) = r[1].new
                BY <4>1, AfterLast
            <4>3. QED
                BY <1>3, <1>4, <1>8, <3>1, <4>2 DEF Redoes
        <3>2. CASE ~e.active
            <4>1. \A q \in 1..1 : ~r[q].active
                BY <1>4, <3>2
            <4>2. After(r, doc, 1) = doc
                BY <4>1, AfterNone
            <4>3. QED
                BY <1>3, <3>2, <4>2 DEF Redoes
        <3>3. QED
            BY <3>1, <3>2
    <2>2. Repeats(r, doc, 1)
        <3>1. After(r, doc, 0) = doc
            BY AfterNone
        <3>2. \A q \in 1..1 : q = 1 /\ q - 1 = 0
            OBVIOUS
        <3>3. QED
            BY <1>4, <1>8, <3>1, <3>2 DEF Repeats
    <2>3. Holds(r, 1, t, Len(t)) /\ Len(r) = 1 + Len(t)
        <3>1. \A q \in 1..Len(t) : 1 + q = q + 1
            BY <1>1
        <3>2. QED
            BY <1>1, <1>2, <1>4, <3>1 DEF Holds
    <2>4. PICK m \in Nat :
              /\ Promised(t, d) = [q \in 1..m |-> After(t, d, q)]
              /\ Promised(r, doc) = [q \in 1..(1 + m) |-> After(r, doc, q)]
              /\ \A q \in 1..m : After(r, doc, 1 + q) = After(t, d, q)
        <3>1. 1 \in Nat /\ Len(t) \in Nat
            BY <1>1
        <3> HIDE DEF r, t
        <3>2. QED
            BY ONLY <2>1, <2>2, <2>3, <3>1, PromisedShift
    <2> DEFINE f == Future
               g == Future'
    <2>5. f \in Seq(Docs) /\ g \in Seq(Docs) /\ Len(f) = 1 + m /\ Len(g) = m
        BY <1>5, <2>4, TimelineType
    <2>6. \A q \in 1..(1 + m) : f[q] = After(r, doc, q)
        BY <1>5, <2>4
    <2>7. \A q \in 1..m : g[q] = After(t, d, q)
        BY <1>5, <2>4
    <2> HIDE DEF f, g, r, t, e, x, s
    <2>8. f # <<>> /\ Head(f) = d
        <3>1. Len(f) # 0 /\ 1 \in 1..(1 + m)
            BY <2>5
        <3>2. f # <<>>
            BY <3>1
        <3>3. Head(f) = f[1]
            BY <2>5, <3>2
        <3>4. QED
            BY <2>1, <2>6, <3>1, <3>2, <3>3
    <2>9. Tail(f) = g
        <3>1. /\ Tail(f) \in Seq(Docs) /\ Len(Tail(f)) = Len(f) - 1
              /\ \A i \in 1..Len(Tail(f)) : Tail(f)[i] = f[i + 1]
            BY <2>5, <2>8, HeadTailProperties
        <3>2. Len(Tail(f)) = m
            BY <2>5, <3>1
        <3>3. \A q \in 1..m : Tail(f)[q] = g[q]
            <4> TAKE q \in 1..m
            <4>1. q + 1 = 1 + q /\ 1 + q \in 1..(1 + m)
                OBVIOUS
            <4>2. f[1 + q] = After(r, doc, 1 + q)
                BY <2>6, <4>1
            <4>3. After(r, doc, 1 + q) = g[q]
                BY <2>4, <2>7
            <4>4. Tail(f)[q] = f[1 + q]
                BY <3>1, <3>2, <4>1
            <4>5. QED
                BY <4>2, <4>3, <4>4
        <3>4. QED
            BY <2>5, <3>1, <3>2, <3>3, SeqEqual
    <2>10. History!Forward
        BY <1>3, <1>6, <1>7, <2>8, <2>9 DEF History!Forward, f, g
    <2>11. QED
        BY <2>10 DEF HistoryStep, History!Next
<1>9. CASE e.active /\ e.old # doc
    <2>1. \A j \in 0..Len(r) : Repeats(r, doc, j) => j <= 0
        <3> SUFFICES ASSUME NEW j \in 0..Len(r), Repeats(r, doc, j), ~(j <= 0)
                     PROVE  FALSE
            OBVIOUS
        <3>1. 1 \in 1..j /\ 1 - 1 = 0
            BY <1>1
        <3>2. r[1].old = After(r, doc, 0)
            BY <1>4, <1>9, <3>1 DEF Repeats
        <3>3. After(r, doc, 0) = doc
            BY AfterNone
        <3>4. QED
            BY <1>4, <1>9, <3>2, <3>3
    <2>2. Repeats(r, doc, 0) /\ 0 \in 0..Len(r)
        BY <1>1 DEF Repeats
    <2>3. Promised(r, doc) = [q \in 1..0 |-> After(r, doc, q)]
        <3> HIDE DEF r
        <3>1. Len(r) \in Nat
            BY <1>1
        <3>2. QED
            BY ONLY <2>1, <2>2, <3>1, PromisedIs
    <2>4. Future = <<>>
        BY <1>5, <2>3
    <2>5. History!ForwardElsewhere
        BY <1>3, <1>6, <1>7, <2>4, TimelineType DEF History!ForwardElsewhere, History!Venture
    <2>6. QED
        BY <2>5 DEF HistoryStep, History!Next
<1>10. QED
    BY <1>8, <1>9

\* ~PassiveGrouper forgets the documents between its actions.
LEMMA HistoryEnd ==
    ASSUME Structure, Structure', Records, EndGroup
    PROVE  HistoryStep
<1> DEFINE s == undo_action_stack_
           n == Front.opened + 1
<1>1. doc' = doc /\ redo_action_stack_' = redo_action_stack_ /\ saved_doc' = saved_doc /\ Grouped
    BY DEF EndGroup
<1>2. CASE Front.depth > 0
    <2>1. n \in 1..Depth /\ Len(undo_action_stack_') = n
        <3>1. /\ Front.opened \in Nat /\ Front.depth \in Nat /\ Depth \in Nat
              /\ Front.opened + Front.depth = Depth
            BY <1>1, FrontFacts DEF Grouper
        <3>2. Depth' = Depth - Front.depth + 1
            BY <1>1, <1>2, EndedStack
        <3> DEFINE o == Front.opened
                   z == Front.depth
        <3> HIDE DEF o, z
        <3>3. o \in Nat /\ z \in Nat /\ Depth \in Nat /\ o + z = Depth /\ z > 0 /\ Depth' = Depth - z + 1
            BY <1>2, <3>1, <3>2 DEF o, z
        <3>4. o + 1 \in 1..Depth /\ Depth' = o + 1
            BY ONLY <3>3
        <3>5. QED
            BY <3>4 DEF o, Depth
    <2>2. \A i \in 1..n : DocBelow(undo_action_stack_', i, doc') = DocBelow(s, i, doc)
        BY EndedRecords
    <2> HIDE DEF n
    <2>3. Left(undo_action_stack_', doc') = SubSeq(Left(s, doc), 1, n)
        <3>1. n \in 0..Len(s)
            BY <2>1, TimelineType
        <3>2. QED
            BY <2>1, <2>2, <3>1, TimelineType, LeftCut
    <2>4. Past' = SubSeq(Past, 1, n)
        BY <2>3, Mapped, MappedNext
    <2>5. Future' = Future
        BY <1>1, Mapped, MappedNext
    <2>6. n \in 1..Len(Past) /\ n \in 0..Len(Past)
        BY <2>1, TimelineType
    <2>7. History!Merge(n)
        BY <1>1, <2>4, <2>5, <2>6 DEF History!Merge
    <2>8. QED
        BY <2>6, <2>7 DEF HistoryStep, History!Next
<1>3. CASE ~(Front.depth > 0)
    <2>1. ~(Front.depth > 1)
        BY <1>1, <1>3, FrontFacts DEF Grouper
    <2>2. undo_action_stack_' = undo_action_stack_
        BY <2>1 DEF EndGroup
    <2>3. QED
        BY <1>1, <2>2, HistoryStays DEF stacks
<1>4. QED
    BY <1>2, <1>3

\* set_action_status of a done action keeps the documents before it.
LEMMA HistoryToggleDone ==
    ASSUME Structure, Structure', Records, NEW p, ToggleDone(p)
    PROVE  HistoryStep
<1>1. p \in 1..Depth /\ redo_action_stack_' = redo_action_stack_ /\ saved_doc' = saved_doc
    BY DEF ToggleDone
<1>2. Len(undo_action_stack_') = Depth
    <2>1. PICK D \in [p..(Depth + 1) -> Docs], A \in [p..Depth -> BOOLEAN] :
            undo_action_stack_' =
                [q \in 1..Depth |-> IF q < p THEN undo_action_stack_[q]
                                    ELSE Redone(undo_action_stack_[q], A[q], D[q], D[q + 1])]
        BY DEF ToggleDone
    <2>2. TypeOK
        BY DEF Structure
    <2>3. Depth' = Depth
        BY <2>1, <2>2, ToggledStack
    <2>4. QED
        BY <2>3 DEF Depth
<1> DEFINE n == p - 1
<1>3. n \in Nat /\ n \in 0..Depth /\ \A i \in 1..n : i \in 1..p /\ i \in 1..Depth
    BY <1>1, TimelineType
<1> HIDE DEF n
<1>4. \A i \in 1..n : DocBelow(undo_action_stack_', i, doc') = DocBelow(undo_action_stack_, i, doc)
    BY <1>3, ToggledRecords
<1> DEFINE a == Past
           b == Past'
<1>5. /\ a \in Seq(Docs) /\ b \in Seq(Docs) /\ Len(a) = Depth /\ Len(b) = Depth
      /\ n \in 0..Len(a) /\ n \in 0..Len(b)
    BY <1>2, <1>3, TimelineType
<1>6. \A i \in 1..n : b[i] = a[i]
    <2>1. \A i \in 1..n : a[i] = DocBelow(undo_action_stack_, i, doc)
        BY <1>3, Mapped, TimelineType DEF Left
    <2>2. \A i \in 1..n : b[i] = DocBelow(undo_action_stack_', i, doc')
        BY <1>2, <1>3, MappedNext DEF Left
    <2>3. QED
        BY <1>4, <2>1, <2>2
<1> HIDE DEF a, b
<1>7. SubSeq(b, 1, n) = SubSeq(a, 1, n)
    <2>1. /\ SubSeq(a, 1, n) \in Seq(Docs) /\ Len(SubSeq(a, 1, n)) = n
          /\ \A i \in 1..n : SubSeq(a, 1, n)[i] = a[i]
        BY <1>5, PartFacts
    <2>2. /\ SubSeq(b, 1, n) \in Seq(Docs) /\ Len(SubSeq(b, 1, n)) = n
          /\ \A i \in 1..n : SubSeq(b, 1, n)[i] = b[i]
        BY <1>5, PartFacts
    <2>3. QED
        BY <1>6, <2>1, <2>2, SeqEqual
<1>8. History!Rewrite(n)
    BY <1>1, <1>5, <1>7, TimelineType DEF History!Rewrite, a, b
<1>9. n \in 0..Len(Past)
    BY <1>5 DEF a
<1>10. QED
    BY <1>8, <1>9 DEF HistoryStep, History!Next

\* set_action_status of an undone action only changes what is promised.
LEMMA HistoryToggleUndone ==
    ASSUME Structure, Structure', NEW i, ToggleUndone(i)
    PROVE  HistoryStep
<1>1. /\ UNCHANGED <<doc, undo_action_stack_, saved_doc>>
      /\ Len(redo_action_stack_') = Len(redo_action_stack_)
    <2>1. redo_action_stack_ \in Seq(Undoable)
        BY TimelineType
    <2>2. QED
        BY <2>1 DEF ToggleUndone
<1>2. Past' = Past
    BY <1>1, Mapped, MappedNext
<1>3. Len(Past) \in 0..Len(Past)
    BY TimelineType
<1>4. History!Rewrite(Len(Past))
    BY <1>1, <1>2, <1>3, TimelineType DEF History!Rewrite
<1>5. QED
    BY <1>3, <1>4 DEF HistoryStep, History!Next

\* An empty stack shows nothing.
LEMMA NothingLeft ==
    ASSUME NEW d
    PROVE  Left(<<>>, d) = <<>> /\ Promised(<<>>, d) = <<>>
<1>1. Left(<<>>, d) = <<>>
    BY DEF Left
<1> DEFINE r == <<>>
<1>2. Len(r) = 0 /\ Len(r) \in Nat /\ 0 \in 0..Len(r)
      /\ \A j \in 0..Len(r) : j <= 0
    OBVIOUS
<1>3. Repeats(r, d, 0)
    BY DEF Repeats
<1> HIDE DEF r
<1>4. Promised(r, d) = [q \in 1..0 |-> After(r, d, q)]
    BY <1>2, <1>3, PromisedIs
<1>5. QED
    BY <1>1, <1>4 DEF r

\* The list of what was done is cleared.
LEMMA HistoryClearUndo ==
    ASSUME ClearUndoStack
    PROVE  HistoryStep
<1>1. /\ UNCHANGED <<doc, redo_action_stack_, saved_doc>>
      /\ undo_action_stack_' = <<>>
    BY DEF ClearUndoStack
<1>2. Past' = <<>> /\ Future' = Future
    BY <1>1, Mapped, MappedNext, NothingLeft
<1>3. History!ForgetPast
    BY <1>1, <1>2 DEF History!ForgetPast
<1>4. QED
    BY <1>3 DEF HistoryStep, History!Next

\* The list of what was undone is cleared.
LEMMA HistoryClearRedo ==
    ASSUME ClearRedoStack
    PROVE  HistoryStep
<1>1. /\ UNCHANGED <<doc, undo_action_stack_, saved_doc>>
      /\ redo_action_stack_' = <<>>
    BY DEF ClearRedoStack
<1>2. Past' = Past /\ Future' = <<>> /\ Len(redo_action_stack_') = 0
    BY <1>1, Mapped, MappedNext, NothingLeft
<1>3. History!ForgetFuture
    BY <1>1, <1>2 DEF History!ForgetFuture
<1>4. QED
    BY <1>3 DEF HistoryStep, History!Next

\* Saving moves nothing.
LEMMA HistorySave ==
    ASSUME NEW ok \in BOOLEAN, Save(ok)
    PROVE  HistoryStep
<1>1. UNCHANGED <<doc, undo_action_stack_, redo_action_stack_>>
    BY DEF Save, stacks
<1>2. Past' = Past /\ Future' = Future
    BY <1>1, Mapped, MappedNext
<1>3. CASE ok
    <2>1. History!Save
        BY <1>1, <1>2, <1>3 DEF Save, History!Save, History!timeline
    <2>2. QED
        BY <2>1 DEF HistoryStep, History!Next
<1>4. CASE ~ok
    BY <1>1, <1>2, <1>4 DEF Save, HistoryStep
<1>5. QED
    BY <1>3, <1>4

\* Every step of the action system is one of the time line.
LEMMA HistoryEachStep ==
    ASSUME Structure, Structure', Records, [Next]_vars
    PROVE  HistoryStep
<1>1. ASSUME NEW d \in Docs, PerformAction(d) PROVE HistoryStep
    BY <1>1, HistoryPerform
<1>2. CASE BeginGroup
    BY <1>2, HistoryStays DEF BeginGroup
<1>3. ASSUME NEW k, CancelGroup(k) PROVE HistoryStep
    <2>1. k \in 0..Depth /\ MoveToRedo(k) /\ saved_doc' = saved_doc
        <3>1. Grouped
            <4>1. Len(group_stack_) # Len(<<>>)
                BY <1>3 DEF CancelGroup
            <4>2. group_stack_ # <<>>
                BY <4>1, Zenon
            <4>3. QED
                BY <4>2 DEF Grouped
        <3>2. /\ Front.opened \in Nat /\ Front.depth \in Nat /\ Depth \in Nat
              /\ Front.opened + Front.depth = Depth
            BY <3>1, FrontFacts DEF Grouper
        <3>3. k \in 0..Front.depth
            BY <1>3 DEF CancelGroup
        <3> DEFINE o == Front.opened
                   z == Front.depth
        <3> HIDE DEF o, z
        <3>4. o \in Nat /\ z \in Nat /\ Depth \in Nat /\ o + z = Depth /\ k \in 0..z
            BY <3>2, <3>3 DEF o, z
        <3>5. k \in 0..Depth
            BY ONLY <3>4
        <3>6. QED
            BY <1>3, <3>5 DEF CancelGroup
    <2>2. QED
        BY <2>1, HistoryMove
<1>4. CASE EndGroup
    BY <1>4, HistoryEnd
<1>5. CASE Undo
    <2>1. 1 \in 0..Depth /\ MoveToRedo(1) /\ saved_doc' = saved_doc
        BY <1>5, TimelineType DEF Undo
    <2>2. QED
        BY <2>1, HistoryMove
<1>6. ASSUME NEW d \in Docs, Redo(d) PROVE HistoryStep
    BY <1>6, HistoryRedo
<1>7. ASSUME NEW p, ToggleDone(p) PROVE HistoryStep
    BY <1>7, HistoryToggleDone
<1>8. ASSUME NEW k, ToggleAborted(k) PROVE HistoryStep
    <2>1. k \in 0..Depth /\ MoveToRedo(k) /\ saved_doc' = saved_doc
        BY <1>8, TimelineType DEF ToggleAborted
    <2>2. QED
        BY <2>1, HistoryMove
<1>9. ASSUME NEW i, ToggleUndone(i) PROVE HistoryStep
    BY <1>9, HistoryToggleUndone
<1>10. CASE ClearUndoStack
    BY <1>10, HistoryClearUndo
<1>11. CASE ClearRedoStack
    BY <1>11, HistoryClearRedo
<1>12. ASSUME NEW ok \in BOOLEAN, Save(ok) PROVE HistoryStep
    BY <1>12, HistorySave
<1>13. CASE UNCHANGED vars
    BY <1>13, HistoryStays DEF vars
<1>14. QED
    BY <1>1, <1>2, <1>3, <1>4, <1>5, <1>6, <1>7, <1>8, <1>9, <1>10, <1>11, <1>12, <1>13
    DEF Next, Edit, Travel, Manage

\* A document is opened without a history.
LEMMA HistoryInit == Init => History!Init
<1> SUFFICES ASSUME Init
             PROVE  History!Init
    OBVIOUS
<1>1. Past = <<>> /\ Future = <<>> /\ Len(redo_action_stack_) = 0
    BY Mapped, NothingLeft DEF Init
<1>2. doc \in Docs /\ saved_doc \in Docs
    BY DEF Init
<1>3. QED
    BY <1>1, <1>2 DEF History!Init

-----------------------------------------------------------------------------
(***************************************************************************)
(* The undo and redo stacks of a document, with their groups, inactive     *)
(* entries and recorded documents, are an editing history: Undo returns to *)
(* the documents that were left, and Redo after it to where Undo was done. *)
(***************************************************************************)
THEOREM Implements == Spec => ImplementsHistory
<1>1. Init => History!Init
    BY HistoryInit
<1>2. IInv /\ IInv' /\ [Next]_vars => [History!Next]_<<History!timeline, saved_doc>>
    <2> SUFFICES ASSUME IInv, IInv', [Next]_vars
                 PROVE  [History!Next]_<<History!timeline, saved_doc>>
        OBVIOUS
    <2>1. HistoryStep
        BY HistoryEachStep DEF IInv
    <2>2. QED
        BY <2>1 DEF HistoryStep, History!timeline
<1>3. QED
    BY <1>1, <1>2, Invariance, PTL DEF Spec, ImplementsHistory, History!Spec

-----------------------------------------------------------------------------
(***************************************************************************)
(* The rows of the history window, for any documents and any number of     *)
(* actions and groups: patched after some signals and rebuilt after        *)
(* others, they are the rows of the two stacks.                            *)
(***************************************************************************)

UndoRows == [action : Undoable, is_undo : {TRUE}]
RedoRows == [action : Undoable, is_undo : {FALSE}]
AllRows == [action : Undoable, is_undo : BOOLEAN]

\* What the window shows of the undo stack: nothing of a group that has not ended.
Ended == IF Grouped THEN SubSeq(undo_action_stack_, 1, group_stack_[1].opened)
         ELSE undo_action_stack_

\* The rows are some rows of actions taken to be done, and below them those of
\* the redo stack.
RowsShow(U) ==
    /\ rows = U \o Rows(redo_action_stack_, FALSE)
    /\ early = 0 => U = Rows(Ended, TRUE)

TreeInv == early \in Nat /\ \E U \in Seq(UndoRows) : RowsShow(U)

-----------------------------------------------------------------------------
(***************************************************************************)
(* The rows of a stack.                                                    *)
(***************************************************************************)

\* A function from 1 on is a sequence.
LEMMA FunctionIsSeq ==
    ASSUME NEW S, NEW n \in Nat, NEW f \in [1..n -> S]
    PROVE  f \in Seq(S)
OBVIOUS

\* They are as many, and each shows its action.
LEMMA RowsFacts ==
    ASSUME NEW s \in Seq(Undoable)
    PROVE  /\ Len(s) \in Nat
           /\ Rows(s, TRUE) \in Seq(UndoRows) /\ Rows(s, FALSE) \in Seq(RedoRows)
           /\ \A b : Len(Rows(s, b)) = Len(s) /\ \A i \in 1..Len(s) : Rows(s, b)[i] = Row(s[i], b)
<1>1. Len(s) \in Nat /\ \A i \in 1..Len(s) : s[i] \in Undoable
    BY ElementOfSeq
<1>2. /\ \A i \in 1..Len(s) : Row(s[i], TRUE) \in UndoRows
      /\ \A i \in 1..Len(s) : Row(s[i], FALSE) \in RedoRows
    BY <1>1 DEF Row, UndoRows, RedoRows
<1> DEFINE l == Len(s)
<1> HIDE DEF l
<1>3. l \in Nat /\ l = Len(s)
    BY <1>1 DEF l
<1>4. Rows(s, TRUE) \in Seq(UndoRows)
    <2>1. Rows(s, TRUE) \in [1..l -> UndoRows]
        BY <1>2, <1>3 DEF Rows
    <2>2. QED
        BY <1>3, <2>1, FunctionIsSeq
<1>5. Rows(s, FALSE) \in Seq(RedoRows)
    <2>1. Rows(s, FALSE) \in [1..l -> RedoRows]
        BY <1>2, <1>3 DEF Rows
    <2>2. QED
        BY <1>3, <2>1, FunctionIsSeq
<1>6. ASSUME NEW b
      PROVE  Len(Rows(s, b)) = Len(s) /\ \A i \in 1..Len(s) : Rows(s, b)[i] = Row(s[i], b)
    BY <1>3 DEF Rows
<1>7. QED
    BY <1>1, <1>4, <1>5, <1>6

\* Rows w are those of U, of done actions, and then those of R, of undone ones.
Joined(w, U, R) ==
    /\ w \in Seq(AllRows)
    /\ Len(U) \in Nat /\ Len(R) \in Nat /\ Len(w) = Len(U) + Len(R)
    /\ \A i \in 1..Len(U) : w[i] = U[i] /\ w[i].is_undo = TRUE
    /\ \A i \in 1..Len(R) : w[Len(U) + i] = R[i] /\ w[Len(U) + i].is_undo = FALSE

\* One after the other, they are joined.
LEMMA JoinFacts ==
    ASSUME NEW U \in Seq(UndoRows), NEW R \in Seq(RedoRows)
    PROVE  Joined(U \o R, U, R)
<1>1. UndoRows \subseteq AllRows /\ RedoRows \subseteq AllRows
    BY DEF UndoRows, RedoRows, AllRows
<1>2. U \in Seq(AllRows) /\ R \in Seq(AllRows)
    BY <1>1, SeqMonotonic
<1>3. /\ U \o R \in Seq(AllRows) /\ Len(U \o R) = Len(U) + Len(R)
      /\ \A i \in 1..(Len(U) + Len(R)) : (U \o R)[i] = IF i <= Len(U) THEN U[i] ELSE R[i - Len(U)]
    BY <1>2, ConcatProperties
<1>4. /\ Len(U) \in Nat /\ Len(R) \in Nat
      /\ \A i \in 1..Len(U) : U[i].is_undo = TRUE
      /\ \A i \in 1..Len(R) : R[i].is_undo = FALSE
    <2>1. \A i \in 1..Len(U) : U[i] \in UndoRows
        BY ElementOfSeq
    <2>2. \A i \in 1..Len(R) : R[i] \in RedoRows
        BY ElementOfSeq
    <2>3. \A x \in UndoRows : x.is_undo = TRUE
        BY DEF UndoRows
    <2>4. \A x \in RedoRows : x.is_undo = FALSE
        BY DEF RedoRows
    <2>5. Len(U) \in Nat /\ Len(R) \in Nat
        OBVIOUS
    <2>6. QED
        BY ONLY <2>1, <2>2, <2>3, <2>4, <2>5
<1> DEFINE w == U \o R
           n == Len(U)
           m == Len(R)
<1>5. /\ n \in Nat /\ m \in Nat
      /\ \A i \in 1..(n + m) : w[i] = IF i <= n THEN U[i] ELSE R[i - n]
    BY <1>3, <1>4
<1> HIDE DEF w, n, m
<1>6. \A i \in 1..n : w[i] = U[i]
    <2>1. \A i \in 1..n : i \in 1..(n + m) /\ i <= n
        BY <1>5
    <2>2. QED
        BY <1>5, <2>1
<1>7. \A i \in 1..m : w[n + i] = R[i]
    <2>1. \A i \in 1..m : n + i \in 1..(n + m) /\ ~(n + i <= n) /\ (n + i) - n = i
        BY <1>5
    <2>2. QED
        BY <1>5, <2>1
<1>8. QED
    BY <1>3, <1>4, <1>6, <1>7 DEF w, n, m, Joined

\* The first of the undone ones comes after the done ones.
LEMMA FirstRedoIs ==
    ASSUME NEW U \in Seq(UndoRows), NEW R \in Seq(RedoRows)
    PROVE  FirstRedoRow(U \o R) = Len(U) + 1
<1> DEFINE w == U \o R
           n == Len(U)
           m == Len(R)
           Good(i) == /\ i <= Len(w) => ~w[i].is_undo
                      /\ \A j \in 1..(i - 1) : w[j].is_undo
<1>1. /\ n \in Nat /\ m \in Nat /\ Len(w) = n + m
      /\ \A i \in 1..n : w[i].is_undo
      /\ \A i \in 1..m : ~w[n + i].is_undo
    <2>1. Joined(w, U, R)
        BY JoinFacts
    <2> HIDE DEF w
    <2>2. QED
        BY <2>1 DEF Joined
<1> HIDE DEF w, n, m
<1>2. n + 1 \in 1..(Len(w) + 1) /\ Good(n + 1)
    <2>1. n + 1 <= Len(w) => 1 \in 1..m
        BY <1>1
    <2>2. n + 1 - 1 = n
        BY <1>1
    <2>3. n + 1 \in 1..(Len(w) + 1)
        BY <1>1
    <2>4. QED
        BY <1>1, <2>1, <2>2, <2>3
<1>3. ASSUME NEW i \in 1..(Len(w) + 1), Good(i) PROVE i = n + 1
    <2>1. ~(i <= n)
        <3> SUFFICES ASSUME i <= n PROVE FALSE
            OBVIOUS
        <3>1. i \in 1..n /\ i <= Len(w)
            BY <1>1
        <3>2. QED
            BY <1>1, <1>3, <3>1
    <2>2. ~(i > n + 1)
        <3> SUFFICES ASSUME i > n + 1 PROVE FALSE
            OBVIOUS
        <3>1. n + 1 \in 1..(i - 1) /\ 1 \in 1..m
            BY <1>1
        <3>2. QED
            BY <1>1, <1>3, <3>1
    <2>3. i \in Int /\ n \in Int
        BY <1>1
    <2>4. QED
        BY ONLY <2>1, <2>2, <2>3
<1>4. FirstRedoRow(w) = CHOOSE i \in 1..(Len(w) + 1) : Good(i)
    BY DEF FirstRedoRow
<1>5. QED
    BY <1>2, <1>3, <1>4 DEF w, n

\* Their two parts.
LEMMA JoinParts ==
    ASSUME NEW U \in Seq(UndoRows), NEW R \in Seq(RedoRows)
    PROVE  /\ SubSeq(U \o R, 1, Len(U)) = U
           /\ SubSeq(U \o R, Len(U) + 1, Len(U \o R)) = R
<1> DEFINE w == U \o R
           n == Len(U)
           l == Len(w)
<1>3. /\ UndoRows \subseteq AllRows /\ RedoRows \subseteq AllRows
    BY DEF UndoRows, RedoRows, AllRows
<1>4. U \in Seq(AllRows) /\ R \in Seq(AllRows)
    BY <1>3, SeqMonotonic
<1>5. /\ w \in Seq(AllRows) /\ n \in Nat /\ l = n + Len(R) /\ Len(R) \in Nat
      /\ \A i \in 1..n : w[i] = U[i]
      /\ \A i \in 1..Len(R) : w[n + i] = R[i]
    <2>1. Joined(w, U, R)
        BY JoinFacts
    <2> HIDE DEF w
    <2>2. QED
        BY <2>1 DEF Joined
<1> HIDE DEF w, n, l
<1>6. SubSeq(w, 1, n) = U
    <2>1. /\ SubSeq(w, 1, n) \in Seq(AllRows)
          /\ Len(SubSeq(w, 1, n)) = IF 1 <= n THEN n - 1 + 1 ELSE 0
          /\ \A i \in 1..(n - 1 + 1) : SubSeq(w, 1, n)[i] = w[1 + i - 1]
        <3>1. 1 \in Int /\ n \in Int /\ \A i \in 1..n : w[i] \in AllRows
            <4>1. \A i \in 1..n : i \in 1..l
                BY <1>5
            <4>2. QED
                BY <1>5, <4>1, ElementOfSeq DEF l
        <3>2. QED
            BY <3>1, SubSeqProperties
    <2>2. n - 1 + 1 = n /\ \A i \in 1..n : 1 + i - 1 = i
        BY <1>5
    <2> DEFINE z == Len(SubSeq(w, 1, n))
    <2>3. z = IF 1 <= n THEN n - 1 + 1 ELSE 0
        BY <2>1
    <2> HIDE DEF z
    <2>4. z = n
        BY <1>5, <2>3
    <2>5. QED
        BY <1>4, <1>5, <2>1, <2>2, <2>4, SeqEqual DEF z, n
<1>7. SubSeq(w, n + 1, l) = R
    <2> DEFINE k == Len(R)
    <2> HIDE DEF k
    <2>1. k \in Nat /\ k = Len(R) /\ l = n + k /\ \A i \in 1..k : w[n + i] = R[i]
        BY <1>5 DEF k
    <2>2. /\ SubSeq(w, n + 1, l) \in Seq(AllRows)
          /\ Len(SubSeq(w, n + 1, l)) = IF n + 1 <= l THEN l - (n + 1) + 1 ELSE 0
          /\ \A i \in 1..(l - (n + 1) + 1) : SubSeq(w, n + 1, l)[i] = w[n + 1 + i - 1]
        <3>1. n + 1 \in Int /\ l \in Int /\ \A i \in (n + 1)..l : w[i] \in AllRows
            <4>1. \A i \in (n + 1)..l : i \in 1..l
                BY <1>5, <2>1
            <4>2. l = Len(w)
                BY DEF l
            <4>3. QED
                BY <1>5, <2>1, <4>1, <4>2, ElementOfSeq
        <3>2. QED
            BY <3>1, SubSeqProperties
    <2>3. l - (n + 1) + 1 = k /\ \A i \in 1..k : n + 1 + i - 1 = n + i
        BY <1>5, <2>1
    <2> DEFINE z == Len(SubSeq(w, n + 1, l))
    <2>4. z = IF n + 1 <= l THEN l - (n + 1) + 1 ELSE 0
        BY <2>2
    <2> HIDE DEF z
    <2>5. z = k
        BY <1>5, <2>1, <2>4
    <2>6. \A i \in 1..k : SubSeq(w, n + 1, l)[i] = R[i]
        BY <2>1, <2>2, <2>3
    <2>7. QED
        BY <1>4, <2>1, <2>2, <2>5, <2>6, SeqEqual DEF z
<1>8. QED
    BY <1>6, <1>7 DEF w, n, l

\* on_new_action puts the row of a new action below those of the done ones.
LEMMA InsertedIs ==
    ASSUME NEW U \in Seq(UndoRows), NEW R \in Seq(RedoRows), NEW e \in Undoable
    PROVE  /\ Append(U, Row(e, TRUE)) \in Seq(UndoRows)
           /\ Inserted(U \o R, e) = Append(U, Row(e, TRUE)) \o R
<1> DEFINE x == Row(e, TRUE)
           w == U \o R
           n == Len(U)
           l == Len(w)
<1>1. x \in UndoRows
    BY DEF Row, UndoRows
<1> HIDE DEF x
<1>2. Append(U, x) \in Seq(UndoRows) /\ Append(U, x) = U \o <<x>>
    BY <1>1, AppendProperties, AppendIsConcat
<1>3. Inserted(w, e) = SubSeq(w, 1, n) \o <<x>> \o SubSeq(w, n + 1, l)
    <2>1. FirstRedoRow(w) = n + 1
        BY FirstRedoIs
    <2>2. FirstRedoRow(w) - 1 = n
        BY <2>1
    <2> HIDE DEF n, w
    <2>3. Inserted(w, e) = SubSeq(w, 1, FirstRedoRow(w) - 1) \o <<x>> \o SubSeq(w, FirstRedoRow(w), l)
        BY DEF Inserted, x
    <2>4. QED
        BY ONLY <2>1, <2>2, <2>3, Zenon
<1>4. SubSeq(w, 1, n) = U /\ SubSeq(w, n + 1, l) = R
    BY JoinParts
<1> HIDE DEF w, n, l
<1>5. QED
    BY <1>2, <1>3, <1>4 DEF x, w

-----------------------------------------------------------------------------
(***************************************************************************)
(* The rows that are left when those of one stack are erased.              *)
(***************************************************************************)

\* W[i] is what erasing leaves of the first i rows.
Erases(W, r, b) ==
    W = [i \in 0..Len(r) |->
           IF i = 0 THEN <<>>
           ELSE IF r[i].is_undo = b THEN W[i - 1] ELSE Append(W[i - 1], r[i])]

\* Erasing row after row: the definition of Without has one solution.
LEMMA WithoutIs ==
    ASSUME NEW r, NEW b, Len(r) \in Nat, NEW W, Erases(W, r, b)
    PROVE  Without(r, b) = W[Len(r)]
<1> DEFINE l == Len(r)
           Next1(F, i) == IF i = 0 THEN <<>>
                          ELSE IF r[i].is_undo = b THEN F[i - 1] ELSE Append(F[i - 1], r[i])
           K == CHOOSE F : F = [i \in 0..l |-> Next1(F, i)]
<1>1. Without(r, b) = K[l]
    BY DEF Without
<1>2. W = [i \in 0..l |-> Next1(W, i)]
    BY DEF Erases
<1> HIDE DEF Next1
<1>3. K = [i \in 0..l |-> Next1(K, i)]
    <2>1. \E F : F = [i \in 0..l |-> Next1(F, i)]
        BY <1>2
    <2>2. QED
        BY <2>1
<1> HIDE DEF K
<1>4. l \in Nat
    OBVIOUS
<1> HIDE DEF l
<1> DEFINE Bad == {i \in 0..l : K[i] # W[i]}
<1>5. Bad = {}
    <2> SUFFICES ASSUME Bad # {} PROVE FALSE
        OBVIOUS
    <2> DEFINE m == Lowest(Bad)
    <2>1. m \in Bad /\ \A j \in Bad : m <= j
        <3>1. Bad \in SUBSET Nat
            BY <1>4
        <3> HIDE DEF Bad
        <3>2. QED
            BY <3>1, LowestExists
    <2> HIDE DEF m
    <2>2. m \in 0..l /\ K[m] # W[m]
        BY <2>1
    <2>3. K[m] = Next1(K, m) /\ W[m] = Next1(W, m)
        <3>1. \A i \in 0..l : K[i] = Next1(K, i)
            BY <1>3
        <3>2. \A i \in 0..l : W[i] = Next1(W, i)
            BY <1>2
        <3>3. QED
            BY <2>2, <3>1, <3>2
    <2>4. CASE m = 0
        BY <2>2, <2>3, <2>4 DEF Next1
    <2>5. CASE m # 0
        <3>1. m - 1 \in 0..l /\ ~(m <= m - 1)
            BY <1>4, <2>2, <2>5
        <3>2. m - 1 \notin Bad
            BY <2>1, <3>1
        <3>3. K[m - 1] = W[m - 1]
            BY <3>1, <3>2
        <3>4. QED
            BY <2>2, <2>3, <2>5, <3>3 DEF Next1
    <2>6. QED
        BY <2>4, <2>5
<1>6. l \in 0..l
    BY <1>4
<1>7. QED
    BY <1>1, <1>5, <1>6 DEF l

\* Which rows are those of done actions.
LEMMA WhichRows ==
    ASSUME NEW w, NEW U, NEW R, Joined(w, U, R), NEW i \in 1..Len(w)
    PROVE  /\ i <= Len(U) => w[i].is_undo = TRUE
           /\ ~(i <= Len(U)) => w[i].is_undo = FALSE
<1> DEFINE n == Len(U)
           m == Len(R)
<1>1. /\ n \in Nat /\ m \in Nat /\ i \in 1..(n + m)
      /\ \A j \in 1..n : w[j].is_undo = TRUE
      /\ \A j \in 1..m : w[n + j].is_undo = FALSE
    BY DEF Joined
<1> HIDE DEF n, m
<1>2. CASE i <= n
    <2>1. i \in 1..n
        BY <1>1, <1>2
    <2>2. QED
        BY <1>1, <1>2, <2>1 DEF n
<1>3. CASE ~(i <= n)
    <2>1. PICK j \in 1..m : i = n + j
        <3>1. i - n \in 1..m /\ i = n + (i - n)
            BY <1>1, <1>3
        <3>2. QED
            BY <3>1
    <2>2. QED
        BY <1>1, <1>3, <2>1 DEF n
<1>4. QED
    BY <1>2, <1>3

\* Erasing the done ones leaves the undone ones.
LEMMA WithoutDone ==
    ASSUME NEW U \in Seq(UndoRows), NEW R \in Seq(RedoRows)
    PROVE  Without(U \o R, TRUE) = R
<1> DEFINE w == U \o R
           n == Len(U)
           l == Len(w)
           W == [i \in 0..l |-> SubSeq(w, n + 1, i)]
<1>1. /\ w \in Seq(AllRows) /\ n \in Nat /\ l \in Nat /\ n <= l
      /\ \A i \in 1..l : /\ i <= n => w[i].is_undo = TRUE
                         /\ ~(i <= n) => w[i].is_undo = FALSE
    <2>1. Joined(w, U, R)
        BY JoinFacts
    <2> HIDE DEF w
    <2>2. ASSUME NEW i \in 1..l
          PROVE  /\ i <= n => w[i].is_undo = TRUE
                 /\ ~(i <= n) => w[i].is_undo = FALSE
        BY ONLY <2>1, i \in 1..l, WhichRows
    <2>3. w \in Seq(AllRows) /\ n \in Nat /\ l \in Nat /\ n <= l
        BY <2>1 DEF Joined
    <2> HIDE DEF n, l
    <2>4. QED
        BY <2>2, <2>3
<1>2. SubSeq(w, n + 1, l) = R
    BY JoinParts
<1> HIDE DEF w, n, l
<1>3. \A i \in 0..n : SubSeq(w, n + 1, i) = <<>>
    <2> TAKE i \in 0..n
    <2>1. n + 1 \in Int /\ i \in Int /\ i < n + 1
        BY <1>1
    <2>2. QED
        BY <2>1, SubSeqEmpty
<1>4. ASSUME NEW i \in 1..l, ~(i <= n)
      PROVE  SubSeq(w, n + 1, i) = Append(SubSeq(w, n + 1, i - 1), w[i])
    <2> DEFINE a == n + 1
               b == SubSeq(w, a, i - 1)
    <2>1. a \in 1..l /\ i \in a..l /\ \A j \in a..(i - 1) : j \in 1..l
        BY <1>1, <1>4
    <2>2. l = Len(w)
        BY DEF l
    <2> HIDE DEF a
    <2>3. SubSeq(w, a, i) = b \o <<w[i]>>
        BY <1>1, <2>1, <2>2, SubSeqRecursiveSecond
    <2>4. b \in Seq(AllRows) /\ w[i] \in AllRows
        <3>1. \A j \in 1..l : w[j] \in AllRows
            BY <1>1, <2>2, ElementOfSeq
        <3>2. a \in Int /\ i - 1 \in Int /\ \A j \in a..(i - 1) : w[j] \in AllRows
            BY <2>1, <3>1
        <3>3. QED
            BY <3>1, <3>2, SubSeqProperties
    <2> HIDE DEF b
    <2>5. Append(b, w[i]) = b \o <<w[i]>>
        BY <2>4, AppendIsConcat
    <2>6. QED
        BY <2>3, <2>5 DEF a, b
<1>5. ASSUME NEW i \in 0..l
      PROVE  W[i] = IF i = 0 THEN <<>>
                    ELSE IF w[i].is_undo = TRUE THEN W[i - 1] ELSE Append(W[i - 1], w[i])
    <2>1. W[i] = SubSeq(w, n + 1, i) /\ (i # 0 => W[i - 1] = SubSeq(w, n + 1, i - 1))
        <3>1. i # 0 => i - 1 \in 0..l
            BY <1>1
        <3>2. QED
            BY <3>1
    <2> HIDE DEF W
    <2>2. CASE i = 0
        <3>1. 0 \in 0..n
            BY <1>1
        <3>2. QED
            BY <1>3, <2>1, <2>2, <3>1
    <2>3. CASE i # 0 /\ i <= n
        <3>1. i \in 0..n /\ i - 1 \in 0..n /\ i \in 1..l
            BY <1>1, <2>3
        <3>2. w[i].is_undo = TRUE
            BY <1>1, <2>3, <3>1
        <3>3. QED
            BY <1>3, <2>1, <2>3, <3>1, <3>2
    <2>4. CASE i # 0 /\ ~(i <= n)
        <3>1. i \in 1..l
            BY <1>1, <2>4
        <3>2. w[i].is_undo = FALSE
            BY <1>1, <2>4, <3>1
        <3>3. QED
            BY <1>4, <2>1, <2>4, <3>1, <3>2
    <2>5. QED
        BY <2>2, <2>3, <2>4
<1>6. W = [i \in 0..l |-> IF i = 0 THEN <<>>
                          ELSE IF w[i].is_undo = TRUE THEN W[i - 1] ELSE Append(W[i - 1], w[i])]
    <2> DEFINE X == W
    <2>1. X = [i \in 0..l |-> X[i]]
        OBVIOUS
    <2>2. \A i \in 0..l : X[i] = IF i = 0 THEN <<>>
                                 ELSE IF w[i].is_undo = TRUE THEN X[i - 1] ELSE Append(X[i - 1], w[i])
        BY <1>5
    <2> HIDE DEF X
    <2>3. X = [i \in 0..l |-> IF i = 0 THEN <<>>
                              ELSE IF w[i].is_undo = TRUE THEN X[i - 1] ELSE Append(X[i - 1], w[i])]
        BY <2>1, <2>2
    <2>4. QED
        BY <2>3 DEF X
<1>7. W[l] = R
    BY <1>1, <1>2
<1> HIDE DEF W
<1>8. Without(w, TRUE) = W[l]
    <2>1. Erases(W, w, TRUE)
        BY <1>6 DEF Erases, l
    <2>2. Len(w) \in Nat
        BY <1>1 DEF l
    <2>3. QED
        BY <2>1, <2>2, WithoutIs DEF l
<1>9. QED
    BY <1>7, <1>8 DEF w

\* Erasing the undone ones leaves the done ones.
LEMMA WithoutUndone ==
    ASSUME NEW U \in Seq(UndoRows), NEW R \in Seq(RedoRows)
    PROVE  Without(U \o R, FALSE) = U
<1> DEFINE w == U \o R
           n == Len(U)
           l == Len(w)
           W == [i \in 0..l |-> SubSeq(w, 1, IF i <= n THEN i ELSE n)]
<1>1. /\ w \in Seq(AllRows) /\ n \in Nat /\ l \in Nat /\ n <= l
      /\ \A i \in 1..l : /\ i <= n => w[i].is_undo = TRUE
                         /\ ~(i <= n) => w[i].is_undo = FALSE
    <2>1. Joined(w, U, R)
        BY JoinFacts
    <2> HIDE DEF w
    <2>2. ASSUME NEW i \in 1..l
          PROVE  /\ i <= n => w[i].is_undo = TRUE
                 /\ ~(i <= n) => w[i].is_undo = FALSE
        BY ONLY <2>1, i \in 1..l, WhichRows
    <2>3. w \in Seq(AllRows) /\ n \in Nat /\ l \in Nat /\ n <= l
        BY <2>1 DEF Joined
    <2> HIDE DEF n, l
    <2>4. QED
        BY <2>2, <2>3
<1>2. SubSeq(w, 1, n) = U
    BY JoinParts
<1> HIDE DEF w, n, l
<1>3. SubSeq(w, 1, 0) = <<>>
    BY SubSeqEmpty
<1>4. ASSUME NEW i \in 1..l
      PROVE  SubSeq(w, 1, i) = Append(SubSeq(w, 1, i - 1), w[i])
    <2> DEFINE b == SubSeq(w, 1, i - 1)
    <2>1. 1 \in 1..l /\ i \in 1..l /\ \A j \in 1..(i - 1) : j \in 1..l
        BY <1>1
    <2>2. l = Len(w)
        BY DEF l
    <2>3. SubSeq(w, 1, i) = b \o <<w[i]>>
        BY <1>1, <2>1, <2>2, SubSeqRecursiveSecond
    <2>4. b \in Seq(AllRows) /\ w[i] \in AllRows
        <3>1. \A j \in 1..l : w[j] \in AllRows
            BY <1>1, <2>2, ElementOfSeq
        <3>2. 1 \in Int /\ i - 1 \in Int /\ \A j \in 1..(i - 1) : w[j] \in AllRows
            BY <2>1, <3>1
        <3>3. QED
            BY <3>1, <3>2, SubSeqProperties
    <2> HIDE DEF b
    <2>5. Append(b, w[i]) = b \o <<w[i]>>
        BY <2>4, AppendIsConcat
    <2>6. QED
        BY <2>3, <2>5 DEF b
<1>5. ASSUME NEW i \in 0..l
      PROVE  W[i] = IF i = 0 THEN <<>>
                    ELSE IF w[i].is_undo = FALSE THEN W[i - 1] ELSE Append(W[i - 1], w[i])
    <2>1. /\ W[i] = SubSeq(w, 1, IF i <= n THEN i ELSE n)
          /\ i # 0 => W[i - 1] = SubSeq(w, 1, IF i - 1 <= n THEN i - 1 ELSE n)
        <3>1. i # 0 => i - 1 \in 0..l
            BY <1>1
        <3>2. QED
            BY <3>1
    <2> HIDE DEF W
    <2>2. CASE i = 0
        <3>1. 0 <= n
            BY <1>1
        <3>2. QED
            BY <1>3, <2>1, <2>2, <3>1
    <2>3. CASE i # 0 /\ i <= n
        <3>1. i \in 1..l /\ i - 1 <= n
            BY <1>1, <2>3
        <3>2. w[i].is_undo = TRUE
            BY <1>1, <2>3, <3>1
        <3>3. QED
            BY <1>4, <2>1, <2>3, <3>1, <3>2
    <2>4. CASE i # 0 /\ ~(i <= n)
        <3>1. i \in 1..l /\ (IF i - 1 <= n THEN i - 1 ELSE n) = n
            BY <1>1, <2>4
        <3>2. w[i].is_undo = FALSE
            BY <1>1, <2>4, <3>1
        <3>3. QED
            BY <2>1, <2>4, <3>1, <3>2
    <2>5. QED
        BY <2>2, <2>3, <2>4
<1>6. W = [i \in 0..l |-> IF i = 0 THEN <<>>
                          ELSE IF w[i].is_undo = FALSE THEN W[i - 1] ELSE Append(W[i - 1], w[i])]
    <2> DEFINE X == W
    <2>1. X = [i \in 0..l |-> X[i]]
        OBVIOUS
    <2>2. \A i \in 0..l : X[i] = IF i = 0 THEN <<>>
                                 ELSE IF w[i].is_undo = FALSE THEN X[i - 1] ELSE Append(X[i - 1], w[i])
        BY <1>5
    <2> HIDE DEF X
    <2>3. X = [i \in 0..l |-> IF i = 0 THEN <<>>
                              ELSE IF w[i].is_undo = FALSE THEN X[i - 1] ELSE Append(X[i - 1], w[i])]
        BY <2>1, <2>2
    <2>4. QED
        BY <2>3 DEF X
<1>7. W[l] = U
    <2>1. (IF l <= n THEN l ELSE n) = n
        BY <1>1
    <2>2. l \in 0..l
        BY <1>1
    <2>3. W[l] = SubSeq(w, 1, IF l <= n THEN l ELSE n)
        BY <2>2
    <2>4. QED
        BY <1>2, <2>1, <2>3
<1> HIDE DEF W
<1>8. Without(w, FALSE) = W[l]
    <2>1. Erases(W, w, FALSE)
        BY <1>6 DEF Erases, l
    <2>2. Len(w) \in Nat
        BY <1>1 DEF l
    <2>3. QED
        BY <2>1, <2>2, WithoutIs DEF l
<1>9. QED
    BY <1>7, <1>8 DEF w

-----------------------------------------------------------------------------
(***************************************************************************)
(* What the slots do to the rows.                                          *)
(***************************************************************************)

\* A group is inside the stack it was opened on.
LEMMA FirstGroup ==
    ASSUME Structure, Records, Grouped
    PROVE  /\ 1 \in 1..Len(group_stack_) /\ group_stack_[1] \in Grouper
           /\ group_stack_[1].opened \in 0..Len(undo_action_stack_)
<1>1. Len(group_stack_) \in Nat \ {0} /\ Depth \in Nat /\ Depth = Len(undo_action_stack_)
    BY FrontFacts DEF Depth
<1>2. 1 \in 1..Len(group_stack_)
    BY <1>1
<1>3. group_stack_[1] \in Grouper
    BY <1>2, ElementOfSeq DEF Structure, TypeOK
<1>4. group_stack_[1].opened <= Depth
    BY <1>2 DEF Records, GroupOrder
<1>5. group_stack_[1].opened \in Nat
    BY <1>3 DEF Grouper
<1>6. QED
    BY <1>1, <1>2, <1>3, <1>4, <1>5

\* What the window shows of the undo stack are actions.
LEMMA EndedType ==
    ASSUME Structure, Records
    PROVE  Ended \in Seq(Undoable)
<1>1. undo_action_stack_ \in Seq(Undoable)
    BY DEF Structure, TypeOK
<1>2. CASE Grouped
    <2> DEFINE o == group_stack_[1].opened
    <2>1. o \in 0..Len(undo_action_stack_)
        BY <1>2, FirstGroup
    <2> HIDE DEF o
    <2>2. SubSeq(undo_action_stack_, 1, o) \in Seq(Undoable)
        BY <1>1, <2>1, PartFacts
    <2>3. QED
        BY <1>2, <2>2 DEF Ended, o
<1>3. CASE ~Grouped
    BY <1>1, <1>3 DEF Ended
<1>4. QED
    BY <1>2, <1>3

\* It stays while the outermost group is open: what is below the group stays.
LEMMA EndedStays ==
    ASSUME Structure, Records, Grouped, Structure', Grouped',
           group_stack_'[1].opened = group_stack_[1].opened,
           group_stack_[1].opened <= Len(undo_action_stack_'),
           \A i \in 1..group_stack_[1].opened : undo_action_stack_'[i] = undo_action_stack_[i]
    PROVE  Ended' = Ended
<1> DEFINE o == group_stack_[1].opened
           s == undo_action_stack_
           t == undo_action_stack_'
<1>1. s \in Seq(Undoable) /\ t \in Seq(Undoable)
    BY DEF Structure, TypeOK
<1>2. o \in 0..Len(s) /\ o \in 0..Len(t)
    <2>1. o \in 0..Len(s)
        BY FirstGroup
    <2>2. o <= Len(t) /\ Len(s) \in Nat /\ Len(t) \in Nat
        BY <1>1
    <2> HIDE DEF o, s, t
    <2>3. QED
        BY <2>1, <2>2
<1>3. \A i \in 1..o : t[i] = s[i]
    OBVIOUS
<1>4. Ended = SubSeq(s, 1, o) /\ Ended' = SubSeq(t, 1, o)
    BY DEF Ended
<1> HIDE DEF o, s, t
<1>5. /\ SubSeq(s, 1, o) \in Seq(Undoable) /\ Len(SubSeq(s, 1, o)) = o
      /\ \A i \in 1..o : SubSeq(s, 1, o)[i] = s[i]
    BY <1>1, <1>2, PartFacts
<1>6. /\ SubSeq(t, 1, o) \in Seq(Undoable) /\ Len(SubSeq(t, 1, o)) = o
      /\ \A i \in 1..o : SubSeq(t, 1, o)[i] = t[i]
    BY <1>1, <1>2, PartFacts
<1>7. QED
    BY <1>3, <1>4, <1>5, <1>6, SeqEqual

\* rebuild() shows the stacks as they are.
LEMMA TreeRefresh ==
    ASSUME Structure', Refresh, early' = 0 => Ended' = undo_action_stack_'
    PROVE  TreeInv'
<1>1. undo_action_stack_' \in Seq(Undoable) /\ group_stack_' \in Seq(Grouper)
    BY DEF Structure, TypeOK
<1>2. Rows(undo_action_stack_', TRUE) \in Seq(UndoRows)
    BY <1>1, RowsFacts
<1>3. early' \in Nat
    <2>1. CASE group_stack_' = <<>>
        BY <2>1 DEF Refresh
    <2>2. CASE group_stack_' # <<>>
        <3>1. Len(group_stack_') \in Nat \ {0}
            BY <1>1, <2>2, EmptySeq
        <3>2. 1 \in 1..Len(group_stack_')
            BY <3>1
        <3>3. group_stack_'[1] \in Grouper
            BY <1>1, <3>2, ElementOfSeq
        <3>4. QED
            BY <2>2, <3>3 DEF Refresh, Grouper
    <2>3. QED
        BY <2>1, <2>2
<1>4. rows' = Rows(undo_action_stack_', TRUE) \o Rows(redo_action_stack_', FALSE)
    BY DEF Refresh, Rebuilt
<1>5. QED
    BY <1>2, <1>3, <1>4 DEF TreeInv, RowsShow

\* A signal the store has no slot for.
LEMMA TreeStays ==
    ASSUME TreeInv, UNCHANGED <<rows, early, redo_action_stack_>>, early = 0 => Ended' = Ended
    PROVE  TreeInv'
<1>1. PICK U \in Seq(UndoRows) : RowsShow(U)
    BY DEF TreeInv
<1>2. RowsShow(U)'
    BY <1>1 DEF RowsShow
<1>3. QED
    BY <1>2 DEF TreeInv

\* on_new_action shows one action more.
LEMMA TreeAdds ==
    ASSUME Structure, Records, TreeInv, NEW e \in Undoable, rows' = Inserted(rows, e),
           UNCHANGED <<early, redo_action_stack_>>, early = 0 => Ended' = Append(Ended, e)
    PROVE  TreeInv'
<1>1. PICK U \in Seq(UndoRows) : RowsShow(U)
    BY DEF TreeInv
<1> DEFINE V == Append(U, Row(e, TRUE))
           R == Rows(redo_action_stack_, FALSE)
<1>2. R \in Seq(RedoRows)
    BY RowsFacts DEF Structure, TypeOK
<1>3. V \in Seq(UndoRows) /\ rows' = V \o R
    <2>1. rows = U \o R
        BY <1>1 DEF RowsShow
    <2> HIDE DEF R
    <2>2. QED
        BY <1>2, <2>1, InsertedIs
<1>4. ASSUME early = 0 PROVE V = Rows(Append(Ended, e), TRUE)
    <2> DEFINE s == Ended
               t == Append(s, e)
    <2>1. s \in Seq(Undoable) /\ U = Rows(s, TRUE)
        BY <1>1, <1>4, EndedType DEF RowsShow
    <2> HIDE DEF s
    <2>2. /\ t \in Seq(Undoable) /\ Len(t) = Len(s) + 1 /\ Len(s) \in Nat
          /\ \A i \in 1..Len(s) : t[i] = s[i]
          /\ t[Len(s) + 1] = e
        BY <2>1, AppendProperties
    <2> HIDE DEF t
    <2>3. /\ Rows(t, TRUE) \in Seq(UndoRows) /\ Len(Rows(t, TRUE)) = Len(t)
          /\ \A i \in 1..Len(t) : Rows(t, TRUE)[i] = Row(t[i], TRUE)
        BY <2>2, RowsFacts
    <2>4. /\ Len(U) = Len(s) /\ \A i \in 1..Len(s) : U[i] = Row(s[i], TRUE)
        BY <2>1, RowsFacts
    <2>5. Row(e, TRUE) \in UndoRows
        BY DEF Row, UndoRows
    <2>6. /\ V \in Seq(UndoRows) /\ Len(V) = Len(U) + 1
          /\ \A i \in 1..Len(U) : V[i] = U[i]
          /\ V[Len(U) + 1] = Row(e, TRUE)
        BY <2>5, AppendProperties
    <2> HIDE DEF V
    <2> DEFINE n == Len(s)
    <2>7. \A i \in 1..(n + 1) : V[i] = Rows(t, TRUE)[i]
        <3> TAKE i \in 1..(n + 1)
        <3>1. i \in 1..n \/ i = n + 1
            BY <2>2
        <3>2. i \in 1..Len(t)
            BY <2>2
        <3>3. CASE i \in 1..n
            BY <2>2, <2>3, <2>4, <2>6, <3>2, <3>3
        <3>4. CASE i = n + 1
            BY <2>2, <2>3, <2>4, <2>6, <3>2, <3>4
        <3>5. QED
            BY <3>1, <3>3, <3>4
    <2>8. V = Rows(t, TRUE)
        BY <2>2, <2>3, <2>4, <2>6, <2>7, SeqEqual
    <2>9. QED
        BY <2>8 DEF t, s
<1> HIDE DEF V
<1>5. RowsShow(V)'
    BY <1>3, <1>4 DEF RowsShow
<1>6. early' \in Nat
    BY DEF TreeInv
<1>7. QED
    BY <1>3, <1>5, <1>6 DEF TreeInv

-----------------------------------------------------------------------------
(***************************************************************************)
(* Each operation and its signal keep the rows.                            *)
(***************************************************************************)

\* A new action is shown at once, or not before its group has ended.
LEMMA TreePerformKeeps ==
    ASSUME Structure, Structure', Records, TreeInv, NEW d \in Docs, TreePerform(d)
    PROVE  TreeInv'
<1> DEFINE e == Done(doc, d)
           s == undo_action_stack_
<1>1. /\ undo_action_stack_' = Append(s, e) /\ Added(group_stack_)
      /\ redo_action_stack_' = redo_action_stack_ /\ early' = early
      /\ rows' = IF Grouped THEN rows ELSE Inserted(rows, e)
    BY DEF TreePerform, PerformAction
<1>2. e \in Undoable /\ s \in Seq(Undoable) /\ group_stack_ \in Seq(Grouper)
    BY DEF Structure, TypeOK, Done, Undoable
<1> HIDE DEF e, s
<1>3. CASE Grouped
    <2>1. /\ Len(group_stack_') = Len(group_stack_)
          /\ \A i \in 1..Len(group_stack_) :
                group_stack_'[i] = IF i = Len(group_stack_)
                                   THEN [group_stack_[i] EXCEPT !.depth = @ + 1] ELSE group_stack_[i]
        BY <1>1, <1>2, AddedType DEF Structure
    <2>2. /\ 1 \in 1..Len(group_stack_) /\ group_stack_[1] \in Grouper
          /\ group_stack_[1].opened \in 0..Len(s)
        BY <1>3, FirstGroup DEF s
    <2>3. group_stack_'[1].opened = group_stack_[1].opened
        BY <2>1, <2>2 DEF Grouper
    <2>4. Grouped'
        <3>1. Len(group_stack_') # 0
            BY <2>1, <2>2
        <3>2. QED
            BY <3>1 DEF Grouped
    <2>5. /\ group_stack_[1].opened <= Len(undo_action_stack_')
          /\ \A i \in 1..group_stack_[1].opened : undo_action_stack_'[i] = s[i]
        <3> DEFINE o == group_stack_[1].opened
                   t == Append(s, e)
        <3>1. Len(t) = Len(s) + 1 /\ \A i \in 1..Len(s) : t[i] = s[i]
            BY <1>2, AppendProperties
        <3>2. o \in 0..Len(s) /\ undo_action_stack_' = t /\ Len(s) \in Nat
            BY <1>1, <1>2, <2>2
        <3> HIDE DEF o, t
        <3>3. o <= Len(t) /\ \A i \in 1..o : i \in 1..Len(s)
            BY <3>1, <3>2
        <3>4. QED
            BY <3>1, <3>2, <3>3 DEF o
    <2>6. Ended' = Ended
        BY <1>3, <2>3, <2>4, <2>5, EndedStays DEF s
    <2>7. QED
        BY <1>1, <1>3, <2>6, TreeStays
<1>4. CASE ~Grouped
    <2>1. ~Grouped'
        BY <1>1, <1>4 DEF Grouped, Added
    <2>2. Ended = s /\ Ended' = Append(s, e)
        BY <1>1, <1>4, <2>1 DEF Ended, s
    <2>3. QED
        BY <1>1, <1>2, <1>4, <2>2, TreeAdds
<1>5. QED
    BY <1>3, <1>4

\* Opening a group shows nothing.
LEMMA TreeBeginKeeps ==
    ASSUME Structure, Structure', Records, TreeInv, TreeBeginGroup
    PROVE  TreeInv'
<1> DEFINE new == [depth |-> 0, opened |-> Depth, found |-> doc]
<1>1. /\ UNCHANGED <<rows, early, undo_action_stack_, redo_action_stack_>>
      /\ group_stack_' = Append(group_stack_, new)
    BY DEF TreeBeginGroup, BeginGroup, treeVars, stacks
<1>2. /\ new \in Grouper /\ new.opened = Depth /\ group_stack_ \in Seq(Grouper)
      /\ undo_action_stack_ \in Seq(Undoable) /\ Depth = Len(undo_action_stack_)
    BY DEF Structure, TypeOK, Grouper, Depth
<1> HIDE DEF new
<1>3. /\ Len(group_stack_') = Len(group_stack_) + 1 /\ Len(group_stack_) \in Nat
      /\ \A i \in 1..Len(group_stack_) : group_stack_'[i] = group_stack_[i]
      /\ group_stack_'[Len(group_stack_) + 1] = new
    BY <1>1, <1>2, AppendProperties
<1>4. Grouped'
    <2>1. Len(group_stack_') # 0
        BY <1>3
    <2>2. QED
        BY <2>1 DEF Grouped
<1>5. CASE Grouped
    <2>1. 1 \in 1..Len(group_stack_) /\ group_stack_[1].opened \in 0..Len(undo_action_stack_)
        BY <1>5, FirstGroup
    <2>2. group_stack_'[1].opened = group_stack_[1].opened
        BY <1>3, <2>1
    <2>3. group_stack_[1].opened <= Len(undo_action_stack_')
        BY <1>1, <1>2, <2>1
    <2>4. Ended' = Ended
        BY <1>1, <1>4, <1>5, <2>2, <2>3, EndedStays
    <2>5. QED
        BY <1>1, <2>4, TreeStays
<1>6. CASE ~Grouped
    <2>1. group_stack_'[1].opened = Len(undo_action_stack_)
        <3>1. Len(group_stack_) = 0
            BY <1>6 DEF Grouped
        <3>2. QED
            BY <1>2, <1>3, <3>1
    <2>2. Ended' = SubSeq(undo_action_stack_, 1, Len(undo_action_stack_))
        BY <1>1, <1>4, <2>1 DEF Ended
    <2>3. Ended' = Ended
        BY <1>2, <1>6, <2>2, SubSeqFull DEF Ended
    <2>4. QED
        BY <1>1, <2>3, TreeStays
<1>7. QED
    BY <1>5, <1>6

\* cancel() has the rows rebuilt when it undoes anything: when it undoes all
\* of its group, there is nothing left that has not ended.
LEMMA TreeCancelKeeps ==
    ASSUME Structure, Structure', Records, TreeInv, NEW k, TreeCancelGroup(k)
    PROVE  TreeInv'
<1>1. /\ CancelGroup(k) /\ Len(group_stack_) = 1 /\ k \in 0..Front.depth
      /\ group_stack_' = [group_stack_ EXCEPT ![1].depth = @ - k]
      /\ group_stack_ \in Seq(Grouper) /\ group_stack_' \in Seq(Grouper)
    BY DEF TreeCancelGroup, CancelGroup, Structure, TypeOK
<1>2. Grouped /\ Grouped'
    <2>1. Len(group_stack_) # Len(<<>>)
        BY <1>1
    <2>2. Len(group_stack_') = Len(group_stack_)
        BY <1>1
    <2>3. group_stack_ # <<>> /\ group_stack_' # <<>>
        BY <2>1, <2>2, Zenon
    <2>4. QED
        BY <2>3 DEF Grouped
<1>3. /\ 1 \in 1..Len(group_stack_) /\ group_stack_[1] \in Grouper
      /\ group_stack_[1].opened \in 0..Len(undo_action_stack_)
    BY <1>2, FirstGroup
<1>4. Len(group_stack_') = 1 /\ group_stack_'[1].opened = group_stack_[1].opened
    BY <1>1, <1>3 DEF Grouper
<1>5. CASE k > 0
    <2>1. Refresh
        BY <1>5 DEF TreeCancelGroup
    <2>2. ASSUME early' = 0 PROVE Ended' = undo_action_stack_'
        <3>1. group_stack_'[1].depth = 0
            BY <1>2, <2>1, <2>2 DEF Refresh, Grouped
        <3>2. group_stack_'[1].opened + group_stack_'[1].depth = Depth'
            BY <1>4 DEF Structure, GroupDiscipline
        <3>3. group_stack_'[1] \in Grouper
            BY <1>1, <1>4, ElementOfSeq
        <3>4. group_stack_'[1].opened \in Nat
            BY <3>3 DEF Grouper
        <3>5. group_stack_'[1].opened = Len(undo_action_stack_')
            BY <3>1, <3>2, <3>4 DEF Depth
        <3>6. Ended' = SubSeq(undo_action_stack_', 1, Len(undo_action_stack_'))
            BY <1>2, <3>5 DEF Ended
        <3>7. undo_action_stack_' \in Seq(Undoable)
            BY DEF Structure, TypeOK
        <3>8. QED
            BY <3>6, <3>7, SubSeqFull
    <2>3. QED
        BY <2>1, <2>2, TreeRefresh
<1>6. CASE ~(k > 0)
    <2>1. Front \in Grouper
        BY <1>2, FrontFacts
    <2>2. Front.depth \in Nat
        BY <2>1 DEF Grouper
    <2> DEFINE z == Front.depth
    <2>3. z \in Nat /\ k \in 0..z
        BY <1>1, <2>2
    <2> HIDE DEF z
    <2>4. k = 0
        BY <1>6, <2>3
    <2>5. MoveToRedo(0) /\ UNCHANGED <<rows, early>>
        BY <1>6, <2>4 DEF TreeCancelGroup, CancelGroup, treeVars
    <2>6. UNCHANGED <<undo_action_stack_, redo_action_stack_>>
        BY <2>5, MoveNone DEF Structure
    <2>7. group_stack_[1].opened <= Len(undo_action_stack_')
        <3>1. undo_action_stack_ \in Seq(Undoable)
            BY DEF Structure, TypeOK
        <3>2. QED
            BY <1>3, <2>6, <3>1
    <2>8. Ended' = Ended
        BY <1>2, <1>4, <2>6, <2>7, EndedStays
    <2>9. QED
        BY <2>5, <2>6, <2>8, TreeStays
<1>7. QED
    BY <1>5, <1>6

\* ~PassiveGrouper leaves what is below its group, and one entry above it if
\* the group holds any.
LEMMA EndedBelow ==
    ASSUME Structure, Records, EndGroup
    PROVE  /\ undo_action_stack_' \in Seq(Undoable)
           /\ Len(undo_action_stack_') = Front.opened + (IF Front.depth > 0 THEN 1 ELSE 0)
           /\ \A q \in 1..Front.opened : undo_action_stack_'[q] = undo_action_stack_[q]
<1> DEFINE s == undo_action_stack_
           i == Front.opened
           k == Front.depth
<1>1. Grouped /\ s \in Seq(Undoable) /\ Depth = Len(s) /\ Len(s) \in Nat
    BY DEF EndGroup, Structure, TypeOK, Depth
<1>2. /\ i \in Nat /\ k \in Nat /\ i + k = Len(s)
      /\ \A q \in (i + 1)..Len(s) : s[q].active
    BY <1>1, FrontFacts DEF Grouper
<1>3. undo_action_stack_' = IF k > 1 THEN Merged(s, Len(s) - k) ELSE s
    BY DEF EndGroup, Depth
<1>4. CASE k > 1
    <2> HIDE DEF s, i, k
    <2>1. Len(s) - k = i /\ i < Len(s) /\ k > 0 /\ 1 \in 1..(i + 1)
        BY <1>1, <1>2, <1>4
    <2>2. undo_action_stack_' = Merged(s, i)
        BY <1>3, <1>4, <2>1
    <2>3. s[i + 1].active /\ s[Len(s)].active
        <3>1. i + 1 \in (i + 1)..Len(s) /\ Len(s) \in (i + 1)..Len(s)
            BY <1>1, <1>2, <2>1
        <3>2. QED
            BY <1>2, <3>1
    <2>4. /\ Merged(s, i) \in Seq(Undoable) /\ Len(Merged(s, i)) = i + 1
          /\ \A r \in 1..i : Merged(s, i)[r] = s[r]
        BY <1>1, <1>2, <2>1, <2>3, DocBelowMerged
    <2>5. QED
        BY <2>1, <2>2, <2>4 DEF s, i, k
<1>5. CASE ~(k > 1)
    <2>1. undo_action_stack_' = s
        BY <1>3, <1>5
    <2> HIDE DEF s, i, k
    <2>2. Len(s) = i + (IF k > 0 THEN 1 ELSE 0)
        BY <1>1, <1>2, <1>5
    <2>3. QED
        BY <1>1, <2>1, <2>2 DEF s, i, k
<1>6. QED
    BY <1>4, <1>5

\* The outermost group shows its entry as it ends; an inner one shows nothing.
LEMMA TreeEndKeeps ==
    ASSUME Structure, Structure', Records, TreeInv, TreeEndGroup
    PROVE  TreeInv'
<1> DEFINE n == Len(group_stack_)
           outer == SubSeq(group_stack_, 1, n - 1)
           s == undo_action_stack_
           t == undo_action_stack_'
           i == Front.opened
           e == t[Len(t)]
<1>1. /\ EndGroup /\ Grouped /\ n \in Nat \ {0} /\ group_stack_ \in Seq(Grouper)
      /\ Front \in Grouper /\ early' = early /\ redo_action_stack_' = redo_action_stack_
      /\ s \in Seq(Undoable)
    BY FrontFacts DEF TreeEndGroup, EndGroup, Structure, TypeOK
<1>2. /\ t \in Seq(Undoable) /\ i \in Nat /\ i <= Len(s)
      /\ Len(t) = i + (IF Front.depth > 0 THEN 1 ELSE 0)
      /\ \A q \in 1..i : t[q] = s[q]
    <2>1. i \in Nat /\ Front.depth \in Nat /\ i + Front.depth = Depth
        BY <1>1, FrontFacts DEF Grouper
    <2>2. Len(s) = Depth
        BY DEF Depth
    <2>3. i <= Len(s)
        <3> DEFINE a == Len(s)
                   b == Front.depth
        <3> HIDE DEF a, b, i
        <3>1. i \in Nat /\ b \in Nat /\ i + b = a
            BY <2>1, <2>2 DEF i, a, b
        <3>2. QED
            BY <3>1 DEF a
    <2>4. QED
        BY <1>1, <2>1, <2>3, EndedBelow
<1>3. rows' = IF n = 1 /\ Front.depth > 0 THEN Inserted(rows, e) ELSE rows
    BY DEF TreeEndGroup
<1>4. /\ outer \in Seq(Grouper) /\ Len(outer) = n - 1
      /\ \A q \in 1..(n - 1) : outer[q] = group_stack_[q]
    <2>1. n - 1 \in 0..n
        <3> HIDE DEF n
        <3>1. QED
            BY <1>1
    <2>2. n - 1 \in 0..Len(group_stack_)
        BY <2>1
    <2> DEFINE j == n - 1
    <2> HIDE DEF j
    <2>3. j \in 0..Len(group_stack_)
        BY <2>2 DEF j
    <2>4. /\ SubSeq(group_stack_, 1, j) \in Seq(Grouper) /\ Len(SubSeq(group_stack_, 1, j)) = j
          /\ \A q \in 1..j : SubSeq(group_stack_, 1, j)[q] = group_stack_[q]
        BY <1>1, <2>3, PartFacts
    <2>5. QED
        BY <2>4 DEF j
<1>5. IF Front.depth > 0 THEN Added(outer) ELSE group_stack_' = outer
    BY <1>1 DEF EndGroup
<1>6. /\ Len(group_stack_') = n - 1
      /\ \A q \in 1..(n - 1) : group_stack_'[q].opened = group_stack_[q].opened
    <2>1. CASE Front.depth > 0
        <3>1. /\ Len(group_stack_') = n - 1
              /\ \A q \in 1..(n - 1) : group_stack_'[q] = IF q = n - 1
                                   THEN [outer[q] EXCEPT !.depth = @ + 1] ELSE outer[q]
            <4> HIDE DEF outer
            <4>1. /\ Len(group_stack_') = Len(outer)
                  /\ \A q \in 1..Len(outer) : group_stack_'[q] = IF q = Len(outer)
                                   THEN [outer[q] EXCEPT !.depth = @ + 1] ELSE outer[q]
                BY <1>4, <1>5, <2>1, AddedType DEF Structure
            <4>2. Len(outer) = n - 1
                BY <1>4
            <4> HIDE DEF n
            <4>3. QED
                BY <4>1, <4>2
        <3>2. ASSUME NEW q \in 1..(n - 1)
              PROVE  group_stack_'[q].opened = group_stack_[q].opened
            <4>1. q \in 1..n
                BY <1>1
            <4>2. outer[q] = group_stack_[q] /\ group_stack_[q] \in Grouper
                BY <1>1, <1>4, <4>1, ElementOfSeq
            <4>3. QED
                BY <3>1, <4>2 DEF Grouper
        <3>3. QED
            BY <3>1, <3>2
    <2>2. CASE ~(Front.depth > 0)
        BY <1>4, <1>5, <2>2
    <2>3. QED
        BY <2>1, <2>2
<1>7. /\ n = 1 => ~Grouped'
      /\ n # 1 => Grouped'
    <2>1. group_stack_' \in Seq(Grouper)
        BY DEF Structure, TypeOK
    <2>2. Len(group_stack_') = 0 <=> group_stack_' = <<>>
        BY <2>1, EmptySeq
    <2>3. QED
        BY <1>1, <1>6, <2>2 DEF Grouped
<1>8. n = 1 => Ended = SubSeq(s, 1, i) /\ Ended' = t
    BY <1>1, <1>7 DEF Ended, Front
<1>9. /\ SubSeq(s, 1, i) \in Seq(Undoable) /\ Len(SubSeq(s, 1, i)) = i
      /\ \A q \in 1..i : SubSeq(s, 1, i)[q] = s[q]
    <2> HIDE DEF s, i
    <2>1. Len(s) \in Nat
        BY <1>1
    <2>2. i \in 0..Len(s)
        BY <1>2, <2>1
    <2>3. QED
        BY <1>1, <2>2, PartFacts
<1>10. CASE n = 1 /\ Front.depth > 0
    <2> DEFINE v == SubSeq(s, 1, i)
    <2>1. Len(t) = i + 1 /\ rows' = Inserted(rows, e)
        BY <1>2, <1>3, <1>10
    <2>2. e \in Undoable /\ e = t[i + 1]
        <3> HIDE DEF t, i
        <3>1. i + 1 \in 1..Len(t)
            BY <1>2, <2>1
        <3>2. QED
            BY <1>2, <2>1, <3>1, ElementOfSeq
    <2> HIDE DEF e
    <2>3. v \in Seq(Undoable) /\ Len(v) = i /\ \A q \in 1..i : v[q] = s[q]
        BY <1>9
    <2> HIDE DEF v, s, t, i
    <2>4. /\ Append(v, e) \in Seq(Undoable) /\ Len(Append(v, e)) = i + 1
          /\ \A q \in 1..i : Append(v, e)[q] = v[q]
          /\ Append(v, e)[i + 1] = e
        BY <2>2, <2>3, AppendProperties
    <2>5. \A q \in 1..(i + 1) : q \in 1..i \/ q = i + 1
        BY <1>2
    <2>6. \A q \in 1..(i + 1) : Append(v, e)[q] = t[q]
        BY <1>2, <2>2, <2>3, <2>4, <2>5
    <2>7. t = Append(v, e)
        BY <1>2, <2>1, <2>4, <2>6, SeqEqual
    <2>8. Ended' = Append(Ended, e)
        BY <1>8, <1>10, <2>7 DEF v
    <2>9. QED
        BY <1>1, <2>1, <2>2, <2>8, TreeAdds
<1>11. CASE n = 1 /\ ~(Front.depth > 0)
    <2>1. Len(t) = i + 0
        BY <1>2, <1>11
    <2> HIDE DEF s, t, i
    <2>2. Len(t) = i
        BY <1>2, <2>1
    <2>3. t = SubSeq(s, 1, i)
        BY <1>2, <1>9, <2>2, SeqEqual
    <2>4. Ended' = Ended
        BY <1>8, <1>11, <2>3
    <2>5. QED
        BY <1>1, <1>3, <1>11, <2>4, TreeStays
<1>12. CASE n # 1
    <2>1. 1 \in 1..n /\ n \in 1..n /\ 1 <= n /\ 1 \in 1..(n - 1)
        <3> HIDE DEF n
        <3>1. QED
            BY <1>1, <1>12
    <2>2. group_stack_[1].opened <= i
        BY <2>1 DEF Records, GroupOrder, Front
    <2>3. group_stack_[1].opened \in Nat
        <3>1. group_stack_[1] \in Grouper
            BY <1>1, <2>1, ElementOfSeq
        <3>2. QED
            BY <3>1 DEF Grouper
    <2>4. group_stack_'[1].opened = group_stack_[1].opened
        BY <1>6, <2>1
    <2>5. /\ group_stack_[1].opened <= Len(t)
          /\ \A q \in 1..group_stack_[1].opened : t[q] = s[q]
        <3> DEFINE o == group_stack_[1].opened
        <3> HIDE DEF o, s, t, i
        <3>1. o \in Nat /\ o <= i
            BY <2>2, <2>3 DEF o
        <3>2. i <= Len(t)
            BY <1>2
        <3>3. Len(t) \in Nat
            BY <1>2
        <3>4. o <= Len(t) /\ \A q \in 1..o : q \in 1..i
            BY <1>2, <3>1, <3>2, <3>3
        <3>5. QED
            BY <1>2, <3>4 DEF o
    <2>6. Ended' = Ended
        BY <1>1, <1>7, <1>12, <2>4, <2>5, EndedStays
    <2>7. QED
        BY <1>1, <1>3, <1>12, <2>6, TreeStays
<1>13. QED
    BY <1>10, <1>11, <1>12

\* on_undo and on_redo come when no group is open.
LEMMA TreeUngrouped ==
    ASSUME Structure', ~Grouped, UNCHANGED group_stack_, Refresh
    PROVE  TreeInv'
<1>1. ~Grouped'
    BY DEF Grouped
<1>2. Ended' = undo_action_stack_'
    BY <1>1 DEF Ended
<1>3. QED
    BY <1>2, TreeRefresh

\* set_action_status of a done action undoes it and more, or does nothing.
LEMMA TreeToggleKeeps ==
    ASSUME Structure, Structure', TreeInv, TreeToggle
    PROVE  TreeInv'
<1>1. CASE (\E p \in 1..MaxStack : ToggleDone(p)) /\ Refresh
    BY <1>1, TreeUngrouped DEF ToggleDone
<1>2. ASSUME NEW k \in 0..MaxStack, ToggleAborted(k), IF k > 0 THEN Refresh ELSE UNCHANGED treeVars
      PROVE  TreeInv'
    <2>1. CASE k > 0
        BY <1>2, <2>1, TreeUngrouped DEF ToggleAborted
    <2>2. CASE ~(k > 0)
        <3>1. k = 0
            BY <2>2, ConstantsAssumption
        <3>2. MoveToRedo(0) /\ UNCHANGED <<group_stack_, rows, early>>
            BY <1>2, <3>1 DEF ToggleAborted, treeVars
        <3>3. UNCHANGED <<undo_action_stack_, redo_action_stack_>>
            BY <3>2, MoveNone DEF Structure
        <3>4. Ended' = Ended
            BY <3>2, <3>3 DEF Ended, Grouped
        <3>5. QED
            BY <3>2, <3>3, <3>4, TreeStays
    <2>3. QED
        BY <2>1, <2>2
<1>3. QED
    BY <1>1, <1>2 DEF TreeToggle

\* on_action_status_changed finds the row of the action it is told of.
LEMMA TreeToggleUndoneKeeps ==
    ASSUME Structure, Structure', TreeInv, NEW i \in Nat, TreeToggleUndone(i)
    PROVE  TreeInv'
<1>1. PICK U \in Seq(UndoRows) : RowsShow(U)
    BY DEF TreeInv
<1> DEFINE r == redo_action_stack_
           x == redo_action_stack_'
           R == Rows(r, FALSE)
           X == Rows(x, FALSE)
           n == Len(U)
           m == Len(r)
<1>2. /\ i \in 1..m /\ r \in Seq(Undoable) /\ x \in Seq(Undoable)
      /\ x = [r EXCEPT ![i].active = ~@] /\ rows = U \o R
      /\ rows' = [rows EXCEPT ![FirstRedoRow(rows) + i - 1].action.active = ~@]
      /\ UNCHANGED <<undo_action_stack_, group_stack_, early>>
    BY <1>1 DEF TreeToggleUndone, ToggleUndone, Structure, TypeOK, RowsShow
<1>3. R \in Seq(RedoRows) /\ Len(R) = m /\ \A j \in 1..m : R[j] = Row(r[j], FALSE)
    BY <1>2, RowsFacts
<1>4. X \in Seq(RedoRows) /\ Len(X) = Len(x) /\ \A j \in 1..Len(x) : X[j] = Row(x[j], FALSE)
    BY <1>2, RowsFacts
<1>5. Len(x) = m /\ \A j \in 1..m : x[j] = IF j = i THEN [r[j] EXCEPT !.active = ~@] ELSE r[j]
    BY <1>2
<1>6. \A j \in 1..m : r[j] \in Undoable
    BY <1>2, ElementOfSeq
<1> HIDE DEF r, x, R, X, m
<1>7. FirstRedoRow(rows) = n + 1
    BY <1>2, <1>3, FirstRedoIs
<1>8. Joined(U \o R, U, R) /\ Joined(U \o X, U, X)
    BY <1>3, <1>4, JoinFacts
<1> DEFINE w == U \o R
           y == U \o X
<1> HIDE DEF w, y
<1>9. /\ w \in Seq(AllRows) /\ n \in Nat /\ m \in Nat /\ Len(w) = n + m
      /\ \A j \in 1..n : w[j] = U[j]
      /\ \A j \in 1..m : w[n + j] = R[j]
    <2>1. Joined(w, U, R)
        BY <1>8 DEF w
    <2>2. QED
        BY <1>3, <2>1 DEF Joined
<1>10. /\ y \in Seq(AllRows) /\ Len(y) = n + m
       /\ \A j \in 1..n : y[j] = U[j]
       /\ \A j \in 1..m : y[n + j] = X[j]
    <2>1. Joined(y, U, X)
        BY <1>8 DEF y
    <2>2. QED
        BY <1>4, <1>5, <2>1 DEF Joined
<1> HIDE DEF n
<1>11. rows' = [w EXCEPT ![n + i].action.active = ~@]
    <2>1. i \in Int /\ (n + 1) + i - 1 = n + i
        BY <1>2, <1>9
    <2>2. rows = w
        BY <1>2 DEF w
    <2>3. QED
        BY <1>2, <1>7, <2>1, <2>2
<1> DEFINE f == [w EXCEPT ![n + i].action.active = ~@]
           v == [w[n + i] EXCEPT !.action.active = ~@]
<1>12. f = [w EXCEPT ![n + i] = v]
    OBVIOUS
<1>13. n + i \in 1..Len(w) /\ w[n + i] = Row(r[i], FALSE) /\ r[i] \in Undoable
    <2>1. n + i \in 1..Len(w)
        BY <1>2, <1>9
    <2>2. QED
        BY <1>2, <1>3, <1>6, <1>9, <2>1
<1>14. v = Row(x[i], FALSE)
    <2>1. x[i] = [r[i] EXCEPT !.active = ~@]
        BY <1>2, <1>5
    <2> DEFINE q == r[i]
               z == w[n + i]
               o == [q EXCEPT !.active = ~@]
    <2>2. q \in Undoable /\ z = [action |-> q, is_undo |-> FALSE]
        BY <1>13 DEF Row
    <2>3. v = [z EXCEPT !.action = [z.action EXCEPT !.active = ~@]]
        OBVIOUS
    <2> HIDE DEF v, q, z
    <2>4. z.action = q
        BY <2>2
    <2>5. v = [z EXCEPT !.action = o]
        BY <2>3, <2>4
    <2> HIDE DEF o
    <2>6. v = [action |-> o, is_undo |-> FALSE]
        BY <2>2, <2>5
    <2>7. QED
        BY <2>1, <2>6 DEF o, q, Row
<1>15. X[i] = v
    BY <1>2, <1>4, <1>5, <1>14
<1>16. v \in AllRows
    <2>1. X[i] \in RedoRows
        BY <1>2, <1>4, <1>5, ElementOfSeq
    <2>2. QED
        BY <1>15, <2>1 DEF RedoRows, AllRows
<1> HIDE DEF v, f
<1>17. f \in Seq(AllRows) /\ Len(f) = Len(w)
       /\ \A j \in 1..Len(w) : f[j] = IF j = n + i THEN v ELSE w[j]
    BY <1>9, <1>12, <1>13, <1>16
<1>18. f = y
    <2>1. ASSUME NEW j \in 1..(n + m) PROVE f[j] = y[j]
        <3>1. j \in 1..Len(w) /\ j \in Nat
            BY <1>9
        <3>2. CASE j <= n
            <4>1. j \in 1..n /\ j # n + i
                BY <1>2, <1>9, <3>1, <3>2
            <4>2. QED
                BY <1>9, <1>10, <1>17, <3>1, <4>1
        <3>3. CASE ~(j <= n)
            <4> DEFINE k == j - n
            <4>1. k \in 1..m /\ j = n + k /\ (j = n + i <=> k = i)
                BY <1>2, <1>9, <3>1, <3>3
            <4> HIDE DEF k
            <4>2. f[j] = IF k = i THEN v ELSE R[k]
                BY <1>9, <1>17, <3>1, <4>1
            <4>3. y[j] = X[k]
                BY <1>10, <4>1
            <4>4. k # i => X[k] = R[k]
                BY <1>3, <1>4, <1>5, <4>1
            <4>5. QED
                BY <1>15, <4>2, <4>3, <4>4
        <3>4. QED
            BY <3>2, <3>3
    <2>2. QED
        BY <1>9, <1>10, <1>17, <2>1, SeqEqual
<1>19. Ended' = Ended
    BY <1>2 DEF Ended, Grouped
<1>20. RowsShow(U)'
    <2>1. rows' = U \o Rows(redo_action_stack_', FALSE)
        BY <1>11, <1>18 DEF f, y, X, x
    <2>2. early' = 0 => U = Rows(Ended', TRUE)
        BY <1>1, <1>2, <1>19 DEF RowsShow
    <2>3. QED
        BY <2>1, <2>2 DEF RowsShow
<1>21. QED
    BY <1>2, <1>20 DEF TreeInv

\* on_undo_stack_cleared and on_redo_stack_cleared erase the rows of one stack.
LEMMA TreeClearKeeps ==
    ASSUME Structure, Structure', TreeInv, TreeClear
    PROVE  TreeInv'
<1>1. PICK U \in Seq(UndoRows) : RowsShow(U)
    BY DEF TreeInv
<1> DEFINE R == Rows(redo_action_stack_, FALSE)
<1>2. R \in Seq(RedoRows) /\ rows = U \o R /\ early \in Nat
    BY <1>1, RowsFacts DEF TreeInv, RowsShow, Structure, TypeOK
<1> HIDE DEF R
<1>3. CASE ClearUndoStack /\ rows' = Without(rows, TRUE) /\ early' = 0
    <2>1. /\ rows' = R /\ undo_action_stack_' = <<>> /\ redo_action_stack_' = redo_action_stack_
          /\ ~Grouped /\ group_stack_' = group_stack_
        BY <1>2, <1>3, WithoutDone DEF ClearUndoStack
    <2>2. Ended' = <<>>
        BY <2>1 DEF Ended, Grouped
    <2>3. <<>> \in Seq(UndoRows) /\ Rows(<<>>, TRUE) = <<>>
        BY DEF Rows
    <2>4. <<>> \o R = R
        BY <1>2, ConcatEmptySeq
    <2>5. rows' = <<>> \o Rows(redo_action_stack_', FALSE)
        BY <2>1, <2>4 DEF R
    <2>6. RowsShow(<<>>)'
        BY <2>2, <2>3, <2>5 DEF RowsShow
    <2>7. QED
        BY <1>3, <2>3, <2>6 DEF TreeInv
<1>4. CASE ClearRedoStack /\ rows' = Without(rows, FALSE) /\ UNCHANGED early
    <2>1. /\ rows' = U /\ redo_action_stack_' = <<>>
          /\ UNCHANGED <<undo_action_stack_, group_stack_, early>>
        BY <1>2, <1>4, WithoutUndone DEF ClearRedoStack
    <2>2. Ended' = Ended
        BY <2>1 DEF Ended, Grouped
    <2>3. Rows(<<>>, FALSE) = <<>>
        BY DEF Rows
    <2>4. U \o <<>> = U
        BY ConcatEmptySeq
    <2>5. rows' = U \o Rows(redo_action_stack_', FALSE)
        BY <2>1, <2>3, <2>4
    <2>6. RowsShow(U)'
        BY <1>1, <2>1, <2>2, <2>5 DEF RowsShow
    <2>7. QED
        BY <1>2, <2>1, <2>6 DEF TreeInv
<1>5. QED
    BY <1>3, <1>4 DEF TreeClear

\* The rows of new stacks are none.
LEMMA TreeInitShown == TreeInit => TreeInv
<1> SUFFICES ASSUME TreeInit PROVE TreeInv
    OBVIOUS
<1>1. /\ rows = <<>> /\ early = 0 /\ ~Grouped
      /\ undo_action_stack_ = <<>> /\ redo_action_stack_ = <<>>
    BY DEF TreeInit, Init, Grouped
<1>2. <<>> \in Seq(UndoRows) /\ Rows(<<>>, TRUE) = <<>> /\ Rows(<<>>, FALSE) = <<>>
    BY DEF Rows
<1>3. <<>> \o <<>> = <<>>
    BY <1>2, ConcatEmptySeq
<1>4. RowsShow(<<>>)
    BY <1>1, <1>2, <1>3 DEF RowsShow, Ended
<1>5. QED
    BY <1>1, <1>2, <1>4 DEF TreeInv

\* The store only listens: what it does goes with a step of the action system.
LEMMA TreeListens == TreeNext => Next
BY DEF TreeNext, TreePerform, TreeTravel, TreeBeginGroup, TreeCancelGroup, TreeEndGroup, TreeToggle,
       TreeToggleUndone, TreeClear, TreeSave, Next, Edit, Manage

\* Every signal keeps the rows.
LEMMA TreeStep == Structure /\ Structure' /\ Records /\ TreeInv /\ [TreeNext]_<<vars, treeVars>> => TreeInv'
<1> SUFFICES ASSUME Structure, Structure', Records, TreeInv, [TreeNext]_<<vars, treeVars>>
             PROVE  TreeInv'
    OBVIOUS
<1>1. ASSUME NEW d \in Docs, TreePerform(d) PROVE TreeInv'
    BY <1>1, TreePerformKeeps
<1>2. CASE TreeTravel
    BY <1>2, TreeUngrouped DEF TreeTravel, Travel, Undo, Redo
<1>3. CASE TreeBeginGroup
    BY <1>3, TreeBeginKeeps
<1>4. ASSUME NEW k \in 0..MaxStack, TreeCancelGroup(k) PROVE TreeInv'
    BY <1>4, TreeCancelKeeps
<1>5. CASE TreeEndGroup
    BY <1>5, TreeEndKeeps
<1>6. CASE TreeToggle
    BY <1>6, TreeToggleKeeps
<1>7. ASSUME NEW i \in 1..MaxStack, TreeToggleUndone(i) PROVE TreeInv'
    <2>1. i \in Nat
        BY ConstantsAssumption
    <2>2. QED
        BY <1>7, <2>1, TreeToggleUndoneKeeps
<1>8. CASE TreeClear
    BY <1>8, TreeClearKeeps
<1>9. CASE TreeSave \/ UNCHANGED <<vars, treeVars>>
    <2>1. UNCHANGED <<undo_action_stack_, redo_action_stack_, group_stack_, rows, early>>
        BY <1>9 DEF TreeSave, Save, vars, treeVars, stacks
    <2>2. Ended' = Ended
        BY <2>1 DEF Ended, Grouped
    <2>3. QED
        BY <2>1, <2>2, TreeStays
<1>10. QED
    BY <1>1, <1>2, <1>3, <1>4, <1>5, <1>6, <1>7, <1>8, <1>9 DEF TreeNext

-----------------------------------------------------------------------------
(***************************************************************************)
(* The history window only listens to the action system: whatever is true  *)
(* of the undo history alone is true of the two together.                  *)
(***************************************************************************)
THEOREM TreeIsHistory == TreeSpec => Spec
<1>1. TreeInit => Init
    BY DEF TreeInit
<1>2. [TreeNext]_<<vars, treeVars>> => [Next]_vars
    BY TreeListens DEF treeVars
<1>3. QED
    BY <1>1, <1>2, PTL DEF TreeSpec, Spec

(***************************************************************************)
(* The inductive invariant of the two together: the rows are those of done *)
(* actions and, below them, those of the redo stack; and the rows of done  *)
(* actions are those of the undo stack less what has not ended, unless a   *)
(* failed cancel() showed some of it early.                                *)
(***************************************************************************)
THEOREM TreeInvariance == TreeSpec => [](IInv /\ TreeInv)
<1>1. TreeInit => TreeInv
    BY TreeInitShown
<1>2. IInv /\ IInv' /\ TreeInv /\ [TreeNext]_<<vars, treeVars>> => TreeInv'
    BY TreeStep DEF IInv
<1>3. TreeSpec => []IInv
    BY TreeIsHistory, Invariance, PTL
<1>4. QED
    BY <1>1, <1>2, <1>3, PTL DEF TreeSpec

(***************************************************************************)
(* The rows of the history window, patched after new actions, switched     *)
(* ones and cleared stacks and rebuilt after undo and redo, are the time   *)
(* line of the two stacks: for any documents, any nesting of groups and    *)
(* any number of actions.                                                  *)
(***************************************************************************)
THEOREM WindowRight == TreeSpec => []WindowShowsTimeline
<1>1. IInv /\ TreeInv => WindowShowsTimeline
    <2> SUFFICES ASSUME IInv, TreeInv PROVE WindowShowsTimeline
        OBVIOUS
    <2>1. PICK U \in Seq(UndoRows) : RowsShow(U)
        BY DEF TreeInv
    <2> DEFINE R == Rows(redo_action_stack_, FALSE)
    <2>2. R \in Seq(RedoRows) /\ rows = U \o R
        BY <2>1, RowsFacts DEF RowsShow, IInv, Structure, TypeOK
    <2>3. RedoRowsExact
        <3> HIDE DEF R
        <3>1. Without(rows, TRUE) = R
            BY <2>2, WithoutDone
        <3>2. QED
            BY <3>1 DEF R, RedoRowsExact
    <2>4. early = 0 => rows = Rebuilt(Ended, redo_action_stack_)
        BY <2>1 DEF RowsShow, Rebuilt
    <2>5. QED
        BY <2>3, <2>4 DEF WindowShowsTimeline, Ended
<1>2. QED
    BY <1>1, TreeInvariance, PTL

===============================================================================
