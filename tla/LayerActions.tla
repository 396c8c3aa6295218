------------------------------ MODULE LayerActions ------------------------------
(***************************************************************************)
(* The actions that arrange layers and sets (synfigapp/actions/layer*.cpp, *)
(* group*.cpp), done, undone and redone: see ActionHistory.                *)
(***************************************************************************)
EXTENDS CanvasLayers

CONSTANTS
    StartDoc,
    Selections,      \* what the user selects: sequences of layers
    MaxActions       \* bound: actions on both stacks together

VARIABLES
    doc,
    done, undone, promise     \* see ActionHistory

ASSUME StartAssumption == Loaded(StartDoc) /\ Selections \subseteq Seq(Layers) \ {<<>>}

vars == <<doc, done, undone, promise>>

OK(d, a) == [ok |-> TRUE, doc |-> d, act |-> a]
Throw(d, a) == [ok |-> FALSE, doc |-> d, act |-> a]

-----------------------------------------------------------------------------
(* Single actions.                                                         *)

LayerAdd(c, l) == [name |-> "LayerAdd", canvas |-> c, layer |-> l]

PerformLayerAdd(a, d) == OK(Insert(SetCanvas(d, a.layer, a.canvas), a.canvas, 0, a.layer), a)

UndoLayerAdd(a, d) ==
    IF Found(d, a.canvas, a.layer) THEN OK(Erase(d, a.canvas, a.layer), a) ELSE Throw(d, a)

LayerRemove(c, layers) ==
    [name |-> "LayerRemove", canvas |-> c, layers |-> layers, depth |-> [i \in DOMAIN layers |-> 0]]

\* The canvas of the action becomes that of the layer it has come to.
PerformLayerRemove(a, d) ==
    LET to[i \in 0..Len(a.layers)] ==
            IF i = 0 THEN OK(d, a)
            ELSE LET r == to[i - 1]
                     l == a.layers[i]
                     sub == r.doc.canvas[l]
                 IN  IF ~r.ok THEN r
                     ELSE IF ~Found(r.doc, sub, l) \/ (sub # r.act.canvas /\ sub = Root) THEN Throw(r.doc, r.act)
                     ELSE OK(Erase(r.doc, sub, l),
                             [r.act EXCEPT !.canvas = sub, !.depth[i] = Index(r.doc, sub, l)])
    IN  to[Len(a.layers)]

UndoLayerRemove(a, d) ==
    LET from[i \in 1..(Len(a.layers) + 1)] ==
            IF i = Len(a.layers) + 1 THEN OK(d, a)
            ELSE LET r == from[i + 1]
                     at == Min({r.act.depth[i], Size(r.doc, a.canvas)})
                     e == SetCanvas(r.doc, a.layers[i], a.canvas)
                 IN  OK(Insert(e, a.canvas, at, a.layers[i]), [r.act EXCEPT !.depth[i] = at])
    IN  from[1]

\* dest is NoCanvas where the layer is to stay in its canvas.
LayerMove(c, l, dest, new) ==
    [name |-> "LayerMove", canvas |-> c, layer |-> l, src |-> NoCanvas, dest |-> dest, old |-> 0, new |-> new]

\* Fault: where the layer comes from is found out the first time only.
SourceFirst(a, d) ==
    LET src == IF a.src = NoCanvas THEN d.canvas[a.layer] ELSE a.src
    IN  [a EXCEPT !.src = src, !.dest = IF @ = NoCanvas THEN src ELSE @,
                  !.old = IF a.src = NoCanvas /\ Found(d, src, a.layer) THEN Index(d, src, a.layer) ELSE @]

Source(a, d) ==
    LET src == d.canvas[a.layer]
    IN  [a EXCEPT !.src = src, !.dest = IF @ = NoCanvas THEN src ELSE @,
                  !.old = IF Found(d, src, a.layer) THEN Index(d, src, a.layer) ELSE @]

\* There is one composition: all roots are the same.
PerformLayerMove(a, d) ==
    LET b == Source(a, d)
        depth == Min({b.new, Size(d, b.dest)})
        moved == Insert(Erase(d, b.src, b.layer), b.dest, depth, b.layer)
    IN  IF ~Found(d, b.src, b.layer) THEN Throw(d, b)
        ELSE IF b.old = b.new /\ b.src = b.dest THEN OK(d, b)
        ELSE OK(moved, b)

UndoLayerMove(a, d) ==
    IF ~Found(d, a.dest, a.layer) \/ (a.canvas # a.dest /\ a.dest = Root) THEN Throw(d, a)
    ELSE IF a.old = a.new /\ a.src = a.dest THEN OK(d, a)
    ELSE OK(Insert(Erase(d, a.dest, a.layer), a.src, a.old, a.layer), a)

GroupAddLayers(layers, g) ==
    [name |-> "GroupAddLayers", layers |-> layers, group |-> g, old |-> [i \in DOMAIN layers |-> NoGroup]]

PerformGroupAddLayers(a, d) ==
    OK(JoinAll(d, a.layers, [i \in DOMAIN a.layers |-> a.group]),
       [a EXCEPT !.old = [i \in DOMAIN a.layers |-> d.group[a.layers[i]]]])

UndoGroupAddLayers(a, d) ==
    OK(JoinAll(LeaveAll(d, a.layers, [i \in DOMAIN a.layers |-> a.group]), a.layers, a.old), a)

GroupRemoveLayers(layers) ==
    [name |-> "GroupRemoveLayers", layers |-> layers, old |-> [i \in DOMAIN layers |-> NoGroup]]

PerformGroupRemoveLayers(a, d) ==
    LET old == [i \in DOMAIN a.layers |-> d.group[a.layers[i]]]
    IN  OK(LeaveAll(d, a.layers, old), [a EXCEPT !.old = old])

UndoGroupRemoveLayers(a, d) ==
    OK(JoinAll(d, a.layers, a.old), a)

GroupRemove(g) == [name |-> "GroupRemove", group |-> g, list |-> {}]

PerformGroupRemove(a, d) == OK(Disband(d, a.group), [a EXCEPT !.list = Members(d, a.group)])
UndoGroupRemove(a, d) == OK(JoinAll(d, SetToSeq(a.list), [i \in 1..Cardinality(a.list) |-> a.group]), a)

GroupRename(old, new) == [name |-> "GroupRename", group |-> old, new |-> new]

PerformGroupRename(a, d) ==
    IF a.new \in SetNames(d) THEN Throw(d, a) ELSE OK(RenameGroup(d, a.group, a.new), a)
UndoGroupRename(a, d) == OK(RenameGroup(d, a.new, a.group), a)

PerformOne(a, d) ==
    CASE a.name = "LayerAdd" -> PerformLayerAdd(a, d)
      [] a.name = "LayerRemove" -> PerformLayerRemove(a, d)
      [] a.name = "LayerMove" -> PerformLayerMove(a, d)
      [] a.name = "GroupAddLayers" -> PerformGroupAddLayers(a, d)
      [] a.name = "GroupRemoveLayers" -> PerformGroupRemoveLayers(a, d)
      [] a.name = "GroupRemove" -> PerformGroupRemove(a, d)
      [] a.name = "GroupRename" -> PerformGroupRename(a, d)

UndoOne(a, d) ==
    CASE a.name = "LayerAdd" -> UndoLayerAdd(a, d)
      [] a.name = "LayerRemove" -> UndoLayerRemove(a, d)
      [] a.name = "LayerMove" -> UndoLayerMove(a, d)
      [] a.name = "GroupAddLayers" -> UndoGroupAddLayers(a, d)
      [] a.name = "GroupRemoveLayers" -> UndoGroupRemoveLayers(a, d)
      [] a.name = "GroupRemove" -> UndoGroupRemove(a, d)
      [] a.name = "GroupRename" -> UndoGroupRename(a, d)

-----------------------------------------------------------------------------
(* Action::Super: its list is made by prepare, and performed all or not    *)
(* at all.                                                                 *)

LayerRaise(c, layers) == [name |-> "LayerRaise", canvas |-> c, layers |-> layers, list |-> <<>>]
LayerLower(c, layers) == [name |-> "LayerLower", canvas |-> c, layers |-> layers, list |-> <<>>]

Supers == {"LayerRaise", "LayerLower", "LayerEncapsulate", "LayerDuplicate"}

\* By one position each, as counted before any of them has moved; those at the end stay.
Shift(a, d, layers, by) ==
    LET at == [i \in DOMAIN layers |-> Index(d, d.canvas[layers[i]], layers[i])]
        end == [i \in DOMAIN layers |-> IF by < 0 THEN 0 ELSE Size(d, d.canvas[layers[i]]) - 1]
        moves[i \in 0..Len(layers)] ==
            IF i = 0 THEN <<>>
            ELSE IF at[i] = end[i] THEN moves[i - 1]
            ELSE Append(moves[i - 1], LayerMove(a.canvas, layers[i], NoCanvas, at[i] + by))
    IN  moves[Len(layers)]

\* LayerRaise and LayerLower make their list anew each time.
Prepared(a, d) ==
    IF a.name \notin {"LayerRaise", "LayerLower"} THEN OK(d, a)
    ELSE IF \E l \in Range(a.layers) : ~Found(d, d.canvas[l], l) THEN Throw(d, [a EXCEPT !.list = <<>>])
    ELSE OK(d, [a EXCEPT !.list = IF a.name = "LayerRaise" THEN Shift(a, d, a.layers, -1)
                                  ELSE Shift(a, d, Reverse(a.layers), 1)])

\* LayerEncapsulate and LayerDuplicate make theirs the first time, for layers of one canvas.
LayerEncapsulate(d, c, layers, g) ==
    LET Layer(k) == Reverse(layers)[(k + 1) \div 2]
        top == Min({Index(d, c, l) : l \in Range(layers)})
    IN  [name |-> "LayerEncapsulate",
         list |-> <<LayerAdd(c, g), LayerMove(c, g, NoCanvas, top)>>
                  \o [k \in 1..(2 * Len(layers)) |->
                         IF k % 2 = 1 THEN LayerRemove(c, <<Layer(k)>>) ELSE LayerAdd(Sub[g], Layer(k))]]

LayerDuplicate(d, c, l, copy) ==
    [name |-> "LayerDuplicate",
     list |-> <<LayerAdd(c, copy), LayerMove(c, copy, NoCanvas, Index(d, c, l))>>]

\* Nothing is let go of while it can come back.
Settled(d, acts) == d

INSTANCE ActionHistory

-----------------------------------------------------------------------------
(* What the user does.                                                     *)

Init == doc = StartDoc /\ done = <<>> /\ undone = <<>> /\ promise = <<>>

\* Layers and canvases that were never in the document.
New(l) == doc.canvas[l] = NoCanvas

\* What is selected is seen, and of one canvas, that of the action.
Selected(s) == Range(s) \subseteq Shown(doc) /\ \A l \in Range(s) : doc.canvas[l] = doc.canvas[s[1]]

Add == \E l \in {m \in Layers \ GroupLayers : New(m)}, c \in Open(doc) : Do(LayerAdd(c, l), doc)

RemoveLayers == \E s \in Selections : Selected(s) /\ Do(LayerRemove(doc.canvas[s[1]], s), doc)

\* Dropped in front of another row, or behind the last.
Drag ==
    \E l \in Shown(doc), c \in Open(doc) :
      \E i \in 0..(IF c = doc.canvas[l] THEN Size(doc, c) - 1 ELSE Size(doc, c)) :
        /\ c = doc.canvas[l] => i # Index(doc, c, l)
        /\ Do(LayerMove(c, l, c, i), doc)

Raise == \E s \in Selections : Selected(s) /\ Do(LayerRaise(doc.canvas[s[1]], s), doc)
Lower == \E s \in Selections : Selected(s) /\ Do(LayerLower(doc.canvas[s[1]], s), doc)

\* The new canvas is created inside of that of the layers.
Encapsulate ==
    \E s \in Selections, g \in {m \in GroupLayers : New(m)} :
      /\ Selected(s)
      /\ LET c == doc.canvas[s[1]] IN Do(LayerEncapsulate(doc, c, s, g), [doc EXCEPT !.parent[Sub[g]] = c])

\* A copy is in the set of the layer it is of.
Duplicate ==
    \E l \in Shown(doc) \ GroupLayers, copy \in {m \in Layers \ GroupLayers : New(m)} :
      Do(LayerDuplicate(doc, doc.canvas[l], l, copy), [doc EXCEPT !.group[copy] = doc.group[l]])

AddToSet == \E s \in Selections, g \in Groups : Selected(s) /\ Do(GroupAddLayers(s, g), doc)
RemoveFromSet == \E s \in Selections : Selected(s) /\ Do(GroupRemoveLayers(s), doc)
RemoveSet == \E g \in SetNames(doc) : Do(GroupRemove(g), doc)
RenameSet == \E g \in SetNames(doc), new \in Groups : Do(GroupRename(g, new), doc)

Work ==
    \/ Add
    \/ RemoveLayers
    \/ Drag
    \/ Raise
    \/ Lower
    \/ Encapsulate
    \/ Duplicate
    \/ AddToSet
    \/ RemoveFromSet
    \/ RemoveSet
    \/ RenameSet

Next == Work \/ Undo \/ Redo

Spec == Init /\ [][Next]_vars

-----------------------------------------------------------------------------
(* Properties.                                                             *)

\* No canvas is inside of itself.
Nested(d) == \A c \in Inline : d.parent[c] # NoCanvas => c \notin Chain(d, d.parent[c])

\* The layers that are seen form a tree: each is in one place, knows in which, and so does the
\* canvas of a group.
TreeShape ==
    /\ Once(doc.content)
    /\ \A l \in Shown(doc) : Found(doc, doc.canvas[l], l)
    /\ \A l \in Shown(doc) \intersect GroupLayers : doc.parent[Sub[l]] = doc.canvas[l]

\* The sets window lists every layer that is seen under the set it belongs to.
SetsListed ==
    \A l \in Shown(doc) : doc.group[l] # NoGroup => <<doc.group[l], l>> \in doc.db[Root]

\* Of saving nothing is said here.
Empty == [content |-> [c \in Canvases |-> <<Blank>>], group |-> [l \in Layers |-> NoGroup]]

\* The real actions keep the promises of the history: undo shows what was there before, and redo
\* what was there after.
History == INSTANCE EditHistory WITH
    Docs <- VisibleDocs,
    past <- [i \in DOMAIN done |-> done[i].before],
    present <- Visible(doc),
    future <- promise,
    redoable <- Len(undone),
    saved <- Empty

ImplementsHistory == History!Spec

=============================================================================
