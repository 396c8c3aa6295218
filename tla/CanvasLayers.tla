------------------------------ MODULE CanvasLayers ------------------------------
(***************************************************************************)
(* synfig::Canvas and synfig::Layer as far as they keep the layers of one  *)
(* document in order: a composition, Root, and the inline canvases of its  *)
(* group layers.                                                           *)
(*                                                                         *)
(* A document is a record.  content holds the layers of a canvas as        *)
(* CanvasBase does, the blank handle that ends it included.  A layer keeps *)
(* the canvas it was last put in, canvas, also when it is taken out, and   *)
(* the set it belongs to, group; a canvas keeps its parent, and in db the  *)
(* pairs of sets and layers in it and below.  Positions count from 0.      *)
(***************************************************************************)
EXTENDS Naturals, FiniteSets, SequencesExt

CONSTANTS
    Layers,
    Root,
    Sub,          \* the inline canvas of each group layer
    Groups,       \* names of sets, none of which begins another
    NoGroup, NoCanvas,
    Blank         \* the handle that ends the list of a canvas

GroupLayers == DOMAIN Sub
Inline == {Sub[l] : l \in GroupLayers}
Canvases == {Root} \union Inline

ASSUME LayersAssumption ==
    /\ IsFiniteSet(Layers)
    /\ GroupLayers \subseteq Layers
    /\ Root \notin Inline
    /\ \A k, l \in GroupLayers : Sub[k] = Sub[l] => k = l
    /\ NoCanvas \notin Canvases
    /\ NoGroup \notin Groups
    /\ Blank \notin Layers

Size(d, c) == Len(d.content[c]) - 1

\* find() stops at end(), which is the blank handle, and *iter is compared with the layer.
Found(d, c, l) == l \in Range(d.content[c])
Index(d, c, l) == (CHOOSE i \in DOMAIN d.content[c] : d.content[c][i] = l) - 1

\* A canvas and those it is inside of.
Chain(d, c) ==
    LET up[k \in 0..Cardinality(GroupLayers)] ==
            IF k = 0 THEN {c}
            ELSE LET below == up[k - 1] IN below \union ({d.parent[x] : x \in below} \ {NoCanvas})
    IN  up[Cardinality(GroupLayers)]

AddGroupPair(d, c, g, l) ==
    LET chain == Chain(d, c)
    IN  [d EXCEPT !.db = [x \in Canvases |-> IF x \in chain THEN @[x] \union {<<g, l>>} ELSE @[x]]]
RemoveGroupPair(d, c, g, l) ==
    LET chain == Chain(d, c)
    IN  [d EXCEPT !.db = [x \in Canvases |-> IF x \in chain THEN @[x] \ {<<g, l>>} ELSE @[x]]]

\* Fault: the canvas of a group stays where it was.
SetCanvasAlone(d, l, c) == [d EXCEPT !.canvas[l] = c]

\* A group layer that comes to another canvas takes its own canvas along: the new parent
\* inherits the sets in it, but hands them on to nobody.
SetCanvas(d, l, c) ==
    IF l \in GroupLayers /\ d.canvas[l] # c /\ d.parent[Sub[l]] # c
      THEN [d EXCEPT !.canvas[l] = c, !.parent[Sub[l]] = c, !.db[c] = @ \union d.db[Sub[l]]]
      ELSE [d EXCEPT !.canvas[l] = c]

\* Fault: the sets of the new layer are not looked at.
InsertUnlisted(d, c, i, l) == SetCanvas([d EXCEPT !.content[c] = InsertAt(@, i + 1, l)], l, c)

Insert(d, c, i, l) ==
    LET e == SetCanvas([d EXCEPT !.content[c] = InsertAt(@, i + 1, l)], l, c)
    IN  IF d.group[l] = NoGroup THEN e ELSE AddGroupPair(e, c, d.group[l], l)

Erase(d, c, l) ==
    LET e == [d EXCEPT !.content[c] = RemoveAt(@, Index(d, c, l) + 1)]
    IN  IF d.group[l] = NoGroup THEN e ELSE RemoveGroupPair(e, c, d.group[l], l)

\* A layer tells the canvas it is in of its set.
Holder(d, l) == {c \in Canvases : Found(d, c, l)}

LeaveGroup(d, l) ==
    LET out == [d EXCEPT !.group[l] = NoGroup]
    IN  IF d.group[l] = NoGroup \/ Holder(d, l) = {} THEN out
        ELSE RemoveGroupPair(out, CHOOSE c \in Holder(d, l) : TRUE, d.group[l], l)

JoinGroup(d, l, g) ==
    LET e == [LeaveGroup(d, l) EXCEPT !.group[l] = g]
    IN  IF g = d.group[l] THEN d
        ELSE IF Holder(d, l) = {} THEN e
        ELSE AddGroupPair(e, CHOOSE c \in Holder(d, l) : TRUE, g, l)

Members(d, g) == {l \in Layers : <<g, l>> \in d.db[Root]}
SetNames(d) == {p[1] : p \in d.db[Root]}

\* Layers join the sets named beside them, one after another.
JoinAll(d, layers, names) ==
    LET to[i \in 0..Len(layers)] ==
            IF i = 0 THEN d ELSE LET e == to[i - 1] IN JoinGroup(e, layers[i], names[i])
    IN  to[Len(layers)]

\* Layers leave the sets named beside them, those that are in them.
LeaveAll(d, layers, names) ==
    LET to[i \in 0..Len(layers)] ==
            IF i = 0 THEN d
            ELSE LET e == to[i - 1] IN IF e.group[layers[i]] = names[i] THEN LeaveGroup(e, layers[i]) ELSE e
    IN  to[Len(layers)]

\* All of a set, in an order of no consequence.
Listed(d, g) == SetToSeq({l \in Members(d, g) : d.group[l] = g})
RenameGroup(d, old, new) == JoinAll(d, Listed(d, old), [i \in DOMAIN Listed(d, old) |-> new])
Disband(d, g) == LeaveAll(d, Listed(d, g), [i \in DOMAIN Listed(d, g) |-> g])

-----------------------------------------------------------------------------
\* The canvases and layers the user sees.
Open(d) ==
    LET down[k \in 0..Cardinality(GroupLayers)] ==
            IF k = 0 THEN {Root}
            ELSE LET above == down[k - 1]
                 IN  above \union {Sub[l] : l \in {m \in GroupLayers : \E c \in above : Found(d, c, m)}}
    IN  down[Cardinality(GroupLayers)]

Shown(d) == LET open == Open(d) IN {l \in Layers : \E c \in open : Found(d, c, l)}

Visible(d) ==
    LET open == Open(d)
        shown == Shown(d)
    IN  [content |-> [c \in Canvases |-> IF c \in open THEN d.content[c] ELSE <<Blank>>],
         group |-> [l \in Layers |-> IF l \in shown THEN d.group[l] ELSE NoGroup]]

VisibleDocs == [content : [Canvases -> Seq(Layers \union {Blank})], group : [Layers -> Groups \union {NoGroup}]]

DocumentType(d) ==
    d \in [content : [Canvases -> Seq(Layers \union {Blank})],
           canvas : [Layers -> Canvases \union {NoCanvas}],
           parent : [Canvases -> Canvases \union {NoCanvas}],
           group : [Layers -> Groups \union {NoGroup}],
           db : [Canvases -> SUBSET (Groups \X Layers)]]

\* The blank handle ends the list of every canvas, and is nowhere else.
Ended(d) ==
    \A c \in Canvases : \A i \in DOMAIN d.content[c] :
        d.content[c][i] = Blank <=> i = Len(d.content[c])

\* No layer is in two places of the contents of canvases.
Once(content) ==
    \A b, c \in Canvases : \A i \in DOMAIN content[b], j \in DOMAIN content[c] :
        content[b][i] \in Layers /\ content[b][i] = content[c][j] => b = c /\ i = j

\* A layer that is in a canvas knows in which, and so does the canvas of a group.
Situated(d) ==
    /\ \A c \in Canvases, l \in Layers : Found(d, c, l) => d.canvas[l] = c
    /\ \A l \in GroupLayers : d.canvas[l] # NoCanvas => d.parent[Sub[l]] = d.canvas[l]

\* As it is read from a file.
Loaded(d) ==
    /\ DocumentType(d)
    /\ \A c \in Canvases : Found(d, c, Blank)
    /\ Ended(d)
    /\ Once(d.content)
    /\ Situated(d)

=============================================================================
