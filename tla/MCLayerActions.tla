----------------------------- MODULE MCLayerActions -----------------------------
EXTENDS LayerActions, TLC

CONSTANTS la, lb, le, ln, lg, lh, group1, group2, s1

MCSub == (lg :> group1) @@ (lh :> group2)
MCSelections == {<<la>>, <<lb>>, <<lg>>, <<lh>>, <<la, lg>>, <<lg, la>>, <<lb, le>>}

\* A layer, and a group that holds two others.
MCStart ==
    [content |-> (Root :> <<la, lg, Blank>>) @@ (group1 :> <<lb, le, Blank>>) @@ (group2 :> <<Blank>>),
     canvas |-> (la :> Root) @@ (lg :> Root) @@ (lb :> group1) @@ (le :> group1) @@ (ln :> NoCanvas) @@ (lh :> NoCanvas),
     parent |-> (Root :> NoCanvas) @@ (group1 :> Root) @@ (group2 :> NoCanvas),
     group |-> (la :> NoGroup) @@ (lg :> NoGroup) @@ (lb :> s1) @@ (le :> NoGroup) @@ (ln :> NoGroup) @@ (lh :> NoGroup),
     db |-> (Root :> {<<s1, lb>>}) @@ (group1 :> {<<s1, lb>>}) @@ (group2 :> {})]

\* A removal of several layers that is redone in another document may stop half way.
RemovesSeveral ==
    undone # <<>> /\ promise = <<>> /\ Head(undone).name = "LayerRemove" /\ Len(Head(undone).layers) > 1

\* A move that is redone in another document may go past the end of a canvas, or put a group
\* into itself.
SoundNext == (Work \/ Undo \/ (Redo /\ ~RemovesSeveral)) /\ Ended(doc') /\ Nested(doc')

SoundSpec == Init /\ [][SoundNext]_vars
=============================================================================
