---------------------------- MODULE MCValueActions ----------------------------
EXTENDS ValueActions

CONSTANTS pa, pb, la, na, nb

MCLayerOf == (pa :> la) @@ (pb :> la)

Document(dyn, users, node, id) ==
    [static |-> [p \in Params |-> 0], dyn |-> dyn,
     node |-> [n \in Objects |-> IF n \in DOMAIN node THEN node[n] ELSE Free],
     users |-> [n \in Objects |-> IF n \in DOMAIN users THEN users[n] ELSE {}],
     id |-> [n \in Objects |-> IF n \in DOMAIN id THEN id[n] ELSE NoId],
     list |-> DOMAIN id,
     stale |-> Objects \union Layers, left |-> {}, times |-> [x \in Objects \union Layers |-> {}]]

\* A document of constants; and one where a parameter is animated, and another is a switch of the
\* constant that is exported.
MCStartDocs ==
    {Document((pa :> None) @@ (pb :> None), <<>>, <<>>, <<>>),
     Document((pa :> 1) @@ (pb :> 3), (1 :> {la}) @@ (3 :> {la}) @@ (4 :> {3}),
              <<Animated(0 :> 2), Waypoint(1), Switch(4), Const(1)>>, 4 :> na)}

\* An action that is redone works on the nodes and waypoints it was first performed with, which may
\* have been made anew, or be gone.
Finds(a) ==
    LET seen == Seen(doc)
    IN  /\ \A place \in PlacesOf(a) : place.kind = "link" => place.node \in seen
        /\ a.name \in {"ValueDescConnect", "WaypointRemove"} => a.node \in seen
        /\ a.name = "ValueNodeRename" => a.node \in doc.list
        /\ a.name = "WaypointRemove" => a.waypoint \in Range(Points(doc, a.node))
        /\ a.name = "WaypointRemove" /\ a.ref # None => doc.node[a.ref].value = doc.node[a.waypoint].value
        /\ a.name = "ValueDescLink" =>
             a.node \in seen \/ \A place \in Range(a.places) : NodeAt(doc, place) = None

SoundNext == Room(doc, 2) /\ (Work \/ Undo \/ (Redo /\ Finds(Head(undone)))) /\ Flat(doc')

FlatSpec == Init /\ [][Next /\ Flat(doc')]_vars
SoundSpec == Init /\ [][SoundNext]_vars
=============================================================================
