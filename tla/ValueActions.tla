------------------------------ MODULE ValueActions ------------------------------
(***************************************************************************)
(* The actions that edit values (synfigapp/actions/valuedesc*.cpp,         *)
(* valuenode*.cpp, layerparam*.cpp, waypoint*.cpp), done, undone and       *)
(* redone: see ActionHistory.                                              *)
(*                                                                         *)
(* What the user edits is a place, a ValueDesc: a parameter of a layer, a  *)
(* link of a node, or an exported node by its name.  Which node is there   *)
(* is found out when it is needed, not when the place is chosen.           *)
(***************************************************************************)
EXTENDS ValueGraph, SequencesExt

CONSTANTS
    StartDocs,
    MaxActions       \* bound: actions on both stacks together

VARIABLES
    doc,
    done, undone, promise     \* see ActionHistory

ASSUME StartAssumption == \A d \in StartDocs : Loaded(d)

vars == <<doc, done, undone, promise>>

OK(d, a) == [ok |-> TRUE, doc |-> d, act |-> a]
Throw(d, a) == [ok |-> FALSE, doc |-> d, act |-> a]

-----------------------------------------------------------------------------
(* Places.                                                                 *)

Param(p) == [kind |-> "param", param |-> p]
Link(n, i) == [kind |-> "link", node |-> n, index |-> i]
Export(id) == [kind |-> "export", id |-> id]

NodeAt(d, place) ==
    IF place.kind = "param" THEN d.dyn[place.param]
    ELSE IF place.kind = "link" THEN d.node[place.node].links[place.index]
    ELSE ByName(d, place.id)

ValueAt(d, place, t) ==
    IF NodeAt(d, place) = None THEN d.static[place.param] ELSE Value(d, NodeAt(d, place), t)

-----------------------------------------------------------------------------
(* Single actions.                                                         *)

LayerParamSet(p, v) == [name |-> "LayerParamSet", param |-> p, old |-> 0, new |-> v]

PerformLayerParamSet(a, d) ==
    IF d.dyn[a.param] # None THEN Throw(d, a)
    ELSE OK(Changed([d EXCEPT !.static[a.param] = a.new], LayerOf[a.param]), [a EXCEPT !.old = d.static[a.param]])
UndoLayerParamSet(a, d) == OK(Changed([d EXCEPT !.static[a.param] = a.old], LayerOf[a.param]), a)

LayerParamConnect(p, n) == [name |-> "LayerParamConnect", param |-> p, node |-> n, was |-> None, old |-> 0]

\* Setting the parameter before it is connected sets its own value too.
PerformLayerParamConnect(a, d) ==
    LET e == ConnectParam([d EXCEPT !.static[a.param] = Value(d, a.node, 0)], a.param, a.node)
    IN  OK(Changed(Changed(e, LayerOf[a.param]), a.node),
           [a EXCEPT !.was = d.dyn[a.param], !.old = d.static[a.param]])

UndoLayerParamConnect(a, d) ==
    IF a.was # None THEN OK(Changed(ConnectParam(d, a.param, a.was), a.was), a)
    ELSE OK(Changed([DisconnectParam(d, a.param) EXCEPT !.static[a.param] = a.old], LayerOf[a.param]), a)

LayerParamDisconnect(p, t) == [name |-> "LayerParamDisconnect", param |-> p, time |-> t, was |-> None]

PerformLayerParamDisconnect(a, d) ==
    LET was == d.dyn[a.param]
        e == [DisconnectParam(d, a.param) EXCEPT !.static[a.param] = Value(d, was, a.time)]
    IN  IF was = None THEN Throw(d, a) ELSE OK(Changed(Changed(e, LayerOf[a.param]), was), [a EXCEPT !.was = was])
UndoLayerParamDisconnect(a, d) == OK(Changed(ConnectParam(d, a.param, a.was), a.was), a)

ValueNodeLinkConnect(s, i, n) == [name |-> "ValueNodeLinkConnect", parent |-> s, index |-> i, node |-> n, was |-> None]

PerformValueNodeLinkConnect(a, d) ==
    OK(SetLink(d, a.parent, a.index, a.node), [a EXCEPT !.was = d.node[a.parent].links[a.index]])
UndoValueNodeLinkConnect(a, d) == OK(SetLink(d, a.parent, a.index, a.was), a)

ValueNodeLinkDisconnect(s, i, t) == [name |-> "ValueNodeLinkDisconnect", parent |-> s, index |-> i, time |-> t, was |-> None]

\* A constant is made each time.
PerformValueNodeLinkDisconnect(a, d) ==
    LET was == d.node[a.parent].links[a.index]
    IN  OK(SetLink(Created(d, Const(Value(d, was, a.time))), a.parent, a.index, Fresh(d)), [a EXCEPT !.was = was])
UndoValueNodeLinkDisconnect(a, d) == OK(SetLink(d, a.parent, a.index, a.was), a)

ValueNodeConstSet(n, v) == [name |-> "ValueNodeConstSet", node |-> n, old |-> 0, new |-> v]

PerformValueNodeConstSet(a, d) == OK(SetConst(d, a.node, a.new), [a EXCEPT !.old = d.node[a.node].value])
UndoValueNodeConstSet(a, d) == OK(SetConst(d, a.node, a.old), a)

ValueNodeAdd(n, id) == [name |-> "ValueNodeAdd", node |-> n, id |-> id]

PerformValueNodeAdd(a, d) ==
    IF CanAddValueNode(d, a.node, a.id) THEN OK(AddValueNode(d, a.node, a.id), a) ELSE Throw(d, a)
UndoValueNodeAdd(a, d) == IF a.node \in d.list THEN OK(RemoveValueNode(d, a.node), a) ELSE Throw(d, a)

ValueNodeRemove(n) == [name |-> "ValueNodeRemove", node |-> n, old |-> NoId]

PerformValueNodeRemove(a, d) ==
    IF a.node \in d.list THEN OK(RemoveValueNode(d, a.node), [a EXCEPT !.old = d.id[a.node]]) ELSE Throw(d, a)
UndoValueNodeRemove(a, d) ==
    IF CanAddValueNode(d, a.node, a.old) THEN OK(AddValueNode(d, a.node, a.old), a) ELSE Throw(d, a)

ValueNodeRename(n, new) == [name |-> "ValueNodeRename", node |-> n, old |-> NoId, new |-> new]

PerformValueNodeRename(a, d) ==
    IF Named(d, a.new) # {} THEN Throw(d, a)
    ELSE OK([d EXCEPT !.id[a.node] = a.new], [a EXCEPT !.old = d.id[a.node]])
UndoValueNodeRename(a, d) ==
    IF Named(d, a.old) # {} THEN Throw(d, a) ELSE OK([d EXCEPT !.id[a.node] = a.old], a)

ValueNodeReplace(dest, src) == [name |-> "ValueNodeReplace", dest |-> dest, src |-> src, undoable |-> TRUE]

\* Fault: whether src is used elsewhere is asked when it has replaced dest.
ReplaceThenAsk(a, d) ==
    LET e == IF Exported(d, a.src) THEN d ELSE [d EXCEPT !.id[a.src] = d.id[a.dest]]
        f == Replace(e, a.dest, a.src)
    IN  IF a.dest = a.src \/ ~Referenced(d, a.dest) THEN Throw(d, a)
        ELSE OK(f, [a EXCEPT !.undoable = ~Exported(d, a.src) /\ ~Referenced(f, a.src)])

\* A node that is not exported takes the name of the one it replaces.
PerformValueNodeReplace(a, d) ==
    LET e == IF Exported(d, a.src) THEN d ELSE [d EXCEPT !.id[a.src] = d.id[a.dest]]
        b == [a EXCEPT !.undoable = ~Exported(d, a.src) /\ ~Referenced(d, a.src)]
    IN  IF a.dest = a.src THEN Throw(d, a)
        ELSE IF ~Referenced(d, a.dest) THEN Throw(e, b)
        ELSE OK(Replace(e, a.dest, a.src), b)

UndoValueNodeReplace(a, d) ==
    IF ~a.undoable \/ ~Referenced(d, a.src) THEN Throw(d, a)
    ELSE OK([Replace(d, a.src, a.dest) EXCEPT !.id[a.src] = NoId], a)

WaypointAdd(n, w, t) == [name |-> "WaypointAdd", node |-> n, waypoint |-> w, time |-> t]

PerformWaypointAdd(a, d) ==
    IF a.time \in DOMAIN Points(d, a.node) \/ a.waypoint \in Range(Points(d, a.node)) THEN Throw(d, a)
    ELSE OK(Changed(AddPoint(d, a.node, a.waypoint, a.time), a.node), a)
UndoWaypointAdd(a, d) ==
    IF a.waypoint \notin Range(Points(d, a.node)) THEN Throw(d, a)
    ELSE OK(Changed(ErasePoint(d, a.node, a.waypoint), a.node), a)

WaypointSet(n, w, v) == [name |-> "WaypointSet", node |-> n, waypoint |-> w, new |-> v, old |-> <<>>]

\* It is part of a list made in the same document, which names a waypoint that is there, and what
\* it was is recorded anew each time.
PerformWaypointSet(a, d) ==
    OK(Changed([d EXCEPT !.node[a.waypoint].value = a.new], a.node),
       [a EXCEPT !.old = Append(@, d.node[a.waypoint].value)])
UndoWaypointSet(a, d) ==
    IF a.waypoint \notin Range(Points(d, a.node)) THEN Throw(d, a)
    ELSE OK(Changed([d EXCEPT !.node[a.waypoint].value = Last(a.old)], a.node), a)

WaypointRemove(n, w, t) == [name |-> "WaypointRemove", node |-> n, waypoint |-> w, time |-> t, ref |-> None]

\* Fault: fix 2256600 is missing.
KeepName(d, from, to) == d

\* The name goes from one node to the other, where that has none.
Rename(d, from, to) ==
    IF Exported(d, from) /\ ~Exported(d, to) THEN AddValueNode(RemoveValueNode(d, from), to, d.id[from]) ELSE d
CanRename(d, from, to) == Exported(d, from) /\ ~Exported(d, to) => from \in d.list

\* With the last of its waypoints an animated node is replaced by a constant, which is kept.
PerformWaypointRemove(a, d) ==
    LET e == ErasePoint(d, a.node, a.waypoint)
        make == a.ref = None
        f == IF make THEN Created(e, Const(d.node[a.waypoint].value)) ELSE e
        b == IF make THEN [a EXCEPT !.ref = Fresh(e)] ELSE a
    IN  IF a.waypoint \notin Range(Points(d, a.node)) THEN Throw(d, a)
        ELSE IF DOMAIN Points(e, a.node) # {} THEN OK(Changed(e, a.node), a)
        ELSE IF ~CanRename(f, b.node, b.ref) THEN Throw(f, b)
        ELSE OK(Changed(Replace(Rename(f, b.node, b.ref), b.node, b.ref), b.node), b)

\* Fault: what used the constant is not given back to the animated node.
UndoWithoutReplace(a, d) ==
    IF a.time \in DOMAIN Points(d, a.node) THEN Throw(d, a)
    ELSE OK(Changed(AddPoint(d, a.node, a.waypoint, a.time), a.node), a)

UndoWaypointRemove(a, d) ==
    LET back == Replace(Rename(d, a.ref, a.node), a.ref, a.node)
        e == IF a.ref = None THEN d
             ELSE [back EXCEPT !.node[a.waypoint].value = d.node[a.ref].value]
    IN  IF \/ a.ref # None /\ (DOMAIN Points(d, a.node) # {} \/ ~CanRename(d, a.ref, a.node))
           \/ a.time \in DOMAIN Points(d, a.node)
           \/ a.waypoint \in Range(Points(d, a.node))
        THEN Throw(d, a)
        ELSE OK(Changed(AddPoint(e, a.node, a.waypoint, a.time), a.node), a)

PerformOne(a, d) ==
    CASE a.name = "LayerParamSet" -> PerformLayerParamSet(a, d)
      [] a.name = "LayerParamConnect" -> PerformLayerParamConnect(a, d)
      [] a.name = "LayerParamDisconnect" -> PerformLayerParamDisconnect(a, d)
      [] a.name = "ValueNodeLinkConnect" -> PerformValueNodeLinkConnect(a, d)
      [] a.name = "ValueNodeLinkDisconnect" -> PerformValueNodeLinkDisconnect(a, d)
      [] a.name = "ValueNodeConstSet" -> PerformValueNodeConstSet(a, d)
      [] a.name = "ValueNodeAdd" -> PerformValueNodeAdd(a, d)
      [] a.name = "ValueNodeRemove" -> PerformValueNodeRemove(a, d)
      [] a.name = "ValueNodeRename" -> PerformValueNodeRename(a, d)
      [] a.name = "ValueNodeReplace" -> PerformValueNodeReplace(a, d)
      [] a.name = "WaypointAdd" -> PerformWaypointAdd(a, d)
      [] a.name = "WaypointSet" -> PerformWaypointSet(a, d)
      [] a.name = "WaypointRemove" -> PerformWaypointRemove(a, d)

UndoOne(a, d) ==
    CASE a.name = "LayerParamSet" -> UndoLayerParamSet(a, d)
      [] a.name = "LayerParamConnect" -> UndoLayerParamConnect(a, d)
      [] a.name = "LayerParamDisconnect" -> UndoLayerParamDisconnect(a, d)
      [] a.name = "ValueNodeLinkConnect" -> UndoValueNodeLinkConnect(a, d)
      [] a.name = "ValueNodeLinkDisconnect" -> UndoValueNodeLinkDisconnect(a, d)
      [] a.name = "ValueNodeConstSet" -> UndoValueNodeConstSet(a, d)
      [] a.name = "ValueNodeAdd" -> UndoValueNodeAdd(a, d)
      [] a.name = "ValueNodeRemove" -> UndoValueNodeRemove(a, d)
      [] a.name = "ValueNodeRename" -> UndoValueNodeRename(a, d)
      [] a.name = "ValueNodeReplace" -> UndoValueNodeReplace(a, d)
      [] a.name = "WaypointAdd" -> UndoWaypointAdd(a, d)
      [] a.name = "WaypointSet" -> UndoWaypointSet(a, d)
      [] a.name = "WaypointRemove" -> UndoWaypointRemove(a, d)

-----------------------------------------------------------------------------
(* Actions on a place: each finds out what is there, and makes its list,   *)
(* whenever it is performed.                                               *)

ValueDescConnect(place, n) == [name |-> "ValueDescConnect", place |-> place, node |-> n, list |-> <<>>]
ValueDescConvert(place, t) == [name |-> "ValueDescConvert", place |-> place, time |-> t, list |-> <<>>]
ValueDescDisconnect(place, t) == [name |-> "ValueDescDisconnect", place |-> place, time |-> t, list |-> <<>>]
ValueDescExport(place, id) == [name |-> "ValueDescExport", place |-> place, id |-> id, list |-> <<>>]
ValueDescLink(places, n) == [name |-> "ValueDescLink", places |-> places, node |-> n, list |-> <<>>]
ValueDescSet(place, v, t, animate) ==
    [name |-> "ValueDescSet", place |-> place, new |-> v, time |-> t, animate |-> animate, animated |-> None, list |-> <<>>]

Supers == {"ValueDescConnect", "ValueDescConvert", "ValueDescDisconnect", "ValueDescExport", "ValueDescLink", "ValueDescSet"}

Listed(d, a, list) == OK(d, [a EXCEPT !.list = list])
Unready(d, a) == Throw(d, [a EXCEPT !.list = <<>>])

Connect(d, place, n) ==
    IF place.kind = "param" THEN LayerParamConnect(place.param, n)
    ELSE IF place.kind = "link" THEN ValueNodeLinkConnect(place.node, place.index, n)
    ELSE ValueNodeReplace(NodeAt(d, place), n)

\* A switch of a constant, both new.
PrepareConvert(a, d) ==
    LET c == Fresh(d)
        e == Created(d, Const(ValueAt(d, a.place, a.time)))
        s == Fresh(e)
    IN  Listed(AddChild(Created(e, Switch(c)), s, c), a, <<Connect(d, a.place, s)>>)

PrepareDisconnect(a, d) ==
    IF a.place.kind = "param" THEN Listed(d, a, <<LayerParamDisconnect(a.place.param, a.time)>>)
    ELSE IF a.place.kind = "link" THEN Listed(d, a, <<ValueNodeLinkDisconnect(a.place.node, a.place.index, a.time)>>)
    ELSE Listed(Created(d, Const(ValueAt(d, a.place, a.time))), a, <<ValueNodeReplace(NodeAt(d, a.place), Fresh(d))>>)

PrepareExport(a, d) ==
    LET n == NodeAt(d, a.place)
    IN  IF n = None
          THEN Listed(Created(d, Const(ValueAt(d, a.place, 0))), a,
                      <<ValueNodeAdd(Fresh(d), a.id), LayerParamConnect(a.place.param, Fresh(d))>>)
        ELSE IF Exported(d, n) THEN Unready(d, a)
        ELSE Listed(d, a, <<ValueNodeAdd(n, a.id)>>)

\* Where there is no node to link to, one is made for the last place, and kept.
PrepareLink(a, d) ==
    LET make == a.node = None
        n == IF make THEN Fresh(d) ELSE a.node
        e == IF make THEN Created(d, Const(ValueAt(d, Last(a.places), 0))) ELSE d
        Other(place) == NodeAt(d, place) = None \/ (NodeAt(d, place) # n /\ ~Exported(d, NodeAt(d, place)))
        others[k \in 0..Len(a.places)] ==
            IF k = 0 THEN <<>>
            ELSE IF Other(a.places[k]) THEN <<Connect(d, a.places[k], n)>> \o others[k - 1]
            ELSE others[k - 1]
    IN  Listed(e, [a EXCEPT !.node = n],
               others[Len(a.places)] \o (IF make THEN <<Connect(d, Last(a.places), n)>> ELSE <<>>))

SetAnimated(a, d, n, list) ==
    IF a.time \in DOMAIN Points(d, n)
    THEN Listed(d, [a EXCEPT !.animated = n], Append(list, WaypointSet(n, Points(d, n)[a.time], a.new)))
    ELSE Listed(Created(d, Waypoint(a.new)), [a EXCEPT !.animated = n], Append(list, WaypointAdd(n, Fresh(d), a.time)))

\* A constant is made animated first, by a node that is kept.
PrepareAnimate(a, d) ==
    LET m == NodeAt(d, a.place)
        n == a.animated
        w == Fresh(d)
        e == Created(d, Waypoint(ValueAt(d, a.place, a.time)))
        Become(x) == IF m = None THEN Connect(d, a.place, x) ELSE ValueNodeReplace(m, x)
    IN  IF Is(d, m, "animated") THEN SetAnimated(a, d, m, <<>>)
        ELSE IF Is(d, m, "switch") THEN Unready(d, [a EXCEPT !.animated = None])
        ELSE IF n = None THEN SetAnimated(a, Created(e, Animated([t \in {a.time} |-> w])), Fresh(e), <<Become(Fresh(e))>>)
        ELSE IF a.time \notin DOMAIN Points(d, n) THEN Unready(d, a)
        ELSE SetAnimated(a, d, n, <<Become(n)>>)

\* What is animated is moved as a whole: the difference is added to each of its waypoints.
PrepareSet(a, d) ==
    LET n == NodeAt(d, a.place)
        Moved(t) == (d.node[Points(d, n)[t]].value + a.new + MaxValue + 1 - Value(d, n, a.time)) % (MaxValue + 1)
        times == SetToSeq(DOMAIN Points(d, n))
    IN  IF n = None THEN Listed(d, a, <<LayerParamSet(a.place.param, a.new)>>)
        ELSE IF Is(d, n, "const") THEN Listed(d, a, <<ValueNodeConstSet(n, a.new)>>)
        ELSE IF Is(d, n, "switch") THEN Unready(d, a)
        ELSE Listed(d, a, [i \in DOMAIN times |-> WaypointSet(n, Points(d, n)[times[i]], Moved(times[i]))])

Prepared(a, d) ==
    IF a.name = "ValueDescLink" THEN PrepareLink(a, d)
    ELSE IF a.place.kind = "export" /\ NodeAt(d, a.place) = None THEN Unready(d, a)
    ELSE CASE a.name = "ValueDescConnect" -> Listed(d, a, <<Connect(d, a.place, a.node)>>)
           [] a.name = "ValueDescConvert" -> PrepareConvert(a, d)
           [] a.name = "ValueDescDisconnect" -> PrepareDisconnect(a, d)
           [] a.name = "ValueDescExport" -> PrepareExport(a, d)
           [] a.name = "ValueDescSet" -> IF a.animate THEN PrepareAnimate(a, d) ELSE PrepareSet(a, d)

\* What an action has handles on.
Handles(a, fields) == {a[f] : f \in DOMAIN a \intersect fields}

HandlesOf(a) == Handles(a, {"node", "parent", "was", "dest", "src", "waypoint", "ref", "animated"})
PlacesOf(a) == IF "places" \in DOMAIN a THEN Range(a.places) ELSE IF "place" \in DOMAIN a THEN {a.place} ELSE {}
Held(a) ==
    LET parts == IF "list" \in DOMAIN a THEN Range(a.list) ELSE {}
        linked == {place.node : place \in {q \in PlacesOf(a) : q.kind = "link"}}
    IN  (linked \union UNION {HandlesOf(b) : b \in parts \union {a}}) \ {None}

Settled(d, acts) == Refreshed(Collected(d, UNION {Held(acts[i]) : i \in DOMAIN acts}))

INSTANCE ActionHistory
-----------------------------------------------------------------------------
(* What the user does.                                                     *)

Init == doc \in {Refreshed(d) : d \in StartDocs} /\ done = <<>> /\ undone = <<>> /\ promise = <<>>

Switches(d) == {n \in Seen(d) \ Layers : Is(d, n, "switch")}
Places(d) ==
    {Param(p) : p \in Params}
    \union {Link(s, i) : s \in Switches(d), i \in Links}
    \union {Export(id) : id \in {d.id[n] : n \in d.list}}
Own(d) == {place \in Places(d) : place.kind # "export"}

ConnectPlace == \E place \in Own(doc), n \in doc.list : n # NodeAt(doc, place) /\ Do(ValueDescConnect(place, n), doc)

\* At which time a constant is looked at does not matter.
TimesAt(place) == IF NodeAt(doc, place) = None \/ Is(doc, NodeAt(doc, place), "const") THEN {0} ELSE Times

ConvertPlace == \E place \in Places(doc) : \E t \in TimesAt(place) : Do(ValueDescConvert(place, t), doc)

DisconnectPlace ==
    \E place \in Places(doc) :
      /\ NodeAt(doc, place) # None
      /\ Is(doc, NodeAt(doc, place), "const") => place.kind # "export" /\ Uses(doc, NodeAt(doc, place)) > 1
      /\ \E t \in TimesAt(place) : Do(ValueDescDisconnect(place, t), doc)

ExportPlace ==
    \E place \in Own(doc), id \in Ids :
      /\ NodeAt(doc, place) # None => ~Exported(doc, NodeAt(doc, place))
      /\ Do(ValueDescExport(place, id), doc)

\* Which of the nodes is taken depends on what is known of each, but an exported one comes first.
LinkPlaces ==
    \E first, last \in Own(doc) :
      LET nodes == {NodeAt(doc, first), NodeAt(doc, last)} \ {None}
          exported == {n \in nodes : Exported(doc, n)}
      IN  /\ first # last
          /\ Cardinality(exported) <= 1
          /\ \E n \in (IF nodes = {} THEN {None} ELSE IF exported # {} THEN exported ELSE nodes) :
               Do(ValueDescLink(<<first, last>>, n), doc)

SetPlace ==
    \E place \in Places(doc), v \in Values :
      \/ \E t \in Times : Do(ValueDescSet(place, v, t, TRUE), doc)
      \/ \E t \in TimesAt(place) : v # ValueAt(doc, place, t) /\ Do(ValueDescSet(place, v, t, FALSE), doc)

DeleteWaypoint ==
    \E n \in {m \in Seen(doc) \ Layers : Is(doc, m, "animated")} :
      \E t \in DOMAIN Points(doc, n) : Do(WaypointRemove(n, Points(doc, n)[t], t), doc)

Unexport == \E n \in doc.list : Do(ValueNodeRemove(n), doc)
RenameExported == \E n \in doc.list, id \in Ids : Do(ValueNodeRename(n, id), doc)

Work ==
    \/ ConnectPlace
    \/ ConvertPlace
    \/ DisconnectPlace
    \/ ExportPlace
    \/ LinkPlaces
    \/ SetPlace
    \/ DeleteWaypoint
    \/ Unexport
    \/ RenameExported

\* Bound: no action makes more than two objects.
Next == Room(doc, 2) /\ (Work \/ Undo \/ Redo)

Spec == Init /\ [][Next]_vars

-----------------------------------------------------------------------------
(* Properties.                                                             *)

\* A node tells those it is a link of, or connected to, when it changes: nobody who has left it, and
\* also one that uses it twice and has given up one of the uses, by setting a link (fix 2412072 in
\* valuenode.cpp) or disconnecting a parameter (fix 2353284 in layer.cpp).  Not so a layer one of
\* whose parameters was connected from the node to another one (layer.cpp:279): see left.
UsersKnown == UsersTrue(doc)

\* The waypoints drawn in the time track of a parameter, of a node, or of a layer are those there are;
\* a layer that a node was made to forget is not told to look again.
TimesFresh == \A x \in Seen(doc) \ doc.left : doc.times[x] = TimesOf(doc, x)

\* The exported nodes are known by their names: no two have the same, and whatever is in use and has
\* a name is the one that is in the list under it, which a file that is loaded finds again.
NamesListed ==
    /\ \A n \in doc.list : Exported(doc, n)
    /\ \A n, m \in doc.list : doc.id[n] = doc.id[m] => n = m
    /\ \A n \in Seen(doc) \ Layers : Exported(doc, n) => n \in doc.list

Blank == CHOOSE d \in {Visible(e) : e \in StartDocs} : TRUE

\* The real actions keep the promises of the history: undo shows what was there before, and redo
\* what was there after.
History == INSTANCE EditHistory WITH
    Docs <- VisibleDocs,
    past <- [i \in DOMAIN done |-> done[i].before],
    present <- Visible(doc),
    future <- promise,
    redoable <- Len(undone),
    saved <- Blank

ImplementsHistory == History!Spec

\* "Redo the previously undone action": what was undone, and nothing done since, comes back.
RedoRepeats ==
    promise # <<>> => LET r == Perform(Head(undone), doc) IN r.ok /\ Visible(r.doc) = Head(promise)

=============================================================================
