------------------------------- MODULE ValueGraph -------------------------------
(***************************************************************************)
(* synfig::Layer, synfig::ValueNode and synfig::Canvas as far as they keep *)
(* the values of one composition: the parameters of its layers, the value  *)
(* nodes these are connected to, and the nodes the canvas exports.         *)
(*                                                                         *)
(* A document is a record.  A parameter has a value of its own, static,    *)
(* and may be connected to a node, dyn.  A node is a constant, a switch    *)
(* (of the LinkableValueNodes) with its links, or animated with its        *)
(* waypoints; a waypoint is an object too, since it has an identity.       *)
(* users is the parent_set of a node: who is told when it changes.  An     *)
(* exported node has a name, id, and is in the list of the canvas.  stale  *)
(* is bchanged, and times what get_times() last found.  left, which is not *)
(* in the code, are the layers that a connection made a node forget,       *)
(* though another of their parameters is connected to it.                  *)
(*                                                                         *)
(* Whoever holds on to a node holds a handle; dyn, the links and the list  *)
(* are replaceable handles, which replace() redirects.  The node of a      *)
(* waypoint is a constant of its own, the third link of a switch is FALSE, *)
(* and no switch is a link of a switch: a document is three levels deep.   *)
(***************************************************************************)
EXTENDS Naturals, FiniteSets, Functions, Sequences, TLC

CONSTANTS
    Layers,
    Params,
    LayerOf,        \* the layer of each parameter
    MaxObjects,     \* bound: nodes and waypoints
    MaxValue,       \* bound: values are 0..MaxValue, and added modulo it
    Ids, NoId,      \* names of exported nodes
    None            \* no node

Objects == 1..MaxObjects
Values == 0..MaxValue
Times == {0, 1}     \* no time is between two waypoints
Links == {"link_off", "link_on"}

ASSUME GraphAssumption ==
    /\ LayerOf \in [Params -> Layers]
    /\ MaxObjects \in Nat
    /\ MaxValue \in Nat
    /\ NoId \notin Ids
    /\ None \notin Objects
    /\ Layers \intersect Objects = {}

Free == [kind |-> "free"]
Const(v) == [kind |-> "const", value |-> v]
Switch(n) == [kind |-> "switch", links |-> [i \in Links |-> n]]
Animated(points) == [kind |-> "animated", points |-> points]
Waypoint(v) == [kind |-> "waypoint", value |-> v]

Is(d, n, kind) == n # None /\ d.node[n].kind = kind
Fresh(d) == CHOOSE n \in Objects : d.node[n] = Free /\ \A m \in Objects : d.node[m] = Free => n <= m
Room(d, k) == Cardinality({n \in Objects : d.node[n] = Free}) >= k
Created(d, o) == [d EXCEPT !.node[Fresh(d)] = o]


Exported(d, n) == d.id[n] # NoId
Named(d, id) == {n \in d.list : d.id[n] = id}

Children(d, x) ==
    IF x \in Layers THEN {d.dyn[p] : p \in {q \in Params : LayerOf[q] = x}} \ {None}
    ELSE IF d.node[x].kind = "switch" THEN Range(d.node[x].links)
    ELSE {}

ChildrenOf(d, xs) == UNION {Children(d, x) : x \in xs}
Below(d, roots) ==
    LET first == ChildrenOf(d, roots)
    IN  roots \union first \union ChildrenOf(d, first)

\* Those that are told when x has changed.
Users(d, x) == IF x \in Layers THEN {} ELSE d.users[x]
Above(d, x) == {x} \union Users(d, x) \union UNION {Users(d, y) : y \in Users(d, x)}

\* What the user sees: parameters, exported nodes, and all that is below these.
Seen(d) == Below(d, Layers \union d.list)

\* The value of a node at a time.
Leaf(d, n) == IF d.node[n].kind = "switch" THEN d.node[n].links["link_off"] ELSE n
LeafValue(d, n, t) ==
    LET o == d.node[n]
    IN  IF o.kind = "const" THEN o.value
        ELSE IF DOMAIN o.points = {} THEN 0
        ELSE d.node[o.points[IF t \in DOMAIN o.points THEN t ELSE CHOOSE s \in DOMAIN o.points : TRUE]].value
Value(d, n, t) == LeafValue(d, Leaf(d, n), t)

OwnTimes(d, x) == IF x \notin Layers /\ d.node[x].kind = "animated" THEN DOMAIN d.node[x].points ELSE {}

\* The times of a node, or of a layer, and all that is below it.
TimesOf(d, x) == UNION {OwnTimes(d, y) : y \in Below(d, {x})}

\* get_times() of all that is seen: a cached set is not asked again.
Refreshed(d) ==
    LET seen == Seen(d)
        known[k \in 0..2] ==
            LET below == IF k = 0 THEN <<>> ELSE known[k - 1]
            IN  [x \in seen |->
                   IF x \notin d.stale THEN d.times[x]
                   ELSE OwnTimes(d, x) \union (IF k = 0 THEN {} ELSE UNION {below[y] : y \in Children(d, x) \intersect seen})]
        times == known[2]
    IN  [d EXCEPT !.times = [x \in DOMAIN @ |-> IF x \in seen THEN times[x] ELSE IF x \in d.stale THEN {} ELSE @[x]],
                  !.stale = @ \ seen]

-----------------------------------------------------------------------------
\* Fault: who uses it is not told.
ChangedAlone(d, x) == [d EXCEPT !.stale = @ \union {x}]

Changed(d, x) == [d EXCEPT !.stale = @ \union Above(d, x)]

AddChild(d, x, n) == [d EXCEPT !.users[n] = @ \union {x}]
RemoveChild(d, x, n) == [d EXCEPT !.users[n] = @ \ {x}]

\* The node the parameter was connected to forgets the layer, whatever else of it uses the node.
ConnectParam(d, p, n) ==
    LET l == LayerOf[p]
        e == [d EXCEPT !.dyn[p] = n]
        f == IF d.dyn[p] = None THEN e ELSE RemoveChild(e, l, d.dyn[p])
        g == IF d.dyn[p] \in Children(e, l) THEN [f EXCEPT !.left = @ \union {l}] ELSE f
    IN  IF d.dyn[p] = n THEN d ELSE Changed(AddChild(g, l, n), l)

\* Fault: fix 2353284 is missing.
DisconnectAll(d, p) ==
    LET l == LayerOf[p]
    IN  IF d.dyn[p] = None THEN d ELSE Changed(RemoveChild([d EXCEPT !.dyn[p] = None], l, d.dyn[p]), l)

\* A node that another parameter of the layer is connected to keeps its user.
DisconnectParam(d, p) ==
    LET l == LayerOf[p]
        e == [d EXCEPT !.dyn[p] = None]
    IN  IF d.dyn[p] = None THEN d
        ELSE Changed(IF d.dyn[p] \in Children(e, l) THEN e ELSE RemoveChild(e, l, d.dyn[p]), l)

\* A node that is linked twice keeps its user when one of the links is set.
SetLink(d, n, i, x) ==
    LET old == d.node[n].links[i]
        e == [d EXCEPT !.node[n].links[i] = x]
        others == {e.node[n].links[j] : j \in Links \ {i}}
    IN  Changed(AddChild(IF old \in others THEN e ELSE RemoveChild(e, n, old), n, x), n)

SetConst(d, n, v) == IF d.node[n].value = v THEN d ELSE Changed([d EXCEPT !.node[n].value = v], n)

Points(d, n) == d.node[n].points
AddPoint(d, n, w, t) ==
    [d EXCEPT !.node[n].points = [s \in {t} \union DOMAIN @ |-> IF s = t THEN w ELSE @[s]]]
ErasePoint(d, n, w) == [d EXCEPT !.node[n].points = [t \in {s \in DOMAIN @ : @[s] # w} |-> @[t]]]

\* The number of replaceable handles on n.
Uses(d, n) ==
    Cardinality({p \in Params : d.dyn[p] = n})
    + Cardinality({u \in Objects \X Links : d.node[u[1]].kind = "switch" /\ d.node[u[1]].links[u[2]] = n})
    + (IF n \in d.list THEN 1 ELSE 0)
Referenced(d, n) == Uses(d, n) > 0

Replace(d, n, x) ==
    LET to(m) == IF m = n THEN x ELSE m
    IN  IF n = x THEN d
        ELSE Changed([d EXCEPT
                !.users = [d.users EXCEPT ![x] = @ \union d.users[n], ![n] = {}],
                !.dyn = [p \in Params |-> to(d.dyn[p])],
                !.list = {to(m) : m \in d.list},
                !.node = [m \in Objects |->
                    IF d.node[m].kind = "switch"
                      THEN [d.node[m] EXCEPT !.links = [i \in Links |-> to(d.node[m].links[i])]]
                      ELSE d.node[m]]], x)

CanAddValueNode(d, n, id) == ~Exported(d, n) /\ Named(d, id) = {}
AddValueNode(d, n, id) == [d EXCEPT !.id[n] = id, !.list = @ \union {n}]
RemoveValueNode(d, n) == [d EXCEPT !.id[n] = NoId, !.list = @ \ {n}]

\* Nodes that nobody has a handle on are deleted, and leave those they link.
Collected(d, held) ==
    LET linked == Below(d, Layers \union d.list \union held)
        live == (linked \ Layers) \union UNION {Range(d.node[n].points) : n \in {m \in linked \ Layers : Is(d, m, "animated")}}
        dead == Objects \ live
    IN  [d EXCEPT !.node = [n \in Objects |-> IF n \in dead THEN Free ELSE @[n]],
                  !.users = [n \in Objects |-> IF n \in dead THEN {} ELSE @[n] \ dead],
                  !.id = [n \in Objects |-> IF n \in dead THEN NoId ELSE @[n]],
                  !.stale = @ \union dead]

-----------------------------------------------------------------------------
\* How the user comes to a node: by a parameter or a name, and then by the links of a switch.
Roots == Params \union Ids
Paths == {<<r>> : r \in Roots} \union {<<r, i>> : r \in Roots, i \in Links}

ByName(d, id) == IF Named(d, id) = {} THEN None ELSE CHOOSE n \in Named(d, id) : TRUE
Top(d, r) == IF r \in Params THEN d.dyn[r] ELSE ByName(d, r)
At(d, path) ==
    IF Len(path) = 1 THEN Top(d, path[1])
    ELSE IF Is(d, Top(d, path[1]), "switch") THEN d.node[Top(d, path[1])].links[path[2]]
    ELSE None

\* A value is seen at its times, that of a constant at 0.
Curve(d, o) ==
    IF o.kind = "const" THEN [t \in {0} |-> o.value]
    ELSE IF o.kind = "animated" THEN [t \in DOMAIN o.points |-> d.node[o.points[t]].value]
    ELSE [t \in {} |-> 0]

Look(d, n) ==
    IF n = None THEN [kind |-> "none", id |-> NoId, curve |-> [t \in {} |-> 0]]
    ELSE [kind |-> d.node[n].kind, id |-> d.id[n], curve |-> Curve(d, d.node[n])]

\* Which ways lead to one node is seen too: setting it by one sets it for all.
Visible(d) ==
    LET at == [path \in Paths |-> At(d, path)]
    IN  [static |-> [p \in Params |-> IF d.dyn[p] = None THEN d.static[p] ELSE 0],
         look |-> [path \in Paths |-> Look(d, at[path])],
         same |-> [path \in Paths |-> CHOOSE other \in Paths : at[other] = at[path]]]

Curves == UNION {[times -> Values] : times \in SUBSET Times}
Looks == [kind : {"none", "const", "switch", "animated"}, id : Ids \union {NoId}, curve : Curves]
VisibleDocs == [static : [Params -> Values], look : [Paths -> Looks], same : [Paths -> Paths]]

\* What is connected, linked, or listed is a node, and a waypoint is in its list: none is deleted in use.
Of(d, kind) == {n \in Objects : d.node[n].kind = kind}
Nodes(d) == Of(d, "const") \union Of(d, "switch") \union Of(d, "animated")
ObjectType(d) ==
    {Free} \union [kind : {"const", "waypoint"}, value : Values]
    \union [kind : {"switch"}, links : [Links -> Nodes(d)]]
    \union [kind : {"animated"}, points : UNION {[times -> Of(d, "waypoint")] : times \in SUBSET Times}]

DocumentType(d) ==
    d \in [static : [Params -> Values],
          dyn : [Params -> Nodes(d) \union {None}],
          node : [Objects -> ObjectType(d)],
          users : [Objects -> SUBSET (Objects \union Layers)],
          id : [Objects -> Ids \union {NoId}],
          list : SUBSET Nodes(d),
          stale : SUBSET (Objects \union Layers),
          left : SUBSET Layers,
          times : [Objects \union Layers -> SUBSET Times]]

\* A node knows those that use it, and no others: all the nodes, and all the layers but those
\* it was made to forget.
UsersTrue(d) ==
    \A n \in Objects :
      LET using == {x \in Layers \union Objects : n \in Children(d, x)}
      IN  using \ d.left \subseteq d.users[n] /\ d.users[n] \subseteq using

\* No switch is a link of a switch.
Flat(d) == \A n \in Objects : Is(d, n, "switch") => \A i \in Links : ~Is(d, d.node[n].links[i], "switch")

\* As it is read from a file: nothing is cached yet.
Loaded(d) == DocumentType(d) /\ UsersTrue(d) /\ Flat(d) /\ d.stale = Objects \union Layers /\ d.left = {}

=============================================================================
