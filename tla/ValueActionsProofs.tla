--------------------------- MODULE ValueActionsProofs ---------------------------
(***************************************************************************)
(* Who is told of a change of a value, and the cached times: what nodes    *)
(* know of those that use them, for any parameters and objects and any     *)
(* number of actions, also such as are redone in other documents.          *)
(***************************************************************************)
EXTENDS MCValueActions, FiniteSetTheorems, SequenceTheorems, WellFoundedInduction, TLAPS

-----------------------------------------------------------------------------
(***************************************************************************)
(* The inductive invariant.                                                *)
(***************************************************************************)

SwitchOK(d, o) == o = [kind |-> "switch", links |-> o.links] /\ o.links \in [Links -> Nodes(d)]
AnimatedOK(d, o) ==
    /\ o = Animated(o.points)
    /\ DOMAIN o.points \subseteq Times
    /\ o.points \in [DOMAIN o.points -> Of(d, "waypoint")]
ObjectOK(d, o) ==
    \/ o = Free
    \/ o.kind = "const" /\ o = Const(o.value)
    \/ o.kind = "waypoint" /\ o = Waypoint(o.value)
    \/ o.kind = "switch" /\ SwitchOK(d, o)
    \/ o.kind = "animated" /\ AnimatedOK(d, o)

IsDoc(d) == DOMAIN d = {"static", "dyn", "node", "users", "id", "list", "stale", "left", "times"}

\* What is used is there; what is free is not known to have any times.
Typed(d) ==
    /\ IsDoc(d)
    /\ d.dyn \in [Params -> Nodes(d) \union {None}]
    /\ d.node = [n \in Objects |-> d.node[n]]
    /\ \A n \in Objects : ObjectOK(d, d.node[n])
    /\ d.users \in [Objects -> SUBSET (Objects \union Layers)]
    /\ d.list \subseteq Nodes(d)
    /\ d.stale \subseteq Objects \union Layers
    /\ d.left \subseteq Layers
    /\ Of(d, "free") \subseteq d.stale
    /\ d.times = [x \in Objects \union Layers |-> d.times[x]]

\* All links are to nodes, and these know of them.
Wired(d) == Typed(d) /\ UsersTrue(d)

\* A cached set that was not dropped is what would be computed now, but for the layers that were forgotten.
TimesTrue(d) == \A x \in Objects \union Layers : x \notin d.stale \union d.left => d.times[x] = TimesOf(d, x)

\* What is there stays, and stays what it is.
Grows(d, e) == \A n \in Objects : d.node[n].kind # "free" => e.node[n].kind = d.node[n].kind

\* From a document to one where it is as sound.
Leads(d, e) == Wired(e) /\ Grows(d, e) /\ (TimesTrue(d) => TimesTrue(e))

PlaceOK(d, place) ==
    \/ place.kind = "param" /\ place = Param(place.param) /\ place.param \in Params
    \/ /\ place.kind = "link"
       /\ place = Link(place.node, place.index)
       /\ place.node \in Of(d, "switch")
       /\ place.index \in Links
    \/ place.kind = "export" /\ place = Export(place.id)

\* A single action that may be performed.
Singles == {"LayerParamSet", "LayerParamConnect", "LayerParamDisconnect", "ValueNodeLinkConnect",
            "ValueNodeLinkDisconnect", "ValueNodeConstSet", "ValueNodeAdd", "ValueNodeRemove", "ValueNodeRename",
            "ValueNodeReplace", "WaypointAdd", "WaypointSet", "WaypointRemove"}
RawOK(d, a) ==
    /\ a.name \in Singles
    /\ a.name = "LayerParamSet" => DOMAIN a = {"name", "param", "old", "new"} /\ a.param \in Params
    /\ a.name = "LayerParamConnect" =>
         /\ DOMAIN a = {"name", "param", "node", "was", "old"}
         /\ a.param \in Params /\ a.node \in Nodes(d) /\ a.was \in Nodes(d) \union {None}
    /\ a.name = "LayerParamDisconnect" =>
         /\ DOMAIN a = {"name", "param", "time", "was"}
         /\ a.param \in Params /\ a.was \in Nodes(d) \union {None}
    /\ a.name = "ValueNodeLinkConnect" =>
         /\ DOMAIN a = {"name", "parent", "index", "node", "was"}
         /\ a.parent \in Of(d, "switch") /\ a.index \in Links
         /\ a.node \in Nodes(d) /\ a.was \in Nodes(d) \union {None}
    /\ a.name = "ValueNodeLinkDisconnect" =>
         /\ DOMAIN a = {"name", "parent", "index", "time", "was"}
         /\ a.parent \in Of(d, "switch") /\ a.index \in Links /\ a.was \in Nodes(d) \union {None}
    /\ a.name = "ValueNodeConstSet" => DOMAIN a = {"name", "node", "old", "new"} /\ a.node \in Of(d, "const")
    /\ a.name = "ValueNodeAdd" => DOMAIN a = {"name", "node", "id"} /\ a.node \in Nodes(d)
    /\ a.name = "ValueNodeRemove" => DOMAIN a = {"name", "node", "old"} /\ a.node \in Nodes(d)
    /\ a.name = "ValueNodeRename" => DOMAIN a = {"name", "node", "old", "new"} /\ a.node \in Nodes(d)
    /\ a.name = "ValueNodeReplace" =>
         DOMAIN a = {"name", "dest", "src", "undoable"} /\ a.dest \in Nodes(d) /\ a.src \in Nodes(d)
    /\ a.name = "WaypointAdd" =>
         /\ DOMAIN a = {"name", "node", "waypoint", "time"}
         /\ a.node \in Of(d, "animated") /\ a.waypoint \in Of(d, "waypoint") /\ a.time \in Times
    /\ a.name = "WaypointSet" =>
         /\ DOMAIN a = {"name", "node", "waypoint", "new", "old"}
         /\ a.node \in Of(d, "animated") /\ a.waypoint \in Of(d, "waypoint")
    /\ a.name = "WaypointRemove" =>
         /\ DOMAIN a = {"name", "node", "waypoint", "time", "ref"}
         /\ a.node \in Of(d, "animated") /\ a.waypoint \in Of(d, "waypoint") /\ a.time \in Times
         /\ a.ref \in Of(d, "const") \union {None}

\* One that was performed knows what it found.
PerfOK(d, a) ==
    /\ RawOK(d, a)
    /\ a.name \in {"LayerParamDisconnect", "ValueNodeLinkConnect", "ValueNodeLinkDisconnect"} => a.was # None

\* Those that make an object are alone.
Makes(a) == a.name = "ValueNodeLinkDisconnect" \/ (a.name = "WaypointRemove" /\ a.ref = None)
IsSeq(s) == s \in Seq(Range(s))
ListOK(d, list) ==
    /\ IsSeq(list)
    /\ \A i \in 1..Len(list) :
         /\ RawOK(d, list[i])
         /\ list[i].name # "WaypointRemove"
         /\ Makes(list[i]) => Len(list) = 1

\* An action on a place that may be performed.
ReadyOK(d, a) ==
    /\ a.name \in Supers
    /\ a.name = "ValueDescConnect" =>
         DOMAIN a = {"name", "place", "node", "list"} /\ PlaceOK(d, a.place) /\ a.node \in Nodes(d)
    /\ a.name \in {"ValueDescConvert", "ValueDescDisconnect"} =>
         DOMAIN a = {"name", "place", "time", "list"} /\ PlaceOK(d, a.place)
    /\ a.name = "ValueDescExport" => DOMAIN a = {"name", "place", "id", "list"} /\ PlaceOK(d, a.place)
    /\ a.name = "ValueDescLink" =>
         /\ DOMAIN a = {"name", "places", "node", "list"}
         /\ IsSeq(a.places) /\ a.places # <<>>
         /\ \A i \in 1..Len(a.places) : PlaceOK(d, a.places[i]) /\ a.places[i].kind # "export"
         /\ a.node \in Nodes(d) \union {None}
    /\ a.name = "ValueDescSet" =>
         /\ DOMAIN a = {"name", "place", "new", "time", "animate", "animated", "list"}
         /\ PlaceOK(d, a.place) /\ a.time \in Times /\ a.animated \in Of(d, "animated") \union {None}

\* On the redo stack.
UndoneOK(d, a) ==
    IF a.name \in Supers
      THEN ReadyOK(d, a) /\ ListOK(d, a.list)
      ELSE RawOK(d, a) /\ a.name \in {"WaypointRemove", "ValueNodeRemove", "ValueNodeRename"}

\* On the undo stack.
DoneOK(d, a) ==
    /\ UndoneOK(d, a)
    /\ IF a.name \in Supers THEN \A i \in 1..Len(a.list) : PerfOK(d, a.list[i]) ELSE PerfOK(d, a)

DoneFit(d, s) == IsSeq(s) /\ \A i \in 1..Len(s) : "act" \in DOMAIN s[i] /\ DoneOK(d, s[i].act)
UndoneFit(d, s) == IsSeq(s) /\ \A i \in 1..Len(s) : UndoneOK(d, s[i])
StacksOK == DoneFit(doc, done) /\ UndoneFit(doc, undone)

WiredInv == Wired(doc) /\ Flat(doc) /\ StacksOK

\* What is seen has been asked for its times.
TimesInv == TimesTrue(doc) /\ Seen(doc) \intersect doc.stale = {}

-----------------------------------------------------------------------------
(***************************************************************************)
(* Who is above and below.                                                 *)
(***************************************************************************)

\* What there is: layers, and objects of five kinds.
LEMMA Things ==
    /\ Layers \intersect Objects = {}
    /\ None \notin Objects
    /\ \A p \in Params : LayerOf[p] \in Layers
    /\ \A d : Nodes(d) \subseteq Objects
    /\ \A d : \A kind : Of(d, kind) \subseteq Objects
BY GraphAssumption DEF Nodes, Of

\* An object of a kind is made like those of that kind.
LEMMA KindOK ==
    ASSUME NEW d, Typed(d), NEW n \in Objects
    PROVE  /\ d.node[n].kind \in {"free", "const", "waypoint", "switch", "animated"}
           /\ d.node[n].kind = "free" => d.node[n] = Free
           /\ d.node[n].kind = "const" => d.node[n] = Const(d.node[n].value)
           /\ d.node[n].kind = "waypoint" => d.node[n] = Waypoint(d.node[n].value)
           /\ d.node[n].kind = "switch" => SwitchOK(d, d.node[n])
           /\ d.node[n].kind = "animated" => AnimatedOK(d, d.node[n])
BY DEF Typed, ObjectOK, Free

\* A layer has what its parameters are connected to, a switch its links, and nothing else has children.
LEMMA ChildIff ==
    ASSUME NEW d, Typed(d), NEW n
    PROVE  /\ \A l \in Layers : n \in Children(d, l) <=> n # None /\ \E p \in Params : LayerOf[p] = l /\ d.dyn[p] = n
           /\ \A m \in Objects : n \in Children(d, m) <=>
                d.node[m].kind = "switch" /\ \E i \in Links : d.node[m].links[i] = n
<1>1. ASSUME NEW m \in Objects, d.node[m].kind = "switch"
      PROVE  DOMAIN d.node[m].links = Links
    BY <1>1, KindOK DEF SwitchOK
<1>2. ASSUME NEW m \in Objects
      PROVE  m \notin Layers
    BY Things
<1>3. QED
    BY <1>1, <1>2 DEF Children, Range

\* Only layers are forgotten.
LEMMA NotLeft ==
    ASSUME NEW d, Wired(d)
    PROVE  \A n \in Objects : n \notin d.left
BY Things DEF Wired, Typed

\* Whatever has a child, and was not forgotten, is one of its users, and a child is a node.
LEMMA ChildKnows ==
    ASSUME NEW d, Wired(d), NEW x \in Objects \union Layers, NEW n \in Children(d, x)
    PROVE  n \in Nodes(d) /\ n \in Objects /\ n \notin Layers /\ (x \in d.left \/ x \in Users(d, n))
<1>1. n \in Nodes(d)
    <2>1. CASE x \in Layers
        <3>1. n # None /\ \E p \in Params : d.dyn[p] = n
            BY <2>1, ChildIff DEF Wired
        <3>2. QED
            BY <3>1 DEF Wired, Typed
    <2>2. CASE x \in Objects
        <3>1. d.node[x].kind = "switch" /\ \E i \in Links : d.node[x].links[i] = n
            BY <2>2, ChildIff DEF Wired
        <3>2. QED
            BY <2>2, <3>1, KindOK DEF Wired, SwitchOK
    <2>3. QED
        BY <2>1, <2>2
<1>2. n \in Objects /\ n \notin Layers
    BY <1>1, Things
<1>3. x \in d.left \/ x \in d.users[n]
    BY <1>2 DEF Wired, UsersTrue
<1>4. QED
    BY <1>1, <1>2, <1>3 DEF Users

\* What is below one thing, in two steps.
LEMMA BelowOne ==
    ASSUME NEW d, NEW x
    PROVE  /\ \A z : z \in Below(d, {x}) <=> z = x \/ z \in Children(d, x) \/ \E y \in Children(d, x) : z \in Children(d, y)
BY DEF Below, ChildrenOf

\* Those that a change is told to are at most two steps above.
LEMMA ToldAbove ==
    ASSUME NEW d, Wired(d), NEW x \in Objects \union Layers
    PROVE  /\ x \notin d.left => \A z \in Below(d, {x}) : x \in Above(d, z)
           /\ Below(d, {x}) \subseteq Objects \union Layers
<1>1. x \in Above(d, x)
    BY DEF Above
<1>2. ASSUME NEW y \in Children(d, x)
      PROVE  (x \in d.left \/ x \in Above(d, y)) /\ y \in Objects
    BY ChildKnows DEF Above
<1>3. ASSUME NEW y \in Children(d, x), NEW z \in Children(d, y)
      PROVE  (x \in d.left \/ x \in Above(d, z)) /\ z \in Objects
    <2>1. y \in Objects /\ (x \in d.left \/ x \in Users(d, y))
        BY ChildKnows
    <2>2. z \in Objects /\ y \in Users(d, z)
        BY <2>1, ChildKnows, NotLeft
    <2>3. QED
        BY <2>1, <2>2 DEF Above
<1>4. QED
    BY <1>1, <1>2, <1>3, BelowOne

\* Cached times stay right where those above a change are told: all of them of a change of the times
\* of a node, and its users of a change of its children.
LEMMA CacheKept ==
    ASSUME NEW d, NEW e, Wired(e), TimesTrue(d), e.times = d.times, d.left \subseteq e.left, d.stale \subseteq e.stale,
           \A y \in Objects \union Layers : OwnTimes(e, y) = OwnTimes(d, y) \/ Above(e, y) \subseteq e.stale,
           \A y \in Objects \union Layers :
             y \in e.left \/ Children(e, y) = Children(d, y) \/ {y} \union Users(e, y) \subseteq e.stale
    PROVE  TimesTrue(e)
<1> SUFFICES ASSUME NEW x \in Objects \union Layers, x \notin e.stale, x \notin e.left
             PROVE  e.times[x] = TimesOf(e, x)
    BY DEF TimesTrue
<1>1. Children(e, x) = Children(d, x)
    OBVIOUS
<1>2. ASSUME NEW y \in Children(e, x)
      PROVE  Children(e, y) = Children(d, y)
    <2>1. y \in Objects /\ x \in Users(e, y) /\ y \notin e.left
        BY ChildKnows, NotLeft
    <2>2. QED
        BY <2>1
<1>3. \A z : z \in Below(e, {x}) <=> z \in Below(d, {x})
    BY <1>1, <1>2, BelowOne
<1>4. Below(e, {x}) = Below(d, {x})
    BY <1>3
<1>5. ASSUME NEW z \in Below(e, {x})
      PROVE  OwnTimes(e, z) = OwnTimes(d, z)
    <2>1. z \in Objects \union Layers /\ x \in Above(e, z)
        BY ToldAbove
    <2>2. QED
        BY <2>1
<1>6. TimesOf(e, x) = TimesOf(d, x)
    BY <1>4, <1>5 DEF TimesOf
<1>7. QED
    BY <1>6 DEF TimesTrue

-----------------------------------------------------------------------------
(***************************************************************************)
(* Steps of a document.                                                    *)
(***************************************************************************)

\* A node knows who uses it, unless it was made to forget it.
Knows(d, n, x) ==
    /\ x \in d.users[n] => n \in Children(d, x)
    /\ n \in Children(d, x) => x \in d.users[n] \/ x \in d.left

\* Users and children, one by one.
LEMMA UsersIff ==
    ASSUME NEW d, Typed(d)
    PROVE  UsersTrue(d) <=> \A n \in Objects, x \in Objects \union Layers : Knows(d, n, x)
<1>1. \A n \in Objects : d.users[n] \subseteq Objects \union Layers
    BY DEF Typed
<1>2. QED
    BY <1>1 DEF UsersTrue, Knows

\* Where no object changes its kind, what is fit for one document is fit for the other.
LEMMA SameKinds ==
    ASSUME NEW d, NEW e, \A n \in Objects : e.node[n].kind = d.node[n].kind
    PROVE  /\ \A kind : Of(e, kind) = Of(d, kind)
           /\ Nodes(e) = Nodes(d)
           /\ \A o : ObjectOK(e, o) <=> ObjectOK(d, o)
           /\ Grows(d, e)
<1>1. \A kind : Of(e, kind) = Of(d, kind)
    BY DEF Of
<1>2. Nodes(e) = Nodes(d)
    BY <1>1 DEF Nodes
<1>3. \A o : ObjectOK(e, o) <=> ObjectOK(d, o)
    BY <1>1, <1>2 DEF ObjectOK, SwitchOK, AnimatedOK
<1>4. QED
    BY <1>1, <1>2, <1>3 DEF Grows

\* One step after another.
LEMMA LeadsOn ==
    ASSUME NEW d, NEW e, NEW f, Leads(d, e), Leads(e, f)
    PROVE  Leads(d, f)
<1>1. Grows(d, f)
    BY DEF Leads, Grows
<1>2. QED
    BY <1>1 DEF Leads

\* No step.
LEMMA LeadsSame ==
    ASSUME NEW d, Wired(d)
    PROVE  Leads(d, d)
BY DEF Leads, Grows

\* A step that changes no link, but perhaps the value of a constant or a waypoint, a name, or a list.
Quiet(d, e) ==
    /\ IsDoc(e)
    /\ e.dyn = d.dyn
    /\ e.users = d.users
    /\ e.times = d.times /\ e.left = d.left
    /\ e.node = [n \in Objects |-> e.node[n]]
    /\ \A n \in Objects : e.node[n] # d.node[n] =>
         /\ d.node[n].kind \in {"const", "waypoint"}
         /\ e.node[n] = [kind |-> d.node[n].kind, value |-> e.node[n].value]
    /\ e.list \subseteq Nodes(d)
    /\ d.stale \subseteq e.stale /\ e.stale \subseteq Objects \union Layers

\* Such a step keeps a document sound, and its children and users what they are.
LEMMA QuietLeads ==
    ASSUME NEW d, NEW e, Wired(d), Quiet(d, e)
    PROVE  /\ Leads(d, e)
           /\ Nodes(e) = Nodes(d)
           /\ \A x \in Objects \union Layers : Children(e, x) = Children(d, x) /\ OwnTimes(e, x) = OwnTimes(d, x)
<1>1. ASSUME NEW n \in Objects
      PROVE  /\ e.node[n].kind = d.node[n].kind
             /\ ObjectOK(d, e.node[n])
             /\ d.node[n].kind \in {"switch", "animated"} => e.node[n] = d.node[n]
    <2>1. ObjectOK(d, d.node[n])
        BY DEF Wired, Typed
    <2>2. CASE e.node[n] = d.node[n]
        BY <2>1, <2>2
    <2>3. CASE e.node[n] # d.node[n]
        <3>1. d.node[n].kind \in {"const", "waypoint"} /\ e.node[n] = [kind |-> d.node[n].kind, value |-> e.node[n].value]
            BY <2>3 DEF Quiet
        <3>2. QED
            BY <3>1 DEF ObjectOK, Const, Waypoint
    <2>4. QED
        BY <2>2, <2>3
<1>k. \A n \in Objects : e.node[n].kind = d.node[n].kind
    BY <1>1
<1>2. Nodes(e) = Nodes(d) /\ Of(e, "free") = Of(d, "free") /\ Grows(d, e)
    BY <1>k, SameKinds
<1>3. \A n \in Objects : ObjectOK(e, e.node[n])
    BY <1>1, <1>k, SameKinds
<1>4. Typed(e)
    BY <1>2, <1>3 DEF Wired, Typed, Quiet
<1>5. ASSUME NEW x \in Objects \union Layers
      PROVE  Children(e, x) = Children(d, x) /\ OwnTimes(e, x) = OwnTimes(d, x)
    <2>1. CASE x \in Layers
        BY <2>1 DEF Children, OwnTimes, Quiet
    <2>2. CASE x \notin Layers
        <3>1. x \in Objects
            BY <2>2
        <3>2. QED
            BY <1>1, <2>2, <3>1 DEF Children, OwnTimes
    <2>3. QED
        BY <2>1, <2>2
<1>6. UsersTrue(e)
    BY <1>5 DEF Wired, UsersTrue, Quiet
<1>7. Wired(e)
    BY <1>4, <1>6 DEF Wired
<1>8. TimesTrue(d) => TimesTrue(e)
    BY <1>5, <1>7, CacheKept DEF Quiet
<1>9. QED
    BY <1>2, <1>5, <1>7, <1>8 DEF Leads

\* Those above something are things of the document.
LEMMA AboveThings ==
    ASSUME NEW d, Wired(d), NEW x \in Objects \union Layers
    PROVE  Above(d, x) \subseteq Objects \union Layers
<1>1. ASSUME NEW y \in Objects \union Layers
      PROVE  Users(d, y) \subseteq Objects \union Layers
    BY Things DEF Users, Wired, Typed
<1>2. QED
    BY <1>1 DEF Above

\* What a change is told to, in fields.
LEMMA ChangedFields ==
    ASSUME NEW d, NEW x, IsDoc(d)
    PROVE  /\ IsDoc(Changed(d, x))
           /\ Changed(d, x).static = d.static
           /\ Changed(d, x).dyn = d.dyn
           /\ Changed(d, x).node = d.node
           /\ Changed(d, x).users = d.users
           /\ Changed(d, x).id = d.id
           /\ Changed(d, x).list = d.list
           /\ Changed(d, x).stale = d.stale \union Above(d, x)
           /\ Changed(d, x).times = d.times
           /\ Changed(d, x).left = d.left
BY DEF Changed, IsDoc

\* Telling of a change is quiet.
LEMMA ChangedQuiet ==
    ASSUME NEW d, Wired(d), NEW x \in Objects \union Layers
    PROVE  Quiet(d, Changed(d, x))
<1>1. Above(d, x) \subseteq Objects \union Layers
    BY AboveThings
<1>2. IsDoc(d) /\ d.list \subseteq Nodes(d) /\ d.stale \subseteq Objects \union Layers
         /\ d.node = [n \in Objects |-> d.node[n]]
    BY DEF Wired, Typed
<1>3. QED
    BY <1>1, <1>2, ChangedFields DEF Quiet

\* So it leads on.
LEMMA ChangedLeads ==
    ASSUME NEW d, Wired(d), NEW x \in Objects \union Layers
    PROVE  Leads(d, Changed(d, x))
BY ChangedQuiet, QuietLeads

\* So is setting the own value of a parameter.
LEMMA StaticQuiet ==
    ASSUME NEW d, Wired(d), NEW p, NEW v
    PROVE  Quiet(d, [d EXCEPT !.static[p] = v])
<1>1. IsDoc(d) /\ d.list \subseteq Nodes(d) /\ d.stale \subseteq Objects \union Layers
         /\ d.node = [n \in Objects |-> d.node[n]]
    BY DEF Wired, Typed
<1>2. QED
    BY <1>1 DEF Quiet, IsDoc

\* A node is named, and the list is another.
Called(d, n, id, list) == [d EXCEPT !.id[n] = id, !.list = list]

\* So is naming a node, and putting it in the list, or taking it out.
LEMMA NamesQuiet ==
    ASSUME NEW d, Wired(d), NEW n, NEW id
    PROVE  /\ Quiet(d, [d EXCEPT !.id[n] = id])
           /\ n \in Nodes(d) => Quiet(d, AddValueNode(d, n, id))
           /\ Quiet(d, RemoveValueNode(d, n))
<1>1. IsDoc(d) /\ d.list \subseteq Nodes(d) /\ d.stale \subseteq Objects \union Layers
         /\ d.node = [m \in Objects |-> d.node[m]]
    BY DEF Wired, Typed
<1>2. Quiet(d, [d EXCEPT !.id[n] = id])
    BY <1>1 DEF Quiet, IsDoc
<1>3. ASSUME NEW list, NEW x, list \subseteq Nodes(d)
      PROVE  Quiet(d, Called(d, n, x, list))
    <2> DEFINE e == Called(d, n, x, list)
    <2>1. /\ IsDoc(e) /\ e.dyn = d.dyn /\ e.users = d.users /\ e.times = d.times /\ e.left = d.left
          /\ e.list = list /\ e.stale = d.stale /\ e.node = d.node
        BY <1>1 DEF IsDoc, Called
    <2> HIDE DEF e
    <2>2. Quiet(d, e)
        BY <1>1, <1>3, <2>1 DEF Quiet
    <2>3. QED
        BY <2>2 DEF e
<1>4. n \in Nodes(d) => d.list \union {n} \subseteq Nodes(d)
    BY <1>1
<1>5. d.list \ {n} \subseteq Nodes(d)
    BY <1>1
<1>6. n \in Nodes(d) => Quiet(d, AddValueNode(d, n, id))
    <2>1. AddValueNode(d, n, id) = Called(d, n, id, d.list \union {n})
        BY DEF AddValueNode, Called
    <2>2. QED
        BY <1>3, <1>4, <2>1
<1>7. Quiet(d, RemoveValueNode(d, n))
    <2>1. RemoveValueNode(d, n) = Called(d, n, NoId, d.list \ {n})
        BY DEF RemoveValueNode, Called
    <2>2. QED
        BY <1>3, <1>5, <2>1
<1>8. QED
    BY <1>2, <1>6, <1>7

\* So is setting the value of a constant, or of a waypoint.
LEMMA ValueQuiet ==
    ASSUME NEW d, Wired(d), NEW n \in Of(d, "const") \union Of(d, "waypoint"), NEW v
    PROVE  Quiet(d, [d EXCEPT !.node[n].value = v])
<1>1. IsDoc(d) /\ d.list \subseteq Nodes(d) /\ d.stale \subseteq Objects \union Layers
         /\ d.node = [m \in Objects |-> d.node[m]]
    BY DEF Wired, Typed
<1>2. n \in Objects /\ d.node[n].kind \in {"const", "waypoint"}
         /\ d.node[n] = [kind |-> d.node[n].kind, value |-> d.node[n].value]
    BY KindOK DEF Wired, Of, Const, Waypoint
<1> DEFINE e == [d EXCEPT !.node[n].value = v]
<1>3. /\ IsDoc(e) /\ e.dyn = d.dyn /\ e.users = d.users /\ e.times = d.times /\ e.left = d.left /\ e.list = d.list /\ e.stale = d.stale
      /\ e.node = [m \in Objects |-> IF m = n THEN [kind |-> d.node[n].kind, value |-> v] ELSE d.node[m]]
    BY <1>1, <1>2 DEF IsDoc
<1> HIDE DEF e
<1>4. \A m \in Objects : e.node[m] # d.node[m] =>
        /\ d.node[m].kind \in {"const", "waypoint"}
        /\ e.node[m] = [kind |-> d.node[m].kind, value |-> e.node[m].value]
    BY <1>2, <1>3
<1>5. e.node = [m \in Objects |-> e.node[m]]
    BY <1>3
<1>6. IsDoc(e) /\ e.dyn = d.dyn /\ e.users = d.users /\ e.times = d.times /\ e.left = d.left /\ e.list = d.list /\ e.stale = d.stale
    BY <1>3
<1>7. Quiet(d, e)
    BY <1>1, <1>4, <1>5, <1>6 DEF Quiet
<1>8. QED
    BY <1>7 DEF e

-----------------------------------------------------------------------------
(***************************************************************************)
(* New objects.                                                            *)
(***************************************************************************)

\* The least of a set of numbers.
LEMMA LeastExists ==
    ASSUME NEW S \in SUBSET Nat, S # {}
    PROVE  \E i \in S : \A j \in S : i <= j
<1>1. PICK i \in S : \A j \in S : ~(<<j, i>> \in OpToRel(<, Nat))
    BY NatLessThanWellFounded, WFMin
<1>2. \A j \in S : ~(j < i)
    BY <1>1, Zenon DEF OpToRel
<1>3. \A j \in S : i <= j
    BY <1>2
<1>4. QED
    BY <1>3

\* Where there is room, a fresh object is a free one.
LEMMA FreshIs ==
    ASSUME NEW d, NEW k \in Nat, k >= 1, Room(d, k)
    PROVE  Fresh(d) \in Objects /\ d.node[Fresh(d)] = Free
<1> DEFINE S == {n \in Objects : d.node[n] = Free}
<1>1. S # {}
    <2>1. Cardinality({}) = 0
        BY FS_EmptySet
    <2>2. IsFiniteSet(S)
        <3>1. IsFiniteSet(Objects)
            BY GraphAssumption, FS_Interval DEF Objects
        <3>2. QED
            BY <3>1, FS_Subset
    <2>3. Cardinality(S) \in Nat
        BY <2>2, FS_CardinalityType
    <2>4. Cardinality(S) >= k
        BY DEF Room
    <2>5. Cardinality(S) # 0
        BY <2>3, <2>4
    <2>6. QED
        BY <2>1, <2>5
<1>2. S \in SUBSET Nat
    BY DEF Objects
<1>3. PICK i \in S : \A j \in S : i <= j
    BY <1>1, <1>2, LeastExists
<1>4. \E n \in Objects : d.node[n] = Free /\ \A m \in Objects : d.node[m] = Free => n <= m
    BY <1>3
<1>5. QED
    BY <1>4, Zenon DEF Fresh

\* A new object takes one place.
LEMMA CreatedRoom ==
    ASSUME NEW d, Typed(d), Room(d, 2), NEW o, o.kind # "free"
    PROVE  Room(Created(d, o), 1) /\ Fresh(Created(d, o)) # Fresh(d)
<1> DEFINE S == {n \in Objects : d.node[n] = Free}
           T == {n \in Objects : Created(d, o).node[n] = Free}
           f == Fresh(d)
<1>1. f \in Objects /\ d.node[f] = Free
    BY FreshIs
<1>2. T = S \ {f}
    BY <1>1 DEF Created, Typed, IsDoc, Free
<1>3. IsFiniteSet(S)
    <2>1. IsFiniteSet(Objects)
        BY GraphAssumption, FS_Interval DEF Objects
    <2>2. QED
        BY <2>1, FS_Subset
<1>4. Cardinality(S) \in Nat /\ Cardinality(S) >= 2
    BY <1>3, FS_CardinalityType DEF Room
<1>5. Cardinality(T) = Cardinality(S) - 1
    BY <1>1, <1>2, <1>3, FS_RemoveElement
<1>6. Room(Created(d, o), 1)
    BY <1>4, <1>5 DEF Room
<1>7. Fresh(Created(d, o)) \in T
    BY <1>6, FreshIs
<1>8. QED
    BY <1>2, <1>6, <1>7

\* More room is room.
LEMMA RoomOne ==
    ASSUME NEW d, Room(d, 2)
    PROVE  Room(d, 1)
<1>1. IsFiniteSet({n \in Objects : d.node[n] = Free})
    <2>1. IsFiniteSet(Objects)
        BY GraphAssumption, FS_Interval DEF Objects
    <2>2. QED
        BY <2>1, FS_Subset
<1>2. QED
    BY <1>1, FS_CardinalityType DEF Room

\* What is fit stays fit while nothing goes.
LEMMA GrowsFit ==
    ASSUME NEW d, NEW e, Grows(d, e)
    PROVE  /\ \A kind : kind # "free" => Of(d, kind) \subseteq Of(e, kind)
           /\ Nodes(d) \subseteq Nodes(e)
           /\ Of(e, "free") \subseteq Of(d, "free")
           /\ \A o : ObjectOK(d, o) => ObjectOK(e, o)
<1>1. \A kind : kind # "free" => Of(d, kind) \subseteq Of(e, kind)
    BY DEF Of, Grows
<1>2. Nodes(d) \subseteq Nodes(e)
    BY <1>1 DEF Nodes
<1>3. Of(e, "free") \subseteq Of(d, "free")
    BY DEF Of, Grows
<1>4. Of(d, "waypoint") \subseteq Of(e, "waypoint")
    BY <1>1
<1>5. ASSUME NEW o, SwitchOK(d, o)
      PROVE  SwitchOK(e, o)
    BY <1>2, <1>5 DEF SwitchOK
<1>6. ASSUME NEW o, AnimatedOK(d, o)
      PROVE  AnimatedOK(e, o)
    BY <1>4, <1>6 DEF AnimatedOK
<1>7. \A o : ObjectOK(d, o) => ObjectOK(e, o)
    BY <1>5, <1>6 DEF ObjectOK
<1>8. QED
    BY <1>1, <1>2, <1>3, <1>7

\* The fields of a document with a new object.
LEMMA CreatedFields ==
    ASSUME NEW d, Typed(d), Room(d, 1), NEW o
    PROVE  /\ IsDoc(Created(d, o))
           /\ Created(d, o).static = d.static
           /\ Created(d, o).dyn = d.dyn
           /\ Created(d, o).node = [n \in Objects |-> IF n = Fresh(d) THEN o ELSE d.node[n]]
           /\ Created(d, o).users = d.users
           /\ Created(d, o).id = d.id
           /\ Created(d, o).list = d.list
           /\ Created(d, o).stale = d.stale
           /\ Created(d, o).times = d.times
           /\ Created(d, o).left = d.left
           /\ Grows(d, Created(d, o))
<1>1. Fresh(d) \in Objects /\ d.node[Fresh(d)] = Free
    BY FreshIs
<1>2. d.node = [n \in Objects |-> d.node[n]]
    BY DEF Typed
<1>3. Created(d, o).node = [n \in Objects |-> IF n = Fresh(d) THEN o ELSE d.node[n]]
    BY <1>1, <1>2 DEF Created, Typed, IsDoc
<1>4. Grows(d, Created(d, o))
    BY <1>1, <1>3 DEF Grows, Free
<1>5. QED
    BY <1>3, <1>4 DEF Created, Typed, IsDoc

\* Nobody uses what is free.
LEMMA FreeUnused ==
    ASSUME NEW d, Wired(d), NEW n \in Objects, d.node[n] = Free
    PROVE  /\ d.users[n] = {}
           /\ \A x \in Objects \union Layers : n \notin Children(d, x)
           /\ n \in d.stale
           /\ n \notin Nodes(d)
<1>1. n \notin Nodes(d)
    BY DEF Nodes, Of, Free
<1>2. \A x \in Objects \union Layers : n \notin Children(d, x)
    BY <1>1, ChildKnows
<1>3. d.users[n] = {}
    BY <1>2 DEF Wired, UsersTrue
<1>4. n \in d.stale
    BY DEF Wired, Typed, Of, Free
<1>5. QED
    BY <1>1, <1>2, <1>3, <1>4

\* A new object that links nothing.
LEMMA CreatedLeads ==
    ASSUME NEW d, Wired(d), Room(d, 1), NEW o, ObjectOK(d, o), o.kind \in {"const", "waypoint", "animated"}
    PROVE  /\ Leads(d, Created(d, o))
           /\ Fresh(d) \in Of(Created(d, o), o.kind)
<1> DEFINE e == Created(d, o)
           f == Fresh(d)
<1>1. f \in Objects /\ d.node[f] = Free
    BY FreshIs
<1>2. Typed(d)
    BY DEF Wired
<1>3. /\ IsDoc(e) /\ e.dyn = d.dyn /\ e.users = d.users /\ e.list = d.list /\ e.stale = d.stale /\ e.times = d.times /\ e.left = d.left
      /\ e.node = [n \in Objects |-> IF n = f THEN o ELSE d.node[n]]
      /\ Grows(d, e)
    BY <1>2, CreatedFields
<1> HIDE DEF e, f
<1>4. f \in Of(e, o.kind)
    BY <1>1, <1>3 DEF Of
<1>5. \A n \in Objects : ObjectOK(e, e.node[n])
    BY <1>2, <1>3, GrowsFit DEF Typed
<1>6. Typed(e)
    <2>1. Nodes(d) \subseteq Nodes(e) /\ Of(e, "free") \subseteq Of(d, "free")
        BY <1>3, GrowsFit
    <2>2. QED
        BY <1>2, <1>3, <1>5, <2>1 DEF Typed
<1>7. ASSUME NEW x \in Objects \union Layers
      PROVE  /\ Children(e, x) = Children(d, x)
             /\ x # f => OwnTimes(e, x) = OwnTimes(d, x)
    <2>1. CASE x \in Layers
        BY <1>3, <2>1 DEF Children, OwnTimes
    <2>2. CASE x \notin Layers /\ x # f
        BY <1>3, <2>2 DEF Children, OwnTimes
    <2>3. CASE x \notin Layers /\ x = f
        <3>1. e.node[f].kind # "switch" /\ d.node[f].kind # "switch"
            BY <1>1, <1>3 DEF Free
        <3>2. QED
            BY <2>3, <3>1 DEF Children
    <2>4. QED
        BY <2>1, <2>2, <2>3
<1>8. UsersTrue(e)
    BY <1>3, <1>7 DEF Wired, UsersTrue
<1>9. Above(e, f) \subseteq e.stale
    BY <1>1, <1>3, FreeUnused DEF Above, Users
<1>10. Wired(e)
    BY <1>6, <1>8 DEF Wired
<1>11. TimesTrue(d) => TimesTrue(e)
    BY <1>3, <1>7, <1>9, <1>10, CacheKept
<1>12. QED
    BY <1>3, <1>4, <1>10, <1>11 DEF Leads, e, f

-----------------------------------------------------------------------------
(***************************************************************************)
(* Links and connections.                                                  *)
(***************************************************************************)

UsersOK(d) == d.users \in [Objects -> SUBSET (Objects \union Layers)]

\* From a document to one where only the users are others.
Told(d, e, users) ==
    /\ IsDoc(e) /\ e.dyn = d.dyn /\ e.list = d.list /\ e.stale = d.stale /\ e.times = d.times /\ e.left = d.left
    /\ e.node = d.node
    /\ UsersOK(e) /\ e.users = users

\* A node is told of one that uses it.
LEMMA AddFields ==
    ASSUME NEW d, IsDoc(d), UsersOK(d), NEW x, x \in Objects \/ x \in Layers, NEW n \in Objects
    PROVE  Told(d, AddChild(d, x, n), [m \in Objects |-> IF m = n THEN d.users[m] \union {x} ELSE d.users[m]])
<1> DEFINE e == AddChild(d, x, n)
<1>1. /\ IsDoc(e) /\ e.dyn = d.dyn /\ e.list = d.list
      /\ e.stale = d.stale /\ e.times = d.times
      /\ e.left = d.left /\ e.node = d.node
    BY DEF AddChild, IsDoc
<1>2. e.users = [d.users EXCEPT ![n] = d.users[n] \union {x}]
    BY DEF AddChild, IsDoc
<1> HIDE DEF e
<1>3. UsersOK(e) /\ e.users = [m \in Objects |-> IF m = n THEN d.users[m] \union {x} ELSE d.users[m]]
    BY <1>2 DEF UsersOK
<1>4. QED
    BY <1>1, <1>3 DEF e, Told

\* A node forgets one that uses it.
LEMMA RemoveFields ==
    ASSUME NEW d, IsDoc(d), UsersOK(d), NEW x, x \in Objects \/ x \in Layers, NEW n \in Objects
    PROVE  Told(d, RemoveChild(d, x, n), [m \in Objects |-> IF m = n THEN d.users[m] \ {x} ELSE d.users[m]])
<1> DEFINE e == RemoveChild(d, x, n)
<1>1. /\ IsDoc(e) /\ e.dyn = d.dyn /\ e.list = d.list
      /\ e.stale = d.stale /\ e.times = d.times
      /\ e.left = d.left /\ e.node = d.node
    BY DEF RemoveChild, IsDoc
<1>2. e.users = [d.users EXCEPT ![n] = d.users[n] \ {x}]
    BY DEF RemoveChild, IsDoc
<1> HIDE DEF e
<1>3. UsersOK(e) /\ e.users = [m \in Objects |-> IF m = n THEN d.users[m] \ {x} ELSE d.users[m]]
    BY <1>2 DEF UsersOK
<1>4. QED
    BY <1>1, <1>3 DEF e, Told

\* A link is set.
Linked(d, n, i, x) == [d EXCEPT !.node[n].links[i] = x]

\* The fields of a document where a link is set, before its users are told.
LEMMA LinkFields ==
    ASSUME NEW d, Wired(d), NEW n \in Of(d, "switch"), NEW i \in Links, NEW x \in Nodes(d),
           NEW e, e = Linked(d, n, i, x)
    PROVE  /\ IsDoc(e) /\ e.dyn = d.dyn /\ e.users = d.users /\ e.list = d.list
           /\ e.stale = d.stale /\ e.times = d.times /\ e.left = d.left
           /\ e.node = [m \in Objects |-> IF m = n THEN [kind |-> "switch", links |-> e.node[n].links] ELSE d.node[m]]
           /\ e.node[n].links = [j \in Links |-> IF j = i THEN x ELSE d.node[n].links[j]]
<1>0. e = [d EXCEPT !.node[n].links[i] = x]
    BY DEF Linked
<1>1. n \in Objects /\ d.node[n].kind = "switch"
    BY DEF Of
<1>2. d.node[n] = [kind |-> "switch", links |-> d.node[n].links] /\ d.node[n].links \in [Links -> Nodes(d)]
    BY <1>1, KindOK DEF Wired, SwitchOK
<1>3. d.node = [m \in Objects |-> d.node[m]] /\ IsDoc(d)
    BY DEF Wired, Typed
<1>4. IsDoc(e) /\ e.dyn = d.dyn /\ e.users = d.users /\ e.list = d.list /\ e.stale = d.stale /\ e.times = d.times /\ e.left = d.left
    BY <1>0, <1>3 DEF IsDoc
<1>5. e.node = [m \in Objects |-> IF m = n THEN [d.node[n] EXCEPT !.links[i] = x] ELSE d.node[m]]
    BY <1>0, <1>1, <1>3 DEF IsDoc
<1>6. [d.node[n] EXCEPT !.links[i] = x] = [kind |-> "switch", links |-> [j \in Links |-> IF j = i THEN x ELSE d.node[n].links[j]]]
    BY <1>2
<1>7. e.node[n] = [kind |-> "switch", links |-> [j \in Links |-> IF j = i THEN x ELSE d.node[n].links[j]]]
    BY <1>1, <1>5, <1>6
<1>8. e.node = [m \in Objects |-> IF m = n THEN [kind |-> "switch", links |-> e.node[n].links] ELSE d.node[m]]
    BY <1>5, <1>6, <1>7
<1>9. QED
    BY <1>4, <1>7, <1>8

\* A link that is set is known to the node it goes to, and is not to the one it went to, if no other goes there.
LEMMA SetLinkLeads ==
    ASSUME NEW d, Wired(d), NEW n \in Of(d, "switch"), NEW i \in Links, NEW x \in Nodes(d)
    PROVE  Leads(d, SetLink(d, n, i, x))
<1> DEFINE old == d.node[n].links[i]
           e == [d EXCEPT !.node[n].links[i] = x]
           others == {e.node[n].links[j] : j \in Links \ {i}}
           b == IF old \in others THEN e ELSE RemoveChild(e, n, old)
           c == AddChild(b, n, x)
           g == Changed(c, n)
<1>1. n \in Objects /\ d.node[n].kind = "switch" /\ n \notin Layers
    BY Things DEF Of
<1>2. d.node[n].links \in [Links -> Nodes(d)]
    BY <1>1, KindOK DEF Wired, SwitchOK
<1>0. e = Linked(d, n, i, x)
    BY DEF Linked
<1> HIDE DEF e
<1>3. /\ IsDoc(e) /\ e.dyn = d.dyn /\ e.users = d.users /\ e.list = d.list /\ e.stale = d.stale /\ e.times = d.times /\ e.left = d.left
      /\ e.node = [m \in Objects |-> IF m = n THEN [kind |-> "switch", links |-> e.node[n].links] ELSE d.node[m]]
      /\ e.node[n].links = [j \in Links |-> IF j = i THEN x ELSE d.node[n].links[j]]
    BY <1>0, LinkFields
<1>4. x \in Objects /\ old \in Objects
    BY <1>2, Things
<1>5. d.users \in [Objects -> SUBSET (Objects \union Layers)]
    BY DEF Wired, Typed
<1>6. /\ IsDoc(c) /\ c.dyn = d.dyn /\ c.list = d.list /\ c.stale = d.stale /\ c.times = d.times /\ c.left = d.left /\ c.node = e.node
      /\ c.users \in [Objects -> SUBSET (Objects \union Layers)]
      /\ \A m \in Objects : c.users[m] = (IF m = old /\ old \notin others THEN d.users[m] \ {n} ELSE d.users[m])
                                         \union (IF m = x THEN {n} ELSE {})
    <2>1. /\ IsDoc(b) /\ b.dyn = d.dyn /\ b.list = d.list /\ b.stale = d.stale /\ b.times = d.times /\ b.left = d.left /\ b.node = e.node
          /\ b.users \in [Objects -> SUBSET (Objects \union Layers)]
          /\ \A m \in Objects : b.users[m] = (IF m = old /\ old \notin others THEN d.users[m] \ {n} ELSE d.users[m])
        <3>0. b = IF old \in others THEN e ELSE RemoveChild(e, n, old)
            OBVIOUS
        <3> HIDE DEF b, others, old
        <3>1. CASE old \in others
            BY <1>3, <1>5, <3>0, <3>1
        <3>2. CASE old \notin others
            <4>1. b = RemoveChild(e, n, old) /\ IsDoc(e) /\ e.users = d.users /\ UsersOK(e)
                BY <1>3, <1>5, <3>0, <3>2 DEF UsersOK
            <4>2. Told(e, b, [m \in Objects |-> IF m = old THEN e.users[m] \ {n} ELSE e.users[m]])
                BY <1>1, <1>4, <4>1, RemoveFields
            <4>3. QED
                BY <1>3, <3>2, <4>1, <4>2 DEF Told, UsersOK
        <3>3. QED
            BY <3>1, <3>2
    <2> HIDE DEF b, others, old
    <2>2. QED
        <3>1. UsersOK(b) /\ IsDoc(b)
            BY <2>1 DEF UsersOK
        <3>2. Told(b, c, [m \in Objects |-> IF m = x THEN b.users[m] \union {n} ELSE b.users[m]])
            BY <1>1, <1>4, <3>1, AddFields
        <3> HIDE DEF c
        <3>3. QED
            BY <2>1, <3>2 DEF Told, UsersOK
<1> HIDE DEF b, c
<1>7. ASSUME NEW m \in Objects
      PROVE  c.node[m].kind = d.node[m].kind /\ (m # n => c.node[m] = d.node[m])
    BY <1>1, <1>3, <1>6
<1>8. Nodes(c) = Nodes(d) /\ Of(c, "free") = Of(d, "free") /\ Grows(d, c) /\ \A o : ObjectOK(c, o) <=> ObjectOK(d, o)
    <2>1. \A m \in Objects : c.node[m].kind = d.node[m].kind
        BY <1>7
    <2>2. QED
        BY <2>1, SameKinds
<1>9. ASSUME NEW m \in Objects
      PROVE  ObjectOK(c, c.node[m])
    <2>1. CASE m = n
        <3>1. c.node[n] = [kind |-> "switch", links |-> c.node[n].links] /\ c.node[n].links \in [Links -> Nodes(c)]
            BY <1>1, <1>2, <1>3, <1>6, <1>8
        <3>2. QED
            BY <2>1, <3>1 DEF ObjectOK, SwitchOK
    <2>2. CASE m # n
        BY <1>7, <1>8, <2>2 DEF Wired, Typed
    <2>3. QED
        BY <2>1, <2>2
<1>10. Typed(c)
    BY <1>3, <1>6, <1>8, <1>9 DEF Wired, Typed
<1>11. ASSUME NEW y \in Objects \union Layers, y # n
       PROVE  Children(c, y) = Children(d, y) /\ OwnTimes(c, y) = OwnTimes(d, y)
    <2>1. CASE y \in Layers
        BY <1>6, <2>1 DEF Children, OwnTimes
    <2>2. CASE y \notin Layers
        <3>1. c.node[y] = d.node[y]
            BY <1>7, <1>11, <2>2
        <3>2. QED
            BY <2>2, <3>1 DEF Children, OwnTimes
    <2>3. QED
        BY <2>1, <2>2
<1>12. OwnTimes(c, n) = OwnTimes(d, n)
    BY <1>1, <1>3, <1>6 DEF OwnTimes
<1>13. UsersTrue(c)
    <2> SUFFICES ASSUME NEW m \in Objects, NEW y \in Objects \union Layers
                 PROVE  Knows(c, m, y)
        BY <1>10, UsersIff
    <2>1. Knows(d, m, y)
        BY UsersIff DEF Wired
    <2>2. CASE y # n
        BY <1>6, <1>11, <2>1, <2>2 DEF Knows
    <2>3. CASE y = n
        <3>1. m \in Children(c, n) <=> \E j \in Links : c.node[n].links[j] = m
            BY <1>1, <1>7, <1>10, ChildIff
        <3>2. m \in Children(d, n) <=> \E j \in Links : d.node[n].links[j] = m
            BY <1>1, ChildIff DEF Wired
        <3>3. others = {d.node[n].links[j] : j \in Links \ {i}}
            <4>1. \A j \in Links \ {i} : e.node[n].links[j] = d.node[n].links[j]
                BY <1>3
            <4>2. QED
                BY <4>1
        <3>4. m \in Children(c, n) <=> m = x \/ m \in others
            <4>1. c.node[n].links = e.node[n].links
                BY <1>6
            <4>2. e.node[n].links[i] = x
                BY <1>3
            <4>3. m \in others <=> \E j \in Links \ {i} : e.node[n].links[j] = m
                OBVIOUS
            <4> HIDE DEF others, e
            <4>4. (\E j \in Links : c.node[n].links[j] = m) <=> m = x \/ \E j \in Links \ {i} : e.node[n].links[j] = m
                BY <4>1, <4>2
            <4>5. QED
                BY <3>1, <4>3, <4>4
        <3>5. m \in Children(d, n) <=> m = old \/ m \in others
            BY <3>2, <3>3
        <3>6. n \notin d.left
            BY <1>1, NotLeft
        <3>7. QED
            BY <1>6, <2>1, <2>3, <3>4, <3>5, <3>6 DEF Knows
    <2>4. QED
        BY <2>2, <2>3
<1>14. Wired(c)
    BY <1>10, <1>13 DEF Wired
<1>15. Wired(g) /\ Grows(c, g) /\ Quiet(c, g)
    BY <1>1, <1>14, ChangedQuiet, QuietLeads DEF Leads
<1>16. /\ g.times = d.times /\ g.left = d.left
       /\ g.stale = d.stale \union Above(c, n)
       /\ g.users = c.users
    BY <1>6, <1>10, ChangedFields DEF Typed
<1>17. \A y \in Objects \union Layers : Children(g, y) = Children(c, y) /\ OwnTimes(g, y) = OwnTimes(c, y)
    BY <1>14, <1>15, QuietLeads
<1> HIDE DEF g
<1>18. {n} \union Users(g, n) \subseteq g.stale
    BY <1>16 DEF Above, Users
<1>19. TimesTrue(d) => TimesTrue(g)
    BY <1>11, <1>12, <1>15, <1>16, <1>17, <1>18, CacheKept
<1>20. Grows(d, g)
    BY <1>8, <1>15 DEF Grows
<1>21. SetLink(d, n, i, x) = g
    BY DEF SetLink, g, c, b, e
<1>22. QED
    BY <1>15, <1>19, <1>20, <1>21 DEF Leads

\* A parameter is connected to another node, or to none.  The node it was connected to forgets the layer
\* (drop), or not; where it does though the layer still uses it, the layer is one that was forgotten.
LEMMA DynLeads ==
    ASSUME NEW d, Wired(d), NEW p \in Params, NEW v \in Nodes(d) \union {None}, v # d.dyn[p], NEW c, IsDoc(c),
           c.dyn = [d.dyn EXCEPT ![p] = v], c.list = d.list, c.stale = d.stale, c.times = d.times, c.node = d.node,
           d.left \subseteq c.left, c.left \subseteq Layers,
           c.users \in [Objects -> SUBSET (Objects \union Layers)], NEW drop,
           drop /\ d.dyn[p] \in Children(c, LayerOf[p]) => LayerOf[p] \in c.left,
           ~drop => d.dyn[p] \in Children(c, LayerOf[p]),
           \A m \in Objects : c.users[m] = (IF m = d.dyn[p] /\ drop THEN d.users[m] \ {LayerOf[p]} ELSE d.users[m])
                                           \union (IF m = v THEN {LayerOf[p]} ELSE {})
    PROVE  Leads(d, Changed(c, LayerOf[p]))
<1> DEFINE l == LayerOf[p]
           g == Changed(c, l)
<1>1. l \in Layers /\ l \notin Objects
    BY Things
<1>2. Nodes(c) = Nodes(d) /\ Of(c, "free") = Of(d, "free") /\ Grows(d, c) /\ \A o : ObjectOK(c, o) <=> ObjectOK(d, o)
    BY SameKinds
<1>3. c.dyn \in [Params -> Nodes(d) \union {None}] /\ d.dyn \in [Params -> Nodes(d) \union {None}]
    BY DEF Wired, Typed
<1>4. Typed(c)
    BY <1>2, <1>3 DEF Wired, Typed
<1>5. ASSUME NEW y \in Objects \union Layers, y # l
      PROVE  Children(c, y) = Children(d, y)
    <2>1. CASE y \in Layers
        <3>1. \A q \in Params : LayerOf[q] = y => q # p
            BY <1>5
        <3>2. \A q \in Params : LayerOf[q] = y => c.dyn[q] = d.dyn[q]
            BY <1>3, <3>1
        <3>3. QED
            BY <2>1, <3>2 DEF Children
    <2>2. CASE y \notin Layers
        BY <2>2 DEF Children
    <2>3. QED
        BY <2>1, <2>2
<1>6. \A y \in Objects \union Layers : OwnTimes(c, y) = OwnTimes(d, y)
    BY DEF OwnTimes
<1>7. UsersTrue(c)
    <2> SUFFICES ASSUME NEW m \in Objects, NEW y \in Objects \union Layers
                 PROVE  Knows(c, m, y)
        BY <1>4, UsersIff
    <2>1. Knows(d, m, y)
        BY UsersIff DEF Wired
    <2>2. CASE y # l
        BY <1>5, <2>1, <2>2 DEF Knows
    <2>3. CASE y = l
        <3>1. m # None
            BY Things
        <3>c. ASSUME NEW z, Typed(z)
              PROVE  m \in Children(z, l) <=> \E q \in Params : LayerOf[q] = l /\ z.dyn[q] = m
            <4> HIDE DEF l, g
            <4>1. QED
                BY <1>1, <3>1, <3>c, ChildIff
        <3>d. Typed(d)
            BY DEF Wired
        <3>2. m \in Children(c, l) <=> \E q \in Params : LayerOf[q] = l /\ c.dyn[q] = m
            BY <1>4, <3>c
        <3>3. m \in Children(d, l) <=> \E q \in Params : LayerOf[q] = l /\ d.dyn[q] = m
            BY <3>d, <3>c
        <3>4. m = v => m \in Children(c, l)
            BY <1>3, <3>2
        <3>5. m # v /\ m \in Children(c, l) => m \in Children(d, l)
            BY <1>3, <3>2, <3>3
        <3>6. m # d.dyn[p] /\ m \in Children(d, l) => m \in Children(c, l)
            BY <1>3, <3>2, <3>3
        <3> HIDE DEF l, g
        <3>7. /\ m = v => l \in c.users[m]
              /\ m # v => (l \in c.users[m] <=> l \in d.users[m] /\ ~(m = d.dyn[p] /\ drop))
            BY DEF l
        <3>8. /\ drop /\ d.dyn[p] \in Children(c, l) => l \in c.left
              /\ ~drop => d.dyn[p] \in Children(c, l)
            BY DEF l
        <3>9. QED
            BY <2>1, <2>3, <3>4, <3>5, <3>6, <3>7, <3>8 DEF Knows
    <2>4. QED
        BY <2>2, <2>3
<1>8. Wired(c)
    BY <1>4, <1>7 DEF Wired
<1>9. Wired(g) /\ Grows(c, g) /\ Quiet(c, g)
    BY <1>1, <1>8, ChangedQuiet, QuietLeads DEF Leads
<1>10. /\ g.times = d.times /\ g.left = c.left
       /\ g.stale = d.stale \union Above(c, l)
    BY ChangedFields
<1>11. \A y \in Objects \union Layers : Children(g, y) = Children(c, y) /\ OwnTimes(g, y) = OwnTimes(c, y)
    BY <1>8, <1>9, QuietLeads
<1> HIDE DEF g
<1>12. {l} \union Users(g, l) \subseteq g.stale
    BY <1>1, <1>10 DEF Above, Users
<1>13. TimesTrue(d) => TimesTrue(g)
    BY <1>5, <1>6, <1>9, <1>10, <1>11, <1>12, CacheKept
<1>14. Grows(d, g)
    BY <1>2, <1>9 DEF Grows
<1>15. QED
    BY <1>9, <1>13, <1>14 DEF Leads, g

\* Connecting a parameter: the node it was connected to forgets the layer.
LEMMA ConnectLeads ==
    ASSUME NEW d, Wired(d), NEW p \in Params, NEW n \in Nodes(d)
    PROVE  Leads(d, ConnectParam(d, p, n))
<1> DEFINE l == LayerOf[p]
           e == [d EXCEPT !.dyn[p] = n]
           f == IF d.dyn[p] = None THEN e ELSE RemoveChild(e, l, d.dyn[p])
           g == IF d.dyn[p] \in Children(e, l) THEN [f EXCEPT !.left = @ \union {l}] ELSE f
           c == AddChild(g, l, n)
<1>1. CASE d.dyn[p] = n
    BY <1>1, LeadsSame DEF ConnectParam
<1>2. CASE d.dyn[p] # n
    <2>1. l \in Layers /\ n \in Objects /\ None \notin Objects
        BY Things
    <2>2. /\ d.dyn \in [Params -> Objects \union {None}] /\ IsDoc(d) /\ d.users \in [Objects -> SUBSET (Objects \union Layers)]
          /\ d.left \subseteq Layers
        BY Things DEF Wired, Typed
    <2>3. /\ IsDoc(e) /\ e.dyn = [d.dyn EXCEPT ![p] = n] /\ e.list = d.list /\ e.stale = d.stale /\ e.times = d.times
          /\ e.left = d.left /\ e.node = d.node /\ e.users = d.users
        BY <2>2 DEF IsDoc
    <2> HIDE DEF e, l
    <2>4. /\ IsDoc(f) /\ f.dyn = e.dyn /\ f.list = d.list /\ f.stale = d.stale /\ f.times = d.times /\ f.left = d.left /\ f.node = d.node
          /\ f.users \in [Objects -> SUBSET (Objects \union Layers)]
          /\ \A m \in Objects : f.users[m] = IF m = d.dyn[p] THEN d.users[m] \ {l} ELSE d.users[m]
        <3>1. CASE d.dyn[p] = None
            BY <2>1, <2>2, <2>3, <3>1
        <3>2. CASE d.dyn[p] # None
            <4>1. d.dyn[p] \in Objects
                BY <2>2, <3>2
            <4>2. f = RemoveChild(e, l, d.dyn[p])
                BY <3>2
            <4> HIDE DEF f
            <4>3. QED
                <5>1. UsersOK(e)
                    BY <2>2, <2>3 DEF UsersOK
                <5>2. Told(e, f, [m \in Objects |-> IF m = d.dyn[p] THEN e.users[m] \ {l} ELSE e.users[m]])
                    BY <2>1, <2>3, <4>1, <4>2, <5>1, RemoveFields
                <5>3. QED
                    BY <2>3, <5>2 DEF Told, UsersOK
        <3>3. QED
            BY <3>1, <3>2
    <2> HIDE DEF f
    <2>5. /\ IsDoc(g) /\ g.dyn = e.dyn /\ g.list = d.list /\ g.stale = d.stale /\ g.times = d.times /\ g.node = d.node /\ g.users = f.users
          /\ d.left \subseteq g.left /\ g.left \subseteq Layers
          /\ d.dyn[p] \in Children(e, l) => l \in g.left
        <3>1. CASE d.dyn[p] \in Children(e, l)
            <4>1. g = [f EXCEPT !.left = @ \union {l}]
                BY <3>1
            <4> HIDE DEF g
            <4>2. QED
                BY <2>1, <2>2, <2>4, <3>1, <4>1 DEF IsDoc
        <3>2. CASE d.dyn[p] \notin Children(e, l)
            BY <2>2, <2>4, <3>2
        <3>3. QED
            BY <3>1, <3>2
    <2> HIDE DEF g
    <2>6. /\ IsDoc(c) /\ c.dyn = [d.dyn EXCEPT ![p] = n] /\ c.list = d.list /\ c.stale = d.stale /\ c.times = d.times /\ c.left = g.left
          /\ c.node = d.node
          /\ c.users \in [Objects -> SUBSET (Objects \union Layers)]
          /\ \A m \in Objects : c.users[m] = f.users[m] \union (IF m = n THEN {l} ELSE {})
        <3>1. UsersOK(g) /\ IsDoc(g)
            BY <2>4, <2>5 DEF UsersOK
        <3>2. Told(g, c, [m \in Objects |-> IF m = n THEN g.users[m] \union {l} ELSE g.users[m]])
            BY <2>1, <3>1, AddFields
        <3> HIDE DEF c
        <3>3. \A m \in Objects : c.users[m] = f.users[m] \union (IF m = n THEN {l} ELSE {})
            BY <2>5, <3>2 DEF Told
        <3>4. QED
            BY <2>3, <2>4, <2>5, <3>2, <3>3 DEF Told, UsersOK
    <2> HIDE DEF c
    <2>7. Leads(d, Changed(c, l))
        <3>1. \A m \in Objects : c.users[m] = (IF m = d.dyn[p] /\ TRUE THEN d.users[m] \ {l} ELSE d.users[m])
                                              \union (IF m = n THEN {l} ELSE {})
            BY <2>4, <2>6
        <3>2. Children(c, l) = Children(e, l)
            BY <2>1, <2>3, <2>6 DEF Children
        <3>3. TRUE /\ d.dyn[p] \in Children(c, l) => l \in c.left
            BY <2>5, <2>6, <3>2
        <3>4. n \in Nodes(d) \union {None} /\ n # d.dyn[p]
            BY <1>2
        <3>5. d.left \subseteq c.left /\ c.left \subseteq Layers
            BY <2>5, <2>6
        <3>6. QED
            BY <2>6, <3>1, <3>3, <3>4, <3>5, DynLeads DEF l
    <2>8. ConnectParam(d, p, n) = Changed(c, l)
        BY <1>2 DEF ConnectParam, c, g, f, e, l
    <2>9. QED
        BY <2>7, <2>8
<1>3. QED
    BY <1>1, <1>2

\* Disconnecting it: a node that another parameter of the layer is connected to does not forget the layer.
LEMMA DisconnectLeads ==
    ASSUME NEW d, Wired(d), NEW p \in Params
    PROVE  Leads(d, DisconnectParam(d, p))
<1> DEFINE l == LayerOf[p]
           e == [d EXCEPT !.dyn[p] = None]
           drop == d.dyn[p] \notin Children(e, l)
           c == IF d.dyn[p] \in Children(e, l) THEN e ELSE RemoveChild(e, l, d.dyn[p])
<1>1. CASE d.dyn[p] = None
    BY <1>1, LeadsSame DEF DisconnectParam
<1>2. CASE d.dyn[p] # None
    <2>1. l \in Layers /\ None \notin Objects
        BY Things
    <2>2. /\ d.dyn \in [Params -> Objects \union {None}] /\ IsDoc(d) /\ d.users \in [Objects -> SUBSET (Objects \union Layers)]
          /\ d.left \subseteq Layers
        BY Things DEF Wired, Typed
    <2>3. d.dyn[p] \in Objects
        BY <1>2, <2>2
    <2>4. /\ IsDoc(e) /\ e.dyn = [d.dyn EXCEPT ![p] = None] /\ e.list = d.list /\ e.stale = d.stale /\ e.times = d.times
          /\ e.left = d.left /\ e.node = d.node /\ e.users = d.users
        BY <2>2 DEF IsDoc
    <2> HIDE DEF e, l
    <2>5. /\ IsDoc(c) /\ c.dyn = e.dyn /\ c.list = d.list /\ c.stale = d.stale /\ c.times = d.times /\ c.left = d.left
          /\ c.node = d.node
          /\ c.users \in [Objects -> SUBSET (Objects \union Layers)]
          /\ \A m \in Objects : c.users[m] = IF m = d.dyn[p] /\ drop THEN d.users[m] \ {l} ELSE d.users[m]
        <3>1. CASE d.dyn[p] \in Children(e, l)
            BY <2>2, <2>4, <3>1
        <3>2. CASE d.dyn[p] \notin Children(e, l)
            <4>1. c = RemoveChild(e, l, d.dyn[p]) /\ drop
                BY <3>2
            <4> HIDE DEF c, drop
            <4>2. QED
                <5>1. UsersOK(e)
                    BY <2>2, <2>4 DEF UsersOK
                <5>2. Told(e, c, [m \in Objects |-> IF m = d.dyn[p] THEN e.users[m] \ {l} ELSE e.users[m]])
                    BY <2>1, <2>3, <2>4, <4>1, <5>1, RemoveFields
                <5>3. QED
                    BY <2>4, <4>1, <5>2 DEF Told, UsersOK
        <3>3. QED
            BY <3>1, <3>2
    <2> HIDE DEF c
    <2>6. Children(c, l) = Children(e, l)
        BY <2>1, <2>5 DEF Children
    <2>7. /\ drop /\ d.dyn[p] \in Children(c, l) => l \in c.left
          /\ ~drop => d.dyn[p] \in Children(c, l)
        BY <2>6
    <2> HIDE DEF drop
    <2>8. \A m \in Objects : c.users[m] = (IF m = d.dyn[p] /\ drop THEN d.users[m] \ {l} ELSE d.users[m])
                                          \union (IF m = None THEN {l} ELSE {})
        BY <2>1, <2>5
    <2>9. /\ None \in Nodes(d) \union {None} /\ None # d.dyn[p]
          /\ d.left \subseteq c.left /\ c.left \subseteq Layers
          /\ c.dyn = [d.dyn EXCEPT ![p] = None]
        BY <1>2, <2>2, <2>4, <2>5
    <2>10. Leads(d, Changed(c, l))
        BY <2>5, <2>7, <2>8, <2>9, DynLeads DEF l
    <2>11. DisconnectParam(d, p) = Changed(c, l)
        BY <1>2 DEF DisconnectParam, c, e, l
    <2>12. QED
        BY <2>10, <2>11
<1>3. QED
    BY <1>1, <1>2

-----------------------------------------------------------------------------
(***************************************************************************)
(* Replacing a node.                                                       *)
(***************************************************************************)

\* What a node becomes when n is replaced by x.
Instead(n, x, m) == IF m = n THEN x ELSE m

\* The fields of a document where n is replaced by x.
LEMMA ReplaceFields ==
    ASSUME NEW d, Wired(d), NEW n \in Nodes(d), NEW x \in Nodes(d), n # x,
           NEW e, e = Replace(d, n, x)
    PROVE  /\ IsDoc(e)
           /\ e.users = [d.users EXCEPT ![x] = d.users[x] \union d.users[n], ![n] = {}]
           /\ e.dyn = [p \in Params |-> Instead(n, x, d.dyn[p])]
           /\ e.list = {Instead(n, x, m) : m \in d.list}
           /\ e.node = [m \in Objects |->
                  IF d.node[m].kind = "switch"
                    THEN [d.node[m] EXCEPT !.links = [i \in Links |-> Instead(n, x, d.node[m].links[i])]]
                    ELSE d.node[m]]
           /\ e.times = d.times /\ e.left = d.left
           /\ e.static = d.static
           /\ e.id = d.id
           /\ e.stale = d.stale \union Above(e, x)
<1> DEFINE U == [d.users EXCEPT ![x] = d.users[x] \union d.users[n], ![n] = {}]
           D == [p \in Params |-> Instead(n, x, d.dyn[p])]
           L == {Instead(n, x, m) : m \in d.list}
           N == [m \in Objects |->
                  IF d.node[m].kind = "switch"
                    THEN [d.node[m] EXCEPT !.links = [i \in Links |-> Instead(n, x, d.node[m].links[i])]]
                    ELSE d.node[m]]
           c == [d EXCEPT !.users = U, !.dyn = D, !.list = L, !.node = N]
<1>1. IsDoc(d)
    BY DEF Wired, Typed
<1>2. Replace(d, n, x) = Changed(c, x)
    <2>1. x \in Objects /\ n \in Objects /\ d.users = [m \in Objects |-> d.users[m]]
        BY Things DEF Wired, Typed
    <2>2. QED
        BY <2>1 DEF Replace, Instead
<1> HIDE DEF U, D, L, N
<1>3. IsDoc(c) /\ c.users = U /\ c.dyn = D /\ c.list = L /\ c.node = N /\ c.times = d.times /\ c.left = d.left /\ c.stale = d.stale
         /\ c.static = d.static /\ c.id = d.id
    BY <1>1 DEF IsDoc
<1> HIDE DEF c
<1>3a. e = Changed(c, x)
    BY <1>2
<1>4. /\ IsDoc(e) /\ e.users = U /\ e.dyn = D /\ e.list = L /\ e.node = N /\ e.times = d.times /\ e.left = d.left
      /\ e.static = d.static /\ e.id = d.id
      /\ e.stale = d.stale \union Above(c, x)
    BY <1>3, <1>3a, ChangedFields
<1>5. Above(e, x) = Above(c, x)
    <2>1. \A y : Users(e, y) = Users(c, y)
        BY <1>3, <1>4 DEF Users
    <2>2. QED
        BY <2>1 DEF Above
<1>6. QED
    BY <1>4, <1>5 DEF U, D, L, N

\* All that linked n link x, which knows of them, and are told.
LEMMA ReplaceWired ==
    ASSUME NEW d, Wired(d), NEW n \in Nodes(d), NEW x \in Nodes(d), n # x
    PROVE  LET e == Replace(d, n, x)
           IN  /\ Wired(e)
               /\ Grows(d, e)
               /\ \A y \in Objects : e.node[y].kind = d.node[y].kind
               /\ \A y \in Objects \union Layers : OwnTimes(e, y) = OwnTimes(d, y)
               /\ \A y \in Objects \union Layers :
                    y \in e.left \/ Children(e, y) = Children(d, y) \/ {y} \union Users(e, y) \subseteq e.stale
               /\ e.times = d.times /\ e.left = d.left
               /\ d.stale \subseteq e.stale
               /\ e.users[n] = {}
               /\ \A m \in Objects : d.node[m].kind # "switch" => e.node[m] = d.node[m]
<1> DEFINE e == Replace(d, n, x)
<1>1. /\ IsDoc(e)
      /\ e.users = [d.users EXCEPT ![x] = d.users[x] \union d.users[n], ![n] = {}]
      /\ e.dyn = [p \in Params |-> Instead(n, x, d.dyn[p])]
      /\ e.list = {Instead(n, x, m) : m \in d.list}
      /\ e.node = [m \in Objects |->
             IF d.node[m].kind = "switch"
               THEN [d.node[m] EXCEPT !.links = [i \in Links |-> Instead(n, x, d.node[m].links[i])]]
               ELSE d.node[m]]
      /\ e.times = d.times /\ e.left = d.left
      /\ e.stale = d.stale \union Above(e, x)
    <2>1. e = Replace(d, n, x)
        OBVIOUS
    <2> HIDE DEF e
    <2>2. QED
        BY <2>1, ReplaceFields
<1> HIDE DEF e
<1>2. n \in Objects /\ x \in Objects /\ None \notin Objects /\ n # None /\ x # None
    BY Things
<1>3. Typed(d)
    BY DEF Wired
<1>4. d.users \in [Objects -> SUBSET (Objects \union Layers)] /\ d.dyn \in [Params -> Nodes(d) \union {None}]
         /\ d.list \subseteq Nodes(d) /\ d.stale \subseteq Objects \union Layers
    BY <1>3 DEF Typed
<1>5. \A m : m \in Nodes(d) => Instead(n, x, m) \in Nodes(d)
    BY DEF Instead
<1>6. ASSUME NEW m \in Objects, d.node[m].kind = "switch"
      PROVE  /\ e.node[m] = [kind |-> "switch", links |-> e.node[m].links]
             /\ e.node[m].kind = "switch"
             /\ e.node[m].links = [i \in Links |-> Instead(n, x, d.node[m].links[i])]
             /\ \A i \in Links : e.node[m].links[i] = Instead(n, x, d.node[m].links[i])
             /\ d.node[m].links \in [Links -> Nodes(d)]
    <2>1. SwitchOK(d, d.node[m])
        BY <1>3, <1>6, KindOK
    <2>2. e.node[m] = [d.node[m] EXCEPT !.links = [i \in Links |-> Instead(n, x, d.node[m].links[i])]]
        BY <1>1, <1>6
    <2>3. QED
        BY <2>1, <2>2 DEF SwitchOK
<1>7. \A m \in Objects : d.node[m].kind # "switch" => e.node[m] = d.node[m]
    BY <1>1
<1>8. \A m \in Objects : e.node[m].kind = d.node[m].kind
    BY <1>6, <1>7
<1>9. /\ Nodes(e) = Nodes(d)
      /\ Of(e, "free") = Of(d, "free")
      /\ Grows(d, e)
      /\ \A o : ObjectOK(e, o) <=> ObjectOK(d, o)
    BY <1>8, SameKinds
<1>10. ASSUME NEW m \in Objects
       PROVE  ObjectOK(e, e.node[m])
    <2>1. CASE d.node[m].kind = "switch"
        <3>1. e.node[m].kind = "switch" /\ e.node[m] = [kind |-> "switch", links |-> e.node[m].links]
            BY <1>6, <2>1
        <3>2. e.node[m].links = [i \in Links |-> Instead(n, x, d.node[m].links[i])]
            BY <1>6, <2>1
        <3>3. \A i \in Links : d.node[m].links[i] \in Nodes(d)
            BY <1>6, <2>1
        <3>4. e.node[m].links \in [Links -> Nodes(e)]
            BY <1>5, <1>9, <3>2, <3>3
        <3>5. QED
            BY <3>1, <3>4 DEF ObjectOK, SwitchOK
    <2>2. CASE d.node[m].kind # "switch"
        BY <1>3, <1>7, <1>9, <2>2 DEF Typed
    <2>3. QED
        BY <2>1, <2>2
<1>11. ASSUME NEW y \in Objects
       PROVE  e.users[y] = IF y = n THEN {} ELSE IF y = x THEN d.users[x] \union d.users[n] ELSE d.users[y]
    BY <1>1, <1>2, <1>4
<1>12. e.users \in [Objects -> SUBSET (Objects \union Layers)]
    BY <1>1, <1>2, <1>4
<1>13. Above(e, x) \subseteq Objects \union Layers
    <2>1. \A y \in Objects \union Layers : Users(e, y) \subseteq Objects \union Layers
        BY <1>12, Things DEF Users
    <2>2. QED
        BY <1>2, <2>1 DEF Above
<1>14. Typed(e)
    <2>1. e.dyn \in [Params -> Nodes(e) \union {None}]
        <3>1. \A p \in Params : d.dyn[p] \in Nodes(d) \union {None}
            BY <1>4
        <3>2. \A p \in Params : Instead(n, x, d.dyn[p]) \in Nodes(d) \union {None}
            BY <3>1, <1>5 DEF Instead
        <3>3. QED
            BY <1>1, <1>9, <3>2
    <2>2. e.node = [m \in Objects |-> e.node[m]]
        BY <1>1
    <2>3. e.list \subseteq Nodes(e)
        BY <1>1, <1>4, <1>5, <1>9
    <2>4. Of(e, "free") \subseteq e.stale /\ e.stale \subseteq Objects \union Layers
        BY <1>1, <1>3, <1>4, <1>9, <1>13 DEF Typed
    <2>5. e.times = [y \in Objects \union Layers |-> e.times[y]]
        BY <1>1, <1>3 DEF Typed
    <2>6. e.left \subseteq Layers
        BY <1>1, <1>3 DEF Typed
    <2>7. QED
        BY <1>1, <1>10, <1>12, <2>1, <2>2, <2>3, <2>4, <2>5, <2>6 DEF Typed
<1>15. ASSUME NEW y \in Objects \union Layers, NEW m \in Objects
       PROVE  m \in Children(e, y) <=> \E k \in Children(d, y) : m = Instead(n, x, k)
    <2>1. m # None
        BY <1>2
    <2>2. CASE y \in Layers
        <3>1. m \in Children(e, y) <=> \E p \in Params : LayerOf[p] = y /\ e.dyn[p] = m
            BY <2>1, <2>2 DEF Children
        <3>2. \A k : k \in Children(d, y) <=> k # None /\ \E p \in Params : LayerOf[p] = y /\ d.dyn[p] = k
            BY <2>2 DEF Children
        <3>3. \A p \in Params : e.dyn[p] = Instead(n, x, d.dyn[p])
            BY <1>1
        <3>4. Instead(n, x, None) = None
            BY <1>2 DEF Instead
        <3>5. QED
            BY <2>1, <3>1, <3>2, <3>3, <3>4
    <2>3. CASE y \notin Layers /\ d.node[y].kind = "switch"
        <3>1. m \in Children(e, y) <=> \E i \in Links : e.node[y].links[i] = m
            BY <1>8, <1>14, <2>3, ChildIff
        <3>2. \A k : k \in Children(d, y) <=> \E i \in Links : d.node[y].links[i] = k
            BY <1>3, <2>3, ChildIff
        <3>3. \A i \in Links : e.node[y].links[i] = Instead(n, x, d.node[y].links[i])
            BY <1>6, <2>3
        <3>4. QED
            BY <3>1, <3>2, <3>3
    <2>4. CASE y \notin Layers /\ d.node[y].kind # "switch"
        <3>1. e.node[y].kind # "switch"
            BY <1>8, <2>4
        <3>2. Children(e, y) = {} /\ Children(d, y) = {}
            BY <2>4, <3>1 DEF Children
        <3>3. QED
            BY <3>2
    <2>5. QED
        BY <2>2, <2>3, <2>4
<1>16. UsersTrue(e)
    <2> SUFFICES ASSUME NEW m \in Objects, NEW y \in Objects \union Layers
                 PROVE  Knows(e, m, y)
        BY <1>14, UsersIff
    <2>1. \A k \in Objects : Knows(d, k, y)
        BY UsersIff DEF Wired
    <2>7. \A k \in Children(d, y) : k \in Objects
        BY ChildKnows
    <2>2. m \in Children(e, y) <=> \E k \in Children(d, y) : m = Instead(n, x, k)
        BY <1>15
    <2>3. CASE m = n
        BY <1>2, <1>11, <2>2, <2>3 DEF Instead, Knows
    <2>4. CASE m = x
        BY <1>1, <1>2, <1>11, <2>1, <2>2, <2>4, <2>7 DEF Instead, Knows
    <2>5. CASE m # n /\ m # x
        BY <1>1, <1>11, <2>1, <2>2, <2>5, <2>7 DEF Instead, Knows
    <2>6. QED
        BY <2>3, <2>4, <2>5
<1>17. Wired(e)
    BY <1>14, <1>16 DEF Wired
<1>18. ASSUME NEW y \in Objects \union Layers
       PROVE  OwnTimes(e, y) = OwnTimes(d, y)
    <2>1. CASE y \in Layers
        BY <2>1 DEF OwnTimes
    <2>2. CASE y \notin Layers
        <3>1. e.node[y].kind = d.node[y].kind /\ (d.node[y].kind = "animated" => e.node[y] = d.node[y])
            BY <1>7, <1>8, <2>2
        <3>2. QED
            BY <2>2, <3>1 DEF OwnTimes
    <2>3. QED
        BY <2>1, <2>2
<1>19. ASSUME NEW y \in Objects \union Layers
       PROVE  y \in e.left \/ Children(e, y) = Children(d, y) \/ {y} \union Users(e, y) \subseteq e.stale
    <2>1. CASE n \in Children(d, y)
        <3>1. x \in Children(e, y)
            BY <1>2, <1>15, <2>1 DEF Instead
        <3>2. y \in e.left \/ y \in Users(e, x)
            BY <1>17, <3>1, ChildKnows
        <3>3. y \in e.left \/ {y} \union Users(e, y) \subseteq Above(e, x)
            BY <3>2 DEF Above
        <3>4. QED
            BY <1>1, <3>3
    <2>2. CASE n \notin Children(d, y)
        <3>1. \A k \in Children(d, y) : k \in Objects /\ Instead(n, x, k) = k
            BY <2>2, ChildKnows DEF Instead
        <3>2. \A k \in Children(e, y) : k \in Objects
            BY <1>17, ChildKnows
        <3>3. \A k : k \in Children(e, y) <=> k \in Children(d, y)
            BY <1>15, <3>1, <3>2
        <3>4. QED
            BY <3>3
    <2>3. QED
        BY <2>1, <2>2
<1>20. e.users[n] = {}
    BY <1>2, <1>11
<1>21. QED
    BY <1>1, <1>7, <1>8, <1>9, <1>17, <1>18, <1>19, <1>20 DEF e

\* So replacing a node leads on.
LEMMA ReplaceLeads ==
    ASSUME NEW d, Wired(d), NEW n \in Nodes(d), NEW x \in Nodes(d)
    PROVE  Leads(d, Replace(d, n, x))
<1>1. CASE n = x
    BY <1>1, LeadsSame DEF Replace
<1>2. CASE n # x
    <2> DEFINE e == Replace(d, n, x)
    <2>1. /\ Wired(e)
          /\ Grows(d, e)
          /\ \A y \in Objects \union Layers : OwnTimes(e, y) = OwnTimes(d, y)
          /\ \A y \in Objects \union Layers :
               y \in e.left \/ Children(e, y) = Children(d, y) \/ {y} \union Users(e, y) \subseteq e.stale
          /\ e.times = d.times /\ e.left = d.left
          /\ d.stale \subseteq e.stale
        BY <1>2, ReplaceWired
    <2> HIDE DEF e
    <2>2. TimesTrue(d) => TimesTrue(e)
        BY <2>1, CacheKept
    <2>3. QED
        BY <2>1, <2>2 DEF Leads, e
<1>3. QED
    BY <1>1, <1>2

-----------------------------------------------------------------------------
(***************************************************************************)
(* Waypoints.                                                              *)
(***************************************************************************)

\* A document where an animated node has other waypoints.
Pointed(d, n, points, c) ==
    /\ IsDoc(c) /\ c.dyn = d.dyn /\ c.users = d.users /\ c.list = d.list /\ c.stale = d.stale /\ c.times = d.times /\ c.left = d.left
    /\ c.id = d.id
    /\ c.node = [m \in Objects |-> IF m = n THEN Animated(points) ELSE d.node[m]]
    /\ AnimatedOK(d, Animated(points))

\* Its links are as they were, and so are the times of all others.
LEMMA PointedWired ==
    ASSUME NEW d, Wired(d), NEW n \in Of(d, "animated"), NEW points, NEW c, Pointed(d, n, points, c)
    PROVE  /\ Wired(c)
           /\ Grows(d, c)
           /\ \A m \in Objects : c.node[m].kind = d.node[m].kind
           /\ \A y \in Objects \union Layers : Children(c, y) = Children(d, y)
           /\ \A y \in Objects \union Layers : y # n => OwnTimes(c, y) = OwnTimes(d, y)
<1>1. n \in Objects /\ d.node[n].kind = "animated" /\ n \notin Layers
    BY Things DEF Of
<1>2. \A m \in Objects : c.node[m].kind = d.node[m].kind
    BY <1>1 DEF Pointed, Animated
<1>3. Nodes(c) = Nodes(d) /\ Of(c, "free") = Of(d, "free") /\ Grows(d, c) /\ \A o : ObjectOK(c, o) <=> ObjectOK(d, o)
    BY <1>2, SameKinds
<1>4. ASSUME NEW m \in Objects
      PROVE  ObjectOK(c, c.node[m])
    <2>1. CASE m = n
        <3>1. c.node[m] = Animated(points) /\ c.node[m].kind = "animated"
            BY <2>1 DEF Pointed, Animated
        <3>2. QED
            BY <1>3, <3>1 DEF Pointed, ObjectOK
    <2>2. CASE m # n
        BY <1>3, <2>2 DEF Pointed, Wired, Typed
    <2>3. QED
        BY <2>1, <2>2
<1>5. c.node = [m \in Objects |-> c.node[m]]
    BY DEF Pointed
<1>6. Typed(c)
    BY <1>3, <1>4, <1>5 DEF Pointed, Wired, Typed
<1>7. \A m \in Objects : m # n => c.node[m] = d.node[m]
    BY DEF Pointed
<1>8. c.dyn = d.dyn
    BY DEF Pointed
<1>9. ASSUME NEW y \in Objects \union Layers
      PROVE  Children(c, y) = Children(d, y) /\ (y # n => OwnTimes(c, y) = OwnTimes(d, y))
    <2>1. CASE y \in Layers
        BY <1>8, <2>1 DEF Children, OwnTimes
    <2>2. CASE y \notin Layers /\ y # n
        BY <1>7, <2>2 DEF Children, OwnTimes
    <2>3. CASE y \notin Layers /\ y = n
        BY <1>1, <1>2, <2>3 DEF Children
    <2>4. QED
        BY <2>1, <2>2, <2>3
<1>10. UsersTrue(c)
    BY <1>9 DEF Pointed, Wired, UsersTrue
<1>11. QED
    BY <1>2, <1>3, <1>6, <1>9, <1>10 DEF Wired

\* When those above are told.
LEMMA PointedLeads ==
    ASSUME NEW d, Wired(d), NEW n \in Of(d, "animated"), NEW points, NEW c, Pointed(d, n, points, c)
    PROVE  Leads(d, Changed(c, n))
<1> DEFINE g == Changed(c, n)
<1>1. n \in Objects
    BY Things
<1>2. /\ Wired(c)
      /\ Grows(d, c)
      /\ \A y \in Objects \union Layers : Children(c, y) = Children(d, y)
      /\ \A y \in Objects \union Layers : y # n => OwnTimes(c, y) = OwnTimes(d, y)
    BY PointedWired
<1>3. IsDoc(c) /\ c.stale = d.stale /\ c.times = d.times /\ c.left = d.left
    BY DEF Pointed
<1>4. /\ g.times = d.times /\ g.left = d.left
      /\ g.stale = d.stale \union Above(c, n)
      /\ g.users = c.users
    BY <1>3, ChangedFields
<1>5. Wired(g) /\ Grows(c, g) /\ Quiet(c, g)
    BY <1>1, <1>2, ChangedQuiet, QuietLeads DEF Leads
<1>6. \A y \in Objects \union Layers : Children(g, y) = Children(c, y) /\ OwnTimes(g, y) = OwnTimes(c, y)
    BY <1>2, <1>5, QuietLeads
<1> HIDE DEF g
<1>7. Above(g, n) = Above(c, n)
    <2>1. \A y : Users(g, y) = Users(c, y)
        BY <1>4 DEF Users
    <2>2. QED
        BY <2>1 DEF Above
<1>8. TimesTrue(d) => TimesTrue(g)
    BY <1>2, <1>4, <1>5, <1>6, <1>7, CacheKept
<1>9. Grows(d, g)
    BY <1>2, <1>5 DEF Grows
<1>10. QED
    BY <1>5, <1>8, <1>9 DEF Leads, g

\* A waypoint is put in.
LEMMA AddPointed ==
    ASSUME NEW d, Wired(d), NEW n \in Of(d, "animated"), NEW w \in Of(d, "waypoint"), NEW t \in Times
    PROVE  Pointed(d, n, [s \in {t} \union DOMAIN d.node[n].points |-> IF s = t THEN w ELSE d.node[n].points[s]], AddPoint(d, n, w, t))
<1> DEFINE c == AddPoint(d, n, w, t)
           old == d.node[n].points
           points == [s \in {t} \union DOMAIN old |-> IF s = t THEN w ELSE old[s]]
<1>1. n \in Objects /\ d.node[n].kind = "animated"
    BY DEF Of
<1>2. AnimatedOK(d, d.node[n])
    BY <1>1, KindOK DEF Wired
<1>3. d.node[n] = [kind |-> "animated", points |-> old]
    BY <1>2 DEF AnimatedOK, Animated
<1>4. IsDoc(d) /\ d.node = [m \in Objects |-> d.node[m]]
    BY DEF Wired, Typed
<1>5. IsDoc(c) /\ c.dyn = d.dyn /\ c.users = d.users /\ c.list = d.list /\ c.stale = d.stale /\ c.times = d.times /\ c.left = d.left /\ c.id = d.id
    BY <1>4 DEF AddPoint, IsDoc
<1>6. c.node = [m \in Objects |-> IF m = n THEN [d.node[n] EXCEPT !.points = points] ELSE d.node[m]]
    BY <1>1, <1>4 DEF AddPoint, IsDoc
<1>7. [d.node[n] EXCEPT !.points = points] = [kind |-> "animated", points |-> points]
    <2> HIDE DEF points
    <2>1. QED
        BY <1>3
<1>8. AnimatedOK(d, Animated(points))
    <2>1. DOMAIN points = {t} \union DOMAIN old
        OBVIOUS
    <2>2. \A s \in DOMAIN old : old[s] \in Of(d, "waypoint")
        BY <1>2 DEF AnimatedOK
    <2>3. \A s \in DOMAIN points : points[s] \in Of(d, "waypoint")
        BY <2>2
    <2>4. DOMAIN old \subseteq Times
        BY <1>2 DEF AnimatedOK
    <2>5. points = [s \in DOMAIN points |-> points[s]]
        OBVIOUS
    <2>6. points \in [DOMAIN points -> Of(d, "waypoint")]
        <3> HIDE DEF points
        <3>1. QED
            BY <2>3, <2>5
    <2>7. DOMAIN points \subseteq Times
        BY <2>1, <2>4
    <2> HIDE DEF points
    <2>8. QED
        BY <2>6, <2>7 DEF AnimatedOK, Animated
<1> HIDE DEF c, points
<1>9. Pointed(d, n, points, c)
    BY <1>5, <1>6, <1>7, <1>8 DEF Pointed, Animated
<1>10. QED
    BY <1>9 DEF c, points

\* A waypoint is taken out.
LEMMA ErasePointed ==
    ASSUME NEW d, Wired(d), NEW n \in Of(d, "animated"), NEW w
    PROVE  Pointed(d, n, [t \in {s \in DOMAIN d.node[n].points : d.node[n].points[s] # w} |-> d.node[n].points[t]],
                   ErasePoint(d, n, w))
<1> DEFINE c == ErasePoint(d, n, w)
           old == d.node[n].points
           points == [t \in {s \in DOMAIN old : old[s] # w} |-> old[t]]
<1>1. n \in Objects /\ d.node[n].kind = "animated"
    BY DEF Of
<1>2. AnimatedOK(d, d.node[n])
    BY <1>1, KindOK DEF Wired
<1>3. d.node[n] = [kind |-> "animated", points |-> old]
    BY <1>2 DEF AnimatedOK, Animated
<1>4. IsDoc(d) /\ d.node = [m \in Objects |-> d.node[m]]
    BY DEF Wired, Typed
<1>5. IsDoc(c) /\ c.dyn = d.dyn /\ c.users = d.users /\ c.list = d.list /\ c.stale = d.stale /\ c.times = d.times /\ c.left = d.left /\ c.id = d.id
    BY <1>4 DEF ErasePoint, IsDoc
<1>6. c.node = [m \in Objects |-> IF m = n THEN [d.node[n] EXCEPT !.points = points] ELSE d.node[m]]
    BY <1>1, <1>4 DEF ErasePoint, IsDoc
<1>7. [d.node[n] EXCEPT !.points = points] = [kind |-> "animated", points |-> points]
    <2> HIDE DEF points
    <2>1. QED
        BY <1>3
<1>8. AnimatedOK(d, Animated(points))
    <2>1. DOMAIN points \subseteq DOMAIN old
        OBVIOUS
    <2>2. \A s \in DOMAIN old : old[s] \in Of(d, "waypoint")
        BY <1>2 DEF AnimatedOK
    <2>3. \A s \in DOMAIN points : points[s] \in Of(d, "waypoint")
        BY <2>2
    <2>4. DOMAIN old \subseteq Times
        BY <1>2 DEF AnimatedOK
    <2>5. points = [s \in DOMAIN points |-> points[s]]
        OBVIOUS
    <2>6. points \in [DOMAIN points -> Of(d, "waypoint")]
        <3> HIDE DEF points
        <3>1. QED
            BY <2>3, <2>5
    <2>7. DOMAIN points \subseteq Times
        BY <2>1, <2>4
    <2> HIDE DEF points
    <2>8. QED
        BY <2>6, <2>7 DEF AnimatedOK, Animated
<1> HIDE DEF c, points
<1>9. Pointed(d, n, points, c)
    BY <1>5, <1>6, <1>7, <1>8 DEF Pointed, Animated
<1>10. QED
    BY <1>9 DEF c, points

-----------------------------------------------------------------------------
(***************************************************************************)
(* Single actions.                                                         *)
(***************************************************************************)

\* The next change is told of.
LEMMA ThenChanged ==
    ASSUME NEW d, NEW e, Leads(d, e), NEW x \in Objects \union Layers
    PROVE  Leads(d, Changed(e, x))
<1>1. Leads(e, Changed(e, x))
    BY ChangedLeads DEF Leads
<1>2. QED
    BY <1>1, LeadsOn

\* The next step is quiet.
LEMMA ThenQuiet ==
    ASSUME NEW d, NEW e, Leads(d, e), NEW f, Quiet(e, f)
    PROVE  Leads(d, f)
<1>1. Leads(e, f)
    BY QuietLeads DEF Leads
<1>2. QED
    BY <1>1, LeadsOn

\* What an action leaves fit for one document is fit for one that has more.
LEMMA RawGrows ==
    ASSUME NEW d, NEW e, Grows(d, e), NEW a, RawOK(d, a)
    PROVE  RawOK(e, a)
<1>1. /\ Of(d, "const") \subseteq Of(e, "const")
      /\ Of(d, "switch") \subseteq Of(e, "switch")
      /\ Of(d, "animated") \subseteq Of(e, "animated")
      /\ Of(d, "waypoint") \subseteq Of(e, "waypoint")
      /\ Nodes(d) \subseteq Nodes(e)
    BY GrowsFit
<1>2. QED
    BY <1>1 DEF RawOK

\* So is what it has found.
LEMMA PerfGrows ==
    ASSUME NEW d, NEW e, Grows(d, e), NEW a, PerfOK(d, a)
    PROVE  PerfOK(e, a)
BY RawGrows DEF PerfOK

\* What a single action does to a document and to itself, s saying that the cached times are safe with it.
Acted(d, a, r, s) ==
    /\ Wired(r.doc) /\ Grows(d, r.doc) /\ (s /\ TimesTrue(d) => TimesTrue(r.doc))
    /\ RawOK(r.doc, r.act) /\ r.act.name = a.name
    /\ r.ok \/ PerfOK(d, a) => PerfOK(r.doc, r.act)
    /\ Makes(r.act) => Makes(a)

\* One that throws at once.
LEMMA ThrowActed ==
    ASSUME NEW d, Wired(d), NEW a, RawOK(d, a)
    PROVE  Acted(d, a, Throw(d, a), TRUE)
BY LeadsSame DEF Acted, Throw, Leads

\* One that goes well, and remembers something.
LEMMA OKActed ==
    ASSUME NEW d, NEW a, NEW e, Leads(d, e), NEW b, PerfOK(d, b), b.name = a.name, Makes(b) => Makes(a)
    PROVE  Acted(d, a, OK(e, b), TRUE)
<1>1. PerfOK(e, b) /\ RawOK(e, b)
    BY PerfGrows DEF Leads, PerfOK
<1>2. QED
    BY <1>1 DEF Acted, OK, Leads

\* The own value of a parameter is set.
LEMMA LayerParamSetActs ==
    ASSUME NEW d, Wired(d), NEW a, RawOK(d, a), a.name = "LayerParamSet"
    PROVE  Acted(d, a, PerformLayerParamSet(a, d), TRUE) /\ Acted(d, a, UndoLayerParamSet(a, d), TRUE)
<1>1. DOMAIN a = {"name", "param", "old", "new"} /\ a.param \in Params /\ LayerOf[a.param] \in Objects \union Layers
    BY Things DEF RawOK
<1>2. ASSUME NEW v
      PROVE  Leads(d, Changed([d EXCEPT !.static[a.param] = v], LayerOf[a.param]))
    BY <1>1, StaticQuiet, QuietLeads, ThenChanged
<1>3. ASSUME NEW v
      PROVE  LET b == [a EXCEPT !.old = v] IN PerfOK(d, b) /\ b.name = a.name /\ (Makes(b) => Makes(a))
    BY <1>1 DEF PerfOK, RawOK, Makes
<1>4. PerfOK(d, a)
    BY DEF PerfOK
<1>5. Acted(d, a, UndoLayerParamSet(a, d), TRUE)
    BY <1>2, <1>4, OKActed DEF UndoLayerParamSet
<1>6. Acted(d, a, PerformLayerParamSet(a, d), TRUE)
    BY <1>2, <1>3, OKActed, ThrowActed DEF PerformLayerParamSet
<1>7. QED
    BY <1>5, <1>6

\* A parameter is connected.
LEMMA LayerParamConnectActs ==
    ASSUME NEW d, Wired(d), NEW a, RawOK(d, a), a.name = "LayerParamConnect"
    PROVE  Acted(d, a, PerformLayerParamConnect(a, d), TRUE) /\ Acted(d, a, UndoLayerParamConnect(a, d), TRUE)
<1> DEFINE p == a.param
           l == LayerOf[p]
<1>1. /\ DOMAIN a = {"name", "param", "node", "was", "old"}
      /\ p \in Params /\ a.node \in Nodes(d) /\ a.was \in Nodes(d) \union {None}
      /\ l \in Objects \union Layers /\ a.node \in Objects /\ (a.was # None => a.was \in Objects)
    BY Things DEF RawOK
<1>2. PerfOK(d, a)
    BY DEF PerfOK
<1>3. Acted(d, a, PerformLayerParamConnect(a, d), TRUE)
    <2> DEFINE c == [d EXCEPT !.static[p] = Value(d, a.node, 0)]
               e == ConnectParam(c, p, a.node)
               b == [a EXCEPT !.was = d.dyn[p], !.old = d.static[p]]
    <2>1. Leads(d, c) /\ Nodes(c) = Nodes(d)
        BY StaticQuiet, QuietLeads
    <2> HIDE DEF c
    <2>2. Leads(c, e)
        BY <1>1, <2>1, ConnectLeads DEF Leads
    <2>3. Leads(d, e)
        BY <2>1, <2>2, LeadsOn
    <2> HIDE DEF e
    <2>4. Leads(d, Changed(Changed(e, l), a.node))
        BY <1>1, <2>3, ThenChanged
    <2>5. d.dyn[p] \in Nodes(d) \union {None}
        BY <1>1 DEF Wired, Typed
    <2>6. PerfOK(d, b) /\ b.name = a.name /\ (Makes(b) => Makes(a))
        BY <1>1, <2>5 DEF PerfOK, RawOK, Makes
    <2> HIDE DEF b
    <2>7. PerformLayerParamConnect(a, d) = OK(Changed(Changed(e, l), a.node), b)
        BY DEF PerformLayerParamConnect, b, e, c
    <2>8. QED
        BY <2>4, <2>6, <2>7, OKActed
<1>4. Acted(d, a, UndoLayerParamConnect(a, d), TRUE)
    <2>1. CASE a.was # None
        <3>1. Leads(d, Changed(ConnectParam(d, p, a.was), a.was))
            BY <1>1, <2>1, ConnectLeads, ThenChanged
        <3>2. QED
            BY <1>2, <2>1, <3>1, OKActed DEF UndoLayerParamConnect
    <2>2. CASE a.was = None
        <3> DEFINE e == DisconnectParam(d, p)
                   f == [e EXCEPT !.static[p] = a.old]
        <3>1. Leads(d, e)
            BY <1>1, DisconnectLeads
        <3> HIDE DEF e
        <3>2. Leads(d, f)
            BY <3>1, StaticQuiet, ThenQuiet DEF Leads
        <3> HIDE DEF f
        <3>3. Leads(d, Changed(f, l))
            BY <1>1, <3>2, ThenChanged
        <3>4. UndoLayerParamConnect(a, d) = OK(Changed(f, l), a)
            BY <2>2 DEF UndoLayerParamConnect, e, f
        <3>5. QED
            BY <1>2, <3>3, <3>4, OKActed
    <2>3. QED
        BY <2>1, <2>2
<1>5. QED
    BY <1>3, <1>4

\* A parameter is disconnected.
LEMMA LayerParamDisconnectActs ==
    ASSUME NEW d, Wired(d), NEW a, RawOK(d, a), a.name = "LayerParamDisconnect"
    PROVE  /\ Acted(d, a, PerformLayerParamDisconnect(a, d), TRUE)
           /\ PerfOK(d, a) => Acted(d, a, UndoLayerParamDisconnect(a, d), TRUE)
<1> DEFINE p == a.param
           l == LayerOf[p]
           was == d.dyn[p]
<1>1. /\ DOMAIN a = {"name", "param", "time", "was"}
      /\ p \in Params /\ a.was \in Nodes(d) \union {None}
      /\ l \in Objects \union Layers /\ (a.was # None => a.was \in Objects)
    BY Things DEF RawOK
<1>2. was \in Nodes(d) \union {None} /\ (was # None => was \in Objects)
    BY <1>1, Things DEF Wired, Typed
<1>3. PerfOK(d, a) => Acted(d, a, UndoLayerParamDisconnect(a, d), TRUE)
    <2> SUFFICES ASSUME PerfOK(d, a) PROVE Acted(d, a, UndoLayerParamDisconnect(a, d), TRUE)
        OBVIOUS
    <2>1. a.was # None
        BY DEF PerfOK
    <2>2. Leads(d, Changed(ConnectParam(d, p, a.was), a.was))
        BY <1>1, <2>1, ConnectLeads, ThenChanged
    <2>3. QED
        BY <2>2, OKActed DEF UndoLayerParamDisconnect
<1>4. Acted(d, a, PerformLayerParamDisconnect(a, d), TRUE)
    <2>1. CASE was = None
        BY <2>1, ThrowActed DEF PerformLayerParamDisconnect
    <2>2. CASE was # None
        <3> DEFINE e == DisconnectParam(d, p)
                   f == [e EXCEPT !.static[p] = Value(d, was, a.time)]
                   b == [a EXCEPT !.was = was]
        <3>1. Leads(d, e)
            BY <1>1, DisconnectLeads
        <3> HIDE DEF e
        <3>2. Leads(d, f)
            BY <3>1, StaticQuiet, ThenQuiet DEF Leads
        <3> HIDE DEF f
        <3>3. Leads(d, Changed(Changed(f, l), was))
            BY <1>1, <1>2, <2>2, <3>2, ThenChanged
        <3>4. PerfOK(d, b) /\ b.name = a.name /\ (Makes(b) => Makes(a))
            BY <1>1, <1>2, <2>2 DEF PerfOK, RawOK, Makes
        <3> HIDE DEF b
        <3>5. PerformLayerParamDisconnect(a, d) = OK(Changed(Changed(f, l), was), b)
            BY <2>2 DEF PerformLayerParamDisconnect, e, f, b
        <3>6. QED
            BY <3>3, <3>4, <3>5, OKActed
    <2>3. QED
        BY <2>1, <2>2
<1>5. QED
    BY <1>3, <1>4

\* A link is set.
LEMMA ValueNodeLinkConnectActs ==
    ASSUME NEW d, Wired(d), NEW a, RawOK(d, a), a.name = "ValueNodeLinkConnect"
    PROVE  /\ Acted(d, a, PerformValueNodeLinkConnect(a, d), TRUE)
           /\ PerfOK(d, a) => Acted(d, a, UndoValueNodeLinkConnect(a, d), TRUE)
<1>1. /\ DOMAIN a = {"name", "parent", "index", "node", "was"}
      /\ a.parent \in Of(d, "switch") /\ a.index \in Links
      /\ a.node \in Nodes(d) /\ a.was \in Nodes(d) \union {None}
    BY DEF RawOK
<1>2. d.node[a.parent].links[a.index] \in Nodes(d) /\ None \notin Nodes(d)
    <2>1. a.parent \in Objects /\ d.node[a.parent].kind = "switch"
        BY <1>1 DEF Of
    <2>2. SwitchOK(d, d.node[a.parent])
        BY <2>1, KindOK DEF Wired
    <2>3. QED
        BY <1>1, <2>2, Things DEF SwitchOK
<1>3. PerfOK(d, a) => Acted(d, a, UndoValueNodeLinkConnect(a, d), TRUE)
    <2> SUFFICES ASSUME PerfOK(d, a) PROVE Acted(d, a, UndoValueNodeLinkConnect(a, d), TRUE)
        OBVIOUS
    <2>1. a.was \in Nodes(d)
        BY <1>1 DEF PerfOK
    <2>2. Leads(d, SetLink(d, a.parent, a.index, a.was))
        BY <1>1, <2>1, SetLinkLeads
    <2>3. QED
        BY <2>2, OKActed DEF UndoValueNodeLinkConnect
<1>4. Acted(d, a, PerformValueNodeLinkConnect(a, d), TRUE)
    <2> DEFINE b == [a EXCEPT !.was = d.node[a.parent].links[a.index]]
    <2>1. Leads(d, SetLink(d, a.parent, a.index, a.node))
        BY <1>1, SetLinkLeads
    <2>2. PerfOK(d, b) /\ b.name = a.name /\ (Makes(b) => Makes(a))
        BY <1>1, <1>2 DEF PerfOK, RawOK, Makes
    <2> HIDE DEF b
    <2>3. PerformValueNodeLinkConnect(a, d) = OK(SetLink(d, a.parent, a.index, a.node), b)
        BY DEF PerformValueNodeLinkConnect, b
    <2>4. QED
        BY <2>1, <2>2, <2>3, OKActed
<1>5. QED
    BY <1>3, <1>4

\* A link gets a constant of its own.
LEMMA ValueNodeLinkDisconnectActs ==
    ASSUME NEW d, Wired(d), NEW a, RawOK(d, a), a.name = "ValueNodeLinkDisconnect"
    PROVE  /\ Room(d, 1) => Acted(d, a, PerformValueNodeLinkDisconnect(a, d), TRUE)
           /\ PerfOK(d, a) => Acted(d, a, UndoValueNodeLinkDisconnect(a, d), TRUE)
<1> DEFINE was == d.node[a.parent].links[a.index]
<1>1. /\ DOMAIN a = {"name", "parent", "index", "time", "was"}
      /\ a.parent \in Of(d, "switch") /\ a.index \in Links /\ a.was \in Nodes(d) \union {None}
    BY DEF RawOK
<1>2. was \in Nodes(d) /\ None \notin Nodes(d)
    <2>1. a.parent \in Objects /\ d.node[a.parent].kind = "switch"
        BY <1>1 DEF Of
    <2>2. SwitchOK(d, d.node[a.parent])
        BY <2>1, KindOK DEF Wired
    <2>3. QED
        BY <1>1, <2>2, Things DEF SwitchOK
<1>3. PerfOK(d, a) => Acted(d, a, UndoValueNodeLinkDisconnect(a, d), TRUE)
    <2> SUFFICES ASSUME PerfOK(d, a) PROVE Acted(d, a, UndoValueNodeLinkDisconnect(a, d), TRUE)
        OBVIOUS
    <2>1. a.was \in Nodes(d)
        BY <1>1 DEF PerfOK
    <2>2. Leads(d, SetLink(d, a.parent, a.index, a.was))
        BY <1>1, <2>1, SetLinkLeads
    <2>3. QED
        BY <2>2, OKActed DEF UndoValueNodeLinkDisconnect
<1>4. ASSUME Room(d, 1)
      PROVE  Acted(d, a, PerformValueNodeLinkDisconnect(a, d), TRUE)
    <2> DEFINE o == Const(Value(d, was, a.time))
               e == Created(d, o)
               n == Fresh(d)
               b == [a EXCEPT !.was = was]
    <2>1. ObjectOK(d, o) /\ o.kind = "const"
        BY DEF ObjectOK, Const
    <2> HIDE DEF o
    <2>2. Leads(d, e) /\ n \in Of(e, "const")
        BY <1>4, <2>1, CreatedLeads
    <2> HIDE DEF e, n
    <2>3. a.parent \in Of(e, "switch") /\ n \in Nodes(e)
        BY <1>1, <2>2, GrowsFit DEF Leads, Nodes
    <2>4. Leads(e, SetLink(e, a.parent, a.index, n))
        BY <1>1, <2>2, <2>3, SetLinkLeads DEF Leads
    <2>5. Leads(d, SetLink(e, a.parent, a.index, n))
        BY <2>2, <2>4, LeadsOn
    <2>6. PerfOK(d, b) /\ b.name = a.name /\ (Makes(b) => Makes(a))
        <3> HIDE DEF was
        <3>1. QED
            BY <1>1, <1>2 DEF PerfOK, RawOK, Makes
    <2> HIDE DEF b
    <2>7. PerformValueNodeLinkDisconnect(a, d) = OK(SetLink(e, a.parent, a.index, n), b)
        BY DEF PerformValueNodeLinkDisconnect, b, e, n, o
    <2>8. QED
        BY <2>5, <2>6, <2>7, OKActed
<1>5. QED
    BY <1>3, <1>4

\* A constant is set.
LEMMA ValueNodeConstSetActs ==
    ASSUME NEW d, Wired(d), NEW a, RawOK(d, a), a.name = "ValueNodeConstSet"
    PROVE  Acted(d, a, PerformValueNodeConstSet(a, d), TRUE) /\ Acted(d, a, UndoValueNodeConstSet(a, d), TRUE)
<1>1. DOMAIN a = {"name", "node", "old", "new"} /\ a.node \in Of(d, "const") /\ a.node \in Objects
    BY Things DEF RawOK
<1>2. ASSUME NEW v
      PROVE  Leads(d, SetConst(d, a.node, v))
    <2>1. Leads(d, [d EXCEPT !.node[a.node].value = v])
        BY <1>1, ValueQuiet, QuietLeads
    <2>2. Leads(d, Changed([d EXCEPT !.node[a.node].value = v], a.node))
        BY <1>1, <2>1, ThenChanged
    <2>3. QED
        BY <2>2, LeadsSame DEF SetConst
<1>3. ASSUME NEW v
      PROVE  LET b == [a EXCEPT !.old = v] IN PerfOK(d, b) /\ b.name = a.name /\ (Makes(b) => Makes(a))
    BY <1>1 DEF PerfOK, RawOK, Makes
<1>4. PerfOK(d, a)
    BY DEF PerfOK
<1>5. Acted(d, a, UndoValueNodeConstSet(a, d), TRUE)
    BY <1>2, <1>4, OKActed DEF UndoValueNodeConstSet
<1>6. Acted(d, a, PerformValueNodeConstSet(a, d), TRUE)
    BY <1>2, <1>3, OKActed DEF PerformValueNodeConstSet
<1>7. QED
    BY <1>5, <1>6

\* A node is exported, or no longer, or renamed.
LEMMA NamesAct ==
    ASSUME NEW d, Wired(d), NEW a, RawOK(d, a)
    PROVE  /\ a.name = "ValueNodeAdd" =>
                Acted(d, a, PerformValueNodeAdd(a, d), TRUE) /\ Acted(d, a, UndoValueNodeAdd(a, d), TRUE)
           /\ a.name = "ValueNodeRemove" =>
                Acted(d, a, PerformValueNodeRemove(a, d), TRUE) /\ Acted(d, a, UndoValueNodeRemove(a, d), TRUE)
           /\ a.name = "ValueNodeRename" =>
                Acted(d, a, PerformValueNodeRename(a, d), TRUE) /\ Acted(d, a, UndoValueNodeRename(a, d), TRUE)
<1>1. ASSUME NEW id
      PROVE  /\ Leads(d, [d EXCEPT !.id[a.node] = id])
             /\ a.node \in Nodes(d) => Leads(d, AddValueNode(d, a.node, id))
             /\ Leads(d, RemoveValueNode(d, a.node))
    <2>1. /\ Quiet(d, [d EXCEPT !.id[a.node] = id])
          /\ a.node \in Nodes(d) => Quiet(d, AddValueNode(d, a.node, id))
          /\ Quiet(d, RemoveValueNode(d, a.node))
        BY NamesQuiet
    <2>2. QED
        BY <2>1, QuietLeads
<1>2. Acted(d, a, Throw(d, a), TRUE)
    BY ThrowActed
<1>3. CASE a.name = "ValueNodeAdd"
    <2>1. a.node \in Nodes(d) /\ PerfOK(d, a)
        BY <1>3 DEF RawOK, PerfOK
    <2>2. QED
        BY <1>1, <1>2, <1>3, <2>1, OKActed DEF PerformValueNodeAdd, UndoValueNodeAdd
<1>4. CASE a.name = "ValueNodeRemove"
    <2>1. a.node \in Nodes(d) /\ PerfOK(d, a) /\ DOMAIN a = {"name", "node", "old"}
        BY <1>4 DEF RawOK, PerfOK
    <2>2. ASSUME NEW v
          PROVE  LET b == [a EXCEPT !.old = v] IN PerfOK(d, b) /\ b.name = a.name /\ (Makes(b) => Makes(a))
        BY <1>4, <2>1 DEF PerfOK, RawOK, Makes
    <2>3. Acted(d, a, PerformValueNodeRemove(a, d), TRUE)
        BY <1>1, <1>2, <2>2, OKActed DEF PerformValueNodeRemove
    <2>4. Acted(d, a, UndoValueNodeRemove(a, d), TRUE)
        BY <1>1, <1>2, <2>1, OKActed DEF UndoValueNodeRemove
    <2>5. QED
        BY <1>4, <2>3, <2>4
<1>5. CASE a.name = "ValueNodeRename"
    <2>1. a.node \in Nodes(d) /\ PerfOK(d, a) /\ DOMAIN a = {"name", "node", "old", "new"}
        BY <1>5 DEF RawOK, PerfOK
    <2>2. ASSUME NEW v
          PROVE  LET b == [a EXCEPT !.old = v] IN PerfOK(d, b) /\ b.name = a.name /\ (Makes(b) => Makes(a))
        BY <1>5, <2>1 DEF PerfOK, RawOK, Makes
    <2>3. Acted(d, a, PerformValueNodeRename(a, d), TRUE)
        BY <1>1, <1>2, <2>2, OKActed DEF PerformValueNodeRename
    <2>4. Acted(d, a, UndoValueNodeRename(a, d), TRUE)
        BY <1>1, <1>2, <2>1, OKActed DEF UndoValueNodeRename
    <2>5. QED
        BY <1>5, <2>3, <2>4
<1>6. QED
    BY <1>3, <1>4, <1>5

\* A node is replaced.
LEMMA ValueNodeReplaceActs ==
    ASSUME NEW d, Wired(d), NEW a, RawOK(d, a), a.name = "ValueNodeReplace"
    PROVE  Acted(d, a, PerformValueNodeReplace(a, d), TRUE) /\ Acted(d, a, UndoValueNodeReplace(a, d), TRUE)
<1>1. DOMAIN a = {"name", "dest", "src", "undoable"} /\ a.dest \in Nodes(d) /\ a.src \in Nodes(d)
    BY DEF RawOK
<1>2. PerfOK(d, a)
    BY DEF PerfOK
<1>3. Acted(d, a, UndoValueNodeReplace(a, d), TRUE)
    <2> DEFINE e == Replace(d, a.src, a.dest)
    <2>1. Leads(d, e)
        BY <1>1, ReplaceLeads
    <2> HIDE DEF e
    <2>2. Leads(d, [e EXCEPT !.id[a.src] = NoId])
        BY <2>1, NamesQuiet, ThenQuiet DEF Leads
    <2>3. QED
        BY <1>2, <2>2, OKActed, ThrowActed DEF UndoValueNodeReplace, e
<1>4. Acted(d, a, PerformValueNodeReplace(a, d), TRUE)
    <2> DEFINE e == IF Exported(d, a.src) THEN d ELSE [d EXCEPT !.id[a.src] = d.id[a.dest]]
               b == [a EXCEPT !.undoable = ~Exported(d, a.src) /\ ~Referenced(d, a.src)]
    <2>1. Leads(d, e)
        <3>1. Leads(d, [d EXCEPT !.id[a.src] = d.id[a.dest]])
            BY NamesQuiet, QuietLeads
        <3>2. QED
            BY <3>1, LeadsSame
    <2>2. PerfOK(d, b) /\ b.name = a.name /\ (Makes(b) => Makes(a))
        BY <1>1 DEF PerfOK, RawOK, Makes
    <2>3. PerformValueNodeReplace(a, d) =
            IF a.dest = a.src THEN Throw(d, a)
            ELSE IF ~Referenced(d, a.dest) THEN Throw(e, b)
            ELSE OK(Replace(e, a.dest, a.src), b)
        BY DEF PerformValueNodeReplace
    <2> HIDE DEF e, b
    <2>4. a.dest \in Nodes(e) /\ a.src \in Nodes(e)
        BY <1>1, <2>1, GrowsFit DEF Leads
    <2>5. Leads(e, Replace(e, a.dest, a.src))
        BY <2>1, <2>4, ReplaceLeads DEF Leads
    <2>6. Leads(d, Replace(e, a.dest, a.src))
        BY <2>1, <2>5, LeadsOn
    <2>7. Acted(d, a, OK(Replace(e, a.dest, a.src), b), TRUE)
        BY <2>2, <2>6, OKActed
    <2>8. Acted(d, a, Throw(e, b), TRUE)
        <3>1. PerfOK(e, b) /\ RawOK(e, b)
            BY <2>1, <2>2, PerfGrows DEF Leads, PerfOK
        <3>2. QED
            BY <2>1, <2>2, <3>1 DEF Acted, Throw, Leads
    <2>9. QED
        BY <2>3, <2>7, <2>8, ThrowActed
<1>5. QED
    BY <1>3, <1>4

\* A waypoint is added, or set.
LEMMA WaypointsAct ==
    ASSUME NEW d, Wired(d), NEW a, RawOK(d, a)
    PROVE  /\ a.name = "WaypointAdd" =>
                Acted(d, a, PerformWaypointAdd(a, d), TRUE) /\ Acted(d, a, UndoWaypointAdd(a, d), TRUE)
           /\ a.name = "WaypointSet" =>
                Acted(d, a, PerformWaypointSet(a, d), TRUE) /\ Acted(d, a, UndoWaypointSet(a, d), TRUE)
<1>1. Acted(d, a, Throw(d, a), TRUE)
    BY ThrowActed
<1>2. CASE a.name = "WaypointAdd"
    <2>1. /\ a.node \in Of(d, "animated") /\ a.waypoint \in Of(d, "waypoint") /\ a.time \in Times
          /\ PerfOK(d, a)
        BY <1>2 DEF RawOK, PerfOK
    <2>2. Leads(d, Changed(AddPoint(d, a.node, a.waypoint, a.time), a.node))
        BY <2>1, AddPointed, PointedLeads
    <2>3. Leads(d, Changed(ErasePoint(d, a.node, a.waypoint), a.node))
        BY <2>1, ErasePointed, PointedLeads
    <2>4. QED
        BY <1>1, <1>2, <2>1, <2>2, <2>3, OKActed DEF PerformWaypointAdd, UndoWaypointAdd
<1>3. CASE a.name = "WaypointSet"
    <2>1. /\ DOMAIN a = {"name", "node", "waypoint", "new", "old"}
          /\ a.node \in Of(d, "animated") /\ a.waypoint \in Of(d, "waypoint") /\ a.node \in Objects
          /\ PerfOK(d, a)
        BY <1>3, Things DEF RawOK, PerfOK
    <2>2. ASSUME NEW v
          PROVE  Leads(d, Changed([d EXCEPT !.node[a.waypoint].value = v], a.node))
        BY <2>1, ValueQuiet, QuietLeads, ThenChanged
    <2>3. ASSUME NEW v
          PROVE  LET b == [a EXCEPT !.old = v] IN PerfOK(d, b) /\ b.name = a.name /\ (Makes(b) => Makes(a))
        BY <1>3, <2>1 DEF PerfOK, RawOK, Makes
    <2>4. Acted(d, a, PerformWaypointSet(a, d), TRUE)
        BY <2>2, <2>3, OKActed DEF PerformWaypointSet
    <2>5. Acted(d, a, UndoWaypointSet(a, d), TRUE)
        BY <1>1, <2>1, <2>2, OKActed DEF UndoWaypointSet
    <2>6. QED
        BY <1>3, <2>4, <2>5
<1>4. QED
    BY <1>2, <1>3

-----------------------------------------------------------------------------
(***************************************************************************)
(* Removing a waypoint.                                                    *)
(***************************************************************************)

\* Where no object changes its kind there is as much room.
LEMMA RoomKinds ==
    ASSUME NEW d, NEW e, Typed(d), Typed(e), \A n \in Objects : e.node[n].kind = d.node[n].kind, NEW k, Room(d, k)
    PROVE  Room(e, k)
<1>1. \A n \in Objects : d.node[n] = Free <=> d.node[n].kind = "free"
    BY KindOK DEF Free
<1>2. \A n \in Objects : e.node[n] = Free <=> e.node[n].kind = "free"
    BY KindOK DEF Free
<1>3. {n \in Objects : e.node[n] = Free} = {n \in Objects : d.node[n] = Free}
    BY <1>1, <1>2
<1>4. QED
    BY <1>3 DEF Room

\* Links, and the times of all but n, are as they were; nobody need be told of n yet.
OffBy(d, e, n) ==
    /\ Wired(e) /\ Grows(d, e)
    /\ e.times = d.times /\ e.left = d.left
    /\ d.stale \subseteq e.stale
    /\ \A y \in Objects \union Layers : Children(e, y) = Children(d, y) /\ (y # n => OwnTimes(e, y) = OwnTimes(d, y))

\* So it is after a quiet step.
LEMMA OffQuiet ==
    ASSUME NEW d, NEW e, NEW n, OffBy(d, e, n), NEW f, Quiet(e, f)
    PROVE  OffBy(d, f, n)
<1>1. Wired(f) /\ Grows(e, f)
      /\ \A x \in Objects \union Layers : Children(f, x) = Children(e, x) /\ OwnTimes(f, x) = OwnTimes(e, x)
    BY QuietLeads DEF OffBy, Leads
<1>2. Grows(d, f)
    BY <1>1 DEF OffBy, Grows
<1>3. QED
    BY <1>1, <1>2 DEF OffBy, Quiet

\* And when a constant is made.
LEMMA OffCreated ==
    ASSUME NEW d, NEW e, NEW n, OffBy(d, e, n), Room(e, 1), NEW v
    PROVE  OffBy(d, Created(e, Const(v)), n) /\ Fresh(e) \in Of(Created(e, Const(v)), "const")
<1> DEFINE o == Const(v)
           f == Created(e, o)
           k == Fresh(e)
<1>1. ObjectOK(e, o) /\ o.kind = "const"
    BY DEF ObjectOK, Const
<1>2. k \in Objects /\ e.node[k] = Free
    BY FreshIs
<1>3. /\ f.dyn = e.dyn /\ f.stale = e.stale /\ f.times = e.times /\ f.left = e.left
      /\ f.node = [m \in Objects |-> IF m = k THEN o ELSE e.node[m]]
      /\ Grows(e, f)
    BY CreatedFields DEF OffBy, Wired
<1> HIDE DEF o
<1>4. Wired(f) /\ k \in Of(f, "const")
    BY <1>1, CreatedLeads DEF OffBy, Leads
<1> HIDE DEF f, k
<1>5. ASSUME NEW y \in Objects \union Layers
      PROVE  Children(f, y) = Children(e, y) /\ OwnTimes(f, y) = OwnTimes(e, y)
    <2>1. CASE y \in Layers
        BY <1>3, <2>1 DEF Children, OwnTimes
    <2>2. CASE y \notin Layers /\ y # k
        BY <1>3, <2>2 DEF Children, OwnTimes
    <2>3. CASE y \notin Layers /\ y = k
        <3>1. f.node[k].kind = "const" /\ e.node[k].kind = "free"
            BY <1>1, <1>2, <1>3 DEF Free
        <3>2. QED
            BY <2>3, <3>1 DEF Children, OwnTimes
    <2>4. QED
        BY <2>1, <2>2, <2>3
<1>6. Grows(d, f)
    BY <1>3 DEF OffBy, Grows
<1>7. OffBy(d, f, n)
    BY <1>3, <1>4, <1>5, <1>6 DEF OffBy
<1>8. QED
    BY <1>4, <1>7 DEF f, k, o

\* And when a name is handed on.
LEMMA OffRename ==
    ASSUME NEW d, NEW e, NEW n, OffBy(d, e, n), NEW from, NEW to \in Nodes(e)
    PROVE  /\ OffBy(d, Rename(e, from, to), n)
           /\ Nodes(Rename(e, from, to)) = Nodes(e)
<1> DEFINE f == RemoveValueNode(e, from)
           g == AddValueNode(f, to, e.id[from])
<1>1. Wired(e)
    BY DEF OffBy
<1>2. Quiet(e, f)
    BY <1>1, NamesQuiet
<1>3. OffBy(d, f, n) /\ Nodes(f) = Nodes(e)
    BY <1>1, <1>2, OffQuiet, QuietLeads
<1> HIDE DEF f
<1>4. Quiet(f, g)
    BY <1>3, NamesQuiet DEF OffBy
<1>5. OffBy(d, g, n) /\ Nodes(g) = Nodes(f)
    BY <1>3, <1>4, OffQuiet, QuietLeads DEF OffBy
<1> HIDE DEF g
<1>6. Rename(e, from, to) = e \/ Rename(e, from, to) = g
    BY DEF Rename, f, g
<1>7. QED
    BY <1>3, <1>5, <1>6

\* And is right again when the node is replaced, and told.
LEMMA OffReplace ==
    ASSUME NEW d, NEW e, NEW n \in Nodes(e), OffBy(d, e, n), NEW x \in Nodes(e), n # x
    PROVE  Leads(d, Changed(Replace(e, n, x), n))
<1> DEFINE f == Replace(e, n, x)
           g == Changed(f, n)
<1>1. n \in Objects /\ n \notin Layers
    BY Things
<1>2. Wired(e) /\ Grows(d, e)
    BY DEF OffBy
<1>3. /\ Wired(f)
      /\ Grows(e, f)
      /\ \A y \in Objects \union Layers : OwnTimes(f, y) = OwnTimes(e, y)
      /\ \A y \in Objects \union Layers : y \in f.left \/ Children(f, y) = Children(e, y) \/ {y} \union Users(f, y) \subseteq f.stale
      /\ f.times = e.times /\ f.left = e.left
      /\ e.stale \subseteq f.stale
    BY <1>2, ReplaceWired
<1> HIDE DEF f
<1>4. Quiet(f, g) /\ Wired(g) /\ Grows(f, g)
    BY <1>1, <1>3, ChangedQuiet, QuietLeads DEF Leads
<1>5. \A y \in Objects \union Layers : Children(g, y) = Children(f, y) /\ OwnTimes(g, y) = OwnTimes(f, y)
    BY <1>3, <1>4, QuietLeads
<1>6. IsDoc(f)
    BY <1>3 DEF Wired, Typed
<1>7. g.users = f.users /\ g.times = f.times /\ g.left = f.left /\ g.stale = f.stale \union Above(f, n)
    BY <1>6, ChangedFields
<1> HIDE DEF g
<1>8. \A y : Users(g, y) = Users(f, y)
    BY <1>7 DEF Users
<1>9. Above(g, n) \subseteq g.stale
    BY <1>7, <1>8 DEF Above
<1>10. \A y \in Objects \union Layers : OwnTimes(g, y) = OwnTimes(d, y) \/ Above(g, y) \subseteq g.stale
    BY <1>3, <1>5, <1>9 DEF OffBy
<1>11. \A y \in Objects \union Layers : y \in g.left \/ Children(g, y) = Children(d, y) \/ {y} \union Users(g, y) \subseteq g.stale
    BY <1>3, <1>5, <1>7, <1>8 DEF OffBy
<1>12. g.times = d.times /\ g.left = d.left /\ d.stale \subseteq g.stale
    BY <1>3, <1>7 DEF OffBy
<1>13. TimesTrue(d) => TimesTrue(g)
    BY <1>4, <1>10, <1>11, <1>12, CacheKept
<1>14. Grows(d, g)
    BY <1>2, <1>3, <1>4 DEF Grows
<1>15. QED
    BY <1>4, <1>13, <1>14 DEF Leads, f, g

\* A removal does not throw halfway where an exported node is listed.
Finishes(d, a) == a.name = "WaypointRemove" /\ Exported(d, a.node) => a.node \in d.list

\* A waypoint is removed, with the last one the node that had it.
LEMMA WaypointRemoveActs ==
    ASSUME NEW d, Wired(d), NEW a, RawOK(d, a), a.name = "WaypointRemove", Makes(a) => Room(d, 1)
    PROVE  Acted(d, a, PerformWaypointRemove(a, d), Finishes(d, a))
<1> DEFINE n == a.node
           e == ErasePoint(d, n, a.waypoint)
           make == a.ref = None
           v == d.node[a.waypoint].value
           f == IF make THEN Created(e, Const(v)) ELSE e
           ref == IF make THEN Fresh(e) ELSE a.ref
           b == IF make THEN [a EXCEPT !.ref = Fresh(e)] ELSE a
<1>1. /\ DOMAIN a = {"name", "node", "waypoint", "time", "ref"}
      /\ n \in Of(d, "animated") /\ a.waypoint \in Of(d, "waypoint") /\ a.time \in Times
      /\ a.ref \in Of(d, "const") \union {None}
      /\ n \in Objects
    BY Things DEF RawOK
<1>2. PerfOK(d, a)
    BY DEF PerfOK
<1>3. \E points : Pointed(d, n, points, e)
    BY <1>1, ErasePointed
<1>4. /\ Wired(e) /\ Grows(d, e)
      /\ \A m \in Objects : e.node[m].kind = d.node[m].kind
      /\ \A y \in Objects \union Layers : Children(e, y) = Children(d, y)
      /\ \A y \in Objects \union Layers : y # n => OwnTimes(e, y) = OwnTimes(d, y)
      /\ e.id = d.id /\ e.list = d.list /\ e.times = d.times /\ e.left = d.left /\ e.stale = d.stale
    <2>1. PICK points : Pointed(d, n, points, e)
        BY <1>3
    <2> HIDE DEF e
    <2>2. e.id = d.id /\ e.list = d.list /\ e.times = d.times /\ e.left = d.left /\ e.stale = d.stale
        BY <2>1 DEF Pointed
    <2>3. QED
        BY <1>1, <2>1, <2>2, PointedWired
<1>5. Leads(d, Changed(e, n))
    BY <1>1, <1>3, PointedLeads
<1> HIDE DEF e, n, v
<1>6. OffBy(d, e, n)
    BY <1>4 DEF OffBy
<1>7. make => Room(e, 1)
    <2> SUFFICES ASSUME make PROVE Room(e, 1)
        OBVIOUS
    <2>1. Room(d, 1)
        BY DEF Makes
    <2>2. QED
        BY <1>4, <2>1, RoomKinds DEF Wired
<1>8. /\ OffBy(d, f, n)
      /\ ref \in Of(f, "const")
      /\ f.id = d.id /\ f.list = d.list
    <2>1. CASE make
        <3>1. OffBy(d, Created(e, Const(v)), n) /\ Fresh(e) \in Of(Created(e, Const(v)), "const")
            BY <1>6, <1>7, <2>1, OffCreated
        <3>2. Created(e, Const(v)).id = e.id /\ Created(e, Const(v)).list = e.list
            BY <1>4, <1>7, <2>1, CreatedFields DEF Wired
        <3>3. QED
            BY <1>4, <2>1, <3>1, <3>2
    <2>2. CASE ~make
        <3>1. a.ref \in Of(d, "const")
            BY <1>1, <2>2
        <3>2. a.ref \in Of(e, "const")
            BY <1>4, <3>1, GrowsFit
        <3>3. QED
            BY <1>4, <1>6, <2>2, <3>2
    <2>3. QED
        BY <2>1, <2>2
<1>9. n \in Of(f, "animated") /\ n \in Nodes(f) /\ ref \in Nodes(f) /\ n # ref
    <2>1. n \in Of(f, "animated")
        BY <1>1, <1>8, GrowsFit DEF OffBy, n
    <2>2. QED
        BY <1>8, <2>1 DEF Nodes, Of
<1>10. /\ DOMAIN b = DOMAIN a /\ b.name = a.name /\ b.node = n /\ b.waypoint = a.waypoint /\ b.time = a.time
       /\ b.ref = ref
    <2>1. CASE make
        BY <1>1, <2>1 DEF n
    <2>2. CASE ~make
        BY <2>2 DEF n
    <2>3. QED
        BY <2>1, <2>2
<1>11. Makes(b) => Makes(a)
    <2>1. CASE make
        BY <2>1 DEF Makes
    <2>2. CASE ~make
        BY <2>2
    <2>3. QED
        BY <2>1, <2>2
<1>12. PerformWaypointRemove(a, d) =
         IF a.waypoint \notin Range(Points(d, n)) THEN Throw(d, a)
         ELSE IF DOMAIN Points(e, n) # {} THEN OK(Changed(e, n), a)
         ELSE IF ~CanRename(f, b.node, b.ref) THEN Throw(f, b)
         ELSE OK(Changed(Replace(Rename(f, b.node, b.ref), b.node, b.ref), b.node), b)
    BY DEF PerformWaypointRemove, e, n, v
<1> HIDE DEF f, ref, b, make
<1>13. ASSUME NEW g, Grows(f, g)
       PROVE  PerfOK(g, b) /\ RawOK(g, b)
    <2>1. n \in Of(g, "animated") /\ ref \in Of(g, "const")
        BY <1>8, <1>9, <1>13, GrowsFit
    <2>2. a.waypoint \in Of(g, "waypoint")
        BY <1>1, <1>8, <1>13, GrowsFit DEF OffBy
    <2>3. QED
        BY <1>1, <1>10, <2>1, <2>2 DEF PerfOK, RawOK, Singles
<1>14. Grows(f, f) /\ Wired(f) /\ Grows(d, f)
    BY <1>8 DEF Grows, OffBy
<1>15. ASSUME ~CanRename(f, b.node, b.ref)
       PROVE  Acted(d, a, Throw(f, b), Finishes(d, a))
    <2>1. ~Finishes(d, a)
        BY <1>8, <1>10, <1>15 DEF CanRename, Finishes, Exported, n
    <2>2. QED
        BY <1>10, <1>11, <1>13, <1>14, <2>1 DEF Acted, Throw
<1>16. ASSUME CanRename(f, b.node, b.ref)
       PROVE  Acted(d, a, OK(Changed(Replace(Rename(f, b.node, b.ref), b.node, b.ref), b.node), b), Finishes(d, a))
    <2> DEFINE h == Rename(f, n, ref)
               g == Changed(Replace(h, n, ref), n)
    <2>1. OffBy(d, h, n) /\ Nodes(h) = Nodes(f)
        BY <1>8, <1>9, OffRename
    <2>2. Grows(f, h)
        <3>1. Grows(f, f) /\ OffBy(f, f, n)
            BY <1>14 DEF OffBy
        <3>2. QED
            BY <1>9, <3>1, OffRename DEF OffBy
    <2> HIDE DEF h
    <2>3. Leads(d, g)
        BY <1>9, <2>1, OffReplace
    <2>4. Grows(h, g)
        <3>1. OffBy(h, h, n)
            BY <2>1 DEF OffBy, Grows
        <3>2. Leads(h, g)
            BY <1>9, <2>1, <3>1, OffReplace
        <3>3. QED
            BY <3>2 DEF Leads
    <2>5. Grows(f, g)
        BY <2>2, <2>4 DEF Grows
    <2> HIDE DEF g
    <2>6. PerfOK(g, b) /\ RawOK(g, b)
        BY <1>13, <2>5
    <2>7. Acted(d, a, OK(g, b), Finishes(d, a))
        BY <1>10, <1>11, <2>3, <2>6 DEF Acted, OK, Leads
    <2>8. QED
        BY <1>10, <2>7 DEF g, h
<1>17. Acted(d, a, Throw(d, a), Finishes(d, a))
    BY ThrowActed DEF Acted
<1>18. Acted(d, a, OK(Changed(e, n), a), Finishes(d, a))
    BY <1>2, <1>5, OKActed DEF Acted
<1>19. QED
    BY <1>12, <1>15, <1>16, <1>17, <1>18

\* A name is handed on.
LEMMA RenameLeads ==
    ASSUME NEW d, Wired(d), NEW from, NEW to \in Nodes(d)
    PROVE  Leads(d, Rename(d, from, to))
<1> DEFINE f == RemoveValueNode(d, from)
           g == AddValueNode(f, to, d.id[from])
<1>1. Quiet(d, f)
    BY NamesQuiet
<1>2. Leads(d, f) /\ Nodes(f) = Nodes(d)
    BY <1>1, QuietLeads
<1> HIDE DEF f
<1>3. Quiet(f, g)
    BY <1>2, NamesQuiet DEF Leads
<1>4. Leads(d, g)
    BY <1>2, <1>3, ThenQuiet
<1> HIDE DEF g
<1>5. Rename(d, from, to) = d \/ Rename(d, from, to) = g
    BY DEF Rename, f, g
<1>6. QED
    BY <1>4, <1>5, LeadsSame

\* A removed waypoint comes back, and the node that went with it.
LEMMA WaypointRemoveUndone ==
    ASSUME NEW d, Wired(d), NEW a, RawOK(d, a), a.name = "WaypointRemove"
    PROVE  Acted(d, a, UndoWaypointRemove(a, d), TRUE)
<1> DEFINE n == a.node
           w == a.waypoint
           h == Rename(d, a.ref, n)
           back == Replace(h, a.ref, n)
           v == d.node[a.ref].value
           e == IF a.ref = None THEN d ELSE [back EXCEPT !.node[w].value = v]
           g == Changed(AddPoint(e, n, w, a.time), n)
<1>1. /\ n \in Of(d, "animated") /\ w \in Of(d, "waypoint") /\ a.time \in Times
      /\ a.ref \in Of(d, "const") \union {None}
      /\ n \in Nodes(d)
    BY DEF RawOK, Nodes
<1>2. PerfOK(d, a)
    BY DEF PerfOK
<1>3. UndoWaypointRemove(a, d) = Throw(d, a) \/ UndoWaypointRemove(a, d) = OK(g, a)
    BY DEF UndoWaypointRemove
<1> HIDE DEF n, w, v
<1>4. Leads(d, e)
    <2>1. CASE a.ref = None
        BY <2>1, LeadsSame
    <2>2. CASE a.ref # None
        <3>1. Leads(d, h)
            BY <1>1, RenameLeads
        <3>2. a.ref \in Nodes(d)
            BY <1>1, <2>2 DEF Nodes
        <3> HIDE DEF h
        <3>3. a.ref \in Nodes(h) /\ n \in Nodes(h)
            BY <1>1, <3>1, <3>2, GrowsFit DEF Leads
        <3>4. Leads(h, back)
            BY <3>1, <3>3, ReplaceLeads DEF Leads
        <3>5. Leads(d, back)
            BY <3>1, <3>4, LeadsOn
        <3> HIDE DEF back
        <3>6. w \in Of(back, "waypoint")
            BY <1>1, <3>5, GrowsFit DEF Leads
        <3>7. Leads(d, [back EXCEPT !.node[w].value = v])
            BY <3>5, <3>6, ValueQuiet, ThenQuiet DEF Leads
        <3>8. QED
            BY <2>2, <3>7
    <2>3. QED
        BY <2>1, <2>2
<1> HIDE DEF e
<1>5. n \in Of(e, "animated") /\ w \in Of(e, "waypoint")
    BY <1>1, <1>4, GrowsFit DEF Leads
<1>6. Leads(e, g)
    BY <1>1, <1>4, <1>5, AddPointed, PointedLeads DEF Leads
<1>7. Leads(d, g)
    BY <1>4, <1>6, LeadsOn
<1> HIDE DEF g
<1>8. QED
    BY <1>2, <1>3, <1>7, OKActed, ThrowActed

\* What performing any single action does to a document.
LEMMA PerformOneActs ==
    ASSUME NEW d, Wired(d), NEW a, RawOK(d, a), Makes(a) => Room(d, 1)
    PROVE  Acted(d, a, PerformOne(a, d), Finishes(d, a))
<1>1. ASSUME NEW r, Acted(d, a, r, TRUE)
      PROVE  Acted(d, a, r, Finishes(d, a))
    BY <1>1 DEF Acted
<1>2. CASE a.name = "LayerParamSet"
    BY <1>1, <1>2, LayerParamSetActs DEF PerformOne
<1>3. CASE a.name = "LayerParamConnect"
    BY <1>1, <1>3, LayerParamConnectActs DEF PerformOne
<1>4. CASE a.name = "LayerParamDisconnect"
    BY <1>1, <1>4, LayerParamDisconnectActs DEF PerformOne
<1>5. CASE a.name = "ValueNodeLinkConnect"
    BY <1>1, <1>5, ValueNodeLinkConnectActs DEF PerformOne
<1>6. CASE a.name = "ValueNodeLinkDisconnect"
    BY <1>1, <1>6, ValueNodeLinkDisconnectActs DEF PerformOne, Makes
<1>7. CASE a.name = "ValueNodeConstSet"
    BY <1>1, <1>7, ValueNodeConstSetActs DEF PerformOne
<1>8. CASE a.name \in {"ValueNodeAdd", "ValueNodeRemove", "ValueNodeRename"}
    BY <1>1, <1>8, NamesAct DEF PerformOne
<1>9. CASE a.name = "ValueNodeReplace"
    BY <1>1, <1>9, ValueNodeReplaceActs DEF PerformOne
<1>10. CASE a.name \in {"WaypointAdd", "WaypointSet"}
    BY <1>1, <1>10, WaypointsAct DEF PerformOne
<1>11. CASE a.name = "WaypointRemove"
    BY <1>11, WaypointRemoveActs DEF PerformOne
<1>12. a.name \in Singles
    BY DEF RawOK
<1>13. QED
    BY <1>2, <1>3, <1>4, <1>5, <1>6, <1>7, <1>8, <1>9, <1>10, <1>11, <1>12 DEF Singles

\* What undoing one that was performed does, which remembers nothing new.
LEMMA UndoOneActs ==
    ASSUME NEW d, Wired(d), NEW a, PerfOK(d, a)
    PROVE  Acted(d, a, UndoOne(a, d), TRUE) /\ UndoOne(a, d).act = a
<1>0. RawOK(d, a)
    BY DEF PerfOK
<1>2. CASE a.name = "LayerParamSet"
    BY <1>0, <1>2, LayerParamSetActs DEF UndoOne, UndoLayerParamSet, OK
<1>3. CASE a.name = "LayerParamConnect"
    BY <1>0, <1>3, LayerParamConnectActs DEF UndoOne, UndoLayerParamConnect, OK
<1>4. CASE a.name = "LayerParamDisconnect"
    BY <1>0, <1>4, LayerParamDisconnectActs DEF UndoOne, UndoLayerParamDisconnect, OK
<1>5. CASE a.name = "ValueNodeLinkConnect"
    BY <1>0, <1>5, ValueNodeLinkConnectActs DEF UndoOne, UndoValueNodeLinkConnect, OK
<1>6. CASE a.name = "ValueNodeLinkDisconnect"
    BY <1>0, <1>6, ValueNodeLinkDisconnectActs DEF UndoOne, UndoValueNodeLinkDisconnect, OK
<1>7. CASE a.name = "ValueNodeConstSet"
    BY <1>0, <1>7, ValueNodeConstSetActs DEF UndoOne, UndoValueNodeConstSet, OK
<1>8. CASE a.name \in {"ValueNodeAdd", "ValueNodeRemove", "ValueNodeRename"}
    BY <1>0, <1>8, NamesAct DEF UndoOne, UndoValueNodeAdd, UndoValueNodeRemove, UndoValueNodeRename, OK, Throw
<1>9. CASE a.name = "ValueNodeReplace"
    BY <1>0, <1>9, ValueNodeReplaceActs DEF UndoOne, UndoValueNodeReplace, OK, Throw
<1>10. CASE a.name \in {"WaypointAdd", "WaypointSet"}
    BY <1>0, <1>10, WaypointsAct DEF UndoOne, UndoWaypointAdd, UndoWaypointSet, OK, Throw
<1>11. CASE a.name = "WaypointRemove"
    BY <1>0, <1>11, WaypointRemoveUndone DEF UndoOne, UndoWaypointRemove, OK, Throw
<1>12. a.name \in Singles
    BY <1>0 DEF RawOK
<1>13. QED
    BY <1>2, <1>3, <1>4, <1>5, <1>6, <1>7, <1>8, <1>9, <1>10, <1>11, <1>12 DEF Singles

-----------------------------------------------------------------------------
(***************************************************************************)
(* Lists of actions.                                                       *)
(***************************************************************************)

\* The runs through a list are functions defined by recursion: they exist.
ToStep(list, d, i, f) ==
    IF i = 0 THEN [ok |-> TRUE, doc |-> d, act |-> list, at |-> 0]
    ELSE IF f[i - 1].ok THEN Went(f[i - 1], PerformOne(list[i], f[i - 1].doc), i) ELSE f[i - 1]
To(list, d, k, f) == f = [i \in 0..k |-> ToStep(list, d, i, f)]

FromStep(list, n, d, i, f) ==
    IF i = n + 1 THEN [ok |-> TRUE, doc |-> d, act |-> list, at |-> n + 1]
    ELSE IF f[i + 1].ok THEN Went(f[i + 1], UndoOne(list[i], f[i + 1].doc), i) ELSE f[i + 1]
From(list, n, d, k, f) == f = [i \in (n + 1 - k)..(n + 1) |-> FromStep(list, n, d, i, f)]

\* Forwards, from one step to the next.
LEMMA ToNext ==
    ASSUME NEW list, NEW d, NEW k \in Nat, NEW f, To(list, d, k, f)
    PROVE  \E g : To(list, d, k + 1, g)
<1> DEFINE g == [i \in 0..(k + 1) |-> IF i = k + 1 THEN ToStep(list, d, k + 1, f) ELSE f[i]]
<1>1. ASSUME NEW i \in 0..(k + 1)
      PROVE  g[i] = ToStep(list, d, i, g)
    <2>1. CASE i = 0
        <3>1. f[0] = ToStep(list, d, 0, f)
            BY DEF To
        <3>2. g[0] = f[0]
            OBVIOUS
        <3>3. QED
            BY <2>1, <3>1, <3>2 DEF ToStep
    <2>2. CASE i # 0
        <3>1. i - 1 \in 0..k /\ i - 1 # k + 1 /\ i - 1 \in 0..(k + 1)
            BY <2>2
        <3>2. g[i - 1] = f[i - 1]
            BY <3>1
        <3>3. g[i] = ToStep(list, d, i, f)
            <4>1. CASE i = k + 1
                BY <4>1
            <4>2. CASE i # k + 1
                <5>1. i \in 0..k
                    BY <4>2
                <5>2. f[i] = ToStep(list, d, i, f)
                    BY <5>1 DEF To
                <5>3. QED
                    BY <4>2, <5>2
            <4>3. QED
                BY <4>1, <4>2
        <3> HIDE DEF g
        <3>4. QED
            BY <2>2, <3>2, <3>3 DEF ToStep
    <2>3. QED
        BY <2>1, <2>2
<1>2. g = [i \in 0..(k + 1) |-> g[i]]
    OBVIOUS
<1> HIDE DEF g
<1>3. To(list, d, k + 1, g)
    BY <1>1, <1>2 DEF To
<1>4. QED
    BY <1>3

\* Forwards, as far as one likes.
LEMMA ToExists ==
    ASSUME NEW list, NEW d, NEW n \in Nat
    PROVE  \E f : To(list, d, n, f)
<1> DEFINE S == {k \in Nat : ~\E f : To(list, d, k, f)}
<1> SUFFICES ASSUME n \in S PROVE FALSE
    OBVIOUS
<1>1. PICK k \in S : \A j \in S : k <= j
    BY LeastExists
<1>2. k # 0
    <2> DEFINE f == [i \in 0..0 |-> [ok |-> TRUE, doc |-> d, act |-> list, at |-> 0]]
    <2>1. f = [i \in 0..0 |-> ToStep(list, d, i, f)]
        BY DEF ToStep
    <2>2. To(list, d, 0, f)
        BY <2>1 DEF To
    <2>3. QED
        BY <2>2
<1>3. k - 1 \in Nat /\ ~(k <= k - 1) /\ k - 1 + 1 = k
    BY <1>2
<1>4. PICK f : To(list, d, k - 1, f)
    BY <1>1, <1>3
<1>5. \E g : To(list, d, k, g)
    BY <1>3, <1>4, ToNext
<1>6. QED
    BY <1>5

\* Backwards, from one step to the next.
LEMMA FromNext ==
    ASSUME NEW list, NEW d, NEW n \in Nat, NEW k \in Nat, NEW f, From(list, n, d, k, f)
    PROVE  \E g : From(list, n, d, k + 1, g)
<1> DEFINE s == n + 1 - (k + 1)
           g == [i \in s..(n + 1) |-> IF i = s THEN FromStep(list, n, d, s, f) ELSE f[i]]
<1>1. ASSUME NEW i \in s..(n + 1)
      PROVE  g[i] = FromStep(list, n, d, i, g)
    <2>1. CASE i = n + 1
        <3>1. n + 1 \in (n + 1 - k)..(n + 1) /\ n + 1 # s
            OBVIOUS
        <3>2. f[n + 1] = FromStep(list, n, d, n + 1, f)
            BY <3>1 DEF From
        <3>3. g[n + 1] = f[n + 1]
            BY <3>1
        <3>4. QED
            BY <2>1, <3>2, <3>3 DEF FromStep
    <2>2. CASE i # n + 1
        <3>1. i + 1 \in s..(n + 1) /\ i + 1 # s
            BY <2>2
        <3>2. g[i + 1] = f[i + 1]
            BY <3>1
        <3>3. g[i] = FromStep(list, n, d, i, f)
            <4>1. CASE i = s
                BY <4>1
            <4>2. CASE i # s
                <5>1. i \in (n + 1 - k)..(n + 1)
                    BY <4>2
                <5>2. f[i] = FromStep(list, n, d, i, f)
                    BY <5>1 DEF From
                <5>3. QED
                    BY <4>2, <5>2
            <4>3. QED
                BY <4>1, <4>2
        <3> HIDE DEF g
        <3>4. QED
            BY <2>2, <3>2, <3>3 DEF FromStep
    <2>3. QED
        BY <2>1, <2>2
<1>2. g = [i \in s..(n + 1) |-> g[i]]
    OBVIOUS
<1> HIDE DEF g
<1>3. From(list, n, d, k + 1, g)
    BY <1>1, <1>2 DEF From
<1>4. QED
    BY <1>3

\* Backwards, as far as one likes.
LEMMA FromExists ==
    ASSUME NEW list, NEW d, NEW n \in Nat, NEW m \in Nat
    PROVE  \E f : From(list, n, d, m, f)
<1> DEFINE S == {k \in Nat : ~\E f : From(list, n, d, k, f)}
<1> SUFFICES ASSUME m \in S PROVE FALSE
    OBVIOUS
<1>1. PICK k \in S : \A j \in S : k <= j
    BY LeastExists
<1>2. k # 0
    <2> DEFINE f == [i \in (n + 1 - 0)..(n + 1) |-> [ok |-> TRUE, doc |-> d, act |-> list, at |-> n + 1]]
    <2>1. f = [i \in (n + 1 - 0)..(n + 1) |-> FromStep(list, n, d, i, f)]
        BY DEF FromStep
    <2>2. From(list, n, d, 0, f)
        BY <2>1 DEF From
    <2>3. QED
        BY <2>2
<1>3. k - 1 \in Nat /\ ~(k <= k - 1) /\ k - 1 + 1 = k
    BY <1>2
<1>4. PICK f : From(list, n, d, k - 1, f)
    BY <1>1, <1>3
<1>5. \E g : From(list, n, d, k, g)
    BY <1>3, <1>4, FromNext
<1>6. QED
    BY <1>5

\* A list performed is the end of a run.
LEMMA PerformRun ==
    ASSUME NEW list, NEW d, Len(list) \in Nat
    PROVE  \E f : To(list, d, Len(list), f) /\ PerformUpTo(list, d) = f[Len(list)]
<1> DEFINE to == CHOOSE f : f = [i \in 0..Len(list) |->
                     IF i = 0 THEN [ok |-> TRUE, doc |-> d, act |-> list, at |-> 0]
                     ELSE LET r == f[i - 1] IN IF r.ok THEN Went(r, PerformOne(list[i], r.doc), i) ELSE r]
<1>1. \E f : f = [i \in 0..Len(list) |->
                     IF i = 0 THEN [ok |-> TRUE, doc |-> d, act |-> list, at |-> 0]
                     ELSE LET r == f[i - 1] IN IF r.ok THEN Went(r, PerformOne(list[i], r.doc), i) ELSE r]
    <2> HIDE DEF to
    <2>1. PICK f : To(list, d, Len(list), f)
        BY ToExists
    <2>2. f = [i \in 0..Len(list) |->
                     IF i = 0 THEN [ok |-> TRUE, doc |-> d, act |-> list, at |-> 0]
                     ELSE LET r == f[i - 1] IN IF r.ok THEN Went(r, PerformOne(list[i], r.doc), i) ELSE r]
        BY <2>1 DEF To, ToStep
    <2>3. QED
        BY <2>2, Zenon
<1>2. to = [i \in 0..Len(list) |->
                     IF i = 0 THEN [ok |-> TRUE, doc |-> d, act |-> list, at |-> 0]
                     ELSE LET r == to[i - 1] IN IF r.ok THEN Went(r, PerformOne(list[i], r.doc), i) ELSE r]
    BY <1>1, Zenon
<1>3. PerformUpTo(list, d) = to[Len(list)]
    BY Zenon DEF PerformUpTo
<1> HIDE DEF to
<1>4. To(list, d, Len(list), to)
    BY <1>2 DEF To, ToStep
<1>5. QED
    BY <1>3, <1>4

\* So is a list undone.
LEMMA UndoRun ==
    ASSUME NEW list, NEW d, NEW n \in Nat
    PROVE  \E f : From(list, n, d, n, f) /\ UndoDownFrom(list, n, d) = f[1]
<1> DEFINE from == CHOOSE f : f = [i \in 1..(n + 1) |->
                     IF i = n + 1 THEN [ok |-> TRUE, doc |-> d, act |-> list, at |-> n + 1]
                     ELSE LET r == f[i + 1] IN IF r.ok THEN Went(r, UndoOne(list[i], r.doc), i) ELSE r]
<1>0. n + 1 - n = 1
    OBVIOUS
<1>1. \E f : f = [i \in 1..(n + 1) |->
                     IF i = n + 1 THEN [ok |-> TRUE, doc |-> d, act |-> list, at |-> n + 1]
                     ELSE LET r == f[i + 1] IN IF r.ok THEN Went(r, UndoOne(list[i], r.doc), i) ELSE r]
    <2> HIDE DEF from
    <2>1. PICK f : From(list, n, d, n, f)
        BY FromExists
    <2>2. f = [i \in 1..(n + 1) |->
                     IF i = n + 1 THEN [ok |-> TRUE, doc |-> d, act |-> list, at |-> n + 1]
                     ELSE LET r == f[i + 1] IN IF r.ok THEN Went(r, UndoOne(list[i], r.doc), i) ELSE r]
        BY <1>0, <2>1 DEF From, FromStep
    <2>3. QED
        BY <2>2, Zenon
<1>2. from = [i \in 1..(n + 1) |->
                     IF i = n + 1 THEN [ok |-> TRUE, doc |-> d, act |-> list, at |-> n + 1]
                     ELSE LET r == from[i + 1] IN IF r.ok THEN Went(r, UndoOne(list[i], r.doc), i) ELSE r]
    BY <1>1, Zenon
<1>3. UndoDownFrom(list, n, d) = from[1]
    BY Zenon DEF UndoDownFrom
<1> HIDE DEF from
<1>4. From(list, n, d, n, from)
    BY <1>0, <1>2 DEF From, FromStep
<1>5. QED
    BY <1>3, <1>4

\* A sequence is a function on the numbers up to its length.
LEMMA SeqIff ==
    ASSUME NEW s
    PROVE  /\ IsSeq(s) => Len(s) \in Nat /\ DOMAIN s = 1..Len(s) /\ s = [i \in 1..Len(s) |-> s[i]]
           /\ \A n \in Nat : s = [i \in 1..n |-> s[i]] => IsSeq(s) /\ Len(s) = n
<1>1. ASSUME IsSeq(s)
      PROVE  Len(s) \in Nat /\ DOMAIN s = 1..Len(s) /\ s = [i \in 1..Len(s) |-> s[i]]
    BY <1>1, LenProperties DEF IsSeq
<1>2. ASSUME NEW n \in Nat, s = [i \in 1..n |-> s[i]]
      PROVE  IsSeq(s) /\ Len(s) = n
    <2>1. s \in [1..n -> Range(s)]
        BY <1>2 DEF Range
    <2>2. s \in Seq(Range(s))
        BY <2>1, SeqDef
    <2>3. DOMAIN s = 1..n
        BY <1>2
    <2>4. Len(s) = n
        BY <2>2, <2>3, LenProperties
    <2>5. QED
        BY <2>2, <2>4 DEF IsSeq
<1>3. QED
    BY <1>1, <1>2

\* What is fit to be done stays fit while nothing goes.
LEMMA ListGrows ==
    ASSUME NEW d, NEW e, Grows(d, e), NEW list, ListOK(d, list)
    PROVE  ListOK(e, list)
BY RawGrows DEF ListOK

\* What has come of the first i of a list.
RanTo(d, list, i, r) ==
    /\ DOMAIN r = {"ok", "doc", "act", "at"}
    /\ Leads(d, r.doc)
    /\ ListOK(r.doc, r.act)
    /\ Len(r.act) = Len(list)
    /\ r.at \in 0..i
    /\ \A j \in 1..Len(list) : Makes(r.act[j]) => Makes(list[j])
    /\ \A j \in 1..Len(list) : j <= r.at \/ PerfOK(d, list[j]) => PerfOK(r.doc, r.act[j])
    /\ r.ok => r.at = i
    /\ i = 0 => r.doc = d

\* The next of them is performed.
LEMMA RanOn ==
    ASSUME NEW d, Wired(d), NEW list, ListOK(d, list),
           NEW i \in 1..Len(list), Makes(list[i]) => Room(d, 1),
           NEW r, RanTo(d, list, i - 1, r), r.ok
    PROVE  RanTo(d, list, i, Went(r, PerformOne(list[i], r.doc), i))
<1> DEFINE s == PerformOne(list[i], r.doc)
           q == Went(r, s, i)
           t == [r.act EXCEPT ![i] = s.act]
<1>1. Wired(r.doc) /\ Leads(d, r.doc) /\ Grows(d, r.doc)
    BY DEF RanTo, Leads
<1>2. Len(list) \in Nat /\ RawOK(d, list[i]) /\ list[i].name # "WaypointRemove" /\ IsSeq(r.act)
    BY SeqIff DEF ListOK, RanTo
<1>3. RawOK(r.doc, list[i])
    BY <1>1, <1>2, RawGrows
<1>4. Makes(list[i]) => Room(r.doc, 1) /\ i = 1 /\ Len(list) = 1
    <2>1. Makes(list[i]) => Len(list) = 1
        BY DEF ListOK
    <2>2. Makes(list[i]) => i = 1
        <3>1. i \in Int /\ 1 <= i /\ i <= Len(list)
            OBVIOUS
        <3>2. Len(list) = 1 => i = 1
            BY <3>1
        <3>3. QED
            BY <2>1, <3>2
    <2>3. i - 1 = 0 => r.doc = d
        BY DEF RanTo
    <2>4. QED
        BY <2>1, <2>2, <2>3
<1>5. Acted(r.doc, list[i], s, TRUE)
    <2>1. Finishes(r.doc, list[i])
        BY <1>2 DEF Finishes
    <2>2. Acted(r.doc, list[i], s, Finishes(r.doc, list[i]))
        BY <1>1, <1>3, <1>4, PerformOneActs
    <2>3. QED
        BY <2>1, <2>2 DEF Acted
<1> HIDE DEF s
<1>6. DOMAIN q = {"ok", "doc", "act", "at"} /\ q.ok = s.ok /\ q.doc = s.doc /\ q.act = t /\ q.at = (IF s.ok THEN i ELSE r.at)
    BY DEF Went
<1>7. Leads(r.doc, s.doc)
    BY <1>5 DEF Acted, Leads
<1>8. Leads(d, s.doc)
    BY <1>1, <1>7, LeadsOn
<1>t. t = [r.act EXCEPT ![i] = s.act]
    OBVIOUS
<1> HIDE DEF q, t
<1>9. IsSeq(t) /\ Len(t) = Len(list) /\ \A j \in 1..Len(list) : t[j] = IF j = i THEN s.act ELSE r.act[j]
    <2>1. Len(r.act) = Len(list)
        BY DEF RanTo
    <2>2. Len(list) \in Nat /\ DOMAIN r.act = 1..Len(list)
        BY <1>2, <2>1, SeqIff
    <2>3. t = [j \in 1..Len(list) |-> t[j]] /\ \A j \in 1..Len(list) : t[j] = IF j = i THEN s.act ELSE r.act[j]
        BY <1>t, <2>2
    <2>4. QED
        BY <2>2, <2>3, SeqIff
<1>10. ASSUME NEW j \in 1..Len(list)
       PROVE  /\ RawOK(s.doc, t[j])
              /\ t[j].name # "WaypointRemove"
              /\ Makes(t[j]) => Len(list) = 1
              /\ Makes(t[j]) => Makes(list[j])
              /\ j <= q.at \/ PerfOK(d, list[j]) => PerfOK(s.doc, t[j])
    <2>1. CASE j = i
        <3>1. t[j] = s.act
            BY <1>9, <2>1
        <3>2. RawOK(s.doc, s.act) /\ s.act.name = list[i].name /\ (Makes(s.act) => Makes(list[i]))
                 /\ (s.ok \/ PerfOK(r.doc, list[i]) => PerfOK(s.doc, s.act))
            BY <1>5 DEF Acted
        <3>3. PerfOK(d, list[i]) => PerfOK(r.doc, list[i])
            BY <1>1, PerfGrows
        <3>4. i <= q.at => s.ok
            BY <1>2, <1>6 DEF RanTo
        <3>5. QED
            BY <1>2, <1>4, <2>1, <3>1, <3>2, <3>3, <3>4
    <2>2. CASE j # i
        <3>1. t[j] = r.act[j]
            BY <1>9, <2>2
        <3>2. /\ RawOK(r.doc, r.act[j]) /\ r.act[j].name # "WaypointRemove"
              /\ Makes(r.act[j]) => Len(list) = 1
              /\ Makes(r.act[j]) => Makes(list[j])
            BY DEF RanTo, ListOK
        <3>3. j <= q.at => j <= r.at
            <4>1. r.at = i - 1
                BY DEF RanTo
            <4>2. QED
                BY <1>2, <1>6, <2>2, <4>1
        <3>4. j <= q.at \/ PerfOK(d, list[j]) => PerfOK(r.doc, r.act[j])
            BY <3>3 DEF RanTo
        <3>5. Grows(r.doc, s.doc)
            BY <1>7 DEF Leads
        <3>6. QED
            BY <3>1, <3>2, <3>4, <3>5, RawGrows, PerfGrows
    <2>3. QED
        BY <2>1, <2>2
<1>11. ListOK(s.doc, t)
    BY <1>9, <1>10 DEF ListOK
<1>12. q.at \in 0..i /\ (q.ok => q.at = i) /\ i # 0
    BY <1>2, <1>6 DEF RanTo
<1>13. RanTo(d, list, i, q)
    BY <1>6, <1>8, <1>9, <1>10, <1>11, <1>12 DEF RanTo
<1>14. QED
    BY <1>13 DEF q, s

\* So a list may be performed.
LEMMA PerformUpToRan ==
    ASSUME NEW d, Wired(d), NEW list, ListOK(d, list),
           \A i \in 1..Len(list) : Makes(list[i]) => Room(d, 1)
    PROVE  RanTo(d, list, Len(list), PerformUpTo(list, d))
<1> DEFINE n == Len(list)
<1>1. n \in Nat
    BY SeqIff DEF ListOK
<1>2. PICK f : To(list, d, n, f) /\ PerformUpTo(list, d) = f[n]
    BY <1>1, PerformRun
<1> DEFINE S == {k \in 0..n : ~RanTo(d, list, k, f[k])}
<1>3. S = {}
    <2> SUFFICES ASSUME S # {} PROVE FALSE
        OBVIOUS
    <2>0. S \in SUBSET Nat
        BY <1>1
    <2>1. PICK k \in S : \A j \in S : k <= j
        BY <2>0, LeastExists
    <2>2. k \in 0..n /\ ~RanTo(d, list, k, f[k]) /\ f[k] = ToStep(list, d, k, f)
        BY <1>2, <2>1 DEF To
    <2>3. CASE k = 0
        <3>1. f[0] = [ok |-> TRUE, doc |-> d, act |-> list, at |-> 0]
            BY <2>2, <2>3 DEF ToStep
        <3>2. RanTo(d, list, 0, f[0])
            BY <1>1, <3>1, LeadsSame DEF RanTo
        <3>3. QED
            BY <2>2, <2>3, <3>2
    <2>4. CASE k # 0
        <3>1. k - 1 \in 0..n /\ ~(k <= k - 1) /\ k \in 1..n /\ k - 1 # k /\ k \in Nat
            BY <1>1, <2>2, <2>4
        <3>2. RanTo(d, list, k - 1, f[k - 1])
            BY <2>1, <3>1
        <3>3. CASE f[k - 1].ok
            <4>1. f[k] = Went(f[k - 1], PerformOne(list[k], f[k - 1].doc), k)
                BY <2>2, <2>4, <3>3 DEF ToStep
            <4>2. QED
                BY <2>2, <3>1, <3>2, <3>3, <4>1, RanOn
        <3>4. CASE ~f[k - 1].ok
            <4>1. f[k] = f[k - 1]
                BY <2>2, <2>4, <3>4 DEF ToStep
            <4>2. f[k].at \in 0..k
                BY <1>1, <3>1, <3>2, <4>1 DEF RanTo
            <4>3. RanTo(d, list, k, f[k])
                BY <2>4, <3>2, <3>4, <4>1, <4>2 DEF RanTo
            <4>4. QED
                BY <2>2, <4>3
        <3>5. QED
            BY <3>3, <3>4
    <2>5. QED
        BY <2>3, <2>4
<1>4. n \in 0..n
    BY <1>1
<1>5. QED
    BY <1>2, <1>3, <1>4

\* What has come of undoing the last of a list down to i.
BackTo(d, list, n, i, r) ==
    /\ Leads(d, r.doc)
    /\ r.act = list
    /\ r.at \in i..(n + 1)
    /\ IF r.ok THEN r.at = i ELSE r.at > i

\* So what was performed of a list may be undone, and remembers nothing new.
LEMMA UndoDownFromRan ==
    ASSUME NEW d, Wired(d), NEW list, IsSeq(list), NEW n \in 0..Len(list),
           \A i \in 1..n : PerfOK(d, list[i])
    PROVE  BackTo(d, list, n, 1, UndoDownFrom(list, n, d))
<1>1. n \in Nat /\ Len(list) \in Nat /\ list = [i \in 1..Len(list) |-> list[i]]
    BY SeqIff
<1>2. PICK f : From(list, n, d, n, f) /\ UndoDownFrom(list, n, d) = f[1]
    BY <1>1, UndoRun
<1> DEFINE S == {k \in 0..n : ~BackTo(d, list, n, n + 1 - k, f[n + 1 - k])}
<1>3. S = {}
    <2> SUFFICES ASSUME S # {} PROVE FALSE
        OBVIOUS
    <2>0. S \in SUBSET Nat
        BY <1>1
    <2>1. PICK k \in S : \A j \in S : k <= j
        BY <2>0, LeastExists
    <2> DEFINE i == n + 1 - k
    <2>2. k \in 0..n /\ ~BackTo(d, list, n, i, f[i]) /\ i \in 1..(n + 1) /\ i \in (n + 1 - n)..(n + 1)
        BY <1>1, <2>1
    <2>3. f[i] = FromStep(list, n, d, i, f)
        BY <1>2, <2>2 DEF From
    <2>4. CASE k = 0
        <3>1. i = n + 1 /\ f[i] = [ok |-> TRUE, doc |-> d, act |-> list, at |-> n + 1]
            BY <1>1, <2>3, <2>4 DEF FromStep
        <3>2. BackTo(d, list, n, i, f[i])
            BY <1>1, <3>1, LeadsSame DEF BackTo
        <3>3. QED
            BY <2>2, <3>2
    <2>5. CASE k # 0
        <3> DEFINE r == f[i + 1]
        <3>0. k \in Nat /\ n \in Nat /\ k <= n /\ k # 0
            BY <1>1, <2>2, <2>5
        <3>1. k - 1 \in 0..n /\ ~(k <= k - 1) /\ n + 1 - (k - 1) = i + 1 /\ i \in 1..n /\ i # n + 1 /\ i \in Nat
            BY <3>0
        <3>2. BackTo(d, list, n, i + 1, r)
            BY <2>1, <3>1
        <3>3. CASE r.ok
            <4> DEFINE s == UndoOne(list[i], r.doc)
            <4>1. f[i] = Went(r, s, i)
                BY <2>3, <3>1, <3>3 DEF FromStep
            <4> HIDE DEF r
            <4>2. Wired(r.doc) /\ Grows(d, r.doc) /\ r.act = list
                BY <3>2 DEF BackTo, Leads
            <4>3. PerfOK(r.doc, list[i])
                BY <3>1, <4>2, PerfGrows
            <4>4. Acted(r.doc, list[i], s, TRUE) /\ s.act = list[i]
                BY <4>2, <4>3, UndoOneActs
            <4> HIDE DEF s
            <4>5. Leads(r.doc, s.doc)
                BY <4>4 DEF Acted, Leads
            <4>6. Leads(d, s.doc)
                BY <3>2, <4>5, LeadsOn DEF BackTo
            <4>7. [list EXCEPT ![i] = list[i]] = list
                BY <1>1
            <4>8. f[i] = [ok |-> s.ok, doc |-> s.doc, act |-> list, at |-> IF s.ok THEN i ELSE r.at]
                BY <4>1, <4>2, <4>4, <4>7 DEF Went
            <4>9. r.at \in (i + 1)..(n + 1)
                BY <3>2 DEF BackTo
            <4>10. BackTo(d, list, n, i, f[i])
                BY <1>1, <3>1, <4>6, <4>8, <4>9 DEF BackTo
            <4>11. QED
                BY <2>2, <4>10
        <3>4. CASE ~r.ok
            <4>1. f[i] = r
                BY <2>3, <3>1, <3>4 DEF FromStep
            <4> HIDE DEF r
            <4>2. r.at \in i..(n + 1) /\ r.at > i
                BY <1>1, <3>1, <3>2, <3>4 DEF BackTo
            <4>3. BackTo(d, list, n, i, f[i])
                BY <3>2, <3>4, <4>1, <4>2 DEF BackTo
            <4>4. QED
                BY <2>2, <4>3
        <3>5. QED
            BY <3>3, <3>4
    <2>6. QED
        BY <2>4, <2>5
<1>4. n \in 0..n /\ n + 1 - n = 1
    BY <1>1
<1>5. BackTo(d, list, n, 1, f[1])
    <2>1. n \notin S
        BY <1>3
    <2>2. BackTo(d, list, n, n + 1 - n, f[n + 1 - n])
        BY <1>4, <2>1
    <2>3. QED
        BY <1>4, <2>2
<1>6. QED
    BY <1>2, <1>5

\* What an action of several does to a document and to its list.
SuperActed(d, list, ok, r) ==
    /\ Leads(d, r.doc)
    /\ ListOK(r.doc, r.act)
    /\ ok => \A i \in 1..Len(r.act) : PerfOK(r.doc, r.act[i])

\* The list is performed, or what was done of it is undone.
LEMMA RolledBackActs ==
    ASSUME NEW d, Wired(d), NEW list, ListOK(d, list),
           \A i \in 1..Len(list) : Makes(list[i]) => Room(d, 1),
           NEW r, r = PerformUpTo(list, d)
    PROVE  SuperActed(d, list, r.ok, RolledBack(r))
<1>1. RanTo(d, list, Len(list), r)
    BY PerformUpToRan
<1>2. Len(list) \in Nat /\ IsSeq(r.act) /\ Len(r.act) = Len(list)
    BY <1>1, SeqIff DEF ListOK, RanTo
<1>3. CASE r.ok
    <2>1. r.at = Len(list)
        BY <1>1, <1>3 DEF RanTo
    <2>2. \A i \in 1..Len(r.act) : PerfOK(r.doc, r.act[i])
        BY <1>1, <1>2, <2>1 DEF RanTo
    <2>3. QED
        BY <1>1, <1>3, <2>2 DEF SuperActed, RolledBack, RanTo
<1>4. CASE ~r.ok
    <2> DEFINE q == UndoDownFrom(r.act, r.at, r.doc)
    <2>1. r.at \in 0..Len(r.act) /\ Wired(r.doc)
        BY <1>1, <1>2 DEF RanTo, Leads
    <2>2. \A i \in 1..r.at : PerfOK(r.doc, r.act[i])
        <3>1. \A i \in 1..r.at : i \in 1..Len(list) /\ i <= r.at
            BY <1>2, <2>1
        <3>2. QED
            BY <1>1, <3>1 DEF RanTo
    <2>3. BackTo(r.doc, r.act, r.at, 1, q)
        BY <1>2, <2>1, <2>2, UndoDownFromRan
    <2> HIDE DEF q
    <2>4. Leads(r.doc, q.doc) /\ q.act = r.act
        BY <2>3 DEF BackTo
    <2>5. Leads(d, q.doc) /\ ListOK(q.doc, q.act)
        BY <1>1, <2>4, LeadsOn, ListGrows DEF RanTo, Leads
    <2>6. RolledBack(r) = q
        BY <1>4 DEF RolledBack, q
    <2>7. QED
        BY <1>4, <2>5, <2>6 DEF SuperActed
<1>5. QED
    BY <1>3, <1>4

\* The list is undone, or what was undone of it is performed again.
LEMMA RedoneFromActs ==
    ASSUME NEW d, Wired(d), NEW list, ListOK(d, list),
           \A i \in 1..Len(list) : PerfOK(d, list[i]),
           NEW r, r = UndoDownFrom(list, Len(list), d)
    PROVE  SuperActed(d, list, TRUE, RedoneFrom(r))
<1> DEFINE n == Len(list)
<1>1. IsSeq(list) /\ n \in Nat /\ n \in 0..n /\ DOMAIN list = 1..n
    BY SeqIff DEF ListOK
<1>2. BackTo(d, list, n, 1, r)
    BY <1>1, UndoDownFromRan
<1>3. Leads(d, r.doc) /\ r.act = list /\ Wired(r.doc) /\ Grows(d, r.doc)
    BY <1>2 DEF BackTo, Leads
<1>4. ListOK(r.doc, list) /\ \A i \in 1..n : PerfOK(r.doc, list[i])
    BY <1>3, ListGrows, PerfGrows
<1>5. CASE r.ok
    BY <1>3, <1>4, <1>5 DEF SuperActed, RedoneFrom
<1>6. CASE ~r.ok
    <2> DEFINE k == r.at
               front == SubSeq(list, 1, k - 1)
               rest == SubSeq(list, k, n)
               again == PerformUpTo(rest, r.doc)
               all == front \o again.act
    <2>1. k \in 2..(n + 1)
        BY <1>1, <1>2, <1>6 DEF BackTo
    <2>2. list \in Seq(Range(list)) /\ \A i \in 1..n : list[i] \in Range(list)
        BY <1>1 DEF IsSeq, Range
    <2>3. IsSeq(rest) /\ Len(rest) = n + 1 - k /\ \A i \in 1..(n + 1 - k) : rest[i] = list[i + k - 1] /\ i + k - 1 \in 1..n
        <3>1. k \in Int /\ n \in Int /\ \A i \in k..n : i \in 1..n
            BY <1>1, <2>1
        <3>2. \A i \in k..n : list[i] \in Range(list)
            BY <2>2, <3>1
        <3>3. rest \in Seq(Range(list)) /\ Len(rest) = (IF k <= n THEN n - k + 1 ELSE 0)
              /\ \A i \in 1..(n - k + 1) : rest[i] = list[k + i - 1]
            BY <3>1, <3>2, SubSeqProperties
        <3> HIDE DEF rest
        <3>4. Len(rest) = n + 1 - k /\ n + 1 - k \in Nat /\ n - k + 1 = n + 1 - k
            BY <1>1, <2>1, <3>3
        <3>5. rest = [i \in 1..(n + 1 - k) |-> rest[i]]
            BY <3>3, <3>4, LenProperties
        <3>6. IsSeq(rest)
            BY <3>4, <3>5, SeqIff
        <3>7. \A i \in 1..(n + 1 - k) : k + i - 1 = i + k - 1 /\ i + k - 1 \in 1..n
            BY <1>1, <2>1
        <3>8. QED
            BY <3>3, <3>4, <3>6, <3>7
    <2>4. IsSeq(front) /\ Len(front) = k - 1 /\ \A i \in 1..(k - 1) : front[i] = list[i] /\ i \in 1..n
        <3>1. 1 \in Int /\ k - 1 \in Int /\ 1 <= k - 1 /\ k - 1 \in Nat /\ k - 1 - 1 + 1 = k - 1
              /\ \A i \in 1..(k - 1) : i \in 1..n /\ 1 + i - 1 = i
            BY <1>1, <2>1
        <3>2. \A i \in 1..(k - 1) : list[i] \in Range(list)
            BY <2>2, <3>1
        <3>3. front \in Seq(Range(list)) /\ Len(front) = (IF 1 <= k - 1 THEN k - 1 - 1 + 1 ELSE 0)
              /\ \A i \in 1..(k - 1 - 1 + 1) : front[i] = list[1 + i - 1]
            BY <3>1, <3>2, SubSeqProperties
        <3> HIDE DEF front
        <3>4. Len(front) = k - 1
            BY <3>1, <3>3
        <3>5. front = [i \in 1..(k - 1) |-> front[i]]
            BY <3>3, <3>4, LenProperties
        <3>6. IsSeq(front)
            BY <3>1, <3>5, SeqIff
        <3>7. QED
            BY <3>1, <3>3, <3>4, <3>6
    <2> HIDE DEF front, rest
    <2>5. \A i \in 1..Len(rest) : RawOK(r.doc, rest[i]) /\ rest[i].name # "WaypointRemove" /\ ~Makes(rest[i])
                                    /\ PerfOK(r.doc, rest[i])
        <3>1. ASSUME NEW i \in 1..Len(rest)
              PROVE  rest[i] = list[i + k - 1] /\ i + k - 1 \in 1..n /\ n # 1
            BY <1>1, <2>1, <2>3
        <3>2. QED
            BY <1>4, <3>1 DEF ListOK
    <2>6. ListOK(r.doc, rest)
        BY <2>3, <2>5 DEF ListOK
    <2>7. RanTo(r.doc, rest, Len(rest), again)
        BY <1>3, <2>5, <2>6, PerformUpToRan
    <2> HIDE DEF again
    <2>8. /\ Leads(r.doc, again.doc) /\ IsSeq(again.act) /\ Len(again.act) = n + 1 - k
          /\ ListOK(again.doc, again.act)
          /\ \A i \in 1..(n + 1 - k) : PerfOK(again.doc, again.act[i]) /\ ~Makes(again.act[i])
          /\ DOMAIN again = {"ok", "doc", "act", "at"}
        BY <2>3, <2>5, <2>7 DEF RanTo, ListOK
    <2>9. Leads(d, again.doc) /\ Grows(r.doc, again.doc)
        BY <1>3, <2>8, LeadsOn DEF Leads
    <2>10. IsSeq(all) /\ Len(all) = n
           /\ \A i \in 1..n : all[i] = IF i <= k - 1 THEN front[i] ELSE again.act[i - (k - 1)]
        <3>1. Len(front) = k - 1 /\ Len(again.act) = n + 1 - k /\ k - 1 + (n + 1 - k) = n
            BY <1>1, <2>1, <2>4, <2>8
        <3>2. all = [i \in 1..n |-> IF i <= k - 1 THEN front[i] ELSE again.act[i - (k - 1)]]
            BY <3>1, <2>4, <2>8 DEF IsSeq
        <3>3. all = [i \in 1..n |-> all[i]]
            BY <3>2
        <3>4. QED
            BY <1>1, <3>2, <3>3, SeqIff
    <2> HIDE DEF all
    <2>11. ASSUME NEW i \in 1..n
           PROVE  PerfOK(again.doc, all[i]) /\ RawOK(again.doc, all[i]) /\ all[i].name # "WaypointRemove"
                  /\ (Makes(all[i]) => n = 1)
        <3>1. CASE i <= k - 1
            <4>1. all[i] = list[i]
                BY <1>1, <2>1, <2>4, <2>10, <3>1
            <4>2. PerfOK(again.doc, list[i])
                BY <1>4, <2>9, PerfGrows
            <4>3. QED
                BY <1>4, <4>1, <4>2 DEF PerfOK, ListOK
        <3>2. CASE ~(i <= k - 1)
            <4>1. i - (k - 1) \in 1..(n + 1 - k) /\ all[i] = again.act[i - (k - 1)]
                BY <1>1, <2>1, <2>10, <3>2
            <4>2. PerfOK(again.doc, all[i]) /\ RawOK(again.doc, all[i]) /\ all[i].name # "WaypointRemove"
                  /\ ~Makes(all[i])
                BY <2>8, <4>1 DEF ListOK
            <4>3. QED
                BY <4>2
        <3>3. QED
            BY <3>1, <3>2
    <2>12. ListOK(again.doc, all)
        BY <2>10, <2>11 DEF ListOK
    <2>13. RedoneFrom(r) = [again EXCEPT !.act = all]
        BY <1>3, <1>6 DEF RedoneFrom, again, all, front, rest
    <2>14. QED
        BY <2>8, <2>9, <2>10, <2>11, <2>12, <2>13 DEF SuperActed
<1>7. QED
    BY <1>5, <1>6

-----------------------------------------------------------------------------
(***************************************************************************)
(* Actions on a place.                                                     *)
(***************************************************************************)

\* What is fit for a document is fit for one that has more.
LEMMA AllGrow ==
    ASSUME NEW d, NEW e, Grows(d, e)
    PROVE  /\ \A place : PlaceOK(d, place) => PlaceOK(e, place)
           /\ \A a : ReadyOK(d, a) => ReadyOK(e, a)
           /\ \A a : UndoneOK(d, a) => UndoneOK(e, a)
           /\ \A a : DoneOK(d, a) => DoneOK(e, a)
<1>1. Nodes(d) \subseteq Nodes(e) /\ Of(d, "switch") \subseteq Of(e, "switch") /\ Of(d, "animated") \subseteq Of(e, "animated")
    BY GrowsFit
<1>2. ASSUME NEW place, PlaceOK(d, place)
      PROVE  PlaceOK(e, place)
    BY <1>1, <1>2 DEF PlaceOK
<1>3. ASSUME NEW a, ReadyOK(d, a)
      PROVE  ReadyOK(e, a)
    BY <1>1, <1>2, <1>3 DEF ReadyOK
<1>4. ASSUME NEW a, UndoneOK(d, a)
      PROVE  UndoneOK(e, a)
    BY <1>3, <1>4, ListGrows, RawGrows DEF UndoneOK
<1>5. ASSUME NEW a, DoneOK(d, a)
      PROVE  DoneOK(e, a)
    BY <1>4, <1>5, PerfGrows DEF DoneOK
<1>6. QED
    BY <1>2, <1>3, <1>4, <1>5

\* There is a node at a place, or none; there always is one where a link is.
LEMMA NodeAtIs ==
    ASSUME NEW d, Wired(d), NEW place, PlaceOK(d, place)
    PROVE  /\ NodeAt(d, place) \in Nodes(d) \union {None}
           /\ place.kind = "link" => NodeAt(d, place) \in Nodes(d)
           /\ place.kind \in {"param", "link", "export"}
<1>1. CASE place.kind = "param" /\ place = Param(place.param) /\ place.param \in Params
    BY <1>1 DEF NodeAt, Wired, Typed
<1>2. CASE /\ place.kind = "link"
           /\ place = Link(place.node, place.index)
           /\ place.node \in Of(d, "switch")
           /\ place.index \in Links
    <2>1. place.node \in Objects /\ d.node[place.node].kind = "switch"
        BY <1>2 DEF Of
    <2>2. d.node[place.node].links \in [Links -> Nodes(d)]
        BY <2>1, KindOK DEF Wired, SwitchOK
    <2>3. d.node[place.node].links[place.index] \in Nodes(d)
        BY <1>2, <2>2
    <2>4. QED
        BY <1>2, <2>3 DEF NodeAt
<1>3. CASE place.kind = "export" /\ place = Export(place.id)
    <2>1. Named(d, place.id) \subseteq Nodes(d)
        BY DEF Named, Wired, Typed
    <2>2. ByName(d, place.id) \in Nodes(d) \union {None}
        BY <2>1 DEF ByName
    <2>3. QED
        BY <1>3, <2>2 DEF NodeAt
<1>4. QED
    BY <1>1, <1>2, <1>3 DEF PlaceOK

\* A list of actions that make nothing.
Plain(d, list) ==
    /\ IsSeq(list)
    /\ \A i \in 1..Len(list) : RawOK(d, list[i]) /\ list[i].name # "WaypointRemove" /\ ~Makes(list[i])

\* Such a list is made one by one.
LEMMA PlainAppend ==
    ASSUME NEW d
    PROVE  /\ Plain(d, <<>>)
           /\ \A list, x : Plain(d, list) /\ RawOK(d, x) /\ x.name # "WaypointRemove" /\ ~Makes(x) => Plain(d, Append(list, x))
<1>1. Plain(d, <<>>)
    <2>1. <<>> = [i \in 1..0 |-> <<>>[i]] /\ 0 \in Nat
        OBVIOUS
    <2>2. IsSeq(<<>>) /\ Len(<<>>) = 0
        BY <2>1, SeqIff
    <2>3. QED
        BY <2>2 DEF Plain
<1>2. ASSUME NEW list, NEW x, Plain(d, list), RawOK(d, x), x.name # "WaypointRemove", ~Makes(x)
      PROVE  Plain(d, Append(list, x))
    <2> DEFINE s == Append(list, x)
               n == Len(list)
    <2>1. IsSeq(list) /\ n \in Nat /\ n + 1 \in Nat
        BY <1>2, SeqIff DEF Plain
    <2>2. /\ Len(s) = n + 1
          /\ s \in Seq(Range(list) \union {x})
          /\ \A i \in 1..n : s[i] = list[i]
          /\ s[n + 1] = x
        <3>1. list \in Seq(Range(list) \union {x})
            BY <2>1 DEF IsSeq
        <3>2. QED
            BY <3>1, AppendProperties
    <2> HIDE DEF s
    <2>3. s = [i \in 1..(n + 1) |-> s[i]]
        BY <2>2, LenProperties
    <2>4. IsSeq(s) /\ Len(s) = n + 1
        BY <2>1, <2>3, SeqIff
    <2>5. ASSUME NEW i \in 1..(n + 1)
          PROVE  RawOK(d, s[i]) /\ s[i].name # "WaypointRemove" /\ ~Makes(s[i])
        <3>1. CASE i = n + 1
            <4>1. s[i] = x
                BY <2>2, <3>1
            <4>2. QED
                BY <1>2, <4>1
        <3>2. CASE i # n + 1
            <4>1. i \in 1..n /\ s[i] = list[i]
                BY <2>1, <2>2, <3>2
            <4>2. QED
                BY <1>2, <4>1 DEF Plain
        <3>3. QED
            BY <3>1, <3>2
    <2>6. QED
        BY <2>4, <2>5 DEF Plain, s
<1>3. QED
    BY <1>1, <1>2

\* Of one, and of two.
LEMMA PlainOnes ==
    ASSUME NEW d, NEW x, RawOK(d, x), x.name # "WaypointRemove", ~Makes(x)
    PROVE  /\ Plain(d, <<x>>)
           /\ \A y : RawOK(d, y) /\ y.name # "WaypointRemove" /\ ~Makes(y) => Plain(d, <<x, y>>)
<1>1. Plain(d, <<x>>)
    <2>1. <<x>> = Append(<<>>, x)
        OBVIOUS
    <2>2. QED
        BY <2>1, PlainAppend
<1>2. ASSUME NEW y
      PROVE  <<x, y>> = Append(<<x>>, y)
    OBVIOUS
<1>3. QED
    BY <1>1, <1>2, PlainAppend

\* One list after another.
LEMMA PlainJoined ==
    ASSUME NEW d, NEW r, NEW s, Plain(d, r), Plain(d, s)
    PROVE  Plain(d, r \o s)
<1> DEFINE t == r \o s
           n == Len(r) + Len(s)
<1>1. Len(r) \in Nat /\ Len(s) \in Nat /\ n \in Nat /\ IsSeq(r) /\ IsSeq(s)
    BY SeqIff DEF Plain
<1>2. t \in Seq(Range(r) \union Range(s)) /\ Len(t) = n
      /\ \A i \in 1..n : t[i] = IF i <= Len(r) THEN r[i] ELSE s[i - Len(r)]
    <2>1. r \in Seq(Range(r) \union Range(s)) /\ s \in Seq(Range(r) \union Range(s))
        BY <1>1 DEF IsSeq
    <2>2. QED
        BY <2>1, ConcatProperties
<1> HIDE DEF t
<1>3. t = [i \in 1..n |-> t[i]]
    BY <1>2, LenProperties
<1>4. IsSeq(t) /\ Len(t) = n
    BY <1>1, <1>3, SeqIff
<1>5. ASSUME NEW i \in 1..n
      PROVE  RawOK(d, t[i]) /\ t[i].name # "WaypointRemove" /\ ~Makes(t[i])
    <2>1. CASE i <= Len(r)
        <3>1. i \in 1..Len(r) /\ t[i] = r[i]
            BY <1>1, <1>2, <2>1
        <3>2. QED
            BY <3>1 DEF Plain
    <2>2. CASE ~(i <= Len(r))
        <3>1. i - Len(r) \in 1..Len(s) /\ t[i] = s[i - Len(r)]
            BY <1>1, <1>2, <2>2
        <3>2. QED
            BY <3>1 DEF Plain
    <2>3. QED
        BY <2>1, <2>2
<1>6. QED
    BY <1>4, <1>5 DEF Plain, t

\* What a prepared action is: fit to be performed, with its list.
PrepOK(d, p) ==
    /\ Leads(d, p.doc)
    /\ ReadyOK(p.doc, p.act)
    /\ ListOK(p.doc, p.act.list)
    /\ \A i \in 1..Len(p.act.list) : Makes(p.act.list[i]) => Room(p.doc, 1)

\* A list is of no matter to what an action is.
LEMMA ReadyListed ==
    ASSUME NEW d, NEW a, ReadyOK(d, a), NEW list
    PROVE  /\ ReadyOK(d, [a EXCEPT !.list = list])
           /\ [a EXCEPT !.list = list].list = list
<1>1. a.name \in Supers /\ "list" \in DOMAIN a /\ "name" \in DOMAIN a
    BY DEF ReadyOK, Supers
<1>2. CASE a.name \in {"ValueDescConnect", "ValueDescConvert", "ValueDescDisconnect", "ValueDescExport"}
    BY <1>1, <1>2 DEF ReadyOK
<1>3. CASE a.name = "ValueDescLink"
    BY <1>1, <1>3 DEF ReadyOK
<1>4. CASE a.name = "ValueDescSet"
    BY <1>1, <1>4 DEF ReadyOK
<1>5. QED
    BY <1>1, <1>2, <1>3, <1>4 DEF Supers

\* With a plain list it is prepared.
LEMMA PlainListed ==
    ASSUME NEW d, NEW e, Leads(d, e), NEW a, ReadyOK(e, a), NEW list, Plain(e, list)
    PROVE  PrepOK(d, Listed(e, a, list))
<1> DEFINE b == [a EXCEPT !.list = list]
<1>1. ReadyOK(e, b) /\ b.list = list
    BY ReadyListed
<1>2. Listed(e, a, list).doc = e /\ Listed(e, a, list).act = b
    BY DEF Listed, OK
<1> HIDE DEF b
<1>3. ListOK(e, list)
    BY DEF Plain, ListOK
<1>4. QED
    BY <1>1, <1>2, <1>3 DEF PrepOK, Plain

\* So is one that cannot be: its list is empty.
LEMMA UnreadyOK ==
    ASSUME NEW d, Wired(d), NEW a, ReadyOK(d, a)
    PROVE  PrepOK(d, Unready(d, a))
<1>1. Plain(d, <<>>) /\ Leads(d, d)
    BY PlainAppend, LeadsSame
<1>2. PrepOK(d, Listed(d, a, <<>>))
    BY <1>1, PlainListed
<1>3. QED
    BY <1>2 DEF PrepOK, Listed, Unready, OK, Throw

\* How a node is put in a place.
LEMMA ConnectOK ==
    ASSUME NEW d, Wired(d), NEW place, PlaceOK(d, place), NEW n \in Nodes(d),
           place.kind = "export" => NodeAt(d, place) \in Nodes(d)
    PROVE  LET x == Connect(d, place, n) IN RawOK(d, x) /\ x.name # "WaypointRemove" /\ ~Makes(x)
<1>1. CASE place.kind = "param"
    <2>1. place.param \in Params
        BY <1>1 DEF PlaceOK
    <2>2. RawOK(d, LayerParamConnect(place.param, n))
        BY <2>1 DEF RawOK, LayerParamConnect, Singles
    <2>3. QED
        BY <1>1, <2>2 DEF Connect, LayerParamConnect, Makes
<1>2. CASE place.kind = "link"
    <2>1. place.node \in Of(d, "switch") /\ place.index \in Links
        BY <1>2 DEF PlaceOK
    <2>2. RawOK(d, ValueNodeLinkConnect(place.node, place.index, n))
        BY <2>1 DEF RawOK, ValueNodeLinkConnect, Singles
    <2>3. QED
        BY <1>2, <2>2 DEF Connect, ValueNodeLinkConnect, Makes
<1>3. CASE place.kind = "export"
    <2>1. RawOK(d, ValueNodeReplace(NodeAt(d, place), n))
        BY <1>3 DEF RawOK, ValueNodeReplace, Singles
    <2>2. QED
        BY <1>3, <2>1 DEF Connect, ValueNodeReplace, Makes
<1>4. QED
    BY <1>1, <1>2, <1>3, NodeAtIs

\* A new switch of a node.
LEMMA SwitchLeads ==
    ASSUME NEW d, Wired(d), Room(d, 1), NEW c \in Nodes(d)
    PROVE  LET s == Fresh(d)
               e == AddChild(Created(d, Switch(c)), s, c)
           IN  Leads(d, e) /\ s \in Nodes(e)
<1> DEFINE s == Fresh(d)
           o == Switch(c)
           b == Created(d, o)
           e == AddChild(b, s, c)
<1>1. s \in Objects /\ d.node[s] = Free /\ s \notin Layers
    BY FreshIs, Things
<1>2. /\ o.kind = "switch" /\ o.links = [i \in Links |-> c] /\ ObjectOK(d, o)
    BY DEF Switch, ObjectOK, SwitchOK
<1> HIDE DEF o
<1>3. /\ IsDoc(b) /\ b.dyn = d.dyn /\ b.users = d.users /\ b.list = d.list /\ b.stale = d.stale /\ b.times = d.times /\ b.left = d.left
      /\ b.node = [n \in Objects |-> IF n = s THEN o ELSE d.node[n]]
      /\ Grows(d, b)
    BY CreatedFields DEF Wired
<1>4. c \in Objects /\ DOMAIN d.users = Objects
    BY Things DEF Wired, Typed
<1> HIDE DEF b, s
<1>5. /\ IsDoc(e) /\ e.dyn = d.dyn /\ e.list = d.list /\ e.stale = d.stale /\ e.times = d.times /\ e.left = d.left
      /\ e.node = [n \in Objects |-> IF n = s THEN o ELSE d.node[n]]
      /\ e.users = [n \in Objects |-> IF n = c THEN d.users[n] \union {s} ELSE d.users[n]]
    <2>1. /\ IsDoc(e) /\ e.dyn = b.dyn /\ e.list = b.list /\ e.stale = b.stale /\ e.times = b.times /\ e.left = b.left /\ e.node = b.node
          /\ e.users = [b.users EXCEPT ![c] = b.users[c] \union {s}]
        BY <1>3 DEF AddChild, IsDoc
    <2>2. d.users = [n \in Objects |-> d.users[n]]
        BY DEF Wired, Typed
    <2> HIDE DEF e
    <2>3. QED
        BY <1>3, <1>4, <2>1, <2>2
<1> HIDE DEF e
<1>6. Grows(d, e)
    BY <1>3, <1>5 DEF Grows
<1>7. Nodes(d) \subseteq Nodes(e) /\ Of(e, "free") \subseteq Of(d, "free") /\ \A x : ObjectOK(d, x) => ObjectOK(e, x)
    BY <1>6, GrowsFit
<1>8. \A n \in Objects : ObjectOK(e, e.node[n])
    BY <1>2, <1>5, <1>7 DEF Wired, Typed
<1>9. Typed(e)
    <2>1. e.users \in [Objects -> SUBSET (Objects \union Layers)]
        BY <1>1, <1>5 DEF Wired, Typed
    <2>2. e.node = [n \in Objects |-> e.node[n]]
        BY <1>5
    <2>3. QED
        BY <1>5, <1>7, <1>8, <2>1, <2>2 DEF Wired, Typed
<1>10. Children(e, s) = {c}
    <2>1. e.node[s] = o
        BY <1>1, <1>5
    <2>2. \E i : i \in Links
        BY DEF Links
    <2>3. Range(o.links) = {c}
        BY <1>2, <2>2 DEF Range
    <2>4. QED
        BY <1>1, <1>2, <2>1, <2>3 DEF Children
<1>11. Children(d, s) = {} /\ d.users[s] = {} /\ s \in d.stale /\ s # c
    BY <1>1, FreeUnused DEF Children, Free
<1>12. ASSUME NEW x \in Objects \union Layers, x # s
       PROVE  Children(e, x) = Children(d, x) /\ OwnTimes(e, x) = OwnTimes(d, x)
    <2>1. CASE x \in Layers
        BY <1>5, <2>1 DEF Children, OwnTimes
    <2>2. CASE x \notin Layers
        BY <1>5, <1>12, <2>2 DEF Children, OwnTimes
    <2>3. QED
        BY <2>1, <2>2
<1>13. OwnTimes(e, s) = OwnTimes(d, s)
    BY <1>1, <1>2, <1>5 DEF OwnTimes, Free
<1>14. ASSUME NEW n \in Objects, NEW x \in Objects \union Layers
       PROVE  Knows(e, n, x)
    <2>1. Knows(d, n, x)
        BY UsersIff DEF Wired
    <2>2. CASE x = s
        <3>1. s \notin d.left
            BY <1>1, NotLeft
        <3>2. QED
            BY <1>5, <1>10, <1>11, <2>1, <2>2, <3>1 DEF Knows
    <2>3. CASE x # s
        BY <1>5, <1>12, <2>1, <2>3 DEF Knows
    <2>4. QED
        BY <2>2, <2>3
<1>15. Wired(e)
    BY <1>9, <1>14, UsersIff DEF Wired
<1>16. {s} \union Users(e, s) \subseteq e.stale
    BY <1>1, <1>5, <1>11 DEF Users
<1>17. TimesTrue(d) => TimesTrue(e)
    <2>1. \A y \in Objects \union Layers : OwnTimes(e, y) = OwnTimes(d, y) \/ Above(e, y) \subseteq e.stale
        BY <1>12, <1>13
    <2>2. \A y \in Objects \union Layers : Children(e, y) = Children(d, y) \/ {y} \union Users(e, y) \subseteq e.stale
        BY <1>12, <1>16
    <2>3. QED
        BY <1>5, <1>15, <2>1, <2>2, CacheKept
<1>18. s \in Nodes(e)
    BY <1>1, <1>2, <1>5 DEF Nodes, Of
<1>19. QED
    BY <1>6, <1>15, <1>17, <1>18 DEF Leads, e, b, s, o

\* A new constant, with room for one more where there was room for two.
LEMMA ConstLeads ==
    ASSUME NEW d, Wired(d), Room(d, 2), NEW v
    PROVE  LET e == Created(d, Const(v))
           IN  Leads(d, e) /\ Fresh(d) \in Nodes(e) /\ Room(e, 1)
<1> DEFINE o == Const(v)
<1>1. ObjectOK(d, o) /\ o.kind = "const"
    BY DEF ObjectOK, Const
<1> HIDE DEF o
<1>2. Leads(d, Created(d, o)) /\ Fresh(d) \in Of(Created(d, o), "const")
    BY <1>1, RoomOne, CreatedLeads
<1>3. Room(Created(d, o), 1)
    BY <1>1, CreatedRoom DEF Wired
<1>4. QED
    BY <1>2, <1>3 DEF Nodes, o

\* A node is put in a place of a document that came of another.
LEMMA ConnectListed ==
    ASSUME NEW d, Wired(d), NEW e, Leads(d, e), NEW a, ReadyOK(d, a), NEW place, PlaceOK(d, place), NEW n \in Nodes(e),
           place.kind = "export" => NodeAt(d, place) \in Nodes(d)
    PROVE  PrepOK(d, Listed(e, a, <<Connect(d, place, n)>>))
<1> DEFINE x == Connect(d, place, n)
<1>1. Wired(e) /\ Grows(d, e)
    BY DEF Leads
<1>2. ReadyOK(e, a) /\ PlaceOK(e, place) /\ Nodes(d) \subseteq Nodes(e)
    BY <1>1, AllGrow, GrowsFit
<1>3. RawOK(e, x) /\ x.name # "WaypointRemove" /\ ~Makes(x)
    <2>1. CASE place.kind = "export"
        <3>1. NodeAt(d, place) \in Nodes(e)
            BY <1>2, <2>1
        <3>2. x = ValueNodeReplace(NodeAt(d, place), n)
            BY <2>1 DEF Connect
        <3>3. QED
            BY <3>1, <3>2 DEF RawOK, ValueNodeReplace, Singles, Makes
    <2>2. CASE place.kind # "export"
        <3>1. x = Connect(e, place, n)
            BY <2>2, NodeAtIs DEF Connect
        <3>2. QED
            BY <1>1, <1>2, <2>2, <3>1, ConnectOK
    <2>3. QED
        BY <2>1, <2>2
<1> HIDE DEF x
<1>4. Plain(e, <<x>>)
    BY <1>3, PlainOnes
<1>5. QED
    BY <1>2, <1>4, PlainListed DEF x

\* A place is converted to a switch.
LEMMA PrepareConvertOK ==
    ASSUME NEW d, Wired(d), Room(d, 2), NEW a, ReadyOK(d, a), PlaceOK(d, a.place),
           a.place.kind = "export" => NodeAt(d, a.place) \in Nodes(d)
    PROVE  PrepOK(d, PrepareConvert(a, d))
<1> DEFINE c == Fresh(d)
           e == Created(d, Const(ValueAt(d, a.place, a.time)))
           s == Fresh(e)
           f == AddChild(Created(e, Switch(c)), s, c)
<1>1. Leads(d, e) /\ c \in Nodes(e) /\ Room(e, 1)
    BY ConstLeads
<1> HIDE DEF e, c
<1>2. Leads(e, f) /\ s \in Nodes(f)
    BY <1>1, SwitchLeads DEF Leads
<1>3. Leads(d, f)
    BY <1>1, <1>2, LeadsOn
<1> HIDE DEF f, s
<1>4. PrepOK(d, Listed(f, a, <<Connect(d, a.place, s)>>))
    BY <1>2, <1>3, ConnectListed
<1>5. QED
    BY <1>4 DEF PrepareConvert, f, s, e, c

\* A place is disconnected.
LEMMA PrepareDisconnectOK ==
    ASSUME NEW d, Wired(d), Room(d, 2), NEW a, ReadyOK(d, a), PlaceOK(d, a.place),
           a.place.kind = "export" => NodeAt(d, a.place) \in Nodes(d)
    PROVE  PrepOK(d, PrepareDisconnect(a, d))
<1>1. Leads(d, d)
    BY LeadsSame
<1>2. CASE a.place.kind = "param"
    <2> DEFINE x == LayerParamDisconnect(a.place.param, a.time)
    <2>1. RawOK(d, x) /\ x.name # "WaypointRemove" /\ ~Makes(x)
        BY <1>2 DEF PlaceOK, RawOK, LayerParamDisconnect, Singles, Makes
    <2> HIDE DEF x
    <2>2. PrepOK(d, Listed(d, a, <<x>>))
        BY <1>1, <2>1, PlainOnes, PlainListed
    <2>3. QED
        BY <1>2, <2>2 DEF PrepareDisconnect, x
<1>3. CASE a.place.kind = "link"
    <2> DEFINE x == ValueNodeLinkDisconnect(a.place.node, a.place.index, a.time)
               list == <<x>>
               b == [a EXCEPT !.list = list]
    <2>1. RawOK(d, x) /\ x.name # "WaypointRemove"
        BY <1>3 DEF PlaceOK, RawOK, ValueNodeLinkDisconnect, Singles
    <2> HIDE DEF x
    <2>2. IsSeq(list) /\ Len(list) = 1 /\ list[1] = x
        <3>1. list = [i \in 1..1 |-> list[i]] /\ 1 \in Nat /\ list[1] = x
            OBVIOUS
        <3> HIDE DEF list
        <3>2. QED
            BY <3>1, SeqIff
    <2> HIDE DEF list
    <2>3. ListOK(d, list)
        BY <2>1, <2>2 DEF ListOK
    <2>4. ReadyOK(d, b) /\ b.list = list
        BY ReadyListed
    <2>5. Listed(d, a, list).doc = d /\ Listed(d, a, list).act = b
        BY DEF Listed, OK
    <2> HIDE DEF b
    <2>6. PrepOK(d, Listed(d, a, list))
        BY <1>1, <2>3, <2>4, <2>5, RoomOne DEF PrepOK
    <2>7. QED
        BY <1>3, <2>6 DEF PrepareDisconnect, x, list
<1>4. CASE a.place.kind = "export"
    <2> DEFINE e == Created(d, Const(ValueAt(d, a.place, a.time)))
               x == ValueNodeReplace(NodeAt(d, a.place), Fresh(d))
    <2>1. Leads(d, e) /\ Fresh(d) \in Nodes(e)
        BY ConstLeads
    <2>2. PrepOK(d, Listed(e, a, <<Connect(d, a.place, Fresh(d))>>))
        BY <1>4, <2>1, ConnectListed
    <2>3. Connect(d, a.place, Fresh(d)) = x
        BY <1>4 DEF Connect
    <2>4. PrepareDisconnect(a, d) = Listed(e, a, <<x>>)
        BY <1>4 DEF PrepareDisconnect
    <2>5. QED
        BY <2>2, <2>3, <2>4
<1>5. QED
    BY <1>2, <1>3, <1>4, NodeAtIs

\* A place is exported.
LEMMA PrepareExportOK ==
    ASSUME NEW d, Wired(d), Room(d, 2), NEW a, ReadyOK(d, a), PlaceOK(d, a.place),
           a.place.kind = "export" => NodeAt(d, a.place) \in Nodes(d)
    PROVE  PrepOK(d, PrepareExport(a, d))
<1> DEFINE n == NodeAt(d, a.place)
<1>1. CASE n = None
    <2> DEFINE e == Created(d, Const(ValueAt(d, a.place, 0)))
               x == ValueNodeAdd(Fresh(d), a.id)
               y == LayerParamConnect(a.place.param, Fresh(d))
    <2>1. Leads(d, e) /\ Fresh(d) \in Nodes(e)
        BY ConstLeads
    <2> HIDE DEF e
    <2>2. a.place.kind = "param" /\ a.place.param \in Params
        <3>1. None \notin Nodes(d)
            BY Things
        <3>2. QED
            BY <1>1, <3>1, NodeAtIs DEF PlaceOK
    <2>3. RawOK(e, x) /\ x.name # "WaypointRemove" /\ ~Makes(x)
        BY <2>1 DEF RawOK, ValueNodeAdd, Singles, Makes
    <2>4. RawOK(e, y) /\ y.name # "WaypointRemove" /\ ~Makes(y)
        BY <2>1, <2>2 DEF RawOK, LayerParamConnect, Singles, Makes
    <2> HIDE DEF x, y
    <2>5. Plain(e, <<x, y>>)
        BY <2>3, <2>4, PlainOnes
    <2>6. ReadyOK(e, a)
        BY <2>1, AllGrow DEF Leads
    <2>7. PrepOK(d, Listed(e, a, <<x, y>>))
        BY <2>1, <2>5, <2>6, PlainListed
    <2>8. QED
        BY <1>1, <2>7 DEF PrepareExport, e, x, y
<1>2. CASE n # None
    <2> DEFINE x == ValueNodeAdd(n, a.id)
    <2>1. n \in Nodes(d)
        BY <1>2, NodeAtIs
    <2>2. RawOK(d, x) /\ x.name # "WaypointRemove" /\ ~Makes(x)
        BY <2>1 DEF RawOK, ValueNodeAdd, Singles, Makes
    <2> HIDE DEF x
    <2>3. PrepOK(d, Listed(d, a, <<x>>))
        BY <2>2, LeadsSame, PlainOnes, PlainListed
    <2>4. PrepareExport(a, d) = Unready(d, a) \/ PrepareExport(a, d) = Listed(d, a, <<x>>)
        BY <1>2 DEF PrepareExport, x
    <2>5. QED
        BY <2>3, <2>4, UnreadyOK
<1>3. QED
    BY <1>1, <1>2

\* The list that links places to a node is defined by recursion too.
OthersStep(d, a, n, k, f) ==
    IF k = 0 THEN <<>>
    ELSE IF NodeAt(d, a.places[k]) = None \/ (NodeAt(d, a.places[k]) # n /\ ~Exported(d, NodeAt(d, a.places[k])))
      THEN <<Connect(d, a.places[k], n)>> \o f[k - 1]
    ELSE f[k - 1]
Others(d, a, n, m, f) == f = [k \in 0..m |-> OthersStep(d, a, n, k, f)]

\* From one place to the next.
LEMMA OthersNext ==
    ASSUME NEW d, NEW a, NEW n, NEW m \in Nat, NEW f, Others(d, a, n, m, f)
    PROVE  \E g : Others(d, a, n, m + 1, g)
<1> DEFINE g == [k \in 0..(m + 1) |-> IF k = m + 1 THEN OthersStep(d, a, n, m + 1, f) ELSE f[k]]
<1>1. ASSUME NEW k \in 0..(m + 1)
      PROVE  g[k] = OthersStep(d, a, n, k, g)
    <2>1. CASE k = 0
        <3>1. f[0] = OthersStep(d, a, n, 0, f)
            BY DEF Others
        <3>2. g[0] = f[0]
            OBVIOUS
        <3>3. QED
            BY <2>1, <3>1, <3>2 DEF OthersStep
    <2>2. CASE k # 0
        <3>1. k - 1 \in 0..m /\ k - 1 # m + 1 /\ k - 1 \in 0..(m + 1)
            BY <2>2
        <3>2. g[k - 1] = f[k - 1]
            BY <3>1
        <3>3. g[k] = OthersStep(d, a, n, k, f)
            <4>1. CASE k = m + 1
                BY <4>1
            <4>2. CASE k # m + 1
                <5>1. k \in 0..m
                    BY <4>2
                <5>2. f[k] = OthersStep(d, a, n, k, f)
                    BY <5>1 DEF Others
                <5>3. QED
                    BY <4>2, <5>2
            <4>3. QED
                BY <4>1, <4>2
        <3> HIDE DEF g
        <3>4. QED
            BY <2>2, <3>2, <3>3 DEF OthersStep
    <2>3. QED
        BY <2>1, <2>2
<1>2. g = [k \in 0..(m + 1) |-> g[k]]
    OBVIOUS
<1> HIDE DEF g
<1>3. Others(d, a, n, m + 1, g)
    BY <1>1, <1>2 DEF Others
<1>4. QED
    BY <1>3

\* To the last.
LEMMA OthersExists ==
    ASSUME NEW d, NEW a, NEW n, NEW m \in Nat
    PROVE  \E f : Others(d, a, n, m, f)
<1> DEFINE S == {k \in Nat : ~\E f : Others(d, a, n, k, f)}
<1> SUFFICES ASSUME m \in S PROVE FALSE
    OBVIOUS
<1>1. PICK k \in S : \A j \in S : k <= j
    BY LeastExists
<1>2. k # 0
    <2> DEFINE f == [i \in 0..0 |-> <<>>]
    <2>1. f = [i \in 0..0 |-> OthersStep(d, a, n, i, f)]
        BY DEF OthersStep
    <2>2. Others(d, a, n, 0, f)
        BY <2>1 DEF Others
    <2>3. QED
        BY <2>2
<1>3. k - 1 \in Nat /\ ~(k <= k - 1) /\ k - 1 + 1 = k
    BY <1>2
<1>4. PICK f : Others(d, a, n, k - 1, f)
    BY <1>1, <1>3
<1>5. \E g : Others(d, a, n, k, g)
    BY <1>3, <1>4, OthersNext
<1>6. QED
    BY <1>5

\* Each connects a parameter, or a link.
LEMMA OthersPlain ==
    ASSUME NEW d, Wired(d), NEW e, Leads(d, e), NEW a, ReadyOK(d, a), a.name = "ValueDescLink", NEW n \in Nodes(e),
           NEW m \in 0..Len(a.places), NEW f, Others(d, a, n, m, f)
    PROVE  Plain(e, f[m])
<1>1. /\ Wired(e) /\ Grows(d, e)
      /\ IsSeq(a.places) /\ Len(a.places) \in Nat
      /\ \A i \in 1..Len(a.places) : PlaceOK(d, a.places[i]) /\ a.places[i].kind # "export"
    BY SeqIff DEF ReadyOK, Leads
<1> DEFINE S == {k \in 0..m : ~Plain(e, f[k])}
<1>2. S = {}
    <2> SUFFICES ASSUME S # {} PROVE FALSE
        OBVIOUS
    <2>0. m \in Nat /\ S \in SUBSET Nat
        BY <1>1
    <2>1. PICK k \in S : \A j \in S : k <= j
        BY <2>0, LeastExists
    <2>2. k \in 0..m /\ ~Plain(e, f[k]) /\ f[k] = OthersStep(d, a, n, k, f)
        BY <2>1 DEF Others
    <2>3. CASE k = 0
        <3>1. f[k] = <<>>
            BY <2>2, <2>3 DEF OthersStep
        <3>2. QED
            BY <2>2, <3>1, PlainAppend
    <2>4. CASE k # 0
        <3>1. k - 1 \in 0..m /\ ~(k <= k - 1) /\ k \in 1..Len(a.places)
            BY <1>1, <2>0, <2>2, <2>4
        <3>2. Plain(e, f[k - 1])
            BY <2>1, <3>1
        <3> DEFINE place == a.places[k]
                   x == Connect(d, place, n)
        <3>3. PlaceOK(d, place) /\ place.kind # "export"
            BY <1>1, <3>1
        <3> HIDE DEF place
        <3>4. x = Connect(e, place, n) /\ PlaceOK(e, place)
            BY <1>1, <3>3, NodeAtIs, AllGrow DEF Connect
        <3>5. RawOK(e, x) /\ x.name # "WaypointRemove" /\ ~Makes(x)
            BY <1>1, <3>3, <3>4, ConnectOK
        <3> HIDE DEF x
        <3>6. Plain(e, <<x>>)
            BY <3>5, PlainOnes
        <3>7. Plain(e, <<x>> \o f[k - 1])
            BY <3>2, <3>6, PlainJoined
        <3>8. f[k] = <<x>> \o f[k - 1] \/ f[k] = f[k - 1]
            BY <2>2, <2>4 DEF OthersStep, x, place
        <3>9. QED
            BY <2>2, <3>2, <3>7, <3>8
    <2>5. QED
        BY <2>3, <2>4
<1>3. m \in 0..m
    BY <1>1
<1>4. QED
    BY <1>2, <1>3

\* Places are linked to one node.
LEMMA PrepareLinkOK ==
    ASSUME NEW d, Wired(d), Room(d, 2), NEW a, ReadyOK(d, a), a.name = "ValueDescLink"
    PROVE  PrepOK(d, PrepareLink(a, d))
<1> DEFINE make == a.node = None
           n == IF make THEN Fresh(d) ELSE a.node
           c == Created(d, Const(ValueAt(d, Last(a.places), 0)))
           e == IF make THEN c ELSE d
           b == [a EXCEPT !.node = n]
           last == IF make THEN <<Connect(d, Last(a.places), n)>> ELSE <<>>
           len == Len(a.places)
           others == CHOOSE f : f = [k \in 0..len |->
             IF k = 0 THEN <<>>
             ELSE IF NodeAt(d, a.places[k]) = None \/ (NodeAt(d, a.places[k]) # n /\ ~Exported(d, NodeAt(d, a.places[k])))
               THEN <<Connect(d, a.places[k], n)>> \o f[k - 1]
             ELSE f[k - 1]]
<1>1. PrepareLink(a, d) = Listed(e, b, others[len] \o last)
    BY Zenon DEF PrepareLink
<1>2. /\ DOMAIN a = {"name", "places", "node", "list"}
      /\ IsSeq(a.places) /\ a.places # <<>>
      /\ \A i \in 1..Len(a.places) : PlaceOK(d, a.places[i]) /\ a.places[i].kind # "export"
      /\ a.node \in Nodes(d) \union {None}
    BY DEF ReadyOK
<1>3. len \in Nat /\ len \in 0..len /\ len \in 1..len
    <2>1. len \in Nat
        BY <1>2, SeqIff
    <2>2. len # 0
        BY <1>2, EmptySeq DEF IsSeq
    <2>3. QED
        BY <2>1, <2>2
<1>4. Leads(d, e) /\ n \in Nodes(e)
    <2>1. CASE make
        <3>1. Leads(d, c) /\ Fresh(d) \in Nodes(c)
            BY ConstLeads
        <3>2. QED
            BY <2>1, <3>1
    <2>2. CASE ~make
        BY <1>2, <2>2, LeadsSame
    <2>3. QED
        BY <2>1, <2>2
<1> HIDE DEF e, n
<1>5. Others(d, a, n, len, others)
    <2>1. PICK f : Others(d, a, n, len, f)
        BY <1>3, OthersExists
    <2>2. f = [k \in 0..len |->
             IF k = 0 THEN <<>>
             ELSE IF NodeAt(d, a.places[k]) = None \/ (NodeAt(d, a.places[k]) # n /\ ~Exported(d, NodeAt(d, a.places[k])))
               THEN <<Connect(d, a.places[k], n)>> \o f[k - 1]
             ELSE f[k - 1]]
        BY <2>1 DEF Others, OthersStep
    <2>3. others = [k \in 0..len |->
             IF k = 0 THEN <<>>
             ELSE IF NodeAt(d, a.places[k]) = None \/ (NodeAt(d, a.places[k]) # n /\ ~Exported(d, NodeAt(d, a.places[k])))
               THEN <<Connect(d, a.places[k], n)>> \o others[k - 1]
             ELSE others[k - 1]]
        BY <2>2, Zenon
    <2> HIDE DEF others
    <2>4. QED
        BY <2>3 DEF Others, OthersStep
<1> HIDE DEF others
<1>6. Plain(e, others[len])
    BY <1>3, <1>4, <1>5, OthersPlain
<1>7. Plain(e, last)
    <2>1. CASE make
        <3> DEFINE place == Last(a.places)
                   x == Connect(d, place, n)
        <3>1. PlaceOK(d, place) /\ place.kind # "export"
            BY <1>2, <1>3 DEF Last
        <3> HIDE DEF place
        <3>2. Wired(e) /\ Grows(d, e)
            BY <1>4 DEF Leads
        <3>3. x = Connect(e, place, n) /\ PlaceOK(e, place)
            BY <3>1, <3>2, NodeAtIs, AllGrow DEF Connect
        <3>4. RawOK(e, x) /\ x.name # "WaypointRemove" /\ ~Makes(x)
            BY <1>4, <3>1, <3>2, <3>3, ConnectOK
        <3> HIDE DEF x
        <3>5. Plain(e, <<x>>)
            BY <3>4, PlainOnes
        <3>6. last = <<x>>
            BY <2>1 DEF x, place
        <3>7. QED
            BY <3>5, <3>6
    <2>2. CASE ~make
        BY <2>2, PlainAppend
    <2>3. QED
        BY <2>1, <2>2
<1> HIDE DEF last
<1>8. Plain(e, others[len] \o last)
    BY <1>6, <1>7, PlainJoined
<1>9. ReadyOK(e, b)
    <2>1. ReadyOK(e, a)
        BY <1>4, AllGrow DEF Leads
    <2>2. DOMAIN b = DOMAIN a /\ b.name = a.name /\ b.places = a.places /\ b.node = n
        BY <1>2
    <2> HIDE DEF b
    <2>3. QED
        BY <1>2, <1>4, <2>1, <2>2 DEF ReadyOK, Supers
<1>10. QED
    BY <1>1, <1>4, <1>8, <1>9, PlainListed

\* An action that is to make animated remembers by which node.
LEMMA ReadyAnimated ==
    ASSUME NEW d, NEW a, ReadyOK(d, a), a.name = "ValueDescSet", NEW n \in Of(d, "animated") \union {None},
           NEW b, b = [a EXCEPT !.animated = n]
    PROVE  ReadyOK(d, b) /\ b.animated = n /\ b.name = a.name /\ b.time = a.time /\ b.place = a.place /\ b.new = a.new
<1>1. /\ DOMAIN a = {"name", "place", "new", "time", "animate", "animated", "list"}
      /\ PlaceOK(d, a.place) /\ a.time \in Times
    BY DEF ReadyOK
<1>2. DOMAIN b = DOMAIN a /\ b.animated = n /\ b.name = a.name /\ b.time = a.time /\ b.place = a.place /\ b.new = a.new
    BY <1>1
<1>3. QED
    BY <1>1, <1>2 DEF ReadyOK, Supers

\* The value of an animated node is set at a time.
LEMMA SetAnimatedOK ==
    ASSUME NEW d, Wired(d), NEW e, Leads(d, e), NEW a, ReadyOK(e, a), a.name = "ValueDescSet",
           NEW n \in Of(e, "animated"), NEW list, Plain(e, list), a.time \in DOMAIN Points(e, n) \/ Room(e, 1)
    PROVE  PrepOK(d, SetAnimated(a, e, n, list))
<1> DEFINE b == [a EXCEPT !.animated = n]
<1>1. Wired(e) /\ a.time \in Times /\ n \in Objects /\ e.node[n].kind = "animated"
    BY DEF Leads, ReadyOK, Of
<1>2. ReadyOK(e, b)
    BY ReadyAnimated
<1> HIDE DEF b
<1>3. CASE a.time \in DOMAIN Points(e, n)
    <2> DEFINE w == Points(e, n)[a.time]
               x == WaypointSet(n, w, a.new)
    <2>1. AnimatedOK(e, e.node[n])
        BY <1>1, KindOK DEF Wired
    <2>2. w \in Of(e, "waypoint")
        BY <1>3, <2>1 DEF AnimatedOK, Points
    <2> HIDE DEF w
    <2>3. RawOK(e, x) /\ x.name # "WaypointRemove" /\ ~Makes(x)
        BY <2>2 DEF RawOK, WaypointSet, Singles, Makes
    <2> HIDE DEF x
    <2>4. Plain(e, Append(list, x))
        BY <2>3, PlainAppend
    <2>5. PrepOK(d, Listed(e, b, Append(list, x)))
        BY <1>2, <2>4, PlainListed
    <2>6. QED
        BY <1>3, <2>5 DEF SetAnimated, b, x, w
<1>4. CASE a.time \notin DOMAIN Points(e, n)
    <2> DEFINE o == Waypoint(a.new)
               f == Created(e, o)
               w == Fresh(e)
               x == WaypointAdd(n, w, a.time)
    <2>1. ObjectOK(e, o) /\ o.kind = "waypoint"
        BY DEF ObjectOK, Waypoint
    <2> HIDE DEF o
    <2>2. Leads(e, f) /\ w \in Of(f, "waypoint")
        BY <1>1, <1>4, <2>1, CreatedLeads
    <2>3. Leads(d, f)
        BY <2>2, LeadsOn
    <2> HIDE DEF f, w
    <2>4. n \in Of(f, "animated")
        BY <2>2, GrowsFit DEF Leads
    <2>5. RawOK(f, x) /\ x.name # "WaypointRemove" /\ ~Makes(x)
        BY <1>1, <2>2, <2>4 DEF RawOK, WaypointAdd, Singles, Makes
    <2> HIDE DEF x
    <2>6. Plain(f, list)
        BY <2>2, RawGrows DEF Plain, Leads
    <2>7. Plain(f, Append(list, x))
        BY <2>5, <2>6, PlainAppend
    <2>8. ReadyOK(f, b)
        BY <1>2, <2>2, AllGrow DEF Leads
    <2>9. PrepOK(d, Listed(f, b, Append(list, x)))
        BY <2>3, <2>7, <2>8, PlainListed
    <2>10. QED
        BY <1>4, <2>9 DEF SetAnimated, b, x, w, f, o
<1>5. QED
    BY <1>3, <1>4

\* What becomes of a place whose node, or own value, is made animated.
Become(d, place, x) ==
    IF NodeAt(d, place) = None THEN Connect(d, place, x) ELSE ValueNodeReplace(NodeAt(d, place), x)

\* It is one action.
LEMMA BecomeOK ==
    ASSUME NEW d, Wired(d), NEW e, Leads(d, e), NEW place, PlaceOK(d, place),
           place.kind = "export" => NodeAt(d, place) \in Nodes(d),
           NEW n \in Nodes(e)
    PROVE  Plain(e, <<Become(d, place, n)>>)
<1> DEFINE x == Become(d, place, n)
<1>1. Wired(e) /\ Nodes(d) \subseteq Nodes(e) /\ PlaceOK(e, place)
    BY GrowsFit, AllGrow DEF Leads
<1>2. RawOK(e, x) /\ x.name # "WaypointRemove" /\ ~Makes(x)
    <2>1. CASE NodeAt(d, place) # None
        <3>1. NodeAt(d, place) \in Nodes(e)
            BY <1>1, <2>1, NodeAtIs
        <3>2. QED
            BY <2>1, <3>1 DEF Become, RawOK, ValueNodeReplace, Singles, Makes
    <2>2. CASE NodeAt(d, place) = None
        <3>1. place.kind # "export"
            BY <2>2, Things
        <3>2. x = Connect(e, place, n)
            BY <2>2, <3>1, NodeAtIs DEF Become, Connect
        <3>3. QED
            BY <1>1, <3>1, <3>2, ConnectOK
    <2>3. QED
        BY <2>1, <2>2
<1> HIDE DEF x
<1>3. Plain(e, <<x>>)
    BY <1>2, PlainOnes
<1>4. QED
    BY <1>3 DEF x

\* The value of a place is set at a time, and it is made animated for that.
LEMMA PrepareAnimateOK ==
    ASSUME NEW d, Wired(d), Room(d, 2), NEW a, ReadyOK(d, a), a.name = "ValueDescSet",
           a.place.kind = "export" => NodeAt(d, a.place) \in Nodes(d)
    PROVE  PrepOK(d, PrepareAnimate(a, d))
<1> DEFINE m == NodeAt(d, a.place)
           n == a.animated
           w == Fresh(d)
           o == Waypoint(ValueAt(d, a.place, a.time))
           e == Created(d, o)
           q == Animated([t \in {a.time} |-> w])
           f == Created(e, q)
           s == Fresh(e)
           x == Become(d, a.place, s)
           y == Become(d, a.place, n)
           b == [a EXCEPT !.animated = None]
<1>1. PlaceOK(d, a.place) /\ a.time \in Times /\ n \in Of(d, "animated") \union {None}
    BY DEF ReadyOK
<1>2. Leads(d, d)
    BY LeadsSame
<1>3. CASE Is(d, m, "animated")
    <2>1. m \in Of(d, "animated")
        <3>1. m \in Objects
            BY <1>1, <1>3, NodeAtIs, Things DEF Is
        <3>2. QED
            BY <1>3, <3>1 DEF Is, Of
    <2>2. PrepOK(d, SetAnimated(a, d, m, <<>>))
        BY <1>2, <2>1, PlainAppend, RoomOne, SetAnimatedOK
    <2>3. QED
        BY <1>3, <2>2 DEF PrepareAnimate
<1>4. ReadyOK(d, b)
    BY ReadyAnimated
<1> HIDE DEF b
<1>5. PrepOK(d, Unready(d, b)) /\ PrepOK(d, Unready(d, a))
    BY <1>4, UnreadyOK
<1>6. ASSUME n # None, a.time \in DOMAIN Points(d, n)
      PROVE  PrepOK(d, SetAnimated(a, d, n, <<y>>))
    <2>1. n \in Of(d, "animated") /\ n \in Nodes(d)
        BY <1>1, <1>6 DEF Nodes
    <2> HIDE DEF n
    <2>2. Plain(d, <<y>>)
        BY <1>1, <1>2, <2>1, BecomeOK
    <2> HIDE DEF y
    <2>3. QED
        BY <1>2, <1>6, <2>1, <2>2, SetAnimatedOK DEF n
<1>7. PrepOK(d, SetAnimated(a, f, s, <<x>>))
    <2>1. ObjectOK(d, o) /\ o.kind = "waypoint"
        BY DEF ObjectOK, Waypoint
    <2> HIDE DEF o
    <2>2. Leads(d, e) /\ w \in Of(e, "waypoint") /\ Room(e, 1)
        BY <2>1, RoomOne, CreatedLeads, CreatedRoom DEF Wired
    <2> HIDE DEF e, w
    <2>3. ObjectOK(e, q) /\ q.kind = "animated" /\ q.points = [t \in {a.time} |-> w]
        BY <1>1, <2>2 DEF ObjectOK, AnimatedOK, Animated
    <2> HIDE DEF q
    <2>4. Leads(e, f) /\ s \in Of(f, "animated")
        BY <2>2, <2>3, CreatedLeads DEF Leads
    <2>5. f.node[s] = q
        <3>1. s \in Objects /\ Typed(e)
            BY <2>2, FreshIs DEF Leads, Wired
        <3>2. f.node = [k \in Objects |-> IF k = s THEN q ELSE e.node[k]]
            BY <2>2, <3>1, CreatedFields
        <3> HIDE DEF f, s
        <3>3. QED
            BY <3>1, <3>2
    <2>6. Leads(d, f)
        BY <2>2, <2>4, LeadsOn
    <2> HIDE DEF f, s
    <2>7. s \in Nodes(f)
        BY <2>4 DEF Nodes
    <2>8. Plain(f, <<x>>)
        BY <1>1, <2>6, <2>7, BecomeOK
    <2> HIDE DEF x
    <2>9. a.time \in DOMAIN Points(f, s)
        BY <2>3, <2>5 DEF Points
    <2>10. ReadyOK(f, a)
        BY <2>6, AllGrow DEF Leads
    <2>11. QED
        BY <2>4, <2>6, <2>8, <2>9, <2>10, SetAnimatedOK
<1>8. PrepareAnimate(a, d) =
        IF Is(d, m, "animated") THEN SetAnimated(a, d, m, <<>>)
        ELSE IF Is(d, m, "switch") THEN Unready(d, b)
        ELSE IF n = None THEN SetAnimated(a, f, s, <<x>>)
        ELSE IF a.time \notin DOMAIN Points(d, n) THEN Unready(d, a)
        ELSE SetAnimated(a, d, n, <<y>>)
    BY Zenon DEF PrepareAnimate, Become, b
<1> HIDE DEF m, n, w, o, e, q, f, s, x, y
<1>9. QED
    BY <1>3, <1>5, <1>6, <1>7, <1>8

\* The times of an animated node, one by one.
LEMMA TimesInTurn ==
    ASSUME NEW S \in SUBSET Times, NEW s, s = SetToSeq(S)
    PROVE  \E k \in Nat : DOMAIN s = 1..k /\ \A i \in 1..k : s[i] \in S
<1>1. IsFiniteSet(S)
    <2>1. IsFiniteSet(0..1)
        <3>1. \A a, b \in Int : IsFiniteSet(a..b)
            BY FS_Interval
        <3>2. 0 \in Int /\ 1 \in Int
            OBVIOUS
        <3>3. QED
            BY <3>1, <3>2, Zenon
    <2>2. S \subseteq 0..1
        BY DEF Times
    <2>3. QED
        BY <2>1, <2>2, FS_Subset
<1> DEFINE k == Cardinality(S)
<1>2. k \in Nat /\ ExistsBijection(1..k, S)
    BY <1>1, FS_CardinalityType
<1> HIDE DEF k
<1>3. \E f \in [1..k -> S] : IsInjective(f)
    BY <1>2 DEF ExistsBijection, Bijection, Injection
<1>4. s \in [1..k -> S]
    BY <1>3, Zenon DEF SetToSeq, k
<1>5. QED
    BY <1>2, <1>4

\* The value of a place is set.
LEMMA PrepareSetOK ==
    ASSUME NEW d, Wired(d), Room(d, 2), NEW a, ReadyOK(d, a), a.name = "ValueDescSet",
           a.place.kind = "export" => NodeAt(d, a.place) \in Nodes(d)
    PROVE  PrepOK(d, PrepareSet(a, d))
<1> DEFINE n == NodeAt(d, a.place)
           times == SetToSeq(DOMAIN Points(d, n))
           Moved(t) == (d.node[Points(d, n)[t]].value + a.new + MaxValue + 1 - Value(d, n, a.time)) % (MaxValue + 1)
           list == [i \in DOMAIN times |-> WaypointSet(n, Points(d, n)[times[i]], Moved(times[i]))]
<1>0. PrepareSet(a, d) =
        IF n = None THEN Listed(d, a, <<LayerParamSet(a.place.param, a.new)>>)
        ELSE IF Is(d, n, "const") THEN Listed(d, a, <<ValueNodeConstSet(n, a.new)>>)
        ELSE IF Is(d, n, "switch") THEN Unready(d, a)
        ELSE Listed(d, a, list)
    BY DEF PrepareSet
<1>1. PlaceOK(d, a.place) /\ Leads(d, d)
    BY LeadsSame DEF ReadyOK
<1>2. CASE n = None
    <2> DEFINE x == LayerParamSet(a.place.param, a.new)
    <2>1. a.place.kind = "param" /\ a.place.param \in Params
        <3>1. None \notin Nodes(d)
            BY Things
        <3>2. QED
            BY <1>1, <1>2, <3>1, NodeAtIs DEF PlaceOK
    <2>2. RawOK(d, x) /\ x.name # "WaypointRemove" /\ ~Makes(x)
        BY <2>1 DEF RawOK, LayerParamSet, Singles, Makes
    <2> HIDE DEF x
    <2>3. PrepOK(d, Listed(d, a, <<x>>))
        BY <1>1, <2>2, PlainOnes, PlainListed
    <2>4. QED
        BY <1>0, <1>2, <2>3 DEF x
<1>3. CASE n # None /\ d.node[n].kind = "const"
    <2> DEFINE x == ValueNodeConstSet(n, a.new)
    <2>1. n \in Of(d, "const")
        BY <1>1, <1>3, NodeAtIs, Things DEF Of
    <2>2. RawOK(d, x) /\ x.name # "WaypointRemove" /\ ~Makes(x)
        BY <2>1 DEF RawOK, ValueNodeConstSet, Singles, Makes
    <2> HIDE DEF x
    <2>3. PrepOK(d, Listed(d, a, <<x>>))
        BY <1>1, <2>2, PlainOnes, PlainListed
    <2>4. QED
        BY <1>0, <1>3, <2>3 DEF Is, x
<1>4. CASE n # None /\ d.node[n].kind = "switch"
    BY <1>0, <1>4, UnreadyOK DEF Is
<1>5. CASE n # None /\ d.node[n].kind \notin {"const", "switch"}
    <2>1. n \in Of(d, "animated") /\ n \in Objects /\ d.node[n].kind = "animated"
        BY <1>1, <1>5, NodeAtIs, Things DEF Nodes, Of
    <2>2. AnimatedOK(d, d.node[n])
        BY <2>1, KindOK DEF Wired
    <2>3. DOMAIN Points(d, n) \in SUBSET Times /\ \A t \in DOMAIN Points(d, n) : Points(d, n)[t] \in Of(d, "waypoint")
        BY <2>2 DEF AnimatedOK, Points
    <2>4. PICK k \in Nat : DOMAIN times = 1..k /\ \A i \in 1..k : times[i] \in DOMAIN Points(d, n)
        BY <2>3, TimesInTurn
    <2> HIDE DEF times, Moved
    <2>5. list = [i \in 1..k |-> list[i]]
          /\ \A i \in 1..k : list[i] = WaypointSet(n, Points(d, n)[times[i]], Moved(times[i]))
        BY <2>4
    <2> HIDE DEF list
    <2>6. IsSeq(list) /\ Len(list) = k
        BY <2>5, SeqIff
    <2>7. ASSUME NEW i \in 1..k
          PROVE  RawOK(d, list[i]) /\ list[i].name # "WaypointRemove" /\ ~Makes(list[i])
        <3> DEFINE w == Points(d, n)[times[i]]
                   v == Moved(times[i])
        <3>1. w \in Of(d, "waypoint")
            BY <2>3, <2>4
        <3>2. list[i] = WaypointSet(n, w, v)
            BY <2>5
        <3> HIDE DEF w, v, n
        <3>3. QED
            BY <2>1, <3>1, <3>2 DEF RawOK, WaypointSet, Singles, Makes
    <2>8. Plain(d, list)
        BY <2>6, <2>7 DEF Plain
    <2>9. PrepOK(d, Listed(d, a, list))
        BY <1>1, <2>8, PlainListed
    <2>10. QED
        BY <1>0, <1>5, <2>9 DEF Is
<1>6. QED
    BY <1>2, <1>3, <1>4, <1>5

\* Whatever an action on a place prepares.
LEMMA PreparedOK ==
    ASSUME NEW d, Wired(d), Room(d, 2), NEW a, ReadyOK(d, a)
    PROVE  PrepOK(d, Prepared(a, d))
<1>1. CASE a.name = "ValueDescLink"
    BY <1>1, PrepareLinkOK DEF Prepared
<1>2. CASE a.name # "ValueDescLink"
    <2>1. PlaceOK(d, a.place)
        BY <1>2 DEF ReadyOK, Supers
    <2>2. CASE a.place.kind = "export" /\ NodeAt(d, a.place) = None
        BY <1>2, <2>2, UnreadyOK DEF Prepared
    <2>3. CASE ~(a.place.kind = "export" /\ NodeAt(d, a.place) = None)
        <3>1. a.place.kind = "export" => NodeAt(d, a.place) \in Nodes(d)
            BY <2>1, <2>3, NodeAtIs
        <3>2. CASE a.name = "ValueDescConnect"
            <4>1. a.node \in Nodes(d)
                BY <3>2 DEF ReadyOK
            <4>2. PrepOK(d, Listed(d, a, <<Connect(d, a.place, a.node)>>))
                BY <2>1, <3>1, <4>1, LeadsSame, ConnectListed
            <4>3. QED
                BY <2>3, <3>2, <4>2 DEF Prepared
        <3>3. CASE a.name = "ValueDescConvert"
            BY <2>1, <2>3, <3>1, <3>3, PrepareConvertOK DEF Prepared
        <3>4. CASE a.name = "ValueDescDisconnect"
            BY <2>1, <2>3, <3>1, <3>4, PrepareDisconnectOK DEF Prepared
        <3>5. CASE a.name = "ValueDescExport"
            BY <2>1, <2>3, <3>1, <3>5, PrepareExportOK DEF Prepared
        <3>6. CASE a.name = "ValueDescSet"
            <4>1. Prepared(a, d) = IF a.animate THEN PrepareAnimate(a, d) ELSE PrepareSet(a, d)
                BY <2>3, <3>6 DEF Prepared
            <4>2. QED
                BY <3>1, <3>6, <4>1, PrepareAnimateOK, PrepareSetOK
        <3>7. QED
            BY <1>2, <3>2, <3>3, <3>4, <3>5, <3>6 DEF ReadyOK, Supers
    <2>4. QED
        BY <2>2, <2>3
<1>3. QED
    BY <1>1, <1>2

-----------------------------------------------------------------------------
(***************************************************************************)
(* Any action, performed or undone.                                        *)
(***************************************************************************)

\* An action that may be performed: one on a place, or one of those the user calls by themselves.
Fit(d, a) ==
    IF a.name \in Supers THEN ReadyOK(d, a)
    ELSE RawOK(d, a) /\ a.name \in {"WaypointRemove", "ValueNodeRemove", "ValueNodeRename"}

\* The list of an action of several is what has become of it.
LEMMA SuperResultIs ==
    ASSUME NEW d, NEW a, ReadyOK(d, a), NEW ok, NEW list, NEW r, SuperActed(d, list, ok, r)
    PROVE  LET s == SuperResult(a, ok, r)
           IN  /\ s.ok = ok /\ Leads(d, s.doc) /\ s.act.name \in Supers
               /\ UndoneOK(s.doc, s.act)
               /\ ok => DoneOK(s.doc, s.act)
<1> DEFINE b == [a EXCEPT !.list = r.act]
           s == SuperResult(a, ok, r)
<1>1. s.ok = ok /\ s.doc = r.doc /\ s.act = b
    BY DEF SuperResult
<1>2. ReadyOK(d, b) /\ b.list = r.act
    BY ReadyListed
<1> HIDE DEF b, s
<1>3. Leads(d, r.doc) /\ ListOK(r.doc, r.act) /\ (ok => \A i \in 1..Len(r.act) : PerfOK(r.doc, r.act[i]))
    BY DEF SuperActed
<1>4. ReadyOK(r.doc, b)
    BY <1>2, <1>3, AllGrow DEF Leads
<1>5. b.name \in Supers
    BY <1>4 DEF ReadyOK
<1>6. UndoneOK(r.doc, b) /\ (ok => DoneOK(r.doc, b))
    BY <1>2, <1>3, <1>4, <1>5 DEF UndoneOK, DoneOK
<1>7. QED
    BY <1>1, <1>3, <1>5, <1>6 DEF s

\* Performing leads to a sound document, and an action that may be undone, or done again.
LEMMA PerformActs ==
    ASSUME NEW d, Wired(d), Room(d, 2), NEW a, Fit(d, a),
           NEW r, r = Perform(a, d)
    PROVE  /\ Wired(r.doc) /\ Grows(d, r.doc)
           /\ Finishes(d, a) /\ TimesTrue(d) => TimesTrue(r.doc)
           /\ UndoneOK(r.doc, r.act)
           /\ r.ok => DoneOK(r.doc, r.act)
<1>1. CASE a.name \notin Supers
    <2>1. r = PerformOne(a, d)
        BY <1>1 DEF Perform
    <2>2. Acted(d, a, r, Finishes(d, a))
        BY <1>1, <2>1, RoomOne, PerformOneActs DEF Fit
    <2> HIDE DEF Perform
    <2>3. r.act.name = a.name /\ r.act.name \notin Supers
          /\ r.act.name \in {"WaypointRemove", "ValueNodeRemove", "ValueNodeRename"}
        BY <1>1, <2>2 DEF Acted, Fit
    <2>4. UndoneOK(r.doc, r.act)
        BY <2>2, <2>3 DEF UndoneOK, Acted
    <2>5. r.ok => DoneOK(r.doc, r.act)
        BY <2>2, <2>3, <2>4 DEF DoneOK, Acted
    <2>6. QED
        BY <2>2, <2>4, <2>5 DEF Acted
<1>2. CASE a.name \in Supers
    <2> DEFINE p == Prepared(a, d)
    <2>1. r = PerformPrepared(p)
        BY <1>2 DEF Perform
    <2>2. ReadyOK(d, a)
        BY <1>2 DEF Fit
    <2>3. PrepOK(d, p)
        BY <2>2, PreparedOK
    <2>4. a.name # "WaypointRemove"
        BY <1>2 DEF Supers
    <2> HIDE DEF p
    <2>5. Leads(d, p.doc) /\ ReadyOK(p.doc, p.act) /\ Wired(p.doc)
        BY <2>3 DEF PrepOK, Leads
    <2>6. CASE ~p.ok
        <3>1. r = p
            BY <2>1, <2>6 DEF PerformPrepared
        <3>2. UndoneOK(p.doc, p.act)
            BY <2>3, <2>5 DEF UndoneOK, PrepOK, ReadyOK
        <3>3. QED
            BY <2>5, <2>6, <3>1, <3>2 DEF Leads
    <2>7. CASE p.ok
        <3> DEFINE q == PerformUpTo(p.act.list, p.doc)
        <3>1. r = SuperResult(p.act, q.ok, RolledBack(q))
            BY <2>1, <2>7 DEF PerformPrepared, SuperPerform
        <3>2. SuperActed(p.doc, p.act.list, q.ok, RolledBack(q))
            BY <2>3, <2>5, RolledBackActs DEF PrepOK
        <3> HIDE DEF q
        <3>3. /\ r.ok = q.ok /\ Leads(p.doc, r.doc)
              /\ UndoneOK(r.doc, r.act)
              /\ q.ok => DoneOK(r.doc, r.act)
            BY <2>5, <3>1, <3>2, SuperResultIs
        <3>4. Leads(d, r.doc)
            BY <2>5, <3>3, LeadsOn
        <3>5. QED
            BY <3>3, <3>4 DEF Leads
    <2>8. QED
        BY <2>6, <2>7
<1>3. QED
    BY <1>1, <1>2

\* So does undoing what was done, or it is as it was.
LEMMA UndoActs ==
    ASSUME NEW d, Wired(d), NEW a, DoneOK(d, a), NEW r, r = UndoAct(a, d)
    PROVE  Leads(d, r.doc) /\ UndoneOK(r.doc, r.act) /\ DoneOK(r.doc, r.act)
<1>1. CASE a.name \notin Supers
    <2>1. r = UndoOne(a, d)
        BY <1>1 DEF UndoAct
    <2>2. PerfOK(d, a) /\ UndoneOK(d, a)
        BY <1>1 DEF DoneOK
    <2>3. Acted(d, a, r, TRUE) /\ r.act = a
        BY <2>1, <2>2, UndoOneActs
    <2>4. Leads(d, r.doc)
        BY <2>3 DEF Acted, Leads
    <2>5. DoneOK(r.doc, a) /\ UndoneOK(r.doc, a)
        BY <2>4, AllGrow DEF Leads, DoneOK
    <2>6. QED
        BY <2>3, <2>4, <2>5
<1>2. CASE a.name \in Supers
    <2> DEFINE q == UndoDownFrom(a.list, Len(a.list), d)
    <2>1. r = SuperResult(a, q.ok, RedoneFrom(q))
        BY <1>2 DEF UndoAct, SuperUndo
    <2>2. ReadyOK(d, a) /\ ListOK(d, a.list) /\ \A i \in 1..Len(a.list) : PerfOK(d, a.list[i])
        BY <1>2 DEF DoneOK, UndoneOK
    <2>3. SuperActed(d, a.list, TRUE, RedoneFrom(q))
        BY <2>2, RedoneFromActs
    <2> HIDE DEF q
    <2> DEFINE s == SuperResult(a, TRUE, RedoneFrom(q))
    <2>4. Leads(d, s.doc) /\ UndoneOK(s.doc, s.act) /\ DoneOK(s.doc, s.act)
        BY <2>2, <2>3, SuperResultIs
    <2>5. r.doc = s.doc /\ r.act = s.act
        BY <2>1 DEF SuperResult
    <2>6. QED
        BY <2>4, <2>5
<1>3. QED
    BY <1>1, <1>2

-----------------------------------------------------------------------------
(***************************************************************************)
(* What is left when nobody holds on to it.                                *)
(***************************************************************************)

\* Under a switch there are leaves, and nothing is under these.
LEMMA FlatBelow ==
    ASSUME NEW d, Wired(d), Flat(d), NEW y \in Objects, NEW z \in Children(d, y)
    PROVE  z \in Objects /\ Children(d, z) = {}
<1>1. z \in Objects /\ z \notin Layers /\ y \notin Layers
    BY ChildKnows, Things
<1>2. d.node[y].kind = "switch" /\ \E i \in Links : d.node[y].links[i] = z
    BY ChildIff DEF Wired
<1>3. ~Is(d, z, "switch")
    BY <1>2, Things DEF Flat, Is
<1>4. d.node[z].kind # "switch"
    BY <1>1, <1>3, Things DEF Is
<1>5. QED
    BY <1>1, <1>4 DEF Children

\* The times of what is one step below come from there.
LEMMA TimesOfIs ==
    ASSUME NEW d, Wired(d), Flat(d), NEW x \in Objects \union Layers
    PROVE  TimesOf(d, x) = OwnTimes(d, x) \union UNION {TimesOf(d, y) : y \in Children(d, x)}
<1>1. ASSUME NEW t
      PROVE  t \in TimesOf(d, x) <=> t \in OwnTimes(d, x) \/ \E y \in Children(d, x) : t \in TimesOf(d, y)
    <2>0. \A u : t \in TimesOf(d, u) <=> \E z \in Below(d, {u}) : t \in OwnTimes(d, z)
        BY DEF TimesOf
    <2>1. ASSUME t \in TimesOf(d, x)
          PROVE  t \in OwnTimes(d, x) \/ \E y \in Children(d, x) : t \in TimesOf(d, y)
        <3>1. PICK z \in Below(d, {x}) : t \in OwnTimes(d, z)
            BY <2>0, <2>1
        <3>2. CASE z = x
            BY <3>1, <3>2
        <3>3. CASE z # x
            <4>1. \E y \in Children(d, x) : z \in Below(d, {y})
                BY <3>1, <3>3, BelowOne
            <4>2. QED
                BY <2>0, <3>1, <4>1
        <3>4. QED
            BY <3>2, <3>3
    <2>2. ASSUME t \in OwnTimes(d, x)
          PROVE  t \in TimesOf(d, x)
        BY <2>0, <2>2, BelowOne
    <2>3. ASSUME NEW y \in Children(d, x), t \in TimesOf(d, y)
          PROVE  t \in TimesOf(d, x)
        <3>1. PICK z \in Below(d, {y}) : t \in OwnTimes(d, z)
            BY <2>0, <2>3
        <3>2. y \in Objects
            BY ChildKnows
        <3>3. z = y \/ z \in Children(d, y)
            BY <3>1, <3>2, BelowOne, FlatBelow
        <3>4. z \in Below(d, {x})
            BY <3>3, BelowOne
        <3>5. QED
            BY <2>0, <3>1, <3>4
    <2>4. QED
        BY <2>1, <2>2, <2>3
<1>2. QED
    BY <1>1

\* What is linked, and what is left with it.
Reached(d, held) == Below(d, Layers \union d.list \union held)
Live(d, held) ==
    (Reached(d, held) \ Layers)
    \union UNION {Range(d.node[n].points) : n \in {m \in Reached(d, held) \ Layers : Is(d, m, "animated")}}

\* The rest is gone.
LEMMA CollectedFields ==
    ASSUME NEW d, Wired(d), NEW held, NEW e, e = Collected(d, held)
    PROVE  /\ IsDoc(e) /\ e.dyn = d.dyn /\ e.list = d.list /\ e.times = d.times /\ e.left = d.left
           /\ e.node = [n \in Objects |-> IF n \in Live(d, held) THEN d.node[n] ELSE Free]
           /\ e.users = [n \in Objects |-> IF n \in Live(d, held) THEN d.users[n] \ (Objects \ Live(d, held)) ELSE {}]
           /\ e.stale = d.stale \union (Objects \ Live(d, held))
<1> DEFINE live == Live(d, held)
           dead == Objects \ live
           node == [n \in Objects |-> IF n \in dead THEN Free ELSE d.node[n]]
           users == [n \in Objects |-> IF n \in dead THEN {} ELSE d.users[n] \ dead]
           id == [n \in Objects |-> IF n \in dead THEN NoId ELSE d.id[n]]
<1>1. e = [d EXCEPT !.node = node, !.users = users, !.id = id, !.stale = d.stale \union dead]
    BY DEF Collected, Live, Reached
<1>2. IsDoc(d)
    BY DEF Wired, Typed
<1> HIDE DEF live
<1>3. /\ node = [n \in Objects |-> IF n \in live THEN d.node[n] ELSE Free]
      /\ users = [n \in Objects |-> IF n \in live THEN d.users[n] \ dead ELSE {}]
    OBVIOUS
<1> HIDE DEF node, users, id, dead
<1>4. /\ IsDoc(e) /\ e.dyn = d.dyn /\ e.list = d.list /\ e.times = d.times /\ e.left = d.left
      /\ e.node = node /\ e.users = users /\ e.stale = d.stale \union dead
    BY <1>1, <1>2 DEF IsDoc
<1>5. QED
    BY <1>3, <1>4 DEF live, dead

\* Where no switch is a link of a switch, all that is linked is reached.
LEMMA ReachedClosed ==
    ASSUME NEW d, Wired(d), NEW held \in SUBSET Objects, NEW e, e = Collected(d, held), Flat(e)
    PROVE  /\ Layers \union d.list \union held \subseteq Reached(d, held)
           /\ Reached(d, held) \subseteq Objects \union Layers
           /\ \A x \in Reached(d, held) : Children(d, x) \subseteq Reached(d, held)
<1> DEFINE R == Reached(d, held)
           roots == Layers \union d.list \union held
<1>1. \A z : z \in R <=> z \in roots \/ (\E x \in roots : z \in Children(d, x))
                           \/ (\E x \in roots : \E y \in Children(d, x) : z \in Children(d, y))
    BY DEF Reached, Below, ChildrenOf
<1>2. roots \subseteq Objects \union Layers
    BY Things DEF Wired, Typed
<1>3. ASSUME NEW x \in roots, NEW y \in Children(d, x)
      PROVE  y \in Objects /\ y \notin Layers
    BY <1>2, <1>3, ChildKnows
<1>4. R \subseteq Objects \union Layers
    <2> SUFFICES ASSUME NEW z \in R PROVE z \in Objects \union Layers
        OBVIOUS
    <2>1. CASE z \in roots
        BY <1>2, <2>1
    <2>2. CASE \E x \in roots : z \in Children(d, x)
        BY <1>3, <2>2
    <2>3. CASE \E x \in roots : \E y \in Children(d, x) : z \in Children(d, y)
        BY <1>3, <2>3, ChildKnows
    <2>4. QED
        BY <1>1, <2>1, <2>2, <2>3
<1>5. /\ IsDoc(e) /\ e.dyn = d.dyn /\ e.list = d.list /\ e.times = d.times /\ e.left = d.left
      /\ e.node = [n \in Objects |-> IF n \in Live(d, held) THEN d.node[n] ELSE Free]
      /\ e.users = [n \in Objects |-> IF n \in Live(d, held) THEN d.users[n] \ (Objects \ Live(d, held)) ELSE {}]
      /\ e.stale = d.stale \union (Objects \ Live(d, held))
    <2> HIDE DEF R, roots
    <2>1. QED
        BY CollectedFields
<1>6. ASSUME NEW n \in Objects, n \in R
      PROVE  e.node[n] = d.node[n]
    <2>1. n \notin Layers
        BY Things
    <2>2. n \in Live(d, held)
        BY <1>6, <2>1 DEF Live
    <2>3. QED
        BY <1>5, <2>2
<1>7. ASSUME NEW x \in R, NEW z \in Children(d, x)
      PROVE  z \in R
    <2>1. CASE x \in roots
        BY <1>1, <1>7, <2>1
    <2>2. CASE \E u \in roots : x \in Children(d, u)
        BY <1>1, <1>7, <2>2
    <2>3. CASE \E u \in roots : \E y \in Children(d, u) : x \in Children(d, y)
        <3>1. PICK u \in roots : \E y \in Children(d, u) : x \in Children(d, y)
            BY <2>3
        <3>2. PICK y \in Children(d, u) : x \in Children(d, y)
            BY <3>1
        <3>3. y \in Objects /\ y \in R
            BY <1>1, <1>3
        <3>4. x \in Objects /\ x \in R /\ x # None /\ y # None
            BY <3>2, <3>3, ChildKnows, Things
        <3>5. d.node[y].kind = "switch" /\ \E i \in Links : d.node[y].links[i] = x
            BY <3>2, <3>3, ChildIff DEF Wired
        <3>6. d.node[x].kind = "switch"
            BY <1>7, <3>4, ChildIff DEF Wired
        <3>7. e.node[y] = d.node[y] /\ e.node[x] = d.node[x]
            BY <1>6, <3>3, <3>4
        <3>8. QED
            BY <3>3, <3>4, <3>5, <3>6, <3>7 DEF Flat, Is
    <2>4. QED
        BY <1>1, <2>1, <2>2, <2>3
<1>8. QED
    BY <1>1, <1>4, <1>7

\* Nothing that is left misses anything.
LEMMA CollectedWired ==
    ASSUME NEW d, Wired(d), NEW held \in SUBSET Objects, NEW e, e = Collected(d, held), Flat(e)
    PROVE  /\ Wired(e)
           /\ TimesTrue(d) => TimesTrue(e)
           /\ \A n \in held : e.node[n] = d.node[n]
<1> DEFINE R == Reached(d, held)
           live == Live(d, held)
           dead == Objects \ live
<1>1. /\ IsDoc(e) /\ e.dyn = d.dyn /\ e.list = d.list /\ e.times = d.times /\ e.left = d.left
      /\ e.node = [n \in Objects |-> IF n \in live THEN d.node[n] ELSE Free]
      /\ e.users = [n \in Objects |-> IF n \in live THEN d.users[n] \ dead ELSE {}]
      /\ e.stale = d.stale \union dead
    BY CollectedFields
<1>2. /\ Layers \union d.list \union held \subseteq R
      /\ R \subseteq Objects \union Layers
      /\ \A x \in R : Children(d, x) \subseteq R
    BY ReachedClosed
<1>3. R \intersect Objects \subseteq live
    BY Things DEF Live
<1>4. ASSUME NEW n \in Objects, n \in R, d.node[n].kind = "animated"
      PROVE  Range(d.node[n].points) \subseteq live
    <2>1. n \in R \ Layers /\ Is(d, n, "animated")
        BY <1>4, Things DEF Is
    <2>2. QED
        BY <2>1 DEF Live
<1>5. ASSUME NEW n \in live
      PROVE  n \in Objects /\ (n \in R \/ d.node[n].kind = "waypoint")
    <2>1. CASE n \in R \ Layers
        BY <1>2, <2>1
    <2>2. CASE n \notin R \ Layers
        <3>1. PICK m \in R \ Layers : Is(d, m, "animated") /\ n \in Range(d.node[m].points)
            BY <1>5, <2>2 DEF Live
        <3>2. m \in Objects /\ d.node[m].kind = "animated"
            BY <1>2, <3>1 DEF Is
        <3>3. AnimatedOK(d, d.node[m])
            BY <3>2, KindOK DEF Wired
        <3>4. n \in Of(d, "waypoint")
            BY <3>1, <3>3 DEF AnimatedOK, Range
        <3>5. QED
            BY <3>4 DEF Of
    <2>3. QED
        BY <2>1, <2>2
<1> HIDE DEF R, live
<1>6. /\ \A n \in live : e.node[n] = d.node[n]
      /\ \A n \in dead : e.node[n] = Free
    BY <1>1, <1>5
<1>7. ASSUME NEW k, k # "free"
      PROVE  \A n : n \in Of(e, k) <=> n \in Of(d, k) /\ n \in live
    <2>1. ASSUME NEW n \in Objects
          PROVE  e.node[n].kind = k <=> d.node[n].kind = k /\ n \in live
        BY <1>6, <1>7 DEF Free
    <2>2. QED
        BY <2>1 DEF Of
<1>8. \A n : n \in Nodes(e) <=> n \in Nodes(d) /\ n \in live
    BY <1>7 DEF Nodes
<1>9. ASSUME NEW n \in Objects
      PROVE  ObjectOK(e, e.node[n])
    <2>1. CASE n \in dead
        BY <1>6, <2>1 DEF ObjectOK
    <2>2. CASE n \in live /\ d.node[n].kind = "switch"
        <3>1. SwitchOK(d, d.node[n]) /\ n \in R
            BY <1>5, <2>2, KindOK DEF Wired
        <3>2. ASSUME NEW i \in Links
              PROVE  d.node[n].links[i] \in Nodes(e)
            <4>1. d.node[n].links[i] \in Children(d, n)
                BY <2>2, ChildIff DEF Wired
            <4>2. d.node[n].links[i] \in R /\ d.node[n].links[i] \in Nodes(d)
                BY <1>2, <3>1, <4>1, ChildKnows
            <4>3. QED
                BY <1>3, <1>8, <4>2, Things
        <3>3. SwitchOK(e, d.node[n])
            BY <3>1, <3>2 DEF SwitchOK
        <3>4. QED
            BY <1>6, <2>2, <3>3 DEF ObjectOK
    <2>3. CASE n \in live /\ d.node[n].kind = "animated"
        <3>1. AnimatedOK(d, d.node[n]) /\ n \in R
            BY <1>5, <2>3, KindOK DEF Wired
        <3>2. Range(d.node[n].points) \subseteq live
            BY <1>4, <2>3, <3>1
        <3>3. \A t \in DOMAIN d.node[n].points : d.node[n].points[t] \in Of(e, "waypoint")
            BY <1>7, <3>1, <3>2 DEF AnimatedOK, Range
        <3>4. AnimatedOK(e, d.node[n])
            BY <3>1, <3>3 DEF AnimatedOK
        <3>5. QED
            BY <1>6, <2>3, <3>4 DEF ObjectOK
    <2>4. CASE n \in live /\ d.node[n].kind \notin {"switch", "animated"}
        <3>1. ObjectOK(d, d.node[n])
            BY DEF Wired, Typed
        <3>2. ObjectOK(e, d.node[n])
            BY <2>4, <3>1 DEF ObjectOK
        <3>3. QED
            BY <1>6, <2>4, <3>2
    <2>5. QED
        BY <2>1, <2>2, <2>3, <2>4
<1>10. e.dyn \in [Params -> Nodes(e) \union {None}]
    <2>1. ASSUME NEW p \in Params, d.dyn[p] # None
          PROVE  d.dyn[p] \in Nodes(e)
        <3>1. d.dyn[p] \in Children(d, LayerOf[p]) /\ LayerOf[p] \in Layers
            BY <2>1, ChildIff, Things DEF Wired
        <3>2. d.dyn[p] \in R /\ d.dyn[p] \in Nodes(d) /\ d.dyn[p] \in Objects
            BY <1>2, <3>1, ChildKnows
        <3>3. QED
            BY <1>3, <1>8, <3>2
    <2>2. QED
        BY <1>1, <2>1 DEF Wired, Typed
<1>11. e.list \subseteq Nodes(e)
    <2>1. d.list \subseteq Nodes(d)
        BY DEF Wired, Typed
    <2>2. QED
        BY <1>1, <1>2, <1>3, <1>8, <2>1, Things
<1>12. Of(e, "free") \subseteq e.stale
    <2>1. Of(d, "free") \subseteq d.stale
        BY DEF Wired, Typed
    <2>2. ASSUME NEW n \in Objects, e.node[n].kind = "free"
          PROVE  n \in e.stale
        <3>1. CASE n \in live
            BY <1>1, <1>6, <2>1, <2>2, <3>1 DEF Of
        <3>2. CASE n \notin live
            BY <1>1, <3>2
        <3>3. QED
            BY <3>1, <3>2
    <2>3. QED
        BY <2>2 DEF Of
<1>13. Typed(e)
    <2>1. e.users \in [Objects -> SUBSET (Objects \union Layers)]
        BY <1>1 DEF Wired, Typed
    <2>2. e.node = [n \in Objects |-> e.node[n]]
        BY <1>1
    <2>3. QED
        BY <1>1, <1>9, <1>10, <1>11, <1>12, <2>1, <2>2 DEF Wired, Typed
<1>14. /\ \A x \in Layers \union live : Children(e, x) = Children(d, x) /\ OwnTimes(e, x) = OwnTimes(d, x)
       /\ \A x \in dead : Children(e, x) = {}
    <2>1. ASSUME NEW x \in Layers
          PROVE  Children(e, x) = Children(d, x) /\ OwnTimes(e, x) = OwnTimes(d, x)
        BY <1>1 DEF Children, OwnTimes
    <2>2. ASSUME NEW x \in live
          PROVE  Children(e, x) = Children(d, x) /\ OwnTimes(e, x) = OwnTimes(d, x)
        <3>1. x \notin Layers /\ e.node[x] = d.node[x]
            BY <1>5, <1>6, Things
        <3>2. QED
            BY <3>1 DEF Children, OwnTimes
    <2>3. ASSUME NEW x \in dead
          PROVE  Children(e, x) = {}
        BY <1>6, Things DEF Children, Free
    <2>4. QED
        BY <2>1, <2>2, <2>3
<1>15. ASSUME NEW x \in Layers \union live, NEW n \in Children(d, x)
       PROVE  n \in live
    <2>1. n \in Objects
        BY <1>5, ChildKnows
    <2>2. x \in R
        <3>1. CASE x \in Layers
            BY <1>2, <3>1
        <3>2. CASE x \in live /\ x \notin Layers
            <4>1. x \in Objects /\ d.node[x].kind = "switch"
                BY <1>5, <3>2, ChildIff DEF Wired
            <4>2. QED
                BY <1>5, <3>2, <4>1
        <3>3. QED
            BY <3>1, <3>2
    <2>3. QED
        BY <1>2, <1>3, <2>1, <2>2
<1>16. ASSUME NEW n \in Objects, NEW x \in Objects \union Layers
       PROVE  Knows(e, n, x)
    <2>1. Knows(d, n, x)
        BY UsersIff DEF Wired
    <2>2. CASE x \in dead
        BY <1>1, <1>14, <2>2 DEF Knows
    <2>3. CASE x \notin dead
        <3>1. x \in Layers \union live
            BY <2>3
        <3>2. n \in Children(e, x) <=> n \in Children(d, x)
            BY <1>14, <3>1
        <3>3. x \in e.users[n] <=> n \in live /\ x \in d.users[n]
            BY <1>1, <2>3
        <3>4. QED
            BY <1>1, <1>15, <2>1, <3>1, <3>2, <3>3 DEF Knows
    <2>4. QED
        BY <2>2, <2>3
<1>17. Wired(e)
    BY <1>13, <1>16, UsersIff DEF Wired
<1>18. TimesTrue(d) => TimesTrue(e)
    <2>1. ASSUME NEW y \in dead
          PROVE  Above(e, y) \subseteq e.stale /\ {y} \union Users(e, y) \subseteq e.stale
        <3>1. e.users[y] = {} /\ y \in e.stale
            BY <1>1
        <3>2. QED
            BY <3>1 DEF Above, Users
    <2>2. \A y \in Objects \union Layers : OwnTimes(e, y) = OwnTimes(d, y) \/ Above(e, y) \subseteq e.stale
        BY <1>14, <2>1
    <2>3. \A y \in Objects \union Layers : Children(e, y) = Children(d, y) \/ {y} \union Users(e, y) \subseteq e.stale
        BY <1>14, <2>1
    <2>4. d.stale \subseteq e.stale /\ e.times = d.times /\ e.left = d.left
        BY <1>1
    <2>5. QED
        BY <1>17, <2>2, <2>3, <2>4, CacheKept
<1>19. \A n \in held : e.node[n] = d.node[n]
    BY <1>2, <1>3, <1>6
<1>20. QED
    BY <1>17, <1>18, <1>19

-----------------------------------------------------------------------------
(***************************************************************************)
(* What the actions that are kept hold on to.                              *)
(***************************************************************************)

\* Those of a set are there still, and still what they were.
Stay(d, e, ns) == \A n \in ns \ {None} : n \in Objects => e.node[n].kind = d.node[n].kind

\* So they are fit for what they were fit for.
LEMMA StayOf ==
    ASSUME NEW d, NEW e, NEW ns, Stay(d, e, ns), NEW n \in ns
    PROVE  /\ \A kind : n \in Of(d, kind) => n \in Of(e, kind)
           /\ n \in Nodes(d) => n \in Nodes(e)
<1>1. \A kind : n \in Of(d, kind) => n \in Of(e, kind)
    BY Things DEF Of, Stay
<1>2. QED
    BY <1>1 DEF Nodes

\* The handles of an action, one by one.
LEMMA HandlesAre ==
    ASSUME NEW a
    PROVE  /\ "node" \in DOMAIN a => a.node \in HandlesOf(a)
           /\ "parent" \in DOMAIN a => a.parent \in HandlesOf(a)
           /\ "was" \in DOMAIN a => a.was \in HandlesOf(a)
           /\ "dest" \in DOMAIN a => a.dest \in HandlesOf(a)
           /\ "src" \in DOMAIN a => a.src \in HandlesOf(a)
           /\ "waypoint" \in DOMAIN a => a.waypoint \in HandlesOf(a)
           /\ "ref" \in DOMAIN a => a.ref \in HandlesOf(a)
           /\ "animated" \in DOMAIN a => a.animated \in HandlesOf(a)
           /\ \A n \in HandlesOf(a) :
                \/ "node" \in DOMAIN a /\ n = a.node
                \/ "parent" \in DOMAIN a /\ n = a.parent
                \/ "was" \in DOMAIN a /\ n = a.was
                \/ "dest" \in DOMAIN a /\ n = a.dest
                \/ "src" \in DOMAIN a /\ n = a.src
                \/ "waypoint" \in DOMAIN a /\ n = a.waypoint
                \/ "ref" \in DOMAIN a /\ n = a.ref
                \/ "animated" \in DOMAIN a /\ n = a.animated
BY DEF HandlesOf, Handles

\* What an action that is kept has handles on is there, and it may be done as long as this stays.
LEMMA RawStays ==
    ASSUME NEW d, NEW a, RawOK(d, a)
    PROVE  /\ HandlesOf(a) \ {None} \subseteq Objects
           /\ \A e : Stay(d, e, HandlesOf(a)) => RawOK(e, a)
           /\ \A e : Stay(d, e, HandlesOf(a)) /\ PerfOK(d, a) => PerfOK(e, a)
<1>1. HandlesOf(a) \ {None} \subseteq Objects
    <2> SUFFICES ASSUME NEW n \in HandlesOf(a), n # None PROVE n \in Objects
        OBVIOUS
    <2>1. CASE a.name \in {"LayerParamSet", "LayerParamConnect", "LayerParamDisconnect"}
        BY <2>1, HandlesAre, Things DEF RawOK
    <2>2. CASE a.name \in {"ValueNodeLinkConnect", "ValueNodeLinkDisconnect"}
        BY <2>2, HandlesAre, Things DEF RawOK
    <2>3. CASE a.name \in {"ValueNodeConstSet", "ValueNodeAdd", "ValueNodeRemove", "ValueNodeRename"}
        BY <2>3, HandlesAre, Things DEF RawOK
    <2>4. CASE a.name \in {"ValueNodeReplace", "WaypointAdd", "WaypointSet"}
        BY <2>4, HandlesAre, Things DEF RawOK
    <2>5. CASE a.name = "WaypointRemove"
        BY <2>5, HandlesAre, Things DEF RawOK
    <2>6. QED
        BY <2>1, <2>2, <2>3, <2>4, <2>5 DEF RawOK, Singles
<1>2. ASSUME NEW e, Stay(d, e, HandlesOf(a))
      PROVE  RawOK(e, a)
    <2>0. ASSUME NEW n \in HandlesOf(a)
          PROVE  /\ n \in Of(d, "switch") => n \in Of(e, "switch")
                 /\ n \in Of(d, "const") => n \in Of(e, "const")
                 /\ n \in Of(d, "animated") => n \in Of(e, "animated")
                 /\ n \in Of(d, "waypoint") => n \in Of(e, "waypoint")
                 /\ n \in Nodes(d) => n \in Nodes(e)
        BY <1>2, StayOf
    <2>1. CASE a.name \in {"LayerParamSet", "LayerParamConnect", "LayerParamDisconnect"}
        BY <2>0, <2>1, HandlesAre DEF RawOK
    <2>2. CASE a.name \in {"ValueNodeLinkConnect", "ValueNodeLinkDisconnect"}
        BY <2>0, <2>2, HandlesAre DEF RawOK
    <2>3. CASE a.name \in {"ValueNodeConstSet", "ValueNodeAdd", "ValueNodeRemove", "ValueNodeRename"}
        BY <2>0, <2>3, HandlesAre DEF RawOK
    <2>4. CASE a.name \in {"ValueNodeReplace", "WaypointAdd", "WaypointSet"}
        BY <2>0, <2>4, HandlesAre DEF RawOK
    <2>5. CASE a.name = "WaypointRemove"
        BY <2>0, <2>5, HandlesAre DEF RawOK
    <2>6. QED
        BY <2>1, <2>2, <2>3, <2>4, <2>5 DEF RawOK, Singles
<1>3. QED
    BY <1>1, <1>2 DEF PerfOK

\* The same of a place.
LEMMA PlaceStays ==
    ASSUME NEW d, NEW place, PlaceOK(d, place)
    PROVE  /\ place.kind = "link" => place.node \in Objects
           /\ \A e : (place.kind = "link" => Stay(d, e, {place.node})) => PlaceOK(e, place)
<1>1. place.kind = "link" => place.node \in Of(d, "switch")
    BY DEF PlaceOK, Param, Export
<1>2. place.kind = "link" => place.node \in Objects
    BY <1>1, Things
<1>3. ASSUME NEW e, place.kind = "link" => Stay(d, e, {place.node})
      PROVE  PlaceOK(e, place)
    <2>1. place.kind = "link" => place.node \in Of(e, "switch")
        BY <1>1, <1>3, StayOf
    <2>2. QED
        BY <2>1 DEF PlaceOK
<1>4. QED
    BY <1>2, <1>3

\* An action has handles on what the actions of its list have, and on what its places are links of.
LEMMA HeldHas ==
    ASSUME NEW a
    PROVE  /\ HandlesOf(a) \ {None} \subseteq Held(a)
           /\ "list" \in DOMAIN a => \A b \in Range(a.list) : HandlesOf(b) \ {None} \subseteq Held(a)
           /\ \A place \in PlacesOf(a) : place.kind = "link" => {place.node} \ {None} \subseteq Held(a)
           /\ \A n \in Held(a) :
                /\ n # None
                /\ \/ n \in HandlesOf(a)
                   \/ "list" \in DOMAIN a /\ \E b \in Range(a.list) : n \in HandlesOf(b)
                   \/ \E place \in PlacesOf(a) : place.kind = "link" /\ n = place.node
<1> DEFINE parts == IF "list" \in DOMAIN a THEN Range(a.list) ELSE {}
           own == UNION {HandlesOf(b) : b \in parts \union {a}}
           linked == {place.node : place \in {q \in PlacesOf(a) : q.kind = "link"}}
<1>1. Held(a) = (linked \union own) \ {None}
    BY DEF Held
<1>2. \A n : n \in own <=> \E b \in parts \union {a} : n \in HandlesOf(b)
    OBVIOUS
<1>3. \A n : n \in linked <=> \E place \in PlacesOf(a) : place.kind = "link" /\ n = place.node
    OBVIOUS
<1>4. parts = IF "list" \in DOMAIN a THEN Range(a.list) ELSE {}
    OBVIOUS
<1> HIDE DEF own, linked, parts
<1>5. \A n : n \in Held(a) <=> n # None /\ (n \in own \/ n \in linked)
    BY <1>1
<1>6. HandlesOf(a) \ {None} \subseteq Held(a)
    BY <1>2, <1>5
<1>7. "list" \in DOMAIN a => \A b \in Range(a.list) : HandlesOf(b) \ {None} \subseteq Held(a)
    BY <1>2, <1>4, <1>5
<1>8. \A place \in PlacesOf(a) : place.kind = "link" => {place.node} \ {None} \subseteq Held(a)
    BY <1>3, <1>5
<1>9. QED
    BY <1>2, <1>3, <1>4, <1>5, <1>6, <1>7, <1>8

\* What stays of more stays of less.
LEMMA StayLess ==
    ASSUME NEW d, NEW e, NEW ns, NEW ms, Stay(d, e, ns), ms \ {None} \subseteq ns
    PROVE  Stay(d, e, ms)
BY DEF Stay

\* A list is fit as long as what its actions have handles on stays.
LEMMA ListStays ==
    ASSUME NEW d, NEW list, ListOK(d, list)
    PROVE  /\ \A b \in Range(list) : HandlesOf(b) \ {None} \subseteq Objects
           /\ \A e : (\A b \in Range(list) : Stay(d, e, HandlesOf(b))) =>
                /\ ListOK(e, list)
                /\ \A i \in 1..Len(list) : PerfOK(d, list[i]) => PerfOK(e, list[i])
<1>1. IsSeq(list) /\ \A i \in 1..Len(list) : RawOK(d, list[i])
    BY DEF ListOK
<1>2. DOMAIN list = 1..Len(list) /\ Range(list) = {list[i] : i \in 1..Len(list)}
    BY <1>1 DEF IsSeq, Range
<1>3. \A b \in Range(list) : HandlesOf(b) \ {None} \subseteq Objects
    BY <1>1, <1>2, RawStays
<1>4. ASSUME NEW e, \A b \in Range(list) : Stay(d, e, HandlesOf(b))
      PROVE  \A i \in 1..Len(list) : RawOK(e, list[i]) /\ (PerfOK(d, list[i]) => PerfOK(e, list[i]))
    <2> SUFFICES ASSUME NEW i \in 1..Len(list)
                 PROVE  RawOK(e, list[i]) /\ (PerfOK(d, list[i]) => PerfOK(e, list[i]))
        OBVIOUS
    <2>1. RawOK(d, list[i]) /\ Stay(d, e, HandlesOf(list[i]))
        BY <1>1, <1>2, <1>4
    <2>2. QED
        BY <2>1, RawStays
<1>5. QED
    BY <1>3, <1>4 DEF ListOK

\* An action on a place is fit as long as what it has handles on, and what its places are links of, stays.
LEMMA ReadyStays ==
    ASSUME NEW d, NEW a, ReadyOK(d, a)
    PROVE  /\ HandlesOf(a) \ {None} \subseteq Objects
           /\ \A place \in PlacesOf(a) : PlaceOK(d, place)
           /\ \A e : /\ Stay(d, e, HandlesOf(a))
                     /\ \A place \in PlacesOf(a) : place.kind = "link" => Stay(d, e, {place.node})
                     => ReadyOK(e, a)
<1>1. HandlesOf(a) \ {None} \subseteq Objects
    <2> SUFFICES ASSUME NEW n \in HandlesOf(a), n # None PROVE n \in Objects
        OBVIOUS
    <2>1. QED
        BY HandlesAre, Things DEF ReadyOK, Supers
<1>2. \A place \in PlacesOf(a) : PlaceOK(d, place)
    <2>1. CASE a.name = "ValueDescLink"
        <3>1. PlacesOf(a) = Range(a.places) /\ IsSeq(a.places) /\ \A i \in 1..Len(a.places) : PlaceOK(d, a.places[i])
            BY <2>1 DEF ReadyOK, PlacesOf
        <3>2. QED
            BY <3>1 DEF IsSeq, Range
    <2>2. CASE a.name # "ValueDescLink"
        BY <2>2 DEF ReadyOK, PlacesOf, Supers
    <2>3. QED
        BY <2>1, <2>2
<1>3. ASSUME NEW e, Stay(d, e, HandlesOf(a)),
             \A place \in PlacesOf(a) : place.kind = "link" => Stay(d, e, {place.node})
      PROVE  ReadyOK(e, a)
    <2>1. \A place \in PlacesOf(a) : PlaceOK(e, place)
        BY <1>2, <1>3, PlaceStays
    <2>2. ASSUME NEW n \in HandlesOf(a)
          PROVE  /\ n \in Of(d, "animated") => n \in Of(e, "animated")
                 /\ n \in Nodes(d) => n \in Nodes(e)
        BY <1>3, StayOf
    <2>3. CASE a.name = "ValueDescLink"
        <3>1. PlacesOf(a) = Range(a.places) /\ IsSeq(a.places)
            BY <2>3 DEF ReadyOK, PlacesOf
        <3>2. \A i \in 1..Len(a.places) : a.places[i] \in PlacesOf(a)
            BY <3>1 DEF IsSeq, Range
        <3>3. \A i \in 1..Len(a.places) : PlaceOK(e, a.places[i])
            BY <2>1, <3>2
        <3>4. a.node \in Nodes(e) \union {None}
            BY <2>2, <2>3, HandlesAre DEF ReadyOK
        <3>5. QED
            BY <2>3, <3>3, <3>4 DEF ReadyOK
    <2>4. CASE a.name # "ValueDescLink"
        <3>1. a.place \in PlacesOf(a)
            BY <2>4 DEF ReadyOK, PlacesOf, Supers
        <3>2. PlaceOK(e, a.place)
            BY <2>1, <3>1
        <3>3. QED
            BY <2>2, <2>4, <3>2, HandlesAre DEF ReadyOK, Supers
    <2>5. QED
        BY <2>3, <2>4
<1>4. QED
    BY <1>1, <1>2, <1>3

\* So an action of either stack is as fit as before, where what it holds on to stays.
LEMMA HeldStays ==
    ASSUME NEW d, NEW a, UndoneOK(d, a)
    PROVE  /\ Held(a) \subseteq Objects
           /\ \A e : Stay(d, e, Held(a)) => UndoneOK(e, a) /\ (DoneOK(d, a) => DoneOK(e, a))
<1>1. CASE a.name \in Supers
    <2>1. ReadyOK(d, a) /\ ListOK(d, a.list)
        BY <1>1 DEF UndoneOK
    <2>2. "list" \in DOMAIN a
        BY <1>1, <2>1 DEF ReadyOK, Supers
    <2>3. Held(a) \subseteq Objects
        <3> SUFFICES ASSUME NEW n \in Held(a) PROVE n \in Objects
            OBVIOUS
        <3>1. /\ n # None
              /\ \/ n \in HandlesOf(a)
                 \/ \E b \in Range(a.list) : n \in HandlesOf(b)
                 \/ \E place \in PlacesOf(a) : place.kind = "link" /\ n = place.node
            BY HeldHas
        <3>2. CASE n \in HandlesOf(a)
            BY <2>1, <3>1, <3>2, ReadyStays
        <3>3. CASE \E b \in Range(a.list) : n \in HandlesOf(b)
            BY <2>1, <3>1, <3>3, ListStays
        <3>4. CASE \E place \in PlacesOf(a) : place.kind = "link" /\ n = place.node
            BY <2>1, <3>4, ReadyStays, PlaceStays
        <3>5. QED
            BY <3>1, <3>2, <3>3, <3>4
    <2>4. ASSUME NEW e, Stay(d, e, Held(a))
          PROVE  UndoneOK(e, a) /\ (DoneOK(d, a) => DoneOK(e, a))
        <3>1. Stay(d, e, HandlesOf(a))
            BY <2>4, HeldHas, StayLess
        <3>2. \A place \in PlacesOf(a) : place.kind = "link" => Stay(d, e, {place.node})
            BY <2>4, HeldHas, StayLess
        <3>3. \A b \in Range(a.list) : Stay(d, e, HandlesOf(b))
            BY <2>2, <2>4, HeldHas, StayLess
        <3>4. ReadyOK(e, a)
            BY <2>1, <3>1, <3>2, ReadyStays
        <3>5. /\ ListOK(e, a.list)
              /\ \A i \in 1..Len(a.list) : PerfOK(d, a.list[i]) => PerfOK(e, a.list[i])
            BY <2>1, <3>3, ListStays
        <3>6. QED
            BY <1>1, <3>4, <3>5 DEF UndoneOK, DoneOK
    <2>5. QED
        BY <2>3, <2>4
<1>2. CASE a.name \notin Supers
    <2>1. RawOK(d, a) /\ a.name \in {"WaypointRemove", "ValueNodeRemove", "ValueNodeRename"}
        BY <1>2 DEF UndoneOK
    <2>2. "list" \notin DOMAIN a /\ PlacesOf(a) = {}
        <3>1. "list" \notin DOMAIN a /\ "place" \notin DOMAIN a /\ "places" \notin DOMAIN a
            <4>1. DOMAIN a = {"name", "node", "waypoint", "time", "ref"} \/ DOMAIN a = {"name", "node", "old"}
                  \/ DOMAIN a = {"name", "node", "old", "new"}
                BY <2>1 DEF RawOK
            <4>2. QED
                BY <4>1
        <3>2. QED
            BY <3>1 DEF PlacesOf
    <2>3. Held(a) = HandlesOf(a) \ {None}
        BY <2>2, HeldHas
    <2>4. Held(a) \subseteq Objects
        BY <2>1, <2>3, RawStays
    <2>5. ASSUME NEW e, Stay(d, e, Held(a))
          PROVE  UndoneOK(e, a) /\ (DoneOK(d, a) => DoneOK(e, a))
        <3>1. Stay(d, e, HandlesOf(a))
            BY <2>3, <2>5 DEF Stay
        <3>2. RawOK(e, a) /\ (PerfOK(d, a) => PerfOK(e, a))
            BY <2>1, <3>1, RawStays
        <3>3. QED
            BY <1>2, <2>1, <3>2 DEF UndoneOK, DoneOK
    <2>6. QED
        BY <2>4, <2>5
<1>3. QED
    BY <1>1, <1>2

-----------------------------------------------------------------------------
(***************************************************************************)
(* Asking for the times of what is seen.                                   *)
(***************************************************************************)

\* What is seen is there, and what is below it is seen.
LEMMA SeenClosed ==
    ASSUME NEW d, Wired(d), Flat(d)
    PROVE  /\ Layers \union d.list \subseteq Seen(d)
           /\ Seen(d) \subseteq Layers \union Nodes(d)
           /\ Seen(d) \subseteq Objects \union Layers
           /\ \A x \in Seen(d) : Children(d, x) \subseteq Seen(d)
<1> DEFINE roots == Layers \union d.list
<1>1. \A z : z \in Seen(d) <=> z \in roots \/ (\E x \in roots : z \in Children(d, x))
                               \/ (\E x \in roots : \E y \in Children(d, x) : z \in Children(d, y))
    BY DEF Seen, Below, ChildrenOf
<1>2. roots \subseteq Objects \union Layers /\ roots \subseteq Layers \union Nodes(d)
    BY Things DEF Wired, Typed
<1> HIDE DEF roots
<1>3. ASSUME NEW x \in roots, NEW y \in Children(d, x)
      PROVE  y \in Objects /\ y \in Nodes(d)
    BY <1>2, <1>3, ChildKnows
<1>4. ASSUME NEW x \in roots, NEW y \in Children(d, x), NEW z \in Children(d, y)
      PROVE  z \in Objects /\ z \in Nodes(d) /\ Children(d, z) = {}
    BY <1>3, ChildKnows, FlatBelow
<1>5. Seen(d) \subseteq Layers \union Nodes(d)
    BY <1>1, <1>2, <1>3, <1>4
<1>6. \A x \in Seen(d) : Children(d, x) \subseteq Seen(d)
    BY <1>1, <1>4
<1>7. QED
    BY <1>1, <1>5, <1>6, Things DEF roots

\* What is known of the times after asking k steps down, when below is what is known of the next.
KnownFrom(d, k, below) ==
    [x \in Seen(d) |->
       IF x \notin d.stale THEN d.times[x]
       ELSE OwnTimes(d, x) \union (IF k = 0 THEN {} ELSE UNION {below[y] : y \in Children(d, x) \intersect Seen(d)})]
KnownStep(d, k, g) == KnownFrom(d, k, IF k = 0 THEN <<>> ELSE g[k - 1])
Known(d, g) == g = [k \in 0..2 |-> KnownStep(d, k, g)]
AllKnown(d) == KnownFrom(d, 2, KnownFrom(d, 1, KnownFrom(d, 0, <<>>)))

\* All that is known, step by step.
LEMMA KnownIs ==
    ASSUME NEW d
    PROVE  /\ \E g : Known(d, g)
           /\ \A g : Known(d, g) => g[2] = AllKnown(d)
<1> DEFINE k0 == KnownFrom(d, 0, <<>>)
           k1 == KnownFrom(d, 1, k0)
           k2 == KnownFrom(d, 2, k1)
           h == [k \in 0..2 |-> IF k = 0 THEN k0 ELSE IF k = 1 THEN k1 ELSE k2]
<1>1. Known(d, h)
    <2>1. KnownStep(d, 0, h) = k0
        BY DEF KnownStep
    <2>2. KnownStep(d, 1, h) = k1
        <3>1. h[1 - 1] = k0
            OBVIOUS
        <3> HIDE DEF k0, h
        <3>2. QED
            BY <3>1 DEF KnownStep
    <2>3. KnownStep(d, 2, h) = k2
        <3>1. h[2 - 1] = k1
            OBVIOUS
        <3> HIDE DEF k1, h
        <3>2. QED
            BY <3>1 DEF KnownStep
    <2> HIDE DEF k0, k1, k2
    <2>4. \A k \in 0..2 : KnownStep(d, k, h) = IF k = 0 THEN k0 ELSE IF k = 1 THEN k1 ELSE k2
        <3>1. \A k \in 0..2 : k = 0 \/ k = 1 \/ k = 2
            OBVIOUS
        <3> HIDE DEF h
        <3>2. QED
            BY <2>1, <2>2, <2>3, <3>1
    <2>5. QED
        BY <2>4 DEF Known
<1>2. ASSUME NEW g, Known(d, g)
      PROVE  g[2] = k2
    <2>1. /\ g[0] = KnownStep(d, 0, g)
          /\ g[1] = KnownStep(d, 1, g)
          /\ g[2] = KnownStep(d, 2, g)
        <3>1. \A k \in 0..2 : g[k] = KnownStep(d, k, g)
            BY <1>2 DEF Known
        <3>2. 0 \in 0..2 /\ 1 \in 0..2 /\ 2 \in 0..2
            OBVIOUS
        <3>3. QED
            BY <3>1, <3>2
    <2> HIDE DEF k0, k1, k2
    <2>2. g[0] = k0
        BY <2>1 DEF KnownStep, k0
    <2>3. g[1] = k1
        BY <2>1, <2>2 DEF KnownStep, k1
    <2>4. QED
        BY <2>1, <2>3 DEF KnownStep, k2
<1> HIDE DEF k0, k1, k2, h
<1>3. QED
    BY <1>1, <1>2 DEF k0, k1, k2, AllKnown

\* What asking changes.
LEMMA RefreshedFields ==
    ASSUME NEW d, Wired(d), NEW f, f = Refreshed(d)
    PROVE  /\ IsDoc(f) /\ f.dyn = d.dyn /\ f.list = d.list /\ f.node = d.node /\ f.users = d.users /\ f.left = d.left
           /\ f.stale = d.stale \ Seen(d)
           /\ f.times = [x \in Objects \union Layers |->
                           IF x \in Seen(d) THEN AllKnown(d)[x] ELSE IF x \in d.stale THEN {} ELSE d.times[x]]
<1> DEFINE g == CHOOSE h : h = [k \in 0..2 |->
                    [x \in Seen(d) |->
                       IF x \notin d.stale THEN d.times[x]
                       ELSE OwnTimes(d, x)
                            \union (IF k = 0 THEN {}
                                    ELSE UNION {(IF k = 0 THEN <<>> ELSE h[k - 1])[y] : y \in Children(d, x) \intersect Seen(d)})]]
           times == [x \in DOMAIN d.times |->
                       IF x \in Seen(d) THEN g[2][x] ELSE IF x \in d.stale THEN {} ELSE d.times[x]]
<1>1. f = [d EXCEPT !.times = times, !.stale = d.stale \ Seen(d)]
    BY Zenon DEF Refreshed
<1>2. g = CHOOSE h : Known(d, h)
    BY Zenon DEF Known, KnownStep, KnownFrom
<1> HIDE DEF g
<1>3. Known(d, g)
    BY <1>2, KnownIs
<1>4. g[2] = AllKnown(d)
    BY <1>3, KnownIs
<1>5. IsDoc(d) /\ DOMAIN d.times = Objects \union Layers
    BY DEF Wired, Typed
<1>6. times = [x \in Objects \union Layers |->
                 IF x \in Seen(d) THEN AllKnown(d)[x] ELSE IF x \in d.stale THEN {} ELSE d.times[x]]
    BY <1>4, <1>5
<1> HIDE DEF times
<1>7. /\ IsDoc(f) /\ f.dyn = d.dyn /\ f.list = d.list /\ f.node = d.node /\ f.users = d.users /\ f.left = d.left
      /\ f.stale = d.stale \ Seen(d) /\ f.times = times
    BY <1>1, <1>5 DEF IsDoc
<1>8. QED
    BY <1>6, <1>7

\* What is found where the cached sets are right is what there is.
LEMMA KnownTrue ==
    ASSUME NEW d, Wired(d), Flat(d), TimesTrue(d)
    PROVE  \A x \in Seen(d) : x \notin d.left => AllKnown(d)[x] = TimesOf(d, x)
<1> DEFINE k0 == KnownFrom(d, 0, <<>>)
           k1 == KnownFrom(d, 1, k0)
<1>1. ASSUME NEW x \in Seen(d), x \notin d.left, Children(d, x) = {}
      PROVE  k0[x] = TimesOf(d, x)
    <2>1. x \in Objects \union Layers
        BY SeenClosed
    <2>2. TimesOf(d, x) = OwnTimes(d, x)
        <3>1. TimesOf(d, x) = OwnTimes(d, x) \union UNION {TimesOf(d, y) : y \in Children(d, x)}
            BY <2>1, TimesOfIs
        <3>2. UNION {TimesOf(d, y) : y \in Children(d, x)} = {}
            BY <1>1
        <3>3. QED
            BY <3>1, <3>2
    <2>3. QED
        BY <1>1, <2>1, <2>2 DEF KnownFrom, TimesTrue
<1>2. ASSUME NEW k \in {1, 2}, NEW below, NEW x \in Seen(d), x \notin d.left,
             \A y \in Children(d, x) : below[y] = TimesOf(d, y),
             NEW now, now = KnownFrom(d, k, below)
      PROVE  now[x] = TimesOf(d, x)
    <2>1. x \in Objects \union Layers /\ Children(d, x) \intersect Seen(d) = Children(d, x)
        BY SeenClosed
    <2>2. TimesOf(d, x) = OwnTimes(d, x) \union UNION {TimesOf(d, y) : y \in Children(d, x)}
        BY <2>1, TimesOfIs
    <2>3. UNION {below[y] : y \in Children(d, x)} = UNION {TimesOf(d, y) : y \in Children(d, x)}
        BY <1>2
    <2>4. now[x] = IF x \notin d.stale THEN d.times[x]
                   ELSE OwnTimes(d, x) \union UNION {below[y] : y \in Children(d, x)}
        <3>1. {below[y] : y \in Children(d, x) \intersect Seen(d)} = {below[y] : y \in Children(d, x)}
            BY <2>1
        <3>2. now[x] = IF x \notin d.stale THEN d.times[x]
                       ELSE OwnTimes(d, x) \union UNION {below[y] : y \in Children(d, x) \intersect Seen(d)}
            <4> HIDE DEF k0, k1
            <4>1. k # 0
                OBVIOUS
            <4>2. now = [u \in Seen(d) |->
                           IF u \notin d.stale THEN d.times[u]
                           ELSE OwnTimes(d, u)
                                \union (IF k = 0 THEN {} ELSE UNION {below[y] : y \in Children(d, u) \intersect Seen(d)})]
                BY <1>2 DEF KnownFrom
            <4>3. QED
                BY <4>1, <4>2
        <3>3. QED
            BY <3>1, <3>2
    <2>5. QED
        BY <1>2, <2>1, <2>2, <2>3, <2>4 DEF TimesTrue
<1> HIDE DEF k0, k1
<1>3. ASSUME NEW x \in Seen(d), x \in Objects
      PROVE  k1[x] = TimesOf(d, x)
    <2>1. \A y \in Children(d, x) : y \in Seen(d) /\ Children(d, y) = {}
        BY <1>3, SeenClosed, FlatBelow
    <2>2. \A y \in Children(d, x) : y \notin d.left
        BY <1>3, ChildKnows, NotLeft
    <2>3. \A y \in Children(d, x) : k0[y] = TimesOf(d, y)
        BY <1>1, <2>1, <2>2
    <2>4. QED
        BY <1>2, <1>3, <2>3, NotLeft DEF k1
<1>4. ASSUME NEW x \in Seen(d), x \notin d.left
      PROVE  AllKnown(d)[x] = TimesOf(d, x)
    <2>1. \A y \in Children(d, x) : y \in Seen(d) /\ y \in Objects
        BY SeenClosed, ChildKnows
    <2>2. \A y \in Children(d, x) : k1[y] = TimesOf(d, y)
        BY <1>3, <2>1
    <2>3. AllKnown(d) = KnownFrom(d, 2, k1)
        BY DEF k0, k1, AllKnown
    <2>4. QED
        BY <1>2, <1>4, <2>2, <2>3
<1>5. QED
    BY <1>4

\* Asking for the times leaves nothing seen unasked, and what was cached right is still right.
LEMMA RefreshedWired ==
    ASSUME NEW d, Wired(d), Flat(d), NEW f, f = Refreshed(d)
    PROVE  /\ Wired(f) /\ Flat(f) /\ f.node = d.node
           /\ TimesTrue(d) => TimesTrue(f)
           /\ Seen(f) \intersect f.stale = {}
<1>1. /\ IsDoc(f) /\ f.dyn = d.dyn /\ f.list = d.list /\ f.node = d.node /\ f.users = d.users /\ f.left = d.left
      /\ f.stale = d.stale \ Seen(d)
      /\ f.times = [x \in Objects \union Layers |->
                      IF x \in Seen(d) THEN AllKnown(d)[x] ELSE IF x \in d.stale THEN {} ELSE d.times[x]]
    BY RefreshedFields
<1>2. /\ \A x : Children(f, x) = Children(d, x) /\ OwnTimes(f, x) = OwnTimes(d, x)
      /\ \A k : Of(f, k) = Of(d, k)
    BY <1>1 DEF Children, OwnTimes, Of
<1>3. Nodes(f) = Nodes(d)
    BY <1>2 DEF Nodes
<1>4. \A o : ObjectOK(f, o) <=> ObjectOK(d, o)
    BY <1>2, <1>3 DEF ObjectOK, SwitchOK, AnimatedOK
<1>5. Of(f, "free") \subseteq f.stale
    <2>1. Of(d, "free") \subseteq d.stale
        BY DEF Wired, Typed
    <2>2. Of(d, "free") \intersect Seen(d) = {}
        <3>1. Seen(d) \subseteq Layers \union Nodes(d)
            BY SeenClosed
        <3>2. QED
            BY <3>1, Things DEF Of, Nodes
    <2>3. QED
        BY <1>1, <1>2, <2>1, <2>2
<1>6. Wired(f)
    <2>1. Typed(f)
        BY <1>1, <1>3, <1>4, <1>5 DEF Wired, Typed
    <2>2. UsersTrue(f)
        BY <1>1, <1>2 DEF Wired, UsersTrue
    <2>3. QED
        BY <2>1, <2>2 DEF Wired
<1>7. Flat(f)
    BY <1>1 DEF Flat, Is
<1>8. ASSUME TimesTrue(d)
      PROVE  TimesTrue(f)
    <2> SUFFICES ASSUME NEW x \in Objects \union Layers, x \notin f.stale, x \notin f.left
                 PROVE  f.times[x] = TimesOf(f, x)
        BY DEF TimesTrue
    <2>1. TimesOf(f, x) = TimesOf(d, x)
        BY <1>2 DEF TimesOf, Below, ChildrenOf
    <2>2. CASE x \in Seen(d)
        <3>1. AllKnown(d)[x] = TimesOf(d, x)
            BY <1>1, <1>8, <2>2, KnownTrue
        <3>2. QED
            BY <1>1, <2>1, <2>2, <3>1
    <2>3. CASE x \notin Seen(d)
        <3>1. x \notin d.stale
            BY <1>1, <2>3
        <3>2. QED
            BY <1>1, <1>8, <2>1, <2>3, <3>1 DEF TimesTrue
    <2>4. QED
        BY <2>2, <2>3
<1>9. Seen(f) \intersect f.stale = {}
    <2>1. Seen(f) = Seen(d)
        BY <1>1, <1>2 DEF Seen, Below, ChildrenOf
    <2>2. QED
        BY <1>1, <2>1
<1>10. QED
    BY <1>1, <1>6, <1>7, <1>8, <1>9

-----------------------------------------------------------------------------
(***************************************************************************)
(* The two stacks.                                                         *)
(***************************************************************************)

\* A stack is fit when all that is on it is.
LEMMA FitIff ==
    ASSUME NEW d, NEW s
    PROVE  /\ DoneFit(d, s) <=> \E S : s \in Seq(S) /\ \A b \in S : "act" \in DOMAIN b /\ DoneOK(d, b.act)
           /\ UndoneFit(d, s) <=> \E S : s \in Seq(S) /\ \A b \in S : UndoneOK(d, b)
<1>1. ASSUME IsSeq(s)
      PROVE  /\ s \in Seq(Range(s))
             /\ \A b \in Range(s) : \E i \in 1..Len(s) : b = s[i]
    BY <1>1, SeqIff DEF IsSeq, Range
<1>2. ASSUME NEW S, s \in Seq(S)
      PROVE  IsSeq(s) /\ \A i \in 1..Len(s) : s[i] \in S
    <2>1. Len(s) \in Nat /\ s \in [1..Len(s) -> S] /\ DOMAIN s = 1..Len(s)
        BY <1>2, LenProperties
    <2>2. s \in [1..Len(s) -> Range(s)]
        BY <2>1 DEF Range
    <2>3. QED
        BY <2>1, <2>2, SeqDef DEF IsSeq
<1>3. QED
    BY <1>1, <1>2 DEF DoneFit, UndoneFit

\* What is done is put on one of them.
LEMMA DoneSteps ==
    ASSUME NEW d, NEW s, DoneFit(d, s)
    PROVE  /\ \A x : "act" \in DOMAIN x /\ DoneOK(d, x.act) => DoneFit(d, Append(s, x))
           /\ s # <<>> => /\ DoneFit(d, Front(s))
                          /\ "act" \in DOMAIN Last(s) /\ DoneOK(d, Last(s).act)
                          /\ \A x : DoneOK(d, x) => DoneFit(d, [s EXCEPT ![Len(s)].act = x])
<1>1. PICK S : s \in Seq(S) /\ \A b \in S : "act" \in DOMAIN b /\ DoneOK(d, b.act)
    BY FitIff
<1>2. Len(s) \in Nat /\ s \in [1..Len(s) -> S] /\ DOMAIN s = 1..Len(s)
    BY <1>1, LenProperties
<1>3. ASSUME NEW x, "act" \in DOMAIN x, DoneOK(d, x.act)
      PROVE  DoneFit(d, Append(s, x))
    <2>1. Append(s, x) \in Seq(S \union {x})
        <3>1. s \in Seq(S \union {x})
            BY <1>1, SeqMonotonic
        <3>2. QED
            BY <3>1, AppendProperties
    <2>2. \A b \in S \union {x} : "act" \in DOMAIN b /\ DoneOK(d, b.act)
        BY <1>1, <1>3
    <2>3. QED
        BY <2>1, <2>2, FitIff
<1>4. ASSUME s # <<>>
      PROVE  DoneFit(d, Front(s))
    <2>1. \A i \in 1..(Len(s) - 1) : s[i] \in S
        BY <1>2
    <2>2. Front(s) \in Seq(S)
        BY <1>2, <2>1, SubSeqProperties DEF Front
    <2>3. QED
        BY <1>1, <2>2, FitIff
<1>5. ASSUME s # <<>>
      PROVE  Len(s) \in 1..Len(s) /\ Last(s) \in S
    <2>1. Len(s) \in Nat \ {0}
        BY <1>1, <1>5, EmptySeq
    <2>2. QED
        BY <1>2, <2>1 DEF Last
<1>6. ASSUME s # <<>>, NEW x, DoneOK(d, x)
      PROVE  DoneFit(d, [s EXCEPT ![Len(s)].act = x])
    <2> DEFINE b == [s[Len(s)] EXCEPT !.act = x]
    <2>1. "act" \in DOMAIN s[Len(s)]
        BY <1>1, <1>5, <1>6 DEF Last
    <2>2. "act" \in DOMAIN b /\ b.act = x
        BY <2>1
    <2>3. [s EXCEPT ![Len(s)].act = x] = [s EXCEPT ![Len(s)] = b]
        BY <1>2
    <2> HIDE DEF b
    <2>4. s \in Seq(S \union {b})
        BY <1>1, SeqMonotonic
    <2>5. [s EXCEPT ![Len(s)] = b] \in Seq(S \union {b})
        BY <1>5, <1>6, <2>4, ExceptSeq
    <2>6. \A c \in S \union {b} : "act" \in DOMAIN c /\ DoneOK(d, c.act)
        BY <1>1, <1>6, <2>2
    <2>7. QED
        BY <2>3, <2>5, <2>6, FitIff
<1>7. QED
    BY <1>1, <1>3, <1>4, <1>5, <1>6

\* What is undone is put on the other.
LEMMA UndoneSteps ==
    ASSUME NEW d, NEW s, UndoneFit(d, s)
    PROVE  /\ \A x : UndoneOK(d, x) => UndoneFit(d, <<x>> \o s)
           /\ s # <<>> => /\ UndoneFit(d, Tail(s))
                          /\ UndoneOK(d, Head(s))
                          /\ \A x : UndoneOK(d, x) => UndoneFit(d, [s EXCEPT ![1] = x])
<1>1. PICK S : s \in Seq(S) /\ \A b \in S : UndoneOK(d, b)
    BY FitIff
<1>2. ASSUME NEW x, UndoneOK(d, x)
      PROVE  UndoneFit(d, <<x>> \o s)
    <2>1. s \in Seq(S \union {x})
        BY <1>1, SeqMonotonic
    <2>2. <<x>> \in Seq(S \union {x})
        OBVIOUS
    <2>3. <<x>> \o s \in Seq(S \union {x})
        BY <2>1, <2>2, ConcatProperties
    <2>4. \A b \in S \union {x} : UndoneOK(d, b)
        BY <1>1, <1>2
    <2>5. QED
        BY <2>3, <2>4, FitIff
<1>3. ASSUME s # <<>>
      PROVE  UndoneFit(d, Tail(s)) /\ UndoneOK(d, Head(s))
    <2>1. Head(s) \in S /\ Tail(s) \in Seq(S)
        BY <1>1, <1>3, HeadTailProperties
    <2>2. QED
        BY <1>1, <2>1, FitIff
<1>4. ASSUME s # <<>>, NEW x, UndoneOK(d, x)
      PROVE  UndoneFit(d, [s EXCEPT ![1] = x])
    <2>1. s \in Seq(S \union {x})
        BY <1>1, SeqMonotonic
    <2>2. 1 \in 1..Len(s)
        <3>1. Len(s) \in Nat \ {0}
            BY <1>1, <1>4, EmptySeq
        <3>2. QED
            BY <3>1
    <2>3. [s EXCEPT ![1] = x] \in Seq(S \union {x})
        BY <2>1, <2>2, ExceptSeq
    <2>4. \A b \in S \union {x} : UndoneOK(d, b)
        BY <1>1, <1>4
    <2>5. QED
        BY <2>3, <2>4, FitIff
<1>5. QED
    BY <1>2, <1>3, <1>4

\* A fit stack is fit for any document that leads on.
LEMMA StacksGrow ==
    ASSUME NEW d, NEW e, Grows(d, e)
    PROVE  /\ \A s : DoneFit(d, s) => DoneFit(e, s)
           /\ \A s : UndoneFit(d, s) => UndoneFit(e, s)
BY AllGrow DEF DoneFit, UndoneFit

\* Where a stack is made of those of a document, and what these hold on to stays, it is fit.
LEMMA StacksStay ==
    ASSUME NEW d, NEW before, DoneFit(d, before), NEW after, UndoneFit(d, after),
           NEW acts, acts = Kept(before, after)
    PROVE  /\ \A i \in DOMAIN acts : Held(acts[i]) \subseteq Objects
           /\ \A e : (\A i \in DOMAIN acts : Stay(d, e, Held(acts[i]))) => DoneFit(e, before) /\ UndoneFit(e, after)
<1> DEFINE first == [i \in DOMAIN before |-> before[i].act]
           S == Range(first) \union Range(after)
<1>1. Len(before) \in Nat /\ DOMAIN before = 1..Len(before) /\ Len(after) \in Nat /\ DOMAIN after = 1..Len(after)
    BY SeqIff DEF DoneFit, UndoneFit
<1>2. first = [i \in 1..Len(before) |-> first[i]]
    BY <1>1
<1>3. \A i \in 1..Len(before) : first[i] = before[i].act
    BY <1>1
<1>4. acts = first \o after
    BY DEF Kept
<1> HIDE DEF first
<1>5. IsSeq(first) /\ Len(first) = Len(before) /\ DOMAIN first = 1..Len(before)
    BY <1>1, <1>2, SeqIff
<1>6. first \in Seq(S) /\ after \in Seq(S)
    BY <1>5, SeqMonotonic DEF IsSeq, UndoneFit
<1>7. /\ acts \in Seq(S)
      /\ Len(acts) = Len(before) + Len(after)
      /\ \A i \in 1..(Len(before) + Len(after)) : acts[i] = IF i <= Len(before) THEN first[i] ELSE after[i - Len(before)]
    BY <1>4, <1>5, <1>6, ConcatProperties
<1> HIDE DEF S
<1>8. DOMAIN acts = 1..(Len(before) + Len(after))
    BY <1>7, LenProperties
<1>9. ASSUME NEW i \in 1..Len(before)
      PROVE  i \in DOMAIN acts /\ acts[i] = before[i].act
    <2>1. i \in 1..(Len(before) + Len(after)) /\ i <= Len(before)
        BY <1>1
    <2>2. QED
        BY <1>3, <1>7, <1>8, <2>1
<1>10. ASSUME NEW i \in 1..Len(after)
       PROVE  Len(before) + i \in DOMAIN acts /\ acts[Len(before) + i] = after[i]
    <2>1. Len(before) + i \in 1..(Len(before) + Len(after)) /\ ~(Len(before) + i <= Len(before))
        BY <1>1
    <2>2. (Len(before) + i) - Len(before) = i
        BY <1>1
    <2>3. QED
        BY <1>7, <1>8, <2>1, <2>2
<1>11. ASSUME NEW i \in DOMAIN acts
       PROVE  (\E j \in 1..Len(before) : acts[i] = before[j].act) \/ (\E j \in 1..Len(after) : acts[i] = after[j])
    <2>1. i \in 1..(Len(before) + Len(after))
        BY <1>8
    <2>2. CASE i <= Len(before)
        BY <1>1, <1>9, <2>1, <2>2
    <2>3. CASE ~(i <= Len(before))
        <3>1. i - Len(before) \in 1..Len(after)
            BY <1>1, <2>1, <2>3
        <3>2. QED
            BY <1>7, <2>1, <2>3, <3>1
    <2>4. QED
        BY <2>2, <2>3
<1>12. /\ \A j \in 1..Len(before) : "act" \in DOMAIN before[j] /\ DoneOK(d, before[j].act) /\ UndoneOK(d, before[j].act)
       /\ \A j \in 1..Len(after) : UndoneOK(d, after[j])
       /\ IsSeq(before) /\ IsSeq(after)
    BY DEF DoneFit, UndoneFit, DoneOK
<1>13. \A i \in DOMAIN acts : Held(acts[i]) \subseteq Objects
    BY <1>11, <1>12, HeldStays
<1>14. ASSUME NEW e, \A i \in DOMAIN acts : Stay(d, e, Held(acts[i]))
       PROVE  DoneFit(e, before) /\ UndoneFit(e, after)
    <2>1. ASSUME NEW j \in 1..Len(before)
          PROVE  DoneOK(e, before[j].act)
        <3>1. Stay(d, e, Held(before[j].act))
            BY <1>9, <1>14
        <3>2. QED
            BY <1>12, <3>1, HeldStays
    <2>2. ASSUME NEW j \in 1..Len(after)
          PROVE  UndoneOK(e, after[j])
        <3>1. Stay(d, e, Held(after[j]))
            BY <1>10, <1>14
        <3>2. QED
            BY <1>12, <3>1, HeldStays
    <2>3. QED
        BY <1>12, <2>1, <2>2 DEF DoneFit, UndoneFit
<1>15. QED
    BY <1>13, <1>14

-----------------------------------------------------------------------------
(***************************************************************************)
(* Steps of the history.                                                   *)
(***************************************************************************)

\* Asking for the times makes no node another.
LEMMA RefreshedNode ==
    ASSUME NEW d, IsDoc(d)
    PROVE  Refreshed(d).node = d.node
<1> DEFINE g == CHOOSE h : h = [k \in 0..2 |->
                    [x \in Seen(d) |->
                       IF x \notin d.stale THEN d.times[x]
                       ELSE OwnTimes(d, x)
                            \union (IF k = 0 THEN {}
                                    ELSE UNION {(IF k = 0 THEN <<>> ELSE h[k - 1])[y] : y \in Children(d, x) \intersect Seen(d)})]]
           times == [x \in DOMAIN d.times |->
                       IF x \in Seen(d) THEN g[2][x] ELSE IF x \in d.stale THEN {} ELSE d.times[x]]
<1>1. Refreshed(d) = [d EXCEPT !.times = times, !.stale = d.stale \ Seen(d)]
    BY Zenon DEF Refreshed
<1> HIDE DEF times
<1>2. QED
    BY <1>1 DEF IsDoc

\* What is left of a sound document when an action has gone well, or not, is sound, and so are the stacks.
LEMMA Settles ==
    ASSUME NEW d, Wired(d), NEW before, DoneFit(d, before), NEW after, UndoneFit(d, after),
           NEW f, f = Settled(d, Kept(before, after)), Flat(f)
    PROVE  /\ Wired(f)
           /\ TimesTrue(d) => TimesTrue(f)
           /\ Seen(f) \intersect f.stale = {}
           /\ DoneFit(f, before) /\ UndoneFit(f, after)
<1> DEFINE acts == Kept(before, after)
           held == UNION {Held(acts[i]) : i \in DOMAIN acts}
           e == Collected(d, held)
<1>1. f = Refreshed(e)
    BY DEF Settled
<1>2. /\ \A i \in DOMAIN acts : Held(acts[i]) \subseteq Objects
      /\ \A c : (\A i \in DOMAIN acts : Stay(d, c, Held(acts[i]))) => DoneFit(c, before) /\ UndoneFit(c, after)
    <2>1. acts = Kept(before, after)
        OBVIOUS
    <2> HIDE DEF acts, held, e
    <2>2. QED
        BY <2>1, StacksStay
<1> HIDE DEF acts
<1>3. held \in SUBSET Objects /\ \A i \in DOMAIN acts : Held(acts[i]) \subseteq held
    BY <1>2
<1>4. e = Collected(d, held)
    OBVIOUS
<1> HIDE DEF held, e
<1>5. IsDoc(e)
    BY <1>4, CollectedFields
<1>6. f.node = e.node
    BY <1>1, <1>5, RefreshedNode
<1>7. Flat(e)
    BY <1>6 DEF Flat, Is
<1>8. Wired(e) /\ (TimesTrue(d) => TimesTrue(e)) /\ \A n \in held : e.node[n] = d.node[n]
    BY <1>3, <1>4, <1>7, CollectedWired
<1>9. Wired(f) /\ (TimesTrue(e) => TimesTrue(f)) /\ Seen(f) \intersect f.stale = {}
    BY <1>1, <1>7, <1>8, RefreshedWired
<1>10. \A i \in DOMAIN acts : Stay(d, f, Held(acts[i]))
    BY <1>3, <1>6, <1>8 DEF Stay
<1>11. QED
    BY <1>2, <1>8, <1>9, <1>10

\* A document that is read from a file is sound, and nothing of it is cached.
LEMMA LoadedWired ==
    ASSUME NEW d, Loaded(d)
    PROVE  Wired(d) /\ Flat(d) /\ TimesTrue(d)
<1>1. /\ IsDoc(d)
      /\ d.dyn \in [Params -> Nodes(d) \union {None}]
      /\ d.node \in [Objects -> ObjectType(d)]
      /\ d.users \in [Objects -> SUBSET (Objects \union Layers)]
      /\ d.list \subseteq Nodes(d)
      /\ d.times \in [Objects \union Layers -> SUBSET Times]
    BY DEF Loaded, DocumentType, IsDoc
<1>2. d.stale = Objects \union Layers /\ UsersTrue(d) /\ Flat(d)
    BY DEF Loaded
<1>3. ASSUME NEW o \in ObjectType(d)
      PROVE  ObjectOK(d, o)
    <2>1. CASE o = Free
        BY <2>1 DEF ObjectOK
    <2>2. CASE o \in [kind : {"const", "waypoint"}, value : Values]
        BY <2>2 DEF ObjectOK, Const, Waypoint
    <2>3. CASE o \in [kind : {"switch"}, links : [Links -> Nodes(d)]]
        BY <2>3 DEF ObjectOK, SwitchOK
    <2>4. CASE o \in [kind : {"animated"}, points : UNION {[times -> Of(d, "waypoint")] : times \in SUBSET Times}]
        <3>1. o.kind = "animated" /\ o = Animated(o.points)
            BY <2>4 DEF Animated
        <3>2. PICK times \in SUBSET Times : o.points \in [times -> Of(d, "waypoint")]
            BY <2>4
        <3>3. QED
            BY <3>1, <3>2 DEF ObjectOK, AnimatedOK
    <2>5. QED
        BY <2>1, <2>2, <2>3, <2>4 DEF ObjectType
<1>4. Typed(d)
    <2>1. \A n \in Objects : ObjectOK(d, d.node[n])
        BY <1>1, <1>3
    <2>2. Of(d, "free") \subseteq d.stale
        BY <1>2 DEF Of
    <2>3. d.node = [n \in Objects |-> d.node[n]] /\ d.times = [x \in Objects \union Layers |-> d.times[x]]
        BY <1>1
    <2>4. d.left \subseteq Layers
        BY DEF Loaded
    <2>5. QED
        BY <1>1, <1>2, <2>1, <2>2, <2>3, <2>4 DEF Typed
<1>5. QED
    BY <1>2, <1>4 DEF Wired, TimesTrue

\* It starts sound, with nothing to be undone or redone.
LEMMA InitKeeps ==
    ASSUME Init
    PROVE  WiredInv /\ TimesInv
<1>1. PICK d \in StartDocs : doc = Refreshed(d)
    BY DEF Init
<1>2. Wired(d) /\ Flat(d) /\ TimesTrue(d)
    BY StartAssumption, LoadedWired
<1>3. Wired(doc) /\ Flat(doc) /\ TimesTrue(doc) /\ Seen(doc) \intersect doc.stale = {}
    BY <1>1, <1>2, RefreshedWired
<1>4. DoneFit(doc, <<>>) /\ UndoneFit(doc, <<>>)
    <2>1. IsSeq(<<>>) /\ Len(<<>>) = 0
        BY EmptySeq DEF IsSeq
    <2>2. \A i \in 1..0 : FALSE
        OBVIOUS
    <2>3. QED
        BY <2>1, <2>2 DEF DoneFit, UndoneFit
<1>5. QED
    BY <1>3, <1>4 DEF Init, WiredInv, StacksOK, TimesInv

\* What the user can choose is there.
LEMMA PlacesFit ==
    ASSUME WiredInv
    PROVE  /\ \A place \in Places(doc) : PlaceOK(doc, place)
           /\ \A place \in Own(doc) : PlaceOK(doc, place) /\ place.kind # "export"
           /\ doc.list \subseteq Nodes(doc)
           /\ \A place : TimesAt(place) \subseteq Times
           /\ \A kind : \A n \in Seen(doc) \ Layers : Is(doc, n, kind) => n \in Of(doc, kind)
<1>1. Wired(doc) /\ Flat(doc)
    BY DEF WiredInv
<1>2. \A kind : \A n \in Seen(doc) \ Layers : Is(doc, n, kind) => n \in Of(doc, kind)
    BY <1>1, SeenClosed DEF Is, Of
<1>3. ASSUME NEW place \in Places(doc)
      PROVE  PlaceOK(doc, place)
    <2>1. CASE place \in {Param(p) : p \in Params}
        BY <2>1 DEF PlaceOK, Param
    <2>2. CASE place \in {Link(s, i) : s \in Switches(doc), i \in Links}
        <3>1. PICK s \in Switches(doc), i \in Links : place = Link(s, i)
            BY <2>2
        <3>2. s \in Of(doc, "switch")
            BY <1>2 DEF Switches
        <3>3. QED
            BY <3>1, <3>2 DEF PlaceOK, Link
    <2>3. CASE place \in {Export(id) : id \in {doc.id[n] : n \in doc.list}}
        BY <2>3 DEF PlaceOK, Export
    <2>4. QED
        BY <2>1, <2>2, <2>3 DEF Places
<1>4. \A place \in Own(doc) : place \in Places(doc) /\ place.kind # "export"
    BY DEF Own
<1>5. doc.list \subseteq Nodes(doc)
    BY <1>1 DEF Wired, Typed
<1>6. \A place : TimesAt(place) \subseteq Times
    BY DEF TimesAt, Times
<1>7. QED
    BY <1>2, <1>3, <1>4, <1>5, <1>6

\* What the user does is an action that may be performed; a waypoint is removed from a node that is seen.
LEMMA WorkFits ==
    ASSUME WiredInv, Work
    PROVE  \E a : Fit(doc, a) /\ Do(a, doc) /\ (a.name = "WaypointRemove" => a.node \in Seen(doc) \ Layers)
<1> DEFINE Goal == \E a : Fit(doc, a) /\ Do(a, doc) /\ (a.name = "WaypointRemove" => a.node \in Seen(doc) \ Layers)
<1>1. /\ \A place \in Places(doc) : PlaceOK(doc, place)
      /\ \A place \in Own(doc) : PlaceOK(doc, place) /\ place.kind # "export"
      /\ doc.list \subseteq Nodes(doc)
      /\ \A place : TimesAt(place) \subseteq Times
      /\ \A kind : \A n \in Seen(doc) \ Layers : Is(doc, n, kind) => n \in Of(doc, kind)
    BY PlacesFit
<1>2. ASSUME NEW a, ReadyOK(doc, a), Do(a, doc)
      PROVE  Goal
    <2>1. Fit(doc, a) /\ a.name # "WaypointRemove"
        BY <1>2 DEF Fit, ReadyOK, Supers
    <2>2. QED
        BY <1>2, <2>1
<1>3. CASE ConnectPlace
    <2>1. PICK place \in Own(doc), n \in doc.list : Do(ValueDescConnect(place, n), doc)
        BY <1>3 DEF ConnectPlace
    <2>2. ReadyOK(doc, ValueDescConnect(place, n))
        BY <1>1 DEF ReadyOK, Supers, ValueDescConnect
    <2>3. QED
        BY <1>2, <2>1, <2>2
<1>4. CASE ConvertPlace
    <2>1. PICK place, t : place \in Places(doc) /\ Do(ValueDescConvert(place, t), doc)
        BY <1>4 DEF ConvertPlace
    <2>2. ReadyOK(doc, ValueDescConvert(place, t))
        BY <1>1, <2>1 DEF ReadyOK, Supers, ValueDescConvert
    <2>3. QED
        BY <1>2, <2>1, <2>2
<1>5. CASE DisconnectPlace
    <2>1. PICK place, t : place \in Places(doc) /\ Do(ValueDescDisconnect(place, t), doc)
        BY <1>5 DEF DisconnectPlace
    <2>2. ReadyOK(doc, ValueDescDisconnect(place, t))
        BY <1>1, <2>1 DEF ReadyOK, Supers, ValueDescDisconnect
    <2>3. QED
        BY <1>2, <2>1, <2>2
<1>6. CASE ExportPlace
    <2>1. PICK place \in Own(doc), id \in Ids : Do(ValueDescExport(place, id), doc)
        BY <1>6 DEF ExportPlace
    <2>2. ReadyOK(doc, ValueDescExport(place, id))
        BY <1>1 DEF ReadyOK, Supers, ValueDescExport
    <2>3. QED
        BY <1>2, <2>1, <2>2
<1>7. CASE LinkPlaces
    <2>1. PICK first, last, n :
            /\ first \in Own(doc) /\ last \in Own(doc)
            /\ n \in {NodeAt(doc, first), NodeAt(doc, last), None}
            /\ Do(ValueDescLink(<<first, last>>, n), doc)
        BY <1>7 DEF LinkPlaces
    <2>2. PlaceOK(doc, first) /\ PlaceOK(doc, last) /\ first.kind # "export" /\ last.kind # "export"
        BY <1>1, <2>1
    <2>3. n \in Nodes(doc) \union {None}
        BY <2>1, <2>2, NodeAtIs DEF WiredInv
    <2>4. IsSeq(<<first, last>>) /\ <<first, last>> # <<>>
        <3>1. <<first, last>> \in Seq({first, last}) /\ Range(<<first, last>>) = {first, last}
            BY DEF Range
        <3>2. QED
            BY <3>1 DEF IsSeq
    <2>5. \A i \in 1..Len(<<first, last>>) : PlaceOK(doc, <<first, last>>[i]) /\ <<first, last>>[i].kind # "export"
        BY <2>2
    <2>6. ReadyOK(doc, ValueDescLink(<<first, last>>, n))
        BY <2>3, <2>4, <2>5 DEF ReadyOK, Supers, ValueDescLink
    <2>7. QED
        BY <1>2, <2>1, <2>6
<1>8. CASE SetPlace
    <2>1. PICK place, v, t, animate :
            place \in Places(doc) /\ t \in Times \union TimesAt(place) /\ Do(ValueDescSet(place, v, t, animate), doc)
        BY <1>8 DEF SetPlace
    <2>2. ReadyOK(doc, ValueDescSet(place, v, t, animate))
        BY <1>1, <2>1 DEF ReadyOK, Supers, ValueDescSet
    <2>3. QED
        BY <1>2, <2>1, <2>2
<1>9. CASE DeleteWaypoint
    <2>1. PICK n, t :
            n \in Seen(doc) \ Layers /\ t \in DOMAIN Points(doc, n) /\ Is(doc, n, "animated")
            /\ Do(WaypointRemove(n, Points(doc, n)[t], t), doc)
        BY <1>9 DEF DeleteWaypoint
    <2> DEFINE a == WaypointRemove(n, Points(doc, n)[t], t)
    <2>2. n \in Of(doc, "animated") /\ n \in Objects /\ doc.node[n].kind = "animated"
        BY <1>1, <2>1 DEF Of
    <2>3. AnimatedOK(doc, doc.node[n])
        BY <2>2, KindOK DEF WiredInv, Wired
    <2>4. Points(doc, n)[t] \in Of(doc, "waypoint") /\ t \in Times
        BY <2>1, <2>3 DEF AnimatedOK, Points
    <2>5. RawOK(doc, a) /\ a.name = "WaypointRemove" /\ a.node = n
        BY <2>2, <2>4 DEF RawOK, Singles, WaypointRemove
    <2>6. Fit(doc, a)
        BY <2>5 DEF Fit, Supers
    <2>7. Do(a, doc)
        BY <2>1
    <2> HIDE DEF a
    <2>8. QED
        BY <2>1, <2>5, <2>6, <2>7
<1>10. CASE Unexport
    <2>1. PICK n \in doc.list : Do(ValueNodeRemove(n), doc)
        BY <1>10 DEF Unexport
    <2>2. Fit(doc, ValueNodeRemove(n)) /\ ValueNodeRemove(n).name # "WaypointRemove"
        BY <1>1 DEF Fit, RawOK, Singles, Supers, ValueNodeRemove
    <2>3. QED
        BY <2>1, <2>2
<1>11. CASE RenameExported
    <2>1. PICK n \in doc.list, id \in Ids : Do(ValueNodeRename(n, id), doc)
        BY <1>11 DEF RenameExported
    <2>2. Fit(doc, ValueNodeRename(n, id)) /\ ValueNodeRename(n, id).name # "WaypointRemove"
        BY <1>1 DEF Fit, RawOK, Singles, Supers, ValueNodeRename
    <2>3. QED
        BY <2>1, <2>2
<1>12. QED
    BY <1>3, <1>4, <1>5, <1>6, <1>7, <1>8, <1>9, <1>10, <1>11 DEF Work

\* An action that goes well, done or redone, keeps all sound, and the cached times right if it finishes.
LEMMA DoneKeeps ==
    ASSUME WiredInv, Room(doc, 2), NEW a, Fit(doc, a), NEW r, r = Perform(a, doc), r.ok,
           NEW b, "act" \in DOMAIN b, b.act = r.act,
           done' = Append(done, b), undone' = undone \/ (undone # <<>> /\ undone' = Tail(undone)),
           doc' = Settled(r.doc, Kept(done', undone')), Flat(doc')
    PROVE  /\ WiredInv'
           /\ Seen(doc') \intersect doc'.stale = {}
           /\ TimesTrue(doc) /\ Finishes(doc, a) => TimesTrue(doc')
<1>1. Wired(doc) /\ DoneFit(doc, done) /\ UndoneFit(doc, undone)
    BY DEF WiredInv, StacksOK
<1>2. /\ Wired(r.doc) /\ Grows(doc, r.doc)
      /\ Finishes(doc, a) /\ TimesTrue(doc) => TimesTrue(r.doc)
      /\ DoneOK(r.doc, r.act)
    BY <1>1, PerformActs
<1>3. DoneFit(r.doc, done')
    BY <1>1, <1>2, StacksGrow, DoneSteps
<1>4. UndoneFit(r.doc, undone')
    BY <1>1, <1>2, StacksGrow, UndoneSteps
<1>5. /\ Wired(doc')
      /\ TimesTrue(r.doc) => TimesTrue(doc')
      /\ Seen(doc') \intersect doc'.stale = {}
      /\ DoneFit(doc', done') /\ UndoneFit(doc', undone')
    BY <1>2, <1>3, <1>4, Settles
<1>6. QED
    BY <1>2, <1>5 DEF WiredInv, StacksOK

\* What the user does keeps all sound.
LEMMA WorkKeeps ==
    ASSUME WiredInv, Room(doc, 2), Work, Flat(doc')
    PROVE  /\ WiredInv'
           /\ Seen(doc') \intersect doc'.stale = {}
           /\ TimesTrue(doc) /\ NamesListed => TimesTrue(doc')
<1>1. PICK a : Fit(doc, a) /\ Do(a, doc) /\ (a.name = "WaypointRemove" => a.node \in Seen(doc) \ Layers)
    BY WorkFits
<1>2. NamesListed => Finishes(doc, a)
    BY <1>1 DEF NamesListed, Finishes
<1>3. PICK r : /\ r = Perform(a, doc) /\ r.ok
               /\ done' = Append(done, [act |-> r.act, before |-> Visible(doc), fresh |-> TRUE])
               /\ doc' = Settled(r.doc, Kept(done', undone))
               /\ undone' = undone
    BY <1>1 DEF Do
<1> DEFINE b == [act |-> r.act, before |-> Visible(doc), fresh |-> TRUE]
<1>4. "act" \in DOMAIN b /\ b.act = r.act
    OBVIOUS
<1>5. done' = Append(done, b) /\ doc' = Settled(r.doc, Kept(done', undone'))
    BY <1>3
<1> HIDE DEF b
<1>6. QED
    BY <1>1, <1>2, <1>3, <1>4, <1>5, DoneKeeps

\* So does undoing, whether it goes well or not.
LEMMA UndoKeeps ==
    ASSUME WiredInv, Undo, Flat(doc')
    PROVE  /\ WiredInv'
           /\ Seen(doc') \intersect doc'.stale = {}
           /\ TimesTrue(doc) => TimesTrue(doc')
<1>1. Wired(doc) /\ DoneFit(doc, done) /\ UndoneFit(doc, undone)
    BY DEF WiredInv, StacksOK
<1>2. PICK r : /\ r = UndoAct(Last(done).act, doc)
               /\ IF r.ok THEN done' = Front(done) /\ undone' = <<r.act>> \o undone
                  ELSE done' = [done EXCEPT ![Len(done)].act = r.act] /\ undone' = undone
               /\ doc' = Settled(r.doc, Kept(done', undone'))
               /\ done # <<>>
    BY DEF Undo
<1>3. DoneOK(doc, Last(done).act)
    BY <1>1, <1>2, DoneSteps
<1>4. Leads(doc, r.doc) /\ UndoneOK(r.doc, r.act) /\ DoneOK(r.doc, r.act)
    BY <1>1, <1>2, <1>3, UndoActs
<1>5. Wired(r.doc) /\ Grows(doc, r.doc) /\ (TimesTrue(doc) => TimesTrue(r.doc))
    BY <1>4 DEF Leads
<1>6. DoneFit(r.doc, done) /\ UndoneFit(r.doc, undone)
    BY <1>1, <1>5, StacksGrow
<1>7. DoneFit(r.doc, done') /\ UndoneFit(r.doc, undone')
    <2>1. CASE r.ok
        <3>1. done # <<>> /\ done' = Front(done) /\ undone' = <<r.act>> \o undone
            BY <1>2, <2>1
        <3>2. DoneFit(r.doc, Front(done))
            BY <1>6, <3>1, DoneSteps
        <3>3. UndoneFit(r.doc, <<r.act>> \o undone)
            BY <1>4, <1>6, UndoneSteps
        <3>4. QED
            BY <3>1, <3>2, <3>3
    <2>2. CASE ~r.ok
        <3>1. done # <<>> /\ done' = [done EXCEPT ![Len(done)].act = r.act] /\ undone' = undone
            BY <1>2, <2>2
        <3>2. DoneFit(r.doc, [done EXCEPT ![Len(done)].act = r.act])
            BY <1>4, <1>6, <3>1, DoneSteps
        <3>3. QED
            BY <1>6, <3>1, <3>2
    <2>3. QED
        BY <2>1, <2>2
<1>8. /\ Wired(doc')
      /\ TimesTrue(r.doc) => TimesTrue(doc')
      /\ Seen(doc') \intersect doc'.stale = {}
      /\ DoneFit(doc', done') /\ UndoneFit(doc', undone')
    BY <1>2, <1>5, <1>7, Settles
<1>9. QED
    BY <1>5, <1>8 DEF WiredInv, StacksOK

\* So does redoing, also in another document; but a removal that does not finish leaves times behind.
LEMMA RedoKeeps ==
    ASSUME WiredInv, Room(doc, 2), Redo, Flat(doc')
    PROVE  /\ WiredInv'
           /\ Seen(doc') \intersect doc'.stale = {}
           /\ TimesTrue(doc) /\ Finishes(doc, Head(undone)) => TimesTrue(doc')
<1>1. Wired(doc) /\ DoneFit(doc, done) /\ UndoneFit(doc, undone) /\ undone # <<>>
    BY DEF WiredInv, StacksOK, Redo
<1>2. PICK r : /\ r = Perform(Head(undone), doc)
               /\ IF r.ok
                    THEN /\ done' = Append(done, [act |-> r.act, before |-> Visible(doc), fresh |-> promise # <<>>])
                         /\ undone' = Tail(undone)
                    ELSE undone' = [undone EXCEPT ![1] = r.act] /\ done' = done
               /\ doc' = Settled(r.doc, Kept(done', undone'))
    BY DEF Redo
<1>3. Fit(doc, Head(undone))
    BY <1>1, UndoneSteps DEF UndoneOK, Fit
<1>4. CASE r.ok
    <2> DEFINE b == [act |-> r.act, before |-> Visible(doc), fresh |-> promise # <<>>]
    <2>1. "act" \in DOMAIN b /\ b.act = r.act
        OBVIOUS
    <2>2. done' = Append(done, b)
        BY <1>2, <1>4
    <2> HIDE DEF b
    <2>3. QED
        BY <1>1, <1>2, <1>3, <1>4, <2>1, <2>2, DoneKeeps
<1>5. CASE ~r.ok
    <2>1. /\ Wired(r.doc) /\ Grows(doc, r.doc)
          /\ Finishes(doc, Head(undone)) /\ TimesTrue(doc) => TimesTrue(r.doc)
          /\ UndoneOK(r.doc, r.act)
        BY <1>1, <1>2, <1>3, PerformActs
    <2>2. DoneFit(r.doc, done') /\ UndoneFit(r.doc, undone')
        <3>1. done' = done /\ undone' = [undone EXCEPT ![1] = r.act]
            BY <1>2, <1>5
        <3>2. DoneFit(r.doc, done) /\ UndoneFit(r.doc, undone)
            BY <1>1, <2>1, StacksGrow
        <3>3. UndoneFit(r.doc, [undone EXCEPT ![1] = r.act])
            BY <1>1, <2>1, <3>2, UndoneSteps
        <3>4. QED
            BY <3>1, <3>2, <3>3
    <2>3. /\ Wired(doc')
          /\ TimesTrue(r.doc) => TimesTrue(doc')
          /\ Seen(doc') \intersect doc'.stale = {}
          /\ DoneFit(doc', done') /\ UndoneFit(doc', undone')
        BY <1>2, <2>1, <2>2, Settles
    <2>4. QED
        BY <2>1, <2>3 DEF WiredInv, StacksOK
<1>6. QED
    BY <1>4, <1>5

-----------------------------------------------------------------------------
(***************************************************************************)
(* What holds of any history.                                              *)
(***************************************************************************)

\* While no switch is made a link of a switch, no step leaves the document unsound: neither an action
\* the user does, nor one that is undone, or redone in whatever document, nor one that throws.
THEOREM StaysWired ==
    FlatSpec => []WiredInv
<1>1. Init => WiredInv
    BY InitKeeps
<1>2. WiredInv /\ [Next /\ Flat(doc')]_vars => WiredInv'
    <2>1. ASSUME WiredInv, Next, Flat(doc') PROVE WiredInv'
        BY <2>1, WorkKeeps, UndoKeeps, RedoKeeps DEF Next
    <2>2. ASSUME WiredInv, UNCHANGED vars PROVE WiredInv'
        BY <2>2 DEF WiredInv, StacksOK, vars
    <2>3. QED
        BY <2>1, <2>2
<1>3. QED
    BY <1>1, <1>2, PTL DEF FlatSpec

\* The same of histories where an action is redone only where it finds what it works on.
THEOREM SoundStaysWired ==
    SoundSpec => []WiredInv
<1>1. Init => WiredInv
    BY InitKeeps
<1>2. WiredInv /\ [SoundNext]_vars => WiredInv'
    <2>1. ASSUME WiredInv, SoundNext PROVE WiredInv'
        BY <2>1, WorkKeeps, UndoKeeps, RedoKeeps DEF SoundNext
    <2>2. ASSUME WiredInv, UNCHANGED vars PROVE WiredInv'
        BY <2>2 DEF WiredInv, StacksOK, vars
    <2>3. QED
        BY <2>1, <2>2
<1>3. QED
    BY <1>1, <1>2, PTL DEF SoundSpec

\* UsersKnown of every history, for layers of any number of parameters: a node tells exactly those that
\* use it (Node::add_child, Node::remove_child), but for the layers that connect_dynamic_param made it
\* forget, also where actions are redone in documents they were not done in.
THEOREM AlwaysUsersKnown ==
    FlatSpec => []UsersKnown
<1>1. WiredInv => UsersKnown
    BY DEF WiredInv, Wired, UsersKnown
<1>2. QED
    BY <1>1, StaysWired, PTL

\* UsersKnown of the histories the run checks.
THEOREM SoundUsersKnown ==
    SoundSpec => []UsersKnown
<1>1. WiredInv => UsersKnown
    BY DEF WiredInv, Wired, UsersKnown
<1>2. QED
    BY <1>1, SoundStaysWired, PTL

\* TimesFresh: while whatever is seen and has a name is in the list, the cached times of all that is
\* seen (Node::get_times) are those there are, but for those of a layer a node was made to forget.
THEOREM SoundTimesFresh ==
    SoundSpec /\ []NamesListed => []TimesFresh
<1>1. Init => WiredInv /\ TimesInv
    BY InitKeeps
<1>2. WiredInv /\ TimesInv /\ NamesListed /\ [SoundNext]_vars => WiredInv' /\ TimesInv'
    <2>1. ASSUME WiredInv, TimesInv, NamesListed, SoundNext PROVE WiredInv' /\ TimesInv'
        <3>1. Room(doc, 2) /\ Flat(doc') /\ (Work \/ Undo \/ (Redo /\ Finds(Head(undone))))
            BY <2>1 DEF SoundNext
        <3>2. CASE Work
            BY <2>1, <3>1, <3>2, WorkKeeps DEF TimesInv
        <3>3. CASE Undo
            BY <2>1, <3>1, <3>3, UndoKeeps DEF TimesInv
        <3>4. CASE Redo /\ Finds(Head(undone))
            <4>1. UndoneOK(doc, Head(undone))
                BY <2>1, <3>4, UndoneSteps DEF Redo, WiredInv, StacksOK
            <4>2. Head(undone).name = "WaypointRemove" => Head(undone).node \in Seen(doc) \ Layers
                BY <3>4, <4>1, Things DEF Finds, UndoneOK, RawOK, Supers
            <4>3. Finishes(doc, Head(undone))
                BY <2>1, <4>2 DEF NamesListed, Finishes
            <4>4. QED
                BY <2>1, <3>1, <3>4, <4>3, RedoKeeps DEF TimesInv
        <3>5. QED
            BY <3>1, <3>2, <3>3, <3>4
    <2>2. ASSUME WiredInv, TimesInv, UNCHANGED vars PROVE WiredInv' /\ TimesInv'
        BY <2>2 DEF WiredInv, TimesInv, StacksOK, vars
    <2>3. QED
        BY <2>1, <2>2
<1>3. WiredInv /\ TimesInv => TimesFresh
    <2>1. ASSUME WiredInv, TimesInv, NEW x \in Seen(doc) \ doc.left PROVE doc.times[x] = TimesOf(doc, x)
        <3>1. x \in Objects \union Layers
            BY <2>1, SeenClosed DEF WiredInv
        <3>2. x \notin doc.stale
            BY <2>1 DEF TimesInv
        <3>3. QED
            BY <2>1, <3>1, <3>2 DEF TimesInv, TimesTrue
    <2>2. QED
        BY <2>1 DEF TimesFresh
<1>4. QED
    BY <1>1, <1>2, <1>3, PTL DEF SoundSpec

===============================================================================
