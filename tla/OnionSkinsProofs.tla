---------------------------- MODULE OnionSkinsProofs ----------------------------
(***************************************************************************)
(* Onion skins are drawn right for any tiles and any number of refreshes,  *)
(* when there are no more layers than numbers between two refreshes.       *)
(***************************************************************************)
EXTENDS OnionSkins, SequenceTheorems, TLAPS

Left == Len(onion_skin_queue)

\* The picture of a tile with all layers but the last n.
Drawn(n) == {<<refresh_id, l>> : l \in {k \in Layers : k <= onion_layers - n}}

\* A tile that has its part of the frame, and one that waits for it.
Done(t) == seen[t] = refresh_id - Left /\ picture[t] = Drawn(Left)

Waits(t) ==
    IF ~onionskin \/ onion_first_tile
    THEN seen[t] <= refresh_id - RefreshStep
    ELSE seen[t] = refresh_id - Left - 1 /\ picture[t] = Drawn(Left + 1)

\* Before the first frame every tile is as an earlier refresh left it.
Fresh == Left = onion_layers /\ \A t \in Tiles : seen[t] <= refresh_id - RefreshStep

FramePhase == at = "frame" => Fresh \/ (Left < onion_layers /\ \A t \in Tiles : Done(t))

TilesPhase ==
    at = "tiles" =>
        /\ onionskin => Left < onion_layers
        /\ onionskin /\ onion_first_tile => Left = onion_layers - 1
        /\ ~onionskin => frames = 0
        /\ frames = 0 => Left = 0
        /\ \A t \in Tiles : Done(t) \/ Waits(t)

DonePhase == at = "done" /\ refreshes > 0 => Left = 0 /\ \A t \in Tiles : Done(t)

OnionInv ==
    /\ TypeOK
    /\ refreshes = refresh_id
    /\ Left <= onion_layers
    /\ \A t \in Tiles : seen[t] <= refreshes
    /\ FramePhase
    /\ TilesPhase
    /\ DonePhase

-----------------------------------------------------------------------------
\* All layers at once are what a finished tile shows.
LEMMA DrawnAll ==
    ASSUME onion_layers \in Nat
    PROVE  Drawn(0) = {<<refresh_id, l>> : l \in Layers}
<1>1. {k \in Layers : k <= onion_layers - 0} = Layers
    BY DEF Layers, onionskin
<1>2. QED
    BY <1>1 DEF Drawn

\* One layer more on a picture, or the first layer instead of it.
LEMMA DrawnNext ==
    ASSUME onion_layers \in Nat, onionskin, NEW n \in Nat, n < onion_layers
    PROVE  /\ Drawn(n + 1) \cup {<<refresh_id, onion_layers - n>>} = Drawn(n)
           /\ n = onion_layers - 1 => Drawn(n) = {<<refresh_id, onion_layers - n>>}
           /\ n < onion_layers - 1 => Drawn(n + 1) # {}
<1>1. {k \in Layers : k <= onion_layers - n} = {k \in Layers : k <= onion_layers - (n + 1)} \cup {onion_layers - n}
    BY DEF Layers, onionskin
<1>2. ASSUME n = onion_layers - 1
      PROVE  {k \in Layers : k <= onion_layers - n} = {onion_layers - n}
    BY <1>2 DEF Layers, onionskin
<1>3. ASSUME n < onion_layers - 1
      PROVE  1 \in {k \in Layers : k <= onion_layers - (n + 1)}
    BY <1>3 DEF Layers, onionskin
<1>4. QED
    BY <1>1, <1>2, <1>3 DEF Drawn

\* A tile that is not due in a frame any more has its part of it.
LEMMA NotDue ==
    ASSUME OnionInv, at = "tiles", MaxLayers <= RefreshStep,
           NEW t \in Tiles, seen[t] >= FrameRefresh
    PROVE  Done(t)
<1>1. /\ refresh_id \in Nat /\ onion_layers \in 0..MaxLayers /\ seen[t] \in Int
      /\ Left \in Nat /\ MaxLayers \in Nat
    BY OnionAssumption DEF OnionInv, TypeOK, Left
<1>2. Done(t) \/ Waits(t)
    BY DEF OnionInv, TilesPhase
<1>3. seen[t] >= refresh_id - Left
    BY DEF FrameRefresh, Left
<1>4. onionskin => Left < onion_layers
    BY DEF OnionInv, TilesPhase
<1>5. ~onionskin => Left = 0
    BY <1>1 DEF OnionInv, onionskin
<1>6. ~Waits(t)
    BY <1>1, <1>3, <1>4, <1>5 DEF Waits, RefreshStep
<1>7. QED
    BY <1>2, <1>6

-----------------------------------------------------------------------------
\* Nothing is shown at first, and nothing has been refreshed.
LEMMA OnionInit == Init => OnionInv
<1> SUFFICES ASSUME Init
             PROVE  OnionInv
    OBVIOUS
<1>1. TypeOK
    <2>1. onion_skin_queue \in Seq(1..MaxLayers)
        BY DEF Init
    <2>2. picture \in [Tiles -> SUBSET (Nat \X Nat)]
        BY DEF Init
    <2>3. seen \in [Tiles -> Int]
        BY DEF Init
    <2>4. onion_layers \in 0..MaxLayers
        BY OnionAssumption DEF Init
    <2>5. /\ refreshes \in Nat /\ refresh_id \in Nat /\ frames \in Nat
          /\ onion_first_tile \in BOOLEAN /\ at \in {"frame", "tiles", "done"}
        BY DEF Init
    <2>6. QED
        BY <2>1, <2>2, <2>3, <2>4, <2>5 DEF TypeOK
<1>2. Left = 0
    BY DEF Init, Left
<1>3. QED
    BY <1>1, <1>2 DEF OnionInv, Init, FramePhase, TilesPhase, DonePhase

\* A refresh: all that the book holds is older than each of its frames.
LEMMA OnionRefresh ==
    ASSUME OnionInv, NEW n \in 0..MaxLayers, Refresh(n)
    PROVE  OnionInv'
<1>1. /\ refreshes \in Nat /\ refreshes' = refreshes + RefreshStep
      /\ refresh_id' = refreshes' /\ n \in Nat /\ MaxLayers \in Nat
    BY OnionAssumption DEF OnionInv, TypeOK, Refresh
<1>2. onion_skin_queue' \in Seq(1..MaxLayers) /\ Len(onion_skin_queue') = n
    BY <1>1 DEF Refresh
<1>3. TypeOK'
    <2>1. refreshes' \in Nat /\ refresh_id' \in Nat
        BY <1>1 DEF RefreshStep
    <2>2. onion_layers' \in 0..MaxLayers /\ frames' \in Nat /\ at' \in {"frame", "tiles", "done"}
        BY DEF Refresh
    <2>3. onion_first_tile' \in BOOLEAN
        BY DEF Refresh
    <2>4. seen' = seen /\ picture' = picture
        BY DEF Refresh
    <2>5. QED
        BY <1>2, <2>1, <2>2, <2>3, <2>4 DEF OnionInv, TypeOK
<1>4. Left' = onion_layers' /\ onion_layers' = n
    BY <1>2 DEF Left, Refresh
<1>5. \A t \in Tiles : seen'[t] \in Int /\ seen'[t] <= refreshes
    BY DEF OnionInv, TypeOK, Refresh
<1>6. \A t \in Tiles : seen'[t] <= refreshes' /\ seen'[t] <= refresh_id' - RefreshStep
    BY <1>1, <1>5 DEF RefreshStep
<1>7. Fresh'
    BY <1>4, <1>6 DEF Fresh
<1>8. QED
    BY <1>1, <1>3, <1>4, <1>6, <1>7 DEF OnionInv, FramePhase, TilesPhase, DonePhase, Refresh

\* A new frame: the tiles that have the frame before wait for this one.
LEMMA OnionNextFrame ==
    ASSUME OnionInv, NextFrame
    PROVE  OnionInv'
<1>1. /\ refresh_id \in Nat /\ onion_layers \in Nat /\ onion_layers \in 0..MaxLayers
      /\ onion_skin_queue \in Seq(1..MaxLayers) /\ Left \in Nat /\ Left <= onion_layers
    BY OnionAssumption DEF OnionInv, TypeOK, Left
<1>2. at = "frame" /\ at' = "tiles" /\ UNCHANGED <<refreshes, seen, picture, refresh_id, onion_layers>>
    BY DEF NextFrame
<1>3. CASE ~onionskin
    <2>1. frames' = 0 /\ UNCHANGED <<onion_skin_queue, onion_first_tile>>
        BY <1>3 DEF NextFrame
    <2>2. onion_layers = 0 /\ Left = 0 /\ Left' = 0 /\ ~onionskin'
        BY <1>1, <1>2, <1>3, <2>1 DEF onionskin, Left
    <2>3. Fresh
        BY <1>1, <1>2, <2>2 DEF OnionInv, FramePhase
    <2>4. \A t \in Tiles : Waits(t)'
        BY <1>2, <2>2, <2>3 DEF Waits, Fresh
    <2>5. TypeOK'
        BY <1>2, <2>1 DEF OnionInv, TypeOK
    <2>6. TilesPhase'
        BY <1>1, <1>2, <2>1, <2>2, <2>4 DEF TilesPhase, OnionInv
    <2>7. QED
        BY <1>1, <1>2, <2>2, <2>5, <2>6 DEF OnionInv, FramePhase, DonePhase
<1>4. CASE onionskin /\ onion_skin_queue = <<>>
    <2>1. frames' = 0 /\ onion_skin_queue' = <<>> /\ Left = 0 /\ Left' = 0 /\ onion_layers > 0
        BY <1>4 DEF NextFrame, Left, onionskin
    <2>2. ~onion_first_tile' /\ onion_first_tile' \in BOOLEAN
        <3>1. onion_layers # Len(onion_skin_queue)
            BY <2>1 DEF Left
        <3>2. onion_first_tile' = (onion_layers = Len(onion_skin_queue))
            BY <1>4 DEF NextFrame
        <3>3. QED
            BY <3>1, <3>2, Zenon
    <2>3. \A t \in Tiles : Done(t)
        BY <1>1, <1>2, <2>1 DEF OnionInv, FramePhase, Fresh
    <2>4. \A t \in Tiles : Done(t)'
        BY <1>2, <2>1, <2>3 DEF Done, Drawn, Layers, onionskin
    <2>5. TypeOK'
        BY <1>1, <1>2, <2>1, <2>2 DEF OnionInv, TypeOK
    <2>6. QED
        BY <1>1, <1>2, <2>1, <2>2, <2>4, <2>5 DEF OnionInv, FramePhase, TilesPhase, DonePhase
<1>5. CASE onionskin /\ onion_skin_queue # <<>>
    <2>1. /\ onion_skin_queue' = Tail(onion_skin_queue)
          /\ frames' = Len(onion_skin_queue') + 1
          /\ onion_first_tile' <=> onion_layers = Left
          /\ onion_first_tile' \in BOOLEAN
        BY <1>5, Zenon DEF NextFrame, Left
    <2>2. /\ onion_skin_queue' \in Seq(1..MaxLayers)
          /\ Left' = Left - 1 /\ Left' \in Nat
        BY <1>1, <1>5, <2>1 DEF Left
    <2>3. TypeOK'
        BY <1>1, <1>2, <2>1, <2>2 DEF OnionInv, TypeOK, Left
    <2>4. frames' # 0
        BY <2>1, <2>2 DEF Left
    <2>5. \A t \in Tiles : Waits(t)'
        <3>1. onionskin'
            BY <1>2, <1>5 DEF onionskin
        <3>2. CASE onion_layers = Left
            <4>1. \A t \in Tiles : seen[t] <= refresh_id - RefreshStep
                BY <1>1, <1>2, <3>2 DEF OnionInv, FramePhase, Fresh
            <4>2. QED
                BY <1>2, <2>1, <3>2, <4>1 DEF Waits
        <3>3. CASE onion_layers # Left
            <4>1. \A t \in Tiles : Done(t)
                BY <1>2, <3>3 DEF OnionInv, FramePhase, Fresh
            <4>2. refresh_id' - Left' - 1 = refresh_id - Left /\ Left' + 1 = Left
                BY <1>1, <1>2, <2>2
            <4>3. Drawn(Left + 1)' = Drawn(Left)
                BY <1>2, <4>2 DEF Drawn, Layers, onionskin
            <4>4. ~onion_first_tile'
                BY <2>1, <3>3
            <4>5. QED
                BY <1>2, <3>1, <4>1, <4>2, <4>3, <4>4 DEF Waits, Done
        <3>4. QED
            BY <3>2, <3>3
    <2>6. Left' < onion_layers' /\ (onion_first_tile' => Left' = onion_layers' - 1)
        BY <1>1, <1>2, <2>1, <2>2
    <2>7. TilesPhase'
        BY <1>2, <1>5, <2>4, <2>5, <2>6 DEF TilesPhase, onionskin
    <2>8. \A t \in Tiles : seen'[t] <= refreshes'
        BY <1>2 DEF OnionInv
    <2>9. QED
        BY <1>1, <1>2, <2>2, <2>3, <2>6, <2>7, <2>8 DEF OnionInv, FramePhase, DonePhase
<1>6. QED
    BY <1>3, <1>4, <1>5

\* A tile gets its part of the frame.
LEMMA OnionTile ==
    ASSUME OnionInv, MaxLayers <= RefreshStep, NEW t \in Tiles, TileOf(t)
    PROVE  OnionInv'
<1>1. /\ refresh_id \in Nat /\ onion_layers \in Nat /\ Left \in Nat /\ Left <= onion_layers
      /\ seen \in [Tiles -> Int] /\ picture \in [Tiles -> SUBSET (Nat \X Nat)]
    BY OnionAssumption DEF OnionInv, TypeOK, Left
<1>2. /\ at = "tiles" /\ UNCHANGED <<refreshes, target, frames, at>>
      /\ seen[t] < refresh_id - Left
      /\ seen' = [seen EXCEPT ![t] = refresh_id - Left]
      /\ picture' = [picture EXCEPT ![t] =
                       IF ~onionskin \/ onion_first_tile \/ @ = {} THEN {Layer} ELSE @ \cup {Layer}]
    BY DEF TileOf, FrameRefresh, Left
<1>3. Layer = <<refresh_id, onion_layers - Left>> /\ Layer \in Nat \X Nat
    BY <1>1 DEF Layer, Left
<1>4. /\ refresh_id' = refresh_id /\ onion_layers' = onion_layers /\ Left' = Left
      /\ onionskin' = onionskin /\ onion_first_tile' = onion_first_tile
    BY <1>2 DEF target, Left, onionskin
<1>5. \A n : Drawn(n)' = Drawn(n)
    BY <1>4 DEF Drawn, Layers
<1>6. Waits(t)
    BY <1>1, <1>2 DEF OnionInv, TilesPhase, Done
<1>7. picture'[t] = Drawn(Left)
    <2>1. CASE ~onionskin
        <3>1. onion_layers = 0 /\ Left = 0
            BY <1>1, <2>1 DEF onionskin
        <3>2. Drawn(0) = {<<refresh_id, 0>>}
            BY <1>1, <2>1, DrawnAll DEF Layers
        <3>3. QED
            BY <1>1, <1>2, <1>3, <2>1, <3>1, <3>2
    <2>2. CASE onionskin /\ onion_first_tile
        <3>1. Left < onion_layers /\ Left = onion_layers - 1
            BY <1>2, <2>2 DEF OnionInv, TilesPhase
        <3>2. QED
            BY <1>1, <1>2, <1>3, <2>2, <3>1, DrawnNext
    <2>3. CASE onionskin /\ ~onion_first_tile
        <3>1. Left < onion_layers /\ picture[t] = Drawn(Left + 1)
            BY <1>2, <1>6, <2>3 DEF OnionInv, TilesPhase, Waits
        <3>2. /\ Drawn(Left + 1) \cup {Layer} = Drawn(Left)
              /\ Left = onion_layers - 1 => Drawn(Left) = {Layer}
              /\ Left < onion_layers - 1 => Drawn(Left + 1) # {}
            BY <1>1, <1>3, <2>3, <3>1, DrawnNext
        <3>3. Left = onion_layers - 1 \/ Left < onion_layers - 1
            BY <1>1, <3>1
        <3>4. CASE picture[t] = {}
            BY <1>1, <1>2, <3>1, <3>2, <3>3, <3>4
        <3>5. CASE picture[t] # {}
            BY <1>1, <1>2, <2>3, <3>1, <3>2, <3>5
        <3>6. QED
            BY <3>4, <3>5
    <2>4. QED
        BY <2>1, <2>2, <2>3
<1>8. Done(t)'
    BY <1>1, <1>2, <1>4, <1>5, <1>7 DEF Done
<1>9. \A u \in Tiles : Done(u)' \/ Waits(u)'
    <2>1. SUFFICES ASSUME NEW u \in Tiles, u # t
                   PROVE  Done(u)' \/ Waits(u)'
        BY <1>8
    <2>2. seen'[u] = seen[u] /\ picture'[u] = picture[u]
        BY <1>1, <1>2, <2>1
    <2>3. Done(u) \/ Waits(u)
        BY <1>2 DEF OnionInv, TilesPhase
    <2>4. CASE Done(u)
        BY <1>4, <1>5, <2>2, <2>4 DEF Done
    <2>5. CASE Waits(u)
        BY <1>4, <1>5, <2>2, <2>5 DEF Waits
    <2>6. QED
        BY <2>3, <2>4, <2>5
<1>10. TypeOK'
    <2>1. seen' \in [Tiles -> Int]
        BY <1>1, <1>2
    <2>2. picture' \in [Tiles -> SUBSET (Nat \X Nat)]
        BY <1>1, <1>2, <1>3
    <2>3. QED
        BY <1>2, <2>1, <2>2 DEF OnionInv, TypeOK, target
<1>11. \A u \in Tiles : seen'[u] <= refreshes'
    BY <1>1, <1>2 DEF OnionInv
<1>12. QED
    BY <1>2, <1>4, <1>9, <1>10, <1>11 DEF OnionInv, FramePhase, TilesPhase, DonePhase

\* The end of a frame: no tile waits.
LEMMA OnionEndFrame ==
    ASSUME OnionInv, MaxLayers <= RefreshStep, EndFrame
    PROVE  OnionInv'
<1>1. at = "tiles" /\ UNCHANGED <<refreshes, seen, picture, target, frames>>
      /\ at' = IF frames > 0 THEN "frame" ELSE "done"
    BY DEF EndFrame
<1>2. \A t \in Tiles : Done(t)
    BY <1>1, NotDue DEF EndFrame
<1>3. \A t \in Tiles : Done(t)'
    BY <1>1, <1>2 DEF Done, Drawn, Layers, onionskin, target, Left
<1>4. Left' = Left /\ onion_layers' = onion_layers /\ refresh_id' = refresh_id
    BY <1>1 DEF target, Left
<1>5. TypeOK'
    BY <1>1 DEF OnionInv, TypeOK, target
<1>6. frames \in Nat /\ Left \in Nat /\ onion_layers \in Nat
    BY OnionAssumption DEF OnionInv, TypeOK, Left
<1>7. CASE frames > 0
    <2>1. CASE onionskin
        BY <1>1, <1>3, <1>4, <1>5, <1>6, <1>7, <2>1 DEF OnionInv, FramePhase, TilesPhase, DonePhase
    <2>2. CASE ~onionskin
        BY <1>1, <1>6, <1>7, <2>2 DEF OnionInv, TilesPhase
    <2>3. QED
        BY <2>1, <2>2
<1>8. CASE ~(frames > 0)
    <2>1. Left = 0
        BY <1>1, <1>6, <1>8 DEF OnionInv, TilesPhase
    <2>2. QED
        BY <1>1, <1>3, <1>4, <1>5, <1>8, <2>1 DEF OnionInv, FramePhase, TilesPhase, DonePhase
<1>9. QED
    BY <1>7, <1>8

\* Every step keeps the invariant.
LEMMA OnionStep ==
    ASSUME OnionInv, MaxLayers <= RefreshStep, [Next]_vars
    PROVE  OnionInv'
<1>1. ASSUME NEW n \in 0..MaxLayers, Refresh(n)
      PROVE  OnionInv'
    BY <1>1, OnionRefresh
<1>2. CASE NextFrame
    BY <1>2, OnionNextFrame
<1>3. ASSUME NEW t \in Tiles, TileOf(t)
      PROVE  OnionInv'
    BY <1>3, OnionTile
<1>4. CASE EndFrame
    BY <1>4, OnionEndFrame
<1>5. CASE UNCHANGED vars
    <2>1. Left' = Left /\ onionskin' = onionskin
        BY <1>5 DEF vars, target, Left, onionskin
    <2>2. \A n : Drawn(n)' = Drawn(n)
        BY <1>5, <2>1 DEF vars, target, Drawn, Layers
    <2>3. \A t : (Done(t) <=> Done(t)') /\ (Waits(t) <=> Waits(t)')
        BY <1>5, <2>1, <2>2 DEF vars, target, Done, Waits
    <2>4. TypeOK'
        BY <1>5 DEF vars, target, OnionInv, TypeOK
    <2>5. QED
        BY <1>5, <2>1, <2>3, <2>4 DEF vars, target, OnionInv, FramePhase, TilesPhase, DonePhase, Fresh
<1>6. QED
    BY <1>1, <1>2, <1>3, <1>4, <1>5 DEF Next

(***************************************************************************)
(* With at most as many layers as refreshes is raised by, each tile shows  *)
(* all the layers of the last refresh when its render is done, whatever    *)
(* renders were given up before it and whatever number of layers they had. *)
(***************************************************************************)
THEOREM FewLayersShown ==
    ASSUME MaxLayers <= RefreshStep
    PROVE  Spec => []AllLayersShown
<1>1. OnionInv /\ [Next]_vars => OnionInv'
    BY OnionStep
<1>2. OnionInv => AllLayersShown
    <2>1. SUFFICES ASSUME OnionInv, at = "done", refreshes > 0, NEW t \in Tiles
                   PROVE  picture[t] = {<<refresh_id, l>> : l \in Layers}
        BY DEF AllLayersShown
    <2>2. onion_layers \in Nat
        BY <2>1, OnionAssumption DEF OnionInv, TypeOK
    <2>3. picture[t] = Drawn(0)
        BY <2>1 DEF OnionInv, DonePhase, Done
    <2>4. QED
        BY <2>2, <2>3, DrawnAll
<1>3. QED
    BY OnionInit, <1>1, <1>2, PTL DEF Spec
=============================================================================
