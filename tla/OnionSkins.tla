------------------------------- MODULE OnionSkins -------------------------------
(***************************************************************************)
(* studio::WorkAreaTarget rendering onion skins: the canvas at the current *)
(* time and at the keyframes before and after it, one frame each, blended  *)
(* into the pictures of the work area's tile book.                         *)
(*                                                                         *)
(* A tile is given out in a frame when the refresh in the book is older    *)
(* than the frame's, and a frame's refresh is the target's less the frames *)
(* still in onion_skin_queue.  A tile's picture is the set of the <<refresh*)
(* of the target, layer>> that were blended into it.  NoStrayTile of       *)
(* AsyncRenderer lets a tile be rendered and put on the work area in one   *)
(* step.                                                                   *)
(***************************************************************************)
EXTENDS Integers, Sequences

CONSTANTS
    Tiles,         \* the visible tiles
    MaxLayers,     \* most layers: the current time, past and future skins
    MaxRefreshes   \* bound: refreshes

ASSUME OnionAssumption == MaxLayers \in Nat /\ MaxRefreshes \in Nat

VARIABLES
    refreshes,         \* WorkArea: the refresh wanted
    seen,              \* tile_book[].second
    picture,           \* tile_book[].first
    refresh_id, onion_layers, onion_skin_queue, onion_first_tile,  \* the target
    frames,            \* what next_frame returned
    at                 \* "frame": to begin the next, "tiles": in one, "done"

target == <<refresh_id, onion_layers, onion_skin_queue, onion_first_tile>>
vars == <<refreshes, seen, picture, target, frames, at>>

RefreshStep == 5
onionskin == onion_layers > 0

Init ==
    /\ refreshes = 0
    /\ seen = [t \in Tiles |-> 0]
    /\ picture = [t \in Tiles |-> {}]
    /\ refresh_id = 0
    /\ onion_layers = 0
    /\ onion_skin_queue = <<>>
    /\ onion_first_tile = FALSE
    /\ frames = 0
    /\ at = "done"

\* async_render_preview: a refresh, with a new target for n layers (0: without
\* onion skins), whether the render under way was done or not.
Refresh(n) ==
    /\ refreshes < MaxRefreshes * RefreshStep
    /\ refreshes' = refreshes + RefreshStep
    /\ refresh_id' = refreshes'
    /\ onion_layers' = n
    /\ onion_skin_queue' = [i \in 1..n |-> i]
    /\ onion_first_tile' = FALSE
    /\ frames' = 1
    /\ at' = "frame"
    /\ UNCHANGED <<seen, picture>>

\* next_frame(): what is returned is one too many, so that the last layer is
\* followed by a frame without one.
NextFrame ==
    /\ at = "frame"
    /\ IF onionskin
       THEN /\ onion_first_tile' = (onion_layers = Len(onion_skin_queue))
            /\ onion_skin_queue' = IF onion_skin_queue = <<>> THEN <<>> ELSE Tail(onion_skin_queue)
            /\ frames' = IF onion_skin_queue = <<>> THEN 0 ELSE Len(onion_skin_queue')+ 1
       ELSE frames' = 0 /\ UNCHANGED <<onion_skin_queue, onion_first_tile>>
    /\ at' = "tiles"
    /\ UNCHANGED <<refreshes, seen, picture, refresh_id, onion_layers>>

\* The refresh of the frame, and its layer.
FrameRefresh == refresh_id - Len(onion_skin_queue)
Layer == <<refresh_id, onion_layers - Len(onion_skin_queue)>>

\* Fault: a tile is marked up to date for all of the frames.
TileForAll(t) ==
    /\ at = "tiles"
    /\ seen[t] < FrameRefresh
    /\ seen' = [seen EXCEPT ![t] = refresh_id]
    /\ picture' = [picture EXCEPT ![t] =
                     IF ~onionskin \/ onion_first_tile \/ @ = {} THEN {Layer} ELSE @ \cup {Layer}]
    /\ UNCHANGED <<refreshes, target, frames, at>>

\* next_tile(), the rendering and add_tile() of tile t.
TileOf(t) ==
    /\ at = "tiles"
    /\ seen[t] < FrameRefresh
    /\ seen' = [seen EXCEPT ![t] = FrameRefresh]
    /\ picture' = [picture EXCEPT ![t] =
                     IF ~onionskin \/ onion_first_tile \/ @ = {} THEN {Layer} ELSE @ \cup {Layer}]
    /\ UNCHANGED <<refreshes, target, frames, at>>

\* No tile is left (next_unrendered_tile); the loop of render().
EndFrame ==
    /\ at = "tiles"
    /\ \A t \in Tiles : seen[t] >= FrameRefresh
    /\ at' = IF frames > 0 THEN "frame" ELSE "done"
    /\ UNCHANGED <<refreshes, seen, picture, target, frames>>

Next ==
    \/ \E n \in 0..MaxLayers : Refresh(n)
    \/ NextFrame
    \/ \E t \in Tiles : TileOf(t)
    \/ EndFrame

Spec == Init /\ [][Next]_vars

-----------------------------------------------------------------------------
TypeOK ==
    /\ refreshes \in Nat
    /\ seen \in [Tiles -> Int]
    /\ picture \in [Tiles -> SUBSET (Nat \X Nat)]
    /\ refresh_id \in Nat
    /\ onion_layers \in 0..MaxLayers
    /\ onion_skin_queue \in Seq(1..MaxLayers)
    /\ onion_first_tile \in BOOLEAN
    /\ frames \in Nat
    /\ at \in {"frame", "tiles", "done"}

Layers == IF onionskin THEN 1..onion_layers ELSE {0}

\* "Past and future onion skins enabled and selectable": when the render is done
\* every tile shows each of the layers, as of this refresh, and no other,
\* whatever was rendered of an earlier refresh that was given up.
AllLayersShown ==
    at = "done" /\ refreshes > 0 =>
        \A t \in Tiles : picture[t] = {<<refresh_id, l>> : l \in Layers}
=============================================================================
