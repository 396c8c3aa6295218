-------------------------------- MODULE WorkArea --------------------------------
(***************************************************************************)
(* studio::WorkArea and the renderer it draws with: the book of tiles, the *)
(* queue of refreshes and the AsyncRenderer composed, for a work area that *)
(* renders tiles (WorkAreaTarget) without onion skins, hence one frame.    *)
(*                                                                         *)
(* What the tiles should show, the canvas at the current time and zoom, is *)
(* a number, view, that every change raises.  A tile of the book holds the *)
(* refresh it was last given out for (its .second) and the view it shows.  *)
(* The main loop runs one handler at a time; a handler that first has to   *)
(* be rid of the renderer goes on afterwards with what then says.          *)
(***************************************************************************)
EXTENDS AsyncRenderer

CONSTANT MaxInputs    \* bound: what the user does

ASSUME WorkAreaAssumption == MaxInputs \in Nat

VARIABLES
    inputs,       \* bound: used up so far
    view,         \* what is to be shown
    cur_time,     \* view when the preview was last refreshed: its time and size
    visible,      \* the tiles inside the window
    refreshes,
    seen, shown,  \* per tile of the book: its refresh and its picture
    booked,       \* the book is not empty
    resized,      \* the size changes at the next update
    refresh_id,   \* of the client's target
    picture,      \* the views its tiles were rendered with
    queued, rendering,
    timers,       \* sources that will call __render_preview
    timer_id,     \* render_idle_func_id is not 0: the last of them is known
    draw,         \* the window is to be redrawn
    then,         \* the rest of the handler
    playing       \* CanvasView::is_playing_

book == <<seen, shown, booked>>
flags == <<queued, rendering, timers, timer_id>>
area == <<inputs, view, cur_time, visible, refreshes, book, resized, refresh_id, picture,
          flags, draw, then, playing>>
areaVars == <<vars, area>>

RefreshStep == 5
Views == 0..(MaxInputs + 1)    \* 0: nothing

MainLoop == ~InStop /\ then = "nothing"

AreaInit ==
    /\ Init
    /\ inputs = 0
    /\ view = 1
    /\ cur_time = 1
    /\ visible = Tiles
    /\ refreshes = 0
    /\ seen = [t \in Tiles |-> 0]
    /\ shown = [t \in Tiles |-> 0]
    /\ booked = FALSE
    /\ resized = FALSE
    /\ refresh_id = 0
    /\ picture = [t \in Tiles |-> 0]
    /\ queued = TRUE           \* the canvas view queues the first refresh
    /\ timers = 1
    /\ timer_id = TRUE
    /\ rendering = FALSE
    /\ draw = FALSE
    /\ then = "nothing"
    /\ playing = FALSE

-----------------------------------------------------------------------------
\* queue_render_preview(): nothing when queued already.
QueueRenderPreview ==
    /\ queued' = TRUE
    /\ timers' = IF queued THEN timers ELSE timers + 1
    /\ timer_id' = (timer_id \/ ~queued)
    /\ UNCHANGED rendering

Input == inputs < MaxInputs /\ inputs' = inputs + 1

\* The canvas or its time changes: signal_dirty, which is not listened to
\* while playing (on_dirty_preview).
Change ==
    /\ MainLoop
    /\ Input
    /\ view' = view + 1
    /\ IF playing THEN UNCHANGED flags ELSE QueueRenderPreview
    /\ UNCHANGED <<vars, cur_time, visible, refreshes, book, resized, refresh_id, picture,
                   draw, then, playing>>

\* set_zoom(): refreshes at once, at the time of the last refresh.
Zoom ==
    /\ MainLoop
    /\ Input
    /\ view' = view + 1
    /\ cur_time' = IF cur_time = view THEN view + 1 ELSE cur_time
    /\ resized' = TRUE
    /\ refreshes' = refreshes + RefreshStep
    /\ then' = "update"
    /\ UNCHANGED <<vars, visible, book, refresh_id, picture, flags, draw, playing>>

\* The window is scrolled or resized.
Scroll(V) ==
    /\ MainLoop
    /\ Input
    /\ visible' = V
    /\ draw' = TRUE
    /\ UNCHANGED <<vars, view, cur_time, refreshes, book, resized, refresh_id, picture,
                   flags, then, playing>>

\* Fault: the refresh is still marked as queued when it is made.
RenderPreviewQueued ==
    /\ MainLoop
    /\ timers > 0
    /\ timers' = timers - 1
    /\ timer_id' = FALSE
    /\ cur_time' = view
    /\ refreshes' = refreshes + RefreshStep
    /\ then' = "update"
    /\ UNCHANGED <<vars, inputs, view, visible, book, resized, refresh_id, picture,
                   queued, rendering, draw, playing>>

\* __render_preview and async_render_preview: refresh all of it.
RenderPreview ==
    /\ MainLoop
    /\ timers > 0
    /\ timers' = timers - 1
    /\ timer_id' = FALSE
    /\ queued' = FALSE
    /\ cur_time' = view
    /\ refreshes' = refreshes + RefreshStep
    /\ then' = "update"
    /\ UNCHANGED <<vars, inputs, view, visible, book, resized, refresh_id, picture,
                   rendering, draw, playing>>

Stale(t) == seen[t] # refreshes

\* Fault: drawing only shows what the book holds.
RefreshCanvasOnce ==
    /\ MainLoop
    /\ draw
    /\ draw' = FALSE
    /\ then' = "nothing"
    /\ UNCHANGED <<vars, inputs, view, cur_time, visible, refreshes, book, resized,
                   refresh_id, picture, flags, playing>>

\* Renderer_Canvas::render_vfunc: draws the book; a stale tile starts an update.
RefreshCanvas ==
    /\ MainLoop
    /\ draw
    /\ draw' = FALSE
    /\ then' = IF /\ booked
                  /\ \E t \in visible : Stale(t)
                  /\ ~rendering
                  /\ ~queued
               THEN "update" ELSE "nothing"
    /\ UNCHANGED <<vars, inputs, view, cur_time, visible, refreshes, book, resized,
                   refresh_id, picture, flags, playing>>

-----------------------------------------------------------------------------
\* async_renderer=0: the client stops its renderer; its target, when it goes,
\* queues a drawing of the window.
Discard ==
    /\ then # "nothing"
    /\ CallStop("client")
    /\ draw' = (draw \/ (target /\ ~exists'))
    /\ UNCHANGED <<inputs, view, cur_time, visible, refreshes, book, resized, refresh_id,
                   picture, flags, then, playing>>

AreaSetDead == SetDead /\ UNCHANGED area

\* Fault: async_update_finished is not connected.
AreaStoppedUntold ==
    /\ Stopped
    /\ draw' = TRUE
    /\ UNCHANGED <<inputs, view, cur_time, visible, refreshes, book, resized, refresh_id,
                   picture, flags, then, playing>>

\* stop() ends: the target goes, and async_update_finished is called.
AreaStopped ==
    /\ Stopped
    /\ draw' = TRUE
    /\ rendering' = FALSE
    /\ UNCHANGED <<inputs, view, cur_time, visible, refreshes, book, resized, refresh_id,
                   picture, queued, timers, timer_id, then, playing>>

\* set_wh() with another size clears the book.
Resize ==
    /\ resized' = FALSE
    /\ booked' = (booked /\ ~resized)
    /\ seen' = IF resized THEN [t \in Tiles |-> 0] ELSE seen
    /\ shown' = IF resized THEN [t \in Tiles |-> 0] ELSE shown

\* The rest of async_update_preview(): a new target and its renderer.
AsyncUpdatePreview ==
    /\ then = "update"
    /\ Start(1)
    /\ Resize
    /\ queued' = FALSE
    /\ refresh_id' = refreshes
    /\ rendering' = TRUE
    /\ then' = "nothing"
    /\ UNCHANGED <<inputs, view, cur_time, visible, refreshes, picture, timers, timer_id,
                   draw, playing>>

(***************************************************************************)
(* The rest of sync_update_preview(): all of it is rendered here and now,  *)
(* and the last timer is taken back, though queued stays as it was; unless *)
(* there is rendering already: then playing stops.                         *)
(***************************************************************************)
SyncUpdatePreview ==
    /\ then = "sync"
    /\ ~exists /\ ~InStop
    /\ then' = "nothing"
    /\ IF rendering
       THEN /\ playing' = FALSE
            /\ UNCHANGED <<book, resized, draw, timers, timer_id>>
       ELSE /\ resized' = FALSE
            /\ booked' = TRUE
            /\ seen' = [t \in Tiles |-> IF t \in visible THEN refreshes ELSE IF resized THEN 0 ELSE seen[t]]
            /\ shown' = [t \in Tiles |-> IF t \in visible THEN view ELSE IF resized THEN 0 ELSE shown[t]]
            /\ draw' = TRUE
            /\ timers' = IF timer_id THEN timers - 1 ELSE timers
            /\ timer_id' = FALSE
            /\ UNCHANGED playing
    /\ UNCHANGED <<vars, inputs, view, cur_time, visible, refreshes, refresh_id, picture,
                   queued, rendering>>

-----------------------------------------------------------------------------
\* play_async().
Play ==
    /\ MainLoop
    /\ Input
    /\ ~playing
    /\ playing' = TRUE
    /\ UNCHANGED <<vars, view, cur_time, visible, refreshes, book, resized, refresh_id,
                   picture, flags, draw, then>>

\* on_play_timeout(): the time moves on; sync_render_preview.
PlayFrame ==
    /\ MainLoop
    /\ Input
    /\ playing
    /\ view' = view + 1
    /\ cur_time' = view + 1
    /\ refreshes' = refreshes + RefreshStep
    /\ then' = "sync"
    /\ UNCHANGED <<vars, visible, book, resized, refresh_id, picture, flags, draw, playing>>

\* on_play_timeout() at the end: the time is set to it, then playing stops.
PlayEnd ==
    /\ MainLoop
    /\ Input
    /\ playing
    /\ view' = view + 1
    /\ playing' = FALSE
    /\ UNCHANGED <<vars, cur_time, visible, refreshes, book, resized, refresh_id, picture,
                   flags, draw, then>>

\* stop_async() by the user.
PlayStop ==
    /\ MainLoop
    /\ playing
    /\ playing' = FALSE
    /\ UNCHANGED <<vars, inputs, view, cur_time, visible, refreshes, book, resized, refresh_id,
                   picture, flags, draw, then>>

\* ~WorkArea: the id of the timer is forgotten, then the renderer goes.
Close ==
    /\ MainLoop
    /\ then' = "close"
    /\ timer_id' = FALSE
    /\ UNCHANGED <<vars, inputs, view, cur_time, visible, refreshes, book, resized,
                   refresh_id, picture, queued, rendering, timers, draw, playing>>

Closed == then = "close" /\ ~exists /\ ~InStop

-----------------------------------------------------------------------------
AreaStartThread == MainLoop /\ StartThread /\ UNCHANGED area

AreaDone == MainLoop /\ CallStop("source") /\ UNCHANGED area

\* tile_ready: WorkAreaTarget::add_tile puts the pictures into the book.
AreaTileReady ==
    /\ MainLoop
    /\ TileReady(Len(tile_queue), FALSE) \/ (~alive_flag /\ TileReady(0, FALSE))
    /\ LET given == IF alive_flag THEN Taken(Len(tile_queue)) ELSE {}
       IN  /\ shown' = [t \in Tiles |-> IF t \in given THEN picture[t] ELSE shown[t]]
           /\ draw' = (draw \/ given # {})
    /\ UNCHANGED <<inputs, view, cur_time, visible, refreshes, seen, booked, resized,
                   refresh_id, picture, flags, then, playing>>

\* start_frame() sizes the book.
AreaStartFrame ==
    /\ StartFrame
    /\ booked' = (booked \/ alive_flag)
    /\ UNCHANGED <<inputs, view, cur_time, visible, refreshes, seen, shown, resized,
                   refresh_id, picture, flags, draw, then, playing>>

\* Fault: the tile is marked with the refresh the work area wants by now.
AreaNextTileCurrent(t) ==
    /\ NextTile(t)
    /\ t \in visible
    /\ seen[t] < refresh_id
    /\ seen' = [seen EXCEPT ![t] = refreshes]
    /\ UNCHANGED <<inputs, view, cur_time, visible, refreshes, shown, booked, resized,
                   refresh_id, picture, flags, draw, then, playing>>

\* next_tile(): a visible tile older than this refresh is marked up to date
\* and given out.
AreaNextTile(t) ==
    /\ NextTile(t)
    /\ t \in visible
    /\ seen[t] < refresh_id
    /\ seen' = [seen EXCEPT ![t] = refresh_id]
    /\ UNCHANGED <<inputs, view, cur_time, visible, refreshes, shown, booked, resized,
                   refresh_id, picture, flags, draw, then, playing>>

AreaNoMoreTiles ==
    /\ NoMoreTiles
    /\ alive_flag => \A t \in visible : seen[t] >= refresh_id
    /\ UNCHANGED area

\* The tile shows the canvas as it was at some moment since the refresh.
AreaPush(t) ==
    /\ Push(t)
    /\ \E v \in cur_time..view : picture' = [picture EXCEPT ![t] = v]
    /\ UNCHANGED <<inputs, view, cur_time, visible, refreshes, book, resized, refresh_id,
                   flags, draw, then, playing>>

\* Rendering does not fail of itself.
AreaRender == Render /\ rpc' # "failed" /\ UNCHANGED area

\* Nor does a wait end of itself, which would leave tiles behind.
AreaRenderStep ==
    \/ /\ \/ NextFrame \/ AddTileWhileDead \/ AddTileWhileAlive
          \/ EndFrame \/ WakeUp \/ Boredom \/ FinishFrame \/ Report \/ Exit
       /\ UNCHANGED area
    \/ AreaStartFrame
    \/ \E t \in Tiles : AreaNextTile(t)
    \/ AreaNoMoreTiles \/ AreaRender
    \/ \E t \in Tiles : AreaPush(t)

Handler ==
    \/ Discard \/ AreaSetDead \/ AreaStopped
    \/ AsyncUpdatePreview \/ SyncUpdatePreview

EditInput ==
    \/ Change \/ Zoom
    \/ \E V \in (SUBSET Tiles) \ {{}} : Scroll(V)

PlayInput == Play \/ PlayFrame \/ PlayEnd \/ PlayStop

Sources == RenderPreview \/ RefreshCanvas \/ AreaStartThread \/ AreaDone \/ AreaTileReady

\* The main loop calls each source that is ready, and the threads run.
AreaFairness ==
    /\ WF_areaVars(RenderPreview)
    /\ WF_areaVars(RefreshCanvas)
    /\ WF_areaVars(AreaStartThread)
    /\ WF_areaVars(AreaDone)
    /\ WF_areaVars(AreaTileReady)
    /\ WF_areaVars(Handler)
    /\ WF_areaVars(AreaRenderStep)

AreaNext == EditInput \/ PlayInput \/ Close \/ Sources \/ Handler \/ AreaRenderStep

AreaSpec == AreaInit /\ [][AreaNext]_areaVars /\ AreaFairness

-----------------------------------------------------------------------------
Showing == \A t \in visible : shown[t] = view

Rendering == exists /\ target

\* "We don't want to render if we are already rendering": the flag that keeps
\* drawings from updating, and playing from rendering, is set only while there
\* is a render that will come to an end and clear it.
RenderingIsTrue == rendering => Rendering \/ then # "nothing"

\* "If we are queued to render the scene at the next idle go ahead and de-queue
\* it": the flag that keeps further refreshes and drawings from asking for one
\* is set only while a refresh is on its way.
QueuedIsTrue == queued => timers > 0

\* What the window shows is never out of date with nothing to come that will
\* bring it up to date: tiles are marked up to date before they are rendered,
\* renders are thrown away half way, and drawings skip what is being rendered.
RefreshPending ==
    ~Showing => timers > 0 \/ then # "nothing" \/ Rendering \/ draw

\* When the user leaves it alone, the window comes to show the canvas as it is
\* and stays so ("Signal called when the canvas's preview needs to be updated").
PreviewUpdated == <>[](Showing \/ then = "close")

\* "don't leave the render function queued if we are about to vanish"
NothingQueuedWhenGone == Closed => timers = 0
=============================================================================
