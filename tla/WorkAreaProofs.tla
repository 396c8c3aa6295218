---------------------------- MODULE WorkAreaProofs ----------------------------
(***************************************************************************)
(* The flags of the work area and what it shows, for any tiles and any     *)
(* number of inputs.  The steps are those of QuietSpec: see there what it  *)
(* leaves out.                                                             *)
(***************************************************************************)
EXTENDS MCWorkArea, AsyncRendererProofs

\* A timer is there for those who count on one.
TimersInv ==
    /\ timers \in Nat /\ queued \in BOOLEAN /\ timer_id \in BOOLEAN
    /\ queued \/ timer_id => timers > 0
    /\ then = "sync" => ~timer_id

\* There is rendering as long as there is a target; only an update that has
\* just taken back the renderer, and will make another, is between the two.
RenderInv ==
    /\ then \in {"nothing", "update", "sync"}
    /\ rendering \in BOOLEAN /\ (rendering <=> target)
    /\ target /\ ~exists => then = "update"
    /\ target /\ exists => render_thread \/ (done_connection = "start" /\ then # "sync")
    /\ target /\ ~alive_flag => InStop
    /\ InStop /\ then = "nothing" => At("exited")
    /\ ~woken

AreaTypeOK ==
    /\ refreshes \in Nat /\ view \in Nat /\ cur_time \in Nat /\ refresh_id \in Nat
    /\ seen \in [Tiles -> Nat] /\ shown \in [Tiles -> Nat] /\ picture \in [Tiles -> Nat]
    /\ visible \subseteq Tiles
    /\ booked \in BOOLEAN /\ resized \in BOOLEAN /\ draw \in BOOLEAN /\ playing \in BOOLEAN

\* The render under way is for the last refresh, unless a handler is about to
\* replace it; what is shown is what is refreshed, unless a timer will refresh.
RefreshInv ==
    /\ \A t \in Tiles : seen[t] <= refreshes
    /\ refresh_id <= refreshes
    /\ resized => refreshes > 0
    /\ target => (refresh_id = refreshes <=> then = "nothing")
    /\ timers = 0 => cur_time = view

\* A tile is rendered or waits to be handed over.
OnItsWay(t) == target /\ refresh_id = refreshes /\ (t \in todo \/ t \in Queued)

\* A tile that is marked up to date is, or it is on its way.
MarkedInv ==
    timers = 0 =>
        \A t \in Tiles : seen[t] = refreshes => shown[t] = view \/ OnItsWay(t)

\* What waits to be handed over shows what is to be shown.
PicturesInv ==
    timers = 0 /\ target /\ refresh_id = refreshes => \A t \in Queued : picture[t] = view

\* A render that nobody stops loses nothing.
LosslessInv ==
    target /\ then = "nothing" =>
        /\ rpc \in {"none", "next_frame", "start_frame"} => todo = {}
        /\ rpc \in GivingOut \cup {"succeeded", "report", "exited"} => booked
        /\ rpc \in {"succeeded", "report", "exited"} => todo = {} /\ tile_queue = <<>>
        /\ ~At("failed")

\* When all has come to rest every tile in the window is marked up to date.
RestInv ==
    timers = 0 /\ ~target /\ then = "nothing" =>
        /\ booked
        /\ ~draw => \A t \in visible : seen[t] = refreshes

AreaInv ==
    /\ ControlInv /\ FrameInv
    /\ TimersInv /\ RenderInv /\ AreaTypeOK /\ RefreshInv
    /\ MarkedInv /\ PicturesInv /\ LosslessInv /\ RestInv

-----------------------------------------------------------------------------
(***************************************************************************)
(* A step of the work area is one of its renderer, or none.                *)
(***************************************************************************)

\* The render thread works for the work area without waits that end of themselves.
LEMMA ThreadSteps ==
    ASSUME AreaRenderStep
    PROVE  /\ RenderStep
           /\ UNCHANGED <<exists, gui, render_thread, target, alive_flag, woken>>
           /\ done_connection' = done_connection \/ At("report")
           /\ ~At("none") /\ ~At("exited") /\ rpc' # "none"
           /\ UNCHANGED <<view, cur_time, visible, refreshes, shown, resized, refresh_id, queued,
                          rendering, timers, timer_id, draw, then, playing>>
<1>1. CASE NextFrame /\ UNCHANGED area
    BY <1>1 DEF RenderStep, NextFrame, At, Goto, area, flags, book, renderer, queue
<1>2. CASE (AddTileWhileDead \/ AddTileWhileAlive) /\ UNCHANGED area
    BY <1>2 DEF RenderStep, AddTileWhileDead, AddTileWhileAlive, At, Goto, OnlyThread, area, flags,
       book, renderer, queue
<1>3. CASE (EndFrame \/ WakeUp \/ Boredom) /\ UNCHANGED area
    BY <1>3 DEF RenderStep, EndFrame, WakeUp, Boredom, At, Goto, OnlyThread, area, flags, book,
       renderer, queue
<1>4. CASE (FinishFrame \/ Report \/ Exit) /\ UNCHANGED area
    BY <1>4 DEF RenderStep, FinishFrame, Report, Exit, At, Goto, area, flags, book, renderer, queue
<1>5. CASE AreaStartFrame
    BY <1>5 DEF RenderStep, AreaStartFrame, StartFrame, At, Goto, flags, renderer, queue
<1>6. CASE \E t \in Tiles : AreaNextTile(t)
    BY <1>6 DEF RenderStep, AreaNextTile, NextTile, At, flags, renderer, queue
<1>7. CASE AreaNoMoreTiles
    BY <1>7 DEF RenderStep, AreaNoMoreTiles, NoMoreTiles, At, Goto, OnlyThread, area, flags, book,
       renderer, queue
<1>8. CASE AreaRender
    BY <1>8 DEF RenderStep, AreaRender, Render, At, Goto, OnlyThread, area, flags, book, renderer,
       queue
<1>9. CASE \E t \in Tiles : AreaPush(t)
    BY <1>9 DEF RenderStep, AreaPush, Push, At, Goto, flags, book, renderer
<1>10. QED
    BY <1>1, <1>2, <1>3, <1>4, <1>5, <1>6, <1>7, <1>8, <1>9 DEF AreaRenderStep

\* tile_ready comes from the main loop and takes all or, for a dead target, nothing.
LEMMA AreaTilesTaken ==
    ASSUME TypeOK, AreaTileReady
    PROVE  /\ TileStep /\ ~InStop /\ then = "nothing" /\ tile_source
           /\ tile_queue' = <<>> /\ alive_flag' = alive_flag
           /\ UNCHANGED <<renderer, thread, woken>>
<1>1. Len(tile_queue) \in Nat /\ tile_queue \in Seq(Tile)
    BY DEF TypeOK
<1>2. PICK k \in 0..Len(tile_queue) :
        /\ TileReady(k, FALSE)
        /\ k = Len(tile_queue) \/ ~alive_flag
    <2>1. TileReady(Len(tile_queue), FALSE) \/ (~alive_flag /\ TileReady(0, FALSE))
        BY DEF AreaTileReady
    <2>2. CASE TileReady(Len(tile_queue), FALSE)
        <3>1. Len(tile_queue) \in 0..Len(tile_queue)
            BY <1>1
        <3>2. QED
            BY <2>2, <3>1
    <2>3. CASE ~alive_flag /\ TileReady(0, FALSE)
        <3>1. 0 \in 0..Len(tile_queue)
            BY <1>1
        <3>2. QED
            BY <2>3, <3>1
    <2>4. QED
        BY <2>1, <2>2, <2>3
<1>3. /\ ~InStop /\ then = "nothing" /\ tile_source /\ UNCHANGED <<renderer, thread, woken>>
    BY <1>2 DEF AreaTileReady, MainLoop, TileReady
<1>4. tile_queue' = <<>> /\ alive_flag' = alive_flag
    <2>1. CASE alive_flag
        <3>1. alive_flag' = TRUE /\ tile_queue' = SubSeq(tile_queue, Len(tile_queue) + 1, Len(tile_queue))
            BY <1>2, <2>1 DEF TileReady
        <3>2. QED
            BY <1>1, <2>1, <3>1, SubSeqEmpty DEF TypeOK
    <2>2. CASE ~alive_flag
        BY <1>2, <2>2 DEF TileReady
    <2>3. QED
        BY <2>1, <2>2
<1>5. TileStep
    BY <1>2 DEF TileStep
<1>6. QED
    BY <1>3, <1>4, <1>5

\* Every step of the work area is a step of the renderer, or leaves it alone.
LEMMA AreaRefines ==
    ASSUME TypeOK, ~woken, [QuietNext]_areaVars
    PROVE  [Next]_vars /\ ~woken'
<1>1. CASE Change \/ Zoom \/ (\E V \in (SUBSET Tiles) \ {{}} : Scroll(V)) \/ Play \/ CalmFrame \/ PlayStop
    BY <1>1 DEF Change, Zoom, Scroll, Play, CalmFrame, PlayFrame, PlayStop, vars, queue
<1>2. CASE RenderPreview \/ RefreshCanvas \/ SyncUpdatePreview
    BY <1>2 DEF RenderPreview, RefreshCanvas, SyncUpdatePreview, vars, queue
<1>3. CASE AreaStartThread
    BY <1>3 DEF AreaStartThread, StartThread, queue, Next
<1>4. CASE AreaDone
    BY <1>4 DEF AreaDone, CallStop, queue, Next
<1>5. CASE AreaTileReady
    BY <1>5, AreaTilesTaken DEF Next
<1>6. CASE Discard
    BY <1>6 DEF Discard, CallStop, queue, Next, Client
<1>7. CASE AreaSetDead
    BY <1>7 DEF AreaSetDead, SetDead, Next, StopStep
<1>8. CASE AreaStopped
    BY <1>8 DEF AreaStopped, Stopped, Next, StopStep
<1>9. CASE AsyncUpdatePreview
    <2>1. 1 \in 1..MaxFrames
        BY RendererAssumption
    <2>2. Start(1)
        BY <1>9 DEF AsyncUpdatePreview
    <2>3. QED
        BY <2>1, <2>2 DEF Start, Next, Client
<1>10. CASE AreaRenderStep
    BY <1>10, ThreadSteps DEF Next
<1>11. CASE UNCHANGED areaVars
    BY <1>11 DEF areaVars, vars, queue
<1>12. QED
    BY <1>1, <1>2, <1>3, <1>4, <1>5, <1>6, <1>7, <1>8, <1>9, <1>10, <1>11 DEF QuietNext, EditInput,
       Working, Sources, Handler

-----------------------------------------------------------------------------
(***************************************************************************)
(* The flags and the numbers.                                              *)
(***************************************************************************)

\* The inputs and sources that leave the renderer alone.
Aside == Change \/ Zoom \/ (\E V \in (SUBSET Tiles) \ {{}} : Scroll(V)) \/ Play \/ CalmFrame \/ PlayStop
         \/ RenderPreview \/ RefreshCanvas

\* Flags are set with their timer, and cleared when it has called.
LEMMA TimersStep ==
    ASSUME TimersInv, [QuietNext]_areaVars
    PROVE  TimersInv'
<1>1. CASE Change
    <2>1. /\ then' = then
          /\ (QueueRenderPreview \/ UNCHANGED <<timers, queued, timer_id>>)
        BY <1>1 DEF Change, flags
    <2>2. CASE QueueRenderPreview
        <3>1. timer_id' \in BOOLEAN
            BY <2>2, Zenon DEF QueueRenderPreview
        <3>2. timers' \in Nat /\ timers' > 0 /\ queued' = TRUE
            BY <2>2 DEF QueueRenderPreview, TimersInv
        <3>3. then = "sync" => MainLoop /\ FALSE
            BY <1>1 DEF Change, MainLoop
        <3>4. QED
            BY <2>1, <3>1, <3>2, <3>3 DEF TimersInv
    <2>3. QED
        BY <2>1, <2>2 DEF TimersInv
<1>2. CASE Zoom
    BY <1>2 DEF Zoom, TimersInv, flags
<1>3. CASE (\E V \in (SUBSET Tiles) \ {{}} : Scroll(V)) \/ Play \/ PlayStop
    BY <1>3 DEF Scroll, Play, PlayStop, TimersInv, flags
<1>4. CASE CalmFrame
    BY <1>4 DEF CalmFrame, PlayFrame, TimersInv, flags
<1>5. CASE RenderPreview
    <2>1. timers' = timers - 1 /\ timers > 0 /\ queued' = FALSE /\ timer_id' = FALSE /\ then' = "update"
        BY <1>5 DEF RenderPreview
    <2>2. timers' \in Nat
        BY <2>1 DEF TimersInv
    <2>3. QED
        BY <2>1, <2>2 DEF TimersInv
<1>6. CASE RefreshCanvas
    BY <1>6 DEF RefreshCanvas, TimersInv, flags
<1>7. CASE AreaStartThread \/ AreaDone \/ AreaSetDead \/ UNCHANGED areaVars
    BY <1>7 DEF AreaStartThread, AreaDone, AreaSetDead, areaVars, area, TimersInv, flags
<1>8. CASE AreaTileReady \/ Discard \/ AreaStopped
    <2>1. UNCHANGED <<timers, timer_id, queued, then>>
        BY <1>8 DEF AreaTileReady, Discard, AreaStopped, flags
    <2>2. QED
        BY <2>1 DEF TimersInv
<1>9. CASE AsyncUpdatePreview
    BY <1>9 DEF AsyncUpdatePreview, TimersInv
<1>10. CASE SyncUpdatePreview
    BY <1>10 DEF SyncUpdatePreview, TimersInv
<1>11. CASE AreaRenderStep
    BY <1>11, ThreadSteps DEF TimersInv
<1>12. QED
    BY <1>1, <1>2, <1>3, <1>4, <1>5, <1>6, <1>7, <1>8, <1>9, <1>10, <1>11 DEF QuietNext, EditInput,
       Working, Sources, Handler

\* rendering is set with the target and cleared with it.
LEMMA RenderingStep ==
    ASSUME ControlInv, RenderInv, [QuietNext]_areaVars
    PROVE  RenderInv'
<1>1. [Next]_vars /\ ~woken'
    BY AreaRefines DEF ControlInv, RenderInv
<1>2. CASE Change
    <2>1. /\ UNCHANGED vars /\ then' = then /\ rendering' = rendering
        BY <1>2 DEF Change, flags, QueueRenderPreview
    <2>2. QED
        BY <2>1, <1>1 DEF RenderInv, vars, renderer, thread, queue, InStop, At
<1>3. CASE (\E V \in (SUBSET Tiles) \ {{}} : Scroll(V)) \/ Play \/ PlayStop \/ UNCHANGED areaVars
    <2>1. /\ UNCHANGED vars /\ then' = then /\ rendering' = rendering
        BY <1>3 DEF Scroll, Play, PlayStop, flags, areaVars, area
    <2>2. QED
        BY <2>1, <1>1 DEF RenderInv, vars, renderer, thread, queue, InStop, At
<1>4. CASE Zoom \/ CalmFrame \/ RenderPreview \/ RefreshCanvas
    <2>1. /\ UNCHANGED vars /\ rendering' = rendering /\ MainLoop
          /\ then' \in {"nothing", "update", "sync"}
          /\ then' = "sync" => done_connection # "start"
        BY <1>4 DEF Zoom, CalmFrame, PlayFrame, RenderPreview, RefreshCanvas, flags
    <2>2. QED
        BY <2>1, <1>1 DEF RenderInv, vars, renderer, thread, queue, InStop, At, MainLoop
<1>5. CASE AreaStartThread
    BY <1>1, <1>5 DEF AreaStartThread, StartThread, RenderInv, InStop, At, area, flags, queue
<1>6. CASE AreaDone
    <2>1. /\ CallStop("source") /\ UNCHANGED <<then, rendering>> /\ ~InStop /\ done_connection = "stop"
          /\ exists
        BY <1>6 DEF AreaDone, area, flags, CallStop
    <2>2. render_thread /\ At("exited")
        BY <2>1 DEF ControlInv, SourceKnown
    <2>3. exists' = exists /\ UNCHANGED <<render_thread, target, alive_flag, rpc>>
        BY <2>1 DEF CallStop, thread, queue
    <2>4. QED
        BY <1>1, <2>1, <2>2, <2>3 DEF RenderInv, At, InStop
<1>7. CASE Discard
    <2>1. /\ CallStop("client") /\ UNCHANGED <<then, rendering>> /\ ~InStop /\ then # "nothing" /\ exists
        BY <1>7 DEF Discard, flags, CallStop
    <2>2. UNCHANGED <<render_thread, target, alive_flag, rpc>>
        BY <2>1 DEF CallStop, thread, queue
    <2>3. \/ exists' /\ target /\ render_thread
          \/ ~exists' /\ ~(target /\ render_thread)
        BY <2>1 DEF CallStop
    <2>4. QED
        BY <1>1, <2>1, <2>2, <2>3 DEF RenderInv, At, InStop
<1>8. CASE AreaTileReady
    <2>1. UNCHANGED <<then, rendering>>
        BY <1>8 DEF AreaTileReady, flags
    <2>2. UNCHANGED <<gui, exists, done_connection, render_thread, target, alive_flag, rpc>>
        BY <1>8, AreaTilesTaken DEF ControlInv, renderer, thread
    <2>3. QED
        BY <1>1, <2>1, <2>2 DEF RenderInv, InStop, At
<1>9. CASE AreaSetDead
    BY <1>1, <1>9 DEF AreaSetDead, SetDead, RenderInv, InStop, At, thread, area, flags
<1>10. CASE AreaStopped
    BY <1>1, <1>10 DEF AreaStopped, Stopped, Released, RenderInv, InStop, At, thread
<1>11. CASE AsyncUpdatePreview
    BY <1>1, <1>11 DEF AsyncUpdatePreview, Start, RenderInv, InStop
<1>12. CASE SyncUpdatePreview
    BY <1>1, <1>12 DEF SyncUpdatePreview, RenderInv, InStop, vars, renderer, thread, queue, At
<1>13. CASE AreaRenderStep
    <2>1. /\ UNCHANGED <<exists, gui, render_thread, target, alive_flag, then, rendering>>
          /\ done_connection' = done_connection \/ At("report")
          /\ ~At("none") /\ ~At("exited")
        BY <1>13, ThreadSteps
    <2>2. ~render_thread => At("none") \/ At("exited")
        BY DEF ControlInv, ThreadKnown, At
    <2>3. render_thread
        BY <2>1, <2>2
    <2>4. QED
        BY <1>1, <2>1, <2>3 DEF RenderInv, InStop, At
<1>14. QED
    BY <1>2, <1>3, <1>4, <1>5, <1>6, <1>7, <1>8, <1>9, <1>10, <1>11, <1>12, <1>13 DEF QuietNext,
       EditInput, Working, Sources, Handler

\* Every step keeps the numbers and the book in their types.
LEMMA AreaTypeStep ==
    ASSUME TypeOK, AreaTypeOK, [QuietNext]_areaVars
    PROVE  AreaTypeOK'
<1>1. CASE Change
    <2>1. view' = view + 1 /\ UNCHANGED <<refreshes, cur_time, refresh_id, seen, shown, picture, visible,
                                           booked, resized, draw, playing>>
        BY <1>1 DEF Change, book
    <2>2. QED
        BY <2>1 DEF AreaTypeOK
<1>2. CASE Zoom
    <2>1. /\ view' = view + 1 /\ cur_time' \in {view + 1, cur_time} /\ resized' = TRUE
          /\ refreshes' = refreshes + 5
          /\ UNCHANGED <<refresh_id, seen, shown, picture, visible, booked, draw, playing>>
        BY <1>2 DEF Zoom, book, RefreshStep
    <2>2. QED
        BY <2>1 DEF AreaTypeOK
<1>3. CASE \E V \in (SUBSET Tiles) \ {{}} : Scroll(V)
    BY <1>3 DEF Scroll, AreaTypeOK, book
<1>4. CASE Play \/ PlayStop
    BY <1>4 DEF Play, PlayStop, AreaTypeOK, book
<1>5. CASE CalmFrame
    <2>1. /\ view' = view + 1 /\ cur_time' = view + 1 /\ refreshes' = refreshes + 5
          /\ UNCHANGED <<refresh_id, seen, shown, picture, visible, booked, resized, draw, playing>>
        BY <1>5 DEF CalmFrame, PlayFrame, book, RefreshStep
    <2>2. QED
        BY <2>1 DEF AreaTypeOK
<1>6. CASE RenderPreview
    <2>1. /\ cur_time' = view /\ refreshes' = refreshes + 5
          /\ UNCHANGED <<view, refresh_id, seen, shown, picture, visible, booked, resized, draw, playing>>
        BY <1>6 DEF RenderPreview, book, RefreshStep
    <2>2. QED
        BY <2>1 DEF AreaTypeOK
<1>7. CASE RefreshCanvas
    <2>1. /\ draw' = FALSE
          /\ UNCHANGED <<view, cur_time, refreshes, refresh_id, seen, shown, picture, visible, booked,
                         resized, playing>>
        BY <1>7 DEF RefreshCanvas, book
    <2>2. QED
        BY <2>1 DEF AreaTypeOK
<1>8. CASE AreaStartThread \/ AreaDone \/ AreaSetDead \/ UNCHANGED areaVars
    BY <1>8 DEF AreaStartThread, AreaDone, AreaSetDead, areaVars, area, AreaTypeOK, book
<1>9. CASE AreaTileReady
    <2> DEFINE given == IF alive_flag THEN Taken(Len(tile_queue)) ELSE {}
    <2>1. /\ shown' = [t \in Tiles |-> IF t \in given THEN picture[t] ELSE shown[t]]
          /\ draw' = (draw \/ given # {})
          /\ UNCHANGED <<view, cur_time, refreshes, refresh_id, seen, picture, visible, booked,
                         resized, playing>>
        BY <1>9 DEF AreaTileReady
    <2> HIDE DEF given
    <2>2. draw' \in BOOLEAN
        BY <2>1, Zenon
    <2>3. shown' \in [Tiles -> Nat]
        BY <2>1 DEF AreaTypeOK
    <2>4. QED
        BY <2>1, <2>2, <2>3 DEF AreaTypeOK
<1>10. CASE Discard
    <2>1. /\ draw' = (draw \/ (target /\ ~exists'))
          /\ UNCHANGED <<view, cur_time, refreshes, refresh_id, seen, shown, picture, visible, booked,
                         resized, playing>>
        BY <1>10 DEF Discard, book
    <2>2. draw' \in BOOLEAN
        BY <2>1, Zenon
    <2>3. QED
        BY <2>1, <2>2 DEF AreaTypeOK
<1>11. CASE AreaStopped
    BY <1>11 DEF AreaStopped, AreaTypeOK, book
<1>12. CASE AsyncUpdatePreview
    <2>1. /\ Resize /\ refresh_id' = refreshes
          /\ UNCHANGED <<view, cur_time, refreshes, picture, visible, draw, playing>>
        BY <1>12 DEF AsyncUpdatePreview
    <2>2. booked' \in BOOLEAN
        BY <2>1, Zenon DEF Resize
    <2>3. resized' = FALSE /\ seen' \in [Tiles -> Nat] /\ shown' \in [Tiles -> Nat]
        BY <2>1 DEF Resize, AreaTypeOK
    <2>4. QED
        BY <2>1, <2>2, <2>3 DEF AreaTypeOK
<1>13. CASE SyncUpdatePreview
    <2>1. /\ UNCHANGED <<view, cur_time, refreshes, refresh_id, picture, visible>>
          /\ playing' \in {FALSE, playing}
          /\ \/ UNCHANGED <<book, resized, draw>>
             \/ /\ resized' = FALSE /\ booked' = TRUE /\ draw' = TRUE
                /\ seen' = [t \in Tiles |-> IF t \in visible THEN refreshes
                                            ELSE IF resized THEN 0 ELSE seen[t]]
                /\ shown' = [t \in Tiles |-> IF t \in visible THEN view
                                             ELSE IF resized THEN 0 ELSE shown[t]]
        BY <1>13 DEF SyncUpdatePreview
    <2>2. CASE UNCHANGED <<book, resized, draw>>
        BY <2>1, <2>2 DEF AreaTypeOK, book
    <2>3. CASE /\ resized' = FALSE /\ booked' = TRUE /\ draw' = TRUE
               /\ seen' = [t \in Tiles |-> IF t \in visible THEN refreshes
                                           ELSE IF resized THEN 0 ELSE seen[t]]
               /\ shown' = [t \in Tiles |-> IF t \in visible THEN view
                                            ELSE IF resized THEN 0 ELSE shown[t]]
        <3>1. seen' \in [Tiles -> Nat] /\ shown' \in [Tiles -> Nat]
            BY <2>3 DEF AreaTypeOK
        <3>2. QED
            BY <2>1, <2>3, <3>1 DEF AreaTypeOK
    <2>4. QED
        BY <2>1, <2>2, <2>3
<1>14. CASE AreaRenderStep
    <2>1. UNCHANGED <<view, cur_time, visible, refreshes, shown, resized, refresh_id, draw, playing>>
        BY <1>14, ThreadSteps
    <2>2. seen' \in [Tiles -> Nat] /\ booked' \in BOOLEAN /\ picture' \in [Tiles -> Nat]
        <3>1. CASE AreaStartFrame
            <4>1. booked' = (booked \/ alive_flag) /\ UNCHANGED <<seen, picture>>
                BY <3>1 DEF AreaStartFrame
            <4>2. booked' \in BOOLEAN
                BY <4>1, Zenon
            <4>3. QED
                BY <4>1, <4>2 DEF AreaTypeOK
        <3>2. CASE \E t \in Tiles : AreaNextTile(t)
            BY <3>2 DEF AreaNextTile, AreaTypeOK
        <3>3. CASE \E t \in Tiles : AreaPush(t)
            <4>1. PICK t \in Tiles, v \in cur_time..view : picture' = [picture EXCEPT ![t] = v]
                BY <3>3 DEF AreaPush
            <4>2. v \in Nat
                BY DEF AreaTypeOK
            <4>3. QED
                BY <3>3, <4>1, <4>2 DEF AreaPush, AreaTypeOK, book
        <3>4. CASE UNCHANGED area
            BY <3>4 DEF area, book, AreaTypeOK
        <3>5. QED
            BY <1>14, <3>1, <3>2, <3>3, <3>4 DEF AreaRenderStep, AreaNoMoreTiles, AreaRender
    <2>3. QED
        BY <2>1, <2>2 DEF AreaTypeOK
<1>15. QED
    BY <1>1, <1>2, <1>3, <1>4, <1>5, <1>6, <1>7, <1>8, <1>9, <1>10, <1>11, <1>12, <1>13, <1>14
       DEF QuietNext, EditInput, Working, Sources, Handler

-----------------------------------------------------------------------------
(***************************************************************************)
(* What the steps do to the tiles and to what is to be shown.              *)
(***************************************************************************)

\* A change that is not made while playing has a timer refresh the tiles.
LEMMA ChangeEffect ==
    ASSUME TimersInv, Change, ~playing
    PROVE  /\ timers' # 0 /\ UNCHANGED vars
           /\ UNCHANGED <<refreshes, cur_time, refresh_id, seen, resized, booked, then>>
<1>1. QueueRenderPreview
    BY DEF Change
<1>2. timers' # 0
    BY <1>1 DEF QueueRenderPreview, TimersInv
<1>3. QED
    BY <1>2 DEF Change, book

\* What makes all tiles out of date goes on to render them.
LEMMA RaiseEffect ==
    ASSUME TimersInv, AreaTypeOK, RefreshInv, Zoom \/ CalmFrame \/ RenderPreview
    PROVE  /\ refreshes' = refreshes + 5 /\ then' # "nothing" /\ then = "nothing" /\ UNCHANGED vars
           /\ UNCHANGED <<refresh_id, seen, shown, picture, booked>>
           /\ timers' = 0 => cur_time' = view'
<1>1. CASE Zoom
    BY <1>1 DEF Zoom, MainLoop, RefreshStep, RefreshInv, book, flags
<1>2. CASE CalmFrame
    BY <1>2 DEF CalmFrame, PlayFrame, MainLoop, RefreshStep, book
<1>3. CASE RenderPreview
    BY <1>3 DEF RenderPreview, MainLoop, RefreshStep, book
<1>4. QED
    BY <1>1, <1>2, <1>3

\* What does not touch the tiles.
Idle ==
    \/ \E V \in (SUBSET Tiles) \ {{}} : Scroll(V)
    \/ Play \/ PlayStop \/ AreaStartThread \/ AreaDone \/ Discard \/ AreaSetDead
    \/ UNCHANGED areaVars

\* It leaves marks, pictures and queue; a scrolled window is drawn again.
LEMMA IdleEffect ==
    ASSUME ControlInv, Idle
    PROVE  /\ UNCHANGED <<timers, seen, shown, refreshes, refresh_id, picture, view, cur_time, resized,
                          booked, target, then, todo, tile_queue>>
           /\ rpc' = rpc \/ (At("none") /\ rpc' = "next_frame")
           /\ UNCHANGED <<draw, visible>> \/ draw' \/ then # "nothing"
<1>1. CASE \E V \in (SUBSET Tiles) \ {{}} : Scroll(V)
    BY <1>1 DEF Scroll, book, flags, vars, renderer, thread, queue
<1>2. CASE Play \/ PlayStop \/ UNCHANGED areaVars
    BY <1>2 DEF Play, PlayStop, areaVars, area, book, flags, vars, renderer, thread, queue
<1>3. CASE AreaStartThread
    BY <1>3 DEF AreaStartThread, StartThread, ControlInv, SourceKnown, At, area, book, flags, queue
<1>4. CASE AreaDone
    BY <1>4 DEF AreaDone, CallStop, area, book, flags, thread, queue
<1>5. CASE Discard
    BY <1>5 DEF Discard, CallStop, book, flags, thread, queue
<1>6. CASE AreaSetDead
    BY <1>6 DEF AreaSetDead, SetDead, area, book, flags, thread
<1>7. QED
    BY <1>1, <1>2, <1>3, <1>4, <1>5, <1>6 DEF Idle

\* Drawing the window may start an update, when there is no rendering.
LEMMA DrawEffect ==
    ASSUME RefreshCanvas
    PROVE  /\ UNCHANGED vars /\ then = "nothing" /\ then' \in {"nothing", "update"}
           /\ UNCHANGED <<timers, seen, shown, refreshes, refresh_id, picture, view, cur_time, resized,
                          booked, visible>>
           /\ then' = "update" => ~rendering /\ booked
           /\ booked /\ ~rendering /\ ~queued /\ then' # "update" => \A t \in visible : seen[t] = refreshes
BY DEF RefreshCanvas, MainLoop, Stale, book, flags

\* The end of stop(): the target is gone.
LEMMA StoppedEffect ==
    ASSUME AreaStopped
    PROVE  /\ ~target' /\ draw' /\ UNCHANGED <<rpc, todo>> /\ At("exited")
           /\ UNCHANGED <<timers, seen, shown, refreshes, refresh_id, picture, view, cur_time, resized,
                          booked, visible, then>>
BY DEF AreaStopped, Stopped, Released, At, thread, book

\* An update starts a render for the last refresh; another size empties the book.
LEMMA UpdateEffect ==
    ASSUME AsyncUpdatePreview
    PROVE  /\ then = "update" /\ then' = "nothing" /\ target' /\ rpc' = "none"
           /\ todo' = {} /\ tile_queue' = <<>> /\ refresh_id' = refreshes /\ ~resized'
           /\ UNCHANGED <<timers, refreshes, picture, view, cur_time, visible>>
           /\ IF resized THEN seen' = [t \in Tiles |-> 0]
              ELSE UNCHANGED <<seen, shown>>
BY DEF AsyncUpdatePreview, Start, Resize

\* A frame of playing is rendered at once: nothing else is rendering.
LEMMA SyncEffect ==
    ASSUME TimersInv, RenderInv, SyncUpdatePreview
    PROVE  /\ UNCHANGED vars /\ ~target /\ then' = "nothing" /\ draw' = TRUE /\ booked' = TRUE /\ ~resized'
           /\ UNCHANGED <<timers, refreshes, refresh_id, picture, view, cur_time, visible>>
           /\ seen' = [t \in Tiles |-> IF t \in visible THEN refreshes ELSE IF resized THEN 0 ELSE seen[t]]
           /\ shown' = [t \in Tiles |-> IF t \in visible THEN view ELSE IF resized THEN 0 ELSE shown[t]]
<1>1. then = "sync" /\ ~exists
    BY DEF SyncUpdatePreview
<1>2. ~target /\ ~rendering /\ ~timer_id
    BY <1>1 DEF TimersInv, RenderInv
<1>3. QED
    BY <1>2 DEF SyncUpdatePreview

\* tile_ready shows all that waits: the target is alive when nobody stops it.
LEMMA TakeEffect ==
    ASSUME ControlInv, RenderInv, AreaTileReady
    PROVE  /\ target /\ then = "nothing" /\ UNCHANGED <<target, rpc, todo>> /\ tile_queue' = <<>>
           /\ shown' = [t \in Tiles |-> IF t \in Queued THEN picture[t] ELSE shown[t]]
           /\ UNCHANGED <<timers, seen, refreshes, refresh_id, picture, view, cur_time, resized, booked,
                          visible, then>>
<1>1. /\ ~InStop /\ tile_source /\ then = "nothing" /\ tile_queue' = <<>>
      /\ UNCHANGED <<target, rpc, todo>>
    BY AreaTilesTaken DEF ControlInv, renderer, thread
<1>2. target /\ alive_flag
    BY <1>1 DEF ControlInv, ThreadKnown, RenderInv
<1>3. /\ shown' = [t \in Tiles |-> IF t \in Queued THEN picture[t] ELSE shown[t]]
      /\ UNCHANGED <<timers, seen, refreshes, refresh_id, picture, view, cur_time, resized, booked,
                     visible, then>>
    BY <1>2 DEF AreaTileReady, flags, Queued
<1>4. QED
    BY <1>1, <1>2, <1>3

\* A tile is only given out for the refresh of the render, which is the last.
LEMMA RefreshedStep ==
    ASSUME ControlInv, TimersInv, RenderInv, AreaTypeOK, RefreshInv, [QuietNext]_areaVars
    PROVE  RefreshInv'
<1>1. CASE ~playing /\ Change
    BY <1>1, ChangeEffect DEF RefreshInv, vars, renderer
<1>2. CASE Zoom \/ CalmFrame \/ RenderPreview
    <2>1. /\ refreshes' = refreshes + 5 /\ then' # "nothing" /\ target' = target
          /\ seen' = seen /\ refresh_id' = refresh_id
          /\ timers' = 0 => cur_time' = view'
        BY <1>2, RaiseEffect DEF vars, renderer
    <2>2. \A t \in Tiles : seen[t] <= refreshes'
        BY <2>1 DEF RefreshInv, AreaTypeOK
    <2>3. refreshes' > 0 /\ refresh_id <= refreshes' /\ refresh_id # refreshes'
        BY <2>1 DEF RefreshInv, AreaTypeOK
    <2>4. QED
        BY <2>1, <2>2, <2>3 DEF RefreshInv
<1>3. CASE Idle
    BY <1>3, IdleEffect DEF RefreshInv
<1>4. CASE RefreshCanvas
    BY <1>4, DrawEffect DEF RefreshInv, RenderInv, vars, renderer
<1>5. CASE AreaTileReady
    BY <1>5, TakeEffect DEF RefreshInv
<1>6. CASE AreaStopped
    BY <1>6, StoppedEffect DEF RefreshInv
<1>7. CASE AsyncUpdatePreview
    <2>1. /\ target' /\ then' = "nothing" /\ refresh_id' = refreshes /\ refreshes' = refreshes
          /\ ~resized' /\ UNCHANGED <<timers, view, cur_time>>
          /\ seen' \in {seen, [t \in Tiles |-> 0]}
        BY <1>7, UpdateEffect
    <2>2. \A t \in Tiles : seen'[t] <= refreshes
        BY <2>1 DEF RefreshInv, AreaTypeOK
    <2>3. refreshes <= refreshes
        BY DEF AreaTypeOK
    <2>4. QED
        BY <2>1, <2>2, <2>3 DEF RefreshInv
<1>8. CASE SyncUpdatePreview
    <2>1. /\ ~target' /\ refreshes' = refreshes /\ refresh_id' = refresh_id
          /\ ~resized' /\ UNCHANGED <<timers, view, cur_time>>
          /\ seen' = [t \in Tiles |-> IF t \in visible THEN refreshes ELSE IF resized THEN 0 ELSE seen[t]]
        BY <1>8, SyncEffect DEF vars, renderer
    <2>2. \A t \in Tiles : seen'[t] <= refreshes
        BY <2>1 DEF RefreshInv, AreaTypeOK
    <2>3. QED
        BY <2>1, <2>2 DEF RefreshInv
<1>9. CASE AreaRenderStep
    <2>1. UNCHANGED <<refreshes, refresh_id, resized, target, then, timers, view, cur_time>>
        BY <1>9, ThreadSteps
    <2>2. \A t \in Tiles : seen'[t] <= refreshes
        <3>1. CASE \E t \in Tiles : AreaNextTile(t)
            BY <3>1 DEF AreaNextTile, RefreshInv, AreaTypeOK
        <3>2. CASE seen' = seen
            BY <3>2 DEF RefreshInv
        <3>3. QED
            BY <1>9, <3>1, <3>2 DEF AreaRenderStep, AreaStartFrame, AreaNoMoreTiles, AreaRender, AreaPush,
               area, book
    <2>3. QED
        BY <2>1, <2>2 DEF RefreshInv
<1>10. QED
    BY <1>1, <1>2, <1>3, <1>4, <1>5, <1>6, <1>7, <1>8, <1>9 DEF QuietNext, EditInput,
       Working, Sources, Handler, Idle

-----------------------------------------------------------------------------
(***************************************************************************)
(* Nothing is lost, and nothing forgotten.                                 *)
(***************************************************************************)

\* While no handler is about to replace it, a living render is not refused.
LEMMA LosslessStep ==
    ASSUME ControlInv, FrameInv, TimersInv, RenderInv, AreaTypeOK, RefreshInv, LosslessInv,
           [QuietNext]_areaVars
    PROVE  LosslessInv'
<1>1. CASE ~playing /\ Change
    BY <1>1, ChangeEffect DEF LosslessInv, vars, renderer, thread, queue, At
<1>2. CASE Zoom \/ CalmFrame \/ RenderPreview
    BY <1>2, RaiseEffect DEF LosslessInv
<1>3. CASE Idle
    BY <1>3, IdleEffect DEF LosslessInv, GivingOut, At
<1>4. CASE RefreshCanvas
    BY <1>4, DrawEffect DEF LosslessInv, vars, renderer, thread, queue, At
<1>5. CASE AreaTileReady
    BY <1>5, TakeEffect DEF LosslessInv, At
<1>6. CASE AreaStopped
    BY <1>6, StoppedEffect DEF LosslessInv
<1>7. CASE AsyncUpdatePreview
    BY <1>7, UpdateEffect DEF LosslessInv, GivingOut, At
<1>8. CASE SyncUpdatePreview
    BY <1>8, SyncEffect DEF LosslessInv, vars, renderer
<1>9. CASE AreaRenderStep
    <2>1. /\ UNCHANGED <<target, then, alive_flag, woken>> /\ ~At("exited")
        BY <1>9, ThreadSteps
    <2> SUFFICES ASSUME target, then = "nothing" PROVE LosslessInv'
        BY <2>1 DEF LosslessInv
    <2>2. alive_flag
        BY <2>1 DEF RenderInv
    <2>3. CASE NextFrame /\ UNCHANGED area
        BY <2>2, <2>3 DEF NextFrame, LosslessInv, GivingOut, At, Goto, queue, area, book
    <2>4. CASE (AddTileWhileDead \/ AddTileWhileAlive) /\ UNCHANGED area
        BY <2>2, <2>4 DEF AddTileWhileDead, AddTileWhileAlive, LosslessInv, GivingOut, At, Goto,
           OnlyThread, area, book
    <2>5. CASE (EndFrame \/ WakeUp \/ Boredom) /\ UNCHANGED area
        BY <2>5 DEF EndFrame, WakeUp, Boredom, LosslessInv, GivingOut, At, Goto, OnlyThread, area, book
    <2>6. CASE FinishFrame /\ UNCHANGED area
        <3>1. tile_queue = <<>> /\ todo = {}
            BY <2>2, <2>6 DEF FinishFrame, FrameInv, QueueEmpty, RestDone, At
        <3>2. QED
            BY <2>6, <3>1 DEF FinishFrame, LosslessInv, GivingOut, At, Goto, queue, area, book
    <2>7. CASE (Report \/ Exit) /\ UNCHANGED area
        BY <2>7 DEF Report, Exit, LosslessInv, GivingOut, At, Goto, queue, area, book
    <2>8. CASE AreaStartFrame
        BY <2>2, <2>8 DEF AreaStartFrame, StartFrame, LosslessInv, GivingOut, At, Goto, queue
    <2>9. CASE \E t \in Tiles : AreaNextTile(t)
        BY <2>9 DEF AreaNextTile, NextTile, LosslessInv, GivingOut, At, queue
    <2>10. CASE AreaNoMoreTiles
        BY <2>10 DEF AreaNoMoreTiles, NoMoreTiles, LosslessInv, GivingOut, At, Goto, OnlyThread, area, book
    <2>11. CASE AreaRender
        BY <2>11 DEF AreaRender, Render, LosslessInv, GivingOut, At, Goto, OnlyThread, area, book
    <2>12. CASE \E t \in Tiles : AreaPush(t)
        BY <2>2, <2>12 DEF AreaPush, Push, LosslessInv, GivingOut, At, Goto, book
    <2>13. QED
        BY <1>9, <2>3, <2>4, <2>5, <2>6, <2>7, <2>8, <2>9, <2>10, <2>11, <2>12 DEF AreaRenderStep
<1>10. QED
    BY <1>1, <1>2, <1>3, <1>4, <1>5, <1>6, <1>7, <1>8, <1>9 DEF QuietNext, EditInput,
       Working, Sources, Handler, Idle

\* Marks and pictures stay right when neither they nor the queue are touched.
LEMMA MarksKept ==
    ASSUME MarkedInv, PicturesInv,
           UNCHANGED <<timers, seen, shown, refreshes, refresh_id, picture, view, target, tile_queue>>,
           todo \subseteq todo'
    PROVE  MarkedInv' /\ PicturesInv'
BY DEF MarkedInv, PicturesInv, OnItsWay, Queued, Taken

\* Nor can they be wrong of a refresh that no tile has seen.
LEMMA MarksRaised ==
    ASSUME AreaTypeOK, RefreshInv, refreshes' = refreshes + 5, UNCHANGED <<seen, refresh_id>>
    PROVE  MarkedInv' /\ PicturesInv'
<1>1. refresh_id' # refreshes' /\ \A t \in Tiles : seen'[t] # refreshes'
    BY DEF AreaTypeOK, RefreshInv
<1>2. QED
    BY <1>1 DEF MarkedInv, PicturesInv

\* A tile is marked before it is rendered, and may be thrown away with its
\* render; but then the refresh is not the last, or the tile has been shown.
LEMMA MarkedStep ==
    ASSUME ControlInv, FrameInv, TimersInv, RenderInv, AreaTypeOK, RefreshInv, LosslessInv,
           MarkedInv, PicturesInv, [QuietNext]_areaVars
    PROVE  MarkedInv' /\ PicturesInv'
<1>1. CASE ~playing /\ Change
    BY <1>1, ChangeEffect DEF MarkedInv, PicturesInv
<1>2. CASE Zoom \/ CalmFrame \/ RenderPreview
    BY <1>2, RaiseEffect, MarksRaised
<1>3. CASE Idle
    BY <1>3, IdleEffect, MarksKept
<1>4. CASE RefreshCanvas
    BY <1>4, DrawEffect, MarksKept DEF vars, renderer, thread, queue
<1>5. CASE AreaTileReady
    <2>1. /\ target /\ tile_queue' = <<>> /\ UNCHANGED <<target, todo>>
          /\ shown' = [t \in Tiles |-> IF t \in Queued THEN picture[t] ELSE shown[t]]
          /\ UNCHANGED <<timers, seen, refreshes, refresh_id, picture, view>>
          /\ refresh_id = refreshes
        BY <1>5, TakeEffect DEF RefreshInv
    <2>2. ~(\E t \in Queued' : TRUE)
        BY <2>1 DEF Queued, Taken
    <2>3. ASSUME timers = 0, NEW t \in Tiles, seen[t] = refreshes
          PROVE  shown'[t] = view \/ t \in todo
        <3>1. CASE t \in Queued
            BY <2>1, <2>3, <3>1 DEF PicturesInv
        <3>2. CASE t \notin Queued
            BY <2>1, <2>3, <3>2 DEF MarkedInv, OnItsWay
        <3>3. QED
            BY <3>1, <3>2
    <2>4. MarkedInv'
        BY <2>1, <2>3 DEF MarkedInv, OnItsWay
    <2>5. PicturesInv'
        BY <2>2 DEF PicturesInv
    <2>6. QED
        BY <2>4, <2>5
<1>6. CASE AreaStopped
    <2>1. /\ ~target' /\ UNCHANGED <<timers, seen, shown, refreshes, view>> /\ At("exited")
        BY <1>6, StoppedEffect
    <2>2. ~(\E t \in Tiles : OnItsWay(t))
        <3>1. CASE target /\ then = "nothing"
            <4>1. todo = {} /\ tile_queue = <<>>
                BY <2>1, <3>1 DEF LosslessInv, At
            <4>2. Queued = {}
                BY <4>1, QueuedEmpty
            <4>3. QED
                BY <4>1, <4>2 DEF OnItsWay
        <3>2. CASE ~(target /\ then = "nothing")
            BY <3>2 DEF OnItsWay, RefreshInv
        <3>3. QED
            BY <3>1, <3>2
    <2>3. QED
        BY <2>1, <2>2 DEF MarkedInv, PicturesInv, OnItsWay
<1>7. CASE AsyncUpdatePreview
    <2>1. /\ then = "update" /\ todo' = {} /\ tile_queue' = <<>>
          /\ UNCHANGED <<timers, refreshes, view>>
          /\ IF resized THEN seen' = [t \in Tiles |-> 0] ELSE UNCHANGED <<seen, shown>>
        BY <1>7, UpdateEffect
    <2>2. ~(\E t \in Queued' : TRUE)
        BY <2>1 DEF Queued, Taken
    <2>3. ~(\E t \in Tiles : OnItsWay(t))
        BY <2>1 DEF OnItsWay, RefreshInv
    <2>4. CASE resized
        <3>1. refreshes # 0
            BY <2>4 DEF RefreshInv
        <3>2. QED
            BY <2>1, <2>2, <2>4, <3>1 DEF MarkedInv, PicturesInv
    <2>5. CASE ~resized
        BY <2>1, <2>2, <2>3, <2>5 DEF MarkedInv, PicturesInv
    <2>6. QED
        BY <2>4, <2>5
<1>8. CASE SyncUpdatePreview
    <2>1. /\ ~target /\ ~target' /\ UNCHANGED <<timers, refreshes, view>>
          /\ seen' = [t \in Tiles |-> IF t \in visible THEN refreshes ELSE IF resized THEN 0 ELSE seen[t]]
          /\ shown' = [t \in Tiles |-> IF t \in visible THEN view ELSE IF resized THEN 0 ELSE shown[t]]
        BY <1>8, SyncEffect DEF vars, renderer
    <2>2. resized => refreshes # 0
        BY DEF RefreshInv
    <2>3. QED
        BY <2>1, <2>2 DEF MarkedInv, PicturesInv, OnItsWay
<1>9. CASE AreaRenderStep
    <2>1. UNCHANGED <<view, cur_time, refreshes, shown, refresh_id, target, timers, then, alive_flag>>
        BY <1>9, ThreadSteps
    <2>2. CASE (NextFrame \/ AddTileWhileDead \/ AddTileWhileAlive \/ EndFrame \/ WakeUp \/ Boredom
                \/ FinishFrame \/ Report \/ Exit) /\ UNCHANGED area
        <3>1. UNCHANGED <<todo, tile_queue, seen, picture>>
            BY <2>2 DEF NextFrame, AddTileWhileDead, AddTileWhileAlive, EndFrame, WakeUp, Boredom,
               FinishFrame, Report, Exit, OnlyThread, queue, area, book
        <3>2. QED
            BY <2>1, <3>1, MarksKept
    <2>3. CASE AreaNoMoreTiles \/ AreaRender
        <3>1. UNCHANGED <<todo, tile_queue, seen, picture>>
            BY <2>3 DEF AreaNoMoreTiles, AreaRender, NoMoreTiles, Render, OnlyThread, queue, area, book
        <3>2. QED
            BY <2>1, <3>1, MarksKept
    <2>4. CASE AreaStartFrame
        <3>1. /\ At("start_frame") /\ todo' = {} /\ UNCHANGED <<tile_queue, seen, picture>>
            BY <2>4 DEF AreaStartFrame, StartFrame, At, queue
        <3>2. CASE target /\ then = "nothing"
            <4>1. todo = {}
                BY <3>1, <3>2 DEF LosslessInv, At
            <4>2. QED
                BY <2>1, <3>1, <4>1, MarksKept
        <3>3. CASE ~(target /\ then = "nothing")
            BY <2>1, <3>1, <3>3 DEF MarkedInv, PicturesInv, OnItsWay, RefreshInv
        <3>4. QED
            BY <3>2, <3>3
    <2>5. CASE \E t \in Tiles : AreaNextTile(t)
        <3>1. PICK t \in Tiles : AreaNextTile(t)
            BY <2>5
        <3>2. /\ todo' = todo \cup {t} /\ seen' = [seen EXCEPT ![t] = refresh_id]
              /\ UNCHANGED <<tile_queue, picture>> /\ At("next_tile")
            BY <3>1 DEF AreaNextTile, NextTile, At, queue
        <3>3. target
            BY <3>2 DEF At, ControlInv, ThreadKnown
        <3>4. PicturesInv'
            BY <2>1, <3>2 DEF PicturesInv, Queued, Taken
        <3>5. MarkedInv'
            BY <2>1, <3>2, <3>3 DEF MarkedInv, OnItsWay, Queued, Taken, AreaTypeOK
        <3>6. QED
            BY <3>4, <3>5
    <2>6. CASE \E t \in Tiles : AreaPush(t)
        <3>1. PICK t \in Tiles : AreaPush(t)
            BY <2>6
        <3>2. /\ t \in todo /\ todo' = todo \ {t} /\ seen' = seen
              /\ tile_queue' = Append(tile_queue, [frame |-> frame, tile |-> t])
              /\ \E v \in cur_time..view : picture' = [picture EXCEPT ![t] = v]
            BY <3>1 DEF AreaPush, Push, book
        <3>3. Queued' = Queued \cup {t}
            <4>1. tile_queue \in Seq(Tile) /\ frame \in Nat
                BY RendererAssumption DEF ControlInv, TypeOK
            <4>2. QED
                BY <3>2, <4>1, QueuedPush
        <3>4. MarkedInv'
            BY <2>1, <3>2, <3>3 DEF MarkedInv, OnItsWay
        <3>5. timers = 0 => picture' = [picture EXCEPT ![t] = view]
            <4>1. PICK v \in cur_time..view : picture' = [picture EXCEPT ![t] = v]
                BY <3>2
            <4>2. timers = 0 => v = view
                BY DEF RefreshInv, AreaTypeOK
            <4>3. QED
                BY <4>1, <4>2
        <3>6. PicturesInv'
            BY <2>1, <3>2, <3>3, <3>5 DEF PicturesInv, AreaTypeOK
        <3>7. QED
            BY <3>4, <3>6
    <2>7. QED
        BY <1>9, <2>2, <2>3, <2>4, <2>5, <2>6 DEF AreaRenderStep
<1>10. QED
    BY <1>1, <1>2, <1>3, <1>4, <1>5, <1>6, <1>7, <1>8, <1>9 DEF QuietNext, EditInput,
       Working, Sources, Handler, Idle

\* All comes to rest only with a drawing that finds every tile marked up to date.
LEMMA RestStep ==
    ASSUME ControlInv, TimersInv, RenderInv, AreaTypeOK, RefreshInv, LosslessInv, RestInv,
           [QuietNext]_areaVars
    PROVE  RestInv'
<1>1. CASE ~playing /\ Change
    BY <1>1, ChangeEffect DEF RestInv
<1>2. CASE Zoom \/ CalmFrame \/ RenderPreview
    BY <1>2, RaiseEffect DEF RestInv
<1>3. CASE Idle
    BY <1>3, IdleEffect DEF RestInv
<1>4. CASE RefreshCanvas
    <2>1. queued => timers # 0
        BY DEF TimersInv
    <2>2. QED
        BY <1>4, <2>1, DrawEffect DEF RestInv, RenderInv, vars, renderer
<1>5. CASE AreaTileReady
    BY <1>5, TakeEffect DEF RestInv
<1>6. CASE AreaStopped
    <2>1. target
        BY <1>6 DEF AreaStopped, Stopped, ControlInv, ThreadKnown, SourceKnown
    <2>2. QED
        BY <1>6, <2>1, StoppedEffect DEF RestInv, LosslessInv, At
<1>7. CASE AsyncUpdatePreview
    BY <1>7, UpdateEffect DEF RestInv
<1>8. CASE SyncUpdatePreview
    BY <1>8, SyncEffect DEF RestInv
<1>9. CASE AreaRenderStep
    <2>1. target' = target /\ ~At("none") /\ ~At("exited")
        BY <1>9, ThreadSteps
    <2>2. target
        BY <2>1 DEF ControlInv, ThreadKnown, At
    <2>3. QED
        BY <2>1, <2>2 DEF RestInv
<1>10. QED
    BY <1>1, <1>2, <1>3, <1>4, <1>5, <1>6, <1>7, <1>8, <1>9 DEF QuietNext, EditInput,
       Working, Sources, Handler, Idle

-----------------------------------------------------------------------------
\* Initially a timer is to refresh everything.
LEMMA InitArea == AreaInit => AreaInv
<1> SUFFICES ASSUME AreaInit PROVE AreaInv
    OBVIOUS
<1>1. ControlInv /\ FrameInv
    BY InitControl, InitFrame DEF AreaInit
<1>2. AreaTypeOK
    BY DEF AreaInit, AreaTypeOK
<1>3. TimersInv /\ RenderInv
    <2>1. TimersInv
        BY DEF AreaInit, TimersInv
    <2>2. /\ then = "nothing" /\ rendering = FALSE /\ target = FALSE /\ ~InStop /\ ~woken
        BY DEF AreaInit, Init, InStop
    <2>3. RenderInv
        BY <2>2 DEF RenderInv
    <2>4. QED
        BY <2>1, <2>3
<1>4. RefreshInv
    BY DEF AreaInit, Init, RefreshInv
<1>5. MarkedInv /\ PicturesInv /\ LosslessInv /\ RestInv
    BY DEF AreaInit, Init, MarkedInv, PicturesInv, LosslessInv, RestInv
<1>6. QED
    BY <1>1, <1>2, <1>3, <1>4, <1>5 DEF AreaInv

\* Every step keeps the invariant.
LEMMA StepArea == AreaInv /\ [QuietNext]_areaVars => AreaInv'
<1> SUFFICES ASSUME AreaInv, [QuietNext]_areaVars PROVE AreaInv'
    OBVIOUS
<1>1. [Next]_vars /\ ~woken'
    BY AreaRefines DEF AreaInv, ControlInv, RenderInv
<1>2. ControlInv'
    BY <1>1, TypeStep, CountStep, KnownStep, ServedStep DEF AreaInv, ControlInv
<1>3. FrameInv'
    BY <1>1, FrameStep DEF AreaInv
<1>4. TimersInv' /\ RenderInv' /\ AreaTypeOK'
    BY TimersStep, RenderingStep, AreaTypeStep DEF AreaInv, ControlInv
<1>5. RefreshInv'
    BY RefreshedStep DEF AreaInv
<1>6. LosslessInv'
    BY LosslessStep DEF AreaInv
<1>7. MarkedInv' /\ PicturesInv'
    BY MarkedStep DEF AreaInv
<1>8. RestInv'
    BY RestStep DEF AreaInv
<1>9. QED
    BY <1>2, <1>3, <1>4, <1>5, <1>6, <1>7, <1>8 DEF AreaInv

(***************************************************************************)
(* The inductive invariant: each flag with its timer or its target, which  *)
(* refresh a render is for, what becomes of a tile that was marked, and    *)
(* what is known when all has come to rest.                                *)
(***************************************************************************)
THEOREM AreaInvariance == QuietSpec => []AreaInv
BY InitArea, StepArea, PTL DEF QuietSpec

(***************************************************************************)
(* queued, which keeps further refreshes from being asked for, is only set *)
(* while a timer will make one.                                            *)
(***************************************************************************)
THEOREM QueuedHasTimer == QuietSpec => []QueuedIsTrue
<1>1. AreaInv => QueuedIsTrue
    BY DEF AreaInv, TimersInv, QueuedIsTrue
<1>2. QED
    BY <1>1, AreaInvariance, PTL

(***************************************************************************)
(* rendering, which keeps drawings from updating and playing from          *)
(* rendering, is only set while a render will clear it or be replaced.     *)
(***************************************************************************)
THEOREM RenderingHasRender == QuietSpec => []RenderingIsTrue
<1>1. AreaInv => RenderingIsTrue
    BY DEF AreaInv, RenderInv, RenderingIsTrue, Rendering
<1>2. QED
    BY <1>1, AreaInvariance, PTL

(***************************************************************************)
(* The window never shows an old picture with nothing to come that will    *)
(* replace it, whatever was thrown away half way, for any tiles and any    *)
(* number of changes, zooms, scrolls and frames played.                    *)
(***************************************************************************)
THEOREM RefreshIsPending == QuietSpec => []RefreshPending
<1>1. AreaInv => RefreshPending
    <2> SUFFICES ASSUME AreaInv, timers = 0, then = "nothing", ~Rendering, ~draw, NEW t \in visible
                 PROVE  shown[t] = view
        BY DEF AreaInv, TimersInv, RefreshPending, Showing
    <2>1. ~target
        BY DEF AreaInv, RenderInv, Rendering
    <2>2. t \in Tiles /\ seen[t] = refreshes
        BY <2>1 DEF AreaInv, RestInv, AreaTypeOK
    <2>3. QED
        BY <2>1, <2>2 DEF AreaInv, MarkedInv, OnItsWay
<1>2. QED
    BY <1>1, AreaInvariance, PTL

===============================================================================
