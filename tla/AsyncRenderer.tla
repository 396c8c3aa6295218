----------------------------- MODULE AsyncRenderer ------------------------------
(***************************************************************************)
(* studio::AsyncRenderer and its AsyncTarget_Tile: one render at a time of *)
(* the work area, in a thread of its own.  The render thread runs          *)
(* Target_Tile::render on the asynchronous target and queues the tiles;    *)
(* the GUI thread hands them to the target the client gave, from its main  *)
(* loop.  GLIB_DISPATCHER_BROKEN and REJOIN_ON_STOP are defined, and       *)
(* SINGLE_THREADED is not (it is on Windows only).                         *)
(*                                                                         *)
(* alive_flag is read by the render thread without a lock; everything done *)
(* under AsyncTarget_Tile::mutex is one step, because what another thread  *)
(* reads meanwhile is alive_flag as before or as after.  The mutex of the  *)
(* renderer is held from the beginning of stop() to its end, over the      *)
(* join.                                                                   *)
(***************************************************************************)
EXTENDS Integers, Sequences

CONSTANTS
    Tiles,       \* the tiles of a frame
    MaxFrames    \* bound: frames of one render (onion skins)

ASSUME RendererAssumption == MaxFrames \in Nat \ {0}

VARIABLES
    \* the client and the renderer, in the GUI thread
    exists,         \* the client's handle is not null
    gui,            \* in stop(): whose call, and how far it is
    done_connection,\* what the source behind it will call: start_ or stop
    render_thread,  \* the pointer is not null
    target,         \* the handle is not null
    signals,        \* those the renderer has emitted to its client
    \* the render thread
    rpc,            \* what it does next
    frames,         \* frames to render after this one
    todo,           \* tiles of the frame gathered and not yet queued
    success, error,
    \* the asynchronous target
    alive_flag,
    tile_queue,
    tile_source,    \* ready_connection has a source to call tile_ready
    signalled,      \* cond_tile_queue_empty was signalled during the wait
    woken,          \* a wait of this render has ended of itself (history)
    \* the client's target
    frame,          \* next_frame calls
    due,            \* tiles it gave out in this frame
    delivered,      \* tiles it got in this frame
    ended           \* end_frame calls

renderer == <<exists, gui, done_connection, render_thread, target, signals>>
thread == <<rpc, frames, todo, success, error>>
queue == <<alive_flag, tile_queue, tile_source, signalled, woken>>
warm_target == <<frame, due, delivered, ended>>
vars == <<renderer, thread, queue, warm_target>>

Tile == [frame : Nat, tile : Tiles]

\* Where stop() can be: not called, with the mutex, waiting for the thread.
Callers == {"client", "source"}
Stopping == {<<c, at>> : c \in Callers, at \in {"locked", "joining"}}
InStop == gui # <<>>

Init ==
    /\ exists = FALSE
    /\ gui = <<>>
    /\ done_connection = "none"
    /\ render_thread = FALSE
    /\ target = FALSE
    /\ signals = {}
    /\ rpc = "none"
    /\ frames = 0
    /\ todo = {}
    /\ success = FALSE
    /\ error = FALSE
    /\ alive_flag = FALSE
    /\ tile_queue = <<>>
    /\ tile_source = FALSE
    /\ signalled = FALSE
    /\ woken = FALSE
    /\ frame = 0
    /\ due = {}
    /\ delivered = {}
    /\ ended = 0

-----------------------------------------------------------------------------
\* The client makes a renderer for a new target of n frames and starts it.
Start(n) ==
    /\ ~exists
    /\ ~InStop
    /\ exists' = TRUE
    /\ done_connection' = "start"
    /\ render_thread' = FALSE
    /\ target' = TRUE
    /\ signals' = {}
    /\ rpc' = "none"
    /\ frames' = n
    /\ todo' = {}
    /\ success' = FALSE
    /\ error' = FALSE
    /\ alive_flag' = TRUE
    /\ tile_queue' = <<>>
    /\ tile_source' = FALSE
    /\ signalled' = FALSE
    /\ woken' = FALSE
    /\ frame' = 0
    /\ due' = {}
    /\ delivered' = {}
    /\ ended' = 0
    /\ UNCHANGED gui

\* start_(), 50 ms later: the render thread begins.
StartThread ==
    /\ ~InStop
    /\ done_connection = "start"
    /\ done_connection' = "none"
    /\ success' = FALSE
    /\ error' = FALSE
    /\ render_thread' = TRUE
    /\ rpc' = "next_frame"
    /\ UNCHANGED <<exists, gui, target, signals, frames, todo, queue, warm_target>>

(***************************************************************************)
(* stop(), called by the source that render_target leaves behind or by the *)
(* client, whose handle is then gone.  Without a thread it only takes the  *)
(* source back.                                                            *)
(***************************************************************************)
CallStop(c) ==
    /\ ~InStop
    /\ exists
    /\ c = "source" => done_connection = "stop"
    /\ done_connection' = IF c = "source" \/ target THEN "none" ELSE done_connection
    /\ IF target /\ render_thread
       THEN gui' = <<c, "locked">> /\ UNCHANGED exists
       ELSE exists' = (c # "client") /\ UNCHANGED gui
    /\ UNCHANGED <<render_thread, target, signals, thread, queue, warm_target>>

\* signal_stop_(): set_dead.
SetDead ==
    /\ InStop
    /\ gui[2] = "locked"
    /\ alive_flag' = FALSE
    /\ gui' = <<gui[1], "joining">>
    /\ UNCHANGED <<exists, done_connection, render_thread, target, signals,
                   thread, tile_queue, tile_source, signalled, woken, warm_target>>

\* The last reference to the asynchronous target goes, its connection with it.
Released ==
    /\ target' = FALSE
    /\ render_thread' = FALSE
    /\ tile_source' = FALSE
    /\ tile_queue' = <<>>

\* Fault: stop() does not wait for the thread.
StoppedNoJoin ==
    /\ InStop
    /\ gui[2] = "joining"
    /\ signals' = signals \cup {"finished"} \cup (IF success THEN {"success"} ELSE {})
    /\ gui' = <<>>
    /\ exists' = (gui[1] # "client")
    /\ Released
    /\ UNCHANGED <<done_connection, thread, alive_flag, signalled, woken, warm_target>>

\* The thread has been joined; the rest of stop().
Stopped ==
    /\ InStop
    /\ gui[2] = "joining"
    /\ rpc = "exited"
    /\ signals' = signals \cup {"finished"} \cup (IF success THEN {"success"} ELSE {})
    /\ gui' = <<>>
    /\ exists' = (gui[1] # "client")
    /\ Released
    /\ UNCHANGED <<done_connection, thread, alive_flag, signalled, woken, warm_target>>

-----------------------------------------------------------------------------
\* The tiles at the front of the queue that the client's target takes.
Taken(k) == {tile_queue[i].tile : i \in 1..k}

\* Fault: one tile is handed over each time, and nothing calls again.
TileReadyOne(k, refused) ==
    /\ ~InStop
    /\ tile_source
    /\ tile_source' = FALSE
    /\ signalled' = (rpc = "timed_wait")
    /\ IF alive_flag
       THEN /\ k = 1 /\ ~refused
            /\ tile_queue' = Tail(tile_queue)
            /\ delivered' = delivered \cup Taken(1)
            /\ UNCHANGED alive_flag
       ELSE /\ tile_queue' = <<>>
            /\ k = 0 /\ ~refused
            /\ UNCHANGED <<alive_flag, delivered>>
    /\ UNCHANGED <<renderer, thread, woken, frame, due, ended>>

(***************************************************************************)
(* tile_ready(): all tiles go to the client's target, until it refuses one *)
(* (after k of them), which leaves the target dead and the rest queued.    *)
(***************************************************************************)
TileReady(k, refused) ==
    /\ ~InStop
    /\ tile_source
    /\ tile_source' = FALSE
    /\ signalled' = (rpc = "timed_wait")
    /\ IF alive_flag
       THEN /\ k \in 0..Len(tile_queue)
            /\ refused = (k < Len(tile_queue))
            /\ alive_flag' = ~refused
            /\ tile_queue' = SubSeq(tile_queue, k + (IF refused THEN 2 ELSE 1), Len(tile_queue))
            /\ delivered' = delivered \cup Taken(k)
       ELSE /\ k = 0 /\ ~refused
            /\ tile_queue' = <<>>
            /\ UNCHANGED <<alive_flag, delivered>>
    /\ UNCHANGED <<renderer, thread, woken, frame, due, ended>>

-----------------------------------------------------------------------------
\* The render thread goes on to p and touches nothing but what is not named.
At(p) == rpc = p
Goto(p) == rpc' = p
OnlyThread == UNCHANGED <<renderer, queue, warm_target, frames, todo, success, error>>

\* next_frame(), and the part of start_frame() that refuses when dead.
NextFrame ==
    /\ At("next_frame")
    /\ IF alive_flag
       THEN /\ Goto("start_frame")
            /\ frames' = frames - 1
            /\ frame' = frame + 1
            /\ due' = {}
            /\ delivered' = {}
       ELSE Goto("failed") /\ UNCHANGED <<frames, frame, due, delivered>>
    /\ UNCHANGED <<renderer, queue, todo, success, error, ended>>

StartFrame ==
    /\ At("start_frame")
    /\ Goto(IF alive_flag THEN "next_tile" ELSE "failed")
    /\ todo' = {}
    /\ UNCHANGED <<renderer, queue, warm_target, frames, success, error>>

\* The client's target gives out one more tile of the frame.
NextTile(t) ==
    /\ At("next_tile")
    /\ alive_flag
    /\ t \notin due
    /\ due' = due \cup {t}
    /\ todo' = todo \cup {t}
    /\ UNCHANGED <<rpc, renderer, queue, frame, delivered, ended, frames, success, error>>

\* It has no more, or the target is dead and gives 0.
NoMoreTiles ==
    /\ At("next_tile")
    /\ Goto("render")
    /\ OnlyThread

\* A group of tiles is rendered, or fails to; add_tile() looks at alive_flag.
Render ==
    /\ At("render")
    /\ IF todo = {}
       THEN Goto("end_frame")
       ELSE Goto("add_tile") \/ Goto("failed")
    /\ OnlyThread

AddTileWhileDead ==
    /\ At("add_tile")
    /\ ~alive_flag
    /\ Goto("failed")
    /\ OnlyThread

AddTileWhileAlive ==
    /\ At("add_tile")
    /\ alive_flag
    /\ Goto("push")
    /\ OnlyThread

\* add_tile() with the mutex: the target may have died since.
Push(t) ==
    /\ At("push")
    /\ t \in todo
    /\ todo' = todo \ {t}
    /\ tile_queue' = Append(tile_queue, [frame |-> frame, tile |-> t])
    /\ tile_source' = (tile_source \/ tile_queue = <<>>)
    /\ Goto(IF alive_flag THEN "render" ELSE "failed")
    /\ UNCHANGED <<renderer, alive_flag, signalled, woken, warm_target, frames, success, error>>

\* end_frame(): wait for tile_ready while there are tiles and life.
EndFrame ==
    /\ At("end_frame")
    /\ Goto(IF alive_flag /\ tile_queue # <<>> THEN "timed_wait" ELSE "finish_frame")
    /\ signalled' = FALSE
    /\ UNCHANGED <<renderer, alive_flag, tile_queue, tile_source, woken, warm_target,
                   frames, todo, success, error>>

\* The wait ends with a signal.
WakeUp ==
    /\ At("timed_wait")
    /\ signalled
    /\ Goto("finish_frame")
    /\ OnlyThread

\* The wait ends without one, as waits on a condition may.
WakeUpSpuriously ==
    /\ At("timed_wait")
    /\ Goto("finish_frame")
    /\ woken' = TRUE
    /\ UNCHANGED <<renderer, alive_flag, tile_queue, tile_source, signalled, warm_target,
                   frames, todo, success, error>>

\* Fault: the wait has no timeout.
BoredomNever ==
    /\ At("timed_wait")
    /\ signalled
    /\ Goto("end_frame")
    /\ OnlyThread

\* Fault: when the time of the wait is over, the frame is.
BoredomOver ==
    /\ At("timed_wait")
    /\ Goto("finish_frame")
    /\ OnlyThread

\* BOREDOM_TIMEOUT: look again.
Boredom ==
    /\ At("timed_wait")
    /\ Goto("end_frame")
    /\ OnlyThread

\* Fault: one frame too many.
FinishFrameAgain ==
    /\ At("finish_frame")
    /\ ended' = IF alive_flag THEN ended + 1 ELSE ended
    /\ Goto(IF frames >= 0 THEN "next_frame" ELSE "succeeded")
    /\ UNCHANGED <<renderer, queue, frame, due, delivered, frames, todo, success, error>>

\* The rest of end_frame(), then the condition of render()'s loop.
FinishFrame ==
    /\ At("finish_frame")
    /\ ended' = IF alive_flag THEN ended + 1 ELSE ended
    /\ Goto(IF frames > 0 THEN "next_frame" ELSE "succeeded")
    /\ UNCHANGED <<renderer, queue, frame, due, delivered, frames, todo, success, error>>

\* Fault: render_target returns as soon as the render has failed.
ReportSuccessOnly ==
    /\ rpc \in {"succeeded", "failed"}
    /\ success' = (success \/ At("succeeded"))
    /\ error' = (error \/ At("failed"))
    /\ IF At("failed") THEN Goto("exited") ELSE Goto("report")
    /\ UNCHANGED <<renderer, queue, warm_target, frames, todo>>

\* render_target() with the result of render().
Report ==
    /\ rpc \in {"succeeded", "failed"}
    /\ success' = (success \/ At("succeeded"))
    /\ error' = (error \/ At("failed"))
    /\ Goto("report")
    /\ UNCHANGED <<renderer, queue, warm_target, frames, todo>>

\* trylock: unless stop() is under way, a source will call it; the thread ends.
Exit ==
    /\ At("report")
    /\ Goto("exited")
    /\ done_connection' = IF InStop THEN done_connection ELSE "stop"
    /\ UNCHANGED <<exists, gui, render_thread, target, signals,
                   queue, warm_target, frames, todo, success, error>>

-----------------------------------------------------------------------------
RenderStep ==
    \/ NextFrame \/ StartFrame
    \/ \E t \in Tiles : NextTile(t)
    \/ NoMoreTiles \/ Render
    \/ AddTileWhileDead \/ AddTileWhileAlive
    \/ \E t \in Tiles : Push(t)
    \/ EndFrame \/ WakeUp \/ Boredom \/ FinishFrame
    \/ Report \/ Exit

TileStep == \E k \in 0..Len(tile_queue), refused \in BOOLEAN : TileReady(k, refused)

StopStep == SetDead \/ Stopped

Client ==
    \/ \E n \in 1..MaxFrames : Start(n)
    \/ CallStop("client")

Next ==
    \/ Client
    \/ StartThread \/ CallStop("source") \/ StopStep \/ TileStep
    \/ RenderStep \/ WakeUpSpuriously

(***************************************************************************)
(* The main loop calls every source in turn, and both threads run.  The    *)
(* client need not do anything.                                            *)
(***************************************************************************)
Fairness ==
    /\ WF_vars(StartThread)
    /\ WF_vars(CallStop("source"))
    /\ WF_vars(TileStep)
    /\ WF_vars(StopStep)
    /\ WF_vars(RenderStep)

Spec == Init /\ [][Next]_vars /\ Fairness

-----------------------------------------------------------------------------
TypeOK ==
    /\ exists \in BOOLEAN
    /\ gui \in {<<>>} \cup Stopping
    /\ done_connection \in {"none", "start", "stop"}
    /\ render_thread \in BOOLEAN
    /\ target \in BOOLEAN
    /\ signals \subseteq {"success", "finished"}
    /\ rpc \in {"none", "next_frame", "start_frame", "next_tile", "render", "add_tile", "push",
                "end_frame", "timed_wait", "finish_frame", "succeeded", "failed", "report", "exited"}
    /\ frames \in 0..MaxFrames
    /\ todo \subseteq Tiles
    /\ success \in BOOLEAN
    /\ error \in BOOLEAN
    /\ alive_flag \in BOOLEAN
    /\ tile_queue \in Seq(Tile)
    /\ tile_source \in BOOLEAN
    /\ signalled \in BOOLEAN
    /\ woken \in BOOLEAN
    /\ frame \in 0..MaxFrames
    /\ due \subseteq Tiles
    /\ delivered \subseteq Tiles
    /\ ended \in 0..MaxFrames

\* The client's target is told that its frame has ended only when it has all
\* the tiles it gave out: the tiles come through the main loop of another
\* thread, and end_frame() takes the signal of tile_ready for their arrival.
\* Only a wait that ended of itself makes it err: it does not look again.
FrameComplete == At("finish_frame") /\ alive_flag /\ ~woken => delivered = due

\* A tile reaches the client's target in the frame it was rendered for: while
\* tiles wait in the queue the render thread never goes on to the next frame.
\* (WorkAreaTarget::add_tile blends a tile by the frame it thinks it is in.)
NoStrayTile ==
    tile_source /\ alive_flag /\ ~woken =>
        \A i \in 1..Len(tile_queue) : tile_queue[i].frame = frame

\* Tiles never lie in the queue of a living target without a call of
\* tile_ready to come, though only the first of them asks for it.
QueueServed == tile_queue # <<>> /\ alive_flag => tile_source

\* A thread that has ended is noticed: a source will call stop(), or stop()
\* is under way and joins it; trylock never fails for another reason.
CompletionReported ==
    At("exited") /\ target => done_connection = "stop" \/ InStop

\* After signal_finished nothing of the render is left to call back into the
\* client: no thread, no tile on its way, no source.
NothingAfterFinished ==
    "finished" \in signals =>
        /\ At("exited")
        /\ ~tile_source
        /\ done_connection = "none"

\* stop() always comes back to the main loop, whatever the render thread was
\* doing: it waits for tile_ready, which stop() keeps from being called.
StopReturns == InStop ~> ~InStop

\* A started render comes to its end and tells the client, unless the client
\* has given it up.
RenderEnds == done_connection = "start" ~> ("finished" \in signals \/ ~exists)
=============================================================================
