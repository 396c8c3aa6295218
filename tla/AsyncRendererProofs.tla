-------------------------- MODULE AsyncRendererProofs --------------------------
(***************************************************************************)
(* The safety of the renderer, for any tiles and any number of frames.     *)
(***************************************************************************)
EXTENDS AsyncRenderer, SequenceTheorems, TLAPS

\* Where the render thread is inside a frame.
GivingOut == {"next_tile", "render", "add_tile", "push", "end_frame", "timed_wait", "finish_frame"}
InFrame == {"start_frame"} \cup GivingOut

\* The frames add up, and the target never gets more ends than frames.
FramesCounted ==
    /\ frame + frames <= MaxFrames
    /\ ended <= frame
    /\ rpc \in InFrame => ended < frame
    /\ At("next_frame") \/ done_connection = "start" => frames > 0

\* The pointer to the thread and where the thread is.
ThreadKnown ==
    /\ render_thread => target /\ exists /\ ~At("none")
    /\ ~render_thread => rpc \in {"none", "exited"} /\ ~tile_source /\ tile_queue = <<>>
    /\ At("exited") /\ ~render_thread => ~target

\* stop() and the source that is to call something.
SourceKnown ==
    /\ InStop => render_thread /\ done_connection = "none"
    /\ done_connection = "start" => At("none") /\ target /\ exists
    /\ done_connection = "stop" => At("exited") /\ render_thread
    /\ "finished" \in signals => At("exited") /\ ~render_thread

ControlInv ==
    /\ TypeOK
    /\ FramesCounted
    /\ ThreadKnown
    /\ SourceKnown
    /\ QueueServed
    /\ CompletionReported

\* The tiles that wait for tile_ready.
Queued == Taken(Len(tile_queue))

\* A tile given out is to be rendered, in the queue, or delivered.
Accounted == alive_flag /\ rpc \in GivingOut => due = todo \cup Queued \cup delivered

\* Between two frames nothing is under way.
QueueEmpty ==
    /\ alive_flag /\ rpc \in {"next_frame", "start_frame", "next_tile", "finish_frame"} => tile_queue = <<>>
    /\ alive_flag /\ At("timed_wait") /\ signalled => tile_queue = <<>>

RestDone ==
    /\ alive_flag /\ At("start_frame") => due = {} /\ delivered = {}
    /\ alive_flag /\ rpc \in {"end_frame", "timed_wait", "finish_frame"} => todo = {}

\* What waits in the queue of a living target is of its frame.
OfThisFrame == alive_flag => \A i \in 1..Len(tile_queue) : tile_queue[i].frame = frame

FrameInv ==
    /\ Accounted
    /\ QueueEmpty
    /\ RestDone
    /\ OfThisFrame

\* Where stop() is, in a form that the provers see.
LEMMA StopPlaces ==
    /\ \A c \in Callers, at \in {"locked", "joining"} : <<c, at>> \in Stopping /\ <<c, at>> # <<>>
    /\ gui \in Stopping => gui[1] \in Callers /\ gui = <<gui[1], gui[2]>>
BY DEF Stopping

\* What the target takes of the queue are tiles.
LEMMA TakenTiles ==
    ASSUME tile_queue \in Seq(Tile), NEW k \in 0..Len(tile_queue)
    PROVE  Taken(k) \subseteq Tiles
<1>1. SUFFICES ASSUME NEW i \in 1..k
               PROVE  tile_queue[i].tile \in Tiles
    BY DEF Taken
<1>2. tile_queue[i] \in Tile
    BY ElementOfSeq, LenProperties
<1>3. QED
    BY <1>2 DEF Tile

\* tile_ready leaves a target that has taken everything, or a dead one.
LEMMA TileReadyEffect ==
    ASSUME tile_queue \in Seq(Tile), alive_flag \in BOOLEAN, delivered \subseteq Tiles,
           NEW k \in 0..Len(tile_queue), NEW refused \in BOOLEAN, TileReady(k, refused)
    PROVE  /\ tile_queue' \in Seq(Tile)
           /\ delivered' \subseteq Tiles
           /\ alive_flag' \in BOOLEAN
           /\ ~tile_source'
           /\ alive_flag' => /\ alive_flag
                             /\ tile_queue' = <<>>
                             /\ delivered' = delivered \cup Taken(Len(tile_queue))
<1>1. Len(tile_queue) \in Nat /\ \A i \in 1..Len(tile_queue) : tile_queue[i] \in Tile
    BY ElementOfSeq, LenProperties
<1>2. CASE ~alive_flag
    BY <1>2, EmptySeq DEF TileReady
<1>3. CASE alive_flag /\ refused
  <2>1. /\ tile_queue' = SubSeq(tile_queue, k + 2, Len(tile_queue))
        /\ delivered' = delivered \cup Taken(k)
        /\ ~alive_flag' /\ alive_flag' \in BOOLEAN
        /\ ~tile_source'
    BY <1>3 DEF TileReady
  <2>2. tile_queue' \in Seq(Tile)
    BY <2>1, <1>1, SubSeqProperties
  <2>3. QED
    BY <2>1, <2>2, TakenTiles
<1>4. CASE alive_flag /\ ~refused
  <2>1. /\ tile_queue' = SubSeq(tile_queue, k + 1, Len(tile_queue))
        /\ delivered' = delivered \cup Taken(k)
        /\ ~(k < Len(tile_queue))
        /\ alive_flag'
        /\ ~tile_source'
    BY <1>4, Zenon DEF TileReady
  <2>2. k = Len(tile_queue) /\ tile_queue' = <<>>
    BY <2>1, <1>1, SubSeqEmpty
  <2>3. QED
    BY <2>1, <2>2, <1>4, EmptySeq, TakenTiles
<1>5. QED
    BY <1>2, <1>3, <1>4

\* Every step keeps the variables in their types: the counts of frames are what
\* keeps them within MaxFrames.
LEMMA TypeStep ==
    ASSUME TypeOK, FramesCounted, [Next]_vars
    PROVE  TypeOK'
<1>1. CASE \E n \in 1..MaxFrames : Start(n)
  <2>1. tile_queue' \in Seq(Tile)
    BY <1>1, EmptySeq DEF Start
  <2>2. /\ exists' \in BOOLEAN /\ render_thread' \in BOOLEAN /\ target' \in BOOLEAN
        /\ success' \in BOOLEAN /\ error' \in BOOLEAN /\ alive_flag' \in BOOLEAN
        /\ tile_source' \in BOOLEAN /\ signalled' \in BOOLEAN /\ woken' \in BOOLEAN
        /\ UNCHANGED gui
        /\ done_connection' = "start" /\ signals' = {} /\ rpc' = "none"
    BY <1>1, Zenon DEF Start
  <2>3. /\ frames' \in 0..MaxFrames /\ frame' \in 0..MaxFrames /\ ended' \in 0..MaxFrames
        /\ todo' = {} /\ due' = {} /\ delivered' = {}
    BY <1>1, RendererAssumption DEF Start
  <2>4. QED
    BY <2>1, <2>2, <2>3 DEF TypeOK
<1>2. CASE StartThread
    BY <1>2 DEF TypeOK, StartThread, queue, warm_target
<1>3. CASE \E c \in Callers : CallStop(c)
  <2>1. PICK c \in Callers : CallStop(c)
    BY <1>3
  <2>2. gui' \in {<<>>} \cup Stopping
    BY <2>1, StopPlaces DEF CallStop, TypeOK
  <2>3. exists' \in BOOLEAN
    BY <2>1, Zenon DEF CallStop
  <2>4. done_connection' \in {"none", "start", "stop"}
    BY <2>1 DEF CallStop, TypeOK
  <2>5. UNCHANGED <<render_thread, target, signals, thread, queue, warm_target>>
    BY <2>1 DEF CallStop
  <2>6. QED
    BY <2>2, <2>3, <2>4, <2>5 DEF TypeOK, thread, queue, warm_target
<1>4. CASE SetDead
  <2>1. gui' \in Stopping /\ alive_flag' \in BOOLEAN
    BY <1>4, StopPlaces DEF SetDead, TypeOK, InStop
  <2>2. QED
    BY <1>4, <2>1 DEF SetDead, TypeOK, thread, warm_target
<1>5. CASE Stopped
  <2>1. tile_queue' \in Seq(Tile)
    BY <1>5, EmptySeq DEF Stopped, Released
  <2>2. exists' \in BOOLEAN /\ gui' = <<>>
    BY <1>5, Zenon DEF Stopped
  <2>3. signals' \subseteq {"success", "finished"}
    BY <1>5 DEF Stopped, TypeOK
  <2>4. QED
    BY <1>5, <2>1, <2>2, <2>3 DEF Stopped, Released, TypeOK, thread, warm_target
<1>6. CASE NextFrame
    BY <1>6, RendererAssumption DEF TypeOK, FramesCounted, NextFrame, Goto, renderer, queue
<1>7. CASE StartFrame
    BY <1>7 DEF TypeOK, StartFrame, Goto, renderer, queue, warm_target
<1>8. CASE \E t \in Tiles : NextTile(t)
    BY <1>8 DEF TypeOK, NextTile, renderer, queue
<1>9. CASE NoMoreTiles
    BY <1>9 DEF TypeOK, NoMoreTiles, Goto, OnlyThread, renderer, queue, warm_target
<1>10. CASE Render
    BY <1>10 DEF TypeOK, Render, Goto, OnlyThread, renderer, queue, warm_target
<1>11. CASE AddTileWhileDead
    BY <1>11 DEF TypeOK, AddTileWhileDead, Goto, OnlyThread, renderer, queue, warm_target
<1>12. CASE AddTileWhileAlive
    BY <1>12 DEF TypeOK, AddTileWhileAlive, Goto, OnlyThread, renderer, queue, warm_target
<1>13. CASE \E t \in Tiles : Push(t)
  <2>1. PICK t \in Tiles : Push(t)
    BY <1>13
  <2>2. tile_queue' \in Seq(Tile)
    <3>1. [frame |-> frame, tile |-> t] \in Tile
      BY DEF TypeOK, Tile
    <3>2. QED
      BY <2>1, <3>1, AppendProperties DEF Push, TypeOK
  <2>3. tile_source' \in BOOLEAN
    BY <2>1, Zenon DEF Push
  <2>4. QED
    BY <2>1, <2>2, <2>3 DEF Push, Goto, TypeOK, renderer, warm_target
<1>14. CASE EndFrame
    BY <1>14 DEF TypeOK, EndFrame, Goto, renderer, warm_target
<1>15. CASE WakeUp
    BY <1>15 DEF TypeOK, WakeUp, Goto, OnlyThread, renderer, queue, warm_target
<1>16. CASE Boredom
    BY <1>16 DEF TypeOK, Boredom, Goto, OnlyThread, renderer, queue, warm_target
<1>17. CASE WakeUpSpuriously
    BY <1>17 DEF TypeOK, WakeUpSpuriously, Goto, renderer, warm_target
<1>18. CASE FinishFrame
    BY <1>18, RendererAssumption DEF TypeOK, FramesCounted, InFrame, GivingOut, FinishFrame, At,
       Goto, renderer, queue
<1>19. CASE Report
    BY <1>19 DEF TypeOK, Report, Goto, renderer, queue, warm_target
<1>20. CASE Exit
    BY <1>20 DEF TypeOK, Exit, Goto, queue, warm_target
<1>21. CASE TileStep
  <2>1. PICK k \in 0..Len(tile_queue), refused \in BOOLEAN : TileReady(k, refused)
    BY <1>21 DEF TileStep
  <2>2. /\ tile_queue' \in Seq(Tile) /\ delivered' \subseteq Tiles
        /\ alive_flag' \in BOOLEAN /\ ~tile_source'
    BY <2>1, TileReadyEffect DEF TypeOK
  <2>3. signalled' \in BOOLEAN /\ tile_source' \in BOOLEAN
    BY <2>1, Zenon DEF TileReady
  <2>4. QED
    BY <2>1, <2>2, <2>3 DEF TileReady, TypeOK, renderer, thread
<1>22. CASE UNCHANGED vars
    BY <1>22 DEF TypeOK, vars, renderer, thread, queue, warm_target
<1>23. QED
    BY <1>1, <1>2, <1>3, <1>4, <1>5, <1>6, <1>7, <1>8, <1>9, <1>10, <1>11, <1>12, <1>13, <1>14,
       <1>15, <1>16, <1>17, <1>18, <1>19, <1>20, <1>21, <1>22 DEF Next, Client, StopStep,
       RenderStep, Callers

\* Every step keeps the frames counted.
LEMMA CountStep ==
    ASSUME ControlInv, [Next]_vars
    PROVE  FramesCounted'
<1>1. CASE \E n \in 1..MaxFrames : Start(n)
    BY <1>1 DEF FramesCounted, InFrame, GivingOut, Start
<1>2. CASE StartThread
    BY <1>2 DEF ControlInv, FramesCounted, InFrame, GivingOut, StartThread, warm_target
<1>3. CASE \E c \in Callers : CallStop(c)
    BY <1>3 DEF ControlInv, FramesCounted, CallStop, At, thread, warm_target
<1>4. CASE SetDead
    BY <1>4 DEF ControlInv, FramesCounted, SetDead, At, thread, warm_target
<1>5. CASE Stopped
    BY <1>5 DEF ControlInv, FramesCounted, Stopped, At, thread, warm_target
<1>6. CASE NextFrame
    BY <1>6 DEF ControlInv, TypeOK, FramesCounted, SourceKnown, InFrame, GivingOut, NextFrame, At,
       Goto, renderer
<1>7. CASE StartFrame
    BY <1>7 DEF ControlInv, FramesCounted, InFrame, StartFrame, At, Goto, renderer, warm_target
<1>8. CASE \E t \in Tiles : NextTile(t)
    BY <1>8 DEF ControlInv, FramesCounted, NextTile, At, renderer
<1>9. CASE NoMoreTiles
    BY <1>9 DEF ControlInv, FramesCounted, InFrame, GivingOut, NoMoreTiles, At, Goto, OnlyThread,
       renderer, warm_target
<1>10. CASE Render
    BY <1>10 DEF ControlInv, FramesCounted, InFrame, GivingOut, Render, At, Goto, OnlyThread,
       renderer, warm_target
<1>11. CASE AddTileWhileDead
    BY <1>11 DEF ControlInv, FramesCounted, InFrame, GivingOut, AddTileWhileDead, At, Goto,
       OnlyThread, renderer, warm_target
<1>12. CASE AddTileWhileAlive
    BY <1>12 DEF ControlInv, FramesCounted, InFrame, GivingOut, AddTileWhileAlive, At, Goto,
       OnlyThread, renderer, warm_target
<1>13. CASE \E t \in Tiles : Push(t)
    BY <1>13 DEF ControlInv, FramesCounted, InFrame, GivingOut, Push, At, Goto, renderer,
       warm_target
<1>14. CASE EndFrame
    BY <1>14 DEF ControlInv, FramesCounted, InFrame, GivingOut, EndFrame, At, Goto, renderer,
       warm_target
<1>15. CASE WakeUp
    BY <1>15 DEF ControlInv, FramesCounted, InFrame, GivingOut, WakeUp, At, Goto, OnlyThread,
       renderer, warm_target
<1>16. CASE Boredom
    BY <1>16 DEF ControlInv, FramesCounted, InFrame, GivingOut, Boredom, At, Goto, OnlyThread,
       renderer, warm_target
<1>17. CASE WakeUpSpuriously
    BY <1>17 DEF ControlInv, FramesCounted, InFrame, GivingOut, WakeUpSpuriously, At, Goto,
       OnlyThread, renderer, warm_target
<1>18. CASE FinishFrame
    BY <1>18 DEF ControlInv, TypeOK, FramesCounted, InFrame, GivingOut, FinishFrame, At, Goto,
       renderer
<1>19. CASE Report
    BY <1>19 DEF ControlInv, FramesCounted, InFrame, GivingOut, Report, At, Goto, renderer,
       warm_target
<1>20. CASE Exit
    BY <1>20 DEF ControlInv, FramesCounted, InFrame, GivingOut, Exit, At, Goto, warm_target
<1>21. CASE TileStep
  <2>1. /\ UNCHANGED <<renderer, thread, frame, due, ended>> /\ ~InStop /\ tile_source
    BY <1>21 DEF TileStep, TileReady
  <2>2. QED
    BY <2>1 DEF ControlInv, FramesCounted, At, renderer, thread
<1>22. CASE UNCHANGED vars
    BY <1>22 DEF ControlInv, FramesCounted, vars, renderer, thread, warm_target, At
<1>23. QED
    BY <1>1, <1>2, <1>3, <1>4, <1>5, <1>6, <1>7, <1>8, <1>9, <1>10, <1>11, <1>12, <1>13, <1>14,
       <1>15, <1>16, <1>17, <1>18, <1>19, <1>20, <1>21, <1>22 DEF Next, Client, StopStep,
       RenderStep, Callers

\* Every step keeps what the renderer knows of its thread and of its source.
LEMMA KnownStep ==
    ASSUME ControlInv, [Next]_vars
    PROVE  (ThreadKnown /\ SourceKnown)'
<1>1. CASE \E n \in 1..MaxFrames : Start(n)
    BY <1>1 DEF ThreadKnown, SourceKnown, Start, At, InStop
<1>2. CASE StartThread
    BY <1>2 DEF ControlInv, ThreadKnown, SourceKnown, StartThread, At
<1>3. CASE \E c \in Callers : CallStop(c)
  <2>1. PICK c \in Callers : CallStop(c)
    BY <1>3
  <2>2. CASE target /\ render_thread
    BY <2>1, <2>2, StopPlaces DEF CallStop, ControlInv, ThreadKnown, SourceKnown, At, thread
  <2>3. CASE ~(target /\ render_thread)
    BY <2>1, <2>3 DEF CallStop, ControlInv, ThreadKnown, SourceKnown, At, InStop, thread, queue
  <2>4. QED
    BY <2>2, <2>3
<1>4. CASE SetDead
    BY <1>4 DEF ControlInv, ThreadKnown, SourceKnown, SetDead, At, thread
<1>5. CASE Stopped
    BY <1>5 DEF ControlInv, ThreadKnown, SourceKnown, Stopped, Released, At, InStop, thread
<1>6. CASE NextFrame
    BY <1>6 DEF ControlInv, ThreadKnown, SourceKnown, NextFrame, At, Goto, InStop, renderer
<1>7. CASE StartFrame
    BY <1>7 DEF ControlInv, ThreadKnown, SourceKnown, StartFrame, At, Goto, InStop, renderer
<1>8. CASE \E t \in Tiles : NextTile(t)
    BY <1>8 DEF ControlInv, ThreadKnown, SourceKnown, NextTile, At, InStop, renderer
<1>9. CASE NoMoreTiles
    BY <1>9 DEF ControlInv, ThreadKnown, SourceKnown, NoMoreTiles, At, Goto, OnlyThread, InStop,
       renderer
<1>10. CASE Render
    BY <1>10 DEF ControlInv, ThreadKnown, SourceKnown, Render, At, Goto, OnlyThread, InStop,
       renderer
<1>11. CASE AddTileWhileDead
    BY <1>11 DEF ControlInv, ThreadKnown, SourceKnown, AddTileWhileDead, At, Goto, OnlyThread,
       InStop, renderer
<1>12. CASE AddTileWhileAlive
    BY <1>12 DEF ControlInv, ThreadKnown, SourceKnown, AddTileWhileAlive, At, Goto, OnlyThread,
       InStop, renderer
<1>13. CASE \E t \in Tiles : Push(t)
    BY <1>13 DEF ControlInv, ThreadKnown, SourceKnown, Push, At, Goto, InStop, renderer
<1>14. CASE EndFrame
    BY <1>14 DEF ControlInv, ThreadKnown, SourceKnown, EndFrame, At, Goto, InStop, renderer
<1>15. CASE WakeUp
    BY <1>15 DEF ControlInv, ThreadKnown, SourceKnown, WakeUp, At, Goto, OnlyThread, InStop,
       renderer
<1>16. CASE Boredom
    BY <1>16 DEF ControlInv, ThreadKnown, SourceKnown, Boredom, At, Goto, OnlyThread, InStop,
       renderer
<1>17. CASE WakeUpSpuriously
    BY <1>17 DEF ControlInv, ThreadKnown, SourceKnown, WakeUpSpuriously, At, Goto, OnlyThread,
       InStop, renderer
<1>18. CASE FinishFrame
    BY <1>18 DEF ControlInv, ThreadKnown, SourceKnown, FinishFrame, At, Goto, InStop, renderer
<1>19. CASE Report
    BY <1>19 DEF ControlInv, ThreadKnown, SourceKnown, Report, At, Goto, InStop, renderer
<1>20. CASE Exit
    BY <1>20 DEF ControlInv, ThreadKnown, SourceKnown, Exit, At, Goto, InStop
<1>21. CASE TileStep
  <2>1. PICK k \in 0..Len(tile_queue), refused \in BOOLEAN : TileReady(k, refused)
    BY <1>21 DEF TileStep
  <2>2. UNCHANGED <<renderer, thread>> /\ ~tile_source' /\ tile_source
    BY <2>1 DEF TileReady
  <2>3. QED
    BY <2>2 DEF ControlInv, ThreadKnown, SourceKnown, At, InStop, renderer, thread
<1>22. CASE UNCHANGED vars
    BY <1>22 DEF ControlInv, ThreadKnown, SourceKnown, vars, renderer, thread, queue, At, InStop
<1>23. QED
    BY <1>1, <1>2, <1>3, <1>4, <1>5, <1>6, <1>7, <1>8, <1>9, <1>10, <1>11, <1>12, <1>13, <1>14,
       <1>15, <1>16, <1>17, <1>18, <1>19, <1>20, <1>21, <1>22 DEF Next, Client, StopStep,
       RenderStep, Callers

\* Every step leaves the queue with a source that calls tile_ready, and an ended
\* thread with one that calls stop.
LEMMA ServedStep ==
    ASSUME ControlInv, [Next]_vars
    PROVE  (QueueServed /\ CompletionReported)'
<1>1. CASE \E n \in 1..MaxFrames : Start(n)
    BY <1>1 DEF QueueServed, CompletionReported, Start, At
<1>2. CASE StartThread
    BY <1>2 DEF ControlInv, QueueServed, CompletionReported, StartThread, At, queue
<1>3. CASE \E c \in Callers : CallStop(c)
  <2>1. PICK c \in Callers : CallStop(c)
    BY <1>3
  <2>2. CASE target /\ render_thread
    BY <2>1, <2>2, StopPlaces DEF CallStop, ControlInv, QueueServed, CompletionReported, InStop,
       queue
  <2>3. CASE ~(target /\ render_thread)
    BY <2>1, <2>3 DEF CallStop, ControlInv, SourceKnown, QueueServed, CompletionReported, At,
       thread, queue
  <2>4. QED
    BY <2>2, <2>3
<1>4. CASE SetDead
    BY <1>4 DEF QueueServed, CompletionReported, SetDead, InStop
<1>5. CASE Stopped
    BY <1>5 DEF QueueServed, CompletionReported, Stopped, Released
<1>6. CASE NextFrame
    BY <1>6 DEF ControlInv, QueueServed, CompletionReported, NextFrame, At, Goto, queue
<1>7. CASE StartFrame
    BY <1>7 DEF ControlInv, QueueServed, CompletionReported, StartFrame, At, Goto, queue
<1>8. CASE \E t \in Tiles : NextTile(t)
    BY <1>8 DEF ControlInv, QueueServed, CompletionReported, NextTile, At, queue
<1>9. CASE NoMoreTiles
    BY <1>9 DEF ControlInv, QueueServed, CompletionReported, NoMoreTiles, At, Goto, OnlyThread,
       queue
<1>10. CASE Render
    BY <1>10 DEF ControlInv, QueueServed, CompletionReported, Render, At, Goto, OnlyThread, queue
<1>11. CASE AddTileWhileDead
    BY <1>11 DEF QueueServed, CompletionReported, AddTileWhileDead, At, Goto, OnlyThread, queue
<1>12. CASE AddTileWhileAlive
    BY <1>12 DEF ControlInv, QueueServed, CompletionReported, AddTileWhileAlive, At, Goto,
       OnlyThread, queue
<1>13. CASE \E t \in Tiles : Push(t)
    BY <1>13 DEF ControlInv, TypeOK, QueueServed, CompletionReported, Push, At, Goto
<1>14. CASE EndFrame
    BY <1>14 DEF ControlInv, QueueServed, CompletionReported, EndFrame, At, Goto
<1>15. CASE WakeUp
    BY <1>15 DEF ControlInv, QueueServed, CompletionReported, WakeUp, At, Goto, OnlyThread, queue
<1>16. CASE Boredom
    BY <1>16 DEF ControlInv, QueueServed, CompletionReported, Boredom, At, Goto, OnlyThread, queue
<1>17. CASE WakeUpSpuriously
    BY <1>17 DEF ControlInv, QueueServed, CompletionReported, WakeUpSpuriously, At, Goto,
       OnlyThread, queue
<1>18. CASE FinishFrame
    BY <1>18 DEF ControlInv, QueueServed, CompletionReported, FinishFrame, At, Goto, queue
<1>19. CASE Report
    BY <1>19 DEF ControlInv, QueueServed, CompletionReported, Report, At, Goto, queue
<1>20. CASE Exit
    BY <1>20 DEF ControlInv, QueueServed, CompletionReported, Exit, InStop, queue
<1>21. CASE TileStep
  <2>1. PICK k \in 0..Len(tile_queue), refused \in BOOLEAN : TileReady(k, refused)
    BY <1>21 DEF TileStep
  <2>2. alive_flag' => tile_queue' = <<>>
    BY <2>1, TileReadyEffect DEF ControlInv, TypeOK
  <2>3. UNCHANGED <<renderer, thread>>
    BY <2>1 DEF TileReady
  <2>4. QED
    BY <2>2, <2>3 DEF ControlInv, QueueServed, CompletionReported, At, InStop, renderer, thread
<1>22. CASE UNCHANGED vars
    BY <1>22 DEF ControlInv, QueueServed, CompletionReported, vars, renderer, thread, queue, At,
       InStop
<1>23. QED
    BY <1>1, <1>2, <1>3, <1>4, <1>5, <1>6, <1>7, <1>8, <1>9, <1>10, <1>11, <1>12, <1>13, <1>14,
       <1>15, <1>16, <1>17, <1>18, <1>19, <1>20, <1>21, <1>22 DEF Next, Client, StopStep,
       RenderStep, Callers


\* An empty queue holds no tiles.
LEMMA QueuedEmpty == tile_queue = <<>> => Queued = {}
BY DEF Queued, Taken

\* A pushed tile is one more in the queue.
LEMMA QueuedPush ==
    ASSUME tile_queue \in Seq(Tile), NEW t \in Tiles, frame \in Nat,
           tile_queue' = Append(tile_queue, [frame |-> frame, tile |-> t])
    PROVE  Queued' = Queued \cup {t}
<1>1. /\ Len(tile_queue) \in Nat
      /\ Len(tile_queue') = Len(tile_queue) + 1
      /\ \A i \in 1..Len(tile_queue) : tile_queue'[i] = tile_queue[i]
      /\ tile_queue'[Len(tile_queue) + 1].tile = t
    BY AppendProperties, LenProperties
<1>2. 1..Len(tile_queue') = (1..Len(tile_queue)) \cup {Len(tile_queue) + 1}
    BY <1>1
<1>3. Queued' = {tile_queue'[i].tile : i \in 1..Len(tile_queue)} \cup {tile_queue'[Len(tile_queue) + 1].tile}
    BY <1>2, Zenon DEF Queued, Taken
<1>4. {tile_queue'[i].tile : i \in 1..Len(tile_queue)} = Queued
    BY <1>1, Zenon DEF Queued, Taken
<1>5. QED
    BY <1>1, <1>3, <1>4

\* Until a wait ends of itself, every step keeps the tiles of the frame accounted for.
LEMMA FrameStep ==
    ASSUME ~woken', ControlInv, FrameInv, [Next]_vars
    PROVE  FrameInv'
<1>1. CASE \E n \in 1..MaxFrames : Start(n)
    BY <1>1 DEF FrameInv, Accounted, QueueEmpty, RestDone, OfThisFrame, Queued, Taken, Start
<1>2. CASE StartThread
    BY <1>2 DEF ControlInv, ThreadKnown, SourceKnown, FrameInv, Accounted, QueueEmpty, RestDone,
       OfThisFrame, GivingOut, StartThread, At, queue
<1>3. CASE \E c \in Callers : CallStop(c)
    BY <1>3 DEF FrameInv, Accounted, QueueEmpty, RestDone, OfThisFrame, Queued, Taken, CallStop,
       At, thread, queue, warm_target
<1>4. CASE SetDead
    BY <1>4 DEF FrameInv, Accounted, QueueEmpty, RestDone, OfThisFrame, SetDead
<1>5. CASE Stopped
    BY <1>5 DEF FrameInv, Accounted, QueueEmpty, RestDone, OfThisFrame, GivingOut, Stopped,
       Released, At, thread
<1>6. CASE NextFrame
    BY <1>6 DEF FrameInv, Accounted, QueueEmpty, RestDone, OfThisFrame, GivingOut, NextFrame, At,
       Goto, queue
<1>7. CASE StartFrame
    BY <1>7 DEF FrameInv, Accounted, QueueEmpty, RestDone, OfThisFrame, Queued, Taken, StartFrame,
       At, queue, warm_target
<1>8. CASE \E t \in Tiles : NextTile(t)
    BY <1>8 DEF FrameInv, Accounted, QueueEmpty, RestDone, OfThisFrame, Queued, Taken, NextTile,
       At, queue
<1>9. CASE NoMoreTiles
    BY <1>9 DEF FrameInv, Accounted, QueueEmpty, RestDone, OfThisFrame, GivingOut, Queued, Taken,
       NoMoreTiles, At, Goto, OnlyThread, queue, warm_target
<1>10. CASE Render
    BY <1>10 DEF FrameInv, Accounted, QueueEmpty, RestDone, OfThisFrame, GivingOut, Queued, Taken,
       Render, At, Goto, OnlyThread, queue, warm_target
<1>11. CASE AddTileWhileDead
    BY <1>11 DEF FrameInv, Accounted, QueueEmpty, RestDone, OfThisFrame, AddTileWhileDead,
       OnlyThread, queue
<1>12. CASE AddTileWhileAlive
    BY <1>12 DEF FrameInv, Accounted, QueueEmpty, RestDone, OfThisFrame, GivingOut, Queued, Taken,
       AddTileWhileAlive, At, Goto, OnlyThread, queue, warm_target
<1>13. CASE \E t \in Tiles : Push(t)
  <2>1. PICK t \in Tiles : Push(t)
    BY <1>13
  <2>2. Queued' = Queued \cup {t}
    BY <2>1, QueuedPush DEF Push, ControlInv, TypeOK
  <2>3. OfThisFrame'
    BY <2>1, AppendProperties DEF Push, FrameInv, OfThisFrame, warm_target
  <2>4. QED
    BY <2>1, <2>2, <2>3 DEF Push, At, Goto, FrameInv, Accounted, QueueEmpty, RestDone, GivingOut,
       warm_target
<1>14. CASE EndFrame
    BY <1>14 DEF FrameInv, Accounted, QueueEmpty, RestDone, OfThisFrame, GivingOut, Queued, Taken,
       EndFrame, At, Goto, warm_target
<1>15. CASE WakeUp
    BY <1>15 DEF FrameInv, Accounted, QueueEmpty, RestDone, OfThisFrame, GivingOut, Queued, Taken,
       WakeUp, At, Goto, OnlyThread, queue, warm_target
<1>16. CASE Boredom
    BY <1>16 DEF FrameInv, Accounted, QueueEmpty, RestDone, OfThisFrame, GivingOut, Queued, Taken,
       Boredom, At, Goto, OnlyThread, queue, warm_target
<1>17. CASE WakeUpSpuriously
    BY <1>17 DEF WakeUpSpuriously
<1>18. CASE FinishFrame
    BY <1>18 DEF FrameInv, Accounted, QueueEmpty, RestDone, OfThisFrame, GivingOut, FinishFrame,
       At, Goto, queue
<1>19. CASE Report
    BY <1>19 DEF FrameInv, Accounted, QueueEmpty, RestDone, OfThisFrame, GivingOut, Report, At,
       Goto, queue, warm_target
<1>20. CASE Exit
    BY <1>20 DEF FrameInv, Accounted, QueueEmpty, RestDone, OfThisFrame, GivingOut, Exit, At,
       Goto, queue, warm_target
<1>21. CASE TileStep
  <2>1. PICK k \in 0..Len(tile_queue), refused \in BOOLEAN : TileReady(k, refused)
    BY <1>21 DEF TileStep
  <2>2. alive_flag' => alive_flag /\ tile_queue' = <<>> /\ delivered' = delivered \cup Queued
    BY <2>1, TileReadyEffect DEF ControlInv, TypeOK, Queued
  <2>3. UNCHANGED <<renderer, thread, frame, due>>
    BY <2>1 DEF TileReady
  <2>4. tile_queue = <<>> => Queued = {}
    BY QueuedEmpty
  <2>5. alive_flag' => Queued' = {}
    BY <2>2 DEF Queued, Taken
  <2>6. QED
    BY <2>2, <2>3, <2>4, <2>5 DEF FrameInv, Accounted, QueueEmpty, RestDone, OfThisFrame, At,
       thread
<1>22. CASE UNCHANGED vars
    BY <1>22 DEF FrameInv, Accounted, QueueEmpty, RestDone, OfThisFrame, Queued, Taken, vars,
       thread, queue, warm_target, At
<1>23. QED
    BY <1>1, <1>2, <1>3, <1>4, <1>5, <1>6, <1>7, <1>8, <1>9, <1>10, <1>11, <1>12, <1>13, <1>14,
       <1>15, <1>16, <1>17, <1>18, <1>19, <1>20, <1>21, <1>22 DEF Next, Client, StopStep,
       RenderStep, Callers

\* Only the next render is told again that no wait has ended of itself.
LEMMA WokenStays ==
    ASSUME woken, ~woken', [Next]_vars
    PROVE  \E n \in 1..MaxFrames : Start(n)
BY DEF Next, Client, StartThread, CallStop, StopStep, SetDead, Stopped, TileStep, TileReady,
   RenderStep, NextFrame, StartFrame, NextTile, NoMoreTiles, Render, AddTileWhileDead,
   AddTileWhileAlive, Push, EndFrame, WakeUp, Boredom, FinishFrame, Report, Exit,
   WakeUpSpuriously, OnlyThread, queue, vars

\* A render begins with nothing given out.
LEMMA StartFrameInv ==
    ASSUME NEW n \in 1..MaxFrames, Start(n)
    PROVE  FrameInv'
BY DEF FrameInv, Accounted, QueueEmpty, RestDone, OfThisFrame, GivingOut, Start, At

\* While no wait of a render has ended of itself, its tiles are accounted for.
LEMMA UnwokenStep ==
    ASSUME ControlInv, ~woken => FrameInv, [Next]_vars
    PROVE  ~woken' => FrameInv'
<1>1. SUFFICES ASSUME ~woken' PROVE FrameInv'
    OBVIOUS
<1>2. CASE woken
    BY <1>1, <1>2, WokenStays, StartFrameInv
<1>3. CASE ~woken
    BY <1>1, <1>3, FrameStep
<1>4. QED
    BY <1>2, <1>3

-----------------------------------------------------------------------------
\* Before the first render nothing is connected or running.
LEMMA InitControl == Init => ControlInv
<1>1. SUFFICES ASSUME Init PROVE ControlInv
    OBVIOUS
<1>2. TypeOK
  <2>1. tile_queue \in Seq(Tile) /\ 0 \in 0..MaxFrames /\ gui \in {<<>>} \cup Stopping
    BY <1>1, EmptySeq, RendererAssumption DEF Init
  <2>2. QED
    BY <1>1, <2>1 DEF Init, TypeOK
<1>3. FramesCounted /\ ThreadKnown /\ SourceKnown /\ QueueServed /\ CompletionReported
    BY <1>1, RendererAssumption
    DEF Init, FramesCounted, InFrame, GivingOut, ThreadKnown, SourceKnown, QueueServed,
        CompletionReported, InStop, At
<1>4. QED
    BY <1>2, <1>3 DEF ControlInv

\* The target is not alive then, and nothing is claimed of its frame.
LEMMA InitFrame == Init => FrameInv
BY DEF Init, FrameInv, Accounted, QueueEmpty, RestDone, OfThisFrame, GivingOut, At

\* Where the threads are and what is connected, in every reachable state.
LEMMA ControlHolds == Spec => []ControlInv
<1>1. ControlInv /\ [Next]_vars => ControlInv'
    BY TypeStep, CountStep, KnownStep, ServedStep DEF ControlInv
<1>2. QED
    BY <1>1, InitControl, PTL DEF Spec

\* Every variable of the renderer, its thread, the queue and the client's target
\* stays in its type; no render has more frames, or ends of frames, than its
\* target asked for.
THEOREM TypeCorrect == Spec => []TypeOK
<1>1. ControlInv => TypeOK
    BY DEF ControlInv
<1>2. QED
    BY <1>1, ControlHolds, PTL

\* The tiles in the queue of a living target always have a source to call
\* tile_ready: add_tile connects one only for the first, tile_ready drops it.
THEOREM TilesServed == Spec => []QueueServed
<1>1. ControlInv => QueueServed
    BY DEF ControlInv
<1>2. QED
    BY <1>1, ControlHolds, PTL

\* A render thread that has ended is noticed by the main loop, by the source
\* render_target leaves or by the stop() that made its trylock fail.
THEOREM EndNoticed == Spec => []CompletionReported
<1>1. ControlInv => CompletionReported
    BY DEF ControlInv
<1>2. QED
    BY <1>1, ControlHolds, PTL

\* After signal_finished the thread has ended, and no source is left to call
\* tile_ready, start_ or stop of that render.
THEOREM NothingLeft == Spec => []NothingAfterFinished
<1>1. ControlInv => NothingAfterFinished
    BY DEF ControlInv, NothingAfterFinished, ThreadKnown, SourceKnown, TypeOK
<1>2. QED
    BY <1>1, ControlHolds, PTL

\* The tiles of a frame are accounted for in every reachable state, until a wait has
\* ended of itself.
LEMMA FrameHolds == Spec => [](~woken => FrameInv)
<1>1. ControlInv /\ (~woken => FrameInv) /\ [Next]_vars => (~woken => FrameInv)'
    BY UnwokenStep
<1>2. QED
    BY <1>1, InitFrame, ControlHolds, PTL DEF Spec

\* A living target's frame ends with every tile it gave out delivered, as long as waits
\* on a condition end only by a signal or by the timeout.
THEOREM FramesComplete == Spec => []FrameComplete
<1>1. ControlInv /\ (~woken => FrameInv) => FrameComplete
  <2>1. SUFFICES ASSUME ControlInv, FrameInv, At("finish_frame"), alive_flag
                 PROVE  delivered = due
    BY DEF FrameComplete
  <2>2. todo = {} /\ tile_queue = <<>>
    BY <2>1 DEF FrameInv, RestDone, QueueEmpty, At
  <2>3. due = todo \cup Queued \cup delivered
    BY <2>1 DEF FrameInv, Accounted, GivingOut, At
  <2>4. QED
    BY <2>2, <2>3, QueuedEmpty
<1>2. QED
    BY <1>1, ControlHolds, FrameHolds, PTL

\* As long, a tile is delivered in the frame it was rendered for: the thread never goes
\* on to the next while tiles of this one wait.
THEOREM TilesOfTheirFrame == Spec => []NoStrayTile
<1>1. (~woken => FrameInv) => NoStrayTile
    BY DEF FrameInv, OfThisFrame, NoStrayTile
<1>2. QED
    BY <1>1, FrameHolds, PTL
================================================================================
