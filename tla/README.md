# Synfig in TLA+

Synfig is a 2D vector animation program: a library (`src/synfig-core`), an editor
(`src/synfig-studio`, whose `synfigapp` holds the editing logic and `gui` the
windows) and a template library (`src/ETL`).  This directory models the parts of it
in which order, interleaving and bookkeeping decide whether the program is right,
checks them with TLC on small instances, and proves the most important invariants
with TLAPS for every value of the constants.

`tlc -config X.cfg M` runs a check (the table under *Runs* says which module goes
with which file), `tlapm M.tla` a proof.

## The system

Rendering of an image and conversion of values are numerical, and most of the
windows are forms.  What is left, and hard, is bookkeeping that spans many callbacks.

| component | state it keeps | operations | talks to | what is hard | what makes it correct |
|---|---|---|---|---|---|
| Action system (`synfigapp/action_system.cpp`) | undo and redo stacks, open groups with their depth, counter of unsaved changes | `perform_action`, `undo`, `redo`, `set_action_status`, the clears, `PassiveGrouper` and its `cancel` | actions (perform/undo), and by signals the instance's menus, titles and history window | records of old values that must fit the document they are put back into; groups within groups that count what they own; nine places that must signal; failure half way | undo finds the document its action left; a group owns exactly its actions; cancel restores; menus, titles and unsaved counter are true |
| Compound actions (`action.cpp`: `Action::Super`) | list of actions | perform and undo a list, roll back on failure | single actions | failure half way through a list, and during the rollback | all or nothing |
| Actions (`synfigapp/actions`) | old values | `prepare`, `perform`, `undo` | node graph | undo must restore what perform found | `undo` after `perform` is the identity |
| History window (`historytreestore.cpp`) | a tree of rows | slots of eight signals, `rebuild` | action system | rows patched in place, without looking at the stacks | rows show the stacks |
| Asynchronous renderer (`asyncrenderer.cpp`) | thread, queue of tiles, alive flag, timers | `start`, `stop`, `render_target`, wrapped target | a render thread and the main loop | two threads with a queue, a timed wait and a join; a stop at any moment | every tile arrives in its frame or the render is over; stop returns; end is noticed |
| Targets (`target*.cpp`) | frame and tile counters | `render`, `next_frame`, `next_tile`, `add_tile` | layers, the work area's target | refusals in the middle of a frame | each tile once per frame |
| Work area (`workarea.cpp`) | book of tiles with refresh numbers, flags `queued`, `rendering`, a timer | `queue_render_preview`, `async_render_preview`, `async_update_preview`, `sync_update_preview`, zoom, scroll, draw, onion skins | renderer, canvas view | tiles are marked before they are rendered; renders are thrown away; flags kept in six functions | the window comes to show the canvas |
| Playback (`canvasview.cpp`) | `is_playing_`, a timer | `play_async`, `on_play_timeout`, `stop_async` | work area | skips refreshes while playing | the last frame is shown |
| Instance (`synfigapp/instance.cpp`, `gui/instance.cpp`) | file name, counter, canvas views | save, open, close, revert | action system, files | closing with unsaved work | no silent loss |
| Temporary and zip containers (`filecontainertemporary.cpp`, `filecontainerzip.cpp`) | overlay of changed files; directory at the end of an append-only file | open, read, write, remove, rename, `save_changes`, `save_temporary` | file systems | a crash or an error between two files | what was saved can be opened |
| Auto recovery (`autorecover.cpp`) | list of open documents | timer, backup, recover | counter of unsaved changes, containers | crash at any moment | recent work is recoverable |
| Node graph (`node.cpp`) | parents, children, GUIDs, cached times | `add_child`, `remove_child`, `changed`, `get_times` | everything that is animated | caches that must be dropped along every path | a cached set of times is the true one |
| Animated values, active points, keyframes (`valuenode_animated.cpp`, `valuenode_dynamiclist.cpp`, `keyframe.cpp`) | sorted lists of points in time | insert, find, move | canvas | neighbours and ties in time | lists stay sorted, searches find neighbours |
| Canvas (`canvas.cpp`) | layers, children, groups, exported values | insert, move, rename, inline | node graph | cross references between id maps | maps agree |
| Handles (`ETL/_handle.h`, `_ref_count.h`, `_smart_ptr.h`) | reference counts, lists of replaceable handles | ref, unref, replace | all objects | use after the last reference | one delete, after the last use |
| Locks (`mutex.cpp`) | owner, counts, readers | lock, unlock, reader and writer locks | render threads | writers and readers that wait for each other | exclusion without deadlock |
| State machine template (`ETL/_smach.h`) and tools (`gui/states`) | stack of states | `enter`, `egress`, `push_state`, `pop_state`, `process_event` | work area events | transitions from inside an event's handler | enter and leave are paired |
| Ducks (`duckmatic.cpp`) | handles by id, selection, transform stack | add, select, move | work area, tools | handles rebuilt while held | selection refers to live handles |
| Canvas interface, selection | — | builds actions, opens groups | action system | — | — |
| Values, types, loading and saving, numerics, layers, modules, preview, sound, plugins, ipc, docks and dialogs, command line | various | conversions, formatting, drawing, operating system calls | — | — | — |

`PROJECT.json` lists the files of each, with what is modelled of it.

## Plan

In the order of what a wrong step costs the user.

1. **Done.** The undo history: `EditHistory` (what it promises), `ActionSystem`,
   `HistoryTree`, with `ActionSystemProofs`.
2. **Done.** Rendering of the work area: `AsyncRenderer`, `WorkArea`, which composes
   it with the tile book and the queue of refreshes, and `OnionSkins`; with
   `AsyncRendererProofs`, `WorkAreaProofs` and `OnionSkinsProofs`.
3. **Done.** The actions that arrange layers and those that edit values: `ActionHistory`
   (compound actions), `CanvasLayers` with `LayerActions`, `ValueGraph` with
   `ValueActions`, with `LayerActionsProofs` and `ValueActionsProofs`; both are shown to keep the promise of `EditHistory` that
   `ActionSystem` takes for granted.
4. **Done.** Saving: `ZipContainer`, `TemporaryContainer` and `Document`, which composes
   them with saving, closing and recovery, against the abstract `FileStore`, with
   `DocumentProofs`.
5. **Done.** `StateMachine` (`_smach.h` and its tools), with `StateMachineProofs`.
6. `Handles`, `Locks` with its readers and writers; `Keyframes` (which add waypoints of
   their own to those the user sets) and `DynamicList`; `Duckmatic`.
7. Theorems that could follow: the invariants of `WorkArea` that still hold when frames
   are played with a refresh queued, or when the document is closed (`QuietSpec` has neither).

## Modules

**`ActionSystem`** (synfigapp/action_system.cpp) — one open document and its
`Action::System`.  The document is an opaque member of `Docs`.  An entry of a stack
records the document its `perform` found and the one it left, and `undo` puts the
first back without looking, which is what an `Undoable` is written to do (`LayerActions` and
`ValueActions` check it of theirs).  The
variables carry the source's names (`undo_action_stack_`, `group_stack_`,
`action_count_`, ...); the undo stack is kept oldest first, so that the code's
`front()` is the last element.  Signals are synchronous and there is one GUI thread,
so an operation is one step, its signals included; what their slots keep (menu
sensitivity in `studio::Instance`, the `*` of `CanvasView::update_title`) is in
`undo_status_`, `redo_status_`, `starred`.  `PerformAction`, `BeginGroup`, `EndGroup`
(`~PassiveGrouper`), `CancelGroup(k)` (cancel succeeding, `k = depth`, or stopping at
an action that throws, which an action is only taken to do when it is active), `Undo`,
`Redo(d)`, `ToggleDone` and `ToggleUndone` (`set_action_status` of an entry of either
stack), `ToggleAborted(k)` (the same giving up half way), the two clears and `Save`.
A redo in another document than the recorded one ends in any document, or throws,
which makes the entry inactive.  `saved_doc` and a group's `opened` and `found` are
not stored by the code and serve the properties.

**`EditHistory`** — what a history promises, with no stacks: past documents, the
present, the documents Redo is known to return to and how many redos there are.
`ActionSystem!ImplementsHistory` is its specification under the mapping that reads
past and future out of the stacks, inactive entries skipped.

**`HistoryTree`** (gui/trees/historytreestore.cpp) — extends `ActionSystem` with the
top-level rows of the window and the slot each signal calls: rebuilt after undo and
redo, patched in place after the others.

**`AsyncRenderer`** (gui/asyncrenderer.cpp, synfig-core target_tile.cpp) — one
renderer, its thread and its wrapped tile target.  The GUI thread's handlers are
`Start`, `StartThread` (`start_`, the 50 ms timer), `CallStop`/`SetDead`/`Stopped`
(`stop()` is cut in three because the thread runs while it waits to join) and
`TileReady`.  The render thread has a step for each place where it reads something
another thread writes: `alive_flag` without a lock in `next_frame`, `start_frame`,
`next_tile`, `add_tile`, and everything done under `AsyncTarget_Tile::mutex` as one
step.  Rendering of a group of tiles may fail, and the client's target may refuse a
tile.  `due`, `delivered` and `ended` watch what the client's target gave out and got, and `woken`
whether a wait of this render has ended of itself, without a signal and before its time.
The path is that of quality other than 0 (gather all tiles, then render), which is
what the work area uses unless set otherwise.

**`WorkArea`** (gui/workarea.cpp, renderer_canvas.cpp, canvasview.cpp) — extends
`AsyncRenderer` with its client.  The pictures are numbers: `view` is what should be
shown and rises with every change of the canvas, its time or the zoom; a tile holds
the refresh it was last given out for (`seen`, the `.second` of the tile book) and the
view it shows.  A handler that first has to discard the renderer (`async_renderer=0`)
cannot finish before `stop()` does: `then` holds its rest.  `timers` counts sources
that will call `__render_preview`, since `async_update_preview` clears `queued` and
leaves an earlier timer pending; `timer_id` says whether `render_idle_func_id` still
knows the last of them.  A played frame is rendered synchronously (`SyncUpdatePreview`).

**`MCWorkArea`** — restrictions of it for the runs (below).

**`OnionSkins`** (workarea.cpp, WorkAreaTarget) — the frames of one render with onion
skins: which tiles each frame takes by refresh number and what is blended into them.
That a tile is delivered in its frame (`AsyncRenderer!NoStrayTile`) lets it be taken,
rendered and blended in one step here.

**`StateMachine`** (ETL/_smach.h, gui/states) — the machine of tools of one canvas view.
All of it runs in one thread, but handlers, constructors and destructors call the machine
again while it is in the middle of a transition, so `calls` is a stack of what has not
returned and a step is what the code does between two such calls: `EnterCalls` and
`Entered` are the two halves of `enter()` around its `egress()`, `Popped` is what
`pop_state()` does before it leaves the old state, `EgressPop` and `EgressLast` are the
turns of `egress()`.  A state is current together with its context; `live` holds the
contexts that have been made and not deleted.  A handler ends by returning (`Accept`,
`HandledOK`), by pushing a state and then accepting (`PushStroke`), or by an exception
(`ThrowPop`, `ThrowState`), which takes effect when it is gone from the stack.
`SendStroke` is the event a stroke's destructor sends.  `active` is the button the toolbox
has down, set where constructors and destructors call `Dock_Toolbox::refresh()`.
`asked` is the tool the user asked for last; it and a context's `by` serve the properties.

**`ZipContainer`** (filecontainerzip.cpp) — operators on a container file.  The file is a
sequence of blocks, only ever appended to; a directory block lists the offsets of the
files and where the previous directory was.  A directory opens the file, or a part of it
that is looked at, only as its last block.  A handle is what the class keeps in memory.

**`TemporaryContainer`** (filecontainertemporary.cpp) — the files of an open document: an
overlay of changed names over the container.  `save_changes` is cut at each of its
writes (`SaveFile`, `SaveFileBreaksOff`, `SaveFileFails`, `CopyContainer`,
`SaveDirectory`, ...), each of which may fail, and `saving` is the state of that call;
every other call is a step.  `tmps` are the temporary files, `index` what
`save_temporary` wrote for a recovery.

**`Document`** (synfigapp/instance.cpp, autorecover.cpp, gui/app.cpp) — extends it with the
life of a document: new, open (the latest version or an earlier one), edit, import and
remove a picture, paint on one and undo that, `save_as`, the backups of `auto_backup`, close,
a crash at any moment, a normal end, and the recovery after it.  A picture that is imported or
copied is written when the action is performed; a stroke stays in memory (`strokes`, one entry
of `layers_to_save` each) until `save_as` writes its layer.  `save_as` is a handler of many
steps: `SavePicture` for each registered layer, whose writing may fail, whole or half, without
anyone being told (`save_surface` is void), then `SaveCanvas`, `SaveContainer` and the steps of
`save_changes`, whose result alone resets the count of unsaved changes.  `unwritten` remembers
the pictures that were lost that way.  Backups have no painted pictures.

**`FileStore`** — what the files of a document promise, with neither overlay nor blocks:
what is seen, what is stored under each name and what was backed up.
`Document!ImplementsFileStore` is its specification under the mapping that reads the view
through the overlay and each stored file through its last directory.  It is `dated` while
what the overlay leaves to the container is an earlier version than its last.

**`CanvasLayers`** (canvas.cpp, layer.cpp) — operators on a document of layers: the list of
each canvas with the blank handle that ends it, the canvas a layer was last put in, the
parents of inline canvases, and the sets with the pairs each canvas knows.

**`ActionHistory`** (synfigapp/action.cpp, action_system.cpp) — instanced by the two
modules below.  An action is a record of what its class keeps between calls, and
performing or undoing it gives whether that went well, the document, and what the action
then remembers.  `Action::Super` is a list of such actions, made by its `prepare` whenever
it is performed, done part by part and rolled back when a part throws.  The history is that
of `ActionSystem` without groups: `done` and `undone` hold actions, each with what was seen
before it, and new work leaves `undone` in place, so a redo may meet a document it was not
made for.  With it, the refinement of `EditHistory` is the obligation that `ActionSystem`
leaves to the actions: `undo` shows what was seen before, and a redo in the document the
undo left shows what was seen after.  What single actions do, and what is seen of a
document, are operator parameters.

**`LayerActions`** (synfigapp/actions/layer*.cpp, group*.cpp) — eleven actions, four of them
compound: raising and lowering make their list anew each time, encapsulating and duplicating
the first time only.  The inputs are what the windows offer: selections are of layers that
are seen.

**`ValueGraph`** (layer.cpp, valuenode.cpp, node.cpp, canvas.cpp) — operators on a document
of values: parameters of layers with their own value or the node they are connected to,
constants, switches with two links (as an example of a `LinkableValueNode`) and animated
nodes with waypoints, the names under which nodes are exported, `parent_set` (`users`) and
the cached times of each node with `bchanged` (`stale`).  `Replace` redirects replaceable
handles, and `Collected` frees the nodes nobody holds, so that identities are reused.  The
field `left` is the model's own: the layers a connection made a node forget though it is still used.

**`ValueActions`** (synfigapp/actions/valuedesc*.cpp, valuenode*.cpp, layerparam*.cpp,
waypoint*.cpp) — thirteen single actions, and the six compound ones the user calls on a place
(`ValueDesc`: a parameter, a link, an exported name), which look up the node there and
choose their parts each time they are performed.  `WaypointSetSmart` is taken together with
the action that calls it.  After each step `Settled` frees what neither the document nor an
action of the stacks holds, and asks for the times of all that is seen, as the windows do.

**`ActionSystemProofs`** (with those on `HistoryTree`), **`AsyncRendererProofs`**,
**`WorkAreaProofs`**, **`OnionSkinsProofs`**, **`StateMachineProofs`**, **`DocumentProofs`**,
**`LayerActionsProofs`**, **`ValueActionsProofs`** — theorems.

## Runs

| run | module | file | checks | shows |
|---|---|---|---|---|
| `undo_history` | `HistoryTree` | `HistoryTree.cfg` | `UndoChain`, `GroupDiscipline`, `CancelRestores`, `MenusAgree`, `TitleFollowsCount`, `WindowShowsTimeline`, `ImplementsHistory` | Every interleaving of actions, groups, cancels, undo, redo, toggles, clears and saves up to three actions keeps stacks, groups, menus, titles and the history window consistent, and implements the abstract time line of documents. |
| `cancel_count` | `MCActionSystem` | `Cancel.cfg` | `UnsavedFlagged` (violated) | Cancelling a grouped drag lowers the counter below the number of unsaved changes: an edited document counts as saved. |
| `async_renderer` | `AsyncRenderer` | `AsyncRenderer.cfg` | `TypeOK`, `FrameComplete`, `NoStrayTile`, `QueueServed`, `CompletionReported`, `NothingAfterFinished`, `StopReturns`, `RenderEnds` | Two frames of three tiles, stopped or refused at every point, with waits that may wake of themselves: a frame ends with all its tiles unless such a wake came between, no tile is stranded, the end of the thread is always noticed, stop() always returns and nothing calls back after it. |
| `work_area` | `MCWorkArea` | `WorkArea.cfg` | `RenderingIsTrue`, `QueuedIsTrue`, `RefreshPending`, `PreviewUpdated` | Three changes, zooms, scrolls or played frames at any moment of a render: the two flags that hold refreshes back are true to what is under way, and the window comes to show the canvas as it is. |
| `work_area_close` | `MCWorkArea` | `WorkAreaClose.cfg` | `NothingQueuedWhenGone` (violated) | A work area vanishes with its refresh timer still to go off. |
| `onion_skins` | `OnionSkins` | `OnionSkins.cfg` | `AllLayersShown` | Three refreshes with up to five layers each, given up at any tile: every tile shows all the layers of the last. |
| `state_machine` | `StateMachine` | `StateMachine.cfg` | `ContextsPaired`, `HandlerAlive`, `ToolAskedFor`, `ToolboxShows`, `ViewGone`, `StrokeHeard`, `CallsReturn` | Two drawing tools, six contexts and every event, click, hiding and closing: transitions begun inside handlers and destructors leave no context behind, run in none that is gone and end in the tool the user asked for. |
| `document` | `MCDocument` | `Document.cfg` | `TypeOK`, `HistoryOffered`, `SavedMeansStored`, `ImplementsFileStore` | A project and a picture, which may be painted, in two containers through eight calls, every write of which may fail and be the last before a crash: a title without changes means the canvas and the pictures are stored, but for painted ones that save_surface failed to write; a container that still opens offers every version saved to it; and a save that reports success stored what its files show. |
| `document_recovery` | `MCDocument` | `DocumentRecovery.cfg` | `RecoveryPossible` (violated) | A crash while saving, after a backup, leaves a backup that is offered and cannot be read. |
| `layer_actions` | `MCLayerActions` | `LayerActions.cfg` | `TreeShape`, `SetsListed`, `UndoWorks`, `ImplementsHistory` | Any two of the actions on layers and sets, undone, redone and redone in documents they were not made for: undo restores and redo repeats what was seen, a compound action happens whole or not at all, and the layers stay a tree. |
| `value_actions` | `MCValueActions` | `ValueActions.cfg` | `UsersKnown`, `TimesFresh`, `NamesListed`, `UndoWorks`, `ImplementsHistory` | Any two actions on parameters, links of a switch and exported nodes, undone and redone: undo restores what was seen and can always be done, and parent sets, cached times and names stay true. The two parameters are of one layer; a layer that connect_dynamic_param makes a node forget is noted, and excepted from what is told. |
| `redo_values` | `MCValueActions` | `ValueRedo.cfg` | `RedoRepeats` (violated) | A parameter is converted to a switch and a link of that switch disconnected; both are undone and redone: the conversion makes another switch, and the second redo works on the first. |

Bounds.  Three actions, two levels of groups and two documents let an action be
redone in a document it was not recorded for, below and above inactive ones, with a
group in a group; the theorems remove the bounds.  Three tiles are enough for a queue
with a tile in the hands of the client, one waiting and one still to render, and two
frames for a tile to go astray between them.  Three inputs in `work_area` are enough
for a refresh queued while one is rendering and another has been thrown away; two
tiles, one of which may be scrolled out and in again.  `MaxRefreshes = 3` in
`onion_skins` lets a refresh with few layers follow an abandoned one with many.
Six contexts in `state_machine` are enough to begin a stroke with each of the two tools
and to leave it in a different way (button, stop, click, hiding, closing); tools push
nothing but strokes and strokes push nothing, so the stack never holds more than one
state and `StackSize = 2` is never reached.
Eight calls in `document` are enough to store a picture, save, change it, back up, save
under the other name and be interrupted, also to paint the picture, save it and fail in the next save
(a stroke counts as a call, and there is one at a time; a picture is painted as it was not), and three temporary files of a name for one in
use, one in the index and one being written; contents and file names are symmetric.
Two actions in `layer_actions` are enough for one to be redone after another was done in
between; the start has a layer beside a group with two, and a set with one of them.
Two actions in `value_actions` are enough for the same; one of its starts has nothing but
constants, the other an animated parameter and a switch of an exported constant.  Values are
0 and 1, added modulo 2, times are 0 and 1 with nothing looked at between them, and the 14
objects are more than two actions can make (`Room`).

`MCLayerActions!SoundSpec` leaves out three redos in documents the action was not made
for, in which the code breaks the document: a move that ends behind the end of its canvas
or puts a group into itself, and the removal of several layers.  Selections are of one
canvas, and no name of a set begins another.

`MCValueActions!SoundSpec` redoes an action only where the nodes and waypoints it works on are
in the document (`Finds`): elsewhere a redo acts on what is gone, which `redo_values` shows.
A constant that took the place of a last waypoint has to have that waypoint's value still.
A switch is no link of a switch (`Flat`).  The two parameters are of one layer, so that both may
use one node.  `connect_dynamic_param` then does what `disconnect_dynamic_param` was fixed not to do
(2353284): the node that one of them is connected away from forgets the layer, though the other
parameter still uses it (`layer.cpp:279`).  `ConnectParam` does the same and notes the layer in `left`,
a field that is not in the code; `UsersKnown` and `TimesFresh` except such a layer, and TLC finds
both violated when they do not.

The types of the action system and of the onion skins are left to the proofs
(`TypeCorrect`, `OnionInv`); the start documents of the layer and value actions are assumed
to be as they are read from a file (`Loaded`: typed, and a tree) or well typed, which TLC
evaluates, and their refinement keeps what is seen in its type.

`MCWorkArea` restricts what the user does.
`QuietSpec`: nothing is edited while playing, frames come neither with a refresh
queued nor in the 50 ms before a render starts, and playing is stopped by hand; `CloseSpec`
has no playing and closes the document.  Deadlock is not checked there, nor in `state_machine`: a work
area that shows the canvas waits for its user, a closed view is gone, and the inputs are
bounded.

Violations are real disagreements of code and documentation, described under
`findings` in `PROJECT.json`:

* `cancel_count`: the counter of unsaved changes can be 0 for a document that was never
  saved in this form, after a cancelled group (and after undoing past the save point and
  doing something new).  Closing then does not ask, and the autosave timer does nothing.
* `work_area_close`: the timer of a queued refresh survives the work area.
* `document_recovery`: a crash after a save, or in the middle of one, leaves an index of
  temporary files that are gone, and the offered recovery fails.
* `redo_values`: a conversion that is redone makes new nodes, and what is redone after it
  works on those of the first time, which are in the document no more.

Others are recorded as hazards, at the lines where they are, and the runs leave them out: a
frame played before a render's start timer leaves `rendering` set for good, and one played with
a refresh queued leaves `queued` set; the last frame of a playback is not drawn; with more
layers of onion skins than a refresh counts the first are not drawn; a move of a layer redone
after another layer left its canvas puts it behind the blank handle that ends the list.

## Fairness

`AsyncRenderer` assumes that the main loop calls each source that is ready (the start
timer, the dispatcher behind `stop` and `tile_ready`) and that the render thread runs:
weak fairness of each of those actions, none of the client's.  It does not assume that a
wait wakes early, and `stop()` makes progress only when the thread has ended, as a join
does.  The dispatcher is a pipe the main loop polls and the timed wait ends after
`BOREDOM_TIMEOUT` at the latest, so a thread that waits always moves again.
`WorkArea` assumes the same of its timers, its redraws and its handlers.  Nothing is
assumed of the user.  `StateMachine` assumes that a call that has begun goes on, which is
all `CallsReturn` needs.  The histories have no liveness: each operation ends by itself; nor
has the document: a save that the process survives ends, and nothing makes it survive.

`FrameComplete` and `NoStrayTile` speak of renders none of whose waits ended of itself
(`~woken`): `end_frame` takes a return of `timed_wait` that is not a timeout for the signal
and does not look at the queue again.  The other properties of the
renderer hold with such waits too; `WorkArea` has no such waits and no rendering that fails, both of which
lose tiles (`AreaRenderStep`).

## Proofs

`ActionSystemProofs` proves `Spec => []IInv` and from it type correctness and the five invariants of the action
system that the run `undo_history` checks, for any set of documents, any stack height, nesting and counter bound.
`IInv` is

* `Structure`: types, groups owning the top of the stack (`GroupDiscipline`), and
  facts about where groups were opened that make it inductive;
* `Records`: `UndoChain`, and for every open group, that the document below what it
  owns is the one it found. `UndoChain` alone is inductive for undo, but merging a
  group and cancelling one need to know what lies under the group's own entries;
* `MenusAgree` and `TitleFollowsCount`, which are inductive given `Structure`.

The lemmas about `DocBelow` (the document below a position of a stack, inactive entries
skipped) carry most of the argument: how it changes when the stack is cut, extended or
merged.  `CancelRestores` then follows from `Structure` and `Records` in one state.

It also proves that `ActionSystem` implements `EditHistory` (`Implements`), on top of these.
What the mapping reads out of the stacks is first made a function of a stack and a document
(`Chain`, the documents met when a stack is undone; `Promised`, what Redo is known to return
to), and lemmas say what each change of a stack does to it; then each action is shown to be
a step of `EditHistory` or to leave its variables as they are.  The proof needs `UndoChain`
at every step: without it, what the abstract history shows as the past is not what undo
would show.

The last part of `ActionSystemProofs` proves `WindowShowsTimeline` of `HistoryTree`.  The window only listens, so each
step of it is one of `ActionSystem` (`TreeIsHistory`), and its invariants may be used.
`TreeInv` says that the rows are some rows of actions taken to be done, followed by those of the
redo stack, and that the former are those of the undo stack below the outermost group
(`Ended`) unless the window was rebuilt while a group was open (`early`), when it shows
entries that the end of the group replaces by one.  The recursive function `Without` is replaced by its explicit solution.

`AsyncRendererProofs` proves the invariants of the run `async_renderer`: `TypeOK` and four
more from `ControlInv`, for any tiles, any number of frames and waits that wake as they like.
None of them is inductive alone: that a thread's end is noticed needs to know where
the thread can be while `stop()` is under way and which source is connected
(`ThreadKnown`, `SourceKnown`), and that counters stay in their types needs that the
frames of the thread and those still to come add up (`FramesCounted`).
`FrameComplete` and `NoStrayTile`, which assume `~woken`, are proved from `ControlInv` and
`FrameInv`: while the target lives, a tile given out is to be rendered, in the queue or
delivered (`Accounted`), and nothing is left in the queue between two frames
(`QueueEmpty`, `RestDone`, `OfThisFrame`).  A dead target is exempt throughout, as the
code throws its tiles away.

`OnionSkinsProofs` proves `AllLayersShown` from `OnionInv`: a render works on the last
refresh, no tile was given out for a later one, and each tile either has its part of
this frame (it was seen at `refresh_id - Left` and shows the layers drawn so far) or still
waits for it with an older number.  The theorem assumes `MaxLayers <= RefreshStep`, which
is needed where a tile of an earlier refresh must be told from one of this refresh;
that is a limit the code does not keep: nothing bounds the number of layers.

`WorkAreaProofs` proves `RenderingIsTrue`, `QueuedIsTrue` and `RefreshPending` for `QuietSpec`,
which is what the run checks, with any tiles and no bound on refreshes or inputs.  Every
step of the work area is a step of its renderer or leaves it alone, so the renderer's invariants
hold below it.  `AreaInv` adds

* `TimersInv`: a flag that waits for a timer has one, and the timer the code remembers is there;
* `RenderInv` and `RefreshInv`: `rendering` is set exactly while there is a render, and the
  render is that of the last refresh unless a handler that waits for `stop()` is going to
  replace it; without a timer, the refresh is for the view there is now;
* `MarkedInv` and `PicturesInv`: a tile that is marked as seen by the last refresh
  shows the view or is on its way, in the hands of the client, in the queue or rendered;
* `LosslessInv`: a render nobody stops loses none of its tiles (from `FrameInv`);
* `RestInv`: what a handler cut by `stop()` still has to do.

`RefreshPending` is the one that needs them all: that a tile which shows an old view has a
refresh on its way depends on the marks being true, and those on the render being the last one.

`StateMachineProofs` proves the six invariants of the run `state_machine` for a stack of any
size and any number of contexts.  Its invariant is a discipline of the stack of calls: each
kind of call (`enter`, `egress`, `pop_state`, a handler, a constructor or a destructor) counts
on something about the machine and about the call under it, and says what it leaves when it
returns (`Discipline`: `Nested`, `FramesOK`, `BottomOK`, `EndOK`).  `ContextsPaired` is not
inductive without it: between the deletion of a context and the end of the call that deleted
it, the pairing is only as good as what the calls below still assume.  `Distinct` says that no
context is current twice, and `ShownOK` what the toolbox shows while a transition is under way.

`DocumentProofs` proves every property of the run `document`, for any names, contents,
containers and temporary files, any number of calls and strokes, and a failure or a death at
any write.  `DocumentInv` says

* of a container (`Sound`): a directory refers only to files before it and to the directory
  before it, which makes the chain of versions one; a handle that is in use fits its
  container (`Fits`), also while another handle of the same container appends to it;
* of a save (`SavingInv`, `Tracked`): a name that was saved can be read from the new container
  as it was seen, or the name was never changed and an earlier version is shown; a name still
  to be saved can be seen as it was.  This is what makes the result of `save_changes` true,
  since the temporary files are gone by the time the directory is written;
* of a backup (`IndexInv`): what the index names shows what was backed up, as far as its
  temporary files are there;
* of the handlers (`HandlerInv`, `CleanInv`): what is written to the container is the canvas and
  the painted pictures, but for those that failed; and while the title is clean nothing but these
  is in the overlay, left there by a save that gave up before it reached the container.

`SavedMeansStored` does not say that a clean document loses nothing.  It leaves out what the code
does not keep: a painted picture that `save_surface` failed to write, since `save_as` resets the
count all the same; a picture all of whose strokes were undone after a save, whose layer is no
longer registered, so that the file keeps the strokes; a copied picture that was undone and redone,
which is shown but whose file the undo removed; and the pictures of an earlier version
saved under another name, which turn into those of the latest in the file and on the screen.

`DocumentHistory` needs the list of versions that the recursive definition of `read_history`
computes; it is the only one that solves its equation, as each step back goes down the
container.  `DocumentImplementsFileStore` maps every action to a step of `FileStore` from the same
facts, one lemma for each kind of step.  Planning it showed that `FileStore` was wrong beyond
the bounds of the run: writing over the names in which an earlier version differs from the last
one ends `dated`, which a mapping that compared the offsets did not say.  `RecoveryPossible` cannot be proved: it is
the expected violation of `document_recovery`.

`LayerActionsProofs` proves `TreeShape` and `UndoWorks` for `SoundSpec`, which is what the run
checks, and of `ImplementsHistory` what it says of the places of layers: `UndoBack` and
`RedoAgain`, for any layers, groups within groups, selections and number of actions.  Whether an
action can be undone depends on where its layers are, and that on all actions done before, so an
invariant on the document alone is not inductive.  `LInv` says that there are contents of the
canvases, one before and after each action of the stacks, such that

* `Took`: wherever an action's later contents are found, undoing it leads to the earlier ones,
  and wherever the earlier are found, performing it leads to the later ones again, with the same
  memory; this speaks of any document with these contents, as the canvas a layer remembers and
  the parents of canvases differ from one time to the next;
* `PastOk` and `AheadOk`: the past contents end in the present ones, the promised ones begin with
  them, and what the history recorded as seen is seen of these contents (`SeenAs`);
* `Fit` and `Apart`: an action's layers have been in the document, but for the one it brings
  into it, which was not in any of the contents before; so an undone action that brings in a layer
  never meets it, however much new work lies between.

`Shaped` is the tree: no layer is in two places, and a layer or the canvas of a group that is in a
canvas knows in which.  There is one lemma for what each single action does to the contents; for
the compound ones, that the list runs to its end, or stops at a part that has left everything as
it was, after which the rollback undoes parts each of which can be undone (`SuperPerformDone`).
That is shown of raising and lowering, grouping and copying one by one, as it is not true of any list:
a move to the root made for another canvas throws when it is undone (`Sure`).  Of what
`SoundSpec` leaves out, the proofs use only that the blank handle stays at the end and that
no removal of several layers is redone in a document it was not made for, not `Nested`.

`ValueActionsProofs` proves `UsersKnown` for every redo in any document (`FlatSpec`) and
`UsersKnown` and `TimesFresh` for `SoundSpec`, which is what the run checks, with any parameters, names, values and
numbers of objects and actions.  `WiredInv` is the invariant:

* `Wired`: what a link, parameter or name leads to is a node that is there, of the kind the
  place allows, and the parent sets are true (`UsersTrue`).  A change of a parent set is only right
  if the link that goes was the one the set knew of, so neither part is inductive alone;
* `Flat`: no switch is a link of a switch, which bounds how far a change travels.  Both
  specifications leave out the steps that end this;
* `StacksOK`: the actions of both stacks work on nodes of the right kind that are
  there.  It survives `Collected`, which frees what nobody holds, because the actions hold
  what they work on (`Held`), and every step, because a node that is held keeps its kind.

There is one lemma for what each single action does and for what undoing it does, one for a compound
action's list of them, done in order and rolled back when one throws, and one for what each compound action prepares.
`TimesFresh` adds `TimesTrue`: a time set that is cached is true or marked as stale, or
something above the change still has to be told.  It assumes that named nodes stay in the list
of exported nodes (`NamesListed`, which the run checks): the removal of a last
waypoint, redone on a named node that is missing from the list, throws halfway and leaves
what it has done to the times behind.

The theorems on values are of layers with any number of parameters, and except, as the
properties do, the layers in `left`: what is left of the invariant is that no object is ever
forgotten, that a layer is only where `ConnectParam` says so, and that nobody is told who does not use a node.
Planning the proof showed that
`Refreshed` was wrong beyond the bounds of the run: it forgot the cached times of nodes that are not seen, which the
code keeps until they are asked for.

TLC alone checks:

* liveness (`StopReturns`, `RenderEnds`, `PreviewUpdated`, `CallsReturn`), which the prover
  cannot express;
* of `LayerActions`, what undo and redo do to the sets of layers: `SetsListed`, and that part of
  `ImplementsHistory`.  Disbanding and renaming rely on the pairs that the root was told, and
  those on chains of parents that are only known to be free of circles between two actions;
* of `ValueActions`, that undoing gives back exactly what was there (`UndoWorks`,
  `ImplementsHistory`) and `NamesListed`, which depends on it: an undone export takes its node out
  of the list again only if all that was done since has been undone to the letter.

## Not modelled

Cairo, scanline and whole-frame targets and the single-threaded build; the quality-0 loop
of `Target_Tile`; a work area that is not visible; `DirtyTrap` (a delay of `Change`);
cancelling a synchronous render from its progress callback; main loops run from inside a
handler; the races on the tile book between `start_frame` and drawing (undefined
behaviour); warm targets whose `start_frame` fails.  In the action system: non-undoable
actions (none exists) and the re-entrancy guard they meet; the front of an empty undo stack that
`set_action_status` copies, beyond the null handle the GNU library gives.  In the state machine: states
that fail to be entered and nested or child machines (none in the tree), the other tools,
and events handled by the main loop that `Instance::close` runs between hiding its views
and letting them go.  In the containers: a write that fails when a file is closed, the tree of
directories deeper than one, and the contents of files, which are model values.  In the document:
what encoding a painted picture loses (a surface is the same value as the file written of it),
layers painted on that have no picture in the container, and a count of unsaved changes that
comes back to 0 by undo (`ActionSystem` has it; here every edit and undo leaves changes).  In the
layers: linked parameters and duplicating several layers at once.  In the values: the waypoints
that `enclose_waypoint` adds at keyframes, moving a waypoint in time, nodes at waypoints and in
lists, values in between two waypoints, the other conversions, exported canvases, connecting an
exported node to another (which the code warns cannot be undone), and a node linked below itself.  The remaining components are
listed in `PROJECT.json` with the reason.
