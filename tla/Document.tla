--------------------------------- MODULE Document ---------------------------------
(***************************************************************************)
(* A document of the studio that is kept in a container: what saves it     *)
(* (synfigapp::Instance::save_as with a name that ends in .sfg), what the  *)
(* timer backs up (AutoRecover::auto_backup) and what the next start of    *)
(* the program makes of it (AutoRecover::recover).                         *)
(*                                                                         *)
(* The canvas in memory is a value, canvas, which both write to the file   *)
(* project of the container before they have the container saved.          *)
(* Pictures that are imported, copied or new are written as soon as the    *)
(* action is performed.  A stroke only changes the picture in memory and   *)
(* registers its layer, and save_as writes it; a surface is taken as the   *)
(* same value as the file that is written of it.  There is one document at *)
(* a time.                                                                 *)
(***************************************************************************)
EXTENDS TemporaryContainer

CONSTANTS
    project,     \* #project.sifz
    MaxStrokes   \* bound: strokes a picture has at once

ASSUME ProjectAssumption == project \in Plain
ASSUME StrokesAssumption == MaxStrokes \in Nat

VARIABLES
    canvas,      \* the document in memory
    strokes,     \* per picture what its layer showed after each stroke that is not undone
    unwritten,   \* the pictures the last save that reported success could not write
    unsaved,     \* its action count is not 0, or was when the program died
    listed,      \* the file autorecovery names the index
    handler,     \* the handler of the main loop that is running, and where it is
    started      \* the program has just been started

memory == <<canvas, strokes, unwritten>>
document == <<memory, unsaved, listed, handler, started>>
documentVars == <<vars, document>>

Pictures == Plain \ {project}
Unpainted == [n \in Pictures |-> <<>>]

\* layers_to_save has a layer once for each stroke: performing one appends the layer and
\* undoing one erases one entry.
Registered == {n \in Pictures : strokes[n] # <<>>}
Painted(n) == strokes[n][Len(strokes[n])]

MainLoop == handler.name = "none" /\ saving = NoSave
None == [name |-> "none"]

DocumentInit ==
    /\ Init
    /\ canvas \in Data
    /\ strokes = Unpainted
    /\ unwritten = {}
    /\ unsaved = FALSE
    /\ listed = FALSE
    /\ handler = None
    /\ started = TRUE

\* What is on the screen.  A picture without strokes is taken as its file has it, also where
\* the file has strokes that were saved and all undone since, as its layer is not registered any
\* more, and where undoing a copy removed the file and redoing it brought back the layer alone.
InMemory ==
    [n \in Plain |-> IF n = project THEN canvas
                     ELSE IF n \in Registered THEN Painted(n) ELSE View[n]]

Loaded == strokes' = Unpainted /\ unwritten' = {}

\* App::new_instance
NewDocument ==
    /\ MainLoop
    /\ Create
    /\ canvas' \in Data
    /\ Loaded
    /\ unsaved' = FALSE
    /\ started' = FALSE
    /\ UNCHANGED <<listed, handler>>

\* App::open_as: a container whose project cannot be read is let go of.
OpenDocument ==
    /\ MainLoop
    /\ \E f \in Files : Open(f) \/ OpenEarlier(f)
    /\ View'[project] \in Data
    /\ canvas' = View'[project]
    /\ Loaded
    /\ unsaved' = FALSE
    /\ started' = FALSE
    /\ UNCHANGED <<listed, handler>>

EditCanvas ==
    /\ MainLoop
    /\ opened
    /\ canvas' \in Data
    /\ canvas' # canvas \/ ~unsaved
    /\ unsaved' = TRUE
    /\ UNCHANGED <<vars, strokes, unwritten, listed, handler, started>>

\* Actions that import or copy pictures, or make one to paint on, always under a new name
\* (Instance::generate_new_name, LayerEmbed), and their undo.  The layer shows what was written
\* of it, which may be a part.
EditPicture ==
    /\ MainLoop
    /\ \/ \E n \in Pictures, c \in Contents : ~IsFile(n) /\ FileWrite(n, c)
       \/ \E n \in Pictures : FileRemove(n)
       \/ \E d \in Dirs : DirectoryCreate(d)
    /\ unsaved' = TRUE
    /\ UNCHANGED <<memory, listed, handler, started>>

\* LayerPaint, whose file is left as it is, and its undo.
Paint(n) ==
    /\ MainLoop
    /\ Call
    /\ opened
    /\ IsFile(n)
    /\ Len(strokes[n]) < MaxStrokes
    /\ \E c \in Data \ {InMemory[n]} : strokes' = [strokes EXCEPT ![n] = Append(@, c)]
    /\ unsaved' = TRUE
    /\ UNCHANGED <<storage, session, saving, result, canvas, unwritten, listed, handler, started>>

UndoPaint(n) ==
    /\ MainLoop
    /\ n \in Registered
    /\ strokes' = [strokes EXCEPT ![n] = SubSeq(@, 1, Len(@) - 1)]
    /\ unsaved' = TRUE
    /\ UNCHANGED <<vars, canvas, unwritten, listed, handler, started>>

\* save_as goes through the registered layers before it writes the canvas.
Saving(f, step, todo, failed) ==
    [name |-> "save_as", file |-> f, step |-> step, todo |-> todo, failed |-> failed]

SaveAs(f) ==
    /\ MainLoop
    /\ opened
    /\ handler' = Saving(f, "pictures", Registered, {})
    /\ UNCHANGED <<vars, memory, unsaved, listed, started>>

\* save_surface has no result: where there is no target for the picture, where its layer is
\* not in the canvas or where the copy breaks off, save_as goes on all the same.
SavePicture(n) ==
    /\ handler.name = "save_as"
    /\ handler.step = "pictures"
    /\ n \in handler.todo
    /\ \/ /\ FileWrite(n, Painted(n))
          /\ handler' = [handler EXCEPT !.todo = @ \ {n}]
       \/ /\ FileWrite(n, Torn) \/ UNCHANGED vars
          /\ handler' = [handler EXCEPT !.todo = @ \ {n}, !.failed = @ \union {n}]
    /\ UNCHANGED <<memory, unsaved, listed, started>>

\* The container is saved if the canvas could be written.
SaveCanvas ==
    /\ handler.name = "save_as"
    /\ handler.step = "pictures"
    /\ handler.todo = {}
    /\ \/ FileWrite(project, canvas) /\ handler' = [handler EXCEPT !.step = "container"]
       \/ FileWrite(project, Torn) /\ handler' = None
       \/ UNCHANGED vars /\ handler' = None
    /\ UNCHANGED <<memory, unsaved, listed, started>>

SaveContainer ==
    /\ handler.name = "save_as"
    /\ handler.step = "container"
    /\ saving = NoSave
    /\ IF handler.file = cname THEN SaveAtPlace ELSE SaveCopy(handler.file) \/ SaveNew(handler.file)
    /\ UNCHANGED document

\* The result of save_changes alone decides whether the action count is reset.
ContinueSave ==
    /\ \/ CopyContainer
       \/ CopyContainerFails
       \/ \E n \in Plain : SaveFile(n) \/ SaveFileBreaksOff(n) \/ SaveFileFails(n)
       \/ SaveDirectory
       \/ SaveDirectoryFails
    /\ IF saving'.step # "none"
         THEN UNCHANGED <<unsaved, unwritten, handler>>
         ELSE /\ unsaved' = (unsaved /\ ~result')
              /\ unwritten' = IF result' THEN handler.failed ELSE unwritten
              /\ handler' = None
    /\ UNCHANGED <<canvas, strokes, listed, started>>

\* auto_backup empties its list before it goes through the documents, and writes no painted
\* picture.
AutoBackup ==
    /\ MainLoop
    /\ listed' = FALSE
    /\ handler' = IF opened /\ unsaved THEN [name |-> "auto_backup", step |-> "canvas"] ELSE None
    /\ UNCHANGED <<vars, memory, unsaved, started>>

BackupCanvas ==
    /\ handler = [name |-> "auto_backup", step |-> "canvas"]
    /\ \/ /\ FileWrite(project, canvas)
          /\ handler' = [name |-> "auto_backup", step |-> "container"]
       \/ /\ FileWrite(project, Torn)
          /\ handler' = None
    /\ UNCHANGED <<memory, unsaved, listed, started>>

BackupContainer ==
    /\ handler = [name |-> "auto_backup", step |-> "container"]
    /\ \/ SaveTemporary /\ listed' = TRUE
       \/ SaveTemporaryFails /\ UNCHANGED listed
    /\ handler' = None
    /\ UNCHANGED <<memory, unsaved, started>>

CloseDocument ==
    /\ MainLoop
    /\ Close
    /\ Loaded
    /\ unsaved' = FALSE
    /\ UNCHANGED <<canvas, listed, handler, started>>

\* normal_shutdown removes the list.
Quit ==
    /\ MainLoop
    /\ ~opened
    /\ ~started
    /\ listed' = FALSE
    /\ started' = TRUE
    /\ UNCHANGED <<vars, memory, unsaved, handler>>

CrashProgram ==
    /\ Crash
    /\ handler' = None
    /\ started' = TRUE
    /\ Loaded
    /\ UNCHANGED <<canvas, unsaved, listed>>

ProjectIndexed == Indexed \intersect ({project} \X Nat) \intersect DOMAIN tmps # {}

\* Nothing is recovered but what the list names.
Recover ==
    /\ started
    /\ listed
    /\ ProjectIndexed
    /\ OpenTemporary
    /\ canvas' = View'[project]
    /\ Loaded
    /\ unsaved' = TRUE
    /\ started' = FALSE
    /\ UNCHANGED <<listed, handler>>

\* The index can be read but not the project: the container is let go of, and discards all.
RecoverFails ==
    /\ started
    /\ listed
    /\ IndexOpens
    /\ ~ProjectIndexed
    /\ tmps' = Restrict(tmps, DOMAIN tmps \ Indexed)
    /\ index' = NoIndex
    /\ started' = FALSE
    /\ UNCHANGED <<disk, session, saving, result, calls, memory, unsaved, listed, handler>>

DocumentNext ==
    \/ NewDocument
    \/ OpenDocument
    \/ EditCanvas
    \/ EditPicture
    \/ \E n \in Pictures : Paint(n) \/ UndoPaint(n)
    \/ \E f \in Files : SaveAs(f)
    \/ \E n \in Pictures : SavePicture(n)
    \/ SaveCanvas
    \/ SaveContainer
    \/ ContinueSave
    \/ AutoBackup
    \/ BackupCanvas
    \/ BackupContainer
    \/ CloseDocument
    \/ Quit
    \/ CrashProgram
    \/ Recover
    \/ RecoverFails

DocumentSpec == DocumentInit /\ [][DocumentNext]_documentVars

-----------------------------------------------------------------------------
(* Properties.                                                             *)

Version(f, k) == LET z == ZipOpened(f, disk[f], k) IN [n \in Plain |-> ZipRead(disk[f], z, n)]

\* A document that shows no unsaved changes, and is closed without asking, can be had back:
\* a version of its container has the canvas and the pictures as they are in memory.  It says
\* nothing of painted pictures that save_surface failed to write, for which nobody is told.
SavedMeansStored ==
    opened /\ MainLoop /\ result /\ ~unsaved /\ cname # NoFile =>
        \E k \in HistorySizes(disk[cname]) :
            \A n \in Plain \ unwritten : Version(cname, k)[n] = InMemory[n]

\* When the studio starts after a crash with unsaved changes and offers to recover them, it can.
RecoveryPossible == started /\ listed /\ unsaved => IndexOpens /\ ProjectIndexed

=============================================================================
