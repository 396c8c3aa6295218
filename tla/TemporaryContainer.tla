--------------------------- MODULE TemporaryContainer ---------------------------
(***************************************************************************)
(* FileContainerTemporary: the files of a document that is open, over the  *)
(* container they were saved in.                                           *)
(*                                                                         *)
(* What the user changes is written to temporary files; an overlay,        *)
(* files_, maps a changed name to its temporary file, or says that it was  *)
(* removed.  save_changes puts the overlay into the container, or into a   *)
(* copy of it under another name, and save_temporary writes the overlay    *)
(* down, so that a process started after a crash can go on from there.     *)
(*                                                                         *)
(* The process runs one call at a time.  save_changes is a call of many    *)
(* writes: it is cut at each of them, which may fail, and at which the     *)
(* process may die.  saving is then the state of the call.                 *)
(***************************************************************************)
EXTENDS ZipContainer, FiniteSets

CONSTANTS
    Files,          \* where containers are stored
    NoFile,
    MaxTmps,        \* bound: temporary files of a name that are there at once
    MaxCalls,       \* bound: calls of the container, and strokes
    Lost,           \* what is read where the temporary file is gone
    Closed,         \* what is read while no document is open
    Damaged         \* what opening a file gives that does not open

ASSUME ContainerAssumption ==
    /\ NoFile \notin Files \union Seq(Block)
    /\ MaxTmps \in Nat
    /\ MaxCalls \in Nat
    /\ Lost \notin Contents \union {Absent}
    /\ \A x \in {Closed, Damaged, NoFile} : x \notin [Plain -> Contents \union {Absent, Lost}]

VARIABLES
    disk,        \* per file its blocks, or NoFile
    tmps,        \* the temporary files that exist
    index,       \* what save_temporary wrote: container_filename_ and files_
    based,       \* temporary_filename_base_ is the name it was written under
    opened,      \* is_opened_
    cname,       \* container_filename_
    zip,         \* container_, or NoZip
    overlay,     \* files_
    saving,      \* the call of save_changes that is under way
    result,      \* the last one returned true, or none was made since the container was opened
    calls        \* bound: calls made so far

vars == <<disk, tmps, index, based, opened, cname, zip, overlay, saving, result, calls>>
storage == <<disk, tmps, index>>
session == <<based, opened, cname, zip, overlay>>

NoZip == [file |-> NoFile, files |-> <<>>, changed |-> FALSE, prev |-> 0]
NoTmp == <<>>
Tmps == Plain \X (1..MaxTmps)
Entry == [directory : BOOLEAN, removed : BOOLEAN, tmp : Tmps \union {NoTmp}]
NoSave == [step |-> "none"]
NoIndex == [kind |-> "none"]
BrokenIndex == [kind |-> "broken"]
IndexOf(f, files, view) == [kind |-> "index", cname |-> f, files |-> files, view |-> view]

Exists(f) == disk[f] # NoFile
Call == calls < MaxCalls /\ calls' = calls + 1
Idle == opened /\ saving = NoSave

\* Temporary files have new names: one that is in use or was written down is not taken again.
Named(files) == {files[n].tmp : n \in DOMAIN files}
Indexed == IF index.kind = "index" THEN Named(index.files) ELSE {}
Taken == DOMAIN tmps \union Named(overlay) \union Indexed
FreeTmps(n) == {k \in 1..MaxTmps : <<n, k>> \notin Taken}
NewTmp(n) == <<n, CHOOSE k \in FreeTmps(n) : \A l \in FreeTmps(n) : k <= l>>

Live(e) == ~e.removed /\ ~e.directory /\ e.tmp # NoTmp

IsFile(n) ==
    IF n \in DOMAIN overlay THEN ~overlay[n].removed /\ ~overlay[n].directory
                            ELSE ZipIsFile(zip, n)
IsDirectory(n) ==
    n = Root \/ IF n \in DOMAIN overlay THEN ~overlay[n].removed /\ overlay[n].directory
                                        ELSE ZipIsDirectory(zip, n)

\* What reading the files gives.
View ==
    [n \in Plain |->
       IF n \notin DOMAIN overlay
         THEN IF zip = NoZip THEN Absent ELSE ZipRead(disk[zip.file], zip, n)
       ELSE IF ~Live(overlay[n]) THEN Absent
       ELSE IF overlay[n].tmp \in DOMAIN tmps THEN tmps[overlay[n].tmp]
       ELSE Lost]

Init ==
    /\ disk = [f \in Files |-> NoFile]
    /\ tmps = <<>>
    /\ index = NoIndex
    /\ based = FALSE
    /\ opened = FALSE
    /\ cname = NoFile
    /\ zip = NoZip
    /\ overlay = <<>>
    /\ saving = NoSave
    /\ result = TRUE
    /\ calls = 0

\* A new document has no container.
Create ==
    /\ Call
    /\ ~opened
    /\ opened' = TRUE
    /\ result' = TRUE
    /\ UNCHANGED <<storage, based, cname, zip, overlay, saving>>

OpenFromHistory(f, k) ==
    /\ Call
    /\ ~opened
    /\ Exists(f)
    /\ Opens(disk[f], k)
    /\ opened' = TRUE
    /\ cname' = f
    /\ zip' = ZipOpened(f, disk[f], k)
    /\ result' = TRUE
    /\ UNCHANGED <<storage, based, overlay, saving>>

Open(f) == Exists(f) /\ OpenFromHistory(f, Len(disk[f]))

\* dialog_open: one of the versions read_history found.
OpenEarlier(f) ==
    /\ Exists(f)
    /\ \E k \in HistorySizes(disk[f]) \ {Len(disk[f])} : OpenFromHistory(f, k)

DirectoryCreate(d) ==
    /\ Call
    /\ Idle
    /\ ~IsFile(d)
    /\ ~IsDirectory(d)
    /\ IsDirectory(Parent[d])
    /\ overlay' = With(overlay, d, [directory |-> TRUE, removed |-> FALSE, tmp |-> NoTmp])
    /\ UNCHANGED <<storage, based, opened, cname, zip, saving, result>>

\* file_open_write, file_write and file_close, with c the whole or a part of what was meant
\* to be written.  A name whose removal was not saved yet is refused.
FileWrite(n, c) ==
    /\ Call
    /\ Idle
    /\ FreeTmps(n) # {}
    /\ IF n \in DOMAIN overlay THEN ~overlay[n].removed /\ ~overlay[n].directory
                               ELSE IsDirectory(Parent[n])
    /\ LET old == IF n \in DOMAIN overlay THEN {overlay[n].tmp} ELSE {}
       IN  tmps' = With(Restrict(tmps, DOMAIN tmps \ old), NewTmp(n), c)
    /\ overlay' = With(overlay, n, [directory |-> FALSE, removed |-> FALSE, tmp |-> NewTmp(n)])
    /\ UNCHANGED <<disk, index, based, opened, cname, zip, saving, result>>

FileRemove(n) ==
    /\ Call
    /\ Idle
    /\ IsFile(n)
    /\ overlay' = With(overlay, n, [directory |-> FALSE, removed |-> TRUE, tmp |-> NoTmp])
    /\ tmps' = IF n \in DOMAIN overlay THEN Without(tmps, overlay[n].tmp) ELSE tmps
    /\ UNCHANGED <<disk, index, based, opened, cname, zip, saving, result>>

\* save_temporary overwrites what it wrote before; an index another session has left under
\* another name is no longer looked for.
WriteIndex(i) ==
    /\ Call
    /\ Idle
    /\ index' = i
    /\ based' = TRUE
    /\ tmps' = Restrict(tmps, DOMAIN tmps \intersect Named(overlay))
    /\ UNCHANGED <<disk, opened, cname, zip, overlay, saving, result>>

SaveTemporary == WriteIndex(IndexOf(cname, overlay, View))
SaveTemporaryFails == WriteIndex(BrokenIndex)

-----------------------------------------------------------------------------
(* save_changes.                                                           *)

\* Names that are gone and names of directories are settled before any file is copied.
Prepared(z) ==
    LET gone == {n \in DOMAIN overlay : overlay[n].removed}
        dirs == {n \in DOMAIN overlay : ~overlay[n].removed /\ overlay[n].directory}
    IN  ZipCreateDirectories(ZipRemove(z, gone), dirs)

Files_ == {n \in DOMAIN overlay : ~overlay[n].removed /\ ~overlay[n].directory}

Copying(f) == [step |-> "container", file |-> f, view |-> View]
Writing(z, at_place, view) ==
    [step |-> "files", zip |-> Prepared(z), at_place |-> at_place,
     left |-> Restrict(overlay, Files_), todo |-> Files_, view |-> view]

SaveAtPlace ==
    /\ Call
    /\ Idle
    /\ cname # NoFile
    /\ saving' = Writing(zip, TRUE, View)
    /\ UNCHANGED <<storage, session, result>>

\* Under another name: the file is emptied before the container is copied to it.
SaveCopy(f) ==
    /\ Call
    /\ Idle
    /\ f # cname
    /\ zip # NoZip
    /\ disk' = [disk EXCEPT ![f] = <<>>]
    /\ saving' = Copying(f)
    /\ UNCHANGED <<tmps, index, session, result>>

SaveNew(f) ==
    /\ Call
    /\ Idle
    /\ f # cname
    /\ zip = NoZip
    /\ disk' = [disk EXCEPT ![f] = <<>>]
    /\ saving' = Writing(ZipCreated(f), FALSE, View)
    /\ UNCHANGED <<tmps, index, session, result>>

Whole == SubSeq(disk[zip.file], 1, zip.prev)

\* What a copy that was broken off has written of the container.
Parts == UNION {{SubSeq(Whole, 1, k), Append(SubSeq(Whole, 1, k), Broken)} : k \in 0..(zip.prev - 1)}

Return(r) == saving' = NoSave /\ result' = r

CopyContainer ==
    /\ saving.step = "container"
    /\ LET f == saving.file
       IN  /\ disk' = [disk EXCEPT ![f] = Whole]
           /\ IF Opens(Whole, Len(Whole))
                THEN /\ saving' = Writing(ZipOpened(f, Whole, Len(Whole)), FALSE, saving.view)
                     /\ UNCHANGED result
                ELSE Return(FALSE)
    /\ UNCHANGED <<tmps, index, session, calls>>

\* The copy is not complete, or does not open.
CopyContainerFails ==
    /\ saving.step = "container"
    /\ \E b \in Parts \union {Whole} : disk' = [disk EXCEPT ![saving.file] = b]
    /\ Return(FALSE)
    /\ UNCHANGED <<tmps, index, session, calls>>

ToWrite(n) == saving.step = "files" /\ n \in saving.todo
CanCopy(n) == ToWrite(n) /\ overlay[n].tmp \in DOMAIN tmps /\ ZipCanWrite(saving.zip, n)

\* The temporary file goes as soon as it has been copied.
SaveFile(n) ==
    /\ CanCopy(n)
    /\ LET z == saving.zip
           b == disk[z.file]
       IN  /\ disk' = [disk EXCEPT ![z.file] = Append(b, FileBlock(tmps[overlay[n].tmp]))]
           /\ saving' = [saving EXCEPT !.zip = ZipWritten(z, b, n),
                                       !.left = Without(@, n), !.todo = @ \ {n}]
    /\ tmps' = Without(tmps, overlay[n].tmp)
    /\ UNCHANGED <<index, session, result, calls>>

\* The name is left with the part that was written, if it came to that.
SaveFileBreaksOff(n) ==
    /\ CanCopy(n)
    /\ LET z == saving.zip
           b == disk[z.file]
       IN  \/ /\ disk' = [disk EXCEPT ![z.file] = Append(b, FileBlock(Torn))]
             /\ saving' = [saving EXCEPT !.zip = ZipWritten(z, b, n), !.todo = @ \ {n}]
          \/ /\ disk' = [disk EXCEPT ![z.file] = Append(b, Broken)]
             /\ saving' = [saving EXCEPT !.zip.changed = TRUE, !.todo = @ \ {n}]
    /\ UNCHANGED <<tmps, index, session, result, calls>>

\* There is nothing to copy, or nowhere to.
SaveFileFails(n) ==
    /\ ToWrite(n)
    /\ ~CanCopy(n)
    /\ saving' = [saving EXCEPT !.todo = @ \ {n}]
    /\ UNCHANGED <<storage, session, result, calls>>

AllTried == saving.step = "files" /\ saving.todo = {}

ReturnsSaved == TRUE
ReturnsComplete == saving.left = <<>>

KeepsNothing == <<>>
KeepsLeft == saving.left

\* A container that is let go is closed, which saves it if it can.
Dropped(z, b) == {ZipSaved(z, b)} \union IF z.changed THEN {Append(b, Broken)} ELSE {}

SaveDirectory ==
    /\ AllTried
    /\ LET z == saving.zip
           b == ZipSaved(z, disk[z.file])
           saved == ZipAfterSave(z, disk[z.file])
           moves == ~saving.at_place /\ saving.left = <<>>
       IN  /\ IF moves /\ zip # NoZip
                THEN \E d \in Dropped(zip, disk[zip.file]) :
                       disk' = [disk EXCEPT ![z.file] = b, ![zip.file] = d]
                ELSE disk' = [disk EXCEPT ![z.file] = b]
           /\ overlay' = IF saving.at_place \/ moves THEN KeepsLeft ELSE overlay
           /\ zip' = IF saving.at_place \/ moves THEN saved ELSE zip
           /\ cname' = IF moves THEN z.file ELSE cname
    /\ Return(ReturnsComplete)
    /\ UNCHANGED <<tmps, index, based, opened, calls>>

\* The container stays changed: one that is let go tries again as it is closed.
SaveDirectoryFails ==
    /\ AllTried
    /\ saving.zip.changed
    /\ LET z == saving.zip
           b == Append(disk[z.file], Broken)
       IN  /\ IF saving.at_place
                THEN disk' = [disk EXCEPT ![z.file] = b]
                ELSE \E d \in Dropped(z, b) : disk' = [disk EXCEPT ![z.file] = d]
           /\ zip' = IF saving.at_place THEN z ELSE zip
    /\ Return(FALSE)
    /\ UNCHANGED <<tmps, index, based, opened, cname, overlay, calls>>

-----------------------------------------------------------------------------
(* The end of a session.                                                   *)

Forget ==
    /\ based' = FALSE
    /\ opened' = FALSE
    /\ cname' = NoFile
    /\ zip' = NoZip
    /\ overlay' = <<>>
    /\ saving' = NoSave

\* close discards the changes, and saves what a failed save left in the container.
Close ==
    /\ Call
    /\ Idle
    /\ tmps' = Restrict(tmps, DOMAIN tmps \ Named(overlay))
    /\ index' = IF based THEN NoIndex ELSE index
    /\ IF zip = NoZip
         THEN UNCHANGED disk
         ELSE \E d \in Dropped(zip, disk[zip.file]) : disk' = [disk EXCEPT ![zip.file] = d]
    /\ Forget
    /\ UNCHANGED result

\* The process dies, perhaps in the middle of a write.  Temporary files that nothing names
\* any more stay behind.
Crash ==
    /\ opened
    /\ \/ UNCHANGED disk
       \/ saving.step = "container" /\ \E b \in Parts : disk' = [disk EXCEPT ![saving.file] = b]
       \/ saving.step = "files" /\ disk' = [disk EXCEPT ![saving.zip.file] = Append(@, Broken)]
    /\ Forget
    /\ tmps' = Restrict(tmps, DOMAIN tmps \intersect Indexed)
    /\ UNCHANGED <<index, result, calls>>

\* open_temporary: the overlay as it was written down, over the container as it is now.
IndexOpens ==
    /\ index.kind = "index"
    /\ index.cname # NoFile => Exists(index.cname) /\ Opens(disk[index.cname], Len(disk[index.cname]))

OpenTemporary ==
    /\ Call
    /\ ~opened
    /\ IndexOpens
    /\ opened' = TRUE
    /\ cname' = index.cname
    /\ zip' = IF index.cname = NoFile THEN NoZip
              ELSE ZipOpened(index.cname, disk[index.cname], Len(disk[index.cname]))
    /\ overlay' = index.files
    /\ based' = TRUE
    /\ result' = TRUE
    /\ UNCHANGED <<storage, saving>>

Save ==
    \/ SaveAtPlace
    \/ \E f \in Files : SaveCopy(f) \/ SaveNew(f)
    \/ CopyContainer
    \/ CopyContainerFails
    \/ \E n \in Plain : SaveFile(n) \/ SaveFileBreaksOff(n) \/ SaveFileFails(n)
    \/ SaveDirectory
    \/ SaveDirectoryFails

Edit ==
    \/ \E d \in Dirs : DirectoryCreate(d)
    \/ \E n \in Plain, c \in Contents : FileWrite(n, c)
    \/ \E n \in Plain : FileRemove(n)

Next ==
    \/ Create
    \/ \E f \in Files : Open(f) \/ OpenEarlier(f)
    \/ Edit
    \/ SaveTemporary
    \/ SaveTemporaryFails
    \/ Save
    \/ Close
    \/ Crash
    \/ OpenTemporary

Spec == Init /\ [][Next]_vars

-----------------------------------------------------------------------------
(* Properties.                                                             *)

ZipType(z) ==
    /\ z.file \in Files
    /\ DOMAIN z.files \subseteq Names
    /\ \A n \in DOMAIN z.files :
         IF n \in Dirs THEN z.files[n] = 0
         ELSE z.files[n] \in 1..Len(disk[z.file]) /\ disk[z.file][z.files[n]].kind = "file"
    /\ z.changed \in BOOLEAN
    /\ z.prev \in 0..Len(disk[z.file])

OverlayType(o) ==
    /\ DOMAIN o \subseteq Names
    /\ \A n \in DOMAIN o :
         /\ o[n] \in Entry
         /\ o[n].directory <=> n \in Dirs
         /\ o[n].tmp = NoTmp <=> o[n].directory \/ o[n].removed

\* The types, and that every offset a container handle holds is that of a file.
TypeOK ==
    /\ opened \in BOOLEAN
    /\ based \in BOOLEAN
    /\ result \in BOOLEAN
    /\ cname \in Files \union {NoFile}
    /\ cname = zip.file
    /\ zip # NoZip => ZipType(zip) /\ zip.prev > 0
    /\ OverlayType(overlay)
    /\ DOMAIN tmps \subseteq Tmps
    /\ tmps \in [DOMAIN tmps -> Contents]
    /\ index.kind = "index" => OverlayType(index.files)
    /\ saving.step = "files" => ZipType(saving.zip) /\ saving.todo \subseteq DOMAIN saving.left

\* Every version ever saved to a container that opens is among those the user can choose from:
\* no failed save, and no return to an earlier version, cuts a part of the history off.
HistoryOffered ==
    \A f \in Files :
      Exists(f) /\ Opens(disk[f], Len(disk[f])) =>
        \A k \in 1..Len(disk[f]) : Ends(disk[f], k) => k \in HistorySizes(disk[f])

Stored(f) ==
    IF ~Exists(f) THEN NoFile
    ELSE IF ~Opens(disk[f], Len(disk[f])) THEN Damaged
    ELSE LET z == ZipOpened(f, disk[f], Len(disk[f])) IN [n \in Plain |-> ZipRead(disk[f], z, n)]

\* What is seen of the container is not what it has as the version last saved.
Dated(n) ==
    LET b == disk[zip.file]
    IN  ZipRead(b, zip, n) # ZipRead(b, ZipOpened(zip.file, b, zip.prev), n)

Shown == IF ~opened THEN Closed ELSE IF saving = NoSave THEN View ELSE saving.view
Saved == [f \in Files |-> Stored(f)]
BackedUp == IF index.kind = "index" THEN index.view ELSE Closed
Target == CASE saving.step = "none" -> NoFile
            [] saving.step = "container" -> saving.file
            [] saving.step = "files" -> saving.zip.file
Outdated == zip # NoZip /\ \E n \in Plain \ DOMAIN overlay : Dated(n)

\* The files of a document keep the promises of FileStore.
Store == INSTANCE FileStore WITH
    NoStore <- NoFile,
    view <- Shown,
    saved <- Saved,
    backup <- BackedUp,
    target <- Target,
    ok <- result,
    dated <- Outdated

ImplementsFileStore == Store!Spec

=============================================================================
