------------------------------ MODULE ZipContainer ------------------------------
(***************************************************************************)
(* FileContainerZip: a storage file that is only ever appended to.         *)
(*                                                                         *)
(* The storage file is a sequence of blocks: the local headers with the    *)
(* contents that follow them, the central directories that end a saved     *)
(* version, and what an interrupted write has left.  A position is the     *)
(* number of blocks before it, so that the offset of a block and the size  *)
(* of the file when it was last are both its index.  A directory is good   *)
(* only as the last thing of the file, or of the part that is looked at:   *)
(* its comment has to run to the end.                                      *)
(*                                                                         *)
(* A handle on an open container is the names it knows with the offsets of *)
(* their blocks (a directory has none: 0), changed_ and                    *)
(* prev_storage_size_.                                                     *)
(***************************************************************************)
EXTENDS Naturals, Sequences, Functions

CONSTANTS
    Dirs, Plain,       \* names of directories, names of files
    Root,              \* the top of a container
    Parent,            \* the directory a name is in
    Data,              \* what a file may hold
    Torn,              \* what a copy that was broken off has left of it
    Absent             \* there is no such file

Names == Dirs \union Plain

ASSUME NamesAssumption ==
    /\ Dirs \intersect Plain = {}
    /\ Root \notin Names
    /\ Parent \in [Names -> Dirs \union {Root}]

ASSUME DataAssumption == Absent \notin Data /\ Torn \notin Data /\ Torn # Absent

Contents == Data \union {Torn}

FileBlock(c) == [kind |-> "file", data |-> c]
Broken == [kind |-> "broken"]
EndBlock(files, prev) == [kind |-> "end", files |-> files, prev |-> prev]

Tables == UNION {[D -> Nat] : D \in SUBSET Names}
Block ==
         [kind : {"file"}, data : Contents]
    \cup {Broken}
    \cup [kind : {"end"}, files : Tables, prev : Nat]

Ends(b, k) == k \in 1..Len(b) /\ b[k].kind = "end"

Without(f, n) == [m \in DOMAIN f \ {n} |-> f[m]]
With(f, n, x) == [m \in DOMAIN f \union {n} |-> IF m = n THEN x ELSE f[m]]

\* The file, looked at as when it was k blocks long, can be opened.
Opens(b, k) == Ends(b, k)

ZipOpenedAsThen(f, b, k) == [file |-> f, files |-> b[k].files, changed |-> FALSE, prev |-> k]
ZipOpened(f, b, k) == [file |-> f, files |-> b[k].files, changed |-> FALSE, prev |-> Len(b)]
ZipCreated(f) == [file |-> f, files |-> <<>>, changed |-> TRUE, prev |-> 0]

\* The sizes read_history lists: that of the file and those its comments lead back to.
HistorySizes(b) ==
    LET back[k \in 0..Len(b)] ==
            IF ~Ends(b, k) THEN {}
            ELSE {k} \union IF b[k].prev \in 1..(k - 1) THEN back[b[k].prev] ELSE {}
    IN  back[Len(b)]

ZipIsFile(z, n) == n \in Plain /\ n \in DOMAIN z.files
ZipIsDirectory(z, n) == n = Root \/ (n \in Dirs /\ n \in DOMAIN z.files)

ZipRead(b, z, n) == IF ZipIsFile(z, n) THEN b[z.files[n]].data ELSE Absent

\* Files are erased whether or not they are there, without touching the storage.
ZipRemove(z, ns) ==
    [z EXCEPT !.files = [m \in DOMAIN z.files \ ns |-> z.files[m]],
              !.changed = @ \/ ns \intersect DOMAIN z.files # {}]

ZipCreateDirectories(z, ds) ==
    [z EXCEPT !.files = [m \in DOMAIN z.files \union ds |-> IF m \in ds THEN 0 ELSE z.files[m]],
              !.changed = @ \/ ds \ DOMAIN z.files # {}]

\* A file is written at the end, wherever its last contents are.
ZipCanWrite(z, n) == n \in Plain /\ (n \in DOMAIN z.files \/ ZipIsDirectory(z, Parent[n]))
ZipWrittenBefore(z, b, n) == [z EXCEPT !.files = With(z.files, n, Len(b)), !.changed = TRUE]
ZipWritten(z, b, n) == [z EXCEPT !.files = With(z.files, n, Len(b) + 1), !.changed = TRUE]

\* What save appends, and the handle afterwards.
ZipSaved(z, b) == IF z.changed THEN Append(b, EndBlock(z.files, z.prev)) ELSE b
ZipAfterSave(z, b) == IF z.changed THEN [z EXCEPT !.changed = FALSE, !.prev = Len(b) + 1] ELSE z

=============================================================================
